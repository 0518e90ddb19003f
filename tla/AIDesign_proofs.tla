---------------------------- MODULE AIDesign_proofs ----------------------------
(***************************************************************************)
(* What the AI design Jobs of AIDesign keep, for any number of Jobs,       *)
(* attempts and workers, any repair budget and any number of restarts.     *)
(*                                                                         *)
(* A worker that has claimed a Job holds it alone until the process dies:  *)
(* no other worker writes the row of the Job or its attempts, and startup  *)
(* recovery only looks at Jobs that nobody holds.  So each phase of the    *)
(* worker tells what the ledger has of its attempt, the last one of the    *)
(* Job, and that is what sealing and cancellation rest on.                 *)
(***************************************************************************)
EXTENDS AIDesign, TLAPS

-----------------------------------------------------------------------------
(* The rows.                                                               *)

RunRows ==
    [status : Status \cup {"none"}, row : BOOLEAN, phase : Phase, owner : Workers \cup {None},
     gen : 0..1, result : Attempts \cup {None}, input : Nat]

AttemptRows ==
    [job : Jobs \cup {None}, kind : {"none", "initial", "repair", "explicit_retry"}, ordinal : Nat,
     round : Nat, parent : Attempts \cup {None}, gen : 0..1, response : {"none", "valid", "malformed"},
     outcome : {"none", "failed", "canceled", "succeeded", "interrupted"}, seal : BOOLEAN, calls : Nat]

Answers == {"none", "valid", "malformed", "failed", "stopped"}

WorkerRows ==
    [pc : {"idle", "loaded", "working", "checked", "registered", "leased", "calling", "answered", "accepted",
           "responded", "patched", "sealed", "done", "late", "lost", "stopped"},
     job : Jobs \cup {None}, view : RunRows, attempt : Attempts \cup {None},
     lease : {"none", "live", "canceled"}, answer : Answers]

Typed ==
    /\ run \in [Jobs -> RunRows] /\ attempt \in [Attempts -> AttemptRows]
    /\ worker \in [Workers -> WorkerRows] /\ signaled \in [Jobs -> 0..1]
    /\ base \in Nat

-----------------------------------------------------------------------------
(* The invariant.                                                          *)

(* An attempt nobody has asked the provider about.                         *)
Unasked(a) == attempt[a].calls = 0 /\ attempt[a].response = "none" /\ attempt[a].outcome = "none"
Open(a) == attempt[a].calls = 1 /\ attempt[a].response = "none" /\ attempt[a].outcome = "none"
Whole(a) == /\ attempt[a].seal /\ attempt[a].calls = 1
            /\ attempt[a].response = "valid" /\ attempt[a].outcome = "succeeded"
            /\ a \in patches

IsLast(a, j) == a \in AttemptsOf(j) /\ \A b \in AttemptsOf(j) : attempt[b].ordinal <= attempt[a].ordinal

ParentsExist == \A a \in Attempts : attempt[a].kind \in {"repair", "explicit_retry"} => attempt[a].parent \in Attempts

JobIsSound(j) ==
    /\ run[j].status = "none" => run[j] = NoRun /\ AttemptsOf(j) = {}
    /\ run[j].status = "queued" => \A a \in AttemptsOf(j) : Unasked(a)
    /\ run[j].status \in {"none", "queued"} => j \notin pending
    /\ run[j].status = "succeeded" =>
          run[j].gen = 0 /\ j \in evidence /\ IsLast(run[j].result, j) /\ Whole(run[j].result)
    /\ AttemptsOf(j) # {} => \E a \in Attempts : IsLast(a, j)
    /\ signaled[j] <= run[j].gen
    /\ j \in canceling => run[j].gen = 1

(* The worker has claimed its Job.                                         *)
Holds(w) == worker[w].view.status \in {"running", "succeeded"}

(* What the ledger has of the attempt of a worker.                         *)
AttemptIsSound(w) ==
    LET a == worker[w].attempt
        pc == worker[w].pc IN
    /\ a = None => pc \in {"working", "lost"} /\ \A b \in AttemptsOf(worker[w].job) : Unasked(b)
    /\ a # None => IsLast(a, worker[w].job)
    /\ a # None /\ pc \in {"working", "checked", "registered", "leased"} => Unasked(a)
    /\ pc \in {"calling", "answered", "accepted"} => Open(a)
    /\ pc \in {"accepted", "responded"} => worker[w].answer \in {"valid", "malformed"}
    /\ pc = "responded" =>
          /\ attempt[a].calls = 1 /\ attempt[a].outcome = "none"
          /\ attempt[a].response = worker[w].answer
    /\ pc = "patched" =>
          /\ attempt[a].calls = 1 /\ attempt[a].response = "valid" /\ a \in patches
    /\ pc = "sealed" => Whole(a)

HolderIsSound(w) ==
    LET j == worker[w].job
        pc == worker[w].pc
        p == worker[w].view.phase IN
    /\ j \in Jobs /\ j \notin pending
    /\ run[j].status = worker[w].view.status
    /\ worker[w].view.status = "succeeded" <=> pc = "done"
    /\ p > 1 => j \in evidence
    /\ pc \in {"checked", "registered", "leased", "calling", "answered", "accepted"} => p = 3
    /\ pc = "working" /\ worker[w].attempt # None => p = 3
    /\ pc = "responded" /\ worker[w].answer = "malformed" => p = 3
    /\ pc \in {"registered", "leased", "calling", "answered", "accepted", "responded"} => worker[w].lease # "none"
    /\ pc \in {"leased", "calling", "answered", "accepted", "responded"} /\ signaled[j] > 0 =>
          worker[w].lease = "canceled"
    /\ AttemptIsSound(w)

WorkerIsSound(w) ==
    /\ worker[w].pc = "idle" => worker[w] = Idle
    /\ worker[w].pc = "loaded" =>
          worker[w].job \in Jobs /\ worker[w].view.status = "queued" /\ worker[w].view.phase = 1
          /\ worker[w].attempt = None /\ worker[w].lease = "none"
    /\ worker[w].pc \notin {"idle", "loaded", "lost"} => Holds(w)
    /\ worker[w].lease # "none" => Holds(w)
    /\ Holds(w) => HolderIsSound(w)

OneHolder ==
    \A v, w \in Workers : Holds(v) /\ Holds(w) /\ worker[v].job = worker[w].job => v = w

IInv ==
    /\ Typed /\ ParentsExist /\ LineageIsChain /\ OneHolder
    /\ \A j \in Jobs : JobIsSound(j)
    /\ \A w \in Workers : WorkerIsSound(w)

-----------------------------------------------------------------------------
(* What a step leaves alone.                                               *)

LEMMA NoneFacts ==
    ASSUME AIDesignAssumption
    PROVE  None \notin Workers /\ None \notin Attempts /\ None \notin Jobs /\ Attempts \subseteq Nat
           /\ MaxRounds \in Nat
  BY DEF AIDesignAssumption

LEMMA IdleFacts ==
    /\ Idle \in WorkerRows /\ Idle.pc = "idle" /\ Idle.lease = "none" /\ Idle.job = None
    /\ Idle.view.status = "none" /\ Idle.attempt = None
    /\ NoRun \in RunRows /\ NoAttempt \in AttemptRows /\ NoAttempt.job = None
    /\ NoAttempt.outcome = "none" /\ NoAttempt.kind = "none"
<1>1. NoRun \in RunRows /\ NoRun.status = "none"
  BY DEF NoRun, RunRows, Phase, InputPinned
<1>2. NoAttempt \in AttemptRows /\ NoAttempt.job = None /\ NoAttempt.outcome = "none" /\ NoAttempt.kind = "none"
  BY DEF NoAttempt, AttemptRows
<1> QED
  BY <1>1, <1>2 DEF Idle, WorkerRows, Answers

(* The step leaves the attempts of Job j alone, and loses nothing of it.   *)
SameLedger(j) ==
    /\ AttemptsOf(j)' = AttemptsOf(j)
    /\ \A a \in AttemptsOf(j) : attempt'[a] = attempt[a] /\ (a \in patches => a \in patches')
    /\ j \in evidence => j \in evidence'

Undisturbed(j) ==
    /\ run'[j].status = run[j].status
    /\ SameLedger(j)
    /\ signaled'[j] = signaled[j] /\ (j \in pending' => j \in pending)

LEMMA WorkerStays ==
    ASSUME NEW w \in Workers, WorkerIsSound(w), worker'[w] = worker[w],
           Holds(w) => Undisturbed(worker[w].job)
    PROVE  WorkerIsSound(w)'
<1>1. ASSUME Holds(w) PROVE HolderIsSound(w)'
  <2>1. HolderIsSound(w) /\ Undisturbed(worker[w].job)
    BY <1>1 DEF WorkerIsSound
  <2>2. AttemptIsSound(w)'
    <3>1. AttemptIsSound(w) /\ SameLedger(worker[w].job)
      BY <2>1 DEF HolderIsSound, Undisturbed
    <3>2. CASE worker[w].attempt = None
      BY <3>1, <3>2 DEF AttemptIsSound, SameLedger, Unasked
    <3>3. CASE worker[w].attempt # None
      <4>1. worker[w].attempt \in AttemptsOf(worker[w].job)
        BY <3>1, <3>3 DEF AttemptIsSound, IsLast
      <4> QED
        BY <3>1, <3>3, <4>1 DEF AttemptIsSound, SameLedger, IsLast, Unasked, Open, Whole
    <3> QED
      BY <3>2, <3>3
  <2> QED
    BY <2>1, <2>2 DEF HolderIsSound, Undisturbed, SameLedger
<1> QED
  BY <1>1 DEF WorkerIsSound, Holds

LEMMA JobStays ==
    ASSUME NEW j \in Jobs, JobIsSound(j), run'[j] = run[j], Undisturbed(j),
           j \in canceling' => j \in canceling
    PROVE  JobIsSound(j)'
<1>1. ASSUME NEW a, IsLast(a, j) PROVE IsLast(a, j)'
  BY <1>1 DEF IsLast, Undisturbed, SameLedger
<1>2. ASSUME NEW a \in AttemptsOf(j), Whole(a) PROVE Whole(a)'
  BY <1>2 DEF Whole, Undisturbed, SameLedger
<1>3. ASSUME NEW a \in AttemptsOf(j), Unasked(a) PROVE Unasked(a)'
  BY <1>3 DEF Unasked, Undisturbed, SameLedger
<1>4. run[j].status = "succeeded" => (run[j].gen = 0 /\ j \in evidence /\ IsLast(run[j].result, j) /\ Whole(run[j].result))'
  <2>1. SUFFICES ASSUME run[j].status = "succeeded"
                 PROVE  (run[j].gen = 0 /\ j \in evidence /\ IsLast(run[j].result, j) /\ Whole(run[j].result))'
    OBVIOUS
  <2>2. run[j].gen = 0 /\ j \in evidence /\ IsLast(run[j].result, j) /\ Whole(run[j].result)
    BY <2>1 DEF JobIsSound
  <2>3. PICK a : a = run[j].result
    OBVIOUS
  <2>4. a \in AttemptsOf(j) /\ a = run'[j].result
    BY <2>2, <2>3 DEF IsLast
  <2>5. IsLast(a, j)' /\ Whole(a)'
    BY <1>1, <1>2, <2>2, <2>3, <2>4
  <2> QED
    BY <2>2, <2>4, <2>5 DEF Undisturbed, SameLedger, IsLast, Whole
<1>5. AttemptsOf(j)' # {} => \E a \in Attempts : IsLast(a, j)'
  BY <1>1 DEF JobIsSound, Undisturbed, SameLedger
<1>6. run[j].status = "queued" => \A a \in AttemptsOf(j)' : Unasked(a)'
  BY <1>3 DEF JobIsSound, Undisturbed, SameLedger
<1> QED
  BY <1>4, <1>5, <1>6 DEF JobIsSound, Undisturbed, SameLedger

(* A step of one worker that leaves the rows of every Job, and all of the  *)
(* other Jobs, alone.                                                      *)
LEMMA HolderAlone ==
    ASSUME OneHolder, NEW w \in Workers, NEW row, worker \in [Workers -> WorkerRows],
           worker' = [worker EXCEPT ![w] = row],
           row.view.status \in {"running", "succeeded"} => Holds(w) /\ row.job = worker[w].job
    PROVE  OneHolder'
  BY DEF OneHolder, Holds

LEMMA LastIsOne ==
    ASSUME NEW j, NEW a, LineageIsChain, IsLast(a, j), j \in Jobs, AIDesignAssumption, Typed
    PROVE  a = LastAttempt(j)
<1>1. LastAttempt(j) = CHOOSE x \in AttemptsOf(j) : \A b \in AttemptsOf(j) : attempt[b].ordinal <= attempt[x].ordinal
  BY DEF LastAttempt, IsLast
<1>2. IsLast(LastAttempt(j), j)
  BY <1>1 DEF IsLast
<1>3. a \in Attempts /\ LastAttempt(j) \in Attempts /\ attempt[a].job = j /\ attempt[LastAttempt(j)].job = j
  BY <1>2 DEF IsLast, AttemptsOf
<1>4. attempt[a].ordinal \in Nat /\ attempt[LastAttempt(j)].ordinal \in Nat
  BY <1>3 DEF Typed, AttemptRows
<1>5. attempt[a].ordinal = attempt[LastAttempt(j)].ordinal
  BY <1>2, <1>4 DEF IsLast
<1> QED
  BY <1>3, <1>5, NoneFacts DEF LineageIsChain

(* The last attempt, when there is one.                                    *)
LEMMA LastOrNone ==
    ASSUME NEW j \in Jobs, IInv, AIDesignAssumption
    PROVE  IF AttemptsOf(j) = {} THEN LastAttempt(j) = None ELSE IsLast(LastAttempt(j), j)
<1>1. ASSUME AttemptsOf(j) # {} PROVE IsLast(LastAttempt(j), j)
  <2>1. PICK a \in Attempts : IsLast(a, j)
    BY <1>1 DEF IInv, JobIsSound
  <2> QED
    BY <2>1, LastIsOne DEF IInv
<1> QED
  BY <1>1 DEF LastAttempt

-----------------------------------------------------------------------------
(* Steps of one worker that write no row and no attempt.                   *)

LEMMA WorkerOnly ==
    ASSUME IInv, NEW w \in Workers, NEW row \in WorkerRows, worker' = [worker EXCEPT ![w] = row],
           UNCHANGED <<run, attempt, signaled, canceling, pending, base>>,
           evidence \subseteq evidence', patches \subseteq patches',
           row.view.status \in {"running", "succeeded"} => Holds(w) /\ row.job = worker[w].job,
           WorkerIsSound(w)'
    PROVE  IInv'
<1>1. Typed' /\ ParentsExist' /\ LineageIsChain'
  BY DEF IInv, Typed, ParentsExist, LineageIsChain
<1>2. OneHolder'
  BY HolderAlone DEF IInv, Typed
<1>3. \A j : Undisturbed(j)
  BY DEF Undisturbed, SameLedger, AttemptsOf
<1>4. \A j \in Jobs : JobIsSound(j)'
  BY <1>3, JobStays DEF IInv
<1>5. ASSUME NEW v \in Workers PROVE WorkerIsSound(v)'
  <2>1. CASE v = w
    BY <2>1
  <2>2. CASE v # w
    BY <1>3, <2>2, WorkerStays DEF IInv, Typed
  <2> QED
    BY <2>1, <2>2
<1> QED
  BY <1>1, <1>2, <1>4, <1>5 DEF IInv

(* Back to idle.                                                           *)
LEMMA IdleSound ==
    ASSUME NEW w, worker'[w] = Idle
    PROVE  WorkerIsSound(w)'
  BY IdleFacts DEF WorkerIsSound, Holds

LEMMA LoadKept ==
    ASSUME IInv, NEW w \in Workers, NEW j \in Jobs, Load(w, j)
    PROVE  IInv'
<1>1. PICK row : row = [Idle EXCEPT !.pc = "loaded", !.job = j, !.view = run[j]]
  OBVIOUS
<1>2. run[j] \in RunRows /\ run[j].status = "queued" /\ run[j].phase = 1
  BY DEF Load, IInv, Typed, Get, ValidState, InputPinned
<1>3. /\ row \in WorkerRows /\ row.pc = "loaded" /\ row.job = j /\ row.view = run[j]
      /\ row.attempt = None /\ row.lease = "none"
  BY <1>1, <1>2, IdleFacts DEF Idle, WorkerRows, Answers
<1>4. worker' = [worker EXCEPT ![w] = row] /\ UNCHANGED <<run, attempt, signaled, canceling, pending, base, evidence, patches>>
  BY <1>1 DEF Load, facts, memory, others
<1>5. worker'[w] = row
  BY <1>4 DEF IInv, Typed
<1>6. WorkerIsSound(w)'
  BY <1>2, <1>3, <1>5 DEF WorkerIsSound, Holds
<1> QED
  BY <1>2, <1>3, <1>4, <1>6, WorkerOnly

LEMMA IdleKept ==
    ASSUME IInv, NEW w \in Workers, GiveUp(w) \/ Release(w)
    PROVE  IInv'
<1>1. worker' = [worker EXCEPT ![w] = Idle] /\ UNCHANGED <<run, attempt, signaled, canceling, pending, base, evidence, patches>>
  BY DEF GiveUp, Release, facts, memory, others
<1>2. worker'[w] = Idle
  BY <1>1 DEF IInv, Typed
<1> QED
  BY <1>1, <1>2, IdleFacts, IdleSound, WorkerOnly

(* A step of a worker within its Job: it keeps the Job and its view of it. *)
Writes(w) ==
    /\ worker' = [worker EXCEPT ![w] = worker'[w]]
    /\ worker'[w] \in WorkerRows
    /\ worker'[w].job = worker[w].job /\ worker'[w].view = worker[w].view
    /\ worker'[w].pc \notin {"idle", "loaded", "done"} /\ worker[w].pc # "done"

LEMMA WritesPc ==
    ASSUME IInv, NEW w \in Workers, worker[w].pc # "done",
           NEW pc \in {"checked", "registered", "leased", "calling", "answered", "accepted", "responded",
                       "patched", "sealed", "late", "lost", "stopped"},
           worker' = [worker EXCEPT ![w].pc = pc]
    PROVE  /\ Writes(w) /\ worker'[w].pc = pc /\ worker'[w].lease = worker[w].lease
           /\ worker'[w].answer = worker[w].answer /\ worker'[w].attempt = worker[w].attempt
  BY DEF IInv, Typed, WorkerRows, Writes

LEMMA WritesLease ==
    ASSUME IInv, NEW w \in Workers, worker[w].pc # "done",
           NEW pc \in {"registered", "lost"}, NEW lease \in {"none", "live"},
           worker' = [worker EXCEPT ![w].pc = pc, ![w].lease = lease]
    PROVE  /\ Writes(w) /\ worker'[w].pc = pc /\ worker'[w].lease = lease
           /\ worker'[w].answer = worker[w].answer /\ worker'[w].attempt = worker[w].attempt
  BY DEF IInv, Typed, WorkerRows, Writes

LEMMA WritesAnswer ==
    ASSUME IInv, NEW w \in Workers, worker[w].pc # "done", NEW answer \in Answers,
           worker' = [worker EXCEPT ![w].pc = "answered", ![w].answer = answer]
    PROVE  /\ Writes(w) /\ worker'[w].pc = "answered" /\ worker'[w].lease = worker[w].lease
           /\ worker'[w].answer = answer /\ worker'[w].attempt = worker[w].attempt
  BY DEF IInv, Typed, WorkerRows, Writes

LEMMA WritesAttempt ==
    ASSUME IInv, NEW w \in Workers, worker[w].pc = "working", NEW a \in Attempts,
           worker' = [worker EXCEPT ![w].attempt = a]
    PROVE  /\ Writes(w) /\ worker'[w].pc = "working" /\ worker'[w].lease = worker[w].lease
           /\ worker'[w].answer = worker[w].answer /\ worker'[w].attempt = a
  BY DEF IInv, Typed, WorkerRows, Writes

(* What the invariant says of a worker in the middle of its Job.           *)
LEMMA HolderFacts ==
    ASSUME IInv, NEW w \in Workers,
           worker[w].pc \notin {"idle", "loaded", "lost", "done"} \/ (worker[w].lease # "none" /\ worker[w].pc # "done")
    PROVE  /\ Holds(w) /\ HolderIsSound(w) /\ AttemptIsSound(w)
           /\ worker[w].job \in Jobs /\ worker[w] \in WorkerRows /\ worker[w].view.status = "running"
  BY DEF IInv, Typed, WorkerIsSound, HolderIsSound, Holds

(* The phases of the Job that the places of the call belong to.            *)
PhaseIsSound(w) ==
    /\ worker'[w].pc \in {"checked", "registered", "leased", "calling", "answered", "accepted"} => worker[w].view.phase = 3
    /\ worker'[w].pc = "working" /\ worker'[w].attempt # None => worker[w].view.phase = 3
    /\ worker'[w].pc = "responded" /\ worker'[w].answer = "malformed" => worker[w].view.phase = 3

LeaseIsSound(w) ==
    /\ worker'[w].pc \in {"registered", "leased", "calling", "answered", "accepted", "responded"} => worker'[w].lease # "none"
    /\ worker'[w].pc \in {"leased", "calling", "answered", "accepted", "responded"} /\ signaled[worker[w].job] > 0 =>
          worker'[w].lease = "canceled"

(* The holder of a Job has moved on and its attempt is in order.           *)
LEMMA HolderMoves ==
    ASSUME IInv, NEW w \in Workers, Holds(w), Writes(w), PhaseIsSound(w), LeaseIsSound(w),
           AttemptIsSound(w)', UNCHANGED <<run, signaled, pending>>, evidence \subseteq evidence'
    PROVE  WorkerIsSound(w)' /\ (Holds(w)' => Holds(w) /\ worker'[w].job = worker[w].job)
<1>1. HolderIsSound(w) /\ worker[w].view.status = "running"
  BY DEF IInv, WorkerIsSound, HolderIsSound, Holds, Writes
<1>2. HolderIsSound(w)'
  BY <1>1 DEF HolderIsSound, Writes, PhaseIsSound, LeaseIsSound
<1> QED
  BY <1>1, <1>2 DEF WorkerIsSound, Holds, Writes

LEMMA CallKept ==
    ASSUME IInv, NEW w \in Workers, Holds(w), Writes(w), PhaseIsSound(w), LeaseIsSound(w),
           AttemptIsSound(w)',
           UNCHANGED <<run, attempt, signaled, canceling, pending, base, evidence>>, patches \subseteq patches'
    PROVE  IInv'
<1>1. WorkerIsSound(w)' /\ (Holds(w)' => Holds(w) /\ worker'[w].job = worker[w].job)
  BY HolderMoves
<1>2. PICK row \in WorkerRows : row = worker'[w] /\ worker' = [worker EXCEPT ![w] = row]
  BY DEF Writes
<1> QED
  BY <1>1, <1>2, WorkerOnly DEF Holds

LEMMA BeginKept ==
    ASSUME IInv, NEW w \in Workers, BeginCallsCheck(w) \/ BeginCallsRegister(w) \/ BeginCallsConfirm(w)
    PROVE  IInv'
<1>1. /\ UNCHANGED <<run, attempt, signaled, canceling, pending, base, evidence, patches>>
      /\ worker[w].pc \in {"working", "checked", "registered"} /\ (worker[w].pc = "working" => worker[w].attempt # None)
  BY DEF BeginCallsCheck, BeginCallsRegister, BeginCallsConfirm, facts, memory, others
<1>2. /\ Holds(w) /\ HolderIsSound(w) /\ AttemptIsSound(w)
      /\ worker[w].job \in Jobs /\ worker[w] \in WorkerRows
  BY <1>1, HolderFacts
<1>3. /\ worker[w].view.phase = 3 /\ worker[w].attempt # None
      /\ IsLast(worker[w].attempt, worker[w].job) /\ Unasked(worker[w].attempt)
  BY <1>1, <1>2 DEF HolderIsSound, AttemptIsSound
<1>4. /\ Writes(w) /\ worker'[w].attempt = worker[w].attempt
      /\ worker'[w].pc \in {"checked", "registered", "leased", "lost"}
      /\ worker'[w].pc = "registered" => worker'[w].lease = "live"
      /\ worker'[w].pc = "leased" => worker[w].pc = "registered" /\ worker'[w].lease = worker[w].lease /\ Confirmed(w)
  <2>1. CASE BeginCallsCheck(w)
    <3>1. PICK pc \in {"checked", "lost"} : worker' = [worker EXCEPT ![w].pc = pc]
      BY <2>1 DEF BeginCallsCheck
    <3> QED
      BY <1>1, <3>1, WritesPc
  <2>2. CASE BeginCallsRegister(w)
    <3>1. worker' = [worker EXCEPT ![w].pc = "lost"] \/ worker' = [worker EXCEPT ![w].pc = "registered", ![w].lease = "live"]
      BY <2>2 DEF BeginCallsRegister
    <3> QED
      BY <1>1, <3>1, WritesPc, WritesLease
  <2>3. CASE BeginCallsConfirm(w)
    <3>1. \/ worker' = [worker EXCEPT ![w].pc = "leased"] /\ Confirmed(w)
          \/ worker' = [worker EXCEPT ![w].pc = "lost", ![w].lease = "none"]
      BY <2>3 DEF BeginCallsConfirm
    <3>2. worker[w].pc = "registered"
      BY <2>3 DEF BeginCallsConfirm
    <3> QED
      BY <3>1, <3>2, WritesPc, WritesLease
  <2> QED
    BY <2>1, <2>2, <2>3
<1>5. worker'[w].pc = "leased" => worker'[w].lease # "none" /\ signaled[worker[w].job] = 0
  <2>1. SUFFICES ASSUME worker'[w].pc = "leased" PROVE worker'[w].lease # "none" /\ signaled[worker[w].job] = 0
    OBVIOUS
  <2>2. run[worker[w].job].gen = 0
    BY <1>4, <2>1 DEF Confirmed, SameCallIdentity
  <2>3. signaled[worker[w].job] <= 0 /\ signaled[worker[w].job] \in 0..1
    BY <1>2, <2>2 DEF IInv, Typed, JobIsSound
  <2>4. worker[w].lease # "none"
    BY <1>2, <1>4, <2>1 DEF HolderIsSound
  <2> QED
    BY <1>4, <2>1, <2>3, <2>4
<1>6. AttemptIsSound(w)'
  <2>1. AttemptsOf(worker[w].job)' = AttemptsOf(worker[w].job) /\ worker'[w].job = worker[w].job
    BY <1>1, <1>4 DEF AttemptsOf, Writes
  <2> QED
    BY <1>1, <1>3, <1>4, <2>1 DEF AttemptIsSound, IsLast, Unasked
<1>7. PhaseIsSound(w) /\ LeaseIsSound(w)
  BY <1>3, <1>4, <1>5 DEF PhaseIsSound, LeaseIsSound
<1> QED
  BY <1>1, <1>2, <1>4, <1>6, <1>7, CallKept

LEMMA AnswerKept ==
    ASSUME IInv, NEW w \in Workers, (\E x \in {"valid", "malformed", "failed", "stopped"} : ProviderAnswers(w, x)) \/ AcceptResult(w)
    PROVE  IInv'
<1>1. /\ UNCHANGED <<run, attempt, signaled, canceling, pending, base, evidence, patches>>
      /\ worker[w].pc \in {"calling", "answered"}
  BY DEF ProviderAnswers, AcceptResult, facts, memory, others
<1>2. /\ Holds(w) /\ HolderIsSound(w) /\ AttemptIsSound(w)
      /\ worker[w].job \in Jobs /\ worker[w] \in WorkerRows
  BY <1>1, HolderFacts
<1>3. /\ worker[w].view.phase = 3 /\ worker[w].attempt # None
      /\ IsLast(worker[w].attempt, worker[w].job) /\ Open(worker[w].attempt)
      /\ worker[w].lease # "none" /\ (signaled[worker[w].job] > 0 => worker[w].lease = "canceled")
  BY <1>1, <1>2 DEF HolderIsSound, AttemptIsSound
<1>4. /\ Writes(w) /\ worker'[w].attempt = worker[w].attempt /\ worker'[w].lease = worker[w].lease
      /\ worker'[w].pc \in {"answered", "accepted", "late", "lost"}
      /\ worker'[w].pc = "accepted" => worker'[w].answer \in {"valid", "malformed"}
  <2>1. ASSUME NEW x \in {"valid", "malformed", "failed", "stopped"}, ProviderAnswers(w, x)
        PROVE  /\ Writes(w) /\ worker'[w].attempt = worker[w].attempt /\ worker'[w].lease = worker[w].lease
               /\ worker'[w].pc = "answered"
    <3>1. worker' = [worker EXCEPT ![w].pc = "answered", ![w].answer = x] /\ x \in Answers
      BY <2>1 DEF ProviderAnswers, Answers
    <3> QED
      BY <1>1, <3>1, WritesAnswer
  <2>2. CASE AcceptResult(w)
    <3>1. worker[w].answer \in {"valid", "malformed"}
      BY <2>2 DEF AcceptResult
    <3>2. PICK pc \in {"accepted", "late", "lost"} : worker' = [worker EXCEPT ![w].pc = pc]
      BY <2>2 DEF AcceptResult
    <3> QED
      BY <1>1, <3>1, <3>2, WritesPc
  <2> QED
    BY <2>1, <2>2
<1>5. AttemptIsSound(w)'
  <2>1. AttemptsOf(worker[w].job)' = AttemptsOf(worker[w].job) /\ worker'[w].job = worker[w].job
    BY <1>1, <1>4 DEF AttemptsOf, Writes
  <2> QED
    BY <1>1, <1>3, <1>4, <2>1 DEF AttemptIsSound, IsLast, Open
<1>6. PhaseIsSound(w) /\ LeaseIsSound(w)
  BY <1>3, <1>4 DEF PhaseIsSound, LeaseIsSound
<1> QED
  BY <1>1, <1>2, <1>4, <1>5, <1>6, CallKept

LEMMA AdoptKept ==
    ASSUME AIDesignAssumption, IInv, NEW w \in Workers, AdoptAttempt(w)
    PROVE  IInv'
<1>1. /\ UNCHANGED <<run, attempt, signaled, canceling, pending, base, evidence, patches>>
      /\ worker[w].pc = "working" /\ worker[w].view.phase = 3 /\ worker[w].attempt = None
      /\ AttemptsOf(worker[w].job) # {}
      /\ worker' = [worker EXCEPT ![w].attempt = LastAttempt(worker[w].job)]
  BY DEF AdoptAttempt, facts, memory, others, ProviderToolLoop
<1>2. /\ Holds(w) /\ HolderIsSound(w) /\ AttemptIsSound(w)
      /\ worker[w].job \in Jobs /\ worker[w] \in WorkerRows
  BY <1>1, HolderFacts
<1>3. IsLast(LastAttempt(worker[w].job), worker[w].job)
  BY <1>1, <1>2, LastOrNone
<1>4. LastAttempt(worker[w].job) \in Attempts /\ Unasked(LastAttempt(worker[w].job))
  BY <1>1, <1>2, <1>3 DEF AttemptIsSound, IsLast, AttemptsOf
<1>5. Writes(w) /\ worker'[w].pc = "working" /\ worker'[w].attempt = LastAttempt(worker[w].job)
  BY <1>1, <1>4, WritesAttempt
<1>6. AttemptIsSound(w)'
  <2>1. AttemptsOf(worker[w].job)' = AttemptsOf(worker[w].job) /\ worker'[w].job = worker[w].job
    BY <1>1, <1>5 DEF AttemptsOf, Writes
  <2>2. worker'[w].attempt # None
    BY <1>4, <1>5, NoneFacts
  <2> QED
    BY <1>1, <1>3, <1>4, <1>5, <2>1, <2>2 DEF AttemptIsSound, IsLast, Unasked
<1>7. PhaseIsSound(w) /\ LeaseIsSound(w)
  BY <1>1, <1>5 DEF PhaseIsSound, LeaseIsSound
<1> QED
  BY <1>1, <1>2, <1>5, <1>6, <1>7, CallKept

(* The evidence manifest and the checkpoint are stored beside the call.    *)
LEMMA StoreKept ==
    ASSUME IInv, NEW w \in Workers, InsertEvidenceBatch(w) \/ SaveDeterministicCheckpoint(w)
    PROVE  IInv'
<1>1. /\ UNCHANGED <<run, attempt, signaled, canceling, pending, base, worker>>
      /\ evidence \subseteq evidence' /\ patches \subseteq patches'
  BY DEF InsertEvidenceBatch, SaveDeterministicCheckpoint, memory, others
<1>2. \A j : Undisturbed(j)
  BY <1>1 DEF Undisturbed, SameLedger, AttemptsOf
<1>3. PICK row \in WorkerRows : row = worker[w] /\ worker' = [worker EXCEPT ![w] = row]
  BY <1>1 DEF IInv, Typed
<1>4. WorkerIsSound(w)'
  BY <1>1, <1>2, WorkerStays DEF IInv
<1> QED
  BY <1>1, <1>3, <1>4, WorkerOnly DEF Holds

LEMMA PatchKept ==
    ASSUME IInv, NEW w \in Workers, InsertDraftPatch(w)
    PROVE  IInv'
<1>1. /\ UNCHANGED <<run, attempt, signaled, canceling, pending, base, evidence>>
      /\ worker[w].pc = "responded" /\ worker[w].view.phase = 4
      /\ patches' = patches \cup {worker[w].attempt}
      /\ worker' = [worker EXCEPT ![w].pc = "patched"]
  BY DEF InsertDraftPatch, memory, others, DeterministicPreview
<1>2. /\ Holds(w) /\ HolderIsSound(w) /\ AttemptIsSound(w)
      /\ worker[w].job \in Jobs /\ worker[w] \in WorkerRows
  BY <1>1, HolderFacts
<1>3. /\ worker[w].attempt # None /\ IsLast(worker[w].attempt, worker[w].job)
      /\ attempt[worker[w].attempt].calls = 1 /\ attempt[worker[w].attempt].response = "valid"
  BY <1>1, <1>2 DEF HolderIsSound, AttemptIsSound
<1>4. Writes(w) /\ worker'[w].attempt = worker[w].attempt /\ worker'[w].pc = "patched"
  BY <1>1, WritesPc
<1>5. AttemptIsSound(w)'
  <2>1. AttemptsOf(worker[w].job)' = AttemptsOf(worker[w].job) /\ worker'[w].job = worker[w].job
    BY <1>1, <1>4 DEF AttemptsOf, Writes
  <2> QED
    BY <1>1, <1>3, <1>4, <2>1 DEF AttemptIsSound, IsLast
<1>6. PhaseIsSound(w) /\ LeaseIsSound(w)
  BY <1>4 DEF PhaseIsSound, LeaseIsSound
<1> QED
  BY <1>1, <1>2, <1>4, <1>5, <1>6, CallKept

-----------------------------------------------------------------------------
(* The ledger.                                                             *)

(* What no step takes back of an attempt: its place in the chain, and that *)
(* it failed or was interrupted.                                           *)
Keeps(x) ==
    /\ attempt'[x].job = attempt[x].job /\ attempt'[x].kind = attempt[x].kind
    /\ attempt'[x].ordinal = attempt[x].ordinal /\ attempt'[x].round = attempt[x].round
    /\ attempt'[x].parent = attempt[x].parent
    /\ attempt'[x].calls <= 1
    /\ attempt'[x].outcome = "interrupted" => attempt'[x].response = "none"
    /\ attempt[x].outcome = "failed" => attempt'[x].outcome = "failed"
    /\ attempt[x].outcome = "interrupted" => attempt'[x].outcome \in {"failed", "interrupted"}

(* A new attempt b is linked to the ones there are.                        *)
Linked(b) ==
    LET r == attempt'[b] IN
    /\ r.calls <= 1 /\ r.round <= MaxRounds /\ r.outcome = "none"
    /\ r.kind \in {"repair", "explicit_retry"} => r.parent \in Attempts /\ r.parent # b
    /\ r.kind = "repair" =>
          /\ attempt[r.parent].job = r.job /\ attempt[r.parent].ordinal + 1 = r.ordinal
          /\ attempt'[r.parent].outcome = "failed"
    /\ r.kind = "explicit_retry" => attempt'[r.parent].outcome \in {"failed", "interrupted"}
    /\ \A x \in Attempts : x # b /\ attempt[x].job = r.job => attempt[x].ordinal # r.ordinal

LEMMA ChainKept ==
    ASSUME ParentsExist, LineageIsChain,
           NEW New, \A x, y \in New : x = y,
           \A b \in New : attempt[b] = NoAttempt /\ Linked(b),
           \A x \in Attempts : x \notin New => Keeps(x)
    PROVE  ParentsExist' /\ LineageIsChain'
<1>1. ASSUME NEW x \in Attempts, attempt[x].outcome \in {"failed", "interrupted"} PROVE x \notin New
  BY <1>1, IdleFacts
<1>2. ParentsExist'
  BY DEF ParentsExist, Keeps, Linked
<1>3. ASSUME NEW a \in Attempts
      PROVE  /\ attempt'[a].calls <= 1 /\ attempt'[a].round <= MaxRounds
             /\ attempt'[a].outcome = "interrupted" => attempt'[a].response = "none"
  BY DEF LineageIsChain, Keeps, Linked
<1>4. ASSUME NEW a \in Attempts, attempt'[a].kind = "repair"
      PROVE  /\ attempt'[attempt'[a].parent].job = attempt'[a].job
             /\ attempt'[attempt'[a].parent].ordinal + 1 = attempt'[a].ordinal
             /\ attempt'[attempt'[a].parent].outcome = "failed"
  <2>1. CASE a \in New
    <3>1. attempt'[a].parent \in Attempts /\ attempt'[a].parent \notin New
      BY <1>4, <2>1 DEF Linked
    <3> QED
      BY <1>4, <2>1, <3>1 DEF Linked, Keeps
  <2>2. CASE a \notin New
    <3>1. PICK p \in Attempts : p = attempt[a].parent /\ p = attempt'[a].parent
      BY <1>4, <2>2 DEF ParentsExist, Keeps
    <3>2. attempt[p].job = attempt[a].job /\ attempt[p].ordinal + 1 = attempt[a].ordinal /\ attempt[p].outcome = "failed"
      BY <1>4, <2>2, <3>1 DEF LineageIsChain, Keeps
    <3>3. p \notin New
      BY <1>1, <3>2
    <3> QED
      BY <2>2, <3>1, <3>2, <3>3 DEF Keeps
  <2> QED
    BY <2>1, <2>2
<1>5. ASSUME NEW a \in Attempts, attempt'[a].kind = "explicit_retry"
      PROVE  attempt'[attempt'[a].parent].outcome \in {"failed", "interrupted"}
  <2>1. CASE a \in New
    BY <1>5, <2>1 DEF Linked
  <2>2. CASE a \notin New
    <3>1. PICK p \in Attempts : p = attempt[a].parent /\ p = attempt'[a].parent
      BY <1>5, <2>2 DEF ParentsExist, Keeps
    <3>2. attempt[p].outcome \in {"failed", "interrupted"}
      BY <1>5, <2>2, <3>1 DEF LineageIsChain, Keeps
    <3> QED
      BY <1>1, <3>1, <3>2 DEF Keeps
  <2> QED
    BY <2>1, <2>2
<1>6. ASSUME NEW a \in Attempts, NEW b \in Attempts, attempt'[a].job # None,
             attempt'[b].job = attempt'[a].job, attempt'[b].ordinal = attempt'[a].ordinal
      PROVE  a = b
  <2>1. CASE a \notin New /\ b \notin New
    BY <1>6, <2>1 DEF LineageIsChain, Keeps
  <2>2. CASE a \in New /\ b \in New
    BY <2>2
  <2>3. CASE a \in New /\ b \notin New
    BY <1>6, <2>3 DEF Linked, Keeps
  <2>4. CASE a \notin New /\ b \in New
    BY <1>6, <2>4 DEF Linked, Keeps
  <2> QED
    BY <2>1, <2>2, <2>3, <2>4
<1>7. LineageIsChain'
  BY <1>3, <1>4, <1>5, <1>6 DEF LineageIsChain
<1> QED
  BY <1>2, <1>7

(* The holder of a Job writes the row of its attempt.                      *)
LEMMA LedgerKept ==
    ASSUME AIDesignAssumption, IInv, NEW w \in Workers, NEW a \in Attempts, NEW r \in AttemptRows,
           Holds(w), worker[w].view.status = "running", a = worker[w].attempt,
           attempt' = [attempt EXCEPT ![a] = r],
           Keeps(a), attempt[a].outcome \notin {"failed", "interrupted"},
           UNCHANGED <<run, signaled, canceling, pending, base, evidence, patches>>,
           Writes(w), PhaseIsSound(w), LeaseIsSound(w), AttemptIsSound(w)'
    PROVE  IInv'
<1>0. PICK j : j = worker[w].job
  OBVIOUS
<1>1. HolderIsSound(w) /\ AttemptIsSound(w) /\ j \in Jobs /\ IsLast(a, j)
  BY <1>0, NoneFacts DEF IInv, WorkerIsSound, HolderIsSound, AttemptIsSound
<1>2. /\ attempt \in [Attempts -> AttemptRows] /\ attempt' \in [Attempts -> AttemptRows]
      /\ \A x \in Attempts : attempt'[x] = IF x = a THEN r ELSE attempt[x]
  BY DEF IInv, Typed
<1>3. Typed'
  BY <1>2 DEF IInv, Typed, Writes
<1>4. \A x \in Attempts : Keeps(x)
  <2>1. ASSUME NEW x \in Attempts, x # a PROVE Keeps(x)
    BY <1>2, <2>1 DEF Keeps, IInv, LineageIsChain
  <2> QED
    BY <2>1
<1>5. ParentsExist' /\ LineageIsChain'
  <2>1. PICK New : New = {}
    OBVIOUS
  <2>2. ParentsExist /\ LineageIsChain
    BY DEF IInv
  <2> QED
    BY <1>4, <2>1, <2>2, ChainKept
<1>6. \A i : AttemptsOf(i)' = AttemptsOf(i)
  BY <1>4 DEF AttemptsOf, Keeps
<1>7. attempt[a].job = j
  BY <1>1 DEF IsLast, AttemptsOf
<1>8. ASSUME NEW i, i # j PROVE Undisturbed(i)
  BY <1>2, <1>6, <1>7, <1>8 DEF Undisturbed, SameLedger, AttemptsOf
<1>9. JobIsSound(j)'
  <2>1. run[j].status = "running"
    BY <1>0, <1>1 DEF HolderIsSound
  <2>2. AttemptsOf(j)' = AttemptsOf(j) /\ AttemptsOf(j) \subseteq Attempts
    BY <1>6 DEF AttemptsOf
  <2>3. IsLast(a, j)'
    <3>1. \A b \in AttemptsOf(j) : attempt'[b].ordinal = attempt[b].ordinal
      BY <1>4, <2>2 DEF Keeps
    <3> QED
      BY <1>1, <2>2, <3>1 DEF IsLast
  <2>4. JobIsSound(j)
    BY <1>1 DEF IInv
  <2> QED
    BY <2>1, <2>2, <2>3, <2>4 DEF JobIsSound
<1>10. ASSUME NEW i \in Jobs PROVE JobIsSound(i)'
  <2>1. CASE i # j
    <3>1. JobIsSound(i) /\ Undisturbed(i)
      BY <1>8, <2>1 DEF IInv
    <3> QED
      BY <3>1, JobStays
  <2> QED
    BY <1>9, <2>1
<1>11. WorkerIsSound(w)' /\ (Holds(w)' => Holds(w) /\ worker'[w].job = worker[w].job)
  BY HolderMoves
<1>12. ASSUME NEW v \in Workers PROVE WorkerIsSound(v)'
  <2>1. CASE v # w
    <3>1. worker'[v] = worker[v]
      BY <2>1 DEF IInv, Typed, Writes
    <3>2. Holds(v) => worker[v].job # j
      BY <1>0, <2>1 DEF IInv, OneHolder
    <3> QED
      BY <1>8, <3>1, <3>2, WorkerStays DEF IInv
  <2> QED
    BY <1>11, <2>1
<1>13. OneHolder'
  BY HolderAlone DEF IInv, Typed, Writes
<1> QED
  BY <1>3, <1>5, <1>10, <1>12, <1>13 DEF IInv

(* The attempt of a worker within its call or its draft.                   *)
LEMMA AskedFacts ==
    ASSUME AIDesignAssumption, IInv, NEW w \in Workers,
           worker[w].pc \in {"leased", "calling", "answered", "accepted", "responded", "patched", "sealed"}
    PROVE  /\ Holds(w) /\ HolderIsSound(w) /\ AttemptIsSound(w) /\ worker[w].view.status = "running"
           /\ worker[w].attempt \in Attempts /\ IsLast(worker[w].attempt, worker[w].job)
           /\ attempt[worker[w].attempt] \in AttemptRows /\ attempt[worker[w].attempt].calls <= 1
           /\ worker[w].job \in Jobs /\ worker[w].attempt # None
<1>1. /\ Holds(w) /\ HolderIsSound(w) /\ AttemptIsSound(w)
      /\ worker[w].job \in Jobs /\ worker[w] \in WorkerRows /\ worker[w].view.status = "running"
  BY HolderFacts
<1>2. worker[w].attempt # None /\ worker[w].attempt \in Attempts
  BY <1>1 DEF AttemptIsSound, WorkerRows
<1> QED
  BY <1>1, <1>2 DEF AttemptIsSound, IInv, Typed, LineageIsChain

(* Writing a field of the attempt.                                         *)
LEMMA WritesLedger ==
    ASSUME IInv, NEW a \in Attempts,
           \/ \E n \in Nat : n <= 1 /\ attempt' = [attempt EXCEPT ![a].calls = n]
           \/ \E x \in {"valid", "malformed"} : attempt' = [attempt EXCEPT ![a].response = x]
           \/ \E x \in {"failed", "canceled", "succeeded"} : attempt' = [attempt EXCEPT ![a].outcome = x]
           \/ attempt' = [attempt EXCEPT ![a].seal = TRUE],
           attempt[a].outcome \notin {"failed", "interrupted"}
    PROVE  (\E r \in AttemptRows : attempt' = [attempt EXCEPT ![a] = r]) /\ Keeps(a)
<1>1. attempt \in [Attempts -> AttemptRows] /\ attempt[a] \in AttemptRows /\ attempt[a].calls <= 1
  BY DEF IInv, Typed, LineageIsChain
<1>2. PICK r : r = attempt'[a]
  OBVIOUS
<1>3. attempt' = [attempt EXCEPT ![a] = r]
  BY <1>1, <1>2
<1>4. r \in AttemptRows
  <2>1. ASSUME NEW n \in Nat, attempt' = [attempt EXCEPT ![a].calls = n] PROVE r \in AttemptRows
    BY <1>1, <1>2, <2>1 DEF AttemptRows
  <2>2. ASSUME NEW x \in {"valid", "malformed"}, attempt' = [attempt EXCEPT ![a].response = x] PROVE r \in AttemptRows
    BY <1>1, <1>2, <2>2 DEF AttemptRows
  <2>3. ASSUME NEW x \in {"failed", "canceled", "succeeded"}, attempt' = [attempt EXCEPT ![a].outcome = x]
        PROVE  r \in AttemptRows
    BY <1>1, <1>2, <2>3 DEF AttemptRows
  <2>4. ASSUME attempt' = [attempt EXCEPT ![a].seal = TRUE] PROVE r \in AttemptRows
    BY <1>1, <1>2, <2>4 DEF AttemptRows
  <2> QED
    BY <2>1, <2>2, <2>3, <2>4
<1>5. Keeps(a)
  BY <1>1 DEF Keeps, AttemptRows
<1> QED
  BY <1>3, <1>4, <1>5

LEMMA InvokeKept ==
    ASSUME AIDesignAssumption, IInv, NEW w \in Workers, Invoke(w)
    PROVE  IInv'
<1>0. PICK a : a = worker[w].attempt
  OBVIOUS
<1>1. /\ UNCHANGED <<run, signaled, canceling, pending, base, evidence, patches>>
      /\ worker[w].pc = "leased" /\ worker' = [worker EXCEPT ![w].pc = "calling"]
      /\ attempt' = [attempt EXCEPT ![a].calls = @ + 1]
  BY <1>0 DEF Invoke, memory, others
<1>2. /\ Holds(w) /\ HolderIsSound(w) /\ AttemptIsSound(w) /\ worker[w].view.status = "running"
      /\ a \in Attempts /\ IsLast(a, worker[w].job) /\ attempt[a] \in AttemptRows /\ a # None /\ worker[w].job \in Jobs
  BY <1>0, <1>1, AskedFacts
<1>3. Unasked(a)
  BY <1>0, <1>1, <1>2 DEF AttemptIsSound
<1>4. attempt' = [attempt EXCEPT ![a].calls = 1]
  BY <1>1, <1>3 DEF Unasked, IInv, Typed
<1>5. (\E r \in AttemptRows : attempt' = [attempt EXCEPT ![a] = r]) /\ Keeps(a)
  <2>1. PICK n \in Nat : n = 1
    OBVIOUS
  <2>2. n <= 1 /\ attempt' = [attempt EXCEPT ![a].calls = n]
    BY <1>4, <2>1
  <2> QED
    BY <1>2, <1>3, <2>2, WritesLedger DEF Unasked
<1>6. Writes(w) /\ worker'[w].pc = "calling" /\ worker'[w].attempt = a /\ worker'[w].lease = worker[w].lease
  BY <1>0, <1>1, WritesPc
<1>7. Open(a)'
  BY <1>2, <1>3, <1>4 DEF Open, Unasked, IInv, Typed, AttemptRows
<1>8. IsLast(a, worker[w].job)'
  BY <1>2, <1>5, <1>6 DEF IsLast, AttemptsOf, Keeps, Writes, IInv, Typed
<1>9. AttemptIsSound(w)'
  BY <1>2, <1>6, <1>7, <1>8 DEF AttemptIsSound
<1>10. PhaseIsSound(w) /\ LeaseIsSound(w)
  BY <1>1, <1>2, <1>6 DEF HolderIsSound, PhaseIsSound, LeaseIsSound
<1> QED
  BY <1>0, <1>1, <1>2, <1>3, <1>5, <1>6, <1>9, <1>10, LedgerKept DEF Unasked

LEMMA ResponseKept ==
    ASSUME AIDesignAssumption, IInv, NEW w \in Workers, InsertTerminalResponse(w)
    PROVE  IInv'
<1>0. PICK a, x : a = worker[w].attempt /\ x = worker[w].answer
  OBVIOUS
<1>1. /\ UNCHANGED <<run, signaled, canceling, pending, base, evidence, patches>>
      /\ worker[w].pc = "accepted" /\ worker' = [worker EXCEPT ![w].pc = "responded"]
      /\ attempt' = [attempt EXCEPT ![a].response = x]
  BY <1>0 DEF InsertTerminalResponse, memory, others
<1>2. /\ Holds(w) /\ HolderIsSound(w) /\ AttemptIsSound(w) /\ worker[w].view.status = "running"
      /\ a \in Attempts /\ IsLast(a, worker[w].job) /\ attempt[a] \in AttemptRows /\ a # None /\ worker[w].job \in Jobs
  BY <1>0, <1>1, AskedFacts
<1>3. Open(a) /\ x \in {"valid", "malformed"}
  BY <1>0, <1>1, <1>2 DEF AttemptIsSound
<1>5. (\E r \in AttemptRows : attempt' = [attempt EXCEPT ![a] = r]) /\ Keeps(a)
  BY <1>1, <1>2, <1>3, WritesLedger DEF Open
<1>6. /\ Writes(w) /\ worker'[w].pc = "responded" /\ worker'[w].attempt = a
      /\ worker'[w].lease = worker[w].lease /\ worker'[w].answer = x
  BY <1>0, <1>1, WritesPc
<1>7. attempt'[a].calls = 1 /\ attempt'[a].outcome = "none" /\ attempt'[a].response = x
  BY <1>1, <1>2, <1>3 DEF Open, IInv, Typed, AttemptRows
<1>8. IsLast(a, worker[w].job)'
  BY <1>2, <1>5, <1>6 DEF IsLast, AttemptsOf, Keeps, Writes, IInv, Typed
<1>9. AttemptIsSound(w)'
  BY <1>2, <1>3, <1>6, <1>7, <1>8 DEF AttemptIsSound
<1>10. PhaseIsSound(w) /\ LeaseIsSound(w)
  BY <1>1, <1>2, <1>6 DEF HolderIsSound, PhaseIsSound, LeaseIsSound
<1> QED
  BY <1>0, <1>1, <1>2, <1>3, <1>5, <1>6, <1>9, <1>10, LedgerKept DEF Open

(* The outcome of a call that brought no patch.                            *)
LEMMA FailureKept ==
    ASSUME AIDesignAssumption, IInv, NEW w \in Workers, InsertFailedOutcome(w) \/ RepairExhausted(w)
    PROVE  IInv'
<1>0. PICK a : a = worker[w].attempt
  OBVIOUS
<1>1. UNCHANGED <<run, signaled, canceling, pending, base, evidence, patches>> /\ worker[w].pc \in {"answered", "responded"}
  BY <1>0 DEF InsertFailedOutcome, RepairExhausted, memory, others
<1>x. PICK x \in {"failed", "canceled"} : attempt' = [attempt EXCEPT ![a].outcome = x]
  BY <1>0 DEF InsertFailedOutcome, RepairExhausted
<1>p. PICK pc \in {"stopped", "lost"} : worker' = [worker EXCEPT ![w].pc = pc]
  BY <1>0 DEF InsertFailedOutcome, RepairExhausted
<1>2. /\ Holds(w) /\ HolderIsSound(w) /\ AttemptIsSound(w) /\ worker[w].view.status = "running"
      /\ a \in Attempts /\ IsLast(a, worker[w].job) /\ attempt[a] \in AttemptRows /\ a # None /\ worker[w].job \in Jobs
  BY <1>0, <1>1, AskedFacts
<1>3. attempt[a].outcome = "none"
  BY <1>0, <1>1, <1>2 DEF AttemptIsSound, Open
<1>5. (\E r \in AttemptRows : attempt' = [attempt EXCEPT ![a] = r]) /\ Keeps(a)
  BY <1>x, <1>2, <1>3, WritesLedger
<1>6. Writes(w) /\ worker'[w].pc = pc /\ worker'[w].attempt = a /\ worker'[w].lease = worker[w].lease
  BY <1>0, <1>1, <1>p, WritesPc
<1>8. IsLast(a, worker[w].job)'
  BY <1>2, <1>5, <1>6 DEF IsLast, AttemptsOf, Keeps, Writes, IInv, Typed
<1>9. AttemptIsSound(w)'
  BY <1>2, <1>6, <1>8 DEF AttemptIsSound
<1>10. PhaseIsSound(w) /\ LeaseIsSound(w)
  BY <1>6 DEF PhaseIsSound, LeaseIsSound
<1> QED
  BY <1>0, <1>1, <1>2, <1>3, <1>5, <1>6, <1>9, <1>10, LedgerKept

(* The outcome and the seal of an attempt whose patch is stored.           *)
LEMMA SealKept ==
    ASSUME AIDesignAssumption, IInv, NEW w \in Workers, InsertAttemptOutcome(w) \/ InsertAttemptPatchSeal(w)
    PROVE  IInv'
<1>0. PICK a : a = worker[w].attempt
  OBVIOUS
<1>1. UNCHANGED <<run, signaled, canceling, pending, base, evidence, patches>> /\ worker[w].pc = "patched"
  BY DEF InsertAttemptOutcome, InsertAttemptPatchSeal, memory, others
<1>2. /\ Holds(w) /\ HolderIsSound(w) /\ AttemptIsSound(w) /\ worker[w].view.status = "running"
      /\ a \in Attempts /\ IsLast(a, worker[w].job) /\ attempt[a] \in AttemptRows /\ a # None /\ worker[w].job \in Jobs
  BY <1>0, <1>1, AskedFacts
<1>3. attempt[a].calls = 1 /\ attempt[a].response = "valid" /\ a \in patches
  BY <1>0, <1>1, <1>2 DEF AttemptIsSound
<1>4. CASE InsertAttemptOutcome(w)
  <2>1. /\ attempt[a].outcome = "none" /\ attempt' = [attempt EXCEPT ![a].outcome = "succeeded"] /\ worker' = worker
    BY <1>0, <1>4 DEF InsertAttemptOutcome
  <2>2. (\E r \in AttemptRows : attempt' = [attempt EXCEPT ![a] = r]) /\ Keeps(a)
    BY <1>2, <2>1, WritesLedger
  <2>3. attempt'[a].calls = 1 /\ attempt'[a].response = "valid"
    BY <1>2, <1>3, <2>1 DEF IInv, Typed, AttemptRows
  <2>4. Writes(w)
    BY <1>1, <2>1 DEF Writes, IInv, Typed
  <2>5. IsLast(a, worker[w].job)'
    BY <1>2, <2>1, <2>2 DEF IsLast, AttemptsOf, Keeps, IInv, Typed
  <2>6. AttemptIsSound(w)'
    BY <1>0, <1>1, <1>2, <1>3, <2>1, <2>3, <2>5 DEF AttemptIsSound
  <2>7. PhaseIsSound(w) /\ LeaseIsSound(w)
    BY <1>1, <2>1 DEF PhaseIsSound, LeaseIsSound
  <2> QED
    BY <1>0, <1>1, <1>2, <2>1, <2>2, <2>4, <2>6, <2>7, LedgerKept
<1>5. CASE InsertAttemptPatchSeal(w)
  <2>1. /\ attempt[a].outcome = "succeeded" /\ attempt' = [attempt EXCEPT ![a].seal = TRUE]
        /\ worker' = [worker EXCEPT ![w].pc = "sealed"]
    BY <1>0, <1>5 DEF InsertAttemptPatchSeal
  <2>2. (\E r \in AttemptRows : attempt' = [attempt EXCEPT ![a] = r]) /\ Keeps(a)
    BY <1>2, <2>1, WritesLedger
  <2>3. Whole(a)'
    BY <1>1, <1>2, <1>3, <2>1 DEF IInv, Typed, AttemptRows, Whole
  <2>4. Writes(w) /\ worker'[w].pc = "sealed" /\ worker'[w].attempt = a /\ worker'[w].lease = worker[w].lease
    BY <1>0, <1>1, <2>1, WritesPc
  <2>5. IsLast(a, worker[w].job)'
    BY <1>2, <2>2, <2>4 DEF IsLast, AttemptsOf, Keeps, Writes, IInv, Typed
  <2>6. AttemptIsSound(w)'
    BY <1>2, <2>3, <2>4, <2>5 DEF AttemptIsSound
  <2>7. PhaseIsSound(w) /\ LeaseIsSound(w)
    BY <2>4 DEF PhaseIsSound, LeaseIsSound
  <2> QED
    BY <1>0, <1>1, <1>2, <2>1, <2>2, <2>4, <2>6, <2>7, LedgerKept
<1> QED
  BY <1>4, <1>5

-----------------------------------------------------------------------------
(* A new attempt of a Job that is held.                                    *)

LEMMA GrowKept ==
    ASSUME AIDesignAssumption, IInv, NEW w \in Workers, NEW b \in Attempts, NEW j, j = worker[w].job,
           Holds(w), worker[w].view.status = "running",
           attempt[b] = NoAttempt, attempt' \in [Attempts -> AttemptRows],
           Linked(b), attempt'[b].job = j,
           \A x \in Attempts : x # b => Keeps(x),
           \A x \in Attempts : x # b /\ attempt[x].job # j => attempt'[x] = attempt[x],
           \A x \in AttemptsOf(j) : attempt[x].ordinal <= attempt'[b].ordinal,
           UNCHANGED <<run, signaled, canceling, pending, base, evidence, patches>>,
           Writes(w), PhaseIsSound(w), LeaseIsSound(w),
           worker'[w].attempt = b, worker'[w].pc \in {"working", "leased"}, Unasked(b)'
    PROVE  IInv'
<1>1. HolderIsSound(w) /\ j \in Jobs /\ run[j].status = "running" /\ j # None
  BY NoneFacts DEF IInv, WorkerIsSound, HolderIsSound
<1>2. attempt \in [Attempts -> AttemptRows] /\ attempt[b].job = None
  BY IdleFacts DEF IInv, Typed
<1>3. Typed'
  BY DEF IInv, Typed, Writes
<1>5. ParentsExist' /\ LineageIsChain'
  <2>1. PICK New : New = {b}
    OBVIOUS
  <2>2. ParentsExist /\ LineageIsChain
    BY DEF IInv
  <2>3. \A x, y \in New : x = y
    BY <2>1
  <2>4. \A x \in New : attempt[x] = NoAttempt /\ Linked(x)
    BY <2>1
  <2>5. \A x \in Attempts : x \notin New => Keeps(x)
    BY <2>1
  <2> QED
    BY <2>2, <2>3, <2>4, <2>5, ChainKept
<1>6. ASSUME NEW i \in Jobs, i # j PROVE AttemptsOf(i)' = AttemptsOf(i)
  BY <1>2, <1>6, NoneFacts DEF AttemptsOf, Keeps
<1>7. AttemptsOf(j)' = AttemptsOf(j) \cup {b}
  <2>1. AttemptsOf(j)' = {x \in Attempts : attempt'[x].job = j}
    BY DEF AttemptsOf
  <2>2. AttemptsOf(j) = {x \in Attempts : attempt[x].job = j}
    BY DEF AttemptsOf
  <2> QED
    BY <1>1, <1>2, <2>1, <2>2 DEF Keeps
<1>8. ASSUME NEW i \in Jobs, i # j PROVE Undisturbed(i)
  <2>1. \A x \in AttemptsOf(i) : attempt'[x] = attempt[x]
    BY <1>2, <1>8, NoneFacts DEF AttemptsOf
  <2> QED
    BY <1>6, <1>8, <2>1 DEF Undisturbed, SameLedger
<1>l. IsLast(b, j)'
  <2>1. \A x \in AttemptsOf(j) : x # b /\ attempt'[x].ordinal = attempt[x].ordinal
    BY <1>1, <1>2 DEF AttemptsOf, Keeps
  <2>2. attempt'[b].ordinal <= attempt'[b].ordinal
    BY DEF AttemptRows
  <2> QED
    BY <1>7, <2>1, <2>2 DEF IsLast
<1>9. JobIsSound(j)'
  <2>4. JobIsSound(j)
    BY <1>1 DEF IInv
  <2> QED
    BY <1>1, <1>l, <2>4 DEF JobIsSound
<1>10. ASSUME NEW i \in Jobs PROVE JobIsSound(i)'
  <2>1. CASE i # j
    <3>1. JobIsSound(i) /\ Undisturbed(i)
      BY <1>8, <2>1 DEF IInv
    <3> QED
      BY <3>1, JobStays
  <2> QED
    BY <1>9, <2>1
<1>a. AttemptIsSound(w)'
  <2>1. b # None /\ worker'[w].job = j
    BY NoneFacts DEF Writes
  <2> QED
    BY <1>l, <2>1 DEF AttemptIsSound
<1>11. WorkerIsSound(w)' /\ (Holds(w)' => Holds(w) /\ worker'[w].job = worker[w].job)
  BY <1>a, HolderMoves
<1>12. ASSUME NEW v \in Workers PROVE WorkerIsSound(v)'
  <2>1. CASE v # w
    <3>1. worker'[v] = worker[v] /\ WorkerIsSound(v)
      BY <2>1 DEF IInv, Typed, Writes
    <3>2. Holds(v) => worker[v].job # j /\ worker[v].job \in Jobs
      BY <2>1, <3>1 DEF IInv, OneHolder, WorkerIsSound, HolderIsSound
    <3> QED
      BY <1>8, <3>1, <3>2, WorkerStays
  <2> QED
    BY <1>11, <2>1
<1>13. OneHolder'
  BY HolderAlone DEF IInv, Typed, Writes
<1> QED
  BY <1>3, <1>5, <1>10, <1>12, <1>13 DEF IInv

LEMMA FirstKept ==
    ASSUME AIDesignAssumption, IInv, NEW w \in Workers, NEW b \in Attempts, InsertAttempt(w, b)
    PROVE  IInv'
<1>0. PICK j, r : j = worker[w].job /\ r = NewAttempt(j, "initial", 1, 0, None, worker[w].view.gen)
  OBVIOUS
<1>1. /\ UNCHANGED <<run, signaled, canceling, pending, base, evidence, patches>>
      /\ worker[w].pc = "working" /\ worker[w].view.phase = 3
      /\ attempt[b] = NoAttempt /\ ValidLineage(r)
      /\ attempt' = [attempt EXCEPT ![b] = r] /\ worker' = [worker EXCEPT ![w].attempt = b]
  BY <1>0 DEF InsertAttempt, memory, others, ProviderToolLoop, Fresh
<1>2. /\ Holds(w) /\ worker[w].view.status = "running" /\ j \in Jobs /\ worker[w] \in WorkerRows
  BY <1>0, <1>1, HolderFacts
<1>3. worker[w].view.gen \in 0..1
  BY <1>2 DEF WorkerRows, RunRows
<1>4. /\ r \in AttemptRows /\ r.job = j /\ r.kind = "initial" /\ r.ordinal = 1 /\ r.round = 0
      /\ r.calls = 0 /\ r.response = "none" /\ r.outcome = "none"
  BY <1>0, <1>2, <1>3 DEF NewAttempt, NoAttempt, AttemptRows
<1>5. AttemptsOf(j) = {}
  BY <1>1, <1>4 DEF ValidLineage
<1>6. /\ attempt' \in [Attempts -> AttemptRows] /\ attempt'[b] = r
      /\ \A x \in Attempts : x # b => attempt'[x] = attempt[x]
  BY <1>1, <1>4 DEF IInv, Typed
<1>7. \A x \in Attempts : x # b => Keeps(x)
  BY <1>6 DEF Keeps, IInv, LineageIsChain
<1>8. Linked(b)
  BY <1>4, <1>5, <1>6, NoneFacts DEF Linked, AttemptsOf
<1>9. Writes(w) /\ worker'[w].pc = "working" /\ worker'[w].attempt = b
  BY <1>1, WritesAttempt
<1>10. PhaseIsSound(w) /\ LeaseIsSound(w)
  BY <1>1, <1>9 DEF PhaseIsSound, LeaseIsSound
<1>11. Unasked(b)'
  BY <1>4, <1>6 DEF Unasked
<1> QED
  BY <1>0, <1>1, <1>2, <1>4, <1>5, <1>6, <1>7, <1>8, <1>9, <1>10, <1>11, GrowKept

(* The repair writes the outcome of the attempt and adds its successor.    *)
LEMMA RepairKept ==
    ASSUME AIDesignAssumption, IInv, NEW w \in Workers, NEW b \in Attempts, Repair(w, b)
    PROVE  IInv'
<1>0. PICK j, a, r : /\ j = worker[w].job /\ a = worker[w].attempt
                     /\ r = NewAttempt(j, "repair", attempt[a].ordinal + 1, attempt[a].round + 1, a, attempt[a].gen)
  OBVIOUS
<1>1. /\ UNCHANGED <<run, signaled, canceling, pending, base, evidence, patches>>
      /\ worker[w].pc = "responded" /\ worker[w].answer = "malformed"
      /\ RoundsLeft(a) /\ attempt[b] = NoAttempt /\ ValidLineage(r)
      /\ attempt' = [attempt EXCEPT ![a].outcome = "failed", ![b] = r]
      /\ worker' = [worker EXCEPT ![w].pc = "leased", ![w].attempt = b, ![w].answer = "none"]
  BY <1>0 DEF Repair, memory, others, Fresh
<1>2. /\ Holds(w) /\ HolderIsSound(w) /\ AttemptIsSound(w) /\ worker[w].view.status = "running"
      /\ a \in Attempts /\ IsLast(a, j) /\ attempt[a] \in AttemptRows /\ a # None /\ j \in Jobs
      /\ attempt[a].calls <= 1
  BY <1>0, <1>1, AskedFacts
<1>3. /\ attempt[a].job = j /\ attempt[a].outcome = "none" /\ worker[w].view.phase = 3 /\ a # b
      /\ worker[w].lease # "none" /\ (signaled[j] > 0 => worker[w].lease = "canceled")
  BY <1>0, <1>1, <1>2, IdleFacts, NoneFacts DEF HolderIsSound, AttemptIsSound, IsLast, AttemptsOf
<1>4. /\ r \in AttemptRows /\ r.job = j /\ r.kind = "repair" /\ r.ordinal = attempt[a].ordinal + 1
      /\ r.round = attempt[a].round + 1 /\ r.parent = a
      /\ r.calls = 0 /\ r.response = "none" /\ r.outcome = "none"
  <2>1. PICK n \in Nat, m \in Nat, g \in 0..1 : n = attempt[a].ordinal + 1 /\ m = attempt[a].round + 1 /\ g = attempt[a].gen
    BY <1>2 DEF AttemptRows
  <2>2. r = NewAttempt(j, "repair", n, m, a, g)
    BY <1>0, <2>1
  <2>3. /\ r \in AttemptRows /\ r.job = j /\ r.kind = "repair" /\ r.ordinal = n
        /\ r.round = m /\ r.parent = a
        /\ r.calls = 0 /\ r.response = "none" /\ r.outcome = "none"
    BY <1>2, <2>2 DEF NewAttempt, NoAttempt, AttemptRows
  <2> QED
    BY <2>1, <2>3
<1>5. attempt[a].round + 1 <= MaxRounds
  BY <1>1, <1>2, NoneFacts DEF RoundsLeft, AttemptRows
<1>6. /\ attempt' \in [Attempts -> AttemptRows] /\ attempt'[b] = r
      /\ attempt'[a] = [attempt[a] EXCEPT !.outcome = "failed"]
      /\ \A x \in Attempts : x # b /\ x # a => attempt'[x] = attempt[x]
  <2>1. [attempt[a] EXCEPT !.outcome = "failed"] \in AttemptRows
    BY <1>2 DEF AttemptRows
  <2>2. attempt' = [[attempt EXCEPT ![a] = [attempt[a] EXCEPT !.outcome = "failed"]] EXCEPT ![b] = r]
    BY <1>1, <1>2 DEF IInv, Typed
  <2> QED
    BY <1>2, <1>3, <1>4, <2>1, <2>2 DEF IInv, Typed
<1>7. ASSUME NEW x \in Attempts, x # b PROVE Keeps(x)
  <2>1. CASE x = a
    BY <1>2, <1>3, <1>6, <2>1 DEF Keeps, AttemptRows
  <2>2. CASE x # a
    BY <1>6, <1>7, <2>2 DEF Keeps, IInv, LineageIsChain
  <2> QED
    BY <2>1, <2>2
<1>8. Linked(b)
  <2>1. \A x \in AttemptsOf(j) : attempt[x].ordinal # r.ordinal
    BY <1>1, <1>4 DEF ValidLineage
  <2>2. attempt'[a].outcome = "failed"
    BY <1>2, <1>6 DEF AttemptRows
  <2> QED
    <3>1. \A x \in Attempts : x # b /\ attempt[x].job = r.job => attempt[x].ordinal # r.ordinal
      BY <1>4, <2>1 DEF AttemptsOf
    <3>2. attempt'[b] = r
      BY <1>6
    <3>3. r.calls <= 1 /\ r.round <= MaxRounds
      BY <1>4, <1>5
    <3> QED
      BY <1>2, <1>3, <1>4, <2>2, <3>1, <3>2, <3>3 DEF Linked
<1>9. Writes(w) /\ worker'[w].pc = "leased" /\ worker'[w].attempt = b /\ worker'[w].lease = worker[w].lease
  BY <1>1 DEF IInv, Typed, WorkerRows, Writes, Answers
<1>10. PhaseIsSound(w) /\ LeaseIsSound(w)
  BY <1>0, <1>3, <1>9 DEF PhaseIsSound, LeaseIsSound
<1>11. Unasked(b)'
  BY <1>4, <1>6 DEF Unasked
<1>12. \A x \in AttemptsOf(j) : attempt[x].ordinal <= attempt'[b].ordinal
  BY <1>2, <1>4, <1>6 DEF IsLast, AttemptsOf, IInv, Typed, AttemptRows
<1>13. \A x \in Attempts : x # b /\ attempt[x].job # j => attempt'[x] = attempt[x]
  BY <1>3, <1>6
<1> QED
  <2>1. attempt[b] = NoAttempt /\ attempt'[b].job = j /\ attempt' \in [Attempts -> AttemptRows]
    BY <1>1, <1>4, <1>6
  <2>2. UNCHANGED <<run, signaled, canceling, pending, base, evidence, patches>>
    BY <1>1
  <2>3. Holds(w) /\ worker[w].view.status = "running"
    BY <1>2
  <2> QED
    BY <1>0, <1>7, <1>8, <1>9, <1>10, <1>11, <1>12, <1>13, <2>1, <2>2, <2>3, GrowKept

-----------------------------------------------------------------------------
(* Transitions of the row of a Job.                                        *)

LEMMA RunKept ==
    ASSUME IInv, NEW w \in Workers, NEW j \in Jobs, j = worker[w].job, NEW x \in RunRows,
           run' = [run EXCEPT ![j] = x],
           UNCHANGED <<attempt, evidence, patches, signaled, canceling, pending, base>>,
           NEW row \in WorkerRows, worker' = [worker EXCEPT ![w] = row],
           row.view.status \in {"running", "succeeded"} => row.job = j,
           \A v \in Workers : v # w /\ Holds(v) => worker[v].job # j,
           JobIsSound(j)', WorkerIsSound(w)'
    PROVE  IInv'
<1>1. Typed' /\ ParentsExist' /\ LineageIsChain'
  BY DEF IInv, Typed, ParentsExist, LineageIsChain
<1>2. OneHolder'
  <2>1. \A v \in Workers : v # w => worker'[v] = worker[v]
    BY DEF IInv, Typed
  <2>2. worker'[w] = row
    BY DEF IInv, Typed
  <2> QED
    BY <2>1, <2>2 DEF OneHolder, Holds, IInv
<1>3. ASSUME NEW i, i # j PROVE Undisturbed(i)
  BY <1>3 DEF Undisturbed, SameLedger, AttemptsOf, IInv, Typed
<1>4. ASSUME NEW i \in Jobs PROVE JobIsSound(i)'
  <2>1. CASE i # j
    <3>1. JobIsSound(i) /\ Undisturbed(i) /\ run'[i] = run[i]
      BY <1>3, <2>1 DEF IInv, Typed
    <3> QED
      BY <3>1, JobStays
  <2> QED
    BY <2>1
<1>5. ASSUME NEW v \in Workers PROVE WorkerIsSound(v)'
  <2>1. CASE v # w
    <3>1. worker'[v] = worker[v] /\ WorkerIsSound(v)
      BY <2>1 DEF IInv, Typed
    <3> QED
      BY <1>3, <2>1, <3>1, WorkerStays
  <2> QED
    BY <2>1
<1> QED
  BY <1>1, <1>2, <1>4, <1>5 DEF IInv

(* A transition is refused, or writes the row x and the view of it.        *)
Refused(w) == worker' = [worker EXCEPT ![w].pc = "lost"] /\ UNCHANGED run

Commits(w, j, x, pc) ==
    /\ run' = [run EXCEPT ![j] = x]
    /\ worker' = [worker EXCEPT ![w].view = x, ![w].pc = pc]

(* A conflict: the worker has lost its Job and touches it no more.         *)
LEMMA LostKept ==
    ASSUME IInv, NEW w \in Workers, worker[w].pc \in {"loaded", "working", "responded", "sealed"},
           worker' = [worker EXCEPT ![w].pc = "lost"],
           UNCHANGED <<run, attempt, signaled, canceling, pending, base, evidence, patches>>
    PROVE  IInv'
<1>1. CASE worker[w].pc = "loaded"
  <2>1. PICK row : row = [worker[w] EXCEPT !.pc = "lost"]
    OBVIOUS
  <2>2. /\ row \in WorkerRows /\ row.pc = "lost" /\ row.view = worker[w].view /\ row.lease = worker[w].lease
        /\ worker' = [worker EXCEPT ![w] = row] /\ worker'[w] = row
    BY <2>1 DEF IInv, Typed, WorkerRows
  <2>3. worker[w].view.status = "queued" /\ worker[w].lease = "none"
    BY <1>1 DEF IInv, WorkerIsSound
  <2>4. WorkerIsSound(w)'
    BY <2>2, <2>3 DEF WorkerIsSound, Holds
  <2> QED
    BY <2>2, <2>3, <2>4, WorkerOnly
<1>2. CASE worker[w].pc # "loaded"
  <2>1. Holds(w) /\ HolderIsSound(w) /\ AttemptIsSound(w)
    BY <1>2, HolderFacts
  <2>2. Writes(w) /\ worker'[w].pc = "lost" /\ worker'[w].attempt = worker[w].attempt
    BY <1>2, WritesPc
  <2>3. AttemptIsSound(w)'
    <3>1. AttemptsOf(worker[w].job)' = AttemptsOf(worker[w].job) /\ worker'[w].job = worker[w].job
      BY <2>2 DEF AttemptsOf, Writes
    <3> QED
      BY <2>1, <2>2, <3>1 DEF AttemptIsSound, IsLast, Unasked
  <2>4. PhaseIsSound(w) /\ LeaseIsSound(w)
    BY <2>2 DEF PhaseIsSound, LeaseIsSound
  <2> QED
    BY <2>1, <2>2, <2>3, <2>4, CallKept
<1> QED
  BY <1>1, <1>2

(* A committed transition of a worker whose Job nobody else holds.         *)
LEMMA CommitKept ==
    ASSUME AIDesignAssumption, IInv, NEW w \in Workers, NEW j \in Jobs, j = worker[w].job, NEW x \in RunRows,
           NEW pc \in {"working", "responded", "sealed", "done"},
           Commits(w, j, x, pc), x.gen = run[j].gen, x.status \in {"running", "succeeded"},
           x.status = "succeeded" <=> pc = "done",
           UNCHANGED <<attempt, evidence, patches, signaled, canceling, pending, base>>,
           \A v \in Workers : v # w /\ Holds(v) => worker[v].job # j,
           j \notin pending, x.phase > 1 => j \in evidence,
           pc = "working" /\ worker[w].attempt # None => x.phase = 3,
           pc = "responded" => worker[w].answer # "malformed" /\ worker[w].lease # "none"
                               /\ (signaled[j] > 0 => worker[w].lease = "canceled"),
           x.status = "succeeded" => x.gen = 0 /\ j \in evidence /\ IsLast(x.result, j) /\ Whole(x.result),
           AttemptIsSound(w)'
    PROVE  IInv'
<1>1. PICK row : row = worker'[w]
  OBVIOUS
<1>2. /\ row \in WorkerRows /\ row.pc = pc /\ row.view = x /\ row.lease = worker[w].lease /\ row.job = j
      /\ row.answer = worker[w].answer /\ row.attempt = worker[w].attempt
      /\ worker' = [worker EXCEPT ![w] = row]
  BY <1>1 DEF IInv, Typed, WorkerRows, Commits
<1>3. HolderIsSound(w)'
  <2>1. run'[j].status = x.status
    BY DEF IInv, Typed, Commits
  <2> QED
    BY <1>1, <1>2, <2>1 DEF HolderIsSound
<1>4. WorkerIsSound(w)'
  BY <1>1, <1>2, <1>3 DEF WorkerIsSound, Holds
<1>5. JobIsSound(j)'
  <2>1. JobIsSound(j) /\ run'[j] = x
    BY DEF IInv, Typed, Commits
  <2>2. AttemptsOf(j)' = AttemptsOf(j) /\ \A a : IsLast(a, j)' = IsLast(a, j)
    BY DEF AttemptsOf, IsLast
  <2>3. x.status = "succeeded" => (run[j].gen = 0 /\ j \in evidence /\ IsLast(run[j].result, j) /\ Whole(run[j].result))'
    BY <2>1, <2>2 DEF Whole, IsLast
  <2>4. (x.status \notin {"none", "queued"}) /\ run'[j].gen = run[j].gen
    BY <2>1
  <2> QED
    BY <2>1, <2>2, <2>3, <2>4 DEF JobIsSound
<1> QED
  BY <1>2, <1>4, <1>5, RunKept DEF Commits

(* A transition is committed from the row the worker has seen, or refused. *)
LEMMA NextRow ==
    ASSUME IInv, NEW j \in Jobs, NEW next \in RunRows, NEW x, x = [next EXCEPT !.gen = run[j].gen]
    PROVE  /\ x \in RunRows /\ x.gen = run[j].gen
           /\ x.status = next.status /\ x.phase = next.phase /\ x.result = next.result
<1>1. run[j].gen \in 0..1
  BY DEF IInv, Typed, RunRows
<1> QED
  BY <1>1 DEF RunRows

LEMMA ClaimKept ==
    ASSUME AIDesignAssumption, IInv, NEW w \in Workers, Claim(w)
    PROVE  IInv'
<1>0. PICK j, next : j = worker[w].job /\ next = [worker[w].view EXCEPT !.status = "running", !.owner = w]
  OBVIOUS
<1>1. /\ worker[w].pc = "loaded" /\ TransitionAIJob(w, next, "working")
      /\ UNCHANGED <<attempt, evidence, patches, signaled, canceling, pending, base>>
  BY <1>0 DEF Claim, facts, memory, others
<1>2. /\ j \in Jobs /\ worker[w].view.status = "queued" /\ worker[w].view.phase = 1 /\ worker[w].attempt = None
      /\ worker[w] \in WorkerRows /\ worker[w].view \in RunRows
  BY <1>0, <1>1 DEF IInv, Typed, WorkerIsSound, WorkerRows
<1>3. next \in RunRows /\ next.status = "running" /\ next.phase = 1
  <2>1. PICK r : r = [worker[w].view EXCEPT !.status = "running"]
    OBVIOUS
  <2>2. r \in RunRows /\ r.status = "running" /\ r.phase = 1
    BY <1>2, <2>1 DEF RunRows, Status
  <2>3. next = [r EXCEPT !.owner = w]
    BY <1>0, <1>2, <2>1 DEF RunRows
  <2> QED
    BY <2>2, <2>3 DEF RunRows
<1>4. CASE Refused(w)
  BY <1>1, <1>4, LostKept DEF Refused
<1>5. ASSUME NEW x \in RunRows, run[j].status = "queued", Commits(w, j, x, "working"),
             x.gen = run[j].gen, x.status = next.status, x.phase = next.phase
      PROVE  IInv'
  <2>1. x.gen = run[j].gen /\ x.status = "running" /\ x.phase = 1
    BY <1>3, <1>5 DEF RunRows
  <2>2. JobIsSound(j) /\ j \notin pending /\ \A a \in AttemptsOf(j) : Unasked(a)
    BY <1>2, <1>5 DEF IInv, JobIsSound
  <2>3. \A v \in Workers : v # w /\ Holds(v) => worker[v].job # j
    BY <1>5 DEF IInv, WorkerIsSound, HolderIsSound, Holds
  <2>4. worker'[w].attempt = None /\ worker'[w].pc = "working" /\ worker'[w].job = j
    BY <1>0, <1>2, <1>5 DEF IInv, Typed, WorkerRows, Commits
  <2>5. AttemptIsSound(w)'
    BY <1>1, <2>2, <2>4 DEF AttemptIsSound, AttemptsOf, Unasked
  <2> QED
    BY <1>0, <1>1, <1>2, <1>5, <2>1, <2>2, <2>3, <2>5, CommitKept
<1>6. PICK x : x = [next EXCEPT !.gen = run[j].gen]
  OBVIOUS
<1>7. x \in RunRows /\ x.gen = run[j].gen /\ x.status = next.status /\ x.phase = next.phase
  BY <1>2, <1>3, <1>6, NextRow
<1>8. Refused(w) \/ (run[j].status = "queued" /\ Commits(w, j, x, "working"))
  <2>1. run \in [Jobs -> RunRows]
    BY DEF IInv, Typed
  <2> QED
    BY <1>0, <1>1, <1>2, <1>6, <2>1 DEF TransitionAIJob, CommitsTransition, StoreMatches, Refused, Commits
<1> QED
  BY <1>4, <1>5, <1>7, <1>8

LEMMA AdvanceKept ==
    ASSUME AIDesignAssumption, IInv, NEW w \in Workers, Advance(w)
    PROVE  IInv'
<1>0. PICK j, p, next : j = worker[w].job /\ p = worker[w].view.phase /\ next = [worker[w].view EXCEPT !.phase = p + 1]
  OBVIOUS
<1>1. /\ PhaseDone(w) /\ TransitionAIJob(w, next, worker[w].pc)
      /\ UNCHANGED <<attempt, evidence, patches, signaled, canceling, pending, base>>
  BY <1>0 DEF Advance, facts, memory, others
<1>2. /\ worker[w].pc \in {"working", "responded", "sealed"} /\ p \in 1..4
      /\ p = 1 => worker[w].pc = "working" /\ j \in evidence
      /\ p = 2 => worker[w].pc = "working"
      /\ p = 3 => worker[w].pc = "responded" /\ worker[w].answer = "valid"
      /\ p = 4 => worker[w].pc = "sealed"
  BY <1>0, <1>1 DEF PhaseDone, InputPinned, EvidencePinned, ProviderToolLoop, DeterministicPreview
<1>3. /\ Holds(w) /\ HolderIsSound(w) /\ AttemptIsSound(w)
      /\ j \in Jobs /\ worker[w] \in WorkerRows /\ worker[w].view.status = "running"
  BY <1>0, <1>2, HolderFacts
<1>4. next \in RunRows /\ next.status = "running" /\ next.phase = p + 1
  <2>1. worker[w].view \in RunRows
    BY <1>3 DEF WorkerRows
  <2> QED
    BY <1>0, <1>2, <1>3, <2>1 DEF RunRows, Phase
<1>5. CASE Refused(w)
  BY <1>1, <1>2, <1>5, LostKept DEF Refused
<1>6. ASSUME NEW x \in RunRows, Commits(w, j, x, worker[w].pc),
             x.gen = run[j].gen, x.status = next.status, x.phase = next.phase
      PROVE  IInv'
  <2>1. x.gen = run[j].gen /\ x.status = "running" /\ x.phase = p + 1
    BY <1>4, <1>6 DEF RunRows
  <2>2. \A v \in Workers : v # w /\ Holds(v) => worker[v].job # j
    BY <1>0, <1>3 DEF IInv, OneHolder
  <2>3. /\ worker'[w].attempt = worker[w].attempt /\ worker'[w].pc = worker[w].pc /\ worker'[w].job = j
        /\ worker'[w].answer = worker[w].answer
    BY <1>0, <1>3, <1>6 DEF IInv, Typed, WorkerRows, Commits
  <2>4. AttemptsOf(j)' = AttemptsOf(j)
    BY <1>1 DEF AttemptsOf
  <2>5. AttemptIsSound(w)'
    BY <1>0, <1>1, <1>3, <2>3, <2>4 DEF AttemptIsSound, IsLast, Unasked, Open, Whole
  <2>6. j \notin pending /\ (x.phase > 1 => j \in evidence)
    BY <1>0, <1>2, <1>3 DEF HolderIsSound
  <2>7. worker[w].pc = "working" => worker[w].attempt = None
    BY <1>0, <1>2, <1>3 DEF HolderIsSound
  <2>8. worker[w].pc = "responded" =>
          /\ worker[w].answer # "malformed" /\ worker[w].lease # "none"
          /\ (signaled[j] > 0 => worker[w].lease = "canceled")
    BY <1>0, <1>2, <1>3 DEF HolderIsSound
  <2>9. worker[w].pc \in {"working", "responded", "sealed", "done"} /\ worker[w].pc # "done"
    BY <1>2
  <2> QED
    BY <1>0, <1>1, <1>3, <1>6, <2>1, <2>2, <2>5, <2>6, <2>7, <2>8, <2>9, CommitKept
<1>7. PICK x : x = [next EXCEPT !.gen = run[j].gen]
  OBVIOUS
<1>8. x \in RunRows /\ x.gen = run[j].gen /\ x.status = next.status /\ x.phase = next.phase
  BY <1>3, <1>4, <1>7, NextRow
<1>9. Refused(w) \/ Commits(w, j, x, worker[w].pc)
  <2>1. run \in [Jobs -> RunRows]
    BY DEF IInv, Typed
  <2> QED
    BY <1>0, <1>1, <1>3, <1>7, <2>1 DEF TransitionAIJob, Refused, Commits
<1> QED
  BY <1>5, <1>6, <1>8, <1>9

LEMMA SealPatchKept ==
    ASSUME AIDesignAssumption, IInv, NEW w \in Workers, SealPatch(w)
    PROVE  IInv'
<1>0. PICK j, a, next : /\ j = worker[w].job /\ a = worker[w].attempt
                        /\ next = [worker[w].view EXCEPT !.status = "succeeded", !.owner = None, !.result = a]
  OBVIOUS
<1>1. /\ worker[w].pc = "sealed" /\ worker[w].view.phase = 5 /\ TransitionAIJob(w, next, "done")
      /\ UNCHANGED <<attempt, evidence, patches, signaled, canceling, pending, base>>
  BY <1>0 DEF SealPatch, PatchSealed, facts, memory, others
<1>2. /\ Holds(w) /\ HolderIsSound(w) /\ AttemptIsSound(w)
      /\ j \in Jobs /\ a \in Attempts /\ IsLast(a, j) /\ worker[w].view.status = "running"
  BY <1>0, <1>1, AskedFacts
<1>3. Whole(a) /\ j \in evidence /\ j \notin pending
  BY <1>0, <1>1, <1>2 DEF HolderIsSound, AttemptIsSound
<1>4. next \in RunRows /\ next.status = "succeeded" /\ next.phase = 5 /\ next.result = a
  <2>1. PICK r : r = [worker[w].view EXCEPT !.status = "succeeded"]
    OBVIOUS
  <2>2. worker[w].view \in RunRows
    BY DEF IInv, Typed, WorkerRows
  <2>3. r \in RunRows /\ r.status = "succeeded" /\ r.phase = 5
    BY <1>1, <2>1, <2>2 DEF RunRows, Status
  <2>4. PICK q : q = [r EXCEPT !.owner = None]
    OBVIOUS
  <2>5. q \in RunRows /\ q.status = "succeeded" /\ q.phase = 5
    BY <2>3, <2>4 DEF RunRows
  <2>6. next = [q EXCEPT !.result = a]
    BY <1>0, <2>1, <2>2, <2>4 DEF RunRows
  <2> QED
    BY <1>2, <2>5, <2>6 DEF RunRows
<1>5. CASE Refused(w)
  BY <1>1, <1>5, LostKept DEF Refused
<1>6. PICK x : x = [next EXCEPT !.gen = run[j].gen]
  OBVIOUS
<1>7. x \in RunRows /\ x.gen = run[j].gen /\ x.status = "succeeded" /\ x.phase = 5 /\ x.result = a
  BY <1>2, <1>4, <1>6, NextRow
<1>8. ASSUME Commits(w, j, x, "done"), run[j].gen = 0 PROVE IInv'
  <2>1. \A v \in Workers : v # w /\ Holds(v) => worker[v].job # j
    BY <1>0, <1>2 DEF IInv, OneHolder
  <2>2. worker'[w].attempt = a /\ worker'[w].pc = "done" /\ worker'[w].job = j
    BY <1>0, <1>8 DEF IInv, Typed, WorkerRows, Commits
  <2>3. AttemptsOf(j)' = AttemptsOf(j)
    BY <1>1 DEF AttemptsOf
  <2>4. AttemptIsSound(w)'
    <3>1. a # None
      BY <1>2, NoneFacts
    <3> QED
      BY <1>1, <1>2, <2>2, <2>3, <3>1 DEF AttemptIsSound, IsLast
  <2>5. IsLast(x.result, j) /\ Whole(x.result)
    BY <1>2, <1>3, <1>7
  <2> QED
    BY <1>0, <1>1, <1>2, <1>3, <1>7, <1>8, <2>1, <2>4, <2>5, CommitKept
<1>9. Refused(w) \/ (run[j].gen = 0 /\ Commits(w, j, x, "done"))
  <2>1. run \in [Jobs -> RunRows]
    BY DEF IInv, Typed
  <2> QED
    BY <1>0, <1>1, <1>2, <1>4, <1>6, <2>1 DEF TransitionAIJob, CommitsTransition, StoreMatches, Refused, Commits
<1> QED
  BY <1>5, <1>8, <1>9

LEMMA SettleKept ==
    ASSUME AIDesignAssumption, IInv, NEW w \in Workers, SettleCancellation(w)
    PROVE  IInv'
<1>0. PICK j : j = worker[w].job
  OBVIOUS
<1>1. /\ worker[w].pc \in {"late", "lost", "stopped"} /\ worker[w].lease # "none"
      /\ worker' = [worker EXCEPT ![w] = Idle]
      /\ UNCHANGED <<attempt, evidence, patches, signaled, canceling, pending, base>>
  BY DEF SettleCancellation, facts, memory, others
<1>2. PICK next \in {"canceled", "interrupted"} : run' = [run EXCEPT ![j] = [@ EXCEPT !.status = next, !.owner = None]]
  BY <1>0 DEF SettleCancellation
<1>3. Holds(w) /\ HolderIsSound(w) /\ j \in Jobs
  BY <1>0, <1>1, HolderFacts
<1>4. PICK x : x = [run[j] EXCEPT !.status = next, !.owner = None]
  OBVIOUS
<1>5. /\ x \in RunRows /\ x.status = next /\ x.gen = run[j].gen /\ run' = [run EXCEPT ![j] = x]
  <2>1. run[j] \in RunRows /\ next \in Status /\ run \in [Jobs -> RunRows]
    BY <1>2, <1>3 DEF IInv, Typed, Status
  <2> QED
    BY <1>2, <1>3, <1>4, <2>1 DEF RunRows
<1>6. worker'[w] = Idle /\ run'[j] = x
  BY <1>1, <1>3, <1>5 DEF IInv, Typed
<1>7. JobIsSound(j)'
  <2>1. JobIsSound(j) /\ AttemptsOf(j)' = AttemptsOf(j)
    BY <1>1, <1>3 DEF IInv, AttemptsOf
  <2>2. \A a : IsLast(a, j)' = IsLast(a, j)
    BY <1>1, <2>1 DEF IsLast
  <2> QED
    BY <1>1, <1>2, <1>5, <1>6, <2>1, <2>2 DEF JobIsSound
<1>8. WorkerIsSound(w)'
  BY <1>6, IdleSound
<1>9. \A v \in Workers : v # w /\ Holds(v) => worker[v].job # j
  BY <1>0, <1>3 DEF IInv, OneHolder
<1>10. PICK row \in WorkerRows : row = Idle
  BY IdleFacts
<1>11. worker' = [worker EXCEPT ![w] = row] /\ ~(row.view.status \in {"running", "succeeded"})
  BY <1>1, <1>10, IdleFacts
<1> QED
  BY <1>0, <1>1, <1>3, <1>5, <1>7, <1>8, <1>9, <1>11, RunKept

-----------------------------------------------------------------------------
(* Steps of a Job: admission, cancellation, recovery and retry.            *)

(* The row of Job j and its attempts change; nobody holds it, or the step  *)
(* leaves what a holder rests on alone.                                    *)
LEMMA RowsKept ==
    ASSUME IInv, NEW j \in Jobs, run' \in [Jobs -> RunRows], attempt' \in [Attempts -> AttemptRows],
           ParentsExist', LineageIsChain',
           \A i \in Jobs : i # j => run'[i] = run[i] /\ Undisturbed(i),
           \A v \in Workers : Holds(v) /\ worker[v].job = j => Undisturbed(j),
           JobIsSound(j)', \A i \in Jobs : i # j /\ i \in canceling' => i \in canceling,
           UNCHANGED <<worker, signaled, base>>
    PROVE  IInv'
<1>1. Typed' /\ OneHolder'
  BY DEF IInv, Typed, OneHolder, Holds
<1>2. ASSUME NEW i \in Jobs PROVE JobIsSound(i)'
  BY JobStays DEF IInv
<1>3. ASSUME NEW w \in Workers PROVE WorkerIsSound(w)'
  <2>1. WorkerIsSound(w) /\ worker'[w] = worker[w]
    BY DEF IInv
  <2>2. Holds(w) => Undisturbed(worker[w].job)
    BY <2>1 DEF WorkerIsSound, HolderIsSound
  <2> QED
    BY <2>1, <2>2, WorkerStays
<1> QED
  BY <1>1, <1>2, <1>3 DEF IInv

(* Of a row alone.                                                         *)
LEMMA RowKept ==
    ASSUME IInv, NEW j \in Jobs, NEW x \in RunRows, run' = [run EXCEPT ![j] = x],
           UNCHANGED <<attempt, evidence, patches, signaled, base, worker>>, pending' \subseteq pending,
           x.status = run[j].status \/ \A v \in Workers : Holds(v) => worker[v].job # j,
           JobIsSound(j)', canceling' \subseteq canceling \cup {j}
    PROVE  IInv'
<1>1. run' \in [Jobs -> RunRows] /\ attempt' \in [Attempts -> AttemptRows]
  BY DEF IInv, Typed
<1>2. ParentsExist' /\ LineageIsChain'
  BY DEF IInv, ParentsExist, LineageIsChain
<1>3. \A i : SameLedger(i)
  BY DEF SameLedger, AttemptsOf
<1>4. \A i \in Jobs : i # j => run'[i] = run[i] /\ Undisturbed(i)
  BY <1>3 DEF Undisturbed, IInv, Typed
<1>5. \A v \in Workers : Holds(v) /\ worker[v].job = j => Undisturbed(j)
  BY <1>3 DEF Undisturbed, IInv, Typed
<1>6. \A i \in Jobs : i # j /\ i \in canceling' => i \in canceling
  OBVIOUS
<1> QED
  BY <1>1, <1>2, <1>4, <1>5, <1>6, RowsKept

(* Nobody holds a Job that is not running or sealed.                       *)
LEMMA NotHeld ==
    ASSUME IInv, NEW j \in Jobs, run[j].status \notin {"running", "succeeded"} \/ j \in pending
    PROVE  \A v \in Workers : Holds(v) => worker[v].job # j
  BY DEF IInv, WorkerIsSound, HolderIsSound, Holds

LEMMA QueuedFacts ==
    ASSUME NEW b \in Nat
    PROVE  /\ QueuedRun(b) \in RunRows /\ QueuedRun(b).status = "queued" /\ QueuedRun(b).gen = 0
           /\ [QueuedRun(b) EXCEPT !.row = FALSE] \in RunRows
           /\ [QueuedRun(b) EXCEPT !.row = FALSE].status = "queued"
           /\ [QueuedRun(b) EXCEPT !.row = FALSE].gen = 0
<1>1. PICK q : q = [NoRun EXCEPT !.status = "queued"]
  OBVIOUS
<1>2. PICK p : p = [q EXCEPT !.row = TRUE]
  OBVIOUS
<1>3. NoRun \in RunRows /\ NoRun.gen = 0
  BY IdleFacts DEF NoRun
<1>4. q \in RunRows /\ q.status = "queued" /\ q.gen = 0
  BY <1>1, <1>3 DEF RunRows, Status
<1>5. p \in RunRows /\ p.status = "queued" /\ p.gen = 0
  BY <1>2, <1>4 DEF RunRows
<1>6. QueuedRun(b) = [p EXCEPT !.input = b]
  BY <1>1, <1>2, <1>3 DEF QueuedRun, RunRows
<1>7. QueuedRun(b) \in RunRows /\ QueuedRun(b).status = "queued" /\ QueuedRun(b).gen = 0
  BY <1>5, <1>6 DEF RunRows
<1> QED
  BY <1>7 DEF RunRows

LEMMA AdmitKept ==
    ASSUME IInv, NEW j \in Jobs, Submit(j) \/ AdmitAIJob(j)
    PROVE  IInv'
<1>1. /\ run[j].status = "none"
      /\ UNCHANGED <<attempt, evidence, patches, signaled, canceling, base, worker, pending>>
  BY DEF Submit, AdmitAIJob, facts, memory, others
<1>2. PICK x \in RunRows : run' = [run EXCEPT ![j] = x] /\ x.status = "queued" /\ x.gen = 0
  BY QueuedFacts DEF Submit, AdmitAIJob, IInv, Typed
<1>3. JobIsSound(j) /\ run'[j] = x /\ AttemptsOf(j)' = AttemptsOf(j) /\ run[j].gen = 0
  BY <1>1, <1>2 DEF IInv, Typed, AttemptsOf, JobIsSound, NoRun
<1>4. JobIsSound(j)'
  BY <1>1, <1>2, <1>3 DEF JobIsSound
<1>5. \A v \in Workers : Holds(v) => worker[v].job # j
  BY <1>1, NotHeld
<1> QED
  BY <1>1, <1>2, <1>4, <1>5, RowKept

(* The row of a canceled Job.                                              *)
LEMMA CanceledFacts ==
    ASSUME NEW r \in RunRows, Cancelable(r), NEW x, x = CanceledRun(r)
    PROVE  /\ x \in RunRows /\ x.gen = 1
           /\ x.status = r.status \/ (r.status \notin {"running", "succeeded"} /\ x.status = "canceled")
           /\ x.status \notin {"queued", "succeeded"}
<1>1. CASE r.status \in {"queued", "interrupted"}
  <2>1. PICK q : q = [r EXCEPT !.status = "canceled"]
    OBVIOUS
  <2>2. PICK p : p = [q EXCEPT !.owner = None]
    OBVIOUS
  <2>3. q \in RunRows /\ q.status = "canceled"
    BY <2>1 DEF RunRows, Status
  <2>4. p \in RunRows /\ p.status = "canceled"
    BY <2>2, <2>3 DEF RunRows
  <2>5. x = [p EXCEPT !.gen = 1]
    BY <1>1, <2>1, <2>2 DEF CanceledRun, RunRows
  <2> QED
    BY <1>1, <2>4, <2>5 DEF RunRows
<1>2. CASE r.status \notin {"queued", "interrupted"}
  BY <1>2 DEF CanceledRun, Cancelable, RunRows
<1> QED
  BY <1>1, <1>2

LEMMA CancelKept ==
    ASSUME IInv, NEW j \in Jobs, RequestCancellation(j) \/ CoordinatorCancel(j)
    PROVE  IInv'
<1>1. /\ UNCHANGED <<attempt, evidence, patches, signaled, base, worker, pending>>
      /\ canceling' = canceling \/ canceling' = canceling \cup {j}
      /\ Get(j)
  BY DEF RequestCancellation, CoordinatorCancel, facts, memory, others
<1>2. JobIsSound(j) /\ AttemptsOf(j)' = AttemptsOf(j) /\ (\A a : IsLast(a, j)' = IsLast(a, j)) /\ (\A a : Unasked(a)' = Unasked(a)) /\ (\A a : Whole(a)' = Whole(a))
  BY <1>1 DEF IInv, AttemptsOf, IsLast, Unasked, Whole
<1>3. run[j] \in RunRows /\ run[j].gen \in 0..1 /\ signaled[j] \in 0..1 /\ run \in [Jobs -> RunRows]
  BY DEF IInv, Typed, RunRows
<1>4. run[j].status # "none"
  BY <1>1, <1>2 DEF Get, ValidState, JobIsSound, NoRun
<1>5. CASE Cancelable(run[j])
  <2>1. PICK x : x = CanceledRun(run[j])
    OBVIOUS
  <2>2. run' = [run EXCEPT ![j] = x]
    BY <1>5, <2>1 DEF RequestCancellation, CoordinatorCancel
  <2>3. /\ x \in RunRows /\ x.gen = 1
        /\ x.status = run[j].status \/ (run[j].status \notin {"running", "succeeded"} /\ x.status = "canceled")
        /\ x.status \notin {"queued", "succeeded"}
    BY <1>3, <1>5, <2>1, CanceledFacts
  <2>4. run'[j] = x
    BY <1>3, <2>2
  <2>5. JobIsSound(j)'
    BY <1>1, <1>2, <1>3, <1>4, <2>3, <2>4 DEF JobIsSound
  <2>6. x.status = run[j].status \/ \A v \in Workers : Holds(v) => worker[v].job # j
    BY <2>3, NotHeld
  <2> QED
    BY <1>1, <2>2, <2>3, <2>5, <2>6, RowKept
<1>6. CASE ~Cancelable(run[j])
  <2>1. run' = run /\ run[j].gen > signaled[j]
    BY <1>6 DEF RequestCancellation, CoordinatorCancel
  <2>2. run[j].gen = 1
    BY <1>3, <2>1
  <2>3. PICK x \in RunRows : x = run[j] /\ run' = [run EXCEPT ![j] = x]
    BY <1>3, <2>1
  <2>4. JobIsSound(j)'
    BY <1>1, <1>2, <2>1, <2>2 DEF JobIsSound
  <2> QED
    BY <1>1, <2>3, <2>4, RowKept
<1> QED
  BY <1>5, <1>6

(* The signal reaches every lease of the Job, and no worker needs more.    *)
LEMMA SignalKept ==
    ASSUME IInv, NEW j \in Jobs, Signal(j)
    PROVE  IInv'
<1>1. /\ UNCHANGED <<run, attempt, evidence, patches, base, pending>>
      /\ j \in canceling /\ canceling' = canceling \ {j}
      /\ signaled' = [signaled EXCEPT ![j] = run[j].gen]
  BY DEF Signal, facts, others
<1>2. ASSUME NEW w \in Workers
      PROVE  /\ worker'[w] \in WorkerRows /\ worker'[w].pc = worker[w].pc /\ worker'[w].job = worker[w].job
             /\ worker'[w].view = worker[w].view /\ worker'[w].attempt = worker[w].attempt
             /\ worker'[w].answer = worker[w].answer
             /\ worker[w].lease = "none" => worker'[w] = worker[w]
             /\ worker[w].lease # "none" => worker'[w].lease # "none"
             /\ worker[w].job # j => worker'[w] = worker[w]
             /\ worker[w].job = j /\ worker[w].lease # "none" => worker'[w].lease = "canceled"
  <2>1. worker[w] \in WorkerRows
    BY DEF IInv, Typed
  <2>2. CASE worker[w].job = j /\ worker[w].lease = "live"
    <3>1. worker'[w] = [worker[w] EXCEPT !.lease = "canceled"]
      BY <2>2 DEF Signal
    <3> QED
      BY <2>1, <2>2, <3>1 DEF WorkerRows
  <2>3. CASE ~(worker[w].job = j /\ worker[w].lease = "live")
    <3>1. worker'[w] = worker[w]
      BY <2>3 DEF Signal
    <3> QED
      BY <2>1, <2>3, <3>1 DEF WorkerRows
  <2> QED
    BY <2>2, <2>3
<1>3. run[j].gen \in 0..1 /\ run[j] \in RunRows
  BY DEF IInv, Typed, RunRows
<1>4. Typed' /\ ParentsExist' /\ LineageIsChain'
  <2>1. worker' \in [Workers -> WorkerRows]
    BY <1>2 DEF Signal
  <2> QED
    BY <1>1, <1>3, <2>1 DEF IInv, Typed, ParentsExist, LineageIsChain
<1>5. OneHolder'
  BY <1>2 DEF IInv, OneHolder, Holds
<1>6. \A i : AttemptsOf(i)' = AttemptsOf(i)
  BY <1>1 DEF AttemptsOf
<1>7. ASSUME NEW i \in Jobs, i # j PROVE Undisturbed(i)
  BY <1>1, <1>6, <1>7 DEF Undisturbed, SameLedger, IInv, Typed
<1>8. JobIsSound(j)'
  <2>1. JobIsSound(j) /\ signaled'[j] = run[j].gen
    BY <1>1 DEF IInv, Typed
  <2>2. \A a : IsLast(a, j)' = IsLast(a, j) /\ Whole(a)' = Whole(a) /\ Unasked(a)' = Unasked(a)
    BY <1>1, <1>6 DEF IsLast, Whole, Unasked
  <2>3. Whole(run[j].result)' = Whole(run[j].result) /\ IsLast(run[j].result, j)' = IsLast(run[j].result, j)
    BY <1>1, <1>6 DEF IsLast, Whole
  <2> QED
    BY <1>1, <1>3, <1>6, <2>1, <2>2, <2>3 DEF JobIsSound
<1>9. ASSUME NEW i \in Jobs PROVE JobIsSound(i)'
  <2>1. CASE i # j
    BY <1>1, <1>7, <2>1, JobStays DEF IInv
  <2> QED
    BY <1>8, <2>1
<1>10. ASSUME NEW w \in Workers PROVE WorkerIsSound(w)'
  <2>1. WorkerIsSound(w)
    BY DEF IInv
  <2>2. CASE worker[w].job # j
    <3>1. Holds(w) => Undisturbed(worker[w].job)
      BY <1>7, <2>1, <2>2 DEF WorkerIsSound, HolderIsSound
    <3> QED
      BY <1>2, <2>1, <2>2, <3>1, WorkerStays
  <2>3. CASE worker[w].job = j
    <3>1. ASSUME Holds(w) PROVE HolderIsSound(w)'
      <4>1. HolderIsSound(w) /\ AttemptIsSound(w)
        BY <2>1, <3>1 DEF WorkerIsSound, HolderIsSound
      <4>2. AttemptIsSound(w)'
        BY <1>1, <1>2, <1>6, <4>1 DEF AttemptIsSound, IsLast, Unasked, Open, Whole
      <4> QED
        BY <1>1, <1>2, <2>3, <4>1, <4>2 DEF HolderIsSound
    <3> QED
      BY <1>2, <2>1, <3>1, IdleFacts DEF WorkerIsSound, Holds
  <2> QED
    BY <2>2, <2>3
<1> QED
  BY <1>4, <1>5, <1>9, <1>10 DEF IInv

(* Startup recovery looks at a Job nobody holds; the attempt it interrupts *)
(* has no answer.                                                          *)
LEMMA RecoverKept ==
    ASSUME AIDesignAssumption, IInv, NEW j \in Jobs, Recover(j)
    PROVE  IInv'
<1>0. PICK a : a = LastAttempt(j)
  OBVIOUS
<1>1. /\ UNCHANGED <<evidence, patches, signaled, canceling, base, worker>>
      /\ j \in pending /\ pending' = pending \ {j}
  BY DEF Recover, memory
<1>2. \A v \in Workers : Holds(v) => worker[v].job # j
  BY <1>1, NotHeld
<1>3. run[j] \in RunRows /\ run \in [Jobs -> RunRows] /\ attempt \in [Attempts -> AttemptRows] /\ JobIsSound(j)
  BY DEF IInv, Typed
<1>4. CASE UNCHANGED <<run, attempt>>
  <2>1. PICK x \in RunRows : x = run[j] /\ run' = [run EXCEPT ![j] = x]
    BY <1>3, <1>4
  <2>2. AttemptsOf(j)' = AttemptsOf(j)
    BY <1>4 DEF AttemptsOf
  <2>3. \A b : IsLast(b, j)' = IsLast(b, j) /\ Whole(b)' = Whole(b) /\ Unasked(b)' = Unasked(b)
    BY <1>1, <1>4, <2>2 DEF IsLast, Whole, Unasked
  <2>4. Whole(run[j].result)' = Whole(run[j].result) /\ IsLast(run[j].result, j)' = IsLast(run[j].result, j)
    BY <1>1, <1>4, <2>2 DEF IsLast, Whole
  <2>5. JobIsSound(j)'
    BY <1>1, <1>3, <1>4, <2>2, <2>3, <2>4 DEF JobIsSound
  <2> QED
    BY <1>1, <1>2, <1>4, <2>1, <2>5, RowKept
<1>5. CASE /\ run[j].status = "running" /\ Unreceipted(j)
           /\ run' = [run EXCEPT ![j].status = "interrupted", ![j].owner = None]
           /\ attempt' = IF a = None THEN attempt ELSE [attempt EXCEPT ![a].outcome = "interrupted"]
  <2>1. run' \in [Jobs -> RunRows] /\ run'[j].status = "interrupted" /\ run'[j].gen = run[j].gen
        /\ \A i \in Jobs : i # j => run'[i] = run[i]
    <3>1. PICK x : x = [run[j] EXCEPT !.status = "interrupted", !.owner = None]
      OBVIOUS
    <3>2. x \in RunRows /\ x.status = "interrupted" /\ x.gen = run[j].gen
      BY <1>3, <3>1 DEF RunRows, Status
    <3>3. run' = [run EXCEPT ![j] = x]
      BY <1>3, <1>5, <3>1
    <3> QED
      BY <1>3, <3>2, <3>3
  <2>2. a # None => a \in Attempts /\ IsLast(a, j) /\ attempt[a].response = "none" /\ attempt[a].outcome = "none"
    <3>1. a # None => IsLast(a, j)
      BY <1>0, LastOrNone
    <3> QED
      BY <1>0, <1>5, <3>1 DEF Unreceipted, IsLast, AttemptsOf
  <2>3. /\ attempt' \in [Attempts -> AttemptRows]
        /\ \A x \in Attempts : Keeps(x)
        /\ \A x \in Attempts : attempt[x].job # j => attempt'[x] = attempt[x]
    <3>1. CASE a = None
      BY <1>3, <1>5, <3>1 DEF Keeps, IInv, LineageIsChain
    <3>2. CASE a # None
      <4>1. PICK r : r = [attempt[a] EXCEPT !.outcome = "interrupted"]
        OBVIOUS
      <4>2. attempt[a] \in AttemptRows /\ attempt' = [attempt EXCEPT ![a] = r] /\ attempt[a].job = j
        BY <1>3, <1>5, <2>2, <3>2, <4>1 DEF IsLast, AttemptsOf
      <4>3. r \in AttemptRows
        BY <4>1, <4>2 DEF AttemptRows
      <4>4. attempt' \in [Attempts -> AttemptRows] /\ attempt'[a] = r /\ \A x \in Attempts : x # a => attempt'[x] = attempt[x]
        BY <1>3, <2>2, <3>2, <4>2, <4>3
      <4>5. Keeps(a)
        BY <2>2, <3>2, <4>1, <4>2, <4>4 DEF Keeps, AttemptRows, IInv, LineageIsChain
      <4>6. ASSUME NEW x \in Attempts, x # a PROVE Keeps(x)
        BY <4>4, <4>6 DEF Keeps, IInv, LineageIsChain
      <4> QED
        BY <4>2, <4>4, <4>5, <4>6
    <3> QED
      BY <3>1, <3>2
  <2>4. ParentsExist' /\ LineageIsChain'
    <3>1. PICK New : New = {}
      OBVIOUS
    <3>2. ParentsExist /\ LineageIsChain
      BY DEF IInv
    <3> QED
      BY <2>3, <3>1, <3>2, ChainKept
  <2>5. \A i : AttemptsOf(i)' = AttemptsOf(i)
    BY <2>3 DEF AttemptsOf, Keeps
  <2>6. \A i \in Jobs : i # j => run'[i] = run[i] /\ Undisturbed(i)
    BY <1>1, <2>1, <2>3, <2>5 DEF Undisturbed, SameLedger, AttemptsOf
  <2>7. JobIsSound(j)'
    <3>1. \A b : IsLast(b, j) => IsLast(b, j)'
      BY <2>3, <2>5 DEF IsLast, AttemptsOf, Keeps
    <3> QED
      BY <1>1, <1>3, <2>1, <2>5, <3>1 DEF JobIsSound
  <2>8. \A i \in Jobs : i # j /\ i \in canceling' => i \in canceling
    BY <1>1
  <2> QED
    BY <1>1, <1>2, <2>1, <2>3, <2>4, <2>6, <2>7, <2>8, RowsKept
<1> QED
  BY <1>0, <1>4, <1>5 DEF Recover

(* The first attempt of a retry is linked to the one that failed.          *)
LEMMA RetryKept ==
    ASSUME AIDesignAssumption, IInv, NEW j \in Jobs, NEW k \in Jobs, NEW b \in Attempts, Retry(j, k, b)
    PROVE  IInv'
<1>0. PICK a, r : a = LastAttempt(j) /\ r = NewAttempt(k, "explicit_retry", 1, 0, a, 0)
  OBVIOUS
<1>1. /\ UNCHANGED <<evidence, patches, signaled, canceling, base, worker, pending>>
      /\ a # None /\ attempt[a].outcome \in {"interrupted", "failed"}
      /\ run[k].status = "none" /\ attempt[b] = NoAttempt
      /\ attempt' = [attempt EXCEPT ![b] = r]
  BY <1>0 DEF Retry, Retryable, Fresh, memory, others
<1>2. PICK x \in RunRows : run' = [run EXCEPT ![k] = x] /\ x.status = "queued" /\ x.gen = 0
  BY QueuedFacts DEF Retry, IInv, Typed
<1>3. /\ run \in [Jobs -> RunRows] /\ attempt \in [Attempts -> AttemptRows] /\ JobIsSound(k)
      /\ run' \in [Jobs -> RunRows] /\ run'[k] = x /\ \A i \in Jobs : i # k => run'[i] = run[i]
  BY <1>2 DEF IInv, Typed
<1>4. a \in Attempts /\ a # b
  <2>1. IsLast(a, j)
    BY <1>0, <1>1, LastOrNone
  <2> QED
    BY <1>1, <2>1, IdleFacts DEF IsLast, AttemptsOf
<1>5. /\ r \in AttemptRows /\ r.job = k /\ r.kind = "explicit_retry" /\ r.ordinal = 1 /\ r.round = 0
      /\ r.parent = a /\ r.calls = 0 /\ r.response = "none" /\ r.outcome = "none"
  <2>1. PICK n \in Nat, m \in Nat, g \in 0..1 : n = 1 /\ m = 0 /\ g = 0
    OBVIOUS
  <2>2. r = NewAttempt(k, "explicit_retry", n, m, a, g)
    BY <1>0, <2>1
  <2>3. /\ r \in AttemptRows /\ r.job = k /\ r.kind = "explicit_retry" /\ r.ordinal = n /\ r.round = m
        /\ r.parent = a /\ r.calls = 0 /\ r.response = "none" /\ r.outcome = "none"
    BY <1>4, <2>2 DEF NewAttempt, NoAttempt, AttemptRows
  <2> QED
    BY <2>1, <2>3
<1>6. /\ attempt' \in [Attempts -> AttemptRows] /\ attempt'[b] = r
      /\ \A y \in Attempts : y # b => attempt'[y] = attempt[y]
  BY <1>1, <1>3, <1>5
<1>7. AttemptsOf(k) = {} /\ run[k].gen = 0 /\ k # None
  BY <1>1, <1>3, NoneFacts DEF JobIsSound, NoRun
<1>8. Linked(b)
  <2>1. \A y \in Attempts : attempt[y].job # k
    BY <1>7 DEF AttemptsOf
  <2> QED
    BY <1>1, <1>4, <1>5, <1>6, <2>1, NoneFacts DEF Linked
<1>9. \A y \in Attempts : y # b => Keeps(y)
  BY <1>6 DEF Keeps, IInv, LineageIsChain
<1>10. ParentsExist' /\ LineageIsChain'
  <2>1. PICK New : New = {b}
    OBVIOUS
  <2>2. ParentsExist /\ LineageIsChain
    BY DEF IInv
  <2>3. \A x1, x2 \in New : x1 = x2
    BY <2>1
  <2>4. \A y \in New : attempt[y] = NoAttempt /\ Linked(y)
    BY <1>1, <1>8, <2>1
  <2>5. \A y \in Attempts : y \notin New => Keeps(y)
    BY <1>9, <2>1
  <2> QED
    BY <2>2, <2>3, <2>4, <2>5, ChainKept
<1>11. attempt[b].job = None
  BY <1>1, IdleFacts
<1>12. ASSUME NEW i \in Jobs, i # k PROVE Undisturbed(i)
  <2>1. AttemptsOf(i)' = AttemptsOf(i)
    BY <1>5, <1>6, <1>11, <1>12, NoneFacts DEF AttemptsOf
  <2>2. \A y \in AttemptsOf(i) : attempt'[y] = attempt[y]
    BY <1>6, <1>11, NoneFacts DEF AttemptsOf
  <2> QED
    BY <1>1, <1>3, <1>12, <2>1, <2>2 DEF Undisturbed, SameLedger
<1>13. AttemptsOf(k)' = {b}
  BY <1>5, <1>6, <1>7 DEF AttemptsOf
<1>14. JobIsSound(k)'
  <2>1. Unasked(b)'
    BY <1>5, <1>6 DEF Unasked
  <2>2. IsLast(b, k)'
    BY <1>5, <1>6, <1>13 DEF IsLast
  <2> QED
    BY <1>1, <1>2, <1>3, <1>7, <1>13, <2>1, <2>2 DEF JobIsSound
<1>15. \A v \in Workers : Holds(v) => worker[v].job # k
  BY <1>1, NotHeld
<1>16. \A i \in Jobs : i # k => run'[i] = run[i] /\ Undisturbed(i)
  BY <1>3, <1>12
<1>17. \A i \in Jobs : i # k /\ i \in canceling' => i \in canceling
  BY <1>1
<1> QED
  BY <1>1, <1>3, <1>6, <1>10, <1>14, <1>15, <1>16, <1>17, RowsKept

LEMMA MoveBaseKept ==
    ASSUME AIDesignAssumption, IInv, MoveBase
    PROVE  IInv'
<1>1. /\ UNCHANGED <<run, attempt, evidence, patches, signaled, canceling, worker, pending>>
      /\ base' \in Nat
  BY DEF MoveBase, AIDesignAssumption, facts, memory
<1>2. Typed' /\ ParentsExist' /\ LineageIsChain' /\ OneHolder'
  BY <1>1 DEF IInv, Typed, ParentsExist, LineageIsChain, OneHolder, Holds
<1>3. \A j : Undisturbed(j)
  BY <1>1 DEF Undisturbed, SameLedger, AttemptsOf
<1>4. \A j \in Jobs : JobIsSound(j)'
  BY <1>1, <1>3, JobStays DEF IInv
<1>5. \A w \in Workers : WorkerIsSound(w)'
  BY <1>1, <1>3, WorkerStays DEF IInv
<1> QED
  BY <1>2, <1>4, <1>5 DEF IInv

(* A crash leaves the rows and the ledger, and no worker.                  *)
LEMMA CrashKept ==
    ASSUME IInv, Crash
    PROVE  IInv'
<1>1. /\ UNCHANGED <<run, attempt, evidence, patches, base>>
      /\ worker' = [w \in Workers |-> Idle] /\ signaled' = [j \in Jobs |-> 0] /\ canceling' = {}
      /\ pending' = {j \in Jobs : Get(j) /\ run[j].status = "running"}
  BY DEF Crash, facts
<1>2. Typed' /\ ParentsExist' /\ LineageIsChain'
  BY <1>1, IdleFacts DEF IInv, Typed, ParentsExist, LineageIsChain
<1>3. OneHolder' /\ \A w \in Workers : WorkerIsSound(w)'
  BY <1>1, IdleFacts, IdleSound DEF OneHolder, Holds
<1>4. ASSUME NEW j \in Jobs PROVE JobIsSound(j)'
  <2>1. JobIsSound(j) /\ AttemptsOf(j)' = AttemptsOf(j) /\ run[j].gen \in 0..1
    BY <1>1 DEF IInv, Typed, RunRows, AttemptsOf
  <2>2. \A a : IsLast(a, j)' = IsLast(a, j) /\ Whole(a)' = Whole(a) /\ Unasked(a)' = Unasked(a)
    BY <1>1, <2>1 DEF IsLast, Whole, Unasked
  <2>3. Whole(run[j].result)' = Whole(run[j].result) /\ IsLast(run[j].result, j)' = IsLast(run[j].result, j)
    BY <1>1, <2>1 DEF IsLast, Whole
  <2> QED
    BY <1>1, <2>1, <2>2, <2>3 DEF JobIsSound
<1> QED
  BY <1>2, <1>3, <1>4 DEF IInv

-----------------------------------------------------------------------------
(* The invariant.                                                          *)

LEMMA Initiation ==
    ASSUME AIDesignAssumption, Init
    PROVE  IInv
<1>1. Typed
  BY IdleFacts DEF Init, Typed
<1>2. \A a \in Attempts : attempt[a] = NoAttempt
  BY DEF Init
<1>3. ParentsExist /\ LineageIsChain
  BY <1>2, NoneFacts DEF ParentsExist, LineageIsChain, NoAttempt
<1>4. OneHolder /\ \A w \in Workers : WorkerIsSound(w)
  BY IdleFacts DEF Init, OneHolder, Holds, WorkerIsSound
<1>5. ASSUME NEW j \in Jobs PROVE JobIsSound(j)
  <2>1. AttemptsOf(j) = {}
    BY <1>2, IdleFacts, NoneFacts DEF AttemptsOf
  <2>2. run[j] = NoRun /\ NoRun.status = "none" /\ NoRun.gen = 0
    BY DEF Init, NoRun
  <2> QED
    BY <2>1, <2>2 DEF Init, JobIsSound
<1> QED
  BY <1>1, <1>3, <1>4, <1>5 DEF IInv

LEMMA Consecution ==
    ASSUME AIDesignAssumption, IInv, [Next]_vars
    PROVE  IInv'
<1>1. ASSUME NEW j \in Jobs, JobStep(j) PROVE IInv'
  BY <1>1, AdmitKept, CancelKept, SignalKept, RecoverKept, RetryKept DEF JobStep
<1>2. ASSUME NEW w \in Workers, CallStep(w) PROVE IInv'
  BY <1>2, BeginKept, InvokeKept, AnswerKept DEF CallStep
<1>3. ASSUME NEW w \in Workers, LedgerStep(w) PROVE IInv'
  BY <1>3, StoreKept, AdoptKept, ResponseKept, FailureKept, PatchKept, SealKept, FirstKept, RepairKept
  DEF LedgerStep
<1>4. ASSUME NEW w \in Workers, WorkerStep(w) PROVE IInv'
  BY <1>2, <1>3, <1>4, LoadKept, ClaimKept, AdvanceKept, SealPatchKept, IdleKept, SettleKept DEF WorkerStep
<1>5. CASE UNCHANGED vars
  BY <1>5 DEF vars, facts, memory, others, IInv, Typed, ParentsExist, LineageIsChain, OneHolder, Holds,
     JobIsSound, WorkerIsSound, HolderIsSound, AttemptIsSound, AttemptsOf, IsLast, Unasked, Open, Whole
<1> QED
  BY <1>1, <1>4, <1>5, MoveBaseKept, CrashKept DEF Next

(* In every reachable state of the AI design Jobs the rows have their      *)
(* types, the ledger is a chain, one worker holds a Job, and each phase of *)
(* that worker tells what the ledger has of its attempt                    *)
(* (orchestration/controller.go, storage/sqlite/ai_*.go).                  *)
THEOREM AIDesignInvariant == ASSUME AIDesignAssumption PROVE Spec => []IInv
<1>1. Init => IInv
  BY Initiation
<1>2. IInv /\ [Next]_vars => IInv'
  BY Consecution
<1> QED
  BY <1>1, <1>2, PTL DEF Spec

(* Sealing: see SealedIsWhole; the transition compares the generation the  *)
(* worker saw, and only its holder writes the ledger of a Job              *)
(* (storage/sqlite/ai_orchestration.go, TransitionAIJob).                  *)
THEOREM SealedIsWholeHolds == ASSUME AIDesignAssumption PROVE Spec => []SealedIsWhole
<1>1. IInv => SealedIsWhole
  BY LastIsOne DEF IInv, JobIsSound, Whole, SealedIsWhole
<1> QED
  BY <1>1, AIDesignInvariant, PTL

(* The attempt ledger: see LineageIsChain (validateAIAttemptLineage).      *)
THEOREM LineageIsChainHolds == ASSUME AIDesignAssumption PROVE Spec => []LineageIsChain
<1>1. IInv => LineageIsChain
  BY DEF IInv
<1> QED
  BY <1>1, AIDesignInvariant, PTL

LEMMA CancelIsSound == IInv => CancelReachesCalls
<1>1. SUFFICES ASSUME IInv, NEW w \in Workers,
                      worker[w].pc \in {"leased", "calling", "answered", "accepted"}, signaled[worker[w].job] > 0
               PROVE  worker[w].lease = "canceled"
  BY DEF CancelReachesCalls
<1>2. HolderIsSound(w)
  BY <1>1, HolderFacts
<1> QED
  BY <1>1, <1>2 DEF HolderIsSound

(* Cancellation: see CancelReachesCalls (BeginCalls reads the Job on both  *)
(* sides of the registration).                                             *)
THEOREM CancelReachesCallsHolds == ASSUME AIDesignAssumption PROVE Spec => []CancelReachesCalls
  BY AIDesignInvariant, CancelIsSound, PTL
=============================================================================
