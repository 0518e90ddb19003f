----------------------------- MODULE ImpactJobs -----------------------------
(***************************************************************************)
(* Impact analysis Jobs: admission by POST and by the graph handoff, the   *)
(* staging row of an input, the worker loop and the recovery goroutine     *)
(* that start side by side, cancellation, and the seal that commits        *)
(* report, Job and handoff together.  Every input below analyses the       *)
(* revision of the one handoff; inputs differ in base, filters or limits.  *)
(* Sources: internal/graph/impact, internal/storage/sqlite/impact_*.go,    *)
(* internal/bootstrap/impact_runtime.go, internal/app/impact_analysis.go.  *)
(***************************************************************************)
EXTENDS Naturals, Sequences, FiniteSets, Job

CONSTANTS
    ImpactKeys,      \* Jobs, each under an idempotency key of its own
    AutoKey,         \* the key AutomaticKey derives for the handoff
    ImpactInputs,    \* normalized inputs, told apart by their hash
    AutoInput,       \* the input the handoff's command normalizes to
    ImpactClients,   \* concurrent POST requests
    ImpactQueueSize, \* capacity of the runtime queue, 128 in the code
    ImpactRestarts,  \* bound on restarts
    NoKey

ASSUME ImpactAssumption ==
    /\ AutoKey \in ImpactKeys /\ AutoInput \in ImpactInputs
    /\ ImpactQueueSize \in Nat /\ ImpactRestarts \in Nat
    /\ NoKey \notin ImpactKeys

VARIABLES
    ijob,      \* jobs of kind impact_analysis
    staging,   \* impact_staging: the Job each input is staged for
    ireport,   \* impact_reports: the result sealed for each input
    handoff,   \* graph_impact_handoffs of the revision
    iqueue,    \* impactRuntime.queue
    agent,     \* clients, the loop and the recovery goroutine
    itodo,     \* Jobs the recovery goroutine has still to run
    irestarts

impactVars == <<ijob, staging, ireport, handoff, iqueue, agent, itodo, irestarts>>

Loop == "loop"
Recovery == "recovery"
Agents == ImpactClients \cup {Loop, Recovery}

(* What a report says; optional retrieval may be degraded or missing.      *)
Findings == {"complete", "degraded"}

NoJob == [status |-> "none", gen |-> 0, input |-> AutoInput]
Idle == [pc |-> "idle", key |-> NoKey, gen |-> 0, found |-> "none"]

ImpactInit ==
    /\ ijob = [k \in ImpactKeys |-> NoJob]
    /\ staging = [i \in ImpactInputs |-> NoKey]
    /\ ireport = [i \in ImpactInputs |-> "none"]
    /\ handoff = "queued"
    /\ iqueue = <<>>
    /\ agent = [a \in Agents |-> Idle]
    /\ itodo = {}
    /\ irestarts = 0

At(a, pc) == agent[a].pc = pc
Key(a) == agent[a].key
InputOf(a) == ijob[Key(a)].input
Go(a, pc) == agent' = [agent EXCEPT ![a].pc = pc]
Done(a) == agent' = [agent EXCEPT ![a] = Idle]

(* Transition of the shared repository, as a guard and as its effect.      *)
CanMove(k, from, to, gen) ==
    /\ ijob[k].status = from /\ ijob[k].gen = gen
    /\ CanTransitionTo(from, to)
    /\ to = "succeeded" => gen = 0

Moved(k, to) == [ijob EXCEPT ![k].status = to]

-----------------------------------------------------------------------------
(* Submission *)

(* CreateOrGet: a known key is replayed, a new one inserts the Job.        *)
CreateOrGetJob(a, k, i) ==
    /\ ijob[k].status = "none"
    /\ ijob' = [ijob EXCEPT ![k] = [NoJob EXCEPT !.status = "queued", !.input = i]]
    /\ agent' = [agent EXCEPT ![a] = [Idle EXCEPT !.pc = "lookup", !.key = k]]

(* CreateImpactAnalysis: admission, then Submit.  A replayed key returns   *)
(* the stored Job and changes nothing.                                     *)
Request(c) ==
    /\ At(c, "idle")
    /\ \E k \in ImpactKeys \ {AutoKey}, i \in ImpactInputs : CreateOrGetJob(c, k, i)
    /\ UNCHANGED <<staging, ireport, handoff, iqueue, itodo, irestarts>>

(* EnqueueImpact without a baseline or without the base graph waits, with  *)
(* another graph identity it fails; a replayed key goes on to the claim.   *)
DispatchWaits ==
    /\ At(Loop, "idle") /\ handoff \in {"queued", "waiting"}
    /\ \E h \in {"waiting", "failed"} : handoff' = h
    /\ UNCHANGED <<ijob, staging, ireport, iqueue, agent, itodo, irestarts>>

Dispatch ==
    /\ At(Loop, "idle") /\ handoff \in {"queued", "waiting"}
    /\ \/ CreateOrGetJob(Loop, AutoKey, AutoInput)
       \/ /\ ijob[AutoKey].status # "none"
          /\ agent' = [agent EXCEPT ![Loop] = [Idle EXCEPT !.pc = "claim", !.key = AutoKey]]
          /\ UNCHANGED ijob
    /\ UNCHANGED <<staging, ireport, handoff, iqueue, itodo, irestarts>>

Submitted(a) == IF a = Loop THEN "claim" ELSE "enqueue"

(* FindByInputHash decides between the stored report and new work.         *)
LookUp(a) ==
    /\ At(a, "lookup")
    /\ Go(a, IF ireport[InputOf(a)] # "none" THEN "adopt" ELSE "stage")
    /\ UNCHANGED <<ijob, staging, ireport, handoff, iqueue, itodo, irestarts>>

(* A cached report: queued to running, then to succeeded; a cancel in      *)
(* between leaves the Job where it is and the request fails.               *)
AdoptReport(a) ==
    /\ At(a, "adopt")
    /\ \/ /\ CanMove(Key(a), "queued", "running", 0)
          /\ ijob' = Moved(Key(a), "running")
          /\ UNCHANGED agent
       \/ /\ CanMove(Key(a), "running", "succeeded", 0)
          /\ ijob' = Moved(Key(a), "succeeded")
          /\ IF a = Loop THEN Go(a, "claim") ELSE Done(a)
       \/ /\ ~CanMove(Key(a), "queued", "running", 0)
          /\ ~CanMove(Key(a), "running", "succeeded", 0)
          /\ Done(a)
          /\ UNCHANGED ijob
    /\ UNCHANGED <<staging, ireport, handoff, iqueue, itodo, irestarts>>

(* CreateOrGetStaging: one row per input, kept by the Job that came first. *)
CreateOrGetStaging(a) ==
    /\ At(a, "stage")
    /\ staging' = [staging EXCEPT ![InputOf(a)] = IF @ = NoKey THEN Key(a) ELSE @]
    /\ Go(a, Submitted(a))
    /\ UNCHANGED <<ijob, ireport, handoff, iqueue, itodo, irestarts>>

(* SetImpactHandoffState has no guard: the claim is written whatever the   *)
(* row says by now.                                                        *)
Claim ==
    /\ At(Loop, "claim")
    /\ handoff' = "claimed"
    /\ IF ijob[AutoKey].status = "succeeded" THEN Done(Loop) ELSE Go(Loop, "enqueue")
    /\ UNCHANGED <<ijob, staging, ireport, iqueue, itodo, irestarts>>

(* impactRuntime.Submit: a full queue refuses, the Job stays queued.       *)
Enqueue(a) ==
    /\ At(a, "enqueue")
    /\ iqueue' = IF Len(iqueue) < ImpactQueueSize THEN Append(iqueue, Key(a)) ELSE iqueue
    /\ Done(a)
    /\ UNCHANGED <<ijob, staging, ireport, handoff, itodo, irestarts>>

RequestImpactCancellation(k) ==
    /\ Recoverable(ijob[k].status) /\ ijob[k].gen = 0
    /\ ijob' = [ijob EXCEPT ![k].gen = 1]
    /\ UNCHANGED <<staging, ireport, handoff, iqueue, agent, itodo, irestarts>>

-----------------------------------------------------------------------------
(* The worker, run by the loop and by the recovery goroutine *)

Take ==
    /\ At(Loop, "idle") /\ iqueue # <<>>
    /\ iqueue' = Tail(iqueue)
    /\ agent' = [agent EXCEPT ![Loop] = [Idle EXCEPT !.pc = "begin", !.key = Head(iqueue)]]
    /\ UNCHANGED <<ijob, staging, ireport, handoff, itodo, irestarts>>

RecoverNext ==
    /\ At(Recovery, "idle")
    /\ \E k \in itodo :
          /\ itodo' = itodo \ {k}
          /\ agent' = [agent EXCEPT ![Recovery] = [Idle EXCEPT !.pc = "begin", !.key = k]]
    /\ UNCHANGED <<ijob, staging, ireport, handoff, iqueue, irestarts>>

(* Run reads the Job; a terminal one is left alone, a queued one is to be  *)
(* moved with the generation just read.                                    *)
Begin(a) ==
    /\ At(a, "begin")
    /\ LET j == ijob[Key(a)] IN
          CASE Terminal(j.status) -> Done(a)
            [] j.status = "queued" -> agent' = [agent EXCEPT ![a].pc = "start", ![a].gen = j.gen]
            [] OTHER -> Go(a, "load")
    /\ UNCHANGED <<ijob, staging, ireport, handoff, iqueue, itodo, irestarts>>

StartRun(a) ==
    /\ At(a, "start")
    /\ \/ /\ CanMove(Key(a), "queued", "running", agent[a].gen)
          /\ ijob' = Moved(Key(a), "running")
          /\ Go(a, "load")
       \/ /\ ~CanMove(Key(a), "queued", "running", agent[a].gen)
          /\ Done(a)
          /\ UNCHANGED ijob
    /\ UNCHANGED <<staging, ireport, handoff, iqueue, itodo, irestarts>>

(* The staging row is read and written by Job, not by input.               *)
Staged(a) == staging[InputOf(a)] = Key(a)

(* LoadStaging and the three phases that write it.  A missing row, a       *)
(* provider failure, a changed identity all end in terminalFailure.        *)
Work(a, pc, next) ==
    /\ At(a, pc)
    /\ \/ Staged(a) /\ Go(a, next)
       \/ (pc # "load" \/ ~Staged(a)) /\ Go(a, "fail")
    /\ UNCHANGED <<ijob, staging, ireport, handoff, iqueue, itodo, irestarts>>

(* cancelIfRequested between the phases.                                   *)
CheckImpactCancel(a, pc, next) ==
    /\ At(a, pc)
    /\ LET j == ijob[Key(a)] IN
       \/ j.gen = 0 /\ Go(a, next) /\ UNCHANGED ijob
       \/ /\ j.gen # 0 /\ Done(a)
          /\ ijob' = IF Terminal(j.status) THEN ijob ELSE Moved(Key(a), "canceled")
    /\ UNCHANGED <<staging, ireport, handoff, iqueue, itodo, irestarts>>

(* Retrieval decides what the report will say.                             *)
Retrieve(a) ==
    /\ At(a, "retrieve")
    /\ \/ /\ Staged(a)
          /\ \E f \in Findings : agent' = [agent EXCEPT ![a].pc = "verify", ![a].found = f]
       \/ Go(a, "fail")
    /\ UNCHANGED <<ijob, staging, ireport, handoff, iqueue, itodo, irestarts>>

(* Mutant: the UPDATE does not compare the cancel generation.              *)
SealableAnyGeneration(k) == ijob[k].status \in {"running", "interrupted"}

(* Mutant: the stored report's hash is not compared.                       *)
AgreesAlways(i, f) == TRUE

(* The Job CAS of SealImpactSuccess.                                       *)
Sealable(k) == ijob[k].status \in {"running", "interrupted"} /\ ijob[k].gen = 0

(* A report already stored for the input has to say the same.              *)
Agrees(i, f) == ireport[i] \in {"none", f}

(* SealImpactSuccess: report, Job and handoff in one transaction, and the  *)
(* staging row of the input is gone with it.                               *)
SealImpactSuccess(a) ==
    /\ At(a, "seal")
    /\ IF Sealable(Key(a)) /\ Agrees(InputOf(a), agent[a].found)
          THEN /\ ireport' = [ireport EXCEPT ![InputOf(a)] = agent[a].found]
               /\ ijob' = Moved(Key(a), "succeeded")
               /\ handoff' = IF handoff \in {"queued", "waiting", "claimed"} THEN "consumed" ELSE handoff
               /\ staging' = [staging EXCEPT ![InputOf(a)] = NoKey]
               /\ Done(a)
          ELSE Go(a, "fail") /\ UNCHANGED <<ijob, ireport, handoff, staging>>
    /\ UNCHANGED <<iqueue, itodo, irestarts>>

(* terminalFailure acts on the Job as it is now, whoever runs it; a call   *)
(* that timed out interrupts, anything else fails.                         *)
TerminalFailure(a) ==
    /\ At(a, "fail")
    /\ Done(a)
    /\ LET j == ijob[Key(a)] IN
       \E next \in {"failed", "interrupted"} :
          ijob' = IF CanTransitionTo(j.status, next) THEN Moved(Key(a), next) ELSE ijob
    /\ UNCHANGED <<staging, ireport, handoff, iqueue, itodo, irestarts>>

(* The process ends; Start brings the loop and the recovery scan back.     *)
ImpactRestart ==
    /\ irestarts < ImpactRestarts
    /\ irestarts' = irestarts + 1
    /\ agent' = [a \in Agents |-> Idle]
    /\ iqueue' = <<>>
    /\ itodo' = {k \in ImpactKeys : Recoverable(ijob[k].status)}
    /\ UNCHANGED <<ijob, staging, ireport, handoff>>

Run(a) ==
    \/ Begin(a) \/ StartRun(a)
    \/ Work(a, "load", "check1") \/ CheckImpactCancel(a, "check1", "diff")
    \/ Work(a, "diff", "check2") \/ CheckImpactCancel(a, "check2", "traverse")
    \/ Work(a, "traverse", "check3") \/ CheckImpactCancel(a, "check3", "retrieve")
    \/ Retrieve(a) \/ CheckImpactCancel(a, "verify", "seal")
    \/ SealImpactSuccess(a) \/ TerminalFailure(a)

Submit(a) == LookUp(a) \/ AdoptReport(a) \/ CreateOrGetStaging(a) \/ Enqueue(a)

ImpactNext ==
    \/ \E c \in ImpactClients : Request(c) \/ Submit(c)
    \/ DispatchWaits \/ Dispatch \/ Claim \/ Submit(Loop) \/ Take \/ RecoverNext
    \/ \E a \in {Loop, Recovery} : Run(a)
    \/ \E k \in ImpactKeys : RequestImpactCancellation(k)
    \/ ImpactRestart

-----------------------------------------------------------------------------

(* A succeeded Job was never canceled and has the one report of its input, *)
(* a report always has a Job it succeeded with, and a consumed handoff has *)
(* a report: the loop, the recovery goroutine and a cached submission may  *)
(* all work on the input at once.  And work on an input is never lost:     *)
(* once one of its Jobs runs past LoadStaging, the input has its staging   *)
(* row or its report (SealImpactSuccess, Submit).                          *)
ImpactIsSealedWhole ==
    /\ \A k \in ImpactKeys :
          ijob[k].status = "succeeded" => ijob[k].gen = 0 /\ ireport[ijob[k].input] # "none"
    /\ \A i \in ImpactInputs :
          ireport[i] # "none" => \E k \in ImpactKeys : ijob[k].status = "succeeded" /\ ijob[k].input = i
    /\ handoff = "consumed" => \E i \in ImpactInputs : ireport[i] # "none"
    /\ \A a \in Agents :
          agent[a].pc \in {"check1", "diff", "check2", "traverse", "check3", "retrieve", "verify", "seal"}
             => Staged(a) \/ ireport[InputOf(a)] # "none"
=============================================================================
