------------------------------ MODULE RiskJobs ------------------------------
(***************************************************************************)
(* Risk review Jobs: admission and the captured materialization, the       *)
(* worker as the fixed program of checks, calculations and progress events *)
(* it is, the seal, the stored failure and recovery, which reads every     *)
(* identity again before it runs the whole calculation once more.  The     *)
(* repository composes the worker and RecoverAll in tests only; one runs   *)
(* at a time here as well.                                                 *)
(* Sources: internal/risk/orchestration, internal/storage/sqlite/risk_*.go *)
(***************************************************************************)
EXTENDS Naturals, Sequences, Job

CONSTANTS
    RiskJobIds,    \* Jobs, each under its own idempotency key
    RiskFacts,     \* states of the revisions, thresholds, runs, rules read
    RiskRestarts,  \* bound on restarts
    MaxFactMoves,  \* bound on changes of the facts
    NoRisk

ASSUME RiskAssumption ==
    RiskRestarts \in Nat /\ MaxFactMoves \in Nat /\ NoRisk \notin RiskFacts

VARIABLES
    rjob,       \* jobs of kind risk_review
    rcaptured,  \* risk_job_materializations
    rreport,    \* risk_reviews
    revents,    \* job_events of each Job
    facts,      \* what a read of the sources materializes now
    factMoves,
    runner,     \* the worker
    rtodo,      \* Jobs RecoverAll has listed
    rrestarts

riskVars == <<rjob, rcaptured, rreport, revents, facts, factMoves, runner, rtodo, rrestarts>>

NoRiskJob == [status |-> "none", gen |-> 0, input |-> NoRisk]
Off == [pc |-> 0, at |-> "idle", job |-> NoRisk, progress |-> 0, gen |-> 0]

RiskInit ==
    /\ rjob = [j \in RiskJobIds |-> NoRiskJob]
    /\ rcaptured = [j \in RiskJobIds |-> NoRisk]
    /\ rreport = [j \in RiskJobIds |-> NoRisk]
    /\ revents = [j \in RiskJobIds |-> <<>>]
    /\ facts \in RiskFacts
    /\ factMoves = 0
    /\ runner = Off
    /\ rtodo = {}
    /\ rrestarts = 0

Event(phase, progress) == [do |-> "event", phase |-> phase, progress |-> progress]
Check == [do |-> "check"]
Calculate == [do |-> "calculate"]
Seal == [do |-> "seal"]

(* Worker.Run after the materialization is loaded, with one comparison and *)
(* one structural unit in the plan; unitProgress gives the percentages.    *)
Program == << Event("MATERIALIZED", 10), Calculate,
              Check, Calculate, Event("COMPARING", 60),
              Check, Calculate, Event("STRUCTURE_CHECKING", 85),
              Check, Event("SEALING", 95), Calculate,
              Check, Seal, Event("SUCCEEDED", 100) >>

Doing(kind) == runner.at = "program" /\ Program[runner.pc].do = kind
Advance == runner' = IF runner.pc = Len(Program) THEN Off ELSE [runner EXCEPT !.pc = @ + 1]
RiskMoved(j, to) == [rjob EXCEPT ![j].status = to]
RiskOpen(j) == Recoverable(rjob[j].status)

Last(j) == IF revents[j] = <<>> THEN [phase |-> "none", progress |-> 0] ELSE revents[j][Len(revents[j])]
Emit(j, phase, progress) == [revents EXCEPT ![j] = Append(@, [phase |-> phase, progress |-> progress])]

-----------------------------------------------------------------------------
(* Admission *)

(* AdmitRiskReview up to CreateOrGet: the sources are read first.  With a  *)
(* known key the stored capture has to match and nothing changes.          *)
CreateRiskJob(j) ==
    /\ runner.at = "idle" /\ rjob[j].status = "none"
    /\ rjob' = [rjob EXCEPT ![j] = [status |-> "queued", gen |-> 0, input |-> facts]]
    /\ runner' = [Off EXCEPT !.at = "capture", !.job = j]
    /\ UNCHANGED <<rcaptured, rreport, revents, facts, factMoves, rtodo, rrestarts>>

(* SaveRiskJobMaterialization: the Job still has the captured generation,  *)
(* or the row is refused and the Job is left without one.                  *)
SaveRiskMaterialization ==
    /\ runner.at = "capture"
    /\ rcaptured' = [rcaptured EXCEPT ![runner.job] =
                        IF rjob[runner.job].gen = 0 THEN rjob[runner.job].input ELSE @]
    /\ runner' = Off
    /\ UNCHANGED <<rjob, rreport, revents, facts, factMoves, rtodo, rrestarts>>

RequestRiskCancellation(j) ==
    /\ RiskOpen(j) /\ rjob[j].gen = 0
    /\ rjob' = [rjob EXCEPT ![j].gen = 1]
    /\ UNCHANGED <<rcaptured, rreport, revents, facts, factMoves, runner, rtodo, rrestarts>>

(* A baseline, threshold, run or rule version changes.                     *)
MoveFacts ==
    /\ factMoves < MaxFactMoves
    /\ factMoves' = factMoves + 1
    /\ facts' \in RiskFacts \ {facts}
    /\ UNCHANGED <<rjob, rcaptured, rreport, revents, runner, rtodo, rrestarts>>

-----------------------------------------------------------------------------
(* The worker *)

(* Run of a succeeded Job adds the last event if a crash lost it.          *)
EnsureSucceededEvent(j) ==
    /\ runner.at = "idle"
    /\ rjob[j].status = "succeeded" /\ Last(j).phase # "SUCCEEDED"
    /\ revents' = Emit(j, "SUCCEEDED", 100)
    /\ UNCHANGED <<rjob, rcaptured, rreport, facts, factMoves, runner, rtodo, rrestarts>>

(* Run of a queued Job; any other terminal one is left alone.              *)
RunRisk(j) ==
    /\ runner.at = "idle" /\ rtodo = {} /\ rjob[j].status = "queued"
    /\ runner' = [Off EXCEPT !.at = "begin", !.job = j, !.gen = rjob[j].gen]
    /\ UNCHANGED <<rjob, rcaptured, rreport, revents, facts, factMoves, rtodo, rrestarts>>

(* cancelIfRequested: the transition, then the CANCELED event.             *)
CancelRisk(j) ==
    /\ rjob' = RiskMoved(j, "canceled")
    /\ runner' = [runner EXCEPT !.at = "canceled"]

EmitCanceled ==
    /\ runner.at = "canceled"
    /\ revents' = Emit(runner.job, "CANCELED", Last(runner.job).progress)
    /\ runner' = Off
    /\ UNCHANGED <<rjob, rcaptured, rreport, facts, factMoves, rtodo, rrestarts>>

(* The transition to running with the generation just read; a cancel that  *)
(* came in between makes it fail and Run returns the error.                *)
BeginRisk ==
    LET j == runner.job IN
    /\ runner.at = "begin"
    /\ CASE runner.gen # 0 -> CancelRisk(j)
         [] runner.gen = 0 /\ rjob[j].status = "queued" /\ rjob[j].gen # 0 -> runner' = Off /\ UNCHANGED rjob
         [] OTHER -> /\ rjob' = IF rjob[j].status = "queued" THEN RiskMoved(j, "running") ELSE rjob
                     /\ runner' = [runner EXCEPT !.at = "load"]
    /\ UNCHANGED <<rcaptured, rreport, revents, facts, factMoves, rtodo, rrestarts>>

(* The materialization and the event cursor.                               *)
LoadRisk ==
    LET j == runner.job IN
    /\ runner.at = "load"
    /\ runner' = IF rcaptured[j] = NoRisk
                    THEN [runner EXCEPT !.at = "fail"]
                    ELSE [runner EXCEPT !.at = "program", !.pc = 1, !.progress = Last(j).progress]
    /\ UNCHANGED <<rjob, rcaptured, rreport, revents, facts, factMoves, rtodo, rrestarts>>

(* Mutant: the cursor forgets the progress already reported.               *)
NoFloor(progress) == progress

(* riskEventCursor.append never reports less than was reported before.     *)
Floor(progress) == IF progress < runner.progress THEN runner.progress ELSE progress

AppendRiskEvent ==
    /\ Doing("event")
    /\ LET e == Program[runner.pc] IN
          /\ revents' = Emit(runner.job, e.phase, Floor(e.progress))
          /\ runner' = IF runner.pc = Len(Program) THEN Off
                          ELSE [runner EXCEPT !.pc = @ + 1, !.progress = Floor(e.progress)]
    /\ UNCHANGED <<rjob, rcaptured, rreport, facts, factMoves, rtodo, rrestarts>>

(* Plan, Compare, CheckStructure, buildCalculationReport.  Their failure   *)
(* code is not one FailRiskJob stores: the Job stays as it is.             *)
CalculateRisk ==
    /\ Doing("calculate")
    /\ \/ Advance /\ UNCHANGED rjob
       \/ IF rjob[runner.job].gen # 0 THEN CancelRisk(runner.job) ELSE runner' = Off /\ UNCHANGED rjob
    /\ UNCHANGED <<rcaptured, rreport, revents, facts, factMoves, rtodo, rrestarts>>

(* requireUncanceled reads the Job again.                                  *)
RequireUncanceled ==
    /\ Doing("check")
    /\ IF rjob[runner.job].gen # 0 THEN CancelRisk(runner.job) ELSE Advance /\ UNCHANGED rjob
    /\ UNCHANGED <<rcaptured, rreport, revents, facts, factMoves, rtodo, rrestarts>>

(* validateRiskReportReferences reads the rows the report names.  They are *)
(* the captured ones; after a change of the facts some may not hold, such  *)
(* as a threshold that was disabled.                                       *)
ReferencesHold(j) == IF rcaptured[j] = facts THEN {TRUE} ELSE BOOLEAN

SealRiskReport ==
    LET j == runner.job IN
    /\ Doing("seal")
    /\ \E hold \in ReferencesHold(j) :
       IF rjob[j].status \in {"running", "interrupted"} /\ rjob[j].gen = 0 /\ hold
          THEN /\ rreport' = [rreport EXCEPT ![j] = rcaptured[j]]
               /\ rjob' = RiskMoved(j, "succeeded")
               /\ Advance
          ELSE runner' = [runner EXCEPT !.at = "fail"] /\ UNCHANGED <<rreport, rjob>>
    /\ UNCHANGED <<rcaptured, revents, facts, factMoves, rtodo, rrestarts>>

(* FailRiskJob writes the Job and its FAILED event together.               *)
FailRiskJob(j) ==
    /\ rjob' = RiskMoved(j, "failed")
    /\ revents' = Emit(j, "FAILED", Last(j).progress)

(* Worker.fail with a code the store accepts.                              *)
Fail ==
    /\ runner.at = "fail"
    /\ \/ rjob[runner.job].gen # 0 /\ CancelRisk(runner.job) /\ UNCHANGED revents
       \/ rjob[runner.job].gen = 0 /\ FailRiskJob(runner.job) /\ runner' = Off
    /\ UNCHANGED <<rcaptured, rreport, facts, factMoves, rtodo, rrestarts>>

-----------------------------------------------------------------------------
(* Recovery *)

RiskRestart ==
    /\ rrestarts < RiskRestarts
    /\ rrestarts' = rrestarts + 1
    /\ runner' = Off
    /\ rtodo' = {j \in RiskJobIds : RiskOpen(j)}
    /\ UNCHANGED <<rjob, rcaptured, rreport, revents, facts, factMoves>>

(* sameRecoveredMaterialization.                                           *)
SameRecoveredMaterialization(j) == rcaptured[j] = facts

(* RecoverAll: a missing or changed capture fails the Job, otherwise the   *)
(* worker runs it from the start.                                          *)
RecoverRisk(j) ==
    /\ runner.at = "idle" /\ j \in rtodo
    /\ rtodo' = rtodo \ {j}
    /\ runner' = [Off EXCEPT !.job = j, !.gen = rjob[j].gen,
                     !.at = IF rcaptured[j] # NoRisk /\ SameRecoveredMaterialization(j) THEN "begin" ELSE "fail"]
    /\ UNCHANGED <<rjob, rcaptured, rreport, revents, facts, factMoves, rrestarts>>

RiskNext ==
    \/ \E j \in RiskJobIds : CreateRiskJob(j) \/ RequestRiskCancellation(j)
                               \/ EnsureSucceededEvent(j) \/ RunRisk(j) \/ RecoverRisk(j)
    \/ SaveRiskMaterialization \/ MoveFacts \/ EmitCanceled \/ BeginRisk \/ LoadRisk
    \/ AppendRiskEvent \/ CalculateRisk \/ RequireUncanceled \/ SealRiskReport \/ Fail
    \/ RiskRestart

-----------------------------------------------------------------------------

(* A risk report is sealed exactly for the uncanceled succeeded Jobs, from *)
(* the facts captured at admission, and the event stream of a Job tells    *)
(* its story: progress never falls, not even when a restart repeats the    *)
(* calculation, nothing follows a terminal event, a failed Job ends with   *)
(* FAILED (Worker.Run, riskEventCursor.append, SealRiskReport).            *)
RiskStoryHolds ==
    \A j \in RiskJobIds :
        /\ rjob[j].status = "succeeded" <=> rreport[j] # NoRisk
        /\ rreport[j] # NoRisk => rjob[j].gen = 0 /\ rreport[j] = rcaptured[j]
        /\ rjob[j].status = "failed" => Last(j).phase = "FAILED"
        /\ \A m, n \in DOMAIN revents[j] :
              m < n => /\ revents[j][m].progress <= revents[j][n].progress
                       /\ revents[j][m].phase \notin {"SUCCEEDED", "FAILED", "CANCELED"}
=============================================================================
