--------------------------- MODULE Records_proofs ---------------------------
(***************************************************************************)
(* Proofs about the evidence the Jobs of a project seal: risk reviews,     *)
(* impact reports and simulation runs, for every set of Jobs, inputs,      *)
(* facts and implementations and every number of restarts.                 *)
(***************************************************************************)
EXTENDS MCRecords, TLAPS

(***************************************************************************)
(* Risk reviews.                                                           *)
(***************************************************************************)
RiskSpec == RiskInit /\ [][RiskNext]_riskVars

TerminalPhases == {"SUCCEEDED", "FAILED", "CANCELED"}
RiskPhases == TerminalPhases \cup {"MATERIALIZED", "COMPARING", "STRUCTURE_CHECKING", "SEALING"}
RiskEvents == [phase : RiskPhases, progress : 0 .. 100]

RiskRows == [status : Status \cup {"none"}, gen : {0, 1}, input : RiskFacts \cup {NoRisk}]
RunnerSteps == {"idle", "capture", "begin", "load", "program", "fail", "canceled"}
Runners == [pc : 0 .. 14, at : RunnerSteps,
            job : RiskJobIds \cup {NoRisk}, progress : 0 .. 100, gen : {0, 1}]

(* Every variable of the risk Jobs has its type.                           *)
RiskTypeOK ==
    /\ rjob \in [RiskJobIds -> RiskRows]
    /\ rcaptured \in [RiskJobIds -> RiskFacts \cup {NoRisk}]
    /\ rreport \in [RiskJobIds -> RiskFacts \cup {NoRisk}]
    /\ revents \in [RiskJobIds -> Seq(RiskEvents)]
    /\ facts \in RiskFacts
    /\ runner \in Runners
    /\ rtodo \subseteq RiskJobIds

(* What the runner may rely on at each point: the Job it has is open until *)
(* it is sealed or canceled, the capture is there once the program runs,   *)
(* and the cursor is at the last event.                                    *)
RunnerIsSound ==
    runner.at # "idle" =>
       LET j == runner.job IN
       /\ j \in RiskJobIds
       /\ runner.at = "capture" => rjob[j].status = "queued"
       /\ runner.at \in {"begin", "load", "fail"} => RiskOpen(j)
       /\ runner.at = "program" => /\ runner.pc \in 1 .. 14 /\ rcaptured[j] # NoRisk
                                   /\ runner.progress = Last(j).progress
                                   /\ runner.pc < 14 => RiskOpen(j)
                                   /\ runner.pc = 14 => /\ rjob[j].status = "succeeded"
                                                        /\ Last(j).phase # "SUCCEEDED"
       /\ runner.at = "canceled" => rjob[j].status = "canceled" /\ Last(j).phase # "CANCELED"

(* What RecoverAll has listed is open and nobody else's.                   *)
ListedIsOpen ==
    \A j \in rtodo : RiskOpen(j) /\ (runner.at # "idle" => runner.job # j)

(* A terminal event is the last word on its Job.                           *)
TerminalEventIsTrue ==
    \A j \in RiskJobIds :
       /\ Last(j).phase = "SUCCEEDED" => rjob[j].status = "succeeded"
       /\ Last(j).phase = "FAILED" => rjob[j].status = "failed"
       /\ Last(j).phase = "CANCELED" => rjob[j].status = "canceled"

(* The inductive invariant of the risk Jobs.                               *)
RiskInv ==
    /\ RiskTypeOK
    /\ RunnerIsSound
    /\ ListedIsOpen
    /\ TerminalEventIsTrue
    /\ RiskStoryHolds

USE RiskAssumption

(* The order within one event stream, apart from whose it is.              *)
Tells(s) ==
    \A m, n \in DOMAIN s :
       m < n => s[m].progress <= s[n].progress /\ s[m].phase \notin TerminalPhases

(* The program of the worker: one seal, just before the last event, and    *)
(* only that event is terminal.                                            *)
LEMMA ProgramShape ==
    /\ Len(Program) = 14
    /\ \A p \in 1 .. 14 : Program[p].do = "seal" <=> p = 13
    /\ \A p \in 1 .. 14 : Program[p].do = "event" =>
          /\ Program[p].phase \in RiskPhases /\ Program[p].progress \in 0 .. 100
          /\ p # 13
          /\ p < 14 => Program[p].phase \notin TerminalPhases
          /\ p = 14 => Program[p].phase = "SUCCEEDED"
    /\ Program[14].do = "event"
BY DEF Program, Event, Check, Calculate, Seal, RiskPhases, TerminalPhases

(* The last element of an event stream, and what appending does to it.     *)
LEMMA AppendTells ==
    ASSUME NEW s \in Seq(RiskEvents), NEW e \in RiskEvents, Tells(s),
           s # <<>> => s[Len(s)].progress <= e.progress /\ s[Len(s)].phase \notin TerminalPhases
    PROVE  /\ Append(s, e) \in Seq(RiskEvents)
           /\ Append(s, e) # <<>>
           /\ Append(s, e)[Len(Append(s, e))] = e
           /\ Tells(Append(s, e))
<1> DEFINE t == Append(s, e)
<1>1. t \in Seq(RiskEvents) /\ Len(t) = Len(s) + 1 /\ t[Len(t)] = e
  OBVIOUS
<1>2. \A m \in 1 .. Len(s) : t[m] = s[m]
  OBVIOUS
<1>3. ASSUME NEW m \in 1 .. Len(s)
      PROVE  s[m].progress <= e.progress /\ s[m].phase \notin TerminalPhases
  <2>1. s[m] \in RiskEvents /\ s[Len(s)] \in RiskEvents /\ s # <<>>
    BY <1>3
  <2>2. CASE m = Len(s)
    BY <2>1, <2>2
  <2>3. CASE m < Len(s)
    <3>1. /\ s[m].progress <= s[Len(s)].progress /\ s[m].phase \notin TerminalPhases
          /\ s[m].progress \in 0 .. 100 /\ s[Len(s)].progress \in 0 .. 100 /\ e.progress \in 0 .. 100
      BY <1>3, <2>1, <2>3 DEF Tells, RiskEvents
    <3>2. s[Len(s)].progress <= e.progress
      BY <2>1
    <3>3. \A a, b, c \in 0 .. 100 : a <= b /\ b <= c => a <= c
      OBVIOUS
    <3> QED
      BY <3>1, <3>2, <3>3
  <2> QED
    BY <1>3, <2>2, <2>3
<1>4. ASSUME NEW m \in DOMAIN t, NEW n \in DOMAIN t, m < n
      PROVE  t[m].progress <= t[n].progress /\ t[m].phase \notin TerminalPhases
  <2>1. m \in 1 .. Len(s) /\ n \in 1 .. Len(s) + 1
    BY <1>1, <1>4
  <2>2. CASE n = Len(s) + 1
    BY <1>1, <1>2, <1>3, <2>1, <2>2
  <2>3. CASE n \in 1 .. Len(s)
    BY <1>2, <1>4, <2>1, <2>3 DEF Tells
  <2> QED
    BY <2>1, <2>2, <2>3
<1>5. Tells(t)
  BY <1>4 DEF Tells
<1>6. t # <<>>
  BY <1>1
<1> QED
  BY <1>1, <1>5, <1>6

(* One more event that reports no less, on a stream without a terminal     *)
(* one, leaves every stream in order.                                      *)
LEMMA EmitKeepsStory ==
    ASSUME RiskTypeOK, \A k \in RiskJobIds : Tells(revents[k]), NEW j \in RiskJobIds,
           NEW p \in RiskPhases, NEW g \in 0 .. 100, revents' = Emit(j, p, g),
           Last(j).progress <= g, Last(j).phase \notin TerminalPhases
    PROVE  /\ revents' \in [RiskJobIds -> Seq(RiskEvents)]
           /\ \A k \in RiskJobIds : Tells(revents'[k])
           /\ Last(j)' = [phase |-> p, progress |-> g]
           /\ \A k \in RiskJobIds \ {j} : Last(k)' = Last(k)
<1> DEFINE e == [phase |-> p, progress |-> g]
           t == Append(revents[j], e)
<1>1. e \in RiskEvents /\ revents[j] \in Seq(RiskEvents)
  BY DEF RiskEvents, RiskTypeOK
<1>2. revents' = [revents EXCEPT ![j] = t]
  BY DEF Emit
<1>3. revents[j] # <<>> =>
         /\ revents[j][Len(revents[j])].progress <= e.progress
         /\ revents[j][Len(revents[j])].phase \notin TerminalPhases
  BY DEF Last
<1>4. t \in Seq(RiskEvents) /\ t # <<>> /\ t[Len(t)] = e /\ Tells(t)
  <2> HIDE DEF e
  <2> QED
    BY <1>1, <1>3, AppendTells
<1>5. revents'[j] = t /\ \A k \in RiskJobIds \ {j} : revents'[k] = revents[k]
  BY <1>2 DEF RiskTypeOK
<1> HIDE DEF t
<1>6. revents' \in [RiskJobIds -> Seq(RiskEvents)]
  BY <1>2, <1>4 DEF RiskTypeOK
<1> QED
  BY <1>4, <1>5, <1>6 DEF Last

(* A move of a Job changes its status and nothing else.                    *)
LEMMA RiskMovedFields ==
    ASSUME RiskTypeOK, NEW j \in RiskJobIds, NEW to \in Status, rjob' = RiskMoved(j, to)
    PROVE  /\ rjob' \in [RiskJobIds -> RiskRows]
           /\ rjob'[j].status = to /\ rjob'[j].gen = rjob[j].gen
           /\ \A k \in RiskJobIds \ {j} : rjob'[k] = rjob[k]
<1>1. [rjob[j] EXCEPT !.status = to] \in RiskRows
  BY DEF RiskTypeOK, RiskRows
<1>2. rjob' = [rjob EXCEPT ![j] = [rjob[j] EXCEPT !.status = to]]
  BY DEF RiskTypeOK, RiskMoved
<1> QED
  BY <1>1, <1>2 DEF RiskTypeOK, RiskRows

(* A field of the runner is set to a value of its type.                    *)
LEMMA RunnerFields ==
    ASSUME NEW r \in Runners
    PROVE  /\ \A a \in RunnerSteps : [r EXCEPT !.at = a] \in Runners
           /\ \A j \in RiskJobIds : [r EXCEPT !.job = j] \in Runners
           /\ \A g \in {0, 1} : [r EXCEPT !.gen = g] \in Runners
           /\ \A g \in 0 .. 100 : [r EXCEPT !.progress = g] \in Runners
           /\ \A n \in 0 .. 14 : [r EXCEPT !.pc = n] \in Runners
<1>1. \A a \in RunnerSteps : [r EXCEPT !.at = a] \in Runners
  BY DEF Runners
<1>2. \A j \in RiskJobIds : [r EXCEPT !.job = j] \in Runners
  BY DEF Runners
<1>3. \A g \in {0, 1} : [r EXCEPT !.gen = g] \in Runners
  BY DEF Runners
<1>4. \A g \in 0 .. 100 : [r EXCEPT !.progress = g] \in Runners
  BY DEF Runners
<1>5. \A n \in 0 .. 14 : [r EXCEPT !.pc = n] \in Runners
  BY DEF Runners
<1> QED
  BY <1>1, <1>2, <1>3, <1>4, <1>5

(* The last progress of a stream, 0 for an empty one.                      *)
LEMMA LastProgress ==
    ASSUME RiskTypeOK, NEW k \in RiskJobIds
    PROVE  Last(k).progress \in 0 .. 100 /\ Last(k).progress <= Last(k).progress
<1>1. ASSUME revents[k] = <<>> PROVE Last(k).progress \in 0 .. 100
  BY <1>1 DEF Last
<1>2. ASSUME revents[k] # <<>> PROVE Last(k).progress \in 0 .. 100
  <2>1. revents[k] \in Seq(RiskEvents)
    BY DEF RiskTypeOK
  <2>2. revents[k][Len(revents[k])] \in RiskEvents
    BY <1>2, <2>1
  <2> QED
    BY <1>2, <2>2 DEF Last, RiskEvents
<1>3. \A g \in 0 .. 100 : g <= g
  OBVIOUS
<1> QED
  BY <1>1, <1>2, <1>3

(* The variables of the risk Jobs keep their types; the runner's Job is    *)
(* one of them.                                                            *)
LEMMA RiskTypeInductive == RiskTypeOK /\ RunnerIsSound /\ [RiskNext]_riskVars => RiskTypeOK'
<1> SUFFICES ASSUME RiskTypeOK, RunnerIsSound, [RiskNext]_riskVars PROVE RiskTypeOK'
  OBVIOUS
<1>a. \A k \in RiskJobIds : Last(k).progress \in 0 .. 100
  BY LastProgress
<1>b. ASSUME NEW j \in RiskJobIds, NEW p \in RiskPhases, NEW g \in 0 .. 100, revents' = Emit(j, p, g)
      PROVE  revents' \in [RiskJobIds -> Seq(RiskEvents)]
  <2>1. [phase |-> p, progress |-> g] \in RiskEvents
    BY DEF RiskEvents
  <2>2. Append(revents[j], [phase |-> p, progress |-> g]) \in Seq(RiskEvents)
    BY <2>1 DEF RiskTypeOK
  <2> QED
    BY <1>b, <2>2 DEF Emit, RiskTypeOK
<1>1. CASE UNCHANGED riskVars
  BY <1>1 DEF riskVars, RiskTypeOK
<1>c. Off \in Runners
  BY DEF Off, Runners, RunnerSteps
<1>d. ASSUME NEW j \in RiskJobIds, NEW a \in RunnerSteps, NEW g \in {0, 1}
      PROVE  [Off EXCEPT !.at = a, !.job = j] \in Runners /\ [Off EXCEPT !.job = j, !.gen = g, !.at = a] \in Runners
  <2>1. [Off EXCEPT !.at = a, !.job = j] = [[Off EXCEPT !.at = a] EXCEPT !.job = j]
    OBVIOUS
  <2>2. [Off EXCEPT !.job = j, !.gen = g, !.at = a] = [[[Off EXCEPT !.job = j] EXCEPT !.gen = g] EXCEPT !.at = a]
    OBVIOUS
  <2> QED
    BY <1>c, <2>1, <2>2, RunnerFields
<1>e. ASSUME NEW a \in RunnerSteps PROVE [runner EXCEPT !.at = a] \in Runners
  BY RunnerFields DEF RiskTypeOK
<1>f. ASSUME runner.at = "program", Advance PROVE runner' \in Runners
  <2>1. runner.pc \in 1 .. 14
    BY <1>f DEF RunnerIsSound
  <2>2. CASE runner.pc = 14
    BY <1>c, <1>f, <2>2, ProgramShape DEF Advance
  <2>3. CASE runner.pc # 14
    <3>1. runner' = [runner EXCEPT !.pc = runner.pc + 1] /\ runner.pc + 1 \in 0 .. 14
      BY <1>f, <2>1, <2>3, ProgramShape DEF Advance
    <3> QED
      BY <3>1, RunnerFields DEF RiskTypeOK
  <2> QED
    BY <2>2, <2>3
<1>g. runner.at # "idle" => runner.job \in RiskJobIds
  BY DEF RunnerIsSound
<1>h. ASSUME NEW j \in RiskJobIds, CancelRisk(j)
      PROVE  rjob' \in [RiskJobIds -> RiskRows] /\ runner' \in Runners
  BY <1>e, <1>h, RiskMovedFields DEF CancelRisk, Status, RunnerSteps
<1>2. ASSUME NEW j \in RiskJobIds, CreateRiskJob(j) PROVE RiskTypeOK'
  <2>1. [status |-> "queued", gen |-> 0, input |-> facts] \in RiskRows
    BY DEF RiskTypeOK, RiskRows, Status
  <2>2. runner' \in Runners
    BY <1>2, <1>d DEF CreateRiskJob, RunnerSteps
  <2> QED
    BY <1>2, <2>1, <2>2 DEF CreateRiskJob, RiskTypeOK
<1>3. CASE SaveRiskMaterialization
  <2>1. rjob[runner.job].input \in RiskFacts \cup {NoRisk}
    BY <1>3, <1>g DEF SaveRiskMaterialization, RiskTypeOK, RiskRows
  <2> QED
    BY <1>3, <1>c, <1>g, <2>1 DEF SaveRiskMaterialization, RiskTypeOK
<1>4. ASSUME NEW j \in RiskJobIds, RequestRiskCancellation(j) PROVE RiskTypeOK'
  <2>1. [rjob[j] EXCEPT !.gen = 1] \in RiskRows
    BY DEF RiskTypeOK, RiskRows
  <2> QED
    BY <1>4, <2>1 DEF RequestRiskCancellation, RiskTypeOK
<1>5. CASE MoveFacts
  BY <1>5 DEF MoveFacts, RiskTypeOK
<1>6. ASSUME NEW j \in RiskJobIds, EnsureSucceededEvent(j) PROVE RiskTypeOK'
  <2>1. revents' \in [RiskJobIds -> Seq(RiskEvents)]
    BY <1>6, <1>b DEF EnsureSucceededEvent, RiskPhases, TerminalPhases
  <2> QED
    BY <1>6, <2>1 DEF EnsureSucceededEvent, RiskTypeOK
<1>7. ASSUME NEW j \in RiskJobIds, RunRisk(j) \/ RecoverRisk(j) PROVE RiskTypeOK'
  <2>1. rjob[j].gen \in {0, 1}
    BY DEF RiskTypeOK, RiskRows
  <2>2. runner' \in Runners
    <3>1. CASE RunRisk(j)
      <4>1. runner' = [Off EXCEPT !.at = "begin", !.job = j, !.gen = rjob[j].gen]
        BY <3>1 DEF RunRisk
      <4>2. runner' = [[[Off EXCEPT !.at = "begin"] EXCEPT !.job = j] EXCEPT !.gen = rjob[j].gen]
        BY <4>1
      <4> QED
        BY <1>c, <2>1, <4>2, RunnerFields DEF RunnerSteps
    <3>2. CASE RecoverRisk(j)
      BY <1>d, <2>1, <3>2 DEF RecoverRisk, RunnerSteps
    <3> QED
      BY <1>7, <3>1, <3>2
  <2> QED
    BY <1>7, <2>2 DEF RunRisk, RecoverRisk, RiskTypeOK
<1>9. CASE EmitCanceled
  <2>1. revents' \in [RiskJobIds -> Seq(RiskEvents)]
    BY <1>9, <1>a, <1>b, <1>g DEF EmitCanceled, RiskPhases, TerminalPhases
  <2> QED
    BY <1>9, <1>c, <2>1 DEF EmitCanceled, RiskTypeOK
<1>10. CASE BeginRisk
  <2>1. rjob' \in [RiskJobIds -> RiskRows] /\ runner' \in Runners
    BY <1>10, <1>c, <1>e, <1>g, <1>h, RiskMovedFields DEF BeginRisk, RiskTypeOK, Status, RunnerSteps
  <2> QED
    BY <1>10, <2>1 DEF BeginRisk, RiskTypeOK
<1>11. CASE LoadRisk
  <2>1. runner' \in Runners
    <3> DEFINE g == Last(runner.job).progress
    <3>1. g \in 0 .. 100
      BY <1>11, <1>a, <1>g DEF LoadRisk
    <3> HIDE DEF g
    <3>2. [runner EXCEPT !.at = "program", !.pc = 1, !.progress = g]
            = [[[runner EXCEPT !.at = "program"] EXCEPT !.pc = 1] EXCEPT !.progress = g]
      OBVIOUS
    <3>3. [runner EXCEPT !.at = "program", !.pc = 1, !.progress = g] \in Runners
      <4>1. [runner EXCEPT !.at = "program"] \in Runners
        BY RunnerFields DEF RiskTypeOK, RunnerSteps
      <4>2. [[runner EXCEPT !.at = "program"] EXCEPT !.pc = 1] \in Runners
        <5>1. 1 \in 0 .. 14
          OBVIOUS
        <5> QED
          BY <4>1, <5>1, RunnerFields
      <4> QED
        BY <3>1, <3>2, <4>2, RunnerFields
    <3> QED
      BY <1>11, <1>e, <3>3 DEF LoadRisk, RunnerSteps, g
  <2> QED
    BY <1>11, <2>1 DEF LoadRisk, RiskTypeOK
<1>12. CASE AppendRiskEvent
  <2> DEFINE e == Program[runner.pc]
  <2>1. /\ runner.pc \in 1 .. 14 /\ runner.job \in RiskJobIds /\ runner.progress \in 0 .. 100
        /\ e.phase \in RiskPhases /\ e.progress \in 0 .. 100
    BY <1>12, ProgramShape DEF AppendRiskEvent, Doing, RunnerIsSound, RiskTypeOK, Runners
  <2>2. Floor(e.progress) \in 0 .. 100
    BY <2>1 DEF Floor
  <2>3. revents' \in [RiskJobIds -> Seq(RiskEvents)]
    BY <1>12, <1>b, <2>1, <2>2 DEF AppendRiskEvent
  <2>4. [runner EXCEPT !.pc = @ + 1, !.progress = Floor(e.progress)] \in Runners \/ runner.pc = 14
    <3> DEFINE g == Floor(e.progress)
    <3> HIDE DEF g
    <3>1. [runner EXCEPT !.pc = @ + 1, !.progress = g] = [[runner EXCEPT !.pc = runner.pc + 1] EXCEPT !.progress = g]
      OBVIOUS
    <3>2. runner.pc = 14 \/ runner.pc + 1 \in 0 .. 14
      BY <2>1
    <3>3. g \in 0 .. 100
      BY <2>2 DEF g
    <3> QED
      BY <3>1, <3>2, <3>3, RunnerFields DEF RiskTypeOK, g
  <2> QED
    BY <1>12, <1>c, <2>3, <2>4, ProgramShape DEF AppendRiskEvent, RiskTypeOK
<1>13. CASE CalculateRisk \/ RequireUncanceled
  <2>1. rjob' \in [RiskJobIds -> RiskRows] /\ runner' \in Runners
    BY <1>13, <1>c, <1>f, <1>g, <1>h DEF CalculateRisk, RequireUncanceled, Doing, RiskTypeOK
  <2> QED
    BY <1>13, <2>1 DEF CalculateRisk, RequireUncanceled, RiskTypeOK
<1>14. CASE SealRiskReport
  <2>1. rjob' \in [RiskJobIds -> RiskRows] /\ runner' \in Runners
    BY <1>14, <1>e, <1>f, <1>g, RiskMovedFields DEF SealRiskReport, Doing, RiskTypeOK, Status, RunnerSteps
  <2> QED
    BY <1>14, <1>g, <2>1 DEF SealRiskReport, Doing, RiskTypeOK
<1>15. CASE Fail
  <2>1. rjob' \in [RiskJobIds -> RiskRows] /\ runner' \in Runners
    BY <1>15, <1>c, <1>g, <1>h, RiskMovedFields DEF Fail, FailRiskJob, Status
  <2>2. revents' \in [RiskJobIds -> Seq(RiskEvents)]
    BY <1>15, <1>a, <1>b, <1>g DEF Fail, FailRiskJob, RiskTypeOK, RiskPhases, TerminalPhases
  <2> QED
    BY <1>15, <2>1, <2>2 DEF Fail, RiskTypeOK
<1>16. CASE RiskRestart
  BY <1>16, <1>c DEF RiskRestart, RiskTypeOK
<1> QED
  BY <1>1, <1>2, <1>3, <1>4, <1>5, <1>6, <1>7, <1>9, <1>10, <1>11, <1>12, <1>13,
     <1>14, <1>15, <1>16 DEF RiskNext

(* The story of the risk Jobs, with the order of the events named.         *)
StoryOf(j) ==
    /\ rjob[j].status = "succeeded" <=> rreport[j] # NoRisk
    /\ rreport[j] # NoRisk => rjob[j].gen = 0 /\ rreport[j] = rcaptured[j]
    /\ rjob[j].status = "failed" => Last(j).phase = "FAILED"
    /\ Tells(revents[j])

LEMMA StoryTells ==
    /\ RiskStoryHolds <=> \A j \in RiskJobIds : StoryOf(j)
    /\ RiskStoryHolds' <=> \A j \in RiskJobIds : StoryOf(j)'
BY DEF RiskStoryHolds, StoryOf, Tells, TerminalPhases

(* A step without an event keeps every stream.                             *)
LEMMA QuietKeepsStory ==
    ASSUME UNCHANGED revents, \A k \in RiskJobIds : Tells(revents[k])
    PROVE  /\ \A k \in RiskJobIds : Tells(revents'[k])
           /\ \A k \in RiskJobIds : Last(k)' = Last(k)
BY DEF Last

(* Every step of admission, worker and recovery keeps the invariant.       *)
LEMMA RiskStepInductive == RiskInv /\ [RiskNext]_riskVars => RiskInv'
<1> SUFFICES ASSUME RiskInv, [RiskNext]_riskVars PROVE RiskInv'
  OBVIOUS
<1>0. /\ RiskTypeOK /\ RunnerIsSound /\ ListedIsOpen /\ TerminalEventIsTrue
      /\ \A k \in RiskJobIds : StoryOf(k)
  BY StoryTells DEF RiskInv
<1>t. RiskTypeOK'
  BY <1>0, RiskTypeInductive
<1> DEFINE Rest == /\ RunnerIsSound /\ ListedIsOpen /\ TerminalEventIsTrue
                   /\ \A k \in RiskJobIds : StoryOf(k)
<1> SUFFICES Rest'
  BY <1>t, StoryTells DEF RiskInv
<1>q. UNCHANGED revents => /\ \A k \in RiskJobIds : Tells(revents'[k])
                           /\ \A k \in RiskJobIds : Last(k)' = Last(k)
  BY <1>0, QuietKeepsStory DEF StoryOf
<1>m. ASSUME NEW j \in RiskJobIds, NEW to \in Status, rjob' = RiskMoved(j, to)
      PROVE  /\ rjob'[j].status = to /\ rjob'[j].gen = rjob[j].gen
             /\ \A k \in RiskJobIds \ {j} : rjob'[k] = rjob[k]
  BY <1>0, <1>m, RiskMovedFields
<1>e. ASSUME NEW j \in RiskJobIds, NEW p \in RiskPhases, NEW g \in 0 .. 100, revents' = Emit(j, p, g),
             Last(j).progress <= g, Last(j).phase \notin TerminalPhases
      PROVE  /\ \A k \in RiskJobIds : Tells(revents'[k])
             /\ Last(j)'.phase = p /\ Last(j)'.progress = g
             /\ \A k \in RiskJobIds \ {j} : Last(k)' = Last(k)
  <2>1. \A k \in RiskJobIds : Tells(revents[k])
    BY <1>0 DEF StoryOf
  <2>2. /\ \A k \in RiskJobIds : Tells(revents'[k])
        /\ Last(j)' = [phase |-> p, progress |-> g]
        /\ \A k \in RiskJobIds \ {j} : Last(k)' = Last(k)
    BY <1>0, <1>e, <2>1, EmitKeepsStory
  <2> QED
    BY <2>2
<1>g. \A k \in RiskJobIds : Last(k).progress \in 0 .. 100 /\ Last(k).progress <= Last(k).progress
  BY <1>0, LastProgress
<1>s. rtodo \subseteq RiskJobIds
  BY <1>0 DEF RiskTypeOK
<1> USE <1>0 DEF RunnerIsSound, ListedIsOpen, TerminalEventIsTrue, StoryOf, RiskOpen, Recoverable
<1>1. CASE UNCHANGED riskVars
  BY <1>1, <1>q DEF riskVars
<1>2. ASSUME NEW j \in RiskJobIds, CreateRiskJob(j) PROVE Rest'
  <2>1. runner'.at = "capture" /\ runner'.job = j
    BY <1>2 DEF CreateRiskJob, Off
  <2>2. rjob'[j].status = "queued" /\ \A k \in RiskJobIds \ {j} : rjob'[k] = rjob[k]
    BY <1>2 DEF CreateRiskJob, RiskTypeOK
  <2> QED
    BY <1>2, <1>q, <2>1, <2>2 DEF CreateRiskJob
<1>3. CASE SaveRiskMaterialization
  <2>1. runner'.at = "idle"
    BY <1>3 DEF SaveRiskMaterialization, Off
  <2>2. rreport[runner.job] = NoRisk /\ \A k \in RiskJobIds \ {runner.job} : rcaptured'[k] = rcaptured[k]
    BY <1>3 DEF SaveRiskMaterialization, RiskTypeOK
  <2> QED
    BY <1>3, <1>q, <2>1, <2>2 DEF SaveRiskMaterialization
<1>4. ASSUME NEW j \in RiskJobIds, RequestRiskCancellation(j) PROVE Rest'
  <2>1. rjob'[j].status = rjob[j].status /\ \A k \in RiskJobIds \ {j} : rjob'[k] = rjob[k]
    BY <1>4 DEF RequestRiskCancellation, RiskTypeOK, RiskRows
  <2> QED
    BY <1>4, <1>q, <2>1 DEF RequestRiskCancellation
<1>5. CASE MoveFacts
  BY <1>5, <1>q DEF MoveFacts
<1>7. ASSUME NEW j \in RiskJobIds, RunRisk(j) \/ RecoverRisk(j) PROVE Rest'
  <2>1. runner'.at \in {"begin", "fail"} /\ runner'.job = j
    BY <1>7 DEF RunRisk, RecoverRisk, Off
  <2>2. RiskOpen(j) /\ rtodo' \subseteq rtodo \ {j}
    BY <1>7 DEF RunRisk, RecoverRisk
  <2> QED
    BY <1>7, <1>q, <2>1, <2>2 DEF RunRisk, RecoverRisk
<1>x. ASSUME runner.at # "idle", RiskOpen(runner.job), CancelRisk(runner.job),
             UNCHANGED <<rcaptured, rreport, revents, rtodo>>
      PROVE  Rest'
  <2>1. runner'.at = "canceled" /\ runner'.job = runner.job
    BY <1>x DEF CancelRisk, RiskTypeOK, Runners
  <2>2. /\ rjob'[runner.job].status = "canceled"
        /\ \A k \in RiskJobIds \ {runner.job} : rjob'[k] = rjob[k]
    BY <1>x, <1>m DEF CancelRisk, Status
  <2>6. RunnerIsSound'
    BY <1>x, <1>q, <2>1, <2>2
  <2>7. ListedIsOpen'
    BY <1>x, <1>q, <1>s, <2>1, <2>2
  <2>8. TerminalEventIsTrue'
    BY <1>x, <1>q, <2>1, <2>2
  <2>9. \A k \in RiskJobIds : StoryOf(k)'
    BY <1>x, <1>q, <2>1, <2>2
  <2> QED
    BY <2>6, <2>7, <2>8, <2>9
<1>o. ASSUME runner' = Off, UNCHANGED <<rjob, rcaptured, rreport, revents, rtodo>> PROVE Rest'
  <2>1. runner'.at = "idle"
    BY <1>o DEF Off
  <2> QED
    BY <1>o, <1>q, <2>1
<1>8. CASE BeginRisk
  <2>0. PICK j \in RiskJobIds : j = runner.job
    BY <1>8 DEF BeginRisk
  <2>1. /\ runner.at = "begin" /\ j \in RiskJobIds /\ RiskOpen(j)
        /\ UNCHANGED <<rcaptured, rreport, revents, rtodo>>
    BY <1>8, <2>0 DEF BeginRisk
  <2>2. CASE runner.gen # 0
    BY <2>0, <1>8, <1>x, <2>1, <2>2 DEF BeginRisk
  <2>3. CASE runner.gen = 0 /\ rjob[j].status = "queued" /\ rjob[j].gen # 0
    BY <2>0, <1>8, <1>o, <2>1, <2>3 DEF BeginRisk
  <2>4. CASE runner.gen = 0 /\ ~(rjob[j].status = "queued" /\ rjob[j].gen # 0)
    <3>1. runner'.at = "load" /\ runner'.job = j
      BY <2>0, <1>8, <2>4 DEF BeginRisk, RiskTypeOK, Runners
    <3>2. rjob' = rjob \/ rjob' = RiskMoved(j, "running")
      BY <2>0, <1>8, <2>4 DEF BeginRisk
    <3>3. /\ RiskOpen(j)' /\ rjob'[j].gen = rjob[j].gen
          /\ \A k \in RiskJobIds \ {j} : rjob'[k] = rjob[k]
      <4>1. CASE rjob' = rjob
        BY <2>0, <2>1, <4>1
      <4>2. CASE rjob' = RiskMoved(j, "running")
        BY <2>0, <1>m, <2>1, <4>2 DEF Status
      <4> QED
        BY <2>0, <3>2, <4>1, <4>2
    <3>6. RunnerIsSound'
      BY <2>0, <1>q, <2>1, <3>1, <3>3
    <3>7. ListedIsOpen'
      BY <1>s, <2>0, <1>q, <2>1, <3>1, <3>3
    <3>8. TerminalEventIsTrue'
      BY <2>0, <1>q, <2>1, <3>1, <3>3
    <3>9. \A k \in RiskJobIds : StoryOf(k)'
      BY <2>0, <1>q, <2>1, <3>1, <3>3
    <3> QED
      BY <2>0, <3>6, <3>7, <3>8, <3>9
  <2> QED
    BY <2>0, <2>2, <2>3, <2>4
<1>9. CASE LoadRisk
  <2>1. \/ runner'.at = "fail"
        \/ /\ runner'.at = "program" /\ runner'.pc = 1 /\ runner'.progress = Last(runner.job).progress
           /\ rcaptured[runner.job] # NoRisk
    BY <1>9 DEF LoadRisk, RiskTypeOK, Runners
  <2>2. runner'.job = runner.job
    BY <1>9 DEF LoadRisk, RiskTypeOK, Runners
  <2> QED
    BY <1>9, <1>q, <2>1, <2>2 DEF LoadRisk
<1>a. ASSUME runner.at = "program", runner.pc < 13, Advance, UNCHANGED <<rjob, rcaptured, rreport, revents, rtodo>>
      PROVE  Rest'
  <2>1. /\ runner'.at = "program" /\ runner'.job = runner.job /\ runner'.progress = runner.progress
        /\ runner'.pc = runner.pc + 1
    BY <1>a, ProgramShape DEF Advance, RiskTypeOK, Runners
  <2> QED
    BY <1>a, <1>q, <2>1
<1>10. CASE CalculateRisk \/ RequireUncanceled
  <2>1. /\ runner.at = "program" /\ runner.pc \in 1 .. 12 /\ RiskOpen(runner.job)
        /\ UNCHANGED <<rcaptured, rreport, revents, rtodo>>
    BY <1>10, ProgramShape DEF CalculateRisk, RequireUncanceled, Doing
  <2>2. \/ CancelRisk(runner.job)
        \/ runner' = Off /\ UNCHANGED rjob
        \/ Advance /\ UNCHANGED rjob
    BY <1>10 DEF CalculateRisk, RequireUncanceled
  <2> QED
    BY <1>a, <1>o, <1>x, <2>1, <2>2
<1>11. CASE SealRiskReport
  <2>0. PICK j \in RiskJobIds : j = runner.job
    BY <1>11 DEF SealRiskReport, Doing
  <2>1. /\ runner.at = "program" /\ runner.pc = 13 /\ RiskOpen(j) /\ j \in RiskJobIds
        /\ UNCHANGED <<rcaptured, revents, rtodo>>
    BY <2>0, <1>11, ProgramShape DEF SealRiskReport, Doing
  <2>2. CASE /\ rreport' = [rreport EXCEPT ![j] = rcaptured[j]] /\ rjob[j].gen = 0
             /\ rjob' = RiskMoved(j, "succeeded") /\ Advance
    <3>1. /\ runner'.at = "program" /\ runner'.job = j /\ runner'.progress = runner.progress
          /\ runner'.pc = 14
      BY <2>0, <2>1, <2>2, ProgramShape DEF Advance, RiskTypeOK, Runners
    <3>2. /\ rjob'[j].status = "succeeded" /\ rjob'[j].gen = 0
          /\ \A k \in RiskJobIds \ {j} : rjob'[k] = rjob[k]
      BY <2>0, <1>m, <2>1, <2>2 DEF Status
    <3>3. rreport'[j] = rcaptured[j] /\ \A k \in RiskJobIds \ {j} : rreport'[k] = rreport[k]
      BY <2>0, <2>1, <2>2 DEF RiskTypeOK
    <3>6. RunnerIsSound'
      BY <2>0, <1>q, <2>1, <3>1, <3>2, <3>3
    <3>7. ListedIsOpen'
      BY <1>s, <2>0, <1>q, <2>1, <3>1, <3>2, <3>3
    <3>8. TerminalEventIsTrue'
      BY <2>0, <1>q, <2>1, <3>1, <3>2, <3>3
    <3>9. \A k \in RiskJobIds : StoryOf(k)'
      BY <2>0, <1>q, <2>1, <3>1, <3>2, <3>3
    <3> QED
      BY <2>0, <3>6, <3>7, <3>8, <3>9
  <2>3. CASE runner' = [runner EXCEPT !.at = "fail"] /\ UNCHANGED <<rreport, rjob>>
    <3>1. runner'.at = "fail" /\ runner'.job = j
      BY <2>0, <2>3 DEF RiskTypeOK, Runners
    <3> QED
      BY <2>0, <1>q, <2>1, <2>3, <3>1
  <2> QED
    BY <2>0, <1>11, <2>2, <2>3 DEF SealRiskReport
<1>12. CASE RiskRestart
  <2>1. runner'.at = "idle"
    BY <1>12 DEF RiskRestart, Off
  <2> QED
    BY <1>12, <1>q, <2>1 DEF RiskRestart
<1>13. ASSUME NEW j \in RiskJobIds, EnsureSucceededEvent(j) PROVE Rest'
  <2>1. Last(j).phase \notin TerminalPhases /\ Last(j).progress <= 100
    BY <1>13, <1>g DEF EnsureSucceededEvent, TerminalPhases
  <2>2. /\ \A k \in RiskJobIds : Tells(revents'[k])
        /\ Last(j)'.phase = "SUCCEEDED"
        /\ \A k \in RiskJobIds \ {j} : Last(k)' = Last(k)
    BY <1>13, <1>e, <2>1 DEF EnsureSucceededEvent, RiskPhases, TerminalPhases
  <2> QED
    BY <1>13, <2>2 DEF EnsureSucceededEvent
<1>14. CASE EmitCanceled
  <2>0. PICK j \in RiskJobIds : j = runner.job
    BY <1>14 DEF EmitCanceled
  <2>1. j \in RiskJobIds /\ rjob[j].status = "canceled" /\ Last(j).phase \notin TerminalPhases
    BY <2>0, <1>14 DEF EmitCanceled, TerminalPhases
  <2>2. /\ \A k \in RiskJobIds : Tells(revents'[k])
        /\ Last(j)'.phase = "CANCELED"
        /\ \A k \in RiskJobIds \ {j} : Last(k)' = Last(k)
    <3>1. revents' = Emit(j, "CANCELED", Last(j).progress) /\ "CANCELED" \in RiskPhases
      BY <1>14, <2>0 DEF EmitCanceled, RiskPhases, TerminalPhases
    <3> QED
      BY <1>e, <1>g, <2>1, <3>1
  <2>3. runner'.at = "idle"
    BY <2>0, <1>14 DEF EmitCanceled, Off
  <2>6. RunnerIsSound'
    BY <2>0, <1>14, <2>1, <2>2, <2>3 DEF EmitCanceled
  <2>7. ListedIsOpen'
    BY <1>s, <2>0, <1>14, <2>1, <2>2, <2>3 DEF EmitCanceled
  <2>8. TerminalEventIsTrue'
    BY <2>0, <1>14, <2>1, <2>2, <2>3 DEF EmitCanceled
  <2>9. \A k \in RiskJobIds : StoryOf(k)'
    BY <2>0, <1>14, <2>1, <2>2, <2>3 DEF EmitCanceled
  <2> QED
    BY <2>0, <2>6, <2>7, <2>8, <2>9
<1>15. CASE AppendRiskEvent
  <2>0. PICK j \in RiskJobIds : j = runner.job
    BY <1>15 DEF AppendRiskEvent, Doing
  <2> DEFINE e == Program[runner.pc]
  <2>1. /\ runner.at = "program" /\ j \in RiskJobIds /\ runner.pc \in 1 .. 14 /\ runner.pc # 13
        /\ e.phase \in RiskPhases /\ e.progress \in 0 .. 100 /\ runner.progress \in 0 .. 100
        /\ runner.pc < 14 => e.phase \notin TerminalPhases
        /\ runner.pc = 14 => e.phase = "SUCCEEDED"
        /\ UNCHANGED <<rjob, rcaptured, rreport, rtodo>>
    BY <2>0, <1>15, ProgramShape DEF AppendRiskEvent, Doing, RiskTypeOK, Runners
  <2>2. Last(j).phase \notin TerminalPhases
    BY <2>0, <2>1 DEF TerminalPhases
  <2>3. Floor(e.progress) \in 0 .. 100 /\ Last(j).progress <= Floor(e.progress)
    <3>1. runner.progress = Last(j).progress
      BY <2>0, <2>1
    <3>2. \A a, b \in 0 .. 100 : (IF a < b THEN b ELSE a) \in 0 .. 100 /\ b <= (IF a < b THEN b ELSE a)
      OBVIOUS
    <3> QED
      BY <2>0, <2>1, <3>1, <3>2 DEF Floor
  <2>4. /\ \A k \in RiskJobIds : Tells(revents'[k])
        /\ Last(j)'.phase = e.phase /\ Last(j)'.progress = Floor(e.progress)
        /\ \A k \in RiskJobIds \ {j} : Last(k)' = Last(k)
    <3>1. revents' = Emit(j, e.phase, Floor(e.progress))
      BY <1>15, <2>0 DEF AppendRiskEvent
    <3> HIDE DEF e
    <3> QED
      BY <1>e, <2>1, <2>2, <2>3, <3>1
  <2>5. CASE runner.pc = 14
    <3>1. runner'.at = "idle"
      BY <2>0, <1>15, <2>5, ProgramShape DEF AppendRiskEvent, Off
    <3>6. RunnerIsSound'
      BY <2>0, <2>1, <2>4, <2>5, <3>1
    <3>7. ListedIsOpen'
      BY <1>s, <2>0, <2>1, <2>4, <2>5, <3>1
    <3>8. TerminalEventIsTrue'
      BY <2>0, <2>1, <2>4, <2>5, <3>1
    <3>9. \A k \in RiskJobIds : StoryOf(k)'
      BY <2>0, <2>1, <2>4, <2>5, <3>1
    <3> QED
      BY <2>0, <3>6, <3>7, <3>8, <3>9
  <2>6. CASE runner.pc < 14
    <3>1. /\ runner'.at = "program" /\ runner'.job = j /\ runner'.pc = runner.pc + 1
          /\ runner'.progress = Floor(e.progress)
      BY <2>0, <1>15, <2>1, <2>6, ProgramShape DEF AppendRiskEvent, RiskTypeOK, Runners
    <3> QED
      BY <2>0, <2>1, <2>4, <2>6, <3>1 DEF TerminalPhases
  <2> QED
    BY <2>0, <2>1, <2>5, <2>6
<1>16. CASE Fail
  <2>0. PICK j \in RiskJobIds : j = runner.job
    BY <1>16 DEF Fail
  <2>1. runner.at = "fail" /\ j \in RiskJobIds /\ RiskOpen(j) /\ UNCHANGED <<rcaptured, rreport, rtodo>>
    BY <1>16, <2>0 DEF Fail
  <2>2. CASE CancelRisk(j) /\ UNCHANGED revents
    BY <2>0, <1>x, <2>1, <2>2
  <2>3. CASE FailRiskJob(j) /\ runner' = Off
    <3>1. rjob'[j].status = "failed" /\ \A k \in RiskJobIds \ {j} : rjob'[k] = rjob[k]
      BY <2>0, <1>m, <2>1, <2>3 DEF FailRiskJob, Status
    <3>2. Last(j).phase \notin TerminalPhases
      BY <2>0, <2>1 DEF TerminalPhases
    <3>3. /\ \A k \in RiskJobIds : Tells(revents'[k])
          /\ Last(j)'.phase = "FAILED"
          /\ \A k \in RiskJobIds \ {j} : Last(k)' = Last(k)
      <4>1. revents' = Emit(j, "FAILED", Last(j).progress) /\ "FAILED" \in RiskPhases
        BY <2>3 DEF FailRiskJob, RiskPhases, TerminalPhases
      <4> QED
        BY <1>e, <1>g, <3>2, <4>1
    <3>4. runner'.at = "idle"
      BY <2>0, <2>3 DEF Off
    <3>6. RunnerIsSound'
      BY <2>0, <2>1, <3>1, <3>3, <3>4
    <3>7. ListedIsOpen'
      BY <1>s, <2>0, <2>1, <3>1, <3>3, <3>4
    <3>8. TerminalEventIsTrue'
      BY <2>0, <2>1, <3>1, <3>3, <3>4
    <3>9. \A k \in RiskJobIds : StoryOf(k)'
      BY <2>0, <2>1, <3>1, <3>3, <3>4
    <3> QED
      BY <2>0, <3>6, <3>7, <3>8, <3>9
  <2> QED
    BY <2>0, <1>16, <2>2, <2>3 DEF Fail
<1> QED
  BY <1>1, <1>2, <1>3, <1>4, <1>5, <1>7, <1>8, <1>9, <1>10, <1>11, <1>12, <1>13, <1>14,
     <1>15, <1>16 DEF RiskNext

(* It holds when the project has no risk Job yet.                          *)
LEMMA RiskInitInv == RiskInit => RiskInv
<1> SUFFICES ASSUME RiskInit PROVE RiskInv
  OBVIOUS
<1>1. RiskTypeOK
  BY DEF RiskInit, RiskTypeOK, RiskRows, NoRiskJob, Runners, RunnerSteps, Off
<1>2. runner.at = "idle" /\ \A j \in RiskJobIds : Last(j).phase = "none" /\ Tells(revents[j])
  BY DEF RiskInit, Off, Last, Tells
<1>3. \A j \in RiskJobIds : StoryOf(j)
  BY <1>2 DEF RiskInit, StoryOf, NoRiskJob
<1> QED
  BY <1>1, <1>2, <1>3, StoryTells DEF RiskInv, RiskInit, RunnerIsSound, ListedIsOpen, TerminalEventIsTrue

(* Every reachable state of the risk Jobs satisfies it.                    *)
THEOREM RiskInvariant == RiskSpec => []RiskInv
<1>2. RiskInv /\ [RiskNext]_riskVars => RiskInv'
  BY RiskStepInductive
<1> QED
  BY RiskInitInv, <1>2, PTL DEF RiskSpec

(* A report exactly for the uncanceled succeeded Jobs, from the captured   *)
(* facts, and an event stream whose progress never falls and that ends     *)
(* with its terminal event, however often a restart repeats the            *)
(* calculation (Worker.Run, riskEventCursor.append, SealRiskReport).       *)
THEOREM RiskStoryHoldsAlways == RiskSpec => []RiskStoryHolds
<1>1. RiskInv => RiskStoryHolds
  BY DEF RiskInv
<1> QED
  BY <1>1, RiskInvariant, PTL

(***************************************************************************)
(* Impact reports.                                                         *)
(***************************************************************************)
ImpactSpec == ImpactInit /\ [][ImpactNext]_impactVars

AgentSteps == {"idle", "lookup", "adopt", "stage", "claim", "enqueue", "begin", "start", "load",
               "check1", "diff", "check2", "traverse", "check3", "retrieve", "verify", "seal", "fail"}
ImpactRows == [status : Status \cup {"none"}, gen : {0, 1}, input : ImpactInputs]
AgentRows == [pc : AgentSteps, key : ImpactKeys \cup {NoKey}, gen : {0, 1}, found : Findings \cup {"none"}]

(* Every variable of the impact Jobs has its type.                         *)
ImpactTypeOK ==
    /\ ijob \in [ImpactKeys -> ImpactRows]
    /\ staging \in [ImpactInputs -> ImpactKeys \cup {NoKey}]
    /\ ireport \in [ImpactInputs -> Findings \cup {"none"}]
    /\ handoff \in {"queued", "waiting", "failed", "claimed", "consumed"}
    /\ iqueue \in Seq(ImpactKeys)
    /\ agent \in [Agents -> AgentRows]
    /\ itodo \subseteq ImpactKeys

(* Whoever works on a Job has one that exists; a cached report is there,   *)
(* and so is what a finished analysis found.                               *)
AgentIsSound(a) ==
    agent[a].pc # "idle" =>
       /\ Key(a) \in ImpactKeys /\ ijob[Key(a)].status # "none"
       /\ agent[a].pc = "adopt" => ireport[InputOf(a)] # "none"
       /\ agent[a].pc \in {"verify", "seal"} => agent[a].found \in Findings

(* What is queued or listed for recovery exists.                           *)
WaitingExists ==
    /\ \A n \in DOMAIN iqueue : ijob[iqueue[n]].status # "none"
    /\ \A k \in itodo : ijob[k].status # "none"

(* The inductive invariant of the impact Jobs.                             *)
ImpactInv ==
    /\ ImpactTypeOK
    /\ \A a \in Agents : AgentIsSound(a)
    /\ WaitingExists
    /\ ImpactIsSealedWhole

(* What every step keeps: a Job that exists keeps its input, a succeeded   *)
(* one does not change any more, and neither does a report.                *)
ImpactForward ==
    /\ \A k \in ImpactKeys :
          /\ ijob[k].status # "none" => ijob'[k].status # "none" /\ ijob'[k].input = ijob[k].input
          /\ ijob[k].status = "succeeded" => ijob'[k] = ijob[k]
    /\ \A i \in ImpactInputs : ireport[i] # "none" => ireport'[i] = ireport[i]

USE ImpactAssumption

(* The ways an agent goes on, and what each sets.                          *)
LEMMA AgentGoes ==
    ASSUME ImpactTypeOK, NEW a \in Agents, NEW p \in AgentSteps, Go(a, p)
    PROVE  /\ agent' \in [Agents -> AgentRows]
           /\ agent'[a].pc = p /\ agent'[a].key = agent[a].key /\ agent'[a].found = agent[a].found
           /\ \A b \in Agents \ {a} : agent'[b] = agent[b]
<1>1. [agent[a] EXCEPT !.pc = p] \in AgentRows
  BY DEF ImpactTypeOK, AgentRows
<1>2. agent' = [agent EXCEPT ![a] = [agent[a] EXCEPT !.pc = p]]
  BY DEF Go, ImpactTypeOK
<1> QED
  BY <1>1, <1>2 DEF ImpactTypeOK, AgentRows

LEMMA AgentRests ==
    ASSUME ImpactTypeOK, NEW a \in Agents, Done(a)
    PROVE  /\ agent' \in [Agents -> AgentRows]
           /\ agent'[a].pc = "idle"
           /\ \A b \in Agents \ {a} : agent'[b] = agent[b]
<1>1. Idle \in AgentRows
  BY DEF Idle, AgentRows, AgentSteps
<1> QED
  BY <1>1 DEF Done, ImpactTypeOK, Idle

LEMMA AgentTakes ==
    ASSUME ImpactTypeOK, NEW a \in Agents, NEW p \in AgentSteps, NEW k \in ImpactKeys,
           agent' = [agent EXCEPT ![a] = [Idle EXCEPT !.pc = p, !.key = k]]
    PROVE  /\ agent' \in [Agents -> AgentRows]
           /\ agent'[a].pc = p /\ agent'[a].key = k
           /\ \A b \in Agents \ {a} : agent'[b] = agent[b]
<1>1. [Idle EXCEPT !.pc = p, !.key = k] = [[Idle EXCEPT !.pc = p] EXCEPT !.key = k]
  OBVIOUS
<1>2. [Idle EXCEPT !.pc = p] \in AgentRows
  BY DEF Idle, AgentRows, AgentSteps
<1>3. [[Idle EXCEPT !.pc = p] EXCEPT !.key = k] \in AgentRows
  BY <1>2 DEF AgentRows
<1>4. agent'[a] = [[Idle EXCEPT !.pc = p] EXCEPT !.key = k] /\ \A b \in Agents \ {a} : agent'[b] = agent[b]
  BY <1>1 DEF ImpactTypeOK
<1>5. agent' \in [Agents -> AgentRows]
  BY <1>1, <1>3 DEF ImpactTypeOK
<1>6. agent'[a].pc = p /\ agent'[a].key = k
  BY <1>4 DEF Idle
<1> QED
  BY <1>4, <1>5, <1>6

(* A move of a Job changes its status and nothing else.                    *)
LEMMA ImpactMovedFields ==
    ASSUME ImpactTypeOK, NEW k \in ImpactKeys, NEW to \in Status, ijob' = Moved(k, to)
    PROVE  /\ ijob' \in [ImpactKeys -> ImpactRows]
           /\ ijob'[k].status = to /\ ijob'[k].gen = ijob[k].gen /\ ijob'[k].input = ijob[k].input
           /\ \A l \in ImpactKeys \ {k} : ijob'[l] = ijob[l]
<1>1. [ijob[k] EXCEPT !.status = to] \in ImpactRows
  BY DEF ImpactTypeOK, ImpactRows
<1>2. ijob' = [ijob EXCEPT ![k] = [ijob[k] EXCEPT !.status = to]]
  BY DEF ImpactTypeOK, Moved
<1> QED
  BY <1>1, <1>2 DEF ImpactTypeOK, ImpactRows

(* CreateOrGet of a new key.                                               *)
LEMMA ImpactCreated ==
    ASSUME ImpactTypeOK, NEW a \in Agents, NEW k \in ImpactKeys, NEW i \in ImpactInputs,
           CreateOrGetJob(a, k, i)
    PROVE  /\ ijob[k].status = "none"
           /\ ijob' \in [ImpactKeys -> ImpactRows]
           /\ ijob'[k].status = "queued" /\ ijob'[k].input = i
           /\ \A l \in ImpactKeys \ {k} : ijob'[l] = ijob[l]
           /\ agent' \in [Agents -> AgentRows]
           /\ agent'[a].pc = "lookup" /\ agent'[a].key = k
           /\ \A b \in Agents \ {a} : agent'[b] = agent[b]
<1>1. [NoJob EXCEPT !.status = "queued", !.input = i] = [[NoJob EXCEPT !.status = "queued"] EXCEPT !.input = i]
  OBVIOUS
<1>2. [NoJob EXCEPT !.status = "queued"] \in ImpactRows
  BY DEF NoJob, ImpactRows, Status
<1>3. [[NoJob EXCEPT !.status = "queued"] EXCEPT !.input = i] \in ImpactRows
  BY <1>2 DEF ImpactRows
<1>4. /\ ijob'[k] = [[NoJob EXCEPT !.status = "queued"] EXCEPT !.input = i]
      /\ ijob' \in [ImpactKeys -> ImpactRows]
      /\ \A l \in ImpactKeys \ {k} : ijob'[l] = ijob[l]
  BY <1>1, <1>3 DEF CreateOrGetJob, ImpactTypeOK
<1>5. ijob'[k].status = "queued" /\ ijob'[k].input = i
  BY <1>4 DEF NoJob
<1>6. /\ agent' \in [Agents -> AgentRows]
      /\ agent'[a].pc = "lookup" /\ agent'[a].key = k
      /\ \A b \in Agents \ {a} : agent'[b] = agent[b]
  BY AgentTakes DEF CreateOrGetJob, AgentSteps
<1> QED
  BY <1>4, <1>5, <1>6 DEF CreateOrGetJob

(* What a step has to do to the shared rows, and to the agent a that takes *)
(* it, for the invariant to hold after it: every action below is shown to  *)
(* do that and nothing else.                                               *)
RowsGoForward ==
    /\ \A k \in ImpactKeys :
          /\ ijob[k].status # "none" => ijob'[k].status # "none" /\ ijob'[k].input = ijob[k].input
          /\ ijob[k].status = "succeeded" => ijob'[k] = ijob[k]
          /\ ijob'[k].status = "succeeded" /\ ijob[k].status # "succeeded"
                => ijob'[k].gen = 0 /\ ijob'[k].input \in ImpactInputs /\ ireport'[ijob'[k].input] # "none"
    /\ \A i \in ImpactInputs :
          /\ ireport[i] # "none" => ireport'[i] = ireport[i]
          /\ staging[i] # NoKey => staging'[i] = staging[i] \/ ireport'[i] # "none"
          /\ ireport[i] = "none" /\ ireport'[i] # "none" =>
                \E k \in ImpactKeys : ijob'[k].status = "succeeded" /\ ijob'[k].input = i
    /\ handoff' = "consumed" /\ handoff # "consumed" => \E i \in ImpactInputs : ireport'[i] # "none"
    /\ \A n \in DOMAIN iqueue' : iqueue'[n] \in ImpactKeys /\ ijob'[iqueue'[n]].status # "none"
    /\ \A k \in itodo' : ijob'[k].status # "none"

PastLoad == {"check1", "diff", "check2", "traverse", "check3", "retrieve", "verify", "seal"}

LEMMA ImpactKept ==
    ASSUME ImpactInv, ImpactTypeOK', RowsGoForward, NEW a \in Agents,
           \A b \in Agents \ {a} : agent'[b] = agent[b] \/ agent'[b].pc = "idle",
           AgentIsSound(a)', agent'[a].pc \in PastLoad => (Staged(a) \/ ireport[InputOf(a)] # "none")'
    PROVE  ImpactInv' /\ ImpactForward
<1>t. ImpactTypeOK
  BY DEF ImpactInv
<1>n. NoKey \notin ImpactKeys
  BY ImpactAssumption
<1>k. \A b \in Agents : agent[b].pc # "idle" =>
         agent[b].key \in ImpactKeys /\ ijob[agent[b].key].status # "none" /\ ijob[agent[b].key].input \in ImpactInputs
  BY DEF ImpactInv, ImpactTypeOK, ImpactRows, AgentIsSound, Key
<1>1. ImpactForward
  BY DEF ImpactForward, RowsGoForward
<1>2. \A b \in Agents : AgentIsSound(b)'
  <2>1. SUFFICES ASSUME NEW b \in Agents \ {a}, agent'[b] = agent[b], agent[b].pc # "idle" PROVE AgentIsSound(b)'
    BY DEF AgentIsSound
  <2>2. AgentIsSound(b)
    BY DEF ImpactInv
  <2> QED
    BY <1>k, <2>1, <2>2 DEF AgentIsSound, Key, InputOf, RowsGoForward
<1>3. WaitingExists'
  BY DEF WaitingExists, RowsGoForward
<1>4. (\A k \in ImpactKeys :
          ijob[k].status = "succeeded" => ijob[k].gen = 0 /\ ireport[ijob[k].input] # "none")'
  <2>1. SUFFICES ASSUME NEW k \in ImpactKeys, ijob'[k].status = "succeeded"
                 PROVE  ijob'[k].gen = 0 /\ ireport'[ijob'[k].input] # "none"
    OBVIOUS
  <2>2. CASE ijob[k].status # "succeeded"
    BY <2>1, <2>2 DEF RowsGoForward
  <2>3. CASE ijob[k].status = "succeeded"
    <3>1. ijob'[k] = ijob[k] /\ ijob[k].gen = 0 /\ ireport[ijob[k].input] # "none"
      BY <2>3 DEF RowsGoForward, ImpactInv, ImpactIsSealedWhole
    <3>2. ijob[k].input \in ImpactInputs
      BY <1>t DEF ImpactTypeOK, ImpactRows
    <3> QED
      BY <3>1, <3>2 DEF RowsGoForward
  <2> QED
    BY <2>2, <2>3
<1>5. (\A i \in ImpactInputs :
          ireport[i] # "none" => \E k \in ImpactKeys : ijob[k].status = "succeeded" /\ ijob[k].input = i)'
  <2>1. SUFFICES ASSUME NEW i \in ImpactInputs, ireport'[i] # "none"
                 PROVE  \E k \in ImpactKeys : ijob'[k].status = "succeeded" /\ ijob'[k].input = i
    OBVIOUS
  <2>2. CASE ireport[i] = "none"
    BY <2>1, <2>2 DEF RowsGoForward
  <2>3. CASE ireport[i] # "none"
    <3>1. PICK k \in ImpactKeys : ijob[k].status = "succeeded" /\ ijob[k].input = i
      BY <2>3 DEF ImpactInv, ImpactIsSealedWhole
    <3>2. ijob'[k] = ijob[k]
      BY <3>1 DEF RowsGoForward
    <3> QED
      BY <3>1, <3>2
  <2> QED
    BY <2>2, <2>3
<1>6. (handoff = "consumed" => \E i \in ImpactInputs : ireport[i] # "none")'
  <2>1. handoff = "consumed" => \E i \in ImpactInputs : ireport[i] # "none"
    BY DEF ImpactInv, ImpactIsSealedWhole
  <2> QED
    BY <2>1 DEF RowsGoForward
<1>7. (\A b \in Agents : agent[b].pc \in PastLoad => Staged(b) \/ ireport[InputOf(b)] # "none")'
  <2>1. SUFFICES ASSUME NEW b \in Agents \ {a}, agent'[b] = agent[b], agent[b].pc # "idle", agent[b].pc \in PastLoad
                 PROVE  (Staged(b) \/ ireport[InputOf(b)] # "none")'
    BY DEF PastLoad
  <2>2. Staged(b) \/ ireport[InputOf(b)] # "none"
    BY <2>1 DEF ImpactInv, ImpactIsSealedWhole, PastLoad
  <2>3. agent[b].key \in ImpactKeys /\ ijob[agent[b].key].status # "none" /\ ijob[agent[b].key].input \in ImpactInputs
    BY <1>k, <2>1
  <2> QED
    BY <1>n, <2>1, <2>2, <2>3 DEF Staged, Key, InputOf, RowsGoForward
<1>8. ImpactIsSealedWhole'
  BY <1>4, <1>5, <1>6, <1>7 DEF ImpactIsSealedWhole, PastLoad
<1> QED
  BY <1>1, <1>2, <1>3, <1>8 DEF ImpactInv

(* A step that only moves one agent.                                       *)
LEMMA ImpactAgentMoves ==
    ASSUME ImpactInv, UNCHANGED <<ijob, staging, ireport, handoff, iqueue, itodo>>, NEW a \in Agents,
           agent' \in [Agents -> AgentRows],
           \A b \in Agents \ {a} : agent'[b] = agent[b],
           AgentIsSound(a)', agent'[a].pc \in PastLoad => (Staged(a) \/ ireport[InputOf(a)] # "none")'
    PROVE  ImpactInv' /\ ImpactForward
<1>1. ImpactTypeOK'
  BY DEF ImpactInv, ImpactTypeOK
<1>2. RowsGoForward
  BY DEF ImpactInv, ImpactTypeOK, WaitingExists, RowsGoForward
<1> QED
  BY <1>1, <1>2, ImpactKept

(* A step that moves one Job to another status, and its agent on or to     *)
(* rest; a Job becomes succeeded only with the report of its input there.  *)
LEMMA ImpactJobMoves ==
    ASSUME ImpactInv, NEW k \in ImpactKeys, NEW to \in Status, ijob' = Moved(k, to),
           ijob[k].status \notin {"none", "succeeded"},
           to = "succeeded" => ijob[k].gen = 0 /\ ireport[ijob[k].input] # "none",
           NEW a \in Agents, agent[a].pc # "idle",
           \/ Done(a)
           \/ UNCHANGED agent
           \/ Go(a, "load") \/ Go(a, "claim"),
           UNCHANGED <<staging, ireport, handoff, iqueue, itodo>>
    PROVE  ImpactInv' /\ ImpactForward
<1>t. ImpactTypeOK
  BY DEF ImpactInv
<1>1. /\ ijob' \in [ImpactKeys -> ImpactRows]
      /\ ijob'[k].status = to /\ ijob'[k].gen = ijob[k].gen /\ ijob'[k].input = ijob[k].input
      /\ \A l \in ImpactKeys \ {k} : ijob'[l] = ijob[l]
  BY <1>t, ImpactMovedFields
<1>2. /\ agent' \in [Agents -> AgentRows]
      /\ \/ agent'[a].pc = "idle"
         \/ agent'[a] = agent[a]
         \/ agent'[a].pc \in {"load", "claim"} /\ agent'[a].key = agent[a].key
      /\ \A b \in Agents \ {a} : agent'[b] = agent[b]
  BY <1>t, AgentGoes, AgentRests DEF AgentSteps, ImpactTypeOK
<1>3. ImpactTypeOK'
  BY <1>t, <1>1, <1>2 DEF ImpactTypeOK
<1>4. ijob[k].input \in ImpactInputs /\ to # "none"
  BY <1>t DEF ImpactTypeOK, ImpactRows, Status
<1>5. \A l \in ImpactKeys :
         /\ ijob[l].status # "none" => ijob'[l].status # "none"
         /\ ijob'[l].input = ijob[l].input
         /\ ijob[l].status = "succeeded" => ijob'[l] = ijob[l]
         /\ ijob'[l].status = "succeeded" /\ ijob[l].status # "succeeded" =>
               ijob'[l].gen = 0 /\ ijob'[l].input \in ImpactInputs /\ ireport'[ijob'[l].input] # "none"
  <2>1. SUFFICES ASSUME NEW l \in ImpactKeys
                 PROVE  /\ ijob[l].status # "none" => ijob'[l].status # "none"
                        /\ ijob'[l].input = ijob[l].input
                        /\ ijob[l].status = "succeeded" => ijob'[l] = ijob[l]
                        /\ ijob'[l].status = "succeeded" /\ ijob[l].status # "succeeded" =>
                              ijob'[l].gen = 0 /\ ijob'[l].input \in ImpactInputs /\ ireport'[ijob'[l].input] # "none"
    OBVIOUS
  <2>2. CASE l = k
    BY <1>1, <1>4, <2>2
  <2>3. CASE l # k
    BY <1>1, <2>3
  <2> QED
    BY <2>2, <2>3
<1>6. \A n \in DOMAIN iqueue : iqueue[n] \in ImpactKeys /\ ijob[iqueue[n]].status # "none"
  BY <1>t DEF ImpactInv, WaitingExists, ImpactTypeOK
<1>7. RowsGoForward
  BY <1>t, <1>5, <1>6 DEF ImpactInv, WaitingExists, RowsGoForward, ImpactTypeOK
<1>8. AgentIsSound(a)
  BY DEF ImpactInv
<1>9. agent[a].key \in ImpactKeys /\ ijob[agent[a].key].status # "none"
      /\ ijob[agent[a].key].input \in ImpactInputs
  BY <1>8, <1>t DEF AgentIsSound, Key, ImpactTypeOK, ImpactRows
<1>10. ijob'[agent[a].key].status # "none" /\ ijob'[agent[a].key].input = ijob[agent[a].key].input
  BY <1>5, <1>9
<1>11. AgentIsSound(a)'
  BY <1>2, <1>8, <1>9, <1>10 DEF AgentIsSound, Key, InputOf
<1>12. agent'[a].pc \in PastLoad => (Staged(a) \/ ireport[InputOf(a)] # "none")'
  <2>1. SUFFICES ASSUME agent'[a].pc \in PastLoad, agent'[a] = agent[a]
                 PROVE  (Staged(a) \/ ireport[InputOf(a)] # "none")'
    BY <1>2 DEF PastLoad
  <2>2. Staged(a) \/ ireport[InputOf(a)] # "none"
    BY <2>1 DEF ImpactInv, ImpactIsSealedWhole, PastLoad
  <2> QED
    BY <2>1, <2>2, <1>10 DEF Staged, InputOf, Key
<1> QED
  BY <1>2, <1>3, <1>7, <1>11, <1>12, ImpactKept

(* Submission: the Job, the lookup, the staging row, the queue.            *)
LEMMA ImpactJobCreates ==
    ASSUME ImpactInv, NEW a \in Agents, NEW k \in ImpactKeys, NEW i \in ImpactInputs, CreateOrGetJob(a, k, i),
           UNCHANGED <<staging, ireport, handoff, iqueue, itodo>>
    PROVE  ImpactInv' /\ ImpactForward
<1>t. ImpactTypeOK
  BY DEF ImpactInv
<1>1. /\ ijob[k].status = "none"
      /\ ijob' \in [ImpactKeys -> ImpactRows]
      /\ ijob'[k].status = "queued" /\ ijob'[k].input = i
      /\ \A l \in ImpactKeys \ {k} : ijob'[l] = ijob[l]
      /\ agent' \in [Agents -> AgentRows]
      /\ agent'[a].pc = "lookup" /\ agent'[a].key = k
      /\ \A b \in Agents \ {a} : agent'[b] = agent[b]
  BY <1>t, ImpactCreated
<1>2. ImpactTypeOK'
  BY <1>t, <1>1 DEF ImpactTypeOK
<1>3. \A l \in ImpactKeys : l = k \/ ijob'[l] = ijob[l]
  BY <1>1
<1>4. \A l \in ImpactKeys :
         /\ ijob[l].status # "none" => ijob'[l] = ijob[l]
         /\ ijob'[l].status = "succeeded" => ijob'[l] = ijob[l]
  BY <1>1, <1>3
<1>5. \A n \in DOMAIN iqueue : iqueue[n] \in ImpactKeys /\ ijob[iqueue[n]].status # "none"
  BY <1>t DEF ImpactInv, WaitingExists, ImpactTypeOK
<1>6. RowsGoForward
  BY <1>t, <1>4, <1>5 DEF ImpactInv, WaitingExists, RowsGoForward, ImpactTypeOK
<1>7. AgentIsSound(a)' /\ agent'[a].pc \notin PastLoad
  BY <1>1 DEF AgentIsSound, Key, PastLoad
<1> QED
  BY <1>1, <1>2, <1>6, <1>7, ImpactKept

LEMMA ImpactSubmits ==
    ASSUME ImpactInv, NEW a \in Agents, Submit(a)
    PROVE  ImpactInv' /\ ImpactForward
<1>t. ImpactTypeOK
  BY DEF ImpactInv
<1>s. AgentIsSound(a)
  BY DEF ImpactInv
<1>a. agent[a].pc # "idle"
  BY DEF Submit, LookUp, AdoptReport, CreateOrGetStaging, Enqueue, At
<1>k. Key(a) \in ImpactKeys /\ ijob[Key(a)].status # "none" /\ InputOf(a) \in ImpactInputs
  BY <1>t, <1>s, <1>a DEF AgentIsSound, Key, InputOf, ImpactTypeOK, ImpactRows
<1>1. CASE LookUp(a)
  <2>1. PICK p \in {"adopt", "stage"} : Go(a, p) /\ (p = "adopt" => ireport[InputOf(a)] # "none")
    BY <1>1 DEF LookUp
  <2>2. /\ agent' \in [Agents -> AgentRows]
        /\ agent'[a].pc = p /\ agent'[a].key = agent[a].key
        /\ \A b \in Agents \ {a} : agent'[b] = agent[b]
    BY <1>t, <2>1, AgentGoes DEF AgentSteps
  <2>3. AgentIsSound(a)' /\ agent'[a].pc \notin PastLoad
    BY <1>1, <1>k, <2>1, <2>2 DEF LookUp, AgentIsSound, Key, InputOf, PastLoad
  <2> QED
    BY <1>1, <2>2, <2>3, ImpactAgentMoves DEF LookUp
<1>2. CASE AdoptReport(a)
  <2>1. CASE CanMove(Key(a), "queued", "running", 0) /\ ijob' = Moved(Key(a), "running") /\ UNCHANGED agent
    BY <1>2, <1>a, <1>k, <2>1, ImpactJobMoves DEF AdoptReport, CanMove, Status
  <2>2. CASE /\ CanMove(Key(a), "running", "succeeded", 0)
             /\ ijob' = Moved(Key(a), "succeeded")
             /\ IF a = Loop THEN Go(a, "claim") ELSE Done(a)
    <3>1. ireport[ijob[Key(a)].input] # "none"
      BY <1>2, <1>s, <1>a DEF AdoptReport, At, AgentIsSound, InputOf
    <3> QED
      BY <1>2, <1>a, <1>k, <2>2, <3>1, ImpactJobMoves DEF AdoptReport, CanMove, Status
  <2>3. CASE Done(a) /\ UNCHANGED ijob
    <3>1. /\ agent' \in [Agents -> AgentRows] /\ agent'[a].pc = "idle"
          /\ \A b \in Agents \ {a} : agent'[b] = agent[b]
      BY <1>t, <2>3, AgentRests
    <3>2. AgentIsSound(a)' /\ agent'[a].pc \notin PastLoad
      BY <3>1 DEF AgentIsSound, PastLoad
    <3> QED
      BY <1>2, <2>3, <3>1, <3>2, ImpactAgentMoves DEF AdoptReport
  <2> QED
    BY <1>2, <2>1, <2>2, <2>3 DEF AdoptReport
<1>3. CASE CreateOrGetStaging(a)
  <2>1. PICK p \in {"claim", "enqueue"} : Go(a, p)
    BY <1>3 DEF CreateOrGetStaging, Submitted
  <2>2. /\ agent' \in [Agents -> AgentRows]
        /\ agent'[a].pc = p /\ agent'[a].key = agent[a].key
        /\ \A b \in Agents \ {a} : agent'[b] = agent[b]
    BY <1>t, <2>1, AgentGoes DEF AgentSteps
  <2>3. staging' \in [ImpactInputs -> ImpactKeys \cup {NoKey}]
        /\ \A i \in ImpactInputs : staging[i] # NoKey => staging'[i] = staging[i]
    BY <1>3, <1>t, <1>k DEF CreateOrGetStaging, ImpactTypeOK
  <2>4. UNCHANGED <<ijob, ireport, handoff, iqueue, itodo>>
    BY <1>3 DEF CreateOrGetStaging
  <2>5. ImpactTypeOK'
    BY <1>t, <2>2, <2>3, <2>4 DEF ImpactTypeOK
  <2>6. RowsGoForward
    BY <1>t, <2>3, <2>4 DEF ImpactInv, ImpactTypeOK, WaitingExists, RowsGoForward
  <2>7. AgentIsSound(a)' /\ agent'[a].pc \notin PastLoad
    BY <1>k, <2>2, <2>4 DEF AgentIsSound, Key, InputOf, PastLoad
  <2> QED
    BY <2>2, <2>5, <2>6, <2>7, ImpactKept
<1>4. CASE Enqueue(a)
  <2>1. /\ agent' \in [Agents -> AgentRows] /\ agent'[a].pc = "idle"
        /\ \A b \in Agents \ {a} : agent'[b] = agent[b]
    BY <1>4, <1>t, AgentRests DEF Enqueue
  <2>2. UNCHANGED <<ijob, staging, ireport, handoff, itodo>>
    BY <1>4 DEF Enqueue
  <2>3. iqueue \in Seq(ImpactKeys) /\ \A n \in DOMAIN iqueue : iqueue[n] \in ImpactKeys /\ ijob[iqueue[n]].status # "none"
    BY <1>t DEF ImpactInv, WaitingExists, ImpactTypeOK
  <2>4. iqueue' \in Seq(ImpactKeys) /\ \A n \in DOMAIN iqueue' : iqueue'[n] \in ImpactKeys /\ ijob[iqueue'[n]].status # "none"
    BY <1>4, <1>k, <2>3 DEF Enqueue
  <2>5. ImpactTypeOK'
    BY <1>t, <2>1, <2>2, <2>4 DEF ImpactTypeOK
  <2>6. RowsGoForward
    BY <1>t, <2>2, <2>4 DEF ImpactInv, ImpactTypeOK, WaitingExists, RowsGoForward
  <2>7. AgentIsSound(a)' /\ agent'[a].pc \notin PastLoad
    BY <2>1 DEF AgentIsSound, PastLoad
  <2> QED
    BY <2>1, <2>5, <2>6, <2>7, ImpactKept
<1> QED
  BY <1>1, <1>2, <1>3, <1>4 DEF Submit

(* The worker, whoever runs it.                                            *)
LEMMA ImpactRuns ==
    ASSUME ImpactInv, NEW a \in Agents, Run(a)
    PROVE  ImpactInv' /\ ImpactForward
<1>t. ImpactTypeOK
  BY DEF ImpactInv
<1>s. AgentIsSound(a)
  BY DEF ImpactInv
<1>a. agent[a].pc # "idle"
  BY DEF Run, Begin, StartRun, Work, CheckImpactCancel, Retrieve, SealImpactSuccess, TerminalFailure, At
<1>k. Key(a) \in ImpactKeys /\ ijob[Key(a)].status # "none" /\ InputOf(a) \in ImpactInputs /\ ijob[Key(a)] \in ImpactRows
  BY <1>t, <1>s, <1>a DEF AgentIsSound, Key, InputOf, ImpactTypeOK, ImpactRows
<1>w. agent[a].pc \in PastLoad => Staged(a) \/ ireport[InputOf(a)] # "none"
  BY DEF ImpactInv, ImpactIsSealedWhole, PastLoad
<1>d. ASSUME Done(a), UNCHANGED <<ijob, staging, ireport, handoff, iqueue, itodo>>
      PROVE  ImpactInv' /\ ImpactForward
  <2>1. /\ agent' \in [Agents -> AgentRows] /\ agent'[a].pc = "idle"
        /\ \A b \in Agents \ {a} : agent'[b] = agent[b]
    BY <1>t, <1>d, AgentRests
  <2>2. AgentIsSound(a)' /\ agent'[a].pc \notin PastLoad
    BY <2>1 DEF AgentIsSound, PastLoad
  <2> QED
    BY <1>d, <2>1, <2>2, ImpactAgentMoves
<1>g. ASSUME NEW p \in AgentSteps, Go(a, p), UNCHANGED <<ijob, staging, ireport, handoff, iqueue, itodo>>,
             p # "adopt", p \in {"verify", "seal"} => agent[a].found \in Findings,
             p \in PastLoad => Staged(a) \/ ireport[InputOf(a)] # "none"
      PROVE  ImpactInv' /\ ImpactForward
  <2>1. /\ agent' \in [Agents -> AgentRows]
        /\ agent'[a].pc = p /\ agent'[a].key = agent[a].key /\ agent'[a].found = agent[a].found
        /\ \A b \in Agents \ {a} : agent'[b] = agent[b]
    BY <1>t, <1>g, AgentGoes
  <2>2. AgentIsSound(a)' /\ (agent'[a].pc \in PastLoad => (Staged(a) \/ ireport[InputOf(a)] # "none")')
    BY <1>g, <1>k, <2>1 DEF AgentIsSound, Key, InputOf, Staged
  <2> QED
    BY <1>g, <2>1, <2>2, ImpactAgentMoves
<1>1. CASE Begin(a)
  <2>1. CASE Terminal(ijob[Key(a)].status)
    BY <1>1, <1>d, <2>1 DEF Begin, Terminal
  <2>2. CASE ~Terminal(ijob[Key(a)].status) /\ ijob[Key(a)].status = "queued"
    <3>1. agent' = [agent EXCEPT ![a].pc = "start", ![a].gen = ijob[Key(a)].gen]
      BY <1>1, <2>2 DEF Begin
    <3>2. agent' = [agent EXCEPT ![a] = [[agent[a] EXCEPT !.pc = "start"] EXCEPT !.gen = ijob[Key(a)].gen]]
      BY <3>1, <1>t DEF ImpactTypeOK
    <3>3. [agent[a] EXCEPT !.pc = "start"] \in AgentRows
      BY <1>t DEF ImpactTypeOK, AgentRows, AgentSteps
    <3>g. ijob[Key(a)].gen \in {0, 1}
      BY <1>k DEF ImpactRows
    <3>4. [[agent[a] EXCEPT !.pc = "start"] EXCEPT !.gen = ijob[Key(a)].gen] \in AgentRows
      BY <3>3, <3>g DEF AgentRows
    <3>5. /\ agent' \in [Agents -> AgentRows]
          /\ agent'[a] = [[agent[a] EXCEPT !.pc = "start"] EXCEPT !.gen = ijob[Key(a)].gen]
          /\ \A b \in Agents \ {a} : agent'[b] = agent[b]
      BY <3>2, <3>4, <1>t DEF ImpactTypeOK
    <3>6. agent'[a].pc = "start" /\ agent'[a].key = agent[a].key
      BY <3>5, <1>t DEF ImpactTypeOK, AgentRows
    <3>7. AgentIsSound(a)' /\ agent'[a].pc \notin PastLoad
      BY <1>1, <1>k, <3>6 DEF Begin, AgentIsSound, Key, PastLoad
    <3> QED
      BY <1>1, <3>5, <3>7, ImpactAgentMoves DEF Begin
  <2>3. CASE ~Terminal(ijob[Key(a)].status) /\ ijob[Key(a)].status # "queued"
    BY <1>1, <1>g, <2>3 DEF Begin, AgentSteps, PastLoad
  <2> QED
    BY <2>1, <2>2, <2>3
<1>2. CASE StartRun(a)
  <2>1. CASE CanMove(Key(a), "queued", "running", agent[a].gen) /\ ijob' = Moved(Key(a), "running") /\ Go(a, "load")
    BY <1>2, <1>a, <1>k, <2>1, ImpactJobMoves DEF StartRun, CanMove, Status
  <2>2. CASE Done(a) /\ UNCHANGED ijob
    BY <1>2, <1>d, <2>2 DEF StartRun
  <2> QED
    BY <1>2, <2>1, <2>2 DEF StartRun
<1>3. ASSUME NEW pc \in AgentSteps, NEW next \in {"check1", "check2", "check3"}, Work(a, pc, next)
      PROVE  ImpactInv' /\ ImpactForward
  BY <1>3, <1>g DEF Work, AgentSteps, PastLoad
<1>4. ASSUME NEW pc \in PastLoad, NEW next \in {"diff", "traverse", "retrieve", "seal"},
             next = "seal" => pc = "verify", CheckImpactCancel(a, pc, next)
      PROVE  ImpactInv' /\ ImpactForward
  <2>1. CASE Go(a, next) /\ UNCHANGED ijob
    <3>1. next = "seal" => agent[a].found \in Findings
      BY <1>4, <1>a, <1>s DEF CheckImpactCancel, At, AgentIsSound
    <3> QED
      BY <1>4, <1>g, <1>w, <2>1, <3>1 DEF CheckImpactCancel, At, AgentSteps
  <2>2. CASE Done(a) /\ ijob' = ijob
    BY <1>4, <1>d, <2>2 DEF CheckImpactCancel
  <2>3. CASE Done(a) /\ ~Terminal(ijob[Key(a)].status) /\ ijob' = Moved(Key(a), "canceled")
    BY <1>4, <1>a, <1>k, <2>3, ImpactJobMoves DEF CheckImpactCancel, Terminal, Status
  <2> QED
    BY <1>4, <2>1, <2>2, <2>3 DEF CheckImpactCancel
<1>5. CASE Retrieve(a)
  <2>1. CASE Go(a, "fail")
    BY <1>5, <1>g, <2>1 DEF Retrieve, AgentSteps, PastLoad
  <2>2. CASE Staged(a) /\ \E f \in Findings : agent' = [agent EXCEPT ![a].pc = "verify", ![a].found = f]
    <3>1. PICK f \in Findings : agent' = [agent EXCEPT ![a].pc = "verify", ![a].found = f]
      BY <2>2
    <3>2. agent' = [agent EXCEPT ![a] = [[agent[a] EXCEPT !.pc = "verify"] EXCEPT !.found = f]]
      BY <3>1, <1>t DEF ImpactTypeOK
    <3>3. [agent[a] EXCEPT !.pc = "verify"] \in AgentRows
      BY <1>t DEF ImpactTypeOK, AgentRows, AgentSteps
    <3>4. [[agent[a] EXCEPT !.pc = "verify"] EXCEPT !.found = f] \in AgentRows
      BY <3>3 DEF AgentRows
    <3>5. /\ agent' \in [Agents -> AgentRows]
          /\ agent'[a] = [[agent[a] EXCEPT !.pc = "verify"] EXCEPT !.found = f]
          /\ \A b \in Agents \ {a} : agent'[b] = agent[b]
      BY <3>2, <3>4, <1>t DEF ImpactTypeOK
    <3>6. agent'[a].pc = "verify" /\ agent'[a].key = agent[a].key /\ agent'[a].found = f
      BY <3>5, <1>t DEF ImpactTypeOK, AgentRows
    <3>7. AgentIsSound(a)' /\ Staged(a)'
      BY <1>5, <1>k, <2>2, <3>6 DEF Retrieve, AgentIsSound, Key, InputOf, Staged
    <3> QED
      BY <1>5, <3>5, <3>7, ImpactAgentMoves DEF Retrieve
  <2> QED
    BY <1>5, <2>1, <2>2 DEF Retrieve
<1>6. CASE SealImpactSuccess(a)
  <2>1. CASE ~(Sealable(Key(a)) /\ Agrees(InputOf(a), agent[a].found))
    BY <1>6, <1>g, <2>1 DEF SealImpactSuccess, AgentSteps, PastLoad
  <2>2. CASE Sealable(Key(a)) /\ Agrees(InputOf(a), agent[a].found)
    <3>1. /\ ireport' = [ireport EXCEPT ![InputOf(a)] = agent[a].found]
          /\ ijob' = Moved(Key(a), "succeeded")
          /\ handoff' \in {handoff, "consumed"}
          /\ staging' = [staging EXCEPT ![InputOf(a)] = NoKey]
          /\ Done(a)
          /\ UNCHANGED <<iqueue, itodo>>
      BY <1>6, <2>2 DEF SealImpactSuccess
    <3>2. agent[a].found \in Findings
      BY <1>6, <1>s, <1>a DEF SealImpactSuccess, At, AgentIsSound
    <3>3. PICK k \in ImpactKeys : k = Key(a)
      BY <1>k
    <3>4. PICK i \in ImpactInputs : i = InputOf(a)
      BY <1>k
    <3>5. ijob[k].input = i /\ ijob[k].gen = 0 /\ ijob[k].status \in {"running", "interrupted"}
      BY <2>2, <3>3, <3>4 DEF Sealable, InputOf
    <3>6. /\ ireport' \in [ImpactInputs -> Findings \cup {"none"}]
          /\ ireport'[i] # "none"
          /\ \A j \in ImpactInputs : ireport[j] # "none" => ireport'[j] = ireport[j]
          /\ \A j \in ImpactInputs \ {i} : ireport'[j] = ireport[j]
      BY <1>t, <2>2, <3>1, <3>2, <3>4 DEF Agrees, ImpactTypeOK, Findings
    <3>7. /\ staging' \in [ImpactInputs -> ImpactKeys \cup {NoKey}]
          /\ \A j \in ImpactInputs \ {i} : staging'[j] = staging[j]
      BY <1>t, <3>1, <3>4 DEF ImpactTypeOK
    <3>8. /\ ijob' \in [ImpactKeys -> ImpactRows]
          /\ ijob'[k].status = "succeeded" /\ ijob'[k].gen = ijob[k].gen /\ ijob'[k].input = ijob[k].input
          /\ \A l \in ImpactKeys \ {k} : ijob'[l] = ijob[l]
      BY <1>t, <3>1, <3>3, ImpactMovedFields DEF Status
    <3>9. /\ agent' \in [Agents -> AgentRows] /\ agent'[a].pc = "idle"
          /\ \A b \in Agents \ {a} : agent'[b] = agent[b]
      BY <1>t, <3>1, AgentRests
    <3>10. ImpactTypeOK'
      BY <1>t, <3>1, <3>6, <3>7, <3>8, <3>9 DEF ImpactTypeOK
    <3>11. \A l \in ImpactKeys : l # k => ijob'[l] = ijob[l]
      BY <3>8
    <3>12. \A l \in ImpactKeys :
             /\ ijob[l].status # "none" => ijob'[l].status # "none" /\ ijob'[l].input = ijob[l].input
             /\ ijob[l].status = "succeeded" => ijob'[l] = ijob[l]
             /\ ijob'[l].status = "succeeded" /\ ijob[l].status # "succeeded" => l = k
      BY <3>5, <3>8, <3>11
    <3>13. \A n \in DOMAIN iqueue : iqueue[n] \in ImpactKeys /\ ijob[iqueue[n]].status # "none"
      BY <1>t DEF ImpactInv, WaitingExists, ImpactTypeOK
    <3>14. /\ \A l \in ImpactKeys : ijob'[l].status = "succeeded" /\ ijob[l].status # "succeeded" =>
                ijob'[l].gen = 0 /\ ijob'[l].input \in ImpactInputs /\ ireport'[ijob'[l].input] # "none"
           /\ \A j \in ImpactInputs :
                /\ staging[j] # NoKey => staging'[j] = staging[j] \/ ireport'[j] # "none"
                /\ ireport[j] = "none" /\ ireport'[j] # "none" =>
                      \E l \in ImpactKeys : ijob'[l].status = "succeeded" /\ ijob'[l].input = j
      BY <3>5, <3>6, <3>7, <3>8, <3>12
    <3>15. RowsGoForward
      BY <1>t, <3>1, <3>6, <3>12, <3>13, <3>14 DEF ImpactInv, WaitingExists, RowsGoForward, ImpactTypeOK
    <3>16. AgentIsSound(a)' /\ agent'[a].pc \notin PastLoad
      BY <3>9 DEF AgentIsSound, PastLoad
    <3> QED
      BY <3>9, <3>10, <3>15, <3>16, ImpactKept
  <2> QED
    BY <2>1, <2>2
<1>7. CASE TerminalFailure(a)
  <2>1. PICK next \in {"failed", "interrupted"} :
           ijob' = IF CanTransitionTo(ijob[Key(a)].status, next) THEN Moved(Key(a), next) ELSE ijob
    BY <1>7 DEF TerminalFailure
  <2>2. CASE ijob' = ijob
    BY <1>7, <1>d, <2>2 DEF TerminalFailure
  <2>3. CASE CanTransitionTo(ijob[Key(a)].status, next) /\ ijob' = Moved(Key(a), next)
    BY <1>7, <1>a, <1>k, <2>3, ImpactJobMoves DEF TerminalFailure, CanTransitionTo, Status
  <2> QED
    BY <2>1, <2>2, <2>3
<1> QED
  BY <1>1, <1>2, <1>3, <1>4, <1>5, <1>6, <1>7 DEF Run, AgentSteps, PastLoad

(* Every step of the submissions, the loop, the recovery goroutine and the *)
(* restart keeps the invariant and goes forward.                           *)
LEMMA ImpactStepInductive == ImpactInv /\ [ImpactNext]_impactVars => ImpactInv' /\ ImpactForward
<1> SUFFICES ASSUME ImpactInv, [ImpactNext]_impactVars PROVE ImpactInv' /\ ImpactForward
  OBVIOUS
<1>t. ImpactTypeOK
  BY DEF ImpactInv
<1>g. Loop \in Agents /\ Recovery \in Agents /\ \A c \in ImpactClients : c \in Agents
  BY DEF Agents
<1>n. \A n \in DOMAIN iqueue : iqueue[n] \in ImpactKeys /\ ijob[iqueue[n]].status # "none"
  BY <1>t DEF ImpactInv, WaitingExists, ImpactTypeOK
<1>1. CASE UNCHANGED impactVars
  <2>1. AgentIsSound(Loop)' /\ (agent'[Loop].pc \in PastLoad => (Staged(Loop) \/ ireport[InputOf(Loop)] # "none")')
    BY <1>1, <1>g DEF impactVars, ImpactInv, ImpactIsSealedWhole, AgentIsSound, Staged, Key, InputOf, PastLoad
  <2> QED
    BY <1>1, <1>t, <1>g, <2>1, ImpactAgentMoves DEF impactVars, ImpactTypeOK
<1>2. ASSUME NEW c \in ImpactClients, Request(c) PROVE ImpactInv' /\ ImpactForward
  BY <1>2, <1>g, ImpactJobCreates DEF Request
<1>3. ASSUME NEW a \in Agents, Submit(a) PROVE ImpactInv' /\ ImpactForward
  BY <1>3, ImpactSubmits
<1>4. ASSUME NEW a \in Agents, Run(a) PROVE ImpactInv' /\ ImpactForward
  BY <1>4, ImpactRuns
<1>5. CASE DispatchWaits
  <2>1. UNCHANGED <<ijob, staging, ireport, iqueue, agent, itodo>> /\ handoff' \in {"waiting", "failed"}
    BY <1>5 DEF DispatchWaits
  <2>2. ImpactTypeOK'
    BY <1>t, <2>1 DEF ImpactTypeOK
  <2>3. RowsGoForward
    BY <1>t, <1>n, <2>1 DEF ImpactInv, ImpactTypeOK, WaitingExists, RowsGoForward
  <2>4. agent'[Loop].pc = "idle"
    BY <1>5, <2>1 DEF DispatchWaits, At
  <2>5. AgentIsSound(Loop)' /\ agent'[Loop].pc \notin PastLoad
    BY <2>4 DEF AgentIsSound, PastLoad
  <2> QED
    BY <1>g, <2>1, <2>2, <2>3, <2>5, ImpactKept
<1>6. CASE Dispatch
  <2>1. CASE CreateOrGetJob(Loop, AutoKey, AutoInput)
    BY <1>6, <1>g, <2>1, ImpactJobCreates DEF Dispatch
  <2>2. CASE /\ ijob[AutoKey].status # "none"
             /\ agent' = [agent EXCEPT ![Loop] = [Idle EXCEPT !.pc = "claim", !.key = AutoKey]]
             /\ UNCHANGED ijob
    <3>1. /\ agent' \in [Agents -> AgentRows]
          /\ agent'[Loop].pc = "claim" /\ agent'[Loop].key = AutoKey
          /\ \A b \in Agents \ {Loop} : agent'[b] = agent[b]
      BY <1>t, <1>g, <2>2, AgentTakes DEF AgentSteps
    <3>2. AgentIsSound(Loop)' /\ agent'[Loop].pc \notin PastLoad
      BY <2>2, <3>1 DEF AgentIsSound, Key, PastLoad
    <3> QED
      BY <1>6, <1>g, <2>2, <3>1, <3>2, ImpactAgentMoves DEF Dispatch
  <2> QED
    BY <1>6, <2>1, <2>2 DEF Dispatch
<1>7. CASE Claim
  <2>1. UNCHANGED <<ijob, staging, ireport, iqueue, itodo>> /\ handoff' = "claimed" /\ agent[Loop].pc = "claim"
    BY <1>7 DEF Claim, At
  <2>2. /\ agent' \in [Agents -> AgentRows]
        /\ \/ agent'[Loop].pc = "idle"
           \/ agent'[Loop].pc = "enqueue" /\ agent'[Loop].key = agent[Loop].key
        /\ \A b \in Agents \ {Loop} : agent'[b] = agent[b]
    BY <1>7, <1>t, <1>g, AgentGoes, AgentRests DEF Claim, AgentSteps
  <2>3. ImpactTypeOK'
    BY <1>t, <2>1, <2>2 DEF ImpactTypeOK
  <2>4. RowsGoForward
    BY <1>t, <1>n, <2>1 DEF ImpactInv, ImpactTypeOK, WaitingExists, RowsGoForward
  <2>5. AgentIsSound(Loop)
    BY <1>g DEF ImpactInv
  <2>6. AgentIsSound(Loop)' /\ agent'[Loop].pc \notin PastLoad
    BY <2>1, <2>2, <2>5 DEF AgentIsSound, Key, InputOf, PastLoad
  <2> QED
    BY <1>g, <2>2, <2>3, <2>4, <2>6, ImpactKept
<1>8. CASE Take
  <2>1. UNCHANGED <<ijob, staging, ireport, handoff, itodo>> /\ iqueue # <<>> /\ iqueue' = Tail(iqueue)
    BY <1>8 DEF Take
  <2>2. iqueue \in Seq(ImpactKeys)
    BY <1>t DEF ImpactTypeOK
  <2>3. /\ Head(iqueue) \in ImpactKeys /\ ijob[Head(iqueue)].status # "none"
        /\ Tail(iqueue) \in Seq(ImpactKeys)
        /\ \A n \in DOMAIN Tail(iqueue) : Tail(iqueue)[n] \in ImpactKeys /\ ijob[Tail(iqueue)[n]].status # "none"
    BY <1>n, <2>1, <2>2
  <2>4. /\ agent' \in [Agents -> AgentRows]
        /\ agent'[Loop].pc = "begin" /\ agent'[Loop].key = Head(iqueue)
        /\ \A b \in Agents \ {Loop} : agent'[b] = agent[b]
    BY <1>8, <1>t, <1>g, <2>3, AgentTakes DEF Take, AgentSteps
  <2>5. ImpactTypeOK'
    BY <1>t, <2>1, <2>3, <2>4 DEF ImpactTypeOK
  <2>6. RowsGoForward
    BY <1>t, <2>1, <2>3 DEF ImpactInv, ImpactTypeOK, WaitingExists, RowsGoForward
  <2>7. AgentIsSound(Loop)' /\ agent'[Loop].pc \notin PastLoad
    BY <2>1, <2>3, <2>4 DEF AgentIsSound, Key, PastLoad
  <2> QED
    BY <1>g, <2>4, <2>5, <2>6, <2>7, ImpactKept
<1>9. CASE RecoverNext
  <2>1. PICK k \in itodo : /\ itodo' = itodo \ {k}
                           /\ agent' = [agent EXCEPT ![Recovery] = [Idle EXCEPT !.pc = "begin", !.key = k]]
    BY <1>9 DEF RecoverNext
  <2>2. UNCHANGED <<ijob, staging, ireport, handoff, iqueue>>
    BY <1>9 DEF RecoverNext
  <2>3. k \in ImpactKeys /\ ijob[k].status # "none"
    BY <1>t DEF ImpactTypeOK, ImpactInv, WaitingExists
  <2>4. /\ agent' \in [Agents -> AgentRows]
        /\ agent'[Recovery].pc = "begin" /\ agent'[Recovery].key = k
        /\ \A b \in Agents \ {Recovery} : agent'[b] = agent[b]
    BY <1>t, <1>g, <2>1, <2>3, AgentTakes DEF AgentSteps
  <2>5. ImpactTypeOK'
    BY <1>t, <2>1, <2>2, <2>4 DEF ImpactTypeOK
  <2>6. RowsGoForward
    BY <1>t, <1>n, <2>1, <2>2 DEF ImpactInv, ImpactTypeOK, WaitingExists, RowsGoForward
  <2>7. AgentIsSound(Recovery)' /\ agent'[Recovery].pc \notin PastLoad
    BY <2>2, <2>3, <2>4 DEF AgentIsSound, Key, PastLoad
  <2> QED
    BY <1>g, <2>4, <2>5, <2>6, <2>7, ImpactKept
<1>10. ASSUME NEW k \in ImpactKeys, RequestImpactCancellation(k) PROVE ImpactInv' /\ ImpactForward
  <2>1. UNCHANGED <<staging, ireport, handoff, iqueue, agent, itodo>> /\ Recoverable(ijob[k].status)
    BY <1>10 DEF RequestImpactCancellation
  <2>2. ijob' = [ijob EXCEPT ![k] = [ijob[k] EXCEPT !.gen = 1]]
    BY <1>10, <1>t DEF RequestImpactCancellation, ImpactTypeOK
  <2>r. ijob[k] \in ImpactRows /\ 1 \in {0, 1}
    BY <1>t DEF ImpactTypeOK
  <2>3. [ijob[k] EXCEPT !.gen = 1] \in ImpactRows
    BY <2>r DEF ImpactRows
  <2>4. /\ ijob' \in [ImpactKeys -> ImpactRows]
        /\ ijob'[k].status = ijob[k].status /\ ijob'[k].input = ijob[k].input
        /\ \A l \in ImpactKeys \ {k} : ijob'[l] = ijob[l]
    BY <1>t, <2>2, <2>3 DEF ImpactTypeOK, ImpactRows
  <2>5. ImpactTypeOK'
    BY <1>t, <2>1, <2>4 DEF ImpactTypeOK
  <2>6. \A l \in ImpactKeys : /\ ijob'[l].status = ijob[l].status /\ ijob'[l].input = ijob[l].input
                              /\ ijob[l].status = "succeeded" => ijob'[l] = ijob[l]
    BY <2>1, <2>4 DEF Recoverable
  <2>7. RowsGoForward
    BY <1>t, <1>n, <2>1, <2>6 DEF ImpactInv, ImpactTypeOK, WaitingExists, RowsGoForward
  <2>8. AgentIsSound(Loop) /\ (agent[Loop].pc \in PastLoad => Staged(Loop) \/ ireport[InputOf(Loop)] # "none")
    BY <1>g DEF ImpactInv, ImpactIsSealedWhole, PastLoad
  <2>9. agent[Loop].pc # "idle" => agent[Loop].key \in ImpactKeys
    BY <2>8 DEF AgentIsSound, Key
  <2>10. AgentIsSound(Loop)' /\ (agent'[Loop].pc \in PastLoad => (Staged(Loop) \/ ireport[InputOf(Loop)] # "none")')
    BY <2>1, <2>6, <2>8, <2>9 DEF AgentIsSound, Staged, Key, InputOf, PastLoad
  <2> QED
    BY <1>g, <2>1, <2>5, <2>7, <2>10, ImpactKept
<1>11. CASE ImpactRestart
  <2>1. /\ UNCHANGED <<ijob, staging, ireport, handoff>>
        /\ agent' = [a \in Agents |-> Idle] /\ iqueue' = <<>>
        /\ itodo' = {k \in ImpactKeys : Recoverable(ijob[k].status)}
    BY <1>11 DEF ImpactRestart
  <2>2. agent' \in [Agents -> AgentRows] /\ \A b \in Agents : agent'[b].pc = "idle"
    BY <2>1 DEF Idle, AgentRows, AgentSteps
  <2>3. ImpactTypeOK'
    BY <1>t, <2>1, <2>2 DEF ImpactTypeOK
  <2>4. RowsGoForward
    BY <1>t, <2>1 DEF ImpactInv, ImpactTypeOK, RowsGoForward, Recoverable
  <2>5. AgentIsSound(Loop)' /\ agent'[Loop].pc \notin PastLoad
    BY <1>g, <2>2 DEF AgentIsSound, PastLoad
  <2> QED
    BY <1>g, <2>2, <2>3, <2>4, <2>5, ImpactKept
<1> QED
  BY <1>1, <1>2, <1>3, <1>4, <1>5, <1>6, <1>7, <1>8, <1>9, <1>10, <1>11, <1>g DEF ImpactNext

(* It holds when the project has no impact Job yet.                        *)
LEMMA ImpactInitInv == ImpactInit => ImpactInv
<1> SUFFICES ASSUME ImpactInit PROVE ImpactInv
  OBVIOUS
<1>1. NoJob \in ImpactRows /\ Idle \in AgentRows
  BY DEF NoJob, ImpactRows, Status, Idle, AgentRows, AgentSteps
<1>2. ImpactTypeOK
  BY <1>1 DEF ImpactInit, ImpactTypeOK
<1>3. \A a \in Agents : agent[a].pc = "idle"
  BY DEF ImpactInit, Idle
<1>4. \A k \in ImpactKeys : ijob[k].status = "none"
  BY DEF ImpactInit, NoJob
<1> QED
  BY <1>2, <1>3, <1>4 DEF ImpactInit, ImpactInv, AgentIsSound, WaitingExists, ImpactIsSealedWhole

(* The inductive invariant of the impact Jobs holds in every behaviour of  *)
(* submissions, handoffs, the loop, the recovery goroutine and restarts.   *)
THEOREM ImpactInvariant == ImpactSpec => []ImpactInv
<1> QED
  BY ImpactInitInv, ImpactStepInductive, PTL DEF ImpactSpec

(* A succeeded impact Job was never canceled and has the report of its     *)
(* input, a report has a Job it succeeded with, a consumed handoff has a   *)
(* report, and work past LoadStaging is staged or reported: for any number *)
(* of keys, inputs, clients and restarts (SealImpactSuccess, Submit).      *)
THEOREM ImpactIsSealedWholeHolds == ImpactSpec => []ImpactIsSealedWhole
BY ImpactInvariant, PTL DEF ImpactInv

(***************************************************************************)
(* Simulation runs.                                                        *)
(***************************************************************************)
SimSpec == SimInit /\ [][SimNext]_simVars

DriverSteps == {"idle", "capture", "samples", "save", "stop", "recover"}
SimRows == [status : Status \cup {"none"}, gen : {0, 1}, input : SimInputs \cup {NoSim}, since : Nat]
Captures == [input : SimInputs \cup {NoSim}, fp : Implementations]
Checkpoints == [fp : Implementations, by : Implementations]
SampleSets == [Ordinals -> Implementations]
RunRows == [samples : SampleSets \cup {NoSim}, verifies : SimJobs \cup {NoSim},
            verdict : {"none", "verified", "mismatch"}]

(* The variables the evidence rests on have their types.                   *)
SimTypeOK ==
    /\ sjob \in [SimJobs -> SimRows]
    /\ captured \in [SimJobs -> Captures \cup {NoSim}]
    /\ checkpoint \in [SimJobs -> [Ordinals -> Checkpoints \cup {NoSim}]]
    /\ srun \in [SimJobs -> RunRows]
    /\ installed \in Implementations
    /\ driver = [pc |-> driver.pc, job |-> driver.job, failed |-> driver.failed]
    /\ driver.pc \in DriverSteps
    /\ sresults \in [Ordinals -> {NoSim, installed}]
    /\ srestarts \in Nat

(* A checkpoint holds what its own implementation computed.                *)
CheckpointIsOwn == \A j \in SimJobs : \A o \in Ordinals :
    checkpoint[j][o] # NoSim => checkpoint[j][o].by = checkpoint[j][o].fp

(* What this process has captured, it captured with what is installed, and *)
(* only for Jobs that exist.                                               *)
CaptureIsCurrent == \A j \in SimJobs :
    /\ sjob[j].since <= srestarts
    /\ captured[j] # NoSim /\ sjob[j].since = srestarts => captured[j].fp = installed
    /\ sjob[j].status = "none" => captured[j] = NoSim

(* A Job being captured is queued; one whose samples run or are stored was *)
(* captured with the installed implementation.                             *)
DriverIsBound == \A j \in SimJobs : driver.job = j =>
    /\ driver.pc = "capture" => sjob[j].status = "queued"
    /\ driver.pc \in {"samples", "save", "recover"} => captured[j] # NoSim /\ captured[j].fp = installed

(* The run a Job is to verify is another one, and sealed.                  *)
SourceIsSealed == \A j \in SimJobs :
    srun[j].verifies # NoSim => srun[j].verifies # j /\ srun[srun[j].verifies].samples # NoSim

(* The inductive invariant of the simulation Jobs.                         *)
SimInv ==
    /\ SimTypeOK
    /\ CheckpointIsOwn
    /\ CaptureIsCurrent
    /\ DriverIsBound
    /\ SourceIsSealed
    /\ SealedRunIsCaptured

(* What every step keeps: a sealed run.                                    *)
SimForward == \A j \in SimJobs : srun[j].samples # NoSim => srun'[j] = srun[j]

USE SimAssumption

LEMMA SimMovedFields ==
    ASSUME SimTypeOK, NEW j, NEW to \in Status, sjob' = SimMoved(j, to)
    PROVE  /\ sjob' \in [SimJobs -> SimRows]
           /\ \A l \in SimJobs :
                 /\ sjob'[l].gen = sjob[l].gen /\ sjob'[l].input = sjob[l].input /\ sjob'[l].since = sjob[l].since
                 /\ sjob'[l].status = IF l = j THEN to ELSE sjob[l].status
<1>1. CASE j \in SimJobs
  <2>1. sjob[j] \in SimRows
    BY <1>1 DEF SimTypeOK
  <2>2. [sjob[j] EXCEPT !.status = to] \in SimRows
    BY <2>1 DEF SimRows
  <2>3. sjob' = [sjob EXCEPT ![j] = [sjob[j] EXCEPT !.status = to]]
    BY <1>1 DEF SimTypeOK, SimMoved
  <2>4. sjob'[j] = [sjob[j] EXCEPT !.status = to] /\ \A l \in SimJobs : l # j => sjob'[l] = sjob[l]
    BY <1>1, <2>3 DEF SimTypeOK
  <2>5. /\ sjob'[j].gen = sjob[j].gen /\ sjob'[j].input = sjob[j].input /\ sjob'[j].since = sjob[j].since
        /\ sjob'[j].status = to
    BY <2>1, <2>4 DEF SimRows
  <2>6. sjob' \in [SimJobs -> SimRows]
    BY <1>1, <2>2, <2>3 DEF SimTypeOK
  <2> QED
    BY <2>4, <2>5, <2>6
<1>2. CASE j \notin SimJobs
  <2>1. sjob' = sjob
    BY <1>2 DEF SimTypeOK, SimMoved
  <2> QED
    BY <1>2, <2>1 DEF SimTypeOK
<1> QED
  BY <1>1, <1>2

(* A step that seals, captures and installs nothing.                       *)
LEMMA SimKept ==
    ASSUME SimInv, UNCHANGED <<captured, srun, installed, srestarts>>,
           \A l \in SimJobs :
              /\ sjob'[l].since = sjob[l].since
              /\ sjob'[l].status = "succeeded" <=> sjob[l].status = "succeeded"
              /\ sjob[l].status = "succeeded" => sjob'[l].gen = sjob[l].gen
              /\ sjob'[l].status = "none" => sjob[l].status = "none"
    PROVE  SealedRunIsCaptured' /\ SourceIsSealed' /\ CaptureIsCurrent' /\ SimForward
<1>1. SealedRunIsCaptured'
  <2> SUFFICES ASSUME NEW j \in SimJobs
               PROVE  /\ sjob'[j].status = "succeeded" <=> srun[j].samples # NoSim
                      /\ srun[j].samples # NoSim =>
                            /\ sjob'[j].gen = 0
                            /\ srun[j].samples = [o \in Ordinals |-> captured[j].fp]
                            /\ srun[j].verifies # NoSim => srun[j].verdict = "verified"
    BY DEF SealedRunIsCaptured
  <2>1. /\ sjob[j].status = "succeeded" <=> srun[j].samples # NoSim
        /\ srun[j].samples # NoSim =>
              /\ sjob[j].gen = 0
              /\ srun[j].samples = [o \in Ordinals |-> captured[j].fp]
              /\ srun[j].verifies # NoSim => srun[j].verdict = "verified"
    BY DEF SimInv, SealedRunIsCaptured
  <2> QED
    BY <2>1
<1>2. SourceIsSealed'
  BY DEF SimInv, SourceIsSealed
<1>3. CaptureIsCurrent'
  BY DEF SimInv, CaptureIsCurrent
<1> QED
  BY <1>1, <1>2, <1>3 DEF SimForward

(* A step of the driver that leaves the Jobs' identity alone: it may move  *)
(* one open Job to a status other than succeeded.                          *)
LEMMA SimJobMoves ==
    ASSUME SimInv, NEW j, NEW to \in Status \ {"succeeded"}, sjob' = SimMoved(j, to),
           \A l \in SimJobs : l = j => sjob[l].status # "succeeded",
           UNCHANGED <<captured, srun, installed, srestarts>>
    PROVE  /\ sjob' \in [SimJobs -> SimRows]
           /\ SealedRunIsCaptured' /\ SourceIsSealed' /\ CaptureIsCurrent' /\ SimForward
<1>1. SimTypeOK
  BY DEF SimInv
<1>2. /\ sjob' \in [SimJobs -> SimRows]
      /\ \A l \in SimJobs :
            /\ sjob'[l].gen = sjob[l].gen /\ sjob'[l].input = sjob[l].input /\ sjob'[l].since = sjob[l].since
            /\ sjob'[l].status = IF l = j THEN to ELSE sjob[l].status
  BY <1>1, SimMovedFields
<1>3. \A l \in SimJobs :
         /\ sjob'[l].since = sjob[l].since
         /\ sjob'[l].status = "succeeded" <=> sjob[l].status = "succeeded"
         /\ sjob[l].status = "succeeded" => sjob'[l].gen = sjob[l].gen
         /\ sjob'[l].status = "none" => sjob[l].status = "none"
  BY <1>2 DEF Status
<1> QED
  BY <1>2, <1>3, SimKept

(* The outcomes a stopped or refused Job may get.                          *)
LEMMA SimJobEnds ==
    ASSUME SimInv, NEW j, sjob' \in {Failed(j), Converged(j), sjob},
           UNCHANGED <<captured, srun, installed, srestarts>>
    PROVE  /\ sjob' \in [SimJobs -> SimRows]
           /\ SealedRunIsCaptured' /\ SourceIsSealed' /\ CaptureIsCurrent' /\ SimForward
<1>1. CASE sjob' = sjob
  <2>1. \A l \in SimJobs :
         /\ sjob'[l].since = sjob[l].since
         /\ sjob'[l].status = "succeeded" <=> sjob[l].status = "succeeded"
         /\ sjob[l].status = "succeeded" => sjob'[l].gen = sjob[l].gen
         /\ sjob'[l].status = "none" => sjob[l].status = "none"
    BY <1>1
  <2>2. sjob' \in [SimJobs -> SimRows]
    BY <1>1 DEF SimInv, SimTypeOK
  <2> QED
    BY <2>1, <2>2, SimKept
<1>2. CASE sjob' # sjob
  <2>1. PICK to \in {"failed", "canceled"} : sjob' = SimMoved(j, to) /\ Open(j)
    BY <1>2 DEF Failed, Converged
  <2>2. \A l \in SimJobs : l = j => sjob[l].status # "succeeded"
    BY <2>1 DEF Open, Recoverable
  <2> QED
    BY <2>1, <2>2, SimJobMoves DEF Status
<1> QED
  BY <1>1, <1>2

(* A checkpoint stored for a Job captured with the installed               *)
(* implementation, computed by it.                                         *)
LEMMA SimStores ==
    ASSUME SimTypeOK, CheckpointIsOwn, NEW j, NEW o, NEW by,
           checkpoint' = Stored(j, o, by), j \in SimJobs => by = installed /\ captured[j] # NoSim /\ captured[j].fp = by
    PROVE  checkpoint' \in [SimJobs -> [Ordinals -> Checkpoints \cup {NoSim}]] /\ CheckpointIsOwn'
<1>1. CASE checkpoint' = checkpoint
  BY <1>1 DEF SimTypeOK, CheckpointIsOwn
<1>2. CASE checkpoint' = [checkpoint EXCEPT ![j][o] = [fp |-> captured[j].fp, by |-> by]]
  <2>1. CASE j \notin SimJobs
    <3>1. checkpoint' = checkpoint
      BY <1>2, <2>1 DEF SimTypeOK
    <3> QED
      BY <3>1 DEF SimTypeOK, CheckpointIsOwn
  <2>2. CASE j \in SimJobs
    <3>0. by \in Implementations /\ captured[j].fp = by
      BY <2>2 DEF SimTypeOK
    <3>a. [fp |-> captured[j].fp, by |-> by] \in Checkpoints
      BY <3>0 DEF Checkpoints
    <3>1. PICK c \in Checkpoints : c = [fp |-> captured[j].fp, by |-> by] /\ c.fp = c.by
      BY <3>0, <3>a
    <3>2. checkpoint' = [checkpoint EXCEPT ![j] = [checkpoint[j] EXCEPT ![o] = c]]
      BY <1>2, <2>2, <3>1 DEF SimTypeOK
    <3>3. checkpoint[j] \in [Ordinals -> Checkpoints \cup {NoSim}]
      BY <2>2 DEF SimTypeOK
    <3>b. [checkpoint[j] EXCEPT ![o] = c] \in [Ordinals -> Checkpoints \cup {NoSim}]
      BY <3>3
    <3>4. checkpoint' \in [SimJobs -> [Ordinals -> Checkpoints \cup {NoSim}]]
      BY <2>2, <3>2, <3>b DEF SimTypeOK
    <3>5. \A l \in SimJobs, p \in Ordinals : checkpoint'[l][p] = IF l = j /\ p = o THEN c ELSE checkpoint[l][p]
      BY <2>2, <3>2, <3>3 DEF SimTypeOK
    <3>6. CheckpointIsOwn'
      BY <3>1, <3>5 DEF CheckpointIsOwn
    <3> QED
      BY <3>4, <3>6
  <2> QED
    BY <2>1, <2>2
<1> QED
  BY <1>1, <1>2 DEF Stored

(* Admission and capture.                                                  *)
LEMMA SimCreates ==
    ASSUME SimInv, NEW j \in SimJobs, CreateSimulationJob(j)
    PROVE  SimInv' /\ SimForward
<1>t. SimTypeOK
  BY DEF SimInv
<1>1. PICK i \in SimInputs, source \in (SimJobs \ {j}) \cup {NoSim} :
         /\ Verifiable(source, i)
         /\ sjob' = [sjob EXCEPT ![j] = [NoSimJob EXCEPT !.status = "queued", !.input = i, !.since = srestarts]]
         /\ srun' = [srun EXCEPT ![j].verifies = source]
  BY DEF CreateSimulationJob
<1>2. [NoSimJob EXCEPT !.status = "queued", !.input = i, !.since = srestarts]
         = [[[NoSimJob EXCEPT !.status = "queued"] EXCEPT !.input = i] EXCEPT !.since = srestarts]
  OBVIOUS
<1>3. PICK r \in SimRows :
         /\ r = [NoSimJob EXCEPT !.status = "queued", !.input = i, !.since = srestarts]
         /\ r.status = "queued" /\ r.gen = 0 /\ r.since = srestarts
  <2>1. PICK p \in SimRows : p = [NoSimJob EXCEPT !.status = "queued"] /\ p.status = "queued" /\ p.gen = 0
    <3>1. NoSimJob \in SimRows /\ NoSimJob.gen = 0 /\ "queued" \in Status
      BY DEF NoSimJob, SimRows, Status
    <3>2. [NoSimJob EXCEPT !.status = "queued"] \in SimRows
      BY <3>1 DEF SimRows
    <3> QED
      BY <3>1, <3>2 DEF SimRows
  <2>2. PICK q \in SimRows : q = [p EXCEPT !.input = i] /\ q.status = "queued" /\ q.gen = 0
    <3>1. [p EXCEPT !.input = i] \in SimRows
      BY DEF SimRows
    <3> QED
      BY <2>1, <3>1 DEF SimRows
  <2>3. [q EXCEPT !.since = srestarts] \in SimRows
    BY <1>t DEF SimRows, SimTypeOK
  <2>4. /\ [q EXCEPT !.since = srestarts].status = "queued" /\ [q EXCEPT !.since = srestarts].gen = 0
        /\ [q EXCEPT !.since = srestarts].since = srestarts
    BY <2>2 DEF SimRows
  <2> QED
    BY <1>2, <2>1, <2>2, <2>3, <2>4
<1>4. /\ sjob' \in [SimJobs -> SimRows]
      /\ sjob'[j].status = "queued" /\ sjob'[j].gen = 0 /\ sjob'[j].since = srestarts
      /\ \A l \in SimJobs : l # j => sjob'[l] = sjob[l]
  BY <1>t, <1>1, <1>3 DEF SimTypeOK
<1>5. srun[j] \in RunRows /\ sjob[j].status = "none"
  BY <1>t DEF SimTypeOK, CreateSimulationJob
<1>6. [srun[j] EXCEPT !.verifies = source] \in RunRows
  BY <1>5 DEF RunRows
<1>7. srun' = [srun EXCEPT ![j] = [srun[j] EXCEPT !.verifies = source]]
  BY <1>t, <1>1 DEF SimTypeOK
<1>8. /\ srun' \in [SimJobs -> RunRows]
      /\ srun'[j] = [srun[j] EXCEPT !.verifies = source]
      /\ \A l \in SimJobs : l # j => srun'[l] = srun[l]
  BY <1>t, <1>6, <1>7 DEF SimTypeOK
<1>9. srun'[j].verifies = source /\ srun'[j].samples = srun[j].samples
  BY <1>5, <1>8 DEF RunRows
<1>10. srun[j].samples = NoSim
  BY <1>5 DEF SimInv, SealedRunIsCaptured
<1>11. /\ UNCHANGED <<captured, checkpoint, installed, sresults, srestarts>>
       /\ driver' = [IdleDriver EXCEPT !.pc = "capture", !.job = j]
  BY DEF CreateSimulationJob
<1>12. driver' = [pc |-> "capture", job |-> j, failed |-> FALSE]
  BY <1>11 DEF IdleDriver
<1>13. driver'.pc = "capture" /\ driver'.job = j /\ driver'.failed = FALSE
  BY <1>12
<1>14. SimTypeOK'
  BY <1>t, <1>4, <1>8, <1>11, <1>12, <1>13 DEF SimTypeOK, DriverSteps
<1>15. CheckpointIsOwn'
  BY <1>11 DEF SimInv, CheckpointIsOwn
<1>16. captured[j] = NoSim
  BY <1>5 DEF SimInv, CaptureIsCurrent
<1>17. CaptureIsCurrent'
  BY <1>t, <1>4, <1>11, <1>16 DEF SimInv, SimTypeOK, CaptureIsCurrent
<1>18. DriverIsBound'
  BY <1>4, <1>13 DEF DriverIsBound
<1>19. SourceIsSealed'
  <2> SUFFICES ASSUME NEW l \in SimJobs, srun'[l].verifies # NoSim
               PROVE  srun'[l].verifies # l /\ srun'[srun'[l].verifies].samples # NoSim
    BY DEF SourceIsSealed
  <2>1. CASE l = j
    BY <1>1, <1>8, <1>9, <2>1 DEF Verifiable
  <2>2. CASE l # j
    <3>1. srun[l].verifies # l /\ srun[srun[l].verifies].samples # NoSim /\ srun[l].verifies \in SimJobs
      BY <1>t, <1>8, <2>2 DEF SimInv, SourceIsSealed, SimTypeOK, RunRows
    <3> QED
      BY <1>8, <1>10, <2>2, <3>1
  <2> QED
    BY <2>1, <2>2
<1>20. SealedRunIsCaptured'
  <2> SUFFICES ASSUME NEW l \in SimJobs
               PROVE  /\ sjob'[l].status = "succeeded" <=> srun'[l].samples # NoSim
                      /\ srun'[l].samples # NoSim =>
                            /\ sjob'[l].gen = 0
                            /\ srun'[l].samples = [o \in Ordinals |-> captured[l].fp]
                            /\ srun'[l].verifies # NoSim => srun'[l].verdict = "verified"
    BY <1>11 DEF SealedRunIsCaptured
  <2>1. CASE l = j
    BY <1>4, <1>9, <1>10, <2>1
  <2>2. CASE l # j
    <3>1. sjob'[l] = sjob[l] /\ srun'[l] = srun[l]
      BY <1>4, <1>8, <2>2
    <3>2. /\ sjob[l].status = "succeeded" <=> srun[l].samples # NoSim
          /\ srun[l].samples # NoSim =>
                /\ sjob[l].gen = 0
                /\ srun[l].samples = [o \in Ordinals |-> captured[l].fp]
                /\ srun[l].verifies # NoSim => srun[l].verdict = "verified"
      BY DEF SimInv, SealedRunIsCaptured
    <3> QED
      BY <3>1, <3>2
  <2> QED
    BY <2>1, <2>2
<1>21. SimForward
  BY <1>8, <1>10 DEF SimForward
<1> QED
  BY <1>14, <1>15, <1>17, <1>18, <1>19, <1>20, <1>21 DEF SimInv

(* The seal: complete checkpoints of the Job's own identity become its     *)
(* run, and one that verifies another run has that run's samples.          *)
LEMMA SimSeals ==
    ASSUME SimInv, SealSimulationRun
    PROVE  SimInv' /\ SimForward
<1>t. SimTypeOK
  BY DEF SimInv
<1>u. UNCHANGED <<captured, checkpoint, installed, sresults, srestarts>> /\ driver.pc = "save"
  BY DEF SealSimulationRun, Driving
<1>o. CheckpointIsOwn'
  BY <1>u DEF SimInv, CheckpointIsOwn
<1> DEFINE Seals == /\ sjob[driver.job].status = "running" /\ sjob[driver.job].gen = 0
                    /\ CheckpointsComplete(driver.job) /\ SourceMatches(driver.job)
<1>1. CASE ~Seals
  <2>1. Drive("stop") /\ UNCHANGED <<srun, sjob>>
    BY <1>1 DEF SealSimulationRun
  <2>2. driver' = [driver EXCEPT !.pc = "stop"]
    BY <2>1 DEF Drive
  <2>3. driver' = [pc |-> "stop", job |-> driver.job, failed |-> driver.failed]
    BY <1>t, <2>2 DEF SimTypeOK
  <2>4. driver'.pc = "stop" /\ driver'.job = driver.job /\ driver'.failed = driver.failed
    BY <2>3
  <2>5. SimTypeOK'
    BY <1>t, <1>u, <2>1, <2>3, <2>4 DEF SimTypeOK, DriverSteps
  <2>6. DriverIsBound'
    BY <2>4 DEF DriverIsBound
  <2>7. SealedRunIsCaptured' /\ SourceIsSealed' /\ CaptureIsCurrent' /\ SimForward
    BY <1>u, <2>1, SimKept
  <2> QED
    BY <1>o, <2>5, <2>6, <2>7 DEF SimInv
<1>2. CASE Seals /\ driver.job \in SimJobs
  <2>1. PICK j \in SimJobs : j = driver.job
    BY <1>2
  <2>2. /\ srun' = [srun EXCEPT ![j].samples = Samples(j), ![j].verdict = Verdict(j)]
        /\ sjob' = SimMoved(j, "succeeded")
        /\ driver' = IdleDriver
    BY <1>2, <2>1 DEF SealSimulationRun
  <2>3. /\ sjob[j].status = "running" /\ sjob[j].gen = 0 /\ CheckpointsComplete(j) /\ SourceMatches(j)
        /\ captured[j] # NoSim /\ captured[j].fp \in Implementations
    BY <1>t, <1>u, <1>2, <2>1 DEF SimInv, DriverIsBound, SimTypeOK
  <2>4. Samples(j) = [o \in Ordinals |-> captured[j].fp]
    <3>1. \A o \in Ordinals : checkpoint[j][o] # NoSim /\ checkpoint[j][o].fp = captured[j].fp
      BY <2>3 DEF CheckpointsComplete
    <3>2. \A o \in Ordinals : checkpoint[j][o].by = captured[j].fp
      BY <3>1 DEF SimInv, CheckpointIsOwn
    <3> QED
      BY <3>2 DEF Samples
  <2>5. Samples(j) \in SampleSets /\ Samples(j) # NoSim
    BY <2>3, <2>4 DEF SampleSets, Ordinals
  <2>6. srun[j] \in RunRows /\ srun[j].samples = NoSim
    BY <1>t, <2>3 DEF SimInv, SimTypeOK, SealedRunIsCaptured
  <2>7. Verdict(j) \in {"none", "verified", "mismatch"} /\ (srun[j].verifies # NoSim => Verdict(j) = "verified")
    <3>1. CASE srun[j].verifies = NoSim
      BY <3>1 DEF Verdict
    <3>2. CASE srun[j].verifies # NoSim
      <4>1. PICK s \in SimJobs : s = srun[j].verifies
        BY <2>6, <3>2 DEF RunRows
      <4>2. srun[s].samples # NoSim /\ captured[s].fp = captured[j].fp
        BY <2>3, <3>2, <4>1 DEF SimInv, SourceIsSealed, SourceMatches
      <4>3. srun[s].samples = [o \in Ordinals |-> captured[s].fp]
        BY <4>2 DEF SimInv, SealedRunIsCaptured
      <4>4. Samples(j) = srun[s].samples
        BY <2>4, <4>2, <4>3
      <4> QED
        BY <3>2, <4>1, <4>4 DEF Verdict
    <3> QED
      BY <3>1, <3>2
  <2>8. PICK r \in RunRows :
           /\ srun' = [srun EXCEPT ![j] = r]
           /\ r.samples = Samples(j) /\ r.verdict = Verdict(j) /\ r.verifies = srun[j].verifies
    <3>1. srun' = [srun EXCEPT ![j] = [[srun[j] EXCEPT !.samples = Samples(j)] EXCEPT !.verdict = Verdict(j)]]
      BY <1>t, <2>2 DEF SimTypeOK
    <3>2. [srun[j] EXCEPT !.samples = Samples(j)] \in RunRows
      BY <2>5, <2>6 DEF RunRows
    <3>3. [[srun[j] EXCEPT !.samples = Samples(j)] EXCEPT !.verdict = Verdict(j)] \in RunRows
      BY <2>7, <3>2 DEF RunRows
    <3>4. [[srun[j] EXCEPT !.samples = Samples(j)] EXCEPT !.verdict = Verdict(j)].samples = Samples(j)
          /\ [[srun[j] EXCEPT !.samples = Samples(j)] EXCEPT !.verdict = Verdict(j)].verdict = Verdict(j)
          /\ [[srun[j] EXCEPT !.samples = Samples(j)] EXCEPT !.verdict = Verdict(j)].verifies = srun[j].verifies
      BY <2>6 DEF RunRows
    <3> QED
      BY <3>1, <3>3, <3>4
  <2>9. srun' \in [SimJobs -> RunRows] /\ srun'[j] = r /\ \A l \in SimJobs : l # j => srun'[l] = srun[l]
    BY <1>t, <2>8 DEF SimTypeOK
  <2>10. /\ sjob' \in [SimJobs -> SimRows]
         /\ \A l \in SimJobs :
               /\ sjob'[l].gen = sjob[l].gen /\ sjob'[l].input = sjob[l].input /\ sjob'[l].since = sjob[l].since
               /\ sjob'[l].status = IF l = j THEN "succeeded" ELSE sjob[l].status
    BY <1>t, <2>2, SimMovedFields DEF Status
  <2>11. driver'.pc = "idle" /\ driver' = [pc |-> driver'.pc, job |-> driver'.job, failed |-> driver'.failed]
    BY <2>2 DEF IdleDriver
  <2>12. SimTypeOK'
    BY <1>t, <1>u, <2>9, <2>10, <2>11 DEF SimTypeOK, DriverSteps
  <2>13. CaptureIsCurrent'
    BY <1>u, <2>3, <2>10 DEF SimInv, CaptureIsCurrent
  <2>14. DriverIsBound'
    BY <2>11 DEF DriverIsBound
  <2>15. SourceIsSealed'
    <3> SUFFICES ASSUME NEW l \in SimJobs, srun'[l].verifies # NoSim
                 PROVE  srun'[l].verifies # l /\ srun'[srun'[l].verifies].samples # NoSim
      BY DEF SourceIsSealed
    <3>1. srun'[l].verifies = srun[l].verifies
      BY <2>8, <2>9
    <3>2. srun[l].verifies # l /\ srun[srun[l].verifies].samples # NoSim /\ srun[l].verifies \in SimJobs
      BY <1>t, <3>1 DEF SimInv, SourceIsSealed, SimTypeOK, RunRows
    <3> QED
      BY <2>5, <2>8, <2>9, <3>1, <3>2
  <2>16. SealedRunIsCaptured'
    <3> SUFFICES ASSUME NEW l \in SimJobs
                 PROVE  /\ sjob'[l].status = "succeeded" <=> srun'[l].samples # NoSim
                        /\ srun'[l].samples # NoSim =>
                              /\ sjob'[l].gen = 0
                              /\ srun'[l].samples = [o \in Ordinals |-> captured[l].fp]
                              /\ srun'[l].verifies # NoSim => srun'[l].verdict = "verified"
      BY <1>u DEF SealedRunIsCaptured
    <3>1. CASE l = j
      BY <2>3, <2>4, <2>5, <2>7, <2>8, <2>9, <2>10, <3>1
    <3>2. CASE l # j
      <4>1. sjob'[l].status = sjob[l].status /\ sjob'[l].gen = sjob[l].gen /\ srun'[l] = srun[l]
        BY <2>9, <2>10, <3>2
      <4>2. /\ sjob[l].status = "succeeded" <=> srun[l].samples # NoSim
            /\ srun[l].samples # NoSim =>
                  /\ sjob[l].gen = 0
                  /\ srun[l].samples = [o \in Ordinals |-> captured[l].fp]
                  /\ srun[l].verifies # NoSim => srun[l].verdict = "verified"
        BY DEF SimInv, SealedRunIsCaptured
      <4> QED
        BY <4>1, <4>2
    <3> QED
      BY <3>1, <3>2
  <2>17. SimForward
    BY <2>6, <2>9 DEF SimForward
  <2> QED
    BY <1>o, <2>12, <2>13, <2>14, <2>15, <2>16, <2>17 DEF SimInv
<1>3. CASE Seals /\ driver.job \notin SimJobs
  <2>1. /\ srun' = [srun EXCEPT ![driver.job].samples = Samples(driver.job), ![driver.job].verdict = Verdict(driver.job)]
        /\ sjob' = SimMoved(driver.job, "succeeded")
        /\ driver' = IdleDriver
    BY <1>3 DEF SealSimulationRun
  <2>2. srun' = srun /\ sjob' = sjob
    BY <1>t, <1>3, <2>1 DEF SimTypeOK, SimMoved
  <2>3. driver'.pc = "idle" /\ driver' = [pc |-> driver'.pc, job |-> driver'.job, failed |-> driver'.failed]
    BY <2>1 DEF IdleDriver
  <2>4. SimTypeOK'
    BY <1>t, <1>u, <2>2, <2>3 DEF SimTypeOK, DriverSteps
  <2>5. DriverIsBound'
    BY <2>3 DEF DriverIsBound
  <2>6. SealedRunIsCaptured' /\ SourceIsSealed' /\ CaptureIsCurrent' /\ SimForward
    BY <1>u, <2>2, SimKept
  <2> QED
    BY <1>o, <2>4, <2>5, <2>6 DEF SimInv
<1> QED
  BY <1>1, <1>2, <1>3

(* The steps that keep what the driver is bound to.                        *)
LEMMA SimDrives ==
    ASSUME SimInv,
           driver' = [pc |-> driver'.pc, job |-> driver'.job, failed |-> driver'.failed], driver'.pc \in DriverSteps,
           DriverIsBound', sresults' \in [Ordinals -> {NoSim, installed}],
           checkpoint' \in [SimJobs -> [Ordinals -> Checkpoints \cup {NoSim}]], CheckpointIsOwn',
           sjob' \in [SimJobs -> SimRows], UNCHANGED <<captured, srun, installed, srestarts>>,
           SealedRunIsCaptured' /\ SourceIsSealed' /\ CaptureIsCurrent' /\ SimForward
    PROVE  SimInv' /\ SimForward
<1>1. SimTypeOK'
  BY DEF SimInv, SimTypeOK
<1> QED
  BY <1>1 DEF SimInv

(* Every step of the driver, its sample workers, the requests and the      *)
(* restarts keeps the invariant, and a sealed run.                         *)
LEMMA SimStepInductive == SimInv /\ [SimNext]_simVars => SimInv' /\ SimForward
<1> SUFFICES ASSUME SimInv, [SimNext]_simVars PROVE SimInv' /\ SimForward
  OBVIOUS
<1>t. SimTypeOK
  BY DEF SimInv
<1>c. /\ checkpoint \in [SimJobs -> [Ordinals -> Checkpoints \cup {NoSim}]] /\ sjob \in [SimJobs -> SimRows]
      /\ sresults \in [Ordinals -> {NoSim, installed}]
      /\ driver = [pc |-> driver.pc, job |-> driver.job, failed |-> driver.failed] /\ driver.pc \in DriverSteps
  BY <1>t DEF SimTypeOK
<1>b. CheckpointIsOwn /\ DriverIsBound
  BY DEF SimInv
<1>k. sjob' = sjob /\ UNCHANGED <<captured, srun, installed, srestarts>>
         => sjob' \in [SimJobs -> SimRows] /\ SealedRunIsCaptured' /\ SourceIsSealed' /\ CaptureIsCurrent' /\ SimForward
  BY <1>c, SimKept
<1>o. UNCHANGED checkpoint =>
         checkpoint' \in [SimJobs -> [Ordinals -> Checkpoints \cup {NoSim}]] /\ CheckpointIsOwn'
  BY <1>b, <1>c DEF CheckpointIsOwn
<1>i. driver' = IdleDriver =>
         /\ driver' = [pc |-> driver'.pc, job |-> driver'.job, failed |-> driver'.failed] /\ driver'.pc \in DriverSteps
         /\ DriverIsBound'
  BY DEF IdleDriver, DriverSteps, DriverIsBound
<1>f. ASSUME NEW x, driver' = [driver EXCEPT !.failed = x], UNCHANGED <<sjob, captured, installed>>
      PROVE  /\ driver' = [pc |-> driver'.pc, job |-> driver'.job, failed |-> driver'.failed]
             /\ driver'.pc \in DriverSteps /\ DriverIsBound'
  <2>1. driver' = [pc |-> driver.pc, job |-> driver.job, failed |-> x]
    BY <1>c, <1>f
  <2>2. driver'.pc = driver.pc /\ driver'.job = driver.job /\ driver'.failed = x
    BY <2>1
  <2> QED
    BY <1>b, <1>c, <1>f, <2>1, <2>2 DEF DriverIsBound
<1>p. ASSUME NEW p \in DriverSteps, driver' = [driver EXCEPT !.pc = p], UNCHANGED <<captured, installed>>,
             p # "capture", p \in {"samples", "save", "recover"} => driver.pc \in {"samples", "save", "recover"}
      PROVE  /\ driver' = [pc |-> driver'.pc, job |-> driver'.job, failed |-> driver'.failed]
             /\ driver'.pc \in DriverSteps /\ DriverIsBound'
  <2>1. driver' = [pc |-> p, job |-> driver.job, failed |-> driver.failed]
    BY <1>c, <1>p
  <2>2. driver'.pc = p /\ driver'.job = driver.job /\ driver'.failed = driver.failed
    BY <2>1
  <2> QED
    BY <1>b, <1>c, <1>p, <2>1, <2>2 DEF DriverIsBound
<1>u. UNCHANGED <<driver, sjob, captured, installed>> =>
         /\ driver' = [pc |-> driver'.pc, job |-> driver'.job, failed |-> driver'.failed]
         /\ driver'.pc \in DriverSteps /\ DriverIsBound'
  BY <1>b, <1>c DEF DriverIsBound
<1>1. CASE UNCHANGED simVars
  BY <1>1, <1>c, <1>k, <1>o, <1>u, SimDrives DEF simVars
<1>2. ASSUME NEW j \in SimJobs, CreateSimulationJob(j) PROVE SimInv' /\ SimForward
  BY <1>2, SimCreates
<1>3. ASSUME NEW j \in SimJobs, RequestSimCancellation(j) PROVE SimInv' /\ SimForward
  <2>1. UNCHANGED <<captured, checkpoint, srun, installed, driver, sresults, srestarts>> /\ Recoverable(sjob[j].status)
    BY <1>3 DEF RequestSimCancellation, Open
  <2>2. sjob[j] \in SimRows /\ 1 \in {0, 1}
    BY <1>c
  <2>3. [sjob[j] EXCEPT !.gen = 1] \in SimRows
    BY <2>2 DEF SimRows
  <2>4. sjob' = [sjob EXCEPT ![j] = [sjob[j] EXCEPT !.gen = 1]]
    BY <1>3, <1>c DEF RequestSimCancellation
  <2>5. /\ sjob' \in [SimJobs -> SimRows] /\ sjob'[j] = [sjob[j] EXCEPT !.gen = 1]
        /\ \A l \in SimJobs : l # j => sjob'[l] = sjob[l]
    BY <1>c, <2>3, <2>4
  <2>6. sjob'[j].status = sjob[j].status /\ sjob'[j].since = sjob[j].since
    BY <2>2, <2>5 DEF SimRows
  <2>7. \A l \in SimJobs :
           /\ sjob'[l].since = sjob[l].since /\ sjob'[l].status = sjob[l].status
           /\ sjob[l].status = "succeeded" => sjob'[l].gen = sjob[l].gen
    BY <2>1, <2>5, <2>6 DEF Recoverable
  <2>8. SealedRunIsCaptured' /\ SourceIsSealed' /\ CaptureIsCurrent' /\ SimForward
    BY <2>1, <2>7, SimKept
  <2>9. DriverIsBound'
    BY <1>b, <2>1, <2>7 DEF DriverIsBound
  <2> QED
    BY <1>c, <1>o, <2>1, <2>5, <2>8, <2>9, SimDrives
<1>4. ASSUME NEW j \in SimJobs, StartSamples(j) PROVE SimInv' /\ SimForward
  <2>1. /\ sjob[j].status = "queued" /\ captured[j] # NoSim /\ sjob[j].since = srestarts
        /\ sjob' = SimMoved(j, "running")
        /\ driver' = [pc |-> "samples", job |-> j, failed |-> FALSE]
        /\ sresults' = [o \in Ordinals |-> NoSim]
        /\ UNCHANGED <<captured, checkpoint, srun, installed, srestarts>>
    BY <1>4 DEF StartSamples
  <2>2. driver'.pc = "samples" /\ driver'.job = j /\ driver'.failed = FALSE
    BY <2>1
  <2>3. captured[j].fp = installed
    BY <2>1 DEF SimInv, CaptureIsCurrent
  <2>4. DriverIsBound'
    BY <2>1, <2>2, <2>3 DEF DriverIsBound
  <2>5. /\ sjob' \in [SimJobs -> SimRows]
        /\ SealedRunIsCaptured' /\ SourceIsSealed' /\ CaptureIsCurrent' /\ SimForward
    BY <2>1, SimJobMoves DEF Status
  <2> QED
    BY <1>o, <2>1, <2>2, <2>4, <2>5, SimDrives DEF DriverSteps
<1>5. CASE SaveMaterialization
  <2>1. /\ driver.pc = "capture" /\ driver' = IdleDriver
        /\ captured' = [captured EXCEPT ![driver.job] = [input |-> sjob[driver.job].input, fp |-> installed]]
        /\ UNCHANGED <<sjob, checkpoint, srun, installed, sresults, srestarts>>
    BY <1>5 DEF SaveMaterialization, Driving
  <2>2. /\ captured' \in [SimJobs -> Captures \cup {NoSim}]
        /\ \A l \in SimJobs : captured'[l] = captured[l] \/ (l = driver.job /\ captured'[l].fp = installed)
    <3>1. CASE driver.job \in SimJobs
      <4>1. [input |-> sjob[driver.job].input, fp |-> installed] \in Captures
        BY <1>t, <3>1 DEF SimTypeOK, SimRows, Captures
      <4> QED
        BY <1>t, <2>1, <3>1, <4>1 DEF SimTypeOK
    <3>2. CASE driver.job \notin SimJobs
      BY <1>t, <2>1, <3>2 DEF SimTypeOK
    <3> QED
      BY <3>1, <3>2
  <2>3. \A l \in SimJobs : l = driver.job => sjob[l].status = "queued"
    BY <1>b, <2>1 DEF DriverIsBound
  <2>4. SimTypeOK'
    BY <1>t, <1>i, <2>1, <2>2 DEF SimTypeOK
  <2>5. CaptureIsCurrent'
    BY <2>1, <2>2, <2>3 DEF SimInv, CaptureIsCurrent
  <2>6. SealedRunIsCaptured'
    <3> SUFFICES ASSUME NEW l \in SimJobs
                 PROVE  /\ sjob[l].status = "succeeded" <=> srun[l].samples # NoSim
                        /\ srun[l].samples # NoSim =>
                              /\ sjob[l].gen = 0
                              /\ srun[l].samples = [o \in Ordinals |-> captured'[l].fp]
                              /\ srun[l].verifies # NoSim => srun[l].verdict = "verified"
      BY <2>1 DEF SealedRunIsCaptured
    <3>1. /\ sjob[l].status = "succeeded" <=> srun[l].samples # NoSim
          /\ srun[l].samples # NoSim =>
                /\ sjob[l].gen = 0
                /\ srun[l].samples = [o \in Ordinals |-> captured[l].fp]
                /\ srun[l].verifies # NoSim => srun[l].verdict = "verified"
      BY DEF SimInv, SealedRunIsCaptured
    <3>2. sjob[l].status = "succeeded" => captured'[l] = captured[l]
      BY <2>2, <2>3
    <3> QED
      BY <3>1, <3>2
  <2>7. SourceIsSealed' /\ SimForward
    BY <2>1 DEF SimInv, SourceIsSealed, SimForward
  <2> QED
    BY <1>i, <1>o, <2>1, <2>4, <2>5, <2>6, <2>7 DEF SimInv
<1>6. CASE Joined
  <2>1. /\ driver.pc = "samples" /\ UNCHANGED <<sjob, captured, checkpoint, srun, installed, sresults, srestarts>>
        /\ driver' = [driver EXCEPT !.pc = IF driver.failed THEN "stop" ELSE "save"]
    BY <1>6 DEF Joined, Driving, Drive
  <2>2. PICK p \in {"stop", "save"} : driver' = [driver EXCEPT !.pc = p]
    BY <2>1
  <2> QED
    BY <1>c, <1>k, <1>o, <1>p, <2>1, <2>2, SimDrives DEF DriverSteps
<1>7. CASE SealSimulationRun
  BY <1>7, SimSeals
<1>8. CASE StopJob
  <2>1. /\ sjob' \in {Failed(driver.job), Converged(driver.job), sjob} /\ driver' = IdleDriver
        /\ UNCHANGED <<captured, checkpoint, srun, installed, sresults, srestarts>>
    BY <1>8 DEF StopJob
  <2>2. /\ sjob' \in [SimJobs -> SimRows]
        /\ SealedRunIsCaptured' /\ SourceIsSealed' /\ CaptureIsCurrent' /\ SimForward
    BY <2>1, SimJobEnds
  <2> QED
    BY <1>c, <1>i, <1>o, <2>1, <2>2, SimDrives
<1>9. ASSUME NEW w \in Strollers, CheckBefore(w) \/ RunSample(w) PROVE SimInv' /\ SimForward
  <2>1. UNCHANGED <<sjob, captured, checkpoint, srun, installed, sresults, srestarts>>
    BY <1>9 DEF CheckBefore, RunSample
  <2>2. driver' = driver \/ \E x : driver' = [driver EXCEPT !.failed = x]
    BY <1>9 DEF CheckBefore, RunSample
  <2> QED
    BY <1>c, <1>k, <1>o, <1>f, <1>u, <2>1, <2>2, SimDrives
<1>10. ASSUME NEW w \in Strollers, Expose(w) PROVE SimInv' /\ SimForward
  <2>1. UNCHANGED <<sjob, captured, checkpoint, srun, installed, srestarts>>
    BY <1>10 DEF Expose
  <2>2. driver' = driver \/ driver' = [driver EXCEPT !.failed = TRUE]
    BY <1>10 DEF Expose
  <2>3. sresults' \in [Ordinals -> {NoSim, installed}]
    BY <1>10, <1>c DEF Expose
  <2> QED
    BY <1>k, <1>o, <1>f, <1>u, <2>1, <2>2, <2>3, SimDrives
<1>11. ASSUME NEW o \in Ordinals, SaveCheckpoint(o) PROVE SimInv' /\ SimForward
  <2>1. /\ driver.pc = "save" /\ sresults[o] # NoSim
        /\ checkpoint' = Stored(driver.job, o, sresults[o])
        /\ sresults' = [sresults EXCEPT ![o] = NoSim]
        /\ UNCHANGED <<sjob, captured, srun, installed, driver, srestarts>>
    BY <1>11 DEF SaveCheckpoint, Driving
  <2>2. sresults[o] = installed
    BY <1>c, <2>1
  <2>3. driver.job \in SimJobs => captured[driver.job] # NoSim /\ captured[driver.job].fp = installed
    BY <1>b, <2>1 DEF DriverIsBound
  <2>4. checkpoint' \in [SimJobs -> [Ordinals -> Checkpoints \cup {NoSim}]] /\ CheckpointIsOwn'
    BY <1>b, <1>t, <2>1, <2>2, <2>3, SimStores
  <2>5. sresults' \in [Ordinals -> {NoSim, installed}]
    BY <1>c, <2>1
  <2> QED
    BY <1>k, <1>u, <2>1, <2>4, <2>5, SimDrives
<1>12. CASE SimRestart
  <2>1. /\ srestarts' = srestarts + 1 /\ installed' \in Implementations /\ driver' = IdleDriver
        /\ sresults' = [o \in Ordinals |-> NoSim] /\ UNCHANGED <<sjob, captured, checkpoint, srun>>
    BY <1>12 DEF SimRestart
  <2>2. SimTypeOK'
    BY <1>t, <1>i, <2>1 DEF SimTypeOK
  <2>3. CaptureIsCurrent'
    <3> SUFFICES ASSUME NEW l \in SimJobs
                 PROVE  /\ sjob[l].since <= srestarts + 1 /\ sjob[l].since # srestarts + 1
                        /\ sjob[l].status = "none" => captured[l] = NoSim
      BY <2>1 DEF CaptureIsCurrent
    <3>1. sjob[l].since \in Nat /\ srestarts \in Nat
      BY <1>t DEF SimTypeOK, SimRows
    <3>2. sjob[l].since <= srestarts /\ (sjob[l].status = "none" => captured[l] = NoSim)
      BY DEF SimInv, CaptureIsCurrent
    <3> QED
      BY <3>1, <3>2
  <2>4. SealedRunIsCaptured' /\ SourceIsSealed' /\ SimForward
    BY <2>1 DEF SimInv, SealedRunIsCaptured, SourceIsSealed, SimForward
  <2> QED
    BY <1>i, <1>o, <2>1, <2>2, <2>3, <2>4 DEF SimInv
<1>13. CASE RecoverJob
  <2>1. UNCHANGED <<captured, checkpoint, srun, installed, sresults, srestarts>>
    BY <1>13 DEF RecoverJob
  <2>2. CASE Recovers(Head(stodo)) /\ driver' = [pc |-> "recover", job |-> Head(stodo), failed |-> FALSE] /\ UNCHANGED sjob
    <3>1. driver'.pc = "recover" /\ driver'.job = Head(stodo) /\ driver'.failed = FALSE
      BY <2>2
    <3>2. captured[Head(stodo)] # NoSim /\ captured[Head(stodo)].fp = installed
      BY <2>2 DEF Recovers, Loadable, FingerprintResolves
    <3>3. DriverIsBound'
      BY <2>1, <3>1, <3>2 DEF DriverIsBound
    <3> QED
      BY <1>c, <1>k, <1>o, <2>1, <2>2, <3>1, <3>3, SimDrives DEF DriverSteps
  <2>3. CASE sjob' = Failed(Head(stodo)) /\ UNCHANGED driver
    <3>1. /\ sjob' \in [SimJobs -> SimRows]
          /\ SealedRunIsCaptured' /\ SourceIsSealed' /\ CaptureIsCurrent' /\ SimForward
      BY <2>1, <2>3, SimJobEnds
    <3>2. driver'.pc = "idle"
      BY <1>13, <2>3 DEF RecoverJob, Driving
    <3>3. DriverIsBound'
      BY <3>2 DEF DriverIsBound
    <3> QED
      BY <1>c, <1>o, <2>1, <2>3, <3>1, <3>3, SimDrives
  <2> QED
    BY <1>13, <2>2, <2>3 DEF RecoverJob
<1>14. CASE RecoverMissing
  <2>1. /\ driver.pc = "recover" /\ Missing(driver.job) # {}
        /\ UNCHANGED <<captured, srun, installed, sresults, srestarts>>
    BY <1>14 DEF RecoverMissing, Driving
  <2>2. CASE checkpoint' = Stored(driver.job, Lowest(Missing(driver.job)), installed) /\ UNCHANGED <<sjob, driver>>
    <3>3. driver.job \in SimJobs => captured[driver.job] # NoSim /\ captured[driver.job].fp = installed
      BY <1>b, <2>1 DEF DriverIsBound
    <3>4. checkpoint' \in [SimJobs -> [Ordinals -> Checkpoints \cup {NoSim}]] /\ CheckpointIsOwn'
      BY <1>b, <1>t, <2>2, <3>3, SimStores
    <3> QED
      BY <1>c, <1>k, <1>u, <2>1, <2>2, <3>4, SimDrives
  <2>3. CASE sjob' = Failed(driver.job) /\ driver' = IdleDriver /\ UNCHANGED checkpoint
    <3>1. /\ sjob' \in [SimJobs -> SimRows]
          /\ SealedRunIsCaptured' /\ SourceIsSealed' /\ CaptureIsCurrent' /\ SimForward
      BY <2>1, <2>3, SimJobEnds
    <3> QED
      BY <1>c, <1>i, <1>o, <2>1, <2>3, <3>1, SimDrives
  <2> QED
    BY <1>14, <2>2, <2>3 DEF RecoverMissing
<1>15. CASE Recovered
  <2>1. /\ driver.pc = "recover" /\ driver' = [driver EXCEPT !.pc = "save"]
        /\ sjob' = IF sjob[driver.job].status = "queued" THEN SimMoved(driver.job, "running") ELSE sjob
        /\ UNCHANGED <<captured, checkpoint, srun, installed, sresults, srestarts>>
    BY <1>15 DEF Recovered, Driving, Drive
  <2>2. /\ sjob' \in [SimJobs -> SimRows]
        /\ SealedRunIsCaptured' /\ SourceIsSealed' /\ CaptureIsCurrent' /\ SimForward
    <3>1. CASE sjob' = sjob
      BY <1>k, <2>1, <3>1
    <3>2. CASE sjob[driver.job].status = "queued" /\ sjob' = SimMoved(driver.job, "running")
      BY <2>1, <3>2, SimJobMoves DEF Status
    <3> QED
      BY <2>1, <3>1, <3>2
  <2> QED
    BY <1>c, <1>o, <1>p, <2>1, <2>2, SimDrives DEF DriverSteps
<1> QED
  BY <1>1, <1>2, <1>3, <1>4, <1>5, <1>6, <1>7, <1>8, <1>9, <1>10, <1>11, <1>12, <1>13, <1>14, <1>15 DEF SimNext

(* It holds when the project has no simulation Job yet.                    *)
LEMMA SimInitInv == SimInit => SimInv
<1> SUFFICES ASSUME SimInit PROVE SimInv
  OBVIOUS
<1>1. NoSimJob \in SimRows
  BY DEF NoSimJob, SimRows, Status
<1>2. NoRun \in RunRows
  BY DEF NoRun, RunRows
<1>3. driver = [pc |-> driver.pc, job |-> driver.job, failed |-> driver.failed] /\ driver.pc = "idle"
  BY DEF SimInit, IdleDriver
<1>4. SimTypeOK
  BY <1>1, <1>2, <1>3 DEF SimInit, SimTypeOK, DriverSteps
<1>5. \A j \in SimJobs : /\ sjob[j].status = "none" /\ sjob[j].since = 0
                         /\ captured[j] = NoSim /\ srun[j].samples = NoSim /\ srun[j].verifies = NoSim
  BY DEF SimInit, NoSimJob, NoRun
<1>6. \A j \in SimJobs, o \in Ordinals : checkpoint[j][o] = NoSim
  BY DEF SimInit
<1> QED
  BY <1>3, <1>4, <1>5, <1>6
     DEF SimInit, SimInv, CheckpointIsOwn, CaptureIsCurrent, DriverIsBound, SourceIsSealed, SealedRunIsCaptured

(* The inductive invariant of the simulation Jobs holds in every behaviour *)
(* of admissions, sample workers, cancellations, seals and restarts.       *)
THEOREM SimInvariant == SimSpec => []SimInv
<1> QED
  BY SimInitInv, SimStepInductive, PTL DEF SimSpec

(* A sealed run is complete, uncanceled and computed throughout by the     *)
(* implementation captured at admission, and one that verifies another     *)
(* reproduces it: for any number of Jobs, samples, workers, versions of    *)
(* the implementation and restarts (PlanRecovery, SealSimulationRun).      *)
THEOREM SealedRunIsCapturedHolds == SimSpec => []SealedRunIsCaptured
BY SimInvariant, PTL DEF SimInv

(***************************************************************************)
(* The evidence of a project: the three kinds of Jobs side by side.        *)
(***************************************************************************)
EvidenceInv == ImpactInv /\ SimInv /\ RiskInv

(* A stored risk report is not written again: the Job it belongs to has    *)
(* succeeded, and the seal refuses such a Job.                             *)
LEMMA RiskForward ==
    ASSUME RiskInv, [RiskNext]_riskVars, NEW k \in RiskJobIds, rreport[k] # NoRisk
    PROVE  rreport'[k] = rreport[k]
<1>1. CASE SealRiskReport
  <2>1. rjob[k].status = "succeeded"
    BY DEF RiskInv, RiskStoryHolds
  <2>2. CASE rreport' = rreport
    BY <2>2
  <2>3. CASE rreport' = [rreport EXCEPT ![runner.job] = rcaptured[runner.job]]
             /\ rjob[runner.job].status \in {"running", "interrupted"}
    BY <2>1, <2>3 DEF RiskInv, RiskTypeOK
  <2> QED
    BY <1>1, <2>2, <2>3 DEF SealRiskReport
<1>2. CASE UNCHANGED rreport
  BY <1>2
<1>3. SealRiskReport \/ UNCHANGED rreport
  BY DEF RiskNext, riskVars, CreateRiskJob, RequestRiskCancellation, EnsureSucceededEvent, RunRisk, RecoverRisk,
         SaveRiskMaterialization, MoveFacts, EmitCanceled, BeginRisk, LoadRisk, AppendRiskEvent,
         CalculateRisk, RequireUncanceled, Fail, RiskRestart
<1> QED
  BY <1>1, <1>2, <1>3

(* A step of the composition is a step of one kind of Job and leaves the   *)
(* rows of the others alone.                                               *)
LEMMA EvidenceSteps ==
    ASSUME [RecordsNext]_allVars
    PROVE  [ImpactNext]_impactVars /\ [SimNext]_simVars /\ [RiskNext]_riskVars
BY DEF RecordsNext, allVars

(* The rows of the three kinds of evidence stay sound whatever Jobs run.   *)
THEOREM EvidenceInvariant == RecordsSpec => []EvidenceInv
<1>1. RecordsInit => EvidenceInv
  <2> SUFFICES ASSUME RecordsInit PROVE EvidenceInv
    OBVIOUS
  <2>1. ImpactInit /\ SimInit /\ RiskInit
    BY DEF RecordsInit
  <2> QED
    BY <2>1, ImpactInitInv, SimInitInv, RiskInitInv DEF EvidenceInv
<1>2. EvidenceInv /\ [RecordsNext]_allVars => EvidenceInv'
  BY EvidenceSteps, ImpactStepInductive, SimStepInductive, RiskStepInductive DEF EvidenceInv
<1> QED
  BY <1>1, <1>2, PTL DEF RecordsSpec

(* A report or run once sealed is never replaced, by a later run, by the   *)
(* recovery or by a repeated request, for any number of Jobs and restarts  *)
(* (SealImpactSuccess, SealSimulationRun, SealRiskReport).                 *)
THEOREM EvidenceIsImmutableHolds == RecordsSpec => EvidenceIsImmutable
<1>1. ASSUME EvidenceInv, [RecordsNext]_allVars
      PROVE  /\ \A i \in ImpactInputs : ireport[i] # "none" => ireport'[i] = ireport[i]
             /\ \A j \in SimJobs : srun[j].samples # NoSim => srun'[j] = srun[j]
             /\ \A j \in RiskJobIds : rreport[j] # NoRisk => rreport'[j] = rreport[j]
  <2>1. [ImpactNext]_impactVars /\ [SimNext]_simVars /\ [RiskNext]_riskVars
    BY <1>1, EvidenceSteps
  <2>2. ImpactInv /\ SimInv /\ RiskInv
    BY <1>1 DEF EvidenceInv
  <2>3. \A i \in ImpactInputs : ireport[i] # "none" => ireport'[i] = ireport[i]
    BY <2>1, <2>2, ImpactStepInductive DEF ImpactForward
  <2>4. \A j \in SimJobs : srun[j].samples # NoSim => srun'[j] = srun[j]
    BY <2>1, <2>2, SimStepInductive DEF SimForward
  <2>5. \A j \in RiskJobIds : rreport[j] # NoRisk => rreport'[j] = rreport[j]
    BY <2>1, <2>2, RiskForward
  <2> QED
    BY <2>3, <2>4, <2>5
<1> QED
  BY <1>1, EvidenceInvariant, PTL DEF RecordsSpec, EvidenceIsImmutable

(***************************************************************************)
(* The AI design Jobs: what AIDesign_proofs proves of every instance holds *)
(* of the one a behaviour of the project follows.                          *)
(***************************************************************************)
AP == INSTANCE AIDesign_proofs WITH
       Jobs <- DesignJobs, Requested <- Asked, Attempts <- 1 .. 3,
       Workers <- DesignWorkers, MaxRounds <- 1, RunCapacity <- 6, Bases <- 0 .. 2,
       MaxTrouble <- 1, checkpoint <- designPhase

LEMMA DesignConstants == AP!AIDesignAssumption
  BY DesignAssumption DEF A!AIDesignAssumption, AP!AIDesignAssumption

LEMMA SameInit == A!Init => AP!Init
  BY DEF
     A!InputPinned, AP!InputPinned, A!NoRun, AP!NoRun, A!NoAttempt, AP!NoAttempt, A!Idle, AP!Idle,
     A!Init, AP!Init

(* A and AP are the same instance, action by action.                       *)
LEMMA SameCapacity ==
    ASSUME NEW j
    PROVE  A!HasCapacity(j) <=> AP!HasCapacity(j)
  BY DEF A!AttemptsOf, AP!AttemptsOf, A!Cardinality, AP!Cardinality, A!Stored, AP!Stored,
         A!HasCapacity, AP!HasCapacity

LEMMA SameNext == A!Next => AP!Next
<1>1. (A!MoveBase => AP!MoveBase) /\ (A!Crash => AP!Crash)
  BY DEF
     A!facts, AP!facts, A!memory, AP!memory, A!InputPinned, AP!InputPinned, A!PatchSealed,
     AP!PatchSealed, A!NoRun, AP!NoRun, A!ValidState, AP!ValidState, A!Idle, AP!Idle, A!MoveBase,
     AP!MoveBase, A!Get, AP!Get, A!Crash, AP!Crash
<1>2. ASSUME NEW j, A!JobStep(j) PROVE AP!JobStep(j)
  BY <1>2 DEF
     A!facts, AP!facts, A!memory, AP!memory, A!others, AP!others, A!InputPinned, AP!InputPinned,
     A!ProviderToolLoop, AP!ProviderToolLoop, A!PatchSealed, AP!PatchSealed, A!NoRun, AP!NoRun,
     A!QueuedRun, AP!QueuedRun, A!ValidState, AP!ValidState, A!NoAttempt, AP!NoAttempt,
     A!NewAttempt, AP!NewAttempt, A!Fresh, AP!Fresh, A!AttemptsOf, AP!AttemptsOf, A!LastAttempt,
     AP!LastAttempt, A!Admissible, AP!Admissible, A!Submit, AP!Submit, A!AdmitAIJob, AP!AdmitAIJob,
     A!Get, AP!Get, A!Publishes, AP!Publishes, A!Cancelable, AP!Cancelable, A!CanceledRun,
     AP!CanceledRun, A!RequestCancellation, AP!RequestCancellation, A!CoordinatorCancel,
     AP!CoordinatorCancel, A!Signal, AP!Signal, A!ValidSnapshot, AP!ValidSnapshot, A!Unreceipted,
     AP!Unreceipted, A!InterruptEvent, AP!InterruptEvent, A!Recover, AP!Recover, A!Retryable,
     AP!Retryable, A!Retry, AP!Retry, A!JobStep, AP!JobStep
<1>3. ASSUME NEW w, A!CallStep(w) PROVE AP!CallStep(w)
  <2>1. A!BeginCallsCheck(w) => AP!BeginCallsCheck(w)
    BY DEF
       A!facts, AP!facts, A!memory, AP!memory, A!others, AP!others, A!InputPinned, AP!InputPinned,
       A!PatchSealed, AP!PatchSealed, A!ValidState, AP!ValidState, A!SameCallIdentity,
       AP!SameCallIdentity, A!BeginCallsCheck, AP!BeginCallsCheck
  <2>2. A!BeginCallsRegister(w) => AP!BeginCallsRegister(w)
    BY DEF
       A!facts, AP!facts, A!memory, AP!memory, A!others, AP!others, A!BeginCallsRegister,
       AP!BeginCallsRegister
  <2>3. A!BeginCallsConfirm(w) => AP!BeginCallsConfirm(w)
    BY DEF
       A!facts, AP!facts, A!memory, AP!memory, A!others, AP!others, A!InputPinned, AP!InputPinned,
       A!PatchSealed, AP!PatchSealed, A!ValidState, AP!ValidState, A!SameCallIdentity,
       AP!SameCallIdentity, A!Confirmed, AP!Confirmed, A!BeginCallsConfirm, AP!BeginCallsConfirm
  <2>4. A!Invoke(w) => AP!Invoke(w)
    BY DEF
       A!memory, AP!memory, A!others, AP!others, A!Invoke, AP!Invoke
  <2>5. A!AcceptResult(w) => AP!AcceptResult(w)
    BY SameCapacity DEF
       A!memory, AP!memory, A!others, AP!others, A!InputPinned, AP!InputPinned, A!PatchSealed,
       AP!PatchSealed, A!ValidState, AP!ValidState, A!AttemptsOf, AP!AttemptsOf, A!Get, AP!Get,
       A!LateEvent, AP!LateEvent, A!Publishes, AP!Publishes, A!Acceptable, AP!Acceptable,
       A!AcceptResult, AP!AcceptResult
  <2>6. ASSUME NEW x, A!ProviderAnswers(w, x) PROVE AP!ProviderAnswers(w, x)
    BY <2>6 DEF
       A!facts, AP!facts, A!memory, AP!memory, A!others, AP!others, A!ProviderAnswers,
       AP!ProviderAnswers
  <2> QED
    BY <1>3, <2>1, <2>2, <2>3, <2>4, <2>5, <2>6 DEF A!CallStep, AP!CallStep
<1>4. ASSUME NEW w, A!LedgerStep(w) PROVE AP!LedgerStep(w)
  <2>1. A!InsertEvidenceBatch(w) => AP!InsertEvidenceBatch(w)
    BY SameCapacity DEF
       A!memory, AP!memory, A!others, AP!others, A!InputPinned, AP!InputPinned, A!AttemptsOf,
       AP!AttemptsOf, A!InsertEvidenceBatch, AP!InsertEvidenceBatch
  <2>2. A!SaveDeterministicCheckpoint(w) => AP!SaveDeterministicCheckpoint(w)
    BY DEF
       A!memory, AP!memory, A!others, AP!others, A!Phase, AP!Phase, A!InputPinned, AP!InputPinned,
       A!ProviderToolLoop, AP!ProviderToolLoop, A!PatchSealed, AP!PatchSealed,
       A!DeterministicRecoveryPhase, AP!DeterministicRecoveryPhase, A!ValidState, AP!ValidState,
       A!Get, AP!Get, A!SaveDeterministicCheckpoint, AP!SaveDeterministicCheckpoint
  <2>3. A!AdoptAttempt(w) => AP!AdoptAttempt(w)
    BY DEF
       A!facts, AP!facts, A!memory, AP!memory, A!others, AP!others, A!ProviderToolLoop,
       AP!ProviderToolLoop, A!AttemptsOf, AP!AttemptsOf, A!LastAttempt, AP!LastAttempt,
       A!AdoptAttempt, AP!AdoptAttempt
  <2>4. A!InsertTerminalResponse(w) => AP!InsertTerminalResponse(w)
    BY SameCapacity DEF
       A!memory, AP!memory, A!others, AP!others, A!AttemptsOf, AP!AttemptsOf,
       A!InsertTerminalResponse, AP!InsertTerminalResponse
  <2>5. A!InsertFailedOutcome(w) => AP!InsertFailedOutcome(w)
    BY DEF
       A!memory, AP!memory, A!others, AP!others, A!InsertFailedOutcome, AP!InsertFailedOutcome
  <2>6. A!RepairExhausted(w) => AP!RepairExhausted(w)
    BY DEF
       A!memory, AP!memory, A!others, AP!others, A!RoundsLeft, AP!RoundsLeft, A!RepairExhausted,
       AP!RepairExhausted
  <2>7. A!InsertDraftPatch(w) => AP!InsertDraftPatch(w)
    BY SameCapacity DEF
       A!memory, AP!memory, A!others, AP!others, A!DeterministicPreview, AP!DeterministicPreview,
       A!AttemptsOf, AP!AttemptsOf, A!InsertDraftPatch, AP!InsertDraftPatch
  <2>8. A!InsertAttemptOutcome(w) => AP!InsertAttemptOutcome(w)
    BY DEF
       A!memory, AP!memory, A!others, AP!others, A!InsertAttemptOutcome, AP!InsertAttemptOutcome
  <2>9. A!InsertAttemptPatchSeal(w) => AP!InsertAttemptPatchSeal(w)
    BY DEF
       A!memory, AP!memory, A!others, AP!others, A!InsertAttemptPatchSeal,
       AP!InsertAttemptPatchSeal
  <2>10. ASSUME NEW x, A!InsertAttempt(w, x) PROVE AP!InsertAttempt(w, x)
    BY <2>10, SameCapacity DEF
       A!memory, AP!memory, A!others, AP!others, A!ProviderToolLoop, AP!ProviderToolLoop,
       A!NoAttempt, AP!NoAttempt, A!NewAttempt, AP!NewAttempt, A!Fresh, AP!Fresh, A!AttemptsOf,
       AP!AttemptsOf, A!ValidLineage, AP!ValidLineage, A!InsertAttempt, AP!InsertAttempt
  <2>11. ASSUME NEW x, A!Repair(w, x) PROVE AP!Repair(w, x)
    BY <2>11 DEF
       A!memory, AP!memory, A!others, AP!others, A!NoAttempt, AP!NoAttempt, A!NewAttempt,
       AP!NewAttempt, A!Fresh, AP!Fresh, A!AttemptsOf, AP!AttemptsOf, A!ValidLineage,
       AP!ValidLineage, A!RoundsLeft, AP!RoundsLeft, A!Repair, AP!Repair
  <2> QED
    BY <1>4, <2>1, <2>2, <2>3, <2>4, <2>5, <2>6, <2>7, <2>8, <2>9, <2>10, <2>11 DEF A!LedgerStep, AP!LedgerStep
<1>5. ASSUME NEW w, A!WorkerStep(w) PROVE AP!WorkerStep(w)
  <2>1. ASSUME NEW j, A!Load(w, j) PROVE AP!Load(w, j)
    BY <2>1 DEF
       A!facts, AP!facts, A!memory, AP!memory, A!others, AP!others, A!InputPinned, AP!InputPinned,
       A!PatchSealed, AP!PatchSealed, A!NoRun, AP!NoRun, A!ValidState, AP!ValidState, A!Idle,
       AP!Idle, A!Get, AP!Get, A!Load, AP!Load
  <2>2. A!Claim(w) => AP!Claim(w)
    BY DEF
       A!facts, AP!facts, A!memory, AP!memory, A!others, AP!others, A!InputPinned, AP!InputPinned,
       A!PatchSealed, AP!PatchSealed, A!ValidState, AP!ValidState, A!Get, AP!Get, A!StoreMatches,
       AP!StoreMatches, A!ValidStoredTransition, AP!ValidStoredTransition, A!CommitsTransition,
       AP!CommitsTransition, A!TransitionAIJob, AP!TransitionAIJob, A!Claim, AP!Claim,
       A!CanTransitionTo, AP!CanTransitionTo
  <2>3. A!Advance(w) => AP!Advance(w)
    BY DEF
       A!facts, AP!facts, A!memory, AP!memory, A!others, AP!others, A!InputPinned, AP!InputPinned,
       A!EvidencePinned, AP!EvidencePinned, A!ProviderToolLoop, AP!ProviderToolLoop,
       A!DeterministicPreview, AP!DeterministicPreview, A!PatchSealed, AP!PatchSealed,
       A!ValidState, AP!ValidState, A!Get, AP!Get, A!StoreMatches, AP!StoreMatches,
       A!ValidStoredTransition, AP!ValidStoredTransition, A!CommitsTransition,
       AP!CommitsTransition, A!TransitionAIJob, AP!TransitionAIJob, A!PhaseDone, AP!PhaseDone,
       A!Advance, AP!Advance, A!CanTransitionTo, AP!CanTransitionTo
  <2>4. A!SealPatch(w) => AP!SealPatch(w)
    BY DEF
       A!facts, AP!facts, A!memory, AP!memory, A!others, AP!others, A!InputPinned, AP!InputPinned,
       A!PatchSealed, AP!PatchSealed, A!ValidState, AP!ValidState, A!Get, AP!Get, A!StoreMatches,
       AP!StoreMatches, A!ValidStoredTransition, AP!ValidStoredTransition, A!CommitsTransition,
       AP!CommitsTransition, A!TransitionAIJob, AP!TransitionAIJob, A!SealPatch, AP!SealPatch,
       A!CanTransitionTo, AP!CanTransitionTo
  <2>5. A!Release(w) => AP!Release(w)
    BY DEF
       A!facts, AP!facts, A!memory, AP!memory, A!others, AP!others, A!InputPinned, AP!InputPinned,
       A!NoRun, AP!NoRun, A!Idle, AP!Idle, A!Release, AP!Release
  <2>6. A!SettleCancellation(w) => AP!SettleCancellation(w)
    BY DEF
       A!facts, AP!facts, A!memory, AP!memory, A!others, AP!others, A!InputPinned, AP!InputPinned,
       A!PatchSealed, AP!PatchSealed, A!NoRun, AP!NoRun, A!ValidState, AP!ValidState, A!Idle,
       AP!Idle, A!Get, AP!Get, A!SettleCancellation, AP!SettleCancellation
  <2>7. A!GiveUp(w) => AP!GiveUp(w)
    BY DEF
       A!facts, AP!facts, A!memory, AP!memory, A!others, AP!others, A!InputPinned, AP!InputPinned,
       A!NoRun, AP!NoRun, A!Idle, AP!Idle, A!GiveUp, AP!GiveUp
  <2> QED
    BY <1>3, <1>4, <1>5, <2>1, <2>2, <2>3, <2>4, <2>5, <2>6, <2>7 DEF A!WorkerStep, AP!WorkerStep
<1> QED
  BY <1>1, <1>2, <1>5 DEF A!Next, AP!Next

(* The AI design Jobs a behaviour follows are in a state of their          *)
(* invariant.                                                              *)
DesignInv == scene = "design" => AP!IInv

LEMMA DesignStep == DesignInv /\ [RecordsNext]_allVars => DesignInv'
<1>1. CASE UNCHANGED allVars
  <2>1. UNCHANGED <<scene, AP!vars>>
    BY <1>1 DEF allVars, aiVars, AP!vars
  <2> QED
    BY <2>1, DesignConstants, AP!Consecution DEF DesignInv
<1>2. CASE RecordsNext
  <2>1. scene' = scene /\ (scene = "design" => AP!Next)
    BY <1>2, SameNext DEF RecordsNext
  <2> QED
    BY <2>1, DesignConstants, AP!Consecution DEF DesignInv
<1> QED
  BY <1>1, <1>2

THEOREM DesignInvariant == RecordsSpec => []DesignInv
<1>1. RecordsInit => DesignInv
  BY SameInit, DesignConstants, AP!Initiation DEF RecordsInit, DesignInv
<1> QED
  BY <1>1, DesignStep, PTL DEF RecordsSpec

(* The attempts of a design Job are one chain within its budget, each      *)
(* asked of the provider at most once (validateAIAttemptLineage,           *)
(* BeginCalls).                                                            *)
THEOREM LineageIsChainHolds == RecordsSpec => []LineageIsChain
<1>1. AP!IInv => A!LineageIsChain
  BY DEF AP!IInv, A!LineageIsChain, AP!LineageIsChain
<1>2. DesignInv => LineageIsChain
  BY <1>1 DEF DesignInv, LineageIsChain
<1> QED
  BY <1>2, DesignInvariant, PTL

(* A returned cancellation has reached every call of the Job               *)
(* (InvocationCancellationRegistry).                                       *)
THEOREM CancelReachesCallsHolds == RecordsSpec => []CancelReachesCalls
<1>1. AP!IInv => A!CancelReachesCalls
  BY AP!CancelIsSound DEF A!CancelReachesCalls, AP!CancelReachesCalls
<1>2. DesignInv => CancelReachesCalls
  BY <1>1 DEF DesignInv, CancelReachesCalls
<1> QED
  BY <1>2, DesignInvariant, PTL
=============================================================================
