---------------------------- MODULE Backup_proofs ----------------------------
(***************************************************************************)
(* Proofs about the backups of a project, for any number of requests,      *)
(* dates, retries, manual and release commands, failures and restarts: the *)
(* daily promise, that artifacts and Jobs match, and that retention leaves *)
(* what a succeeded Job names or newer artifacts in its place.             *)
(***************************************************************************)
EXTENDS Backup, TLAPS, FiniteSetTheorems, WellFoundedInduction

Points == {"idle", "read", "submit", "ensure", "decide", "after", "waive", "resubmit",
           "replace", "lock"} \cup Executing
ProcRows == [pc : Points, kind : {"none", "write", "retry", "manual", "release"},
             job : Commands \cup {None}, date : 0..MaxDay,
             seen : Status \cup {"absent"}, gen : 0..1, aborted : BOOLEAN]

(* The rows and the requests have their types.                             *)
RowsOK ==
    /\ day \in Dates
    /\ admission \in [Dates -> DailyJobs \cup {None}]
    /\ waiver \in [Dates -> Jobs \cup {None}]
    /\ admitted \subseteq Dates
    /\ status \in [Jobs -> Status \cup {"absent"}]
    /\ cancelGen \in [Jobs -> 0..1]
    /\ published \in [Jobs -> BOOLEAN]
    /\ proc \in [Procs -> ProcRows]

(* The backups of a date, and what lets a write of it through.             *)
DailyOf(d) == {Daily(d, n) : n \in 0..MaxTry}
Lost(j) == status[j] \in {"failed", "canceled"}
Covered(d) == (\E j \in DailyOf(d) : status[j] = "succeeded") \/ (waiver[d] \in DailyOf(d) /\ Lost(waiver[d]))

(* The steps of an execution that follow the claim of its Job, and those   *)
(* on which the command has no restorable artifact.                        *)
Claimed == Executing \ {"claim"}
Unpublished == {"copy", "gate", "publish", "fail", "end"}

(* A request works on a Job of its own kind and date: one that exists,     *)
(* runs once it is claimed, and has ended as the request believes.         *)
KindIsSound(p) ==
    LET r == proc[p] IN
    /\ r.kind \in {"write", "retry"} => r.date \in Dates
    /\ r.pc \in {"read", "submit", "ensure", "decide", "after", "waive"} => r.kind = "write"
    /\ r.pc \in {"resubmit", "replace"} => r.kind = "retry" /\ r.job \in DailyOf(r.date)
    /\ r.kind = "write" /\ r.pc \notin {"read", "submit"} => r.job \in DailyOf(r.date)
    /\ r.pc \in {"lock"} \cup Executing => (r.job \in Jobs <=> r.kind # "release")
    /\ r.pc \in {"claim", "gate", "fail", "end"} => r.kind # "release"

WorkIsSound(p) ==
    LET r == proc[p] IN
    /\ r.pc \in {"waive", "resubmit", "replace"} => Lost(r.job)
    /\ r.pc \in {"resubmit", "replace"} => r.job.try < MaxTry
    /\ r.pc = "replace" => status[Daily(r.date, r.job.try + 1)] # "absent"
    /\ r.pc = "ensure" /\ Terminal(r.seen) => status[r.job] = r.seen
    /\ r.pc \in {"ensure", "decide", "lock", "claim"} /\ r.job \in Jobs => status[r.job] # "absent"
    /\ r.pc \in Claimed /\ r.job \in Jobs => status[r.job] = "running"
    /\ r.pc \in Unpublished => Restorable(r.job) = {}
    /\ r.pc = "publish" /\ r.job \in Jobs => published[r.job]
    /\ r.pc \in {"fail", "end"} => r.seen \in {"failed", "canceled"}

(* The worker mutex of the Service.                                        *)
OneExecutes == \A p, q \in Procs : proc[p].pc \in Executing /\ proc[q].pc \in Executing => p = q

(* The row of a date names a stored backup of that date.                   *)
AdmissionIsStored ==
    \A d \in Dates : admission[d] # None => admission[d] \in DailyOf(d) /\ status[admission[d]] # "absent"

(* A later attempt of a date exists only when the earlier ones were lost.  *)
RetriesFollow ==
    \A d \in Dates, m, n \in 0..MaxTry :
        n < m /\ status[Daily(d, m)] # "absent" => Lost(Daily(d, n))

(* Publication and cancellation exclude each other, and an artifact of a   *)
(* Job lies past the boundary.                                             *)
BoundaryHolds ==
    /\ \A j \in Jobs : published[j] => cancelGen[j] = 0
    /\ \A a \in arts : a.of \in Jobs => published[a.of]
    /\ \A j \in Jobs : status[j] # "interrupted"

(* The inductive invariant.                                                *)
IInv ==
    /\ RowsOK
    /\ \A p \in Procs : KindIsSound(p) /\ WorkIsSound(p)
    /\ OneExecutes
    /\ AdmissionIsStored
    /\ RetriesFollow
    /\ BoundaryHolds
    /\ WriteIsCovered
    /\ LostJobLeavesNothing
    /\ OneArtifact

(***************************************************************************)
(* What a step does to the rows.  e says that it is a step of an execution *)
(* (under the worker mutex): only that moves a stored Job on or lists an   *)
(* artifact.                                                               *)
(***************************************************************************)
RowsForward(e) ==
    /\ \A j \in Jobs :
          /\ status[j] # "absent" => status'[j] # "absent"
          /\ Terminal(status[j]) => status'[j] = status[j]
          /\ e \/ status[j] = "absent" \/ status'[j] = status[j]
          /\ published[j] => published'[j]
          /\ status'[j] = "interrupted" => status[j] = "interrupted"
    /\ \A d \in Dates, m \in 0..MaxTry :
          status[Daily(d, m)] = "absent" /\ status'[Daily(d, m)] # "absent" =>
              m = 0 \/ Lost(Daily(d, m - 1))
    /\ \A d \in Dates : waiver[d] # None => waiver'[d] = waiver[d]
    /\ e \/ \A a \in arts' : a.ok => a \in arts

(* The names of the Jobs.                                                  *)
LEMMA Names ==
    /\ \A d \in Dates, n \in 0..MaxTry :
          Daily(d, n) \in DailyOf(d) /\ Daily(d, n) \in DailyJobs /\ Daily(d, n).try = n
    /\ \A d \in Dates : DailyOf(d) \subseteq DailyJobs
    /\ DailyJobs \subseteq Jobs
    /\ None \notin Jobs
    /\ \A j \in DailyJobs : j.type = "daily"
    /\ \A r \in 1..Releases : Release(r) \notin Jobs
    /\ Jobs \subseteq Commands
    /\ \A r \in 1..Releases : Release(r) \in Commands
<1>1. \A d \in Dates, n \in 0..MaxTry :
         Daily(d, n) \in DailyOf(d) /\ Daily(d, n) \in DailyJobs /\ Daily(d, n).try = n
  <2>1. SUFFICES ASSUME NEW d \in Dates, NEW n \in 0..MaxTry
                 PROVE  Daily(d, n) \in DailyOf(d) /\ Daily(d, n) \in DailyJobs /\ Daily(d, n).try = n
    OBVIOUS
  <2>2. Daily(d, n).try = n
    BY DEF Daily
  <2> QED
    BY <2>2 DEF DailyOf, DailyJobs
<1>2. \A d \in Dates : DailyOf(d) \subseteq DailyJobs
  BY DEF DailyOf, DailyJobs
<1>3. \A j \in DailyJobs : j.type = "daily"
  BY DEF Daily, DailyJobs
<1>4. \A j \in Jobs : j.type \in {"daily", "manual"}
  BY <1>3 DEF Jobs, Manual
<1>5. None.type = "none" /\ \A r \in 1..Releases : Release(r).type = "release"
  BY DEF None, Release
<1> QED
  BY <1>1, <1>2, <1>3, <1>4, <1>5 DEF Jobs, Commands

(* A backup of a date is its n-th attempt, n being its try.                *)
LEMMA DailyIsTry ==
    ASSUME NEW d \in Dates, NEW j \in DailyOf(d)
    PROVE  j.try \in 0..MaxTry /\ j = Daily(d, j.try)
<1>1. PICK n \in 0..MaxTry : j = Daily(d, n)
  BY DEF DailyOf
<1>2. j.try = n
  BY <1>1, Names
<1> QED
  BY <1>1, <1>2

(* One step and the parts of the invariant it does not touch.              *)
LEMMA BackupKept ==
    ASSUME IInv, RowsOK', NEW e \in BOOLEAN, RowsForward(e),
           \A q \in Procs : \/ proc'[q] = proc[q] /\ (e => proc[q].pc \notin Executing)
                            \/ (KindIsSound(q) /\ WorkIsSound(q))',
           OneExecutes', AdmissionIsStored', \A d \in admitted' \ admitted : Covered(d)',
           BoundaryHolds', LostJobLeavesNothing', OneArtifact'
    PROVE  IInv'
<1>a. MaxTry \in Nat
  BY BackupAssumption
<1>t. RowsOK
  BY DEF IInv
<1>1. \A j \in Jobs : Lost(j) => Lost(j)'
  BY DEF RowsForward, Lost, Terminal
<1>2. \A q \in Procs : (KindIsSound(q) /\ WorkIsSound(q))'
  <2>1. SUFFICES ASSUME NEW q \in Procs, proc'[q] = proc[q], e => proc[q].pc \notin Executing
                 PROVE  KindIsSound(q)' /\ WorkIsSound(q)'
    OBVIOUS
  <2>2. KindIsSound(q) /\ WorkIsSound(q)
    BY DEF IInv
  <2>3. KindIsSound(q)'
    BY <2>1, <2>2 DEF KindIsSound
  <2>r. PICK r \in ProcRows : r = proc[q] /\ r = proc'[q]
    BY <2>1, <1>t DEF RowsOK
  <2>4. r.pc \in {"waive", "resubmit", "replace"} =>
           r.date \in Dates /\ r.job \in DailyOf(r.date) /\ r.job \in Jobs
    BY <2>r, <2>2, Names DEF KindIsSound
  <2>5. r.pc \in {"waive", "resubmit", "replace"} => Lost(r.job)'
    BY <2>r, <2>2, <2>4, <1>1 DEF WorkIsSound
  <2>6. r.pc \in {"resubmit", "replace"} => r.job.try < MaxTry
    BY <2>r, <2>2 DEF WorkIsSound
  <2>7. r.pc = "replace" => status'[Daily(r.date, r.job.try + 1)] # "absent"
    <3>1. SUFFICES ASSUME r.pc = "replace" PROVE status'[Daily(r.date, r.job.try + 1)] # "absent"
      OBVIOUS
    <3>2. r.job.try \in 0..MaxTry /\ r.job.try < MaxTry
      BY <3>1, <2>4, <2>6, DailyIsTry
    <3>3. Daily(r.date, r.job.try + 1) \in Jobs
      BY <3>1, <3>2, <2>4, Names, <1>a
    <3>4. status[Daily(r.date, r.job.try + 1)] # "absent"
      BY <3>1, <2>r, <2>2 DEF WorkIsSound
    <3> QED
      BY <3>3, <3>4 DEF RowsForward
  <2>8. r.pc = "ensure" /\ Terminal(r.seen) => status'[r.job] = r.seen
    <3>1. SUFFICES ASSUME r.pc = "ensure", Terminal(r.seen) PROVE status'[r.job] = r.seen
      OBVIOUS
    <3>2. r.job \in Jobs
      BY <3>1, <2>r, <2>2, Names DEF KindIsSound
    <3>3. status[r.job] = r.seen
      BY <3>1, <2>r, <2>2 DEF WorkIsSound
    <3> QED
      BY <3>1, <3>2, <3>3 DEF RowsForward
  <2>9. r.pc \in {"ensure", "decide", "lock", "claim"} /\ r.job \in Jobs => status'[r.job] # "absent"
    BY <2>r, <2>2 DEF WorkIsSound, RowsForward
  <2>10. r.pc \in Claimed => ~e
    BY <2>1, <2>r DEF Claimed
  <2>11. r.pc \in Claimed /\ r.job \in Jobs => status'[r.job] = "running"
    <3>1. SUFFICES ASSUME r.pc \in Claimed, r.job \in Jobs PROVE status'[r.job] = "running"
      OBVIOUS
    <3>2. status[r.job] = "running"
      BY <3>1, <2>r, <2>2 DEF WorkIsSound
    <3> QED
      BY <3>1, <3>2, <2>10 DEF RowsForward
  <2>12. r.pc \in Unpublished => Restorable(r.job)' = {}
    <3>1. SUFFICES ASSUME r.pc \in Unpublished PROVE Restorable(r.job)' = {}
      OBVIOUS
    <3>2. Restorable(r.job) = {}
      BY <3>1, <2>r, <2>2 DEF WorkIsSound
    <3>3. ~e
      BY <3>1, <2>10 DEF Unpublished, Claimed, Executing
    <3> QED
      BY <3>2, <3>3 DEF RowsForward, Restorable
  <2>13. r.pc = "publish" /\ r.job \in Jobs => published'[r.job]
    BY <2>r, <2>2 DEF WorkIsSound, RowsForward
  <2>14. r.pc \in {"fail", "end"} => r.seen \in {"failed", "canceled"}
    BY <2>r, <2>2 DEF WorkIsSound
  <2>15. WorkIsSound(q)'
    BY <2>r, <2>5, <2>6, <2>7, <2>8, <2>9, <2>11, <2>12, <2>13, <2>14 DEF WorkIsSound
  <2> QED
    BY <2>3, <2>15
<1>3. RetriesFollow'
  <2>1. SUFFICES ASSUME NEW d \in Dates, NEW m \in 0..MaxTry, NEW n \in 0..MaxTry,
                        n < m, status'[Daily(d, m)] # "absent"
                 PROVE  Lost(Daily(d, n))'
    BY DEF RetriesFollow, Lost
  <2>2. Daily(d, n) \in Jobs
    BY Names
  <2>3. CASE status[Daily(d, m)] # "absent"
    BY <2>1, <2>2, <2>3, <1>1 DEF IInv, RetriesFollow
  <2>4. CASE status[Daily(d, m)] = "absent"
    <3>1. Lost(Daily(d, m - 1))
      BY <2>1, <2>4 DEF RowsForward
    <3>2. m - 1 \in 0..MaxTry /\ (n = m - 1 \/ n < m - 1)
      BY <2>1, <1>a
    <3>3. status[Daily(d, m - 1)] # "absent"
      BY <3>1 DEF Lost
    <3>4. Lost(Daily(d, n))
      BY <3>1, <3>2, <3>3 DEF IInv, RetriesFollow
    <3> QED
      BY <3>4, <2>2, <1>1
  <2> QED
    BY <2>3, <2>4
<1>4. \A d \in Dates : Covered(d) => Covered(d)'
  <2>1. SUFFICES ASSUME NEW d \in Dates, Covered(d) PROVE Covered(d)'
    OBVIOUS
  <2>2. ASSUME NEW j \in DailyOf(d), status[j] = "succeeded" PROVE Covered(d)'
    <3>1. j \in Jobs
      BY Names
    <3>2. status'[j] = "succeeded"
      BY <3>1, <2>2 DEF RowsForward, Terminal
    <3> QED
      BY <3>2 DEF Covered
  <2>3. ASSUME waiver[d] \in DailyOf(d), Lost(waiver[d]) PROVE Covered(d)'
    <3>1. waiver[d] \in Jobs /\ waiver[d] # None
      BY <2>3, Names
    <3>2. waiver'[d] = waiver[d]
      BY <3>1 DEF RowsForward
    <3>3. Lost(waiver[d])'
      BY <3>1, <3>2, <2>3 DEF RowsForward, Lost, Terminal
    <3> QED
      BY <3>2, <3>3, <2>3 DEF Covered
  <2> QED
    BY <2>1, <2>2, <2>3 DEF Covered
<1>5. \A d \in admitted : Covered(d)
  BY DEF IInv, WriteIsCovered, Covered, DailyOf, Lost
<1>6. \A d \in admitted' : Covered(d)'
  BY <1>4, <1>5, <1>t DEF RowsOK
<1>7. WriteIsCovered'
  BY <1>6 DEF WriteIsCovered, Covered, DailyOf, Lost
<1> QED
  BY <1>2, <1>3, <1>7 DEF IInv

-----------------------------------------------------------------------------
(* How the requests change.                                                *)

Others(p) == \A q \in Procs \ {p} : proc'[q] = proc[q]

Moves(p, l) ==
    /\ proc'[p].pc = l
    /\ proc'[p].kind = proc[p].kind
    /\ proc'[p].job = proc[p].job
    /\ proc'[p].date = proc[p].date

Rests(p) == proc'[p] = Idle

LEMMA IdleIsRow == Idle \in ProcRows /\ Idle.pc = "idle" /\ Idle.kind = "none"
<1>1. /\ "idle" \in Points /\ "none" \in {"none", "write", "retry", "manual", "release"}
      /\ None \in Commands \cup {None} /\ 0 \in 0..MaxDay /\ "absent" \in Status \cup {"absent"}
      /\ 0 \in 0..1 /\ FALSE \in BOOLEAN
  BY BackupAssumption DEF Points
<1>2. Idle \in ProcRows
  BY <1>1 DEF Idle, ProcRows
<1> QED
  BY <1>2 DEF Idle

LEMMA GotoFields ==
    ASSUME RowsOK, NEW p \in Procs, NEW l \in Points, Goto(p, l)
    PROVE  /\ proc' \in [Procs -> ProcRows]
           /\ Others(p)
           /\ Moves(p, l)
           /\ proc'[p].seen = proc[p].seen
<1>1. proc \in [Procs -> ProcRows]
  BY DEF RowsOK
<1> QED
  BY <1>1 DEF Goto, Others, Moves, ProcRows

LEMMA RefuseFields ==
    ASSUME RowsOK, NEW p \in Procs, proc' = [proc EXCEPT ![p] = Idle]
    PROVE  /\ proc' \in [Procs -> ProcRows]
           /\ Others(p)
           /\ Rests(p)
<1>1. proc \in [Procs -> ProcRows]
  BY DEF RowsOK
<1> QED
  BY <1>1, IdleIsRow DEF Others, Rests

LEMMA RestIsSound ==
    ASSUME NEW p \in Procs, Rests(p)
    PROVE  KindIsSound(p)' /\ WorkIsSound(p)' /\ proc'[p].pc \notin Executing
<1>1. proc'[p].pc = "idle" /\ proc'[p].kind = "none"
  BY IdleIsRow DEF Rests
<1>2. KindIsSound(p)'
  BY <1>1 DEF KindIsSound, Executing
<1>3. WorkIsSound(p)'
  BY <1>1 DEF WorkIsSound, Claimed, Unpublished, Executing
<1> QED
  BY <1>1, <1>2, <1>3 DEF Executing

(* A request returns from its execution: it rests, it was let through, or  *)
(* its write looks at what became of the Job.                              *)
LEMMA ReturnFields ==
    ASSUME IInv, NEW p \in Procs, proc[p].pc \in Executing, NEW ok \in BOOLEAN, Return(p, ok)
    PROVE  /\ proc' \in [Procs -> ProcRows]
           /\ Others(p)
           /\ \/ admitted' = admitted
              \/ ok /\ proc[p].kind = "write" /\ admitted' = admitted \cup {proc[p].date}
           /\ KindIsSound(p)' /\ WorkIsSound(p)'
<1>t. RowsOK /\ KindIsSound(p)
  BY DEF IInv
<1>1. CASE proc' = [proc EXCEPT ![p] = Idle]
  <2>1. proc' \in [Procs -> ProcRows] /\ Others(p) /\ Rests(p)
    BY <1>1, <1>t, RefuseFields
  <2>2. KindIsSound(p)' /\ WorkIsSound(p)'
    BY <2>1, RestIsSound
  <2> QED
    BY <2>1, <2>2 DEF Return, Refuse, Admit
<1>2. CASE Goto(p, "after") /\ UNCHANGED admitted /\ proc[p].kind = "write"
  <2>1. proc' \in [Procs -> ProcRows] /\ Others(p) /\ Moves(p, "after")
    BY <1>2, <1>t, GotoFields DEF Points
  <2>2. KindIsSound(p)'
    BY <2>1, <1>2, <1>t DEF KindIsSound, Moves, Executing
  <2>3. WorkIsSound(p)'
    BY <2>1 DEF WorkIsSound, Moves, Claimed, Unpublished, Executing
  <2> QED
    BY <1>2, <2>1, <2>2, <2>3
<1> QED
  BY <1>1, <1>2 DEF Return, Refuse, Admit

(* Nothing happened to the rows.                                           *)
LEMMA RowsStay ==
    ASSUME NEW e \in BOOLEAN, UNCHANGED <<status, published, waiver, arts>>
    PROVE  RowsForward(e)
  BY DEF RowsForward

(* Stored Jobs stay, so the rows of the dates stay sound.                  *)
LEMMA StoredStays ==
    ASSUME IInv, NEW e \in BOOLEAN, RowsForward(e), UNCHANGED admission
    PROVE  AdmissionIsStored'
<1>1. SUFFICES ASSUME NEW d \in Dates, admission[d] # None
               PROVE  admission[d] \in DailyOf(d) /\ status'[admission[d]] # "absent"
  BY DEF AdmissionIsStored
<1>2. admission[d] \in DailyOf(d) /\ status[admission[d]] # "absent"
  BY <1>1 DEF IInv, AdmissionIsStored
<1>3. admission[d] \in Jobs
  BY <1>2, Names
<1> QED
  BY <1>2, <1>3 DEF RowsForward

(* A step of the request that executes.                                    *)
LEMMA ExecKept ==
    ASSUME IInv, NEW p \in Procs, proc[p].pc \in Executing, RowsOK', RowsForward(TRUE), Others(p),
           KindIsSound(p)', WorkIsSound(p)', UNCHANGED admission,
           \A d \in admitted' \ admitted : Covered(d)',
           BoundaryHolds', LostJobLeavesNothing', OneArtifact'
    PROVE  IInv'
<1>1. \A q \in Procs \ {p} : proc'[q] = proc[q] /\ proc[q].pc \notin Executing
  BY DEF IInv, OneExecutes, Others
<1>2. OneExecutes'
  BY <1>1 DEF OneExecutes
<1>3. \A q \in Procs : \/ proc'[q] = proc[q] /\ proc[q].pc \notin Executing
                       \/ (KindIsSound(q) /\ WorkIsSound(q))'
  BY <1>1
<1>4. AdmissionIsStored'
  BY StoredStays
<1> QED
  BY <1>2, <1>3, <1>4, BackupKept

(* A step of a request outside an execution, or the one that starts it.    *)
LEMMA RequestKept ==
    ASSUME IInv, NEW p \in Procs, RowsOK', RowsForward(FALSE), Others(p),
           proc'[p].pc \in Executing => ~Locked,
           KindIsSound(p)', WorkIsSound(p)', AdmissionIsStored',
           \A d \in admitted' \ admitted : Covered(d)', UNCHANGED <<published, cancelGen, arts>>
    PROVE  IInv'
<1>t. RowsOK
  BY DEF IInv
<1>2. OneExecutes'
  BY DEF IInv, OneExecutes, Others, Locked
<1>3. \A q \in Procs : \/ proc'[q] = proc[q]
                       \/ (KindIsSound(q) /\ WorkIsSound(q))'
  BY DEF Others
<1>4. BoundaryHolds'
  BY DEF IInv, BoundaryHolds, RowsForward
<1>5. OneArtifact'
  BY DEF IInv, OneArtifact
<1>6. LostJobLeavesNothing'
  BY DEF IInv, LostJobLeavesNothing, RowsForward
<1> QED
  BY <1>2, <1>3, <1>4, <1>5, <1>6, BackupKept

-----------------------------------------------------------------------------
(* The executing request moves its Job.                                    *)

LEMMA StatusStays ==
    ASSUME IInv, UNCHANGED <<status, published, arts, cancelGen, waiver>>
    PROVE  /\ status' \in [Jobs -> Status \cup {"absent"}]
           /\ RowsForward(TRUE) /\ BoundaryHolds' /\ LostJobLeavesNothing' /\ OneArtifact'
<1>1. RowsForward(TRUE)
  BY RowsStay
<1>2. BoundaryHolds'
  BY DEF IInv, BoundaryHolds
<1>3. LostJobLeavesNothing'
  BY DEF IInv, LostJobLeavesNothing
<1>4. OneArtifact'
  BY DEF IInv, OneArtifact
<1> QED
  BY <1>1, <1>2, <1>3, <1>4 DEF IInv, RowsOK

LEMMA StatusMoves ==
    ASSUME IInv, NEW j \in Jobs, NEW s \in {"running", "succeeded", "failed", "canceled"},
           status' = [status EXCEPT ![j] = s], status[j] # "absent", ~Terminal(status[j]),
           s \in {"failed", "canceled"} => Restorable(j) = {},
           UNCHANGED <<published, arts, cancelGen, waiver>>
    PROVE  /\ status' \in [Jobs -> Status \cup {"absent"}] /\ status'[j] = s
           /\ RowsForward(TRUE) /\ BoundaryHolds' /\ LostJobLeavesNothing' /\ OneArtifact'
<1>t. status \in [Jobs -> Status \cup {"absent"}]
  BY DEF IInv, RowsOK
<1>1. status' \in [Jobs -> Status \cup {"absent"}] /\ status'[j] = s
      /\ \A k \in Jobs : k = j \/ status'[k] = status[k]
  BY <1>t DEF Status
<1>2. \A d \in Dates, m \in 0..MaxTry :
         ~(status[Daily(d, m)] = "absent" /\ status'[Daily(d, m)] # "absent")
  BY <1>1, Names
<1>3. RowsForward(TRUE)
  BY <1>1, <1>2 DEF RowsForward
<1>4. BoundaryHolds'
  BY <1>1 DEF IInv, BoundaryHolds
<1>5. LostJobLeavesNothing'
  <2>1. SUFFICES ASSUME NEW a \in arts, a.ok, a.of \in Jobs
                 PROVE  cancelGen[a.of] = 0 /\ status'[a.of] \in {"running", "succeeded"}
    BY DEF LostJobLeavesNothing
  <2>2. cancelGen[a.of] = 0 /\ status[a.of] \in {"running", "succeeded"}
    BY <2>1 DEF IInv, LostJobLeavesNothing
  <2>3. a.of = j => a \in Restorable(j)
    BY <2>1 DEF Restorable
  <2> QED
    BY <2>2, <2>3, <1>1
<1>6. OneArtifact'
  BY DEF IInv, OneArtifact
<1> QED
  BY <1>1, <1>3, <1>4, <1>5, <1>6

LEMMA ReturnKept ==
    ASSUME IInv, NEW p \in Procs, proc[p].pc \in Executing, NEW ok \in BOOLEAN, Return(p, ok),
           RowsForward(TRUE), BoundaryHolds', LostJobLeavesNothing', OneArtifact',
           status' \in [Jobs -> Status \cup {"absent"}], published' \in [Jobs -> BOOLEAN],
           NEW d, d = proc[p].date, ok /\ proc[p].kind = "write" => Covered(d)',
           UNCHANGED <<day, admission, waiver, cancelGen>>
    PROVE  IInv'
<1>t. RowsOK /\ KindIsSound(p)
  BY DEF IInv
<1>1. /\ proc' \in [Procs -> ProcRows]
      /\ Others(p)
      /\ \/ admitted' = admitted
         \/ ok /\ proc[p].kind = "write" /\ admitted' = admitted \cup {proc[p].date}
      /\ KindIsSound(p)' /\ WorkIsSound(p)'
  BY ReturnFields
<1>2. admitted' \subseteq Dates /\ \A e \in admitted' \ admitted : Covered(e)'
  BY <1>1, <1>t DEF RowsOK, KindIsSound
<1>3. RowsOK'
  BY <1>1, <1>2, <1>t DEF RowsOK
<1> QED
  BY <1>1, <1>2, <1>3, ExecKept

(* The execution goes on: the step it goes to has what it needs.           *)
LEMMA GoesOn ==
    ASSUME IInv, NEW p \in Procs, proc[p].pc \in Executing, NEW l \in Executing \ {"claim", "fail", "end"},
           Goto(p, l), RowsForward(TRUE), BoundaryHolds', LostJobLeavesNothing', OneArtifact',
           status' \in [Jobs -> Status \cup {"absent"}], published' \in [Jobs -> BOOLEAN],
           proc[p].job \in Jobs => status'[proc[p].job] = "running",
           NEW c, c = proc[p].job, l \in Unpublished => Restorable(c)' = {},
           l = "publish" /\ proc[p].job \in Jobs => published'[proc[p].job],
           l = "gate" => proc[p].job \in Jobs,
           UNCHANGED <<day, admission, waiver, cancelGen, admitted>>
    PROVE  IInv'
<1>t. RowsOK /\ KindIsSound(p)
  BY DEF IInv
<1>1. proc' \in [Procs -> ProcRows] /\ Others(p) /\ Moves(p, l)
  BY <1>t, GotoFields DEF Points
<1>2. KindIsSound(p)'
  <2>1. proc[p].job \in Jobs <=> proc[p].kind # "release"
    BY <1>t DEF KindIsSound
  <2>2. proc[p].kind = "write" => proc[p].job \in DailyOf(proc[p].date)
    BY <1>t DEF KindIsSound, Executing
  <2>3. proc[p].kind \in {"write", "retry"} => proc[p].date \in Dates
    BY <1>t DEF KindIsSound
  <2> QED
    BY <1>1, <2>1, <2>2, <2>3 DEF KindIsSound, Moves, Executing
<1>3. WorkIsSound(p)'
  BY <1>1 DEF WorkIsSound, Moves, Executing, Claimed, Unpublished, Restorable
<1>4. RowsOK'
  BY <1>1, <1>t DEF RowsOK
<1> QED
  BY <1>1, <1>2, <1>3, <1>4, ExecKept

(* An execution fails and goes on to end its Job, or a release returns.    *)
LEMMA FailKept ==
    ASSUME IInv, NEW p \in Procs, proc[p].pc \in Executing, NEW why \in {"failed", "canceled"},
           Fail(p, why), RowsForward(TRUE), BoundaryHolds', LostJobLeavesNothing', OneArtifact',
           UNCHANGED status, published' \in [Jobs -> BOOLEAN],
           proc[p].job \in Jobs => status[proc[p].job] = "running",
           NEW c, c = proc[p].job, Restorable(c)' = {},
           UNCHANGED <<day, admission, waiver, cancelGen>>
    PROVE  IInv'
<1>t. RowsOK /\ KindIsSound(p)
  BY DEF IInv
<1>s. status' \in [Jobs -> Status \cup {"absent"}]
  BY <1>t DEF RowsOK
<1>1. CASE proc[p].kind = "release"
  BY <1>1, <1>s, ReturnKept DEF Fail
<1>2. CASE proc[p].kind # "release"
  <2>1. proc' = [proc EXCEPT ![p] = [[proc[p] EXCEPT !.pc = "fail"] EXCEPT !.seen = why]] /\ admitted' = admitted
    BY <1>2, <1>t DEF Fail, RowsOK, ProcRows
  <2>2. proc[p] \in ProcRows /\ "fail" \in Points /\ why \in Status \cup {"absent"}
    BY <1>t DEF RowsOK, Points, Executing, Status
  <2>3. PICK r : r = [proc[p] EXCEPT !.pc = "fail"]
    OBVIOUS
  <2>4. r \in ProcRows /\ r.pc = "fail" /\ r.kind = proc[p].kind /\ r.job = proc[p].job /\ r.date = proc[p].date
    BY <2>2, <2>3 DEF ProcRows
  <2>9. PICK q : q = [r EXCEPT !.seen = why]
    OBVIOUS
  <2>10. q \in ProcRows /\ q.pc = "fail" /\ q.kind = proc[p].kind /\ q.job = proc[p].job
         /\ q.date = proc[p].date /\ q.seen = why
    BY <2>2, <2>4, <2>9 DEF ProcRows
  <2>5. proc' \in [Procs -> ProcRows] /\ Others(p) /\ proc'[p] = q
    BY <2>1, <2>3, <2>9, <2>10, <1>t DEF RowsOK, Others
  <2>6. KindIsSound(p)'
    <3>1. proc[p].job \in Jobs <=> proc[p].kind # "release"
      BY <1>t DEF KindIsSound
    <3>2. proc[p].kind = "write" => proc[p].job \in DailyOf(proc[p].date)
      BY <1>t DEF KindIsSound, Executing
    <3>3. proc[p].kind \in {"write", "retry"} => proc[p].date \in Dates
      BY <1>t DEF KindIsSound
    <3> QED
      BY <1>2, <2>10, <2>5, <3>1, <3>2, <3>3 DEF KindIsSound, Executing
  <2>7. WorkIsSound(p)'
    BY <2>10, <2>5 DEF WorkIsSound, Executing, Claimed, Unpublished, Restorable
  <2>8. RowsOK'
    BY <2>1, <2>5, <1>t, <1>s DEF RowsOK
  <2> QED
    BY <2>1, <2>5, <2>6, <2>7, <2>8, ExecKept
<1> QED
  BY <1>1, <1>2

-----------------------------------------------------------------------------
(* The steps of an execution.                                              *)

LEMMA ClaimKept ==
    ASSUME IInv, NEW p \in Procs, Claim(p)
    PROVE  IInv'
<1>t. RowsOK /\ KindIsSound(p) /\ WorkIsSound(p)
  BY DEF IInv
<1>e. proc[p].pc = "claim" /\ proc[p].pc \in Executing
  BY DEF Claim, At, Executing
<1>j. PICK j \in Jobs : j = proc[p].job /\ status[j] # "absent" /\ status[j] # "interrupted"
  BY <1>t, <1>e DEF KindIsSound, WorkIsSound, Executing, IInv, BoundaryHolds
<1>d. PICK d : d = proc[p].date
  OBVIOUS
<1>w. proc[p].kind = "write" => j \in DailyOf(d)
  BY <1>t, <1>e, <1>j, <1>d DEF KindIsSound
<1>u. /\ UNCHANGED <<day, admission, waiver, cancelGen, published, arts>>
      /\ published' \in [Jobs -> BOOLEAN]
  BY <1>t DEF Claim, today, disk, RowsOK
<1>1. ASSUME Return(p, FALSE), UNCHANGED status PROVE IInv'
  BY <1>1, <1>e, <1>u, <1>d, StatusStays, ReturnKept
<1>2. status[j] \in Status /\ cancelGen[j] \in 0..1
  BY <1>t, <1>j DEF RowsOK
<1>3. ASSUME status[j] = "queued", status' = [status EXCEPT ![j] = "running"], Return(p, FALSE)
      PROVE  IInv'
  <2>1. ~Terminal(status[j])
    BY <1>3 DEF Terminal
  <2>2. /\ status' \in [Jobs -> Status \cup {"absent"}]
        /\ RowsForward(TRUE) /\ BoundaryHolds' /\ LostJobLeavesNothing' /\ OneArtifact'
    BY <1>3, <1>j, <1>u, <2>1, StatusMoves
  <2> QED
    BY <1>3, <1>e, <1>u, <1>d, <2>2, ReturnKept
<1>4. CASE /\ Fails(p)
           /\ status' \in {status, [status EXCEPT ![j] = IF @ = "queued" /\ cancelGen[j] = 0
                                                       THEN "running" ELSE @]}
           /\ Return(p, FALSE)
  <2>1. status' = status \/ (status[j] = "queued" /\ status' = [status EXCEPT ![j] = "running"])
    BY <1>4, <1>t DEF RowsOK
  <2> QED
    BY <2>1, <1>4, <1>1, <1>3
<1>5. CASE /\ Terminal(status[j])
           /\ Return(p, status[j] = "succeeded" /\ \E a \in Restorable(j) : a.id = result[j])
           /\ UNCHANGED status
  <2>1. PICK ok \in BOOLEAN : ok = (status[j] = "succeeded" /\ \E a \in Restorable(j) : a.id = result[j])
    OBVIOUS
  <2>2. Return(p, ok)
    BY <1>5, <2>1
  <2>3. ok /\ proc[p].kind = "write" => Covered(d)'
    BY <2>1, <1>5, <1>w DEF Covered
  <2> QED
    BY <2>2, <2>3, <1>5, <1>e, <1>u, <1>d, StatusStays, ReturnKept
<1>6. CASE ~Terminal(status[j]) /\ cancelGen[j] > 0 /\ status' = [status EXCEPT ![j] = "canceled"] /\ Return(p, FALSE)
  <2>1. Restorable(j) = {}
    <3>1. \A a \in Restorable(j) : cancelGen[j] = 0
      BY <1>j DEF IInv, LostJobLeavesNothing, Restorable
    <3> QED
      BY <3>1, <1>6, <1>2
  <2>2. /\ status' \in [Jobs -> Status \cup {"absent"}]
        /\ RowsForward(TRUE) /\ BoundaryHolds' /\ LostJobLeavesNothing' /\ OneArtifact'
    BY <1>6, <1>j, <1>u, <2>1, StatusMoves
  <2> QED
    BY <1>6, <1>e, <1>u, <1>d, <2>2, ReturnKept
<1>7. CASE /\ ~Terminal(status[j]) /\ Goto(p, "find") /\ UNCHANGED admitted
           /\ status' = [status EXCEPT ![j] = IF @ = "queued" THEN "running" ELSE @]
  <2>1. status' = [status EXCEPT ![j] = "running"]
    BY <1>7, <1>2, <1>j, <1>t DEF Status, Terminal, RowsOK
  <2>2. /\ status' \in [Jobs -> Status \cup {"absent"}] /\ status'[j] = "running"
        /\ RowsForward(TRUE) /\ BoundaryHolds' /\ LostJobLeavesNothing' /\ OneArtifact'
    BY <1>7, <1>j, <1>u, <2>1, StatusMoves
  <2>3. "find" \in Executing \ {"claim", "fail", "end"} /\ "find" \notin Unpublished
    BY DEF Executing, Unpublished
  <2> QED
    BY <1>7, <1>j, <1>e, <1>u, <2>2, <2>3, GoesOn
<1>8. \/ Return(p, FALSE) /\ UNCHANGED status
      \/ /\ Fails(p)
         /\ status' \in {status, [status EXCEPT ![j] = IF @ = "queued" /\ cancelGen[j] = 0
                                                       THEN "running" ELSE @]}
         /\ Return(p, FALSE)
      \/ /\ Terminal(status[j])
         /\ Return(p, status[j] = "succeeded" /\ \E a \in Restorable(j) : a.id = result[j])
         /\ UNCHANGED status
      \/ ~Terminal(status[j]) /\ cancelGen[j] > 0 /\ status' = [status EXCEPT ![j] = "canceled"] /\ Return(p, FALSE)
      \/ /\ ~Terminal(status[j]) /\ Goto(p, "find") /\ UNCHANGED admitted
         /\ status' = [status EXCEPT ![j] = IF @ = "queued" THEN "running" ELSE @]
  BY <1>j DEF Claim
<1> QED
  BY <1>1, <1>4, <1>5, <1>6, <1>7, <1>8

(* The other steps that leave the Jobs alone.                              *)
LEMMA StepsKept ==
    ASSUME IInv, NEW p \in Procs,
           FindPublished(p) \/ Copy(p) \/ SealBackupResult(p) \/ Prune(p) \/ Trash(p)
    PROVE  IInv'
<1>t. RowsOK /\ KindIsSound(p) /\ WorkIsSound(p)
  BY DEF IInv
<1>e. proc[p].pc \in {"find", "copy", "seal", "prune", "trash"} /\ proc[p].pc \in Executing /\ proc[p].pc \in Claimed
  BY DEF FindPublished, Copy, SealBackupResult, Prune, Trash, At, Executing, Claimed
<1>c. PICK c : c = proc[p].job /\ (c \in Jobs => status[c] = "running")
  BY <1>t, <1>e DEF WorkIsSound
<1>d. PICK d : d = proc[p].date
  OBVIOUS
<1>u. /\ UNCHANGED <<day, admission, waiver, status, cancelGen, published, arts>>
      /\ published' \in [Jobs -> BOOLEAN]
  BY <1>t DEF FindPublished, Copy, SealBackupResult, Prune, Trash, days, today, jobs, disk, RowsOK
<1>s. /\ status' \in [Jobs -> Status \cup {"absent"}]
      /\ RowsForward(TRUE) /\ BoundaryHolds' /\ LostJobLeavesNothing' /\ OneArtifact'
  BY <1>u, StatusStays
<1>r. Restorable(c)' = Restorable(c)
  BY <1>u DEF Restorable
<1>1. ASSUME Return(p, FALSE) PROVE IInv'
  BY <1>1, <1>e, <1>u, <1>d, <1>s, ReturnKept
<1>2. ASSUME NEW l \in {"seal", "prune", "finish", "trash", "remove"}, Goto(p, l), UNCHANGED admitted PROVE IInv'
  <2>1. l \in Executing \ {"claim", "fail", "end"} /\ l \notin Unpublished /\ l # "gate" /\ l # "publish"
    BY DEF Executing, Unpublished
  <2> QED
    BY <1>2, <1>c, <1>e, <1>u, <1>s, <2>1, GoesOn
<1>3. CASE FindPublished(p)
  <2>1. CASE Restorable(c) = {} /\ Goto(p, "copy") /\ UNCHANGED admitted
    <3>0. PICK l \in {"copy"} : l = "copy"
      OBVIOUS
    <3>1. l \in Executing \ {"claim", "fail", "end"}
      BY DEF Executing
    <3>5. Goto(p, l) /\ (l = "gate" => proc[p].job \in Jobs) /\ (l = "publish" => proc[p].job \notin Jobs)
      BY <2>1, <3>0
    <3>2. Restorable(c)' = {}
      BY <2>1, <1>r
    <3>3. proc[p].job \in Jobs => status'[proc[p].job] = "running"
      BY <1>c, <1>u
    <3> QED
      BY <2>1, <3>1, <3>2, <3>3, <3>5, <1>c, <1>e, <1>u, <1>s, GoesOn
  <2> QED
    BY <1>3, <1>c, <1>1, <1>2, <2>1 DEF FindPublished
<1>4. CASE Copy(p)
  <2>1. Restorable(c) = {}
    BY <1>4, <1>c, <1>t DEF Copy, At, WorkIsSound, Unpublished
  <2>2. ASSUME NEW why \in {"failed", "canceled"}, Fail(p, why) PROVE IInv'
    BY <2>1, <2>2, <1>c, <1>e, <1>u, <1>s, <1>r, FailKept
  <2>3. CASE Goto(p, IF c \in Jobs THEN "gate" ELSE "publish") /\ UNCHANGED admitted
    <3>1. PICK l \in {"gate", "publish"} : l = IF c \in Jobs THEN "gate" ELSE "publish"
      OBVIOUS
    <3>2. l \in Executing \ {"claim", "fail", "end"}
      BY DEF Executing
    <3>3. Restorable(c)' = {}
      BY <2>1, <1>r
    <3>4. proc[p].job \in Jobs => status'[proc[p].job] = "running"
      BY <1>c, <1>u
    <3>5. Goto(p, l) /\ (l = "gate" => proc[p].job \in Jobs) /\ (l = "publish" => proc[p].job \notin Jobs)
      BY <2>3, <3>1, <1>c
    <3> QED
      BY <2>3, <3>2, <3>3, <3>4, <3>5, <1>c, <1>e, <1>u, <1>s, GoesOn
  <2> QED
    BY <1>4, <1>c, <2>2, <2>3 DEF Copy
<1>5. CASE SealBackupResult(p)
  BY <1>5, <1>1, <1>2 DEF SealBackupResult
<1>6. CASE Prune(p)
  BY <1>6, <1>2 DEF Prune, days
<1>7. CASE Trash(p)
  BY <1>7, <1>2 DEF Trash, Skip, days
<1> QED
  BY <1>3, <1>4, <1>5, <1>6, <1>7

LEMMA GateKept ==
    ASSUME IInv, NEW p \in Procs, Gate(p)
    PROVE  IInv'
<1>t. RowsOK /\ KindIsSound(p) /\ WorkIsSound(p)
  BY DEF IInv
<1>e. proc[p].pc = "gate" /\ proc[p].pc \in Executing
  BY DEF Gate, At, Executing
<1>c. PICK c \in Jobs : c = proc[p].job /\ status[c] = "running"
  BY <1>t, <1>e DEF KindIsSound, WorkIsSound, Executing, Claimed
<1>u. UNCHANGED <<day, admission, waiver, status, cancelGen, arts>>
  BY DEF Gate, today, disk
<1>1. Restorable(c)' = {}
  BY <1>t, <1>e, <1>c, <1>u DEF WorkIsSound, Unpublished, Restorable
<1>2. /\ published' \in [Jobs -> BOOLEAN]
      /\ \A j \in Jobs : published[j] => published'[j]
      /\ \A j \in Jobs : published'[j] => published[j] \/ cancelGen[j] = 0
      /\ Goto(p, "publish") => published'[c]
  <2>1. CASE UNCHANGED published /\ Fail(p, "canceled")
    <3>1. ~Goto(p, "publish")
      <4>1. proc[p] \in ProcRows /\ Idle.pc = "idle"
        BY <1>t, IdleIsRow DEF RowsOK
      <4>2. Goto(p, "publish") => proc'[p].pc = "publish"
        BY <1>t DEF Goto, RowsOK, ProcRows
      <4>3. proc'[p].pc # "publish"
        BY <2>1, <4>1, <1>t DEF Fail, Return, Refuse, Admit, Goto, RowsOK, ProcRows
      <4> QED
        BY <4>2, <4>3
    <3> QED
      BY <2>1, <3>1, <1>t DEF RowsOK
  <2>2. CASE published' = [published EXCEPT ![c] = TRUE] /\ cancelGen[c] = 0
    BY <2>2, <1>t DEF RowsOK
  <2> QED
    BY <2>1, <2>2, <1>c DEF Gate, BeginPublication
<1>3. RowsForward(TRUE)
  BY <1>2, <1>u DEF RowsForward
<1>4. BoundaryHolds'
  <2>1. \A j \in Jobs : published'[j] => cancelGen[j] = 0
    BY <1>2 DEF IInv, BoundaryHolds
  <2>2. \A a \in arts : a.of \in Jobs => published'[a.of]
    BY <1>2 DEF IInv, BoundaryHolds
  <2>3. \A j \in Jobs : status[j] # "interrupted"
    BY DEF IInv, BoundaryHolds
  <2> QED
    BY <2>1, <2>2, <2>3, <1>u DEF BoundaryHolds
<1>5. LostJobLeavesNothing' /\ OneArtifact' /\ status' \in [Jobs -> Status \cup {"absent"}]
  BY <1>u DEF IInv, RowsOK, LostJobLeavesNothing, OneArtifact
<1>6. ASSUME NEW why \in {"failed", "canceled"}, Fail(p, why) PROVE IInv'
  BY <1>1, <1>2, <1>3, <1>4, <1>5, <1>6, <1>c, <1>e, <1>u, FailKept
<1>7. CASE Goto(p, "publish") /\ UNCHANGED admitted
  <2>1. PICK l \in {"publish"} : l = "publish"
    OBVIOUS
  <2>2. l \in Executing \ {"claim", "fail", "end"} /\ l # "gate"
    BY DEF Executing
  <2>3. Goto(p, l) /\ published'[proc[p].job] /\ status'[proc[p].job] = "running"
    BY <1>7, <2>1, <1>2, <1>c, <1>u
  <2> QED
    BY <1>1, <1>2, <1>3, <1>4, <1>5, <1>7, <2>2, <2>3, <1>c, <1>e, <1>u, GoesOn
<1> QED
  BY <1>6, <1>7 DEF Gate

LEMMA PublishKept ==
    ASSUME IInv, NEW p \in Procs, Publish(p)
    PROVE  IInv'
<1>t. RowsOK /\ KindIsSound(p) /\ WorkIsSound(p)
  BY DEF IInv
<1>e. proc[p].pc = "publish" /\ proc[p].pc \in Executing
  BY DEF Publish, At, Executing
<1>c. PICK c : c = proc[p].job /\ (c \in Jobs => status[c] = "running" /\ published[c])
  BY <1>t, <1>e DEF WorkIsSound, Executing, Claimed
<1>u. /\ UNCHANGED <<day, admission, waiver, status, cancelGen, published>>
      /\ published' \in [Jobs -> BOOLEAN] /\ status' \in [Jobs -> Status \cup {"absent"}]
  BY <1>t DEF Publish, today, jobs, RowsOK
<1>1. Restorable(c) = {}
  BY <1>t, <1>e, <1>c DEF WorkIsSound, Unpublished
<1>2. CASE UNCHANGED arts /\ Fail(p, IF proc[p].aborted THEN "canceled" ELSE "failed")
  <2>1. PICK why \in {"failed", "canceled"} : Fail(p, why)
    BY <1>2
  <2>2. Restorable(c)' = {}
    BY <1>1, <1>2 DEF Restorable
  <2>3. RowsForward(TRUE) /\ BoundaryHolds' /\ LostJobLeavesNothing' /\ OneArtifact'
    BY <1>2, <1>u, StatusStays
  <2> QED
    BY <2>1, <2>2, <2>3, <1>c, <1>e, <1>u, FailKept
<1>3. ASSUME arts' = arts \cup {[id |-> clock', of |-> proc[p].job, ok |-> TRUE]}, Goto(p, "seal"), UNCHANGED admitted
      PROVE  IInv'
  <2>1. PICK new : new = [id |-> clock', of |-> proc[p].job, ok |-> TRUE]
    OBVIOUS
  <2>2. arts' = arts \cup {new} /\ new.of = c /\ new.ok
    BY <1>3, <2>1, <1>c
  <2>3. RowsForward(TRUE)
    BY <1>u DEF RowsForward
  <2>4. BoundaryHolds'
    BY <1>u, <1>c, <2>2 DEF IInv, BoundaryHolds
  <2>5. LostJobLeavesNothing'
    <3>1. SUFFICES ASSUME NEW a \in arts', a.ok, a.of \in Jobs
                   PROVE  cancelGen[a.of] = 0 /\ status[a.of] \in {"running", "succeeded"}
      BY <1>u DEF LostJobLeavesNothing
    <3>2. CASE a \in arts
      BY <3>1, <3>2 DEF IInv, LostJobLeavesNothing
    <3>3. CASE a = new
      BY <3>1, <3>3, <2>2, <1>c DEF IInv, BoundaryHolds
    <3> QED
      BY <3>2, <3>3, <2>2
  <2>6. OneArtifact'
    <3>1. \A a \in arts : a.ok => a.of # c
      BY <1>1 DEF Restorable
    <3> QED
      BY <3>1, <2>2 DEF IInv, OneArtifact
  <2>7. PICK l \in {"seal"} : l = "seal"
    OBVIOUS
  <2>8. l \in Executing \ {"claim", "fail", "end"} /\ l # "gate" /\ l # "publish" /\ l \notin Unpublished
    BY DEF Executing, Unpublished
  <2>9. Goto(p, l) /\ (proc[p].job \in Jobs => status'[proc[p].job] = "running")
    BY <1>3, <2>7, <1>c, <1>u
  <2> QED
    BY <1>3, <2>3, <2>4, <2>5, <2>6, <2>8, <2>9, <1>c, <1>e, <1>u, GoesOn
<1> QED
  BY <1>2, <1>3 DEF Publish

(* Retention unlists artifacts.                                            *)
LEMMA FewerArtifacts ==
    ASSUME IInv, UNCHANGED <<status, published, cancelGen, waiver>>,
           \A a \in arts' : a \in arts \/ (~a.ok /\ \E b \in arts : b.of = a.of)
    PROVE  /\ \A e \in BOOLEAN : RowsForward(e)
           /\ BoundaryHolds' /\ LostJobLeavesNothing' /\ OneArtifact'
<1>1. \A e \in BOOLEAN : RowsForward(e)
  BY DEF RowsForward
<1>2. BoundaryHolds'
  BY DEF IInv, BoundaryHolds
<1>3. LostJobLeavesNothing'
  BY DEF IInv, LostJobLeavesNothing
<1>4. OneArtifact'
  BY DEF IInv, OneArtifact
<1> QED
  BY <1>1, <1>2, <1>3, <1>4

LEMMA RemoveKept ==
    ASSUME IInv, NEW p \in Procs, Remove(p)
    PROVE  IInv'
<1>t. RowsOK /\ WorkIsSound(p)
  BY DEF IInv
<1>e. proc[p].pc \in Claimed /\ proc[p].pc \in Executing
  BY DEF Remove, At, Executing, Claimed
<1>c. PICK c : c = proc[p].job
  OBVIOUS
<1>u. /\ UNCHANGED <<day, admission, waiver, status, cancelGen, published, admitted>>
      /\ published' \in [Jobs -> BOOLEAN] /\ status' \in [Jobs -> Status \cup {"absent"}]
      /\ \A a \in arts' : a \in arts
  BY <1>t DEF Remove, days, today, jobs, RowsOK
<1>1. RowsForward(TRUE) /\ BoundaryHolds' /\ LostJobLeavesNothing' /\ OneArtifact'
  BY <1>u, FewerArtifacts
<1>2. PICK l \in {"finish", "trash"} : Goto(p, l)
  BY DEF Remove, Skip
<1>3. l \in Executing \ {"claim", "fail", "end"} /\ l # "gate" /\ l # "publish" /\ l \notin Unpublished
  BY DEF Executing, Unpublished
<1>4. proc[p].job \in Jobs => status'[proc[p].job] = "running"
  BY <1>t, <1>e, <1>u DEF WorkIsSound
<1> QED
  BY <1>1, <1>2, <1>3, <1>4, <1>c, <1>e, <1>u, GoesOn

LEMMA FinishKept ==
    ASSUME IInv, NEW p \in Procs, Finish(p)
    PROVE  IInv'
<1>t. RowsOK /\ KindIsSound(p) /\ WorkIsSound(p)
  BY DEF IInv
<1>e. proc[p].pc = "finish" /\ proc[p].pc \in Executing
  BY DEF Finish, At, Executing
<1>c. PICK c : c = proc[p].job /\ (c \in Jobs => status[c] = "running")
  BY <1>t, <1>e DEF WorkIsSound, Executing, Claimed
<1>d. PICK d : d = proc[p].date
  OBVIOUS
<1>w. proc[p].kind = "write" => c \in Jobs /\ c \in DailyOf(d)
  BY <1>t, <1>e, <1>c, <1>d DEF KindIsSound, Executing
<1>u. /\ UNCHANGED <<day, admission, waiver, cancelGen, published, arts>>
      /\ published' \in [Jobs -> BOOLEAN]
  BY <1>t DEF Finish, today, disk, RowsOK
<1>1. ASSUME NEW ok \in BOOLEAN, Return(p, ok), ok => c \notin Jobs, UNCHANGED status PROVE IInv'
  BY <1>1, <1>w, <1>e, <1>u, <1>d, StatusStays, ReturnKept
<1>2. ASSUME c \in Jobs, status' = [status EXCEPT ![c] = "succeeded"], Return(p, TRUE) PROVE IInv'
  <2>1. status[c] # "absent" /\ ~Terminal(status[c])
    BY <1>2, <1>c DEF Terminal
  <2>2. /\ status' \in [Jobs -> Status \cup {"absent"}] /\ status'[c] = "succeeded"
        /\ RowsForward(TRUE) /\ BoundaryHolds' /\ LostJobLeavesNothing' /\ OneArtifact'
    BY <1>2, <2>1, <1>u, StatusMoves
  <2>3. proc[p].kind = "write" => Covered(d)'
    BY <2>2, <1>w DEF Covered
  <2> QED
    BY <1>2, <2>2, <2>3, <1>e, <1>u, <1>d, ReturnKept
<1> QED
  BY <1>1, <1>2, <1>c DEF Finish

LEMMA ReadCurrentKept ==
    ASSUME IInv, NEW p \in Procs, ReadCurrent(p)
    PROVE  IInv'
<1>t. RowsOK /\ KindIsSound(p) /\ WorkIsSound(p)
  BY DEF IInv
<1>e. proc[p].pc = "fail" /\ proc[p].pc \in Executing
  BY DEF ReadCurrent, At, Executing
<1>c. PICK c \in Jobs : c = proc[p].job /\ status[c] = "running"
  BY <1>t, <1>e DEF KindIsSound, WorkIsSound, Executing, Claimed
<1>d. PICK d : d = proc[p].date
  OBVIOUS
<1>u. /\ UNCHANGED <<day, admission, waiver, status, cancelGen, published, arts>>
      /\ published' \in [Jobs -> BOOLEAN]
  BY <1>t DEF ReadCurrent, today, disk, jobs, RowsOK
<1>s. /\ status' \in [Jobs -> Status \cup {"absent"}]
      /\ RowsForward(TRUE) /\ BoundaryHolds' /\ LostJobLeavesNothing' /\ OneArtifact'
  BY <1>u, StatusStays
<1>1. CASE Return(p, FALSE)
  BY <1>1, <1>e, <1>u, <1>d, <1>s, ReturnKept
<1>g. PICK g \in 0..1 : g = cancelGen[proc[p].job]
  BY <1>t, <1>c DEF RowsOK
<1>2. CASE /\ proc' = [proc EXCEPT ![p].pc = "end", ![p].gen = g,
                                   ![p].seen = IF g > 0 THEN "canceled" ELSE @]
           /\ UNCHANGED admitted
  <2>1. PICK why \in {"failed", "canceled"} : why = IF g > 0 THEN "canceled" ELSE proc[p].seen
    BY <1>t, <1>e DEF WorkIsSound
  <2>2. proc[p] \in ProcRows /\ "end" \in Points /\ why \in Status \cup {"absent"}
    BY <1>t DEF RowsOK, Points, Executing, Status
  <2>3. PICK r : r = [proc[p] EXCEPT !.pc = "end"]
    OBVIOUS
  <2>4. r \in ProcRows /\ r.pc = "end" /\ r.kind = proc[p].kind /\ r.job = proc[p].job /\ r.date = proc[p].date
    BY <2>2, <2>3 DEF ProcRows
  <2>5. PICK s : s = [r EXCEPT !.gen = g]
    OBVIOUS
  <2>6. s \in ProcRows /\ s.pc = "end" /\ s.kind = proc[p].kind /\ s.job = proc[p].job /\ s.date = proc[p].date
    BY <2>4, <2>5 DEF ProcRows
  <2>7. PICK q : q = [s EXCEPT !.seen = why]
    OBVIOUS
  <2>8. q \in ProcRows /\ q.pc = "end" /\ q.kind = proc[p].kind /\ q.job = proc[p].job
        /\ q.date = proc[p].date /\ q.seen = why
    BY <2>2, <2>6, <2>7 DEF ProcRows
  <2>9. proc' = [proc EXCEPT ![p] = q]
    BY <1>2, <1>t, <2>1, <2>3, <2>5, <2>7 DEF RowsOK, ProcRows
  <2>10. proc' \in [Procs -> ProcRows] /\ Others(p) /\ proc'[p] = q
    BY <2>9, <2>8, <1>t DEF RowsOK, Others
  <2>11. KindIsSound(p)'
    <3>1. proc[p].kind = "write" => proc[p].job \in DailyOf(proc[p].date)
      BY <1>t, <1>e DEF KindIsSound
    <3>2. proc[p].kind \in {"write", "retry"} => proc[p].date \in Dates
      BY <1>t DEF KindIsSound
    <3>3. proc[p].kind # "release"
      BY <1>t, <1>e DEF KindIsSound
    <3> QED
      BY <1>c, <2>8, <2>10, <3>1, <3>2, <3>3 DEF KindIsSound, Executing
  <2>12. Restorable(c)' = {}
    BY <1>t, <1>e, <1>c, <1>u DEF WorkIsSound, Unpublished, Restorable
  <2>13. WorkIsSound(p)'
    BY <2>8, <2>10, <2>12, <1>c, <1>u DEF WorkIsSound, Executing, Claimed, Unpublished, Restorable
  <2>14. RowsOK'
    BY <1>2, <2>10, <1>t, <1>u DEF RowsOK
  <2> QED
    BY <1>2, <2>10, <2>11, <2>13, <2>14, <1>e, <1>u, <1>s, ExecKept
<1> QED
  BY <1>1, <1>2, <1>g DEF ReadCurrent

LEMMA EndKept ==
    ASSUME IInv, NEW p \in Procs, End(p)
    PROVE  IInv'
<1>t. RowsOK /\ KindIsSound(p) /\ WorkIsSound(p)
  BY DEF IInv
<1>e. proc[p].pc = "end" /\ proc[p].pc \in Executing
  BY DEF End, At, Executing
<1>c. PICK c \in Jobs : c = proc[p].job /\ status[c] = "running"
  BY <1>t, <1>e DEF KindIsSound, WorkIsSound, Executing, Claimed
<1>d. PICK d : d = proc[p].date
  OBVIOUS
<1>s. PICK s \in {"failed", "canceled"} : s = proc[p].seen
  BY <1>t, <1>e DEF WorkIsSound
<1>u. /\ UNCHANGED <<day, admission, waiver, cancelGen, published, arts>>
      /\ published' \in [Jobs -> BOOLEAN] /\ Return(p, FALSE)
  BY <1>t DEF End, today, disk, RowsOK
<1>1. CASE UNCHANGED status
  BY <1>1, <1>e, <1>u, <1>d, StatusStays, ReturnKept
<1>2. CASE status' = [status EXCEPT ![c] = s]
  <2>1. status[c] # "absent" /\ ~Terminal(status[c])
    BY <1>c DEF Terminal
  <2>2. Restorable(c) = {}
    BY <1>t, <1>e, <1>c DEF WorkIsSound, Unpublished
  <2>3. /\ status' \in [Jobs -> Status \cup {"absent"}]
        /\ RowsForward(TRUE) /\ BoundaryHolds' /\ LostJobLeavesNothing' /\ OneArtifact'
    BY <1>2, <2>1, <2>2, <1>u, StatusMoves
  <2> QED
    BY <2>3, <1>e, <1>u, <1>d, ReturnKept
<1> QED
  BY <1>1, <1>2, <1>c, <1>s DEF End

-----------------------------------------------------------------------------
(* The steps of a request outside an execution.                            *)

LEMMA AdmitFields ==
    ASSUME IInv, NEW j \in Jobs, AdmitBackup(j)
    PROVE  /\ status' \in [Jobs -> Status \cup {"absent"}]
           /\ status'[j] = IF status[j] = "absent" THEN "queued" ELSE status[j]
           /\ \A k \in Jobs : k = j \/ status'[k] = status[k]
           /\ UNCHANGED <<cancelGen, published>>
<1>1. status \in [Jobs -> Status \cup {"absent"}]
  BY DEF IInv, RowsOK
<1> QED
  BY <1>1 DEF AdmitBackup, Status

(* A request starts, or takes a step, on the new row r.                    *)
LEMMA RowSet ==
    ASSUME RowsOK, NEW p \in Procs, NEW r \in ProcRows, proc' = [proc EXCEPT ![p] = r]
    PROVE  proc' \in [Procs -> ProcRows] /\ Others(p) /\ proc'[p] = r
  BY DEF RowsOK, Others

(* The row of each date is typed and names a stored backup of it.          *)
AdmissionOK == admission \in [Dates -> DailyJobs \cup {None}] /\ AdmissionIsStored

LEMMA AdmissionStays ==
    ASSUME IInv, UNCHANGED <<admission, status>>
    PROVE  AdmissionOK'
  BY DEF IInv, RowsOK, AdmissionOK, AdmissionIsStored

(* A step that changes the request and lets at most its own write through. *)
LEMMA QuietKept ==
    ASSUME IInv, NEW p \in Procs, proc' \in [Procs -> ProcRows], Others(p),
           AdmissionOK', UNCHANGED <<day, waiver, status, cancelGen, published, arts>>,
           proc'[p].pc \in Executing => ~Locked, KindIsSound(p)', WorkIsSound(p)',
           \A d \in admitted' \ admitted : d \in Dates /\ Covered(d)
    PROVE  IInv'
<1>t. RowsOK
  BY DEF IInv
<1>1. RowsOK'
  BY <1>t DEF RowsOK, AdmissionOK
<1>2. RowsForward(FALSE)
  BY RowsStay
<1>3. AdmissionIsStored'
  BY DEF AdmissionOK
<1>4. \A d \in admitted' \ admitted : Covered(d)'
  BY DEF Covered, Lost
<1> QED
  BY <1>1, <1>2, <1>3, <1>4, RequestKept

LEMMA RestKept ==
    ASSUME IInv, NEW p \in Procs, proc' = [proc EXCEPT ![p] = Idle],
           AdmissionOK', UNCHANGED <<day, waiver, status, cancelGen, published, arts>>,
           \A d \in admitted' \ admitted : d \in Dates /\ Covered(d)
    PROVE  IInv'
<1>1. proc' \in [Procs -> ProcRows] /\ Others(p) /\ Rests(p)
  BY RefuseFields DEF IInv
<1>2. KindIsSound(p)' /\ WorkIsSound(p)' /\ proc'[p].pc \notin Executing
  BY <1>1, RestIsSound
<1> QED
  BY <1>1, <1>2, QuietKept

(* A write of a date is let through on a success or on its waiver.         *)
LEMMA AdmitKept ==
    ASSUME IInv, NEW p \in Procs, proc[p].kind = "write", Admit(p), Covered(proc[p].date),
           AdmissionOK', UNCHANGED <<day, waiver, status, cancelGen, published, arts>>
    PROVE  IInv'
<1>1. KindIsSound(p)
  BY DEF IInv
<1>2. \A d \in admitted' \ admitted : d \in Dates /\ Covered(d)
  BY <1>1 DEF Admit, KindIsSound
<1> QED
  BY <1>2, RestKept DEF Admit

(* An admission whose Job was lost, or still runs, goes on.                *)
LEMMA GotoKept ==
    ASSUME IInv, NEW p \in Procs, proc[p].kind = "write", proc[p].job \in DailyOf(proc[p].date),
           NEW l \in {"waive", "lock"}, Goto(p, l),
           l = "waive" => Lost(proc[p].job), l = "lock" => status[proc[p].job] # "absent",
           AdmissionOK', UNCHANGED <<day, waiver, status, cancelGen, published, arts, admitted>>
    PROVE  IInv'
<1>t. RowsOK /\ KindIsSound(p)
  BY DEF IInv
<1>1. proc' \in [Procs -> ProcRows] /\ Others(p) /\ Moves(p, l)
  BY <1>t, GotoFields DEF Points
<1>2. proc[p].date \in Dates /\ proc[p].job \in Jobs
  BY <1>t, Names DEF KindIsSound
<1>3. KindIsSound(p)'
  BY <1>1, <1>2 DEF KindIsSound, Moves, Executing
<1>4. WorkIsSound(p)'
  BY <1>1, <1>2 DEF WorkIsSound, Moves, Lost, Claimed, Unpublished, Executing
<1>5. proc'[p].pc \notin Executing
  BY <1>1 DEF Moves, Executing
<1> QED
  BY <1>1, <1>3, <1>4, <1>5, QuietKept

LEMMA BeginWriteKept ==
    ASSUME IInv, NEW p \in Procs, BeginWrite(p)
    PROVE  IInv'
<1>t. RowsOK
  BY DEF IInv
<1>1. PICK d \in Dates : d = day /\ d \in 0..MaxDay
  BY <1>t, BackupAssumption DEF RowsOK, Dates
<1>2. PICK r : r = [Idle EXCEPT !.pc = "read", !.kind = "write", !.date = day]
  OBVIOUS
<1>3. r \in ProcRows /\ r.pc = "read" /\ r.kind = "write" /\ r.date = d
  <2>1. r = [[[Idle EXCEPT !.pc = "read"] EXCEPT !.kind = "write"] EXCEPT !.date = d]
    BY <1>1, <1>2 DEF Idle
  <2>2. PICK x : x = [Idle EXCEPT !.pc = "read"]
    OBVIOUS
  <2>3. x \in ProcRows /\ x.pc = "read"
    BY <2>2, IdleIsRow DEF ProcRows, Points
  <2>4. PICK y : y = [x EXCEPT !.kind = "write"]
    OBVIOUS
  <2>5. y \in ProcRows /\ y.pc = "read" /\ y.kind = "write"
    BY <2>3, <2>4 DEF ProcRows
  <2>6. r = [y EXCEPT !.date = d]
    BY <2>1, <2>2, <2>4
  <2> QED
    BY <1>1, <2>5, <2>6 DEF ProcRows
<1>4. proc' \in [Procs -> ProcRows] /\ Others(p) /\ proc'[p] = r
  BY <1>t, <1>2, <1>3, RowSet DEF BeginWrite
<1>5. KindIsSound(p)' /\ WorkIsSound(p)' /\ proc'[p].pc \notin Executing
  BY <1>3, <1>4 DEF KindIsSound, WorkIsSound, Claimed, Unpublished, Executing
<1>6. UNCHANGED <<day, admission, waiver, status, cancelGen, published, arts, admitted>>
  BY DEF BeginWrite, days, today, jobs, disk
<1>7. AdmissionOK'
  BY <1>6, AdmissionStays
<1> QED
  BY <1>4, <1>5, <1>6, <1>7, QuietKept

LEMMA ReadAdmissionKept ==
    ASSUME IInv, NEW p \in Procs, ReadAdmission(p)
    PROVE  IInv'
<1>t. RowsOK /\ KindIsSound(p)
  BY DEF IInv
<1>e. proc[p].pc = "read" /\ proc[p].kind = "write" /\ proc[p].date \in Dates /\ proc[p] \in ProcRows
  BY <1>t DEF ReadAdmission, At, KindIsSound, RowsOK
<1>b. PICK b \in DailyJobs \cup {None} : b = admission[proc[p].date]
  BY <1>t, <1>e DEF RowsOK
<1>1. b.try > 0 => b \in DailyOf(proc[p].date) /\ status[b] # "absent"
  <2>1. None.try = 0
    BY DEF None
  <2> QED
    BY <2>1, <1>b, <1>e DEF IInv, AdmissionIsStored
<1>2. PICK l : l = IF b.try > 0 THEN "decide" ELSE "submit"
  OBVIOUS
<1>3. PICK j : j = IF b.try > 0 THEN b ELSE None
  OBVIOUS
<1>4. j \in Commands \cup {None} /\ l \in Points
  BY <1>b, <1>2, <1>3, Names DEF Points
<1>5. PICK r : r = [proc[p] EXCEPT !.pc = l]
  OBVIOUS
<1>6. r \in ProcRows /\ r.pc = l /\ r.kind = "write" /\ r.date = proc[p].date
  BY <1>4, <1>5, <1>e DEF ProcRows
<1>7. PICK q : q = [r EXCEPT !.job = j]
  OBVIOUS
<1>8. q \in ProcRows /\ q.pc = l /\ q.kind = "write" /\ q.date = proc[p].date /\ q.job = j
  BY <1>4, <1>6, <1>7 DEF ProcRows
<1>9. proc' = [proc EXCEPT ![p] = q]
  BY <1>t, <1>b, <1>2, <1>3, <1>5, <1>7 DEF ReadAdmission, RowsOK, ProcRows
<1>10. proc' \in [Procs -> ProcRows] /\ Others(p) /\ proc'[p] = q
  BY <1>t, <1>8, <1>9, RowSet
<1>11. KindIsSound(p)'
  BY <1>e, <1>1, <1>2, <1>3, <1>8, <1>10 DEF KindIsSound, Executing
<1>12. UNCHANGED <<day, admission, waiver, status, cancelGen, published, arts, admitted>>
  BY DEF ReadAdmission, days, today, jobs, disk
<1>13. WorkIsSound(p)'
  BY <1>1, <1>2, <1>3, <1>8, <1>10, <1>12 DEF WorkIsSound, Claimed, Unpublished, Executing
<1>14. proc'[p].pc \notin Executing
  BY <1>2, <1>8, <1>10 DEF Executing
<1>15. AdmissionOK'
  BY <1>12, AdmissionStays
<1> QED
  BY <1>10, <1>11, <1>12, <1>13, <1>14, <1>15, QuietKept

(* AdmitBackup of a date's first attempt, of the attempt after a lost one, *)
(* or of a manual command.                                                 *)
LEMMA AdmitForward ==
    ASSUME IInv, NEW j \in Jobs, AdmitBackup(j), UNCHANGED <<waiver, arts>>,
           \A d \in Dates, m \in 0..MaxTry : j = Daily(d, m) => m = 0 \/ Lost(Daily(d, m - 1))
    PROVE  RowsForward(FALSE)
<1>1. /\ status'[j] = IF status[j] = "absent" THEN "queued" ELSE status[j]
      /\ \A k \in Jobs : k = j \/ status'[k] = status[k]
      /\ UNCHANGED <<cancelGen, published>>
  BY AdmitFields
<1>2. \A k \in Jobs :
         /\ status[k] # "absent" => status'[k] # "absent"
         /\ Terminal(status[k]) => status'[k] = status[k]
         /\ FALSE \/ status[k] = "absent" \/ status'[k] = status[k]
         /\ published[k] => published'[k]
         /\ status'[k] = "interrupted" => status[k] = "interrupted"
  BY <1>1 DEF Terminal
<1>3. \A d \in Dates, m \in 0..MaxTry :
         status[Daily(d, m)] = "absent" /\ status'[Daily(d, m)] # "absent" =>
             m = 0 \/ Lost(Daily(d, m - 1))
  <2>1. SUFFICES ASSUME NEW d \in Dates, NEW m \in 0..MaxTry,
                        status[Daily(d, m)] = "absent", status'[Daily(d, m)] # "absent"
                 PROVE  m = 0 \/ Lost(Daily(d, m - 1))
    OBVIOUS
  <2>2. Daily(d, m) \in Jobs
    BY Names
  <2>3. j = Daily(d, m)
    BY <1>1, <2>1, <2>2
  <2> QED
    BY <2>3
<1>4. (\A d \in Dates : waiver[d] # None => waiver'[d] = waiver[d]) /\ \A a \in arts' : a.ok => a \in arts
  OBVIOUS
<1> QED
  BY <1>2, <1>3, <1>4 DEF RowsForward

LEMMA SubmitKept ==
    ASSUME IInv, NEW p \in Procs, Submit(p)
    PROVE  IInv'
<1>t. RowsOK /\ KindIsSound(p)
  BY DEF IInv
<1>e. proc[p].pc = "submit" /\ proc[p].kind = "write" /\ proc[p].date \in Dates /\ proc[p] \in ProcRows
  BY <1>t DEF Submit, At, KindIsSound, RowsOK
<1>0. 0 \in 0..MaxTry
  BY BackupAssumption
<1>j. PICK j : j = Daily(proc[p].date, 0)
  OBVIOUS
<1>1. j \in Jobs /\ j \in Commands \cup {None} /\ j \in DailyOf(proc[p].date) /\ j.try = 0
  BY <1>0, <1>e, <1>j, Names
<1>2. /\ status' \in [Jobs -> Status \cup {"absent"}]
      /\ status'[j] = IF status[j] = "absent" THEN "queued" ELSE status[j]
      /\ UNCHANGED <<cancelGen, published>>
  BY <1>1, <1>j, AdmitFields DEF Submit
<1>u. UNCHANGED <<day, admission, waiver, admitted, arts>>
  BY DEF Submit, days, today, disk
<1>3. RowsForward(FALSE)
  <2>1. \A d \in Dates, m \in 0..MaxTry : j = Daily(d, m) => m = 0
    BY <1>1, Names
  <2>2. AdmitBackup(j)
    BY <1>j DEF Submit
  <2> QED
    BY <2>1, <2>2, <1>1, <1>u, AdmitForward
<1>s. PICK s \in Status \cup {"absent"} : s = status'[j]
  BY <1>1, <1>2
<1>4. PICK r : r = [proc[p] EXCEPT !.pc = "ensure"]
  OBVIOUS
<1>5. r \in ProcRows /\ r.pc = "ensure" /\ r.kind = "write" /\ r.date = proc[p].date
  BY <1>4, <1>e DEF ProcRows, Points
<1>6. PICK v : v = [r EXCEPT !.job = j]
  OBVIOUS
<1>7. v \in ProcRows /\ v.pc = "ensure" /\ v.kind = "write" /\ v.date = proc[p].date /\ v.job = j
  BY <1>1, <1>5, <1>6 DEF ProcRows
<1>8. PICK q : q = [v EXCEPT !.seen = s]
  OBVIOUS
<1>9. q \in ProcRows /\ q.pc = "ensure" /\ q.kind = "write" /\ q.date = proc[p].date /\ q.job = j /\ q.seen = s
  BY <1>7, <1>8 DEF ProcRows
<1>10. proc' = [proc EXCEPT ![p] = q]
  BY <1>t, <1>j, <1>s, <1>4, <1>6, <1>8 DEF Submit, RowsOK, ProcRows
<1>11. proc' \in [Procs -> ProcRows] /\ Others(p) /\ proc'[p] = q
  BY <1>t, <1>9, <1>10, RowSet
<1>12. KindIsSound(p)'
  BY <1>e, <1>1, <1>9, <1>11 DEF KindIsSound, Executing
<1>13. WorkIsSound(p)'
  BY <1>2, <1>s, <1>9, <1>11 DEF WorkIsSound, Claimed, Unpublished, Executing
<1>14. proc'[p].pc \notin Executing
  BY <1>9, <1>11 DEF Executing
<1>15. RowsOK'
  BY <1>t, <1>2, <1>u, <1>11 DEF RowsOK
<1>16. AdmissionIsStored'
  BY <1>3, <1>u, StoredStays
<1> QED
  BY <1>2, <1>3, <1>u, <1>11, <1>12, <1>13, <1>14, <1>15, <1>16, RequestKept

(* What the admission decides on the status s of its Job.                  *)
LEMMA DecideKept ==
    ASSUME IInv, NEW p \in Procs, proc[p].kind = "write", proc[p].job \in DailyOf(proc[p].date),
           NEW s, Decide(p, s), Terminal(s) => status[proc[p].job] = s,
           status[proc[p].job] # "absent",
           AdmissionOK', UNCHANGED <<day, waiver, status, cancelGen, published, arts>>
    PROVE  IInv'
<1>1. CASE s = "succeeded" /\ Admit(p)
  <2>1. Covered(proc[p].date)
    BY <1>1 DEF Covered, Terminal
  <2> QED
    BY <1>1, <2>1, AdmitKept
<1>2. CASE s \in {"failed", "canceled"} /\ Goto(p, "waive") /\ UNCHANGED admitted
  <2>1. Lost(proc[p].job)
    BY <1>2 DEF Lost, Terminal
  <2>2. PICK l \in {"waive", "lock"} : l = "waive"
    OBVIOUS
  <2> QED
    BY <1>2, <2>1, <2>2, GotoKept
<1>3. CASE ~Terminal(s) /\ Goto(p, "lock") /\ UNCHANGED admitted
  <2>2. PICK l \in {"waive", "lock"} : l = "lock"
    OBVIOUS
  <2> QED
    BY <1>3, <2>2, GotoKept
<1> QED
  BY <1>1, <1>2, <1>3 DEF Decide

LEMMA QuietAdmissionKept ==
    ASSUME IInv, NEW p \in Procs,
           DecideRetried(p) \/ AfterFailure(p) \/ RequireOrWaive(p) \/ Drop(p)
    PROVE  IInv'
<1>t. RowsOK /\ KindIsSound(p) /\ WorkIsSound(p)
  BY DEF IInv
<1>0. UNCHANGED <<admission, status>>
  BY DEF DecideRetried, AfterFailure, RequireOrWaive, Drop, days, today, jobs, disk
<1>u. AdmissionOK' /\ UNCHANGED <<day, waiver, status, cancelGen, published, arts>>
  BY <1>0, AdmissionStays DEF DecideRetried, AfterFailure, RequireOrWaive, Drop, days, today, jobs, disk
<1>1. ASSUME proc' = [proc EXCEPT ![p] = Idle], UNCHANGED admitted PROVE IInv'
  BY <1>1, <1>u, RestKept
<1>2. CASE DecideRetried(p)
  <2>1. proc[p].pc = "decide" /\ Decide(p, status[proc[p].job])
    BY <1>2 DEF DecideRetried, At
  <2>2. proc[p].kind = "write" /\ proc[p].job \in DailyOf(proc[p].date)
    BY <2>1, <1>t DEF KindIsSound
  <2>3. proc[p].job \in Jobs
    BY <2>2, <1>t, Names DEF KindIsSound
  <2>4. status[proc[p].job] # "absent"
    BY <2>1, <2>3, <1>t DEF WorkIsSound
  <2> QED
    BY <2>1, <2>2, <2>4, <1>u, DecideKept
<1>3. CASE AfterFailure(p)
  <2>1. proc[p].pc = "after" /\ UNCHANGED admitted
    BY <1>3 DEF AfterFailure, At, days
  <2>2. proc[p].kind = "write" /\ proc[p].job \in DailyOf(proc[p].date)
    BY <2>1, <1>t DEF KindIsSound
  <2>3. CASE Lost(proc[p].job) /\ Goto(p, "waive")
    <3>1. PICK l \in {"waive", "lock"} : l = "waive"
      OBVIOUS
    <3> QED
      BY <2>1, <2>2, <2>3, <3>1, <1>u, GotoKept
  <2> QED
    BY <1>1, <1>3, <2>1, <2>3 DEF AfterFailure, Lost
<1>4. CASE RequireOrWaive(p)
  <2>1. proc[p].pc = "waive"
    BY <1>4 DEF RequireOrWaive, At
  <2>2. proc[p].kind = "write" /\ proc[p].job \in DailyOf(proc[p].date) /\ Lost(proc[p].job)
    BY <2>1, <1>t DEF KindIsSound, WorkIsSound
  <2>3. CASE waiver[proc[p].date] = proc[p].job /\ Admit(p)
    <3>1. Covered(proc[p].date)
      BY <2>2, <2>3 DEF Covered
    <3> QED
      BY <2>2, <2>3, <3>1, <1>u, AdmitKept
  <2> QED
    BY <1>1, <1>4, <2>3 DEF RequireOrWaive, Refuse
<1>5. CASE Drop(p)
  BY <1>1, <1>5 DEF Drop, Refuse
<1> QED
  BY <1>2, <1>3, <1>4, <1>5

LEMMA EnsureKept ==
    ASSUME IInv, NEW p \in Procs, EnsureDailyAdmission(p)
    PROVE  IInv'
<1>t. RowsOK /\ KindIsSound(p) /\ WorkIsSound(p)
  BY DEF IInv
<1>e. /\ proc[p].pc = "ensure" /\ proc[p].kind = "write" /\ proc[p].date \in Dates
      /\ proc[p].job \in DailyOf(proc[p].date)
  BY <1>t DEF EnsureDailyAdmission, At, KindIsSound
<1>j. proc[p].job \in Jobs /\ proc[p].job \in DailyJobs
  BY <1>e, Names
<1>w. status[proc[p].job] # "absent" /\ (Terminal(proc[p].seen) => status[proc[p].job] = proc[p].seen)
  BY <1>t, <1>e, <1>j DEF WorkIsSound
<1>u. UNCHANGED <<day, waiver, status, cancelGen, published, arts>>
  BY DEF EnsureDailyAdmission, today, jobs, disk
<1>a. AdmissionOK'
  <2>1. admission' = [admission EXCEPT ![proc[p].date] = IF @ = None THEN proc[p].job ELSE @]
    BY DEF EnsureDailyAdmission
  <2>2. admission' \in [Dates -> DailyJobs \cup {None}]
        /\ \A d \in Dates : admission'[d] = admission[d] \/ (d = proc[p].date /\ admission'[d] = proc[p].job)
    BY <2>1, <1>j, <1>t DEF RowsOK
  <2>3. AdmissionIsStored'
    BY <2>2, <1>e, <1>w, <1>u DEF IInv, AdmissionIsStored
  <2> QED
    BY <2>2, <2>3 DEF AdmissionOK
<1>1. CASE Decide(p, proc[p].seen)
  BY <1>1, <1>a, <1>e, <1>w, <1>u, DecideKept
<1>2. CASE Refuse(p)
  BY <1>2, <1>a, <1>u, RestKept DEF Refuse
<1> QED
  BY <1>1, <1>2 DEF EnsureDailyAdmission

LEMMA ResubmitKept ==
    ASSUME IInv, NEW p \in Procs, Resubmit(p)
    PROVE  IInv'
<1>t. RowsOK /\ KindIsSound(p) /\ WorkIsSound(p)
  BY DEF IInv
<1>e. /\ proc[p].pc = "resubmit" /\ proc[p].kind = "retry" /\ proc[p].date \in Dates
      /\ proc[p].job \in DailyOf(proc[p].date) /\ Lost(proc[p].job) /\ proc[p].job.try < MaxTry
  BY <1>t DEF Resubmit, At, KindIsSound, WorkIsSound
<1>n. PICK n \in 0..MaxTry : n = proc[p].job.try /\ proc[p].job = Daily(proc[p].date, n) /\ n < MaxTry
  BY <1>e, DailyIsTry
<1>m. n + 1 \in 0..MaxTry /\ n + 1 - 1 = n
  BY <1>n, BackupAssumption
<1>j. PICK j : j = Daily(proc[p].date, n + 1)
  OBVIOUS
<1>1. j \in Jobs /\ j \in DailyOf(proc[p].date) /\ j.try = n + 1
  BY <1>m, <1>e, <1>j, Names
<1>2. /\ status' \in [Jobs -> Status \cup {"absent"}]
      /\ status'[j] = IF status[j] = "absent" THEN "queued" ELSE status[j]
      /\ UNCHANGED <<cancelGen, published>>
  BY <1>1, <1>j, <1>n, AdmitFields DEF Resubmit
<1>u. UNCHANGED <<day, admission, waiver, admitted, arts>>
  BY DEF Resubmit, days, today, disk
<1>3. RowsForward(FALSE)
  <2>1. ASSUME NEW d \in Dates, NEW m \in 0..MaxTry, j = Daily(d, m) PROVE m = 0 \/ Lost(Daily(d, m - 1))
    <3>1. m = n + 1
      BY <2>1, <1>1, Names
    <3>2. d = proc[p].date
      BY <2>1, <1>j DEF Daily
    <3> QED
      BY <3>1, <3>2, <1>m, <1>n, <1>e
  <2>2. AdmitBackup(j)
    BY <1>j, <1>n DEF Resubmit
  <2> QED
    BY <2>1, <2>2, <1>1, <1>u, AdmitForward
<1>4. proc' \in [Procs -> ProcRows] /\ Others(p) /\ Moves(p, "replace")
  BY <1>t, GotoFields DEF Resubmit, Points
<1>5. KindIsSound(p)'
  BY <1>e, <1>4 DEF KindIsSound, Moves, Executing
<1>6. WorkIsSound(p)'
  <2>1. Lost(proc[p].job)' /\ proc'[p].job = proc[p].job
    <3>1. proc[p].job \in Jobs
      BY <1>e, Names
    <3> QED
      BY <3>1, <1>e, <1>3, <1>4 DEF Lost, RowsForward, Terminal, Moves
  <2>2. status'[Daily(proc'[p].date, proc'[p].job.try + 1)] # "absent"
    BY <1>2, <1>4, <1>j, <1>n DEF Moves
  <2> QED
    BY <2>1, <2>2, <1>4, <1>e DEF WorkIsSound, Moves, Lost, Claimed, Unpublished, Executing
<1>7. proc'[p].pc \notin Executing
  BY <1>4 DEF Moves, Executing
<1>8. RowsOK'
  BY <1>t, <1>2, <1>u, <1>4 DEF RowsOK
<1>9. AdmissionIsStored'
  BY <1>3, <1>u, StoredStays
<1> QED
  BY <1>2, <1>3, <1>u, <1>4, <1>5, <1>6, <1>7, <1>8, <1>9, RequestKept

LEMMA ReplaceKept ==
    ASSUME IInv, NEW p \in Procs, ReplaceFailedDailyAdmission(p)
    PROVE  IInv'
<1>t. RowsOK /\ KindIsSound(p) /\ WorkIsSound(p)
  BY DEF IInv
<1>e. /\ proc[p].pc = "replace" /\ proc[p].kind = "retry" /\ proc[p].date \in Dates /\ proc[p] \in ProcRows
      /\ proc[p].job \in DailyOf(proc[p].date) /\ proc[p].job.try < MaxTry
      /\ status[Daily(proc[p].date, proc[p].job.try + 1)] # "absent"
  BY <1>t DEF ReplaceFailedDailyAdmission, At, KindIsSound, WorkIsSound, RowsOK
<1>n. PICK n \in 0..MaxTry : n = proc[p].job.try /\ n < MaxTry
  BY <1>e, DailyIsTry
<1>m. n + 1 \in 0..MaxTry
  BY <1>n, BackupAssumption
<1>j. PICK j : j = Daily(proc[p].date, proc[p].job.try + 1)
  OBVIOUS
<1>1. j \in Jobs /\ j \in DailyJobs /\ j \in Commands \cup {None} /\ j \in DailyOf(proc[p].date) /\ status[j] # "absent"
  BY <1>m, <1>n, <1>e, <1>j, Names
<1>u. UNCHANGED <<day, waiver, status, cancelGen, published, arts, admitted>>
  BY DEF ReplaceFailedDailyAdmission, today, jobs, disk
<1>a. AdmissionOK'
  <2>1. admission' = [admission EXCEPT ![proc[p].date] = IF @ = proc[p].job THEN j ELSE @]
    BY <1>j DEF ReplaceFailedDailyAdmission
  <2>2. admission' \in [Dates -> DailyJobs \cup {None}]
        /\ \A d \in Dates : admission'[d] = admission[d] \/ (d = proc[p].date /\ admission'[d] = j)
    BY <2>1, <1>1, <1>t DEF RowsOK
  <2>3. AdmissionIsStored'
    BY <2>2, <1>1, <1>u DEF IInv, AdmissionIsStored
  <2> QED
    BY <2>2, <2>3 DEF AdmissionOK
<1>2. CASE proc' = [proc EXCEPT ![p] = Idle]
  BY <1>2, <1>a, <1>u, RestKept
<1>3. CASE proc' = [proc EXCEPT ![p] = [proc[p] EXCEPT !.pc = "lock", !.job = j]]
  <2>1. PICK r : r = [proc[p] EXCEPT !.pc = "lock"]
    OBVIOUS
  <2>2. r \in ProcRows /\ r.pc = "lock" /\ r.kind = "retry" /\ r.date = proc[p].date
    BY <2>1, <1>e DEF ProcRows, Points
  <2>3. PICK q : q = [r EXCEPT !.job = j]
    OBVIOUS
  <2>4. q \in ProcRows /\ q.pc = "lock" /\ q.kind = "retry" /\ q.date = proc[p].date /\ q.job = j
    BY <2>2, <2>3, <1>1 DEF ProcRows
  <2>5. proc' = [proc EXCEPT ![p] = q]
    BY <1>3, <1>e, <2>1, <2>3 DEF ProcRows
  <2>6. proc' \in [Procs -> ProcRows] /\ Others(p) /\ proc'[p] = q
    BY <1>t, <2>4, <2>5, RowSet
  <2>7. KindIsSound(p)'
    BY <1>e, <1>1, <2>4, <2>6 DEF KindIsSound, Executing
  <2>8. WorkIsSound(p)'
    BY <1>1, <1>u, <2>4, <2>6 DEF WorkIsSound, Claimed, Unpublished, Executing
  <2>9. proc'[p].pc \notin Executing
    BY <2>4, <2>6 DEF Executing
  <2> QED
    BY <1>a, <1>u, <2>6, <2>7, <2>8, <2>9, QuietKept
<1> QED
  BY <1>2, <1>3, <1>j DEF ReplaceFailedDailyAdmission

(* A request that starts: Idle with its step, kind and Job; a retry also   *)
(* with its date.                                                          *)
Started(l, k, j) == [Idle EXCEPT !.pc = l, !.kind = k, !.job = j]
Retried(l, k, d, j) == [Idle EXCEPT !.pc = l, !.kind = k, !.date = d, !.job = j]

LEMMA StartFields ==
    ASSUME NEW l \in Points, NEW k \in {"retry", "manual", "release"}, NEW d \in 0..MaxDay,
           NEW j \in Commands
    PROVE  /\ \A r : r = Started(l, k, j) => r \in ProcRows /\ r.pc = l /\ r.kind = k /\ r.date = 0 /\ r.job = j
           /\ \A r : r = Retried(l, k, d, j) => r \in ProcRows /\ r.pc = l /\ r.kind = k /\ r.date = d /\ r.job = j
<1>0. Idle \in ProcRows /\ Idle.date = 0
  BY IdleIsRow DEF Idle
<1>1. PICK x : x = [Idle EXCEPT !.pc = l]
  OBVIOUS
<1>2. x \in ProcRows /\ x.pc = l /\ x.date = 0
  BY <1>0, <1>1 DEF ProcRows
<1>3. PICK y : y = [x EXCEPT !.kind = k]
  OBVIOUS
<1>4. y \in ProcRows /\ y.pc = l /\ y.kind = k /\ y.date = 0
  BY <1>2, <1>3 DEF ProcRows
<1>5. ASSUME NEW r, r = Retried(l, k, d, j)
      PROVE  r \in ProcRows /\ r.pc = l /\ r.kind = k /\ r.date = d /\ r.job = j
  <2>1. PICK z : z = [y EXCEPT !.date = d]
    OBVIOUS
  <2>2. z \in ProcRows /\ z.pc = l /\ z.kind = k /\ z.date = d
    BY <1>4, <2>1 DEF ProcRows
  <2>3. r = [z EXCEPT !.job = j]
    BY <1>0, <1>1, <1>3, <1>5, <2>1 DEF ProcRows, Retried
  <2> QED
    BY <2>2, <2>3 DEF ProcRows
<1>6. ASSUME NEW r, r = Started(l, k, j)
      PROVE  r \in ProcRows /\ r.pc = l /\ r.kind = k /\ r.date = 0 /\ r.job = j
  <2>1. r = [y EXCEPT !.job = j]
    BY <1>0, <1>1, <1>3, <1>6 DEF ProcRows, Started
  <2> QED
    BY <1>4, <2>1 DEF ProcRows
<1> QED
  BY <1>5, <1>6

LEMMA RetryFailedKept ==
    ASSUME IInv, NEW p \in Procs, NEW j \in DailyJobs, RetryFailed(p, j)
    PROVE  IInv'
<1>t. RowsOK
  BY DEF IInv
<1>1. PICK d \in Dates : d = day /\ d \in 0..MaxDay
  BY <1>t, BackupAssumption DEF RowsOK, Dates
<1>2. j \in Commands /\ j # None /\ "resubmit" \in Points
  BY Names DEF Points
<1>3. j \in DailyOf(d) /\ Lost(j) /\ j.try < MaxTry
  BY <1>1, <1>2 DEF IInv, AdmissionIsStored, RetryFailed, Lost
<1>4. PICK r : r = Retried("resubmit", "retry", d, j)
  OBVIOUS
<1>5. r \in ProcRows /\ r.pc = "resubmit" /\ r.kind = "retry" /\ r.date = d /\ r.job = j
  BY <1>1, <1>2, <1>4, StartFields
<1>6. proc' \in [Procs -> ProcRows] /\ Others(p) /\ proc'[p] = r
  <2>1. proc' = [proc EXCEPT ![p] = r]
    BY <1>1, <1>4 DEF RetryFailed, Retried
  <2> QED
    BY <1>t, <1>5, <2>1, RowSet
<1>u. UNCHANGED <<day, admission, waiver, status, cancelGen, published, arts, admitted>>
  BY DEF RetryFailed, days, today, jobs, disk
<1>7. KindIsSound(p)' /\ proc'[p].pc \notin Executing
  BY <1>3, <1>5, <1>6 DEF KindIsSound, Executing
<1>8. WorkIsSound(p)'
  BY <1>3, <1>5, <1>6, <1>u DEF WorkIsSound, Lost, Claimed, Unpublished, Executing
<1>9. AdmissionOK'
  BY <1>u, AdmissionStays
<1> QED
  BY <1>6, <1>7, <1>8, <1>9, <1>u, QuietKept

LEMMA InvokeKept ==
    ASSUME IInv, NEW p \in Procs, NEW n \in 1..Releases, Invoke(p, n)
    PROVE  IInv'
<1>t. RowsOK
  BY DEF IInv
<1>1. 0 \in 0..MaxDay /\ "lock" \in Points /\ Release(n) \in Commands /\ Release(n) \notin Jobs
  BY Names, BackupAssumption DEF Points
<1>4. PICK r : r = Started("lock", "release", Release(n))
  OBVIOUS
<1>5. r \in ProcRows /\ r.pc = "lock" /\ r.kind = "release" /\ r.date = 0 /\ r.job = Release(n)
  BY <1>1, <1>4, StartFields
<1>6. proc' \in [Procs -> ProcRows] /\ Others(p) /\ proc'[p] = r
  <2>1. proc' = [proc EXCEPT ![p] = r]
    BY <1>4 DEF Invoke, Started
  <2> QED
    BY <1>t, <1>5, <2>1, RowSet
<1>u. UNCHANGED <<day, admission, waiver, status, cancelGen, published, arts, admitted>>
  BY DEF Invoke, days, today, jobs, disk
<1>7. KindIsSound(p)' /\ proc'[p].pc \notin Executing
  BY <1>1, <1>5, <1>6 DEF KindIsSound, Executing
<1>8. WorkIsSound(p)'
  BY <1>1, <1>5, <1>6, <1>u DEF WorkIsSound, Claimed, Unpublished, Executing
<1>9. AdmissionOK'
  BY <1>u, AdmissionStays
<1> QED
  BY <1>6, <1>7, <1>8, <1>9, <1>u, QuietKept

LEMMA CreateKept ==
    ASSUME IInv, NEW p \in Procs, NEW j \in Jobs, Create(p, j)
    PROVE  IInv'
<1>t. RowsOK
  BY DEF IInv
<1>1. 0 \in 0..MaxDay /\ "lock" \in Points /\ j \in Commands /\ j.type = "manual"
  BY Names, BackupAssumption DEF Points, Create
<1>2. /\ status' \in [Jobs -> Status \cup {"absent"}]
      /\ status'[j] = IF status[j] = "absent" THEN "queued" ELSE status[j]
      /\ UNCHANGED <<cancelGen, published>>
  BY AdmitFields DEF Create
<1>u. UNCHANGED <<day, admission, waiver, admitted, arts>>
  BY DEF Create, days, today, disk
<1>3. RowsForward(FALSE)
  <2>1. \A d \in Dates, m \in 0..MaxTry : j # Daily(d, m)
    BY <1>1, Names
  <2> QED
    BY <2>1, <1>u, AdmitForward DEF Create
<1>4. AdmissionIsStored'
  BY <1>3, <1>u, StoredStays
<1>5. CASE proc' = proc
  <2>1. RowsOK'
    BY <1>t, <1>2, <1>u, <1>5 DEF RowsOK
  <2>2. OneExecutes'
    BY <1>5 DEF IInv, OneExecutes
  <2>3. BoundaryHolds' /\ OneArtifact'
    BY <1>2, <1>3, <1>u DEF IInv, BoundaryHolds, OneArtifact, RowsForward
  <2>4. LostJobLeavesNothing'
    BY <1>2, <1>3, <1>u DEF IInv, LostJobLeavesNothing, RowsForward
  <2> QED
    BY <1>3, <1>4, <1>5, <1>u, <2>1, <2>2, <2>3, <2>4, BackupKept
<1>6. CASE proc' = [proc EXCEPT ![p] = [Idle EXCEPT !.pc = "lock", !.kind = "manual", !.job = j]]
  <2>4. PICK r : r = Started("lock", "manual", j)
    OBVIOUS
  <2>5. r \in ProcRows /\ r.pc = "lock" /\ r.kind = "manual" /\ r.date = 0 /\ r.job = j
    BY <1>1, <2>4, StartFields
  <2>6. proc' \in [Procs -> ProcRows] /\ Others(p) /\ proc'[p] = r
    <3>1. proc' = [proc EXCEPT ![p] = r]
      BY <1>6, <2>4 DEF Started
    <3> QED
      BY <1>t, <2>5, <3>1, RowSet
  <2>7. KindIsSound(p)' /\ proc'[p].pc \notin Executing
    BY <2>5, <2>6 DEF KindIsSound, Executing
  <2>8. WorkIsSound(p)'
    BY <1>2, <2>5, <2>6 DEF WorkIsSound, Claimed, Unpublished, Executing
  <2>9. RowsOK'
    BY <1>t, <1>2, <1>u, <2>6 DEF RowsOK
  <2> QED
    BY <1>2, <1>3, <1>4, <1>u, <2>6, <2>7, <2>8, <2>9, RequestKept
<1> QED
  BY <1>5, <1>6 DEF Create

LEMMA LockKept ==
    ASSUME IInv, NEW p \in Procs, Lock(p)
    PROVE  IInv'
<1>t. RowsOK /\ KindIsSound(p) /\ WorkIsSound(p)
  BY DEF IInv
<1>e. proc[p].pc = "lock" /\ ~Locked
  BY DEF Lock, At
<1>l. PICK l \in {"find", "claim"} : l = IF proc[p].kind = "release" THEN "find" ELSE "claim"
  OBVIOUS
<1>1. proc' \in [Procs -> ProcRows] /\ Others(p) /\ Moves(p, l)
  BY <1>t, <1>l, GotoFields DEF Points, Executing, Lock
<1>u. UNCHANGED <<day, admission, waiver, status, cancelGen, published, arts, admitted>>
  BY DEF Lock, days, today, jobs, disk
<1>2. proc[p].job \in Jobs <=> proc[p].kind # "release"
  BY <1>t, <1>e DEF KindIsSound
<1>3. KindIsSound(p)'
  BY <1>t, <1>e, <1>l, <1>1, <1>2 DEF KindIsSound, Moves, Executing
<1>4. WorkIsSound(p)'
  BY <1>t, <1>e, <1>l, <1>1, <1>2, <1>u DEF WorkIsSound, Moves, Claimed, Unpublished, Executing
<1>5. AdmissionOK'
  BY <1>u, AdmissionStays
<1> QED
  BY <1>e, <1>1, <1>3, <1>4, <1>5, <1>u, QuietKept

(* The client of a request goes away.                                      *)
LEMMA AbortKept ==
    ASSUME IInv, NEW p \in Procs, Abort(p)
    PROVE  IInv'
<1>t. RowsOK /\ KindIsSound(p) /\ WorkIsSound(p)
  BY DEF IInv
<1>1. /\ proc' \in [Procs -> ProcRows] /\ Others(p)
      /\ Moves(p, proc[p].pc) /\ proc'[p].seen = proc[p].seen
  BY <1>t DEF Abort, RowsOK, ProcRows, Others, Moves
<1>u. UNCHANGED <<day, admission, waiver, status, cancelGen, published, arts, admitted>>
  BY DEF Abort, days, today, jobs, disk
<1>2. KindIsSound(p)'
  BY <1>t, <1>1 DEF KindIsSound, Moves
<1>3. WorkIsSound(p)'
  BY <1>t, <1>1, <1>u DEF WorkIsSound, Moves, Lost, Restorable
<1>4. RowsForward(FALSE)
  BY <1>u, RowsStay
<1>5. OneExecutes'
  BY <1>1 DEF IInv, OneExecutes, Others, Moves
<1>6. RowsOK' /\ AdmissionIsStored'
  BY <1>t, <1>1, <1>u DEF IInv, RowsOK, AdmissionIsStored
<1>7. BoundaryHolds' /\ LostJobLeavesNothing' /\ OneArtifact'
  BY <1>u, StatusStays
<1>8. \A q \in Procs : proc'[q] = proc[q] \/ (KindIsSound(q) /\ WorkIsSound(q))'
  BY <1>1, <1>2, <1>3 DEF Others
<1> QED
  BY <1>4, <1>5, <1>6, <1>7, <1>8, <1>u, BackupKept

-----------------------------------------------------------------------------
(* The environment: the calendar, the leases of restores, damage, waivers, *)
(* cancellations and restarts.                                             *)

LEMMA EnvironmentKept ==
    ASSUME IInv, UNCHANGED <<admission, status, published, admitted>>, RowsOK',
           \/ UNCHANGED proc
           \/ proc' = [p \in Procs |-> Idle],
           \A d \in Dates : waiver[d] # None => waiver'[d] = waiver[d],
           \A a \in arts' : a \in arts \/ (~a.ok /\ \E b \in arts : b.of = a.of),
           \A j \in Jobs : cancelGen'[j] = cancelGen[j] \/ ~published[j]
    PROVE  IInv'
<1>1. RowsForward(FALSE)
  BY DEF RowsForward
<1>2. BoundaryHolds'
  BY DEF IInv, BoundaryHolds
<1>3. LostJobLeavesNothing'
  BY DEF IInv, LostJobLeavesNothing, BoundaryHolds
<1>4. OneArtifact'
  BY DEF IInv, OneArtifact
<1>5. AdmissionIsStored'
  BY DEF IInv, AdmissionIsStored
<1>6. \A q \in Procs : proc'[q] = proc[q] \/ (KindIsSound(q) /\ WorkIsSound(q))'
  BY RestIsSound DEF Rests
<1>7. OneExecutes'
  <2>1. CASE UNCHANGED proc
    BY <2>1 DEF IInv, OneExecutes
  <2>2. CASE proc' = [p \in Procs |-> Idle]
    BY <2>2, IdleIsRow DEF OneExecutes, Executing
  <2> QED
    BY <2>1, <2>2
<1> QED
  BY <1>1, <1>2, <1>3, <1>4, <1>5, <1>6, <1>7, BackupKept

LEMMA EnvironmentSteps ==
    ASSUME IInv, load \in Loads,
           \/ NextDay \/ Restart \/ HoldLease \/ ReleaseLease
           \/ \E a \in arts : Acquire(a) \/ Damage(a)
           \/ \E j \in Jobs : ConfirmWaiver(j) \/ RequestCancellation(j)
    PROVE  IInv'
<1>t. RowsOK
  BY DEF IInv
<1>1. CASE NextDay
  <2>1. day' \in Dates
    <3>1. load.dates \in 1..MaxDay /\ MaxDay \in Nat
      BY BackupAssumption
    <3> QED
      BY <1>1, <1>t, <3>1 DEF NextDay, RowsOK, Dates
  <2> QED
    BY <1>1, <2>1, <1>t, EnvironmentKept DEF NextDay, jobs, disk, RowsOK
<1>2. CASE Restart
  <2>1. proc' = [p \in Procs |-> Idle] /\ proc' \in [Procs -> ProcRows]
    BY <1>2, IdleIsRow DEF Restart
  <2> QED
    BY <1>2, <2>1, <1>t, EnvironmentKept DEF Restart, days, today, jobs, disk, RowsOK
<1>3. CASE HoldLease \/ ReleaseLease \/ \E a \in arts : Acquire(a)
  BY <1>3, <1>t, EnvironmentKept DEF HoldLease, ReleaseLease, Acquire, days, today, jobs, disk, RowsOK
<1>4. ASSUME NEW a \in arts, Damage(a) PROVE IInv'
  <2>1. PICK b : b = [a EXCEPT !.ok = FALSE]
    OBVIOUS
  <2>2. arts' = (arts \ {a}) \cup {b}
    BY <1>4, <2>1 DEF Damage
  <2>3. b.of = a.of /\ ~b.ok
    BY <2>1
  <2>4. \A c \in arts' : c \in arts \/ (~c.ok /\ \E x \in arts : x.of = c.of)
    BY <2>2, <2>3
  <2> QED
    BY <1>4, <2>4, <1>t, EnvironmentKept DEF Damage, days, today, jobs, RowsOK
<1>5. ASSUME NEW j \in Jobs, ConfirmWaiver(j) PROVE IInv'
  BY <1>5, <1>t, EnvironmentKept DEF ConfirmWaiver, today, jobs, disk, RowsOK
<1>6. ASSUME NEW j \in Jobs, RequestCancellation(j) PROVE IInv'
  BY <1>6, <1>t, EnvironmentKept DEF RequestCancellation, days, today, disk, RowsOK
<1> QED
  BY <1>1, <1>2, <1>3, <1>4, <1>5, <1>6

-----------------------------------------------------------------------------
(* Every reachable state satisfies the inductive invariant IInv: the rows  *)
(* of dates, Jobs and waivers, the mutex, the requests under way and the   *)
(* listed artifacts fit together, whatever fails, is aborted or restarts.  *)
THEOREM BackupInvariant == Spec => []IInv
<1>1. Init => IInv
  <2>1. SUFFICES ASSUME Init PROVE IInv
    OBVIOUS
  <2>2. \A p \in Procs : proc[p].pc = "idle" /\ proc[p].kind = "none"
    BY <2>1, IdleIsRow DEF Init
  <2>3. RowsOK
    BY <2>1, IdleIsRow, BackupAssumption DEF Init, RowsOK, Dates
  <2>4. \A p \in Procs : KindIsSound(p) /\ WorkIsSound(p)
    BY <2>2 DEF KindIsSound, WorkIsSound, Claimed, Unpublished, Executing
  <2>5. OneExecutes
    BY <2>2 DEF OneExecutes, Executing
  <2>6. AdmissionIsStored /\ BoundaryHolds /\ WriteIsCovered /\ LostJobLeavesNothing /\ OneArtifact
    BY <2>1 DEF Init, AdmissionIsStored, BoundaryHolds, WriteIsCovered, LostJobLeavesNothing, OneArtifact
  <2>7. RetriesFollow
    BY <2>1, Names DEF Init, RetriesFollow
  <2> QED
    BY <2>3, <2>4, <2>5, <2>6, <2>7 DEF IInv
<1>2. Init => load \in Loads
  BY DEF Init
<1>3. load \in Loads /\ [Next]_vars => (load \in Loads)'
  <2>1. SUFFICES ASSUME [Next]_vars PROVE UNCHANGED load
    OBVIOUS
  <2>2. CASE UNCHANGED vars
    BY <2>2 DEF vars
  <2>3. CASE \/ NextDay \/ Restart \/ HoldLease \/ ReleaseLease
             \/ \E a \in arts : Acquire(a) \/ Damage(a)
             \/ \E j \in Jobs : ConfirmWaiver(j) \/ RequestCancellation(j)
    BY <2>3 DEF NextDay, Restart, HoldLease, ReleaseLease, Acquire, Damage, ConfirmWaiver,
                RequestCancellation, days, today
  <2>4. ASSUME NEW p \in Procs, BeginWrite(p) \/ Admission(p) \/ Lock(p) \/ Abort(p) PROVE UNCHANGED load
    BY <2>4 DEF BeginWrite, Admission, ReadAdmission, Submit, EnsureDailyAdmission, DecideRetried,
                AfterFailure, RequireOrWaive, Resubmit, ReplaceFailedDailyAdmission, Drop, Lock, Abort,
                days, today
  <2>5. ASSUME NEW p \in Procs, Execute(p) PROVE UNCHANGED load
    <3>1. CASE Claim(p) \/ FindPublished(p) \/ Copy(p) \/ Gate(p) \/ Publish(p) \/ SealBackupResult(p)
      BY <3>1 DEF Claim, FindPublished, Copy, Gate, Publish, SealBackupResult, today
    <3>2. CASE Prune(p) \/ Trash(p) \/ Remove(p) \/ Finish(p) \/ ReadCurrent(p) \/ End(p)
      BY <3>2 DEF Prune, Trash, Remove, Finish, ReadCurrent, End, days, today
    <3> QED
      BY <2>5, <3>1, <3>2 DEF Execute
  <2>7. ASSUME NEW p \in Procs,
               \/ BeginWrite(p) \/ Admission(p) \/ Lock(p) \/ Execute(p) \/ Abort(p)
               \/ \E j \in DailyJobs : RetryFailed(p, j)
               \/ \E j \in Jobs : Create(p, j)
               \/ \E r \in 1..Releases : Invoke(p, r)
        PROVE  UNCHANGED load
    <3>1. CASE BeginWrite(p) \/ Admission(p) \/ Lock(p) \/ Abort(p)
      BY <2>4, <3>1
    <3>2. CASE Execute(p)
      BY <2>5, <3>2
    <3>3. ASSUME NEW j \in DailyJobs, RetryFailed(p, j) PROVE UNCHANGED load
      BY <3>3 DEF RetryFailed, days, today
    <3>4. ASSUME NEW j \in Jobs, Create(p, j) PROVE UNCHANGED load
      BY <3>4 DEF Create, days, today
    <3>5. ASSUME NEW n \in 1..Releases, Invoke(p, n) PROVE UNCHANGED load
      BY <3>5 DEF Invoke, days, today
    <3> QED
      BY <2>7, <3>1, <3>2, <3>3, <3>4, <3>5
  <2>8. CASE Next
    BY <2>3, <2>7, <2>8 DEF Next
  <2> QED
    BY <2>1, <2>2, <2>8
<1>4. IInv /\ load \in Loads /\ [Next]_vars => IInv'
  <2>1. SUFFICES ASSUME IInv, load \in Loads, [Next]_vars PROVE IInv'
    OBVIOUS
  <2>2. CASE UNCHANGED vars
    <3>1. UNCHANGED <<day, admission, waiver, admitted, status, cancelGen, published, proc, arts>>
      BY <2>2 DEF vars
    <3>2. RowsOK'
      BY <2>1, <3>1 DEF IInv, RowsOK
    <3> QED
      BY <2>1, <3>1, <3>2, EnvironmentKept
  <2>3. CASE \/ NextDay \/ Restart \/ HoldLease \/ ReleaseLease
             \/ \E a \in arts : Acquire(a) \/ Damage(a)
             \/ \E j \in Jobs : ConfirmWaiver(j) \/ RequestCancellation(j)
    BY <2>1, <2>3, EnvironmentSteps
  <2>4. ASSUME NEW p \in Procs, BeginWrite(p) \/ Admission(p) \/ Lock(p) \/ Abort(p) PROVE IInv'
    BY <2>1, <2>4, BeginWriteKept, ReadAdmissionKept, SubmitKept, EnsureKept, QuietAdmissionKept,
       ResubmitKept, ReplaceKept, LockKept, AbortKept DEF Admission
  <2>5. ASSUME NEW p \in Procs, Execute(p) PROVE IInv'
    BY <2>1, <2>5, ClaimKept, StepsKept, GateKept, PublishKept, RemoveKept, FinishKept, ReadCurrentKept,
       EndKept DEF Execute
  <2>7. ASSUME NEW p \in Procs,
               \/ BeginWrite(p) \/ Admission(p) \/ Lock(p) \/ Execute(p) \/ Abort(p)
               \/ \E j \in DailyJobs : RetryFailed(p, j)
               \/ \E j \in Jobs : Create(p, j)
               \/ \E r \in 1..Releases : Invoke(p, r)
        PROVE  IInv'
    <3>1. CASE BeginWrite(p) \/ Admission(p) \/ Lock(p) \/ Abort(p)
      BY <2>4, <3>1
    <3>2. CASE Execute(p)
      BY <2>5, <3>2
    <3>3. ASSUME NEW j \in DailyJobs, RetryFailed(p, j) PROVE IInv'
      BY <2>1, <3>3, RetryFailedKept
    <3>4. ASSUME NEW j \in Jobs, Create(p, j) PROVE IInv'
      BY <2>1, <3>4, CreateKept
    <3>5. ASSUME NEW n \in 1..Releases, Invoke(p, n) PROVE IInv'
      BY <2>1, <3>5, InvokeKept
    <3> QED
      BY <2>7, <3>1, <3>2, <3>3, <3>4, <3>5
  <2>8. CASE Next
    BY <2>3, <2>7, <2>8 DEF Next
  <2> QED
    BY <2>1, <2>2, <2>8
<1> QED
  BY <1>1, <1>2, <1>3, <1>4, PTL DEF Spec

(* The daily promise of AdmitBusinessWrite: a business write of a date is  *)
(* let through only when a backup of that date succeeded, or the user      *)
(* waived a backup of that very date that had ended without success.       *)
THEOREM WriteIsCoveredHolds == Spec => []WriteIsCovered
<1>1. IInv => WriteIsCovered
  BY DEF IInv
<1> QED
  BY <1>1, BackupInvariant, PTL

(* Artifacts and Jobs match: a lost or canceled Job leaves no restorable   *)
(* artifact, no command has two of them, and a date succeeds at most once. *)
THEOREM ArtifactsMatchJobsHolds == Spec => []ArtifactsMatchJobs
<1>1. IInv => ArtifactsMatchJobs
  <2>1. SUFFICES ASSUME IInv PROVE OneSuccessPerDay
    BY DEF IInv, ArtifactsMatchJobs
  <2>2. SUFFICES ASSUME NEW d \in Dates, NEW n \in 0..MaxTry, NEW m \in 0..MaxTry,
                        status[Daily(d, n)] = "succeeded", m # n
                 PROVE  status[Daily(d, m)] \in {"absent", "failed", "canceled"}
    BY DEF OneSuccessPerDay
  <2>3. MaxTry \in Nat
    BY BackupAssumption
  <2>4. CASE m < n
    BY <2>1, <2>2, <2>4 DEF IInv, RetriesFollow, Lost
  <2>5. CASE n < m
    BY <2>1, <2>2, <2>5 DEF IInv, RetriesFollow, Lost
  <2> QED
    BY <2>2, <2>3, <2>4, <2>5
<1> QED
  BY <1>1, BackupInvariant, PTL

-----------------------------------------------------------------------------
(* What retention leaves.  An artifact is listed under its identity and    *)
(* command; an identity has so many newer listed ones, outside a set of    *)
(* doomed ones, that retention may give it up.                             *)
Listed(i, c) == \E a \in arts : a.id = i /\ a.of = c

HasNewer(i, t, but) ==
    \E K \in SUBSET (1..clock) :
        /\ Cardinality(K) >= Limit(t)
        /\ \A k \in K : k > i /\ k \notin but /\ \E b \in arts : b.id = k /\ b.of.type = t

Kept(c, i) == Listed(i, c) \/ (c.type # "manual" /\ HasNewer(i, c.type, {}))

Sealed(c, i) == Kept(c, i) /\ [id |-> i, of |-> c] \in audit

DiskOK ==
    /\ clock \in Nat
    /\ result \in [Jobs -> 0..clock]
    /\ arts \subseteq [id : 1..clock, of : Commands \cup {None}, ok : BOOLEAN]
    /\ made \in 0..clock
    /\ doomed \subseteq 1..clock

(* An identity is that of one artifact.                                    *)
OneIdentity == \A a, b \in arts : a.id = b.id => a = b

(* What a retention pass still has to delete stays behind enough newer     *)
(* artifacts that the pass does not delete.                                *)
DoomedHaveNewer ==
    \A a \in arts : a.id \in doomed => a.of.type # "manual" /\ HasNewer(a.id, a.of.type, doomed)

(* The artifact an execution made or found is listed until its retention   *)
(* pass, and from the seal on it is audited and kept.                      *)
Holding == {"seal", "prune", "trash", "remove", "finish"}

WorkIsKept(p) ==
    /\ proc[p].pc = "seal" => Listed(made, proc[p].job)
    /\ proc[p].pc \in Holding \ {"seal"} => Sealed(proc[p].job, made)
    /\ proc[p].pc \in {"trash", "remove"} => doomed # {}

SuccessIsSealed == \A j \in Jobs : status[j] = "succeeded" => Sealed(j, result[j])

DiskInv ==
    /\ DiskOK
    /\ OneIdentity
    /\ DoomedHaveNewer
    /\ \A p \in Procs : WorkIsKept(p)
    /\ SuccessIsSealed

(* The least and the greatest number of a set.                             *)
LEMMA LeastOf == ASSUME NEW S, S \subseteq Nat, S # {} PROVE Min(S) \in S /\ \A n \in S : Min(S) <= n
<1>1. \E x \in S : \A y \in S : <<y, x>> \notin OpToRel(<, Nat)
  BY NatLessThanWellFounded, WFMin
<1>2. PICK x \in S : \A y \in S : <<y, x>> \notin OpToRel(<, Nat)
  BY <1>1
<1>3. \A y \in S : ~(y < x)
  BY <1>2 DEF OpToRel
<1>4. \A y \in S : x <= y
  BY <1>3
<1> QED
  BY <1>4 DEF Min

LEMMA GreatestOf ==
    ASSUME NEW S, S \subseteq Nat, S # {}, NEW b \in Nat, \A n \in S : n <= b
    PROVE  Max(S) \in S /\ \A n \in S : n <= Max(S)
<1>1. PICK T : T = {i \in Nat : b - i \in S}
  OBVIOUS
<1>2. T \subseteq Nat /\ T # {}
  <2>1. PICK n \in S : TRUE
    OBVIOUS
  <2>2. b - n \in Nat /\ b - (b - n) = n
    BY <2>1
  <2> QED
    BY <1>1, <2>1, <2>2
<1>3. PICK m : m \in T /\ \A i \in T : m <= i
  BY <1>2, LeastOf
<1>4. b - m \in S
  BY <1>1, <1>3
<1>5. \A n \in S : n <= b - m
  <2>1. SUFFICES ASSUME NEW n \in S PROVE n <= b - m
    OBVIOUS
  <2>2. b - n \in Nat /\ b - (b - n) = n
    BY <2>1
  <2>3. b - n \in T
    BY <1>1, <2>1, <2>2
  <2>4. m <= b - n /\ m \in Nat /\ n \in Nat
    BY <1>1, <1>3, <2>3
  <2> QED
    BY <2>4
<1> QED
  BY <1>4, <1>5 DEF Max

(* What is newer than an artifact is newer than an older one.              *)
LEMMA NewerIsNewer ==
    ASSUME NEW i \in Int, NEW m \in Int, i <= m, NEW t, NEW but, HasNewer(m, t, but), clock \in Nat
    PROVE  HasNewer(i, t, but)
<1>1. PICK K \in SUBSET (1..clock) :
         /\ Cardinality(K) >= Limit(t)
         /\ \A k \in K : k > m /\ k \notin but /\ \E b \in arts : b.id = k /\ b.of.type = t
  BY DEF HasNewer
<1>2. \A k \in K : k > i
  BY <1>1
<1> QED
  BY <1>1, <1>2 DEF HasNewer

(* The artifacts other than that of identity m stay listed.                *)
Survive(m) == \A a \in arts : a.id # m => \E b \in arts' : b.id = a.id /\ b.of = a.of

(* So the identities newer than one are still there, those left out        *)
(* included or not.                                                        *)
LEMMA NewerStays ==
    ASSUME DiskOK, clock' \in Nat, clock <= clock', NEW m, Survive(m), NEW but, m = 0 \/ m \in but,
           NEW rest, rest \subseteq but, NEW i, NEW t, HasNewer(i, t, but)
    PROVE  HasNewer(i, t, rest)'
<1>1. PICK K \in SUBSET (1..clock) :
         /\ Cardinality(K) >= Limit(t)
         /\ \A k \in K : k > i /\ k \notin but /\ \E b \in arts : b.id = k /\ b.of.type = t
  BY DEF HasNewer
<1>2. K \in SUBSET (1..clock')
  BY DEF DiskOK
<1>3. \A k \in K : k # m
  BY <1>1
<1>4. \A k \in K : \E b \in arts' : b.id = k /\ b.of.type = t
  BY <1>1, <1>3 DEF Survive
<1>5. \A k \in K : k > i /\ k \notin rest
  BY <1>1
<1> QED
  BY <1>1, <1>2, <1>4, <1>5 DEF HasNewer

LEMMA ListedStays ==
    ASSUME NEW m, Survive(m), NEW i, i # m, NEW c, Listed(i, c)
    PROVE  Listed(i, c)'
  BY DEF Survive, Listed

(* What is kept stays kept when at most a doomed artifact is unlisted.     *)
LEMMA KeptStays ==
    ASSUME DiskOK, DoomedHaveNewer, clock' \in Nat, clock <= clock',
           NEW m \in Nat, Survive(m), m = 0 \/ m \in doomed,
           NEW i \in Nat, NEW c, Kept(c, i)
    PROVE  Kept(c, i)'
<1>1. CASE Listed(i, c) /\ i # m
  BY <1>1, ListedStays DEF Kept
<1>2. CASE Listed(i, c) /\ i = m
  <2>1. PICK a \in arts : a.id = i /\ a.of = c
    BY <1>2 DEF Listed
  <2>2. a.id \in doomed
    <3>1. a.id \in 1..clock
      BY DEF DiskOK
    <3> QED
      BY <1>2, <2>1, <3>1
  <2>3. c.type # "manual" /\ HasNewer(i, c.type, doomed)
    BY <2>1, <2>2 DEF DoomedHaveNewer
  <2>4. HasNewer(i, c.type, {})'
    BY <2>3, NewerStays
  <2> QED
    BY <2>3, <2>4 DEF Kept
<1>3. ASSUME c.type # "manual", HasNewer(i, c.type, {}) PROVE Kept(c, i)'
  <2>1. PICK K \in SUBSET (1..clock) :
           /\ Cardinality(K) >= Limit(c.type)
           /\ \A k \in K : k > i /\ k \notin {} /\ \E b \in arts : b.id = k /\ b.of.type = c.type
    BY <1>3 DEF HasNewer
  <2>2. CASE m \in K
    <3>1. PICK b \in arts : b.id = m /\ b.of.type = c.type
      BY <2>1, <2>2
    <3>2. m > i /\ m \in doomed
      BY <2>1, <2>2
    <3>3. HasNewer(m, c.type, doomed)
      BY <3>1, <3>2 DEF DoomedHaveNewer
    <3>4. HasNewer(i, c.type, doomed)
      BY <3>2, <3>3, NewerIsNewer DEF DiskOK
    <3>5. HasNewer(i, c.type, {})'
      BY <3>4, NewerStays
    <3> QED
      BY <1>3, <3>5 DEF Kept
  <2>3. CASE m \notin K
    <3>1. \A k \in K : k # m
      BY <2>3
    <3>2. \A k \in K : k > i /\ k \notin {} /\ \E b \in arts' : b.id = k /\ b.of.type = c.type
      BY <2>1, <3>1 DEF Survive
    <3>3. K \in SUBSET (1..clock')
      BY DEF DiskOK
    <3>4. HasNewer(i, c.type, {})'
      BY <2>1, <3>2, <3>3 DEF HasNewer
    <3> QED
      BY <1>3, <3>4 DEF Kept
  <2> QED
    BY <2>2, <2>3
<1> QED
  BY <1>1, <1>2, <1>3 DEF Kept

(* A step that unlists at most a doomed artifact, and the parts of the     *)
(* invariant it leaves alone.                                              *)
SameWork(q) ==
    /\ proc'[q].pc = proc[q].pc
    /\ proc'[q].job = proc[q].job
    /\ made' = made
    /\ doomed' = doomed

Steady == \A q \in Procs : SameWork(q) \/ proc'[q].pc \notin Holding \/ WorkIsKept(q)'

Succeeds == \A j \in Jobs : status'[j] = "succeeded" =>
                \/ status[j] = "succeeded" /\ result'[j] = result[j]
                \/ Sealed(j, result[j])'

LEMMA DiskKept ==
    ASSUME DiskInv, DiskOK', OneIdentity', clock <= clock', audit \subseteq audit',
           NEW m \in Nat, Survive(m), m = 0 \/ (m \in doomed /\ \A q \in Procs : proc'[q].pc # "seal"),
           DoomedHaveNewer', Steady, Succeeds
    PROVE  DiskInv'
<1>t. DiskOK /\ DoomedHaveNewer /\ clock' \in Nat
  BY DEF DiskInv, DiskOK
<1>1. ASSUME NEW i \in Nat, NEW c, Sealed(c, i) PROVE Sealed(c, i)'
  <2>1. Kept(c, i)'
    BY <1>1, <1>t, KeptStays DEF Sealed
  <2> QED
    BY <1>1, <2>1 DEF Sealed
<1>2. ASSUME NEW q \in Procs PROVE WorkIsKept(q)'
  <2>1. CASE WorkIsKept(q)'
    BY <2>1
  <2>2. CASE proc'[q].pc \notin Holding
    BY <2>2 DEF WorkIsKept, Holding
  <2>3. CASE SameWork(q)
    <3>k. WorkIsKept(q)
      BY DEF DiskInv
    <3>u. proc'[q].pc = proc[q].pc /\ proc'[q].job = proc[q].job /\ made' = made /\ doomed' = doomed
      BY <2>3 DEF SameWork
    <3>1. ASSUME proc[q].pc = "seal" PROVE Listed(made, proc[q].job)'
      <4>1. PICK c : c = proc[q].job /\ c = proc'[q].job
        BY <3>u
      <4>2. Listed(made, c)
        BY <3>1, <3>k, <4>1 DEF WorkIsKept
      <4>3. m = 0
        BY <3>1, <3>u
      <4>4. made # m
        BY <4>2, <4>3, <1>t DEF Listed, DiskOK
      <4>5. PICK i : i = made /\ i = made'
        BY <3>u
      <4>6. Listed(i, c)'
        BY <4>2, <4>4, <4>5, ListedStays
      <4> QED
        BY <4>1, <4>5, <4>6 DEF Listed
    <3>2. ASSUME proc[q].pc \in Holding \ {"seal"} PROVE Sealed(proc[q].job, made)'
      <4>1. PICK c : c = proc[q].job /\ c = proc'[q].job
        BY <3>u
      <4>2. PICK i \in Nat : i = made /\ i = made'
        BY <3>u, <1>t DEF DiskOK
      <4>3. Sealed(c, i)
        BY <3>2, <3>k, <4>1, <4>2 DEF WorkIsKept
      <4>4. Sealed(c, i)'
        BY <4>3, <1>1
      <4> QED
        BY <4>1, <4>2, <4>4 DEF Sealed, Kept, Listed, HasNewer
    <3> QED
      BY <3>k, <3>u, <3>1, <3>2 DEF WorkIsKept
  <2> QED
    BY <2>1, <2>2, <2>3 DEF Steady
<1>3. SuccessIsSealed'
  <2>1. SUFFICES ASSUME NEW j \in Jobs, status'[j] = "succeeded" PROVE Sealed(j, result[j])'
    BY DEF SuccessIsSealed
  <2>2. CASE status[j] = "succeeded" /\ result'[j] = result[j]
    <3>1. PICK i \in Nat : i = result[j] /\ i = result'[j]
      BY <2>2, <1>t DEF DiskOK
    <3>2. Sealed(j, i)
      BY <2>2, <3>1 DEF DiskInv, SuccessIsSealed
    <3>3. Sealed(j, i)'
      BY <3>2, <1>1
    <3> QED
      BY <3>1, <3>3 DEF Sealed, Kept, Listed, HasNewer
  <2> QED
    BY <2>1, <2>2 DEF Succeeds
<1> QED
  BY <1>2, <1>3 DEF DiskInv

(* No Job succeeds in this step.                                           *)
NoSuccess == \A j \in Jobs : status'[j] = "succeeded" => status[j] = "succeeded"

(* A step that lists and unlists nothing.                                  *)
LEMMA DiskStays ==
    ASSUME DiskInv, UNCHANGED <<arts, clock>>, result' \in [Jobs -> 0..clock],
           audit \subseteq audit', made' \in 0..clock,
           doomed' \subseteq doomed, Steady, Succeeds
    PROVE  DiskInv'
<1>t. DiskOK /\ DoomedHaveNewer /\ OneIdentity
  BY DEF DiskInv
<1>1. DiskOK' /\ OneIdentity'
  BY <1>t DEF DiskOK, OneIdentity
<1>2. Survive(0) /\ clock <= clock'
  BY <1>t DEF Survive, DiskOK
<1>3. DoomedHaveNewer'
  <2>1. PICK rest \in SUBSET doomed : rest = doomed'
    OBVIOUS
  <2>2. ASSUME NEW a \in arts, a.id \in rest
        PROVE  a.of.type # "manual" /\ HasNewer(a.id, a.of.type, rest)'
    <3>1. a.of.type # "manual" /\ HasNewer(a.id, a.of.type, doomed)
      BY <1>t, <2>2 DEF DoomedHaveNewer
    <3>2. PICK i, t : i = a.id /\ t = a.of.type
      OBVIOUS
    <3>3. HasNewer(i, t, rest)'
      <4>1. HasNewer(i, t, doomed) /\ clock' \in Nat
        BY <1>t, <3>1, <3>2 DEF DiskOK
      <4> QED
        BY <1>t, <1>2, <4>1, NewerStays
    <3> QED
      BY <3>1, <3>2, <3>3
  <2> QED
    BY <2>1, <2>2 DEF DoomedHaveNewer, HasNewer
<1> QED
  BY <1>1, <1>2, <1>3, DiskKept

LEMMA QuietSucceeds == ASSUME NoSuccess, UNCHANGED result PROVE Succeeds
  BY DEF NoSuccess, Succeeds

(* A step of a request that neither holds an artifact before nor after it. *)
LEMMA RequestDisk ==
    ASSUME DiskInv, NEW p \in Procs, Others(p), proc'[p].pc \notin Holding,
           UNCHANGED <<disk, work, result>>, NoSuccess
    PROVE  DiskInv'
<1>1. Steady
  BY DEF Steady, SameWork, Others, work
<1>2. UNCHANGED <<arts, clock, audit, made, doomed, result>>
  BY DEF disk, work
<1>3. made \in 0..clock /\ result \in [Jobs -> 0..clock]
  BY DEF DiskInv, DiskOK
<1> QED
  BY <1>1, <1>2, <1>3, QuietSucceeds, DiskStays

(* Nobody but the executing request holds an artifact.                     *)
LEMMA ExecSteady ==
    ASSUME IInv, NEW p \in Procs, proc[p].pc \in Executing, Others(p),
           proc'[p].pc \notin Holding \/ WorkIsKept(p)'
    PROVE  Steady
  BY DEF IInv, OneExecutes, Steady, Others, Holding, Executing

(* A step of the executing request that moves no artifact.                 *)
LEMMA ExecDisk ==
    ASSUME IInv, DiskInv, NEW p \in Procs, proc[p].pc \in Executing, Others(p),
           proc'[p].pc \notin Holding \/ WorkIsKept(p)',
           UNCHANGED <<arts, clock, result>>, audit \subseteq audit',
           made' \in 0..clock, doomed' \subseteq doomed, NoSuccess
    PROVE  DiskInv'
<1>1. result' \in [Jobs -> 0..clock]
  BY DEF DiskInv, DiskOK
<1> QED
  BY <1>1, ExecSteady, QuietSucceeds, DiskStays

(* An execution ends, or goes on without an artifact.                      *)
Leaves(p) ==
    /\ Others(p) /\ proc'[p].pc \notin Holding
    /\ made' \in 0..clock /\ doomed' \subseteq doomed

LEMMA ReturnMoves ==
    ASSUME IInv, DiskInv, NEW p \in Procs, NEW ok \in BOOLEAN, Return(p, ok)
    PROVE  Leaves(p)
<1>t. RowsOK
  BY DEF IInv
<1>1. made' \in 0..clock /\ doomed' \subseteq doomed
  BY DEF Return, DiskInv, DiskOK
<1>2. CASE proc' = [proc EXCEPT ![p] = Idle]
  BY <1>1, <1>2, <1>t, RefuseFields, IdleIsRow DEF Rests, Holding, Leaves
<1>3. CASE Goto(p, "after")
  BY <1>1, <1>3, <1>t, GotoFields DEF Moves, Holding, Points, Leaves
<1> QED
  BY <1>2, <1>3 DEF Return, Refuse, Admit

LEMMA FailMoves ==
    ASSUME IInv, DiskInv, NEW p \in Procs, NEW why, Fail(p, why)
    PROVE  Leaves(p)
<1>1. CASE Return(p, FALSE)
  BY <1>1, ReturnMoves
<1>2. CASE proc' = [proc EXCEPT ![p].pc = "fail", ![p].seen = why] /\ UNCHANGED work
  <2>1. Others(p) /\ proc'[p].pc = "fail"
    BY <1>2 DEF IInv, RowsOK, ProcRows, Others
  <2> QED
    BY <1>2, <2>1 DEF work, Holding, DiskInv, DiskOK, Leaves
<1> QED
  BY <1>1, <1>2 DEF Fail

LEMMA GotoMoves ==
    ASSUME IInv, NEW p \in Procs, NEW l \in Points, Goto(p, l)
    PROVE  Others(p) /\ proc'[p].pc = l /\ proc'[p].job = proc[p].job
  BY GotoFields DEF IInv, Moves

(* The steps of an execution that end it or go on without an artifact.     *)
LEMMA ClaimDisk == ASSUME IInv, DiskInv, NEW p \in Procs, Claim(p) PROVE DiskInv'
<1>t. RowsOK
  BY DEF IInv
<1>e. proc[p].pc \in Executing
  BY DEF Claim, At, Executing
<1>u. UNCHANGED <<arts, clock, result, audit>>
  BY DEF Claim, disk
<1>1. NoSuccess
  BY <1>t DEF Claim, NoSuccess, RowsOK
<1>2. ASSUME NEW ok \in BOOLEAN, Return(p, ok) PROVE DiskInv'
  BY <1>2, <1>e, <1>u, <1>1, ReturnMoves, ExecDisk DEF Leaves
<1>3. ASSUME Goto(p, "find"), UNCHANGED work PROVE DiskInv'
  <2>1. Others(p) /\ proc'[p].pc \notin Holding
    BY <1>3, GotoMoves DEF Holding, Points, Executing
  <2>2. made' \in 0..clock /\ doomed' \subseteq doomed
    BY <1>3 DEF work, DiskInv, DiskOK
  <2> QED
    BY <2>1, <2>2, <1>e, <1>u, <1>1, ExecDisk
<1>4. PICK b \in BOOLEAN :
         b = (status[proc[p].job] = "succeeded" /\ \E a \in Restorable(proc[p].job) : a.id = result[proc[p].job])
  OBVIOUS
<1> QED
  BY <1>2, <1>3, <1>4 DEF Claim

LEMMA FailingDisk ==
    ASSUME IInv, DiskInv, NEW p \in Procs,
           Copy(p) \/ Gate(p) \/ ReadCurrent(p) \/ End(p)
    PROVE  DiskInv'
<1>t. RowsOK /\ WorkIsSound(p)
  BY DEF IInv
<1>e. proc[p].pc \in Executing
  BY DEF Copy, Gate, ReadCurrent, End, At, Executing
<1>u. UNCHANGED <<arts, clock, result, audit>>
  BY DEF Copy, Gate, ReadCurrent, End, disk, jobs
<1>1. NoSuccess
  <2>1. CASE UNCHANGED status
    BY <2>1 DEF NoSuccess
  <2>2. CASE End(p)
    <3>1. proc[p].seen \in {"failed", "canceled"}
      BY <1>t, <2>2 DEF WorkIsSound, End, At
    <3> QED
      BY <2>2, <3>1, <1>t DEF End, NoSuccess, RowsOK
  <2> QED
    BY <2>1, <2>2 DEF Copy, Gate, ReadCurrent, jobs
<1>2. Leaves(p)
  <2>1. ASSUME NEW why, Fail(p, why) PROVE Leaves(p)
    BY <2>1, FailMoves
  <2>2. CASE Return(p, FALSE)
    BY <2>2, ReturnMoves
  <2>3. ASSUME NEW l \in {"gate", "publish"}, Goto(p, l), UNCHANGED work PROVE Leaves(p)
    <3>1. Others(p) /\ proc'[p].pc = l
      BY <2>3, GotoMoves DEF Points, Executing
    <3> QED
      BY <3>1, <2>3 DEF Holding, work, DiskInv, DiskOK, Leaves
  <2>4. CASE proc' = [proc EXCEPT ![p].pc = "end", ![p].gen = cancelGen[proc[p].job],
                                  ![p].seen = IF cancelGen[proc[p].job] > 0 THEN "canceled" ELSE @]
             /\ UNCHANGED work
    <3>1. Others(p) /\ proc'[p].pc = "end"
      BY <2>4, <1>t DEF RowsOK, ProcRows, Others
    <3> QED
      BY <3>1, <2>4 DEF Holding, work, DiskInv, DiskOK, Leaves
  <2>5. CASE Copy(p)
    <3>1. PICK l \in {"gate", "publish"} : l = IF proc[p].job \in Jobs THEN "gate" ELSE "publish"
      OBVIOUS
    <3> QED
      BY <2>1, <2>3, <2>5, <3>1 DEF Copy
  <2>6. CASE Gate(p)
    BY <2>1, <2>3, <2>6 DEF Gate
  <2>7. CASE ReadCurrent(p)
    BY <2>2, <2>4, <2>7 DEF ReadCurrent
  <2>8. CASE End(p)
    BY <2>2, <2>8 DEF End
  <2> QED
    BY <2>5, <2>6, <2>7, <2>8
<1> QED
  BY <1>e, <1>u, <1>1, <1>2, ExecDisk DEF Leaves

(* findPublished: the artifact it goes on with is listed.                  *)
LEMMA FindDisk == ASSUME IInv, DiskInv, NEW p \in Procs, FindPublished(p) PROVE DiskInv'
<1>t. DiskOK
  BY DEF DiskInv
<1>e. proc[p].pc \in Executing
  BY DEF FindPublished, At, Executing
<1>u. UNCHANGED <<arts, clock, result, audit, status>>
  BY DEF FindPublished, disk, jobs
<1>1. NoSuccess
  BY <1>u DEF NoSuccess
<1>2. CASE Return(p, FALSE)
  BY <1>2, <1>e, <1>u, <1>1, ReturnMoves, ExecDisk DEF Leaves
<1>3. CASE Goto(p, "copy") /\ UNCHANGED <<made, doomed>>
  <2>1. Others(p) /\ proc'[p].pc \notin Holding
    BY <1>3, GotoMoves DEF Holding, Points, Executing
  <2>2. made' \in 0..clock
    BY <1>3, <1>t DEF DiskOK
  <2> QED
    BY <1>3, <2>1, <2>2, <1>e, <1>u, <1>1, ExecDisk
<1>4. CASE Goto(p, "seal") /\ made' = Max({a.id : a \in Restorable(proc[p].job)}) /\ UNCHANGED doomed
           /\ Restorable(proc[p].job) # {}
  <2>1. Others(p) /\ proc'[p].pc = "seal" /\ proc'[p].job = proc[p].job
    BY <1>4, GotoMoves DEF Points, Executing
  <2>2. PICK S : S = {a.id : a \in Restorable(proc[p].job)}
    OBVIOUS
  <2>3. S \subseteq 1..clock /\ S # {}
    BY <1>4, <1>t, <2>2 DEF DiskOK, Restorable
  <2>4. made' \in S
    <3>1. clock \in Nat /\ S \subseteq Nat /\ \A n \in S : n <= clock
      BY <1>t, <2>3 DEF DiskOK
    <3> QED
      BY <1>4, <2>2, <2>3, <3>1, GreatestOf
  <2>5. PICK a \in arts : a.id = made' /\ a.of = proc[p].job
    BY <2>2, <2>4 DEF Restorable
  <2>6. Listed(made, proc[p].job)'
    BY <2>1, <2>5, <1>u DEF Listed
  <2>7. WorkIsKept(p)'
    BY <2>1, <2>6 DEF WorkIsKept, Holding
  <2>8. made' \in 0..clock
    BY <2>3, <2>4
  <2> QED
    BY <1>4, <2>1, <2>7, <2>8, <1>e, <1>u, <1>1, ExecDisk
<1> QED
  BY <1>2, <1>3, <1>4 DEF FindPublished

(* SealBackupResult: the audit row names the listed artifact.              *)
LEMMA SealDisk == ASSUME IInv, DiskInv, NEW p \in Procs, SealBackupResult(p) PROVE DiskInv'
<1>t. DiskOK /\ WorkIsKept(p)
  BY DEF DiskInv
<1>e. proc[p].pc \in Executing /\ proc[p].pc = "seal"
  BY DEF SealBackupResult, At, Executing
<1>u. UNCHANGED <<arts, clock, result, status>>
  BY DEF SealBackupResult, jobs
<1>1. NoSuccess
  BY <1>u DEF NoSuccess
<1>2. CASE Return(p, FALSE) /\ UNCHANGED audit
  BY <1>2, <1>e, <1>u, <1>1, ReturnMoves, ExecDisk DEF Leaves
<1>3. CASE Goto(p, "prune") /\ audit' = audit \cup {[id |-> made, of |-> proc[p].job]} /\ UNCHANGED work
  <2>1. Others(p) /\ proc'[p].pc = "prune" /\ proc'[p].job = proc[p].job
    BY <1>3, GotoMoves DEF Points, Executing
  <2>2. Listed(made, proc[p].job) /\ UNCHANGED <<made, doomed>>
    BY <1>3, <1>t, <1>e DEF WorkIsKept, work
  <2>3. Listed(made, proc[p].job)'
    BY <2>1, <2>2, <1>u DEF Listed
  <2>4. Sealed(proc[p].job, made)'
    BY <1>3, <2>1, <2>2, <2>3 DEF Sealed, Kept
  <2>5. WorkIsKept(p)'
    BY <2>1, <2>4 DEF WorkIsKept
  <2>6. made' \in 0..clock /\ audit \subseteq audit'
    BY <1>3, <2>2, <1>t DEF DiskOK
  <2> QED
    BY <2>1, <2>2, <2>5, <2>6, <1>e, <1>u, <1>1, ExecDisk
<1> QED
  BY <1>2, <1>3 DEF SealBackupResult

(* SelectRetention gives up only artifacts behind a limit of newer ones    *)
(* that it keeps: those newer than the newest one given up of the type.    *)
LEMMA SelectionIsSafe ==
    ASSUME DiskOK, OneIdentity, NEW sel, sel = SelectRetention, NEW a \in arts, a.id \in sel
    PROVE  a.of.type # "manual" /\ HasNewer(a.id, a.of.type, sel)
<1>1. PICK kept : kept = {b \in arts : b.ok /\ b.of.type # "manual"}
  OBVIOUS
<1>2. kept \subseteq arts /\ clock \in Nat /\ \A b \in arts : b.id \in 1..clock
  BY <1>1 DEF DiskOK
<1>3. \A b \in arts : b.id \in sel => b \in kept /\ Cardinality(Newer(b, kept)) >= Limit(b.of.type)
  <2>1. SUFFICES ASSUME NEW b \in arts, b.id \in sel
                 PROVE  b \in kept /\ Cardinality(Newer(b, kept)) >= Limit(b.of.type)
    OBVIOUS
  <2>2. PICK c \in kept : c.id = b.id /\ Cardinality(Newer(c, kept)) >= Limit(c.of.type)
    BY <1>1, <2>1 DEF SelectRetention
  <2>3. c = b
    BY <2>2, <1>2 DEF OneIdentity
  <2> QED
    BY <2>2, <2>3
<1>t. PICK t : t = a.of.type
  OBVIOUS
<1>4. PICK D : D = {b.id : b \in {c \in arts : c.id \in sel /\ c.of.type = t}}
  OBVIOUS
<1>5. D \subseteq Nat /\ D # {} /\ a.id \in D /\ \A n \in D : n <= clock
  BY <1>2, <1>4, <1>t
<1>6. PICK m \in arts : m.id \in sel /\ m.of.type = t /\ \A n \in D : n <= m.id
  <2>1. PICK n : n \in D /\ \A k \in D : k <= n
    BY <1>2, <1>5, GreatestOf
  <2> QED
    BY <2>1, <1>4
<1>7. PICK N : N = Newer(m, kept)
  OBVIOUS
<1>8. Cardinality(N) >= Limit(t)
  BY <1>3, <1>6, <1>7
<1>9. N \subseteq arts /\ \A b \in N : b.of.type = t /\ b.id > m.id
  BY <1>2, <1>6, <1>7 DEF Newer
<1>10. PICK K : K = {b.id : b \in N}
  OBVIOUS
<1>11. K \in SUBSET (1..clock)
  BY <1>2, <1>9, <1>10
<1>12. IsFiniteSet(K) /\ Cardinality(K) \in Nat
  <2>1. IsFiniteSet(1..clock)
    BY <1>2, FS_Interval
  <2>2. IsFiniteSet(K)
    BY <2>1, <1>11, FS_Subset
  <2> QED
    BY <2>2, FS_CardinalityType
<1>13. IsFiniteSet(N) /\ Cardinality(N) <= Cardinality(K)
  <2>1. PICK f : f = [b \in N |-> b.id]
    OBVIOUS
  <2>2. f \in [N -> K] /\ \A b \in N : f[b] = b.id
    BY <2>1, <1>10
  <2>3. \A b, c \in N : f[b] = f[c] => b = c
    BY <2>2, <1>9 DEF OneIdentity
  <2>4. f \in Injection(N, K)
    BY <2>2, <2>3 DEF Injection, IsInjective
  <2> QED
    BY <2>4, <1>12, FS_Injection
<1>14. Cardinality(N) \in Nat
  BY <1>13, FS_CardinalityType
<1>15. Limit(t) \in Nat
  BY BackupAssumption DEF Limit
<1>16. Cardinality(K) >= Limit(t)
  BY <1>8, <1>12, <1>13, <1>14, <1>15
<1>17. \A k \in K : k > a.id /\ k \notin sel /\ \E b \in arts : b.id = k /\ b.of.type = t
  <2>1. SUFFICES ASSUME NEW k \in K PROVE k > a.id /\ k \notin sel /\ \E b \in arts : b.id = k /\ b.of.type = t
    OBVIOUS
  <2>2. PICK b \in N : b.id = k
    BY <1>10
  <2>3. b \in arts /\ b.of.type = t /\ k > m.id
    BY <2>2, <1>9
  <2>4. a.id <= m.id
    BY <1>5, <1>6
  <2>5. k \notin sel
    <3>1. k \in sel => k \in D
      BY <2>2, <2>3, <1>4
    <3>2. k \in D => k <= m.id
      BY <1>6
    <3> QED
      BY <2>2, <2>3, <3>1, <3>2, <1>2
  <2> QED
    BY <2>2, <2>3, <2>4, <2>5, <1>2
<1>18. HasNewer(a.id, t, sel)
  BY <1>11, <1>16, <1>17 DEF HasNewer
<1> QED
  BY <1>1, <1>3, <1>18, <1>t

(* prune: the selection.                                                   *)
LEMMA PruneDisk == ASSUME IInv, DiskInv, NEW p \in Procs, Prune(p) PROVE DiskInv'
<1>t. DiskOK /\ OneIdentity /\ WorkIsKept(p)
  BY DEF DiskInv
<1>e. proc[p].pc \in Executing /\ proc[p].pc = "prune"
  BY DEF Prune, At, Executing
<1>u. UNCHANGED <<arts, clock, result, status, audit, made>>
  BY DEF Prune, jobs, disk
<1>1. PICK l \in {"finish", "trash"} : l = (IF doomed' = {} THEN "finish" ELSE "trash") /\ Goto(p, l)
  BY DEF Prune
<1>2. Others(p) /\ proc'[p].pc = l /\ proc'[p].job = proc[p].job
  BY <1>1, GotoMoves DEF Points, Executing
<1>3. PICK sel : sel = SelectRetention
  OBVIOUS
<1>4. doomed' \in {{}, sel}
  BY <1>3 DEF Prune
<1>5. sel \subseteq 1..clock
  BY <1>3, <1>t DEF SelectRetention, DiskOK
<1>6. DoomedHaveNewer'
  <2>1. \A a \in arts : a.id \in sel => a.of.type # "manual" /\ HasNewer(a.id, a.of.type, sel)
    BY <1>3, <1>t, SelectionIsSafe
  <2>2. CASE doomed' = {}
    BY <2>2 DEF DoomedHaveNewer
  <2>3. CASE doomed' = sel
    BY <2>1, <2>3, <1>u DEF DoomedHaveNewer, HasNewer
  <2> QED
    BY <2>2, <2>3, <1>4
<1>7. WorkIsKept(p)'
  <2>1. Sealed(proc[p].job, made)
    BY <1>t, <1>e DEF WorkIsKept, Holding
  <2>2. Sealed(proc[p].job, made)'
    BY <2>1, <1>2, <1>u DEF Sealed, Kept, Listed, HasNewer
  <2> QED
    BY <2>2, <1>1, <1>2 DEF WorkIsKept
<1>8. DiskOK' /\ OneIdentity' /\ Survive(0) /\ clock <= clock' /\ audit \subseteq audit'
  <2>1. doomed' \subseteq 1..clock
    BY <1>4, <1>5
  <2>2. DiskOK'
    BY <1>t, <1>u, <2>1 DEF DiskOK
  <2>3. OneIdentity' /\ Survive(0)
    BY <1>t, <1>u DEF OneIdentity, Survive
  <2>4. clock <= clock' /\ audit \subseteq audit'
    BY <1>t, <1>u DEF DiskOK
  <2> QED
    BY <2>2, <2>3, <2>4
<1>9. Steady
  BY <1>e, <1>2, <1>7, ExecSteady
<1>10. Succeeds
  BY <1>u DEF Succeeds
<1> QED
  BY <1>6, <1>8, <1>9, <1>10, DiskKept

(* The oldest artifact of the selection.                                   *)
LEMMA OldestDoomed ==
    ASSUME DiskOK, doomed # {}
    PROVE  Min(doomed) \in doomed /\ Min(doomed) \in Nat
<1>1. doomed \subseteq Nat
  BY DEF DiskOK
<1> QED
  BY <1>1, LeastOf

LEMMA TrashDisk == ASSUME IInv, DiskInv, NEW p \in Procs, Trash(p) PROVE DiskInv'
<1>t. DiskOK /\ WorkIsKept(p)
  BY DEF DiskInv
<1>e. proc[p].pc \in Executing /\ proc[p].pc = "trash"
  BY DEF Trash, At, Executing
<1>u. UNCHANGED <<arts, clock, result, status, audit, made>>
  BY DEF Trash, jobs, disk
<1>1. PICK l \in {"finish", "trash", "remove"} : Goto(p, l) /\ (l # "finish" => doomed' # {})
  BY <1>t, <1>e DEF Trash, Skip, WorkIsKept
<1>2. Others(p) /\ proc'[p].pc = l /\ proc'[p].job = proc[p].job
  BY <1>1, GotoMoves DEF Points, Executing
<1>3. doomed' \subseteq doomed
  BY DEF Trash, Skip
<1>4. WorkIsKept(p)'
  <2>1. Sealed(proc[p].job, made)
    BY <1>t, <1>e DEF WorkIsKept, Holding
  <2>2. Sealed(proc[p].job, made)'
    BY <2>1, <1>2, <1>u DEF Sealed, Kept, Listed, HasNewer
  <2> QED
    BY <2>2, <1>1, <1>2 DEF WorkIsKept
<1>5. NoSuccess /\ made' \in 0..clock /\ audit \subseteq audit'
  BY <1>u, <1>t DEF NoSuccess, DiskOK
<1> QED
  BY <1>e, <1>u, <1>2, <1>3, <1>4, <1>5, ExecDisk

LEMMA RemoveDisk == ASSUME IInv, DiskInv, NEW p \in Procs, Remove(p) PROVE DiskInv'
<1>t. DiskOK /\ OneIdentity /\ DoomedHaveNewer /\ WorkIsKept(p)
  BY DEF DiskInv
<1>e. proc[p].pc \in Executing /\ proc[p].pc = "remove"
  BY DEF Remove, At, Executing
<1>u. UNCHANGED <<clock, result, status, audit, made>>
  BY DEF Remove, jobs
<1>1. PICK m \in Nat : m = Min(doomed) /\ m \in doomed
  BY <1>t, <1>e, OldestDoomed DEF WorkIsKept
<1>2. arts' = {a \in arts : a.id # m} /\ doomed' = doomed \ {m}
  BY <1>1 DEF Remove, Skip
<1>3. PICK l \in {"finish", "trash"} : Goto(p, l) /\ (l # "finish" => doomed' # {})
  BY DEF Remove, Skip
<1>4. Others(p) /\ proc'[p].pc = l /\ proc'[p].job = proc[p].job
  BY <1>3, GotoMoves DEF Points, Executing
<1>5. DiskOK' /\ OneIdentity' /\ Survive(m) /\ clock <= clock' /\ audit \subseteq audit' /\ clock' \in Nat
  <2>1. DiskOK'
    BY <1>t, <1>u, <1>2 DEF DiskOK
  <2>2. OneIdentity' /\ Survive(m)
    BY <1>t, <1>2 DEF OneIdentity, Survive
  <2> QED
    BY <2>1, <2>2, <1>t, <1>u DEF DiskOK
<1>6. DoomedHaveNewer'
  <2>1. PICK rest \in SUBSET doomed : rest = doomed'
    BY <1>2
  <2>2. ASSUME NEW a \in arts', a.id \in rest
        PROVE  a.of.type # "manual" /\ HasNewer(a.id, a.of.type, rest)'
    <3>1. a.of.type # "manual" /\ HasNewer(a.id, a.of.type, doomed)
      BY <1>t, <1>2, <2>2 DEF DoomedHaveNewer
    <3>2. PICK i, t : i = a.id /\ t = a.of.type
      OBVIOUS
    <3>3. HasNewer(i, t, rest)'
      <4>1. HasNewer(i, t, doomed)
        BY <3>1, <3>2
      <4> QED
        BY <1>t, <1>1, <1>5, <4>1, NewerStays
    <3> QED
      BY <3>1, <3>2, <3>3
  <2> QED
    BY <2>1, <2>2 DEF DoomedHaveNewer, HasNewer
<1>7. WorkIsKept(p)'
  <2>1. PICK c : c = proc[p].job /\ c = proc'[p].job
    BY <1>4
  <2>i. PICK i \in Nat : i = made /\ i = made'
    BY <1>u, <1>t DEF DiskOK
  <2>2. Sealed(c, i)
    BY <1>t, <1>e, <2>1, <2>i DEF WorkIsKept, Holding
  <2>3. Kept(c, i)'
    BY <2>2, <1>t, <1>1, <1>5, KeptStays DEF Sealed
  <2>4. Sealed(c, i)'
    BY <2>2, <2>3, <1>u DEF Sealed
  <2>5. Sealed(proc[p].job, made)'
    BY <2>1, <2>i, <2>4 DEF Sealed, Kept, Listed, HasNewer
  <2> QED
    BY <2>5, <1>3, <1>4 DEF WorkIsKept
<1>8. Steady
  BY <1>e, <1>4, <1>7, ExecSteady
<1>9. Succeeds
  BY <1>u DEF Succeeds
<1>10. \A q \in Procs : proc'[q].pc # "seal"
  BY <1>e, <1>3, <1>4 DEF IInv, OneExecutes, Others, Executing
<1> QED
  BY <1>1, <1>5, <1>6, <1>8, <1>9, <1>10, DiskKept

(* The terminal step: the Job succeeds with the artifact it sealed.        *)
LEMMA FinishDisk == ASSUME IInv, DiskInv, NEW p \in Procs, Finish(p) PROVE DiskInv'
<1>t. DiskOK /\ WorkIsKept(p) /\ RowsOK
  BY DEF DiskInv, IInv
<1>e. proc[p].pc \in Executing /\ proc[p].pc = "finish"
  BY DEF Finish, At, Executing
<1>u. UNCHANGED <<arts, clock, audit>>
  BY DEF Finish, disk
<1>1. PICK ok \in BOOLEAN : Return(p, ok)
  BY DEF Finish
<1>2. Leaves(p)
  BY <1>1, ReturnMoves
<1>3. Steady
  BY <1>2, <1>e, ExecSteady DEF Leaves
<1>4. result' \in [Jobs -> 0..clock] /\ Succeeds
  <2>1. CASE UNCHANGED <<status, result>>
    BY <2>1, <1>t DEF Succeeds, DiskOK
  <2>2. ASSUME NEW j \in Jobs, j = proc[p].job, status' = [status EXCEPT ![j] = "succeeded"],
               result' = [result EXCEPT ![j] = made]
        PROVE  result' \in [Jobs -> 0..clock] /\ Succeeds
    <3>1. Sealed(j, made)
      BY <2>2, <1>t, <1>e DEF WorkIsKept, Holding
    <3>2. result' \in [Jobs -> 0..clock] /\ result'[j] = made
      BY <2>2, <1>t DEF DiskOK
    <3>3. Sealed(j, result[j])'
      BY <3>1, <3>2, <1>u DEF Sealed, Kept, Listed, HasNewer
    <3>4. \A k \in Jobs : k = j \/ (status'[k] = status[k] /\ result'[k] = result[k])
      BY <2>2, <1>t DEF RowsOK, DiskOK
    <3> QED
      BY <3>2, <3>3, <3>4 DEF Succeeds
  <2> QED
    BY <2>1, <2>2 DEF Finish
<1> QED
  BY <1>2, <1>3, <1>4, <1>u, DiskStays DEF Leaves

(* Store.Publish: a new identity is listed.                                *)
LEMMA PublishDisk == ASSUME IInv, DiskInv, NEW p \in Procs, Publish(p) PROVE DiskInv'
<1>t. DiskOK /\ OneIdentity /\ DoomedHaveNewer
  BY DEF DiskInv
<1>e. proc[p].pc \in Executing /\ proc[p].pc = "publish"
  BY DEF Publish, At, Executing
<1>u. UNCHANGED <<result, status, audit>>
  BY DEF Publish, jobs
<1>1. NoSuccess /\ Succeeds
  BY <1>u DEF NoSuccess, Succeeds
<1>2. ASSUME NEW why, Fail(p, why), UNCHANGED <<arts, clock>> PROVE DiskInv'
  BY <1>2, <1>e, <1>u, <1>1, FailMoves, ExecDisk DEF Leaves
<1>3. ASSUME clock' = clock + 1, arts' = arts \cup {[id |-> clock', of |-> proc[p].job, ok |-> TRUE]},
             made' = clock', Goto(p, "seal"), UNCHANGED doomed
      PROVE  DiskInv'
  <2>1. Others(p) /\ proc'[p].pc = "seal" /\ proc'[p].job = proc[p].job
    BY <1>3, GotoMoves DEF Points, Executing
  <2>2. PICK new : new = [id |-> clock', of |-> proc[p].job, ok |-> TRUE]
    OBVIOUS
  <2>3. new.id = clock' /\ new.of = proc[p].job /\ arts' = arts \cup {new}
    BY <1>3, <2>2
  <2>4. clock \in Nat /\ clock' \in Nat /\ clock < clock' /\ clock <= clock' /\ \A a \in arts : a.id \in 1..clock
    BY <1>3, <1>t DEF DiskOK
  <2>5. DiskOK'
    <3>1. proc[p].job \in Commands \cup {None}
      BY DEF IInv, RowsOK, ProcRows
    <3>2. new \in [id : 1..clock', of : Commands \cup {None}, ok : BOOLEAN]
      BY <2>2, <2>4, <3>1
    <3>3. arts \subseteq [id : 1..clock', of : Commands \cup {None}, ok : BOOLEAN]
      BY <1>t, <2>4 DEF DiskOK
    <3>4. result' \in [Jobs -> 0..clock'] /\ made' \in 0..clock' /\ doomed' \subseteq 1..clock'
      BY <1>t, <1>u, <1>3, <2>4 DEF DiskOK
    <3> QED
      BY <2>3, <2>4, <3>2, <3>3, <3>4 DEF DiskOK
  <2>6. OneIdentity'
    BY <1>t, <2>3, <2>4 DEF OneIdentity
  <2>7. Survive(0)
    BY <2>3 DEF Survive
  <2>8. DoomedHaveNewer'
    <3>1. SUFFICES ASSUME NEW a \in arts', a.id \in doomed
                   PROVE  a.of.type # "manual" /\ HasNewer(a.id, a.of.type, doomed)'
      BY <1>3 DEF DoomedHaveNewer
    <3>2. a \in arts
      <4>1. a.id \in 1..clock
        BY <1>t, <3>1 DEF DiskOK
      <4> QED
        BY <2>3, <2>4, <4>1
    <3>3. a.of.type # "manual" /\ HasNewer(a.id, a.of.type, doomed)
      BY <1>t, <3>1, <3>2 DEF DoomedHaveNewer
    <3>4. PICK i, t, rest : i = a.id /\ t = a.of.type /\ rest = doomed
      OBVIOUS
    <3>5. HasNewer(i, t, rest)'
      BY <1>t, <2>4, <2>7, <3>3, <3>4, NewerStays
    <3> QED
      BY <1>3, <3>3, <3>4, <3>5 DEF HasNewer
  <2>9. WorkIsKept(p)'
    <3>1. Listed(made, proc[p].job)'
      BY <1>3, <2>1, <2>3 DEF Listed
    <3> QED
      BY <3>1, <2>1 DEF WorkIsKept, Holding
  <2>10. Steady
    BY <1>e, <2>1, <2>9, ExecSteady
  <2> QED
    BY <1>u, <1>1, <2>4, <2>5, <2>6, <2>7, <2>8, <2>10, DiskKept
<1>4. CASE Fail(p, IF proc[p].aborted THEN "canceled" ELSE "failed") /\ UNCHANGED <<arts, clock>>
  <2>1. PICK why : why = (IF proc[p].aborted THEN "canceled" ELSE "failed") /\ Fail(p, why)
    BY <1>4
  <2> QED
    BY <1>2, <1>4, <2>1
<1> QED
  BY <1>3, <1>4 DEF Publish

-----------------------------------------------------------------------------
(* The steps of the requests outside an execution.                         *)

LEMMA AdmitStatus == ASSUME IInv, NEW j \in Jobs, AdmitBackup(j) PROVE NoSuccess /\ UNCHANGED result
  BY DEF AdmitBackup, NoSuccess, IInv, RowsOK

(* A row that is replaced, and the rest which is left.                     *)
LEMMA RowMoves ==
    ASSUME IInv, NEW p \in Procs, NEW r, r.pc \notin Holding, proc' = [proc EXCEPT ![p] = r]
    PROVE  Others(p) /\ proc'[p].pc \notin Holding
  BY DEF IInv, RowsOK, Others

LEMMA PlaceMoves ==
    ASSUME IInv, NEW p \in Procs, NEW l \in Points \ Holding, Goto(p, l)
    PROVE  Others(p) /\ proc'[p].pc \notin Holding
  BY GotoMoves

LEMMA RestMoves ==
    ASSUME IInv, NEW p \in Procs, proc' = [proc EXCEPT ![p] = Idle]
    PROVE  Others(p) /\ proc'[p].pc \notin Holding
  BY RefuseFields, IdleIsRow DEF IInv, Rests, Holding

LEMMA DecideMoves ==
    ASSUME IInv, NEW p \in Procs, NEW s, Decide(p, s)
    PROVE  Others(p) /\ proc'[p].pc \notin Holding
<1>1. {"waive", "lock"} \subseteq Points \ Holding
  BY DEF Points, Holding, Executing
<1> QED
  BY <1>1, RestMoves, PlaceMoves DEF Decide, Admit

LEMMA AdmissionMoves ==
    ASSUME IInv, NEW p \in Procs, Admission(p) \/ BeginWrite(p) \/ Lock(p)
    PROVE  Others(p) /\ proc'[p].pc \notin Holding
<1>t. proc \in [Procs -> ProcRows]
  BY DEF IInv, RowsOK
<1>0. {"waive", "lock", "find", "claim", "replace"} \subseteq Points \ Holding
  BY DEF Points, Holding, Executing
<1>1. CASE BeginWrite(p)
  <2>1. PICK r : r = [Idle EXCEPT !.pc = "read", !.kind = "write", !.date = day]
    OBVIOUS
  <2>2. r.pc \notin Holding
    BY <2>1 DEF Idle, Holding
  <2> QED
    BY <1>1, <2>1, <2>2, RowMoves DEF BeginWrite
<1>2. CASE ReadAdmission(p)
  BY <1>2, <1>t DEF ReadAdmission, ProcRows, Others, Holding
<1>3. CASE Submit(p)
  BY <1>3, <1>t DEF Submit, ProcRows, Others, Holding
<1>4. CASE EnsureDailyAdmission(p)
  <2>1. CASE Refuse(p)
    BY <2>1, RestMoves DEF Refuse
  <2>2. PICK s : s = proc[p].seen
    OBVIOUS
  <2>3. CASE Decide(p, s)
    BY <2>3, DecideMoves
  <2> QED
    BY <1>4, <2>1, <2>2, <2>3 DEF EnsureDailyAdmission
<1>5. CASE DecideRetried(p)
  <2>1. PICK s : s = status[proc[p].job]
    OBVIOUS
  <2> QED
    BY <1>5, <2>1, DecideMoves DEF DecideRetried
<1>6. CASE AfterFailure(p) \/ RequireOrWaive(p) \/ Drop(p)
  BY <1>0, <1>6, RestMoves, PlaceMoves DEF AfterFailure, RequireOrWaive, Drop, Refuse, Admit
<1>7. CASE Resubmit(p)
  BY <1>0, <1>7, PlaceMoves DEF Resubmit
<1>8. CASE ReplaceFailedDailyAdmission(p)
  <2>1. PICK r : /\ proc' = [proc EXCEPT ![p] = r]
                 /\ r \in {[proc[p] EXCEPT !.pc = "lock", !.job = Daily(proc[p].date, proc[p].job.try + 1)], Idle}
    BY <1>8 DEF ReplaceFailedDailyAdmission
  <2>2. r.pc \in {"lock", "idle"}
    BY <2>1, <1>t, IdleIsRow DEF ProcRows
  <2> QED
    BY <2>1, <2>2, RowMoves DEF Holding
<1>9. CASE Lock(p)
  <2>1. PICK l \in {"find", "claim"} : Goto(p, l)
    BY <1>9 DEF Lock
  <2> QED
    BY <1>0, <2>1, PlaceMoves
<1> QED
  BY <1>1, <1>2, <1>3, <1>4, <1>5, <1>6, <1>7, <1>8, <1>9 DEF Admission

LEMMA RequestsDisk ==
    ASSUME IInv, DiskInv, NEW p \in Procs, Admission(p) \/ BeginWrite(p) \/ Lock(p)
    PROVE  DiskInv'
<1>1. Others(p) /\ proc'[p].pc \notin Holding
  BY AdmissionMoves
<1>2. CASE UNCHANGED jobs /\ UNCHANGED <<disk, work>>
  BY <1>1, <1>2, RequestDisk DEF jobs, NoSuccess
<1>3. CASE Submit(p)
  <2>1. PICK j \in Jobs : AdmitBackup(j)
    <3>1. Daily(proc[p].date, 0) \in Jobs
      <4>1. proc[p].date \in Dates /\ 0 \in 0..MaxTry
        BY <1>3, BackupAssumption DEF IInv, KindIsSound, Submit, At
      <4> QED
        BY <4>1, Names
    <3> QED
      BY <1>3, <3>1 DEF Submit
  <2> QED
    BY <1>1, <1>3, <2>1, AdmitStatus, RequestDisk DEF Submit
<1>4. CASE Resubmit(p)
  <2>1. PICK j \in Jobs : AdmitBackup(j)
    <3>1. Daily(proc[p].date, proc[p].job.try + 1) \in Jobs
      <4>1. /\ proc[p].date \in Dates /\ proc[p].job \in DailyOf(proc[p].date)
            /\ proc[p].job.try < MaxTry
        BY <1>4 DEF IInv, KindIsSound, WorkIsSound, Resubmit, At
      <4>2. proc[p].job.try \in 0..MaxTry /\ MaxTry \in Nat
        BY <4>1, DailyIsTry, BackupAssumption
      <4>3. proc[p].job.try + 1 \in 0..MaxTry
        BY <4>1, <4>2
      <4> QED
        BY <4>1, <4>3, Names
    <3> QED
      BY <1>4, <3>1 DEF Resubmit
  <2> QED
    BY <1>1, <1>4, <2>1, AdmitStatus, RequestDisk DEF Resubmit
<1> QED
  BY <1>2, <1>3, <1>4 DEF Admission, BeginWrite, ReadAdmission, EnsureDailyAdmission, DecideRetried,
     AfterFailure, RequireOrWaive, ReplaceFailedDailyAdmission, Drop, Lock

LEMMA StartsDisk ==
    ASSUME IInv, DiskInv, NEW p \in Procs,
           \/ Abort(p)
           \/ \E j \in DailyJobs : RetryFailed(p, j)
           \/ \E j \in Jobs : Create(p, j)
           \/ \E r \in 1..Releases : Invoke(p, r)
    PROVE  DiskInv'
<1>t. proc \in [Procs -> ProcRows] /\ DiskOK
  BY DEF IInv, RowsOK, DiskInv
<1>1. CASE Abort(p)
  <2>1. UNCHANGED <<arts, clock, audit, result, made, doomed, status>>
    BY <1>1 DEF Abort, jobs, disk, work
  <2>2. \A q \in Procs : proc'[q].pc = proc[q].pc /\ proc'[q].job = proc[q].job
    BY <1>1, <1>t DEF Abort, ProcRows
  <2>3. Steady /\ Succeeds
    BY <2>1, <2>2 DEF Steady, SameWork, Succeeds
  <2> QED
    BY <2>1, <2>3, <1>t, DiskStays DEF DiskOK
<1>2. ASSUME NEW j \in DailyJobs, RetryFailed(p, j) PROVE DiskInv'
  <2>1. PICK r : r = Retried("resubmit", "retry", day, j)
    OBVIOUS
  <2>2. r.pc \notin Holding
    BY <2>1 DEF Retried, Idle, Holding
  <2>3. Others(p) /\ proc'[p].pc \notin Holding
    BY <1>2, <2>1, <2>2, RowMoves DEF RetryFailed, Retried
  <2> QED
    BY <1>2, <2>3, RequestDisk DEF RetryFailed, jobs, NoSuccess
<1>3. ASSUME NEW j \in Jobs, Create(p, j) PROVE DiskInv'
  <2>1. NoSuccess /\ UNCHANGED result
    BY <1>3, AdmitStatus DEF Create
  <2>2. UNCHANGED <<arts, clock, audit, made, doomed>>
    BY <1>3 DEF Create, disk, work
  <2>3. CASE proc' = proc
    <3>1. Steady /\ Succeeds
      BY <2>1, <2>2, <2>3 DEF Steady, SameWork, NoSuccess, Succeeds
    <3> QED
      BY <2>1, <2>2, <3>1, <1>t, DiskStays DEF DiskOK
  <2>4. CASE proc' = [proc EXCEPT ![p] = [Idle EXCEPT !.pc = "lock", !.kind = "manual", !.job = j]]
    <3>1. PICK r : r = Started("lock", "manual", j)
      OBVIOUS
    <3>2. r.pc \notin Holding
      BY <3>1 DEF Started, Idle, Holding
    <3>3. Others(p) /\ proc'[p].pc \notin Holding
      BY <2>4, <3>1, <3>2, RowMoves DEF Started
    <3> QED
      BY <1>3, <2>1, <3>3, RequestDisk DEF Create
  <2> QED
    BY <1>3, <2>3, <2>4 DEF Create
<1>4. ASSUME NEW n \in 1..Releases, Invoke(p, n) PROVE DiskInv'
  <2>1. PICK r : r = Started("lock", "release", Release(n))
    OBVIOUS
  <2>2. r.pc \notin Holding
    BY <2>1 DEF Started, Idle, Holding
  <2>3. Others(p) /\ proc'[p].pc \notin Holding
    BY <1>4, <2>1, <2>2, RowMoves DEF Invoke, Started
  <2> QED
    BY <1>4, <2>3, RequestDisk DEF Invoke, jobs, NoSuccess
<1> QED
  BY <1>1, <1>2, <1>3, <1>4

-----------------------------------------------------------------------------
(* The environment.                                                        *)

LEMMA EnvironmentDisk ==
    ASSUME IInv, DiskInv,
           \/ NextDay \/ Restart \/ HoldLease \/ ReleaseLease
           \/ \E a \in arts : Acquire(a) \/ Damage(a)
           \/ \E j \in Jobs : ConfirmWaiver(j) \/ RequestCancellation(j)
    PROVE  DiskInv'
<1>t. DiskOK /\ OneIdentity /\ DoomedHaveNewer
  BY DEF DiskInv
<1>1. CASE UNCHANGED <<arts, clock, audit, result, made, doomed, status, proc>>
  <2>1. Steady /\ Succeeds
    BY <1>1 DEF Steady, SameWork, Succeeds
  <2> QED
    BY <1>1, <2>1, <1>t, DiskStays DEF DiskOK
<1>2. CASE Restart
  <2>1. UNCHANGED <<arts, clock, audit, result, status>> /\ made' = 0 /\ doomed' = {}
    BY <1>2 DEF Restart, jobs, disk
  <2>2. Steady /\ Succeeds
    BY <1>2, <2>1, IdleIsRow DEF Restart, Steady, Succeeds, Holding
  <2> QED
    BY <2>1, <2>2, <1>t, DiskStays DEF DiskOK
<1>3. ASSUME NEW a \in arts, Damage(a) PROVE DiskInv'
  <2>1. PICK b : b = [a EXCEPT !.ok = FALSE]
    OBVIOUS
  <2>2. arts' = (arts \ {a}) \cup {b} /\ UNCHANGED <<clock, audit, result, made, doomed, status, proc>>
    BY <1>3, <2>1 DEF Damage, jobs, work
  <2>3. b.id = a.id /\ b.of = a.of /\ b \in [id : 1..clock, of : Commands \cup {None}, ok : BOOLEAN]
    BY <2>1, <1>t DEF DiskOK
  <2>4. DiskOK' /\ clock <= clock' /\ clock' \in Nat
    BY <1>t, <2>2, <2>3 DEF DiskOK
  <2>5. OneIdentity'
    BY <1>t, <2>2, <2>3 DEF OneIdentity
  <2>6. Survive(0)
    BY <2>2, <2>3 DEF Survive
  <2>7. DoomedHaveNewer'
    <3>1. SUFFICES ASSUME NEW c \in arts', c.id \in doomed
                   PROVE  c.of.type # "manual" /\ HasNewer(c.id, c.of.type, doomed)'
      BY <2>2 DEF DoomedHaveNewer
    <3>2. PICK d \in arts : d.id = c.id /\ d.of = c.of
      BY <2>2, <2>3
    <3>3. c.of.type # "manual" /\ HasNewer(c.id, c.of.type, doomed)
      BY <1>t, <3>1, <3>2 DEF DoomedHaveNewer
    <3>4. PICK i, t, rest : i = c.id /\ t = c.of.type /\ rest = doomed
      OBVIOUS
    <3>5. HasNewer(i, t, rest)'
      BY <1>t, <2>4, <2>6, <3>3, <3>4, NewerStays
    <3> QED
      BY <2>2, <3>3, <3>4, <3>5 DEF HasNewer
  <2>8. Steady /\ Succeeds
    BY <2>2 DEF Steady, SameWork, Succeeds
  <2> QED
    BY <2>2, <2>4, <2>5, <2>6, <2>7, <2>8, DiskKept
<1> QED
  BY <1>1, <1>2, <1>3 DEF NextDay, HoldLease, ReleaseLease, Acquire, ConfirmWaiver, RequestCancellation,
     days, today, jobs, disk, work

-----------------------------------------------------------------------------
(* The artifacts, their audit and what succeeded Jobs name fit together in *)
(* every reachable state, whatever is damaged, aborted or restarted.       *)
THEOREM DiskInvariant == Spec => []DiskInv
<1>1. Init => DiskInv
  <2>1. SUFFICES ASSUME Init PROVE DiskInv
    OBVIOUS
  <2>2. \A p \in Procs : proc[p].pc = "idle"
    BY <2>1, IdleIsRow DEF Init
  <2> QED
    BY <2>1, <2>2 DEF Init, DiskInv, DiskOK, OneIdentity, DoomedHaveNewer, WorkIsKept, Holding, SuccessIsSealed
<1>2. IInv /\ DiskInv /\ [Next]_vars => DiskInv'
  <2>1. SUFFICES ASSUME IInv, DiskInv, [Next]_vars PROVE DiskInv'
    OBVIOUS
  <2>2. CASE UNCHANGED vars
    <3>1. UNCHANGED <<arts, clock, audit, result, made, doomed, status, proc>>
      BY <2>2 DEF vars
    <3>2. Steady /\ Succeeds
      BY <3>1 DEF Steady, SameWork, Succeeds
    <3> QED
      BY <2>1, <3>1, <3>2, DiskStays DEF DiskInv, DiskOK
  <2>3. CASE \/ NextDay \/ Restart \/ HoldLease \/ ReleaseLease
             \/ \E a \in arts : Acquire(a) \/ Damage(a)
             \/ \E j \in Jobs : ConfirmWaiver(j) \/ RequestCancellation(j)
    BY <2>1, <2>3, EnvironmentDisk
  <2>4. ASSUME NEW p \in Procs, Execute(p) PROVE DiskInv'
    BY <2>1, <2>4, ClaimDisk, FailingDisk, FindDisk, PublishDisk, SealDisk, PruneDisk, TrashDisk,
       RemoveDisk, FinishDisk DEF Execute
  <2>5. ASSUME NEW p \in Procs,
               \/ BeginWrite(p) \/ Admission(p) \/ Lock(p) \/ Execute(p) \/ Abort(p)
               \/ \E j \in DailyJobs : RetryFailed(p, j)
               \/ \E j \in Jobs : Create(p, j)
               \/ \E r \in 1..Releases : Invoke(p, r)
        PROVE  DiskInv'
    BY <2>1, <2>4, <2>5, RequestsDisk, StartsDisk
  <2>6. CASE Next
    BY <2>3, <2>5, <2>6 DEF Next
  <2> QED
    BY <2>1, <2>2, <2>6
<1> QED
  BY <1>1, <1>2, BackupInvariant, PTL DEF Spec

(* A Job succeeds only with sealed evidence of its own artifact, and this  *)
(* stays listed until retention holds a limit of newer ones of its type.   *)
THEOREM SuccessIsKeptHolds == Spec => []SuccessIsKept
<1>1. DiskInv => SuccessIsKept
  <2>1. SUFFICES ASSUME DiskInv, NEW j \in Jobs, status[j] = "succeeded"
                 PROVE  /\ [id |-> result[j], of |-> j] \in audit
                        /\ \/ Listed(result[j], j)
                           \/ /\ j.type # "manual"
                              /\ Cardinality(Newer([id |-> result[j], of |-> j], arts)) >= Limit(j.type)
    BY DEF SuccessIsKept, Listed
  <2>2. Sealed(j, result[j])
    BY <2>1 DEF DiskInv, SuccessIsSealed
  <2>3. ASSUME j.type # "manual", HasNewer(result[j], j.type, {})
        PROVE  Cardinality(Newer([id |-> result[j], of |-> j], arts)) >= Limit(j.type)
    <3>1. PICK N : N = Newer([id |-> result[j], of |-> j], arts)
      OBVIOUS
    <3>2. PICK K \in SUBSET (1..clock) :
             /\ Cardinality(K) >= Limit(j.type)
             /\ \A k \in K : k > result[j] /\ k \notin {} /\ \E b \in arts : b.id = k /\ b.of.type = j.type
      BY <2>3 DEF HasNewer
    <3>3. N = {b \in arts : b.of.type = j.type /\ b.id > result[j]}
      BY <3>1 DEF Newer
    <3>4. clock \in Nat /\ \A b \in arts : b.id \in 1..clock
      BY <2>1 DEF DiskInv, DiskOK
    <3>5. IsFiniteSet(1..clock)
      BY <3>4, FS_Interval
    <3>6. IsFiniteSet(N)
      <4>1. PICK f : f = [b \in N |-> b.id]
        OBVIOUS
      <4>2. f \in [N -> 1..clock] /\ \A b \in N : f[b] = b.id
        BY <4>1, <3>3, <3>4
      <4>3. \A b, c \in N : f[b] = f[c] => b = c
        BY <4>2, <3>3, <2>1 DEF DiskInv, OneIdentity
      <4>4. f \in Injection(N, 1..clock)
        BY <4>2, <4>3 DEF Injection, IsInjective
      <4> QED
        BY <4>4, <3>5, FS_Injection
    <3>7. IsFiniteSet(K) /\ Cardinality(K) <= Cardinality(N)
      <4>1. PICK g : g = [k \in K |-> CHOOSE b \in N : b.id = k]
        OBVIOUS
      <4>2. \A k \in K : g[k] \in N /\ g[k].id = k
        <5>1. SUFFICES ASSUME NEW k \in K PROVE g[k] \in N /\ g[k].id = k
          OBVIOUS
        <5>2. \E b \in N : b.id = k
          BY <3>2, <3>3
        <5> QED
          BY <4>1, <5>2
      <4>3. g \in [K -> N]
        BY <4>1, <4>2
      <4>4. g \in Injection(K, N)
        BY <4>2, <4>3 DEF Injection, IsInjective
      <4> QED
        BY <4>4, <3>6, FS_Injection
    <3>8. Cardinality(N) \in Nat /\ Cardinality(K) \in Nat /\ Limit(j.type) \in Nat
      BY <3>6, <3>7, FS_CardinalityType, BackupAssumption DEF Limit
    <3> QED
      BY <3>1, <3>2, <3>7, <3>8
  <2> QED
    BY <2>2, <2>3 DEF Sealed, Kept
<1> QED
  BY <1>1, DiskInvariant, PTL
=============================================================================
