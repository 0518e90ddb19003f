------------------------ MODULE Versioning_proofs ------------------------
(***************************************************************************)
(* Proofs about the versions of a project.  First the release saga, for    *)
(* every set of release Jobs, every number of restarts, with and without   *)
(* cancellation, and for each composition of Recovers; then the working    *)
(* set, for every opened catalog and every load of requests.               *)
(***************************************************************************)
EXTENDS MCVersioning, TLAPS, FiniteSetTheorems, SequenceTheorems, WellFoundedInduction

(* A worker between taking the write lane and giving it back.              *)
Busy(j) == pc[j] \notin {"idle", "claim"}

(* The lane is held by the one worker at work, and by no other.            *)
LaneIsHolder ==
    /\ \A j \in Jobs : Busy(j) => lane = j
    /\ LaneIsWorked

(* IntentRecovery runs alone, on one intent at a time, and none of its     *)
(* candidates was reported as succeeded.                                   *)
RecoveryRunsAlone ==
    /\ ~Open => \A j \in Jobs : pc[j] = "idle"
    /\ rpc = "idle" <=> rjob = NoRelease
    /\ rjob \notin recovering
    /\ \A j \in Jobs : j \in recovering \/ j = rjob =>
          intent[j] # "none" /\ status[j] # "succeeded"

(* What is released: the tip of the line is nobody's baseline; the intent  *)
(* of a release is settled, its Job was claimed, and a worker that still   *)
(* has it in hand only reports it.                                         *)
ReleasedIsSettled ==
    /\ \A j \in released : baseline[j] # active
    /\ \A j \in released : /\ intent[j] \in {"SUCCEEDED", "FAILED"}
                           /\ status[j] \notin {"absent", "queued"}
                           /\ Busy(j) => pc[j] = "succeed"
    /\ \A j \in Jobs : pc[j] = "succeed" => j \in released /\ intent[j] = "SUCCEEDED"

(* IntentRecovery activates and commits only what is not released; it      *)
(* completes the active release and fails only others.                     *)
RecoveryKnowsPointer ==
    /\ rpc \in {"activate", "activated", "committing", "commit"} => rjob \notin released
    /\ rpc = "complete" => active = rjob
    /\ rpc \in {"fail", "failJob"} => active # rjob

(* Between activation and commit the graph serves the candidate, and an    *)
(* intent, or a worker about to make one, has the mandatory backup.        *)
CandidateIsServed ==
    /\ \A j \in Jobs : pc[j] \in {"activated", "recheckCommit", "committing", "commit"} => graph = j
    /\ rpc \in {"activated", "committing", "commit"} => graph = rjob
    /\ \A j \in Jobs : intent[j] # "none" => j \in backedUp
    /\ \A j \in Jobs : pc[j] \in {"recheck", "intent"} => j \in backedUp

(* Worker.Cancel moves a Job only from a status that is still active.      *)
CancelsActive == \A j \in Jobs : cancelFrom[j] \in {"queued", "running"}

(* The inductive invariant.                                                *)
IInv ==
    /\ TypeOK
    /\ LaneIsHolder
    /\ RecoveryRunsAlone
    /\ ReleaseLine
    /\ ReleasedIsSettled
    /\ RecoveryKnowsPointer
    /\ CandidateIsServed
    /\ CancelsActive
    /\ ReleaseIsReported

USE ReleaseSagaAssumption
USE DEF jobs, pointer, external, canceler, recovery, live, Goto, SetIntent, RGoto, RDone,
        HandlerDone

(* The variables keep their types in every step; that a commit by          *)
(* IntentRecovery has a Job to release needs RecoveryRunsAlone.            *)
LEMMA TypeInductive == TypeOK /\ RecoveryRunsAlone /\ [Next]_vars => TypeOK'
<1> SUFFICES ASSUME TypeOK, RecoveryRunsAlone, [Next]_vars PROVE TypeOK'
  OBVIOUS
<1> USE DEF TypeOK
<1>1. CASE UNCHANGED vars
  BY <1>1 DEF vars
<1>2. ASSUME NEW j \in Jobs, Submit(j) PROVE TypeOK'
  BY <1>2 DEF Submit, Status
<1>3. ASSUME NEW j \in Jobs, Dispatch(j) PROVE TypeOK'
  BY <1>3 DEF Dispatch, Steps
<1>4. ASSUME NEW j \in Jobs, Claim(j) PROVE TypeOK'
  BY <1>4 DEF Claim, Steps, Status
<1>5. ASSUME NEW j \in Jobs, Rechecks(j) PROVE TypeOK'
  BY <1>5 DEF Rechecks, Recheck, Steps
<1>6. ASSUME NEW j \in Jobs, MandatoryBackup(j) PROVE TypeOK'
  BY <1>6 DEF MandatoryBackup, Steps
<1>7. ASSUME NEW j \in Jobs, CreateIntent(j) PROVE TypeOK'
  BY <1>7 DEF CreateIntent, Steps, IntentPhase
<1>8. ASSUME NEW j \in Jobs, IntentActivating(j) \/ IntentActivated(j) \/ IntentCommitting(j)
      PROVE  TypeOK'
  BY <1>8 DEF IntentActivating, IntentActivated, IntentCommitting, AdvanceIntent, Steps, IntentPhase
<1>9. ASSUME NEW j \in Jobs, ActivateGraph(j) PROVE TypeOK'
  BY <1>9 DEF ActivateGraph, Steps
<1>10. ASSUME NEW j \in Jobs, CommitActivatedIntent(j) PROVE TypeOK'
  BY <1>10 DEF CommitActivatedIntent, CommitRelease, Steps, IntentPhase
<1>11. ASSUME NEW j \in Jobs, Succeed(j) \/ Fail(j) PROVE TypeOK'
  BY <1>11 DEF Succeed, Fail, Finish, Steps, Status
<1>12. ASSUME NEW j \in Jobs, CancelRead(j) PROVE TypeOK'
  BY <1>12 DEF CancelRead
<1>13. ASSUME NEW j \in Jobs, CancelRequest(j) PROVE TypeOK'
  BY <1>13 DEF CancelRequest, Status
<1>14. ASSUME NEW j \in Jobs, CancelMove(j) PROVE TypeOK'
  BY <1>14 DEF CancelMove, Status
<1>15. CASE Restart
  BY <1>15 DEF Restart, ListNonterminalReleaseIntents, Status, Steps
<1>16. ASSUME NEW j \in Jobs, RecoverNext(j) PROVE TypeOK'
  BY <1>16 DEF RecoverNext, RecoverySteps
<1>17. CASE Decide
  BY <1>17 DEF Decide, RecoverySteps, IntentPhase
<1>18. CASE RecoverActivate
  BY <1>18 DEF RecoverActivate, RecoverySteps
<1>19. CASE RecoverActivated \/ RecoverCommitting
  BY <1>19 DEF RecoverActivated, RecoverCommitting, RecoverySteps, IntentPhase
<1>20. CASE RecoverCommit
  BY <1>20 DEF RecoverCommit, CommitRelease, RecoveryRunsAlone, RecoverySteps, IntentPhase
<1>21. CASE CompleteJob \/ FailJob
  BY <1>21 DEF CompleteJob, FailJob, RecoverySteps, Status
<1>22. CASE FailIntent
  BY <1>22 DEF FailIntent, RecoverySteps, IntentPhase
<1> QED
  BY <1>1, <1>2, <1>3, <1>4, <1>5, <1>6, <1>7, <1>8, <1>9, <1>10, <1>11, <1>12, <1>13,
     <1>14, <1>15, <1>16, <1>17, <1>18, <1>19, <1>20, <1>21, <1>22 DEF Next, Work, Recover

(* A commit extends the line of releases by one: the candidate is new,     *)
(* its baseline is the active release, which is nobody's baseline yet.     *)
LEMMA CommitExtendsLine ==
    ASSUME TypeOK, ReleaseLine, ReleasedIsSettled, NEW j \in Jobs \ released,
           active = baseline[j], CommitRelease(j), UNCHANGED baseline
    PROVE  ReleaseLine' /\ \A k \in released' : baseline'[k] # active'
<1> USE DEF TypeOK, CommitRelease
<1>1. IsFiniteSet(released)
  BY FS_Subset
<1>2. generation' = Cardinality(released')
  BY <1>1, FS_AddElement DEF ReleaseLine
<1> QED
  BY <1>2 DEF ReleaseLine, ReleasedIsSettled

(* Every step of the worker, the cancel handlers, the restart and          *)
(* IntentRecovery keeps the inductive invariant.                           *)
LEMMA StepInductive == IInv /\ [Next]_vars => IInv'
<1> SUFFICES ASSUME IInv, [Next]_vars PROVE IInv'
  OBVIOUS
<1>0. TypeOK'
  BY TypeInductive DEF IInv
<1> USE <1>0 DEF IInv, TypeOK, LaneIsHolder, LaneIsWorked, Busy, RecoveryRunsAlone, Open,
                 ReleaseLine, ReleasedIsSettled, RecoveryKnowsPointer, CandidateIsServed,
                 CancelsActive, ReleaseIsReported, SuccessIsReleased, ActiveStaysReleased
<1>1. CASE UNCHANGED vars
  BY <1>1 DEF vars
<1>2. ASSUME NEW j \in Jobs, Submit(j) PROVE IInv'
  <2>1. baseline' = baseline \/ j \notin released
    BY <1>2 DEF Submit
  <2> QED
    BY <1>2, <2>1 DEF Submit
<1>3. ASSUME NEW j \in Jobs, Dispatch(j) PROVE IInv'
  BY <1>3 DEF Dispatch
<1>4. ASSUME NEW j \in Jobs, Claim(j) PROVE IInv'
  <2>1. \A k \in Jobs : ~Busy(k)
    BY <1>4 DEF Claim
  <2> QED
    BY <1>4, <2>1 DEF Claim
<1>5. ASSUME NEW j \in Jobs, Rechecks(j) PROVE IInv'
  BY <1>5 DEF Rechecks, Recheck
<1>6. ASSUME NEW j \in Jobs, MandatoryBackup(j) PROVE IInv'
  BY <1>6 DEF MandatoryBackup
<1>7. ASSUME NEW j \in Jobs, CreateIntent(j) PROVE IInv'
  BY <1>7 DEF CreateIntent
<1>8. ASSUME NEW j \in Jobs, IntentActivating(j) \/ IntentActivated(j) \/ IntentCommitting(j)
      PROVE  IInv'
  <2>1. Open /\ j \notin released
    BY <1>8 DEF IntentActivating, IntentActivated, IntentCommitting, AdvanceIntent
  <2> QED
    BY <1>8, <2>1 DEF IntentActivating, IntentActivated, IntentCommitting, AdvanceIntent
<1>9. ASSUME NEW j \in Jobs, ActivateGraph(j) PROVE IInv'
  <2>1. \A k \in Jobs : Busy(k) => k = j
    BY <1>9 DEF ActivateGraph
  <2> QED
    BY <1>9, <2>1 DEF ActivateGraph
<1>10. ASSUME NEW j \in Jobs, CommitActivatedIntent(j) PROVE IInv'
  <2>1. CASE Committable(j, snap[j])
    <3>1. Open /\ j \notin released /\ status[j] \in {"running", "interrupted"}
      BY <1>10, <2>1 DEF CommitActivatedIntent, Committable
    <3>2. ReleaseLine' /\ \A k \in released' : baseline'[k] # active'
      BY <1>10, <2>1, <3>1, CommitExtendsLine DEF CommitActivatedIntent, Committable
    <3> QED
      BY <1>10, <2>1, <3>1, <3>2 DEF CommitActivatedIntent, CommitRelease, Committable
  <2>2. CASE ~Committable(j, snap[j])
    BY <1>10, <2>2 DEF CommitActivatedIntent
  <2> QED
    BY <2>1, <2>2
<1>11. ASSUME NEW j \in Jobs, Succeed(j) \/ Fail(j) PROVE IInv'
  <2>1. \A k \in Jobs : Busy(k) => k = j
    BY <1>11 DEF Succeed, Fail, Finish
  <2>2. Fail(j) => j \notin released
    BY <1>11 DEF Fail, Finish
  <2> QED
    BY <1>11, <2>1, <2>2 DEF Succeed, Fail, Finish
<1>12. ASSUME NEW j \in Jobs, CancelRead(j) \/ CancelRequest(j) PROVE IInv'
  BY <1>12 DEF CancelRead, CancelRequest
<1>13. ASSUME NEW j \in Jobs, CancelMove(j) PROVE IInv'
  BY <1>13 DEF CancelMove, CanRelease, CanTransitionTo
<1>14. CASE Restart
  <2>1. \A j \in ListNonterminalReleaseIntents : intent[j] # "none" /\ status[j] # "succeeded"
    BY DEF ListNonterminalReleaseIntents, Recoverable
  <2> QED
    BY <1>14, <2>1 DEF Restart
<1>15. ASSUME NEW j \in Jobs, RecoverNext(j) PROVE IInv'
  BY <1>15 DEF RecoverNext
<1>16. CASE Decide
  <2>1. rpc' = "complete" => active = rjob
    BY <1>16 DEF Decide
  <2>2. rpc' \in {"activate", "committing"} => rjob \notin released
    BY <1>16 DEF Decide
  <2> QED
    BY <1>16, <2>1, <2>2 DEF Decide
<1>17. CASE RecoverActivate
  BY <1>17 DEF RecoverActivate
<1>18. CASE RecoverActivated \/ RecoverCommitting
  BY <1>18 DEF RecoverActivated, RecoverCommitting
<1>19. CASE RecoverCommit
  <2>1. CASE Committable(rjob, generation)
    <3>1. rjob \in Jobs \ released
      BY <1>19 DEF RecoverCommit
    <3>2. ReleaseLine' /\ \A k \in released' : baseline'[k] # active'
      BY <1>19, <2>1, <3>1, CommitExtendsLine DEF RecoverCommit, Committable
    <3> QED
      BY <1>19, <2>1, <3>1, <3>2 DEF RecoverCommit, CommitRelease, Committable
  <2>2. CASE ~Committable(rjob, generation)
    BY <1>19, <2>2 DEF RecoverCommit
  <2> QED
    BY <2>1, <2>2
<1>20. CASE CompleteJob
  BY <1>20 DEF CompleteJob, CanRelease, CanTransitionTo
<1>21. CASE FailIntent
  BY <1>21 DEF FailIntent
<1>22. CASE FailJob
  BY <1>22 DEF FailJob, Recoverable
<1> QED
  BY <1>1, <1>2, <1>3, <1>4, <1>5, <1>6, <1>7, <1>8, <1>9, <1>10, <1>11, <1>12, <1>13,
     <1>14, <1>15, <1>16, <1>17, <1>18, <1>19, <1>20, <1>21, <1>22 DEF Next, Work, Recover

(* A project without a release, a Job or a worker satisfies it.            *)
LEMMA InitInvariant == Init => IInv
<1> SUFFICES ASSUME Init PROVE IInv
  OBVIOUS
<1>1. Cardinality(released) = 0
  BY FS_EmptySet DEF Init
<1> QED
  BY <1>1 DEF Init, IInv, TypeOK, Status, Steps, IntentPhase, RecoverySteps, LaneIsHolder,
        LaneIsWorked, Busy, RecoveryRunsAlone, Open, ReleaseLine, ReleasedIsSettled,
        RecoveryKnowsPointer, CandidateIsServed, CancelsActive, ReleaseIsReported,
        SuccessIsReleased, ActiveStaysReleased

(* Every reachable state of the saga satisfies the inductive invariant.    *)
THEOREM ReleaseSagaInvariant == Spec => []IInv
<1>1. Init => IInv
  BY InitInvariant
<1>2. IInv /\ [Next]_vars => IInv'
  BY StepInductive
<1> QED
  BY <1>1, <1>2, PTL DEF Spec

(* The variables of the saga keep their types.                             *)
THEOREM TypeCorrect == Spec => []TypeOK
<1>1. IInv => TypeOK
  BY DEF IInv
<1> QED
  BY <1>1, ReleaseSagaInvariant, PTL

(* However commands race and wherever the process dies, the releases form  *)
(* one line that the pointer's generation counts, and the write lane is    *)
(* never left behind (CommitActivatedIntent, WriteLane.Within).            *)
THEOREM ReleasesAreOrderedHolds == Spec => []ReleasesAreOrdered
<1>1. IInv => ReleasesAreOrdered
  BY DEF IInv, ReleasesAreOrdered, LaneIsHolder
<1> QED
  BY <1>1, ReleaseSagaInvariant, PTL

(* A Job succeeds only with its release, and neither the worker nor        *)
(* IntentRecovery ever reports the active release as failed.               *)
THEOREM ReleaseIsReportedHolds == Spec => []ReleaseIsReported
<1>1. IInv => ReleaseIsReported
  BY DEF IInv
<1> QED
  BY <1>1, ReleaseSagaInvariant, PTL

(* The pointer moves only in the two commits, to a candidate that the      *)
(* graph serves and whose mandatory backup has evidence.                   *)
THEOREM CommitServesGraphHolds == Spec => CommitServesGraph
<1> DEFINE Served == active' # active => graph = active' /\ active' \in backedUp
<1>1. IInv /\ [Next]_vars => Served
  <2> SUFFICES ASSUME IInv, [Next]_vars, active' # active PROVE graph = active' /\ active' \in backedUp
    OBVIOUS
  <2> USE DEF IInv, TypeOK, CandidateIsServed, RecoveryRunsAlone
  <2>1. (\E j \in Jobs : CommitActivatedIntent(j)) \/ RecoverCommit
    BY DEF Next, vars, Submit, Dispatch, Work, Claim, Rechecks, Recheck, MandatoryBackup,
           CreateIntent, IntentActivating, IntentActivated, IntentCommitting, AdvanceIntent,
           ActivateGraph, Succeed, Fail, Finish, CancelRead, CancelRequest, CancelMove,
           Restart, Recover, RecoverNext, Decide, RecoverActivate, RecoverActivated,
           RecoverCommitting, CompleteJob, FailIntent, FailJob
  <2>2. ASSUME NEW j \in Jobs, CommitActivatedIntent(j)
        PROVE  graph = active' /\ active' \in backedUp
    BY <2>2 DEF CommitActivatedIntent, CommitRelease, Committable
  <2>3. CASE RecoverCommit
    BY <2>3 DEF RecoverCommit, CommitRelease, Committable
  <2> QED
    BY <2>1, <2>2, <2>3
<1>2. IInv /\ [Next]_vars => [Served]_vars
  BY <1>1
<1> QED
  BY <1>2, ReleaseSagaInvariant, PTL DEF Spec, CommitServesGraph

-----------------------------------------------------------------------------
(***************************************************************************)
(* The working set (WorkingSet), for any catalog, number of requests,      *)
(* patches, revisions and restores of a release.                           *)
(***************************************************************************)
Last == Len(revs)

(* Later rows of an entity have a higher version.                          *)
Grown(V, X) ==
    \A e \in DOMAIN V : /\ e \in DOMAIN X /\ V[e].ver <= X[e].ver
                        /\ V[e].ver = X[e].ver => V[e] = X[e]

(* No release was restored after revision m up to revision n.              *)
NoRestore(m, n) == m <= n /\ \A k \in m + 1 .. n : revs[k].src = 0

RevisionsTyped ==
    /\ \E S : revs \in Seq(S)
    /\ Last \in Nat \ {0}
    /\ \A n \in 1 .. Last : W!Catalog(revs[n].man) /\ revs[n].src \in Nat
    /\ revs[Last].man = work
    /\ \A n \in 1 .. Last : revs[n].src # 0 =>
          revs[n].src \in 1 .. Last /\ revs[n].man = revs[revs[n].src].man /\ revs[n].issues = {}
    /\ releases \subseteq 1 .. Last /\ \A n \in releases : W!FullPasses(revs[n].man)

(* Between two restores versions rise, and an identity is given once.      *)
HistoryIsSound ==
    /\ \A m, n \in 1 .. Last : NoRestore(m, n) => Grown(revs[m].man, revs[n].man)
    /\ \A k, n \in 1 .. Last : NoRestore(k, n) =>
         \A m \in 1 .. k : DOMAIN revs[m].man \cap DOMAIN revs[n].man \subseteq DOMAIN revs[k].man

(* What a request holds: a row it has read, and a draft made of it.        *)
RequestOf(r) == [phase |-> r.phase, id |-> r.id, seen |-> r.seen, head |-> r.head, draft |-> r.draft, op |-> r.op,
                 pre |-> r.pre, tries |-> r.tries]

HoldsRow(r) ==
    /\ r.head \in 1 .. Last /\ r.id \in DOMAIN revs[r.head].man
    /\ r.seen = revs[r.head].man[r.id]

HoldsPatch(r) ==
    /\ r.draft \in W!Entity /\ r.draft.ver = r.seen.ver + 1
    /\ r.draft.status = r.seen.status \/ ~NoRestore(r.head, Last)

HoldsNew(r) ==
    /\ r.id \in Ids /\ r.draft \in W!Entity /\ r.draft.status = "active"
    /\ \A n \in 1 .. Last : r.id \notin DOMAIN revs[n].man

RequestIsSound(r) ==
    /\ r = RequestOf(r) /\ r.phase \in {"idle", "draft", "checked"}
    /\ (r.phase = "idle" /\ r.op = "none") \/ (r.phase # "idle" /\ r.op \in {"create", "patch"} /\ r.id # 0)
    /\ r.id # 0 /\ r.op # "create" => HoldsRow(r)
    /\ r.op = "patch" => HoldsPatch(r)
    /\ r.op = "create" => HoldsNew(r)

RequestsAreSound ==
    /\ client = [c \in Writers |-> client[c]]
    /\ \A c \in Writers : RequestIsSound(client[c])
    /\ \A c, d \in Writers : c # d /\ client[c].op = "create" => client[d].id # client[c].id

PatchIsSound(p) ==
    /\ patch[p] # NoPatch =>
         /\ patch[p] \in W!Patched /\ patch[p].base \in 1 .. Last /\ patch[p].rec.status = "active"
         /\ patch[p].id \in DOMAIN revs[patch[p].base].man
    /\ decision[p].kind = "accepted" =>
         /\ patch[p] # NoPatch /\ decision[p].rev = patch[p].base + 1 /\ decision[p].rev \in 1 .. Last
         /\ revs[decision[p].rev].man = W!Put(revs[patch[p].base].man, patch[p].id, patch[p].rec)

PatchesAreSound ==
    /\ patch = [p \in Patches |-> patch[p]] /\ decision = [p \in Patches |-> decision[p]]
    /\ \A p \in Patches : PatchIsSound(p)

(* Where a row is on the way through a traversal.                          *)
ReaderIsSound ==
    /\ reader \in [phase : {"idle", "reading", "done"}, key : Nat, id : Nat, got : [Ids -> Nat], stay : SUBSET Ids]
    /\ reader.phase = "idle" => reader.key = 0 /\ reader.id = 0 /\ \A e \in Ids : reader.got[e] = 0
    /\ reader.phase = "reading" => \A e \in reader.stay :
          e \in W!Listed(work) /\ reader.got[e] = IF W!After(e) THEN 0 ELSE 1
    /\ reader.phase = "done" => \A e \in reader.stay : reader.got[e] = 1

CatalogInv ==
    /\ RevisionsTyped /\ HistoryIsSound /\ RequestsAreSound /\ PatchesAreSound /\ ReaderIsSound
    /\ W!DanglingIsReported

(* Numbers: a set of them that is not empty has a least one, and one that  *)
(* is bounded a greatest.                                                  *)
LEMMA LeastNat == ASSUME NEW S, S \subseteq Nat, S # {} PROVE \E m \in S : \A n \in S : m <= n
<1>1. \E x \in S : \A y \in S : <<y, x>> \notin OpToRel(<, Nat)
  BY NatLessThanWellFounded, WFMin
<1>2. PICK x \in S : \A y \in S : <<y, x>> \notin OpToRel(<, Nat)
  BY <1>1
<1>3. \A y \in S : ~(y < x)
  BY <1>2 DEF OpToRel
<1> QED
  BY <1>3

LEMMA GreatestNat ==
    ASSUME NEW S, S \subseteq Nat, S # {}, NEW b \in Nat, \A n \in S : n <= b
    PROVE  \E m \in S : \A n \in S : n <= m
<1>1. PICK T : T = {i \in Nat : b - i \in S}
  OBVIOUS
<1>2. T \subseteq Nat /\ T # {}
  <2>1. PICK n \in S : TRUE
    OBVIOUS
  <2>2. b - n \in Nat /\ b - (b - n) = n
    BY <2>1
  <2> QED
    BY <1>1, <2>1, <2>2
<1>3. PICK i \in T : \A j \in T : i <= j
  BY <1>2, LeastNat
<1>4. ASSUME NEW n \in S PROVE n <= b - i
  <2>1. b - n \in Nat /\ b - (b - n) = n /\ n \in Nat
    BY <1>4
  <2>2. b - n \in T
    BY <1>1, <2>1
  <2>3. i \in Nat /\ i <= b - n
    BY <1>1, <1>3, <2>2
  <2> QED
    BY <2>1, <2>3
<1> QED
  BY <1>1, <1>3, <1>4

(* The newest restore, if a release was restored at all.                   *)
LEMMA NewestRestore ==
    ASSUME RevisionsTyped, NEW m \in Nat, m <= Last, ~NoRestore(m, Last)
    PROVE  \E n \in m + 1 .. Last : revs[n].src # 0 /\ NoRestore(n, Last)
<1>1. Last \in Nat
  BY DEF RevisionsTyped
<1>2. PICK S : S = {n \in m + 1 .. Last : revs[n].src # 0}
  OBVIOUS
<1>3. S \subseteq Nat /\ S # {} /\ \A n \in S : n <= Last
  BY <1>1, <1>2 DEF NoRestore
<1>4. PICK n \in S : \A k \in S : k <= n
  BY <1>1, <1>3, GreatestNat
<1>5. \A k \in n + 1 .. Last : revs[k].src = 0
  BY <1>1, <1>2, <1>4
<1> QED
  BY <1>1, <1>2, <1>4, <1>5 DEF NoRestore

(* Entity maps.                                                            *)
LEMMA SameCounting ==
    /\ \A S : W!Cardinality(S) = Cardinality(S)
    /\ \A S : W!IsFiniteSet(S) <=> IsFiniteSet(S)
<1>1. \A S : W!Cardinality(S) = Cardinality(S)
  BY DEF W!Cardinality, Cardinality
<1>2. \A S : W!IsFiniteSet(S) <=> IsFiniteSet(S)
  BY DEF W!IsFiniteSet, IsFiniteSet
<1> QED
  BY <1>1, <1>2

KeyFree(V, i, rec) == rec.status = "active" => ~W!KeyTaken(V, i, rec.key)

(* X is V with row rec for entity i.                                       *)
RowPut(V, X, i, rec) ==
    /\ DOMAIN X = DOMAIN V \cup {i} /\ X[i] = rec
    /\ \A e \in DOMAIN V \ {i} : X[e] = V[e]

LEMMA CatalogPut ==
    ASSUME NEW V, W!Catalog(V), NEW i \in Ids, NEW rec \in W!Entity, KeyFree(V, i, rec),
           NEW X, X = W!Put(V, i, rec)
    PROVE  W!Catalog(X) /\ RowPut(V, X, i, rec)
<1>2. /\ DOMAIN X = DOMAIN V \cup {i} /\ X[i] = rec /\ \A e \in DOMAIN V \ {i} : X[e] = V[e]
      /\ X = [e \in DOMAIN V \cup {i} |-> X[e]]
  BY DEF W!Put
<1>3. DOMAIN X \subseteq Ids /\ X \in [DOMAIN X -> W!Entity]
  BY <1>2 DEF W!Catalog
<1>4. W!IsFiniteSet(DOMAIN X)
  BY <1>2, FS_AddElement, SameCounting DEF W!Catalog
<1>5. W!Active(X) \subseteq W!Active(V) \cup {i}
  BY <1>2 DEF W!Active
<1>6. \A e \in W!Active(X) : ~W!KeyTaken(X, e, X[e].key)
  <2>1. SUFFICES ASSUME NEW e \in W!Active(X), NEW o \in W!Active(X) \ {e}, Kind[o] = Kind[e], X[o].key = X[e].key
                 PROVE  FALSE
    BY DEF W!KeyTaken
  <2>2. CASE e = i
    <3>1. o \in W!Active(V) /\ X[o] = V[o] /\ rec.status = "active"
      BY <1>2, <1>5, <2>1, <2>2 DEF W!Active
    <3> QED
      BY <1>2, <2>1, <2>2, <3>1 DEF KeyFree, W!KeyTaken
  <2>3. CASE o = i
    <3>1. e \in W!Active(V) /\ X[e] = V[e] /\ rec.status = "active"
      BY <1>2, <1>5, <2>1, <2>3 DEF W!Active
    <3> QED
      BY <1>2, <2>1, <2>3, <3>1 DEF KeyFree, W!KeyTaken
  <2>4. CASE e # i /\ o # i
    <3>1. e \in W!Active(V) /\ X[e] = V[e] /\ o \in W!Active(V) /\ X[o] = V[o]
      BY <1>2, <1>5, <2>1, <2>4 DEF W!Active
    <3> QED
      BY <2>1, <3>1 DEF W!KeyTaken, W!Catalog
  <2> QED
    BY <2>2, <2>3, <2>4
<1> QED
  BY <1>2, <1>3, <1>4, <1>6 DEF RowPut, W!Catalog

(* A row an entity map holds.                                              *)
LEMMA CatalogRow ==
    ASSUME NEW V, W!Catalog(V), NEW e \in DOMAIN V
    PROVE  /\ e \in Ids /\ e \in Nat \ {0} /\ V[e] \in W!Entity /\ V[e].ver \in Nat \ {0}
           /\ V[e].key \in Keys /\ V[e].key \in Nat \ {0}
           /\ V[e].status \in {"active", "archived"} /\ V[e].ref \in Ids \cup {0}
<1>1. e \in Ids /\ V[e] \in W!Entity
  BY DEF W!Catalog
<1>2. V[e].ver \in Nat \ {0} /\ V[e].key \in Keys /\ V[e].status \in {"active", "archived"} /\ V[e].ref \in Ids \cup {0}
  BY <1>1 DEF W!Entity, W!NoRef
<1> QED
  BY <1>1, <1>2, CatalogAssumption DEF W!WorkingSetAssumption

LEMMA GrownTwice ==
    ASSUME NEW V, NEW M, NEW X, W!Catalog(V), W!Catalog(M), W!Catalog(X), Grown(V, M), Grown(M, X)
    PROVE  Grown(V, X)
<1>1. SUFFICES ASSUME NEW e \in DOMAIN V
               PROVE  /\ e \in DOMAIN X /\ V[e].ver <= X[e].ver
                      /\ V[e].ver = X[e].ver => V[e] = X[e]
  BY DEF Grown
<1>2. e \in DOMAIN M /\ V[e].ver <= M[e].ver /\ (V[e].ver = M[e].ver => V[e] = M[e])
  BY DEF Grown
<1>3. e \in DOMAIN X /\ M[e].ver <= X[e].ver /\ (M[e].ver = X[e].ver => M[e] = X[e])
  BY <1>2 DEF Grown
<1>4. V[e].ver \in Nat /\ M[e].ver \in Nat /\ X[e].ver \in Nat
  BY <1>2, <1>3, CatalogRow
<1> QED
  BY <1>2, <1>3, <1>4

(* One row more in config_revisions, and nothing of the older rows.        *)
LEMMA Written ==
    ASSUME RevisionsTyped, NEW X, NEW S, NEW src, W!WriteRevision(X, S, src)
    PROVE  /\ Last \in Nat \ {0} /\ Last' = Last + 1 /\ work' = X
           /\ \A n \in 1 .. Last : revs'[n] = revs[n]
           /\ revs'[Last + 1] = [man |-> X, src |-> src, issues |-> W!Issues(X, S)]
           /\ \E T : revs' \in Seq(T)
<1>1. PICK T : revs \in Seq(T)
  BY DEF RevisionsTyped
<1>2. PICK r : r = [man |-> X, src |-> src, issues |-> W!Issues(X, S)]
  OBVIOUS
<1>3. PICK U : U = T \cup {r}
  OBVIOUS
<1>4. revs \in Seq(U)
  BY <1>1, <1>3, SeqMonotonic
<1>5. revs' = Append(revs, r)
  BY <1>2 DEF W!WriteRevision
<1>6. /\ revs' \in Seq(U) /\ Len(revs') = Len(revs) + 1
      /\ \A i \in 1 .. Len(revs) : revs'[i] = revs[i]
      /\ revs'[Len(revs) + 1] = r
  BY <1>3, <1>4, <1>5, AppendProperties
<1> QED
  BY <1>2, <1>6 DEF Last, RevisionsTyped, W!WriteRevision

(* Which rows a stretch of revisions without a restore runs over.          *)
LEMMA StretchBefore ==
    ASSUME RevisionsTyped, NEW X, NEW S, NEW src, W!WriteRevision(X, S, src)
    PROVE  /\ \A m \in 1 .. Last, n \in 1 .. Last : NoRestore(m, n)' <=> NoRestore(m, n)
           /\ \A m \in 1 .. Last : \A n : n = Last + 1 => (NoRestore(m, n)' <=> src = 0 /\ NoRestore(m, Last))
<1>1. /\ Last \in Nat \ {0} /\ \A n \in 1 .. Last : revs'[n] = revs[n]
      /\ revs'[Last + 1] = [man |-> X, src |-> src, issues |-> W!Issues(X, S)]
  BY Written
<1>2. revs'[Last + 1].src = src
  BY <1>1
<1>3. ASSUME NEW m \in 1 .. Last, NEW n \in 1 .. Last PROVE NoRestore(m, n)' <=> NoRestore(m, n)
  <2>1. \A k \in m + 1 .. n : revs'[k] = revs[k]
    BY <1>1
  <2> QED
    BY <2>1 DEF NoRestore
<1>4. ASSUME NEW m \in 1 .. Last, NEW n, n = Last + 1 PROVE NoRestore(m, n)' <=> src = 0 /\ NoRestore(m, Last)
  <2>1. \A k \in m + 1 .. Last : revs'[k] = revs[k]
    BY <1>1
  <2>2. \A k : k \in m + 1 .. n <=> k \in m + 1 .. Last \/ k = Last + 1
    BY <1>1, <1>4
  <2>3. m <= Last /\ m <= n
    BY <1>1, <1>4
  <2>4. (\A k \in m + 1 .. n : revs'[k].src = 0) <=> src = 0 /\ \A k \in m + 1 .. Last : revs[k].src = 0
    BY <1>2, <2>1, <2>2
  <2> QED
    BY <2>3, <2>4 DEF NoRestore
<1> QED
  BY <1>3, <1>4

(* An entity write, a checkpoint and an accepted patch continue the        *)
(* history: rows grow, and a new identity was in no revision.              *)
Continues(X) ==
    /\ W!Catalog(X) /\ Grown(work, X)
    /\ \A e \in DOMAIN X \ DOMAIN work : \A n \in 1 .. Last : e \notin DOMAIN revs[n].man

LEMMA RevisionsKept ==
    ASSUME RevisionsTyped, NEW X, NEW S, NEW src \in Nat, W!WriteRevision(X, S, src), W!Catalog(X),
           src # 0 => src \in 1 .. Last /\ X = revs[src].man /\ W!Issues(X, S) = {},
           UNCHANGED releases
    PROVE  RevisionsTyped'
<1>1. /\ Last \in Nat \ {0} /\ Last' = Last + 1 /\ work' = X
      /\ \A n \in 1 .. Last : revs'[n] = revs[n]
      /\ revs'[Last + 1] = [man |-> X, src |-> src, issues |-> W!Issues(X, S)]
      /\ \E T : revs' \in Seq(T)
  BY Written
<1>2. 1 .. Last' = 1 .. Last \cup {Last + 1}
  BY <1>1
<1>3. \A n \in 1 .. Last' : W!Catalog(revs'[n].man) /\ revs'[n].src \in Nat
  <2>1. \A n \in 1 .. Last : W!Catalog(revs'[n].man) /\ revs'[n].src \in Nat
    BY <1>1 DEF RevisionsTyped
  <2>2. revs'[Last + 1].man = X /\ revs'[Last + 1].src = src
    BY <1>1
  <2> QED
    BY <1>2, <2>1, <2>2
<1>4. revs'[Last'].man = work'
  BY <1>1
<1>5. ASSUME NEW n \in 1 .. Last', revs'[n].src # 0
      PROVE  revs'[n].src \in 1 .. Last' /\ revs'[n].man = revs'[revs'[n].src].man /\ revs'[n].issues = {}
  <2>1. CASE n \in 1 .. Last
    <3>1. revs'[n] = revs[n] /\ revs[n].src # 0
      BY <1>1, <1>5, <2>1
    <3>2. revs[n].src \in 1 .. Last /\ revs[n].man = revs[revs[n].src].man /\ revs[n].issues = {}
      BY <2>1, <3>1 DEF RevisionsTyped
    <3>3. revs'[revs[n].src] = revs[revs[n].src] /\ revs[n].src \in 1 .. Last'
      BY <1>1, <1>2, <3>2
    <3> QED
      BY <3>1, <3>2, <3>3
  <2>2. CASE n = Last + 1
    BY <1>1, <1>2, <1>5, <2>2
  <2> QED
    BY <1>2, <2>1, <2>2
<1>6. releases' \subseteq 1 .. Last' /\ \A n \in releases' : W!FullPasses(revs'[n].man)
  BY <1>1, <1>2 DEF RevisionsTyped
<1>7. Last' \in Nat \ {0}
  BY <1>1
<1> QED
  BY <1>1, <1>3, <1>4, <1>5, <1>6, <1>7 DEF RevisionsTyped

LEMMA HistoryContinued ==
    ASSUME RevisionsTyped, HistoryIsSound, NEW X, NEW S, W!WriteRevision(X, S, 0), Continues(X)
    PROVE  HistoryIsSound'
<1>1. /\ Last \in Nat \ {0} /\ Last' = Last + 1 /\ work' = X
      /\ \A n \in 1 .. Last : revs'[n] = revs[n]
      /\ revs'[Last + 1] = [man |-> X, src |-> 0, issues |-> W!Issues(X, S)]
  BY Written
<1>2. 1 .. Last' = 1 .. Last \cup {Last + 1}
  BY <1>1
<1>3. /\ \A m \in 1 .. Last, n \in 1 .. Last : NoRestore(m, n)' <=> NoRestore(m, n)
      /\ \A m \in 1 .. Last : \A n : n = Last + 1 => (NoRestore(m, n)' <=> NoRestore(m, Last))
  BY StretchBefore
<1>4. revs'[Last + 1].man = X /\ revs[Last].man = work /\ \A n \in 1 .. Last : W!Catalog(revs[n].man)
  BY <1>1 DEF RevisionsTyped
<1>5. Grown(X, X)
  <2>1. \A e \in DOMAIN X : X[e].ver \in Nat
    BY CatalogRow DEF Continues
  <2> QED
    BY <2>1 DEF Grown
<1>6. ASSUME NEW m \in 1 .. Last', NEW n \in 1 .. Last', NoRestore(m, n)'
      PROVE  Grown(revs'[m].man, revs'[n].man)
  <2>1. m <= n
    BY <1>6 DEF NoRestore
  <2>2. CASE n \in 1 .. Last
    <3>1. m \in 1 .. Last
      BY <1>1, <1>2, <2>1, <2>2
    <3> QED
      BY <1>1, <1>3, <1>6, <2>2, <3>1 DEF HistoryIsSound
  <2>3. CASE n = Last + 1 /\ m = Last + 1
    BY <1>4, <1>5, <2>3
  <2>4. CASE n = Last + 1 /\ m \in 1 .. Last
    <3>1. Last \in 1 .. Last /\ NoRestore(m, Last)
      BY <1>1, <1>3, <1>6, <2>4
    <3>2. Grown(revs[m].man, work)
      BY <1>4, <2>4, <3>1 DEF HistoryIsSound
    <3>3. Grown(revs[m].man, X)
      BY <1>4, <2>4, <3>1, <3>2, GrownTwice DEF Continues
    <3> QED
      BY <1>1, <1>4, <2>4, <3>3
  <2> QED
    BY <1>2, <2>2, <2>3, <2>4
<1>7. ASSUME NEW k \in 1 .. Last', NEW n \in 1 .. Last', NoRestore(k, n)', NEW m \in 1 .. k
      PROVE  DOMAIN revs'[m].man \cap DOMAIN revs'[n].man \subseteq DOMAIN revs'[k].man
  <2>1. k <= n
    BY <1>7 DEF NoRestore
  <2>2. CASE k = n
    BY <2>2
  <2>3. CASE k # n
    <3>1. k \in 1 .. Last /\ m \in 1 .. Last
      BY <1>1, <1>2, <2>1, <2>3
    <3>2. CASE n \in 1 .. Last
      <4>1. NoRestore(k, n)
        BY <1>3, <1>7, <3>1, <3>2
      <4> QED
        BY <1>1, <1>7, <3>1, <3>2, <4>1 DEF HistoryIsSound
    <3>3. CASE n = Last + 1
      <4>1. Last \in 1 .. Last /\ NoRestore(k, Last)
        BY <1>1, <1>3, <1>7, <3>1, <3>3
      <4>2. DOMAIN revs[m].man \cap DOMAIN work \subseteq DOMAIN revs[k].man
        BY <1>4, <1>7, <3>1, <4>1 DEF HistoryIsSound
      <4>3. DOMAIN revs[m].man \cap DOMAIN X \subseteq DOMAIN work
        BY <3>1 DEF Continues
      <4> QED
        BY <1>1, <1>4, <3>1, <3>3, <4>2, <4>3
    <3> QED
      BY <1>2, <3>2, <3>3
  <2> QED
    BY <2>2, <2>3
<1> QED
  BY <1>6, <1>7 DEF HistoryIsSound

(* A restore starts the history of versions over.                          *)
LEMMA HistoryRestarted ==
    ASSUME RevisionsTyped, HistoryIsSound, NEW X, NEW S, NEW src \in Nat \ {0},
           W!WriteRevision(X, S, src), W!Catalog(X)
    PROVE  HistoryIsSound'
<1>1. /\ Last \in Nat \ {0} /\ Last' = Last + 1 /\ work' = X
      /\ \A n \in 1 .. Last : revs'[n] = revs[n]
      /\ revs'[Last + 1] = [man |-> X, src |-> src, issues |-> W!Issues(X, S)]
  BY Written
<1>2. 1 .. Last' = 1 .. Last \cup {Last + 1}
  BY <1>1
<1>3. /\ \A m \in 1 .. Last, n \in 1 .. Last : NoRestore(m, n)' <=> NoRestore(m, n)
      /\ \A m \in 1 .. Last : \A n : n = Last + 1 => ~NoRestore(m, n)'
  BY StretchBefore
<1>4. Grown(X, X)
  <2>1. \A e \in DOMAIN X : X[e].ver \in Nat
    BY CatalogRow
  <2> QED
    BY <2>1 DEF Grown
<1>5. ASSUME NEW m \in 1 .. Last', NEW n \in 1 .. Last', NoRestore(m, n)'
      PROVE  (m \in 1 .. Last /\ n \in 1 .. Last) \/ (m = Last + 1 /\ n = Last + 1)
  <2>1. m <= n
    BY <1>5 DEF NoRestore
  <2> QED
    BY <1>1, <1>2, <1>3, <1>5, <2>1
<1>6. ASSUME NEW m \in 1 .. Last', NEW n \in 1 .. Last', NoRestore(m, n)'
      PROVE  Grown(revs'[m].man, revs'[n].man)
  BY <1>1, <1>3, <1>4, <1>5, <1>6 DEF HistoryIsSound
<1>7. ASSUME NEW k \in 1 .. Last', NEW n \in 1 .. Last', NoRestore(k, n)', NEW m \in 1 .. k
      PROVE  DOMAIN revs'[m].man \cap DOMAIN revs'[n].man \subseteq DOMAIN revs'[k].man
  <2>1. CASE k \in 1 .. Last /\ n \in 1 .. Last
    <3>1. m \in 1 .. Last
      BY <1>1, <2>1
    <3> QED
      BY <1>1, <1>3, <1>7, <2>1, <3>1 DEF HistoryIsSound
  <2>2. CASE k = Last + 1 /\ n = Last + 1
    BY <2>2
  <2> QED
    BY <1>5, <1>7, <2>1, <2>2
<1> QED
  BY <1>6, <1>7 DEF HistoryIsSound

(* What a request holds stays true while others write: rows it read are    *)
(* rows of an old revision, and a new identity is its own.                 *)
LEMMA RequestStays ==
    ASSUME RevisionsTyped, NEW X, NEW S, NEW src, W!WriteRevision(X, S, src),
           NEW r, RequestIsSound(r), r.op = "create" => r.id \notin DOMAIN X
    PROVE  RequestIsSound(r)'
<1>1. /\ Last \in Nat \ {0} /\ Last' = Last + 1
      /\ \A n \in 1 .. Last : revs'[n] = revs[n]
      /\ revs'[Last + 1] = [man |-> X, src |-> src, issues |-> W!Issues(X, S)]
  BY Written
<1>2. 1 .. Last' = 1 .. Last \cup {Last + 1}
  BY <1>1
<1>3. HoldsRow(r) => HoldsRow(r)'
  BY <1>1, <1>2 DEF HoldsRow
<1>4. ASSUME HoldsRow(r), HoldsPatch(r) PROVE HoldsPatch(r)'
  <2>1. r.head \in 1 .. Last
    BY <1>4 DEF HoldsRow
  <2>2. ASSUME ~NoRestore(r.head, Last) PROVE ~(NoRestore(r.head, Last)')
    <3>1. PICK k \in r.head + 1 .. Last : revs[k].src # 0
      BY <1>1, <2>1, <2>2 DEF NoRestore
    <3>2. k \in r.head + 1 .. Last' /\ k \in 1 .. Last
      BY <1>1, <2>1
    <3> QED
      BY <1>1, <3>1, <3>2 DEF NoRestore
  <2> QED
    BY <1>4, <2>2 DEF HoldsPatch
<1>5. ASSUME r.op = "create", HoldsNew(r) PROVE HoldsNew(r)'
  <2>1. r.id \notin DOMAIN X /\ revs'[Last + 1].man = X
    BY <1>1, <1>5
  <2> QED
    BY <1>1, <1>2, <1>5, <2>1 DEF HoldsNew
<1>6. r.op = "patch" => HoldsRow(r) /\ HoldsPatch(r)
  BY DEF RequestIsSound
<1>7. r.op = "create" => HoldsNew(r)
  BY DEF RequestIsSound
<1>8. r.id # 0 /\ r.op # "create" => HoldsRow(r)
  BY DEF RequestIsSound
<1>9. /\ r.id # 0 /\ r.op # "create" => HoldsRow(r)'
      /\ r.op = "patch" => HoldsPatch(r)'
      /\ r.op = "create" => HoldsNew(r)'
  BY <1>3, <1>4, <1>5, <1>6, <1>7, <1>8
<1> QED
  BY <1>9 DEF RequestIsSound, RequestOf

LEMMA IdleRequest == RequestIsSound(W!Idle) /\ RequestIsSound(W!Idle)' /\ W!Idle.id = 0 /\ W!Idle.op = "none"
<1>1. /\ W!Idle.phase = "idle" /\ W!Idle.op = "none" /\ W!Idle.id = 0 /\ W!Idle = RequestOf(W!Idle)
  BY DEF W!Idle, RequestOf
<1>2. RequestIsSound(W!Idle)
  BY <1>1 DEF RequestIsSound
<1>3. RequestIsSound(W!Idle)'
  BY <1>1 DEF RequestIsSound, RequestOf
<1> QED
  BY <1>1, <1>2, <1>3

(* One request changes what it holds, the others keep theirs.              *)
LEMMA RequestsKept ==
    ASSUME RequestsAreSound, NEW c \in Writers, NEW r, client' = [client EXCEPT ![c] = r], RequestIsSound(r)',
           \A d \in Writers \ {c} : \A x : x = client[d] => RequestIsSound(x)',
           \A d \in Writers \ {c} : client[d].op = "create" => r.id # client[d].id,
           r.op = "create" => \A d \in Writers \ {c} : client[d].id # r.id
    PROVE  RequestsAreSound'
<1>1. /\ client' = [d \in Writers |-> client'[d]] /\ client'[c] = r
      /\ \A d \in Writers \ {c} : client'[d] = client[d]
  BY DEF RequestsAreSound
<1>2. ASSUME NEW d \in Writers PROVE RequestIsSound(client[d])'
  <2>1. CASE d = c
    <3>1. client'[d] = r
      BY <1>1, <2>1
    <3> QED
      BY <3>1 DEF RequestIsSound, RequestOf, HoldsRow, HoldsPatch, HoldsNew, NoRestore
  <2>2. CASE d # c
    <3>1. PICK x : x = client[d]
      OBVIOUS
    <3>2. RequestIsSound(x)' /\ client'[d] = x
      BY <1>1, <2>2, <3>1
    <3> QED
      BY <3>2 DEF RequestIsSound, RequestOf, HoldsRow, HoldsPatch, HoldsNew, NoRestore
  <2> QED
    BY <2>1, <2>2
<1>3. ASSUME NEW d \in Writers, NEW e \in Writers, d # e, client'[d].op = "create"
      PROVE  client'[e].id # client'[d].id
  BY <1>1, <1>3 DEF RequestsAreSound
<1> QED
  BY <1>1, <1>2, <1>3 DEF RequestsAreSound

(* What the requests hold after a write, which ends the request of c.      *)
LEMMA RequestsStay ==
    ASSUME RevisionsTyped, RequestsAreSound, NEW X, NEW S, NEW src, W!WriteRevision(X, S, src), NEW c \in Writers,
           client' = [client EXCEPT ![c] = W!Idle],
           \A d \in Writers \ {c} : client[d].op = "create" => client[d].id \notin DOMAIN X
    PROVE  RequestsAreSound'
<1>1. PICK r : r = W!Idle
  OBVIOUS
<1>2. RequestIsSound(r)' /\ r.id = 0 /\ r.op = "none"
  BY <1>1, IdleRequest DEF RequestIsSound, RequestOf, HoldsRow, HoldsPatch, HoldsNew, NoRestore
<1>3. ASSUME NEW d \in Writers \ {c}, NEW x, x = client[d] PROVE RequestIsSound(x)'
  <2>1. RequestIsSound(x) /\ (x.op = "create" => x.id \notin DOMAIN X)
    BY <1>3 DEF RequestsAreSound
  <2> QED
    BY <2>1, RequestStays
<1>4. ASSUME NEW d \in Writers \ {c}, client[d].op = "create" PROVE client[d].id # 0
  BY <1>4 DEF RequestsAreSound, RequestIsSound
<1> QED
  BY <1>1, <1>2, <1>3, <1>4, RequestsKept

LEMMA RequestsWait ==
    ASSUME RevisionsTyped, RequestsAreSound, NEW X, NEW S, NEW src, W!WriteRevision(X, S, src), UNCHANGED client,
           \A d \in Writers : client[d].op = "create" => client[d].id \notin DOMAIN X
    PROVE  RequestsAreSound'
<1>1. client' = [c \in Writers |-> client'[c]]
  BY DEF RequestsAreSound
<1>2. ASSUME NEW d \in Writers PROVE RequestIsSound(client[d])'
  <2>1. PICK x : x = client[d]
    OBVIOUS
  <2>2. RequestIsSound(x) /\ (x.op = "create" => x.id \notin DOMAIN X)
    BY <2>1 DEF RequestsAreSound
  <2>3. RequestIsSound(x)' /\ client'[d] = x
    BY <2>1, <2>2, RequestStays
  <2> QED
    BY <2>3 DEF RequestIsSound, RequestOf, HoldsRow, HoldsPatch, HoldsNew, NoRestore
<1> QED
  BY <1>1, <1>2 DEF RequestsAreSound

(* Sealed patches and decisions name old revisions.                        *)
LEMMA PatchStays ==
    ASSUME RevisionsTyped, NEW X, NEW S, NEW src, W!WriteRevision(X, S, src),
           NEW p, PatchIsSound(p), UNCHANGED <<patch[p], decision[p]>>
    PROVE  PatchIsSound(p)'
<1>1. /\ Last \in Nat \ {0} /\ Last' = Last + 1
      /\ \A n \in 1 .. Last : revs'[n] = revs[n]
  BY Written
<1>2. \A n \in 1 .. Last : n \in 1 .. Last'
  BY <1>1
<1> QED
  BY <1>1, <1>2 DEF PatchIsSound

LEMMA PatchesStay ==
    ASSUME RevisionsTyped, PatchesAreSound, NEW X, NEW S, NEW src, W!WriteRevision(X, S, src),
           UNCHANGED <<patch, decision>>
    PROVE  PatchesAreSound'
<1>1. \A p \in Patches : PatchIsSound(p)'
  BY PatchStays DEF PatchesAreSound
<1> QED
  BY <1>1 DEF PatchesAreSound

(* A traversal keeps the rows that stay where they are.                    *)
LEMMA ReaderStays ==
    ASSUME ReaderIsSound, NEW X, NEW S, NEW src, W!WriteRevision(X, S, src)
    PROVE  ReaderIsSound'
<1>1. /\ reader' = [reader EXCEPT !.stay = W!Staying(X)] /\ work' = X
  BY DEF W!WriteRevision
<1>2. PICK R : R = W!Staying(X)
  OBVIOUS
<1>3. R \subseteq reader.stay /\ \A e \in R : e \in W!Active(X) /\ X[e].key = work[e].key
  BY <1>2 DEF W!Staying
<1>4. reader.stay \subseteq Ids
  BY DEF ReaderIsSound
<1>5. reader' \in [phase : {"idle", "reading", "done"}, key : Nat, id : Nat, got : [Ids -> Nat], stay : SUBSET Ids]
  BY <1>1, <1>2, <1>3, <1>4 DEF ReaderIsSound
<1>6. /\ reader'.phase = reader.phase /\ reader'.key = reader.key /\ reader'.id = reader.id
      /\ reader'.got = reader.got /\ reader'.stay = R
  BY <1>1, <1>2 DEF ReaderIsSound
<1>7. ASSUME reader.phase = "reading", NEW e \in R
      PROVE  e \in W!Listed(X) /\ (W!After(e)' <=> W!After(e)) /\ reader.got[e] = IF W!After(e) THEN 0 ELSE 1
  <2>1. e \in W!Listed(work) /\ reader.got[e] = IF W!After(e) THEN 0 ELSE 1
    BY <1>3, <1>7 DEF ReaderIsSound
  <2>2. e \in W!Listed(X)
    BY <1>3, <2>1 DEF W!Listed
  <2>3. W!After(e)' <=> W!After(e)
    BY <1>1, <1>3, <1>6 DEF W!After
  <2> QED
    BY <2>1, <2>2, <2>3
<1> QED
  BY <1>1, <1>3, <1>5, <1>6, <1>7 DEF ReaderIsSound

(* A LOCAL run reports a reference to a missing or archived target.        *)
LEMMA IssueOf ==
    ASSUME NEW X, NEW S, NEW e \in S, X[e].ref # 0, X[e].ref \notin W!Active(X)
    PROVE  \E i \in W!Issues(X, S) : i[1] = e
<1>1. PICK t : t = X[e].ref
  OBVIOUS
<1>2. t # W!NoRef /\ t \notin W!Active(X)
  BY <1>1 DEF W!NoRef
<1>3. W!ReferenceCode(X, e) # "none"
  <2>1. CASE t \notin DOMAIN X
    BY <1>1, <1>2, <2>1 DEF W!ReferenceCode, W!Active
  <2>2. CASE t \in DOMAIN X
    BY <1>1, <1>2, <2>2 DEF W!ReferenceCode, W!Active
  <2> QED
    BY <2>1, <2>2
<1>4. <<e, W!ReferenceCode(X, e)>> \in W!Issues(X, S)
  BY <1>3 DEF W!Issues
<1> QED
  BY <1>4

(* A row written after the last restore may have archived its entity.      *)
RewrittenBy(X, t) ==
    \E n \in 1 .. Last :
      /\ W!LastRestore(n) /\ t \in DOMAIN revs[n].man \cap DOMAIN X
      /\ revs[n].man[t].ver < X[t].ver

LEMMA DanglingStays ==
    ASSUME RevisionsTyped, W!DanglingIsReported, NEW X, NEW S, W!WriteRevision(X, S, 0), Continues(X),
           \A e \in W!Active(X) \ S : e \in W!Active(work) /\ X[e] = work[e],
           \A t \in W!Active(work) \ W!Active(X) :
              RewrittenBy(X, t) \/ \A e \in W!Active(X) \ S : X[e].ref # t
    PROVE  W!DanglingIsReported'
<1>1. /\ Last \in Nat \ {0} /\ Last' = Last + 1 /\ work' = X
      /\ \A n \in 1 .. Last : revs'[n] = revs[n]
      /\ revs'[Last + 1] = [man |-> X, src |-> 0, issues |-> W!Issues(X, S)]
  BY Written
<1>2. 1 .. Last' = 1 .. Last \cup {Last + 1} /\ W!Latest = Last /\ (W!Latest)' = Last'
  BY <1>1 DEF W!Latest, Last
<1>3. ASSUME NEW n \in 1 .. Last, W!LastRestore(n) PROVE W!LastRestore(n)'
  <2>1. \A m \in n + 1 .. Last' : m \in n + 1 .. Last \/ m = Last + 1
    BY <1>1
  <2>2. \A m \in n + 1 .. Last : m \in 1 .. Last
    BY <1>1
  <2>3. \A m \in n + 1 .. Last' : revs'[m].src = 0
    BY <1>1, <1>2, <1>3, <2>1, <2>2 DEF W!LastRestore
  <2> QED
    BY <1>1, <1>2, <1>3, <2>3 DEF W!LastRestore
<1>4. ASSUME NEW t, RewrittenBy(X, t) PROVE W!RewrittenSinceRestore(t)'
  <2>1. PICK n \in 1 .. Last : /\ W!LastRestore(n) /\ t \in DOMAIN revs[n].man \cap DOMAIN X
                               /\ revs[n].man[t].ver < X[t].ver
    BY <1>4 DEF RewrittenBy
  <2>2. revs[n].man[t].ver \in Nat /\ X[t].ver \in Nat
    BY <2>1, CatalogRow DEF RevisionsTyped, Continues
  <2>3. W!LastRestore(n)' /\ n \in 1 .. Last' /\ revs'[n] = revs[n] /\ X[t].ver > revs[n].man[t].ver
    BY <1>1, <1>2, <1>3, <2>1, <2>2
  <2> QED
    BY <1>1, <1>2, <2>1, <2>3 DEF W!RewrittenSinceRestore
<1>5. ASSUME NEW t, W!RewrittenSinceRestore(t) PROVE RewrittenBy(X, t)
  <2>1. PICK n \in 1 .. Last : /\ W!LastRestore(n) /\ t \in DOMAIN revs[n].man \cap DOMAIN work
                               /\ work[t].ver > revs[n].man[t].ver
    BY <1>2, <1>5 DEF W!RewrittenSinceRestore
  <2>2. t \in DOMAIN X /\ work[t].ver <= X[t].ver
    BY <2>1 DEF Continues, Grown
  <2>3. W!Catalog(work)
    BY <1>1 DEF RevisionsTyped
  <2>4. revs[n].man[t].ver \in Nat /\ work[t].ver \in Nat /\ X[t].ver \in Nat
    BY <2>1, <2>2, <2>3, CatalogRow DEF RevisionsTyped, Continues
  <2>5. revs[n].man[t].ver < X[t].ver
    BY <2>1, <2>2, <2>4
  <2> QED
    BY <2>1, <2>2, <2>5 DEF RewrittenBy
<1>6. ASSUME NEW e \in W!Active(X), NEW t, t = X[e].ref, t # 0, t \notin W!Active(X)
      PROVE  W!Reported(e)' \/ W!RewrittenSinceRestore(t)'
  <2>1. e \in DOMAIN X
    BY <1>6 DEF W!Active
  <2>2. CASE e \in S
    <3>1. \E i \in W!Issues(X, S) : i[1] = e
      BY <1>6, <2>2, IssueOf
    <3>2. revs'[Last + 1].man = X /\ revs'[Last + 1].issues = W!Issues(X, S) /\ Last + 1 \in 1 .. Last'
      BY <1>1, <1>2
    <3>3. W!Reported(e)'
      BY <1>1, <1>2, <2>1, <3>1, <3>2 DEF W!Reported
    <3> QED
      BY <3>3
  <2>3. CASE e \notin S
    <3>1. e \in W!Active(work) /\ work[e] = X[e]
      BY <1>6, <2>3
    <3>2. CASE t \in W!Active(work)
      BY <1>4, <1>6, <2>3, <3>2
    <3>3. CASE t \notin W!Active(work)
      <4>1. W!Reported(e) \/ W!RewrittenSinceRestore(t)
        BY <1>6, <3>1, <3>3 DEF W!DanglingIsReported, W!NoRef
      <4>2. ASSUME W!Reported(e) PROVE W!Reported(e)'
        <5>1. PICK n \in 1 .. Last : /\ e \in DOMAIN revs[n].man /\ revs[n].man[e] = work[e]
                                     /\ \E i \in revs[n].issues : i[1] = e
          BY <1>2, <4>2 DEF W!Reported
        <5>2. n \in 1 .. Last' /\ revs'[n] = revs[n]
          BY <1>1, <1>2
        <5> QED
          BY <1>1, <1>2, <3>1, <5>1, <5>2 DEF W!Reported
      <4> QED
        BY <1>4, <1>5, <4>1, <4>2
    <3> QED
      BY <3>2, <3>3
  <2> QED
    BY <2>2, <2>3
<1>7. SUFFICES ASSUME NEW e \in W!Active(X), X[e].ref # 0, X[e].ref \notin W!Active(X)
               PROVE  W!Reported(e)' \/ W!RewrittenSinceRestore(work[e].ref)'
  BY <1>1 DEF W!DanglingIsReported, W!NoRef
<1>8. PICK t : t = X[e].ref
  OBVIOUS
<1>9. W!Reported(e)' \/ W!RewrittenSinceRestore(t)'
  BY <1>6, <1>7, <1>8
<1> QED
  BY <1>1, <1>8, <1>9 DEF W!RewrittenSinceRestore

(* Nothing of a restored release dangles.                                  *)
LEMMA NothingDangles ==
    ASSUME NEW X, W!FullPasses(X), work' = X
    PROVE  W!DanglingIsReported'
<1>1. ASSUME NEW e \in W!Active(X), X[e].ref # 0 PROVE X[e].ref \in W!Active(X)
  <2>1. e \in DOMAIN X
    BY DEF W!Active
  <2> QED
    BY <1>1, <2>1, IssueOf DEF W!FullPasses
<1> QED
  BY <1>1 DEF W!DanglingIsReported, W!NoRef

(* A row put into the catalog: an existing entity one version on, or one   *)
(* whose identity is in no revision.                                       *)
NextRow(i, rec) ==
    \/ i \in DOMAIN work /\ rec.ver = work[i].ver + 1
    \/ \A n \in 1 .. Last : i \notin DOMAIN revs[n].man

(* The rows of all other entities are what they were.                      *)
OthersStay(X, i) ==
    /\ \A e \in W!Active(X) \ {i} : e \in W!Active(work) /\ X[e] = work[e]
    /\ W!Active(work) \ W!Active(X) \subseteq {i}

LEMMA PutContinues ==
    ASSUME RevisionsTyped, NEW i \in Ids, NEW rec \in W!Entity, W!ActiveKeyFree(i, rec), NextRow(i, rec),
           NEW X, X = W!Put(work, i, rec)
    PROVE  Continues(X) /\ RowPut(work, X, i, rec) /\ OthersStay(X, i)
<1>1. W!Catalog(work) /\ Last \in 1 .. Last /\ revs[Last].man = work
  BY DEF RevisionsTyped
<1>2. KeyFree(work, i, rec)
  BY DEF KeyFree, W!ActiveKeyFree
<1>3. W!Catalog(X) /\ RowPut(work, X, i, rec)
  BY <1>1, <1>2, CatalogPut
<1>4. /\ DOMAIN X = DOMAIN work \cup {i} /\ X[i] = rec
      /\ \A e \in DOMAIN work \ {i} : X[e] = work[e]
  BY <1>3 DEF RowPut
<1>5. Grown(work, X)
  <2>1. \A e \in DOMAIN work : work[e].ver \in Nat
    BY <1>1, CatalogRow
  <2>2. i \in DOMAIN work => rec.ver = work[i].ver + 1
    BY <1>1 DEF NextRow
  <2> QED
    BY <1>4, <2>1, <2>2 DEF Grown
<1>6. \A e \in DOMAIN X \ DOMAIN work : \A n \in 1 .. Last : e \notin DOMAIN revs[n].man
  BY <1>1, <1>4 DEF NextRow
<1>7. OthersStay(X, i)
  BY <1>4 DEF OthersStay, W!Active
<1> QED
  BY <1>3, <1>5, <1>6, <1>7 DEF Continues

(* A write of request c that continues the history.                        *)
LEMMA WriteKept ==
    ASSUME CatalogInv, NEW c \in Writers, NEW X, NEW S, W!WriteRevision(X, S, 0), Continues(X),
           client' = [client EXCEPT ![c] = W!Idle], UNCHANGED <<releases, patch, decision>>,
           \A e \in DOMAIN X \ DOMAIN work : e = client[c].id,
           \A e \in W!Active(X) \ S : e \in W!Active(work) /\ X[e] = work[e],
           \A t \in W!Active(work) \ W!Active(X) :
              RewrittenBy(X, t) \/ \A e \in W!Active(X) \ S : X[e].ref # t
    PROVE  CatalogInv'
<1>1. /\ RevisionsTyped /\ HistoryIsSound /\ RequestsAreSound /\ PatchesAreSound /\ ReaderIsSound
      /\ W!DanglingIsReported
  BY DEF CatalogInv
<1>2. Last \in 1 .. Last /\ revs[Last].man = work
  BY <1>1 DEF RevisionsTyped
<1>3. RevisionsTyped'
  BY <1>1, RevisionsKept DEF Continues
<1>4. HistoryIsSound'
  BY <1>1, HistoryContinued
<1>5. ASSUME NEW d \in Writers \ {c}, client[d].op = "create" PROVE client[d].id \notin DOMAIN X
  <2>1. HoldsNew(client[d]) /\ client[c].id # client[d].id
    BY <1>1, <1>5 DEF RequestsAreSound, RequestIsSound
  <2>2. client[d].id \notin DOMAIN work
    BY <1>2, <2>1 DEF HoldsNew
  <2> QED
    BY <2>1, <2>2
<1>6. RequestsAreSound'
  BY <1>1, <1>5, RequestsStay
<1>7. PatchesAreSound' /\ ReaderIsSound'
  BY <1>1, PatchesStay, ReaderStays
<1>8. W!DanglingIsReported'
  BY <1>1, DanglingStays
<1> QED
  BY <1>3, <1>4, <1>6, <1>7, <1>8 DEF CatalogInv

(* The transaction of an entity write (saveTx).                            *)
LEMMA CommitKept == ASSUME CatalogInv, NEW c \in Writers, W!Commit(c) PROVE CatalogInv'
<1>1. /\ client[c].phase = "checked" /\ (client[c].op = "patch" => W!Matches(c))
      /\ W!ActiveKeyFree(client[c].id, client[c].draft)
      /\ W!WriteRevision(W!Put(work, client[c].id, client[c].draft), {client[c].id}, 0)
      /\ client' = [client EXCEPT ![c] = W!Idle] /\ UNCHANGED <<releases, patch, decision>>
  BY DEF W!Commit, W!VersionRecheck, W!VersionHolds, W!RecheckActiveKey
<1>2. /\ RevisionsTyped /\ HistoryIsSound /\ RequestIsSound(client[c]) /\ Last \in Nat \ {0}
      /\ W!Catalog(work) /\ revs[Last].man = work
  BY DEF CatalogInv, RequestsAreSound, RevisionsTyped
<1>3. PICK i, rec : i = client[c].id /\ rec = client[c].draft
  OBVIOUS
<1>4. PICK X : X = W!Put(work, i, rec)
  OBVIOUS
<1>5. W!ActiveKeyFree(i, rec) /\ W!WriteRevision(X, {i}, 0) /\ RevisionsTyped
  BY <1>1, <1>2, <1>3, <1>4
<1>6. client[c].op \in {"create", "patch"} /\ i # 0
  BY <1>1, <1>2, <1>3 DEF RequestIsSound
<1>7. i \in Ids /\ rec \in W!Entity
  <2>1. CASE client[c].op = "create"
    BY <1>2, <1>3, <2>1 DEF RequestIsSound, HoldsNew
  <2>2. CASE client[c].op = "patch"
    <3>1. HoldsRow(client[c]) /\ HoldsPatch(client[c])
      BY <1>2, <1>3, <1>6, <2>2 DEF RequestIsSound
    <3>2. i \in DOMAIN revs[client[c].head].man /\ W!Catalog(revs[client[c].head].man)
      BY <1>2, <1>3, <3>1 DEF HoldsRow, RevisionsTyped
    <3> QED
      BY <1>3, <3>1, <3>2, CatalogRow DEF HoldsPatch
  <2> QED
    BY <1>6, <2>1, <2>2
<1>8. \/ i \in DOMAIN work /\ rec.ver = work[i].ver + 1
      \/ (\A n \in 1 .. Last : i \notin DOMAIN revs[n].man) /\ rec.status = "active"
  <2>1. CASE client[c].op = "create"
    BY <1>2, <1>3, <2>1 DEF RequestIsSound, HoldsNew
  <2>2. CASE client[c].op = "patch"
    BY <1>1, <1>2, <1>3, <1>6, <2>2 DEF RequestIsSound, HoldsPatch, W!Matches
  <2> QED
    BY <1>6, <2>1, <2>2
<1>9. NextRow(i, rec)
  BY <1>8 DEF NextRow
<1>10. Continues(X) /\ RowPut(work, X, i, rec) /\ OthersStay(X, i)
  BY <1>4, <1>7, <1>5, <1>9, PutContinues
<1>11. /\ Continues(X) /\ DOMAIN X = DOMAIN work \cup {i} /\ X[i] = rec
      /\ \A e \in W!Active(X) \ {i} : e \in W!Active(work) /\ X[e] = work[e]
      /\ W!Active(work) \ W!Active(X) \subseteq {i}
  BY <1>10 DEF RowPut, OthersStay
<1>12. ASSUME i \in W!Active(work), i \notin W!Active(X) PROVE RewrittenBy(X, i)
  <2>1. i \in DOMAIN work /\ rec.status # work[i].status
    BY <1>11, <1>12 DEF W!Active
  <2>2. Last \in 1 .. Last
    BY <1>2
  <2>3. client[c].op = "patch"
    <3>1. ~HoldsNew(client[c])
      BY <1>2, <1>3, <2>1, <2>2 DEF HoldsNew
    <3> QED
      BY <1>2, <1>6, <3>1 DEF RequestIsSound
  <2>4. PICK h : h = client[c].head
    OBVIOUS
  <2>5. /\ h \in 1 .. Last /\ i \in DOMAIN revs[h].man /\ client[c].seen = revs[h].man[i]
        /\ (rec.status = client[c].seen.status \/ ~NoRestore(h, Last))
        /\ work[i].ver = client[c].seen.ver /\ rec.ver = work[i].ver + 1
    BY <1>1, <1>2, <1>3, <1>6, <2>3, <2>4 DEF RequestIsSound, HoldsRow, HoldsPatch, W!Matches
  <2>6. ~NoRestore(h, Last)
    <3>1. SUFFICES ASSUME NoRestore(h, Last) PROVE FALSE
      OBVIOUS
    <3>2. Grown(revs[h].man, work)
      BY <1>2, <2>2, <2>5, <3>1 DEF HistoryIsSound
    <3>3. revs[h].man[i] = work[i]
      BY <2>5, <3>2 DEF Grown
    <3> QED
      BY <2>1, <2>5, <3>1, <3>3
  <2>7. PICK n \in h + 1 .. Last : revs[n].src # 0 /\ NoRestore(n, Last)
    BY <1>2, <2>5, <2>6, NewestRestore
  <2>8. n \in 1 .. Last /\ h \in 1 .. n
    BY <1>2, <2>5
  <2>9. i \in DOMAIN revs[n].man
    BY <1>2, <2>1, <2>2, <2>5, <2>7, <2>8 DEF HistoryIsSound
  <2>10. Grown(revs[n].man, work)
    BY <1>2, <2>2, <2>7, <2>8 DEF HistoryIsSound
  <2>11. revs[n].man[i].ver <= work[i].ver /\ revs[n].man[i].ver \in Nat /\ work[i].ver \in Nat
    BY <1>2, <2>1, <2>8, <2>9, <2>10, CatalogRow DEF Grown, RevisionsTyped
  <2>12. revs[n].man[i].ver < X[i].ver
    BY <1>11, <2>5, <2>11
  <2>13. W!LastRestore(n)
    BY <2>7 DEF W!LastRestore, NoRestore, W!Latest, Last
  <2> QED
    BY <1>11, <2>8, <2>9, <2>12, <2>13 DEF RewrittenBy
<1>13. \A e \in DOMAIN X \ DOMAIN work : e = client[c].id
  BY <1>3, <1>11
<1>14. \A t \in W!Active(work) \ W!Active(X) : RewrittenBy(X, t) \/ \A e \in W!Active(X) \ {i} : X[e].ref # t
  BY <1>11, <1>12
<1> QED
  BY <1>1, <1>5, <1>11, <1>13, <1>14, WriteKept

(* DELETE archives an entity no active entity refers to.                   *)
LEMMA DeleteKept == ASSUME CatalogInv, NEW c \in Writers, W!Delete(c) PROVE CatalogInv'
<1>1. PICK i, rec : i = client[c].id /\ rec = [work[i] EXCEPT !.status = "archived", !.ver = @ + 1]
  OBVIOUS
<1>2. /\ i # 0 /\ i \in DOMAIN work /\ W!Unreferenced(i)
      /\ W!WriteRevision(W!Put(work, i, rec), {i}, 0)
      /\ client' = [client EXCEPT ![c] = W!Idle] /\ UNCHANGED <<releases, patch, decision>>
  BY <1>1 DEF W!Delete, W!Matches
<1>3. RevisionsTyped /\ W!Catalog(work)
  BY DEF CatalogInv, RevisionsTyped
<1>4. work[i] \in W!Entity /\ i \in Ids
  BY <1>2, <1>3, CatalogRow
<1>5. rec \in W!Entity /\ rec.status = "archived" /\ rec.ver = work[i].ver + 1
  <2>1. PICK w : w = work[i]
    OBVIOUS
  <2>2. w \in [ver : Nat \ {0}, status : {"active", "archived"}, key : Keys, ref : Ids \cup {W!NoRef}]
    BY <1>4, <2>1 DEF W!Entity
  <2>3. w.ver + 1 \in Nat \ {0}
    BY <2>2
  <2>4. rec = [w EXCEPT !.status = "archived", !.ver = w.ver + 1]
    BY <1>1, <2>1
  <2> QED
    BY <2>1, <2>2, <2>3, <2>4 DEF W!Entity
<1>6. PICK X : X = W!Put(work, i, rec)
  OBVIOUS
<1>7. W!ActiveKeyFree(i, rec)
  BY <1>5 DEF W!ActiveKeyFree
<1>8. NextRow(i, rec)
  BY <1>2, <1>5 DEF NextRow
<1>9. Continues(X) /\ RowPut(work, X, i, rec) /\ OthersStay(X, i)
  BY <1>3, <1>4, <1>5, <1>6, <1>7, <1>8, PutContinues
<1>10. /\ Continues(X) /\ DOMAIN X = DOMAIN work \cup {i}
      /\ \A e \in W!Active(X) \ {i} : e \in W!Active(work) /\ X[e] = work[e]
      /\ W!Active(work) \ W!Active(X) \subseteq {i}
  BY <1>9 DEF RowPut, OthersStay
<1>11. \A e \in W!Active(X) \ {i} : X[e].ref # i
  BY <1>2, <1>10 DEF W!Unreferenced
<1>12. W!WriteRevision(X, {i}, 0) /\ \A e \in DOMAIN X \ DOMAIN work : e = client[c].id
  BY <1>1, <1>2, <1>6, <1>10
<1>13. \A t \in W!Active(work) \ W!Active(X) : RewrittenBy(X, t) \/ \A e \in W!Active(X) \ {i} : X[e].ref # t
  BY <1>10, <1>11
<1> QED
  BY <1>2, <1>10, <1>12, <1>13, WriteKept

(* A checkpoint writes the working rows again.                             *)
LEMMA CheckpointKept == ASSUME CatalogInv, NEW c \in Writers, W!CreateCheckpoint(c) PROVE CatalogInv'
<1>1. /\ W!WriteRevision(work, DOMAIN work, 0)
      /\ client' = [client EXCEPT ![c] = W!Idle] /\ UNCHANGED <<releases, patch, decision>>
  BY DEF W!CreateCheckpoint
<1>2. W!Catalog(work)
  BY DEF CatalogInv, RevisionsTyped
<1>3. \A e \in DOMAIN work : work[e].ver \in Nat
  BY <1>2, CatalogRow
<1>4. Continues(work)
  BY <1>2, <1>3 DEF Continues, Grown
<1>5. W!Active(work) \subseteq DOMAIN work
  BY DEF W!Active
<1> QED
  BY <1>1, <1>4, <1>5, WriteKept

(* A restored release.                                                     *)
LEMMA RestoreReleaseKept == ASSUME CatalogInv, NEW c \in Writers, W!RestoreRelease(c) PROVE CatalogInv'
<1>1. PICK n \in releases : W!WriteRevision(revs[n].man, DOMAIN revs[n].man, n)
  BY DEF W!RestoreRelease, W!ReplaceWorkingEntities
<1>2. client' = [client EXCEPT ![c] = W!Idle] /\ UNCHANGED <<releases, patch, decision>>
  BY DEF W!RestoreRelease
<1>3. /\ RevisionsTyped /\ HistoryIsSound /\ RequestsAreSound /\ PatchesAreSound /\ ReaderIsSound
  BY DEF CatalogInv
<1>4. PICK X : X = revs[n].man
  OBVIOUS
<1>5. n \in 1 .. Last /\ n \in Nat \ {0} /\ W!Catalog(X) /\ W!FullPasses(X)
  BY <1>1, <1>3, <1>4 DEF RevisionsTyped
<1>6. W!WriteRevision(X, DOMAIN X, n) /\ W!Issues(X, DOMAIN X) = {}
  BY <1>1, <1>4, <1>5 DEF W!FullPasses
<1>7. RevisionsTyped'
  BY <1>2, <1>3, <1>4, <1>5, <1>6, RevisionsKept
<1>8. HistoryIsSound'
  BY <1>3, <1>5, <1>6, HistoryRestarted
<1>9. \A d \in Writers \ {c} : client[d].op = "create" => client[d].id \notin DOMAIN X
  BY <1>3, <1>4, <1>5 DEF RequestsAreSound, RequestIsSound, HoldsNew
<1>10. RequestsAreSound'
  BY <1>2, <1>3, <1>6, <1>9, RequestsStay
<1>11. PatchesAreSound' /\ ReaderIsSound'
  BY <1>2, <1>3, <1>6, PatchesStay, ReaderStays
<1>12. W!DanglingIsReported'
  BY <1>5, <1>6, NothingDangles DEF W!WriteRevision
<1> QED
  BY <1>7, <1>8, <1>10, <1>11, <1>12 DEF CatalogInv

(* A patch of one field changes the version and nothing else of the row.   *)
LEMMA PatchedRow ==
    ASSUME NEW w \in W!Entity, NEW d \in W!ApplyPatch(w)
    PROVE  d \in W!Entity /\ d.ver = w.ver + 1 /\ d.status = w.status
<1>1. w \in [ver : Nat \ {0}, status : {"active", "archived"}, key : Keys, ref : Ids \cup {W!NoRef}]
  BY DEF W!Entity
<1>2. w.ver + 1 \in Nat \ {0}
  BY <1>1
<1>3. CASE \E k \in Keys : d = [w EXCEPT !.key = k, !.ver = @ + 1]
  BY <1>1, <1>2, <1>3 DEF W!Entity
<1>4. CASE \E r \in Refs : d = [w EXCEPT !.ref = r, !.ver = @ + 1]
  <2>1. Refs \subseteq Ids \cup {W!NoRef}
    BY CatalogAssumption DEF W!WorkingSetAssumption
  <2> QED
    BY <1>1, <1>2, <1>4, <2>1 DEF W!Entity
<1> QED
  BY <1>3, <1>4 DEF W!ApplyPatch

(* What does not change.                                                   *)
LEMMA RevisionsSame ==
    ASSUME RevisionsTyped, HistoryIsSound, W!DanglingIsReported, UNCHANGED <<work, revs, releases>>
    PROVE  RevisionsTyped' /\ HistoryIsSound' /\ W!DanglingIsReported'
<1>1. RevisionsTyped'
  BY DEF RevisionsTyped, Last
<1>2. HistoryIsSound'
  BY DEF HistoryIsSound, NoRestore, Last
<1>3. W!DanglingIsReported'
  BY DEF W!DanglingIsReported, W!Reported, W!RewrittenSinceRestore, W!LastRestore, W!Latest
<1> QED
  BY <1>1, <1>2, <1>3

LEMMA RequestSame ==
    ASSUME UNCHANGED revs, NEW r, RequestIsSound(r)
    PROVE  RequestIsSound(r)'
BY DEF RequestIsSound, RequestOf, HoldsRow, HoldsPatch, HoldsNew, NoRestore, Last

LEMMA RequestsSame ==
    ASSUME RequestsAreSound, UNCHANGED <<revs, client>>
    PROVE  RequestsAreSound'
BY DEF RequestsAreSound, RequestIsSound, RequestOf, HoldsRow, HoldsPatch, HoldsNew, NoRestore, Last

LEMMA PatchesSame ==
    ASSUME PatchesAreSound, UNCHANGED <<revs, patch, decision>>
    PROVE  PatchesAreSound'
BY DEF PatchesAreSound, PatchIsSound, Last

LEMMA ReaderSame ==
    ASSUME ReaderIsSound, UNCHANGED <<work, reader>>
    PROVE  ReaderIsSound'
BY DEF ReaderIsSound, W!After

(* A request takes a step that writes nothing.                             *)
LEMMA RequestKept ==
    ASSUME CatalogInv, NEW c \in Writers, NEW r, RequestIsSound(r), client' = [client EXCEPT ![c] = r],
           \A d \in Writers \ {c} : client[d].op = "create" => r.id # client[d].id,
           r.op = "create" => \A d \in Writers \ {c} : client[d].id # r.id,
           UNCHANGED <<work, revs, releases, patch, decision, reader>>
    PROVE  CatalogInv'
<1>1. /\ RevisionsTyped /\ HistoryIsSound /\ RequestsAreSound /\ PatchesAreSound /\ ReaderIsSound
      /\ W!DanglingIsReported
  BY DEF CatalogInv
<1>2. RevisionsTyped' /\ HistoryIsSound' /\ W!DanglingIsReported'
  BY <1>1, RevisionsSame
<1>3. PatchesAreSound' /\ ReaderIsSound'
  BY <1>1, PatchesSame, ReaderSame
<1>4. ASSUME NEW d \in Writers \ {c}, NEW x, x = client[d] PROVE RequestIsSound(x)'
  BY <1>1, <1>4, RequestSame DEF RequestsAreSound
<1>5. RequestIsSound(r)'
  BY RequestSame
<1>6. RequestsAreSound'
  BY <1>1, <1>4, <1>5, RequestsKept
<1> QED
  BY <1>2, <1>3, <1>6 DEF CatalogInv

LEMMA RequestEnds ==
    ASSUME CatalogInv, NEW c \in Writers, client' = [client EXCEPT ![c] = W!Idle],
           UNCHANGED <<work, revs, releases, patch, decision, reader>>
    PROVE  CatalogInv'
<1>1. PICK r : r = W!Idle
  OBVIOUS
<1>2. RequestIsSound(r) /\ r.id = 0 /\ r.op = "none"
  BY <1>1, IdleRequest
<1>3. \A d \in Writers \ {c} : client[d].op = "create" => client[d].id # 0
  BY DEF CatalogInv, RequestsAreSound, RequestIsSound
<1> QED
  BY <1>1, <1>2, <1>3, RequestKept

(* GET.                                                                    *)
LEMMA GetKept == ASSUME CatalogInv, NEW c \in Writers, W!Get(c) PROVE CatalogInv'
<1>1. PICK e \in DOMAIN work :
        client' = [client EXCEPT ![c] = [W!Idle EXCEPT !.id = e, !.seen = work[e], !.head = W!Latest]]
  BY DEF W!Get
<1>2. PICK r : r = [W!Idle EXCEPT !.id = e, !.seen = work[e], !.head = W!Latest]
  OBVIOUS
<1>3. /\ r = RequestOf(r) /\ r.phase = "idle" /\ r.op = "none" /\ r.id = e /\ r.seen = work[e] /\ r.head = Last
  BY <1>2 DEF W!Idle, RequestOf, W!Latest, Last
<1>4. RevisionsTyped /\ RequestsAreSound /\ Last \in 1 .. Last /\ revs[Last].man = work
  BY DEF CatalogInv, RevisionsTyped
<1>5. RequestIsSound(r)
  BY <1>3, <1>4 DEF RequestIsSound, HoldsRow
<1>6. ASSUME NEW d \in Writers \ {c}, client[d].op = "create" PROVE r.id # client[d].id
  <2>1. HoldsNew(client[d])
    BY <1>4, <1>6 DEF RequestsAreSound, RequestIsSound
  <2> QED
    BY <1>1, <1>3, <1>4, <2>1 DEF HoldsNew
<1>7. client' = [client EXCEPT ![c] = r] /\ r.op # "create" /\ UNCHANGED <<work, revs, releases, patch, decision, reader>>
  BY <1>1, <1>2, <1>3 DEF W!Get
<1> QED
  BY <1>5, <1>6, <1>7, RequestKept

(* POST: an identity that was in no revision, and that no request holds.   *)
LEMMA CreateBeginKept == ASSUME CatalogInv, NEW c \in Writers, W!CreateBegin(c) PROVE CatalogInv'
<1>1. PICK e \in Ids, k \in Keys, f \in Refs :
        /\ W!NewID(e)
        /\ client' = [client EXCEPT ![c] =
                        [W!Idle EXCEPT !.phase = "draft", !.op = "create", !.id = e, !.draft = W!NewEntity(k, f)]]
  BY DEF W!CreateBegin
<1>2. PICK r : r = [W!Idle EXCEPT !.phase = "draft", !.op = "create", !.id = e, !.draft = W!NewEntity(k, f)]
  OBVIOUS
<1>3. /\ r = RequestOf(r) /\ r.phase = "draft" /\ r.op = "create" /\ r.id = e /\ r.draft = W!NewEntity(k, f)
  BY <1>2 DEF W!Idle, RequestOf
<1>4. RevisionsTyped /\ RequestsAreSound
  BY DEF CatalogInv
<1>5. /\ \A n \in 1 .. Last : e \notin DOMAIN revs[n].man
      /\ \A d \in Writers : client[d].id # e
  BY <1>1 DEF W!NewID, W!Latest, Last
<1>6. W!NewEntity(k, f) \in W!Entity /\ W!NewEntity(k, f).status = "active" /\ e # 0
  BY CatalogAssumption DEF W!NewEntity, W!Entity, W!WorkingSetAssumption
<1>7. RequestIsSound(r)
  BY <1>3, <1>5, <1>6 DEF RequestIsSound, HoldsNew
<1>8. /\ \A d \in Writers \ {c} : client[d].op = "create" => r.id # client[d].id
      /\ r.op = "create" => \A d \in Writers \ {c} : client[d].id # r.id
  BY <1>3, <1>5
<1> QED
  BY <1>1, <1>2, <1>7, <1>8, RequestKept DEF W!CreateBegin

(* PATCH: composed from a row with the version of the If-Match.            *)
LEMMA PatchBeginKept == ASSUME CatalogInv, NEW c \in Writers, W!PatchBegin(c) PROVE CatalogInv'
<1>1. PICK q : q = client[c]
  OBVIOUS
<1>2. /\ q.phase = "idle" /\ q.id # 0 /\ q.id \in DOMAIN work /\ work[q.id].ver = q.seen.ver
      /\ UNCHANGED <<work, revs, releases, patch, decision, reader>>
  BY <1>1 DEF W!PatchBegin, W!Matches
<1>3. PICK d \in W!ApplyPatch(work[q.id]) :
        client' = [client EXCEPT ![c].phase = "draft", ![c].op = "patch", ![c].draft = d]
  BY <1>1 DEF W!PatchBegin
<1>4. PICK r : r = [q EXCEPT !.phase = "draft", !.op = "patch", !.draft = d]
  OBVIOUS
<1>5. client' = [client EXCEPT ![c] = r]
  BY <1>1, <1>3, <1>4 DEF CatalogInv, RequestsAreSound
<1>6. /\ RevisionsTyped /\ HistoryIsSound /\ RequestsAreSound /\ RequestIsSound(q)
      /\ Last \in 1 .. Last /\ revs[Last].man = work /\ W!Catalog(work)
  BY <1>1 DEF CatalogInv, RequestsAreSound, RevisionsTyped
<1>7. /\ r = RequestOf(r) /\ r.phase = "draft" /\ r.op = "patch" /\ r.id = q.id /\ r.seen = q.seen
      /\ r.head = q.head /\ r.draft = d
  <2>1. q = RequestOf(q)
    BY <1>6 DEF RequestIsSound
  <2>2. r = RequestOf(r)
    BY <1>4, <2>1 DEF RequestOf
  <2>3. /\ r.phase = "draft" /\ r.op = "patch" /\ r.id = q.id /\ r.seen = q.seen
        /\ r.head = q.head /\ r.draft = d
    BY <1>4, <2>1 DEF RequestOf
  <2> QED
    BY <2>2, <2>3
<1>8. q.op = "none" /\ HoldsRow(q)
  BY <1>2, <1>6 DEF RequestIsSound
<1>9. d \in W!Entity /\ d.ver = work[q.id].ver + 1 /\ d.status = work[q.id].status
  BY <1>2, <1>3, <1>6, CatalogRow, PatchedRow
<1>10. NoRestore(q.head, Last) => q.seen = work[q.id]
  BY <1>2, <1>6, <1>8 DEF HoldsRow, HistoryIsSound, Grown
<1>11. HoldsRow(r) /\ HoldsPatch(r)
  BY <1>2, <1>7, <1>8, <1>9, <1>10 DEF HoldsRow, HoldsPatch
<1>12. RequestIsSound(r)
  BY <1>2, <1>7, <1>11 DEF RequestIsSound
<1>13. \A e \in Writers \ {c} : client[e].op = "create" => r.id # client[e].id
  BY <1>1, <1>6, <1>7 DEF RequestsAreSound
<1> QED
  BY <1>2, <1>5, <1>7, <1>12, <1>13, RequestKept

(* The checks ahead of the lock, and a request that makes them again.      *)
LEMMA ChecksKept ==
    ASSUME CatalogInv, NEW c \in Writers, W!Preflight(c) \/ W!Retry(c)
    PROVE  CatalogInv'
<1>1. PICK q : q = client[c]
  OBVIOUS
<1>2. RequestsAreSound /\ RequestIsSound(q)
  BY <1>1 DEF CatalogInv, RequestsAreSound
<1>3. /\ client = [d \in Writers |-> client[d]] /\ q = RequestOf(q)
  BY <1>2 DEF RequestsAreSound, RequestIsSound
<1>4. \E r : /\ client' = [client EXCEPT ![c] = r] /\ r = RequestOf(r)
             /\ r.phase \in {"draft", "checked"} /\ r.op = q.op /\ r.id = q.id /\ r.seen = q.seen
             /\ r.head = q.head /\ r.draft = q.draft /\ q.phase # "idle"
  <2>1. CASE W!Preflight(c)
    <3>1. PICK r : r = [q EXCEPT !.phase = "checked", !.pre = work]
      OBVIOUS
    <3>2. client' = [client EXCEPT ![c] = r] /\ q.phase # "idle"
      BY <1>1, <1>3, <2>1, <3>1 DEF W!Preflight
    <3>3. r = RequestOf(r)
      BY <1>3, <3>1 DEF RequestOf
    <3>4. /\ r.phase = "checked" /\ r.op = q.op /\ r.id = q.id /\ r.seen = q.seen
          /\ r.head = q.head /\ r.draft = q.draft
      BY <1>3, <3>1 DEF RequestOf
    <3> QED
      BY <3>2, <3>3, <3>4
  <2>2. CASE W!Retry(c)
    <3>1. PICK r : r = [q EXCEPT !.phase = "draft", !.tries = @ + 1, !.pre = <<>>]
      OBVIOUS
    <3>2. client' = [client EXCEPT ![c] = r] /\ q.phase # "idle"
      BY <1>1, <1>3, <2>2, <3>1 DEF W!Retry
    <3>3. r = RequestOf(r)
      BY <1>3, <3>1 DEF RequestOf
    <3>4. /\ r.phase = "draft" /\ r.op = q.op /\ r.id = q.id /\ r.seen = q.seen
          /\ r.head = q.head /\ r.draft = q.draft
      BY <1>3, <3>1 DEF RequestOf
    <3> QED
      BY <3>2, <3>3, <3>4
  <2> QED
    BY <2>1, <2>2
<1>5. PICK r : /\ client' = [client EXCEPT ![c] = r] /\ r = RequestOf(r)
               /\ r.phase \in {"draft", "checked"} /\ r.op = q.op /\ r.id = q.id /\ r.seen = q.seen
               /\ r.head = q.head /\ r.draft = q.draft /\ q.phase # "idle"
  BY <1>4
<1>6. RequestIsSound(r)
  BY <1>2, <1>5 DEF RequestIsSound, HoldsRow, HoldsPatch, HoldsNew
<1>7. /\ \A d \in Writers \ {c} : client[d].op = "create" => r.id # client[d].id
      /\ r.op = "create" => \A d \in Writers \ {c} : client[d].id # r.id
  BY <1>1, <1>2, <1>5 DEF RequestsAreSound
<1>8. UNCHANGED <<work, revs, releases, patch, decision, reader>>
  BY DEF W!Preflight, W!Retry
<1> QED
  BY <1>5, <1>6, <1>7, <1>8, RequestKept

(* A request that ends without a write.                                    *)
LEMMA EndKept ==
    ASSUME CatalogInv, NEW c \in Writers, W!Reject(c) \/ W!AdmitBusinessWriteRefused(c)
    PROVE  CatalogInv'
<1>1. /\ client' = [client EXCEPT ![c] = W!Idle]
      /\ UNCHANGED <<work, revs, releases, patch, decision, reader>>
  BY DEF W!Reject, W!AdmitBusinessWriteRefused
<1> QED
  BY <1>1, RequestEnds

(* A release names a revision whose FULL analysis found nothing.           *)
LEMMA ReleaseKept == ASSUME CatalogInv, W!Release PROVE CatalogInv'
<1>1. PICK n \in 1 .. W!Latest : W!FullPasses(revs[n].man) /\ releases' = {n}
  BY DEF W!Release
<1>2. UNCHANGED <<work, revs, client, patch, decision, reader>> /\ n \in 1 .. Last
  BY <1>1 DEF W!Release, W!Latest, Last
<1>3. /\ RevisionsTyped /\ HistoryIsSound /\ RequestsAreSound /\ PatchesAreSound /\ ReaderIsSound
      /\ W!DanglingIsReported
  BY DEF CatalogInv
<1>4. RevisionsTyped'
  <2>1. PICK m : m = revs[n].man
    OBVIOUS
  <2>2. Last' = Last /\ releases' \subseteq 1 .. Last /\ W!FullPasses(m) /\ \A k \in releases' : revs[k].man = m
    BY <1>1, <1>2, <2>1 DEF Last
  <2>3. \A k \in releases' : W!FullPasses(revs[k].man)
    BY <2>2
  <2>4. UNCHANGED <<work, revs>>
    BY <1>2
  <2> QED
    BY <1>3, <2>2, <2>3, <2>4 DEF RevisionsTyped
<1>5. HistoryIsSound' /\ W!DanglingIsReported'
  <2>1. HistoryIsSound'
    BY <1>2, <1>3 DEF HistoryIsSound, NoRestore, Last
  <2>2. W!DanglingIsReported'
    BY <1>2, <1>3 DEF W!DanglingIsReported, W!Reported, W!RewrittenSinceRestore, W!LastRestore, W!Latest
  <2> QED
    BY <2>1, <2>2
<1>6. RequestsAreSound' /\ PatchesAreSound' /\ ReaderIsSound'
  BY <1>2, <1>3, RequestsSame, PatchesSame, ReaderSame
<1> QED
  BY <1>4, <1>5, <1>6 DEF CatalogInv

(* A sealed patch: of an active entity of the head.                        *)
LEMMA SealPatchKept == ASSUME CatalogInv, NEW p \in Patches, W!SealPatch(p) PROVE CatalogInv'
<1>1. PICK e \in W!Active(work), fit \in {"acceptable", "unacceptable", "canceled"} :
        \E d \in W!ApplyPatch(work[e]) :
          patch' = [patch EXCEPT ![p] = [base |-> W!Latest, id |-> e, rec |-> d, fit |-> fit]]
  BY DEF W!SealPatch
<1>2. PICK d \in W!ApplyPatch(work[e]) :
        patch' = [patch EXCEPT ![p] = [base |-> W!Latest, id |-> e, rec |-> d, fit |-> fit]]
  BY <1>1
<1>3. patch[p] = NoPatch /\ UNCHANGED <<work, revs, releases, client, decision, reader>>
  BY DEF W!SealPatch
<1>4. /\ RevisionsTyped /\ HistoryIsSound /\ RequestsAreSound /\ PatchesAreSound /\ ReaderIsSound
      /\ W!DanglingIsReported /\ W!Catalog(work) /\ Last \in 1 .. Last /\ revs[Last].man = work
  BY DEF CatalogInv, RevisionsTyped
<1>5. RevisionsTyped' /\ HistoryIsSound' /\ W!DanglingIsReported' /\ RequestsAreSound' /\ ReaderIsSound'
  BY <1>3, <1>4, RevisionsSame, RequestsSame, ReaderSame
<1>6. PICK s : s = [base |-> Last, id |-> e, rec |-> d, fit |-> fit]
  OBVIOUS
<1>7. /\ patch' = [q \in Patches |-> patch'[q]] /\ patch'[p] = s /\ \A q \in Patches \ {p} : patch'[q] = patch[q]
  BY <1>2, <1>4, <1>6 DEF PatchesAreSound, W!Latest, Last
<1>8. e \in DOMAIN work /\ work[e].status = "active"
  BY DEF W!Active
<1>9. d \in W!Entity /\ d.status = "active" /\ e \in Ids
  BY <1>2, <1>4, <1>8, CatalogRow, PatchedRow
<1>10. s \in W!Patched /\ s.base = Last /\ s.id = e /\ s.rec = d
  BY <1>4, <1>6, <1>9 DEF W!Patched
<1>11. decision'[p] = decision[p] /\ decision[p].kind # "accepted"
  BY <1>3, <1>4 DEF PatchesAreSound, PatchIsSound
<1>12. PatchIsSound(p)'
  BY <1>3, <1>4, <1>7, <1>8, <1>9, <1>10, <1>11 DEF PatchIsSound, Last
<1>13. ASSUME NEW q \in Patches \ {p} PROVE PatchIsSound(q)'
  BY <1>3, <1>4, <1>7 DEF PatchesAreSound, PatchIsSound, Last
<1>14. PatchesAreSound'
  BY <1>3, <1>4, <1>7, <1>12, <1>13 DEF PatchesAreSound
<1> QED
  BY <1>5, <1>14 DEF CatalogInv

LEMMA DiscardKept == ASSUME CatalogInv, NEW p \in Patches, W!DiscardDraftPatch(p) PROVE CatalogInv'
<1>1. PICK k \in DecisionKeys : decision' = [decision EXCEPT ![p] = W!PatchDecision("discarded", k, 0)]
  BY DEF W!DiscardDraftPatch
<1>2. UNCHANGED <<work, revs, releases, client, patch, reader>>
  BY DEF W!DiscardDraftPatch
<1>3. /\ RevisionsTyped /\ HistoryIsSound /\ RequestsAreSound /\ PatchesAreSound /\ ReaderIsSound
      /\ W!DanglingIsReported
  BY DEF CatalogInv
<1>4. RevisionsTyped' /\ HistoryIsSound' /\ W!DanglingIsReported' /\ RequestsAreSound' /\ ReaderIsSound'
  BY <1>2, <1>3, RevisionsSame, RequestsSame, ReaderSame
<1>5. PICK s : s = W!PatchDecision("discarded", k, 0)
  OBVIOUS
<1>6. /\ decision' = [q \in Patches |-> decision'[q]] /\ decision'[p] = s
      /\ \A q \in Patches \ {p} : decision'[q] = decision[q]
  BY <1>1, <1>3, <1>5 DEF PatchesAreSound
<1>7. s.kind # "accepted"
  BY <1>5 DEF W!PatchDecision
<1>8. PatchIsSound(p)'
  BY <1>2, <1>3, <1>6, <1>7 DEF PatchesAreSound, PatchIsSound, Last
<1>9. ASSUME NEW q \in Patches \ {p} PROVE PatchIsSound(q)'
  BY <1>2, <1>3, <1>6 DEF PatchesAreSound, PatchIsSound, Last
<1>10. PatchesAreSound'
  BY <1>2, <1>3, <1>6, <1>8, <1>9 DEF PatchesAreSound
<1> QED
  BY <1>4, <1>10 DEF CatalogInv

(* An accepted patch is the revision after its base.                       *)
LEMMA AcceptKept == ASSUME CatalogInv, NEW p \in Patches, W!AcceptDraftPatch(p) PROVE CatalogInv'
<1>1. PICK k \in DecisionKeys : decision' = [decision EXCEPT ![p] = W!PatchDecision("accepted", k, W!Latest + 1)]
  BY DEF W!AcceptDraftPatch
<1>2. PICK b, i, rec : b = patch[p].base /\ i = patch[p].id /\ rec = patch[p].rec
  OBVIOUS
<1>3. PICK X : X = W!Put(work, i, rec)
  OBVIOUS
<1>4. /\ patch[p] # NoPatch /\ b = Last /\ i \in DOMAIN work /\ work[i].ver = rec.ver - 1
      /\ W!ActiveKeyFree(i, rec) /\ W!WriteRevision(X, {i}, 0)
      /\ UNCHANGED <<releases, client, patch>>
  BY <1>2, <1>3 DEF W!AcceptDraftPatch, W!Undecided, W!RequireFresh, W!TargetFresh, W!AcceptedEntities,
                    W!Latest, Last
<1>5. /\ RevisionsTyped /\ HistoryIsSound /\ RequestsAreSound /\ PatchesAreSound /\ ReaderIsSound
      /\ W!DanglingIsReported /\ W!Catalog(work) /\ Last \in Nat \ {0} /\ Last \in 1 .. Last /\ revs[Last].man = work
  BY DEF CatalogInv, RevisionsTyped
<1>6. patch[p] \in W!Patched /\ rec.status = "active"
  BY <1>2, <1>4, <1>5 DEF PatchesAreSound, PatchIsSound
<1>7. i \in Ids /\ rec \in W!Entity
  BY <1>2, <1>6 DEF W!Patched
<1>8. NextRow(i, rec)
  <2>1. rec.ver \in Nat \ {0} /\ work[i].ver \in Nat
    BY <1>4, <1>5, <1>7, CatalogRow DEF W!Entity
  <2> QED
    BY <1>4, <2>1 DEF NextRow
<1>9. Continues(X) /\ RowPut(work, X, i, rec) /\ OthersStay(X, i)
  BY <1>3, <1>4, <1>5, <1>7, <1>8, PutContinues
<1>10. RevisionsTyped' /\ HistoryIsSound'
  BY <1>4, <1>5, <1>9, RevisionsKept, HistoryContinued DEF Continues
<1>11. DOMAIN X = DOMAIN work
  BY <1>4, <1>9 DEF RowPut
<1>12. \A d \in Writers : client[d].op = "create" => client[d].id \notin DOMAIN X
  BY <1>5, <1>11 DEF RequestsAreSound, RequestIsSound, HoldsNew
<1>13. RequestsAreSound'
  BY <1>4, <1>5, <1>12, RequestsWait
<1>14. ReaderIsSound'
  BY <1>4, <1>5, ReaderStays
<1>15. W!DanglingIsReported'
  <2>1. \A e \in W!Active(X) \ {i} : e \in W!Active(work) /\ X[e] = work[e]
    BY <1>9 DEF OthersStay
  <2>2. i \in W!Active(X)
    BY <1>4, <1>6, <1>9 DEF RowPut, W!Active
  <2>3. \A t \in W!Active(work) \ W!Active(X) : RewrittenBy(X, t) \/ \A e \in W!Active(X) \ {i} : X[e].ref # t
    BY <1>9, <2>2 DEF OthersStay
  <2> QED
    BY <1>4, <1>5, <1>9, <2>1, <2>3, DanglingStays
<1>16. PICK s : s = W!PatchDecision("accepted", k, Last + 1)
  OBVIOUS
<1>17. /\ decision' = [q \in Patches |-> decision'[q]] /\ decision'[p] = s
       /\ \A q \in Patches \ {p} : decision'[q] = decision[q]
  BY <1>1, <1>5, <1>16 DEF PatchesAreSound, W!Latest, Last
<1>18. s.kind = "accepted" /\ s.rev = Last + 1
  BY <1>16 DEF W!PatchDecision
<1>19. /\ Last' = Last + 1 /\ \A n \in 1 .. Last : revs'[n] = revs[n]
       /\ revs'[Last + 1] = [man |-> X, src |-> 0, issues |-> W!Issues(X, {i})]
  BY <1>4, <1>5, Written
<1>20. PatchIsSound(p)'
  <2>1. patch'[p] = patch[p] /\ patch[p].base = Last /\ patch[p].id = i /\ patch[p].rec = rec
    BY <1>2, <1>4
  <2>2. revs'[Last + 1].man = X /\ revs'[Last].man = work
    BY <1>5, <1>19
  <2>3. Last \in 1 .. Last' /\ Last + 1 \in 1 .. Last'
    BY <1>5, <1>19
  <2> QED
    BY <1>3, <1>4, <1>6, <1>17, <1>18, <2>1, <2>2, <2>3 DEF PatchIsSound
<1>21. ASSUME NEW q \in Patches \ {p} PROVE PatchIsSound(q)'
  BY <1>4, <1>5, <1>17, PatchStays DEF PatchesAreSound
<1>22. PatchesAreSound'
  BY <1>4, <1>5, <1>17, <1>20, <1>21 DEF PatchesAreSound
<1> QED
  BY <1>10, <1>13, <1>14, <1>15, <1>22 DEF CatalogInv

(* The order of the listed rows: by key, then by identity.                 *)
LEMMA RowsOrdered ==
    ASSUME W!Catalog(work)
    PROVE  /\ \A d \in DOMAIN work, e \in DOMAIN work : d = e \/ W!Before(work, d, e) \/ W!Before(work, e, d)
           /\ \A d \in DOMAIN work, e \in DOMAIN work : W!Before(work, d, e) => ~W!Before(work, e, d) /\ d # e
           /\ \A d \in DOMAIN work, e \in DOMAIN work, f \in DOMAIN work :
                W!Before(work, d, e) /\ W!Before(work, e, f) => W!Before(work, d, f)
<1>1. \A e \in DOMAIN work : e \in Nat /\ work[e].key \in Nat
  BY CatalogRow
<1> QED
  BY <1>1 DEF W!Before

(* A row after another has a higher rank, and the ranks start at zero.     *)
LEMMA Ranks ==
    ASSUME W!Catalog(work)
    PROVE  /\ \A e \in W!Rows : W!Rank(e) \in Nat
           /\ \A d \in W!Rows, e \in W!Rows : W!Before(work, d, e) => W!Rank(d) < W!Rank(e)
           /\ W!Rows # {} => W!Page # {}
<1>1. W!Rows \subseteq DOMAIN work
  BY DEF W!Rows, W!Listed, W!Active
<1>2. IsFiniteSet(W!Rows)
  BY <1>1, FS_Subset, SameCounting DEF W!Catalog
<1>3. ASSUME NEW e \in W!Rows
      PROVE  /\ IsFiniteSet({d \in W!Rows : W!Before(work, d, e)})
             /\ W!Rank(e) = Cardinality({d \in W!Rows : W!Before(work, d, e)})
             /\ W!Rank(e) \in Nat
  <2>1. PICK B : B = {d \in W!Rows : W!Before(work, d, e)}
    OBVIOUS
  <2>2. B \subseteq W!Rows
    BY <2>1
  <2>3. IsFiniteSet(B) /\ Cardinality(B) \in Nat
    BY <1>2, <2>2, FS_Subset, FS_CardinalityType
  <2>4. W!Rank(e) = Cardinality(B)
    BY <2>1, SameCounting DEF W!Rank
  <2> QED
    BY <2>1, <2>3, <2>4
<1>4. ASSUME NEW d \in W!Rows, NEW e \in W!Rows, W!Before(work, d, e) PROVE W!Rank(d) < W!Rank(e)
  <2>1. PICK B, D : B = {f \in W!Rows : W!Before(work, f, d)} /\ D = {f \in W!Rows : W!Before(work, f, e)}
    OBVIOUS
  <2>2. B \subseteq D
    BY <1>1, <1>4, <2>1, RowsOrdered
  <2>3. d \in D /\ d \notin B
    BY <1>1, <1>4, <2>1, RowsOrdered
  <2>4. IsFiniteSet(B) /\ IsFiniteSet(D) /\ W!Rank(d) = Cardinality(B) /\ W!Rank(e) = Cardinality(D)
    BY <1>3, <2>1
  <2>5. Cardinality(B) < Cardinality(D)
    <3>1. Cardinality(B) <= Cardinality(D) /\ (Cardinality(B) = Cardinality(D) => B = D)
      BY <2>2, <2>4, FS_Subset
    <3>2. Cardinality(B) \in Nat /\ Cardinality(D) \in Nat /\ B # D
      BY <2>3, <2>4, FS_CardinalityType
    <3> QED
      BY <3>1, <3>2
  <2> QED
    BY <2>4, <2>5
<1>5. ASSUME W!Rows # {} PROVE W!Page # {}
  <2>1. PICK R : R = {W!Rank(e) : e \in W!Rows}
    OBVIOUS
  <2>2. R \subseteq Nat /\ R # {}
    BY <1>3, <1>5, <2>1
  <2>3. PICK m \in R : \A n \in R : m <= n
    BY <2>2, LeastNat
  <2>4. PICK e \in W!Rows : W!Rank(e) = m
    BY <2>1, <2>3
  <2>5. ASSUME NEW d \in W!Rows, W!Before(work, d, e) PROVE FALSE
    <3>1. W!Rank(d) < m /\ W!Rank(d) \in R /\ W!Rank(d) \in Nat /\ m \in Nat
      BY <1>3, <1>4, <2>1, <2>2, <2>3, <2>4, <2>5
    <3> QED
      BY <2>3, <3>1
  <2>6. {d \in W!Rows : W!Before(work, d, e)} = {}
    BY <2>5
  <2>7. W!Rank(e) = 0
    BY <1>3, <2>6, FS_EmptySet
  <2>8. 0 < PageSize
    BY CatalogAssumption DEF W!WorkingSetAssumption
  <2> QED
    BY <2>7, <2>8 DEF W!Page
<1> QED
  BY <1>3, <1>4, <1>5

(* The cursor of a page: its last row, before every row of the next pages. *)
LEMMA Cursor ==
    ASSUME W!Catalog(work), W!Page # W!Rows
    PROVE  /\ W!NextCursor \in W!Page /\ W!NextCursor \in W!Rows
           /\ \A d \in W!Page \ {W!NextCursor} : W!Before(work, d, W!NextCursor)
           /\ \A e \in W!Rows \ W!Page : W!Before(work, W!NextCursor, e)
<1>1. W!Page \subseteq W!Rows /\ W!Rows \subseteq DOMAIN work
  BY DEF W!Page, W!Rows, W!Listed, W!Active
<1>2. W!Page # {}
  BY <1>1, Ranks
<1>3. PICK R : R = {W!Rank(e) : e \in W!Page}
  OBVIOUS
<1>4. PageSize \in Nat
  BY CatalogAssumption DEF W!WorkingSetAssumption
<1>5. R \subseteq Nat /\ R # {} /\ \A n \in R : n <= PageSize
  <2>1. ASSUME NEW e \in W!Page PROVE W!Rank(e) \in Nat /\ W!Rank(e) <= PageSize
    BY <1>1, <1>4, Ranks DEF W!Page
  <2> QED
    BY <1>2, <1>3, <2>1
<1>6. PICK m \in R : \A n \in R : n <= m
  BY <1>4, <1>5, GreatestNat
<1>7. PICK g \in W!Page : W!Rank(g) = m
  BY <1>3, <1>6
<1>8. ASSUME NEW d \in W!Page \ {g} PROVE W!Before(work, d, g)
  <2>1. W!Rank(d) <= W!Rank(g) /\ W!Rank(d) \in Nat /\ W!Rank(g) \in Nat
    BY <1>1, <1>3, <1>6, <1>7, Ranks
  <2>2. ~W!Before(work, g, d)
    <3>1. SUFFICES ASSUME W!Before(work, g, d) PROVE FALSE
      OBVIOUS
    <3>2. W!Rank(g) < W!Rank(d)
      BY <1>1, <3>1, Ranks
    <3> QED
      BY <2>1, <3>2
  <2> QED
    BY <1>1, <2>2, RowsOrdered
<1>9. /\ W!NextCursor \in W!Page
      /\ \A d \in W!Page \ {W!NextCursor} : W!Before(work, d, W!NextCursor)
  BY <1>7, <1>8 DEF W!NextCursor
<1>10. ASSUME NEW e \in W!Rows \ W!Page PROVE W!Before(work, W!NextCursor, e)
  <2>1. W!Rank(W!NextCursor) < PageSize /\ W!Rank(W!NextCursor) \in Nat
    BY <1>1, <1>9, Ranks DEF W!Page
  <2>2. ~(W!Rank(e) < PageSize) /\ W!Rank(e) \in Nat
    BY Ranks DEF W!Page
  <2>3. ~W!Before(work, e, W!NextCursor)
    <3>1. SUFFICES ASSUME W!Before(work, e, W!NextCursor) PROVE FALSE
      OBVIOUS
    <3>2. W!Rank(e) < W!Rank(W!NextCursor)
      BY <1>1, <1>9, <3>1, Ranks
    <3> QED
      BY <1>4, <2>1, <2>2, <3>2
  <2>4. e # W!NextCursor
    BY <1>9
  <2> QED
    BY <1>1, <1>9, <2>3, <2>4, RowsOrdered
<1> QED
  BY <1>1, <1>9, <1>10

LEMMA ListBeginKept == ASSUME CatalogInv, W!ListBegin PROVE CatalogInv'
<1>1. /\ reader.phase = "idle" /\ reader' = [reader EXCEPT !.phase = "reading", !.stay = W!Listed(work)]
      /\ UNCHANGED <<work, revs, releases, client, patch, decision>>
  BY DEF W!ListBegin
<1>2. /\ RevisionsTyped /\ HistoryIsSound /\ RequestsAreSound /\ PatchesAreSound /\ ReaderIsSound
      /\ W!DanglingIsReported /\ W!Catalog(work)
  BY DEF CatalogInv, RevisionsTyped
<1>3. /\ RevisionsTyped' /\ HistoryIsSound' /\ W!DanglingIsReported' /\ RequestsAreSound' /\ PatchesAreSound'
  BY <1>1, <1>2, RevisionsSame, RequestsSame, PatchesSame
<1>4. W!Listed(work) \subseteq DOMAIN work /\ \A e \in DOMAIN work : e \in Ids /\ work[e].key \in Nat \ {0}
  BY <1>2, CatalogRow DEF W!Listed, W!Active
<1>5. reader' \in [phase : {"idle", "reading", "done"}, key : Nat, id : Nat, got : [Ids -> Nat], stay : SUBSET Ids]
  BY <1>1, <1>2, <1>4 DEF ReaderIsSound
<1>6. /\ reader'.phase = "reading" /\ reader'.key = 0 /\ reader'.id = 0 /\ reader'.got = reader.got
      /\ reader'.stay = W!Listed(work) /\ \A e \in Ids : reader.got[e] = 0
  BY <1>1, <1>2 DEF ReaderIsSound
<1>7. ASSUME NEW e \in W!Listed(work) PROVE W!After(e)' /\ reader.got[e] = 0
  BY <1>1, <1>4, <1>6 DEF W!After
<1>8. ReaderIsSound'
  BY <1>1, <1>5, <1>6, <1>7 DEF ReaderIsSound
<1> QED
  BY <1>3, <1>8 DEF CatalogInv

(* A page returns the rows after the cursor up to the next cursor.         *)
LEMMA ListPageKept == ASSUME CatalogInv, W!ListPage PROVE CatalogInv'
<1>1. PICK got : got = [e \in Ids |-> IF e \in W!Page THEN reader.got[e] + 1 ELSE reader.got[e]]
  OBVIOUS
<1>2. /\ reader.phase = "reading" /\ UNCHANGED <<work, revs, releases, client, patch, decision>>
      /\ reader' = [reader EXCEPT !.phase = IF W!Page # W!Rows THEN "reading" ELSE "done",
                                  !.key = IF W!Page # W!Rows THEN work[W!NextCursor].key ELSE @,
                                  !.id = IF W!Page # W!Rows THEN W!NextCursor ELSE @,
                                  !.got = got]
  BY <1>1 DEF W!ListPage
<1>3. /\ RevisionsTyped /\ HistoryIsSound /\ RequestsAreSound /\ PatchesAreSound /\ ReaderIsSound
      /\ W!DanglingIsReported /\ W!Catalog(work)
  BY DEF CatalogInv, RevisionsTyped
<1>4. /\ RevisionsTyped' /\ HistoryIsSound' /\ W!DanglingIsReported' /\ RequestsAreSound' /\ PatchesAreSound'
  BY <1>2, <1>3, RevisionsSame, RequestsSame, PatchesSame
<1>5. W!Rows \subseteq DOMAIN work /\ W!Page \subseteq W!Rows
  BY DEF W!Page, W!Rows, W!Listed, W!Active
<1>6. \A e \in DOMAIN work : e \in Ids /\ e \in Nat /\ work[e].key \in Nat
  BY <1>3, CatalogRow
<1>7. /\ reader.key \in Nat /\ reader.id \in Nat /\ reader.got \in [Ids -> Nat] /\ reader.stay \subseteq Ids
      /\ \A e \in reader.stay : e \in W!Listed(work) /\ reader.got[e] = IF W!After(e) THEN 0 ELSE 1
  BY <1>2, <1>3 DEF ReaderIsSound
<1>8. got \in [Ids -> Nat]
  BY <1>1, <1>7
<1>9. \A e \in reader.stay : e \in DOMAIN work /\ (W!After(e) <=> e \in W!Rows)
  BY <1>7 DEF W!Rows, W!Listed, W!Active
<1>10. \A e \in reader.stay : got[e] = IF e \in W!Rows /\ e \notin W!Page THEN 0 ELSE 1
  BY <1>1, <1>5, <1>7, <1>9
<1>11. CASE W!Page = W!Rows
  <2>1. reader' = [reader EXCEPT !.phase = "done", !.got = got]
    BY <1>2, <1>11, <1>3 DEF ReaderIsSound
  <2>2. reader' \in [phase : {"idle", "reading", "done"}, key : Nat, id : Nat, got : [Ids -> Nat], stay : SUBSET Ids]
    BY <1>3, <1>8, <2>1 DEF ReaderIsSound
  <2>3. reader'.phase = "done" /\ reader'.got = got /\ reader'.stay = reader.stay
    BY <1>3, <2>1 DEF ReaderIsSound
  <2>4. \A e \in reader.stay : got[e] = 1
    BY <1>10, <1>11
  <2>5. ReaderIsSound'
    BY <2>2, <2>3, <2>4 DEF ReaderIsSound
  <2> QED
    BY <1>4, <2>5 DEF CatalogInv
<1>12. CASE W!Page # W!Rows
  <2>1. PICK g : g = W!NextCursor
    OBVIOUS
  <2>2. /\ g \in W!Rows /\ g \in W!Page
        /\ \A d \in W!Page \ {g} : W!Before(work, d, g)
        /\ \A e \in W!Rows \ W!Page : W!Before(work, g, e)
    BY <1>3, <1>12, <2>1, Cursor
  <2>3. g \in DOMAIN work /\ g \in Nat /\ work[g].key \in Nat /\ W!After(g)
    BY <1>5, <1>6, <2>2 DEF W!Rows
  <2>4. reader' = [reader EXCEPT !.phase = "reading", !.key = work[g].key, !.id = g, !.got = got]
    BY <1>2, <1>12, <2>1
  <2>5. reader' \in [phase : {"idle", "reading", "done"}, key : Nat, id : Nat, got : [Ids -> Nat], stay : SUBSET Ids]
    BY <1>3, <1>8, <2>3, <2>4 DEF ReaderIsSound
  <2>6. /\ reader'.phase = "reading" /\ reader'.key = work[g].key /\ reader'.id = g
        /\ reader'.got = got /\ reader'.stay = reader.stay
    BY <1>3, <2>4 DEF ReaderIsSound
  <2>7. \A e \in DOMAIN work : W!After(e)' <=> W!Before(work, g, e)
    BY <1>2, <1>6, <2>3, <2>6 DEF W!After, W!Before
  <2>8. ASSUME NEW e \in reader.stay PROVE W!After(e)' <=> e \in W!Rows /\ e \notin W!Page
    <3>1. e \in DOMAIN work
      BY <1>9
    <3>2. CASE e \in W!Rows /\ e \notin W!Page
      BY <2>2, <2>7, <3>1, <3>2
    <3>3. CASE e \in W!Page
      <4>1. ~W!Before(work, g, e)
        BY <1>3, <2>2, <2>3, <3>1, <3>3, RowsOrdered
      <4> QED
        BY <2>7, <3>1, <3>3, <4>1
    <3>4. CASE e \notin W!Rows
      <4>1. ~W!After(e)
        BY <1>9, <3>4
      <4>2. ~W!Before(work, g, e)
        BY <1>6, <1>7, <2>3, <3>1, <4>1 DEF W!After, W!Before
      <4> QED
        BY <2>7, <3>1, <3>4, <4>2
    <3> QED
      BY <1>5, <3>2, <3>3, <3>4
  <2>9. ASSUME NEW e \in reader.stay PROVE got[e] = IF W!After(e)' THEN 0 ELSE 1
    BY <1>10, <2>8
  <2>10. ReaderIsSound'
    BY <1>2, <1>7, <2>5, <2>6, <2>9 DEF ReaderIsSound
  <2> QED
    BY <1>4, <2>10 DEF CatalogInv
<1> QED
  BY <1>11, <1>12

(* The opened project.                                                     *)
LEMMA CatalogInit == ASSUME W!Init PROVE CatalogInv
<1>1. PICK r : r = [man |-> Opened, src |-> 0, issues |-> W!Issues(Opened, DOMAIN Opened)]
  OBVIOUS
<1>2. revs = <<r>> /\ work = Opened /\ releases = {}
  BY <1>1 DEF W!Init
<1>3. revs \in Seq({r}) /\ Last = 1 /\ revs[1] = r
  BY <1>2 DEF Last
<1>4. W!Catalog(Opened) /\ r.man = Opened /\ r.src = 0
  BY <1>1, CatalogAssumption DEF W!WorkingSetAssumption
<1>5. 1 .. Last = {1}
  BY <1>3
<1>6. RevisionsTyped
  <2>1. \E S : revs \in Seq(S)
    BY <1>3
  <2>2. \A n \in 1 .. Last : n = 1 /\ n = Last /\ revs[n].man = Opened /\ revs[n].src = 0
    BY <1>3, <1>4, <1>5
  <2>3. Last \in 1 .. Last /\ Last \in Nat \ {0}
    BY <1>3, <1>5
  <2> QED
    BY <1>2, <1>4, <2>1, <2>2, <2>3 DEF RevisionsTyped
<1>7. Grown(Opened, Opened)
  <2>1. \A e \in DOMAIN Opened : Opened[e].ver \in Nat
    BY <1>4, CatalogRow
  <2> QED
    BY <2>1 DEF Grown
<1>8. HistoryIsSound
  <2>1. \A m, n \in 1 .. Last : m = 1 /\ n = 1
    BY <1>5
  <2>2. ASSUME NEW k \in 1 .. Last, NEW n \in 1 .. Last, NEW m \in 1 .. k
        PROVE  DOMAIN revs[m].man \cap DOMAIN revs[n].man \subseteq DOMAIN revs[k].man
    BY <2>1
  <2>3. \A m, n \in 1 .. Last : Grown(revs[m].man, revs[n].man)
    BY <1>3, <1>4, <1>7, <2>1
  <2> QED
    BY <2>2, <2>3 DEF HistoryIsSound
<1>9. RequestsAreSound
  <2>1. client = [c \in Writers |-> W!Idle]
    BY DEF W!Init
  <2>2. \A c \in Writers : client[c] = W!Idle
    BY <2>1
  <2> QED
    BY <2>1, <2>2, IdleRequest DEF RequestsAreSound
<1>10. PatchesAreSound
  BY DEF W!Init, PatchesAreSound, PatchIsSound, W!PatchDecision
<1>11. ReaderIsSound
  BY DEF W!Init, ReaderIsSound
<1>12. W!DanglingIsReported
  <2>1. ASSUME NEW e \in W!Active(Opened), Opened[e].ref # 0, Opened[e].ref \notin W!Active(Opened)
        PROVE  W!Reported(e)
    <3>1. e \in DOMAIN Opened
      BY DEF W!Active
    <3>2. \E i \in W!Issues(Opened, DOMAIN Opened) : i[1] = e
      BY <2>1, <3>1, IssueOf
    <3>3. 1 \in 1 .. W!Latest
      BY <1>3 DEF W!Latest, Last
    <3> QED
      BY <1>1, <1>2, <1>3, <3>1, <3>2, <3>3 DEF W!Reported
  <2> QED
    BY <1>2, <2>1 DEF W!DanglingIsReported, W!NoRef
<1> QED
  BY <1>6, <1>8, <1>9, <1>10, <1>11, <1>12 DEF CatalogInv

(* One step of the working set.                                            *)
LEMMA CatalogSame ==
    ASSUME CatalogInv, UNCHANGED W!vars
    PROVE  CatalogInv'
<1>1. UNCHANGED <<work, revs, releases, client, patch, decision, reader>>
  BY DEF W!vars
<1>2. /\ RevisionsTyped /\ HistoryIsSound /\ RequestsAreSound /\ PatchesAreSound /\ ReaderIsSound
      /\ W!DanglingIsReported
  BY DEF CatalogInv
<1>3. RevisionsTyped' /\ HistoryIsSound' /\ W!DanglingIsReported' /\ RequestsAreSound' /\ PatchesAreSound' /\ ReaderIsSound'
  BY <1>1, <1>2, RevisionsSame, RequestsSame, PatchesSame, ReaderSame
<1> QED
  BY <1>3 DEF CatalogInv

LEMMA LoadClients ==
    ASSUME load \in Loads, NEW c \in load.clients
    PROVE  c \in Writers
BY CatalogAssumption DEF W!WorkingSetAssumption

LEMMA CatalogKept ==
    ASSUME CatalogInv, load \in Loads, W!Next
    PROVE  CatalogInv' /\ load' \in Loads
<1>1. ASSUME NEW c \in load.clients, W!Request(c) PROVE CatalogInv'
  <2>1. c \in Writers
    BY LoadClients
  <2>2. CASE W!Get(c)
    BY <2>1, <2>2, GetKept
  <2>3. CASE W!CreateBegin(c)
    BY <2>1, <2>3, CreateBeginKept
  <2>4. CASE W!PatchBegin(c)
    BY <2>1, <2>4, PatchBeginKept
  <2>5. CASE W!Preflight(c) \/ W!Retry(c)
    BY <2>1, <2>5, ChecksKept
  <2>6. CASE W!Commit(c)
    BY <2>1, <2>6, CommitKept
  <2>7. CASE W!Reject(c) \/ W!AdmitBusinessWriteRefused(c)
    BY <2>1, <2>7, EndKept
  <2>8. CASE W!Delete(c)
    BY <2>1, <2>8, DeleteKept
  <2>9. CASE W!CreateCheckpoint(c)
    BY <2>1, <2>9, CheckpointKept
  <2>10. CASE W!RestoreRelease(c)
    BY <2>1, <2>10, RestoreReleaseKept
  <2> QED
    BY <1>1, <2>2, <2>3, <2>4, <2>5, <2>6, <2>7, <2>8, <2>9, <2>10 DEF W!Request
<1>2. ASSUME NEW p \in Patches, W!Decide(p) PROVE CatalogInv'
  BY <1>2, SealPatchKept, AcceptKept, DiscardKept DEF W!Decide
<1>3. W!Release \/ W!ListBegin \/ W!ListPage => CatalogInv'
  BY ReleaseKept, ListBeginKept, ListPageKept
<1>4. UNCHANGED load
  BY DEF W!Next
<1> QED
  BY <1>1, <1>2, <1>3, <1>4 DEF W!Next

(* The inductive invariant of a behaviour that follows the working set.    *)
CatalogFollowed == scene = "workingset" => CatalogInv /\ load \in Loads

LEMMA CatalogStep ==
    ASSUME CatalogFollowed, [VersioningNext]_<<vars, catalogVars, scene>>
    PROVE  CatalogFollowed'
<1>1. CASE scene = "workingset" /\ W!Next /\ UNCHANGED scene
  BY <1>1, CatalogKept DEF CatalogFollowed
<1>2. CASE UNCHANGED <<catalogVars, scene>>
  <2>1. UNCHANGED W!vars /\ UNCHANGED load /\ UNCHANGED scene
    BY <1>2 DEF catalogVars, W!vars
  <2> QED
    BY <2>1, CatalogSame DEF CatalogFollowed
<1>3. CASE UNCHANGED <<vars, catalogVars, scene>>
  BY <1>2, <1>3
<1> QED
  BY <1>1, <1>2, <1>3 DEF VersioningNext

(* In every behaviour, and for every opened catalog, what the requests,    *)
(* patches, revisions and readers of a working set hold fits together      *)
(* (saveTx, Delete, writeRevision, acceptDraftPatchLocked, List).          *)
THEOREM CatalogInvariant == VersioningSpec => []CatalogFollowed
<1>1. VersioningInit => CatalogFollowed
  BY CatalogInit DEF VersioningInit, CatalogFollowed, W!Init
<1>2. CatalogFollowed /\ [VersioningNext]_<<vars, catalogVars, scene>> => CatalogFollowed'
  BY CatalogStep
<1> QED
  BY <1>1, <1>2, PTL DEF VersioningSpec

(* The rows, the newest revision and the LOCAL reports agree, and a        *)
(* traversal under concurrent writes misses and repeats nothing, for any   *)
(* number of requests, pages and writes (saveTx, Delete, writeRevision,    *)
(* List).                                                                  *)
THEOREM CatalogIsSoundHolds == VersioningSpec => []CatalogIsSound
<1>1. CatalogFollowed => CatalogIsSound
  <2> SUFFICES ASSUME CatalogInv PROVE W!CatalogIsSound
    BY DEF CatalogFollowed, CatalogIsSound
  <2>2. W!HeadIsWorking
    BY DEF CatalogInv, RevisionsTyped, W!HeadIsWorking, W!Latest, Last
  <2>3. W!ActiveKeysUnique
    <3>1. W!Catalog(work)
      BY DEF CatalogInv, RevisionsTyped
    <3> QED
      BY <3>1 DEF W!Catalog, W!ActiveKeysUnique
  <2>4. W!CursorIsStable
    BY DEF CatalogInv, ReaderIsSound, W!CursorIsStable
  <2> QED
    BY <2>2, <2>3, <2>4 DEF CatalogInv, W!CatalogIsSound, W!WorkingSetSound
<1> QED
  BY <1>1, CatalogInvariant, PTL

(* An accepted patch is the revision after its base with its target        *)
(* changed, and a restored revision is its release again, without issues   *)
(* (acceptDraftPatchLocked, RestoreRelease).                               *)
THEOREM RevisionsExactHolds == VersioningSpec => []RevisionsExact
<1>1. CatalogFollowed => RevisionsExact
  <2> SUFFICES ASSUME CatalogInv PROVE W!RevisionsExact
    BY DEF CatalogFollowed, RevisionsExact
  <2>2. W!AcceptedOnBase
    BY DEF CatalogInv, PatchesAreSound, PatchIsSound, W!AcceptedOnBase
  <2>3. W!RestoredIsRelease
    BY DEF CatalogInv, RevisionsTyped, W!RestoredIsRelease, W!Latest, Last
  <2> QED
    BY <2>2, <2>3 DEF W!RevisionsExact
<1> QED
  BY <1>1, CatalogInvariant, PTL

(* Only the transaction of a PATCH itself ends it with a write, and inside  *)
(* the lock its row still has the version of the If-Match.                 *)
LEMMA EndedByCommit ==
    ASSUME CatalogInv, load \in Loads, W!Next, NEW c \in Writers,
           client[c].phase = "checked", client'[c] = W!Idle, work' # work
    PROVE  W!Commit(c)
<1>1. W!Idle.phase = "idle"
  BY DEF W!Idle
<1>2. client' # client
  BY <1>1
<1>3. ASSUME NEW p \in Patches PROVE ~W!Decide(p)
  BY <1>2 DEF W!Decide, W!SealPatch, W!AcceptDraftPatch, W!DiscardDraftPatch
<1>4. ~(W!Release \/ W!ListBegin \/ W!ListPage)
  BY <1>2 DEF W!Release, W!ListBegin, W!ListPage
<1>5. PICK d \in load.clients : W!Request(d)
  BY <1>3, <1>4 DEF W!Next
<1>6. W!Commit(d) \/ W!Delete(d) \/ W!RestoreRelease(d) \/ W!CreateCheckpoint(d)
  BY <1>5 DEF W!Request, W!Get, W!CreateBegin, W!PatchBegin, W!Preflight, W!Retry, W!Reject,
              W!AdmitBusinessWriteRefused
<1>7. client' = [client EXCEPT ![d] = W!Idle]
  BY <1>6 DEF W!Commit, W!Delete, W!RestoreRelease, W!CreateCheckpoint
<1>8. c = d
  <2>1. c # d => client'[c] = client[c]
    BY <1>7 DEF CatalogInv, RequestsAreSound
  <2> QED
    BY <1>1, <2>1
<1>9. client[d].phase # "idle"
  BY <1>8
<1> QED
  BY <1>6, <1>8, <1>9 DEF W!Delete, W!RestoreRelease, W!CreateCheckpoint, W!KnowsHead

(* A PATCH commits onto the row its client has seen, or a release was      *)
(* restored since the client read it (Store.Patch).                        *)
THEOREM UnseenIsKeptHolds == VersioningSpec => UnseenIsKept
<1> DEFINE Kept ==
      \A c \in Writers :
        client[c].op = "patch" /\ client[c].phase = "checked" /\ work' # work /\ client'[c] = W!Idle
          => work[client[c].id] = client[c].seen \/ W!RestoredSince(c)
<1>1. CatalogFollowed /\ [VersioningNext]_<<vars, catalogVars, scene>> => Kept
  <2> SUFFICES ASSUME CatalogFollowed, [VersioningNext]_<<vars, catalogVars, scene>>, work' # work,
                      NEW c \in Writers, client[c].op = "patch", client[c].phase = "checked", client'[c] = W!Idle,
                      ~W!RestoredSince(c)
               PROVE  work[client[c].id] = client[c].seen
    OBVIOUS
  <2>1. scene = "workingset" /\ W!Next
    BY DEF VersioningNext, catalogVars
  <2>2. CatalogInv /\ load \in Loads
    BY <2>1 DEF CatalogFollowed
  <2>3. W!Commit(c)
    BY <2>1, <2>2, EndedByCommit
  <2>4. W!Matches(c)
    BY <2>3 DEF W!Commit, W!VersionRecheck, W!VersionHolds
  <2>5. /\ RevisionsTyped /\ HistoryIsSound /\ RequestIsSound(client[c])
        /\ Last \in Nat \ {0} /\ Last \in 1 .. Last /\ revs[Last].man = work
    BY <2>2 DEF CatalogInv, RequestsAreSound, RevisionsTyped
  <2>6. HoldsRow(client[c])
    BY <2>5 DEF RequestIsSound
  <2>7. NoRestore(client[c].head, Last)
    BY <2>5, <2>6 DEF HoldsRow, NoRestore, W!RestoredSince, W!Latest, Last
  <2>8. Grown(revs[client[c].head].man, work)
    BY <2>5, <2>6, <2>7 DEF HoldsRow, HistoryIsSound
  <2> QED
    BY <2>4, <2>6, <2>8 DEF HoldsRow, Grown, W!Matches
<1>2. CatalogFollowed /\ [VersioningNext]_<<vars, catalogVars, scene>> => [Kept]_W!vars
  BY <1>1
<1> QED
  BY <1>2, CatalogInvariant, PTL DEF VersioningSpec, UnseenIsKept, W!UnseenIsKept
=============================================================================
