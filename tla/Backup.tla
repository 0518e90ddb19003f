------------------------------- MODULE Backup -------------------------------
(***************************************************************************)
(* Backups of one project: the durable backup Jobs and the worker that     *)
(* publishes their artifacts (internal/backup/application/service.go), the *)
(* managed artifact directory (internal/backup/filesystem/store.go), the   *)
(* retention policy, and the admission that makes the first business write *)
(* of a day wait for a backup (internal/backup/application/daily.go).      *)
(*                                                                         *)
(* A request is a process: a business write, a retry of the day's failed   *)
(* backup, a manual backup's goroutine, or a release's mandatory backup.   *)
(* The Service's worker mutex lets one of them execute at a time.          *)
(***************************************************************************)
EXTENDS Integers, FiniteSets, FiniteSetsExt, Job

CONSTANTS
    Procs,            \* requests that may be under way at once
    MaxDay,           \* local dates 1..MaxDay
    MaxTry,           \* retries of one day's backup that are followed
    Manuals,          \* manual backup commands
    Releases,         \* release backup commands
    DailyLimit,       \* RetentionPolicy.Daily
    MandatoryLimit,   \* RetentionPolicy.ReleaseMigration
    Loads             \* what arrives in a behaviour: the kinds of request, and how many
                      \* dates, failures and release artifacts are followed

ASSUME BackupAssumption ==
    /\ MaxDay \in Nat \ {0}
    /\ {MaxTry, Manuals, Releases} \subseteq Nat
    /\ {DailyLimit, MandatoryLimit} \subseteq Nat \ {0}
    /\ Loads \subseteq [kinds : SUBSET {"write", "retry", "manual", "release", "restore"},
                        dates : 1..MaxDay, trouble : Nat, artifacts : Nat]

VARIABLES
    day,          \* today's local date
    admission,    \* daily_backup_admission: the Job bound to each date
    waiver,       \* daily_backup_waivers: the waived Job of each date
    admitted,     \* dates on which a business write was let through
    status,       \* of each Job, "absent" before its row exists
    cancelGen,    \* cancel_generation
    published,    \* publication_started_at is set
    result,       \* the artifact a succeeded Job names
    arts,         \* listed artifacts: [id, of, ok]
    audit,        \* backup_artifact_audit: [id, of]
    clock,        \* creation times and artifact identities, in order
    proc,         \* the requests
    made,         \* artifact of the execution under way, 0 before there is one
    doomed,       \* artifacts its retention pass still has to delete
    lease,        \* the restore reading an artifact: [pc, id]
    trouble,      \* failing calls, aborted requests, crashes and damages so far
    load          \* the behaviour's load

today == <<day, load>>
days  == <<today, admission, waiver, admitted>>
jobs  == <<status, cancelGen, published, result>>
disk  == <<arts, audit, clock>>
work  == <<made, doomed>>
vars  == <<day, admission, waiver, admitted, status, cancelGen, published, result,
           arts, audit, clock, proc, made, doomed, lease, trouble, load>>

Dates == 1..MaxDay

(* The idempotency key determines the Job, so the Jobs are named by it: the *)
(* date's first backup is try 0, and "daily-retry:<failed>" the next try.   *)
Daily(d, n) == [type |-> "daily", day |-> d, try |-> n]
Manual(m)   == [type |-> "manual", day |-> 0, try |-> m]
Release(r)  == [type |-> "release", day |-> 0, try |-> r]
None        == [type |-> "none", day |-> 0, try |-> 0]

DailyJobs == {Daily(d, n) : d \in Dates, n \in 0..MaxTry}
Jobs      == DailyJobs \cup {Manual(m) : m \in 1..Manuals}
Commands  == Jobs \cup {Release(r) : r \in 1..Releases}

Idle == [pc |-> "idle", kind |-> "none", job |-> None, date |-> 0,
         seen |-> "absent", gen |-> 0, aborted |-> FALSE]

(* The steps between taking and releasing the Service's worker mutex.      *)
Executing == {"claim", "find", "copy", "gate", "publish", "seal", "prune", "trash",
              "remove", "finish", "fail", "end"}

Locked == \E p \in Procs : proc[p].pc \in Executing

At(p, l) == proc[p].pc = l

Goto(p, l) == proc' = [proc EXCEPT ![p].pc = l]

(* A call made with the request's context fails: the request was aborted,  *)
(* or the database or the file system refuses.                             *)
Fails(p) ==
    \/ proc[p].aborted /\ UNCHANGED trouble
    \/ ~proc[p].aborted /\ trouble < load.trouble /\ trouble' = trouble + 1

Works(p) == ~proc[p].aborted /\ UNCHANGED trouble

(* Execute, ExecuteDirect and the admission return to their caller.        *)
Refuse(p) == proc' = [proc EXCEPT ![p] = Idle] /\ UNCHANGED admitted

Admit(p) ==
    /\ proc' = [proc EXCEPT ![p] = Idle]
    /\ admitted' = admitted \cup {proc[p].date}

Return(p, ok) ==
    /\ made' = 0
    /\ doomed' = {}
    /\ IF proc[p].kind # "write" THEN Refuse(p)
       ELSE IF ok THEN Admit(p)
       ELSE Goto(p, "after") /\ UNCHANGED admitted

(* Restorable: published, and the bytes still have the manifest's hash.    *)
Restorable(c) == {a \in arts : a.of = c /\ a.ok}

-----------------------------------------------------------------------------
Init ==
    /\ day = 1
    /\ admission = [d \in Dates |-> None]
    /\ waiver = [d \in Dates |-> None]
    /\ admitted = {}
    /\ status = [j \in Jobs |-> "absent"]
    /\ cancelGen = [j \in Jobs |-> 0]
    /\ published = [j \in Jobs |-> FALSE]
    /\ result = [j \in Jobs |-> 0]
    /\ arts = {}
    /\ audit = {}
    /\ clock = 0
    /\ proc = [p \in Procs |-> Idle]
    /\ made = 0
    /\ doomed = {}
    /\ lease = [pc |-> "none", id |-> 0]
    /\ trouble = 0
    /\ load \in Loads

-----------------------------------------------------------------------------
(* Daily admission of a business write.                                    *)

BeginWrite(p) ==
    /\ "write" \in load.kinds
    /\ At(p, "idle")
    /\ proc' = [proc EXCEPT ![p] = [Idle EXCEPT !.pc = "read", !.kind = "write", !.date = day]]
    /\ UNCHANGED <<days, jobs, disk, work, lease, trouble>>

(* A retried date is decided on the replacement Job alone.                 *)
ReadAdmission(p) ==
    LET bound == admission[proc[p].date] IN
    /\ At(p, "read")
    /\ Works(p)
    /\ proc' = [proc EXCEPT ![p].pc = IF bound.try > 0 THEN "decide" ELSE "submit",
                            ![p].job = IF bound.try > 0 THEN bound ELSE None]
    /\ UNCHANGED <<days, jobs, disk, work, lease>>

(* AdmitBackup: create the Job with its command, or replay it.             *)
AdmitBackup(j) ==
    /\ status' = [status EXCEPT ![j] = IF @ = "absent" THEN "queued" ELSE @]
    /\ UNCHANGED <<cancelGen, published, result>>

Submit(p) ==
    LET j == Daily(proc[p].date, 0) IN
    /\ At(p, "submit")
    /\ Works(p)
    /\ AdmitBackup(j)
    /\ proc' = [proc EXCEPT ![p].pc = "ensure", ![p].job = j, ![p].seen = status'[j]]
    /\ UNCHANGED <<days, disk, work, lease>>

(* What the admission does on the status it knows of the Job.              *)
Decide(p, s) ==
    \/ s = "succeeded" /\ Admit(p)
    \/ s \in {"failed", "canceled"} /\ Goto(p, "waive") /\ UNCHANGED admitted
    \/ ~Terminal(s) /\ Goto(p, "lock") /\ UNCHANGED admitted

(* EnsureDailyAdmission: INSERT OR IGNORE, then the row must name this Job. *)
EnsureDailyAdmission(p) ==
    LET r == proc[p] IN
    /\ At(p, "ensure")
    /\ Works(p)
    /\ admission' = [admission EXCEPT ![r.date] = IF @ = None THEN r.job ELSE @]
    /\ IF admission'[r.date] = r.job THEN Decide(p, r.seen) ELSE Refuse(p)
    /\ UNCHANGED <<today, waiver, jobs, disk, work, lease>>

DecideRetried(p) ==
    /\ At(p, "decide")
    /\ Works(p)
    /\ Decide(p, status[proc[p].job])
    /\ UNCHANGED <<today, admission, waiver, jobs, disk, work, lease>>

(* The backup this write waited for returned an error.                     *)
AfterFailure(p) ==
    /\ At(p, "after")
    /\ IF status[proc[p].job] \in {"failed", "canceled"} THEN Goto(p, "waive")
                                                        ELSE proc' = [proc EXCEPT ![p] = Idle]
    /\ UNCHANGED <<days, jobs, disk, work, lease, trouble>>

(* Mutant: any waiver of the date is accepted, whatever Job it names.      *)
WaiveAny(p) ==
    /\ At(p, "waive")
    /\ IF waiver[proc[p].date] # None THEN Admit(p) ELSE Refuse(p)
    /\ UNCHANGED <<today, admission, waiver, jobs, disk, work, lease, trouble>>

RequireOrWaive(p) ==
    /\ At(p, "waive")
    /\ IF waiver[proc[p].date] = proc[p].job THEN Admit(p) ELSE Refuse(p)
    /\ UNCHANGED <<today, admission, waiver, jobs, disk, work, lease, trouble>>

(* A request fails outside an execution.                                   *)
Drop(p) ==
    /\ proc[p].pc \in {"read", "submit", "ensure", "decide", "after", "waive", "resubmit",
                        "replace"}
    /\ Fails(p)
    /\ Refuse(p)
    /\ UNCHANGED <<today, admission, waiver, jobs, disk, work, lease>>

-----------------------------------------------------------------------------
(* The user's answers to a failed daily backup.                            *)

(* ConfirmWaiver accepts any failed backup Job of the project; the first   *)
(* waiver of a date stays (a repeated one differs in its confirmed_at).    *)
ConfirmWaiver(j) ==
    /\ status[j] \in {"failed", "canceled"}
    /\ waiver[day] = None
    /\ waiver' = [waiver EXCEPT ![day] = j]
    /\ UNCHANGED <<today, admission, admitted, jobs, disk, proc, work, lease, trouble>>

RetryFailed(p, j) ==
    /\ "retry" \in load.kinds
    /\ At(p, "idle")
    /\ j.try < MaxTry
    /\ status[j] \in {"failed", "canceled"}
    /\ admission[day] = j
    /\ proc' = [proc EXCEPT ![p] = [Idle EXCEPT !.pc = "resubmit", !.kind = "retry",
                                                !.date = day, !.job = j]]
    /\ UNCHANGED <<days, jobs, disk, work, lease, trouble>>

Resubmit(p) ==
    LET j == Daily(proc[p].date, proc[p].job.try + 1) IN
    /\ At(p, "resubmit")
    /\ Works(p)
    /\ AdmitBackup(j)
    /\ Goto(p, "replace")
    /\ UNCHANGED <<days, disk, work, lease>>

(* ReplaceFailedDailyAdmission: update the row that still names the failed *)
(* Job, then the row must name the replacement.                            *)
ReplaceFailedDailyAdmission(p) ==
    LET r    == proc[p]
        next == Daily(r.date, r.job.try + 1) IN
    /\ At(p, "replace")
    /\ Works(p)
    /\ admission' = [admission EXCEPT ![r.date] = IF @ = r.job THEN next ELSE @]
    /\ proc' = [proc EXCEPT ![p] = IF admission'[r.date] = next
                                   THEN [r EXCEPT !.pc = "lock", !.job = next] ELSE Idle]
    /\ UNCHANGED <<today, waiver, admitted, jobs, disk, work, lease>>

-----------------------------------------------------------------------------
(* Manual and mandatory backups, and cancellation.                         *)

(* POST /backups: the Job, and a goroutine unless the Job has ended.       *)
Create(p, j) ==
    /\ "manual" \in load.kinds
    /\ At(p, "idle")
    /\ j.type = "manual"
    /\ AdmitBackup(j)
    /\ proc' = IF Terminal(status[j]) THEN proc
               ELSE [proc EXCEPT ![p] = [Idle EXCEPT !.pc = "lock", !.kind = "manual", !.job = j]]
    /\ UNCHANGED <<days, disk, work, lease, trouble>>

Invoke(p, r) ==
    /\ "release" \in load.kinds
    /\ clock < load.artifacts
    /\ At(p, "idle")
    /\ proc' = [proc EXCEPT ![p] = [Idle EXCEPT !.pc = "lock", !.kind = "release",
                                                !.job = Release(r)]]
    /\ UNCHANGED <<days, jobs, disk, work, lease, trouble>>

(* Mutant: publication does not refuse a cancellation.                     *)
CancelPublished(j) ==
    /\ status[j] # "absent"
    /\ ~Terminal(status[j])
    /\ cancelGen[j] = 0
    /\ cancelGen' = [cancelGen EXCEPT ![j] = 1]
    /\ UNCHANGED <<days, status, published, result, disk, proc, work, lease, trouble>>

(* RequestCancellation of a backup: refused once publication has begun.    *)
RequestCancellation(j) ==
    /\ status[j] # "absent"
    /\ ~Terminal(status[j])
    /\ cancelGen[j] = 0
    /\ ~published[j]
    /\ cancelGen' = [cancelGen EXCEPT ![j] = 1]
    /\ UNCHANGED <<days, status, published, result, disk, proc, work, lease, trouble>>

-----------------------------------------------------------------------------
(* Execute and ExecuteDirect.                                              *)

Lock(p) ==
    /\ At(p, "lock")
    /\ ~Locked
    /\ Goto(p, IF proc[p].kind = "release" THEN "find" ELSE "claim")
    /\ UNCHANGED <<days, jobs, disk, work, lease, trouble>>

(* Read the Job: an ended one is answered, a canceled one is closed, and a *)
(* queued one starts, unless the cancel comes after the read.  The first   *)
(* event may fail after that.                                              *)
Claim(p) ==
    LET j == proc[p].job IN
    /\ At(p, "claim")
    /\ \/ /\ Fails(p)
          /\ status' \in {status, [status EXCEPT ![j] = IF @ = "queued" /\ cancelGen[j] = 0
                                                      THEN "running" ELSE @]}
          /\ Return(p, FALSE)
       \/ /\ Works(p)
          /\ Terminal(status[j])
          /\ Return(p, status[j] = "succeeded" /\ \E a \in Restorable(j) : a.id = result[j])
          /\ UNCHANGED status
       \/ /\ Works(p)
          /\ ~Terminal(status[j])
          /\ cancelGen[j] > 0
          /\ status' = [status EXCEPT ![j] = "canceled"]
          /\ Return(p, FALSE)
       \/ /\ Works(p)
          /\ status[j] = "queued"
          /\ cancelGen[j] > 0
          /\ Return(p, FALSE)
          /\ UNCHANGED status
       \/ /\ Works(p)
          /\ ~Terminal(status[j])
          /\ cancelGen[j] = 0
          /\ status' = [status EXCEPT ![j] = IF @ = "queued" THEN "running" ELSE @]
          /\ Goto(p, "find")
          /\ UNCHANGED <<admitted, work>>
    /\ UNCHANGED <<today, admission, waiver, cancelGen, published, result, disk, lease>>

(* findPublished: the artifact an earlier execution of the command left.   *)
FindPublished(p) ==
    LET found == Restorable(proc[p].job) IN
    /\ At(p, "find")
    /\ \/ Fails(p) /\ Return(p, FALSE)
       \/ /\ Works(p)
          /\ IF found = {} THEN Goto(p, "copy") /\ UNCHANGED made
             ELSE Goto(p, "seal") /\ made' = Max({a.id : a \in found})
          /\ UNCHANGED <<admitted, doomed>>
    /\ UNCHANGED <<today, admission, waiver, jobs, disk, lease>>

(* An error of createArtifact: the staging directory is discarded, and a   *)
(* backup with a Job goes on to end it.                                    *)
Fail(p, why) ==
    IF proc[p].kind = "release" THEN Return(p, FALSE)
    ELSE /\ proc' = [proc EXCEPT ![p].pc = "fail", ![p].seen = why]
         /\ UNCHANGED <<admitted, work>>

(* Staging, online backup, manifest and the two verifications; the         *)
(* progress callback polls for a cancel.                                   *)
Copy(p) ==
    LET j == proc[p].job IN
    /\ At(p, "copy")
    /\ \/ Fails(p) /\ Fail(p, "failed")
       \/ proc[p].aborted /\ Fails(p) /\ Fail(p, "canceled")
       \/ /\ Works(p)
          /\ j \in Jobs /\ cancelGen[j] > 0
          /\ Fail(p, "canceled")
       \/ /\ Works(p)
          /\ Goto(p, IF j \in Jobs THEN "gate" ELSE "publish")
          /\ UNCHANGED <<admitted, work>>
    /\ UNCHANGED <<today, admission, waiver, jobs, disk, lease>>

(* BeginBackupPublication: the durable boundary a cancel races with.       *)
BeginPublication(j) ==
    /\ status[j] \in {"running", "interrupted"}
    /\ cancelGen[j] = 0

(* beforePublish.  Every refusal up to the boundary counts as a cancel; a  *)
(* failing "publishing" event after it is a failure.                       *)
Gate(p) ==
    LET j == proc[p].job IN
    /\ At(p, "gate")
    /\ \/ /\ Fails(p)
          /\ Fail(p, "canceled")
          /\ UNCHANGED published
       \/ /\ Works(p)
          /\ ~BeginPublication(j)
          /\ Fail(p, "canceled")
          /\ UNCHANGED published
       \/ /\ Fails(p)
          /\ BeginPublication(j)
          /\ published' = [published EXCEPT ![j] = TRUE]
          /\ Fail(p, IF proc[p].aborted THEN "canceled" ELSE "failed")
       \/ /\ Works(p)
          /\ BeginPublication(j)
          /\ published' = [published EXCEPT ![j] = TRUE]
          /\ Goto(p, "publish")
          /\ UNCHANGED <<admitted, work>>
    /\ UNCHANGED <<today, admission, waiver, status, cancelGen, result, disk, lease>>

(* Store.Publish: one rename makes the artifact listed.                    *)
Publish(p) ==
    /\ At(p, "publish")
    /\ \/ /\ Fails(p)
          /\ Fail(p, IF proc[p].aborted THEN "canceled" ELSE "failed")
          /\ UNCHANGED <<arts, clock>>
       \/ /\ Works(p)
          /\ clock' = clock + 1
          /\ arts' = arts \cup {[id |-> clock', of |-> proc[p].job, ok |-> TRUE]}
          /\ made' = clock'
          /\ Goto(p, "seal")
          /\ UNCHANGED <<admitted, doomed>>
    /\ UNCHANGED <<today, admission, waiver, jobs, audit, lease>>

SealBackupResult(p) ==
    /\ At(p, "seal")
    /\ \/ Fails(p) /\ Return(p, FALSE) /\ UNCHANGED audit
       \/ /\ Works(p)
          /\ audit' = audit \cup {[id |-> made, of |-> proc[p].job]}
          /\ Goto(p, "prune")
          /\ UNCHANGED <<admitted, work>>
    /\ UNCHANGED <<today, admission, waiver, jobs, arts, clock, lease>>

(* SelectRetention: of the valid artifacts of a type with a limit, all but *)
(* the newest.                                                             *)
Limit(type) == IF type = "daily" THEN DailyLimit ELSE MandatoryLimit

Newer(a, within) == {b \in within : b.of.type = a.of.type /\ b.id > a.id}

(* Mutant: one artifact too many is selected.                              *)
SelectOneMore ==
    LET kept == {a \in arts : a.ok /\ a.of.type # "manual"} IN
    {a.id : a \in {b \in kept : Cardinality(Newer(b, kept)) >= Limit(b.of.type) - 1}}

SelectRetention ==
    LET kept == {a \in arts : a.ok /\ a.of.type # "manual"} IN
    {a.id : a \in {b \in kept : Cardinality(Newer(b, kept)) >= Limit(b.of.type)}}

(* prune: list and select.  A failing listing is only a warning.           *)
Prune(p) ==
    /\ At(p, "prune")
    /\ \/ Works(p) /\ doomed' = SelectRetention
       \/ Fails(p) /\ doomed' = {}
    /\ Goto(p, IF doomed' = {} THEN "finish" ELSE "trash")
    /\ UNCHANGED <<days, jobs, disk, made, lease>>

Skip(p) ==
    /\ doomed' = doomed \ {Min(doomed)}
    /\ Goto(p, IF doomed' = {} THEN "finish" ELSE "trash")

(* TrashAndDelete, oldest first: the lease check, then the rename that     *)
(* unlists the artifact.                                                   *)
Trash(p) ==
    /\ At(p, "trash")
    /\ IF proc[p].aborted \/ (lease.pc = "held" /\ lease.id = Min(doomed))
       THEN Skip(p) ELSE Goto(p, "remove") /\ UNCHANGED doomed
    /\ UNCHANGED <<days, jobs, disk, made, lease, trouble>>

Remove(p) ==
    /\ At(p, "remove")
    /\ arts' = {a \in arts : a.id # Min(doomed)}
    /\ Skip(p)
    /\ UNCHANGED <<days, jobs, audit, clock, made, lease, trouble>>

(* The "published" event and the transition; a release has neither.        *)
Finish(p) ==
    LET j == proc[p].job IN
    /\ At(p, "finish")
    /\ \/ /\ j \notin Jobs
          /\ Return(p, TRUE)
          /\ UNCHANGED <<status, result, trouble>>
       \/ j \in Jobs /\ Fails(p) /\ Return(p, FALSE) /\ UNCHANGED <<status, result>>
       \/ /\ j \in Jobs
          /\ Works(p)
          /\ IF cancelGen[j] = 0
             THEN /\ status' = [status EXCEPT ![j] = "succeeded"]
                  /\ result' = [result EXCEPT ![j] = made]
                  /\ Return(p, TRUE)
             ELSE Return(p, FALSE) /\ UNCHANGED <<status, result>>
    /\ UNCHANGED <<today, admission, waiver, cancelGen, published, disk, lease>>

(* The terminal step of a failed execution: read the Job, then move it     *)
(* with the generation just read; both ignore the request's abort.         *)
ReadCurrent(p) ==
    LET gen == cancelGen[proc[p].job] IN
    /\ At(p, "fail")
    /\ \/ /\ proc' = [proc EXCEPT ![p].pc = "end", ![p].gen = gen,
                                  ![p].seen = IF gen > 0 THEN "canceled" ELSE @]
          /\ UNCHANGED <<admitted, work, trouble>>
       \/ /\ trouble < load.trouble
          /\ trouble' = trouble + 1
          /\ Return(p, FALSE)
    /\ UNCHANGED <<today, admission, waiver, jobs, disk, lease>>

End(p) ==
    LET r == proc[p] IN
    /\ At(p, "end")
    /\ status' = IF cancelGen[r.job] = r.gen THEN [status EXCEPT ![r.job] = r.seen] ELSE status
    /\ Return(p, FALSE)
    /\ UNCHANGED <<today, admission, waiver, cancelGen, published, result, disk, lease, trouble>>

-----------------------------------------------------------------------------
(* A restore reads an artifact under a lease: inspect, then count it.      *)

Acquire(a) ==
    /\ "restore" \in load.kinds
    /\ lease.pc = "none"
    /\ a.ok
    /\ lease' = [pc |-> "inspected", id |-> a.id]
    /\ UNCHANGED <<days, jobs, disk, proc, work, trouble>>

HoldLease ==
    /\ lease.pc = "inspected"
    /\ lease' = [lease EXCEPT !.pc = "held"]
    /\ UNCHANGED <<days, jobs, disk, proc, work, trouble>>

ReleaseLease ==
    /\ lease.pc = "held"
    /\ lease' = [pc |-> "none", id |-> 0]
    /\ UNCHANGED <<days, jobs, disk, proc, work, trouble>>

-----------------------------------------------------------------------------
(* The environment.                                                        *)

NextDay ==
    /\ day < load.dates
    /\ day' = day + 1
    /\ UNCHANGED <<load, admission, waiver, admitted, jobs, disk, proc, work, lease, trouble>>

(* The client goes away; a manual backup's context does not follow.        *)
Abort(p) ==
    /\ proc[p].kind \in {"write", "retry", "release"}
    /\ ~proc[p].aborted
    /\ trouble < load.trouble
    /\ trouble' = trouble + 1
    /\ proc' = [proc EXCEPT ![p].aborted = TRUE]
    /\ UNCHANGED <<days, jobs, disk, work, lease>>

(* The bytes of a published artifact change: it lists as damaged.          *)
Damage(a) ==
    /\ a.ok
    /\ trouble < load.trouble
    /\ trouble' = trouble + 1
    /\ arts' = (arts \ {a}) \cup {[a EXCEPT !.ok = FALSE]}
    /\ UNCHANGED <<days, jobs, audit, clock, proc, work, lease>>

(* The process dies and starts again: rows and published artifacts stay.   *)
Restart ==
    /\ trouble < load.trouble
    /\ trouble' = trouble + 1
    /\ proc' = [p \in Procs |-> Idle]
    /\ made' = 0
    /\ doomed' = {}
    /\ lease' = [pc |-> "none", id |-> 0]
    /\ UNCHANGED <<days, jobs, disk>>

Admission(p) ==
    \/ ReadAdmission(p) \/ Submit(p) \/ EnsureDailyAdmission(p) \/ DecideRetried(p)
    \/ AfterFailure(p) \/ RequireOrWaive(p) \/ Resubmit(p) \/ ReplaceFailedDailyAdmission(p)
    \/ Drop(p)

Execute(p) ==
    \/ Claim(p) \/ FindPublished(p) \/ Copy(p) \/ Gate(p) \/ Publish(p) \/ SealBackupResult(p)
    \/ Prune(p) \/ Trash(p) \/ Remove(p) \/ Finish(p) \/ ReadCurrent(p) \/ End(p)

Next ==
    \/ NextDay \/ Restart \/ HoldLease \/ ReleaseLease
    \/ \E a \in arts : Acquire(a) \/ Damage(a)
    \/ \E j \in Jobs : ConfirmWaiver(j) \/ RequestCancellation(j)
    \/ \E p \in Procs :
          \/ BeginWrite(p) \/ Admission(p) \/ Lock(p) \/ Execute(p) \/ Abort(p)
          \/ \E j \in DailyJobs : RetryFailed(p, j)
          \/ \E j \in Jobs : Create(p, j)
          \/ \E r \in 1..Releases : Invoke(p, r)

Spec == Init /\ [][Next]_vars

-----------------------------------------------------------------------------
TypeOK ==
    /\ day \in Dates
    /\ admission \in [Dates -> DailyJobs \cup {None}]
    /\ waiver \in [Dates -> Jobs \cup {None}]
    /\ admitted \subseteq Dates
    /\ status \in [Jobs -> Status \cup {"absent"}]
    /\ cancelGen \in [Jobs -> 0..1]
    /\ published \in [Jobs -> BOOLEAN]
    /\ result \in [Jobs -> 0..clock]
    /\ clock \in Nat
    /\ arts \subseteq [id : 1..clock, of : Commands, ok : BOOLEAN]
    /\ audit \subseteq [id : 1..clock, of : Commands]
    /\ proc \in [Procs ->
         [pc : {"idle", "read", "submit", "ensure", "decide", "after", "waive", "resubmit",
                "replace", "lock"} \cup Executing,
          kind : {"none", "write", "retry", "manual", "release"},
          job : Commands \cup {None}, date : 0..MaxDay,
          seen : Status \cup {"absent"}, gen : 0..1, aborted : BOOLEAN]]
    /\ made \in 0..clock
    /\ doomed \subseteq 1..clock
    /\ lease \in [pc : {"none", "inspected", "held"}, id : 0..clock]
    /\ load \in Loads /\ trouble \in 0..load.trouble

(* The daily promise of AdmitBusinessWrite: a business write of a date is   *)
(* let through only if a backup of that date succeeded, or the user waived  *)
(* a backup of that date that really ended without success.                 *)
WriteIsCovered ==
    \A d \in admitted :
        \/ \E n \in 0..MaxTry : status[Daily(d, n)] = "succeeded"
        \/ /\ waiver[d] \in {Daily(d, n) : n \in 0..MaxTry}
           /\ status[waiver[d]] \in {"failed", "canceled"}

(* Cancellation against publication: a Job whose cancel was recorded, or   *)
(* that ended failed or canceled, left no restorable artifact behind,      *)
(* however the cancel, the boundary, aborts and crashes interleave.        *)
LostJobLeavesNothing ==
    \A a \in arts :
        a.ok /\ a.of \in Jobs =>
            cancelGen[a.of] = 0 /\ status[a.of] \in {"running", "succeeded"}

(* Executing a command again, after a crash, an aborted request or a       *)
(* repeated call, never publishes a second restorable artifact for it.     *)
OneArtifact == \A a, b \in arts : a.ok /\ b.ok /\ a.of = b.of => a = b

(* A Job succeeds only with sealed evidence of its own artifact, and the   *)
(* artifact stays listed until retention holds enough newer ones.          *)
SuccessIsKept ==
    \A j \in Jobs : status[j] = "succeeded" =>
        /\ [id |-> result[j], of |-> j] \in audit
        /\ \/ \E a \in arts : a.id = result[j] /\ a.of = j
           \/ /\ j.type # "manual"
              /\ Cardinality(Newer([id |-> result[j], of |-> j], arts)) >= Limit(j.type)

(* Retries of one date form a chain: a date's backup succeeds at most once, *)
(* and every other attempt of the date has already ended without success.   *)
OneSuccessPerDay ==
    \A d \in Dates, n, m \in 0..MaxTry :
        /\ status[Daily(d, n)] = "succeeded"
        /\ m # n
        => status[Daily(d, m)] \in {"absent", "failed", "canceled"}

(* Artifacts and Jobs match: no restorable artifact of a lost Job          *)
(* (LostJobLeavesNothing), no second one of a command (OneArtifact), and   *)
(* no second success of a date (OneSuccessPerDay).                         *)
ArtifactsMatchJobs == LostJobLeavesNothing /\ OneArtifact /\ OneSuccessPerDay
=============================================================================
