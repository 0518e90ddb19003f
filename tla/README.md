# Eco Guardian: TLA+ verification project

Eco Guardian is a local desktop service (Go, SQLite, an HTTP API and a web
client) for the rules and economies of a game project: it keeps immutable
configuration revisions, validates and simulates them, synchronizes them with an
external graph provider, designs changes with an AI provider, releases revisions
behind gates, and backs projects up and restores them. Long work runs as durable
*Jobs* while users edit, cancel, retry and close projects, and the process may die
at any point. The modules here model that work: the shared Job rows, the workers
and the files they change, the requests that race them, the recovery code that runs
at the next start, the processes and services around them, and the pure
computations their decisions rest on.

All paths below are relative to `src/internal/`.

## Parts of the system

| Part | State | Operations | Hard because |
| --- | --- | --- | --- |
| Shared Jobs (`job`, `storage/sqlite/jobs.go`, `backup_commands.go`) | a row per Job: status, request, result, cancel generation; its events; the publication boundary of backups | CreateOrGet, Transition, RequestCancellation, Append, BeginBackupPublication | every caller decides on a copy it read earlier |
| Graph synchronization (`graph/sync`, `bootstrap/graph_sync_runtime.go`) | the sync row of a revision, graph Jobs and checkpoints, the queue, the provider's snapshot and task | validation pipeline, ensure, retry, cancel, the phase worker, ready and failure commits | row, Job and provider change separately; lost answers; restart |
| Release (`versioning/release`, `bootstrap/release_runtime.go`) | release Jobs, intents, releases, the active pointer, the graph's active snapshot | submit, run behind the write lane, cancel, intent recovery | a saga over a backup, an external activation and a commit |
| Working set (`storage/sqlite/store.go`, `checkpoint.go`, `ai_decisions.go`, `restore_release.go`) | entities with versions and keys, references, LOCAL reports, revisions | create, patch, archive, restore, checkpoint, accept a patch, restore a release, list | a request reads, thinks, and commits later |
| Restore (`backup/application/restore.go`, `backup/restorefs`, `backup/restorejournal`, `backup/integration`) | project.db and the parked and staged files, the journal, the Job in whichever database is open; reserved folders | select, preflight, confirm, submit, cancel, execute, startup recovery | files, journal and Job cannot change together; the Job's own database is replaced |
| Backup (`backup/application/service.go`, `backup/filesystem`, `daily.go`) | artifacts, leases, trash, daily admissions and waivers | create, publish, prune, acquire, admit, waive | publication, retention and leases race |
| Project manager (`project`) | the open project, its lock file and owner, the recent list, the maintenance session | open, create, close, delete, ask another process to close, reclaim | several processes share a directory; owners die |
| AI design (`ai/orchestration`, `ai/preview/search`, `storage/sqlite/ai_*.go`) | runs, attempts, checkpoints, patches, the registry of running calls | admit, call, repair, retry, checkpoint, seal, cancel, recover | calls outlive cancels and restarts; budgets |
| Simulation, risk and impact Jobs (`simulation/orchestration`, `risk/orchestration`, `graph/impact/orchestration`) | materializations, samples, staging, reports, handoffs | submit, work, checkpoint, seal, cancel, recover | evidence must stay of one input and one implementation |
| Computations (`versioning/diff`, `validation`, `formula`, `*/gate`, `simulation/engine`, `rules`, `graph/projector`, `graph/impact/analysis`) | none, or one call at work | diff, page, validate, parse, type, evaluate, gate, project, traverse, reduce | many cases; facts collected at different moments |
| Runtime (`app/runtime`, `bootstrap`, `platform/process`) | the graph process, health, status, capabilities, log, HTTP host, background loops | start, poll, restart, reconnect, refresh, close | exits, deadlines and requests race |
| Services (`app/runtime/config`, `recovery`, `capability`, `httpapi/runtime_actions.go`, `packageinfo`) | the settings file, the recovery scan, caches and shared requests, the package directory | load, patch, save, recover, share, probe, stream, assemble, verify | read-modify-write over files and caches |
| Web client, platform adapters, SQL schema | none of their own | | pure input and output |

The components interact through the Job rows (every worker and the API), through
calls made inside a worker (a release and a restore call the backup service; a
release activates a graph snapshot that synchronization built; a graph that became
ready hands its revision to the impact analysis), through the close guards of the
project manager, through the capabilities that admission asks for, and through the
restore, which replaces the database all of them live in.

`PROJECT.json` lists every part with its status, under `map` the lines each
definition stands for, and under `hazards` what can go wrong at which line. A small helper
whose code lies beside or inside the lines of the definition that uses it has no entry of its own.

## Modules

| Module | Models |
| --- | --- |
| `Job` | the status set and transition relation shared by all Jobs |
| `JobLifecycle` | abstract specification: what a caller may rely on about a Job |
| `JobStore` | the SQLite repository, with callers that hold stale copies; refines `JobLifecycle` |
| `GraphSync` | one revision's synchronization, its automatic Job and retries |
| `ReleaseSaga` | concurrent releases, their lane, intents and recovery |
| `WorkingSet` | entities, revisions, AI decisions and release restores under concurrent requests |
| `Restore` | one restore, over an active project or into an empty directory |
| `RestoreTargets` | empty folders on their way from a dialog to the maintenance session |
| `ProjectInstances` | processes that open, close, delete and maintain one project directory |
| `Backup` | backup Jobs, their artifacts and retention, and the daily admission of writes |
| `AIDesign` | AI design Jobs: attempts, repair rounds, checkpoints, cancellation, recovery |
| `CandidateSearch` | the enumeration of candidate assignments of a preview |
| `ImpactJobs`, `SimulationJobs`, `RiskJobs` | the three kinds of evidence Jobs with their workers and recovery |
| `GraphProcess` | the supervisor of the bundled graph service and its children |
| `RuntimeLifecycle` | startup, HTTP host, refresh loop, runtime actions and Close around `GraphProcess` |
| `SettingsStore`, `RecoveryRegistry`, `LiveRequests`, `Diagnostics`, `Packages` | the services with state shared by requests or kept in files |
| `VersionDiff`, `Formula`, `Validation`, `Gates` | computations on content and evidence, driven by `Computations` |
| `SimulationEngine`, `GraphQueries`, `Capabilities` | computations of simulation, graph and runtime, driven by `Evaluations` |
| `JobStore_proofs`, `Versioning_proofs`, `GraphSync_proofs`, `Restore_proofs`, `Backup_proofs`, `AIDesign_proofs`, `Runtime_proofs` | the theorems about the module they are named after (`Versioning_proofs`: `ReleaseSaga` and `WorkingSet`; `Runtime_proofs`: `GraphProcess` and `RuntimeLifecycle`; `GraphSync_proofs` also `LiveRequests` and `Diagnostics`, `JobStore_proofs` also `RecoveryRegistry` and `SettingsStore`) |
| `Records_proofs` | the theorems about the evidence Jobs, and those of `AIDesign_proofs` for the composition `MCRecords` |
| `MC*` | instances for TLC; a module with several parts has a variable `scene` that says which part a behaviour follows. `graph_sync`, `graph_restart`, `release_committed`, `restore_parked` and `restore_success` run the component's own module |

One SQL transaction, one file-system call, one journal write, one lock-protected
section and one provider call are one step each; between two of them any other
actor, or the end of the process, may come in. What an actor has read and not yet
used is kept in variables (`psnap`, `cancelTo`, `seen`, `client`, `scan`, ...), so
that stale reads are part of the state. Parts that share no state are composed as
scenes of one run: `MCVersioning` (release saga, working set), `MCMaintenance`
(restore, project instances, restore targets), `MCRecords` (AI design, search,
impact, simulation, risk) and `MCServices` (services and computations).

### JobStore

A caller first obtains a record (`GetJob`, `CreateOrGet`), which the variable
`seen` remembers, and then calls `Transition`, `RequestCancellation`,
`BeginBackupPublication` or `AppendEvent` (`Append` of the code) with it, possibly much later. Each action is
one repository method and holds the conditions of its SQL statement and of the
Go checks before it. A request is a key, a hash and a kind; results are model
values.

### GraphSync

The revision's row has `pipeline`, `generation`, `latest` and `task`; a Job has
`status`, `cancelGen`, `phase` (its last checkpoint) and a worker step. The
validation pipeline runs in the request that saved the revision and can be
aborted with it. The provider may be away (`HealthDown`), lose the answer of a
PUT, fail the task or report another snapshot (`ProviderStep`, external). A restart
drops the queue and the workers' local state and keeps rows and events.

### ReleaseSaga and WorkingSet

A release command is a Job with its baseline. The worker takes the write lane,
rechecks, makes the mandatory backup, records the intent, activates the graph and
commits; each step may fail. `IntentRecovery` runs while a project opens, one intent
after the other. The shipped composition does not call it, so both compositions are
considered (`Recovers`).

In `WorkingSet` a client's request is a handler with its own copy of what it read:
first it reads and builds a draft, then the draft is checked, and last it commits in
a transaction that repeats the checks (`VersionRecheck`, `RecheckActiveKey`,
`RequireFresh`). An entity is a
version, a status, a key and one reference. `reader` is a paged listing that counts
how often it returned each row; a page is the rows of the lowest ranks after the
cursor. `Opened`, the catalog of the opened file, satisfies `Catalog`: its active keys
are unique, as the index `working_entities_active_kind_key` of the schema makes them.

### Restore, RestoreTargets and ProjectInstances

In `Restore`, `main` and `parked` say which database each file holds, `job` the
restore Job in each of the two databases, `phase` the journal's phase, `pc` the step
of `Execute`, `rpc` that of startup recovery. A fault makes any one call fail; a
crash may come between any two. `detached` is the target mode of the command: in a
restore into an empty directory the Job lives in the journal.

`RestoreTargets` follows the lock of a selected folder: `ResolveEmpty`,
`LockTarget` and `ReserveTarget` are the three parts of `ProjectTargets.ResolveEmpty`,
`TakeReservation` and `ReturnReservation` are `takeEmpty` and `restoreEmpty`, and
`CloseTargets` takes the reservations out at shutdown while requests still run.

In `ProjectInstances` a process has the step of the operation it executes; the lock
file is created and gets its owner in two steps, and a close request of another
process waits, probes the owner and reclaims. A process may die anywhere. A behaviour
has a load: the operations it uses besides open and close, the close requests that may
come, and whether the system renames a file that is held open. The holder of a lock
keeps its file open, so on Windows a reclaim cannot take it away from a live process
(`ArchiveLock`); on other systems it can. `fileLock.Release` is two steps, closing the
file (`CloseLock`) and removing its path (`Unlink`), and either may fail: `install`
ignores that, `Manager.Close` and a session keep the project as active, which then is
one nothing can be done with. A handle that cannot be closed stays active as well
(`HandleFails`).

### Backup

A request (`proc`) is a business write, a retry of the date's failed backup, a
manual backup's goroutine or a release's mandatory backup. `BeginWrite` to
`RequireOrWaive` are the steps of `AdmitBusinessWrite`, with the status `Submit`
returned kept in `seen`; `Lock` to `End` are `Execute` and `ExecuteDirect`, of which
the worker mutex lets one run at a time. A Job is named by its idempotency key, so
`Daily(d, n)` is the n-th retry of date d. Artifacts carry the command they belong
to and their creation time (`id`); `ok` becomes false when the bytes change
(`Damage`). The staging directory and the trash are not kept: an artifact exists for
the code when its final name is listed, which one rename makes and one unmakes.
Creation times are taken to increase, as the clock does. Pre-restore and migration
backups take the path of `Invoke`. A call with the request's context fails when the
request was aborted (`Abort`) or when the database or file system refuses (`Fails`);
the terminal steps ignore the abort as the code does.

### AIDesign, CandidateSearch and the evidence Jobs

`AIDesign` has the durable rows (`run`, `attempt`, `patches`, `evidence`,
`checkpoint`, `events`), what each worker holds, and the in-memory registry of
canceled generations (`signaled`). No worker loop exists in the production wiring: the
workers of the model call the controllers in the orders their interfaces admit.
`MaxTrouble` bounds restarts and moves of the baseline together. `CandidateSearch`
is one call of `Search` with its iterator, budget, deadline and cancel.

`ImpactJobs` has the handoff of a ready graph, the loop with its bounded queue, the
recovery goroutine, staging rows and reports; `SimulationJobs` materializations,
samples with the implementation that computed them and checkpoints; `RiskJobs` the
facts captured at admission, the phases with their events and the report.

### GraphProcess and RuntimeLifecycle

`GraphProcess` has supervisors with their launches: a child is started
(`BeginAttempt`) and runs until it is stopped by SIGSTOP (`Suspend`, the interval
that `platform/process/adapter_posix.go:57-60` calls unavoidable); it is assigned to the
Job object, resumed, probed, may exit at any moment and is started again after a
back-off. `RuntimeLifecycle` adds startup, health and its time to live, the refresh
loop, reconnect requests, the HTTP host and `Process.Close`, whose six operations (the
host, the preparation of recovery, the boundaries, the workers, the dependencies and
the projects) may hang and are abandoned at the deadline. A reconnect is served from
the moment the host is up, so also before the dependencies are started; the first
start then overwrites the supervisor it made (`MakeSupervisor`, `dep.lost`). Settings
with `mode` disabled, external and bundled are instances.

### Services

`SettingsStore`: the document, its previous copy and the temporary files; writers
load, change their copy and save. `RecoveryRegistry`: the scan over listed Jobs that
may move, the ordered stages, the shutdown policies. `LiveRequests`: runtime actions
shared by idempotency key, the probe cache of the AI provider and resumed event
streams. `Diagnostics`: status observers, the bounded log queue, its writer with
rotation, and Close. `Packages`: assembly beside the output directory and
verification at launch, with files damaged in between.

### Computations

`Computations` and `Evaluations` hold one calculation at a time: a state has its
input and, for the ones that take several steps, how far it has come. The property
compares the result with a definition that says what the result means (a cycle is a
path that returns, a diff applied to the base gives the target, a page sequence is
the whole range) and not how the code finds it.

## Runs

Passing:

| Run | Checks | Instance |
| --- | --- | --- |
| `job_store` | a cancel excludes success and publication (`CancelExcludes`), one Job per key (`OneJobPerKey`), one line of events with non-falling progress (`EventsOrdered`), refinement of the lifecycle (`LifecycleSpec`) | 3 callers, one key, 2 payloads, 2 kinds, 3 ordinals; callers, Jobs and hashes symmetric |
| `graph_sync` | ready is backed by the exact snapshot (`ReadyIsBacked`); what worker and provider have done is in the rows (`WorkIsRecorded`); phases, rows and generations only go forward (`ForwardOnly`); a revision settles and its Job ends (`RevisionSettles`) | automatic Job and one retry, cancels, ensures, 1 restart |
| `release` | one line of releases behind a lane that is given back (`ReleasesAreOrdered`), each committed while the graph serves it and after its backup (`CommitServesGraph`), and Jobs and intents report what the pointer says (`ReleaseIsReported`); rows, newest revision and LOCAL reports agree and listings are complete (`CatalogIsSound`); an accepted patch and a restored release make exactly their revision (`RevisionsExact`); no PATCH overwrites what its client has not seen (`UnseenIsKept`) | 2 commands, cancels, 1 restart, with and without IntentRecovery; 2 writers, 3 entities, 2 keys, one AI patch, up to 4 revisions |
| `restore` | the original is there and found (`OriginalIsRecoverable`), the outcome is the one reported, for an empty target while its request is not repeated (`OutcomeIsHonest`), every journal is resolved or the project held (`Settles`); a project has one holder and a selected folder's lock is handed on (`HolderIsAlone`); the lock file a live process has open is removed by that process only (`LiveKeepsLock`); a request frees the directory of a dead owner (`DeadIsDisplaced`) | both target modes, 2 POSTs, 2 faults, 3 crashes; 2 processes, one directory, 2 identities, 2 deaths, two loads (`MCLoads`): every operation on the files with one close request where open files are renamed, and two requests with blocking Jobs where they are not; one folder, 2 selections, 2 preflights, 2 restores, 1 trouble |
| `backup` | a business write passes only with a backup of its date or the waiver of one that failed (`WriteIsCovered`); artifacts and Jobs match, one of each (`ArtifactsMatchJobs`); success has its audit row and an artifact that stays until retention holds newer ones (`SuccessIsKept`) | 2 requests; four loads (`MCLoads`): retries with 2 failures, 2 dates with a restore reading, writes with a manual backup, releases with a manual backup; limits of 1; requests symmetric |
| `records` | a sealed design is uncanceled and whole and a sealed search is the grid in order up to its stop (`SealedIsWhole`); attempts are one chain within the budget, each asked once (`LineageIsChain`); a returned cancel has reached every call (`CancelReachesCalls`); impact, simulation and risk seal whole, captured and consistent evidence (`ImpactIsSealedWhole`, `SealedRunIsCaptured`, `RiskStoryHolds`), which never changes (`EvidenceIsImmutable`) | one design Job and a retry, 2 workers, 1 repair round, 1 restart or move; 2 impact inputs and a queue of 1; 2 simulation Jobs of 3 samples over 2 implementations; 1 risk Job with 2 restarts and 2 moves of its facts; searches of up to 3 dimensions |
| `runtime` | every child that lives is in the Job object of its supervisor, not yet closed, or is one its launch has not assigned yet (`ChildrenAreContained`); Close stops the parts in order and leaves no child but that of an overwritten supervisor (`ShutdownIsOrdered`); Close ends, and a dead service is not reported healthy for ever (`RuntimeSettles`) | five settings (`MCSettings`) over the three modes, with 2 launches, or 2 supervisors and 1 request |
| `services` | paged readers and diffs are exact (`ReadersAreExact`); formulas and validation agree with their meaning (`ContentIsValidated`); gates decide on evidence of what is decided on (`GatesAreSound`); settings survive writers and crashes (`SettingsAreKept`); recovery keeps to the Jobs and its order (`RecoveryIsOrdered`); requests that share state are served as if alone and the log is whole up to its counted losses (`SharedRequestsAgree`); rules, engine, metrics, impact, projection, capabilities and packages say what holds (`EvaluationsAreExact`) | all inputs of the universes in `MCServices`; 2 settings writers; 3 callers; 1 crash |

Runs that show a disagreement between the code and what one of its comments says
(`findings` quotes both):

| Run | What the code does |
| --- | --- |
| `graph_restart` | a Job past its first checkpoint is never resumed after a restart: `PhaseWorker.Start` checkpoints QUEUED again and is refused |
| `release_committed` | recovery fails the intent of a committed release that a later one has superseded |
| `restore_parked` | project.db is gone while the journal says it was not parked yet |
| `restore_success` | the replaced database reports the restore as succeeded, after a rollback that died before its journal write |

### Bounds

Two callers, commands, writers or processes are the smallest number that race; a
third caller of `job_store` lets two histories interleave with a cancel. One key
suffices there, since Jobs meet only in the lookup of their key; the second Job
exists for the case that lookup fails, and the theorems cover any number. One
restart reaches every pair of (step interrupted, recovery step); `Restore` allows
three because recovery itself can be interrupted, twice. Two faults let a recovery
path fail that a first fault started. `Restore` bounds POSTs (`MaxPosts`), because
each replay may execute the same Job again; both target modes have two. For a restore
into an empty directory `OutcomeIsHonest` promises something only while its request
is not repeated, because with two POSTs and one fault the code does not keep the
promise: if the journal write after `InstallEmpty` fails and the request is repeated,
the second `Execute` ends in `failBeforeMaintenance` and rolls the journal back, so
after a restart a target that was never reconciled can be opened. The run reaches
those states and checks the other properties in them.

The five settings of `runtime` each have one thing happen twice: a bundled service with
two launches, one that competes with an external service, and one with two
supervisors, one of which a reconnect makes, before or after the start. Two launches
of a supervisor are not combined with a reconnect, which the theorems cover. `Backup` follows at most two requests, two dates
and one retry; its loads say which requests come together, and `load.artifacts`
bounds releases that prune each other for ever. With retention limits of 1 the second
backup of a type already prunes. The bounds of the other modules are chosen the same
way: a queue of one so that it fills, a log of two entries so that it rotates and
drops, a retry limit one above what is used, two implementations so that an upgrade
is seen, and three entities so that a reference chain, a cycle and a free identity
exist. The inputs of the computations are every combination of small fields, plus
one example of every refusal.

Deadlock is checked in `backup`. Elsewhere a system may stop: the workers idle once
their Jobs have ended, the computations end, and the bounds are used up.

### Fairness

`graph_sync`, `restore` and `runtime` check liveness. Weak fairness on a worker's
steps: goroutines are scheduled and a call returns or fails. The graph runtime's
ticker and queue (`Scan`, `Dequeue`) are weakly fair for the same reason; the
provider finishing a task is weakly fair, and its being healthy when asked
(`HealthUp`) is strongly fair, as a provider that is away from time to time is
healthy again and again. Startup recovery is sequential code and weakly fair. In
`ProjectInstances` a process that released its database goes on to release its lock
(close it and remove its path, each of which may fail), and the steps of a close request are taken. In `RuntimeLifecycle` the
goroutines (the supervisor's threads, the operation under way, startup, a returning
call) taken together, the expiry of the health observation, the publication of a
refresh and the steps of Close (an operation returns or the deadline passes) are
weakly fair while the process runs; the refresh loop's turn is strongly
fair because it needs a lock others take now and then. Nothing is assumed of what an
operation of Close does. Users (ensure, retry, cancel, POST, reconnect), faults and
crashes have no fairness; the liveness properties name them as the reasons for which
the code promises nothing.

## Proofs

TLC decides the properties on the instances above; the theorems here hold for
every value of the constants: any number of Jobs, requests, workers, faults and
restarts the assumptions admit. Each is proved from an inductive invariant that TLC
checked first on the instances of the runs. All proof modules have the same shape: definitions of
the invariant's parts, lemmas about single fields, one lemma per action (or per
group of actions that go on in the same way) that says what the action keeps,
`InitInvariant` or `Initiation`, the step from these (`StepInductive`,
`Consecution`), and theorems that follow by PTL. Where many actions touch little, a
lemma named `...Kept` says once under which conditions on the changed rows the
invariant survives, and the lemma of an action only establishes these conditions.

| Module | Proved | What the invariant adds to the property |
| --- | --- | --- |
| `JobStore_proofs` | `CancelExcludes`, `OneJobPerKey`, `EventsOrdered`, that a terminal row never changes, and the refinement `LifecycleSpec` | only backups cross the publication boundary (`PublishingIsBackup`: a Job of another kind past it could be canceled); a history that is not empty has a newest event (`NewestExists`: an append compares with this one only) |
| `JobStore_proofs`: recovery | `RecoveryIsOrdered` of `RecoveryRegistry` | while an outcome is planned, the facts it rests on are those of the record as listed; the stages before the current one are committed, and only passed stages have a worker; how far each phase of a shutdown has come with its policies |
| `JobStore_proofs`: settings | all of `SettingsAreKept` but which launch override wins | a writer that replaces the file has the lock and has preserved what it replaces; what is being saved validates; a request still at work has written nothing but the reset it names, or the selection it is about to read back |
| `GraphSync_proofs` | `ReadyIsBacked`, `WorkIsRecorded`, `ForwardOnly` | the pipeline is alone until it admits; a row names its own Job, and only this Job gets past submission; the step of a run determines its last event; a generation read earlier is current only while the row is what was read (`SnapIsPast`, the reason the compare-and-set of each row change is sound) |
| `GraphSync_proofs`: shared requests | `SharedRequestsAgree` of `LiveRequests` | a key has run once for each time its entry was evicted, plus once while it is in flight or remembered; an answer is that of a run of its key; a cached capability names the settings it was probed with; what a stream has sent is a span of event numbers |
| `GraphSync_proofs`: diagnostics | `FilesAreNewest`, `EventsAreAccounted`, `WrittenAsAccepted`, `CloseIsHonest`, `StatusIsLatest` of `Diagnostics` | the files cut the log into spans, and while a rotation moves files the place the next one goes to is empty or the last (`FilesOK`); the queue holds the end of what was accepted, the goroutine the event before it, and the log nothing from there on (`QueueOK`); a failure loses at most the one event at work; who has not been sent the current status is still to be published to (`StatusOf`) |
| `Versioning_proofs`: release | `ReleasesAreOrdered`, `ReleaseIsReported`, `CommitServesGraph` | the lane is held by the one worker at work; recovery runs alone and knows what the pointer is; the graph serves the candidate from activation to commit; the tip of the line is nobody's baseline (needs that Jobs are finitely many: a commit adds one to the count the line is measured with) |
| `Versioning_proofs`: working set | `CatalogIsSound`, `RevisionsExact`, `UnseenIsKept` | between two restores versions only rise and an identity is given once (`HistoryIsSound`), so a row with the version of the If-Match is the row that was read; a request holds a row of an old revision or an identity no revision has (`RequestsAreSound`); a sealed patch names its base (`PatchesAreSound`); every row that stays was returned once if the cursor is past it and not yet if it is not (`ReaderIsSound`) |
| `Backup_proofs` | `WriteIsCovered`, `ArtifactsMatchJobs`, `SuccessIsKept` | what each request believes of its Job is still so, since a terminal row stays; one request executes at a time; a later attempt of a date exists only after the earlier ones were lost; publication excludes cancellation; an identity is that of one artifact; what a retention pass still has to delete lies behind a limit of newer ones that the pass keeps; the artifact of a command being executed is listed until its pass, and audited and kept from the seal on |
| `Restore_proofs`: restore | `OriginalIsRecoverable`; `OutcomeIsHonest` for restores over a database | the pairs of files that may lie on disk, and which of them each step of `Execute`, each step of startup recovery and each checkpoint of the journal goes with |
| `Restore_proofs`: instances | `LiveKeepsLock`, `LockNamesHolder` | each step of each operation says whether its process holds the lock of its directory, with the record written or not and the file open or closed, and which database its handle has; a request that verified an owner to be dead has seen a lock that its owner will not write again |
| `Restore_proofs`: targets | `HolderIsAlone`, with the above | who has the lock of a folder (`LockHasOneHolder`); where a generation is on its way from the token over one preflight, the reservation and the lease to its one restore (`GenerationIsOnce`, `Given`: it never comes back to an earlier place); what the execution may rely on at each step |
| `AIDesign_proofs` | `AIDesign`'s `SealedIsWhole`, `LineageIsChain`, `CancelReachesCalls` | a claimed Job has one holder until the process dies, and the place of the holder tells what the ledger has of its attempt, which is the last one of the Job |
| `Records_proofs` | `ImpactIsSealedWhole`, `SealedRunIsCaptured`, `RiskStoryHolds`, `EvidenceIsImmutable`, and `LineageIsChain` and `CancelReachesCalls` of the composition | impact: whoever works on a Job has one that exists; simulation: what is at work was captured with the installed implementation, and a checkpoint is its implementation's own; risk: what the runner may rely on at each point, that recovery lists only open Jobs, and that a terminal event is true |
| `Runtime_proofs` | `ChildrenAreContained`, `ShutdownIsOrdered` | a child being launched is known to the thread that launches it alone, whose monitor is not there yet (`LaunchesAreSound`); one about to be resumed is in a Job object that is not closed or already killed; the caller's thread is at rest unless a candidate is launched (`CallerIsSound`); a supervisor that is no longer the dependency's is the one being stopped, the one that the first start overwrote after a request, or its Job object is closed; each operation of Close begins when the one before it is done, or the deadline has passed |

Five more things about how the proofs go together.

- An invariant of an interleaved handler has to say what the handler may still
  believe of what it read. In `GraphSync` and `JobStore` that is the comparison the
  commit makes; in `Backup`, `AIDesign` and the risk Jobs it is that the read fact is
  stable, so those proofs first show which facts no step undoes (`RowsForward`,
  `ImpactForward`, `SimForward`, `RiskForward`). The last three give the action
  property `EvidenceIsImmutable` as well.
- `Records_proofs` takes the theorems of `AIDesign_proofs` over to `MCRecords` with
  `AP == INSTANCE AIDesign_proofs WITH ...`. `SameInit` and `SameNext` show that the
  instance `A` the composition follows makes the steps of `AP`; `DesignStep` then uses
  `AP!Consecution` while the scene is the design Jobs, and the frame otherwise.
- `RestoredOverDatabaseIsComplete` is stated for `~detached`. For a restore into an
  empty directory `OutcomeIsHonest` speaks of a request that is not repeated (see
  Bounds), and that half is checked and not a theorem.

- `LockNamesHolder`, `LiveKeepsLockHolds` and `HolderIsAloneHolds` have the hypothesis
  `RenamesAreSafe`: on a system that renames open files at most one close request comes
  at a time. `MCLoads` satisfies it. Without it the statement is false of the code (see
  "Restore, backup, projects" below), so the hypothesis says for which systems and
  requests the lock protocol is right; on Windows, which the application targets, it
  asks nothing.

- `CatalogIsSound` says "or rewritten since the last restore" of a dangling reference,
  and `UnseenIsKept` "or a release was restored since". The invariant shows why: entity
  versions are unique between restores only (`NoRestore`), and `CommitKept` needs the
  newest restore after the row was read (`NewestRestore`) exactly where a write of an old
  draft archives an entity.

Assumptions, all on constants and named where the constants are declared: the null
values are none of the real ones, bounds are natural numbers (limits of retention,
sample counts and worker counts positive), switches are Booleans; the release Jobs and
the supervisors are finite sets; a runtime configuration has one of the three modes and
does not launch more often than the bound on generations; identities and keys of
entities are positive numbers, the opened catalog is one the schema admits, and a page
has room for a row. Each instance evaluates them in TLC. The theorems about the
services state theirs in place: the limit of remembered requests is a natural number;
the rows of recovered Jobs and the entries of a stage list are records of their types
and the shutdown policies finitely many; the clients of the settings are neither the
startup nor nobody, and a patch or a document of the current schema has all its
sections, as its decoder returns it; a log has at least one file (`New` refuses fewer)
and a scene's bounds are natural numbers.

What stays with TLC:

- Liveness (`RevisionSettles`, `Settles`, `RuntimeSettles`, `DeadIsDisplaced`): fairness
  and ENABLED are outside the provers' reach.
- The computations (`ReadersAreExact`, `ContentIsValidated`, `GatesAreSound`,
  `EvaluationsAreExact`, and the search half of `MCRecords!SealedIsWhole`): what
  recursive definitions compute, which needs induction over data.
- Two properties that are sums or folds over data: that no log file is larger than its
  limit (`FilesAreBounded` of `Diagnostics`; the rest of the log and status half of
  `MCServices!SharedRequestsAgree` is proved), and `LaunchIsPreferred` of
  `SettingsAreKept`, a fold over the sources of a setting.

## Disagreements and open ends met while modelling

Each is behaviour of the modules (or of code beside them, where said); none is
assumed away.

Jobs, graph and release
- `commitGraphReady` (`storage/sqlite/graph_sync_state.go:174`) does not compare
  the cancel generation, so a graph Job with a recorded cancel may be sealed as
  succeeded, against `job/job.go:142-143`.
- `CancellationService.Cancel` decides between canceled and interrupted from a row
  read before the provider accepted the task (`graph/sync/cancellation.go:32`
  against its comment, lines 13-14).
- An aborted request leaves its revision saved or validating: the validation pipeline
  runs in the request (`project/adapters.go:209`).
- `releaseRuntime.Cancel` derives the boundary from a status read before the worker
  claims the Job (`bootstrap/release_runtime.go:132`), so a canceled Job may be
  released, against `versioning/release/worker.go:113-115`.
- `IntentRecovery.completeJob` (`versioning/release/recovery.go:154`) never
  completes a Job a cancel interrupted, because success with a generation other
  than zero is refused.
- After `RestoreRelease` an entity may have a version, and so an ETag, that it had
  before with other content (`api/openapi.yaml:565`). A PATCH of an archived entity composed before the restore
  may then pass its version check (`storage/sqlite/store.go:1197-1262`) and archive an
  entity others refer to, which no LOCAL run reports. Accepting an AI patch and
  restoring a release do not pass the daily backup admission.

Restore, backup, projects
- A cancel of a restore over an active project is recorded in the database that is
  replaced; the restored row starts with generation 0
  (`storage/sqlite/restore_reconciliation.go:58`).
- `rollbackOriginal` (`backup/integration/recovery.go:345`) keeps the project of a
  canceled restore locked although its journal is rolled back.
- `recoverEmpty` (`backup/integration/recovery.go:148`) compares the artifact hash
  after reconciliation has written to the target.
- A failing cleanup during recovery (`backup/integration/recovery.go:117`) rolls a
  restore back that is journaled as succeeded.
- A preflight that fails after `ResolveEmpty`, or expires, leaves its folder reserved
  and locked while the process lives; after a crash the lock file makes the folder
  "not empty" for good. `takeEmpty` does not compare generations: during a shutdown
  a restore may go on under the reservation of another selection. A `matched`
  preflight is not compared with the registry again, so opening the project elsewhere
  meanwhile asks for no confirmation.
- `ConfirmWaiver` (`backup/application/daily.go:134`) accepts any failed backup Job,
  also a manual one or one of an earlier date, while `api/openapi.yaml:337` speaks of
  "the bound daily backup Job"; the first waiver of a date stays
  (`storage/sqlite/backup_daily.go:105`), so the bound Job cannot be waived then, and
  a repeated confirmation conflicts because its `confirmed_at` differs.
- An aborted request cancels the daily backup it was executing; the date then needs
  a retry or a waiver (`backup/application/service.go:221`).
- `TrashAndDelete` (`backup/filesystem/store.go:426`) checks for leases before it
  renames; a restore that takes its lease in between loses the artifact.
- A migration backup is identified by the project and the two schema versions
  (`backup/integration/migration.go:73`): migrating again after a restore of older
  data is answered with the artifact of the first migration.
- Two close requests that verified the same dead owner each archive the lock by its
  name: `reclaimStaleLock` (`project/instances.go:184-186`) renames whatever has the name after
  it compared the record, so where open files can be renamed the second takes away the
  lock that a process has taken in between. The comment (`project/instances.go:159-161`) has the
  record that was verified archived. On Windows the rename fails, since the new holder
  keeps the file open (`project/adapters.go:33`).
- A crash between the creation of a lock file and its owner record leaves a lock that
  nobody may reclaim; `Close` whose handle or lock release fails leaves the project
  active with a closed handle (`project/project.go:341-346`), and every later close is
  refused by the guard, which reads the Jobs of the closed store; the recent list is read, changed and written without a lock; the
  close handler compares the project and closes in two steps.

AI, impact, simulation, risk
- No production code drives AI Jobs, and the HTTP cancel does not signal the registry
  of calls; no path moves an AI Job to failed; a Job that was canceled before a crash
  is not recovered although `app/runtime/recovery/ai_adapter.go` says "durably
  interrupted"; a replayed POST conflicts once the baseline has moved.
- Impact staging is keyed by input but loaded by Job, so a second Job of an input
  fails while the first one's row stays; a cached report leaves its handoff claimed;
  a Job refused by the full queue waits for the next start.
- A crash between a simulation Job and its materialization ends in
  RECOVERY_MISMATCH; one canceled but open Job makes `RecoverAll` return an error.
- The risk worker fails Jobs with `RISK_RULE_CONTRACT_INVALID`
  (`risk/orchestration/worker.go:105`), which `stableRiskFailureCode`
  (`storage/sqlite/risk_reports.go:86-93`) does not accept: such a Job stays running,
  against `risk/orchestration/recovery.go:31-34`. A succeeded Job whose last event
  was lost is not listed for recovery.
- A decimal range of a candidate search whose last value plus the step exceeds the
  largest decimal is refused although complete; a duration range just ends.

Runtime and services
- `abortStartup` stops dependencies before the HTTP host, so a reconnect in between
  restarts the child; it leaves the project store open. After a restart on a new port
  the endpoint of the dependency is not updated.
- The host serves before the dependencies are started (`startup.go:93`, `105-106`) and
  `Reconnect` (`bootstrap/graph_runtime.go:333-346`) does not look at the phase. One
  asked for in between makes a supervisor that the start overwrites without stopping
  it (`graph_runtime.go:203-225`): its Job object stays open and Close leaves its child
  running. `ShutdownIsOrdered` excepts that child and no other. The same request ended
  by an abort of the startup leaves its child as well.
- On POSIX systems a child runs between its start and SIGSTOP
  (`platform/process/adapter_posix.go:57-60`); when the application ends before it has
  assigned the child, nothing kills it. `ChildrenAreContained` names these children.
- `Reconnect` uses the settings loaded
  at startup although the settings resource answers `reconnect_required`.
- The runtime settings are read, changed and saved without a lock around the three
  (`app/runtime/settings.go:105-107` speaks of patches that cannot erase the native
  root): a PATCH that read before a root selection was saved erases it; a PATCH with
  `use_default_root` saves twice, so its reset may stand although it is refused. A root
  selection whose settings cannot be read back is answered 503 SETTINGS_UNAVAILABLE
  although it was saved (`httpapi/settings.go:79-87`); `RefusedIsUnchanged` excepts
  these two.
- The AI capability cache computes its key before the probe reads the settings again:
  settings changed from A to B and back may serve B's state for an hour; a first probe
  cut off by its caller is cached as unavailable for a minute.
- Events appended between the last listing and the status of a Job that ends are not
  sent on that connection of the stream; a resumed stream sends them.
- A log rotation that fails after closing its file silences the log until the next
  start (`app/runtime/diagnostics/logger.go:311`); an event accepted after the drain
  is lost without being counted (`logger.go:120`).
- A complete package that lacks a component is diagnosed before its identity is
  compared, so the start is degraded instead of refused (`packageinfo/verify.go:86-118`).

Content and gates
- Event loops are never reportable: nodes are named by entity and path, edges end in
  bare effect ids (`validation/safety.go`). A second producer of an attribute hides a
  static cycle. The ordinals of `WalkKnownSchema` follow the iteration order of a Go
  map, against `validation/determinism_test.go:13`.
- `!=` is an operator of the grammar (`formula/dsl-v1.ebnf:5`) and has a precedence, but
  the lexer takes `!` alone (`formula/parser.go:41-49`), so every expression with it is
  refused. `GrammarIsParsed` says so: what has no `!=` is parsed as written, what has
  one is refused and never read as another expression.
- Booleans under arithmetic pass type inference and fail at evaluation; chained comparisons
  and repeated signs parse although the grammar has at most one.
- One non-reproducible run seen first makes the simulation gate unavailable although
  an exact one follows; a decision does not change the state BLOCK of the risk gate;
  only the first simulation result enters the policy assessment.
- `formula_reads_attribute` is never projected; an archived entity that still has
  references makes every later projection fail; provenance contains the revision, so
  a difference plan upserts everything.
- Rules are sorted by the text of their paths (`rules/materialization/build.go:314-326`),
  block 10 before block 2, and modifiers apply in this order. `RulesAreWhole` states the
  text order; one of its inputs has twelve blocks.

## Not modelled

JSON schemas, canonical encodings, hashes and DTOs (`ai/contract`, `risk/contract`,
`httpapi/*dto`); prompt and tool payloads (`ai/tools`, `ai/retrieval`, `ai/audit`);
the numeric evaluation of risk (`risk/cohort`, `structure`, `threshold`) and the random
source of the simulation, whose decimals are out of TLC's reach; SQL text and
migrations; HTTP encoding and routing; the HTTP clients of the providers, whose outcomes
are choices of the modules that call them; Windows job objects; operating system
adapters; the web client. Code that nothing calls in production (`graph/sync/recovery.go`,
the reconciliation entry points of `storage/sqlite/simulation_runs.go`,
`EvaluateReleaseObservation`) is left out, too. Within modelled parts: the failure of a
worker's start that closes the others, exit and back-off as separate observations, and
the operations left when Close passes its deadline (abandoned at once) are simplified;
`Diagnostics` takes unsubscribing, the several events of one status and the last two
states of the process as one step each. `components` says of each part what is left out.

## Plan

1. Tool calls and their audit (`ai/tools`, `ai/audit`), risk structure rules, policy
   documents.
2. The numeric parts (`risk/cohort`, the random source of the simulation) on small
   integer ranges.
