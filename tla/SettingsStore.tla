----------------------------- MODULE SettingsStore -----------------------------
(***************************************************************************)
(* The machine settings: one document that is read, patched and replaced   *)
(* by the settings resource, by the selection of the backup root and, when *)
(* it has an older schema, by startup.  Every writer loads the document,   *)
(* changes its copy and saves it; only the saving is done under the lock.  *)
(***************************************************************************)
EXTENDS Integers, Sequences, SequencesExt

CONSTANTS
    Clients,       \* concurrent settings requests
    Patches,       \* bodies of PATCH /settings
    Directories,   \* what the native dialog may return, as paths of names
    Projects,      \* directories of the active project, << >> for none
    FirstFiles,    \* contents of the settings file at first, << >> for none
    Launches,      \* [env, args]: launch overrides
    MaxRequests,   \* bound: requests served
    MaxCrashes     \* bound: crashes of the process

VARIABLES
    settingsFile,   \* << >> or <<document>>
    previousFile,   \* the sibling recovery file
    replacedFile,   \* history: what the last replacement replaced
    settingsLock,   \* settingsWriteMu
    temporaries,    \* who has a temporary file
    writer,         \* the request of each client, and startup
    server,         \* [up, settings, launch]: the process and the settings it runs with
    requestsLeft, crashesLeft

settingsVars == <<settingsFile, previousFile, replacedFile, settingsLock, temporaries,
                  writer, server, requestsLeft, crashesLeft>>

Startup == "startup"
Nobody == "nobody"
Writers == Clients \cup {Startup}

-------------------------------------------------------------------------------
(* The document.  An endpoint is << >> or <<[scheme, host, user, port]>>,   *)
(* with port -1 when it names none.                                        *)

SchemaVersion == 2
Default ==
    [version |-> SchemaVersion, browser |-> TRUE, package |-> "development",
     graph |-> [mode |-> "disabled", endpoint |-> <<>>, limit |-> 3],
     ai |-> [enabled |-> FALSE, endpoint |-> <<>>, timeout |-> 120, cloud |-> FALSE],
     logs |-> 5,
     backup |-> [days |-> 30, mode |-> "default", path |-> <<>>, daily |-> 10]]

PlainAddress(e) ==
    /\ e.scheme \in {"http", "https"} /\ ~e.user
    /\ e.port = -1 \/ e.port \in 1..65535
validateLoopbackEndpoint(e) == PlainAddress(e) /\ e.host = "loopback"
ValidateEndpoint(e, allowCloud) ==
    /\ PlainAddress(e)
    /\ e.host # "loopback" => e.host # "private" /\ e.scheme = "https" /\ allowCloud

ValidGraph(g) ==
    /\ g.mode \in {"disabled", "external", "bundled"}
    /\ g.mode = "external" => g.endpoint # <<>>
    /\ \A i \in DOMAIN g.endpoint : validateLoopbackEndpoint(g.endpoint[i])
    /\ g.limit \in 0..10
ValidAI(a) ==
    /\ a.enabled => a.endpoint # <<>> /\ a.timeout # 0
    /\ \A i \in DOMAIN a.endpoint : ValidateEndpoint(a.endpoint[i], a.cloud)
    /\ a.timeout \in 0..600
ValidBackup(b) ==
    /\ b.days \in 0..3650 /\ b.daily \in 1..1000
    /\ b.mode \in {"default", "custom"}
    /\ (b.mode = "default") = (b.path = <<>>)
Validate(d) ==
    /\ d.version = SchemaVersion
    /\ d.package \in {"development", "complete", "lightweight"}
    /\ ValidGraph(d.graph) /\ ValidAI(d.ai) /\ d.logs \in 1..20 /\ ValidBackup(d.backup)

\* Schema 1 had no backup root and no counts; schema 0 had only the browser setting.
decodeWithMigration(d) ==
    CASE d.version = 0 -> [Default EXCEPT !.browser = d.browser]
      [] d.version = 1 -> [Default EXCEPT !.browser = d.browser, !.package = d.package, !.graph = d.graph,
                                          !.ai = d.ai, !.logs = d.logs, !.backup.days = d.days]
      [] OTHER -> d
\* A file that is not a document of a known schema has another version.
Loads(f) == f # <<>> => f[1].version \in 0..2 /\ Validate(decodeWithMigration(f[1]))
Load(f) == IF f = <<>> THEN Default ELSE decodeWithMigration(f[1])
Migrated(f) == f # <<>> /\ f[1].version # SchemaVersion

WithRoot(d, mode, path) == [d EXCEPT !.backup.mode = mode, !.backup.path = path]

\* A section of a patch is << >> or <<value>>; of the backup section only the count
\* that is given is taken.
Section(p, old) == IF p = <<>> THEN old ELSE p[1]
Patched(d, p) ==
    [d EXCEPT !.browser = Section(p.browser, @), !.graph = Section(p.graph, @),
              !.ai = Section(p.ai, @), !.logs = Section(p.logs, @),
              !.backup.daily = IF p.backup = <<>> \/ p.backup[1].daily = 0 THEN @ ELSE p.backup[1].daily]
EmptyPatch(p) == \A section \in DOMAIN p : p[section] = <<>>
UsesDefaultRoot(p) == p.backup # <<>> /\ p.backup[1].useDefault

\* The fields whose change the answer of a PATCH announces.
settingsEffects(before, after) ==
    {field \in {"browser", "graph", "ai", "logs", "backup"} : before[field] # after[field]}

isWithin(root, target) == IsPrefix(root, target)
pathsOverlap(left, right) == isWithin(left, right) \/ isWithin(right, left)

-------------------------------------------------------------------------------
(* Launch overrides: the environment first, then the arguments in order.   *)

applyOverride(s, flag, value) ==
    CASE ~s.ok -> s
      [] flag = "browser" -> IF value \in {"true", "false"} THEN [s EXCEPT !.settings.browser = value = "true"]
                             ELSE [s EXCEPT !.ok = FALSE]
      [] flag = "endpoint" -> [s EXCEPT !.settings.graph.endpoint = <<value>>, !.settings.graph.mode = "external"]
      [] OTHER -> [s EXCEPT !.ok = FALSE]
Override(s, o) == applyOverride(s, o[1], o[2])
ApplyLaunchOverrides(d, launch) ==
    LET s == FoldLeft(Override, [ok |-> TRUE, settings |-> d], launch.env \o launch.args)
    IN [ok |-> s.ok /\ Validate(s.settings), settings |-> s.settings]

-------------------------------------------------------------------------------

Resting == [pc |-> "idle", stage |-> "none", request |-> <<>>, base |-> Default, next |-> Default,
            answer |-> "none", wrote |-> 0]
Down == [up |-> FALSE, settings |-> Default, launch |-> [env |-> <<>>, args |-> <<>>]]

SettingsInit ==
    /\ settingsFile \in FirstFiles
    /\ previousFile = <<>> /\ replacedFile = <<>>
    /\ settingsLock = Nobody /\ temporaries = {}
    /\ writer = [w \in Writers |-> Resting]
    /\ server = Down
    /\ requestsLeft = MaxRequests /\ crashesLeft = MaxCrashes

files == <<settingsFile, previousFile, replacedFile, settingsLock, temporaries>>
bounds == <<requestsLeft, crashesLeft>>

Answer(w, a) == writer' = [writer EXCEPT ![w] = [@ EXCEPT !.pc = "idle", !.answer = a]]
Goes(w, pc) == writer' = [writer EXCEPT ![w].pc = pc]

\* Run loads the settings; a file that does not load ends the start.
LoadSettings(launch) ==
    /\ ~server.up /\ writer[Startup].pc = "idle" /\ Loads(settingsFile)
    /\ server' = [Down EXCEPT !.launch = launch]
    /\ writer' = [writer EXCEPT ![Startup] =
                    [Resting EXCEPT !.pc = IF Migrated(settingsFile) THEN "save" ELSE "launch",
                                    !.stage = "migrate", !.base = Load(settingsFile),
                                    !.next = Load(settingsFile)]]
    /\ UNCHANGED <<files, bounds>>

Launched ==
    /\ writer[Startup].pc = "launch"
    /\ LET s == ApplyLaunchOverrides(writer[Startup].next, server.launch)
       IN server' = [server EXCEPT !.up = s.ok, !.settings = s.settings]
    /\ Answer(Startup, "started")
    /\ UNCHANGED <<files, bounds>>

Arrives(c) ==
    /\ server.up /\ writer[c].pc = "idle" /\ requestsLeft > 0
    /\ requestsLeft' = requestsLeft - 1
    /\ UNCHANGED <<files, server, crashesLeft>>

\* PATCH /settings: use_default_root saves a document of its own first.
patch(c, p) ==
    /\ Arrives(c)
    /\ writer' = [writer EXCEPT ![c] =
                    [Resting EXCEPT !.request = <<p>>,
                                    !.pc = IF UsesDefaultRoot(p) THEN "probe" ELSE IF EmptyPatch(p) THEN "idle" ELSE "load",
                                    !.stage = IF UsesDefaultRoot(p) THEN "reset" ELSE "update",
                                    !.answer = IF EmptyPatch(p) THEN "SETTINGS_INVALID" ELSE "none"]]

\* POST /settings/backup-root-selection: the dialog returns a directory, a one-use
\* token is issued and consumed, and the directory must not overlap the project
\* that was active when the dialog closed.
selectBackupRoot(c, directory, active) ==
    /\ Arrives(c)
    /\ writer' = [writer EXCEPT ![c] =
                    [Resting EXCEPT !.pc = IF active # <<>> /\ pathsOverlap(directory, active) THEN "idle" ELSE "probe",
                                    !.stage = "select", !.next = WithRoot(Default, "custom", directory),
                                    !.answer = IF active # <<>> /\ pathsOverlap(directory, active)
                                               THEN "BACKUP_PATH_SECURITY" ELSE "none"]]

\* RequireWritable on the new root.
Probe(c) ==
    /\ writer[c].pc = "probe"
    /\ Goes(c, "load") \/ Answer(c, "BACKUP_ROOT_UNWRITABLE")
    /\ UNCHANGED <<files, server, bounds>>

\* A change of the backup root that cannot be loaded or saved is answered as a root
\* that is not writable, another change with what is wrong.
Refusal(stage, wrong) == IF stage \in {"reset", "select"} THEN "BACKUP_ROOT_UNWRITABLE" ELSE wrong

\* The document is read without the lock, and the change is made to the copy; reading
\* may fail, or the caller has gone.
Changed(w, doc) ==
    CASE w.stage = "reset" -> WithRoot(doc, "default", <<>>)
      [] w.stage = "select" -> WithRoot(doc, w.next.backup.mode, w.next.backup.path)
      [] w.stage = "update" -> Patched(doc, w.request[1])
LoadDocument(c) ==
    /\ writer[c].pc = "load"
    /\ \/ /\ Loads(settingsFile)
          /\ writer' = [writer EXCEPT ![c] = [@ EXCEPT !.pc = "save", !.base = Load(settingsFile),
                                                       !.next = Changed(writer[c], Load(settingsFile))]]
       \/ Answer(c, Refusal(writer[c].stage, "SETTINGS_UNAVAILABLE"))
    /\ UNCHANGED <<files, server, bounds>>

-------------------------------------------------------------------------------
(* Save.                                                                   *)

\* The document is checked once more before it is written; the mutant trusts it.
SavableUnchecked(d) == d.version = SchemaVersion
Savable(d) == Validate(d)

RefuseSave(w) ==
    /\ writer[w].pc = "save" /\ ~Savable(writer[w].next)
    /\ Answer(w, Refusal(writer[w].stage, "SETTINGS_INVALID"))
    /\ UNCHANGED <<files, server, bounds>>

LockSettings(w) ==
    /\ writer[w].pc = "save" /\ Savable(writer[w].next) /\ settingsLock = Nobody
    /\ settingsLock' = w
    /\ Goes(w, "preserve")
    /\ UNCHANGED <<settingsFile, previousFile, replacedFile, temporaries, server, bounds>>

\* The content of the file, as it is now, is renamed over the recovery file.
preservePriorFile(w) ==
    /\ writer[w].pc = "preserve"
    /\ previousFile' = IF settingsFile = <<>> THEN previousFile ELSE settingsFile
    /\ Goes(w, "write")
    /\ UNCHANGED <<settingsFile, replacedFile, settingsLock, temporaries, server, bounds>>

writeTemporary(w) ==
    /\ writer[w].pc = "write"
    /\ temporaries' = temporaries \cup {w}
    /\ Goes(w, "replace")
    /\ UNCHANGED <<settingsFile, previousFile, replacedFile, settingsLock, server, bounds>>

\* What follows the save: a reset is followed by the update, a migration by the launch,
\* a selection by reading the settings back.
AfterSave(stage) ==
    CASE stage = "migrate" -> "launch" [] stage = "reset" -> "load" [] stage = "select" -> "reread"
      [] OTHER -> "idle"
replace(w) ==
    /\ writer[w].pc = "replace"
    /\ settingsFile' = <<writer[w].next>> /\ replacedFile' = settingsFile
    /\ settingsLock' = Nobody /\ temporaries' = temporaries \ {w}
    /\ LET r == writer[w]
       IN writer' = [writer EXCEPT ![w] =
                       [r EXCEPT !.pc = AfterSave(r.stage), !.wrote = r.wrote + 1,
                                 !.stage = IF r.stage = "reset" THEN "update" ELSE r.stage,
                                 !.answer = IF r.stage = "update" THEN "OK" ELSE r.answer]]
    /\ UNCHANGED <<previousFile, server, bounds>>

\* A file operation fails: the temporary file is removed and the lock released.
SaveFails(w) ==
    /\ writer[w].pc \in {"preserve", "write", "replace"}
    /\ settingsLock' = Nobody /\ temporaries' = temporaries \ {w}
    /\ Answer(w, Refusal(writer[w].stage, "SETTINGS_UNAVAILABLE"))
    /\ UNCHANGED <<settingsFile, previousFile, replacedFile, server, bounds>>

\* selectBackupRoot reads the settings it has saved for its answer; when it cannot, it
\* answers that they are unavailable.
ReadBack(c) ==
    /\ writer[c].pc = "reread"
    /\ (Loads(settingsFile) /\ Answer(c, "OK")) \/ Answer(c, "SETTINGS_UNAVAILABLE")
    /\ UNCHANGED <<files, server, bounds>>

Crash ==
    /\ crashesLeft > 0 /\ (server.up \/ writer[Startup].pc # "idle")
    /\ crashesLeft' = crashesLeft - 1
    /\ writer' = [w \in Writers |-> Resting]
    /\ server' = Down /\ settingsLock' = Nobody
    /\ UNCHANGED <<settingsFile, previousFile, replacedFile, temporaries, requestsLeft>>

SettingsNext ==
    \/ \E l \in Launches : LoadSettings(l)
    \/ Launched
    \/ \E c \in Clients :
         \/ \E p \in Patches : patch(c, p)
         \/ \E d \in Directories, active \in Projects : selectBackupRoot(c, d, active)
         \/ Probe(c) \/ LoadDocument(c) \/ ReadBack(c)
    \/ \E w \in Writers :
         \/ RefuseSave(w) \/ LockSettings(w) \/ preservePriorFile(w) \/ writeTemporary(w)
         \/ replace(w) \/ SaveFails(w)
    \/ Crash

-------------------------------------------------------------------------------
(* Properties.                                                             *)

\* Wherever a save fails or the process dies, the file holds a whole document that
\* loads, unless it never did.
FileLoads == Loads(settingsFile) \/ settingsFile \in FirstFiles

\* The recovery file holds what the settings file holds or what it replaced.
PreviousIsPrior == previousFile \in {<<>>, settingsFile, replacedFile}

\* A request that was refused has written nothing, but for two: the reset of the root
\* that a PATCH does first may stand although the PATCH is refused, and a selection whose
\* answer is that the settings are unavailable stands, whatever the client makes of it.
\* One that was answered has replaced the file.
RefusedIsUnchanged ==
    \A c \in Clients :
        /\ writer[c].pc = "idle" /\ writer[c].answer \notin {"OK", "none"} =>
             IF writer[c].stage = "select"
             THEN writer[c].wrote = IF writer[c].answer = "SETTINGS_UNAVAILABLE" THEN 1 ELSE 0
             ELSE writer[c].wrote = 0 \/ (UsesDefaultRoot(writer[c].request[1]) /\ writer[c].wrote = 1)
        /\ writer[c].answer = "OK" => writer[c].wrote > 0

\* The process runs with valid settings, and a setting given at the launch comes from
\* the last argument that gives it, else from the environment, else from the file.
LaunchIsPreferred ==
    server.up =>
        LET given(os) == SelectSeq(os, LAMBDA o : o[1] = "browser")
            by == IF given(server.launch.args) # <<>> THEN given(server.launch.args)
                  ELSE given(server.launch.env)
        IN /\ Validate(server.settings)
           /\ by # <<>> => server.settings.browser = (by[Len(by)][2] = "true")

\* What a PATCH announces as changed is among the sections that it names.
EffectsAreNamed ==
    \A c \in Clients :
        writer[c].answer = "OK" /\ writer[c].stage = "update" =>
            \A field \in settingsEffects(writer[c].base, writer[c].next) :
                writer[c].request[1][field] # <<>>

\* The settings document survives failures, crashes, refused requests and launches.
SettingsAreKept ==
    FileLoads /\ PreviousIsPrior /\ RefusedIsUnchanged /\ LaunchIsPreferred /\ EffectsAreNamed
=============================================================================
