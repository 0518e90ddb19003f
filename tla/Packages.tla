------------------------------- MODULE Packages -------------------------------
(***************************************************************************)
(* The distribution package: how it is assembled beside its output         *)
(* directory and renamed into place, and what a started executable believes *)
(* of the directory it finds (internal/packageinfo, embeddedPackageVerifier *)
(* and packageGatedWorker of internal/bootstrap).  A path is a directory, a *)
(* name and the class of the name; size and digest of a file are its       *)
(* content.                                                                *)
(***************************************************************************)
EXTENDS Integers, Sequences, FiniteSets, SequencesExt

CONSTANTS
    Assemblers,    \* assemblies that may run side by side
    Requests,      \* what each may be asked for: [mode, formed, identity, assets, executable, components,
                   \*  ancillary, repository]
    Found,         \* packages that an executable may find instead of an assembled one
    Builds,        \* [mode, platform, identity, assets, embedded] of executables that are started
    Damages,       \* [path, entry] that may befall a file of the package
    MaxDamages     \* bound: how many do

VARIABLES artifact, published, assemblers, launch, damages

packageVars == <<artifact, published, assemblers, launch, damages>>

-------------------------------------------------------------------------------
(* Names.                                                                  *)

Kinds == {"local-rag", "python-runtime", "embedding-model", "rerank-model"}
Programs == {"local-rag", "python-runtime"}
componentDestinations ==
    [k \in Kinds |-> CASE k = "local-rag" -> "local-rag" [] k = "python-runtime" -> "python"
                       [] k = "embedding-model" -> "models/embedding" [] k = "rerank-model" -> "models/rerank"]
Path(dir, rel) == [dir |-> dir, name |-> rel.name, class |-> rel.class]
Executable == [dir |-> "", name |-> 0, class |-> "plain"]
SettingsTemplate == [dir |-> "defaults", name |-> 0, class |-> "plain"]
safeRelativePath(p) == p.dir # "escape"
forbiddenArtifactName(p, kind) == p.class = "forbidden" \/ (p.class = "weights" /\ kind \in Programs)

Nothing == [type |-> "missing", content |-> ""]
At(files, p) == IF p \in DOMAIN files THEN files[p] ELSE Nothing
Declared(m) == UNION {ToSet(m.components[i].files) : i \in DOMAIN m.components}

-------------------------------------------------------------------------------
(* The manifest.  A diagnostic is a code and a component; <<>> is none.      *)

Diagnostic(code, kind) == <<code, kind>>
FirstOf(diagnostics) ==
    LET bad == SelectSeq(diagnostics, LAMBDA d : d # <<>>) IN IF bad = <<>> THEN <<>> ELSE bad[1]
When(condition, code, kind) == IF condition THEN Diagnostic(code, kind) ELSE <<>>

FileDiagnostic(m, i, j) ==
    LET c == m.components[i]
        f == c.files[j]
        earlier == {c.files[k].path : k \in 1..(j - 1)}
                   \cup UNION {{g.path : g \in ToSet(m.components[k].files)} : k \in 1..(i - 1)}
    IN FirstOf(<<When(~safeRelativePath(f.path), "PATH_ESCAPE", c.kind),
                 When(f.path \in earlier, "COMPONENT_DUPLICATE", c.kind),
                 When(~f.formed, "MANIFEST_CORRUPT", c.kind)>>)
ComponentDiagnostic(m, i) ==
    LET c == m.components[i]
    IN FirstOf(<<When(\E k \in 1..(i - 1) : m.components[k].kind = c.kind, "COMPONENT_DUPLICATE", c.kind),
                 When(c.kind \notin Kinds \/ ~c.formed \/ c.files = <<>>, "MANIFEST_CORRUPT", c.kind),
                 When((c.kind \in Programs) # (c.entry # <<>>), "MANIFEST_CORRUPT", c.kind)>>
               \o [j \in DOMAIN c.files |-> FileDiagnostic(m, i, j)]
               \o <<When(c.entry # <<>> /\ \A f \in ToSet(c.files) : f.path # c.entry[1], "COMPONENT_MISSING", c.kind)>>)
\* The assets are visited in the order of a map: any bad one may be named first.
AssetDiagnostics(m) ==
    LET bad == {FirstOf(<<When(~safeRelativePath(a.path), "PATH_ESCAPE", ""),
                          When(~a.formed, "MANIFEST_CORRUPT", "")>>) : a \in m.assets} \ {<<>>}
    IN IF m.assets = {} THEN {Diagnostic("MANIFEST_CORRUPT", "")} ELSE IF bad = {} THEN {<<>>} ELSE bad
ValidateShape(m) ==
    {FirstOf(<<When(m.schema # 1, "MANIFEST_CORRUPT", ""),
               When(m.mode \notin {"complete", "lightweight"}, "MODE_UNEXPECTED", ""),
               When(m.platform # "windows/amd64", "PLATFORM_UNSUPPORTED", ""),
               When(~safeRelativePath(m.identity.executable), "PATH_ESCAPE", ""),
               When(~m.identity.formed, "MANIFEST_CORRUPT", ""),
               asset,
               When(m.mode = "lightweight" /\ m.components # <<>>, "MODE_UNEXPECTED", ""),
               When(m.absent, "MANIFEST_CORRUPT", "")>>
             \o [i \in DOMAIN m.components |-> ComponentDiagnostic(m, i)]
             \o [i \in 1..4 |->
                   LET kind == <<"local-rag", "python-runtime", "embedding-model", "rerank-model">>[i]
                   IN When(m.mode = "complete" /\ \A c \in ToSet(m.components) : c.kind # kind, "COMPONENT_MISSING", kind)])
       : asset \in AssetDiagnostics(m)}

Alphabetic == [k \in Kinds |-> CASE k = "embedding-model" -> 1 [] k = "local-rag" -> 2
                                 [] k = "python-runtime" -> 3 [] k = "rerank-model" -> 4]
CanonicalJSON(m) ==
    [m EXCEPT !.components =
        SortSeq([i \in DOMAIN @ |-> [@[i] EXCEPT !.files = SortSeq(@, LAMBDA f, g : f.path.name < g.path.name)]],
                LAMBDA c, d : Alphabetic[c.kind] < Alphabetic[d.kind])]

-------------------------------------------------------------------------------
(* What a finished tree must look like.                                     *)

inspectEmbeddedInventory(assets) ==
    /\ {"inventory", "script", "stylesheet"} \subseteq {a.path.name : a \in assets}
    /\ \A a \in assets : ~forbiddenArtifactName(a.path, "")
KindOf(m, p) ==
    IF \E i \in DOMAIN m.components : \E f \in ToSet(m.components[i].files) : f.path = p
    THEN (CHOOSE c \in ToSet(m.components) : \E f \in ToSet(c.files) : f.path = p).kind ELSE ""
inspectLayout(files, m) ==
    /\ inspectEmbeddedInventory(m.assets)
    /\ \A p \in DOMAIN files :
         /\ files[p].type # "symlink" /\ ~forbiddenArtifactName(p, KindOf(m, p))
         /\ p = m.identity.executable \/ (\E f \in Declared(m) : f.path = p) \/ p.dir \in {"defaults", "licenses", "notices"}
    /\ \A f \in Declared(m) : ~forbiddenArtifactName(f.path, KindOf(m, f.path))
    /\ \A dir \in {"licenses", "notices"} : \E p \in DOMAIN files : p.dir = dir
    /\ At(files, SettingsTemplate).content = m.mode

-------------------------------------------------------------------------------
(* The contracts that the source tree pins: [pins, openapi, health,         *)
(* fixtures, parts], each file with its content and what is read from it.  *)

pinnedVersion(v) == v \notin {"", "latest"}
validateShape(pins) ==
    /\ pins.formed /\ pinnedVersion(pins.version) /\ pins.fixtures # <<>>
    /\ \A i, j \in DOMAIN pins.fixtures : i < j => pins.fixtures[i].id < pins.fixtures[j].id
verifyConsumerFixture(repository, pin, pins) ==
    LET f == repository.fixtures[pin.id]
    IN /\ f.content = pin.content /\ f.version = pin.version /\ f.files # <<>>
       /\ \A name \in DOMAIN f.files :
            /\ name \in DOMAIN repository.parts /\ repository.parts[name].content = f.files[name]
            /\ name = "consumer-contract" =>
                 repository.parts[name].commit = pins.commit /\ repository.parts[name].openapi = pins.openapi.content
LoadAndVerifyRuntimeContractPins(repository) ==
    IF repository.pins = <<>> \/ ~validateShape(repository.pins[1]) THEN <<>>
    ELSE LET pins == repository.pins[1]
         IN IF /\ repository.openapi = pins.openapi
               /\ repository.health.content = pins.health /\ repository.health.versions = {pins.version}
               /\ \A i \in DOMAIN pins.fixtures :
                    /\ pins.fixtures[i].id \in DOMAIN repository.fixtures
                    /\ verifyConsumerFixture(repository, pins.fixtures[i], pins)
            THEN <<pins>> ELSE <<>>

-------------------------------------------------------------------------------
(* Assembly.                                                               *)

validateAssembly(r) ==
    /\ r.formed /\ r.assets # {}
    /\ r.mode = "complete" =>
         /\ Len(r.components) = 4 /\ {c.kind : c \in ToSet(r.components)} = Kinds
         /\ \A c \in ToSet(r.components) :
              /\ c.formed /\ pinnedVersion(c.version)
              /\ r.repository # <<>> /\ c.kind = "local-rag" =>
                   LET pins == LoadAndVerifyRuntimeContractPins(r.repository[1])
                   IN pins # <<>> /\ c.version = pins[1].version
              /\ (c.kind \in Programs) = (c.entry # <<>>)

\* What is copied into the temporary directory, in this order.
Ancillary(r, dir) == [dest |-> dir, kind |-> "", tree |-> r.ancillary[dir]]
Parts(r) ==
    [i \in DOMAIN r.components |->
        [dest |-> componentDestinations[r.components[i].kind], kind |-> r.components[i].kind, tree |-> r.components[i].tree]]
    \o <<Ancillary(r, "defaults"), Ancillary(r, "licenses"), Ancillary(r, "notices")>>
copyTree(part) ==
    IF part.tree.root = "directory" /\ \A n \in DOMAIN part.tree.files : part.tree.files[n].type = "regular"
    THEN <<[p \in {Path(part.dest, n) : n \in DOMAIN part.tree.files} |->
              part.tree.files[CHOOSE n \in DOMAIN part.tree.files : Path(part.dest, n) = p]]>>
    ELSE <<>>
stageComponent(source, files) ==
    LET dest == componentDestinations[source.kind]
        mine == {p \in DOMAIN files : p.dir = dest}
    IN [kind |-> source.kind, formed |-> TRUE,
        entry |-> IF source.entry = <<>> \/ Path(dest, source.entry[1]) \notin mine THEN <<>> ELSE <<Path(dest, source.entry[1])>>,
        files |-> SetToSortSeq({[path |-> p, content |-> files[p].content, formed |-> TRUE] : p \in mine},
                               LAMBDA f, g : f.path.name < g.path.name)]
Staged(r, files) == [i \in DOMAIN r.components |-> stageComponent(r.components[i], files)]
ManifestOf(r, files) ==
    [schema |-> 1, mode |-> r.mode, platform |-> "windows/amd64", assets |-> r.assets, absent |-> FALSE,
     identity |-> [build |-> r.identity, executable |-> Executable, content |-> files[Executable].content, formed |-> TRUE],
     components |-> Staged(r, files)]

Idle == [pc |-> "idle"]
Refused == [pc |-> "refused"]
Asked(a) == Requests[a][assemblers[a].request]

\* The request is valid and the output does not exist; the executable is copied first.
Begin(a) ==
    /\ assemblers[a] = Idle
    /\ \E i \in DOMAIN Requests[a] :
         LET r == Requests[a][i] IN
         assemblers' = [assemblers EXCEPT ![a] =
            IF validateAssembly(r) /\ artifact = <<>> /\ r.executable.type = "regular"
            THEN [pc |-> "copy", request |-> i, copied |-> 0, files |-> [p \in {Executable} |-> r.executable]]
            ELSE Refused]
    /\ UNCHANGED <<artifact, published, launch, damages>>

CopyPart(a) ==
    /\ assemblers[a].pc = "copy" /\ assemblers[a].copied < Len(Parts(Asked(a)))
    /\ LET s == assemblers[a]
           r == Asked(a)
           part == Parts(r)[s.copied + 1]
           copy == copyTree(part)
           next == [s EXCEPT !.copied = @ + 1, !.files = copy[1] @@ @]
           component == stageComponent(r.components[s.copied + 1], next.files)
           whole == part.kind = "" \/ (component.files # <<>> /\ (r.components[s.copied + 1].entry # <<>> => component.entry # <<>>))
       IN assemblers' = [assemblers EXCEPT ![a] = IF copy = <<>> \/ ~whole THEN Refused ELSE next]
    /\ UNCHANGED <<artifact, published, launch, damages>>

\* The manifest is written and the tree inspected, still in the temporary directory.
WriteManifest(a) ==
    /\ assemblers[a].pc = "copy" /\ assemblers[a].copied = Len(Parts(Asked(a)))
    /\ LET s == assemblers[a]
           m == ManifestOf(Asked(a), s.files)
       IN assemblers' = [assemblers EXCEPT ![a] =
            IF ValidateShape(m) = {<<>>} /\ inspectLayout(s.files, m)
            THEN [pc |-> "rename", request |-> s.request,
                  package |-> [manifest |-> [type |-> "regular", value |-> CanonicalJSON(m)], files |-> s.files]]
            ELSE Refused]
    /\ UNCHANGED <<artifact, published, launch, damages>>

\* A directory that is not empty is not replaced.
Publish(a) ==
    /\ assemblers[a].pc = "rename"
    /\ IF artifact # <<>> THEN assemblers' = [assemblers EXCEPT ![a] = Refused] /\ UNCHANGED <<artifact, published>>
       ELSE /\ artifact' = <<assemblers[a].package>>
            /\ published' = IF published = <<>> THEN artifact' ELSE published
            /\ assemblers' = [assemblers EXCEPT ![a] = [pc |-> "done", request |-> assemblers[a].request]]
    /\ UNCHANGED <<launch, damages>>

\* The context ends or a call of the file system fails; the temporary directory goes.
Abandon(a) ==
    /\ assemblers[a].pc \in {"copy", "rename"}
    /\ assemblers' = [assemblers EXCEPT ![a] = Refused]
    /\ UNCHANGED <<artifact, published, launch, damages>>

-------------------------------------------------------------------------------
(* The package directory between two looks at it.                          *)

Damage ==
    /\ damages < MaxDamages /\ artifact # <<>>
    /\ \E d \in Damages :
         artifact' = <<[artifact[1] EXCEPT !.files = [p \in DOMAIN @ \cup {d.path} |-> IF p = d.path THEN d.entry ELSE @[p]]]>>
    /\ damages' = damages + 1
    /\ UNCHANGED <<published, assemblers, launch>>

-------------------------------------------------------------------------------
(* Startup.                                                                *)

resolveRegularFile(files, p, kind) ==
    FirstOf(<<When(~safeRelativePath(p), "PATH_ESCAPE", kind),
              When(At(files, p).type = "missing", "COMPONENT_MISSING", kind),
              When(At(files, p).type = "symlink", "PATH_ESCAPE", kind),
              When(At(files, p).type # "regular", "COMPONENT_MISSING", kind)>>)
VerifyFileOf(files, p, content, kind) ==
    FirstOf(<<resolveRegularFile(files, p, kind), When(At(files, p).content # content, "COMPONENT_CORRUPT", kind)>>)
readBoundedManifest(manifest) ==
    CASE manifest.type = "missing" -> Diagnostic("MANIFEST_MISSING", "")
      [] manifest.type = "symlink" -> Diagnostic("PATH_ESCAPE", "")
      [] manifest.type \in {"directory", "unreadable"} -> Diagnostic("MANIFEST_CORRUPT", "")
      [] manifest.type = "regular" -> <<>>
matchesEcoIdentity(identity, build) == identity.build = build.identity /\ identity.executable = Executable

\* What a complete package lacks only degrades; everything else stops the start.
classifyPackageVerification(d) ==
    IF d[1] \in {"COMPONENT_MISSING", "COMPONENT_CORRUPT"} /\ d[2] \in Kinds THEN "degraded" ELSE "refused"
Reasons(d) ==
    {<<d[2], d[1]>>}
    \cup (IF d[2] \in Programs THEN {<<"process", "UNAVAILABLE">>, <<"graph", "UNAVAILABLE">>, <<"retrieval", "UNAVAILABLE">>}
          ELSE {<<"retrieval", d[2]>>})
Failed(d) == [pc |-> classifyPackageVerification(d), build |-> launch.build, allowed |-> FALSE, running |-> FALSE,
              reasons |-> IF classifyPackageVerification(d) = "degraded" THEN Reasons(d) ELSE {}]

NotStarted == [pc |-> "off"]
Up(build, allowed, hashed) ==
    [pc |-> "up", build |-> build, allowed |-> allowed, running |-> FALSE, hashed |-> hashed]

\* VerifyPackage: a development build needs no package; any other starts from one.
Launch ==
    /\ launch = NotStarted /\ artifact # <<>>
    /\ \E b \in Builds :
         launch' = IF ~b.embedded THEN [pc |-> "refused", build |-> b, allowed |-> FALSE, running |-> FALSE, reasons |-> {}]
                   ELSE IF b.mode = "development" THEN Up(b, TRUE, <<>>)
                   ELSE [pc |-> "manifest", build |-> b]
    /\ UNCHANGED <<artifact, published, assemblers, damages>>

\* LoadAndVerify up to the executable, which is the first file that is hashed.
LoadManifest ==
    /\ launch.pc = "manifest"
    /\ LET manifest == artifact[1].manifest
           m == manifest.value
           b == launch.build
       IN IF readBoundedManifest(manifest) # <<>> THEN launch' = Failed(readBoundedManifest(manifest))
          ELSE \E shape \in ValidateShape(m) :
                 LET d == FirstOf(<<shape,
                                    When(m.mode # b.mode, "MODE_UNEXPECTED", ""),
                                    When(m.platform # b.platform, "PLATFORM_UNSUPPORTED", ""),
                                    When(~matchesEcoIdentity(m.identity, b), "BUILD_MISMATCH", ""),
                                    When(m.assets # b.assets, "EMBEDDED_ASSET_MISMATCH", ""),
                                    VerifyFileOf(artifact[1].files, m.identity.executable, m.identity.content, "")>>)
                 IN launch' = IF d # <<>> THEN Failed(d)
                              ELSE [pc |-> "files", build |-> b, manifest |-> m, component |-> 1, file |-> 1, hashed |-> <<>>]
    /\ UNCHANGED <<artifact, published, assemblers, damages>>

\* The files are hashed one after the other; a first difference decides.
VerifyFile ==
    /\ launch.pc = "files" /\ launch.component <= Len(launch.manifest.components)
    /\ LET c == launch.manifest.components[launch.component]
           f == c.files[launch.file]
           d == VerifyFileOf(artifact[1].files, f.path, f.content, c.kind)
           last == launch.file = Len(c.files)
       IN launch' = IF d # <<>> THEN Failed(d)
                    ELSE [launch EXCEPT !.component = IF last THEN @ + 1 ELSE @, !.file = IF last THEN 1 ELSE @ + 1,
                                        !.hashed = Append(@, [component |-> c.kind, path |-> f.path,
                                                              content |-> At(artifact[1].files, f.path).content])]
    /\ UNCHANGED <<artifact, published, assemblers, damages>>

Verified ==
    /\ launch.pc = "files" /\ launch.component > Len(launch.manifest.components)
    /\ launch' = [manifest |-> launch.manifest] @@ Up(launch.build, launch.build.mode = "complete", launch.hashed)
    /\ UNCHANGED <<artifact, published, assemblers, damages>>

\* A context that ends during the verification is an error like any other.
VerificationCanceled ==
    /\ launch.pc \in {"manifest", "files"}
    /\ launch' = [pc |-> "canceled", build |-> launch.build, allowed |-> FALSE, running |-> FALSE]
    /\ UNCHANGED <<artifact, published, assemblers, damages>>

\* packageGatedWorker: the bundled process is started only where it is allowed, and
\* closed only if it was started.
StartGated ==
    /\ launch.pc \in {"up", "degraded"} /\ launch.allowed /\ ~launch.running
    /\ launch' = [launch EXCEPT !.running = TRUE]
    /\ UNCHANGED <<artifact, published, assemblers, damages>>
CloseGated ==
    /\ launch.pc \in {"up", "degraded", "refused", "canceled"}
    /\ launch' = NotStarted
    /\ UNCHANGED <<artifact, published, assemblers, damages>>

Entrypoint(kind) ==
    {h \in ToSet(launch.hashed) : \E c \in ToSet(launch.manifest.components) :
        c.kind = kind /\ h.component = kind /\ c.entry = <<h.path>>}
VerifiedComponentRoot(kind) ==
    IF (Entrypoint(kind) # {} \/ kind \notin Programs) /\ \E h \in ToSet(launch.hashed) : h.component = kind
    THEN <<componentDestinations[kind]>> ELSE <<>>

PackageInit ==
    /\ artifact \in {<<>>} \cup {<<p>> : p \in Found}
    /\ published = <<>> /\ assemblers = [a \in Assemblers |-> Idle] /\ launch = NotStarted /\ damages = 0

PackageNext ==
    \/ \E a \in Assemblers : Begin(a) \/ CopyPart(a) \/ WriteManifest(a) \/ Publish(a) \/ Abandon(a)
    \/ Damage
    \/ Launch \/ LoadManifest \/ VerifyFile \/ Verified \/ VerificationCanceled \/ StartGated \/ CloseGated

-------------------------------------------------------------------------------
(* Properties.                                                             *)

Whole == damages = 0 /\ published # <<>>
Agree(b, m) == b.mode = m.mode /\ b.platform = m.platform /\ matchesEcoIdentity(m.identity, b) /\ b.assets = m.assets

\* Assembly and verification agree.  Of two assemblies into one directory the first
\* is kept (AssembleComplete never replaces an artifact); a package nobody touched is
\* accepted by the executable it was built for, and the root that
\* VerifiedComponentRoot names holds every file of the component; the bundled process
\* runs only when the manifest names all four components, with their entry points,
\* and each of their files had its declared content when it was read; a start is
\* degraded only by a package that lacks something it should have; a complete
\* package that was assembled against pins holds the local RAG whose health answers
\* and API contract the consumer was tested with.
PackagesAreSound ==
    /\ Whole => artifact = published
    /\ Whole /\ launch.pc \notin {"off", "canceled"} /\ launch.build.embedded /\ Agree(launch.build, artifact[1].manifest.value) =>
         /\ launch.pc \notin {"refused", "degraded"}
         /\ launch.pc = "up" /\ launch.build.mode = "complete" =>
              \A k \in Kinds : \A h \in ToSet(launch.hashed) :
                 h.component = k => VerifiedComponentRoot(k) = <<h.path.dir>>
    /\ launch.pc \in {"up", "degraded"} /\ launch.running /\ launch.build.mode # "development" =>
         /\ {h.component : h \in ToSet(launch.hashed)} = Kinds
         /\ \A f \in Declared(launch.manifest) : \E h \in ToSet(launch.hashed) : h.path = f.path /\ h.content = f.content
         /\ \A k \in Programs : Entrypoint(k) # {}
         /\ Cardinality({h.path : h \in ToSet(launch.hashed)}) = Len(launch.hashed)
    /\ launch.pc = "degraded" =>
         LET m == artifact[1].manifest.value IN
         \/ {c.kind : c \in ToSet(m.components)} # Kinds
         \/ \E c \in ToSet(m.components) : c.entry # <<>> /\ \A f \in ToSet(c.files) : f.path # c.entry[1]
         \/ \E f \in Declared(m) : At(artifact[1].files, f.path) # [type |-> "regular", content |-> f.content]
    /\ \A a \in Assemblers : assemblers[a].pc = "done" /\ Asked(a).repository # <<>> =>
         LET r == Asked(a)
             repository == r.repository[1]
         IN /\ \A c \in ToSet(r.components) : c.kind = "local-rag" => repository.health.versions = {c.version}
            /\ "consumer-contract" \in DOMAIN repository.parts =>
                 \A i \in DOMAIN repository.pins[1].fixtures :
                    "consumer-contract" \in DOMAIN repository.fixtures[repository.pins[1].fixtures[i].id].files =>
                        repository.parts["consumer-contract"].openapi = repository.openapi.content
=============================================================================
