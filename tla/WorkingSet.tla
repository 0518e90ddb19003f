----------------------------- MODULE WorkingSet -----------------------------
(***************************************************************************)
(* The working entities of a project, their immutable revisions, and the   *)
(* clients that change them: entity writes under If-Match, checkpoints,    *)
(* forward restore of a release, decisions on AI draft patches and paged   *)
(* reading.  Every write is one transaction under Store.writes; what a     *)
(* writer read before it took the lock is state of its own here.           *)
(* Sources: internal/storage/sqlite/{store,local_validation,checkpoint,    *)
(* restore_release,ai_decisions}.go, internal/domain, internal/httpapi.    *)
(***************************************************************************)
EXTENDS Naturals, Sequences, FiniteSets

CONSTANTS
    Ids,          \* entity identities, numbers in UUIDv7 order
    Kind,         \* the kind of each entity, never changed
    RefKind,      \* the kind the reference field of an entity expects
    Keys,         \* entity keys, numbers in collation order
    Opened,       \* the working entities of the opened project file
    Clients,      \* concurrent HTTP requests
    Patches,      \* AI draft patches
    DecisionKeys, \* idempotency keys of decisions
    NoPatch,      \* a draft patch that is not sealed yet
    ListKind,     \* the kind a reader lists
    PageSize,     \* the limit of a page
    RetryLimit,   \* localPreflightRetryLimit
    Refs,         \* the references writes choose from
    Loads         \* what arrives in a behaviour: its requests, how many of them at
                  \* once, and a bound on the revisions they write

VARIABLES
    work,         \* working_entities
    revs,         \* config_revisions, with manifest, source and LOCAL report
    releases,     \* the revisions that have a release
    client,       \* what each request holds
    patch,        \* ai_draft_patches, with the outcome of their Job
    decision,     \* ai_patch_decisions
    reader,       \* one traversal of the catalog
    load          \* the behaviour's load

vars == <<work, revs, releases, client, patch, decision, reader, load>>

-----------------------------------------------------------------------------
(* Entities and LOCAL validation *)

NoRef == 0

Entity == [ver: Nat \ {0}, status: {"active", "archived"}, key: Keys,
           ref: Ids \cup {NoRef}]

Active(W) == {e \in DOMAIN W : W[e].status = "active"}

NewEntity(k, r) == [ver |-> 1, status |-> "active", key |-> k, ref |-> r]

(* The drafts a patch of one field can make of an entity. *)
ApplyPatch(e) ==
    {[e EXCEPT !.key = k, !.ver = @ + 1] : k \in Keys}
      \cup {[e EXCEPT !.ref = r, !.ver = @ + 1] : r \in Refs}

(* The code reported for the reference of entity e, or none. *)
ReferenceCode(W, e) ==
    LET t == W[e].ref IN
    CASE t = NoRef -> "none"
      [] t # NoRef /\ t \notin DOMAIN W -> "REFERENCE_NOT_FOUND"
      [] t \in DOMAIN W /\ t \notin Active(W) -> "REFERENCE_TARGET_INACTIVE"
      [] t \in Active(W) /\ Kind[t] # RefKind -> "REFERENCE_KIND_MISMATCH"
      [] OTHER -> "none"

(* The BLOCK issues of the entities of S within W. *)
Issues(W, S) ==
    {<<e, ReferenceCode(W, e)>> : e \in {x \in S : ReferenceCode(W, x) # "none"}}

(* FULL analysis looks at every entity; a gate passes without any issue. *)
FullPasses(W) == Issues(W, DOMAIN W) = {}

(* A key is taken when another active entity of the kind has it. *)
KeyTaken(W, e, k) ==
    \E o \in Active(W) \ {e} : Kind[o] = Kind[e] /\ W[o].key = k

(* The catalog of a project: its rows, active keys unique by an index.     *)
Catalog(W) ==
    /\ DOMAIN W \subseteq Ids /\ IsFiniteSet(DOMAIN W) /\ W \in [DOMAIN W -> Entity]
    /\ \A e \in Active(W) : ~KeyTaken(W, e, W[e].key)

Patched == [base : Nat, id : Ids, rec : Entity, fit : {"acceptable", "unacceptable", "canceled"}]

WorkingSetAssumption ==
    /\ Ids \subseteq Nat \ {0} /\ Keys \subseteq Nat \ {0}
    /\ Catalog(Opened)
    /\ PageSize \in Nat \ {0} /\ RetryLimit \in Nat \ {0}
    /\ Refs \subseteq Ids \cup {NoRef}
    /\ NoPatch \notin Patched
    /\ Loads \subseteq [kinds : SUBSET {"create", "checkpoint", "release", "patch", "list"},
                        clients : SUBSET Clients, revisions : Nat]

ActiveKeyFree(e, rec) == rec.status = "active" => ~KeyTaken(work, e, rec.key)

-----------------------------------------------------------------------------
(* Writing *)

Latest == Len(revs)

Room == Latest < load.revisions

Put(W, e, rec) == [x \in DOMAIN W \cup {e} |-> IF x = e THEN rec ELSE W[x]]

(* An entity keeps its place in the catalog while its key and status stay. *)
Staying(W) ==
    {e \in reader.stay : e \in Active(W) /\ W[e].key = work[e].key}

(* One transaction: the working rows, the revision made of all of them, and *)
(* its LOCAL report on the entities of S.                                   *)
WriteRevision(W, S, src) ==
    /\ Room
    /\ work' = W
    /\ revs' = Append(revs, [man |-> W, src |-> src, issues |-> Issues(W, S)])
    /\ reader' = [reader EXCEPT !.stay = Staying(W)]

Idle == [phase |-> "idle", id |-> 0, seen |-> NewEntity(0, NoRef), head |-> 0,
         draft |-> NewEntity(0, NoRef), op |-> "none", pre |-> <<>>, tries |-> 0]

PatchDecision(kind, k, r) == [kind |-> kind, key |-> k, rev |-> r]

Init ==
    /\ work = Opened
    /\ revs = <<[man |-> Opened, src |-> 0, issues |-> Issues(Opened, DOMAIN Opened)]>>
    /\ releases = {}
    /\ client = [c \in Clients |-> Idle]
    /\ patch = [p \in Patches |-> NoPatch]
    /\ decision = [p \in Patches |-> PatchDecision("none", "none", 0)]
    /\ reader = [phase |-> "idle", key |-> 0, id |-> 0, got |-> [e \in Ids |-> 0], stay |-> {}]
    /\ load \in Loads

-----------------------------------------------------------------------------
(* Entity requests *)

(* GET: the ETag of the answer is the entity version. *)
Get(c) ==
    /\ client[c].phase = "idle"
    /\ \E e \in DOMAIN work :
         client' = [client EXCEPT ![c] =
                      [Idle EXCEPT !.id = e, !.seen = work[e], !.head = Latest]]
    /\ UNCHANGED <<work, revs, releases, patch, decision, reader>>

(* NewID never repeats an identity it has handed out. *)
NewID(e) ==
    /\ \A n \in 1 .. Latest : e \notin DOMAIN revs[n].man
    /\ \A c \in Clients : client[c].id # e

(* POST: the entity is composed and validated before the write lock. *)
CreateBegin(c) ==
    /\ "create" \in load.kinds
    /\ client[c].phase = "idle"
    /\ \E e \in Ids, k \in Keys, r \in Refs :
         /\ NewID(e)
         /\ client' = [client EXCEPT ![c] =
                         [Idle EXCEPT !.phase = "draft", !.op = "create", !.id = e,
                                      !.draft = NewEntity(k, r)]]
    /\ UNCHANGED <<work, revs, releases, patch, decision, reader>>

(* The version an If-Match names is the one the row has. *)
Matches(c) ==
    /\ client[c].id \in DOMAIN work
    /\ work[client[c].id].ver = client[c].seen.ver

(* PATCH with If-Match: composed from the row read outside the lock. *)
PatchBegin(c) ==
    /\ client[c].phase = "idle" /\ client[c].id # 0
    /\ Matches(c)
    /\ \E d \in ApplyPatch(work[client[c].id]) :
         client' = [client EXCEPT ![c].phase = "draft", ![c].op = "patch",
                                  ![c].draft = d]
    /\ UNCHANGED <<work, revs, releases, patch, decision, reader>>

(* LOCAL checks ahead of the lock, and the manifest they were made on. *)
Preflight(c) ==
    /\ client[c].phase = "draft"
    /\ client' = [client EXCEPT ![c].phase = "checked", ![c].pre = work]
    /\ UNCHANGED <<work, revs, releases, patch, decision, reader>>

(* The manifest, and with it every dependency, is the one checked. *)
RecheckPreflight(c) == work = client[c].pre

VersionHolds(c) == client[c].op = "patch" => Matches(c)

(* Mutant: the transaction trusts the version compared before the lock. *)
VersionTrusted(c) == TRUE

(* Inside the lock the version is compared again. *)
VersionRecheck(c) == VersionHolds(c)

(* Mutant: the key is only checked when the entity is created. *)
KeyOfCreate(c) ==
    client[c].op = "create" => ActiveKeyFree(client[c].id, client[c].draft)

RecheckActiveKey(c) == ActiveKeyFree(client[c].id, client[c].draft)

Commit(c) ==
    /\ client[c].phase = "checked"
    /\ VersionRecheck(c) /\ RecheckPreflight(c) /\ RecheckActiveKey(c)
    /\ WriteRevision(Put(work, client[c].id, client[c].draft), {client[c].id}, 0)
    /\ client' = [client EXCEPT ![c] = Idle]
    /\ UNCHANGED <<releases, patch, decision>>

(* The manifest moved: the checks are made again, the draft is kept. *)
Retry(c) ==
    /\ client[c].phase = "checked"
    /\ VersionRecheck(c) /\ ~RecheckPreflight(c)
    /\ client[c].tries + 1 < RetryLimit
    /\ client' = [client EXCEPT ![c].phase = "draft", ![c].tries = @ + 1, ![c].pre = <<>>]
    /\ UNCHANGED <<work, revs, releases, patch, decision, reader>>

(* A conflict, a duplicate key or one retry too many ends the request. *)
Reject(c) ==
    /\ client[c].phase = "checked"
    /\ \/ ~VersionRecheck(c)
       \/ ~RecheckPreflight(c) /\ client[c].tries + 1 >= RetryLimit
       \/ RecheckPreflight(c) /\ ~RecheckActiveKey(c)
    /\ client' = [client EXCEPT ![c] = Idle]
    /\ UNCHANGED <<work, revs, releases, patch, decision, reader>>

(* The daily backup of the day is missing: the write is not admitted. *)
AdmitBusinessWriteRefused(c) ==
    /\ client[c].phase = "draft" /\ client[c].tries = 0
    /\ client' = [client EXCEPT ![c] = Idle]
    /\ UNCHANGED <<work, revs, releases, patch, decision, reader>>

Unreferenced(e) == \A o \in Active(work) : work[o].ref # e

(* DELETE with If-Match archives an entity no active entity refers to. *)
Delete(c) ==
    /\ client[c].phase = "idle" /\ client[c].id # 0
    /\ Matches(c) /\ Unreferenced(client[c].id)
    /\ LET e == client[c].id
           gone == [work[e] EXCEPT !.status = "archived", !.ver = @ + 1]
       IN WriteRevision(Put(work, e, gone), {e}, 0)
    /\ client' = [client EXCEPT ![c] = Idle]
    /\ UNCHANGED <<releases, patch, decision>>

-----------------------------------------------------------------------------
(* Revisions *)

(* The client names the newest revision it knows. *)
KnowsHead(c) == client[c].phase = "idle" /\ client[c].head = Latest

CreateCheckpoint(c) ==
    /\ "checkpoint" \in load.kinds
    /\ KnowsHead(c)
    /\ WriteRevision(work, DOMAIN work, 0)
    /\ client' = [client EXCEPT ![c] = Idle]
    /\ UNCHANGED <<releases, patch, decision>>

(* A release is made of a revision whose FULL validation passed; one is   *)
(* followed.                                                              *)
Release ==
    /\ "release" \in load.kinds
    /\ releases = {}
    /\ \E n \in 1 .. Latest : FullPasses(revs[n].man) /\ releases' = {n}
    /\ UNCHANGED <<work, revs, client, patch, decision, reader>>

(* Every working row is replaced by the rows of the release's revision,     *)
(* their entity versions included.                                          *)
ReplaceWorkingEntities(n) == revs[n].man

RestoreRelease(c) ==
    /\ KnowsHead(c)
    /\ \E n \in releases :
         WriteRevision(ReplaceWorkingEntities(n), DOMAIN ReplaceWorkingEntities(n), n)
    /\ client' = [client EXCEPT ![c] = Idle]
    /\ UNCHANGED <<releases, patch, decision>>

-----------------------------------------------------------------------------
(* Draft patches *)

(* An AI Job read the head and seals a patch of one of its entities. *)
SealPatch(p) ==
    /\ "patch" \in load.kinds
    /\ patch[p] = NoPatch
    /\ \E e \in Active(work), fit \in {"acceptable", "unacceptable", "canceled"} :
         \E d \in ApplyPatch(work[e]) :
           patch' = [patch EXCEPT ![p] = [base |-> Latest, id |-> e, rec |-> d, fit |-> fit]]
    /\ UNCHANGED <<work, revs, releases, client, decision, reader>>

Undecided(p, k) ==
    /\ patch[p] # NoPatch
    /\ decision[p].kind = "none"
    /\ \A q \in Patches : decision[q].key # k

TargetFresh(p) ==
    /\ patch[p].id \in DOMAIN work
    /\ work[patch[p].id].ver = patch[p].rec.ver - 1

(* Mutant: a patch is fresh while its targets are. *)
TargetsFresh(p) == TargetFresh(p)

(* A patch is fresh on the head it was made for and on its targets. *)
RequireFresh(p) == patch[p].base = Latest /\ TargetFresh(p)

AcceptedEntities(p) == Put(work, patch[p].id, patch[p].rec)

AcceptDraftPatch(p) ==
    /\ \E k \in DecisionKeys :
         /\ Undecided(p, k)
         /\ patch[p].fit = "acceptable"
         /\ RequireFresh(p)
         /\ ActiveKeyFree(patch[p].id, patch[p].rec)
         /\ WriteRevision(AcceptedEntities(p), {patch[p].id}, 0)
         /\ decision' = [decision EXCEPT ![p] = PatchDecision("accepted", k, Latest + 1)]
    /\ UNCHANGED <<releases, client, patch>>

DiscardDraftPatch(p) ==
    /\ \E k \in DecisionKeys :
         /\ Undecided(p, k)
         /\ decision' = [decision EXCEPT ![p] = PatchDecision("discarded", k, 0)]
    /\ UNCHANGED <<work, revs, releases, client, patch, reader>>

-----------------------------------------------------------------------------
(* Reading the catalog page by page *)

Listed(W) == {e \in Active(W) : Kind[e] = ListKind}

Before(W, d, e) == W[d].key < W[e].key \/ (W[d].key = W[e].key /\ d < e)

After(e) ==
    work[e].key > reader.key \/ (work[e].key = reader.key /\ e > reader.id)

(* The rows after the cursor, and the next page of them in key order.      *)
Rows == {e \in Listed(work) : After(e)}
Rank(e) == Cardinality({d \in Rows : Before(work, d, e)})
Page == {e \in Rows : Rank(e) < PageSize}

ListBegin ==
    /\ "list" \in load.kinds
    /\ reader.phase = "idle"
    /\ reader' = [reader EXCEPT !.phase = "reading", !.stay = Listed(work)]
    /\ UNCHANGED <<work, revs, releases, client, patch, decision>>

(* The cursor is the last row of the page. *)
NextCursor == CHOOSE e \in Page : \A d \in Page \ {e} : Before(work, d, e)

(* reader.got counts how often each row was returned. *)
ListPage ==
    /\ reader.phase = "reading"
    /\ LET more == Page # Rows
       IN reader' = [reader EXCEPT
            !.phase = IF more THEN "reading" ELSE "done",
            !.key = IF more THEN work[NextCursor].key ELSE @,
            !.id = IF more THEN NextCursor ELSE @,
            !.got = [e \in Ids |-> IF e \in Page THEN @[e] + 1 ELSE @[e]]]
    /\ UNCHANGED <<work, revs, releases, client, patch, decision>>

-----------------------------------------------------------------------------
Request(c) ==
    \/ Get(c) \/ CreateBegin(c) \/ PatchBegin(c) \/ Preflight(c) \/ Commit(c)
    \/ Retry(c) \/ Reject(c) \/ AdmitBusinessWriteRefused(c) \/ Delete(c)
    \/ CreateCheckpoint(c) \/ RestoreRelease(c)

Decide(p) == SealPatch(p) \/ AcceptDraftPatch(p) \/ DiscardDraftPatch(p)

Next ==
    /\ \/ \E c \in load.clients : Request(c)
       \/ \E p \in Patches : Decide(p)
       \/ Release \/ ListBegin \/ ListPage
    /\ UNCHANGED load

Spec == Init /\ [][Next]_vars

-----------------------------------------------------------------------------
(* Every row, draft and manifest is an entity map. *)
TypeOK ==
    /\ DOMAIN work \subseteq Ids /\ \A e \in DOMAIN work : work[e] \in Entity
    /\ Latest \in 1 .. load.revisions /\ releases \subseteq 1 .. Latest
    /\ \A c \in Clients : client[c].phase \in {"idle", "draft", "checked"}
    /\ reader.phase \in {"idle", "reading", "done"}

(* The newest revision is the working set, keys of active entities are      *)
(* unique within their kind however writers interleave, and a reference an  *)
(* active entity holds to a missing or archived target was reported by a    *)
(* LOCAL run on exactly that entity version: Delete refuses to make one     *)
(* dangle afterwards (saveTx, recheckActiveKeyTx, Delete, writeRevision).   *)
(* Since versions start over with a restore, a PATCH that was composed      *)
(* before one passes its version check after it and may archive its entity. *)
HeadIsWorking == revs[Latest].man = work

ActiveKeysUnique == \A e \in Active(work) : ~KeyTaken(work, e, work[e].key)

LastRestore(n) == revs[n].src # 0 /\ \A m \in n + 1 .. Latest : revs[m].src = 0

RewrittenSinceRestore(t) ==
    \E n \in 1 .. Latest :
      /\ LastRestore(n)
      /\ t \in DOMAIN revs[n].man \cap DOMAIN work
      /\ work[t].ver > revs[n].man[t].ver

Reported(e) ==
    \E n \in 1 .. Latest :
      /\ e \in DOMAIN revs[n].man /\ revs[n].man[e] = work[e]
      /\ \E i \in revs[n].issues : i[1] = e

DanglingIsReported ==
    \A e \in Active(work) :
      work[e].ref # NoRef /\ work[e].ref \notin Active(work) =>
        Reported(e) \/ RewrittenSinceRestore(work[e].ref)

WorkingSetSound == HeadIsWorking /\ ActiveKeysUnique /\ DanglingIsReported

(* An accepted patch is the revision right after its base and changes its   *)
(* target only; a restored revision is its release again, without issues    *)
(* (acceptDraftPatchLocked, RestoreRelease).                                *)
AcceptedOnBase ==
    \A p \in Patches :
      decision[p].kind = "accepted" =>
        /\ decision[p].rev = patch[p].base + 1
        /\ revs[decision[p].rev].man =
             Put(revs[patch[p].base].man, patch[p].id, patch[p].rec)

RestoredIsRelease ==
    \A n \in 1 .. Latest :
      revs[n].src # 0 => revs[n].man = revs[revs[n].src].man /\ revs[n].issues = {}

RevisionsExact == AcceptedOnBase /\ RestoredIsRelease

(* A PATCH never overwrites a representation its client has not seen,       *)
(* unless a release was restored since the client read it (Store.Patch).    *)
RestoredSince(c) == \E n \in client[c].head + 1 .. Latest : revs[n].src # 0

UnseenIsKept ==
    [][\A c \in Clients :
         client[c].op = "patch" /\ client[c].phase = "checked" /\ work' # work
           /\ client'[c] = Idle
           => work[client[c].id] = client[c].seen \/ RestoredSince(c)]_vars

(* A finished traversal returned every entity whose key and status stayed   *)
(* the same all along exactly once, whatever was written meanwhile          *)
(* (Store.List: the stable cursor contract of a changing catalog).          *)
CursorIsStable ==
    reader.phase = "done" =>
      \A e \in reader.stay : reader.got[e] = 1

(* What readers and writers of the catalog rely on: the rows, the newest    *)
(* revision and the LOCAL reports agree (WorkingSetSound), and a traversal  *)
(* under concurrent writes misses and repeats nothing (CursorIsStable).     *)
CatalogIsSound == WorkingSetSound /\ CursorIsStable
=============================================================================
