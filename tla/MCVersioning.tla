----------------------------- MODULE MCVersioning -----------------------------
(***************************************************************************)
(* The versions of a project: a behaviour follows either the release saga, *)
(* which moves the active release, or the working set, whose writers make  *)
(* the revisions a release names.                                          *)
(***************************************************************************)
EXTENDS ReleaseSaga, FiniteSetsExt, TLC

CONSTANTS Writers,               \* concurrent requests on the working set
          Ids, Kind, RefKind, Keys, Opened, Patches, DecisionKeys, NoPatch, ListKind, PageSize,
          RetryLimit, Refs, Loads

VARIABLES work, revs, releases, client, patch, decision, reader, load,
          scene                  \* what the behaviour follows

catalogVars == <<work, revs, releases, client, patch, decision, reader, load>>

(* A project opened with two entities of one kind, the second referring to *)
(* the first; a third identity is free.                                    *)
OpenedEntity(k, r) == [ver |-> 1, status |-> "active", key |-> k, ref |-> r]

Load(k, n, r) == {[kinds |-> k, clients |-> C, revisions |-> r] : C \in kSubset(n, Writers)}

(* Two racing writers; a writer against AI decisions; writers against      *)
(* checkpoints and restores; a writer under a traversal.                   *)
MCLoads ==
    Load({"create"}, 2, 3) \cup Load({"create", "patch"}, 1, 3)
      \cup Load({"release"}, 2, 3) \cup Load({"create", "checkpoint", "release"}, 1, 4)
      \cup Load({"create", "list"}, 1, 4)

MCOpened == (1 :> OpenedEntity(1, 0)) @@ (2 :> OpenedEntity(2, 1))
MCKind == [e \in Ids |-> "skill"]

W == INSTANCE WorkingSet WITH Clients <- Writers
ASSUME CatalogAssumption == W!WorkingSetAssumption

(* The release saga rests before its first command; the working set of a   *)
(* behaviour that follows the saga is empty.                               *)
CatalogRests ==
    /\ work = <<>> /\ revs = <<>> /\ releases = {} /\ client = [c \in Writers |-> W!Idle]
    /\ patch = <<>> /\ decision = <<>> /\ reader = [phase |-> "idle"] /\ load = <<>>

VersioningInit ==
    /\ Init
    /\ \/ scene = "workingset" /\ W!Init
       \/ scene = "release" /\ CatalogRests

VersioningNext ==
    /\ \/ scene = "workingset" /\ W!Next /\ UNCHANGED vars
       \/ scene = "release" /\ Next /\ UNCHANGED catalogVars
    /\ UNCHANGED scene

VersioningSpec == VersioningInit /\ [][VersioningNext]_<<vars, catalogVars, scene>>

VersioningSymmetry == Permutations(Writers)

-------------------------------------------------------------------------------
(* The rows, the newest revision and the LOCAL reports of the working set  *)
(* agree, and a traversal under concurrent writes misses and repeats       *)
(* nothing (saveTx, Delete, writeRevision, List).                          *)
CatalogIsSound == scene = "workingset" => W!CatalogIsSound

(* An accepted patch and a restored release make exactly the revision they *)
(* name (acceptDraftPatchLocked, RestoreRelease).                          *)
RevisionsExact == scene = "workingset" => W!RevisionsExact

(* A PATCH never overwrites what its client has not seen (Store.Patch).    *)
UnseenIsKept == W!UnseenIsKept
=============================================================================
