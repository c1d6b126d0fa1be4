--------------------------- MODULE SnapshotCache ---------------------------
(***************************************************************************)
(* The copies of snapshot files in the local cache.  They are trusted when *)
(* read, so a copy must never differ from the file in the storage, while   *)
(* backups fail between writing one and the other, revision numbers are    *)
(* used again after a failure, commands load and clean concurrently and    *)
(* prune deletes revisions elsewhere.  A version stands for a content: no  *)
(* two backups write the same snapshot file.                               *)
(***************************************************************************)
EXTENDS Naturals

CONSTANTS
  MaxRevision, MaxVersion,  \* bounds on revisions and on backups
  Exclusive                 \* prune -exclusive may delete the latest revision

ASSUME SnapshotCacheAssumption == MaxRevision \in Nat /\ MaxVersion \in Nat /\ Exclusive \in BOOLEAN

VARIABLES
  stored, cached,  \* the version of each revision in the storage and in the cache, 0 for none
  version,         \* versions made so far
  saving,          \* the backup that ends: <<>>, or its revision, version and step
  loading,         \* a command that has downloaded a file: <<>>, or revision and version
  listing,         \* the revisions prune on this computer knows of
  collected,       \* a fossil collection of this computer is pending
  faulty, own      \* fixed: what may fail, and whether this computer makes the backups

snapshotVars == <<stored, cached, version, saving, loading, listing, collected, faulty, own>>

Revision == 1..MaxRevision
Latest == IF \A r \in Revision : stored[r] = 0 THEN 0
          ELSE CHOOSE r \in Revision : stored[r] /= 0 /\ \A s \in Revision : s > r => stored[s] = 0

SnapshotsInit ==
  /\ stored = [r \in Revision |-> 0] /\ cached = [r \in Revision |-> 0]
  /\ version = 0 /\ saving = <<>> /\ loading = <<>> /\ listing = {} /\ collected = FALSE
  /\ faulty \in {"cache", "storage"} /\ own \in BOOLEAN

(* Mutant: as for chunks, an entry that exists is left as it is. *)
CacheCopyKept(r, v) == cached' = [cached EXCEPT ![r] = IF @ = 0 THEN v ELSE @]

(* The snapshot file is written over what the cache has. *)
CacheCopy(r, v) == cached' = [cached EXCEPT ![r] = v]

(* UploadFile: first the copy.  A failure to write it is a warning. *)
SaveCopy ==
  /\ own /\ saving = <<>> /\ version < MaxVersion /\ Latest < MaxRevision
  /\ version' = version + 1
  /\ saving' = [revision |-> Latest + 1, version |-> version + 1, step |-> "upload"]
  /\ CacheCopy(Latest + 1, version + 1) \/ (faulty = "cache" /\ UNCHANGED cached)
  /\ UNCHANGED <<stored, loading, listing, collected, faulty, own>>

(* Then the file. *)
SaveFile ==
  /\ saving /= <<>> /\ saving.step = "upload"
  /\ stored' = [stored EXCEPT ![saving.revision] = saving.version]
  /\ saving' = [saving EXCEPT !.step = "clean"]
  /\ UNCHANGED <<cached, version, loading, listing, collected, faulty, own>>

(* The upload fails, or the backup is killed before it; the next one will  *)
(* find the same latest revision.                                          *)
SaveFails ==
  /\ saving /= <<>> /\ saving.step = "upload" /\ faulty = "storage"
  /\ saving' = <<>>
  /\ UNCHANGED <<stored, cached, version, loading, listing, collected, faulty, own>>

(* CleanSnapshotCache at the end of a backup keeps the latest snapshot     *)
(* only, and everything while a collection is pending.                     *)
CleanAfterBackup ==
  /\ saving /= <<>> /\ saving.step = "clean"
  /\ saving' = <<>>
  /\ cached' = [r \in Revision |-> IF collected \/ r = saving.revision THEN cached[r] ELSE 0]
  /\ UNCHANGED <<stored, version, loading, listing, collected, faulty, own>>

(* A backup made on another computer. *)
SaveElsewhere ==
  /\ ~own /\ version < MaxVersion /\ Latest < MaxRevision
  /\ version' = version + 1
  /\ stored' = [stored EXCEPT ![Latest + 1] = version + 1]
  /\ UNCHANGED <<cached, saving, loading, listing, collected, faulty, own>>

(* downloadFile of a listed revision that is not cached, as far as the     *)
(* storage goes; one that is cached is taken from there.                   *)
Load(r) ==
  /\ loading = <<>> /\ stored[r] /= 0 /\ cached[r] = 0
  /\ loading' = [revision |-> r, version |-> stored[r]]
  /\ UNCHANGED <<stored, cached, version, saving, listing, collected, faulty, own>>

LoadedCopy ==
  /\ loading /= <<>>
  /\ loading' = <<>>
  /\ CacheCopy(loading.revision, loading.version) \/ (faulty = "cache" /\ UNCHANGED cached)
  /\ UNCHANGED <<stored, version, saving, listing, collected, faulty, own>>

(* Prune, here or elsewhere, deletes a revision; here its copy goes too,   *)
(* unless that fails, which is a warning.                                  *)
Delete(r) ==
  /\ stored[r] /= 0 /\ (r /= Latest \/ Exclusive)
  /\ stored' = [stored EXCEPT ![r] = 0]
  /\ cached' \in {cached, [cached EXCEPT ![r] = 0]}
  /\ UNCHANGED <<version, saving, loading, listing, collected, faulty, own>>

PruneLists ==
  /\ listing' = {r \in Revision : stored[r] /= 0}
  /\ UNCHANGED <<stored, cached, version, saving, loading, collected, faulty, own>>

(* Prune here ends: what it did not list is removed, and what lacks chunks *)
(* of its own; a collection may be pending from now on, or no more.        *)
CleanAfterPrune ==
  /\ \E kept \in SUBSET listing : cached' = [r \in Revision |-> IF r \in kept THEN cached[r] ELSE 0]
  /\ collected' \in BOOLEAN
  /\ listing' = {}
  /\ UNCHANGED <<stored, version, saving, loading, faulty, own>>

SnapshotsNext ==
  \/ SaveCopy \/ SaveFile \/ SaveFails \/ CleanAfterBackup \/ SaveElsewhere
  \/ \E r \in Revision : Load(r) \/ Delete(r)
  \/ LoadedCopy \/ PruneLists \/ CleanAfterPrune

SnapshotsSpec == SnapshotsInit /\ [][SnapshotsNext]_snapshotVars

-----------------------------------------------------------------------------
(* A revision in the cache is the one in the storage, whatever failed      *)
(* between writing the two: every command takes the cached one without     *)
(* looking, and prune would take the chunks of another version for used.   *)
CachedIsCurrent == \A r \in Revision : stored[r] /= 0 /\ cached[r] /= 0 => cached[r] = stored[r]

=============================================================================
