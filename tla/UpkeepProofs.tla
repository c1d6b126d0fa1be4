---------------------------- MODULE UpkeepProofs ----------------------------
(***************************************************************************)
(* Proofs about what keeps a storage usable: SnapshotCache for any number   *)
(* of revisions and of backups, ChunkReads for any chunks, readers and      *)
(* damage to the files, SnapshotDeletion for any number of workers and of   *)
(* files and any order in which the workers finish, fail and panic.        *)
(***************************************************************************)
EXTENDS ChunkReads, SnapshotCache, SnapshotDeletion, WellFoundedInduction, FiniteSetTheorems, TLAPS

-----------------------------------------------------------------------------
(* The latest revision. *)

(* Latest, of any contents of the storage. *)
LatestOf(f) == IF \A r \in Revision : f[r] = 0 THEN 0
               ELSE CHOOSE r \in Revision : f[r] /= 0 /\ \A s \in Revision : s > r => f[s] = 0

IsLatestOf(f, n) ==
  /\ n \in 0..MaxRevision
  /\ n /= 0 => f[n] /= 0
  /\ \A s \in Revision : s > n => f[s] = 0

(* If there are revisions one of them is the latest: their numbers are     *)
(* bounded.                                                                *)
LEMMA LatestExists ==
  ASSUME NEW f, NEW q \in Revision, f[q] /= 0
  PROVE  \E r \in Revision : f[r] /= 0 /\ \A s \in Revision : s > r => f[s] = 0
  <1> USE SnapshotCacheAssumption
  <1> DEFINE U == {MaxRevision - r : r \in {s \in Revision : f[s] /= 0}}
  <1>1. U \subseteq Nat /\ U /= {}
    BY DEF Revision
  <1>2. PICK u \in U : \A v \in U : ~(<<v, u>> \in OpToRel(<, Nat))
    BY <1>1, NatLessThanWellFounded, WFMin
  <1>3. PICK r \in Revision : f[r] /= 0 /\ u = MaxRevision - r
    OBVIOUS
  <1>4. ASSUME NEW s \in Revision, s > r PROVE f[s] = 0
    <2> SUFFICES ASSUME f[s] /= 0 PROVE FALSE
      OBVIOUS
    <2>1. MaxRevision - s \in U /\ MaxRevision - s < u
      BY <1>3, <1>4 DEF Revision
    <2> QED
      BY <1>1, <1>2, <2>1 DEF OpToRel
  <1> QED
    BY <1>3, <1>4

(* LatestOf picks it. *)
LEMMA LatestIs ==
  ASSUME NEW f
  PROVE  IsLatestOf(f, LatestOf(f))
  <1> USE SnapshotCacheAssumption
  <1>1. CASE \A r \in Revision : f[r] = 0
    BY <1>1 DEF LatestOf, IsLatestOf
  <1>2. CASE \E r \in Revision : f[r] /= 0
    <2>1. LatestOf(f) = CHOOSE r \in Revision : f[r] /= 0 /\ \A s \in Revision : s > r => f[s] = 0
      BY <1>2 DEF LatestOf
    <2>2. \E r \in Revision : f[r] /= 0 /\ \A s \in Revision : s > r => f[s] = 0
      BY <1>2, LatestExists
    <2>3. /\ LatestOf(f) \in Revision /\ f[LatestOf(f)] /= 0
          /\ \A s \in Revision : s > LatestOf(f) => f[s] = 0
      BY <2>1, <2>2
    <2> QED
      BY <2>3 DEF IsLatestOf, Revision
  <1> QED
    BY <1>1, <1>2

(* There is only one. *)
LEMMA LatestUnique ==
  ASSUME NEW f, NEW n, IsLatestOf(f, n)
  PROVE  LatestOf(f) = n
  <1>1. IsLatestOf(f, LatestOf(f))
    BY LatestIs
  <1> DEFINE m == LatestOf(f)
  <1> HIDE DEF m
  <1>2. IsLatestOf(f, m)
    BY <1>1 DEF m
  <1>3. m = n
    BY <1>2, SnapshotCacheAssumption DEF IsLatestOf, Revision
  <1> QED
    BY <1>3 DEF m

-----------------------------------------------------------------------------
(* The inductive invariant of SnapshotCache. *)

SavingUpload == saving /= <<>> /\ saving.step = "upload"

SnapshotsType ==
  /\ stored \in [Revision -> Nat] /\ cached \in [Revision -> Nat]
  /\ version \in Nat
  /\ faulty \in {"cache", "storage"} /\ own \in BOOLEAN

(* A backup that is about to upload made the copy, or failed to, for the   *)
(* number after the latest, which nobody else takes.                       *)
SavingIsNext ==
  SavingUpload =>
    /\ own
    /\ saving.revision \in Revision /\ saving.revision = Latest + 1
    /\ saving.version \in Nat \ {0}
    /\ cached[saving.revision] \in {0, saving.version}

(* A revision that was downloaded is at most the latest, and its file has  *)
(* not changed since, though it may be gone.                               *)
LoadingIsOld ==
  loading /= <<>> =>
    /\ loading.revision \in Revision /\ loading.revision <= Latest
    /\ loading.version \in Nat \ {0}
    /\ stored[loading.revision] \in {0, loading.version}

(* Beyond the latest revision the cache has a copy only while its backup   *)
(* is uploading, or if a backup on this computer can fail to upload: then  *)
(* the next one will write over it for certain.                            *)
NoCopyAhead ==
  ~own \/ faulty = "cache" =>
    \A r \in Revision : r > Latest /\ cached[r] /= 0 => SavingUpload /\ r = saving.revision

SnapshotsInv == SnapshotsType /\ SavingIsNext /\ LoadingIsOld /\ NoCopyAhead /\ CachedIsCurrent

-----------------------------------------------------------------------------
(* The steps of SnapshotCache. *)

(* The latest revision before and after a step. *)
LEMMA LatestFacts == IsLatestOf(stored, Latest) /\ Latest' = LatestOf(stored')
  <1>1. Latest = LatestOf(stored)
    BY DEF Latest, LatestOf
  <1>2. Latest' = LatestOf(stored')
    BY DEF Latest, LatestOf
  <1> QED
    BY <1>1, <1>2, LatestIs

(* At the beginning both are empty. *)
LEMMA InitSnapshotsInv == SnapshotsInit => SnapshotsInv
  <1> SUFFICES ASSUME SnapshotsInit PROVE SnapshotsInv
    OBVIOUS
  <1>1. SnapshotsType
    BY DEF SnapshotsInit, SnapshotsType
  <1>2. SavingIsNext /\ LoadingIsOld /\ NoCopyAhead /\ CachedIsCurrent
    BY DEF SnapshotsInit, SavingIsNext, SavingUpload, LoadingIsOld, NoCopyAhead, CachedIsCurrent
  <1> QED
    BY <1>1, <1>2 DEF SnapshotsInv

(* Only SaveFails leaves a copy ahead, so a backup whose copy fails finds  *)
(* none there.                                                             *)
LEMMA SaveCopyInv == SnapshotsInv /\ SaveCopy => SnapshotsInv'
  <1> SUFFICES ASSUME SnapshotsInv, SaveCopy PROVE SnapshotsInv'
    OBVIOUS
  <1> USE SnapshotCacheAssumption DEF SnapshotsInv, SnapshotsType
  <1>1. /\ own /\ saving = <<>> /\ UNCHANGED <<stored, loading, listing, collected, faulty, own>>
        /\ version' = version + 1
        /\ saving' = [revision |-> Latest + 1, version |-> version + 1, step |-> "upload"]
    BY DEF SaveCopy
  <1>2. Latest' = Latest /\ Latest \in Nat /\ Latest + 1 \in Revision
    <2>1. Latest' = Latest
      BY <1>1 DEF Latest
    <2>2. Latest \in 0..MaxRevision
      BY LatestFacts DEF IsLatestOf
    <2> QED
      BY <2>1, <2>2 DEF SaveCopy, Revision
  <1>3. \/ cached' = [cached EXCEPT ![Latest + 1] = version + 1]
        \/ faulty = "cache" /\ cached' = cached
    BY DEF SaveCopy, CacheCopy
  <1>4. SnapshotsType'
    BY <1>1, <1>2, <1>3
  <1>5. \A r \in Revision : r /= Latest + 1 => cached'[r] = cached[r]
    BY <1>2, <1>3
  <1>6. cached'[Latest + 1] \in {0, version + 1}
    <2>1. faulty = "cache" => cached[Latest + 1] = 0
      BY <1>1, <1>2 DEF NoCopyAhead, SavingUpload
    <2> QED
      BY <1>2, <1>3, <2>1
  <1>7. SavingIsNext'
    BY <1>1, <1>2, <1>6 DEF SavingIsNext, SavingUpload
  <1>8. LoadingIsOld'
    BY <1>1, <1>2 DEF LoadingIsOld
  <1>9. NoCopyAhead'
    <2> SUFFICES ASSUME ~own \/ faulty = "cache", NEW r \in Revision, r > Latest, cached'[r] /= 0
                 PROVE  r = Latest + 1 /\ saving' /= <<>>
      BY <1>1, <1>2 DEF NoCopyAhead, SavingUpload
    <2>1. r = Latest + 1
      BY <1>1, <1>5 DEF NoCopyAhead, SavingUpload
    <2>2. saving'.step = "upload"
      BY <1>1
    <2> QED
      BY <1>1, <2>1
  <1>10. CachedIsCurrent'
    <2> SUFFICES ASSUME NEW r \in Revision, stored[r] /= 0, cached'[r] /= 0
                 PROVE  cached'[r] = stored[r]
      BY <1>1 DEF CachedIsCurrent
    <2>1. r /= Latest + 1
      BY <1>2, LatestFacts DEF IsLatestOf, Revision
    <2> QED
      BY <1>5, <2>1 DEF CachedIsCurrent
  <1> QED
    BY <1>4, <1>7, <1>8, <1>9, <1>10

(* The file stored is the one the copy was made of. *)
LEMMA SaveFileInv == SnapshotsInv /\ SaveFile => SnapshotsInv'
  <1> SUFFICES ASSUME SnapshotsInv, SaveFile PROVE SnapshotsInv'
    OBVIOUS
  <1> USE SnapshotCacheAssumption DEF SnapshotsInv, SnapshotsType
  <1> DEFINE n == saving.revision
             v == saving.version
  <1>1. /\ SavingUpload /\ UNCHANGED <<cached, version, loading, listing, collected, faulty, own>>
        /\ stored' = [stored EXCEPT ![n] = v]
    BY DEF SaveFile, SavingUpload
  <1>2. ~SavingUpload'
    BY DEF SaveFile, SavingUpload
  <1>3. /\ own /\ n \in Revision /\ n = Latest + 1 /\ v \in Nat \ {0}
        /\ cached[n] \in {0, v} /\ Latest \in Nat
    BY <1>1, LatestFacts DEF SavingIsNext, IsLatestOf
  <1> HIDE DEF n, v
  <1>4. Latest' = n
    <2>1. IsLatestOf(stored', n)
      BY <1>1, <1>3, LatestFacts DEF IsLatestOf, Revision
    <2> QED
      BY <2>1, LatestFacts, LatestUnique
  <1>5. SnapshotsType'
    BY <1>1, <1>3
  <1>6. LoadingIsOld'
    BY <1>1, <1>3, <1>4 DEF LoadingIsOld, Revision
  <1>7. NoCopyAhead'
    <2> SUFFICES ASSUME ~own \/ faulty = "cache", NEW r \in Revision, r > n, cached[r] /= 0
                 PROVE  FALSE
      BY <1>1, <1>4 DEF NoCopyAhead
    <2> QED
      BY <1>1, <1>3 DEF NoCopyAhead, Revision, n
  <1>8. CachedIsCurrent'
    BY <1>1, <1>3 DEF CachedIsCurrent
  <1> QED
    BY <1>2, <1>5, <1>6, <1>7, <1>8 DEF SavingIsNext

(* A failure to store the file leaves a copy ahead, which counts on the    *)
(* next copy not to fail.                                                  *)
LEMMA SaveFailsInv == SnapshotsInv /\ SaveFails => SnapshotsInv'
  <1> SUFFICES ASSUME SnapshotsInv, SaveFails PROVE SnapshotsInv'
    OBVIOUS
  <1>1. SavingUpload /\ saving' = <<>> /\ faulty = "storage"
        /\ UNCHANGED <<stored, cached, version, loading, listing, collected, faulty, own>>
    BY DEF SaveFails, SavingUpload
  <1>2. own
    BY <1>1 DEF SnapshotsInv, SavingIsNext
  <1>3. Latest' = Latest
    BY <1>1 DEF Latest, Revision
  <1> QED
    BY <1>1, <1>2, <1>3 DEF SnapshotsInv, SnapshotsType, SavingIsNext, SavingUpload, LoadingIsOld,
                            NoCopyAhead, CachedIsCurrent

(* Cleaning only removes copies, and the backup has stored its file. *)
LEMMA CleanAfterBackupInv == SnapshotsInv /\ CleanAfterBackup => SnapshotsInv'
  <1> SUFFICES ASSUME SnapshotsInv, CleanAfterBackup PROVE SnapshotsInv'
    OBVIOUS
  <1>1. ~SavingUpload /\ saving' = <<>> /\ UNCHANGED <<stored, version, loading, listing, collected, faulty, own>>
    BY DEF CleanAfterBackup, SavingUpload
  <1>2. cached' \in [Revision -> Nat] /\ \A r \in Revision : cached'[r] \in {0, cached[r]}
    BY DEF CleanAfterBackup, SnapshotsInv, SnapshotsType
  <1>3. Latest' = Latest
    BY <1>1 DEF Latest, Revision
  <1> QED
    BY <1>1, <1>2, <1>3 DEF SnapshotsInv, SnapshotsType, SavingIsNext, SavingUpload, LoadingIsOld,
                            NoCopyAhead, CachedIsCurrent

(* A backup elsewhere stores a revision this computer has no copy of. *)
LEMMA SaveElsewhereInv == SnapshotsInv /\ SaveElsewhere => SnapshotsInv'
  <1> SUFFICES ASSUME SnapshotsInv, SaveElsewhere PROVE SnapshotsInv'
    OBVIOUS
  <1> USE SnapshotCacheAssumption DEF SnapshotsInv, SnapshotsType
  <1> DEFINE n == Latest + 1
             v == version + 1
  <1>1. /\ ~own /\ UNCHANGED <<cached, saving, loading, listing, collected, faulty, own>>
        /\ version' = v /\ stored' = [stored EXCEPT ![n] = v]
    BY DEF SaveElsewhere
  <1>2. ~SavingUpload
    BY <1>1 DEF SavingIsNext
  <1>3. /\ n \in Revision /\ n = Latest + 1 /\ v \in Nat \ {0} /\ Latest \in Nat
    BY LatestFacts DEF SaveElsewhere, IsLatestOf, Revision
  <1> HIDE DEF n, v
  <1>4. Latest' = n
    <2>1. IsLatestOf(stored', n)
      BY <1>1, <1>3, LatestFacts DEF IsLatestOf, Revision
    <2> QED
      BY <2>1, LatestFacts, LatestUnique
  <1>5. SnapshotsType'
    BY <1>1, <1>3
  <1>6. LoadingIsOld'
    <2>1. loading /= <<>> => loading.revision \in Revision /\ loading.revision < n
      BY <1>3 DEF LoadingIsOld, Revision
    <2>2. loading /= <<>> => stored'[loading.revision] = stored[loading.revision]
      BY <1>1, <1>3, <2>1 DEF Revision
    <2>3. loading /= <<>> => loading.revision <= n
      BY <1>3, <2>1 DEF Revision
    <2> QED
      BY <1>1, <1>4, <2>1, <2>2, <2>3 DEF LoadingIsOld
  <1>7. \A r \in Revision : r > Latest => cached[r] = 0
    BY <1>1, <1>2 DEF NoCopyAhead
  <1>8. NoCopyAhead'
    BY <1>1, <1>3, <1>4, <1>7 DEF NoCopyAhead, Revision
  <1>9. CachedIsCurrent'
    BY <1>1, <1>3, <1>7 DEF CachedIsCurrent, Revision
  <1>10. SavingIsNext'
    BY <1>1, <1>2 DEF SavingIsNext, SavingUpload
  <1> QED
    BY <1>5, <1>6, <1>8, <1>9, <1>10

(* What is downloaded is what is stored. *)
LEMMA LoadInv == \A r \in Revision : SnapshotsInv /\ Load(r) => SnapshotsInv'
  <1> SUFFICES ASSUME NEW r \in Revision, SnapshotsInv, Load(r) PROVE SnapshotsInv'
    OBVIOUS
  <1>1. /\ stored[r] /= 0 /\ UNCHANGED <<stored, cached, version, saving, listing, collected, faulty, own>>
        /\ loading' = [revision |-> r, version |-> stored[r]]
    BY DEF Load
  <1>2. Latest' = Latest
    BY <1>1 DEF Latest, Revision
  <1>3. r <= Latest
    BY <1>1, LatestFacts, SnapshotCacheAssumption DEF IsLatestOf, Revision
  <1>4. LoadingIsOld'
    BY <1>1, <1>2, <1>3 DEF LoadingIsOld, SnapshotsInv, SnapshotsType
  <1> QED
    BY <1>1, <1>2, <1>4 DEF SnapshotsInv, SnapshotsType, SavingIsNext, SavingUpload, NoCopyAhead, CachedIsCurrent

(* The copy of a revision that is gone by now is one nobody will ask for:  *)
(* its number is at most the latest.                                       *)
LEMMA LoadedCopyInv == SnapshotsInv /\ LoadedCopy => SnapshotsInv'
  <1> SUFFICES ASSUME SnapshotsInv, LoadedCopy PROVE SnapshotsInv'
    OBVIOUS
  <1> USE SnapshotCacheAssumption DEF SnapshotsInv, SnapshotsType
  <1> DEFINE n == loading.revision
             v == loading.version
  <1>1. /\ loading /= <<>> /\ loading' = <<>> /\ UNCHANGED <<stored, version, saving, listing, collected, faulty, own>>
        /\ cached' = [cached EXCEPT ![n] = v] \/ cached' = cached
    BY DEF LoadedCopy, CacheCopy
  <1>2. n \in Revision /\ n <= Latest /\ v \in Nat \ {0} /\ stored[n] \in {0, v}
    BY <1>1 DEF LoadingIsOld
  <1> HIDE DEF n, v
  <1>3. Latest' = Latest /\ Latest \in Nat
    BY <1>1, LatestFacts DEF Latest, Revision, IsLatestOf
  <1>4. SnapshotsType'
    BY <1>1, <1>2
  <1>5. \A r \in Revision : r > Latest => cached'[r] = cached[r]
    BY <1>1, <1>2, <1>3 DEF Revision
  <1>6. SavingIsNext'
    BY <1>1, <1>3, <1>5 DEF SavingIsNext, SavingUpload
  <1>7. LoadingIsOld'
    BY <1>1 DEF LoadingIsOld
  <1>8. NoCopyAhead'
    BY <1>1, <1>3, <1>5 DEF NoCopyAhead, SavingUpload
  <1>9. CachedIsCurrent'
    BY <1>1, <1>2 DEF CachedIsCurrent
  <1> QED
    BY <1>4, <1>6, <1>7, <1>8, <1>9

(* Deleting a revision leaves the latest one, unless prune is exclusive. *)
LEMMA DeleteInv ==
  ASSUME ~Exclusive
  PROVE  \A r \in Revision : SnapshotsInv /\ Delete(r) => SnapshotsInv'
  <1> SUFFICES ASSUME NEW r \in Revision, SnapshotsInv, Delete(r) PROVE SnapshotsInv'
    OBVIOUS
  <1> USE SnapshotCacheAssumption DEF SnapshotsInv, SnapshotsType
  <1>1. /\ stored[r] /= 0 /\ r /= Latest /\ UNCHANGED <<version, saving, loading, listing, collected, faulty, own>>
        /\ stored' = [stored EXCEPT ![r] = 0]
        /\ cached' = cached \/ cached' = [cached EXCEPT ![r] = 0]
    BY DEF Delete
  <1>2. Latest' = Latest
    <2>1. IsLatestOf(stored', Latest)
      BY <1>1, LatestFacts DEF IsLatestOf, Revision
    <2> QED
      BY <2>1, LatestFacts, LatestUnique
  <1>3. SnapshotsType'
    BY <1>1
  <1>4. \A s \in Revision : cached'[s] \in {0, cached[s]} /\ stored'[s] \in {0, stored[s]}
    BY <1>1
  <1>5. SavingIsNext'
    BY <1>1, <1>2, <1>4 DEF SavingIsNext, SavingUpload
  <1>6. LoadingIsOld'
    BY <1>1, <1>2, <1>4 DEF LoadingIsOld
  <1>7. NoCopyAhead'
    BY <1>1, <1>2, <1>4 DEF NoCopyAhead, SavingUpload
  <1>8. CachedIsCurrent'
    BY <1>4 DEF CachedIsCurrent
  <1> QED
    BY <1>3, <1>5, <1>6, <1>7, <1>8

(* Prune here lists revisions and removes copies. *)
LEMMA PruneInv == SnapshotsInv /\ (PruneLists \/ CleanAfterPrune \/ UNCHANGED snapshotVars) => SnapshotsInv'
  <1> SUFFICES ASSUME SnapshotsInv, PruneLists \/ CleanAfterPrune \/ UNCHANGED snapshotVars PROVE SnapshotsInv'
    OBVIOUS
  <1>1. UNCHANGED <<stored, version, saving, loading, faulty, own>>
    BY DEF PruneLists, CleanAfterPrune, snapshotVars
  <1>2. cached' \in [Revision -> Nat] /\ \A r \in Revision : cached'[r] \in {0, cached[r]}
    BY DEF PruneLists, CleanAfterPrune, snapshotVars, SnapshotsInv, SnapshotsType
  <1>3. Latest' = Latest
    BY <1>1 DEF Latest, Revision
  <1> QED
    BY <1>1, <1>2, <1>3 DEF SnapshotsInv, SnapshotsType, SavingIsNext, SavingUpload, LoadingIsOld,
                            NoCopyAhead, CachedIsCurrent

(* A copy of a snapshot file in the cache never differs from the file,     *)
(* whatever of the two writes fails, as long as no exclusive prune takes   *)
(* the latest revision away, whose number would be used again.             *)
THEOREM CachedAlwaysCurrent ==
  ASSUME ~Exclusive
  PROVE  SnapshotsSpec => []CachedIsCurrent
  <1>1. SnapshotsInv /\ [SnapshotsNext]_snapshotVars => SnapshotsInv'
    BY SaveCopyInv, SaveFileInv, SaveFailsInv, CleanAfterBackupInv, SaveElsewhereInv, LoadInv, LoadedCopyInv,
       DeleteInv, PruneInv DEF SnapshotsNext
  <1>2. SnapshotsInv => CachedIsCurrent
    BY DEF SnapshotsInv
  <1> QED
    BY InitSnapshotsInv, <1>1, <1>2, PTL DEF SnapshotsSpec

-----------------------------------------------------------------------------
(* Erasure coding: what Decrypt accepts. *)

(* A file has a content that Decrypt returns if and only if enough of it   *)
(* is intact: looking at the shards in order, and stopping when there are  *)
(* as many as data shards, never misses one that is needed.                *)
THEOREM DecryptIsRecoverable == \A f \in File : Decrypt(f) <=> Recoverable(f)
  <1> SUFFICES ASSUME NEW f \in File PROVE Decrypt(f) <=> Recoverable(f)
    OBVIOUS
  <1> USE ShardsAssumption
  <1>1. /\ Recoverable(f) <=> f.header /\ f.length > 2 * DataShards /\ Cardinality(Matched(f)) >= DataShards
        /\ Matched(f) \subseteq Shards /\ MinimumLength = 2 * DataShards
    <2>1. Matched(f) = {i \in Shards : 2 * i <= f.length /\ (f.shard[i] = "good" \/ (Arm64 /\ f.shard[i] = "old"))}
      BY DEF Matched, Complete
    <2>2. Matched(f) \subseteq Shards /\ MinimumLength = 2 * DataShards
      BY <2>1 DEF MinimumLength
    <2> QED
      BY <2>1, <2>2 DEF Recoverable
  <1>2. IsFiniteSet(Shards)
    BY FS_Interval DEF Shards
  <1>3. IsFiniteSet(Matched(f)) /\ Cardinality(Matched(f)) \in Nat
    BY <1>1, <1>2, FS_Subset, FS_CardinalityType
  <1>4. ASSUME f.length > 2 * DataShards, NEW i \in 1..DataShards
        PROVE  i \in Visited(f)
    <2>1. i \in Complete(f)
      BY <1>4 DEF Complete, Shards, File
    <2> DEFINE before == {j \in Matched(f) : j < i}
    <2>2. before \in SUBSET (1..(i - 1)) /\ IsFiniteSet(1..(i - 1)) /\ Cardinality(1..(i - 1)) = i - 1
      <3>1. before \subseteq 1..(i - 1)
        BY <1>1 DEF Shards
      <3>2. IsFiniteSet(1..(i - 1)) /\ Cardinality(1..(i - 1)) = IF 1 > i - 1 THEN 0 ELSE (i - 1) - 1 + 1
        BY FS_Interval
      <3> QED
        BY <3>1, <3>2
    <2>3. Cardinality(before) <= i - 1 /\ Cardinality(before) \in Nat
      BY <2>2, FS_Subset, FS_CardinalityType
    <2>4. Cardinality(before) < DataShards
      BY <2>3
    <2> QED
      BY <2>1, <2>4 DEF Visited
  <1>5. CASE RecoveryNeeded(f)
    BY <1>1, <1>5 DEF Decrypt
  <1>6. CASE ~RecoveryNeeded(f)
    <2>1. ASSUME Recoverable(f) PROVE Decrypt(f)
      BY <1>1, <1>4, <1>6, <2>1 DEF Decrypt, RecoveryNeeded
    <2>2. ASSUME Decrypt(f) PROVE Recoverable(f)
      <3>1. 1..DataShards \in SUBSET Matched(f)
        BY <1>6, <2>2 DEF Decrypt
      <3>2. Cardinality(1..DataShards) = DataShards
        <4>1. Cardinality(1..DataShards) = IF 1 > DataShards THEN 0 ELSE DataShards - 1 + 1
          BY FS_Interval
        <4> QED
          BY <4>1
      <3>3. Cardinality(1..DataShards) <= Cardinality(Matched(f))
        BY <1>3, <3>1, FS_Subset
      <3> QED
        BY <1>1, <1>3, <2>2, <3>2, <3>3 DEF Decrypt
    <2> QED
      BY <2>1, <2>2
  <1> QED
    BY <1>5, <1>6

(* A file that was just uploaded can be recovered, no file cannot. *)
LEMMA FileFacts ==
  /\ Encrypt \in File /\ NoFile \in File
  /\ Recoverable(Encrypt) /\ ~Recoverable(NoFile) /\ Encrypt /= NoFile
  <1> USE ShardsAssumption
  <1>1. Encrypt \in File /\ NoFile \in File
    BY DEF Encrypt, NoFile, File, ExpectedLength
  <1>2. ~Recoverable(NoFile) /\ Encrypt /= NoFile
    BY DEF Recoverable, NoFile, Encrypt
  <1>3. Recoverable(Encrypt)
    <2>1. {i \in Shards : 2 * i <= Encrypt.length /\ (Encrypt.shard[i] = "good" \/ (Arm64 /\ Encrypt.shard[i] = "old"))}
            = Shards
      BY DEF Encrypt, ExpectedLength, Shards
    <2>2. Cardinality(Shards) = DataShards + ParityShards
      <3>1. Cardinality(Shards) = IF 1 > DataShards + ParityShards THEN 0 ELSE DataShards + ParityShards - 1 + 1
        BY FS_Interval DEF Shards
      <3> QED
        BY <3>1
    <2>3. Encrypt.header /\ Encrypt.length > 2 * DataShards
      BY DEF Encrypt, ExpectedLength
    <2> QED
      BY <2>1, <2>2, <2>3 DEF Recoverable
  <1> QED
    BY <1>1, <1>2, <1>3

-----------------------------------------------------------------------------
(* The inductive invariant of ChunkReads. *)

ReaderState ==
  [pc : {"idle", "cache", "find", "fossil", "download", "move", "upload", "save"},
   chunk : Chunk \union {IdleReader.chunk}, attempt : Nat, path : {"chunk", "fossil"},
   rewriteChunks : BOOLEAN, buffer : {"empty", "part"}, excused : BOOLEAN,
   result : {"none", "right", "broken"}]

ReadsType ==
  /\ chunkFile \in [Chunk -> File] /\ fossilFile \in [Chunk -> File]
  /\ cache \in [Chunk -> {"none", "unsynced", "whole", "torn"}]
  /\ reader \in [Reader -> ReaderState]
  /\ resurrect \in [Chunk -> {"none", "exists", "absent"}]
  /\ given \in Givens

(* The file at the path a reader has found. *)
FoundFile(x, chunks, fossils) == IF x.path = "chunk" THEN chunks[x.chunk] ELSE fossils[x.chunk]

ServedFile(x, chunks, fossils) == IF chunks[x.chunk] /= NoFile THEN chunks[x.chunk] ELSE fossils[x.chunk]

(* A download is denied a file, or gets wrong bytes, in fewer attempts     *)
(* than it makes.                                                          *)
FewFaults == MaxFaults <= MaxDownloadAttempts

(* What a reader that has no excuse can count on.  A fossil that is not    *)
(* good was found because the storage denied the chunk, which it will not  *)
(* do in every attempt.                                                    *)
Readable(x, chunks, fossils, g) ==
  ~x.excused /\ x.pc \in {"cache", "find", "fossil", "download"} =>
    /\ Recoverable(ServedFile(x, chunks, fossils))
    /\ x.pc = "fossil" => \/ Recoverable(fossils[x.chunk])
                          \/ g.kind \in {"hubic", "webdav"} /\ x.attempt < MaxFaults
    /\ x.pc = "download" => /\ FoundFile(x, chunks, fossils) /= NoFile
                            /\ \/ Recoverable(FoundFile(x, chunks, fossils))
                               \/ x.attempt < MaxFaults

(* What holds of a reader.  Chunks are not rewritten while prune runs. *)
ReaderOK(x, chunks, fossils, g) ==
  /\ x \in ReaderState
  /\ x.pc /= "idle" => x.chunk \in Chunk
  /\ x.pc \in {"move", "upload"} => x.rewriteChunks
  /\ g.pruning => ~x.rewriteChunks
  /\ x.buffer = "empty"
  /\ FewFaults /\ x.result = "broken" => x.excused
  /\ Readable(x, chunks, fossils, g)

ReadersInv == \A r \in Reader : ReaderOK(reader[r], chunkFile, fossilFile, given)

(* Prune moves sound files only, and while its Resurrect task is half-way  *)
(* nobody takes away the fossil, or the chunk file it has seen.            *)
PruneInvariant ==
  \A c \in Chunk :
    /\ given.pruning => /\ chunkFile[c] = NoFile \/ Recoverable(chunkFile[c])
                        /\ fossilFile[c] = NoFile \/ Recoverable(fossilFile[c])
    /\ resurrect[c] /= "none" => given.pruning /\ fossilFile[c] /= NoFile
    /\ resurrect[c] = "exists" => chunkFile[c] /= NoFile

ReadsInv == ReadsType /\ ReadersInv /\ PruneInvariant

-----------------------------------------------------------------------------
(* What a step does to the readers. *)

(* A new upload of the chunk harms no reader. *)
LEMMA KeptOK ==
  ASSUME NEW x, NEW chunks, NEW fossils, NEW g, ReaderOK(x, chunks, fossils, g),
         NEW chunks2, NEW fossils2,
         x.pc /= "idle" => fossils2[x.chunk] = fossils[x.chunk] /\ chunks2[x.chunk] \in {chunks[x.chunk], Encrypt}
  PROVE  ReaderOK(x, chunks2, fossils2, g)
  <1>1. Readable(x, chunks2, fossils2, g)
    BY FileFacts DEF ReaderOK, Readable, ServedFile, FoundFile
  <1> QED
    BY <1>1 DEF ReaderOK

(* A reader that is excused counts on nothing. *)
LEMMA ExcusedOK ==
  ASSUME NEW x, NEW chunks, NEW fossils, NEW g, ReaderOK(x, chunks, fossils, g),
         NEW chunks2, NEW fossils2
  PROVE  ReaderOK([x EXCEPT !.excused = TRUE], chunks2, fossils2, g)
  <1> DEFINE y == [x EXCEPT !.excused = TRUE]
  <1>1. /\ y \in ReaderState /\ y.excused /\ y.pc = x.pc /\ y.chunk = x.chunk
        /\ y.rewriteChunks = x.rewriteChunks /\ y.result = x.result /\ y.buffer = x.buffer
    BY DEF ReaderOK, ReaderState
  <1> HIDE DEF y
  <1>2. ReaderOK(y, chunks2, fossils2, g)
    BY <1>1 DEF ReaderOK, Readable
  <1> QED
    BY <1>2 DEF y

(* A worker between two downloads. *)
LEMMA IdleOK ==
  ASSUME NEW result \in {"none", "right", "broken"}, NEW excused \in BOOLEAN,
         FewFaults /\ result = "broken" => excused,
         NEW chunks, NEW fossils, NEW g
  PROVE  ReaderOK([IdleReader EXCEPT !.result = result, !.excused = excused], chunks, fossils, g)
  <1> DEFINE y == [IdleReader EXCEPT !.result = result, !.excused = excused]
  <1>1. /\ y \in ReaderState /\ y.pc = "idle" /\ ~y.rewriteChunks
        /\ y.result = result /\ y.excused = excused /\ y.buffer = "empty"
    BY DEF IdleReader, ReaderState
  <1> HIDE DEF y
  <1>2. ReaderOK(y, chunks, fossils, g)
    BY <1>1 DEF ReaderOK, Readable
  <1> QED
    BY <1>2 DEF y

(* A step of one reader, by which a chunk file changes at most to a new    *)
(* upload.                                                                 *)
LEMMA OneReader ==
  ASSUME ReadsInv, NEW r \in Reader, NEW y, reader' = [reader EXCEPT ![r] = y],
         ReaderOK(y, chunkFile', fossilFile', given),
         UNCHANGED <<fossilFile, given>>, \A c \in Chunk : chunkFile'[c] \in {chunkFile[c], Encrypt}
  PROVE  ReadersInv' /\ reader' \in [Reader -> ReaderState]
  <1>1. y \in ReaderState
    BY DEF ReaderOK
  <1>2. reader' \in [Reader -> ReaderState]
    BY <1>1 DEF ReadsInv, ReadsType
  <1>3. ASSUME NEW s \in Reader PROVE ReaderOK(reader'[s], chunkFile', fossilFile', given')
    <2>1. CASE s = r
      BY <2>1 DEF ReadsInv, ReadsType
    <2>2. CASE s /= r
      <3>1. reader'[s] = reader[s] /\ ReaderOK(reader[s], chunkFile, fossilFile, given)
        BY <2>2 DEF ReadsInv, ReadsType, ReadersInv
      <3>2. reader[s].pc /= "idle" => reader[s].chunk \in Chunk
        BY <3>1 DEF ReaderOK
      <3> QED
        BY <3>1, <3>2, KeptOK
    <2> QED
      BY <2>1, <2>2
  <1> QED
    BY <1>2, <1>3 DEF ReadersInv

(* Such a step that changes no file and nothing of prune. *)
LEMMA OneReaderInv ==
  ASSUME ReadsInv, NEW r \in Reader, NEW y, reader' = [reader EXCEPT ![r] = y],
         ReaderOK(y, chunkFile, fossilFile, given),
         UNCHANGED <<fileVars, cache, resurrect, given>>
  PROVE  ReadsInv'
  <1>1. UNCHANGED <<chunkFile, fossilFile, cache, resurrect, given>>
    BY DEF fileVars
  <1>2. ReadersInv' /\ reader' \in [Reader -> ReaderState]
    BY <1>1, OneReader
  <1>3. PruneInvariant'
    BY <1>1 DEF ReadsInv, PruneInvariant
  <1> QED
    BY <1>1, <1>2, <1>3 DEF ReadsInv, ReadsType

(* A download that ends. *)
LEMMA CompletedOK ==
  ASSUME ReadsInv, NEW r \in Reader, NEW result \in {"right", "broken"},
         FewFaults /\ result = "broken" => reader[r].excused, NEW chunks, NEW fossils
  PROVE  \E y : /\ Completed(r, result) = [reader EXCEPT ![r] = y]
                /\ ReaderOK(y, chunks, fossils, given)
  <1> DEFINE e == result = "broken" /\ reader[r].excused
  <1>1. e \in BOOLEAN /\ (FewFaults /\ result = "broken" => e)
    OBVIOUS
  <1>2. Completed(r, result) = [reader EXCEPT ![r] = [IdleReader EXCEPT !.result = result, !.excused = e]]
    BY DEF Completed
  <1> HIDE DEF e
  <1>3. ReaderOK([IdleReader EXCEPT !.result = result, !.excused = e], chunks, fossils, given)
    BY <1>1, IdleOK
  <1> QED
    BY <1>2, <1>3

(* A buffer that is reset is as good as one that received nothing. *)
LEMMA ResetSame ==
  ASSUME NEW x \in ReaderState, x.buffer = "empty"
  PROVE  Reset(x) = x /\ Reset(Received(x)) = x
  BY DEF ReaderState, Reset, Received

(* The next attempt, which a reader without an excuse still has. *)
LEMMA RetryOrFailInv ==
  ASSUME ReadsInv, NEW r \in Reader, RetryOrFail(r, reader[r]) \/ DownloadAgain(r),
         reader[r].pc \in {"fossil", "download"},
         FewFaults => reader[r].excused \/ MayRetry(r),
         UNCHANGED <<fileVars, cache, resurrect, given>>
  PROVE  ReadsInv'
  <1>0. reader[r] \in ReaderState /\ ReaderOK(reader[r], chunkFile, fossilFile, given)
    BY DEF ReadsInv, ReadsType, ReadersInv
  <1>1. RetryOrFail(r, reader[r])
    BY <1>0, ResetSame DEF DownloadAgain, ReaderOK
  <1>2. CASE ~MayRetry(r)
    <2>1. reader' = Completed(r, "broken")
      BY <1>1, <1>2 DEF RetryOrFail
    <2>2. PICK y : Completed(r, "broken") = [reader EXCEPT ![r] = y] /\ ReaderOK(y, chunkFile, fossilFile, given)
      BY <1>2, CompletedOK
    <2> QED
      BY <2>1, <2>2, OneReaderInv
  <1>3. CASE MayRetry(r)
    <2> DEFINE x == reader[r]
               n == x.attempt + 1
               y == [x EXCEPT !.pc = "find", !.attempt = n]
    <2>2. reader' = [reader EXCEPT ![r] = y]
      BY <1>1, <1>3 DEF RetryOrFail
    <2>3. /\ y \in ReaderState /\ y.pc = "find" /\ y.chunk = x.chunk /\ y.excused = x.excused
          /\ y.rewriteChunks = x.rewriteChunks /\ y.result = x.result /\ y.buffer = x.buffer
      <3>1. n \in Nat /\ x \in ReaderState
        BY <1>0 DEF ReaderState
      <3> HIDE DEF n, x
      <3> QED
        BY <3>1 DEF ReaderState
    <2>4. ReaderOK(y, chunkFile, fossilFile, given)
      <3>1. x.pc \in {"fossil", "download"} /\ ReaderOK(x, chunkFile, fossilFile, given)
        BY <1>0
      <3> HIDE DEF x, y
      <3> QED
        BY <2>3, <3>1 DEF ReaderOK, Readable, ServedFile
    <2> HIDE DEF x, y
    <2> QED
      BY <2>2, <2>4, OneReaderInv
  <1> QED
    BY <1>2, <1>3

(* A download that has the content is saved in the cache, or ends. *)
LEMMA AfterReadOK ==
  ASSUME ReadsInv, NEW r \in Reader, reader[r].pc /= "idle", NEW chunks, NEW fossils
  PROVE  \E y : AfterRead(r) = [reader EXCEPT ![r] = y] /\ ReaderOK(y, chunks, fossils, given)
  <1>1. CASE reader[r].chunk \in given.metadata
    <2> DEFINE x == reader[r]
               y == [x EXCEPT !.pc = "save"]
    <2>1. x \in ReaderState /\ ReaderOK(x, chunkFile, fossilFile, given) /\ x.pc /= "idle"
      BY DEF ReadsInv, ReadsType, ReadersInv
    <2>2. AfterRead(r) = [reader EXCEPT ![r] = y]
      BY <1>1 DEF AfterRead, ReadsInv, ReadsType, ReaderState
    <2>3. /\ y \in ReaderState /\ y.pc = "save" /\ y.chunk = x.chunk /\ y.excused = x.excused
          /\ y.rewriteChunks = x.rewriteChunks /\ y.result = x.result /\ y.buffer = x.buffer
      BY <2>1 DEF ReaderState
    <2> HIDE DEF x, y
    <2>4. ReaderOK(y, chunks, fossils, given)
      BY <2>1, <2>3 DEF ReaderOK, Readable
    <2> QED
      BY <2>2, <2>4
  <1>2. CASE reader[r].chunk \notin given.metadata
    BY <1>2, CompletedOK DEF AfterRead
  <1> QED
    BY <1>1, <1>2

-----------------------------------------------------------------------------
(* The steps of ChunkReads. *)

(* At the beginning nobody reads, and prune runs over sound files only. *)
LEMMA InitReadsInv == ReadsInit => ReadsInv
  <1> SUFFICES ASSUME ReadsInit PROVE ReadsInv
    OBVIOUS
  <1> USE ReadsAssumption, FileFacts
  <1>1. PICK f \in [Chunk -> Damaged], F \in SUBSET Chunk :
          /\ given.pruning => \A c \in Chunk : Recoverable(f[c])
          /\ chunkFile = [c \in Chunk |-> IF c \in F THEN NoFile ELSE f[c]]
          /\ fossilFile = [c \in Chunk |-> IF c \in F THEN f[c] ELSE NoFile]
    BY DEF ReadsInit
  <1>2. IdleReader \in ReaderState /\ IdleReader.pc = "idle" /\ ~IdleReader.rewriteChunks /\ IdleReader.result = "none"
         /\ IdleReader.buffer = "empty"
    BY DEF IdleReader, ReaderState
  <1>3. ReadsType
    BY <1>1, <1>2 DEF ReadsInit, ReadsType
  <1>4. ReadersInv
    BY <1>2 DEF ReadsInit, ReadersInv, ReaderOK, Readable
  <1>5. PruneInvariant
    BY <1>1 DEF ReadsInit, PruneInvariant
  <1> QED
    BY <1>3, <1>4, <1>5 DEF ReadsInv

(* What a step of the reader r begins with. *)
LEMMA ReaderFacts ==
  ASSUME ReadsInv, NEW r \in Reader
  PROVE  /\ reader[r] \in ReaderState /\ ReaderOK(reader[r], chunkFile, fossilFile, given)
         /\ reader[r].pc /= "idle" => /\ reader[r].chunk \in Chunk
                                      /\ chunkFile[reader[r].chunk] \in File /\ fossilFile[reader[r].chunk] \in File
  BY DEF ReadsInv, ReadsType, ReadersInv, ReaderOK

(* A download starts with an excuse if the chunk cannot be recovered. *)
LEMMA StartInv ==
  ASSUME ReadsInv, NEW r \in Reader, NEW c \in Chunk, Start(r, c)
  PROVE  ReadsInv'
  <1>1. PICK rewrite \in BOOLEAN :
          /\ rewrite => ~given.pruning
          /\ reader' = [reader EXCEPT ![r] =
               [IdleReader EXCEPT !.pc = IF c \in given.metadata THEN "cache" ELSE "find", !.chunk = c,
                                  !.rewriteChunks = rewrite, !.excused = ~Recoverable(Served(c))]]
    BY DEF Start
  <1> DEFINE pc == IF c \in given.metadata THEN "cache" ELSE "find"
             e == ~Recoverable(Served(c))
             y == [IdleReader EXCEPT !.pc = pc, !.chunk = c, !.rewriteChunks = rewrite, !.excused = e]
  <1>2. pc \in {"cache", "find"} /\ e \in BOOLEAN
    OBVIOUS
  <1>3. /\ y \in ReaderState /\ y.pc = pc /\ y.chunk = c /\ y.rewriteChunks = rewrite
        /\ y.excused = e /\ y.result = "none" /\ y.buffer = "empty"
    <2> HIDE DEF pc, e
    <2> QED
      BY <1>2 DEF IdleReader, ReaderState
  <1>4. reader' = [reader EXCEPT ![r] = y]
    BY <1>1
  <1> HIDE DEF y
  <1>5. ReaderOK(y, chunkFile, fossilFile, given)
    BY <1>1, <1>2, <1>3 DEF ReaderOK, Readable, ServedFile, Served
  <1> QED
    BY <1>4, <1>5, OneReaderInv DEF Start

(* The entry of the cache is taken, or whatever was read of it dropped. *)
LEMMA ReadCacheInv ==
  ASSUME ReadsInv, NEW r \in Reader, ReadCache(r)
  PROVE  ReadsInv'
  <1>1. UNCHANGED <<fileVars, cache, resurrect, given>> /\ reader[r].pc = "cache"
    BY DEF ReadCache
  <1>2. CASE reader' = Completed(r, "right")
    <2>1. PICK y : Completed(r, "right") = [reader EXCEPT ![r] = y] /\ ReaderOK(y, chunkFile, fossilFile, given)
      BY CompletedOK
    <2> QED
      BY <1>1, <1>2, <2>1, OneReaderInv
  <1>3. CASE \E x \in {reader[r], Received(reader[r])} :
               reader' = [reader EXCEPT ![r] = [Reset(x) EXCEPT !.pc = "find"]]
    <2> DEFINE x == reader[r]
               y == [x EXCEPT !.pc = "find"]
    <2>1. x \in ReaderState /\ ReaderOK(x, chunkFile, fossilFile, given) /\ x.pc = "cache"
      BY <1>1, ReaderFacts
    <2>2. Reset(x) = x /\ Reset(Received(x)) = x
      BY <2>1, ResetSame DEF ReaderOK
    <2>3. reader' = [reader EXCEPT ![r] = y]
      BY <1>3, <2>2
    <2>4. /\ y \in ReaderState /\ y.pc = "find" /\ y.chunk = x.chunk /\ y.excused = x.excused
          /\ y.rewriteChunks = x.rewriteChunks /\ y.result = x.result /\ y.buffer = x.buffer
      BY <2>1 DEF ReaderState
    <2> HIDE DEF x, y
    <2>5. ReaderOK(y, chunkFile, fossilFile, given)
      BY <2>1, <2>4 DEF ReaderOK, Readable, ServedFile
    <2> QED
      BY <1>1, <2>3, <2>5, OneReaderInv
  <1> QED
    BY <1>2, <1>3 DEF ReadCache

(* The chunk file is found, or else the fossil is, unless the storage      *)
(* denied the chunk file.                                                  *)
LEMMA FindChunkInv ==
  ASSUME ReadsInv, NEW r \in Reader, FindChunk(r)
  PROVE  ReadsInv'
  <1> DEFINE x == reader[r]
  <1>1. UNCHANGED <<fileVars, cache, resurrect, given>> /\ reader[r].pc = "find"
    BY DEF FindChunk
  <1>2. x \in ReaderState /\ ReaderOK(x, chunkFile, fossilFile, given) /\ x.pc = "find"
    BY <1>1, ReaderFacts
  <1>3. CASE /\ chunkFile[reader[r].chunk] /= NoFile
             /\ reader' = [reader EXCEPT ![r].pc = "download", ![r].path = "chunk"]
    <2> DEFINE y == [x EXCEPT !.pc = "download", !.path = "chunk"]
    <2>1. reader' = [reader EXCEPT ![r] = y]
      BY <1>3 DEF ReadsInv, ReadsType, ReaderState
    <2>2. /\ y \in ReaderState /\ y.pc = "download" /\ y.path = "chunk" /\ y.chunk = x.chunk
          /\ y.excused = x.excused /\ y.rewriteChunks = x.rewriteChunks /\ y.result = x.result /\ y.buffer = x.buffer
      BY <1>2 DEF ReaderState
    <2>3. chunkFile[x.chunk] /= NoFile
      BY <1>3
    <2> HIDE DEF x, y
    <2>4. ReaderOK(y, chunkFile, fossilFile, given)
      BY <1>2, <2>2, <2>3 DEF ReaderOK, Readable, ServedFile, FoundFile
    <2> QED
      BY <1>1, <2>1, <2>4, OneReaderInv
  <1>4. CASE (chunkFile[reader[r].chunk] = NoFile \/ Denied(r)) /\ Goes(r, "fossil")
    <2> DEFINE y == [x EXCEPT !.pc = "fossil"]
    <2>1. reader' = [reader EXCEPT ![r] = y]
      BY <1>4 DEF Goes, ReadsInv, ReadsType, ReaderState
    <2>2. /\ y \in ReaderState /\ y.pc = "fossil" /\ y.chunk = x.chunk /\ y.attempt = x.attempt
          /\ y.excused = x.excused /\ y.rewriteChunks = x.rewriteChunks /\ y.result = x.result /\ y.buffer = x.buffer
      BY <1>2 DEF ReaderState
    <2>3. chunkFile[x.chunk] = NoFile \/ (given.kind \in {"hubic", "webdav"} /\ x.attempt < MaxFaults)
      BY <1>4 DEF Denied
    <2> HIDE DEF x, y
    <2>4. ReaderOK(y, chunkFile, fossilFile, given)
      BY <1>2, <2>2, <2>3 DEF ReaderOK, Readable, ServedFile
    <2> QED
      BY <1>1, <2>1, <2>4, OneReaderInv
  <1> QED
    BY <1>3, <1>4 DEF FindChunk

(* Without an excuse and without a fossil the chunk file was denied, and   *)
(* there is an attempt left.                                               *)
LEMMA FindFossilInv ==
  ASSUME ReadsInv, NEW r \in Reader, FindFossil(r)
  PROVE  ReadsInv'
  <1> DEFINE x == reader[r]
  <1>1. UNCHANGED <<fileVars, cache, resurrect, given>> /\ reader[r].pc = "fossil"
    BY DEF FindFossil
  <1>2. x \in ReaderState /\ ReaderOK(x, chunkFile, fossilFile, given) /\ x.pc = "fossil"
    BY <1>1, ReaderFacts
  <1>3. CASE /\ fossilFile[reader[r].chunk] /= NoFile
             /\ reader' = [reader EXCEPT ![r].pc = "download", ![r].path = "fossil"]
    <2> DEFINE y == [x EXCEPT !.pc = "download", !.path = "fossil"]
    <2>1. reader' = [reader EXCEPT ![r] = y]
      BY <1>3 DEF ReadsInv, ReadsType, ReaderState
    <2>2. /\ y \in ReaderState /\ y.pc = "download" /\ y.path = "fossil" /\ y.chunk = x.chunk /\ y.attempt = x.attempt
          /\ y.excused = x.excused /\ y.rewriteChunks = x.rewriteChunks /\ y.result = x.result /\ y.buffer = x.buffer
      BY <1>2 DEF ReaderState
    <2>3. fossilFile[x.chunk] /= NoFile
      BY <1>3
    <2> HIDE DEF x, y
    <2>4. ReaderOK(y, chunkFile, fossilFile, given)
      BY <1>2, <2>2, <2>3 DEF ReaderOK, Readable, ServedFile, FoundFile
    <2> QED
      BY <1>1, <2>1, <2>4, OneReaderInv
  <1>4. CASE /\ fossilFile[reader[r].chunk] = NoFile \/ Denied(r)
             /\ IF given.kind \in {"hubic", "webdav"} THEN RetryOrFail(r, reader[r]) ELSE reader' = Completed(r, "broken")
    <2>1. x.excused \/ (given.kind \in {"hubic", "webdav"} /\ x.attempt < MaxFaults)
      BY <1>2, <1>4, FileFacts DEF ReaderOK, Readable, Denied
    <2>2. CASE given.kind \in {"hubic", "webdav"}
      <3>1. FewFaults /\ x.attempt < MaxFaults => MayRetry(r)
        BY <1>2, ReadsAssumption DEF FewFaults, MayRetry, MaxDownloadAttempts, ReaderState
      <3> QED
        BY <1>1, <1>4, <2>1, <2>2, <3>1, RetryOrFailInv
    <2>3. CASE given.kind \notin {"hubic", "webdav"}
      <3>1. PICK y : Completed(r, "broken") = [reader EXCEPT ![r] = y] /\ ReaderOK(y, chunkFile, fossilFile, given)
        BY <2>1, <2>3, CompletedOK
      <3> QED
        BY <1>1, <1>4, <2>3, <3>1, OneReaderInv
    <2> QED
      BY <2>2, <2>3
  <1> QED
    BY <1>3, <1>4 DEF FindFossil

(* An error of the look-up is an excuse. *)
LEMMA FindFailsInv ==
  ASSUME ReadsInv, NEW r \in Reader, FindFails(r)
  PROVE  ReadsInv'
  <1>1. ReaderOK([IdleReader EXCEPT !.result = "broken", !.excused = TRUE], chunkFile, fossilFile, given)
    BY IdleOK
  <1> QED
    BY <1>1, OneReaderInv DEF FindFails, Refused

(* A file that can be recovered is decrypted; one that cannot was found    *)
(* after a denial, and there is an attempt left.                           *)
LEMMA DownloadInv ==
  ASSUME ReadsInv, NEW r \in Reader, Download(r)
  PROVE  ReadsInv'
  <1> DEFINE x == reader[r]
  <1>1. UNCHANGED <<fileVars, cache, resurrect, given>> /\ reader[r].pc = "download" /\ PathFile(r) /= NoFile
    BY DEF Download
  <1>2. x \in ReaderState /\ ReaderOK(x, chunkFile, fossilFile, given) /\ x.pc = "download"
    BY <1>1, ReaderFacts
  <1>3. PathFile(r) \in File /\ PathFile(r) = FoundFile(x, chunkFile, fossilFile)
    BY <1>1, ReaderFacts DEF PathFile, FoundFile
  <1>4. CASE ~Decrypt(PathFile(r)) /\ DownloadAgain(r)
    <2>1. ~Recoverable(PathFile(r))
      BY <1>3, <1>4, DecryptIsRecoverable
    <2>2. x.excused \/ x.attempt < MaxFaults
      BY <1>2, <1>3, <2>1 DEF ReaderOK, Readable
    <2>3. FewFaults /\ x.attempt < MaxFaults => MayRetry(r)
      BY <1>2, ReadsAssumption DEF FewFaults, MayRetry, MaxDownloadAttempts, ReaderState
    <2> QED
      BY <1>1, <1>4, <2>2, <2>3, RetryOrFailInv
  <1>5. CASE reader' = AfterRead(r)
    <2>1. PICK y : AfterRead(r) = [reader EXCEPT ![r] = y] /\ ReaderOK(y, chunkFile, fossilFile, given)
      BY <1>1, AfterReadOK
    <2> QED
      BY <1>1, <1>5, <2>1, OneReaderInv
  <1>6. CASE /\ reader[r].rewriteChunks
             /\ reader' = [reader EXCEPT ![r].pc = IF reader[r].path = "chunk" THEN "move" ELSE "upload"]
    <2> DEFINE pc == IF x.path = "chunk" THEN "move" ELSE "upload"
               y == [x EXCEPT !.pc = pc]
    <2>1. pc \in {"move", "upload"} /\ x.rewriteChunks
      BY <1>6
    <2>2. reader' = [reader EXCEPT ![r].pc = pc]
      BY <1>6
    <2> HIDE DEF pc
    <2>3. reader' = [reader EXCEPT ![r] = y]
      BY <2>2 DEF ReadsInv, ReadsType, ReaderState
    <2>4. /\ y \in ReaderState /\ y.pc = pc /\ y.chunk = x.chunk
          /\ y.excused = x.excused /\ y.rewriteChunks = x.rewriteChunks /\ y.result = x.result /\ y.buffer = x.buffer
      BY <1>2, <2>1 DEF ReaderState
    <2> HIDE DEF x, y
    <2>5. ReaderOK(y, chunkFile, fossilFile, given)
      BY <1>2, <2>1, <2>4 DEF ReaderOK, Readable
    <2> QED
      BY <1>1, <2>3, <2>5, OneReaderInv
  <1> QED
    <2>1. reader[r].buffer = "empty"
      BY <1>2 DEF ReaderOK
    <2> QED
      BY <1>4, <1>5, <1>6, <2>1 DEF Download

(* Wrong bytes and denials come in attempts that are not the last; a file  *)
(* that is gone was moved, and a request that fails otherwise is refused.  *)
LEMMA DownloadFaultInv ==
  ASSUME ReadsInv, NEW r \in Reader, DownloadTorn(r) \/ DownloadFails(r)
  PROVE  ReadsInv'
  <1> DEFINE x == reader[r]
  <1>1. UNCHANGED <<fileVars, cache, resurrect, given>> /\ reader[r].pc = "download"
    BY DEF DownloadTorn, DownloadFails
  <1>2. x \in ReaderState /\ ReaderOK(x, chunkFile, fossilFile, given) /\ x.pc = "download"
    BY <1>1, ReaderFacts
  <1>3. PathFile(r) = FoundFile(x, chunkFile, fossilFile)
    BY DEF PathFile, FoundFile
  <1>4. PathFile(r) = NoFile => x.excused
    BY <1>2, <1>3 DEF ReaderOK, Readable
  <1>5. CASE DownloadAgain(r) /\ (PathFile(r) = NoFile \/ x.attempt < MaxFaults)
    <2>1. FewFaults /\ x.attempt < MaxFaults => MayRetry(r)
      BY <1>2, ReadsAssumption DEF FewFaults, MayRetry, MaxDownloadAttempts, ReaderState
    <2> QED
      BY <1>1, <1>4, <1>5, <2>1, RetryOrFailInv
  <1>6. CASE reader' = Completed(r, "broken") /\ PathFile(r) = NoFile
    <2>1. PICK y : Completed(r, "broken") = [reader EXCEPT ![r] = y] /\ ReaderOK(y, chunkFile, fossilFile, given)
      BY <1>4, <1>6, CompletedOK
    <2> QED
      BY <1>1, <1>6, <2>1, OneReaderInv
  <1>7. CASE reader' = Refused(r)
    <2>1. ReaderOK([IdleReader EXCEPT !.result = "broken", !.excused = TRUE], chunkFile, fossilFile, given)
      BY IdleOK
    <2> QED
      BY <1>1, <1>7, <2>1, OneReaderInv DEF Refused
  <1> QED
    BY <1>5, <1>6, <1>7 DEF DownloadTorn, DownloadFails, Denied

(* Whoever reads a chunk whose files are moved is excused. *)
LEMMA ExcuseReaders ==
  ASSUME ReadsInv, NEW c \in Chunk, given' = given,
         \A d \in Chunk \ {c} : chunkFile'[d] = chunkFile[d] /\ fossilFile'[d] = fossilFile[d]
  PROVE  \A r \in Reader : ReaderOK(Excuse(reader, c)[r], chunkFile', fossilFile', given)
  <1> SUFFICES ASSUME NEW r \in Reader
               PROVE  ReaderOK(Excuse(reader, c)[r], chunkFile', fossilFile', given)
    OBVIOUS
  <1>1. ReaderOK(reader[r], chunkFile, fossilFile, given) /\ (reader[r].pc /= "idle" => reader[r].chunk \in Chunk)
    BY ReaderFacts
  <1>2. CASE reader[r].chunk = c /\ reader[r].pc /= "idle"
    <2>1. Excuse(reader, c)[r] = [reader[r] EXCEPT !.excused = TRUE]
      BY <1>2 DEF Excuse
    <2> QED
      BY <1>1, <2>1, ExcusedOK
  <1>3. CASE ~(reader[r].chunk = c /\ reader[r].pc /= "idle")
    <2>1. Excuse(reader, c)[r] = reader[r]
      BY <1>3 DEF Excuse
    <2> QED
      BY <1>1, <1>3, <2>1, KeptOK
  <1> QED
    BY <1>2, <1>3

(* A rewrite keeps the file it replaces as the fossil. *)
LEMMA RewriteMoveInv ==
  ASSUME ReadsInv, NEW r \in Reader, RewriteMove(r)
  PROVE  ReadsInv'
  <1> DEFINE x == reader[r]
             c == reader[r].chunk
  <1>1. UNCHANGED <<cache, resurrect, given>> /\ reader[r].pc = "move"
    BY DEF RewriteMove
  <1>2. x \in ReaderState /\ ReaderOK(x, chunkFile, fossilFile, given) /\ x.pc = "move" /\ c \in Chunk
    BY <1>1, ReaderFacts
  <1>3. x.rewriteChunks /\ ~given.pruning
    BY <1>2 DEF ReaderOK
  <1>4. CASE Goes(r, "upload") /\ UNCHANGED fileVars
    <2> DEFINE y == [x EXCEPT !.pc = "upload"]
    <2>1. reader' = [reader EXCEPT ![r] = y]
      BY <1>4 DEF Goes, ReadsInv, ReadsType, ReaderState
    <2>2. /\ y \in ReaderState /\ y.pc = "upload" /\ y.chunk = x.chunk
          /\ y.excused = x.excused /\ y.rewriteChunks = x.rewriteChunks /\ y.result = x.result /\ y.buffer = x.buffer
      BY <1>2 DEF ReaderState
    <2> HIDE DEF y
    <2>3. ReaderOK(y, chunkFile, fossilFile, given)
      BY <1>2, <1>3, <2>2 DEF ReaderOK, Readable
    <2> QED
      BY <1>1, <1>4, <2>1, <2>3, OneReaderInv
  <1>5. CASE /\ chunkFile[c] /= NoFile
             /\ fossilFile' = [fossilFile EXCEPT ![c] = chunkFile[c]]
             /\ chunkFile' = [chunkFile EXCEPT ![c] = NoFile]
             /\ reader' = [Excuse(reader, c) EXCEPT ![r].pc = "upload"]
    <2>1. /\ chunkFile' \in [Chunk -> File] /\ fossilFile' \in [Chunk -> File]
          /\ \A d \in Chunk \ {c} : chunkFile'[d] = chunkFile[d] /\ fossilFile'[d] = fossilFile[d]
      BY <1>2, <1>5, FileFacts DEF ReadsInv, ReadsType
    <2> DEFINE E == Excuse(reader, c)
               e == E[r]
               y == [e EXCEPT !.pc = "upload"]
    <2>2. \A s \in Reader : ReaderOK(E[s], chunkFile', fossilFile', given)
      BY <1>1, <1>2, <2>1, ExcuseReaders
    <2>3. DOMAIN E = Reader /\ E = [s \in Reader |-> E[s]]
      BY DEF Excuse
    <2>4. e \in ReaderState /\ e.rewriteChunks /\ e.chunk = c /\ e.excused
      BY <1>2, <1>3 DEF Excuse, ReaderState
    <2>5. ReaderOK(e, chunkFile', fossilFile', given)
      BY <2>2
    <2>6. reader' = [E EXCEPT ![r].pc = "upload"]
      BY <1>5
    <2> HIDE DEF c, x, E
    <2>7. reader' = [E EXCEPT ![r] = y]
      BY <2>3, <2>6
    <2> HIDE DEF e
    <2>8. y \in ReaderState /\ y.pc = "upload" /\ y.chunk = e.chunk /\ y.rewriteChunks = e.rewriteChunks
          /\ y.excused = e.excused /\ y.result = e.result /\ y.buffer = e.buffer
      BY <2>4 DEF ReaderState
    <2> HIDE DEF y
    <2>9. ReaderOK(y, chunkFile', fossilFile', given)
      BY <1>2, <1>3, <2>4, <2>5, <2>8 DEF ReaderOK, Readable
    <2>10. \A s \in Reader : E[s] \in ReaderState
      BY <2>2 DEF ReaderOK
    <2>11. reader' \in [Reader -> ReaderState]
      BY <2>3, <2>7, <2>8, <2>10
    <2>12. ReadersInv'
      <3> SUFFICES ASSUME NEW s \in Reader PROVE ReaderOK(reader'[s], chunkFile', fossilFile', given')
        BY DEF ReadersInv
      <3>1. CASE s = r
        BY <1>1, <2>3, <2>7, <2>9, <3>1
      <3>2. CASE s /= r
        BY <1>1, <2>2, <2>3, <2>7, <3>2
      <3> QED
        BY <3>1, <3>2
    <2>13. PruneInvariant'
      BY <1>1, <1>3 DEF ReadsInv, PruneInvariant
    <2> QED
      BY <1>1, <2>1, <2>11, <2>12, <2>13 DEF ReadsInv, ReadsType
  <1> QED
    BY <1>4, <1>5 DEF RewriteMove

(* A new upload, of a rewrite or of a backup, is sound. *)
LEMMA UploadFiles ==
  ASSUME ReadsInv, UNCHANGED <<fossilFile, cache, resurrect, given>>, NEW c \in Chunk,
         chunkFile' = [chunkFile EXCEPT ![c] = Encrypt] \/ chunkFile' = chunkFile
  PROVE  /\ chunkFile' \in [Chunk -> File] /\ PruneInvariant'
         /\ \A d \in Chunk : chunkFile'[d] \in {chunkFile[d], Encrypt}
  <1>1. chunkFile' \in [Chunk -> File] /\ \A d \in Chunk : chunkFile'[d] \in {chunkFile[d], Encrypt}
    BY FileFacts DEF ReadsInv, ReadsType
  <1>2. PruneInvariant'
    BY <1>1, FileFacts DEF ReadsInv, PruneInvariant
  <1> QED
    BY <1>1, <1>2

(* A rewrite ends with an upload, which may fail. *)
LEMMA RewriteUploadInv ==
  ASSUME ReadsInv, NEW r \in Reader, RewriteUpload(r)
  PROVE  ReadsInv'
  <1> DEFINE c == reader[r].chunk
  <1>1. UNCHANGED <<fossilFile, cache, resurrect, given>> /\ reader[r].pc = "upload" /\ reader' = AfterRead(r)
        /\ (chunkFile' = [chunkFile EXCEPT ![c] = Encrypt] \/ chunkFile' = chunkFile)
    BY DEF RewriteUpload
  <1>2. c \in Chunk
    BY <1>1, ReaderFacts
  <1> HIDE DEF c
  <1>3. /\ chunkFile' \in [Chunk -> File] /\ PruneInvariant'
        /\ \A d \in Chunk : chunkFile'[d] \in {chunkFile[d], Encrypt}
    BY <1>1, <1>2, UploadFiles
  <1>4. PICK y : AfterRead(r) = [reader EXCEPT ![r] = y] /\ ReaderOK(y, chunkFile', fossilFile', given)
    BY <1>1, AfterReadOK
  <1>5. ReadersInv' /\ reader' \in [Reader -> ReaderState]
    BY <1>1, <1>3, <1>4, OneReader
  <1> QED
    BY <1>1, <1>3, <1>5 DEF ReadsInv, ReadsType

(* A backup uploads a chunk that has no file. *)
LEMMA UploadToStorageInv ==
  ASSUME ReadsInv, NEW c \in Chunk, UploadToStorage(c)
  PROVE  ReadsInv'
  <1>1. UNCHANGED <<fossilFile, cache, reader, resurrect, given>>
        /\ chunkFile' = [chunkFile EXCEPT ![c] = Encrypt]
    BY DEF UploadToStorage
  <1>2. /\ chunkFile' \in [Chunk -> File] /\ PruneInvariant'
        /\ \A d \in Chunk : chunkFile'[d] \in {chunkFile[d], Encrypt}
    BY <1>1, UploadFiles
  <1>3. ReadersInv'
    <2> SUFFICES ASSUME NEW r \in Reader PROVE ReaderOK(reader[r], chunkFile', fossilFile', given)
      BY <1>1 DEF ReadersInv
    <2> QED
      BY <1>1, <1>2, ReaderFacts, KeptOK
  <1> QED
    BY <1>1, <1>2, <1>3 DEF ReadsInv, ReadsType

(* The cache is no part of what readers count on. *)
LEMMA CacheStepInv ==
  ASSUME ReadsInv, \/ \E r \in Reader : SaveToCache(r)
                   \/ \E c \in Chunk : UploadToCache(c) \/ EvictFromCache(c)
                   \/ PowerLoss \/ UNCHANGED readVars
  PROVE  ReadsInv'
  <1>1. UNCHANGED <<chunkFile, fossilFile, resurrect, given>>
    BY DEF SaveToCache, UploadToCache, EvictFromCache, PowerLoss, readVars, fileVars
  <1>2. cache' \in [Chunk -> {"none", "unsynced", "whole", "torn"}]
    <2>1. CASE \E r \in Reader : SaveToCache(r)
      BY <2>1 DEF SaveToCache, ReadsInv, ReadsType
    <2>2. CASE \E c \in Chunk : UploadToCache(c) \/ EvictFromCache(c)
      BY <2>2 DEF UploadToCache, EvictFromCache, ReadsInv, ReadsType
    <2>3. CASE PowerLoss
      BY <2>3 DEF PowerLoss, ReadsInv, ReadsType
    <2>4. CASE UNCHANGED readVars
      BY <2>4 DEF readVars, ReadsInv, ReadsType
    <2> QED
      BY <2>1, <2>2, <2>3, <2>4
  <1>3. ReadersInv' /\ reader' \in [Reader -> ReaderState]
    <2>1. CASE \E r \in Reader : SaveToCache(r)
      <3>1. PICK r \in Reader : SaveToCache(r)
        BY <2>1
      <3>2. PICK y : Completed(r, "right") = [reader EXCEPT ![r] = y] /\ ReaderOK(y, chunkFile, fossilFile, given)
        BY CompletedOK
      <3>3. reader' = [reader EXCEPT ![r] = y]
        BY <3>1, <3>2 DEF SaveToCache
      <3> QED
        BY <1>1, <3>2, <3>3, OneReader
    <2>2. CASE PowerLoss
      <3>1. IdleReader \in ReaderState /\ IdleReader.pc = "idle" /\ ~IdleReader.rewriteChunks /\ IdleReader.result = "none"
         /\ IdleReader.buffer = "empty"
        BY DEF IdleReader, ReaderState
      <3>2. reader' = [r \in Reader |-> IdleReader]
        BY <2>2 DEF PowerLoss
      <3> QED
        BY <3>1, <3>2 DEF ReadersInv, ReaderOK, Readable
    <2>3. CASE reader' = reader
      BY <1>1, <2>3 DEF ReadsInv, ReadsType, ReadersInv
    <2> QED
      BY <2>1, <2>2, <2>3 DEF UploadToCache, EvictFromCache, readVars
  <1>4. PruneInvariant'
    BY <1>1 DEF ReadsInv, PruneInvariant
  <1> QED
    BY <1>1, <1>2, <1>3, <1>4 DEF ReadsInv, ReadsType

(* The tasks of prune move sound files and excuse the readers of them. *)
LEMMA PruneTaskInv ==
  ASSUME ReadsInv, NEW c \in Chunk, Fossilize(c) \/ ResurrectFind(c) \/ Resurrect(c)
  PROVE  ReadsInv'
  <1>1. given' = given /\ cache' = cache /\ given.pruning
    BY DEF Fossilize, ResurrectFind, Resurrect, ReadsInv, PruneInvariant
  <1>2. /\ chunkFile' \in [Chunk -> File] /\ fossilFile' \in [Chunk -> File]
        /\ resurrect' \in [Chunk -> {"none", "exists", "absent"}]
        /\ \A d \in Chunk \ {c} : /\ chunkFile'[d] = chunkFile[d] /\ fossilFile'[d] = fossilFile[d]
                                  /\ resurrect'[d] = resurrect[d]
    BY FileFacts DEF Fossilize, ResurrectFind, Resurrect, ReadsInv, ReadsType, fileVars
  <1>3. ReadersInv' /\ reader' \in [Reader -> ReaderState]
    <2>1. CASE ResurrectFind(c)
      BY <1>1, <2>1 DEF ResurrectFind, ReadsInv, ReadsType, ReadersInv, fileVars
    <2>2. CASE Fossilize(c) \/ Resurrect(c)
      <3>1. reader' = Excuse(reader, c)
        BY <2>2 DEF Fossilize, Resurrect
      <3>2. \A r \in Reader : ReaderOK(reader'[r], chunkFile', fossilFile', given')
        BY <1>1, <1>2, <3>1, ExcuseReaders
      <3>3. reader' = [r \in Reader |-> reader'[r]]
        BY <3>1 DEF Excuse
      <3>4. \A r \in Reader : reader'[r] \in ReaderState
        BY <3>2 DEF ReaderOK
      <3>5. reader' \in [Reader -> ReaderState]
        BY <3>3, <3>4
      <3> QED
        BY <3>2, <3>5 DEF ReadersInv
    <2> QED
      BY <2>1, <2>2
  <1>4. PruneInvariant'
    <2> SUFFICES ASSUME NEW d \in Chunk
                 PROVE  /\ chunkFile'[d] = NoFile \/ Recoverable(chunkFile'[d])
                        /\ fossilFile'[d] = NoFile \/ Recoverable(fossilFile'[d])
                        /\ resurrect'[d] /= "none" => fossilFile'[d] /= NoFile
                        /\ resurrect'[d] = "exists" => chunkFile'[d] /= NoFile
      BY <1>1 DEF PruneInvariant
    <2>1. CASE d /= c
      BY <1>1, <1>2, <2>1 DEF ReadsInv, PruneInvariant
    <2>2. CASE d = c
      BY <1>1, <2>2 DEF Fossilize, ResurrectFind, Resurrect, ReadsInv, ReadsType, PruneInvariant, fileVars
    <2> QED
      BY <2>1, <2>2
  <1> QED
    BY <1>1, <1>2, <1>3, <1>4 DEF ReadsInv, ReadsType

(* The invariant holds in every behaviour. *)
LEMMA ReadsAlwaysInv == ReadsSpec => []ReadsInv
  <1>1. ReadsInv /\ [ReadsNext]_readVars => ReadsInv'
    <2> SUFFICES ASSUME ReadsInv, [ReadsNext]_readVars PROVE ReadsInv'
      OBVIOUS
    <2>1. ASSUME NEW r \in Reader, Reads(r) PROVE ReadsInv'
      BY <2>1, ReadCacheInv, FindChunkInv, FindFossilInv, FindFailsInv, DownloadInv, DownloadFaultInv,
         RewriteMoveInv, RewriteUploadInv, CacheStepInv DEF Reads
    <2>2. ASSUME NEW r \in Reader, NEW c \in Chunk, Start(r, c) PROVE ReadsInv'
      BY <2>2, StartInv
    <2>3. ASSUME NEW c \in Chunk, \/ UploadToCache(c) \/ UploadToStorage(c) \/ EvictFromCache(c)
                                  \/ Fossilize(c) \/ ResurrectFind(c) \/ Resurrect(c)
          PROVE  ReadsInv'
      BY <2>3, CacheStepInv, UploadToStorageInv, PruneTaskInv
    <2>4. CASE PowerLoss \/ UNCHANGED readVars
      BY <2>4, CacheStepInv
    <2> QED
      BY <2>1, <2>2, <2>3, <2>4 DEF ReadsNext
  <1> QED
    BY InitReadsInv, <1>1, PTL DEF ReadsSpec

-----------------------------------------------------------------------------
(* A download that fails has an excuse: its file was damaged beyond        *)
(* recovery or moved, or the storage refused a request.  Denials, early    *)
(* ends, wrong bytes and what a torn cache entry left behind cost attempts *)
(* and never the chunk, while uploads, rewrites and prune go on.           *)
THEOREM ReadableAlwaysRead ==
  ASSUME MaxFaults <= MaxDownloadAttempts
  PROVE  ReadsSpec => []ReadableIsRead
  <1>1. ReadsInv => ReadableIsRead
    BY DEF FewFaults, ReadsInv, ReadersInv, ReaderOK, ReadableIsRead
  <1> QED
    BY <1>1, ReadsAlwaysInv, PTL

(* No step of a rewrite, of prune or of a backup takes the last copy of a  *)
(* chunk that can be recovered from where readers look.                    *)
THEOREM RewriteAlwaysKeeps == ReadsSpec => RewriteKeeps
  <1>1. ReadsInv /\ [ReadsNext]_readVars =>
          [\A c \in Chunk : Recoverable(Served(c)) => Recoverable(Served(c)')]_readVars
    <2> SUFFICES ASSUME ReadsInv, ReadsNext, NEW c \in Chunk, Recoverable(Served(c))
                 PROVE  Recoverable(Served(c)')
      OBVIOUS
    <2>1. CASE chunkFile'[c] = chunkFile[c] /\ fossilFile'[c] = fossilFile[c]
      BY <2>1 DEF Served
    <2>2. ASSUME NEW r \in Reader, RewriteMove(r) \/ RewriteUpload(r) PROVE Recoverable(Served(c)')
      BY <2>2, FileFacts, ReaderFacts DEF RewriteMove, RewriteUpload, Served, ReadsInv, ReadsType, fileVars
    <2>3. ASSUME NEW d \in Chunk, UploadToStorage(d) \/ Fossilize(d) PROVE Recoverable(Served(c)')
      BY <2>3, FileFacts DEF UploadToStorage, Fossilize, Served, ReadsInv, ReadsType
    <2>4. ASSUME NEW d \in Chunk, Resurrect(d) PROVE Recoverable(Served(c)')
      BY <2>4, FileFacts DEF Resurrect, Served, ReadsInv, ReadsType, PruneInvariant
    <2>5. CASE UNCHANGED fileVars
      BY <2>1, <2>5 DEF fileVars
    <2> QED
      BY <2>2, <2>3, <2>4, <2>5 DEF ReadsNext, Reads, Start, ReadCache, FindChunk, FindFossil, FindFails, Download,
           DownloadTorn, DownloadFails, SaveToCache, UploadToCache, EvictFromCache, ResurrectFind, PowerLoss
  <1> QED
    BY <1>1, ReadsAlwaysInv, PTL DEF ReadsSpec, RewriteKeeps

-----------------------------------------------------------------------------
(* The deletion of snapshot files by several workers: what is reported is  *)
(* what one thread would have reported.                                    *)

DeletionType ==
  /\ count \in 2..MaxSnapshots
  /\ nextSnapshot \in 0..count
  /\ slot \in [1..count -> {"open", "gone", "failed"}]
  /\ worker \in [Worker -> 0..Ended]
  /\ caller \in [pc : {"wait", "report", "join", "ended"}, nextToRemove : 1..(count + 1),
                 upTo : 0..count, failedIndex : 0..count]
  /\ log \in Seq(Nat)

(* No two workers delete one file, and the slot of a file being deleted,   *)
(* or not claimed yet, is open: a slot is finished once.                   *)
ClaimedOnce ==
  /\ \A w \in Worker : worker[w] \in Index => worker[w] <= nextSnapshot /\ slot[worker[w]] = "open"
  /\ \A v, w \in Worker : worker[v] \in Index /\ worker[v] = worker[w] => v = w
  /\ \A i \in Index : i > nextSnapshot => slot[i] = "open"

(* The caller has passed, or taken, only finished slots, and ends after    *)
(* the last.                                                               *)
PassedFinished ==
  /\ \A i \in Index : i < caller.nextToRemove => slot[i] /= "open"
  /\ caller.pc = "report" => \A i \in Index : i <= caller.upTo => slot[i] /= "open"
  /\ caller.pc \in {"join", "ended"} => caller.nextToRemove = count + 1

(* The log is the run of deletions before the first failure the caller     *)
(* has passed.                                                             *)
FirstBad == IF caller.failedIndex = 0 THEN caller.nextToRemove ELSE caller.failedIndex
LogIsPrefix ==
  /\ FirstBad <= caller.nextToRemove
  /\ caller.failedIndex /= 0 => caller.failedIndex < caller.nextToRemove /\ slot[caller.failedIndex] = "failed"
  /\ \A i \in Index : i < FirstBad => slot[i] = "gone"
  /\ Len(log) = FirstBad - 1
  /\ \A k \in 1..Len(log) : log[k] = k

DeletionInv == DeletionType /\ ClaimedOnce /\ PassedFinished /\ LogIsPrefix

-----------------------------------------------------------------------------
(* The state in which a prune begins to delete. *)
LEMMA BeginsInv == DeletionInit => DeletionInv
<1> SUFFICES ASSUME DeletionInit PROVE DeletionInv
  OBVIOUS
<1> USE DeletionAssumption DEF DeletionInit, Index, Ended, NewCaller, FirstBad
<1>1. PICK started \in SUBSET Worker : worker = StartedWorkers(started)
  BY DEF Workers
<1>2. DeletionType
  BY <1>1 DEF DeletionType, StartedWorkers
<1>3. ClaimedOnce
  <2>1. \A w \in Worker : worker[w] \notin Index
    BY <1>1 DEF StartedWorkers
  <2> QED BY <2>1 DEF ClaimedOnce
<1>4. PassedFinished
  BY DEF PassedFinished
<1>5. LogIsPrefix
  BY DEF LogIsPrefix
<1> QED BY <1>2, <1>3, <1>4, <1>5 DEF DeletionInv

(* The same for the next prune. *)
LEMMA PruneAgainInv == ASSUME PruneAgain PROVE DeletionInv'
<1> USE DeletionAssumption DEF PruneAgain, Begins, Index, Ended, NewCaller, FirstBad
<1>0. PICK n \in 2..MaxSnapshots : Begins(n)
  OBVIOUS
<1>1. PICK started \in SUBSET Worker : worker' = StartedWorkers(started)
  BY <1>0 DEF Workers
<1>2. DeletionType'
  BY <1>0, <1>1 DEF DeletionType, StartedWorkers
<1>3. ClaimedOnce'
  <2>1. \A w \in Worker : worker'[w] \notin Index'
    BY <1>0, <1>1 DEF StartedWorkers
  <2> QED BY <1>0, <2>1 DEF ClaimedOnce
<1>4. PassedFinished'
  BY <1>0 DEF PassedFinished
<1>5. LogIsPrefix'
  BY <1>0 DEF LogIsPrefix
<1> QED BY <1>2, <1>3, <1>4, <1>5 DEF DeletionInv

(* A worker claims the file after the last claimed, whose slot is open. *)
LEMMA ClaimInv ==
  ASSUME DeletionInv, NEW w \in Worker, Claim(w) PROVE DeletionInv'
<1> USE DeletionAssumption DEF Claim, Index, Ended
<1>1. DeletionType'
  <2>1. worker' \in [Worker -> 0..Ended] /\ nextSnapshot' \in 0..count
    BY DEF DeletionInv, DeletionType
  <2> QED BY <2>1 DEF DeletionInv, DeletionType
<1>2. ClaimedOnce'
  <2>1. CASE nextSnapshot < count
    <3>1. /\ nextSnapshot' = nextSnapshot + 1 /\ worker'[w] = nextSnapshot + 1
          /\ \A v \in Worker \ {w} : worker'[v] = worker[v]
          /\ UNCHANGED <<count, slot>>
      BY <2>1 DEF DeletionInv, DeletionType
    <3>2. nextSnapshot + 1 \in Index /\ slot[nextSnapshot + 1] = "open"
      BY <2>1 DEF DeletionInv, DeletionType, ClaimedOnce
    <3>3. ASSUME NEW v \in Worker, worker'[v] \in Index
          PROVE  worker'[v] <= nextSnapshot + 1 /\ slot[worker'[v]] = "open"
      <4>1. CASE v = w
        BY <3>1, <3>2, <4>1 DEF DeletionInv, DeletionType
      <4>2. CASE v /= w
        <5>1. worker'[v] = worker[v] /\ worker[v] \in Index
          BY <3>1, <3>3, <4>2
        <5>2. worker[v] <= nextSnapshot /\ slot[worker[v]] = "open"
          BY <5>1 DEF DeletionInv, ClaimedOnce
        <5> QED BY <5>1, <5>2 DEF DeletionInv, DeletionType
      <4> QED BY <4>1, <4>2
    <3>4. ASSUME NEW u \in Worker, NEW v \in Worker, worker'[u] \in Index, worker'[u] = worker'[v]
          PROVE  u = v
      <4>1. \A x \in Worker \ {w} : worker[x] \in Index => worker[x] /= nextSnapshot + 1
        BY DEF DeletionInv, DeletionType, ClaimedOnce
      <4> QED BY <3>1, <3>2, <3>4, <4>1 DEF DeletionInv, ClaimedOnce
    <3>5. \A i \in Index : i > nextSnapshot + 1 => slot[i] = "open"
      BY DEF DeletionInv, DeletionType, ClaimedOnce
    <3> HIDE DEF Claim
    <3> QED BY <3>1, <3>3, <3>4, <3>5 DEF ClaimedOnce
  <2>2. CASE ~(nextSnapshot < count)
    <3>1. /\ worker'[w] \notin Index /\ \A v \in Worker \ {w} : worker'[v] = worker[v]
          /\ UNCHANGED <<count, slot, nextSnapshot>>
      BY <2>2 DEF DeletionInv, DeletionType
    <3> HIDE DEF Claim
    <3> QED BY <3>1 DEF DeletionInv, ClaimedOnce
  <2> QED BY <2>1, <2>2
<1>3. PassedFinished' /\ LogIsPrefix'
  BY DEF DeletionInv, PassedFinished, LogIsPrefix, FirstBad
<1> QED BY <1>1, <1>2, <1>3 DEF DeletionInv

(* A worker finishes the slot of the file it deletes, well or badly. *)
LEMMA FinishInv ==
  ASSUME DeletionInv, NEW w \in Worker, DeleteSnapshotFile(w) \/ DeletePanics(w) PROVE DeletionInv'
<1> USE DeletionAssumption DEF Index, Ended
<1>1. PICK result \in {"gone", "failed"}, next \in {0, Ended} :
        /\ worker[w] \in Index
        /\ slot' = [slot EXCEPT ![worker[w]] = result]
        /\ worker' = [worker EXCEPT ![w] = next]
        /\ UNCHANGED <<count, nextSnapshot, caller, log>>
  BY DEF DeleteSnapshotFile, DeletePanics
<1>2. DeletionType'
  BY <1>1 DEF DeletionInv, DeletionType
<1>3. slot[worker[w]] = "open" /\ worker[w] <= nextSnapshot /\ next \notin Index
  BY <1>1 DEF DeletionInv, DeletionType, ClaimedOnce
<1>4. \A i \in Index : i /= worker[w] => slot'[i] = slot[i]
  BY <1>1 DEF DeletionInv, DeletionType
<1>5. slot'[worker[w]] /= "open"
  BY <1>1 DEF DeletionInv, DeletionType
<1>6. ClaimedOnce'
  <2>1. ASSUME NEW v \in Worker, worker'[v] \in Index
        PROVE  v /= w /\ worker'[v] = worker[v] /\ worker[v] /= worker[w]
    BY <2>1, <1>1, <1>3 DEF DeletionInv, DeletionType, ClaimedOnce
  <2>2. \A v \in Worker : (worker[v] \in Index => worker[v] <= nextSnapshot /\ slot[worker[v]] = "open")'
    BY <2>1, <1>1, <1>4 DEF DeletionInv, ClaimedOnce
  <2>3. \A v, u \in Worker : (worker[v] \in Index /\ worker[v] = worker[u] => v = u)'
    BY <2>1, <1>1 DEF DeletionInv, ClaimedOnce
  <2>4. \A i \in Index : i > nextSnapshot => slot'[i] = "open"
    BY <1>3, <1>4 DEF DeletionInv, DeletionType, ClaimedOnce
  <2> QED BY <1>1, <2>2, <2>3, <2>4 DEF ClaimedOnce
<1>7. PassedFinished'
  BY <1>1, <1>4, <1>5 DEF DeletionInv, DeletionType, PassedFinished
<1>8. LogIsPrefix'
  <2>1. \A i \in Index : i < FirstBad => slot'[i] = "gone"
    BY <1>3, <1>4 DEF DeletionInv, LogIsPrefix
  <2>2. caller.failedIndex /= 0 => slot'[caller.failedIndex] = "failed"
    BY <1>3, <1>4 DEF DeletionInv, DeletionType, LogIsPrefix
  <2> QED BY <1>1, <2>1, <2>2 DEF DeletionInv, LogIsPrefix, FirstBad
<1> QED BY <1>2, <1>6, <1>7, <1>8 DEF DeletionInv

(* The caller takes a run of finished slots. *)
LEMMA TakeReadyInv ==
  ASSUME DeletionInv, TakeReady PROVE DeletionInv'
<1> USE DeletionAssumption DEF TakeReady, Index, Ended
<1>1. PICK n \in caller.nextToRemove..count :
        Ready(n) /\ caller' = [caller EXCEPT !.pc = "report", !.upTo = n]
  OBVIOUS
<1>2. n \in 0..count
  BY <1>1 DEF DeletionInv, DeletionType
<1>3. DeletionType'
  BY <1>1, <1>2 DEF DeletionInv, DeletionType
<1>4. /\ caller'.nextToRemove = caller.nextToRemove /\ caller'.failedIndex = caller.failedIndex
      /\ caller'.pc = "report" /\ caller'.upTo = n
  BY <1>1 DEF DeletionInv, DeletionType
<1>5. ClaimedOnce'
  BY DEF DeletionInv, ClaimedOnce
<1>6. PassedFinished'
  <2>1. ASSUME NEW i \in Index, i <= n PROVE slot[i] /= "open"
    BY <1>1, <2>1 DEF DeletionInv, DeletionType, PassedFinished, Ready
  <2> QED BY <1>4, <2>1 DEF DeletionInv, PassedFinished
<1>7. LogIsPrefix'
  BY <1>4 DEF DeletionInv, LogIsPrefix, FirstBad
<1> QED BY <1>3, <1>5, <1>6, <1>7 DEF DeletionInv

(* It reports one of them. *)
LEMMA ReportInv ==
  ASSUME DeletionInv, Report PROVE DeletionInv'
<1> USE DeletionAssumption DEF Index, Ended
<1> DEFINE i == caller.nextToRemove
<1>1. i \in 1..count /\ i <= caller.upTo /\ slot[i] \in {"gone", "failed"}
  BY DEF Report, DeletionInv, DeletionType, PassedFinished
<1>2. /\ caller'.nextToRemove = i + 1 /\ caller'.pc = "report" /\ caller'.upTo = caller.upTo
      /\ caller'.failedIndex = IF slot[i] = "failed" /\ caller.failedIndex = 0 THEN i ELSE caller.failedIndex
  BY DEF Report, DeletionInv, DeletionType
<1>3. DeletionType'
  <2>1. /\ caller' \in [pc : {"wait", "report", "join", "ended"}, nextToRemove : 1..(count + 1),
                         upTo : 0..count, failedIndex : 0..count]
        /\ UNCHANGED <<count, nextSnapshot, slot, worker>>
    <3>1. PICK f \in 0..count : caller' = [caller EXCEPT !.nextToRemove = i + 1, !.failedIndex = f]
      <4>1. i \in 0..count /\ caller.failedIndex \in 0..count
        BY <1>1 DEF DeletionInv, DeletionType
      <4>2. CASE slot[i] = "failed" /\ caller.failedIndex = 0
        BY <4>1, <4>2 DEF Report
      <4>3. CASE ~(slot[i] = "failed" /\ caller.failedIndex = 0)
        BY <4>1, <4>3 DEF Report
      <4> QED BY <4>2, <4>3
    <3>2. i + 1 \in 1..(count + 1)
      BY <1>1 DEF DeletionInv, DeletionType
    <3> QED BY <3>1, <3>2 DEF Report, DeletionInv, DeletionType
  <2>2. log' \in Seq(Nat)
    BY <1>1 DEF Report, DeletionInv, DeletionType
  <2> QED BY <2>1, <2>2 DEF DeletionInv, DeletionType
<1>4. ClaimedOnce'
  BY DEF Report, DeletionInv, ClaimedOnce
<1>5. PassedFinished'
  <2>1. UNCHANGED <<slot, count>>
    BY DEF Report
  <2>2. \A j \in Index : j < i + 1 => slot[j] /= "open"
    BY <1>1 DEF DeletionInv, DeletionType, PassedFinished
  <2>3. \A j \in Index : j <= caller.upTo => slot[j] /= "open"
    BY DEF Report, DeletionInv, PassedFinished
  <2>4. caller'.pc = "report" /\ caller'.pc \notin {"join", "ended"}
    BY <1>2
  <2> HIDE DEF i
  <2> QED BY <1>2, <2>1, <2>2, <2>3, <2>4 DEF PassedFinished
<1>6. LogIsPrefix'
  <2>1. UNCHANGED <<slot, count>>
    BY DEF Report
  <2>2. CASE caller.failedIndex /= 0
    <3>1. log' = log /\ caller'.failedIndex = caller.failedIndex
      BY <2>2, <1>2 DEF Report
    <3> QED BY <2>1, <2>2, <3>1, <1>1, <1>2 DEF DeletionInv, DeletionType, LogIsPrefix, FirstBad
  <2>3. CASE caller.failedIndex = 0 /\ slot[i] = "failed"
    <3>1. log' = log /\ caller'.failedIndex = i
      BY <2>3, <1>2 DEF Report
    <3> QED BY <2>1, <2>3, <3>1, <1>1, <1>2 DEF DeletionInv, DeletionType, LogIsPrefix, FirstBad
  <2>4. CASE caller.failedIndex = 0 /\ slot[i] = "gone"
    <3>1. log' = Append(log, i) /\ caller'.failedIndex = 0 /\ Len(log) = i - 1
      BY <2>4, <1>2 DEF Report, DeletionInv, LogIsPrefix, FirstBad
    <3>2. Len(log') = i /\ \A k \in 1..i : log'[k] = k
      BY <3>1, <1>1 DEF DeletionInv, DeletionType, LogIsPrefix
    <3>3. \A j \in Index : j < i + 1 => slot[j] = "gone"
      BY <2>4, <1>1 DEF DeletionInv, DeletionType, LogIsPrefix, FirstBad
    <3> QED BY <2>1, <3>1, <3>2, <3>3, <1>1, <1>2 DEF LogIsPrefix, FirstBad
  <2> QED BY <1>1, <2>2, <2>3, <2>4
<1> QED BY <1>3, <1>4, <1>5, <1>6 DEF DeletionInv

(* It goes back to waiting, or, after the last slot, on to the end. *)
LEMMA CallerInv ==
  ASSUME DeletionInv, Reported \/ Join PROVE DeletionInv'
<1> USE DeletionAssumption DEF Index, Ended
<1>1. PICK pc \in {"wait", "join", "ended"} :
        /\ caller' = [caller EXCEPT !.pc = pc]
        /\ pc \in {"join", "ended"} => caller.nextToRemove = count + 1
  BY DEF Reported, Join, DeletionInv, DeletionType, PassedFinished
<1>2. UNCHANGED <<count, nextSnapshot, slot, worker, log>>
  BY DEF Reported, Join
<1>3. /\ caller'.pc = pc /\ caller'.nextToRemove = caller.nextToRemove
      /\ caller'.upTo = caller.upTo /\ caller'.failedIndex = caller.failedIndex
  BY <1>1 DEF DeletionInv, DeletionType
<1>4. DeletionType'
  BY <1>1, <1>2 DEF DeletionInv, DeletionType
<1>5. ClaimedOnce' /\ PassedFinished'
  BY <1>1, <1>2, <1>3 DEF DeletionInv, ClaimedOnce, PassedFinished
<1>6. LogIsPrefix'
  BY <1>2, <1>3 DEF DeletionInv, LogIsPrefix, FirstBad
<1> QED BY <1>4, <1>5, <1>6 DEF DeletionInv

LEMMA InvIsSerial == DeletionInv => LogIsSerial
<1> SUFFICES ASSUME DeletionInv PROVE LogIsSerial
  OBVIOUS
<1> USE DEF Index, DeletionInv
<1> DEFINE failed == {i \in Index : slot[i] = "failed"}
<1>1. \A k \in 1..Len(log) : log[k] = k /\ \A j \in 1..k : slot[j] = "gone"
  BY DEF DeletionType, LogIsPrefix, FirstBad
<1>2. ASSUME caller.pc = "ended", failed = {}
      PROVE  Len(log) = count /\ caller.failedIndex = 0
  BY <1>2 DEF DeletionType, LogIsPrefix, FirstBad, PassedFinished
<1>3. ASSUME caller.pc = "ended", failed /= {}
      PROVE  caller.failedIndex = Len(log) + 1 /\ \A i \in failed : caller.failedIndex <= i
  <2>1. PICK i \in Index : slot[i] = "failed"
    BY <1>3
  <2>2. caller.failedIndex /= 0
    <3>1. i < caller.nextToRemove
      BY <1>3, <2>1 DEF DeletionType, PassedFinished
    <3>2. ~(i < FirstBad)
      BY <2>1 DEF LogIsPrefix
    <3> QED BY <3>1, <3>2 DEF FirstBad
  <2>3. FirstBad = caller.failedIndex
    BY <2>2 DEF FirstBad
  <2>4. caller.failedIndex = Len(log) + 1
    BY <2>3 DEF DeletionType, LogIsPrefix
  <2>5. ASSUME NEW j \in Index, slot[j] = "failed" PROVE ~(j < caller.failedIndex)
    BY <2>3, <2>5 DEF LogIsPrefix
  <2>6. ASSUME NEW j \in failed PROVE caller.failedIndex <= j
    BY <2>5 DEF DeletionType
  <2> QED BY <2>4, <2>6
<1> QED BY <1>1, <1>2, <1>3 DEF LogIsSerial

-----------------------------------------------------------------------------
(* Whatever the workers do, the deletions are reported in the order of the *)
(* revisions up to the first that failed, and that failure is the one      *)
(* raised (deleteSnapshots of prune).                                      *)
THEOREM LogAlwaysSerial == DeletionSpec => []LogIsSerial
<1>1. DeletionInv /\ [DeletionNext]_deletionVars => DeletionInv'
  <2> SUFFICES ASSUME DeletionInv, [DeletionNext]_deletionVars PROVE DeletionInv'
    OBVIOUS
  <2>1. ASSUME NEW w \in Worker, Claim(w) \/ DeleteSnapshotFile(w) \/ DeletePanics(w) PROVE DeletionInv'
    BY <2>1, ClaimInv, FinishInv
  <2>2. CASE TakeReady
    BY <2>2, TakeReadyInv
  <2>3. CASE Report
    BY <2>3, ReportInv
  <2>4. CASE Reported \/ Join
    BY <2>4, CallerInv
  <2>5. CASE PruneAgain
    BY <2>5, PruneAgainInv
  <2>6. CASE UNCHANGED deletionVars
    BY <2>6 DEF deletionVars, DeletionInv, DeletionType, ClaimedOnce, PassedFinished, LogIsPrefix, FirstBad, Index
  <2> QED BY <2>1, <2>2, <2>3, <2>4, <2>5, <2>6 DEF DeletionNext
<1> QED BY <1>1, BeginsInv, InvIsSerial, PTL DEF DeletionSpec

=============================================================================
