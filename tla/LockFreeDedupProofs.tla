------------------------- MODULE LockFreeDedupProofs -------------------------
(***************************************************************************)
(* Proofs about LockFreeDedup, for any number of chunks, ids, threads and  *)
(* prune command lines, and with none of the assumptions on the clients:   *)
(* the state is well typed, a backup never writes over a snapshot file,    *)
(* and a prune that is not exclusive never removes the latest revision of  *)
(* an id.                                                                  *)
(***************************************************************************)
EXTENDS LockFreeDedup, WellFoundedInduction, TLAPS

-----------------------------------------------------------------------------
(* A non-empty set of snapshots of one id has a latest one, if revisions   *)
(* are bounded: the argument for every "latest revision" the code takes    *)
(* from the end of a sorted list.                                          *)
LEMMA MaximumExists ==
  ASSUME NEW T \in SUBSET Nat, T /= {}, NEW bound \in Nat, \A n \in T : n <= bound
  PROVE  \E m \in T : \A n \in T : n <= m
<1> DEFINE U == {bound - n : n \in T}
<1>1. U \subseteq Nat /\ U /= {}
  <2>1. ASSUME NEW n \in T PROVE bound - n \in Nat
    <3>1. n \in Nat /\ n <= bound
      OBVIOUS
    <3> QED BY <3>1
  <2>2. U /= {}
    OBVIOUS
  <2> QED BY <2>1, <2>2
<1>2. PICK u \in U : \A v \in U : ~(<<v, u>> \in OpToRel(<, Nat))
  BY <1>1, NatLessThanWellFounded, WFMin
<1>3. PICK m \in T : u = bound - m
  OBVIOUS
<1>4. ASSUME NEW n \in T PROVE n <= m
  <2>1. bound - n \in U /\ ~(<<bound - n, u>> \in OpToRel(<, Nat))
    BY <1>2
  <2>2. ~(bound - n < bound - m)
    BY <2>1, <1>1, <1>3 DEF OpToRel
  <2> QED BY <2>2
<1> QED BY <1>4

LEMMA LatestExists ==
  ASSUME NEW S \in SUBSET Snapshot, NEW s \in S, NEW bound \in Nat,
         \A t \in S : t.id = s.id => t.revision <= bound
  PROVE  \E t \in S : t.id = s.id /\ IsLatest(S, t)
<1> DEFINE T == {t.revision : t \in SnapshotsOf(S, s.id)}
<1>1. T \in SUBSET Nat /\ T /= {} /\ \A n \in T : n <= bound
  BY DEF SnapshotsOf, Snapshot
<1>2. PICK m \in T : \A n \in T : n <= m
  <2> HIDE DEF T
  <2> QED BY <1>1, MaximumExists
<1>3. PICK t \in SnapshotsOf(S, s.id) : t.revision = m
  OBVIOUS
<1>4. IsLatest(S, t)
  BY <1>2, <1>3 DEF IsLatest, SnapshotsOf
<1> QED BY <1>3, <1>4 DEF SnapshotsOf

(* The number a collection records for an id is a natural number. *)
LEMMA LatestRevisionType ==
  ASSUME NEW S \in SUBSET Snapshot, NEW i \in Id, NEW bound \in Nat,
         \A t \in S : t.id = i => t.revision <= bound
  PROVE  LatestRevision(S, i) \in Nat
<1>1. CASE SnapshotsOf(S, i) = {}
  BY <1>1 DEF LatestRevision
<1>2. CASE SnapshotsOf(S, i) /= {}
  <2>1. PICK s \in S : s.id = i
    BY <1>2 DEF SnapshotsOf
  <2>2. \E t \in SnapshotsOf(S, i) : IsLatest(S, t)
    BY <2>1, LatestExists DEF SnapshotsOf
  <2>3. (CHOOSE t \in SnapshotsOf(S, i) : IsLatest(S, t)) \in SnapshotsOf(S, i)
    BY <2>2
  <2> QED BY <1>2, <2>3 DEF LatestRevision, SnapshotsOf, Snapshot
<1> QED BY <1>1, <1>2

-----------------------------------------------------------------------------
(* The inductive invariant. *)

(* What is left of a backup that writes no snapshot any more. *)
RestStates == {IdleBackup, EndingBackup(TRUE), EndingBackup(FALSE)}

LEMMA RestStatesRest ==
  \A b \in RestStates : /\ b \in BackupState /\ ~Working(b) /\ b.revision = 0
                        /\ b.cache = {} /\ b.refs = {} /\ b.queued = {} /\ b.absent = {}
<1>1. /\ IdleBackup \in BackupState /\ ~Working(IdleBackup) /\ IdleBackup.revision = 0
      /\ IdleBackup.cache = {} /\ IdleBackup.refs = {} /\ IdleBackup.queued = {} /\ IdleBackup.absent = {}
  BY DEF IdleBackup, BackupState, Working
<1>2. ASSUME NEW hash \in BOOLEAN, NEW b, b = EndingBackup(hash)
      PROVE  /\ b \in BackupState /\ ~Working(b) /\ b.revision = 0
             /\ b.cache = {} /\ b.refs = {} /\ b.queued = {} /\ b.absent = {}
  BY <1>1, <1>2 DEF EndingBackup, BackupState, Working
<1> QED BY <1>1, <1>2 DEF RestStates

(* A running backup has a revision number, within the bound of its id. *)
RevisionInRange(b, i) == b.revision <= MaxRevision[i] /\ (Working(b) => b.revision > 0)

(* No revision passes the bound of its id. *)
RevisionsBounded ==
  /\ \A s \in snapshots : s.revision <= MaxRevision[s.id]
  /\ \A s \in allSnapshots : s.revision <= MaxRevision[s.id]
  /\ \A i \in Id : RevisionInRange(backup[i], i)

(* Until prune deletes, what it listed exists. *)
ListedExist == prunePc \notin {"deleting", "draining"} => allSnapshots \subseteq snapshots

(* A later revision that is not to be deleted exists for each one that is. *)
FlaggedHaveLater ==
  ~pruneMode.exclusive =>
    \A s \in flagged : \E t \in snapshots \ flagged : t.id = s.id /\ t.revision > s.revision

(* Snapshots are flagged only between their selection and their deletion. *)
FlaggedInPhase == prunePc \notin {"collecting", "deleting"} => flagged = {}

IndInv ==
  /\ TypeOK
  /\ RevisionsBounded
  /\ RevisionsFresh
  /\ ListedExist
  /\ FlaggedHaveLater
  /\ FlaggedInPhase

LEMMA InitIndInv == Init => IndInv
<1> SUFFICES ASSUME Init PROVE IndInv
  OBVIOUS
<1> USE BackupAssumption, PruneAssumption, ScenarioAssumption, StorageAssumption
<1>1. PICK content \in [SeededIds -> SUBSET Chunk] :
        /\ snapshots = {[id |-> i, revision |-> 1, chunks |-> content[i], endTime |-> 1] : i \in SeededIds}
        /\ chunkFiles = UNION {content[i] : i \in SeededIds}
  BY DEF Init
<1>2. snapshots \subseteq Snapshot /\ chunkFiles \subseteq Chunk
  BY <1>1 DEF Snapshot
<1>3. StorageTypeOK
  BY <1>2 DEF Init, StorageTypeOK
<1>4. BackupTypeOK
  BY DEF Init, BackupInit, BackupTypeOK, BackupState, IdleBackup
<1>5. PruneTypeOK
  BY DEF Init, PruneInit, PruneTypeOK, PruneMode, NoMode
<1>6. RevisionsBounded
  <2>1. \A i \in Id : MaxRevision[i] \in Nat /\ MaxRevision[i] >= 1
    OBVIOUS
  <2>2. \A s \in snapshots : s.revision <= MaxRevision[s.id]
    BY <1>1, <2>1
  <2> QED BY <2>1, <2>2 DEF Init, BackupInit, PruneInit, IdleBackup, RevisionsBounded, RevisionInRange, Working
<1>7. RevisionsFresh
  BY DEF Init, BackupInit, IdleBackup, RevisionsFresh, Working
<1>8. ListedExist /\ FlaggedHaveLater /\ FlaggedInPhase
  BY DEF Init, PruneInit, ListedExist, FlaggedHaveLater, FlaggedInPhase
<1> QED BY <1>3, <1>4, <1>5, <1>6, <1>7, <1>8 DEF IndInv, TypeOK

-----------------------------------------------------------------------------
(* The steps of a backup. *)

(* What a backup step has to establish: prune's variables do not change,   *)
(* and snapshot files are only added.                                      *)
LEMMA BackupFrame ==
  ASSUME IndInv, UNCHANGED pruneVars, snapshots \subseteq snapshots',
         StorageTypeOK', BackupTypeOK',
         \A s \in snapshots' : s.revision <= MaxRevision[s.id],
         \A i \in Id : RevisionInRange(backup'[i], i),
         RevisionsFresh'
  PROVE  IndInv'
<1>1. PruneTypeOK'
  BY DEF IndInv, TypeOK, PruneTypeOK, pruneVars, pruneRunVars
<1>2. RevisionsBounded'
  BY DEF IndInv, RevisionsBounded, pruneVars, pruneRunVars
<1>3. ListedExist'
  BY DEF IndInv, ListedExist, pruneVars, pruneRunVars
<1>4. FlaggedHaveLater' /\ FlaggedInPhase'
  BY DEF IndInv, FlaggedHaveLater, FlaggedInPhase, pruneVars, pruneRunVars
<1> QED BY <1>1, <1>2, <1>3, <1>4 DEF IndInv, TypeOK

(* The same for a step that leaves the snapshot files alone. *)
LEMMA BackupFrameNoSnapshot ==
  ASSUME IndInv, UNCHANGED <<pruneVars, snapshots>>,
         chunkFiles' \subseteq Chunk, fossilFiles' \subseteq Chunk, now' \in Nat,
         BackupTypeOK',
         \A i \in Id : RevisionInRange(backup'[i], i),
         RevisionsFresh'
  PROVE  IndInv'
<1>1. StorageTypeOK'
  BY DEF IndInv, TypeOK, StorageTypeOK
<1>2. \A s \in snapshots' : s.revision <= MaxRevision[s.id]
  BY DEF IndInv, RevisionsBounded
<1> QED BY <1>1, <1>2, BackupFrame

(* A step of the backup of i that keeps its revision and does not start it *)
(* keeps the revisions fresh.                                              *)
LEMMA BackupSameRevision ==
  ASSUME IndInv, NEW i \in Id, NEW b \in BackupState, b.revision = backup[i].revision,
         Working(b) => Working(backup[i]),
         backup' = [backup EXCEPT ![i] = b], UNCHANGED <<snapshots, incomplete>>
  PROVE  /\ BackupTypeOK'
         /\ \A j \in Id : RevisionInRange(backup'[j], j)
         /\ RevisionsFresh'
<1>1. BackupTypeOK'
  BY DEF IndInv, TypeOK, BackupTypeOK
<1>2. \A j \in Id : backup'[j].revision = backup[j].revision /\ (j /= i => backup'[j] = backup[j])
  BY DEF IndInv, TypeOK, BackupTypeOK
<1>3. \A j \in Id : Working(backup'[j]) => Working(backup[j])
  BY <1>2 DEF IndInv, TypeOK, BackupTypeOK
<1>4. \A j \in Id : RevisionInRange(backup'[j], j)
  BY <1>2, <1>3 DEF IndInv, RevisionsBounded, RevisionInRange
<1>5. RevisionsFresh'
  BY <1>2 DEF IndInv, RevisionsFresh
<1> QED BY <1>1, <1>4, <1>5

(* Running a backup of i at a revision above all of i's. *)
LEMMA StartFromFresh ==
  ASSUME IndInv, NEW i \in Id, NEW last \in Nat, last < MaxRevision[i],
         NEW lastChunks \in SUBSET Chunk,
         \A s \in snapshots : s.id = i => s.revision <= last,
         StartFrom(i, last, lastChunks), UNCHANGED <<storageVars, now, incomplete, pruneVars>>
  PROVE  IndInv'
<1> USE BackupAssumption
<1>1. PICK b \in BackupState :
        b.revision = last + 1 /\ b.pc = "packing" /\ backup' = [backup EXCEPT ![i] = b]
  <2>1. PICK hash \in IF last = 0 THEN {TRUE} ELSE HashModes, kept \in SUBSET Chunk,
             cache \in SUBSET Chunk :
          backup' = [backup EXCEPT ![i] =
            [pc |-> "packing", revision |-> last + 1, hashMode |-> hash, cache |-> cache,
             refs |-> kept, queued |-> {}, absent |-> {}, failed |-> {}, endTime |-> 0]]
    BY DEF StartFrom, StartWith, ListedChunks, NextRevision, IndInv, TypeOK, StorageTypeOK, BackupTypeOK
  <2>2. [pc |-> "packing", revision |-> last + 1, hashMode |-> hash, cache |-> cache,
         refs |-> kept, queued |-> {}, absent |-> {}, failed |-> {}, endTime |-> 0] \in BackupState
    <3>1. hash \in BOOLEAN
      OBVIOUS
    <3> QED BY <3>1 DEF BackupState
  <2> QED BY <2>1, <2>2
<1>2. BackupTypeOK'
  BY <1>1 DEF IndInv, TypeOK, BackupTypeOK
<1>3. backup'[i] = b /\ \A j \in Id : j /= i => backup'[j] = backup[j]
  BY <1>1 DEF IndInv, TypeOK, BackupTypeOK
<1>4. \A j \in Id : RevisionInRange(backup'[j], j)
  BY <1>1, <1>3 DEF IndInv, RevisionsBounded, RevisionInRange
<1>5. RevisionsFresh'
  <2> SUFFICES ASSUME NEW j \in Id, Working(backup'[j]), NEW s \in snapshots, s.id = j
               PROVE  s.revision < backup'[j].revision
    BY DEF RevisionsFresh, storageVars
  <2>1. CASE j = i
    <3>1. s.revision \in Nat
      BY DEF IndInv, TypeOK, StorageTypeOK, Snapshot
    <3> QED BY <2>1, <3>1, <1>1, <1>3
  <2>2. CASE j /= i
    BY <2>2, <1>3 DEF IndInv, RevisionsFresh
  <2> QED BY <2>1, <2>2
<1> QED BY <1>2, <1>4, <1>5, BackupFrameNoSnapshot DEF IndInv, TypeOK, StorageTypeOK, storageVars

LEMMA BackupStepIndInv ==
  ASSUME IndInv, NEW i \in Id, BackupStep(i)
  PROVE  IndInv'
<1> USE BackupAssumption
<1>0. /\ UNCHANGED pruneVars
      /\ backup[i] \in BackupState
      /\ backup \in [Id -> BackupState]
      /\ snapshots \subseteq Snapshot
      /\ MaxRevision[i] \in Nat \ {0}
  BY DEF BackupStep, IndInv, TypeOK, BackupTypeOK, StorageTypeOK
<1>1. CASE BackupStart(i)
  <2>1. UNCHANGED <<storageVars, now, incomplete>>
    BY <1>1 DEF BackupStart
  <2>2. CASE \E latest \in SnapshotsOf(snapshots, i) :
               /\ IsLatest(snapshots, latest)
               /\ latest.revision < MaxRevision[i]
               /\ StartFrom(i, latest.revision, latest.chunks)
    <3>1. PICK latest \in snapshots :
            /\ latest.id = i
            /\ IsLatest(snapshots, latest)
            /\ latest.revision < MaxRevision[i]
            /\ StartFrom(i, latest.revision, latest.chunks)
      BY <2>2 DEF SnapshotsOf
    <3>2. latest.revision \in Nat /\ latest.chunks \in SUBSET Chunk
      BY <1>0 DEF Snapshot
    <3>3. \A s \in snapshots : s.id = i => s.revision <= latest.revision
      BY <3>1 DEF IsLatest
    <3> QED BY <1>0, <2>1, <3>1, <3>2, <3>3, StartFromFresh
  <2>3. CASE SnapshotsOf(snapshots, i) = {} /\ StartFrom(i, 0, {})
    <3>1. \A s \in snapshots : s.id = i => s.revision <= 0
      BY <2>3 DEF SnapshotsOf
    <3>2. 0 < MaxRevision[i] /\ {} \in SUBSET Chunk
      BY <1>0
    <3> QED BY <1>0, <2>1, <2>3, <3>1, <3>2, StartFromFresh
  <2> QED BY <1>1, <2>2, <2>3 DEF BackupStart
<1>2. ASSUME NEW c \in Chunk, BackupPack(i, c) PROVE IndInv'
  <2> DEFINE hit  == [backup[i] EXCEPT !.refs = @ \union {c}]
             miss == [backup[i] EXCEPT !.cache = @ \union {c}, !.refs = @ \union {c},
                                       !.queued = @ \union {c}]
  <2>1. hit \in BackupState /\ hit.revision = backup[i].revision /\ hit.pc = backup[i].pc
    BY <1>0 DEF BackupState
  <2>2. miss \in BackupState /\ miss.revision = backup[i].revision /\ miss.pc = backup[i].pc
    BY <1>0 DEF BackupState
  <2>3. backup' = [backup EXCEPT ![i] = hit] \/ backup' = [backup EXCEPT ![i] = miss]
    BY <1>2, <1>0 DEF BackupPack
  <2>4. UNCHANGED <<storageVars, now, incomplete>>
    BY <1>2 DEF BackupPack
  <2> HIDE DEF hit, miss
  <2>5. /\ BackupTypeOK'
        /\ \A j \in Id : RevisionInRange(backup'[j], j)
        /\ RevisionsFresh'
    BY <2>1, <2>2, <2>3, <2>4, BackupSameRevision DEF storageVars, Working
  <2> QED BY <1>0, <2>4, <2>5, BackupFrameNoSnapshot DEF IndInv, TypeOK, StorageTypeOK, storageVars
<1>3. ASSUME NEW c \in Chunk, BackupFindChunk(i, c) PROVE IndInv'
  <2> DEFINE b == [backup[i] EXCEPT !.queued = @ \ {c},
                                    !.absent = IF c \in chunkFiles THEN @ ELSE @ \union {c}]
  <2>1. b \in BackupState /\ b.revision = backup[i].revision /\ b.pc = backup[i].pc
    BY <1>0 DEF BackupState
  <2>2. backup' = [backup EXCEPT ![i] = b] /\ UNCHANGED <<storageVars, now, incomplete>>
    BY <1>3, <1>0 DEF BackupFindChunk
  <2> HIDE DEF b
  <2>3. /\ BackupTypeOK'
        /\ \A j \in Id : RevisionInRange(backup'[j], j)
        /\ RevisionsFresh'
    BY <2>1, <2>2, BackupSameRevision DEF storageVars, Working
  <2> QED BY <1>0, <2>2, <2>3, BackupFrameNoSnapshot DEF IndInv, TypeOK, StorageTypeOK, storageVars
<1>4. ASSUME NEW c \in Chunk, BackupUploadChunk(i, c) PROVE IndInv'
  <2> DEFINE b == [backup[i] EXCEPT !.absent = @ \ {c}]
  <2>1. b \in BackupState /\ b.revision = backup[i].revision /\ b.pc = backup[i].pc
    BY <1>0 DEF BackupState
  <2>2. /\ backup' = [backup EXCEPT ![i] = b]
        /\ chunkFiles' = chunkFiles \union {c}
        /\ UNCHANGED <<fossilFiles, snapshots, now, incomplete>>
    BY <1>4, <1>0 DEF BackupUploadChunk, UploadChunkFile
  <2> HIDE DEF b
  <2>3. /\ BackupTypeOK'
        /\ \A j \in Id : RevisionInRange(backup'[j], j)
        /\ RevisionsFresh'
    BY <2>1, <2>2, BackupSameRevision DEF Working
  <2> QED BY <1>0, <2>2, <2>3, BackupFrameNoSnapshot DEF IndInv, TypeOK, StorageTypeOK
<1>10. ASSUME NEW c \in Chunk, BackupUploadError(i, c) PROVE IndInv'
  <2> DEFINE b == [backup[i] EXCEPT !.queued = @ \ {c}, !.absent = @ \ {c}, !.failed = @ \union {c}]
  <2>1. b \in BackupState /\ b.revision = backup[i].revision /\ b.pc = backup[i].pc
    BY <1>0 DEF BackupState
  <2>2. backup' = [backup EXCEPT ![i] = b] /\ UNCHANGED <<storageVars, now, incomplete>>
    BY <1>10, <1>0 DEF BackupUploadError
  <2> HIDE DEF b
  <2>3. /\ BackupTypeOK'
        /\ \A j \in Id : RevisionInRange(backup'[j], j)
        /\ RevisionsFresh'
    BY <2>1, <2>2, BackupSameRevision DEF storageVars, Working
  <2> QED BY <1>0, <2>2, <2>3, BackupFrameNoSnapshot DEF IndInv, TypeOK, StorageTypeOK, storageVars
<1>5. CASE BackupEndTime(i)
  <2> DEFINE b == [backup[i] EXCEPT !.pc = "metadata", !.endTime = now]
  <2>1. b \in BackupState /\ b.revision = backup[i].revision
    BY <1>0 DEF BackupState, IndInv, TypeOK, StorageTypeOK
  <2>2. /\ backup' = [backup EXCEPT ![i] = b]
        /\ backup[i].pc = "packing"
        /\ UNCHANGED <<storageVars, now, incomplete>>
    BY <1>5, <1>0 DEF BackupEndTime
  <2> HIDE DEF b
  <2>3. /\ BackupTypeOK'
        /\ \A j \in Id : RevisionInRange(backup'[j], j)
        /\ RevisionsFresh'
    BY <2>1, <2>2, BackupSameRevision DEF storageVars, Working
  <2> QED BY <1>0, <2>2, <2>3, BackupFrameNoSnapshot DEF IndInv, TypeOK, StorageTypeOK, storageVars
<1>7. ASSUME NEW b \in RestStates, backup' = [backup EXCEPT ![i] = b]
      PROVE  /\ backup' \in [Id -> BackupState]
             /\ ~Working(backup'[i])
             /\ \A j \in Id : j /= i => backup'[j] = backup[j]
             /\ \A j \in Id : RevisionInRange(backup'[j], j)
  BY <1>0, <1>7, RestStatesRest DEF IndInv, RevisionsBounded, RevisionInRange
<1>6. IdleBackup \in RestStates
  BY DEF RestStates
<1>8. CASE BackupUploadSnapshot(i)
  <2> DEFINE new == [id |-> i, revision |-> backup[i].revision,
                     chunks |-> backup[i].refs, endTime |-> backup[i].endTime]
  <2>1. /\ snapshots' = snapshots \union {new}
        /\ \E b \in RestStates : backup' = [backup EXCEPT ![i] = b]
        /\ Working(backup[i])
        /\ UNCHANGED <<chunkFiles, fossilFiles, now, incomplete>>
    BY <1>0, <1>8 DEF BackupUploadSnapshot, RestStates, Working, BackupState
  <2>2. new \in [id : Id, revision : Nat, chunks : SUBSET Chunk, endTime : Nat]
    BY <1>0 DEF BackupState
  <2>3. new \in Snapshot /\ new.revision <= MaxRevision[new.id]
    <3>1. backup[i].revision > 0 /\ backup[i].revision <= MaxRevision[i]
      BY <2>1 DEF IndInv, RevisionsBounded, RevisionInRange
    <3> QED BY <2>2, <3>1 DEF Snapshot
  <2>4. StorageTypeOK'
    BY <2>1, <2>3 DEF IndInv, TypeOK, StorageTypeOK
  <2>5. BackupTypeOK'
    BY <2>1, <1>7 DEF IndInv, TypeOK, BackupTypeOK
  <2>6. \A s \in snapshots' : s.revision <= MaxRevision[s.id]
    BY <2>1, <2>3 DEF IndInv, RevisionsBounded
  <2>7. RevisionsFresh'
    <3>1. ~Working(backup'[i]) /\ \A j \in Id : j /= i => backup'[j] = backup[j]
      BY <2>1, <1>7
    <3>2. new.id = i
      OBVIOUS
    <3> HIDE DEF new
    <3> QED BY <2>1, <3>1, <3>2 DEF IndInv, RevisionsFresh
  <2> QED BY <1>0, <1>7, <2>1, <2>4, <2>5, <2>6, <2>7, BackupFrame
<1>9. CASE BackupFail(i) \/ BackupCut(i) \/ BackupDeleteIncomplete(i)
  <2>1. /\ backup' = [backup EXCEPT ![i] = IdleBackup]
        /\ UNCHANGED <<storageVars, now>>
    BY <1>9 DEF BackupFail, BackupCut, BackupDeleteIncomplete
  <2>2. incomplete' \in [Id -> SUBSET Chunk]
    <3>1. incomplete \in [Id -> SUBSET Chunk] /\ Savable(i) \subseteq Chunk
      BY <1>0 DEF Savable, IndInv, TypeOK, BackupTypeOK, BackupState
    <3>2. \A s \in SnapshotsOf(snapshots, i) : s.chunks \subseteq Chunk
      BY <1>0 DEF SnapshotsOf, Snapshot
    <3>3. incomplete' = incomplete \/ \E saved \in SUBSET Chunk : incomplete' = [incomplete EXCEPT ![i] = saved]
      BY <1>9, <3>1, <3>2 DEF BackupFail, BackupCut, BackupDeleteIncomplete
    <3> QED BY <3>1, <3>3
  <2>3. BackupTypeOK'
    BY <2>1, <2>2, <1>6, <1>7 DEF BackupTypeOK
  <2>4. RevisionsFresh'
    BY <2>1, <1>6, <1>7 DEF IndInv, RevisionsFresh, storageVars
  <2> QED BY <1>0, <1>6, <1>7, <2>1, <2>3, <2>4, BackupFrameNoSnapshot DEF IndInv, TypeOK, StorageTypeOK, storageVars
<1> QED BY <1>1, <1>2, <1>3, <1>4, <1>5, <1>8, <1>9, <1>10 DEF BackupStep

-----------------------------------------------------------------------------
(* The clock and the steps of prune. *)

LEMMA TickIndInv ==
  ASSUME IndInv, Tick
  PROVE  IndInv'
<1>1. /\ UNCHANGED <<chunkFiles, fossilFiles, snapshots, backup, incomplete, pruneVars>>
      /\ now' \in Nat
  BY DEF Tick, storageVars, backupVars, IndInv, TypeOK, StorageTypeOK
<1>2. BackupTypeOK' /\ (\A i \in Id : RevisionInRange(backup'[i], i)) /\ RevisionsFresh'
  BY <1>1 DEF IndInv, TypeOK, BackupTypeOK, RevisionsBounded, RevisionsFresh
<1> QED BY <1>1, <1>2, BackupFrameNoSnapshot DEF IndInv, TypeOK, StorageTypeOK

(* What a prune step that adds and removes no snapshot file has to         *)
(* establish.                                                              *)
LEMMA PruneFrame ==
  ASSUME IndInv, UNCHANGED <<backupVars, snapshots, now>>,
         chunkFiles' \subseteq Chunk, fossilFiles' \subseteq Chunk, PruneTypeOK',
         allSnapshots' \subseteq allSnapshots \union snapshots,
         ListedExist', FlaggedHaveLater', FlaggedInPhase'
  PROVE  IndInv'
<1>1. StorageTypeOK' /\ BackupTypeOK'
  BY DEF IndInv, TypeOK, StorageTypeOK, BackupTypeOK, backupVars
<1>2. RevisionsBounded'
  BY DEF IndInv, RevisionsBounded, backupVars
<1>3. RevisionsFresh'
  BY DEF IndInv, RevisionsFresh, backupVars
<1> QED BY <1>1, <1>2, <1>3 DEF IndInv, TypeOK

(* The same for a step that also keeps the list of snapshots and the       *)
(* flags, and does not leave the deletion.                                 *)
LEMMA PruneFrameSame ==
  ASSUME IndInv, UNCHANGED <<backupVars, snapshots, now, pruneMode, allSnapshots, flagged>>,
         chunkFiles' \subseteq Chunk, fossilFiles' \subseteq Chunk, PruneTypeOK',
         prunePc \in {"deleting", "draining"} => prunePc' \in {"deleting", "draining"},
         prunePc \in {"collecting", "deleting"} => prunePc' \in {"collecting", "deleting"}
  PROVE  IndInv'
<1>1. ListedExist'
  BY DEF IndInv, ListedExist
<1>2. FlaggedHaveLater' /\ FlaggedInPhase'
  BY DEF IndInv, FlaggedHaveLater, FlaggedInPhase
<1> QED BY <1>1, <1>2, PruneFrame

(* The end of the command, in whatever way. *)
LEMMA PruneResetIndInv ==
  ASSUME IndInv, PruneReset, UNCHANGED <<backupVars, storageVars, now, collections>>
  PROVE  IndInv'
<1>1. PruneTypeOK'
  BY DEF IndInv, TypeOK, PruneTypeOK, PruneReset, PruneMode, NoMode
<1>2. ListedExist' /\ FlaggedHaveLater' /\ FlaggedInPhase' /\ allSnapshots' = {}
  BY DEF PruneReset, ListedExist, FlaggedHaveLater, FlaggedInPhase
<1> QED BY <1>1, <1>2, PruneFrame DEF IndInv, TypeOK, StorageTypeOK, storageVars

(* The steps of the worker threads. *)
LEMMA TaskIndInv ==
  ASSUME IndInv, NEW t \in tasks, UNCHANGED backupVars,
         \/ TaskFindChunk(t) \/ TaskDelete(t) \/ TaskFossilize(t) \/ TaskAlreadyFossil(t)
         \/ TaskResurrect(t) \/ TaskError(t)
  PROVE  IndInv'
<1>1. t \in Task /\ tasks \subseteq Task
  BY DEF IndInv, TypeOK, PruneTypeOK
<1>2. t.chunk \in Chunk
  BY <1>1 DEF Task
<1>3. \A step \in {"found", "absent", "failed"} : [t EXCEPT !.step = step] \in Task
  BY <1>1 DEF Task
<1>4. \A step \in {"found", "absent", "failed"} : Advance(t, step) => tasks' \subseteq Task
  BY <1>1, <1>3 DEF Advance
<1>5. Finish(t) => tasks' \subseteq Task
  BY <1>1 DEF Finish
<1>6. /\ TaskFrame
      /\ tasks' \subseteq Task
      /\ chunkFiles' \subseteq Chunk
      /\ fossilFiles' \subseteq Chunk
      /\ newFossils' \subseteq Chunk
  <2>1. chunkFiles \subseteq Chunk /\ fossilFiles \subseteq Chunk /\ newFossils \subseteq Chunk
    BY DEF IndInv, TypeOK, StorageTypeOK, PruneTypeOK
  <2>2. CASE TaskFindChunk(t)
    BY <1>4, <1>5, <2>1, <2>2 DEF TaskFindChunk
  <2>3. CASE TaskDelete(t)
    BY <1>5, <2>1, <2>3 DEF TaskDelete, DeleteFossilFile, DeleteChunkFile
  <2>4. CASE TaskFossilize(t)
    BY <1>2, <1>4, <1>5, <2>1, <2>4 DEF TaskFossilize, MoveChunkToFossil
  <2>5. CASE TaskAlreadyFossil(t)
    BY <1>2, <1>5, <2>1, <2>5 DEF TaskAlreadyFossil
  <2>6. CASE TaskResurrect(t)
    BY <1>2, <1>5, <2>1, <2>6 DEF TaskResurrect, DeleteFossilFile, MoveFossilToChunk
  <2>7. CASE TaskError(t)
    BY <1>5, <2>1, <2>7 DEF TaskError
  <2> QED BY <2>2, <2>3, <2>4, <2>5, <2>6, <2>7
<1>7. PruneTypeOK'
  BY <1>6 DEF TaskFrame, IndInv, TypeOK, PruneTypeOK
<1> QED BY <1>6, <1>7, PruneFrameSame DEF TaskFrame

LEMMA ReapTasksType ==
  ASSUME NEW k \in FossilCollection
  PROVE  ReapTasks(k) \subseteq Task
<1>1. k.number \in Nat /\ k.fossils \subseteq Chunk
  BY DEF FossilCollection
<1>2. ASSUME NEW c \in k.fossils, NEW op \in {"resurrect", "delete"}
      PROVE  [op |-> op, chunk |-> c, file |-> "fossil", stage |-> k.number, step |-> "queued"] \in Task
  BY <1>1 DEF Task
<1> DEFINE Op(c) == IF c \in ChunksOf(ResurrectFor(k)) THEN "resurrect" ELSE "delete"
<1>3. \A c \in k.fossils : Op(c) \in {"resurrect", "delete"}
  OBVIOUS
<1>4. ReapTasks(k) = {[op |-> Op(c), chunk |-> c, file |-> "fossil", stage |-> k.number,
                       step |-> "queued"] : c \in k.fossils}
  BY DEF ReapTasks
<1> HIDE DEF Op
<1> QED BY <1>2, <1>3, <1>4

LEMMA CollectionsIndInv ==
  ASSUME IndInv, NEW k \in collections, UNCHANGED backupVars,
         PruneGhost(k) \/ PruneReap(k) \/ PruneDeleteCollection(k) \/ PrunePostpone(k)
  PROVE  IndInv'
<1>1. k \in FossilCollection /\ k.fossils \subseteq Chunk
  BY DEF IndInv, TypeOK, PruneTypeOK, FossilCollection
<1>2. {RecordedFossil(c) : c \in k.fossils} \subseteq {RecordedFossil(c) : c \in Chunk}
  BY <1>1
<1>3. /\ UNCHANGED <<storageVars, now, prunePc, pruneMode, allSnapshots, flagged>>
      /\ UNCHANGED <<toList, collectionNumber, newFossils>>
      /\ collections' \subseteq collections
      /\ todo' \subseteq todo
      /\ reaped' \subseteq reaped \union {k}
      /\ referencedFossils' \subseteq referencedFossils \union {RecordedFossil(c) : c \in k.fossils}
      /\ tasks' \subseteq tasks \union ReapTasks(k)
  <2> HIDE DEF ReapTasks
  <2>1. CASE PruneGhost(k)
    BY <2>1 DEF PruneGhost
  <2>2. CASE PruneReap(k)
    BY <2>2 DEF PruneReap
  <2>3. CASE PruneDeleteCollection(k)
    BY <2>3 DEF PruneDeleteCollection
  <2>4. CASE PrunePostpone(k)
    BY <2>4 DEF PrunePostpone
  <2> QED BY <2>1, <2>2, <2>3, <2>4
<1>4. ReapTasks(k) \subseteq Task
  BY <1>1, ReapTasksType
<1>5. PruneTypeOK'
  <2>1. tasks' \subseteq Task /\ referencedFossils' \subseteq {RecordedFossil(c) : c \in Chunk}
    BY <1>2, <1>3, <1>4 DEF IndInv, TypeOK, PruneTypeOK
  <2> QED BY <1>1, <1>3, <2>1 DEF IndInv, TypeOK, PruneTypeOK
<1> QED BY <1>3, <1>5, PruneFrameSame DEF IndInv, TypeOK, StorageTypeOK, storageVars

(* Step 1: the selection spares the latest revision that was listed, and   *)
(* what was listed still exists, so a later revision stays for each one    *)
(* flagged.                                                                *)
LEMMA PruneSelectIndInv ==
  ASSUME IndInv, NEW S \in SUBSET allSnapshots, PruneSelect(S), UNCHANGED backupVars
  PROVE  IndInv'
<1> USE BackupAssumption
<1>1. /\ UNCHANGED <<storageVars, now, collections, pruneMode, toList, allSnapshots, todo, reaped,
                     collectionNumber, referencedFossils>>
      /\ prunePc = "select" /\ prunePc' = "collecting" /\ flagged' = S /\ LatestSpared(S)
  BY DEF PruneSelect
<1>2. /\ collectionNumber \in Nat /\ tasks \subseteq Task /\ newFossils \subseteq Chunk
      /\ allSnapshots \subseteq Snapshot /\ chunkFiles \subseteq Chunk /\ fossilFiles \subseteq Chunk
  BY DEF IndInv, TypeOK, PruneTypeOK, StorageTypeOK
<1>3. ASSUME NEW op \in {"fossilize", "resurrect", "delete"}, NEW c \in Chunk,
             NEW file \in {"", "chunk", "fossil"}
      PROVE  NewTask(op, c, file) \in Task
  BY <1>2 DEF NewTask, Task
<1>4. ASSUME NEW c \in Chunk, NEW file \in {"", "chunk", "fossil"}
      PROVE  FossilizeChunk(c, file) \in Task
  BY <1>3 DEF FossilizeChunk
<1>5. TargetChunks(S) \subseteq Chunk
  BY <1>2 DEF TargetChunks, ChunksOf, Snapshot
<1>6. tasks' \subseteq Task /\ newFossils' \subseteq Chunk
  <2>1. CASE NonExhaustive(S)
    BY <1>2, <1>4, <1>5, <2>1 DEF NonExhaustive
  <2>2. CASE Exhaustive(S)
    BY <1>2, <1>3, <1>4, <2>2 DEF Exhaustive
  <2> QED BY <2>1, <2>2 DEF PruneSelect
<1>7. PruneTypeOK'
  BY <1>1, <1>2, <1>6 DEF IndInv, TypeOK, PruneTypeOK
<1>8. FlaggedHaveLater'
  <2> SUFFICES ASSUME ~pruneMode.exclusive, NEW s \in S
               PROVE  \E t \in snapshots \ S : t.id = s.id /\ t.revision > s.revision
    BY <1>1 DEF FlaggedHaveLater, storageVars
  <2>1. s \in allSnapshots /\ s.id \in Id /\ MaxRevision[s.id] \in Nat
    BY <1>2 DEF Snapshot
  <2>2. \A t \in allSnapshots : t.id = s.id => t.revision <= MaxRevision[s.id]
    BY DEF IndInv, RevisionsBounded
  <2>3. PICK t \in allSnapshots : t.id = s.id /\ IsLatest(allSnapshots, t)
    BY <1>2, <2>1, <2>2, LatestExists
  <2>4. \A u \in S : ~IsLatest(allSnapshots, u)
    BY <1>1 DEF LatestSpared
  <2>5. t \notin S
    BY <2>3, <2>4
  <2>6. t.revision > s.revision
    <3>1. PICK u \in allSnapshots : u.id = s.id /\ ~(u.revision <= s.revision)
      BY <2>1, <2>4 DEF IsLatest
    <3>2. u.revision <= t.revision
      BY <2>3, <3>1 DEF IsLatest
    <3>3. u.revision \in Nat /\ s.revision \in Nat /\ t.revision \in Nat
      BY <1>2, <2>1, <2>3, <3>1 DEF Snapshot
    <3> QED BY <3>1, <3>2, <3>3
  <2>7. t \in snapshots
    BY <1>1, <2>3 DEF IndInv, ListedExist
  <2> QED BY <2>3, <2>5, <2>6, <2>7
<1>9. ListedExist' /\ FlaggedInPhase'
  BY <1>1 DEF IndInv, ListedExist, FlaggedInPhase, storageVars
<1> QED BY <1>1, <1>2, <1>7, <1>8, <1>9, PruneFrame DEF storageVars

LEMMA PruneSaveIndInv ==
  ASSUME IndInv, PruneSave, UNCHANGED backupVars
  PROVE  IndInv'
<1> USE BackupAssumption
<1> DEFINE new == [number |-> collectionNumber, endTime |-> now, lastRevisions |-> LastRevisions,
                   deletedRevisions |-> {<<s.id, s.revision>> : s \in flagged},
                   fossils |-> newFossils]
<1>1. LastRevisions \in [Id -> Nat]
  <2>1. ASSUME NEW i \in Id PROVE LatestRevision(allSnapshots, i) \in Nat
    <3>1. allSnapshots \in SUBSET Snapshot /\ MaxRevision[i] \in Nat
      BY DEF IndInv, TypeOK, PruneTypeOK
    <3>2. \A t \in allSnapshots : t.id = i => t.revision <= MaxRevision[i]
      BY DEF IndInv, RevisionsBounded
    <3> QED BY <3>1, <3>2, LatestRevisionType
  <2> QED BY <2>1 DEF LastRevisions
<1>2. {<<s.id, s.revision>> : s \in flagged} \subseteq Id \X Nat
  BY DEF IndInv, TypeOK, PruneTypeOK, Snapshot
<1>3. new \in FossilCollection
  BY <1>1, <1>2 DEF FossilCollection, IndInv, TypeOK, PruneTypeOK, StorageTypeOK
<1>4. collections' \subseteq collections \union {new}
  BY DEF PruneSave
<1> HIDE DEF new
<1>5. PruneTypeOK'
  BY <1>3, <1>4 DEF PruneSave, IndInv, TypeOK, PruneTypeOK
<1> QED BY <1>5, PruneFrameSame DEF PruneSave, IndInv, TypeOK, StorageTypeOK, storageVars

LEMMA PruneDeleteIndInv ==
  ASSUME IndInv, NEW s \in flagged, PruneDeleteSnapshot(s), UNCHANGED backupVars
  PROVE  IndInv'
<1>1. StorageTypeOK' /\ BackupTypeOK' /\ PruneTypeOK'
  BY DEF PruneDeleteSnapshot, IndInv, TypeOK, StorageTypeOK, BackupTypeOK, PruneTypeOK, backupVars
<1>2. RevisionsBounded' /\ RevisionsFresh'
  BY DEF PruneDeleteSnapshot, IndInv, RevisionsBounded, RevisionsFresh, backupVars
<1>3. ListedExist' /\ FlaggedInPhase'
  BY DEF PruneDeleteSnapshot, ListedExist, FlaggedInPhase
<1>4. snapshots' \ flagged' = snapshots \ flagged /\ flagged' \subseteq flagged
  BY DEF PruneDeleteSnapshot
<1>5. FlaggedHaveLater'
  BY <1>4 DEF PruneDeleteSnapshot, IndInv, FlaggedHaveLater
<1> QED BY <1>1, <1>2, <1>3, <1>5 DEF IndInv, TypeOK

LEMMA PruneStepIndInv ==
  ASSUME IndInv, PruneStep
  PROVE  IndInv'
<1> USE PruneAssumption
<1>0. UNCHANGED backupVars
  BY DEF PruneStep
<1>1. ASSUME NEW mode \in PruneModes, PruneStart(mode) PROVE IndInv'
  <2>1. PruneTypeOK'
    BY <1>1 DEF PruneStart, IndInv, TypeOK, PruneTypeOK
  <2>2. ListedExist' /\ FlaggedHaveLater' /\ FlaggedInPhase'
    BY <1>1 DEF PruneStart, IndInv, ListedExist, FlaggedHaveLater, FlaggedInPhase, storageVars
  <2> QED BY <1>0, <1>1, <2>1, <2>2, PruneFrame
          DEF PruneStart, IndInv, TypeOK, StorageTypeOK, storageVars
<1>2. ASSUME NEW i \in Id, PruneList(i) PROVE IndInv'
  <2>1. allSnapshots' \subseteq allSnapshots \union snapshots
    BY <1>2 DEF PruneList, SnapshotsOf
  <2>2. PruneTypeOK'
    BY <1>2, <2>1 DEF PruneList, IndInv, TypeOK, PruneTypeOK, StorageTypeOK
  <2>3. ListedExist' /\ FlaggedHaveLater' /\ FlaggedInPhase'
    BY <1>2, <2>1 DEF PruneList, IndInv, ListedExist, FlaggedHaveLater, FlaggedInPhase, storageVars
  <2> QED BY <1>0, <1>2, <2>1, <2>2, <2>3, PruneFrame
          DEF PruneList, IndInv, TypeOK, StorageTypeOK, storageVars
<1>3. CASE PruneListCollections
  <2>1. collectionNumber' \in Nat
    BY <1>3 DEF PruneListCollections, IndInv, TypeOK, PruneTypeOK, FossilCollection
  <2>2. PruneTypeOK'
    BY <1>3, <2>1 DEF PruneListCollections, IndInv, TypeOK, PruneTypeOK
  <2> QED BY <1>0, <1>3, <2>2, PruneFrameSame
          DEF PruneListCollections, IndInv, TypeOK, StorageTypeOK, storageVars
<1>4. CASE PruneCollectionsDone
  <2>1. PruneTypeOK'
    BY <1>4 DEF PruneCollectionsDone, IndInv, TypeOK, PruneTypeOK
  <2> QED BY <1>0, <1>4, <2>1, PruneFrameSame
          DEF PruneCollectionsDone, IndInv, TypeOK, StorageTypeOK, storageVars
<1>5. CASE PruneNothing
  <2>1. PruneTypeOK'
    BY <1>5 DEF PruneNothing, IndInv, TypeOK, PruneTypeOK
  <2> QED BY <1>0, <1>5, <2>1, PruneFrameSame
          DEF PruneNothing, IndInv, TypeOK, StorageTypeOK, storageVars
<1>6. CASE PruneEnd \/ PruneCrash
  BY <1>0, <1>6, PruneResetIndInv DEF PruneEnd, PruneCrash
<1> QED BY <1>0, <1>1, <1>2, <1>3, <1>4, <1>5, <1>6, CollectionsIndInv, PruneSelectIndInv,
           PruneSaveIndInv, PruneDeleteIndInv, TaskIndInv DEF PruneStep

LEMMA NextIndInv ==
  ASSUME IndInv, [Next]_vars
  PROVE  IndInv'
<1>1. CASE Next
  BY <1>1, TickIndInv, BackupStepIndInv, PruneStepIndInv DEF Next
<1>2. CASE UNCHANGED vars
  <2>1. BackupTypeOK' /\ (\A i \in Id : RevisionInRange(backup'[i], i)) /\ RevisionsFresh'
    BY <1>2 DEF vars, storageVars, backupVars, IndInv, TypeOK, BackupTypeOK, RevisionsBounded,
                RevisionsFresh
  <2> QED BY <1>2, <2>1, BackupFrameNoSnapshot
          DEF vars, pruneVars, storageVars, backupVars, IndInv, TypeOK, StorageTypeOK
<1> QED BY <1>1, <1>2

-----------------------------------------------------------------------------
(* The theorems. *)

LEMMA InductiveInvariant == Spec => []IndInv
BY InitIndInv, NextIndInv, PTL DEF Spec

(* The storage, the backups and prune keep the types the code declares,    *)
(* whatever the number of clients, chunks and threads and whatever options *)
(* Backup and PruneSnapshots are run with.                                 *)
THEOREM TypeCorrect == Spec => []TypeOK
<1>1. IndInv => TypeOK
  BY DEF IndInv
<1> QED BY <1>1, InductiveInvariant, PTL

(* The revision Backup chooses, one above the latest it downloaded, is     *)
(* above every revision of the id until the snapshot file is written: an   *)
(* upload never replaces a snapshot file, however prune interleaves.       *)
THEOREM RevisionsAlwaysFresh == Spec => []RevisionsFresh
<1>1. IndInv => RevisionsFresh
  BY DEF IndInv
<1> QED BY <1>1, InductiveInvariant, PTL

(* PruneSnapshots without -exclusive deletes a snapshot file only while a  *)
(* later revision of the same id exists, even though the check is made on  *)
(* a list read long before and new revisions appear in between.            *)
THEOREM LatestAlwaysKept == Spec => LatestKept
<1> DEFINE Kept == \A s \in snapshots \ snapshots' :
                     \/ pruneMode.exclusive
                     \/ \E t \in snapshots' : t.id = s.id /\ t.revision > s.revision
<1>1. ASSUME IndInv, [Next]_vars PROVE [Kept]_vars
  <2>1. CASE \E s \in flagged : PruneDeleteSnapshot(s)
    <3>1. PICK s \in flagged : PruneDeleteSnapshot(s)
      BY <2>1
    <3>2. snapshots' = snapshots \ {s}
      BY <3>1 DEF PruneDeleteSnapshot
    <3>3. pruneMode.exclusive \/ \E t \in snapshots \ flagged : t.id = s.id /\ t.revision > s.revision
      BY <1>1 DEF IndInv, FlaggedHaveLater
    <3>4. snapshots \ flagged \subseteq snapshots'
      BY <3>2
    <3> QED BY <3>2, <3>3, <3>4
  <2>2. CASE ~\E s \in flagged : PruneDeleteSnapshot(s)
    <3>1. snapshots \subseteq snapshots'
      <4>1. CASE UNCHANGED vars
        BY <4>1 DEF vars, storageVars
      <4>2. CASE Tick
        BY <4>2 DEF Tick, storageVars
      <4>3. ASSUME NEW i \in Id, BackupStep(i) PROVE snapshots \subseteq snapshots'
        BY <4>3 DEF BackupStep, BackupStart, BackupEndTime, BackupUploadSnapshot, BackupDeleteIncomplete, BackupCut, BackupFail,
                    BackupPack, BackupFindChunk, BackupUploadChunk, BackupUploadError, storageVars
      <4>4. CASE PruneStep
        BY <2>2, <4>4 DEF PruneStep, PruneStart, PruneList, PruneListCollections, PruneGhost,
             PruneReap, PruneDeleteCollection, PrunePostpone, PruneCollectionsDone, PruneSelect,
             PruneNothing, PruneSave, PruneEnd, PruneCrash, TaskFindChunk, TaskDelete,
             TaskFossilize, TaskAlreadyFossil, TaskResurrect, TaskError, TaskFrame, storageVars
      <4> QED BY <1>1, <4>1, <4>2, <4>3, <4>4 DEF Next
    <3> QED BY <3>1
  <2> QED BY <2>1, <2>2
<1> QED BY <1>1, InductiveInvariant, PTL DEF Spec, LatestKept

=============================================================================
