---------------------------- MODULE LockFreeDedup ----------------------------
(***************************************************************************)
(* Backups of all snapshot ids and the prune command of one machine, over  *)
(* a shared storage and without locks.  The constants below state what the *)
(* clients are relied upon to do; a run that checks the promise of         *)
(* lock-free deduplication says which of them it needs.                    *)
(***************************************************************************)
EXTENDS BackupClient, PruneClient

CONSTANTS
  SeededIds,     \* ids that have a revision when the behaviour starts
  ActiveIds,     \* ids that back up
  PromptBackups, \* an active id backs up before its host counts as dormant
  MaxPending,    \* snapshots are deleted while fewer collections than this are pending
  PruneKilled,   \* the prune process may die at any point
  Overlap        \* ids whose backups run beside other commands

ASSUME ScenarioAssumption ==
  /\ SeededIds \subseteq Id
  /\ ActiveIds \subseteq Id
  /\ PromptBackups \in BOOLEAN
  /\ MaxPending \in Nat
  /\ PruneKilled \in BOOLEAN
  /\ Overlap \subseteq Id

vars == <<storageVars, now, backupVars, collections, pruneRunVars>>

(* What each side leaves alone. *)
pruneVars == <<collections, pruneRunVars>>

-----------------------------------------------------------------------------
(* When a command may run. *)

(* Of the snapshots S, the last of i's host is older than DormantAge. *)
Dormant(S, i, time) ==
  LET host == {s \in S : HostOf[s.id] = HostOf[i]}
  IN host /= {} /\ \A s \in host : s.endTime + DormantAge < time

NoBackup == \A i \in Id : backup[i].pc = "idle"

(* No backup is running that is not to be disturbed. *)
NoLoneBackup == \A i \in Id \ Overlap : backup[i].pc = "idle"

(* IsDeletable presumes that a host runs one backup at a time, and         *)
(* -exclusive is the user's word that no other client is active.           *)
MayStartBackup(i) ==
  /\ i \in ActiveIds
  /\ \A j \in Id : HostOf[j] = HostOf[i] => backup[j].pc = "idle"
  /\ ~pruneMode.exclusive
  /\ NoLoneBackup
  /\ i \notin Overlap => NoBackup /\ prunePc = "idle"

MayStartPrune(mode) == NoLoneBackup /\ (mode.exclusive => NoBackup)

MayCollect == Cardinality(collections) < MaxPending

-----------------------------------------------------------------------------
Init ==
  /\ \E content \in [SeededIds -> SUBSET Chunk] :
       /\ snapshots = {[id |-> i, revision |-> 1, chunks |-> content[i], endTime |-> 1] : i \in SeededIds}
       /\ chunkFiles = UNION {content[i] : i \in SeededIds}
  /\ fossilFiles = {}
  /\ now = 1
  /\ BackupInit
  /\ PruneInit

Tick ==
  /\ now < MaxTime
  /\ PromptBackups => \A i \in ActiveIds, S \in {snapshots, allSnapshots} : ~Dormant(S, i, now + 1)
  /\ now' = now + 1
  /\ UNCHANGED <<storageVars, backupVars, pruneVars>>

BackupStep(i) ==
  /\ \/ MayStartBackup(i) /\ BackupStart(i)
     \/ BackupEndTime(i)
     \/ BackupUploadSnapshot(i)
     \/ BackupDeleteIncomplete(i)
     \/ BackupCut(i)
     \/ BackupFail(i)
     \/ \E c \in Chunk : \/ BackupPack(i, c) \/ BackupFindChunk(i, c) \/ BackupUploadChunk(i, c)
                        \/ BackupUploadError(i, c)
  /\ UNCHANGED pruneVars

PruneStep ==
  /\ \/ \E mode \in PruneModes : MayStartPrune(mode) /\ PruneStart(mode)
     \/ \E i \in Id : PruneList(i)
     \/ PruneListCollections
     \/ \E k \in collections :
          PruneGhost(k) \/ PruneReap(k) \/ PruneDeleteCollection(k) \/ PrunePostpone(k)
     \/ PruneCollectionsDone
     \/ \E S \in SUBSET allSnapshots : MayCollect /\ PruneSelect(S)
     \/ PruneNothing
     \/ PruneSave
     \/ \E s \in flagged : PruneDeleteSnapshot(s)
     \/ PruneEnd
     \/ PruneKilled /\ PruneCrash
     \/ \E t \in tasks :
          \/ TaskFindChunk(t) \/ TaskDelete(t) \/ TaskFossilize(t) \/ TaskAlreadyFossil(t)
          \/ TaskResurrect(t) \/ TaskError(t)
  /\ UNCHANGED backupVars

Next == Tick \/ (\E i \in Id : BackupStep(i)) \/ PruneStep

Spec == Init /\ [][Next]_vars

-----------------------------------------------------------------------------
TypeOK == StorageTypeOK /\ BackupTypeOK /\ PruneTypeOK

(* Every chunk a snapshot file references can be read, as the chunk file   *)
(* or as its fossil, however backups and two-step fossil collection        *)
(* interleave.  An exclusive prune deletes chunks before the snapshots     *)
(* that reference them: those it is about to delete are left out.          *)
NoChunkLost ==
  \A s \in snapshots :
    \/ pruneMode.exclusive /\ s \in flagged
    \/ \A c \in s.chunks : Readable(c)

(* A running backup does not ask about, or upload, the chunks its cache    *)
(* holds: each of them stays readable until the backup ends, unless its    *)
(* upload is still under way.                                              *)
CacheReadable ==
  \A i \in Id : \A c \in (backup[i].cache \union backup[i].refs) \ InFlight(i) : Readable(c)

(* A snapshot that references a fossil and has no chunk file to fall back  *)
(* on is new to every collection that holds the fossil, or the collection  *)
(* will be dropped as a ghost: step 2 looks at new snapshots only.         *)
FossilUsersAreNew ==
  \A k \in collections, s \in snapshots :
    \/ s.revision > k.lastRevisions[s.id]
    \/ IsGhost(k, snapshots)
    \/ s.chunks \intersect k.fossils \subseteq chunkFiles

(* The workers never meet the situation they report with LOG_ERROR: the    *)
(* fossil to resurrect, or the chunk to fossilize, is there.               *)
NoTaskError == \A t \in tasks : t.step \in {"absent", "failed"} => t.chunk \in fossilFiles

(* A backup never writes over the snapshot file of an existing revision.   *)
RevisionsFresh ==
  \A i \in Id : Working(backup[i]) =>
    \A s \in snapshots : s.id = i => s.revision < backup[i].revision

(* Prune removes a revision only if a later one of the same id stays,      *)
(* unless it is exclusive.                                                 *)
LatestKept ==
  [][\A s \in snapshots \ snapshots' :
       \/ pruneMode.exclusive
       \/ \E t \in snapshots' : t.id = s.id /\ t.revision > s.revision]_vars

(* When a snapshot file is deleted, a saved collection holds each of its   *)
(* chunks that no remaining snapshot references, so that a later run can   *)
(* reclaim the space.                                                      *)
DeletedAreCollected ==
  [][\A s \in snapshots \ snapshots' : \A c \in s.chunks :
       \/ pruneMode.exclusive
       \/ c \in ChunksOf(snapshots')
       \/ \E k \in collections : c \in k.fossils]_vars

-----------------------------------------------------------------------------
(* What the users see of all this: a chunk is there as long as a download  *)
(* finds the chunk file or the fossil, and a backup counts on what is in   *)
(* its cache and in its snapshot unless the upload is under way.           *)
Promise == INSTANCE SnapshotStore WITH
  readable <- chunkFiles \union fossilFiles,
  relied   <- [i \in Id |-> (backup[i].cache \union backup[i].refs) \ InFlight(i)]

(* Backups and the two steps of fossil collection, with all that can come  *)
(* between their requests, implement a store that takes a chunk away only  *)
(* at a moment when no snapshot and no running backup needs it, to which   *)
(* a backup adds a complete snapshot at once, and which keeps the latest   *)
(* snapshot of each id.                                                    *)
StoreImplemented == Promise!Spec

=============================================================================
