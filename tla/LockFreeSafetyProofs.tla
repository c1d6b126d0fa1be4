------------------------ MODULE LockFreeSafetyProofs ------------------------
(***************************************************************************)
(* The promise of lock-free deduplication, proved for any number of ids,   *)
(* chunks, revisions and prune runs: under the conditions of               *)
(* LockFreeScenario two-step fossil collection loses no chunk that a       *)
(* snapshot or a running backup needs, although backups and prune never    *)
(* wait for each other and prune may be killed anywhere.                   *)
(*                                                                         *)
(* The argument.  A chunk becomes a fossil only if no snapshot listed and  *)
(* kept references it, so whoever references it later is new to the        *)
(* collection that holds it (UsersAreNew).  Once a backup of an id has     *)
(* ended after the collection was saved, later backups of the id know the  *)
(* fossil only through that snapshot (FirstLateDecides).  Step 2 waits for *)
(* such a snapshot of every id that backs up, and resurrects what it, or   *)
(* an earlier new one, references; what is left is used by nobody          *)
(* (UsedIsResurrected), and stays so, because a backup takes a chunk into  *)
(* use only from what it relies on or by finding or writing its file.      *)
(***************************************************************************)
EXTENDS LockFreeDedupProofs, FiniteSetTheorems

-----------------------------------------------------------------------------
(* The conditions of the lockfree run: no storage request fails, backups   *)
(* are not run with -hash, prune runs with one thread and without          *)
(* -exclusive and -ignore, snapshots are deleted only while no collection  *)
(* is pending, every id has been backed up before, hosts that back up do   *)
(* so often enough, and ids do not share a host.  Without any one of them  *)
(* the code does lose chunks.                                              *)
LockFreeScenario ==
  /\ ~StorageErrors
  /\ HashModes = {FALSE}
  /\ \A mode \in PruneModes : ~mode.exclusive /\ mode.ignored = {}
  /\ Threads = 1
  /\ MaxPending <= 1
  /\ SeededIds = Id
  /\ PromptBackups
  /\ \A i, j \in Id : HostOf[i] = HostOf[j] => i = j

-----------------------------------------------------------------------------
(* The chunks a running backup relies on: those in its cache and in the    *)
(* new snapshot whose upload is not under way.                             *)
ReliedBy(b) == (b.cache \union b.refs) \ (b.queued \union b.absent)

LEMMA ReliedAtRest == \A b \in RestStates : ReliedBy(b) = {}
BY RestStatesRest DEF ReliedBy

(* A snapshot or a running backup needs the chunk c. *)
Used(c) == c \in ChunksOf(snapshots) \/ \E i \in Id : c \in ReliedBy(backup[i])

(* The snapshot s is new to the collection k. *)
IsNewTo(k, s) == s.revision > k.lastRevisions[s.id]

(* The phases that act on the listing before the deletion. *)
Looking == {"listing", "collections", "select", "collecting"}

-----------------------------------------------------------------------------
(* Snapshots and backups. *)

(* Every id has a snapshot, and one only per revision. *)
Seeded ==
  /\ \A i \in Id : \E s \in snapshots : s.id = i
  /\ \A s, t \in snapshots : s.id = t.id /\ s.revision = t.revision => s = t

(* A backup that is not running has no state, and only active ids back up. *)
BackupShape ==
  \A i \in Id : /\ ~Working(backup[i]) => backup[i] \in RestStates
                /\ Working(backup[i]) => i \in ActiveIds

(* The clock: a later revision did not end earlier. *)
EndTimes ==
  /\ \A s \in snapshots : s.endTime <= now
  /\ \A s, t \in snapshots : s.id = t.id /\ s.revision < t.revision => s.endTime <= t.endTime
  /\ \A i \in Id : backup[i].pc = "metadata" =>
       /\ backup[i].endTime <= now
       /\ \A s \in snapshots : s.id = i => s.endTime <= backup[i].endTime

IsRecent(s) == ~(s.endTime + DormantAge < now)

(* An id that backs up has a snapshot that is not too old, and so has the  *)
(* listing: its host does not count as dormant.                            *)
Awake ==
  \A i \in ActiveIds :
    /\ \E s \in snapshots : s.id = i /\ IsRecent(s)
    /\ (\E s \in allSnapshots : s.id = i) => \E s \in allSnapshots : s.id = i /\ IsRecent(s)

HistoryInv == Seeded /\ BackupShape /\ EndTimes /\ Awake

-----------------------------------------------------------------------------
(* What prune has in memory. *)

NormalMode == ~pruneMode.exclusive /\ pruneMode.ignored = {}

(* The snapshots that appeared since the listing are later than those      *)
(* listed, and of active ids.                                              *)
Listed ==
  prunePc \in Looking => \A i \in Id \ toList :
    /\ \E t \in allSnapshots : t.id = i
    /\ \A s \in snapshots \ allSnapshots : s.id = i =>
         /\ i \in ActiveIds
         /\ \A t \in allSnapshots : t.id = i => t.revision < s.revision

(* Nothing is deleted before the phase "deleting". *)
ListedStay == prunePc /= "deleting" => allSnapshots \subseteq snapshots

(* What is in memory in which phase.  There is one collection at most, so  *)
(* the tasks of step 2 are those of one collection, and snapshots are      *)
(* selected only when none is left.                                        *)
Phases ==
  /\ prunePc = "idle" => allSnapshots = {} /\ toList = {}
  /\ prunePc /= "listing" => toList = {}
  /\ prunePc \in {"idle", "listing", "deleting"} \/ todo /= {} => tasks = {}
  /\ todo \subseteq collections /\ (todo /= {} => prunePc = "collections")
  /\ reaped /= {} => prunePc = "collections" /\ todo = {}
  /\ \A k \in todo : k.number < collectionNumber
  /\ prunePc \notin {"collecting", "deleting"} => newFossils = {}
  /\ prunePc = "collecting" => collections = {} /\ flagged \subseteq allSnapshots

MemoryInv == NormalMode /\ Listed /\ ListedStay /\ Phases

-----------------------------------------------------------------------------
(* The tasks of the workers. *)

(* The queue is first in, first out, and one worker serves it: a task that *)
(* has been taken is the only one, of the lowest stage.                    *)
TaskOrder ==
  /\ \A t, u \in tasks : t.stage = u.stage /\ t.chunk = u.chunk => t = u
  /\ \A t, u \in tasks : t.step /= "queued" => t.stage <= u.stage
  /\ \A t, u \in tasks : t.step /= "queued" /\ u.step /= "queued" => t = u
  /\ prunePc /= "collecting" => \A t \in tasks : t.stage < collectionNumber

(* A fossil about to be deleted is not needed: its chunk file is back, or  *)
(* nobody uses the chunk.                                                  *)
DeleteTasks ==
  \A t \in tasks : t.op = "delete" =>
    /\ t.file = "fossil" /\ t.step = "queued"
    /\ t.stage < collectionNumber
    /\ t.chunk \in chunkFiles \/ ~Used(t.chunk)

(* A chunk to be resurrected is referenced by a snapshot that exists. *)
ResurrectTasks ==
  \A t \in tasks : t.op = "resurrect" =>
    /\ t.file = "fossil" /\ t.step /= "failed"
    /\ t.chunk \in ChunksOf(allSnapshots)
    /\ t.step = "found" => t.chunk \in chunkFiles
    /\ t.step = "absent" => t.chunk \in fossilFiles

(* A chunk to be fossilized is referenced by none of the snapshots listed  *)
(* and kept, and is there, as a file or as a fossil.                       *)
FossilizeTasks ==
  \A t \in tasks : t.op = "fossilize" =>
    /\ prunePc = "collecting" /\ t.stage = collectionNumber
    /\ t.chunk \notin ChunksOf(allSnapshots \ flagged)
    /\ t.file /= "fossil"
    /\ t.file = "chunk" /\ t.step = "queued" => t.chunk \in chunkFiles
    /\ t.file = "" => t.chunk \in ChunksOf(flagged)
    /\ t.step = "found" => t.chunk \in chunkFiles
    /\ t.step \in {"absent", "failed"} => t.chunk \in fossilFiles

(* Step 1 collects what only flagged snapshots reference, and nothing that *)
(* a snapshot listed and kept references.                                  *)
Collecting ==
  prunePc = "collecting" =>
    /\ newFossils \intersect ChunksOf(allSnapshots \ flagged) = {}
    /\ \A c \in ChunksOf(flagged) \ ChunksOf(allSnapshots \ flagged) :
         c \in newFossils \/ \E t \in tasks : t.op = "fossilize" /\ t.chunk = c

TasksInv == TaskOrder /\ DeleteTasks /\ ResurrectTasks /\ FossilizeTasks /\ Collecting

-----------------------------------------------------------------------------
(* The saved collections. *)

(* At most one collection is pending. *)
OnePending == \A j, k \in collections : j = k

(* While snapshot files are deleted, the collection saved holds what only  *)
(* they reference.                                                         *)
Collected ==
  prunePc = "deleting" =>
    \A c \in ChunksOf(flagged) :
      c \in ChunksOf(snapshots \ flagged) \/ \E k \in collections : c \in k.fossils

(* What appears after a collection was saved is new to it: running backups *)
(* will be, ids that do not back up have nothing new, and what is not in   *)
(* the listing is new.                                                     *)
CollectionRevisions ==
  \A k \in collections :
    /\ \A i \in Id : Working(backup[i]) => backup[i].revision > k.lastRevisions[i]
    /\ \A i \in Id : \E s \in snapshots : s.id = i /\ s.revision >= k.lastRevisions[i]
    /\ \A s \in snapshots : s.id \notin ActiveIds => ~IsNewTo(k, s)
    /\ prunePc \in Looking =>
         \A s \in snapshots \ allSnapshots : s.id \notin toList => IsNewTo(k, s)

(* A snapshot that references a fossil of a collection is new to it, or is *)
(* one of those the collection's run was about to delete.                  *)
UsersAreNew ==
  \A k \in collections, s \in snapshots :
    s.chunks \intersect k.fossils /= {} =>
      IsNewTo(k, s) \/ <<s.id, s.revision>> \in k.deletedRevisions

(* s ended after the collection k was saved. *)
IsLate(k, s) == IsNewTo(k, s) /\ s.endTime > k.endTime

(* A fossil without chunk file that a late snapshot does not reference is  *)
(* not referenced by later snapshots of the id, nor by its running backup. *)
FirstLateDecides ==
  \A k \in collections : \A c \in k.fossils \ chunkFiles : \A s \in snapshots : IsLate(k, s) =>
    /\ \A t \in snapshots : t.id = s.id /\ s.revision < t.revision /\ c \in t.chunks => c \in s.chunks
    /\ c \in ReliedBy(backup[s.id]) => c \in s.chunks

CollectionsInv == OnePending /\ Collected /\ CollectionRevisions /\ UsersAreNew /\ FirstLateDecides

-----------------------------------------------------------------------------
(* What is used can be read. *)
UsedReadable == \A c \in Chunk : Used(c) => Readable(c)

SafeInv == HistoryInv /\ MemoryInv /\ TasksInv /\ CollectionsInv /\ UsedReadable

-----------------------------------------------------------------------------
(* What a step of the backup of i does to the state the invariant is about. *)

OnlyBackup(i) ==
  /\ UNCHANGED <<fossilFiles, now, pruneVars>>
  /\ \A j \in Id : j /= i => backup'[j] = backup[j]

(* It starts from the latest revision. *)
Starts(i) ==
  /\ OnlyBackup(i) /\ UNCHANGED <<chunkFiles, snapshots>>
  /\ i \in ActiveIds /\ backup'[i].pc = "packing"
  /\ \E latest \in snapshots :
       /\ latest.id = i /\ IsLatest(snapshots, latest)
       /\ backup'[i].revision = latest.revision + 1
       /\ ReliedBy(backup'[i]) \subseteq latest.chunks

(* It goes on, or fails. *)
GoesOn(i) ==
  /\ OnlyBackup(i) /\ UNCHANGED snapshots
  /\ chunkFiles \subseteq chunkFiles'
  /\ ReliedBy(backup'[i]) \subseteq ReliedBy(backup[i]) \union chunkFiles'
  /\ ~Working(backup'[i]) => backup'[i] \in RestStates
  /\ Working(backup'[i]) => Working(backup[i]) /\ backup'[i].revision = backup[i].revision
  /\ backup'[i].pc = "metadata" =>
       \/ backup'[i].endTime = now
       \/ backup[i].pc = "metadata" /\ backup'[i].endTime = backup[i].endTime

(* It writes the snapshot file. *)
Publishes(i, new) ==
  /\ OnlyBackup(i) /\ UNCHANGED chunkFiles
  /\ backup[i].pc = "metadata" /\ backup'[i] \in RestStates
  /\ snapshots' = snapshots \union {new}
  /\ new.id = i /\ new.revision = backup[i].revision /\ new.endTime = backup[i].endTime
  /\ new.chunks \subseteq ReliedBy(backup[i])

(* In this scenario a backup starts from the latest revision alone. *)
LEMMA ScenarioStart ==
  ASSUME LockFreeScenario, NEW i \in Id, NEW last \in Nat \ {0}, NEW chunks, StartFrom(i, last, chunks)
  PROVE  \E kept \in SUBSET chunks :
           backup' = [backup EXCEPT ![i] =
             [pc |-> "packing", revision |-> last + 1, hashMode |-> FALSE,
              cache |-> chunks, refs |-> kept,
              queued |-> {}, absent |-> {}, failed |-> {}, endTime |-> 0]]
<1>1. ListedChunks(last) = {}
  BY DEF ListedChunks
<1>2. PICK resumed : StartWith(i, last, chunks, {}, resumed)
  BY <1>1 DEF StartFrom
<1>3. PICK hash \in HashModes : \E kept \in SUBSET (IF hash THEN resumed ELSE chunks) :
        backup' = [backup EXCEPT ![i] =
          [pc |-> "packing", revision |-> last + 1, hashMode |-> hash,
           cache |-> chunks \union {}, refs |-> kept,
           queued |-> {}, absent |-> {}, failed |-> {}, endTime |-> 0]]
  BY <1>2 DEF StartWith, NextRevision
<1>4. hash = FALSE
  BY DEF LockFreeScenario
<1>5. chunks \union {} = chunks
  OBVIOUS
<1> QED BY <1>3, <1>4, <1>5

(* Each step of a backup is of one of these kinds. *)
LEMMA BackupStepKinds ==
  ASSUME LockFreeScenario, IndInv, SafeInv, NEW i \in Id, BackupStep(i)
  PROVE  Starts(i) \/ GoesOn(i) \/ \E new \in Snapshot : Publishes(i, new)
<1>0. /\ backup \in [Id -> BackupState] /\ backup[i] \in BackupState
      /\ snapshots \subseteq Snapshot
      /\ UNCHANGED pruneVars
  BY DEF IndInv, TypeOK, BackupTypeOK, StorageTypeOK, BackupStep
<1>1. CASE MayStartBackup(i) /\ BackupStart(i)
  <2>1. UNCHANGED <<chunkFiles, fossilFiles, snapshots, now>>
    BY <1>1 DEF BackupStart, storageVars
  <2>2. \E s \in snapshots : s.id = i
    BY DEF SafeInv, HistoryInv, Seeded
  <2>3. PICK latest \in snapshots :
          /\ latest.id = i /\ IsLatest(snapshots, latest)
          /\ StartFrom(i, latest.revision, latest.chunks)
    BY <1>1, <2>2 DEF BackupStart, SnapshotsOf
  <2>4. latest.revision \in Nat /\ latest.revision /= 0 /\ latest.chunks \subseteq Chunk
    BY <1>0 DEF Snapshot
  <2>5. PICK kept \in SUBSET latest.chunks :
          backup' = [backup EXCEPT ![i] =
            [pc |-> "packing", revision |-> latest.revision + 1, hashMode |-> FALSE,
             cache |-> latest.chunks, refs |-> kept,
             queued |-> {}, absent |-> {}, failed |-> {}, endTime |-> 0]]
    BY <2>3, <2>4, ScenarioStart
  <2>6. /\ backup'[i].pc = "packing" /\ backup'[i].revision = latest.revision + 1
        /\ ReliedBy(backup'[i]) \subseteq latest.chunks
        /\ \A j \in Id : j /= i => backup'[j] = backup[j]
    BY <1>0, <2>5 DEF ReliedBy
  <2> QED BY <1>0, <1>1, <2>1, <2>3, <2>6 DEF Starts, OnlyBackup, MayStartBackup
<1>2. ASSUME NEW b, backup' = [backup EXCEPT ![i] = b], UNCHANGED <<fossilFiles, snapshots, now>>,
             chunkFiles \subseteq chunkFiles',
             ReliedBy(b) \subseteq ReliedBy(backup[i]) \union chunkFiles',
             ~Working(b) => b \in RestStates,
             Working(b) => Working(backup[i]) /\ b.revision = backup[i].revision,
             b.pc = "metadata" =>
               b.endTime = now \/ (backup[i].pc = "metadata" /\ b.endTime = backup[i].endTime)
      PROVE  GoesOn(i)
  <2>1. backup'[i] = b /\ \A j \in Id : j /= i => backup'[j] = backup[j]
    BY <1>0, <1>2
  <2> QED BY <1>0, <1>2, <2>1 DEF GoesOn, OnlyBackup
<1>3. ~Working(backup[i]) => backup[i].queued = {} /\ backup[i].absent = {}
  BY RestStatesRest DEF SafeInv, HistoryInv, BackupShape
<1>4. ASSUME NEW c \in Chunk, BackupPack(i, c) PROVE GoesOn(i)
  <2> DEFINE hit  == [backup[i] EXCEPT !.refs = @ \union {c}]
             miss == [backup[i] EXCEPT !.cache = @ \union {c}, !.refs = @ \union {c},
                                       !.queued = @ \union {c}]
  <2>1. UNCHANGED <<chunkFiles, fossilFiles, snapshots, now>> /\ Working(backup[i])
    BY <1>4 DEF BackupPack, storageVars
  <2>2. CASE c \in backup[i].cache /\ backup' = [backup EXCEPT ![i].refs = @ \union {c}]
    <3>1. backup' = [backup EXCEPT ![i] = hit]
      BY <1>0, <2>2
    <3>2. ReliedBy(hit) \subseteq ReliedBy(backup[i])
      BY <1>0, <2>2 DEF ReliedBy, BackupState
    <3>3. hit.pc = backup[i].pc /\ hit.revision = backup[i].revision /\ hit.endTime = backup[i].endTime
      BY <1>0 DEF BackupState
    <3> HIDE DEF hit
    <3> QED BY <1>2, <2>1, <3>1, <3>2, <3>3 DEF Working
  <2>3. CASE backup' = [backup EXCEPT ![i].cache  = @ \union {c}, ![i].refs   = @ \union {c},
                                      ![i].queued = @ \union {c}]
    <3>1. backup' = [backup EXCEPT ![i] = miss]
      BY <1>0, <2>3
    <3>2. ReliedBy(miss) \subseteq ReliedBy(backup[i])
      BY <1>0, <2>3 DEF ReliedBy, BackupState
    <3>3. miss.pc = backup[i].pc /\ miss.revision = backup[i].revision /\ miss.endTime = backup[i].endTime
      BY <1>0 DEF BackupState
    <3> HIDE DEF miss
    <3> QED BY <1>2, <2>1, <3>1, <3>2, <3>3 DEF Working
  <2> QED BY <1>4, <2>2, <2>3 DEF BackupPack
<1>5. ASSUME NEW c \in Chunk, BackupFindChunk(i, c) PROVE GoesOn(i)
  <2> DEFINE b == [backup[i] EXCEPT !.queued = @ \ {c},
                                    !.absent = IF c \in chunkFiles THEN @ ELSE @ \union {c}]
  <2>1. backup' = [backup EXCEPT ![i] = b] /\ UNCHANGED <<chunkFiles, fossilFiles, snapshots, now>>
    BY <1>0, <1>5 DEF BackupFindChunk, storageVars
  <2>2. ReliedBy(b) \subseteq ReliedBy(backup[i]) \union chunkFiles
    BY <1>0 DEF ReliedBy, BackupState
  <2>3. b.pc = backup[i].pc /\ b.revision = backup[i].revision /\ b.endTime = backup[i].endTime
    BY <1>0 DEF BackupState
  <2>4. Working(backup[i])
    BY <1>3, <1>5 DEF BackupFindChunk
  <2> HIDE DEF b
  <2> QED BY <1>2, <2>1, <2>2, <2>3, <2>4 DEF Working
<1>6. ASSUME NEW c \in Chunk, BackupUploadChunk(i, c) PROVE GoesOn(i)
  <2> DEFINE b == [backup[i] EXCEPT !.absent = @ \ {c}]
  <2>1. /\ backup' = [backup EXCEPT ![i] = b]
        /\ chunkFiles' = chunkFiles \union {c}
        /\ UNCHANGED <<fossilFiles, snapshots, now>>
    BY <1>0, <1>6 DEF BackupUploadChunk, UploadChunkFile
  <2>2. ReliedBy(b) \subseteq ReliedBy(backup[i]) \union {c}
    BY <1>0 DEF ReliedBy, BackupState
  <2>3. b.pc = backup[i].pc /\ b.revision = backup[i].revision /\ b.endTime = backup[i].endTime
    BY <1>0 DEF BackupState
  <2>4. Working(backup[i])
    BY <1>3, <1>6 DEF BackupUploadChunk
  <2> HIDE DEF b
  <2> QED BY <1>2, <2>1, <2>2, <2>3, <2>4 DEF Working
<1>7. CASE BackupEndTime(i)
  <2> DEFINE b == [backup[i] EXCEPT !.pc = "metadata", !.endTime = now]
  <2>1. /\ backup' = [backup EXCEPT ![i] = b] /\ backup[i].pc = "packing"
        /\ UNCHANGED <<chunkFiles, fossilFiles, snapshots, now>>
    BY <1>0, <1>7 DEF BackupEndTime, storageVars
  <2>2. ReliedBy(b) = ReliedBy(backup[i])
    BY <1>0 DEF ReliedBy, BackupState
  <2>3. b.pc = "metadata" /\ b.revision = backup[i].revision /\ b.endTime = now
    BY <1>0 DEF BackupState
  <2> HIDE DEF b
  <2> QED BY <1>2, <2>1, <2>2, <2>3 DEF Working
<1>8. IdleBackup \in RestStates /\ ReliedBy(IdleBackup) = {} /\ ~Working(IdleBackup)
  BY RestStatesRest, ReliedAtRest DEF RestStates
<1>9. CASE BackupFail(i) \/ BackupCut(i) \/ BackupDeleteIncomplete(i)
  <2>1. backup' = [backup EXCEPT ![i] = IdleBackup] /\ UNCHANGED <<chunkFiles, fossilFiles, snapshots, now>>
    BY <1>9 DEF BackupFail, BackupCut, BackupDeleteIncomplete, storageVars
  <2>2. IdleBackup.pc /= "metadata"
    BY DEF IdleBackup
  <2> QED BY <1>2, <1>8, <2>1, <2>2
<1>10. CASE BackupUploadSnapshot(i)
  <2> DEFINE new == [id |-> i, revision |-> backup[i].revision,
                     chunks |-> backup[i].refs, endTime |-> backup[i].endTime]
  <2>1. /\ snapshots' = snapshots \union {new}
        /\ \E b \in RestStates : backup' = [backup EXCEPT ![i] = b]
        /\ backup[i].pc = "metadata" /\ InFlight(i) = {}
        /\ UNCHANGED <<chunkFiles, fossilFiles, now>>
    BY <1>0, <1>10 DEF BackupUploadSnapshot, RestStates, BackupState
  <2>2. backup[i].refs \subseteq ReliedBy(backup[i])
    BY <2>1 DEF ReliedBy, InFlight
  <2>3. backup'[i] \in RestStates /\ \A j \in Id : j /= i => backup'[j] = backup[j]
    BY <1>0, <2>1
  <2>4. new \in Snapshot
    <3>1. backup[i].revision \in Nat /\ backup[i].revision > 0
      BY <1>0, <2>1 DEF BackupState, IndInv, RevisionsBounded, RevisionInRange, Working
    <3> QED BY <1>0, <3>1 DEF Snapshot, BackupState
  <2>5. Publishes(i, new)
    BY <1>0, <2>1, <2>2, <2>3 DEF Publishes, OnlyBackup
  <2> QED BY <2>4, <2>5
<1>11. ASSUME NEW c \in Chunk, BackupUploadError(i, c) PROVE FALSE
  BY <1>11 DEF BackupUploadError, LockFreeScenario
<1> QED BY <1>1, <1>4, <1>5, <1>6, <1>7, <1>9, <1>10, <1>11 DEF BackupStep

-----------------------------------------------------------------------------
(* The types of what the proofs below compute with. *)
LEMMA Types ==
  ASSUME IndInv
  PROVE  /\ now \in Nat
         /\ \A s \in snapshots \union allSnapshots \union flagged :
              /\ s \in Snapshot /\ s.id \in Id /\ s.revision \in Nat
              /\ s.endTime \in Nat /\ s.chunks \subseteq Chunk
         /\ \A i \in Id : backup[i].revision \in Nat /\ backup[i].endTime \in Nat
                          /\ ReliedBy(backup[i]) \subseteq Chunk
         /\ \A k \in collections :
              k.endTime \in Nat /\ k.number \in Nat /\ k.fossils \subseteq Chunk
              /\ \A i \in Id : k.lastRevisions[i] \in Nat
         /\ \A t \in tasks : t.stage \in Nat /\ t.chunk \in Chunk
         /\ collectionNumber \in Nat
<1>1. /\ now \in Nat /\ collectionNumber \in Nat
      /\ snapshots \subseteq Snapshot /\ allSnapshots \subseteq Snapshot /\ flagged \subseteq Snapshot
      /\ backup \in [Id -> BackupState] /\ collections \subseteq FossilCollection /\ tasks \subseteq Task
  BY DEF IndInv, TypeOK, StorageTypeOK, BackupTypeOK, PruneTypeOK
<1>2. \A s \in Snapshot : s.id \in Id /\ s.revision \in Nat /\ s.endTime \in Nat /\ s.chunks \subseteq Chunk
  BY DEF Snapshot
<1>3. \A i \in Id : backup[i].revision \in Nat /\ backup[i].endTime \in Nat
                    /\ ReliedBy(backup[i]) \subseteq Chunk
  BY <1>1 DEF BackupState, ReliedBy
<1>4. \A k \in FossilCollection :
        k.endTime \in Nat /\ k.number \in Nat /\ k.fossils \subseteq Chunk
        /\ \A i \in Id : k.lastRevisions[i] \in Nat
  BY DEF FossilCollection
<1>5. \A t \in Task : t.stage \in Nat /\ t.chunk \in Chunk
  BY DEF Task
<1> QED BY <1>1, <1>2, <1>3, <1>4, <1>5

-----------------------------------------------------------------------------
(* Snapshots and backups: HistoryInv. *)

LEMMA HistoryTick ==
  ASSUME LockFreeScenario, IndInv, SafeInv, Tick
  PROVE  HistoryInv'
<1>1. UNCHANGED <<snapshots, backup, allSnapshots>> /\ now' = now + 1
  BY DEF Tick, storageVars, backupVars, pruneVars, pruneRunVars
<1>2. Seeded' /\ BackupShape'
  BY <1>1 DEF SafeInv, HistoryInv, Seeded, BackupShape
<1>3. EndTimes'
  BY <1>1, Types DEF SafeInv, HistoryInv, EndTimes
<1>4. Awake'
  <2> SUFFICES ASSUME NEW i \in ActiveIds, NEW S \in {snapshots, allSnapshots},
                      \E s \in S : s.id = i
               PROVE  \E s \in S : s.id = i /\ ~(s.endTime + DormantAge < now + 1)
    BY <1>1 DEF SafeInv, HistoryInv, Awake, IsRecent
  <2>1. ~Dormant(S, i, now + 1)
    BY DEF Tick, LockFreeScenario
  <2>2. PICK s \in S : HostOf[s.id] = HostOf[i] /\ ~(s.endTime + DormantAge < now + 1)
    BY <2>1 DEF Dormant
  <2>3. s.id \in Id /\ i \in Id
    BY Types, ScenarioAssumption
  <2> QED BY <2>2, <2>3 DEF LockFreeScenario
<1> QED BY <1>2, <1>3, <1>4 DEF HistoryInv

LEMMA HistoryBackup ==
  ASSUME LockFreeScenario, IndInv, SafeInv, NEW i \in Id,
         Starts(i) \/ GoesOn(i) \/ \E new \in Snapshot : Publishes(i, new)
  PROVE  HistoryInv'
<1> USE Types
<1>1. ASSUME UNCHANGED snapshots, OnlyBackup(i),
             ~Working(backup'[i]) => backup'[i] \in RestStates,
             Working(backup'[i]) => i \in ActiveIds,
             backup'[i].pc = "metadata" =>
               backup'[i].endTime <= now /\ \A s \in snapshots : s.id = i => s.endTime <= backup'[i].endTime
      PROVE  HistoryInv'
  <2>1. \A j \in Id : j /= i => backup'[j] = backup[j]
    BY <1>1 DEF OnlyBackup
  <2>2. UNCHANGED <<snapshots, now, allSnapshots>>
    BY <1>1 DEF OnlyBackup, pruneVars, pruneRunVars
  <2>3. Seeded' /\ Awake'
    BY <2>2 DEF SafeInv, HistoryInv, Seeded, Awake, IsRecent
  <2>4. BackupShape'
    BY <1>1, <2>1 DEF SafeInv, HistoryInv, BackupShape
  <2>5. EndTimes'
    BY <1>1, <2>1, <2>2 DEF SafeInv, HistoryInv, EndTimes
  <2> QED BY <2>3, <2>4, <2>5 DEF HistoryInv
<1>2. CASE Starts(i)
  BY <1>1, <1>2 DEF Starts, Working
<1>3. CASE GoesOn(i)
  <2>1. Working(backup[i]) => i \in ActiveIds
    BY DEF SafeInv, HistoryInv, BackupShape
  <2>2. \A s \in snapshots : s.endTime <= now
    BY DEF SafeInv, HistoryInv, EndTimes
  <2>3. backup'[i].pc = "metadata" =>
               backup'[i].endTime <= now /\ \A s \in snapshots : s.id = i => s.endTime <= backup'[i].endTime
    BY <1>3, <2>2 DEF GoesOn, SafeInv, HistoryInv, EndTimes
  <2> QED BY <1>1, <1>3, <2>1, <2>3 DEF GoesOn
<1>4. ASSUME NEW new \in Snapshot, Publishes(i, new) PROVE HistoryInv'
  <2>1. /\ snapshots' = snapshots \union {new} /\ new.id = i /\ backup[i].pc = "metadata"
        /\ new.revision = backup[i].revision /\ new.endTime = backup[i].endTime
        /\ backup'[i] \in RestStates /\ ~Working(backup'[i]) /\ backup'[i].pc /= "metadata"
        /\ \A j \in Id : j /= i => backup'[j] = backup[j]
        /\ UNCHANGED <<now, allSnapshots>>
    BY <1>4, RestStatesRest DEF Publishes, OnlyBackup, pruneVars, pruneRunVars, Working
  <2>2. \A s \in snapshots : s.id = i => s.revision < new.revision
    BY <2>1 DEF IndInv, RevisionsFresh, Working
  <2>3. Seeded'
    BY <2>1, <2>2 DEF SafeInv, HistoryInv, Seeded
  <2>4. BackupShape'
    BY <2>1 DEF SafeInv, HistoryInv, BackupShape
  <2>5. new.endTime <= now /\ \A s \in snapshots : s.id = i => s.endTime <= new.endTime
    BY <2>1 DEF SafeInv, HistoryInv, EndTimes
  <2>6. EndTimes'
    BY <2>1, <2>2, <2>5 DEF SafeInv, HistoryInv, EndTimes
  <2>7. Awake'
    BY <2>1 DEF SafeInv, HistoryInv, Awake, IsRecent
  <2> QED BY <2>3, <2>4, <2>6, <2>7 DEF HistoryInv
<1> QED BY <1>2, <1>3, <1>4

(* Prune changes the history only by deleting snapshots, of which it keeps *)
(* later ones, and by listing them.                                        *)
LEMMA HistoryPrune ==
  ASSUME LockFreeScenario, IndInv, SafeInv, UNCHANGED <<backup, now>>,
         \/ UNCHANGED <<snapshots, allSnapshots>>
         \/ snapshots' = snapshots /\ allSnapshots' = {}
         \/ \E i \in Id : PruneList(i)
         \/ \E s \in flagged : PruneDeleteSnapshot(s)
  PROVE  HistoryInv'
<1> USE Types
<1>1. CASE UNCHANGED snapshots
  <2>1. Seeded' /\ BackupShape' /\ EndTimes'
    BY <1>1 DEF SafeInv, HistoryInv, Seeded, BackupShape, EndTimes
  <2>2. Awake'
    <3>1. CASE UNCHANGED allSnapshots
      BY <1>1, <3>1 DEF SafeInv, HistoryInv, Awake, IsRecent
    <3>2. CASE allSnapshots' = {}
      BY <1>1, <3>2 DEF SafeInv, HistoryInv, Awake, IsRecent
    <3>3. ASSUME NEW i \in Id, PruneList(i) PROVE Awake'
      <4>1. allSnapshots' = allSnapshots \union {s \in snapshots : s.id = i}
        BY <3>3 DEF PruneList, SnapshotsOf
      <4> QED BY <1>1, <4>1 DEF SafeInv, HistoryInv, Awake, IsRecent
    <3>4. ASSUME NEW s \in flagged, PruneDeleteSnapshot(s) PROVE UNCHANGED allSnapshots
      BY <3>4 DEF PruneDeleteSnapshot
    <3> QED BY <3>1, <3>2, <3>3, <3>4
  <2> QED BY <2>1, <2>2 DEF HistoryInv
<1>2. ASSUME NEW s \in flagged, PruneDeleteSnapshot(s) PROVE HistoryInv'
  <2>1. snapshots' = snapshots \ {s} /\ UNCHANGED allSnapshots
    BY <1>2 DEF PruneDeleteSnapshot
  <2>2. PICK t \in snapshots \ {s} : t.id = s.id /\ t.revision > s.revision
    BY DEF IndInv, FlaggedHaveLater, SafeInv, MemoryInv, NormalMode
  <2>3. Seeded' /\ BackupShape' /\ EndTimes'
    BY <2>1, <2>2 DEF SafeInv, HistoryInv, Seeded, BackupShape, EndTimes
  <2>4. Awake'
    <3>1. s \in snapshots => s.endTime <= t.endTime
      BY <2>2 DEF SafeInv, HistoryInv, EndTimes
    <3> QED BY <2>1, <2>2, <3>1, PruneAssumption DEF SafeInv, HistoryInv, Awake, IsRecent
  <2> QED BY <2>3, <2>4 DEF HistoryInv
<1>3. ASSUME NEW i \in Id, PruneList(i) PROVE UNCHANGED snapshots
  BY <1>3 DEF PruneList, storageVars
<1> QED BY <1>1, <1>2, <1>3

-----------------------------------------------------------------------------
(* What prune has in memory: MemoryInv. *)

LEMMA MemoryTick ==
  ASSUME IndInv, SafeInv, Tick
  PROVE  MemoryInv'
<1>1. UNCHANGED <<snapshots, pruneVars>>
  BY DEF Tick, storageVars
<1> QED BY <1>1 DEF SafeInv, MemoryInv, NormalMode, Listed, ListedStay, Phases, pruneVars, pruneRunVars

LEMMA MemoryBackup ==
  ASSUME LockFreeScenario, IndInv, SafeInv, NEW i \in Id,
         Starts(i) \/ GoesOn(i) \/ \E new \in Snapshot : Publishes(i, new)
  PROVE  MemoryInv'
<1> USE Types
<1>1. UNCHANGED pruneVars
  BY DEF Starts, GoesOn, Publishes, OnlyBackup
<1>2. NormalMode' /\ Phases'
  BY <1>1 DEF SafeInv, MemoryInv, NormalMode, Phases, pruneVars, pruneRunVars
<1>3. CASE UNCHANGED snapshots
  BY <1>1, <1>2, <1>3 DEF SafeInv, MemoryInv, Listed, ListedStay, pruneVars, pruneRunVars
<1>4. ASSUME NEW new \in Snapshot, Publishes(i, new) PROVE MemoryInv'
  <2>1. snapshots' = snapshots \union {new} /\ new.id = i
    BY <1>4 DEF Publishes
  <2>2. \A s \in snapshots : s.id = i => s.revision < new.revision
    BY <1>4 DEF IndInv, RevisionsFresh, Publishes, Working
  <2>3. i \in ActiveIds
    BY <1>4 DEF Publishes, SafeInv, HistoryInv, BackupShape, Working
  <2>4. ListedStay'
    BY <1>1, <2>1 DEF SafeInv, MemoryInv, ListedStay, pruneVars, pruneRunVars
  <2>5. prunePc \in Looking => allSnapshots \subseteq snapshots
    BY DEF SafeInv, MemoryInv, ListedStay, Looking
  <2>6. Listed'
    BY <1>1, <2>1, <2>2, <2>3, <2>5 DEF SafeInv, MemoryInv, Listed, pruneVars, pruneRunVars
  <2> QED BY <1>2, <2>4, <2>6 DEF MemoryInv
<1> QED BY <1>3, <1>4 DEF Starts, GoesOn

LEMMA MemoryTask ==
  ASSUME SafeInv, NEW t \in tasks, UNCHANGED backupVars,
         \/ TaskFindChunk(t) \/ TaskDelete(t) \/ TaskFossilize(t) \/ TaskAlreadyFossil(t)
         \/ TaskResurrect(t) \/ TaskError(t)
  PROVE  MemoryInv'
<1>1. TaskFrame
  BY DEF TaskFindChunk, TaskDelete, TaskFossilize, TaskAlreadyFossil, TaskResurrect, TaskError
<1>2. NormalMode' /\ Listed' /\ ListedStay'
  BY <1>1 DEF TaskFrame, SafeInv, MemoryInv, NormalMode, Listed, ListedStay
<1>3. prunePc \notin {"collecting", "deleting"} => newFossils' = newFossils
  <2>1. t.op = "fossilize" => prunePc = "collecting"
    BY DEF SafeInv, TasksInv, FossilizeTasks
  <2> QED BY <2>1 DEF TaskFindChunk, TaskDelete, TaskFossilize, TaskAlreadyFossil, TaskResurrect, TaskError
<1>4. Phases'
  BY <1>1, <1>3 DEF TaskFrame, SafeInv, MemoryInv, Phases
<1> QED BY <1>2, <1>4 DEF MemoryInv

(* At most one collection is pending, so a run that may collect has none. *)
LEMMA NonePending ==
  ASSUME LockFreeScenario, SafeInv, MayCollect
  PROVE  collections = {}
<1> SUFFICES ASSUME NEW k \in collections PROVE FALSE
  OBVIOUS
<1>1. collections = {k}
  BY DEF SafeInv, CollectionsInv, OnePending
<1>2. Cardinality(collections) = 1
  BY <1>1, FS_Singleton
<1> QED BY <1>2, ScenarioAssumption DEF MayCollect, LockFreeScenario

LEMMA MemoryPrune ==
  ASSUME LockFreeScenario, IndInv, SafeInv, PruneStep,
         ~\E t \in tasks : \/ TaskFindChunk(t) \/ TaskDelete(t) \/ TaskFossilize(t)
                           \/ TaskAlreadyFossil(t) \/ TaskResurrect(t) \/ TaskError(t)
  PROVE  MemoryInv'
<1> USE Types DEF pruneVars, pruneRunVars, storageVars
<1>0. MemoryInv
  BY DEF SafeInv
<1>1. ASSUME NEW mode \in PruneModes, PruneStart(mode) PROVE MemoryInv'
  <2>1. NormalMode'
    BY <1>1 DEF PruneStart, NormalMode, LockFreeScenario
  <2>2. toList' = Id
    <3>1. Id \subseteq Ids(snapshots)
      BY DEF SafeInv, HistoryInv, Seeded, Ids
    <3> QED BY <1>1, <3>1 DEF PruneStart
  <2>3. Listed' /\ ListedStay'
    BY <1>0, <1>1, <2>2 DEF PruneStart, MemoryInv, Listed, ListedStay
  <2>4. Phases'
    BY <1>0, <1>1 DEF PruneStart, MemoryInv, Phases
  <2> QED BY <2>1, <2>3, <2>4 DEF MemoryInv
<1>2. ASSUME NEW i \in Id, PruneList(i) PROVE MemoryInv'
  <2>1. /\ allSnapshots' = allSnapshots \union {s \in snapshots : s.id = i}
        /\ toList' = toList \ {i} /\ prunePc = "listing"
        /\ UNCHANGED <<snapshots, collections, prunePc, pruneMode, todo, reaped, collectionNumber,
                       flagged, tasks, newFossils>>
    BY <1>2 DEF PruneList, SnapshotsOf
  <2>2. NormalMode' /\ ListedStay' /\ Phases'
    BY <1>0, <2>1 DEF MemoryInv, NormalMode, ListedStay, Phases
  <2>3. \E s \in snapshots : s.id = i
    BY DEF SafeInv, HistoryInv, Seeded
  <2>4. Listed'
    BY <1>0, <2>1, <2>3 DEF MemoryInv, Listed
  <2> QED BY <2>2, <2>4 DEF MemoryInv
<1>3. CASE PruneListCollections
  <2>1. NormalMode' /\ Listed' /\ ListedStay'
    BY <1>0, <1>3 DEF PruneListCollections, MemoryInv, NormalMode, Listed, ListedStay, Looking
  <2>2. todo' \subseteq collections
    BY <1>3 DEF PruneListCollections
  <2>3. \A k \in collections : k.number < collectionNumber'
    <3>1. PICK n \in {0} \union {k.number : k \in collections} :
            (\A k \in collections : k.number <= n) /\ collectionNumber' = n + 1
      BY <1>3 DEF PruneListCollections
    <3>2. n \in Nat
      OBVIOUS
    <3> QED BY <3>1, <3>2
  <2>4. Phases'
    BY <1>0, <1>3, <2>2, <2>3 DEF PruneListCollections, MemoryInv, Phases
  <2> QED BY <2>1, <2>4 DEF MemoryInv
<1>4. ASSUME NEW k \in collections, PruneGhost(k) PROVE MemoryInv'
  <2>1. NormalMode' /\ Listed' /\ ListedStay'
    BY <1>0, <1>4 DEF PruneGhost, MemoryInv, NormalMode, Listed, ListedStay
  <2>2. Phases'
    BY <1>0, <1>4 DEF PruneGhost, MemoryInv, Phases, IsNext
  <2> QED BY <2>1, <2>2 DEF MemoryInv
<1>5. ASSUME NEW k \in collections, PruneReap(k) PROVE MemoryInv'
  <2>1. NormalMode' /\ Listed' /\ ListedStay'
    BY <1>0, <1>5 DEF PruneReap, MemoryInv, NormalMode, Listed, ListedStay
  <2>2. todo' = {}
    BY <1>0, <1>5 DEF PruneReap, MemoryInv, Phases, SafeInv, CollectionsInv, OnePending
  <2>3. Phases'
    <3>1. prunePc = "collections"
      BY <1>5 DEF PruneReap, IsNext
    <3> QED BY <1>0, <1>5, <2>2, <3>1 DEF PruneReap, MemoryInv, Phases
  <2> QED BY <2>1, <2>3 DEF MemoryInv
<1>6. ASSUME NEW k \in collections, PruneDeleteCollection(k) PROVE MemoryInv'
  <2>1. NormalMode' /\ Listed' /\ ListedStay'
    BY <1>0, <1>6 DEF PruneDeleteCollection, MemoryInv, NormalMode, Listed, ListedStay
  <2>2. Phases'
    BY <1>0, <1>6 DEF PruneDeleteCollection, MemoryInv, Phases
  <2> QED BY <2>1, <2>2 DEF MemoryInv
<1>7. ASSUME NEW k \in collections, PrunePostpone(k) PROVE MemoryInv'
  <2>1. NormalMode' /\ Listed' /\ ListedStay'
    BY <1>0, <1>7 DEF PrunePostpone, MemoryInv, NormalMode, Listed, ListedStay
  <2>2. Phases'
    BY <1>0, <1>7 DEF PrunePostpone, MemoryInv, Phases, IsNext
  <2> QED BY <2>1, <2>2 DEF MemoryInv
<1>8. CASE PruneCollectionsDone \/ PruneNothing
  <2>1. NormalMode' /\ Listed' /\ ListedStay'
    BY <1>0, <1>8 DEF PruneCollectionsDone, PruneNothing, MemoryInv, NormalMode, Listed, ListedStay, Looking
  <2>2. Phases'
    BY <1>0, <1>8 DEF PruneCollectionsDone, PruneNothing, MemoryInv, Phases
  <2> QED BY <2>1, <2>2 DEF MemoryInv
<1>9. ASSUME NEW S \in SUBSET allSnapshots, MayCollect, PruneSelect(S) PROVE MemoryInv'
  <2>1. /\ UNCHANGED <<snapshots, collections, pruneMode, toList, allSnapshots, todo, reaped>>
        /\ prunePc = "select" /\ prunePc' = "collecting" /\ flagged' = S
    BY <1>9 DEF PruneSelect
  <2>2. NormalMode' /\ Listed' /\ ListedStay'
    BY <1>0, <2>1 DEF MemoryInv, NormalMode, Listed, ListedStay, Looking
  <2>3. collections = {}
    BY <1>9, NonePending
  <2>4. todo' = {}
    BY <1>0, <2>1 DEF MemoryInv, Phases
  <2>5. Phases'
    BY <1>0, <2>1, <2>3, <2>4 DEF MemoryInv, Phases
  <2> QED BY <2>2, <2>5 DEF MemoryInv
<1>10. CASE PruneSave
  <2>1. NormalMode' /\ Listed' /\ ListedStay'
    BY <1>0, <1>10 DEF PruneSave, MemoryInv, NormalMode, Listed, ListedStay, Looking
  <2>2. collections \subseteq collections'
    BY <1>10 DEF PruneSave
  <2>3. Phases'
    BY <1>0, <1>10, <2>2 DEF PruneSave, MemoryInv, Phases
  <2> QED BY <2>1, <2>3 DEF MemoryInv
<1>11. ASSUME NEW s \in flagged, PruneDeleteSnapshot(s) PROVE MemoryInv'
  <2>1. NormalMode' /\ Listed' /\ ListedStay'
    BY <1>0, <1>11 DEF PruneDeleteSnapshot, MemoryInv, NormalMode, Listed, ListedStay, Looking
  <2>2. Phases'
    BY <1>0, <1>11 DEF PruneDeleteSnapshot, MemoryInv, Phases
  <2> QED BY <2>1, <2>2 DEF MemoryInv
<1>12. CASE PruneEnd \/ PruneCrash
  <2>1. PruneReset
    BY <1>12 DEF PruneEnd, PruneCrash
  <2> QED BY <2>1 DEF PruneReset, NoMode, MemoryInv, NormalMode, Listed, ListedStay, Looking, Phases
<1> QED BY <1>1, <1>2, <1>3, <1>4, <1>5, <1>6, <1>7, <1>8, <1>9, <1>10, <1>11, <1>12 DEF PruneStep

-----------------------------------------------------------------------------
(* Step 2 deletes no fossil that is needed. *)

(* When step 2 finds a collection deletable, each id that backs up has a   *)
(* first new snapshot that ended late enough, and it is looked at.         *)
LEMMA ActiveIdHasLate ==
  ASSUME LockFreeScenario, IndInv, SafeInv, NEW k \in collections, NEW i \in ActiveIds,
         prunePc = "collections", IsDeletable(k, allSnapshots)
  PROVE  \E q \in TakenSnapshots(k, allSnapshots) : q.id = i /\ Qualifies(k, q)
<1> USE Types
<1> DEFINE late == {s \in allSnapshots : s.id = i /\ IsNewTo(k, s) /\ Qualifies(k, s)}
<1>0. i \in Id /\ toList = {} /\ allSnapshots \subseteq snapshots
  BY ScenarioAssumption DEF SafeInv, MemoryInv, Phases, ListedStay
<1>1. PICK a \in allSnapshots : a.id = i
  BY <1>0 DEF SafeInv, MemoryInv, Listed, Looking
<1>2. HostDone(k, allSnapshots, HostOf[i])
  BY <1>1 DEF IsDeletable, Ids
<1>3. late /= {}
  <2>1. CASE \E s \in NewSnapshots(k, allSnapshots) : HostOf[s.id] = HostOf[i] /\ Qualifies(k, s)
    <3>1. PICK s \in allSnapshots : IsNewTo(k, s) /\ HostOf[s.id] = HostOf[i] /\ Qualifies(k, s)
      BY <2>1 DEF NewSnapshots, IsNewTo
    <3>2. s.id = i
      BY <1>0, <3>1 DEF LockFreeScenario
    <3> QED BY <3>1, <3>2
  <2>2. CASE \A s \in LastSnapshots(allSnapshots, HostOf[i]) : s.endTime + DormantAge < now
    <3>1. PICK r \in allSnapshots : r.id = i /\ IsRecent(r)
      BY <1>1 DEF SafeInv, HistoryInv, Awake
    <3>2. PICK l \in allSnapshots : l.id = i /\ IsLatest(allSnapshots, l)
      <4>1. allSnapshots \in SUBSET Snapshot /\ MaxRevision[i] \in Nat
        BY <1>0, BackupAssumption DEF IndInv, TypeOK, PruneTypeOK
      <4>2. \A t \in allSnapshots : t.id = r.id => t.revision <= MaxRevision[i]
        BY <3>1 DEF IndInv, RevisionsBounded
      <4> QED BY <3>1, <4>1, <4>2, LatestExists
    <3>3. l.endTime + DormantAge < now
      BY <2>2, <3>2 DEF LastSnapshots
    <3>4. r.endTime <= l.endTime
      <4>1. r.revision <= l.revision
        BY <3>1, <3>2 DEF IsLatest
      <4>2. r.revision = l.revision => r = l
        BY <1>0, <3>1, <3>2 DEF SafeInv, HistoryInv, Seeded
      <4> QED BY <1>0, <3>1, <3>2, <4>1, <4>2 DEF SafeInv, HistoryInv, EndTimes
    <3> QED BY <3>1, <3>3, <3>4, PruneAssumption DEF IsRecent
  <2> QED BY <1>2, <2>1, <2>2 DEF HostDone
<1>4. PICK q \in late : \A s \in late : q.revision <= s.revision
  <2> DEFINE R == {s.revision : s \in late}
  <2>1. R \subseteq Nat /\ R /= {}
    BY <1>3
  <2>2. PICK m \in R : \A n \in R : ~(<<n, m>> \in OpToRel(<, Nat))
    <3> HIDE DEF R
    <3> QED BY <2>1, NatLessThanWellFounded, WFMin
  <2>3. PICK q \in late : q.revision = m
    BY <2>2
  <2>4. ASSUME NEW s \in late PROVE q.revision <= s.revision
    <3>1. s.revision \in R /\ s.revision \in Nat /\ m \in Nat
      BY <2>1
    <3>2. ~(s.revision < m)
      BY <2>2, <3>1 DEF OpToRel
    <3> QED BY <2>3, <3>1, <3>2
  <2> QED BY <2>3, <2>4
<1>5. q \in TakenSnapshots(k, allSnapshots)
  <2>1. q \in NewSnapshots(k, allSnapshots)
    BY DEF NewSnapshots, IsNewTo
  <2>2. ASSUME NEW t \in NewSnapshots(k, allSnapshots), t.id = q.id, t.revision < q.revision,
               Qualifies(k, t)
        PROVE  FALSE
    <3>1. t \in late
      BY <2>2 DEF NewSnapshots, IsNewTo
    <3> QED BY <1>4, <2>2, <3>1
  <2> QED BY <2>1, <2>2 DEF TakenSnapshots
<1> QED BY <1>5

(* A fossil without chunk file that is still used is in one of the         *)
(* snapshots step 2 resurrects for.                                        *)
LEMMA UsedIsResurrected ==
  ASSUME LockFreeScenario, IndInv, SafeInv, NEW k \in collections,
         prunePc = "collections", ~IsGhost(k, allSnapshots), IsDeletable(k, allSnapshots),
         NEW c \in k.fossils, c \notin chunkFiles, Used(c)
  PROVE  c \in ChunksOf(TakenSnapshots(k, allSnapshots))
<1> USE Types
<1>0. toList = {} /\ allSnapshots \subseteq snapshots /\ prunePc \in Looking
  BY DEF SafeInv, MemoryInv, Phases, ListedStay, Looking
<1>1. ASSUME NEW q \in TakenSnapshots(k, allSnapshots), Qualifies(k, q)
      PROVE  q \in allSnapshots /\ q \in snapshots /\ IsLate(k, q)
  <2>1. q \in allSnapshots /\ q \in snapshots /\ IsNewTo(k, q)
    BY <1>0 DEF TakenSnapshots, NewSnapshots, IsNewTo
  <2>2. q.endTime > k.endTime
    BY <1>1, <2>1, PruneAssumption DEF Qualifies
  <2> QED BY <2>1, <2>2 DEF IsLate
<1>2. ASSUME NEW s \in TakenSnapshots(k, allSnapshots), c \in s.chunks
      PROVE  c \in ChunksOf(TakenSnapshots(k, allSnapshots))
  BY <1>2 DEF ChunksOf
<1>3. ASSUME NEW t \in snapshots, c \in t.chunks PROVE c \in ChunksOf(TakenSnapshots(k, allSnapshots))
  <2>1. IsNewTo(k, t)
    <3>1. IsNewTo(k, t) \/ <<t.id, t.revision>> \in k.deletedRevisions
      BY <1>3 DEF SafeInv, CollectionsInv, UsersAreNew
    <3>2. t \in allSnapshots => <<t.id, t.revision>> \notin k.deletedRevisions
      BY DEF IsGhost
    <3>3. t \notin allSnapshots => IsNewTo(k, t)
      BY <1>0 DEF SafeInv, CollectionsInv, CollectionRevisions
    <3> QED BY <3>1, <3>2, <3>3
  <2>2. t.id \in ActiveIds
    BY <2>1 DEF SafeInv, CollectionsInv, CollectionRevisions
  <2>3. PICK q \in TakenSnapshots(k, allSnapshots) : q.id = t.id /\ Qualifies(k, q)
    BY <2>2, ActiveIdHasLate
  <2>4. q \in allSnapshots /\ q \in snapshots /\ IsLate(k, q)
    BY <1>1, <2>3
  <2>5. CASE q.revision < t.revision
    <3>1. c \in q.chunks
      BY <1>3, <2>3, <2>4, <2>5 DEF SafeInv, CollectionsInv, FirstLateDecides
    <3> QED BY <1>2, <3>1
  <2>6. CASE ~(q.revision < t.revision)
    <3>1. t \in allSnapshots
      BY <1>0, <2>3, <2>4, <2>6 DEF SafeInv, MemoryInv, Listed
    <3>2. t \in TakenSnapshots(k, allSnapshots)
      <4>1. t \in NewSnapshots(k, allSnapshots)
        BY <2>1, <3>1 DEF NewSnapshots, IsNewTo
      <4>2. \A u \in NewSnapshots(k, allSnapshots) :
              u.id = q.id /\ u.revision < q.revision => ~Qualifies(k, u)
        BY DEF TakenSnapshots
      <4>3. \A u \in NewSnapshots(k, allSnapshots) : u.revision < t.revision => u.revision < q.revision
        BY <2>4, <2>6 DEF NewSnapshots
      <4> QED BY <2>3, <4>1, <4>2, <4>3 DEF TakenSnapshots
    <3> QED BY <1>2, <1>3, <3>2
  <2> QED BY <2>5, <2>6
<1>4. ASSUME NEW i \in Id, c \in ReliedBy(backup[i]) PROVE c \in ChunksOf(TakenSnapshots(k, allSnapshots))
  <2>1. i \in ActiveIds
    BY <1>4, ReliedAtRest DEF SafeInv, HistoryInv, BackupShape
  <2>2. PICK q \in TakenSnapshots(k, allSnapshots) : q.id = i /\ Qualifies(k, q)
    BY <2>1, ActiveIdHasLate
  <2>3. q \in snapshots /\ IsLate(k, q)
    BY <1>1, <2>2
  <2>4. c \in q.chunks
    BY <1>4, <2>2, <2>3 DEF SafeInv, CollectionsInv, FirstLateDecides
  <2> QED BY <1>2, <2>4
<1> QED BY <1>3, <1>4 DEF Used, ChunksOf

-----------------------------------------------------------------------------
(* The tasks of the workers: TasksInv. *)

(* A backup uses a chunk it did not use before only if the chunk file is   *)
(* there.                                                                  *)
LEMMA BackupUses ==
  ASSUME IndInv, SafeInv, NEW i \in Id,
         Starts(i) \/ GoesOn(i) \/ \E new \in Snapshot : Publishes(i, new)
  PROVE  /\ chunkFiles \subseteq chunkFiles' /\ UNCHANGED fossilFiles
         /\ \A c : Used(c)' => Used(c) \/ c \in chunkFiles'
<1>1. chunkFiles \subseteq chunkFiles' /\ UNCHANGED fossilFiles
  BY DEF Starts, GoesOn, Publishes, OnlyBackup
<1>2. ASSUME NEW c, NEW j \in Id, c \in ReliedBy(backup'[j]) PROVE Used(c) \/ c \in chunkFiles'
  <2>1. CASE j /= i
    <3>1. backup'[j] = backup[j]
      BY <2>1 DEF Starts, GoesOn, Publishes, OnlyBackup
    <3> QED BY <1>2, <3>1 DEF Used
  <2>2. CASE j = i /\ Starts(i)
    BY <1>2, <2>2 DEF Starts, Used, ChunksOf
  <2>3. CASE j = i /\ GoesOn(i)
    BY <1>2, <2>3 DEF GoesOn, Used
  <2>4. CASE j = i /\ \E new \in Snapshot : Publishes(i, new)
    BY <1>2, <2>4, ReliedAtRest DEF Publishes
  <2> QED BY <2>1, <2>2, <2>3, <2>4
<1>3. ASSUME NEW c, NEW s \in snapshots', c \in s.chunks PROVE Used(c)
  <2>1. CASE s \in snapshots
    BY <1>3, <2>1 DEF Used, ChunksOf
  <2>2. CASE s \notin snapshots
    BY <1>3, <2>2 DEF Used, Starts, GoesOn, Publishes
  <2> QED BY <2>1, <2>2
<1> QED BY <1>1, <1>2, <1>3 DEF Used, ChunksOf

LEMMA TasksTickBackup ==
  ASSUME IndInv, SafeInv,
         Tick \/ \E i \in Id : Starts(i) \/ GoesOn(i) \/ \E new \in Snapshot : Publishes(i, new)
  PROVE  TasksInv'
<1>1. UNCHANGED pruneVars
  BY DEF Tick, Starts, GoesOn, Publishes, OnlyBackup
<1>2. /\ chunkFiles \subseteq chunkFiles' /\ UNCHANGED fossilFiles
      /\ \A c : Used(c)' => Used(c) \/ c \in chunkFiles'
  <2>1. CASE Tick
    BY <2>1 DEF Tick, storageVars, backupVars, Used, ChunksOf
  <2> QED BY <2>1, BackupUses
<1>3. TaskOrder' /\ Collecting'
  BY <1>1 DEF SafeInv, TasksInv, TaskOrder, Collecting, pruneVars, pruneRunVars, ChunksOf
<1>4. DeleteTasks'
  BY <1>1, <1>2 DEF SafeInv, TasksInv, DeleteTasks, pruneVars, pruneRunVars
<1>5. ResurrectTasks'
  BY <1>1, <1>2 DEF SafeInv, TasksInv, ResurrectTasks, pruneVars, pruneRunVars, ChunksOf
<1>6. FossilizeTasks'
  BY <1>1, <1>2 DEF SafeInv, TasksInv, FossilizeTasks, pruneVars, pruneRunVars, ChunksOf
<1> QED BY <1>3, <1>4, <1>5, <1>6 DEF TasksInv

(* There is nothing to show where there are no tasks. *)
LEMMA TasksNone ==
  ASSUME tasks' = {}, prunePc' /= "collecting"
  PROVE  TasksInv'
BY DEF TasksInv, TaskOrder, DeleteTasks, ResurrectTasks, FossilizeTasks, Collecting

(* The worker that takes a step works on the first of the tasks, and alone. *)
LEMMA ReadyAlone ==
  ASSUME LockFreeScenario, IndInv, SafeInv, NEW t \in tasks, Ready(t)
  PROVE  \A u \in tasks : u /= t => /\ u.step = "queued"
                                    /\ t.stage <= u.stage
                                    /\ t.stage = u.stage => t.chunk /= u.chunk
<1> USE Types
<1> SUFFICES ASSUME NEW u \in tasks, u /= t
             PROVE  u.step = "queued" /\ t.stage <= u.stage
  BY DEF SafeInv, TasksInv, TaskOrder
<1>1. CASE t.step /= "queued"
  BY <1>1 DEF SafeInv, TasksInv, TaskOrder
<1>2. CASE t.step = "queued"
  <2>1. Running = {}
    <3> SUFFICES ASSUME NEW r \in Running PROVE FALSE
      OBVIOUS
    <3>1. Running = {r}
      BY DEF SafeInv, TasksInv, TaskOrder, Running
    <3>2. Cardinality(Running) = 1
      BY <3>1, FS_Singleton
    <3> QED BY <1>2, <3>2 DEF Ready, LockFreeScenario
  <2>2. u.step = "queued"
    BY <2>1 DEF Running
  <2> QED BY <1>2, <2>2 DEF Ready
<1> QED BY <1>1, <1>2

(* What a worker does to the files: it touches those of its own chunk, and *)
(* removes a file only if the chunk stays readable or is not used.         *)
LEMMA TaskFiles ==
  ASSUME LockFreeScenario, IndInv, SafeInv, NEW t \in tasks,
         \/ TaskFindChunk(t) \/ TaskDelete(t) \/ TaskFossilize(t) \/ TaskAlreadyFossil(t)
         \/ TaskResurrect(t) \/ TaskError(t)
  PROVE  /\ Ready(t) /\ TaskFrame
         /\ \A c \in Chunk : c /= t.chunk =>
              (c \in chunkFiles' <=> c \in chunkFiles) /\ (c \in fossilFiles' <=> c \in fossilFiles)
         /\ t.chunk \in chunkFiles \ chunkFiles' => t.op = "fossilize"
         /\ Used(t.chunk) /\ Readable(t.chunk) => t.chunk \in chunkFiles' \/ t.chunk \in fossilFiles'
         /\ ~TaskError(t)
<1>0. t.op = "delete" => t.file = "fossil" /\ (t.chunk \in chunkFiles \/ ~Used(t.chunk))
  BY DEF SafeInv, TasksInv, DeleteTasks
<1>1. t.op = "resurrect" => (t.step = "found" => t.chunk \in chunkFiles) /\ t.step /= "failed"
  BY DEF SafeInv, TasksInv, ResurrectTasks
<1>2. Ready(t) /\ TaskFrame
  BY DEF TaskFindChunk, TaskDelete, TaskFossilize, TaskAlreadyFossil, TaskResurrect, TaskError
<1>3. ~TaskError(t)
  <2>1. t.op \in {"fossilize", "resurrect", "delete"}
    BY DEF IndInv, TypeOK, PruneTypeOK, Task
  <2>2. t.step \in {"absent", "failed"} => t.chunk \in fossilFiles
    BY <2>1 DEF SafeInv, TasksInv, DeleteTasks, ResurrectTasks, FossilizeTasks
  <2> QED BY <2>2 DEF TaskError, LockFreeScenario
<1>4. CASE TaskFindChunk(t)
  BY <1>2, <1>3, <1>4 DEF TaskFindChunk, Readable
<1>5. CASE TaskDelete(t)
  BY <1>0, <1>2, <1>3, <1>5 DEF TaskDelete, DeleteFossilFile, DeleteChunkFile, Readable
<1>6. CASE TaskFossilize(t)
  BY <1>2, <1>3, <1>6 DEF TaskFossilize, MoveChunkToFossil, Readable
<1>7. CASE TaskAlreadyFossil(t)
  BY <1>2, <1>3, <1>7 DEF TaskAlreadyFossil, Readable
<1>8. CASE TaskResurrect(t)
  BY <1>1, <1>2, <1>3, <1>8 DEF TaskResurrect, MoveFossilToChunk, DeleteFossilFile, Readable
<1> QED BY <1>3, <1>4, <1>5, <1>6, <1>7, <1>8

(* A task that goes on to its next step, or ends. *)
LEMMA TaskTasks ==
  ASSUME LockFreeScenario, IndInv, SafeInv, NEW t \in tasks,
         \/ TaskFindChunk(t) \/ TaskDelete(t) \/ TaskFossilize(t) \/ TaskAlreadyFossil(t)
         \/ TaskResurrect(t) \/ TaskError(t)
  PROVE  \/ Finish(t) /\ (t.op = "fossilize" => newFossils' = newFossils \union {t.chunk})
                      /\ (t.op /= "fossilize" => newFossils' = newFossils)
         \/ /\ \E step \in {"found", "absent", "failed"} :
                /\ Advance(t, step)
                /\ step = "found" => t.chunk \in chunkFiles
                /\ step /= "found" => t.chunk \in fossilFiles
                /\ step = "failed" => t.op = "fossilize"
            /\ t.op /= "delete" /\ UNCHANGED <<chunkFiles, fossilFiles, newFossils>>
<1>0. t.op = "delete" => t.file = "fossil"
  BY DEF SafeInv, TasksInv, DeleteTasks
<1>1. CASE TaskFindChunk(t)
  <2>1. t.op /= "delete"
    BY <1>0, <1>1 DEF TaskFindChunk
  <2>2. t.chunk \in chunkFiles \/ t.chunk \in fossilFiles
    <3>1. t.op = "resurrect" => t.chunk \in ChunksOf(allSnapshots)
      BY DEF SafeInv, TasksInv, ResurrectTasks
    <3>2. t.op = "fossilize" => t.chunk \in ChunksOf(flagged) /\ flagged \subseteq allSnapshots
      <4>1. t.op = "fossilize" => t.file = ""
        BY <1>1 DEF TaskFindChunk
      <4> QED BY <4>1 DEF SafeInv, TasksInv, FossilizeTasks, MemoryInv, Phases
    <3>3. t.op \in {"fossilize", "resurrect", "delete"}
      BY DEF IndInv, TypeOK, PruneTypeOK, Task
    <3>4. t.chunk \in ChunksOf(allSnapshots)
      BY <2>1, <3>1, <3>2, <3>3 DEF ChunksOf
    <3>5. allSnapshots \subseteq snapshots
      BY DEF SafeInv, MemoryInv, ListedStay, Phases
    <3>6. Used(t.chunk)
      BY <3>4, <3>5 DEF Used, ChunksOf
    <3> QED BY <3>6, Types DEF SafeInv, UsedReadable, Readable
  <2> QED BY <1>1, <2>1, <2>2 DEF TaskFindChunk
<1>2. CASE TaskDelete(t)
  BY <1>2 DEF TaskDelete
<1>3. CASE TaskFossilize(t)
  <2>1. t.chunk \in chunkFiles
    BY <1>3 DEF TaskFossilize, Located, SafeInv, TasksInv, FossilizeTasks, IndInv, TypeOK, PruneTypeOK, Task
  <2> QED BY <1>3, <2>1 DEF TaskFossilize
<1>4. CASE TaskAlreadyFossil(t)
  BY <1>4 DEF TaskAlreadyFossil
<1>5. CASE TaskResurrect(t)
  BY <1>5 DEF TaskResurrect
<1> QED BY <1>1, <1>2, <1>3, <1>4, <1>5, TaskFiles

LEMMA TasksTask ==
  ASSUME LockFreeScenario, IndInv, SafeInv, UNCHANGED backupVars, NEW t \in tasks,
         \/ TaskFindChunk(t) \/ TaskDelete(t) \/ TaskFossilize(t) \/ TaskAlreadyFossil(t)
         \/ TaskResurrect(t) \/ TaskError(t)
  PROVE  TasksInv'
<1> USE Types
<1> DEFINE alone == \A u \in tasks : u /= t => /\ u.step = "queued"
                                               /\ t.stage <= u.stage
                                               /\ t.stage = u.stage => t.chunk /= u.chunk
<1>1. /\ UNCHANGED <<snapshots, prunePc, allSnapshots, flagged, collectionNumber, backup>>
      /\ \A c \in Chunk : c /= t.chunk =>
           (c \in chunkFiles' <=> c \in chunkFiles) /\ (c \in fossilFiles' <=> c \in fossilFiles)
      /\ t.chunk \in chunkFiles \ chunkFiles' => t.op = "fossilize"
  BY TaskFiles DEF TaskFrame, backupVars
<1>2. alone
  BY TaskFiles, ReadyAlone
<1>3. \A c : Used(c)' <=> Used(c)
  BY <1>1 DEF Used, ChunksOf
<1> DEFINE others == tasks \ {t}
<1>4. TaskOrder /\ DeleteTasks /\ ResurrectTasks /\ FossilizeTasks /\ Collecting
  BY DEF SafeInv, TasksInv
<1>5. \A u \in others : /\ u \in tasks /\ u.step = "queued"
                        /\ t.stage <= u.stage
                        /\ t.stage = u.stage => t.chunk /= u.chunk
  BY <1>2
<1>6. \A u \in others : u.op = "delete" => u.chunk \in chunkFiles' \/ ~Used(u.chunk)
  <2> SUFFICES ASSUME NEW u \in others, u.op = "delete", Used(u.chunk)
               PROVE  u.chunk \in chunkFiles'
    OBVIOUS
  <2>1. u \in tasks /\ u.chunk \in chunkFiles /\ u.stage < collectionNumber
    BY <1>4 DEF DeleteTasks
  <2>2. t.op /= "fossilize"
    <3>1. t.op = "fossilize" => t.stage = collectionNumber
      BY <1>4 DEF FossilizeTasks
    <3> QED BY <1>5, <2>1, <3>1
  <2> QED BY <1>1, <2>1, <2>2
<1>7. \A u \in others : u.op = "fossilize" /\ u.file = "chunk" => u.chunk \in chunkFiles'
  <2> SUFFICES ASSUME NEW u \in others, u.op = "fossilize", u.file = "chunk"
               PROVE  u.chunk \in chunkFiles'
    OBVIOUS
  <2>1. u \in tasks /\ u.chunk \in chunkFiles /\ u.stage = collectionNumber
    BY <1>4, <1>5 DEF FossilizeTasks
  <2>2. t.op = "fossilize" => t.stage = collectionNumber
    BY <1>4 DEF FossilizeTasks
  <2> QED BY <1>1, <1>5, <2>1, <2>2
<1>8. CASE Finish(t) /\ (t.op = "fossilize" => newFossils' = newFossils \union {t.chunk})
                     /\ (t.op /= "fossilize" => newFossils' = newFossils)
  <2>1. tasks' = others
    BY <1>8 DEF Finish
  <2>2. TaskOrder'
    BY <1>1, <1>4, <2>1 DEF TaskOrder
  <2>3. DeleteTasks'
    BY <1>1, <1>3, <1>4, <1>6, <2>1 DEF DeleteTasks
  <2>4. ResurrectTasks'
    BY <1>1, <1>4, <1>5, <2>1 DEF ResurrectTasks, ChunksOf
  <2>5. FossilizeTasks'
    BY <1>1, <1>4, <1>5, <1>7, <2>1 DEF FossilizeTasks, ChunksOf
  <2>6. Collecting'
    <3> SUFFICES ASSUME prunePc = "collecting"
                 PROVE  /\ newFossils' \intersect ChunksOf(allSnapshots \ flagged) = {}
                        /\ \A c \in ChunksOf(flagged) \ ChunksOf(allSnapshots \ flagged) :
                             c \in newFossils' \/ \E u \in others : u.op = "fossilize" /\ u.chunk = c
      BY <1>1, <2>1 DEF Collecting, ChunksOf
    <3>1. /\ newFossils \intersect ChunksOf(allSnapshots \ flagged) = {}
          /\ \A c \in ChunksOf(flagged) \ ChunksOf(allSnapshots \ flagged) :
               c \in newFossils \/ \E u \in tasks : u.op = "fossilize" /\ u.chunk = c
      BY <1>4 DEF Collecting
    <3>2. t.op = "fossilize" => t.chunk \notin ChunksOf(allSnapshots \ flagged)
      BY <1>4 DEF FossilizeTasks
    <3> QED BY <1>8, <3>1, <3>2
  <2> QED BY <2>2, <2>3, <2>4, <2>5, <2>6 DEF TasksInv
<1>9. ASSUME NEW step \in {"found", "absent", "failed"}, Advance(t, step),
             step = "found" => t.chunk \in chunkFiles,
             step /= "found" => t.chunk \in fossilFiles,
             step = "failed" => t.op = "fossilize",
             t.op /= "delete", UNCHANGED <<chunkFiles, fossilFiles, newFossils>>
      PROVE  TasksInv'
  <2> DEFINE n == [t EXCEPT !.step = step]
  <2>1. tasks' = others \union {n}
    BY <1>9 DEF Advance
  <2>2. n.step = step /\ n.op = t.op /\ n.chunk = t.chunk /\ n.stage = t.stage /\ n.file = t.file
    BY DEF IndInv, TypeOK, PruneTypeOK, Task
  <2> HIDE DEF n
  <2>3. TaskOrder'
    <3>1. \A u, v \in tasks' : u.stage = v.stage /\ u.chunk = v.chunk => u = v
      BY <1>4, <1>5, <2>1, <2>2 DEF TaskOrder
    <3>2. \A u, v \in tasks' : u.step /= "queued" => u.stage <= v.stage
      BY <1>5, <2>1, <2>2
    <3>3. \A u, v \in tasks' : u.step /= "queued" /\ v.step /= "queued" => u = v
      BY <1>5, <2>1
    <3>4. prunePc' /= "collecting" => \A u \in tasks' : u.stage < collectionNumber'
      BY <1>1, <1>4, <2>1, <2>2 DEF TaskOrder
    <3> QED BY <3>1, <3>2, <3>3, <3>4 DEF TaskOrder
  <2>4. DeleteTasks'
    BY <1>1, <1>3, <1>4, <1>6, <1>9, <2>1, <2>2 DEF DeleteTasks
  <2>5. ResurrectTasks'
    BY <1>1, <1>4, <1>5, <1>9, <2>1, <2>2 DEF ResurrectTasks, ChunksOf
  <2>6. FossilizeTasks'
    BY <1>1, <1>4, <1>5, <1>9, <2>1, <2>2 DEF FossilizeTasks, ChunksOf
  <2>7. Collecting'
    BY <1>1, <1>4, <1>9, <2>1, <2>2 DEF Collecting, ChunksOf
  <2> QED BY <2>3, <2>4, <2>5, <2>6, <2>7 DEF TasksInv
<1> HIDE DEF others, alone
<1> QED BY <1>8, <1>9, TaskTasks

LEMMA TasksReap ==
  ASSUME LockFreeScenario, IndInv, SafeInv, UNCHANGED backupVars, NEW k \in collections, PruneReap(k)
  PROVE  TasksInv'
<1> USE Types
<1>1. /\ prunePc = "collections" /\ k \in todo /\ ~IsGhost(k, allSnapshots)
      /\ UNCHANGED <<chunkFiles, snapshots, backup, prunePc, allSnapshots, collectionNumber>>
      /\ tasks' = tasks \union ReapTasks(k)
  BY DEF PruneReap, IsNext, storageVars, backupVars
<1>2. tasks = {} /\ k.number < collectionNumber
  BY <1>1 DEF SafeInv, MemoryInv, Phases
<1>3. Considered = allSnapshots /\ IsDeletable(k, allSnapshots)
  <2>1. ~pruneMode.exclusive /\ pruneMode.ignored = {}
    BY DEF SafeInv, MemoryInv, NormalMode
  <2>2. Considered = allSnapshots
    BY <2>1 DEF Considered
  <2> QED BY <2>1, <2>2 DEF PruneReap
<1>4. ResurrectFor(k) = TakenSnapshots(k, allSnapshots)
  BY <1>3 DEF ResurrectFor
<1>5. \A t \in tasks' :
        /\ t.chunk \in k.fossils /\ t.file = "fossil" /\ t.stage = k.number /\ t.step = "queued"
        /\ t.op = IF t.chunk \in ChunksOf(TakenSnapshots(k, allSnapshots)) THEN "resurrect" ELSE "delete"
  BY <1>1, <1>2, <1>4 DEF ReapTasks
<1>6. \A t, u \in tasks' : t.chunk = u.chunk => t = u
  BY <1>1, <1>2 DEF ReapTasks
<1>7. TaskOrder'
  BY <1>1, <1>2, <1>5, <1>6 DEF TaskOrder
<1>8. DeleteTasks'
  <2> SUFFICES ASSUME NEW t \in tasks', t.op = "delete"
               PROVE  t.chunk \in chunkFiles \/ ~Used(t.chunk)
    BY <1>1, <1>2, <1>5 DEF DeleteTasks, Used, ChunksOf
  <2>1. t.chunk \in k.fossils /\ t.chunk \notin ChunksOf(TakenSnapshots(k, allSnapshots))
    BY <1>5
  <2> QED BY <1>1, <1>3, <2>1, UsedIsResurrected
<1>9. ResurrectTasks'
  <2>1. TakenSnapshots(k, allSnapshots) \subseteq allSnapshots
    BY DEF TakenSnapshots, NewSnapshots
  <2>2. ChunksOf(TakenSnapshots(k, allSnapshots)) \subseteq ChunksOf(allSnapshots)
    BY <2>1 DEF ChunksOf
  <2>3. ChunksOf(allSnapshots)' = ChunksOf(allSnapshots)
    BY <1>1 DEF ChunksOf
  <2> QED BY <1>5, <2>2, <2>3 DEF ResurrectTasks
<1>10. FossilizeTasks' /\ Collecting'
  BY <1>1, <1>5 DEF FossilizeTasks, Collecting
<1> QED BY <1>7, <1>8, <1>9, <1>10 DEF TasksInv

(* The tasks step 1 adds when it selects the snapshots S. *)
IsSelectTask(t, S) ==
  /\ t.stage = collectionNumber /\ t.step = "queued"
  /\ \/ /\ t.op = "fossilize" /\ t.file = "" /\ t.chunk \in ChunksOf(S) \ ChunksOf(allSnapshots \ S)
     \/ /\ t.op = "fossilize" /\ t.file = "chunk" /\ t.chunk \in chunkFiles \ ChunksOf(allSnapshots \ S)
     \/ /\ t.op = "resurrect" /\ t.file = "fossil" /\ t.chunk \in ChunksOf(allSnapshots \ S)

(* The fields of a new task. *)
LEMMA NewTaskFields ==
  ASSUME NEW op, NEW c, NEW file
  PROVE  /\ NewTask(op, c, file).op = op /\ NewTask(op, c, file).chunk = c
         /\ NewTask(op, c, file).file = file /\ NewTask(op, c, file).stage = collectionNumber
         /\ NewTask(op, c, file).step = "queued"
BY DEF NewTask

(* Step 1 queues a task for, or collects at once, each chunk that only     *)
(* selected snapshots reference, one task per chunk.                       *)
LEMMA SelectTasks ==
  ASSUME LockFreeScenario, IndInv, SafeInv, NEW S \in SUBSET allSnapshots, PruneSelect(S)
  PROVE  /\ \A t \in tasks' : t \in tasks \/ IsSelectTask(t, S)
         /\ \A t, u \in tasks' : t \notin tasks /\ u \notin tasks /\ t.chunk = u.chunk => t = u
         /\ newFossils' \intersect ChunksOf(allSnapshots \ S) = {}
         /\ \A c \in ChunksOf(S) \ ChunksOf(allSnapshots \ S) :
              c \in newFossils' \/ \E t \in tasks' : t.op = "fossilize" /\ t.chunk = c
<1>1. ~pruneMode.exclusive /\ prunePc = "select" /\ newFossils = {} /\ allSnapshots \subseteq snapshots
  <2>1. prunePc = "select"
    BY DEF PruneSelect
  <2> QED BY <2>1 DEF SafeInv, MemoryInv, NormalMode, Phases, ListedStay
<1>2. \A c, file : FossilizeChunk(c, file) = NewTask("fossilize", c, file)
  BY <1>1 DEF FossilizeChunk
<1>4. CASE NonExhaustive(S)
  <2> DEFINE target == ChunksOf(S) \ ChunksOf(allSnapshots \ S)
             none   == ""
  <2>1. tasks' = tasks \union {NewTask("fossilize", c, none) : c \in target}
    BY <1>2, <1>4 DEF NonExhaustive, TargetChunks
  <2>2. newFossils' = {}
    BY <1>1, <1>4 DEF NonExhaustive
  <2> HIDE DEF target, none
  <2>3. \A t \in tasks' : t \in tasks \/ \E c \in target : t = NewTask("fossilize", c, none)
    BY <2>1
  <2>4. \A t \in tasks' : t \in tasks \/ IsSelectTask(t, S)
    <3>1. \A t \in tasks' : \/ t \in tasks
                             \/ /\ t.op = "fossilize" /\ t.chunk \in target /\ t.file = none
                                /\ t.stage = collectionNumber /\ t.step = "queued"
      BY <2>3, NewTaskFields
    <3> QED BY <3>1 DEF IsSelectTask, target, none
  <2>5. \A t, u \in tasks' : t \notin tasks /\ u \notin tasks /\ t.chunk = u.chunk => t = u
    BY <2>3, NewTaskFields
  <2>6. \A c \in target : \E t \in tasks' : t.op = "fossilize" /\ t.chunk = c
    BY <2>1, NewTaskFields
  <2> QED BY <2>2, <2>4, <2>5, <2>6 DEF target
<1>5. CASE Exhaustive(S)
  <2> DEFINE referenced == ChunksOf(allSnapshots \ S)
             unknown    == {c \in fossilFiles : ListedFossil(c) \notin referencedFossils}
  <2>1. /\ tasks' = tasks \union {NewTask("fossilize", c, "chunk") : c \in chunkFiles \ referenced}
                          \union {NewTask("resurrect", c, "fossil") : c \in unknown \intersect referenced}
        /\ newFossils' = unknown \ referenced
    BY <1>1, <1>2, <1>5 DEF Exhaustive
  <2>2. fossilFiles \subseteq unknown
    <3> SUFFICES ASSUME NEW c \in fossilFiles, ListedFossil(c) \in referencedFossils PROVE FALSE
      OBVIOUS
    <3>1. PICK d \in Chunk : ListedFossil(c) = RecordedFossil(d)
      BY DEF IndInv, TypeOK, PruneTypeOK
    <3> QED BY <3>1 DEF ListedFossil, RecordedFossil
  <2> HIDE DEF referenced, unknown
  <2>3. \A t \in tasks' :
          \/ t \in tasks
          \/ \E c \in chunkFiles \ referenced : t = NewTask("fossilize", c, "chunk")
          \/ \E c \in unknown \intersect referenced : t = NewTask("resurrect", c, "fossil")
    BY <2>1
  <2>4. \A t \in tasks' : t \in tasks \/ IsSelectTask(t, S)
    <3>1. \A t \in tasks' :
            \/ t \in tasks
            \/ /\ t.stage = collectionNumber /\ t.step = "queued"
               /\ \/ t.op = "fossilize" /\ t.file = "chunk" /\ t.chunk \in chunkFiles \ referenced
                  \/ t.op = "resurrect" /\ t.file = "fossil" /\ t.chunk \in referenced
      BY <2>3, NewTaskFields
    <3> QED BY <3>1 DEF IsSelectTask, referenced
  <2>5. \A t, u \in tasks' : t \notin tasks /\ u \notin tasks /\ t.chunk = u.chunk => t = u
    BY <2>3, NewTaskFields
  <2>6. ASSUME NEW c \in ChunksOf(S) \ referenced
        PROVE  c \in newFossils' \/ \E t \in tasks' : t.op = "fossilize" /\ t.chunk = c
    <3>1. Used(c) /\ c \in Chunk
      BY <1>1, Types DEF Used, ChunksOf
    <3>2. c \in chunkFiles \/ c \in fossilFiles
      BY <3>1 DEF SafeInv, UsedReadable, Readable
    <3>3. c \in fossilFiles => c \in newFossils'
      BY <2>1, <2>2
    <3>4. c \in chunkFiles => NewTask("fossilize", c, "chunk") \in tasks'
      BY <2>1
    <3> QED BY <3>2, <3>3, <3>4, NewTaskFields
  <2>7. newFossils' \intersect referenced = {}
    BY <2>1
  <2> QED BY <2>4, <2>5, <2>6, <2>7 DEF referenced
<1> QED BY <1>4, <1>5 DEF PruneSelect

LEMMA TasksSelect ==
  ASSUME LockFreeScenario, IndInv, SafeInv, UNCHANGED backupVars,
         NEW S \in SUBSET allSnapshots, PruneSelect(S)
  PROVE  TasksInv'
<1> USE Types
<1>1. /\ UNCHANGED <<chunkFiles, fossilFiles, snapshots, backup, allSnapshots, collectionNumber>>
      /\ prunePc = "select" /\ prunePc' = "collecting" /\ flagged' = S
  BY DEF PruneSelect, storageVars, backupVars
<1>2. \A t \in tasks' : t \in tasks \/ IsSelectTask(t, S)
  BY SelectTasks
<1>3. \A t \in tasks : t.stage < collectionNumber /\ t.op /= "fossilize"
  BY <1>1 DEF SafeInv, TasksInv, TaskOrder, FossilizeTasks
<1>10. \A t \in tasks' : t \in tasks \/ (t.stage = collectionNumber /\ t.step = "queued")
  BY <1>2 DEF IsSelectTask
<1>4. TaskOrder'
  <2>1. \A t, u \in tasks' : t.stage = u.stage /\ t.chunk = u.chunk => t = u
    <3>1. \A t, u \in tasks : t.stage = u.stage /\ t.chunk = u.chunk => t = u
      BY DEF SafeInv, TasksInv, TaskOrder
    <3>2. \A t, u \in tasks' : t \notin tasks /\ u \notin tasks /\ t.chunk = u.chunk => t = u
      BY SelectTasks
    <3> QED BY <1>3, <1>10, <3>1, <3>2
  <2>2. \A t, u \in tasks' : t.step /= "queued" => t.stage <= u.stage
    <3>1. \A t, u \in tasks : t.step /= "queued" => t.stage <= u.stage
      BY DEF SafeInv, TasksInv, TaskOrder
    <3> QED BY <1>3, <1>10, <3>1
  <2>3. \A t, u \in tasks' : t.step /= "queued" /\ u.step /= "queued" => t = u
    <3>1. \A t, u \in tasks : t.step /= "queued" /\ u.step /= "queued" => t = u
      BY DEF SafeInv, TasksInv, TaskOrder
    <3> QED BY <1>2, <3>1 DEF IsSelectTask
  <2> QED BY <1>1, <2>1, <2>2, <2>3 DEF TaskOrder
<1>5. DeleteTasks'
  <2>1. \A c : Used(c)' <=> Used(c)
    BY <1>1 DEF Used, ChunksOf
  <2> QED BY <1>1, <1>2, <2>1 DEF SafeInv, TasksInv, DeleteTasks, IsSelectTask
<1>6. ResurrectTasks'
  <2>1. ChunksOf(allSnapshots \ S) \subseteq ChunksOf(allSnapshots) /\ ChunksOf(allSnapshots)' = ChunksOf(allSnapshots)
    BY <1>1 DEF ChunksOf
  <2> HIDE DEF ChunksOf
  <2> QED BY <1>1, <1>2, <2>1 DEF SafeInv, TasksInv, ResurrectTasks, IsSelectTask
<1>7. ChunksOf(allSnapshots \ flagged)' = ChunksOf(allSnapshots \ S) /\ ChunksOf(flagged)' = ChunksOf(S)
  BY <1>1 DEF ChunksOf
<1>8. FossilizeTasks'
  BY <1>1, <1>2, <1>3, <1>7 DEF FossilizeTasks, IsSelectTask
<1>9. Collecting'
  BY <1>1, <1>7, SelectTasks DEF Collecting
<1> QED BY <1>4, <1>5, <1>6, <1>8, <1>9 DEF TasksInv

LEMMA TasksPrune ==
  ASSUME LockFreeScenario, IndInv, SafeInv, PruneStep
  PROVE  TasksInv'
<1>0. UNCHANGED backupVars
  BY DEF PruneStep
<1>1. /\ prunePc \in {"idle", "listing", "deleting"} \/ todo /= {} => tasks = {}
      /\ todo /= {} => prunePc = "collections"
  BY DEF SafeInv, MemoryInv, Phases
<1>2. CASE \/ \E mode \in PruneModes : PruneStart(mode)
           \/ \E i \in Id : PruneList(i)
           \/ PruneListCollections \/ PruneSave
           \/ \E s \in flagged : PruneDeleteSnapshot(s)
           \/ \E k \in collections : PruneGhost(k) \/ PrunePostpone(k)
           \/ PruneEnd \/ PruneCrash
  <2>1. tasks' = {} /\ prunePc' /= "collecting"
    BY <1>1, <1>2 DEF PruneStart, PruneList, PruneListCollections, PruneSave, PruneDeleteSnapshot,
         PruneGhost, PrunePostpone, IsNext, PruneEnd, PruneCrash, PruneReset
  <2> QED BY <2>1, TasksNone
<1>3. CASE PruneCollectionsDone \/ PruneNothing \/ \E k \in collections : PruneDeleteCollection(k)
  <2>1. /\ UNCHANGED <<chunkFiles, fossilFiles, snapshots, backup, allSnapshots, collectionNumber, flagged, tasks,
                       newFossils>>
        /\ prunePc \in {"collections", "select"} /\ prunePc' /= "collecting"
    <3>1. reaped /= {} => prunePc = "collections"
      BY DEF SafeInv, MemoryInv, Phases
    <3> QED BY <1>0, <1>3, <3>1 DEF PruneCollectionsDone, PruneNothing, PruneDeleteCollection, storageVars, backupVars
  <2>2. \A c : Used(c)' <=> Used(c)
    BY <2>1 DEF Used, ChunksOf
  <2>3. TaskOrder' /\ FossilizeTasks' /\ Collecting'
    BY <2>1 DEF SafeInv, TasksInv, TaskOrder, FossilizeTasks, Collecting
  <2>4. DeleteTasks'
    BY <2>1, <2>2 DEF SafeInv, TasksInv, DeleteTasks
  <2>5. ResurrectTasks'
    BY <2>1 DEF SafeInv, TasksInv, ResurrectTasks, ChunksOf
  <2> QED BY <2>3, <2>4, <2>5 DEF TasksInv
<1> QED BY <1>0, <1>2, <1>3, TasksTask, TasksReap, TasksSelect DEF PruneStep

-----------------------------------------------------------------------------
(* The saved collections: CollectionsInv. *)

LEMMA CollectionsTick ==
  ASSUME SafeInv, Tick
  PROVE  CollectionsInv'
<1>1. UNCHANGED <<storageVars, backupVars, pruneVars>>
  BY DEF Tick
<1> QED BY <1>1 DEF SafeInv, CollectionsInv, OnePending, Collected, CollectionRevisions, UsersAreNew,
                FirstLateDecides, IsLate, IsNewTo, ChunksOf, storageVars, backupVars, pruneVars, pruneRunVars

LEMMA CollectionsBackup ==
  ASSUME LockFreeScenario, IndInv, SafeInv, NEW i \in Id,
         Starts(i) \/ GoesOn(i) \/ \E new \in Snapshot : Publishes(i, new)
  PROVE  CollectionsInv'
<1> USE Types
<1>0. OnePending /\ Collected /\ CollectionRevisions /\ UsersAreNew /\ FirstLateDecides
  BY DEF SafeInv, CollectionsInv
<1>1. /\ UNCHANGED <<collections, prunePc, allSnapshots, toList, flagged>>
      /\ chunkFiles \subseteq chunkFiles'
      /\ \A j \in Id : j /= i => backup'[j] = backup[j]
  BY DEF Starts, GoesOn, Publishes, OnlyBackup, pruneVars, pruneRunVars
<1>2. OnePending'
  BY <1>0, <1>1 DEF OnePending
<1>3. ASSUME UNCHANGED snapshots,
             \A k \in collections : Working(backup'[i]) => backup'[i].revision > k.lastRevisions[i],
             \A k \in collections : \A c \in k.fossils \ chunkFiles' : \A s \in snapshots :
               s.id = i /\ IsLate(k, s) /\ c \in ReliedBy(backup'[i]) => c \in s.chunks
      PROVE  CollectionsInv'
  <2>1. Collected' /\ UsersAreNew'
    BY <1>0, <1>1, <1>3 DEF Collected, UsersAreNew, IsNewTo, ChunksOf
  <2>2. CollectionRevisions'
    BY <1>0, <1>1, <1>3 DEF CollectionRevisions, IsNewTo
  <2>3. FirstLateDecides'
    <3> SUFFICES ASSUME NEW k \in collections, NEW c \in k.fossils \ chunkFiles', NEW s \in snapshots,
                        IsLate(k, s)
                 PROVE  /\ \A t \in snapshots : t.id = s.id /\ s.revision < t.revision /\ c \in t.chunks => c \in s.chunks
                        /\ c \in ReliedBy(backup'[s.id]) => c \in s.chunks
      BY <1>1, <1>3 DEF FirstLateDecides, IsLate, IsNewTo
    <3> QED BY <1>0, <1>1, <1>3 DEF FirstLateDecides
  <2> QED BY <1>2, <2>1, <2>2, <2>3 DEF CollectionsInv
<1>4. CASE Starts(i)
  <2>1. PICK latest \in snapshots :
          /\ latest.id = i /\ IsLatest(snapshots, latest)
          /\ backup'[i].revision = latest.revision + 1
          /\ ReliedBy(backup'[i]) \subseteq latest.chunks
    BY <1>4 DEF Starts
  <2>2. UNCHANGED <<snapshots, chunkFiles>>
    BY <1>4 DEF Starts
  <2>3. ASSUME NEW k \in collections PROVE backup'[i].revision > k.lastRevisions[i]
    <3>1. PICK s \in snapshots : s.id = i /\ s.revision >= k.lastRevisions[i]
      BY <1>0 DEF CollectionRevisions
    <3>2. s.revision <= latest.revision
      BY <2>1, <3>1 DEF IsLatest
    <3>3. s.revision \in Nat /\ latest.revision \in Nat /\ k.lastRevisions[i] \in Nat
      OBVIOUS
    <3> QED BY <2>1, <3>1, <3>2, <3>3
  <2>4. ASSUME NEW k \in collections, NEW c \in k.fossils \ chunkFiles, NEW s \in snapshots,
               s.id = i, IsLate(k, s), c \in ReliedBy(backup'[i])
        PROVE  c \in s.chunks
    <3>1. c \in latest.chunks
      BY <2>1, <2>4
    <3>2. CASE s.revision = latest.revision
      BY <2>1, <2>4, <3>1, <3>2 DEF SafeInv, HistoryInv, Seeded
    <3>3. CASE s.revision /= latest.revision
      <4>1. s.revision < latest.revision
        BY <2>1, <2>4, <3>3 DEF IsLatest
      <4> QED BY <1>0, <2>1, <2>4, <3>1, <4>1 DEF FirstLateDecides
    <3> QED BY <3>2, <3>3
  <2> QED BY <1>3, <2>2, <2>3, <2>4
<1>5. CASE GoesOn(i)
  <2>1. \A k \in collections : Working(backup'[i]) => backup'[i].revision > k.lastRevisions[i]
    BY <1>0, <1>5 DEF GoesOn, CollectionRevisions
  <2>2. UNCHANGED snapshots /\ ReliedBy(backup'[i]) \subseteq ReliedBy(backup[i]) \union chunkFiles'
    BY <1>5 DEF GoesOn
  <2>3. ASSUME NEW k \in collections, NEW c \in k.fossils \ chunkFiles', NEW s \in snapshots,
               s.id = i, IsLate(k, s), c \in ReliedBy(backup'[i])
        PROVE  c \in s.chunks
    <3>1. c \in ReliedBy(backup[i]) /\ c \in k.fossils \ chunkFiles
      BY <1>1, <2>2, <2>3
    <3> QED BY <1>0, <2>3, <3>1 DEF FirstLateDecides
  <2> QED BY <1>3, <2>1, <2>2, <2>3
<1>6. ASSUME NEW new \in Snapshot, Publishes(i, new) PROVE CollectionsInv'
  <2>1. /\ snapshots' = snapshots \union {new} /\ new.id = i /\ new.revision = backup[i].revision
        /\ new.chunks \subseteq ReliedBy(backup[i]) /\ Working(backup[i])
        /\ ~Working(backup'[i]) /\ ReliedBy(backup'[i]) = {}
        /\ UNCHANGED chunkFiles
    BY <1>6, RestStatesRest, ReliedAtRest DEF Publishes, Working
  <2>2. \A k \in collections : IsNewTo(k, new)
    BY <1>0, <2>1 DEF CollectionRevisions, IsNewTo
  <2>3. \A s \in snapshots : s.id = i => s.revision < new.revision
    BY <2>1 DEF IndInv, RevisionsFresh
  <2>4. i \in ActiveIds
    BY <2>1 DEF SafeInv, HistoryInv, BackupShape
  <2>5. Collected'
    <3>1. ChunksOf(snapshots \ flagged) \subseteq ChunksOf(snapshots' \ flagged)
      BY <2>1 DEF ChunksOf
    <3> QED BY <1>0, <1>1, <3>1 DEF Collected, ChunksOf
  <2>6. CollectionRevisions'
    <3> SUFFICES ASSUME NEW k \in collections
                 PROVE  /\ \A j \in Id : Working(backup'[j]) => backup'[j].revision > k.lastRevisions[j]
                        /\ \A j \in Id : \E s \in snapshots' : s.id = j /\ s.revision >= k.lastRevisions[j]
                        /\ \A s \in snapshots' : s.id \notin ActiveIds => ~IsNewTo(k, s)
                        /\ prunePc \in Looking =>
                             \A s \in snapshots' \ allSnapshots : s.id \notin toList => IsNewTo(k, s)
      BY <1>1 DEF CollectionRevisions, IsNewTo
    <3> QED BY <1>0, <1>1, <2>1, <2>2, <2>4 DEF CollectionRevisions
  <2>7. UsersAreNew'
    BY <1>0, <1>1, <2>1, <2>2 DEF UsersAreNew, IsNewTo
  <2>8. FirstLateDecides'
    <3> SUFFICES ASSUME NEW k \in collections, NEW c \in k.fossils \ chunkFiles, NEW s \in snapshots',
                        IsLate(k, s)
                 PROVE  /\ \A t \in snapshots' : t.id = s.id /\ s.revision < t.revision /\ c \in t.chunks => c \in s.chunks
                        /\ c \in ReliedBy(backup'[s.id]) => c \in s.chunks
      BY <1>1, <2>1 DEF FirstLateDecides, IsLate, IsNewTo
    <3>1. CASE s = new
      BY <2>1, <2>3, <3>1
    <3>2. CASE s \in snapshots
      <4>1. /\ \A t \in snapshots : t.id = s.id /\ s.revision < t.revision /\ c \in t.chunks => c \in s.chunks
            /\ c \in ReliedBy(backup[s.id]) => c \in s.chunks
        BY <1>0, <3>2 DEF FirstLateDecides
      <4> QED BY <1>1, <2>1, <3>2, <4>1
    <3> QED BY <2>1, <3>1, <3>2
  <2> QED BY <1>2, <2>5, <2>6, <2>7, <2>8 DEF CollectionsInv
<1> QED BY <1>4, <1>5, <1>6

LEMMA CollectionsTask ==
  ASSUME LockFreeScenario, IndInv, SafeInv, UNCHANGED backupVars, NEW t \in tasks,
         \/ TaskFindChunk(t) \/ TaskDelete(t) \/ TaskFossilize(t) \/ TaskAlreadyFossil(t)
         \/ TaskResurrect(t) \/ TaskError(t)
  PROVE  CollectionsInv'
<1>1. UNCHANGED <<snapshots, collections, prunePc, allSnapshots, toList, flagged, backup>>
  BY TaskFiles DEF TaskFrame, backupVars
<1>2. OnePending' /\ Collected' /\ CollectionRevisions' /\ UsersAreNew'
  BY <1>1 DEF SafeInv, CollectionsInv, OnePending, Collected, CollectionRevisions, UsersAreNew, IsNewTo, ChunksOf
<1>3. CASE t.op = "fossilize"
  <2>1. collections = {}
    BY <1>3 DEF SafeInv, TasksInv, FossilizeTasks, MemoryInv, Phases
  <2> QED BY <1>1, <1>2, <2>1 DEF CollectionsInv, FirstLateDecides
<1>4. CASE t.op /= "fossilize"
  <2>1. chunkFiles \subseteq chunkFiles'
    <3>1. chunkFiles \subseteq Chunk
      BY DEF IndInv, TypeOK, StorageTypeOK
    <3> QED BY <1>4, <3>1, TaskFiles
  <2>2. FirstLateDecides'
    BY <1>1, <2>1 DEF SafeInv, CollectionsInv, FirstLateDecides, IsLate, IsNewTo
  <2> QED BY <1>2, <2>2 DEF CollectionsInv
<1> QED BY <1>3, <1>4

LEMMA CollectionsDelete ==
  ASSUME LockFreeScenario, IndInv, SafeInv, UNCHANGED backupVars,
         NEW d \in flagged, PruneDeleteSnapshot(d)
  PROVE  CollectionsInv'
<1> USE Types
<1>0. OnePending /\ Collected /\ CollectionRevisions /\ UsersAreNew /\ FirstLateDecides
  BY DEF SafeInv, CollectionsInv
<1>1. /\ snapshots' = snapshots \ {d} /\ flagged' = flagged \ {d} /\ prunePc = "deleting"
      /\ UNCHANGED <<chunkFiles, collections, prunePc, backup>>
  BY DEF PruneDeleteSnapshot, backupVars
<1>2. OnePending' /\ UsersAreNew'
  BY <1>0, <1>1 DEF OnePending, UsersAreNew, IsNewTo
<1>3. Collected'
  <2>1. /\ ChunksOf(flagged') \subseteq ChunksOf(flagged)
        /\ ChunksOf(snapshots \ flagged) \subseteq ChunksOf(snapshots' \ flagged')
    BY <1>1 DEF ChunksOf
  <2> QED BY <1>0, <1>1, <2>1 DEF Collected, ChunksOf
<1>4. CollectionRevisions'
  <2>1. PICK l \in snapshots \ {d} : l.id = d.id /\ l.revision > d.revision
    BY DEF IndInv, FlaggedHaveLater, SafeInv, MemoryInv, NormalMode
  <2>2. \A k \in collections : \A i \in Id : \E s \in snapshots' : s.id = i /\ s.revision >= k.lastRevisions[i]
    <3> SUFFICES ASSUME NEW k \in collections, NEW i \in Id
                 PROVE  \E s \in snapshots' : s.id = i /\ s.revision >= k.lastRevisions[i]
      OBVIOUS
    <3>1. PICK s \in snapshots : s.id = i /\ s.revision >= k.lastRevisions[i]
      BY <1>0 DEF CollectionRevisions
    <3>2. CASE s = d
      BY <1>1, <2>1, <3>1, <3>2
    <3>3. CASE s /= d
      BY <1>1, <3>1, <3>3
    <3> QED BY <3>2, <3>3
  <2> QED BY <1>0, <1>1, <2>2 DEF CollectionRevisions, IsNewTo, Looking
<1>5. FirstLateDecides'
  BY <1>0, <1>1 DEF FirstLateDecides, IsLate, IsNewTo
<1> QED BY <1>2, <1>3, <1>4, <1>5 DEF CollectionsInv

(* The number a collection records for an id that was listed is the number *)
(* of the latest revision listed.                                          *)
LEMMA LatestRevisionIsLatest ==
  ASSUME IndInv, NEW s \in allSnapshots
  PROVE  \E l \in allSnapshots : /\ l.id = s.id /\ LatestRevision(allSnapshots, s.id) = l.revision
                                 /\ \A t \in allSnapshots : t.id = s.id => t.revision <= l.revision
<1>1. allSnapshots \in SUBSET Snapshot /\ s.id \in Id /\ MaxRevision[s.id] \in Nat
  BY Types, BackupAssumption DEF IndInv, TypeOK, PruneTypeOK
<1>2. \A t \in allSnapshots : t.id = s.id => t.revision <= MaxRevision[s.id]
  BY DEF IndInv, RevisionsBounded
<1>3. \E l \in SnapshotsOf(allSnapshots, s.id) : IsLatest(allSnapshots, l)
  BY <1>1, <1>2, LatestExists DEF SnapshotsOf
<1> DEFINE l == CHOOSE l \in SnapshotsOf(allSnapshots, s.id) : IsLatest(allSnapshots, l)
<1>4. l \in SnapshotsOf(allSnapshots, s.id) /\ IsLatest(allSnapshots, l)
  BY <1>3
<1>5. LatestRevision(allSnapshots, s.id) = l.revision
  BY <1>4 DEF LatestRevision
<1> HIDE DEF l
<1> QED BY <1>4, <1>5 DEF SnapshotsOf, IsLatest

LEMMA CollectionsSave ==
  ASSUME LockFreeScenario, IndInv, SafeInv, UNCHANGED backupVars, PruneSave
  PROVE  CollectionsInv'
<1> USE Types
<1> DEFINE new == [number |-> collectionNumber, endTime |-> now, lastRevisions |-> LastRevisions,
                   deletedRevisions |-> {<<s.id, s.revision>> : s \in flagged},
                   fossils |-> newFossils]
<1>0. /\ ~pruneMode.exclusive /\ collections = {} /\ flagged \subseteq allSnapshots
      /\ allSnapshots \subseteq snapshots /\ prunePc = "collecting" /\ tasks = {} /\ toList = {}
  <2>1. prunePc = "collecting" /\ tasks = {}
    BY DEF PruneSave
  <2> QED BY <2>1 DEF SafeInv, MemoryInv, NormalMode, Phases, ListedStay
<1>1. /\ UNCHANGED <<chunkFiles, snapshots, backup, allSnapshots, toList, flagged>>
      /\ prunePc' = "deleting"
      /\ collections' \subseteq {new} /\ (newFossils /= {} => collections' = {new})
  BY <1>0 DEF PruneSave, storageVars, backupVars
<1>2. /\ new.endTime = now /\ new.lastRevisions = LastRevisions /\ new.fossils = newFossils
      /\ new.deletedRevisions = {<<s.id, s.revision>> : s \in flagged}
  OBVIOUS
<1> HIDE DEF new
<1>3. ASSUME NEW i \in Id
      PROVE  \E l \in allSnapshots : /\ l.id = i /\ new.lastRevisions[i] = l.revision
                                     /\ \A t \in allSnapshots : t.id = i => t.revision <= l.revision
  <2>1. PICK s \in allSnapshots : s.id = i
    BY <1>0 DEF SafeInv, MemoryInv, Listed, Looking
  <2>2. new.lastRevisions[i] = LatestRevision(allSnapshots, s.id)
    BY <1>2, <2>1 DEF LastRevisions
  <2> QED BY <2>1, <2>2, LatestRevisionIsLatest
<1>4. \A s \in snapshots \ allSnapshots : s.id \in ActiveIds /\ IsNewTo(new, s)
  <2> SUFFICES ASSUME NEW s \in snapshots \ allSnapshots
               PROVE  s.id \in ActiveIds /\ IsNewTo(new, s)
    OBVIOUS
  <2>1. s.id \in Id
    OBVIOUS
  <2>2. PICK l \in allSnapshots : l.id = s.id /\ new.lastRevisions[s.id] = l.revision
    BY <1>3, <2>1
  <2> QED BY <1>0, <2>1, <2>2 DEF SafeInv, MemoryInv, Listed, Looking, IsNewTo
<1>5. \A s \in allSnapshots : ~IsNewTo(new, s)
  <2> SUFFICES ASSUME NEW s \in allSnapshots PROVE ~IsNewTo(new, s)
    OBVIOUS
  <2>1. PICK l \in allSnapshots : /\ l.id = s.id /\ new.lastRevisions[s.id] = l.revision
                                  /\ \A t \in allSnapshots : t.id = s.id => t.revision <= l.revision
    BY <1>3
  <2> QED BY <2>1 DEF IsNewTo
<1>6. OnePending'
  BY <1>1 DEF OnePending
<1>7. Collected'
  <2> SUFFICES ASSUME NEW c \in ChunksOf(flagged)
               PROVE  c \in ChunksOf(snapshots \ flagged) \/ \E k \in collections' : c \in k.fossils
    BY <1>1 DEF Collected, ChunksOf
  <2>1. c \in ChunksOf(allSnapshots \ flagged) \/ c \in newFossils
    BY <1>0 DEF SafeInv, TasksInv, Collecting
  <2>2. ChunksOf(allSnapshots \ flagged) \subseteq ChunksOf(snapshots \ flagged)
    BY <1>0 DEF ChunksOf
  <2> QED BY <1>1, <1>2, <2>1, <2>2
<1>8. CollectionRevisions'
  <2>1. \A i \in Id : Working(backup[i]) => backup[i].revision > new.lastRevisions[i]
    <3> SUFFICES ASSUME NEW i \in Id, Working(backup[i]) PROVE backup[i].revision > new.lastRevisions[i]
      OBVIOUS
    <3>1. PICK l \in allSnapshots : l.id = i /\ new.lastRevisions[i] = l.revision
      BY <1>3
    <3> QED BY <1>0, <3>1 DEF IndInv, RevisionsFresh
  <2>2. \A i \in Id : \E s \in snapshots : s.id = i /\ s.revision >= new.lastRevisions[i]
    <3> SUFFICES ASSUME NEW i \in Id PROVE \E s \in snapshots : s.id = i /\ s.revision >= new.lastRevisions[i]
      OBVIOUS
    <3>1. PICK l \in allSnapshots : l.id = i /\ new.lastRevisions[i] = l.revision
      BY <1>3
    <3> QED BY <1>0, <3>1
  <2>3. \A s \in snapshots : s.id \notin ActiveIds => ~IsNewTo(new, s)
    BY <1>4, <1>5
  <2> QED BY <1>1, <2>1, <2>2, <2>3 DEF CollectionRevisions, IsNewTo, Looking
<1>9. UsersAreNew'
  <2> SUFFICES ASSUME NEW s \in snapshots, NEW c \in s.chunks, c \in new.fossils
               PROVE  IsNewTo(new, s) \/ <<s.id, s.revision>> \in new.deletedRevisions
    BY <1>1 DEF UsersAreNew, IsNewTo
  <2>1. s \notin allSnapshots \ flagged
    BY <1>0, <1>2 DEF SafeInv, TasksInv, Collecting, ChunksOf
  <2> QED BY <1>2, <1>4, <2>1
<1>10. FirstLateDecides'
  <2>1. \A s \in snapshots : ~(s.endTime > new.endTime)
    BY <1>2 DEF SafeInv, HistoryInv, EndTimes
  <2> QED BY <1>1, <2>1 DEF FirstLateDecides, IsLate
<1> QED BY <1>6, <1>7, <1>8, <1>9, <1>10 DEF CollectionsInv

LEMMA CollectionsPrune ==
  ASSUME LockFreeScenario, IndInv, SafeInv, PruneStep
  PROVE  CollectionsInv'
<1> USE Types
<1>0. UNCHANGED backupVars
  BY DEF PruneStep
<1>1. ASSUME UNCHANGED <<chunkFiles, snapshots, backup>>, collections' \subseteq collections,
             prunePc' /= "deleting",
             prunePc' \in Looking => \A s \in snapshots \ allSnapshots' : s.id \notin toList' =>
               prunePc \in Looking /\ s \notin allSnapshots /\ s.id \notin toList
      PROVE  CollectionsInv'
  <2>1. OnePending' /\ Collected' /\ UsersAreNew'
    BY <1>1 DEF SafeInv, CollectionsInv, OnePending, Collected, UsersAreNew, IsNewTo
  <2>2. CollectionRevisions'
    BY <1>1 DEF SafeInv, CollectionsInv, CollectionRevisions, IsNewTo
  <2>3. FirstLateDecides'
    BY <1>1 DEF SafeInv, CollectionsInv, FirstLateDecides, IsLate, IsNewTo
  <2> QED BY <2>1, <2>2, <2>3 DEF CollectionsInv
<1>2. ASSUME NEW mode \in PruneModes, PruneStart(mode) PROVE CollectionsInv'
  <2>1. toList' = Id
    <3>1. Id \subseteq Ids(snapshots)
      BY DEF SafeInv, HistoryInv, Seeded, Ids
    <3> QED BY <1>2, <3>1 DEF PruneStart
  <2> QED BY <1>0, <1>1, <1>2, <2>1 DEF PruneStart, storageVars, backupVars
<1>3. ASSUME NEW i \in Id, PruneList(i) PROVE CollectionsInv'
  <2>1. /\ allSnapshots' = allSnapshots \union {s \in snapshots : s.id = i}
        /\ toList' = toList \ {i} /\ prunePc = "listing"
        /\ UNCHANGED <<chunkFiles, snapshots, backup, collections, prunePc>>
    BY <1>0, <1>3 DEF PruneList, SnapshotsOf, storageVars, backupVars
  <2> QED BY <1>1, <2>1
<1>4. CASE \/ PruneListCollections \/ PruneCollectionsDone \/ PruneNothing
           \/ \E k \in collections : PruneGhost(k) \/ PruneReap(k) \/ PruneDeleteCollection(k) \/ PrunePostpone(k)
           \/ \E S \in SUBSET allSnapshots : PruneSelect(S)
  <2>1. /\ UNCHANGED <<chunkFiles, snapshots, backup, allSnapshots, toList>> /\ collections' \subseteq collections
        /\ prunePc \in {"listing", "collections", "select"} /\ prunePc' /= "deleting"
    <3>1. reaped /= {} => prunePc = "collections"
      BY DEF SafeInv, MemoryInv, Phases
    <3> QED BY <1>0, <1>4, <3>1 DEF PruneListCollections, PruneCollectionsDone, PruneNothing, PruneGhost, PruneReap,
          PruneDeleteCollection, PrunePostpone, IsNext, PruneSelect, storageVars, backupVars
  <2> QED BY <1>1, <2>1 DEF Looking
<1>5. CASE PruneEnd \/ PruneCrash
  <2>1. UNCHANGED <<chunkFiles, snapshots, backup, collections>> /\ prunePc' = "idle"
    BY <1>0, <1>5 DEF PruneEnd, PruneCrash, PruneReset, storageVars, backupVars
  <2> QED BY <1>1, <2>1 DEF Looking
<1> QED BY <1>0, <1>2, <1>3, <1>4, <1>5, CollectionsSave, CollectionsDelete, CollectionsTask DEF PruneStep

-----------------------------------------------------------------------------
(* Every chunk in use is readable: UsedReadable, and the induction. *)

(* A task does not make a used chunk unreadable. *)
LEMMA ReadableTask ==
  ASSUME LockFreeScenario, IndInv, SafeInv, UNCHANGED backupVars, NEW t \in tasks,
         \/ TaskFindChunk(t) \/ TaskDelete(t) \/ TaskFossilize(t) \/ TaskAlreadyFossil(t)
         \/ TaskResurrect(t) \/ TaskError(t)
  PROVE  UsedReadable'
<1>1. UNCHANGED <<snapshots, backup>>
  BY TaskFiles DEF TaskFrame, backupVars
<1>2. \A c : Used(c)' <=> Used(c)
  BY <1>1 DEF Used, ChunksOf
<1>3. ASSUME NEW c \in Chunk, Used(c) PROVE Readable(c)'
  <2>1. Readable(c)
    BY <1>3 DEF SafeInv, UsedReadable
  <2> QED BY <1>3, <2>1, TaskFiles DEF Readable
<1> QED BY <1>2, <1>3 DEF UsedReadable

LEMMA ReadableOther ==
  ASSUME SafeInv, chunkFiles \subseteq chunkFiles', UNCHANGED fossilFiles,
         \A c : Used(c)' => Used(c) \/ c \in chunkFiles'
  PROVE  UsedReadable'
BY DEF SafeInv, UsedReadable, Readable

(* Prune itself, as opposed to its workers, only deletes snapshot files. *)
LEMMA PruneFiles ==
  ASSUME PruneStep,
         ~\E t \in tasks : \/ TaskFindChunk(t) \/ TaskDelete(t) \/ TaskFossilize(t)
                           \/ TaskAlreadyFossil(t) \/ TaskResurrect(t) \/ TaskError(t)
  PROVE  /\ UNCHANGED <<chunkFiles, fossilFiles, now, backup>>
         /\ \/ UNCHANGED snapshots
            \/ \E s \in flagged : PruneDeleteSnapshot(s)
         /\ \/ UNCHANGED <<snapshots, allSnapshots>>
            \/ snapshots' = snapshots /\ allSnapshots' = {}
            \/ \E i \in Id : PruneList(i)
            \/ \E s \in flagged : PruneDeleteSnapshot(s)
<1>1. UNCHANGED backup
  BY DEF PruneStep, backupVars
<1>2. CASE \/ \E mode \in PruneModes : PruneStart(mode)
           \/ PruneListCollections \/ PruneCollectionsDone \/ PruneNothing \/ PruneSave
           \/ \E k \in collections : PruneGhost(k) \/ PruneReap(k) \/ PruneDeleteCollection(k) \/ PrunePostpone(k)
           \/ \E S \in SUBSET allSnapshots : PruneSelect(S)
  BY <1>1, <1>2 DEF PruneStart, PruneListCollections, PruneCollectionsDone, PruneNothing, PruneSave, PruneGhost,
       PruneReap, PruneDeleteCollection, PrunePostpone, PruneSelect, storageVars
<1>3. CASE \E i \in Id : PruneList(i)
  BY <1>1, <1>3 DEF PruneList, storageVars
<1>4. CASE \E s \in flagged : PruneDeleteSnapshot(s)
  BY <1>1, <1>4 DEF PruneDeleteSnapshot
<1>5. CASE PruneEnd \/ PruneCrash
  BY <1>1, <1>5 DEF PruneEnd, PruneCrash, PruneReset, storageVars
<1> QED BY <1>2, <1>3, <1>4, <1>5 DEF PruneStep

LEMMA InitSafeInv ==
  ASSUME LockFreeScenario, Init
  PROVE  SafeInv
<1>1. PICK content \in [SeededIds -> SUBSET Chunk] :
        /\ snapshots = {[id |-> i, revision |-> 1, chunks |-> content[i], endTime |-> 1] : i \in SeededIds}
        /\ chunkFiles = UNION {content[i] : i \in SeededIds}
  BY DEF Init
<1>2. /\ now = 1 /\ backup = [i \in Id |-> IdleBackup] /\ collections = {} /\ prunePc = "idle" /\ pruneMode = NoMode
      /\ toList = {} /\ allSnapshots = {} /\ todo = {} /\ reaped = {} /\ flagged = {} /\ tasks = {} /\ newFossils = {}
  BY DEF Init, BackupInit, PruneInit
<1>3. SeededIds = Id
  BY DEF LockFreeScenario
<1>4. \A s \in snapshots : s.id \in Id /\ s.revision = 1 /\ s.endTime = 1 /\ s.chunks = content[s.id]
  BY <1>1, <1>3
<1>5. Seeded
  <2>1. ASSUME NEW i \in Id PROVE \E s \in snapshots : s.id = i
    <3>1. [id |-> i, revision |-> 1, chunks |-> content[i], endTime |-> 1] \in snapshots
      BY <1>1, <1>3
    <3>2. [id |-> i, revision |-> 1, chunks |-> content[i], endTime |-> 1].id = i
      OBVIOUS
    <3> QED BY <3>1, <3>2
  <2>2. \A s, t \in snapshots : s.id = t.id => s = t
    BY <1>1
  <2> QED BY <2>1, <2>2 DEF Seeded
<1>6. BackupShape /\ EndTimes
  <2>1. \A i \in Id : backup[i] \in RestStates /\ ~Working(backup[i]) /\ backup[i].pc /= "metadata"
    BY <1>2 DEF IdleBackup, RestStates, Working
  <2> QED BY <1>2, <1>4, <2>1 DEF BackupShape, EndTimes
<1>7. Awake
  <2>1. \A s \in snapshots : IsRecent(s)
    BY <1>2, <1>4, PruneAssumption DEF IsRecent
  <2> QED BY <1>2, <1>5, <2>1, ScenarioAssumption DEF Awake, Seeded
<1>8. MemoryInv
  BY <1>2 DEF MemoryInv, NormalMode, NoMode, Listed, ListedStay, Phases, Looking
<1>9. TasksInv /\ CollectionsInv
  BY <1>2 DEF TasksInv, TaskOrder, DeleteTasks, ResurrectTasks, FossilizeTasks, Collecting, CollectionsInv,
       OnePending, Collected, CollectionRevisions, UsersAreNew, FirstLateDecides
<1>10. UsedReadable
  <2>1. \A i \in Id : ReliedBy(backup[i]) = {}
    BY <1>2 DEF ReliedBy, IdleBackup
  <2>2. ChunksOf(snapshots) \subseteq chunkFiles
    BY <1>1, <1>3, <1>4 DEF ChunksOf
  <2> QED BY <2>1, <2>2 DEF UsedReadable, Used, Readable
<1> QED BY <1>5, <1>6, <1>7, <1>8, <1>9, <1>10 DEF SafeInv, HistoryInv

LEMMA NextSafeInv ==
  ASSUME LockFreeScenario, IndInv, SafeInv, [Next]_vars
  PROVE  SafeInv'
<1>1. CASE Tick
  <2>1. UsedReadable'
    BY <1>1 DEF Tick, storageVars, backupVars, SafeInv, UsedReadable, Used, Readable, ChunksOf
  <2> QED BY <1>1, <2>1, HistoryTick, MemoryTick, TasksTickBackup, CollectionsTick DEF SafeInv
<1>2. ASSUME NEW i \in Id, BackupStep(i) PROVE SafeInv'
  <2>1. Starts(i) \/ GoesOn(i) \/ \E new \in Snapshot : Publishes(i, new)
    BY <1>2, BackupStepKinds
  <2>2. UsedReadable'
    BY <2>1, BackupUses, ReadableOther
  <2>3. HistoryInv' /\ MemoryInv' /\ CollectionsInv'
    BY <2>1, HistoryBackup, MemoryBackup, CollectionsBackup
  <2>4. TasksInv'
    BY <2>1, TasksTickBackup
  <2> QED BY <2>2, <2>3, <2>4 DEF SafeInv
<1>3. CASE PruneStep
  <2>1. UNCHANGED backupVars
    BY <1>3 DEF PruneStep
  <2>2. TasksInv' /\ CollectionsInv'
    BY <1>3, TasksPrune, CollectionsPrune
  <2>3. ASSUME NEW t \in tasks,
               \/ TaskFindChunk(t) \/ TaskDelete(t) \/ TaskFossilize(t)
               \/ TaskAlreadyFossil(t) \/ TaskResurrect(t) \/ TaskError(t)
        PROVE  SafeInv'
    <3>1. UNCHANGED <<snapshots, allSnapshots, backup, now>>
      BY <2>1, <2>3, TaskFiles DEF TaskFrame, backupVars
    <3>2. HistoryInv'
      BY <3>1, HistoryPrune
    <3> QED BY <2>1, <2>2, <2>3, <3>2, MemoryTask, ReadableTask DEF SafeInv
  <2>4. CASE ~\E t \in tasks : \/ TaskFindChunk(t) \/ TaskDelete(t) \/ TaskFossilize(t)
                               \/ TaskAlreadyFossil(t) \/ TaskResurrect(t) \/ TaskError(t)
    <3>1. HistoryInv'
      BY <1>3, <2>4, PruneFiles, HistoryPrune
    <3>2. MemoryInv'
      BY <1>3, <2>4, MemoryPrune
    <3>3. snapshots' \subseteq snapshots /\ UNCHANGED <<chunkFiles, fossilFiles, backup>>
      BY <1>3, <2>4, PruneFiles DEF PruneDeleteSnapshot
    <3>4. \A c : Used(c)' => Used(c)
      BY <3>3 DEF Used, ChunksOf
    <3> QED BY <2>2, <3>1, <3>2, <3>3, <3>4, ReadableOther DEF SafeInv
  <2> QED BY <2>3, <2>4
<1>4. CASE UNCHANGED vars
  <2>1. UNCHANGED <<snapshots, allSnapshots, backup, now>>
    BY <1>4 DEF vars, storageVars, backupVars, pruneRunVars
  <2>2. HistoryInv'
    BY <2>1, HistoryPrune
  <2>3. MemoryInv'
    BY <1>4 DEF vars, storageVars, pruneRunVars, SafeInv, MemoryInv, NormalMode, Listed, ListedStay, Phases
  <2>4. UsedReadable'
    BY <1>4 DEF vars, storageVars, backupVars, SafeInv, UsedReadable, Used, Readable, ChunksOf
  <2>5. TasksInv'
    BY <1>4 DEF vars, storageVars, backupVars, pruneRunVars, SafeInv, TasksInv, TaskOrder, DeleteTasks,
         ResurrectTasks, FossilizeTasks, Collecting, Used, ChunksOf
  <2>6. CollectionsInv'
    BY <1>4 DEF vars, storageVars, backupVars, pruneRunVars, SafeInv, CollectionsInv, OnePending, Collected,
         CollectionRevisions, UsersAreNew, FirstLateDecides, IsLate, IsNewTo, ChunksOf
  <2> QED BY <2>2, <2>3, <2>4, <2>5, <2>6 DEF SafeInv
<1> QED BY <1>1, <1>2, <1>3, <1>4 DEF Next

LEMMA SafeInvariant == ASSUME LockFreeScenario PROVE Spec => []SafeInv
<1>1. Init => SafeInv
  BY InitSafeInv
<1>2. IndInv /\ SafeInv /\ [Next]_vars => SafeInv'
  BY NextSafeInv
<1> QED BY <1>1, <1>2, InductiveInvariant, PTL DEF Spec

-----------------------------------------------------------------------------
(* The theorems. *)

(* However backups and PruneSnapshots interleave and wherever prune is     *)
(* killed, every chunk that a snapshot file references is readable, as a   *)
(* chunk file or as a fossil.                                              *)
THEOREM ChunksNeverLost == ASSUME LockFreeScenario PROVE Spec => []NoChunkLost
<1>1. SafeInv /\ IndInv => NoChunkLost
  BY Types DEF SafeInv, UsedReadable, Used, ChunksOf, NoChunkLost
<1> QED BY <1>1, SafeInvariant, InductiveInvariant, PTL

(* Backup skips the upload of the chunks in its cache without asking the   *)
(* storage: they are readable for as long as it runs, though prune may     *)
(* have made fossils of them meanwhile.                                    *)
THEOREM CacheAlwaysReadable == ASSUME LockFreeScenario PROVE Spec => []CacheReadable
<1>1. SafeInv /\ IndInv => CacheReadable
  BY Types DEF SafeInv, UsedReadable, Used, ReliedBy, InFlight, CacheReadable
<1> QED BY <1>1, SafeInvariant, InductiveInvariant, PTL

(* IsDeletable and step 2 look only at snapshots newer than the            *)
(* collection's LastRevisions: no older snapshot depends on its fossils,   *)
(* unless the collection will be dropped as a ghost.                       *)
THEOREM FossilUsersAlwaysNew == ASSUME LockFreeScenario PROVE Spec => []FossilUsersAreNew
<1>1. SafeInv => FossilUsersAreNew
  BY DEF SafeInv, CollectionsInv, UsersAreNew, IsNewTo, FossilUsersAreNew, IsGhost
<1> QED BY <1>1, SafeInvariant, PTL

(* The workers never reach the LOG_ERRORs for a chunk to fossilize or to   *)
(* resurrect that exists neither as a file nor as a fossil.                *)
THEOREM NeverTaskError == ASSUME LockFreeScenario PROVE Spec => []NoTaskError
<1>1. SafeInv /\ IndInv => NoTaskError
  BY DEF SafeInv, TasksInv, DeleteTasks, ResurrectTasks, FossilizeTasks, NoTaskError, IndInv, TypeOK, PruneTypeOK, Task
<1> QED BY <1>1, SafeInvariant, InductiveInvariant, PTL

(* PruneSnapshots deletes a snapshot file only after each chunk that no    *)
(* remaining snapshot references is in a collection file: a prune that     *)
(* dies never forgets a chunk it was to reclaim.                           *)
THEOREM DeletedAlwaysCollected == ASSUME LockFreeScenario PROVE Spec => DeletedAreCollected
<1> DEFINE Kept == \A s \in snapshots \ snapshots' : \A c \in s.chunks :
                     \/ pruneMode.exclusive
                     \/ c \in ChunksOf(snapshots')
                     \/ \E k \in collections : c \in k.fossils
<1>1. ASSUME IndInv, SafeInv, [Next]_vars PROVE [Kept]_vars
  <2>1. ASSUME NEW d \in flagged, PruneDeleteSnapshot(d) PROVE Kept
    <3>1. snapshots' = snapshots \ {d} /\ prunePc = "deleting"
      BY <2>1 DEF PruneDeleteSnapshot
    <3>2. \A c \in d.chunks : c \in ChunksOf(snapshots \ flagged) \/ \E k \in collections : c \in k.fossils
      BY <1>1, <3>1 DEF SafeInv, CollectionsInv, Collected, ChunksOf
    <3>3. ChunksOf(snapshots \ flagged) \subseteq ChunksOf(snapshots')
      BY <3>1 DEF ChunksOf
    <3> QED BY <3>1, <3>2, <3>3
  <2>2. CASE snapshots \subseteq snapshots'
    BY <2>2
  <2>3. CASE UNCHANGED vars
    BY <2>3 DEF vars, storageVars
  <2>4. CASE Tick
    BY <2>2, <2>4 DEF Tick, storageVars
  <2>5. ASSUME NEW i \in Id, BackupStep(i) PROVE Kept
    BY <1>1, <2>2, <2>5, BackupStepKinds DEF Starts, GoesOn, Publishes
  <2>6. CASE PruneStep
    <3>1. ASSUME NEW t \in tasks,
                 \/ TaskFindChunk(t) \/ TaskDelete(t) \/ TaskFossilize(t)
                 \/ TaskAlreadyFossil(t) \/ TaskResurrect(t) \/ TaskError(t)
          PROVE  snapshots' = snapshots
      BY <3>1, <1>1, TaskFiles DEF TaskFrame
    <3> QED BY <2>1, <2>2, <2>6, <3>1, PruneFiles
  <2> QED BY <1>1, <2>3, <2>4, <2>5, <2>6 DEF Next
<1> QED BY <1>1, SafeInvariant, InductiveInvariant, PTL DEF Spec, DeletedAreCollected

-----------------------------------------------------------------------------
(* The refinement: every step is a step of SnapshotStore, or one that its  *)
(* variables do not see.                                                   *)

Relied == [i \in Id |-> (backup[i].cache \union backup[i].refs) \ InFlight(i)]

Visible == <<snapshots, chunkFiles \union fossilFiles, Relied>>

LEMMA ReliedIs ==
  ASSUME NEW i \in Id
  PROVE  Relied[i] = ReliedBy(backup[i]) /\ Relied'[i] = ReliedBy(backup'[i])
BY DEF Relied, ReliedBy, InFlight

LEMMA ReliedSame ==
  ASSUME \A i \in Id : ReliedBy(backup'[i]) = ReliedBy(backup[i])
  PROVE  Relied' = Relied
BY DEF Relied, ReliedBy, InFlight

LEMMA ReliedChange ==
  ASSUME NEW i \in Id, NEW b \in BackupState, backup \in [Id -> BackupState],
         backup' = [backup EXCEPT ![i] = b]
  PROVE  Relied' = [Relied EXCEPT ![i] = ReliedBy(b)]
<1>1. \A j \in Id : ReliedBy(backup'[j]) = IF j = i THEN ReliedBy(b) ELSE ReliedBy(backup[j])
  OBVIOUS
<1>2. Relied = [j \in Id |-> ReliedBy(backup[j])] /\ Relied' = [j \in Id |-> ReliedBy(backup'[j])]
  BY DEF Relied, ReliedBy, InFlight
<1> QED BY <1>1, <1>2

(* What is needed in the store is what is used here. *)
LEMMA NeededIsUsed == \A c : Promise!Needed(c) <=> Used(c)
<1>1. \A i \in Id : Relied[i] = ReliedBy(backup[i])
  BY ReliedIs
<1> QED BY <1>1 DEF Promise!Needed, Used, ChunksOf, Relied

LEMMA StoreInit ==
  ASSUME Init
  PROVE  Promise!Init
<1>1. PICK content \in [SeededIds -> SUBSET Chunk] :
        /\ snapshots = {[id |-> i, revision |-> 1, chunks |-> content[i], endTime |-> 1] : i \in SeededIds}
        /\ chunkFiles = UNION {content[i] : i \in SeededIds}
  BY DEF Init
<1>2. \A s \in snapshots : s.chunks \subseteq chunkFiles
  BY <1>1
<1>3. backup = [i \in Id |-> IdleBackup]
  BY DEF Init, BackupInit
<1>4. Relied = [i \in Id |-> {}]
  BY <1>3 DEF Relied, InFlight, IdleBackup
<1> QED BY <1>2, <1>4 DEF Promise!Init, Promise!Complete, Relied

(* A chunk waits for a worker once, and is in the cache meanwhile.         *)
UploadsOf(b) == b.queued \intersect b.absent = {} /\ b.queued \union b.absent \subseteq b.cache

UploadsInv == \A i \in Id : UploadsOf(backup[i])

LEMMA NextUploads ==
  ASSUME IndInv, UploadsInv, [Next]_vars
  PROVE  UploadsInv'
<1>0. backup \in [Id -> BackupState] /\ \A j \in Id : backup[j] \in BackupState
  BY DEF IndInv, TypeOK, BackupTypeOK
<1>1. CASE UNCHANGED backup
  BY <1>1 DEF UploadsInv
<1>2. ASSUME NEW i \in Id, NEW b, backup' = [backup EXCEPT ![i] = b], UploadsOf(b)
      PROVE  UploadsInv'
  BY <1>0, <1>2 DEF UploadsInv
<1>3. ASSUME NEW i \in Id, BackupStep(i) PROVE UploadsInv'
  <2>0. UploadsOf(backup[i]) /\ backup[i] \in BackupState
    BY <1>0, <1>3 DEF UploadsInv
  <2>1. CASE BackupStart(i)
    <3>1. PICK last, chunks : StartFrom(i, last, chunks)
      BY <2>1 DEF BackupStart
    <3>2. \E b : backup' = [backup EXCEPT ![i] = b] /\ b.queued = {} /\ b.absent = {}
      <4> DEFINE b(cache, hash, kept) ==
                   [pc |-> "packing", revision |-> NextRevision(last), hashMode |-> hash,
                    cache |-> cache, refs |-> kept,
                    queued |-> {}, absent |-> {}, failed |-> {}, endTime |-> 0]
      <4>1. PICK listed, resumed : StartWith(i, last, chunks, listed, resumed)
        BY <3>1, Zenon DEF StartFrom
      <4>2. \E cache, hash, kept : backup' = [backup EXCEPT ![i] = b(cache, hash, kept)]
        BY <4>1, Zenon DEF StartWith
      <4>3. \A cache, hash, kept : b(cache, hash, kept).queued = {} /\ b(cache, hash, kept).absent = {}
        OBVIOUS
      <4> HIDE DEF b
      <4> QED BY <4>2, <4>3
    <3>3. PICK b : backup' = [backup EXCEPT ![i] = b] /\ b.queued = {} /\ b.absent = {}
      BY <3>2
    <3> QED BY <1>2, <1>3, <3>3 DEF UploadsOf
  <2>2. CASE BackupEndTime(i)
    <3> DEFINE b == [backup[i] EXCEPT !.pc = "metadata", !.endTime = now]
    <3>1. backup' = [backup EXCEPT ![i] = b]
      BY <1>0, <1>3, <2>2 DEF BackupEndTime
    <3>2. UploadsOf(b)
      BY <2>0 DEF UploadsOf, BackupState
    <3> HIDE DEF b
    <3> QED BY <1>2, <1>3, <3>1, <3>2
  <2>3. CASE BackupUploadSnapshot(i) \/ BackupFail(i) \/ BackupCut(i) \/ BackupDeleteIncomplete(i)
    <3>1. \A b \in RestStates : UploadsOf(b)
      BY RestStatesRest DEF UploadsOf
    <3>2. \E b \in RestStates : backup' = [backup EXCEPT ![i] = b]
      BY <2>0, <2>3 DEF BackupUploadSnapshot, BackupFail, BackupCut, BackupDeleteIncomplete, RestStates, BackupState
    <3> QED BY <1>2, <1>3, <3>1, <3>2
  <2>4. ASSUME NEW c \in Chunk, BackupPack(i, c) PROVE UploadsInv'
    <3> DEFINE hit  == [backup[i] EXCEPT !.refs = @ \union {c}]
               miss == [backup[i] EXCEPT !.cache = @ \union {c}, !.refs = @ \union {c},
                                         !.queued = @ \union {c}]
    <3>1. backup' = [backup EXCEPT ![i] = hit] \/ (c \notin InFlight(i) /\ backup' = [backup EXCEPT ![i] = miss])
      BY <1>0, <1>3, <2>4 DEF BackupPack
    <3>2. UploadsOf(hit)
      BY <2>0 DEF UploadsOf, BackupState
    <3>3. c \notin InFlight(i) => UploadsOf(miss)
      BY <2>0 DEF UploadsOf, BackupState, InFlight
    <3> HIDE DEF hit, miss
    <3> QED BY <1>2, <1>3, <3>1, <3>2, <3>3
  <2>5. ASSUME NEW c \in Chunk, BackupFindChunk(i, c) PROVE UploadsInv'
    <3> DEFINE b == [backup[i] EXCEPT !.queued = @ \ {c},
                                      !.absent = IF c \in chunkFiles THEN @ ELSE @ \union {c}]
    <3>1. backup' = [backup EXCEPT ![i] = b] /\ c \in backup[i].queued
      BY <1>0, <1>3, <2>5 DEF BackupFindChunk
    <3>2. UploadsOf(b)
      BY <2>0, <3>1 DEF UploadsOf, BackupState
    <3> HIDE DEF b
    <3> QED BY <1>2, <1>3, <3>1, <3>2
  <2>6. ASSUME NEW c \in Chunk, BackupUploadChunk(i, c) \/ BackupUploadError(i, c) PROVE UploadsInv'
    <3> DEFINE sent == [backup[i] EXCEPT !.absent = @ \ {c}]
               lost == [backup[i] EXCEPT !.queued = @ \ {c}, !.absent = @ \ {c}, !.failed = @ \union {c}]
    <3>1. backup' = [backup EXCEPT ![i] = sent] \/ backup' = [backup EXCEPT ![i] = lost]
      BY <1>0, <1>3, <2>6 DEF BackupUploadChunk, BackupUploadError
    <3>2. UploadsOf(sent) /\ UploadsOf(lost)
      BY <2>0 DEF UploadsOf, BackupState
    <3> HIDE DEF sent, lost
    <3> QED BY <1>2, <1>3, <3>1, <3>2
  <2> QED BY <1>3, <2>1, <2>2, <2>3, <2>4, <2>5, <2>6 DEF BackupStep
<1>4. CASE Tick \/ PruneStep \/ UNCHANGED vars
  BY <1>1, <1>4 DEF Tick, PruneStep, vars, backupVars
<1> QED BY <1>3, <1>4 DEF Next

LEMMA UploadsInvariant == Spec => []UploadsInv
<1>1. Init => UploadsInv
  BY DEF Init, BackupInit, IdleBackup, UploadsInv, UploadsOf
<1> QED BY <1>1, NextUploads, InductiveInvariant, PTL DEF Spec

(* A backup starts, finds, stores, becomes a snapshot or gives up.         *)
LEMMA StoreBackup ==
  ASSUME LockFreeScenario, IndInv, SafeInv, UploadsInv, NEW i \in Id, BackupStep(i)
  PROVE  Promise!Next \/ UNCHANGED Visible
<1>0. /\ backup \in [Id -> BackupState] /\ backup[i] \in BackupState
      /\ snapshots \subseteq Snapshot
  BY DEF IndInv, TypeOK, BackupTypeOK, StorageTypeOK
<1>1. CASE MayStartBackup(i) /\ BackupStart(i)
  <2>1. UNCHANGED <<chunkFiles, fossilFiles, snapshots>>
    BY <1>1 DEF BackupStart, storageVars
  <2>2. \E s \in snapshots : s.id = i
    BY DEF SafeInv, HistoryInv, Seeded
  <2>3. PICK latest \in snapshots :
          /\ latest.id = i /\ StartFrom(i, latest.revision, latest.chunks)
    BY <1>1, <2>2 DEF BackupStart, SnapshotsOf
  <2>4. latest.revision \in Nat /\ latest.revision /= 0 /\ latest.chunks \subseteq Chunk
    BY <1>0 DEF Snapshot
  <2>5. PICK b \in BackupState : backup' = [backup EXCEPT ![i] = b] /\ ReliedBy(b) = latest.chunks
    <3>3. PICK kept \in SUBSET latest.chunks :
            backup' = [backup EXCEPT ![i] =
              [pc |-> "packing", revision |-> latest.revision + 1, hashMode |-> FALSE,
               cache |-> latest.chunks, refs |-> kept,
               queued |-> {}, absent |-> {}, failed |-> {}, endTime |-> 0]]
      BY <2>3, <2>4, ScenarioStart
    <3> DEFINE b == [pc |-> "packing", revision |-> latest.revision + 1, hashMode |-> FALSE,
                     cache |-> latest.chunks, refs |-> kept,
                     queued |-> {}, absent |-> {}, failed |-> {}, endTime |-> 0]
    <3>4. b \in BackupState
      BY <2>4 DEF BackupState
    <3>5. ReliedBy(b) = latest.chunks
      BY DEF ReliedBy
    <3> QED BY <3>3, <3>4, <3>5
  <2>6. Relied' = [Relied EXCEPT ![i] = latest.chunks]
    BY <1>0, <2>5, ReliedChange
  <2>7. Promise!Begin(i)
    BY <2>1, <2>3, <2>6 DEF Promise!Begin, Relied
  <2> QED BY <2>7 DEF Promise!Next
<1>2. ASSUME NEW c \in Chunk, BackupPack(i, c) PROVE Promise!Next \/ UNCHANGED Visible
  <2> DEFINE hit  == [backup[i] EXCEPT !.refs = @ \union {c}]
             miss == [backup[i] EXCEPT !.cache = @ \union {c}, !.refs = @ \union {c},
                                       !.queued = @ \union {c}]
  <2>1. UNCHANGED <<chunkFiles, fossilFiles, snapshots>>
    BY <1>2 DEF BackupPack, storageVars
  <2>2. CASE c \in backup[i].cache /\ backup' = [backup EXCEPT ![i].refs = @ \union {c}]
    <3>1. backup' = [backup EXCEPT ![i] = hit]
      BY <1>0, <2>2
    <3>2. ReliedBy(hit) = ReliedBy(backup[i])
      BY <1>0, <2>2 DEF ReliedBy, BackupState
    <3> HIDE DEF hit
    <3>3. \A j \in Id : ReliedBy(backup'[j]) = ReliedBy(backup[j])
      BY <1>0, <3>1, <3>2
    <3> QED BY <2>1, <3>3, ReliedSame DEF Visible
  <2>3. CASE backup' = [backup EXCEPT ![i].cache  = @ \union {c}, ![i].refs   = @ \union {c},
                                      ![i].queued = @ \union {c}]
    <3>1. backup' = [backup EXCEPT ![i] = miss]
      BY <1>0, <2>3
    <3>2. ReliedBy(miss) = ReliedBy(backup[i]) \ {c} /\ miss \in BackupState
      BY <1>0 DEF ReliedBy, BackupState
    <3> HIDE DEF miss
    <3>3. Relied' = [Relied EXCEPT ![i] = Relied[i] \ {c}]
      BY <1>0, <3>1, <3>2, ReliedChange, ReliedIs
    <3>4. Promise!Doubt(i, c)
      BY <2>1, <3>3 DEF Promise!Doubt, Relied
    <3> QED BY <3>4 DEF Promise!Next
  <2> QED BY <1>2, <2>2, <2>3 DEF BackupPack
<1>3. ASSUME NEW c \in Chunk, BackupFindChunk(i, c) PROVE Promise!Next \/ UNCHANGED Visible
  <2> DEFINE b == [backup[i] EXCEPT !.queued = @ \ {c},
                                    !.absent = IF c \in chunkFiles THEN @ ELSE @ \union {c}]
  <2>1. backup' = [backup EXCEPT ![i] = b] /\ UNCHANGED <<chunkFiles, fossilFiles, snapshots>>
    BY <1>0, <1>3 DEF BackupFindChunk, storageVars
  <2>2. b \in BackupState /\ c \in backup[i].queued
    BY <1>0, <1>3 DEF BackupState, BackupFindChunk
  <2>3. \/ ReliedBy(b) = ReliedBy(backup[i])
        \/ c \in chunkFiles /\ ReliedBy(b) = ReliedBy(backup[i]) \union {c}
    <3>1. CASE c \in chunkFiles
      BY <1>0, <2>2, <3>1 DEF ReliedBy, BackupState
    <3>2. CASE c \notin chunkFiles
      BY <1>0, <2>2, <3>2 DEF ReliedBy, BackupState
    <3> QED BY <3>1, <3>2
  <2> HIDE DEF b
  <2>4. CASE ReliedBy(b) = ReliedBy(backup[i])
    <3>1. \A j \in Id : ReliedBy(backup'[j]) = ReliedBy(backup[j])
      BY <1>0, <2>1, <2>4
    <3> QED BY <2>1, <3>1, ReliedSame DEF Visible
  <2>5. CASE c \in chunkFiles /\ ReliedBy(b) = ReliedBy(backup[i]) \union {c}
    <3>1. Relied' = [Relied EXCEPT ![i] = Relied[i] \union {c}]
      BY <1>0, <2>1, <2>2, <2>5, ReliedChange, ReliedIs
    <3>2. Promise!Find(i, c)
      BY <2>1, <2>5, <3>1 DEF Promise!Find, Relied
    <3> QED BY <3>2 DEF Promise!Next
  <2> QED BY <2>3, <2>4, <2>5
<1>4. ASSUME NEW c \in Chunk, BackupUploadChunk(i, c) PROVE Promise!Next \/ UNCHANGED Visible
  <2> DEFINE b == [backup[i] EXCEPT !.absent = @ \ {c}]
  <2>1. /\ backup' = [backup EXCEPT ![i] = b]
        /\ chunkFiles' = chunkFiles \union {c}
        /\ UNCHANGED <<fossilFiles, snapshots>>
    BY <1>0, <1>4 DEF BackupUploadChunk, UploadChunkFile
  <2>2. b \in BackupState
    BY <1>0 DEF BackupState
  <2>3. ReliedBy(b) = ReliedBy(backup[i]) \union {c}
    <3>1. c \in backup[i].absent /\ c \notin backup[i].queued /\ c \in backup[i].cache
      BY <1>4 DEF BackupUploadChunk, UploadsInv, UploadsOf
    <3> QED BY <1>0, <3>1 DEF ReliedBy, BackupState
  <2> HIDE DEF b
  <2>4. Relied' = [Relied EXCEPT ![i] = Relied[i] \union {c}]
    BY <1>0, <2>1, <2>2, <2>3, ReliedChange, ReliedIs
  <2>5. (chunkFiles \union fossilFiles)' = (chunkFiles \union fossilFiles) \union {c}
    BY <2>1
  <2>6. Promise!Store(i, c)
    BY <2>1, <2>4, <2>5 DEF Promise!Store, Relied
  <2> QED BY <2>6 DEF Promise!Next
<1>5. CASE BackupEndTime(i)
  <2> DEFINE b == [backup[i] EXCEPT !.pc = "metadata", !.endTime = now]
  <2>1. backup' = [backup EXCEPT ![i] = b] /\ UNCHANGED <<chunkFiles, fossilFiles, snapshots>>
    BY <1>0, <1>5 DEF BackupEndTime, storageVars
  <2>2. ReliedBy(b) = ReliedBy(backup[i])
    BY <1>0 DEF ReliedBy, BackupState
  <2> HIDE DEF b
  <2>3. \A j \in Id : ReliedBy(backup'[j]) = ReliedBy(backup[j])
    BY <1>0, <2>1, <2>2
  <2> QED BY <2>1, <2>3, ReliedSame DEF Visible
<1>6. \A b \in RestStates : b \in BackupState /\ ReliedBy(b) = {}
  BY RestStatesRest, ReliedAtRest
<1>7. CASE BackupFail(i) \/ BackupCut(i) \/ BackupDeleteIncomplete(i)
  <2>1. backup' = [backup EXCEPT ![i] = IdleBackup] /\ UNCHANGED <<chunkFiles, fossilFiles, snapshots>>
    BY <1>7 DEF BackupFail, BackupCut, BackupDeleteIncomplete, storageVars
  <2>2. IdleBackup \in RestStates
    BY DEF RestStates
  <2>3. Relied' = [Relied EXCEPT ![i] = {}]
    BY <1>0, <1>6, <2>1, <2>2, ReliedChange
  <2>4. Promise!Abandon(i)
    BY <2>1, <2>3 DEF Promise!Abandon, Relied
  <2> QED BY <2>4 DEF Promise!Next
<1>8. CASE BackupUploadSnapshot(i)
  <2> DEFINE new == [id |-> i, revision |-> backup[i].revision,
                     chunks |-> backup[i].refs, endTime |-> backup[i].endTime]
  <2>1. /\ snapshots' = snapshots \union {new}
        /\ \E b \in RestStates : backup' = [backup EXCEPT ![i] = b]
        /\ backup[i].pc = "metadata" /\ InFlight(i) = {}
        /\ UNCHANGED <<chunkFiles, fossilFiles>>
    BY <1>0, <1>8 DEF BackupUploadSnapshot, RestStates, BackupState
  <2>2. new.id = i /\ new.chunks \subseteq Relied[i]
    BY <2>1 DEF Relied
  <2>3. \A t \in snapshots : t.id = i => t.revision < new.revision
    BY <2>1 DEF IndInv, RevisionsFresh, Working
  <2>4. Relied' = [Relied EXCEPT ![i] = {}]
    BY <1>0, <1>6, <2>1, ReliedChange
  <2> HIDE DEF new
  <2>5. Promise!Commit(i)
    BY <2>1, <2>2, <2>3, <2>4 DEF Promise!Commit, Relied
  <2> QED BY <2>5 DEF Promise!Next
<1>9. ASSUME NEW c \in Chunk, BackupUploadError(i, c) PROVE FALSE
  BY <1>9 DEF BackupUploadError, LockFreeScenario
<1> QED BY <1>1, <1>2, <1>3, <1>4, <1>5, <1>7, <1>8, <1>9 DEF BackupStep

(* Prune deletes a snapshot file that is not the latest, or its workers    *)
(* take a chunk away that is not used.                                     *)
LEMMA StorePrune ==
  ASSUME LockFreeScenario, IndInv, SafeInv, SafeInv', PruneStep
  PROVE  Promise!Next \/ UNCHANGED Visible
<1>0. UNCHANGED backup
  BY DEF PruneStep, backupVars
<1>1. Relied' = Relied
  BY <1>0, ReliedSame
<1>2. ASSUME NEW t \in tasks,
             \/ TaskFindChunk(t) \/ TaskDelete(t) \/ TaskFossilize(t)
             \/ TaskAlreadyFossil(t) \/ TaskResurrect(t) \/ TaskError(t)
      PROVE  Promise!Next \/ UNCHANGED Visible
  <2>1. UNCHANGED snapshots /\ t.chunk \in Chunk
    BY <1>2, TaskFiles DEF TaskFrame, IndInv, TypeOK, PruneTypeOK, Task
  <2>2. chunkFiles' \union fossilFiles' \subseteq chunkFiles \union fossilFiles
    <3>1. CASE TaskFindChunk(t) \/ TaskError(t)
      BY <3>1 DEF TaskFindChunk, TaskError
    <3>2. CASE TaskDelete(t)
      BY <3>2 DEF TaskDelete, DeleteFossilFile, DeleteChunkFile
    <3>3. CASE TaskFossilize(t)
      BY <3>3 DEF TaskFossilize, MoveChunkToFossil
    <3>4. CASE TaskAlreadyFossil(t)
      BY <3>4 DEF TaskAlreadyFossil
    <3>5. CASE TaskResurrect(t)
      BY <3>5 DEF TaskResurrect, DeleteFossilFile, MoveFossilToChunk
    <3> QED BY <1>2, <3>1, <3>2, <3>3, <3>4, <3>5
  <2>3. \A c \in Chunk : c /= t.chunk => (c \in chunkFiles' \union fossilFiles' <=> c \in chunkFiles \union fossilFiles)
    BY <1>2, TaskFiles
  <2>4. chunkFiles \union fossilFiles \subseteq Chunk
    BY DEF IndInv, TypeOK, StorageTypeOK
  <2>5. CASE (chunkFiles \union fossilFiles)' = chunkFiles \union fossilFiles
    BY <1>1, <2>1, <2>5 DEF Visible
  <2>6. CASE (chunkFiles \union fossilFiles)' /= chunkFiles \union fossilFiles
    <3>1. /\ (chunkFiles \union fossilFiles)' = (chunkFiles \union fossilFiles) \ {t.chunk}
          /\ t.chunk \notin chunkFiles' \union fossilFiles'
      BY <2>2, <2>3, <2>4, <2>6
    <3>2. ~Used(t.chunk)
      <4>1. Used(t.chunk) => Used(t.chunk)'
        BY <1>0, <2>1 DEF Used, ChunksOf
      <4>2. Used(t.chunk)' => t.chunk \in chunkFiles' \union fossilFiles'
        BY <2>1 DEF SafeInv, UsedReadable, Readable
      <4> QED BY <3>1, <4>1, <4>2
    <3>3. ~Promise!Needed(t.chunk)
      BY <3>2, NeededIsUsed
    <3>4. Promise!Reclaim(t.chunk)
      BY <1>1, <2>1, <3>1, <3>3 DEF Promise!Reclaim, Relied
    <3> QED BY <2>1, <3>4 DEF Promise!Next
  <2> QED BY <2>5, <2>6
<1>3. ASSUME NEW s \in flagged, PruneDeleteSnapshot(s) PROVE Promise!Next \/ UNCHANGED Visible
  <2>1. /\ snapshots' = snapshots \ {s} /\ UNCHANGED <<chunkFiles, fossilFiles>>
    BY <1>3 DEF PruneDeleteSnapshot
  <2>2. \E t \in snapshots \ flagged : t.id = s.id /\ t.revision > s.revision
    BY DEF IndInv, FlaggedHaveLater, SafeInv, MemoryInv, NormalMode
  <2>3. \E t \in snapshots : t.id = s.id /\ s.revision < t.revision
    BY <2>2, Types
  <2>4. CASE s \in snapshots
    <3>1. Promise!Expire(s)
      BY <1>1, <2>1, <2>3 DEF Promise!Expire, Relied
    <3> QED BY <2>4, <3>1 DEF Promise!Next
  <2>5. CASE s \notin snapshots
    BY <1>1, <2>1, <2>5 DEF Visible
  <2> QED BY <2>4, <2>5
<1>4. CASE ~\E t \in tasks : \/ TaskFindChunk(t) \/ TaskDelete(t) \/ TaskFossilize(t)
                             \/ TaskAlreadyFossil(t) \/ TaskResurrect(t) \/ TaskError(t)
  <2>1. /\ UNCHANGED <<chunkFiles, fossilFiles>>
        /\ UNCHANGED snapshots \/ \E s \in flagged : PruneDeleteSnapshot(s)
    BY <1>4, PruneFiles
  <2> QED BY <1>1, <1>3, <2>1 DEF Visible
<1> QED BY <1>2, <1>4

(* Backup and PruneSnapshots, with every request a step of its own, are a  *)
(* store whose snapshots are complete the moment they appear, from which   *)
(* an old snapshot goes away at once, and a chunk only when nothing needs  *)
(* it.                                                                     *)
THEOREM StoreIsImplemented == ASSUME LockFreeScenario PROVE Spec => StoreImplemented
<1>1. Init => Promise!Init
  BY StoreInit
<1>2. ASSUME IndInv, SafeInv, SafeInv', UploadsInv, [Next]_vars
      PROVE  [Promise!Next]_(Promise!vars)
  <2>1. UNCHANGED Visible => UNCHANGED Promise!vars
    BY DEF Visible, Relied, Promise!vars
  <2>2. CASE Tick \/ UNCHANGED vars
    <3>1. UNCHANGED <<snapshots, chunkFiles, fossilFiles, backup>>
      BY <2>2 DEF Tick, vars, storageVars, backupVars
    <3>2. UNCHANGED Visible
      BY <3>1, ReliedSame DEF Visible
    <3> QED BY <2>1, <3>2
  <2> QED BY <1>2, <2>1, <2>2, StoreBackup, StorePrune DEF Next
<1> QED BY <1>1, <1>2, SafeInvariant, InductiveInvariant, UploadsInvariant, PTL
    DEF Spec, StoreImplemented, Promise!Spec

=============================================================================
