----------------------------- MODULE PruneClient -----------------------------
(***************************************************************************)
(* The prune command: two-step fossil collection.  A run lists the         *)
(* snapshots, goes through the fossil collections earlier runs saved       *)
(* (step 2: resurrect or delete their fossils), selects snapshots to       *)
(* delete, turns the chunks only they reference into fossils (step 1),     *)
(* saves a new collection and deletes the snapshot files.  Chunk files are *)
(* touched only by the worker threads of the chunk operator, one storage   *)
(* request per step.  One machine prunes; its collections are local files  *)
(* and survive a crash, everything else of a run does not.                 *)
(***************************************************************************)
EXTENDS DedupStorage

CONSTANTS
  PruneModes,     \* the command lines prune is run with
  Threads,        \* worker threads of the chunk operator
  ExtraTime,      \* 0 if Storage.IsStrongConsistent, half a day otherwise
  DormantAge,     \* maxSnapshotRunningTime, 7 days
  MaxCollections  \* bound: the largest collection number

PruneMode == [exhaustive : BOOLEAN, exclusive : BOOLEAN, deleteOnly : BOOLEAN,
              collectOnly : BOOLEAN, ignored : SUBSET Id]

ASSUME PruneAssumption ==
  /\ PruneModes \subseteq PruneMode
  /\ Threads \in Nat \ {0}
  /\ ExtraTime \in Nat
  /\ DormantAge \in Nat
  /\ MaxCollections \in Nat

VARIABLES
  collections,       \* the saved fossil collections (files under fossils/)
  prunePc,
  pruneMode,
  toList,            \* snapshot ids whose revisions are still to be listed
  allSnapshots,      \* the snapshots listed
  todo,              \* collections step 2 has not looked at yet
  reaped,            \* collections whose tasks are queued and whose file is not deleted yet
  collectionNumber,  \* maxCollectionNumber + 1
  referencedFossils, \* file names of the fossils in the collections looked at
  flagged,           \* snapshots to be deleted
  tasks,             \* tasks queued for, or run by, the chunk operator
  newFossils         \* fossils for the new collection

pruneRunVars == <<prunePc, pruneMode, toList, allSnapshots, todo, reaped, collectionNumber,
                  referencedFossils, flagged, tasks, newFossils>>

FossilCollection ==
  [number : Nat, endTime : Nat, lastRevisions : [Id -> Nat],
   deletedRevisions : SUBSET (Id \X Nat), fossils : SUBSET Chunk]

(* Task.filePath is "" or names the chunk file or the fossil; 'stage'      *)
(* orders the tasks of one phase before those of a later one (the task     *)
(* queue is first in, first out).                                          *)
Task ==
  [op : {"fossilize", "resurrect", "delete"}, chunk : Chunk, file : {"", "chunk", "fossil"},
   stage : Nat, step : {"queued", "found", "absent", "failed"}]

(* A collection records chunks/<id>.fsl; the listing of chunks/ yields     *)
(* <id>.fsl.                                                               *)
RecordedFossil(c) == <<"chunks/", c, ".fsl">>

ListedFossil(c) == <<c, ".fsl">>

NoMode == [exhaustive |-> FALSE, exclusive |-> FALSE, deleteOnly |-> FALSE,
           collectOnly |-> FALSE, ignored |-> {}]

PruneTypeOK ==
  /\ collections \subseteq FossilCollection
  /\ prunePc \in {"idle", "listing", "collections", "select", "collecting", "deleting", "draining"}
  /\ pruneMode \in PruneMode
  /\ toList \subseteq Id
  /\ allSnapshots \subseteq Snapshot
  /\ todo \subseteq FossilCollection
  /\ reaped \subseteq FossilCollection
  /\ collectionNumber \in Nat
  /\ referencedFossils \subseteq {RecordedFossil(c) : c \in Chunk}
  /\ flagged \subseteq Snapshot
  /\ tasks \subseteq Task
  /\ newFossils \subseteq Chunk

PruneInit ==
  /\ collections = {}
  /\ prunePc = "idle" /\ pruneMode = NoMode
  /\ toList = {} /\ allSnapshots = {} /\ todo = {} /\ reaped = {} /\ collectionNumber = 0
  /\ referencedFossils = {} /\ flagged = {} /\ tasks = {} /\ newFossils = {}

(* The command ends, in whatever way: what it kept in memory is gone. *)
PruneReset ==
  /\ prunePc' = "idle" /\ pruneMode' = NoMode
  /\ toList' = {} /\ allSnapshots' = {} /\ todo' = {} /\ reaped' = {} /\ collectionNumber' = 0
  /\ referencedFossils' = {} /\ flagged' = {} /\ tasks' = {} /\ newFossils' = {}

-----------------------------------------------------------------------------
(* FossilCollection.IsDeletable, over the snapshots S and the clock. *)

Ids(S) == {s.id : s \in S}

(* Snapshots the collection k does not know. *)
NewSnapshots(k, S) == {s \in S : s.revision > k.lastRevisions[s.id]}

(* It ended late enough after the collection. *)
Qualifies(k, s) == s.endTime > k.endTime + ExtraTime

(* Mutant: the loop leaves out the snapshot that qualifies. *)
TakenBeforeQualified(k, S) ==
  {s \in NewSnapshots(k, S) :
     \A t \in NewSnapshots(k, S) : t.id = s.id /\ t.revision <= s.revision => ~Qualifies(k, t)}

(* The loop over an id's snapshots stops at the first that qualifies. *)
TakenSnapshots(k, S) ==
  {s \in NewSnapshots(k, S) :
     \A t \in NewSnapshots(k, S) : t.id = s.id /\ t.revision < s.revision => ~Qualifies(k, t)}

(* The last snapshot of every id of the host h. *)
LastSnapshots(S, h) == {s \in S : HostOf[s.id] = h /\ IsLatest(S, s)}

HostDone(k, S, h) ==
  \/ \E s \in NewSnapshots(k, S) : HostOf[s.id] = h /\ Qualifies(k, s)
  \/ /\ \E s \in LastSnapshots(S, h) : s.endTime > 0
     /\ \A s \in LastSnapshots(S, h) : s.endTime + DormantAge < now

(* Mutant: one active host is enough. *)
IsDeletableByAnyHost(k, S) == \E h \in {HostOf[i] : i \in Ids(S)} : HostDone(k, S, h)

IsDeletable(k, S) == \A h \in {HostOf[i] : i \in Ids(S)} : HostDone(k, S, h)

(* Mutant: DeletedRevisions is not looked at. *)
IsGhostNever(k, S) == FALSE

IsGhost(k, S) == \E s \in S : <<s.id, s.revision>> \in k.deletedRevisions

-----------------------------------------------------------------------------
(* The command. *)

(* ListSnapshotIDs: every id with a snapshot has a directory; an id        *)
(* without may have one.                                                   *)
PruneStart(mode) ==
  /\ prunePc = "idle"
  /\ prunePc' = "listing"
  /\ pruneMode' = mode
  /\ \E dirs \in SUBSET Id : Ids(snapshots) \subseteq dirs /\ toList' = dirs
  /\ UNCHANGED <<storageVars, now, collections, allSnapshots, todo, reaped, collectionNumber,
                 referencedFossils, flagged, tasks, newFossils>>

PruneList(i) ==
  /\ prunePc = "listing"
  /\ i \in toList
  /\ toList' = toList \ {i}
  /\ allSnapshots' = allSnapshots \union SnapshotsOf(snapshots, i)
  /\ UNCHANGED <<storageVars, now, collections, prunePc, pruneMode, todo, reaped, collectionNumber,
                 referencedFossils, flagged, tasks, newFossils>>

PruneListCollections ==
  /\ prunePc = "listing"
  /\ toList = {}
  /\ prunePc' = "collections"
  /\ todo' = IF pruneMode.collectOnly THEN {} ELSE collections
  /\ \E n \in {0} \union {k.number : k \in collections} :
       /\ \A k \in collections : k.number <= n
       /\ collectionNumber' = n + 1
  /\ UNCHANGED <<storageVars, now, collections, pruneMode, toList, allSnapshots, reaped,
                 referencedFossils, flagged, tasks, newFossils>>

(* Step 2 on the collection k, the first of those left. *)

IsNext(k) ==
  /\ prunePc = "collections"
  /\ reaped = {}
  /\ k \in todo
  /\ \A j \in todo : k.number <= j.number

(* A revision the collection says is deleted still exists: its run was     *)
(* interrupted, and the collection is dropped.                             *)
PruneGhost(k) ==
  /\ IsNext(k)
  /\ IsGhost(k, allSnapshots)
  /\ collections' = collections \ {k}
  /\ todo' = todo \ {k}
  /\ UNCHANGED <<storageVars, now, prunePc, pruneMode, toList, allSnapshots, reaped,
                 collectionNumber, referencedFossils, flagged, tasks, newFossils>>

Considered == {s \in allSnapshots : s.id \notin pruneMode.ignored}

(* The snapshots whose fossils are resurrected; none if the collection is  *)
(* not deletable and is reaped because of -exclusive.                      *)
ResurrectFor(k) == IF IsDeletable(k, Considered) THEN TakenSnapshots(k, Considered) ELSE {}

ReapTasks(k) ==
  {[op |-> IF c \in ChunksOf(ResurrectFor(k)) THEN "resurrect" ELSE "delete",
    chunk |-> c, file |-> "fossil", stage |-> k.number, step |-> "queued"] : c \in k.fossils}

PruneReap(k) ==
  /\ IsNext(k)
  /\ ~IsGhost(k, allSnapshots)
  /\ IsDeletable(k, Considered) \/ pruneMode.exclusive
  /\ tasks' = tasks \union ReapTasks(k)
  /\ todo' = todo \ {k}
  /\ reaped' = {k}
  /\ referencedFossils' = referencedFossils \union {RecordedFossil(c) : c \in k.fossils}
  /\ UNCHANGED <<storageVars, now, collections, prunePc, pruneMode, toList, allSnapshots,
                 collectionNumber, flagged, newFossils>>

(* The collection file is deleted once its tasks are queued, not when they *)
(* are done.                                                               *)
PruneDeleteCollection(k) ==
  /\ k \in reaped
  /\ collections' = collections \ {k}
  /\ reaped' = {}
  /\ UNCHANGED <<storageVars, now, prunePc, pruneMode, toList, allSnapshots, todo,
                 collectionNumber, referencedFossils, flagged, tasks, newFossils>>

PrunePostpone(k) ==
  /\ IsNext(k)
  /\ ~IsGhost(k, allSnapshots)
  /\ ~IsDeletable(k, Considered) /\ ~pruneMode.exclusive
  /\ todo' = todo \ {k}
  /\ referencedFossils' = referencedFossils \union {RecordedFossil(c) : c \in k.fossils}
  /\ UNCHANGED <<storageVars, now, collections, prunePc, pruneMode, toList, allSnapshots, reaped,
                 collectionNumber, flagged, tasks, newFossils>>

(* All collections looked at: with -delete-only the command returns, which *)
(* waits for the tasks queued.                                             *)
PruneCollectionsDone ==
  /\ prunePc = "collections"
  /\ todo = {} /\ reaped = {}
  /\ prunePc' = IF pruneMode.deleteOnly THEN "draining" ELSE "select"
  /\ UNCHANGED <<storageVars, now, collections, pruneMode, toList, allSnapshots, todo, reaped,
                 collectionNumber, referencedFossils, flagged, tasks, newFossils>>

(* Step 1: the tasks for the snapshots S to be deleted. *)

NewTask(op, c, file) ==
  [op |-> op, chunk |-> c, file |-> file, stage |-> collectionNumber, step |-> "queued"]

FossilizeChunk(c, file) == NewTask(IF pruneMode.exclusive THEN "delete" ELSE "fossilize", c, file)

TargetChunks(S) == ChunksOf(S) \ ChunksOf(allSnapshots \ S)

NonExhaustive(S) ==
  /\ tasks' = tasks \union {FossilizeChunk(c, "") : c \in TargetChunks(S)}
  /\ UNCHANGED newFossils

(* Every file under chunks/ is looked at. *)
Exhaustive(S) ==
  LET referenced == ChunksOf(allSnapshots \ S)
      unknown    == {c \in fossilFiles : ListedFossil(c) \notin referencedFossils}
      orphans    == unknown \ referenced
  IN /\ tasks' = tasks
          \union {FossilizeChunk(c, "chunk") : c \in chunkFiles \ referenced}
          \union {NewTask("resurrect", c, "fossil") : c \in unknown \intersect referenced}
          \union {NewTask("delete", c, "fossil") : c \in IF pruneMode.exclusive THEN orphans ELSE {}}
     /\ newFossils' = IF pruneMode.exclusive THEN {} ELSE orphans

(* Mutant: the latest revision may be deleted. *)
LatestSparedNot(S) == TRUE

LatestSpared(S) == pruneMode.exclusive \/ \A s \in S : ~IsLatest(allSnapshots, s)

(* -r, -t and -keep choose the snapshots to delete.  The latest revision   *)
(* of an id is protected by an error that stops the command.               *)
PruneSelect(S) ==
  /\ prunePc = "select"
  /\ S \subseteq allSnapshots
  /\ ~(S = {} /\ ~pruneMode.exhaustive)
  /\ LatestSpared(S)
  /\ collectionNumber <= MaxCollections
  /\ IF pruneMode.exhaustive THEN Exhaustive(S) ELSE NonExhaustive(S)
  /\ flagged' = S
  /\ prunePc' = "collecting"
  /\ UNCHANGED <<storageVars, now, collections, pruneMode, toList, allSnapshots, todo, reaped,
                 collectionNumber, referencedFossils>>

(* Nothing to delete, or the latest revision of some id is flagged. *)
PruneNothing ==
  /\ prunePc = "select"
  /\ ~pruneMode.exhaustive \/ (~pruneMode.exclusive /\ allSnapshots /= {})
  /\ prunePc' = "draining"
  /\ UNCHANGED <<storageVars, now, collections, pruneMode, toList, allSnapshots, todo, reaped,
                 collectionNumber, referencedFossils, flagged, tasks, newFossils>>

(* Mutant: the latest revisions are those of the moment of saving. *)
LastRevisionsNow == [i \in Id |-> LatestRevision(snapshots, i)]

LastRevisions == [i \in Id |-> LatestRevision(allSnapshots, i)]

(* WaitForCompletion, then the collection file. *)
PruneSave ==
  /\ prunePc = "collecting"
  /\ tasks = {}
  /\ prunePc' = "deleting"
  /\ collections' = collections \union
       IF newFossils = {} \/ pruneMode.exclusive THEN {}
       ELSE {[number |-> collectionNumber, endTime |-> now,
              lastRevisions |-> LastRevisions,
              deletedRevisions |-> {<<s.id, s.revision>> : s \in flagged},
              fossils |-> newFossils]}
  /\ UNCHANGED <<storageVars, now, pruneMode, toList, allSnapshots, todo, reaped,
                 collectionNumber, referencedFossils, flagged, tasks, newFossils>>

PruneDeleteSnapshot(s) ==
  /\ prunePc = "deleting"
  /\ s \in flagged
  /\ snapshots' = snapshots \ {s}
  /\ flagged' = flagged \ {s}
  /\ UNCHANGED <<chunkFiles, fossilFiles, now, collections, prunePc, pruneMode, toList,
                 allSnapshots, todo, reaped, collectionNumber, referencedFossils, tasks, newFossils>>

(* The command returns; the deferred Stop waits for the tasks. *)
PruneEnd ==
  /\ \/ prunePc = "deleting" /\ flagged = {}
     \/ prunePc = "draining"
  /\ tasks = {}
  /\ PruneReset
  /\ UNCHANGED <<storageVars, now, collections>>

(* The process dies. *)
PruneCrash ==
  /\ prunePc /= "idle"
  /\ PruneReset
  /\ UNCHANGED <<storageVars, now, collections>>

-----------------------------------------------------------------------------
(* The worker threads. *)

Running == {t \in tasks : t.step /= "queued"}

(* A thread is working on t, or takes it from the queue. *)
Ready(t) ==
  /\ t \in tasks
  /\ t.step = "queued" =>
       /\ Cardinality(Running) < Threads
       /\ \A u \in tasks : u.step = "queued" => t.stage <= u.stage

(* The file the task is about is known. *)
Located(t) == t.step = "found" \/ (t.step = "queued" /\ t.file /= "")

Advance(t, step) == tasks' = (tasks \ {t}) \union {[t EXCEPT !.step = step]}

Finish(t) == tasks' = tasks \ {t}

TaskFrame == UNCHANGED <<snapshots, now, collections, prunePc, pruneMode, toList, allSnapshots,
                         todo, reaped, collectionNumber, referencedFossils, flagged>>

(* FindChunk for the chunk file. *)
TaskFindChunk(t) ==
  /\ Ready(t)
  /\ t.step = "queued"
  /\ t.file = "" \/ t.op = "resurrect"
  /\ IF t.chunk \in chunkFiles THEN Advance(t, "found")
     ELSE IF t.op = "delete" THEN Finish(t)
     ELSE Advance(t, "absent")
  /\ UNCHANGED <<chunkFiles, fossilFiles, newFossils>>
  /\ TaskFrame

(* DeleteFile; a failure is a warning. *)
TaskDelete(t) ==
  /\ Ready(t)
  /\ t.op = "delete" /\ Located(t)
  /\ \/ UNCHANGED <<chunkFiles, fossilFiles>>
     \/ t.file = "fossil" /\ DeleteFossilFile(t.chunk)
     \/ t.file /= "fossil" /\ DeleteChunkFile(t.chunk)
  /\ Finish(t)
  /\ UNCHANGED newFossils
  /\ TaskFrame

(* MoveFile fails if the chunk file is gone and, on some storages, if the  *)
(* fossil exists already.                                                  *)
TaskFossilize(t) ==
  /\ Ready(t)
  /\ t.op = "fossilize" /\ Located(t)
  /\ \/ /\ t.chunk \in chunkFiles
        /\ MoveChunkToFossil(t.chunk)
        /\ newFossils' = newFossils \union {t.chunk}
        /\ Finish(t)
     \/ /\ t.chunk \notin chunkFiles \/ t.chunk \in fossilFiles
        /\ Advance(t, "failed")
        /\ UNCHANGED <<chunkFiles, fossilFiles, newFossils>>
  /\ TaskFrame

(* Mutant: a chunk that is a fossil already is not collected. *)
TaskAlreadyFossilSkipped(t) ==
  /\ Ready(t)
  /\ t.op = "fossilize" /\ t.step \in {"absent", "failed"}
  /\ t.chunk \in fossilFiles
  /\ Finish(t)
  /\ UNCHANGED <<chunkFiles, fossilFiles, newFossils>>
  /\ TaskFrame

(* No chunk file, or it could not be moved, but the fossil exists; a chunk *)
(* file left over is deleted, whether that works or not.                   *)
TaskAlreadyFossil(t) ==
  /\ Ready(t)
  /\ t.op = "fossilize" /\ t.step \in {"absent", "failed"}
  /\ t.chunk \in fossilFiles
  /\ \/ UNCHANGED chunkFiles
     \/ t.step = "failed" /\ chunkFiles' = chunkFiles \ {t.chunk}
  /\ newFossils' = newFossils \union {t.chunk}
  /\ Finish(t)
  /\ UNCHANGED fossilFiles
  /\ TaskFrame

(* The result of deleting a fossil whose chunk exists is not looked at. *)
TaskResurrect(t) ==
  /\ Ready(t)
  /\ t.op = "resurrect"
  /\ \/ t.step = "found" /\ DeleteFossilFile(t.chunk)
     \/ t.step = "found" /\ UNCHANGED <<chunkFiles, fossilFiles>>
     \/ t.step = "absent" /\ t.chunk \in fossilFiles /\ MoveFossilToChunk(t.chunk)
  /\ Finish(t)
  /\ UNCHANGED newFossils
  /\ TaskFrame

(* LOG_ERROR in a worker: nothing is left to work on, or the storage       *)
(* failed.  The deferred function of Run counts the task as done before    *)
(* the process exits, so the command goes on until then (PruneCrash).      *)
TaskError(t) ==
  /\ Ready(t)
  /\ \/ t.step \in {"absent", "failed"} /\ t.chunk \notin fossilFiles
     \/ StorageErrors /\ (t.op /= "delete" \/ ~Located(t))
  /\ Finish(t)
  /\ UNCHANGED <<chunkFiles, fossilFiles, newFossils>>
  /\ TaskFrame

=============================================================================
