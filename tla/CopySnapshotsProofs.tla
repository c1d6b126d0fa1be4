------------------------ MODULE CopySnapshotsProofs ------------------------
(***************************************************************************)
(* Proofs about CopySnapshots, for any chunks, any numbers of threads and  *)
(* revisions and any number of copies.  What the two chunk operators do is *)
(* taken from ChunkOperatorProofs, once for each.                          *)
(***************************************************************************)
EXTENDS CopySnapshots, FiniteSetTheorems, WellFoundedInduction, TLAPS

Downloads == INSTANCE ChunkOperatorProofs WITH Caller <- {Main}, Worker <- Downloader, Task <- Chunk,
  unadded <- dUnadded, caller <- dCaller, worker <- dWorker, taskQueue <- dQueue,
  numberOfActiveTasks <- dActive, stopped <- dStopped, failed <- dFailed

Uploads == INSTANCE ChunkOperatorProofs WITH Caller <- Downloader \union {Main}, Worker <- Uploader, Task <- Chunk,
  unadded <- uUnadded, caller <- uCaller, worker <- uWorker, taskQueue <- uQueue,
  numberOfActiveTasks <- uActive, stopped <- uStopped, failed <- uFailed

-----------------------------------------------------------------------------
(* The inductive invariant of the command itself. *)

StateType ==
  /\ main \in {"plan", "decide", "copy", "snapshots", "done"}
  /\ undecided \subseteq Chunk /\ chunksToCopy \subseteq Chunk /\ wanted \subseteq sourceRevisions
  /\ got \in [Chunk -> Content]
  /\ sourceRevisions \subseteq Revision /\ damaged \subseteq Chunk
  /\ chunkFiles \in [Chunk -> Content] /\ fossilFiles \in [Chunk -> Content]
  /\ revisions \subseteq Revision
  /\ \A k \in collections : k.fossils \subseteq Chunk /\ k.deleted \subseteq Revision

PoolsInv == Downloads!PoolInv /\ Uploads!PoolInv

(* A chunk to be copied that has not been given to the uploader is still   *)
(* to be downloaded, or is being downloaded, or its download failed.       *)
ToDownload(c) == c \in dUnadded \/ Downloads!InFlight(c) \/ c \in dFailed

OrderInv ==
  /\ main \in {"plan", "decide"} => dUnadded = Chunk /\ uUnadded = Chunk /\ ~dCaller[Main].stop
  /\ \A c \in chunksToCopy \intersect uUnadded : ToDownload(c)
  /\ dCaller[Main].stop => AllAdded
  /\ main = "snapshots" => dCaller[Main].pc = "stopped" /\ uCaller[Main].pc = "stopped"

Usable == {"good", "damaged"}

(* What is given to the uploader has been downloaded. *)
GotInv == \A c \in Chunk \ uUnadded : got[c] \in Usable

(* Nothing damaged gets into memory or to the destination. *)
IntactInv == raw \/ \A c \in Chunk : "damaged" \notin {got[c], chunkFiles[c], fossilFiles[c]}

(* Backups number the revisions of the source one after the other. *)
SourceInv == \E n \in 0..MaxRevision : sourceRevisions = 1..n

CommandInv == StateType /\ SourceInv /\ PoolsInv /\ OrderInv /\ GotInv /\ IntactInv

-----------------------------------------------------------------------------
(* The inductive invariant of the destination, where copies bring only     *)
(* revisions that are newer than those it has.                             *)

(* What a copy brings follows what is at the destination. *)
RevisionsInv == \A r \in wanted, s \in revisions : s < r

(* A collection knows the revisions of the destination and those of the    *)
(* source at its time; its fossils belong to none of the former, and a     *)
(* chunk that is uploaded while it is pending is not empty.                *)
CollectionInv ==
  /\ \A j, k \in collections : j = k
  /\ \A k \in collections :
       /\ k.last \in revisions
       /\ \E n \in 0..MaxRevision : k.ended = 1..n /\ k.ended \subseteq sourceRevisions
       /\ \A r \in k.deleted : r < k.last /\ r \notin revisions
       /\ \A r \in revisions : r <= k.last => Refs[r] \intersect k.fossils = {}
  /\ \A c \in Chunk : fossilFiles[c] /= "none" =>
       chunkFiles[c] /= "empty" /\ \E k \in collections : c \in k.fossils

(* The chunk c is safe for the revisions R: it is in a chunk file, or in a *)
(* fossil of a collection that all of them end before and that has not     *)
(* seen any of them.                                                       *)
Safe(c, R) ==
  \/ chunkFiles[c] \in Usable
  \/ fossilFiles[c] \in Usable /\ \A k \in collections : R \subseteq k.ended /\ \A r \in R : r > k.last

Copying(c) == c \in chunksToCopy \intersect uUnadded \/ Uploads!InFlight(c) \/ c \in uFailed

ReadableInv ==
  /\ \A r \in revisions : \A c \in Refs[r] : Safe(c, {r})
  /\ \A r \in wanted : \A c \in Refs[r] : c \in undecided \/ Copying(c) \/ Safe(c, wanted)
  /\ main \in {"copy", "snapshots"} => undecided = {}

DestInv == RevisionsInv /\ CollectionInv /\ ReadableInv

-----------------------------------------------------------------------------
(* The steps of the two pools. *)

(* The steps of the downloader's pool that are not the addition or the     *)
(* completion of a download.                                               *)
DownloaderHandles ==
  \/ D!HandOver(Main) \/ D!Wait(Main, TRUE) \/ D!CheckIdle(Main) \/ (\E w \in Downloader : D!SendStop(Main, w))
  \/ \E w \in Downloader : D!TakeTask(w) \/ D!Panic(w) \/ D!Finish(w) \/ D!Exit(w)

UploaderHandles ==
  \/ \E w \in Downloader : U!HandOver(w)
  \/ U!Wait(Main, TRUE) \/ U!CheckIdle(Main) \/ (\E w \in Uploader : U!SendStop(Main, w))
  \/ \E w \in Uploader : U!TakeTask(w) \/ U!Panic(w) \/ U!Finish(w) \/ U!Exit(w)

(* They are steps of ChunkOperatorProofs, and keep its invariant. *)
LEMMA DownloaderStep ==
  ASSUME Downloads!PoolInv, DownloaderHandles
  PROVE  /\ Downloads!PoolInv' /\ dUnadded' = dUnadded /\ dFailed \subseteq dFailed'
         /\ \A u \in Chunk : Downloads!InFlight(u) => Downloads!InFlight(u)' \/ u \in dFailed'
         /\ \A u \in Chunk : Downloads!InFlight(u)' => Downloads!InFlight(u)
  <1> DEFINE C == {Main}
  <1>1. \A c \in C : D!HandOver(c) => Downloads!HandOver(c)
    BY DEF D!HandOver, Downloads!HandOver, D!ReadyCaller, Downloads!ReadyCaller, D!Cardinality, Downloads!Cardinality
  <1>2. \A c \in C : D!Wait(c, TRUE) => Downloads!Wait(c, TRUE)
    BY DEF D!Wait, Downloads!Wait
  <1>3. \A c \in C : D!CheckIdle(c) => Downloads!CheckIdle(c)
    BY DEF D!CheckIdle, Downloads!CheckIdle, D!ReadyCaller, Downloads!ReadyCaller
  <1>4. \A c \in C, w \in Downloader : D!SendStop(c, w) => Downloads!SendStop(c, w)
    BY DEF D!SendStop, Downloads!SendStop, D!Cardinality, Downloads!Cardinality
  <1>5. \A w \in Downloader : D!TakeTask(w) => Downloads!TakeTask(w)
    BY DEF D!TakeTask, Downloads!TakeTask
  <1>6. \A w \in Downloader : D!Panic(w) => Downloads!Panic(w)
    BY DEF D!Panic, Downloads!Panic
  <1>7. \A w \in Downloader : D!Finish(w) => Downloads!Finish(w)
    BY DEF D!Finish, Downloads!Finish, D!Broadcast, Downloads!Broadcast, D!AfterRun, Downloads!AfterRun, D!IdleWorker, Downloads!IdleWorker
  <1>8. \A w \in Downloader : D!Exit(w) => Downloads!Exit(w)
    BY DEF D!Exit, Downloads!Exit
  <1>9. Downloads!Handles
    BY <1>1, <1>2, <1>3, <1>4, <1>5, <1>6, <1>7, <1>8 DEF DownloaderHandles, Downloads!Handles
  <1> QED
    BY <1>9, CopyAssumption, Downloads!HandlesFlight DEF Downloads!IsFiniteSet, IsFiniteSet

(* The same for the uploader. *)
LEMMA UploaderStep ==
  ASSUME Uploads!PoolInv, UploaderHandles
  PROVE  /\ Uploads!PoolInv' /\ uUnadded' = uUnadded /\ uFailed \subseteq uFailed'
         /\ \A u \in Chunk : Uploads!InFlight(u) => Uploads!InFlight(u)' \/ u \in uFailed'
         /\ \A u \in Chunk : Uploads!InFlight(u)' => Uploads!InFlight(u)
  <1> DEFINE C == Downloader \union {Main}
  <1>1. \A c \in C : U!HandOver(c) => Uploads!HandOver(c)
    BY DEF U!HandOver, Uploads!HandOver, U!ReadyCaller, Uploads!ReadyCaller, U!Cardinality, Uploads!Cardinality
  <1>2. \A c \in C : U!Wait(c, TRUE) => Uploads!Wait(c, TRUE)
    BY DEF U!Wait, Uploads!Wait
  <1>3. \A c \in C : U!CheckIdle(c) => Uploads!CheckIdle(c)
    BY DEF U!CheckIdle, Uploads!CheckIdle, U!ReadyCaller, Uploads!ReadyCaller
  <1>4. \A c \in C, w \in Uploader : U!SendStop(c, w) => Uploads!SendStop(c, w)
    BY DEF U!SendStop, Uploads!SendStop, U!Cardinality, Uploads!Cardinality
  <1>5. \A w \in Uploader : U!TakeTask(w) => Uploads!TakeTask(w)
    BY DEF U!TakeTask, Uploads!TakeTask
  <1>6. \A w \in Uploader : U!Panic(w) => Uploads!Panic(w)
    BY DEF U!Panic, Uploads!Panic
  <1>7. \A w \in Uploader : U!Finish(w) => Uploads!Finish(w)
    BY DEF U!Finish, Uploads!Finish, U!Broadcast, Uploads!Broadcast, U!AfterRun, Uploads!AfterRun, U!IdleWorker, Uploads!IdleWorker
  <1>8. \A w \in Uploader : U!Exit(w) => Uploads!Exit(w)
    BY DEF U!Exit, Uploads!Exit
  <1>9. Uploads!Handles
    BY <1>1, <1>2, <1>3, <1>4, <1>5, <1>6, <1>7, <1>8 DEF UploaderHandles, Uploads!Handles
  <1> QED
    BY <1>9, CopyAssumption, Uploads!HandlesFlight DEF Uploads!IsFiniteSet, IsFiniteSet

(* A download that is added is in the pool, and those that are there stay. *)
LEMMA DownloadAdded ==
  ASSUME Downloads!PoolInv, NEW c \in Chunk, D!AddTask(Main, c, FALSE)
  PROVE  /\ Downloads!PoolInv' /\ dUnadded' = dUnadded \ {c} /\ dFailed' = dFailed
         /\ Downloads!InFlight(c)'
         /\ \A u \in Chunk : Downloads!InFlight(u) => Downloads!InFlight(u)'
  <1>1. Downloads!AddTask(Main, c, FALSE)
    BY DEF D!AddTask, Downloads!AddTask, D!Stopping, Downloads!Stopping
  <1>2. dUnadded' = dUnadded \ {c} /\ dFailed' = dFailed
    BY DEF D!AddTask
  <1> QED
    BY <1>1, <1>2, CopyAssumption, Downloads!AddTaskFlight DEF Downloads!IsFiniteSet, IsFiniteSet

(* An upload that is added is in the pool of the uploader. *)
LEMMA UploadAdded ==
  ASSUME Uploads!PoolInv, NEW w \in Downloader, NEW c \in Chunk, U!AddTask(w, c, FALSE)
  PROVE  /\ Uploads!PoolInv' /\ uUnadded' = uUnadded \ {c} /\ uFailed' = uFailed
         /\ Uploads!InFlight(c)'
         /\ \A u \in Chunk : Uploads!InFlight(u) => Uploads!InFlight(u)'
  <1>1. Uploads!AddTask(w, c, FALSE)
    BY DEF U!AddTask, Uploads!AddTask, U!Stopping, Uploads!Stopping
  <1>2. uUnadded' = uUnadded \ {c} /\ uFailed' = uFailed
    BY DEF U!AddTask
  <1> QED
    BY <1>1, <1>2, CopyAssumption, Uploads!AddTaskFlight DEF Uploads!IsFiniteSet, IsFiniteSet

(* The completion of a download takes that one out of the pool. *)
LEMMA DownloadCompleted ==
  ASSUME Downloads!PoolInv, NEW w \in Downloader, D!Complete(w)
  PROVE  /\ Downloads!PoolInv' /\ UNCHANGED <<dUnadded, dFailed>>
         /\ \A u \in Chunk : Downloads!InFlight(u) => Downloads!InFlight(u)' \/ dWorker[w].tasks = {u}
         /\ \A u \in Chunk : Downloads!InFlight(u)' => Downloads!InFlight(u)
  <1>1. Downloads!Complete(w)
    BY DEF D!Complete, Downloads!Complete, D!ReadyCaller, Downloads!ReadyCaller
  <1> QED
    BY <1>1, CopyAssumption, Downloads!CompleteFlight DEF Downloads!IsFiniteSet, IsFiniteSet

(* So does that of an upload. *)
LEMMA UploadCompleted ==
  ASSUME Uploads!PoolInv, NEW w \in Uploader, U!Complete(w)
  PROVE  /\ Uploads!PoolInv' /\ UNCHANGED <<uUnadded, uFailed>>
         /\ \A u \in Chunk : Uploads!InFlight(u) => Uploads!InFlight(u)' \/ uWorker[w].tasks = {u}
         /\ \A u \in Chunk : Uploads!InFlight(u)' => Uploads!InFlight(u)
         /\ \E u \in Chunk : uWorker[w].tasks = {u} /\ Uploads!InFlight(u)
  <1>1. Uploads!Complete(w)
    BY DEF U!Complete, Uploads!Complete, U!ReadyCaller, Uploads!ReadyCaller
  <1> QED
    BY <1>1, CopyAssumption, Uploads!CompleteFlight DEF Uploads!IsFiniteSet, IsFiniteSet

(* What the rest of the command does changes nothing in the pools. *)
LEMMA DownloaderIdle ==
  ASSUME Downloads!PoolInv, UNCHANGED dVars, exited' \in BOOLEAN
  PROVE  Downloads!PoolInv' /\ \A u \in Chunk : Downloads!InFlight(u)' <=> Downloads!InFlight(u)
  BY CopyAssumption, Downloads!ExitedFlight DEF dVars, Downloads!IsFiniteSet, IsFiniteSet

(* The same for the uploader. *)
LEMMA UploaderIdle ==
  ASSUME Uploads!PoolInv, UNCHANGED uVars, exited' \in BOOLEAN
  PROVE  Uploads!PoolInv' /\ \A u \in Chunk : Uploads!InFlight(u)' <=> Uploads!InFlight(u)
  BY CopyAssumption, Uploads!ExitedFlight DEF uVars, Uploads!IsFiniteSet, IsFiniteSet

(* The process is gone or it is not. *)
LEMMA ExitedType ==
  /\ Downloads!PoolInv' => exited' \in BOOLEAN
  /\ Uploads!PoolInv' => exited' \in BOOLEAN
  BY DEF Downloads!PoolInv, Downloads!OperatorInv, Downloads!TypeOK,
         Uploads!PoolInv, Uploads!OperatorInv, Uploads!TypeOK

(* Both pools begin empty. *)
LEMMA PoolsBegin == D!Init /\ U!Init => PoolsInv
  <1>1. D!Init => Downloads!Init
    BY DEF D!Init, Downloads!Init, D!ReadyCaller, Downloads!ReadyCaller, D!IdleWorker, Downloads!IdleWorker
  <1>2. U!Init => Uploads!Init
    BY DEF U!Init, Uploads!Init, U!ReadyCaller, Uploads!ReadyCaller, U!IdleWorker, Uploads!IdleWorker
  <1>3. Downloads!Init => Downloads!PoolInv
    BY CopyAssumption, Downloads!InitPoolInv DEF Downloads!IsFiniteSet, IsFiniteSet
  <1>4. Uploads!Init => Uploads!PoolInv
    BY CopyAssumption, Uploads!InitPoolInv DEF Uploads!IsFiniteSet, IsFiniteSet
  <1> QED
    BY <1>1, <1>2, <1>3, <1>4 DEF PoolsInv

(* They do so again when copy is run again. *)
LEMMA PoolsBeginAgain == D!Init' /\ U!Init' => PoolsInv'
  BY PoolsBegin, PTL

(* The workers of the downloader wake its caller at most: they do not take *)
(* back that it has stopped, nor make it stop.                             *)
LEMMA DownloaderCaller ==
  ASSUME Downloads!PoolInv, NEW w \in Downloader,
         D!TakeTask(w) \/ D!Complete(w) \/ D!Panic(w) \/ D!Finish(w) \/ D!Exit(w)
  PROVE  /\ dCaller'[Main].stop => dCaller[Main].stop
         /\ dCaller[Main].pc = "stopped" => dCaller'[Main].pc = "stopped"
  <1>1. dCaller \in [{Main} -> Downloads!CallerState]
    BY DEF Downloads!PoolInv, Downloads!OperatorInv, Downloads!TypeOK
  <1> QED
    BY <1>1 DEF Downloads!CallerState, D!TakeTask, D!Complete, D!Panic, D!Finish, D!Exit, D!Broadcast, D!ReadyCaller

(* The same for the uploader. *)
LEMMA UploaderCaller ==
  ASSUME Uploads!PoolInv,
         \/ \E w \in Uploader : U!TakeTask(w) \/ U!Complete(w) \/ U!Panic(w) \/ U!Finish(w) \/ U!Exit(w)
         \/ \E w \in Downloader : U!HandOver(w) \/ \E c \in Chunk : U!AddTask(w, c, FALSE)
  PROVE  uCaller[Main].pc = "stopped" => uCaller'[Main].pc = "stopped"
  <1>1. uCaller \in [Downloader \union {Main} -> Uploads!CallerState] /\ Main \notin Downloader
    BY CopyAssumption DEF Uploads!PoolInv, Uploads!OperatorInv, Uploads!TypeOK
  <1>2. ASSUME NEW w \in Uploader, U!TakeTask(w) \/ U!Complete(w) \/ U!Panic(w) \/ U!Finish(w) \/ U!Exit(w)
        PROVE  uCaller[Main].pc = "stopped" => uCaller'[Main].pc = "stopped"
    BY <1>1, <1>2 DEF Uploads!CallerState, U!TakeTask, U!Complete, U!Panic, U!Finish, U!Exit, U!Broadcast, U!ReadyCaller
  <1>3. ASSUME NEW w \in Downloader, U!HandOver(w) \/ \E c \in Chunk : U!AddTask(w, c, FALSE)
        PROVE  uCaller'[Main] = uCaller[Main]
    BY <1>1, <1>3 DEF U!HandOver, U!AddTask
  <1> QED
    BY <1>2, <1>3

-----------------------------------------------------------------------------
(* The command. *)

(* A step of the pools that adds no upload: the command and the storages   *)
(* are as they were, but the main goroutine may get on to the snapshots.   *)
PoolStep ==
  /\ PoolsInv' /\ uUnadded' = uUnadded
  /\ UNCHANGED <<undecided, chunksToCopy, wanted, got, destVars, sourceVars>>
  /\ main' = main \/ (main = "copy" /\ main' = "snapshots")
  /\ main' = "snapshots" => dCaller'[Main].pc = "stopped" /\ uCaller'[Main].pc = "stopped"
  /\ dUnadded' \subseteq dUnadded
  /\ main \in {"plan", "decide"} => dUnadded' = dUnadded
  /\ dCaller'[Main].stop => dCaller[Main].stop \/ (AllAdded /\ main \notin {"plan", "decide"})
  /\ \A c \in Chunk : ToDownload(c) => ToDownload(c)' \/ c \notin uUnadded
  /\ \A c \in Chunk : Uploads!InFlight(c) \/ c \in uFailed => Uploads!InFlight(c)' \/ c \in uFailed'

(* Such a step keeps both invariants. *)
LEMMA PoolStepInv ==
  ASSUME CommandInv, PoolStep
  PROVE  CommandInv' /\ (DestInv => DestInv')
  <1> USE DEF CommandInv, PoolStep
  <1>1. StateType' /\ SourceInv'
    BY DEF StateType, SourceInv, destVars, sourceVars
  <1>2. OrderInv'
    <2>1. main' \in {"plan", "decide"} => dUnadded' = Chunk /\ uUnadded' = Chunk /\ ~dCaller'[Main].stop
      BY DEF OrderInv
    <2>2. \A c \in chunksToCopy' \intersect uUnadded' : ToDownload(c)'
      BY DEF OrderInv, StateType
    <2>3. dCaller'[Main].stop => AllAdded'
      BY DEF OrderInv, AllAdded
    <2> QED
      BY <2>1, <2>2, <2>3 DEF OrderInv
  <1>3. GotInv' /\ IntactInv'
    BY DEF GotInv, IntactInv, destVars, sourceVars
  <1>4. ASSUME DestInv PROVE DestInv'
    <2> USE <1>4 DEF DestInv
    <2>1. RevisionsInv'
      BY DEF RevisionsInv, destVars, sourceVars
    <2>2. CollectionInv'
      BY DEF CollectionInv, destVars, sourceVars
    <2>3. ReadableInv'
      <3>1. \A c, R : Safe(c, R)' <=> Safe(c, R)
        BY DEF Safe, destVars
      <3>2. \A c \in Chunk : Copying(c) => Copying(c)'
        BY DEF Copying
      <3>3. \A r \in wanted : Refs[r] \subseteq Chunk
        BY CopyAssumption DEF StateType
      <3>4. \A r \in revisions' : \A c \in Refs[r] : Safe(c, {r})'
        BY <3>1 DEF ReadableInv, destVars
      <3>5. \A r \in wanted' : \A c \in Refs[r] : c \in undecided' \/ Copying(c)' \/ Safe(c, wanted)'
        BY <3>1, <3>2, <3>3 DEF ReadableInv, Safe, destVars
      <3> QED
        BY <3>4, <3>5 DEF ReadableInv
    <2> QED
      BY <2>1, <2>2, <2>3
  <1> QED
    BY <1>1, <1>2, <1>3, <1>4

(* The main goroutine downloads. *)
LEMMA DownloadAsyncStep ==
  ASSUME CommandInv, DownloadAsync
  PROVE  CommandInv' /\ (DestInv => DestInv')
  <1> USE DEF CommandInv, PoolsInv
  <1>1. main = "copy" /\ UNCHANGED <<uVars, copyVars, destVars, sourceVars>>
    BY DEF DownloadAsync
  <1>2. UNCHANGED <<main, undecided, chunksToCopy, wanted, got, uUnadded, uCaller, uFailed>>
    BY <1>1 DEF copyVars, uVars
  <1>3. ASSUME NEW c \in chunksToCopy, D!AddTask(Main, c, FALSE) PROVE PoolStep
    <2>1. c \in Chunk
      BY DEF StateType
    <2>2. /\ Downloads!PoolInv' /\ dUnadded' = dUnadded \ {c} /\ dFailed' = dFailed
          /\ Downloads!InFlight(c)'
          /\ \A u \in Chunk : Downloads!InFlight(u) => Downloads!InFlight(u)'
      BY <1>3, <2>1, DownloadAdded
    <2>3. Uploads!PoolInv' /\ \A u \in Chunk : Uploads!InFlight(u)' <=> Uploads!InFlight(u)
      BY <1>1, <2>2, ExitedType, UploaderIdle
    <2>4. dCaller'[Main].stop = dCaller[Main].stop
      BY <1>3 DEF D!AddTask, Downloads!PoolInv, Downloads!OperatorInv, Downloads!TypeOK, Downloads!CallerState
    <2>5. \A u \in Chunk : ToDownload(u) => ToDownload(u)'
      BY <2>2 DEF ToDownload
    <2> QED
      BY <1>1, <1>2, <2>2, <2>3, <2>4, <2>5 DEF PoolStep
  <1>4. ASSUME DownloaderHandles,
               dCaller'[Main].stop => dCaller[Main].stop \/ AllAdded
        PROVE  PoolStep
    <2>1. /\ Downloads!PoolInv' /\ dUnadded' = dUnadded /\ dFailed \subseteq dFailed'
          /\ \A u \in Chunk : Downloads!InFlight(u) => Downloads!InFlight(u)' \/ u \in dFailed'
      BY <1>4, DownloaderStep
    <2>2. Uploads!PoolInv' /\ \A u \in Chunk : Uploads!InFlight(u)' <=> Uploads!InFlight(u)
      BY <1>1, <2>1, ExitedType, UploaderIdle
    <2>3. \A u \in Chunk : ToDownload(u) => ToDownload(u)'
      BY <2>1 DEF ToDownload
    <2> QED
      BY <1>1, <1>2, <1>4, <2>1, <2>2, <2>3 DEF PoolStep
  <1>5. ASSUME D!HandOver(Main) \/ D!CheckIdle(Main) \/ \E w \in Downloader : D!SendStop(Main, w)
        PROVE  dCaller'[Main].stop => dCaller[Main].stop
    <2>1. dCaller \in [{Main} -> Downloads!CallerState]
      BY DEF Downloads!PoolInv, Downloads!OperatorInv, Downloads!TypeOK
    <2>2. CASE D!HandOver(Main)
      BY <2>1, <2>2 DEF D!HandOver, D!ReadyCaller, Downloads!CallerState
    <2>3. CASE D!CheckIdle(Main)
      BY <2>1, <2>3 DEF D!CheckIdle, D!ReadyCaller, Downloads!CallerState
    <2>4. CASE \E w \in Downloader : D!SendStop(Main, w)
      BY <2>1, <2>4 DEF D!SendStop, Downloads!CallerState
    <2> QED
      BY <1>5, <2>2, <2>3, <2>4
  <1>6. PoolStep
    BY <1>3, <1>4, <1>5 DEF DownloadAsync, DownloaderHandles
  <1> QED
    BY <1>6, PoolStepInv

(* Its second Stop; when that returns the first one has. *)
LEMMA StopUploaderStep ==
  ASSUME CommandInv, StopUploader
  PROVE  CommandInv' /\ (DestInv => DestInv')
  <1> USE DEF CommandInv, PoolsInv
  <1>1. /\ main = "copy" /\ UNCHANGED <<dVars, undecided, chunksToCopy, wanted, got, destVars, sourceVars>>
        /\ UploaderHandles
    BY DEF StopUploader, UploaderHandles
  <1>2. UNCHANGED <<dUnadded, dCaller, dFailed>>
    BY <1>1 DEF dVars
  <1>3. /\ Uploads!PoolInv' /\ uUnadded' = uUnadded /\ uFailed \subseteq uFailed'
        /\ \A u \in Chunk : Uploads!InFlight(u) => Uploads!InFlight(u)' \/ u \in uFailed'
    BY <1>1, UploaderStep
  <1>4. Downloads!PoolInv' /\ \A u \in Chunk : Downloads!InFlight(u)' <=> Downloads!InFlight(u)
    BY <1>1, <1>3, ExitedType, DownloaderIdle
  <1>5. /\ main' = main \/ (main = "copy" /\ main' = "snapshots")
        /\ main' = "snapshots" => dCaller'[Main].pc = "stopped" /\ uCaller'[Main].pc = "stopped"
    BY <1>1, <1>2 DEF StopUploader
  <1>6. \A u \in Chunk : ToDownload(u) => ToDownload(u)'
    BY <1>2, <1>4 DEF ToDownload
  <1>7. PoolStep
    BY <1>1, <1>2, <1>3, <1>4, <1>5, <1>6 DEF PoolStep
  <1> QED
    BY <1>7, PoolStepInv

(* A worker of the downloader takes a download, or ends one. *)
LEMMA DownloaderWorks ==
  ASSUME CommandInv, UNCHANGED <<uVars, copyVars, destVars, sourceVars>>,
         NEW w \in Downloader, D!TakeTask(w) \/ D!Panic(w) \/ D!Finish(w) \/ D!Exit(w)
  PROVE  CommandInv' /\ (DestInv => DestInv')
  <1> USE DEF CommandInv, PoolsInv
  <1>1. UNCHANGED <<main, undecided, chunksToCopy, wanted, got, uUnadded, uCaller, uFailed>>
    BY DEF copyVars, uVars
  <1>2. /\ Downloads!PoolInv' /\ dUnadded' = dUnadded /\ dFailed \subseteq dFailed'
        /\ \A u \in Chunk : Downloads!InFlight(u) => Downloads!InFlight(u)' \/ u \in dFailed'
    BY DownloaderStep DEF DownloaderHandles
  <1>3. Uploads!PoolInv' /\ \A u \in Chunk : Uploads!InFlight(u)' <=> Uploads!InFlight(u)
    BY <1>2, ExitedType, UploaderIdle
  <1>4. /\ dCaller'[Main].stop => dCaller[Main].stop
        /\ dCaller[Main].pc = "stopped" => dCaller'[Main].pc = "stopped"
    BY DownloaderCaller
  <1>5. \A u \in Chunk : ToDownload(u) => ToDownload(u)'
    BY <1>2 DEF ToDownload
  <1>6. PoolStep
    BY <1>1, <1>2, <1>3, <1>4, <1>5 DEF PoolStep, OrderInv
  <1> QED
    BY <1>6, PoolStepInv

(* A download is over when its chunk is with the uploader. *)
LEMMA FetchDoneStep ==
  ASSUME CommandInv, NEW w \in Downloader, FetchDone(w)
  PROVE  CommandInv' /\ (DestInv => DestInv')
  <1> USE DEF CommandInv, PoolsInv
  <1>1. /\ UNCHANGED <<uVars, copyVars, destVars, sourceVars>> /\ D!Complete(w)
        /\ dWorker[w].tasks \intersect uUnadded = {}
    BY DEF FetchDone
  <1>2. UNCHANGED <<main, undecided, chunksToCopy, wanted, got, uUnadded, uCaller, uFailed>>
    BY <1>1 DEF copyVars, uVars
  <1>3. /\ Downloads!PoolInv' /\ UNCHANGED <<dUnadded, dFailed>>
        /\ \A u \in Chunk : Downloads!InFlight(u) => Downloads!InFlight(u)' \/ dWorker[w].tasks = {u}
    BY <1>1, DownloadCompleted
  <1>4. Uploads!PoolInv' /\ \A u \in Chunk : Uploads!InFlight(u)' <=> Uploads!InFlight(u)
    BY <1>1, <1>3, ExitedType, UploaderIdle
  <1>5. /\ dCaller'[Main].stop => dCaller[Main].stop
        /\ dCaller[Main].pc = "stopped" => dCaller'[Main].pc = "stopped"
    BY <1>1, DownloaderCaller
  <1>6. \A u \in Chunk : ToDownload(u) => ToDownload(u)' \/ u \notin uUnadded
    BY <1>1, <1>3 DEF ToDownload
  <1>7. PoolStep
    BY <1>1, <1>2, <1>3, <1>4, <1>5, <1>6 DEF PoolStep, OrderInv
  <1> QED
    BY <1>7, PoolStepInv

(* A worker of the uploader takes an upload, or ends one, or gets one from *)
(* a downloader.                                                           *)
LEMMA UploaderWorks ==
  ASSUME CommandInv, UNCHANGED <<dVars, copyVars, destVars, sourceVars>>,
         \/ \E w \in Uploader : U!TakeTask(w) \/ U!Panic(w) \/ U!Finish(w) \/ U!Exit(w)
         \/ \E w \in Downloader : U!HandOver(w)
  PROVE  CommandInv' /\ (DestInv => DestInv')
  <1> USE DEF CommandInv, PoolsInv
  <1>1. UNCHANGED <<main, undecided, chunksToCopy, wanted, got, dUnadded, dCaller, dFailed>>
    BY DEF copyVars, dVars
  <1>2. /\ Uploads!PoolInv' /\ uUnadded' = uUnadded /\ uFailed \subseteq uFailed'
        /\ \A u \in Chunk : Uploads!InFlight(u) => Uploads!InFlight(u)' \/ u \in uFailed'
    BY UploaderStep DEF UploaderHandles
  <1>3. Downloads!PoolInv' /\ \A u \in Chunk : Downloads!InFlight(u)' <=> Downloads!InFlight(u)
    BY <1>2, ExitedType, DownloaderIdle
  <1>4. uCaller[Main].pc = "stopped" => uCaller'[Main].pc = "stopped"
    BY UploaderCaller
  <1>5. \A u \in Chunk : ToDownload(u) => ToDownload(u)'
    BY <1>1, <1>3 DEF ToDownload
  <1>6. PoolStep
    BY <1>1, <1>2, <1>3, <1>4, <1>5 DEF PoolStep, OrderInv
  <1> QED
    BY <1>6, PoolStepInv

(* The command may end at any time. *)
LEMMA KillStep ==
  ASSUME CommandInv, Kill
  PROVE  CommandInv' /\ (DestInv => DestInv')
  <1> USE DEF CommandInv, PoolsInv
  <1>1. UNCHANGED <<dVars, uVars, copyVars, destVars, sourceVars>> /\ exited' = TRUE
    BY DEF Kill
  <1>2. UNCHANGED <<main, undecided, chunksToCopy, wanted, got, dUnadded, dCaller, dFailed,
                    uUnadded, uCaller, uFailed>>
    BY <1>1 DEF copyVars, dVars, uVars
  <1>3. Downloads!PoolInv' /\ \A u \in Chunk : Downloads!InFlight(u)' <=> Downloads!InFlight(u)
    BY <1>1, DownloaderIdle
  <1>4. Uploads!PoolInv' /\ \A u \in Chunk : Uploads!InFlight(u)' <=> Uploads!InFlight(u)
    BY <1>1, UploaderIdle
  <1>5. \A u \in Chunk : ToDownload(u) => ToDownload(u)'
    BY <1>2, <1>3 DEF ToDownload
  <1>6. PoolStep
    BY <1>1, <1>2, <1>3, <1>4, <1>5 DEF PoolStep, OrderInv
  <1> QED
    BY <1>6, PoolStepInv

(* A chunk that is downloaded is given to the uploader, intact unless the  *)
(* stored bytes are copied as they are.                                    *)
LEMMA FetchStep ==
  ASSUME CommandInv, NEW w \in Downloader, Fetch(w)
  PROVE  CommandInv' /\ (DestInv => DestInv')
  <1> USE DEF CommandInv, PoolsInv
  <1>1. PICK c \in dWorker[w].tasks :
          /\ c \in uUnadded /\ Accepted(c) /\ U!AddTask(w, c, FALSE)
          /\ got' = [got EXCEPT ![c] = IF c \in damaged THEN "damaged" ELSE "good"]
    BY DEF Fetch
  <1>2. /\ dWorker[w].pc = "running"
        /\ UNCHANGED <<dVars, main, undecided, chunksToCopy, wanted, destVars, sourceVars>>
    BY DEF Fetch
  <1>3. UNCHANGED <<dUnadded, dCaller, dFailed, chunkFiles, fossilFiles, revisions, collections,
                    raw, sourceRevisions, damaged>>
    BY <1>2 DEF dVars, destVars, sourceVars
  <1>4. c \in Chunk /\ Downloads!InFlight(c) /\ c \notin dUnadded
    <2>1. PICK t \in Chunk : dWorker[w].tasks = {t}
      BY <1>2 DEF Downloads!PoolInv, Downloads!FlightInv
    <2>2. Downloads!InFlight(c) /\ c \in Chunk
      BY <1>1, <1>2, <2>1 DEF Downloads!InFlight
    <2> QED
      BY <2>2 DEF Downloads!PoolInv, Downloads!FlightInv
  <1>5. /\ Uploads!PoolInv' /\ uUnadded' = uUnadded \ {c} /\ uFailed' = uFailed
        /\ Uploads!InFlight(c)'
        /\ \A u \in Chunk : Uploads!InFlight(u) => Uploads!InFlight(u)'
    BY <1>1, <1>4, UploadAdded
  <1>6. Downloads!PoolInv' /\ \A u \in Chunk : Downloads!InFlight(u)' <=> Downloads!InFlight(u)
    BY <1>2, <1>5, ExitedType, DownloaderIdle
  <1>7. StateType' /\ SourceInv'
    BY <1>1, <1>2, <1>3, <1>4 DEF StateType, SourceInv, Content
  <1>8. OrderInv'
    <2>1. main \notin {"plan", "decide"}
      BY <1>4 DEF OrderInv
    <2>2. \A u \in chunksToCopy' \intersect uUnadded' : ToDownload(u)'
      <3>1. \A u \in Chunk : ToDownload(u) => ToDownload(u)'
        BY <1>3, <1>6 DEF ToDownload
      <3> QED
        BY <1>2, <1>5, <3>1 DEF OrderInv, StateType
    <2>3. uCaller[Main].pc = "stopped" => uCaller'[Main].pc = "stopped"
      BY <1>1, <1>4, UploaderCaller
    <2>4. AllAdded' <=> AllAdded
      BY <1>2, <1>3 DEF AllAdded
    <2> QED
      BY <1>2, <1>3, <2>1, <2>2, <2>3, <2>4 DEF OrderInv
  <1>9. \A u \in Chunk : got'[u] = IF u = c THEN IF c \in damaged THEN "damaged" ELSE "good" ELSE got[u]
    BY <1>1, <1>4 DEF StateType
  <1>10. GotInv' /\ IntactInv'
    BY <1>1, <1>3, <1>5, <1>9 DEF GotInv, IntactInv, Usable, Accepted
  <1>11. ASSUME DestInv PROVE DestInv'
    <2> USE <1>11 DEF DestInv
    <2>1. RevisionsInv' /\ CollectionInv'
      BY <1>2, <1>3 DEF RevisionsInv, CollectionInv
    <2>2. \A u, R : Safe(u, R)' <=> Safe(u, R)
      BY <1>3 DEF Safe
    <2>3. \A u \in Chunk : Copying(u) => Copying(u)'
      BY <1>2, <1>5 DEF Copying
    <2>4. \A r \in wanted : Refs[r] \subseteq Chunk
      BY CopyAssumption DEF StateType
    <2>5. \A r \in revisions' : \A u \in Refs[r] : Safe(u, {r})'
      BY <1>3, <2>2 DEF ReadableInv
    <2>6. \A r \in wanted' : \A u \in Refs[r] : u \in undecided' \/ Copying(u)' \/ Safe(u, wanted)'
      BY <1>2, <1>3, <2>3, <2>4 DEF ReadableInv, Safe
    <2> QED
      BY <1>2, <2>1, <2>5, <2>6 DEF ReadableInv
  <1> QED
    BY <1>5, <1>6, <1>7, <1>8, <1>10, <1>11

(* What is uploaded has been downloaded, so the file is not empty. *)
LEMMA PutStep ==
  ASSUME CommandInv, NEW w \in Uploader, Put(w)
  PROVE  CommandInv' /\ (DestInv => DestInv')
  <1> USE DEF CommandInv, PoolsInv
  <1>1. /\ U!Complete(w) /\ UNCHANGED <<dVars, copyVars, fossilFiles, revisions, collections, sourceVars>>
        /\ \E c \in uWorker[w].tasks : chunkFiles' = [chunkFiles EXCEPT ![c] = got[c]]
    BY DEF Put
  <1>2. UNCHANGED <<dUnadded, dCaller, dFailed, main, undecided, chunksToCopy, wanted, got,
                    raw, sourceRevisions, damaged>>
    BY <1>1 DEF dVars, copyVars, sourceVars
  <1>3. /\ Uploads!PoolInv' /\ UNCHANGED <<uUnadded, uFailed>>
        /\ \A u \in Chunk : Uploads!InFlight(u) => Uploads!InFlight(u)' \/ uWorker[w].tasks = {u}
        /\ \E u \in Chunk : uWorker[w].tasks = {u} /\ Uploads!InFlight(u)
    BY <1>1, UploadCompleted
  <1>4. PICK c \in Chunk : uWorker[w].tasks = {c} /\ Uploads!InFlight(c)
    BY <1>3
  <1>5. chunkFiles' = [chunkFiles EXCEPT ![c] = got[c]]
    BY <1>1, <1>4
  <1>6. got[c] \in Usable
    BY <1>4 DEF GotInv, Uploads!PoolInv, Uploads!FlightInv
  <1>7. Downloads!PoolInv' /\ \A u \in Chunk : Downloads!InFlight(u)' <=> Downloads!InFlight(u)
    BY <1>1, <1>3, ExitedType, DownloaderIdle
  <1>8. StateType' /\ SourceInv'
    BY <1>1, <1>2, <1>4, <1>5 DEF StateType, SourceInv
  <1>9. OrderInv'
    <2>1. \A u \in Chunk : ToDownload(u) => ToDownload(u)'
      BY <1>2, <1>7 DEF ToDownload
    <2>2. uCaller[Main].pc = "stopped" => uCaller'[Main].pc = "stopped"
      BY <1>1, UploaderCaller
    <2>3. AllAdded' <=> AllAdded
      BY <1>2 DEF AllAdded
    <2> QED
      BY <1>2, <1>3, <2>1, <2>2, <2>3 DEF OrderInv, StateType
  <1>10. \A u \in Chunk : chunkFiles'[u] = IF u = c THEN got[c] ELSE chunkFiles[u]
    BY <1>4, <1>5 DEF StateType
  <1>11. GotInv' /\ IntactInv'
    BY <1>1, <1>2, <1>3, <1>10 DEF GotInv, IntactInv
  <1>12. ASSUME DestInv PROVE DestInv'
    <2> USE <1>12 DEF DestInv
    <2>1. RevisionsInv'
      BY <1>1, <1>2 DEF RevisionsInv
    <2>2. CollectionInv'
      BY <1>1, <1>2, <1>6, <1>10 DEF CollectionInv, Usable
    <2>3. \A u \in Chunk : \A R : Safe(u, R) => Safe(u, R)'
      BY <1>1, <1>6, <1>10 DEF Safe
    <2>5. \A r \in wanted \union revisions : Refs[r] \subseteq Chunk
      BY CopyAssumption DEF StateType
    <2>6. \A r \in revisions' : \A u \in Refs[r] : Safe(u, {r})'
      BY <1>1, <2>3, <2>5 DEF ReadableInv
    <2>7. \A r \in wanted : \A u \in Refs[r] : u \in undecided \/ Copying(u)' \/ Safe(u, wanted)'
      <3>1. \A u \in Chunk : Safe(u, wanted) => Safe(u, wanted)'
        BY <1>1, <1>2, <1>6, <1>10 DEF Safe
      <3>2. \A u \in Chunk : Copying(u) => Copying(u)' \/ Safe(u, wanted)'
        BY <1>2, <1>3, <1>4, <1>6, <1>10 DEF Copying, Safe
      <3> QED
        BY <2>5, <3>1, <3>2 DEF ReadableInv
    <2> QED
      BY <1>2, <2>1, <2>2, <2>6, <2>7 DEF ReadableInv
  <1> QED
    BY <1>3, <1>7, <1>8, <1>9, <1>11, <1>12

(* A step that leaves both pools alone. *)
LEMMA PoolsKept ==
  ASSUME PoolsInv, UNCHANGED <<dVars, uVars, exited>>
  PROVE  /\ PoolsInv'
         /\ \A u \in Chunk : ToDownload(u)' <=> ToDownload(u)
         /\ \A u \in Chunk : Uploads!InFlight(u)' <=> Uploads!InFlight(u)
  <1>1. exited' \in BOOLEAN
    BY DEF PoolsInv, Downloads!PoolInv, Downloads!OperatorInv, Downloads!TypeOK
  <1>2. Downloads!PoolInv' /\ \A u \in Chunk : Downloads!InFlight(u)' <=> Downloads!InFlight(u)
    BY <1>1, DownloaderIdle DEF PoolsInv
  <1>3. Uploads!PoolInv' /\ \A u \in Chunk : Uploads!InFlight(u)' <=> Uploads!InFlight(u)
    BY <1>1, UploaderIdle DEF PoolsInv
  <1>4. UNCHANGED <<dUnadded, dFailed>>
    BY DEF dVars
  <1> QED
    BY <1>2, <1>3, <1>4 DEF PoolsInv, ToDownload

(* The revisions to copy are those of the source. *)
LEMMA PlanStep ==
  ASSUME CommandInv, Plan
  PROVE  /\ CommandInv'
         /\ DestInv /\ ~OlderRevisions => DestInv'
  <1> USE DEF CommandInv
  <1>1. PICK R \in IF OlderRevisions THEN {sourceRevisions} \union {{r} : r \in sourceRevisions}
                 ELSE {{r \in sourceRevisions : \A s \in revisions : s < r}} :
          /\ wanted' = R \ revisions
          /\ undecided' = RefsOf(R \ revisions)
          /\ main' = IF R \subseteq revisions THEN "done" ELSE "decide"
    BY DEF Plan
  <1>2. main = "plan" /\ UNCHANGED <<dVars, uVars, exited, chunksToCopy, got, destVars, sourceVars>>
    BY DEF Plan
  <1>3. UNCHANGED <<dUnadded, dCaller, dFailed, uUnadded, uCaller, uFailed, chunkFiles, fossilFiles, revisions,
                    collections, raw, sourceRevisions, damaged>>
    BY <1>2 DEF dVars, uVars, destVars, sourceVars
  <1>4. /\ PoolsInv' /\ \A u \in Chunk : ToDownload(u)' <=> ToDownload(u)
    BY <1>2, PoolsKept
  <1>5. R \subseteq sourceRevisions
    BY <1>1
  <1>6. RefsOf(R \ revisions) \subseteq Chunk
    BY <1>5, CopyAssumption DEF RefsOf, StateType
  <1>7. StateType' /\ SourceInv'
    BY <1>1, <1>2, <1>3, <1>5, <1>6 DEF StateType, SourceInv
  <1>8. OrderInv'
    <2>1. AllAdded' <=> AllAdded
      BY <1>2, <1>3 DEF AllAdded
    <2> QED
      BY <1>1, <1>2, <1>3, <1>4, <2>1 DEF OrderInv, StateType
  <1>9. GotInv' /\ IntactInv'
    BY <1>2, <1>3 DEF GotInv, IntactInv
  <1>10. ASSUME DestInv, ~OlderRevisions PROVE DestInv'
    <2> USE <1>10 DEF DestInv
    <2>1. RevisionsInv'
      BY <1>1, <1>3 DEF RevisionsInv
    <2>2. CollectionInv'
      BY <1>3 DEF CollectionInv
    <2>3. \A r \in revisions' : \A u \in Refs[r] : Safe(u, {r})'
      BY <1>3 DEF ReadableInv, Safe
    <2>4. \A r \in wanted' : \A u \in Refs[r] : u \in undecided'
      BY <1>1 DEF RefsOf
    <2> QED
      BY <1>1, <2>1, <2>2, <2>3, <2>4 DEF ReadableInv
  <1> QED
    BY <1>4, <1>7, <1>8, <1>9, <1>10

(* A chunk that is looked up is to be copied, or is there. *)
LEMMA DecideStep ==
  ASSUME CommandInv, NEW c \in Chunk, Decide(c)
  PROVE  CommandInv' /\ (DestInv => DestInv')
  <1> USE DEF CommandInv
  <1>1. /\ main = "decide" /\ undecided' = undecided \ {c}
        /\ chunksToCopy' = IF LacksChunk(c) THEN chunksToCopy \union {c} ELSE chunksToCopy
        /\ main' = IF undecided = {c} THEN "copy" ELSE main
        /\ UNCHANGED <<dVars, uVars, exited, wanted, got, destVars, sourceVars>>
    BY DEF Decide
  <1>2. UNCHANGED <<dUnadded, dCaller, dFailed, uUnadded, uCaller, uFailed, chunkFiles, fossilFiles, revisions,
                    collections, raw, sourceRevisions, damaged>>
    BY <1>1 DEF dVars, uVars, destVars, sourceVars
  <1>3. /\ PoolsInv' /\ \A u \in Chunk : ToDownload(u)' <=> ToDownload(u)
        /\ \A u \in Chunk : Uploads!InFlight(u)' <=> Uploads!InFlight(u)
    BY <1>1, PoolsKept
  <1>4. StateType' /\ SourceInv'
    BY <1>1, <1>2 DEF StateType, SourceInv
  <1>5. dUnadded = Chunk /\ uUnadded = Chunk /\ ~dCaller[Main].stop
    BY <1>1 DEF OrderInv
  <1>6. OrderInv'
    <2>1. \A u \in chunksToCopy' \intersect uUnadded' : ToDownload(u)'
      BY <1>1, <1>2, <1>3, <1>5 DEF OrderInv, StateType, ToDownload
    <2> QED
      BY <1>1, <1>2, <1>5, <2>1 DEF OrderInv
  <1>7. GotInv' /\ IntactInv'
    BY <1>1, <1>2 DEF GotInv, IntactInv
  <1>8. ASSUME DestInv PROVE DestInv'
    <2> USE <1>8 DEF DestInv
    <2>1. RevisionsInv' /\ CollectionInv'
      BY <1>1, <1>2 DEF RevisionsInv, CollectionInv
    <2>2. \A r \in revisions' : \A u \in Refs[r] : Safe(u, {r})'
      BY <1>2 DEF ReadableInv, Safe
    <2>3. \A u \in Chunk : Copying(u) => Copying(u)'
      BY <1>1, <1>2, <1>3 DEF Copying
    <2>4. Copying(c)' \/ Safe(c, wanted)'
      BY <1>1, <1>2, <1>5 DEF Copying, Safe, LacksChunk, StateType, Content, Usable
    <2>5. \A r \in wanted : Refs[r] \subseteq Chunk
      BY CopyAssumption DEF StateType
    <2>6. \A u : Safe(u, wanted) => Safe(u, wanted)'
      BY <1>1, <1>2 DEF Safe
    <2>7. \A r \in wanted : \A u \in Refs[r] : u \in undecided' \/ Copying(u)' \/ Safe(u, wanted)'
      BY <1>1, <2>3, <2>4, <2>5, <2>6 DEF ReadableInv
    <2> QED
      BY <1>1, <2>1, <2>2, <2>7 DEF ReadableInv
  <1> QED
    BY <1>3, <1>4, <1>6, <1>7, <1>8

(* When the snapshots are uploaded nothing is left to be copied, and       *)
(* nothing failed: both pools are stopped, every chunk was given to the    *)
(* first, and what leaves the first without failing is with the second.    *)
LEMMA AllCopied ==
  ASSUME CommandInv, main = "snapshots"
  PROVE  /\ dFailed = {} /\ uFailed = {} /\ uQueue = <<>>
         /\ \A w \in Uploader : uWorker[w].pc = "gone"
         /\ chunksToCopy \intersect uUnadded = {}
         /\ \A c \in Chunk : ~Copying(c)
  <1> USE DEF CommandInv, PoolsInv
  <1>1. dCaller[Main].pc = "stopped" /\ uCaller[Main].pc = "stopped"
    BY DEF OrderInv
  <1>2. /\ dFailed = {} /\ dCaller[Main].stop /\ \A c \in Chunk : ~Downloads!InFlight(c)
    BY <1>1, CopyAssumption, Downloads!StoppedIsQuiet, Downloads!StoppedHasNone
       DEF Downloads!PoolInv, Downloads!IsFiniteSet, IsFiniteSet
  <1>3. /\ uFailed = {} /\ uQueue = <<>> /\ \A w \in Uploader : uWorker[w].pc = "gone"
        /\ \A c \in Chunk : ~Uploads!InFlight(c)
    BY <1>1, CopyAssumption, Uploads!StoppedIsQuiet, Uploads!StoppedHasNone
       DEF Uploads!PoolInv, Uploads!IsFiniteSet, IsFiniteSet
  <1>4. chunksToCopy \intersect uUnadded = {}
    BY <1>2 DEF OrderInv, AllAdded, ToDownload, StateType
  <1> QED
    BY <1>2, <1>3, <1>4 DEF Copying

(* So a snapshot that is uploaded has its chunks. *)
LEMMA UploadSnapshotStep ==
  ASSUME CommandInv, UploadSnapshot
  PROVE  CommandInv' /\ (DestInv => DestInv')
  <1> USE DEF CommandInv
  <1>1. PICK r \in wanted :
          /\ \A s \in wanted : r <= s
          /\ revisions' = revisions \union {r}
          /\ wanted' = wanted \ {r}
          /\ main' = IF wanted = {r} THEN "done" ELSE main
    BY DEF UploadSnapshot
  <1>2. /\ main = "snapshots"
        /\ UNCHANGED <<dVars, uVars, exited, undecided, chunksToCopy, got, chunkFiles, fossilFiles, collections,
                       sourceVars>>
    BY DEF UploadSnapshot
  <1>3. UNCHANGED <<dUnadded, dCaller, dFailed, uUnadded, uCaller, uFailed, raw, sourceRevisions, damaged>>
    BY <1>2 DEF dVars, uVars, sourceVars
  <1>4. /\ PoolsInv' /\ \A u \in Chunk : ToDownload(u)' <=> ToDownload(u)
    BY <1>2, PoolsKept
  <1>5. StateType' /\ SourceInv'
    BY <1>1, <1>2, <1>3 DEF StateType, SourceInv
  <1>6. OrderInv'
    <2>1. AllAdded' <=> AllAdded
      BY <1>2, <1>3 DEF AllAdded
    <2> QED
      BY <1>1, <1>2, <1>3, <1>4, <2>1 DEF OrderInv, StateType
  <1>7. GotInv' /\ IntactInv'
    BY <1>2, <1>3 DEF GotInv, IntactInv
  <1>8. ASSUME DestInv PROVE DestInv'
    <2> USE <1>8 DEF DestInv
    <2>1. wanted \subseteq Int /\ revisions \subseteq Int
      BY DEF StateType, Revision
    <2>2. RevisionsInv'
      BY <1>1, <2>1 DEF RevisionsInv
    <2>3. CollectionInv'
      <3>1. \A k \in collections : k.last \in revisions /\ ~(r <= k.last) /\ \A d \in k.deleted : d /= r
        <4> SUFFICES ASSUME NEW k \in collections
                     PROVE  k.last \in revisions /\ ~(r <= k.last) /\ \A d \in k.deleted : d /= r
          OBVIOUS
        <4>1. k.last \in revisions /\ \A d \in k.deleted : d < k.last /\ d \in Int
          BY DEF CollectionInv, StateType, Revision
        <4>2. k.last < r
          BY <4>1 DEF RevisionsInv
        <4>3. r \in Int /\ k.last \in Int
          BY <2>1, <4>1
        <4> QED
          BY <4>1, <4>2, <4>3
      <3> QED
        BY <1>1, <1>2, <1>3, <3>1 DEF CollectionInv
    <2>4. \A t \in wanted : Refs[t] \subseteq Chunk
      BY CopyAssumption DEF StateType
    <2>5. \A t \in wanted : \A u \in Refs[t] : Safe(u, wanted)
      BY <1>2, <2>4, AllCopied DEF ReadableInv
    <2>6. \A t \in wanted : \A u \in Refs[t] : Safe(u, {t})'
      BY <1>2, <2>5 DEF Safe
    <2>7. \A t \in revisions' : \A u \in Refs[t] : Safe(u, {t})'
      BY <1>1, <1>2, <2>6 DEF ReadableInv, Safe
    <2>8. \A t \in wanted' : \A u \in Refs[t] : Safe(u, wanted)'
      BY <1>1, <1>2, <2>5 DEF Safe
    <2> QED
      BY <1>1, <1>2, <2>2, <2>3, <2>7, <2>8 DEF ReadableInv
  <1> QED
    BY <1>4, <1>5, <1>6, <1>7, <1>8

(* Copy is run again from nothing. *)
LEMMA RerunStep ==
  ASSUME CommandInv, Rerun
  PROVE  CommandInv' /\ (DestInv => DestInv')
  <1> USE DEF CommandInv
  <1>1. PoolsInv'
    <2>1. D!Init' /\ U!Init'
      BY DEF Rerun, D!Init, U!Init
    <2> QED
      BY <2>1, PoolsBeginAgain
  <1>2. /\ dUnadded' = Chunk /\ uUnadded' = Chunk /\ ~dCaller'[Main].stop
        /\ main' = "plan" /\ undecided' = {} /\ chunksToCopy' = {} /\ wanted' = {}
        /\ got' = [c \in Chunk |-> "none"]
        /\ UNCHANGED <<chunkFiles, fossilFiles, revisions, collections, raw, sourceRevisions, damaged>>
    BY DEF Rerun, D!ReadyCaller, destVars, sourceVars
  <1>3. StateType' /\ SourceInv'
    BY <1>2 DEF StateType, SourceInv, Content
  <1>4. OrderInv'
    BY <1>2 DEF OrderInv
  <1>5. GotInv' /\ IntactInv'
    BY <1>2 DEF GotInv, IntactInv
  <1>6. DestInv => DestInv'
    BY <1>2 DEF DestInv, RevisionsInv, CollectionInv, ReadableInv, Safe
  <1> QED
    BY <1>1, <1>3, <1>4, <1>5, <1>6

-----------------------------------------------------------------------------
(* What goes on around the command. *)

(* Latest picks the largest. *)
LEMMA LatestIs ==
  ASSUME NEW R \in SUBSET Revision, R /= {}
  PROVE  Latest(R) \in R /\ \A s \in R : s <= Latest(R)
  <1> DEFINE T == {MaxRevision - r : r \in R}
  <1>6. R \subseteq Int /\ \A r \in R : MaxRevision - r \in Nat
    BY CopyAssumption DEF Revision
  <1>1. T \subseteq Nat /\ T /= {}
    BY <1>6
  <1>2. PICK x \in T : \A y \in T : ~(<<y, x>> \in OpToRel(<, Nat))
    BY <1>1, NatLessThanWellFounded, WFMin
  <1>3. \A y \in T : ~(y < x)
    BY <1>1, <1>2 DEF OpToRel
  <1>4. PICK r \in R : x = MaxRevision - r
    OBVIOUS
  <1>5. \A s \in R : s <= r
    <2> SUFFICES ASSUME NEW s \in R PROVE s <= r
      OBVIOUS
    <2>1. MaxRevision - s \in T /\ s \in Int /\ r \in Int /\ MaxRevision \in Int
      BY <1>6, CopyAssumption
    <2>2. ~(MaxRevision - s < MaxRevision - r)
      BY <1>3, <1>4, <2>1
    <2> QED
      BY <2>1, <2>2
  <1> QED
    BY <1>5 DEF Latest

(* A backup adds the next revision to the source. *)
LEMMA BackupSourceStep ==
  ASSUME CommandInv, BackupSource
  PROVE  CommandInv' /\ (DestInv => DestInv')
  <1> USE DEF CommandInv
  <1>1. /\ Latest(sourceRevisions) < MaxRevision
        /\ sourceRevisions' = sourceRevisions \union {Latest(sourceRevisions) + 1}
        /\ UNCHANGED <<dVars, uVars, exited, copyVars, destVars, raw, damaged>>
    BY DEF BackupSource
  <1>2. UNCHANGED <<dUnadded, dCaller, dFailed, uUnadded, uCaller, uFailed, chunkFiles, fossilFiles, revisions,
                    collections, main, undecided, chunksToCopy, wanted, got>>
    BY <1>1 DEF dVars, uVars, copyVars, destVars
  <1>3. /\ PoolsInv' /\ \A u \in Chunk : ToDownload(u)' <=> ToDownload(u)
        /\ \A u \in Chunk : Uploads!InFlight(u)' <=> Uploads!InFlight(u)
    BY <1>1, PoolsKept
  <1>4. PICK n \in 0..MaxRevision : sourceRevisions = 1..n
    BY DEF SourceInv
  <1>5. Latest(sourceRevisions) = n
    <2>1. CASE n = 0
      BY <1>4, <2>1 DEF Latest
    <2>2. CASE n /= 0
      <3>1. n \in sourceRevisions /\ sourceRevisions \in SUBSET Revision /\ \A s \in sourceRevisions : s <= n
        BY <1>4, <2>2 DEF StateType
      <3>2. Latest(sourceRevisions) \in 1..n /\ n <= Latest(sourceRevisions)
        BY <1>4, <3>1, LatestIs
      <3> QED
        BY <3>2
    <2> QED
      BY <2>1, <2>2
  <1>6. sourceRevisions' = 1..(n + 1) /\ n + 1 \in 1..MaxRevision
    BY <1>1, <1>4, <1>5, CopyAssumption
  <1>7. StateType' /\ SourceInv'
    <2>1. sourceRevisions' \subseteq Revision /\ SourceInv'
      BY <1>6, CopyAssumption DEF SourceInv, Revision
    <2> QED
      BY <1>1, <1>2, <2>1 DEF StateType
  <1>8. OrderInv'
    <2>1. AllAdded' <=> AllAdded
      BY <1>2 DEF AllAdded
    <2> QED
      BY <1>2, <1>3, <2>1 DEF OrderInv, StateType
  <1>9. GotInv' /\ IntactInv'
    BY <1>1, <1>2 DEF GotInv, IntactInv
  <1>10. ASSUME DestInv PROVE DestInv'
    <2> USE <1>10 DEF DestInv
    <2>1. RevisionsInv'
      BY <1>2 DEF RevisionsInv
    <2>2. CollectionInv'
      BY <1>1, <1>2 DEF CollectionInv
    <2>3. \A r \in wanted : Refs[r] \subseteq Chunk
      BY CopyAssumption DEF StateType
    <2>4. \A u \in Chunk : Copying(u)' <=> Copying(u)
      BY <1>2, <1>3 DEF Copying
    <2>5. \A u : Safe(u, wanted)' <=> Safe(u, wanted)
      BY <1>2 DEF Safe
    <2>6. \A r \in revisions' : \A u \in Refs[r] : Safe(u, {r})'
      BY <1>2 DEF ReadableInv, Safe
    <2>7. \A r \in wanted : \A u \in Refs[r] : u \in undecided \/ Copying(u)' \/ Safe(u, wanted)'
      BY <2>3, <2>4, <2>5 DEF ReadableInv
    <2> QED
      BY <1>2, <2>1, <2>2, <2>6, <2>7 DEF ReadableInv
  <1> QED
    BY <1>3, <1>7, <1>8, <1>9, <1>10

(* Prune turns the chunks into fossils that no snapshot of the destination *)
(* needs.  A chunk that the command counts on may be one of them: then the *)
(* revisions to be copied end before the collection does.                  *)
LEMMA PruneCollectStep ==
  ASSUME CommandInv, NEW del \in SUBSET Revision, PruneCollect(del)
  PROVE  CommandInv' /\ (DestInv => DestInv')
  <1> USE DEF CommandInv
  <1> DEFINE F == {c \in Chunk : chunkFiles[c] /= "none"} \ RefsOf(revisions \ del)
             k == [fossils |-> F, last |-> Latest(revisions), deleted |-> del, ended |-> sourceRevisions]
  <1>1. /\ collections = {} /\ revisions /= {} /\ del \subseteq revisions \ {Latest(revisions)}
        /\ fossilFiles' = [c \in Chunk |-> IF c \in F THEN chunkFiles[c] ELSE fossilFiles[c]]
        /\ chunkFiles' = [c \in Chunk |-> IF c \in F THEN "none" ELSE chunkFiles[c]]
        /\ collections' = {k} /\ revisions' = revisions \ del
        /\ UNCHANGED <<dVars, uVars, exited, copyVars, sourceVars>>
    BY DEF PruneCollect
  <1>2. UNCHANGED <<dUnadded, dCaller, dFailed, uUnadded, uCaller, uFailed, raw, sourceRevisions, damaged,
                    main, undecided, chunksToCopy, wanted, got>>
    BY <1>1 DEF dVars, uVars, copyVars, sourceVars
  <1>3. /\ PoolsInv' /\ \A u \in Chunk : ToDownload(u)' <=> ToDownload(u)
        /\ \A u \in Chunk : Uploads!InFlight(u)' <=> Uploads!InFlight(u)
    BY <1>1, PoolsKept
  <1>4. F \subseteq Chunk /\ \A c \in F : chunkFiles[c] /= "none"
    OBVIOUS
  <1>5. \A r \in revisions \ del : Refs[r] \intersect F = {}
    BY DEF RefsOf
  <1>6. k.fossils = F /\ k.last = Latest(revisions) /\ k.deleted = del /\ k.ended = sourceRevisions
    OBVIOUS
  <1> HIDE DEF F, k
  <1>7. StateType' /\ SourceInv'
    BY <1>1, <1>2, <1>4, <1>6 DEF StateType, SourceInv, Content
  <1>8. OrderInv'
    <2>1. AllAdded' <=> AllAdded
      BY <1>2 DEF AllAdded
    <2> QED
      BY <1>2, <1>3, <2>1 DEF OrderInv, StateType
  <1>9. GotInv' /\ IntactInv'
    BY <1>1, <1>2 DEF GotInv, IntactInv
  <1>10. ASSUME DestInv PROVE DestInv'
    <2> USE <1>10 DEF DestInv
    <2>1. Latest(revisions) \in revisions /\ \A s \in revisions : s <= Latest(revisions)
      BY <1>1, LatestIs DEF StateType
    <2>2. revisions \subseteq Int /\ wanted \subseteq Int
      BY DEF StateType, Revision
    <2>3. RevisionsInv'
      BY <1>1, <1>2 DEF RevisionsInv
    <2>4. CollectionInv'
      <3>1. k.last \in revisions'
        BY <1>1, <1>6, <2>1
      <3>2. \E n \in 0..MaxRevision : k.ended = 1..n /\ k.ended \subseteq sourceRevisions'
        BY <1>2, <1>6 DEF SourceInv
      <3>3. \A r \in k.deleted : r < k.last /\ r \notin revisions'
        <4> SUFFICES ASSUME NEW r \in del PROVE r < Latest(revisions) /\ r \notin revisions'
          BY <1>6
        <4>1. r \in revisions /\ r /= Latest(revisions) /\ r <= Latest(revisions)
          BY <1>1, <2>1
        <4>2. r \in Int /\ Latest(revisions) \in Int
          BY <2>1, <2>2, <4>1
        <4> QED
          BY <1>1, <4>1, <4>2
      <3>4. \A r \in revisions' : Refs[r] \intersect k.fossils = {}
        BY <1>1, <1>5, <1>6
      <3>5. \A c \in Chunk : fossilFiles[c] = "none"
        BY <1>1 DEF CollectionInv
      <3>6. \A c \in Chunk : fossilFiles'[c] /= "none" => chunkFiles'[c] /= "empty" /\ c \in k.fossils
        BY <1>1, <1>6, <3>5
      <3> QED
        BY <1>1, <3>1, <3>2, <3>3, <3>4, <3>6 DEF CollectionInv
    <2>5. \A c \in Chunk : fossilFiles[c] = "none"
      BY <1>1 DEF CollectionInv
    <2>6. \A r \in revisions \union wanted : Refs[r] \subseteq Chunk
      BY CopyAssumption DEF StateType
    <2>7. \A r \in revisions' : \A c \in Refs[r] : Safe(c, {r})'
      BY <1>1, <1>5, <2>5, <2>6 DEF ReadableInv, Safe, Usable
    <2>8. wanted \subseteq k.ended /\ \A r \in wanted : r > k.last
      BY <1>6, <2>1, <2>2 DEF StateType, RevisionsInv
    <2>9. \A c \in Chunk : Safe(c, wanted) => Safe(c, wanted)'
      BY <1>1, <1>2, <2>5, <2>8 DEF Safe, Usable
    <2>10. \A c \in Chunk : Copying(c)' <=> Copying(c)
      BY <1>2, <1>3 DEF Copying
    <2>11. \A r \in wanted' : \A c \in Refs[r] : c \in undecided' \/ Copying(c)' \/ Safe(c, wanted)'
      BY <1>2, <2>6, <2>9, <2>10 DEF ReadableInv
    <2> QED
      BY <1>2, <2>3, <2>4, <2>7, <2>11 DEF ReadableInv
  <1> QED
    BY <1>3, <1>7, <1>8, <1>9, <1>10

(* A collection is deleted when a snapshot has come that ended after it:   *)
(* the snapshots before that one are looked at and keep their fossils, the *)
(* later ones are not and have none.  While revisions are to be copied     *)
(* that count on a fossil no such snapshot can have come.                  *)
LEMMA PruneReapStep ==
  ASSUME CommandInv, NEW k \in collections, PruneReap(k)
  PROVE  CommandInv' /\ (~Dormant /\ DestInv => DestInv')
  <1> USE DEF CommandInv
  <1> DEFINE kept == IF IsGhost(k) THEN {} ELSE k.fossils \intersect RefsOf(NewTo(k))
             gone == IF IsGhost(k) THEN {} ELSE k.fossils
  <1>1. /\ IsGhost(k) \/ IsDeletable(k)
        /\ collections' = {}
        /\ chunkFiles' = [c \in Chunk |-> IF c \in kept /\ chunkFiles[c] = "none" THEN fossilFiles[c] ELSE chunkFiles[c]]
        /\ fossilFiles' = [c \in Chunk |-> IF c \in gone THEN "none" ELSE fossilFiles[c]]
        /\ UNCHANGED <<dVars, uVars, exited, copyVars, revisions, sourceVars>>
    BY DEF PruneReap
  <1> HIDE DEF kept, gone
  <1>2. UNCHANGED <<dUnadded, dCaller, dFailed, uUnadded, uCaller, uFailed, raw, sourceRevisions, damaged,
                    main, undecided, chunksToCopy, wanted, got>>
    BY <1>1 DEF dVars, uVars, copyVars, sourceVars
  <1>3. /\ PoolsInv' /\ \A u \in Chunk : ToDownload(u)' <=> ToDownload(u)
        /\ \A u \in Chunk : Uploads!InFlight(u)' <=> Uploads!InFlight(u)
    BY <1>1, PoolsKept
  <1>4. StateType' /\ SourceInv'
    BY <1>1, <1>2 DEF StateType, SourceInv, Content
  <1>5. OrderInv'
    <2>1. AllAdded' <=> AllAdded
      BY <1>2 DEF AllAdded
    <2> QED
      BY <1>2, <1>3, <2>1 DEF OrderInv, StateType
  <1>6. GotInv' /\ IntactInv'
    BY <1>1, <1>2 DEF GotInv, IntactInv
  <1>7. ASSUME ~Dormant, DestInv PROVE DestInv'
    <2> USE <1>7 DEF DestInv
    <2>1. /\ k.last \in revisions /\ \A r \in k.deleted : r < k.last /\ r \notin revisions
          /\ \A r \in revisions : r <= k.last => Refs[r] \intersect k.fossils = {}
          /\ \A j \in collections : j = k
      BY DEF CollectionInv
    <2>2. PICK n \in 0..MaxRevision : k.ended = 1..n
      BY DEF CollectionInv
    <2>3. ~IsGhost(k)
      BY <2>1 DEF IsGhost
    <2>4. PICK s \in revisions : s > k.last /\ s \notin k.ended
      BY <1>1, <1>7, <2>3 DEF IsDeletable
    <2>5. kept = k.fossils \intersect RefsOf(NewTo(k)) /\ gone = k.fossils
      BY <2>3 DEF kept, gone
    <2>6. revisions \subseteq 1..MaxRevision /\ wanted \subseteq 1..MaxRevision /\ MaxRevision \in Nat
      BY CopyAssumption DEF StateType, Revision
    <2>7. RevisionsInv'
      BY <1>1, <1>2 DEF RevisionsInv
    <2>8. \A c \in Chunk : c \notin gone => fossilFiles[c] = "none"
      BY <2>1, <2>5 DEF CollectionInv
    <2>9. \A c \in Chunk : fossilFiles'[c] = "none"
      BY <1>1, <2>8
    <2>10. CollectionInv'
      BY <1>1, <2>9 DEF CollectionInv
    <2>11. \A r \in revisions : r > k.last /\ r \in k.ended => r \in NewTo(k)
      BY <2>2, <2>6 DEF NewTo
    <2>12. \A r \in revisions \union wanted : Refs[r] \subseteq Chunk
      BY CopyAssumption DEF StateType
    <2>13. \A r \in revisions' : \A c \in Refs[r] : Safe(c, {r})'
      <3> SUFFICES ASSUME NEW r \in revisions, NEW c \in Refs[r] PROVE Safe(c, {r})'
        BY <1>1
      <3>1. c \in Chunk /\ Safe(c, {r})
        BY <2>12 DEF ReadableInv
      <3>2. CASE chunkFiles[c] \in Usable
        BY <1>1, <3>1, <3>2 DEF Safe, Usable
      <3>3. CASE fossilFiles[c] \in Usable /\ chunkFiles[c] \notin Usable
        <4>1. r \in k.ended /\ r > k.last
          BY <3>1, <3>3 DEF Safe
        <4>2. c \in RefsOf(NewTo(k))
          BY <2>11, <4>1 DEF RefsOf
        <4>3. c \in k.fossils /\ chunkFiles[c] = "none"
          BY <2>1, <3>1, <3>3 DEF CollectionInv, Usable, StateType, Content
        <4>4. chunkFiles'[c] = fossilFiles[c]
          BY <1>1, <2>5, <3>1, <4>2, <4>3
        <4> QED
          BY <3>3, <4>4 DEF Safe
      <3> QED
        BY <3>1, <3>2, <3>3 DEF Safe
    <2>14. \A r \in wanted' : \A c \in Refs[r] : c \in undecided' \/ Copying(c)' \/ Safe(c, wanted)'
      <3> SUFFICES ASSUME NEW r \in wanted, NEW c \in Refs[r], Safe(c, wanted)
                   PROVE  Safe(c, wanted)'
        <4>1. \A c \in Chunk : Copying(c)' <=> Copying(c)
          BY <1>2, <1>3 DEF Copying
        <4> QED
          BY <1>2, <2>12, <4>1 DEF ReadableInv
      <3>1. c \in Chunk
        BY <2>12
      <3>2. CASE chunkFiles[c] \in Usable
        BY <1>1, <3>1, <3>2 DEF Safe, Usable
      <3>3. CASE wanted \subseteq k.ended
        <4>1. s < r
          BY DEF RevisionsInv
        <4>2. s \in 1..n
          BY <2>2, <2>6, <3>3, <4>1
        <4> QED
          BY <2>2, <2>4, <4>2
      <3> QED
        BY <3>2, <3>3 DEF Safe
    <2> QED
      BY <1>2, <2>7, <2>10, <2>13, <2>14 DEF ReadableInv
  <1> QED
    BY <1>3, <1>4, <1>5, <1>6, <1>7

-----------------------------------------------------------------------------
(* The whole. *)

(* The first copy starts with a destination whose snapshots are complete. *)
LEMMA InitCopy == Init => CommandInv /\ DestInv
  <1> SUFFICES ASSUME Init PROVE CommandInv /\ DestInv
    OBVIOUS
  <1>1. PoolsInv
    BY PoolsBegin DEF Init
  <1>2. PICK n \in 1..MaxRevision : sourceRevisions = 1..n
    BY DEF Init
  <1>3. n \in Int /\ n >= 1 /\ n <= MaxRevision /\ MaxRevision \in Nat
    BY <1>2, CopyAssumption
  <1>4. Cardinality(sourceRevisions) = n
    BY <1>2, <1>3, FS_Interval
  <1>5. revisions \subseteq Revision /\ sourceRevisions \subseteq Revision
    BY <1>2, <1>3, <1>4 DEF Init, Revision
  <1>6. StateType /\ SourceInv
    <2>1. SourceInv
      BY <1>2, <1>3 DEF SourceInv
    <2>2. damaged \subseteq Chunk
      BY DEF Init
    <2> QED
      BY <1>5, <2>1, <2>2 DEF Init, StartCopy, StateType, Content
  <1>7. OrderInv
    BY DEF Init, StartCopy, D!Init, U!Init, D!ReadyCaller, OrderInv, AllAdded
  <1>8. GotInv /\ IntactInv
    <2>1. uUnadded = Chunk
      BY DEF Init, U!Init
    <2> QED
      BY <2>1 DEF Init, StartCopy, GotInv, IntactInv
  <1>9. RevisionsInv /\ CollectionInv
    BY DEF Init, StartCopy, RevisionsInv, CollectionInv
  <1>10. ReadableInv
    BY DEF Init, StartCopy, ReadableInv, Safe, Usable, RefsOf
  <1> QED
    BY <1>1, <1>6, <1>7, <1>8, <1>9, <1>10 DEF CommandInv, DestInv

(* Every step keeps both invariants, if copies bring new revisions only    *)
(* and no snapshot id counts as dormant; the first one in any case.        *)
LEMMA NextCopy ==
  ASSUME CommandInv, [Next]_vars
  PROVE  /\ CommandInv'
         /\ DestInv /\ ~Dormant /\ ~OlderRevisions => DestInv'
  <1>1. CASE UNCHANGED vars
    <2>1. UNCHANGED <<dVars, uVars, exited, copyVars, destVars, sourceVars>>
      BY <1>1 DEF vars
    <2>2. UNCHANGED <<dUnadded, dCaller, dFailed, uUnadded, uCaller, uFailed, main, undecided, chunksToCopy, wanted, got>>
      BY <2>1 DEF dVars, uVars, copyVars
    <2>3. /\ PoolsInv' /\ \A u \in Chunk : ToDownload(u)' <=> ToDownload(u)
          /\ \A u \in Chunk : Uploads!InFlight(u)' <=> Uploads!InFlight(u)
      BY <2>1, PoolsKept DEF CommandInv
    <2>4. PoolStep
      BY <2>1, <2>2, <2>3 DEF PoolStep, CommandInv, OrderInv
    <2> QED
      BY <2>4, PoolStepInv
  <1>2. CASE Plan
    BY <1>2, PlanStep
  <1>3. CASE DownloadAsync \/ StopUploader \/ UploadSnapshot \/ \E c \in Chunk : Decide(c)
    BY <1>3, DownloadAsyncStep, StopUploaderStep, UploadSnapshotStep, DecideStep
  <1>4. ASSUME NEW w \in Downloader,
               \/ TakeDownload(w) \/ Fetch(w) \/ PassToUploader(w) \/ FetchDone(w) \/ FetchFails(w)
               \/ DownloaderEnds(w)
        PROVE  CommandInv' /\ (DestInv => DestInv')
    <2>1. CASE TakeDownload(w) \/ FetchFails(w) \/ DownloaderEnds(w)
      BY <2>1, DownloaderWorks DEF TakeDownload, FetchFails, DownloaderEnds
    <2>2. CASE PassToUploader(w)
      BY <2>2, UploaderWorks DEF PassToUploader
    <2> QED
      BY <1>4, <2>1, <2>2, FetchStep, FetchDoneStep
  <1>5. ASSUME NEW w \in Uploader, TakeUpload(w) \/ Put(w) \/ PutFails(w) \/ UploaderEnds(w)
        PROVE  CommandInv' /\ (DestInv => DestInv')
    <2>1. CASE TakeUpload(w) \/ PutFails(w) \/ UploaderEnds(w)
      BY <2>1, UploaderWorks DEF TakeUpload, PutFails, UploaderEnds
    <2> QED
      BY <1>5, <2>1, PutStep
  <1>6. CASE Kill \/ Rerun
    BY <1>6, KillStep, RerunStep
  <1>7. CASE Around
    BY <1>7, BackupSourceStep, PruneCollectStep, PruneReapStep DEF Around
  <1> QED
    BY <1>1, <1>2, <1>3, <1>4, <1>5, <1>6, <1>7 DEF Next, Goes

(* The invariant of the command, whatever the settings are. *)
THEOREM CommandAlwaysInv == Spec => []CommandInv
  <1>1. Init => CommandInv
    BY InitCopy
  <1>2. CommandInv /\ [Next]_vars => CommandInv'
    BY NextCopy
  <1> QED
    BY <1>1, <1>2, PTL DEF Spec

(* Snapshot files are uploaded only when every chunk of the copy is at the *)
(* destination: nothing is queued, with a worker or failed, whatever       *)
(* happens to the requests and to the command.                             *)
THEOREM SnapshotsAlwaysLast == Spec => []SnapshotsLast
  <1>1. CommandInv => SnapshotsLast
    BY AllCopied DEF SnapshotsLast
  <1> QED
    BY <1>1, CommandAlwaysInv, PTL

(* A chunk that is damaged at the source does not get to the destination,  *)
(* unless the stored bytes are copied as they are.                         *)
THEOREM CopiedAlwaysIntact == Spec => []CopiedIsIntact
  <1>1. CommandInv => CopiedIsIntact
    <2>1. CommandInv => RefsOf(revisions) \subseteq Chunk
      BY CopyAssumption DEF CommandInv, StateType, RefsOf
    <2> QED
      BY <2>1 DEF CommandInv, IntactInv, CopiedIsIntact
  <1> QED
    BY <1>1, CommandAlwaysInv, PTL

(* Where copies bring only revisions that are newer than those of the      *)
(* destination, and no snapshot id counts as dormant there, every snapshot *)
(* of the destination keeps its chunks, whatever prune does meanwhile.     *)
THEOREM CopiedAlwaysReadable ==
  ASSUME ~Dormant, ~OlderRevisions
  PROVE  Spec => []CopiedIsReadable
  <1>1. Init => CommandInv /\ DestInv
    BY InitCopy
  <1>2. CommandInv /\ DestInv /\ [Next]_vars => (CommandInv /\ DestInv)'
    BY NextCopy
  <1>3. CommandInv /\ DestInv => CopiedIsReadable
    BY DEF DestInv, ReadableInv, Safe, Usable, RefsOf, CopiedIsReadable
  <1> QED
    BY <1>1, <1>2, <1>3, PTL DEF Spec

=============================================================================
