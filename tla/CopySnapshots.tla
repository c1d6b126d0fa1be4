--------------------------- MODULE CopySnapshots ----------------------------
(***************************************************************************)
(* The copy command: the main goroutine decides which chunks of the        *)
(* revisions to be copied the destination lacks; the workers of one chunk  *)
(* operator download them and hand each to a second chunk operator, whose  *)
(* workers upload it; then the snapshot files are uploaded.  Meanwhile the *)
(* source is backed up to and the destination is pruned, and the command   *)
(* may be killed and run again.                                            *)
(***************************************************************************)
EXTENDS Integers, FiniteSets, SequencesExt

CONSTANTS
  Chunk,
  Downloader, Uploader,  \* the threads of the two chunk operators
  MaxRevision,           \* bound: revisions of the one snapshot id
  Refs,                  \* Refs[r]: the chunks of the revision r, metadata included
  RawModes,              \* whether the storages store chunks in the same bytes
  OlderRevisions,        \* copies may bring revisions older than the destination's latest
  Dormant,               \* the snapshot id may count as dormant at the destination
  MayFail,               \* requests may fail, and chunks of the source be damaged
  MaxRuns                \* bound: copy commands

Main == "main"
Revision == 1..MaxRevision

ASSUME CopyAssumption ==
  /\ Main \notin Downloader
  /\ IsFiniteSet(Downloader) /\ Downloader /= {} /\ IsFiniteSet(Uploader) /\ Uploader /= {}
  /\ MaxRevision \in Nat /\ Refs \in [Revision -> SUBSET Chunk]
  /\ RawModes \subseteq BOOLEAN /\ OlderRevisions \in BOOLEAN /\ Dormant \in BOOLEAN /\ MayFail \in BOOLEAN

VARIABLES
  dUnadded, dCaller, dWorker, dQueue, dActive, dStopped, dFailed,  \* chunkDownloader
  uUnadded, uCaller, uWorker, uQueue, uActive, uStopped, uFailed,  \* chunkUploader
  exited,
  main,        \* where CopySnapshots is
  raw,         \* bitIdentical
  undecided,   \* chunks not looked up at the destination yet
  chunksToCopy,
  wanted,      \* revisions to be copied
  got,         \* got[c]: the content downloaded for c
  runs,
  sourceRevisions, damaged,           \* the source; chunks of it whose file is damaged
  chunkFiles, fossilFiles, revisions, \* the destination; files by chunk, and their content
  collections  \* the fossil collection of the destination, if there is one

dVars == <<dUnadded, dCaller, dWorker, dQueue, dActive, dStopped, dFailed>>
uVars == <<uUnadded, uCaller, uWorker, uQueue, uActive, uStopped, uFailed>>
copyVars == <<main, undecided, chunksToCopy, wanted, got>>
destVars == <<chunkFiles, fossilFiles, revisions, collections>>
sourceVars == <<raw, sourceRevisions, damaged>>
vars == <<dVars, uVars, exited, copyVars, runs, destVars, sourceVars>>

D == INSTANCE ChunkOperator WITH Caller <- {Main}, Worker <- Downloader, Task <- Chunk,
  unadded <- dUnadded, caller <- dCaller, worker <- dWorker, taskQueue <- dQueue,
  numberOfActiveTasks <- dActive, stopped <- dStopped, failed <- dFailed
U == INSTANCE ChunkOperator WITH Caller <- Downloader \union {Main}, Worker <- Uploader, Task <- Chunk,
  unadded <- uUnadded, caller <- uCaller, worker <- uWorker, taskQueue <- uQueue,
  numberOfActiveTasks <- uActive, stopped <- uStopped, failed <- uFailed

(* What a chunk file can hold; "empty" is a file of length 0. *)
Content == {"none", "empty", "good", "damaged"}

TypeOK ==
  /\ D!TypeOK /\ U!TypeOK
  /\ main \in {"plan", "decide", "copy", "snapshots", "done"}
  /\ undecided \subseteq Chunk /\ chunksToCopy \subseteq Chunk /\ wanted \subseteq sourceRevisions
  /\ got \in [Chunk -> Content]
  /\ sourceRevisions \subseteq Revision /\ damaged \subseteq Chunk
  /\ chunkFiles \in [Chunk -> Content] /\ fossilFiles \in [Chunk -> Content]
  /\ revisions \subseteq Revision
  /\ \A k \in collections : k.fossils \subseteq Chunk /\ k.deleted \subseteq Revision

RefsOf(R) == UNION {Refs[r] : r \in R}
Latest(R) == IF R = {} THEN 0 ELSE CHOOSE r \in R : \A s \in R : s <= r

StartCopy == main = "plan" /\ undecided = {} /\ chunksToCopy = {} /\ wanted = {} /\ got = [c \in Chunk |-> "none"]

(* The destination holds the revisions up to some one, and may hold chunks *)
(* no snapshot uses: left by an earlier copy that did not finish, or by    *)
(* an upload that a crash tore.                                            *)
Init ==
  /\ D!Init /\ U!Init
  /\ StartCopy /\ runs = 1
  /\ raw \in RawModes
  /\ sourceRevisions \in {1..n : n \in 1..MaxRevision}
  /\ damaged \in IF MayFail THEN SUBSET Chunk ELSE {{}}
  /\ \/ revisions = 1..(Cardinality(sourceRevisions) - 1)
     \/ OlderRevisions /\ revisions = {Cardinality(sourceRevisions)}
  /\ chunkFiles \in [Chunk -> {"none", "empty", "good"}]
  /\ \A c \in RefsOf(revisions) : chunkFiles[c] = "good"
  /\ fossilFiles = [c \in Chunk |-> "none"]
  /\ collections = {}

-----------------------------------------------------------------------------
(* The main goroutine. *)

(* The revisions of the source that the destination does not have, and the *)
(* chunks they reference: all, which brings back what was pruned at the    *)
(* destination, those that -r names, which may be older than all it has,   *)
(* or those that are new.                                                  *)
Plan ==
  /\ main = "plan"
  /\ \E R \in IF OlderRevisions THEN {sourceRevisions} \union {{r} : r \in sourceRevisions}
              ELSE {{r \in sourceRevisions : \A s \in revisions : s < r}} :
       /\ wanted' = R \ revisions
       /\ undecided' = RefsOf(R \ revisions)
       /\ main' = IF R \subseteq revisions THEN "done" ELSE "decide"
  /\ UNCHANGED <<dVars, uVars, exited, chunksToCopy, got, runs, destVars, sourceVars>>

(* Mutant: a file of length 0 counts as present. *)
LacksChunkAnySize(c) == chunkFiles[c] = "none"

LacksChunk(c) == chunkFiles[c] \in {"none", "empty"}

(* One chunk is looked up, or comes up in the listing. *)
Decide(c) ==
  /\ main = "decide" /\ c \in undecided
  /\ undecided' = undecided \ {c}
  /\ chunksToCopy' = IF LacksChunk(c) THEN chunksToCopy \union {c} ELSE chunksToCopy
  /\ main' = IF undecided = {c} THEN "copy" ELSE main
  /\ UNCHANGED <<dVars, uVars, exited, wanted, got, runs, destVars, sourceVars>>

AllAdded == chunksToCopy \intersect dUnadded = {}

(* DownloadAsync for every chunk to be copied, then chunkDownloader.Stop. *)
DownloadAsync ==
  /\ main = "copy"
  /\ \/ \E c \in chunksToCopy : D!AddTask(Main, c, FALSE)
     \/ D!HandOver(Main)
     \/ AllAdded /\ ~dCaller[Main].stop /\ D!Wait(Main, TRUE)
     \/ D!CheckIdle(Main)
     \/ \E w \in Downloader : D!SendStop(Main, w)
  /\ UNCHANGED <<uVars, copyVars, runs, destVars, sourceVars>>

(* Mutant: chunkUploader is stopped as soon as every download is queued. *)
MayStopUploaderEarly == AllAdded

(* The first Stop has returned. *)
MayStopUploader == dCaller[Main].pc = "stopped"

StopUploader ==
  /\ main = "copy" /\ MayStopUploader
  /\ \/ ~uCaller[Main].stop /\ U!Wait(Main, TRUE) /\ UNCHANGED main
     \/ U!CheckIdle(Main) /\ UNCHANGED main
     \/ \E w \in Uploader :
          /\ U!SendStop(Main, w)
          /\ main' = IF uCaller'[Main].pc = "stopped" /\ dCaller[Main].pc = "stopped" THEN "snapshots" ELSE main
  /\ UNCHANGED <<dVars, undecided, chunksToCopy, wanted, got, runs, destVars, sourceVars>>

(* The snapshot files, in the order of the revisions. *)
UploadSnapshot ==
  /\ main = "snapshots"
  /\ \E r \in wanted :
       /\ \A s \in wanted : r <= s
       /\ revisions' = revisions \union {r}
       /\ wanted' = wanted \ {r}
       /\ main' = IF wanted = {r} THEN "done" ELSE main
  /\ UNCHANGED <<dVars, uVars, exited, undecided, chunksToCopy, got, runs, chunkFiles, fossilFiles,
                 collections, sourceVars>>

-----------------------------------------------------------------------------
(* The workers. *)

TakeDownload(w) == D!TakeTask(w) /\ UNCHANGED <<uVars, copyVars, runs, destVars, sourceVars>>

TakeUpload(w) == U!TakeTask(w) /\ UNCHANGED <<dVars, copyVars, runs, destVars, sourceVars>>

(* Mutant: the content is not compared with the chunk's id. *)
AcceptedAlways(c) == TRUE

(* Decrypt and the comparison of the ids; a copy of the stored bytes makes *)
(* neither.                                                                *)
Accepted(c) == raw \/ c \notin damaged

(* DownloadChunk succeeds, and the completion function gets a buffer of    *)
(* the other config and calls Upload, as far as the count.                 *)
Fetch(w) ==
  /\ dWorker[w].pc = "running"
  /\ \E c \in dWorker[w].tasks :
       /\ c \in uUnadded
       /\ Accepted(c)
       /\ got' = [got EXCEPT ![c] = IF c \in damaged THEN "damaged" ELSE "good"]
       /\ U!AddTask(w, c, FALSE)
  /\ UNCHANGED <<dVars, main, undecided, chunksToCopy, wanted, runs, destVars, sourceVars>>

(* Upload blocks while the uploader's queue is full. *)
PassToUploader(w) == U!HandOver(w) /\ UNCHANGED <<dVars, copyVars, runs, destVars, sourceVars>>

FetchDone(w) ==
  /\ dWorker[w].tasks \intersect uUnadded = {} /\ uCaller[w].pc = "ready"
  /\ D!Complete(w)
  /\ UNCHANGED <<uVars, copyVars, runs, destVars, sourceVars>>

FetchFails(w) ==
  /\ MayFail
  /\ dWorker[w].tasks \subseteq uUnadded
  /\ D!Panic(w)
  /\ UNCHANGED <<uVars, copyVars, runs, destVars, sourceVars>>

(* UploadChunk with skipChunkCheck: the file is written whatever is there. *)
Put(w) ==
  /\ U!Complete(w)
  /\ \E c \in uWorker[w].tasks : chunkFiles' = [chunkFiles EXCEPT ![c] = got[c]]
  /\ UNCHANGED <<dVars, copyVars, runs, fossilFiles, revisions, collections, sourceVars>>

PutFails(w) ==
  /\ MayFail /\ U!Panic(w)
  /\ UNCHANGED <<dVars, copyVars, runs, destVars, sourceVars>>

DownloaderEnds(w) ==
  (D!Finish(w) \/ D!Exit(w)) /\ UNCHANGED <<uVars, copyVars, runs, destVars, sourceVars>>

UploaderEnds(w) ==
  (U!Finish(w) \/ U!Exit(w)) /\ UNCHANGED <<dVars, copyVars, runs, destVars, sourceVars>>

-----------------------------------------------------------------------------
(* The command is killed, or LOG_ERROR ends it in the main goroutine. *)
Kill ==
  /\ MayFail
  /\ main \notin {"plan", "done"} /\ runs < MaxRuns
  /\ exited' = TRUE
  /\ UNCHANGED <<dVars, uVars, copyVars, runs, destVars, sourceVars>>

(* Copy is run again. *)
Rerun ==
  /\ exited \/ main = "done"
  /\ runs < MaxRuns /\ runs' = runs + 1
  /\ exited' = FALSE
  /\ dUnadded' = Chunk /\ dCaller' = [c \in {Main} |-> D!ReadyCaller] /\ dWorker' = [w \in Downloader |-> D!IdleWorker]
  /\ dQueue' = <<>> /\ dActive' = 0 /\ dStopped' = FALSE /\ dFailed' = {}
  /\ uUnadded' = Chunk /\ uCaller' = [c \in Downloader \union {Main} |-> U!ReadyCaller]
  /\ uWorker' = [w \in Uploader |-> U!IdleWorker]
  /\ uQueue' = <<>> /\ uActive' = 0 /\ uStopped' = FALSE /\ uFailed' = {}
  /\ main' = "plan" /\ undecided' = {} /\ chunksToCopy' = {} /\ wanted' = {} /\ got' = [c \in Chunk |-> "none"]
  /\ UNCHANGED <<destVars, sourceVars>>

(* A backup adds a revision to the source. *)
BackupSource ==
  /\ Latest(sourceRevisions) < MaxRevision
  /\ sourceRevisions' = sourceRevisions \union {Latest(sourceRevisions) + 1}
  /\ UNCHANGED <<dVars, uVars, exited, copyVars, runs, destVars, raw, damaged>>

(* The first step of prune at the destination, from its listing to the     *)
(* deletion of the snapshots (LockFreeDedup has it step by step).  The     *)
(* revisions made by then end before the collection does.                  *)
PruneCollect(del) ==
  /\ collections = {} /\ revisions /= {}
  /\ del \subseteq revisions \ {Latest(revisions)}
  /\ LET F == {c \in Chunk : chunkFiles[c] /= "none"} \ RefsOf(revisions \ del)
     IN /\ F /= {} \/ del /= {}
        /\ fossilFiles' = [c \in Chunk |-> IF c \in F THEN chunkFiles[c] ELSE fossilFiles[c]]
        /\ chunkFiles' = [c \in Chunk |-> IF c \in F THEN "none" ELSE chunkFiles[c]]
        /\ collections' = {[fossils |-> F, last |-> Latest(revisions), deleted |-> del, ended |-> sourceRevisions]}
  /\ revisions' = revisions \ del
  /\ UNCHANGED <<dVars, uVars, exited, copyVars, runs, sourceVars>>

(* The snapshots IsDeletable looks at: those after the last one known to   *)
(* the collection, to the first that ended later.                          *)
NewTo(k) ==
  {r \in revisions : r > k.last /\ \A s \in revisions : s > k.last /\ s \notin k.ended => r <= s}

IsDeletable(k) == Dormant \/ \E r \in revisions : r > k.last /\ r \notin k.ended

IsGhost(k) == k.deleted \intersect revisions /= {}

(* The second step: fossils of new snapshots are renamed back, or removed  *)
(* where the chunk exists again, and the others are deleted.               *)
PruneReap(k) ==
  /\ k \in collections
  /\ IsGhost(k) \/ IsDeletable(k)
  /\ collections' = {}
  /\ LET kept == IF IsGhost(k) THEN {} ELSE k.fossils \intersect RefsOf(NewTo(k))
         gone == IF IsGhost(k) THEN {} ELSE k.fossils
     IN /\ chunkFiles' = [c \in Chunk |-> IF c \in kept /\ chunkFiles[c] = "none" THEN fossilFiles[c] ELSE chunkFiles[c]]
        /\ fossilFiles' = [c \in Chunk |-> IF c \in gone THEN "none" ELSE fossilFiles[c]]
  /\ UNCHANGED <<dVars, uVars, exited, copyVars, runs, revisions, sourceVars>>

-----------------------------------------------------------------------------
Goes ==
  \/ Plan \/ (\E c \in Chunk : Decide(c)) \/ DownloadAsync \/ StopUploader \/ UploadSnapshot
  \/ \E w \in Downloader : TakeDownload(w) \/ Fetch(w) \/ PassToUploader(w) \/ FetchDone(w) \/ FetchFails(w)
                           \/ DownloaderEnds(w)
  \/ \E w \in Uploader : TakeUpload(w) \/ Put(w) \/ PutFails(w) \/ UploaderEnds(w)

Around ==
  \/ BackupSource
  \/ (\E del \in SUBSET Revision : PruneCollect(del))
  \/ (\E k \in collections : PruneReap(k))

Next ==
  \/ ~exited /\ (Goes \/ Kill)
  \/ Rerun
  \/ Around

(* The goroutines go on and requests return; nobody has to run copy again, *)
(* back up or prune.                                                       *)
Spec == Init /\ [][Next]_vars /\ WF_vars(~exited /\ Goes)

-----------------------------------------------------------------------------
(* Whatever prune does at the destination while a copy runs, and however   *)
(* often copies are killed, a snapshot there has its chunks, in a chunk    *)
(* file or in a fossil that is not empty.                                  *)
CopiedIsReadable ==
  \A c \in RefsOf(revisions) : chunkFiles[c] \in {"good", "damaged"} \/ fossilFiles[c] \in {"good", "damaged"}

(* The same chunks are intact, unless the stored bytes are copied as they  *)
(* are, which passes on what is damaged at the source.                     *)
CopiedIsIntact == raw \/ \A c \in RefsOf(revisions) : "damaged" \notin {chunkFiles[c], fossilFiles[c]}

(* Snapshot files are written only after the last chunk: no upload of this *)
(* run is queued or under way, and none failed.                            *)
SnapshotsLast ==
  main = "snapshots" => /\ dFailed = {} /\ uFailed = {} /\ uQueue = <<>>
                        /\ \A c \in chunksToCopy : c \notin uUnadded
                        /\ \A w \in Uploader : uWorker[w].pc = "gone"

(* A copy ends or exits: the downloaders that wait for room in the         *)
(* uploader's queue, and the goroutine that waits for both, do not block   *)
(* each other.                                                             *)
CopyEnds == main = "copy" ~> exited \/ main /= "copy"

=============================================================================
