--------------------------- MODULE ChunkDownloader ---------------------------
(***************************************************************************)
(* Restore and its chunk downloader over the worker pool.  The main        *)
(* goroutine restores the files in the order of their chunks, in place;    *)
(* for each it prefetches chunks, as many as there are threads, and waits  *)
(* for those it has no local copy of.  A worker that downloaded a chunk    *)
(* hands it over on completionChannel, which is unbuffered: it stays with  *)
(* its task until the main goroutine, waiting for some chunk, receives.    *)
(***************************************************************************)
EXTENDS Integers, Sequences, FiniteSets

CONSTANTS
  Worker,         \* threads of the chunk operator
  MaxIndex,       \* bound: length of the longest taskList
  Layouts,        \* the file lists AddFiles may be called with
  PersistModes,   \* whether restore is run with -persist
  MayFail,        \* downloads and local writes may fail
  SharedExist     \* files may exist locally even if some share a chunk

Index == 1..MaxIndex

(* A file that is not empty, by its first and last chunk in taskList. *)
FileChunks == [startChunk : Index, endChunk : Index]

(* AddFiles numbers the chunks of the files one after the other; only the  *)
(* last chunk of a file may be the first one of the next, too.             *)
AddFiles(list) ==
  \A f \in DOMAIN list :
    /\ list[f].startChunk <= list[f].endChunk
    /\ IF f = 1 THEN list[f].startChunk = 1
       ELSE list[f].startChunk \in {list[f - 1].endChunk, list[f - 1].endChunk + 1}

ASSUME DownloaderAssumption ==
  /\ MaxIndex \in Nat /\ IsFiniteSet(Worker) /\ Worker /= {}
  /\ Layouts \subseteq Seq(FileChunks) /\ \A list \in Layouts : AddFiles(list)
  /\ PersistModes \subseteq BOOLEAN /\ PersistModes /= {} /\ MayFail \in BOOLEAN /\ SharedExist \in BOOLEAN

Main == "main"

VARIABLES
  unadded, caller, worker, taskQueue, numberOfActiveTasks, stopped, failed, exited,
  allowFailures,
  files,                \* the files to restore, none empty
  pc,
  file,                 \* the file being restored
  index,                \* the chunk of it being written
  localCopies,          \* its chunks that are in place in the existing file
  toFetch,              \* chunks DownloadAsync is still to be called for
  needed,               \* taskList[i].needed
  completedTasks,       \* chunks received and not reclaimed
  brokenChunks,         \* those of them that could not be downloaded
  lastChunkIndex,
  numberOfActiveChunks,
  failedFiles           \* failedFileCount > 0

Pool == INSTANCE ChunkOperator WITH Caller <- {Main}, Task <- Index,
                                    MayFail <- MayFail

poolVars == <<unadded, caller, worker, taskQueue, numberOfActiveTasks, stopped, failed, exited>>

downloaderVars == <<needed, completedTasks, brokenChunks, lastChunkIndex, numberOfActiveChunks>>

restoreVars == <<allowFailures, files, file, failedFiles>>

vars == <<poolVars, downloaderVars, restoreVars, pc, index, localCopies, toFetch>>

-----------------------------------------------------------------------------
(* The chunks of the files. *)

StartChunk(f) == files[f].startChunk

EndChunk(f) == files[f].endChunk

ChunksOfFile(f) == StartChunk(f)..EndChunk(f)

(* Chunks of more than one file, which AddFiles marks as needed. *)
SharedChunks == {StartChunk(f) : f \in {g \in DOMAIN files : g > 1 /\ StartChunk(g) = EndChunk(g - 1)}}

TypeOK ==
  /\ Pool!TypeOK
  /\ allowFailures \in BOOLEAN
  /\ pc \in {"files", "chunks", "receiving", "stopping", "returned"}
  /\ file \in 1..(Len(files) + 1)
  /\ index \in 0..MaxIndex
  /\ \A S \in {localCopies, toFetch, needed, completedTasks, brokenChunks} : S \subseteq Index
  /\ lastChunkIndex \in Index /\ numberOfActiveChunks \in Nat /\ failedFiles \in BOOLEAN

Init ==
  /\ Pool!Init
  /\ allowFailures \in PersistModes
  /\ files \in Layouts
  /\ pc = "files" /\ file = 1 /\ index = 0
  /\ localCopies = {} /\ toFetch = {}
  /\ needed = SharedChunks
  /\ completedTasks = {} /\ brokenChunks = {}
  /\ lastChunkIndex = 1 /\ numberOfActiveChunks = 0
  /\ failedFiles = FALSE

-----------------------------------------------------------------------------
(* The chunk downloader. *)

(* taskList[i].isDownloading is never reset. *)
IsDownloading(i) == i \notin unadded

FirstOf(n, S) == {i \in S : Cardinality({j \in S : j <= i}) <= n}

(* Mutant: the chunk asked for is reclaimed, too. *)
ReclaimableIncluding(i) == {j \in completedTasks : lastChunkIndex < i /\ j <= i}

Reclaimable(i) == {j \in completedTasks : lastChunkIndex < i /\ j < i}

(* Reclaim(i), and the requests that Prefetch or WaitForChunk then makes.  *)
(* Each counts as active when it is made; none of the counters changes     *)
(* between the first and the last of them.                                 *)
Reclaim(i) ==
  /\ completedTasks' = completedTasks \ Reclaimable(i)
  /\ brokenChunks' = brokenChunks \ Reclaimable(i)
  /\ numberOfActiveChunks' = numberOfActiveChunks - Cardinality(Reclaimable(i))
  /\ lastChunkIndex' = IF lastChunkIndex < i THEN i ELSE lastChunkIndex

Free == Cardinality(Worker) - numberOfActiveChunks'

(* Prefetch goes through the file and stops at the limit. *)
PrefetchRequests(f) == FirstOf(Free, {i \in ChunksOfFile(f) : i \in needed' /\ ~IsDownloading(i)})

(* Mutant: looking ahead is not limited. *)
LookAheadUnlimited(i, limit) ==
  {k \in Index : k > i /\ (\A j \in (i + 1)..k : j \in needed) /\ ~IsDownloading(k)}

(* WaitForChunk looks ahead to the chunks behind i, as far as all are      *)
(* needed.                                                                 *)
LookAhead(i, limit) ==
  FirstOf(limit, {k \in Index : k > i /\ (\A j \in (i + 1)..k : j \in needed) /\ ~IsDownloading(k)})

(* The chunk itself is requested whatever the limit. *)
WaitRequests(i) ==
  LET missing == {i} \intersect unadded
  IN missing \union LookAhead(i, Free - Cardinality(missing))

(* DownloadAsync: AddTask, and its send to the task queue. *)
Fetch ==
  /\ \E i \in FirstOf(1, toFetch) :
       /\ Pool!AddTask(Main, i, FALSE)
       /\ toFetch' = toFetch \ {i}
  /\ numberOfActiveChunks' = numberOfActiveChunks + 1
  /\ UNCHANGED <<restoreVars, pc, index, localCopies, needed, completedTasks, brokenChunks, lastChunkIndex>>

HandOver ==
  /\ Pool!HandOver(Main)
  /\ UNCHANGED <<restoreVars, downloaderVars, pc, index, localCopies, toFetch>>

(* The main goroutine is not inside DownloadAsync, nor about to call it. *)
Ready == toFetch = {} /\ caller[Main].pc = "ready"

(* A worker gives the chunk it downloaded to the main goroutine, which     *)
(* waits for some chunk.  With -persist a chunk that could not be          *)
(* downloaded is given, too.                                               *)
Deliver(w) ==
  /\ pc = "receiving" /\ Ready /\ index \notin completedTasks
  /\ Pool!Complete(w)
  /\ completedTasks' = completedTasks \union worker[w].tasks
  /\ \/ UNCHANGED brokenChunks
     \/ allowFailures /\ MayFail /\ brokenChunks' = brokenChunks \union worker[w].tasks
  /\ UNCHANGED <<restoreVars, pc, index, localCopies, toFetch, needed, lastChunkIndex, numberOfActiveChunks>>

-----------------------------------------------------------------------------
(* The loop of Restore over the files, and RestoreFile. *)

NextFile(fails) ==
  /\ pc' = "files" /\ file' = file + 1 /\ index' = 0 /\ localCopies' = {}
  /\ failedFiles' = (failedFiles \/ fails)
  /\ UNCHANGED <<allowFailures, files>>

MayExist == SharedExist \/ SharedChunks = {}

(* The file is unchanged, or -overwrite is missing. *)
SkipFile ==
  /\ pc = "files" /\ file \in DOMAIN files
  /\ MayExist
  /\ \E fails \in {FALSE, allowFailures} : NextFile(fails)
  /\ UNCHANGED <<poolVars, downloaderVars, toFetch>>

(* Mutant: local copies are not considered. *)
NeededForAll(f, known) == needed \union ChunksOfFile(f)

NeededFor(f, known) == needed \union (ChunksOfFile(f) \ known)

(* 'known' are the chunks whose hash is in offsetMap, somewhere in the     *)
(* existing file; the ones in 'local' are where they belong and as long as *)
(* the file's part of the chunk.                                           *)
StartFile ==
  /\ pc = "files" /\ file \in DOMAIN files
  /\ pc' = "chunks" /\ index' = StartChunk(file)
  /\ \E known \in SUBSET ChunksOfFile(file) : \E local \in SUBSET known :
       /\ known = {} \/ MayExist
       /\ localCopies' = local
       /\ needed' = NeededFor(file, known)
  /\ Reclaim(StartChunk(file))
  /\ toFetch' = PrefetchRequests(file)
  /\ UNCHANGED <<poolVars, restoreVars>>

(* The chunk 'index' is written; after the last one the hash is compared. *)
ChunkDone ==
  IF index < EndChunk(file)
  THEN /\ pc' = "chunks" /\ index' = index + 1
       /\ UNCHANGED <<restoreVars, localCopies>>
  ELSE \E fails \in {FALSE, allowFailures /\ MayFail} : NextFile(fails)

UseLocalCopy ==
  /\ pc = "chunks" /\ Ready
  /\ index \in localCopies
  /\ ChunkDone
  /\ UNCHANGED <<poolVars, downloaderVars, toFetch>>

WaitForChunk ==
  /\ pc = "chunks" /\ Ready
  /\ index \notin localCopies
  /\ pc' = "receiving"
  /\ Reclaim(index)
  /\ toFetch' = WaitRequests(index)
  /\ UNCHANGED <<poolVars, restoreVars, index, localCopies, needed>>

(* A broken chunk ends the file; what was requested for it stays so. *)
TakeChunk ==
  /\ pc = "receiving" /\ Ready /\ index \in completedTasks
  /\ IF index \in brokenChunks THEN NextFile(TRUE) ELSE ChunkDone
  /\ UNCHANGED <<poolVars, downloaderVars, toFetch>>

(* The end of Restore: the operator is stopped unless a file failed. *)
FilesDone ==
  /\ pc = "files" /\ file = Len(files) + 1
  /\ IF failedFiles THEN pc' = "returned" /\ UNCHANGED poolVars
     ELSE pc' = "stopping" /\ Pool!Wait(Main, TRUE)
  /\ UNCHANGED <<downloaderVars, restoreVars, index, localCopies, toFetch>>

(* LOG_ERROR in the main goroutine, say because a local file cannot be     *)
(* written, or the user stops the process.  Nothing makes it happen.       *)
MainError ==
  /\ MayFail
  /\ exited' = TRUE
  /\ UNCHANGED <<unadded, caller, worker, taskQueue, numberOfActiveTasks, stopped, failed,
                 downloaderVars, restoreVars, pc, index, localCopies, toFetch>>

-----------------------------------------------------------------------------
(* What the pool does by itself. *)
PoolFrame == UNCHANGED <<downloaderVars, restoreVars, pc, index, localCopies, toFetch>>

MainRuns ==
  \/ Fetch \/ HandOver
  \/ SkipFile \/ StartFile \/ UseLocalCopy \/ WaitForChunk \/ TakeChunk \/ FilesDone
  \/ (Pool!CheckIdle(Main) \/ \E w \in Worker : Pool!SendStop(Main, w)) /\ PoolFrame

WorkerRuns(w) ==
  \/ Deliver(w)
  \/ (Pool!TakeTask(w) \/ Pool!Finish(w) \/ Pool!Exit(w)) /\ PoolFrame

(* A download ends in LOG_ERROR; with -persist it is a warning. *)
DownloadError(w) == ~allowFailures /\ Pool!Panic(w) /\ PoolFrame

Ended == exited \/ pc = "returned" \/ caller[Main].pc = "stopped"

Next ==
  \/ ~exited /\ (MainRuns \/ MainError \/ \E w \in Worker : WorkerRuns(w) \/ DownloadError(w))
  \/ Ended /\ UNCHANGED vars

(* Goroutines that can run do, and a download ends.  Errors need not occur. *)
Fairness ==
  /\ WF_vars(~exited /\ MainRuns)
  /\ \A w \in Worker : WF_vars(~exited /\ WorkerRuns(w))

Spec == Init /\ [][Next]_vars /\ Fairness

-----------------------------------------------------------------------------
(* Chunks that are somewhere in the pool. *)
InFlight ==
  caller[Main].tasks
    \union {taskQueue[n] : n \in DOMAIN taskQueue}
    \union (UNION {worker[w].tasks : w \in {v \in Worker : worker[v].pc = "running"}})

(* numberOfActiveChunks, which is counted up by requests and down by       *)
(* Reclaim, is the number of chunks in the pool and in memory, whatever    *)
(* files failed in between; it exceeds the number of threads by one at     *)
(* most, for a chunk that was waited for without being needed.             *)
ActiveBounded ==
  exited \/ Pool!Stopping \/ failed /= {} \/
    /\ numberOfActiveChunks = Cardinality(InFlight \union completedTasks)
    /\ numberOfActiveChunks <= Cardinality(Worker) + 1

(* The chunk awaited is on its way or there: it is neither reclaimed nor   *)
(* believed to be downloading when it is not.                              *)
AwaitedIsComing ==
  pc = "receiving" => exited \/ failed /= {} \/ index \in toFetch \union InFlight \union completedTasks

(* Restore ends: every chunk awaited arrives, and once all files are done  *)
(* the pool can be stopped.                                                *)
RestoreEnds == <>Ended

=============================================================================
