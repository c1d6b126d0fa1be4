---------------------------- MODULE VerifyChunks ----------------------------
(***************************************************************************)
(* check -chunks: goroutines download chunks through the worker pool and   *)
(* record those that are intact as verified.  Chunk contents live in       *)
(* buffers, which a free list hands out and takes back; a worker downloads *)
(* into a buffer and passes it to the goroutine that asked for the chunk.  *)
(***************************************************************************)
EXTENDS Integers, Sequences, FiniteSets

CONSTANTS
  Verifier,      \* goroutines that verify chunks
  Worker,        \* threads of the chunk operator
  Chunk,         \* chunks not verified by earlier checks
  PersistModes,  \* whether check is run with -persist
  MayFail        \* an intact chunk may fail to download

Main == "main"

ASSUME VerifyAssumption ==
  /\ Main \notin Verifier
  /\ IsFiniteSet(Verifier) /\ Verifier /= {} /\ IsFiniteSet(Worker) /\ Worker /= {}
  /\ PersistModes \subseteq BOOLEAN /\ PersistModes /= {}
  /\ MayFail \in BOOLEAN

VARIABLES
  unadded, caller, worker, taskQueue, numberOfActiveTasks, stopped, failed, exited,
  allowFailures,
  corrupt,               \* chunks whose file is damaged or missing
  verifier,              \* verifier[v]: what the goroutine v is doing
  download,              \* download[w]: the buffer of the worker w
  chunkPool,             \* the free list, first in, first out
  numberOfChunks,        \* buffers that have been created: 1..numberOfChunks
  content,               \* content[b]: the chunk last written to the buffer b
  isBroken,              \* the buffers whose isBroken is set
  numberOfFailedChunks,
  verifiedChunks,
  result                 \* what the check reports

Pool == INSTANCE ChunkOperator WITH Caller <- Verifier \union {Main}, Task <- Chunk,
                                    MayFail <- TRUE

poolVars == <<unadded, caller, worker, taskQueue, numberOfActiveTasks, stopped, failed, exited>>

bufferVars == <<chunkPool, numberOfChunks, content, isBroken>>

checkVars == <<allowFailures, corrupt, verifiedChunks, result>>

vars == <<poolVars, bufferVars, checkVars, verifier, download, numberOfFailedChunks>>

(* A goroutine has at most one chunk on its way, and a buffer nobody uses  *)
(* is in the pool, so that no more than these are created.                 *)
Buffer == 1..Cardinality(Verifier)

VerifierState == [pc : {"idle", "downloading", "received", "judged", "done"},
                  chunks : SUBSET Chunk, buffers : SUBSET Buffer]

(* "returning": DownloadChunk is about to run its deferred function. *)
DownloadState == [pc : {"none", "reading", "checking", "returning"}, buffers : SUBSET Buffer]

TypeOK ==
  /\ Pool!TypeOK
  /\ allowFailures \in BOOLEAN /\ corrupt \subseteq Chunk /\ verifiedChunks \subseteq Chunk
  /\ verifier \in [Verifier -> VerifierState] /\ download \in [Worker -> DownloadState]
  /\ chunkPool \in Seq(Buffer) /\ numberOfChunks \in Buffer \union {0}
  /\ content \in [Buffer -> SUBSET Chunk] /\ isBroken \subseteq Buffer
  /\ numberOfFailedChunks \in Nat
  /\ result \in {"none", "verified", "corrupted"}

IdleVerifier == [pc |-> "idle", chunks |-> {}, buffers |-> {}]

NoDownload == [pc |-> "none", buffers |-> {}]

Init ==
  /\ Pool!Init
  /\ allowFailures \in PersistModes
  /\ corrupt \in SUBSET Chunk
  /\ verifier = [v \in Verifier |-> IdleVerifier]
  /\ download = [w \in Worker |-> NoDownload]
  /\ chunkPool = <<>> /\ numberOfChunks = 0
  /\ content = [b \in Buffer |-> {}] /\ isBroken = {}
  /\ numberOfFailedChunks = 0
  /\ verifiedChunks = {}
  /\ result = "none"

-----------------------------------------------------------------------------
(* Config.GetChunk and PutChunk. *)

(* The buffer b is taken from the free list, or created, and reset. *)
GetChunk(b) ==
  /\ IF chunkPool = <<>>
     THEN b = numberOfChunks + 1 /\ numberOfChunks' = b /\ UNCHANGED chunkPool
     ELSE b = Head(chunkPool) /\ chunkPool' = Tail(chunkPool) /\ UNCHANGED numberOfChunks
  /\ content' = [content EXCEPT ![b] = {}]
  /\ isBroken' = isBroken \ {b}

PutChunk(b) ==
  /\ chunkPool' = Append(chunkPool, b)
  /\ UNCHANGED <<numberOfChunks, content, isBroken>>

-----------------------------------------------------------------------------
(* DownloadChunk on a worker. *)

StartDownload(w) ==
  /\ Pool!TakeTask(w)
  /\ \E b \in 1..(numberOfChunks + 1) :
       /\ GetChunk(b)
       /\ download' = [download EXCEPT ![w] = [pc |-> "reading", buffers |-> {b}]]
  /\ UNCHANGED <<checkVars, verifier, numberOfFailedChunks>>

ReadFile(w) ==
  /\ download[w].pc = "reading"
  /\ \E b \in download[w].buffers : content' = [content EXCEPT ![b] = worker[w].tasks]
  /\ download' = [download EXCEPT ![w].pc = "checking"]
  /\ UNCHANGED <<poolVars, checkVars, chunkPool, numberOfChunks, isBroken, verifier, numberOfFailedChunks>>

(* The buffer holds the chunk asked for, by its id. *)
Intact(w) ==
  /\ \A b \in download[w].buffers : content[b] = worker[w].tasks
  /\ worker[w].tasks \intersect corrupt = {}

(* Mutant: the chunk that failed is not passed on. *)
PassOnIntact(w) ==
  /\ worker[w].pc = "running"
  /\ worker' = [worker EXCEPT ![w].pc = "finishing"]
  /\ LET taken == {v \in Verifier : Intact(w) /\ caller[v].pc = "receiving" /\ caller[v].tasks = worker[w].tasks}
     IN /\ caller' = [c \in DOMAIN caller |-> IF c \in taken THEN Pool!ReadyCaller ELSE caller[c]]
        /\ verifier' = [v \in Verifier |->
             IF v \in taken THEN [verifier[v] EXCEPT !.pc = "received", !.buffers = download[w].buffers]
             ELSE verifier[v]]
  /\ UNCHANGED <<unadded, taskQueue, numberOfActiveTasks, stopped, failed, exited>>

(* completionFunc: the goroutine that waits for the task gets the buffer. *)
PassOn(w) ==
  /\ Pool!Complete(w)
  /\ verifier' = [v \in Verifier |->
       IF caller[v].pc = "receiving" /\ caller[v].tasks = worker[w].tasks
       THEN [verifier[v] EXCEPT !.pc = "received", !.buffers = download[w].buffers]
       ELSE verifier[v]]

(* The deferred function finds chunk = nil. *)
DownloadDone(w) ==
  /\ download[w].pc = "checking" /\ Intact(w)
  /\ PassOn(w)
  /\ download' = [download EXCEPT ![w] = NoDownload]
  /\ UNCHANGED <<bufferVars, checkVars, numberOfFailedChunks>>

(* Mutant: the failed chunk is not counted. *)
FailuresUncounted == numberOfFailedChunks

Failures == numberOfFailedChunks + 1

(* completeFailedChunk, and LOG_WERROR.  Here 'chunk' is not set to nil.   *)
DownloadFailed(w) ==
  /\ download[w].pc = "checking" /\ (~Intact(w) \/ MayFail)
  /\ numberOfFailedChunks' = Failures
  /\ IF allowFailures
     THEN PassOn(w) /\ isBroken' = isBroken \union download[w].buffers
     ELSE Pool!Panic(w) /\ UNCHANGED <<verifier, isBroken>>
  /\ download' = [download EXCEPT ![w].pc = "returning"]
  /\ UNCHANGED <<checkVars, chunkPool, numberOfChunks, content>>

DownloadReturns(w) ==
  /\ download[w].pc = "returning"
  /\ \E b \in download[w].buffers : PutChunk(b)
  /\ download' = [download EXCEPT ![w] = NoDownload]
  /\ UNCHANGED <<poolVars, checkVars, verifier, numberOfFailedChunks>>

(* Run's deferred function, or the exit of the process. *)
RunEnds(w) ==
  /\ download[w].pc = "none"
  /\ Pool!Finish(w) \/ Pool!Exit(w)
  /\ UNCHANGED <<bufferVars, checkVars, verifier, download, numberOfFailedChunks>>

-----------------------------------------------------------------------------
(* The goroutines, and CheckSnapshots waiting for them. *)

VerifyNext(v) ==
  /\ verifier[v].pc = "idle"
  /\ \E c \in unadded :
       /\ Pool!AddTask(v, c, TRUE)
       /\ verifier' = [verifier EXCEPT ![v].pc = "downloading", ![v].chunks = {c}]
  /\ UNCHANGED <<bufferVars, checkVars, download, numberOfFailedChunks>>

(* The task queue takes the task. *)
Enqueue(v) ==
  /\ Pool!HandOver(v)
  /\ UNCHANGED <<bufferVars, checkVars, verifier, download, numberOfFailedChunks>>

(* What is recorded about the chunk received. *)
Judged(v) == IF verifier[v].buffers \intersect isBroken = {} THEN verifier[v].chunks ELSE {}

Judge(v) ==
  /\ verifier[v].pc = "received"
  /\ verifiedChunks' = verifiedChunks \union Judged(v)
  /\ verifier' = [verifier EXCEPT ![v].pc = "judged"]
  /\ UNCHANGED <<poolVars, bufferVars, allowFailures, corrupt, result, download, numberOfFailedChunks>>

ReturnChunk(v) ==
  /\ verifier[v].pc = "judged"
  /\ \E b \in verifier[v].buffers : PutChunk(b)
  /\ verifier' = [verifier EXCEPT ![v] = IdleVerifier]
  /\ UNCHANGED <<poolVars, checkVars, download, numberOfFailedChunks>>

(* chunkChannel is closed and empty. *)
VerifierDone(v) ==
  /\ verifier[v].pc = "idle" /\ unadded = {}
  /\ verifier' = [verifier EXCEPT ![v].pc = "done"]
  /\ UNCHANGED <<poolVars, bufferVars, checkVars, download, numberOfFailedChunks>>

(* wg.Wait, and WaitForCompletion. *)
AllDone == \A v \in Verifier : verifier[v].pc = "done"

WaitForAll ==
  /\ AllDone /\ result = "none"
  /\ caller[Main].pc = "ready" => numberOfActiveTasks > 0
  /\ Pool!Wait(Main, FALSE) \/ Pool!CheckIdle(Main)
  /\ UNCHANGED <<bufferVars, checkVars, verifier, download, numberOfFailedChunks>>

(* What is verified is saved; LOG_ERROR saves it, too (RunAtError). *)
Report ==
  /\ AllDone /\ result = "none"
  /\ caller[Main].pc = "ready" /\ numberOfActiveTasks = 0
  /\ result' = IF numberOfFailedChunks > 0 THEN "corrupted" ELSE "verified"
  /\ UNCHANGED <<poolVars, bufferVars, allowFailures, corrupt, verifiedChunks, verifier, download,
                 numberOfFailedChunks>>

(* The user stops the check: the signal handler saves what is verified.    *)
Interrupt ==
  /\ exited' = TRUE
  /\ UNCHANGED <<unadded, caller, worker, taskQueue, numberOfActiveTasks, stopped, failed,
                 bufferVars, checkVars, verifier, download, numberOfFailedChunks>>

-----------------------------------------------------------------------------
WorkerRuns(w) ==
  StartDownload(w) \/ ReadFile(w) \/ DownloadDone(w) \/ DownloadFailed(w) \/ DownloadReturns(w) \/ RunEnds(w)

VerifierRuns(v) == VerifyNext(v) \/ Enqueue(v) \/ Judge(v) \/ ReturnChunk(v) \/ VerifierDone(v)

Ended == exited \/ result /= "none"

Next ==
  \/ /\ ~Ended
     /\ \/ \E w \in Worker : WorkerRuns(w)
        \/ \E v \in Verifier : VerifierRuns(v)
        \/ WaitForAll \/ Report \/ Interrupt
  \/ Ended /\ UNCHANGED vars

(* Goroutines that can run do, and a download ends.  Nobody need interrupt *)
(* the check.                                                              *)
Fairness ==
  /\ \A w \in Worker : WF_vars(~Ended /\ WorkerRuns(w))
  /\ \A v \in Verifier : WF_vars(~Ended /\ VerifierRuns(v))
  /\ WF_vars(~Ended /\ (WaitForAll \/ Report))

Spec == Init /\ [][Next]_vars /\ Fairness

-----------------------------------------------------------------------------
Holders(b) ==
  {n \in DOMAIN chunkPool : chunkPool[n] = b}
    \union {w \in Worker : b \in download[w].buffers}
    \union {v \in Verifier : b \in verifier[v].buffers}

(* As long as no download has failed, a buffer is in one place: in the     *)
(* free list, with a worker or with a goroutine.                           *)
OneHolder ==
  numberOfFailedChunks = 0 =>
    \A b \in 1..numberOfChunks : Cardinality(Holders(b)) = 1

(* The check reports that all chunks are verified only if each of them is  *)
(* intact and recorded.                                                    *)
SuccessIsTrue == result = "verified" => corrupt = {} /\ verifiedChunks = Chunk

(* Only intact chunks are recorded as verified: later checks skip them.    *)
VerifiedAreIntact == verifiedChunks \intersect corrupt = {}

(* The check ends. *)
CheckEnds == <>Ended

=============================================================================
