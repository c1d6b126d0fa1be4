----------------------------- MODULE ChunkReads -----------------------------
(***************************************************************************)
(* DownloadChunk: how a chunk is read, through the local snapshot cache,   *)
(* from its file or from its fossil, with the attempts it makes and the    *)
(* rewrite of what could be recovered, while backups, prune and other      *)
(* readers change the same files.  Every call to the storage or the cache  *)
(* is a step of its own.                                                   *)
(***************************************************************************)
EXTENDS ChunkCoding

CONSTANTS
  Chunk,
  Reader,     \* workers that download, of one or of several commands
  Damaged,    \* the chunk files there may be at the beginning
  Givens,     \* what may be given: see the variable
  MaxFaults   \* how often one download may be denied a file or get wrong bytes

ASSUME ReadsAssumption ==
  /\ Damaged \subseteq File /\ MaxFaults \in Nat
  /\ Givens \subseteq [kind : {"hubic", "webdav", "other"}, pruning : BOOLEAN, metadata : SUBSET Chunk,
                       readers : SUBSET Reader]

VARIABLES
  chunkFile, fossilFile,  \* the files of a chunk, NoFile where there is none
  cache,                  \* the entry of the local snapshot cache
  reader,                 \* the downloads
  resurrect,              \* what prune's Resurrect task has seen of the chunk file
  given                   \* fixed at the start: the kind of the storage ("hubic" and "webdav" may
                          \* deny a file that exists), whether prune runs, which chunks are
                          \* metadata, and which workers there are

fileVars == <<chunkFile, fossilFile>>
readVars == <<chunkFile, fossilFile, cache, reader, resurrect, given>>

MaxDownloadAttempts == 3

IdleReader ==
  [pc |-> "idle", chunk |-> CHOOSE c \in Chunk : TRUE, attempt |-> 0, path |-> "chunk",
   rewriteChunks |-> FALSE, buffer |-> "empty", excused |-> FALSE, result |-> "none"]

(* The file FindChunk leads a reader to. *)
Served(c) == IF chunkFile[c] /= NoFile THEN chunkFile[c] ELSE fossilFile[c]

ReadsInit ==
  /\ given \in Givens
  /\ \E f \in [Chunk -> Damaged], F \in SUBSET Chunk :
       /\ given.pruning => \A c \in Chunk : Recoverable(f[c])
       /\ chunkFile = [c \in Chunk |-> IF c \in F THEN NoFile ELSE f[c]]
       /\ fossilFile = [c \in Chunk |-> IF c \in F THEN f[c] ELSE NoFile]
  /\ cache = [c \in Chunk |-> "none"]
  /\ reader = [r \in Reader |-> IdleReader]
  /\ resurrect = [c \in Chunk |-> "none"]

(* Whoever reads c is excused from now on: its file was moved meanwhile. *)
Excuse(R, c) == [r \in Reader |-> IF R[r].chunk = c /\ R[r].pc /= "idle" THEN [R[r] EXCEPT !.excused = TRUE] ELSE R[r]]

Goes(r, pc) == reader' = [reader EXCEPT ![r].pc = pc]

-----------------------------------------------------------------------------
(* The ways out of DownloadChunk. *)

Completed(r, result) ==
  [reader EXCEPT ![r] = [IdleReader EXCEPT !.result = result, !.excused = (result = "broken" /\ reader[r].excused)]]

(* The storage refused a request, which excuses the reader. *)
Refused(r) == [reader EXCEPT ![r] = [IdleReader EXCEPT !.result = "broken", !.excused = TRUE]]

(* Bytes that are not the chunk's are in the buffer of the reader x. *)
Received(x) == [x EXCEPT !.buffer = "part"]

(* Mutant: what comes next is appended to them. *)
NoReset(x) == x

(* chunk.Reset *)
Reset(x) == [x EXCEPT !.buffer = "empty"]

MayRetry(r) == reader[r].attempt < MaxDownloadAttempts

(* The next turn of the loop, for the reader r in the state x. *)
RetryOrFail(r, x) ==
  reader' = IF MayRetry(r) THEN [reader EXCEPT ![r] = [x EXCEPT !.pc = "find", !.attempt = @ + 1]]
                           ELSE Completed(r, "broken")

DownloadAgain(r) == RetryOrFail(r, Reset(Received(reader[r])))

(* Only metadata chunks are saved in the cache. *)
AfterRead(r) == IF reader[r].chunk \in given.metadata THEN [reader EXCEPT ![r].pc = "save"] ELSE Completed(r, "right")

-----------------------------------------------------------------------------
(* DownloadChunk. *)

Start(r, c) ==
  /\ r \in given.readers /\ reader[r].pc = "idle"
  /\ \E rewrite \in BOOLEAN :
       /\ rewrite => ~given.pruning
       /\ reader' = [reader EXCEPT ![r] =
            [IdleReader EXCEPT !.pc = IF c \in given.metadata THEN "cache" ELSE "find", !.chunk = c,
                               !.rewriteChunks = rewrite, !.excused = ~Recoverable(Served(c))]]
  /\ UNCHANGED <<fileVars, cache, resurrect, given>>

(* The id of the cached bytes is the chunk's. *)
AcceptCached(c) == cache[c] \in {"unsynced", "whole"}

(* Reading the entry may fail, even half-way. *)
ReadCache(r) ==
  LET c == reader[r].chunk
      x == IF cache[c] = "none" THEN reader[r] ELSE Received(reader[r])
  IN /\ reader[r].pc = "cache"
     /\ \/ AcceptCached(c) /\ reader' = Completed(r, "right")
        \/ reader' = [reader EXCEPT ![r] = [Reset(x) EXCEPT !.pc = "find"]]
     /\ UNCHANGED <<fileVars, cache, resurrect, given>>

(* Hubic and WebDAV may answer that a file does not exist that does. *)
Denied(r) == given.kind \in {"hubic", "webdav"} /\ reader[r].attempt < MaxFaults

FindChunk(r) ==
  /\ reader[r].pc = "find"
  /\ \/ chunkFile[reader[r].chunk] /= NoFile
        /\ reader' = [reader EXCEPT ![r].pc = "download", ![r].path = "chunk"]
     \/ (chunkFile[reader[r].chunk] = NoFile \/ Denied(r)) /\ Goes(r, "fossil")
  /\ UNCHANGED <<fileVars, cache, resurrect, given>>

FindFossil(r) ==
  /\ reader[r].pc = "fossil"
  /\ \/ /\ fossilFile[reader[r].chunk] /= NoFile
        /\ reader' = [reader EXCEPT ![r].pc = "download", ![r].path = "fossil"]
     \/ /\ fossilFile[reader[r].chunk] = NoFile \/ Denied(r)
        /\ IF given.kind \in {"hubic", "webdav"} THEN RetryOrFail(r, reader[r]) ELSE reader' = Completed(r, "broken")
  /\ UNCHANGED <<fileVars, cache, resurrect, given>>

(* An error of FindChunk ends the download. *)
FindFails(r) ==
  /\ reader[r].pc \in {"find", "fossil"}
  /\ reader' = Refused(r)
  /\ UNCHANGED <<fileVars, cache, resurrect, given>>

PathFile(r) == IF reader[r].path = "chunk" THEN chunkFile[reader[r].chunk] ELSE fossilFile[reader[r].chunk]

(* The file arrives, is decrypted and its id compared. *)
Download(r) ==
  LET f == PathFile(r)
      good == reader[r].buffer = "empty" /\ Decrypt(f)
  IN /\ reader[r].pc = "download" /\ f /= NoFile
     /\ \/ ~good /\ DownloadAgain(r)
        \/ good /\ reader' = IF reader[r].rewriteChunks /\ RewriteNeeded(f)
             THEN [reader EXCEPT ![r].pc = IF reader[r].path = "chunk" THEN "move" ELSE "upload"]
             ELSE AfterRead(r)
     /\ UNCHANGED <<fileVars, cache, resurrect, given>>

(* The connection ends early (io.ErrUnexpectedEOF), or the bytes that      *)
(* arrive are wrong and decryption or the id tells: every storage retries. *)
DownloadTorn(r) ==
  /\ reader[r].pc = "download" /\ PathFile(r) /= NoFile
  /\ reader[r].attempt < MaxFaults
  /\ DownloadAgain(r)
  /\ UNCHANGED <<fileVars, cache, resurrect, given>>

(* Any other error, of which a file that is gone is one: only Hubic        *)
(* retries, whose errors count as denials.                                 *)
DownloadFails(r) ==
  /\ reader[r].pc = "download"
  /\ \/ /\ given.kind = "hubic" /\ (PathFile(r) = NoFile \/ Denied(r))
        /\ DownloadAgain(r)
     \/ /\ given.kind /= "hubic"
        /\ reader' = IF PathFile(r) = NoFile THEN Completed(r, "broken") ELSE Refused(r)
  /\ UNCHANGED <<fileVars, cache, resurrect, given>>

(* Mutant: the chunk file is deleted instead of kept as a fossil. *)
RewriteMoveDeleting(r) ==
  LET c == reader[r].chunk
  IN /\ reader[r].pc = "move"
     /\ reader' = [Excuse(reader, c) EXCEPT ![r].pc = "upload"]
     /\ chunkFile' = [chunkFile EXCEPT ![c] = NoFile]
     /\ UNCHANGED <<fossilFile, cache, resurrect, given>>

(* The chunk to be rewritten becomes a fossil; a failure is only logged. *)
RewriteMove(r) ==
  LET c == reader[r].chunk
  IN /\ reader[r].pc = "move"
     /\ \/ /\ chunkFile[c] /= NoFile
           /\ fossilFile' = [fossilFile EXCEPT ![c] = chunkFile[c]]
           /\ chunkFile' = [chunkFile EXCEPT ![c] = NoFile]
           /\ reader' = [Excuse(reader, c) EXCEPT ![r].pc = "upload"]
        \/ Goes(r, "upload") /\ UNCHANGED fileVars
     /\ UNCHANGED <<cache, resurrect, given>>

RewriteUpload(r) ==
  LET c == reader[r].chunk
  IN /\ reader[r].pc = "upload"
     /\ reader' = AfterRead(r)
     /\ \/ chunkFile' = [chunkFile EXCEPT ![c] = Encrypt]
        \/ UNCHANGED chunkFile
     /\ UNCHANGED <<fossilFile, cache, resurrect, given>>

(* The copy in the cache is written without fsync. *)
SaveToCache(r) ==
  /\ reader[r].pc = "save"
  /\ reader' = Completed(r, "right")
  /\ \/ cache' = [cache EXCEPT ![reader[r].chunk] = "unsynced"]
     \/ UNCHANGED cache
  /\ UNCHANGED <<fileVars, resurrect, given>>

-----------------------------------------------------------------------------
(* Others. *)

(* A backup on this computer uploads a metadata chunk: a cache entry that  *)
(* exists is left as it is.                                                *)
UploadToCache(c) ==
  /\ c \in given.metadata /\ cache[c] = "none"
  /\ cache' = [cache EXCEPT ![c] = "unsynced"]
  /\ UNCHANGED <<fileVars, reader, resurrect, given>>

(* A backup anywhere uploads a chunk that it does not find. *)
UploadToStorage(c) ==
  /\ chunkFile[c] = NoFile
  /\ chunkFile' = [chunkFile EXCEPT ![c] = Encrypt]
  /\ UNCHANGED <<fossilFile, cache, reader, resurrect, given>>

(* CleanSnapshotCache, as far as one entry goes. *)
EvictFromCache(c) ==
  /\ cache[c] /= "none"
  /\ cache' = [cache EXCEPT ![c] = "none"]
  /\ UNCHANGED <<fileVars, reader, resurrect, given>>

(* Prune's Fossilize task.  Prune has one thread here, so that none of its *)
(* Resurrect tasks is half-way (MCLockFree_threads.cfg has two).           *)
Fossilize(c) ==
  /\ given.pruning /\ chunkFile[c] /= NoFile /\ resurrect[c] = "none"
  /\ fossilFile' = [fossilFile EXCEPT ![c] = chunkFile[c]]
  /\ chunkFile' = [chunkFile EXCEPT ![c] = NoFile]
  /\ reader' = Excuse(reader, c)
  /\ UNCHANGED <<cache, resurrect, given>>

(* Prune's Resurrect task: the look-up, and what follows from it. *)
ResurrectFind(c) ==
  /\ given.pruning /\ fossilFile[c] /= NoFile /\ resurrect[c] = "none"
  /\ resurrect' = [resurrect EXCEPT ![c] = IF chunkFile[c] /= NoFile THEN "exists" ELSE "absent"]
  /\ UNCHANGED <<fileVars, cache, reader, given>>

Resurrect(c) ==
  /\ resurrect[c] /= "none"
  /\ resurrect' = [resurrect EXCEPT ![c] = "none"]
  /\ fossilFile' = [fossilFile EXCEPT ![c] = NoFile]
  /\ chunkFile' = [chunkFile EXCEPT ![c] = IF resurrect[c] = "absent" THEN fossilFile[c] ELSE @]
  /\ reader' = Excuse(reader, c)
  /\ UNCHANGED <<cache, given>>

(* The computer loses power: an entry that was not synced may be torn. *)
PowerLoss ==
  /\ reader' = [r \in Reader |-> IdleReader]
  /\ \E torn \in SUBSET {c \in Chunk : cache[c] = "unsynced"} :
       cache' = [c \in Chunk |-> IF c \in torn THEN "torn" ELSE IF cache[c] = "unsynced" THEN "whole" ELSE cache[c]]
  /\ UNCHANGED <<fileVars, resurrect, given>>

-----------------------------------------------------------------------------
Reads(r) ==
  \/ ReadCache(r) \/ FindChunk(r) \/ FindFossil(r) \/ FindFails(r) \/ Download(r) \/ DownloadTorn(r)
  \/ DownloadFails(r) \/ RewriteMove(r) \/ RewriteUpload(r) \/ SaveToCache(r)

ReadsNext ==
  \/ \E r \in Reader : Reads(r) \/ (\E c \in Chunk : Start(r, c))
  \/ \E c \in Chunk : UploadToCache(c) \/ UploadToStorage(c) \/ EvictFromCache(c)
                      \/ Fossilize(c) \/ ResurrectFind(c) \/ Resurrect(c)
  \/ PowerLoss

ReadsSpec == ReadsInit /\ [][ReadsNext]_readVars

-----------------------------------------------------------------------------
(* A download gives a chunk up only if it could not be had: enough of its  *)
(* file was damaged, the file was moved meanwhile, a look-up failed or, on *)
(* storages other than Hubic, a download failed with an error that is not  *)
(* an early end.  Denials, connections that end early, wrong bytes and     *)
(* torn entries of the cache, up to the number of attempts, are overcome.  *)
ReadableIsRead == \A r \in Reader : reader[r].result = "broken" => reader[r].excused

(* No step takes away the last copy of a chunk that can be recovered: a    *)
(* rewrite that fails or is cut off half-way, and the tasks of prune,      *)
(* leave one where readers look.                                           *)
RewriteKeeps == [][\A c \in Chunk : Recoverable(Served(c)) => Recoverable(Served(c)')]_readVars

=============================================================================
