---------------------------- MODULE BackupClient ----------------------------
(***************************************************************************)
(* The backup command of every snapshot id.  An id runs one backup at a    *)
(* time.  A backup reads the latest revision into its chunk cache, packs   *)
(* chunks and uploads the ones the cache does not hold (one FindChunk and, *)
(* if the chunk is absent, one UploadFile, each a step of its own), stamps *)
(* the end time, uploads the metadata chunks the same way, writes the      *)
(* snapshot file and removes the incomplete snapshot last.  It may fail at *)
(* any point; a failing hash-mode backup leaves an incomplete snapshot to  *)
(* resume from.                                                            *)
(***************************************************************************)
EXTENDS DedupStorage

CONSTANTS
  MaxRevision,   \* bound: the last revision of each id
  FastListing,   \* Storage.IsFastListing
  HashModes,     \* whether backups after the first are run with -hash
  EndCut         \* a backup may stop between its snapshot file and the removal of the incomplete one

ASSUME BackupAssumption ==
  /\ MaxRevision \in [Id -> Nat \ {0}]
  /\ FastListing \in BOOLEAN
  /\ HashModes \subseteq BOOLEAN /\ HashModes /= {}
  /\ EndCut \in BOOLEAN

VARIABLES
  backup,      \* backup[i]: the running backup of the snapshot id i
  incomplete   \* incomplete[i]: chunks of the saved incomplete snapshot, {} if none

backupVars == <<backup, incomplete>>

BackupState ==
  [pc       : {"idle", "packing", "metadata", "ending"},
   revision : Nat,           \* localSnapshot.Revision
   hashMode : BOOLEAN,
   cache    : SUBSET Chunk,  \* chunkCache
   refs     : SUBSET Chunk,  \* what the new snapshot references so far
   queued   : SUBSET Chunk,  \* upload tasks waiting for a worker
   absent   : SUBSET Chunk,  \* upload tasks whose FindChunk found nothing
   failed   : SUBSET Chunk,  \* chunks whose upload failed
   endTime  : Nat]

IdleBackup ==
  [pc |-> "idle", revision |-> 0, hashMode |-> FALSE, cache |-> {}, refs |-> {},
   queued |-> {}, absent |-> {}, failed |-> {}, endTime |-> 0]

(* The snapshot file is written; nothing more is asked of the storage. *)
EndingBackup(hash) == [IdleBackup EXCEPT !.pc = "ending", !.hashMode = hash]

(* The new revision is still being made. *)
Working(b) == b.pc \in {"packing", "metadata"}

BackupTypeOK ==
  /\ backup \in [Id -> BackupState]
  /\ incomplete \in [Id -> SUBSET Chunk]

InFlight(i) == backup[i].queued \union backup[i].absent

(* Chunks an incomplete snapshot may hold: those known to be stored. *)
Savable(i) == backup[i].refs \ (InFlight(i) \union backup[i].failed)

-----------------------------------------------------------------------------
(* Mutant: the new revision takes the number of the last one. *)
SameRevision(last) == IF last = 0 THEN 1 ELSE last

NextRevision(last) == last + 1

(* The revision after 'last', the latest (0 if there is none), which       *)
(* references lastChunks; 'listed' is what the storage was found to hold.  *)
(* Files that did not change keep their chunks without asking the storage: *)
(* any subset of the previous snapshot's chunks, or of the incomplete      *)
(* one's in hash mode.                                                     *)
StartWith(i, last, lastChunks, listed, resumed) ==
  \E hash \in IF last = 0 THEN {TRUE} ELSE HashModes :
    \E kept \in SUBSET (IF hash THEN resumed ELSE lastChunks) :
      backup' = [backup EXCEPT ![i] =
        [pc |-> "packing", revision |-> NextRevision(last), hashMode |-> hash,
         cache |-> lastChunks \union listed, refs |-> kept,
         queued |-> {}, absent |-> {}, failed |-> {}, endTime |-> 0]]

ListedChunks(last) == IF FastListing /\ last = 0 THEN chunkFiles ELSE {}

(* Mutant: CheckChunks is not called. *)
StartUnchecked(i, last, lastChunks) == StartWith(i, last, lastChunks, ListedChunks(last), incomplete[i])

(* A first backup that lists the storage discards the incomplete snapshot  *)
(* if a chunk of it is not there.                                          *)
StartFrom(i, last, lastChunks) ==
  LET discarded == FastListing /\ last = 0 /\ ~(incomplete[i] \subseteq ListedChunks(last))
  IN StartWith(i, last, lastChunks, ListedChunks(last), IF discarded THEN {} ELSE incomplete[i])

BackupStart(i) ==
  /\ backup[i].pc = "idle"
  /\ \/ \E latest \in SnapshotsOf(snapshots, i) :
          /\ IsLatest(snapshots, latest)
          /\ latest.revision < MaxRevision[i]
          /\ StartFrom(i, latest.revision, latest.chunks)
     \/ /\ SnapshotsOf(snapshots, i) = {}
        /\ StartFrom(i, 0, {})
  /\ UNCHANGED <<storageVars, now, incomplete>>

(* The chunk maker produced the chunk c.  A chunk in the cache is not      *)
(* uploaded, unless the connection has been quiet for too long.            *)
BackupPack(i, c) ==
  /\ Working(backup[i])
  /\ \/ /\ c \in backup[i].cache
        /\ backup' = [backup EXCEPT ![i].refs = @ \union {c}]
     \/ /\ c \notin backup[i].cache \/ backup[i].pc = "packing"
        /\ c \notin InFlight(i)
        /\ backup' = [backup EXCEPT ![i].cache  = @ \union {c},
                                    ![i].refs   = @ \union {c},
                                    ![i].queued = @ \union {c}]
  /\ UNCHANGED <<storageVars, now, incomplete>>

(* UploadChunk, first half: deduplication by name. *)
BackupFindChunk(i, c) ==
  /\ c \in backup[i].queued
  /\ backup' = [backup EXCEPT ![i].queued = @ \ {c},
                              ![i].absent = IF c \in chunkFiles THEN @ ELSE @ \union {c}]
  /\ UNCHANGED <<storageVars, now, incomplete>>

(* UploadChunk, second half: the file is renamed into place. *)
BackupUploadChunk(i, c) ==
  /\ c \in backup[i].absent
  /\ UploadChunkFile(c)
  /\ backup' = [backup EXCEPT ![i].absent = @ \ {c}]
  /\ UNCHANGED <<snapshots, now, incomplete>>

(* An upload of a metadata chunk fails.  The deferred function of Run      *)
(* counts the task as done before the process exits, so the backup goes on *)
(* until then (BackupFail); the chunk is in the sequence already.  A file  *)
(* chunk that fails leaves a hole no entry passes the check with.          *)
BackupUploadError(i, c) ==
  /\ StorageErrors
  /\ backup[i].pc = "metadata"
  /\ c \in InFlight(i)
  /\ backup' = [backup EXCEPT ![i].queued = @ \ {c}, ![i].absent = @ \ {c},
                              ![i].failed = @ \union {c}]
  /\ UNCHANGED <<storageVars, now, incomplete>>

(* WaitForCompletion after the last file, and the end time. *)
BackupEndTime(i) ==
  /\ backup[i].pc = "packing"
  /\ InFlight(i) = {}
  /\ backup' = [backup EXCEPT ![i].pc = "metadata", ![i].endTime = now]
  /\ UNCHANGED <<storageVars, now, incomplete>>

(* WaitForCompletion after the metadata, and the snapshot file.  What is   *)
(* left to do shows only if there is an incomplete snapshot or an error    *)
(* could still save one.                                                   *)
BackupUploadSnapshot(i) ==
  /\ backup[i].pc = "metadata"
  /\ InFlight(i) = {}
  /\ snapshots' = snapshots \union
       {[id |-> i, revision |-> backup[i].revision,
         chunks |-> backup[i].refs, endTime |-> backup[i].endTime]}
  /\ backup' = [backup EXCEPT ![i] = IF backup[i].hashMode \/ incomplete[i] /= {}
                                     THEN EndingBackup(backup[i].hashMode) ELSE IdleBackup]
  /\ UNCHANGED <<chunkFiles, fossilFiles, now, incomplete>>

(* Mutant: the incomplete snapshot stays. *)
BackupKeepIncomplete(i) ==
  /\ backup[i].pc = "ending"
  /\ backup' = [backup EXCEPT ![i] = IdleBackup]
  /\ UNCHANGED <<storageVars, now, incomplete>>

(* RunAtError is reset and the incomplete snapshot deleted. *)
BackupDeleteIncomplete(i) ==
  /\ backup[i].pc = "ending"
  /\ backup' = [backup EXCEPT ![i] = IdleBackup]
  /\ incomplete' = [incomplete EXCEPT ![i] = {}]
  /\ UNCHANGED <<storageVars, now>>

(* A kill before that leaves the old one where it is; an error, which the  *)
(* cleaning of the snapshot cache may report, makes RunAtError save one    *)
(* more in hash mode, of the chunks of the snapshot just written.          *)
BackupCut(i) ==
  /\ EndCut
  /\ backup[i].pc = "ending"
  /\ \/ UNCHANGED incomplete
     \/ /\ backup[i].hashMode
        /\ \E s \in SnapshotsOf(snapshots, i) :
             /\ IsLatest(snapshots, s)
             /\ \E saved \in SUBSET s.chunks : incomplete' = [incomplete EXCEPT ![i] = saved]
  /\ backup' = [backup EXCEPT ![i] = IdleBackup]
  /\ UNCHANGED <<storageVars, now>>

(* An error (or a kill) ends the backup.  RunAtError saves the incomplete  *)
(* snapshot in hash mode; on load it is cut at the first chunk that was    *)
(* not uploaded, so only stored chunks survive.                            *)
BackupFail(i) ==
  /\ Working(backup[i])
  /\ \/ UNCHANGED incomplete
     \/ /\ backup[i].hashMode
        /\ \E saved \in SUBSET Savable(i) : incomplete' = [incomplete EXCEPT ![i] = saved]
  /\ backup' = [backup EXCEPT ![i] = IdleBackup]
  /\ UNCHANGED <<storageVars, now>>

BackupInit ==
  /\ backup = [i \in Id |-> IdleBackup]
  /\ incomplete = [i \in Id |-> {}]

=============================================================================
