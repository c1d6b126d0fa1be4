----------------------------- MODULE FilePacking -----------------------------
(***************************************************************************)
(* Backups of one repository, seen through the bytes: files are listed,    *)
(* compared with the last snapshot or with an incomplete one, read into    *)
(* the chunk maker, cut into chunks, uploaded by several workers in any    *)
(* order, and placed in the chunks when the snapshot is written.  The      *)
(* owner of the files goes on changing them.  A backup may fail at any     *)
(* point (a hash-mode backup then saves its entry list in two files) or be *)
(* killed, between any two of its steps.                                   *)
(***************************************************************************)
EXTENDS EntryList

CONSTANTS
  Size,         \* Size[f][v]: the length of version v of file f, -1: not there
  TimeStep,     \* seconds between two versions of a file
  ChunkSizes,   \* pairs <<MinimumChunkSize, MaximumChunkSize>>
  HashModes,    \* whether backups after the first are run with -hash
  MemoryLimits, \* values of maximumInMemoryEntries
  Denials,      \* <<r, f, n>>: in backup r the OneDrive client may deny reading f after n bytes
  Threads,      \* upload workers
  MaxChanges,   \* bound: changes made by the owner
  MaxRuns       \* bound: backups started

ASSUME PackingAssumption ==
  /\ \A f \in DOMAIN Size : \A v \in DOMAIN Size[f] : Size[f][v] \in Nat \union {0 - 1}
  /\ TimeStep \in Nat
  /\ \A c \in ChunkSizes : c[1] \in Nat \ {0} /\ c[2] >= c[1]
  /\ HashModes \subseteq BOOLEAN /\ HashModes # {}
  /\ MemoryLimits \subseteq Nat /\ MemoryLimits # {}
  /\ Denials \subseteq Nat \X (DOMAIN Size) \X Nat
  /\ Threads \in Nat \ {0}
  /\ MaxChanges \in Nat /\ MaxRuns \in Nat

VARIABLES
  version,   \* version[f]: what the owner has made of each file
  snapshot,  \* the last snapshot of the storage
  backup,    \* the running backup
  disk,      \* the two files of the incomplete snapshot
  chunking,  \* the chunk sizes of the storage
  runs       \* backups started so far

vars == <<version, snapshot, backup, disk, chunking, runs>>

Files == DOMAIN Size
NotUploaded == <<>>   \* the empty hash of a chunk not yet uploaded

(* Versions of a file agree in their first byte. *)
Content(f, v) == [i \in 1 .. Size[f][v] |-> <<f, IF i = 1 THEN 1 ELSE v, i>>]
Mtime(v)      == v * TimeStep

FixedSize == chunking[1] = chunking[2]

NoSnapshot == [revision |-> 0, chunks |-> <<>>, entries |-> <<>>]

(* No backup is running. *)
Idle ==
  [pc |-> "idle", hashMode |-> FALSE, token |-> 0, onDisk |-> FALSE,
   preserved |-> <<>>, entries |-> <<>>, modified |-> <<>>,
   next |-> 1, reading |-> FALSE, read |-> <<>>, pending |-> <<>>, sent |-> <<>>, done |-> {}]

(* Files that are not there, and one whose writing was cut off. *)
NoEntries  == [token |-> 0, entries |-> <<>>]
NoChunks   == [token |-> 0, modified |-> <<>>, preserved |-> <<>>, uploaded |-> <<>>]
TornChunks == [NoChunks EXCEPT !.token = 0 - 1]
NoFiles    == [files |-> NoEntries, chunks |-> NoChunks]

Init ==
  /\ version = [f \in Files |-> 1]
  /\ snapshot = NoSnapshot
  /\ backup = Idle
  /\ disk = NoFiles
  /\ chunking \in ChunkSizes
  /\ runs = 0

(* The owner changes or removes a file; its modification time moves on. *)
ChangeFile(f) ==
  /\ version[f] < Len(Size[f])
  /\ FoldFunction(+, 0, version) < MaxChanges + Cardinality(Files)
  /\ version' = [version EXCEPT ![f] = @ + 1]
  /\ UNCHANGED <<snapshot, backup, disk, chunking, runs>>

---------------------------------------------------------------------------
(* Loading an incomplete snapshot *)

(* Mutant: the chunks are cut one early. *)
UploadedPrefixShort(up) ==
  SubSeq(up, 1, Min({Len(up) - 1} \union {i - 1 : i \in {j \in DOMAIN up : up[j] = NotUploaded}}))

(* The uploaded chunks up to the first that is missing. *)
UploadedPrefix(up) ==
  SubSeq(up, 1, Min({Len(up)} \union {i - 1 : i \in {j \in DOMAIN up : up[j] = NotUploaded}}))

(* Mutant: the two files may come from different backups. *)
SameTokenAny(files, chunks) == TRUE

SameToken(files, chunks) == files.token = chunks.token

(* loadIncompleteSnapshot: both files, whole, and of one backup. *)
Loadable ==
  /\ disk.files # NoEntries
  /\ disk.chunks \notin {NoChunks, TornChunks}
  /\ SameToken(disk.files, disk.chunks)

LoadIncomplete ==
  [entries   |-> disk.files.entries,
   modified  |-> disk.chunks.modified,
   preserved |-> disk.chunks.preserved,
   uploaded  |-> UploadedPrefix(disk.chunks.uploaded)]

---------------------------------------------------------------------------
(* A backup *)

LocalEntries ==
  LET there == SetToSortSeq({f \in Files : Size[f][version[f]] >= 0}, <)
  IN [i \in DOMAIN there |->
        NewEntry(there[i], Mtime(version[there[i]]), Size[there[i]][version[there[i]]])]

(* Backup up to the packing: the remote entries come from the incomplete   *)
(* snapshot if one is loaded, from nowhere in hash mode, else from the     *)
(* last snapshot.  Without a file to back up it fails.                     *)
StartBackup(quick, limit) ==
  LET hash   == snapshot.revision = 0 \/ ~quick
      inc    == hash /\ Loadable
      remote == IF inc THEN ReadEntries(LoadIncomplete).out
                ELSE IF hash THEN <<>> ELSE DecodeSnapshot(snapshot)
      chunks == IF inc THEN LoadIncomplete.preserved \o LoadIncomplete.uploaded
                ELSE snapshot.chunks
      list   == MergeEntries(LocalEntries, remote, chunks)
  IN /\ backup.pc = "idle"
     /\ runs < MaxRuns
     /\ (~quick) \in HashModes
     /\ LocalEntries # <<>>
     /\ runs' = runs + 1
     /\ backup' = [Idle EXCEPT !.pc = "pack", !.hashMode = hash, !.token = runs + 1,
                     !.onDisk    = Len(list.entries) > limit,
                     !.preserved = list.preserved,
                     !.entries   = list.entries,
                     !.modified  = list.modified]
     /\ UNCHANGED <<version, snapshot, disk, chunking>>

(* A file cut into chunks of a fixed size, the last one shorter. *)
Chunks(bytes, n) ==
  [i \in 1 .. (Len(bytes) + n - 1) \div n |->
     SubSeq(bytes, (i - 1) * n + 1, Min({i * n, Len(bytes)}))]

(* What AddData does with the bytes it could read: with chunks of a fixed  *)
(* size they are cut at once, and a part left over by a failed read is     *)
(* forgotten; else they join what is pending in the buffer.                *)
AddData(b, bytes, whole) ==
  IF FixedSize
  THEN [b EXCEPT !.sent = @ \o SelectSeq(Chunks(bytes, chunking[1]),
                                 LAMBDA c : whole \/ Len(c) = chunking[1])]
  ELSE [b EXCEPT !.pending = @ \o bytes]

Opening == backup.pc = "pack" /\ ~backup.reading /\ backup.next <= Len(backup.modified)
Current == backup.modified[backup.next].path

(* The file is read; it may have changed since it was listed. *)
ReadFile ==
  /\ Opening
  /\ Size[Current][version[Current]] >= 0
  /\ LET bytes == Content(Current, version[Current])
     IN backup' = [AddData(backup, bytes, TRUE) EXCEPT !.reading = TRUE, !.read = bytes]
  /\ UNCHANGED <<version, snapshot, disk, chunking, runs>>

(* AddData returned: its size and hash are stored in the modified entry. *)
StoreResult ==
  /\ backup.pc = "pack"
  /\ backup.reading
  /\ backup' = [backup EXCEPT !.modified[backup.next].size = Len(backup.read),
                              !.modified[backup.next].hash = backup.read,
                              !.next = @ + 1, !.reading = FALSE, !.read = <<>>]
  /\ UNCHANGED <<version, snapshot, disk, chunking, runs>>

(* The file cannot be opened, here because it is gone: it is skipped. *)
OpenFails ==
  /\ Opening
  /\ Size[Current][version[Current]] < 0
  /\ backup' = [backup EXCEPT !.next = @ + 1]
  /\ UNCHANGED <<version, snapshot, disk, chunking, runs>>

(* The OneDrive client denies a read, perhaps after some bytes: AddData    *)
(* returns -1.                                                             *)
CloudReadFails ==
  /\ Opening
  /\ \E n \in 0 .. Size[Current][version[Current]] - 1 :
       LET bytes == SubSeq(Content(Current, version[Current]), 1, n)
       IN /\ <<runs, Current, n>> \in Denials
          /\ backup' = [AddData(backup, bytes, FALSE) EXCEPT !.next = @ + 1]
  /\ UNCHANGED <<version, snapshot, disk, chunking, runs>>

(* The chunk maker finds a boundary and sends a chunk to the uploaders. *)
CutChunk(n) ==
  /\ backup.pc = "pack"
  /\ n \in chunking[1] .. chunking[2]
  /\ backup' = [backup EXCEPT !.sent    = Append(@, SubSeq(backup.pending, 1, n)),
                              !.pending = SubSeq(@, n + 1, Len(@))]
  /\ UNCHANGED <<version, snapshot, disk, chunking, runs>>

(* AddData(nil): what is left goes into a last chunk. *)
Flush ==
  /\ backup.pc = "pack"
  /\ ~backup.reading
  /\ backup.next > Len(backup.modified)
  /\ Len(backup.pending) <= chunking[2]
  /\ backup' = [backup EXCEPT !.pc      = "wait",
                              !.sent    = IF backup.pending = <<>> THEN @
                                          ELSE Append(@, backup.pending),
                              !.pending = <<>>]
  /\ UNCHANGED <<version, snapshot, disk, chunking, runs>>

(* A worker has uploaded a chunk; the workers take the chunks in order. *)
ChunkUploaded(i) ==
  /\ backup.pc \in {"pack", "wait"}
  /\ i \in DOMAIN backup.sent \ backup.done
  /\ Cardinality(1 .. i - 1 \ backup.done) < Threads
  /\ backup' = [backup EXCEPT !.done = @ \union {i}]
  /\ UNCHANGED <<version, snapshot, disk, chunking, runs>>

EntryListOf(b) ==
  [entries |-> b.entries, modified |-> b.modified, preserved |-> b.preserved,
   uploaded |-> b.sent]

(* WaitForCompletion returned: UploadSnapshot writes the file list and the *)
(* snapshot, or the list turns out to be wrong and the backup fails.       *)
WriteSnapshot ==
  LET read == ReadEntries(EntryListOf(backup))
      coded == EncodeSnapshot(read.out, backup.preserved \o backup.sent)
  IN /\ backup.pc = "wait"
     /\ backup.done = DOMAIN backup.sent
     /\ ~read.err
     /\ snapshot' = [revision |-> snapshot.revision + 1,
                     chunks |-> coded.chunks, entries |-> coded.entries]
     /\ backup' = [backup EXCEPT !.pc = "written"]
     /\ UNCHANGED <<version, disk, chunking, runs>>

(* deleteIncompleteSnapshot, at the end of every successful backup. *)
EndBackup ==
  /\ backup.pc = "written"
  /\ disk' = NoFiles
  /\ backup' = Idle
  /\ UNCHANGED <<version, snapshot, chunking, runs>>

---------------------------------------------------------------------------
(* Failures *)

(* An error is logged: a hash-mode backup saves what it has. *)
Fail ==
  /\ backup.pc \in {"pack", "wait"}
  /\ backup' = IF backup.hashMode THEN [backup EXCEPT !.pc = "save"] ELSE Idle
  /\ UNCHANGED <<version, snapshot, disk, chunking, runs>>

(* A worker logs the error while the packing goroutine goes on, without a  *)
(* lock: the size of the file being packed is stored, its hash not yet.    *)
FailWhileStoring ==
  /\ backup.pc = "pack"
  /\ backup.reading
  /\ backup.hashMode
  /\ backup' = [backup EXCEPT !.pc = "save",
                              !.modified[backup.next].size = Len(backup.read)]
  /\ UNCHANGED <<version, snapshot, disk, chunking, runs>>

(* A list kept in memory is encoded twice: by createOnDiskFile and again.  *)
EncodedEntries(b) == IF b.onDisk THEN b.entries ELSE b.entries \o b.entries

(* incomplete_files becomes incomplete_snapshot. *)
SaveEntries ==
  /\ backup.pc = "save"
  /\ disk' = [disk EXCEPT !.files = [token |-> backup.token,
                                     entries |-> EncodedEntries(backup)]]
  /\ backup' = [backup EXCEPT !.pc = "saveChunks"]
  /\ UNCHANGED <<version, snapshot, chunking, runs>>

(* Chunks recorded by AddUploadedChunk; the empty hash where one is missing. *)
UploadedChunks(b) ==
  [i \in 1 .. Max({0} \union b.done) |-> IF i \in b.done THEN b.sent[i] ELSE NotUploaded]

(* incomplete_chunks is written, and the process exits. *)
SaveChunks ==
  /\ backup.pc = "saveChunks"
  /\ disk' = [disk EXCEPT !.chunks = [token     |-> backup.token,
                                      modified  |-> backup.modified,
                                      preserved |-> backup.preserved,
                                      uploaded  |-> UploadedChunks(backup)]]
  /\ backup' = Idle
  /\ UNCHANGED <<version, snapshot, chunking, runs>>

(* The process is killed.  A file being written stays as it is then: the   *)
(* old list is already removed when the new one is renamed, and the chunk  *)
(* file is truncated first.                                                *)
Kill ==
  /\ backup.pc # "idle"
  /\ disk' \in CASE backup.pc = "save"       -> {disk, [disk EXCEPT !.files = NoEntries]}
                 [] backup.pc = "saveChunks" -> {disk, [disk EXCEPT !.chunks = TornChunks]}
                 [] backup.pc = "written"    -> {disk, [disk EXCEPT !.files = NoEntries]}
                 [] OTHER                    -> {disk}
  /\ backup' = Idle
  /\ UNCHANGED <<version, snapshot, chunking, runs>>

Next ==
  \/ \E f \in Files : ChangeFile(f)
  \/ \E quick \in BOOLEAN, limit \in MemoryLimits : StartBackup(quick, limit)
  \/ ReadFile
  \/ StoreResult
  \/ OpenFails
  \/ CloudReadFails
  \/ \E n \in 1 .. Len(backup.pending) : CutChunk(n)
  \/ Flush
  \/ \E i \in DOMAIN backup.sent : ChunkUploaded(i)
  \/ WriteSnapshot
  \/ EndBackup
  \/ Fail
  \/ FailWhileStoring
  \/ SaveEntries
  \/ SaveChunks
  \/ Kill

Spec == Init /\ [][Next]_vars

---------------------------------------------------------------------------
(* Properties *)

ChunkOK(c) == Len(c) \in 1 .. chunking[2]

(* Types, chunks that are neither empty nor larger than the maximum chunk  *)
(* size, and counters that stay inside the lists they count.               *)
TypeOK ==
  /\ version \in [Files -> Nat]
  /\ chunking \in ChunkSizes
  /\ backup.pc \in {"idle", "pack", "wait", "written", "save", "saveChunks"}
  /\ \A c \in ToSet(backup.sent \o backup.preserved \o snapshot.chunks) : ChunkOK(c)
  /\ backup.done \subseteq DOMAIN backup.sent
  /\ backup.next \in 1 .. Len(backup.modified) + 1
  /\ backup.token <= runs /\ runs <= MaxRuns

SnapshotEntries == ToSet(DecodeSnapshot(snapshot))

(* Every file of the last snapshot reads back as one version of that file, *)
(* whole, and not an older one than was listed: however the chunks were    *)
(* cut, shared, carried over from the last snapshot or from an incomplete  *)
(* one, and renumbered (backupmanager.go:315-335 and 1082-1102, entrylist  *)
(* .go:280-302).  The hash is that of these bytes, or missing.             *)
ReadsBack ==
  \A e \in SnapshotEntries :
    /\ EntryChecks(e, Lengths(snapshot.chunks))
    /\ LET bytes == ReadBack(e, snapshot.chunks)
       IN /\ \E v \in 1 .. version[e.path] :
               Mtime(v) >= e.time /\ Size[e.path][v] >= 0 /\ bytes = Content(e.path, v)
          /\ e.size > 0 => e.hash \in {bytes, NoHash}

(* Once every chunk is uploaded the entry list has no error: each listed   *)
(* file that was read in full finds its place in the chunks (the errors of *)
(* entrylist.go:262-318 never end a backup that packed everything).        *)
ListIsRight ==
  backup.pc = "wait" /\ backup.done = DOMAIN backup.sent =>
    LET read == ReadEntries(EntryListOf(backup))
        lost == {m \in ToSet(backup.modified) : m.size <= 0}
    IN /\ ~read.err
       /\ {e.path : e \in ToSet(backup.entries)} \ {m.path : m \in lost}
            \subseteq {e.path : e \in ToSet(read.out)}

Versions(f) == {Content(f, v) : v \in {w \in DOMAIN Size[f] : Size[f][w] >= 0}}

(* Contents a restore may find at a path: versions of some files, one or   *)
(* two after each other.                                                   *)
Existing ==
  LET one == UNION {Versions(f) : f \in Files}
  IN one \union {x \o y : x \in one, y \in one}

(* Restored in place, a file of the snapshot is what the snapshot holds,   *)
(* whatever was there before: shorter, longer, or sharing chunks at the    *)
(* same or at another offset (backupmanager.go:1270-1362 and 1412-1499).   *)
RestoresInPlace ==
  backup.pc = "written" =>
    \A e \in SnapshotEntries : e.size > 0 =>
      \A x \in Existing :
        RestoreInPlace(e, snapshot.chunks, x) = ReadBack(e, snapshot.chunks)

(* What an incomplete snapshot holds in full: files packed and uploaded. *)
UploadedFiles ==
  LET up     == disk.chunks.uploaded
      stored == {i \in DOMAIN up : \A j \in 1 .. i : up[j] # NotUploaded}
      bytes  == UNION {ToSet(up[i]) : i \in stored}
  IN {m \in ToSet(disk.chunks.modified) :
        m.size > 0 /\ m.hash # NoHash /\ ToSet(m.hash) \subseteq bytes}

ListedTime(f) == {e.time : e \in {x \in ToSet(disk.files.entries) : x.path = f}}

(* A backup that resumes from an incomplete snapshot does not read again a *)
(* file that was uploaded in full and has not changed since                *)
(* (backupmanager.go:222-226 and 258-262).                                 *)
ResumeKeeps ==
  [][backup.pc = "idle" /\ backup'.pc = "pack" /\ backup'.hashMode /\ Loadable =>
       \A m \in UploadedFiles :
         Mtime(version[m.path]) \in ListedTime(m.path) /\ Size[m.path][version[m.path]] = m.size
           => m.path \notin {x.path : x \in ToSet(backup'.modified)}]_vars
=============================================================================
