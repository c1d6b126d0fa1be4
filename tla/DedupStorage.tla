---------------------------- MODULE DedupStorage ----------------------------
(***************************************************************************)
(* The storage every Duplicacy client shares, without any lock:            *)
(*   chunks/<id>        a chunk file      (chunkFiles)                     *)
(*   chunks/<id>.fsl    a fossil          (fossilFiles)                    *)
(*   snapshots/<id>/<revision>            (snapshots)                      *)
(* A chunk id stands for its content, so uploading a chunk twice is the    *)
(* same file; the nesting directories of a chunk path are left out.        *)
(* 'now' is the clock the clients stamp snapshots and collections with.    *)
(***************************************************************************)
EXTENDS Naturals, FiniteSets

CONSTANTS
  Chunk,    \* chunk ids, of file content and of snapshot metadata alike
  Id,       \* snapshot ids (one per repository)
  HostOf,   \* the host of a snapshot id: what follows '@' in it, or the id
  StorageErrors, \* a storage request may fail
  MaxTime   \* bound: the clock stops here

ASSUME StorageAssumption == MaxTime \in Nat /\ StorageErrors \in BOOLEAN

VARIABLES chunkFiles, fossilFiles, snapshots, now

storageVars == <<chunkFiles, fossilFiles, snapshots>>

(* The part of a snapshot file that prune and backup look at; 'chunks' is  *)
(* everything the file references: the three metadata sequences and the    *)
(* chunk hashes they expand to.                                            *)
Snapshot == [id : Id, revision : Nat \ {0}, chunks : SUBSET Chunk, endTime : Nat]

StorageTypeOK ==
  /\ chunkFiles \subseteq Chunk
  /\ fossilFiles \subseteq Chunk
  /\ snapshots \subseteq Snapshot
  /\ now \in Nat

-----------------------------------------------------------------------------
(* Listings of the snapshot directory. *)

SnapshotsOf(S, i) == {s \in S : s.id = i}

IsLatest(S, s) == s \in S /\ \A t \in S : t.id = s.id => t.revision <= s.revision

LatestRevision(S, i) ==
  IF SnapshotsOf(S, i) = {} THEN 0
  ELSE (CHOOSE s \in SnapshotsOf(S, i) : IsLatest(S, s)).revision

ChunksOf(S) == UNION {s.chunks : s \in S}

-----------------------------------------------------------------------------
(* Chunk file operations; a rename replaces the file it lands on. *)

UploadChunkFile(c) ==
  /\ chunkFiles' = chunkFiles \union {c}
  /\ UNCHANGED fossilFiles

MoveChunkToFossil(c) ==
  /\ chunkFiles' = chunkFiles \ {c}
  /\ fossilFiles' = fossilFiles \union {c}

MoveFossilToChunk(c) ==
  /\ fossilFiles' = fossilFiles \ {c}
  /\ chunkFiles' = chunkFiles \union {c}

DeleteFossilFile(c) ==
  /\ fossilFiles' = fossilFiles \ {c}
  /\ UNCHANGED chunkFiles

DeleteChunkFile(c) ==
  /\ chunkFiles' = chunkFiles \ {c}
  /\ UNCHANGED fossilFiles

(* A download looks for the chunk file first and for the fossil next, so   *)
(* either makes the chunk readable.                                        *)
Readable(c) == c \in chunkFiles \/ c \in fossilFiles

=============================================================================
