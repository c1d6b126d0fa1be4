-------------------------- MODULE MCChunkDownloader --------------------------
(* Small instances of ChunkDownloader for TLC. *)
EXTENDS ChunkDownloader

(* One file, or two or three of one or two chunks, with and without common *)
(* chunks; the second of three has one.                                    *)
SmallLayouts ==
  {list \in UNION {[1..n -> FileChunks] : n \in 1..3} :
     /\ AddFiles(list)
     /\ Len(list) > 1 => \A n \in DOMAIN list : list[n].endChunk <= list[n].startChunk + 1
     /\ Len(list) = 3 => list[2].endChunk = list[2].startChunk}

=============================================================================
