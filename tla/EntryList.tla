------------------------------ MODULE EntryList ------------------------------
(***************************************************************************)
(* The file list of a snapshot and the arithmetic that places each file in *)
(* the chunk stream: comparing the local files with the remote ones,       *)
(* filling in the position of a packed file, renumbering the chunks when   *)
(* the list is uploaded and undoing that when it is listed again.          *)
(*                                                                         *)
(* A chunk is the sequence of its bytes, and stands for its hash too.  An  *)
(* entry is [path, time, size, hash, sc, so, ec, eo]; the chunk indices sc *)
(* and ec count from 0 as in the code.  Directories and links behave like  *)
(* files of size 0 here.  Paths are numbers in the order of ComparePaths.  *)
(***************************************************************************)
EXTENDS Integers, Sequences, FiniteSets, FiniteSetsExt, SequencesExt

NoHash == <<>>

(* Entry: a file as the local listing reports it. *)
NewEntry(path, time, size) ==
  [path |-> path, time |-> time, size |-> size, hash |-> NoHash,
   sc |-> 0, so |-> 0, ec |-> 0, eo |-> 0]

IsComplete(e) == e.size >= 0

Lengths(chunks) == [i \in DOMAIN chunks |-> Len(chunks[i])]

(* Bytes in the first n chunks. *)
TotalTo(lengths, n) ==
  FoldLeft(LAMBDA total, l : total + l, 0, SubSeq(lengths, 1, n))

---------------------------------------------------------------------------
(* The checks on an entry when it is sent out and when it is loaded *)

SizeInChunks(e, lengths) ==
  TotalTo(lengths, e.ec) + e.eo - TotalTo(lengths, e.sc) - e.so

(* checkEntry and Entry.check: TRUE when the position is a possible one. *)
EntryChecks(e, lengths) ==
  /\ e.size >= 0
  /\ e.size > 0 =>
       /\ e.sc >= 0
       /\ e.ec < Len(lengths)
       /\ e.ec >= e.sc
       /\ e.so < lengths[e.sc + 1]
       /\ e.eo <= lengths[e.ec + 1]
       /\ e.size = SizeInChunks(e, lengths)

(* The bytes a restore reads for an entry. *)
ReadBack(e, chunks) ==
  IF e.size = 0 THEN <<>>
  ELSE SubSeq(FlattenSeq(chunks), TotalTo(Lengths(chunks), e.sc) + e.so + 1,
                                  TotalTo(Lengths(chunks), e.ec) + e.eo)

---------------------------------------------------------------------------
(* ReadEntries: fill in the positions of the packed files *)

(* Mutant: the next file starts in the chunk the last one ended in, even   *)
(* when it used that chunk up.                                             *)
AfterEntrySameChunk(k, eo, length) == [index |-> k, offset |-> eo]

(* The place where the next packed file starts. *)
AfterEntry(k, eo, length) ==
  IF eo = length THEN [index |-> k + 1, offset |-> 0]
                 ELSE [index |-> k, offset |-> eo]

(* The chunk the end of a file falls into: the first that reaches it. *)
EndChunks(lengths, from, end) ==
  {k \in from .. Len(lengths) - 1 : /\ TotalTo(lengths, k + 1) >= end
                                    /\ k > from => TotalTo(lengths, k) < end}

(* One call of fillAndSendEntry.  acc holds the counters (mi: the next     *)
(* modified entry, index and offset: where it starts), what was sent out   *)
(* and whether an error ended the reading.                                 *)
FillEntry(list, acc, e) ==
  LET up      == Lengths(list.uploaded)
      lengths == Lengths(list.preserved) \o up
      m       == list.modified[acc.mi]
      end     == TotalTo(up, acc.index) + acc.offset + m.size
      k       == CHOOSE c \in EndChunks(up, acc.index, end) : TRUE
      eo      == end - TotalTo(up, k)
      filled  == [e EXCEPT !.size = m.size, !.hash = m.hash,
                           !.sc = acc.index + Len(list.preserved), !.so = acc.offset,
                           !.ec = k + Len(list.preserved), !.eo = eo]
      next    == AfterEntry(k, eo, up[k + 1])
  IN CASE acc.err -> acc
       [] ~acc.err /\ IsComplete(e) ->
            IF EntryChecks(e, lengths) THEN [acc EXCEPT !.out = Append(@, e)]
            ELSE [acc EXCEPT !.err = TRUE]
       [] ~acc.err /\ ~IsComplete(e) ->
            IF acc.mi > Len(list.modified) THEN [acc EXCEPT !.err = TRUE]
            ELSE IF m.path # e.path THEN [acc EXCEPT !.err = TRUE]
            ELSE IF m.size <= 0 THEN [acc EXCEPT !.mi = @ + 1]
            ELSE IF EndChunks(up, acc.index, end) = {} THEN [acc EXCEPT !.err = TRUE]
            ELSE IF ~EntryChecks(filled, lengths) THEN [acc EXCEPT !.err = TRUE]
            ELSE [acc EXCEPT !.mi = @ + 1, !.index = next.index,
                             !.offset = next.offset, !.out = Append(@, filled)]

(* What ReadEntries sends out, and whether it stopped with an error. *)
ReadEntries(list) ==
  FoldLeft(LAMBDA acc, e : FillEntry(list, acc, e),
           [mi |-> 1, index |-> 0, offset |-> 0, out |-> <<>>, err |-> FALSE],
           list.entries)

---------------------------------------------------------------------------
(* Backup's comparison of the local files with the remote ones *)

(* Entry.IsSameAs: the sizes agree, and the times to within a second. *)
IsSameAs(local, remote) ==
  /\ local.size = remote.size
  /\ local.time \in remote.time - 1 .. remote.time + 1

(* The file starts in the chunk the last unmodified file ended in. *)
SharesLast(list, remote) == list.last = remote.sc

(* An unmodified file keeps the chunks of the remote list. *)
PreserveEntry(list, local, remote, chunks) ==
  LET shared == SharesLast(list, remote)
      delta  == remote.sc - Len(list.preserved) + (IF shared THEN 1 ELSE 0)
      first  == IF shared THEN remote.sc + 1 ELSE remote.sc
      kept   == [local EXCEPT !.hash = remote.hash, !.so = remote.so, !.eo = remote.eo,
                              !.sc = remote.sc - delta, !.ec = remote.ec - delta]
  IN [list EXCEPT !.preserved = @ \o SubSeq(chunks, first + 1, remote.ec + 1),
                  !.last      = remote.ec,
                  !.entries   = Append(@, kept)]

(* A new or modified file will be packed: size -1 marks it. *)
ModifyEntry(list, local) ==
  [list EXCEPT !.entries  = Append(@, [local EXCEPT !.size = 0 - 1]),
               !.modified = Append(@, [path |-> local.path, size |-> 0 - 1, hash |-> NoHash])]

AddEntry(list, local) == [list EXCEPT !.entries = Append(@, local)]

(* One turn of the loop: skip the remote entries before the local one, use *)
(* up an equal one, keep a later one for the next turn.                    *)
MergeEntry(list, local, chunks) ==
  LET rest  == SelectInSeq(list.remote, LAMBDA r : r.path >= local.path)
      ahead == IF rest = 0 THEN <<>> ELSE SubSeq(list.remote, rest, Len(list.remote))
      equal == ahead # <<>> /\ Head(ahead).path = local.path
      moved == [list EXCEPT !.remote = IF equal THEN Tail(ahead) ELSE ahead]
  IN IF equal /\ IsSameAs(local, Head(ahead)) /\ local.size > 0
     THEN PreserveEntry(moved, local, Head(ahead), chunks)
     ELSE IF local.size > 0 THEN ModifyEntry(moved, local)
     ELSE AddEntry(moved, local)

(* The entry list of a backup over the given local and remote files. *)
MergeEntries(local, remote, chunks) ==
  FoldLeft(LAMBDA list, e : MergeEntry(list, e, chunks),
           [remote |-> remote, last |-> 0 - 1, preserved |-> <<>>,
            entries |-> <<>>, modified |-> <<>>],
           local)

---------------------------------------------------------------------------
(* UploadSnapshot renumbers the chunks; ListRemoteFiles undoes the coding *)

RelativeStart(sc, lastEnd) == sc - lastEnd

(* uploadEntryInfoFunc: only chunks that files use are kept, in the order  *)
(* of the files; the indices are stored relative to the file before.       *)
UploadEntry(acc, e, chunks) ==
  LET shared == e.sc = acc.last
      delta  == e.sc - Len(acc.chunks) + (IF shared THEN 1 ELSE 0)
      first  == IF shared THEN e.sc + 1 ELSE e.sc
      coded  == [e EXCEPT !.sc = RelativeStart(e.sc - delta, acc.lastEnd),
                          !.ec = e.ec - e.sc]
  IN IF e.size = 0 THEN [acc EXCEPT !.entries = Append(@, e)]
     ELSE [chunks  |-> acc.chunks \o SubSeq(chunks, first + 1, e.ec + 1),
           last    |-> e.ec,
           lastEnd |-> e.ec - delta,
           entries |-> Append(acc.entries, coded)]

(* The snapshot written for a list of entries placed in the given chunks. *)
EncodeSnapshot(entries, chunks) ==
  LET up == FoldLeft(LAMBDA acc, e : UploadEntry(acc, e, chunks),
                     [chunks |-> <<>>, last |-> 0 - 1, lastEnd |-> 0, entries |-> <<>>],
                     entries)
  IN [chunks |-> up.chunks, entries |-> up.entries]

(* ListRemoteFiles: absolute positions again. *)
DecodeSnapshot(snapshot) ==
  FoldLeft(LAMBDA acc, e :
             LET sc == acc.lastEnd + e.sc
             IN [lastEnd |-> sc + e.ec,
                 out     |-> Append(acc.out, [e EXCEPT !.sc = sc, !.ec = sc + e.ec])],
           [lastEnd |-> 0, out |-> <<>>], snapshot.entries).out

---------------------------------------------------------------------------
(* RestoreFile, in place: what becomes of an existing file *)

(* Bytes of the existing file read for the chunk i of the entry; one more  *)
(* byte is read after the last chunk, to notice a longer file.             *)
PieceSize(e, lengths, i) ==
  CASE i = e.sc               -> lengths[i + 1] - e.so
    [] i # e.sc /\ i = e.ec   -> e.eo
    [] i > e.sc /\ i < e.ec   -> lengths[i + 1]
    [] OTHER                  -> 1

PieceOffset(e, lengths, i) ==
  FoldLeft(+, 0, [k \in 1 .. i - e.sc |-> PieceSize(e, lengths, e.sc + k - 1)])

Piece(e, lengths, i, existing) ==
  SubSeq(existing, PieceOffset(e, lengths, i) + 1,
         Min({Len(existing), PieceOffset(e, lengths, i) + PieceSize(e, lengths, i)}))

(* Mutant: a piece as long as what is needed of the chunk is kept. *)
KeepsPieceBySize(e, chunks, i, existing) ==
  LET end == IF i = e.ec THEN e.eo ELSE Len(chunks[i + 1])
  IN i > e.sc /\ Len(Piece(e, Lengths(chunks), i, existing)) = end

(* The chunk is already in place in the existing file. *)
KeepsPiece(e, chunks, i, existing) ==
  LET end == IF i = e.ec THEN e.eo ELSE Len(chunks[i + 1])
  IN /\ i = e.sc => e.so = 0
     /\ end = PieceSize(e, Lengths(chunks), i)
     /\ Piece(e, Lengths(chunks), i, existing) = chunks[i + 1]

(* The part of chunk i that belongs to the entry. *)
ChunkPart(e, chunks, i) ==
  SubSeq(chunks[i + 1], IF i = e.sc THEN e.so + 1 ELSE 1,
                        IF i = e.ec THEN e.eo ELSE Len(chunks[i + 1]))

(* The file after the restore: left alone if its hash is the entry's, else *)
(* written chunk by chunk and truncated.                                   *)
RestoreInPlace(e, chunks, existing) ==
  LET lengths == Lengths(chunks)
      seen    == SubSeq(existing, 1, Min({Len(existing), PieceOffset(e, lengths, e.ec + 1) + 1}))
  IN IF seen = e.hash THEN existing
     ELSE FlattenSeq([k \in 1 .. e.ec - e.sc + 1 |->
            LET i == e.sc + k - 1
            IN IF KeepsPiece(e, chunks, i, existing) THEN Piece(e, lengths, i, existing)
               ELSE ChunkPart(e, chunks, i)])
=============================================================================
