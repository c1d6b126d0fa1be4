--------------------------- MODULE MCFilePacking ---------------------------
EXTENDS FilePacking

MCSize == << <<2, 2>>, <<1, 0 - 1>>, <<1>> >>
MCChunkSizes == {<<1, 1>>, <<2, 3>>}

(* The last backup may be denied the first file from the beginning. *)
MCDeniedAtOnce == {MaxRuns} \X {1} \X {0}

(* Any backup may be denied the rest of a file. *)
MCDeniedHalfway == (1 .. MaxRuns) \X Files \X {0, 1}
=============================================================================
