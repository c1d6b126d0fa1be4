--------------------------- MODULE MCCopySnapshots --------------------------
(* CopySnapshots with two chunks and three revisions. *)
EXTENDS CopySnapshots

\* The second revision drops a chunk and the third takes it up again.
MCRefs == [r \in Revision |-> IF r = 2 THEN {"c1"} ELSE {"c1", "c2"}]

\* Only the first revision has the second chunk.
MCRefsOlder == [r \in Revision |-> IF r = 1 THEN {"c1", "c2"} ELSE {"c1"}]
=============================================================================
