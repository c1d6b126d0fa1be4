------------------------------- MODULE MCUpkeep -------------------------------
(* Chunk files with every kind of damage: a bad header, any shards bad, a  *)
(* hash of the faulty version beside a bad shard or alone, and files cut   *)
(* at and just after the data shards.                                      *)
EXTENDS ChunkReads, SnapshotCache, Retention, SnapshotDeletion, GCDListing

With(shard1, shard2, shard3, length) ==
  [header |-> TRUE, shard |-> <<shard1, shard2, shard3>>, length |-> length]

MCDamaged ==
  {Encrypt, [Encrypt EXCEPT !.header = FALSE]}
  \union {With(s, t, "good", ExpectedLength) : s \in {"bad", "old"}, t \in {"good", "bad"}}
  \union {With("good", "good", "bad", MinimumLength), With("good", "good", "bad", MinimumLength + 1),
          With("bad", "good", "good", MinimumLength + 1), With("bad", "good", "good", MinimumLength + 2)}

(* Two workers where only wrong bytes are possible, one where the storage  *)
(* denies files as well.                                                   *)
MCGivens ==
  {g \in [kind : {"hubic", "webdav", "other"}, pruning : BOOLEAN, metadata : SUBSET Chunk, readers : SUBSET Reader] :
     IF g.kind = "other" THEN g.readers = Reader ELSE Cardinality(g.readers) = 1}

Policy(interval, age) == [age |-> age, interval |-> interval]

MCPolicyLists ==
  {<<Policy(2, 2)>>, <<Policy(0, 5), Policy(2, 2)>>, <<Policy(3, 4), Policy(2, 2)>>,
   <<Policy(0, 7), Policy(4, 4), Policy(3, 2)>>}

(* The chunks of Google Drive with two nested directories, and the fossils. *)
MCDirectories == {"chunks", "fossils", "chunks/a", "chunks/b", "chunks/a/c"}
MCRoots == <<"chunks", "fossils">>
MCEntries == [d \in MCDirectories |-> CASE d = "chunks" -> <<"chunks/a", "chunks/b">>
                                        [] d = "chunks/a" -> <<"chunks/a/c">>
                                        [] OTHER -> << >>]

(* The five specifications share no variable, so that each is taken alone: *)
(* what one could do to another is an action there.  The initial states    *)
(* fix the part, and one initial state of the others.                      *)
VARIABLE part

AnyOf(S) == CHOOSE x \in S : TRUE

Init ==
  /\ part \in {"chunks", "snapshots", "retention", "deletion", "listing"}
  /\ ListingInit /\ (part /= "listing" => idCache = RootSet)
  /\ DeletionInit /\ (part /= "deletion" => count = MaxSnapshots)
  /\ RetentionInit /\ (part /= "retention" => retentionPolicies = AnyOf(PolicyLists))
  /\ SnapshotsInit /\ (part /= "snapshots" => faulty = "cache" /\ own)
  /\ ReadsInit /\ (part /= "chunks" => given = AnyOf(Givens) /\ \A c \in Chunk : chunkFile[c] = Encrypt)

Next ==
  \/ /\ part = "chunks" /\ ReadsNext
     /\ UNCHANGED <<snapshotVars, retentionVars, deletionVars, listingVars, part>>
  \/ /\ part = "snapshots" /\ SnapshotsNext
     /\ UNCHANGED <<readVars, retentionVars, deletionVars, listingVars, part>>
  \/ /\ part = "retention" /\ RetentionNext
     /\ UNCHANGED <<readVars, snapshotVars, deletionVars, listingVars, part>>
  \/ /\ part = "deletion" /\ DeletionNext
     /\ UNCHANGED <<readVars, snapshotVars, retentionVars, listingVars, part>>
  \/ /\ part = "listing" /\ ListingNext
     /\ UNCHANGED <<readVars, snapshotVars, retentionVars, deletionVars, part>>

vars == <<readVars, snapshotVars, retentionVars, deletionVars, listingVars, part>>

Spec == Init /\ [][Next]_vars

(* The listing by itself. *)
ListingAlone == Init /\ part = "listing" /\ [][Next]_vars /\ ListingFairness

=============================================================================
