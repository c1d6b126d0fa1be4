---------------------------- MODULE ChunkCoding ----------------------------
(***************************************************************************)
(* The stored form of a chunk with erasure coding: a header, a hash of     *)
(* every shard, the data shards, the parity shards and the header again.   *)
(* Lengths are counted in half shards after the hashes, so that a file can *)
(* end inside a shard; the second header counts as one half.  Encryption   *)
(* and compression work on what the shards hold and are left out: what     *)
(* they make of wrong bytes, an error or another content, is rejected by   *)
(* the caller in the same way.                                             *)
(***************************************************************************)
EXTENDS Naturals, FiniteSets

CONSTANTS
  DataShards, ParityShards,  \* of the config, with erasure coding
  Arm64                      \* the build accepts hashes of the faulty version

ASSUME ShardsAssumption == DataShards \in Nat \ {0} /\ ParityShards \in Nat \ {0} /\ Arm64 \in BOOLEAN

Shards == 1..(DataShards + ParityShards)

ExpectedLength == 2 * (DataShards + ParityShards) + 1

(* The minimum length that can be recovered from, which is itself refused. *)
MinimumLength == 2 * DataShards

(* "good" matches the hash stored for the shard, "old" a hash computed by  *)
(* the faulty version of the hash, "bad" neither.                          *)
File == [header : BOOLEAN, shard : [Shards -> {"good", "old", "bad"}], length : 0..ExpectedLength]

NoFile == [header |-> FALSE, shard |-> [i \in Shards |-> "bad"], length |-> 0]

Encrypt == [header |-> TRUE, shard |-> [i \in Shards |-> "good"], length |-> ExpectedLength]

(* The shards that are complete, those whose hash matches, and those the   *)
(* loop looks at before it has as many as it needs.                        *)
Complete(f) == {i \in Shards : 2 * i <= f.length}
Matched(f) == {i \in Complete(f) : f.shard[i] = "good" \/ (Arm64 /\ f.shard[i] = "old")}
Visited(f) == {i \in Complete(f) : Cardinality({j \in Matched(f) : j < i}) < DataShards}

RecoveryNeeded(f) == \E i \in Visited(f) \ Matched(f) : i <= DataShards

RewriteNeeded(f) == RecoveryNeeded(f) \/ \E i \in Visited(f) \intersect Matched(f) : f.shard[i] = "old"

(* Whether Decrypt returns the content of the chunk rather than an error   *)
(* or other bytes, which GetID tells apart.                                *)
Decrypt(f) ==
  /\ f.header /\ f.length > MinimumLength
  /\ IF RecoveryNeeded(f) THEN Cardinality(Matched(f)) >= DataShards
                          ELSE \A i \in 1..DataShards : i \in Matched(f)

(* Reference: enough of the file is intact.  It has its header, more than  *)
(* the bytes of the data shards, and as many sound shards as there are     *)
(* data shards.                                                            *)
Recoverable(f) ==
  /\ f.header /\ f.length > 2 * DataShards
  /\ Cardinality({i \in Shards : 2 * i <= f.length /\ (f.shard[i] = "good" \/ (Arm64 /\ f.shard[i] = "old"))}) >= DataShards

=============================================================================
