---------------------------- MODULE SnapshotStore ----------------------------
(***************************************************************************)
(* What lock-free deduplication promises its users: a store of snapshots   *)
(* whose chunks can be read, from which only what nobody needs goes away.  *)
(* Fossils, collections, tasks, caches, listings and clocks are not        *)
(* visible here; LockFreeDedup is shown to implement this specification.   *)
(***************************************************************************)
EXTENDS Naturals

CONSTANTS Chunk, Id

VARIABLES
  snapshots,  \* the snapshots there are
  readable,   \* the chunks that can be read
  relied      \* relied[i]: the chunks the backup of i takes for stored

vars == <<snapshots, readable, relied>>

(* A snapshot, or a backup that is under way, needs the chunk c. *)
Needed(c) == (\E s \in snapshots : c \in s.chunks) \/ \E i \in Id : c \in relied[i]

Complete(s) == s.chunks \subseteq readable

-----------------------------------------------------------------------------
Init ==
  /\ \A s \in snapshots : Complete(s)
  /\ relied = [i \in Id |-> {}]

(* A backup of i takes what a snapshot of i references for stored. *)
Begin(i) ==
  /\ \E s \in snapshots : s.id = i /\ relied' = [relied EXCEPT ![i] = s.chunks]
  /\ UNCHANGED <<snapshots, readable>>

(* It finds the chunk c. *)
Find(i, c) ==
  /\ c \in readable
  /\ relied' = [relied EXCEPT ![i] = @ \union {c}]
  /\ UNCHANGED <<snapshots, readable>>

(* It stores the chunk c. *)
Store(i, c) ==
  /\ readable' = readable \union {c}
  /\ relied' = [relied EXCEPT ![i] = @ \union {c}]
  /\ UNCHANGED snapshots

(* It is not sure of the chunk c any more. *)
Doubt(i, c) ==
  /\ relied' = [relied EXCEPT ![i] = @ \ {c}]
  /\ UNCHANGED <<snapshots, readable>>

(* It becomes a new latest snapshot of i, all at once. *)
Commit(i) ==
  /\ \E s \in snapshots' :
       /\ s.id = i /\ s.chunks \subseteq relied[i]
       /\ \A t \in snapshots : t.id = i => t.revision < s.revision
       /\ snapshots' = snapshots \union {s}
  /\ relied' = [relied EXCEPT ![i] = {}]
  /\ UNCHANGED readable

(* Or it gives up. *)
Abandon(i) ==
  /\ relied' = [relied EXCEPT ![i] = {}]
  /\ UNCHANGED <<snapshots, readable>>

(* A snapshot that is not the latest of its id is deleted. *)
Expire(s) ==
  /\ \E t \in snapshots : t.id = s.id /\ s.revision < t.revision
  /\ snapshots' = snapshots \ {s}
  /\ UNCHANGED <<readable, relied>>

(* A chunk that nobody needs goes away. *)
Reclaim(c) ==
  /\ ~Needed(c)
  /\ readable' = readable \ {c}
  /\ UNCHANGED <<snapshots, relied>>

Next ==
  \/ \E i \in Id : Begin(i) \/ Commit(i) \/ Abandon(i)
  \/ \E i \in Id, c \in Chunk : Find(i, c) \/ Store(i, c) \/ Doubt(i, c)
  \/ \E s \in snapshots : Expire(s)
  \/ \E c \in Chunk : Reclaim(c)

Spec == Init /\ [][Next]_vars

=============================================================================
