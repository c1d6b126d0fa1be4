----------------------------- MODULE Retention -----------------------------
(***************************************************************************)
(* Which snapshots of an id prune -keep deletes, as backups and prunes     *)
(* alternate for days.  The unit of time is half a day, so that snapshots  *)
(* of one day differ; ages and intervals are counted in dates.  Tags,      *)
(* which exempt snapshots, are left out.                                   *)
(***************************************************************************)
EXTENDS Integers, Sequences, FiniteSetsExt

CONSTANTS
  PolicyLists,  \* lists of policies, in decreasing order of age
  MaxTime,      \* bound on the clock
  Daily         \* a backup is made every day

ASSUME RetentionAssumption ==
  /\ MaxTime \in Nat /\ Daily \in BOOLEAN
  /\ \A P \in PolicyLists : \A k \in 1..Len(P) : P[k].age \in Nat \ {0} /\ P[k].interval \in Nat

VARIABLES
  now,
  made, kept,   \* start times of all the snapshots, and of those that exist
  retentionPolicies

retentionVars == <<now, made, kept, retentionPolicies>>

getDaysBetween(start, end) == end \div 2 - start \div 2

RetentionInit == now = 1 /\ made = {} /\ kept = {} /\ retentionPolicies \in PolicyLists

(* The policy for a snapshot of that many days, from the i-th on; one more *)
(* than there are if none applies.                                         *)
PolicyFrom(i, days) ==
  Min({k \in i..Len(retentionPolicies) : retentionPolicies[k].age <= days} \union {Len(retentionPolicies) + 1})

(* Mutant: the last snapshot is remembered, kept or not. *)
LastKeptOrNot(last, t) == t

(* A snapshot that is deleted is not the one the next is compared with. *)
LastKept(last, t) == last

(* One turn of the loop: the policy reached, the time of the last snapshot *)
(* kept under it (0 if there is none) and what is to be deleted.           *)
Consider(s, t, exclusive) ==
  LET i == PolicyFrom(s.i, getDaysBetween(t, now))
      last == IF i = s.i THEN s.last ELSE 0
      tooClose == last /= 0 /\ getDaysBetween(last, t) < retentionPolicies[i].interval
  IN IF ~exclusive /\ t = Max(kept) THEN s
     ELSE IF i > Len(retentionPolicies) THEN [s EXCEPT !.i = i]
     ELSE IF retentionPolicies[i].interval = 0 THEN [i |-> i, last |-> last, deleted |-> s.deleted \union {t}]
     ELSE IF tooClose THEN [i |-> i, last |-> LastKept(last, t), deleted |-> s.deleted \union {t}]
     ELSE [i |-> i, last |-> t, deleted |-> s.deleted]

ToBeDeleted(exclusive) ==
  LET upTo[t \in 0..now] ==
        IF t = 0 THEN [i |-> 1, last |-> 0, deleted |-> {}]
        ELSE IF t \in kept THEN Consider(upTo[t - 1], t, exclusive) ELSE upTo[t - 1]
  IN upTo[now].deleted

Prune(exclusive) ==
  /\ Cardinality(kept) > 1
  /\ kept' = kept \ ToBeDeleted(exclusive)
  /\ UNCHANGED <<now, made, retentionPolicies>>

Backup ==
  /\ now \notin made
  /\ made' = made \union {now} /\ kept' = kept \union {now}
  /\ UNCHANGED <<now, retentionPolicies>>

Tick ==
  /\ now < MaxTime
  /\ Daily => \E t \in made : getDaysBetween(t, now + 1) <= 1
  /\ now' = now + 1
  /\ UNCHANGED <<made, kept, retentionPolicies>>

RetentionNext == Backup \/ Tick \/ \E exclusive \in BOOLEAN : Prune(exclusive)

-----------------------------------------------------------------------------
(* The policies a snapshot has come under so far. *)
Applied(t) == {k \in 1..Len(retentionPolicies) : retentionPolicies[k].age <= getDaysBetween(t, now)}

Interval(k) == retentionPolicies[k].interval

(* However often prune runs, a deleted snapshot has one near it that was   *)
(* kept instead: no further than the intervals of the policies that have   *)
(* applied to it together, as long as none of them says to keep nothing.   *)
(* Thinning what earlier runs left does not leave wider gaps.              *)
RetentionCovers ==
  \A t \in made \ kept :
    (\A k \in Applied(t) : Interval(k) /= 0)
      => LET reach == MapThenSumSet(Interval, Applied(t))
         IN \E u \in kept : getDaysBetween(u, t) \in -reach..reach

=============================================================================
