-------------------------- MODULE SnapshotDeletion --------------------------
(***************************************************************************)
(* How prune deletes the snapshot files it has selected: workers claim     *)
(* them one by one, finish in any order and may fail or panic, while the   *)
(* calling goroutine reports each deletion, and drops the cached copy, in  *)
(* the order of the revisions.                                             *)
(***************************************************************************)
EXTENDS Naturals, Sequences, FiniteSets

CONSTANTS
  Worker,        \* the goroutines: -threads
  MaxSnapshots   \* bound on the snapshots selected

ASSUME DeletionAssumption ==
  MaxSnapshots \in Nat /\ MaxSnapshots > 1 /\ Cardinality(Worker) > 1

VARIABLES
  count,         \* len(snapshotsToDelete)
  nextSnapshot,  \* the last index claimed
  slot,          \* deleteDone and deleteErrors: "open", "gone" or "failed"
  worker,        \* the index a worker deletes, 0 between two, Ended
  caller,        \* the calling goroutine
  log            \* the deletions reported, each with its cached copy removed

deletionVars == <<count, nextSnapshot, slot, worker, caller, log>>

Ended == MaxSnapshots + 1
Index == 1..count

(* As many workers as there are threads, but no more than files. *)
Workers(n) ==
  {started \in SUBSET Worker :
     Cardinality(started) = IF Cardinality(Worker) > n THEN n ELSE Cardinality(Worker)}

StartedWorkers(started) == [w \in Worker |-> IF w \in started THEN 0 ELSE Ended]
NewCaller == [pc |-> "wait", nextToRemove |-> 1, upTo |-> 0, failedIndex |-> 0]

(* One file, or one thread, is deleted by the plain loop and not by these. *)
Begins(n) ==
  /\ count' = n /\ nextSnapshot' = 0 /\ slot' = [i \in 1..n |-> "open"]
  /\ \E started \in Workers(n) : worker' = StartedWorkers(started)
  /\ caller' = NewCaller /\ log' = <<>>

DeletionInit ==
  /\ count \in 2..MaxSnapshots
  /\ nextSnapshot = 0 /\ slot = [i \in 1..count |-> "open"]
  /\ \E started \in Workers(count) : worker = StartedWorkers(started)
  /\ caller = NewCaller /\ log = <<>>

(* A worker takes the next index, or ends when there is none. *)
Claim(w) ==
  /\ worker[w] = 0
  /\ IF nextSnapshot < count
     THEN nextSnapshot' = nextSnapshot + 1 /\ worker' = [worker EXCEPT ![w] = nextSnapshot + 1]
     ELSE worker' = [worker EXCEPT ![w] = Ended] /\ UNCHANGED nextSnapshot
  /\ UNCHANGED <<count, slot, caller, log>>

DeleteSnapshotFile(w) ==
  /\ worker[w] \in Index
  /\ \E result \in {"gone", "failed"} : slot' = [slot EXCEPT ![worker[w]] = result]
  /\ worker' = [worker EXCEPT ![w] = 0]
  /\ UNCHANGED <<count, nextSnapshot, caller, log>>

(* The deferred function finishes the slot of a worker that panics; the    *)
(* worker claims no more.  The last worker is assumed not to panic while   *)
(* there are files to claim: nobody would finish their slots.              *)
DeletePanics(w) ==
  /\ worker[w] \in Index
  /\ nextSnapshot = count \/ \E v \in Worker \ {w} : worker[v] /= Ended
  /\ slot' = [slot EXCEPT ![worker[w]] = "failed"]
  /\ worker' = [worker EXCEPT ![w] = Ended]
  /\ UNCHANGED <<count, nextSnapshot, caller, log>>

(* Mutant: whatever has finished is reported, not only the contiguous run. *)
ReadyAny(i) == slot[i] /= "open" /\ \E j \in caller.nextToRemove..i : slot[j] /= "open"

(* The run of finished slots that begins at nextToRemove includes i. *)
Ready(i) == \A j \in caller.nextToRemove..i : slot[j] /= "open"

(* The caller wakes, takes the run and unlocks. *)
TakeReady ==
  /\ caller.pc = "wait"
  /\ \E n \in caller.nextToRemove..count :
       /\ Ready(n) /\ (n < count => ~Ready(n + 1))
       /\ caller' = [caller EXCEPT !.pc = "report", !.upTo = n]
  /\ UNCHANGED <<count, nextSnapshot, slot, worker, log>>

(* It reports one: nothing after the first failure, which is remembered. *)
Report ==
  /\ caller.pc = "report" /\ caller.nextToRemove <= caller.upTo
  /\ LET i == caller.nextToRemove
     IN /\ log' = IF slot[i] = "gone" /\ caller.failedIndex = 0 THEN Append(log, i) ELSE log
        /\ caller' = [caller EXCEPT !.nextToRemove = i + 1,
                                    !.failedIndex = IF slot[i] = "failed" /\ @ = 0 THEN i ELSE @]
  /\ UNCHANGED <<count, nextSnapshot, slot, worker>>

Reported ==
  /\ caller.pc = "report" /\ caller.nextToRemove > caller.upTo
  /\ caller' = [caller EXCEPT !.pc = IF caller.nextToRemove > count THEN "join" ELSE "wait"]
  /\ UNCHANGED <<count, nextSnapshot, slot, worker, log>>

(* The workers are waited for, and then the first failure raised. *)
Join ==
  /\ caller.pc = "join" /\ \A w \in Worker : worker[w] = Ended
  /\ caller' = [caller EXCEPT !.pc = "ended"]
  /\ UNCHANGED <<count, nextSnapshot, slot, worker, log>>

(* Another prune. *)
PruneAgain == caller.pc = "ended" /\ \E n \in 2..MaxSnapshots : Begins(n)

DeletionNext ==
  \/ \E w \in Worker : Claim(w) \/ DeleteSnapshotFile(w) \/ DeletePanics(w)
  \/ TakeReady \/ Report \/ Reported \/ Join \/ PruneAgain

DeletionSpec == DeletionInit /\ [][DeletionNext]_deletionVars

-----------------------------------------------------------------------------
(* What is reported is what the loop of a single thread reports, however   *)
(* the deletions overlap: the revisions in order, each deleted, up to the  *)
(* first that failed; and the error raised in the end is that of the first *)
(* in the order of the revisions, not in time.                             *)
LogIsSerial ==
  LET failed == {i \in Index : slot[i] = "failed"}
  IN /\ \A k \in 1..Len(log) : log[k] = k /\ \A j \in 1..k : slot[j] = "gone"
     /\ caller.pc = "ended" =>
          IF failed = {} THEN Len(log) = count /\ caller.failedIndex = 0
          ELSE caller.failedIndex = Len(log) + 1 /\ \A i \in failed : caller.failedIndex <= i

=============================================================================
