------------------------------ MODULE TaskPool ------------------------------
(***************************************************************************)
(* What a chunk operator promises its callers: a set of tasks, each done   *)
(* once or failed, that several goroutines add to and wait for.  Queues,   *)
(* locks, counters and messages are not visible here; ChunkOperator is     *)
(* shown to implement this specification.                                  *)
(***************************************************************************)
EXTENDS Naturals

CONSTANTS Caller, Worker, Task

VARIABLES
  task,    \* task[t]: "new", "pending", "done" or "failed"
  state,   \* state[c]: whether the caller c waits, or has closed the pool
  awaited, \* awaited[c]: the task whose result c waits for, if any
  threads  \* the workers that are still there

vars == <<task, state, awaited, threads>>

Tasks(status) == {t \in Task : task[t] = status}

Callers(states) == {c \in Caller : state[c] \in states}

-----------------------------------------------------------------------------
Init ==
  /\ task = [t \in Task |-> "new"]
  /\ state = [c \in Caller |-> "free"]
  /\ awaited = [c \in Caller |-> {}]
  /\ threads = Worker

Free(c) == state[c] = "free" /\ awaited[c] = {}

(* The caller c adds a task, and waits for its result or not.              *)
Add(c, t, sync) ==
  /\ Free(c) /\ task[t] = "new" /\ Callers({"closing", "closed"}) = {}
  /\ task' = [task EXCEPT ![t] = "pending"]
  /\ awaited' = IF sync THEN [awaited EXCEPT ![c] = {t}] ELSE awaited
  /\ UNCHANGED <<state, threads>>

(* A task is done, and its result is handed to whoever waits for it.       *)
Do(t) ==
  /\ task[t] = "pending"
  /\ task' = [task EXCEPT ![t] = "done"]
  /\ awaited' = [c \in Caller |-> awaited[c] \ {t}]
  /\ UNCHANGED <<state, threads>>

Fail(t) ==
  /\ task[t] = "pending"
  /\ task' = [task EXCEPT ![t] = "failed"]
  /\ UNCHANGED <<state, awaited, threads>>

Wait(c) ==
  /\ Free(c)
  /\ state' = [state EXCEPT ![c] = "waiting"]
  /\ UNCHANGED <<task, awaited, threads>>

(* The wait ends when no task is pending; one caller goes on to close the  *)
(* pool.                                                                   *)
Return(c) ==
  /\ state[c] = "waiting" /\ Tasks("pending") = {}
  /\ \/ state' = [state EXCEPT ![c] = "free"]
     \/ Callers({"closing", "closed"}) = {} /\ state' = [state EXCEPT ![c] = "closing"]
  /\ UNCHANGED <<task, awaited, threads>>

(* The workers go, one by one; the pool is closed when the last has gone,  *)
(* and it never is if a task failed.                                       *)
Leave(w) ==
  /\ Callers({"closing"}) /= {} /\ w \in threads
  /\ threads' = threads \ {w}
  /\ UNCHANGED <<task, awaited>>
  /\ IF threads' /= {} THEN UNCHANGED state
     ELSE /\ Tasks("failed") = {}
          /\ state' = [c \in Caller |-> IF state[c] = "closing" THEN "closed" ELSE state[c]]

Next ==
  \/ \E c \in Caller : Wait(c) \/ Return(c) \/ \E t \in Task, sync \in BOOLEAN : Add(c, t, sync)
  \/ \E t \in Task : Do(t) \/ Fail(t)
  \/ \E w \in Worker : Leave(w)

Spec == Init /\ [][Next]_vars

=============================================================================
