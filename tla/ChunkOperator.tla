---------------------------- MODULE ChunkOperator ----------------------------
(***************************************************************************)
(* The pool of worker goroutines every command hands its chunk tasks to:   *)
(* a task queue as long as there are threads, a counter of active tasks    *)
(* under completionLock, and a condition variable that the task finishing  *)
(* last broadcasts on.  What a task does to the storage is the business of *)
(* the modules that use the pool; here it succeeds, or LOG_ERROR panics.   *)
(***************************************************************************)
EXTENDS Integers, Sequences, FiniteSets

CONSTANTS
  Caller,   \* goroutines that use the operator
  Worker,   \* its threads
  Task,     \* tasks there are to add
  MayFail   \* a task may end in LOG_ERROR

ASSUME OperatorAssumption == IsFiniteSet(Worker) /\ Worker /= {} /\ MayFail \in BOOLEAN

VARIABLES
  unadded,              \* tasks no caller has added yet
  caller,               \* caller[c]: where the caller c is
  worker,               \* worker[w]: where the worker w is
  taskQueue,
  numberOfActiveTasks,
  stopped,
  failed,               \* tasks that ended in LOG_ERROR
  exited                \* the process is gone

vars == <<unadded, caller, worker, taskQueue, numberOfActiveTasks, stopped, failed, exited>>

(* "counted": AddTask has counted the task and is handing it over;         *)
(* "receiving": Download waits for the chunk; "waiting": WaitForCompletion *)
(* is about to look at the counter; "parked": it is in idleCond.Wait;      *)
(* "sending": Stop is sending to the workers; 'sent' counts how many got   *)
(* it; 'stop' tells the wait of Stop from a plain one.                     *)
CallerState ==
  [pc : {"ready", "counted", "receiving", "waiting", "parked", "sending", "stopped"},
   tasks : SUBSET Task, sync : BOOLEAN, stop : BOOLEAN, sent : Nat]

(* "panicking": Run's deferred function is still to run; "dead": it has,   *)
(* and CatchLogException is about to exit.                                 *)
WorkerState == [pc : {"idle", "running", "finishing", "panicking", "dead", "gone"},
                tasks : SUBSET Task]

TypeOK ==
  /\ unadded \subseteq Task
  /\ caller \in [Caller -> CallerState]
  /\ worker \in [Worker -> WorkerState]
  /\ taskQueue \in Seq(Task) /\ Len(taskQueue) <= Cardinality(Worker)
  /\ numberOfActiveTasks \in Nat
  /\ stopped \in BOOLEAN
  /\ failed \subseteq Task
  /\ exited \in BOOLEAN

ReadyCaller == [pc |-> "ready", tasks |-> {}, sync |-> FALSE, stop |-> FALSE, sent |-> 0]

IdleWorker == [pc |-> "idle", tasks |-> {}]

(* CreateChunkOperator *)
Init ==
  /\ unadded = Task
  /\ caller = [c \in Caller |-> ReadyCaller]
  /\ worker = [w \in Worker |-> IdleWorker]
  /\ taskQueue = <<>>
  /\ numberOfActiveTasks = 0
  /\ stopped = FALSE
  /\ failed = {}
  /\ exited = FALSE

-----------------------------------------------------------------------------
(* The callers. *)

(* The operator belongs to whoever calls Stop: tasks are not added after   *)
(* that, and nobody is adding one when it is called.                       *)
Stopping == \E c \in Caller : caller[c].stop

(* Mutant: the task is not counted before it is handed over. *)
AddTaskUncounted(c, t, sync) ==
  /\ caller[c].pc = "ready" /\ t \in unadded /\ ~Stopping
  /\ unadded' = unadded \ {t}
  /\ caller' = [caller EXCEPT ![c].pc = "counted", ![c].tasks = {t}, ![c].sync = sync]
  /\ UNCHANGED <<worker, taskQueue, numberOfActiveTasks, stopped, failed, exited>>

(* AddTask up to the unlock; 'sync' is Download, which waits for the       *)
(* chunk.                                                                  *)
AddTask(c, t, sync) ==
  /\ caller[c].pc = "ready" /\ t \in unadded /\ ~Stopping
  /\ unadded' = unadded \ {t}
  /\ caller' = [caller EXCEPT ![c].pc = "counted", ![c].tasks = {t}, ![c].sync = sync]
  /\ numberOfActiveTasks' = numberOfActiveTasks + 1
  /\ UNCHANGED <<worker, taskQueue, stopped, failed, exited>>

(* The send, which blocks while the queue is full. *)
HandOver(c) ==
  /\ caller[c].pc = "counted"
  /\ Len(taskQueue) < Cardinality(Worker)
  /\ \E t \in caller[c].tasks : taskQueue' = Append(taskQueue, t)
  /\ caller' = [caller EXCEPT ![c] =
       IF caller[c].sync THEN [caller[c] EXCEPT !.pc = "receiving"] ELSE ReadyCaller]
  /\ UNCHANGED <<unadded, worker, numberOfActiveTasks, stopped, failed, exited>>

(* WaitForCompletion is called, or Stop, which begins with it. *)
Wait(c, stop) ==
  /\ caller[c].pc = "ready"
  /\ stop => /\ \A d \in Caller : caller[d].pc \notin {"counted", "receiving"}
             /\ ~\E d \in Caller : caller[d].stop /\ caller[d].pc /= "stopped"
  /\ caller' = [caller EXCEPT ![c].pc = "waiting", ![c].stop = stop]
  /\ UNCHANGED <<unadded, worker, taskQueue, numberOfActiveTasks, stopped, failed, exited>>

(* One turn of the loop of WaitForCompletion, under the lock; Stop goes on *)
(* to take the lock again and returns if it was called before.             *)
CheckIdle(c) ==
  /\ caller[c].pc = "waiting"
  /\ IF numberOfActiveTasks > 0
     THEN caller' = [caller EXCEPT ![c].pc = "parked"] /\ UNCHANGED stopped
     ELSE IF caller[c].stop /\ ~stopped
     THEN caller' = [caller EXCEPT ![c].pc = "sending"] /\ stopped' = TRUE
     ELSE caller' = [caller EXCEPT ![c] = ReadyCaller] /\ UNCHANGED stopped
  /\ UNCHANGED <<unadded, worker, taskQueue, numberOfActiveTasks, failed, exited>>

(* One send of Stop, received by the idle worker w. *)
SendStop(c, w) ==
  /\ caller[c].pc = "sending"
  /\ worker[w].pc = "idle"
  /\ worker' = [worker EXCEPT ![w].pc = "gone"]
  /\ caller' = [caller EXCEPT ![c].sent = @ + 1,
                              ![c].pc = IF caller[c].sent + 1 = Cardinality(Worker) THEN "stopped" ELSE @]
  /\ UNCHANGED <<unadded, taskQueue, numberOfActiveTasks, stopped, failed, exited>>

-----------------------------------------------------------------------------
(* The workers. *)

TakeTask(w) ==
  /\ worker[w].pc = "idle"
  /\ taskQueue /= <<>>
  /\ worker' = [worker EXCEPT ![w] = [pc |-> "running", tasks |-> {Head(taskQueue)}]]
  /\ taskQueue' = Tail(taskQueue)
  /\ UNCHANGED <<unadded, caller, numberOfActiveTasks, stopped, failed, exited>>

(* Mutant: the chunk is sent to any caller that waits for one.             *)
CompleteAny(w) ==
  /\ worker[w].pc = "running"
  /\ worker' = [worker EXCEPT ![w].pc = "finishing"]
  /\ caller' = [c \in Caller |-> IF caller[c].pc = "receiving" THEN ReadyCaller ELSE caller[c]]
  /\ UNCHANGED <<unadded, taskQueue, numberOfActiveTasks, stopped, failed, exited>>

(* The task is done and its completion function is called, which for       *)
(* Download sends the chunk to the caller.                                 *)
Complete(w) ==
  /\ worker[w].pc = "running"
  /\ worker' = [worker EXCEPT ![w].pc = "finishing"]
  /\ caller' = [c \in Caller |->
       IF caller[c].pc = "receiving" /\ caller[c].tasks = worker[w].tasks
       THEN ReadyCaller ELSE caller[c]]
  /\ UNCHANGED <<unadded, taskQueue, numberOfActiveTasks, stopped, failed, exited>>

(* LOG_ERROR: the completion function is not called. *)
Panic(w) ==
  /\ MayFail
  /\ worker[w].pc = "running"
  /\ worker' = [worker EXCEPT ![w].pc = "panicking"]
  /\ failed' = failed \union worker[w].tasks
  /\ UNCHANGED <<unadded, caller, taskQueue, numberOfActiveTasks, stopped, exited>>

(* Mutant: one of those who wait is woken. *)
SignalOne(cs) ==
  LET parked == {c \in Caller : cs[c].pc = "parked"}
  IN IF parked = {} THEN cs ELSE [cs EXCEPT ![CHOOSE c \in parked : TRUE].pc = "waiting"]

Broadcast(cs) ==
  [c \in Caller |-> IF cs[c].pc = "parked" THEN [cs[c] EXCEPT !.pc = "waiting"] ELSE cs[c]]

(* Mutant: a worker survives the panic of its task. *)
AfterRunRecovered(state) == IdleWorker

AfterRun(state) == IF state.pc = "panicking" THEN [state EXCEPT !.pc = "dead"] ELSE IdleWorker

(* The deferred function of Run, on both ways out. *)
Finish(w) ==
  /\ worker[w].pc \in {"finishing", "panicking"}
  /\ numberOfActiveTasks' = numberOfActiveTasks - 1
  /\ caller' = IF numberOfActiveTasks = 1 THEN Broadcast(caller) ELSE caller
  /\ worker' = [worker EXCEPT ![w] = AfterRun(worker[w])]
  /\ UNCHANGED <<unadded, taskQueue, stopped, failed, exited>>

(* CatchLogException *)
Exit(w) ==
  /\ worker[w].pc = "dead"
  /\ exited' = TRUE
  /\ UNCHANGED <<unadded, caller, worker, taskQueue, numberOfActiveTasks, stopped, failed>>

-----------------------------------------------------------------------------
CallerCalls(c) == (\E t \in Task, sync \in BOOLEAN : AddTask(c, t, sync)) \/ (\E stop \in BOOLEAN : Wait(c, stop))

CallerRuns(c) == HandOver(c) \/ CheckIdle(c) \/ (\E w \in Worker : SendStop(c, w))

WorkerRuns(w) == TakeTask(w) \/ Complete(w) \/ Panic(w) \/ Finish(w) \/ Exit(w)

Terminated ==
  /\ exited \/ \A c \in Caller : caller[c].pc = "stopped"
  /\ UNCHANGED vars

Next ==
  \/ /\ ~exited
     /\ \/ \E c \in Caller : CallerCalls(c) \/ CallerRuns(c)
        \/ \E w \in Worker : WorkerRuns(w)
  \/ Terminated

(* Every goroutine that can run does, and a storage request returns; what  *)
(* a caller calls, and when, is up to it.                                  *)
Fairness ==
  /\ \A c \in Caller : WF_vars(~exited /\ CallerRuns(c))
  /\ \A w \in Worker : WF_vars(~exited /\ WorkerRuns(w))

Spec == Init /\ [][Next]_vars /\ Fairness

-----------------------------------------------------------------------------
(* A wait that returns has waited for every task that was added, the ones  *)
(* on their way to the workers included.                                   *)
WaitedForAll ==
  [][\A c \in Caller :
       caller[c].pc = "waiting" /\ caller'[c].pc \notin {"waiting", "parked"} =>
         /\ taskQueue = <<>>
         /\ \A d \in Caller : caller[d].pc /= "counted"
         /\ \A w \in Worker : worker[w].pc \notin {"running", "finishing", "panicking"}]_vars

(* Stop returns to its first caller only if no task failed: a worker that  *)
(* panicked never takes its message, so the process exits first.           *)
StopMeansSuccess ==
  \A c \in Caller : caller[c].pc = "stopped" =>
    failed = {} /\ \A w \in Worker : worker[w].pc = "gone"

(* A task is in flight from AddTask until its completion function is       *)
(* called: with its caller, in the queue or with a worker.                 *)
InFlight(t) ==
  \/ \E c \in Caller : caller[c].pc = "counted" /\ caller[c].tasks = {t}
  \/ \E n \in 1..Len(taskQueue) : taskQueue[n] = t
  \/ \E w \in Worker : worker[w].pc = "running" /\ worker[w].tasks = {t}

(* What the callers see of all this.                                       *)
TaskStatus ==
  [t \in Task |-> IF t \in unadded THEN "new" ELSE IF t \in failed THEN "failed"
                 ELSE IF InFlight(t) THEN "pending" ELSE "done"]

CallerStatus ==
  [c \in Caller |-> CASE caller[c].pc \in {"waiting", "parked"} -> "waiting"
                     [] caller[c].pc = "sending" -> "closing"
                     [] caller[c].pc = "stopped" -> "closed"
                     [] OTHER -> "free"]

Awaited ==
  [c \in Caller |-> IF caller[c].pc \in {"counted", "receiving"} /\ caller[c].sync THEN caller[c].tasks ELSE {}]

Threads == {w \in Worker : worker[w].pc /= "gone"}

Promise == INSTANCE TaskPool WITH
  task <- TaskStatus, state <- CallerStatus, awaited <- Awaited, threads <- Threads

(* The queue, the counter, the condition variable and the stop messages    *)
(* implement a set of tasks: each that is added is done once or fails,     *)
(* Download returns with its own chunk and no other, a wait returns when   *)
(* nothing is left to do, and Stop, to its first caller, when every thread *)
(* has ended and none of the tasks has failed.                             *)
PoolImplemented == Promise!Spec

(* WaitForCompletion and Stop return, unless the process exits. *)
WaitReturns ==
  \A c \in Caller :
    caller[c].pc \in {"waiting", "parked", "sending"} ~>
      exited \/ caller[c].pc \in {"ready", "stopped"}

(* A task that ends in LOG_ERROR ends the process. *)
FailureExits == failed /= {} ~> exited

=============================================================================
