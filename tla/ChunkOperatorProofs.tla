------------------------ MODULE ChunkOperatorProofs ------------------------
(***************************************************************************)
(* Proofs about ChunkOperator, for any number of callers, workers and      *)
(* tasks.  The counter under completionLock is the number of tasks between *)
(* AddTask and the deferred function of Run, wherever they are; and the    *)
(* messages Stop has sent are the workers that are gone.                   *)
(***************************************************************************)
EXTENDS ChunkOperator, FiniteSetTheorems, SequenceTheorems, TLAPS

-----------------------------------------------------------------------------
(* The inductive invariant. *)

Counted == {c \in Caller : caller[c].pc = "counted"}

Busy == {w \in Worker : worker[w].pc \in {"running", "finishing", "panicking"}}

Gone == {w \in Worker : worker[w].pc = "gone"}

(* A task is counted from AddTask to the end of Run: while its caller      *)
(* hands it over, while it is queued and while a worker has it.            *)
CountInv ==
  /\ IsFiniteSet(Counted)
  /\ numberOfActiveTasks = Cardinality(Counted) + Len(taskQueue) + Cardinality(Busy)

Enders == {c \in Caller : caller[c].pc \in {"sending", "stopped"}}

(* Only one call of Stop passes the check of 'stopped', it has sent as     *)
(* many messages as there are workers gone, and no task is added any more. *)
StopInv ==
  /\ ~stopped => Enders = {} /\ Gone = {}
  /\ \A c, d \in Enders : c = d
  /\ \A c \in Caller : caller[c].sent = IF c \in Enders THEN Cardinality(Gone) ELSE 0
  /\ \A c \in Caller : caller[c].pc = "stopped" => caller[c].sent = Cardinality(Worker)
  /\ \A c \in Enders : caller[c].stop
  /\ stopped => Enders /= {} /\ numberOfActiveTasks = 0

(* The worker whose task failed takes no other task and no message. *)
FailInv == failed /= {} => \E w \in Worker : worker[w].pc \in {"panicking", "dead"}

OperatorInv == TypeOK /\ CountInv /\ StopInv /\ FailInv

-----------------------------------------------------------------------------
(* What the steps of the proof share. *)

(* The sets the invariant counts are finite: there are finitely many workers. *)
LEMMA Sizes ==
  ASSUME TypeOK, CountInv
  PROVE  /\ IsFiniteSet(Busy) /\ IsFiniteSet(Gone)
         /\ Cardinality(Busy) \in Nat /\ Cardinality(Gone) \in Nat
         /\ Cardinality(Counted) \in Nat /\ Len(taskQueue) \in Nat
         /\ Cardinality(Worker) \in Nat
  <1>1. Busy \in SUBSET Worker /\ Gone \in SUBSET Worker
    BY DEF Busy, Gone
  <1>2. IsFiniteSet(Worker)
    BY OperatorAssumption
  <1>3. IsFiniteSet(Busy) /\ IsFiniteSet(Gone)
    BY <1>1, <1>2, FS_Subset
  <1>4. taskQueue \in Seq(Task)
    BY DEF TypeOK
  <1> QED
    BY <1>2, <1>3, <1>4, FS_CardinalityType, LenProperties DEF CountInv

(* CreateChunkOperator establishes the invariant: everybody is idle. *)
LEMMA InitOperatorInv == Init => OperatorInv
  <1> SUFFICES ASSUME Init PROVE OperatorInv
    OBVIOUS
  <1>1. Counted = {} /\ Busy = {} /\ Gone = {} /\ Enders = {}
    BY DEF Init, Counted, Busy, Gone, Enders, ReadyCaller, IdleWorker
  <1>2. Len(taskQueue) = 0 /\ taskQueue \in Seq(Task)
    BY DEF Init
  <1>3. 0 <= Cardinality(Worker)
    BY OperatorAssumption, FS_CardinalityType
  <1>4. TypeOK
    BY <1>2, <1>3 DEF Init, TypeOK, CallerState, WorkerState, ReadyCaller, IdleWorker
  <1>5. CountInv
    BY <1>1, <1>2, FS_EmptySet DEF CountInv, Init
  <1>6. StopInv
    BY <1>1 DEF StopInv, Init, ReadyCaller, Enders
  <1>7. FailInv
    BY DEF FailInv, Init
  <1> QED
    BY <1>4, <1>5, <1>6, <1>7 DEF OperatorInv

(* A step that leaves the workers alone and no caller in Stop.             *)
LEMMA StopKept ==
  ASSUME OperatorInv, worker' = worker, stopped' = stopped, stopped => numberOfActiveTasks' = 0,
         \A c \in Caller : \/ caller'[c] = caller[c]
                           \/ /\ caller[c].pc \notin {"sending", "stopped"}
                              /\ caller'[c].pc \notin {"sending", "stopped"}
                              /\ caller'[c].sent = 0
  PROVE  StopInv'
  <1>1. Enders' = Enders /\ Gone' = Gone
    BY DEF Enders, Gone
  <1>2. \A c \in Enders : caller'[c] = caller[c]
    BY DEF Enders
  <1>3. \A c \in Caller : caller'[c].sent \in {caller[c].sent, 0}
    OBVIOUS
  <1>4. \A c \in Caller : caller'[c].pc = "stopped" => c \in Enders
    BY <1>1 DEF Enders
  <1> QED
    BY <1>1, <1>2, <1>3, <1>4 DEF StopInv, OperatorInv

(* A step that changes neither what is counted nor by how much.            *)
LEMMA CountKept ==
  ASSUME OperatorInv, numberOfActiveTasks' = numberOfActiveTasks, taskQueue' = taskQueue,
         Counted' = Counted, Busy' = Busy
  PROVE  CountInv'
  BY DEF CountInv, OperatorInv

-----------------------------------------------------------------------------
(* The steps of the callers. *)

(* AddTask counts the task and the caller that is about to send it. *)
LEMMA AddTaskInv ==
  ASSUME OperatorInv, NEW c \in Caller, NEW t \in Task, NEW sync \in BOOLEAN, AddTask(c, t, sync)
  PROVE  OperatorInv'
  <1> USE DEF OperatorInv
  <1>1. TypeOK'
    <2>1. caller' = [caller EXCEPT ![c] =
                       [caller[c] EXCEPT !.pc = "counted", !.tasks = {t}, !.sync = sync]]
      BY DEF AddTask, TypeOK, CallerState
    <2>2. [caller[c] EXCEPT !.pc = "counted", !.tasks = {t}, !.sync = sync] \in CallerState
      BY DEF TypeOK, CallerState
    <2>3. caller' \in [Caller -> CallerState]
      BY <2>1, <2>2 DEF TypeOK
    <2> QED
      BY <2>3 DEF AddTask, TypeOK
  <1>2. c \notin Counted /\ Counted' = Counted \union {c} /\ Busy' = Busy
    BY DEF AddTask, Counted, Busy, TypeOK, CallerState
  <1>3. IsFiniteSet(Counted') /\ Cardinality(Counted') = Cardinality(Counted) + 1
    BY <1>2, FS_AddElement DEF CountInv
  <1>4. CountInv'
    <2>1. numberOfActiveTasks' = numberOfActiveTasks + 1 /\ taskQueue' = taskQueue
      BY DEF AddTask
    <2> QED
      BY <1>2, <1>3, <2>1, Sizes DEF CountInv
  <1>5. StopInv'
    <2>1. \A d \in Caller \ {c} : caller'[d] = caller[d]
      BY DEF AddTask, TypeOK, CallerState
    <2>2. caller[c].pc = "ready" /\ caller'[c].pc = "counted" /\ caller'[c].sent = caller[c].sent
      BY DEF AddTask, TypeOK, CallerState
    <2>3. caller[c].sent = 0
      BY <2>2 DEF StopInv, Enders
    <2>4. worker' = worker /\ stopped' = stopped /\ ~stopped
      <3>1. Enders = {}
        BY DEF AddTask, Stopping, StopInv, Enders
      <3> QED
        BY <3>1 DEF AddTask, StopInv
    <2> QED
      BY <2>1, <2>2, <2>3, <2>4, StopKept
  <1>6. FailInv'
    BY DEF AddTask, FailInv
  <1> QED
    BY <1>1, <1>4, <1>5, <1>6

(* The send moves a task from its caller to the queue. *)
LEMMA HandOverInv ==
  ASSUME OperatorInv, NEW c \in Caller, HandOver(c)
  PROVE  OperatorInv'
  <1> USE DEF OperatorInv
  <1>1. PICK t \in caller[c].tasks : taskQueue' = Append(taskQueue, t)
    BY DEF HandOver
  <1>2. t \in Task /\ taskQueue \in Seq(Task)
    BY <1>1 DEF TypeOK, CallerState
  <1>3. taskQueue' \in Seq(Task) /\ Len(taskQueue') = Len(taskQueue) + 1
    BY <1>1, <1>2, AppendProperties
  <1>4. caller[c].pc = "counted"
    BY DEF HandOver
  <1>5. /\ \A d \in Caller \ {c} : caller'[d] = caller[d]
        /\ caller'[c].pc \in {"receiving", "ready"} /\ caller'[c] \in CallerState
        /\ caller'[c].sent \in {caller[c].sent, 0}
        /\ DOMAIN caller' = Caller /\ caller' = [d \in Caller |-> caller'[d]]
    BY DEF HandOver, TypeOK, CallerState, ReadyCaller
  <1>6. UNCHANGED <<unadded, worker, numberOfActiveTasks, stopped, failed, exited>>
    BY DEF HandOver
  <1>7. TypeOK'
    <2>1. Len(taskQueue') <= Cardinality(Worker)
      BY <1>3, Sizes DEF HandOver
    <2>2. caller' \in [Caller -> CallerState]
      BY <1>5 DEF TypeOK
    <2> QED
      BY <1>3, <1>6, <2>1, <2>2 DEF TypeOK
  <1>8. c \in Counted /\ Counted' = Counted \ {c} /\ Busy' = Busy
    BY <1>4, <1>5, <1>6 DEF Counted, Busy
  <1>9. IsFiniteSet(Counted') /\ Cardinality(Counted') = Cardinality(Counted) - 1
    BY <1>8, FS_RemoveElement DEF CountInv
  <1>10. CountInv'
    BY <1>3, <1>6, <1>8, <1>9, Sizes DEF CountInv
  <1>11. StopInv'
    <2>1. caller[c].sent = 0
      BY <1>4 DEF StopInv, Enders
    <2>2. stopped => numberOfActiveTasks' = 0
      BY <1>6 DEF StopInv
    <2> QED
      BY <1>4, <1>5, <1>6, <2>1, <2>2, StopKept
  <1>12. FailInv'
    BY <1>6 DEF FailInv
  <1> QED
    BY <1>7, <1>10, <1>11, <1>12

(* A wait that begins changes no count; Stop has not sent anything yet. *)
LEMMA WaitInv ==
  ASSUME OperatorInv, NEW c \in Caller, NEW stop \in BOOLEAN, Wait(c, stop)
  PROVE  OperatorInv'
  <1> USE DEF OperatorInv
  <1>1. UNCHANGED <<unadded, worker, taskQueue, numberOfActiveTasks, stopped, failed, exited>>
    BY DEF Wait
  <1>2. /\ caller[c].pc = "ready" /\ caller'[c].pc = "waiting" /\ caller'[c].sent = caller[c].sent
        /\ \A d \in Caller \ {c} : caller'[d] = caller[d]
    BY DEF Wait, TypeOK, CallerState
  <1>3. TypeOK'
    <2>1. [caller[c] EXCEPT !.pc = "waiting", !.stop = stop] \in CallerState
      BY DEF TypeOK, CallerState
    <2>2. caller' = [caller EXCEPT ![c] = [caller[c] EXCEPT !.pc = "waiting", !.stop = stop]]
      BY DEF Wait, TypeOK
    <2> QED
      BY <1>1, <2>1, <2>2 DEF TypeOK
  <1>4. Counted' = Counted /\ Busy' = Busy
    BY <1>1, <1>2 DEF Counted, Busy
  <1>5. CountInv'
    BY <1>1, <1>4, CountKept
  <1>6. caller[c].sent = 0
    BY <1>2 DEF StopInv, Enders
  <1>7. StopInv'
    <2>1. stopped => numberOfActiveTasks' = 0
      BY <1>1 DEF StopInv
    <2> QED
      BY <1>1, <1>2, <1>6, <2>1, StopKept
  <1>8. FailInv'
    BY <1>1 DEF FailInv
  <1> QED
    BY <1>3, <1>5, <1>7, <1>8

(* Under the lock, 'stopped' lets the first Stop alone go on to send. *)
LEMMA CheckIdleInv ==
  ASSUME OperatorInv, NEW c \in Caller, CheckIdle(c)
  PROVE  OperatorInv'
  <1> USE DEF OperatorInv
  <1>1. UNCHANGED <<unadded, worker, taskQueue, numberOfActiveTasks, failed, exited>>
    BY DEF CheckIdle
  <1>2. /\ caller[c].pc = "waiting" /\ caller'[c].pc \in {"parked", "sending", "ready"}
        /\ caller'[c].sent \in {caller[c].sent, 0}
        /\ \A d \in Caller \ {c} : caller'[d] = caller[d]
        /\ caller'[c].pc \in {"parked", "ready"} => stopped' = stopped
        /\ caller'[c].pc = "sending" => ~stopped /\ stopped'
    BY DEF CheckIdle, TypeOK, CallerState, ReadyCaller
  <1>3. TypeOK'
    <2>1. PICK s : caller' = [caller EXCEPT ![c] = s] /\ s \in CallerState
      <3>1. /\ [caller[c] EXCEPT !.pc = "parked"] \in CallerState
            /\ [caller[c] EXCEPT !.pc = "sending"] \in CallerState
            /\ ReadyCaller \in CallerState
        BY DEF TypeOK, CallerState, ReadyCaller
      <3>2. \E s \in {[caller[c] EXCEPT !.pc = "parked"], [caller[c] EXCEPT !.pc = "sending"], ReadyCaller} :
              caller' = [caller EXCEPT ![c] = s]
        BY DEF CheckIdle
      <3> QED
        BY <3>1, <3>2
    <2>3. caller' \in [Caller -> CallerState]
      BY <2>1 DEF TypeOK
    <2>2. stopped' \in BOOLEAN
      BY DEF CheckIdle, TypeOK
    <2> QED
      BY <1>1, <2>2, <2>3 DEF TypeOK
  <1>4. Counted' = Counted /\ Busy' = Busy /\ Gone' = Gone
    BY <1>1, <1>2 DEF Counted, Busy, Gone
  <1>5. CountInv'
    BY <1>1, <1>4, CountKept
  <1>6. caller[c].sent = 0
    BY <1>2 DEF StopInv, Enders
  <1>7. StopInv'
    <2>1. CASE caller'[c].pc \in {"parked", "ready"}
      <3>1. stopped => numberOfActiveTasks' = 0
        BY <1>1 DEF StopInv
      <3> QED
        BY <1>1, <1>2, <1>6, <2>1, <3>1, StopKept
    <2>2. CASE caller'[c].pc = "sending"
      <3>1. Enders = {} /\ Gone = {} /\ stopped'
        BY <1>2, <2>2 DEF StopInv
      <3>2. Enders' = {c}
        BY <1>2, <2>2, <3>1 DEF Enders
      <3>3. Cardinality(Gone') = 0
        BY <1>4, <3>1, FS_EmptySet
      <3>4. \A d \in Caller : caller'[d].sent = 0
        BY <1>2, <1>6, <3>1 DEF StopInv
      <3>5. \A d \in Caller : caller'[d].pc /= "stopped"
        BY <1>2, <2>2, <3>1 DEF Enders
      <3>6. caller'[c].stop /\ numberOfActiveTasks' = 0
        <4>1. caller[c].stop /\ ~(numberOfActiveTasks > 0) /\ caller'[c].stop = caller[c].stop
          BY <2>2 DEF CheckIdle, TypeOK, CallerState, ReadyCaller
        <4> QED
          BY <1>1, <4>1 DEF TypeOK
      <3> QED
        BY <3>1, <3>2, <3>3, <3>4, <3>5, <3>6 DEF StopInv
    <2> QED
      BY <1>2, <2>1, <2>2
  <1>8. FailInv'
    BY <1>1 DEF FailInv
  <1> QED
    BY <1>3, <1>5, <1>7, <1>8

(* One message sent is one worker gone, and that worker was idle. *)
LEMMA SendStopInv ==
  ASSUME OperatorInv, NEW c \in Caller, NEW w \in Worker, SendStop(c, w)
  PROVE  OperatorInv'
  <1> USE DEF OperatorInv
  <1>1. UNCHANGED <<unadded, taskQueue, numberOfActiveTasks, stopped, failed, exited>>
    BY DEF SendStop
  <1>2. /\ caller[c].pc = "sending" /\ caller[c].sent \in Nat
        /\ caller'[c].sent = caller[c].sent + 1
        /\ caller'[c].pc = IF caller[c].sent + 1 = Cardinality(Worker) THEN "stopped" ELSE "sending"
        /\ \A d \in Caller \ {c} : caller'[d] = caller[d]
    BY DEF SendStop, TypeOK, CallerState
  <1>3. /\ worker[w].pc = "idle" /\ worker'[w].pc = "gone"
        /\ \A v \in Worker \ {w} : worker'[v] = worker[v]
    BY DEF SendStop, TypeOK, WorkerState
  <1>4. TypeOK'
    <2> DEFINE pc == IF caller[c].sent + 1 = Cardinality(Worker) THEN "stopped" ELSE "sending"
    <2>3. caller[c] \in CallerState /\ caller[c].sent + 1 \in Nat /\ pc \in {"sending", "stopped"}
      BY <1>2 DEF TypeOK
    <2>4. caller' = [caller EXCEPT ![c].sent = caller[c].sent + 1, ![c].pc = pc]
      BY <1>2 DEF SendStop, TypeOK
    <2> HIDE DEF pc
    <2> DEFINE n == caller[c].sent + 1
    <2> HIDE DEF n
    <2>5. caller' = [caller EXCEPT ![c] = [caller[c] EXCEPT !.sent = n, !.pc = pc]]
      BY <2>3, <2>4 DEF n, TypeOK
    <2>6. [caller[c] EXCEPT !.sent = n, !.pc = pc] \in CallerState
      BY <2>3 DEF n, CallerState
    <2>1. caller' \in [Caller -> CallerState]
      BY <2>5, <2>6 DEF TypeOK
    <2>2. worker' \in [Worker -> WorkerState]
      BY DEF SendStop, TypeOK, WorkerState
    <2> QED
      BY <1>1, <2>1, <2>2 DEF TypeOK
  <1>5. Counted' = Counted /\ Busy' = Busy
    BY <1>2, <1>3 DEF Counted, Busy
  <1>6. CountInv'
    BY <1>1, <1>5, CountKept
  <1>7. w \notin Gone /\ Gone' = Gone \union {w}
    BY <1>3 DEF Gone
  <1>8. Cardinality(Gone') = Cardinality(Gone) + 1
    BY <1>7, Sizes, FS_AddElement
  <1>9. Enders' = Enders /\ c \in Enders
    BY <1>2 DEF Enders
  <1>10. StopInv'
    <2>1. stopped'
      BY <1>1, <1>9 DEF StopInv
    <2>2. \A d \in Enders' : d = c
      BY <1>9 DEF StopInv
    <2>3. caller'[c].sent = Cardinality(Gone')
      BY <1>2, <1>8, <1>9 DEF StopInv
    <2>4. \A d \in Caller \ {c} : caller'[d].sent = 0 /\ d \notin Enders'
      BY <1>2, <1>9, <2>2 DEF StopInv
    <2>5. \A d \in Caller : caller'[d].pc = "stopped" => caller'[d].sent = Cardinality(Worker)
      BY <1>2 DEF StopInv
    <2>6. caller'[c].stop /\ numberOfActiveTasks' = 0
      <3>1. caller'[c].stop = caller[c].stop
        BY DEF SendStop, TypeOK, CallerState
      <3> QED
        BY <1>1, <1>9, <2>1, <3>1 DEF StopInv
    <2> QED
      BY <1>9, <2>1, <2>2, <2>3, <2>4, <2>5, <2>6 DEF StopInv
  <1>11. FailInv'
    BY <1>1, <1>3 DEF FailInv
  <1> QED
    BY <1>4, <1>6, <1>10, <1>11

-----------------------------------------------------------------------------
(* The steps of the workers. *)

(* A task moves from the queue to a worker. *)
LEMMA TakeTaskInv ==
  ASSUME OperatorInv, NEW w \in Worker, TakeTask(w)
  PROVE  OperatorInv'
  <1> USE DEF OperatorInv
  <1>1. UNCHANGED <<unadded, caller, numberOfActiveTasks, stopped, failed, exited>>
    BY DEF TakeTask
  <1>2. taskQueue \in Seq(Task) /\ taskQueue /= <<>> /\ taskQueue' = Tail(taskQueue)
    BY DEF TakeTask, TypeOK
  <1>3. Head(taskQueue) \in Task /\ taskQueue' \in Seq(Task) /\ Len(taskQueue') = Len(taskQueue) - 1
    BY <1>2, HeadTailProperties
  <1>4. /\ worker[w].pc = "idle" /\ worker'[w].pc = "running"
        /\ \A v \in Worker \ {w} : worker'[v] = worker[v]
    BY DEF TakeTask, TypeOK, WorkerState
  <1>5. TypeOK'
    <2>1. worker' \in [Worker -> WorkerState]
      BY <1>3 DEF TakeTask, TypeOK, WorkerState
    <2>2. Len(taskQueue') <= Cardinality(Worker)
      BY <1>3, Sizes DEF TypeOK
    <2> QED
      BY <1>1, <1>3, <2>1, <2>2 DEF TypeOK
  <1>6. Counted' = Counted /\ w \notin Busy /\ Busy' = Busy \union {w}
    BY <1>1, <1>4 DEF Counted, Busy
  <1>7. Cardinality(Busy') = Cardinality(Busy) + 1
    BY <1>6, Sizes, FS_AddElement
  <1>8. CountInv'
    BY <1>1, <1>3, <1>6, <1>7, Sizes DEF CountInv
  <1>9. Gone' = Gone /\ Enders' = Enders
    BY <1>1, <1>4 DEF Gone, Enders
  <1>10. StopInv'
    BY <1>1, <1>9 DEF StopInv
  <1>11. FailInv'
    BY <1>1, <1>4 DEF FailInv
  <1> QED
    BY <1>5, <1>8, <1>10, <1>11

(* The completion function changes no count: Run has not ended yet. *)
LEMMA CompleteInv ==
  ASSUME OperatorInv, NEW w \in Worker, Complete(w)
  PROVE  OperatorInv'
  <1> USE DEF OperatorInv
  <1>1. UNCHANGED <<unadded, taskQueue, numberOfActiveTasks, stopped, failed, exited>>
    BY DEF Complete
  <1>2. /\ worker[w].pc = "running" /\ worker'[w].pc = "finishing"
        /\ \A v \in Worker \ {w} : worker'[v] = worker[v]
    BY DEF Complete, TypeOK, WorkerState
  <1>3. \A c \in Caller : \/ caller'[c] = caller[c]
                          \/ caller[c].pc = "receiving" /\ caller'[c] = ReadyCaller
    BY DEF Complete
  <1>4. TypeOK'
    <2>1. caller' \in [Caller -> CallerState]
      BY DEF Complete, TypeOK, CallerState, ReadyCaller
    <2>2. worker' \in [Worker -> WorkerState]
      BY DEF Complete, TypeOK, WorkerState
    <2> QED
      BY <1>1, <2>1, <2>2 DEF TypeOK
  <1>5. Counted' = Counted /\ Busy' = Busy /\ Gone' = Gone /\ Enders' = Enders
    BY <1>2, <1>3 DEF Counted, Busy, Gone, Enders, ReadyCaller
  <1>6. CountInv'
    BY <1>1, <1>5, CountKept
  <1>7. StopInv'
    <2>1. \A c \in Enders : caller'[c] = caller[c]
      BY <1>3 DEF Enders
    <2>2. \A c \in Caller : caller'[c].sent \in {caller[c].sent, 0}
      BY <1>3 DEF ReadyCaller
    <2>3. \A c \in Caller : caller'[c].pc = "stopped" => c \in Enders
      BY <1>3 DEF ReadyCaller, Enders
    <2>4. \A c \in Caller : caller'[c].sent = IF c \in Enders THEN Cardinality(Gone) ELSE 0
      BY <2>1, <2>2 DEF StopInv
    <2>5. \A c \in Caller : caller'[c].pc = "stopped" => caller'[c].sent = Cardinality(Worker)
      BY <2>1, <2>3 DEF StopInv, Enders
    <2> QED
      BY <1>1, <1>5, <2>1, <2>4, <2>5 DEF StopInv
  <1>8. FailInv'
    BY <1>1, <1>2 DEF FailInv
  <1> QED
    BY <1>4, <1>6, <1>7, <1>8

(* LOG_ERROR leaves a worker whose deferred function is still to run. *)
LEMMA PanicInv ==
  ASSUME OperatorInv, NEW w \in Worker, Panic(w)
  PROVE  OperatorInv'
  <1> USE DEF OperatorInv
  <1>1. UNCHANGED <<unadded, caller, taskQueue, numberOfActiveTasks, stopped, exited>>
    BY DEF Panic
  <1>2. /\ worker[w].pc = "running" /\ worker'[w].pc = "panicking"
        /\ \A v \in Worker \ {w} : worker'[v] = worker[v]
    BY DEF Panic, TypeOK, WorkerState
  <1>3. TypeOK'
    <2>1. worker' \in [Worker -> WorkerState] /\ failed' \subseteq Task
      BY DEF Panic, TypeOK, WorkerState
    <2> QED
      BY <1>1, <2>1 DEF TypeOK
  <1>4. Counted' = Counted /\ Busy' = Busy /\ Gone' = Gone /\ Enders' = Enders
    BY <1>1, <1>2 DEF Counted, Busy, Gone, Enders
  <1>5. CountInv'
    BY <1>1, <1>4, CountKept
  <1>6. StopInv'
    BY <1>1, <1>4 DEF StopInv
  <1>7. FailInv'
    BY <1>2 DEF FailInv
  <1> QED
    BY <1>3, <1>5, <1>6, <1>7

(* The deferred function of Run takes one off the counter, which is at     *)
(* least one because its own worker is busy; a worker that panicked dies.  *)
LEMMA FinishInv ==
  ASSUME OperatorInv, NEW w \in Worker, Finish(w)
  PROVE  OperatorInv'
  <1> USE DEF OperatorInv
  <1>1. UNCHANGED <<unadded, taskQueue, stopped, failed, exited>>
    BY DEF Finish
  <1>2. /\ worker[w].pc \in {"finishing", "panicking"}
        /\ worker[w].pc = "panicking" => worker'[w].pc = "dead"
        /\ worker[w].pc = "finishing" => worker'[w].pc = "idle"
        /\ \A v \in Worker \ {w} : worker'[v] = worker[v]
    BY DEF Finish, TypeOK, WorkerState, AfterRun, IdleWorker
  <1>3. \A c \in Caller : \/ caller'[c] = caller[c]
                          \/ /\ caller[c].pc = "parked" /\ caller'[c].pc = "waiting"
                             /\ caller'[c].sent = caller[c].sent
    BY DEF Finish, Broadcast, TypeOK, CallerState
  <1>4. /\ Counted' = Counted /\ Gone' = Gone /\ Enders' = Enders
        /\ w \in Busy /\ Busy' = Busy \ {w}
    BY <1>2, <1>3 DEF Counted, Busy, Gone, Enders
  <1>5. Cardinality(Busy') = Cardinality(Busy) - 1 /\ IsFiniteSet(Busy')
    BY <1>4, Sizes, FS_RemoveElement
  <1>6. CountInv' /\ numberOfActiveTasks' \in Nat
    <2>1. Cardinality(Busy') \in Nat
      BY <1>5, FS_CardinalityType
    <2>2. numberOfActiveTasks' = numberOfActiveTasks - 1
      BY DEF Finish
    <2> QED
      BY <1>1, <1>4, <1>5, <2>1, <2>2, Sizes DEF CountInv
  <1>7. TypeOK'
    <2>1. caller' \in [Caller -> CallerState]
      <3>1. \A d \in Caller : [caller[d] EXCEPT !.pc = "waiting"] \in CallerState
        BY DEF TypeOK, CallerState
      <3>2. Broadcast(caller) \in [Caller -> CallerState]
        BY <3>1 DEF Broadcast, TypeOK
      <3> QED
        BY <3>2 DEF Finish, TypeOK
    <2>2. worker' \in [Worker -> WorkerState]
      BY DEF Finish, TypeOK, WorkerState, AfterRun, IdleWorker
    <2> QED
      BY <1>1, <1>6, <2>1, <2>2 DEF TypeOK
  <1>8. StopInv'
    <2>1. ~stopped
      <3>1. Cardinality(Busy) /= 0
        BY <1>4, Sizes, FS_EmptySet
      <3> QED
        BY <3>1, Sizes DEF StopInv, CountInv
    <2> QED
      BY <1>1, <1>3, <1>4, <2>1 DEF StopInv
  <1>9. FailInv'
    BY <1>1, <1>2 DEF FailInv
  <1> QED
    BY <1>6, <1>7, <1>8, <1>9

(* Exiting changes no count. *)
LEMMA ExitInv ==
  ASSUME OperatorInv, NEW w \in Worker, Exit(w)
  PROVE  OperatorInv'
  BY DEF OperatorInv, Exit, TypeOK, CountInv, StopInv, FailInv, Counted, Busy, Gone, Enders

(* Nor does a stuttering step. *)
LEMMA UnchangedOperatorInv ==
  ASSUME OperatorInv, UNCHANGED vars
  PROVE  OperatorInv'
  BY DEF OperatorInv, vars, TypeOK, CountInv, StopInv, FailInv, Counted, Busy, Gone, Enders

(* Every step of the callers and of the workers keeps the invariant. *)
LEMMA NextOperatorInv == OperatorInv /\ [Next]_vars => OperatorInv'
  <1> SUFFICES ASSUME OperatorInv, [Next]_vars PROVE OperatorInv'
    OBVIOUS
  <1>1. CASE UNCHANGED vars
    BY <1>1, UnchangedOperatorInv
  <1>2. CASE Terminated
    BY <1>2, UnchangedOperatorInv DEF Terminated
  <1>3. ASSUME NEW c \in Caller, CallerCalls(c) \/ CallerRuns(c) PROVE OperatorInv'
    BY <1>3, AddTaskInv, WaitInv, HandOverInv, CheckIdleInv, SendStopInv DEF CallerCalls, CallerRuns
  <1>4. ASSUME NEW w \in Worker, WorkerRuns(w) PROVE OperatorInv'
    BY <1>4, TakeTaskInv, CompleteInv, PanicInv, FinishInv, ExitInv DEF WorkerRuns
  <1> QED
    BY <1>1, <1>2, <1>3, <1>4 DEF Next

(* The invariant holds in every behaviour of the operator. *)
THEOREM OperatorAlwaysInv == Spec => []OperatorInv
  BY InitOperatorInv, NextOperatorInv, PTL DEF Spec

-----------------------------------------------------------------------------
(* What the counter and the messages tell. *)

(* A counter of zero means that no task is on its way. *)
LEMMA NoneActive ==
  ASSUME OperatorInv, numberOfActiveTasks = 0
  PROVE  taskQueue = <<>> /\ Counted = {} /\ Busy = {}
  <1>1. Cardinality(Counted) = 0 /\ Len(taskQueue) = 0 /\ Cardinality(Busy) = 0
    BY Sizes DEF OperatorInv, CountInv
  <1>2. Counted = {} /\ Busy = {}
    BY <1>1, Sizes, FS_EmptySet DEF OperatorInv, CountInv
  <1>3. taskQueue = <<>>
    BY <1>1, EmptySeq DEF OperatorInv, TypeOK
  <1> QED
    BY <1>2, <1>3

(* When Stop has returned the pool is empty and no task failed. *)
LEMMA StoppedIsQuiet ==
  ASSUME OperatorInv, NEW c \in Caller, caller[c].pc = "stopped"
  PROVE  /\ failed = {} /\ \A w \in Worker : worker[w].pc = "gone"
         /\ caller[c].stop /\ taskQueue = <<>> /\ \A d \in Caller : caller[d].pc /= "counted"
  <1>1. /\ c \in Enders /\ Cardinality(Gone) = Cardinality(Worker)
        /\ caller[c].stop /\ numberOfActiveTasks = 0
    BY DEF OperatorInv, StopInv, Enders
  <1>2. Gone \in SUBSET Worker /\ IsFiniteSet(Worker)
    BY OperatorAssumption DEF Gone
  <1>3. Gone = Worker
    BY <1>1, <1>2, FS_Subset
  <1>4. \A w \in Worker : worker[w].pc = "gone"
    BY <1>3 DEF Gone
  <1>5. failed = {}
    BY <1>4 DEF OperatorInv, FailInv
  <1> QED
    BY <1>1, <1>4, <1>5, NoneActive DEF Counted

-----------------------------------------------------------------------------
(* The types are kept: in particular the counter never falls below zero    *)
(* and the queue never holds more tasks than there are threads.            *)
THEOREM TypeCorrect == Spec => []TypeOK
  <1>1. OperatorInv => TypeOK
    BY DEF OperatorInv
  <1> QED
    BY <1>1, OperatorAlwaysInv, PTL

(* When Stop returns to its first caller every worker has taken its        *)
(* message, so no task failed.                                             *)
THEOREM StopAlwaysMeansSuccess == Spec => []StopMeansSuccess
  <1>1. OperatorInv => StopMeansSuccess
    BY StoppedIsQuiet DEF StopMeansSuccess
  <1> QED
    BY <1>1, OperatorAlwaysInv, PTL

(* A wait returns on a counter of zero only, and then no task is queued,   *)
(* on its way into the queue, or with a worker.                            *)
THEOREM AlwaysWaitedForAll == Spec => WaitedForAll
  <1> DEFINE Waited ==
        \A c \in Caller :
          caller[c].pc = "waiting" /\ caller'[c].pc \notin {"waiting", "parked"} =>
            /\ taskQueue = <<>>
            /\ \A d \in Caller : caller[d].pc /= "counted"
            /\ \A w \in Worker : worker[w].pc \notin {"running", "finishing", "panicking"}
  <1>1. OperatorInv /\ [Next]_vars => [Waited]_vars
    <2> SUFFICES ASSUME OperatorInv, Next, NEW c \in Caller,
                        caller[c].pc = "waiting", caller'[c].pc \notin {"waiting", "parked"}
                 PROVE  /\ taskQueue = <<>>
                        /\ \A d \in Caller : caller[d].pc /= "counted"
                        /\ \A w \in Worker : worker[w].pc \notin {"running", "finishing", "panicking"}
      OBVIOUS
    <2>1. numberOfActiveTasks = 0
      <3> USE DEF OperatorInv, TypeOK
      <3>1. ASSUME NEW w \in Worker, WorkerRuns(w) PROVE FALSE
        BY <3>1 DEF WorkerRuns, TakeTask, Complete, Panic, Finish, Exit, Broadcast, CallerState
      <3>2. ASSUME NEW d \in Caller, d /= c, CallerCalls(d) \/ CallerRuns(d) PROVE FALSE
        BY <3>2 DEF CallerCalls, CallerRuns, AddTask, Wait, HandOver, CheckIdle, SendStop
      <3>3. CASE Terminated
        BY <3>3 DEF Terminated, vars
      <3>4. CASE CallerCalls(c) \/ CallerRuns(c)
        <4>1. CheckIdle(c)
          BY <3>4 DEF CallerCalls, CallerRuns, AddTask, Wait, HandOver, SendStop
        <4>2. ~(numberOfActiveTasks > 0)
          BY <4>1 DEF CheckIdle, CallerState
        <4> QED
          BY <4>2
      <3> QED
        BY <3>1, <3>2, <3>3, <3>4 DEF Next
    <2> QED
      BY <2>1, NoneActive DEF Counted, Busy
  <1> QED
    BY <1>1, OperatorAlwaysInv, PTL DEF Spec, WaitedForAll

-----------------------------------------------------------------------------
(* Where a task is, InFlight or not.  These facts are for the modules that *)
(* use the pool: there AddTask and Complete are parts of larger steps, and *)
(* the steps of Handles are left to the pool.                              *)

(* A caller hands over one task and a worker runs one; a task that is      *)
(* still to be added is nowhere.                                           *)
FlightInv ==
  /\ \A c \in Caller : caller[c].pc = "counted" => \E t \in Task : caller[c].tasks = {t}
  /\ \A w \in Worker : worker[w].pc = "running" => \E t \in Task : worker[w].tasks = {t}
  /\ \A t \in unadded : ~InFlight(t)

Handles ==
  \/ \E c \in Caller :
       HandOver(c) \/ (\E stop \in BOOLEAN : Wait(c, stop)) \/ CheckIdle(c) \/ (\E w \in Worker : SendStop(c, w))
  \/ \E w \in Worker : TakeTask(w) \/ Panic(w) \/ Finish(w) \/ Exit(w)

PoolInv == OperatorInv /\ FlightInv

(* At the beginning no task has been added. *)
LEMMA InitPoolInv == Init => PoolInv
  <1> SUFFICES ASSUME Init PROVE PoolInv
    OBVIOUS
  <1>1. Len(taskQueue) = 0
    BY DEF Init
  <1>2. FlightInv
    BY <1>1 DEF Init, FlightInv, InFlight, ReadyCaller, IdleWorker
  <1> QED
    BY <1>2, InitOperatorInv DEF PoolInv

(* A task that is added is in the pool, and those that are there stay. *)
LEMMA AddTaskFlight ==
  ASSUME PoolInv, NEW c \in Caller, NEW t \in Task, NEW sync \in BOOLEAN, AddTask(c, t, sync)
  PROVE  /\ PoolInv' /\ InFlight(t)'
         /\ \A u \in Task : InFlight(u) <=> InFlight(u)' /\ u /= t
  <1> USE DEF PoolInv
  <1>1. OperatorInv'
    BY AddTaskInv
  <1>2. UNCHANGED <<worker, taskQueue>> /\ unadded' = unadded \ {t} /\ t \in unadded
    BY DEF AddTask
  <1>3. /\ caller[c].pc = "ready" /\ caller'[c].pc = "counted" /\ caller'[c].tasks = {t}
        /\ \A d \in Caller \ {c} : caller'[d] = caller[d]
    BY DEF AddTask, OperatorInv, TypeOK, CallerState
  <1>4. \A u \in Task : InFlight(u)' <=> InFlight(u) \/ u = t
    BY <1>2, <1>3 DEF InFlight
  <1>5. ~InFlight(t)
    BY <1>2 DEF FlightInv
  <1>6. FlightInv'
    <2>1. \A d \in Caller : caller'[d].pc = "counted" => \E u \in Task : caller'[d].tasks = {u}
      BY <1>3 DEF FlightInv
    <2>2. \A u \in unadded' : ~InFlight(u)'
      BY <1>2, <1>4 DEF FlightInv, OperatorInv, TypeOK
    <2> QED
      BY <1>2, <2>1, <2>2 DEF FlightInv
  <1> QED
    BY <1>1, <1>4, <1>5, <1>6

(* The only way out of the pool is to be completed by a worker, *)
LEMMA CompleteFlight ==
  ASSUME PoolInv, NEW w \in Worker, Complete(w)
  PROVE  /\ PoolInv' /\ UNCHANGED <<unadded, failed>>
         /\ \A u \in Task : InFlight(u) => InFlight(u)' \/ worker[w].tasks = {u}
         /\ \A u \in Task : InFlight(u)' => InFlight(u)
         /\ \E u \in Task : worker[w].tasks = {u} /\ InFlight(u)
  <1> USE DEF PoolInv
  <1>1. OperatorInv'
    BY CompleteInv
  <1>2. UNCHANGED <<unadded, failed, taskQueue>>
    BY DEF Complete
  <1>3. /\ worker[w].pc = "running" /\ worker'[w].pc = "finishing"
        /\ \A v \in Worker \ {w} : worker'[v] = worker[v]
    BY DEF Complete, OperatorInv, TypeOK, WorkerState
  <1>4. \A c \in Caller : caller'[c] = caller[c] \/ (caller[c].pc = "receiving" /\ caller'[c].pc = "ready")
    BY DEF Complete, ReadyCaller
  <1>5. \A u \in Task : InFlight(u) => InFlight(u)' \/ worker[w].tasks = {u}
    BY <1>2, <1>3, <1>4 DEF InFlight
  <1>6. \A u \in Task : InFlight(u)' => InFlight(u)
    BY <1>2, <1>3, <1>4 DEF InFlight
  <1>7. FlightInv'
    BY <1>2, <1>3, <1>4, <1>6 DEF FlightInv, OperatorInv, TypeOK
  <1>8. \E u \in Task : worker[w].tasks = {u} /\ InFlight(u)
    BY <1>3 DEF FlightInv, InFlight
  <1> QED
    BY <1>1, <1>2, <1>5, <1>6, <1>7, <1>8

(* A step that keeps the flights, and gives no caller and no worker a task *)
(* of a different kind, keeps the invariant.                               *)
LEMMA FlightKept ==
  ASSUME PoolInv, OperatorInv', unadded' = unadded,
         \A u \in Task : InFlight(u)' => InFlight(u),
         \A c \in Caller : caller'[c].pc = "counted" => caller'[c] = caller[c],
         \A w \in Worker : worker'[w].pc = "running" =>
           worker'[w] = worker[w] \/ \E t \in Task : worker'[w].tasks = {t}
  PROVE  PoolInv'
  BY DEF PoolInv, FlightInv, OperatorInv, TypeOK

(* The send leaves the task in the pool, in the queue; *)
LEMMA HandOverFlight ==
  ASSUME PoolInv, NEW c \in Caller, HandOver(c)
  PROVE  PoolInv' /\ \A u \in Task : InFlight(u)' <=> InFlight(u)
  <1> USE DEF PoolInv
  <1>1. PICK t \in Task : caller[c].tasks = {t}
    BY DEF HandOver, FlightInv
  <1>2. taskQueue' = Append(taskQueue, t) /\ UNCHANGED <<unadded, worker>> /\ caller[c].pc = "counted"
    BY <1>1 DEF HandOver
  <1>3. /\ \A d \in Caller \ {c} : caller'[d] = caller[d]
        /\ caller'[c].pc \in {"receiving", "ready"}
    BY DEF HandOver, OperatorInv, TypeOK, CallerState, ReadyCaller
  <1>4. /\ Len(taskQueue') = Len(taskQueue) + 1 /\ Len(taskQueue) \in Nat /\ taskQueue'[Len(taskQueue) + 1] = t
        /\ \A n \in 1..Len(taskQueue) : taskQueue'[n] = taskQueue[n]
    BY <1>2, AppendProperties, LenProperties DEF OperatorInv, TypeOK
  <1>5. \A u \in Task : (\E n \in 1..Len(taskQueue') : taskQueue'[n] = u)
                           <=> u = t \/ \E n \in 1..Len(taskQueue) : taskQueue[n] = u
    <2>1. \A n : n \in 1..Len(taskQueue') <=> n \in 1..Len(taskQueue) \/ n = Len(taskQueue) + 1
      BY <1>4
    <2> QED
      BY <1>4, <2>1
  <1>6. \A u \in Task : (\E d \in Caller : caller[d].pc = "counted" /\ caller[d].tasks = {u})
                           <=> u = t \/ \E d \in Caller : caller'[d].pc = "counted" /\ caller'[d].tasks = {u}
    BY <1>1, <1>2, <1>3
  <1>7. \A u \in Task : InFlight(u)' <=> InFlight(u)
    BY <1>2, <1>5, <1>6 DEF InFlight
  <1>8. PoolInv'
    BY <1>2, <1>3, <1>7, HandOverInv, FlightKept
  <1> QED
    BY <1>7, <1>8

(* so does its taking by a worker. *)
LEMMA TakeTaskFlight ==
  ASSUME PoolInv, NEW w \in Worker, TakeTask(w)
  PROVE  PoolInv' /\ \A u \in Task : InFlight(u)' <=> InFlight(u)
  <1> USE DEF PoolInv
  <1> DEFINE t == Head(taskQueue)
  <1>1. taskQueue \in Seq(Task) /\ taskQueue /= <<>> /\ taskQueue' = Tail(taskQueue) /\ UNCHANGED <<unadded, caller>>
    BY DEF TakeTask, OperatorInv, TypeOK
  <1>2. /\ t \in Task /\ t = taskQueue[1] /\ Len(taskQueue) \in Nat /\ Len(taskQueue) >= 1
        /\ Len(taskQueue') = Len(taskQueue) - 1
        /\ \A n \in 1..Len(taskQueue') : taskQueue'[n] = taskQueue[n + 1]
    BY <1>1, HeadTailProperties, LenProperties, EmptySeq
  <1>3. /\ worker[w].pc = "idle" /\ worker'[w].pc = "running" /\ worker'[w].tasks = {t}
        /\ \A v \in Worker \ {w} : worker'[v] = worker[v]
    BY DEF TakeTask, OperatorInv, TypeOK, WorkerState
  <1> HIDE DEF t
  <1>4. ASSUME NEW u \in Task
        PROVE  (\E n \in 1..Len(taskQueue) : taskQueue[n] = u)
                 <=> u = t \/ \E n \in 1..Len(taskQueue') : taskQueue'[n] = u
    <2>1. ASSUME NEW n \in 1..Len(taskQueue), taskQueue[n] = u, u /= t
          PROVE  \E m \in 1..Len(taskQueue') : taskQueue'[m] = u
      <3>1. n /= 1 /\ n - 1 \in 1..Len(taskQueue') /\ (n - 1) + 1 = n
        BY <1>2, <2>1
      <3> QED
        BY <1>2, <2>1, <3>1
    <2>2. ASSUME NEW n \in 1..Len(taskQueue'), taskQueue'[n] = u
          PROVE  \E m \in 1..Len(taskQueue) : taskQueue[m] = u
      <3>1. n + 1 \in 1..Len(taskQueue)
        BY <1>2
      <3> QED
        BY <1>2, <2>2, <3>1
    <2>3. 1 \in 1..Len(taskQueue)
      BY <1>2
    <2> QED
      BY <1>2, <2>1, <2>2, <2>3
  <1>5. \A u \in Task : (\E v \in Worker : worker'[v].pc = "running" /\ worker'[v].tasks = {u})
                           <=> u = t \/ \E v \in Worker : worker[v].pc = "running" /\ worker[v].tasks = {u}
    BY <1>3
  <1>6. \A u \in Task : InFlight(u)' <=> InFlight(u)
    BY <1>1, <1>4, <1>5 DEF InFlight
  <1>7. PoolInv'
    BY <1>1, <1>2, <1>3, <1>6, TakeTaskInv, FlightKept
  <1> QED
    BY <1>6, <1>7

(* A step in which no caller hands over a task and no worker takes or      *)
(* leaves one changes nothing about the flights.                           *)
LEMMA FlightUntouched ==
  ASSUME PoolInv, OperatorInv', UNCHANGED <<unadded, taskQueue>>,
         \A c \in Caller : \/ caller'[c] = caller[c]
                           \/ caller[c].pc /= "counted" /\ caller'[c].pc /= "counted",
         \A w \in Worker : \/ worker'[w] = worker[w]
                           \/ worker[w].pc /= "running" /\ worker'[w].pc /= "running"
  PROVE  PoolInv' /\ \A u \in Task : InFlight(u)' <=> InFlight(u)
  <1>1. \A u \in Task : InFlight(u)' <=> InFlight(u)
    BY DEF InFlight
  <1>2. PoolInv'
    BY <1>1, FlightKept
  <1> QED
    BY <1>1, <1>2

(* The other steps that touch no task. *)
Steps ==
  \/ \E c \in Caller : (\E stop \in BOOLEAN : Wait(c, stop)) \/ CheckIdle(c) \/ (\E w \in Worker : SendStop(c, w))
  \/ \E w \in Worker : Finish(w) \/ Exit(w)

(* They are the ones of waiting, of stopping and of the end of Run. *)
LEMMA StepsFlight ==
  ASSUME PoolInv, Steps
  PROVE  PoolInv' /\ \A u \in Task : InFlight(u)' <=> InFlight(u)
  <1> USE DEF PoolInv
  <1>1. OperatorInv'
    BY WaitInv, CheckIdleInv, SendStopInv, FinishInv, ExitInv DEF Steps
  <1>2. UNCHANGED <<unadded, taskQueue>>
    BY DEF Steps, Wait, CheckIdle, SendStop, Finish, Exit
  <1>3. \A c \in Caller : \/ caller'[c] = caller[c]
                          \/ caller[c].pc /= "counted" /\ caller'[c].pc /= "counted"
    <2>1. ASSUME NEW c \in Caller, (\E stop \in BOOLEAN : Wait(c, stop)) \/ CheckIdle(c)
                                     \/ (\E w \in Worker : SendStop(c, w))
          PROVE  /\ \A d \in Caller \ {c} : caller'[d] = caller[d]
                 /\ caller[c].pc /= "counted" /\ caller'[c].pc /= "counted"
      BY <2>1 DEF Wait, CheckIdle, SendStop, OperatorInv, TypeOK, CallerState, ReadyCaller
    <2>2. ASSUME NEW w \in Worker, Finish(w) \/ Exit(w)
          PROVE  \A c \in Caller : caller'[c] = caller[c] \/ (caller[c].pc = "parked" /\ caller'[c].pc = "waiting")
      BY <2>2 DEF Finish, Exit, Broadcast, OperatorInv, TypeOK, CallerState
    <2> QED
      BY <2>1, <2>2 DEF Steps
  <1>4. \A w \in Worker : \/ worker'[w] = worker[w]
                          \/ worker[w].pc /= "running" /\ worker'[w].pc /= "running"
    <2>1. ASSUME NEW c \in Caller, (\E stop \in BOOLEAN : Wait(c, stop)) \/ CheckIdle(c)
          PROVE  worker' = worker
      BY <2>1 DEF Wait, CheckIdle
    <2>2. ASSUME NEW c \in Caller, NEW w \in Worker, SendStop(c, w)
          PROVE  \A v \in Worker : worker'[v] = worker[v] \/ (worker[v].pc = "idle" /\ worker'[v].pc = "gone")
      BY <2>2 DEF SendStop, OperatorInv, TypeOK, WorkerState
    <2>3. ASSUME NEW w \in Worker, Finish(w) \/ Exit(w)
          PROVE  \A v \in Worker : \/ worker'[v] = worker[v]
                                   \/ worker[v].pc /= "running" /\ worker'[v].pc \in {"idle", "dead"}
      BY <2>3 DEF Finish, Exit, AfterRun, IdleWorker, OperatorInv, TypeOK, WorkerState
    <2> QED
      BY <2>1, <2>2, <2>3 DEF Steps
  <1> QED
    BY <1>1, <1>2, <1>3, <1>4, FlightUntouched

(* The other way out is to fail. *)
LEMMA PanicFlight ==
  ASSUME PoolInv, NEW w \in Worker, Panic(w)
  PROVE  /\ PoolInv' /\ failed' = failed \union worker[w].tasks
         /\ \A u \in Task : InFlight(u) => InFlight(u)' \/ u \in failed'
         /\ \A u \in Task : InFlight(u)' => InFlight(u)
  <1> USE DEF PoolInv
  <1>1. UNCHANGED <<unadded, caller, taskQueue>> /\ failed' = failed \union worker[w].tasks
    BY DEF Panic
  <1>2. /\ worker[w].pc = "running" /\ worker'[w].pc = "panicking"
        /\ \A v \in Worker \ {w} : worker'[v] = worker[v]
    BY DEF Panic, OperatorInv, TypeOK, WorkerState
  <1>3. /\ \A u \in Task : InFlight(u) => InFlight(u)' \/ u \in failed'
        /\ \A u \in Task : InFlight(u)' => InFlight(u)
    BY <1>1, <1>2 DEF InFlight
  <1>4. PoolInv'
    BY <1>1, <1>2, <1>3, PanicInv, FlightKept
  <1> QED
    BY <1>1, <1>3, <1>4

(* So a task that was added leaves the pool completed or failed: no other  *)
(* step loses one, or brings one in.                                       *)
LEMMA HandlesFlight ==
  ASSUME PoolInv, Handles
  PROVE  /\ PoolInv' /\ unadded' = unadded /\ failed \subseteq failed'
         /\ \A u \in Task : InFlight(u) => InFlight(u)' \/ u \in failed'
         /\ \A u \in Task : InFlight(u)' => InFlight(u)
  <1>1. unadded' = unadded /\ failed \subseteq failed'
    BY DEF Handles, HandOver, Wait, CheckIdle, SendStop, TakeTask, Panic, Finish, Exit
  <1>2. CASE Steps
    BY <1>1, <1>2, StepsFlight
  <1>3. ASSUME NEW c \in Caller, HandOver(c)
        PROVE  PoolInv' /\ \A u \in Task : InFlight(u)' <=> InFlight(u)
    BY <1>3, HandOverFlight
  <1>4. ASSUME NEW w \in Worker, TakeTask(w)
        PROVE  PoolInv' /\ \A u \in Task : InFlight(u)' <=> InFlight(u)
    BY <1>4, TakeTaskFlight
  <1>5. ASSUME NEW w \in Worker, Panic(w)
        PROVE  /\ PoolInv'
               /\ \A u \in Task : InFlight(u) => InFlight(u)' \/ u \in failed'
               /\ \A u \in Task : InFlight(u)' => InFlight(u)
    BY <1>5, PanicFlight
  <1> QED
    BY <1>1, <1>2, <1>3, <1>4, <1>5 DEF Handles, Steps

(* The end of the process changes nothing else. *)
LEMMA ExitedFlight ==
  ASSUME PoolInv, exited' \in BOOLEAN,
         UNCHANGED <<unadded, caller, worker, taskQueue, numberOfActiveTasks, stopped, failed>>
  PROVE  PoolInv' /\ \A u \in Task : InFlight(u)' <=> InFlight(u)
  <1>1. OperatorInv'
    BY DEF PoolInv, OperatorInv, TypeOK, CountInv, StopInv, FailInv, Counted, Busy, Gone, Enders
  <1> QED
    BY <1>1, FlightUntouched

(* In a pool that is stopped nothing is in flight. *)
LEMMA StoppedHasNone ==
  ASSUME PoolInv, NEW c \in Caller, caller[c].pc = "stopped"
  PROVE  \A t \in Task : ~InFlight(t)
  <1>1. /\ taskQueue = <<>> /\ \A d \in Caller : caller[d].pc /= "counted"
        /\ \A w \in Worker : worker[w].pc = "gone"
    BY StoppedIsQuiet DEF PoolInv
  <1>2. Len(taskQueue) = 0
    BY <1>1
  <1> QED
    BY <1>1, <1>2 DEF InFlight

(* A step of the pool keeps the flights, unless it adds a task, completes  *)
(* one or fails.                                                           *)
LEMMA NextPoolInv ==
  ASSUME PoolInv, [Next]_vars
  PROVE  /\ PoolInv'
         /\ \A t \in Task : InFlight(t) =>
              \/ InFlight(t)' \/ t \in failed'
              \/ \E w \in Worker : Complete(w) /\ worker[w].tasks = {t}
  <1>1. CASE UNCHANGED vars
    <2>1. exited' \in BOOLEAN
      BY <1>1 DEF vars, PoolInv, OperatorInv, TypeOK
    <2> QED
      BY <1>1, <2>1, ExitedFlight DEF vars
  <1>2. ASSUME NEW c \in Caller, NEW t \in Task, NEW sync \in BOOLEAN, AddTask(c, t, sync)
        PROVE  PoolInv' /\ \A u \in Task : InFlight(u) => InFlight(u)'
    BY <1>2, AddTaskFlight
  <1>3. ASSUME NEW w \in Worker, Complete(w)
        PROVE  PoolInv' /\ \A u \in Task : InFlight(u) => InFlight(u)' \/ worker[w].tasks = {u}
    BY <1>3, CompleteFlight
  <1>4. CASE Handles
    BY <1>4, HandlesFlight
  <1> QED
    BY <1>1, <1>2, <1>3, <1>4 DEF Next, Terminated, CallerCalls, CallerRuns, WorkerRuns, Handles

(* No task is lost between AddTask and its completion: it leaves the pool  *)
(* when a worker has completed it or when it has failed, in no other way.  *)
THEOREM TasksNeverLost ==
  Spec => [][\A t \in Task : InFlight(t) =>
               \/ InFlight(t)' \/ t \in failed'
               \/ \E w \in Worker : Complete(w) /\ worker[w].tasks = {t}]_vars
  <1>1. PoolInv /\ [Next]_vars => PoolInv'
    BY NextPoolInv
  <1>2. PoolInv /\ [Next]_vars =>
          [\A t \in Task : InFlight(t) =>
             \/ InFlight(t)' \/ t \in failed'
             \/ \E w \in Worker : Complete(w) /\ worker[w].tasks = {t}]_vars
    BY NextPoolInv
  <1> QED
    BY <1>1, <1>2, InitPoolInv, PTL DEF Spec

-----------------------------------------------------------------------------
(* A task is in one place: queued once, with one worker or with the caller *)
(* that is handing it over.                                                *)
PlacesInv ==
  /\ \A m, n \in 1..Len(taskQueue) : taskQueue[m] = taskQueue[n] => m = n
  /\ \A w \in Worker : worker[w].pc = "running" => \A n \in 1..Len(taskQueue) : worker[w].tasks /= {taskQueue[n]}
  /\ \A v, w \in Worker :
       worker[v].pc = "running" /\ worker[w].pc = "running" /\ worker[v].tasks = worker[w].tasks => v = w
  /\ \A c \in Caller : caller[c].pc = "counted" =>
       /\ \A n \in 1..Len(taskQueue) : caller[c].tasks /= {taskQueue[n]}
       /\ \A w \in Worker : worker[w].pc = "running" => worker[w].tasks /= caller[c].tasks
  /\ \A c, d \in Caller :
       caller[c].pc = "counted" /\ caller[d].pc = "counted" /\ caller[c].tasks = caller[d].tasks => c = d

(* At the beginning there is no task anywhere. *)
LEMMA InitPlaces == Init => PlacesInv
  <1> SUFFICES ASSUME Init PROVE PlacesInv
    OBVIOUS
  <1>1. Len(taskQueue) = 0
    BY DEF Init
  <1> QED
    BY <1>1 DEF Init, PlacesInv, ReadyCaller, IdleWorker

(* A task that is added is nowhere yet. *)
LEMMA AddTaskPlaces ==
  ASSUME PoolInv, PlacesInv, NEW c \in Caller, NEW t \in Task, NEW sync \in BOOLEAN, AddTask(c, t, sync)
  PROVE  PlacesInv'
  <1>1. UNCHANGED <<worker, taskQueue>> /\ t \in unadded
    BY DEF AddTask
  <1>2. /\ caller[c].pc = "ready" /\ caller'[c].pc = "counted" /\ caller'[c].tasks = {t}
        /\ \A d \in Caller \ {c} : caller'[d] = caller[d]
    BY DEF AddTask, PoolInv, OperatorInv, TypeOK, CallerState
  <1>3. ~InFlight(t)
    BY <1>1 DEF PoolInv, FlightInv
  <1>4. /\ \A n \in 1..Len(taskQueue) : taskQueue[n] /= t
        /\ \A w \in Worker : worker[w].pc = "running" => worker[w].tasks /= {t}
        /\ \A d \in Caller : caller[d].pc = "counted" => caller[d].tasks /= {t}
    BY <1>3 DEF InFlight
  <1>5. \A d \in Caller : caller'[d].pc = "counted" =>
          /\ \A n \in 1..Len(taskQueue) : caller'[d].tasks /= {taskQueue[n]}
          /\ \A w \in Worker : worker[w].pc = "running" => worker[w].tasks /= caller'[d].tasks
    <2> SUFFICES ASSUME NEW d \in Caller, caller'[d].pc = "counted"
                 PROVE  /\ \A n \in 1..Len(taskQueue) : caller'[d].tasks /= {taskQueue[n]}
                        /\ \A w \in Worker : worker[w].pc = "running" => worker[w].tasks /= caller'[d].tasks
      OBVIOUS
    <2>1. CASE d = c
      BY <1>2, <1>4, <2>1
    <2>2. CASE d /= c
      BY <1>2, <2>2 DEF PlacesInv
    <2> QED
      BY <2>1, <2>2
  <1>6. \A d, e \in Caller :
          caller'[d].pc = "counted" /\ caller'[e].pc = "counted" /\ caller'[d].tasks = caller'[e].tasks => d = e
    BY <1>2, <1>4 DEF PlacesInv
  <1> QED
    BY <1>1, <1>5, <1>6 DEF PlacesInv

(* Steps that give nobody a task keep the invariant. *)
LEMMA PlacesKept ==
  ASSUME PlacesInv, UNCHANGED taskQueue,
         \A c \in Caller : caller'[c].pc = "counted" => caller'[c] = caller[c],
         \A w \in Worker : worker'[w].pc = "running" => worker'[w] = worker[w]
  PROVE  PlacesInv'
  BY DEF PlacesInv

(* The send moves a task to the end of the queue, *)
LEMMA HandOverPlaces ==
  ASSUME PoolInv, PlacesInv, NEW c \in Caller, HandOver(c)
  PROVE  PlacesInv'
  <1>1. PICK t \in Task : caller[c].tasks = {t}
    BY DEF PoolInv, HandOver, FlightInv
  <1>2. taskQueue' = Append(taskQueue, t) /\ worker' = worker /\ caller[c].pc = "counted"
    BY <1>1 DEF HandOver
  <1>3. /\ \A d \in Caller \ {c} : caller'[d] = caller[d]
        /\ caller'[c].pc \in {"receiving", "ready"}
    BY DEF HandOver, PoolInv, OperatorInv, TypeOK, CallerState, ReadyCaller
  <1>4. /\ Len(taskQueue') = Len(taskQueue) + 1 /\ Len(taskQueue) \in Nat /\ taskQueue'[Len(taskQueue) + 1] = t
        /\ \A n \in 1..Len(taskQueue) : taskQueue'[n] = taskQueue[n]
    BY <1>2, AppendProperties, LenProperties DEF PoolInv, OperatorInv, TypeOK
  <1>5. \A n \in 1..Len(taskQueue') : \/ n \in 1..Len(taskQueue) /\ taskQueue'[n] = taskQueue[n]
                                      \/ n = Len(taskQueue) + 1 /\ taskQueue'[n] = t
    BY <1>4
  <1>6. \A n \in 1..Len(taskQueue) : taskQueue[n] /= t
    BY <1>1, <1>2 DEF PlacesInv
  <1>7. \A m, n \in 1..Len(taskQueue') : taskQueue'[m] = taskQueue'[n] => m = n
    BY <1>5, <1>6 DEF PlacesInv
  <1>8. \A w \in Worker : worker[w].pc = "running" => \A n \in 1..Len(taskQueue') : worker[w].tasks /= {taskQueue'[n]}
    <2>1. \A w \in Worker : worker[w].pc = "running" => worker[w].tasks /= {t}
      BY <1>1, <1>2 DEF PlacesInv
    <2>2. \A w \in Worker : worker[w].pc = "running" => \A n \in 1..Len(taskQueue) : worker[w].tasks /= {taskQueue[n]}
      BY DEF PlacesInv
    <2> QED
      BY <1>5, <2>1, <2>2
  <1>9. \A d \in Caller : caller'[d].pc = "counted" =>
          /\ \A n \in 1..Len(taskQueue') : caller'[d].tasks /= {taskQueue'[n]}
          /\ \A w \in Worker : worker[w].pc = "running" => worker[w].tasks /= caller'[d].tasks
    <2> SUFFICES ASSUME NEW d \in Caller \ {c}, caller[d].pc = "counted"
                 PROVE  /\ \A n \in 1..Len(taskQueue') : caller[d].tasks /= {taskQueue'[n]}
                        /\ \A w \in Worker : worker[w].pc = "running" => worker[w].tasks /= caller[d].tasks
      BY <1>3
    <2>1. caller[d].tasks /= {t}
      BY <1>1, <1>2 DEF PlacesInv
    <2>2. /\ \A n \in 1..Len(taskQueue) : caller[d].tasks /= {taskQueue[n]}
          /\ \A w \in Worker : worker[w].pc = "running" => worker[w].tasks /= caller[d].tasks
      BY DEF PlacesInv
    <2> QED
      BY <1>5, <2>1, <2>2
  <1>10. \A d, e \in Caller :
          caller'[d].pc = "counted" /\ caller'[e].pc = "counted" /\ caller'[d].tasks = caller'[e].tasks => d = e
    BY <1>3 DEF PlacesInv
  <1> QED
    BY <1>2, <1>7, <1>8, <1>9, <1>10 DEF PlacesInv

(* and a worker takes the first. *)
LEMMA TakeTaskPlaces ==
  ASSUME PoolInv, PlacesInv, NEW w \in Worker, TakeTask(w)
  PROVE  PlacesInv'
  <1> DEFINE t == Head(taskQueue)
  <1>1. taskQueue \in Seq(Task) /\ taskQueue /= <<>> /\ taskQueue' = Tail(taskQueue) /\ caller' = caller
    BY DEF TakeTask, PoolInv, OperatorInv, TypeOK
  <1>2. /\ t = taskQueue[1] /\ Len(taskQueue) \in Nat /\ Len(taskQueue) >= 1
        /\ Len(taskQueue') = Len(taskQueue) - 1
        /\ \A n \in 1..Len(taskQueue') : taskQueue'[n] = taskQueue[n + 1]
    BY <1>1, HeadTailProperties, LenProperties, EmptySeq
  <1>3. /\ worker[w].pc = "idle" /\ worker'[w].pc = "running" /\ worker'[w].tasks = {t}
        /\ \A v \in Worker \ {w} : worker'[v] = worker[v]
    BY DEF TakeTask, PoolInv, OperatorInv, TypeOK, WorkerState
  <1> HIDE DEF t
  <1>4. 1 \in 1..Len(taskQueue) /\ \A n \in 1..Len(taskQueue') : n + 1 \in 1..Len(taskQueue) /\ n + 1 /= 1
    BY <1>2
  <1>5. \A n \in 1..Len(taskQueue') : taskQueue'[n] /= t
    BY <1>2, <1>4 DEF PlacesInv
  <1>6. ASSUME NEW m \in 1..Len(taskQueue'), NEW n \in 1..Len(taskQueue'), taskQueue'[m] = taskQueue'[n]
        PROVE  m = n
    <2>1. m + 1 = n + 1
      BY <1>2, <1>4, <1>6 DEF PlacesInv
    <2> QED
      BY <2>1
  <1>7. \A v \in Worker : worker'[v].pc = "running" => \A n \in 1..Len(taskQueue') : worker'[v].tasks /= {taskQueue'[n]}
    <2> SUFFICES ASSUME NEW v \in Worker, worker'[v].pc = "running", NEW n \in 1..Len(taskQueue')
                 PROVE  worker'[v].tasks /= {taskQueue'[n]}
      OBVIOUS
    <2>1. CASE v = w
      BY <1>3, <1>5, <2>1
    <2>2. CASE v /= w
      <3>1. worker'[v] = worker[v] /\ taskQueue'[n] = taskQueue[n + 1] /\ n + 1 \in 1..Len(taskQueue)
        BY <1>2, <1>3, <1>4, <2>2
      <3>2. \A m \in 1..Len(taskQueue) : worker[v].tasks /= {taskQueue[m]}
        BY <3>1 DEF PlacesInv
      <3> QED
        BY <3>1, <3>2
    <2> QED
      BY <2>1, <2>2
  <1>8. \A v \in Worker \ {w} : worker[v].pc = "running" => worker[v].tasks /= {t}
    BY <1>2, <1>4 DEF PlacesInv
  <1>9. \A u, v \in Worker :
          worker'[u].pc = "running" /\ worker'[v].pc = "running" /\ worker'[u].tasks = worker'[v].tasks => u = v
    BY <1>3, <1>8 DEF PlacesInv
  <1>10. \A c \in Caller : caller[c].pc = "counted" =>
          /\ \A n \in 1..Len(taskQueue') : caller[c].tasks /= {taskQueue'[n]}
          /\ \A v \in Worker : worker'[v].pc = "running" => worker'[v].tasks /= caller[c].tasks
    BY <1>2, <1>3, <1>4 DEF PlacesInv
  <1> QED
    BY <1>1, <1>6, <1>7, <1>9, <1>10 DEF PlacesInv

(* A task that is completed is nowhere any more. *)
LEMMA CompletePlaces ==
  ASSUME PoolInv, PlacesInv, NEW w \in Worker, Complete(w)
  PROVE  PlacesInv' /\ \A u \in Task : worker[w].tasks = {u} => ~InFlight(u)'
  <1>1. UNCHANGED taskQueue
    BY DEF Complete
  <1>2. /\ worker[w].pc = "running" /\ worker'[w].pc = "finishing"
        /\ \A v \in Worker \ {w} : worker'[v] = worker[v]
    BY DEF Complete, PoolInv, OperatorInv, TypeOK, WorkerState
  <1>3. \A c \in Caller : caller'[c] = caller[c] \/ caller'[c].pc = "ready"
    BY DEF Complete, ReadyCaller
  <1>4. PlacesInv'
    BY <1>1, <1>2, <1>3, PlacesKept
  <1>5. \A u \in Task : worker[w].tasks = {u} => ~InFlight(u)'
    BY <1>1, <1>2, <1>3 DEF InFlight, PlacesInv
  <1> QED
    BY <1>4, <1>5

(* The other steps move no task. *)
LEMMA HandlesPlaces ==
  ASSUME PoolInv, PlacesInv, Handles
  PROVE  PlacesInv'
  <1>1. ASSUME NEW c \in Caller, (\E stop \in BOOLEAN : Wait(c, stop)) \/ CheckIdle(c)
                                   \/ (\E w \in Worker : SendStop(c, w))
        PROVE  PlacesInv'
    <2>1. UNCHANGED taskQueue
      BY <1>1 DEF Wait, CheckIdle, SendStop
    <2>2. \A d \in Caller : caller'[d].pc = "counted" => caller'[d] = caller[d]
      BY <1>1 DEF Wait, CheckIdle, SendStop, PoolInv, OperatorInv, TypeOK, CallerState, ReadyCaller
    <2>3. \A w \in Worker : worker'[w].pc = "running" => worker'[w] = worker[w]
      BY <1>1 DEF Wait, CheckIdle, SendStop, PoolInv, OperatorInv, TypeOK, WorkerState
    <2> QED
      BY <2>1, <2>2, <2>3, PlacesKept
  <1>2. ASSUME NEW w \in Worker, Panic(w) \/ Finish(w) \/ Exit(w)
        PROVE  PlacesInv'
    <2>1. UNCHANGED taskQueue
      BY <1>2 DEF Panic, Finish, Exit
    <2>2. \A d \in Caller : caller'[d].pc = "counted" => caller'[d] = caller[d]
      BY <1>2 DEF Panic, Finish, Exit, Broadcast, PoolInv, OperatorInv, TypeOK, CallerState
    <2>3. \A v \in Worker : worker'[v].pc = "running" => worker'[v] = worker[v]
      BY <1>2 DEF Panic, Finish, Exit, AfterRun, IdleWorker, PoolInv, OperatorInv, TypeOK, WorkerState
    <2> QED
      BY <2>1, <2>2, <2>3, PlacesKept
  <1> QED
    BY <1>1, <1>2, HandOverPlaces, TakeTaskPlaces DEF Handles

(* Nor does any step of the pool bring a task to a second place. *)
LEMMA NextPlaces ==
  ASSUME PoolInv, PlacesInv, [Next]_vars
  PROVE  PlacesInv'
  <1>1. CASE UNCHANGED vars
    BY <1>1, PlacesKept DEF vars
  <1>2. CASE Handles
    BY <1>2, HandlesPlaces
  <1> QED
    BY <1>1, <1>2, AddTaskPlaces, CompletePlaces
       DEF Next, Terminated, CallerCalls, CallerRuns, WorkerRuns, Handles

(* However many callers and threads there are, no task is run twice or by  *)
(* two workers.                                                            *)
THEOREM TasksInOnePlace == Spec => []PlacesInv
  <1>1. PoolInv /\ [Next]_vars => PoolInv'
    BY NextPoolInv
  <1>2. PoolInv /\ PlacesInv /\ [Next]_vars => PlacesInv'
    BY NextPlaces
  <1> QED
    BY <1>1, <1>2, InitPoolInv, InitPlaces, PTL DEF Spec


-----------------------------------------------------------------------------
(* A caller that is parked in idleCond.Wait will be woken: the counter is  *)
(* not zero, and the task that takes it there broadcasts.                  *)
ParkedIsWoken == \A c \in Caller : caller[c].pc = "parked" => numberOfActiveTasks > 0

(* Parking and the broadcast are under the lock of the counter. *)
LEMMA NextParked ==
  ASSUME OperatorInv, ParkedIsWoken, [Next]_vars
  PROVE  ParkedIsWoken'
  <1> USE DEF OperatorInv, TypeOK
  <1>1. CASE UNCHANGED vars
    BY <1>1 DEF vars, ParkedIsWoken
  <1>2. ASSUME NEW c \in Caller, CallerCalls(c) PROVE ParkedIsWoken'
    <2>1. ASSUME NEW t \in Task, NEW sync \in BOOLEAN, AddTask(c, t, sync) PROVE ParkedIsWoken'
      <3>1. numberOfActiveTasks' = numberOfActiveTasks + 1
        BY <2>1 DEF AddTask
      <3> QED
        BY <3>1 DEF ParkedIsWoken
    <2>2. ASSUME NEW stop \in BOOLEAN, Wait(c, stop) PROVE ParkedIsWoken'
      <3>1. numberOfActiveTasks' = numberOfActiveTasks
        BY <2>2 DEF Wait
      <3>2. /\ \A d \in Caller \ {c} : caller'[d] = caller[d]
            /\ caller'[c].pc = "waiting"
        BY <2>2 DEF Wait, CallerState
      <3> QED
        BY <3>1, <3>2 DEF ParkedIsWoken
    <2> QED
      BY <1>2, <2>1, <2>2 DEF CallerCalls
  <1>3. ASSUME NEW c \in Caller, CallerRuns(c) PROVE ParkedIsWoken'
    <2>1. numberOfActiveTasks' = numberOfActiveTasks
      BY <1>3 DEF CallerRuns, HandOver, CheckIdle, SendStop
    <2>2. CASE CheckIdle(c)
      <3>1. \A d \in Caller \ {c} : caller'[d] = caller[d]
        BY <2>2 DEF CheckIdle
      <3>2. caller'[c].pc = "parked" => numberOfActiveTasks > 0
        BY <2>2 DEF CheckIdle, ReadyCaller, CallerState
      <3> QED
        BY <2>1, <3>1, <3>2 DEF ParkedIsWoken
    <2>3. CASE ~CheckIdle(c)
      <3>1. \A d \in Caller \ {c} : caller'[d] = caller[d]
        BY <1>3, <2>3 DEF CallerRuns, HandOver, SendStop
      <3>2. caller'[c].pc /= "parked"
        <4>1. CASE HandOver(c)
          BY <4>1 DEF HandOver, ReadyCaller, CallerState
        <4>2. ASSUME NEW w \in Worker, SendStop(c, w) PROVE caller'[c].pc /= "parked"
          BY <4>2 DEF SendStop, CallerState
        <4> QED
          BY <1>3, <2>3, <4>1, <4>2 DEF CallerRuns
      <3> QED
        BY <2>1, <3>1, <3>2 DEF ParkedIsWoken
    <2> QED
      BY <2>2, <2>3
  <1>4. ASSUME NEW w \in Worker, WorkerRuns(w) PROVE ParkedIsWoken'
    <2>1. CASE Finish(w)
      <3>1. numberOfActiveTasks' = numberOfActiveTasks - 1
        BY <2>1 DEF Finish
      <3>2. CASE numberOfActiveTasks = 1
        <4>1. \A c \in Caller : caller'[c].pc /= "parked"
          BY <2>1, <3>2 DEF Finish, Broadcast, CallerState
        <4> QED
          BY <4>1 DEF ParkedIsWoken
      <3>3. CASE numberOfActiveTasks /= 1
        <4>1. caller' = caller
          BY <2>1, <3>3 DEF Finish
        <4> QED
          BY <3>1, <3>3, <4>1 DEF ParkedIsWoken
      <3> QED
        BY <3>2, <3>3
    <2>2. CASE ~Finish(w)
      <3>1. numberOfActiveTasks' = numberOfActiveTasks
        BY <1>4, <2>2 DEF WorkerRuns, TakeTask, Complete, Panic, Exit
      <3>2. \A d \in Caller : caller'[d].pc = "parked" => caller[d].pc = "parked"
        BY <1>4, <2>2 DEF WorkerRuns, TakeTask, Complete, Panic, Exit, ReadyCaller
      <3> QED
        BY <3>1, <3>2 DEF ParkedIsWoken
    <2> QED
      BY <2>1, <2>2
  <1> QED
    BY <1>1, <1>2, <1>3, <1>4 DEF Next, Terminated

(* No wakeup is lost: whoever waits on the condition variable waits for a  *)
(* task that is still to finish.                                           *)
THEOREM ParkedAlwaysWoken == Spec => []ParkedIsWoken
  <1>1. Init => ParkedIsWoken
    BY DEF Init, ReadyCaller, ParkedIsWoken
  <1>2. OperatorInv /\ ParkedIsWoken /\ [Next]_vars => ParkedIsWoken'
    BY NextParked
  <1> QED
    BY <1>1, <1>2, OperatorAlwaysInv, PTL DEF Spec

-----------------------------------------------------------------------------
(* The pool implements a set of tasks. *)

(* A task that has failed is nowhere any more, and a caller that waits for *)
(* a chunk waits for one.                                                  *)
StatusInv ==
  /\ \A t \in failed : t \notin unadded /\ ~InFlight(t)
  /\ \A c \in Caller : caller[c].pc = "receiving" => \E t \in Task : caller[c].tasks = {t}

PromiseInv == PoolInv /\ PlacesInv /\ StatusInv

LEMMA InitPromiseInv == Init => PromiseInv
  <1>1. Init => StatusInv
    BY DEF Init, StatusInv, ReadyCaller
  <1> QED
    BY <1>1, InitPoolInv, InitPlaces DEF PromiseInv

(* What is seen of a state.                                                *)
LEMMA Seen ==
  /\ TaskStatus = [t \in Task |-> TaskStatus[t]]
  /\ \A t \in Task : TaskStatus[t] = IF t \in unadded THEN "new" ELSE IF t \in failed THEN "failed"
                                    ELSE IF InFlight(t) THEN "pending" ELSE "done"
  /\ CallerStatus = [c \in Caller |-> CallerStatus[c]]
  /\ \A c \in Caller :
       /\ caller[c].pc \in {"waiting", "parked"} => CallerStatus[c] = "waiting"
       /\ caller[c].pc = "sending" => CallerStatus[c] = "closing"
       /\ caller[c].pc = "stopped" => CallerStatus[c] = "closed"
       /\ caller[c].pc \notin {"waiting", "parked", "sending", "stopped"} => CallerStatus[c] = "free"
  /\ Awaited = [c \in Caller |-> Awaited[c]]
  /\ \A c \in Caller : Awaited[c] = IF caller[c].pc \in {"counted", "receiving"} /\ caller[c].sync
                                    THEN caller[c].tasks ELSE {}
  <1>1. /\ TaskStatus = [t \in Task |-> TaskStatus[t]]
        /\ \A t \in Task : TaskStatus[t] = IF t \in unadded THEN "new" ELSE IF t \in failed THEN "failed"
                                    ELSE IF InFlight(t) THEN "pending" ELSE "done"
    BY DEF TaskStatus
  <1>2. CallerStatus = [c \in Caller |-> CallerStatus[c]]
    BY DEF CallerStatus
  <1>3. \A c \in Caller :
       /\ caller[c].pc \in {"waiting", "parked"} => CallerStatus[c] = "waiting"
       /\ caller[c].pc = "sending" => CallerStatus[c] = "closing"
       /\ caller[c].pc = "stopped" => CallerStatus[c] = "closed"
       /\ caller[c].pc \notin {"waiting", "parked", "sending", "stopped"} => CallerStatus[c] = "free"
    BY DEF CallerStatus
  <1>4. /\ Awaited = [c \in Caller |-> Awaited[c]]
        /\ \A c \in Caller : Awaited[c] = IF caller[c].pc \in {"counted", "receiving"} /\ caller[c].sync
                                    THEN caller[c].tasks ELSE {}
    BY DEF Awaited
  <1> QED
    BY <1>1, <1>2, <1>3, <1>4

(* The same of the next state. *)
LEMMA SeenNext ==
  /\ TaskStatus' = [t \in Task |-> TaskStatus'[t]]
  /\ \A t \in Task : TaskStatus'[t] = IF t \in unadded' THEN "new" ELSE IF t \in failed' THEN "failed"
                                    ELSE IF InFlight(t)' THEN "pending" ELSE "done"
  /\ CallerStatus' = [c \in Caller |-> CallerStatus'[c]]
  /\ \A c \in Caller :
       /\ caller'[c].pc \in {"waiting", "parked"} => CallerStatus'[c] = "waiting"
       /\ caller'[c].pc = "sending" => CallerStatus'[c] = "closing"
       /\ caller'[c].pc = "stopped" => CallerStatus'[c] = "closed"
       /\ caller'[c].pc \notin {"waiting", "parked", "sending", "stopped"} => CallerStatus'[c] = "free"
  /\ Awaited' = [c \in Caller |-> Awaited'[c]]
  /\ \A c \in Caller : Awaited'[c] = IF caller'[c].pc \in {"counted", "receiving"} /\ caller'[c].sync
                                    THEN caller'[c].tasks ELSE {}
  <1>1. /\ TaskStatus' = [t \in Task |-> TaskStatus'[t]]
        /\ \A t \in Task : TaskStatus'[t] = IF t \in unadded' THEN "new" ELSE IF t \in failed' THEN "failed"
                                    ELSE IF InFlight(t)' THEN "pending" ELSE "done"
    BY DEF TaskStatus
  <1>2. CallerStatus' = [c \in Caller |-> CallerStatus'[c]]
    BY DEF CallerStatus
  <1>3. \A c \in Caller :
       /\ caller'[c].pc \in {"waiting", "parked"} => CallerStatus'[c] = "waiting"
       /\ caller'[c].pc = "sending" => CallerStatus'[c] = "closing"
       /\ caller'[c].pc = "stopped" => CallerStatus'[c] = "closed"
       /\ caller'[c].pc \notin {"waiting", "parked", "sending", "stopped"} => CallerStatus'[c] = "free"
    BY DEF CallerStatus
  <1>4. /\ Awaited' = [c \in Caller |-> Awaited'[c]]
        /\ \A c \in Caller : Awaited'[c] = IF caller'[c].pc \in {"counted", "receiving"} /\ caller'[c].sync
                                    THEN caller'[c].tasks ELSE {}
    BY DEF Awaited
  <1> QED
    BY <1>1, <1>2, <1>3, <1>4

(* Steps that move a task from one place to the other are not seen, *)
LEMMA TasksAlike ==
  ASSUME unadded' = unadded, failed' = failed, \A t \in Task : InFlight(t)' <=> InFlight(t)
  PROVE  TaskStatus' = TaskStatus
  BY Seen, SeenNext

(* nor are steps of callers that wait, or hand over what they add.         *)
Alike(s, r) ==
  \/ s = r
  \/ /\ s.pc \in {"waiting", "parked"} /\ r.pc \in {"waiting", "parked"}
  \/ /\ r.pc = "counted" /\ s.pc \in {"receiving", "ready"}
     /\ IF r.sync THEN s.pc = "receiving" /\ s.sync /\ s.tasks = r.tasks ELSE s.pc = "ready"

LEMMA CallerAlike ==
  ASSUME NEW c \in Caller, Alike(caller'[c], caller[c])
  PROVE  CallerStatus'[c] = CallerStatus[c] /\ Awaited'[c] = Awaited[c]
  <1>1. CallerStatus'[c] = CallerStatus[c]
    BY Seen, SeenNext DEF Alike
  <1>2. /\ Awaited[c] = IF caller[c].pc \in {"counted", "receiving"} /\ caller[c].sync THEN caller[c].tasks ELSE {}
        /\ Awaited'[c] = IF caller'[c].pc \in {"counted", "receiving"} /\ caller'[c].sync THEN caller'[c].tasks ELSE {}
    BY Seen, SeenNext
  <1>3. CASE caller'[c] = caller[c]
    BY <1>1, <1>2, <1>3
  <1>4. CASE caller[c].pc \in {"waiting", "parked"} /\ caller'[c].pc \in {"waiting", "parked"}
    BY <1>1, <1>2, <1>4
  <1>5. CASE /\ caller[c].pc = "counted" /\ caller[c].sync
             /\ caller'[c].pc = "receiving" /\ caller'[c].sync /\ caller'[c].tasks = caller[c].tasks
    BY <1>1, <1>2, <1>5
  <1>6. CASE caller[c].pc = "counted" /\ ~caller[c].sync /\ caller'[c].pc = "ready"
    BY <1>1, <1>2, <1>6
  <1> QED
    BY <1>3, <1>4, <1>5, <1>6 DEF Alike

(* When it is so of every caller, nothing is seen.                         *)
LEMMA CallersAlike ==
  ASSUME \A c \in Caller : Alike(caller'[c], caller[c])
  PROVE  CallerStatus' = CallerStatus /\ Awaited' = Awaited
  <1>1. \A c \in Caller : CallerStatus'[c] = CallerStatus[c] /\ Awaited'[c] = Awaited[c]
    BY CallerAlike
  <1> QED
    BY <1>1, Seen, SeenNext

(* The callers other than the one that makes a step.                       *)
LEMMA OthersAlike ==
  ASSUME NEW c \in Caller, \A d \in Caller \ {c} : caller'[d] = caller[d]
  PROVE  \A d \in Caller \ {c} : CallerStatus'[d] = CallerStatus[d] /\ Awaited'[d] = Awaited[d]
  <1>1. \A d \in Caller \ {c} : Alike(caller'[d], caller[d])
    BY DEF Alike
  <1> QED
    BY <1>1, CallerAlike

(* A task that fails is nowhere any more, like one that is completed. *)
LEMMA PanicPlaces ==
  ASSUME PoolInv, PlacesInv, NEW w \in Worker, NEW t \in Task, worker[w].tasks = {t}, Panic(w)
  PROVE  ~InFlight(t)'
  <1>1. UNCHANGED <<caller, taskQueue>>
    BY DEF Panic
  <1>2. /\ worker[w].pc = "running" /\ worker'[w].pc = "panicking"
        /\ \A v \in Worker \ {w} : worker'[v] = worker[v]
    BY DEF Panic, PoolInv, OperatorInv, TypeOK, WorkerState
  <1>3. \A c \in Caller : caller[c].pc = "counted" => caller[c].tasks /= {t}
    BY <1>2 DEF PlacesInv
  <1>4. \A n \in 1..Len(taskQueue) : taskQueue[n] /= t
    BY <1>2 DEF PlacesInv
  <1>5. \A v \in Worker : worker'[v].pc = "running" => worker'[v].tasks /= {t}
    BY <1>2 DEF PlacesInv
  <1> QED
    BY <1>1, <1>3, <1>4, <1>5 DEF InFlight

(* Most steps let no task fail and hand no caller a chunk to wait for. *)
LEMMA StatusKept ==
  ASSUME PromiseInv, UNCHANGED failed, unadded' \subseteq unadded,
         \A t \in failed : InFlight(t)' => InFlight(t),
         \A c \in Caller : caller'[c].pc = "receiving" => caller'[c] = caller[c]
  PROVE  StatusInv'
  BY DEF PromiseInv, StatusInv

(* Every step keeps what the mapping relies on. *)
LEMMA NextPromiseInv ==
  ASSUME PromiseInv, [Next]_vars
  PROVE  PromiseInv'
  <1> USE DEF PromiseInv
  <1>1. PoolInv'
    BY NextPoolInv
  <1>2. PlacesInv'
    BY NextPlaces
  <1>3. failed \subseteq Task
    BY DEF PoolInv, OperatorInv, TypeOK
  <1>4. StatusInv'
    <2> USE DEF PoolInv, OperatorInv, TypeOK
    <2>1. CASE UNCHANGED vars
      BY <2>1 DEF vars, StatusInv, InFlight
    <2>2. ASSUME NEW c \in Caller, NEW t \in Task, NEW sync \in BOOLEAN, AddTask(c, t, sync)
          PROVE  StatusInv'
      <3>1. UNCHANGED failed /\ unadded' \subseteq unadded /\ t \in unadded
        BY <2>2 DEF AddTask
      <3>2. \A u \in failed : InFlight(u)' => InFlight(u)
        BY <1>3, <2>2, <3>1, AddTaskFlight DEF StatusInv
      <3>3. \A d \in Caller : caller'[d].pc = "receiving" => caller'[d] = caller[d]
        BY <2>2 DEF AddTask, CallerState
      <3> QED
        BY <3>1, <3>2, <3>3, StatusKept
    <2>3. ASSUME NEW w \in Worker, Complete(w) PROVE StatusInv'
      <3>1. UNCHANGED <<unadded, failed>> /\ \A u \in Task : InFlight(u)' => InFlight(u)
        BY <2>3, CompleteFlight
      <3>2. \A c \in Caller : caller'[c].pc = "receiving" => caller'[c] = caller[c]
        BY <2>3 DEF Complete, ReadyCaller
      <3> QED
        BY <1>3, <3>1, <3>2, StatusKept
    <2>4. ASSUME NEW w \in Worker, Panic(w) PROVE StatusInv'
      <3>1. PICK t \in Task : worker[w].tasks = {t}
        BY <2>4 DEF Panic, FlightInv
      <3>2. worker[w].pc = "running" /\ failed' = failed \union {t} /\ UNCHANGED <<unadded, caller>>
        BY <2>4, <3>1 DEF Panic
      <3>3. t \notin unadded
        BY <3>1, <3>2 DEF FlightInv, InFlight
      <3>4. ~InFlight(t)'
        BY <2>4, <3>1, PanicPlaces
      <3>5. \A u \in Task : InFlight(u)' => InFlight(u)
        BY <2>4, PanicFlight
      <3> QED
        BY <1>3, <3>2, <3>3, <3>4, <3>5 DEF StatusInv
    <2>5. ASSUME NEW c \in Caller, HandOver(c) PROVE StatusInv'
      <3>1. UNCHANGED <<unadded, failed>> /\ caller[c].pc = "counted"
        BY <2>5 DEF HandOver
      <3>2. \A u \in Task : InFlight(u)' => InFlight(u)
        BY <2>5, HandOverFlight
      <3>3. \E t \in Task : caller[c].tasks = {t}
        BY <3>1 DEF FlightInv
      <3>4. /\ \A d \in Caller \ {c} : caller'[d] = caller[d]
            /\ caller'[c].pc = "receiving" => caller'[c].tasks = caller[c].tasks
        BY <2>5 DEF HandOver, CallerState, ReadyCaller
      <3> QED
        BY <1>3, <3>1, <3>2, <3>3, <3>4 DEF StatusInv
    <2>6. ASSUME NEW w \in Worker, TakeTask(w) PROVE StatusInv'
      <3>1. UNCHANGED <<unadded, failed, caller>>
        BY <2>6 DEF TakeTask
      <3>2. \A u \in Task : InFlight(u)' => InFlight(u)
        BY <2>6, TakeTaskFlight
      <3> QED
        BY <1>3, <3>1, <3>2, StatusKept
    <2>7. CASE Steps
      <3>1. \A u \in Task : InFlight(u)' => InFlight(u)
        BY <2>7, StepsFlight
      <3>2. UNCHANGED <<unadded, failed>>
        BY <2>7 DEF Steps, Wait, CheckIdle, SendStop, Finish, Exit
      <3>3. ASSUME NEW c \in Caller, (\E stop \in BOOLEAN : Wait(c, stop)) \/ CheckIdle(c)
                                       \/ (\E w \in Worker : SendStop(c, w))
            PROVE  \A d \in Caller : caller'[d].pc = "receiving" => caller'[d] = caller[d]
        BY <3>3 DEF Wait, CheckIdle, SendStop, CallerState, ReadyCaller
      <3>4. ASSUME NEW w \in Worker, Finish(w) \/ Exit(w)
            PROVE  \A d \in Caller : caller'[d].pc = "receiving" => caller'[d] = caller[d]
        BY <3>4 DEF Finish, Exit, Broadcast, CallerState
      <3> QED
        BY <1>3, <2>7, <3>1, <3>2, <3>3, <3>4, StatusKept DEF Steps
    <2> QED
      BY <2>1, <2>2, <2>3, <2>4, <2>5, <2>6, <2>7
         DEF Next, Terminated, CallerCalls, CallerRuns, WorkerRuns, Steps
  <1> QED
    BY <1>1, <1>2, <1>4

Shown == <<TaskStatus, CallerStatus, Awaited, Threads>>

(* AddTask is the adding of a task. *)
LEMMA AddTaskShown ==
  ASSUME PromiseInv, NEW c \in Caller, NEW t \in Task, NEW sync \in BOOLEAN, AddTask(c, t, sync)
  PROVE  Promise!Add(c, t, sync)
  <1> USE DEF PromiseInv
  <1>1. /\ caller[c].pc = "ready" /\ caller'[c].pc = "counted" /\ caller'[c].tasks = {t} /\ caller'[c].sync = sync
        /\ \A d \in Caller \ {c} : caller'[d] = caller[d]
        /\ t \in unadded /\ unadded' = unadded \ {t} /\ UNCHANGED <<worker, failed>>
    BY DEF AddTask, PoolInv, OperatorInv, TypeOK, CallerState
  <1>2. /\ InFlight(t)' /\ t \notin failed
        /\ \A u \in Task : InFlight(u) <=> InFlight(u)' /\ u /= t
    BY <1>1, AddTaskFlight DEF StatusInv
  <1>3. TaskStatus[t] = "new" /\ TaskStatus'[t] = "pending"
    BY <1>1, <1>2, Seen, SeenNext
  <1>4. \A u \in Task \ {t} : TaskStatus'[u] = TaskStatus[u]
    BY <1>1, <1>2, Seen, SeenNext
  <1>5. TaskStatus' = [TaskStatus EXCEPT ![t] = "pending"]
    BY <1>3, <1>4, Seen, SeenNext
  <1>6. CallerStatus[c] = "free" /\ CallerStatus'[c] = "free" /\ Awaited[c] = {}
    BY <1>1, Seen, SeenNext
  <1>7. Awaited'[c] = IF sync THEN {t} ELSE {}
    BY <1>1, Seen, SeenNext
  <1>8. \A d \in Caller \ {c} : CallerStatus'[d] = CallerStatus[d] /\ Awaited'[d] = Awaited[d]
    BY <1>1, OthersAlike
  <1>9. CallerStatus' = CallerStatus
    BY <1>6, <1>8, Seen, SeenNext
  <1>10. Awaited' = IF sync THEN [Awaited EXCEPT ![c] = {t}] ELSE Awaited
    <2>1. CASE sync
      <3>1. Awaited' = [Awaited EXCEPT ![c] = {t}]
        BY <1>7, <1>8, <2>1, Seen, SeenNext
      <3> QED
        BY <2>1, <3>1
    <2>2. CASE ~sync
      <3>1. \A d \in Caller : Awaited'[d] = Awaited[d]
        BY <1>6, <1>7, <1>8, <2>2
      <3>2. Awaited' = Awaited
        BY <3>1, Seen, SeenNext
      <3> QED
        BY <2>2, <3>2
    <2> QED
      BY <2>1, <2>2
  <1>11. \A d \in Caller : CallerStatus[d] \notin {"closing", "closed"}
    <2>1. \A d \in Caller : d \notin Enders
      BY DEF AddTask, Stopping, PoolInv, OperatorInv, StopInv
    <2>2. \A d \in Caller : caller[d].pc \notin {"sending", "stopped"}
      BY <2>1 DEF Enders
    <2> QED
      BY <2>2, Seen
  <1>12. Threads' = Threads
    BY <1>1 DEF Threads
  <1> QED
    BY <1>3, <1>5, <1>6, <1>9, <1>10, <1>11, <1>12 DEF Promise!Add, Promise!Free, Promise!Callers

(* The end of a task is its completion function: nobody but the caller     *)
(* that waits for this chunk is given it.                                  *)
LEMMA CompleteShown ==
  ASSUME PromiseInv, NEW w \in Worker, Complete(w)
  PROVE  \E t \in Task : Promise!Do(t)
  <1> USE DEF PromiseInv
  <1>1. PICK t \in Task : worker[w].tasks = {t} /\ InFlight(t)
    BY CompleteFlight
  <1>2. UNCHANGED <<unadded, failed>> /\ t \notin unadded /\ t \notin failed
    BY <1>1, CompleteFlight DEF PoolInv, FlightInv, StatusInv
  <1>3. ~InFlight(t)' /\ \A u \in Task \ {t} : InFlight(u)' <=> InFlight(u)
    <2>1. \A u \in Task \ {t} : worker[w].tasks /= {u}
      BY <1>1
    <2> QED
      BY <1>1, <2>1, CompleteFlight, CompletePlaces
  <1>4. TaskStatus[t] = "pending" /\ TaskStatus'[t] = "done"
    BY <1>1, <1>2, <1>3, Seen, SeenNext
  <1>5. \A u \in Task \ {t} : TaskStatus'[u] = TaskStatus[u]
    BY <1>2, <1>3, Seen, SeenNext
  <1>6. TaskStatus' = [TaskStatus EXCEPT ![t] = "done"]
    BY <1>4, <1>5, Seen, SeenNext
  <1>7. \A c \in Caller : IF caller[c].pc = "receiving" /\ caller[c].tasks = {t}
                          THEN caller'[c] = ReadyCaller ELSE caller'[c] = caller[c]
    BY <1>1 DEF Complete
  <1>8. worker[w].pc = "running" /\ worker'[w].pc = "finishing" /\ \A v \in Worker \ {w} : worker'[v] = worker[v]
    BY DEF Complete, PoolInv, OperatorInv, TypeOK, WorkerState
  <1>9. CallerStatus' = CallerStatus
    <2>1. \A c \in Caller : CallerStatus'[c] = CallerStatus[c]
      BY <1>7, Seen, SeenNext DEF ReadyCaller
    <2> QED
      BY <2>1, Seen, SeenNext
  <1>10. ASSUME NEW c \in Caller PROVE Awaited'[c] = Awaited[c] \ {t}
    <2>1. CASE caller[c].pc = "receiving" /\ caller[c].tasks = {t}
      <3>1. Awaited'[c] = {} /\ Awaited[c] \subseteq {t}
        BY <1>7, <2>1, Seen, SeenNext DEF ReadyCaller
      <3> QED
        BY <3>1
    <2>2. CASE ~(caller[c].pc = "receiving" /\ caller[c].tasks = {t})
      <3>1. Awaited'[c] = Awaited[c]
        <4>1. Alike(caller'[c], caller[c])
          BY <1>7, <2>2 DEF Alike
        <4> QED
          BY <4>1, CallerAlike
      <3>2. caller[c].pc = "counted" => t \notin caller[c].tasks
        <4>1. caller[c].pc = "counted" => \E u \in Task : caller[c].tasks = {u}
          BY DEF PoolInv, FlightInv
        <4>2. caller[c].pc = "counted" => caller[c].tasks /= {t}
          BY <1>1, <1>8 DEF PlacesInv
        <4> QED
          BY <4>1, <4>2
      <3>3. caller[c].pc = "receiving" => t \notin caller[c].tasks
        BY <2>2 DEF StatusInv
      <3>4. t \notin Awaited[c]
        BY <3>2, <3>3, Seen
      <3> QED
        BY <3>1, <3>4
    <2> QED
      BY <2>1, <2>2
  <1>11. Awaited' = [c \in Caller |-> Awaited[c] \ {t}]
    BY <1>10, SeenNext
  <1>12. Threads' = Threads
    BY <1>8 DEF Threads
  <1> QED
    BY <1>4, <1>6, <1>9, <1>11, <1>12 DEF Promise!Do

(* LOG_ERROR is the failure of a task; nobody is told. *)
LEMMA PanicShown ==
  ASSUME PromiseInv, NEW w \in Worker, Panic(w)
  PROVE  \E t \in Task : Promise!Fail(t)
  <1> USE DEF PromiseInv
  <1>1. worker[w].pc = "running" /\ worker'[w].pc = "panicking" /\ \A v \in Worker \ {w} : worker'[v] = worker[v]
    BY DEF Panic, PoolInv, OperatorInv, TypeOK, WorkerState
  <1>2. PICK t \in Task : worker[w].tasks = {t}
    BY <1>1 DEF PoolInv, FlightInv
  <1>3. failed' = failed \union {t} /\ UNCHANGED <<unadded, caller>>
    BY <1>2 DEF Panic
  <1>4. InFlight(t)
    BY <1>1, <1>2 DEF InFlight
  <1>5. t \notin unadded /\ t \notin failed
    BY <1>4 DEF PoolInv, FlightInv, StatusInv
  <1>6. \A u \in Task : /\ InFlight(u) => InFlight(u)' \/ u \in failed'
                        /\ InFlight(u)' => InFlight(u)
    BY PanicFlight
  <1>7. TaskStatus[t] = "pending" /\ TaskStatus'[t] = "failed"
    BY <1>3, <1>4, <1>5, Seen, SeenNext
  <1>8. \A u \in Task \ {t} : TaskStatus'[u] = TaskStatus[u]
    BY <1>3, <1>6, Seen, SeenNext
  <1>9. TaskStatus' = [TaskStatus EXCEPT ![t] = "failed"]
    BY <1>7, <1>8, Seen, SeenNext
  <1>10. CallerStatus' = CallerStatus /\ Awaited' = Awaited
    BY <1>3, CallersAlike DEF Alike
  <1>11. Threads' = Threads
    BY <1>1 DEF Threads
  <1> QED
    BY <1>7, <1>9, <1>10, <1>11 DEF Promise!Fail

(* WaitForCompletion, and Stop, begin to wait. *)
LEMMA WaitShown ==
  ASSUME PromiseInv, NEW c \in Caller, NEW stop \in BOOLEAN, Wait(c, stop)
  PROVE  Promise!Wait(c)
  <1> USE DEF PromiseInv
  <1>1. /\ caller[c].pc = "ready" /\ caller'[c].pc = "waiting" /\ \A d \in Caller \ {c} : caller'[d] = caller[d]
        /\ UNCHANGED <<unadded, worker, taskQueue, failed>>
    BY DEF Wait, PoolInv, OperatorInv, TypeOK, CallerState
  <1>2. \A u \in Task : InFlight(u)' <=> InFlight(u)
    BY StepsFlight DEF Steps
  <1>3. TaskStatus' = TaskStatus
    BY <1>1, <1>2, TasksAlike
  <1>4. CallerStatus[c] = "free" /\ CallerStatus'[c] = "waiting" /\ Awaited[c] = {} /\ Awaited'[c] = {}
    BY <1>1, Seen, SeenNext
  <1>5. \A d \in Caller \ {c} : CallerStatus'[d] = CallerStatus[d] /\ Awaited'[d] = Awaited[d]
    BY <1>1, OthersAlike
  <1>6. CallerStatus' = [CallerStatus EXCEPT ![c] = "waiting"] /\ Awaited' = Awaited
    <2>1. CallerStatus' = [CallerStatus EXCEPT ![c] = "waiting"]
      BY <1>4, <1>5, Seen, SeenNext
    <2>2. \A d \in Caller : Awaited'[d] = Awaited[d]
      BY <1>4, <1>5
    <2> QED
      BY <2>1, <2>2, Seen, SeenNext
  <1>7. Threads' = Threads
    BY <1>1 DEF Threads
  <1> QED
    BY <1>3, <1>4, <1>6, <1>7 DEF Promise!Wait, Promise!Free

(* A look at the counter ends the wait, or nothing is seen of it. *)
LEMMA CheckIdleShown ==
  ASSUME PromiseInv, NEW c \in Caller, CheckIdle(c)
  PROVE  Promise!Return(c) \/ UNCHANGED Shown
  <1> USE DEF PromiseInv
  <1>1. /\ caller[c].pc = "waiting" /\ \A d \in Caller \ {c} : caller'[d] = caller[d]
        /\ UNCHANGED <<unadded, worker, taskQueue, failed>>
    <2>1. caller[c].pc = "waiting" /\ UNCHANGED <<unadded, worker, taskQueue, failed>>
      BY DEF CheckIdle
    <2>2. \A d \in Caller \ {c} : caller'[d] = caller[d]
      BY DEF CheckIdle, PoolInv, OperatorInv, TypeOK
    <2> QED
      BY <2>1, <2>2
  <1>2. \A u \in Task : InFlight(u)' <=> InFlight(u)
    BY StepsFlight DEF Steps
  <1>3. TaskStatus' = TaskStatus
    BY <1>1, <1>2, TasksAlike
  <1>4. Threads' = Threads
    BY <1>1 DEF Threads
  <1>5. CASE numberOfActiveTasks > 0
    <2>1. caller'[c].pc = "parked"
      BY <1>5 DEF CheckIdle, PoolInv, OperatorInv, TypeOK, CallerState
    <2>2. \A d \in Caller : Alike(caller'[d], caller[d])
      BY <1>1, <2>1 DEF Alike
    <2> QED
      BY <1>3, <1>4, <2>2, CallersAlike DEF Shown
  <1>6. CASE ~(numberOfActiveTasks > 0)
    <2>1. numberOfActiveTasks = 0
      BY <1>6 DEF PoolInv, OperatorInv, TypeOK
    <2>2. taskQueue = <<>> /\ Counted = {} /\ Busy = {}
      BY <2>1, NoneActive DEF PoolInv
    <2>3. Len(taskQueue) = 0
      BY <2>2
    <2>4. \A t \in Task : ~InFlight(t)
      BY <2>2, <2>3 DEF InFlight, Counted, Busy
    <2>5. \A t \in Task : TaskStatus[t] /= "pending"
      BY <2>4, Seen
    <2>6. \/ caller'[c].pc = "ready"
          \/ caller'[c].pc = "sending" /\ ~stopped
      BY <1>6 DEF CheckIdle, ReadyCaller, PoolInv, OperatorInv, TypeOK, CallerState
    <2>7. CallerStatus[c] = "waiting" /\ Awaited[c] = {} /\ Awaited'[c] = {}
      BY <1>1, <2>6, Seen, SeenNext
    <2>8. \A d \in Caller \ {c} : CallerStatus'[d] = CallerStatus[d] /\ Awaited'[d] = Awaited[d]
      BY <1>1, OthersAlike
    <2>9. Awaited' = Awaited
      <3>1. \A d \in Caller : Awaited'[d] = Awaited[d]
        BY <2>7, <2>8
      <3> QED
        BY <3>1, Seen, SeenNext
    <2>10. CASE caller'[c].pc = "ready"
      <3>1. CallerStatus'[c] = "free"
        BY <2>10, SeenNext
      <3>2. CallerStatus' = [CallerStatus EXCEPT ![c] = "free"]
        BY <2>8, <3>1, Seen, SeenNext
      <3> QED
        BY <1>3, <1>4, <2>5, <2>7, <2>9, <3>2 DEF Promise!Return, Promise!Tasks
    <2>11. CASE caller'[c].pc = "sending" /\ ~stopped
      <3>1. CallerStatus'[c] = "closing"
        BY <2>11, SeenNext
      <3>2. CallerStatus' = [CallerStatus EXCEPT ![c] = "closing"]
        BY <2>8, <3>1, Seen, SeenNext
      <3>3. \A d \in Caller : caller[d].pc \notin {"sending", "stopped"}
        BY <2>11 DEF PoolInv, OperatorInv, StopInv, Enders
      <3>4. \A d \in Caller : CallerStatus[d] \notin {"closing", "closed"}
        BY <3>3, Seen
      <3> QED
        BY <1>3, <1>4, <2>5, <2>7, <2>9, <3>2, <3>4 DEF Promise!Return, Promise!Tasks, Promise!Callers
    <2> QED
      BY <2>6, <2>10, <2>11
  <1> QED
    BY <1>5, <1>6

(* A message of Stop ends one thread; the last one tells Stop to return. *)
LEMMA SendStopShown ==
  ASSUME PromiseInv, PromiseInv', NEW c \in Caller, NEW w \in Worker, SendStop(c, w)
  PROVE  Promise!Leave(w)
  <1> USE DEF PromiseInv
  <1>1. /\ caller[c].pc = "sending" /\ \A d \in Caller \ {c} : caller'[d] = caller[d]
        /\ caller'[c].pc = IF caller[c].sent + 1 = Cardinality(Worker) THEN "stopped" ELSE "sending"
        /\ worker[w].pc = "idle" /\ worker'[w].pc = "gone" /\ \A v \in Worker \ {w} : worker'[v] = worker[v]
        /\ UNCHANGED <<unadded, taskQueue, failed>>
    BY DEF SendStop, PoolInv, OperatorInv, TypeOK, CallerState, WorkerState
  <1>2. \A u \in Task : InFlight(u)' <=> InFlight(u)
    BY StepsFlight DEF Steps
  <1>3. TaskStatus' = TaskStatus
    BY <1>1, <1>2, TasksAlike
  <1>4. Threads' = Threads \ {w} /\ w \in Threads
    BY <1>1 DEF Threads
  <1>5. CallerStatus[c] = "closing"
    BY <1>1, Seen
  <1>6. \A d \in Caller : Awaited'[d] = Awaited[d]
    <2>1. Awaited'[c] = {} /\ Awaited[c] = {}
      BY <1>1, Seen, SeenNext
    <2> QED
      BY <1>1, <2>1, OthersAlike
  <1>7. Awaited' = Awaited
    BY <1>6, Seen, SeenNext
  <1>8. \A d \in Caller \ {c} : CallerStatus'[d] = CallerStatus[d] /\ CallerStatus[d] /= "closing"
    <2>1. \A d \in Caller \ {c} : caller[d].pc /= "sending"
      BY <1>1 DEF PoolInv, OperatorInv, StopInv, Enders
    <2> QED
      BY <1>1, <2>1, Seen, OthersAlike
  <1>9. caller[c].sent + 1 = Cardinality(Worker) <=> Threads' = {}
    <2>1. caller[c].sent = Cardinality(Gone)
      BY <1>1 DEF PoolInv, OperatorInv, StopInv, Enders
    <2>2. w \notin Gone /\ Gone' = Gone \union {w}
      BY <1>1 DEF Gone
    <2>3. IsFiniteSet(Gone) /\ Gone' \in SUBSET Worker /\ IsFiniteSet(Worker)
      BY Sizes, OperatorAssumption DEF PoolInv, OperatorInv, Gone
    <2>4. Cardinality(Gone') = Cardinality(Gone) + 1
      BY <2>2, <2>3, FS_AddElement
    <2>5. Cardinality(Gone') = Cardinality(Worker) <=> Gone' = Worker
      BY <2>3, FS_Subset
    <2>6. Gone' = Worker <=> Threads' = {}
      BY DEF Gone, Threads
    <2> QED
      BY <2>1, <2>4, <2>5, <2>6
  <1>10. Threads' = {} => Promise!Tasks("failed") = {}
    <2>1. Threads' = {} => failed' = {}
      BY DEF Threads, PoolInv, OperatorInv, FailInv
    <2>2. failed = {} => \A t \in Task : TaskStatus[t] /= "failed"
      BY Seen
    <2> QED
      BY <1>1, <2>1, <2>2 DEF Promise!Tasks
  <1>11. CASE Threads' = {}
    <2>1. CallerStatus'[c] = "closed"
      BY <1>1, <1>9, <1>11, SeenNext
    <2>2. \A d \in Caller : CallerStatus'[d] = IF CallerStatus[d] = "closing" THEN "closed" ELSE CallerStatus[d]
      BY <1>5, <1>8, <2>1
    <2>3. CallerStatus' = [d \in Caller |-> IF CallerStatus[d] = "closing" THEN "closed" ELSE CallerStatus[d]]
      BY <2>2, SeenNext
    <2> QED
      BY <1>3, <1>4, <1>5, <1>7, <1>10, <1>11, <2>3 DEF Promise!Leave, Promise!Callers
  <1>12. CASE Threads' /= {}
    <2>1. CallerStatus'[c] = "closing"
      BY <1>1, <1>9, <1>12, SeenNext
    <2>2. CallerStatus' = CallerStatus
      BY <1>5, <1>8, <2>1, Seen, SeenNext
    <2> QED
      BY <1>3, <1>4, <1>5, <1>7, <1>12, <2>2 DEF Promise!Leave, Promise!Callers
  <1> QED
    BY <1>11, <1>12

(* Of the way of a task to a worker, of the end of Run and of the wakeups  *)
(* nothing is seen.                                                        *)
LEMMA RestShown ==
  ASSUME PromiseInv,
         \/ \E c \in Caller : HandOver(c)
         \/ \E w \in Worker : TakeTask(w) \/ Finish(w) \/ Exit(w)
  PROVE  UNCHANGED Shown
  <1> USE DEF PromiseInv
  <1>1. \A u \in Task : InFlight(u)' <=> InFlight(u)
    BY HandOverFlight, TakeTaskFlight, StepsFlight DEF Steps
  <1>2. UNCHANGED <<unadded, failed>>
    BY DEF HandOver, TakeTask, Finish, Exit
  <1>3. ASSUME NEW c \in Caller, HandOver(c)
        PROVE  (\A d \in Caller : Alike(caller'[d], caller[d])) /\ Threads' = Threads
    <2>1. caller[c].pc = "counted" /\ UNCHANGED worker /\ \A d \in Caller \ {c} : caller'[d] = caller[d]
      BY <1>3 DEF HandOver
    <2>2. CASE caller[c].sync
      <3>1. caller'[c].pc = "receiving" /\ caller'[c].sync /\ caller'[c].tasks = caller[c].tasks
        BY <1>3, <2>2 DEF HandOver, PoolInv, OperatorInv, TypeOK, CallerState
      <3> QED
        BY <2>1, <2>2, <3>1 DEF Alike, Threads
    <2>3. CASE ~caller[c].sync
      <3>1. caller'[c].pc = "ready"
        BY <1>3, <2>3 DEF HandOver, ReadyCaller, PoolInv, OperatorInv, TypeOK
      <3> QED
        BY <2>1, <2>3, <3>1 DEF Alike, Threads
    <2> QED
      BY <2>2, <2>3
  <1>4. ASSUME NEW w \in Worker, TakeTask(w) \/ Exit(w)
        PROVE  (\A d \in Caller : Alike(caller'[d], caller[d])) /\ Threads' = Threads
    <2>1. UNCHANGED caller
      BY <1>4 DEF TakeTask, Exit
    <2>2. \A v \in Worker : worker'[v] = worker[v] \/ (worker[v].pc = "idle" /\ worker'[v].pc = "running")
      BY <1>4 DEF TakeTask, Exit, PoolInv, OperatorInv, TypeOK
    <2> QED
      BY <2>1, <2>2 DEF Alike, Threads
  <1>5. ASSUME NEW w \in Worker, Finish(w)
        PROVE  (\A d \in Caller : Alike(caller'[d], caller[d])) /\ Threads' = Threads
    <2>1. \A d \in Caller : \/ caller'[d] = caller[d]
                            \/ caller[d].pc = "parked" /\ caller'[d].pc = "waiting"
      BY <1>5 DEF Finish, Broadcast, PoolInv, OperatorInv, TypeOK, CallerState
    <2>2. \A v \in Worker : \/ worker'[v] = worker[v]
                            \/ worker[v].pc \in {"finishing", "panicking"} /\ worker'[v].pc \in {"idle", "dead"}
      BY <1>5 DEF Finish, AfterRun, IdleWorker, PoolInv, OperatorInv, TypeOK, WorkerState
    <2> QED
      BY <2>1, <2>2 DEF Alike, Threads
  <1>6. (\A d \in Caller : Alike(caller'[d], caller[d])) /\ Threads' = Threads
    BY <1>3, <1>4, <1>5
  <1> QED
    BY <1>1, <1>2, <1>6, TasksAlike, CallersAlike DEF Shown

(* Nor does a stuttering step show anything. *)
LEMMA UnchangedShown ==
  ASSUME UNCHANGED vars
  PROVE  UNCHANGED Shown
  <1>1. \A u \in Task : InFlight(u)' <=> InFlight(u)
    BY DEF vars, InFlight
  <1>2. \A d \in Caller : Alike(caller'[d], caller[d])
    BY DEF vars, Alike
  <1>3. UNCHANGED <<unadded, failed>> /\ Threads' = Threads
    BY DEF vars, Threads
  <1> QED
    BY <1>1, <1>2, <1>3, TasksAlike, CallersAlike DEF Shown

(* At the beginning every task is new, and every thread is there. *)
LEMMA InitShown == Init => Promise!Init
  <1> SUFFICES ASSUME Init PROVE Promise!Init
    OBVIOUS
  <1>1. TaskStatus = [t \in Task |-> "new"]
    BY DEF Init, TaskStatus
  <1>2. \A c \in Caller : CallerStatus[c] = "free" /\ Awaited[c] = {}
    BY Seen DEF Init, ReadyCaller
  <1>3. CallerStatus = [c \in Caller |-> "free"] /\ Awaited = [c \in Caller |-> {}]
    BY <1>2, Seen
  <1>4. Threads = Worker
    BY DEF Init, Threads, IdleWorker
  <1> QED
    BY <1>1, <1>3, <1>4 DEF Promise!Init

(* The queue, the counter, the condition variable and the messages of Stop *)
(* are a set of tasks: each is done once or fails, Download returns with   *)
(* its own chunk, a wait when nothing is left to do, and Stop when every   *)
(* thread has ended and no task has failed.                                *)
THEOREM PoolIsImplemented == Spec => PoolImplemented
  <1>1. ASSUME PromiseInv, PromiseInv', [Next]_vars
        PROVE  [Promise!Next]_(Promise!vars)
    <2>1. UNCHANGED Shown => UNCHANGED Promise!vars
      BY DEF Shown, Promise!vars
    <2>2. CASE UNCHANGED vars
      BY <2>1, <2>2, UnchangedShown
    <2>3. CASE \/ \E c \in Caller : HandOver(c)
               \/ \E w \in Worker : TakeTask(w) \/ Finish(w) \/ Exit(w)
      BY <1>1, <2>1, <2>3, RestShown
    <2>4. ASSUME NEW c \in Caller, CallerCalls(c) PROVE Promise!Next
      BY <1>1, <2>4, AddTaskShown, WaitShown DEF CallerCalls, Promise!Next
    <2>5. ASSUME NEW c \in Caller, CheckIdle(c) PROVE Promise!Next \/ UNCHANGED Shown
      BY <1>1, <2>5, CheckIdleShown DEF Promise!Next
    <2>6. ASSUME NEW c \in Caller, NEW w \in Worker, SendStop(c, w) PROVE Promise!Next
      BY <1>1, <2>6, SendStopShown DEF Promise!Next
    <2>7. ASSUME NEW w \in Worker, Complete(w) \/ Panic(w) PROVE Promise!Next
      BY <1>1, <2>7, CompleteShown, PanicShown DEF Promise!Next
    <2> QED
      BY <1>1, <2>1, <2>2, <2>3, <2>4, <2>5, <2>6, <2>7
         DEF Next, Terminated, CallerRuns, WorkerRuns
  <1>2. PromiseInv /\ [Next]_vars => PromiseInv'
    BY NextPromiseInv
  <1> QED
    BY <1>1, <1>2, InitPromiseInv, InitShown, PTL DEF Spec, PoolImplemented, Promise!Spec

=============================================================================
