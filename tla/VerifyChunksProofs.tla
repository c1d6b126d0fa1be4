------------------------- MODULE VerifyChunksProofs -------------------------
(***************************************************************************)
(* Proofs about VerifyChunks, for any numbers of goroutines, threads and   *)
(* chunks.  What the pool does is taken from ChunkOperatorProofs.  Both    *)
(* properties are about a check in which no download failed, and so is     *)
(* the invariant: a failed download leaves its buffer in two places.       *)
(***************************************************************************)
EXTENDS VerifyChunks, FiniteSetTheorems, SequenceTheorems, TLAPS

Tasks == INSTANCE ChunkOperatorProofs WITH Caller <- Verifier \union {Main}, Task <- Chunk, MayFail <- TRUE

-----------------------------------------------------------------------------
(* The inductive invariant. *)

Elems(q) == {q[n] : n \in 1..Len(q)}

Distinct(q) == \A m, n \in 1..Len(q) : q[m] = q[n] => m = n

StateType ==
  /\ verifier \in [Verifier -> [pc : {"idle", "downloading", "received", "judged", "done"},
                                chunks : SUBSET Chunk, buffers : SUBSET Nat]]
  /\ download \in [Worker -> [pc : {"none", "reading", "checking", "returning"}, buffers : SUBSET Nat]]
  /\ chunkPool \in Seq(Nat) /\ numberOfChunks \in Nat /\ numberOfFailedChunks \in Nat
  /\ corrupt \subseteq Chunk /\ verifiedChunks \subseteq Chunk

Asking(v) == caller[v].pc \in {"counted", "receiving"}

(* The tasks that a goroutine waits for: queued or with a worker. *)
Sent == Elems(taskQueue) \union UNION {worker[w].tasks : w \in {x \in Worker : worker[x].pc = "running"}}

(* A goroutine that is downloading waits for its chunk, and every task has *)
(* one goroutine that does: it is added once and nowhere twice.            *)
OwnersInv ==
  /\ \A v \in Verifier : Asking(v) <=> verifier[v].pc = "downloading"
  /\ \A v \in Verifier : Asking(v) => /\ caller[v].sync /\ caller[v].tasks = verifier[v].chunks
                                      /\ caller[v].tasks \intersect unadded = {}
                                      /\ \E c \in Chunk : caller[v].tasks = {c}
  /\ \A v, x \in Verifier : Asking(v) /\ Asking(x) /\ caller[v].tasks = caller[x].tasks => v = x
  /\ \A v \in Verifier : caller[v].pc = "counted" => caller[v].tasks \intersect Sent = {}
  /\ \A c \in Sent : \E v \in Verifier : caller[v].pc = "receiving" /\ caller[v].tasks = {c}
  /\ Distinct(taskQueue)
  /\ \A w \in Worker : worker[w].pc = "running" => worker[w].tasks \intersect Elems(taskQueue) = {}
  /\ \A w, x \in Worker : worker[w].pc = "running" /\ worker[x].pc = "running" /\ worker[w].tasks = worker[x].tasks
       => w = x

(* A worker that runs a task has a buffer, and so has a goroutine between  *)
(* receiving it and giving it back; every buffer is in one of these places *)
(* or in the free list.                                                    *)
BuffersInv ==
  /\ \A w \in Worker : IF worker[w].pc = "running"
                       THEN /\ download[w].pc \in {"reading", "checking"}
                            /\ \E b \in 1..numberOfChunks : download[w].buffers = {b}
                       ELSE download[w].pc = "none" /\ download[w].buffers = {}
  /\ \A v \in Verifier : IF verifier[v].pc \in {"received", "judged"}
                         THEN \E b \in 1..numberOfChunks : verifier[v].buffers = {b}
                         ELSE verifier[v].buffers = {}
  /\ Elems(chunkPool) \subseteq 1..numberOfChunks /\ Distinct(chunkPool)
  /\ \A b \in 1..numberOfChunks :
       \/ b \in Elems(chunkPool)
       \/ \E w \in Worker : b \in download[w].buffers
       \/ \E v \in Verifier : b \in verifier[v].buffers
  /\ \A w \in Worker : download[w].buffers \intersect Elems(chunkPool) = {}
  /\ \A v \in Verifier : verifier[v].buffers \intersect Elems(chunkPool) = {}
  /\ \A w \in Worker, v \in Verifier : download[w].buffers \intersect verifier[v].buffers = {}
  /\ \A w, x \in Worker : download[w].buffers \intersect download[x].buffers /= {} => w = x
  /\ \A v, x \in Verifier : verifier[v].buffers \intersect verifier[x].buffers /= {} => v = x

(* What is passed on is intact, and a chunk that was taken from the list   *)
(* is recorded or still with the goroutine that took it.                   *)
VerdictInv ==
  /\ isBroken = {}
  /\ \A v \in Verifier : verifier[v].pc = "received" => verifier[v].chunks \intersect corrupt = {}
  /\ verifiedChunks \intersect corrupt = {}
  /\ \A c \in Chunk \ unadded :
       \/ c \in verifiedChunks
       \/ \E v \in Verifier : verifier[v].pc \in {"downloading", "received"} /\ verifier[v].chunks = {c}
  /\ \A v \in Verifier : verifier[v].pc = "done" => unadded = {}

CleanInv == OwnersInv /\ BuffersInv /\ VerdictInv

CheckInv ==
  /\ StateType /\ Tasks!PoolInv
  /\ numberOfFailedChunks = 0 => CleanInv
  /\ SuccessIsTrue

-----------------------------------------------------------------------------
(* Queues and the free list. *)

(* What is taken from the front of a sequence without repetitions is gone. *)
LEMMA TakenElem ==
  ASSUME NEW S, NEW q \in Seq(S), q /= <<>>
  PROVE  /\ Head(q) \in S /\ Tail(q) \in Seq(S)
         /\ Elems(q) = Elems(Tail(q)) \union {Head(q)}
         /\ Distinct(q) => Distinct(Tail(q)) /\ Head(q) \notin Elems(Tail(q))
  <1> DEFINE t == Tail(q)
  <1>1. /\ Head(q) \in S /\ t \in Seq(S) /\ Len(q) \in Nat /\ Len(q) >= 1 /\ Len(t) = Len(q) - 1
        /\ q[1] = Head(q) /\ \A n \in 1..Len(t) : t[n] = q[n + 1]
    BY HeadTailProperties, LenProperties, EmptySeq
  <1> HIDE DEF t
  <1>2. \A n \in 1..Len(q) : n = 1 \/ (n - 1 \in 1..Len(t) /\ q[n] = t[n - 1])
    BY <1>1
  <1>3. \A n \in 1..Len(t) : n + 1 \in 1..Len(q) /\ n + 1 /= 1 /\ t[n] = q[n + 1]
    BY <1>1
  <1>4. 1 \in 1..Len(q)
    BY <1>1
  <1>5. Elems(q) = Elems(t) \union {Head(q)}
    BY <1>1, <1>2, <1>3, <1>4 DEF Elems
  <1>6. ASSUME Distinct(q) PROVE Distinct(t) /\ Head(q) \notin Elems(t)
    <2>1. Head(q) \notin Elems(t)
      BY <1>1, <1>3, <1>4, <1>6 DEF Distinct, Elems
    <2>2. ASSUME NEW m \in 1..Len(t), NEW n \in 1..Len(t), t[m] = t[n] PROVE m = n
      <3>1. m + 1 = n + 1
        BY <1>3, <1>6, <2>2 DEF Distinct
      <3> QED
        BY <1>1, <3>1
    <2> QED
      BY <2>1, <2>2 DEF Distinct
  <1> QED
    BY <1>1, <1>5, <1>6 DEF t

(* What is appended is there. *)
LEMMA AppendedElem ==
  ASSUME NEW S, NEW q \in Seq(S), NEW e \in S
  PROVE  /\ Append(q, e) \in Seq(S)
         /\ Elems(Append(q, e)) = Elems(q) \union {e}
         /\ Distinct(q) /\ e \notin Elems(q) => Distinct(Append(q, e))
  <1> DEFINE a == Append(q, e)
  <1>1. /\ a \in Seq(S) /\ Len(q) \in Nat /\ Len(a) = Len(q) + 1 /\ a[Len(q) + 1] = e
        /\ \A n \in 1..Len(q) : a[n] = q[n]
    BY AppendProperties, LenProperties
  <1> HIDE DEF a
  <1>2. \A n : n \in 1..Len(a) <=> n \in 1..Len(q) \/ n = Len(q) + 1
    BY <1>1
  <1>3. Elems(a) = Elems(q) \union {e}
    BY <1>1, <1>2 DEF Elems
  <1>4. Distinct(q) /\ e \notin Elems(q) => Distinct(a)
    BY <1>1, <1>2 DEF Distinct, Elems
  <1> QED
    BY <1>1, <1>3, <1>4 DEF a

-----------------------------------------------------------------------------
(* The steps of the pool. *)

PoolHandles ==
  \/ \E v \in Verifier : Pool!HandOver(v)
  \/ Pool!Wait(Main, FALSE) \/ Pool!CheckIdle(Main)
  \/ \E w \in Worker : Pool!TakeTask(w) \/ Pool!Panic(w) \/ Pool!Finish(w) \/ Pool!Exit(w)

(* They keep the invariant of the pool; *)
LEMMA PoolHandlesInv ==
  ASSUME Tasks!PoolInv, PoolHandles
  PROVE  Tasks!PoolInv'
  <1>1. \A v \in Verifier : Pool!HandOver(v) => Tasks!HandOver(v)
    BY DEF Pool!HandOver, Tasks!HandOver, Pool!ReadyCaller, Tasks!ReadyCaller, Pool!Cardinality, Tasks!Cardinality
  <1>2. Pool!Wait(Main, FALSE) => Tasks!Wait(Main, FALSE)
    BY DEF Pool!Wait, Tasks!Wait
  <1>3. Pool!CheckIdle(Main) => Tasks!CheckIdle(Main)
    BY DEF Pool!CheckIdle, Tasks!CheckIdle, Pool!ReadyCaller, Tasks!ReadyCaller
  <1>4. \A w \in Worker : Pool!TakeTask(w) => Tasks!TakeTask(w)
    BY DEF Pool!TakeTask, Tasks!TakeTask
  <1>5. \A w \in Worker : Pool!Panic(w) => Tasks!Panic(w)
    BY DEF Pool!Panic, Tasks!Panic
  <1>6. \A w \in Worker : Pool!Finish(w) => Tasks!Finish(w)
    BY DEF Pool!Finish, Tasks!Finish, Pool!Broadcast, Tasks!Broadcast, Pool!AfterRun, Tasks!AfterRun,
           Pool!IdleWorker, Tasks!IdleWorker
  <1>7. \A w \in Worker : Pool!Exit(w) => Tasks!Exit(w)
    BY DEF Pool!Exit, Tasks!Exit
  <1>8. Tasks!Handles
    BY <1>1, <1>2, <1>3, <1>4, <1>5, <1>6, <1>7 DEF PoolHandles, Tasks!Handles
  <1> QED
    BY <1>8, VerifyAssumption, Tasks!HandlesFlight DEF Tasks!IsFiniteSet, IsFiniteSet

(* so do the addition of a task, *)
LEMMA AddedInv ==
  ASSUME Tasks!PoolInv, NEW v \in Verifier, NEW c \in Chunk, Pool!AddTask(v, c, TRUE)
  PROVE  Tasks!PoolInv'
  <1>1. Tasks!AddTask(v, c, TRUE)
    BY DEF Pool!AddTask, Tasks!AddTask, Pool!Stopping, Tasks!Stopping
  <1> QED
    BY <1>1, VerifyAssumption, Tasks!AddTaskFlight DEF Tasks!IsFiniteSet, IsFiniteSet

(* its completion, *)
LEMMA CompletedInv ==
  ASSUME Tasks!PoolInv, NEW w \in Worker, Pool!Complete(w)
  PROVE  Tasks!PoolInv'
  <1>1. Tasks!Complete(w)
    BY DEF Pool!Complete, Tasks!Complete, Pool!ReadyCaller, Tasks!ReadyCaller
  <1> QED
    BY <1>1, VerifyAssumption, Tasks!CompleteFlight DEF Tasks!IsFiniteSet, IsFiniteSet

(* and what happens outside the pool. *)
LEMMA PoolKept ==
  ASSUME Tasks!PoolInv, exited' \in BOOLEAN,
         UNCHANGED <<unadded, caller, worker, taskQueue, numberOfActiveTasks, stopped, failed>>
  PROVE  Tasks!PoolInv'
  BY VerifyAssumption, Tasks!ExitedFlight DEF Tasks!IsFiniteSet, IsFiniteSet

(* What is used of the pool's invariant. *)
LEMMA PoolFacts ==
  ASSUME Tasks!PoolInv
  PROVE  /\ caller \in [Verifier \union {Main} -> Tasks!CallerState]
         /\ worker \in [Worker -> Tasks!WorkerState]
         /\ taskQueue \in Seq(Chunk) /\ unadded \subseteq Chunk /\ exited \in BOOLEAN
         /\ \A w \in Worker : worker[w].pc = "running" => \E c \in Chunk : worker[w].tasks = {c}
         /\ unadded \intersect Sent = {} /\ Sent \subseteq Chunk
  <1>1. /\ caller \in [Verifier \union {Main} -> Tasks!CallerState]
        /\ worker \in [Worker -> Tasks!WorkerState]
        /\ taskQueue \in Seq(Chunk) /\ unadded \subseteq Chunk /\ exited \in BOOLEAN
    BY DEF Tasks!PoolInv, Tasks!OperatorInv, Tasks!TypeOK
  <1>2. \A w \in Worker : worker[w].pc = "running" => \E c \in Chunk : worker[w].tasks = {c}
    BY DEF Tasks!PoolInv, Tasks!FlightInv
  <1>3. \A c \in Sent : Tasks!InFlight(c)
    BY <1>2 DEF Sent, Elems, Tasks!InFlight
  <1>4. unadded \intersect Sent = {}
    BY <1>3 DEF Tasks!PoolInv, Tasks!FlightInv
  <1>5. Sent \subseteq Chunk
    <2>1. Elems(taskQueue) \subseteq Chunk
      BY <1>1, ElementOfSeq DEF Elems
    <2> QED
      BY <1>2, <2>1 DEF Sent
  <1> QED
    BY <1>1, <1>2, <1>4, <1>5

-----------------------------------------------------------------------------
(* The steps of the workers. *)

(* A buffer that is taken or created is with nobody. *)
LEMMA GotBuffer ==
  ASSUME StateType, NEW b, GetChunk(b)
  PROVE  /\ b \in Nat /\ numberOfChunks' \in Nat /\ chunkPool' \in Seq(Nat)
         /\ BuffersInv => /\ b \in 1..numberOfChunks' /\ 1..numberOfChunks' = (1..numberOfChunks) \union {b}
                          /\ Elems(chunkPool') = Elems(chunkPool) \ {b} /\ Distinct(chunkPool')
                          /\ \A w \in Worker : b \notin download[w].buffers
                          /\ \A v \in Verifier : b \notin verifier[v].buffers
  <1>1. numberOfChunks \in Nat /\ chunkPool \in Seq(Nat)
    BY DEF StateType
  <1>2. CASE chunkPool = <<>>
    <2>1. b = numberOfChunks + 1 /\ numberOfChunks' = b /\ chunkPool' = chunkPool
      BY <1>2 DEF GetChunk
    <2>2. 1..b = (1..numberOfChunks) \union {b} /\ b \notin 1..numberOfChunks /\ b \in 1..b
      BY <1>1, <2>1
    <2>3. ASSUME BuffersInv
          PROVE  /\ b \notin Elems(chunkPool)
                 /\ \A w \in Worker : b \notin download[w].buffers
                 /\ \A v \in Verifier : b \notin verifier[v].buffers
      <3>1. \A w \in Worker : download[w].buffers \subseteq 1..numberOfChunks
        BY <2>3 DEF BuffersInv
      <3>2. \A v \in Verifier : verifier[v].buffers \subseteq 1..numberOfChunks
        BY <2>3 DEF BuffersInv
      <3> QED
        BY <2>2, <2>3, <3>1, <3>2 DEF BuffersInv
    <2>4. BuffersInv => Distinct(chunkPool)
      BY DEF BuffersInv
    <2>5. b \in Nat
      BY <1>1, <2>1
    <2> QED
      BY <1>1, <2>1, <2>2, <2>3, <2>4, <2>5
  <1>3. CASE chunkPool /= <<>>
    <2>1. b = Head(chunkPool) /\ chunkPool' = Tail(chunkPool) /\ numberOfChunks' = numberOfChunks
      BY <1>3 DEF GetChunk
    <2>2. /\ b \in Nat /\ chunkPool' \in Seq(Nat)
          /\ Elems(chunkPool) = Elems(chunkPool') \union {b}
          /\ Distinct(chunkPool) => Distinct(chunkPool') /\ b \notin Elems(chunkPool')
      BY <1>1, <1>3, <2>1, TakenElem
    <2> QED
      BY <1>1, <2>1, <2>2 DEF BuffersInv
  <1> QED
    BY <1>2, <1>3

(* A worker that takes a task takes a buffer. *)
LEMMA StartDownloadInv ==
  ASSUME CheckInv, ~Ended, NEW w \in Worker, StartDownload(w)
  PROVE  CheckInv'
  <1> USE DEF CheckInv
  <1>1. PICK b : GetChunk(b) /\ download' = [download EXCEPT ![w] = [pc |-> "reading", buffers |-> {b}]]
    BY DEF StartDownload
  <1>2. /\ Pool!TakeTask(w) /\ UNCHANGED <<verifier, numberOfFailedChunks, allowFailures, corrupt, verifiedChunks, result>>
    BY DEF StartDownload, checkVars
  <1>3. Tasks!PoolInv'
    BY <1>2, PoolHandlesInv DEF PoolHandles
  <1>4. b \in Nat /\ numberOfChunks' \in Nat /\ chunkPool' \in Seq(Nat)
    BY <1>1, GotBuffer
  <1>5. StateType'
    BY <1>1, <1>2, <1>4 DEF StateType
  <1>6. SuccessIsTrue'
    BY <1>2 DEF SuccessIsTrue, Ended
  <1>7. ASSUME numberOfFailedChunks = 0 PROVE CleanInv'
    <2> USE <1>7 DEF CleanInv
    <2> DEFINE t == Head(taskQueue)
    <2>1. /\ caller \in [Verifier \union {Main} -> Tasks!CallerState] /\ worker \in [Worker -> Tasks!WorkerState]
          /\ taskQueue \in Seq(Chunk)
          /\ \A x \in Worker : worker[x].pc = "running" => \E c \in Chunk : worker[x].tasks = {c}
      BY PoolFacts
    <2>2. /\ worker[w].pc = "idle" /\ taskQueue /= <<>> /\ taskQueue' = Tail(taskQueue)
          /\ worker'[w].pc = "running" /\ worker'[w].tasks = {t}
          /\ \A x \in Worker \ {w} : worker'[x] = worker[x]
          /\ UNCHANGED <<unadded, caller>>
      BY <1>2, <2>1 DEF Pool!TakeTask, Tasks!WorkerState
    <2>3. /\ Elems(taskQueue) = Elems(taskQueue') \union {t}
          /\ Distinct(taskQueue) => Distinct(taskQueue') /\ t \notin Elems(taskQueue')
      BY <2>1, <2>2, TakenElem
    <2> HIDE DEF t
    <2>4. Sent' = Sent
      BY <2>2, <2>3 DEF Sent
    <2>5. OwnersInv'
      <3>1. \A v \in Verifier : Asking(v)' <=> Asking(v)
        BY <2>2 DEF Asking
      <3>2. Distinct(taskQueue') /\ t \notin Elems(taskQueue')
        BY <2>3 DEF OwnersInv
      <3>3. \A x \in Worker : worker'[x].pc = "running" => worker'[x].tasks \intersect Elems(taskQueue') = {}
        BY <2>2, <2>3, <3>2 DEF OwnersInv
      <3>4. \A x \in Worker \ {w} : worker[x].pc = "running" => worker[x].tasks /= {t}
        BY <2>3 DEF OwnersInv
      <3>5. \A x, y \in Worker :
              worker'[x].pc = "running" /\ worker'[y].pc = "running" /\ worker'[x].tasks = worker'[y].tasks => x = y
        BY <2>2, <3>4 DEF OwnersInv
      <3> QED
        BY <1>2, <2>2, <2>4, <3>1, <3>2, <3>3, <3>5 DEF OwnersInv
    <2>6. BuffersInv'
      <3>1. /\ b \in 1..numberOfChunks' /\ 1..numberOfChunks' = (1..numberOfChunks) \union {b}
            /\ Elems(chunkPool') = Elems(chunkPool) \ {b} /\ Distinct(chunkPool')
            /\ \A x \in Worker : b \notin download[x].buffers
            /\ \A v \in Verifier : b \notin verifier[v].buffers
        BY <1>1, GotBuffer
      <3>2. /\ download'[w].pc = "reading" /\ download'[w].buffers = {b}
            /\ \A x \in Worker \ {w} : download'[x] = download[x]
        BY <1>1 DEF StateType
      <3>3. download[w].buffers = {}
        BY <2>2 DEF BuffersInv
      <3>4. \A x \in Worker : IF worker'[x].pc = "running"
                              THEN /\ download'[x].pc \in {"reading", "checking"}
                                   /\ \E e \in 1..numberOfChunks' : download'[x].buffers = {e}
                              ELSE download'[x].pc = "none" /\ download'[x].buffers = {}
        BY <2>2, <3>1, <3>2 DEF BuffersInv
      <3>5. \A v \in Verifier : IF verifier'[v].pc \in {"received", "judged"}
                                THEN \E e \in 1..numberOfChunks' : verifier'[v].buffers = {e}
                                ELSE verifier'[v].buffers = {}
        BY <1>2, <3>1 DEF BuffersInv
      <3>6. Elems(chunkPool') \subseteq 1..numberOfChunks'
        BY <3>1 DEF BuffersInv
      <3>7. \A e \in 1..numberOfChunks' :
              \/ e \in Elems(chunkPool')
              \/ \E x \in Worker : e \in download'[x].buffers
              \/ \E v \in Verifier : e \in verifier'[v].buffers
        <4> SUFFICES ASSUME NEW e \in 1..numberOfChunks, e /= b
                     PROVE  \/ e \in Elems(chunkPool')
                            \/ \E x \in Worker : e \in download'[x].buffers
                            \/ \E v \in Verifier : e \in verifier'[v].buffers
          BY <3>1, <3>2
        <4>1. \/ e \in Elems(chunkPool)
              \/ \E x \in Worker \ {w} : e \in download[x].buffers
              \/ \E v \in Verifier : e \in verifier[v].buffers
          BY <3>3 DEF BuffersInv
        <4> QED
          BY <1>2, <3>1, <3>2, <4>1
      <3>8. /\ \A x \in Worker : download'[x].buffers \intersect Elems(chunkPool') = {}
            /\ \A v \in Verifier : verifier'[v].buffers \intersect Elems(chunkPool') = {}
        BY <1>2, <3>1, <3>2 DEF BuffersInv
      <3>9. \A x \in Worker, v \in Verifier : download'[x].buffers \intersect verifier'[v].buffers = {}
        BY <1>2, <3>1, <3>2 DEF BuffersInv
      <3>10. \A x, y \in Worker : download'[x].buffers \intersect download'[y].buffers /= {} => x = y
        BY <3>1, <3>2 DEF BuffersInv
      <3>11. \A v, x \in Verifier : verifier'[v].buffers \intersect verifier'[x].buffers /= {} => v = x
        BY <1>2 DEF BuffersInv
      <3> QED
        BY <3>1, <3>4, <3>5, <3>6, <3>7, <3>8, <3>9, <3>10, <3>11 DEF BuffersInv
    <2>7. VerdictInv'
      BY <1>1, <1>2, <2>2 DEF VerdictInv, GetChunk
    <2> QED
      BY <2>5, <2>6, <2>7
  <1> QED
    BY <1>2, <1>3, <1>5, <1>6, <1>7

(* A step that neither adds a task nor moves one, and starts or ends no    *)
(* download of a goroutine.                                                *)
LEMMA OwnersKept ==
  ASSUME OwnersInv, UNCHANGED <<unadded, taskQueue>>,
         \A v \in Verifier : /\ Asking(v)' <=> Asking(v)
                             /\ Asking(v) => caller'[v] = caller[v]
                             /\ verifier'[v].pc = "downloading" <=> verifier[v].pc = "downloading"
                             /\ verifier[v].pc = "downloading" => verifier'[v].chunks = verifier[v].chunks,
         \A w \in Worker : /\ worker'[w].pc = "running" <=> worker[w].pc = "running"
                           /\ worker[w].pc = "running" => worker'[w] = worker[w]
  PROVE  OwnersInv'
  <1>1. Sent' = Sent
    BY DEF Sent
  <1>2. \A v \in Verifier : /\ caller'[v].pc = "counted" <=> caller[v].pc = "counted"
                            /\ caller'[v].pc = "receiving" <=> caller[v].pc = "receiving"
    BY DEF Asking
  <1>3. \A v \in Verifier : Asking(v)' => /\ caller'[v].sync /\ caller'[v].tasks = verifier'[v].chunks
                                          /\ caller'[v].tasks \intersect unadded' = {}
                                          /\ \E c \in Chunk : caller'[v].tasks = {c}
    BY DEF OwnersInv
  <1>4. \A v, x \in Verifier : Asking(v)' /\ Asking(x)' /\ caller'[v].tasks = caller'[x].tasks => v = x
    BY DEF OwnersInv
  <1>5. \A v \in Verifier : caller'[v].pc = "counted" => caller'[v].tasks \intersect Sent' = {}
    BY <1>1, <1>2 DEF OwnersInv, Asking
  <1>6. \A c \in Sent' : \E v \in Verifier : caller'[v].pc = "receiving" /\ caller'[v].tasks = {c}
    BY <1>1, <1>2 DEF OwnersInv, Asking
  <1>7. /\ \A w \in Worker : worker'[w].pc = "running" => worker'[w].tasks \intersect Elems(taskQueue') = {}
        /\ \A w, x \in Worker :
             worker'[w].pc = "running" /\ worker'[x].pc = "running" /\ worker'[w].tasks = worker'[x].tasks => w = x
    BY DEF OwnersInv
  <1>8. /\ \A v \in Verifier : Asking(v)' <=> verifier'[v].pc = "downloading"
        /\ Distinct(taskQueue')
    BY DEF OwnersInv
  <1> QED
    BY <1>3, <1>4, <1>5, <1>6, <1>7, <1>8 DEF OwnersInv

(* A worker reads the chunk into its buffer. *)
LEMMA ReadFileInv ==
  ASSUME CheckInv, ~Ended, NEW w \in Worker, ReadFile(w)
  PROVE  CheckInv'
  <1> USE DEF CheckInv
  <1>1. /\ download[w].pc = "reading" /\ download' = [download EXCEPT ![w].pc = "checking"]
        /\ UNCHANGED <<unadded, caller, worker, taskQueue, numberOfActiveTasks, stopped, failed, exited,
                       allowFailures, corrupt, verifiedChunks, result, chunkPool, numberOfChunks, isBroken, verifier,
                       numberOfFailedChunks>>
    BY DEF ReadFile, poolVars, checkVars
  <1>2. Tasks!PoolInv'
    BY <1>1, PoolFacts, PoolKept
  <1>3. StateType'
    BY <1>1 DEF StateType
  <1>4. \A x \in Worker : /\ download'[x].buffers = download[x].buffers
                          /\ download'[x].pc = IF x = w THEN "checking" ELSE download[x].pc
    BY <1>1 DEF StateType
  <1>5. SuccessIsTrue'
    BY <1>1 DEF SuccessIsTrue
  <1>6. ASSUME numberOfFailedChunks = 0 PROVE CleanInv'
    <2> USE <1>6 DEF CleanInv
    <2>1. OwnersInv'
      BY <1>1, OwnersKept DEF Asking
    <2>2. \A x \in Worker : IF worker[x].pc = "running"
                            THEN /\ download'[x].pc \in {"reading", "checking"}
                                 /\ \E b \in 1..numberOfChunks : download'[x].buffers = {b}
                            ELSE download'[x].pc = "none" /\ download'[x].buffers = {}
      BY <1>1, <1>4 DEF BuffersInv
    <2>3. BuffersInv'
      BY <1>1, <1>4, <2>2 DEF BuffersInv
    <2>4. VerdictInv'
      BY <1>1 DEF VerdictInv
    <2> QED
      BY <2>1, <2>3, <2>4
  <1> QED
    BY <1>1, <1>2, <1>3, <1>5, <1>6

(* The goroutine that asked for the chunk, and no other, gets the buffer   *)
(* with it.                                                                *)
LEMMA DownloadDoneInv ==
  ASSUME CheckInv, ~Ended, NEW w \in Worker, DownloadDone(w)
  PROVE  CheckInv'
  <1> USE DEF CheckInv
  <1>1. /\ download[w].pc = "checking" /\ Intact(w) /\ Pool!Complete(w)
        /\ verifier' = [v \in Verifier |->
             IF caller[v].pc = "receiving" /\ caller[v].tasks = worker[w].tasks
             THEN [verifier[v] EXCEPT !.pc = "received", !.buffers = download[w].buffers]
             ELSE verifier[v]]
        /\ download' = [download EXCEPT ![w] = NoDownload]
        /\ UNCHANGED <<chunkPool, numberOfChunks, isBroken, allowFailures, corrupt, verifiedChunks, result,
                       numberOfFailedChunks>>
    BY DEF DownloadDone, PassOn, bufferVars, checkVars
  <1>2. Tasks!PoolInv'
    BY <1>1, CompletedInv
  <1>3. StateType'
    <2>1. \A v \in Verifier : [verifier[v] EXCEPT !.pc = "received", !.buffers = download[w].buffers] \in
            [pc : {"idle", "downloading", "received", "judged", "done"}, chunks : SUBSET Chunk, buffers : SUBSET Nat]
      BY DEF StateType
    <2> QED
      BY <1>1, <2>1 DEF StateType, NoDownload
  <1>4. SuccessIsTrue'
    BY <1>1 DEF SuccessIsTrue, Ended
  <1>5. ASSUME numberOfFailedChunks = 0 PROVE CleanInv'
    <2> USE <1>5 DEF CleanInv
    <2>1. /\ caller \in [Verifier \union {Main} -> Tasks!CallerState] /\ worker \in [Worker -> Tasks!WorkerState]
          /\ \A x \in Worker : worker[x].pc = "running" => \E c \in Chunk : worker[x].tasks = {c}
      BY PoolFacts
    <2>2. /\ worker[w].pc = "running" /\ worker'[w].pc = "finishing"
          /\ \A x \in Worker \ {w} : worker'[x] = worker[x]
          /\ \A c \in Verifier \union {Main} :
               caller'[c] = IF caller[c].pc = "receiving" /\ caller[c].tasks = worker[w].tasks
                            THEN Pool!ReadyCaller ELSE caller[c]
          /\ UNCHANGED <<unadded, taskQueue>>
      BY <1>1, <2>1 DEF Pool!Complete, Tasks!WorkerState
    <2>3. PICK c \in Chunk : worker[w].tasks = {c}
      BY <2>1, <2>2
    <2>4. PICK u \in Verifier : caller[u].pc = "receiving" /\ caller[u].tasks = {c}
      <3>1. c \in Sent
        BY <2>2, <2>3 DEF Sent
      <3>2. \A d \in Sent : \E v \in Verifier : caller[v].pc = "receiving" /\ caller[v].tasks = {d}
        BY DEF OwnersInv
      <3> QED
        BY ONLY <3>1, <3>2
    <2>5. \A v \in Verifier : Asking(v) /\ caller[v].tasks = {c} => v = u
      BY <2>4 DEF OwnersInv, Asking
    <2>6. /\ caller'[u].pc = "ready" /\ \A v \in Verifier \ {u} : caller'[v] = caller[v]
      BY <2>2, <2>3, <2>4, <2>5 DEF Asking, Pool!ReadyCaller
    <2>7. /\ verifier'[u].pc = "received" /\ verifier'[u].buffers = download[w].buffers
          /\ verifier'[u].chunks = verifier[u].chunks
          /\ \A v \in Verifier \ {u} : verifier'[v] = verifier[v]
      <3>1. verifier'[u] = [verifier[u] EXCEPT !.pc = "received", !.buffers = download[w].buffers]
        BY <1>1, <2>3, <2>4
      <3>2. \A v \in Verifier \ {u} : verifier'[v] = verifier[v]
        BY <1>1, <2>3, <2>5 DEF Asking
      <3> QED
        BY <3>1, <3>2 DEF StateType
    <2>8. verifier[u].pc = "downloading" /\ verifier[u].chunks = {c}
      BY <2>4 DEF OwnersInv, Asking
    <2>9. c \notin Sent' /\ Sent' \subseteq Sent
      <3>1. c \notin Elems(taskQueue)
        BY <2>2, <2>3 DEF OwnersInv
      <3>2. \A x \in Worker \ {w} : worker[x].pc = "running" => c \notin worker[x].tasks
        <4> SUFFICES ASSUME NEW x \in Worker \ {w}, worker[x].pc = "running", c \in worker[x].tasks PROVE FALSE
          OBVIOUS
        <4>1. worker[x].tasks = worker[w].tasks
          BY <2>1, <2>3
        <4> QED
          BY <2>2, <4>1 DEF OwnersInv
      <3> QED
        BY <2>2, <3>1, <3>2 DEF Sent
    <2>10. OwnersInv'
      <3>1. \A v \in Verifier : Asking(v)' <=> Asking(v) /\ v /= u
        BY <2>6 DEF Asking
      <3>2. \A v \in Verifier : Asking(v)' <=> verifier'[v].pc = "downloading"
        BY <2>7, <3>1 DEF OwnersInv
      <3>3. \A v \in Verifier : Asking(v)' => /\ caller'[v].sync /\ caller'[v].tasks = verifier'[v].chunks
                                              /\ caller'[v].tasks \intersect unadded' = {}
                                              /\ \E e \in Chunk : caller'[v].tasks = {e}
        BY <2>2, <2>6, <2>7, <3>1 DEF OwnersInv
      <3>4. \A v, x \in Verifier : Asking(v)' /\ Asking(x)' /\ caller'[v].tasks = caller'[x].tasks => v = x
        BY <2>6, <3>1 DEF OwnersInv
      <3>5. \A v \in Verifier : caller'[v].pc = "counted" => caller'[v].tasks \intersect Sent' = {}
        BY <2>6, <2>9 DEF OwnersInv
      <3>6. \A e \in Sent' : \E v \in Verifier : caller'[v].pc = "receiving" /\ caller'[v].tasks = {e}
        <4> SUFFICES ASSUME NEW e \in Sent'
                     PROVE  \E v \in Verifier : caller'[v].pc = "receiving" /\ caller'[v].tasks = {e}
          OBVIOUS
        <4>1. PICK v \in Verifier : caller[v].pc = "receiving" /\ caller[v].tasks = {e}
          BY <2>9 DEF OwnersInv
        <4>2. v /= u
          BY <2>4, <2>9, <4>1
        <4> QED
          BY <2>6, <4>1, <4>2
      <3>7. /\ Distinct(taskQueue')
            /\ \A x \in Worker : worker'[x].pc = "running" => worker'[x].tasks \intersect Elems(taskQueue') = {}
            /\ \A x, y \in Worker :
                 worker'[x].pc = "running" /\ worker'[y].pc = "running" /\ worker'[x].tasks = worker'[y].tasks => x = y
        BY <2>2 DEF OwnersInv
      <3> QED
        BY <3>2, <3>3, <3>4, <3>5, <3>6, <3>7 DEF OwnersInv
    <2>11. BuffersInv'
      <3>1. /\ download'[w].pc = "none" /\ download'[w].buffers = {}
            /\ \A x \in Worker \ {w} : download'[x] = download[x]
        BY <1>1 DEF StateType, NoDownload
      <3>2. PICK b \in 1..numberOfChunks : download[w].buffers = {b}
        BY <2>2 DEF BuffersInv
      <3>3. verifier[u].buffers = {}
        BY <2>8 DEF BuffersInv
      <3>4. \A x \in Worker : IF worker'[x].pc = "running"
                              THEN /\ download'[x].pc \in {"reading", "checking"}
                                   /\ \E e \in 1..numberOfChunks : download'[x].buffers = {e}
                              ELSE download'[x].pc = "none" /\ download'[x].buffers = {}
        BY <2>2, <3>1 DEF BuffersInv
      <3>5. \A v \in Verifier : IF verifier'[v].pc \in {"received", "judged"}
                                THEN \E e \in 1..numberOfChunks : verifier'[v].buffers = {e}
                                ELSE verifier'[v].buffers = {}
        BY <2>7, <3>2 DEF BuffersInv
      <3>6. \A e \in 1..numberOfChunks :
              \/ e \in Elems(chunkPool)
              \/ \E x \in Worker : e \in download'[x].buffers
              \/ \E v \in Verifier : e \in verifier'[v].buffers
        <4> SUFFICES ASSUME NEW e \in 1..numberOfChunks, e /= b
                     PROVE  \/ e \in Elems(chunkPool)
                            \/ \E x \in Worker : e \in download'[x].buffers
                            \/ \E v \in Verifier : e \in verifier'[v].buffers
          BY <2>7, <3>2
        <4>1. \/ e \in Elems(chunkPool)
              \/ \E x \in Worker \ {w} : e \in download[x].buffers
              \/ \E v \in Verifier \ {u} : e \in verifier[v].buffers
          BY <3>2, <3>3 DEF BuffersInv
        <4> QED
          BY <2>7, <3>1, <4>1
      <3>7. /\ \A x \in Worker : download'[x].buffers \intersect Elems(chunkPool) = {}
            /\ \A v \in Verifier : verifier'[v].buffers \intersect Elems(chunkPool) = {}
        BY <2>7, <3>1 DEF BuffersInv
      <3>8. \A x \in Worker, v \in Verifier : download'[x].buffers \intersect verifier'[v].buffers = {}
        BY <2>7, <3>1 DEF BuffersInv
      <3>9. \A x, y \in Worker : download'[x].buffers \intersect download'[y].buffers /= {} => x = y
        BY <3>1 DEF BuffersInv
      <3>10. \A v, x \in Verifier : verifier'[v].buffers \intersect verifier'[x].buffers /= {} => v = x
        BY <2>7 DEF BuffersInv
      <3>11. Elems(chunkPool) \subseteq 1..numberOfChunks /\ Distinct(chunkPool)
        BY DEF BuffersInv
      <3>12. UNCHANGED <<chunkPool, numberOfChunks>>
        BY <1>1
      <3> QED
        BY <3>4, <3>5, <3>6, <3>7, <3>8, <3>9, <3>10, <3>11, <3>12 DEF BuffersInv
    <2>12. VerdictInv'
      <3>1. verifier'[u].chunks \intersect corrupt = {}
        BY <1>1, <2>3, <2>7, <2>8 DEF Intact
      <3>2. UNCHANGED <<unadded, isBroken, corrupt, verifiedChunks>>
        BY <1>1, <2>2
      <3>3. \A v \in Verifier : verifier'[v].pc = "received" => verifier'[v].chunks \intersect corrupt = {}
        BY <2>7, <3>1 DEF VerdictInv
      <3>4. \A e \in Chunk \ unadded :
              \/ e \in verifiedChunks
              \/ \E v \in Verifier : verifier'[v].pc \in {"downloading", "received"} /\ verifier'[v].chunks = {e}
        BY <2>7 DEF VerdictInv
      <3>5. \A v \in Verifier : verifier'[v].pc = "done" => unadded = {}
        BY <2>7 DEF VerdictInv
      <3> QED
        BY <3>2, <3>3, <3>4, <3>5 DEF VerdictInv
    <2> QED
      BY <2>10, <2>11, <2>12
  <1> QED
    BY <1>1, <1>2, <1>3, <1>4, <1>5

(* After a download that failed nothing is said about the buffers. *)
LEMMA DownloadFailedInv ==
  ASSUME CheckInv, ~Ended, NEW w \in Worker, DownloadFailed(w)
  PROVE  CheckInv'
  <1> USE DEF CheckInv
  <1>1. /\ numberOfFailedChunks' = numberOfFailedChunks + 1
        /\ download' = [download EXCEPT ![w].pc = "returning"]
        /\ UNCHANGED <<chunkPool, numberOfChunks, corrupt, verifiedChunks, result>>
        /\ \/ PassOn(w)
           \/ Pool!Panic(w) /\ UNCHANGED verifier
    BY DEF DownloadFailed, Failures, checkVars
  <1>2. Tasks!PoolInv'
    BY <1>1, CompletedInv, PoolHandlesInv DEF PassOn, PoolHandles
  <1>3. numberOfFailedChunks' \in Nat /\ numberOfFailedChunks' /= 0
    BY <1>1 DEF StateType
  <1>4. StateType'
    <2>1. \A v \in Verifier : [verifier[v] EXCEPT !.pc = "received", !.buffers = download[w].buffers] \in
            [pc : {"idle", "downloading", "received", "judged", "done"}, chunks : SUBSET Chunk, buffers : SUBSET Nat]
      BY DEF StateType
    <2>2. verifier' \in [Verifier -> [pc : {"idle", "downloading", "received", "judged", "done"},
                                      chunks : SUBSET Chunk, buffers : SUBSET Nat]]
      <3>1. CASE PassOn(w)
        <4>1. verifier' = [v \in Verifier |->
                IF caller[v].pc = "receiving" /\ caller[v].tasks = worker[w].tasks
                THEN [verifier[v] EXCEPT !.pc = "received", !.buffers = download[w].buffers]
                ELSE verifier[v]]
          BY <3>1 DEF PassOn
        <4> QED
          BY <2>1, <4>1 DEF StateType
      <3>2. CASE UNCHANGED verifier
        BY <3>2 DEF StateType
      <3> QED
        BY <1>1, <3>1, <3>2
    <2>3. download' \in [Worker -> [pc : {"none", "reading", "checking", "returning"}, buffers : SUBSET Nat]]
      BY <1>1 DEF StateType
    <2> QED
      BY <1>1, <1>3, <2>2, <2>3 DEF StateType
  <1>5. SuccessIsTrue'
    BY <1>1 DEF SuccessIsTrue
  <1> QED
    BY <1>2, <1>3, <1>4, <1>5

(* The deferred function gives a buffer back after a failure only. *)
LEMMA DownloadReturnsInv ==
  ASSUME CheckInv, ~Ended, NEW w \in Worker, DownloadReturns(w)
  PROVE  CheckInv'
  <1> USE DEF CheckInv
  <1>1. PICK b \in download[w].buffers : PutChunk(b)
    BY DEF DownloadReturns
  <1>2. /\ download[w].pc = "returning" /\ download' = [download EXCEPT ![w] = NoDownload]
        /\ UNCHANGED <<unadded, caller, worker, taskQueue, numberOfActiveTasks, stopped, failed, exited,
                       corrupt, verifiedChunks, result, verifier, numberOfFailedChunks>>
    BY DEF DownloadReturns, poolVars, checkVars
  <1>3. Tasks!PoolInv'
    BY <1>2, PoolFacts, PoolKept
  <1>4. b \in Nat
    BY <1>1 DEF StateType
  <1>5. chunkPool' \in Seq(Nat) /\ numberOfChunks' = numberOfChunks
    BY <1>1, <1>4, AppendedElem DEF PutChunk, StateType
  <1>6. StateType'
    BY <1>2, <1>5 DEF StateType, NoDownload
  <1>7. numberOfFailedChunks /= 0
    BY <1>2 DEF CleanInv, BuffersInv
  <1>8. SuccessIsTrue'
    BY <1>2 DEF SuccessIsTrue
  <1> QED
    BY <1>2, <1>3, <1>6, <1>7, <1>8

(* The end of Run. *)
LEMMA RunEndsInv ==
  ASSUME CheckInv, ~Ended, NEW w \in Worker, RunEnds(w)
  PROVE  CheckInv'
  <1> USE DEF CheckInv
  <1>1. /\ Pool!Finish(w) \/ Pool!Exit(w)
        /\ UNCHANGED <<chunkPool, numberOfChunks, isBroken, corrupt, verifiedChunks, result, verifier, download,
                       numberOfFailedChunks>>
    BY DEF RunEnds, bufferVars, checkVars
  <1>2. Tasks!PoolInv'
    BY <1>1, PoolHandlesInv DEF PoolHandles
  <1>3. StateType' /\ SuccessIsTrue'
    BY <1>1 DEF StateType, SuccessIsTrue
  <1>4. ASSUME numberOfFailedChunks = 0 PROVE CleanInv'
    <2> USE <1>4 DEF CleanInv
    <2>1. caller \in [Verifier \union {Main} -> Tasks!CallerState] /\ worker \in [Worker -> Tasks!WorkerState]
      BY PoolFacts
    <2>2. UNCHANGED <<unadded, taskQueue>>
      BY <1>1 DEF Pool!Finish, Pool!Exit
    <2>3. \A v \in Verifier : \/ caller'[v] = caller[v]
                              \/ caller[v].pc = "parked" /\ caller'[v].pc = "waiting"
      BY <1>1, <2>1 DEF Pool!Finish, Pool!Exit, Pool!Broadcast, Tasks!CallerState
    <2>4. \A x \in Worker : \/ worker'[x] = worker[x]
                            \/ worker[x].pc /= "running" /\ worker'[x].pc /= "running"
      BY <1>1, <2>1 DEF Pool!Finish, Pool!Exit, Pool!AfterRun, Pool!IdleWorker, Tasks!WorkerState
    <2>5. OwnersInv'
      BY <1>1, <2>2, <2>3, <2>4, OwnersKept DEF Asking
    <2>6. BuffersInv'
      BY <1>1, <2>4 DEF BuffersInv
    <2>7. VerdictInv'
      BY <1>1, <2>2 DEF VerdictInv
    <2> QED
      BY <2>5, <2>6, <2>7
  <1> QED
    BY <1>1, <1>2, <1>3, <1>4

-----------------------------------------------------------------------------
(* The steps of the goroutines. *)

(* A chunk is taken from the list by one goroutine, which asks for it. *)
LEMMA VerifyNextInv ==
  ASSUME CheckInv, ~Ended, NEW v \in Verifier, VerifyNext(v)
  PROVE  CheckInv'
  <1> USE DEF CheckInv
  <1>1. PICK c \in unadded : /\ Pool!AddTask(v, c, TRUE)
                             /\ verifier' = [verifier EXCEPT ![v].pc = "downloading", ![v].chunks = {c}]
    BY DEF VerifyNext
  <1>2. /\ verifier[v].pc = "idle"
        /\ UNCHANGED <<chunkPool, numberOfChunks, isBroken, corrupt, verifiedChunks, result, download,
                       numberOfFailedChunks>>
    BY DEF VerifyNext, bufferVars, checkVars
  <1>3. /\ caller \in [Verifier \union {Main} -> Tasks!CallerState]
        /\ unadded \intersect Sent = {} /\ c \in Chunk
    BY PoolFacts
  <1>4. Tasks!PoolInv'
    BY <1>1, <1>3, AddedInv
  <1>5. /\ verifier'[v].pc = "downloading" /\ verifier'[v].chunks = {c} /\ verifier'[v].buffers = verifier[v].buffers
        /\ \A x \in Verifier \ {v} : verifier'[x] = verifier[x]
    BY <1>1 DEF StateType
  <1>6. StateType' /\ SuccessIsTrue'
    <2>1. [verifier[v] EXCEPT !.pc = "downloading", !.chunks = {c}] \in
            [pc : {"idle", "downloading", "received", "judged", "done"}, chunks : SUBSET Chunk, buffers : SUBSET Nat]
      BY <1>3 DEF StateType
    <2>2. verifier' = [verifier EXCEPT ![v] = [verifier[v] EXCEPT !.pc = "downloading", !.chunks = {c}]]
      BY <1>1 DEF StateType
    <2>3. StateType'
      BY <1>2, <2>1, <2>2 DEF StateType
    <2>4. SuccessIsTrue'
      BY <1>2 DEF SuccessIsTrue
    <2> QED
      BY <2>3, <2>4
  <1>7. /\ caller[v].pc = "ready" /\ caller'[v].pc = "counted" /\ caller'[v].tasks = {c} /\ caller'[v].sync = TRUE
        /\ \A x \in Verifier \ {v} : caller'[x] = caller[x]
        /\ unadded' = unadded \ {c} /\ UNCHANGED <<worker, taskQueue>>
    BY <1>1, <1>3 DEF Pool!AddTask, Tasks!CallerState
  <1>8. ASSUME numberOfFailedChunks = 0 PROVE CleanInv'
    <2> USE <1>8 DEF CleanInv
    <2>1. OwnersInv'
      <3>1. Sent' = Sent
        BY <1>7 DEF Sent
      <3>2. \A x \in Verifier : Asking(x)' <=> Asking(x) \/ x = v
        BY <1>7 DEF Asking
      <3>3. \A x \in Verifier : Asking(x)' <=> verifier'[x].pc = "downloading"
        BY <1>5, <3>2 DEF OwnersInv
      <3>4. \A x \in Verifier : Asking(x)' => /\ caller'[x].sync /\ caller'[x].tasks = verifier'[x].chunks
                                              /\ caller'[x].tasks \intersect unadded' = {}
                                              /\ \E e \in Chunk : caller'[x].tasks = {e}
        <4> SUFFICES ASSUME NEW x \in Verifier, Asking(x)'
                     PROVE  /\ caller'[x].sync /\ caller'[x].tasks = verifier'[x].chunks
                            /\ caller'[x].tasks \intersect unadded' = {}
                            /\ \E e \in Chunk : caller'[x].tasks = {e}
          OBVIOUS
        <4>1. CASE x = v
          BY <1>3, <1>5, <1>7, <4>1
        <4>2. CASE x /= v
          <5>1. /\ caller[x].sync /\ caller[x].tasks = verifier[x].chunks
                /\ caller[x].tasks \intersect unadded = {}
                /\ \E e \in Chunk : caller[x].tasks = {e}
            BY <3>2, <4>2 DEF OwnersInv
          <5> QED
            BY <1>5, <1>7, <4>2, <5>1
        <4> QED
          BY <4>1, <4>2
      <3>5. \A x, y \in Verifier : Asking(x)' /\ Asking(y)' /\ caller'[x].tasks = caller'[y].tasks => x = y
        BY <1>7, <3>2 DEF OwnersInv
      <3>6. \A x \in Verifier : caller'[x].pc = "counted" => caller'[x].tasks \intersect Sent' = {}
        BY <1>3, <1>7, <3>1 DEF OwnersInv
      <3>7. \A e \in Sent' : \E x \in Verifier : caller'[x].pc = "receiving" /\ caller'[x].tasks = {e}
        BY <1>7, <3>1 DEF OwnersInv
      <3>8. /\ Distinct(taskQueue)'
            /\ \A w \in Worker : worker'[w].pc = "running" => worker'[w].tasks \intersect Elems(taskQueue') = {}
            /\ \A w, x \in Worker : worker'[w].pc = "running" /\ worker'[x].pc = "running"
                                       /\ worker'[w].tasks = worker'[x].tasks => w = x
        BY <1>7 DEF OwnersInv
      <3> QED
        BY ONLY <3>3, <3>4, <3>5, <3>6, <3>7, <3>8 DEF OwnersInv
    <2>2. BuffersInv'
      <3>1. \A x \in Verifier : /\ verifier'[x].buffers = verifier[x].buffers
                                /\ verifier'[x].pc \in {"received", "judged"} <=> verifier[x].pc \in {"received", "judged"}
        BY <1>2, <1>5
      <3> QED
        BY <1>2, <1>7, <3>1 DEF BuffersInv
    <2>3. VerdictInv'
      <3>1. \A e \in Chunk \ unadded' :
              \/ e \in verifiedChunks
              \/ \E x \in Verifier : verifier'[x].pc \in {"downloading", "received"} /\ verifier'[x].chunks = {e}
        <4> SUFFICES ASSUME NEW e \in Chunk \ unadded, e \notin verifiedChunks
                     PROVE  \E x \in Verifier : verifier'[x].pc \in {"downloading", "received"} /\ verifier'[x].chunks = {e}
          BY <1>5, <1>7
        <4>1. PICK x \in Verifier : verifier[x].pc \in {"downloading", "received"} /\ verifier[x].chunks = {e}
          BY DEF VerdictInv
        <4> QED
          BY <1>2, <1>5, <4>1
      <3>2. \A x \in Verifier : verifier'[x].pc = "received" => verifier'[x].chunks \intersect corrupt = {}
        BY <1>5 DEF VerdictInv
      <3>3. \A x \in Verifier : verifier'[x].pc = "done" => unadded' = {}
        BY <1>5, <1>7 DEF VerdictInv
      <3> QED
        BY <1>2, <3>1, <3>2, <3>3 DEF VerdictInv
    <2> QED
      BY <2>1, <2>2, <2>3
  <1> QED
    BY <1>2, <1>4, <1>6, <1>8

(* The task gets into the queue, which has no other of its chunk. *)
LEMMA EnqueueInv ==
  ASSUME CheckInv, ~Ended, NEW v \in Verifier, Enqueue(v)
  PROVE  CheckInv'
  <1> USE DEF CheckInv
  <1>1. /\ Pool!HandOver(v)
        /\ UNCHANGED <<chunkPool, numberOfChunks, isBroken, corrupt, verifiedChunks, result, verifier, download,
                       numberOfFailedChunks>>
    BY DEF Enqueue, bufferVars, checkVars
  <1>2. Tasks!PoolInv'
    BY <1>1, PoolHandlesInv DEF PoolHandles
  <1>3. StateType' /\ SuccessIsTrue'
    BY <1>1 DEF StateType, SuccessIsTrue
  <1>4. ASSUME numberOfFailedChunks = 0 PROVE CleanInv'
    <2> USE <1>4 DEF CleanInv
    <2>1. /\ caller \in [Verifier \union {Main} -> Tasks!CallerState] /\ taskQueue \in Seq(Chunk)
          /\ caller[v].pc = "counted" /\ UNCHANGED <<unadded, worker>>
      BY <1>1, PoolFacts DEF Pool!HandOver
    <2>2. caller[v].sync /\ \E e \in Chunk : caller[v].tasks = {e}
      BY <2>1 DEF OwnersInv, Asking
    <2>3. PICK c \in Chunk : caller[v].tasks = {c}
      BY <2>2
    <2>4. taskQueue' = Append(taskQueue, c)
      BY <1>1, <2>3 DEF Pool!HandOver
    <2>5. /\ caller'[v].pc = "receiving" /\ caller'[v].tasks = {c} /\ caller'[v].sync
          /\ \A x \in Verifier \ {v} : caller'[x] = caller[x]
      <3>1. caller' = [caller EXCEPT ![v] = [caller[v] EXCEPT !.pc = "receiving"]]
        BY <1>1, <2>2 DEF Pool!HandOver
      <3>2. caller'[v] = [caller[v] EXCEPT !.pc = "receiving"] /\ caller[v] \in Tasks!CallerState
        BY <2>1, <3>1
      <3> QED
        BY <2>1, <2>2, <2>3, <3>1, <3>2 DEF Tasks!CallerState
    <2>6. c \notin Sent
      BY <2>1, <2>3 DEF OwnersInv
    <2>7. /\ Elems(taskQueue') = Elems(taskQueue) \union {c}
          /\ Distinct(taskQueue) /\ c \notin Elems(taskQueue) => Distinct(taskQueue')
      BY <2>1, <2>4, AppendedElem
    <2>8. Sent' = Sent \union {c}
      BY <2>1, <2>7 DEF Sent
    <2>9. OwnersInv'
      <3>1. \A x \in Verifier : Asking(x)' <=> Asking(x)
        BY <2>1, <2>5 DEF Asking
      <3>2. \A x \in Verifier : caller'[x].tasks = caller[x].tasks /\ (Asking(x) => caller'[x].sync)
        BY <2>3, <2>5 DEF OwnersInv
      <3>3. \A x \in Verifier : Asking(x)' => /\ caller'[x].sync /\ caller'[x].tasks = verifier'[x].chunks
                                              /\ caller'[x].tasks \intersect unadded' = {}
                                              /\ \E e \in Chunk : caller'[x].tasks = {e}
        BY <1>1, <2>1, <3>1, <3>2 DEF OwnersInv
      <3>4. \A x \in Verifier : caller'[x].pc = "counted" => caller'[x].tasks \intersect Sent' = {}
        <4> SUFFICES ASSUME NEW x \in Verifier \ {v}, caller[x].pc = "counted"
                     PROVE  caller[x].tasks \intersect (Sent \union {c}) = {}
          BY <2>5, <2>8
        <4>1. caller[x].tasks \intersect Sent = {} /\ \E e \in Chunk : caller[x].tasks = {e}
          BY DEF OwnersInv, Asking
        <4>2. caller[x].tasks /= {c}
          BY <2>1, <2>3 DEF OwnersInv, Asking
        <4> QED
          BY <4>1, <4>2
      <3>5. \A e \in Sent' : \E x \in Verifier : caller'[x].pc = "receiving" /\ caller'[x].tasks = {e}
        <4>1. \A e \in Sent : \E x \in Verifier \ {v} : caller[x].pc = "receiving" /\ caller[x].tasks = {e}
          BY <2>1 DEF OwnersInv
        <4> QED
          BY <2>5, <2>8, <4>1
      <3>6. Distinct(taskQueue')
        BY <2>6, <2>7 DEF OwnersInv, Sent
      <3>7. \A w \in Worker : worker'[w].pc = "running" => worker'[w].tasks \intersect Elems(taskQueue') = {}
        BY <2>1, <2>6, <2>7 DEF OwnersInv, Sent
      <3>8. \A x, y \in Verifier : Asking(x)' /\ Asking(y)' /\ caller'[x].tasks = caller'[y].tasks => x = y
        BY <3>1, <3>2 DEF OwnersInv
      <3> QED
        BY <1>1, <2>1, <3>1, <3>3, <3>4, <3>5, <3>6, <3>7, <3>8 DEF OwnersInv
    <2>10. BuffersInv'
      BY <1>1, <2>1 DEF BuffersInv
    <2>11. VerdictInv'
      BY <1>1, <2>1 DEF VerdictInv
    <2> QED
      BY <2>9, <2>10, <2>11
  <1> QED
    BY <1>1, <1>2, <1>3, <1>4

(* As long as no download failed, what is received is recorded. *)
LEMMA JudgeInv ==
  ASSUME CheckInv, ~Ended, NEW v \in Verifier, Judge(v)
  PROVE  CheckInv'
  <1> USE DEF CheckInv
  <1>1. /\ verifier[v].pc = "received"
        /\ verifiedChunks' = verifiedChunks \union Judged(v)
        /\ verifier' = [verifier EXCEPT ![v].pc = "judged"]
        /\ UNCHANGED <<unadded, caller, worker, taskQueue, numberOfActiveTasks, stopped, failed, exited,
                       chunkPool, numberOfChunks, isBroken, corrupt, result, download, numberOfFailedChunks>>
    BY DEF Judge, poolVars, bufferVars
  <1>2. Tasks!PoolInv'
    BY <1>1, PoolFacts, PoolKept
  <1>3. /\ verifier'[v].pc = "judged" /\ verifier'[v].chunks = verifier[v].chunks
        /\ verifier'[v].buffers = verifier[v].buffers
        /\ \A x \in Verifier \ {v} : verifier'[x] = verifier[x]
    BY <1>1 DEF StateType
  <1>4. Judged(v) \subseteq Chunk
    BY DEF StateType, Judged
  <1>5. StateType'
    BY <1>1, <1>4 DEF StateType
  <1>6. SuccessIsTrue'
    BY <1>1 DEF SuccessIsTrue, Ended
  <1>7. ASSUME numberOfFailedChunks = 0 PROVE CleanInv'
    <2> USE <1>7 DEF CleanInv
    <2>1. OwnersInv'
      <3>1. \A x \in Verifier : verifier'[x].pc = "downloading" <=> verifier[x].pc = "downloading"
        BY <1>1, <1>3
      <3>2. \A x \in Verifier : verifier'[x].chunks = verifier[x].chunks
        BY <1>3
      <3> QED
        BY <1>1, <3>1, <3>2, OwnersKept DEF Asking
    <2>2. BuffersInv'
      <3>1. \A x \in Verifier : /\ verifier'[x].buffers = verifier[x].buffers
                                /\ verifier'[x].pc \in {"received", "judged"} <=> verifier[x].pc \in {"received", "judged"}
        BY <1>1, <1>3
      <3> QED
        BY <1>1, <3>1 DEF BuffersInv
    <2>3. VerdictInv'
      <3>1. Judged(v) = verifier[v].chunks /\ verifier[v].chunks \intersect corrupt = {}
        BY <1>1 DEF VerdictInv, Judged
      <3>2. \A e \in Chunk \ unadded :
              \/ e \in verifiedChunks'
              \/ \E x \in Verifier : verifier'[x].pc \in {"downloading", "received"} /\ verifier'[x].chunks = {e}
        <4> SUFFICES ASSUME NEW e \in Chunk \ unadded, e \notin verifiedChunks'
                     PROVE  \E x \in Verifier : verifier'[x].pc \in {"downloading", "received"} /\ verifier'[x].chunks = {e}
          OBVIOUS
        <4>1. PICK x \in Verifier : verifier[x].pc \in {"downloading", "received"} /\ verifier[x].chunks = {e}
          BY <1>1 DEF VerdictInv
        <4>2. x /= v
          BY <1>1, <3>1, <4>1
        <4> QED
          BY <1>3, <4>1, <4>2
      <3>3. /\ isBroken = {} /\ verifiedChunks' \intersect corrupt = {}
            /\ \A x \in Verifier : verifier'[x].pc = "received" => verifier'[x].chunks \intersect corrupt = {}
            /\ \A x \in Verifier : verifier'[x].pc = "done" => unadded = {}
        BY <1>1, <1>3, <3>1 DEF VerdictInv
      <3> QED
        BY <1>1, <3>2, <3>3 DEF VerdictInv
    <2> QED
      BY <2>1, <2>2, <2>3
  <1> QED
    BY <1>1, <1>2, <1>5, <1>6, <1>7

(* The buffer moves from the goroutine to the free list. *)
LEMMA ReturnChunkInv ==
  ASSUME CheckInv, ~Ended, NEW v \in Verifier, ReturnChunk(v)
  PROVE  CheckInv'
  <1> USE DEF CheckInv
  <1>1. PICK b \in verifier[v].buffers : PutChunk(b)
    BY DEF ReturnChunk
  <1>2. /\ verifier[v].pc = "judged" /\ verifier' = [verifier EXCEPT ![v] = IdleVerifier]
        /\ chunkPool' = Append(chunkPool, b)
        /\ UNCHANGED <<unadded, caller, worker, taskQueue, numberOfActiveTasks, stopped, failed, exited,
                       numberOfChunks, isBroken, corrupt, verifiedChunks, result, download, numberOfFailedChunks>>
    BY <1>1 DEF ReturnChunk, PutChunk, poolVars, checkVars
  <1>3. Tasks!PoolInv'
    BY <1>2, PoolFacts, PoolKept
  <1>4. b \in Nat /\ chunkPool \in Seq(Nat)
    BY <1>1 DEF StateType
  <1>5. /\ chunkPool' \in Seq(Nat) /\ Elems(chunkPool') = Elems(chunkPool) \union {b}
        /\ Distinct(chunkPool) /\ b \notin Elems(chunkPool) => Distinct(chunkPool')
    BY <1>2, <1>4, AppendedElem
  <1>6. /\ verifier'[v].pc = "idle" /\ verifier'[v].chunks = {} /\ verifier'[v].buffers = {}
        /\ \A x \in Verifier \ {v} : verifier'[x] = verifier[x]
    BY <1>2 DEF StateType, IdleVerifier
  <1>7. StateType'
    <2>1. verifier' \in [Verifier -> [pc : {"idle", "downloading", "received", "judged", "done"},
                                      chunks : SUBSET Chunk, buffers : SUBSET Nat]]
      BY <1>2 DEF StateType, IdleVerifier
    <2> QED
      BY <1>2, <1>5, <2>1 DEF StateType
  <1>8. SuccessIsTrue'
    BY <1>2 DEF SuccessIsTrue
  <1>9. ASSUME numberOfFailedChunks = 0 PROVE CleanInv'
    <2> USE <1>9 DEF CleanInv
    <2>1. OwnersInv'
      <3>1. \A x \in Verifier : verifier'[x].pc = "downloading" <=> verifier[x].pc = "downloading"
        BY <1>2, <1>6
      <3>2. \A x \in Verifier : Asking(x) => verifier'[x].chunks = verifier[x].chunks
        BY <1>2, <1>6 DEF OwnersInv
      <3> QED
        BY <1>2, <3>1, <3>2, OwnersKept DEF Asking
    <2>2. BuffersInv'
      <3>1. /\ b \in 1..numberOfChunks /\ verifier[v].buffers = {b} /\ b \notin Elems(chunkPool)
            /\ \A x \in Worker : b \notin download[x].buffers
            /\ \A x \in Verifier \ {v} : b \notin verifier[x].buffers
        BY <1>1, <1>2 DEF BuffersInv
      <3>2. \A x \in Verifier : IF verifier'[x].pc \in {"received", "judged"}
                                THEN \E e \in 1..numberOfChunks : verifier'[x].buffers = {e}
                                ELSE verifier'[x].buffers = {}
        BY <1>6 DEF BuffersInv
      <3>3. Elems(chunkPool') \subseteq 1..numberOfChunks /\ Distinct(chunkPool')
        BY <1>5, <3>1 DEF BuffersInv
      <3>4. \A e \in 1..numberOfChunks :
              \/ e \in Elems(chunkPool')
              \/ \E x \in Worker : e \in download[x].buffers
              \/ \E x \in Verifier : e \in verifier'[x].buffers
        <4> SUFFICES ASSUME NEW e \in 1..numberOfChunks, e /= b
                     PROVE  \/ e \in Elems(chunkPool')
                            \/ \E x \in Worker : e \in download[x].buffers
                            \/ \E x \in Verifier : e \in verifier'[x].buffers
          BY <1>5
        <4>1. \/ e \in Elems(chunkPool)
              \/ \E x \in Worker : e \in download[x].buffers
              \/ \E x \in Verifier \ {v} : e \in verifier[x].buffers
          BY <3>1 DEF BuffersInv
        <4> QED
          BY <1>5, <1>6, <4>1
      <3>5. /\ \A x \in Worker : download[x].buffers \intersect Elems(chunkPool') = {}
            /\ \A x \in Verifier : verifier'[x].buffers \intersect Elems(chunkPool') = {}
        BY <1>5, <1>6, <3>1 DEF BuffersInv
      <3>6. /\ \A w \in Worker, x \in Verifier : download[w].buffers \intersect verifier'[x].buffers = {}
            /\ \A x, y \in Verifier : verifier'[x].buffers \intersect verifier'[y].buffers /= {} => x = y
        BY <1>6 DEF BuffersInv
      <3> QED
        BY <1>2, <3>2, <3>3, <3>4, <3>5, <3>6 DEF BuffersInv
    <2>3. VerdictInv'
      <3>1. \A e \in Chunk \ unadded :
              \/ e \in verifiedChunks
              \/ \E x \in Verifier : verifier'[x].pc \in {"downloading", "received"} /\ verifier'[x].chunks = {e}
        BY <1>2, <1>6 DEF VerdictInv
      <3>2. /\ \A x \in Verifier : verifier'[x].pc = "received" => verifier'[x].chunks \intersect corrupt = {}
            /\ \A x \in Verifier : verifier'[x].pc = "done" => unadded = {}
        BY <1>6 DEF VerdictInv
      <3> QED
        BY <1>2, <3>1, <3>2 DEF VerdictInv
    <2> QED
      BY <2>1, <2>2, <2>3
  <1> QED
    BY <1>2, <1>3, <1>7, <1>8, <1>9

(* A goroutine ends when the list is empty. *)
LEMMA VerifierDoneInv ==
  ASSUME CheckInv, ~Ended, NEW v \in Verifier, VerifierDone(v)
  PROVE  CheckInv'
  <1> USE DEF CheckInv
  <1>1. /\ verifier[v].pc = "idle" /\ unadded = {} /\ verifier' = [verifier EXCEPT ![v].pc = "done"]
        /\ UNCHANGED <<unadded, caller, worker, taskQueue, numberOfActiveTasks, stopped, failed, exited,
                       chunkPool, numberOfChunks, isBroken, corrupt, verifiedChunks, result, download,
                       numberOfFailedChunks>>
    BY DEF VerifierDone, poolVars, bufferVars, checkVars
  <1>2. Tasks!PoolInv'
    BY <1>1, PoolFacts, PoolKept
  <1>3. /\ verifier'[v].pc = "done" /\ verifier'[v].chunks = verifier[v].chunks
        /\ verifier'[v].buffers = verifier[v].buffers
        /\ \A x \in Verifier \ {v} : verifier'[x] = verifier[x]
    BY <1>1 DEF StateType
  <1>4. StateType' /\ SuccessIsTrue'
    BY <1>1 DEF StateType, SuccessIsTrue
  <1>5. ASSUME numberOfFailedChunks = 0 PROVE CleanInv'
    <2> USE <1>5 DEF CleanInv
    <2>1. \A x \in Verifier : verifier'[x].pc = "downloading" <=> verifier[x].pc = "downloading"
      BY <1>1, <1>3
    <2>2. \A x \in Verifier : verifier'[x].chunks = verifier[x].chunks /\ verifier'[x].buffers = verifier[x].buffers
      BY <1>3
    <2>3. OwnersInv'
      BY <1>1, <2>1, <2>2, OwnersKept DEF Asking
    <2>4. BuffersInv'
      <3>1. \A x \in Verifier : verifier'[x].pc \in {"received", "judged"} <=> verifier[x].pc \in {"received", "judged"}
        BY <1>1, <1>3
      <3> QED
        BY <1>1, <2>2, <3>1 DEF BuffersInv
    <2>5. VerdictInv'
      <3>1. \A x \in Verifier : verifier'[x].pc = "received" <=> verifier[x].pc = "received"
        BY <1>1, <1>3
      <3>2. \A e \in Chunk \ unadded :
              \/ e \in verifiedChunks
              \/ \E x \in Verifier : verifier'[x].pc \in {"downloading", "received"} /\ verifier'[x].chunks = {e}
        BY <2>1, <2>2, <3>1 DEF VerdictInv
      <3> QED
        BY <1>1, <2>2, <3>1, <3>2 DEF VerdictInv
    <2> QED
      BY <2>3, <2>4, <2>5
  <1> QED
    BY <1>1, <1>2, <1>4, <1>5

-----------------------------------------------------------------------------
(* The steps of CheckSnapshots. *)

(* Its wait is not one of the goroutines'. *)
LEMMA WaitForAllInv ==
  ASSUME CheckInv, ~Ended, WaitForAll
  PROVE  CheckInv'
  <1> USE DEF CheckInv
  <1>1. /\ Pool!Wait(Main, FALSE) \/ Pool!CheckIdle(Main)
        /\ UNCHANGED <<chunkPool, numberOfChunks, isBroken, corrupt, verifiedChunks, result, verifier, download,
                       numberOfFailedChunks>>
    BY DEF WaitForAll, bufferVars, checkVars
  <1>2. Tasks!PoolInv'
    BY <1>1, PoolHandlesInv DEF PoolHandles
  <1>3. StateType' /\ SuccessIsTrue'
    BY <1>1 DEF StateType, SuccessIsTrue
  <1>4. ASSUME numberOfFailedChunks = 0 PROVE CleanInv'
    <2> USE <1>4 DEF CleanInv
    <2>1. caller \in [Verifier \union {Main} -> Tasks!CallerState] /\ Main \notin Verifier
      BY PoolFacts, VerifyAssumption
    <2>2. UNCHANGED <<unadded, worker, taskQueue>>
      BY <1>1 DEF Pool!Wait, Pool!CheckIdle
    <2>3. \A v \in Verifier : caller'[v] = caller[v]
      BY <1>1, <2>1 DEF Pool!Wait, Pool!CheckIdle
    <2>4. OwnersInv'
      BY <1>1, <2>2, <2>3, OwnersKept DEF Asking
    <2>5. BuffersInv'
      BY <1>1, <2>2 DEF BuffersInv
    <2>6. VerdictInv'
      BY <1>1, <2>2 DEF VerdictInv
    <2> QED
      BY <2>4, <2>5, <2>6
  <1> QED
    BY <1>1, <1>2, <1>3, <1>4

(* When all goroutines are done the list is empty and nobody has a chunk:  *)
(* all of them are recorded.                                               *)
LEMMA ReportInv ==
  ASSUME CheckInv, ~Ended, Report
  PROVE  CheckInv'
  <1> USE DEF CheckInv
  <1>1. /\ AllDone
        /\ result' = (IF numberOfFailedChunks > 0 THEN "corrupted" ELSE "verified")
        /\ UNCHANGED <<unadded, caller, worker, taskQueue, numberOfActiveTasks, stopped, failed, exited,
                       chunkPool, numberOfChunks, isBroken, corrupt, verifiedChunks, verifier, download,
                       numberOfFailedChunks>>
    BY DEF Report, poolVars, bufferVars
  <1>2. Tasks!PoolInv'
    BY <1>1, PoolFacts, PoolKept
  <1>3. StateType'
    BY <1>1 DEF StateType
  <1>4. ASSUME numberOfFailedChunks = 0 PROVE CleanInv'
    <2> USE <1>4 DEF CleanInv
    <2>1. OwnersInv'
      BY <1>1, OwnersKept DEF Asking
    <2>2. BuffersInv'
      BY <1>1 DEF BuffersInv
    <2>3. VerdictInv'
      BY <1>1 DEF VerdictInv
    <2> QED
      BY <2>1, <2>2, <2>3
  <1>5. SuccessIsTrue'
    <2> SUFFICES ASSUME result' = "verified"
                 PROVE  corrupt = {} /\ verifiedChunks = Chunk
      BY <1>1 DEF SuccessIsTrue
    <2>1. numberOfFailedChunks = 0
      BY <1>1 DEF StateType
    <2>2. VerdictInv
      BY <2>1 DEF CleanInv
    <2>3. \E v \in Verifier : verifier[v].pc = "done"
      BY <1>1, VerifyAssumption DEF AllDone
    <2>4. unadded = {}
      BY <2>2, <2>3 DEF VerdictInv
    <2>5. \A c \in Chunk : c \in verifiedChunks
      BY <1>1, <2>2, <2>4 DEF VerdictInv, AllDone
    <2> QED
      BY <2>2, <2>5 DEF VerdictInv, StateType
  <1> QED
    BY <1>1, <1>2, <1>3, <1>4, <1>5

(* Nothing happens but the end of the process. *)
LEMMA InterruptInv ==
  ASSUME CheckInv, exited' \in BOOLEAN,
         UNCHANGED <<unadded, caller, worker, taskQueue, numberOfActiveTasks, stopped, failed,
                     chunkPool, numberOfChunks, isBroken, corrupt, verifiedChunks, result, verifier, download,
                     numberOfFailedChunks>>
  PROVE  CheckInv'
  <1> USE DEF CheckInv
  <1>1. Tasks!PoolInv'
    BY PoolKept
  <1>2. StateType' /\ SuccessIsTrue'
    BY DEF StateType, SuccessIsTrue
  <1>3. ASSUME numberOfFailedChunks = 0 PROVE CleanInv'
    <2> USE <1>3 DEF CleanInv
    <2>1. OwnersInv'
      BY OwnersKept DEF Asking
    <2>2. BuffersInv'
      BY DEF BuffersInv
    <2>3. VerdictInv'
      BY DEF VerdictInv
    <2> QED
      BY <2>1, <2>2, <2>3
  <1> QED
    BY <1>1, <1>2, <1>3

-----------------------------------------------------------------------------
LEMMA InitCheck == Init => CheckInv
  <1> SUFFICES ASSUME Init PROVE CheckInv
    OBVIOUS
  <1> USE DEF Init
  <1>1. Tasks!Init
    BY DEF Pool!Init, Tasks!Init, Pool!ReadyCaller, Tasks!ReadyCaller, Pool!IdleWorker, Tasks!IdleWorker
  <1>2. Tasks!PoolInv
    BY <1>1, VerifyAssumption, Tasks!InitPoolInv DEF Tasks!IsFiniteSet, IsFiniteSet
  <1>3. StateType
    BY DEF StateType, IdleVerifier, NoDownload
  <1>4. /\ \A v \in Verifier : caller[v].pc = "ready" /\ verifier[v].pc = "idle" /\ verifier[v].buffers = {}
        /\ \A w \in Worker : worker[w].pc = "idle" /\ download[w].pc = "none" /\ download[w].buffers = {}
        /\ taskQueue = <<>> /\ unadded = Chunk
    BY DEF Pool!Init, Pool!ReadyCaller, Pool!IdleWorker, IdleVerifier, NoDownload
  <1>5. Elems(<<>>) = {} /\ Distinct(<<>>)
    BY EmptySeq DEF Elems, Distinct
  <1>6. Sent = {}
    BY <1>4, <1>5 DEF Sent
  <1>7. OwnersInv
    BY <1>4, <1>5, <1>6 DEF OwnersInv, Asking
  <1>8. BuffersInv
    BY <1>4, <1>5 DEF BuffersInv
  <1>9. VerdictInv
    BY <1>4 DEF VerdictInv
  <1> QED
    BY <1>2, <1>3, <1>7, <1>8, <1>9 DEF CheckInv, CleanInv, SuccessIsTrue

LEMMA NextCheck == CheckInv /\ [Next]_vars => CheckInv'
  <1> SUFFICES ASSUME CheckInv, [Next]_vars PROVE CheckInv'
    OBVIOUS
  <1>1. ASSUME ~Ended, NEW w \in Worker, WorkerRuns(w) PROVE CheckInv'
    BY <1>1, StartDownloadInv, ReadFileInv, DownloadDoneInv, DownloadFailedInv, DownloadReturnsInv, RunEndsInv
       DEF WorkerRuns
  <1>2. ASSUME ~Ended, NEW v \in Verifier, VerifierRuns(v) PROVE CheckInv'
    BY <1>2, VerifyNextInv, EnqueueInv, JudgeInv, ReturnChunkInv, VerifierDoneInv DEF VerifierRuns
  <1>3. CASE ~Ended /\ (WaitForAll \/ Report)
    BY <1>3, WaitForAllInv, ReportInv
  <1>4. CASE Interrupt
    <2>1. exited' \in BOOLEAN
      BY <1>4 DEF Interrupt
    <2>2. UNCHANGED <<unadded, caller, worker, taskQueue, numberOfActiveTasks, stopped, failed,
                      chunkPool, numberOfChunks, isBroken, corrupt, verifiedChunks, result, verifier, download,
                      numberOfFailedChunks>>
      BY <1>4 DEF Interrupt, bufferVars, checkVars
    <2> QED
      BY <2>1, <2>2, InterruptInv
  <1>5. CASE UNCHANGED vars
    <2>1. UNCHANGED <<unadded, caller, worker, taskQueue, numberOfActiveTasks, stopped, failed, exited,
                      chunkPool, numberOfChunks, isBroken, corrupt, verifiedChunks, result, verifier, download,
                      numberOfFailedChunks>>
      BY <1>5 DEF vars, poolVars, bufferVars, checkVars
    <2>2. exited' \in BOOLEAN
      BY <2>1, PoolFacts DEF CheckInv
    <2> QED
      BY <2>1, <2>2, InterruptInv
  <1> QED
    BY <1>1, <1>2, <1>3, <1>4, <1>5 DEF Next

(* CheckInv is an invariant of check -chunks, for all constants. *)
THEOREM CheckAlwaysInv == Spec => []CheckInv
  BY InitCheck, NextCheck, PTL DEF Spec

(* As long as no download has failed, a buffer of Config's chunk pool is   *)
(* in the free list once, with one worker or with one goroutine, however   *)
(* many of them there are: no two of them use one buffer.                  *)
THEOREM OneAlwaysHolds == Spec => []OneHolder
  <1>1. CheckInv => OneHolder
    <2> SUFFICES ASSUME CheckInv, numberOfFailedChunks = 0, NEW b \in 1..numberOfChunks
                 PROVE  Cardinality(Holders(b)) = 1
      BY DEF OneHolder
    <2>1. BuffersInv
      BY DEF CheckInv, CleanInv
    <2>2. DOMAIN chunkPool = 1..Len(chunkPool)
      BY LenProperties DEF CheckInv, StateType
    <2>3. \E h : Holders(b) = {h}
      <3>1. CASE b \in Elems(chunkPool)
        <4>1. PICK n \in 1..Len(chunkPool) : chunkPool[n] = b
          BY <3>1 DEF Elems
        <4>2. {m \in DOMAIN chunkPool : chunkPool[m] = b} = {n}
          BY <2>1, <2>2, <4>1 DEF BuffersInv, Distinct
        <4>3. {w \in Worker : b \in download[w].buffers} = {} /\ {v \in Verifier : b \in verifier[v].buffers} = {}
          BY <2>1, <3>1 DEF BuffersInv
        <4> QED
          BY <4>2, <4>3 DEF Holders
      <3>2. CASE \E w \in Worker : b \in download[w].buffers
        <4>1. PICK w \in Worker : b \in download[w].buffers
          BY <3>2
        <4>2. {m \in DOMAIN chunkPool : chunkPool[m] = b} = {}
          BY <2>1, <2>2, <4>1 DEF BuffersInv, Elems
        <4>3. {x \in Worker : b \in download[x].buffers} = {w}
          BY <2>1, <4>1 DEF BuffersInv
        <4>4. {v \in Verifier : b \in verifier[v].buffers} = {}
          BY <2>1, <4>1 DEF BuffersInv
        <4> QED
          BY <4>2, <4>3, <4>4 DEF Holders
      <3>3. CASE \E v \in Verifier : b \in verifier[v].buffers
        <4>1. PICK v \in Verifier : b \in verifier[v].buffers
          BY <3>3
        <4>2. {m \in DOMAIN chunkPool : chunkPool[m] = b} = {}
          BY <2>1, <2>2, <4>1 DEF BuffersInv, Elems
        <4>3. {w \in Worker : b \in download[w].buffers} = {}
          BY <2>1, <4>1 DEF BuffersInv
        <4>4. {x \in Verifier : b \in verifier[x].buffers} = {v}
          BY <2>1, <4>1 DEF BuffersInv
        <4> QED
          BY <4>2, <4>3, <4>4 DEF Holders
      <3> QED
        BY <2>1, <3>1, <3>2, <3>3 DEF BuffersInv
    <2> QED
      BY <2>3, FS_Singleton
  <1> QED
    BY <1>1, CheckAlwaysInv, PTL

(* A check -chunks that reports success has recorded every chunk, and none *)
(* of them is damaged, however many goroutines and threads it has.         *)
THEOREM SuccessAlwaysTrue == Spec => []SuccessIsTrue
  <1>1. CheckInv => SuccessIsTrue
    BY DEF CheckInv
  <1> QED
    BY <1>1, CheckAlwaysInv, PTL

=============================================================================
