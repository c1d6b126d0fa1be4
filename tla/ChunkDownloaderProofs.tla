------------------------ MODULE ChunkDownloaderProofs ------------------------
(***************************************************************************)
(* Proofs about ChunkDownloader, for any number of threads and any list of *)
(* files.  What the pool does is taken from ChunkOperatorProofs.           *)
(***************************************************************************)
EXTENDS ChunkDownloader, FiniteSetTheorems, SequenceTheorems, TLAPS

Tasks == INSTANCE ChunkOperatorProofs WITH Caller <- {Main}, Task <- Index

-----------------------------------------------------------------------------
(* The inductive invariant. *)

StateType ==
  /\ pc \in {"files", "chunks", "receiving", "stopping", "returned"}
  /\ files \in Layouts /\ file \in 1..(Len(files) + 1)
  /\ index \in Nat /\ lastChunkIndex \in Nat
  /\ toFetch \subseteq unadded /\ completedTasks \subseteq Index

(* The main goroutine adds tasks without waiting for them. *)
CallerInv ==
  /\ caller[Main].pc = "counted" => ~caller[Main].sync
  /\ caller[Main].pc /= "counted" => caller[Main].tasks = {}

PoolInvariant == Tasks!PoolInv /\ Tasks!PlacesInv /\ CallerInv

(* The restore goes through the chunks in their order, and what is         *)
(* reclaimed is behind it.                                                 *)
PositionInv ==
  /\ pc \in {"chunks", "receiving"} => file \in DOMAIN files /\ index \in ChunksOfFile(file) /\ lastChunkIndex <= index
  /\ pc = "receiving" => lastChunkIndex = index /\ (index \in unadded => index \in toFetch)
  /\ pc = "files" => Ready /\ (file \in DOMAIN files => lastChunkIndex <= StartChunk(file))
  /\ pc \in {"stopping", "returned"} => toFetch = {}

Active == InFlight \union completedTasks

(* As long as no download failed for good, a chunk that was requested and  *)
(* not reclaimed is in the pool or in memory, and not in both.  One chunk  *)
(* may be requested above the limit: the one that is awaited, which is in  *)
(* memory when the restore goes on and reclaimed before it waits again.    *)
ActiveInv ==
  /\ completedTasks \intersect InFlight = {} /\ completedTasks \intersect unadded = {}
  /\ numberOfActiveChunks = Cardinality(Active)
  /\ \A i \in Index \ unadded : i \in Active \/ i < lastChunkIndex
  /\ numberOfActiveChunks + Cardinality(toFetch) <= Cardinality(Worker) + 1
  /\ numberOfActiveChunks + Cardinality(toFetch) = Cardinality(Worker) + 1 =>
       /\ lastChunkIndex \notin unadded \ toFetch
       /\ pc /= "receiving" => lastChunkIndex \in completedTasks

RestoreInv ==
  /\ StateType /\ PoolInvariant /\ PositionInv
  /\ failed = {} => ActiveInv

-----------------------------------------------------------------------------
(* Sets of chunks. *)

(* There are finitely many chunks. *)
LEMMA ChunkSets ==
  ASSUME NEW S \in SUBSET Index
  PROVE  IsFiniteSet(S) /\ Cardinality(S) \in Nat
  <1>1. IsFiniteSet(Index)
    BY DownloaderAssumption, FS_Interval DEF Index
  <1> QED
    BY <1>1, FS_Subset, FS_CardinalityType

(* As many of the chunks are taken as the limit allows, none if it is not  *)
(* positive: the chunks before and including one are a strictly growing    *)
(* set, so that counting them numbers the chunks taken.                    *)
LEMMA FirstOfBound ==
  ASSUME NEW S \in SUBSET Index, NEW n \in Int
  PROVE  /\ FirstOf(n, S) \subseteq S
         /\ n <= 0 => FirstOf(n, S) = {}
         /\ n > 0 => Cardinality(FirstOf(n, S)) <= n
  <1> DEFINE F == FirstOf(n, S)
             To(i) == {j \in S : j <= i}
             rank == [i \in F |-> Cardinality(To(i))]
  <1>1. S \subseteq Nat /\ F \in SUBSET S
    BY DownloaderAssumption DEF FirstOf, Index
  <1>2. \A i \in F : Cardinality(To(i)) <= n
    BY DEF FirstOf
  <1>3. \A i \in S : i \in To(i)
    BY <1>1
  <1>4. \A i \in S : To(i) \in SUBSET Index
    OBVIOUS
  <1> HIDE DEF F
  <1>5. ASSUME NEW i \in F, NEW k \in F, i < k
        PROVE  To(i) \in SUBSET To(k) /\ k \notin To(i)
    <2>1. i \in Nat /\ k \in Nat
      BY <1>1
    <2>2. \A j \in S : j \in Nat
      BY <1>1
    <2>3. \A j \in S : j <= i => j <= k
      BY <1>5, <2>1, <2>2
    <2>4. ~(k <= i)
      BY <1>5, <2>1
    <2> QED
      BY <2>3, <2>4
  <1> HIDE DEF To
  <1>6. \A i \in S : IsFiniteSet(To(i)) /\ Cardinality(To(i)) \in Nat
    BY <1>4, ChunkSets
  <1>7. \A i \in F : Cardinality(To(i)) \in Nat /\ Cardinality(To(i)) >= 1
    BY <1>1, <1>3, <1>6, FS_EmptySet
  <1>8. rank \in [F -> 1..n]
    BY <1>2, <1>7
  <1>9. ASSUME NEW i \in F, NEW k \in F, i < k
        PROVE  Cardinality(To(i)) /= Cardinality(To(k))
    BY <1>1, <1>3, <1>5, <1>6, <1>9, FS_Subset
  <1>10. \A i, k \in F : i < k \/ k < i \/ i = k
    BY <1>1
  <1>11. \A i, k \in F : rank[i] = rank[k] => i = k
    BY <1>9, <1>10
  <1>12. rank \in Injection(F, 1..n)
    BY <1>8, <1>11 DEF Injection, IsInjective
  <1>13. IsFiniteSet(1..n) /\ Cardinality(1..n) = IF 1 > n THEN 0 ELSE n
    BY FS_Interval
  <1>14. IsFiniteSet(F) /\ Cardinality(F) <= Cardinality(1..n)
    BY <1>12, <1>13, FS_Injection
  <1>15. n <= 0 => F = {}
    BY <1>2, <1>7
  <1> QED
    BY <1>1, <1>13, <1>14, <1>15 DEF F

-----------------------------------------------------------------------------
(* What the pool does, in terms of the chunks that are in it. *)

FlightIsSet == InFlight \in SUBSET Index /\ \A u \in Index : u \in InFlight <=> Tasks!InFlight(u)

(* It is the set of the tasks that ChunkOperatorProofs speaks of. *)
LEMMA FlightSet == PoolInvariant => FlightIsSet
  <1> SUFFICES ASSUME PoolInvariant PROVE FlightIsSet
    OBVIOUS
  <1> USE DEF PoolInvariant
  <1>1. /\ caller[Main].pc = "counted" => \E t \in Index : caller[Main].tasks = {t}
        /\ caller[Main].pc /= "counted" => caller[Main].tasks = {}
    BY DEF Tasks!PoolInv, Tasks!FlightInv, CallerInv
  <1>2. \A w \in Worker : worker[w].pc = "running" => \E t \in Index : worker[w].tasks = {t}
    BY DEF Tasks!PoolInv, Tasks!FlightInv
  <1>3. taskQueue \in Seq(Index) /\ DOMAIN taskQueue = 1..Len(taskQueue)
    BY DEF Tasks!PoolInv, Tasks!OperatorInv, Tasks!TypeOK
  <1>4. \A n \in DOMAIN taskQueue : taskQueue[n] \in Index
    BY <1>3
  <1>5. ASSUME NEW u
        PROVE  u \in InFlight <=> \/ u \in caller[Main].tasks
                                  \/ \E n \in DOMAIN taskQueue : u = taskQueue[n]
                                  \/ \E w \in Worker : worker[w].pc = "running" /\ u \in worker[w].tasks
    <2> DEFINE queued == {taskQueue[n] : n \in DOMAIN taskQueue}
               running == UNION {worker[w].tasks : w \in {v \in Worker : worker[v].pc = "running"}}
    <2>1. u \in queued <=> \E n \in DOMAIN taskQueue : u = taskQueue[n]
      OBVIOUS
    <2>2. u \in running <=> \E w \in Worker : worker[w].pc = "running" /\ u \in worker[w].tasks
      OBVIOUS
    <2>3. InFlight = caller[Main].tasks \union queued \union running
      BY DEF InFlight
    <2> HIDE DEF queued, running
    <2> QED
      BY <2>1, <2>2, <2>3
  <1>6. InFlight \in SUBSET Index
    BY <1>5, <1>1, <1>2, <1>4
  <1>7. ASSUME NEW u \in Index
        PROVE  u \in InFlight <=> Tasks!InFlight(u)
    <2>1. u \in caller[Main].tasks <=> caller[Main].pc = "counted" /\ caller[Main].tasks = {u}
      BY <1>1
    <2>2. (\E w \in Worker : worker[w].pc = "running" /\ u \in worker[w].tasks)
            <=> \E w \in Worker : worker[w].pc = "running" /\ worker[w].tasks = {u}
      BY <1>2
    <2> QED
      BY <1>5, <1>3, <2>1, <2>2 DEF Tasks!InFlight
  <1> QED
    BY <1>6, <1>7 DEF FlightIsSet

(* Steps of the pool that add no chunk and complete none. *)
PoolRuns ==
  \/ Pool!HandOver(Main) \/ Pool!CheckIdle(Main) \/ \E w \in Worker : Pool!SendStop(Main, w)
  \/ \E w \in Worker : Pool!TakeTask(w) \/ Pool!Panic(w) \/ Pool!Finish(w) \/ Pool!Exit(w)

(* They lose no chunk either, unless its download fails. *)
LEMMA HandledFlight ==
  ASSUME PoolInvariant, PoolRuns \/ Pool!Wait(Main, TRUE)
  PROVE  /\ PoolInvariant' /\ unadded' = unadded /\ failed \subseteq failed'
         /\ failed' = {} => InFlight' = InFlight
         /\ PoolRuns /\ caller[Main].pc = "ready" => caller'[Main].pc = "ready"
  <1> USE DEF PoolInvariant
  <1>1. Pool!HandOver(Main) => Tasks!HandOver(Main)
    BY DEF Pool!HandOver, Tasks!HandOver, Pool!ReadyCaller, Tasks!ReadyCaller, Pool!Cardinality, Tasks!Cardinality
  <1>2. Pool!Wait(Main, TRUE) => Tasks!Wait(Main, TRUE)
    BY DEF Pool!Wait, Tasks!Wait
  <1>3. Pool!CheckIdle(Main) => Tasks!CheckIdle(Main)
    BY DEF Pool!CheckIdle, Tasks!CheckIdle, Pool!ReadyCaller, Tasks!ReadyCaller
  <1>4. \A w \in Worker : Pool!TakeTask(w) => Tasks!TakeTask(w)
    BY DEF Pool!TakeTask, Tasks!TakeTask
  <1>5. \A w \in Worker : Pool!Panic(w) => Tasks!Panic(w)
    BY DEF Pool!Panic, Tasks!Panic
  <1>6. \A w \in Worker : Pool!Finish(w) => Tasks!Finish(w)
    BY DEF Pool!Finish, Tasks!Finish, Pool!Broadcast, Tasks!Broadcast, Pool!AfterRun, Tasks!AfterRun,
           Pool!IdleWorker, Tasks!IdleWorker
  <1>7. \A w \in Worker : Pool!Exit(w) => Tasks!Exit(w)
    BY DEF Pool!Exit, Tasks!Exit
  <1>8. \A w \in Worker : Pool!SendStop(Main, w) => Tasks!SendStop(Main, w)
    BY DEF Pool!SendStop, Tasks!SendStop, Pool!Cardinality, Tasks!Cardinality
  <1>9. Tasks!Handles
    BY <1>1, <1>2, <1>3, <1>4, <1>5, <1>6, <1>7, <1>8 DEF PoolRuns, Tasks!Handles
  <1>10. /\ Tasks!PoolInv' /\ unadded' = unadded /\ failed \subseteq failed'
         /\ \A u \in Index : Tasks!InFlight(u) => Tasks!InFlight(u)' \/ u \in failed'
         /\ \A u \in Index : Tasks!InFlight(u)' => Tasks!InFlight(u)
    BY <1>9, DownloaderAssumption, Tasks!HandlesFlight DEF Tasks!IsFiniteSet, IsFiniteSet
  <1>11. Tasks!PlacesInv'
    BY <1>9, DownloaderAssumption, Tasks!HandlesPlaces DEF Tasks!IsFiniteSet, IsFiniteSet
  <1>12. caller \in [{Main} -> Tasks!CallerState] /\ caller' \in [{Main} -> Tasks!CallerState]
    BY <1>10 DEF Tasks!PoolInv, Tasks!OperatorInv, Tasks!TypeOK
  <1>13. \/ caller'[Main] = caller[Main]
         \/ caller[Main].pc \in {"counted", "waiting"} /\ caller'[Main] = Pool!ReadyCaller
         \/ /\ caller[Main].pc /= "counted" /\ (caller[Main].pc = "ready" => ~PoolRuns)
            /\ caller'[Main].pc /= "counted" /\ caller'[Main].tasks = caller[Main].tasks
    <2>1. CASE Pool!HandOver(Main)
      BY <1>12, <2>1 DEF Pool!HandOver, CallerInv
    <2>2. CASE Pool!CheckIdle(Main)
      <3>1. caller[Main].pc = "waiting"
        BY <2>2 DEF Pool!CheckIdle
      <3>2. \/ caller' = [caller EXCEPT ![Main].pc = "parked"] \/ caller' = [caller EXCEPT ![Main].pc = "sending"]
            \/ caller' = [caller EXCEPT ![Main] = Pool!ReadyCaller]
        BY <2>2 DEF Pool!CheckIdle
      <3> QED
        BY <1>12, <3>1, <3>2 DEF Tasks!CallerState
    <2>3. ASSUME NEW w \in Worker, Pool!SendStop(Main, w)
          PROVE  /\ caller[Main].pc = "sending" /\ caller'[Main].pc /= "counted"
                 /\ caller'[Main].tasks = caller[Main].tasks
      BY <1>12, <2>3 DEF Pool!SendStop, Tasks!CallerState
    <2>4. ASSUME NEW w \in Worker, Pool!Finish(w)
          PROVE  \/ caller'[Main] = caller[Main]
                 \/ /\ caller[Main].pc = "parked" /\ caller'[Main].pc = "waiting"
                    /\ caller'[Main].tasks = caller[Main].tasks
      BY <1>12, <2>4 DEF Pool!Finish, Pool!Broadcast, Tasks!CallerState
    <2>5. ASSUME NEW w \in Worker, Pool!TakeTask(w) \/ Pool!Panic(w) \/ Pool!Exit(w)
          PROVE  caller' = caller
      BY <2>5 DEF Pool!TakeTask, Pool!Panic, Pool!Exit
    <2>6. Pool!Wait(Main, TRUE) => /\ caller[Main].pc = "ready" /\ caller'[Main].pc = "waiting"
                                   /\ caller'[Main].tasks = caller[Main].tasks
      BY <1>12 DEF Pool!Wait, Tasks!CallerState
    <2> QED
      BY <2>1, <2>2, <2>3, <2>4, <2>5, <2>6 DEF PoolRuns
  <1>14. Pool!ReadyCaller.pc = "ready" /\ Pool!ReadyCaller.tasks = {}
    BY DEF Pool!ReadyCaller
  <1>15. CallerInv'
    BY <1>13, <1>14 DEF CallerInv
  <1>16. PoolInvariant'
    BY <1>10, <1>11, <1>15
  <1>17. failed' = {} => InFlight' = InFlight
    <2>1. FlightIsSet /\ FlightIsSet'
      BY <1>16, FlightSet, PTL
    <2> QED
      BY <1>10, <2>1 DEF FlightIsSet
  <1> QED
    BY <1>10, <1>13, <1>16, <1>17

(* DownloadAsync brings the chunk into the pool, *)
LEMMA AddedFlight ==
  ASSUME PoolInvariant, NEW i \in Index, Pool!AddTask(Main, i, FALSE)
  PROVE  /\ PoolInvariant' /\ unadded' = unadded \ {i} /\ failed' = failed
         /\ i \in unadded \ InFlight /\ InFlight' = InFlight \union {i}
  <1> USE DEF PoolInvariant
  <1>1. Tasks!AddTask(Main, i, FALSE)
    BY DEF Pool!AddTask, Tasks!AddTask, Pool!Stopping, Tasks!Stopping
  <1>2. /\ Tasks!PoolInv' /\ Tasks!InFlight(i)'
        /\ \A u \in Index : Tasks!InFlight(u) <=> Tasks!InFlight(u)' /\ u /= i
    BY <1>1, DownloaderAssumption, Tasks!AddTaskFlight DEF Tasks!IsFiniteSet, IsFiniteSet
  <1>3. Tasks!PlacesInv'
    BY <1>1, DownloaderAssumption, Tasks!AddTaskPlaces DEF Tasks!IsFiniteSet, IsFiniteSet
  <1>4. caller \in [{Main} -> Tasks!CallerState]
    BY DEF Tasks!PoolInv, Tasks!OperatorInv, Tasks!TypeOK
  <1>5. CallerInv'
    BY <1>4 DEF Pool!AddTask, CallerInv, Tasks!CallerState
  <1>6. PoolInvariant'
    BY <1>2, <1>3, <1>5
  <1>7. FlightIsSet /\ FlightIsSet'
    BY <1>6, FlightSet, PTL
  <1>8. unadded' = unadded \ {i} /\ failed' = failed /\ i \in unadded
    BY DEF Pool!AddTask
  <1> QED
    BY <1>2, <1>6, <1>7, <1>8 DEF FlightIsSet

(* and the main goroutine takes it out of the pool when it receives it. *)
LEMMA CompletedFlight ==
  ASSUME PoolInvariant, NEW w \in Worker, Pool!Complete(w), caller[Main].pc = "ready"
  PROVE  /\ PoolInvariant' /\ unadded' = unadded /\ failed' = failed /\ caller'[Main].pc = "ready"
         /\ \E u \in InFlight : worker[w].tasks = {u} /\ InFlight' = InFlight \ {u}
  <1> USE DEF PoolInvariant
  <1>1. Tasks!Complete(w)
    BY DEF Pool!Complete, Tasks!Complete, Pool!ReadyCaller, Tasks!ReadyCaller
  <1>2. /\ Tasks!PoolInv' /\ UNCHANGED <<unadded, failed>>
        /\ \A u \in Index : Tasks!InFlight(u) => Tasks!InFlight(u)' \/ worker[w].tasks = {u}
        /\ \A u \in Index : Tasks!InFlight(u)' => Tasks!InFlight(u)
        /\ \E u \in Index : worker[w].tasks = {u} /\ Tasks!InFlight(u)
    BY <1>1, DownloaderAssumption, Tasks!CompleteFlight DEF Tasks!IsFiniteSet, IsFiniteSet
  <1>3. Tasks!PlacesInv' /\ \A u \in Index : worker[w].tasks = {u} => ~Tasks!InFlight(u)'
    BY <1>1, DownloaderAssumption, Tasks!CompletePlaces DEF Tasks!IsFiniteSet, IsFiniteSet
  <1>4. caller'[Main] = caller[Main]
    BY DEF Pool!Complete
  <1>5. CallerInv'
    BY <1>4 DEF CallerInv
  <1>6. PoolInvariant'
    BY <1>2, <1>3, <1>5
  <1>7. FlightIsSet /\ FlightIsSet'
    BY <1>6, FlightSet, PTL
  <1>8. PICK u \in Index : worker[w].tasks = {u} /\ Tasks!InFlight(u)
    BY <1>2
  <1>9. u \in InFlight /\ InFlight' = InFlight \ {u}
    BY <1>2, <1>3, <1>7, <1>8 DEF FlightIsSet
  <1> QED
    BY <1>2, <1>4, <1>6, <1>8, <1>9

(* Steps of the main goroutine outside the pool, its end included. *)
LEMMA PoolUntouched ==
  ASSUME PoolInvariant, exited' \in BOOLEAN,
         UNCHANGED <<unadded, caller, worker, taskQueue, numberOfActiveTasks, stopped, failed>>
  PROVE  PoolInvariant' /\ InFlight' = InFlight
  <1> USE DEF PoolInvariant
  <1>1. Tasks!PoolInv'
    BY DownloaderAssumption, Tasks!ExitedFlight DEF Tasks!IsFiniteSet, IsFiniteSet
  <1>2. Tasks!PlacesInv' /\ CallerInv'
    BY DEF Tasks!PlacesInv, CallerInv
  <1>3. InFlight' = InFlight
    BY DEF InFlight
  <1> QED
    BY <1>1, <1>2, <1>3

-----------------------------------------------------------------------------
(* The main goroutine. *)

(* AddFiles numbers the chunks in the order of the files. *)
LEMMA FileOrder ==
  ASSUME StateType, file \in DOMAIN files
  PROVE  /\ StartChunk(file) \in Index /\ EndChunk(file) \in Index /\ StartChunk(file) <= EndChunk(file)
         /\ ChunksOfFile(file) \subseteq Index
         /\ file + 1 \in DOMAIN files => EndChunk(file) <= StartChunk(file + 1)
         /\ file \in Nat /\ file + 1 \in 1..(Len(files) + 1)
  <1>1. files \in Seq(FileChunks) /\ AddFiles(files)
    BY DownloaderAssumption DEF StateType
  <1>2. Len(files) \in Nat /\ DOMAIN files = 1..Len(files)
    BY <1>1
  <1>3. file \in Nat /\ file >= 1 /\ file + 1 \in 1..(Len(files) + 1)
    BY <1>2
  <1>4. \A f \in DOMAIN files : files[f] \in FileChunks
    BY <1>1
  <1>5. StartChunk(file) \in Index /\ EndChunk(file) \in Index /\ StartChunk(file) <= EndChunk(file)
    BY <1>1, <1>4 DEF AddFiles, FileChunks, StartChunk, EndChunk
  <1>6. ASSUME file + 1 \in DOMAIN files
        PROVE  EndChunk(file) <= StartChunk(file + 1)
    <2>1. files[file + 1].startChunk \in {files[file + 1 - 1].endChunk, files[file + 1 - 1].endChunk + 1}
      BY <1>1, <1>3, <1>6 DEF AddFiles
    <2>2. file + 1 - 1 = file /\ EndChunk(file) \in Nat
      BY <1>3, <1>5, DownloaderAssumption DEF Index
    <2> QED
      BY <2>1, <2>2 DEF StartChunk, EndChunk
  <1>7. ChunksOfFile(file) \subseteq Index
    BY <1>5, DownloaderAssumption DEF ChunksOfFile, Index
  <1> QED
    BY <1>3, <1>5, <1>6, <1>7

(* What is active is counted as before when only the main goroutine moves: *)
(* the chunk above the limit has been received when it goes on.            *)
LEMMA ActiveKept ==
  ASSUME ActiveInv, UNCHANGED <<completedTasks, numberOfActiveChunks, lastChunkIndex, toFetch, unadded>>,
         InFlight' = InFlight,
         pc' /= "receiving" => pc /= "receiving" \/ lastChunkIndex \in completedTasks
  PROVE  ActiveInv'
  BY DEF ActiveInv, Active

(* The pool by itself. *)
LEMMA PoolRunsInv ==
  ASSUME RestoreInv, PoolRuns, PoolFrame
  PROVE  RestoreInv'
  <1> USE DEF RestoreInv
  <1>1. UNCHANGED <<pc, files, file, index, lastChunkIndex, numberOfActiveChunks, completedTasks, toFetch>>
    BY DEF PoolFrame, downloaderVars, restoreVars
  <1>2. /\ PoolInvariant' /\ unadded' = unadded /\ failed \subseteq failed'
        /\ failed' = {} => InFlight' = InFlight
        /\ caller[Main].pc = "ready" => caller'[Main].pc = "ready"
    BY HandledFlight
  <1>3. StateType'
    BY <1>1, <1>2 DEF StateType
  <1>4. PositionInv'
    BY <1>1, <1>2 DEF PositionInv, Ready, ChunksOfFile, StartChunk, EndChunk
  <1>5. failed' = {} => ActiveInv'
    BY <1>1, <1>2, ActiveKept
  <1> QED
    BY <1>2, <1>3, <1>4, <1>5

(* DownloadAsync: a request becomes an active chunk. *)
LEMMA FetchInv ==
  ASSUME RestoreInv, Fetch
  PROVE  RestoreInv'
  <1> USE DEF RestoreInv
  <1>1. PICK i \in FirstOf(1, toFetch) : Pool!AddTask(Main, i, FALSE) /\ toFetch' = toFetch \ {i}
    BY DEF Fetch
  <1>2. /\ numberOfActiveChunks' = numberOfActiveChunks + 1
        /\ UNCHANGED <<pc, files, file, index, lastChunkIndex, completedTasks>>
    BY DEF Fetch, restoreVars
  <1>3. i \in toFetch /\ unadded \in SUBSET Index /\ toFetch \in SUBSET Index
    BY DEF FirstOf, StateType, PoolInvariant, Tasks!PoolInv, Tasks!OperatorInv, Tasks!TypeOK
  <1>4. /\ PoolInvariant' /\ unadded' = unadded \ {i} /\ failed' = failed
        /\ i \in unadded \ InFlight /\ InFlight' = InFlight \union {i}
    BY <1>1, <1>3, AddedFlight
  <1>5. StateType'
    BY <1>1, <1>2, <1>4 DEF StateType
  <1>6. PositionInv'
    <2>1. pc \notin {"files", "stopping", "returned"}
      BY <1>3 DEF PositionInv, Ready
    <2> QED
      BY <1>1, <1>2, <1>4, <2>1 DEF PositionInv, ChunksOfFile, StartChunk, EndChunk
  <1>7. ASSUME failed = {} PROVE ActiveInv'
    <2> USE <1>7
    <2>1. Active' = Active \union {i} /\ i \notin Active
      BY <1>2, <1>4 DEF Active, ActiveInv
    <2>2. Active \in SUBSET Index
      BY <1>4, FlightSet DEF FlightIsSet, Active, StateType
    <2>3. IsFiniteSet(Active) /\ Cardinality(Active) \in Nat /\ IsFiniteSet(toFetch) /\ Cardinality(toFetch) \in Nat
      BY <1>3, <2>2, ChunkSets
    <2>4. Cardinality(Active') = Cardinality(Active) + 1
      BY <2>1, <2>3, FS_AddElement
    <2>5. Cardinality(toFetch') = Cardinality(toFetch) - 1
      BY <1>1, <1>3, <2>3, FS_RemoveElement
    <2>6. numberOfActiveChunks' = Cardinality(Active')
      BY <1>2, <2>4 DEF ActiveInv
    <2>7. numberOfActiveChunks' + Cardinality(toFetch') = numberOfActiveChunks + Cardinality(toFetch)
      BY <1>2, <2>3, <2>5 DEF ActiveInv
    <2>8. unadded' \ toFetch' = unadded \ toFetch
      BY <1>1, <1>3, <1>4
    <2>9. /\ completedTasks' \intersect InFlight' = {} /\ completedTasks' \intersect unadded' = {}
          /\ \A j \in Index \ unadded' : j \in Active' \/ j < lastChunkIndex'
      BY <1>2, <1>4, <2>1 DEF ActiveInv
    <2> QED
      BY <1>2, <2>6, <2>7, <2>8, <2>9 DEF ActiveInv
  <1> QED
    BY <1>4, <1>5, <1>6, <1>7

(* A chunk that is received goes from the pool into memory. *)
LEMMA DeliverInv ==
  ASSUME RestoreInv, NEW w \in Worker, Deliver(w)
  PROVE  RestoreInv'
  <1> USE DEF RestoreInv
  <1>1. /\ pc = "receiving" /\ caller[Main].pc = "ready" /\ Pool!Complete(w)
        /\ completedTasks' = completedTasks \union worker[w].tasks
        /\ UNCHANGED <<pc, files, file, index, toFetch, lastChunkIndex, numberOfActiveChunks>>
    BY DEF Deliver, Ready, restoreVars
  <1>2. /\ PoolInvariant' /\ unadded' = unadded /\ failed' = failed
        /\ \E u \in InFlight : worker[w].tasks = {u} /\ InFlight' = InFlight \ {u}
    BY <1>1, CompletedFlight
  <1>3. PICK u \in InFlight : worker[w].tasks = {u} /\ InFlight' = InFlight \ {u}
    BY <1>2
  <1>4. u \in Index /\ u \notin unadded
    BY FlightSet DEF FlightIsSet, PoolInvariant, Tasks!PoolInv, Tasks!FlightInv
  <1>5. StateType'
    BY <1>1, <1>2, <1>3, <1>4 DEF StateType
  <1>6. PositionInv'
    BY <1>1, <1>2 DEF PositionInv, ChunksOfFile, StartChunk, EndChunk
  <1>7. failed = {} => ActiveInv'
    <2>1. ActiveInv => Active' = Active
      BY <1>1, <1>3 DEF Active, ActiveInv
    <2> QED
      BY <1>1, <1>2, <1>3, <1>4, <2>1 DEF ActiveInv
  <1> QED
    BY <1>2, <1>5, <1>6, <1>7

(* Reclaim, when nothing is being requested: chunks before i are dropped,  *)
(* the one above the limit among them if i is a new chunk.                 *)
LEMMA ReclaimCounts ==
  ASSUME StateType, PoolInvariant, ActiveInv, toFetch = {}, pc /= "receiving",
         NEW i \in Index, lastChunkIndex <= i, Reclaim(i), UNCHANGED <<unadded, InFlight>>
  PROVE  /\ completedTasks' \intersect InFlight' = {} /\ completedTasks' \intersect unadded' = {}
         /\ numberOfActiveChunks' = Cardinality(Active') /\ numberOfActiveChunks' \in Nat
         /\ \A j \in Index \ unadded' : j \in Active' \/ j < i
         /\ \/ numberOfActiveChunks' <= Cardinality(Worker)
            \/ numberOfActiveChunks' = Cardinality(Worker) + 1 /\ i \in completedTasks'
  <1> DEFINE gone == Reclaimable(i)
  <1>1. /\ completedTasks' = completedTasks \ gone
        /\ numberOfActiveChunks' = numberOfActiveChunks - Cardinality(gone)
    BY DEF Reclaim
  <1>2. gone \subseteq completedTasks /\ i \notin gone /\ \A j \in gone : j < i
    BY DownloaderAssumption DEF Reclaimable, Index
  <1>3. lastChunkIndex \in Nat /\ i \in Nat
    BY DownloaderAssumption DEF StateType, Index
  <1>4. lastChunkIndex /= i /\ lastChunkIndex \in completedTasks => lastChunkIndex \in gone
    BY <1>3 DEF Reclaimable
  <1> HIDE DEF gone
  <1>5. gone \in SUBSET Active /\ Active \in SUBSET Index
    BY <1>2, FlightSet DEF FlightIsSet, Active, StateType
  <1>6. Active' = Active \ gone
    BY <1>1, <1>2 DEF Active, ActiveInv
  <1>7. IsFiniteSet(Active) /\ Cardinality(Active) \in Nat /\ IsFiniteSet(gone) /\ Cardinality(gone) \in Nat
    BY <1>5, ChunkSets
  <1>8. Active \intersect gone = gone
    BY <1>5
  <1>9. Cardinality(Active') = Cardinality(Active) - Cardinality(gone) /\ Cardinality(Active') \in Nat
    <2>1. IsFiniteSet(Active \ gone) /\ Cardinality(Active \ gone) = Cardinality(Active) - Cardinality(Active \intersect gone)
      BY <1>7, FS_Difference
    <2>2. Cardinality(Active \ gone) \in Nat
      BY <2>1, FS_CardinalityType
    <2> QED
      BY <1>6, <1>8, <2>1, <2>2
  <1>10. numberOfActiveChunks' = Cardinality(Active') /\ numberOfActiveChunks' \in Nat
    BY <1>1, <1>9 DEF ActiveInv
  <1>11. \A j \in Index \ unadded' : j \in Active' \/ j < i
    <2>1. \A j \in Index : j < lastChunkIndex => j < i
      BY <1>3, DownloaderAssumption DEF Index
    <2> QED
      BY <1>2, <1>6, <2>1 DEF ActiveInv
  <1>12. \/ numberOfActiveChunks' <= Cardinality(Worker)
         \/ numberOfActiveChunks' = Cardinality(Worker) + 1 /\ i \in completedTasks'
    <2>1. Cardinality(Worker) \in Nat /\ Cardinality(toFetch) = 0
      BY DownloaderAssumption, FS_CardinalityType, FS_EmptySet
    <2>2. numberOfActiveChunks \in Nat /\ numberOfActiveChunks <= Cardinality(Worker) + 1
      BY <1>7, <2>1 DEF ActiveInv
    <2>3. CASE numberOfActiveChunks <= Cardinality(Worker)
      BY <1>1, <1>7, <2>1, <2>2, <2>3
    <2>4. CASE numberOfActiveChunks = Cardinality(Worker) + 1 /\ lastChunkIndex = i
      <3>1. i \in completedTasks
        BY <2>1, <2>2, <2>4 DEF ActiveInv
      <3>2. i \in completedTasks'
        BY <1>1, <1>2, <3>1
      <3> QED
        BY <1>1, <1>7, <2>1, <2>4, <3>2
    <2>5. CASE numberOfActiveChunks = Cardinality(Worker) + 1 /\ lastChunkIndex /= i
      <3>1. lastChunkIndex \in gone
        BY <1>4, <2>1, <2>2, <2>5 DEF ActiveInv
      <3>2. Cardinality(gone) /= 0
        BY <1>7, <3>1, FS_EmptySet
      <3> QED
        BY <1>1, <1>7, <2>1, <2>5, <3>2
    <2> QED
      BY <2>1, <2>2, <2>3, <2>4, <2>5
  <1> QED
    BY <1>1, <1>10, <1>11, <1>12 DEF ActiveInv

(* Requests are made for chunks that were not requested before. *)
LEMMA PrefetchFresh ==
  ASSUME NEW f, ChunksOfFile(f) \subseteq Index
  PROVE  PrefetchRequests(f) \in SUBSET (unadded \intersect Index)
  BY DEF PrefetchRequests, FirstOf, IsDownloading

(* So are those of WaitForChunk, the chunk itself included. *)
LEMMA WaitFresh ==
  ASSUME NEW i \in Index
  PROVE  WaitRequests(i) \in SUBSET (unadded \intersect Index) /\ {i} \intersect unadded \subseteq WaitRequests(i)
  BY DEF WaitRequests, LookAhead, FirstOf, IsDownloading

(* The requests of Prefetch stay within the limit. *)
LEMMA PrefetchBound ==
  ASSUME NEW f, ChunksOfFile(f) \subseteq Index, numberOfActiveChunks' \in Nat
  PROVE  /\ numberOfActiveChunks' >= Cardinality(Worker) => PrefetchRequests(f) = {}
         /\ numberOfActiveChunks' <= Cardinality(Worker) =>
              numberOfActiveChunks' + Cardinality(PrefetchRequests(f)) <= Cardinality(Worker)
  <1> DEFINE wanted == {i \in ChunksOfFile(f) : i \in needed' /\ ~IsDownloading(i)}
  <1>1. wanted \in SUBSET Index /\ PrefetchRequests(f) = FirstOf(Free, wanted)
    BY DEF PrefetchRequests
  <1> HIDE DEF wanted
  <1>2. Cardinality(Worker) \in Nat
    BY DownloaderAssumption, FS_CardinalityType
  <1>3. Free = Cardinality(Worker) - numberOfActiveChunks' /\ Free \in Int
    BY <1>2 DEF Free
  <1>4. /\ Free <= 0 => FirstOf(Free, wanted) = {}
        /\ Free > 0 => Cardinality(FirstOf(Free, wanted)) <= Free
        /\ FirstOf(Free, wanted) \in SUBSET Index
    BY <1>1, <1>3, FirstOfBound
  <1>5. Cardinality(FirstOf(Free, wanted)) \in Nat
    BY <1>4, ChunkSets
  <1> QED
    BY <1>1, <1>2, <1>3, <1>4, <1>5, FS_EmptySet

(* Those of WaitForChunk may exceed it by the chunk itself, and then there *)
(* are no others.                                                          *)
LEMMA WaitBound ==
  ASSUME NEW i \in Index, numberOfActiveChunks' \in Nat
  PROVE  /\ i \notin unadded /\ numberOfActiveChunks' >= Cardinality(Worker) => WaitRequests(i) = {}
         /\ numberOfActiveChunks' <= Cardinality(Worker) =>
              /\ numberOfActiveChunks' + Cardinality(WaitRequests(i)) <= Cardinality(Worker) + 1
              /\ i \notin unadded => numberOfActiveChunks' + Cardinality(WaitRequests(i)) <= Cardinality(Worker)
  <1> DEFINE missing == {i} \intersect unadded
             ahead == {k \in Index : k > i /\ (\A j \in (i + 1)..k : j \in needed) /\ ~IsDownloading(k)}
             limit == Free - Cardinality(missing)
  <1>1. ahead \in SUBSET Index /\ WaitRequests(i) = missing \union FirstOf(limit, ahead)
    BY DEF WaitRequests, LookAhead
  <1> HIDE DEF ahead
  <1>2. Cardinality(Worker) \in Nat
    BY DownloaderAssumption, FS_CardinalityType
  <1>3. /\ i \in unadded => missing = {i}
        /\ i \notin unadded => missing = {}
    OBVIOUS
  <1>4. /\ IsFiniteSet(missing)
        /\ Cardinality(missing) = IF i \in unadded THEN 1 ELSE 0
    BY <1>3, FS_EmptySet, FS_Singleton
  <1> HIDE DEF missing
  <1>5. limit = Cardinality(Worker) - numberOfActiveChunks' - Cardinality(missing) /\ limit \in Int
    BY <1>2, <1>4 DEF Free
  <1> HIDE DEF limit
  <1>6. /\ limit <= 0 => FirstOf(limit, ahead) = {}
        /\ limit > 0 => Cardinality(FirstOf(limit, ahead)) <= limit
        /\ FirstOf(limit, ahead) \in SUBSET Index
    BY <1>1, <1>5, FirstOfBound
  <1>7. IsFiniteSet(FirstOf(limit, ahead)) /\ Cardinality(FirstOf(limit, ahead)) \in Nat
    BY <1>6, ChunkSets
  <1>8. Cardinality(missing \union FirstOf(limit, ahead)) <= Cardinality(missing) + Cardinality(FirstOf(limit, ahead))
    <2>1. missing \intersect FirstOf(limit, ahead) \in SUBSET Index
      BY <1>6
    <2>2. Cardinality(missing \intersect FirstOf(limit, ahead)) \in Nat
      BY <2>1, ChunkSets
    <2> QED
      BY <1>4, <1>7, <2>2, FS_Union
  <1>9. Cardinality(missing \union FirstOf(limit, ahead)) \in Nat
    BY <1>4, <1>7, FS_Union, FS_CardinalityType
  <1>10. limit <= 0 => Cardinality(FirstOf(limit, ahead)) = 0
    BY <1>6, FS_EmptySet
  <1>11. i \notin unadded /\ numberOfActiveChunks' >= Cardinality(Worker) => WaitRequests(i) = {}
    BY <1>1, <1>2, <1>3, <1>4, <1>5, <1>6
  <1>12. ASSUME numberOfActiveChunks' <= Cardinality(Worker)
         PROVE  /\ numberOfActiveChunks' + Cardinality(WaitRequests(i)) <= Cardinality(Worker) + 1
                /\ i \notin unadded => numberOfActiveChunks' + Cardinality(WaitRequests(i)) <= Cardinality(Worker)
    BY <1>1, <1>2, <1>4, <1>5, <1>6, <1>7, <1>8, <1>9, <1>10, <1>12
  <1> QED
    BY <1>11, <1>12

(* RestoreFile begins: what may be prefetched is. *)
LEMMA StartFileInv ==
  ASSUME RestoreInv, exited \in BOOLEAN, StartFile
  PROVE  RestoreInv'
  <1> USE DEF RestoreInv
  <1>1. PICK f \in Nat, i \in Index : f = file /\ i = StartChunk(file)
    BY FileOrder DEF StartFile
  <1>2. /\ pc = "files" /\ file \in DOMAIN files /\ pc' = "chunks" /\ index' = i
        /\ Reclaim(i) /\ toFetch' = PrefetchRequests(f)
        /\ UNCHANGED <<unadded, caller, worker, taskQueue, numberOfActiveTasks, stopped, failed, exited, files, file>>
    BY <1>1 DEF StartFile, poolVars, restoreVars
  <1>3. PoolInvariant' /\ InFlight' = InFlight
    BY <1>2, PoolUntouched
  <1>4. i \in ChunksOfFile(file) /\ ChunksOfFile(f) \subseteq Index /\ lastChunkIndex <= i /\ toFetch = {}
    BY <1>1, <1>2, FileOrder, DownloaderAssumption DEF PositionInv, ChunksOfFile, Index, Ready
  <1>5. PrefetchRequests(f) \in SUBSET (unadded \intersect Index)
    BY <1>4, PrefetchFresh
  <1>6. lastChunkIndex' = i /\ completedTasks' \subseteq completedTasks /\ i \in Nat
    BY <1>2, <1>4, DownloaderAssumption DEF Reclaim, StateType, Index
  <1>7. StateType'
    BY <1>2, <1>5, <1>6 DEF StateType
  <1>8. PositionInv'
    BY <1>2, <1>4, <1>6 DEF PositionInv, ChunksOfFile, StartChunk, EndChunk
  <1>9. ASSUME failed = {} PROVE ActiveInv'
    <2> USE <1>9
    <2>1. /\ completedTasks' \intersect InFlight' = {} /\ completedTasks' \intersect unadded' = {}
          /\ numberOfActiveChunks' = Cardinality(Active') /\ numberOfActiveChunks' \in Nat
          /\ \A j \in Index \ unadded' : j \in Active' \/ j < i
          /\ \/ numberOfActiveChunks' <= Cardinality(Worker)
             \/ numberOfActiveChunks' = Cardinality(Worker) + 1 /\ i \in completedTasks'
      BY <1>2, <1>3, <1>4, ReclaimCounts
    <2>2. /\ numberOfActiveChunks' >= Cardinality(Worker) => toFetch' = {}
          /\ numberOfActiveChunks' <= Cardinality(Worker) =>
               numberOfActiveChunks' + Cardinality(toFetch') <= Cardinality(Worker)
      BY <1>2, <1>4, <2>1, PrefetchBound
    <2>3. Cardinality(Worker) \in Nat /\ toFetch' \in SUBSET Index
      BY <1>2, <1>5, DownloaderAssumption, FS_CardinalityType
    <2>4. Cardinality(toFetch') \in Nat /\ (toFetch' = {} => Cardinality(toFetch') = 0)
      BY <2>3, ChunkSets, FS_EmptySet
    <2>5. \/ numberOfActiveChunks' + Cardinality(toFetch') <= Cardinality(Worker)
          \/ numberOfActiveChunks' + Cardinality(toFetch') = Cardinality(Worker) + 1 /\ i \in completedTasks'
      BY <2>1, <2>2, <2>3, <2>4
    <2>6. i \in completedTasks' => i \notin unadded'
      BY <2>1
    <2> QED
      BY <1>6, <2>1, <2>3, <2>4, <2>5, <2>6 DEF ActiveInv
  <1> QED
    BY <1>2, <1>3, <1>7, <1>8, <1>9

(* WaitForChunk: the chunk is requested whatever the limit. *)
LEMMA WaitForChunkInv ==
  ASSUME RestoreInv, exited \in BOOLEAN, WaitForChunk
  PROVE  RestoreInv'
  <1> USE DEF RestoreInv
  <1>1. PICK i \in Index : i = index
    BY FileOrder DEF WaitForChunk, PositionInv
  <1>2. /\ pc = "chunks" /\ toFetch = {} /\ pc' = "receiving"
        /\ Reclaim(i) /\ toFetch' = WaitRequests(i)
        /\ UNCHANGED <<unadded, caller, worker, taskQueue, numberOfActiveTasks, stopped, failed, exited,
                       files, file, index>>
    BY <1>1 DEF WaitForChunk, poolVars, restoreVars, Ready
  <1>3. PoolInvariant' /\ InFlight' = InFlight
    BY <1>2, PoolUntouched
  <1>4. file \in DOMAIN files /\ i \in ChunksOfFile(file) /\ lastChunkIndex <= i
    BY <1>1, <1>2 DEF PositionInv
  <1>5. WaitRequests(i) \in SUBSET (unadded \intersect Index) /\ {i} \intersect unadded \subseteq WaitRequests(i)
    BY WaitFresh
  <1>6. lastChunkIndex' = i /\ completedTasks' \subseteq completedTasks /\ i \in Nat
    BY <1>2, <1>4, DownloaderAssumption DEF Reclaim, StateType, Index
  <1>7. StateType'
    BY <1>2, <1>5, <1>6 DEF StateType
  <1>8. PositionInv'
    BY <1>1, <1>2, <1>4, <1>5, <1>6 DEF PositionInv, ChunksOfFile, StartChunk, EndChunk
  <1>9. ASSUME failed = {} PROVE ActiveInv'
    <2> USE <1>9
    <2>1. /\ completedTasks' \intersect InFlight' = {} /\ completedTasks' \intersect unadded' = {}
          /\ numberOfActiveChunks' = Cardinality(Active') /\ numberOfActiveChunks' \in Nat
          /\ \A j \in Index \ unadded' : j \in Active' \/ j < i
          /\ \/ numberOfActiveChunks' <= Cardinality(Worker)
             \/ numberOfActiveChunks' = Cardinality(Worker) + 1 /\ i \in completedTasks'
      BY <1>2, <1>3, <1>4, ReclaimCounts
    <2>2. /\ i \notin unadded /\ numberOfActiveChunks' >= Cardinality(Worker) => toFetch' = {}
          /\ numberOfActiveChunks' <= Cardinality(Worker) =>
               numberOfActiveChunks' + Cardinality(toFetch') <= Cardinality(Worker) + 1
      BY <1>2, <2>1, WaitBound
    <2>3. Cardinality(Worker) \in Nat /\ toFetch' \in SUBSET Index
      BY <1>2, <1>5, DownloaderAssumption, FS_CardinalityType
    <2>4. Cardinality(toFetch') \in Nat /\ (toFetch' = {} => Cardinality(toFetch') = 0)
      BY <2>3, ChunkSets, FS_EmptySet
    <2>5. i \in completedTasks' => i \notin unadded
      BY <1>2, <2>1
    <2>6. numberOfActiveChunks' + Cardinality(toFetch') <= Cardinality(Worker) + 1
      BY <2>1, <2>2, <2>3, <2>4, <2>5
    <2>7. lastChunkIndex' \notin unadded' \ toFetch'
      BY <1>2, <1>5, <1>6
    <2> QED
      BY <1>2, <1>6, <2>1, <2>6, <2>7 DEF ActiveInv
  <1> QED
    BY <1>2, <1>3, <1>7, <1>8, <1>9

(* A chunk is done, the file with it or not. *)
LEMMA GoesOn ==
  ASSUME RestoreInv, exited \in BOOLEAN, UNCHANGED <<poolVars, downloaderVars, toFetch>>, Ready,
         \/ pc = "files" /\ file \in DOMAIN files
         \/ pc = "chunks"
         \/ pc = "receiving" /\ index \in completedTasks,
         (ChunkDone /\ pc /= "files") \/ \E fails : NextFile(fails)
  PROVE  RestoreInv'
  <1> USE DEF RestoreInv
  <1>1. UNCHANGED <<unadded, caller, worker, taskQueue, numberOfActiveTasks, stopped, failed, exited,
                    lastChunkIndex, numberOfActiveChunks, completedTasks>>
    BY DEF poolVars, downloaderVars
  <1>2. PoolInvariant' /\ InFlight' = InFlight
    BY <1>1, PoolUntouched
  <1>3. file \in DOMAIN files
    BY DEF PositionInv
  <1>4. /\ StartChunk(file) \in Index /\ EndChunk(file) \in Index /\ StartChunk(file) <= EndChunk(file)
        /\ file + 1 \in DOMAIN files => EndChunk(file) <= StartChunk(file + 1)
        /\ file \in Nat /\ file + 1 \in 1..(Len(files) + 1)
    BY <1>3, FileOrder
  <1>5. lastChunkIndex \in Nat /\ index \in Nat /\ StartChunk(file) \in Nat /\ EndChunk(file) \in Nat
    BY <1>4, DownloaderAssumption DEF StateType, Index
  <1>6. lastChunkIndex <= EndChunk(file)
    BY <1>3, <1>4, <1>5 DEF PositionInv, ChunksOfFile
  <1>7. \/ /\ index < EndChunk(file) /\ pc /= "files" /\ pc' = "chunks" /\ index' = index + 1
           /\ UNCHANGED <<files, file>>
        \/ pc' = "files" /\ file' = file + 1 /\ index' = 0 /\ UNCHANGED files
    BY DEF ChunkDone, NextFile, restoreVars
  <1>8. StateType'
    BY <1>1, <1>4, <1>5, <1>7 DEF StateType
  <1>9. PositionInv'
    <2>1. CASE /\ index < EndChunk(file) /\ pc /= "files" /\ pc' = "chunks" /\ index' = index + 1
               /\ UNCHANGED <<files, file>>
      <3>1. index \in ChunksOfFile(file) /\ lastChunkIndex <= index
        BY <2>1 DEF PositionInv
      <3>2. index + 1 \in ChunksOfFile(file) /\ lastChunkIndex <= index + 1
        BY <1>5, <2>1, <3>1 DEF ChunksOfFile
      <3> QED
        BY <1>1, <1>3, <2>1, <3>2 DEF PositionInv, ChunksOfFile, StartChunk, EndChunk
    <2>2. CASE pc' = "files" /\ file' = file + 1 /\ index' = 0 /\ UNCHANGED files
      <3>1. ASSUME file + 1 \in DOMAIN files PROVE lastChunkIndex <= StartChunk(file + 1)
        <4>1. StartChunk(file + 1) \in Int
          <5>1. files \in Seq(FileChunks)
            BY DownloaderAssumption DEF StateType
          <5>2. files[file + 1] \in FileChunks
            BY <3>1, <5>1
          <5> QED
            BY <5>2, DownloaderAssumption DEF FileChunks, StartChunk, Index
        <4> QED
          BY <1>4, <1>5, <1>6, <3>1, <4>1
      <3> QED
        BY <1>1, <2>2, <3>1 DEF PositionInv, Ready, StartChunk
    <2> QED
      BY <1>7, <2>1, <2>2
  <1>10. failed = {} => ActiveInv'
    <2>1. pc = "receiving" => lastChunkIndex = index
      BY DEF PositionInv
    <2> QED
      BY <1>1, <1>2, <2>1, ActiveKept
  <1> QED
    BY <1>1, <1>2, <1>8, <1>9, <1>10

(* The end of Restore: nothing is being requested. *)
LEMMA FilesDoneInv ==
  ASSUME RestoreInv, exited \in BOOLEAN, FilesDone
  PROVE  RestoreInv'
  <1> USE DEF RestoreInv
  <1>1. /\ pc = "files" /\ pc' \in {"returned", "stopping"} /\ toFetch = {}
        /\ UNCHANGED <<files, file, index, lastChunkIndex, numberOfActiveChunks, completedTasks, toFetch>>
    BY DEF FilesDone, downloaderVars, restoreVars, PositionInv, Ready
  <1>2. /\ PoolInvariant' /\ unadded' = unadded /\ failed \subseteq failed'
        /\ failed' = {} => InFlight' = InFlight
    <2>1. CASE UNCHANGED poolVars
      BY <2>1, PoolUntouched DEF poolVars
    <2>2. CASE Pool!Wait(Main, TRUE)
      BY <2>2, HandledFlight
    <2> QED
      BY <2>1, <2>2 DEF FilesDone
  <1>3. StateType'
    BY <1>1, <1>2 DEF StateType
  <1>4. PositionInv'
    BY <1>1 DEF PositionInv
  <1>5. failed' = {} => ActiveInv'
    BY <1>1, <1>2, ActiveKept
  <1> QED
    BY <1>2, <1>3, <1>4, <1>5

(* The process ends, or nothing happens. *)
LEMMA UntouchedInv ==
  ASSUME RestoreInv, exited' \in BOOLEAN,
         UNCHANGED <<unadded, caller, worker, taskQueue, numberOfActiveTasks, stopped, failed,
                     pc, files, file, index, lastChunkIndex, numberOfActiveChunks, completedTasks, toFetch>>
  PROVE  RestoreInv'
  <1> USE DEF RestoreInv
  <1>1. PoolInvariant' /\ InFlight' = InFlight
    BY PoolUntouched
  <1>2. StateType' /\ PositionInv'
    BY DEF StateType, PositionInv, Ready, ChunksOfFile, StartChunk, EndChunk
  <1>3. failed = {} => ActiveInv'
    BY <1>1, ActiveKept
  <1> QED
    BY <1>1, <1>2, <1>3

(* At the beginning nothing has been requested. *)
LEMMA InitRestoreInv == Init => RestoreInv
  <1> SUFFICES ASSUME Init PROVE RestoreInv
    OBVIOUS
  <1>1. Tasks!Init
    BY DEF Init, Pool!Init, Tasks!Init, Pool!ReadyCaller, Tasks!ReadyCaller, Pool!IdleWorker, Tasks!IdleWorker
  <1>2. Tasks!PoolInv /\ Tasks!PlacesInv
    BY <1>1, DownloaderAssumption, Tasks!InitPoolInv, Tasks!InitPlaces DEF Tasks!IsFiniteSet, IsFiniteSet
  <1>3. /\ unadded = Index /\ caller[Main].pc = "ready" /\ caller[Main].tasks = {} /\ failed = {} /\ taskQueue = <<>>
        /\ \A w \in Worker : worker[w].pc = "idle"
    BY DEF Init, Pool!Init, Pool!ReadyCaller, Pool!IdleWorker
  <1>4. PoolInvariant
    BY <1>2, <1>3 DEF PoolInvariant, CallerInv
  <1>5. files \in Seq(FileChunks) /\ AddFiles(files)
    BY DownloaderAssumption DEF Init
  <1>6. StateType
    BY <1>5 DEF Init, StateType
  <1>7. PositionInv
    <2>1. 1 \in DOMAIN files => StartChunk(1) = 1
      BY <1>5 DEF AddFiles, StartChunk
    <2> QED
      BY <1>3, <2>1 DEF Init, PositionInv, Ready
  <1>8. ActiveInv
    <2>1. InFlight = {}
      <3>1. {taskQueue[n] : n \in DOMAIN taskQueue} = {}
        BY <1>3
      <3>2. UNION {worker[w].tasks : w \in {v \in Worker : worker[v].pc = "running"}} = {}
        BY <1>3
      <3> QED
        BY <1>3, <3>1, <3>2 DEF InFlight
    <2>2. Active = {} /\ completedTasks = {} /\ toFetch = {} /\ numberOfActiveChunks = 0
      BY <2>1 DEF Init, Active
    <2>3. Cardinality(Worker) \in Nat /\ Cardinality({}) = 0
      BY DownloaderAssumption, FS_CardinalityType, FS_EmptySet
    <2>4. Cardinality(Worker) /= 0
      BY DownloaderAssumption, FS_EmptySet
    <2> QED
      BY <1>3, <2>2, <2>3, <2>4 DEF ActiveInv
  <1> QED
    BY <1>4, <1>6, <1>7, <1>8 DEF RestoreInv

(* Every step of the restore keeps the invariant. *)
LEMMA NextRestoreInv == RestoreInv /\ [Next]_vars => RestoreInv'
  <1> SUFFICES ASSUME RestoreInv, [Next]_vars PROVE RestoreInv'
    OBVIOUS
  <1>1. exited \in BOOLEAN
    BY DEF RestoreInv, PoolInvariant, Tasks!PoolInv, Tasks!OperatorInv, Tasks!TypeOK
  <1>2. CASE UNCHANGED vars
    BY <1>1, <1>2, UntouchedInv DEF vars, poolVars, downloaderVars, restoreVars
  <1>3. CASE MainError
    BY <1>3, UntouchedInv DEF MainError, downloaderVars, restoreVars
  <1>4. CASE Fetch
    BY <1>4, FetchInv
  <1>5. CASE PoolRuns /\ PoolFrame
    BY <1>5, PoolRunsInv
  <1>6. CASE HandOver
    BY <1>5, <1>6 DEF HandOver, PoolRuns, PoolFrame
  <1>7. CASE SkipFile
    <2>1. /\ pc = "files" /\ file \in DOMAIN files /\ UNCHANGED <<poolVars, downloaderVars, toFetch>>
          /\ \E fails : NextFile(fails)
      BY <1>7 DEF SkipFile
    <2>2. Ready
      BY <2>1 DEF RestoreInv, PositionInv
    <2> QED
      BY <1>1, <2>1, <2>2, GoesOn
  <1>8. CASE StartFile
    BY <1>1, <1>8, StartFileInv
  <1>9. CASE UseLocalCopy
    BY <1>1, <1>9, GoesOn DEF UseLocalCopy
  <1>10. CASE WaitForChunk
    BY <1>1, <1>10, WaitForChunkInv
  <1>11. CASE TakeChunk
    BY <1>1, <1>11, GoesOn DEF TakeChunk
  <1>12. CASE FilesDone
    BY <1>1, <1>12, FilesDoneInv
  <1>13. ASSUME NEW w \in Worker, Deliver(w)
         PROVE  RestoreInv'
    BY <1>13, DeliverInv
  <1> QED
    BY <1>2, <1>3, <1>4, <1>5, <1>6, <1>7, <1>8, <1>9, <1>10, <1>11, <1>12, <1>13
       DEF Next, MainRuns, WorkerRuns, DownloadError, PoolRuns

(* With any number of threads and any files, numberOfActiveChunks is the   *)
(* number of chunks in the pool and in memory, and exceeds the number of   *)
(* threads by one at most.                                                 *)
THEOREM ActiveAlwaysBounded == Spec => []ActiveBounded
  <1>1. RestoreInv => ActiveBounded
    <2> SUFFICES ASSUME RestoreInv, failed = {} PROVE ActiveBounded
      BY DEF ActiveBounded
    <2>1. ActiveInv /\ toFetch \in SUBSET Index
      BY DEF RestoreInv, StateType, PoolInvariant, Tasks!PoolInv, Tasks!OperatorInv, Tasks!TypeOK
    <2>2. Active \in SUBSET Index
      BY FlightSet DEF FlightIsSet, Active, RestoreInv, StateType
    <2>3. Cardinality(toFetch) \in Nat /\ Cardinality(Active) \in Nat /\ Cardinality(Worker) \in Nat
      BY <2>1, <2>2, ChunkSets, DownloaderAssumption, FS_CardinalityType
    <2> QED
      BY <2>1, <2>3 DEF ActiveBounded, ActiveInv, Active
  <1> QED
    BY <1>1, InitRestoreInv, NextRestoreInv, PTL DEF Spec

(* The chunk RestoreFile waits for is to be requested, in the pool or in   *)
(* memory, as long as no download failed.                                  *)
THEOREM AwaitedAlwaysComing == Spec => []AwaitedIsComing
  <1>1. RestoreInv => AwaitedIsComing
    <2> SUFFICES ASSUME RestoreInv, failed = {}, pc = "receiving"
                 PROVE  index \in toFetch \union InFlight \union completedTasks
      BY DEF AwaitedIsComing
    <2>1. /\ index \in Index /\ lastChunkIndex = index /\ (index \in unadded => index \in toFetch)
      BY FileOrder DEF RestoreInv, PositionInv
    <2>2. ~(index < index)
      BY DEF RestoreInv, StateType
    <2> QED
      BY <2>1, <2>2 DEF RestoreInv, ActiveInv, Active
  <1> QED
    BY <1>1, InitRestoreInv, NextRestoreInv, PTL DEF Spec

=============================================================================
