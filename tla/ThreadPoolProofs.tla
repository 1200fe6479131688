-------------------------- MODULE ThreadPoolProofs --------------------------
(***************************************************************************)
(* Theorems about ThreadPool.tla for every number of workers, tasks and    *)
(* spurious wake-ups.                                                      *)
(*                                                                         *)
(* The invariant is built from named parts.  LockInv ties the owner of the *)
(* mutex to the place of its owner; from it come the two facts a condition *)
(* variable needs: what a worker read before it waits is still true when   *)
(* it blocks (SleepInv), and nobody is asleep once the destructor joins.   *)
(***************************************************************************)
EXTENDS ThreadPool, SequenceTheorems, FiniteSetTheorems, TLAPS

USE DEF mainVars, taskVars, MoreToStart, AtTheEnd, MustWait, MayExit, Popped

-----------------------------------------------------------------------------
(* The inductive invariant                                                 *)

(* A thread is inside a critical section exactly when it owns the mutex.   *)
LockInv ==
  /\ queue_mutex = Main
       <=> main \in {"emplace", "unlock", "set_stop", "unlock_stop"}
  /\ \A w \in Workers :
       queue_mutex = w <=> pc[w] \in {"check", "wait", "unlock"}

(* Threads are started in the order of the vector.                         *)
SpawnInv ==
  /\ \A w \in Workers : pc[w] = "unborn" <=> w > workers
  /\ main # "construct" => workers = NumWorkers

(* How far Main is tells what it has enqueued and whether stop is set.     *)
MainInv ==
  /\ main = "emplace" => enqueued < NumTasks
  /\ main \in {"set_stop", "unlock_stop", "notify_all", "join", "returned"}
       => enqueued = NumTasks
  /\ stop <=> main \in {"unlock_stop", "notify_all", "join", "returned"}

(* A worker that decided to wait still finds nothing to do when it blocks, *)
(* and the one that sleeps will be notified if the pool stops.             *)
SleepInv ==
  \A w \in Workers :
    /\ pc[w] = "wait" => ~stop /\ tasks = <<>>
    /\ pc[w] = "waiting" => main \notin {"join", "returned"}

(* A worker leaves only when the queue is empty for good.                  *)
ExitInv == \A w \in Workers : pc[w] = "exited" => stop /\ tasks = <<>>

(* The variable task holds a task exactly from the pop to the return.      *)
SlotInv ==
  \A w \in Workers : task[w] # NoTask <=> pc[w] \in {"unlock", "run"}

(* What was popped has been executed or is held by a worker.               *)
RunInv ==
  \A k \in 1..Len(started) :
    started[k] \in finished \/ \E w \in Workers : task[w] = started[k]

(* The joined workers have ended, and the destructor joins them all.       *)
JoinInv ==
  /\ \A w \in 1..joined : pc[w] = "exited"
  /\ main = "returned" => joined = workers

PoolInv ==
  /\ TypeOK /\ MainInv /\ SlotInv /\ LockInv /\ SpawnInv /\ SleepInv
  /\ ExitInv /\ JoinInv /\ RunInv /\ FifoExactlyOnce

-----------------------------------------------------------------------------
(* 0 and -1 are no worker: Main and Nobody are told from the workers.      *)
LEMMA MainIsNoWorker == Main \notin Workers /\ Nobody \notin Workers /\ Main # Nobody
  BY DEF Main, Nobody, Workers

(* A popped task is a task, and the rest is a queue of tasks.              *)
LEMMA PopTypes ==
  ASSUME TypeOK, tasks # <<>>
  PROVE  Head(tasks) \in Tasks /\ Tail(tasks) \in Seq(Tasks)
  BY HeadTailProperties DEF TypeOK

(* Every step of Main and of a worker keeps the types.                     *)
LEMMA TypeStep == PoolInv /\ [Next]_vars => TypeOK'
<1> SUFFICES ASSUME PoolInv, [Next]_vars
             PROVE  TypeOK'
  OBVIOUS
<1> USE DEF PoolInv, TypeOK, MainPoints, WorkerPoints, Acquire, Release,
            Workers, Tasks, NoTask, Main, Nobody
<1>1. CASE MainNext
  <2>1. CASE Spawn
    BY <2>1, NumWorkersAssumption DEF Spawn, NumWorkersAssumption
  <2>2. CASE Constructed
    BY <2>2 DEF Constructed
  <2>3. CASE EnqueueLock
    BY <2>3 DEF EnqueueLock
  <2>4. CASE EnqueueEmplace
    <3>1. enqueued + 1 \in Tasks
      BY <2>4, NumTasksAssumption
         DEF EnqueueEmplace, MainInv, NumTasksAssumption
    <3>2. tasks' \in Seq(Tasks)
      BY <2>4, <3>1, AppendProperties DEF EnqueueEmplace
    <3>3. QED
      BY <2>4, <3>1, <3>2 DEF EnqueueEmplace
  <2>5. CASE EnqueueUnlock
    BY <2>5 DEF EnqueueUnlock
  <2>6. CASE EnqueueNotify
    BY <2>6 DEF EnqueueNotify, Waiting
  <2>7. CASE DestroyLock
    BY <2>7 DEF DestroyLock
  <2>8. CASE DestroySetStop
    BY <2>8 DEF DestroySetStop
  <2>9. CASE DestroyUnlock
    BY <2>9 DEF DestroyUnlock
  <2>10. CASE DestroyNotifyAll
    BY <2>10 DEF DestroyNotifyAll, Waiting
  <2>11. CASE DestroyJoin
    BY <2>11, NumWorkersAssumption DEF DestroyJoin, NumWorkersAssumption
  <2>12. CASE DestroyReturn
    BY <2>12 DEF DestroyReturn
  <2>13. QED
    BY <1>1, <2>1, <2>2, <2>3, <2>4, <2>5, <2>6, <2>7, <2>8, <2>9, <2>10, <2>11, <2>12
       DEF MainNext
<1>2. ASSUME NEW w \in Workers, WorkerStep(w)
      PROVE  TypeOK'
  <2>1. CASE WorkerLock(w)
    BY <2>1 DEF WorkerLock
  <2>2. CASE WorkerFindsNothing(w)
    BY <2>2 DEF WorkerFindsNothing
  <2>3. CASE WorkerWait(w)
    BY <2>3 DEF WorkerWait
  <2>4. CASE WorkerExit(w)
    BY <2>4 DEF WorkerExit
  <2>5. CASE WorkerPop(w)
    <3>1. Head(tasks) \in Tasks /\ Tail(tasks) \in Seq(Tasks)
      BY <2>5, PopTypes DEF WorkerPop
    <3>2. started' \in Seq(Tasks)
      BY <2>5, <3>1, AppendProperties DEF WorkerPop
    <3>3. QED
      BY <2>5, <3>1, <3>2 DEF WorkerPop
  <2>6. CASE WorkerUnlock(w)
    BY <2>6 DEF WorkerUnlock
  <2>7. CASE WorkerRun(w)
    <3>1. task[w] \in Tasks
      BY <2>7 DEF WorkerRun, SlotInv
    <3>2. QED
      BY <2>7, <3>1 DEF WorkerRun
  <2>8. QED
    BY <1>2, <2>1, <2>2, <2>3, <2>4, <2>5, <2>6, <2>7 DEF WorkerStep
<1>3. ASSUME NEW w \in Workers, SpuriousWakeup(w)
      PROVE  TypeOK'
  BY <1>3, MaxSpuriousAssumption DEF SpuriousWakeup, MaxSpuriousAssumption
<1>4. CASE UNCHANGED vars
  BY <1>4 DEF vars
<1>5. QED
  BY <1>1, <1>2, <1>3, <1>4 DEF Next, Terminated

(* Only Main moves its program counter, enqueues and sets stop.            *)
LEMMA MainStep == PoolInv /\ [Next]_vars => MainInv'
<1> SUFFICES ASSUME PoolInv, [Next]_vars
             PROVE  MainInv'
  OBVIOUS
<1> USE DEF PoolInv, TypeOK, MainInv
<1>1. CASE MainNext
  BY <1>1, NumTasksAssumption
     DEF MainNext, Spawn, Constructed, EnqueueLock, EnqueueEmplace,
         EnqueueUnlock, EnqueueNotify, DestroyLock, DestroySetStop,
         DestroyUnlock, DestroyNotifyAll, DestroyJoin, DestroyReturn,
         NumTasksAssumption
<1>2. ASSUME NEW w \in Workers, WorkerStep(w)
      PROVE  MainInv'
  BY <1>2 DEF WorkerStep, WorkerLock, WorkerFindsNothing, WorkerWait,
         WorkerExit, WorkerPop, WorkerUnlock, WorkerRun
<1>3. ASSUME NEW w \in Workers, SpuriousWakeup(w)
      PROVE  MainInv'
  BY <1>3 DEF SpuriousWakeup
<1>4. CASE UNCHANGED vars
  BY <1>4 DEF vars
<1>5. QED
  BY <1>1, <1>2, <1>3, <1>4 DEF Next, Terminated

(* A worker gets a task when it pops and gives it up when the call has     *)
(* returned.                                                               *)
LEMMA SlotStep == PoolInv /\ [Next]_vars => SlotInv'
<1> SUFFICES ASSUME PoolInv, [Next]_vars
             PROVE  SlotInv'
  OBVIOUS
<1> USE DEF PoolInv, TypeOK, SlotInv, Tasks, NoTask
<1>1. CASE MainNext
  <2>1. CASE Spawn
    BY <2>1 DEF Spawn, Workers, SpawnInv
  <2>2. CASE Constructed
    BY <2>2 DEF Constructed
  <2>3. CASE EnqueueLock
    BY <2>3 DEF EnqueueLock
  <2>4. CASE EnqueueEmplace
    BY <2>4 DEF EnqueueEmplace
  <2>5. CASE EnqueueUnlock
    BY <2>5 DEF EnqueueUnlock
  <2>6. CASE EnqueueNotify
    BY <2>6 DEF EnqueueNotify, Waiting
  <2>7. CASE DestroyLock
    BY <2>7 DEF DestroyLock
  <2>8. CASE DestroySetStop
    BY <2>8 DEF DestroySetStop
  <2>9. CASE DestroyUnlock
    BY <2>9 DEF DestroyUnlock
  <2>10. CASE DestroyNotifyAll
    BY <2>10 DEF DestroyNotifyAll, Waiting
  <2>11. CASE DestroyJoin
    BY <2>11 DEF DestroyJoin
  <2>12. CASE DestroyReturn
    BY <2>12 DEF DestroyReturn
  <2>13. QED
    BY <1>1, <2>1, <2>2, <2>3, <2>4, <2>5, <2>6, <2>7, <2>8, <2>9, <2>10, <2>11, <2>12
       DEF MainNext
<1>2. ASSUME NEW w \in Workers, WorkerStep(w)
      PROVE  SlotInv'
  <2>1. CASE WorkerLock(w)
    BY <2>1 DEF WorkerLock
  <2>2. CASE WorkerFindsNothing(w)
    BY <2>2 DEF WorkerFindsNothing
  <2>3. CASE WorkerWait(w)
    BY <2>3 DEF WorkerWait
  <2>4. CASE WorkerExit(w)
    BY <2>4 DEF WorkerExit
  <2>5. CASE WorkerPop(w)
    BY <2>5, PopTypes DEF WorkerPop, PoolInv
  <2>6. CASE WorkerUnlock(w)
    BY <2>6 DEF WorkerUnlock
  <2>7. CASE WorkerRun(w)
    BY <2>7 DEF WorkerRun
  <2>8. QED
    BY <1>2, <2>1, <2>2, <2>3, <2>4, <2>5, <2>6, <2>7 DEF WorkerStep
<1>3. ASSUME NEW w \in Workers, SpuriousWakeup(w)
      PROVE  SlotInv'
  BY <1>3 DEF SpuriousWakeup
<1>4. CASE UNCHANGED vars
  BY <1>4 DEF vars
<1>5. QED
  BY <1>1, <1>2, <1>3, <1>4 DEF Next, Terminated

(* The mutex: a thread enters a critical section only when it is free.     *)
LEMMA LockStep == PoolInv /\ [Next]_vars => LockInv'
<1> SUFFICES ASSUME PoolInv, [Next]_vars
             PROVE  LockInv'
  OBVIOUS
<1> USE MainIsNoWorker DEF PoolInv, TypeOK, LockInv, Acquire, Release
<1>1. CASE MainNext
  <2>1. CASE Spawn
    BY <2>1 DEF Spawn, Workers, SpawnInv
  <2>2. CASE Constructed
    BY <2>2 DEF Constructed
  <2>3. CASE EnqueueLock
    BY <2>3 DEF EnqueueLock
  <2>4. CASE EnqueueEmplace
    BY <2>4 DEF EnqueueEmplace
  <2>5. CASE EnqueueUnlock
    BY <2>5 DEF EnqueueUnlock
  <2>6. CASE EnqueueNotify
    BY <2>6 DEF EnqueueNotify, Waiting
  <2>7. CASE DestroyLock
    BY <2>7 DEF DestroyLock
  <2>8. CASE DestroySetStop
    BY <2>8 DEF DestroySetStop
  <2>9. CASE DestroyUnlock
    BY <2>9 DEF DestroyUnlock
  <2>10. CASE DestroyNotifyAll
    BY <2>10 DEF DestroyNotifyAll, Waiting
  <2>11. CASE DestroyJoin
    BY <2>11 DEF DestroyJoin
  <2>12. CASE DestroyReturn
    BY <2>12 DEF DestroyReturn
  <2>13. QED
    BY <1>1, <2>1, <2>2, <2>3, <2>4, <2>5, <2>6, <2>7, <2>8, <2>9, <2>10, <2>11, <2>12
       DEF MainNext
<1>2. ASSUME NEW w \in Workers, WorkerStep(w)
      PROVE  LockInv'
  <2>1. CASE WorkerLock(w)
    BY <2>1 DEF WorkerLock
  <2>2. CASE WorkerFindsNothing(w)
    BY <2>2 DEF WorkerFindsNothing
  <2>3. CASE WorkerWait(w)
    BY <2>3 DEF WorkerWait
  <2>4. CASE WorkerExit(w)
    BY <2>4 DEF WorkerExit
  <2>5. CASE WorkerPop(w)
    BY <2>5 DEF WorkerPop
  <2>6. CASE WorkerUnlock(w)
    BY <2>6 DEF WorkerUnlock
  <2>7. CASE WorkerRun(w)
    BY <2>7 DEF WorkerRun
  <2>8. QED
    BY <1>2, <2>1, <2>2, <2>3, <2>4, <2>5, <2>6, <2>7 DEF WorkerStep
<1>3. ASSUME NEW w \in Workers, SpuriousWakeup(w)
      PROVE  LockInv'
  BY <1>3 DEF SpuriousWakeup
<1>4. CASE UNCHANGED vars
  BY <1>4 DEF vars
<1>5. QED
  BY <1>1, <1>2, <1>3, <1>4 DEF Next, Terminated

(* A worker is born only by the constructor, in its turn.                  *)
LEMMA SpawnStep == PoolInv /\ [Next]_vars => SpawnInv'
<1> SUFFICES ASSUME PoolInv, [Next]_vars
             PROVE  SpawnInv'
  OBVIOUS
<1> USE DEF PoolInv, TypeOK, SpawnInv, Workers
<1>1. CASE MainNext
  <2>1. CASE Spawn
    BY <2>1 DEF Spawn
  <2>2. CASE Constructed
    BY <2>2 DEF Constructed
  <2>3. CASE EnqueueLock
    BY <2>3 DEF EnqueueLock
  <2>4. CASE EnqueueEmplace
    BY <2>4 DEF EnqueueEmplace
  <2>5. CASE EnqueueUnlock
    BY <2>5 DEF EnqueueUnlock
  <2>6. CASE EnqueueNotify
    BY <2>6 DEF EnqueueNotify, Waiting
  <2>7. CASE DestroyLock
    BY <2>7 DEF DestroyLock
  <2>8. CASE DestroySetStop
    BY <2>8 DEF DestroySetStop
  <2>9. CASE DestroyUnlock
    BY <2>9 DEF DestroyUnlock
  <2>10. CASE DestroyNotifyAll
    BY <2>10 DEF DestroyNotifyAll, Waiting
  <2>11. CASE DestroyJoin
    BY <2>11 DEF DestroyJoin
  <2>12. CASE DestroyReturn
    BY <2>12 DEF DestroyReturn
  <2>13. QED
    BY <1>1, <2>1, <2>2, <2>3, <2>4, <2>5, <2>6, <2>7, <2>8, <2>9, <2>10, <2>11, <2>12
       DEF MainNext
<1>2. ASSUME NEW w \in Workers, WorkerStep(w)
      PROVE  SpawnInv'
  <2>1. CASE WorkerLock(w)
    BY <2>1 DEF WorkerLock
  <2>2. CASE WorkerFindsNothing(w)
    BY <2>2 DEF WorkerFindsNothing
  <2>3. CASE WorkerWait(w)
    BY <2>3 DEF WorkerWait
  <2>4. CASE WorkerExit(w)
    BY <2>4 DEF WorkerExit
  <2>5. CASE WorkerPop(w)
    BY <2>5 DEF WorkerPop
  <2>6. CASE WorkerUnlock(w)
    BY <2>6 DEF WorkerUnlock
  <2>7. CASE WorkerRun(w)
    BY <2>7 DEF WorkerRun
  <2>8. QED
    BY <1>2, <2>1, <2>2, <2>3, <2>4, <2>5, <2>6, <2>7 DEF WorkerStep
<1>3. ASSUME NEW w \in Workers, SpuriousWakeup(w)
      PROVE  SpawnInv'
  BY <1>3 DEF SpuriousWakeup
<1>4. CASE UNCHANGED vars
  BY <1>4 DEF vars
<1>5. QED
  BY <1>1, <1>2, <1>3, <1>4 DEF Next, Terminated

(* The heart of the condition variable: Main changes tasks or stop only    *)
(* while it owns the mutex, hence never between a worker's check and wait. *)
LEMMA SleepStep == PoolInv /\ [Next]_vars => SleepInv'
<1> SUFFICES ASSUME PoolInv, [Next]_vars
             PROVE  SleepInv'
  OBVIOUS
<1> USE MainIsNoWorker DEF PoolInv, TypeOK, SleepInv
<1>1. CASE MainNext
  <2>1. CASE Spawn
    BY <2>1 DEF Spawn
  <2>2. CASE Constructed
    BY <2>2 DEF Constructed
  <2>3. CASE EnqueueLock
    BY <2>3 DEF EnqueueLock
  <2>4. CASE EnqueueEmplace
    BY <2>4 DEF EnqueueEmplace, LockInv
  <2>5. CASE EnqueueUnlock
    BY <2>5 DEF EnqueueUnlock
  <2>6. CASE EnqueueNotify
    BY <2>6 DEF EnqueueNotify, Waiting
  <2>7. CASE DestroyLock
    BY <2>7 DEF DestroyLock
  <2>8. CASE DestroySetStop
    BY <2>8 DEF DestroySetStop, LockInv
  <2>9. CASE DestroyUnlock
    BY <2>9 DEF DestroyUnlock
  <2>10. CASE DestroyNotifyAll
    BY <2>10 DEF DestroyNotifyAll, Waiting
  <2>11. CASE DestroyJoin
    BY <2>11 DEF DestroyJoin
  <2>12. CASE DestroyReturn
    BY <2>12 DEF DestroyReturn
  <2>13. QED
    BY <1>1, <2>1, <2>2, <2>3, <2>4, <2>5, <2>6, <2>7, <2>8, <2>9, <2>10, <2>11, <2>12
       DEF MainNext
<1>2. ASSUME NEW w \in Workers, WorkerStep(w)
      PROVE  SleepInv'
  <2>1. CASE WorkerLock(w)
    BY <2>1 DEF WorkerLock
  <2>2. CASE WorkerFindsNothing(w)
    BY <2>2 DEF WorkerFindsNothing
  <2>3. CASE WorkerWait(w)
    BY <2>3 DEF WorkerWait, MainInv
  <2>4. CASE WorkerExit(w)
    BY <2>4 DEF WorkerExit
  <2>5. CASE WorkerPop(w)
    BY <2>5 DEF WorkerPop, LockInv
  <2>6. CASE WorkerUnlock(w)
    BY <2>6 DEF WorkerUnlock
  <2>7. CASE WorkerRun(w)
    BY <2>7 DEF WorkerRun
  <2>8. QED
    BY <1>2, <2>1, <2>2, <2>3, <2>4, <2>5, <2>6, <2>7 DEF WorkerStep
<1>3. ASSUME NEW w \in Workers, SpuriousWakeup(w)
      PROVE  SleepInv'
  BY <1>3 DEF SpuriousWakeup
<1>4. CASE UNCHANGED vars
  BY <1>4 DEF vars
<1>5. QED
  BY <1>1, <1>2, <1>3, <1>4 DEF Next, Terminated

(* A worker that exits has just seen stop and the empty queue, and once    *)
(* stop is set nothing is enqueued any more.                               *)
LEMMA ExitStep == PoolInv /\ [Next]_vars => ExitInv'
<1> SUFFICES ASSUME PoolInv, [Next]_vars
             PROVE  ExitInv'
  OBVIOUS
<1> USE DEF PoolInv, TypeOK, ExitInv
<1>1. CASE MainNext
  <2>1. CASE Spawn
    BY <2>1 DEF Spawn
  <2>2. CASE Constructed
    BY <2>2 DEF Constructed
  <2>3. CASE EnqueueLock
    BY <2>3 DEF EnqueueLock
  <2>4. CASE EnqueueEmplace
    BY <2>4 DEF EnqueueEmplace, MainInv
  <2>5. CASE EnqueueUnlock
    BY <2>5 DEF EnqueueUnlock
  <2>6. CASE EnqueueNotify
    BY <2>6 DEF EnqueueNotify, Waiting
  <2>7. CASE DestroyLock
    BY <2>7 DEF DestroyLock
  <2>8. CASE DestroySetStop
    BY <2>8 DEF DestroySetStop
  <2>9. CASE DestroyUnlock
    BY <2>9 DEF DestroyUnlock
  <2>10. CASE DestroyNotifyAll
    BY <2>10 DEF DestroyNotifyAll, Waiting
  <2>11. CASE DestroyJoin
    BY <2>11 DEF DestroyJoin
  <2>12. CASE DestroyReturn
    BY <2>12 DEF DestroyReturn
  <2>13. QED
    BY <1>1, <2>1, <2>2, <2>3, <2>4, <2>5, <2>6, <2>7, <2>8, <2>9, <2>10, <2>11, <2>12
       DEF MainNext
<1>2. ASSUME NEW w \in Workers, WorkerStep(w)
      PROVE  ExitInv'
  <2>1. CASE WorkerLock(w)
    BY <2>1 DEF WorkerLock
  <2>2. CASE WorkerFindsNothing(w)
    BY <2>2 DEF WorkerFindsNothing
  <2>3. CASE WorkerWait(w)
    BY <2>3 DEF WorkerWait
  <2>4. CASE WorkerExit(w)
    BY <2>4 DEF WorkerExit
  <2>5. CASE WorkerPop(w)
    BY <2>5 DEF WorkerPop
  <2>6. CASE WorkerUnlock(w)
    BY <2>6 DEF WorkerUnlock
  <2>7. CASE WorkerRun(w)
    BY <2>7 DEF WorkerRun
  <2>8. QED
    BY <1>2, <2>1, <2>2, <2>3, <2>4, <2>5, <2>6, <2>7 DEF WorkerStep
<1>3. ASSUME NEW w \in Workers, SpuriousWakeup(w)
      PROVE  ExitInv'
  BY <1>3 DEF SpuriousWakeup
<1>4. CASE UNCHANGED vars
  BY <1>4 DEF vars
<1>5. QED
  BY <1>1, <1>2, <1>3, <1>4 DEF Next, Terminated

(* The destructor counts a thread as joined only when it has ended, and a  *)
(* thread that has ended does not start again.                             *)
LEMMA JoinStep == PoolInv /\ [Next]_vars => JoinInv'
<1> SUFFICES ASSUME PoolInv, [Next]_vars
             PROVE  JoinInv'
  OBVIOUS
<1> USE NumWorkersAssumption
    DEF PoolInv, TypeOK, JoinInv, SpawnInv, Workers, NumWorkersAssumption
<1>1. CASE MainNext
  <2>1. CASE Spawn
    BY <2>1 DEF Spawn
  <2>2. CASE Constructed
    BY <2>2 DEF Constructed
  <2>3. CASE EnqueueLock
    BY <2>3 DEF EnqueueLock
  <2>4. CASE EnqueueEmplace
    BY <2>4 DEF EnqueueEmplace
  <2>5. CASE EnqueueUnlock
    BY <2>5 DEF EnqueueUnlock
  <2>6. CASE EnqueueNotify
    BY <2>6 DEF EnqueueNotify, Waiting
  <2>7. CASE DestroyLock
    BY <2>7 DEF DestroyLock
  <2>8. CASE DestroySetStop
    BY <2>8 DEF DestroySetStop
  <2>9. CASE DestroyUnlock
    BY <2>9 DEF DestroyUnlock
  <2>10. CASE DestroyNotifyAll
    BY <2>10 DEF DestroyNotifyAll, Waiting
  <2>11. CASE DestroyJoin
    BY <2>11 DEF DestroyJoin
  <2>12. CASE DestroyReturn
    BY <2>12 DEF DestroyReturn
  <2>13. QED
    BY <1>1, <2>1, <2>2, <2>3, <2>4, <2>5, <2>6, <2>7, <2>8, <2>9, <2>10, <2>11, <2>12
       DEF MainNext
<1>2. ASSUME NEW w \in Workers, WorkerStep(w)
      PROVE  JoinInv'
  <2>1. CASE WorkerLock(w)
    BY <2>1 DEF WorkerLock
  <2>2. CASE WorkerFindsNothing(w)
    BY <2>2 DEF WorkerFindsNothing
  <2>3. CASE WorkerWait(w)
    BY <2>3 DEF WorkerWait
  <2>4. CASE WorkerExit(w)
    BY <2>4 DEF WorkerExit
  <2>5. CASE WorkerPop(w)
    BY <2>5 DEF WorkerPop
  <2>6. CASE WorkerUnlock(w)
    BY <2>6 DEF WorkerUnlock
  <2>7. CASE WorkerRun(w)
    BY <2>7 DEF WorkerRun
  <2>8. QED
    BY <1>2, <2>1, <2>2, <2>3, <2>4, <2>5, <2>6, <2>7 DEF WorkerStep
<1>3. ASSUME NEW w \in Workers, SpuriousWakeup(w)
      PROVE  JoinInv'
  BY <1>3 DEF SpuriousWakeup
<1>4. CASE UNCHANGED vars
  BY <1>4 DEF vars
<1>5. QED
  BY <1>1, <1>2, <1>3, <1>4 DEF Next, Terminated

-----------------------------------------------------------------------------
(* The queue: only enqueue appends, only a worker removes, at the head.    *)
LEMMA FifoStep == PoolInv /\ [Next]_vars => FifoExactlyOnce'
<1> SUFFICES ASSUME PoolInv, [Next]_vars
             PROVE  FifoExactlyOnce'
  OBVIOUS
<1> USE DEF PoolInv, FifoExactlyOnce
<1>1. CASE EnqueueEmplace
  <2>1. /\ Len(tasks') = Len(tasks) + 1
        /\ \A k \in 1..Len(tasks) : tasks'[k] = tasks[k]
        /\ tasks'[Len(tasks) + 1] = enqueued + 1
    BY <1>1, AppendProperties DEF EnqueueEmplace, TypeOK
  <2>2. Len(tasks) \in Nat /\ Len(started) \in Nat /\ enqueued \in Nat
    BY LenProperties DEF TypeOK
  <2>3. started' = started /\ enqueued' = enqueued + 1
    BY <1>1 DEF EnqueueEmplace
  <2>4. ASSUME NEW k \in 1..Len(tasks')
        PROVE  tasks'[k] = Len(started) + k
    <3>1. k \in 1..Len(tasks) \/ k = Len(tasks) + 1
      BY <2>1, <2>2
    <3>2. QED
      BY <2>1, <2>2, <3>1
  <2>5. QED
    BY <2>1, <2>2, <2>3, <2>4
<1>2. ASSUME NEW w \in Workers, WorkerPop(w)
      PROVE  FifoExactlyOnce'
  <2>1. /\ Len(tasks) \in Nat \ {0} /\ Len(started) \in Nat
        /\ Len(tasks') = Len(tasks) - 1
        /\ \A k \in 1..Len(tasks') : tasks'[k] = tasks[k + 1]
    BY <1>2, HeadTailProperties, EmptySeq, LenProperties DEF WorkerPop, TypeOK
  <2>2. /\ Len(started') = Len(started) + 1
        /\ \A k \in 1..Len(started) : started'[k] = started[k]
        /\ started'[Len(started) + 1] = tasks[1]
    BY <1>2, AppendProperties, HeadTailProperties DEF WorkerPop, TypeOK
  <2>3. enqueued' = enqueued
    BY <1>2 DEF WorkerPop
  <2>4. Len(started') + Len(tasks') = enqueued'
    BY <2>1, <2>2, <2>3
  <2>5. ASSUME NEW k \in 1..Len(started')
        PROVE  started'[k] = k
    <3>1. k \in 1..Len(started) \/ k = Len(started) + 1
      BY <2>1, <2>2
    <3>2. tasks[1] = Len(started) + 1
      BY <2>1
    <3>3. QED
      BY <2>1, <2>2, <3>1, <3>2
  <2>6. ASSUME NEW k \in 1..Len(tasks')
        PROVE  tasks'[k] = Len(started') + k
    <3>1. k + 1 \in 1..Len(tasks) /\ tasks'[k] = tasks[k + 1]
      BY <2>1
    <3>2. tasks[k + 1] = Len(started) + (k + 1)
      BY <3>1
    <3>3. QED
      BY <2>1, <2>2, <3>1, <3>2
  <2>7. QED
    BY <2>4, <2>5, <2>6
<1>3. CASE UNCHANGED <<tasks, started, enqueued>>
  BY <1>3
<1>4. QED
  BY <1>1, <1>2, <1>3
     DEF Next, MainNext, WorkerStep, Terminated, vars, Spawn, Constructed,
         EnqueueLock, EnqueueUnlock, EnqueueNotify, DestroyLock,
         DestroySetStop, DestroyUnlock, DestroyNotifyAll, DestroyJoin,
         DestroyReturn, WorkerLock, WorkerFindsNothing, WorkerWait,
         WorkerExit, WorkerUnlock, WorkerRun, SpuriousWakeup

(* A popped task stays with its worker until its call has returned.        *)
LEMMA RunStep == PoolInv /\ [Next]_vars => RunInv'
<1> SUFFICES ASSUME PoolInv, [Next]_vars
             PROVE  RunInv'
  OBVIOUS
<1> USE DEF PoolInv, RunInv
<1>1. ASSUME NEW w \in Workers, WorkerPop(w)
      PROVE  RunInv'
  <2>1. Head(tasks) \in Tasks
    BY <1>1, PopTypes DEF WorkerPop
  <2>2. /\ Len(started') = Len(started) + 1
        /\ \A k \in 1..Len(started) : started'[k] = started[k]
        /\ started'[Len(started) + 1] = Head(tasks)
        /\ Len(started) \in Nat
    BY <1>1, <2>1, AppendProperties, LenProperties DEF WorkerPop, TypeOK
  <2>3. task[w] = NoTask
    BY <1>1 DEF WorkerPop, SlotInv
  <2>4. task'[w] = Head(tasks)
        /\ \A v \in Workers \ {w} : task'[v] = task[v]
    BY <1>1 DEF WorkerPop, TypeOK
  <2>5. finished' = finished
    BY <1>1 DEF WorkerPop
  <2>6. \A k \in 1..Len(started) : started[k] \in Tasks
    BY ElementOfSeq DEF TypeOK
  <2>7. SUFFICES ASSUME NEW k \in 1..Len(started')
                 PROVE  \/ started'[k] \in finished'
                        \/ \E v \in Workers : task'[v] = started'[k]
    OBVIOUS
  <2>8. CASE k = Len(started) + 1
    BY <2>2, <2>4, <2>8
  <2>9. CASE k \in 1..Len(started)
    <3>1. CASE started[k] \in finished
      BY <2>2, <2>5, <2>9, <3>1
    <3>2. ASSUME NEW v \in Workers, task[v] = started[k]
          PROVE  task'[v] = started'[k]
      <4>1. v # w
        BY <2>3, <2>6, <2>9, <3>2 DEF Tasks, NoTask
      <4>2. QED
        BY <2>2, <2>4, <2>9, <3>2, <4>1
    <3>3. QED
      BY <2>9, <3>1, <3>2
  <2>10. QED
    BY <2>2, <2>8, <2>9
<1>2. ASSUME NEW w \in Workers, WorkerRun(w)
      PROVE  RunInv'
  <2>1. \A v \in Workers \ {w} : task'[v] = task[v]
    BY <1>2 DEF WorkerRun, TypeOK
  <2>2. QED
    BY <1>2, <2>1 DEF WorkerRun
<1>3. CASE UNCHANGED <<started, task, finished>>
  BY <1>3
<1>4. QED
  BY <1>1, <1>2, <1>3
     DEF Next, MainNext, WorkerStep, Terminated, vars, Spawn, Constructed,
         EnqueueLock, EnqueueEmplace, EnqueueUnlock, EnqueueNotify,
         DestroyLock, DestroySetStop, DestroyUnlock, DestroyNotifyAll,
         DestroyJoin, DestroyReturn, WorkerLock, WorkerFindsNothing,
         WorkerWait, WorkerExit, WorkerUnlock, SpuriousWakeup

-----------------------------------------------------------------------------
(* Theorems                                                                *)

(* Before the constructor has started a thread, every part holds.          *)
LEMMA InitInv == Init => PoolInv
<1> SUFFICES ASSUME Init
             PROVE  PoolInv
  OBVIOUS
<1> USE NumWorkersAssumption, NumTasksAssumption, MaxSpuriousAssumption
    DEF Init, NumWorkersAssumption, NumTasksAssumption, MaxSpuriousAssumption
<1>1. TypeOK
  <2>1. tasks \in Seq(Tasks) /\ started \in Seq(Tasks)
    BY EmptySeq
  <2>2. workers \in 0..NumWorkers /\ joined \in 0..NumWorkers
        /\ enqueued \in 0..NumTasks /\ spurious \in 0..MaxSpurious
    BY DEF TypeOK
  <2>3. QED
    BY <2>1, <2>2 DEF TypeOK, MainPoints, WorkerPoints
<1>2. MainInv /\ SlotInv /\ SleepInv /\ ExitInv
  BY DEF MainInv, SlotInv, SleepInv, ExitInv
<1>3. LockInv
  BY MainIsNoWorker DEF LockInv
<1>4. SpawnInv
  BY DEF SpawnInv, Workers
<1>5. JoinInv
  BY DEF JoinInv
<1>6. FifoExactlyOnce /\ RunInv
  BY DEF FifoExactlyOnce, RunInv
<1>7. QED
  BY <1>1, <1>2, <1>3, <1>4, <1>5, <1>6 DEF PoolInv

(* Every reachable state of the pool satisfies the inductive invariant.    *)
THEOREM PoolInvariant == Spec => []PoolInv
<1>1. Init => PoolInv
  BY InitInv
<1>2. PoolInv /\ [Next]_vars => PoolInv'
  BY TypeStep, MainStep, SlotStep, LockStep, SpawnStep, SleepStep, ExitStep,
     JoinStep, FifoStep, RunStep DEF PoolInv
<1>3. QED
  BY <1>1, <1>2, PTL DEF Spec

(* Every variable of the pool keeps its type.                              *)
THEOREM PoolTypes == Spec => []TypeOK
<1>1. PoolInv => TypeOK
  BY DEF PoolInv
<1>2. QED
  BY <1>1, PoolInvariant, PTL

(* No task is lost, run twice or taken out of order.                       *)
THEOREM TasksInOrder == Spec => []FifoExactlyOnce
<1>1. PoolInv => FifoExactlyOnce
  BY DEF PoolInv
<1>2. QED
  BY <1>1, PoolInvariant, PTL

(* The wake-up of notify_all reaches every worker: after it none sleeps.   *)
THEOREM NobodySleepsAfterStop == Spec => []NoSleepAfterStop
<1>1. PoolInv => NoSleepAfterStop
  BY DEF PoolInv, MainInv, SleepInv, NoSleepAfterStop
<1>2. QED
  BY <1>1, PoolInvariant, PTL

(* Once every thread has been joined, the last one to look at the queue    *)
(* has seen it empty after the last enqueue, and no task is being run.     *)
LEMMA Drained ==
  ASSUME NumWorkers > 0, PoolInv,
         main \in {"join", "returned"}, joined = workers
  PROVE  /\ finished = Tasks /\ tasks = <<>>
         /\ \A w \in Workers : pc[w] = "exited" /\ task[w] = NoTask
<1> USE DEF PoolInv
<1>1. \A w \in Workers : pc[w] = "exited"
  BY NumWorkersAssumption DEF JoinInv, SpawnInv, Workers, NumWorkersAssumption
<1>2. 1 \in Workers
  BY NumWorkersAssumption DEF Workers, NumWorkersAssumption
<1>3. tasks = <<>>
  BY <1>1, <1>2 DEF ExitInv
<1>4. Len(started) = NumTasks
  <2>1. Len(tasks) = 0 /\ Len(started) \in Nat
    BY <1>3, LenProperties DEF TypeOK
  <2>2. QED
    BY <2>1 DEF FifoExactlyOnce, MainInv
<1>5. \A w \in Workers : task[w] = NoTask
  BY <1>1 DEF SlotInv
<1>6. ASSUME NEW k \in Tasks
      PROVE  k \in finished
  <2>1. k \in 1..Len(started) /\ started[k] = k
    BY <1>4 DEF Tasks, FifoExactlyOnce
  <2>2. k # NoTask
    BY DEF Tasks, NoTask
  <2>3. QED
    BY <1>5, <2>1, <2>2 DEF RunInv
<1>7. QED
  BY <1>1, <1>3, <1>5, <1>6 DEF TypeOK

(* Where there is a worker at all, the destructor returns only when every  *)
(* task has been executed and every thread has ended.                      *)
THEOREM DestructorDrains ==
  ASSUME NumWorkers > 0
  PROVE  Spec => []DrainedOnReturn
<1>1. PoolInv => DrainedOnReturn
  BY Drained DEF DrainedOnReturn, PoolInv, JoinInv
<1>2. QED
  BY <1>1, PoolInvariant, PTL

-----------------------------------------------------------------------------
(* Refinement                                                              *)

(* A step of Main is Submit, BeginClose, EndClose or a stutter.            *)
LEMMA MainRefines ==
  ASSUME PoolInv, MainNext
  PROVE  [Pool!PoolNext]_Pool!poolVars
<1> USE DEF PoolInv, MainInv, Pool!PoolNext, Pool!poolVars
<1>1. CASE EnqueueEmplace
  <2>1. Pool!Submit
    BY <1>1, NumTasksAssumption
       DEF EnqueueEmplace, Pool!Submit, TypeOK, NumTasksAssumption
  <2>2. QED
    BY <2>1
<1>2. CASE DestroySetStop
  <2>1. Pool!BeginClose
    BY <1>2 DEF DestroySetStop, Pool!BeginClose
  <2>2. QED
    BY <2>1
<1>3. CASE DestroyReturn
  <2>1. stop /\ main = "join" /\ joined = workers
    BY <1>3 DEF DestroyReturn
  <2>2. NumWorkers = 0 \/ Pool!Drained
    <3>1. NumWorkers = 0 \/ NumWorkers > 0
      BY NumWorkersAssumption DEF NumWorkersAssumption
    <3>2. QED
      BY <2>1, <3>1, Drained
         DEF Pool!Drained, Pool!Workers, Pool!Tasks, Pool!Idle, Workers, Tasks, NoTask
  <2>3. Pool!EndClose
    BY <1>3, <2>1, <2>2 DEF DestroyReturn, Pool!EndClose
  <2>4. QED
    BY <2>3
<1>4. CASE Spawn \/ Constructed \/ EnqueueLock \/ EnqueueUnlock
           \/ EnqueueNotify \/ DestroyLock \/ DestroyUnlock
           \/ DestroyNotifyAll \/ DestroyJoin
  BY <1>4
     DEF Spawn, Constructed, EnqueueLock, EnqueueUnlock, EnqueueNotify,
         DestroyLock, DestroyUnlock, DestroyNotifyAll, DestroyJoin
<1>5. QED
  BY <1>1, <1>2, <1>3, <1>4 DEF MainNext

(* A pop is Start, the return of a task is Finish, the rest stutters.      *)
LEMMA WorkerRefines ==
  ASSUME PoolInv, NEW w \in Workers, WorkerStep(w) \/ SpuriousWakeup(w)
  PROVE  [Pool!PoolNext]_Pool!poolVars
<1> USE DEF PoolInv, Pool!PoolNext, Pool!poolVars, Pool!Idle, NoTask
<1>1. w \in Pool!Workers
  BY DEF Workers, Pool!Workers
<1>2. CASE WorkerPop(w)
  <2>1. Pool!Start(w)
    BY <1>2 DEF WorkerPop, Pool!Start, SlotInv
  <2>2. QED
    BY <1>1, <2>1
<1>3. CASE WorkerRun(w)
  <2>1. Pool!Finish(w)
    BY <1>3 DEF WorkerRun, Pool!Finish, SlotInv
  <2>2. QED
    BY <1>1, <2>1
<1>4. CASE SpuriousWakeup(w) \/ WorkerLock(w) \/ WorkerFindsNothing(w)
           \/ WorkerWait(w) \/ WorkerExit(w) \/ WorkerUnlock(w)
  BY <1>4
     DEF SpuriousWakeup, WorkerLock, WorkerFindsNothing, WorkerWait,
         WorkerExit, WorkerUnlock
<1>5. QED
  BY <1>2, <1>3, <1>4 DEF WorkerStep

(* Every execution of a pool is one of TaskPool, with any number of        *)
(* workers, none included.                                                 *)
THEOREM PoolRefinement == Spec => Pool!PoolSpec
<1>1. Init => Pool!PoolInit
  BY DEF Init, Pool!PoolInit, Pool!Workers, Pool!Idle, Workers, NoTask
<1>2. PoolInv /\ [Next]_vars => [Pool!PoolNext]_Pool!poolVars
  <2>1. UNCHANGED vars => UNCHANGED Pool!poolVars
    BY DEF vars, Pool!poolVars
  <2>2. QED
    BY <2>1, MainRefines, WorkerRefines DEF Next, Terminated
<1>3. QED
  BY <1>1, <1>2, PoolInvariant, PTL DEF Spec, Pool!PoolSpec

-----------------------------------------------------------------------------
(* No wake-up is lost                                                      *)

(* The workers on their way to the queue can be counted.                   *)
LEMMA LookingIsFinite == IsFiniteSet(Looking) /\ Cardinality(Looking) \in Nat
<1>1. IsFiniteSet(Workers)
  BY NumWorkersAssumption, FS_Interval DEF Workers, NumWorkersAssumption
<1>2. Looking \in SUBSET Workers
  BY DEF Looking
<1>3. QED
  BY <1>1, <1>2, FS_Subset, FS_CardinalityType

(* The places WorkerStep takes a worker to.                                *)
LEMMA Places ==
  /\ "lock" \in WorkerPoints /\ "check" \in WorkerPoints
  /\ "unlock" \in WorkerPoints /\ "run" \in WorkerPoints
  BY DEF WorkerPoints

(* One worker changes its place: it joins those who look, leaves them, or  *)
(* does neither.                                                           *)
LEMMA LookingMoves ==
  ASSUME PoolInv, NEW w \in Workers, NEW p \in WorkerPoints,
         pc' = [pc EXCEPT ![w] = p]
  PROVE  /\ p \in {"lock", "check"} /\ pc[w] \notin {"lock", "check"}
              => Cardinality(Looking') = Cardinality(Looking) + 1
         /\ p \notin {"lock", "check"} /\ pc[w] \in {"lock", "check"}
              => Cardinality(Looking') = Cardinality(Looking) - 1
         /\ (p \in {"lock", "check"} <=> pc[w] \in {"lock", "check"})
              => Cardinality(Looking') = Cardinality(Looking)
<1>1. IsFiniteSet(Looking) /\ Cardinality(Looking) \in Nat
  BY LookingIsFinite
<1>2. \A v \in Workers : pc'[v] = IF v = w THEN p ELSE pc[v]
  BY DEF PoolInv, TypeOK
<1>3. CASE p \in {"lock", "check"} /\ pc[w] \notin {"lock", "check"}
  <2>1. Looking' = Looking \union {w} /\ w \notin Looking
    BY <1>2, <1>3 DEF Looking
  <2>2. Cardinality(Looking') = Cardinality(Looking) + 1
    BY <1>1, <2>1, FS_AddElement
  <2>3. QED
    BY <1>1, <1>3, <2>2
<1>4. CASE p \notin {"lock", "check"} /\ pc[w] \in {"lock", "check"}
  <2>1. Looking' = Looking \ {w} /\ w \in Looking
    BY <1>2, <1>4 DEF Looking
  <2>2. Cardinality(Looking') = Cardinality(Looking) - 1
    BY <1>1, <2>1, FS_RemoveElement
  <2>3. QED
    BY <1>1, <1>4, <2>2
<1>5. CASE p \in {"lock", "check"} <=> pc[w] \in {"lock", "check"}
  <2>1. Looking' = Looking
    BY <1>2, <1>5 DEF Looking
  <2>2. QED
    BY <1>1, <1>5, <2>1
<1>6. QED
  BY <1>3, <1>4, <1>5

(* Who looks and who waits depends on the places of the workers alone.     *)
LEMMA LookingStays ==
  ASSUME pc' = pc
  PROVE  Cardinality(Looking') = Cardinality(Looking) /\ Waiting' = Waiting
  BY DEF Looking, Waiting

(* The steps of Main: an emplace makes up for its task with the            *)
(* notification to come, and that with the worker it wakes.                *)
LEMMA MainConserves ==
  ASSUME PoolInv, WorkConserving, MainNext
  PROVE  WorkConserving'
<1> DEFINE owed == IF main \in {"unlock", "notify"} THEN 1 ELSE 0
<1>1. Cardinality(Looking) \in Nat /\ Len(tasks) \in Nat
  BY LookingIsFinite DEF PoolInv, TypeOK
<1>2. ASSUME Waiting # {} PROVE Len(tasks) <= Cardinality(Looking) + owed
  BY <1>2 DEF WorkConserving
<1>3. CASE Spawn
  <2>1. /\ workers + 1 \in Workers /\ pc[workers + 1] = "unborn"
        /\ pc' = [pc EXCEPT ![workers + 1] = "lock"] /\ UNCHANGED <<main, tasks>>
    <3>1. workers + 1 \in Workers /\ workers + 1 > workers
      BY <1>3, NumWorkersAssumption
         DEF Spawn, Workers, NumWorkersAssumption, PoolInv, TypeOK
    <3>2. QED
      BY <1>3, <3>1 DEF Spawn, PoolInv, SpawnInv
  <2>2. Cardinality(Looking') = Cardinality(Looking) + 1
    BY <1>1, <2>1, Places, LookingMoves
  <2>3. Waiting' = Waiting
    BY <2>1 DEF Waiting, PoolInv, TypeOK
  <2>4. QED
    BY <1>1, <1>2, <2>1, <2>2, <2>3 DEF WorkConserving
<1>4. CASE EnqueueEmplace
  <2>1. /\ main = "emplace" /\ main' = "unlock" /\ pc' = pc
        /\ Len(tasks') = Len(tasks) + 1
    BY <1>4, AppendProperties DEF EnqueueEmplace, PoolInv, TypeOK, MainInv, Tasks
  <2>2. QED
    BY <1>1, <1>2, <2>1, LookingStays DEF WorkConserving
<1>5. CASE EnqueueNotify
  <2>1. main = "notify" /\ main' = "ready" /\ tasks' = tasks
    BY <1>5 DEF EnqueueNotify
  <2>2. CASE Waiting = {} /\ pc' = pc
    BY <2>2, LookingStays DEF WorkConserving
  <2>3. ASSUME NEW w \in Waiting, pc' = [pc EXCEPT ![w] = "lock"]
        PROVE  WorkConserving'
    <3>1. w \in Workers /\ pc[w] = "waiting" /\ Waiting # {}
      BY DEF Waiting
    <3>2. Cardinality(Looking') = Cardinality(Looking) + 1
      BY <1>1, <2>3, <3>1, Places, LookingMoves
    <3>3. QED
      BY <1>1, <1>2, <2>1, <3>1, <3>2 DEF WorkConserving
  <2>4. QED
    BY <1>5, <2>2, <2>3 DEF EnqueueNotify
<1>6. CASE DestroyNotifyAll
  <2>1. Waiting' = {}
    BY <1>6 DEF DestroyNotifyAll, Waiting
  <2>2. QED
    BY <2>1 DEF WorkConserving
<1>7. CASE \/ Constructed \/ EnqueueLock \/ EnqueueUnlock \/ DestroyLock
           \/ DestroySetStop \/ DestroyUnlock \/ DestroyJoin \/ DestroyReturn
  <2>1. /\ pc' = pc /\ tasks' = tasks
        /\ main \in {"unlock", "notify"} <=> main' \in {"unlock", "notify"}
    BY <1>7 DEF Constructed, EnqueueLock, EnqueueUnlock, DestroyLock,
                DestroySetStop, DestroyUnlock, DestroyJoin, DestroyReturn
  <2>2. QED
    BY <2>1, LookingStays DEF WorkConserving
<1>8. QED
  BY <1>3, <1>4, <1>5, <1>6, <1>7 DEF MainNext

(* The steps of a worker: one that leaves those who look takes a task with *)
(* it or has found that there is none.                                     *)
LEMMA WorkerConserves ==
  ASSUME PoolInv, WorkConserving, NEW w \in Workers,
         WorkerStep(w) \/ SpuriousWakeup(w)
  PROVE  WorkConserving'
<1>1. Cardinality(Looking) \in Nat /\ Len(tasks) \in Nat
  BY LookingIsFinite DEF PoolInv, TypeOK
<1>2. main' = main
  BY DEF WorkerStep, WorkerLock, WorkerFindsNothing, WorkerWait, WorkerExit,
         WorkerPop, WorkerUnlock, WorkerRun, SpuriousWakeup
<1>3. \A v \in Workers : v # w => pc'[v] = pc[v]
  BY DEF WorkerStep, WorkerLock, WorkerFindsNothing, WorkerWait, WorkerExit,
         WorkerPop, WorkerUnlock, WorkerRun, SpuriousWakeup, PoolInv, TypeOK
<1>4. CASE WorkerFindsNothing(w) \/ WorkerWait(w) \/ WorkerExit(w)
  <2>1. tasks = <<>> /\ tasks' = tasks
    BY <1>4 DEF WorkerFindsNothing, WorkerWait, WorkerExit, PoolInv, SleepInv
  <2>2. Len(tasks') = 0
    BY <2>1
  <2>3. (Cardinality(Looking) \in Nat)'
    BY LookingIsFinite, PTL
  <2>4. QED
    BY <2>2, <2>3 DEF WorkConserving
<1>5. CASE WorkerPop(w)
  <2>1. /\ pc[w] = "check" /\ pc' = [pc EXCEPT ![w] = "unlock"]
        /\ Len(tasks') = Len(tasks) - 1
    BY <1>5, HeadTailProperties DEF WorkerPop, PoolInv, TypeOK
  <2>2. Cardinality(Looking') = Cardinality(Looking) - 1
    BY <1>1, <2>1, Places, LookingMoves
  <2>3. Waiting' = Waiting
    BY <1>3, <2>1 DEF Waiting, PoolInv, TypeOK
  <2>4. QED
    BY <1>1, <1>2, <2>1, <2>2, <2>3 DEF WorkConserving
<1>6. CASE WorkerLock(w) \/ WorkerUnlock(w) \/ WorkerRun(w) \/ SpuriousWakeup(w)
  <2>1. /\ tasks' = tasks
        /\ \/ pc[w] = "lock" /\ pc' = [pc EXCEPT ![w] = "check"]
           \/ pc[w] = "unlock" /\ pc' = [pc EXCEPT ![w] = "run"]
           \/ pc[w] \in {"run", "waiting"} /\ pc' = [pc EXCEPT ![w] = "lock"]
    BY <1>6 DEF WorkerLock, WorkerUnlock, WorkerRun, SpuriousWakeup
  <2>2. Cardinality(Looking') \in {Cardinality(Looking), Cardinality(Looking) + 1}
    <3>1. CASE pc[w] = "lock" /\ pc' = [pc EXCEPT ![w] = "check"]
      BY <1>1, <3>1, Places, LookingMoves
    <3>2. CASE pc[w] = "unlock" /\ pc' = [pc EXCEPT ![w] = "run"]
      BY <1>1, <3>2, Places, LookingMoves
    <3>3. CASE pc[w] \in {"run", "waiting"} /\ pc' = [pc EXCEPT ![w] = "lock"]
      BY <1>1, <3>3, Places, LookingMoves
    <3>4. QED
      BY <2>1, <3>1, <3>2, <3>3
  <2>3. Waiting' \subseteq Waiting
    BY <1>3, <2>1 DEF Waiting, PoolInv, TypeOK
  <2>4. QED
    BY <1>1, <1>2, <2>1, <2>2, <2>3 DEF WorkConserving
<1>7. QED
  BY <1>4, <1>5, <1>6 DEF WorkerStep

(* No wake-up of the condition variable is lost, and no worker sleeps      *)
(* while a queued task has no worker on its way to it.                     *)
THEOREM NoWakeupLost == Spec => []WorkConserving
<1>1. Init => WorkConserving
  BY DEF Init, WorkConserving, Waiting
<1>2. PoolInv /\ WorkConserving /\ [Next]_vars => WorkConserving'
  <2>1. UNCHANGED vars /\ WorkConserving => WorkConserving'
    BY LookingStays DEF vars, WorkConserving
  <2>2. QED
    BY <2>1, MainConserves, WorkerConserves DEF Next, Terminated
<1>3. QED
  BY <1>1, <1>2, PoolInvariant, PTL DEF Spec

=============================================================================
