----------------------------- MODULE ThreadPool -----------------------------
(***************************************************************************)
(* The class ThreadPool of Lab4/thread_pool.hpp, one action per step that  *)
(* another thread can observe: every lock and unlock of queue_mutex, every *)
(* access to tasks and stop, the wait on the condition variable (which     *)
(* releases the mutex and blocks in one step), its notifications, its      *)
(* spurious wake-ups, and the joins of the destructor.                     *)
(*                                                                         *)
(* One thread, Main, constructs the pool, calls enqueue NumTasks times and *)
(* destroys it, as multiply_thread_pool (Lab4/matmul.cpp) and              *)
(* multithread_path_plan (Lab4/path_planning.cpp) do.  The body of a task  *)
(* is one step here; the modules of those clients open it.                 *)
(***************************************************************************)
EXTENDS Integers, Sequences, FiniteSets

CONSTANTS NumWorkers,   (* size_t num_threads, 0 included: the clients     *)
                        (* pass std::thread::hardware_concurrency()        *)
          NumTasks,     (* number of calls of enqueue                      *)
          MaxSpurious   (* bound: how many wake-ups may be spurious        *)

ASSUME NumWorkersAssumption == NumWorkers \in Nat
ASSUME NumTasksAssumption == NumTasks \in Nat
ASSUME MaxSpuriousAssumption == MaxSpurious \in Nat

Workers == 1..NumWorkers
Tasks == 1..NumTasks    (* task k is the one of the k-th call of enqueue   *)
NoTask == 0             (* an empty std::function                          *)
Main == 0
Nobody == -1            (* no thread owns the mutex                        *)

VARIABLES
  workers,      (* size of the vector workers: the threads started         *)
  tasks,        (* the queue tasks                                         *)
  queue_mutex,  (* the thread that owns queue_mutex, or Nobody             *)
  stop,         (* the flag stop                                           *)
  main,         (* where Main is                                           *)
  joined,       (* how many workers the destructor has joined              *)
  pc,           (* where each worker is in worker_thread                   *)
  task,         (* the local variable task of each worker                  *)
  enqueued,     (* history: how many tasks have been emplaced              *)
  started,      (* history: the tasks popped, in order                     *)
  finished,     (* history: the tasks whose call has returned              *)
  spurious      (* how many spurious wake-ups have happened                *)

vars == <<workers, tasks, queue_mutex, stop, main, joined, pc, task,
          enqueued, started, finished, spurious>>

mainVars == <<workers, stop, main, joined, enqueued>>
taskVars == <<task, started, finished, spurious>>

(* The threads blocked in condition.wait.                                  *)
Waiting == {w \in Workers : pc[w] = "waiting"}

MainPoints == {"construct", "ready", "emplace", "unlock", "notify",
               "set_stop", "unlock_stop", "notify_all", "join", "returned"}
WorkerPoints == {"unborn", "lock", "check", "wait", "waiting", "unlock",
                 "run", "exited"}

TypeOK ==
  /\ workers \in 0..NumWorkers
  /\ tasks \in Seq(Tasks)
  /\ queue_mutex \in Workers \union {Main, Nobody}
  /\ stop \in BOOLEAN
  /\ main \in MainPoints
  /\ joined \in 0..NumWorkers
  /\ pc \in [Workers -> WorkerPoints]
  /\ task \in [Workers -> Tasks \union {NoTask}]
  /\ enqueued \in 0..NumTasks
  /\ started \in Seq(Tasks)
  /\ finished \in SUBSET Tasks
  /\ spurious \in 0..MaxSpurious

Init ==
  /\ workers = 0
  /\ tasks = <<>>
  /\ queue_mutex = Nobody
  /\ stop = FALSE
  /\ main = "construct"
  /\ joined = 0
  /\ pc = [w \in Workers |-> "unborn"]
  /\ task = [w \in Workers |-> NoTask]
  /\ enqueued = 0
  /\ started = <<>>
  /\ finished = {}
  /\ spurious = 0

-----------------------------------------------------------------------------
(* std::mutex                                                              *)

Acquire(t) == queue_mutex = Nobody /\ queue_mutex' = t
Release(t) == queue_mutex = t /\ queue_mutex' = Nobody

-----------------------------------------------------------------------------
(* ThreadPool::ThreadPool                                                  *)

(* The condition of the loop.  Mutant: i <= num_threads.                   *)
MoreOrEqual == workers <= NumWorkers
MoreToStart == workers < NumWorkers

(* One iteration of the loop: a worker starts running at once, while the   *)
(* constructor goes on with the next one.                                  *)
Spawn ==
  /\ main = "construct"
  /\ MoreToStart
  /\ workers' = workers + 1
  /\ pc' = [pc EXCEPT ![workers + 1] = "lock"]
  /\ UNCHANGED <<taskVars, tasks, queue_mutex, stop, main, joined, enqueued>>

Constructed ==
  /\ main = "construct"
  /\ workers = NumWorkers
  /\ main' = "ready"
  /\ UNCHANGED <<taskVars, workers, tasks, queue_mutex, stop, joined, pc, enqueued>>

-----------------------------------------------------------------------------
(* ThreadPool::enqueue                                                     *)

EnqueueLock ==
  /\ main = "ready"
  /\ enqueued < NumTasks
  /\ Acquire(Main)
  /\ main' = "emplace"
  /\ UNCHANGED <<taskVars, workers, tasks, stop, joined, pc, enqueued>>

(* tasks.emplace().  Mutant: the newest task is run first.                 *)
InFront == <<enqueued + 1>> \o tasks
AtTheEnd == Append(tasks, enqueued + 1)

EnqueueEmplace ==
  /\ main = "emplace"
  /\ tasks' = AtTheEnd
  /\ enqueued' = enqueued + 1
  /\ main' = "unlock"
  /\ UNCHANGED <<taskVars, workers, queue_mutex, stop, joined, pc>>

EnqueueUnlock ==
  /\ main = "unlock"
  /\ Release(Main)
  /\ main' = "notify"
  /\ UNCHANGED <<taskVars, workers, tasks, stop, joined, pc, enqueued>>

(* Mutant: enqueue notifies nobody.                                        *)
ForgetToNotify ==
  /\ main = "notify"
  /\ main' = "ready"
  /\ UNCHANGED <<taskVars, workers, tasks, queue_mutex, stop, joined, pc, enqueued>>

(* notify_one wakes one of the waiting threads, if there is any; it then   *)
(* has to take the mutex again.                                            *)
EnqueueNotify ==
  /\ main = "notify"
  /\ main' = "ready"
  /\ \/ Waiting = {} /\ pc' = pc
     \/ \E w \in Waiting : pc' = [pc EXCEPT ![w] = "lock"]
  /\ UNCHANGED <<taskVars, workers, tasks, queue_mutex, stop, joined, enqueued>>

-----------------------------------------------------------------------------
(* ThreadPool::~ThreadPool                                                 *)

(* Mutant: stop is set without the mutex.                                  *)
SetStopUnlocked ==
  /\ main = "ready"
  /\ enqueued = NumTasks
  /\ stop' = TRUE
  /\ main' = "notify_all"
  /\ UNCHANGED <<taskVars, workers, tasks, queue_mutex, joined, pc, enqueued>>

DestroyLock ==
  /\ main = "ready"
  /\ enqueued = NumTasks
  /\ Acquire(Main)
  /\ main' = "set_stop"
  /\ UNCHANGED <<taskVars, workers, tasks, stop, joined, pc, enqueued>>

DestroySetStop ==
  /\ main = "set_stop"
  /\ stop' = TRUE
  /\ main' = "unlock_stop"
  /\ UNCHANGED <<taskVars, workers, tasks, queue_mutex, joined, pc, enqueued>>

DestroyUnlock ==
  /\ main = "unlock_stop"
  /\ Release(Main)
  /\ main' = "notify_all"
  /\ UNCHANGED <<taskVars, workers, tasks, stop, joined, pc, enqueued>>

DestroyNotifyAll ==
  /\ main = "notify_all"
  /\ pc' = [w \in Workers |-> IF w \in Waiting THEN "lock" ELSE pc[w]]
  /\ main' = "join"
  /\ UNCHANGED <<taskVars, workers, tasks, queue_mutex, stop, joined, enqueued>>

(* worker.join() of the next element of the vector.                        *)
DestroyJoin ==
  /\ main = "join"
  /\ joined < workers
  /\ pc[joined + 1] = "exited"
  /\ joined' = joined + 1
  /\ UNCHANGED <<taskVars, workers, tasks, queue_mutex, stop, main, pc, enqueued>>

DestroyReturn ==
  /\ main = "join"
  /\ joined = workers
  /\ main' = "returned"
  /\ UNCHANGED <<taskVars, workers, tasks, queue_mutex, stop, joined, pc, enqueued>>

-----------------------------------------------------------------------------
(* ThreadPool::worker_thread                                               *)

(* The constructor of the unique_lock, or the end of condition.wait, which *)
(* takes the mutex back: both go on to the condition of the while.         *)
WorkerLock(w) ==
  /\ pc[w] = "lock"
  /\ Acquire(w)
  /\ pc' = [pc EXCEPT ![w] = "check"]
  /\ UNCHANGED <<mainVars, taskVars, tasks>>

(* The condition of the while.  Mutant: stop is not looked at.             *)
QueueEmpty == tasks = <<>>
MustWait == ~stop /\ tasks = <<>>

(* The while loop is entered.                                              *)
WorkerFindsNothing(w) ==
  /\ pc[w] = "check"
  /\ MustWait
  /\ pc' = [pc EXCEPT ![w] = "wait"]
  /\ UNCHANGED <<mainVars, taskVars, tasks, queue_mutex>>

(* condition.wait releases the mutex and blocks, atomically.               *)
WorkerWait(w) ==
  /\ pc[w] = "wait"
  /\ Release(w)
  /\ pc' = [pc EXCEPT ![w] = "waiting"]
  /\ UNCHANGED <<mainVars, taskVars, tasks>>

SpuriousWakeup(w) ==
  /\ pc[w] = "waiting"
  /\ spurious < MaxSpurious
  /\ spurious' = spurious + 1
  /\ pc' = [pc EXCEPT ![w] = "lock"]
  /\ UNCHANGED <<mainVars, tasks, queue_mutex, task, started, finished>>

(* Mutant: stop alone makes a worker leave.                                *)
Stopped == stop
MayExit == stop /\ tasks = <<>>

(* stop is set and the queue is empty: the unique_lock unlocks, the thread *)
(* ends.                                                                   *)
WorkerExit(w) ==
  /\ pc[w] = "check"
  /\ MayExit
  /\ Release(w)
  /\ pc' = [pc EXCEPT ![w] = "exited"]
  /\ UNCHANGED <<mainVars, taskVars, tasks>>

(* tasks.pop().  Mutant: it is left out.                                   *)
NotPopped == tasks
Popped == Tail(tasks)

WorkerPop(w) ==
  /\ pc[w] = "check"
  /\ tasks # <<>>
  /\ task' = [task EXCEPT ![w] = Head(tasks)]
  /\ started' = Append(started, Head(tasks))
  /\ tasks' = Popped
  /\ pc' = [pc EXCEPT ![w] = "unlock"]
  /\ UNCHANGED <<mainVars, queue_mutex, finished, spurious>>

WorkerUnlock(w) ==
  /\ pc[w] = "unlock"
  /\ Release(w)
  /\ pc' = [pc EXCEPT ![w] = "run"]
  /\ UNCHANGED <<mainVars, taskVars, tasks>>

(* task() runs and returns; the next iteration starts with an empty task.  *)
WorkerRun(w) ==
  /\ pc[w] = "run"
  /\ finished' = finished \union {task[w]}
  /\ task' = [task EXCEPT ![w] = NoTask]
  /\ pc' = [pc EXCEPT ![w] = "lock"]
  /\ UNCHANGED <<mainVars, tasks, queue_mutex, started, spurious>>

-----------------------------------------------------------------------------
MainNext ==
  \/ Spawn \/ Constructed
  \/ EnqueueLock \/ EnqueueEmplace \/ EnqueueUnlock \/ EnqueueNotify
  \/ DestroyLock \/ DestroySetStop \/ DestroyUnlock \/ DestroyNotifyAll
  \/ DestroyJoin \/ DestroyReturn

WorkerStep(w) ==
  \/ WorkerLock(w) \/ WorkerFindsNothing(w) \/ WorkerWait(w)
  \/ WorkerExit(w) \/ WorkerPop(w) \/ WorkerUnlock(w) \/ WorkerRun(w)

(* The program is over once the destructor has returned.                   *)
Terminated == main = "returned" /\ UNCHANGED vars

Next ==
  \/ MainNext
  \/ \E w \in Workers : WorkerStep(w) \/ SpuriousWakeup(w)
  \/ Terminated

(* Every thread that can go on does so in the end; nothing makes a         *)
(* spurious wake-up happen.  Weak fairness is enough for the mutex: with   *)
(* finitely many spurious wake-ups a thread cannot take it for ever.       *)
Fairness == WF_vars(MainNext) /\ \A w \in Workers : WF_vars(WorkerStep(w))

Spec == Init /\ [][Next]_vars
FairSpec == Spec /\ Fairness

-----------------------------------------------------------------------------
(* Properties                                                              *)

(* enqueue and worker_thread: no task is lost, none is run twice and they  *)
(* leave the queue in the order of the calls of enqueue: what was popped,  *)
(* followed by what is queued, is 1, 2, ..., enqueued.                     *)
FifoExactlyOnce ==
  /\ Len(started) + Len(tasks) = enqueued
  /\ \A k \in 1..Len(started) : started[k] = k
  /\ \A k \in 1..Len(tasks) : tasks[k] = Len(started) + k

(* The workers that are on their way to look at the queue.                 *)
Looking == {w \in Workers : pc[w] \in {"lock", "check"}}

(* enqueue notifies after it unlocks, and a worker may find the queue      *)
(* empty just before: still, while a worker sleeps in condition.wait every *)
(* queued task has a worker of its own on the way to the queue, or the     *)
(* notification for it is about to be sent.  So no wake-up is lost, and no *)
(* worker sleeps while a task has to wait for a busy one.                  *)
WorkConserving ==
  Waiting # {} =>
    Len(tasks) <= Cardinality(Looking)
                  + (IF main \in {"unlock", "notify"} THEN 1 ELSE 0)

(* ~ThreadPool: from notify_all on, no worker sleeps or is about to.       *)
NoSleepAfterStop ==
  main \in {"join", "returned"} =>
    \A w \in Workers : pc[w] \notin {"wait", "waiting"}

(* "The destructor of the ThreadPool class will wait for all tasks to      *)
(* finish" (Lab4/matmul.cpp): when it returns every task has been run to   *)
(* its end and every worker has left worker_thread, so that the members it *)
(* then destroys have no user left.                                        *)
DrainedOnReturn ==
  main = "returned" => /\ finished = Tasks
                       /\ \A w \in Workers : pc[w] = "exited"

(* The destructor does return: no interleaving leaves a worker asleep, or  *)
(* Main waiting for a mutex or for a thread that never ends.               *)
DestructorReturns == <>(main = "returned")

-----------------------------------------------------------------------------
(* The promise of the class: seen through the queue, the tasks the workers *)
(* hold and the progress of the destructor, every execution is one of      *)
(* TaskPool.  A task counts as taken as soon as it is popped.              *)
Pool == INSTANCE TaskPool WITH
  queue <- tasks,
  slot <- task,
  phase <- IF ~stop THEN "open"
           ELSE IF main = "returned" THEN "closed" ELSE "closing"

(* Every step of the pool is a step of TaskPool or changes nothing there,  *)
(* and the pool keeps the liveness promises of TaskPool.                   *)
ImplementsPool == Pool!FairPoolSpec

=============================================================================
