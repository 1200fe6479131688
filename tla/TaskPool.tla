------------------------------ MODULE TaskPool ------------------------------
(***************************************************************************)
(* What the class ThreadPool of Lab4/thread_pool.hpp promises its client,  *)
(* with no mutex, condition variable or thread in sight: tasks are taken   *)
(* in the order they were enqueued, each worker runs one task at a time,   *)
(* and the destructor returns only when every task has been executed,      *)
(* provided that there is a worker.                                        *)
(* ThreadPool.tla is shown to implement it; PathPlanning.tla and           *)
(* MatMul.tla are clients written against it.                              *)
(***************************************************************************)
EXTENDS Integers, Sequences

CONSTANTS NumWorkers,   (* size_t num_threads                              *)
          NumTasks      (* number of calls of enqueue the client makes     *)

ASSUME PoolAssumption == NumWorkers \in Nat /\ NumTasks \in Nat

Workers == 1..NumWorkers
Tasks == 1..NumTasks    (* task k is the k-th one enqueued                 *)
Idle == 0               (* the slot of a worker that runs no task          *)

VARIABLES
  queue,      (* the tasks enqueued and not yet taken, oldest first        *)
  enqueued,   (* how many tasks have been enqueued                         *)
  slot,       (* for each worker, the task it runs, or Idle                *)
  finished,   (* the tasks whose call has returned                         *)
  phase       (* "open", then "closing" (~ThreadPool entered), "closed"    *)

poolVars == <<queue, enqueued, slot, finished, phase>>

PoolTypeOK ==
  /\ queue \in Seq(Tasks)
  /\ enqueued \in 0..NumTasks
  /\ slot \in [Workers -> Tasks \union {Idle}]
  /\ finished \in SUBSET Tasks
  /\ phase \in {"open", "closing", "closed"}

PoolInit ==
  /\ queue = <<>>
  /\ enqueued = 0
  /\ slot = [w \in Workers |-> Idle]
  /\ finished = {}
  /\ phase = "open"

(* The client enqueues its next task.                                      *)
Submit ==
  /\ phase = "open"
  /\ enqueued < NumTasks
  /\ queue' = Append(queue, enqueued + 1)
  /\ enqueued' = enqueued + 1
  /\ UNCHANGED <<slot, finished, phase>>

(* A free worker takes the oldest task.                                    *)
Start(w) ==
  /\ queue # <<>>
  /\ slot[w] = Idle
  /\ slot' = [slot EXCEPT ![w] = Head(queue)]
  /\ queue' = Tail(queue)
  /\ UNCHANGED <<enqueued, finished, phase>>

(* The call of the task returns.                                           *)
Finish(w) ==
  /\ slot[w] # Idle
  /\ finished' = finished \union {slot[w]}
  /\ slot' = [slot EXCEPT ![w] = Idle]
  /\ UNCHANGED <<queue, enqueued, phase>>

(* The client, done enqueuing, enters the destructor.                      *)
BeginClose ==
  /\ phase = "open"
  /\ enqueued = NumTasks
  /\ phase' = "closing"
  /\ UNCHANGED <<queue, enqueued, slot, finished>>

(* Nothing is queued and nothing runs.                                     *)
Drained ==
  /\ queue = <<>>
  /\ \A w \in Workers : slot[w] = Idle
  /\ finished = Tasks

(* The destructor returns.  It waits for the workers only: where there are *)
(* none, the tasks are dropped with the queue.                             *)
EndClose ==
  /\ phase = "closing"
  /\ NumWorkers = 0 \/ Drained
  /\ phase' = "closed"
  /\ UNCHANGED <<queue, enqueued, slot, finished>>

PoolNext ==
  \/ Submit
  \/ \E w \in Workers : Start(w)
  \/ \E w \in Workers : Finish(w)
  \/ BeginClose
  \/ EndClose

PoolFairness ==
  /\ \A w \in Workers : WF_poolVars(Start(w)) /\ WF_poolVars(Finish(w))
  /\ WF_poolVars(Submit) /\ WF_poolVars(BeginClose) /\ WF_poolVars(EndClose)

PoolSpec == PoolInit /\ [][PoolNext]_poolVars
FairPoolSpec == PoolSpec /\ PoolFairness

=============================================================================
