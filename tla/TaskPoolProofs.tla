--------------------------- MODULE TaskPoolProofs ---------------------------
(***************************************************************************)
(* What every client of TaskPool.tla may rely on, for every number of      *)
(* workers and tasks: a task that was enqueued is in exactly one place.    *)
(* PathPlanningProofs.tla and MatMulProofs.tla cite these lemmas.          *)
(***************************************************************************)
EXTENDS TaskPool, SequenceTheorems, TLAPS

(* The tasks that have left the queue.                                     *)
NumTaken == enqueued - Len(queue)
Taken == 1..NumTaken

(* The queue holds the last tasks that were enqueued, in their order.      *)
QueueInv ==
  /\ Len(queue) <= enqueued
  /\ \A i \in 1..Len(queue) : queue[i] = NumTaken + i

(* A task that was taken is run by one worker, or has been.                *)
PlaceInv ==
  /\ finished \subseteq Taken
  /\ \A w \in Workers : slot[w] # Idle => slot[w] \in Taken /\ slot[w] \notin finished
  /\ \A v, w \in Workers : slot[v] = slot[w] /\ slot[v] # Idle => v = w
  /\ \A k \in Taken : k \in finished \/ \E w \in Workers : slot[w] = k

TaskInv == PoolTypeOK /\ QueueInv /\ PlaceInv

-----------------------------------------------------------------------------
(* The length of the queue and the number of tasks taken.                  *)
LEMMA TakenIsNat ==
  ASSUME TaskInv
  PROVE  Len(queue) \in Nat /\ enqueued \in Nat /\ NumTaken \in Nat
  BY LenProperties DEF TaskInv, PoolTypeOK, QueueInv, NumTaken

(* Enqueuing adds a task behind the others.                                *)
LEMMA SubmitStep ==
  ASSUME TaskInv, Submit
  PROVE  TaskInv' /\ NumTaken' = NumTaken
<1> USE DEF TaskInv, PoolTypeOK, Submit
<1>1. enqueued + 1 \in Tasks
  BY PoolAssumption DEF PoolAssumption, Tasks
<1>2. /\ queue' \in Seq(Tasks)
      /\ Len(queue') = Len(queue) + 1
      /\ \A i \in 1..Len(queue) : queue'[i] = queue[i]
      /\ queue'[Len(queue) + 1] = enqueued + 1
  BY <1>1, AppendProperties
<1>3. NumTaken' = NumTaken
  BY <1>2, TakenIsNat DEF NumTaken
<1>4. PoolTypeOK'
  BY <1>1, <1>2 DEF Tasks
<1>5. QueueInv'
  <2>1. Len(queue') <= enqueued'
    BY <1>2, TakenIsNat DEF QueueInv
  <2>2. ASSUME NEW i \in 1..Len(queue')
        PROVE  queue'[i] = NumTaken' + i
    <3>1. i \in 1..Len(queue) \/ i = Len(queue) + 1
      BY <1>2, TakenIsNat
    <3>2. i \in 1..Len(queue) => queue[i] = NumTaken + i
      BY DEF QueueInv
    <3>3. NumTaken + (Len(queue) + 1) = enqueued + 1
      BY TakenIsNat DEF NumTaken
    <3>4. QED
      BY <1>2, <1>3, <3>1, <3>2, <3>3
  <2>3. QED
    BY <2>1, <2>2 DEF QueueInv
<1>6. PlaceInv'
  BY <1>3 DEF PlaceInv, Taken
<1>7. QED
  BY <1>3, <1>4, <1>5, <1>6

(* The task a worker takes is the first one that nobody has taken yet.     *)
LEMMA StartStep ==
  ASSUME TaskInv, NEW w \in Workers, Start(w)
  PROVE  TaskInv' /\ NumTaken' = NumTaken + 1 /\ slot'[w] = NumTaken + 1
<1> USE DEF TaskInv, PoolTypeOK, Start
<1>0. NumTaken \in Nat /\ enqueued \in Nat
  BY TakenIsNat
<1>1. Len(queue) \in Nat \ {0}
  BY EmptySeq
<1>2. /\ Head(queue) \in Tasks
      /\ queue' \in Seq(Tasks)
      /\ Len(queue') = Len(queue) - 1
      /\ \A i \in 1..Len(queue') : queue'[i] = queue[i + 1]
  BY HeadTailProperties
<1>3. NumTaken' = NumTaken + 1
  BY <1>1, <1>2, TakenIsNat DEF NumTaken
<1>4. Head(queue) = NumTaken + 1
  BY <1>1 DEF QueueInv
<1>5. PoolTypeOK'
  BY <1>2
<1>6. QueueInv'
  <2>1. Len(queue') <= enqueued'
    BY <1>1, <1>2 DEF QueueInv
  <2>2. ASSUME NEW i \in 1..Len(queue')
        PROVE  queue'[i] = NumTaken' + i
    <3>1. i + 1 \in 1..Len(queue) /\ queue'[i] = queue[i + 1]
      BY <1>1, <1>2
    <3>2. queue[i + 1] = NumTaken + (i + 1)
      BY <3>1 DEF QueueInv
    <3>3. QED
      BY <1>3, <3>1, <3>2, <1>0
  <2>3. QED
    BY <2>1, <2>2 DEF QueueInv
<1>7. PlaceInv'
  <2>1. Taken' = Taken \union {NumTaken + 1} /\ NumTaken + 1 \notin Taken
    BY <1>3, TakenIsNat DEF Taken
  <2>2. NumTaken + 1 # Idle
    BY TakenIsNat DEF Idle
  <2>3. \A v \in Workers : slot'[v] = IF v = w THEN NumTaken + 1 ELSE slot[v]
    BY <1>4
  <2>4. \A v \in Workers : slot[v] # NumTaken + 1
    BY <2>1, <2>2 DEF PlaceInv
  <2>5. finished' \subseteq Taken' /\ NumTaken + 1 \notin finished
    BY <2>1 DEF PlaceInv
  <2>6. \A v \in Workers : slot'[v] # Idle => slot'[v] \in Taken' /\ slot'[v] \notin finished'
    BY <2>1, <2>3, <2>5 DEF PlaceInv
  <2>7. \A u, v \in Workers : slot'[u] = slot'[v] /\ slot'[u] # Idle => u = v
    BY <2>3, <2>4 DEF PlaceInv
  <2>8. \A k \in Taken' : k \in finished' \/ \E v \in Workers : slot'[v] = k
    <3>1. \A k \in Taken : k # Idle
      BY <1>0 DEF Taken, Idle
    <3>2. ASSUME NEW k \in Taken
          PROVE  k \in finished \/ \E v \in Workers : slot'[v] = k
      <4>1. k \in finished \/ \E v \in Workers : slot[v] = k
        BY DEF PlaceInv
      <4>2. ASSUME NEW v \in Workers, slot[v] = k
            PROVE  slot'[v] = k
        BY <2>3, <3>1, <4>2
      <4>3. QED
        BY <4>1, <4>2
    <3>3. slot'[w] = NumTaken + 1
      BY <2>3
    <3>4. QED
      BY <2>1, <3>2, <3>3
  <2>9. QED
    BY <2>5, <2>6, <2>7, <2>8 DEF PlaceInv
<1>8. slot'[w] = NumTaken + 1
  BY <1>4
<1>9. QED
  BY <1>3, <1>5, <1>6, <1>7, <1>8

(* A task that returns leaves its worker and is finished.                  *)
LEMMA FinishStep ==
  ASSUME TaskInv, NEW w \in Workers, Finish(w)
  PROVE  TaskInv' /\ NumTaken' = NumTaken
<1> USE DEF TaskInv, PoolTypeOK, Finish
<1>1. NumTaken' = NumTaken
  BY DEF NumTaken
<1>2. PoolTypeOK'
  BY DEF Idle
<1>3. QueueInv'
  BY <1>1 DEF QueueInv
<1>4. PlaceInv'
  BY <1>1 DEF PlaceInv, Taken
<1>5. QED
  BY <1>1, <1>2, <1>3, <1>4

(* Nothing else moves a task.                                              *)
LEMMA PoolStutter ==
  ASSUME TaskInv, BeginClose \/ EndClose \/ UNCHANGED poolVars
  PROVE  TaskInv' /\ NumTaken' = NumTaken
<1>1. UNCHANGED <<queue, enqueued, slot, finished>> /\ phase' \in {"open", "closing", "closed"}
  BY DEF TaskInv, PoolTypeOK, BeginClose, EndClose, poolVars
<1>2. NumTaken' = NumTaken
  BY <1>1 DEF NumTaken
<1>3. QED
  BY <1>1, <1>2 DEF TaskInv, PoolTypeOK, QueueInv, PlaceInv, Taken

(* At first there is no task.                                              *)
LEMMA PoolStarts == PoolInit => TaskInv
<1> SUFFICES ASSUME PoolInit
             PROVE  TaskInv
  OBVIOUS
<1>1. queue = <<>> /\ enqueued = 0
  BY DEF PoolInit
<1>2. Len(queue) = 0 /\ queue \in Seq(Tasks)
  BY <1>1, EmptySeq
<1>3. enqueued - Len(queue) = 0
  <2>1. enqueued = 0 /\ Len(queue) = 0
    BY <1>1, <1>2
  <2>2. \A m, n \in Int : m = 0 /\ n = 0 => m - n = 0
    OBVIOUS
  <2>3. QED
    BY <2>1, <2>2
<1>4. NumTaken = 0
  BY <1>3 DEF NumTaken
<1>5. Taken = {}
  BY <1>4 DEF Taken
<1>6. QED
  BY <1>1, <1>2, <1>4, <1>5, PoolAssumption
     DEF PoolInit, TaskInv, PoolTypeOK, QueueInv, PlaceInv, PoolAssumption, Idle

(* A task that was enqueued is queued, run by one worker, or finished,     *)
(* whatever the client does.                                               *)
THEOREM TaskIsInOnePlace == PoolSpec => []TaskInv
<1>1. TaskInv /\ [PoolNext]_poolVars => TaskInv'
  BY SubmitStep, StartStep, FinishStep, PoolStutter DEF PoolNext
<1>2. QED
  BY <1>1, PoolStarts, PTL DEF PoolSpec

=============================================================================
