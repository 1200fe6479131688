---------------------------- MODULE PathPlanning ----------------------------
(***************************************************************************)
(* The program Lab4/path_planning.cpp.  In its modes INPUT and RANDOM Main *)
(* enqueues one task per pair of coordinates on a ThreadPool (here its     *)
(* promise, TaskPool), then collects the paths through a queue guarded by  *)
(* a mutex and counted by a semaphore, and draws each one into the map the *)
(* other tasks are still reading.  In its mode SINGLE there is one pair,   *)
(* and Main calls find_path itself.                                        *)
(*                                                                         *)
(* find_path is seen from the outside: it reads the map while Main writes  *)
(* it, one neighbour of a visited cell after the other, visits the cells   *)
(* in any order and returns some simple path through them.  Which one, and *)
(* that it is a shortest one, is the business of PathPlanner.tla.          *)
(***************************************************************************)
EXTENDS TaskPool, FiniteSets

CONSTANTS Rows, Cols,     (* the size of the map                           *)
          LabelModulus,   (* the 255 of threads_finished % 255             *)
          Scenes          (* the inputs: the numbers in the file of the    *)
                          (* map and, for each task, the start and the     *)
                          (* goal                                          *)

Cells == (0..Rows - 1) \X (0..Cols - 1)
Coordinates == (-1..Rows) \X (-1..Cols)
CellValues == LabelModulus + 1        (* the 256 values of a uint8_t       *)

ASSUME SizeAssumption == Rows \in Nat \ {0} /\ Cols \in Nat \ {0}
ASSUME LabelAssumption == LabelModulus \in Nat /\ LabelModulus > 2
ASSUME ScenesAssumption ==
  \A s \in Scenes : /\ s.map \in [Cells -> Int]
                    /\ s.start \in [Tasks -> Coordinates]
                    /\ s.goal \in [Tasks -> Coordinates]

Main == 0
Nobody == -1
Threads == {Main} \union Workers

VARIABLES
  scene,            (* the input                                           *)
  mode,             (* enum Mode                                           *)
  map,              (* path_planner.map                                    *)
  mutex,            (* the thread that owns mutex, or Nobody               *)
  sem,              (* the counter of sem                                  *)
  paths,            (* the queue paths, the plan of each path beside it    *)
  main,             (* where Main is                                       *)
  threads_finished,
  drawing,          (* what Main has still to draw of its variable path    *)
  pc,               (* where each thread is in find_path or its task       *)
  reached,          (* per thread: the cells pushed by find_path           *)
  expanded,         (* per thread: the cells visited by find_path          *)
  looking,          (* per thread: what get_neighbors has still to read    *)
  result,           (* what the find_path of each plan has returned        *)
  drawn             (* history: the plans drawn, and their thread_id       *)

inputVars == <<scene, mode>>
loopVars == <<threads_finished, drawing, drawn>>
mainVars == <<main, loopVars>>
searchVars == <<reached, expanded, looking, result>>
syncVars == <<mutex, sem, paths>>
vars == <<poolVars, inputVars, map, mainVars, pc, searchVars, syncVars>>

NoPath == <<>>

-----------------------------------------------------------------------------
(* The grid                                                                *)

(* West, east, north and south.                                            *)
Neighbours(c) ==
  {d \in Cells : \/ d[1] = c[1] /\ d[2] \in {c[2] - 1, c[2] + 1}
                 \/ d[2] = c[2] /\ d[1] \in {c[1] - 1, c[1] + 1}}

CellsOf(p) == {p[i] : i \in 1..Len(p)}

(* For each cell, the simple paths that leave it, the cell itself omitted. *)
PathsFrom ==
  [c \in Cells |->
    {p \in UNION {[1..n -> Cells \ {c}] : n \in 1..(Rows * Cols - 1)} :
       /\ p[1] \in Neighbours(c)
       /\ \A i \in 1..(Len(p) - 1) : p[i + 1] \in Neighbours(p[i])
       /\ Cardinality(CellsOf(p)) = Len(p)}]

Routes(from, to, through) ==
  {p \in PathsFrom[from] : p[Len(p)] = to /\ CellsOf(p) \subseteq through}

Free(m) == {c \in Cells : m[c] # 0}

(* Mutant: the numbers in the file are stored as they are.                 *)
read_uncast(m) == m

(* read_map casts the int it has read to a uint8_t.                        *)
read_map(m) == [c \in Cells |-> m[c] % CellValues]
Original == read_map(scene.map)

-----------------------------------------------------------------------------
PlanningTypeOK ==
  /\ PoolTypeOK
  /\ scene \in Scenes /\ mode \in {"INPUT", "RANDOM", "SINGLE"}
  /\ map \in [Cells -> 0..CellValues - 1]
  /\ mutex \in Threads \union {Nobody}
  /\ sem \in 0..NumTasks
  /\ \A i \in 1..Len(paths) : /\ paths[i].plan \in Tasks
                              /\ paths[i].cells = result[paths[i].plan]
  /\ main \in {"read", "enqueue", "loop", "lock", "take", "draw",
               "closing", "convert", "single",
               "rejected", "no path", "done"}
  /\ threads_finished \in 0..NumTasks
  /\ CellsOf(drawing) \subseteq Cells
  /\ pc \in [Threads -> {"idle", "find", "explore", "found", "push",
                         "release", "wake", "return"}]
  /\ \A t \in Threads : expanded[t] \subseteq reached[t] /\ reached[t] \subseteq Cells
  /\ looking \in [Threads -> SUBSET Cells]
  /\ \A k \in Tasks : CellsOf(result[k]) \subseteq Cells

EndsFree(s) ==
  \A k \in Tasks : {s.start[k], s.goal[k]} \subseteq Free(read_map(s.map))

(* RANDOM draws coordinates until they are free; the others take what they *)
(* get.  In SINGLE mode Main is about to call find_path for the first, and *)
(* only, plan.                                                             *)
Init ==
  /\ PoolInit
  /\ scene \in Scenes
  /\ mode \in {"INPUT", "RANDOM", "SINGLE"}
  /\ mode = "RANDOM" => EndsFree(scene)
  /\ mode = "SINGLE" => NumTasks > 0
  /\ map = Original
  /\ mutex = Nobody /\ sem = 0 /\ paths = <<>>
  /\ main = (IF mode = "SINGLE" THEN "single" ELSE "read")
  /\ threads_finished = 0
  /\ drawing = NoPath
  /\ pc = [t \in Threads |-> IF t = Main /\ mode = "SINGLE" THEN "find" ELSE "idle"]
  /\ reached = [t \in Threads |-> {}]
  /\ expanded = [t \in Threads |-> {}]
  /\ looking = [t \in Threads |-> {}]
  /\ result = [k \in Tasks |-> NoPath]
  /\ drawn = <<>>

-----------------------------------------------------------------------------
(* find_path                                                               *)

Plan(t) == IF t = Main THEN 1 ELSE slot[t]
From(t) == scene.start[Plan(t)]
To(t) == scene.goal[Plan(t)]

Goto(t, to) == pc' = [pc EXCEPT ![t] = to]

(* find_path returns p.                                                    *)
Returns(t, p) ==
  /\ result' = [result EXCEPT ![Plan(t)] = p]
  /\ reached' = [reached EXCEPT ![t] = {}]
  /\ expanded' = [expanded EXCEPT ![t] = {}]
  /\ Goto(t, "found")
  /\ UNCHANGED looking

(* The checks before the search: no path from or to a place off the map or *)
(* an obstacle.                                                            *)
FindPathChecks(t) ==
  /\ pc[t] = "find"
  /\ IF {From(t), To(t)} \subseteq Free(map)
     THEN /\ reached' = [reached EXCEPT ![t] = {From(t)}]
          /\ Goto(t, "explore")
          /\ UNCHANGED <<expanded, looking, result>>
     ELSE Returns(t, NoPath)

(* What find_path still has to look at.                                    *)
(* Mutant: it does not remember what it has visited.                       *)
AllReached(t) == reached[t]
Unvisited(t) == reached[t] \ expanded[t]

(* The loop of find_path takes the next node from its queue: get_neighbors *)
(* has returned.                                                           *)
Pops(t) == pc[t] = "explore" /\ looking[t] = {}

(* A cell other than the goal is visited, and get_neighbors called.        *)
Explore(t) ==
  /\ Pops(t)
  /\ \E c \in Unvisited(t) \ {To(t)} :
       /\ expanded' = [expanded EXCEPT ![t] = @ \union {c}]
       /\ looking' = [looking EXCEPT ![t] = Neighbours(c)]
  /\ UNCHANGED <<pc, reached, result>>

(* get_neighbors reads one cell of the map, without a lock.                *)
ReadNeighbour(t) ==
  /\ \E d \in looking[t] :
       /\ looking' = [looking EXCEPT ![t] = @ \ {d}]
       /\ reached' = [reached EXCEPT ![t] = @ \union ({d} \intersect Free(map))]
  /\ UNCHANGED <<pc, expanded, result>>

(* The goal is taken from the queue: the path is read off the parents.  It *)
(* is empty when the goal is the start.                                    *)
FindsGoal(t) ==
  /\ Pops(t)
  /\ To(t) \in reached[t]
  /\ \/ From(t) = To(t) /\ Returns(t, NoPath)
     \/ \E p \in Routes(From(t), To(t), expanded[t] \union {To(t)}) : Returns(t, p)

(* The queue of find_path is empty.                                        *)
FindsNoPath(t) ==
  /\ Pops(t)
  /\ Unvisited(t) = {}
  /\ Returns(t, NoPath)

Search(t) ==
  /\ \/ FindPathChecks(t) \/ Explore(t) \/ ReadNeighbour(t)
     \/ FindsGoal(t) \/ FindsNoPath(t)
  /\ UNCHANGED <<poolVars, syncVars>>

-----------------------------------------------------------------------------
(* path_planner_worker_thread                                              *)

(* A worker of the pool calls the task.                                    *)
TakePlan(w) ==
  /\ Start(w)
  /\ Goto(w, "find")
  /\ UNCHANGED syncVars

LockPaths(w) ==
  /\ pc[w] = "found" /\ mutex = Nobody
  /\ mutex' = w
  /\ Goto(w, "push")
  /\ UNCHANGED <<poolVars, sem, paths>>

(* An empty path is not pushed; the semaphore is released all the same.    *)
PushPath(w) ==
  LET p == result[slot[w]] IN
  /\ pc[w] = "push"
  /\ paths' = IF p = NoPath THEN paths
              ELSE Append(paths, [plan |-> slot[w], cells |-> p])
  /\ Goto(w, "release")
  /\ UNCHANGED <<poolVars, mutex, sem>>

(* sem.release() adds to the counter, then wakes the waiting thread: Main  *)
(* may go on while the call still uses the semaphore.                      *)
ReleaseAdds(w) ==
  /\ pc[w] = "release"
  /\ sem' = sem + 1
  /\ Goto(w, "wake")
  /\ UNCHANGED <<poolVars, mutex, paths>>

ReleaseWakes(w) ==
  /\ pc[w] = "wake"
  /\ Goto(w, "return")
  /\ UNCHANGED <<poolVars, syncVars>>

(* The lock_guard unlocks, the last thing the task does.                   *)
TaskReturns(w) ==
  /\ pc[w] = "return"
  /\ mutex' = Nobody
  /\ Finish(w)
  /\ Goto(w, "idle")
  /\ UNCHANGED <<sem, paths>>

Task(w) ==
  /\ \/ TakePlan(w) \/ LockPaths(w) \/ PushPath(w)
     \/ ReleaseAdds(w) \/ ReleaseWakes(w) \/ TaskReturns(w)
  /\ UNCHANGED searchVars

-----------------------------------------------------------------------------
(* main and multithread_path_plan                                          *)

(* The condition of the for loop that enqueues, after n of the plans.      *)
AfterEnqueuing(n) == IF n < NumTasks THEN "enqueue" ELSE "loop"

(* INPUT refuses coordinates off the map and blocked ones, before it       *)
(* starts any thread.                                                      *)
ReadCoordinates ==
  /\ main = "read"
  /\ main' = IF mode = "INPUT" /\ ~EndsFree(scene) THEN "rejected"
             ELSE AfterEnqueuing(0)
  /\ UNCHANGED <<poolVars, map, syncVars, loopVars>>

EnqueuePlan ==
  /\ main = "enqueue"
  /\ Submit
  /\ main' = AfterEnqueuing(enqueued')
  /\ UNCHANGED <<map, syncVars, loopVars>>

(* The condition of the while.  Mutant: one plan too few.                  *)
MoreButOne == threads_finished + 1 < NumTasks
MorePlans == threads_finished < NumTasks

(* sem.acquire() waits.  Mutant: try_acquire, its result ignored.          *)
NoNeedToWait == TRUE
HasPermit == sem > 0

AcquirePermit ==
  /\ main = "loop" /\ MorePlans
  /\ HasPermit
  /\ sem' = sem - 1
  /\ threads_finished' = threads_finished + 1
  /\ main' = "lock"
  /\ UNCHANGED <<poolVars, map, mutex, paths, drawing, drawn>>

LockForTake ==
  /\ main = "lock" /\ mutex = Nobody
  /\ mutex' = Main
  /\ main' = "take"
  /\ UNCHANGED <<poolVars, map, sem, paths, loopVars>>

(* Main is about to draw a path.                                           *)
BeginDrawing(k, thread_id) ==
  /\ drawing' = result[k]
  /\ drawn' = Append(drawn, [plan |-> k, at |-> thread_id])

(* paths.pop().  Mutant: it is left out.                                   *)
NotPopped == paths
Popped == Tail(paths)

(* The continue of an empty queue draws nothing; the lock_guard unlocks in *)
(* either case.                                                            *)
TakePath ==
  /\ main = "take"
  /\ IF paths = <<>> THEN UNCHANGED <<paths, drawing, drawn>>
     ELSE BeginDrawing(Head(paths).plan, threads_finished) /\ paths' = Popped
  /\ mutex' = Nobody
  /\ main' = "draw"
  /\ UNCHANGED <<poolVars, map, sem, threads_finished>>

(* SINGLE: find_path has returned to main.                                 *)
SingleReturns ==
  /\ main = "single" /\ pc[Main] = "found"
  /\ IF result[1] = NoPath THEN main' = "no path" /\ UNCHANGED <<drawing, drawn>>
     ELSE main' = "draw" /\ BeginDrawing(1, 2)
  /\ UNCHANGED <<poolVars, map, syncVars, threads_finished>>

(* Mutant: plans are labelled from 0.                                      *)
LabelFromZero(thread_id) == (thread_id - 1) % LabelModulus

(* thread_id + 2, kept in a uint8_t.                                       *)
Label(thread_id) == ((thread_id % LabelModulus) + 2) % CellValues

(* update_map_with_path: one cell, without a lock.                         *)
DrawCell ==
  /\ main = "draw" /\ drawing # NoPath
  /\ map' = [map EXCEPT ![Head(drawing)] = Label(drawn[Len(drawn)].at)]
  /\ drawing' = Tail(drawing)
  /\ UNCHANGED <<poolVars, syncVars, main, threads_finished, drawn>>

PathIsDrawn ==
  /\ main = "draw" /\ drawing = NoPath
  /\ main' = IF mode = "SINGLE" THEN "convert" ELSE "loop"
  /\ UNCHANGED <<poolVars, map, syncVars, loopVars>>

(* paths, sem and mutex are destroyed, then the destructor of pool starts. *)
LeaveScope ==
  /\ main = "loop" /\ ~MorePlans
  /\ BeginClose
  /\ main' = "closing"
  /\ UNCHANGED <<map, syncVars, loopVars>>

PoolIsGone ==
  /\ main = "closing"
  /\ EndClose
  /\ main' = "convert"
  /\ UNCHANGED <<map, syncVars, loopVars>>

(* Mutant: only a part of the labels is converted.                         *)
Above3(value) == IF value > 3 THEN 2 ELSE value
Converted(value) == IF value >= 2 THEN 2 ELSE value

(* INPUT: "Convert all values in the map greater than or equal to 2 to 2". *)
Convert ==
  /\ main = "convert"
  /\ map' = IF mode = "INPUT" THEN [c \in Cells |-> Converted(map[c])] ELSE map
  /\ main' = "done"
  /\ UNCHANGED <<poolVars, syncVars, loopVars>>

-----------------------------------------------------------------------------
ThreadStep(t) ==
  /\ Search(t) \/ (t \in Workers /\ Task(t))
  /\ UNCHANGED <<inputVars, map, mainVars>>

MainStep ==
  /\ \/ ReadCoordinates \/ EnqueuePlan \/ AcquirePermit
     \/ LockForTake \/ TakePath \/ SingleReturns
     \/ DrawCell \/ PathIsDrawn \/ LeaveScope \/ PoolIsGone \/ Convert
  /\ UNCHANGED <<inputVars, pc, searchVars>>

Terminated == main \in {"rejected", "no path", "done"} /\ UNCHANGED vars

Next ==
  \/ MainStep
  \/ \E t \in Threads : ThreadStep(t)
  \/ Terminated

(* The threads run, and the pool starts queued tasks: its own promise.     *)
Spec == Init /\ [][Next]_vars
FairSpec == Spec /\ WF_vars(MainStep) /\ \A t \in Threads : WF_vars(ThreadStep(t))

-----------------------------------------------------------------------------
(* Properties                                                              *)

(* multithread_path_plan counts permits, not paths: an empty path gives a  *)
(* permit too, and a permit may be spent on another task's path.  Still    *)
(* there is a permit for every queued path (or Main holds it, or the task  *)
(* that pushed is about to release it), so none is left behind when Main   *)
(* has spent num_plans permits.                                            *)
PermitForEveryPath ==
  Len(paths) <= sem
                + (IF main \in {"lock", "take"} THEN 1 ELSE 0)
                + Cardinality({w \in Workers : pc[w] = "release"})

LoopIsOver == main \in {"closing", "convert", "done"}

(* When the loop has ended every path that was found has been drawn, once, *)
(* and nothing else has.                                                   *)
EveryPathDrawnOnce ==
  LoopIsOver =>
    /\ paths = <<>>
    /\ \A k \in Tasks :
         Cardinality({i \in 1..Len(drawn) : drawn[i].plan = k})
           = (IF result[k] = NoPath THEN 0 ELSE 1)

(* The queue, the semaphore and the mutex are declared after the pool and  *)
(* so destroyed before its destructor joins the workers.  No worker is     *)
(* then in the part of its task that uses them: the last release is made   *)
(* with the mutex held, and Main takes the mutex after its last acquire.   *)
NoUseAfterDestroy ==
  LoopIsOver => \A w \in Workers : pc[w] = "idle"

(* Whatever Main draws during the search, find_path returns a path exactly *)
(* when the original map has one, and then one through its free cells.     *)
Answered == finished \union {Plan(t) : t \in {u \in Threads : pc[u] = "found"}}
FoundIffReachable ==
  \A k \in Answered :
    LET free == Free(Original)
        routes == IF scene.start[k] = scene.goal[k] \/ scene.start[k] \notin free THEN {}
                  ELSE Routes(scene.start[k], scene.goal[k], free)
    IN IF routes = {} THEN result[k] = NoPath ELSE result[k] \in routes

(* The drawings that cover a cell, as indices of drawn.                    *)
Covering(c) == {i \in 1..Len(drawn) : c \in CellsOf(result[drawn[i].plan])}

(* What is printed: INPUT shows 2 on the cells of the paths and on those   *)
(* that had 2 or more from the start; the others show the label of the     *)
(* last path drawn over a cell; elsewhere the map is as it was.            *)
PrintedMap ==
  main = "done" =>
    \A c \in Cells :
      IF Covering(c) = {}
      THEN map[c] = IF mode = "INPUT" /\ Original[c] > 2 THEN 2 ELSE Original[c]
      ELSE LET last == CHOOSE i \in Covering(c) : \A j \in Covering(c) : j <= i
           IN map[c] = IF mode = "INPUT" THEN 2
                       ELSE (drawn[last].at % LabelModulus) + 2

(* The program ends: no permit is lost, and the pool can always be closed. *)
PlanningEnds == <>(main \in {"rejected", "no path", "done"})

(* INPUT prints 2 on every cell of every path that was found: "update the  *)
(* map with the path value", "Convert all values in the map greater than   *)
(* or equal to 2 to 2" (Lab4/path_planning.cpp).                           *)
PathsMarked ==
  main = "done" /\ mode = "INPUT" =>
    \A k \in Tasks : \A c \in CellsOf(result[k]) : map[c] = 2

=============================================================================
