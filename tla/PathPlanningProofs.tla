------------------------- MODULE PathPlanningProofs -------------------------
(***************************************************************************)
(* The concurrent path planning program, for every number of workers and   *)
(* plans, every map and every input. PlanInv is the inductive invariant of *)
(* the threads, the lock, the semaphore and the queue; MapInv, which needs *)
(* labels that do not wrap (LabelsFit), that of the map: what the searches *)
(* read, what they answer, and what has been drawn.                        *)
(***************************************************************************)
EXTENDS PathPlanning, TaskPoolProofs, FiniteSetTheorems, SequenceTheorems, TLAPS

(* Where a task holds the mutex, and where it has pushed its path and      *)
(* released the semaphore.                                                 *)
Holding == {"push", "release", "wake", "return"}
AfterPush == {"release", "wake", "return"}
AfterRelease == {"wake", "return"}

(* The tasks whose worker is at one of the given points, or that are done. *)
Past(points) == {k \in Tasks : \/ k \in finished
                               \/ \E w \in Workers : pc[w] \in points /\ slot[w] = k}

(* The variables have their types.                                        *)
TypeInv ==
  /\ scene \in Scenes /\ mode \in {"INPUT", "RANDOM", "SINGLE"}
  /\ map \in [Cells -> 0..CellValues - 1]
  /\ mutex \in Threads \union {Nobody}
  /\ sem \in Nat
  /\ paths \in Seq([plan : Tasks, cells : Seq(Cells)])
  /\ main \in {"read", "enqueue", "loop", "lock", "take", "draw",
               "closing", "convert", "single",
               "rejected", "no path", "done"}
  /\ threads_finished \in 0..NumTasks
  /\ drawing \in Seq(Cells)
  /\ drawn \in Seq([plan : Tasks, at : Nat])
  /\ pc \in [Threads -> {"idle", "find", "explore", "found", "push",
                         "release", "wake", "return"}]
  /\ reached \in [Threads -> SUBSET Cells]
  /\ expanded \in [Threads -> SUBSET Cells]
  /\ looking \in [Threads -> SUBSET Cells]
  /\ result \in [Tasks -> Seq(Cells)]

(* A worker has a plan exactly while its slot has a task; Main has one in  *)
(* SINGLE mode, and never takes part in the tasks.                         *)
ThreadInv ==
  /\ \A w \in Workers : pc[w] = "idle" <=> slot[w] = Idle
  /\ pc[Main] \in {"idle", "find", "explore", "found"}
  /\ pc[Main] = "idle" <=> mode # "SINGLE"
  /\ mode = "SINGLE" => 1 \in Tasks

(* find_path has visited only what it has reached, and is searching from   *)
(* its start; the goal ends it.                                            *)
SearchInv ==
  \A t \in Threads :
    /\ expanded[t] \subseteq reached[t]
    /\ pc[t] # "explore" => reached[t] = {} /\ looking[t] = {}
    /\ pc[t] = "explore" => From(t) \in reached[t] /\ To(t) \notin expanded[t]

(* Who holds the mutex.                                                    *)
LockInv ==
  /\ mutex = Main <=> main = "take"
  /\ \A w \in Workers : mutex = w <=> pc[w] \in Holding

(* Where Main is: it draws a path only at "draw"; its loop ends with the   *)
(* last permit; in SINGLE mode there is one plan and no pool.              *)
MainInv ==
  /\ main # "draw" => drawing = NoPath
  /\ drawing # NoPath => drawn # <<>>
  /\ mode # "SINGLE" => /\ main \notin {"single", "no path"}
                        /\ LoopIsOver => threads_finished = NumTasks
  /\ mode = "SINGLE" => /\ main \in {"single", "no path", "draw", "convert", "done"}
                        /\ queue = <<>> /\ finished = {}
                        /\ \A w \in Workers : slot[w] = Idle
                        /\ paths = <<>> /\ sem = 0 /\ threads_finished = 0
                        /\ main # "single" => pc[Main] = "found"
                        /\ main \in {"single", "no path"} => drawn = <<>>
                        /\ main = "no path" => result[1] = NoPath
                        /\ main \in {"draw", "convert", "done"} =>
                             drawn = <<[plan |-> 1, at |-> 2]>> /\ result[1] # NoPath
                        /\ \A k \in Tasks : k # 1 => result[k] = NoPath

(* Every permit that was given is counted by the semaphore or by Main.     *)
CountInv == sem + threads_finished = Cardinality(Past(AfterRelease))

(* Once Main has the mutex after its last permit, every task has finished. *)
LoopInv ==
  mode # "SINGLE" /\ threads_finished = NumTasks /\ main # "lock" => finished = Tasks

(* The plans that were pushed with a path are those in the queue and those *)
(* that were drawn, each of them once.                                     *)
PlanOf(s) == {s[i].plan : i \in 1..Len(s)}
OnceInv ==
  mode # "SINGLE" =>
    /\ \A i, j \in 1..Len(paths) : paths[i].plan = paths[j].plan => i = j
    /\ \A i, j \in 1..Len(drawn) : drawn[i].plan = drawn[j].plan => i = j
    /\ PlanOf(paths) \intersect PlanOf(drawn) = {}
    /\ PlanOf(paths) \union PlanOf(drawn) =
         {k \in Past(AfterPush) : result[k] # NoPath}
    /\ \A i \in 1..Len(paths) : paths[i].cells = result[paths[i].plan]

PlanInv == /\ TaskInv /\ TypeInv /\ ThreadInv /\ SearchInv /\ LockInv /\ MainInv
           /\ CountInv /\ LoopInv /\ PermitForEveryPath /\ OnceInv

-----------------------------------------------------------------------------
(* Main is not a worker, Nobody is not a thread.                           *)
LEMMA ThreadNames ==
  /\ Main \in Threads /\ Main \notin Workers /\ Nobody \notin Threads
  /\ Workers \subseteq Threads /\ \A t \in Threads : t # Main => t \in Workers
  /\ Idle \notin Tasks /\ NumTasks \in Nat
  BY PoolAssumption
     DEF PoolAssumption, Main, Nobody, Threads, Workers, Tasks, Idle

(* What a route is: a sequence of cells, not empty, that ends at its goal. *)
LEMMA RouteIsPath ==
  ASSUME NEW from \in Cells, NEW to, NEW through, NEW p \in Routes(from, to, through)
  PROVE  /\ p \in Seq(Cells) /\ p # NoPath
         /\ Len(p) \in Nat \ {0}
         /\ p[Len(p)] = to /\ CellsOf(p) \subseteq through
         /\ p[1] \in Neighbours(from)
         /\ \A i \in 1..(Len(p) - 1) : p[i + 1] \in Neighbours(p[i])
<1>1. /\ p \in UNION {[1..n -> Cells \ {from}] : n \in 1..(Rows * Cols - 1)}
      /\ p[1] \in Neighbours(from)
      /\ \A i \in 1..(Len(p) - 1) : p[i + 1] \in Neighbours(p[i])
      /\ p[Len(p)] = to /\ CellsOf(p) \subseteq through
  BY DEF Routes, PathsFrom
<1>2. PICK n \in 1..(Rows * Cols - 1) : p \in [1..n -> Cells \ {from}]
  BY <1>1
<1>3. n \in Nat \ {0}
  BY SizeAssumption
<1>4. p \in Seq(Cells) /\ Len(p) = n
  BY <1>2, <1>3
<1>5. p # NoPath
  BY <1>3, <1>4 DEF NoPath
<1>6. QED
  BY <1>1, <1>3, <1>4, <1>5

(* The cells of a sequence of cells, its first one taken apart.            *)
LEMMA CellsOfTail ==
  ASSUME NEW S, NEW q \in Seq(S), q # NoPath
  PROVE  /\ Head(q) \in CellsOf(q) /\ Head(q) \in S /\ Tail(q) \in Seq(S)
         /\ CellsOf(q) = {Head(q)} \union CellsOf(Tail(q))
<1>1. /\ Head(q) \in S /\ Tail(q) \in Seq(S) /\ Head(q) = q[1]
      /\ Len(q) \in Nat \ {0}
      /\ Len(Tail(q)) = Len(q) - 1
      /\ \A i \in 1..Len(Tail(q)) : Tail(q)[i] = q[i + 1]
  BY HeadTailProperties, EmptySeq DEF NoPath
<1>2. Head(q) \in CellsOf(q)
  BY <1>1 DEF CellsOf
<1>3. CellsOf(Tail(q)) \subseteq CellsOf(q)
  BY <1>1 DEF CellsOf
<1>4. ASSUME NEW c \in CellsOf(q)
      PROVE  c = Head(q) \/ c \in CellsOf(Tail(q))
  <2>1. PICK i \in 1..Len(q) : c = q[i]
    BY DEF CellsOf
  <2>2. i = 1 \/ (i - 1 \in 1..Len(Tail(q)) /\ i = (i - 1) + 1)
    BY <1>1
  <2>3. QED
    BY <1>1, <2>1, <2>2 DEF CellsOf
<1>5. QED
  BY <1>1, <1>2, <1>3, <1>4

(* The elements of a sequence of cells are cells.                          *)
LEMMA CellsOfSeq ==
  ASSUME NEW S, NEW q \in Seq(S)
  PROVE  CellsOf(q) \subseteq S
  BY ElementOfSeq DEF CellsOf

-----------------------------------------------------------------------------
(* What find_path does to the rest of the program: it moves its own thread *)
(* and, when it returns, gives its plan a result.                          *)
SearchFacts(t) ==
  /\ pc[t] \in {"find", "explore"} /\ Plan(t) \in Tasks
  /\ pc'[t] \in {"explore", "found"}
  /\ \A u \in Threads : u # t => pc'[u] = pc[u]
  /\ \A u \in Threads : u # t => /\ reached'[u] = reached[u]
                                 /\ expanded'[u] = expanded[u]
                                 /\ looking'[u] = looking[u]
  /\ pc'[t] = "explore" => result' = result
  /\ \A k \in Tasks : k # Plan(t) => result'[k] = result[k]
  /\ pc' \in [Threads -> {"idle", "find", "explore", "found", "push",
                          "release", "wake", "return"}]
  /\ reached' \in [Threads -> SUBSET Cells]
  /\ expanded' \in [Threads -> SUBSET Cells]
  /\ looking' \in [Threads -> SUBSET Cells]
  /\ result' \in [Tasks -> Seq(Cells)]
  /\ expanded'[t] \subseteq reached'[t]
  /\ pc'[t] # "explore" => reached'[t] = {} /\ looking'[t] = {}
  /\ pc'[t] = "explore" => From(t) \in reached'[t] /\ To(t) \notin expanded'[t]

(* A return from find_path changes nothing but its own thread and plan.    *)
LEMMA ReturnsFacts ==
  ASSUME TypeInv, NEW t \in Threads, pc[t] \in {"find", "explore"}, Plan(t) \in Tasks,
         looking[t] = {}, NEW p \in Seq(Cells), Returns(t, p)
  PROVE  SearchFacts(t)
  BY DEF TypeInv, Returns, Goto, SearchFacts

(* Every step of find_path is such a move.                                 *)
LEMMA SearchMoves ==
  ASSUME PlanInv, NEW t \in Threads, Search(t)
  PROVE  SearchFacts(t)
<1> USE DEF PlanInv
<1>1. pc[t] \in {"find", "explore"}
  BY DEF Search, FindPathChecks, Explore, ReadNeighbour, FindsGoal, FindsNoPath, Pops,
         SearchInv
<1>2. Plan(t) \in Tasks
  BY <1>1, ThreadNames DEF Plan, ThreadInv, TaskInv, PoolTypeOK
<1>3. NoPath \in Seq(Cells)
  BY EmptySeq DEF NoPath
<1>4. CASE FindPathChecks(t)
  <2>1. CASE {From(t), To(t)} \subseteq Free(map)
    <3>1. From(t) \in Cells /\ expanded[t] = {}
      BY <1>4, <2>1 DEF Free, SearchInv, FindPathChecks
    <3>2. /\ reached' = [reached EXCEPT ![t] = {From(t)}]
          /\ pc' = [pc EXCEPT ![t] = "explore"]
          /\ UNCHANGED <<expanded, looking, result>>
      BY <1>4, <2>1 DEF FindPathChecks, Goto
    <3>3. reached'[t] = {From(t)} /\ expanded'[t] = {} /\ pc'[t] = "explore"
      BY <3>1, <3>2 DEF TypeInv
    <3>4. reached' \in [Threads -> SUBSET Cells]
      BY <3>1, <3>2 DEF TypeInv
    <3>5. QED
      BY <1>1, <1>2, <3>2, <3>3, <3>4 DEF SearchFacts, TypeInv
  <2>2. CASE ~({From(t), To(t)} \subseteq Free(map))
    BY <1>1, <1>2, <1>3, <1>4, <2>2, ReturnsFacts DEF FindPathChecks, SearchInv
  <2>3. QED
    BY <2>1, <2>2
<1>5. CASE Explore(t)
  <2>1. PICK c \in Unvisited(t) \ {To(t)} :
          /\ expanded' = [expanded EXCEPT ![t] = @ \union {c}]
          /\ looking' = [looking EXCEPT ![t] = Neighbours(c)]
    BY <1>5 DEF Explore
  <2>2. pc[t] = "explore" /\ UNCHANGED <<pc, reached, result>>
    BY <1>5 DEF Explore, Pops
  <2>3. c \in reached[t] /\ c # To(t) /\ reached[t] \subseteq Cells /\ Neighbours(c) \subseteq Cells
    BY DEF Unvisited, TypeInv, Neighbours
  <2>4. expanded'[t] = expanded[t] \union {c}
    BY <2>1 DEF TypeInv
  <2>5. looking' \in [Threads -> SUBSET Cells] /\ expanded' \in [Threads -> SUBSET Cells]
    BY <2>1, <2>3 DEF TypeInv
  <2>6. expanded'[t] \subseteq reached'[t] /\ From(t) \in reached'[t] /\ To(t) \notin expanded'[t]
    BY <2>2, <2>3, <2>4 DEF SearchInv
  <2>7. QED
    BY <1>2, <2>1, <2>2, <2>5, <2>6 DEF SearchFacts, TypeInv
<1>9. CASE ReadNeighbour(t)
  <2>1. PICK d \in looking[t] :
          /\ looking' = [looking EXCEPT ![t] = @ \ {d}]
          /\ reached' = [reached EXCEPT ![t] = @ \union ({d} \intersect Free(map))]
    BY <1>9 DEF ReadNeighbour
  <2>2. pc[t] = "explore" /\ UNCHANGED <<pc, expanded, result>>
    BY <1>9 DEF ReadNeighbour, SearchInv
  <2>3. Free(map) \subseteq Cells
    BY DEF Free
  <2>4. reached[t] \subseteq reached'[t]
    BY <2>1 DEF TypeInv
  <2>5. looking' \in [Threads -> SUBSET Cells] /\ reached' \in [Threads -> SUBSET Cells]
    BY <2>1, <2>3 DEF TypeInv
  <2>6. expanded'[t] \subseteq reached'[t] /\ From(t) \in reached'[t] /\ To(t) \notin expanded'[t]
    BY <2>2, <2>4 DEF SearchInv
  <2>7. QED
    BY <1>2, <2>1, <2>2, <2>5, <2>6 DEF SearchFacts, TypeInv
<1>6. CASE FindsGoal(t)
  <2>1. CASE From(t) = To(t) /\ Returns(t, NoPath)
    BY <1>1, <1>2, <1>3, <1>6, <2>1, ReturnsFacts DEF FindsGoal, Pops
  <2>2. ASSUME NEW p \in Routes(From(t), To(t), expanded[t] \union {To(t)}), Returns(t, p)
        PROVE  SearchFacts(t)
    <3>1. From(t) \in Cells
      BY <1>6 DEF FindsGoal, SearchInv, TypeInv
    <3>2. p \in Seq(Cells)
      BY <3>1, RouteIsPath
    <3>3. QED
      BY <1>1, <1>2, <1>6, <2>2, <3>2, ReturnsFacts DEF FindsGoal, Pops
  <2>3. QED
    BY <1>6, <2>1, <2>2 DEF FindsGoal
<1>7. CASE FindsNoPath(t)
  BY <1>1, <1>2, <1>3, <1>7, ReturnsFacts DEF FindsNoPath, Pops
<1>8. QED
  BY <1>4, <1>5, <1>6, <1>7, <1>9 DEF Search
-----------------------------------------------------------------------------
(* A task whose worker is not yet at one of the points is not past them.   *)
LEMMA NotPast ==
  ASSUME TaskInv, NEW points, NEW w \in Workers, slot[w] # Idle, pc[w] \notin points
  PROVE  slot[w] \in Tasks /\ slot[w] \notin Past(points)
  BY DEF TaskInv, PoolTypeOK, PlaceInv, Past

Frame == UNCHANGED <<poolVars, syncVars, inputVars, map, mainVars>>

(* find_path leaves the tasks, the lock and Main where they are.           *)
LEMMA SearchKeepsCore ==
  ASSUME PlanInv, NEW t \in Threads, Search(t), Frame
  PROVE  TaskInv' /\ TypeInv' /\ ThreadInv' /\ SearchInv' /\ LockInv' /\ MainInv'
<1> USE DEF PlanInv
<1>1. SearchFacts(t)
  BY SearchMoves
<1>2. TaskInv'
  BY PoolStutter DEF Frame
<1>3. TypeInv'
  BY <1>1 DEF Frame, TypeInv, SearchFacts, inputVars, mainVars, loopVars, syncVars
<1>4. ThreadInv'
  BY <1>1, ThreadNames
     DEF Frame, ThreadInv, SearchFacts, inputVars, poolVars, Plan, Holding
<1>5. SearchInv'
  <2>1. \A u \in Threads : From(u)' = From(u) /\ To(u)' = To(u)
    BY DEF Frame, From, To, Plan, poolVars, inputVars
  <2>2. QED
    BY <1>1, <2>1 DEF SearchInv, SearchFacts
<1>6. LockInv'
  <2>1. \A w \in Workers : pc'[w] \in Holding <=> pc[w] \in Holding
    BY <1>1, ThreadNames DEF SearchFacts, Holding
  <2>2. QED
    BY <2>1 DEF LockInv, Frame, syncVars, mainVars
<1>7. MainInv'
  <2>1. CASE mode # "SINGLE"
    BY <2>1 DEF MainInv, Frame, mainVars, loopVars, inputVars, LoopIsOver
  <2>2. CASE mode = "SINGLE"
    <3>1. t = Main
      BY <1>1, <2>2, ThreadNames DEF MainInv, ThreadInv, SearchFacts
    <3>2. main = "single" /\ Plan(Main) = 1
      BY <1>1, <2>2, <3>1 DEF MainInv, SearchFacts, Plan
    <3>3. \A k \in Tasks : k # 1 => result'[k] = result[k]
      BY <1>1, <3>1, <3>2 DEF SearchFacts
    <3>4. QED
      BY <2>2, <3>2, <3>3
         DEF MainInv, Frame, mainVars, loopVars, inputVars, poolVars, syncVars
  <2>3. QED
    BY <2>1, <2>2
<1>8. QED
  BY <1>2, <1>3, <1>4, <1>5, <1>6, <1>7

(* It gives no permit and pushes no path, and the result it changes is     *)
(* that of a plan that has not been pushed.                                *)
LEMMA SearchKeepsCounts ==
  ASSUME PlanInv, NEW t \in Threads, Search(t), Frame
  PROVE  CountInv' /\ LoopInv' /\ PermitForEveryPath' /\ OnceInv'
<1> USE DEF PlanInv
<1>1. SearchFacts(t)
  BY SearchMoves
<1>2. ASSUME NEW points \in {AfterPush, AfterRelease, {"release"}}
      PROVE  /\ \A w \in Workers : pc'[w] \in points <=> pc[w] \in points
             /\ Past(points)' = Past(points)
  <2>1. \A w \in Workers : pc'[w] \in points <=> pc[w] \in points
    BY <1>1, ThreadNames DEF SearchFacts, AfterPush, AfterRelease
  <2>2. QED
    BY <2>1 DEF Past, Frame, poolVars
<1>3. CountInv'
  BY <1>2 DEF CountInv, Frame, syncVars, mainVars, loopVars
<1>4. LoopInv'
  BY DEF LoopInv, Frame, mainVars, loopVars, inputVars, poolVars
<1>5. PermitForEveryPath'
  <2>1. \A w \in Workers : pc'[w] = "release" <=> pc[w] = "release"
    BY <1>2
  <2>2. {w \in Workers : pc'[w] = "release"} = {w \in Workers : pc[w] = "release"}
    BY <2>1
  <2>3. QED
    BY <2>2 DEF PermitForEveryPath, Frame, syncVars, mainVars
<1>6. OnceInv'
  <2> SUFFICES ASSUME mode # "SINGLE"
               PROVE  OnceInv'
    BY DEF OnceInv, Frame, inputVars
  <2>1. t \in Workers /\ Plan(t) = slot[t] /\ slot[t] # Idle
    BY <1>1, ThreadNames DEF ThreadInv, SearchFacts, Plan
  <2>2. Plan(t) \notin Past(AfterPush)
    BY <1>1, <2>1, NotPast DEF SearchFacts, AfterPush
  <2>3. \A k \in Past(AfterPush) : k \in Tasks /\ result'[k] = result[k]
    BY <1>1, <2>2 DEF Past, SearchFacts
  <2>4. Past(AfterPush)' = Past(AfterPush)
    BY <1>2
  <2>5. \A i \in 1..Len(paths) : paths[i].plan \in Past(AfterPush)
    BY DEF OnceInv, PlanOf
  <2>6. UNCHANGED <<paths, drawn, mode>>
    BY DEF Frame, syncVars, mainVars, loopVars, inputVars
  <2>7. {k \in Past(AfterPush)' : result'[k] # NoPath} =
          {k \in Past(AfterPush) : result[k] # NoPath}
    BY <2>3, <2>4
  <2>8. \A i \in 1..Len(paths) : paths[i].cells = result'[paths[i].plan]
    BY <2>3, <2>5 DEF OnceInv
  <2>9. PlanOf(paths)' = PlanOf(paths) /\ PlanOf(drawn)' = PlanOf(drawn)
    BY <2>6 DEF PlanOf
  <2>10. /\ \A i, j \in 1..Len(paths) : paths[i].plan = paths[j].plan => i = j
         /\ \A i, j \in 1..Len(drawn) : drawn[i].plan = drawn[j].plan => i = j
         /\ PlanOf(paths) \intersect PlanOf(drawn) = {}
         /\ PlanOf(paths) \union PlanOf(drawn) =
              {k \in Past(AfterPush)' : result'[k] # NoPath}
    BY <2>7 DEF OnceInv
  <2>11. QED
    BY <2>6, <2>8, <2>9, <2>10 DEF OnceInv
<1>7. QED
  BY <1>3, <1>4, <1>5, <1>6

-----------------------------------------------------------------------------
(* The steps of a task.                                                    *)
TaskFrame == UNCHANGED <<searchVars, inputVars, map, mainVars>>
Unsynced == UNCHANGED <<poolVars, sem, paths>>

(* Nothing about the queue and the drawings changes with the place of a    *)
(* task that does not push.                                                *)
LEMMA OnceStays ==
  ASSUME OnceInv, UNCHANGED <<paths, drawn, result, mode>>,
         Past(AfterPush)' = Past(AfterPush)
  PROVE  OnceInv'
<1> SUFFICES ASSUME mode # "SINGLE"
             PROVE  OnceInv'
  BY DEF OnceInv
<1>1. PlanOf(paths)' = PlanOf(paths) /\ PlanOf(drawn)' = PlanOf(drawn)
  BY DEF PlanOf
<1>2. /\ \A i, j \in 1..Len(paths) : paths[i].plan = paths[j].plan => i = j
      /\ \A i, j \in 1..Len(drawn) : drawn[i].plan = drawn[j].plan => i = j
      /\ PlanOf(paths) \intersect PlanOf(drawn) = {}
      /\ PlanOf(paths) \union PlanOf(drawn) =
           {k \in Past(AfterPush)' : result[k] # NoPath}
      /\ \A i \in 1..Len(paths) : paths[i].cells = result[paths[i].plan]
  BY DEF OnceInv
<1>3. QED
  BY <1>1, <1>2 DEF OnceInv

(* A worker takes a task: the first that nobody has taken.                 *)
LEMMA TakePlanKeeps ==
  ASSUME PlanInv, NEW w \in Workers, TakePlan(w), TaskFrame
  PROVE  PlanInv'
<1> USE DEF PlanInv, TakePlan, Goto
<1>1. /\ Start(w) /\ pc' = [pc EXCEPT ![w] = "find"]
      /\ UNCHANGED <<mutex, sem, paths, reached, expanded, looking, result, scene, mode,
                     map, main, threads_finished, drawing, drawn>>
  BY DEF TaskFrame, searchVars, inputVars, mainVars, loopVars, syncVars
<1>2. /\ queue # <<>> /\ slot[w] = Idle /\ UNCHANGED finished
      /\ \A v \in Workers : v # w => slot'[v] = slot[v]
      /\ slot'[w] = NumTaken + 1
  BY <1>1, StartStep DEF Start, TaskInv, PoolTypeOK
<1>3. TaskInv' /\ slot'[w] # Idle
  BY <1>1, <1>2, StartStep, TakenIsNat DEF Idle
<1>4. mode # "SINGLE" /\ pc[w] = "idle" /\ w \in Threads /\ w # Main
  BY <1>2, ThreadNames DEF MainInv, ThreadInv
<1>5. pc'[w] = "find" /\ \A t \in Threads : t # w => pc'[t] = pc[t]
  BY <1>1, <1>4 DEF TypeInv
<1>6. TypeInv'
  BY <1>1, <1>4 DEF TypeInv
<1>7. ThreadInv'
  BY <1>1, <1>2, <1>3, <1>4, <1>5, ThreadNames DEF ThreadInv
<1>8. SearchInv'
  <2>1. \A t \in Threads : t # w => From(t)' = From(t) /\ To(t)' = To(t)
    BY <1>1, <1>2, ThreadNames DEF From, To, Plan
  <2>2. QED
    BY <1>1, <1>4, <1>5, <2>1 DEF SearchInv
<1>9. LockInv'
  BY <1>1, <1>4, <1>5, ThreadNames DEF LockInv, Holding
<1>10. MainInv'
  BY <1>1, <1>4 DEF MainInv, LoopIsOver
<1>11. ASSUME NEW points \in {AfterPush, AfterRelease}
       PROVE  Past(points)' = Past(points)
  <2>1. \A v \in Workers : pc'[v] \in points <=> pc[v] \in points
    BY <1>4, <1>5, ThreadNames DEF AfterPush, AfterRelease
  <2>2. pc[w] \notin points
    BY <1>4 DEF AfterPush, AfterRelease
  <2>3. QED
    BY <1>2, <2>1, <2>2 DEF Past
<1>12. CountInv'
  BY <1>1, <1>11 DEF CountInv
<1>13. LoopInv'
  BY <1>1, <1>2 DEF LoopInv
<1>14. PermitForEveryPath'
  <2>1. {v \in Workers : pc'[v] = "release"} = {v \in Workers : pc[v] = "release"}
    BY <1>4, <1>5, ThreadNames
  <2>2. QED
    BY <1>1, <2>1 DEF PermitForEveryPath
<1>15. OnceInv'
  BY <1>1, <1>11, OnceStays
<1>16. QED
  BY <1>3, <1>6, <1>7, <1>8, <1>9, <1>10, <1>12, <1>13, <1>14, <1>15

(* Between "found" and "return" a task only moves its own place; what is   *)
(* said of the threads, the searches and the end of the loop stays.        *)
LEMMA TaskMoves ==
  ASSUME PlanInv, NEW w \in Workers, TaskFrame, UNCHANGED poolVars,
         NEW x \in {"push", "release", "wake", "return"},
         pc[w] \in {"found", "push", "release", "wake"},
         Goto(w, x), mutex' \in Threads, sem' \in Nat,
         paths' \in Seq([plan : Tasks, cells : Seq(Cells)]),
         \/ pc[w] \in Holding /\ mutex' = mutex
         \/ mutex = Nobody /\ mutex' = w
  PROVE  /\ TaskInv' /\ TypeInv' /\ ThreadInv' /\ SearchInv' /\ LockInv' /\ LoopInv'
         /\ MainInv' /\ mode # "SINGLE" /\ slot[w] # Idle
         /\ pc'[w] = x /\ \A t \in Threads : t # w => pc'[t] = pc[t]
<1> USE DEF PlanInv, Goto
<1>1. /\ pc' = [pc EXCEPT ![w] = x]
      /\ UNCHANGED <<reached, expanded, looking, result, scene, mode,
                     map, main, threads_finished, drawing, drawn>>
      /\ UNCHANGED <<queue, enqueued, slot, finished, phase>>
  BY DEF TaskFrame, searchVars, inputVars, mainVars, loopVars, poolVars
<1>2. TaskInv'
  BY PoolStutter
<1>3. w \in Threads /\ w # Main /\ slot[w] # Idle /\ mode # "SINGLE"
  BY ThreadNames DEF ThreadInv, MainInv
<1>4. pc'[w] = x /\ \A t \in Threads : t # w => pc'[t] = pc[t]
  BY <1>1, <1>3 DEF TypeInv
<1>5. TypeInv'
  BY <1>1, <1>3 DEF TypeInv
<1>6. ThreadInv'
  BY <1>1, <1>3, <1>4, ThreadNames DEF ThreadInv
<1>7. SearchInv'
  <2>1. \A t \in Threads : From(t)' = From(t) /\ To(t)' = To(t)
    BY <1>1 DEF From, To, Plan
  <2>2. QED
    BY <1>1, <1>3, <1>4, <2>1 DEF SearchInv
<1>8. LockInv'
  <2>1. x \in Holding
    BY DEF Holding
  <2>2. CASE pc[w] \in Holding /\ mutex' = mutex
    BY <1>1, <1>3, <1>4, <2>1, <2>2, ThreadNames DEF LockInv
  <2>3. CASE mutex = Nobody /\ mutex' = w
    BY <1>1, <1>3, <1>4, <2>1, <2>3, ThreadNames DEF LockInv
  <2>4. QED
    BY <2>2, <2>3
<1>9. MainInv' /\ LoopInv'
  BY <1>1, <1>3 DEF MainInv, LoopIsOver, LoopInv
<1>10. QED
  BY <1>2, <1>3, <1>4, <1>5, <1>6, <1>7, <1>8, <1>9

(* A move that does not touch the points of a set leaves the tasks past    *)
(* them alone.                                                             *)
LEMMA PastStays ==
  ASSUME NEW w \in Workers, NEW points, UNCHANGED <<slot, finished>>,
         pc'[w] \in points <=> pc[w] \in points,
         \A v \in Workers : v # w => pc'[v] = pc[v]
  PROVE  Past(points)' = Past(points)
  BY DEF Past

(* A task takes the mutex.                                                 *)
LEMMA LockPathsKeeps ==
  ASSUME PlanInv, NEW w \in Workers, LockPaths(w), TaskFrame
  PROVE  PlanInv'
<1> USE DEF PlanInv, LockPaths
<1>1. /\ TaskInv' /\ TypeInv' /\ ThreadInv' /\ SearchInv' /\ LockInv' /\ LoopInv'
      /\ MainInv' /\ pc'[w] = "push" /\ \A t \in Threads : t # w => pc'[t] = pc[t]
  BY TaskMoves, ThreadNames DEF TypeInv
<1>2. UNCHANGED <<slot, finished, sem, paths, main, threads_finished, drawn, result, mode>>
  BY DEF TaskFrame, searchVars, mainVars, loopVars, poolVars, inputVars
<1>3. Past(AfterPush)' = Past(AfterPush) /\ Past(AfterRelease)' = Past(AfterRelease)
  BY <1>1, <1>2, PastStays, ThreadNames DEF AfterPush, AfterRelease
<1>4. CountInv'
  BY <1>2, <1>3 DEF CountInv
<1>5. {v \in Workers : pc'[v] = "release"} = {v \in Workers : pc[v] = "release"}
  BY <1>1, ThreadNames
<1>6. PermitForEveryPath'
  BY <1>2, <1>5 DEF PermitForEveryPath
<1>7. OnceInv'
  BY <1>2, <1>3, OnceStays
<1>8. QED
  BY <1>1, <1>4, <1>6, <1>7

(* The second half of sem.release().                                       *)
LEMMA ReleaseWakesKeeps ==
  ASSUME PlanInv, NEW w \in Workers, ReleaseWakes(w), TaskFrame
  PROVE  PlanInv'
<1> USE DEF PlanInv, ReleaseWakes
<1>1. /\ UNCHANGED <<slot, finished, sem, paths, main, threads_finished, drawn, result, mode>>
      /\ UNCHANGED mutex
  BY DEF TaskFrame, searchVars, mainVars, loopVars, poolVars, inputVars, syncVars
<1>2. mutex = w
  BY DEF LockInv, Holding
<1>3. /\ TaskInv' /\ TypeInv' /\ ThreadInv' /\ SearchInv' /\ LockInv' /\ LoopInv'
      /\ MainInv' /\ pc'[w] = "return" /\ \A t \in Threads : t # w => pc'[t] = pc[t]
  BY <1>1, <1>2, TaskMoves, ThreadNames DEF TypeInv, Holding
<1>4. Past(AfterPush)' = Past(AfterPush) /\ Past(AfterRelease)' = Past(AfterRelease)
  BY <1>1, <1>3, PastStays, ThreadNames DEF AfterPush, AfterRelease
<1>5. CountInv'
  BY <1>1, <1>4 DEF CountInv
<1>6. {v \in Workers : pc'[v] = "release"} = {v \in Workers : pc[v] = "release"}
  BY <1>3, ThreadNames
<1>7. PermitForEveryPath'
  BY <1>1, <1>6 DEF PermitForEveryPath
<1>8. OnceInv'
  BY <1>1, <1>4, OnceStays
<1>9. QED
  BY <1>3, <1>5, <1>7, <1>8

(* Some of the workers are finitely many.                                  *)
LEMMA WorkersFinite ==
  /\ IsFiniteSet(Workers) /\ IsFiniteSet(Tasks) /\ Cardinality(Tasks) = NumTasks
  /\ \A S \in SUBSET Workers : IsFiniteSet(S) /\ Cardinality(S) \in Nat
<1>1. IsFiniteSet(Workers) /\ IsFiniteSet(Tasks) /\ Cardinality(Tasks) = NumTasks
  BY PoolAssumption, FS_Interval DEF PoolAssumption, Workers, Tasks
<1>2. \A S \in SUBSET Workers : IsFiniteSet(S)
  BY <1>1, FS_Subset
<1>3. QED
  BY <1>1, <1>2, FS_CardinalityType

(* The worker that has found its place at a point set, one more.           *)
LEMMA OneMoreWorker ==
  ASSUME NEW w \in Workers, NEW S \in SUBSET Workers, NEW T, w \notin S, T = S \union {w}
  PROVE  Cardinality(T) = Cardinality(S) + 1
  BY WorkersFinite, FS_AddElement

(* The plan of a worker that reaches the points of a set is added.         *)
LEMMA PastGrows ==
  ASSUME TaskInv, NEW w \in Workers, NEW points, UNCHANGED <<slot, finished>>,
         pc'[w] \in points, pc[w] \notin points, slot[w] # Idle,
         \A v \in Workers : v # w => pc'[v] = pc[v]
  PROVE  /\ Past(points)' = Past(points) \union {slot[w]}
         /\ slot[w] \notin Past(points) /\ slot[w] \in Tasks
<1>1. slot[w] \in Tasks /\ slot[w] \notin Past(points)
  BY NotPast
<1>2. QED
  BY <1>1 DEF Past

(* A task pushes its path: one entry more in the queue, one worker more    *)
(* that is about to release the semaphore, and a plan that was neither     *)
(* queued nor drawn.                                                       *)
LEMMA PushPathKeeps ==
  ASSUME PlanInv, NEW w \in Workers, PushPath(w), TaskFrame
  PROVE  PlanInv'
<1> DEFINE k == slot[w]
           p == result[k]
<1> USE DEF PlanInv, PushPath
<1>1. /\ UNCHANGED <<slot, finished, sem, main, threads_finished, drawn, result, mode>>
      /\ UNCHANGED mutex
  BY DEF TaskFrame, searchVars, mainVars, loopVars, poolVars, inputVars, syncVars
<1>2. mutex = w
  BY DEF LockInv, Holding
<1>3. k \in Tasks /\ p \in Seq(Cells)
  BY ThreadNames DEF ThreadInv, TaskInv, PoolTypeOK, TypeInv
<1>4. /\ paths' \in Seq([plan : Tasks, cells : Seq(Cells)])
      /\ \/ p = NoPath /\ paths' = paths
         \/ /\ p # NoPath /\ Len(paths') = Len(paths) + 1
            /\ \A i \in 1..Len(paths) : paths'[i] = paths[i]
            /\ paths'[Len(paths) + 1] = [plan |-> k, cells |-> p]
  <2>1. CASE p = NoPath
    BY <2>1 DEF TypeInv
  <2>2. CASE p # NoPath
    <3>1. [plan |-> k, cells |-> p] \in [plan : Tasks, cells : Seq(Cells)]
      BY <1>3
    <3>2. paths' = Append(paths, [plan |-> k, cells |-> p])
      BY <2>2
    <3> DEFINE R == [plan : Tasks, cells : Seq(Cells)]
               e == [plan |-> k, cells |-> p]
    <3>3. paths \in Seq(R) /\ e \in R
      BY <3>1 DEF TypeInv
    <3> HIDE DEF R, e
    <3>4. /\ Append(paths, e) \in Seq(R) /\ Len(Append(paths, e)) = Len(paths) + 1
          /\ \A i \in 1..Len(paths) : Append(paths, e)[i] = paths[i]
          /\ Append(paths, e)[Len(paths) + 1] = e
      BY <3>3, AppendProperties
    <3>5. QED
      BY <2>2, <3>2, <3>4 DEF R, e
  <2>3. QED
    BY <2>1, <2>2
<1>5. /\ TaskInv' /\ TypeInv' /\ ThreadInv' /\ SearchInv' /\ LockInv' /\ LoopInv' /\ MainInv'
      /\ mode # "SINGLE" /\ slot[w] # Idle
      /\ pc'[w] = "release" /\ \A t \in Threads : t # w => pc'[t] = pc[t]
  BY <1>1, <1>2, <1>4, TaskMoves, ThreadNames DEF TypeInv, Holding
<1>6. Past(AfterRelease)' = Past(AfterRelease)
  BY <1>1, <1>5, PastStays, ThreadNames DEF AfterRelease
<1>7. CountInv'
  BY <1>1, <1>6 DEF CountInv
<1>8. Len(paths) \in Nat /\ Len(paths') \in Nat /\ Len(paths') <= Len(paths) + 1
  <2>1. Len(paths) \in Nat /\ Len(paths') \in Nat
    BY <1>4, LenProperties DEF TypeInv
  <2>2. Len(paths') = Len(paths) \/ Len(paths') = Len(paths) + 1
    BY <1>4
  <2>3. QED
    BY <2>1, <2>2
<1>9. PermitForEveryPath'
  <2> DEFINE R == {v \in Workers : pc[v] = "release"}
  <2>1. {v \in Workers : pc'[v] = "release"} = R \union {w}
    BY <1>5, ThreadNames
  <2>2. w \notin R /\ R \in SUBSET Workers
    OBVIOUS
  <2>3. Cardinality({v \in Workers : pc'[v] = "release"}) = Cardinality(R) + 1
    BY <2>1, <2>2, OneMoreWorker
  <2>4. Cardinality(R) \in Nat
    BY <2>2, WorkersFinite
  <2>5. sem \in Nat
    BY DEF TypeInv
  <2>6. QED
    BY <1>1, <1>8, <2>3, <2>4, <2>5 DEF PermitForEveryPath
<1>10. OnceInv'
  <2>1. Past(AfterPush)' = Past(AfterPush) \union {k} /\ k \notin Past(AfterPush)
    BY <1>1, <1>5, PastGrows, ThreadNames DEF AfterPush
  <2>2. CASE p = NoPath
    <3>1. {j \in Past(AfterPush)' : result[j] # NoPath} =
            {j \in Past(AfterPush) : result[j] # NoPath}
      BY <2>1, <2>2
    <3>2. paths' = paths
      BY <1>4, <2>2
    <3>3. PlanOf(paths)' = PlanOf(paths) /\ PlanOf(drawn)' = PlanOf(drawn)
      BY <1>1, <3>2 DEF PlanOf
    <3>4. /\ \A i, j \in 1..Len(paths) : paths[i].plan = paths[j].plan => i = j
          /\ \A i, j \in 1..Len(drawn) : drawn[i].plan = drawn[j].plan => i = j
          /\ PlanOf(paths) \intersect PlanOf(drawn) = {}
          /\ PlanOf(paths) \union PlanOf(drawn) =
               {j \in Past(AfterPush)' : result[j] # NoPath}
          /\ \A i \in 1..Len(paths) : paths[i].cells = result[paths[i].plan]
      BY <1>5, <3>1 DEF OnceInv
    <3>5. QED
      BY <1>1, <3>2, <3>3, <3>4 DEF OnceInv
  <2>3. CASE p # NoPath
    <3> DEFINE n == Len(paths)
    <3>1. /\ Len(paths') = n + 1 /\ n \in Nat
          /\ \A i \in 1..n : paths'[i] = paths[i]
          /\ paths'[n + 1].plan = k /\ paths'[n + 1].cells = p
      BY <1>4, <1>8, <2>3
    <3>2. \A i \in 1..Len(paths') : i \in 1..n \/ i = n + 1
      BY <3>1
    <3>3. PlanOf(paths') = PlanOf(paths) \union {k}
      BY <3>1, <3>2 DEF PlanOf
    <3>4. {j \in Past(AfterPush)' : result[j] # NoPath} =
            {j \in Past(AfterPush) : result[j] # NoPath} \union {k}
      BY <2>1, <2>3
    <3>5. k \notin PlanOf(paths) /\ k \notin PlanOf(drawn)
      BY <2>1, <1>5 DEF OnceInv
    <3>6. PlanOf(paths') \intersect PlanOf(drawn) = {}
      BY <3>3, <3>5, <1>5 DEF OnceInv
    <3>7. PlanOf(paths') \union PlanOf(drawn) =
            {j \in Past(AfterPush)' : result[j] # NoPath}
      BY <3>3, <3>4, <1>5 DEF OnceInv
    <3>8. \A i \in 1..n : paths[i].plan # k
      BY <3>5 DEF PlanOf
    <3>9. \A i, j \in 1..n : paths[i].plan = paths[j].plan => i = j
      BY <1>5 DEF OnceInv
    <3>10. \A i, j \in 1..Len(paths') : paths'[i].plan = paths'[j].plan => i = j
      BY <3>1, <3>2, <3>8, <3>9
    <3>11. \A i \in 1..n : paths[i].cells = result[paths[i].plan]
      BY <1>5 DEF OnceInv
    <3>12. \A i \in 1..Len(paths') : paths'[i].cells = result[paths'[i].plan]
      BY <3>1, <3>2, <3>11
    <3>13. \A i, j \in 1..Len(drawn) : drawn[i].plan = drawn[j].plan => i = j
      BY <1>5 DEF OnceInv
    <3>14. PlanOf(drawn)' = PlanOf(drawn) /\ PlanOf(paths)' = PlanOf(paths')
      BY <1>1 DEF PlanOf
    <3>15. QED
      BY <1>1, <3>6, <3>7, <3>10, <3>12, <3>13, <3>14 DEF OnceInv
  <2>4. QED
    BY <2>2, <2>3
<1>11. QED
  BY <1>5, <1>7, <1>9, <1>10

(* The first half of sem.release(): one permit more, and one task more     *)
(* that has given its permit.                                              *)
LEMMA ReleaseAddsKeeps ==
  ASSUME PlanInv, NEW w \in Workers, ReleaseAdds(w), TaskFrame
  PROVE  PlanInv'
<1> USE DEF PlanInv, ReleaseAdds
<1>1. UNCHANGED <<slot, finished, paths, mutex, main, threads_finished, drawn, result, mode>>
  BY DEF TaskFrame, searchVars, mainVars, loopVars, poolVars, inputVars, syncVars
<1>2. mutex = w
  BY DEF LockInv, Holding
<1>3. sem \in Nat /\ sem' = sem + 1 /\ threads_finished \in Nat
  <2>1. sem \in Nat /\ threads_finished \in 0..NumTasks
    BY DEF TypeInv
  <2>2. QED
    BY <2>1, ThreadNames
<1>4. /\ TaskInv' /\ TypeInv' /\ ThreadInv' /\ SearchInv' /\ LockInv' /\ LoopInv' /\ MainInv'
      /\ slot[w] # Idle
      /\ pc'[w] = "wake" /\ \A t \in Threads : t # w => pc'[t] = pc[t]
  <2>1. sem' \in Nat /\ mutex' \in Threads /\ pc[w] \in Holding /\ mutex' = mutex
    BY <1>1, <1>2, <1>3, ThreadNames DEF Holding
  <2>2. paths' \in Seq([plan : Tasks, cells : Seq(Cells)])
    BY <1>1 DEF TypeInv
  <2>3. /\ Goto(w, "wake") /\ UNCHANGED poolVars
        /\ pc[w] \in {"found", "push", "release", "wake"}
        /\ "wake" \in {"push", "release", "wake", "return"}
    OBVIOUS
  <2> HIDE DEF PlanInv, ReleaseAdds
  <2>4. QED
    BY <2>1, <2>2, <2>3, TaskMoves
<1>5. Past(AfterPush)' = Past(AfterPush)
  BY <1>1, <1>4, PastStays, ThreadNames DEF AfterPush
<1>6. CountInv'
  <2> DEFINE P == Past(AfterRelease)
  <2>1. P' = P \union {slot[w]} /\ slot[w] \notin P
    BY <1>1, <1>4, PastGrows, ThreadNames DEF AfterRelease
  <2>2. IsFiniteSet(P) /\ Cardinality(P) \in Nat
    BY WorkersFinite, FS_Subset, FS_CardinalityType DEF Past
  <2>3. Cardinality(P') = Cardinality(P) + 1
    BY <2>1, <2>2, FS_AddElement
  <2>4. QED
    BY <1>1, <1>3, <2>2, <2>3 DEF CountInv
<1>7. PermitForEveryPath'
  <2> DEFINE R == {v \in Workers : pc[v] = "release"}
             T == {v \in Workers : pc'[v] = "release"}
  <2>1. R = T \union {w} /\ w \notin T /\ T \in SUBSET Workers
    BY <1>4, ThreadNames
  <2>2. Cardinality(R) = Cardinality(T) + 1
    BY <2>1, OneMoreWorker
  <2>3. Cardinality(T) \in Nat /\ Len(paths) \in Nat
    BY <2>1, WorkersFinite, LenProperties DEF TypeInv
  <2>4. QED
    BY <1>1, <1>3, <2>2, <2>3 DEF PermitForEveryPath
<1>8. OnceInv'
  BY <1>1, <1>5, OnceStays
<1>9. QED
  BY <1>4, <1>6, <1>7, <1>8

(* A task returns: its plan stays among those that were pushed.            *)
LEMMA TaskReturnsKeeps ==
  ASSUME PlanInv, NEW w \in Workers, TaskReturns(w), TaskFrame
  PROVE  PlanInv'
<1> USE DEF PlanInv, TaskReturns, Goto
<1>1. /\ UNCHANGED <<sem, paths, reached, expanded, looking, result, scene, mode,
                     map, main, threads_finished, drawing, drawn, queue>>
      /\ pc' = [pc EXCEPT ![w] = "idle"]
  BY DEF TaskFrame, searchVars, inputVars, mainVars, loopVars, Finish
<1>2. w \in Threads /\ w # Main /\ mode # "SINGLE" /\ mutex = w /\ slot[w] \in Tasks
  BY ThreadNames DEF ThreadInv, MainInv, LockInv, Holding, TaskInv, PoolTypeOK
<1>3. pc'[w] = "idle" /\ \A t \in Threads : t # w => pc'[t] = pc[t]
  BY <1>1, <1>2 DEF TypeInv
<1>4. /\ slot'[w] = Idle /\ \A v \in Workers : v # w => slot'[v] = slot[v]
      /\ finished' = finished \union {slot[w]}
  BY DEF Finish, TaskInv, PoolTypeOK
<1>5. TaskInv'
  BY FinishStep
<1>6. TypeInv'
  BY <1>1, <1>2 DEF TypeInv
<1>7. ThreadInv'
  BY <1>1, <1>2, <1>3, <1>4, ThreadNames DEF ThreadInv
<1>8. SearchInv'
  <2>1. \A t \in Threads : t # w => From(t)' = From(t) /\ To(t)' = To(t)
    BY <1>1, <1>4, ThreadNames DEF From, To, Plan
  <2>2. QED
    BY <1>1, <1>2, <1>3, <2>1 DEF SearchInv
<1>9. LockInv'
  BY <1>1, <1>2, <1>3, ThreadNames DEF LockInv, Holding
<1>10. MainInv'
  BY <1>1, <1>2 DEF MainInv, LoopIsOver
<1>11. LoopInv'
  BY <1>1, <1>2, <1>4 DEF LoopInv
<1>12. ASSUME NEW points \in {AfterPush, AfterRelease}
       PROVE  Past(points)' = Past(points)
  <2>1. pc[w] \in points /\ pc'[w] \notin points
    BY <1>3 DEF AfterPush, AfterRelease
  <2>2. QED
    BY <1>2, <1>3, <1>4, <2>1, ThreadNames DEF Past
<1>13. CountInv'
  BY <1>1, <1>12 DEF CountInv
<1>14. {v \in Workers : pc'[v] = "release"} = {v \in Workers : pc[v] = "release"}
  BY <1>3, ThreadNames
<1>15. PermitForEveryPath'
  BY <1>1, <1>14 DEF PermitForEveryPath
<1>16. OnceInv'
  BY <1>1, <1>12, OnceStays
<1>17. QED
  BY <1>5, <1>6, <1>7, <1>8, <1>9, <1>10, <1>11, <1>13, <1>15, <1>16

-----------------------------------------------------------------------------
(* The steps of Main.  None of them moves another thread.                  *)
MainFrame == UNCHANGED <<inputVars, pc, searchVars>>

(* A step of Main that leaves slot and finished alone leaves alone what is *)
(* said of the threads and of the tasks past a point.                      *)
LEMMA MainMoves ==
  ASSUME PlanInv, MainFrame, UNCHANGED <<slot, finished>>
  PROVE  /\ UNCHANGED <<scene, mode, pc, reached, expanded, looking, result>>
         /\ ThreadInv' /\ SearchInv'
         /\ Past(AfterPush)' = Past(AfterPush)
         /\ Past(AfterRelease)' = Past(AfterRelease)
<1> USE DEF PlanInv
<1>1. UNCHANGED <<scene, mode, pc, reached, expanded, looking, result>>
  BY DEF MainFrame, inputVars, searchVars
<1>2. ThreadInv'
  BY <1>1 DEF ThreadInv
<1>3. SearchInv'
  BY <1>1 DEF SearchInv, From, To, Plan
<1>4. QED
  BY <1>1, <1>2, <1>3 DEF Past

(* The steps that only move Main, outside the part under the mutex, or     *)
(* give the pool a task.                                                   *)
LEMMA MainWalks ==
  ASSUME PlanInv, MainFrame, TaskInv', UNCHANGED <<slot, finished>>,
         UNCHANGED <<mutex, sem, paths, threads_finished, drawing, drawn>>,
         map' \in [Cells -> 0..CellValues - 1],
         main \notin {"lock", "take"}, main' \notin {"lock", "take"},
         main' \in {"enqueue", "loop", "closing", "convert", "rejected", "done"},
         MainInv'
  PROVE  PlanInv'
<1> USE DEF PlanInv
<1>1. /\ UNCHANGED <<scene, mode, pc, reached, expanded, looking, result>>
      /\ ThreadInv' /\ SearchInv'
      /\ Past(AfterPush)' = Past(AfterPush)
      /\ Past(AfterRelease)' = Past(AfterRelease)
  BY MainMoves
<1>2. TypeInv'
  BY <1>1 DEF TypeInv
<1>3. LockInv'
  BY <1>1 DEF LockInv
<1>4. CountInv' /\ LoopInv' /\ PermitForEveryPath'
  BY <1>1 DEF CountInv, LoopInv, PermitForEveryPath
<1>5. OnceInv'
  BY <1>1, OnceStays
<1>6. QED
  BY <1>1, <1>2, <1>3, <1>4, <1>5

(* The steps of Main that neither take a permit, nor hold the mutex, nor   *)
(* draw.                                                                   *)
LEMMA MainWalksKeep ==
  ASSUME PlanInv, MainFrame,
         \/ ReadCoordinates \/ EnqueuePlan \/ PathIsDrawn
         \/ LeaveScope \/ PoolIsGone \/ Convert
  PROVE  PlanInv'
<1> USE DEF PlanInv, loopVars, syncVars
<1>0. UNCHANGED <<scene, mode, pc, reached, expanded, looking, result>>
  BY DEF MainFrame, inputVars, searchVars
<1>1. CASE ReadCoordinates
  <2>1. TaskInv' /\ UNCHANGED <<queue, slot, finished>>
    BY <1>1, PoolStutter DEF ReadCoordinates, poolVars
  <2>2. MainInv'
    BY <1>0, <1>1, <2>1 DEF ReadCoordinates, AfterEnqueuing, MainInv, LoopIsOver
  <2>3. QED
    BY <1>1, <2>1, <2>2, MainWalks DEF ReadCoordinates, AfterEnqueuing, TypeInv
<1>2. CASE EnqueuePlan
  <2>1. TaskInv' /\ UNCHANGED <<slot, finished>>
    BY <1>2, SubmitStep DEF EnqueuePlan, Submit
  <2>2. MainInv'
    BY <1>0, <1>2, <2>1 DEF EnqueuePlan, AfterEnqueuing, MainInv, LoopIsOver
  <2>3. QED
    BY <1>2, <2>1, <2>2, MainWalks DEF EnqueuePlan, AfterEnqueuing, TypeInv
<1>3. CASE PathIsDrawn
  <2>1. TaskInv' /\ UNCHANGED <<queue, slot, finished>>
    BY <1>3, PoolStutter DEF PathIsDrawn, poolVars
  <2>2. MainInv'
    BY <1>0, <1>3, <2>1 DEF PathIsDrawn, MainInv, LoopIsOver
  <2>3. QED
    BY <1>3, <2>1, <2>2, MainWalks DEF PathIsDrawn, TypeInv
<1>4. CASE LeaveScope
  <2>1. TaskInv' /\ UNCHANGED <<queue, slot, finished>>
    BY <1>4, PoolStutter DEF LeaveScope, BeginClose
  <2>2. threads_finished = NumTasks
    BY <1>4, ThreadNames DEF LeaveScope, MorePlans, TypeInv
  <2>3. MainInv'
    BY <1>0, <1>4, <2>1, <2>2 DEF LeaveScope, MainInv, LoopIsOver
  <2>4. QED
    BY <1>4, <2>1, <2>3, MainWalks DEF LeaveScope, TypeInv
<1>5. CASE PoolIsGone
  <2>1. TaskInv' /\ UNCHANGED <<queue, slot, finished>>
    BY <1>5, PoolStutter DEF PoolIsGone, EndClose
  <2>2. MainInv'
    BY <1>0, <1>5, <2>1 DEF PoolIsGone, MainInv, LoopIsOver
  <2>3. QED
    BY <1>5, <2>1, <2>2, MainWalks DEF PoolIsGone, TypeInv
<1>6. CASE Convert
  <2>1. TaskInv' /\ UNCHANGED <<queue, slot, finished>>
    BY <1>6, PoolStutter DEF Convert, poolVars
  <2>2. MainInv'
    BY <1>0, <1>6, <2>1 DEF Convert, MainInv, LoopIsOver
  <2>3. map' \in [Cells -> 0..CellValues - 1]
    <3>1. 2 \in 0..CellValues - 1
      BY LabelAssumption DEF CellValues
    <3>2. QED
      BY <1>6, <3>1 DEF Convert, Converted, TypeInv
  <2>4. QED
    BY <1>6, <2>1, <2>2, <2>3, MainWalks DEF Convert
<1>7. QED
  BY <1>1, <1>2, <1>3, <1>4, <1>5, <1>6

(* sem.acquire(): a permit less, a finished thread more.                   *)
LEMMA AcquirePermitKeeps ==
  ASSUME PlanInv, MainFrame, AcquirePermit
  PROVE  PlanInv'
<1> USE DEF PlanInv, AcquirePermit
<1>1. /\ UNCHANGED <<queue, slot, finished, map, mutex, paths, drawing, drawn>>
      /\ TaskInv'
  BY PoolStutter DEF poolVars
<1>2. /\ UNCHANGED <<scene, mode, pc, reached, expanded, looking, result>>
      /\ ThreadInv' /\ SearchInv'
      /\ Past(AfterPush)' = Past(AfterPush)
      /\ Past(AfterRelease)' = Past(AfterRelease)
  BY <1>1, MainMoves
<1>3. /\ sem \in Nat \ {0} /\ sem' = sem - 1 /\ sem' \in Nat
      /\ threads_finished \in Nat /\ threads_finished < NumTasks
      /\ threads_finished' = threads_finished + 1
  BY ThreadNames DEF TypeInv, HasPermit, MorePlans
<1>4. TypeInv'
  BY <1>1, <1>2, <1>3, ThreadNames DEF TypeInv
<1>5. LockInv'
  BY <1>1, <1>2 DEF LockInv
<1>6. MainInv'
  BY <1>1, <1>2 DEF MainInv, LoopIsOver
<1>7. CountInv' /\ LoopInv'
  BY <1>2, <1>3 DEF CountInv, LoopInv
<1>8. PermitForEveryPath'
  <2> DEFINE R == {w \in Workers : pc[w] = "release"}
  <2>1. Cardinality(R) \in Nat /\ Len(paths) \in Nat
    BY WorkersFinite, LenProperties DEF TypeInv
  <2>2. QED
    BY <1>1, <1>2, <1>3, <2>1 DEF PermitForEveryPath
<1>9. OnceInv'
  BY <1>1, <1>2, OnceStays
<1>10. QED
  BY <1>1, <1>2, <1>4, <1>5, <1>6, <1>7, <1>8, <1>9

(* The permits that were given are those of different tasks.               *)
LEMMA PermitsBounded ==
  ASSUME PlanInv
  PROVE  /\ IsFiniteSet(Past(AfterRelease))
         /\ sem + threads_finished <= NumTasks
         /\ sem + threads_finished = NumTasks => Past(AfterRelease) = Tasks
<1>1. Past(AfterRelease) \subseteq Tasks
  BY DEF Past
<1>2. QED
  BY <1>1, WorkersFinite, FS_Subset DEF PlanInv, CountInv

(* Main takes the mutex after its last permit: the task that released the  *)
(* semaphore last has returned then.                                       *)
LEMMA LockForTakeKeeps ==
  ASSUME PlanInv, MainFrame, LockForTake
  PROVE  PlanInv'
<1> USE DEF PlanInv, LockForTake, loopVars
<1>1. /\ UNCHANGED <<queue, slot, finished, map, sem, paths, threads_finished, drawing, drawn>>
      /\ TaskInv'
  BY PoolStutter DEF poolVars
<1>2. /\ UNCHANGED <<scene, mode, pc, reached, expanded, looking, result>>
      /\ ThreadInv' /\ SearchInv'
      /\ Past(AfterPush)' = Past(AfterPush)
      /\ Past(AfterRelease)' = Past(AfterRelease)
  BY <1>1, MainMoves
<1>3. TypeInv'
  BY <1>1, <1>2, ThreadNames DEF TypeInv
<1>4. LockInv'
  BY <1>1, <1>2, ThreadNames DEF LockInv
<1>5. MainInv'
  BY <1>1, <1>2 DEF MainInv, LoopIsOver
<1>6. CountInv' /\ PermitForEveryPath'
  BY <1>1, <1>2 DEF CountInv, PermitForEveryPath
<1>7. LoopInv'
  <2> SUFFICES ASSUME threads_finished = NumTasks
               PROVE  finished = Tasks
    BY <1>1 DEF LoopInv
  <2>1. Past(AfterRelease) = finished
    BY ThreadNames DEF LockInv, Holding, AfterRelease, Past, TaskInv, PoolTypeOK
  <2>2. sem \in Nat /\ NumTasks \in Nat
    BY ThreadNames DEF TypeInv
  <2>3. sem + threads_finished = NumTasks
    BY <2>2, PermitsBounded
  <2>4. QED
    BY <2>1, <2>3, PermitsBounded
<1>8. OnceInv'
  BY <1>1, <1>2, OnceStays
<1>9. QED
  BY <1>1, <1>2, <1>3, <1>4, <1>5, <1>6, <1>7, <1>8

(* Taking the first entry of a sequence and adding one at the end of       *)
(* another moves one plan, whatever else the entries hold.                 *)
LEMMA PlanOfTail ==
  ASSUME NEW S, NEW q \in Seq(S), q # <<>>
  PROVE  /\ Head(q) \in S /\ Tail(q) \in Seq(S) /\ Len(q) \in Nat \ {0}
         /\ Len(Tail(q)) = Len(q) - 1 /\ Head(q) = q[1]
         /\ \A i \in 1..Len(Tail(q)) : i + 1 \in 1..Len(q) /\ Tail(q)[i] = q[i + 1]
         /\ PlanOf(q) = {Head(q).plan} \union PlanOf(Tail(q))
<1>1. /\ Head(q) \in S /\ Tail(q) \in Seq(S) /\ Len(q) \in Nat \ {0}
      /\ Len(Tail(q)) = Len(q) - 1 /\ Head(q) = q[1]
      /\ \A i \in 1..Len(Tail(q)) : Tail(q)[i] = q[i + 1]
  BY HeadTailProperties, EmptySeq
<1>2. \A i \in 1..Len(Tail(q)) : i + 1 \in 1..Len(q)
  BY <1>1
<1>3. {Head(q).plan} \union PlanOf(Tail(q)) \subseteq PlanOf(q)
  BY <1>1, <1>2 DEF PlanOf
<1>4. ASSUME NEW i \in 1..Len(q)
      PROVE  q[i].plan \in {Head(q).plan} \union PlanOf(Tail(q))
  <2>1. CASE i = 1
    BY <1>1, <2>1
  <2>2. CASE i # 1
    <3>1. i - 1 \in 1..Len(Tail(q)) /\ (i - 1) + 1 = i
      BY <1>1, <2>2
    <3>2. Tail(q)[i - 1] = q[i]
      BY <1>1, <3>1
    <3>3. QED
      BY <3>1, <3>2 DEF PlanOf
  <2>3. QED
    BY <2>1, <2>2
<1>5. QED
  BY <1>1, <1>2, <1>3, <1>4 DEF PlanOf

(* Adding an entry adds its plan.                                          *)
LEMMA PlanOfAppend ==
  ASSUME NEW S, NEW q \in Seq(S), NEW e \in S
  PROVE  /\ Append(q, e) \in Seq(S) /\ Len(q) \in Nat
         /\ Len(Append(q, e)) = Len(q) + 1
         /\ \A i \in 1..Len(q) : Append(q, e)[i] = q[i]
         /\ Append(q, e)[Len(q) + 1] = e
         /\ PlanOf(Append(q, e)) = PlanOf(q) \union {e.plan}
<1>1. /\ Append(q, e) \in Seq(S) /\ Len(q) \in Nat
      /\ Len(Append(q, e)) = Len(q) + 1
      /\ \A i \in 1..Len(q) : Append(q, e)[i] = q[i]
      /\ Append(q, e)[Len(q) + 1] = e
  BY AppendProperties, LenProperties
<1>2. \A i \in 1..Len(Append(q, e)) : i \in 1..Len(q) \/ i = Len(q) + 1
  BY <1>1
<1>3. QED
  BY <1>1, <1>2 DEF PlanOf

PathRecord == [plan : Tasks, cells : Seq(Cells)]
DrawnRecord == [plan : Tasks, at : Nat]

(* Main takes the oldest path, if there is one: its plan moves from the    *)
(* queue to the drawings.                                                  *)
LEMMA TakePathKeeps ==
  ASSUME PlanInv, MainFrame, TakePath
  PROVE  PlanInv'
<1> USE DEF PlanInv, TakePath
<1>1. /\ UNCHANGED <<queue, slot, finished, map, sem, threads_finished>>
      /\ TaskInv'
  BY PoolStutter DEF poolVars
<1>2. /\ UNCHANGED <<scene, mode, pc, reached, expanded, looking, result>>
      /\ ThreadInv' /\ SearchInv'
      /\ Past(AfterPush)' = Past(AfterPush)
      /\ Past(AfterRelease)' = Past(AfterRelease)
  BY <1>1, MainMoves
<1>3. LockInv'
  BY <1>1, <1>2, ThreadNames DEF LockInv
<1>4. CountInv' /\ LoopInv'
  BY <1>1, <1>2 DEF CountInv, LoopInv
<1>5. mode # "SINGLE" /\ drawing = NoPath
  BY DEF MainInv
<1>6. /\ paths \in Seq(PathRecord) /\ drawn \in Seq(DrawnRecord)
      /\ threads_finished \in Nat /\ Len(paths) \in Nat
  BY ThreadNames, LenProperties DEF TypeInv, PathRecord, DrawnRecord
<1>7. CASE paths = <<>>
  <2>1. UNCHANGED <<paths, drawing, drawn>>
    BY <1>7
  <2>2. TypeInv'
    BY <1>1, <1>2, <2>1, ThreadNames DEF TypeInv
  <2>3. MainInv'
    BY <1>1, <1>2, <1>5, <2>1 DEF MainInv, LoopIsOver
  <2>4. PermitForEveryPath'
    <3>1. Len(paths) = 0
      BY <1>7
    <3>2. sem \in Nat /\ Cardinality({w \in Workers : pc[w] = "release"}) \in Nat
      BY WorkersFinite DEF TypeInv
    <3>3. QED
      BY <1>1, <1>2, <2>1, <3>1, <3>2 DEF PermitForEveryPath
  <2>5. OnceInv'
    BY <1>2, <2>1, OnceStays
  <2>6. QED
    BY <1>1, <1>2, <1>3, <1>4, <2>2, <2>3, <2>4, <2>5
<1>8. CASE paths # <<>>
  <2> DEFINE k == Head(paths).plan
             e == [plan |-> k, at |-> threads_finished]
  <2>1. paths' = Tail(paths) /\ drawing' = result[k] /\ drawn' = Append(drawn, e)
    BY <1>8 DEF BeginDrawing, Popped
  <2>2. /\ Head(paths) \in PathRecord /\ Tail(paths) \in Seq(PathRecord)
        /\ Len(paths) \in Nat \ {0}
        /\ Len(paths') = Len(paths) - 1 /\ Head(paths) = paths[1]
        /\ \A i \in 1..Len(paths') : i + 1 \in 1..Len(paths) /\ paths'[i] = paths[i + 1]
        /\ PlanOf(paths) = {k} \union PlanOf(paths')
    BY <1>6, <1>8, <2>1, PlanOfTail
  <2>3. k \in Tasks /\ e \in DrawnRecord
    BY <1>6, <2>2 DEF PathRecord, DrawnRecord
  <2>4. /\ drawn' \in Seq(DrawnRecord) /\ Len(drawn) \in Nat
        /\ Len(drawn') = Len(drawn) + 1
        /\ \A i \in 1..Len(drawn) : drawn'[i] = drawn[i]
        /\ drawn'[Len(drawn) + 1] = e
        /\ PlanOf(drawn') = PlanOf(drawn) \union {k}
    <3>1. e.plan = k
      OBVIOUS
    <3> HIDE DEF e
    <3>2. QED
      BY <1>6, <2>1, <2>3, <3>1, PlanOfAppend
  <2>5. k \in PlanOf(paths)
    BY <2>2
  <2>6. k \notin PlanOf(drawn) /\ result[k] # NoPath
    BY <1>5, <2>5 DEF OnceInv
  <2>7. TypeInv'
    BY <1>1, <1>2, <2>1, <2>2, <2>3, <2>4, ThreadNames
       DEF TypeInv, PathRecord, DrawnRecord
  <2>8. MainInv'
    <3>1. drawn' # <<>>
      BY <2>4
    <3>2. QED
      BY <1>1, <1>2, <1>5, <3>1 DEF MainInv, LoopIsOver
  <2>9. PermitForEveryPath'
    <3>1. sem \in Nat /\ Cardinality({w \in Workers : pc[w] = "release"}) \in Nat
      BY WorkersFinite DEF TypeInv
    <3>2. QED
      BY <1>1, <1>2, <2>2, <3>1 DEF PermitForEveryPath
  <2>10. OnceInv'
    <3>1. \A i, j \in 1..Len(paths) : paths[i].plan = paths[j].plan => i = j
      BY <1>5 DEF OnceInv
    <3>2. \A i, j \in 1..Len(paths') : paths'[i].plan = paths'[j].plan => i = j
      <4> SUFFICES ASSUME NEW i \in 1..Len(paths'), NEW j \in 1..Len(paths'),
                          paths'[i].plan = paths'[j].plan
                   PROVE  i = j
        OBVIOUS
      <4>1. i + 1 = j + 1
        BY <2>2, <3>1
      <4>2. QED
        BY <2>2, <4>1
    <3>3. k \notin PlanOf(paths')
      <4> SUFFICES ASSUME NEW i \in 1..Len(paths'), paths'[i].plan = k
                   PROVE  FALSE
        BY DEF PlanOf
      <4>1. i + 1 \in 1..Len(paths) /\ 1 \in 1..Len(paths) /\ i \in Nat \ {0}
        BY <2>2
      <4>2. paths[i + 1].plan = paths[1].plan
        BY <2>2
      <4>3. i + 1 = 1
        BY <3>1, <4>1, <4>2
      <4>4. QED
        BY <4>1, <4>3
    <3>4. \A i \in 1..Len(drawn) : drawn[i].plan # k
      BY <2>6 DEF PlanOf
    <3>5. \A i, j \in 1..Len(drawn) : drawn[i].plan = drawn[j].plan => i = j
      BY <1>5 DEF OnceInv
    <3>6. drawn'[Len(drawn) + 1].plan = k
      BY <2>4
    <3>7. \A i \in 1..Len(drawn') : i \in 1..Len(drawn) \/ i = Len(drawn) + 1
      BY <2>4
    <3>8. \A i, j \in 1..Len(drawn') : drawn'[i].plan = drawn'[j].plan => i = j
      BY <2>4, <3>4, <3>5, <3>6, <3>7
    <3>9. PlanOf(paths') \intersect PlanOf(drawn') = {}
      BY <1>5, <2>2, <2>4, <3>3 DEF OnceInv
    <3>10. PlanOf(paths') \union PlanOf(drawn') =
             {j \in Past(AfterPush)' : result[j] # NoPath}
      BY <1>2, <1>5, <2>2, <2>4 DEF OnceInv
    <3>11. \A i \in 1..Len(paths') : paths'[i].cells = result[paths'[i].plan]
      BY <1>5, <2>2 DEF OnceInv
    <3>12. PlanOf(paths)' = PlanOf(paths') /\ PlanOf(drawn)' = PlanOf(drawn')
      BY DEF PlanOf
    <3>13. QED
      BY <1>2, <3>2, <3>8, <3>9, <3>10, <3>11, <3>12 DEF OnceInv
  <2>11. QED
    BY <1>1, <1>2, <1>3, <1>4, <2>7, <2>8, <2>9, <2>10
<1>9. QED
  BY <1>7, <1>8

(* SINGLE mode: find_path has returned to Main.                            *)
LEMMA SingleReturnsKeeps ==
  ASSUME PlanInv, MainFrame, SingleReturns
  PROVE  PlanInv'
<1> USE DEF PlanInv, SingleReturns
<1>1. /\ UNCHANGED <<queue, slot, finished, map, sem, mutex, paths, threads_finished>>
      /\ TaskInv'
  BY PoolStutter DEF poolVars, syncVars
<1>2. /\ UNCHANGED <<scene, mode, pc, reached, expanded, looking, result>>
      /\ ThreadInv' /\ SearchInv'
      /\ Past(AfterPush)' = Past(AfterPush)
      /\ Past(AfterRelease)' = Past(AfterRelease)
  BY <1>1, MainMoves
<1>3. mode = "SINGLE" /\ main' \in {"no path", "draw"}
  BY DEF MainInv
<1>4. LockInv' /\ CountInv' /\ LoopInv' /\ PermitForEveryPath' /\ OnceInv'
  BY <1>1, <1>2, <1>3 DEF LockInv, CountInv, LoopInv, PermitForEveryPath, OnceInv
<1>5. drawing = NoPath /\ drawn = <<>>
  BY <1>3 DEF MainInv
<1>6. CASE result[1] = NoPath
  <2>1. UNCHANGED <<drawing, drawn>> /\ main' = "no path"
    BY <1>6
  <2>2. TypeInv'
    BY <1>1, <1>2, <2>1 DEF TypeInv
  <2>3. MainInv'
    BY <1>1, <1>2, <1>3, <1>6, <2>1 DEF MainInv
  <2>4. QED
    BY <1>1, <1>2, <1>4, <2>2, <2>3
<1>7. CASE result[1] # NoPath
  <2>1. /\ main' = "draw" /\ drawing' = result[1]
        /\ drawn' = <<[plan |-> 1, at |-> 2]>>
    BY <1>5, <1>7 DEF BeginDrawing
  <2>2. [plan |-> 1, at |-> 2] \in DrawnRecord
    BY <1>3 DEF ThreadInv, DrawnRecord
  <2>3. drawn' \in Seq(DrawnRecord) /\ drawn' # <<>>
    BY <2>1, <2>2
  <2>4. TypeInv'
    BY <1>1, <1>2, <2>1, <2>3, ThreadNames DEF TypeInv, DrawnRecord
  <2>5. MainInv'
    BY <1>1, <1>2, <1>3, <1>7, <2>1, <2>3 DEF MainInv
  <2>6. QED
    BY <1>1, <1>2, <1>4, <2>4, <2>5
<1>8. QED
  BY <1>6, <1>7

(* The label of a drawing is the value of a cell.                          *)
LEMMA LabelIsCellValue ==
  ASSUME NEW n \in Nat
  PROVE  Label(n) \in 0..CellValues - 1
<1>1. CellValues \in Nat \ {0} /\ (n % LabelModulus) + 2 \in Nat
  BY LabelAssumption DEF CellValues
<1>2. QED
  BY <1>1 DEF Label

(* Drawing one cell.                                                       *)
LEMMA DrawCellKeeps ==
  ASSUME PlanInv, MainFrame, DrawCell
  PROVE  PlanInv'
<1> USE DEF PlanInv, DrawCell
<1>1. /\ UNCHANGED <<queue, slot, finished, sem, mutex, paths, threads_finished, main, drawn>>
      /\ TaskInv'
  BY PoolStutter DEF poolVars, syncVars
<1>2. /\ UNCHANGED <<scene, mode, pc, reached, expanded, looking, result>>
      /\ ThreadInv' /\ SearchInv'
      /\ Past(AfterPush)' = Past(AfterPush)
      /\ Past(AfterRelease)' = Past(AfterRelease)
  BY <1>1, MainMoves
<1>3. LockInv' /\ CountInv' /\ LoopInv' /\ PermitForEveryPath'
  BY <1>1, <1>2 DEF LockInv, CountInv, LoopInv, PermitForEveryPath
<1>4. OnceInv'
  BY <1>1, <1>2, OnceStays
<1>5. drawing \in Seq(Cells) /\ drawing # NoPath /\ drawn # <<>>
  BY DEF TypeInv, MainInv
<1>6. Head(drawing) \in Cells /\ drawing' \in Seq(Cells)
  BY <1>5, CellsOfTail
<1>7. map' \in [Cells -> 0..CellValues - 1]
  <2>1. drawn \in Seq(DrawnRecord)
    BY DEF TypeInv, DrawnRecord
  <2>2. Len(drawn) \in 1..Len(drawn)
    BY <1>5, <2>1, EmptySeq, LenProperties
  <2>3. drawn[Len(drawn)] \in DrawnRecord
    BY <2>1, <2>2, ElementOfSeq
  <2>4. drawn[Len(drawn)].at \in Nat
    BY <2>3 DEF DrawnRecord
  <2>5. QED
    BY <1>6, <2>4, LabelIsCellValue DEF TypeInv
<1>8. TypeInv'
  BY <1>1, <1>2, <1>6, <1>7 DEF TypeInv
<1>9. MainInv'
  BY <1>1, <1>2, <1>5 DEF MainInv, LoopIsOver
<1>10. QED
  BY <1>1, <1>2, <1>3, <1>4, <1>8, <1>9

-----------------------------------------------------------------------------
(* The program starts in the invariant.                                    *)
LEMMA PlanningStarts == Init => PlanInv
<1> SUFFICES ASSUME Init
             PROVE  PlanInv
  OBVIOUS
<1> USE DEF Init
<1>1. TaskInv /\ queue = <<>> /\ enqueued = 0 /\ finished = {} /\ \A w \in Workers : slot[w] = Idle
  BY PoolStarts DEF PoolInit
<1>2. Original \in [Cells -> 0..CellValues - 1]
  <2>1. scene.map \in [Cells -> Int]
    BY ScenesAssumption
  <2>2. CellValues \in Nat \ {0}
    BY LabelAssumption DEF CellValues
  <2>3. \A n \in Int : n % CellValues \in 0..CellValues - 1
    BY <2>2
  <2>4. QED
    BY <2>1, <2>3 DEF Original, read_map
<1>3. NoPath \in Seq(Cells) /\ <<>> \in Seq(PathRecord) /\ <<>> \in Seq(DrawnRecord)
  BY EmptySeq DEF NoPath
<1>4. \A w \in Workers : pc[w] = "idle"
  BY ThreadNames
<1>5. TypeInv
  BY <1>2, <1>3, ThreadNames DEF TypeInv, PathRecord, DrawnRecord
<1>6. ThreadInv
  <2>1. mode = "SINGLE" => 1 \in Tasks
    BY ThreadNames DEF Tasks
  <2>2. QED
    BY <1>1, <1>4, <2>1, ThreadNames DEF ThreadInv
<1>7. SearchInv
  BY DEF SearchInv
<1>8. LockInv
  BY <1>4, ThreadNames DEF LockInv, Holding
<1>9. MainInv
  BY <1>1 DEF MainInv, LoopIsOver, NoPath
<1>10. Past(AfterPush) = {} /\ Past(AfterRelease) = {}
  BY <1>1, <1>4 DEF Past, AfterPush, AfterRelease
<1>11. CountInv
  BY <1>10, FS_EmptySet DEF CountInv
<1>12. LoopInv
  BY <1>1, ThreadNames DEF LoopInv, Tasks
<1>13. PermitForEveryPath
  <2>1. {w \in Workers : pc[w] = "release"} = {}
    BY <1>4
  <2>2. Len(paths) = 0 /\ sem = 0 /\ main \notin {"lock", "take"}
    OBVIOUS
  <2> HIDE DEF Init
  <2>3. Cardinality({w \in Workers : pc[w] = "release"}) = 0
    BY <2>1, FS_EmptySet
  <2>4. QED
    BY <2>2, <2>3 DEF PermitForEveryPath
<1>14. OnceInv
  BY <1>10 DEF OnceInv, PlanOf
<1>15. QED
  BY <1>1, <1>5, <1>6, <1>7, <1>8, <1>9, <1>11, <1>12, <1>13, <1>14 DEF PlanInv

(* Every step of every thread keeps it.                                    *)
LEMMA PlanningSteps == PlanInv /\ [Next]_vars => PlanInv'
<1> SUFFICES ASSUME PlanInv, [Next]_vars
             PROVE  PlanInv'
  OBVIOUS
<1>1. CASE MainStep
  <2>1. MainFrame
    BY <1>1 DEF MainStep, MainFrame
  <2>2. QED
    BY <1>1, <2>1, MainWalksKeep, AcquirePermitKeeps, LockForTakeKeeps,
       TakePathKeeps, SingleReturnsKeeps, DrawCellKeeps DEF MainStep
<1>2. ASSUME NEW t \in Threads, ThreadStep(t)
      PROVE  PlanInv'
  <2>1. CASE Search(t)
    <3>1. Frame
      BY <1>2, <2>1 DEF ThreadStep, Search, Frame
    <3>2. QED
      BY <2>1, <3>1, SearchKeepsCore, SearchKeepsCounts DEF PlanInv
  <2>2. CASE t \in Workers /\ Task(t)
    <3>1. TaskFrame
      BY <1>2, <2>2 DEF ThreadStep, Task, TaskFrame
    <3>2. QED
      BY <2>2, <3>1, TakePlanKeeps, LockPathsKeeps, PushPathKeeps,
         ReleaseAddsKeeps, ReleaseWakesKeeps, TaskReturnsKeeps DEF Task
  <2>3. QED
    BY <1>2, <2>1, <2>2 DEF ThreadStep
<1>3. CASE UNCHANGED vars
  <2>1. TaskInv'
    BY <1>3, PoolStutter DEF vars, PlanInv
  <2>2. MainFrame /\ UNCHANGED <<slot, finished, queue>>
    BY <1>3 DEF vars, MainFrame, poolVars
  <2>3. UNCHANGED <<mutex, sem, paths, threads_finished, drawing, drawn, map, main>>
    BY <1>3 DEF vars, syncVars, mainVars, loopVars
  <2>4. /\ UNCHANGED <<scene, mode, pc, reached, expanded, looking, result>>
        /\ ThreadInv' /\ SearchInv'
        /\ Past(AfterPush)' = Past(AfterPush)
        /\ Past(AfterRelease)' = Past(AfterRelease)
    BY <2>2, MainMoves
  <2>5. TypeInv' /\ LockInv' /\ MainInv'
    BY <2>2, <2>3, <2>4 DEF PlanInv, TypeInv, LockInv, MainInv, LoopIsOver
  <2>6. CountInv' /\ LoopInv' /\ PermitForEveryPath'
    BY <2>2, <2>3, <2>4 DEF PlanInv, CountInv, LoopInv, PermitForEveryPath
  <2>7. OnceInv'
    BY <2>3, <2>4, OnceStays DEF PlanInv
  <2>8. QED
    BY <2>1, <2>4, <2>5, <2>6, <2>7 DEF PlanInv
<1>4. QED
  BY <1>1, <1>2, <1>3 DEF Next, Terminated

(* The invariant holds in every state of the program.                      *)
LEMMA PlanningInvariant == Spec => []PlanInv
  BY PlanningStarts, PlanningSteps, PTL DEF Spec

-----------------------------------------------------------------------------
(* It implies that the variables have their types; there are at most as    *)
(* many permits as plans.                                                  *)
LEMMA PlanningTyped == PlanInv => PlanningTypeOK
<1> SUFFICES ASSUME PlanInv
             PROVE  PlanningTypeOK
  OBVIOUS
<1> USE DEF PlanInv, TypeInv
<1>1. sem \in 0..NumTasks
  <2>1. sem \in Nat /\ threads_finished \in 0..NumTasks
    OBVIOUS
  <2>2. sem + threads_finished <= NumTasks
    BY PermitsBounded
  <2>3. NumTasks \in Nat
    BY ThreadNames
  <2> HIDE DEF PlanInv, TypeInv
  <2>4. QED
    BY <2>1, <2>2, <2>3
<1>2. \A i \in 1..Len(paths) : /\ paths[i].plan \in Tasks
                               /\ paths[i].cells = result[paths[i].plan]
  <2>1. CASE mode = "SINGLE"
    <3>1. paths = <<>>
      BY <2>1 DEF MainInv
    <3> HIDE DEF PlanInv, TypeInv
    <3>2. Len(paths) = 0
      BY <3>1
    <3>3. 1..Len(paths) = {}
      BY <3>2
    <3>4. QED
      BY <3>3
  <2>2. CASE mode # "SINGLE"
    <3>1. \A i \in 1..Len(paths) : paths[i].plan \in PlanOf(paths)
      BY DEF PlanOf
    <3>2. PlanOf(paths) \subseteq Tasks
      BY <2>2 DEF OnceInv, Past
    <3>3. QED
      BY <2>2, <3>1, <3>2 DEF OnceInv
  <2>3. QED
    BY <2>1, <2>2
<1>3. CellsOf(drawing) \subseteq Cells /\ \A k \in Tasks : CellsOf(result[k]) \subseteq Cells
  BY CellsOfSeq
<1>4. \A t \in Threads : expanded[t] \subseteq reached[t] /\ reached[t] \subseteq Cells
  BY DEF SearchInv
<1>5. QED
  BY <1>1, <1>2, <1>3, <1>4 DEF TaskInv, PlanningTypeOK

(* The variables keep their types for every number of workers and plans,   *)
(* every map and every input; in particular the semaphore never counts     *)
(* more than one permit per plan, and a queued path is the one its search  *)
(* found.  (multithread_path_plan does not bound the number of plans: with *)
(* up to 255 of them this keeps the counting_semaphore<255> within its     *)
(* maximum, with more nothing does.)                                       *)
THEOREM PlanningTypeCorrect == Spec => []PlanningTypeOK
  BY PlanningInvariant, PlanningTyped, PTL

(* path_planner_worker_thread and multithread_path_plan: there is always a *)
(* permit for every queued path, in Main, in the semaphore or in a task    *)
(* that is about to release it.                                            *)
THEOREM PermitsCoverPaths == Spec => []PermitForEveryPath
<1>1. PlanInv => PermitForEveryPath
  BY DEF PlanInv
<1>2. QED
  BY <1>1, PlanningInvariant, PTL

(* When the loop has ended all tasks have finished, so no worker has one.  *)
LEMMA AllReturned == PlanInv => NoUseAfterDestroy
<1> SUFFICES ASSUME PlanInv, LoopIsOver, NEW w \in Workers
             PROVE  pc[w] = "idle"
  BY DEF NoUseAfterDestroy
<1> USE DEF PlanInv
<1>1. CASE mode = "SINGLE"
  BY <1>1 DEF MainInv, ThreadInv
<1>2. CASE mode # "SINGLE"
  <2>1. finished = Tasks
    BY <1>2 DEF MainInv, LoopInv, LoopIsOver
  <2>2. slot[w] = Idle
    BY <2>1 DEF TaskInv, PoolTypeOK, PlaceInv
  <2>3. QED
    BY <2>2 DEF ThreadInv
<1>3. QED
  BY <1>1, <1>2

(* multithread_path_plan: no task uses the queue, the semaphore or the     *)
(* mutex once they may have been destroyed, for every number of workers    *)
(* and plans: Main takes the mutex after its last permit, and so after the *)
(* task that gave it has returned.                                         *)
THEOREM DestroyedUnused == Spec => []NoUseAfterDestroy
  BY PlanningInvariant, AllReturned, PTL

(* When the loop has ended all tasks have pushed, and the queue is empty   *)
(* as no permit is left.                                                   *)
LEMMA AllDrawn == PlanInv => EveryPathDrawnOnce
<1> SUFFICES ASSUME PlanInv, LoopIsOver
             PROVE  /\ paths = <<>>
                    /\ \A k \in Tasks :
                         Cardinality({i \in 1..Len(drawn) : drawn[i].plan = k})
                           = (IF result[k] = NoPath THEN 0 ELSE 1)
  BY DEF EveryPathDrawnOnce
<1> USE DEF PlanInv
<1>1. CASE mode = "SINGLE"
  <2>1. /\ paths = <<>> /\ drawn = <<[plan |-> 1, at |-> 2]>> /\ result[1] # NoPath
        /\ \A k \in Tasks : k # 1 => result[k] = NoPath
    BY <1>1 DEF MainInv, LoopIsOver
  <2>2. Len(drawn) = 1 /\ drawn[1].plan = 1
    BY <2>1
  <2>3. ASSUME NEW k \in Tasks
        PROVE  Cardinality({i \in 1..Len(drawn) : drawn[i].plan = k})
                 = (IF result[k] = NoPath THEN 0 ELSE 1)
    <3>1. CASE k = 1
      <4>1. {i \in 1..Len(drawn) : drawn[i].plan = k} = {1}
        BY <2>2, <3>1
      <4>2. QED
        BY <2>1, <3>1, <4>1, FS_Singleton
    <3>2. CASE k # 1
      <4>1. {i \in 1..Len(drawn) : drawn[i].plan = k} = {}
        BY <2>2, <3>2
      <4>2. QED
        BY <2>1, <3>2, <4>1, FS_EmptySet
    <3>3. QED
      BY <3>1, <3>2
  <2>4. QED
    BY <2>1, <2>3
<1>2. CASE mode # "SINGLE"
  <2>1. finished = Tasks /\ threads_finished = NumTasks
    BY <1>2 DEF MainInv, LoopInv, LoopIsOver
  <2>2. paths = <<>>
    <3>1. sem \in Nat /\ NumTasks \in Nat /\ paths \in Seq(PathRecord)
      BY ThreadNames DEF TypeInv, PathRecord
    <3>2. sem = 0
      BY <2>1, <3>1, PermitsBounded
    <3>3. {w \in Workers : pc[w] = "release"} = {}
      BY AllReturned DEF NoUseAfterDestroy
    <3>4. Len(paths) <= 0
      BY <3>2, <3>3, FS_EmptySet DEF PermitForEveryPath, LoopIsOver
    <3>5. QED
      BY <3>1, <3>4, EmptySeq, LenProperties
  <2>3. PlanOf(paths) = {}
    BY <2>2 DEF PlanOf
  <2>4. Past(AfterPush) = Tasks
    BY <2>1 DEF Past
  <2>5. PlanOf(drawn) = {k \in Tasks : result[k] # NoPath}
    BY <1>2, <2>3, <2>4 DEF OnceInv
  <2>6. ASSUME NEW k \in Tasks
        PROVE  Cardinality({i \in 1..Len(drawn) : drawn[i].plan = k})
                 = (IF result[k] = NoPath THEN 0 ELSE 1)
    <3> DEFINE I == {i \in 1..Len(drawn) : drawn[i].plan = k}
    <3>1. CASE result[k] = NoPath
      <4>1. I = {}
        BY <2>5, <3>1 DEF PlanOf
      <4>2. QED
        BY <3>1, <4>1, FS_EmptySet
    <3>2. CASE result[k] # NoPath
      <4>1. PICK i \in 1..Len(drawn) : drawn[i].plan = k
        BY <2>5, <3>2 DEF PlanOf
      <4>2. \A j \in I : j = i
        BY <1>2, <4>1 DEF OnceInv
      <4>3. I = {i}
        BY <4>1, <4>2
      <4>4. QED
        BY <3>2, <4>3, FS_Singleton
    <3>3. QED
      BY <3>1, <3>2
  <2>7. QED
    BY <2>2, <2>6
<1>3. QED
  BY <1>1, <1>2

(* multithread_path_plan draws every path that was found, once, although   *)
(* it counts permits and not paths, for every number of workers and plans. *)
THEOREM PathsDrawnOnce == Spec => []EveryPathDrawnOnce
  BY PlanningInvariant, AllDrawn, PTL

-----------------------------------------------------------------------------
(* The map.  A label is at least 2 and its arithmetic does not wrap as long *)
(* as there are fewer than 254 plans (LabelModulus is 255 in the program). *)
LabelsFit == NumTasks + 1 < LabelModulus /\ 3 < LabelModulus

(* The plans whose find_path has returned.                                 *)
Returned == {"found"} \union Holding
Known == {k \in Tasks : \/ k \in finished
                        \/ \E t \in Threads : pc[t] \in Returned /\ Plan(t) = k}

(* Drawing takes no free cell away and frees no other, so every search     *)
(* sees the free cells of the original map.                                *)
FreeInv ==
  /\ Free(map) = Free(Original)
  /\ \A t \in Threads :
       /\ reached[t] \subseteq Free(Original)
       /\ \A c \in expanded[t] :
            Neighbours(c) \intersect Free(Original) \subseteq reached[t] \union looking[t]
  /\ \A k \in Tasks : CellsOf(result[k]) \subseteq Free(Original)
  /\ CellsOf(drawing) \subseteq Free(Original)

AllRoutes(k) ==
  IF scene.start[k] = scene.goal[k] \/ scene.start[k] \notin Free(Original) THEN {}
  ELSE Routes(scene.start[k], scene.goal[k], Free(Original))
RightAnswer(k) ==
  IF AllRoutes(k) = {} THEN result[k] = NoPath ELSE result[k] \in AllRoutes(k)
RouteInv == \A k \in Known : RightAnswer(k)

(* What has been drawn over a cell is the last path that goes over it,     *)
(* unless Main has not come to that cell yet.                              *)
LastOver(c, i) == i \in Covering(c) /\ \A j \in Covering(c) : j <= i
Stamped(c) ==
  /\ Covering(c) = {} => map[c] = Original[c]
  /\ \A i \in 1..Len(drawn) :
       LastOver(c, i) => \/ map[c] = (drawn[i].at % LabelModulus) + 2
                         \/ i = Len(drawn) /\ c \in CellsOf(drawing)
Printed(c) ==
  /\ Covering(c) = {} =>
       map[c] = IF mode = "INPUT" /\ Original[c] > 2 THEN 2 ELSE Original[c]
  /\ \A i \in 1..Len(drawn) :
       LastOver(c, i) => map[c] = IF mode = "INPUT" THEN 2
                                  ELSE (drawn[i].at % LabelModulus) + 2
DrawInv ==
  /\ \A i \in 1..Len(drawn) : drawn[i].at + 1 < LabelModulus
  /\ drawing # NoPath =>
       CellsOf(drawing) \subseteq CellsOf(result[drawn[Len(drawn)].plan])
  /\ \A c \in Cells : IF main = "done" THEN Printed(c) ELSE Stamped(c)

MapInv == FreeInv /\ RouteInv /\ DrawInv

-----------------------------------------------------------------------------
(* A set of numbers has a smallest element: what stands here for           *)
(* induction.                                                              *)
LEMMA SmallestOf ==
  ASSUME NEW B \in SUBSET Nat, B # {}
  PROVE  \E m \in B : \A n \in B : m <= n
<1> DEFINE less == {ss \in Nat \X Nat : ss[1] < ss[2]}
<1>1. IsWellFoundedOn(less, Nat)
  BY NatLessThanWellFounded, Zenon DEF OpToRel
<1>2. PICK m \in B : \A n \in B : ~(<<n, m>> \in less)
  <2> HIDE DEF less
  <2>1. QED
    BY <1>1, WFMin
<1>3. ASSUME NEW n \in B
      PROVE  m <= n
  <2>1. n \in Nat /\ m \in Nat /\ <<n, m>> \in Nat \X Nat
    OBVIOUS
  <2>2. ~(n < m)
    BY <1>2, <2>1
  <2>3. QED
    BY <2>1, <2>2
<1>4. QED
  BY <1>3

(* A set that holds a cell, and with a cell its free neighbours, holds     *)
(* every place a route leads to.                                           *)
LEMMA RouteStaysInside ==
  ASSUME NEW from \in Cells, NEW to, NEW free, NEW p \in Routes(from, to, free),
         NEW S, from \in S,
         \A c \in S : Neighbours(c) \intersect free \subseteq S
  PROVE  to \in S
<1>1. /\ Len(p) \in Nat \ {0} /\ p[Len(p)] = to /\ CellsOf(p) \subseteq free
      /\ p[1] \in Neighbours(from)
      /\ \A i \in 1..(Len(p) - 1) : p[i + 1] \in Neighbours(p[i])
  BY RouteIsPath
<1>2. \A i \in 1..Len(p) : p[i] \in free
  BY <1>1 DEF CellsOf
<1> DEFINE B == {i \in 1..Len(p) : p[i] \notin S}
<1>3. CASE B = {}
  BY <1>1, <1>3
<1>4. CASE B # {}
  <2>1. B \in SUBSET Nat
    OBVIOUS
  <2>2. PICK m \in B : \A n \in B : m <= n
    <3> HIDE DEF B
    <3>1. QED
      BY <1>4, <2>1, SmallestOf
  <2>3. m \in 1..Len(p) /\ p[m] \notin S /\ p[m] \in free
    BY <1>2
  <2>4. m # 1
    BY <1>1, <2>3
  <2>5. m - 1 \in 1..(Len(p) - 1) /\ (m - 1) + 1 = m /\ m - 1 \in 1..Len(p) /\ ~(m <= m - 1)
    BY <1>1, <2>3, <2>4
  <2>6. p[m - 1] \in S
    BY <2>2, <2>5
  <2>7. p[m] \in Neighbours(p[m - 1])
    BY <1>1, <2>5
  <2>8. QED
    BY <2>3, <2>6, <2>7
<1>5. QED
  BY <1>3, <1>4

(* A route through some cells is one through more.                         *)
LEMMA RoutesGrow ==
  ASSUME NEW from, NEW to, NEW S, NEW T, S \subseteq T
  PROVE  Routes(from, to, S) \subseteq Routes(from, to, T)
  BY DEF Routes

(* The last of the drawings that cover a cell.                             *)
LEMMA LastOverExists ==
  ASSUME TypeInv, NEW c \in Cells, Covering(c) # {}
  PROVE  \E i \in 1..Len(drawn) : LastOver(c, i)
<1>0. Len(drawn) \in Nat
  BY LenProperties DEF TypeInv
<1> DEFINE C == Covering(c)
           B == {n \in Nat : \A j \in C : j <= n}
<1>1. C \subseteq 1..Len(drawn) /\ C \subseteq Nat
  BY <1>0 DEF Covering
<1>2. Len(drawn) \in B
  BY <1>0, <1>1
<1>3. PICK m \in B : \A n \in B : m <= n
  <2>1. B \in SUBSET Nat /\ B # {}
    BY <1>2
  <2> HIDE DEF B
  <2>2. QED
    BY <2>1, SmallestOf
<1>4. m \in Nat /\ \A j \in C : j <= m
  OBVIOUS
<1>5. m \in C
  <2> SUFFICES ASSUME m \notin C
               PROVE  FALSE
    OBVIOUS
  <2>1. \A j \in C : j < m /\ j \in 1..Len(drawn)
    BY <1>1, <1>4
  <2>2. PICK j \in C : TRUE
    OBVIOUS
  <2>3. m - 1 \in Nat
    BY <1>0, <1>4, <2>1, <2>2
  <2>4. \A i \in C : i <= m - 1
    BY <1>0, <1>4, <2>1
  <2>5. m - 1 \in B
    BY <2>3, <2>4
  <2>6. m <= m - 1
    BY <1>3, <2>5
  <2>7. QED
    BY <1>4, <2>6
<1>6. QED
  BY <1>1, <1>4, <1>5 DEF LastOver

-----------------------------------------------------------------------------
(* The search.                                                             *)

(* A plan that is being searched for has no answer yet, and is not drawn.  *)
LEMMA NotKnown ==
  ASSUME PlanInv, NEW t \in Threads, pc[t] \in {"find", "explore"}
  PROVE  /\ Plan(t) \in Tasks /\ Plan(t) \notin Known
         /\ \A i \in 1..Len(drawn) : drawn[i].plan \in Tasks /\ drawn[i].plan # Plan(t)
<1> USE DEF PlanInv
<1>1. CASE t = Main
  <2>1. mode = "SINGLE" /\ finished = {} /\ \A w \in Workers : pc[w] = "idle"
    BY <1>1 DEF ThreadInv, MainInv
  <2>2. main = "single" /\ drawn = <<>>
    BY <1>1, <2>1 DEF MainInv
  <2>3. \A u \in Threads : pc[u] \notin Returned
    BY <1>1, <2>1, ThreadNames DEF Returned, Holding
  <2>4. Len(drawn) = 0 /\ 1..0 = {}
    BY <2>2
  <2>5. QED
    BY <1>1, <2>1, <2>3, <2>4, ThreadNames DEF Known, Plan, ThreadInv
<1>2. CASE t # Main
  <2>1. t \in Workers /\ slot[t] # Idle /\ Plan(t) = slot[t]
    BY <1>2, ThreadNames DEF ThreadInv, Plan
  <2>2. mode # "SINGLE" /\ pc[Main] = "idle"
    BY <2>1 DEF MainInv, ThreadInv
  <2>3. Plan(t) \in Tasks /\ Plan(t) \notin finished
    BY <2>1 DEF TaskInv, PoolTypeOK, PlaceInv
  <2>4. ASSUME NEW u \in Threads, pc[u] \in Returned, Plan(u) = Plan(t)
        PROVE  FALSE
    <3>1. u \in Workers /\ u # t
      BY <2>2, <2>4, ThreadNames DEF Returned, Holding
    <3>2. slot[u] = slot[t]
      BY <2>1, <2>4, <3>1, ThreadNames DEF Plan
    <3>3. QED
      BY <2>1, <3>1, <3>2 DEF TaskInv, PlaceInv
  <2>5. Plan(t) \notin Past(AfterPush)
    BY <2>1, NotPast DEF AfterPush
  <2>6. \A i \in 1..Len(drawn) : drawn[i].plan \in Past(AfterPush)
    BY <2>2 DEF OnceInv, PlanOf
  <2>7. QED
    BY <2>3, <2>4, <2>5, <2>6 DEF Known, Past
<1>3. QED
  BY <1>1, <1>2

(* What is drawn stays as it was when only a plan that is not drawn gets a *)
(* result.                                                                 *)
LEMMA DrawStays ==
  ASSUME PlanInv, DrawInv, UNCHANGED <<scene, mode, map, drawn, drawing>>,
         main' = "done" <=> main = "done",
         \A i \in 1..Len(drawn) : result'[drawn[i].plan] = result[drawn[i].plan]
  PROVE  DrawInv'
<1>1. \A c \in Cells : Covering(c)' = Covering(c)
  BY DEF Covering
<1>2. Original' = Original
  BY DEF Original
<1>3. Len(drawn) \in Nat /\ (drawn # <<>> => Len(drawn) \in 1..Len(drawn))
  <2>1. drawn \in Seq(DrawnRecord)
    BY DEF PlanInv, TypeInv, DrawnRecord
  <2>2. QED
    BY <2>1, LenProperties, EmptySeq
<1>4. drawing # NoPath =>
        CellsOf(drawing) \subseteq CellsOf(result'[drawn[Len(drawn)].plan])
  BY <1>3 DEF DrawInv, PlanInv, MainInv
<1>5. \A c \in Cells : Stamped(c) => Stamped(c)'
  BY <1>1, <1>2 DEF Stamped, LastOver
<1>6. \A c \in Cells : Printed(c) => Printed(c)'
  BY <1>1, <1>2 DEF Printed, LastOver
<1>7. QED
  BY <1>4, <1>5, <1>6 DEF DrawInv

(* find_path looks at free cells only, and returns the right answer.       *)
LEMMA ReturnsRight ==
  ASSUME PlanInv, FreeInv, RouteInv, NEW t \in Threads, Frame,
         pc[t] \in {"find", "explore"}, NEW p \in Seq(Cells), Returns(t, p),
         CellsOf(p) \subseteq Free(Original),
         IF AllRoutes(Plan(t)) = {} THEN p = NoPath ELSE p \in AllRoutes(Plan(t))
  PROVE  /\ FreeInv' /\ RouteInv'
         /\ \A k \in Tasks : k # Plan(t) => result'[k] = result[k]
<1> USE DEF PlanInv
<1>1. Plan(t) \in Tasks /\ Plan(t) \notin Known
  BY NotKnown
<1>2. /\ UNCHANGED <<scene, mode, map, slot, finished, drawing>>
      /\ result'[Plan(t)] = p
      /\ \A k \in Tasks : k # Plan(t) => result'[k] = result[k]
      /\ reached'[t] = {} /\ expanded'[t] = {} /\ pc'[t] = "found"
      /\ looking' = looking
      /\ \A u \in Threads : u # t => /\ reached'[u] = reached[u]
                                     /\ expanded'[u] = expanded[u] /\ pc'[u] = pc[u]
  BY <1>1 DEF Returns, Goto, TypeInv, Frame, inputVars, poolVars, mainVars, loopVars
<1>3. Original' = Original /\ Free(map)' = Free(map) /\ Free(Original)' = Free(Original)
  BY <1>2 DEF Original, Free
<1>4. FreeInv'
  BY <1>2, <1>3 DEF FreeInv
<1>5. \A k \in Tasks : AllRoutes(k)' = AllRoutes(k)
  BY <1>2, <1>3 DEF AllRoutes
<1>6. \A u \in Threads : Plan(u)' = Plan(u)
  BY <1>2 DEF Plan
<1>7. ASSUME NEW k \in Known'
      PROVE  RightAnswer(k)'
  <2>1. k \in Tasks
    BY DEF Known
  <2>2. CASE k = Plan(t)
    BY <1>2, <1>5, <2>1, <2>2 DEF RightAnswer
  <2>3. CASE k # Plan(t)
    <3>1. k \in Known
      BY <1>2, <1>6, <2>3 DEF Known
    <3>2. QED
      BY <1>2, <1>5, <2>1, <2>3, <3>1 DEF RightAnswer, RouteInv
  <2>4. QED
    BY <2>2, <2>3
<1>8. QED
  BY <1>2, <1>4, <1>7 DEF RouteInv

(* A visit of one more cell.                                               *)
LEMMA ReachesRight ==
  ASSUME PlanInv, FreeInv, RouteInv, NEW t \in Threads, Frame, UNCHANGED result,
         pc[t] \in {"find", "explore"}, pc'[t] \in {"find", "explore"},
         \A u \in Threads : u # t => /\ reached'[u] = reached[u]
                                     /\ expanded'[u] = expanded[u]
                                     /\ looking'[u] = looking[u] /\ pc'[u] = pc[u],
         reached'[t] \subseteq Free(Original),
         \A c \in expanded'[t] :
           Neighbours(c) \intersect Free(Original) \subseteq reached'[t] \union looking'[t]
  PROVE  FreeInv' /\ RouteInv'
<1>1. UNCHANGED <<scene, mode, map, slot, finished, drawing>>
  BY DEF Frame, inputVars, poolVars, mainVars, loopVars
<1>2. Original' = Original /\ Free(map)' = Free(map) /\ Free(Original)' = Free(Original)
  BY <1>1 DEF Original, Free
<1>3. FreeInv'
  BY <1>1, <1>2 DEF FreeInv
<1>4. \A k \in Tasks : RightAnswer(k)' = RightAnswer(k)
  BY <1>1, <1>2 DEF AllRoutes, RightAnswer
<1>5. Known' = Known
  <2>1. \A u \in Threads : pc'[u] \in Returned <=> pc[u] \in Returned
    BY DEF Returned, Holding
  <2>2. QED
    BY <1>1, <2>1 DEF Known, Plan
<1>6. QED
  BY <1>3, <1>4, <1>5 DEF RouteInv, Known

(* find_path sees the free cells of the original map, and gives the right  *)
(* answer from them.                                                       *)
LEMMA SearchKeepsMap ==
  ASSUME PlanInv, MapInv, NEW t \in Threads, Search(t), Frame
  PROVE  MapInv'
<1> USE DEF PlanInv, MapInv
<1>1. SearchFacts(t)
  BY SearchMoves
<1>2. /\ pc[t] \in {"find", "explore"} /\ Plan(t) \in Tasks
      /\ \A i \in 1..Len(drawn) : drawn[i].plan \in Tasks /\ drawn[i].plan # Plan(t)
  BY <1>1, NotKnown DEF SearchFacts
<1>3. DrawInv'
  <2>1. UNCHANGED <<scene, mode, map, drawn, drawing, main>>
    BY DEF Frame, inputVars, mainVars, loopVars
  <2>2. \A i \in 1..Len(drawn) : result'[drawn[i].plan] = result[drawn[i].plan]
    BY <1>1, <1>2 DEF SearchFacts
  <2>3. QED
    BY <2>1, <2>2, DrawStays
<1> DEFINE free == Free(Original)
           k == Plan(t)
<1>4. From(t) = scene.start[k] /\ To(t) = scene.goal[k] /\ free \subseteq Cells
  BY DEF From, To, Free
<1>5. NoPath \in Seq(Cells) /\ CellsOf(NoPath) = {}
  BY EmptySeq DEF NoPath, CellsOf
<1>6. Free(map) = free
  BY DEF FreeInv
<1>7. FreeInv' /\ RouteInv'
  <2>1. CASE FindPathChecks(t)
    <3>1. CASE {From(t), To(t)} \subseteq free
      <4>1. /\ reached' = [reached EXCEPT ![t] = {From(t)}]
            /\ pc' = [pc EXCEPT ![t] = "explore"] /\ UNCHANGED <<expanded, looking, result>>
        BY <1>6, <2>1, <3>1 DEF FindPathChecks, Goto
      <4>2. expanded[t] = {}
        BY <2>1 DEF FindPathChecks, SearchInv
      <4>3. /\ reached'[t] = {From(t)} /\ expanded'[t] = {} /\ pc'[t] = "explore"
            /\ \A u \in Threads : u # t => /\ reached'[u] = reached[u]
                                           /\ expanded'[u] = expanded[u]
                                           /\ looking'[u] = looking[u] /\ pc'[u] = pc[u]
        BY <4>1, <4>2 DEF TypeInv
      <4> HIDE DEF free
      <4>4. reached'[t] \subseteq free
        BY <3>1, <4>3
      <4>5. QED
        BY <1>2, <4>1, <4>3, <4>4, ReachesRight DEF free
    <3>2. CASE ~({From(t), To(t)} \subseteq free)
      <4>1. Returns(t, NoPath)
        BY <1>6, <2>1, <3>2 DEF FindPathChecks
      <4>2. AllRoutes(k) = {}
        <5> SUFFICES ASSUME NEW p \in AllRoutes(k)
                     PROVE  FALSE
          OBVIOUS
        <5>1. From(t) \in free /\ p \in Routes(From(t), To(t), free)
          BY <1>4 DEF AllRoutes
        <5>2. p[Len(p)] = To(t) /\ CellsOf(p) \subseteq free /\ Len(p) \in 1..Len(p)
          BY <1>4, <5>1, RouteIsPath
        <5>3. To(t) \in free
          BY <5>2 DEF CellsOf
        <5>4. QED
          BY <3>2, <5>1, <5>3
      <4>3. QED
        BY <1>2, <1>5, <4>1, <4>2, ReturnsRight
    <3>3. QED
      BY <3>1, <3>2
  <2>2. CASE Explore(t)
    <3>1. PICK c \in Unvisited(t) \ {To(t)} :
            /\ expanded' = [expanded EXCEPT ![t] = @ \union {c}]
            /\ looking' = [looking EXCEPT ![t] = Neighbours(c)]
      BY <2>2 DEF Explore
    <3>2. pc[t] = "explore" /\ looking[t] = {} /\ UNCHANGED <<pc, reached, result>>
      BY <2>2 DEF Explore, Pops
    <3>3. /\ expanded'[t] = expanded[t] \union {c} /\ looking'[t] = Neighbours(c)
          /\ \A u \in Threads : u # t => /\ reached'[u] = reached[u]
                                         /\ expanded'[u] = expanded[u]
                                         /\ looking'[u] = looking[u] /\ pc'[u] = pc[u]
      BY <3>1, <3>2 DEF TypeInv
    <3>4. reached'[t] \subseteq free
      BY <3>2 DEF FreeInv
    <3>5. \A d \in expanded'[t] :
            Neighbours(d) \intersect free \subseteq reached'[t] \union looking'[t]
      BY <3>2, <3>3 DEF FreeInv
    <3>6. QED
      BY <1>2, <3>2, <3>3, <3>4, <3>5, ReachesRight
  <2>6. CASE ReadNeighbour(t)
    <3>1. PICK d \in looking[t] :
            /\ looking' = [looking EXCEPT ![t] = @ \ {d}]
            /\ reached' = [reached EXCEPT ![t] = @ \union ({d} \intersect Free(map))]
      BY <2>6 DEF ReadNeighbour
    <3>2. pc[t] = "explore" /\ UNCHANGED <<pc, expanded, result>>
      BY <2>6 DEF ReadNeighbour, SearchInv
    <3>3. /\ looking'[t] = looking[t] \ {d}
          /\ reached'[t] = reached[t] \union ({d} \intersect free)
          /\ \A u \in Threads : u # t => /\ reached'[u] = reached[u]
                                         /\ expanded'[u] = expanded[u]
                                         /\ looking'[u] = looking[u] /\ pc'[u] = pc[u]
      BY <1>6, <3>1, <3>2 DEF TypeInv
    <3>4. reached'[t] \subseteq free
      BY <3>3 DEF FreeInv
    <3>5. \A c \in expanded'[t] :
            Neighbours(c) \intersect free \subseteq reached'[t] \union looking'[t]
      BY <3>2, <3>3 DEF FreeInv
    <3>6. QED
      BY <1>2, <3>2, <3>3, <3>4, <3>5, ReachesRight
  <2>3. CASE FindsGoal(t)
    <3>1. From(t) \in reached[t] /\ To(t) \in reached[t] /\ reached[t] \subseteq free
      BY <2>3 DEF FindsGoal, SearchInv, FreeInv
    <3>2. CASE From(t) = To(t) /\ Returns(t, NoPath)
      <4>1. AllRoutes(k) = {}
        BY <1>4, <3>2 DEF AllRoutes
      <4>2. QED
        BY <1>2, <1>5, <3>2, <4>1, ReturnsRight
    <3>3. ASSUME From(t) # To(t),
                 NEW p \in Routes(From(t), To(t), expanded[t] \union {To(t)}),
                 Returns(t, p)
          PROVE  FreeInv' /\ RouteInv'
      <4>1. expanded[t] \union {To(t)} \subseteq free
        BY <3>1 DEF SearchInv
      <4>2. p \in Routes(From(t), To(t), free)
        BY <4>1, RoutesGrow
      <4>3. p \in AllRoutes(k)
        BY <1>4, <3>1, <3>3, <4>2 DEF AllRoutes
      <4>4. p \in Seq(Cells) /\ CellsOf(p) \subseteq free
        BY <1>4, <3>1, <4>2, RouteIsPath
      <4>5. QED
        BY <1>2, <3>3, <4>3, <4>4, ReturnsRight
    <3>4. ASSUME From(t) = To(t), NEW through,
                 NEW p \in Routes(From(t), To(t), through)
          PROVE  FALSE
      <4>1. From(t) \in Cells
        BY <1>4, <3>1
      <4>2. PICK n \in 1..(Rows * Cols - 1) : p \in [1..n -> Cells \ {From(t)}]
        BY <3>4, <4>1 DEF Routes, PathsFrom
      <4>3. Len(p) \in Nat \ {0} /\ p[Len(p)] = To(t)
        BY <3>4, <4>1, RouteIsPath
      <4>4. n \in Nat \ {0} /\ Len(p) = n
        BY <4>2, SizeAssumption
      <4>5. p[n] \in Cells \ {From(t)}
        BY <4>2, <4>4
      <4>6. QED
        BY <3>4, <4>3, <4>4, <4>5
    <3>5. QED
      BY <2>3, <3>2, <3>3, <3>4 DEF FindsGoal
  <2>4. CASE FindsNoPath(t)
    <3>1. /\ pc[t] = "explore" /\ looking[t] = {} /\ Returns(t, NoPath)
          /\ reached[t] = expanded[t]
      BY <2>4 DEF FindsNoPath, Pops, Unvisited, SearchInv
    <3>2. From(t) \in reached[t] /\ To(t) \notin reached[t] /\ reached[t] \subseteq free
      BY <3>1 DEF SearchInv, FreeInv
    <3>3. \A c \in reached[t] : Neighbours(c) \intersect free \subseteq reached[t]
      BY <3>1 DEF FreeInv
    <3>4. AllRoutes(k) = {}
      <4> SUFFICES ASSUME NEW p \in AllRoutes(k)
                   PROVE  FALSE
        OBVIOUS
      <4>1. p \in Routes(From(t), To(t), free) /\ From(t) \in Cells
        BY <1>4, <3>2 DEF AllRoutes
      <4> HIDE DEF free
      <4>2. To(t) \in reached[t]
        BY <3>2, <3>3, <4>1, RouteStaysInside
      <4>3. QED
        BY <3>2, <4>2
    <3>5. QED
      BY <1>2, <1>5, <3>1, <3>4, ReturnsRight
  <2>5. QED
    BY <2>1, <2>2, <2>3, <2>4, <2>6 DEF Search
<1>8. QED
  BY <1>3, <1>7

-----------------------------------------------------------------------------
(* The tasks and Main.                                                     *)

(* Nothing is said of the map, but that the threads which have an answer   *)
(* stay those that have one.                                               *)
LEMMA AnswersStay ==
  ASSUME FreeInv, RouteInv,
         UNCHANGED <<scene, mode, reached, expanded, looking, result>>,
         Known' \subseteq Known,
         Free(map') = Free(map), CellsOf(drawing') \subseteq Free(Original)
  PROVE  FreeInv' /\ RouteInv'
<1>1. Original' = Original /\ Free(map)' = Free(map) /\ Free(Original)' = Free(Original)
  BY DEF Original, Free
<1>2. FreeInv'
  BY <1>1 DEF FreeInv
<1>3. \A k \in Tasks : RightAnswer(k)' = RightAnswer(k)
  BY <1>1 DEF AllRoutes, RightAnswer
<1>4. QED
  BY <1>2, <1>3 DEF RouteInv, Known

(* A task changes neither the map nor the answers.                         *)
LEMMA TaskKeepsMap ==
  ASSUME PlanInv, MapInv, NEW w \in Workers, Task(w), TaskFrame
  PROVE  MapInv'
<1> USE DEF PlanInv, MapInv
<1>1. UNCHANGED <<scene, mode, reached, expanded, looking, result, map, main,
                  threads_finished, drawing, drawn>>
  BY DEF TaskFrame, searchVars, inputVars, mainVars, loopVars
<1>2. w \in Threads /\ w # Main
  BY ThreadNames
<1>3. Known' \subseteq Known
  <2>1. CASE TakePlan(w)
    <3>1. pc'[w] = "find" /\ \A t \in Threads : t # w => pc'[t] = pc[t]
      BY <1>2, <2>1 DEF TakePlan, Goto, TypeInv
    <3>2. finished' = finished /\ \A v \in Workers : v # w => slot'[v] = slot[v]
      BY <2>1 DEF TakePlan, Start, TaskInv, PoolTypeOK
    <3>3. \A t \in Threads : t # w => Plan(t)' = Plan(t)
      BY <3>2, ThreadNames DEF Plan
    <3>4. pc'[w] \notin Returned
      BY <3>1 DEF Returned, Holding
    <3>5. QED
      BY <3>1, <3>2, <3>3, <3>4 DEF Known
  <2>2. CASE LockPaths(w) \/ PushPath(w) \/ ReleaseAdds(w) \/ ReleaseWakes(w)
    <3>1. UNCHANGED <<slot, finished>> /\ pc[w] \in Returned
      BY <2>2 DEF LockPaths, PushPath, ReleaseAdds, ReleaseWakes, poolVars, Returned, Holding
    <3>2. \A t \in Threads : t # w => pc'[t] = pc[t]
      BY <1>2, <2>2 DEF LockPaths, PushPath, ReleaseAdds, ReleaseWakes, Goto, TypeInv
    <3>3. QED
      BY <1>2, <3>1, <3>2 DEF Known, Plan
  <2>3. CASE TaskReturns(w)
    <3>1. /\ pc[w] \in Returned /\ pc'[w] = "idle"
          /\ \A t \in Threads : t # w => pc'[t] = pc[t]
      BY <1>2, <2>3 DEF TaskReturns, Goto, TypeInv, Returned, Holding
    <3>2. /\ finished' = finished \union {slot[w]}
          /\ \A v \in Workers : v # w => slot'[v] = slot[v]
      BY <2>3 DEF TaskReturns, Finish, TaskInv, PoolTypeOK
    <3>3. \A t \in Threads : t # w => Plan(t)' = Plan(t)
      BY <3>2, ThreadNames DEF Plan
    <3>4. Plan(w) = slot[w] /\ pc'[w] \notin Returned
      BY <1>2, <3>1 DEF Plan, Returned, Holding
    <3>5. QED
      BY <1>2, <3>1, <3>2, <3>3, <3>4 DEF Known
  <2>4. QED
    BY <2>1, <2>2, <2>3 DEF Task
<1>4. CellsOf(drawing') \subseteq Free(Original) /\ Free(map') = Free(map)
  BY <1>1 DEF FreeInv
<1>5. FreeInv' /\ RouteInv'
  BY <1>1, <1>3, <1>4, AnswersStay
<1>6. DrawInv'
  BY <1>1, DrawStays
<1>7. QED
  BY <1>5, <1>6

(* Main begins to draw a path: nothing of it is on the map yet.            *)
LEMMA BeginsToDraw ==
  ASSUME PlanInv, MapInv, drawing = NoPath, main # "done", main' # "done",
         UNCHANGED <<scene, mode, map, result>>,
         NEW k \in Tasks, NEW n \in Nat, n + 1 < LabelModulus, BeginDrawing(k, n)
  PROVE  DrawInv' /\ CellsOf(drawing') \subseteq Free(Original)
<1> DEFINE e == [plan |-> k, at |-> n]
           last == Len(drawn) + 1
<1>1. drawing' = result[k] /\ drawn' = Append(drawn, e)
  BY DEF BeginDrawing
<1>2. e \in DrawnRecord /\ e.plan = k /\ e.at = n /\ drawn \in Seq(DrawnRecord)
  BY DEF DrawnRecord, PlanInv, TypeInv
<1>3. /\ Len(drawn) \in Nat /\ Len(drawn') = last
      /\ \A i \in 1..Len(drawn) : drawn'[i] = drawn[i]
      /\ drawn'[last] = e
  <2> HIDE DEF e
  <2>1. QED
    BY <1>1, <1>2, PlanOfAppend
<1>4. \A i \in 1..Len(drawn') : i \in 1..Len(drawn) \/ i = last
  BY <1>3
<1>5. \A i \in 1..Len(drawn') : drawn'[i].at + 1 < LabelModulus
  BY <1>2, <1>3, <1>4 DEF MapInv, DrawInv
<1>6. CellsOf(drawing') \subseteq CellsOf(result'[drawn'[Len(drawn')].plan])
  BY <1>1, <1>2, <1>3
<1>7. CellsOf(drawing) = {}
  BY DEF CellsOf, NoPath
<1>8. ASSUME NEW c \in Cells
      PROVE  Stamped(c)'
  <2>1. Stamped(c)
    BY DEF MapInv, DrawInv
  <2>2. Original' = Original
    BY DEF Original
  <2>3. \A i \in 1..Len(drawn) : i \in Covering(c)' <=> i \in Covering(c)
    BY <1>3 DEF Covering
  <2>4. last \in Covering(c)' <=> c \in CellsOf(drawing')
    BY <1>1, <1>2, <1>3 DEF Covering
  <2>5. Covering(c) \subseteq 1..Len(drawn) /\ Covering(c)' \subseteq 1..Len(drawn')
    BY DEF Covering
  <2>6. CASE c \in CellsOf(drawing')
    <3>1. last \in Covering(c)'
      BY <2>4, <2>6
    <3>2. ASSUME NEW i \in 1..Len(drawn'), LastOver(c, i)'
          PROVE  i = Len(drawn')
      <4>1. last <= i
        BY <3>1, <3>2 DEF LastOver
      <4>2. QED
        BY <1>3, <4>1
    <3>3. QED
      BY <2>6, <3>1, <3>2 DEF Stamped
  <2>7. CASE c \notin CellsOf(drawing')
    <3>1. Covering(c)' = Covering(c)
      BY <1>4, <2>3, <2>4, <2>5, <2>7
    <3>2. ASSUME NEW i \in 1..Len(drawn'), LastOver(c, i)'
          PROVE  map'[c] = (drawn'[i].at % LabelModulus) + 2
      <4>1. i \in 1..Len(drawn) /\ LastOver(c, i)
        BY <2>5, <3>1, <3>2 DEF LastOver
      <4>2. QED
        BY <1>3, <1>7, <2>1, <4>1 DEF Stamped
    <3>3. Covering(c)' = {} => map'[c] = Original'[c]
      BY <2>1, <2>2, <3>1 DEF Stamped
    <3>4. QED
      BY <3>2, <3>3 DEF Stamped
  <2>8. QED
    BY <2>6, <2>7
<1>9. DrawInv'
  BY <1>5, <1>6, <1>8 DEF DrawInv
<1>10. QED
  BY <1>1, <1>9 DEF MapInv, FreeInv

(* One cell is drawn.                                                      *)
LEMMA DrawsCell ==
  ASSUME LabelsFit, PlanInv, MapInv, DrawCell, UNCHANGED <<scene, mode, result>>
  PROVE  /\ DrawInv' /\ Free(map') = Free(map)
         /\ CellsOf(drawing') \subseteq Free(Original)
<1> DEFINE h == Head(drawing)
           n == Len(drawn)
<1>1. /\ main = "draw" /\ drawing # NoPath /\ drawing' = Tail(drawing)
      /\ map' = [map EXCEPT ![h] = Label(drawn[n].at)]
      /\ UNCHANGED <<main, drawn>>
  BY DEF DrawCell
<1>2. drawing \in Seq(Cells) /\ map \in [Cells -> 0..CellValues - 1] /\ drawn # <<>>
  BY <1>1 DEF PlanInv, TypeInv, MainInv
<1>3. /\ h \in CellsOf(drawing) /\ h \in Cells
      /\ CellsOf(drawing) = {h} \union CellsOf(drawing')
  BY <1>1, <1>2, CellsOfTail
<1>4. n \in 1..n /\ n \in Nat /\ drawn[n].at \in Nat
  <2>1. drawn \in Seq(DrawnRecord)
    BY DEF PlanInv, TypeInv, DrawnRecord
  <2>2. n \in Nat /\ n # 0
    BY <1>2, <2>1, LenProperties, EmptySeq
  <2>3. n \in 1..n
    BY <2>2
  <2>4. drawn[n] \in DrawnRecord
    BY <2>1, <2>3, ElementOfSeq
  <2>5. QED
    BY <2>2, <2>3, <2>4 DEF DrawnRecord
<1>5. /\ drawn[n].at + 1 < LabelModulus
      /\ CellsOf(drawing) \subseteq CellsOf(result[drawn[n].plan])
  BY <1>1, <1>4 DEF MapInv, DrawInv
<1>6. Label(drawn[n].at) = (drawn[n].at % LabelModulus) + 2 /\ Label(drawn[n].at) # 0
  <2> DEFINE a == drawn[n].at
  <2> HIDE DEF a
  <2>1. a \in Nat /\ LabelModulus \in Nat /\ a + 1 < LabelModulus
    BY <1>4, <1>5, LabelAssumption DEF a
  <2>2. a % LabelModulus = a
    BY <2>1
  <2>3. (a + 2) % (LabelModulus + 1) = a + 2
    BY <2>1
  <2>4. Label(a) = a + 2 /\ (a % LabelModulus) + 2 = a + 2
    BY <2>1, <2>2, <2>3 DEF Label, CellValues
  <2>5. QED
    BY <2>1, <2>4 DEF a
<1>7. /\ map'[h] = (drawn[n].at % LabelModulus) + 2
      /\ \A c \in Cells : c # h => map'[c] = map[c]
  BY <1>1, <1>2, <1>3, <1>6
<1>8. CellsOf(drawing') \subseteq Free(Original) /\ h \in Free(map)
  BY <1>3 DEF MapInv, FreeInv
<1>9. Free(map') = Free(map)
  BY <1>3, <1>6, <1>7, <1>8 DEF Free
<1>10. ASSUME NEW c \in Cells
       PROVE  Stamped(c)'
  <2>1. Stamped(c)
    BY <1>1 DEF MapInv, DrawInv
  <2>2. Covering(c)' = Covering(c) /\ Original' = Original
    BY <1>1 DEF Covering, Original
  <2>3. CASE c = h
    <3>1. n \in Covering(c)
      BY <1>3, <1>4, <1>5, <2>3 DEF Covering
    <3>2. ASSUME NEW i \in 1..Len(drawn), LastOver(c, i)
          PROVE  i = n
      <4>1. n <= i
        BY <3>1, <3>2 DEF LastOver
      <4>2. QED
        BY <1>4, <4>1
    <3>3. QED
      BY <1>1, <1>7, <2>2, <2>3, <3>1, <3>2 DEF Stamped, LastOver
  <2>4. CASE c # h
    <3>1. map'[c] = map[c] /\ (c \in CellsOf(drawing) => c \in CellsOf(drawing'))
      BY <1>3, <1>7, <2>4
    <3>2. QED
      BY <1>1, <2>1, <2>2, <3>1 DEF Stamped, LastOver
  <2>5. QED
    BY <2>3, <2>4
<1>11. \A i \in 1..Len(drawn') : drawn'[i].at + 1 < LabelModulus
  BY <1>1 DEF MapInv, DrawInv
<1>12. CellsOf(drawing') \subseteq CellsOf(result'[drawn'[Len(drawn')].plan])
  BY <1>1, <1>3, <1>5
<1>13. DrawInv'
  BY <1>1, <1>10, <1>11, <1>12 DEF DrawInv
<1>14. QED
  BY <1>8, <1>9, <1>13

(* Main draws over free cells only, and never frees or blocks one.         *)
LEMMA MainKeepsMap ==
  ASSUME LabelsFit, PlanInv, MapInv, MainStep
  PROVE  MapInv'
<1>1. UNCHANGED <<scene, mode, pc, reached, expanded, looking, result>>
  BY DEF MainStep, inputVars, searchVars
<1>2. UNCHANGED <<slot, finished>>
  BY DEF MainStep, ReadCoordinates, EnqueuePlan, Submit, AcquirePermit, LockForTake,
         TakePath, SingleReturns, DrawCell, PathIsDrawn, LeaveScope, BeginClose,
         PoolIsGone, EndClose, Convert, poolVars
<1>3. Known' \subseteq Known
  BY <1>1, <1>2 DEF Known, Plan
<1>4. CASE \/ ReadCoordinates \/ EnqueuePlan \/ AcquirePermit \/ LockForTake
           \/ PathIsDrawn \/ LeaveScope \/ PoolIsGone
  <2>1. UNCHANGED <<map, drawing, drawn>> /\ main # "done" /\ main' # "done"
    BY <1>4 DEF ReadCoordinates, EnqueuePlan, AfterEnqueuing, AcquirePermit, LockForTake,
                PathIsDrawn, LeaveScope, PoolIsGone, loopVars
  <2>2. DrawInv'
    BY <1>1, <2>1, DrawStays DEF MapInv
  <2>3. CellsOf(drawing') \subseteq Free(Original) /\ Free(map') = Free(map)
    BY <2>1 DEF MapInv, FreeInv
  <2>4. QED
    BY <1>1, <1>3, <2>2, <2>3, AnswersStay DEF MapInv
<1>5. CASE TakePath
  <2>1. /\ main = "take" /\ main' = "draw" /\ map' = map /\ drawing = NoPath
        /\ mode # "SINGLE"
    BY <1>5 DEF TakePath, PlanInv, MainInv
  <2>2. Free(map') = Free(map)
    BY <2>1
  <2>3. CASE paths = <<>>
    <3>1. UNCHANGED <<drawing, drawn>>
      BY <1>5, <2>3 DEF TakePath
    <3>2. DrawInv'
      BY <1>1, <2>1, <3>1, DrawStays DEF MapInv
    <3>3. CellsOf(drawing') \subseteq Free(Original)
      BY <3>1 DEF MapInv, FreeInv
    <3>4. QED
      BY <1>1, <1>3, <2>2, <3>2, <3>3, AnswersStay DEF MapInv
  <2>4. CASE paths # <<>>
    <3>1. BeginDrawing(Head(paths).plan, threads_finished)
      BY <1>5, <2>4 DEF TakePath
    <3>2. Head(paths) \in PathRecord
      <4>1. paths \in Seq(PathRecord)
        BY DEF PlanInv, TypeInv, PathRecord
      <4>2. QED
        BY <2>4, <4>1, PlanOfTail
    <3>3. Head(paths).plan \in Tasks
      BY <3>2 DEF PathRecord
    <3>4. threads_finished \in Nat /\ threads_finished + 1 < LabelModulus
      <4>1. threads_finished \in 0..NumTasks
        BY DEF PlanInv, TypeInv
      <4>2. QED
        BY <4>1, ThreadNames, LabelAssumption DEF LabelsFit
    <3>5. DrawInv' /\ CellsOf(drawing') \subseteq Free(Original)
      BY <1>1, <2>1, <3>1, <3>3, <3>4, BeginsToDraw
    <3>6. QED
      BY <1>1, <1>3, <2>2, <3>5, AnswersStay DEF MapInv
  <2>5. QED
    BY <2>3, <2>4
<1>6. CASE SingleReturns
  <2>1. /\ main = "single" /\ main' # "done" /\ map' = map /\ drawing = NoPath
    BY <1>6 DEF SingleReturns, PlanInv, MainInv
  <2>2. Free(map') = Free(map)
    BY <2>1
  <2>3. CASE result[1] = NoPath
    <3>1. UNCHANGED <<drawing, drawn>>
      BY <1>6, <2>3 DEF SingleReturns
    <3>2. DrawInv'
      BY <1>1, <2>1, <3>1, DrawStays DEF MapInv
    <3>3. CellsOf(drawing') \subseteq Free(Original)
      BY <3>1 DEF MapInv, FreeInv
    <3>4. QED
      BY <1>1, <1>3, <2>2, <3>2, <3>3, AnswersStay DEF MapInv
  <2>4. CASE result[1] # NoPath
    <3>1. BeginDrawing(1, 2)
      BY <1>6, <2>4 DEF SingleReturns
    <3>2. 2 + 1 < LabelModulus /\ 1 \in Tasks
      <4>1. main = "single" => mode = "SINGLE"
        BY DEF PlanInv, MainInv
      <4>2. 1 \in Tasks
        BY <2>1, <4>1 DEF PlanInv, ThreadInv
      <4>3. QED
        BY <4>2 DEF LabelsFit
    <3>3. DrawInv' /\ CellsOf(drawing') \subseteq Free(Original)
      BY <1>1, <2>1, <3>1, <3>2, BeginsToDraw
    <3>4. QED
      BY <1>1, <1>3, <2>2, <3>3, AnswersStay DEF MapInv
  <2>5. QED
    BY <2>3, <2>4
<1>7. CASE DrawCell
  <2>1. DrawInv' /\ Free(map') = Free(map) /\ CellsOf(drawing') \subseteq Free(Original)
    BY <1>1, <1>7, DrawsCell
  <2>2. QED
    BY <1>1, <1>3, <2>1, AnswersStay DEF MapInv
<1>8. CASE Convert
  <2>1. /\ main # "done" /\ main' = "done" /\ UNCHANGED <<drawing, drawn>>
        /\ drawing = NoPath
        /\ map' = IF mode = "INPUT" THEN [c \in Cells |-> Converted(map[c])] ELSE map
    BY <1>8 DEF Convert, loopVars, PlanInv, MainInv
  <2>2. map \in [Cells -> 0..CellValues - 1] /\ CellValues \in Nat
    <3>1. CellValues \in Nat
      BY LabelAssumption DEF CellValues
    <3>2. QED
      BY <3>1 DEF PlanInv, TypeInv
  <2>3. \A c \in Cells : map'[c] = 0 <=> map[c] = 0
    BY <2>1, <2>2 DEF Converted
  <2>4. Free(map') = Free(map)
    BY <2>3 DEF Free
  <2>5. ASSUME NEW c \in Cells
        PROVE  Printed(c)'
    <3>1. Stamped(c) /\ c \notin CellsOf(drawing)
      BY <2>1 DEF MapInv, DrawInv, CellsOf, NoPath
    <3>2. Covering(c)' = Covering(c) /\ Original' = Original /\ map[c] \in Nat
      BY <1>1, <2>1, <2>2 DEF Covering, Original
    <3>3. Covering(c) = {} =>
            map'[c] = IF mode = "INPUT" /\ Original[c] > 2 THEN 2 ELSE Original[c]
      BY <2>1, <3>1, <3>2 DEF Stamped, Converted
    <3>4. ASSUME NEW i \in 1..Len(drawn), LastOver(c, i)
          PROVE  map'[c] = IF mode = "INPUT" THEN 2
                           ELSE (drawn[i].at % LabelModulus) + 2
      <4>1. map[c] = (drawn[i].at % LabelModulus) + 2
        BY <3>1, <3>4 DEF Stamped
      <4>2. i \in 1..Len(drawn) /\ drawn \in Seq(DrawnRecord)
        BY DEF PlanInv, TypeInv, DrawnRecord
      <4>3. drawn[i] \in DrawnRecord
        BY <4>2, ElementOfSeq
      <4>4. drawn[i].at \in Nat
        BY <4>3 DEF DrawnRecord
      <4>5. (drawn[i].at % LabelModulus) \in Nat
        BY <4>4, LabelAssumption
      <4>6. map[c] >= 2
        BY <4>1, <4>5
      <4>7. QED
        BY <2>1, <4>1, <4>6 DEF Converted
    <3>5. QED
      BY <1>1, <2>1, <3>2, <3>3, <3>4 DEF Printed, LastOver
  <2>6. /\ \A i \in 1..Len(drawn') : drawn'[i].at + 1 < LabelModulus
        /\ drawing' = NoPath
    BY <2>1 DEF MapInv, DrawInv
  <2>7. DrawInv'
    BY <2>1, <2>5, <2>6 DEF DrawInv
  <2>8. CellsOf(drawing') \subseteq Free(Original)
    BY <2>1 DEF MapInv, FreeInv
  <2>9. QED
    BY <1>1, <1>3, <2>4, <2>7, <2>8, AnswersStay DEF MapInv
<1>9. QED
  BY <1>4, <1>5, <1>6, <1>7, <1>8 DEF MainStep

(* Nothing is drawn at first.                                              *)
LEMMA MapStarts == LabelsFit /\ Init => MapInv
<1> SUFFICES ASSUME LabelsFit, Init
             PROVE  MapInv
  OBVIOUS
<1>1. /\ map = Original /\ drawing = NoPath /\ drawn = <<>> /\ finished = {}
      /\ \A k \in Tasks : result[k] = NoPath
      /\ \A t \in Threads : reached[t] = {} /\ expanded[t] = {} /\ pc[t] \in {"idle", "find"}
      /\ main # "done"
  BY DEF Init, PoolInit
<1>2. CellsOf(NoPath) = {} /\ Len(drawn) = 0
  BY <1>1 DEF CellsOf, NoPath
<1>3. FreeInv
  BY <1>1, <1>2 DEF FreeInv
<1>4. RouteInv
  BY <1>1 DEF RouteInv, Known, Returned, Holding
<1>5. \A c \in Cells : Covering(c) = {}
  BY <1>2 DEF Covering
<1>6. DrawInv
  BY <1>1, <1>2, <1>5 DEF DrawInv, Stamped
<1>7. QED
  BY <1>3, <1>4, <1>6 DEF MapInv

(* Every step keeps what is said of the map.                               *)
LEMMA MapSteps == LabelsFit /\ PlanInv /\ MapInv /\ [Next]_vars => MapInv'
<1> SUFFICES ASSUME LabelsFit, PlanInv, MapInv, [Next]_vars
             PROVE  MapInv'
  OBVIOUS
<1>1. CASE MainStep
  BY <1>1, MainKeepsMap
<1>2. ASSUME NEW t \in Threads, ThreadStep(t)
      PROVE  MapInv'
  <2>1. CASE Search(t)
    <3>1. Frame
      BY <1>2, <2>1 DEF ThreadStep, Search, Frame
    <3>2. QED
      BY <2>1, <3>1, SearchKeepsMap
  <2>2. CASE t \in Workers /\ Task(t)
    <3>1. TaskFrame
      BY <1>2, <2>2 DEF ThreadStep, Task, TaskFrame
    <3>2. QED
      BY <2>2, <3>1, TaskKeepsMap
  <2>3. QED
    BY <1>2, <2>1, <2>2 DEF ThreadStep
<1>3. CASE UNCHANGED vars
  <2>1. UNCHANGED <<scene, mode, pc, reached, expanded, looking, result, slot,
                    finished>>
    BY <1>3 DEF vars, inputVars, searchVars, poolVars
  <2>2. UNCHANGED <<map, main, drawing, drawn>>
    BY <1>3 DEF vars, mainVars, loopVars
  <2>3. Known' \subseteq Known
    BY <2>1 DEF Known, Plan
  <2>4. CellsOf(drawing') \subseteq Free(Original) /\ Free(map') = Free(map)
    BY <2>2 DEF MapInv, FreeInv
  <2>5. FreeInv' /\ RouteInv'
    BY <2>1, <2>3, <2>4, AnswersStay DEF MapInv
  <2>6. DrawInv'
    BY <2>1, <2>2, DrawStays DEF MapInv
  <2>7. QED
    BY <2>5, <2>6 DEF MapInv
<1>4. QED
  BY <1>1, <1>2, <1>3 DEF Next, Terminated

(* With labels that do not wrap, so it is in every state.                  *)
LEMMA MapInvariant == LabelsFit /\ Spec => [](PlanInv /\ MapInv)
<1>1. LabelsFit /\ Init => PlanInv /\ MapInv
  BY PlanningStarts, MapStarts
<1>2. LabelsFit /\ (PlanInv /\ MapInv) /\ [Next]_vars => (PlanInv /\ MapInv)'
  BY PlanningSteps, MapSteps
<1>3. CASE LabelsFit
  BY <1>1, <1>2, <1>3, PTL DEF Spec
<1>4. QED
  BY <1>3

(* What is known of the plans with an answer is what find_path promises.   *)
LEMMA AnswersRight == PlanInv /\ MapInv => FoundIffReachable
<1> SUFFICES ASSUME PlanInv, MapInv, NEW k \in Answered
             PROVE  RightAnswer(k)
  BY DEF FoundIffReachable, RightAnswer, AllRoutes
<1>1. k \in Known
  <2>1. CASE k \in finished
    BY <2>1 DEF Known, PlanInv, TaskInv, PoolTypeOK
  <2>2. CASE k \notin finished
    <3>1. PICK t \in Threads : pc[t] = "found" /\ Plan(t) = k
      BY <2>2 DEF Answered
    <3>2. Plan(t) \in Tasks
      BY <3>1, ThreadNames DEF Plan, PlanInv, ThreadInv, TaskInv, PoolTypeOK
    <3>3. QED
      BY <3>1, <3>2 DEF Known, Returned
  <2>3. QED
    BY <2>1, <2>2
<1>2. QED
  BY <1>1 DEF MapInv, RouteInv

(* find_path: although Main draws into the map while the others search, a  *)
(* path is found exactly when the original map has one, and then it is one *)
(* through the free cells of that map; for every map, every number of      *)
(* workers, and every number of plans whose labels do not wrap.            *)
THEOREM PathsFoundWhileDrawing == LabelsFit /\ Spec => []FoundIffReachable
  BY MapInvariant, AnswersRight, PTL

(* When the program is done, what is printed is what was drawn last.       *)
LEMMA PrintsRight == PlanInv /\ MapInv => PrintedMap
<1> SUFFICES ASSUME PlanInv, MapInv, main = "done", NEW c \in Cells
             PROVE  IF Covering(c) = {}
                    THEN map[c] = IF mode = "INPUT" /\ Original[c] > 2 THEN 2 ELSE Original[c]
                    ELSE LET last == CHOOSE i \in Covering(c) : \A j \in Covering(c) : j <= i
                         IN map[c] = IF mode = "INPUT" THEN 2
                                     ELSE (drawn[last].at % LabelModulus) + 2
  BY DEF PrintedMap
<1>1. Printed(c)
  BY DEF MapInv, DrawInv
<1>2. CASE Covering(c) = {}
  BY <1>1, <1>2 DEF Printed
<1>3. CASE Covering(c) # {}
  <2> DEFINE last == CHOOSE i \in Covering(c) : \A j \in Covering(c) : j <= i
  <2>1. \E i \in Covering(c) : \A j \in Covering(c) : j <= i
    BY <1>3, LastOverExists DEF PlanInv, LastOver
  <2>2. last \in Covering(c) /\ \A j \in Covering(c) : j <= last
    BY <2>1
  <2>3. last \in 1..Len(drawn) /\ LastOver(c, last)
    BY <2>2 DEF LastOver, Covering
  <2>4. QED
    BY <1>1, <1>3, <2>3 DEF Printed
<1>4. QED
  BY <1>2, <1>3

(* main: the map that is printed shows every path and nothing else has     *)
(* changed, for every input whose labels do not wrap.                      *)
THEOREM MapPrintedRight == LabelsFit /\ Spec => []PrintedMap
  BY MapInvariant, PrintsRight, PTL

=============================================================================
