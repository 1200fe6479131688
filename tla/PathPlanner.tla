---------------------------- MODULE PathPlanner -----------------------------
(***************************************************************************)
(* PathPlanner::find_path of Lab4/path_planning.hpp, the A* search: one    *)
(* action per turn of its loops.  Where two nodes of the priority queue    *)
(* have the same f, either may be on top.                                  *)
(*                                                                         *)
(* A step between neighbours has length 1, so g is a natural number, and f *)
(* is g plus the square root of a natural number.  Two such sums are       *)
(* compared exactly, with integers; on the maps checked here the floats of *)
(* the code order them the same way.                                       *)
(***************************************************************************)
EXTENDS Integers, Sequences, FiniteSets

CONSTANTS Rows, Cols,   (* the size of the map                             *)
          Obstacles,    (* the sets of obstructed cells to be considered   *)
          Requests      (* the pairs of a start and a goal asked for       *)

Cells == (0..Rows - 1) \X (0..Cols - 1)

(* What a caller may pass: cells, and coordinates just off the map.        *)
Coordinates == (-1..Rows) \X (-1..Cols)

ASSUME SizeAssumption == Rows \in Nat \ {0} /\ Cols \in Nat \ {0}
ASSUME ObstaclesAssumption == Obstacles \subseteq SUBSET Cells
ASSUME RequestsAssumption == Requests \subseteq Coordinates \X Coordinates

Node == [at : Cells, g : Nat, parent : Cells]

VARIABLES
  obstructed,   (* the cells where map is 0; find_path does not change it  *)
  start, goal,  (* the arguments                                           *)
  pc,           (* where find_path is                                      *)
  queue,        (* the priority queue: a node is pushed at most once       *)
  visited,      (* the map from the visited cells to their nodes           *)
  current,      (* the node current while the path is reconstructed        *)
  path          (* the path found so far, from its end                     *)

vars == <<obstructed, start, goal, pc, queue, visited, current, path>>

-----------------------------------------------------------------------------
(* West, east, north and south, where there is a free cell.                *)
get_neighbors(c) ==
  {d \in Cells \ obstructed :
     \/ d[2] = c[2] /\ d[1] \in {c[1] - 1, c[1] + 1}
     \/ d[1] = c[1] /\ d[2] \in {c[2] - 1, c[2] + 1}}

(* Mutant: the distance is doubled.                                         *)
DoubledDistance(a, b) ==
  4 * ((a[1] - b[1]) * (a[1] - b[1]) + (a[2] - b[2]) * (a[2] - b[2]))

(* The square of distance(a, b), hence of the heuristic.                   *)
SquaredDistance(a, b) ==
  (a[1] - b[1]) * (a[1] - b[1]) + (a[2] - b[2]) * (a[2] - b[2])

(* a + sqrt(d) < b + sqrt(e), for integers a and b and naturals d and e.   *)
SumLess(a, d, b, e) ==
  LET n == b - a IN
  IF n >= 0
    THEN LET m == d - e - n * n IN m < 0 \/ m * m < 4 * n * n * e
    ELSE LET m == e - d - n * n IN m > 0 /\ m * m > 4 * n * n * d

(* Mutant: std::priority_queue without std::greater.                        *)
More(m, n) ==
  SumLess(n.g, SquaredDistance(n.at, goal), m.g, SquaredDistance(m.at, goal))

(* Mutant: f is the heuristic alone.                                        *)
NearerGoal(m, n) == SquaredDistance(m.at, goal) < SquaredDistance(n.at, goal)

(* Node::operator<, on f = g + heuristic.                                  *)
Less(m, n) ==
  SumLess(m.g, SquaredDistance(m.at, goal), n.g, SquaredDistance(n.at, goal))

(* The nodes that may be on top of the priority queue.                     *)
Tops == {n \in queue : \A m \in queue : ~Less(m, n)}

-----------------------------------------------------------------------------
SearchTypeOK ==
  /\ obstructed \in Obstacles
  /\ start \in Coordinates /\ goal \in Coordinates
  /\ pc \in {"check", "search", "rebuild", "returned"}
  /\ queue \subseteq Node
  /\ DOMAIN visited \subseteq Cells /\ \A c \in DOMAIN visited : visited[c] \in Node
  /\ path \in Seq(Cells)

NoNode == [at |-> <<0, 0>>, g |-> 0, parent |-> <<0, 0>>]

Init ==
  /\ obstructed \in Obstacles
  /\ \E request \in Requests : start = request[1] /\ goal = request[2]
  /\ pc = "check"
  /\ queue = {}
  /\ visited = <<>>
  /\ current = NoNode
  /\ path = <<>>

(* Coordinates off the map and blocked ends give the empty path.           *)
Reject ==
  /\ pc = "check"
  /\ ~({start, goal} \subseteq Cells \ obstructed)
  /\ pc' = "returned"
  /\ UNCHANGED <<obstructed, start, goal, queue, visited, current, path>>

PushStart ==
  /\ pc = "check"
  /\ {start, goal} \subseteq Cells \ obstructed
  /\ queue' = {[at |-> start, g |-> 0, parent |-> <<0, 0>>]}
  /\ pc' = "search"
  /\ UNCHANGED <<obstructed, start, goal, visited, current, path>>

(* queue.pop().  Mutant: it is forgotten.                                  *)
NothingPopped(n) == queue
Popped(n) == queue \ {n}

(* The node has been visited already, on another way.                      *)
SkipVisited(n) ==
  /\ n.at \in DOMAIN visited
  /\ queue' = Popped(n)
  /\ UNCHANGED <<pc, visited, current>>

ReachGoal(n) ==
  /\ n.at \notin DOMAIN visited
  /\ n.at = goal
  /\ queue' = Popped(n)
  /\ current' = n
  /\ pc' = "rebuild"
  /\ UNCHANGED visited

(* Mutant: a neighbour inherits the parent of its node.                    *)
Grandparent(n) == n.parent
Parent(n) == n.at

(* get_neighbors makes fresh nodes, with the greatest g there is: every    *)
(* neighbour is pushed, a visited one too.                                 *)
Expand(n) ==
  /\ n.at \notin DOMAIN visited
  /\ n.at # goal
  /\ visited' = [c \in DOMAIN visited \union {n.at} |->
                   IF c = n.at THEN n ELSE visited[c]]
  /\ queue' = Popped(n) \union
                {[at |-> d, g |-> n.g + 1, parent |-> Parent(n)] :
                   d \in get_neighbors(n.at)}
  /\ UNCHANGED <<pc, current>>

PopTop ==
  /\ pc = "search"
  /\ \E n \in Tops : SkipVisited(n) \/ ReachGoal(n) \/ Expand(n)
  /\ UNCHANGED <<obstructed, start, goal, path>>

QueueEmpty ==
  /\ pc = "search"
  /\ queue = {}
  /\ pc' = "returned"
  /\ UNCHANGED <<obstructed, start, goal, queue, visited, current, path>>

(* One turn of the loop that follows the parents; visited.at would throw   *)
(* for a parent that has not been visited.                                 *)
FollowParent ==
  /\ pc = "rebuild"
  /\ current.at # start
  /\ current.parent \in DOMAIN visited
  /\ path' = Append(path, current.at)
  /\ current' = visited[current.parent]
  /\ UNCHANGED <<obstructed, start, goal, pc, queue, visited>>

(* std::reverse, and the path is returned.                                 *)
ReturnPath ==
  /\ pc = "rebuild"
  /\ current.at = start
  /\ path' = [i \in 1..Len(path) |-> path[Len(path) + 1 - i]]
  /\ pc' = "returned"
  /\ UNCHANGED <<obstructed, start, goal, queue, visited, current>>

Returned == pc = "returned" /\ UNCHANGED vars

Next ==
  Reject \/ PushStart \/ PopTop \/ QueueEmpty \/ FollowParent \/ ReturnPath
  \/ Returned

Spec == Init /\ [][Next]_vars
FairSpec == Spec /\ WF_vars(Next)

-----------------------------------------------------------------------------
(* Reference: the cells that can be reached from start in at most n steps, *)
(* and the length of the shortest ways, with no queue and no heuristic.    *)
Within[n \in Nat] ==
  IF n = 0 THEN {start}
  ELSE Within[n - 1] \union UNION {get_neighbors(c) : c \in Within[n - 1]}

Reachable == Within[Rows * Cols]
Distance(c) == CHOOSE n \in 0..Rows * Cols :
                 c \in Within[n] /\ (n > 0 => c \notin Within[n - 1])

(* find_path returns a shortest path from start to goal: cell after cell   *)
(* free and adjacent, start itself left out, goal at the end.  It returns  *)
(* the empty path exactly when there is none, when an argument is off the  *)
(* map or blocked, and when start is goal.                                 *)
ShortestPath ==
  pc = "returned" =>
    IF ~({start, goal} \subseteq Cells \ obstructed) \/ goal \notin Reachable
      THEN path = <<>>
      ELSE LET whole == <<start>> \o path IN
           /\ Len(path) = Distance(goal)
           /\ whole[Len(whole)] = goal
           /\ \A i \in 1..Len(path) : whole[i + 1] \in get_neighbors(whole[i])

(* The heuristic never overestimates, so a visited node is final: its g is *)
(* the length of a shortest way, and it is never visited again with less.  *)
VisitedIsFinal == \A c \in DOMAIN visited : visited[c].g = Distance(c)

(* visited.at never throws while the path is reconstructed, and the chain  *)
(* of parents gets nearer to the start at each step.                       *)
ParentsVisited ==
  pc = "rebuild" /\ current.at # start =>
    /\ current.parent \in DOMAIN visited
    /\ visited[current.parent].g = current.g - 1

(* Nodes leave the priority queue in the order of f: what is pushed is     *)
(* never better than the node it is pushed for.                            *)
PoppedInOrder ==
  [][pc = "search" /\ pc' = "search" =>
       \A n \in queue \ queue' : \A m \in queue' : ~Less(m, n)]_vars

(* The search ends: each cell is visited at most once.                     *)
SearchEnds == <>(pc = "returned")

=============================================================================
