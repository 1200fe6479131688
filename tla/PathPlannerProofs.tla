------------------------- MODULE PathPlannerProofs --------------------------
(***************************************************************************)
(* The A* search, for every map and every request. SearchInv is its        *)
(* inductive invariant; the argument that a visited node is final is that  *)
(* of A*: on a shortest way to a cell there is always a node in the queue  *)
(* with its right g, and since the heuristic never overestimates, it is    *)
(* not above a node of that cell with a g that is too large.               *)
(***************************************************************************)
EXTENDS PathPlanner, FiniteSetTheorems, SequenceTheorems, NaturalsInduction,
        WellFoundedInduction, TLAPS

(* A set of numbers has a smallest element: what stands here for           *)
(* induction.                                                              *)
LEMMA SmallestOf ==
  ASSUME NEW B \in SUBSET Nat, B # {}
  PROVE  \E m \in B : \A n \in B : m <= n
<1> DEFINE less == {ss \in Nat \X Nat : ss[1] < ss[2]}
<1>1. IsWellFoundedOn(less, Nat)
  BY NatLessThanWellFounded, Zenon DEF OpToRel
<1>2. PICK m \in B : \A n \in B : ~(<<n, m>> \in less)
  <2> HIDE DEF less
  <2>1. QED
    BY <1>1, WFMin
<1>3. ASSUME NEW n \in B
      PROVE  m <= n
  <2>1. n \in Nat /\ m \in Nat /\ <<n, m>> \in Nat \X Nat
    OBVIOUS
  <2>2. ~(n < m)
    BY <1>2, <2>1
  <2>3. QED
    BY <2>1, <2>2
<1>4. QED
  BY <1>3

-----------------------------------------------------------------------------
(* The heuristic.                                                          *)

(* b is at most n steps away from a.                                       *)
Near(a, b, n) ==
  LET x == a[1] - b[1]  y == a[2] - b[2] IN
  -n <= x + y /\ x + y <= n /\ -n <= x - y /\ x - y <= n

(* Lagrange's identity, hence the inequality of Cauchy and Schwarz.        *)
LEMMA CauchySchwarz ==
  ASSUME NEW v1 \in Int, NEW v2 \in Int, NEW w1 \in Int, NEW w2 \in Int
  PROVE  (v1 * w1 + v2 * w2) * (v1 * w1 + v2 * w2)
           <= (v1 * v1 + v2 * v2) * (w1 * w1 + w2 * w2)
<1>1. (v1 * v1 + v2 * v2) * (w1 * w1 + w2 * w2)
        = (v1 * w1 + v2 * w2) * (v1 * w1 + v2 * w2)
            + (v1 * w2 - v2 * w1) * (v1 * w2 - v2 * w1)
  OBVIOUS
<1>2. (v1 * w2 - v2 * w1) * (v1 * w2 - v2 * w1) >= 0
  OBVIOUS
<1>3. QED
  BY <1>1, <1>2

(* Steps in the plane are at most as long as their number.                 *)
LEMMA StepsAreLong ==
  ASSUME NEW x \in Int, NEW y \in Int, NEW n \in Nat,
         -n <= x + y, x + y <= n, -n <= x - y, x - y <= n
  PROVE  x * x + y * y <= n * n
<1>1. (n - (x + y)) * (n + (x + y)) >= 0 /\ (n - (x - y)) * (n + (x - y)) >= 0
  OBVIOUS
<1>2. (n - (x + y)) * (n + (x + y)) + (n - (x - y)) * (n + (x - y))
        = 2 * (n * n) - 2 * (x * x + y * y)
  OBVIOUS
<1>3. QED
  BY <1>1, <1>2

(* A greater number has a greater square.                                   *)
LEMMA SquaresGrow ==
  ASSUME NEW a \in Int, NEW b \in Int, 0 <= a, a < b
  PROVE  a * a < b * b
  OBVIOUS

(* Multiplying by a natural number keeps the order.                         *)
LEMMA ProductsGrow ==
  ASSUME NEW a \in Int, NEW b \in Int, NEW e \in Int, a <= b, 0 <= e
  PROVE  a * e <= b * e
  OBVIOUS

(* With v between two points, w between the second and the goal: what the  *)
(* first lies below in g outweighs what it may lie above in distance.      *)
LEMMA CloserSum ==
  ASSUME NEW v1 \in Int, NEW v2 \in Int, NEW w1 \in Int, NEW w2 \in Int,
         NEW n \in Nat, NEW m \in Nat, m < n,
         v1 * v1 + v2 * v2 <= m * m
  PROVE  LET d == (v1 + w1) * (v1 + w1) + (v2 + w2) * (v2 + w2)
             e == w1 * w1 + w2 * w2
             p == d - e - n * n
         IN p < 0 \/ p * p < 4 * n * n * e
<1> DEFINE V == v1 * v1 + v2 * v2
           E == w1 * w1 + w2 * w2
           P == v1 * w1 + v2 * w2
<1>1. V \in Int /\ E \in Int /\ P \in Int /\ 0 <= E /\ 0 <= V
  OBVIOUS
<1>2. P * P <= V * E
  BY CauchySchwarz
<1>3. m * m < n * n
  BY SquaresGrow
<1>4. (v1 + w1) * (v1 + w1) + (v2 + w2) * (v2 + w2) = V + 2 * P + E
  OBVIOUS
<1> SUFFICES V + 2 * P - n * n < 0
             \/ (V + 2 * P - n * n) * (V + 2 * P - n * n) < 4 * n * n * E
  <2> DEFINE d == (v1 + w1) * (v1 + w1) + (v2 + w2) * (v2 + w2)
  <2>1. d = V + 2 * P + E
    BY <1>4
  <2> HIDE DEF d, V, E, P
  <2>2. d - E - n * n = V + 2 * P - n * n
    BY <1>1, <2>1
  <2>3. QED
    BY <2>2 DEF d, E
<1>5. V <= m * m
  OBVIOUS
<1> HIDE DEF V, E, P
<1>6. n * n \in Int /\ m * m \in Int
  OBVIOUS
<1>7. CASE V + 2 * P - n * n >= 0
  <2> DEFINE x == V + 2 * P - n * n
             y == 2 * P
  <2>1. x \in Int /\ y \in Int /\ 0 <= x /\ x < y
    BY <1>1, <1>3, <1>5, <1>6, <1>7
  <2>2. x * x < y * y
    <3> HIDE DEF x, y
    <3>1. QED
      BY <2>1, SquaresGrow
  <2>3. y * y = 4 * (P * P)
    BY <1>1
  <2>4. P * P <= (n * n) * E
    <3>1. V * E <= (n * n) * E
      BY <1>1, <1>3, <1>5, <1>6, ProductsGrow
    <3>2. V * E \in Int /\ (n * n) * E \in Int /\ P * P \in Int
      BY <1>1
    <3>3. QED
      BY <1>2, <3>1, <3>2
  <2>5. 4 * ((n * n) * E) = 4 * n * n * E
    BY <1>1
  <2>6. P * P \in Int /\ (n * n) * E \in Int /\ x * x \in Int /\ y * y \in Int
    BY <1>1
  <2>7. x * x < 4 * n * n * E
    <3> HIDE DEF x, y
    <3>1. QED
      BY <2>2, <2>3, <2>4, <2>5, <2>6
  <2>8. QED
    BY <2>7
<1>8. CASE V + 2 * P - n * n < 0
  BY <1>8
<1>9. QED
  BY <1>1, <1>6, <1>7, <1>8

(* Nor is a step longer than what it brings nearer to the goal.            *)
LEMMA FartherSum ==
  ASSUME NEW v1 \in Int, NEW v2 \in Int, NEW w1 \in Int, NEW w2 \in Int,
         v1 * v1 + v2 * v2 <= 1
  PROVE  LET e == (v1 + w1) * (v1 + w1) + (v2 + w2) * (v2 + w2)
             d == w1 * w1 + w2 * w2
             p == e - d - 1
         IN ~(p > 0 /\ p * p > 4 * d)
<1> DEFINE V == v1 * v1 + v2 * v2
           D == w1 * w1 + w2 * w2
           P == v1 * w1 + v2 * w2
<1>1. V \in Int /\ D \in Int /\ P \in Int /\ 0 <= D /\ 0 <= V /\ V <= 1
  OBVIOUS
<1>2. P * P <= V * D
  BY CauchySchwarz
<1>3. V * D <= 1 * D
  <2> HIDE DEF V, D, P
  <2>1. QED
    BY <1>1, ProductsGrow
<1>4. (v1 + w1) * (v1 + w1) + (v2 + w2) * (v2 + w2) - D - 1 = V + 2 * P - 1
  OBVIOUS
<1>5. ASSUME V + 2 * P - 1 > 0
      PROVE  (V + 2 * P - 1) * (V + 2 * P - 1) <= 4 * D
  <2> DEFINE x == V + 2 * P - 1
             y == 2 * P
  <2> HIDE DEF V, D, P
  <2>1. x \in Int /\ y \in Int /\ 0 <= x /\ x <= y
    BY <1>1, <1>5
  <2>2. x * x <= y * y
    <3> HIDE DEF x, y
    <3>1. CASE x = y
      BY <2>1, <3>1
    <3>2. CASE x < y
      <4>1. x * x < y * y /\ x * x \in Int /\ y * y \in Int
        BY <2>1, <3>2, SquaresGrow
      <4>2. QED
        BY <4>1
    <3>3. QED
      BY <2>1, <3>1, <3>2
  <2>3. y * y = 4 * (P * P) /\ P * P \in Int /\ V * D \in Int /\ x * x \in Int
    BY <1>1
  <2>4. P * P <= D
    BY <1>1, <1>2, <1>3, <2>3
  <2>5. x * x <= 4 * D
    <3> HIDE DEF x, y
    <3>1. QED
      BY <1>1, <2>2, <2>3, <2>4
  <2>6. QED
    BY <2>5
<1>6. V + 2 * P - 1 \in Int /\ (V + 2 * P - 1) * (V + 2 * P - 1) \in Int /\ 4 * D \in Int
  BY <1>1
<1> DEFINE p == (v1 + w1) * (v1 + w1) + (v2 + w2) * (v2 + w2) - D - 1
<1>7. ~(p > 0 /\ p * p > 4 * D)
  <2>1. p = V + 2 * P - 1
    BY <1>4
  <2> HIDE DEF p, V, P, D
  <2>2. QED
    BY <1>5, <1>6, <2>1
<1>8. QED
  BY <1>7

(* The integers of a node and of the goal.                                 *)
LEMMA CellsAreIntegers ==
  /\ \A c \in Cells : c = <<c[1], c[2]>> /\ c[1] \in Int /\ c[2] \in Int
  /\ \A c \in Coordinates : c = <<c[1], c[2]>> /\ c[1] \in Int /\ c[2] \in Int
  /\ Cells \subseteq Coordinates /\ <<0, 0>> \in Cells
  BY SizeAssumption DEF Cells, Coordinates

(* The heuristic is admissible: a node on the way to another, with a g so  *)
(* small that the other's could be smaller, is less than the other.        *)
LEMMA NearerIsLess ==
  ASSUME goal \in Coordinates, NEW m \in Node, NEW n \in Node, NEW j \in Nat,
         m.g + j < n.g, Near(m.at, n.at, j)
  PROVE  Less(m, n)
<1> DEFINE v1 == m.at[1] - n.at[1]
           v2 == m.at[2] - n.at[2]
           w1 == n.at[1] - goal[1]
           w2 == n.at[2] - goal[2]
           N == n.g - m.g
<1>1. /\ m.at \in Cells /\ n.at \in Cells /\ m.g \in Nat /\ n.g \in Nat
  BY DEF Node
<1>2. /\ m.at[1] \in Int /\ m.at[2] \in Int /\ n.at[1] \in Int /\ n.at[2] \in Int
      /\ goal[1] \in Int /\ goal[2] \in Int
  BY <1>1, CellsAreIntegers
<1>3. v1 \in Int /\ v2 \in Int /\ w1 \in Int /\ w2 \in Int /\ N \in Nat /\ j < N
  BY <1>1, <1>2
<1>4. /\ -j <= v1 + v2 /\ v1 + v2 <= j /\ -j <= v1 - v2 /\ v1 - v2 <= j
  BY DEF Near
<1>5. v1 * v1 + v2 * v2 <= j * j
  <2> HIDE DEF v1, v2
  <2>1. QED
    BY <1>3, <1>4, StepsAreLong
<1>6. /\ v1 + w1 = m.at[1] - goal[1] /\ v2 + w2 = m.at[2] - goal[2]
  BY <1>2
<1>7. SquaredDistance(m.at, goal) = (v1 + w1) * (v1 + w1) + (v2 + w2) * (v2 + w2)
  <2>1. SquaredDistance(m.at, goal)
          = (m.at[1] - goal[1]) * (m.at[1] - goal[1]) + (m.at[2] - goal[2]) * (m.at[2] - goal[2])
    BY DEF SquaredDistance
  <2> HIDE DEF v1, v2, w1, w2
  <2>2. QED
    BY <1>6, <2>1
<1>8. SquaredDistance(n.at, goal) = w1 * w1 + w2 * w2
  BY DEF SquaredDistance
<1> DEFINE d == (v1 + w1) * (v1 + w1) + (v2 + w2) * (v2 + w2)
           e == w1 * w1 + w2 * w2
           p == d - e - N * N
<1>9. p < 0 \/ p * p < 4 * N * N * e
  <2> HIDE DEF v1, v2, w1, w2, N
  <2>1. QED
    BY <1>3, <1>5, CloserSum
<1>10. SumLess(m.g, d, n.g, e)
  <2>1. N >= 0 /\ N = n.g - m.g
    BY <1>3
  <2> HIDE DEF N, d, e
  <2>2. QED
    BY <1>9, <2>1 DEF SumLess
<1>11. QED
  BY <1>7, <1>8, <1>10 DEF Less

(* It is consistent: a node is never less than the one it is pushed for.   *)
LEMMA NextIsNotLess ==
  ASSUME goal \in Coordinates, NEW m \in Node, NEW n \in Node,
         m.g = n.g + 1, Near(n.at, m.at, 1)
  PROVE  ~Less(m, n)
<1> DEFINE v1 == n.at[1] - m.at[1]
           v2 == n.at[2] - m.at[2]
           w1 == m.at[1] - goal[1]
           w2 == m.at[2] - goal[2]
<1>1. /\ m.at \in Cells /\ n.at \in Cells /\ m.g \in Nat /\ n.g \in Nat
  BY DEF Node
<1>2. /\ m.at[1] \in Int /\ m.at[2] \in Int /\ n.at[1] \in Int /\ n.at[2] \in Int
      /\ goal[1] \in Int /\ goal[2] \in Int
  BY <1>1, CellsAreIntegers
<1>3. v1 \in Int /\ v2 \in Int /\ w1 \in Int /\ w2 \in Int
  BY <1>2
<1>4. /\ -1 <= v1 + v2 /\ v1 + v2 <= 1 /\ -1 <= v1 - v2 /\ v1 - v2 <= 1
  BY DEF Near
<1>5. v1 * v1 + v2 * v2 <= 1
  <2> HIDE DEF v1, v2
  <2>1. v1 * v1 + v2 * v2 <= 1 * 1
    BY <1>3, <1>4, StepsAreLong
  <2>2. QED
    BY <2>1
<1>6. /\ v1 + w1 = n.at[1] - goal[1] /\ v2 + w2 = n.at[2] - goal[2]
  BY <1>2
<1>7. SquaredDistance(n.at, goal) = (v1 + w1) * (v1 + w1) + (v2 + w2) * (v2 + w2)
  <2>1. SquaredDistance(n.at, goal)
          = (n.at[1] - goal[1]) * (n.at[1] - goal[1]) + (n.at[2] - goal[2]) * (n.at[2] - goal[2])
    BY DEF SquaredDistance
  <2> HIDE DEF v1, v2, w1, w2
  <2>2. QED
    BY <1>6, <2>1
<1>8. SquaredDistance(m.at, goal) = w1 * w1 + w2 * w2
  BY DEF SquaredDistance
<1> DEFINE e == (v1 + w1) * (v1 + w1) + (v2 + w2) * (v2 + w2)
           d == w1 * w1 + w2 * w2
           p == e - d - 1
<1>9. ~(p > 0 /\ p * p > 4 * d)
  <2> HIDE DEF v1, v2, w1, w2
  <2>1. QED
    BY <1>3, <1>5, FartherSum
<1>10. n.g - m.g = -1
  BY <1>1
<1>11. ~SumLess(m.g, d, n.g, e)
  <2>0. d \in Int /\ e \in Int
    <3> HIDE DEF v1, v2, w1, w2
    <3>1. QED
      BY <1>3
  <2> HIDE DEF d, e
  <2>1. e - d - (-1) * (-1) = e - d - 1
    BY <2>0
  <2>2. 4 * (-1) * (-1) * d = 4 * d
    BY <2>0
  <2>3. ~(-1 >= 0)
    OBVIOUS
  <2>4. QED
    BY <1>9, <1>10, <2>1, <2>2, <2>3 DEF SumLess
<1>12. QED
  BY <1>7, <1>8, <1>11 DEF Less

-----------------------------------------------------------------------------
(* The reference: the cells within n steps.                                *)

(* What get_neighbors returns.                                             *)
LEMMA NeighborsAre ==
  ASSUME NEW c \in Cells, NEW d \in get_neighbors(c)
  PROVE  d \in Cells \ obstructed /\ Near(c, d, 1) /\ Near(d, c, 1)
<1>1. c[1] \in Int /\ c[2] \in Int /\ d[1] \in Int /\ d[2] \in Int /\ d \in Cells \ obstructed
  BY CellsAreIntegers DEF get_neighbors
<1>2. \/ d[2] = c[2] /\ (d[1] = c[1] - 1 \/ d[1] = c[1] + 1)
      \/ d[1] = c[1] /\ (d[2] = c[2] - 1 \/ d[2] = c[2] + 1)
  BY DEF get_neighbors
<1>3. QED
  BY <1>1, <1>2 DEF Near

(* The recursive definition of Within has a value: the ways of n steps,    *)
(* where a step may also stay, show it.                                    *)
Places == Cells \union {start}
Way(p, n, c) ==
  /\ p \in [0..n -> Places] /\ p[0] = start /\ p[n] = c
  /\ \A i \in 0..n - 1 : p[i + 1] = p[i] \/ p[i + 1] \in get_neighbors(p[i])
Ways == [n \in Nat |-> {c \in Places : \E p \in [0..n -> Places] : Way(p, n, c)}]
Step(W, n) ==
  IF n = 0 THEN {start} ELSE W[n - 1] \union UNION {get_neighbors(c) : c \in W[n - 1]}

(* No step leads anywhere but to the start.                                 *)
LEMMA WaysStart == Ways[0] = {start}
<1>2. Way([i \in 0..0 |-> start], 0, start)
  BY DEF Way, Places
<1>3. start \in Ways[0]
  <2>1. [i \in 0..0 |-> start] \in [0..0 -> Places] /\ start \in Places
    BY DEF Places
  <2>2. QED
    BY <1>2, <2>1 DEF Ways
<1>4. \A c \in Ways[0] : c = start
  BY DEF Ways, Way
<1>5. QED
  BY <1>3, <1>4

(* One step more leads to the neighbours of what was reached before.        *)
LEMMA WaysGrow ==
  ASSUME NEW n \in Nat
  PROVE  Ways[n + 1] = Ways[n] \union UNION {get_neighbors(c) : c \in Ways[n]}
<1>1. /\ Ways[n] = {c \in Places : \E p \in [0..n -> Places] : Way(p, n, c)}
      /\ Ways[n + 1] = {c \in Places : \E p \in [0..n + 1 -> Places] : Way(p, n + 1, c)}
  BY DEF Ways
<1>2. ASSUME NEW d \in Ways[n + 1]
      PROVE  d \in Ways[n] \/ \E c \in Ways[n] : d \in get_neighbors(c)
  <2>1. PICK p \in [0..n + 1 -> Places] : Way(p, n + 1, d)
    BY <1>1
  <2> DEFINE q == [i \in 0..n |-> p[i]]
             c == p[n]
  <2>2. q \in [0..n -> Places] /\ c \in Places
    OBVIOUS
  <2>3. Way(q, n, c)
    <3>1. q[0] = start /\ q[n] = c
      BY <2>1 DEF Way
    <3>2. ASSUME NEW i \in 0..n - 1
          PROVE  q[i + 1] = q[i] \/ q[i + 1] \in get_neighbors(q[i])
      <4>1. i \in 0..(n + 1) - 1 /\ i \in 0..n /\ i + 1 \in 0..n
        OBVIOUS
      <4>2. QED
        BY <2>1, <4>1 DEF Way
    <3>3. QED
      BY <2>2, <3>1, <3>2 DEF Way
  <2>4. c \in Ways[n]
    BY <1>1, <2>2, <2>3
  <2>5. d = c \/ d \in get_neighbors(c)
    <3>1. n \in 0..(n + 1) - 1 /\ p[n + 1] = d
      BY <2>1 DEF Way
    <3>2. QED
      BY <2>1, <3>1 DEF Way
  <2>6. QED
    BY <2>4, <2>5
<1>3. ASSUME NEW c \in Ways[n], NEW d, d = c \/ d \in get_neighbors(c)
      PROVE  d \in Ways[n + 1]
  <2>1. PICK p \in [0..n -> Places] : Way(p, n, c)
    BY <1>1
  <2>2. d \in Places
    BY <1>1, <1>3 DEF Places, get_neighbors
  <2> DEFINE q == [i \in 0..n + 1 |-> IF i = n + 1 THEN d ELSE p[i]]
  <2>3. q \in [0..n + 1 -> Places]
    BY <2>2
  <2>4. Way(q, n + 1, d)
    <3>1. q[0] = start /\ q[n + 1] = d /\ p[n] = c
      BY <2>1 DEF Way
    <3>2. ASSUME NEW i \in 0..(n + 1) - 1
          PROVE  q[i + 1] = q[i] \/ q[i + 1] \in get_neighbors(q[i])
      <4>1. CASE i = n
        BY <1>3, <3>1, <4>1
      <4>2. CASE i # n
        <5>1. i \in 0..n - 1 /\ i + 1 # n + 1 /\ i # n + 1 /\ i \in 0..n + 1 /\ i + 1 \in 0..n + 1
          BY <4>2
        <5>2. q[i] = p[i] /\ q[i + 1] = p[i + 1]
          BY <5>1
        <5>3. QED
          BY <2>1, <5>1, <5>2 DEF Way
      <4>3. QED
        BY <4>1, <4>2
    <3>3. QED
      BY <2>3, <3>1, <3>2 DEF Way
  <2>5. QED
    BY <1>1, <2>2, <2>3, <2>4
<1>4. QED
  BY <1>2, <1>3

(* Hence the two equations of the definition of Within.                     *)
LEMMA WithinIs ==
  /\ Within[0] = {start}
  /\ \A n \in Nat : Within[n + 1] = Within[n] \union UNION {get_neighbors(c) : c \in Within[n]}
<1>1. Ways = [n \in Nat |-> Step(Ways, n)]
  <2>1. \A n \in Nat : Ways[n] = Step(Ways, n)
    <3>1. ASSUME NEW n \in Nat, n # 0
          PROVE  Ways[n] = Step(Ways, n)
      <4>1. n - 1 \in Nat /\ (n - 1) + 1 = n
        BY <3>1
      <4>2. Ways[(n - 1) + 1] = Ways[n - 1] \union UNION {get_neighbors(c) : c \in Ways[n - 1]}
        BY <4>1, WaysGrow
      <4>3. QED
        BY <3>1, <4>1, <4>2 DEF Step
    <3>2. QED
      BY <3>1, WaysStart DEF Step
  <2>2. Ways = [n \in Nat |-> Ways[n]]
    BY DEF Ways
  <2>3. QED
    BY <2>1, <2>2
<1>2. \E W : W = [n \in Nat |-> Step(W, n)]
  BY <1>1
<1>3. Within = CHOOSE W : W = [n \in Nat |-> Step(W, n)]
  BY Zenon DEF Within, Step
<1>4. Within = [n \in Nat |-> Step(Within, n)]
  BY <1>2, <1>3
<1>5. \A n \in Nat : Within[n] = Step(Within, n)
  BY <1>4
<1>6. ASSUME NEW n \in Nat
      PROVE  Within[n + 1] = Within[n] \union UNION {get_neighbors(c) : c \in Within[n]}
  <2>1. n + 1 \in Nat /\ n + 1 # 0 /\ (n + 1) - 1 = n
    OBVIOUS
  <2>2. QED
    BY <1>5, <2>1 DEF Step
<1>7. QED
  BY <1>5, <1>6 DEF Step

(* What is within fewer steps is within more.                              *)
LEMMA WithinGrows ==
  ASSUME NEW m \in Nat, NEW n \in Nat, m <= n
  PROVE  Within[m] \subseteq Within[n]
<1> DEFINE B == {k \in Nat : m <= k /\ ~(Within[m] \subseteq Within[k])}
<1> SUFFICES ASSUME B # {}
             PROVE  FALSE
  OBVIOUS
<1>1. PICK k \in B : \A i \in B : k <= i
  <2>1. B \in SUBSET Nat
    OBVIOUS
  <2> HIDE DEF B
  <2>2. QED
    BY <2>1, SmallestOf
<1>2. k \in Nat /\ m < k /\ ~(Within[m] \subseteq Within[k])
  BY <1>1
<1>3. k - 1 \in Nat /\ m <= k - 1 /\ (k - 1) + 1 = k /\ k - 1 \notin B
  BY <1>1, <1>2
<1>4. Within[m] \subseteq Within[k - 1]
  BY <1>3
<1>5. Within[k - 1] \subseteq Within[(k - 1) + 1]
  BY <1>3, WithinIs
<1>6. QED
  BY <1>2, <1>3, <1>4, <1>5

(* A cell whose shortest ways have n steps.                                *)
Exact(c, n) ==
  n \in Nat /\ c \in Within[n] /\ \A k \in Nat : k < n => c \notin Within[k]

(* There is such an n for every cell that can be reached.                  *)
LEMMA ExactExists ==
  ASSUME NEW c, NEW n \in Nat, c \in Within[n]
  PROVE  \E k \in Nat : k <= n /\ Exact(c, k)
<1> DEFINE B == {k \in Nat : c \in Within[k]}
<1>1. B \in SUBSET Nat /\ n \in B
  OBVIOUS
<1>2. PICK k \in B : \A i \in B : k <= i
  <2> HIDE DEF B
  <2>1. QED
    BY <1>1, SmallestOf
<1>3. QED
  BY <1>1, <1>2 DEF Exact

(* A cell n steps away has a neighbour one step nearer.                    *)
LEMMA ExactBefore ==
  ASSUME NEW c, NEW n \in Nat, Exact(c, n + 1)
  PROVE  \E b : Exact(b, n)
<1>1. c \in Within[n + 1] /\ c \notin Within[n]
  BY DEF Exact
<1>2. PICK b \in Within[n] : c \in get_neighbors(b)
  BY <1>1, WithinIs
<1>3. ASSUME NEW k \in Nat, k < n, b \in Within[k]
      PROVE  FALSE
  <2>1. c \in Within[k + 1]
    BY <1>2, <1>3, WithinIs
  <2>2. k + 1 \in Nat /\ k + 1 < n + 1
    BY <1>3
  <2>3. QED
    BY <2>1, <2>2 DEF Exact
<1>4. QED
  BY <1>2, <1>3 DEF Exact

(* Steps from a cell lead to cells.                                         *)
LEMMA WithinCells ==
  ASSUME start \in Cells, NEW n \in Nat
  PROVE  Within[n] \subseteq Cells
<1> DEFINE B == {k \in Nat : ~(Within[k] \subseteq Cells)}
<1> SUFFICES ASSUME B # {}
             PROVE  FALSE
  OBVIOUS
<1>1. PICK k \in B : \A i \in B : k <= i
  <2>1. B \in SUBSET Nat
    OBVIOUS
  <2> HIDE DEF B
  <2>2. QED
    BY <2>1, SmallestOf
<1>2. k # 0
  BY <1>1, WithinIs
<1>3. k \in Nat /\ k - 1 \in Nat /\ (k - 1) + 1 = k /\ k - 1 \notin B
  BY <1>1, <1>2
<1>4. Within[k - 1] \subseteq Cells
  BY <1>3
<1>5. Within[(k - 1) + 1] \subseteq Cells
  BY <1>3, <1>4, WithinIs DEF get_neighbors
<1>6. QED
  BY <1>1, <1>3, <1>5

(* The shortest ways are shorter than the number of cells: there is a cell *)
(* at each distance before.                                                *)
LEMMA ExactBelow ==
  ASSUME start \in Cells, NEW c, NEW n \in Nat, Exact(c, n)
  PROVE  n < Rows * Cols
<1> DEFINE B == {k \in Nat : k <= n /\ ~\E b : Exact(b, n - k)}
<1>1. B = {}
  <2> SUFFICES ASSUME B # {}
               PROVE  FALSE
    OBVIOUS
  <2>1. PICK k \in B : \A i \in B : k <= i
    <3>1. B \in SUBSET Nat
      OBVIOUS
    <3> HIDE DEF B
    <3>2. QED
      BY <3>1, SmallestOf
  <2>2. k # 0
    BY <2>1
  <2>3. /\ k \in Nat /\ k - 1 \in Nat /\ k - 1 \notin B /\ k - 1 <= n
        /\ n - k \in Nat /\ n - (k - 1) = (n - k) + 1
    BY <2>1, <2>2
  <2>4. PICK b : Exact(b, (n - k) + 1)
    BY <2>3
  <2>5. \E a : Exact(a, n - k)
    BY <2>3, <2>4, ExactBefore
  <2>6. QED
    BY <2>1, <2>5
<1>2. \A k \in 0..n : \E b : Exact(b, k)
  <2> SUFFICES ASSUME NEW k \in 0..n
               PROVE  \E b : Exact(b, k)
    OBVIOUS
  <2>1. n - k \in Nat /\ n - k <= n /\ n - (n - k) = k
    OBVIOUS
  <2>2. QED
    BY <1>1, <2>1
<1> DEFINE f == [k \in 0..n |-> CHOOSE b : Exact(b, k)]
<1>3. \A k \in 0..n : Exact(f[k], k)
  BY <1>2
<1>4. f \in [0..n -> Cells]
  <2>1. ASSUME NEW k \in 0..n
        PROVE  f[k] \in Cells
    <3>1. f[k] \in Within[k] /\ k \in Nat
      BY <1>3 DEF Exact
    <3>2. QED
      BY <3>1, WithinCells
  <2>2. QED
    BY <2>1
<1>5. \A i, k \in 0..n : f[i] = f[k] => i = k
  <2> SUFFICES ASSUME NEW i \in 0..n, NEW k \in 0..n, f[i] = f[k]
               PROVE  i = k
    OBVIOUS
  <2> DEFINE a == f[i]
             b == f[k]
  <2>1. Exact(a, i) /\ Exact(b, k) /\ a = b
    BY <1>3
  <2> HIDE DEF a, b, f
  <2>2. ~(i < k) /\ ~(k < i)
    BY <2>1 DEF Exact
  <2>3. QED
    BY <2>2
<1> HIDE DEF f
<1>6. f \in Injection(0..n, Cells)
  BY <1>4, <1>5 DEF Injection, IsInjective
<1>7. /\ IsFiniteSet(0..n) /\ Cardinality(0..n) = n + 1
      /\ IsFiniteSet(0..Rows - 1) /\ Cardinality(0..Rows - 1) = Rows
      /\ IsFiniteSet(0..Cols - 1) /\ Cardinality(0..Cols - 1) = Cols
  <2>1. \A k \in Nat : IsFiniteSet(0..k) /\ Cardinality(0..k) = k + 1
    BY FS_Interval
  <2>2. Rows - 1 \in Nat /\ (Rows - 1) + 1 = Rows /\ Cols - 1 \in Nat /\ (Cols - 1) + 1 = Cols
    BY SizeAssumption
  <2>3. QED
    BY <2>1, <2>2
<1>8. IsFiniteSet(Cells) /\ Cardinality(Cells) = Rows * Cols
  BY <1>7, FS_Product DEF Cells
<1>9. n + 1 <= Rows * Cols
  BY <1>6, <1>7, <1>8, FS_Injection
<1>10. QED
  BY <1>9, SizeAssumption

(* Distance is what it is meant to be.                                     *)
LEMMA DistanceIs ==
  ASSUME start \in Cells, NEW c, NEW n \in Nat, Exact(c, n)
  PROVE  Distance(c) = n /\ c \in Reachable
<1>1. n < Rows * Cols /\ Rows * Cols \in Nat
  BY ExactBelow, SizeAssumption
<1>2. n \in 0..Rows * Cols /\ c \in Within[n] /\ (n > 0 => c \notin Within[n - 1])
  BY <1>1 DEF Exact
<1>3. ASSUME NEW k \in 0..Rows * Cols, c \in Within[k], k > 0 => c \notin Within[k - 1]
      PROVE  k = n
  <2>1. k \in Nat /\ ~(k < n)
    BY <1>1, <1>3 DEF Exact
  <2>2. ASSUME n < k
        PROVE  FALSE
    <3>1. k - 1 \in Nat /\ n <= k - 1 /\ k > 0
      BY <2>1, <2>2
    <3>2. Within[n] \subseteq Within[k - 1]
      BY <3>1, WithinGrows
    <3>3. QED
      BY <1>2, <1>3, <3>1, <3>2
  <2>3. QED
    BY <2>1, <2>2
<1>4. Distance(c) = n
  BY <1>2, <1>3 DEF Distance
<1>5. Within[n] \subseteq Within[Rows * Cols]
  BY <1>1, WithinGrows
<1>6. QED
  BY <1>2, <1>4, <1>5 DEF Reachable

(* Reachable holds whatever some number of steps reaches.                  *)
LEMMA ReachableIs ==
  ASSUME start \in Cells, NEW c
  PROVE  c \in Reachable <=> \E n \in Nat : c \in Within[n]
<1>1. ASSUME NEW n \in Nat, c \in Within[n]
      PROVE  c \in Reachable
  BY <1>1, ExactExists, DistanceIs
<1>2. Rows * Cols \in Nat
  BY SizeAssumption
<1>3. QED
  BY <1>1, <1>2 DEF Reachable

-----------------------------------------------------------------------------
(* The invariant.                                                          *)

(* find_path goes on only with free ends.                                  *)
Legal == {start, goal} \subseteq Cells \ obstructed

TypeInv ==
  /\ obstructed \in SUBSET Cells
  /\ start \in Coordinates /\ goal \in Coordinates
  /\ pc \in {"check", "search", "rebuild", "returned"}
  /\ queue \subseteq Node
  /\ DOMAIN visited \subseteq Cells /\ \A c \in DOMAIN visited : visited[c] \in Node
  /\ current \in Node
  /\ path \in Seq(Cells)

BeginInv ==
  /\ pc = "check" => queue = {} /\ DOMAIN visited = {}
  /\ pc \in {"check", "search"} => path = <<>>
  /\ pc \in {"search", "rebuild"} \/ DOMAIN visited # {} => Legal

(* A node knows the length of a way to its cell; its parent was visited    *)
(* one step before.                                                        *)
Sound(n) ==
  /\ n.at \in Within[n.g]
  /\ n.g # 0 => /\ n.parent \in DOMAIN visited
                /\ visited[n.parent].g = n.g - 1
                /\ n.at \in get_neighbors(n.parent)

(* Visited nodes are final.                                                *)
NodeInv ==
  /\ \A n \in queue : Sound(n)
  /\ \A c \in DOMAIN visited :
       visited[c].at = c /\ Sound(visited[c]) /\ Exact(c, visited[c].g)

(* What has not been visited, but is next to what has, is in the queue.    *)
Covered(d, g) == d \in DOMAIN visited \/ \E m \in queue : m.at = d /\ m.g = g
FrontierInv ==
  pc = "search" =>
    /\ goal \notin DOMAIN visited
    /\ Covered(start, 0)
    /\ \A c \in DOMAIN visited : \A d \in get_neighbors(c) : Covered(d, visited[c].g + 1)

(* What is left of the way and what has been found of it make a shortest   *)
(* way to the goal.                                                        *)
RebuildInv ==
  pc = "rebuild" =>
    /\ Sound(current) /\ Exact(current.at, current.g)
    /\ Exact(goal, current.g + Len(path))
    /\ path = <<>> => current.at = goal
    /\ path # <<>> => path[1] = goal /\ path[Len(path)] \in get_neighbors(current.at)
    /\ \A i \in 1..Len(path) - 1 : path[i] \in get_neighbors(path[i + 1])

SearchInv ==
  TypeInv /\ BeginInv /\ NodeInv /\ FrontierInv /\ RebuildInv /\ ShortestPath

(* The world does not change: nor do the references.                       *)
LEMMA SameWorld ==
  ASSUME obstructed' = obstructed, start' = start
  PROVE  /\ \A c : get_neighbors(c)' = get_neighbors(c)
         /\ Within' = Within
         /\ \A c, n : Exact(c, n)' <=> Exact(c, n)
         /\ Reachable' = Reachable
         /\ \A c : Distance(c)' = Distance(c)
<1>1. \A c : get_neighbors(c)' = get_neighbors(c)
  BY DEF get_neighbors
<1>2. Within' = Within
  BY DEF Within, get_neighbors
<1>3. QED
  BY <1>1, <1>2 DEF Exact, Reachable, Distance

(* Nobody is nearer than to himself; a bound may be raised; one step more   *)
(* takes the bound one up.                                                  *)
LEMMA NearRules ==
  /\ \A a \in Cells : Near(a, a, 0)
  /\ \A a, b \in Cells, m, n \in Nat : Near(a, b, m) /\ m <= n => Near(a, b, n)
  /\ \A a, b, c \in Cells, n \in Nat : Near(a, b, n) /\ Near(b, c, 1) => Near(a, c, n + 1)
<1>1. \A c \in Cells : c[1] \in Int /\ c[2] \in Int
  BY CellsAreIntegers
<1>2. ASSUME NEW a \in Cells
      PROVE  Near(a, a, 0)
  BY <1>1 DEF Near
<1>3. ASSUME NEW a \in Cells, NEW b \in Cells, NEW m \in Nat, NEW n \in Nat,
             Near(a, b, m), m <= n
      PROVE  Near(a, b, n)
  BY <1>1, <1>3 DEF Near
<1>4. ASSUME NEW a \in Cells, NEW b \in Cells, NEW c \in Cells, NEW n \in Nat,
             Near(a, b, n), Near(b, c, 1)
      PROVE  Near(a, c, n + 1)
  BY <1>1, <1>4 DEF Near
<1>5. QED
  BY <1>2, <1>3, <1>4

(* On a way of k steps to a cell that has not been visited there is a node *)
(* of the queue, with no more steps before and after it than the way has.  *)
LEMMA FrontierCovers ==
  ASSUME SearchInv, pc = "search", NEW k \in Nat, NEW c \in Within[k], c \notin DOMAIN visited
  PROVE  \E m \in queue : m.g <= k /\ Near(m.at, c, k - m.g)
<1> DEFINE OnWay(d, i, m) == m.g <= i /\ Near(m.at, d, i - m.g)
           B == {i \in Nat : \E d \in Within[i] \ DOMAIN visited :
                                ~\E m \in queue : OnWay(d, i, m)}
<1> SUFFICES ASSUME B # {}
             PROVE  FALSE
  OBVIOUS
<1>1. PICK i \in B : \A h \in B : i <= h
  <2>1. B \in SUBSET Nat
    OBVIOUS
  <2> HIDE DEF B
  <2>2. QED
    BY <2>1, SmallestOf
<1>2. i \in Nat /\ \E d \in Within[i] \ DOMAIN visited : ~\E m \in queue : OnWay(d, i, m)
  BY <1>1
<1>3. PICK d \in Within[i] \ DOMAIN visited : ~\E m \in queue : OnWay(d, i, m)
  BY <1>2
<1>4. /\ start \in Cells /\ Covered(start, 0)
      /\ \A b \in DOMAIN visited : \A e \in get_neighbors(b) : Covered(e, visited[b].g + 1)
      /\ \A b \in DOMAIN visited : visited[b] \in Node /\ Exact(b, visited[b].g)
      /\ \A m \in queue : m \in Node /\ m.at \in Cells /\ m.g \in Nat
      /\ \A n \in Nat : Within[n] \subseteq Cells
  BY WithinCells DEF SearchInv, TypeInv, BeginInv, NodeInv, FrontierInv, Legal, Node
<1> HIDE DEF B
<1>5. i # 0
  <2> SUFFICES ASSUME i = 0
               PROVE  FALSE
    OBVIOUS
  <2>1. d = start
    BY WithinIs
  <2>2. PICK m \in queue : m.at = d /\ m.g = 0
    BY <1>3, <1>4, <2>1 DEF Covered
  <2>3. Near(m.at, d, 0) /\ 0 - m.g = 0
    BY <1>4, <2>2, NearRules
  <2>4. OnWay(d, i, m)
    BY <2>2, <2>3
  <2>5. QED
    BY <1>3, <2>4
<1>6. i - 1 \in Nat /\ (i - 1) + 1 = i /\ i - 1 \notin B
  <2>1. i - 1 \in Nat /\ ~(i <= i - 1)
    BY <1>2, <1>5
  <2>2. QED
    BY <1>1, <1>2, <2>1
<1>7. \A b \in Within[i - 1] \ DOMAIN visited : \E m \in queue : OnWay(b, i - 1, m)
  BY <1>6 DEF B
<1>8. CASE d \in Within[i - 1]
  <2>1. PICK m \in queue : OnWay(d, i - 1, m)
    BY <1>7, <1>8
  <2>2. m.g <= i /\ i - 1 - m.g \in Nat /\ i - m.g \in Nat /\ i - 1 - m.g <= i - m.g
    BY <1>4, <1>6, <2>1
  <2>3. Near(m.at, d, i - m.g)
    <3>1. m.at \in Cells /\ d \in Cells
      BY <1>2, <1>4
    <3>2. QED
      BY <2>1, <2>2, <3>1, NearRules
  <2>4. QED
    BY <1>3, <2>2, <2>3
<1>9. CASE d \notin Within[i - 1]
  <2>1. PICK b \in Within[i - 1] : d \in get_neighbors(b)
    BY <1>6, <1>9, WithinIs
  <2>2. b \in Cells /\ d \in Cells /\ Near(b, d, 1)
    BY <1>4, <1>6, <2>1, NeighborsAre
  <2>3. CASE b \in DOMAIN visited
    <3>1. visited[b].g \in Nat /\ ~(i - 1 < visited[b].g)
      BY <1>4, <1>6, <2>1, <2>3 DEF Exact
    <3>2. PICK m \in queue : m.at = d /\ m.g = visited[b].g + 1
      BY <1>3, <1>4, <2>1, <2>3 DEF Covered
    <3>3. m.g <= i /\ i - m.g \in Nat /\ 0 <= i - m.g
      BY <1>2, <3>1, <3>2
    <3>4. Near(m.at, d, i - m.g)
      BY <2>2, <3>2, <3>3, NearRules
    <3>5. QED
      BY <1>3, <3>3, <3>4
  <2>4. CASE b \notin DOMAIN visited
    <3>1. PICK m \in queue : OnWay(b, i - 1, m)
      BY <1>7, <2>1, <2>4
    <3>2. m.g <= i /\ i - 1 - m.g \in Nat /\ (i - 1 - m.g) + 1 = i - m.g /\ m.at \in Cells
      BY <1>4, <1>6, <3>1
    <3>3. Near(m.at, d, i - m.g)
      BY <2>2, <3>1, <3>2, NearRules
    <3>4. QED
      BY <1>3, <3>2, <3>3
  <2>5. QED
    BY <2>3, <2>4
<1>10. QED
  BY <1>8, <1>9

(* What is popped and has not been visited has come on a shortest way.     *)
LEMMA TopIsFinal ==
  ASSUME SearchInv, pc = "search", NEW n \in Tops, n.at \notin DOMAIN visited
  PROVE  Exact(n.at, n.g)
<1>1. /\ n \in queue /\ \A m \in queue : ~Less(m, n) /\ m \in Node /\ m.g \in Nat
      /\ goal \in Coordinates
  BY DEF Tops, SearchInv, TypeInv, Node
<1>2. n.at \in Within[n.g] /\ n.g \in Nat
  BY <1>1 DEF SearchInv, NodeInv, Sound
<1>3. ASSUME NEW k \in Nat, k < n.g, n.at \in Within[k]
      PROVE  FALSE
  <2>1. PICK m \in queue : m.g <= k /\ Near(m.at, n.at, k - m.g)
    BY <1>3, FrontierCovers
  <2>2. k - m.g \in Nat /\ m.g + (k - m.g) < n.g
    BY <1>1, <1>2, <1>3, <2>1
  <2>3. Less(m, n)
    BY <1>1, <2>1, <2>2, NearerIsLess
  <2>4. QED
    BY <1>1, <2>3
<1>4. QED
  BY <1>2, <1>3 DEF Exact

-----------------------------------------------------------------------------
(* The steps.                                                              *)

(* The search begins in SearchInv.                                         *)
LEMMA SearchInit == Init => SearchInv
<1> SUFFICES ASSUME Init
             PROVE  SearchInv
  OBVIOUS
<1>1. DOMAIN visited = {} /\ path \in Seq(Cells) /\ queue = {} /\ pc = "check"
  BY DEF Init
<1>2. NoNode \in Node
  BY CellsAreIntegers DEF NoNode, Node
<1>3. start \in Coordinates /\ goal \in Coordinates /\ obstructed \in SUBSET Cells
  BY RequestsAssumption, ObstaclesAssumption DEF Init
<1>4. TypeInv
  BY <1>1, <1>2, <1>3 DEF TypeInv, Init
<1>5. BeginInv /\ NodeInv /\ FrontierInv /\ RebuildInv /\ ShortestPath
  BY <1>1 DEF Init, BeginInv, NodeInv, FrontierInv, RebuildInv, ShortestPath
<1>6. QED
  BY <1>4, <1>5 DEF SearchInv

(* Illegal requests: the empty path.                                       *)
LEMMA RejectKeeps == SearchInv /\ Reject => SearchInv'
<1> SUFFICES ASSUME SearchInv, Reject
             PROVE  SearchInv'
  OBVIOUS
<1> USE DEF Reject
<1>1. queue = {} /\ DOMAIN visited = {} /\ path = <<>>
  BY DEF SearchInv, BeginInv
<1>2. TypeInv'
  BY DEF SearchInv, TypeInv
<1>3. BeginInv' /\ NodeInv' /\ FrontierInv' /\ RebuildInv'
  BY <1>1 DEF BeginInv, NodeInv, FrontierInv, RebuildInv
<1>4. ShortestPath'
  BY <1>1 DEF ShortestPath
<1>5. QED
  BY <1>2, <1>3, <1>4 DEF SearchInv

(* The start is pushed.                                                    *)
LEMMA PushStartKeeps == SearchInv /\ PushStart => SearchInv'
<1> SUFFICES ASSUME SearchInv, PushStart
             PROVE  SearchInv'
  OBVIOUS
<1> USE DEF PushStart
<1> DEFINE first == [at |-> start, g |-> 0, parent |-> <<0, 0>>]
<1>1. DOMAIN visited = {} /\ path = <<>> /\ visited' = visited /\ DOMAIN visited' = {}
  BY DEF SearchInv, BeginInv
<1>2. first \in Node /\ queue' = {first}
  BY CellsAreIntegers DEF Node
<1>3. TypeInv'
  BY <1>2 DEF SearchInv, TypeInv
<1>4. Legal' /\ BeginInv'
  BY <1>1 DEF BeginInv, Legal
<1>5. Within' = Within /\ start \in Within[0]
  BY SameWorld, WithinIs
<1>6. NodeInv'
  <2>1. Sound(first)'
    BY <1>5 DEF Sound
  <2>2. QED
    BY <1>1, <1>2, <2>1 DEF NodeInv
<1>7. FrontierInv'
  BY <1>1, <1>2 DEF FrontierInv, Covered
<1>8. RebuildInv' /\ ShortestPath'
  BY DEF RebuildInv, ShortestPath
<1>9. QED
  BY <1>3, <1>4, <1>6, <1>7, <1>8 DEF SearchInv

(* A node of a visited cell is dropped.                                    *)
LEMMA SkipKeeps ==
  ASSUME SearchInv, pc = "search", UNCHANGED <<obstructed, start, goal, path>>,
         NEW n \in Tops, SkipVisited(n)
  PROVE  SearchInv'
<1>1. /\ n.at \in DOMAIN visited /\ queue' = queue \ {n}
      /\ pc' = pc /\ visited' = visited /\ current' = current
  BY DEF SkipVisited, Popped
<1>2. TypeInv' /\ BeginInv' /\ RebuildInv' /\ ShortestPath'
  BY <1>1 DEF SearchInv, TypeInv, BeginInv, Legal, RebuildInv, ShortestPath
<1>3. NodeInv'
  <2>1. \A m : Sound(m) => Sound(m)'
    BY <1>1, SameWorld DEF Sound
  <2>2. QED
    BY <1>1, <2>1, SameWorld DEF SearchInv, NodeInv
<1>4. FrontierInv'
  <2>1. \A d, g : Covered(d, g) => Covered(d, g)'
    BY <1>1 DEF Covered
  <2>2. QED
    BY <1>1, <2>1, SameWorld DEF SearchInv, FrontierInv
<1>5. QED
  BY <1>2, <1>3, <1>4 DEF SearchInv

(* The goal is popped: its node is final.                                  *)
LEMMA ReachGoalKeeps ==
  ASSUME SearchInv, pc = "search", UNCHANGED <<obstructed, start, goal, path>>,
         NEW n \in Tops, ReachGoal(n)
  PROVE  SearchInv'
<1>1. /\ n.at \notin DOMAIN visited /\ n.at = goal /\ queue' = queue \ {n}
      /\ pc' = "rebuild" /\ visited' = visited /\ current' = n
  BY DEF ReachGoal, Popped
<1>2. /\ Exact(n.at, n.g) /\ n \in queue /\ n \in Node /\ n.g \in Nat
      /\ Sound(n) /\ path = <<>> /\ Legal
  BY <1>1, TopIsFinal DEF Tops, SearchInv, TypeInv, NodeInv, BeginInv, Node
<1>3. TypeInv' /\ BeginInv'
  BY <1>1, <1>2 DEF SearchInv, TypeInv, BeginInv, Legal
<1>4. \A m : Sound(m) => Sound(m)'
  BY <1>1, SameWorld DEF Sound
<1>5. NodeInv'
  BY <1>1, <1>4, SameWorld DEF SearchInv, NodeInv
<1>6. FrontierInv' /\ ShortestPath'
  BY <1>1 DEF FrontierInv, ShortestPath
<1>7. RebuildInv'
  <2>1. Len(path) = 0 /\ n.g + Len(path) = n.g /\ 1..Len(path) - 1 = {}
    BY <1>2
  <2>2. Exact(current.at, current.g)' /\ Exact(goal, current.g + Len(path))' /\ Sound(current)'
    BY <1>1, <1>2, <1>4, <2>1, SameWorld
  <2>3. QED
    BY <1>1, <1>2, <2>1, <2>2 DEF RebuildInv
<1>8. QED
  BY <1>3, <1>5, <1>6, <1>7 DEF SearchInv

(* A cell is visited and its neighbours are pushed.                        *)
LEMMA ExpandKeeps ==
  ASSUME SearchInv, pc = "search", UNCHANGED <<obstructed, start, goal, path>>,
         NEW n \in Tops, Expand(n)
  PROVE  SearchInv'
<1> DEFINE new == {[at |-> d, g |-> n.g + 1, parent |-> n.at] : d \in get_neighbors(n.at)}
<1>1. /\ n.at \notin DOMAIN visited /\ n.at # goal
      /\ DOMAIN visited' = DOMAIN visited \union {n.at}
      /\ visited'[n.at] = n /\ \A c \in DOMAIN visited : visited'[c] = visited[c]
      /\ queue' = (queue \ {n}) \union new
      /\ pc' = pc /\ current' = current
  BY DEF Expand, Popped, Parent
<1>2. /\ Exact(n.at, n.g) /\ n \in queue /\ n \in Node /\ n.g \in Nat /\ n.at \in Cells
      /\ Sound(n) /\ path = <<>> /\ Legal
  BY <1>1, TopIsFinal DEF Tops, SearchInv, TypeInv, NodeInv, BeginInv, Node
<1>3. \A m \in new : /\ m.at \in get_neighbors(n.at) /\ m.g = n.g + 1 /\ m.parent = n.at
                     /\ m.at \in Cells /\ m \in Node
  BY <1>2, NeighborsAre DEF Node
<1>4. \A d \in get_neighbors(n.at) : \E m \in new : m.at = d /\ m.g = n.g + 1
  <2>1. ASSUME NEW d \in get_neighbors(n.at)
        PROVE  \E m \in new : m.at = d /\ m.g = n.g + 1
    <3>1. [at |-> d, g |-> n.g + 1, parent |-> n.at] \in new
      OBVIOUS
    <3>2. QED
      BY <3>1
  <2>2. QED
    BY <2>1
<1> HIDE DEF new
<1>5. TypeInv'
  BY <1>1, <1>2, <1>3 DEF SearchInv, TypeInv
<1>6. BeginInv' /\ RebuildInv' /\ ShortestPath'
  BY <1>1, <1>2 DEF SearchInv, BeginInv, Legal, RebuildInv, ShortestPath
<1>7. \A m : Sound(m) => Sound(m)'
  BY <1>1, SameWorld DEF Sound
<1>8. ASSUME NEW m \in new
      PROVE  Sound(m)'
  <2>1. m.at \in Within[m.g]
    BY <1>2, <1>3, <1>8, WithinIs DEF Sound
  <2>2. m.g - 1 = n.g /\ visited'[m.parent] = n
    BY <1>1, <1>2, <1>3, <1>8
  <2>3. QED
    BY <1>1, <1>3, <1>8, <2>1, <2>2, SameWorld DEF Sound
<1>9. NodeInv'
  <2>1. \A m \in queue' : Sound(m)'
    BY <1>1, <1>7, <1>8 DEF SearchInv, NodeInv
  <2>2. ASSUME NEW c \in DOMAIN visited'
        PROVE  visited'[c].at = c /\ Sound(visited[c])' /\ Exact(c, visited[c].g)'
    <3>1. CASE c = n.at
      BY <1>1, <1>2, <1>7, <3>1, SameWorld
    <3>2. CASE c \in DOMAIN visited
      BY <1>1, <1>7, <3>2, SameWorld DEF SearchInv, NodeInv
    <3>3. QED
      BY <1>1, <3>1, <3>2
  <2>3. QED
    BY <2>1, <2>2 DEF NodeInv
<1>10. FrontierInv'
  <2>1. ASSUME NEW d, NEW g, Covered(d, g)
        PROVE  Covered(d, g)'
    <3>1. CASE d \in DOMAIN visited \union {n.at}
      BY <1>1, <3>1 DEF Covered
    <3>2. CASE d \notin DOMAIN visited \union {n.at}
      <4>1. PICK m \in queue : m.at = d /\ m.g = g
        BY <2>1, <3>2 DEF Covered
      <4>2. m \in queue'
        BY <1>1, <3>2, <4>1
      <4>3. QED
        BY <4>1, <4>2 DEF Covered
    <3>3. QED
      BY <3>1, <3>2
  <2>2. /\ goal \notin DOMAIN visited /\ Covered(start, 0)
        /\ \A c \in DOMAIN visited : \A d \in get_neighbors(c) : Covered(d, visited[c].g + 1)
    BY DEF SearchInv, FrontierInv
  <2>3. goal' \notin DOMAIN visited'
    BY <1>1, <2>2
  <2>4. Covered(start, 0)'
    BY <2>1, <2>2 DEF Covered
  <2>5. ASSUME NEW c \in DOMAIN visited', NEW d \in get_neighbors(c)
        PROVE  Covered(d, visited[c].g + 1)'
    <3>1. CASE c = n.at
      <4>1. PICK m \in new : m.at = d /\ m.g = n.g + 1
        BY <1>4, <2>5, <3>1
      <4>2. m \in queue' /\ visited'[c] = n
        BY <1>1, <3>1
      <4>3. QED
        BY <4>1, <4>2 DEF Covered
    <3>2. CASE c \in DOMAIN visited
      <4>1. Covered(d, visited[c].g + 1) /\ visited'[c] = visited[c]
        BY <1>1, <2>2, <2>5, <3>2
      <4>2. PICK h : h = visited[c].g + 1
        OBVIOUS
      <4>3. Covered(d, h)'
        BY <2>1, <4>1, <4>2
      <4>4. QED
        BY <4>1, <4>2, <4>3 DEF Covered
    <3>3. QED
      BY <1>1, <3>1, <3>2
  <2>6. QED
    BY <2>3, <2>4, <2>5, SameWorld DEF FrontierInv
<1>11. QED
  BY <1>5, <1>6, <1>9, <1>10 DEF SearchInv

(* Nothing is left: nothing more can be reached.                           *)
LEMMA QueueEmptyKeeps == SearchInv /\ QueueEmpty => SearchInv'
<1> SUFFICES ASSUME SearchInv, QueueEmpty
             PROVE  SearchInv'
  OBVIOUS
<1> USE DEF QueueEmpty
<1>1. TypeInv' /\ BeginInv' /\ FrontierInv' /\ RebuildInv'
  BY DEF SearchInv, TypeInv, BeginInv, Legal, FrontierInv, RebuildInv
<1>2. NodeInv'
  <2>1. \A m : Sound(m) => Sound(m)'
    BY SameWorld DEF Sound
  <2>2. QED
    BY <2>1, SameWorld DEF SearchInv, NodeInv
<1>3. path = <<>> /\ goal \notin DOMAIN visited /\ start \in Cells
  BY DEF SearchInv, BeginInv, FrontierInv, Legal
<1>4. \A n \in Nat : goal \notin Within[n]
  BY <1>3, FrontierCovers
<1>5. goal \notin Reachable
  BY <1>3, <1>4, ReachableIs
<1>6. ShortestPath'
  BY <1>3, <1>5, SameWorld DEF ShortestPath
<1>7. QED
  BY <1>1, <1>2, <1>6 DEF SearchInv

(* One less and one more.                                                  *)
LEMMA SameSum ==
  ASSUME NEW a \in Nat, NEW b \in Nat, NEW c, NEW d, c = a - 1, d = b + 1
  PROVE  c + d = a + b
  OBVIOUS

(* One cell more of the way back.                                          *)
LEMMA FollowParentKeeps == SearchInv /\ FollowParent => SearchInv'
<1> SUFFICES ASSUME SearchInv, FollowParent
             PROVE  SearchInv'
  OBVIOUS
<1> USE DEF FollowParent
<1>1. /\ Sound(current) /\ Exact(current.at, current.g) /\ Exact(goal, current.g + Len(path))
      /\ path = <<>> => current.at = goal
      /\ path # <<>> => path[1] = goal /\ path[Len(path)] \in get_neighbors(current.at)
      /\ \A i \in 1..Len(path) - 1 : path[i] \in get_neighbors(path[i + 1])
  BY DEF SearchInv, RebuildInv
<1> DEFINE before == visited[current.parent]
<1>2. /\ current \in Node /\ current.at \in Cells /\ current.g \in Nat /\ path \in Seq(Cells)
      /\ before \in Node /\ current' = before /\ path' = Append(path, current.at)
  BY DEF SearchInv, TypeInv, Node
<1>3. current.g # 0
  BY <1>1, WithinIs DEF Sound
<1>4. /\ current.at \in get_neighbors(before.at) /\ before.g = current.g - 1 /\ before.g \in Nat
      /\ Sound(before) /\ Exact(before.at, before.g)
  <2>1. /\ current.parent \in DOMAIN visited /\ before.g = current.g - 1
        /\ current.at \in get_neighbors(current.parent)
    BY <1>1, <1>3 DEF Sound
  <2>2. before.at = current.parent /\ Sound(before) /\ Exact(before.at, before.g)
    BY <2>1 DEF SearchInv, NodeInv
  <2>3. before.g \in Nat
    BY <1>2 DEF Node
  <2>4. QED
    BY <2>1, <2>2, <2>3
<1> HIDE DEF before
<1>5. \A m : Sound(m) => Sound(m)'
  BY SameWorld DEF Sound
<1>6. TypeInv'
  BY <1>2 DEF SearchInv, TypeInv
<1>7. BeginInv' /\ FrontierInv' /\ ShortestPath'
  BY DEF SearchInv, BeginInv, FrontierInv, ShortestPath, Legal
<1>8. NodeInv'
  BY <1>5, SameWorld DEF SearchInv, NodeInv
<1>9. /\ Len(path) \in Nat /\ Len(path') = Len(path) + 1 /\ path'[Len(path')] = current.at
      /\ \A i \in 1..Len(path) : path'[i] = path[i]
      /\ path = <<>> <=> Len(path) = 0
  BY <1>2
<1>10. RebuildInv'
  <2>1. Exact(goal, current.g + Len(path))'
    <3>1. before.g + Len(path') = current.g + Len(path)
      <4>1. current.g \in Nat /\ Len(path) \in Nat
        BY <1>2, <1>9
      <4>2. before.g = current.g - 1 /\ Len(path') = Len(path) + 1
        BY <1>4, <1>9
      <4>3. QED
        BY <4>1, <4>2, SameSum
    <3>2. QED
      BY <1>1, <1>2, <3>1, SameWorld
  <2>2. path' # <<>> /\ path'[1] = goal /\ path'[Len(path')] \in get_neighbors(before.at)
    <3>1. CASE path = <<>>
      BY <1>1, <1>4, <1>9, <3>1
    <3>2. CASE path # <<>>
      <4>1. 1 \in 1..Len(path) /\ Len(path') # 0
        BY <1>9, <3>2
      <4>2. QED
        BY <1>1, <1>4, <1>9, <3>2, <4>1
    <3>3. QED
      BY <3>1, <3>2
  <2>3. ASSUME NEW i \in 1..Len(path') - 1
        PROVE  path'[i] \in get_neighbors(path'[i + 1])
    <3>1. i \in 1..Len(path)
      BY <1>9, <2>3
    <3>2. CASE i = Len(path)
      <4>1. path'[i] = path[i] /\ path'[i + 1] = current.at /\ path # <<>>
        BY <1>9, <3>1, <3>2
      <4>2. QED
        BY <1>1, <3>2, <4>1
    <3>3. CASE i # Len(path)
      <4>1. i \in 1..Len(path) - 1 /\ i + 1 \in 1..Len(path)
        BY <1>9, <3>1, <3>3
      <4>2. QED
        BY <1>1, <1>9, <3>1, <4>1
    <3>4. QED
      BY <3>2, <3>3
  <2>4. Sound(current)' /\ Exact(current.at, current.g)'
    BY <1>2, <1>4, <1>5, SameWorld
  <2>5. QED
    BY <2>1, <2>2, <2>3, <2>4, <1>2, SameWorld DEF RebuildInv
<1>11. QED
  BY <1>6, <1>7, <1>8, <1>10 DEF SearchInv

(* The way back ends at the start: its reverse is a shortest path.         *)
LEMMA ReturnPathKeeps == SearchInv /\ ReturnPath => SearchInv'
<1> SUFFICES ASSUME SearchInv, ReturnPath
             PROVE  SearchInv'
  OBVIOUS
<1> USE DEF ReturnPath
<1>1. /\ Exact(current.at, current.g) /\ Exact(goal, current.g + Len(path))
      /\ path = <<>> => current.at = goal
      /\ path # <<>> => path[1] = goal /\ path[Len(path)] \in get_neighbors(current.at)
      /\ \A i \in 1..Len(path) - 1 : path[i] \in get_neighbors(path[i + 1])
  BY DEF SearchInv, RebuildInv
<1>2. /\ current.at = start /\ path \in Seq(Cells) /\ Len(path) \in Nat
      /\ start \in Cells /\ goal \in Cells /\ Legal
  BY DEF SearchInv, TypeInv, BeginInv, Legal
<1> DEFINE n == Len(path)
<1>3. Len(path') = n /\ path' \in Seq(Cells) /\ \A i \in 1..n : path'[i] = path[n + 1 - i]
  <2>1. \A i \in 1..n : n + 1 - i \in 1..n /\ path[n + 1 - i] \in Cells
    BY <1>2
  <2>2. path' = [i \in 1..n |-> path[n + 1 - i]]
    OBVIOUS
  <2>3. QED
    BY <1>2, <2>1, <2>2
<1>4. current.g = 0
  <2>1. start \in Within[0] /\ current.g \in Nat
    BY <1>1, WithinIs DEF Exact
  <2>2. ~(0 < current.g)
    BY <1>1, <1>2, <2>1 DEF Exact
  <2>3. QED
    BY <2>1, <2>2
<1>5. Exact(goal, n)
  BY <1>1, <1>2, <1>4
<1>6. Distance(goal) = n /\ goal \in Reachable
  BY <1>2, <1>5, DistanceIs
<1>7. TypeInv' /\ BeginInv' /\ FrontierInv' /\ RebuildInv'
  BY <1>3 DEF SearchInv, TypeInv, BeginInv, Legal, FrontierInv, RebuildInv
<1>8. NodeInv'
  <2>1. \A m : Sound(m) => Sound(m)'
    BY SameWorld DEF Sound
  <2>2. QED
    BY <2>1, SameWorld DEF SearchInv, NodeInv
<1> PICK whole : whole = <<start>> \o path'
  OBVIOUS
<1>9. /\ Len(whole) = n + 1 /\ whole[1] = start
      /\ \A i \in 1..n : whole[i + 1] = path[n + 1 - i]
  <2>1. Len(whole) = n + 1 /\ whole[1] = start /\ \A i \in 1..n : whole[i + 1] = path'[i]
    BY <1>2, <1>3
  <2>2. QED
    BY <1>3, <2>1
<1>10. whole[n + 1] = goal
  <2>1. CASE n = 0
    BY <1>1, <1>2, <1>9, <2>1
  <2>2. CASE n # 0
    <3>1. n \in 1..n /\ n + 1 - n = 1 /\ path # <<>>
      BY <1>2, <2>2
    <3>2. QED
      BY <1>1, <1>9, <3>1
  <2>3. QED
    BY <2>1, <2>2
<1>11. ASSUME NEW i \in 1..n
       PROVE  whole[i + 1] \in get_neighbors(whole[i])
  <2>1. whole[i + 1] = path[n + 1 - i]
    BY <1>9
  <2>2. CASE i = 1
    <3>1. n + 1 - i = n /\ path # <<>>
      BY <1>2, <2>2
    <3>2. QED
      BY <1>1, <1>2, <1>9, <2>1, <2>2, <3>1
  <2>3. CASE i # 1
    <3>1. /\ i - 1 \in 1..n /\ (i - 1) + 1 = i /\ n + 1 - i \in 1..n - 1
          /\ n + 1 - (i - 1) = (n + 1 - i) + 1
      BY <1>2, <2>3
    <3>2. whole[i] = path[(n + 1 - i) + 1]
      BY <1>9, <3>1
    <3>3. QED
      BY <1>1, <2>1, <3>1, <3>2
  <2>4. QED
    BY <2>2, <2>3
<1>12. ShortestPath'
  <2>1. ({start, goal} \subseteq Cells \ obstructed)' /\ Distance(goal)' = n /\ (goal \in Reachable)'
    BY <1>2, <1>6, SameWorld DEF Legal
  <2>2. Len(whole) = n + 1 /\ Len(path') = n
    BY <1>3, <1>9
  <2>3. /\ whole[Len(whole)] = goal'
        /\ \A i \in 1..Len(path') : whole[i + 1] \in get_neighbors(whole[i])'
    BY <1>10, <1>11, <2>2, SameWorld
  <2>4. whole = <<start'>> \o path'
    OBVIOUS
  <2>5. QED
    BY <2>1, <2>2, <2>3, <2>4 DEF ShortestPath
<1>13. QED
  BY <1>7, <1>8, <1>12 DEF SearchInv

-----------------------------------------------------------------------------
(* The theorems.                                                           *)

(* Every step keeps SearchInv.                                             *)
LEMMA SearchNext == SearchInv /\ [Next]_vars => SearchInv'
<1> SUFFICES ASSUME SearchInv, [Next]_vars
             PROVE  SearchInv'
  OBVIOUS
<1>1. CASE PopTop
  <2>1. PICK n \in Tops : SkipVisited(n) \/ ReachGoal(n) \/ Expand(n)
    BY <1>1 DEF PopTop
  <2>2. pc = "search" /\ UNCHANGED <<obstructed, start, goal, path>>
    BY <1>1 DEF PopTop
  <2>3. QED
    BY <2>1, <2>2, SkipKeeps, ReachGoalKeeps, ExpandKeeps
<1>2. CASE UNCHANGED vars
  <2>1. UNCHANGED <<obstructed, start, goal, pc, queue, visited, current, path>>
    BY <1>2 DEF vars
  <2>2. \A m : Sound(m)' <=> Sound(m)
    BY <2>1, SameWorld DEF Sound
  <2>3. NodeInv'
    BY <2>1, <2>2, SameWorld DEF SearchInv, NodeInv
  <2>4. FrontierInv'
    <3>1. \A d, g : Covered(d, g)' <=> Covered(d, g)
      BY <2>1 DEF Covered
    <3>2. QED
      BY <2>1, <3>1, SameWorld DEF SearchInv, FrontierInv
  <2>5. RebuildInv'
    BY <2>1, <2>2, SameWorld DEF SearchInv, RebuildInv
  <2>6. ShortestPath'
    BY <2>1, SameWorld DEF SearchInv, ShortestPath
  <2>7. TypeInv' /\ BeginInv'
    BY <2>1 DEF SearchInv, TypeInv, BeginInv, Legal
  <2>8. QED
    BY <2>3, <2>4, <2>5, <2>6, <2>7 DEF SearchInv
<1>3. QED
  BY <1>1, <1>2, RejectKeeps, PushStartKeeps, QueueEmptyKeeps, FollowParentKeeps,
     ReturnPathKeeps DEF Next, Returned

(* find_path's state always satisfies SearchInv.                           *)
THEOREM SearchInvariant == Spec => []SearchInv
  BY SearchInit, SearchNext, PTL DEF Spec

(* The variables of find_path keep their types.                            *)
THEOREM SearchTypeCorrect == Spec => []SearchTypeOK
<1>1. Init => SearchTypeOK
  BY RequestsAssumption DEF Init, SearchTypeOK
<1>2. SearchTypeOK /\ SearchInv /\ SearchInv' /\ [Next]_vars => SearchTypeOK'
  BY DEF SearchTypeOK, SearchInv, TypeInv, Next, vars, Reject, PushStart, PopTop, QueueEmpty,
         FollowParent, ReturnPath, Returned
<1>3. QED
  BY <1>1, <1>2, SearchInvariant, PTL DEF Spec

(* find_path returns a shortest path, or the empty one exactly when there  *)
(* is none (or nothing to do): A* with this heuristic is right on every    *)
(* map.                                                                    *)
THEOREM ShortestPathFound == Spec => []ShortestPath
<1>1. SearchInv => ShortestPath
  BY DEF SearchInv
<1>2. QED
  BY <1>1, SearchInvariant, PTL

(* A visited cell never needs to be visited again.                         *)
THEOREM VisitedNodesFinal == Spec => []VisitedIsFinal
<1>1. SearchInv => VisitedIsFinal
  BY DistanceIs DEF SearchInv, TypeInv, BeginInv, NodeInv, Legal, Exact, VisitedIsFinal
<1>2. QED
  BY <1>1, SearchInvariant, PTL

(* visited.at finds every parent while the path is reconstructed.          *)
THEOREM ParentsAreVisited == Spec => []ParentsVisited
<1>1. SearchInv => ParentsVisited
  <2> SUFFICES ASSUME SearchInv, pc = "rebuild", current.at # start
               PROVE  /\ current.parent \in DOMAIN visited
                      /\ visited[current.parent].g = current.g - 1
    BY DEF ParentsVisited
  <2>1. Sound(current)
    BY DEF SearchInv, RebuildInv
  <2>2. current.g # 0
    BY <2>1, WithinIs DEF Sound
  <2>3. QED
    BY <2>1, <2>2 DEF Sound
<1>2. QED
  BY <1>1, SearchInvariant, PTL

(* The nodes leave the queue in the order of f.                            *)
THEOREM NodesPoppedInOrder == Spec => PoppedInOrder
<1>1. ASSUME SearchInv, [Next]_vars
      PROVE  [pc = "search" /\ pc' = "search" =>
                \A n \in queue \ queue' : \A m \in queue' : ~Less(m, n)]_vars
  <2> SUFFICES ASSUME pc = "search", pc' = "search",
                      NEW n \in queue \ queue', NEW m \in queue'
               PROVE  ~Less(m, n)
    OBVIOUS
  <2>1. PopTop
    BY <1>1 DEF Next, vars, Reject, PushStart, QueueEmpty, FollowParent, ReturnPath, Returned
  <2>2. PICK top \in Tops : SkipVisited(top) \/ Expand(top)
    BY <2>1 DEF PopTop, ReachGoal
  <2>3. queue \ {top} \subseteq queue'
    BY <2>2 DEF SkipVisited, Expand, Popped
  <2>4. n = top
    BY <2>3
  <2>5. \A k \in queue : ~Less(k, n)
    BY <2>2, <2>4 DEF Tops
  <2>6. n \in Node /\ n.at \in Cells /\ n.g \in Nat /\ goal \in Coordinates
    BY <1>1 DEF SearchInv, TypeInv, Node
  <2>7. CASE m \in queue
    BY <2>5, <2>7
  <2>8. CASE m \notin queue
    <3>1. PICK d \in get_neighbors(n.at) : m = [at |-> d, g |-> n.g + 1, parent |-> n.at]
      BY <2>2, <2>4, <2>8 DEF SkipVisited, Expand, Popped, Parent
    <3>2. m \in Node /\ m.g = n.g + 1 /\ Near(n.at, m.at, 1)
      BY <2>6, <3>1, NeighborsAre DEF Node
    <3>3. QED
      BY <2>6, <3>2, NextIsNotLess
  <2>9. QED
    BY <2>7, <2>8
<1>2. QED
  BY <1>1, SearchInvariant, PTL DEF Spec, PoppedInOrder

=============================================================================
