---------------------------- MODULE MatMulProofs ----------------------------
(***************************************************************************)
(* Proofs about MatMul.tla, for every shape of the matrices, every number  *)
(* of workers but 0 and every num_iters.  (Where hardware_concurrency()    *)
(* returns 0 the pool drops its tasks and multiply_thread_pool returns a   *)
(* matrix of zeros.)  The argument: each row of a result has at most one   *)
(* runner; the counters of that runner say how many products have been     *)
(* added to each element of its row; and Main returns a result only when   *)
(* every row was begun and nobody has one any more.                        *)
(***************************************************************************)
EXTENDS MatMul, TaskPoolProofs, SequenceTheorems, TLAPS

(* The first n additions, in their order.                                  *)
Prefix(n) == [m \in 1..n |-> m]

(* MatTypeOK without the pool, whose types are part of TaskInv; result is  *)
(* a matrix, and loaded holds copies of its elements.                      *)
TypeInv ==
  /\ call \in 1..NumCalls
  /\ main \in {"call", "rows", "sum", "create", "join", "enqueue", "close",
               "closing", "compare", "threw", "error", "done"}
  /\ next \in Rows
  /\ result \in [Rows -> [Columns -> Seq(1..Common)]]
  /\ row \in [Runners -> Rows \union {NoRow}]
  /\ k \in [Runners -> 1..Common + 1]
  /\ j \in [Runners -> 1..NumCols + 1]
  /\ loaded \in [Runners -> Seq(Nat)]

(* Who runs in which call: Main row after row; thread i on row i; a worker *)
(* on the row of its task.                                                 *)
SerialPoints == {"rows", "sum"}
ThreadPoints == {"create", "join"}
PoolPoints == {"enqueue", "close", "closing"}
RunnerInv ==
  /\ main \in SerialPoints => /\ Variant \in {"naive", "fast"}
                              /\ \A r \in Runners : r # Main => row[r] = NoRow
  /\ main \in ThreadPoints => /\ Variant = "threads"
                              /\ \A r \in Runners : row[r] \in {NoRow, r}
  /\ main = "join" => \A i \in Rows : i < next => row[i] = NoRow
  /\ main \notin {"rows", "create", "join", "enqueue"} => next = 1
  /\ main \in PoolPoints => /\ Variant = "pool"
                            /\ \A r \in Workers : row[r] = slot[r]
                            /\ \A r \in Runners : r \notin Workers => row[r] = NoRow
  /\ main \notin PoolPoints => queue = <<>> /\ \A w \in Workers : slot[w] = Idle
  /\ main \notin SerialPoints \union ThreadPoints \union PoolPoints =>
       \A r \in Runners : row[r] = NoRow

(* The counters of a runner at work are in the ranges of its loops.        *)
RangeInv ==
  \A r \in Runners : row[r] # NoRow =>
    IF Variant = "naive" THEN k[r] <= Common
    ELSE j[r] <= NumCols /\ (k[r] > Common => j[r] = 1)

(* How many additions runner r has made to column c of its row.            *)
Added(r, c) ==
  IF c < j[r] THEN (IF Variant = "naive" THEN Common ELSE k[r])
  ELSE IF c = j[r] \/ Variant # "naive" THEN k[r] - 1 ELSE 0

(* A runner has a row of its own, and knows what it has added there.       *)
OwnInv ==
  /\ \A r, s \in Runners : row[r] = row[s] /\ row[r] # NoRow => r = s
  /\ \A r \in Runners : row[r] # NoRow =>
       \A c \in Columns : result[row[r]][c] = Prefix(Added(r, c))

(* A copy of an element is still what the element is.                      *)
LoadInv ==
  \A r \in Runners : loaded[r] # NotLoaded =>
    row[r] # NoRow /\ ~RowDone(r) /\ loaded[r] = Prefix(k[r] - 1)

(* The rows on which work has begun.                                       *)
Working == SerialPoints \union ThreadPoints \union PoolPoints \union {"compare"}
Begun(i) ==
  IF main \in {"rows", "create"} THEN i < next
  ELSE main \in PoolPoints => i \in Taken

(* A row not begun is zero, and one that was begun and has no runner any   *)
(* more is complete.                                                       *)
RowInv ==
  main \in Working =>
    \A i \in Rows :
      /\ ~Begun(i) => /\ \A c \in Columns : result[i][c] = <<>>
                      /\ \A r \in Runners : row[r] # i
      /\ Begun(i) /\ (\A r \in Runners : row[r] # i) =>
           \A c \in Columns : result[i][c] = Prefix(Common)

MatInv == /\ TaskInv /\ TypeInv /\ RunnerInv /\ RangeInv /\ OwnInv /\ LoadInv
          /\ RowInv /\ AdditionsInOrder /\ main # "error"
-----------------------------------------------------------------------------
(* Who the runners are: Main is nobody else, and no row is a row.          *)
LEMMA Names ==
  /\ Main \in Runners /\ Main \notin Workers /\ Main \notin Rows
  /\ Rows \subseteq Runners /\ Workers \subseteq Runners
  /\ Rows = Tasks /\ NoRow = Idle /\ NoRow \notin Rows
  /\ NumRows \in Nat \ {0} /\ Common \in Nat \ {0} /\ NumCols \in Nat \ {0}
  /\ NumIters \in Nat \ {0} /\ 1 \in Rows
  BY ShapeAssumption, TaskPerRow
     DEF Main, Workers, Runners, Rows, Tasks, NoRow, Idle

(* The first n additions are a sequence of n, never mistaken for a missing *)
(* copy, and in order.                                                     *)
LEMMA PrefixFacts ==
  ASSUME NEW n \in Nat
  PROVE  /\ Prefix(n) \in Seq(Nat) /\ Len(Prefix(n)) = n /\ Prefix(n) # NotLoaded
         /\ n <= Common => Prefix(n) \in Seq(1..Common) /\ Ordered(Prefix(n))
<1>1. Prefix(n) \in Seq(Nat) /\ Len(Prefix(n)) = n
  BY DEF Prefix
<1>2. Prefix(n) # NotLoaded
  <2>1. CASE n = 0
    <3>1. Len(NotLoaded) = 1
      BY DEF NotLoaded
    <3>2. Len(Prefix(n)) # 1
      BY <1>1, <2>1
    <3>3. QED
      BY <3>1, <3>2
  <2>2. CASE n # 0
    <3>1. Prefix(n)[1] = 1
      BY <2>2 DEF Prefix
    <3>2. QED
      BY <3>1 DEF NotLoaded
  <2>3. QED
    BY <2>1, <2>2
<1>3. ASSUME n <= Common
      PROVE  Prefix(n) \in Seq(1..Common) /\ Ordered(Prefix(n))
  <2>1. Prefix(n) \in Seq(1..Common)
    BY <1>3, Names DEF Prefix
  <2>2. Sum \in Seq(1..Common) /\ Len(Sum) = Common
    BY Names DEF Sum
  <2>3. SubSeq(Sum, 1, n) = Prefix(n)
    BY <1>3, <2>2, Names DEF Sum, Prefix
  <2>4. n \in 0..Common
    BY <1>3, Names
  <2>5. QED
    BY <2>1, <2>3, <2>4 DEF Ordered
<1>4. QED
  BY <1>1, <1>2, <1>3

(* One more addition.                                                      *)
LEMMA PrefixGrows ==
  ASSUME NEW n \in Nat \ {0}
  PROVE  Append(Prefix(n - 1), n) = Prefix(n)
<1>1. n - 1 \in Nat
  OBVIOUS
<1>2. Prefix(n - 1) \in Seq(Nat) /\ Len(Prefix(n - 1)) = n - 1
  BY <1>1, PrefixFacts
<1>3. Append(Prefix(n - 1), n) \in Seq(Nat) /\ Len(Append(Prefix(n - 1), n)) = n
  BY <1>1, <1>2, AppendProperties
<1>4. Prefix(n) \in Seq(Nat) /\ Len(Prefix(n)) = n
  BY PrefixFacts
<1>5. ASSUME NEW m \in 1..n
      PROVE  Append(Prefix(n - 1), n)[m] = Prefix(n)[m]
  <2>1. Prefix(n)[m] = m
    BY DEF Prefix
  <2>2. CASE m = n
    <3>1. Append(Prefix(n - 1), n)[Len(Prefix(n - 1)) + 1] = n
      BY <1>2, AppendProperties
    <3>2. QED
      BY <1>1, <1>2, <2>1, <2>2, <3>1
  <2>3. CASE m # n
    <3>1. m \in 1..(n - 1)
      BY <2>3
    <3>2. Append(Prefix(n - 1), n)[m] = Prefix(n - 1)[m]
      BY <1>2, <3>1, AppendProperties
    <3>3. QED
      BY <2>1, <3>1, <3>2 DEF Prefix
  <2>4. QED
    BY <2>2, <2>3
<1>6. QED
  BY <1>3, <1>4, <1>5, SeqEqual

(* No addition.                                                            *)
LEMMA PrefixZero == Prefix(0) = <<>>
  BY DEF Prefix

(* The four multiplications, called in turn.                               *)
LEMMA Variants ==
  ASSUME call \in 1..NumCalls
  PROVE  Variant \in {"naive", "fast", "threads", "pool"}
<1>1. Len(Checked) = 4
  BY DEF Checked
<1>2. CASE call <= 4
  <2>1. call \in 1..4
    BY <1>2, Names, <1>1 DEF NumCalls
  <2>2. QED
    BY <1>1, <1>2, <2>1 DEF Variant, Checked
<1>3. CASE ~(call <= 4)
  <2> DEFINE n == call - 4 - 1
  <2>1. n \in Nat /\ n < 4 * NumIters
    BY <1>1, <1>3, Names DEF NumCalls
  <2>2. n \div NumIters \in 0..3
    <3> HIDE DEF n
    <3>1. QED
      BY <2>1, Names
  <2>3. 1 + (n \div NumIters) \in 1..4
    <3> HIDE DEF n
    <3>1. QED
      BY <2>2
  <2>4. Variant = Checked[1 + (n \div NumIters)]
    BY <1>1, <1>3 DEF Variant
  <2>5. QED
    <3> HIDE DEF n
    <3>1. QED
      BY <2>3, <2>4 DEF Checked
<1>4. QED
  BY <1>2, <1>3

(* A runner on a row tells where Main is.                                  *)
LEMMA Running ==
  ASSUME MatInv, NEW r \in Runners, row[r] # NoRow
  PROVE  /\ row[r] \in Rows
         /\ main \in SerialPoints \union ThreadPoints \union PoolPoints
         /\ main \in Working /\ Begun(row[r])
         /\ Variant = "pool" => r \in Workers /\ main \in PoolPoints
<1> USE DEF MatInv
<1>1. row[r] \in Rows
  BY DEF TypeInv
<1>2. main \in SerialPoints \union ThreadPoints \union PoolPoints
  BY DEF RunnerInv
<1>3. main \in Working /\ Begun(row[r])
  BY <1>1, <1>2 DEF Working, RowInv
<1>4. Variant = "pool" => r \in Workers /\ main \in PoolPoints
  BY <1>2 DEF RunnerInv
<1>5. QED
  BY <1>1, <1>2, <1>3, <1>4

(* What a runner has added is within the sum.                              *)
LEMMA AddedBounds ==
  ASSUME MatInv, NEW r \in Runners, row[r] # NoRow, NEW c \in Columns
  PROVE  /\ Added(r, c) \in 0..Common
         /\ RowDone(r) => Added(r, c) = Common
<1>1. k[r] \in 1..Common + 1 /\ j[r] \in 1..NumCols + 1 /\ c \in 1..NumCols
  BY DEF MatInv, TypeInv, Columns
<1>2. IF Variant = "naive" THEN k[r] <= Common
      ELSE j[r] <= NumCols /\ (k[r] > Common => j[r] = 1)
  BY DEF MatInv, RangeInv
<1>3. CASE Variant = "naive"
  BY <1>1, <1>2, <1>3, Names DEF Added, RowDone, Columns
<1>4. CASE Variant # "naive"
  BY <1>1, <1>2, <1>4, Names DEF Added, RowDone, Columns
<1>5. QED
  BY <1>3, <1>4

(* The element a runner is about to change is one of its row.              *)
LEMMA AddsWithin ==
  ASSUME MatInv, NEW r \in Runners, row[r] # NoRow, ~RowDone(r)
  PROVE  j[r] \in Columns /\ k[r] \in 1..Common /\ Added(r, j[r]) = k[r] - 1
<1>1. k[r] \in 1..Common + 1 /\ j[r] \in 1..NumCols + 1
  BY DEF MatInv, TypeInv
<1>2. IF Variant = "naive" THEN k[r] <= Common
      ELSE j[r] <= NumCols /\ (k[r] > Common => j[r] = 1)
  BY DEF MatInv, RangeInv
<1>3. CASE Variant = "naive"
  BY <1>1, <1>2, <1>3, Names DEF Added, RowDone, Columns
<1>4. CASE Variant # "naive"
  BY <1>1, <1>2, <1>4, Names DEF Added, RowDone, Columns
<1>5. QED
  BY <1>3, <1>4

-----------------------------------------------------------------------------
(* A runner copies the element it is about to change: the additions made   *)
(* so far.                                                                 *)
LEMMA LoadKeeps ==
  ASSUME MatInv, NEW r \in Runners, Load(r), UNCHANGED mainVars
  PROVE  MatInv'
<1> USE DEF MatInv
<1>1. /\ UNCHANGED <<call, main, next, row, k, j, result>>
      /\ UNCHANGED <<queue, enqueued, slot, finished, phase>>
      /\ row[r] # NoRow /\ ~RowDone(r)
      /\ loaded' = [loaded EXCEPT ![r] = result[row[r]][j[r]]]
  BY DEF Load, mainVars, poolVars
<1>2. TaskInv' /\ NumTaken' = NumTaken
  BY <1>1, PoolStutter DEF poolVars
<1>3. j[r] \in Columns /\ k[r] \in 1..Common /\ Added(r, j[r]) = k[r] - 1
  BY <1>1, AddsWithin
<1>4. result[row[r]][j[r]] = Prefix(k[r] - 1)
  BY <1>1, <1>3 DEF OwnInv
<1>5. k[r] - 1 \in Nat
  BY <1>3
<1>6. Prefix(k[r] - 1) \in Seq(Nat)
  BY <1>5, PrefixFacts
<1>7. TypeInv'
  BY <1>1, <1>4, <1>6 DEF TypeInv
<1>8. Variant' = Variant
  BY <1>1 DEF Variant
<1>9. RunnerInv' /\ RangeInv'
  BY <1>1, <1>8 DEF RunnerInv, RangeInv
<1>10. OwnInv'
  BY <1>1, <1>8 DEF OwnInv, Added
<1>11. LoadInv'
  BY <1>1, <1>4, <1>8 DEF LoadInv, RowDone, TypeInv
<1>12. RowInv' /\ AdditionsInOrder'
  BY <1>1, <1>2 DEF RowInv, Begun, Taken, AdditionsInOrder
<1>13. QED
  BY <1>1, <1>2, <1>7, <1>9, <1>10, <1>11, <1>12

(* The next product comes after the one that was added, and what has been  *)
(* added to each column says so.                                           *)
LEMMA NextProductCounts ==
  ASSUME MatInv, NEW r \in Runners, row[r] # NoRow, ~RowDone(r), NextProduct(r),
         UNCHANGED call
  PROVE  /\ k' \in [Runners -> 1..Common + 1] /\ j' \in [Runners -> 1..NumCols + 1]
         /\ \A s \in Runners : s # r => k'[s] = k[s] /\ j'[s] = j[s]
         /\ IF Variant = "naive" THEN k'[r] <= Common
            ELSE j'[r] <= NumCols /\ (k'[r] > Common => j'[r] = 1)
         /\ \A c \in Columns : Added(r, c)' = IF c = j[r] THEN k[r] ELSE Added(r, c)
<1>1. /\ k \in [Runners -> 1..Common + 1] /\ j \in [Runners -> 1..NumCols + 1]
      /\ k[r] \in 1..Common /\ j[r] \in 1..NumCols
  BY AddsWithin, Names DEF MatInv, TypeInv, Columns
<1>2. Variant' = Variant
  BY DEF Variant
<1>3. CASE Variant = "naive"
  <2>1. CASE k[r] < Common
    <3>1. k' = [k EXCEPT ![r] = k[r] + 1] /\ j' = j
      BY <1>3, <2>1 DEF NextProduct, MoreToDo
    <3>2. k'[r] = k[r] + 1 /\ j'[r] = j[r]
      BY <1>1, <3>1
    <3>3. k[r] + 1 \in 1..Common + 1 /\ k[r] + 1 <= Common
      BY <1>1, <2>1, Names
    <3>4. \A c \in Columns : Added(r, c)' = IF c = j[r] THEN k[r] ELSE Added(r, c)
      BY <1>1, <1>2, <1>3, <3>2, Names DEF Added, Columns
    <3>5. QED
      BY <1>1, <1>3, <3>1, <3>2, <3>3, <3>4
  <2>2. CASE ~(k[r] < Common)
    <3>1. k' = [k EXCEPT ![r] = 1] /\ j' = [j EXCEPT ![r] = j[r] + 1]
      BY <1>3, <2>2 DEF NextProduct, MoreToDo
    <3>2. k'[r] = 1 /\ j'[r] = j[r] + 1 /\ k[r] = Common
      BY <1>1, <2>2, <3>1, Names
    <3>3. j[r] + 1 \in 1..NumCols + 1 /\ 1 \in 1..Common + 1 /\ 1 <= Common
      BY <1>1, Names
    <3>4. \A c \in Columns : Added(r, c)' = IF c = j[r] THEN k[r] ELSE Added(r, c)
      BY <1>1, <1>2, <1>3, <3>2, Names DEF Added, Columns
    <3>5. QED
      BY <1>1, <1>3, <3>1, <3>2, <3>3, <3>4
  <2>3. QED
    BY <2>1, <2>2
<1>4. CASE Variant # "naive"
  <2>1. CASE j[r] < NumCols
    <3>1. j' = [j EXCEPT ![r] = j[r] + 1] /\ k' = k
      BY <1>4, <2>1 DEF NextProduct, MoreToDo
    <3>2. j'[r] = j[r] + 1 /\ k'[r] = k[r]
      BY <1>1, <3>1
    <3>3. j[r] + 1 \in 1..NumCols + 1 /\ j[r] + 1 <= NumCols /\ ~(k[r] > Common)
      BY <1>1, <2>1, Names
    <3>4. \A c \in Columns : Added(r, c)' = IF c = j[r] THEN k[r] ELSE Added(r, c)
      BY <1>1, <1>2, <1>4, <3>2, Names DEF Added, Columns
    <3>5. QED
      BY <1>1, <1>4, <3>1, <3>2, <3>3, <3>4
  <2>2. CASE ~(j[r] < NumCols)
    <3>1. j' = [j EXCEPT ![r] = 1] /\ k' = [k EXCEPT ![r] = k[r] + 1]
      BY <1>4, <2>2 DEF NextProduct, MoreToDo
    <3>2. j'[r] = 1 /\ k'[r] = k[r] + 1 /\ j[r] = NumCols
      BY <1>1, <2>2, <3>1, Names
    <3>3. k[r] + 1 \in 1..Common + 1 /\ 1 \in 1..NumCols + 1 /\ 1 <= NumCols
      BY <1>1, Names
    <3>4. \A c \in Columns : Added(r, c)' = IF c = j[r] THEN k[r] ELSE Added(r, c)
      BY <1>1, <1>2, <1>4, <3>2, Names DEF Added, Columns
    <3>5. QED
      BY <1>1, <1>4, <3>1, <3>2, <3>3, <3>4
  <2>3. QED
    BY <2>1, <2>2
<1>5. QED
  BY <1>3, <1>4

(* A runner writes the sum back: the row is its own, so the element is     *)
(* still the one it copied, and no addition is lost.                       *)
LEMMA StoreKeeps ==
  ASSUME MatInv, NEW r \in Runners, Store(r), UNCHANGED mainVars
  PROVE  MatInv'
<1> DEFINE i == row[r]
           n == k[r]
<1>1. /\ UNCHANGED <<call, main, next, row>>
      /\ UNCHANGED <<queue, enqueued, slot, finished, phase>>
      /\ loaded[r] # NotLoaded /\ NextProduct(r)
      /\ loaded' = [loaded EXCEPT ![r] = NotLoaded]
      /\ result' = [result EXCEPT ![i][j[r]] = Append(loaded[r], n)]
  BY DEF Store, mainVars, poolVars
<1>2. row[r] # NoRow /\ ~RowDone(r) /\ loaded[r] = Prefix(n - 1) /\ i \in Rows
  BY <1>1, Running DEF MatInv, LoadInv
<1>3. j[r] \in Columns /\ n \in 1..Common
  BY <1>2, AddsWithin
<1>4. /\ k' \in [Runners -> 1..Common + 1] /\ j' \in [Runners -> 1..NumCols + 1]
      /\ \A s \in Runners : s # r => k'[s] = k[s] /\ j'[s] = j[s]
      /\ IF Variant = "naive" THEN k'[r] <= Common
         ELSE j'[r] <= NumCols /\ (k'[r] > Common => j'[r] = 1)
      /\ \A c \in Columns : Added(r, c)' = IF c = j[r] THEN n ELSE Added(r, c)
  BY <1>1, <1>2, NextProductCounts
<1>5. n \in Nat \ {0} /\ n <= Common
  BY <1>3, Names
<1>6. Append(loaded[r], n) = Prefix(n) /\ Prefix(n) \in Seq(1..Common) /\ Ordered(Prefix(n))
  BY <1>2, <1>5, PrefixGrows, PrefixFacts
<1>7. /\ result' \in [Rows -> [Columns -> Seq(1..Common)]]
      /\ result'[i][j[r]] = Prefix(n)
      /\ \A c \in Columns : c # j[r] => result'[i][c] = result[i][c]
      /\ \A h \in Rows : h # i => result'[h] = result[h]
  BY <1>1, <1>2, <1>3, <1>6 DEF MatInv, TypeInv
<1>8. TaskInv' /\ NumTaken' = NumTaken
  BY <1>1, PoolStutter DEF poolVars, MatInv
<1>9. Variant' = Variant
  BY <1>1 DEF Variant
<1>10. TypeInv'
  <2>1. NotLoaded \in Seq(Nat)
    BY DEF NotLoaded
  <2>2. QED
    BY <1>1, <1>4, <1>7, <2>1 DEF TypeInv, MatInv
<1>11. RunnerInv'
  BY <1>1, <1>9 DEF MatInv, RunnerInv
<1>12. RangeInv'
  BY <1>1, <1>4, <1>9 DEF MatInv, RangeInv
<1>13. OwnInv'
  <2>1. \A s, t \in Runners : row[s] = row[t] /\ row[s] # NoRow => s = t
    BY DEF MatInv, OwnInv
  <2>2. ASSUME NEW s \in Runners, row[s] # NoRow, NEW c \in Columns
        PROVE  result'[row[s]][c] = Prefix(Added(s, c)')
    <3>1. result[row[s]][c] = Prefix(Added(s, c)) /\ row[s] \in Rows
      BY <2>2, Running DEF MatInv, OwnInv
    <3>2. CASE s = r
      BY <1>4, <1>7, <3>1, <3>2
    <3>3. CASE s # r
      <4>1. row[s] # i
        BY <2>1, <2>2, <3>3
      <4>2. Added(s, c)' = Added(s, c)
        BY <1>4, <1>9, <3>3 DEF Added
      <4>3. QED
        BY <1>7, <3>1, <4>1, <4>2
    <3>4. QED
      BY <3>2, <3>3
  <2>3. QED
    BY <1>1, <2>1, <2>2 DEF OwnInv
<1>14. LoadInv'
  <2> SUFFICES ASSUME NEW s \in Runners, loaded'[s] # NotLoaded
               PROVE  row[s] # NoRow /\ ~RowDone(s)' /\ loaded'[s] = Prefix(k'[s] - 1)
    BY <1>1 DEF LoadInv
  <2>1. s # r /\ loaded'[s] = loaded[s]
    BY <1>1 DEF MatInv, TypeInv
  <2>2. row[s] # NoRow /\ ~RowDone(s) /\ loaded[s] = Prefix(k[s] - 1)
    BY <2>1 DEF MatInv, LoadInv
  <2>3. QED
    BY <1>4, <1>9, <2>1, <2>2 DEF RowDone
<1>15. RowInv'
  <2> SUFFICES ASSUME main \in Working, NEW h \in Rows
               PROVE  /\ ~Begun(h) => /\ \A c \in Columns : result'[h][c] = <<>>
                                      /\ \A s \in Runners : row[s] # h
                      /\ Begun(h) /\ (\A s \in Runners : row[s] # h) =>
                           \A c \in Columns : result'[h][c] = Prefix(Common)
    BY <1>1, <1>8 DEF RowInv, Begun, Taken
  <2>1. Begun(i)
    BY <1>2, Running
  <2>2. /\ ~Begun(h) => /\ \A c \in Columns : result[h][c] = <<>>
                        /\ \A s \in Runners : row[s] # h
        /\ Begun(h) /\ (\A s \in Runners : row[s] # h) =>
             \A c \in Columns : result[h][c] = Prefix(Common)
    BY DEF MatInv, RowInv
  <2>3. CASE h = i
    BY <2>1, <2>3
  <2>4. CASE h # i
    BY <1>7, <2>2, <2>4
  <2>5. QED
    BY <2>3, <2>4
<1>16. AdditionsInOrder'
  BY <1>6, <1>7 DEF AdditionsInOrder, MatInv
<1>17. QED
  BY <1>1, <1>8, <1>10, <1>11, <1>12, <1>13, <1>14, <1>15, <1>16 DEF MatInv

(* A runner has ended its row, and the row is complete.                    *)
LEMMA EndRowKeeps ==
  ASSUME MatInv, NEW r \in Runners, EndRow(r), UNCHANGED mainVars
  PROVE  MatInv'
<1>1. /\ UNCHANGED <<call, main, next, k, j, loaded, result>>
      /\ row[r] # NoRow /\ RowDone(r)
      /\ row' = [row EXCEPT ![r] = NoRow]
      /\ IF Variant = "pool" THEN Finish(r) ELSE UNCHANGED poolVars
  BY DEF EndRow, mainVars
<1>2. /\ row[r] \in Rows /\ main \in SerialPoints \union ThreadPoints \union PoolPoints
      /\ main \in Working /\ Begun(row[r])
      /\ Variant = "pool" => r \in Workers /\ main \in PoolPoints
  BY <1>1, Running
<1>3. /\ row'[r] = NoRow /\ \A s \in Runners : s # r => row'[s] = row[s]
      /\ row' \in [Runners -> Rows \union {NoRow}]
  BY <1>1 DEF MatInv, TypeInv
<1>4. TaskInv' /\ NumTaken' = NumTaken /\ UNCHANGED queue
  <2>1. CASE Variant = "pool"
    <3>1. r \in Workers /\ Finish(r)
      BY <1>1, <1>2, <2>1
    <3>2. QED
      BY <3>1, FinishStep DEF MatInv, Finish
  <2>2. CASE Variant # "pool"
    BY <1>1, <2>2, PoolStutter DEF MatInv, poolVars
  <2>3. QED
    BY <2>1, <2>2
<1>5. IF Variant = "pool"
      THEN slot'[r] = Idle /\ \A w \in Workers : w # r => slot'[w] = slot[w]
      ELSE slot' = slot
  BY <1>1, <1>2 DEF Finish, poolVars, MatInv, TaskInv, PoolTypeOK
<1>6. Variant' = Variant
  BY <1>1 DEF Variant
<1>7. TypeInv'
  BY <1>1, <1>3 DEF MatInv, TypeInv
<1>8. RunnerInv'
  <2>1. CASE Variant = "pool"
    <3>1. main \in PoolPoints /\ r \in Workers /\ NoRow = Idle
      BY <1>2, <2>1, Names
    <3>2. main \notin SerialPoints \union ThreadPoints /\ main # "join"
      BY <3>1 DEF SerialPoints, ThreadPoints, PoolPoints
    <3>3. /\ \A s \in Workers : row[s] = slot[s]
          /\ \A s \in Runners : s \notin Workers => row[s] = NoRow
      BY <3>1 DEF MatInv, RunnerInv
    <3>4. \A s \in Workers : row'[s] = slot'[s]
      BY <1>3, <1>5, <2>1, <3>1, <3>3, Names
    <3>5. \A s \in Runners : s \notin Workers => row'[s] = NoRow
      BY <1>3, <3>3
    <3>6. main \notin {"rows", "create", "join", "enqueue"} => next = 1
      BY DEF MatInv, RunnerInv
    <3>7. QED
      BY <1>1, <1>6, <2>1, <3>1, <3>2, <3>4, <3>5, <3>6 DEF RunnerInv
  <2>2. CASE Variant # "pool"
    <3>1. slot' = slot /\ main \notin PoolPoints
      BY <1>5, <2>2 DEF MatInv, RunnerInv
    <3>2. \A s \in Runners : row'[s] = row[s] \/ row'[s] = NoRow
      BY <1>3
    <3>3. QED
      BY <1>1, <1>4, <1>6, <3>1, <3>2, Names DEF MatInv, RunnerInv
  <2>3. QED
    BY <2>1, <2>2
<1>9. RangeInv' /\ OwnInv'
  BY <1>1, <1>3, <1>6 DEF MatInv, RangeInv, OwnInv, Added
<1>10. LoadInv'
  BY <1>1, <1>3, <1>6 DEF MatInv, LoadInv, RowDone
<1>11. RowInv'
  <2>1. \A c \in Columns : result[row[r]][c] = Prefix(Common)
    BY <1>1, AddedBounds DEF MatInv, OwnInv
  <2> SUFFICES ASSUME NEW h \in Rows
               PROVE  /\ ~Begun(h) => /\ \A c \in Columns : result[h][c] = <<>>
                                      /\ \A s \in Runners : row'[s] # h
                      /\ Begun(h) /\ (\A s \in Runners : row'[s] # h) =>
                           \A c \in Columns : result[h][c] = Prefix(Common)
    BY <1>1, <1>4 DEF RowInv, Begun, Taken
  <2>2. /\ ~Begun(h) => /\ \A c \in Columns : result[h][c] = <<>>
                        /\ \A s \in Runners : row[s] # h
        /\ Begun(h) /\ (\A s \in Runners : row[s] # h) =>
             \A c \in Columns : result[h][c] = Prefix(Common)
    BY <1>2 DEF MatInv, RowInv
  <2>3. CASE h = row[r]
    BY <1>2, <2>1, <2>3
  <2>4. CASE h # row[r]
    <3>1. \A s \in Runners : row'[s] = h <=> row[s] = h
      BY <1>3, <2>4, Names
    <3>2. QED
      BY <2>2, <3>1
  <2>5. QED
    BY <2>3, <2>4
<1>12. AdditionsInOrder'
  BY <1>1 DEF MatInv, AdditionsInOrder
<1>13. QED
  BY <1>1, <1>4, <1>7, <1>8, <1>9, <1>10, <1>11, <1>12 DEF MatInv

(* A runner begins a row on which no work has begun: it is all zero, and   *)
(* nobody else's.                                                          *)
LEMMA BeginRowFacts ==
  ASSUME MatInv, NEW r \in Runners, NEW i \in Rows, BeginRow(r, i),
         main \in Working, ~Begun(i), UNCHANGED <<call, result>>
  PROVE  /\ row'[r] = i /\ row[r] = NoRow /\ Variant' = Variant
         /\ \A s \in Runners : s # r => row'[s] = row[s]
         /\ RangeInv' /\ OwnInv' /\ LoadInv'
         /\ row' \in [Runners -> Rows \union {NoRow}]
         /\ k' \in [Runners -> 1..Common + 1] /\ j' \in [Runners -> 1..NumCols + 1]
         /\ UNCHANGED loaded
         /\ \A h \in Rows : (\A s \in Runners : row'[s] # h) =>
                            h # i /\ \A s \in Runners : row[s] # h
         /\ \A h \in Rows : h # i /\ (\A s \in Runners : row[s] # h) =>
                            \A s \in Runners : row'[s] # h
<1>1. /\ row \in [Runners -> Rows \union {NoRow}]
      /\ k \in [Runners -> 1..Common + 1] /\ j \in [Runners -> 1..NumCols + 1]
  BY DEF MatInv, TypeInv
<1>2. 1 \in 1..Common + 1 /\ 1 \in 1..NumCols + 1 /\ 1 <= Common /\ 1 <= NumCols
  BY Names
<1>3. /\ row[r] = NoRow /\ row'[r] = i /\ k'[r] = 1 /\ j'[r] = 1 /\ loaded' = loaded
      /\ \A s \in Runners : s # r => row'[s] = row[s] /\ k'[s] = k[s] /\ j'[s] = j[s]
      /\ row' \in [Runners -> Rows \union {NoRow}]
      /\ k' \in [Runners -> 1..Common + 1] /\ j' \in [Runners -> 1..NumCols + 1]
  BY <1>1, <1>2 DEF BeginRow
<1>4. Variant' = Variant
  BY DEF Variant
<1>5. /\ \A c \in Columns : result[i][c] = <<>>
      /\ \A s \in Runners : row[s] # i
  BY DEF MatInv, RowInv
<1>6. \A c \in Columns : Added(r, c)' = 0
  BY <1>3 DEF Added, Columns
<1>7. RangeInv'
  BY <1>2, <1>3, <1>4, Names DEF MatInv, RangeInv
<1>8. OwnInv'
  <2>1. \A s, t \in Runners : row'[s] = row'[t] /\ row'[s] # NoRow => s = t
    BY <1>3, <1>5 DEF MatInv, OwnInv
  <2>2. ASSUME NEW s \in Runners, row'[s] # NoRow, NEW c \in Columns
        PROVE  result[row'[s]][c] = Prefix(Added(s, c)')
    <3>1. CASE s = r
      BY <1>3, <1>5, <1>6, <3>1, PrefixZero
    <3>2. CASE s # r
      <4>1. Added(s, c)' = Added(s, c)
        BY <1>3, <1>4, <3>2 DEF Added
      <4>2. QED
        BY <1>3, <2>2, <3>2, <4>1 DEF MatInv, OwnInv
    <3>3. QED
      BY <3>1, <3>2
  <2>3. QED
    BY <2>1, <2>2 DEF OwnInv
<1>9. LoadInv'
  BY <1>3, <1>4 DEF MatInv, LoadInv, RowDone
<1>10. NoRow # i /\ \A h \in Rows : NoRow # h
  BY Names
<1>11. ASSUME NEW h \in Rows, \A s \in Runners : row'[s] # h
       PROVE  h # i /\ \A s \in Runners : row[s] # h
  <2>1. h # i
    BY <1>3, <1>11
  <2>2. ASSUME NEW s \in Runners
        PROVE  row[s] # h
    BY <1>3, <1>10, <1>11
  <2>3. QED
    BY <2>1, <2>2
<1>12. ASSUME NEW h \in Rows, h # i, \A s \in Runners : row[s] # h
       PROVE  \A s \in Runners : row'[s] # h
  <2>1. ASSUME NEW s \in Runners
        PROVE  row'[s] # h
    BY <1>3, <1>12
  <2>2. QED
    BY <2>1
<1>13. QED
  BY <1>3, <1>4, <1>7, <1>8, <1>9, <1>11, <1>12

(* A worker takes the task of a row that nobody has begun.                 *)
LEMMA TakeRowKeeps ==
  ASSUME MatInv, NEW w \in Workers, TakeRow(w), UNCHANGED mainVars
  PROVE  MatInv'
<1> DEFINE i == NumTaken + 1
<1>1. /\ Start(w) /\ BeginRow(w, Head(queue)) /\ UNCHANGED <<call, main, next, result>>
  BY DEF TakeRow, mainVars
<1>2. TaskInv' /\ NumTaken' = i /\ slot'[w] = i /\ NumTaken \in Nat
  BY <1>1, StartStep, TakenIsNat DEF MatInv
<1>3. /\ queue # <<>> /\ slot[w] = Idle /\ slot'[w] = Head(queue)
      /\ \A v \in Workers : v # w => slot'[v] = slot[v]
  BY <1>1 DEF Start, MatInv, TaskInv, PoolTypeOK
<1>4. main \in PoolPoints /\ Variant = "pool"
  BY <1>3 DEF MatInv, RunnerInv
<1>5. i = Head(queue) /\ i \in Rows /\ i # NoRow /\ i \notin Taken
  <2>1. slot'[w] \in Tasks \union {Idle}
    BY <1>2 DEF TaskInv, PoolTypeOK
  <2>2. i # Idle /\ i \notin Taken
    BY <1>2 DEF Idle, Taken
  <2>3. QED
    BY <1>2, <1>3, <2>1, <2>2, Names
<1>6. main \in Working /\ main \notin {"rows", "create"}
  BY <1>4 DEF Working, PoolPoints
<1>7. ~Begun(i)
  BY <1>4, <1>5, <1>6 DEF Begun
<1>8. w \in Runners
  BY Names
<1> HIDE DEF i
<1>9. /\ row'[w] = i /\ row[w] = NoRow /\ Variant' = Variant
      /\ \A s \in Runners : s # w => row'[s] = row[s]
      /\ RangeInv' /\ OwnInv' /\ LoadInv'
      /\ row' \in [Runners -> Rows \union {NoRow}]
      /\ k' \in [Runners -> 1..Common + 1] /\ j' \in [Runners -> 1..NumCols + 1]
      /\ UNCHANGED loaded
      /\ \A h \in Rows : (\A s \in Runners : row'[s] # h) =>
                         h # i /\ \A s \in Runners : row[s] # h
      /\ \A h \in Rows : h # i /\ (\A s \in Runners : row[s] # h) =>
                         \A s \in Runners : row'[s] # h
  BY <1>1, <1>5, <1>6, <1>7, <1>8, BeginRowFacts
<1>10. TypeInv'
  BY <1>1, <1>9 DEF MatInv, TypeInv
<1>11. RunnerInv'
  <2>1. /\ \A s \in Workers : row[s] = slot[s]
        /\ \A s \in Runners : s \notin Workers => row[s] = NoRow
    BY <1>4 DEF MatInv, RunnerInv
  <2>2. \A s \in Workers : row'[s] = slot'[s]
    BY <1>2, <1>3, <1>9, <2>1, Names
  <2>3. \A s \in Runners : s \notin Workers => row'[s] = NoRow
    BY <1>9, <2>1
  <2>4. main \notin SerialPoints \union ThreadPoints /\ main # "join"
    BY <1>4 DEF SerialPoints, ThreadPoints, PoolPoints
  <2>5. main \notin {"rows", "create", "join", "enqueue"} => next = 1
    BY DEF MatInv, RunnerInv
  <2>6. QED
    BY <1>1, <1>4, <1>9, <2>2, <2>3, <2>4, <2>5 DEF RunnerInv
<1>12. RowInv'
  <2>1. \A h \in Rows : Begun(h)' <=> (Begun(h) \/ h = i)
    <3>1. Taken' = Taken \union {i}
      BY <1>2 DEF Taken, i
    <3>2. QED
      BY <1>1, <1>4, <1>6, <3>1 DEF Begun
  <2> SUFFICES ASSUME NEW h \in Rows
               PROVE  /\ ~Begun(h)' => /\ \A c \in Columns : result[h][c] = <<>>
                                       /\ \A s \in Runners : row'[s] # h
                      /\ Begun(h)' /\ (\A s \in Runners : row'[s] # h) =>
                           \A c \in Columns : result[h][c] = Prefix(Common)
    BY <1>1 DEF RowInv
  <2>2. /\ ~Begun(h) => /\ \A c \in Columns : result[h][c] = <<>>
                        /\ \A s \in Runners : row[s] # h
        /\ Begun(h) /\ (\A s \in Runners : row[s] # h) =>
             \A c \in Columns : result[h][c] = Prefix(Common)
    BY <1>6 DEF MatInv, RowInv
  <2>3. QED
    BY <1>9, <2>1, <2>2
<1>13. AdditionsInOrder'
  BY <1>1 DEF MatInv, AdditionsInOrder
<1>14. QED
  BY <1>1, <1>2, <1>9, <1>10, <1>11, <1>12, <1>13 DEF MatInv

-----------------------------------------------------------------------------
(* The steps of Main                                                       *)

(* A new pool has no tasks.                                                *)
LEMMA FreshPool == NewPool => TaskInv' /\ Taken' = {}
<1>1. PoolInit' => TaskInv'
  BY PoolStarts, PTL
<1>2. NewPool => PoolInit'
  BY DEF NewPool, PoolInit
<1>3. ASSUME NewPool
      PROVE  Taken' = {}
  <2>1. queue' = <<>> /\ enqueued' = 0
    BY <1>3 DEF NewPool
  <2>2. NumTaken' = 0
    <3>1. Len(queue') = 0
      BY <2>1
    <3>2. enqueued' - Len(queue') = 0
      <4>1. enqueued' = 0 /\ Len(queue') = 0
        BY <2>1, <3>1
      <4>2. \A m, n \in Int : m = 0 /\ n = 0 => m - n = 0
        OBVIOUS
      <4>3. QED
        BY <4>1, <4>2
    <3>3. QED
      BY <3>2 DEF NumTaken
  <2>3. QED
    BY <2>2 DEF Taken
<1>4. QED
  BY <1>1, <1>2, <1>3

(* When nobody has a row there is nothing to say about runners.            *)
LEMMA NobodyRuns ==
  ASSUME MatInv, \A r \in Runners : row[r] = NoRow, UNCHANGED loopVars
  PROVE  /\ RangeInv' /\ OwnInv' /\ LoadInv'
         /\ UNCHANGED <<row, k, j, loaded>>
         /\ \A r \in Runners : row'[r] = NoRow
<1>1. UNCHANGED <<row, k, j, loaded>>
  BY DEF loopVars
<1>2. \A r \in Runners : loaded[r] = NotLoaded
  BY DEF MatInv, LoadInv
<1>3. \A r \in Runners : row'[r] = NoRow
  BY <1>1
<1>4. RangeInv' /\ OwnInv' /\ LoadInv'
  BY <1>1, <1>2, <1>3 DEF RangeInv, OwnInv, LoadInv
<1>5. QED
  BY <1>1, <1>3, <1>4

(* Main goes on to its next row, or has done them all.                     *)
LEMMA ForEachRowGoesOn ==
  ASSUME next \in Rows, NEW after, ForEachRow(after)
  PROVE  /\ next' \in Rows
         /\ \/ next' = next + 1 /\ main' = main
            \/ next = NumRows /\ next' = 1 /\ main' = after
  BY Names DEF ForEachRow, Rows

(* A new call starts from zeros, with nobody at work from the last one.    *)
LEMMA BeginCallKeeps ==
  ASSUME MatInv, BeginCall
  PROVE  MatInv'
<1>1. /\ main = "call" /\ UNCHANGED <<call, next, loopVars>> /\ result' = ZeroMatrix
      /\ main' = IF Variant # "naive" /\ Width # Common THEN "threw" ELSE FirstStep[Variant]
      /\ IF Variant = "pool" THEN NewPool ELSE UNCHANGED poolVars
  BY DEF BeginCall
<1>2. /\ \A r \in Runners : row[r] = NoRow
      /\ queue = <<>> /\ \A w \in Workers : slot[w] = Idle
      /\ next = 1
  BY <1>1 DEF MatInv, RunnerInv, SerialPoints, ThreadPoints, PoolPoints
<1>3. /\ RangeInv' /\ OwnInv' /\ LoadInv' /\ UNCHANGED <<row, k, j, loaded>>
      /\ \A r \in Runners : row'[r] = NoRow
  BY <1>1, <1>2, NobodyRuns
<1>4. Variant \in {"naive", "fast", "threads", "pool"} /\ Variant' = Variant
  BY <1>1, Variants DEF MatInv, TypeInv, Variant
<1>5. \/ main' = "threw"
      \/ main' = "rows" /\ Variant \in {"naive", "fast"}
      \/ main' = "create" /\ Variant = "threads"
      \/ main' = "enqueue" /\ Variant = "pool"
  BY <1>1, <1>4 DEF FirstStep
<1>6. TaskInv' /\ (Variant = "pool" => Taken' = {})
  BY <1>1, FreshPool, PoolStutter DEF MatInv
<1>7. queue' = <<>> /\ \A w \in Workers : slot'[w] = Idle
  BY <1>1, <1>2 DEF NewPool, poolVars
<1>8. result' \in [Rows -> [Columns -> Seq(1..Common)]]
      /\ \A i \in Rows, c \in Columns : result'[i][c] = <<>>
  BY <1>1 DEF ZeroMatrix
<1>9. TypeInv'
  BY <1>1, <1>3, <1>5, <1>8 DEF MatInv, TypeInv
<1>10. RunnerInv'
  BY <1>1, <1>2, <1>3, <1>4, <1>5, <1>7, Names
     DEF RunnerInv, SerialPoints, ThreadPoints, PoolPoints
<1>11. RowInv'
  <2>1. ASSUME main' \in Working, NEW i \in Rows
        PROVE  ~Begun(i)'
    <3>1. CASE main' \in {"rows", "create"}
      BY <1>1, <1>2, <3>1 DEF Begun, Rows
    <3>2. CASE main' = "enqueue"
      BY <1>5, <1>6, <3>2 DEF Begun, PoolPoints
    <3>3. QED
      BY <1>5, <2>1, <3>1, <3>2 DEF Working, SerialPoints, ThreadPoints, PoolPoints
  <2>2. \A i \in Rows : \A r \in Runners : row'[r] # i
    BY <1>3, Names
  <2>3. QED
    BY <1>8, <2>1, <2>2 DEF RowInv
<1>12. AdditionsInOrder'
  <2>1. 0 \in Nat /\ 0 <= Common
    BY Names
  <2>2. Ordered(<<>>)
    BY <2>1, PrefixFacts, PrefixZero
  <2>3. QED
    BY <1>8, <2>2 DEF AdditionsInOrder
<1>13. QED
  BY <1>3, <1>5, <1>6, <1>9, <1>10, <1>11, <1>12 DEF MatInv

(* Main has runner r begin its row: the first loop of the threads, and the *)
(* loop of the serial functions.                                           *)
LEMMA NextRowKeeps ==
  ASSUME MatInv, NEW r \in Runners, NEW after \in {"sum", "join"},
         main \in {"rows", "create"}, BeginRow(r, next), ForEachRow(after),
         UNCHANGED <<poolVars, call, result>>, RunnerInv'
  PROVE  MatInv'
<1>1. next \in Rows /\ main \in Working /\ ~Begun(next)
  BY DEF MatInv, TypeInv, Working, SerialPoints, ThreadPoints, Begun, Rows
<1>2. /\ next' \in Rows
      /\ \/ next' = next + 1 /\ main' = main
         \/ next = NumRows /\ next' = 1 /\ main' = after
  BY <1>1, ForEachRowGoesOn
<1>3. /\ row'[r] = next /\ row[r] = NoRow
      /\ RangeInv' /\ OwnInv' /\ LoadInv'
      /\ row' \in [Runners -> Rows \union {NoRow}]
      /\ k' \in [Runners -> 1..Common + 1] /\ j' \in [Runners -> 1..NumCols + 1]
      /\ UNCHANGED loaded
      /\ \A s \in Runners : s # r => row'[s] = row[s]
      /\ \A h \in Rows : (\A s \in Runners : row'[s] # h) =>
                         h # next /\ \A s \in Runners : row[s] # h
      /\ \A h \in Rows : h # next /\ (\A s \in Runners : row[s] # h) =>
                         \A s \in Runners : row'[s] # h
  BY <1>1, BeginRowFacts
<1>4. UNCHANGED <<call, result>> /\ UNCHANGED poolVars
  OBVIOUS
<1>5. TaskInv'
  BY <1>4, PoolStutter DEF MatInv
<1>6. TypeInv'
  BY <1>2, <1>3, <1>4 DEF MatInv, TypeInv
<1>7. \A h \in Rows : Begun(h)' <=> (Begun(h) \/ h = next)
  <2>1. \A h \in Rows : Begun(h) <=> h < next
    BY DEF Begun
  <2>2. CASE next' = next + 1 /\ main' = main
    <3>1. \A h \in Rows : Begun(h)' <=> h < next + 1
      BY <2>2 DEF Begun
    <3>2. QED
      BY <1>1, <2>1, <3>1 DEF Rows
  <2>3. CASE next = NumRows /\ main' = after
    <3>1. \A h \in Rows : Begun(h)'
      BY <2>3 DEF Begun, PoolPoints
    <3>2. QED
      BY <2>1, <2>3, <3>1, Names DEF Rows
  <2>4. QED
    BY <1>2, <2>2, <2>3
<1>8. RowInv'
  <2> SUFFICES ASSUME NEW h \in Rows
               PROVE  /\ ~Begun(h)' => /\ \A c \in Columns : result[h][c] = <<>>
                                       /\ \A s \in Runners : row'[s] # h
                      /\ Begun(h)' /\ (\A s \in Runners : row'[s] # h) =>
                           \A c \in Columns : result[h][c] = Prefix(Common)
    BY <1>4 DEF RowInv
  <2>1. /\ ~Begun(h) => /\ \A c \in Columns : result[h][c] = <<>>
                        /\ \A s \in Runners : row[s] # h
        /\ Begun(h) /\ (\A s \in Runners : row[s] # h) =>
             \A c \in Columns : result[h][c] = Prefix(Common)
    BY <1>1 DEF MatInv, RowInv
  <2>2. QED
    BY <1>3, <1>7, <2>1
<1>9. AdditionsInOrder'
  BY <1>4 DEF MatInv, AdditionsInOrder
<1>10. main' # "error"
  BY <1>2
<1>11. QED
  BY <1>3, <1>5, <1>6, <1>8, <1>9, <1>10 DEF MatInv

(* Main begins its next row in multiply_naive or multiply_fast.            *)
LEMMA SumRowKeeps ==
  ASSUME MatInv, SumRow
  PROVE  MatInv'
<1>1. /\ main = "rows" /\ BeginRow(Main, next) /\ ForEachRow("sum")
      /\ UNCHANGED <<call, result>> /\ UNCHANGED poolVars
  BY DEF SumRow
<1>2. Main \in Runners /\ next \in Rows
  BY Names DEF MatInv, TypeInv
<1>3. main' \in {"rows", "sum"} /\ (main' = "sum" => next' = 1)
  BY <1>1, <1>2, ForEachRowGoesOn
<1>4. Variant' = Variant /\ UNCHANGED <<queue, slot>>
      /\ \A r \in Runners : r # Main => row'[r] = row[r]
  BY <1>1, <1>2 DEF Variant, poolVars, BeginRow, MatInv, TypeInv
<1>5. /\ Variant \in {"naive", "fast"} /\ \A r \in Runners : r # Main => row[r] = NoRow
      /\ queue = <<>> /\ \A w \in Workers : slot[w] = Idle
  BY <1>1 DEF MatInv, RunnerInv, SerialPoints, PoolPoints
<1>6. RunnerInv'
  BY <1>3, <1>4, <1>5 DEF RunnerInv, SerialPoints, ThreadPoints, PoolPoints
<1>7. QED
  BY <1>1, <1>2, <1>6, NextRowKeeps

(* multiply_threads creates the thread of the next row.                    *)
LEMMA CreateThreadKeeps ==
  ASSUME MatInv, CreateThread
  PROVE  MatInv'
<1>1. /\ main = "create" /\ BeginRow(next, next) /\ ForEachRow("join")
      /\ UNCHANGED <<call, result>> /\ UNCHANGED poolVars
  BY DEF CreateThread, RowOf
<1>2. next \in Runners /\ next \in Rows
  BY Names DEF MatInv, TypeInv
<1>3. \/ main' = "create"
      \/ main' = "join" /\ next' = 1
  BY <1>1, <1>2, ForEachRowGoesOn
<1>4. /\ Variant' = Variant /\ UNCHANGED <<queue, slot>> /\ row'[next] = next
      /\ \A r \in Runners : r # next => row'[r] = row[r]
  BY <1>1, <1>2 DEF Variant, poolVars, BeginRow, MatInv, TypeInv
<1>5. /\ Variant = "threads" /\ \A r \in Runners : row[r] \in {NoRow, r}
      /\ queue = <<>> /\ \A w \in Workers : slot[w] = Idle
  BY <1>1 DEF MatInv, RunnerInv, ThreadPoints, PoolPoints
<1>6. \A r \in Runners : row'[r] \in {NoRow, r}
  BY <1>4, <1>5
<1>7. main' = "join" => \A i \in Rows : i < next' => row'[i] = NoRow
  BY <1>3 DEF Rows
<1>8. RunnerInv'
  BY <1>3, <1>4, <1>5, <1>6, <1>7 DEF RunnerInv, SerialPoints, ThreadPoints, PoolPoints
<1>9. QED
  BY <1>1, <1>2, <1>8, NextRowKeeps

(* A step of Main that leaves every row and every task where it is.        *)
LEMMA RowsRest ==
  ASSUME MatInv, TaskInv', NumTaken' = NumTaken, UNCHANGED <<call, result, loopVars>>,
         next' \in Rows, main \in Working, main' \in Working,
         \A h \in Rows : Begun(h)' <=> Begun(h), RunnerInv'
  PROVE  MatInv'
<1>1. UNCHANGED <<call, result, row, k, j, loaded>> /\ Variant' = Variant
  BY DEF loopVars, Variant
<1>2. main' \in {"rows", "sum", "create", "join", "enqueue", "close", "closing", "compare"}
  BY DEF Working, SerialPoints, ThreadPoints, PoolPoints
<1>3. TypeInv'
  BY <1>1, <1>2 DEF MatInv, TypeInv
<1>4. RangeInv' /\ OwnInv'
  BY <1>1 DEF MatInv, RangeInv, OwnInv, Added
<1>5. LoadInv'
  BY <1>1 DEF MatInv, LoadInv, RowDone
<1>6. RowInv'
  <2>1. \A h \in Rows :
          /\ ~Begun(h) => /\ \A c \in Columns : result[h][c] = <<>>
                          /\ \A s \in Runners : row[s] # h
          /\ Begun(h) /\ (\A s \in Runners : row[s] # h) =>
               \A c \in Columns : result[h][c] = Prefix(Common)
    BY DEF MatInv, RowInv
  <2>2. QED
    BY <1>1, <2>1 DEF RowInv
<1>7. AdditionsInOrder'
  BY <1>1 DEF MatInv, AdditionsInOrder
<1>8. QED
  BY <1>2, <1>3, <1>4, <1>5, <1>6, <1>7 DEF MatInv

(* The serial functions return when Main has ended its last row.           *)
LEMMA SumEndsKeeps ==
  ASSUME MatInv, SumEnds
  PROVE  MatInv'
<1>1. /\ main = "sum" /\ row[Main] = NoRow /\ main' = "compare"
      /\ UNCHANGED <<call, next, loopVars, result>> /\ UNCHANGED poolVars
  BY DEF SumEnds
<1>2. UNCHANGED <<call, next, row, queue, slot>> /\ Variant' = Variant
  BY <1>1 DEF loopVars, poolVars, Variant
<1>3. TaskInv' /\ NumTaken' = NumTaken
  BY <1>1, PoolStutter DEF MatInv
<1>4. /\ \A r \in Runners : row[r] = NoRow
      /\ next = 1 /\ queue = <<>> /\ \A w \in Workers : slot[w] = Idle
  BY <1>1 DEF MatInv, RunnerInv, SerialPoints, PoolPoints
<1>5. RunnerInv'
  BY <1>1, <1>2, <1>4 DEF RunnerInv, SerialPoints, ThreadPoints, PoolPoints
<1>6. \A h \in Rows : Begun(h)' <=> Begun(h)
  BY <1>1 DEF Begun, PoolPoints
<1>7. main \in Working /\ main' \in Working
  BY <1>1 DEF Working, SerialPoints
<1>8. next' \in Rows
  BY <1>2 DEF MatInv, TypeInv
<1>9. QED
  BY <1>1, <1>3, <1>5, <1>6, <1>7, <1>8, RowsRest

(* After the last join every thread has ended: it has no row.              *)
LEMMA JoinThreadKeeps ==
  ASSUME MatInv, JoinThread
  PROVE  MatInv'
<1>1. /\ main = "join" /\ row[next] = NoRow /\ ForEachRow("compare")
      /\ UNCHANGED <<call, loopVars, result>> /\ UNCHANGED poolVars
  BY DEF JoinThread, Ended
<1>2. UNCHANGED <<call, row, queue, slot>> /\ Variant' = Variant
  BY <1>1 DEF loopVars, poolVars, Variant
<1>3. TaskInv' /\ NumTaken' = NumTaken
  BY <1>1, PoolStutter DEF MatInv
<1>4. /\ next' \in Rows /\ next \in Rows
      /\ \/ next' = next + 1 /\ main' = "join"
         \/ next = NumRows /\ next' = 1 /\ main' = "compare"
  BY <1>1, ForEachRowGoesOn DEF MatInv, TypeInv
<1>5. /\ Variant = "threads" /\ \A r \in Runners : row[r] \in {NoRow, r}
      /\ \A i \in Rows : i < next => row[i] = NoRow
      /\ queue = <<>> /\ \A w \in Workers : slot[w] = Idle
  BY <1>1 DEF MatInv, RunnerInv, ThreadPoints, PoolPoints
<1>6. RunnerInv'
  <2>1. CASE next' = next + 1 /\ main' = "join"
    <3>1. \A i \in Rows : i < next' => row'[i] = NoRow
      BY <1>1, <1>2, <1>4, <1>5, <2>1 DEF Rows
    <3>2. QED
      BY <1>2, <1>5, <2>1, <3>1 DEF RunnerInv, SerialPoints, ThreadPoints, PoolPoints
  <2>2. CASE next = NumRows /\ next' = 1 /\ main' = "compare"
    <3>1. \A i \in Rows : row[i] = NoRow
      BY <1>1, <1>4, <1>5, <2>2, Names DEF Rows
    <3>2. \A r \in Runners : row[r] = NoRow
      BY <1>5, <3>1 DEF MatInv, TypeInv
    <3>3. QED
      BY <1>2, <1>5, <2>2, <3>2 DEF RunnerInv, SerialPoints, ThreadPoints, PoolPoints
  <2>3. QED
    BY <1>4, <2>1, <2>2
<1>7. \A h \in Rows : Begun(h)' <=> Begun(h)
  BY <1>1, <1>4 DEF Begun, PoolPoints
<1>8. main \in Working /\ main' \in Working
  BY <1>1, <1>4 DEF Working, ThreadPoints
<1>9. QED
  BY <1>1, <1>3, <1>4, <1>6, <1>7, <1>8, RowsRest

(* multiply_thread_pool enqueues a task: no row is begun by that.          *)
LEMMA EnqueueRowKeeps ==
  ASSUME MatInv, EnqueueRow
  PROVE  MatInv'
<1>1. /\ main = "enqueue" /\ Submit /\ ForEachRow("close")
      /\ UNCHANGED <<call, loopVars, result>>
  BY DEF EnqueueRow
<1>2. UNCHANGED <<call, row, slot>> /\ Variant' = Variant
  BY <1>1 DEF loopVars, Submit, Variant
<1>3. TaskInv' /\ NumTaken' = NumTaken
  BY <1>1, SubmitStep DEF MatInv
<1>4. /\ next' \in Rows
      /\ \/ main' = "enqueue"
         \/ next' = 1 /\ main' = "close"
  BY <1>1, ForEachRowGoesOn DEF MatInv, TypeInv
<1>5. /\ Variant = "pool" /\ \A r \in Workers : row[r] = slot[r]
      /\ \A r \in Runners : r \notin Workers => row[r] = NoRow
  BY <1>1 DEF MatInv, RunnerInv, PoolPoints
<1>6. RunnerInv'
  BY <1>2, <1>4, <1>5 DEF RunnerInv, SerialPoints, ThreadPoints, PoolPoints
<1>7. \A h \in Rows : Begun(h)' <=> Begun(h)
  BY <1>1, <1>3, <1>4 DEF Begun, PoolPoints, Taken
<1>8. main \in Working /\ main' \in Working
  BY <1>1, <1>4 DEF Working, PoolPoints
<1>9. QED
  BY <1>1, <1>3, <1>4, <1>6, <1>7, <1>8, RowsRest

(* multiply_thread_pool reaches its return: rows may be unfinished.        *)
LEMMA ReturnResultKeeps ==
  ASSUME MatInv, ReturnResult
  PROVE  MatInv'
<1>1. /\ main = "close" /\ BeginClose /\ main' = "closing"
      /\ UNCHANGED <<call, next, loopVars, result>>
  BY DEF ReturnResult
<1>2. UNCHANGED <<call, next, row, slot>> /\ Variant' = Variant
  BY <1>1 DEF loopVars, BeginClose, Variant
<1>3. TaskInv' /\ NumTaken' = NumTaken
  BY <1>1, PoolStutter DEF MatInv
<1>4. /\ Variant = "pool" /\ \A r \in Workers : row[r] = slot[r] /\ next = 1
      /\ \A r \in Runners : r \notin Workers => row[r] = NoRow
      /\ next = 1
  BY <1>1 DEF MatInv, RunnerInv, PoolPoints
<1>5. RunnerInv'
  BY <1>1, <1>2, <1>4 DEF RunnerInv, SerialPoints, ThreadPoints, PoolPoints
<1>6. \A h \in Rows : Begun(h)' <=> Begun(h)
  BY <1>1, <1>3 DEF Begun, PoolPoints, Taken
<1>7. main \in Working /\ main' \in Working
  BY <1>1 DEF Working, PoolPoints
<1>8. next' \in Rows
  BY <1>2 DEF MatInv, TypeInv
<1>9. QED
  BY <1>1, <1>3, <1>5, <1>6, <1>7, <1>8, RowsRest

(* When the destructor of the pool returns every row has been begun and    *)
(* nobody has one.                                                         *)
LEMMA PoolIsGoneKeeps ==
  ASSUME NumWorkers > 0, MatInv, PoolIsGone
  PROVE  MatInv'
<1>1. /\ main = "closing" /\ EndClose /\ main' = "compare"
      /\ UNCHANGED <<call, next, loopVars, result>>
  BY DEF PoolIsGone
<1>2. UNCHANGED <<call, next, row, queue, slot>> /\ Variant' = Variant
  BY <1>1 DEF loopVars, EndClose, Variant
<1>3. TaskInv' /\ NumTaken' = NumTaken
  BY <1>1, PoolStutter DEF MatInv
<1>4. queue = <<>> /\ finished = Tasks /\ \A w \in Workers : slot[w] = Idle
  BY <1>1 DEF EndClose, Drained
<1>5. /\ \A r \in Workers : row[r] = slot[r]
      /\ \A r \in Runners : r \notin Workers => row[r] = NoRow
      /\ next = 1
  BY <1>1 DEF MatInv, RunnerInv, PoolPoints
<1>6. \A r \in Runners : row[r] = NoRow
  BY <1>4, <1>5, Names
<1>7. RunnerInv'
  BY <1>1, <1>2, <1>4, <1>5, <1>6 DEF RunnerInv, SerialPoints, ThreadPoints, PoolPoints
<1>8. \A h \in Rows : Begun(h)' <=> Begun(h)
  <2>1. Rows \subseteq Taken
    BY <1>4, Names DEF MatInv, TaskInv, PlaceInv
  <2>2. QED
    BY <1>1, <2>1 DEF Begun, PoolPoints
<1>9. main \in Working /\ main' \in Working
  BY <1>1 DEF Working, PoolPoints
<1>10. next' \in Rows
  BY <1>2 DEF MatInv, TypeInv
<1>11. QED
  BY <1>1, <1>3, <1>7, <1>8, <1>9, <1>10, RowsRest

(* A function that has returned: the whole result, and nobody at work.     *)
LEMMA Complete ==
  ASSUME MatInv, main = "compare"
  PROVE  /\ \A i \in Rows, c \in Columns : result[i][c] = Prefix(Common)
         /\ \A r \in Runners : row[r] = NoRow
<1>1. \A r \in Runners : row[r] = NoRow
  BY DEF MatInv, RunnerInv, SerialPoints, ThreadPoints, PoolPoints
<1>2. \A i \in Rows : Begun(i) /\ \A r \in Runners : row[r] # i
  BY <1>1, Names DEF Begun, PoolPoints
<1>3. main \in Working
  BY DEF Working
<1>4. QED
  BY <1>1, <1>2, <1>3 DEF MatInv, RowInv

(* main compares the result, finds nothing wrong, and goes on to the next  *)
(* call.                                                                   *)
LEMMA CompareKeeps ==
  ASSUME MatInv, Compare
  PROVE  MatInv'
<1>1. main = "compare" /\ UNCHANGED <<poolVars, next, loopVars, result>>
  BY DEF Compare
<1>2. /\ \A i \in Rows, c \in Columns : result[i][c] = Prefix(Common)
      /\ \A r \in Runners : row[r] = NoRow
  BY <1>1, Complete
<1>3. compare_matrices
  <2>1. Common \in Nat
    BY Names
  <2>2. Len(Prefix(Common)) = Common
    BY <2>1, PrefixFacts
  <2>3. {Prefix(Common)[n] : n \in 1..Common} = 1..Common
    BY <2>1 DEF Prefix
  <2>4. QED
    BY <1>2, <2>2, <2>3 DEF compare_matrices
<1>4. /\ main' \in {"call", "done"}
      /\ \/ call' = call + 1 /\ call < NumCalls
         \/ call' = call
  BY <1>3 DEF Compare
<1>5. call' \in 1..NumCalls
  <2>1. call \in 1..NumCalls /\ NumCalls \in Nat
    BY Names DEF MatInv, TypeInv, NumCalls, Checked
  <2>2. QED
    BY <1>4, <2>1
<1>6. /\ RangeInv' /\ OwnInv' /\ LoadInv' /\ UNCHANGED <<row, k, j, loaded>>
      /\ \A r \in Runners : row'[r] = NoRow
  BY <1>1, <1>2, NobodyRuns
<1>7. TaskInv' /\ UNCHANGED <<queue, slot>>
  BY <1>1, PoolStutter DEF MatInv, poolVars
<1>8. TypeInv'
  BY <1>1, <1>4, <1>5, <1>6 DEF MatInv, TypeInv
<1>9. next = 1 /\ queue = <<>> /\ \A w \in Workers : slot[w] = Idle
  BY <1>1 DEF MatInv, RunnerInv, PoolPoints
<1>10. RunnerInv'
  BY <1>1, <1>4, <1>6, <1>7, <1>9 DEF RunnerInv, SerialPoints, ThreadPoints, PoolPoints
<1>11. RowInv'
  BY <1>4 DEF RowInv, Working, SerialPoints, ThreadPoints, PoolPoints
<1>12. AdditionsInOrder'
  BY <1>1 DEF MatInv, AdditionsInOrder
<1>13. QED
  BY <1>4, <1>6, <1>7, <1>8, <1>10, <1>11, <1>12 DEF MatInv
-----------------------------------------------------------------------------
(* The invariant holds at first.                                           *)
LEMMA MatStarts == Init => MatInv
<1> SUFFICES ASSUME Init
             PROVE  MatInv
  OBVIOUS
<1>1. TaskInv
  BY PoolStarts DEF Init
<1>2. /\ call = 1 /\ main = "call" /\ next = 1 /\ result = ZeroMatrix
      /\ row = [r \in Runners |-> NoRow] /\ k = [r \in Runners |-> 1]
      /\ j = [r \in Runners |-> 1] /\ loaded = [r \in Runners |-> NotLoaded]
      /\ queue = <<>> /\ slot = [w \in Workers |-> Idle]
  BY DEF Init, PoolInit
<1>3. 1 \in 1..NumCalls /\ 1 \in 1..Common + 1 /\ 1 \in 1..NumCols + 1 /\ 1 \in Rows
  BY Names DEF NumCalls, Checked
<1>4. NotLoaded \in Seq(Nat)
  BY DEF NotLoaded
<1>5. result \in [Rows -> [Columns -> Seq(1..Common)]]
      /\ \A i \in Rows, c \in Columns : result[i][c] = <<>>
  BY <1>2 DEF ZeroMatrix
<1>6. TypeInv
  BY <1>2, <1>3, <1>4, <1>5 DEF TypeInv
<1>7. RunnerInv
  BY <1>2 DEF RunnerInv, SerialPoints, ThreadPoints, PoolPoints
<1>8. RangeInv /\ OwnInv /\ LoadInv
  BY <1>2 DEF RangeInv, OwnInv, LoadInv
<1>9. RowInv
  BY <1>2 DEF RowInv, Working, SerialPoints, ThreadPoints, PoolPoints
<1>10. AdditionsInOrder
  <2>1. 0 \in Nat /\ 0 <= Common
    BY Names
  <2>2. Ordered(<<>>)
    BY <2>1, PrefixFacts, PrefixZero
  <2>3. QED
    BY <1>5, <2>2 DEF AdditionsInOrder
<1>11. QED
  BY <1>1, <1>2, <1>6, <1>7, <1>8, <1>9, <1>10 DEF MatInv

(* Every step of the program keeps the invariant.                          *)
LEMMA MatStep ==
  ASSUME NumWorkers > 0
  PROVE  MatInv /\ [Next]_vars => MatInv'
<1> SUFFICES ASSUME MatInv, [Next]_vars
             PROVE  MatInv'
  OBVIOUS
<1>1. CASE MainStep
  BY <1>1, BeginCallKeeps, SumRowKeeps, SumEndsKeeps, CreateThreadKeeps, JoinThreadKeeps,
     EnqueueRowKeeps, ReturnResultKeeps, PoolIsGoneKeeps, CompareKeeps DEF MainStep
<1>2. ASSUME NEW r \in Runners, RunnerStep(r)
      PROVE  MatInv'
  BY <1>2, LoadKeeps, StoreKeeps, EndRowKeeps, TakeRowKeeps DEF RunnerStep
<1>3. CASE Terminated \/ UNCHANGED vars
  <2>1. UNCHANGED <<call, main, next, result, row, k, j, loaded>> /\ UNCHANGED poolVars
    BY <1>3 DEF Terminated, vars, mainVars, loopVars
  <2>2. TaskInv' /\ NumTaken' = NumTaken /\ UNCHANGED <<queue, slot>> /\ Variant' = Variant
    BY <2>1, PoolStutter DEF MatInv, poolVars, Variant
  <2>3. TypeInv' /\ RunnerInv'
    BY <2>1, <2>2 DEF MatInv, TypeInv, RunnerInv
  <2>4. RangeInv' /\ OwnInv' /\ LoadInv'
    BY <2>1, <2>2 DEF MatInv, RangeInv, OwnInv, Added, LoadInv, RowDone
  <2>5. RowInv' /\ AdditionsInOrder'
    BY <2>1, <2>2 DEF MatInv, RowInv, Begun, Taken, AdditionsInOrder
  <2>6. QED
    BY <2>1, <2>2, <2>3, <2>4, <2>5 DEF MatInv
<1>4. QED
  BY <1>1, <1>2, <1>3 DEF Next

(* The invariant holds in every behaviour of the program.                  *)
LEMMA MatInvariant ==
  ASSUME NumWorkers > 0
  PROVE  Spec => []MatInv
<1>1. QED
  BY MatStarts, MatStep, PTL DEF Spec

(* The variables of matmul.cpp have their types, for every shape of the    *)
(* matrices, every pool with a worker and every num_iters.                 *)
THEOREM MatTypeCorrect ==
  ASSUME NumWorkers > 0
  PROVE  Spec => []MatTypeOK
<1>1. MatInv => MatTypeOK
  BY DEF MatInv, TaskInv, TypeInv, MatTypeOK
<1>2. QED
  BY <1>1, MatInvariant, PTL

(* In all four multiplications each element of the result has had the      *)
(* first of its additions, in the order of multiply_naive, at every        *)
(* moment: result_i[j] += A[i][k] * B[k][j] is neither locked nor atomic,  *)
(* and no thread needs it to be.                                           *)
THEOREM NoAdditionLost ==
  ASSUME NumWorkers > 0
  PROVE  Spec => []AdditionsInOrder
<1>1. MatInv => AdditionsInOrder
  BY DEF MatInv
<1>2. QED
  BY <1>1, MatInvariant, PTL

(* A multiplication that has returned gives the matrix of multiply_naive,  *)
(* to the last bit, and none of its threads or tasks is still at work on   *)
(* it: the joins of multiply_threads, and for multiply_thread_pool the     *)
(* destructor of the pool alone, await them all.                           *)
THEOREM ResultsAreComplete ==
  ASSUME NumWorkers > 0
  PROVE  Spec => []ResultComplete
<1>1. MatInv => ResultComplete
  <2>1. Sum = Prefix(Common)
    BY DEF Sum, Prefix
  <2>2. QED
    BY <2>1, Complete DEF ResultComplete
<1>2. QED
  BY <1>1, MatInvariant, PTL

(* main never prints one of its errors: no comparison of results fails,    *)
(* whatever the scheduling.                                                *)
THEOREM NoErrorPrinted ==
  ASSUME NumWorkers > 0
  PROVE  Spec => [](main # "error")
<1>1. MatInv => main # "error"
  BY DEF MatInv
<1>2. QED
  BY <1>1, MatInvariant, PTL

=============================================================================
