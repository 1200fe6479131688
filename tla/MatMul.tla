------------------------------- MODULE MatMul -------------------------------
(***************************************************************************)
(* The program Lab4/matmul.cpp: main multiplies two matrices by each of    *)
(* multiply_naive, multiply_fast, multiply_threads and                     *)
(* multiply_thread_pool, compares every result with the one it expects,    *)
(* and then runs the benchmark, which calls each of the four again and     *)
(* again.  The pool is TaskPool, the promise of ThreadPool.                *)
(*                                                                         *)
(* An element of the result is a float, to which A[i][k] * B[k][j] is      *)
(* added for one k after the other.  It is modelled by the sequence of     *)
(* these k: float addition rounds, so two sums are sure to be equal only   *)
(* when they add the same products in the same order.                      *)
(***************************************************************************)
EXTENDS TaskPool, FiniteSets

CONSTANTS NumRows,    (* A.size(): the rows of the result                  *)
          Common,     (* B.size()                                          *)
          NumCols,    (* B[0].size(): the columns of the result            *)
          Width,      (* A[0].size()                                       *)
          NumIters    (* the num_iters of test_multiply_speeds             *)

ASSUME ShapeAssumption ==
  /\ NumRows \in Nat \ {0} /\ Common \in Nat \ {0} /\ NumCols \in Nat \ {0}
  /\ Width \in Nat /\ NumIters \in Nat \ {0}
ASSUME TaskPerRow == NumTasks = NumRows

Rows == 1..NumRows
Columns == 1..NumCols
Main == 0     (* thread i of multiply_threads and worker i of the pool are i *)
Runners == {Main} \union Rows \union Workers
NoRow == 0

VARIABLES
  call,     (* how many of the multiplications have been begun             *)
  main,     (* where Main is in the current one                            *)
  next,     (* the loop variable i of Main                                 *)
  result,   (* the matrix result of the current call                       *)
  row,      (* the row a runner works on, or NoRow                         *)
  k, j,     (* its loop counters                                           *)
  loaded    (* its copy of result_i[j]; <<0>> is no copy                   *)

loopVars == <<row, k, j, loaded>>
mainVars == <<call, main, next>>
vars == <<poolVars, mainVars, loopVars, result>>

NotLoaded == <<0>>
ZeroMatrix == [i \in Rows |-> [c \in Columns |-> <<>>]]

(* main compares four results; the benchmark repeats each call NumIters    *)
(* times and looks at none.                                                *)
Checked == <<"naive", "fast", "threads", "pool">>
NumCalls == Len(Checked) * (1 + NumIters)
Variant ==
  IF call <= Len(Checked) THEN Checked[call]
  ELSE Checked[1 + (call - Len(Checked) - 1) \div NumIters]

MatTypeOK ==
  /\ PoolTypeOK
  /\ call \in 1..NumCalls
  /\ main \in {"call", "rows", "sum", "create", "join", "enqueue", "close",
               "closing", "compare", "threw", "error", "done"}
  /\ next \in Rows
  /\ \A i \in Rows, c \in Columns : result[i][c] \in Seq(1..Common)
  /\ row \in [Runners -> Rows \union {NoRow}]
  /\ k \in [Runners -> 1..Common + 1]
  /\ j \in [Runners -> 1..NumCols + 1]

Init ==
  /\ PoolInit
  /\ call = 1
  /\ main = "call"
  /\ next = 1
  /\ result = ZeroMatrix
  /\ row = [r \in Runners |-> NoRow]
  /\ k = [r \in Runners |-> 1]
  /\ j = [r \in Runners |-> 1]
  /\ loaded = [r \in Runners |-> NotLoaded]

-----------------------------------------------------------------------------
(* The loops over k and j, and the row they are run on                     *)

BeginRow(r, i) ==
  /\ row[r] = NoRow
  /\ row' = [row EXCEPT ![r] = i]
  /\ k' = [k EXCEPT ![r] = 1]
  /\ j' = [j EXCEPT ![r] = 1]
  /\ UNCHANGED loaded

(* Mutant: the inner loop ends one iteration early.                        *)
ShortLoop(n, last) == n + 1 < last
MoreToDo(n, last) == n < last

(* multiply_naive has the loop over k inside; the others have it outside.  *)
NextProduct(r) ==
  IF Variant = "naive"
  THEN IF MoreToDo(k[r], Common)
       THEN k' = [k EXCEPT ![r] = @ + 1] /\ UNCHANGED j
       ELSE k' = [k EXCEPT ![r] = 1] /\ j' = [j EXCEPT ![r] = @ + 1]
  ELSE IF MoreToDo(j[r], NumCols)
       THEN j' = [j EXCEPT ![r] = @ + 1] /\ UNCHANGED k
       ELSE j' = [j EXCEPT ![r] = 1] /\ k' = [k EXCEPT ![r] = @ + 1]

RowDone(r) == IF Variant = "naive" THEN j[r] > NumCols ELSE k[r] > Common

(* result[i][j] += A[i][k] * B[k][j] reads the element ...                 *)
Load(r) ==
  /\ row[r] # NoRow /\ ~RowDone(r) /\ loaded[r] = NotLoaded
  /\ loaded' = [loaded EXCEPT ![r] = result[row[r]][j[r]]]
  /\ UNCHANGED <<poolVars, row, k, j, result>>

(* ... and writes the sum.                                                 *)
Store(r) ==
  /\ loaded[r] # NotLoaded
  /\ result' = [result EXCEPT ![row[r]][j[r]] = Append(loaded[r], k[r])]
  /\ loaded' = [loaded EXCEPT ![r] = NotLoaded]
  /\ NextProduct(r)
  /\ UNCHANGED <<poolVars, row>>

(* The task of the pool or the body of the thread returns.                 *)
EndRow(r) ==
  /\ row[r] # NoRow /\ RowDone(r)
  /\ row' = [row EXCEPT ![r] = NoRow]
  /\ IF Variant = "pool" THEN Finish(r) ELSE UNCHANGED poolVars
  /\ UNCHANGED <<k, j, loaded, result>>

(* A worker takes the task of row i, the i-th one enqueued.                *)
TakeRow(w) ==
  /\ Start(w)
  /\ BeginRow(w, Head(queue))
  /\ UNCHANGED result

-----------------------------------------------------------------------------
(* The four functions, and main                                            *)

(* One iteration of a loop over the rows of the result.                    *)
ForEachRow(after) ==
  IF next < NumRows THEN next' = next + 1 /\ UNCHANGED main
  ELSE next' = 1 /\ main' = after

FirstStep ==
  [naive |-> "rows", fast |-> "rows", threads |-> "create", pool |-> "enqueue"]

NewPool ==
  /\ queue' = <<>> /\ enqueued' = 0 /\ finished' = {} /\ phase' = "open"
  /\ slot' = [w \in Workers |-> Idle]

(* A new result of zeros; all but multiply_naive check the dimensions.     *)
BeginCall ==
  /\ main = "call"
  /\ main' = IF Variant # "naive" /\ Width # Common THEN "threw"
             ELSE FirstStep[Variant]
  /\ result' = ZeroMatrix
  /\ IF Variant = "pool" THEN NewPool ELSE UNCHANGED poolVars
  /\ UNCHANGED <<call, next, loopVars>>

(* multiply_naive and multiply_fast: Main does row after row.              *)
SumRow ==
  /\ main = "rows"
  /\ BeginRow(Main, next)
  /\ ForEachRow("sum")
  /\ UNCHANGED <<poolVars, call, result>>
SumEnds ==
  /\ main = "sum" /\ row[Main] = NoRow
  /\ main' = "compare"
  /\ UNCHANGED <<poolVars, call, next, loopVars, result>>

(* Mutant: thread i is given the row after i.                              *)
RowAfter(i) == IF i < NumRows THEN i + 1 ELSE i
RowOf(i) == i

(* multiply_threads: thread i runs while further ones are created.         *)
CreateThread ==
  /\ main = "create"
  /\ BeginRow(next, RowOf(next))
  /\ ForEachRow("join")
  /\ UNCHANGED <<poolVars, call, result>>

(* Mutant: the last thread is detached.                                    *)
EndedOrLast(i) == row[i] = NoRow \/ i = NumRows
Ended(i) == row[i] = NoRow
JoinThread ==
  /\ main = "join"
  /\ Ended(next)
  /\ ForEachRow("compare")
  /\ UNCHANGED <<poolVars, call, loopVars, result>>

(* multiply_thread_pool: nothing awaits the tasks but the destructor of    *)
(* pool, after return result has designated the value of the call.         *)
EnqueueRow ==
  /\ main = "enqueue"
  /\ Submit
  /\ ForEachRow("close")
  /\ UNCHANGED <<call, loopVars, result>>
ReturnResult ==
  /\ main = "close"
  /\ BeginClose
  /\ main' = "closing"
  /\ UNCHANGED <<call, next, loopVars, result>>
PoolIsGone ==
  /\ main = "closing"
  /\ EndClose
  /\ main' = "compare"
  /\ UNCHANGED <<call, next, loopVars, result>>

(* Sums of whole numbers this small are exact: their order does not show.  *)
compare_matrices ==
  \A i \in Rows, c \in Columns :
    /\ Len(result[i][c]) = Common
    /\ {result[i][c][n] : n \in 1..Len(result[i][c])} = 1..Common

Compare ==
  LET wrong == call <= Len(Checked) /\ ~compare_matrices
      more == ~wrong /\ call < NumCalls IN
  /\ main = "compare"
  /\ main' = IF wrong THEN "error" ELSE IF more THEN "call" ELSE "done"
  /\ call' = IF more THEN call + 1 ELSE call
  /\ UNCHANGED <<poolVars, next, loopVars, result>>

Terminated == main \in {"threw", "error", "done"} /\ UNCHANGED vars

MainStep ==
  \/ BeginCall \/ SumRow \/ SumEnds \/ CreateThread \/ JoinThread
  \/ EnqueueRow \/ ReturnResult \/ PoolIsGone \/ Compare
RunnerStep(r) ==
  /\ \/ Load(r) \/ Store(r) \/ EndRow(r)
     \/ r \in Workers /\ Variant = "pool" /\ TakeRow(r)
  /\ UNCHANGED mainVars

Next == MainStep \/ (\E r \in Runners : RunnerStep(r)) \/ Terminated

Spec == Init /\ [][Next]_vars
FairSpec == Spec /\ WF_vars(MainStep) /\ \A r \in Runners : WF_vars(RunnerStep(r))

-----------------------------------------------------------------------------
(* Properties                                                              *)

(* In each of the four multiplications, at every moment, each element of   *)
(* the result has had the first of its additions, in the order of          *)
(* multiply_naive: the unlocked += of the threads loses none, and reorders *)
(* none.                                                                   *)
Sum == [n \in 1..Common |-> n]
Ordered(s) == s \in {SubSeq(Sum, 1, n) : n \in 0..Common}
AdditionsInOrder == \A i \in Rows, c \in Columns : Ordered(result[i][c])

(* When one of the functions has returned, the matrix its caller gets is   *)
(* complete and equal to that of multiply_naive to the last bit, and no    *)
(* thread of it still works on a matrix its caller may destroy.            *)
ResultComplete ==
  main = "compare" =>
    /\ \A i \in Rows, c \in Columns : result[i][c] = Sum
    /\ \A r \in Runners : row[r] = NoRow

(* The program ends without having printed one of its errors, whatever the *)
(* scheduling of its threads.                                              *)
ProgramEnds == <>(main = "done")
=============================================================================
