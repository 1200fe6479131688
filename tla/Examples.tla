------------------------------ MODULE Examples -------------------------------
(***************************************************************************)
(* The programs of Lab4/examples.  In each of them Main creates threads    *)
(* that run one function, lets them go in condition_variable.cpp, joins    *)
(* them in the order of their creation, and ends.  Which program runs is   *)
(* chosen in Init; the functions are written as the sequences of the steps *)
(* other threads can observe.                                              *)
(*                                                                         *)
(* unsafe_thread.cpp is left out: push_back by two threads with no lock    *)
(* may do anything.  The race of unsafe_atomic.cpp is on one int, which a  *)
(* build loads and stores whole.                                           *)
(***************************************************************************)
EXTENDS Integers, Sequences, FiniteSets

CONSTANTS NumThreads,   (* how many threads run the same function          *)
          NumRounds,    (* the iterations of their loops                   *)
          SemMax        (* the 10 of counting_semaphore<10>                *)

ASSUME ExampleAssumption ==
  NumThreads \in Nat \ {0} /\ NumRounds \in Nat \ {0} /\ SemMax \in Nat

Programs == {"safe_atomic", "unsafe_atomic", "safe_thread", "semaphore",
             "condition_variable", "simple_thread"}

Main == 0
Nobody == -1

VARIABLES
  program,
  main, next,     (* where Main is, and the thread it creates or joins     *)
  pc, round,      (* per thread: its step and its iteration                *)
  copy,           (* per thread: the counter as it has loaded it           *)
  counter,
  items,          (* vec, or buffer                                        *)
  mtx, sem, ready,
  waiting,        (* the threads in cv.wait                                *)
  woken,          (* those that have been woken spuriously                 *)
  out             (* what is printed                                       *)

mainVars == <<main, next>>
threadVars == <<pc, round>>
vars == <<program, mainVars, threadVars, copy, counter, items, mtx, sem, ready,
          waiting, woken, out>>

(* The consumers of semaphore.cpp come after as many producers.            *)
Producers == 1..NumThreads
Threads == 1..(IF program = "semaphore" THEN 2 * NumThreads ELSE NumThreads)
AllThreads == 1..2 * NumThreads

(* Mutants: an item is announced before it is there; the counter is never  *)
(* an atomic.                                                              *)
ReleaseFirst == <<"release", "lock", "push", "unlock">>
PlainIncrement == <<"load", "store">>

Increment == IF program = "safe_atomic" THEN <<"add">> ELSE <<"load", "store">>
PushBack == <<"lock", "push", "unlock">>
Produce == <<"lock", "push", "unlock", "release">>
Consume == <<"acquire", "lock", "pop", "unlock">>
PrintId == <<"lock", "await", "print", "unlock">>

Script(t) ==
  CASE program = "safe_thread"        -> PushBack
    [] program = "semaphore"          -> IF t \in Producers THEN Produce ELSE Consume
    [] program = "condition_variable" -> PrintId
    [] program = "simple_thread"      -> <<"print">>
    [] OTHER                          -> Increment

(* "Task ", i, ": ", msg and endl: other threads may come in between.    *)
Insertions == 5
Rounds ==
  CASE program = "condition_variable" -> 1
    [] program = "simple_thread"      -> Insertions
    [] OTHER                          -> NumRounds

Init ==
  /\ program \in Programs
  /\ main = "create" /\ next = 1
  /\ pc = [t \in AllThreads |-> 1] /\ round = [t \in AllThreads |-> 1]
  /\ copy = [t \in AllThreads |-> 0]
  /\ counter = 0 /\ items = <<>> /\ out = <<>>
  /\ mtx = Nobody /\ sem = 0 /\ ready = FALSE
  /\ waiting = {} /\ woken = {}

-----------------------------------------------------------------------------
(* The threads                                                             *)

Created(t) == main # "create" \/ t < next
Ended(t) == round[t] > Rounds
At(t, step) == Created(t) /\ ~Ended(t) /\ Script(t)[pc[t]] = step

Continue(t) ==
  IF pc[t] < Len(Script(t)) THEN pc' = [pc EXCEPT ![t] = @ + 1] /\ UNCHANGED round
  ELSE pc' = [pc EXCEPT ![t] = 1] /\ round' = [round EXCEPT ![t] = @ + 1]

Acquire(t) == mtx = Nobody /\ mtx' = t

(* ++counter, of an atomic and of an int.                                  *)
Count(t) ==
  /\ \/ At(t, "add") /\ counter' = counter + 1 /\ UNCHANGED copy
     \/ At(t, "load") /\ copy' = [copy EXCEPT ![t] = counter] /\ UNCHANGED counter
     \/ At(t, "store") /\ counter' = copy[t] + 1 /\ UNCHANGED copy
  /\ Continue(t)
  /\ UNCHANGED <<items, mtx, sem, ready, waiting, out>>

(* Mutex: lock and unlock.                                                 *)
UseMutex(t) ==
  /\ \/ At(t, "lock") /\ t \notin waiting /\ Acquire(t)
     \/ At(t, "unlock") /\ mtx' = Nobody
  /\ Continue(t)
  /\ UNCHANGED <<copy, counter, items, sem, ready, waiting, out>>

(* Queue and vector.  front() of an empty queue is what must not happen.   *)
UseItems(t) ==
  /\ \/ At(t, "push") /\ items' = Append(items, <<t, round[t]>>) /\ UNCHANGED out
     \/ /\ At(t, "pop") /\ items # <<>>
        /\ out' = Append(out, Head(items))
        /\ items' = Tail(items)
     \/ At(t, "print") /\ out' = Append(out, <<t, round[t]>>) /\ UNCHANGED items
  /\ Continue(t)
  /\ UNCHANGED <<copy, counter, mtx, sem, ready, waiting>>

UseSemaphore(t) ==
  /\ \/ At(t, "release") /\ sem' = sem + 1
     \/ At(t, "acquire") /\ sem > 0 /\ sem' = sem - 1
  /\ Continue(t)
  /\ UNCHANGED <<copy, counter, items, mtx, ready, waiting, out>>

(* while (!ready) cv.wait(lock): a thread woken locks and tests again.     *)
Await(t) ==
  /\ At(t, "await")
  /\ \/ ready /\ Continue(t) /\ UNCHANGED <<mtx, waiting>>
     \/ /\ ~ready
        /\ waiting' = waiting \union {t}
        /\ mtx' = Nobody
        /\ pc' = [pc EXCEPT ![t] = 1] /\ UNCHANGED round
  /\ UNCHANGED <<copy, counter, items, sem, ready, out>>

(* Once for each thread.                                                   *)
SpuriousWakeup(t) ==
  /\ t \in waiting \ woken
  /\ waiting' = waiting \ {t} /\ woken' = woken \union {t}
  /\ UNCHANGED <<program, mainVars, threadVars, copy, counter, items, mtx, sem,
                 ready, out>>

-----------------------------------------------------------------------------
(* Main                                                                    *)

LastThread == next = Cardinality(Threads)

CreateThread ==
  /\ main = "create"
  /\ IF ~LastThread THEN next' = next + 1 /\ UNCHANGED main
     ELSE next' = 1 /\ main' = (IF program = "condition_variable" THEN "go" ELSE "join")
  /\ UNCHANGED <<items, mtx, ready, waiting, out>>

(* Mutant: only one thread is notified.                                    *)
NotifyOne == IF waiting = {} THEN {} ELSE waiting \ {CHOOSE t \in waiting : TRUE}
NotifyAll == {}

(* go(): lock, ready = true, notify_all, unlock.                           *)
Go ==
  /\ \/ main = "go" /\ Acquire(Main) /\ main' = "set" /\ UNCHANGED <<ready, waiting>>
     \/ main = "set" /\ ready' = TRUE /\ main' = "notify" /\ UNCHANGED <<mtx, waiting>>
     \/ main = "notify" /\ waiting' = NotifyAll /\ main' = "unlock" /\ UNCHANGED <<mtx, ready>>
     \/ main = "unlock" /\ mtx' = Nobody /\ main' = "join" /\ UNCHANGED <<ready, waiting>>
  /\ UNCHANGED <<next, items, out>>

(* Mutant: the last thread is not joined.                                  *)
JoinsAllButLast == Ended(next) \/ LastThread
Joins == Ended(next)

(* After the last join safe_thread.cpp prints vec.                         *)
JoinThread ==
  /\ main = "join"
  /\ Joins
  /\ IF ~LastThread THEN next' = next + 1 /\ UNCHANGED <<main, out>>
     ELSE /\ main' = "done" /\ UNCHANGED next
          /\ out' = IF program = "safe_thread" THEN items ELSE out
  /\ UNCHANGED <<items, mtx, ready, waiting>>

Terminated == main = "done" /\ UNCHANGED vars

MainStep ==
  /\ CreateThread \/ Go \/ JoinThread
  /\ UNCHANGED <<program, threadVars, copy, counter, sem, woken>>
ThreadStep(t) ==
  /\ t \in Threads
  /\ Count(t) \/ UseMutex(t) \/ UseItems(t) \/ UseSemaphore(t) \/ Await(t)
  /\ UNCHANGED <<program, mainVars, woken>>

Next ==
  \/ MainStep
  \/ \E t \in AllThreads : ThreadStep(t) \/ SpuriousWakeup(t)
  \/ Terminated

(* The scheduler runs every thread.  Nothing is asked about who gets the   *)
(* mutex: each thread takes it finitely often.                             *)
Spec == Init /\ [][Next]_vars
FairSpec == Spec /\ WF_vars(MainStep) /\ \A t \in AllThreads : WF_vars(ThreadStep(t))

-----------------------------------------------------------------------------
(* Properties                                                              *)

(* The program's end: every thread has been joined, and what has been      *)
(* printed is, for each thread that makes something, everything it made,   *)
(* once and in its order; in condition_variable.cpp nobody printed before  *)
(* the start signal.  (The lines of simple_thread.cpp may be mixed, piece  *)
(* by piece; the counters print one number, for which see below.)          *)
Makers == {"safe_thread", "semaphore", "condition_variable", "simple_thread"}
NothingLost ==
  /\ program = "condition_variable" /\ out # <<>> => ready
  /\ main = "done" =>
       /\ \A t \in Threads : Ended(t)
       /\ program \in Makers =>
            /\ {out[i] : i \in 1..Len(out)} = Producers \X (1..Rounds)
            /\ \A i, j \in 1..Len(out) :
                 i < j /\ out[i][1] = out[j][1] => out[i][2] < out[j][2]

(* The atomic counter ends at the number of increments.  The plain one may *)
(* lose some, but ends no lower than 2: the thread that stores last loaded *)
(* the counter after its own store of the iteration before.                *)
CounterAtEnd ==
  main = "done" =>
    /\ program = "safe_atomic" => counter = NumThreads * NumRounds
    /\ program = "unsafe_atomic" /\ NumThreads > 1 /\ NumRounds > 1 =>
         2 <= counter /\ counter <= NumThreads * NumRounds

(* There is an item in the buffer for every permit of the semaphore, those *)
(* included that a consumer has acquired and not used yet: front() never   *)
(* meets an empty queue.                                                   *)
ItemForEveryPermit ==
  sem + Cardinality({t \in Threads : At(t, "pop") \/ (t \notin Producers /\ At(t, "lock"))})
    <= Len(items)

(* Every program ends, whatever the scheduling.                            *)
ProgramEnds == <>(main = "done")

(* "std::counting_semaphore<10> sem(0)" (Lab4/examples/semaphore.cpp): the *)
(* counter is never above the maximum it was declared with.                *)
SemWithinMax == sem <= SemMax
=============================================================================
