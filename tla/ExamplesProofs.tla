--------------------------- MODULE ExamplesProofs ---------------------------
(***************************************************************************)
(* The example programs, for any number of threads and iterations: who has *)
(* made what, in which order; how many permits and items there are; what   *)
(* the counter can be.                                                     *)
(***************************************************************************)
EXTENDS Examples, FiniteSetTheorems, SequenceTheorems, TLAPS

-----------------------------------------------------------------------------
(* The invariant.                                                          *)

LastOne == IF program = "semaphore" THEN 2 * NumThreads ELSE NumThreads
Consumers == AllThreads \ Producers

TypeInv ==
  /\ program \in Programs
  /\ main \in {"create", "go", "set", "notify", "unlock", "join", "done"}
  /\ next \in 1..LastOne
  /\ pc \in [AllThreads -> 1..4] /\ \A t \in AllThreads : pc[t] <= Len(Script(t))
  /\ round \in [AllThreads -> 1..Rounds + 1]
  /\ \A t \in AllThreads : Ended(t) => pc[t] = 1
  /\ copy \in [AllThreads -> Nat] /\ counter \in Nat
  /\ items \in Seq(AllThreads \X (1..Rounds)) /\ out \in Seq(AllThreads \X (1..Rounds))
  /\ sem \in Nat

JoinInv ==
  /\ main \in {"go", "set", "notify", "unlock"} => next = 1
  /\ main = "join" => \A t \in Threads : t < next => Ended(t)
  /\ main = "done" => \A t \in Threads : Ended(t)

(* The iterations that threads have completed; those of the consumers that *)
(* have acquired a permit; those whose item or line has been made.         *)
Completed(S) == {e \in S \X (1..Rounds) : e[2] < round[e[1]]}
Acquired ==
  {e \in Consumers \X (1..Rounds) :
     e[2] < round[e[1]] \/ (e[2] = round[e[1]] /\ pc[e[1]] # 1)}
MakePoint ==
  IF program \in {"safe_thread", "semaphore"} THEN 2
  ELSE IF program = "condition_variable" THEN 3 ELSE 1
Pairs ==
  {e \in Producers \X (1..Rounds) :
     e[2] < round[e[1]] \/ (e[2] = round[e[1]] /\ MakePoint < pc[e[1]])}

(* The consumers with a permit they have not used, and the producers with  *)
(* an item they have not announced.                                        *)
Holders == {t \in Consumers : pc[t] \in {2, 3}}
Ahead == {t \in Producers : pc[t] \in {3, 4}}
SemInv ==
  IF program = "semaphore"
    THEN /\ sem + Cardinality(Holders) + Cardinality(Ahead) = Len(items)
         /\ sem + Cardinality(Acquired) = Cardinality(Completed(Producers))
    ELSE sem = 0

(* An atomic counter has counted every iteration. A plain one has not      *)
(* counted more than there were, and it is at least 2 once every thread    *)
(* has ended.                                                              *)
Counted == Cardinality(Completed(Producers))
CountInv ==
  /\ program = "safe_atomic" => counter = Counted
  /\ program = "unsafe_atomic" =>
       /\ counter <= Counted /\ \A t \in Producers : copy[t] <= Counted
       /\ \A t \in Producers : round[t] > 1 =>
            /\ counter >= 1
            /\ pc[t] = 2 => copy[t] >= 1
       /\ NumRounds > 1 => counter >= 2 \/ \E t \in Producers : ~Ended(t)

(* What has been made, in its order: it is in the vector of safe_thread,   *)
(* in the queue of semaphore or already printed.                           *)
Made == IF program = "safe_thread" THEN items ELSE out \o items
Elements(s) == {s[i] : i \in 1..Len(s)}
Ordered(s) ==
  \A i, j \in 1..Len(s) : i < j /\ s[i][1] = s[j][1] => s[i][2] < s[j][2]
MadeInv ==
  /\ program \in Makers => Elements(Made) = Pairs /\ Ordered(Made)
  /\ program \in {"condition_variable", "simple_thread"} => items = <<>>
  /\ program = "safe_thread" => out = IF main = "done" THEN items ELSE <<>>
  /\ program = "condition_variable" =>
       /\ out # <<>> => ready
       /\ \A t \in AllThreads : 2 < pc[t] => ready

ExamplesInv == TypeInv /\ JoinInv /\ SemInv /\ CountInv /\ MadeInv

-----------------------------------------------------------------------------
(* Helpers.                                                                *)

(* The scripts.                                                            *)
LEMMA ScriptIs ==
  ASSUME program \in Programs, NEW t
  PROVE  /\ program = "safe_atomic" => Script(t) = <<"add">>
         /\ program = "unsafe_atomic" => Script(t) = <<"load", "store">>
         /\ program = "safe_thread" => Script(t) = <<"lock", "push", "unlock">>
         /\ program = "semaphore" /\ t \in Producers =>
              Script(t) = <<"lock", "push", "unlock", "release">>
         /\ program = "semaphore" /\ t \notin Producers =>
              Script(t) = <<"acquire", "lock", "pop", "unlock">>
         /\ program = "condition_variable" => Script(t) = <<"lock", "await", "print", "unlock">>
         /\ program = "simple_thread" => Script(t) = <<"print">>
  BY DEF Script, Programs, Increment, PushBack, Produce, Consume, PrintId

(* The threads and their number.                                           *)
LEMMA ThreadsAre ==
  ASSUME program \in Programs
  PROVE  /\ Threads = 1..LastOne /\ LastOne \in Nat \ {0} /\ Cardinality(Threads) = LastOne
         /\ Threads \subseteq AllThreads /\ Producers \subseteq Threads
         /\ program # "semaphore" => Threads = Producers
         /\ Producers \subseteq AllThreads /\ Consumers \subseteq AllThreads
         /\ IsFiniteSet(Producers) /\ IsFiniteSet(Consumers)
         /\ Cardinality(Producers) = NumThreads
         /\ program = "semaphore" => Cardinality(Consumers) = NumThreads /\ Threads = AllThreads
         /\ Rounds \in Nat \ {0}
<1>1. NumThreads \in Nat \ {0} /\ 2 * NumThreads \in Nat /\ Rounds \in Nat \ {0}
  BY ExampleAssumption DEF Rounds, Insertions
<1>2. \A n \in Nat : IsFiniteSet(1..n) /\ Cardinality(1..n) = n
  BY FS_Interval
<1>3. /\ Threads = 1..LastOne /\ LastOne \in Nat \ {0}
      /\ Threads \subseteq AllThreads /\ Producers \subseteq Threads
      /\ program # "semaphore" => Threads = Producers
      /\ program = "semaphore" => Threads = AllThreads
  BY <1>1 DEF Threads, LastOne, AllThreads, Producers
<1>4. IsFiniteSet(Producers) /\ IsFiniteSet(Threads) /\ IsFiniteSet(AllThreads)
      /\ Cardinality(Producers) = NumThreads /\ Cardinality(Threads) = LastOne
  BY <1>1, <1>2, <1>3 DEF Producers, AllThreads
<1>5. Consumers = NumThreads + 1..2 * NumThreads
  BY <1>1 DEF Consumers, AllThreads, Producers
<1>6. IsFiniteSet(Consumers) /\ Cardinality(Consumers) = NumThreads
  <2>1. \A a, b \in Int : IsFiniteSet(a..b) /\ Cardinality(a..b) = IF a > b THEN 0 ELSE b - a + 1
    BY FS_Interval
  <2>2. NumThreads + 1 \in Int /\ 2 * NumThreads \in Int /\ ~(NumThreads + 1 > 2 * NumThreads)
        /\ 2 * NumThreads - (NumThreads + 1) + 1 = NumThreads
    BY <1>1
  <2>3. QED
    BY <1>5, <2>1, <2>2
<1>7. QED
  BY <1>1, <1>3, <1>4, <1>6 DEF Consumers

(* The next of some numbers.                                               *)
LEMMA NextIsBelow ==
  \A a, b \in 1..4 : a < b => a + 1 \in 1..4 /\ a + 1 <= b
  OBVIOUS

(* The program does not change, nor what depends on it.                    *)
LEMMA SameProgram ==
  ASSUME program' = program
  PROVE  /\ \A t : Script(t)' = Script(t)
         /\ Threads' = Threads /\ Rounds' = Rounds
         /\ LastOne' = LastOne /\ MakePoint' = MakePoint
<1>1. \A t : Script(t)' = Script(t)
  BY DEF Script, Increment
<1>2. QED
  BY <1>1 DEF Threads, Rounds, LastOne, MakePoint

(* The last statement of an iteration, and the iteration under way.        *)
LastStep(t) == pc[t] = Len(Script(t))
Now(t) == <<t, round[t]>>

(* A thread that takes a step has neither ended nor begun an iteration too *)
(* many, and goes on to its next step or its next iteration.               *)
LEMMA TurnIs ==
  ASSUME TypeInv, NEW t \in Threads, ~Ended(t), Continue(t), program' = program
  PROVE  /\ t \in AllThreads /\ pc[t] \in 1..4 /\ pc[t] <= Len(Script(t))
         /\ round[t] \in 1..Rounds /\ round[t] + 1 \in 1..Rounds + 1
         /\ Len(Script(t)) \in 1..4
         /\ pc' = [pc EXCEPT ![t] = IF LastStep(t) THEN 1 ELSE pc[t] + 1]
         /\ round' = [round EXCEPT ![t] = IF LastStep(t) THEN round[t] + 1 ELSE round[t]]
<1>1. t \in AllThreads /\ Rounds \in Nat \ {0}
  BY ThreadsAre DEF TypeInv
<1>2. pc[t] \in 1..4 /\ pc[t] <= Len(Script(t)) /\ round[t] \in 1..Rounds + 1
  BY <1>1 DEF TypeInv
<1>3. round[t] \in 1..Rounds
  BY <1>1, <1>2 DEF Ended
<1>4. Len(Script(t)) \in 1..4
  BY ScriptIs DEF TypeInv, Programs
<1>5. CASE pc[t] < Len(Script(t))
  <2>1. pc' = [pc EXCEPT ![t] = pc[t] + 1] /\ round' = round /\ ~LastStep(t)
    BY <1>2, <1>4, <1>5 DEF Continue, LastStep
  <2>2. round' = [round EXCEPT ![t] = round[t]]
    BY <1>1, <2>1 DEF TypeInv
  <2>3. /\ pc' = [pc EXCEPT ![t] = IF LastStep(t) THEN 1 ELSE pc[t] + 1]
        /\ round' = [round EXCEPT ![t] = IF LastStep(t) THEN round[t] + 1 ELSE round[t]]
    BY <2>1, <2>2
  <2>4. QED
    BY <1>1, <1>2, <1>3, <1>4, <2>3
<1>6. CASE ~(pc[t] < Len(Script(t)))
  <2>1. pc' = [pc EXCEPT ![t] = 1] /\ round' = [round EXCEPT ![t] = round[t] + 1]
    BY <1>6 DEF Continue
  <2>2. LastStep(t)
    BY <1>2, <1>4, <1>6 DEF LastStep
  <2>3. QED
    BY <1>1, <1>2, <1>3, <1>4, <2>1, <2>2
<1>7. QED
  BY <1>5, <1>6

(* The types of pc and round; whom a step can end.                         *)
LEMMA TurnTypes ==
  ASSUME TypeInv, NEW t \in Threads, ~Ended(t), Continue(t), program' = program
  PROVE  /\ pc' \in [AllThreads -> 1..4] /\ \A u \in AllThreads : pc'[u] <= Len(Script(u)')
         /\ round' \in [AllThreads -> 1..Rounds' + 1]
         /\ \A u \in AllThreads : Ended(u)' => pc'[u] = 1
         /\ \A u \in AllThreads : Ended(u) => Ended(u)'
         /\ \A u \in AllThreads : u # t => (Ended(u)' <=> Ended(u))
<1>1. /\ t \in AllThreads /\ pc[t] \in 1..4 /\ pc[t] <= Len(Script(t))
      /\ round[t] \in 1..Rounds /\ round[t] + 1 \in 1..Rounds + 1
      /\ Len(Script(t)) \in 1..4
      /\ pc' = [pc EXCEPT ![t] = IF LastStep(t) THEN 1 ELSE pc[t] + 1]
      /\ round' = [round EXCEPT ![t] = IF LastStep(t) THEN round[t] + 1 ELSE round[t]]
  BY TurnIs
<1>2. /\ pc \in [AllThreads -> 1..4] /\ \A u \in AllThreads : pc[u] <= Len(Script(u))
      /\ round \in [AllThreads -> 1..Rounds + 1]
      /\ \A u \in AllThreads : Ended(u) => pc[u] = 1
  BY DEF TypeInv
<1>3. \A u \in AllThreads : u # t => pc'[u] = pc[u] /\ round'[u] = round[u]
  BY <1>1, <1>2
<1>4. /\ pc'[t] = IF LastStep(t) THEN 1 ELSE pc[t] + 1
      /\ round'[t] = IF LastStep(t) THEN round[t] + 1 ELSE round[t]
  BY <1>1, <1>2
<1>5. pc'[t] \in 1..4 /\ pc'[t] <= Len(Script(t)) /\ round'[t] \in 1..Rounds + 1
  <2>1. CASE LastStep(t)
    BY <1>1, <1>4, <2>1
  <2>2. CASE ~LastStep(t)
    <3>1. pc'[t] = pc[t] + 1 /\ round'[t] = round[t]
      BY <1>4, <2>2
    <3>2. Rounds \in Nat
      BY ThreadsAre DEF TypeInv
    <3>3. round'[t] \in 1..Rounds + 1
      BY <1>1, <3>1, <3>2
    <3>4. pc[t] < Len(Script(t))
      BY <1>1, <2>2 DEF LastStep
    <3>5. pc[t] + 1 \in 1..4 /\ pc[t] + 1 <= Len(Script(t))
      <4>1. pc[t] \in 1..4 /\ Len(Script(t)) \in 1..4
        BY <1>1
      <4>2. QED
        BY <3>4, <4>1, NextIsBelow
    <3>6. QED
      BY <3>1, <3>3, <3>5
  <2>3. QED
    BY <2>1, <2>2
<1>6. /\ pc' \in [AllThreads -> 1..4] /\ round' \in [AllThreads -> 1..Rounds + 1]
  <2>1. pc' = [u \in AllThreads |-> pc'[u]] /\ round' = [u \in AllThreads |-> round'[u]]
    BY <1>1, <1>2
  <2>2. \A u \in AllThreads : pc'[u] \in 1..4 /\ round'[u] \in 1..Rounds + 1
    BY <1>2, <1>3, <1>5
  <2>3. QED
    BY <2>1, <2>2
<1>7. \A u \in AllThreads : u # t => (Ended(u)' <=> Ended(u))
  BY <1>3, SameProgram DEF Ended
<1>8. Ended(t)' => pc'[t] = 1
  <2>1. ~(round[t] > Rounds)
    BY DEF Ended
  <2>2. QED
    BY <1>4, <2>1, SameProgram DEF Ended
<1>9. QED
  BY <1>2, <1>3, <1>5, <1>6, <1>7, <1>8, SameProgram

(* What a step adds to the iterations completed, to the permits acquired   *)
(* and to what has been made: the iteration it is part of, at most.        *)
LEMMA TurnCounts ==
  ASSUME TypeInv, NEW t \in Threads, ~Ended(t), Continue(t), program' = program
  PROVE  /\ \A S \in SUBSET AllThreads :
              /\ Now(t) \notin Completed(S)
              /\ Completed(S)' = IF t \in S /\ LastStep(t) THEN Completed(S) \union {Now(t)}
                                 ELSE Completed(S)
         /\ pc[t] = 1 => Now(t) \notin Acquired
         /\ Acquired' = IF t \in Consumers /\ pc[t] = 1 THEN Acquired \union {Now(t)}
                        ELSE Acquired
         /\ Pairs' = IF t \in Producers /\ pc[t] = MakePoint THEN Pairs \union {Now(t)}
                     ELSE Pairs
         /\ \A e \in Pairs : e[1] = t => e[2] <= round[t]
         /\ pc[t] = MakePoint => \A e \in Pairs : e[1] = t => e[2] < round[t]
<1>1. /\ t \in AllThreads /\ pc[t] \in 1..4 /\ pc[t] <= Len(Script(t))
      /\ round[t] \in 1..Rounds /\ round[t] + 1 \in 1..Rounds + 1
      /\ Len(Script(t)) \in 1..4
      /\ pc' = [pc EXCEPT ![t] = IF LastStep(t) THEN 1 ELSE pc[t] + 1]
      /\ round' = [round EXCEPT ![t] = IF LastStep(t) THEN round[t] + 1 ELSE round[t]]
  BY TurnIs
<1>2. /\ pc \in [AllThreads -> 1..4] /\ round \in [AllThreads -> 1..Rounds + 1]
      /\ Rounds' = Rounds /\ MakePoint' = MakePoint /\ Rounds \in Nat
  BY SameProgram, ThreadsAre DEF TypeInv
<1>3. \A u \in AllThreads : u # t => pc'[u] = pc[u] /\ round'[u] = round[u]
  BY <1>1, <1>2
<1>4. /\ pc'[t] = IF LastStep(t) THEN 1 ELSE pc[t] + 1
      /\ round'[t] = IF LastStep(t) THEN round[t] + 1 ELSE round[t]
  BY <1>1, <1>2
<1>5. ASSUME NEW S \in SUBSET AllThreads
      PROVE  /\ Now(t) \notin Completed(S)
             /\ Completed(S)' = IF t \in S /\ LastStep(t) THEN Completed(S) \union {Now(t)}
                                ELSE Completed(S)
  <2>1. \A e \in S \X (1..Rounds) : e = <<e[1], e[2]>> /\ e[1] \in AllThreads /\ e[2] \in 1..Rounds
    OBVIOUS
  <2>2. ASSUME NEW e \in S \X (1..Rounds)
        PROVE  e \in Completed(S)' <=> e \in Completed(S) \/ (e = Now(t) /\ LastStep(t))
    <3>1. /\ e \in Completed(S)' <=> e[2] < round'[e[1]]
          /\ e \in Completed(S) <=> e[2] < round[e[1]]
      BY <1>2 DEF Completed
    <3>2. e = Now(t) <=> e[1] = t /\ e[2] = round[t]
      BY <2>1, <2>2 DEF Now
    <3>3. CASE e[1] # t
      BY <1>3, <2>1, <2>2, <3>1, <3>2, <3>3
    <3>4. CASE e[1] = t
      BY <1>1, <1>4, <2>1, <2>2, <3>1, <3>2, <3>4
    <3>5. QED
      BY <3>3, <3>4
  <2>3. Completed(S) \subseteq S \X (1..Rounds) /\ Completed(S)' \subseteq S \X (1..Rounds)
    BY <1>2 DEF Completed
  <2>4. Now(t) \in S \X (1..Rounds) <=> t \in S
    BY <1>1 DEF Now
  <2>5. Now(t) \notin Completed(S)
    BY <1>1 DEF Now, Completed
  <2>6. QED
    BY <2>2, <2>3, <2>4, <2>5
<1>6. /\ pc[t] = 1 => Now(t) \notin Acquired
      /\ Acquired' = IF t \in Consumers /\ pc[t] = 1 THEN Acquired \union {Now(t)} ELSE Acquired
  <2>1. \A e \in Consumers \X (1..Rounds) :
           e = <<e[1], e[2]>> /\ e[1] \in AllThreads /\ e[2] \in 1..Rounds
    BY DEF Consumers
  <2>2. ASSUME NEW e \in Consumers \X (1..Rounds)
        PROVE  e \in Acquired' <=> e \in Acquired \/ (e = Now(t) /\ pc[t] = 1)
    <3>1. /\ e \in Acquired' <=>
               e[2] < round'[e[1]] \/ (e[2] = round'[e[1]] /\ pc'[e[1]] # 1)
          /\ e \in Acquired <=> e[2] < round[e[1]] \/ (e[2] = round[e[1]] /\ pc[e[1]] # 1)
      BY <1>2 DEF Acquired
    <3>2. e = Now(t) <=> e[1] = t /\ e[2] = round[t]
      BY <2>1, <2>2 DEF Now
    <3>3. CASE e[1] # t
      BY <1>3, <2>1, <2>2, <3>1, <3>2, <3>3
    <3>4. CASE e[1] = t
      BY <1>1, <1>4, <2>1, <2>2, <3>1, <3>2, <3>4
    <3>5. QED
      BY <3>3, <3>4
  <2>3. Acquired \subseteq Consumers \X (1..Rounds) /\ Acquired' \subseteq Consumers \X (1..Rounds)
    BY <1>2 DEF Acquired
  <2>4. Now(t) \in Consumers \X (1..Rounds) <=> t \in Consumers
    BY <1>1 DEF Now
  <2>5. pc[t] = 1 => Now(t) \notin Acquired
    BY <1>1 DEF Now, Acquired
  <2>6. QED
    BY <2>2, <2>3, <2>4, <2>5
<1>7. MakePoint \in 1..3 /\ (t \in Producers => MakePoint <= Len(Script(t)))
  <2>1. program \in Programs /\ MakePoint \in 1..3
    BY DEF TypeInv, MakePoint
  <2>2. ASSUME t \in Producers
        PROVE  MakePoint <= Len(Script(t))
    <3>1. CASE program \in {"safe_thread", "semaphore"}
      BY <2>1, <2>2, <3>1, ScriptIs DEF MakePoint
    <3>2. CASE program = "condition_variable"
      BY <2>1, <3>2, ScriptIs DEF MakePoint
    <3>3. CASE program \in {"safe_atomic", "unsafe_atomic", "simple_thread"}
      BY <2>1, <3>3, ScriptIs DEF MakePoint
    <3>4. QED
      BY <2>1, <3>1, <3>2, <3>3 DEF Programs
  <2>3. QED
    BY <2>1, <2>2
<1>8. Pairs' = IF t \in Producers /\ pc[t] = MakePoint THEN Pairs \union {Now(t)} ELSE Pairs
  <2>1. \A e \in Producers \X (1..Rounds) :
           e = <<e[1], e[2]>> /\ e[1] \in AllThreads /\ e[2] \in 1..Rounds
    BY ThreadsAre DEF TypeInv
  <2>2. ASSUME NEW e \in Producers \X (1..Rounds)
        PROVE  e \in Pairs' <=> e \in Pairs \/ (e = Now(t) /\ pc[t] = MakePoint)
    <3>1. /\ e \in Pairs' <=>
               e[2] < round'[e[1]] \/ (e[2] = round'[e[1]] /\ MakePoint < pc'[e[1]])
          /\ e \in Pairs <=> e[2] < round[e[1]] \/ (e[2] = round[e[1]] /\ MakePoint < pc[e[1]])
      BY <1>2 DEF Pairs
    <3>2. e = Now(t) <=> e[1] = t /\ e[2] = round[t]
      BY <2>1, <2>2 DEF Now
    <3>3. CASE e[1] # t
      BY <1>3, <2>1, <2>2, <3>1, <3>2, <3>3
    <3>4. CASE e[1] = t /\ LastStep(t)
      <4>1. t \in Producers /\ pc[t] = Len(Script(t)) /\ MakePoint <= Len(Script(t))
        BY <1>7, <2>2, <3>4 DEF LastStep
      <4>2. pc'[t] = 1 /\ round'[t] = round[t] + 1 /\ ~(MakePoint < 1)
        BY <1>4, <1>7, <3>4
      <4>3. QED
        BY <1>1, <1>7, <2>1, <2>2, <3>1, <3>2, <3>4, <4>1, <4>2
    <3>5. CASE e[1] = t /\ ~LastStep(t)
      <4>1. pc'[t] = pc[t] + 1 /\ round'[t] = round[t]
        BY <1>4, <3>5
      <4>2. QED
        BY <1>1, <1>7, <2>1, <2>2, <3>1, <3>2, <3>5, <4>1
    <3>6. QED
      BY <3>3, <3>4, <3>5
  <2>3. Pairs \subseteq Producers \X (1..Rounds) /\ Pairs' \subseteq Producers \X (1..Rounds)
    BY <1>2 DEF Pairs
  <2>4. Now(t) \in Producers \X (1..Rounds) <=> t \in Producers
    BY <1>1 DEF Now
  <2>5. QED
    BY <2>2, <2>3, <2>4
<1>9. /\ \A e \in Pairs : e[1] = t => e[2] <= round[t]
      /\ pc[t] = MakePoint => \A e \in Pairs : e[1] = t => e[2] < round[t]
  BY <1>1, <1>7 DEF Pairs
<1>10. QED
  BY <1>5, <1>6, <1>8, <1>9

-----------------------------------------------------------------------------
(* The threads.                                                            *)

(* Which program is at a step, and where.                                  *)
LEMMA AtIs ==
  ASSUME TypeInv, NEW t \in Threads, NEW step, At(t, step)
  PROVE  /\ ~Ended(t) /\ Script(t)[pc[t]] = step /\ pc[t] \in 1..4 /\ pc[t] <= Len(Script(t))
         /\ step = "add" => program = "safe_atomic" /\ pc[t] = 1
         /\ step = "load" => program = "unsafe_atomic" /\ pc[t] = 1
         /\ step = "store" => program = "unsafe_atomic" /\ pc[t] = 2
         /\ step = "push" => /\ program \in {"safe_thread", "semaphore"}
                             /\ t \in Producers /\ pc[t] = 2
         /\ step = "pop" => program = "semaphore" /\ t \in Consumers /\ pc[t] = 3
         /\ step = "print" => \/ program = "condition_variable" /\ pc[t] = 3
                              \/ program = "simple_thread" /\ pc[t] = 1
         /\ step = "release" => program = "semaphore" /\ t \in Producers /\ pc[t] = 4
         /\ step = "acquire" => program = "semaphore" /\ t \in Consumers /\ pc[t] = 1
         /\ step = "await" => program = "condition_variable" /\ pc[t] = 2
         /\ step = "lock" => \/ program = "semaphore" /\ t \in Consumers /\ pc[t] = 2
                             \/ program = "semaphore" /\ t \in Producers /\ pc[t] = 1
                             \/ program \in {"safe_thread", "condition_variable"} /\ pc[t] = 1
         /\ step = "unlock" => \/ program = "semaphore" /\ t \in Consumers /\ pc[t] = 4
                               \/ program = "semaphore" /\ t \in Producers /\ pc[t] = 3
                               \/ program = "safe_thread" /\ pc[t] = 3
                               \/ program = "condition_variable" /\ pc[t] = 4
<1>1. /\ ~Ended(t) /\ Script(t)[pc[t]] = step /\ t \in AllThreads
      /\ pc[t] \in 1..4 /\ pc[t] <= Len(Script(t)) /\ program \in Programs
  BY ThreadsAre DEF At, TypeInv
<1>2. /\ program = "semaphore" => t \in Producers \/ t \in Consumers
      /\ program # "semaphore" => t \in Producers
      /\ t \in Consumers => t \notin Producers
  BY <1>1, ThreadsAre DEF Consumers
<1>3. CASE program = "safe_atomic"
  <2>1. Script(t) = <<"add">>
    BY <1>1, <1>3, ScriptIs
  <2>2. pc[t] = 1
    BY <1>1, <2>1
  <2>3. QED
    BY <1>1, <1>3, <2>1, <2>2
<1>4. CASE program = "unsafe_atomic"
  <2>1. Script(t) = <<"load", "store">>
    BY <1>1, <1>4, ScriptIs
  <2>2. pc[t] = 1 \/ pc[t] = 2
    BY <1>1, <2>1
  <2>3. QED
    BY <1>1, <1>4, <2>1, <2>2
<1>5. CASE program = "safe_thread"
  <2>1. Script(t) = <<"lock", "push", "unlock">>
    BY <1>1, <1>5, ScriptIs
  <2>2. pc[t] = 1 \/ pc[t] = 2 \/ pc[t] = 3
    BY <1>1, <2>1
  <2>3. QED
    BY <1>1, <1>2, <1>5, <2>1, <2>2
<1>6. CASE program = "semaphore" /\ t \in Producers
  <2>1. Script(t) = <<"lock", "push", "unlock", "release">>
    BY <1>1, <1>6, ScriptIs
  <2>2. pc[t] = 1 \/ pc[t] = 2 \/ pc[t] = 3 \/ pc[t] = 4
    BY <1>1
  <2>3. QED
    BY <1>1, <1>2, <1>6, <2>1, <2>2
<1>7. CASE program = "semaphore" /\ t \in Consumers
  <2>1. Script(t) = <<"acquire", "lock", "pop", "unlock">>
    BY <1>1, <1>2, <1>7, ScriptIs
  <2>2. pc[t] = 1 \/ pc[t] = 2 \/ pc[t] = 3 \/ pc[t] = 4
    BY <1>1
  <2>3. QED
    BY <1>1, <1>2, <1>7, <2>1, <2>2
<1>8. CASE program = "condition_variable"
  <2>1. Script(t) = <<"lock", "await", "print", "unlock">>
    BY <1>1, <1>8, ScriptIs
  <2>2. pc[t] = 1 \/ pc[t] = 2 \/ pc[t] = 3 \/ pc[t] = 4
    BY <1>1
  <2>3. QED
    BY <1>1, <1>8, <2>1, <2>2
<1>9. CASE program = "simple_thread"
  <2>1. Script(t) = <<"print">>
    BY <1>1, <1>9, ScriptIs
  <2>2. pc[t] = 1
    BY <1>1, <2>1
  <2>3. QED
    BY <1>1, <1>9, <2>1, <2>2
<1>10. QED
  BY <1>1, <1>2, <1>3, <1>4, <1>5, <1>6, <1>7, <1>8, <1>9 DEF Programs

(* The sets that are counted are finite.                                   *)
LEMMA CountedSets ==
  ASSUME TypeInv
  PROVE  /\ IsFiniteSet(Completed(Producers)) /\ Cardinality(Completed(Producers)) \in Nat
         /\ IsFiniteSet(Acquired) /\ Cardinality(Acquired) \in Nat
         /\ IsFiniteSet(Holders) /\ Cardinality(Holders) \in Nat
         /\ IsFiniteSet(Ahead) /\ Cardinality(Ahead) \in Nat
<1>1. IsFiniteSet(Producers) /\ IsFiniteSet(Consumers) /\ Rounds \in Nat
  BY ThreadsAre DEF TypeInv
<1>2. IsFiniteSet(1..Rounds)
  BY <1>1, FS_Interval
<1>3. IsFiniteSet(Producers \X (1..Rounds)) /\ IsFiniteSet(Consumers \X (1..Rounds))
  BY <1>1, <1>2, FS_Product
<1>4. /\ Completed(Producers) \subseteq Producers \X (1..Rounds)
      /\ Acquired \subseteq Consumers \X (1..Rounds)
      /\ Holders \subseteq Consumers /\ Ahead \subseteq Producers
  BY DEF Completed, Acquired, Holders, Ahead
<1>5. /\ IsFiniteSet(Completed(Producers)) /\ IsFiniteSet(Acquired)
      /\ IsFiniteSet(Holders) /\ IsFiniteSet(Ahead)
  BY <1>1, <1>3, <1>4, FS_Subset
<1>6. QED
  BY <1>5, FS_CardinalityType

(* A set with one element more, and with one less.                         *)
LEMMA OneMore ==
  ASSUME NEW S, IsFiniteSet(S), NEW x
  PROVE  /\ x \notin S => Cardinality(S \union {x}) = Cardinality(S) + 1
         /\ x \in S => Cardinality(S \ {x}) = Cardinality(S) - 1
  BY FS_AddElement, FS_RemoveElement

(* What a step of semaphore adds to the four counts.                       *)
LEMMA TurnSemaphore ==
  ASSUME TypeInv, NEW t \in Threads, ~Ended(t), Continue(t), program' = program,
         program = "semaphore"
  PROVE  LET h == Cardinality(Holders)
             a == Cardinality(Ahead)
             q == Cardinality(Acquired)
             c == Cardinality(Completed(Producers))
         IN /\ t \in Consumers =>
                 /\ h' = IF pc[t] = 1 THEN h + 1 ELSE IF pc[t] = 3 THEN h - 1 ELSE h
                 /\ q' = IF pc[t] = 1 THEN q + 1 ELSE q
                 /\ a' = a /\ c' = c
            /\ t \in Producers =>
                 /\ a' = IF pc[t] = 2 THEN a + 1 ELSE IF pc[t] = 4 THEN a - 1 ELSE a
                 /\ c' = IF pc[t] = 4 THEN c + 1 ELSE c
                 /\ h' = h /\ q' = q
<1>1. /\ t \in AllThreads /\ pc[t] \in 1..4
      /\ Len(Script(t)) = 4 /\ (LastStep(t) <=> pc[t] = 4)
      /\ pc' = [pc EXCEPT ![t] = IF LastStep(t) THEN 1 ELSE pc[t] + 1]
  <2>1. Len(Script(t)) = 4
    BY ScriptIs DEF Programs
  <2>2. QED
    BY <2>1, TurnIs DEF LastStep
<1>2. /\ pc \in [AllThreads -> 1..4] /\ Producers \subseteq AllThreads
      /\ Consumers \subseteq AllThreads /\ Producers \intersect Consumers = {}
  BY ThreadsAre DEF TypeInv, Consumers
<1>3. /\ \A u \in AllThreads : u # t => pc'[u] = pc[u]
      /\ pc'[t] = IF pc[t] = 4 THEN 1 ELSE pc[t] + 1
  BY <1>1, <1>2
<1>4. Holders' = IF t \in Consumers /\ pc[t] = 1 THEN Holders \union {t}
                 ELSE IF t \in Consumers /\ pc[t] = 3 THEN Holders \ {t} ELSE Holders
  <2>1. \A u \in Consumers : u \in Holders' <=> pc'[u] \in {2, 3}
    BY DEF Holders, Consumers, AllThreads, Producers
  <2>2. \A u \in Consumers : u \in Holders <=> pc[u] \in {2, 3}
    BY DEF Holders
  <2>3. Holders' \subseteq Consumers /\ Holders \subseteq Consumers
    BY DEF Holders, Consumers, AllThreads, Producers
  <2>4. pc'[t] \in {2, 3} <=> pc[t] \in {1, 2}
    BY <1>1, <1>3
  <2>5. \A u \in Consumers : u # t => (u \in Holders' <=> u \in Holders)
    BY <1>2, <1>3, <2>1, <2>2
  <2>6. t \in Consumers => /\ t \in Holders' <=> pc[t] \in {1, 2}
                           /\ t \in Holders <=> pc[t] \in {2, 3}
    BY <2>1, <2>2, <2>4
  <2>7. QED
    BY <1>1, <2>3, <2>5, <2>6
<1>5. Ahead' = IF t \in Producers /\ pc[t] = 2 THEN Ahead \union {t}
               ELSE IF t \in Producers /\ pc[t] = 4 THEN Ahead \ {t} ELSE Ahead
  <2>1. \A u \in Producers : u \in Ahead' <=> pc'[u] \in {3, 4}
    BY DEF Ahead, Producers
  <2>2. \A u \in Producers : u \in Ahead <=> pc[u] \in {3, 4}
    BY DEF Ahead
  <2>3. Ahead' \subseteq Producers /\ Ahead \subseteq Producers
    BY DEF Ahead, Producers
  <2>4. pc'[t] \in {3, 4} <=> pc[t] \in {2, 3}
    BY <1>1, <1>3
  <2>5. \A u \in Producers : u # t => (u \in Ahead' <=> u \in Ahead)
    BY <1>2, <1>3, <2>1, <2>2
  <2>6. t \in Producers => /\ t \in Ahead' <=> pc[t] \in {2, 3}
                           /\ t \in Ahead <=> pc[t] \in {3, 4}
    BY <2>1, <2>2, <2>4
  <2>7. QED
    BY <1>1, <2>3, <2>5, <2>6
<1>6. /\ Now(t) \notin Completed(Producers)
      /\ Completed(Producers)' = IF t \in Producers /\ pc[t] = 4
                                 THEN Completed(Producers) \union {Now(t)} ELSE Completed(Producers)
      /\ pc[t] = 1 => Now(t) \notin Acquired
      /\ Acquired' = IF t \in Consumers /\ pc[t] = 1 THEN Acquired \union {Now(t)} ELSE Acquired
  <2>1. Producers \in SUBSET AllThreads
    BY <1>2
  <2>2. QED
    BY <1>1, <2>1, TurnCounts
<1>7. /\ t \in Holders <=> t \in Consumers /\ pc[t] \in {2, 3}
      /\ t \in Ahead <=> t \in Producers /\ pc[t] \in {3, 4}
  BY DEF Holders, Ahead
<1> DEFINE h == Cardinality(Holders)
           a == Cardinality(Ahead)
           q == Cardinality(Acquired)
           c == Cardinality(Completed(Producers))
<1>8. /\ t \notin Holders => Cardinality(Holders \union {t}) = h + 1
      /\ t \in Holders => Cardinality(Holders \ {t}) = h - 1
      /\ t \notin Ahead => Cardinality(Ahead \union {t}) = a + 1
      /\ t \in Ahead => Cardinality(Ahead \ {t}) = a - 1
      /\ pc[t] = 1 => Cardinality(Acquired \union {Now(t)}) = q + 1
      /\ Cardinality(Completed(Producers) \union {Now(t)}) = c + 1
  BY <1>6, CountedSets, OneMore
<1>9. ASSUME t \in Consumers
      PROVE  /\ h' = IF pc[t] = 1 THEN h + 1 ELSE IF pc[t] = 3 THEN h - 1 ELSE h
             /\ q' = IF pc[t] = 1 THEN q + 1 ELSE q
             /\ a' = a /\ c' = c
  BY <1>2, <1>4, <1>5, <1>6, <1>7, <1>8, <1>9
<1>10. ASSUME t \in Producers
       PROVE  /\ a' = IF pc[t] = 2 THEN a + 1 ELSE IF pc[t] = 4 THEN a - 1 ELSE a
              /\ c' = IF pc[t] = 4 THEN c + 1 ELSE c
              /\ h' = h /\ q' = q
  BY <1>2, <1>4, <1>5, <1>6, <1>7, <1>8, <1>10
<1>11. QED
  BY <1>9, <1>10

(* Sequences that grow at their end, or move from one to the end of        *)
(* another.                                                                *)
LEMMA AppendOrdered ==
  ASSUME NEW S, NEW s \in Seq(S), Ordered(s), NEW e \in S,
         \A x \in Elements(s) : x[1] = e[1] => x[2] < e[2]
  PROVE  Ordered(Append(s, e)) /\ Elements(Append(s, e)) = Elements(s) \union {e}
<1> DEFINE r == Append(s, e)
<1>1. /\ Len(r) = Len(s) + 1 /\ Len(s) \in Nat /\ r[Len(s) + 1] = e
      /\ \A i \in 1..Len(s) : r[i] = s[i] /\ s[i] \in Elements(s)
  BY DEF Elements
<1> HIDE DEF r
<1>2. ASSUME NEW i \in 1..Len(r), NEW j \in 1..Len(r), i < j, r[i][1] = r[j][1]
      PROVE  r[i][2] < r[j][2]
  <2>1. i \in 1..Len(s)
    BY <1>1, <1>2
  <2>2. CASE j \in 1..Len(s)
    BY <1>1, <1>2, <2>1, <2>2 DEF Ordered
  <2>3. CASE j \notin 1..Len(s)
    <3>1. r[j] = e
      BY <1>1, <2>3
    <3>2. QED
      BY <1>1, <1>2, <2>1, <3>1
  <2>4. QED
    BY <2>2, <2>3
<1>3. \A i \in 1..Len(r) : i \in 1..Len(s) \/ i = Len(s) + 1
  BY <1>1
<1>4. Len(s) + 1 \in 1..Len(r) /\ 1..Len(s) \subseteq 1..Len(r)
  BY <1>1
<1>5. Elements(r) = Elements(s) \union {e}
  BY <1>1, <1>3, <1>4 DEF Elements
<1>6. QED
  BY <1>2, <1>5 DEF Ordered, r

(* An item pushed behind the items already popped.                         *)
LEMMA AppendBehind ==
  ASSUME NEW S, NEW s \in Seq(S), NEW r \in Seq(S), NEW e \in S
  PROVE  s \o Append(r, e) = Append(s \o r, e)
  OBVIOUS

(* Popping the head of the queue changes neither what was made nor its     *)
(* order.                                                                  *)
LEMMA MoveHead ==
  ASSUME NEW S, NEW s \in Seq(S), NEW r \in Seq(S), r # <<>>
  PROVE  /\ Append(s, Head(r)) \o Tail(r) = s \o r
         /\ Len(Tail(r)) = Len(r) - 1 /\ Tail(r) \in Seq(S)
         /\ Append(s, Head(r)) \in Seq(S) /\ Len(r) \in Nat \ {0}
  OBVIOUS

(* What the steps of a thread have in common.                              *)
LEMMA TurnKeepsTypes ==
  ASSUME TypeInv, NEW t \in Threads, ~Ended(t), Continue(t),
         UNCHANGED <<program, main, next>>,
         copy' \in [AllThreads -> Nat], counter' \in Nat, sem' \in Nat,
         items' \in Seq(AllThreads \X (1..Rounds)), out' \in Seq(AllThreads \X (1..Rounds))
  PROVE  TypeInv'
  BY TurnTypes, SameProgram DEF TypeInv

(* main's joins are of threads that have ended, and an ended thread takes  *)
(* no step.                                                                *)
LEMMA TurnKeepsJoin ==
  ASSUME TypeInv, JoinInv, NEW t \in Threads, ~Ended(t), Continue(t),
         UNCHANGED <<program, main, next>>
  PROVE  JoinInv'
<1>1. Threads \subseteq AllThreads
  BY ThreadsAre DEF TypeInv
<1>2. QED
  BY <1>1, TurnTypes, SameProgram DEF JoinInv

(* Only the two counter examples have a counter to keep right.             *)
LEMMA TurnKeepsCount ==
  ASSUME CountInv, program' = program, program \notin {"safe_atomic", "unsafe_atomic"}
  PROVE  CountInv'
  BY DEF CountInv

(* A step that makes nothing.                                              *)
LEMMA TurnKeepsMade ==
  ASSUME TypeInv, MadeInv, NEW t \in Threads, ~Ended(t), Continue(t),
         UNCHANGED <<program, main, items, out, ready>>,
         program \in Makers /\ t \in Producers => pc[t] # MakePoint,
         program = "condition_variable" /\ pc[t] = 2 => ready
  PROVE  MadeInv'
<1>1. program \in Makers => Pairs' = Pairs
  BY TurnCounts
<1>2. Made' = Made
  BY DEF Made
<1>3. program \in Makers => Elements(Made)' = Pairs' /\ Ordered(Made)'
  BY <1>1, <1>2 DEF MadeInv, Elements, Ordered
<1>4. ASSUME program = "condition_variable", NEW u \in AllThreads, 2 < pc'[u]
      PROVE  ready'
  <2>1. /\ t \in AllThreads /\ pc[t] \in 1..4
        /\ pc' = [pc EXCEPT ![t] = IF LastStep(t) THEN 1 ELSE pc[t] + 1]
        /\ pc \in [AllThreads -> 1..4]
    BY TurnIs DEF TypeInv
  <2>2. CASE u # t
    BY <1>4, <2>1, <2>2 DEF MadeInv
  <2>3. CASE u = t
    <3>1. pc[t] = 2 \/ 2 < pc[t]
      BY <1>4, <2>1, <2>3
    <3>2. QED
      BY <1>4, <2>1, <3>1 DEF MadeInv
  <2>4. QED
    BY <2>2, <2>3
<1>5. QED
  BY <1>3, <1>4 DEF MadeInv

(* ++counter.                                                              *)
LEMMA CountKeeps ==
  ASSUME ExamplesInv, NEW t \in Threads, Count(t), UNCHANGED <<program, main, next>>
  PROVE  ExamplesInv'
<1> USE DEF ExamplesInv
<1>1. PICK step \in {"add", "load", "store"} :
        /\ At(t, step)
        /\ step = "add" => counter' = counter + 1 /\ UNCHANGED copy
        /\ step = "load" => copy' = [copy EXCEPT ![t] = counter] /\ UNCHANGED counter
        /\ step = "store" => counter' = copy[t] + 1 /\ UNCHANGED copy
  BY DEF Count
<1>2. /\ ~Ended(t) /\ Continue(t) /\ UNCHANGED <<items, mtx, sem, ready, waiting, out>>
      /\ step = "add" => program = "safe_atomic" /\ pc[t] = 1
      /\ step = "load" => program = "unsafe_atomic" /\ pc[t] = 1
      /\ step = "store" => program = "unsafe_atomic" /\ pc[t] = 2
      /\ pc[t] \in 1..4 /\ program \in {"safe_atomic", "unsafe_atomic"}
  BY <1>1, AtIs DEF Count
<1>3. t \in Producers /\ Producers \subseteq AllThreads /\ t \in AllThreads
  BY <1>2, ThreadsAre DEF TypeInv
<1>4. /\ step = "add" => LastStep(t)
      /\ step = "load" => ~LastStep(t)
      /\ step = "store" => LastStep(t)
  <2>1. CASE program = "safe_atomic"
    <3>1. Script(t) = <<"add">>
      BY <2>1, ScriptIs DEF Programs
    <3>2. QED
      BY <1>1, <1>2, <2>1, <3>1 DEF LastStep
  <2>2. CASE program = "unsafe_atomic"
    <3>1. Script(t) = <<"load", "store">>
      BY <2>2, ScriptIs DEF Programs
    <3>2. QED
      BY <1>1, <1>2, <2>2, <3>1 DEF LastStep
  <2>3. QED
    BY <1>2, <2>1, <2>2
<1>5. /\ round[t] \in 1..Rounds /\ pc \in [AllThreads -> 1..4]
      /\ round \in [AllThreads -> 1..Rounds + 1]
      /\ pc' = [pc EXCEPT ![t] = IF LastStep(t) THEN 1 ELSE pc[t] + 1]
      /\ round' = [round EXCEPT ![t] = IF LastStep(t) THEN round[t] + 1 ELSE round[t]]
      /\ Rounds = NumRounds /\ Rounds' = Rounds
      /\ copy \in [AllThreads -> Nat] /\ counter \in Nat /\ copy[t] \in Nat
      /\ NumRounds \in Nat \ {0}
  BY <1>2, <1>3, TurnIs, SameProgram, ExampleAssumption DEF TypeInv, Rounds
<1>6. Counted' = (IF LastStep(t) THEN Counted + 1 ELSE Counted) /\ Counted \in Nat
  <2>1. Producers \in SUBSET AllThreads
    BY <1>3
  <2>2. /\ Now(t) \notin Completed(Producers)
        /\ Completed(Producers)' = IF LastStep(t) THEN Completed(Producers) \union {Now(t)}
                                   ELSE Completed(Producers)
    BY <1>2, <1>3, <2>1, TurnCounts
  <2>3. QED
    BY <2>2, CountedSets, OneMore DEF Counted
<1>7. copy' \in [AllThreads -> Nat] /\ counter' \in Nat
  <2>1. CASE step = "add"
    BY <1>1, <1>5, <2>1
  <2>2. CASE step = "load"
    BY <1>1, <1>3, <1>5, <2>2
  <2>3. CASE step = "store"
    BY <1>1, <1>5, <2>3
  <2>4. QED
    BY <1>1, <2>1, <2>2, <2>3
<1>8. TypeInv'
  <2>1. /\ sem' \in Nat /\ items' \in Seq(AllThreads \X (1..Rounds))
        /\ out' \in Seq(AllThreads \X (1..Rounds))
    BY <1>2 DEF TypeInv
  <2>2. QED
    BY <1>2, <1>7, <2>1, TurnKeepsTypes
<1>9. JoinInv'
  BY <1>2, TurnKeepsJoin
<1>10. SemInv'
  BY <1>2 DEF SemInv
<1>11. MadeInv'
  <2>1. program \notin Makers /\ program # "condition_variable"
    BY <1>2 DEF Makers
  <2>2. QED
    BY <1>2, <2>1, TurnKeepsMade
<1>12. CountInv'
  <2>1. CASE step = "add"
    BY <1>1, <1>2, <1>4, <1>5, <1>6, <2>1 DEF CountInv
  <2>2. CASE step = "load"
    <3>1. /\ program = "unsafe_atomic" /\ copy'[t] = counter
          /\ counter' = counter /\ Counted' = Counted
      BY <1>1, <1>2, <1>3, <1>4, <1>5, <1>6, <2>2
    <3>2. /\ counter <= Counted /\ \A u \in Producers : copy[u] <= Counted
          /\ \A u \in Producers : round[u] > 1 => counter >= 1 /\ (pc[u] = 2 => copy[u] >= 1)
          /\ NumRounds > 1 => counter >= 2 \/ \E u \in Producers : ~Ended(u)
      BY <3>1 DEF CountInv
    <3>3. \A u \in Producers : /\ round'[u] = round[u]
                               /\ u # t => pc'[u] = pc[u] /\ copy'[u] = copy[u]
      BY <1>1, <1>3, <1>4, <1>5, <2>2
    <3>4. \A u \in Producers : Ended(u)' <=> Ended(u)
      BY <1>5, <3>3 DEF Ended
    <3>5. /\ \A u \in Producers : copy'[u] <= Counted'
          /\ \A u \in Producers : round'[u] > 1 => counter' >= 1 /\ (pc'[u] = 2 => copy'[u] >= 1)
      <4>1. ASSUME NEW u \in Producers
            PROVE  /\ copy'[u] <= Counted'
                   /\ round'[u] > 1 => counter' >= 1 /\ (pc'[u] = 2 => copy'[u] >= 1)
        <5>1. CASE u = t
          BY <3>1, <3>2, <3>3, <5>1
        <5>2. CASE u # t
          BY <3>1, <3>2, <3>3, <5>2
        <5>3. QED
          BY <5>1, <5>2
      <4>2. QED
        BY <4>1
    <3>6. QED
      BY <1>2, <3>1, <3>2, <3>4, <3>5 DEF CountInv, Producers
  <2>3. CASE step = "store"
    <3>1. /\ program = "unsafe_atomic" /\ counter' = copy[t] + 1 /\ copy' = copy
          /\ Counted' = Counted + 1 /\ pc[t] = 2 /\ pc'[t] = 1 /\ round'[t] = round[t] + 1
      BY <1>1, <1>2, <1>3, <1>4, <1>5, <1>6, <2>3
    <3>2. /\ counter <= Counted /\ \A u \in Producers : copy[u] <= Counted /\ copy[u] \in Nat
          /\ \A u \in Producers : round[u] > 1 => counter >= 1 /\ (pc[u] = 2 => copy[u] >= 1)
      BY <1>3, <1>5, <3>1 DEF CountInv
    <3>3. \A u \in Producers : u # t => pc'[u] = pc[u] /\ round'[u] = round[u]
      BY <1>3, <1>5
    <3>4. counter' <= Counted' /\ counter' >= 1
      BY <1>3, <1>5, <1>6, <3>1, <3>2
    <3>5. ASSUME NEW u \in Producers
          PROVE  /\ copy'[u] <= Counted'
                 /\ round'[u] > 1 => counter' >= 1 /\ (pc'[u] = 2 => copy'[u] >= 1)
      <4>1. copy'[u] <= Counted'
        BY <1>6, <3>1, <3>2
      <4>2. CASE u = t
        BY <3>1, <3>4, <4>1, <4>2
      <4>3. CASE u # t
        BY <3>1, <3>2, <3>3, <3>4, <4>1, <4>3
      <4>4. QED
        BY <4>2, <4>3
    <3>6. ASSUME NumRounds > 1
          PROVE  counter' >= 2 \/ ~Ended(t)'
      <4>1. CASE round[t] > 1
        BY <1>3, <1>5, <3>1, <3>2, <4>1
      <4>2. CASE ~(round[t] > 1)
        <5>1. round'[t] = 2 /\ ~(2 > Rounds')
          BY <1>5, <3>1, <3>6, <4>2
        <5>2. QED
          BY <5>1 DEF Ended
      <4>3. QED
        BY <4>1, <4>2
    <3>7. QED
      BY <1>2, <1>3, <3>1, <3>4, <3>5, <3>6 DEF CountInv, Producers
  <2>4. QED
    BY <1>1, <2>1, <2>2, <2>3
<1>13. QED
  BY <1>8, <1>9, <1>10, <1>11, <1>12

(* lock and unlock.                                                        *)
LEMMA UseMutexKeeps ==
  ASSUME ExamplesInv, NEW t \in Threads, UseMutex(t), UNCHANGED <<program, main, next>>
  PROVE  ExamplesInv'
<1> USE DEF ExamplesInv
<1>1. At(t, "lock") \/ At(t, "unlock")
  BY DEF UseMutex
<1>2. /\ ~Ended(t) /\ Continue(t)
      /\ UNCHANGED <<copy, counter, items, sem, ready, waiting, out>>
      /\ \/ program = "semaphore" /\ t \in Consumers /\ pc[t] \in {2, 4}
         \/ program = "semaphore" /\ t \in Producers /\ pc[t] \in {1, 3}
         \/ program \in {"safe_thread", "condition_variable"} /\ pc[t] \in {1, 3, 4}
      /\ program = "condition_variable" => pc[t] \in {1, 4}
  BY <1>1, AtIs DEF UseMutex
<1>3. TypeInv'
  <2>1. /\ copy' \in [AllThreads -> Nat] /\ counter' \in Nat /\ sem' \in Nat
        /\ items' \in Seq(AllThreads \X (1..Rounds)) /\ out' \in Seq(AllThreads \X (1..Rounds))
    BY <1>2 DEF TypeInv
  <2>2. QED
    BY <1>2, <2>1, TurnKeepsTypes
<1>4. JoinInv'
  BY <1>2, TurnKeepsJoin
<1>5. CountInv'
  BY <1>2, TurnKeepsCount
<1>6. MadeInv'
  <2>1. program \in Makers /\ t \in Producers => pc[t] # MakePoint
    BY <1>2 DEF MakePoint, Consumers
  <2>2. ~(program = "condition_variable" /\ pc[t] = 2)
    BY <1>2
  <2>3. QED
    BY <1>2, <2>1, <2>2, TurnKeepsMade
<1>7. SemInv'
  <2>1. CASE program = "semaphore"
    <3>1. /\ Cardinality(Holders)' = Cardinality(Holders)
          /\ Cardinality(Ahead)' = Cardinality(Ahead)
          /\ Cardinality(Acquired)' = Cardinality(Acquired)
          /\ Cardinality(Completed(Producers))' = Cardinality(Completed(Producers))
      BY <1>2, <2>1, TurnSemaphore
    <3>2. QED
      BY <1>2, <2>1, <3>1 DEF SemInv
  <2>2. CASE program # "semaphore"
    BY <1>2, <2>2 DEF SemInv
  <2>3. QED
    BY <2>1, <2>2
<1>8. QED
  BY <1>3, <1>4, <1>5, <1>6, <1>7

(* Something is made: pushed or printed.                                   *)
LEMMA MakeKeeps ==
  ASSUME TypeInv, MadeInv, NEW t \in Threads, ~Ended(t), Continue(t), t \in Producers,
         UNCHANGED <<program, main, ready>>, pc[t] = MakePoint, program \in Makers,
         program = "safe_thread" => main # "done",
         IF program \in {"safe_thread", "semaphore"}
           THEN items' = Append(items, Now(t)) /\ out' = out
           ELSE out' = Append(out, Now(t)) /\ items' = items
  PROVE  MadeInv'
<1> DEFINE Entries == AllThreads \X (1..Rounds)
<1>1. /\ t \in AllThreads /\ pc[t] \in 1..4 /\ round[t] \in 1..Rounds
      /\ pc' = [pc EXCEPT ![t] = IF LastStep(t) THEN 1 ELSE pc[t] + 1]
      /\ pc \in [AllThreads -> 1..4]
      /\ items \in Seq(Entries) /\ out \in Seq(Entries) /\ Now(t) \in Entries
  BY TurnIs DEF TypeInv, Now
<1>2. Elements(Made) = Pairs /\ Ordered(Made)
  BY DEF MadeInv
<1> HIDE DEF Entries
<1>3. Made \in Seq(Entries)
  <2>1. out \o items \in Seq(Entries)
    BY <1>1
  <2>2. QED
    BY <1>1, <2>1 DEF Made
<1>4. Made' = Append(Made, Now(t))
  <2>1. CASE program = "safe_thread"
    BY <2>1 DEF Made
  <2>2. CASE program = "semaphore"
    <3>1. out \o Append(items, Now(t)) = Append(out \o items, Now(t))
      BY <1>1, AppendBehind
    <3>2. QED
      BY <2>2, <3>1 DEF Made
  <2>3. CASE program \in {"condition_variable", "simple_thread"}
    <3>1. items = <<>>
      BY <2>3 DEF MadeInv
    <3>2. /\ \A s \in Seq(Entries) : s \o <<>> = s
          /\ Append(out, Now(t)) \in Seq(Entries)
      BY <1>1
    <3>3. QED
      BY <1>1, <2>3, <3>1, <3>2 DEF Made
  <2>4. QED
    BY <2>1, <2>2, <2>3 DEF Makers
<1>5. Pairs' = Pairs \union {Now(t)} /\ \A e \in Pairs : e[1] = t => e[2] < round[t]
  BY TurnCounts
<1>6. Now(t)[1] = t /\ Now(t)[2] = round[t]
  BY DEF Now
<1>7. Elements(Made)' = Pairs' /\ Ordered(Made)'
  <2>1. PICK m : m = Made
    OBVIOUS
  <2>2. \A x \in Elements(m) : x[1] = Now(t)[1] => x[2] < Now(t)[2]
    BY <1>2, <1>5, <1>6, <2>1
  <2>3. Ordered(Append(m, Now(t))) /\ Elements(Append(m, Now(t))) = Elements(m) \union {Now(t)}
    BY <1>1, <1>2, <1>3, <2>1, <2>2, AppendOrdered
  <2>4. PICK n : n = Made' /\ n = Append(m, Now(t))
    BY <1>4, <2>1
  <2>5. Ordered(Made)' <=> Ordered(n)
    BY <2>4 DEF Ordered
  <2>6. Elements(Made)' = Elements(n)
    BY <2>4 DEF Elements
  <2>7. QED
    BY <1>2, <1>5, <2>1, <2>3, <2>4, <2>5, <2>6
<1>8. ASSUME program = "condition_variable"
      PROVE  ready /\ \A u \in AllThreads : 2 < pc'[u] => ready'
  <2>1. pc[t] = 3
    BY <1>8 DEF MakePoint
  <2>2. QED
    BY <1>1, <1>8, <2>1 DEF MadeInv
<1>9. QED
  BY <1>7, <1>8 DEF MadeInv, Makers

(* push, pop and print.                                                    *)
LEMMA UseItemsKeeps ==
  ASSUME ExamplesInv, NEW t \in Threads, UseItems(t), UNCHANGED <<program, main, next>>
  PROVE  ExamplesInv'
<1> USE DEF ExamplesInv
<1> DEFINE Entries == AllThreads \X (1..Rounds)
<1>1. PICK step \in {"push", "pop", "print"} :
        /\ At(t, step)
        /\ step = "push" => items' = Append(items, Now(t)) /\ UNCHANGED out
        /\ step = "pop" => /\ items # <<>> /\ out' = Append(out, Head(items))
                           /\ items' = Tail(items)
        /\ step = "print" => out' = Append(out, Now(t)) /\ UNCHANGED items
  BY DEF UseItems, Now
<1>2. /\ ~Ended(t) /\ Continue(t) /\ UNCHANGED <<copy, counter, mtx, sem, ready, waiting>>
      /\ step = "push" => /\ program \in {"safe_thread", "semaphore"}
                          /\ t \in Producers /\ pc[t] = 2
      /\ step = "pop" => program = "semaphore" /\ t \in Consumers /\ pc[t] = 3
      /\ step = "print" => \/ program = "condition_variable" /\ pc[t] = 3
                           \/ program = "simple_thread" /\ pc[t] = 1
      /\ program \in Makers
  BY <1>1, AtIs DEF UseItems, Makers
<1>3. /\ items \in Seq(Entries) /\ out \in Seq(Entries) /\ Now(t) \in Entries
      /\ program # "semaphore" => t \in Producers
      /\ t \in Consumers => t \notin Producers
  BY <1>2, TurnIs, ThreadsAre DEF TypeInv, Now, Consumers
<1> HIDE DEF Entries
<1>4. items' \in Seq(Entries) /\ out' \in Seq(Entries)
  <2>1. CASE step = "push"
    BY <1>1, <1>3, <2>1
  <2>2. CASE step = "print"
    BY <1>1, <1>3, <2>2
  <2>3. CASE step = "pop"
    BY <1>1, <1>3, <2>3, MoveHead
  <2>4. QED
    BY <1>1, <2>1, <2>2, <2>3
<1>5. TypeInv'
  <2>1. copy' \in [AllThreads -> Nat] /\ counter' \in Nat /\ sem' \in Nat
    BY <1>2 DEF TypeInv
  <2>2. QED
    BY <1>2, <1>4, <2>1, TurnKeepsTypes DEF Entries
<1>6. JoinInv'
  BY <1>2, TurnKeepsJoin
<1>7. CountInv'
  BY <1>2, TurnKeepsCount DEF Makers
<1>8. main # "done"
  <2>1. t \in AllThreads
    BY ThreadsAre DEF TypeInv
  <2>2. QED
    BY <1>2 DEF JoinInv
<1>9. MadeInv'
  <2>1. CASE step \in {"push", "print"}
    <3>1. t \in Producers /\ pc[t] = MakePoint
      BY <1>2, <1>3, <2>1 DEF MakePoint
    <3>2. IF program \in {"safe_thread", "semaphore"}
            THEN items' = Append(items, Now(t)) /\ out' = out
            ELSE out' = Append(out, Now(t)) /\ items' = items
      BY <1>1, <1>2, <2>1
    <3>3. QED
      BY <1>2, <1>8, <3>1, <3>2, MakeKeeps
  <2>2. CASE step = "pop"
    <3>1. out' \o items' = out \o items
      <4>1. items # <<>> /\ out' = Append(out, Head(items)) /\ items' = Tail(items)
        BY <1>1, <2>2
      <4>2. Append(out, Head(items)) \o Tail(items) = out \o items
        BY <1>3, <4>1, MoveHead
      <4>3. QED
        BY <4>1, <4>2
    <3>2. Made' = Made /\ Pairs' = Pairs
      BY <1>2, <1>3, <2>2, <3>1, TurnCounts DEF Made
    <3>3. Elements(Made)' = Pairs' /\ Ordered(Made)'
      BY <1>2, <3>2 DEF MadeInv, Elements, Ordered
    <3>4. QED
      BY <1>2, <2>2, <3>3 DEF MadeInv
  <2>3. QED
    BY <1>1, <2>1, <2>2
<1>10. SemInv'
  <2>1. CASE step = "push" /\ program = "semaphore"
    <3>1. /\ Cardinality(Holders)' = Cardinality(Holders)
          /\ Cardinality(Ahead)' = Cardinality(Ahead) + 1
          /\ Cardinality(Acquired)' = Cardinality(Acquired)
          /\ Cardinality(Completed(Producers))' = Cardinality(Completed(Producers))
      BY <1>2, <2>1, TurnSemaphore
    <3>2. Len(items') = Len(items) + 1 /\ Len(items) \in Nat
      BY <1>1, <1>3, <2>1
    <3>3. QED
      BY <1>2, <2>1, <3>1, <3>2, CountedSets DEF SemInv, TypeInv
  <2>2. CASE step = "pop"
    <3>1. /\ Cardinality(Holders)' = Cardinality(Holders) - 1
          /\ Cardinality(Ahead)' = Cardinality(Ahead)
          /\ Cardinality(Acquired)' = Cardinality(Acquired)
          /\ Cardinality(Completed(Producers))' = Cardinality(Completed(Producers))
      BY <1>2, <2>2, TurnSemaphore
    <3>2. Len(items') = Len(items) - 1 /\ Len(items) \in Nat
      BY <1>1, <1>3, <2>2, MoveHead
    <3>3. /\ sem + Cardinality(Holders) + Cardinality(Ahead) = Len(items)
          /\ sem + Cardinality(Acquired) = Cardinality(Completed(Producers))
      BY <1>2, <2>2 DEF SemInv
    <3>4. sem \in Nat /\ Cardinality(Holders) \in Nat /\ Cardinality(Ahead) \in Nat
      BY CountedSets DEF TypeInv
    <3>5. sem + (Cardinality(Holders) - 1) + Cardinality(Ahead) = Len(items) - 1
      BY <3>3, <3>4
    <3>6. sem' = sem /\ program' = "semaphore"
      BY <1>2, <2>2
    <3>7. QED
      BY <3>1, <3>2, <3>3, <3>5, <3>6 DEF SemInv
  <2>3. CASE program # "semaphore"
    BY <1>2, <2>3 DEF SemInv
  <2>4. QED
    BY <1>1, <1>2, <2>1, <2>2, <2>3
<1>11. QED
  BY <1>5, <1>6, <1>7, <1>9, <1>10

(* release and acquire.                                                    *)
LEMMA UseSemaphoreKeeps ==
  ASSUME ExamplesInv, NEW t \in Threads, UseSemaphore(t), UNCHANGED <<program, main, next>>
  PROVE  ExamplesInv'
<1> USE DEF ExamplesInv
<1>1. PICK step \in {"release", "acquire"} :
        /\ At(t, step)
        /\ step = "release" => sem' = sem + 1
        /\ step = "acquire" => sem > 0 /\ sem' = sem - 1
  BY DEF UseSemaphore
<1>2. /\ ~Ended(t) /\ Continue(t)
      /\ UNCHANGED <<copy, counter, items, mtx, ready, waiting, out>>
      /\ step = "release" => t \in Producers /\ pc[t] = 4
      /\ step = "acquire" => t \in Consumers /\ pc[t] = 1
      /\ program = "semaphore"
  BY <1>1, AtIs DEF UseSemaphore
<1>3. sem \in Nat /\ sem' \in Nat
  BY <1>1 DEF TypeInv
<1>4. TypeInv'
  <2>1. /\ copy' \in [AllThreads -> Nat] /\ counter' \in Nat
        /\ items' \in Seq(AllThreads \X (1..Rounds)) /\ out' \in Seq(AllThreads \X (1..Rounds))
    BY <1>2 DEF TypeInv
  <2>2. QED
    BY <1>2, <1>3, <2>1, TurnKeepsTypes
<1>5. JoinInv' /\ CountInv'
  BY <1>2, TurnKeepsJoin, TurnKeepsCount
<1>6. MadeInv'
  <2>1. t \in Producers => pc[t] # MakePoint
    BY <1>1, <1>2 DEF MakePoint, Consumers
  <2>2. QED
    BY <1>2, <2>1, TurnKeepsMade
<1>7. SemInv'
  <2> DEFINE h == Cardinality(Holders)
             a == Cardinality(Ahead)
             q == Cardinality(Acquired)
             c == Cardinality(Completed(Producers))
  <2>1. h \in Nat /\ a \in Nat /\ q \in Nat /\ c \in Nat
    BY CountedSets
  <2>2. sem + h + a = Len(items) /\ sem + q = c
    BY <1>2 DEF SemInv
  <2>3. /\ step = "release" => h' = h /\ a' = a - 1 /\ q' = q /\ c' = c + 1
        /\ step = "acquire" => h' = h + 1 /\ a' = a /\ q' = q + 1 /\ c' = c
    BY <1>2, TurnSemaphore
  <2>4. Len(items') = Len(items) /\ program' = "semaphore"
    BY <1>2
  <2> HIDE DEF h, a, q, c
  <2>5. CASE step = "release"
    <3>1. (sem + 1) + h + (a - 1) = Len(items) /\ (sem + 1) + q = c + 1
      BY <1>3, <2>1, <2>2
    <3>2. sem' + h' + a' = Len(items') /\ sem' + q' = c'
      BY <1>1, <2>3, <2>4, <2>5, <3>1
    <3>3. QED
      BY <2>4, <3>2 DEF SemInv, h, a, q, c
  <2>6. CASE step = "acquire"
    <3>1. (sem - 1) + (h + 1) + a = Len(items) /\ (sem - 1) + (q + 1) = c
      BY <1>3, <2>1, <2>2
    <3>2. sem' + h' + a' = Len(items') /\ sem' + q' = c'
      BY <1>1, <2>3, <2>4, <2>6, <3>1
    <3>3. QED
      BY <2>4, <3>2 DEF SemInv, h, a, q, c
  <2>7. QED
    BY <1>1, <2>5, <2>6
<1>8. QED
  BY <1>4, <1>5, <1>6, <1>7

(* Where neither pc (but for waiting threads) nor round nor what is made   *)
(* changes, neither do the counts.                                         *)
LEMMA NothingMade ==
  ASSUME ExamplesInv, UNCHANGED <<program, round, copy, counter, items, sem, out>>,
         \/ pc' = pc
         \/ /\ program = "condition_variable"
            /\ \E t \in AllThreads : pc[t] <= 2 /\ pc' = [pc EXCEPT ![t] = 1]
  PROVE  /\ pc' \in [AllThreads -> 1..4] /\ \A t \in AllThreads : pc'[t] <= Len(Script(t)')
         /\ \A t \in AllThreads : Ended(t)' <=> Ended(t)
         /\ \A t \in AllThreads : Ended(t)' => pc'[t] = 1
         /\ \A t \in AllThreads : 2 < pc'[t] => 2 < pc[t]
         /\ Pairs' = Pairs
         /\ SemInv' /\ CountInv'
<1> USE DEF ExamplesInv
<1>1. /\ pc \in [AllThreads -> 1..4] /\ \A t \in AllThreads : pc[t] <= Len(Script(t))
      /\ \A t \in AllThreads : Ended(t) => pc[t] = 1
      /\ Producers \subseteq AllThreads /\ Consumers \subseteq AllThreads
  BY ThreadsAre DEF TypeInv
<1>2. \A t \in AllThreads : Ended(t)' <=> Ended(t)
  BY SameProgram DEF Ended
<1>3. CASE pc' = pc
  <2>1. Pairs' = Pairs
    BY <1>3, SameProgram DEF Pairs, Producers
  <2>2. SemInv'
    BY <1>3, SameProgram
       DEF SemInv, Holders, Ahead, Acquired, Completed, Consumers, AllThreads, Producers
  <2>3. CountInv'
    <3>1. Counted' = Counted
      BY SameProgram DEF Counted, Completed, Producers
    <3>2. \A t \in Producers : Ended(t)' <=> Ended(t)
      BY <1>1, <1>2
    <3>3. QED
      BY <1>3, <3>1, <3>2 DEF CountInv, Producers
  <2>4. QED
    BY <1>1, <1>2, <1>3, <2>1, <2>2, <2>3, SameProgram
<1>4. CASE /\ program = "condition_variable"
           /\ \E t \in AllThreads : pc[t] <= 2 /\ pc' = [pc EXCEPT ![t] = 1]
  <2>1. PICK t \in AllThreads : pc[t] <= 2 /\ pc' = [pc EXCEPT ![t] = 1]
    BY <1>4
  <2>2. pc'[t] = 1 /\ \A u \in AllThreads : u # t => pc'[u] = pc[u]
    BY <1>1, <2>1
  <2>3. \A u \in AllThreads : Len(Script(u)) = 4
    BY <1>4, ScriptIs DEF Programs
  <2>4. pc' \in [AllThreads -> 1..4] /\ \A u \in AllThreads : pc'[u] <= Len(Script(u)')
    BY <1>1, <2>1, <2>2, <2>3, SameProgram
  <2>5. \A u \in AllThreads : Ended(u)' => pc'[u] = 1
    BY <1>1, <1>2, <2>2
  <2>6. \A u \in AllThreads : 2 < pc'[u] => 2 < pc[u]
    BY <2>2
  <2>7. Pairs' = Pairs
    <3>1. MakePoint = 3 /\ MakePoint' = 3 /\ Rounds' = Rounds
      BY <1>4, SameProgram DEF MakePoint
    <3>2. \A u \in AllThreads : 3 < pc'[u] <=> 3 < pc[u]
      BY <1>1, <2>1, <2>2
    <3>3. \A e \in Producers \X (1..Rounds) : e[1] \in AllThreads
      BY <1>1
    <3>4. QED
      BY <3>1, <3>2, <3>3 DEF Pairs, Producers
  <2>8. SemInv' /\ CountInv'
    BY <1>4 DEF SemInv, CountInv
  <2>9. QED
    BY <1>2, <2>4, <2>5, <2>6, <2>7, <2>8
<1>5. QED
  BY <1>3, <1>4

(* while (!ready) cv.wait(lock).                                           *)
LEMMA AwaitKeeps ==
  ASSUME ExamplesInv, NEW t \in Threads, Await(t), UNCHANGED <<program, main, next>>
  PROVE  ExamplesInv'
<1>1. /\ At(t, "await") /\ ~Ended(t) /\ program = "condition_variable" /\ pc[t] = 2
      /\ UNCHANGED <<copy, counter, items, sem, ready, out>>
  BY AtIs DEF Await, ExamplesInv
<1>2. CASE ready /\ Continue(t)
  <2> USE DEF ExamplesInv
  <2>1. TypeInv'
    <3>1. /\ copy' \in [AllThreads -> Nat] /\ counter' \in Nat /\ sem' \in Nat
          /\ items' \in Seq(AllThreads \X (1..Rounds)) /\ out' \in Seq(AllThreads \X (1..Rounds))
      BY <1>1 DEF TypeInv
    <3>2. QED
      BY <1>1, <1>2, <3>1, TurnKeepsTypes
  <2>2. JoinInv' /\ CountInv'
    BY <1>1, <1>2, TurnKeepsJoin, TurnKeepsCount
  <2>3. MadeInv'
    <3>1. pc[t] # MakePoint
      BY <1>1 DEF MakePoint
    <3>2. QED
      BY <1>1, <1>2, <3>1, TurnKeepsMade
  <2>4. SemInv'
    BY <1>1 DEF SemInv
  <2>5. QED
    BY <2>1, <2>2, <2>3, <2>4
<1>3. CASE pc' = [pc EXCEPT ![t] = 1] /\ round' = round
  <2>1. t \in AllThreads
    BY ThreadsAre DEF ExamplesInv, TypeInv
  <2>2. /\ pc' \in [AllThreads -> 1..4] /\ \A u \in AllThreads : pc'[u] <= Len(Script(u)')
        /\ \A u \in AllThreads : Ended(u)' <=> Ended(u)
        /\ \A u \in AllThreads : Ended(u)' => pc'[u] = 1
        /\ \A u \in AllThreads : 2 < pc'[u] => 2 < pc[u]
        /\ Pairs' = Pairs
        /\ SemInv' /\ CountInv'
    <3>1. \E u \in AllThreads : pc[u] <= 2 /\ pc' = [pc EXCEPT ![u] = 1]
      <4>1. pc[t] <= 2
        BY <1>1
      <4>2. QED
        BY <1>3, <2>1, <4>1, Zenon
    <3>2. UNCHANGED <<program, round, copy, counter, items, sem, out>>
      BY <1>1, <1>3
    <3>3. QED
      BY <1>1, <3>1, <3>2, NothingMade
  <2>3. TypeInv'
    BY <1>1, <1>3, <2>2, SameProgram DEF ExamplesInv, TypeInv
  <2>4. JoinInv'
    BY <1>1, <2>2, SameProgram, ThreadsAre DEF ExamplesInv, TypeInv, JoinInv
  <2>5. MadeInv'
    <3>1. Made' = Made
      BY <1>1 DEF Made
    <3>2. Elements(Made)' = Pairs' /\ Ordered(Made)'
      BY <1>1, <2>2, <3>1 DEF ExamplesInv, MadeInv, Elements, Ordered, Makers
    <3>3. QED
      BY <1>1, <2>2, <3>2 DEF ExamplesInv, MadeInv
  <2>6. QED
    BY <2>2, <2>3, <2>4, <2>5 DEF ExamplesInv
<1>4. QED
  BY <1>2, <1>3 DEF Await

-----------------------------------------------------------------------------
(* Main.                                                                   *)
LEMMA MainKeeps ==
  ASSUME ExamplesInv, MainStep
  PROVE  ExamplesInv'
<1>1. UNCHANGED <<program, pc, round, copy, counter, sem, woken>>
  BY DEF MainStep, threadVars
<1>2. items' = items
  BY DEF MainStep, CreateThread, Go, JoinThread
<1>3. /\ Threads = 1..LastOne /\ Cardinality(Threads) = LastOne /\ LastOne \in Nat \ {0}
      /\ Threads \subseteq AllThreads
  BY ThreadsAre DEF ExamplesInv, TypeInv
<1>4. /\ main \in {"create", "go", "set", "notify", "unlock", "join", "done"}
      /\ next \in 1..LastOne
  BY DEF ExamplesInv, TypeInv
<1>5. \/ /\ main \notin {"join", "done"} /\ main' # "done"
         /\ main' \in {"go", "set", "notify", "unlock", "join"} => next' = 1
         /\ out' = out /\ next' \in 1..LastOne /\ (ready => ready')
      \/ /\ main = "join" /\ main' = "join" /\ next' = next + 1 /\ Ended(next)
         /\ next' \in 1..LastOne /\ out' = out /\ ready' = ready
      \/ /\ main = "join" /\ main' = "done" /\ next' = next /\ Ended(next) /\ next = LastOne
         /\ out' = (IF program = "safe_thread" THEN items ELSE out)
         /\ ready' = ready
  <2>1. CASE CreateThread
    <3>1. main = "create" /\ out' = out /\ ready' = ready
      BY <2>1 DEF CreateThread
    <3>2. CASE next = LastOne
      BY <1>3, <2>1, <3>1, <3>2 DEF CreateThread, LastThread
    <3>3. CASE next # LastOne
      <4>1. next' = next + 1 /\ main' = "create"
        BY <1>3, <2>1, <3>1, <3>3 DEF CreateThread, LastThread
      <4>2. next + 1 \in 1..LastOne
        BY <1>3, <1>4, <3>3
      <4>3. QED
        BY <3>1, <4>1, <4>2
    <3>4. QED
      BY <3>2, <3>3
  <2>2. CASE Go
    <3>1. main \in {"go", "set", "notify", "unlock"} /\ next = 1
      BY <2>2 DEF Go, ExamplesInv, JoinInv
    <3>2. QED
      BY <1>3, <1>4, <2>2, <3>1 DEF Go
  <2>3. CASE JoinThread
    <3>1. main = "join" /\ Ended(next) /\ ready' = ready
      BY <2>3 DEF JoinThread, Joins
    <3>2. CASE next = LastOne
      BY <1>3, <2>3, <3>1, <3>2 DEF JoinThread, LastThread
    <3>3. CASE next # LastOne
      <4>1. next' = next + 1 /\ main' = "join" /\ out' = out
        BY <1>3, <2>3, <3>1, <3>3 DEF JoinThread, LastThread
      <4>2. next + 1 \in 1..LastOne
        BY <1>3, <1>4, <3>3
      <4>3. QED
        BY <3>1, <4>1, <4>2
    <3>4. QED
      BY <3>2, <3>3
  <2>4. QED
    BY <2>1, <2>2, <2>3 DEF MainStep
<1>6. main # "done" /\ main' \in {"create", "go", "set", "notify", "unlock", "join", "done"}
      /\ next' \in 1..LastOne
  <2>1. main' \in {"create", "go", "set", "notify", "unlock", "join", "done"}
    BY <1>4 DEF MainStep, CreateThread, Go, JoinThread
  <2>2. QED
    BY <1>4, <1>5, <2>1
<1>7. out' \in Seq(AllThreads \X (1..Rounds))
  <2>1. /\ out \in Seq(AllThreads \X (1..Rounds)) /\ items \in Seq(AllThreads \X (1..Rounds))
    BY DEF ExamplesInv, TypeInv
  <2>2. QED
    BY <1>5, <2>1
<1>8. \A t \in AllThreads : Ended(t)' <=> Ended(t)
  BY <1>1, SameProgram DEF Ended
<1>9. TypeInv'
  BY <1>1, <1>2, <1>6, <1>7, <1>8, SameProgram DEF ExamplesInv, TypeInv
<1>10. SemInv' /\ CountInv'
  <2>1. SemInv'
    BY <1>1, <1>2, SameProgram
       DEF ExamplesInv, SemInv, Holders, Ahead, Acquired, Completed, Consumers, AllThreads,
           Producers
  <2>2. Counted' = Counted
    BY <1>1, SameProgram DEF Counted, Completed, Producers
  <2>3. \A t \in Producers : Ended(t)' <=> Ended(t)
    BY <1>8, ThreadsAre DEF ExamplesInv, TypeInv
  <2>4. CountInv'
    BY <1>1, <2>2, <2>3 DEF ExamplesInv, CountInv, Producers
  <2>5. QED
    BY <2>1, <2>4
<1>11. JoinInv'
  <2>1. ASSUME NEW t \in Threads, main' = "join", t < next'
        PROVE  Ended(t)
    <3>1. t \in Nat /\ next \in Nat /\ t >= 1
      BY <1>3, <1>4
    <3>2. CASE main = "join" /\ next' = next + 1 /\ Ended(next)
      BY <2>1, <3>1, <3>2 DEF ExamplesInv, JoinInv
    <3>3. QED
      BY <1>5, <2>1, <3>1, <3>2
  <2>2. ASSUME NEW t \in Threads, main' = "done"
        PROVE  Ended(t)
    <3>1. main = "join" /\ Ended(next) /\ next = LastOne
      BY <1>5, <2>2
    <3>2. t = next \/ t < next
      BY <1>3, <3>1
    <3>3. QED
      BY <3>1, <3>2 DEF ExamplesInv, JoinInv
  <2>3. main' \in {"go", "set", "notify", "unlock"} => next' = 1
    BY <1>5
  <2>4. QED
    BY <1>1, <1>3, <1>8, <2>1, <2>2, <2>3, SameProgram DEF JoinInv
<1>12. MadeInv'
  <2>1. program \in Makers => Made' = Made
    BY <1>1, <1>2, <1>5 DEF Made
  <2>2. Pairs' = Pairs
    BY <1>1, SameProgram DEF Pairs, Producers
  <2>3. program \in Makers => Elements(Made)' = Pairs' /\ Ordered(Made)'
    BY <2>1, <2>2 DEF ExamplesInv, MadeInv, Elements, Ordered
  <2>4. program = "safe_thread" => out' = IF main' = "done" THEN items' ELSE <<>>
    BY <1>2, <1>5, <1>6 DEF ExamplesInv, MadeInv
  <2>5. program = "condition_variable" => out' = out /\ (ready => ready')
    BY <1>5
  <2>6. QED
    BY <1>1, <1>2, <2>3, <2>4, <2>5 DEF ExamplesInv, MadeInv
<1>13. QED
  BY <1>9, <1>10, <1>11, <1>12 DEF ExamplesInv

-----------------------------------------------------------------------------
(* The theorems.                                                           *)

(* Every program begins in ExamplesInv.                                    *)
LEMMA ExamplesInit == Init => ExamplesInv
<1> SUFFICES ASSUME Init
             PROVE  ExamplesInv
  OBVIOUS
<1> USE DEF Init
<1>1. /\ LastOne \in Nat \ {0} /\ Rounds \in Nat \ {0} /\ Producers \subseteq AllThreads
      /\ Consumers \subseteq AllThreads
  BY ThreadsAre
<1>2. \A t \in AllThreads : pc[t] = 1 /\ round[t] = 1 /\ ~Ended(t)
  BY <1>1 DEF Ended
<1>3. \A t : Len(Script(t)) \in 1..4
  BY ScriptIs DEF Programs
<1>4. TypeInv
  <2>1. pc \in [AllThreads -> 1..4] /\ copy \in [AllThreads -> Nat]
    OBVIOUS
  <2>2. round \in [AllThreads -> 1..Rounds + 1] /\ next \in 1..LastOne
    BY <1>1
  <2>3. ASSUME NEW t \in AllThreads
        PROVE  pc[t] <= Len(Script(t))
    <3>1. pc[t] = 1
      BY <1>2
    <3>2. PICK n \in 1..4 : n = Len(Script(t))
      BY <1>3
    <3>3. 1 <= n
      BY <3>2
    <3>4. QED
      BY <3>1, <3>2, <3>3
  <2>4. QED
    BY <1>2, <2>1, <2>2, <2>3 DEF TypeInv
<1>5. JoinInv
  BY DEF JoinInv
<1>6. Completed(Producers) = {} /\ Acquired = {} /\ Pairs = {} /\ Holders = {} /\ Ahead = {}
  <2>1. ASSUME NEW e \in AllThreads \X (1..Rounds)
        PROVE  ~(e[2] < round[e[1]]) /\ pc[e[1]] = 1
    BY <1>2
  <2>2. Completed(Producers) = {}
    BY <1>1, <2>1 DEF Completed
  <2>3. Acquired = {}
    BY <1>1, <2>1 DEF Acquired
  <2>4. Pairs = {}
    <3>1. ~(MakePoint < 1)
      BY DEF MakePoint
    <3>2. QED
      BY <1>1, <2>1, <3>1 DEF Pairs
  <2>5. Holders = {} /\ Ahead = {}
    BY <1>1, <1>2 DEF Holders, Ahead
  <2>6. QED
    BY <2>2, <2>3, <2>4, <2>5
<1>7. Counted = 0 /\ SemInv
  BY <1>6, FS_EmptySet DEF Counted, SemInv
<1>8. CountInv
  <2>1. \E t \in Producers : ~Ended(t)
    <3>1. 1 \in Producers
      BY ExampleAssumption DEF Producers
    <3>2. QED
      BY <1>1, <1>2, <3>1
  <2>2. \A t \in Producers : copy[t] = 0 /\ round[t] = 1
    BY <1>1
  <2>3. QED
    BY <1>7, <2>1, <2>2 DEF CountInv
<1>9. MadeInv
  <2>1. Made = <<>> /\ Len(Made) = 0
    BY DEF Made
  <2>2. Elements(Made) = {} /\ Ordered(Made)
    BY <2>1 DEF Elements, Ordered
  <2>3. QED
    BY <1>2, <1>6, <2>2 DEF MadeInv
<1>10. QED
  BY <1>4, <1>5, <1>7, <1>8, <1>9 DEF ExamplesInv

(* Every step keeps ExamplesInv.                                           *)
LEMMA ExamplesNext == ExamplesInv /\ [Next]_vars => ExamplesInv'
<1> SUFFICES ASSUME ExamplesInv, [Next]_vars
             PROVE  ExamplesInv'
  OBVIOUS
<1>1. CASE MainStep
  BY <1>1, MainKeeps
<1>2. ASSUME NEW t \in AllThreads, ThreadStep(t)
      PROVE  ExamplesInv'
  <2>1. t \in Threads /\ UNCHANGED <<program, main, next>>
    BY <1>2 DEF ThreadStep, mainVars
  <2>2. Count(t) \/ UseMutex(t) \/ UseItems(t) \/ UseSemaphore(t) \/ Await(t)
    BY <1>2 DEF ThreadStep
  <2>3. QED
    BY <2>1, <2>2, CountKeeps, UseMutexKeeps, UseItemsKeeps, UseSemaphoreKeeps, AwaitKeeps
<1>3. CASE UNCHANGED <<program, main, next, pc, round, copy, counter, items, sem, ready, out>>
  <2>1. /\ pc' \in [AllThreads -> 1..4] /\ \A t \in AllThreads : pc'[t] <= Len(Script(t)')
        /\ \A t \in AllThreads : Ended(t)' <=> Ended(t)
        /\ \A t \in AllThreads : Ended(t)' => pc'[t] = 1
        /\ Pairs' = Pairs /\ SemInv' /\ CountInv'
    BY <1>3, NothingMade
  <2>2. TypeInv'
    BY <1>3, <2>1, SameProgram DEF ExamplesInv, TypeInv
  <2>3. JoinInv'
    BY <1>3, <2>1, SameProgram, ThreadsAre DEF ExamplesInv, TypeInv, JoinInv
  <2>4. Made' = Made
    BY <1>3 DEF Made
  <2>5. MadeInv'
    BY <1>3, <2>1, <2>4 DEF ExamplesInv, MadeInv, Elements, Ordered
  <2>6. QED
    BY <2>1, <2>2, <2>3, <2>5 DEF ExamplesInv
<1>4. ASSUME NEW t \in AllThreads, SpuriousWakeup(t)
      PROVE  ExamplesInv'
  BY <1>3, <1>4 DEF SpuriousWakeup, mainVars, threadVars
<1>5. CASE Terminated \/ UNCHANGED vars
  BY <1>3, <1>5 DEF Terminated, vars, mainVars, threadVars
<1>6. QED
  BY <1>1, <1>2, <1>4, <1>5 DEF Next

(* The states of the example programs satisfy ExamplesInv.                 *)
THEOREM ExamplesInvariant == Spec => []ExamplesInv
  BY ExamplesInit, ExamplesNext, PTL DEF Spec

(* semaphore.cpp: there is an item for every permit, so that front() is    *)
(* never called on an empty queue, for any number of threads.              *)
THEOREM PermitsCoverItems == Spec => []ItemForEveryPermit
<1>1. ASSUME ExamplesInv
      PROVE  ItemForEveryPermit
  <2> DEFINE S == {t \in Threads : At(t, "pop") \/ (t \notin Producers /\ At(t, "lock"))}
  <2>1. /\ sem \in Nat /\ Len(items) \in Nat /\ Threads \subseteq AllThreads
        /\ program # "semaphore" => Threads = Producers
    BY <1>1, ThreadsAre DEF ExamplesInv, TypeInv
  <2>2. ASSUME NEW t \in S
        PROVE  program = "semaphore" /\ t \in Holders
    <3>1. t \in Threads /\ (At(t, "pop") \/ (t \notin Producers /\ At(t, "lock")))
      BY <2>2
    <3>2. CASE At(t, "pop")
      BY <1>1, <3>1, <3>2, AtIs DEF ExamplesInv, Holders
    <3>3. CASE t \notin Producers /\ At(t, "lock")
      BY <1>1, <2>1, <3>1, <3>3, AtIs DEF ExamplesInv, Holders
    <3>4. QED
      BY <3>1, <3>2, <3>3
  <2>3. CASE program = "semaphore"
    <3>1. S \subseteq Holders
      BY <2>2
    <3>2. /\ IsFiniteSet(Holders) /\ Cardinality(Holders) \in Nat /\ Cardinality(Ahead) \in Nat
      BY <1>1, CountedSets DEF ExamplesInv
    <3>3. Cardinality(S) <= Cardinality(Holders) /\ Cardinality(S) \in Nat
      <4> HIDE DEF S
      <4>1. IsFiniteSet(S) /\ Cardinality(S) <= Cardinality(Holders)
        BY <3>1, <3>2, FS_Subset
      <4>2. QED
        BY <4>1, FS_CardinalityType
    <3>4. sem + Cardinality(Holders) + Cardinality(Ahead) = Len(items)
      BY <1>1, <2>3 DEF ExamplesInv, SemInv
    <3>5. sem + Cardinality(S) <= Len(items)
      <4> HIDE DEF S
      <4>1. QED
        BY <2>1, <3>2, <3>3, <3>4
    <3>6. QED
      BY <3>5 DEF ItemForEveryPermit
  <2>4. CASE program # "semaphore"
    <3>1. S = {}
      BY <2>2, <2>4
    <3>2. Cardinality(S) = 0
      BY <3>1, FS_EmptySet
    <3>3. sem = 0
      BY <1>1, <2>4 DEF ExamplesInv, SemInv
    <3>4. QED
      BY <2>1, <3>2, <3>3 DEF ItemForEveryPermit
  <2>5. QED
    BY <2>3, <2>4
<1>2. QED
  BY <1>1, ExamplesInvariant, PTL

(* At the end every iteration has been completed.                          *)
LEMMA AllCompleted ==
  ASSUME ExamplesInv, main = "done"
  PROVE  /\ \A t \in Threads : Ended(t)
         /\ Pairs = Producers \X (1..Rounds)
         /\ Cardinality(Completed(Producers)) = NumThreads * Rounds
         /\ program = "semaphore" => Cardinality(Acquired) = NumThreads * Rounds
                                     /\ Holders = {} /\ Ahead = {}
<1>1. /\ \A t \in Threads : Ended(t) /\ pc[t] = 1 /\ round[t] \in Nat /\ Rounds < round[t]
      /\ Rounds \in Nat /\ Producers \subseteq Threads
      /\ program = "semaphore" => Threads = AllThreads /\ Consumers \subseteq Threads
  <2>1. \A t \in Threads : Ended(t)
    BY DEF ExamplesInv, JoinInv
  <2>2. QED
    BY <2>1, ThreadsAre DEF ExamplesInv, TypeInv, Ended
<1>2. Pairs = Producers \X (1..Rounds) /\ Completed(Producers) = Producers \X (1..Rounds)
  <2>1. \A e \in Producers \X (1..Rounds) : e[2] < round[e[1]]
    BY <1>1
  <2>2. QED
    BY <2>1 DEF Pairs, Completed
<1>3. /\ IsFiniteSet(1..Rounds) /\ Cardinality(1..Rounds) = Rounds
  BY <1>1, FS_Interval
<1>4. /\ IsFiniteSet(Producers) /\ Cardinality(Producers) = NumThreads
      /\ IsFiniteSet(Consumers)
      /\ program = "semaphore" => Cardinality(Consumers) = NumThreads
  BY ThreadsAre DEF ExamplesInv, TypeInv
<1>5. Cardinality(Producers \X (1..Rounds)) = NumThreads * Rounds
  <2>1. Cardinality(Producers \X (1..Rounds)) = Cardinality(Producers) * Cardinality(1..Rounds)
    BY <1>3, <1>4, FS_Product, Zenon
  <2>2. QED
    BY <1>3, <1>4, <2>1, Zenon
<1>6. ASSUME program = "semaphore"
      PROVE  Cardinality(Acquired) = NumThreads * Rounds /\ Holders = {} /\ Ahead = {}
  <2>1. \A e \in Consumers \X (1..Rounds) : e[2] < round[e[1]]
    BY <1>1, <1>6
  <2>2. Acquired = Consumers \X (1..Rounds)
    BY <2>1 DEF Acquired
  <2>3. Cardinality(Consumers \X (1..Rounds)) = NumThreads * Rounds
    <3>1. Cardinality(Consumers \X (1..Rounds))
             = Cardinality(Consumers) * Cardinality(1..Rounds)
      BY <1>3, <1>4, FS_Product, Zenon
    <3>2. QED
      BY <1>3, <1>4, <1>6, <3>1, Zenon
  <2>4. QED
    BY <1>1, <1>6, <2>2, <2>3 DEF Holders, Ahead
<1>7. QED
  BY <1>1, <1>2, <1>5, <1>6

(* No iteration, item or line is lost or done twice, whatever the          *)
(* scheduling, and nobody prints before the start signal.                  *)
THEOREM NothingIsLost == Spec => []NothingLost
<1>1. ASSUME ExamplesInv
      PROVE  NothingLost
  <2>1. program = "condition_variable" /\ out # <<>> => ready
    BY <1>1 DEF ExamplesInv, MadeInv
  <2>2. ASSUME main = "done", program \in Makers
        PROVE  /\ Elements(out) = Producers \X (1..Rounds) /\ Ordered(out)
    <3>1. Elements(Made) = Producers \X (1..Rounds) /\ Ordered(Made)
      BY <1>1, <2>2, AllCompleted DEF ExamplesInv, MadeInv
    <3>2. /\ items \in Seq(AllThreads \X (1..Rounds)) /\ out \in Seq(AllThreads \X (1..Rounds))
          /\ sem \in Nat
      BY <1>1 DEF ExamplesInv, TypeInv
    <3>3. CASE program = "safe_thread"
      BY <1>1, <2>2, <3>1, <3>3 DEF ExamplesInv, MadeInv, Made
    <3>4. CASE program # "safe_thread"
      <4>1. items = <<>>
        <5>1. CASE program = "semaphore"
          <6>1. /\ sem + Cardinality(Holders) + Cardinality(Ahead) = Len(items)
                /\ sem + Cardinality(Acquired) = Cardinality(Completed(Producers))
            BY <1>1, <5>1 DEF ExamplesInv, SemInv
          <6>2. /\ Cardinality(Acquired) = Cardinality(Completed(Producers))
                /\ Cardinality(Acquired) \in Nat /\ Holders = {} /\ Ahead = {}
            BY <1>1, <2>2, <5>1, AllCompleted, CountedSets DEF ExamplesInv
          <6>3. Cardinality(Holders) = 0 /\ Cardinality(Ahead) = 0
            BY <6>2, FS_EmptySet
          <6>4. sem = 0
            BY <3>2, <6>1, <6>2
          <6>5. Len(items) = 0
            BY <6>1, <6>3, <6>4
          <6>6. QED
            BY <3>2, <6>5
        <5>2. CASE program # "semaphore"
          BY <1>1, <2>2, <3>4, <5>2 DEF ExamplesInv, MadeInv, Makers
        <5>3. QED
          BY <5>1, <5>2
      <4>2. Made = out
        <5>1. out \o <<>> = out
          BY <3>2
        <5>2. QED
          BY <3>4, <4>1, <5>1 DEF Made
      <4>3. QED
        BY <3>1, <4>2
    <3>5. QED
      BY <3>3, <3>4
  <2>3. main = "done" => \A t \in Threads : Ended(t)
    BY <1>1, AllCompleted
  <2>4. QED
    BY <2>1, <2>2, <2>3 DEF NothingLost, Elements, Ordered
<1>2. QED
  BY <1>1, ExamplesInvariant, PTL

(* The atomic counter ends at the number of increments; the plain one      *)
(* between 2 and that number.                                              *)
THEOREM CountersEndRight == Spec => []CounterAtEnd
<1>1. ASSUME ExamplesInv
      PROVE  CounterAtEnd
  <2> SUFFICES ASSUME main = "done"
               PROVE  /\ program = "safe_atomic" => counter = NumThreads * NumRounds
                      /\ program = "unsafe_atomic" /\ NumThreads > 1 /\ NumRounds > 1 =>
                           2 <= counter /\ counter <= NumThreads * NumRounds
    BY DEF CounterAtEnd
  <2>1. /\ Counted = NumThreads * Rounds /\ \A t \in Producers : Ended(t)
        /\ program \in {"safe_atomic", "unsafe_atomic"} => Rounds = NumRounds
        /\ counter \in Nat
    BY <1>1, AllCompleted, ThreadsAre DEF Counted, ExamplesInv, TypeInv, Rounds
  <2>2. program = "safe_atomic" => counter = NumThreads * NumRounds
    BY <1>1, <2>1 DEF ExamplesInv, CountInv
  <2>3. ASSUME program = "unsafe_atomic", NumThreads > 1, NumRounds > 1
        PROVE  2 <= counter /\ counter <= NumThreads * NumRounds
    <3>1. counter <= Counted /\ counter >= 2
      BY <1>1, <2>1, <2>3 DEF ExamplesInv, CountInv
    <3>2. QED
      BY <2>1, <2>3, <3>1
  <2>4. QED
    BY <2>2, <2>3
<1>2. QED
  BY <1>1, ExamplesInvariant, PTL

=============================================================================
