# Verification of rob320

TLA+ models of the two laboratories of this repository, the TLC runs that check
them on small instances and the TLAPS proofs of their central theorems.

* `Lab4/` is C++20: a thread pool, a path planner and a matrix multiplication
  that use it, and a few self-contained threading examples.
* `Lab3/` is C: a discovery server, a log (a user who can be written to) and a
  chat (a user who writes), three programs that talk over TCP.

## 1. Inventory

| Component | State it keeps | Operations | What makes it correct |
|---|---|---|---|
| Thread pool, `Lab4/thread_pool.hpp` | queue of tasks, `stop`, mutex, condition variable, threads | constructor, `enqueue`, worker loop, destructor | every task executed exactly once, started in order; no wake-up lost; the destructor drains the queue and returns |
| Concurrent planning, `Lab4/path_planning.cpp` | the map; paths queue, mutex, semaphore, `threads_finished` | task, collecting loop, `update_map_with_path`, `main` in modes INPUT, RANDOM, SINGLE | every path found is drawn once; drawing disturbs no search; nothing is used after its destruction; the map printed is right; the program ends |
| A* search, `Lab4/path_planning.hpp` | priority queue, visited map | `read_map`, `find_path`, `get_neighbors` | a shortest path if there is one; no exception; it ends |
| Matrix multiplication, `Lab4/matmul.cpp` | the result matrix | `multiply_naive`, `multiply_fast`, `matrix_multiply_task`, `multiply_threads`, `multiply_thread_pool` | result complete on return, no write afterwards, additions in the order of `multiply_naive` |
| Benchmark and helpers, `Lab4/matmul.cpp` | none | `compare_matrices`, `main`, `test_multiply_speeds`; printing, random matrices, timing | every comparison passes and the program ends |
| Discovery server, `Lab3/discovery.c` | table of 32 users, `ctrl_c_pressed` | accept loop, three handlers | table follows registrations; it stays up, and can be started again |
| Log, `Lab3/log.c` | its phase, `ctrl_c_pressed` | register, accept and print, deregister | prints what it is sent, once; deregisters when stopped |
| Chat, `Lab3/chat.c` | copy of the table | request, choose, send | comes to an end, whoever it waits for has gone |
| Transfer loops, `Lab3/util.h` | `bytes_sent`, `bytes_read`, buffer | `send_/recv_/accept_/connect_until_success` | a message arrives whole or the receiver fails |
| Message formats, `Lab3/messages.h` | none | casts, `print_chatters` | the fields the protocol decides on are part of `ChatService` |
| Examples, `Lab4/examples/` | a counter, a vector, a queue with a semaphore, a flag with a condition variable | one thread function each, `main` | nothing is lost but what the unsafe versions lose; they end |
| `public_ip.c`, `map_to_png.py`, `png_to_map.py` | – | – | not modelled (section 8) |

How they interact. `path_planning.cpp` and `matmul.cpp` hand tasks to a
`ThreadPool` by `enqueue`; tasks and caller share memory through `std::ref`. The
planner's tasks answer through a queue, a mutex and a semaphore; the matrix
tasks answer by writing to rows of a matrix that belongs to their caller, who
awaits them only by the pool's destructor. All plans read one map, which the
collecting loop writes. In Lab3 every interaction is one TCP connection that
carries one message: log to discovery (register, deregister), chat to discovery
(request, and the table in return), chat to log (the text). A server serves one
connection at a time; the others wait in the kernel's backlog. SIGINT sets
`ctrl_c_pressed` in a server and kills a chat.

What is hard. The wake-ups of the pool and its shutdown; the collecting loop,
where permits and paths are counted apart and shared objects die before the pool
does; the unlocked map; the label that wraps round; order and lifetime in the
matrix product; in Lab3 the clients that hang up, Ctrl-C at any point, the order
of two connections of one log, stale copies of the table, a server that is
started again without its table, one slow client in front of all others.
`PROJECT.json` lists each hazard at its line, with the properties that watch it
or the reason why none does.

## 2. Modules

| Module | Models | Built on |
|---|---|---|
| `TaskPool` | what `ThreadPool` promises a client | – |
| `TaskPoolProofs` | what a client may rely on, cited by the proofs of both clients | `TaskPool` |
| `ThreadPool` | `thread_pool.hpp`, one action per lock, unlock, wait, notify, join | refines `TaskPool` |
| `ThreadPoolProofs` | theorems about it | `ThreadPool` |
| `PathPlanning` | `path_planning.cpp`, all three modes, and `read_map` | `TaskPool` |
| `PathPlanningProofs` | theorems about it | `PathPlanning`, `TaskPoolProofs` |
| `PathPlanner` | `find_path` of `path_planning.hpp` | – |
| `PathPlannerProofs` | theorems about it | `PathPlanner` |
| `MatMul` | `matmul.cpp`: the four multiplications, `main` and the benchmark's calls | `TaskPool` |
| `MatMulProofs` | theorems about it | `MatMul`, `TaskPoolProofs` |
| `Examples` | six programs of `Lab4/examples` | – |
| `ExamplesProofs` | theorems about them | `Examples` |
| `Transfer` | the loops of `util.h` around `send` and `recv`, byte by byte | – |
| `TransferProofs` | theorems about it | `Transfer` |
| `Messenger` | what the three programs of Lab3 promise their users | – |
| `ChatService` | discovery, logs and chats, signals, crash and restart | refines `Messenger` (uses the result of `Transfer`) |
| `ChatServiceProofs` | theorems about it, and the refinement | `ChatService` |
| `MC...` | instances for TLC | the module they are named after |

Definitions whose comments call them mutants stand before the definition they
are a wrong version of. They are used by no specification: exchanged for the
original, each makes one of the properties fail, and `PROJECT.json` says which.

### ThreadPool
One worker is at one of the lines of `worker_thread` (`pc`), the client at one
of those of the constructor, `enqueue` or the destructor. `WorkerFindsNothing`
is the test of the wait loop, `WorkerWait` releases the mutex and sleeps in one
step, as `condition_variable::wait` does, and `SpuriousWakeup` ends the wait for
no reason (at most `MaxSpurious` times). `notify_one` wakes any one sleeper, or
nobody. `EnqueueNotify` and `DestroyNotifyAll` come after the mutex has been
released, and anything may happen in between. The refinement maps a task to
"taken" when it is popped, the destructor's entry to `BeginClose` and its
return to `EndClose`. `TaskPool` promises something only when there is a worker:
with none, its destructor drops the queue, as the one of the code does.

### PathPlanning
The pool is `TaskPool`; the mutex, the semaphore and the queue `paths` are
modelled as they are used. A semaphore release is two steps: the counter goes up
(`ReleaseAdds`), then the semaphore is touched once more to wake a waiter
(`ReleaseWakes`), as implementations do; the collecting loop may acquire in
between and destroy it, if nothing prevents it. `find_path` reads the map one
neighbour after the other (`ReadNeighbour`; `looking` holds those that
`get_neighbors` has still to read) while `DrawCell` writes it. It may visit what
it has reached in any order and return any simple path: this includes what A*
does, and frees this module from the search order. In SINGLE mode `Main` runs
the same search itself and no pool is used. Any number of plans may be asked
for, none included; the maximum of the semaphore restrains nobody, as in the
code. `Label` and `read_map` keep the width of `uint8_t`, as `LabelModulus + 1`
values: the code has 256, the instances fewer; numbers of the file that wrap to
an obstacle or to a label are among the inputs.

### PathPlanner
One action per turn of a loop of `find_path`; nodes of equal `f` may be popped
in any order. `f` is compared exactly, in integers (`SumLess`), since a
distance is a square root. The reference is breadth-first reachability
(`Within`), written without queue or heuristic.

### MatMul
A float sum is the sequence of the `k` added so far, because float addition
rounds: results agree to the last bit only if the products are added in the
same order. `+=` is a read (`Load`) and a write (`Store`), so that two threads
on one row would be seen to lose additions. A runner is `Main`, thread `i` of
`multiply_threads` or worker `i` of the pool; its loops are the same actions
whoever runs them, `NextProduct` knows which loop is inside. The calls follow
one another as in the program: four that are compared, then `NumIters` of each.
`compare_matrices` looks at values and not at their order, as the code does: the
numbers `main` compares are whole and far below 2^24, so that their float sums
are exact.

### Examples
A thread's function is the sequence of its steps that others can observe
(`Script`), repeated `Rounds` times; `Init` chooses the program. `++` of the
plain `int` is a load and a store, that of the atomic one step. `Await` is
the loop around `cv.wait`: a thread that is woken, spuriously too, locks and
tests `ready` again. `pop` is enabled only when the queue has an item: `front()`
of an empty one is undefined, and `ItemForEveryPermit` says it cannot happen.
`NothingLost` says what the output is by its elements and their order, not as
one sequence per thread: threads may interleave, a thread's own iterations may
not. Each of the five `<<` of `simple_thread` is a step (`Insertions`): the
pieces of two lines may mix.

### Transfer
A byte is its place in the message. `Send(n)` and `Recv(n)` move any number of
bytes the call may take. `socket` says whether the receiving socket blocks and
whether its `recv` resumes after a signal; every kind is checked. A signal to a
receiver that waits ends the call with `EINTR`, or comes just before the call,
which then waits all the same (`Press`). A send to a peer that has closed may
still be taken, or fail (`SendReturns`), or end the process by SIGPIPE, which to
the peer is a `Close`.

### ChatService
`connect` succeeds when the server listens (`backlog`), `accept` takes the
oldest connection, `recv` finds the message, the end of the stream, or nothing.
A connection that the server has closed already may be reported by
`connect_until_success` as made or as failed (`LogConnects`).
A process that exits closes its sockets; a chat may be killed anywhere. Log and
discovery are at one of their calls (`lpc`, `dpc`); `DiscoveryTests` and
`LogTests` are the test of `ctrl_c_pressed` between `accept` and `recv`, and a
Ctrl-C may come between it and the call. A log starts by listening
(`StartLog`), and may do so after the discovery server has gone.
A *world* is a set of circumstances: the names of the logs, whose port is 0,
whether accepted sockets block, and how many signals and restarts there are.
Blocking is Linux, where the socket `accept` returns does not inherit
`O_NONBLOCK`; non-blocking is a system where it does. `signal` (discovery)
restarts `recv`, `sigaction` without `SA_RESTART` (log) lets it fail with `EINTR`
(`InterruptLog`). A port of 0 marks a free slot (`Used`), whosever port it is.
`CrashDiscovery` ends the discovery server at any point; `RestartDiscovery`
starts it with an empty table, on the same address (`SO_REUSEADDR`). Nothing
is repaired: no log registers again.

`Messenger` is the view of the users: a directory, that a chat is shown once, as
it was at one moment, and then at most one message per chat, delivered to a log
it was shown. The refinement mapping takes the directory from the entries of
the table that count as used, what a chat has been shown from the reply sent to
it, and its deliveries from what logs printed. Everything else (connections,
signals, exits, the chat's own copy) is a stutter; a registration that finds
the table full is one too. That it holds says: a stale copy is still something
the chat was shown, no connection is served twice, no registration takes a slot
that another log has, and a crash loses the directory as a whole or not at all.

## 3. Runs

| Run | Instance | Question and answer |
|---|---|---|
| `thread_pool` | 3 workers, 4 tasks, 2 spurious wake-ups | Is a task or a wake-up lost under any interleaving? No; the destructor returns, and `TaskPool` with its fairness is implemented. |
| `zero_workers` | 0 workers | Does the destructor execute every task when `hardware_concurrency()` is 0? **No** (finding). |
| `path_planning` | 2 workers, 3 plans, six inputs on 2×2 maps, three modes | Is every path found drawn once, nothing used after it is destroyed, no search disturbed, the right map printed? Yes. |
| `label_wrap` | modulus 3 | Is every path drawn as a path? **No**, one label wraps to the value of an obstacle (finding). |
| `path_planner` | every 3×3 map, starts up to symmetry, every goal | Does `find_path` return shortest paths, and end? Yes. |
| `matmul` | 3 rows, 3 columns, 2 products, 2 workers, 2 iterations of the benchmark | Are the products added in the order of `multiply_naive`, is each result complete and no longer written on return, does the program end without an error? Yes. |
| `examples` | 2 threads (2 producers, 2 consumers), 3 iterations | Is nothing lost or repeated, how much can the plain counter lose, does everything end? The plain counter may end at 2, and at no less. |
| `semaphore_max` | the same, maximum 3 for 6 items | Does the semaphore stay within its maximum? **No** (finding). |
| `transfer` | 6 bytes, room for 4, every kind of socket | Does a message arrive whole, and is one that was sent whole never lost? Yes. |
| `two_chats` | Linux, 2 logs, room for one in the table, 2 chats, 1 signal at any process | Is every message printed, whoever is served before it, unless a signal ended the log? Does every chat end, whoever it waits for has gone? Is `Messenger` implemented? Yes. |
| `chat_signals` | 2 logs, 1 chat; Linux with 2 signals, Linux with 1 signal or crash and a restart, non-blocking sockets with two logs of one name and 1 signal, one of port 0, or with a restart | Does the table follow what was carried out, do listed logs listen, when does a server go down, do interrupted logs exit, is `Messenger` implemented? As the properties state. |
| `ctrl_c_deregisters` | Linux, 1 log, 1 chat, 1 signal | Does Ctrl-C make a log deregister? **No**: one that waits in `recv` leaves without (finding). |

### Bounds
Three workers let one work, one wait and one be on its way between the two; a
fourth task makes a worker come back for more after every other has started. One
spurious wake-up falls in the loop of a sleeper, a second one into the shutdown.
Three plans on two workers let one be drawn while another searches and a third
is still queued. The 2×2 maps of `MCPathPlanning` have two routes between
corners, paths of one step, a goal that is cut off, one that is blocked and one
off the map; 3×3 maps (`MCPathPlanner`) have walls, dead ends, rings round the
centre and cells reached in two ways. Three rows on two workers let a worker
take a second row, and the second iteration of the benchmark begins a call where
the same function has just returned. Three iterations of two threads let a
thread of the plain counter load before and store after all others. Six bytes
through four let a message be cut anywhere, before and after the room is full.
Two signals are what a log needs to be interrupted in its loop and again during
its deregistration; one crash and one restart let logs of before meet a table
that does not know them. One signal in `two_chats` is enough for a server to go
while a chat dials it, waits in its backlog or waits for its answer, and for one
chat to hang up on a server that another waits for. `LabelModulus` is scaled
down together with the number of plans. No symmetry is used, since liveness is
checked in most runs.

### Deadlock
It is checked everywhere but in Transfer and ChatService, where servers may be
idle for ever and a connection whose ends have returned does nothing more.

### Fairness
Every thread, process and end of a connection goes on when it can (weak
fairness): the scheduler of the operating system runs each of them, and every
loop that sleeps and polls tests again. Weak fairness is asked of a thread as a
whole, never of a particular outcome, and nothing is assumed about who gets a
contended mutex: spurious wake-ups are finitely many, so that no thread can take
it for ever from one that waits. A worker of `PathPlanning` is also asked to
take a plan when one is queued, which `ThreadPool` is shown to do
(`ImplementsPool`). Users of chats type what they are asked for in the end;
nobody is obliged to press Ctrl-C, to start the discovery server again, or to
have a spurious wake-up.

## 4. Findings

1. `thread_pool.hpp:54`: with no worker threads the destructor returns with
   tasks in the queue (`zero_workers`), against the comment at `matmul.cpp:195`.
2. `path_planning.cpp:22`: the label `threads_finished % 255 + 2` wraps to 0, and
   the path is drawn as an obstacle (`label_wrap`).
3. `log.c:152`: Ctrl-C in a blocking `recv` is treated as an error, and the log
   stays in the table (`ctrl_c_deregisters`).
4. `examples/semaphore.cpp:18`: the semaphore is released above the maximum it is
   declared with (`semaphore_max`).

The properties of the passing runs also say what the code does not promise:
`ServersStayUp` excepts clients that hang up early, which end a server;
`TableFollowsUsers` speaks of what was carried out, and a second Ctrl-C during
the deregistration keeps it from being sent; of two logs of one name the wrong
one may be taken off the table; after a restart of the discovery server the logs
of before stay unlisted.

## 5. Proofs

Every safety invariant and every safety action property that a passing run
checks is proved, for every value of the constants the assumptions below allow,
and so are the two refinements (without fairness). Each component has one
inductive invariant, a conjunction of named parts, shown to hold initially and
to be kept by every action with a lemma per action; TLC checked it on a small
instance first. The theorems follow from it.

**The pool as its clients see it** (`TaskPoolProofs`). `TaskInv`: the queue
holds the last tasks that were enqueued, in order; a task that has left it is
run by exactly one worker or finished. `PathPlanningProofs` and `MatMulProofs`
rest on it, and on nothing else about the pool.

**Thread pool** (`ThreadPoolProofs`): the type invariant, `FifoExactlyOnce`,
`NoSleepAfterStop`, `WorkConserving`, that each step implements a step of
`TaskPool` or a stutter, with any number of workers, and, for at least one
worker, `DrainedOnReturn`. `PoolInv` adds what the code leaves implicit: who holds the mutex, by
where each thread is; that nobody is between the test of `stop` and the wait
once the destructor has set it; that a worker which has left its loop saw the
queue empty, and nothing is enqueued later; that the destructor joins in order.
`DrainedOnReturn` is not inductive by itself: that the queue is empty when the
last thread is joined follows only from what each exiting worker saw.

**Path planning** (`PathPlanningProofs`): all six invariants of the run, for any
number of plans. The type invariant bounds the semaphore by the number of plans:
up to 255 of them cannot exceed its maximum, more are not excluded.
`PlanInv` counts: the permits given are those of the semaphore plus those the
loop has taken (`CountInv`), as many as tasks past their release; so the loop
meets its last permit only when every task has released, and once it has had
the mutex after that, every task has left its critical section (`LoopInv`).
This, and not the pool's destructor, is why nobody touches the semaphore after
it is destroyed. The plans pushed are those in the queue and those drawn, each
once (`OnceInv`). `MapInv`, about the map that searches read while the loop
draws on it, says that a free cell stays free (`FreeInv`), that an answer is right for the
map as it was read (`RouteInv`), and that a cell shows the last path drawn over
it (`DrawInv`). It needs labels that do not wrap, `LabelsFit`; the run
`label_wrap` is the counterexample beyond. That a search which may expand cells
in any order ends with all that can be reached is shown with the first step of a
route that would leave what was reached.

**Matrix multiplication** (`MatMulProofs`), with at least one worker: the type
invariant, both properties
of the run, and that `main` never prints an error. Nothing locks the result
matrix. `MatInv` says why nothing needs to: a row has one runner at most
(`OwnInv`), since tasks and threads have rows of their own and a function
returns only when nobody has a row; the runner's counters tell how much of each
element has been added (`Added`), so a loaded copy is never stale (`LoadInv`);
and a row that was begun and has no runner any more is complete (`RowInv`).

**A\* search** (`PathPlannerProofs`): the type invariant, the three invariants
of the run and `PoppedInOrder`, on maps of any size. The argument is that of
A\*, with every step in integers. Moving to a neighbour changes the straight
distance to the goal by one at most (`StepsAreLong`, from an inequality of
Cauchy and Schwarz), so the heuristic never overestimates, nor does `f` ever
fall along a step; squares replace the square roots, as in the model
(`NearerIsLess`, `NextIsNotLess`). Of a shortest way to a cell not yet visited,
some node is in the queue with its right `g` (`FrontierCovers`); a top of the
queue with a `g` that is too large would be worse than that one (`TopIsFinal`).
So a visited node is final, although the code never looks at a cell again or
lowers a `g` in the queue. The path returned is a shortest one because what has
been put together and what is left always add up to one (`RebuildInv`).
`Within`, the breadth-first reference, is a recursive function: that it has the
value its definition says is shown first (`WithinIs`), from the sets of cells
that explicit ways of `n` steps reach. That `Rows * Cols` steps reach everything
(`ExactBelow`) is shown by counting cells.

**Examples** (`ExamplesProofs`): the three invariants of the run. `ExamplesInv`
counts with sets: the iterations completed, those whose item has been made
(`Pairs`), the permits in hand (`Holders`) and the items not announced yet
(`Ahead`). Items are permits, in the semaphore or in hand, plus those not
announced. The bound of the plain counter, 2: every store leaves at least 1, so
a thread past its first iteration loads at least 1, and the last thread to end
stores one more than that.

**Transfer loops** (`TransferProofs`): the type invariant (no loop runs past its
buffer), `WholeMessage` and `SentIsReceived`, on blocking and non-blocking
sockets. The invariant: the buffer holds the bytes up to `bytes_read`
(`PrefixRead`), the stream those from there to `bytes_sent`, in order, and a
receiver in its loop has something left to read. The last part is what rules
out that the end of the stream is met after a whole message. A receiver fails
only for a reason (`FailsForAReason`): the sender has closed, or Ctrl-C was
pressed.

**Chat service** (`ChatServiceProofs`): all invariants of the runs, and that
every step implements one of `Messenger` or a stutter. `CoreInv` says in which
one place every connection is (a backlog, served, or gone) and that this agrees
with how far its client and its server are. From it follow what happens once:
a registration is carried out once, a request is answered once, a message is
printed once. `OrderInv` keeps a log's registration in front of its
deregistration in the backlog, which is why a log is not put back on the table
by its own, late registration. What outlasts connections comes on top:
`TableInv` and `CopyInv` (who is listed was registered), `GoneInv` (discovery
closes a connection unheard only when it goes down), `SignalInv` and
`ForgottenInv` (what Ctrl-C leaves behind). `TableFollowsUsers` is shown by
counting slots and users of a name through each handler.

Assumptions: only the named ASSUMEs of the modules (sizes are naturals, there is
at least one row or byte, the set of logs is finite, servers and clients
have names of their own, the inputs enumerated are inputs), and where a theorem
says so, `NumWorkers > 0` (`DrainedOnReturn` and the matrix multiplication, which
relies on the pool's destructor to have run the tasks) or `LabelsFit`. The
theorems about path planning need no worker: its loop counts permits, and
without workers it waits.

Only model-checked: liveness, since fairness and ENABLED are out of the prover's
reach: `DestructorReturns`, `PlanningEnds`, `SearchEnds`, `ProgramEnds` of both
modules, `ReceiverReturns`, `SentIsPrinted`, `ChatsEnd`, `CtrlCStopsLog`, and the
fairness of `TaskPool` in `ImplementsPool`. The prover cannot use a
principle of induction over data; where one is needed (ways, routes, the
first step that leaves a set), the proofs take the smallest counterexample of a
set of numbers instead (`SmallestOf`, from the well-foundedness of the
naturals).

## 6. Plan

Done: the models of every component but those of section 8, their runs, and the
proofs of all their safety properties and of both refinements. What is left:

1. Properties of the abstract specifications themselves, so that what is proved
   to be implemented is known to be worth it: that `Messenger` delivers only to
   logs its users were shown, and once.
2. That `Transfer` and `ChatService` fit: the outcomes of `recv` that
   `ChatService` chooses from are those `Transfer` can reach.
3. The steps of the liveness properties that are safety: the variants that
   fall (unvisited cells, tasks not finished, bytes not read).

## 7. Running

`tlc -config <cfg> <module>` as `PROJECT.json` pairs them; the longest run,
`two_chats`, takes some minutes. `tlapm <module>` for each of the eight modules
`...Proofs`; the longest, `ChatServiceProofs`, takes some minutes from nothing.

## 8. Not modelled

* Exceptions: a task that throws, a thread or a socket that cannot be created.
  Each ends the program.
* `unsafe_thread.cpp`: two threads call `push_back` of one vector without a lock;
  what comes of it is not one of a set of outcomes a model could choose from.
* What becomes of a semaphore that is released above its maximum, as that of
  `path_planning.cpp:77` may be with more than 255 plans: the model counts on.
* No run has the planner on a pool of no threads, where it waits for ever;
  `zero_workers` shows the cause.
* Float rounding in the search (exact for the path lengths of the maps here)
  and the values of the matrices.
* File and image I/O (opening a map, the Python tools, printing), the checks of
  program arguments, timing, random numbers, `get_public_ip`, `get_time_us`.
* The contents of names and messages, so also names of full length without a
  terminator; the 32 places of a backlog; opcodes that no client sends; a
  message cut off by a crash of its sender in the middle (in `Transfer` it is:
  the receiver fails, which is the hang-up of `ChatService`).
