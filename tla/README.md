# TLA+ models and proofs for language_test

## 1. The system

The repository is a collection of self-contained C++ programs. There is no common
library and no top-level program: the programs share ideas (a mutex and a condition
variable around a queue, an epoll loop around a table of connections, a tree of
nodes), not code. A *component* below is one program or a family of programs with the
same job. Components do not call each other; inside a component the interaction is
between threads over shared state (pools, queues, monitors, clock caches), between a
server's threads, the kernel and its clients (reactors), or between the operations of
one data structure over time (trees, containers, owners of memory). The pure routines
(sorts, searches, strings, lists) have no state between calls.

### Inventory

Paths are relative to `src/cpp/`.

| Component | State | Operations | What is hard | What makes it correct |
|---|---|---|---|---|
| Thread pool with futures, `thread/ThreadPool.cpp` | task queue, `stop`, condition variable, workers | `enqueue`, worker loop, destructor | notification after the unlock; stop racing with waiting workers; tasks that submit tasks | tasks start once and in order; no lost wakeup; the destructor drains and returns; every future becomes ready |
| Thread pool 1, `base/threadPool_1/` | queue of request pointers, `stop` | `append`, worker loop, destructor | `stop` read without the lock, not part of the wait predicate; requests deleted by the caller | requests complete in order; appended requests are processed; the destructor returns (it does not) |
| Thread pool 2, `base/threadPool_2/` | bounded queue, `isEmpty`, `isFull` | `setSize`, `start`, `addTask`, `runTask`, `finish` | two kinds of waiter on one condition variable, `notify_one` | flags agree with the queue; added tasks are run; `addTask` returns (only with one producer) |
| Blocking queue, `stl/safeQueue.cpp` | bounded queue, `_quit`, `_finished`, two condition variables | `push`, `pop`, `quit`, `finished` | flags set and notified without the mutex | FIFO, bound, no lost wakeup, end of input is final; `quit` releases blocked calls (it may not) |
| Counting semaphore, `cpp_language/my_semaphore_impl.cpp` | count, condition variable | `wait`, `signal` | several signals and waiters | units conserved, waiters served |
| Producer/consumer programs, `cpp_language/old/mult_thread/`, `thread/producer_and_consumer.cpp` | bounded buffer, one or two condition variables | produce, consume | both sides asleep, wrong side woken | nobody sleeps beside what it waits for; the flow goes on |
| Dining philosophers, `thread/eat_think.cpp` | five mutexes | lock, trylock, back off | deadlock, unlocking what is not held | neighbours never eat together; chopsticks are put down |
| Printing in turn, `thread/print.cpp`, `thread/print_abc.cpp` | turn, condition variable or atomic | wait or spin, print | the thread whose turn it is must wake | strict turns, all rounds printed |
| Unsynchronised counter, `thread/c_thread.cpp` | one shared variable | load, add, store | lost updates | the final value's range |
| Reactor server, `cpp_language/my_reactor/my_reactor_server.cpp` | epoll set, list of ready clients, three kinds of thread | main loop, accept thread, workers, `closeClient` | edge-triggered events; notifications without the mutex; descriptors reused | no edge lost; listed clients have workers; backlog served; closed clients released |
| Echo reactor, `cpp_language/my_reactor/my_reactor_c.cpp` | table indexed by descriptor, epoll set | run loop, accept/recv/send callbacks | table full, short writes, batches of events after a descriptor is reused | table and kernel agree; bytes accounted for and answered |
| HTTP test server, `socket/epoll.cpp` | connection map, write interest | accept, read, write, clean up | partial reads and writes | responses exact and completed |
| Singletons, `design_pattern/` | instance pointer, mutex | first use, later use, deletion | two first uses at once; a test outside the lock | one instance at a time (with the lock) |
| Two printers, `thread/print_a_b.cpp` | flag, condition variable | wait, print, notify one or all | a notification that wakes nobody | the letters alternate for ever |
| Second blocking queue, `stl/safe_queue_2.cpp` | queue, condition variable | `push`, `wait_and_pop`, `try_pop` | inverted wait predicate | what is pushed is popped once |
| Examples of the thread library, `base/threadtest/` | a word, a list or a counter with its mutex, condition variable or atomic | wait (with a limit or not), notify, compare and swap, `try_lock`, two locks | change and notify outside the mutex; failed exchange; opposite lock orders | nobody is forgotten, nothing is lost, all threads end |
| Clock caches, `cpp_language/old/gettimeofday/`, `cpp_language/old/time_thread.cpp` | cached clock values (atomics, structs under rwlocks, plain structs) | update loop, cached calls, the files' test loops | torn and stale reads | results never torn (without synchronisation: not by a second), ahead, behind or stale; warnings only for real deviations |
| Red-black tree, `tree/rbTree.cpp` | linked nodes with parent pointers and colours | `insert`, `remove`, fix-up loops, queries, `destroy` | cases that need a certain history; null pointers in the fix-up loops | links, order, red-black rules, queries |
| Binary search tree, `tree/bst.cpp` | linked nodes, `size` | `insertNode`, `deleteNode`, queries, destructor | splice of the replacement node; deletion of the root | order, size, queries; every node freed once |
| AVL tree, `tree/avl2.cpp` | nodes with cached heights | `insert`, `erase`, rotations, `loop_find` | ties after an erasure | order, exact heights, balance |
| Containers: ring queue, vector, LRU caches, two-heap median, hash table, bit map, disjoint sets, prefix tree, flyweight | arrays, lists, maps and counters that must agree | insertion, removal, queries | wrap, growth, eviction, tombstones, path compression | they hold and return what the sequence, set, bag or partition they stand for does |
| Owners: memory pools, reference-counting pointers, string classes, input-event loop | free lists, counts, buffers, descriptors | allocation, copy, assignment, release | release order, self-assignment, implicit copies, growth at the last byte | nothing in use is released, and nothing twice: blocks, objects, buffers, descriptors (not so for a copied `basic_string`, section 5) |
| Routines: sorts, numbers, arrays, texts, lists and trees (with a selection of the online-judge solutions) | none | one call | boundaries | they return what a definition by quantifiers says |

The parts that are not modelled, and why, are in section 8 and, file by file, in
`PROJECT.json`.

## 2. Modules

| Module | Models |
|---|---|
| `Platform` | what `notify_one`, `notify_all` and a spurious wakeup do to the set of threads blocked on a condition variable; the descriptor table and the readiness of a socket (external) |
| `TaskExecutor` | the abstract promise of a thread pool: no threads, locks or wakeups |
| `ThreadPool`, `ThreadPoolProofs` | `ThreadPool.cpp`; it implements `TaskExecutor` |
| `ThreadPool1`, `ThreadPool2`, suite `MCPools`, `PoolsProofs` | the two other pools |
| `SafeQueue`, `SafeQueueProofs` | `safeQueue.cpp` |
| `Semaphore`, `ProducerConsumer`, `BufferDemo`, `Philosophers`, `TurnTaking`, `PrintAB`, `Singleton`, `SafeQueue2`, `CondExamples`, `LockExamples`, suite `MCMonitors`, `MonitorsProofs` | the synchronisation programs and the thread library's examples; the unsynchronised counter is in `LockExamples` |
| `ReactorServer`, `NtyReactor`, `HttpEpoll`, suite `MCReactors`, `ReactorsProofs` | the event-loop servers |
| `AtomicTimeCache` (also `cas_time_cache.cpp`), `RwlockTimeCache`, `UnlockedTimeCache`, suite `MCTimeCaches`, `TimeCachesProofs` | the clock caches with the files' own test loops |
| `RBTree`, `BinarySearchTree` | the red-black and the plain search tree |
| `Containers` | ring queue, vector, LRU caches, bit map, disjoint sets, two-heap median |
| `SetContainers` | hash table, prefix tree, AVL tree |
| `Ownership` | reference-counting pointers, shared and weak pointers, flyweight, object pools, the reader of input devices |
| `StringClasses` | the two string classes |
| `CArrays` | C arrays and counting loops as operators |
| `Algorithms` | sorts, number routines, searches and other routines on arrays |
| `TextsAndLists` | routines on strings, on lists and trees |
| suite `MCSequential`, `SequentialProofs` | the plain search tree, `Containers`, `Ownership`, `StringClasses` |
| suite `MCRoutines` | extends `MCSequential` by the red-black tree and by what is defined with recursive operators, which the prover cannot take: `SetContainers` and the routines. TLC checks the whole |
| `SharedLemmas` | facts about sequences, finite sets and numbers that several proofs need |

A *suite* instantiates several modules with their variables renamed; a behaviour
chooses one program at the start and the variables of the others stay as they are.
So one run checks several small programs, each on its own.

### Conventions

* A definition has the name of the variable, method or callback it models where TLA+
  allows it. The `map` of `PROJECT.json` gives the source lines of each.
* **Threads and locks.** A critical section whose code cannot be left in between is one
  action, guarded by what the code tests inside. What happens outside the lock
  (`notify_one()` after the unlock, `stop` set and then `notify_all()`, a flag read
  without the lock) is a step of its own. `wait()` blocks in the step that evaluates
  the predicate, where the code evaluates it under the lock, and returns in a later
  step that evaluates it again. A thread may wake spuriously at any time.
* **Undefined order.** Data races are modelled by their outcomes: load and store of a
  shared counter, two halves of a 64-bit variable on i386.
* **Clients and kernel.** Clients connect, send and close at any moment. `accept`
  returns the lowest free descriptor. `epoll_wait` returns every descriptor
  with something to accept or to read and, of those with write interest, the ones
  whose socket has room at that moment; the events of a batch are handled after the world
  has changed.
  `send` may be short or fail.
* **Memory.** A node that is deleted leaves the set of allocated nodes; its fields are
  reset, so that a use after the deletion shows as a wrong link. Following a null
  pointer is either an explicit crashed state (`BinarySearchTree!DeleteRoot`) or
  excluded by an invariant (`RBTree!NoNullDereference`).
* **Containers and owners.** Their modules share three variables: `obj` is the object as
  the code keeps it, `held` what it should hold, `ret` the last result beside the one
  that `held` calls for. `held` is changed by the specification of a call, never by what
  its code has computed; where nothing says what a call should give
  (`basic_string`'s `operator+`, a string made of a character and a number), the object
  stands for no value and is not compared.
* **Arrays.** A C array is a function on `0 .. n - 1`; a read or write outside it is an
  error in TLC, not a value, so a passing run also shows that no index leaves its array,
  but for the reads the model has on purpose: `threeSum` looks at what lies behind its
  vector (`InMemory`: any continuation that differs for it), `strStr` and `reverseWords`
  return `Outside` for the arguments with which they leave their text.
* **Routines.** A routine is an operator. In `MCRoutines` it is called on every bounded
  argument, and `Right` compares what it returns with a definition that has no loop.
  Where the code deviates from its name (section 5), `Right` says what it does return.
* **Mutants.** Each property has at least one mutated definition, written right before
  the original and commented `Mutant:`; with the mutant in place TLC finds the
  property violated.

### How the core modules correspond to the code

`ThreadPool`: `Enqueue` is the block of `enqueue()` under the lock and `EnqueueNotify`
the `notify_one()` after it, `EnqueueThrows` the exception of a stopped pool.
`WorkerWait`, `WorkerTake`, `WorkerExit` and `WorkerFinish` are the worker's loop:
block, take a task, leave when stopped and empty, return from the task. `DtorStop`,
`DtorNotify` and `DtorJoin` are the destructor. Workers are among the threads that may
call `enqueue()`, which is how tasks submit tasks. `accepted`, `started` and `finished`
are history.

`SafeQueue`: `Call` enters `push()` or `pop()`; the steps named `Push...` and `Pop...`
are the rounds of their loops (test the flags, wait, transfer); `Quit` and `Finished`
set the flags without the mutex, `NotifyEmpty` and `NotifyFull` are the notifications
that follow.

`ReactorServer` has one program counter per thread: the main loop (`EpollWait`,
`Dispatch...`), the accept thread (`AccWait`, `Accept`, `SetNonBlocking`, `EpollAdd`), the
workers (`WorkerWait`, `WorkerTake`, `Recv`, `Send`, `CloseDel`, `CloseFd`). `edge` is epoll's
list of pending edges. Between `Accept` and `SetNonBlocking` the new descriptor blocks: a
worker that holds its number from an earlier client reads what the new one sent or sleeps in
`recv()` (`RecvBlocks`, until `RecvWakes`), and if it closes the descriptor, `fcntl()` or
`epoll_ctl()` fails. `NtyReactor` and `HttpEpoll` are single-threaded loops: one
action per callback or handler, on the batch `ready`.

`RBTree` keeps the linked nodes in a record; `Rotate`, `Relink`, `Replaced` compute a
new record. The source writes each case of the fix-up twice, once per side; the
model has one definition with a side. Each round of a fix-up loop is one step, with
the loop's locals in `op`. A node keeps its key for life, so keys are a constant
function of the node, and a doubled key is a second node.

`Singleton` has one step for each access to the pointer: the test outside the lock, the
lock, the second test with the creation, the read of the result. `CondExamples` gives
each program of `condition_variable/` as a record of what its threads wait for and how
they are woken; the mutex is held for the change, for the notification, for both or for
neither, as in the source. `LockExamples` has the load, the link and the exchange of the
list as separate steps; `compare_exchange_weak` may fail without a reason.

`AtomicTimeCache`, `RwlockTimeCache` and `UnlockedTimeCache` have the updating thread's steps (sample,
store, sleep; lock, store second, store fraction, unlock) and the readers' (load, or
lock and copy field by field). `floor` records, when a call starts, the least result
that is acceptable.

## 3. Runs

All runs use two TLC workers. Deadlock is checked in all of them but `sequential`, where
a routine returns and that is the end; elsewhere a program that may end has an explicit
`Terminated` or `Ended` step.

| Run | Instance | Checks | Shows |
|---|---|---|---|
| `threadpool` | 2 workers, 2 clients, 3 tasks | `TypeOK`, `FifoOnce`, `StartedAccounted`, `QueuedTaskHasWaker`, `StopWakesAll`, `DrainedOnJoin`; `ImplementsExecutor`, `FutureReady`, `DtorReturns` | tasks are taken once and in order, no wakeup is lost, the destructor drains the queue and returns, every future becomes ready, and the pool implements `TaskExecutor` with its progress |
| `pools` | 2 workers, 1 client, 3 tasks (5 additions) | `ProcessedInOrder`, `QueuedTaskHasWorker`, `FlagsExact`; `SubmittedAreRun` | the other pools keep order and bookkeeping and run what is submitted, as long as pool 1 is not destroyed and pool 2 has one producer |
| `threadpool1_dtor` (violation) | the same pool 1 | `DtorReturns` | the destructor joins workers that sleep for ever |
| `threadpool2_producers` (violation) | 1 worker, 2 clients | `AddReturns` | a notification meant for the worker wakes the other producer; both sides then wait |
| `safequeue` | 2 writers, 2 readers, capacity 1, 3 items | `TypeOK`, `Fifo`, `Bounded`, `SleepersHaveReason`, `EndIsFinal`; `PopServed` | order, bound, wakeups, the end of input, service of readers |
| `safequeue_quit` (violation) | 1 writer, 2 readers | `QuitEndsCalls` | `quit()` notifies without the mutex: a call that has tested the flag misses it |
| `monitors` | 3 waiters, 4 signals; 2 producers, up to 4 consumers; 5 philosophers; 3 and 2 printers; 3 threads x 3 increments; 3 callers of the singleton; 3 poppers; the examples with 3 waiters and up to 4 items | `SemConserved`, `NoLostWakeup`, `ChopsticksOwned`, `InTurn`, `OneInstance`, `FinalRange`; `ProgramsGoOn` | the small programs conserve, wake, take turns and go on; the locked singletons have one instance at a time; the list of the CAS example loses no node; the racy counter ends between 2 and the number of increments |
| `reactors` | reactor server: 2 clients, 1 descriptor, 2 workers; echo reactor: 3 clients, 2 descriptors in a table of 6; HTTP: 2 clients, 1 descriptor, responses in 2 parts | `NoLostEdge`, `ListedHasWorker`, `SlotIsFd`, `BytesAccounted`, `ResponseExact`; `ClientsServed`, `GoneIsReleased` | no edge, wakeup or byte is lost while descriptors are reused; the table agrees with the kernel; clients are served; those that are gone are released, in the multi-threaded server while a worker is left that neither has ended nor sleeps in `recv()` |
| `reactor_listed` (violation) | reactor server, 2 descriptors | `ListedAvailable` | the list of available clients can hold a closed descriptor |
| `timecaches` | atomic: 1 reader (readers do not influence each other), clock to 6, words of 2 values, as on i386 and as on x86_64; rwlock: 2 readers, clock to 2; unsynchronised: clock to 6 | `CachedTimeSound` | no result is torn, ahead of the clock, behind an earlier one or older than the last complete update; the unsynchronised cache mixes two times by less than a second; the test loops warn only of real deviations |
| `sequential` | red-black: keys 1..7, one of them twice; plain: 6 values; AVL: 9 keys; containers, owners and routines as in `MCRoutines.cfg` | `TreesSound`, `DestroysAllOnce`, `ContainersSound`, `OwnershipSound`, `SetsSound`, `RoutinesExact` | every reachable tree is linked, ordered and balanced, also between the rounds of the fix-up loops; queries and traversals agree with the sorted contents; containers agree with what they stand for; nothing in use is released and nothing twice, and only copies made by an implicit copy constructor share a buffer; routines are exact, or deviate as section 5 says, on all arrays of up to 5 numbers, texts of up to 4 letters, lists and trees of up to 5 nodes |
| `bst_root` (violation) | 3 values | `DeleteReturns` | deleting the root dereferences a null pointer |

### Bounds

Two workers and two clients are the least with a wakeup that reaches the wrong thread,
a thread between unlock and notify, and a thread that is not the one notified; three
tasks let one run, one wait and one be submitted by a task. Capacity 1 with two
threads on each side makes every operation of the queue meet the bound. The servers
have fewer descriptors than clients, so numbers are reused and `accept` fails. In the
echo reactor's table, descriptors 5 and 6 with `MAX_EPOLL_EVENTS` = 6 make the table
full with one free descriptor left. Eight nodes give red-black trees of black height
3, in which both fix-up loops climb a level and end with each of their cases, on both
sides; nine keys give AVL trees of height 4, in which an erasure causes rotations on
two levels. Clock values up to 6 with two values per word and two steps per second
contain carries between words and between fields. A ring of 4 slots wraps, a vector of 7
elements grows three times, a table of 3 slots grows to 7 and probes over deleted slots,
an LRU cache of 3 entries has 4 keys, pools of 2 objects add a third block, three
variables let a pointer be copied, reassigned and outlived; two `basic_string`s of first
capacity 2 with up to 4 characters, the NUL counted, are filled to the last byte and grow
twice, so that one is a copy of the other, released or not; in the reader of input
events a batch of 2 exceeds the greatest `short`, 1. `int` is 8 bits wide in the number
routines and `long long` 12, so that numerals of three digits meet the limits of both. `MaxSignals`,
`MaxPushes`, `MaxAdded`, `MaxSent`, `MaxRequests`, `MaxClock`, `VectorMax`, `TrieMax`, `MedianMax`,
`MaxBlocks`, `StringMax`, `LengthMax`, `Pending`, `QueueBound` and the numbers of rounds bound
counters that the code leaves unbounded.

### Fairness

Nobody is obliged to call an operation, to send, or to destroy an object. What is
assumed is that threads are scheduled:

* weak fairness for a thread's own steps that stay enabled once they are (a
  notification to send, a task that returns, a loop's next round);
* strong fairness for a thread that competes for a mutex in a loop (`ThreadPool1`,
  `ThreadPool2`, `SafeQueue`): a POSIX mutex does not promise a queue, but a thread
  that keeps trying while the mutex becomes free again and again gets it in the end;
  without this assumption no blocking call of the code could be said to return;
* strong fairness of the singleton's lock, for the same reason; weak fairness of every
  other step of the programs in `MCMonitors`, of the time limits of `wait_for` and
  `wait_until` (a timer goes off), and none for the callers of `signal()` and `push()`.
  The list that grows by compare-and-swap has no liveness property: the weak exchange may
  fail for ever;
* in the echo and HTTP servers, strong fairness of the output readiness of a
  connection: its client reads, so that room in the socket is reported again.

`Philosophers` has weak fairness only. That somebody eats does not follow: the back-off
has no delay and the five threads can fail in step for ever.

## 4. Proofs

Every safety invariant of the programs with threads, servers and clock caches is proved
for all values of the constants, and so are the refinement of the abstract executor and
what the plain search tree, the containers and the owners of memory promise. Each
proof has the same shape: an inductive invariant of the component, one lemma for its
initial state, one for each kind of step, one that draws the property from the
invariant; a suite's invariant is the conjunction of its components', and a step of the
suite is a step of the program that runs. The assumptions are the `ASSUME`s of the
modules that declare the constants; TLC evaluates them in every run. They say that sets
of threads are finite and disjoint, that markers such as `NoTask` or `Nobody` are not
members of what they mark the absence of, and that sizes are numbers; those that say
more are named below.

| Theorem | Property | For all |
|---|---|---|
| `ThreadPoolProofs`: `TypeCorrect`, `TakenInOrderOnce`, `NobodySleepsAfterStop`, `TasksAccounted`, `DestructorDrains`, `EveryTaskHasWaker` | `TypeOK`, `FifoOnce`, `StopWakesAll`, `StartedAccounted`, `DrainedOnJoin`, `QueuedTaskHasWaker` | workers, clients, tasks |
| `ThreadPoolProofs`: `PoolImplementsExecutor` | `ImplementsExecutor` | the same |
| `SafeQueueProofs`: `TypeCorrect`, `DeliversInOrder`, `StaysBounded`, `NoLostWakeup`, `EndOfInputIsFinal` | `TypeOK`, `Fifo`, `Bounded`, `SleepersHaveReason`, `EndIsFinal` | writers, readers, capacity, items |
| `PoolsProofs`: `ProcessedInOrderHolds`, `QueuedTaskHasWorkerHolds`, `FlagsExactHolds` | the property so named | workers, clients, tasks, calls |
| `MonitorsProofs`: `SemConservedHolds`, `NoLostWakeupHolds`, `InTurnHolds` | the property so named | threads, buffer sizes, signals, rounds |
| `MonitorsProofs`: `ChopsticksOwnedHolds`, `OneInstanceHolds`, `FinalRangeHolds` | the property so named | philosophers, callers, threads, rounds |
| `ReactorsProofs`: `NoLostEdgeHolds`, `ListedHasWorkerHolds`, `SlotIsFdHolds`, `BytesAccountedHolds`, `ResponseExactHolds` | the property so named | connections, workers, descriptors, table and buffer sizes, response lengths |
| `TimeCachesProofs`: `CachedTimeSoundHolds` | `CachedTimeSound` | readers, length of a second and of a word, tolerance, time |
| `SequentialProofs`: `ContainersSoundHolds`, `OwnershipSoundHolds` | the property so named | sizes, keys, values, addresses, numbers of variables, texts of any length |
| `SequentialProofs`: `DestroysAllOnceHolds`, `SearchIsExact` | `DestroysAllOnce`; that `search()` finds exactly what was inserted and not deleted (`SearchExact`) | numbers of values |

**Thread pool.** `IInv` adds `Phases` to the type invariant and the properties: `stop` is
raised by the destructor only, sleeping workers are in the worker loop, workers have left
only a stopped and drained pool, and the destructor has returned only when all have left.
`Phases` is what `StopWakesAll` and `DrainedOnJoin` lack to be inductive: after stop
nothing is accepted, so a queue found empty by the last worker stays empty. `FifoOnce`
rests on the lemma `MoveHead` about moving the head of one sequence to the end of
another. `QueuedTaskHasWaker` counts: `WakerStep` follows the number of workers that will
look at the queue and of notifications to come through every step. For the refinement
`ExecutorStep` maps each step to a step of `TaskExecutor` or to none; `RunningBelow`
shows that no more tasks run than there are workers (the map from running tasks to
workers is injective).

**Blocking queue.** `IInv` adds `Flags`: the end is reported only after `finished()` and on
an empty queue, and a reader decides to wait on an empty queue only. The last part
connects the test and the wait, which are separate steps because the flags are not
protected by the mutex.

**Pools.** `Order1` is what `ProcessedInOrder` lacks: all that was appended is what has been
processed, then the request of the worker that holds the mutex (the code processes under
the lock), then the queue. `Frame1` says who has a request, that sleepers are at their wait
and that workers leave only after `stop`; the wakeups are counted as in the first pool.
`Frame2` says that the bound is 5 before `start()` and the number of workers after it, with
nothing added in between, and counts the calls under way.

**Monitors.** The invariants of the semaphore, of the producer/consumer programs and of the
second queue are inductive as they stand. For `InTurn` the turn is tied to the number of
lines printed (`TurnInv`), the flag of `print_a_b.cpp` to the last letter (`ABInv`). The
library's examples have one invariant each (`GateInv` ... `NumbersInv`) on top of a
common frame: a thread that sleeps has tested and not gone on.

**Locks.** `PhilInv` gives the set of chopsticks for every place in the loop; `Philosophs` is at
least 2. `OneInv` has the two versions of the singleton apart: with the lock, who is between
the tests and the unlock has the mutex, and there is no object but the one the pointer
shows or its maker is about to store; without it, an object is made only by callers that
entered before the first return, and each caller makes at most one. `RaceInv` bounds
the shared counter by the stores made and, after the first store, from below by 1: who
stores a second time then stores at least 2, which is why `FinalRange` needs two rounds
(`Rounds` is at least 2 in the assumption; each thread of the code counts to 100000).

**Reactors.** `SrvFrame` says what the threads hold: a registered descriptor is open, the batch
is empty between two calls of `epoll_wait()`, a busy worker has a descriptor. With it
`NoLostEdge` is proved element by element (`ReadablesHeld`): each step takes a descriptor
from one of the places that will look at it only to put it in the next, or reads it. `NtyInv`
adds to `SlotIsFd` that what a connection has sent is what was echoed or dropped, what its
slot still has to send and what is unread, in this order (`Accounted`). `HttpInv` says in which
of four states the exchange with a client is (`Rests`, `HalfSent`, `Asked`, `BeingAnswered`)
and that an event of the batch is still true of its connection when it is handled
(`HttpReports`). The process can open at least as many descriptors as the echo reactor's table
has places (`MaxFd >= MAX_EPOLL_EVENTS - 1`; both are 1024 by default).

**Clock caches.** For the atomic cache the invariant orders the times: completed updates,
stored values, samples, clock; a reader that waits for its load has a floor and an earlier
result that are not above the stored value, and so whenever the load happens the result is
between. One invariant serves i386 and x86_64; only the width of the plain load and what is
judged differ (`SameSteps`). For the cache with locks `Known` is the time that a struct stands
for: its contents, or while it is written the time that is being stored. It never goes
back, and it does not move while a reader holds the lock, which is why two fields read one
after the other belong together. For the cache without synchronisation only the seconds are
ordered (`PlainInv`): what a call has loaded is not ahead of what it would be given now.
The arithmetic (`RoundDown`, `RoundMono`, `RoundSplit`, `RoundsTo` in `SharedLemmas`) is about
seconds and the rest.

**Containers and owners.** Each program keeps, beside the fields of the code, the value that
its calls stand for: the queue's elements, the keys in order of use, who shares what. The
properties compare an answer with that value, so the invariant has to say how the fields
show it, which is the argument the code has in no comment:

* ring queue and growing array (`QueueInv`, `VectorInv`): the slots from the front on, around the
  end, are the elements; those between are free;
* bit map (`BitsInv`): the bytes have the digits of the members and no others, because
  adding a power of two to a byte without that digit changes that digit only;
* median (`MedianInv`): the two heaps are the two halves of one sorted sequence, and differ in
  length by one at most;
* LRU caches (`LruInv`): the list is the keys by last use, and the map leads to the node that
  has the key;
* union-find (`DsuInv`): there are a root for every node and heights that fall along the parents, so
  that `find()` ends at the root, and compressing a path changes neither root nor
  groups. `find()` is a recursive function; that it ends is shown by the node of
  least height that would be a counterexample;
* board pieces, counting and weak pointers (`PieceInv`, `SmartInv`, `WeakInv`): the counter is the
  number of variables that share the object, and it is at zero exactly when the object
  is gone;
* pools (`PoolInv`): the free list passes every free slot once and ends, so that what is
  handed out is in no other hand;
* search tree (`TreeInv`): `lo` and `hi` name the nearest ancestors between which a node
  lies, `par` the node above it, and a missing link means that the tree has no value in
  that gap (`SearchTree`). The walks of `search()` and `insertNode()` narrow such a gap and so
  end where the value is or belongs; a deletion moves the replacement into the place of
  the deleted node and gives its gap to the neighbours. For the destructor: a node that
  is not deleted yet is queued once or lies below such a node, which is why the queue
  is empty only when all are deleted;
* strings (`StrInv`, `MyStrInv`): the buffer shows the text and, where the code promises it,
  the terminator. Two `String`s never have the same buffer; two `basic_string`s only if
  both are among those copied by the implicit copy constructor, and a string that was
  never copied points to a buffer that is allocated. `get_realloc_size()` is a recursive
  function; that it ends with a capacity above the length is shown as for `find()`, for every length;
* reader of input devices (`InputInv`): the descriptors open are those watched, and while a
  batch is gone through, what was read of each kind and not reported is what the
  rest of the batch still has and, for the movements, the sum so far, both modulo the
  range of a `short`.

What `OwnershipSound` does not say: that everything is released. `WeakPtr` never deletes
its counter and `basic_string` loses the buffers that `deallocate()` allocates
(section 5); and a behaviour in which a copied `basic_string` points to a released buffer
ends there, because what the program does next is undefined.

The constants are numbers and finite sets (`SequentialAssumption`, `MemoryAssumption`), and no
character of a text is NUL. The values of the search
tree are 1 to `BSTData`, a number (`TreeAssumption`); as no value is in the tree twice, a
node is named by its value.

Only model-checked:

* liveness, which needs fairness and `ENABLED`: `FutureReady` (with the
  fairness of the executor), `DtorReturns`, `SubmittedAreRun`, `PopServed`, `ProgramsGoOn`, `ClientsServed`,
  `GoneIsReleased`;
* `SetsSound` and `RoutinesExact`: the routines, the sets and the hash tables are written with
  recursive operators, which the prover cannot take, and what they compute is a fact
  about induction over data;
* `TreesSound`: the repairs of the red-black tree keep the number of black nodes of all
  paths (as those of the AVL tree in `SetsSound` keep the heights), which a formula without
  induction over the tree cannot state; nor can it state the order in which a recursive
  traversal visits the nodes of either tree;
* the violations of section 5, which are counterexamples.

## 5. Findings

* `threadPool_1`: the destructor does not return if a worker is idle
  (`threadpool1_dtor`).
* `threadPool_2`: with two producers `addTask()` can block for ever
  (`threadpool2_producers`).
* `safeQueue`: `quit()` can leave a call blocked (`safequeue_quit`).
* `bst.cpp`: `deleteNode()` of the root dereferences a null pointer (`bst_root`).
* `my_reactor_server`: `clients_list_` can hold a closed descriptor, against its comment
  (`reactor_listed`).

Seen while modelling, without a run of its own. Where the modelled behaviour is the
deviating one, the model has it and its property says so; the rest is kept out by the
preconditions in the module headers.

* Trees: `RBTree::destroy()` frees one leaf and returns (the model's `Destroy` does just
  that); `BinarySearchTree::successor()` returns the right child; `avl2.cpp`
  `find_real()` and `destory()` and the public `search` functions of `rbTree.cpp` lack
  return statements.
* Clock caches: on i386 the second, plain read of `_time_monotonic`
  (`atomic_time_cache.cpp:181`) can mix two values (`CachedTimeSound` leaves that call out
  there); `rwlock_time_cache.cpp` uses its locks once before it initialises them;
  `cas_time_cache.cpp` is a copy of `atomic_time_cache.cpp`, without a compare-and-swap;
  the structs of `time_thread.cpp` can mix the fractions of two times.
* Threads: the lazy singletons without a lock can create several instances, and after
  `deleteInstance()` a caller can be given a null pointer; `wait_and_pop()` of
  `safe_queue_2.cpp` waits while the queue is *not* empty, because its predicate is
  inverted; `condition_variable/example5.cpp` and `example13.cpp` wait without a predicate
  and can miss the notification, `example15.cpp` can overwrite what was not consumed;
  in `four_philosopher.cpp` five threads can each hold one chopstick, and `count` is
  changed without a lock.
* Servers: `my_reactor_server` loses a worker with every failing `send()`, and one sleeps
  for as long as its client is silent when it reads a descriptor that is not yet
  non-blocking; when `fcntl()` or `epoll_ctl()` fails the descriptor is left open. A short
  `send()` of the echo reactor drops the rest (`BytesAccounted` counts it as
  dropped), and a client that finds its table full is neither served nor closed.
* Containers: `myHash.cpp` does not store the key whose insertion makes the table grow, and
  a search for an absent key does not end when no slot was never used; `Vector(0)` cannot
  grow; `func.cpp` `f1()` indexes outside its table when the probe wraps.
* Owners: the destructor of `MemPool.cpp` deletes a node of the free list instead of the
  blocks; the second class of `shared_ptr.cpp` advances the address of the count where it
  should count; `WeakPtr` never deletes the counter, a copied null `SharePtr` frees it
  too early, and `lock()` does not test whether the object is gone; `String::substr` does
  not test its bounds.
* `basic_string` of `my_string.cpp` has no copy constructor: a copy shares the buffer, and
  whichever of the two is destroyed, assigned or grows first releases it; the other then
  points to released memory and its destructor releases it again (the model has the
  copy and stops there; `substr()` returns by value and is sound because the
  copy is elided). `operator+` changes its left operand: it writes behind the NUL, or, when
  the buffer is too small, keeps only the right one; `operator=` and `operator+` have no
  return statement; assigning or adding a string to itself reads a released buffer;
  `basic_string(t, n)` stores nothing; `c_str()` of a default string shows memory that was
  never written; every reallocation loses a buffer; `find()` never finds the empty text,
  and a text longer by two or more makes it fail its own assertion; `<` does not advance
  and `>` calls itself. `held` has no text where one of these leaves none, and the
  properties compare the rest.
* Routines: `selectSort2()` never compares with the element it replaces; `is_prime()` of
  `race_template.cpp` accepts squares of primes; `violentMatch()` misses an occurrence at
  the end of the text; `dp_bag1.cpp` computes the best value with every item taken up to
  twice and prints a choice with each taken once; `countSort()` indexes by the value;
  `memcpy1()` is wrong when the target overlaps the rest of the source;
  `removeDuplicateNodes()` removes neighbours only and turns [1,2,3,3,2,1] into
  [1,2,3,2,1], where the header of its file (`移除重复节点.cpp:1-10`) asks for [1,2,3]; `threeSum()`
  compares with the element behind its vector (`three_sum.cpp:19,23`; its triples are right
  whatever is there); `strStr()` reads behind the haystack when the needle is longer by two
  or more, because its bound is a wrapped `size_t`; `reverseWords()` reads before the text
  when it is all blanks; `my_strcmp()` asserts that neither text is empty, although
  an empty text is a text. `kmp()` and `violentMatch()` are called with non-empty patterns.

## 6. Left out of the modelled components

Message texts, formatting, logging and CPU affinity. `SIGPIPE` on a send to a closed
connection. The registration in epoll that outlives `close()` while another worker's `recv()`
is blocked on the connection. `ReactorServer::stop()` and its destructor (nothing clears `stop_`). Several
HTTP requests in one read. The year-2106 truncation of `cached_time()` to 32 bits. Clocks
that are set back. The uninitialised parts of the echo reactor's table. `length()` of the
blocking queue. The destructor of the AVL tree.

`MemPool.cpp`'s destructor, `Shared_ptr::operator=` (it names members that do not exist),
`basic_string`'s `<` and `>`, `MyString2` (it does not compile). The examples of the thread
library that call one function and end.

## 7. Plan

1. *Done:* thread pool with its abstraction and proofs; blocking queue with proofs; the
   other pools; the monitors with the singletons, the second queue and the library
   examples; the reactors; the clock caches; the search trees; containers, owners of
   memory and routines.
2. *Done:* proofs of all safety invariants of the concurrent components, of the
   refinement of `TaskExecutor`, of the search and the destructor of the plain search
   tree, and of the containers and the owners of memory.
3. Left: the red-black tree. That `RBTree!Rotate` keeps links and parent pointers in step is
   within reach of the prover; that all paths have as many black nodes is not. The
   routines and `SetContainers` stay with TLC.

## 8. Not modelled

* The start gate of `thread/conditionVariable.cpp`: the predicate passed to `wait()` is
  negated, so no thread ever blocks and nothing is left to interleave.
* `four_philosopher.cpp`: a thread that finds `count` at 4 skips the locks and unlocks
  chopsticks it does not hold; there is nothing it promises. In `print_1.cpp` both threads
  wait for values that nobody sets.
* `MemPool3.cpp`, the copy of the chain of responsibility, `level_traver.cpp`,
  `countSort.cpp` and part of the online-judge solutions: they do not compile, do not end
  or index outside their arrays on their own test data.
* The other design patterns: virtual calls without protocol state.
* Small socket programs, processes and IPC: system calls in sequence.
* Examples of one library class or language feature, benchmarks, scripts (Python, Lua,
  shell, SQL): no state or protocol of their own.
