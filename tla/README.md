# Verification of destiny_place_cpp

TLA+ models of the parts of this repository that have a behaviour of their own:
the queues of `message_queue/`, the allocators of `memory_pool/`, the caches of
`cache/`, and the algorithms of `leetcode/` and `algorithm/`. TLC checks the models on small instances; TLAPS
proves for every instance the safety of all queues, pools and caches, of the
binary searches and two-pointer loops, the partitions and the sliding window. `PROJECT.json` lists runs, proved theorems, hazards, findings and, for
every definition, the source lines it stands for.

## 1. Inventory

### Queues between threads (`message_queue/`)

All rings have `capacity + 1` slots: `head == tail` means empty,
`tail + 1 == head` (modulo the size) means full.

| part | state | operations | who interacts, and how | what is hard | correct when |
|---|---|---|---|---|---|
| `spsc_queue.h` | slots, atomic `head_`, `tail_` | `push`, `pop`, `empty`, `full`, `size` | one producer and one consumer thread, by the two atomics only | release/acquire ordering, stale loads, slots used again after a wrap | no data race on a slot, FIFO, a caller's own query is kept, all items get through |
| `spsc_blocking_queue.h` | the same, `mtx_`, two conditions, `is_closed_` | `push`, `pop`, `close`, queries | the threads wake each other; any thread may close | lost wake-ups, close racing with a sleep, draining after close | FIFO, no lost wake-up, `false` from `pop` ends the stream, nobody hangs |
| `spsc_timeout_queue.h` | the same, timeouts | push and pop in three modes, `close` | the same and the clock | a timeout racing with an arrival, waits resumed after a spurious wake-up, rounding, order of member initialisation | the above, no item missed at a timeout, full time waited |
| `ring_buffer_queue.h` | slots, indices | `push`, `pop`, `clear`, queries | one thread | wrap-around, what `clear` leaves behind | what is inside comes out in order |
| `single_thread_queue.h` | a `std::queue` | forwards | one thread | nothing | not modelled: no code of its own |
| MPMC queues in `msg_queue_design.md` | - | - | - | - | not modelled: a plan without code |

### Allocators (`memory_pool/`)

| part | state | operations | who interacts, and how | what is hard | correct when |
|---|---|---|---|---|---|
| fixed pool | list through the free blocks | `allocate`, `deallocate` | one thread | the link lives in memory the user writes over | no block has two users, none is lost |
| mutex pool | the same, mutex | the same | any threads | the two-step list change | the same |
| lock-free pool | the same, atomic head | the same | any threads, by compare-and-swap | ABA, stale links, retry loops | the same, for some uses only; some call always completes |
| thread-local pool | a central lock-free pool per pool, one static list per thread | the same | threads fetch batches from the centre, and give back blocks of other threads | one list for all pools, exiting threads, exhausted centres | every block in one place at most |
| general pool | a thread-local pool for each of seven size classes, a header per object | `allocate(size)`, `deallocate` | the thread-local lists | header and link share memory, borders of the size classes, the shared list | objects large enough and given back where they came from |
| `test_memory_pool.cpp` | vectors of blocks | `run_threaded_test`, `test_general_pool` | clients of the pools, one after the other in one main thread | is the pool sized well enough? what does one test leave to the next? | its assertions hold on every schedule |
| benchmark, plots | - | - | clients | - | not modelled: they measure |

### Caches (`cache/`)

| part | state | operations | what is hard | correct when |
|---|---|---|---|---|
| `lru_cache.h` | list, map into it | `get`, `put`, `clear` | list and map must agree through eviction and reuse of a key | holds the most recent keys and their last values |
| `lfu_cache.h` | data, lists by frequency, iterators, `min_freq_` | `get`, `put`, `clear` | three maps changed one after the other, `min_freq_` kept by hand | bounded, last values, the right key leaves |

### Algorithms (`leetcode/`, `algorithm/`)

Pure functions called by one thread; what is hard is the boundary: a bound that
closes in one short, a greedy choice that a later element makes wrong, equal
elements in an order nobody chose, a window that shrinks one late, a cell reached
twice. All of them are modelled: five binary searches, two pairs of pointers,
both solutions of `sort_colors`, the quickselect of `nth_element.cpp`, eleven
greedy and one-pass solutions, five that count with hash maps, heaps or by
splitting, the sliding window of `minCoverSubString.cpp` and three graph
traversals.

### The rest

`design_princples/`, `some_knowledge/` and `playground/` demonstrate C++ features
and class diagrams. They print, time or do nothing; there is nothing to model.

## 2. Modules

| module | models | state and actions |
|---|---|---|
| `RingIndex` | the index arithmetic of every ring | `Advance`, `IsFull`, `IsEmpty`; no state |
| `Monitor` | `std::mutex` and `std::condition_variable` | `owner`, `waiting`; lock, unlock, sleep, notify, spurious wake-up |
| `QueueItems` | the items of the three queues between threads, and the bound on how many | constants only |
| `BoundedFifo` | abstract: what a queue promises | what is queued, delivered, closed; put, take, close |
| `SPSCQueue` | `spsc_queue.h` | each atomic is its modification order, each thread a view of it; one action per load or store another thread can tell apart |
| `SPSCQueueObserver` | a third thread calling the queries | two loads, at different moments |
| `SPSCBlockingQueue` | `spsc_blocking_queue.h` | `pc` per thread; lock, test, sleep, insert/remove, notify, unlock are steps of their own |
| `SPSCTimeoutQueue` | `spsc_timeout_queue.h` | the same with a mode and a clock per call, and the size the buffer happened to get |
| `RingBufferQueue` | `ring_buffer_queue.h` | one action per call |
| `BlockAllocator` | abstract: what a pool promises | blocks in use, blocks free |
| `PoolBlocks` | blocks and the links written into them | `next`, the list a head begins |
| `FreeListPool` | the mutex pool; with one thread the fixed pool | lock, test, the two steps of the list, unlock; users writing over their blocks |
| `LockFreePool` | the lock-free pool | load, read of the link, compare-and-swap or retry |
| `LockFreePoolTest` | `run_threaded_test()` on it | each thread's vector; allocate, give back in order |
| `ThreadLocalPool` | the thread-local pools of a program | one list per thread as a sequence, of blocks of any pool; a batch fetched block by block; threads come and go, and so do pools, a new one possibly in the memory of one destroyed |
| `ThreadLocalPoolLinked` | one thread-local pool down to its links | `LockFreePool` as the centre, `local_free_list_` as a head, the steps of `allocate()` of the centre one by one |
| `ThreadLocalPoolTest` | `run_threaded_test()` on `ThreadLocalPool` | construct, allocate, give back, exit, join, destroy |
| `GeneralPool` | the general pool on `ThreadLocalPool` | size class, the first word of each block (header or link), `malloc()` fallback, construction, destruction |
| `TestProgram` | `main` of `test_memory_pool.cpp` from the test of the thread-local pool on | the threaded test, then `test_general_pool()` call by call |
| `BoundedCache` | abstract: what a cache promises | contents that `put` extends; when full it may evict one key, for a key it holds already only if the policy makes room first |
| `CachePolicy` | the constants of both caches | - |
| `LRUCache`, `LFUCache` | the two caches | one action per call and branch |
| `ArrayInputs` | the arrays and numbers the algorithms are given | constants only |
| `Searches` | the binary searches and two-pointer loops | one action per turn of a loop |
| `SortColors`, `NthElement` | the partitions | one action per turn |
| `Greedy` | the greedy solutions as folds | one action per call |
| `Counting` | the counting solutions and the values of an expression | one action per call |
| `Windows` | `minWindow()` | one action per turn of each loop |
| `Traversals` | islands, water flow, perfect squares | one action per call of `dfs()` or turn of the queue loop |
| `Optima` | what the greedy solutions should compute, by search through everything | operators only |

How they are put together:

- `BoundedFifo` is refined by `SPSCQueue`, `SPSCBlockingQueue` and
  `SPSCTimeoutQueue` (`FifoSpec`), all of which extend `RingIndex`; the latter
  two also `Monitor`.
- `BlockAllocator` is refined by `LockFreePool` (`AllocatorSpec`); `BoundedCache`
  by both caches (`LRUCacheSpec`, `LFUCacheSpec`).
- `ThreadLocalPool` is what the thread-local pool does to whole lists;
  `ThreadLocalPoolLinked` extends `LockFreePool` and implements it
  (`ThreadLocalSpec`): the abstract lists are found by following the links, the
  abstract fetch is the compare-and-swap that succeeds, and everything read on
  the way, stale links included, is a stutter. Nothing is ever given back to the
  centre, so its `Freers` is empty, the case in which `LockFreePool` stays intact
  for any number of allocating threads. Both are proved.
- `GeneralPool` and `ThreadLocalPoolTest` extend `ThreadLocalPool`;
  `TestProgram` extends both, over one set of thread-local lists, as the program does.
- `MCLockFree` runs the lock-free queue and the lock-free pool side by side,
  `MCPools` three uses of the thread-local pool, `MCSerialCode` the
  parts whose calls do not overlap; each behaviour uses one of them.

Some operators are marked "Fault" in a comment: each is a variant of a
definition with a plausible mistake (a guard dropped, a reload forgotten).
No specification uses them; replacing the definition by one makes TLC report the
property that `PROJECT.json` pairs with it.

### What is abstracted

- Items, keys, values and payloads are model values; the queues move or copy
  them without looking at them. Hashing, printing and output formats are left out.
- Pool memory: a block is a number; its first word holds a link or what its user
  wrote (`Payload`). Addresses, alignment and block sizes matter only in
  `GeneralPool`, where the size of a block is that of its pool and its first word
  is the header while the object is in use, and `Link` while it is free.
- In `ThreadLocalPool` alone a pool may be made in memory of a destroyed one. The
  general pool and the linked thread-local pool are constructed once in a behaviour,
  so in the runs their memory is fresh.
- `SPSCQueue` uses the release/acquire fragment of the C++ memory model: a load
  may return any store not older than what its thread has seen; acquiring a
  release store brings its writer's view along. The lock-free pool is
  sequentially consistent: none of its loads acquires, so what C++ allows there
  is not covered.
- A mutex is held by one thread at most and wakes contenders in any order; a
  condition variable may wake at any time.
- The clock of the timeout queue advances for all calls at once, in ticks finer
  than a millisecond. A timed call is compared with what it was asked in ticks.
- The links of the central pool and of the thread lists are written in one step
  with the head that follows: nobody else depends on what it reads in between.
- Characters and numbers of the counting solutions are small integers; the order of
  a hash map, of a heap's equal elements and of `std::nth_element` is any that
  may be. The text of an expression is given as its numbers and operators.
- The algorithms are modelled over mathematical integers. Within the bounds no
  intermediate result comes near 2^31.

## 3. Runs

| run | shows | distinct states |
|---|---|---|
| `lock_free` | the queue: no data race, FIFO, `full()`/`empty()` are reliable for the thread that may act on them, all items get through; the pool with one allocating thread and three giving back: list intact, no block shared, lock-freedom | 29,726 |
| `spsc_queue_observer` | *violated*: a third thread may be told a size the queue never had | |
| `spsc_blocking_queue` | no lost wake-up with two threads closing, the stream ends only when drained, `push` and `pop` return, items arrive | 19,291 |
| `spsc_timeout_queue` | the same in every mixture of modes, nothing missed at a timeout, the whole milliseconds of the time asked waited in full, timed calls return | 154,482 |
| `spsc_timeout_queue_uninitialised` | *violated*: a push writes a slot that was never allocated | |
| `lock_free_pool_test` | *violated*: in the threaded test of the lock-free pool, with two threads, a block in use becomes the head of the list | |
| `thread_local_race` | *violated*: a thread fetching from the centre reads the link of a block in the list of another thread | |
| `pools` | any use of the general pool by threads that keep to one size class, the threaded test on the thread-local pool, any use of the linked thread-local pool: every block in one place, objects large enough, header and link of a block never confused, the spare blocks suffice, the links implement the lists | 279,784 |
| `test_program` | *violated*: `test_general_pool()` is given blocks of the pool of the test before it | |
| `serial_code` | the caches, the ring, the mutex pool and all algorithms, each for itself | 279,923 |
| `lfu_cache_least_frequent` | *violated*: `put` evicts a key used more often than another | |
| `frequency_sort_by_queue` | *violated*: the priority queue brings the characters in the order of their codes, whatever their frequencies | |

### Bounds, and why they are enough

- **Lock-free queue.** Three slots and six items, so that every slot
  is written twice and each index wraps; any load may be as stale as the
  memory model lets it. Each item is `a` or `b`, chosen at the push: among the
  choices is every sequence that tells two places of the queue apart.
- **Blocking queue.** One place, the size at which producer and consumer block each
  other most, and up to four items of two values. Only one item is inside at a time,
  so what can go wrong here is loss, repetition and a wrong slot; that more
  come out in order is proved for every capacity (`ImplementsFifo`). Two closing threads
  show that closing twice is harmless; no third adds anything, as `is_closed_` is
  then already set.
- **Timeout queue.** Two places and four different items in a fixed order (`Stream`),
  one and a third times around a ring of three slots: two items that change places, and
  one that is lost or delivered twice, show. That the order is fixed loses nothing, as
  the queue never looks at an item. A tick is half a millisecond
  and the timed calls ask for three ticks, which `duration_cast` cuts to one
  millisecond: the call must wait two ticks and may give up before the third. `InitialSizes = {3}` is
  the size that was meant; sizes too small have a run of their own.
- **Lock-free pool.** Two blocks and three giving threads make every pair of
  stale head and stale link; ABA needs three blocks (take, take, give back)
  and two threads. The test has `ALLOCS_PER_THREAD * threads + 1` of them: two
  allocations per thread are enough for ABA in the middle of its loops.
- **Linked thread-local pool.** Two threads that may exit and start again, three
  blocks, batches of two: one thread gets a full batch, the other a short one, blocks
  change lists, and a list is read while its block is on its way elsewhere.
- **Threaded test.** Two workers with three allocations and batches of
  two, and the constructor's formula for the blocks: workers need two batches
  each and can strand one block each, which the formula is about.
- **General pool.** All seven classes (8, 16, ... 512), at the borders: two threads share
  the second class by asking for 9, one above the limit of the first; the third
  asks for 257 and 512, the ends of the last class, and for 513, which goes to `malloc()`.
  A batch ends early, blocks change threads, threads exit.
  With more than one class per thread the property fails: that is the run
  `test_program`, which makes the calls of `test_general_pool()` in order.
- **Caches.** Four keys for three places: each key can be evicted and come back.
  `MaxFreq = 3` bounds how often a key is used.
- **Ring and mutex pool.** Capacity 3 with items of two values wraps at every
  fill level; three threads on three blocks.
- **Algorithms.** All arrays of up to five of the numbers 1 to 4, up to four of
  three heights for the greedy and counting solutions, numbers up to 26 for roots
  and sums of squares (23 is the first that needs four squares after 7 and 15),
  texts of up to five of three characters with every set of them to cover, all
  3 x 3 grids of land and water, all 2 x 3 grids of three heights and 3 x 3 grids of two,
  expressions of up to four numbers: every parity of a range, every place of the answer, runs and ties.
  `Narrows` and `Sorts` say in each turn that the answer is still inside and that
  the range has shrunk, so that a loop ends without an assumption on fairness.

Histories (`sent`, `got`, `ended`, `passed`, `turns`, `due`, `recent`, `last`) are
variables of the models only: no guard reads them except `Len(sent) < MaxItems`.

### Fairness

| assumed | where | justified by |
|---|---|---|
| weak fairness of every step inside a call | all concurrent models | the scheduler runs a ready thread |
| strong fairness of locking | blocking and timeout queue | mutexes starve nobody for ever on the platforms used; without it one thread could lock and unlock for ever |
| strong fairness of a compare-and-swap that has not lost its head | lock-free pool | `compare_exchange_weak` may fail spuriously, not for ever |
| time passes, an expired sleep ends, `close()` finishes | timeout queue | the clock |
| both threads keep calling and a store is eventually seen | lock-free queue | its calls never wait: the client loops; [atomics.order] asks for visibility |
| the consumer calls `pop()` again | blocking queue | its uses in `msg_queue_design.md` (producer-consumer, task queue): a `push` on a full queue may rightly wait for ever for a consumer that has stopped |

Nobody has to push or to close. Liveness that needs a caller says so:
`PushReturns` needs the consumer, `PopReturnsOnceClosed` a `close()`,
`TimedCallsReturn` nobody. `LockFree` says that some call completes and not
that each one does: the pools are lock-free, not wait-free. Nothing is assumed
of the thread-local pool: its own code never repeats anything, and the loops it
calls are those of the lock-free pool.

## 4. Proofs

Eight modules, checked by TLAPS without any unproved leaf. Items, capacities, numbers
of blocks, threads, closers, keys, characters and elements of arrays are arbitrary; the assumptions on
constants are those named in the modules (`Capacity \in Nat`, distinct threads,
`NoItem \notin Items`, ...). Where a theorem needs more than the specification, it says so:

| hypothesis | of | says | why the code justifies it |
|---|---|---|---|
| `SafeUse` | `LockFreePool_proofs` | one thread allocates, or nothing is given back | it does not in general: the run `lock_free_pool_test` violates the property without it. The centre of the thread-local pool is used so |
| `Allocated` | `SPSCTimeoutQueue_proofs` | `buffer_` got at least `capacity + 1` slots | it does not: the size is read uninitialised. With fewer slots the first write behind them is undefined (run `spsc_timeout_queue_uninitialised`); the theorems say that this is all that is wrong |
| `MemoryIsFresh` | `BlocksAreOwnedOnce` only | no pool is made in memory of a destroyed one of which a list or a user still holds blocks | it does not: `malloc()` may return such memory, and the destructor leaves the static lists as they are (`thread_local_memory_pool.cpp:6`, `:11`). Without the hypothesis the theorem is false (section 5) |
| `OneClassPerThread` | `ConfinedThreadsGetTheirClass` only | each thread keeps to one size class | it does not: run `test_program` |
| `TestParameters` | `SparesAreEnough` only | finitely many workers, batches of one block at least | the constants of `test_memory_pool.cpp` and `fixed_memory_pool.h` |
| `BLOCKS_TO_FETCH \in Nat` | `LinkedImplementsThreadLocal` only | a batch is a number of blocks | a `size_t` constant |
| `Payload \notin Nat` | `LinksImplementLists` only | what users write is told apart from links | an assumption of `PoolBlocks`, restated for the instance |
| `WindowAssumption` | `NoWindowIsPassedOver` only | finitely many characters, strings shorter than `INT_MAX` | `char`; the lengths are `int`s in the code, and `INT_MAX` stands for "none" |

### The queues

- **`RingIndex_proofs`**: what `% (capacity + 1)` does to counters that only grow.
  `AdvanceSlot`, `SlotsDiffer` (fewer than `capacity + 1` apart, different slots),
  `SlotsWrap`, `FullMeansFull` and `EmptyMeansEmpty` (the index tests tell exactly
  `capacity` items, or none, between the counters).
- **`SPSCQueue_proofs`**: `TypeCorrect`, `RaceFree`, `PromisesAreKept`,
  `ImplementsFifo`. None is inductive alone. The invariant `IInv` adds that the
  `n`-th store to an atomic is `n` modulo the slots (so an index stands for a
  count), that a thread's view of the other's atomic lies between what it decided
  on and the truth, and that the slots between the counts hold the items sent
  and not yet got. A stale index then errs on the side of refusing, and an
  access to a slot that was used before is preceded by an acquire of the
  store that released it.
- **`SPSCBlockingQueue_proofs`**: `TypeCorrect`, `NoWakeupIsLost`,
  `FalseEndsTheStream`, `ImplementsFifo`. `IInv` is `TypeOK`, `Roles` (who can be
  where, and that a thread in its critical section owns the mutex), `Decisions`
  (what a thread tested under the mutex is still true when it acts), `RingOK` (the
  ring holds what was pushed and not popped), `NoLostWakeup` itself and `Drained`
  (once `pop` has refused, the queue is closed and as much was got as was sent).
  `Decisions` is what makes the gap between test and sleep
  harmless: the state can change in it only by a thread that holds the mutex.
- **`SPSCTimeoutQueue_proofs`**: `TypeCorrect`, `WritesStayInside`, `NoWakeupIsLost`,
  `FalseIsJustified`, `FalseEndsTheStream`, `TimedCallsWait`, `ImplementsFifo`. The
  argument is that of the blocking queue with three ways to stop waiting. A timeout
  only takes the thread out of `waiting`: it must lock the mutex and look again, so
  `Decisions` holds of refusals too, which is `NothingMissed`. `NoLostWakeup` survives
  because a thread whose time runs out no longer needs to be woken. For
  `TimedCallsWait` (what is whole milliseconds of the time asked is waited in full, whatever
  the tick) the second invariant `Clocks` adds up the time passed and the time left
  of a call through every spurious wake-up.

### The pools

- **`LockFreePool_proofs`**: `TypeCorrect`, `ListStaysIntact`,
  `ImplementsAllocator`, each under `SafeUse`. `Inv` keeps the list of free blocks as a
  sequence that the links follow, and says of a thread about to swap that, while the block it
  loaded is free, the link it read is the current one. With one allocator no other
  thread can take that head; if nothing is given back it cannot return.
  On top of it the linked thread-local pool: `LinkedSafety` and `LinkedImplementsThreadLocal`, for any
  use of a pool by any number of threads. `LinkedInv` has four parts besides types.
  `CentralLinked`: nothing is ever given back to the centre, so its list stays the blocks from its
  head down to 1, in this order. `InCalls`: a thread about to swap has read a current link, or its head is out
  of date and above that of the centre, where the swap must fail; this is where the stale, racing
  read of `head->next` turns out to do no harm. `ListsLinked`: the links from
  `local_free_list_` pass through finitely many different blocks and end. `OneOwner`: a block taken
  from the centre is in one thread's list, on its way into one, or in use.
  `ListsLinked` needs a description of a list that a write elsewhere leaves alone
  (`Chain`, `ChainSame`, `ChainIsList`): what the model finds by following links is
  such a chain. The refinement then maps each step: the swap that succeeds is the abstract fetch of
  one block, except that the list it goes to is written only in a later step, so the mapping puts the
  block a thread is bringing (`Bringing`) in its list from the swap on; all other steps inside the
  centre are stutters.
- **`ThreadLocalPool_proofs`**, of `ThreadLocalPool` and what extends it:
  - any use of the thread-local pools, by pools that may be destroyed and made again:
    `BlocksAreOwnedOnce`, under `MemoryIsFresh`. `LocalInv` adds to it that a
    call is one of a living pool and that no block is out of a pool whose constructor has not
    run. The hypothesis is used in one place, `CreatePoolStep`: a constructor gives its centre all
    blocks of its memory, and must find none of them in a list or in use (`Unheld`).
  - one general pool on top of it, constructed once, which needs no such hypothesis
    (`UnbornIsUnheld`): `GeneralBlocksAreOwnedOnce`, `HeadersTellTheOwner` and
    `ConfinedThreadsGetTheirClass`. `HeadersOK`: the first word of an object in use is a header, which
    tells pool from `malloc()`; that of a block in a list is a link; and a thread in mid-call asks the pool of the class of its size.
    `ClassesOK`: the blocks that wait in a confined thread's list are of its class.
    `ClassOfSize`: the limits of `get_size_class_index()`, written out apart from the shifts of
    the constructor, give every managed size a class whose blocks hold it.
  - the threaded test: `SparesAreEnough`. An assertion fails only if the centre is
    exhausted while a worker has none. Each worker has fetched at most
    `ALLOCS_PER_THREAD + BLOCKS_TO_FETCH - 1` blocks, and the constructor asks for that
    many per worker, and one more: if all were gone, some worker would have more than it
    can have fetched (`PoolOutlastsWorkers`). `Sharing` says who fetched which blocks; while
    a worker allocates it still has all that it fetched, as it gives none back before.
  - all of it together, as `MCPools` runs it: `LinksImplementLists` carries
    `LinkedImplementsThreadLocal` over to the linked pool there (two threads,
    three blocks), which follows `LinkedSpec` whatever the others do.

### Code whose calls do not overlap

`MCSerialCode` has behaviours that use one part each. Its constants are arbitrary here, not those of the
run. **`SerialCode_proofs`** is about ring, mutex pool, caches and window:

- Ring buffer, `RingIsAQueue`: the slots from `head_` on hold what is inside, modulo
  `capacity + 1` (`RingIndex_proofs`), which `clear()` re-establishes.
- Mutex pool, `PoolListStaysIntact`: as in the lock-free pool the free blocks are kept as a sequence that
  the links follow. `Handled` says what the one thread that owns the mutex
  has in its hands between the steps of a list change: the head it is about to unlink,
  or a block that is in nobody's use and on no list.
- LRU, `LRUKeepsTheMostRecent` and `LRUImplementsCache`: the keys of the list are, place by
  place, the first of the history of uses, without repetition. `get()` moves one place
  to the front of both (`From` is the permutation); eviction drops the last of the list, which is
  the `capacity_`-th of the history.
- LFU, `LFUKeepsItsMaps`, `LFUDropsTheOldest`, `LFUImplementsCache`: `Agree` says that every key
  is on the list of its own frequency and on no other, once, that lists are in the
  order of the history, and `MinFound` that the list of `min_freq_` is not empty while the cache is not.
  A key that is promoted leaves the list of `min_freq_` empty only when it is
  itself the next smallest: that is what `min_freq_++` rests on.
- Sliding window, `NoWindowIsPassedOver`: `WindowLoop` says what a turn of the loops relies on: the
  counts are those of the window, `valid` the number of characters of `t` in it; nothing from `left`
  on covered `t` before `right` was reached; and what begins before `left` is no shorter than
  `len`. Hence a window that covers `t` is the shortest that begins at `left`, and the
  next one may begin after it.

**`Arrays_proofs`** is about the loops over arrays:

- Partitions, `PartitionsSortAndSelect`. `ColorsInv`: the three regions, and as many of each color
  as there were, which a swap keeps (`SwapKeepsCounts`, by a bijection of places). `NthInv`: what is
  before `left` is not above what is inside, what is behind `right` not below it, `n` is
  between them, the elements are those passed in, and `Divided`, the two regions of `partition()`. When `partition()`
  returns `n`, counting the elements below and up to the pivot gives the answer.
- Binary searches and two pointers, `SearchesFind`. `SearchInv` has for each function an interval that
  holds its answer: `FirstBadWithin`, `RootWithin`, `MinWithin`, `RangeWithin`, `SingleWithin`,
  `SumWithin`, `SquaresWithin`. It is stated by what the answer is for the whole array, not by
  what was compared: the least element is at the place from which nothing is above the last (`RisesFrom`),
  the pairs before the single element start at even places and those behind it at odd ones
  (`StandsAlone`). That the arrays the functions are called with have such a place is proved from
  their descriptions (rotated; sorted, with pairs) by taking the least number with a property
  (`LeastOf`), which the library's `WFMin` gives without an induction. For a
  single element at the last place `SingleWithin` says that the range closes on it or,
  when what is read behind the end happens to equal it, behind it.

Each proof has one lemma per action and, in it, one step per part of the invariant the
action can disturb. The refinement theorems name the abstract step of each
action that is not a stutter. TLC finds the inductive invariants true on the
instances of section 3 (`Sharing` excepted: its witnesses are too many to enumerate).

### Only model-checked

- All liveness (`AllThroughOnceUsed`, `PushReturns`, `LockFree`, ...) and whatever needs `ENABLED`: the prover
  has no rules for fairness.
- `AnswersAreRight` and `TraversalsFindAll`: they compare folds and searches with a
  reference definition, and what a recursive definition computes for every input needs
  induction over data.

Every other property of the passing runs is stated by a theorem.

## 5. Findings

Where code and documentation disagree. Each has a run that ends in the violation.

1. `spsc_queue.h:133`: the queries load the two indices separately and relaxed. A
   third thread can combine an old `head_` with a new `tail_` and be told "full" of
   a queue that never was; the documentation says the result may at worst be
   outdated.
2. `spsc_timeout_queue.h:118`: `buffer_` is declared before `buffer_capacity_` and so
   built from an uninitialised member.
3. Lock-free pool, `fixed_memory_pool.cpp:33`: ABA does corrupt the list, against
   the pool's README, as soon as two threads allocate and give back, as in the
   repository's own threaded test.
4. Thread-local pool: its README says that the list of a thread is free of data
   races. The centre reads `head->next` before its compare-and-swap, from a block that
   may be in the list of another thread by then, and is written there. The swap
   fails in that case, so the value does no harm (`ThreadLocalSpec`), but the
   race is undefined behaviour in C++.
5. General pool, `thread_local_memory_pool.cpp:6`: the static list of
   a thread is shared by every pool of the program, alive or not. In the test
   program `allocate(8)` and `allocate(512)` are given blocks of 32 bytes from a pool
   that has been destroyed.
6. `lfu_cache.h:107`: a new key does not lower `min_freq_`, and the key used least is
   not the one that leaves. (What does hold is `LFUEvictsTheOldest`: the longest
   unused of the list that `min_freq_` points at.)
7. `sort_characters_by_frequency.cpp:48`: the priority queue compares pairs of character and
   frequency and brings the smallest first, so the text comes out in the order of its
   characters; the comment says by frequency from high to low. (What does hold, by
   `CountingIsRight`: the same characters, equal ones together.)

Noticed while reading, without a run:

- `spsc_blocking_queue.h`: `push()` returns `false` on a closed queue;
  `msg_queue_design.md:60` says it always succeeds.
- `spsc_timeout_queue.h:138`: durations are cut to milliseconds, and one below a
  millisecond does not wait at all. `WaitsAsAsked` promises what is left after the cut. Very
  long durations overflow in `wait_for`.
- `thread_local_memory_pool.cpp:11`: the destructor leaves the lists of the
  threads as they are. When `malloc()` gives a later pool the same memory, a block is in a
  list and in the new centre, and is handed out twice. TLC finds this in `ThreadLocalPool` when
  `EachBlockOnce` is checked of its `Spec` (fetch, take, give back, destroy, create in the same
  memory). The cause is that of finding 5, whose run keeps the memory of the two pools
  apart; here it is the hypothesis of `BlocksAreOwnedOnce`.
- `non_overlapping_intervals.cpp:30`: `>=` lets an empty interval come behind the one it ends
  with, but not before it. Of `[1,1]` and `[0,1]`, in this order, one is removed and none need be;
  `std::sort`, which compares ends only, may leave them so. `AnswersAreRight` asks for
  the optimum unless an empty interval stands before another one with its end (`EmptyOnesLast`), and for no less
  than the optimum always.
- `lfu_cache.h:85`: `put()` of a key that the full cache holds evicts a key, often another one,
  before it looks. `MakesRoomFirst` says so of this cache; the LRU cache is shown not to.
- `capacity + 1` is 0 for the largest `size_t`; `LFUCache` takes a negative
  capacity as an unbounded one, and its frequency can overflow.
- `single_element_in_a_sorted_array.cpp:19` reads past the end when the single
  element is the last. The model lets the read give any value: the loop still ends, and
  the answer is right unless that value equals the element, when what is returned is
  itself read behind the end.
- `Sum_of_Square_Numbers.cpp` misses `a == b` and its squares overflow near 2^31;
  `Reverse_Vowels_of_a_String.cpp` holds the same text.
- `minCoverSubString.cpp`: with an empty `t` the window would shrink past the end of the
  string; no caller passes one.
- `pacific_atlantic_water_flow.cpp:25`: `ans` is a member and not cleared, so a second
  call on the same object returns the cells of the first as well.
- `malloc()` may fail in the constructor of a pool, which writes its list through the
  result at once. The construction is one step in the models and has its memory.
- `benchmark_memory_pool.cpp` does not look at what `allocate()` returns. The pools it
  makes have no spare blocks for the thread lists, and the general pool has 1024
  per class, so that part of what it times are calls that return null.

## 6. Plan

Done: inventory; queues, pools, caches and all algorithms; the pools composed
with each other and with their test program; proofs of every safety property of the queues, pools,
caches, the ring, the searches, the partitions and the sliding window. What is left unproved is
listed at the end of section 4.

To model, as far as it goes: the C++ memory order of the lock-free pool with
modification orders as in `SPSCQueue`, to find whether its relaxed loads do harm
beyond the race above.

### Not modelled

- `single_thread_queue.h` forwards to `std::queue`.
- The MPMC queues exist as a plan only.
- The benchmark and the plots use the pools as the tests do and keep no state of
  their own.
- The class diagrams and language experiments: no state outlives a statement that
  prints it.
