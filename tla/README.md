# xplatbase in TLA+

Specifications of xplatbase: its thread pool, today's and the earlier ones, its
memory pool, its queues, its platform services and its sequential data
structures. TLC checks them on small instances. TLAPS proves, for every value
of the constants, the safety of the pool's ring, its deque, its dispatch, the
parking of its cores, its monitor, of the spans of the memory pool and of the
public ring.

Source paths are relative to `src/Xplatbase/Xplatbase/src/`. `PROJECT.json`
names, for every definition, the lines it models; for every property, a bug
seeded in the model that breaks it; under `hazards`, what is hard to test and
which property is aimed at it; under `theorems`, what is proved.

## 1. The system

xplatbase is a C library for Windows and Linux. Its parts, the state each
keeps, and what makes it right:

| Part | State | Operations | Correct when |
|---|---|---|---|
| Shard ring (`thread_pool.c` 236-317) | `head`, `tail`, cells with `seq` | `pool_ring_push`, `pool_ring_pop_batch`, by any thread | one owner per cell at a time, FIFO, nothing lost or doubled, full and empty told truly |
| Worker deque (332-377) | `top`, `bottom`, slots of two words | owner `push`/`take`, thieves `steal` | each task handed over once and whole |
| Submit and dispatch (449-503, 838-890) | counters `ctrs[]`, LIFO slot, private batch, `stop` | `submit_relative`, `pool_try_get`, `pool_run`, `wait_idle` | nothing lost, counters sum to unfinished work, no starvation |
| Parking (505-699), `thread_wait.h` | `parked`, `n_parked_core`, `n_girando`, one wait word per thread | spin, announce, retest, sleep, wake, timeout | no task queued while everybody sleeps, counts do not drift |
| Monitor and elastic workers (627-660, 703-783) | elastic `parked`, `start_count`, `in_task` | detect stuck workers, activate and retire elastic ones | an activation is not lost, the monitor ends |
| Create and destroy (785-835, 892-918) | the pool itself | allocate, start, stop, join, drain | partial failure undone, destroy comes back |
| Memory pool, chunks (`memory_pool.c` 412-572) | per-thread caches, global cache, segments | acquire, release, automatic and explicit purge, shutdown | a chunk has one holder, no chunk of a returned segment is reachable |
| Memory pool, spans (664-1026, 1324-1395) | headers, class lists and full list per heap, remote lists | alloc, refill, local and remote free, thread end | a block is in one place, `used` exact, lists match state |
| Memory pool, buffers (1028-1290) | `MemBuffer` records, class table | alloc, calloc, realloc, free, copy, append | contents kept, sizes enough, failures leave what was there |
| `ring_queue.c` | head, tail, cells with sequence and peek guard | SPSC and MPMC push, pop, peek, count | as the shard ring; a peek sees a whole item that is in the queue |
| Thread registry, wrappers (`thread_handler.c`) | list of live threads | create, exit, join, enum | a listed thread is alive and its record is complete |
| Leak watch (`mem_leak_watch.c`) | `g_running`, its thread, locks, sites | start, stop, scan by hand and by timer | one timer, stop ends exactly what start started, no scan waits for a thread it stopped |
| Instance registry (`xplat_instance.c`) | one shared record per process | register, read, release | one copy of the library is the first, nobody reads a half-written record |
| Lists, strings, numbers, events | sequential data | add, remove, search, parse, report | sequential specification, whatever allocation fails |
| Earlier pools (`versions/`, and one under `src/Tester/`) | as today's, in other arrangements | submit, run, park, rescue lanes, destroy | as today's |
| Start-up (`xplatbase.c`), atomics, activity, headers | none of their own | – | – |

Interactions. `pool_submit` from outside pushes on a shard ring, counts on the
shard's counter and wakes a core. From inside a task it goes to the worker's
LIFO slot, pushing the slot's former task to the deque; if that is full the
task runs nested. Workers look in their slot, batch, deque, the rings and then
the others' deques; they spin, then announce themselves and sleep on the wait
word of their thread, with a timeout. Each thread has a heap of the memory
pool, made at its first allocation and abandoned at its end. A block freed by
another thread goes to a list in the span that its owner drains. Spans are
carved from chunks, chunks from segments of the operating system. Lists and
strings live in buffers of the memory pool and report to the event handler. The
leak watch suspends the threads of the registry one at a time and reads the
memory pool's table of spans.

What is hard: weak memory (store buffering between publishing and testing
flags; the owner of a deque against thieves), stale positions and wrap-around,
counters summed while they move, sleeps against wakes, timeouts racing
signals, remote frees against release of the span, purge against caches,
threads that end leaving blocks in use, segments made outside the lock,
threads suspended while they hold a lock, lanes handed over while they close,
a pool shut down by one of its own tasks.

## 2. The modules

| Module | Models |
|---|---|
| `TaskChannel` | what a queue promises: a bounded FIFO taken in batches; refined by `PoolRing` and `RingQueue`, relied on by `PoolDispatch` |
| `PoolRing` | the shard ring, one action per access to shared memory |
| `TaskDeque` | what a deque promises; refined by `PoolDeque`, relied on by `PoolDispatch` |
| `PoolDeque` | the Chase-Lev deque with the owner's store buffer |
| `RingQueue` | the public ring, single and multi producer, peek and count, wrapping counters |
| `PoolDispatch` | submission, `pool_try_get`, `pool_run`, counters, `wait_idle`, `destroy` |
| `PoolParking` | looking, spinning, announcing, sleeping and waking, with store buffers |
| `PoolMonitor` | create with its failures, monitor, elastic workers, profile, destroy |
| `MemChunks` | chunk caches, segments, purge, shutdown |
| `MemSpans` | spans, refill, local and remote free, large blocks, thread end |
| `MemBuffers` | sizes and contents of blocks, the `memop_*` calls and their failures, the error handler |
| `TextStore`, `Strings` | what strings promise; `StringX`, which refines it |
| `Lists`, `Numbers` | `ListX`; texts to numbers and back |
| `LeakSites` | the table of when spans were made, and the search for the span of a word |
| `ThreadRegistry`, `LeakWatch` | the registry of threads; the leak watch over it |
| `InstanceRegistry` | the record of the copies in a process, on Windows and on POSIX |
| `EarlierPool`, `PoolV2`, `PoolV202`, `PoolV203`, `PoolV205`, `PoolV3`, `PoolV3Arena`, `PoolV4`, `PoolV20` | the steps the earlier pools share, and each of them |
| `WsLanes`, `WsShutdown` | `versions/thread_pool_wspool.c`: its lanes; its life from create to destroy |
| `MCQueues`, `MCDispatch`, `MCPools`, `MCMonitors`, `MCMemory`, `MCWsPool` | what the runs put side by side |
| `NumberTheorems` | lemmas on remainders, finite sets of numbers and sums over finite sets |
| `PoolRingProofs`, `PoolDequeProofs`, `PoolDispatchProofs`, `PoolParkingProofs`, `PoolMonitorProofs`, `MemSpansProofs`, `RingQueueProofs` | the theorems and their proofs |

`MC*.tla` give constants that a `.cfg` cannot. Where one run holds several
components, its module instantiates them side by side and a variable, `part` or
`subject`, says which one runs in a behaviour: the others' variables keep
their initial values. The run then checks each component on its own, under one
configuration.

**PoolRing.** `tail`, `head`, `seq`, `cell` are the fields of the C struct;
`ppc`/`ppos`/`ptask` are the registers of a push, `cpc`/`cpos`/`cn`/`ci`/`out`
of a pop. Positions are kept unwrapped, but each comparison the code makes is
made on low bits (`SameBits`, `Dif`), and `Start` puts a run just before the
wrap. A position held by a stopped thread may be overtaken by at most `MaxLag`
(`TailMayAdvance`, `HeadMayAdvance`): with 32-bit positions that is 2^31
operations by others during one push or pop, which the code does not defend
against either. `log` and `result` are history for the properties.

**PoolDeque.** Stores by the owner go to `buffer` and reach memory later, in
order (x86-TSO); `pool_fence` and a CAS wait for an empty buffer. A slot is two
words, read by a thief one at a time before it owns the slot. Indices are
unbounded: the code's are 64 bits wide.

**RingQueue.** `head`, `tail`, `seqno`, `guard`, `cell` are the fields of the
C struct, `me` the place and the locals of each agent. Counters wrap at
`Modulus` and are kept wrapped. `mode` is how the ring is used ("one" for
`push_`/`pop_`, "many" for `push_mp_`/`pop_mc_`), `team` who uses it. `log` and
`answer` are history.

**PoolDispatch.** A task is a name with a list of tasks it spawns (`Kids`).
`frames` is the C stack of a worker, so a nested run is one more frame. Rings
and deques are used through the abstract modules' steps; a scan visits shards
and victims once each, in any order, which stands for the cursors. A miss is
only possible where the abstract modules allow one. `owed`, `due` and `clean`
are history. The pool has one shard in the runs but for `dispatch_wait`.

**PoolParking.** Tasks are counted. `buf` is the store buffer of each thread,
`claimed`/`ring` separate a claimed ring position from a published one,
`kpc`.. is a walk through `pool_wake_submit` and `pool_wake_one_core`, run by
submitters and by cores alike. A spin lasts any length. Profile performance
with its defaults.

**PoolMonitor.** `mpc` is the thread that creates, submits, changes the profile
and destroys, following a plan; `mon` and the `mi`, `msum`, `msc`.. beside it
are `pool_monitor_fn` and its locals; `pc` is each worker. Both totals are read
one counter at a time, `start_count` and `in_task` one after the other.
Ordinary workers always look (their sleep is `PoolParking`'s), tasks do not
spawn (`PoolDispatch`'s), and a long task is one that does not end while others
wait in the ring: the case elastic workers are for. Timeouts may come at any
time. `worked` and `same` are history. A pool whose counters could not be
allocated ends in `mpc = "crashed"`: see section 3.

**MemChunks.** What happens under `cache_lock` is one action. Time is left
open: an evaluation of the purge may be too early, and any idle segment but the
one idle since now may have waited long enough. The averages and the hysteresis
are computed as in the code. A thread that ends may be followed by another in
its place. Shutdown comes when no thread works, and frees everything.

**MemSpans.** `span` holds the headers; a span's remote list is a sequence and
a remote free is two steps, reading the head and the CAS, which fails if the
head changed. What only the owner touches between two accesses to the remote
list is one step: a drain and what follows it are one action. Chunks come and
go as `MemChunks` shows they may. `Heaps` bounds the heaps ever made; a heap
whose thread ended is never used again, as in the code.

**MemBuffers, Strings, Lists, Numbers.** One thread, any sequence of calls up
to a bound, any allocation failing. Bytes are kept where the contents matter: a
caller writes 1, 2, 3.. so that each says where it belongs, and `Junk` is what
memory held before. An `int` has `Width` values and wraps. In `MemBuffers` a
`size_t` has `Space` values and the stride kept of a block `Width`: a block says
how much it holds (`usable`, cut) and holds `room`, which is more from 4 GB on
and less where the size wrapped with its header. A write past the room ends the
behaviour (`crashed`), as does the library's own error handler.

**LeakSites, ThreadRegistry, LeakWatch.** A scan is taken lock by lock and
thread by thread, because the thread it suspends may hold the registry's lock
or the C heap's. What a scan finds is `LeakSites`'s: a hash table of fixed size
whose entries are only ever taken over.

**InstanceRegistry.** Copies of the library register and release one step at a
time, with the loader serialising them or not, with a file left by an earlier
process or not, and with inodes that outlive the name.

**EarlierPool and the pools on it.** Queues and deques are atomic here
(`PoolDeque` and `RingQueue` show they may be taken so); each version's module
has the steps in which it differs: in what order it looks, what it counts, whom
it wakes, how it sleeps and how it is destroyed.

**WsLanes, WsShutdown.** Lanes with owners, rescue helpers, a reserve, stealing,
expansion and contraction, one step for each access to what others use; and,
with the lanes reduced to a bounded queue, create and its failures, submits in
flight, a shutdown asked for by a task, the drain and join timeouts, forced
ends, and what is freed when. `pool` is the pool of a behaviour, on Windows or on
POSIX: only on Windows does `HandleDead` see an ended thread and a forced end
need nothing of the thread; on POSIX it takes a `ThreadCancelled`, for which no
fairness is assumed.

## 3. The runs

| Run | Question | Bounds |
|---|---|---|
| `queues` | Do racing pushes and pops keep cells exclusive and implement a bounded FIFO across the wrap? Are refusals justified? Does the deque implement the abstract one under store buffering? Does the public ring, with peek and count? | shard ring: 2 producers, 2 consumers, 3 tasks, 2 cells, batches of 2, positions modulo 32 starting at 30. Deque: owner and 2 thieves, 3 tasks, 2 slots. Public ring: 2 slots, counters modulo 8 starting at 7, teams of 2 and 2, or of 1 and 1 and one that looks, 2 retries |
| `dispatch` | Is nothing lost or miscounted, what does `wait_idle` know, does every task start and `destroy` return? | 2 workers, ring of 2, deque of 1, LIFO streak of 1, batches of 2; a wide tree, a tree beside a second submitter, a self-resubmitting task with more plain ones than fit |
| `dispatch_wait` (violation) | Does `pool_wait_idle` wait for what was submitted before? | 2 workers, 2 shards |
| `parking` | Are the counts exact, is a claimed core woken, does the test after announcing leave nothing behind? In every generation of the pool. | today's: 2 cores, 1 submitter, one submission or one task spawned; the earlier ones: 2 workers, queues of 1, up to 4 tasks |
| `parking_fence` (violation) | Does no submitted task depend on the timeout? | 1 core, 1 submitter |
| `parking_steal` (violation) | Does a spawned task find a core that is asleep? | 3 cores |
| `pool_monitor` | Is a pool freed only when all ended, whatever failed in create? Does the long sleep miss no work, is a busy worker judged stuck only if it is, does waiting work get help, does the timer come back, does `destroy` return? Are the registry's threads known, is there one timer of the leak watch, do its scans and stops end? | 1 worker, 1 elastic, stuck from 1, batches of 2; a long task and a short one, economy and a short one, or economy and performance again. Leak watch: 2 threads, 2 callers, four plans |
| `leak_scans` (violation) | Is there one scan at a time? | 2 threads, 2 callers |
| `memory` | Is a block in one place, are the owner's counts exact, do lists match states, is memory asked for only when needed? Is a chunk in one place, are the counts the purge goes by exact, does the purge stop at its target? Is one copy of the library the first? Do buffers, lists, numbers and sites keep their contents, do strings implement texts? | spans: 2 threads, 3 heaps, 2 chunks, 2 classes of 2 blocks, 2 full spans looked at; chunks: 2 threads, 2 segments of 3 spans, local caches of 1, water marks 1 and 2, and 1 thread with 3 segments; 3 copies, 2 inodes; 3 calls in a row on buffers, lists and strings; sizes up to 31, with a stride of 16 values and a `size_t` of 32, so that one size is cut, one wraps and one wraps to nothing; ints of 256 values |
| `ws_pool` | Is the pending count exact, does nobody use what was freed, is a pool given up only when a worker is stuck, does every task run, does destroy return? | lanes: 2 of 1 task, 2 or 3 workers, 1 or 2 tasks, 1 client. Life, on Windows and on POSIX: 2 workers, a queue of 1 and a client that submits twice, or once and a third worker made later |
| `ws_lanes` (violation) | Has an active lane an owner? | as `ws_pool` |
| `ring_of_one` (violation) | Is a ring bounded by its cells? | 1 producer, 1 consumer, 1 cell, 2 items |

Why these are enough. A ring or deque of two slots is full, empty and wrapped
within three or four tasks, and two threads on each side give every pair of
roles on one cell. Two workers give one victim and one thief; the capacities of
one force the deque-full path, nested runs and refused pushes. With two cores
one can spin or be woken while the other sleeps; `parking_steal` needs a third
to spin. Three segments let two be idle while one is current. Two chunks and two
classes let a span be full, be found by the scan of its own class and of the
other, and be released. One worker and one elastic are the least for which a
long task leaves another waiting; the minimum of stuck workers is then 1, where
`POOL_STUCK_MIN` is 2 (on a machine of one core, which has one worker, the code
never activates the elastic one). The safety properties of `pool_monitor` were
also run with two workers, a minimum of 2, two long tasks and a short one (2.4
million states), those of the spans with three chunks and two heaps (6.2
million), and those of the parking with a submission and a task spawned beside
it (3.5 million), without an error; section 4 proves them for every size. Two lanes are
the least that can be opened and closed again, and three workers the least for
an owner, a thief and one in the reserve. `CHECK_DEADLOCK FALSE` is set where
the system may really stop: a destroyed pool, callers with no call left, threads
that all ended.

Fairness. Threads are scheduled (weak fairness of each thread's step), stores
reach memory (`Drain`) and a timed wait expires (`Timeout`). Nothing is assumed
of a CAS that may fail or of who wins a race. `dispatch` has workers that never
sleep; that they sleep and wake is `PoolParking`'s matter. In `MCMonitors` the
fairness of a component's thread is that of its step while its component is the
one that runs: `part` never changes. `WaitingWorkGetsHelp` assumes, as its
antecedent `SomeReachASleeper`, that of infinitely many activations some reach a
worker that is asleep: elastic workers sleep 100 ms, the monitor 5, and an
activation is lost only if it falls in the few instructions in which a worker
that timed out goes back to sleep. Without it TLC finds a monitor and a worker
that keep missing each other in step.

What the properties say:

- *Queues*: `ExclusiveCells`, `CopiesAreTheLog` (a pop copies what the push that
  claimed that position wrote), `RefusedOnlyWhenFull`, `ImplementsChannel`;
  `ImplementsDeque`; of the public ring `ImplementsFifo`, `PeekIsTheItem` (a
  peek that answers shows the item at the head when it looked) and
  `CountWasTrue` (a count is one the ring had during the call, or one that
  could not be had in the retries).
- *Dispatch*: `NothingLost`, `CountersExact`, `WaitIdleExact`,
  `EveryTaskStarts`, `DestroyEnds`. `EveryTaskStarts` does not speak of a
  stopped pool: a task accepted after destroy's wait and before `stop` may stay
  queued.
- *Parking*: `WakersAreRight` (the counts are those of the cores parked and
  spinning, and a core asleep whose flag was claimed is about to be signalled),
  `NobodyLeftAsleep` (with every core asleep and no waker at work nothing is
  queued, unless somebody saw no core parked before its own task was in memory),
  `EarlierPoolsAreRight` (the same of the earlier generations, in their terms).
- *Monitor*: `FreedOnlyWhenDone`, `NoLongSleepWithWork`, `TimerComesBack`,
  `JudgedStuckRanThroughout` (with the one reading it may get wrong: a worker
  that began another task between the two loads), `WaitingWorkGetsHelp`,
  `StopsReturn`. *Leak watch*: `ThreadsAreKnown`, `OneTimer`, `ScansEnd`.
- *Memory*: `ChunksKept` (one place for a chunk, live counts exact, segments
  used up before another is asked for), `LowKept` (an automatic
  purge leaves the low mark, but for the rest of the last segment it takes),
  `ContentsKept` (what was written within what a MemBuffer counts; below 4 GB
  that is all that was asked for), `TextsRight`, `ImplementsTexts`, and
  `OneInstance` for the copies.
- *Spans*: `BlocksInOnePlace`, `UsedExact`, `ListsMatchState`,
  `NewSpanOnlyWhenExhausted`.
- *Lanes*: `PendingExact`, `NobodyUsesFreed`, `PoisonedOnlyIfStuck` (on Windows
  only over a live thread; on POSIX also over one that ended while it was being
  told to stop), `EveryTaskRuns`, `DestroyReturns` (on POSIX unless it joins a
  cancelled thread that never ends).

### What the code does not do

Six runs end in a counterexample to what a comment or the README of the
repository says (`findings`):

1. `pool_wait_idle` may return with tasks unfinished (`dispatch_wait`): the
   counters are summed one by one while a task moves its count from one not yet
   read to one already read. `WaitIdleExact` says what does hold.
2. A submitted task may wait for a timeout (`parking_fence`): between the
   release store that publishes it and the load of `n_parked_core` there is no
   fence. `NobodyLeftAsleep` holds where that reordering does not happen.
3. A spawned task may wait for a timeout or for its spawner (`parking_steal`):
   a spinning core is left to find it, and when that core finds something else
   it looks at the rings only before it leaves the others asleep.
4. A lane of the wspool may be active with nobody to own it (`ws_lanes`): a
   contraction closes the top lane, finds a task in it and opens it again, and
   its owner may have left in between.
5. Two scans of the leak watch may run at once (`leak_scans`): `start`
   initialises the lock of scans again while a scan asked for by hand holds it.
6. A public ring of one cell is not bounded (`ring_of_one`): a cell given back
   and a cell published carry the same number there, so `push_mp` succeeds on
   the full ring and writes over the item. `ring_queue_init` accepts one cell.
   The theorems about the ring assume two. (`WsLanes` has queues of one task: it
   takes the ring as the bounded queue that a ring of two cells or more is.)

Three more disagreements have no run of their own: the passing runs reach them,
and the properties of those runs name them as exceptions.

7. A block above 4 GB does not keep its contents (`memory_pool.h` 58-66: a
   realloc copies the smaller of the old usable size and the new one). The stride
   of a large block is a `uint32` (`memory_pool.c` 897), so `MemBuffer.Size` is
   too small and `memop_realloc` copies only as much. Sizes within a header and a
   span of 2^64 wrap (885): a small block is handed out for them, which
   `memop_calloc_raw` and `memop_realloc_raw` write past. `ContentsKept` speaks of
   the bytes a MemBuffer counts.
8. `memop_copy` and `memop_append` do not return 0 on an error
   (`memory_pool.h` 77-78) under the library's own error handler: it reads the
   context it is given (`event_handler.c` 23-28), and they pass NULL. In the model
   the program is `crashed`, and `ContentsKept` says nothing of it any more.
9. On POSIX the wspool is given up although every worker stopped
   (`thread_pool_wspool.c` 2062: the wait is true if all stopped).
   `pool_stop_all_workers` looks at a worker's state (2119) and then marks it as
   stopping (2120); a worker that ends in between stays marked, and
   `worker_handle_dead` (2035-2041) asks the handle on Windows only. The pool then
   leaks. `PoisonedOnlyIfStuck` names that worker. With `shutdown_force_kill`,
   `pthread_cancel` and a join (342-343) wait for a cancellation point that a
   stuck task may not reach, and destroy with them: `DestroyReturns` says so.

Also seen, and not disagreements with anything stated:

- Thread pool: if `ctrs` cannot be allocated, `pool_create` calls
  `pool_destroy`, whose wait for idle reads the missing counters (`WaitRead`);
  so do `v2_02`, `v2_03` and the arenas of `v3`. A change to the performance
  profile may come just before the monitor announces its long sleep, which then
  lasts up to a second or until the next submit. A stop that comes before the
  monitor prepares that sleep has its signal cleared, and `destroy` waits for
  the same second. The cap on the LIFO streak serves the deque and the ring in
  turn, so two tasks that both respawn themselves on one worker can keep it from
  the shards. The wait for idle sums counters in `v2`, `v4`, `v20` and the
  arenas too; in `v3`, with one counter, it is exact.
- Memory pool: two threads that make a segment at once bury one of them, whose
  untouched chunks cannot be reached until those before it are purged. A span
  made again at an address while the watch was off keeps its old time (261).
- A string appended to itself reads the block that growing it freed. A new list's
  `Active` is whatever memory held. The fraction of a double is gathered in an `int`, which
  overflows (`numeric.c` 51).

## 4. The proofs

Everything under `theorems` is checked by TLAPS with no step left open. Each
proof has the same shape: an inductive invariant in named parts, a lemma that
`Init` establishes it, one lemma per group of actions that they keep it, and the
theorem from these by one temporal step. TLC ran every such invariant on an
instance before it was proved. `TypeOK` is not in any run's list, because it
says little by itself: it is a conjunct of the invariants, and there are
theorems for it where a type is a claim (a counter that never goes below zero).

| Theorems | Of |
|---|---|
| `RingExclusiveCells`, `RingCopiesAreTheLog`, `RingRefusedOnlyWhenFull`, `RingImplementsChannel` | `PoolRing` |
| `DequeIndicesInStep`, `DequeImplementsDeque` | `PoolDeque` |
| `RingHolds`, `CountsAreTrue`, `PeeksAreTheItem`, `RingIsBounded`, `RingImplementsFifo` | `RingQueue` |
| `RunImplementsDeque`, `RunCountWasTrue`, `RunPeekIsTheItem`, `RunImplementsFifo` | `MCQueues`: the two lines above for the specification that the run checks |
| `DispatchNothingLost`, `DispatchCountersExact`, `DispatchWaitIdleExact` | `PoolDispatch` |
| `WakersAreNotMisled`, `NoTaskIsLeftBehind` | `PoolParking` |
| `MonitorFreedOnlyWhenDone`, `MonitorNoLongSleepWithWork`, `MonitorTimerComesBack`, `MonitorJudgedStuckRanThroughout` | `PoolMonitor` |
| `SpansBlocksInOnePlace`, `SpansUsedExact`, `SpansListsMatchState`, `SpansNewOnlyWhenExhausted` | `MemSpans` |

**What is assumed of the constants.**

- `RingAssumption`: two cells or more (the code has 4096, `thread_pool.c` 93), a batch
  that fits, a modulus that is a multiple of the capacity (both are powers of
  two), and `2 * (MaxLag + 2 * Cap) < Modulus`: a thread stopped in the middle
  of a push or pop is not overtaken by half the range of its counter.
- `DispatchAssumption`, `MonitorAssumption`: sizes that are not 0, finite sets
  of tasks and submitters, plans made of tasks.
- `ParkingAssumption`: at least one core, finitely many (`pool_create` makes at
  least one, `thread_pool.c` 788-790), a batch of one or more, starts of the
  kinds listed. There may be any set of submitters, each with any number of
  submissions.
- `SpanAssumption`: a span has two blocks or more, which the sizes of
  `memory_pool.c`'s classes and spans give; a scan looks at one full span at
  least; finitely many threads. Heaps, chunks and classes may be any sets.
- `HasSlots` (a hypothesis of `PoolDeque`'s theorems): one slot or more.
- `Fits` (a hypothesis of `RingQueue`'s): two cells or more (`ring_of_one` shows
  why), a modulus that is a multiple of the capacity, any first position, no
  item pushed twice and no more items in all than the modulus less the capacity:
  positions wrap once, and no thread is overtaken by the whole range of its
  counter. The threads that push, pop and look are different ones.

**The invariants, and why they are needed.**

*`PoolRing`.* Exclusive cells are not inductive alone: whether a cell is free is
told by its `seq`, and only together with who holds which position. `SeqInv`
says what number each of the last `Cap` positions finds in its cell; `PosInv`
bounds how far a position that was read and not used lies behind, from which
comparing low bits means comparing positions; `WriteInv`, `CasInv`, `ScanInv`
and `ReadInv` say the same of a push and a pop at each step; `CellInv` ties
contents to the log, and gives `CopiesAreTheLog`. The refinement maps the
abstract queue to the log between `head` and `tail`: a task enters with the CAS
on `tail`, and leaves with that on `head`.

*`PoolDeque`.* `Places` says where the owner is, `Stores` what its buffer may
hold at each of its steps, `Memory` how far `top` and `bottom` are apart in
memory and in the owner's view, `Logged` that a slot holds both words of the
task of its index or of the one being written, `Steals` that a thief whose CAS
will succeed has read a task that is still there. The abstract content is the
log from `top` to the last task not being taken.

*`RingQueue`.* All positions are offsets from the first one, so that wrapping
disappears (`PosInv`). `LogInv`, `SeqInv`, `GuardInv` and `CellInv` give, for
each offset from a turn behind `head` to `tail`, the number, the guard and the
content of its cell; `AgentInv` says for each agent at each point of its call
which of them it knows, `PairInv` that two agents never own the same cell.
An item enters with `OfferCas`, or with the store of the single producer, and
leaves with the CAS or store on `head`; a refusal is a miss of the abstract FIFO.

*`PoolDispatch`.* `NothingLost` counts, for each task, the places it is in:
`Sending` (a submit on its way), `NotSelf`, `Emptied` (a ring, deque or slot
that was found empty while only its owner fills it) make the count inductive.
`CountersExact` is a sum over slots against a sum over tasks, proved with
`SumFunctionOnSet` over any finite sets. `Passed` gives `WaitIdleExact`: the sum
read so far bounds what the slots already read hold, unless one was raised.

*`PoolParking`.* With stores that wait in buffers, neither the flags nor the
counters alone say who is asleep. `BuffersKnown` and `CoreKnown` say what may
still wait in the buffer of a thread at each point: a core that counted itself
has its flag in memory. `ClaimKnown`: a flag that is down although its core put
it up was claimed, and the signal is there or on its way; this is what makes
`ClaimedCoreIsWoken` inductive. `OwnKnown`: a core that went on to look
elsewhere has nothing of its own. For `NobodyLeftAsleep` the argument is about
who will still look: with a task in the ring, and nobody misled, either some core
is `Alert` (it has not announced itself; or its test still has the shard before
it, and no rival can spoil that look; or it has been called), or some submitter
is `Seeking` (it is before its scan). `Watched` keeps this through every step. A
core passes over the ring only if it is empty or a cell is claimed and not yet
published: then its submitter is `Answering`, that is, still before its look at
`n_parked_core`; a submitter that sees no core parked proves, by exact counts,
that every core is alert; one that trusts the spinners that there is one; one
that passes over a core whose flag is down that it is awake or called. Where the
submitter's store may be late, `late` records it and the property says nothing,
as finding 2 shows it must not.

*`PoolMonitor`.* `Places` (`CreatorKnown`, `MonitorKnown`, `WorkersKnown`,
`InTaskKnown`, `TimerHeld`, `StartsKnown`, `IdleKnown`) says for each place of
each thread what exists and what it has read; `QuietWhenOver` that nobody moves
in a pool being freed; `Announced`, `WaitReads` and `RetestReads` carry the
argument of announcing and testing again, `NoLongSleepWithWork`.

*`MemSpans`.* `Blocks` partitions the blocks of a span into those held, free,
freed by others and being pushed, with `used` counting all but the free ones;
`Match` relates states and lists; `Exhausted` says that the spans a refill has
passed have nothing to give; `Known` what a thread between two steps has read.
A span is released only with `used` at 0 after a drain, when no push can be on
its way to it.

*The runs.* `MCQueues` runs three queues side by side, and the properties of two
of them are definitions of `MCQueues`. The last theorems of `PoolRingProofs` say
that each step of the run is a step of the queue or leaves it alone, and so carry
over what was proved of it.

**What stays with TLC.** Liveness and whatever speaks of `ENABLED`:
`EveryTaskStarts`, `DestroyEnds`, `WaitingWorkGetsHelp`, `StopsReturn`,
`ScansEnd`, `EveryTaskRuns`, `DestroyReturns`. Induction over data is done over
sets of numbers here (`NumberTheorems`: `FiniteInduction`, `NumberInduction`);
the library's induction theorems take an operator and cannot be used. `WsLanes`
declares a `RECURSIVE` operator, which the provers do not take. And, for no
reason but their number, the safety of the components of section 6.

## 5. What is not modelled

- Economy profile: only what it does to the monitor and to elastic workers.
  The vigia, and the measured length of a spin: a spin may end at any time.
- The memory pool's statistics and snapshot (best effort, as documented in
  `memory_pool.c` 1295-1302), and what a snapshot is printed as.
- Reading the stack and registers of a suspended thread, turning addresses into
  symbols, the report's text.
- `thread_activity.c` and `thread_ambient_info.c`: they ask the operating system.
- Failures of `create` in the earlier pools but the wspool; the condition
  variables of `thread_wait` on systems without a futex; several pools sharing
  the count of the 1 ms timer.
- Atomics, headers, start-up but for what the other parts see of them; tests and
  benchmarks.

## 6. What is left

Model-checked only, in the order in which proofs would say most: the earlier
generations of the pool (`EarlierPoolsAreRight`), the registry of threads
(`ThreadsAreKnown`), the leak watch (`OneTimer`), chunks (`ChunksKept`,
`LowKept`), the copies of the library (`OneInstance`), buffers, lists and sites
(`ContentsKept`), strings and numbers (`TextsRight`, `ImplementsTexts`), the
wspool (`PendingExact`, `NobodyUsesFreed`, `PoisonedOnlyIfStuck`). `PoolDispatch`
and `PoolMonitor` use the rings and deques through `TaskChannel` and `TaskDeque`,
which the proofs show they implement; that the composition refines a pool
specified in one piece is not stated.
