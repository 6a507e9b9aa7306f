----------------------------- MODULE PoolParking -----------------------------
(***************************************************************************)
(* How the core workers of thread_pool.c go to sleep and who wakes them:   *)
(* the idle part of pool_worker_fn with pool_spin, pool_gira_fim, the test *)
(* after announcing, the wait of thread_wait.h with its timeout; and       *)
(* pool_wake_submit and pool_wake_one_core, run by whoever submits or      *)
(* spawns.  Profile performance with its defaults: no vigia, historic spin.*)
(*                                                                         *)
(* Tasks are counted, not named.  Memory is x86-TSO: a plain or release    *)
(* store waits in its thread's buffer; a CAS, an atomic add or subtract    *)
(* and pool_fence happen only with that buffer empty.                      *)
(***************************************************************************)
EXTENDS Integers, Sequences, FiniteSets

CONSTANTS
    Cores, Submitters,
    Batch,    \* POOL_BATCH
    Starts,   \* how a behaviour may begin: where each core is (looking, spinning, asleep,
              \* or in a task that has already spawned one) and, as bounds, the tasks that
              \* each submitter submits and that running tasks spawn, all together
    NoCore

ASSUME ParkingAssumption ==
    /\ Cores \cap Submitters = {} /\ NoCore \notin Cores
    /\ Starts \subseteq [cores : [Cores -> {"look", "spin", "run", "sleep"}],
                          sends : Nat, spawns : Nat]
    /\ IsFiniteSet(Cores) /\ Cores # {} /\ Batch \in Nat \ {0}

Threads == Cores \cup Submitters

(* Where a task can be found: the shard, or the deque of a core. *)
Shard == NoCore
Places(c) == {Shard} \cup (Cores \ {c})

VARIABLES
    claimed,         \* pool_ring_count: tail - head of the shard's ring
    ring,            \* tasks published in it, as memory shows them
    dq,              \* bottom - top of each core's deque, in memory
    parked, signal,  \* PoolWorker.parked, PoolWorker.wait.signal, in memory
    n_parked, n_girando,
    buf,             \* per thread: stores not yet in memory, oldest first
    pc,              \* per core: where it is in pool_worker_fn
    left, raced,     \* pool_try_get: places not yet probed; those a rival took from
    lifo, kept,      \* lifo_full; tasks left of the last batch
    timedout,        \* ocioso = 1
    kpc, src,        \* per thread: where it is in waking; where its task went
    g,               \* pool_wake_submit: n_girando as read after the fence
    scan, target,    \* pool_wake_one_core: cores not yet tried; the one claimed
    sends, spawns,   \* submissions left
    late             \* history: someone saw no core parked, its task not yet in memory

queues == <<claimed, ring, dq>>
flags  == <<parked, signal>>
idle   == <<left, raced, timedout>>
wake   == <<kpc, src, g, scan, target, late>>
vars == <<queues, flags, n_parked, n_girando, buf, pc, idle, lifo, kept, wake, sends, spawns>>

Init ==
    /\ \E s \in Starts : /\ pc = s.cores
                        /\ sends = [p \in Submitters |-> s.sends] /\ spawns = s.spawns
    /\ claimed = 0 /\ ring = 0 /\ dq = [c \in Cores |-> 0]
    /\ parked = [c \in Cores |-> pc[c] = "sleep"] /\ signal = [c \in Cores |-> FALSE]
    /\ n_parked = Cardinality({c \in Cores : pc[c] = "sleep"})
    /\ n_girando = Cardinality({c \in Cores : pc[c] = "spin"})
    /\ buf = [x \in Threads |-> <<>>]
    /\ left = [c \in Cores |-> IF pc[c] \in {"look", "spin"} THEN Places(c) ELSE {}]
    /\ raced = [c \in Cores |-> {}]
    /\ lifo = [c \in Cores |-> pc[c] = "run"] /\ kept = [c \in Cores |-> 0]
    /\ timedout = [c \in Cores |-> FALSE]
    /\ kpc = [x \in Threads |-> "none"] /\ src = [x \in Threads |-> NoCore]
    /\ g = [x \in Threads |-> 0]
    /\ scan = [x \in Threads |-> {}] /\ target = [x \in Threads |-> NoCore]
    /\ late = FALSE

Flushed(x) == buf[x] = <<>>
Store(x, s) == buf' = [buf EXCEPT ![x] = Append(@, s)]
Pending(x, what) == Cardinality({i \in DOMAIN buf[x] : buf[x][i].to = what})
Waking(x, to) == kpc' = [kpc EXCEPT ![x] = to]

(* The oldest buffered store of a thread reaches memory. *)
Drain(x) ==
    /\ buf[x] # <<>>
    /\ LET s == Head(buf[x])
       IN  /\ ring' = IF s.to = "ring" THEN ring + 1 ELSE ring
           /\ dq' = IF s.to = "deque" THEN [dq EXCEPT ![x] = @ + 1] ELSE dq
           /\ parked' = IF s.to = "parked" THEN [parked EXCEPT ![x] = s.v] ELSE parked
           /\ signal' = IF s.to = "signal" THEN [signal EXCEPT ![x] = s.v] ELSE signal
    /\ buf' = [buf EXCEPT ![x] = Tail(@)]
    /\ UNCHANGED <<claimed, n_parked, n_girando, pc, idle, lifo, kept, wake, sends, spawns>>

-----------------------------------------------------------------------------
(* pool_wake_submit and pool_wake_one_core, by thread x. *)

Free(x) == kpc[x] = "none"
WakeOnly(x) == UNCHANGED <<queues, n_girando, n_parked, buf, pc, idle, lifo, kept, sends, spawns>>

(* Without parked cores or spinners there is nothing to weigh up. *)
WakeParked(x) ==
    /\ kpc[x] = "parked"
    /\ Waking(x, IF n_parked > 0 THEN "spinning" ELSE "one")
    /\ WakeOnly(x) /\ UNCHANGED <<flags, src, g, scan, target, late>>

WakeSpinning(x) ==
    /\ kpc[x] = "spinning"
    /\ Waking(x, IF n_girando >= 1 THEN "fence" ELSE "one")
    /\ WakeOnly(x) /\ UNCHANGED <<flags, src, g, scan, target, late>>

(* After the fence n_girando is read again. *)
WakeFence(x) ==
    /\ kpc[x] = "fence" /\ Flushed(x)
    /\ g' = [g EXCEPT ![x] = n_girando]
    /\ Waking(x, "fila")
    /\ WakeOnly(x) /\ UNCHANGED <<flags, src, scan, target, late>>

(* The spinning cores can cope with the queue the task went to, or not. *)
WakeFila(x) ==
    /\ kpc[x] = "fila"
    /\ LET fila == IF src[x] = Shard THEN claimed ELSE dq[src[x]]
       IN  Waking(x, IF g[x] >= 1 /\ fila <= g[x] THEN "none" ELSE "one")
    /\ WakeOnly(x) /\ UNCHANGED <<flags, src, g, scan, target, late>>

(* pool_wake_one_core: wake_rr chooses where the scan starts. *)
WakeOne(x) ==
    /\ kpc[x] = "one"
    /\ IF n_parked > 0
       THEN Flushed(x) /\ Waking(x, "scan") /\ scan' = [scan EXCEPT ![x] = Cores]
            /\ UNCHANGED late
       ELSE Waking(x, "none") /\ UNCHANGED scan
            /\ late' = (late \/ Pending(x, "ring") + Pending(x, "deque") > 0)
    /\ WakeOnly(x) /\ UNCHANGED <<flags, src, g, target>>

(* The first core found parked is claimed by CAS; the others are passed over. *)
WakeScan(x, c) ==
    /\ kpc[x] = "scan" /\ c \in scan[x]
    /\ IF parked[c]
       THEN /\ parked' = [parked EXCEPT ![c] = FALSE]
            /\ target' = [target EXCEPT ![x] = c]
            /\ scan' = [scan EXCEPT ![x] = {}]
            /\ Waking(x, "signal")
       ELSE /\ scan' = [scan EXCEPT ![x] = @ \ {c}]
            /\ Waking(x, IF scan'[x] = {} THEN "none" ELSE "scan")
            /\ UNCHANGED <<parked, target>>
    /\ WakeOnly(x) /\ UNCHANGED <<signal, src, g, late>>

(* thread_wait_wake: the store and the system call that follows it. *)
WakeSignal(x) ==
    /\ kpc[x] = "signal"
    /\ signal' = [signal EXCEPT ![target[x]] = TRUE]
    /\ target' = [target EXCEPT ![x] = NoCore]
    /\ Waking(x, "none")
    /\ WakeOnly(x) /\ UNCHANGED <<parked, src, g, scan, late>>

WakeStep(x) ==
    \/ WakeParked(x) \/ WakeSpinning(x) \/ WakeFence(x) \/ WakeFila(x)
    \/ WakeOne(x) \/ (\E c \in Cores : WakeScan(x, c)) \/ WakeSignal(x)

-----------------------------------------------------------------------------
(* pool_submit_relative from outside: the ring's cell is claimed by CAS and    *)
(* published by a store; then the submitter looks for somebody to wake.        *)
Submit(p) ==
    /\ Free(p) /\ sends[p] > 0 /\ Flushed(p)
    /\ sends' = [sends EXCEPT ![p] = @ - 1]
    /\ claimed' = claimed + 1
    /\ Store(p, [to |-> "ring", v |-> TRUE])
    /\ src' = [src EXCEPT ![p] = Shard] /\ Waking(p, "parked")
    /\ UNCHANGED <<ring, dq, flags, n_parked, n_girando, pc, idle, lifo, kept,
                   g, scan, target, spawns, late>>

(* From inside a running task: the LIFO slot first; a second task moves the    *)
(* older one to the deque, where it can be stolen.                             *)
Spawn(c) ==
    /\ pc[c] = "run" /\ Free(c) /\ spawns > 0 /\ Flushed(c)
    /\ spawns' = spawns - 1
    /\ lifo' = [lifo EXCEPT ![c] = TRUE]
    /\ IF lifo[c]
       THEN /\ Store(c, [to |-> "deque", v |-> TRUE])
            /\ src' = [src EXCEPT ![c] = c] /\ Waking(c, "parked")
       ELSE UNCHANGED <<buf, src, kpc>>
    /\ UNCHANGED <<queues, flags, n_parked, n_girando, pc, idle, kept, g, scan, target,
                   sends, late>>

(* pool_try_get starts over at each place the loop calls it from. *)
Look(c, at) ==
    /\ pc' = [pc EXCEPT ![c] = at]
    /\ left' = [left EXCEPT ![c] = Places(c)]
    /\ raced' = [raced EXCEPT ![c] = {}]

Goto(c, at) ==
    /\ pc' = [pc EXCEPT ![c] = at]
    /\ UNCHANGED <<left, raced>>

Finish(c) ==
    /\ pc[c] = "run" /\ Free(c)
    /\ Look(c, "look")
    /\ UNCHANGED <<queues, flags, n_parked, n_girando, buf, timedout, lifo, kept, wake,
                   sends, spawns>>

-----------------------------------------------------------------------------
(* pool_try_get *)

Looking(c) == pc[c] \in {"look", "look2", "spin", "sleep0", "retest"}
OwnDeque(c) == dq[c] + Pending(c, "deque")
HasOwn(c) == OwnDeque(c) > 0 \/ kept[c] > 0

(* A task was found: where the search was made decides what comes next; others *)
(* looking where it came from may find themselves beaten.                      *)
Found(c, places) ==
    /\ pc' = [pc EXCEPT ![c] = CASE @ = "spin" -> "spin_hit" [] @ = "retest" -> "retest_hit"
                                 [] OTHER -> "run"]
    /\ left' = [left EXCEPT ![c] = {}]
    /\ raced' = [d \in Cores |-> IF d = c THEN {} ELSE raced[d] \cup (places \cap left[d])]

(* The core's own tasks: deque and rest of the batch before anything shared, the *)
(* LIFO slot before or after them (POOL_LIFO_CAP: see PoolDispatch).             *)
TakeOwn(c) ==
    /\ Looking(c)
    /\ \/ /\ lifo[c] /\ lifo' = [lifo EXCEPT ![c] = FALSE]
          /\ Found(c, {})
          /\ UNCHANGED <<dq, kept>>
       \/ /\ Flushed(c) /\ dq[c] > 0 /\ dq' = [dq EXCEPT ![c] = @ - 1]
          /\ Found(c, {c})
          /\ UNCHANGED <<lifo, kept>>
       \/ /\ OwnDeque(c) = 0 /\ kept[c] > 0 /\ kept' = [kept EXCEPT ![c] = @ - 1]
          /\ Found(c, {})
          /\ UNCHANGED <<lifo, dq>>
    /\ UNCHANGED <<claimed, ring, flags, n_parked, n_girando, buf, timedout, wake, sends, spawns>>

(* pool_ring_pop_batch *)
Pop(c) ==
    /\ Looking(c) /\ ~HasOwn(c) /\ Shard \in left[c] /\ Flushed(c)
    /\ \E k \in 1 .. Batch :
        /\ k <= ring
        /\ ring' = ring - k /\ claimed' = claimed - k
        /\ kept' = [kept EXCEPT ![c] = k - 1]
    /\ Found(c, {Shard})
    /\ UNCHANGED <<dq, flags, n_parked, n_girando, buf, timedout, lifo, wake, sends, spawns>>

(* pool_deque_steal, the shard having been tried. *)
Steal(c, d) ==
    /\ Looking(c) /\ ~HasOwn(c) /\ Shard \notin left[c] /\ d \in left[c] /\ Flushed(c)
    /\ dq[d] > 0 /\ dq' = [dq EXCEPT ![d] = @ - 1]
    /\ Found(c, {d})
    /\ UNCHANGED <<claimed, ring, flags, n_parked, n_girando, buf, timedout, lifo, kept, wake,
                   sends, spawns>>

(* Nothing there; or the cell or task tried was lost to another core; or an    *)
(* older cell of the shard is claimed and not yet published.                   *)
Miss(c, place) ==
    /\ Looking(c) /\ ~HasOwn(c) /\ place \in left[c]
    /\ place # Shard => Shard \notin left[c]
    /\ \/ place = Shard /\ (ring = 0 \/ claimed > ring)
       \/ place # Shard /\ dq[place] = 0
       \/ place \in raced[c]
    /\ left' = [left EXCEPT ![c] = @ \ {place}]
    /\ raced' = [raced EXCEPT ![c] = @ \ {place}]
    /\ UNCHANGED <<queues, flags, n_parked, n_girando, buf, pc, timedout, lifo, kept, wake,
                   sends, spawns>>

Nothing(c, at) == pc[c] = at /\ left[c] = {} /\ ~lifo[c]

-----------------------------------------------------------------------------
(* pool_worker_fn, once pool_try_get has found nothing. *)

Local == <<queues, flags, lifo, kept, wake, sends, spawns>>

(* thread_wait_prepare, and look again. *)
Prepare(c) ==
    /\ Nothing(c, "look")
    /\ Store(c, [to |-> "signal", v |-> FALSE])
    /\ Look(c, "look2")
    /\ UNCHANGED <<Local, n_parked, n_girando, timedout>>

(* pool_spin, unless the last wait ended by timeout. *)
SpinBegin(c) ==
    /\ Nothing(c, "look2") /\ ~timedout[c] /\ Flushed(c)
    /\ n_girando' = n_girando + 1
    /\ Look(c, "spin")
    /\ UNCHANGED <<Local, n_parked, buf, timedout>>

SpinAgain(c) ==
    /\ Nothing(c, "spin") \/ Nothing(c, "sleep0")
    /\ Look(c, pc[c])
    /\ UNCHANGED <<Local, n_parked, n_girando, buf, timedout>>

(* pool_gira_fim without a task; the sleep0 part of the spin is not counted. *)
SpinEnd(c) ==
    /\ Nothing(c, "spin") /\ Flushed(c)
    /\ n_girando' = n_girando - 1
    /\ Look(c, "sleep0")
    /\ UNCHANGED <<Local, n_parked, buf, timedout>>

(* pool_gira_fim with a task: the last spinner wakes another core if the shard *)
(* still holds tasks.                                                          *)
SpinHit(c) ==
    /\ pc[c] = "spin_hit" /\ Flushed(c)
    /\ n_girando' = n_girando - 1
    /\ Goto(c, IF n_girando <= 1 THEN "chain" ELSE "run")
    /\ UNCHANGED <<Local, n_parked, buf, timedout>>

Chain(c) ==
    /\ pc[c] = "chain"
    /\ Goto(c, "run")
    /\ IF claimed > 0 THEN Waking(c, "one") ELSE UNCHANGED kpc
    /\ UNCHANGED <<queues, flags, n_parked, n_girando, buf, timedout, lifo, kept, src, g, scan,
                   target, late, sends, spawns>>

(* parked = 1, then n_parked_core + 1, then the test. *)
Announce(c) ==
    /\ \/ Nothing(c, "look2") /\ timedout[c]
       \/ Nothing(c, "sleep0")
    /\ Store(c, [to |-> "parked", v |-> TRUE])
    /\ Goto(c, "announce")
    /\ UNCHANGED <<Local, n_parked, n_girando, timedout>>

(* Bug seeded in AnnounceCount: no test between announcing and sleeping. *)
MAnnounceNoRetest(c) ==
    /\ pc[c] = "announce" /\ Flushed(c)
    /\ n_parked' = n_parked + 1
    /\ Goto(c, "sleep")
    /\ UNCHANGED <<Local, n_girando, buf, timedout>>

AnnounceCount(c) ==
    /\ pc[c] = "announce" /\ Flushed(c)
    /\ n_parked' = n_parked + 1
    /\ Look(c, "retest")
    /\ UNCHANGED <<Local, n_girando, buf, timedout>>

(* Bug seeded in RetestHit: n_parked_core is not lowered. *)
MRetestHitKeepsCount(c) ==
    /\ pc[c] = "retest_hit"
    /\ Store(c, [to |-> "parked", v |-> FALSE])
    /\ Goto(c, "run")
    /\ UNCHANGED <<Local, n_parked, n_girando, timedout>>

RetestHit(c) ==
    /\ pc[c] = "retest_hit" /\ Flushed(c)
    /\ n_parked' = n_parked - 1
    /\ Store(c, [to |-> "parked", v |-> FALSE])
    /\ Goto(c, "run")
    /\ UNCHANGED <<Local, n_girando, timedout>>

(* Bug seeded in Sleep: the signal is cleared just before waiting for it. *)
MSleepClearsSignal(c) ==
    /\ Nothing(c, "retest")
    /\ Goto(c, "sleep")
    /\ Store(c, [to |-> "signal", v |-> FALSE])
    /\ UNCHANGED <<Local, n_parked, n_girando, timedout>>

Sleep(c) ==
    /\ Nothing(c, "retest")
    /\ Goto(c, "sleep")
    /\ UNCHANGED <<Local, n_parked, n_girando, buf, timedout>>

(* thread_wait_sleep_for: woken, the signal is put back to 0. *)
Woken(c) ==
    /\ pc[c] = "sleep" /\ signal[c]
    /\ Store(c, [to |-> "signal", v |-> FALSE])
    /\ timedout' = [timedout EXCEPT ![c] = FALSE]
    /\ Goto(c, "unpark")
    /\ UNCHANGED <<Local, n_parked, n_girando>>

(* Bug seeded in Timeout: the wait has no timeout. *)
MTimeoutNever(c) == Woken(c)

(* The time is over.  The Windows version resets the signal here too, and     *)
(* WaitOnAddress may report a wake that was none.                             *)
Timeout(c) ==
    /\ pc[c] = "sleep"
    /\ UNCHANGED buf \/ Store(c, [to |-> "signal", v |-> FALSE])
    /\ \E b \in BOOLEAN : timedout' = [timedout EXCEPT ![c] = b]
    /\ Goto(c, "unpark")
    /\ UNCHANGED <<Local, n_parked, n_girando>>

Unpark(c) ==
    /\ pc[c] = "unpark" /\ Flushed(c)
    /\ n_parked' = n_parked - 1
    /\ Store(c, [to |-> "parked", v |-> FALSE])
    /\ Look(c, "look")
    /\ UNCHANGED <<Local, n_girando, timedout>>

-----------------------------------------------------------------------------
CoreStep(c) ==
    \/ Finish(c) \/ TakeOwn(c) \/ Pop(c)
    \/ \E d \in Places(c) : Steal(c, d) \/ Miss(c, d)
    \/ Prepare(c) \/ SpinBegin(c) \/ SpinAgain(c) \/ SpinEnd(c) \/ SpinHit(c) \/ Chain(c)
    \/ Announce(c) \/ AnnounceCount(c) \/ RetestHit(c) \/ Sleep(c)
    \/ Woken(c) \/ Unpark(c)

Next ==
    \/ \E x \in Threads : Drain(x) \/ WakeStep(x)
    \/ \E p \in Submitters : Submit(p)
    \/ \E c \in Cores : Spawn(c) \/ CoreStep(c) \/ Timeout(c)

Spec == Init /\ [][Next]_vars

(* Threads are scheduled, stores reach memory, clocks advance. *)
FairSpec ==
    /\ Spec
    /\ \A x \in Threads : WF_vars(Drain(x)) /\ WF_vars(WakeStep(x))
    /\ \A c \in Cores : WF_vars(CoreStep(c)) /\ WF_vars(Timeout(c))

-----------------------------------------------------------------------------
(* What must hold. *)

Asleep(c) == pc[c] = "sleep" /\ ~signal[c]
Quiet == \A x \in Threads : Free(x)

TypeOK ==
    /\ ring \in Nat /\ claimed \in Nat /\ dq \in [Cores -> Nat]
    /\ parked \in [Cores -> BOOLEAN] /\ signal \in [Cores -> BOOLEAN]
    /\ n_parked \in Nat /\ n_girando \in Nat
    /\ buf \in [Threads -> Seq([to : {"ring", "deque", "parked", "signal"}, v : BOOLEAN])]
    /\ pc \in [Cores -> {"look", "look2", "spin", "spin_hit", "chain", "sleep0", "announce",
                         "retest", "retest_hit", "sleep", "unpark", "run"}]
    /\ left \in [Cores -> SUBSET ({Shard} \cup Cores)]
    /\ raced \in [Cores -> SUBSET ({Shard} \cup Cores)]
    /\ \A c \in Cores : left[c] \subseteq Places(c) /\ raced[c] \subseteq left[c]
    /\ lifo \in [Cores -> BOOLEAN] /\ kept \in [Cores -> 0 .. Batch - 1]
    /\ timedout \in [Cores -> BOOLEAN]
    /\ kpc \in [Threads -> {"none", "parked", "spinning", "fence", "fila", "one", "scan", "signal"}]
    /\ src \in [Threads -> Cores \cup {NoCore}] /\ g \in [Threads -> Nat]
    /\ scan \in [Threads -> SUBSET Cores] /\ target \in [Threads -> Cores \cup {NoCore}]
    /\ sends \in [Submitters -> Nat] /\ spawns \in Nat /\ late \in BOOLEAN

(* n_parked_core and n_girando count the cores that are parked and spinning. *)
CountsExact ==
    /\ n_parked = Cardinality({c \in Cores : pc[c] \in {"retest", "retest_hit", "sleep", "unpark"}})
    /\ n_girando = Cardinality({c \in Cores : pc[c] \in {"spin", "spin_hit"}})

(* A core whose parked flag was claimed is woken: nobody will claim it again.  *)
ClaimedCoreIsWoken ==
    \A c \in Cores : Asleep(c) /\ ~parked[c] => \E x \in Threads : target[x] = c

(* What pool_wake_submit and pool_wake_one_core go by is so: the counters they    *)
(* weigh up are exact, and the flag they claim is that of a core they then wake.   *)
WakersAreRight == CountsExact /\ ClaimedCoreIsWoken

(* The test after announcing leaves no task behind: when every core sleeps and  *)
(* nobody is waking one, no task is queued anywhere -- provided that whoever    *)
(* saw no core parked had its task in memory by then (no fence ensures it:      *)
(* NoTaskDependsOnTimeout).                                                     *)
NobodyLeftAsleep ==
    ~late /\ Quiet /\ (\A c \in Cores : Asleep(c)) => ring = 0 /\ \A c \in Cores : ~HasOwn(c) /\ ~lifo[c]

(* With its timeouts the pool makes up for every wake that was missed: each     *)
(* accepted task leaves its queue, slot or batch to be run.                     *)
NothingQueued == claimed = 0 /\ \A c \in Cores : ~HasOwn(c) /\ ~lifo[c]
EveryTaskStarts == <>[]NothingQueued

(* The comment on the test after announcing (and that on POOL_PARK_MAX_US, "O   *)
(* teto so pesa se algum caminho depender do timeout para achar trabalho -- e   *)
(* nenhum depende mais") says a submitted task never waits for a timeout: with  *)
(* every core asleep and no wake under way the shard is empty.                  *)
NoTaskDependsOnTimeout ==
    Quiet /\ (\A c \in Cores : Asleep(c)) => ring = 0

(* The comment in pool_submit_relative says the same of nested parallelism: the *)
(* others no longer find a stealable task by timeout only.  When one is in a    *)
(* deque and a core sleeps unwoken, some core is awake and not in a task.       *)
SpawnedTaskFindsACore ==
    ~late /\ Quiet /\ (\E c \in Cores : Asleep(c)) /\ (\E c \in Cores : dq[c] > 0)
        => \E c \in Cores : pc[c] # "run" /\ ~Asleep(c)
=============================================================================
