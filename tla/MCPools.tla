------------------------------- MODULE MCPools -------------------------------
(***************************************************************************)
(* How workers sleep, count and are woken in every generation of the pool, *)
(* one at a time: PoolParking, the code of today, and the earlier versions *)
(* it was measured against.  "part" says which one runs in a behaviour;    *)
(* the variables of the others stay as they were.                          *)
(***************************************************************************)
EXTENDS PoolParking, TLC

CONSTANTS c1, c2, c3, w1, w2, elastic, s1, total, NoOne, QueueCap, Few

VARIABLES
    part,
    queue, deque, charge, pending, at, stack, wakeup, idlers, called, monitor, stop, call,
    main, done, mine

oldVars == <<queue, deque, charge, pending, at, stack, wakeup, idlers, called, monitor, stop,
             call, main, done, mine>>

(* One task comes from outside and submits two more, or three; or two come, and none *)
(* submits, or the first one.                                                         *)
Children(t) == IF t = 1 THEN <<2, 3>> ELSE <<>>
Family == [t \in 1 .. 3 |-> Children(t)]
Three  == [t \in 1 .. 4 |-> IF t = 1 THEN <<2, 3, 4>> ELSE <<>>]
Plain  == [t \in 1 .. 2 |-> <<>>]
Pair   == [t \in 1 .. 3 |-> IF t = 1 THEN <<3>> ELSE <<>>]

V2 == INSTANCE PoolV2 WITH
    Order <- <<w1, w2>>, Core <- {w1}, Elastic <- {}, Shards <- <<>>, One <- total,
    External <- {1, 2}, Child <- Pair, DequeCap <- QueueCap, SpinCap <- Few,
    signal <- wakeup, claimed <- called
V202 == INSTANCE PoolV202 WITH
    Order <- <<w1, w2>>, Core <- {w1}, Elastic <- {}, Shards <- <<s1>>, One <- total,
    External <- {1}, Child <- Family, DequeCap <- QueueCap, SpinCap <- Few,
    signal <- wakeup, claimed <- called
V203 == INSTANCE PoolV203 WITH
    Order <- <<w1, elastic>>, Core <- {w1}, Elastic <- {elastic}, Shards <- <<s1>>,
    One <- total, External <- {1}, Child <- Family, DequeCap <- QueueCap, SpinCap <- Few,
    signal <- wakeup, claimed <- called
V3 == INSTANCE PoolV3 WITH
    Order <- <<w1, w2>>, Core <- {w1, w2}, Elastic <- {}, Shards <- <<>>, One <- total,
    External <- {1}, Child <- Family, DequeCap <- QueueCap, SpinCap <- Few,
    signal <- wakeup, claimed <- called
V3Arena == INSTANCE PoolV3Arena WITH
    Order <- <<w1, w2>>, Core <- {w1, w2}, Elastic <- {}, Shards <- <<s1>>, One <- total,
    External <- {1}, Child <- Family, DequeCap <- QueueCap, SpinCap <- Few,
    signal <- wakeup, claimed <- called
V4 == INSTANCE PoolV4 WITH
    Order <- <<w1, w2>>, Core <- {w1, w2}, Elastic <- {}, Shards <- <<>>, One <- total,
    External <- {1}, Child <- Family, DequeCap <- QueueCap, SpinCap <- Few,
    signal <- wakeup, claimed <- called
V20 == INSTANCE PoolV20 WITH
    Order <- <<w1, w2>>, Core <- {w1, w2}, Elastic <- {}, Shards <- <<>>, One <- total,
    External <- {1}, Child <- Family, DequeCap <- QueueCap, SpinCap <- Few,
    signal <- wakeup, claimed <- called

(* A task that submits three, for the deque, on the spot and for the slot, to steal; *)
(* two from outside, for a batch and for the elastic worker; a shard of one, full.   *)
Tree205 == INSTANCE PoolV205 WITH
    Order <- <<w1, w2>>, Core <- {w1}, Elastic <- {}, Shards <- <<s1>>,
    One <- total, External <- {1}, Child <- Three, DequeCap <- QueueCap, QueueCap <- 2,
    SpinCap <- Few, LifoCap <- 1, signal <- wakeup, claimed <- called
Pair205 == INSTANCE PoolV205 WITH
    Order <- <<w1, elastic>>, Core <- {w1}, Elastic <- {elastic}, Shards <- <<s1>>,
    One <- total, External <- {1, 2}, Child <- Plain, DequeCap <- QueueCap, QueueCap <- 2,
    SpinCap <- Few, LifoCap <- 1, signal <- wakeup, claimed <- called
Full205 == INSTANCE PoolV205 WITH
    Order <- <<w1>>, Core <- {w1}, Elastic <- {}, Shards <- <<s1>>,
    One <- total, External <- {1, 2}, Child <- Plain, DequeCap <- QueueCap,
    SpinCap <- Few, LifoCap <- 1, signal <- wakeup, claimed <- called

(* A submission to cores still looking; one beside a task that runs; one that it spawns. *)
Begin(where, n, m) == [cores |-> where, sends |-> n, spawns |-> m]
Fresh == Begin([c \in Cores |-> "look"], 1, 0)
Running(d) == [c \in Cores |-> IF c = d THEN "run" ELSE "sleep"]
SafeStarts == {Fresh} \cup {Begin(Running(d), n, 1 - n) : d \in Cores, n \in 0 .. 1}

(* For what the comments promise: a submission to a core in its last task; one core in *)
(* a task that spawns, one spinning and one asleep, beside a submission.                *)
FenceStarts == {Begin(Running(c1), 1, 0)}
Mixed == [c \in Cores |-> CASE c = c1 -> "run" [] c = c2 -> "spin" [] OTHER -> "sleep"]
StealStarts == {Begin(Mixed, 1, 1)}

-----------------------------------------------------------------------------
Old(name, init) == part = name /\ init

(* No earlier pool runs. *)
None ==
    /\ queue = NoOne /\ deque = NoOne /\ charge = NoOne /\ pending = NoOne /\ at = NoOne
    /\ stack = NoOne /\ wakeup = NoOne /\ idlers = NoOne /\ called = NoOne
    /\ monitor = NoOne /\ stop = NoOne /\ call = NoOne /\ main = NoOne /\ done = NoOne /\ mine = NoOne

MCInit ==
    /\ Init
    /\ \/ part = "parking" /\ None
       \/ /\ pc = Fresh.cores /\ mine = NoOne
          /\ \/ Old("v2", V2!Init) \/ Old("v2_02", V202!Init) \/ Old("v2_03", V203!Init)
             \/ Old("v3", V3!Init) \/ Old("v3_arena", V3Arena!Init)
             \/ Old("v4", V4!Init) \/ Old("v20", V20!Init)
       \/ /\ pc = Fresh.cores
          /\ (Old("tree", Tree205!pool_create) \/ Old("pair", Pair205!pool_create)
              \/ Old("full", Full205!pool_create))

In(name, A) == part = name /\ A /\ UNCHANGED <<part, vars>>
Other(name, A) == In(name, A) /\ UNCHANGED mine

(* An earlier pool, destroyed, does no more. *)
Freed == part # "parking" /\ main.pc = "freed" /\ UNCHANGED <<part, vars, oldVars>>

MCNext ==
    \/ part = "parking" /\ Next /\ UNCHANGED <<part, oldVars>>
    \/ Other("v2", V2!Next) \/ Other("v2_02", V202!Next) \/ Other("v2_03", V203!Next)
    \/ Other("v3", V3!Next) \/ Other("v3_arena", V3Arena!Next)
    \/ Other("v4", V4!Next) \/ Other("v20", V20!Next)
    \/ In("tree", Tree205!pool_step) \/ In("pair", Pair205!pool_step)
    \/ In("full", Full205!pool_step)
    \/ Freed

MCSpec == MCInit /\ [][MCNext]_<<part, vars, oldVars>>

Symmetry == Permutations(Cores)

-----------------------------------------------------------------------------
(* What PoolParking promises of today's pool (WakersAreRight and NobodyLeftAsleep)   *)
(* the earlier ones promise in their own terms.                                      *)

(* The counters by which a pool decides whom to wake, who may spin and when it is *)
(* idle are exact (thread_pool_v20.c:206, v4's ctr, ...).  The wait_idle of v3,   *)
(* which reads one counter, ends only when every task has run.                    *)
Counted ==
    CASE part = "v2"       -> V2!PendingExact
      [] part = "v2_02"    -> V202!PendingExact
      [] part = "v2_03"    -> V203!PendingExact
      [] part = "v3"       -> V3!PendingExact /\ V3!WaitIdleDrains
      [] part = "v3_arena" -> V3Arena!EachCounterExact /\ V3Arena!ParkedExact
      [] part = "v4"       -> V4!PendingExact
      [] part = "v20"      -> V20!PendingExact /\ V20!SpinnersCapped
      [] part = "tree"     -> Tree205!CountersTogether
      [] part = "pair"     -> Pair205!CountersTogether
      [] part = "full"     -> Full205!CountersTogether
      [] OTHER             -> TRUE

(* Nobody sleeps on work of which no one will tell it: one worker and its own      *)
(* queues; an elastic worker and the monitor (thread_pool_v2_03.c); a core that    *)
(* was claimed and so is woken, and one with tasks of its own (thread_pool_antes.c). *)
NoSleepOnWork ==
    CASE part = "v2"       -> V2!SleeperHasNoWork
      [] part = "v2_02"    -> V202!SleeperHasNoWork
      [] part = "v2_03"    -> V203!SleeperHasNoWork
      [] part = "v3"       -> V3!SleeperHasNoWork
      [] part = "v3_arena" -> V3Arena!SleeperHasNoWork
      [] part = "v4"       -> V4!SleeperHasNoWork
      [] part = "v20"      -> V20!SleeperHasNoWork
      [] part = "tree"     -> Tree205!ClaimedOneIsWoken /\ Tree205!SleeperKeptNothing
      [] part = "pair"     -> Pair205!ClaimedOneIsWoken /\ Pair205!SleeperKeptNothing
      [] part = "full"     -> Full205!ClaimedOneIsWoken /\ Full205!SleeperKeptNothing
      [] OTHER             -> TRUE

(* An earlier pool counts right, and lets nobody sleep on work.                      *)
EarlierPoolsAreRight == Counted /\ NoSleepOnWork
=============================================================================
