------------------------------- MODULE PoolV202 ------------------------------
(***************************************************************************)
(* versions/thread_pool_v2_02.c: shards for the tasks from outside, a      *)
(* deque for each worker, counters by task, and a reserve beyond the core  *)
(* that sleeps first.                                                      *)
(***************************************************************************)
EXTENDS EarlierPool

ShardSet == ToSet(Shards)
Init == Start(ShardSet \cup Workers, ShardSet)

v2_loop(w) == LoopTop(w) \/ Prepare(w)

(* v2_try_get: the deque, the shards, the other deques. *)
v2_deque_take(w)  == TakeOwn(w, "take", InShards(w))
v2_shard_pop(w)   == \E s \in at[w].left : PopOne(w, "shards", s, AfterShard(w, s))
v2_deque_steal(w) == StealTop(w, LAMBDA v : Onward(w, "steal", at[w].left \ {v}))

v2_spin(w) ==
    \/ SpinOn(w, Step("rest", "first"))
    \/ Moves(w, "got", Step("run", "first"))

(* The core spins first; the reserve goes to sleep. *)
v2_idle(w) ==
    /\ at[w].try = "second"
    /\ Moves(w, "missed", IF w \in Core THEN LookFor("spin") ELSE Step("rest", "first"))
v2_sleep(w) == SleepsCounted(w, w \in Core)
v2_awake(w) == WakesCounted(w, w \in Core)

(* A task is counted off where it was counted, whoever runs it. *)
v2_run(w) == EndTask(w, charge[Inner(w).task])

v2_spawn(w) == SpawnCounted(w, w) \/ SpawnRefused(w) \/ SpawnPut(w)
v2_count(t) == \E s \in ShardSet : CountFor(t, s, s)
v2_push(t)  == PushTo(t, "full") \/ CountBack(t, ShardSet)

(* The next core worker in turn is woken, if any sleeps; it need not be that one. *)
v2_wake(t) == IF idlers > 0 THEN \E w \in Core : SentWaking(t, {w}) ELSE SentWaking(t, {})

v2_wait_idle == WaitBegins(Shards \o Order) \/ SumOne(Shards \o Order)
v2_destroy   == StopAll \/ WakeForJoin \/ Joined

Next ==
    \/ \E w \in Workers :
        \/ v2_loop(w) \/ v2_deque_take(w) \/ v2_shard_pop(w) \/ v2_deque_steal(w)
        \/ v2_spin(w) \/ v2_idle(w) \/ v2_sleep(w) \/ v2_awake(w)
        \/ v2_run(w) \/ v2_spawn(w)
    \/ \E t \in External : v2_count(t) \/ v2_push(t) \/ v2_wake(t)
    \/ v2_wait_idle \/ v2_destroy

Spec == Init /\ [][Next]_vars
=============================================================================
