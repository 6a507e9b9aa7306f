----------------------------- MODULE PoolV3Arena -----------------------------
(***************************************************************************)
(* versions/thread_pool_v3_arena.c: tasks from outside go to shards that   *)
(* all workers share, tasks from inside to the worker's own deque; a task  *)
(* remembers the counter it was counted in.                                *)
(***************************************************************************)
EXTENDS EarlierPool

ShardSet == ToSet(Shards)
Init == Start(ShardSet \cup Workers, ShardSet)

v3_loop(w) == LoopTop(w) \/ Prepare(w)

(* v3_try_get: the deque, the shards, the other deques. *)
v3_deque_take(w)  == TakeOwn(w, "take", InShards(w))
v3_shard_pop(w)   == \E s \in at[w].left : PopOne(w, "shards", s, AfterShard(w, s))
v3_deque_steal(w) == StealTop(w, LAMBDA v : Onward(w, "steal", at[w].left \ {v}))

v3_spin(w) ==
    \/ SpinOn(w, Step("rest", "first"))
    \/ Moves(w, "got", Step("run", "first"))

(* The core spins first; without V3_CORE_RESERVE all are core. *)
v3_idle(w) ==
    /\ at[w].try = "second"
    /\ Moves(w, "missed", IF w \in Core THEN LookFor("spin") ELSE Step("rest", "first"))
v3_sleep(w) == SleepsCounted(w, w \in Core)
v3_awake(w) == WakesCounted(w, w \in Core)

(* A task is counted off where it was counted, whoever runs it. *)
v3_run(w) == EndTask(w, charge[Inner(w).task])

v3_spawn(w) == SpawnCounted(w, w) \/ SpawnRefused(w) \/ SpawnPut(w)
v3_count(t) == \E s \in ShardSet : CountFor(t, s, s)
v3_push(t)  == PushTo(t, "full") \/ CountBack(t, ShardSet)

(* The next core worker in turn is woken, if any sleeps; it need not be that one. *)
v3_wake(t) == IF idlers > 0 THEN \E w \in Core : SentWaking(t, {w}) ELSE SentWaking(t, {})

v3_wait_idle == WaitBegins(Shards \o Order) \/ SumOne(Shards \o Order)
v3_destroy   == StopAll \/ WakeForJoin \/ Joined

Next ==
    \/ \E w \in Workers :
        \/ v3_loop(w) \/ v3_deque_take(w) \/ v3_shard_pop(w) \/ v3_deque_steal(w)
        \/ v3_spin(w) \/ v3_idle(w) \/ v3_sleep(w) \/ v3_awake(w)
        \/ v3_run(w) \/ v3_spawn(w)
    \/ \E t \in External : v3_count(t) \/ v3_push(t) \/ v3_wake(t)
    \/ v3_wait_idle \/ v3_destroy

Spec == Init /\ [][Next]_vars
-----------------------------------------------------------------------------
(* Each counter by itself is exact: the tasks counted in it that have not ended. *)
EachCounterExact ==
    \A c \in DOMAIN pending :
        pending[c] = Cardinality({t \in Held \cup InDeques \cup InQueues \cup Spawning \cup Sending :
                                     charge[t] = c})

(* The number by which a submit decides to wake someone is the core workers asleep. *)
ParkedExact == idlers = Cardinality({w \in Core : In(w, "asleep")})
=============================================================================
