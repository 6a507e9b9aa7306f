------------------------------ MODULE PoolV203 -------------------------------
(***************************************************************************)
(* versions/thread_pool_v2_03.c: v2_02 with elastic workers, asleep until  *)
(* the monitor finds a worker stuck in its task and tasks waiting in the   *)
(* shards; then one drains, and goes back to sleep.                        *)
(***************************************************************************)
EXTENDS EarlierPool

ShardSet == ToSet(Shards)
Init == Start(ShardSet \cup Workers, ShardSet)

Regular == Workers \ Elastic

v203_loop(w) == w \in Regular /\ (LoopTop(w) \/ Prepare(w))

v203_deque_take(w)  == TakeOwn(w, "take", InShards(w))
v203_shard_pop(w)   == \E s \in at[w].left : PopOne(w, "shards", s, AfterShard(w, s))
v203_deque_steal(w) == StealTop(w, LAMBDA v : Onward(w, "steal", at[w].left \ {v}))

v203_spin(w) ==
    \/ SpinOn(w, Step("rest", "first"))
    \/ Moves(w, "got", Step("run", "first"))

v203_idle(w) ==
    /\ at[w].try = "second"
    /\ Moves(w, "missed", IF w \in Core THEN LookFor("spin") ELSE Step("rest", "first"))
v203_sleep(w) == SleepsCounted(w, w \in Core)
v203_awake(w) == w \in Regular /\ WakesCounted(w, w \in Core)

v203_run(w) == EndTask(w, charge[Inner(w).task])

-----------------------------------------------------------------------------
(* An elastic worker: parked is set, the signal cleared, and parked read again. *)

Claimed(w, now) == claimed' = IF now THEN claimed \cup {w} ELSE claimed \ {w}
ElasticOnly == UNCHANGED <<queue, deque, charge, pending, stack, idlers, monitor, stop, call, main, done>>

elastic_park(w) ==
    /\ w \in Elastic /\ In(w, "top")
    /\ IF stop THEN Goes(w, OutStep) /\ UNCHANGED claimed
       ELSE Goes(w, Step("prepare", "drain")) /\ Claimed(w, FALSE)
    /\ ElasticOnly /\ UNCHANGED signal

(* Bug seeded in elastic_prepare: the worker sleeps on what it read before. *)
Melastic_prepare(w) ==
    /\ In(w, "prepare")
    /\ signal' = [signal EXCEPT ![w] = FALSE] /\ Goes(w, Step("asleep", "drain"))
    /\ ElasticOnly /\ UNCHANGED claimed

elastic_prepare(w) ==
    /\ In(w, "prepare")
    /\ signal' = [signal EXCEPT ![w] = FALSE] /\ Goes(w, Step("parked?", "drain"))
    /\ ElasticOnly /\ UNCHANGED claimed

elastic_sleep(w) ==
    Moves(w, "parked?", Step(IF w \in claimed THEN "called?" ELSE "asleep", "drain"))

elastic_awake(w) == w \in Elastic /\ Wakes(w, Step("called?", "drain"))

elastic_called(w) ==
    Moves(w, "called?", IF stop THEN OutStep ELSE IF w \in claimed THEN Step("again", "drain")
                        ELSE TopStep)

(* It looks until it found nothing for long. *)
elastic_drain(w) ==
    \/ Moves(w, "again", IF stop THEN OutStep ELSE LookFor("drain"))
    \/ /\ at[w].try = "drain"
       /\ \E step \in {Step("again", "drain"), TopStep} : Moves(w, "missed", step)

-----------------------------------------------------------------------------
(* The monitor *)

MonitorIs(m) == monitor' = m
MonitorOnly ==
    UNCHANGED <<queue, deque, charge, pending, at, stack, idlers, stop, call, main, done>>

(* A worker in a task since the last tick, and a shard that is not empty. *)
monitor_scan ==
    /\ monitor = "ticks" /\ ~stop
    /\ \E w \in Regular : stack[w] # <<>> /\ In(w, "run")
    /\ \E s \in ShardSet : queue[s] # <<>>
    /\ MonitorIs("calls") /\ MonitorOnly /\ UNCHANGED <<signal, claimed>>

(* Bug seeded in monitor_claim: the worker is woken, its parked left as it is. *)
Mmonitor_claim ==
    /\ monitor = "calls"
    /\ \/ \E w \in Elastic \ claimed : claimed' = Elastic /\ MonitorIs("ticks")
       \/ Elastic \subseteq claimed /\ MonitorIs("ticks") /\ UNCHANGED claimed
    /\ MonitorOnly /\ UNCHANGED signal

(* The CAS of parked from 1 to 0; none parked. *)
monitor_claim ==
    /\ monitor = "calls"
    /\ \/ \E w \in Elastic \ claimed : Claimed(w, TRUE) /\ MonitorIs(w)
       \/ Elastic \subseteq claimed /\ MonitorIs("ticks") /\ UNCHANGED claimed
    /\ MonitorOnly /\ UNCHANGED signal

monitor_wake ==
    /\ monitor \in Elastic
    /\ signal' = [signal EXCEPT ![monitor] = TRUE]
    /\ MonitorIs("ticks") /\ MonitorOnly /\ UNCHANGED claimed

monitor_ends ==
    /\ monitor = "ticks" /\ stop
    /\ MonitorIs("out") /\ MonitorOnly /\ UNCHANGED <<signal, claimed>>

-----------------------------------------------------------------------------
v203_spawn(w) == SpawnCounted(w, w) \/ SpawnRefused(w) \/ SpawnPut(w)
v203_count(t) == \E s \in ShardSet : CountFor(t, s, s)
v203_push(t)  == PushTo(t, "full") \/ CountBack(t, ShardSet)
v203_wake(t) == IF idlers > 0 THEN \E w \in Core : SentWaking(t, {w}) ELSE SentWaking(t, {})

v203_wait_idle == WaitBegins(Shards \o Order) \/ SumOne(Shards \o Order)
(* The monitor is joined before the workers are woken. *)
v203_destroy   == StopAll \/ (monitor = "out" /\ WakeForJoin) \/ Joined

Next ==
    \/ \E w \in Workers :
        \/ v203_loop(w) \/ v203_deque_take(w) \/ v203_shard_pop(w) \/ v203_deque_steal(w)
        \/ v203_spin(w) \/ v203_idle(w) \/ v203_sleep(w) \/ v203_awake(w)
        \/ v203_run(w) \/ v203_spawn(w)
        \/ elastic_park(w) \/ elastic_prepare(w) \/ elastic_sleep(w) \/ elastic_awake(w)
        \/ elastic_called(w) \/ elastic_drain(w)
    \/ monitor_scan \/ monitor_claim \/ monitor_wake \/ monitor_ends
    \/ \E t \in External : v203_count(t) \/ v203_push(t) \/ v203_wake(t)
    \/ v203_wait_idle \/ v203_destroy

Spec == Init /\ [][Next]_vars
=============================================================================
