------------------------------- MODULE PoolV2 --------------------------------
(***************************************************************************)
(* versions/thread_pool_v2.c: a deque and an inbox for each worker, tasks  *)
(* from outside for the core workers alone; those beyond the core take one *)
(* look around and sleep.                                                  *)
(***************************************************************************)
EXTENDS EarlierPool

Init == Start(Workers, Core)

v2_loop(w) == LoopTop(w) \/ Prepare(w)

v2_deque_take(w)  == TakeOwn(w, "take", Step("drain", at[w].try))
v2_drain_inbox(w) ==
    DrainOne(w, IF at[w].moved > 0 THEN Step("retake", at[w].try) ELSE Stealing(w))
v2_deque_push(w)  == StashOne(w)
v2_deque_retake(w) == TakeOwn(w, "retake", Stealing(w))
v2_deque_steal(w) ==
    StealTop(w, LAMBDA v : [at[w] EXCEPT !.pc = "inbox", !.left = @ \ {v}, !.of = v])
v2_inbox_steal(w) == PopOne(w, "inbox", at[w].of, Onward(w, "steal", at[w].left))

v2_spin(w) ==
    \/ SpinOn(w, Step("rest", "first"))
    \/ Moves(w, "got", Step("run", "first"))

(* The core spins first; the reserve goes to sleep. *)
v2_idle(w) ==
    /\ at[w].try = "second"
    /\ Moves(w, "missed", IF w \in Core THEN LookFor("spin") ELSE Step("rest", "first"))
v2_sleep(w) == FallAsleep(w, "rest")
v2_awake(w) == Wakes(w, TopStep)

(* Bug seeded in v2_run: the task is counted off where it was counted. *)
Mv2_run(w) == EndTask(w, NoOne)

(* v2_run counts off in the worker that runs, wherever it was counted. *)
v2_run(w) == EndTask(w, w)

v2_spawn(w) == SpawnCounted(w, w) \/ SpawnRefused(w) \/ SpawnPut(w)
v2_count(t) == \E w \in Core : CountFor(t, w, w)
v2_push(t)  == PushTo(t, "full") \/ CountBack(t, Core)
v2_wake(t)  == SentWaking(t, {call[t].to})

v2_wait_idle == WaitBegins(Order) \/ SumOne(Order)
v2_destroy   == StopAll \/ WakeForJoin \/ Joined

Next ==
    \/ \E w \in Workers :
        \/ v2_loop(w) \/ v2_deque_take(w) \/ v2_drain_inbox(w) \/ v2_deque_push(w)
        \/ v2_deque_retake(w) \/ v2_deque_steal(w) \/ v2_inbox_steal(w)
        \/ v2_spin(w) \/ v2_idle(w) \/ v2_sleep(w) \/ v2_awake(w) \/ v2_run(w) \/ v2_spawn(w)
    \/ \E t \in External : v2_count(t) \/ v2_push(t) \/ v2_wake(t)
    \/ v2_wait_idle \/ v2_destroy

Spec == Init /\ [][Next]_vars
=============================================================================
