------------------------------- MODULE PoolV4 --------------------------------
(***************************************************************************)
(* versions/thread_pool_v4.c: a deque and an inbox for each worker; tasks  *)
(* from outside go round the inboxes; a counter for each worker, so that a *)
(* stolen task is counted in one and counted off in another.               *)
(***************************************************************************)
EXTENDS EarlierPool

Init == Start(Workers, Workers)

v4_loop(w) == LoopTop(w) \/ Prepare(w)

(* v4_try_get: the deque, the inbox through the deque, each other's deque and inbox. *)
v4_deque_take(w)  == TakeOwn(w, "take", Step("drain", at[w].try))
v4_drain_inbox(w) ==
    DrainOne(w, IF at[w].moved > 0 THEN Step("retake", at[w].try) ELSE Stealing(w))
v4_deque_push(w)  == StashOne(w)
v4_deque_retake(w) == TakeOwn(w, "retake", Stealing(w))
v4_deque_steal(w) ==
    StealTop(w, LAMBDA v : [at[w] EXCEPT !.pc = "inbox", !.left = @ \ {v}, !.of = v])
v4_inbox_steal(w) == PopOne(w, "inbox", at[w].of, Onward(w, "steal", at[w].left))

(* v4_worker_fn: everyone spins. *)
v4_spin(w) ==
    \/ at[w].try = "second" /\ Moves(w, "missed", LookFor("spin"))
    \/ SpinOn(w, Step("rest", "first"))
    \/ Moves(w, "got", Step("run", "first"))
v4_sleep(w) == FallAsleep(w, "rest")
v4_awake(w) == Wakes(w, TopStep)

v4_run(w) == EndTask(w, w)

(* v4_pool_submit, from inside and from outside. *)
v4_spawn(w) == SpawnCounted(w, w) \/ SpawnRefused(w) \/ SpawnPut(w)
v4_count(t) == \E w \in Workers : CountFor(t, w, w)
v4_push(t)  == PushTo(t, "full") \/ CountBack(t, Workers)
v4_wake(t)  == SentWaking(t, {call[t].to})

v4_wait_idle == WaitBegins(Order) \/ SumOne(Order)
v4_destroy   == StopAll \/ WakeForJoin \/ Joined

Next ==
    \/ \E w \in Workers :
        \/ v4_loop(w) \/ v4_deque_take(w) \/ v4_drain_inbox(w) \/ v4_deque_push(w)
        \/ v4_deque_retake(w) \/ v4_deque_steal(w) \/ v4_inbox_steal(w)
        \/ v4_spin(w) \/ v4_sleep(w) \/ v4_awake(w) \/ v4_run(w) \/ v4_spawn(w)
    \/ \E t \in External : v4_count(t) \/ v4_push(t) \/ v4_wake(t)
    \/ v4_wait_idle \/ v4_destroy

Spec == Init /\ [][Next]_vars
=============================================================================
