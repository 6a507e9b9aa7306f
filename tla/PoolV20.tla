------------------------------- MODULE PoolV20 -------------------------------
(***************************************************************************)
(* versions/thread_pool_v20.c: v4 with a cap on the idle workers that spin *)
(* at once; the others sleep at once.                                      *)
(***************************************************************************)
EXTENDS EarlierPool

Init == Start(Workers, Workers)

v20_loop(w) == LoopTop(w) \/ Prepare(w)

v20_deque_take(w)  == TakeOwn(w, "take", Step("drain", at[w].try))
v20_drain_inbox(w) ==
    DrainOne(w, IF at[w].moved > 0 THEN Step("retake", at[w].try) ELSE Stealing(w))
v20_deque_push(w)  == StashOne(w)
v20_deque_retake(w) == TakeOwn(w, "retake", Stealing(w))
v20_deque_steal(w) ==
    StealTop(w, LAMBDA v : [at[w] EXCEPT !.pc = "inbox", !.left = @ \ {v}, !.of = v])
v20_inbox_steal(w) == PopOne(w, "inbox", at[w].of, Onward(w, "steal", at[w].left))

Spinners(w, from, step, d) ==
    /\ In(w, from) /\ Goes(w, step) /\ idlers' = idlers + d
    /\ UNCHANGED <<queue, deque, charge, pending, stack, signal, claimed, monitor, stop, call, main, done>>

(* Bug seeded in v20_spinner_enter: the number is read before, and then added to. *)
Mv20_spinner_enter(w) ==
    at[w].try = "second" /\ Spinners(w, "missed", LookFor("spin"), 1)

(* v20_spinner_enter, whose CAS counts only from the number it compared. *)
v20_spinner_enter(w) ==
    /\ at[w].try = "second"
    /\ IF idlers < SpinCap THEN Spinners(w, "missed", LookFor("spin"), 1)
       ELSE Moves(w, "missed", Step("rest", "first"))

v20_spin(w) == SpinOn(w, Step("give up", "spin"))

(* Counted out before the task that was found is run. *)
v20_spinner_leave(w) ==
    \/ Spinners(w, "got", Step("run", "first"), -1)
    \/ Spinners(w, "give up", Step("rest", "first"), -1)

v20_sleep(w) == FallAsleep(w, "rest")
v20_awake(w) == Wakes(w, TopStep)

v20_run(w) == EndTask(w, w)

v20_spawn(w) == SpawnCounted(w, w) \/ SpawnRefused(w) \/ SpawnPut(w)
v20_count(t) == \E w \in Workers : CountFor(t, w, w)
v20_push(t)  == PushTo(t, "full") \/ CountBack(t, Workers)
v20_wake(t)  == SentWaking(t, {call[t].to})

v20_wait_idle == WaitBegins(Order) \/ SumOne(Order)
v20_destroy   == StopAll \/ WakeForJoin \/ Joined

Next ==
    \/ \E w \in Workers :
        \/ v20_loop(w) \/ v20_deque_take(w) \/ v20_drain_inbox(w) \/ v20_deque_push(w)
        \/ v20_deque_retake(w) \/ v20_deque_steal(w) \/ v20_inbox_steal(w)
        \/ v20_spinner_enter(w) \/ v20_spin(w) \/ v20_spinner_leave(w)
        \/ v20_sleep(w) \/ v20_awake(w) \/ v20_run(w) \/ v20_spawn(w)
    \/ \E t \in External : v20_count(t) \/ v20_push(t) \/ v20_wake(t)
    \/ v20_wait_idle \/ v20_destroy

Spec == Init /\ [][Next]_vars
-----------------------------------------------------------------------------
(* The number that holds spinners back is the number that spins, inside the tasks *)
(* their looks run on the spot too, and never above the cap.                       *)
SpinnersCapped ==
    idlers = Cardinality({w \in Workers : at[w].try = "spin"
                            \/ \E i \in DOMAIN stack[w] : stack[w][i].back.try = "spin"})
    /\ idlers <= SpinCap
=============================================================================
