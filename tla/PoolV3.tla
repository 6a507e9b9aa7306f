------------------------------- MODULE PoolV3 --------------------------------
(***************************************************************************)
(* versions/thread_pool_v3.c: a deque and an inbox for each worker, as in  *)
(* v4, and one counter of pending tasks for all.                           *)
(***************************************************************************)
EXTENDS EarlierPool

Init == Start({One}, Workers)

v3_loop(w) == LoopTop(w) \/ Prepare(w)

v3_deque_take(w)  == TakeOwn(w, "take", Step("drain", at[w].try))
v3_drain_inbox(w) ==
    DrainOne(w, IF at[w].moved > 0 THEN Step("retake", at[w].try) ELSE Stealing(w))
v3_deque_push(w)  == StashOne(w)
v3_deque_retake(w) == TakeOwn(w, "retake", Stealing(w))
v3_deque_steal(w) ==
    StealTop(w, LAMBDA v : [at[w] EXCEPT !.pc = "inbox", !.left = @ \ {v}, !.of = v])
v3_inbox_steal(w) == PopOne(w, "inbox", at[w].of, Onward(w, "steal", at[w].left))

v3_spin(w) ==
    \/ at[w].try = "second" /\ Moves(w, "missed", LookFor("spin"))
    \/ SpinOn(w, Step("rest", "first"))
    \/ Moves(w, "got", Step("run", "first"))
v3_sleep(w) == FallAsleep(w, "rest")
v3_awake(w) == Wakes(w, TopStep)

(* v3_run; a task run inside its submit was counted off before. *)
v3_run(w) == EndTask(w, charge[Inner(w).task])

(* v3_pool_submit from inside *)
v3_spawn(w) ==
    \/ SpawnCounted(w, One)
    \/ Len(deque[w]) < DequeCap /\ SpawnPut(w)

(* Its deque is full. *)
v3_spawn_inline(w) ==
    LET t == Head(Inner(w).todo)  on == [at[w] EXCEPT !.pc = "run"]
    IN  /\ In(w, "spawn") /\ Len(deque[w]) = DequeCap
        /\ Pending(One, -1) /\ charge' = [charge EXCEPT ![t] = NoOne]
        /\ stack' = [stack EXCEPT ![w] =
               <<Frame(t, on), [Inner(w) EXCEPT !.todo = Tail(@)]>> \o Tail(@)]
        /\ Goes(w, on)
        /\ UNCHANGED <<queue, deque>> /\ QuietBut(w)

(* From outside: counted once, and around the inboxes until one takes it. *)
v3_count(t) ==
    /\ call[t].pc = "new"
    /\ Pending(One, 1) /\ charge' = [charge EXCEPT ![t] = One]
    /\ Calls(t, [call[t] EXCEPT !.pc = "choose"])
    /\ UNCHANGED <<queue, deque, at, stack, signal, idlers, claimed, monitor, stop, main, done>>

v3_choose(t) ==
    /\ call[t].pc \in {"choose", "full"}
    /\ \E w \in (IF call[t].left = {} THEN Workers ELSE call[t].left) :
          Calls(t, [pc |-> "push", to |-> w,
                    left |-> (IF call[t].left = {} THEN Workers ELSE call[t].left) \ {w}])
    /\ UNCHANGED <<queue, deque, charge, pending, at, stack, signal, idlers, claimed, monitor,
                   stop, main, done>>

v3_push(t) == PushTo(t, "full")
v3_wake(t) == SentWaking(t, {call[t].to})

v3_wait_idle == WaitBegins(<<One>>) \/ SumOne(<<One>>)
v3_destroy   == StopAll \/ WakeForJoin \/ Joined

Next ==
    \/ \E w \in Workers :
        \/ v3_loop(w) \/ v3_deque_take(w) \/ v3_drain_inbox(w) \/ v3_deque_push(w)
        \/ v3_deque_retake(w) \/ v3_deque_steal(w) \/ v3_inbox_steal(w) \/ v3_spin(w)
        \/ v3_sleep(w) \/ v3_awake(w) \/ v3_run(w) \/ v3_spawn(w) \/ v3_spawn_inline(w)
    \/ \E t \in External : v3_count(t) \/ v3_choose(t) \/ v3_push(t) \/ v3_wake(t)
    \/ v3_wait_idle \/ v3_destroy

Spec == Init /\ [][Next]_vars
-----------------------------------------------------------------------------
(* With one counter nothing can slip between two reads of it: when v3_pool_wait_idle *)
(* is over every task ran, those that running tasks submitted included.              *)
WaitIdleDrains == main.pc \in {"stop", "join", "joining", "freed"} => done = Tasks
=============================================================================
