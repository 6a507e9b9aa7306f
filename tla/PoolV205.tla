------------------------------ MODULE PoolV205 -------------------------------
(***************************************************************************)
(* Tester/unittests/referencia/thread_pool_antes.c: the pool as it was     *)
(* before today's, kept for comparison.  To v2_03 it adds a LIFO slot for  *)
(* what a task submits, out of thieves' reach, shards popped in batches,   *)
(* and a flag on each core worker by which who submits claims the one to   *)
(* wake; a task is counted off where it ran, so only the counters' sum     *)
(* tells.                                                                  *)
(***************************************************************************)
EXTENDS PoolV203

CONSTANT LifoCap

VARIABLE
    mine   \* worker -> [slot, streak, buf, parked]: its LIFO slot, the times it
           \* was served in a row, the rest of a batch, a core's flag

Keeping(A) == A /\ UNCHANGED mine
Mine(w, record) == mine' = [mine EXCEPT ![w] = record]

pool_create ==
    /\ Start(ShardSet \cup Workers, ShardSet)
    /\ mine = [w \in Workers |-> [slot |-> NoOne, streak |-> 0, buf |-> <<>>, parked |-> FALSE]]

-----------------------------------------------------------------------------
(* pool_try_get: the slot, unless served too often; the deque; the batch; the *)
(* shards; the other deques; the slot all the same.                            *)

FromSlot(w, streak) ==
    /\ Found(w, mine[w].slot) /\ Mine(w, [mine[w] EXCEPT !.slot = NoOne, !.streak = streak])
    /\ UNCHANGED <<queue, deque, charge, pending>> /\ QuietBut(w)

lifo_first(w) ==
    /\ In(w, "take")
    /\ IF mine[w].slot # NoOne /\ mine[w].streak < LifoCap
       THEN FromSlot(w, mine[w].streak + 1)
       ELSE Keeping(Moves(w, "take", [at[w] EXCEPT !.pc = "deque"]))

(* What is found elsewhere ends the slot's turns. *)
EndsStreak(w) == Mine(w, [mine[w] EXCEPT !.streak = IF stack'[w] # stack[w] THEN 0 ELSE @])

deque_take(w) == TakeOwn(w, "deque", [at[w] EXCEPT !.pc = "batch"]) /\ EndsStreak(w)

batch_next(w) ==
    \/ /\ In(w, "batch") /\ mine[w].buf # <<>>
       /\ Found(w, Head(mine[w].buf))
       /\ Mine(w, [mine[w] EXCEPT !.streak = 0, !.buf = Tail(@)])
       /\ UNCHANGED <<queue, deque, charge, pending>> /\ QuietBut(w)
    \/ mine[w].buf = <<>> /\ Keeping(Moves(w, "batch", InShards(w)))

(* The last shard was empty: on to the other deques; there are none: to the slot. *)
AfterShards(w, s) ==
    LET next == AfterShard(w, s) IN IF next.pc = "missed" THEN [next EXCEPT !.pc = "slot"] ELSE next

shard_pop_batch(w) ==
    /\ In(w, "shards")
    /\ \E s \in at[w].left :
        LET n == IF Len(queue[s]) < Batch THEN Len(queue[s]) ELSE Batch
        IN  \/ /\ n > 0
               /\ queue' = [queue EXCEPT ![s] = SubSeq(@, n + 1, Len(@))]
               /\ Found(w, Head(queue[s]))
               /\ Mine(w, [mine[w] EXCEPT !.streak = 0, !.buf = SubSeq(queue[s], 2, n)])
            \/ n = 0 /\ Goes(w, AfterShards(w, s)) /\ UNCHANGED <<queue, stack, mine>>
    /\ UNCHANGED <<deque, charge, pending>> /\ QuietBut(w)

deque_steal(w) ==
    /\ StealTop(w, LAMBDA v :
           [at[w] EXCEPT !.left = @ \ {v}, !.pc = IF at[w].left = {v} THEN "slot" ELSE "steal"])
    /\ EndsStreak(w)

lifo_last(w) ==
    \/ In(w, "slot") /\ mine[w].slot # NoOne /\ FromSlot(w, 0)
    \/ mine[w].slot = NoOne /\ Keeping(Moves(w, "slot", [at[w] EXCEPT !.pc = "missed"]))

-----------------------------------------------------------------------------
(* Running: a task is counted off where it runs; one submitted takes the slot, *)
(* and the one that was there goes down to the deque, or runs at once.          *)

pool_run(w) == Keeping(EndTask(w, w))

spawn_count(w) == Keeping(SpawnCounted(w, w) \/ SpawnRefused(w))

deque_push(w, t) == Len(deque[w]) < DequeCap /\ deque' = [deque EXCEPT ![w] = Append(@, t)]

spawn_put(w) ==
    LET on == [at[w] EXCEPT !.pc = "run"]  old == mine[w].slot
        rest == <<[Inner(w) EXCEPT !.todo = Tail(@)]>> \o Tail(stack[w])
    IN  /\ In(w, "spawn") /\ Goes(w, on)
        /\ Mine(w, [mine[w] EXCEPT !.slot = Head(Inner(w).todo)])
        /\ \/ /\ old = NoOne
              /\ stack' = [stack EXCEPT ![w] = rest] /\ UNCHANGED deque
           \/ old # NoOne /\ deque_push(w, old) /\ stack' = [stack EXCEPT ![w] = rest]
           \/ /\ old # NoOne /\ Len(deque[w]) = DequeCap
              /\ stack' = [stack EXCEPT ![w] = <<Frame(old, on)>> \o rest] /\ UNCHANGED deque
        /\ UNCHANGED <<queue, charge, pending>> /\ QuietBut(w)

-----------------------------------------------------------------------------
(* Idling *)

worker_loop(w) == Keeping(v203_loop(w))
pool_spin(w) == Keeping(v203_spin(w) \/ v203_idle(w))

RestOnly == UNCHANGED <<queue, deque, charge, pending, stack, signal, claimed, monitor, stop, call, main, done>>

(* A core flags itself and is counted, sleeps, and takes both back. *)
core_park(w) ==
    /\ In(w, "rest")
    /\ Goes(w, IF stop THEN OutStep ELSE Step(IF w \in Core THEN "count" ELSE "asleep", "first"))
    /\ Mine(w, [mine[w] EXCEPT !.parked = ~stop /\ w \in Core])
    /\ RestOnly /\ UNCHANGED idlers

core_count(w) ==
    /\ In(w, "count") /\ Goes(w, Step("asleep", "first")) /\ idlers' = idlers + 1
    /\ RestOnly /\ UNCHANGED mine

(* Bug seeded in core_awake: who was claimed counts on being counted off by its waker. *)
Mcore_awake(w) ==
    /\ w \in Regular /\ In(w, "asleep")
    /\ Goes(w, IF w \in Core THEN Step("unpark", "first") ELSE TopStep)
    /\ idlers' = IF w \in Core /\ mine[w].parked THEN idlers - 1 ELSE idlers
    /\ RestOnly /\ UNCHANGED mine

core_awake(w) ==
    /\ w \in Regular /\ In(w, "asleep")
    /\ Goes(w, IF w \in Core THEN Step("unpark", "first") ELSE TopStep)
    /\ idlers' = IF w \in Core THEN idlers - 1 ELSE idlers
    /\ RestOnly /\ UNCHANGED mine

core_unpark(w) ==
    /\ In(w, "unpark") /\ Goes(w, TopStep)
    /\ Mine(w, [mine[w] EXCEPT !.parked = FALSE])
    /\ RestOnly /\ UNCHANGED idlers

elastic_loop(w) ==
    Keeping(\/ elastic_park(w) \/ elastic_prepare(w) \/ elastic_sleep(w)
            \/ elastic_awake(w) \/ elastic_called(w) \/ elastic_drain(w))

pool_monitor == Keeping(monitor_scan \/ monitor_claim \/ monitor_wake \/ monitor_ends)

-----------------------------------------------------------------------------
(* pool_submit_relative from outside: when a core is counted, the first one found *)
(* parked is claimed and woken.                                                    *)

submit_count(t) == Keeping(v203_count(t))
ring_push(t)    == Keeping(PushTo(t, "full"))
submit_undo(t)  == Keeping(CountBack(t, ShardSet))

CallOnly == UNCHANGED <<queue, deque, charge, pending, at, stack, idlers, claimed, monitor, stop, main, done>>
Sent == [pc |-> "sent", left |-> {}, to |-> NoOne]

wake_look(t) ==
    /\ call[t].pc = "wake"
    /\ Calls(t, IF idlers > 0 THEN [pc |-> "scan", left |-> Core, to |-> NoOne] ELSE Sent)
    /\ CallOnly /\ UNCHANGED <<signal, mine>>

wake_claim(t) ==
    /\ call[t].pc = "scan"
    /\ \E w \in call[t].left :
        \/ /\ mine[w].parked
           /\ Mine(w, [mine[w] EXCEPT !.parked = FALSE])
           /\ Calls(t, [pc |-> "signal", left |-> {}, to |-> w])
        \/ /\ ~mine[w].parked
           /\ Calls(t, IF call[t].left = {w} THEN Sent ELSE [call[t] EXCEPT !.left = @ \ {w}])
           /\ UNCHANGED mine
    /\ CallOnly /\ UNCHANGED signal

wake_signal(t) ==
    /\ call[t].pc = "signal"
    /\ signal' = [signal EXCEPT ![call[t].to] = TRUE] /\ Calls(t, Sent)
    /\ CallOnly /\ UNCHANGED mine

pool_wait_idle == Keeping(v203_wait_idle)
pool_destroy   == Keeping(v203_destroy)

pool_step ==
    \/ \E w \in Workers :
        \/ worker_loop(w) \/ lifo_first(w) \/ deque_take(w) \/ batch_next(w)
        \/ shard_pop_batch(w) \/ deque_steal(w) \/ lifo_last(w)
        \/ pool_spin(w) \/ core_park(w) \/ core_count(w) \/ core_awake(w) \/ core_unpark(w)
        \/ pool_run(w) \/ spawn_count(w) \/ spawn_put(w) \/ elastic_loop(w)
    \/ pool_monitor
    \/ \E t \in External :
        \/ submit_count(t) \/ ring_push(t) \/ submit_undo(t)
        \/ wake_look(t) \/ wake_claim(t) \/ wake_signal(t)
    \/ pool_wait_idle \/ pool_destroy

-----------------------------------------------------------------------------
InMine == {t \in Tasks : \E w \in Workers : t = mine[w].slot \/ t \in ToSet(mine[w].buf)}

(* The counters together are the tasks accepted that have not ended; the count of *)
(* parked cores is the cores between their two counts.                             *)
CountersTogether ==
    /\ Total = Cardinality({t \in Held \cup InDeques \cup InQueues \cup Spawning \cup Sending \cup InMine :
                               charge[t] # NoOne})
    /\ idlers = Cardinality({w \in Core : In(w, "asleep")})

(* Who sleeps with no signal kept nothing in its slot, batch or deque.            *)
SleeperKeptNothing ==
    \A w \in Workers : In(w, "asleep") /\ ~signal[w] =>
        deque[w] = <<>> /\ mine[w].slot = NoOne /\ mine[w].buf = <<>>

(* A core asleep and no longer flagged is about to be woken by who claimed it; an *)
(* elastic worker called, by the monitor.                                          *)
ClaimedOneIsWoken ==
    \A w \in Workers : In(w, "asleep") /\ ~signal[w] =>
        /\ w \in Core /\ ~mine[w].parked => \E t \in External : call[t].pc = "signal" /\ call[t].to = w
        /\ w \in claimed => monitor = w
=============================================================================
