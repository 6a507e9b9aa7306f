----------------------------- MODULE EarlierPool -----------------------------
(***************************************************************************)
(* The steps the earlier pools under versions/ are made of: a Chase-Lev    *)
(* deque for each worker, queues that take what comes from outside (one    *)
(* for each worker, or shards for all), counters of pending tasks, and     *)
(* workers that look, look again with their signal cleared, spin and       *)
(* sleep.  Each version puts them together in a module of its own.         *)
(*                                                                         *)
(* The operations of a deque and of a ring are atomic here: PoolDeque and  *)
(* RingQueue show that they may be taken so, but for the thief that loses  *)
(* a race and comes away with nothing.                                     *)
(***************************************************************************)
EXTENDS Integers, Sequences, SequencesExt, FiniteSetsExt

CONSTANTS
    Order, Core,         \* the workers, in order; those who spin and get woken
    Elastic,             \* those who sleep until the monitor calls them
    Shards,              \* the queues for all, in order; <<>>: each worker has its own
    One,                 \* the pending counter, where there is one for all
    External,            \* tasks that come from outside, each by a call of its own
    Child,               \* what a task submits while it runs
    DequeCap, QueueCap, Batch,
    SpinCap,             \* spin_cap
    NoOne

VARIABLES
    queue,      \* queue -> tasks
    deque,      \* worker -> tasks, top first
    charge,     \* task -> the counter it was counted in; NoOne: in none
    pending,    \* counter -> number
    at,         \* worker -> [pc, try, left, moved, of]: its step; the look it is part
                \* of, the places still to look in, the tasks drained, the victim
    stack,      \* worker -> the tasks it is in: [task, todo, back]
    signal,     \* worker -> its xwait_t is signalled
    idlers,     \* the idlers a version counts: n_parked_core, or spinners
    claimed,    \* the elastic workers the monitor called (their parked is 0)
    monitor,    \* the monitor's step, or the elastic worker it is about to wake
    stop,
    call,       \* external task -> [pc, left, to]: its pool_submit
    main,       \* [pc, left, sum]: wait_idle and destroy, and what they still go over
    done        \* tasks that ended

vars == <<queue, deque, charge, pending, at, stack, signal, idlers, claimed, monitor, stop, call, main, done>>

Workers == ToSet(Order)
Own == Shards = <<>>
Queues == IF Own THEN Workers ELSE ToSet(Shards)
Tasks == DOMAIN Child
Step(pc, try) == [pc |-> pc, try |-> try, left |-> {}, moved |-> 0, of |-> NoOne]
In(w, pc) == at[w].pc = pc
Goes(w, step) == at' = [at EXCEPT ![w] = step]
Now(w, pc) == Goes(w, [at[w] EXCEPT !.pc = pc])
TopStep == Step("top", "first")
OutStep == Step("out", "first")
LookFor(try) == Step("take", try)

(* A task in hand, to be run or put away, and where its end leads. *)
Frame(t, back) == [task |-> t, todo |-> Child[t], back |-> back]
Holds(w, t, back) == stack' = [stack EXCEPT ![w] = <<Frame(t, back)>> \o @]
Inner(w) == Head(stack[w])

QuietBut(w) == UNCHANGED <<signal, idlers, claimed, monitor, stop, call, main, done>>

(* With the counters of a version, and where its calls put what they bring. *)
Start(counters, targets) ==
    /\ queue = [q \in Queues |-> <<>>] /\ deque = [w \in Workers |-> <<>>]
    /\ charge = [t \in Tasks |-> NoOne]
    /\ pending = [c \in counters |-> 0]
    /\ at = [w \in Workers |-> TopStep] /\ stack = [w \in Workers |-> <<>>]
    /\ signal = [w \in Workers |-> FALSE]
    /\ idlers = 0 /\ claimed = {} /\ monitor = "ticks" /\ stop = FALSE
    /\ call = [t \in External |-> [pc |-> "new", left |-> targets, to |-> NoOne]]
    /\ main = [pc |-> "busy", left |-> <<>>, sum |-> 0] /\ done = {}

-----------------------------------------------------------------------------
(* Looking for a task *)

(* To be run at once, or by who called the spin; an elastic worker drains on. *)
Found(w, t) ==
    /\ Goes(w, Step(IF at[w].try = "spin" THEN "got" ELSE "run", at[w].try))
    /\ Holds(w, t, IF w \in Elastic THEN Step("again", "drain") ELSE TopStep)

(* On to the places left, at pc; none left: nothing found. *)
Onward(w, pc, left) ==
    IF left = {} THEN Step("missed", at[w].try) ELSE [Step(pc, at[w].try) EXCEPT !.left = left]

(* A look at the own deque; found, or on to the next place. *)
TakeOwn(w, pc, next) ==
    /\ In(w, pc)
    /\ \/ /\ deque[w] # <<>>
          /\ deque' = [deque EXCEPT ![w] = Front(@)] /\ Found(w, Last(deque[w]))
       \/ deque[w] = <<>> /\ Goes(w, next) /\ UNCHANGED <<deque, stack>>
    /\ UNCHANGED <<queue, charge, pending>> /\ QuietBut(w)

(* One task of the own queue, to be moved to the deque; none, or a batch moved. *)
DrainOne(w, over) ==
    /\ In(w, "drain")
    /\ \/ /\ queue[w] # <<>> /\ at[w].moved < Batch
          /\ queue' = [queue EXCEPT ![w] = Tail(@)]
          /\ Now(w, "stash") /\ Holds(w, Head(queue[w]), TopStep)
       \/ (queue[w] = <<>> \/ at[w].moved = Batch) /\ Goes(w, over) /\ UNCHANGED <<queue, stack>>
    /\ UNCHANGED <<deque, charge, pending>> /\ QuietBut(w)

(* Into the deque, or run on the spot when it is full. *)
StashOne(w) ==
    LET on == [at[w] EXCEPT !.pc = "drain", !.moved = @ + 1]
    IN  /\ In(w, "stash")
        /\ \/ /\ Len(deque[w]) < DequeCap
              /\ deque' = [deque EXCEPT ![w] = Append(@, Inner(w).task)]
              /\ stack' = [stack EXCEPT ![w] = Tail(@)] /\ Goes(w, on)
           \/ /\ Len(deque[w]) = DequeCap
              /\ stack' = [stack EXCEPT ![w] = <<[Inner(w) EXCEPT !.back = on]>> \o Tail(@)]
              /\ Now(w, "run") /\ UNCHANGED deque
        /\ UNCHANGED <<queue, charge, pending>> /\ QuietBut(w)

(* The top of another's deque; empty, or lost to another. *)
StealTop(w, next(_)) ==
    /\ In(w, "steal")
    /\ \E v \in at[w].left :
        \/ /\ deque[v] # <<>>
           /\ deque' = [deque EXCEPT ![v] = Tail(@)] /\ Found(w, Head(deque[v]))
        \/ Goes(w, next(v)) /\ UNCHANGED <<deque, stack>>
    /\ UNCHANGED <<queue, charge, pending>> /\ QuietBut(w)

(* A task out of queue q; empty: on. *)
PopOne(w, pc, q, next) ==
    /\ In(w, pc)
    /\ \/ /\ queue[q] # <<>>
          /\ queue' = [queue EXCEPT ![q] = Tail(@)] /\ Found(w, Head(queue[q]))
       \/ queue[q] = <<>> /\ Goes(w, next) /\ UNCHANGED <<queue, stack>>
    /\ UNCHANGED <<deque, charge, pending>> /\ QuietBut(w)

Stealing(w) == Onward(w, "steal", Workers \ {w})

(* The shards, and then the deques of the others. *)
InShards(w) == Onward(w, "shards", Queues)
AfterShard(w, q) ==
    IF at[w].left = {q} THEN Stealing(w) ELSE Onward(w, "shards", at[w].left \ {q})

-----------------------------------------------------------------------------
(* Running *)

(* The task's end: one less in the counter off, if any. *)
EndTask(w, off) ==
    /\ In(w, "run") /\ Inner(w).todo = <<>>
    /\ pending' = [c \in DOMAIN pending |-> IF c = off THEN pending[c] - 1 ELSE pending[c]]
    /\ done' = done \cup {Inner(w).task}
    /\ stack' = [stack EXCEPT ![w] = Tail(@)] /\ Goes(w, Inner(w).back)
    /\ UNCHANGED <<queue, deque, charge, signal, idlers, claimed, monitor, stop, call, main>>

(* A submit from inside a task is counted in c, and put in the own deque, or run *)
(* on the spot when that is full.                                                *)
SpawnCounted(w, c) ==
    LET t == Head(Inner(w).todo)
    IN  /\ In(w, "run") /\ Inner(w).todo # <<>> /\ ~stop
        /\ charge' = [charge EXCEPT ![t] = c]
        /\ pending' = [pending EXCEPT ![c] = @ + 1]
        /\ Now(w, "spawn")
        /\ UNCHANGED <<queue, deque, stack>> /\ QuietBut(w)

SpawnRefused(w) ==
    /\ In(w, "run") /\ Inner(w).todo # <<>> /\ stop
    /\ stack' = [stack EXCEPT ![w] = <<[Inner(w) EXCEPT !.todo = Tail(@)]>> \o Tail(@)]
    /\ UNCHANGED <<queue, deque, charge, pending, at>> /\ QuietBut(w)

SpawnPut(w) ==
    LET t == Head(Inner(w).todo)  on == [at[w] EXCEPT !.pc = "run"]
        rest == <<[Inner(w) EXCEPT !.todo = Tail(@)]>> \o Tail(stack[w])
    IN  /\ In(w, "spawn") /\ Goes(w, on)
        /\ \/ /\ Len(deque[w]) < DequeCap
              /\ deque' = [deque EXCEPT ![w] = Append(@, t)]
              /\ stack' = [stack EXCEPT ![w] = rest]
           \/ /\ Len(deque[w]) = DequeCap
              /\ stack' = [stack EXCEPT ![w] = <<Frame(t, on)>> \o rest] /\ UNCHANGED deque
        /\ UNCHANGED <<queue, charge, pending>> /\ QuietBut(w)

-----------------------------------------------------------------------------
(* Idling *)

Moves(w, from, step) ==
    /\ In(w, from) /\ Goes(w, step)
    /\ UNCHANGED <<queue, deque, charge, pending, stack>> /\ QuietBut(w)

LoopTop(w) == Moves(w, "top", IF stop THEN OutStep ELSE LookFor("first"))

(* Nothing found: the signal is cleared and the look repeated. *)
Prepare(w) ==
    /\ In(w, "missed") /\ at[w].try = "first"
    /\ signal' = [signal EXCEPT ![w] = FALSE] /\ Goes(w, LookFor("second"))
    /\ UNCHANGED <<queue, deque, charge, pending, stack, idlers, claimed, monitor, stop, call, main, done>>

(* A spin that found nothing goes on, or ends: at its limit, or when the pool stops. *)
SpinOn(w, over) ==
    /\ In(w, "missed") /\ at[w].try = "spin"
    /\ \/ ~stop /\ Goes(w, LookFor("spin"))
       \/ Goes(w, over)
    /\ UNCHANGED <<queue, deque, charge, pending, stack>> /\ QuietBut(w)

(* The last look at stop, and to sleep. *)
FallAsleep(w, from) == Moves(w, from, IF stop THEN OutStep ELSE Step("asleep", "first"))

(* A core worker is counted while it sleeps, for who submits to see. *)
SleepsCounted(w, counted) ==
    /\ In(w, "rest")
    /\ idlers' = IF ~stop /\ counted THEN idlers + 1 ELSE idlers
    /\ Goes(w, IF stop THEN OutStep ELSE Step("asleep", "first"))
    /\ UNCHANGED <<queue, deque, charge, pending, stack, signal, claimed, monitor, stop, call, main, done>>

WakesCounted(w, counted) ==
    /\ In(w, "asleep") /\ Goes(w, TopStep)
    /\ idlers' = IF counted THEN idlers - 1 ELSE idlers
    /\ UNCHANGED <<queue, deque, charge, pending, stack, signal, claimed, monitor, stop, call, main, done>>

(* By its signal or by its timeout. *)
Wakes(w, next) == Moves(w, "asleep", next)

-----------------------------------------------------------------------------
(* Calls from outside: all are back before the pool is destroyed. *)

Calls(t, step) == call' = [call EXCEPT ![t] = step]
Pending(c, d) == pending' = [pending EXCEPT ![c] = @ + d]

(* A place to put it in is chosen and counted for. *)
CountFor(t, q, c) ==
    /\ call[t].pc = "new" /\ q \in call[t].left
    /\ Calls(t, [pc |-> "push", left |-> call[t].left \ {q}, to |-> q])
    /\ charge' = [charge EXCEPT ![t] = c] /\ Pending(c, 1)
    /\ UNCHANGED <<queue, deque, at, stack, signal, idlers, claimed, monitor, stop, main, done>>

PushTo(t, full) ==
    LET q == call[t].to
    IN  /\ call[t].pc = "push"
        /\ \/ /\ Len(queue[q]) < QueueCap
              /\ queue' = [queue EXCEPT ![q] = Append(@, t)] /\ Calls(t, [call[t] EXCEPT !.pc = "wake"])
           \/ Len(queue[q]) = QueueCap /\ Calls(t, [call[t] EXCEPT !.pc = full]) /\ UNCHANGED queue
        /\ UNCHANGED <<deque, charge, pending, at, stack, signal, idlers, claimed, monitor, stop, main, done>>

(* Full: counted back, and on to the next place, around again after the last. *)
CountBack(t, targets) ==
    /\ call[t].pc = "full"
    /\ Pending(charge[t], -1)
    /\ Calls(t, [call[t] EXCEPT !.pc = "new", !.left = IF @ = {} THEN targets ELSE @])
    /\ UNCHANGED <<queue, deque, charge, at, stack, signal, idlers, claimed, monitor, stop, main, done>>

(* w is woken, or no one. *)
SentWaking(t, woken) ==
    /\ call[t].pc = "wake"
    /\ signal' = [w \in Workers |-> signal[w] \/ w \in woken]
    /\ Calls(t, [call[t] EXCEPT !.pc = "sent"])
    /\ UNCHANGED <<queue, deque, charge, pending, at, stack, idlers, claimed, monitor, stop, main, done>>

-----------------------------------------------------------------------------
(* wait_idle and destroy, once every call is back *)

MainIs(pc, left, sum) == main' = [pc |-> pc, left |-> left, sum |-> sum]
MainOnly == UNCHANGED <<queue, deque, charge, pending, at, stack, idlers, claimed, monitor, call, done>>

WaitBegins(counters) ==
    /\ main.pc = "busy" /\ \A t \in External : call[t].pc = "sent"
    /\ MainIs("sum", counters, 0)
    /\ MainOnly /\ UNCHANGED <<signal, stop>>

(* One counter after another is read and added; more than nothing: once more. *)
SumOne(counters) ==
    LET sum == main.sum + pending[Head(main.left)]
    IN  /\ main.pc = "sum"
        /\ IF Len(main.left) > 1 THEN MainIs("sum", Tail(main.left), sum)
           ELSE IF sum > 0 THEN MainIs("sum", counters, 0) ELSE MainIs("stop", <<>>, 0)
        /\ MainOnly /\ UNCHANGED <<signal, stop>>

(* Everyone is told to stop, woken and joined, one after the other. *)
StopAll ==
    /\ main.pc = "stop"
    /\ stop' = TRUE /\ MainIs("join", Order, 0)
    /\ MainOnly /\ UNCHANGED signal

WakeForJoin ==
    /\ main.pc = "join" /\ MainIs("joining", main.left, 0)
    /\ signal' = [signal EXCEPT ![Head(main.left)] = TRUE]
    /\ MainOnly /\ UNCHANGED stop

Joined ==
    /\ main.pc = "joining" /\ In(Head(main.left), "out")
    /\ MainIs(IF Len(main.left) > 1 THEN "join" ELSE "freed", Tail(main.left), 0)
    /\ MainOnly /\ UNCHANGED <<signal, stop>>

-----------------------------------------------------------------------------
(* What must hold of every version. *)

Held == UNION {{stack[w][i].task : i \in DOMAIN stack[w]} : w \in Workers}
InDeques == UNION {{deque[w][i] : i \in DOMAIN deque[w]} : w \in Workers}
InQueues == UNION {{queue[q][i] : i \in DOMAIN queue[q]} : q \in Queues}
Spawning == {Head(Inner(w).todo) : w \in {v \in Workers : In(v, "spawn")}}
Sending == {t \in External : call[t].pc \in {"choose", "push", "full"}}

Total == FoldSet(LAMBDA c, n : n + pending[c], 0, DOMAIN pending)

(* The counters together are the tasks that came in and have not ended, and those *)
(* on their way in: counted before they can be seen, counted back when there was  *)
(* no room, whoever runs them and however deep.                                   *)
PendingExact ==
    Total = Cardinality({t \in Held \cup InDeques \cup InQueues \cup Spawning \cup Sending :
                            charge[t] # NoOne})

(* Who sleeps with no signal left its own deque empty, and its own queue if it has *)
(* one, but for a task whose sender is about to wake it; an elastic worker the     *)
(* monitor called does not sleep on.                                               *)
SleeperHasNoWork ==
    \A w \in Workers : In(w, "asleep") /\ ~signal[w] =>
        /\ deque[w] = <<>>
        /\ w \in Queues => \A i \in DOMAIN queue[w] :
              \E t \in External : call[t].pc = "wake" /\ call[t].to = w
        /\ w \in claimed => monitor = w
=============================================================================
