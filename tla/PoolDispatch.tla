---------------------------- MODULE PoolDispatch -----------------------------
(***************************************************************************)
(* How a task travels through the thread pool (thread_pool.c): submission  *)
(* from outside into a shard, spawning from inside a task into the LIFO    *)
(* slot and the deque, pool_try_get, pool_run with its nesting, the        *)
(* indexed pending counters, pool_wait_idle and pool_destroy.              *)
(*                                                                         *)
(* Shards and deques are used through what TaskChannel and TaskDeque       *)
(* promise.  The cursors that choose where a scan starts are left open:    *)
(* a scan visits its shards, then its victims, each once, in any order.    *)
(* Parking and waking are in PoolParking.  Core, reserve and elastic       *)
(* workers dispatch alike and are not told apart.                          *)
(***************************************************************************)
EXTENDS Integers, Sequences, FiniteSets, Functions

CONSTANTS
    Tasks, NoTask,
    Kids,          \* Kids[t]: the tasks that task t submits while it runs
    Main,          \* the thread that waits and destroys
    Submitters, Plans,   \* what each external thread submits, in order: plan[p]
    NumShards, NumWorkers,
    ShardCap, DequeCap, LifoCap, Batch

Shards  == 0 .. NumShards - 1
Workers == NumShards .. NumShards + NumWorkers - 1   \* by the index of their counter
Ctrs    == Shards \cup Workers

ASSUME DispatchAssumption ==
    /\ NoTask \notin Tasks /\ IsFiniteSet(Tasks) /\ IsFiniteSet(Submitters)
    /\ Kids \in [Tasks -> Seq(Tasks)]
    /\ Main \in Submitters /\ Plans \subseteq [Submitters -> Seq(Tasks)]
    /\ {NumShards, NumWorkers, ShardCap, DequeCap, LifoCap, Batch} \subseteq Nat \ {0}

VARIABLES
    ring,      \* PoolShard.ring: published tasks, oldest first
    rr,        \* submit_rr % n_shards
    ctr,       \* ThreadPool.ctrs
    lifo, streak,   \* PoolWorker.lifo_task (NoTask: lifo_full = 0), lifo_streak
    deque,     \* PoolWorker.deque, oldest first
    batch,     \* PoolWorker.pending[pend_i .. pend_n - 1]
    wpc,       \* per worker: "loop", "get", "scan", "exit"
    todo,      \* shards and victims the scan has not visited
    raced,     \* those of todo from which another worker took since the scan began
    frames,    \* the pool_run calls of a worker, outermost first (in_task = Len)
    stop,
    spc, shard, unsent,        \* per submitter: where it is, its shard, what is left
    mpc, next, sum,            \* Main in pool_wait_idle and pool_destroy
    owed,      \* history: owed[t], times t was accepted and has not finished
    due,       \* history: the tasks owed when pool_wait_idle was called
    clean      \* history: no counter was raised since the current pass began

submit == <<spc, shard, unsent, rr>>
worker == <<lifo, streak, batch, wpc, todo, raced, frames>>
waiter == <<mpc, next, sum, due, stop>>
vars == <<ring, deque, ctr, submit, worker, waiter, owed, clean>>

Init ==
    /\ ring = [s \in Shards |-> <<>>] /\ rr = 0
    /\ ctr = [c \in Ctrs |-> 0]
    /\ lifo = [w \in Workers |-> NoTask] /\ streak = [w \in Workers |-> 0]
    /\ deque = [w \in Workers |-> <<>>] /\ batch = [w \in Workers |-> <<>>]
    /\ wpc = [w \in Workers |-> "loop"] /\ todo = [w \in Workers |-> {}]
    /\ raced = [w \in Workers |-> {}]
    /\ frames = [w \in Workers |-> <<>>]
    /\ stop = FALSE
    /\ spc = [p \in Submitters |-> "idle"] /\ shard = [p \in Submitters |-> 0]
    /\ unsent \in Plans
    /\ mpc = "out" /\ next = 0 /\ sum = 0
    /\ owed = [t \in Tasks |-> 0] /\ due = {} /\ clean = TRUE

AddCtr(c, d) ==
    /\ ctr' = [ctr EXCEPT ![c] = @ + d]
    /\ clean' = (clean /\ d < 0)
Accept(t) == owed' = [owed EXCEPT ![t] = @ + 1]

-----------------------------------------------------------------------------
(* pool_submit_relative called from outside the pool. *)

Calls(p) == spc[p] = "idle" /\ unsent[p] # <<>> /\ (p = Main => mpc = "out")

(* Refused at once, the pool being stopped. *)
SubmitStopped(p) ==
    /\ Calls(p) /\ stop
    /\ unsent' = [unsent EXCEPT ![p] = Tail(@)]
    /\ UNCHANGED <<ring, deque, ctr, spc, shard, rr, worker, waiter, owed, clean>>

(* The next shard is chosen and its counter raised before the push. *)
SubmitCount(p) ==
    /\ (Calls(p) /\ ~stop) \/ spc[p] = "retry"
    /\ shard' = [shard EXCEPT ![p] = rr]
    /\ rr' = (rr + 1) % NumShards
    /\ AddCtr(rr, 1)
    /\ spc' = [spc EXCEPT ![p] = "push"]
    /\ UNCHANGED <<ring, deque, unsent, worker, waiter, owed>>

SubmitPush(p) ==
    /\ spc[p] = "push"
    /\ IF Len(ring[shard[p]]) < ShardCap
       THEN /\ ring' = [ring EXCEPT ![shard[p]] = Append(@, Head(unsent[p]))]
            /\ Accept(Head(unsent[p]))
            /\ unsent' = [unsent EXCEPT ![p] = Tail(@)]
            /\ spc' = [spc EXCEPT ![p] = "idle"]
       ELSE /\ spc' = [spc EXCEPT ![p] = "undo"]
            /\ UNCHANGED <<ring, owed, unsent>>
    /\ UNCHANGED <<deque, ctr, shard, rr, worker, waiter, clean>>

(* Bug seeded in SubmitUndo: the counter of the full shard stays raised. *)
MSubmitUndoKeepsCount(p) ==
    /\ spc[p] = "undo"
    /\ spc' = [spc EXCEPT ![p] = "retry"]
    /\ UNCHANGED <<ring, deque, ctr, shard, rr, unsent, worker, waiter, owed, clean>>

(* The shard was full: the count is taken back; give up if stopped, or retry. *)
SubmitUndo(p) ==
    /\ spc[p] = "undo"
    /\ AddCtr(shard[p], -1)
    /\ spc' = [spc EXCEPT ![p] = IF stop THEN "idle" ELSE "retry"]
    /\ unsent' = [unsent EXCEPT ![p] = IF stop THEN Tail(@) ELSE @]
    /\ UNCHANGED <<ring, deque, shard, rr, worker, waiter, owed>>

-----------------------------------------------------------------------------
(* pool_worker_fn: look for a task (pool_try_get) while not stopped. *)

Idle(w) == frames[w] = <<>>
Run(w, t) ==
    /\ frames' = [frames EXCEPT ![w] = Append(@, [task |-> t, spawned |-> 0])]
    /\ wpc' = [wpc EXCEPT ![w] = "loop"]
Took(w, x) == raced' = [v \in Workers |-> IF v = w THEN {} ELSE raced[v] \cup ({x} \cap todo[v])]
Streak(w, n) == streak' = [streak EXCEPT ![w] = n]

Loop(w) ==
    /\ wpc[w] = "loop" /\ Idle(w)
    /\ wpc' = [wpc EXCEPT ![w] = IF stop THEN "exit" ELSE "get"]
    /\ UNCHANGED <<ring, deque, ctr, submit, lifo, streak, batch, todo, raced, frames, waiter, owed, clean>>

(* Bug seeded in GetLifo: the use of the slot is not counted. *)
MGetLifoUncounted(w) ==
    /\ wpc[w] = "get" /\ lifo[w] # NoTask /\ streak[w] < LifoCap
    /\ Run(w, lifo[w])
    /\ lifo' = [lifo EXCEPT ![w] = NoTask]
    /\ UNCHANGED <<ring, deque, ctr, submit, streak, batch, todo, raced, waiter, owed, clean>>

GetLifo(w) ==
    /\ wpc[w] = "get" /\ lifo[w] # NoTask /\ streak[w] < LifoCap
    /\ Streak(w, streak[w] + 1)
    /\ Run(w, lifo[w])
    /\ lifo' = [lifo EXCEPT ![w] = NoTask]
    /\ UNCHANGED <<ring, deque, ctr, submit, batch, todo, raced, waiter, owed, clean>>

(* No LIFO task, or its turn is over: the deque, then what is left of the     *)
(* last batch, then the shared places.                                        *)
GetLocal(w) ==
    /\ wpc[w] = "get" /\ (lifo[w] = NoTask \/ streak[w] >= LifoCap)
    /\ \/ /\ deque[w] # <<>>
          /\ Run(w, deque[w][Len(deque[w])])
          /\ deque' = [deque EXCEPT ![w] = SubSeq(@, 1, Len(@) - 1)]
          /\ Streak(w, 0) /\ Took(w, w)
          /\ UNCHANGED <<batch, todo>>
       \/ /\ deque[w] = <<>> /\ batch[w] # <<>>
          /\ Run(w, Head(batch[w]))
          /\ batch' = [batch EXCEPT ![w] = Tail(@)]
          /\ Streak(w, 0)
          /\ UNCHANGED <<deque, todo, raced>>
       \/ /\ deque[w] = <<>> /\ batch[w] = <<>>
          /\ wpc' = [wpc EXCEPT ![w] = "scan"]
          /\ todo' = [todo EXCEPT ![w] = Ctrs \ {w}]
          /\ UNCHANGED <<deque, batch, streak, frames, raced>>
    /\ UNCHANGED <<ring, ctr, submit, lifo, waiter, owed, clean>>

(* pool_ring_pop_batch on one shard: the first task is run, the others kept.  *)
ScanShard(w, s) ==
    /\ wpc[w] = "scan" /\ s \in todo[w] \cap Shards
    /\ \E k \in 1 .. Batch :
        /\ k <= Len(ring[s])
        /\ Run(w, Head(ring[s]))
        /\ batch' = [batch EXCEPT ![w] = SubSeq(ring[s], 2, k)]
        /\ ring' = [ring EXCEPT ![s] = SubSeq(@, k + 1, Len(@))]
    /\ Streak(w, 0) /\ Took(w, s)
    /\ todo' = [todo EXCEPT ![w] = {}]
    /\ UNCHANGED <<deque, ctr, submit, lifo, waiter, owed, clean>>

(* Victims come after the shards. *)
ScanSteal(w, v) ==
    /\ wpc[w] = "scan" /\ todo[w] \cap Shards = {} /\ v \in todo[w]
    /\ deque[v] # <<>>
    /\ Run(w, Head(deque[v]))
    /\ deque' = [deque EXCEPT ![v] = Tail(@)]
    /\ Streak(w, 0) /\ Took(w, v)
    /\ todo' = [todo EXCEPT ![w] = {}]
    /\ UNCHANGED <<ring, ctr, submit, lifo, batch, waiter, owed, clean>>

(* Nothing there.  A pop or steal also comes back empty when it loses to      *)
(* another worker, or when a push under way holds an older cell of the shard. *)
ScanMiss(w, x) ==
    /\ wpc[w] = "scan" /\ x \in todo[w]
    /\ x \in Workers => todo[w] \cap Shards = {}
    /\ \/ (IF x \in Shards THEN ring[x] ELSE deque[x]) = <<>>
       \/ x \in raced[w]
       \/ /\ x \in Shards /\ Len(ring[x]) < ShardCap
          /\ \E p \in Submitters : spc[p] = "push" /\ shard[p] = x
    /\ todo' = [todo EXCEPT ![w] = @ \ {x}]
    /\ raced' = [raced EXCEPT ![w] = @ \ {x}]
    /\ UNCHANGED <<ring, deque, ctr, submit, lifo, streak, batch, wpc, frames, waiter, owed, clean>>

(* The scan is over: a LIFO task held back by the cap, or nothing at all. *)
ScanEnd(w) ==
    /\ wpc[w] = "scan" /\ todo[w] = {}
    /\ IF lifo[w] # NoTask
       THEN /\ Run(w, lifo[w])
            /\ lifo' = [lifo EXCEPT ![w] = NoTask]
            /\ Streak(w, 0)
       ELSE /\ wpc' = [wpc EXCEPT ![w] = "loop"]
            /\ UNCHANGED <<frames, lifo, streak>>
    /\ UNCHANGED <<ring, deque, ctr, submit, batch, todo, raced, waiter, owed, clean>>

-----------------------------------------------------------------------------
(* pool_run: the task body, seen as the submissions it makes. *)

Frame(w) == frames[w][Len(frames[w])]
Spawning(w) == ~Idle(w) /\ Frame(w).spawned < Len(Kids[Frame(w).task])
Kid(w) == Kids[Frame(w).task][Frame(w).spawned + 1]
Spawned(w) == [frames EXCEPT ![w][Len(frames[w])].spawned = @ + 1]

SpawnStopped(w) ==
    /\ Spawning(w) /\ stop
    /\ frames' = Spawned(w)
    /\ UNCHANGED <<ring, deque, ctr, submit, lifo, streak, batch, wpc, todo, raced, waiter, owed, clean>>

(* Bug seeded in Spawn: the displaced task is dropped when the deque is full. *)
MSpawnDropsOld(w) ==
    /\ Spawning(w) /\ ~stop
    /\ AddCtr(w, 1) /\ Accept(Kid(w))
    /\ lifo' = [lifo EXCEPT ![w] = Kid(w)]
    /\ frames' = Spawned(w)
    /\ deque' = IF lifo[w] # NoTask /\ Len(deque[w]) < DequeCap
                THEN [deque EXCEPT ![w] = Append(@, lifo[w])] ELSE deque
    /\ UNCHANGED <<ring, submit, streak, batch, wpc, todo, raced, waiter>>

(* pool_submit_relative from inside the pool: the new task takes the LIFO     *)
(* slot, the one it displaces goes to the deque, or is run at once when the   *)
(* deque is full.                                                             *)
Spawn(w) ==
    /\ Spawning(w) /\ ~stop
    /\ AddCtr(w, 1) /\ Accept(Kid(w))
    /\ lifo' = [lifo EXCEPT ![w] = Kid(w)]
    /\ \/ /\ lifo[w] = NoTask
          /\ frames' = Spawned(w) /\ UNCHANGED deque
       \/ /\ lifo[w] # NoTask /\ Len(deque[w]) < DequeCap
          /\ deque' = [deque EXCEPT ![w] = Append(@, lifo[w])]
          /\ frames' = Spawned(w)
       \/ /\ lifo[w] # NoTask /\ Len(deque[w]) >= DequeCap
          /\ frames' = [Spawned(w) EXCEPT ![w] =
                            Append(@, [task |-> lifo[w], spawned |-> 0])]
          /\ UNCHANGED deque
    /\ UNCHANGED <<ring, submit, streak, batch, wpc, todo, raced, waiter>>

(* Bug seeded in Finish: a nested run does not lower the counter. *)
MFinishNestedUncounted(w) ==
    /\ ~Idle(w) /\ ~Spawning(w)
    /\ owed' = [owed EXCEPT ![Frame(w).task] = @ - 1]
    /\ IF Len(frames[w]) = 1 THEN AddCtr(w, -1) ELSE UNCHANGED <<ctr, clean>>
    /\ frames' = [frames EXCEPT ![w] = SubSeq(@, 1, Len(@) - 1)]
    /\ UNCHANGED <<ring, deque, submit, lifo, streak, batch, wpc, todo, raced, waiter>>

(* The body returns: pool_ctr_dec_self lowers the executor's own counter. *)
Finish(w) ==
    /\ ~Idle(w) /\ ~Spawning(w)
    /\ owed' = [owed EXCEPT ![Frame(w).task] = @ - 1]
    /\ AddCtr(w, -1)
    /\ frames' = [frames EXCEPT ![w] = SubSeq(@, 1, Len(@) - 1)]
    /\ UNCHANGED <<ring, deque, submit, lifo, streak, batch, wpc, todo, raced, waiter>>

-----------------------------------------------------------------------------
(* pool_wait_idle_relative and pool_destroy_relative. *)

WaitCall ==
    /\ mpc = "out" /\ spc[Main] = "idle"
    /\ mpc' = "read" /\ next' = 0 /\ sum' = 0
    /\ due' = {t \in Tasks : owed[t] > 0} /\ clean' = TRUE
    /\ UNCHANGED <<ring, deque, ctr, submit, worker, owed, stop>>

(* Bug seeded in WaitRead: the last worker's counter is not read. *)
MWaitReadSkipsLast ==
    /\ mpc = "read" /\ next < Cardinality(Ctrs) - 1
    /\ sum' = sum + ctr[next] /\ next' = next + 1
    /\ mpc' = IF next' = Cardinality(Ctrs) - 1 /\ sum' <= 0 THEN "returned" ELSE "read"
    /\ UNCHANGED <<ring, deque, ctr, submit, worker, owed, due, stop, clean>>

(* pool_total_pending reads the counters one by one. *)
WaitRead ==
    /\ mpc = "read" /\ next \in Ctrs
    /\ sum' = sum + ctr[next] /\ next' = next + 1
    /\ mpc' = IF next' \notin Ctrs /\ sum' <= 0 THEN "returned" ELSE "read"
    /\ UNCHANGED <<ring, deque, ctr, submit, worker, owed, due, stop, clean>>

(* Still pending: sleep0 and another pass. *)
WaitAgain ==
    /\ mpc = "read" /\ next \notin Ctrs
    /\ next' = 0 /\ sum' = 0 /\ clean' = TRUE
    /\ UNCHANGED <<ring, deque, ctr, submit, worker, owed, mpc, due, stop>>

(* Main goes on working, or the wait was the one in pool_destroy. *)
WaitReturn ==
    /\ mpc = "returned" /\ unsent[Main] # <<>>
    /\ mpc' = "out" /\ due' = {}
    /\ UNCHANGED <<ring, deque, ctr, submit, worker, owed, next, sum, stop, clean>>
DestroyStop ==
    /\ mpc = "returned"
    /\ mpc' = "join" /\ stop' = TRUE
    /\ UNCHANGED <<ring, deque, ctr, submit, worker, owed, next, sum, due, clean>>
DestroyJoined ==
    /\ mpc = "join" /\ \A w \in Workers : wpc[w] = "exit"
    /\ mpc' = "joined"
    /\ UNCHANGED <<ring, deque, ctr, submit, worker, owed, next, sum, due, stop, clean>>

-----------------------------------------------------------------------------
SubmitStep(p) == SubmitStopped(p) \/ SubmitCount(p) \/ SubmitPush(p) \/ SubmitUndo(p)
WorkerStep(w) ==
    \/ Loop(w) \/ GetLifo(w) \/ GetLocal(w) \/ ScanEnd(w)
    \/ \E x \in Ctrs : ScanShard(w, x) \/ ScanSteal(w, x) \/ ScanMiss(w, x)
    \/ SpawnStopped(w) \/ Spawn(w) \/ Finish(w)
MainStep == WaitCall \/ WaitRead \/ WaitAgain \/ WaitReturn \/ DestroyStop \/ DestroyJoined

Next ==
    \/ \E p \in Submitters : SubmitStep(p)
    \/ \E w \in Workers : WorkerStep(w)
    \/ MainStep

Spec == Init /\ [][Next]_vars

(* Threads are scheduled. *)
FairSpec ==
    /\ Spec
    /\ \A p \in Submitters : WF_vars(SubmitStep(p))
    /\ \A w \in Workers : WF_vars(WorkerStep(w))
    /\ WF_vars(MainStep)

-----------------------------------------------------------------------------
(* What must hold. *)

TypeOK ==
    /\ ring \in [Shards -> Seq(Tasks)] /\ rr \in Shards
    /\ ctr \in [Ctrs -> Int]
    /\ lifo \in [Workers -> Tasks \cup {NoTask}] /\ streak \in [Workers -> 0 .. LifoCap]
    /\ deque \in [Workers -> Seq(Tasks)] /\ batch \in [Workers -> Seq(Tasks)]
    /\ \A s \in Shards : Len(ring[s]) <= ShardCap
    /\ \A w \in Workers : Len(deque[w]) <= DequeCap /\ Len(batch[w]) < Batch
    /\ wpc \in [Workers -> {"loop", "get", "scan", "exit"}]
    /\ todo \in [Workers -> SUBSET Ctrs] /\ raced \in [Workers -> SUBSET Ctrs]
    /\ \A w \in Workers : raced[w] \subseteq todo[w]
    /\ frames \in [Workers -> Seq([task : Tasks, spawned : Nat])]
    /\ stop \in BOOLEAN
    /\ spc \in [Submitters -> {"idle", "push", "undo", "retry"}]
    /\ shard \in [Submitters -> Shards] /\ unsent \in [Submitters -> Seq(Tasks)]
    /\ mpc \in {"out", "read", "returned", "join", "joined"}
    /\ next \in 0 .. NumShards + NumWorkers /\ sum \in Int
    /\ owed \in [Tasks -> Nat] /\ due \subseteq Tasks /\ clean \in BOOLEAN

Count(seq, t) == Cardinality({i \in DOMAIN seq : seq[i] = t})

(* Where a task can be: in a shard, a LIFO slot, a deque, a batch, or running. *)
Bodies(fs) == [i \in DOMAIN fs |-> fs[i].task]
InShards(t) == [s \in Shards |-> Count(ring[s], t)]
AtWorkers(t) == [w \in Workers |->
    Count(<<lifo[w]>>, t) + Count(deque[w], t) + Count(batch[w], t) + Count(Bodies(frames[w]), t)]
Places(t) ==
    SumFunctionOnSet(InShards(t), Shards) + SumFunctionOnSet(AtWorkers(t), Workers)

(* No accepted task is lost or doubled on its way through slot, deque, batch  *)
(* and nested run, whatever is full and whoever steals; pool_destroy included. *)
NothingLost == \A t \in Tasks : Places(t) = owed[t]

(* Submissions that raised a counter and have not pushed yet, or must lower it. *)
UnderWay == {p \in Submitters : spc[p] \in {"push", "undo"}}

(* "pending por contador-indexado (... correto com steal)": a submission raises *)
(* one counter and the executor lowers another, yet together they count the    *)
(* unfinished tasks, plus the submissions under way.                           *)
CountersExact ==
    SumFunctionOnSet(ctr, Ctrs) = SumFunctionOnSet(owed, Tasks) + Cardinality(UnderWay)

(* pool_wait_idle returns only with nothing unfinished, if no task was         *)
(* submitted while it last summed the counters.                                *)
WaitIdleExact == mpc = "returned" /\ clean => \A t \in Tasks : owed[t] = 0

(* README: pool_wait_idle "Blocks until all pending tasks drain".  Every task  *)
(* submitted before the call has finished when it returns.                     *)
WaitIdleDrains == mpc = "returned" => \A t \in due : owed[t] = 0

Endless == {t \in Tasks : \E i \in DOMAIN Kids[t] : Kids[t][i] = t}

(* The LIFO slot starves nobody: a task that was accepted and does not submit  *)
(* itself again finishes, though another one keeps submitting itself, unless   *)
(* the pool is stopped first.                                                  *)
EveryTaskRuns == <>[](stop \/ \A t \in Tasks \ Endless : owed[t] = 0)

(* pool_destroy comes back: the wait inside it ends and every worker leaves,    *)
(* unless a task resubmits itself for ever.                                     *)
DestroyEnds ==
    mpc = "read" ~> (mpc = "joined" \/ unsent[Main] # <<>> \/ \E t \in Endless : owed[t] > 0)
=============================================================================
