----------------------------- MODULE WsShutdown ------------------------------
(***************************************************************************)
(* The life of a pool of versions/thread_pool_wspool.c: pool_create with   *)
(* its failures, submits in flight, a task that itself shuts the pool down *)
(* (through a coordinator thread), pool_destroy, the drain and join        *)
(* timeouts, stuck tasks and forced ends.  Lanes are one bounded queue of  *)
(* tasks, counted; WsLanes has their details.                              *)
(***************************************************************************)
EXTENDS Integers, FiniteSets

CONSTANTS
    Workers,      \* all_workers
    Clients,      \* threads that submit
    QueueCap,     \* tasks the lanes hold
    Kill,         \* shutdown_force_kill
    Pools         \* bound: the pools there may be, as "pool" below

VARIABLES
    pool,               \* its platform: whether on Windows, where a handle tells whether
                        \* its thread has ended; the workers made by pool_create and
                        \* those the reserve monitor may make later; submits of a client
    shutdown, started, complete, poisoned, stop, apiUsers, pending,
    queue,              \* tasks in the lanes
    wpc, state,         \* per worker: where its thread is, WSWorker.state
    reserveMon, longMon,\* monitors: "none", "runs", "over"
    fin,                \* pool_shutdown_finalize: who runs it, where it is, worker seen
    mpc,                \* the thread that creates and destroys
    cpc, left,          \* per client: where it is, submits left
    freed               \* what was freed: "workers", "lanes", "pool"

flags == <<shutdown, started, complete, poisoned, stop>>
vars  == <<pool, flags, apiUsers, pending, queue, wpc, state, reserveMon, longMon, fin, mpc,
           cpc, left, freed>>

NoFin == [by |-> "none", pc |-> "none", todo |-> {}, seen |-> {}]

Init ==
    /\ pool \in Pools
    /\ shutdown = 0 /\ started = 0 /\ complete = 0 /\ poisoned = 0 /\ stop = 0
    /\ apiUsers = 0 /\ pending = 0 /\ queue = 0
    /\ wpc = [w \in Workers |-> "none"]
    /\ state = [w \in Workers |-> "active"]
    /\ reserveMon = "none" /\ longMon = "none"
    /\ fin = NoFin /\ mpc = "create"
    /\ cpc = [c \in Clients |-> "idle"] /\ left = [c \in Clients |-> pool.submits]
    /\ freed = {}

Exists(w) == wpc[w] # "none"
Alive(w) == wpc[w] \in {"idle", "run", "closes", "calls", "exit"}

-----------------------------------------------------------------------------
(* pool_create: the arrays, the workers, their threads, the monitors; a      *)
(* failure anywhere destroys what there is.                                  *)

Same == UNCHANGED <<pool, flags, apiUsers, pending, queue, fin, cpc, left, freed>>

CreateWorkers ==
    /\ mpc = "create"
    /\ \E made \in SUBSET pool.first :
          /\ wpc' = [w \in Workers |-> IF w \in made THEN "created" ELSE "none"]
          /\ mpc' = IF made = pool.first THEN "start" ELSE "destroy"
    /\ UNCHANGED <<state, reserveMon, longMon>> /\ Same

(* pool_start_all_workers: those after the one that failed are marked stopped. *)
StartWorkers ==
    /\ mpc = "start"
    /\ \E up \in SUBSET pool.first :
          /\ wpc' = [w \in Workers |-> IF w \in up THEN "idle" ELSE wpc[w]]
          /\ state' = [w \in Workers |-> IF w \in pool.first \ up THEN "stopped" ELSE "active"]
          /\ mpc' = IF up = pool.first THEN "monitors" ELSE "destroy"
    /\ UNCHANGED <<reserveMon, longMon>> /\ Same

StartMonitors ==
    /\ mpc = "monitors"
    /\ \/ mpc' = "destroy" /\ UNCHANGED <<reserveMon, longMon>>
       \/ reserveMon' = "runs" /\ mpc' = "destroy" /\ UNCHANGED longMon
       \/ reserveMon' = "runs" /\ longMon' = "runs" /\ mpc' = "ready"
    /\ UNCHANGED <<wpc, state>> /\ Same

(* refill_reserve_to_target: shutdown was looked at just before. *)
Refill(w) ==
    /\ reserveMon = "refill" /\ w \in pool.late /\ ~Exists(w)
    /\ \/ wpc' = [wpc EXCEPT ![w] = "idle"] /\ UNCHANGED state
       \/ wpc' = [wpc EXCEPT ![w] = "created"] /\ state' = [state EXCEPT ![w] = "stopped"]
    /\ reserveMon' = "runs"
    /\ UNCHANGED <<longMon, mpc>> /\ Same

RefillCheck ==
    /\ reserveMon = "runs" /\ shutdown = 0 /\ \E w \in pool.late : ~Exists(w)
    /\ reserveMon' = "refill"
    /\ UNCHANGED <<wpc, state, longMon, mpc>> /\ Same

MonitorEnds ==
    /\ shutdown = 1
    /\ \/ reserveMon = "runs" /\ reserveMon' = "over" /\ UNCHANGED longMon
       \/ longMon = "runs" /\ longMon' = "over" /\ UNCHANGED reserveMon
    /\ UNCHANGED <<wpc, state, mpc>> /\ Same

-----------------------------------------------------------------------------
(* pool_submit between pool_api_enter and pool_api_leave *)

Client(c, where) == cpc' = [cpc EXCEPT ![c] = where]
Rest == UNCHANGED <<pool, flags, wpc, state, reserveMon, longMon, fin, mpc, freed>>

(* The owner of the pool starts no call once it destroys it. *)
Enter(c) ==
    /\ cpc[c] = "idle" /\ mpc = "ready" /\ left[c] > 0
    /\ left' = [left EXCEPT ![c] = @ - 1]
    /\ apiUsers' = apiUsers + 1
    /\ Client(c, "in")
    /\ UNCHANGED <<pending, queue>> /\ Rest

(* Read again in each turn of the loop: a full pool gives way to a shutdown. *)
CheckShutdown(c) ==
    /\ cpc[c] = "in"
    /\ Client(c, IF shutdown = 1 THEN "leave" ELSE "push")
    /\ UNCHANGED <<apiUsers, pending, queue, left>> /\ Rest

PushCount(c) ==
    /\ cpc[c] = "push"
    /\ pending' = pending + 1
    /\ Client(c, "put")
    /\ UNCHANGED <<apiUsers, queue, left>> /\ Rest

PushPut(c) ==
    /\ cpc[c] = "put"
    /\ IF queue < QueueCap
       THEN queue' = queue + 1 /\ Client(c, "leave") /\ UNCHANGED pending
       ELSE pending' = pending - 1 /\ Client(c, "in") /\ UNCHANGED queue
    /\ UNCHANGED <<apiUsers, left>> /\ Rest

LeaveApi(c) ==
    /\ cpc[c] = "leave"
    /\ apiUsers' = apiUsers - 1
    /\ Client(c, "idle")
    /\ UNCHANGED <<pending, queue, left>> /\ Rest

ClientStep(c) == CheckShutdown(c) \/ PushCount(c) \/ PushPut(c) \/ LeaveApi(c)

-----------------------------------------------------------------------------
(* worker_fn *)

Goes(w, where) == wpc' = [wpc EXCEPT ![w] = where]
Aside == UNCHANGED <<pool, apiUsers, reserveMon, longMon, mpc, cpc, left, freed>>

RunTask(w) ==
    /\ wpc[w] = "idle" /\ stop = 0 /\ state[w] # "stopping" /\ queue > 0
    /\ queue' = queue - 1
    /\ Goes(w, "run")
    /\ UNCHANGED <<flags, pending, state, fin>> /\ Aside

(* A task may also never come back: its worker is stuck. *)
TaskEnds(w) ==
    /\ wpc[w] = "run"
    /\ pending' = pending - 1
    /\ Goes(w, "idle")
    /\ UNCHANGED <<flags, queue, state, fin>> /\ Aside

(* A task calls pool_shutdown: the first closes the pool and starts the      *)
(* coordinator, for a worker cannot wait for itself; the others return.      *)
TaskShutsDown(w) ==
    /\ wpc[w] = "run" /\ started = 0 /\ mpc \in {"ready", "destroy"}
    /\ started' = 1
    /\ Goes(w, "closes")
    /\ UNCHANGED <<shutdown, complete, poisoned, stop, pending, queue, state, fin>> /\ Aside

TaskCloses(w) ==
    /\ wpc[w] = "closes"
    /\ shutdown' = 1
    /\ Goes(w, "calls")
    /\ UNCHANGED <<started, complete, poisoned, stop, pending, queue, state, fin>> /\ Aside

StartCoordinator(w) ==
    /\ wpc[w] = "calls"
    /\ \/ fin' = [NoFin EXCEPT !.by = "coordinator", !.pc = "close"] /\ UNCHANGED started
       \/ started' = 0 /\ UNCHANGED fin
    /\ Goes(w, "run")
    /\ UNCHANGED <<shutdown, complete, poisoned, stop, pending, queue, state>> /\ Aside

LeaveLoop(w) ==
    /\ wpc[w] = "idle" /\ (stop = 1 \/ state[w] = "stopping")
    /\ Goes(w, "exit")
    /\ UNCHANGED <<flags, pending, queue, state, fin>> /\ Aside

ThreadEnds(w) ==
    /\ wpc[w] = "exit"
    /\ state' = [state EXCEPT ![w] = "stopped"]
    /\ Goes(w, "ended")
    /\ UNCHANGED <<flags, pending, queue, fin>> /\ Aside

WorkerStep(w) ==
    RunTask(w) \/ TaskCloses(w) \/ StartCoordinator(w) \/ LeaveLoop(w) \/ ThreadEnds(w)

-----------------------------------------------------------------------------
(* pool_shutdown and pool_destroy by the owner of the pool *)

Hold == UNCHANGED <<pool, apiUsers, pending, queue, wpc, reserveMon, longMon, cpc, left>>

Destroy ==
    /\ mpc = "ready" /\ mpc' = "destroy"
    /\ UNCHANGED <<flags, state, fin, freed>> /\ Hold

MainShutdown ==
    /\ mpc = "destroy"
    /\ IF started = 0
       THEN /\ started' = 1 /\ mpc' = "finalizes"
            /\ fin' = [NoFin EXCEPT !.by = "main", !.pc = "close"]
       ELSE mpc' = "waits" /\ UNCHANGED <<started, fin>>
    /\ UNCHANGED <<shutdown, complete, poisoned, stop, state, freed>> /\ Hold

MainWaits ==
    /\ mpc = "waits" /\ complete = 1
    /\ mpc' = "last"
    /\ UNCHANGED <<flags, state, fin, freed>> /\ Hold

FreePool ==
    /\ mpc = "last"
    /\ \/ poisoned = 1 /\ UNCHANGED freed
       \/ poisoned = 0 /\ apiUsers = 0 /\ freed' = freed \cup {"pool"}
    /\ mpc' = "over"
    /\ UNCHANGED <<flags, state, fin>> /\ Hold

-----------------------------------------------------------------------------
(* pool_shutdown_finalize, by the owner or by the coordinator *)

FinGoes(here, there) == fin.pc = here /\ fin' = [fin EXCEPT !.pc = there]
Still == UNCHANGED <<pool, apiUsers, pending, queue, reserveMon, longMon, cpc, left>>

FinClose ==
    /\ FinGoes("close", "monitors")
    /\ shutdown' = 1
    /\ UNCHANGED <<started, complete, poisoned, stop, state, mpc, freed, wpc>> /\ Still

(* Mutant: the monitors are told and not waited for. *)
MFinJoinMonitorsUnawaited ==
    /\ FinGoes("monitors", "drain")
    /\ UNCHANGED <<flags, state, mpc, freed, wpc>> /\ Still

FinJoinMonitors ==
    /\ FinGoes("monitors", "drain")
    /\ reserveMon \in {"none", "over"} /\ longMon \in {"none", "over"}
    /\ UNCHANGED <<flags, state, mpc, freed, wpc>> /\ Still

(* Until nothing is pending, or the drain timeout. *)
FinDrain ==
    /\ FinGoes("drain", "stop")
    /\ UNCHANGED <<flags, state, mpc, freed, wpc>> /\ Still

(* pool_stop_all_workers *)
FinStop ==
    /\ fin.pc = "stop"
    /\ stop' = 1
    /\ fin' = [fin EXCEPT !.pc = "mark", !.todo = {w \in Workers : Exists(w)}]
    /\ UNCHANGED <<shutdown, started, complete, poisoned, state, mpc, freed, wpc>> /\ Still

FinLook(w) ==
    /\ fin.pc = "mark" /\ fin.seen = {} /\ w \in fin.todo
    /\ fin' = [fin EXCEPT !.todo = @ \ {w},
                          !.seen = IF state[w] = "stopped" THEN {} ELSE {w}]
    /\ UNCHANGED <<flags, state, mpc, freed, wpc>> /\ Still

FinMark(w) ==
    /\ fin.pc = "mark" /\ w \in fin.seen
    /\ state' = [state EXCEPT ![w] = "stopping"]
    /\ fin' = [fin EXCEPT !.seen = {}]
    /\ UNCHANGED <<flags, mpc, freed, wpc>> /\ Still

FinMarked ==
    /\ fin.todo = {} /\ fin.seen = {}
    /\ FinGoes("mark", "wait")
    /\ UNCHANGED <<flags, state, mpc, freed, wpc>> /\ Still

(* Mutant: only workers that never started count as dead. *)
MHandleDeadUnstarted(w) == wpc[w] = "created"

(* worker_handle_dead *)
HandleDead(w) == wpc[w] = "created" \/ (pool.windows /\ wpc[w] = "ended")

Stragglers == {w \in Workers : Exists(w) /\ state[w] # "stopped" /\ ~HandleDead(w)}

(* Mutant: waits until every worker has stopped. *)
MFinWaitForAll ==
    /\ FinGoes("wait", "users") /\ Stragglers = {}
    /\ state' = [w \in Workers |-> IF HandleDead(w) THEN "stopped" ELSE state[w]]
    /\ UNCHANGED <<flags, mpc, freed, wpc>> /\ Still

(* pool_wait_workers_stopped_timeout, its last turn *)
FinWait ==
    /\ fin.pc = "wait"
    /\ fin' = [fin EXCEPT !.pc = IF Stragglers = {} THEN "users" ELSE "poison",
                          !.todo = Stragglers]
    /\ state' = [w \in Workers |-> IF HandleDead(w) THEN "stopped" ELSE state[w]]
    /\ UNCHANGED <<flags, mpc, freed, wpc>> /\ Still

(* force_kill_stragglers: the next one is passed over, killed or, where the   *)
(* system refuses, left.  Windows ends any thread at once; POSIX asks it to   *)
(* end and joins it, which returns at once for one that has ended.            *)
KillNext(w) ==
    /\ fin.pc = "poison" /\ Kill /\ w \in fin.todo
    /\ fin' = [fin EXCEPT !.todo = @ \ {w}]
    /\ UNCHANGED <<flags, mpc, freed>> /\ Still

Killed(w) ==
    /\ w \in Stragglers
    /\ wpc' = [wpc EXCEPT ![w] = "killed"]
    /\ state' = [state EXCEPT ![w] = "stopped"]

FinKill(w) ==
    /\ KillNext(w)
    /\ w \in Stragglers => pool.windows \/ wpc[w] = "ended"
    /\ Killed(w) \/ UNCHANGED <<wpc, state>>

(* A live one ends where it meets a cancellation point, and may meet none. *)
ThreadCancelled(w) == KillNext(w) /\ ~pool.windows /\ Alive(w) /\ Killed(w)

(* Then shutdown_poisoned. *)
FinPoison ==
    /\ FinGoes("poison", "done")
    /\ ~Kill \/ fin.todo = {}
    /\ poisoned' = 1
    /\ UNCHANGED <<shutdown, started, complete, stop, state, mpc, freed, wpc>> /\ Still

FinUsers ==
    /\ FinGoes("users", "join") /\ apiUsers = 0
    /\ UNCHANGED <<flags, state, mpc, freed, wpc>> /\ Still

(* pool_join_and_free_workers *)
FinJoin ==
    /\ FinGoes("join", "lanes")
    /\ \A w \in Workers : Exists(w) => wpc[w] \in {"created", "ended"}
    /\ freed' = freed \cup {"workers"}
    /\ UNCHANGED <<flags, state, mpc, wpc>> /\ Still

FinLanes ==
    /\ FinGoes("lanes", "done")
    /\ freed' = freed \cup {"lanes"}
    /\ UNCHANGED <<flags, state, mpc, wpc>> /\ Still

(* The last write; the owner then goes on in pool_destroy. *)
FinComplete ==
    /\ fin.pc = "done"
    /\ complete' = 1
    /\ fin' = [fin EXCEPT !.pc = "over"]
    /\ mpc' = IF fin.by = "main" THEN "last" ELSE mpc
    /\ UNCHANGED <<shutdown, started, poisoned, stop, state, freed, wpc>> /\ Still

FinStep ==
    \/ FinClose \/ FinJoinMonitors \/ FinDrain \/ FinStop \/ FinMarked \/ FinWait
    \/ FinPoison \/ FinUsers \/ FinJoin \/ FinLanes \/ FinComplete
    \/ \E w \in Workers : FinLook(w) \/ FinMark(w) \/ FinKill(w)

-----------------------------------------------------------------------------
MainStep ==
    \/ CreateWorkers \/ StartWorkers \/ StartMonitors
    \/ MainShutdown \/ MainWaits \/ FreePool

Next ==
    \/ MainStep \/ Destroy \/ RefillCheck \/ MonitorEnds \/ FinStep
    \/ \E w \in Workers : \/ Refill(w) \/ WorkerStep(w) \/ TaskEnds(w) \/ TaskShutsDown(w)
                          \/ ThreadCancelled(w)
    \/ \E c \in Clients : Enter(c) \/ ClientStep(c)

Spec == Init /\ [][Next]_vars

(* Threads that can run do; a task need not end, nor the owner destroy, nor a *)
(* thread asked to end meet a cancellation point.                            *)
Fairness ==
    /\ WF_vars(MainStep) /\ WF_vars(FinStep)
    /\ WF_vars(MonitorEnds) /\ WF_vars(\E w \in Workers : Refill(w))
    /\ \A w \in Workers : WF_vars(WorkerStep(w))
    /\ \A c \in Clients : WF_vars(ClientStep(c))

FairSpec == Spec /\ Fairness

-----------------------------------------------------------------------------
(* Nothing is freed under the feet of who may still touch it: a worker or a  *)
(* monitor that runs, a call between pool_api_enter and pool_api_leave, the  *)
(* coordinator before its last write (pool_shutdown_finalize, pool_destroy). *)
NobodyUsesFreed ==
    /\ freed # {} => /\ \A w \in Workers : ~Alive(w)
                     /\ \A c \in Clients : cpc[c] \notin {"push", "put"}
                     /\ reserveMon \in {"none", "over"} /\ longMon \in {"none", "over"}
    /\ "pool" \in freed => fin.pc = "over" /\ \A c \in Clients : cpc[c] = "idle"

(* "retorna true se todos pararam dentro de timeout_ms" (2062): the pool is  *)
(* given up only over a thread that is still there, so a clean shutdown does *)
(* not leak it.  So it is on Windows.  On POSIX the code does otherwise: it  *)
(* is also given up over a worker that ended after pool_stop_all_workers had *)
(* looked at it (2119) and before it was marked as stopping (2120).          *)
PoisonedOnlyIfStuck ==
    [][fin.pc = "wait" /\ fin'.pc = "poison" =>
          \E w \in Workers :
              \/ Alive(w)
              \/ ~pool.windows /\ wpc[w] = "ended" /\ state[w] = "stopping"]_vars

(* pool_destroy comes to its end, whatever hangs: the timeouts see to it.    *)
(* Its wait has no end only when the coordinator of a task could not start   *)
(* and gave shutdown_started back while this call already waited, and, on    *)
(* POSIX, when a thread asked to end is joined (343) and never does.         *)
DestroyReturns ==
    mpc = "destroy" ~> \/ mpc = "over"
                       \/ mpc = "waits" /\ started = 0
                       \/ ~pool.windows /\ fin.pc = "poison"
=============================================================================
