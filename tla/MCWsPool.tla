------------------------------ MODULE MCWsPool -------------------------------
(***************************************************************************)
(* The earlier pool on small instances: its lanes at work (WsLanes) or its *)
(* life from pool_create to pool_destroy (WsShutdown), one of the two in   *)
(* each behaviour, for what they share is only a queue of tasks.  "part"   *)
(* says which; the other stays as it was initialised.                      *)
(***************************************************************************)
EXTENDS WsLanes

CONSTANTS t1, t2, w1, w2, w3

VARIABLES
    part,
    lifePool, shutdown, started, complete, poisoned, stop, apiUsers, lifePending, queue,
    place, state, reserveMon, longMon, fin, mpc, cpc, left, freed

(* On either platform one submit and a worker made later, or two submits that find *)
(* the queue full.                                                                 *)
PoolOn(windows, late, submits) ==
    [windows |-> windows, first |-> {w1, w2}, late |-> late, submits |-> submits]
LifePools == {PoolOn(TRUE, {w3}, 1), PoolOn(FALSE, {w3}, 1),
              PoolOn(TRUE, {}, 2), PoolOn(FALSE, {}, 2)}

Life == INSTANCE WsShutdown WITH
    Workers <- {w1, w2, w3}, QueueCap <- 1, Kill <- TRUE, Pools <- LifePools,
    pool <- lifePool, pending <- lifePending, wpc <- place

lifeVars == <<lifePool, shutdown, started, complete, poisoned, stop, apiUsers, lifePending, queue,
              place, state, reserveMon, longMon, fin, mpc, cpc, left, freed>>
allVars  == <<part, vars, lifeVars>>

(* Two tasks, an owner and a reserve; one task and a worker created later. *)
Small == {[tasks |-> {t1, t2}, workers |-> {w1, w2}],
          [tasks |-> {t1}, workers |-> {w1, w2, w3}]}
(* Two tasks and a worker created later. *)
Large == {[tasks |-> {t1, t2}, workers |-> {w1, w2, w3}]}

MCInit ==
    /\ Init /\ Life!Init
    /\ \/ part = "lanes" /\ lifePool = PoolOn(TRUE, {}, 2)
       \/ part = "life" /\ \A s \in Scenarios : Cardinality(unsent) >= Cardinality(s.tasks)

(* A step of either, when it is the one at work. *)
InLanes(A) == part = "lanes" /\ A /\ UNCHANGED <<part, lifeVars>>
InLife(A)  == part = "life" /\ A /\ UNCHANGED <<part, vars>>

MCNext == InLanes(Next) \/ InLife(Life!Next)

MCSpec ==
    /\ MCInit /\ [][MCNext]_allVars
    /\ \A w \in Workers : /\ WF_vars(InLanes(WorkerStep(w)))
                          /\ WF_vars(InLanes(Refill(w)))
                          /\ WF_lifeVars(InLife(Life!WorkerStep(w)))
    /\ \A c \in Callers : WF_vars(InLanes(CallStep(c)))
    /\ WF_vars(InLanes(Contracted))
    /\ \A l \in Lane : WF_vars(InLanes(ScanRescue(l)))
    /\ WF_lifeVars(InLife(Life!MainStep)) /\ WF_lifeVars(InLife(Life!FinStep))
    /\ WF_lifeVars(InLife(Life!MonitorEnds))
    /\ WF_lifeVars(InLife(\E w \in Workers : Life!Refill(w)))
    /\ \A c \in Clients : WF_lifeVars(InLife(Life!ClientStep(c)))

-----------------------------------------------------------------------------
(* Nothing is freed under who may touch it (pool_shutdown_finalize). *)
NobodyUsesFreed == Life!NobodyUsesFreed

(* The pool is given up only over a live thread (pool_wait_workers_stopped_timeout); *)
(* on POSIX also over one that ended while it was told to stop.                      *)
PoisonedOnlyIfStuck == Life!PoisonedOnlyIfStuck

(* pool_destroy comes to its end, whatever hangs; on POSIX it may wait for a thread *)
(* that it cannot end.                                                              *)
DestroyReturns == Life!DestroyReturns
=============================================================================
