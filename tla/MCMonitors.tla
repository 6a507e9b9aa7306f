----------------------------- MODULE MCMonitors ------------------------------
(***************************************************************************)
(* The two threads that wake by a timer to watch over others, one at a     *)
(* time: the pool's monitor, and the leak watch over the registry of       *)
(* threads.  "part" says which one runs in a behaviour; the variables of   *)
(* the other stay as they were.                                            *)
(*                                                                         *)
(* The monitor's pool has one ordinary worker, which a long task fills,    *)
(* and an elastic one; stuck can reach its minimum only if that is 1       *)
(* (POOL_STUCK_MIN is 2).  Two short plans of the economy profile have a   *)
(* submit and a change of profile meet the monitor's long sleep; destroy   *)
(* comes after each plan.                                                  *)
(***************************************************************************)
EXTENDS PoolMonitor

CONSTANTS app, owner, t1, t2, Unlocked, NoThread, None

VARIABLES
    part,
    inited, listed, room, lock, hooks, place, told, call, budget,
    running, wakeup, watch, ready, scanLock, heap, halted, boss, loop, scan

MCPlans == {<<"long", "short">>, <<"eco", "short">>, <<"eco", "perf">>}

registryVars == <<inited, listed, room, lock, hooks, place, told, call, budget>>
watchVars == <<registryVars, running, wakeup, watch, ready, scanLock, heap, halted, boss,
               loop, scan>>

Ask(creates, hookings, starts, scans, alarms, by) ==
    [creates |-> creates, hooks |-> hookings, starts |-> starts, scans |-> scans,
     alarms |-> alarms, by |-> by]

(* Threads come and go; the watch beside a thread; stopped and started again,   *)
(* scanned by the one who stops it; left on and scanned by another.             *)
AskedPlans == {Ask(2, 1, 0, 0, 0, app), Ask(1, 0, 1, 0, 1, owner), Ask(0, 0, 2, 1, 1, owner),
               Ask(0, 0, 1, 1, 1, app)}

Watch == INSTANCE LeakWatch WITH
    Threads <- {t1, t2}, Callers <- {app, owner}, Boss <- owner, InitMax <- 2,
    Plans <- AskedPlans, signal <- wakeup

NoWatch ==
    /\ inited = None /\ listed = None /\ room = None /\ lock = None /\ hooks = None
    /\ place = None /\ told = None /\ call = None /\ budget = None /\ running = None
    /\ wakeup = None /\ watch = None /\ ready = None /\ scanLock = None /\ heap = None
    /\ halted = None /\ boss = None /\ loop = None /\ scan = None

-----------------------------------------------------------------------------
MCInit ==
    /\ part \in {"pool", "watch"} /\ Init
    /\ \/ part = "pool" /\ NoWatch
       \/ part = "watch" /\ Watch!Init /\ plan = <<"long", "short">>

InPool(A) == part = "pool" /\ A /\ UNCHANGED <<part, watchVars>>
InWatch(A) == part = "watch" /\ A /\ UNCHANGED <<part, vars>>

MCNext == InPool(Next) \/ InWatch(Watch!Next)

(* Each part's own fairness; as "part" never changes, a disjunction of a step of *)
(* the one and a step of the other is fair to the one that runs.                  *)
WorkerTurn(w) == Worker(w) \/ (w \in Elastic /\ ElasticWorker(w))
allVars == <<vars, watchVars>>

MCSpec ==
    /\ MCInit /\ [][MCNext]_<<part, vars, watchVars>>
    /\ WF_allVars(InPool(Creator) \/ InWatch(Watch!CallerStep(app)))
    /\ WF_allVars(InPool(Monitor) \/ InWatch(Watch!CallerStep(owner)))
    /\ WF_allVars(InPool(WorkerTurn(1)) \/ InWatch(Watch!ThreadStep(t1)))
    /\ WF_allVars(InPool(WorkerTurn(2)) \/ InWatch(Watch!ThreadStep(t2)))

-----------------------------------------------------------------------------
(* thread_enum shows the threads that are, and the notices of thread_init come in *)
(* pairs (thread_handler.c:104-148).                                               *)
ThreadsAreKnown == part = "watch" => Watch!ListIsTheThreads /\ Watch!NoticesPaired

(* One timer thread of the leak watch at most, none once stop has returned        *)
(* (mem_leak_watch.c:544-605).                                                     *)
OneTimer == part = "watch" => Watch!OneTimer

(* Once the ring is empty pool_destroy returns, whatever the profile and wherever  *)
(* its stop finds the threads; and so does mem_leak_watch_stop (thread_pool.c:911, *)
(* mem_leak_watch.c:591).                                                          *)
Stopping == IF part = "pool" THEN mpc = "wait" /\ ring = <<>> ELSE boss = "wake"
Stopped == IF part = "pool" THEN mpc \in {"gone", "crashed"} ELSE boss = "idle"
StopsReturn == Stopping ~> Stopped

(* A scan of the leak watch ends, whatever locks the threads it suspends hold      *)
(* (mem_leak_watch.c:330-493).                                                     *)
ScansEnd == part = "watch" /\ scanLock # Unlocked ~> scanLock = Unlocked
=============================================================================
