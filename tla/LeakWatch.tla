------------------------------ MODULE LeakWatch ------------------------------
(***************************************************************************)
(* mem_leak_watch.c over the thread registry: start and stop of the timer  *)
(* thread, its loop, and the scan, which suspends the registered threads   *)
(* one at a time to read their stacks.  One caller, Boss, starts and stops *)
(* it; the caller the plan names asks for scans.  What a scan finds is     *)
(* left out: the order of its locks and suspensions is what is modelled.   *)
(***************************************************************************)
EXTENDS ThreadRegistry

CONSTANTS
    Boss         \* the caller that uses start and stop

VARIABLES
    running,     \* g_running
    signal,      \* g_wait.signal
    watch,       \* g_thread
    ready,       \* g_scan_lock was initialised
    scanLock,    \* holder of g_scan_lock
    heap,        \* holder of the C heap's lock, seen only when kept over a step
    halted,      \* threads SuspendThread stopped
    boss,        \* where Boss stands in start or stop
    loop,        \* where the timer thread stands
    scan         \* local state of mlw_run_scan

control == <<running, signal, watch, ready, boss, loop>>
held == <<scanLock, heap, halted>>
vars == <<registryVars, control, held, scan>>

Agents == Threads \cup Callers
NoScan == [pc |-> "idle", left |-> <<>>]

Init ==
    /\ RegistryInit
    /\ running = 0 /\ signal = 0 /\ watch = NoThread /\ ready = FALSE
    /\ scanLock = Unlocked /\ heap = Unlocked /\ halted = {}
    /\ boss = "idle" /\ loop = [t \in Threads |-> "out"] /\ scan = [a \in Agents |-> NoScan]

At(a, pc) == scan[a].pc = pc /\ a \notin halted
Calm(c) == scan[c].pc = "idle" /\ (c = Boss => boss = "idle")

-----------------------------------------------------------------------------
(* mlw_run_scan.  The lock, then the copy of the spans into memory of malloc. *)
ScanEnter(a) ==
    /\ At(a, "enter") /\ scanLock = Unlocked
    /\ scanLock' = a /\ scan' = [scan EXCEPT ![a].pc = "list"]
    /\ UNCHANGED <<registryVars, control, heap, halted>>

(* thread_enum with mlw_thread_cb: handles are copied, growing their vector    *)
(* inside the registry's lock.                                                 *)
ScanList(a) ==
    /\ At(a, "list") /\ lock = Unlocked /\ heap = Unlocked
    /\ scan' = [scan EXCEPT ![a] = [pc |-> "visit", left |-> listed]]
    /\ UNCHANGED <<registryVars, control, held>>

(* SuspendThread: the scanner skips itself, and nothing happens for a handle   *)
(* that is closed, not yet set, or whose thread has ended.                     *)
Suspend(a) ==
    /\ At(a, "visit") /\ scan[a].left # <<>>
    /\ LET h == Head(scan[a].left) IN
       IF h \in Alive \ ({a} \cup halted)
       THEN /\ halted' = halted \cup {h}
            /\ scan' = [scan EXCEPT ![a].pc = "halts"]
       ELSE /\ scan' = [scan EXCEPT ![a].left = Tail(@)] /\ UNCHANGED halted
    /\ UNCHANGED <<registryVars, control, scanLock, heap>>

(* Bug seeded in Resume: a thread whose context cannot be read stays suspended. *)
MResumeNot(a) ==
    /\ At(a, "halts")
    /\ scan' = [scan EXCEPT ![a] = [pc |-> "visit", left |-> Tail(@.left)]]
    /\ UNCHANGED <<registryVars, control, held>>

(* ResumeThread, the registers and the stack read, before the next thread. *)
Resume(a) ==
    /\ At(a, "halts")
    /\ halted' = halted \ {Head(scan[a].left)}
    /\ scan' = [scan EXCEPT ![a] = [pc |-> "visit", left |-> Tail(@.left)]]
    /\ UNCHANGED <<registryVars, control, scanLock, heap>>

(* With no thread suspended, the vector is freed and the report is written. *)
Report(a) ==
    /\ At(a, "visit") /\ scan[a].left = <<>> /\ heap = Unlocked
    /\ scan' = [scan EXCEPT ![a].pc = "report"]
    /\ UNCHANGED <<registryVars, control, held>>

(* The unlock of a lock that was initialised again meanwhile frees the new one. *)
ScanLeave(a) ==
    /\ At(a, "report")
    /\ scanLock' = Unlocked /\ scan' = [scan EXCEPT ![a].pc = "idle"]
    /\ UNCHANGED <<registryVars, control, heap, halted>>

ScanStep(a) ==
    \/ ScanEnter(a) \/ ScanList(a) \/ Suspend(a) \/ Resume(a) \/ Report(a) \/ ScanLeave(a)

(* mem_leak_watch_scan_now, once the lock exists. *)
ScanNow(c) ==
    /\ c = budget.by /\ Calm(c) /\ call[c].pc = "idle" /\ ready /\ budget.scans > 0
    /\ budget' = [budget EXCEPT !.scans = @ - 1]
    /\ scan' = [scan EXCEPT ![c].pc = "enter"]
    /\ UNCHANGED <<listVars, control, held, place, told, call>>

-----------------------------------------------------------------------------
(* mem_leak_watch_start: the CAS, then the locks initialised, whoever holds them. *)
WatchStart ==
    /\ Calm(Boss) /\ call[Boss] = Idle /\ running = 0 /\ budget.starts > 0
    /\ running' = 1 /\ boss' = "init"
    /\ budget' = [budget EXCEPT !.starts = @ - 1]
    /\ UNCHANGED <<listVars, held, place, told, call, signal, watch, ready, loop, scan>>

WatchInit ==
    /\ boss = "init" /\ ready' = TRUE /\ scanLock' = Unlocked /\ boss' = "enable"
    /\ UNCHANGED <<registryVars, running, signal, watch, loop, heap, halted, scan>>

(* A configuration that is not enabled ends the start; else g_wait is prepared. *)
WatchEnable ==
    /\ boss = "enable"
    /\ \/ running' = 0 /\ boss' = "idle" /\ UNCHANGED signal
       \/ signal' = 0 /\ boss' = "create" /\ UNCHANGED running
    /\ UNCHANGED <<registryVars, held, watch, ready, loop, scan>>

WatchCreate(t) ==
    /\ boss = "create" /\ boss' = "creating" /\ Create(Boss, t, "watch")
    /\ UNCHANGED <<held, running, signal, watch, ready, loop, scan>>

(* thread_create has returned: g_thread is set, or the start is undone. *)
WatchCreated ==
    /\ boss = "creating" /\ call[Boss].pc \in {"created", "null"}
    /\ call' = [call EXCEPT ![Boss] = Idle] /\ watch' = call[Boss].thr /\ boss' = "idle"
    /\ running' = IF call[Boss].pc = "created" THEN running ELSE 0
    /\ UNCHANGED <<listVars, held, place, told, budget, signal, ready, loop, scan>>

(* mem_leak_watch_stop: the CAS, the wake, the join. *)
WatchStop ==
    /\ Calm(Boss) /\ call[Boss] = Idle /\ running = 1
    /\ running' = 0 /\ boss' = "wake"
    /\ UNCHANGED <<registryVars, held, signal, watch, ready, loop, scan>>

(* Bug seeded in WatchWake: stop does not join the thread it wakes. *)
MWatchWakeUnjoined ==
    /\ boss = "wake" /\ signal' = 1 /\ boss' = "idle" /\ watch' = NoThread
    /\ UNCHANGED <<registryVars, held, running, ready, loop, scan>>

WatchWake ==
    /\ boss = "wake" /\ signal' = 1 /\ boss' = "join"
    /\ call' = [call EXCEPT ![Boss] = [pc |-> "join", thr |-> watch, job |-> "watch"]]
    /\ UNCHANGED <<listVars, held, place, told, budget, running, watch, ready, loop,
                   scan>>

WatchJoined ==
    /\ boss = "join" /\ call[Boss].pc = "joined"
    /\ call' = [call EXCEPT ![Boss] = Idle] /\ watch' = NoThread /\ boss' = "idle"
    /\ UNCHANGED <<listVars, held, place, told, budget, running, signal, ready, loop,
                   scan>>

BossStep ==
    \/ WatchInit \/ WatchEnable \/ (\E t \in Threads : WatchCreate(t)) \/ WatchCreated
    \/ WatchWake \/ WatchJoined

-----------------------------------------------------------------------------
(* A thread of the program uses the C heap while it runs: it may be suspended   *)
(* with the heap's lock in hand.                                                *)
Works(t) == place[t] = "body" /\ told[t].job = "work" /\ t \notin halted

TakeHeap(t) ==
    /\ Works(t) /\ heap = Unlocked /\ heap' = t
    /\ place' = [place EXCEPT ![t] = "heap"]
    /\ UNCHANGED <<listVars, control, told, call, budget, scanLock, halted, scan>>

LeaveHeap(t) ==
    /\ place[t] = "heap" /\ t \notin halted /\ heap' = Unlocked
    /\ place' = [place EXCEPT ![t] = "returned"]
    /\ UNCHANGED <<listVars, control, told, call, budget, scanLock, halted, scan>>

(* mlw_monitor_loop *)
Loops(t, pc) ==
    /\ place[t] = "body" /\ told[t].job = "watch" /\ t \notin halted
    /\ scan[t].pc = "idle" /\ loop[t] = pc

LoopCheck(t) ==
    /\ Loops(t, "out")
    /\ IF running = 1
       THEN loop' = [loop EXCEPT ![t] = "prepare"] /\ UNCHANGED place
       ELSE place' = [place EXCEPT ![t] = "returned"] /\ UNCHANGED loop
    /\ UNCHANGED <<listVars, held, told, call, budget, running, signal, watch, ready,
                   boss, scan>>

LoopPrepare(t) ==
    /\ Loops(t, "prepare") /\ signal' = 0 /\ loop' = [loop EXCEPT ![t] = "asleep"]
    /\ UNCHANGED <<registryVars, held, running, watch, ready, boss, scan>>

(* Bug seeded in LoopSleep: thread_wait_sleep, which has no timeout. *)
MLoopSleepForever(t) ==
    /\ Loops(t, "asleep") /\ signal = 1
    /\ signal' = 0 /\ loop' = [loop EXCEPT ![t] = "awake"]
    /\ UNCHANGED <<registryVars, held, running, watch, ready, boss, scan>>

(* thread_wait_sleep_for ends by the wake or by its timeout. *)
LoopSleep(t) ==
    /\ Loops(t, "asleep")
    /\ signal' = 0 /\ loop' = [loop EXCEPT ![t] = "awake"]
    /\ UNCHANGED <<registryVars, held, running, watch, ready, boss, scan>>

(* Stopped meanwhile, or the statistics are looked at and may ask for a scan. *)
LoopLook(t) ==
    /\ Loops(t, "awake") /\ loop' = [loop EXCEPT ![t] = "out"]
    /\ \/ /\ running = 0 /\ place' = [place EXCEPT ![t] = "returned"]
          /\ UNCHANGED <<scan, budget>>
       \/ running = 1 /\ UNCHANGED <<place, scan, budget>>
       \/ /\ running = 1 /\ budget.alarms > 0
          /\ budget' = [budget EXCEPT !.alarms = @ - 1]
          /\ scan' = [scan EXCEPT ![t].pc = "enter"] /\ UNCHANGED place
    /\ UNCHANGED <<listVars, held, told, call, running, signal, watch, ready, boss>>

LoopStep(t) == LoopCheck(t) \/ LoopPrepare(t) \/ LoopSleep(t) \/ LoopLook(t)

Registered(t) == t \notin halted /\ Wrapper(t) /\ UNCHANGED <<control, held, scan>>

CallStep(c) == InCall(c) /\ UNCHANGED <<control, held, scan>>

(* What the program may ask for. *)
Ask ==
    \/ WatchStart \/ WatchStop \/ \E c \in Callers : ScanNow(c)
    \/ /\ \E c \in Callers \ {Boss} :
            /\ scan[c].pc = "idle"
            /\ SetHooks(c) \/ AskJoin(c) \/ \E t \in Threads : Create(c, t, "work")
       /\ UNCHANGED <<control, held, scan>>

(* A thread of the program, one of the library, a caller inside a call. *)
ThreadStep(t) == Registered(t) \/ TakeHeap(t) \/ LeaveHeap(t) \/ LoopStep(t) \/ ScanStep(t)
CallerStep(c) == CallStep(c) \/ ScanStep(c) \/ (c = Boss /\ BossStep)

Next == Ask \/ (\E t \in Threads : ThreadStep(t)) \/ (\E c \in Callers : CallerStep(c))

(* Threads are scheduled, timeouts end; the program asks for what it likes. *)
Fairness == /\ \A t \in Threads : WF_vars(ThreadStep(t))
            /\ \A c \in Callers : WF_vars(CallerStep(c))

Spec == Init /\ [][Next]_vars /\ Fairness

-----------------------------------------------------------------------------
(* Once stop has returned no timer thread is left, and there is never a        *)
(* second one: a timer thread runs only for a watch that is on or stopping.    *)
OneTimer ==
    LET Timers == {t \in Threads : place[t] # "none" /\ told[t].job = "watch"}
    IN  Cardinality(Timers) <= 1 /\ (running = 0 /\ boss = "idle" => Timers = {})

(* Nobody stays suspended, and a suspended thread is of the one scan that runs *)
(* under g_scan_lock (mem_leak_watch.c:74).                                    *)
OneScan ==
    /\ Cardinality({a \in Agents : scan[a].pc \notin {"idle", "enter"}}) <= 1
    /\ \A t \in halted : \E a \in Agents : scan[a].pc = "halts" /\ Head(scan[a].left) = t

(* A scan that has begun ends, whatever locks the threads it suspends hold.    *)
ScansEnd == scanLock # Unlocked ~> scanLock = Unlocked
=============================================================================
