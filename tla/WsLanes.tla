------------------------------- MODULE WsLanes -------------------------------
(***************************************************************************)
(* The lanes of versions/thread_pool_wspool.c: clients submit to lanes,    *)
(* the owner of a lane and its rescue helpers run its tasks, workers steal *)
(* from every lane that was ever active, idle workers wait in a reserve.   *)
(* A long task has its worker replaced (handoff), a backlog brings helpers *)
(* (rescue), load opens lanes (expansion) and its absence closes them      *)
(* (contraction).  One step is one access to what other threads use, plus  *)
(* accesses to what no other thread looks at meanwhile.  Rings are bounded *)
(* queues (RingQueue shows it); a running task may be found long at any    *)
(* time; sleeps have limits in the code and are not told apart from looks. *)
(***************************************************************************)
EXTENDS Integers, Sequences, FiniteSets

CONSTANTS
    Tasks, NoTask,
    Workers, NoWorker,    \* all_workers, those of the future included
    First,                \* the worker that owns lane 1 from the start
    Clients, Monitor,     \* threads that submit; the long task monitor
    Lanes,                \* lane_capacity = expand_cap; initial_lanes = 1
    RingCap, ReserveCap,  \* ring capacities
    TargetCap,            \* all_worker_capacity / 2
    Cpus, MaxHelpers,     \* xcpu_count, rescue_max_helpers
    Scenarios             \* bound: which tasks and workers there are, [tasks, workers]

VARIABLES
    owner, ring, helpers,              \* WSLane.worker, .ring, .rescue_helpers
    on, detached, counted, rescue,     \* WSWorker.lane (0: none), .detached, ...
    job, wpc, mine,                    \* task running, place, local lane
    active, maxActive, reserve, target, pending, detachedWorkers, slots,
    call,                              \* per caller: place and local variables
    unsent, done

lane   == <<owner, ring, helpers>>
worker == <<on, detached, counted, rescue>>
self   == <<job, wpc, mine>>
pool   == <<active, maxActive, reserve, target, pending, detachedWorkers, slots>>
vars   == <<lane, worker, self, pool, call, unsent, done>>

Callers == Clients \cup {Monitor}
Lane == 1 .. Lanes
NoCall == [pc |-> "idle", task |-> NoTask, lane |-> 0, victim |-> NoWorker,
           exp |-> NoTask, spare |-> NoWorker, n |-> 0, sweep |-> 0]

(* pool_setup_lanes_and_workers: one owner, one worker in reserve. *)
Init ==
    /\ owner = [l \in Lane |-> IF l = 1 THEN First ELSE NoWorker]
    /\ ring = [l \in Lane |-> <<>>]
    /\ helpers = [l \in Lane |-> 0]
    /\ on = [w \in Workers |-> IF w = First THEN 1 ELSE 0]
    /\ detached = [w \in Workers |-> 0]
    /\ counted = [w \in Workers |-> 0]
    /\ rescue = [w \in Workers |-> 0]
    /\ job = [w \in Workers |-> NoTask]
    /\ \E s \in Scenarios :
          LET spare == CHOOSE w \in s.workers \ {First} : TRUE
          IN  /\ unsent = s.tasks
              /\ reserve = <<spare>>
              /\ wpc = [w \in Workers |-> IF w \in {First, spare} THEN "top"
                                          ELSE IF w \in s.workers THEN "unborn" ELSE "gone"]
    /\ mine = [w \in Workers |-> 0]
    /\ active = 1 /\ maxActive = 1 /\ target = 1
    /\ pending = 0 /\ detachedWorkers = 0 /\ slots = 0
    /\ call = [c \in Callers |-> NoCall]
    /\ done = {}

Busy == Cardinality({w \in Workers : job[w] # NoTask})
Goes(w, where) == wpc' = [wpc EXCEPT ![w] = where]
At(c, where) == call[c].pc = where

(* reserve_push_or_stop: a full reserve stops the worker. *)
ToReserve(w) ==
    IF Len(reserve) < ReserveCap
    THEN reserve' = Append(reserve, w) /\ UNCHANGED wpc
    ELSE Goes(w, "gone") /\ UNCHANGED reserve

-----------------------------------------------------------------------------
(* worker_fn *)

(* Mutant: steals only from the lanes active now. *)
MReachActive(w) == {l \in Lane : ring[l] # <<>> /\ (l = on[w] \/ (active > 1 /\ l <= active))}

(* worker_try_any: its own lane, then all that were ever active. *)
Reach(w) == {l \in Lane : ring[l] # <<>> /\ (l = on[w] \/ (maxActive > 1 /\ l <= maxActive))}

RunFrom(w, l) ==
    /\ wpc[w] = "top" /\ on[w] # 0
    /\ l \in Reach(w) /\ (on[w] \in Reach(w) => l = on[w])
    /\ job' = [job EXCEPT ![w] = Head(ring[l])]
    /\ ring' = [ring EXCEPT ![l] = Tail(@)]
    /\ Goes(w, "run")
    /\ UNCHANGED <<owner, helpers, worker, mine, pool, call, unsent, done>>

(* worker_run_task's end: a worker replaced meanwhile returns to the reserve. *)
Finish(w) ==
    /\ wpc[w] = "run"
    /\ job' = [job EXCEPT ![w] = NoTask]
    /\ done' = done \cup {job[w]}
    /\ pending' = pending - 1
    /\ Goes(w, IF detached[w] = 1 THEN "return" ELSE "top")
    /\ UNCHANGED <<lane, worker, mine, active, maxActive, reserve, target,
                   detachedWorkers, slots, call, unsent>>

SeesDetached(w) ==
    /\ wpc[w] = "top" /\ on[w] # 0 /\ detached[w] = 1
    /\ Goes(w, "return")
    /\ UNCHANGED <<lane, worker, job, mine, pool, call, unsent, done>>

(* detached is read once per turn of the loop, before the lanes are looked at. *)
Idle(w) == wpc[w] = "top" /\ on[w] # 0 /\ Reach(w) = {}

(* A helper that finds nothing left. *)
HelpOver(w) ==
    /\ Idle(w) /\ rescue[w] = 1
    /\ rescue' = [rescue EXCEPT ![w] = 0]
    /\ helpers' = [helpers EXCEPT ![on[w]] = @ - 1]
    /\ slots' = slots - 1
    /\ Goes(w, "return")
    /\ UNCHANGED <<owner, ring, on, detached, counted, job, mine, active, maxActive,
                   reserve, target, pending, detachedWorkers, call, unsent, done>>

(* The owner of a lane that was closed. *)
LaneClosed(w) ==
    /\ Idle(w) /\ rescue[w] = 0 /\ on[w] > active
    /\ mine' = [mine EXCEPT ![w] = on[w]]
    /\ Goes(w, "unown")
    /\ UNCHANGED <<lane, worker, job, pool, call, unsent, done>>

Unown(w) ==
    /\ wpc[w] = "unown"
    /\ IF owner[mine[w]] = w
       THEN owner' = [owner EXCEPT ![mine[w]] = NoWorker] /\ Goes(w, "reclaim") /\ UNCHANGED mine
       ELSE Goes(w, "top") /\ mine' = [mine EXCEPT ![w] = 0] /\ UNCHANGED owner
    /\ UNCHANGED <<ring, helpers, worker, job, pool, call, unsent, done>>

(* The lane was opened again meanwhile: it is taken back unless it has an owner. *)
Reclaim(w) ==
    /\ wpc[w] = "reclaim"
    /\ IF mine[w] <= active /\ owner[mine[w]] = NoWorker
       THEN owner' = [owner EXCEPT ![mine[w]] = w] /\ Goes(w, "top")
       ELSE Goes(w, "return") /\ UNCHANGED owner
    /\ mine' = [mine EXCEPT ![w] = 0]
    /\ UNCHANGED <<ring, helpers, worker, job, pool, call, unsent, done>>

(* worker_return_to_reserve, in three steps *)
Return(w) ==
    /\ wpc[w] = "return"
    /\ detached' = [detached EXCEPT ![w] = 0]
    /\ Goes(w, "uncount")
    /\ UNCHANGED <<lane, on, counted, rescue, job, mine, pool, call, unsent, done>>

(* worker_release_detached_count: 1 is waited out. *)
Uncount(v) ==
    /\ counted[v] # 1
    /\ counted' = [counted EXCEPT ![v] = 0]
    /\ detachedWorkers' = IF counted[v] = 2 THEN detachedWorkers - 1 ELSE detachedWorkers

ReturnUncount(w) ==
    /\ wpc[w] = "uncount"
    /\ Uncount(w)
    /\ Goes(w, "leave")
    /\ UNCHANGED <<lane, on, detached, rescue, job, mine, active, maxActive, reserve,
                   target, pending, slots, call, unsent, done>>

Leave(w) ==
    /\ wpc[w] = "leave"
    /\ on' = [on EXCEPT ![w] = 0]
    /\ IF Len(reserve) < ReserveCap
       THEN reserve' = Append(reserve, w) /\ Goes(w, "top")
       ELSE Goes(w, "gone") /\ UNCHANGED reserve
    /\ UNCHANGED <<lane, detached, counted, rescue, job, mine, active, maxActive, target,
                   pending, detachedWorkers, slots, call, unsent, done>>

WorkerStep(w) ==
    \/ \E l \in Lane : RunFrom(w, l)
    \/ Finish(w) \/ SeesDetached(w) \/ HelpOver(w) \/ LaneClosed(w) \/ Unown(w)
    \/ Reclaim(w) \/ Return(w) \/ ReturnUncount(w) \/ Leave(w)

-----------------------------------------------------------------------------
(* pool_submit and submit_push_lane *)

Set(c, f) == call' = [call EXCEPT ![c] = f]
Step(c, where) == Set(c, [call[c] EXCEPT !.pc = where])
(* What a client does after the handoff check, and the monitor after a handoff. *)
After(c) ==
    IF c = Monitor THEN NoCall ELSE [NoCall EXCEPT !.pc = "rescue", !.lane = call[c].lane]

(* Back to its own loop. *)
Resume(c, where) ==
    IF c = Monitor THEN NoCall ELSE [NoCall EXCEPT !.pc = where, !.task = call[c].task]

(* Round robin over the active lanes, whose next number any client may take. *)
Submit(c, t) ==
    /\ \/ At(c, "idle") /\ t \in unsent /\ unsent' = unsent \ {t}
       \/ At(c, "retry") /\ t = call[c].task /\ UNCHANGED unsent
    /\ \E l \in 1 .. active :
          Set(c, [NoCall EXCEPT !.pc = "push", !.task = t, !.lane = l])
    /\ pending' = pending + 1
    /\ UNCHANGED <<lane, worker, self, active, maxActive, reserve, target,
                   detachedWorkers, slots, done>>

(* Mutant: a push refused by a full ring stays counted. *)
MPushStaysCounted(c) ==
    /\ At(c, "push")
    /\ LET l == call[c].lane
       IN  IF Len(ring[l]) < RingCap
           THEN /\ ring' = [ring EXCEPT ![l] = Append(@, call[c].task)]
                /\ Set(c, [NoCall EXCEPT !.pc = "detect", !.lane = l])
           ELSE Step(c, IF call[c].sweep = 0 THEN "grow" ELSE "sweep") /\ UNCHANGED ring
    /\ UNCHANGED <<owner, helpers, worker, self, pool, unsent, done>>

Push(c) ==
    /\ At(c, "push")
    /\ LET l == call[c].lane
       IN  IF Len(ring[l]) < RingCap
           THEN /\ ring' = [ring EXCEPT ![l] = Append(@, call[c].task)]
                /\ Set(c, [NoCall EXCEPT !.pc = "detect", !.lane = l])
                /\ UNCHANGED pending
           ELSE /\ pending' = pending - 1
                /\ Step(c, IF call[c].sweep = 0 THEN "grow" ELSE "sweep")
                /\ UNCHANGED ring
    /\ UNCHANGED <<owner, helpers, worker, self, active, maxActive, reserve, target,
                   detachedWorkers, slots, unsent, done>>

(* Every lane full and none to open: each active lane in turn, then again. *)
Sweep(c) ==
    /\ At(c, "sweep")
    /\ LET l == call[c].sweep + 1
           n == IF l = 1 THEN active ELSE call[c].n
       IN  IF l > n
           THEN Set(c, Resume(c, "retry")) /\ UNCHANGED pending
           ELSE /\ Set(c, [call[c] EXCEPT !.pc = "push", !.lane = l, !.sweep = l, !.n = n])
                /\ pending' = pending + 1
    /\ UNCHANGED <<lane, worker, self, active, maxActive, reserve, target,
                   detachedWorkers, slots, unsent, done>>

-----------------------------------------------------------------------------
(* activate_lane, called by a client whose ring is full and by the monitor. *)

Grow(c) ==
    /\ At(c, "grow")
    /\ IF active >= Lanes \/ reserve = <<>>
       THEN Set(c, Resume(c, "sweep")) /\ UNCHANGED reserve
       ELSE /\ Set(c, [call[c] EXCEPT !.pc = "open", !.n = active, !.spare = Head(reserve)])
            /\ reserve' = Tail(reserve)
    /\ UNCHANGED <<lane, worker, self, active, maxActive, target, pending,
                   detachedWorkers, slots, unsent, done>>

Open(c) ==
    /\ At(c, "open")
    /\ LET w == call[c].spare
       IN  IF active = call[c].n
           THEN /\ active' = active + 1
                /\ rescue' = [rescue EXCEPT ![w] = 0]
                /\ detached' = [detached EXCEPT ![w] = 0]
                /\ Step(c, "install")
                /\ UNCHANGED <<wpc, reserve>>
           ELSE /\ ToReserve(w) /\ Set(c, Resume(c, "sweep"))
                /\ UNCHANGED <<active, rescue, detached>>
    /\ UNCHANGED <<lane, on, counted, job, mine, maxActive, target, pending,
                   detachedWorkers, slots, unsent, done>>

Install(c) ==
    /\ At(c, "install")
    /\ LET l == call[c].n + 1
       IN  IF owner[l] = NoWorker
           THEN /\ owner' = [owner EXCEPT ![l] = call[c].spare]
                /\ Step(c, "publish")
                /\ UNCHANGED <<wpc, reserve>>
           ELSE ToReserve(call[c].spare) /\ Step(c, "raise") /\ UNCHANGED owner
    /\ UNCHANGED <<ring, helpers, worker, job, mine, active, maxActive, target, pending,
                   detachedWorkers, slots, unsent, done>>

Publish(c) ==
    /\ At(c, "publish")
    /\ on' = [on EXCEPT ![call[c].spare] = call[c].n + 1]
    /\ Step(c, "raise")
    /\ UNCHANGED <<lane, detached, counted, rescue, self, pool, unsent, done>>

Raise(c) ==
    /\ At(c, "raise")
    /\ maxActive' = IF maxActive <= call[c].n THEN call[c].n + 1 ELSE maxActive
    /\ Set(c, Resume(c, "retry"))
    /\ UNCHANGED <<lane, worker, self, active, reserve, target, pending,
                   detachedWorkers, slots, unsent, done>>

-----------------------------------------------------------------------------
(* submit_check_handoff, scan_lanes_for_handoff and perform_handoff *)

(* The owner of lane l may have been in its task long enough. *)
Long(l) ==
    /\ owner[l] # NoWorker
    /\ detached[owner[l]] = 0
    /\ job[owner[l]] # NoTask

Detect(c) ==
    /\ At(c, "detect")
    /\ \/ LET l == call[c].lane
          IN  /\ Long(l)
              /\ Set(c, [call[c] EXCEPT !.pc = "confirm", !.victim = owner[l],
                                        !.exp = job[owner[l]]])
       \/ Set(c, After(c))
    /\ UNCHANGED <<lane, worker, self, pool, unsent, done>>

(* The task is still the one found long. *)
Confirm(c) ==
    /\ At(c, "confirm")
    /\ Set(c, IF job[call[c].victim] = call[c].exp
              THEN [call[c] EXCEPT !.pc = "spare", !.exp = NoTask] ELSE After(c))
    /\ UNCHANGED <<lane, worker, self, pool, unsent, done>>

Spare(c) ==
    /\ At(c, "spare")
    /\ IF reserve = <<>>
       THEN Set(c, After(c)) /\ UNCHANGED reserve
       ELSE /\ Set(c, [call[c] EXCEPT !.pc = "mark", !.spare = Head(reserve)])
            /\ reserve' = Tail(reserve)
    /\ UNCHANGED <<lane, worker, self, active, maxActive, target, pending,
                   detachedWorkers, slots, unsent, done>>

Mark(c) ==
    /\ At(c, "mark")
    /\ counted' = [counted EXCEPT ![call[c].victim] = 1]
    /\ Step(c, "detach")
    /\ UNCHANGED <<lane, on, detached, rescue, self, pool, unsent, done>>

Detach(c) ==
    /\ At(c, "detach")
    /\ LET v == call[c].victim
       IN  IF detached[v] = 0
           THEN /\ detached' = [detached EXCEPT ![v] = 1]
                /\ Step(c, "count")
                /\ UNCHANGED counted
           ELSE /\ counted' = [counted EXCEPT ![v] = 0]
                /\ Step(c, "giveback")
                /\ UNCHANGED detached
    /\ UNCHANGED <<lane, on, rescue, self, pool, unsent, done>>

CountDetached(c) ==
    /\ At(c, "count")
    /\ detachedWorkers' = detachedWorkers + 1
    /\ counted' = [counted EXCEPT ![call[c].victim] = 2]
    /\ Step(c, "lend")
    /\ UNCHANGED <<lane, on, detached, rescue, self, active, maxActive, reserve, target,
                   pending, slots, unsent, done>>

(* The spare is given the lane, and may start there, before it is its owner. *)
Lend(c) ==
    /\ At(c, "lend")
    /\ LET w == call[c].spare
       IN  /\ rescue' = [rescue EXCEPT ![w] = 0]
           /\ detached' = [detached EXCEPT ![w] = 0]
           /\ on' = [on EXCEPT ![w] = call[c].lane]
    /\ Step(c, "swap")
    /\ UNCHANGED <<lane, counted, self, pool, unsent, done>>

Swap(c) ==
    /\ At(c, "swap")
    /\ LET l == call[c].lane
       IN  IF owner[l] = call[c].victim
           THEN owner' = [owner EXCEPT ![l] = call[c].spare] /\ Set(c, After(c))
           ELSE Step(c, "undo") /\ UNCHANGED owner
    /\ UNCHANGED <<ring, helpers, worker, self, pool, unsent, done>>

Undo(c) ==
    /\ At(c, "undo")
    /\ on' = [on EXCEPT ![call[c].spare] = 0]
    /\ detached' = [detached EXCEPT ![call[c].victim] = 0]
    /\ Step(c, "release")
    /\ UNCHANGED <<lane, counted, rescue, self, pool, unsent, done>>

Release(c) ==
    /\ At(c, "release")
    /\ Uncount(call[c].victim)
    /\ Step(c, "giveback")
    /\ UNCHANGED <<lane, on, detached, rescue, self, active, maxActive, reserve, target,
                   pending, slots, unsent, done>>

GiveBack(c) ==
    /\ At(c, "giveback")
    /\ ToReserve(call[c].spare)
    /\ Set(c, After(c))
    /\ UNCHANGED <<lane, worker, job, mine, active, maxActive, target, pending,
                   detachedWorkers, slots, unsent, done>>

-----------------------------------------------------------------------------
(* dispatch_rescue_worker *)

Least(a, b) == IF a < b THEN a ELSE b
HelperCap(l) == Least(Len(ring[l]), MaxHelpers)      \* lane_helper_cap

(* lane_rescue_score > 0: a backlog, nobody free or more tasks than lanes. *)
Qualifies(l) ==
    /\ ring[l] # <<>>
    /\ Busy >= active \/ Len(ring[l]) >= active
    /\ helpers[l] < HelperCap(l)

RescueCheck(c) ==
    /\ At(c, "rescue")
    /\ Set(c, IF Qualifies(call[c].lane) THEN [call[c] EXCEPT !.pc = "slot"] ELSE NoCall)
    /\ UNCHANGED <<lane, worker, self, pool, unsent, done>>

(* Never more threads than processors: owners and replaced workers, or those *)
(* busy if more, and the helpers reserved.                                   *)
Room ==
    LET owners == active + detachedWorkers
    IN  (IF Busy > owners THEN Busy ELSE owners) + slots < Cpus

Slot(c) ==
    /\ At(c, "slot")
    /\ LET l == call[c].lane
       IN  IF helpers[l] < HelperCap(l) /\ Room
           THEN /\ slots' = slots + 1
                /\ Set(c, [call[c] EXCEPT !.pc = "helper", !.n = helpers[l]])
           ELSE Set(c, NoCall) /\ UNCHANGED slots
    /\ UNCHANGED <<lane, worker, self, active, maxActive, reserve, target, pending,
                   detachedWorkers, unsent, done>>

Helper(c) ==
    /\ At(c, "helper")
    /\ LET l == call[c].lane
       IN  IF helpers[l] = call[c].n
           THEN /\ helpers' = [helpers EXCEPT ![l] = @ + 1]
                /\ Step(c, "borrow")
                /\ UNCHANGED slots
           ELSE /\ slots' = slots - 1
                /\ Set(c, [call[c] EXCEPT !.pc = "slot", !.n = 0])
                /\ UNCHANGED helpers
    /\ UNCHANGED <<owner, ring, worker, self, active, maxActive, reserve, target, pending,
                   detachedWorkers, unsent, done>>

Borrow(c) ==
    /\ At(c, "borrow")
    /\ LET l == call[c].lane
       IN  IF reserve = <<>>
           THEN /\ helpers' = [helpers EXCEPT ![l] = @ - 1]
                /\ slots' = slots - 1
                /\ Set(c, NoCall)
                /\ UNCHANGED <<reserve, rescue, on>>
           ELSE /\ reserve' = Tail(reserve)
                /\ rescue' = [rescue EXCEPT ![Head(reserve)] = 1]
                /\ on' = [on EXCEPT ![Head(reserve)] = l]
                /\ Set(c, [call[c] EXCEPT !.pc = "slot", !.n = 0])
                /\ UNCHANGED <<helpers, slots>>
    /\ UNCHANGED <<owner, ring, detached, counted, self, active, maxActive, target, pending,
                   detachedWorkers, unsent, done>>

-----------------------------------------------------------------------------
(* long_task_monitor_fn: its scans, each of which may find nothing to do. *)

Starts(where, l) ==
    /\ At(Monitor, "idle")
    /\ Set(Monitor, [NoCall EXCEPT !.pc = where, !.lane = l])

ScanHandoff(l) ==
    /\ l <= maxActive /\ Long(l)
    /\ Starts("detect", l)
    /\ UNCHANGED <<lane, worker, self, pool, unsent, done>>

(* A helper stuck in a long task, with more to do on its lane. *)
ScanHelpers(w) ==
    /\ rescue[w] = 1 /\ on[w] # 0 /\ job[w] # NoTask
    /\ ring[on[w]] # <<>>
    /\ Starts("slot", on[w])
    /\ UNCHANGED <<lane, worker, self, pool, unsent, done>>

ScanRescue(l) ==
    /\ l <= active /\ Qualifies(l) /\ Room
    /\ Starts("slot", l)
    /\ UNCHANGED <<lane, worker, self, pool, unsent, done>>

RECURSIVE Backlog(_)
Backlog(n) == IF n = 0 THEN 0 ELSE Len(ring[n]) + Backlog(n - 1)

(* The load has lasted for LANE_EXPAND_HYSTERESIS scans. *)
ScanExpand ==
    /\ active < Lanes /\ Busy >= active /\ Backlog(active) >= active
    /\ Starts("grow", 0)
    /\ UNCHANGED <<lane, worker, self, pool, unsent, done>>

(* No load for LANE_CONTRACT_HYSTERESIS scans: the last lane is closed, *)
(* unless a task came in meanwhile.                                     *)
ScanContract ==
    /\ active > 1 /\ Busy < active /\ ring[active] = <<>>
    /\ active' = active - 1
    /\ Starts("contracted", active)
    /\ UNCHANGED <<lane, worker, self, maxActive, reserve, target, pending,
                   detachedWorkers, slots, unsent, done>>

Contracted ==
    /\ At(Monitor, "contracted")
    /\ LET l == call[Monitor].lane
       IN  active' = IF ring[l] # <<>> /\ active = l - 1 THEN l ELSE active
    /\ Set(Monitor, NoCall)
    /\ UNCHANGED <<lane, worker, self, maxActive, reserve, target, pending,
                   detachedWorkers, slots, unsent, done>>

(* reserve_monitor_fn: the target grows when the reserve is empty (by half in *)
(* the code), and workers are created up to it.                              *)
Refill(w) ==
    LET goal == IF reserve = <<>> /\ target < TargetCap THEN target + 1 ELSE target
    IN  /\ target' = goal
        /\ wpc[w] = "unborn" /\ Len(reserve) < goal
        /\ wpc' = [wpc EXCEPT ![w] = IF Len(reserve) < ReserveCap THEN "top" ELSE "gone"]
        /\ reserve' = IF Len(reserve) < ReserveCap THEN Append(reserve, w) ELSE reserve
        /\ UNCHANGED <<lane, worker, job, mine, active, maxActive, pending,
                       detachedWorkers, slots, call, unsent, done>>

-----------------------------------------------------------------------------
CallStep(c) ==
    \/ Push(c) \/ Sweep(c) \/ Grow(c) \/ Open(c) \/ Install(c) \/ Publish(c) \/ Raise(c)
    \/ Detect(c) \/ Confirm(c) \/ Spare(c) \/ Mark(c) \/ Detach(c) \/ CountDetached(c)
    \/ Lend(c) \/ Swap(c) \/ Undo(c) \/ Release(c) \/ GiveBack(c)
    \/ RescueCheck(c) \/ Slot(c) \/ Helper(c) \/ Borrow(c)
    \/ (At(c, "retry") /\ Submit(c, call[c].task))

MonitorScan ==
    \/ \E l \in Lane : ScanHandoff(l) \/ ScanRescue(l)
    \/ \E w \in Workers : ScanHelpers(w)
    \/ ScanExpand \/ ScanContract

Next ==
    \/ \E w \in Workers : WorkerStep(w) \/ Refill(w)
    \/ \E c \in Clients, t \in Tasks : At(c, "idle") /\ Submit(c, t)
    \/ \E c \in Callers : CallStep(c)
    \/ MonitorScan \/ Contracted

Spec == Init /\ [][Next]_vars

(* Threads run, and the monitors scan again and again. *)
FairSpec ==
    /\ Spec
    /\ \A w \in Workers : WF_vars(WorkerStep(w)) /\ WF_vars(Refill(w))
    /\ \A c \in Callers : WF_vars(CallStep(c))
    /\ WF_vars(Contracted)
    /\ \A l \in Lane : WF_vars(ScanRescue(l))

-----------------------------------------------------------------------------
(* What must hold. *)

InRings == UNION {{ring[l][i] : i \in 1 .. Len(ring[l])} : l \in Lane}
Running == {job[w] : w \in Workers} \ {NoTask}
Placing == {c \in Callers : At(c, "push")}

(* pending_tasks counts the tasks queued or running and the pushes under way, *)
(* and a task is in one place: two workers never run the same one.            *)
PendingExact ==
    /\ pending = Cardinality(InRings) + Cardinality(Running) + Cardinality(Placing)
    /\ Busy = Cardinality(Running)
    /\ Backlog(Lanes) = Cardinality(InRings)
    /\ InRings \cap Running = {} /\ done \cap (InRings \cup Running) = {}

(* "em ambos os casos a lane permanece com owner": an active lane has an owner, *)
(* but for a lane being opened or one whose last owner is looking again.        *)
ActiveLaneHasOwner ==
    \A l \in 1 .. active :
        \/ owner[l] # NoWorker
        \/ \E c \in Callers : At(c, "install") /\ call[c].n + 1 = l
        \/ \E w \in Workers : wpc[w] = "reclaim" /\ mine[w] = l

Accepted(t) == t \in InRings \cup Running \/ \E c \in Clients : call[c].task = t

(* Every submitted task runs in the end, wherever lanes and owners went. *)
EveryTaskRuns == \A t \in Tasks : Accepted(t) ~> (t \in done)

=============================================================================
