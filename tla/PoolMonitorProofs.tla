-------------------------- MODULE PoolMonitorProofs --------------------------
(***************************************************************************)
(* Proofs about PoolMonitor, for any number of workers and any plan: the   *)
(* pool is freed when no thread and no task is left, the monitor does not  *)
(* sleep long on work, it notices that a pool it took for idle has worked, *)
(* and a worker it counts as stuck has been in one task since it looked.   *)
(***************************************************************************)
EXTENDS PoolMonitor, NumberTheorems, SequenceTheorems

N == NumBase + NumElastic

(* The sizes. *)
LEMMA Sizes ==
    /\ NumBase \in Nat /\ NumElastic \in Nat /\ Batch \in Nat
    /\ NumBase > 0 /\ NumElastic > 0 /\ Batch > 0
  BY MonitorAssumption

(* The workers, the ordinary ones before the elastic ones, and the counters. *)
LEMMA Indices ==
    /\ N \in Nat /\ N > 0
    /\ Workers = 1 .. N /\ Ctrs = 0 .. N /\ Base = 1 .. NumBase /\ Elastic = NumBase + 1 .. N
    /\ NumBase < N /\ Base \subseteq Workers /\ Elastic \subseteq Workers
    /\ Base \cap Elastic = {} /\ Workers \subseteq Ctrs
    /\ IsFiniteSet(Workers) /\ IsFiniteSet(Ctrs)
  <1>1. NumBase \in Nat /\ NumElastic \in Nat /\ NumBase > 0 /\ NumElastic > 0
    BY Sizes
  <1>2. Workers = 1 .. N /\ Ctrs = 0 .. N
    BY <1>1 DEF Workers, Base, Elastic, Ctrs, N
  <1>3. IsFiniteSet(1 .. N) /\ IsFiniteSet(0 .. N)
    BY <1>1, FS_Interval DEF N
  <1> QED
    BY <1>1, <1>2, <1>3 DEF Base, Elastic, N

-----------------------------------------------------------------------------
(* The inductive invariant, in parts. *)

Busy == {"began", "run", "ended"}

(* How many tasks each worker has taken and not yet counted. *)
Load == [w \in Workers |-> Len(pend[w]) + (IF pc[w] \in Busy THEN 1 ELSE 0)]

Quiet == ring = <<>> /\ \A w \in Workers : pend[w] = <<>> /\ pc[w] \notin Busy

(* Where the creator is tells its loop and whether the pool was told to stop. *)
CreatorKnown ==
    /\ mpc \in {"alloc", "parts"} => sum = 0
    /\ mpc = "push" => plan # <<>> /\ Head(plan) \in Tasks
    /\ mpc \in {"start", "wake"} => at # 0
    /\ mpc = "wait" => at \in Ctrs
    /\ mpc = "join" => at \in Workers /\ pc[at] # "none"
    /\ mpc \in {"wakemon", "joinmon", "wake", "join"} => stop
    /\ stop => mpc \in {"wakemon", "joinmon", "wake", "join", "gone"}

(* The monitor runs while the pool does, and its locals are those of its place. *)
MonitorKnown ==
    /\ mpc \in {"alloc", "parts", "start"} => mon = "none"
    /\ mpc \in {"wake", "join", "gone"} => mon \in {"none", "exit"}
    /\ mon \in {"sum", "retest", "resum"} => mi \in Ctrs
    /\ mon \in {"count", "prepare", "announce"} => mi = 0 /\ msum = 0
    /\ mon = "restore" => mi = 0
    /\ mon = "judge" => mi + 1 \in Base
    /\ mon = "signal" => mi \in Elastic /\ stuck > 0
    /\ mon \in {"stuck", "judge"} => stuck <= mi /\ mi <= NumBase
    /\ mon \notin {"top", "stuck", "judge", "wake", "signal", "exit"} => stuck = 0
    /\ long => mon = "sleep"

(* Workers are started in order, and joined in that order. *)
WorkersKnown ==
    /\ mpc \in {"alloc", "parts"} => \A w \in Workers : pc[w] = "none"
    /\ mpc = "start" => \A w \in Workers : pc[w] = "none" <=> w >= at
    /\ \A v, w \in Workers : v < w /\ pc[v] = "none" => pc[w] = "none"
    /\ mpc \in {"wake", "join"} => \A w \in Workers : w < at => pc[w] = "exit"
    /\ mpc = "gone" => \A w \in Workers : pc[w] \in {"none", "exit"}

InTaskKnown == \A w \in Workers : in_task[w] = IF pc[w] \in {"began", "run"} THEN 1 ELSE 0

(* thread_wait.c counts this pool while it holds the timer. *)
TimerHeld ==
    /\ users = IF wait_inited /\ mpc # "gone" THEN 1 ELSE 0
    /\ mpc \in {"alloc", "parts"} => ~wait_inited

Places == CreatorKnown /\ MonitorKnown /\ WorkersKnown /\ InTaskKnown /\ TimerHeld

(* There is no task before the pool is up nor once it was told to stop. *)
QuietWhenOver == mpc \in {"alloc", "parts", "start", "stop", "gone"} \/ stop => Quiet

(* The counters count the tasks in the ring and with the workers, and the one *)
(* that was counted and is about to be pushed.                                *)
CountersExact ==
    SumFunctionOnSet(ctr, Ctrs)
        = Len(ring) + (IF mpc = "push" THEN 1 ELSE 0) + SumFunctionOnSet(Load, Workers)

(* What pool_wait_idle has read bounds what is there: nobody submits meanwhile. *)
WaitReads == mpc = "wait" => SumFunctionOnSet(ctr, 0 .. at - 1) <= sum

(* The announcement stands until somebody is waking the monitor. *)
Announced ==
    mon = "retest" \/ (mon = "sleep" /\ long) => mon_dormindo \/ mpc = "signal" \/ mon_signal

(* What the re-test has read bounds what is there, unless a submit will wake. *)
RetestReads ==
    mon = "retest" /\ ~mon_signal /\ mpc \notin {"push", "rouse", "signal"}
        => SumFunctionOnSet(ctr, 0 .. mi - 1) <= msum

(* What the monitor has read of a worker's starts is not ahead of them, and a *)
(* worker that has begun no other task since is in the same one.               *)
StartsKnown ==
    /\ \A w \in Base : mon_last[w] <= start_count[w]
    /\ mon = "judge" => msc <= start_count[mi + 1]
    /\ \A w \in Base : pc[w] = "run" /\ start_count[w] = mon_last[w] => w \in same

(* The starts read before the announcement are not ahead of the starts, and *)
(* behind them once a task has started.                                     *)
IdleKnown ==
    /\ mon \in {"prepare", "announce", "retest"} => iniciadas <= Started
    /\ mon = "retest" /\ ~idle /\ worked => iniciadas < Started
    /\ idle => idle_started <= Started /\ (worked => idle_started < Started)

IInv ==
    /\ TypeOK /\ Places /\ QuietWhenOver /\ CountersExact /\ WaitReads
    /\ Announced /\ RetestReads /\ NoLongSleepWithWork /\ StartsKnown /\ IdleKnown

-----------------------------------------------------------------------------
(* What each thread leaves alone. *)

(* The creator does not touch the workers' tasks nor the monitor's locals. *)
LEMMA CreatorFrame ==
    ASSUME Creator
    PROVE  /\ UNCHANGED <<in_task, start_count, pend, task, parked, idle, idle_started, worked>>
           /\ UNCHANGED <<mi, msum, msc, iniciadas, stuck, mon_last, long, same>>
  BY DEF Creator, Alloc, Parts, StartWorker, StartMonitor, SubmitCount, SubmitPush, SetProfile,
         Rouse, RouseSignal, Destroy, WaitRead, DestroyStop, WakeMonitor, JoinMonitor, WakeWorker,
         JoinWorker, Free, Op, creator, timer, worker, elastic, monitor, shared

(* A worker's own step. *)
Turn(w) == Worker(w) \/ (w \in Elastic /\ ElasticWorker(w))

(* A worker touches no local of another thread, and no worker but itself. *)
LEMMA WorkerFrame ==
    ASSUME WorkersOK, NEW w \in Workers, Turn(w)
    PROVE  /\ UNCHANGED <<mpc, plan, at, sum, have, stop, perfil, wait_inited, users>>
           /\ UNCHANGED <<mon, mi, msum, msc, iniciadas, stuck, mon_last, mon_signal, mon_dormindo>>
           /\ UNCHANGED <<long, idle, idle_started>>
           /\ \A v \in Workers \ {w} : pc'[v] = pc[v] /\ in_task'[v] = in_task[v]
                                       /\ start_count'[v] = start_count[v] /\ pend'[v] = pend[v]
           /\ pc[w] # "none" /\ pc'[w] # "none" /\ pc[w] # "exit"
  BY DEF WorkersOK, Turn, Worker, ElasticWorker, Take, Begin, End, Count, Leave, ElasticTop, ElasticPark,
         ElasticPrepare, ElasticSleep, ElasticWoken, ElasticTimeout, ElasticAwake, ElasticRetire,
         Go, Work, Moves, creator, timer, worker, elastic, monitor, shared

(* The monitor touches no worker's task and nothing of the creator's. *)
LEMMA MonitorFrame ==
    ASSUME Monitor
    PROVE  UNCHANGED <<mpc, plan, at, sum, have, pc, in_task, start_count, pend, task, perfil, ring, ctr,
                       stop>>
  BY DEF Monitor, MonPrepare, MonTop, MonRead, MonPending, MonCount, MonAnnounce, MonIdle, MonBusy,
         MonUnannounce, MonSleep, MonTimer, MonWorkAgain, MonRestore, MonLook, MonJudge, Judge,
         MonBacklog, Backlog, MonClaim, MonWake, MonRoundEnd, Step, Last, creator, worker, shared

(* Every step is one thread's, or none. *)
LEMMA Steps ==
    ASSUME [Next]_vars
    PROVE  Creator \/ Monitor \/ (\E w \in Workers : Turn(w)) \/ UNCHANGED vars
  BY Indices DEF Next, Over, Turn

-----------------------------------------------------------------------------
(* Types. *)

(* Where the creator goes. *)
LEMMA TypeOfCreator == ASSUME TypeOK, Places, Creator PROVE CreatorOK'
  <1> USE Sizes DEF TypeOK, CreatorOK
  <1>1. CASE Alloc \/ Parts
    <2>1. mpc' \in {"gone", "parts", "wait", "start"} /\ at' \in {0, 1} /\ UNCHANGED <<plan, sum>>
      BY <1>1 DEF Alloc, Parts, Main
    <2>2. have' \subseteq {"ctrs", "shards", "workers"}
      BY <1>1 DEF Alloc, Parts
    <2> QED
      BY <2>1, <2>2
  <1>2. CASE StartWorker \/ StartMonitor
    <2>1. mpc' \in {"start", "wake", "up"} /\ at' \in 0 .. NumBase + NumElastic + 1
      BY <1>2 DEF StartWorker, StartMonitor, Workers, Base, Elastic
    <2> QED
      BY <1>2, <2>1 DEF StartWorker, StartMonitor
  <1>3. CASE SubmitCount \/ Rouse \/ RouseSignal
    BY <1>3 DEF SubmitCount, Rouse, RouseSignal, Op, Main
  <1>4. CASE SubmitPush
    <2>1. plan # <<>>
      BY <1>4 DEF Places, CreatorKnown, SubmitPush, Op, Main
    <2>2. plan' \in Seq(Tasks \cup {"eco", "perf"})
      BY <1>4, <2>1 DEF SubmitPush
    <2> QED
      BY <1>4, <2>2 DEF SubmitPush, Op, Main
  <1>5. CASE SetProfile
    BY <1>5 DEF SetProfile, Op, Main
  <1>6. CASE Destroy \/ DestroyStop \/ WakeMonitor \/ JoinMonitor
    <2>1. mpc' \in {"wait", "wakemon", "joinmon", "wake"} /\ at' \in {at, 0, 1} /\ sum' \in {sum, 0}
          /\ UNCHANGED <<plan, have>>
      BY <1>6 DEF Destroy, DestroyStop, WakeMonitor, JoinMonitor, Main
    <2> QED
      BY <2>1
  <1>7. CASE WaitRead
    BY SMTT(20), <1>7 DEF Places, CreatorKnown, WaitRead, Ctrs, PoolOK
  <1>8. CASE WakeWorker \/ JoinWorker \/ Free
    <2>1. mpc' \in {"wake", "join", "gone"} /\ at' \in 0 .. NumBase + NumElastic + 1
      BY <1>8 DEF Places, CreatorKnown, WakeWorker, JoinWorker, Free, Main, Workers, Base, Elastic
    <2>2. UNCHANGED <<plan, sum>> /\ have' \in {have, {}}
      BY <1>8 DEF WakeWorker, JoinWorker, Free
    <2> QED
      BY <2>1, <2>2
  <1> QED
    BY <1>1, <1>2, <1>3, <1>4, <1>5, <1>6, <1>7, <1>8 DEF Creator

(* What it does to the others' variables. *)
LEMMA TypeCreator == ASSUME TypeOK, Places, Creator PROVE TypeOK'
  <1>1. CreatorOK'
    BY TypeOfCreator
  <1>2. PoolOK'
    <2> USE DEF TypeOK, PoolOK
    <2>1. CASE Alloc \/ Destroy \/ WaitRead \/ WakeMonitor \/ JoinMonitor \/ WakeWorker \/ JoinWorker
      BY <2>1 DEF Alloc, Destroy, WaitRead, WakeMonitor, JoinMonitor, WakeWorker, JoinWorker, timer, shared
    <2>2. CASE Parts
      <3>1. users' \in {0, 1} /\ wait_inited' \in BOOLEAN
        <4>1. mpc = "parts" /\ ~wait_inited /\ users = 0
          BY <2>2 DEF Places, TimerHeld, Parts, Main
        <4>2. (wait_inited' = TRUE /\ users' = users + 1) \/ UNCHANGED <<wait_inited, users>>
          BY <2>2 DEF Parts
        <4>3. CASE wait_inited' = TRUE /\ users' = users + 1
          BY <4>1, <4>3
        <4>4. CASE UNCHANGED <<wait_inited, users>>
          <5>1. wait_inited \in BOOLEAN
            OBVIOUS
          <5> QED
            BY <4>1, <4>4, <5>1
        <4> QED
          BY <4>2, <4>3, <4>4
      <3>2. UNCHANGED <<stop, perfil, ring, ctr, idle, idle_started, worked>>
        BY <2>2 DEF Parts, shared
      <3> QED
        BY <3>1, <3>2
    <2>3. CASE StartWorker \/ StartMonitor \/ DestroyStop
      BY <2>3 DEF StartWorker, StartMonitor, DestroyStop, timer
    <2>4. CASE SubmitCount
      BY <2>4, Sizes DEF SubmitCount, Op, timer, Ctrs
    <2>5. CASE SubmitPush
      <3>1. Head(plan) \in Tasks
        BY <2>5 DEF Places, CreatorKnown, SubmitPush, Op, Main
      <3> QED
        BY <2>5, <3>1 DEF SubmitPush, Op, timer
    <2>6. CASE SetProfile \/ Rouse \/ RouseSignal
      BY <2>6 DEF SetProfile, Rouse, RouseSignal, Op, timer
    <2>7. CASE Free
      BY <2>7 DEF Places, TimerHeld, Free, Main, shared
    <2> QED
      BY <2>1, <2>2, <2>3, <2>4, <2>5, <2>6, <2>7 DEF Creator
  <1>3. WorkersOK'
    <2>1. /\ UNCHANGED <<in_task, start_count, pend, task, parked>>
          /\ WorkersOK
      BY CreatorFrame DEF TypeOK
    <2>2. CASE UNCHANGED <<pc, signal>>
      BY <2>1, <2>2 DEF WorkersOK
    <2>3. CASE StartWorker
      BY <2>1, <2>3 DEF WorkersOK, StartWorker, Go, elastic
    <2>4. CASE WakeWorker
      BY <2>1, <2>4 DEF WorkersOK, WakeWorker, worker
    <2>5. StartWorker \/ WakeWorker \/ UNCHANGED <<pc, signal>>
      BY DEF Creator, Alloc, Parts, StartMonitor, SubmitCount, SubmitPush, SetProfile, Rouse,
             RouseSignal, Destroy, WaitRead, DestroyStop, WakeMonitor, JoinMonitor, JoinWorker, Free,
             Op, worker, elastic
    <2> QED
      BY <2>2, <2>3, <2>4, <2>5
  <1>4. MonitorOK'
    <2>1. UNCHANGED <<mi, msum, msc, iniciadas, stuck, mon_last, long, same>>
      BY CreatorFrame
    <2>2. mon' \in {mon, "begin"} /\ mon_signal' \in {mon_signal, TRUE}
          /\ mon_dormindo' \in {mon_dormindo, FALSE}
      BY DEF Creator, Alloc, Parts, StartWorker, StartMonitor, SubmitCount, SubmitPush, SetProfile,
             Rouse, RouseSignal, Destroy, WaitRead, DestroyStop, WakeMonitor, JoinMonitor, WakeWorker,
             JoinWorker, Free, Op, Mon, monitor
    <2> QED
      BY <2>1, <2>2 DEF TypeOK, MonitorOK
  <1> QED
    BY <1>1, <1>2, <1>3, <1>4 DEF TypeOK

(* A worker takes, runs and counts tasks, and sleeps. *)
LEMMA TypeWorker == ASSUME TypeOK, Places, NEW w \in Workers, Turn(w) PROVE TypeOK'
  <1>1. CreatorOK'
    BY WorkerFrame DEF TypeOK, CreatorOK
  <1>2. CASE Take(w)
    <2> DEFINE n == IF Len(ring) < Batch THEN Len(ring) ELSE Batch
    <2>1. /\ WorkersOK /\ PoolOK /\ pc[w] \in {"loop", "active"} /\ in_task[w] = 0
          /\ UNCHANGED <<start_count, parked, signal, stop, perfil, ctr, wait_inited, users, idle>>
          /\ UNCHANGED <<idle_started, worked, monitor>>
          /\ in_task' = [in_task EXCEPT ![w] = @ + 1] /\ pc' = [pc EXCEPT ![w] = "began"]
      BY <1>2 DEF TypeOK, Places, InTaskKnown, Take, Work, elastic
    <2>2. CASE pend[w] # <<>> /\ task' = [task EXCEPT ![w] = Head(pend[w])]
               /\ pend' = [pend EXCEPT ![w] = Tail(@)] /\ UNCHANGED ring
      <3>1. Head(pend[w]) \in Tasks /\ Tail(pend[w]) \in Seq(Tasks) /\ Len(Tail(pend[w])) < Batch
        BY <2>1, <2>2, Sizes DEF WorkersOK
      <3> QED
        BY <1>1, <2>1, <2>2, <3>1 DEF TypeOK, WorkersOK, PoolOK, MonitorOK, monitor
    <2>3. CASE pend[w] = <<>> /\ n > 0 /\ task' = [task EXCEPT ![w] = Head(ring)]
               /\ pend' = [pend EXCEPT ![w] = SubSeq(ring, 2, n)]
               /\ ring' = SubSeq(ring, n + 1, Len(ring))
      <3>1. Head(ring) \in Tasks /\ SubSeq(ring, 2, n) \in Seq(Tasks)
            /\ Len(SubSeq(ring, 2, n)) < Batch /\ SubSeq(ring, n + 1, Len(ring)) \in Seq(Tasks)
        BY <2>1, <2>3, Sizes DEF PoolOK
      <3> QED
        <4>1. WorkersOK'
          BY <2>1, <2>3, <3>1 DEF WorkersOK
        <4>2. PoolOK'
          BY <2>1, <2>3, <3>1 DEF PoolOK
        <4> QED
          BY <1>1, <2>1, <4>1, <4>2 DEF TypeOK, MonitorOK, monitor
    <2> QED
      BY <1>2, <2>2, <2>3 DEF Take
  <1>3. CASE Begin(w)
    BY <1>1, <1>3 DEF TypeOK, WorkersOK, PoolOK, MonitorOK, Begin, Go, Work, elastic, monitor
  <1>4. CASE End(w)
    <2>1. in_task[w] = 1
      BY <1>4 DEF Places, InTaskKnown, End, Go
    <2> QED
      BY <1>1, <1>4, <2>1 DEF TypeOK, WorkersOK, PoolOK, MonitorOK, End, Go, timer, elastic, shared
  <1>5. CASE Count(w)
    BY SMTT(20), <1>1, <1>5, Indices DEF TypeOK, WorkersOK, PoolOK, MonitorOK, Count, Go, Work, elastic, monitor
  <1>6. CASE Leave(w) \/ (w \in Elastic /\ ElasticWorker(w))
    <2>1. /\ UNCHANGED <<timer, monitor, shared, in_task, start_count, pend, task>>
          /\ \E to \in {"exit", "park", "prepare", "test", "sleep", "woke", "top", "active"} :
                pc' = [pc EXCEPT ![w] = to]
          /\ \E s \in BOOLEAN : signal' \in {signal, [signal EXCEPT ![w] = s]}
          /\ parked' \in {parked, [parked EXCEPT ![w] = TRUE]}
      BY <1>6 DEF TypeOK, WorkersOK, Leave, ElasticWorker, ElasticTop, ElasticPark, ElasticPrepare,
                  ElasticSleep, ElasticWoken, ElasticTimeout, ElasticAwake, ElasticRetire, Go, Moves,
                  elastic
    <2> QED
      <3>1. UNCHANGED <<in_task, start_count, pend, task>> /\ WorkersOK
        BY <2>1 DEF TypeOK
      <3>2. pc' \in [Workers -> {"none", "loop", "began", "run", "ended", "top", "park", "prepare",
                                 "test", "sleep", "woke", "active", "exit"}]
        BY <2>1 DEF TypeOK, WorkersOK
      <3>3. signal' \in [Workers -> BOOLEAN] /\ parked' \in [Elastic -> BOOLEAN]
        BY <2>1 DEF TypeOK, WorkersOK
      <3>4. WorkersOK'
        BY <3>1, <3>2, <3>3 DEF WorkersOK
      <3> QED
        BY <1>1, <2>1, <3>4 DEF TypeOK, PoolOK, MonitorOK, timer, monitor, shared
  <1> QED
    BY <1>2, <1>3, <1>4, <1>5, <1>6 DEF Turn, Worker

(* The monitor reads, announces, sleeps and activates. *)
LEMMA TypeMonitor == ASSUME TypeOK, Places, Monitor PROVE TypeOK'
  <1>1. CreatorOK' /\ WorkersOK'
    <2>1. parked' \in [Elastic -> BOOLEAN] /\ signal' \in [Workers -> BOOLEAN]
      <3>1. CASE UNCHANGED elastic
        BY <3>1 DEF TypeOK, WorkersOK, elastic
      <3>2. CASE MonClaim
        BY <3>2 DEF TypeOK, WorkersOK, MonClaim
      <3>3. CASE MonWake
        BY <3>3 DEF TypeOK, WorkersOK, MonWake
      <3>4. UNCHANGED elastic \/ MonClaim \/ MonWake
        BY DEF Monitor, MonPrepare, MonTop, MonRead, MonPending, MonCount, MonAnnounce, MonIdle, MonBusy,
               MonUnannounce, MonSleep, MonTimer, MonWorkAgain, MonRestore, MonLook, MonJudge, Judge,
               MonBacklog, Backlog, MonRoundEnd, Quietly
      <3> QED
        BY <3>1, <3>2, <3>3, <3>4
    <2> QED
      BY <2>1, MonitorFrame DEF TypeOK, CreatorOK, WorkersOK
  <1>2. PoolOK'
    <2>1. UNCHANGED <<stop, perfil, ring, ctr>> /\ PoolOK
      BY MonitorFrame DEF TypeOK
    <2>2. CASE UNCHANGED timer
      BY <2>1, <2>2 DEF PoolOK, timer
    <2>3. CASE MonAnnounce
      <3>1. worked' \in BOOLEAN
        BY <2>3, Zenon DEF MonAnnounce
      <3> QED
        BY <2>1, <2>3, <3>1 DEF PoolOK, MonAnnounce
    <2>4. CASE MonIdle
      <3>1. /\ wait_inited' \in BOOLEAN /\ idle' \in BOOLEAN /\ worked' \in BOOLEAN
            /\ idle_started' \in Nat
        BY <2>1, <2>4 DEF PoolOK, MonIdle, timer, TypeOK, MonitorOK
      <3>2. mpc # "gone"
        BY <2>4 DEF MonIdle, Last, Step, Mon, Places, MonitorKnown
      <3>3. users' \in {0, 1}
        <4>1. CASE users' = users
          BY <2>1, <4>1 DEF PoolOK
        <4>2. CASE wait_inited /\ users' = users - 1
          <5>1. users = 1
            BY <3>2, <4>2 DEF Places, TimerHeld
          <5> QED
            BY <4>2, <5>1
        <4> QED
          BY <2>4, <4>1, <4>2 DEF MonIdle, timer
      <3> QED
        BY <2>1, <3>1, <3>3 DEF PoolOK
    <2>5. CASE MonRestore
      <3>1. mpc # "gone"
        BY <2>5 DEF MonRestore, Step, Mon, Places, MonitorKnown
      <3>2. users' \in {0, 1} /\ wait_inited' \in BOOLEAN
        <4>1. CASE UNCHANGED <<wait_inited, users>>
          BY <2>1, <4>1 DEF PoolOK
        <4>2. CASE ~wait_inited /\ wait_inited' = TRUE /\ users' = users + 1
          <5>1. users = 0
            BY <4>2 DEF Places, TimerHeld
          <5> QED
            BY <4>2, <5>1
        <4> QED
          BY <2>5, <4>1, <4>2 DEF MonRestore
      <3> QED
        BY <2>1, <2>5, <3>2 DEF PoolOK, MonRestore
    <2>6. UNCHANGED timer \/ MonAnnounce \/ MonIdle \/ MonRestore
      BY DEF Monitor, MonPrepare, MonTop, MonRead, MonPending, MonCount, MonBusy,
             MonUnannounce, MonSleep, MonTimer, MonWorkAgain, MonLook, MonJudge, Judge,
             MonBacklog, Backlog, MonClaim, MonWake, MonRoundEnd, Quietly
    <2> QED
      BY <2>2, <2>3, <2>4, <2>5, <2>6
  <1>3. MonitorOK'
    <2> USE Sizes DEF TypeOK, MonitorOK
    <2>1. CASE MonPrepare \/ MonAnnounce \/ MonUnannounce \/ MonSleep
      BY <2>1 DEF MonPrepare, MonAnnounce, MonUnannounce, MonSleep, Step, Mon, Locals
    <2>2. CASE MonTop
      BY <2>2 DEF MonTop, Step, Mon, Quietly
    <2>3. CASE MonRead
      <3>1. ctr[mi] \in Int /\ mi + 1 \in 0 .. NumBase + NumElastic + 1
        BY <2>3 DEF MonRead, Places, MonitorKnown, PoolOK, Ctrs
      <3> QED
        BY <2>3, <3>1 DEF MonRead, Step, Mon, Quietly
    <2>4. CASE MonPending \/ MonIdle \/ MonBusy \/ MonWorkAgain
      <3>1. mon' \in {"count", "sleep", "unannounce", "restore", "stuck"} /\ mi' = 0 /\ msum' = 0
            /\ UNCHANGED <<mon_last, same, msc, stuck, mon_signal, mon_dormindo>>
        BY <2>4 DEF MonPending, MonIdle, MonBusy, MonWorkAgain, Last, Step, Mon, Quietly
      <3>2. (long' = long \/ long' = TRUE) /\ (iniciadas' = iniciadas \/ iniciadas' = 0)
        BY <2>4 DEF MonPending, MonIdle, MonBusy, MonWorkAgain
      <3>3. long \in BOOLEAN /\ iniciadas \in Nat
        OBVIOUS
      <3>4. long' \in BOOLEAN
        BY <3>2, <3>3, Zenon
      <3>5. iniciadas' \in Nat
        BY <3>2, <3>3
      <3> QED
        BY <3>1, <3>4, <3>5
    <2>5. CASE MonCount
      <3>1. Started \in Nat
        <4>1. IsFiniteSet(Workers) /\ \A w \in Workers : start_count[w] \in Nat
          BY Indices DEF WorkersOK
        <4> QED
          BY <4>1, SumOfNat DEF Started
      <3> QED
        BY <2>5, <3>1 DEF MonCount, Step, Mon, Quietly
    <2>6. CASE MonTimer
      BY <2>6 DEF MonTimer, Step, Mon, Quietly
    <2>7. CASE MonRestore
      BY <2>7 DEF MonRestore, Step, Mon, Locals
    <2>8. CASE MonLook
      <3>1. start_count[mi + 1] \in Nat
        BY <2>8, Indices DEF MonLook, WorkersOK
      <3> QED
        BY <2>8, <3>1 DEF MonLook, Step, Mon, Quietly
    <2>9. CASE MonJudge
      <3>1. mi + 1 \in Base /\ stuck <= mi /\ mi <= NumBase
        BY <2>9 DEF MonJudge, Judge, Places, MonitorKnown
      <3>2. mi' = mi + 1 /\ mi + 1 <= NumBase /\ stuck' \in {stuck, stuck + 1}
        BY <2>9, <3>1 DEF MonJudge, Judge, Base
      <3>3. same' \subseteq Base /\ mon_last' \in [Base -> Nat]
        BY <2>9, <3>1 DEF MonJudge, Judge
      <3> QED
        BY <2>9, <3>1, <3>2, <3>3 DEF MonJudge, Judge, Quietly
    <2>10. CASE MonBacklog \/ MonRoundEnd
      BY <2>10 DEF MonBacklog, Backlog, MonRoundEnd, Step, Mon, Quietly
    <2>11. CASE MonClaim
      BY <2>11 DEF MonClaim, Elastic, Step, Mon
    <2>12. CASE MonWake
      BY <2>12 DEF MonWake, Elastic, Places, MonitorKnown, Step, Mon
    <2> QED
      BY <2>1, <2>2, <2>3, <2>4, <2>5, <2>6, <2>7, <2>8, <2>9, <2>10, <2>11, <2>12 DEF Monitor
  <1> QED
    BY <1>1, <1>2, <1>3 DEF TypeOK

(* Every step keeps the types. *)
LEMMA TypeNext == ASSUME TypeOK, Places, [Next]_vars PROVE TypeOK'
  <1>1. CASE UNCHANGED vars
    BY <1>1 DEF vars, creator, timer, worker, elastic, monitor, shared, TypeOK, CreatorOK, PoolOK,
                WorkersOK, MonitorOK
  <1> QED
    BY <1>1, Steps, TypeCreator, TypeMonitor, TypeWorker

-----------------------------------------------------------------------------
(* Where threads are. *)

(* The loops of create and destroy stay within the workers. *)
LEMMA CreatorNext == ASSUME TypeOK, Places, [Next]_vars PROVE CreatorKnown'
  <1> USE DEF CreatorKnown
  <1>1. CASE Creator
    <2> USE DEF Places
    <2>1. CASE Alloc \/ Parts
      BY <2>1, Sizes DEF Alloc, Parts, Main, Ctrs, worker, monitor, shared
    <2>2. CASE StartWorker
      BY <2>2, Sizes DEF StartWorker, Go, Workers, Base, Elastic
    <2>3. CASE StartMonitor
      BY <2>3 DEF StartMonitor
    <2>4. CASE SubmitCount
      BY <2>4 DEF SubmitCount, Op, Main, Tasks
    <2>5. CASE SubmitPush \/ SetProfile \/ Rouse \/ RouseSignal
      BY <2>5 DEF SubmitPush, SetProfile, Rouse, RouseSignal, Op, Main
    <2>6. CASE Destroy
      BY <2>6, Sizes DEF Destroy, Main, Ctrs, shared
    <2>7. CASE WaitRead
      BY <2>7, Sizes DEF WaitRead, Main, Ctrs, shared
    <2>8. CASE DestroyStop \/ WakeMonitor \/ JoinMonitor
      BY <2>8 DEF DestroyStop, WakeMonitor, JoinMonitor, Main, shared
    <2>9. CASE WakeWorker \/ JoinWorker
      BY <2>9, Sizes DEF WakeWorker, JoinWorker, Joinable, Main, shared, worker, Workers, Base, Elastic
    <2>10. CASE Free
      BY <2>10 DEF Free, Main, shared
    <2> QED
      BY <1>1, <2>1, <2>2, <2>3, <2>4, <2>5, <2>6, <2>7, <2>8, <2>9, <2>10 DEF Creator
  <1>2. ASSUME NEW w \in Workers, Turn(w) PROVE CreatorKnown'
    <2>1. UNCHANGED <<mpc, plan, at, sum, stop>> /\ \A v \in Workers : pc[v] # "none" => pc'[v] # "none"
      BY <1>2, WorkerFrame DEF TypeOK
    <2> QED
      BY <2>1 DEF Places
  <1>3. CASE Monitor \/ UNCHANGED vars
    BY <1>3, MonitorFrame DEF Places, vars, creator, worker, shared
  <1> QED
    BY <1>1, <1>2, <1>3, Steps

(* The places of the monitor and of the creator. *)
LEMMA MonitorNext == ASSUME TypeOK, Places, [Next]_vars PROVE MonitorKnown'
  <1> USE DEF MonitorKnown, Places
  <1>1. CASE Creator
    <2>1. UNCHANGED <<mi, msum, stuck, long>>
      BY <1>1, CreatorFrame
    <2>2. CASE StartMonitor
      BY <2>1, <2>2 DEF StartMonitor, Mon
    <2>3. CASE JoinMonitor
      BY <2>1, <2>3 DEF JoinMonitor, Main, monitor
    <2>4. CASE StartWorker
      BY <2>1, <2>4 DEF StartWorker, monitor
    <2>5. CASE ~StartMonitor /\ ~JoinMonitor /\ ~StartWorker
      <3>1. UNCHANGED mon
        BY <1>1, <2>5 DEF Creator, Alloc, Parts, SubmitCount, SubmitPush, SetProfile, Rouse, RouseSignal,
               Destroy, WaitRead, DestroyStop, WakeMonitor, WakeWorker, JoinWorker, Free, Op, monitor
      <3>2. /\ mpc' \in {"alloc", "parts", "start"} => mpc \in {"alloc", "parts", "start"}
            /\ mpc' \in {"wake", "join", "gone"} => mpc \in {"alloc", "parts", "start", "wake", "join", "gone"}
        BY <1>1, <2>5 DEF Creator, Alloc, Parts, SubmitCount, SubmitPush, SetProfile, Rouse, RouseSignal,
               Destroy, WaitRead, DestroyStop, WakeMonitor, WakeWorker, JoinWorker, Free, Op, Main
      <3> QED
        BY <2>1, <3>1, <3>2
    <2> QED
      BY <2>2, <2>3, <2>4, <2>5
  <1>2. ASSUME NEW w \in Workers, Turn(w) PROVE MonitorKnown'
    BY <1>2, WorkerFrame DEF TypeOK
  <1>3. CASE Monitor
    <2>1. UNCHANGED mpc
      BY <1>3, MonitorFrame
    <2> USE <2>1, Sizes DEF TypeOK, MonitorOK, Ctrs
    <2>2. CASE MonPrepare
      BY <2>2 DEF MonPrepare, Step, Mon, Locals
    <2>12. CASE MonAnnounce
      BY <2>12 DEF MonAnnounce, Step, Mon, Locals
    <2>13. CASE MonUnannounce
      BY <2>13 DEF MonUnannounce, Step, Mon, Locals
    <2>14. CASE MonSleep
      BY <2>14 DEF MonSleep, Step, Mon, Locals
    <2>3. CASE MonTop
      BY <2>3 DEF MonTop, Step, Mon, Quietly
    <2>4. CASE MonRead
      BY <2>4 DEF MonRead, Step, Mon, Quietly
    <2>5. CASE MonPending \/ MonIdle \/ MonBusy \/ MonWorkAgain
      BY <2>5 DEF MonPending, MonIdle, MonBusy, MonWorkAgain, Last, Step, Mon, Quietly
    <2>6. CASE MonCount
      BY <2>6 DEF MonCount, Step, Mon, Quietly
    <2>15. CASE MonTimer
      BY <2>15 DEF MonTimer, Step, Mon, Quietly
    <2>16. CASE MonRestore
      BY <2>16 DEF MonRestore, Step, Mon, Locals
    <2>7. CASE MonLook
      BY <2>7 DEF MonLook, Step, Mon, Quietly
    <2>8. CASE MonJudge
      BY <2>8 DEF MonJudge, Judge, Quietly, Base
    <2>9. CASE MonBacklog \/ MonRoundEnd
      BY <2>9 DEF MonBacklog, Backlog, MonRoundEnd, Step, Mon, Quietly
    <2>10. CASE MonClaim
      BY <2>10 DEF MonClaim, Step, Mon
    <2>11. CASE MonWake
      BY <2>11 DEF MonWake, Step, Mon
    <2> QED
      BY <1>3, <2>2, <2>3, <2>4, <2>5, <2>6, <2>7, <2>8, <2>9, <2>10, <2>11, <2>12,
         <2>13, <2>14, <2>15, <2>16 DEF Monitor
  <1>4. CASE UNCHANGED vars
    BY <1>4 DEF vars, creator, monitor
  <1> QED
    BY <1>1, <1>2, <1>3, <1>4, Steps

(* How far the workers are started and joined. *)
LEMMA WorkersNext == ASSUME TypeOK, Places, [Next]_vars PROVE WorkersKnown'
  <1> USE DEF WorkersKnown, Places
  <1>1. CASE Creator
    <2>1. CASE StartWorker
      <3>1. CASE mpc' = "wake" /\ at' = 1 /\ UNCHANGED pc
        <4>1. \A w \in Workers : ~(w < 1)
          BY Indices
        <4> QED
          BY <3>1, <4>1
      <3>2. CASE pc' = [pc EXCEPT ![at] = IF at \in Base THEN "loop" ELSE "top"] /\ at' = at + 1
                 /\ UNCHANGED mpc
        <4>1. /\ at \in Workers /\ mpc = "start" /\ at \in Int
              /\ \A w \in Workers : w \in Int /\ (pc[w] = "none" <=> w >= at)
              /\ \A w \in Workers : pc'[w] = IF w = at THEN (IF at \in Base THEN "loop" ELSE "top") ELSE pc[w]
          BY <2>1, <3>2, Indices DEF StartWorker, TypeOK, WorkersOK
        <4>2. \A w \in Workers : pc'[w] = "none" <=> w >= at'
          BY <3>2, <4>1
        <4>3. \A v, w \in Workers : v < w /\ pc'[v] = "none" => pc'[w] = "none"
          BY <3>2, <4>1, <4>2
        <4> QED
          BY <3>2, <4>1, <4>2, <4>3
      <3> QED
        BY <2>1, <3>1, <3>2 DEF StartWorker, Go
    <2>2. CASE StartMonitor
      BY <2>2, Indices DEF StartMonitor, worker
    <2>3. CASE Alloc \/ Parts
      BY <2>3, Indices DEF Alloc, Parts, Main, worker
    <2>4. CASE JoinMonitor
      BY <2>4, Indices DEF JoinMonitor, Main, worker
    <2>5. CASE WakeWorker
      BY <2>5 DEF WakeWorker, Main, worker
    <2>6. CASE JoinWorker
      <3>1. \A w \in Workers : w < at + 1 => w < at \/ w = at
        BY Indices DEF TypeOK, CreatorOK, N
      <3> QED
        BY <2>6, <3>1 DEF JoinWorker, Main, worker
    <2>7. CASE Free
      <3>1. \A w \in Workers : pc[w] \in {"none", "exit"}
        <4>1. \A w \in Workers : w < at => pc[w] = "exit"
          BY <2>7 DEF Free, Main
        <4>2. CASE at \in Workers
          <5>1. pc[at] = "none" /\ \A w \in Workers : w < at \/ w = at \/ at < w
            BY <2>7, <4>2, Indices DEF Free, Joinable
          <5> QED
            BY <4>1, <4>2, <5>1
        <4>3. CASE at \notin Workers
          <5>1. \A w \in Workers : w < at
            BY <2>7, <4>3, Indices DEF Free, Main, CreatorKnown, TypeOK, CreatorOK, N
          <5> QED
            BY <4>1, <5>1
        <4> QED
          BY <4>2, <4>3
      <3> QED
        BY <2>7, <3>1 DEF Free, Main, worker
    <2>8. CASE SubmitCount \/ SubmitPush \/ SetProfile \/ Rouse \/ RouseSignal \/ Destroy \/ WaitRead
               \/ DestroyStop \/ WakeMonitor
      <3>1. mpc' \in {"push", "rouse", "up", "signal", "wait", "stop", "crashed", "wakemon", "joinmon"}
            /\ UNCHANGED pc
        BY <2>8 DEF SubmitCount, SubmitPush, SetProfile, Rouse, RouseSignal, Destroy, WaitRead, DestroyStop,
                    WakeMonitor, Op, Main, worker
      <3> QED
        BY <3>1
    <2> QED
      BY <1>1, <2>1, <2>2, <2>3, <2>4, <2>5, <2>6, <2>7, <2>8 DEF Creator
  <1>2. ASSUME NEW w \in Workers, Turn(w) PROVE WorkersKnown'
    <2>1. /\ UNCHANGED <<mpc, at>>
          /\ \A v \in Workers : pc[v] = "none" <=> pc'[v] = "none"
          /\ \A v \in Workers : pc[v] = "exit" => pc'[v] = "exit"
      BY <1>2, WorkerFrame DEF TypeOK
    <2>2. mpc # "gone"
      BY <1>2, WorkerFrame DEF Turn, Worker, ElasticWorker, Take, Begin, End, Count, Leave, ElasticTop,
           ElasticPark, ElasticPrepare, ElasticSleep, ElasticWoken, ElasticTimeout, ElasticAwake,
           ElasticRetire, Go, TypeOK
    <2>3. ASSUME NEW u \in Workers, NEW v \in Workers, u < v, pc'[u] = "none" PROVE pc'[v] = "none"
      <3>1. pc[u] = "none"
        BY <2>1, <2>3
      <3>2. pc[v] = "none"
        BY <2>3, <3>1
      <3> QED
        BY <2>1, <3>2
    <2>4. mpc \in {"alloc", "parts"} => \A v \in Workers : pc'[v] = "none"
      BY <2>1
    <2>5. mpc = "start" => \A v \in Workers : pc'[v] = "none" <=> v >= at
      BY <2>1
    <2>6. mpc \in {"wake", "join"} => \A v \in Workers : v < at => pc'[v] = "exit"
      BY <2>1
    <2> QED
      BY <2>1, <2>2, <2>3, <2>4, <2>5, <2>6
  <1>3. CASE Monitor \/ UNCHANGED vars
    BY <1>3, MonitorFrame DEF vars, creator, worker
  <1> QED
    BY <1>1, <1>2, <1>3, Steps

(* In a task, and counted as in one. *)
LEMMA InTaskNext == ASSUME TypeOK, Places, [Next]_vars PROVE InTaskKnown'
  <1> USE DEF InTaskKnown, Places
  <1>1. CASE Creator
    <2>1. UNCHANGED in_task
      BY <1>1, CreatorFrame
    <2>2. CASE StartWorker
      BY <2>1, <2>2 DEF StartWorker, Go, TypeOK, WorkersOK
    <2>3. CASE ~StartWorker
      <3>1. UNCHANGED pc
        BY <1>1, <2>3 DEF Creator, Alloc, Parts, StartMonitor, SubmitCount, SubmitPush, SetProfile,
             Rouse, RouseSignal, Destroy, WaitRead, DestroyStop, WakeMonitor, JoinMonitor, WakeWorker,
             JoinWorker, Free, Op, worker
      <3> QED
        BY <2>1, <3>1
    <2> QED
      BY <2>2, <2>3
  <1>2. ASSUME NEW w \in Workers, Turn(w) PROVE InTaskKnown'
    <2>1. \A v \in Workers \ {w} : pc'[v] = pc[v] /\ in_task'[v] = in_task[v]
      BY <1>2, WorkerFrame DEF TypeOK
    <2>2. in_task'[w] = IF pc'[w] \in {"began", "run"} THEN 1 ELSE 0
      <3> USE DEF TypeOK, WorkersOK
      <3>1. CASE Take(w)
        <4>1. pc[w] \in {"loop", "active"} /\ pc'[w] = "began" /\ in_task'[w] = in_task[w] + 1
          BY <3>1 DEF Take
        <4>2. in_task[w] = IF pc[w] \in {"began", "run"} THEN 1 ELSE 0
          OBVIOUS
        <4>3. in_task[w] = 0
          BY <4>1, <4>2
        <4> QED
          BY <4>1, <4>3
      <3>2. CASE Begin(w) \/ End(w) \/ Count(w)
        BY <3>2 DEF Begin, End, Count, Go
      <3>3. CASE Leave(w) \/ (w \in Elastic /\ ElasticWorker(w))
        BY <3>3 DEF Leave, ElasticWorker, ElasticTop, ElasticPark, ElasticPrepare, ElasticSleep,
             ElasticWoken, ElasticTimeout, ElasticAwake, ElasticRetire, Go, Moves
      <3> QED
        BY <1>2, <3>1, <3>2, <3>3 DEF Turn, Worker
    <2> QED
      BY <2>1, <2>2
  <1>3. CASE Monitor \/ UNCHANGED vars
    BY <1>3, MonitorFrame DEF vars, worker
  <1> QED
    BY <1>1, <1>2, <1>3, Steps

(* Who holds the timer is counted. *)
LEMMA TimerNext == ASSUME TypeOK, Places, [Next]_vars PROVE TimerHeld'
  <1> USE DEF TimerHeld, Places
  <1>0. wait_inited \in BOOLEAN /\ users \in Int
    BY DEF TypeOK, PoolOK
  <1>1. CASE Creator
    <2>1. CASE Alloc
      BY <1>0, <2>1 DEF Alloc, Main, timer
    <2>2. CASE Parts
      <3>1. mpc = "parts" /\ mpc' \in {"start", "wait"} /\ ~wait_inited /\ users = 0
        BY <2>2 DEF Parts, Main
      <3>2. CASE wait_inited' = TRUE /\ users' = users + 1
        BY <3>1, <3>2
      <3>3. CASE UNCHANGED <<wait_inited, users>>
        BY <3>1, <3>3
      <3> QED
        BY <2>2, <3>2, <3>3 DEF Parts
    <2>3. CASE Free
      <3>1. mpc' = "gone" /\ mpc = "wake" /\ UNCHANGED wait_inited
            /\ users' = IF wait_inited THEN users - 1 ELSE users
        BY <2>3 DEF Free, Main
      <3>2. users' = 0
        BY <1>0, <3>1
      <3> QED
        BY <3>1, <3>2
    <2>4. CASE ~Alloc /\ ~Parts /\ ~Free
      <3>1. /\ UNCHANGED <<wait_inited, users>> /\ mpc # "gone"
            /\ mpc' \notin {"alloc", "parts", "gone"}
        BY <1>1, <2>4 DEF Creator, StartWorker, StartMonitor, SubmitCount, SubmitPush, SetProfile,
             Rouse, RouseSignal, Destroy, WaitRead, DestroyStop, WakeMonitor, JoinMonitor, WakeWorker,
             JoinWorker, Op, Main, timer
      <3> QED
        BY <3>1
    <2> QED
      BY <2>1, <2>2, <2>3, <2>4
  <1>2. ASSUME NEW w \in Workers, Turn(w) PROVE TimerHeld'
    BY <1>2, WorkerFrame DEF TypeOK
  <1>3. CASE Monitor
    <2>1. UNCHANGED mpc /\ mpc \notin {"alloc", "parts", "gone"}
      <3>1. mon \notin {"none", "exit"}
        BY <1>3 DEF Monitor, MonPrepare, MonTop, MonRead, MonPending, MonCount, MonAnnounce, MonIdle,
             MonBusy, MonUnannounce, MonSleep, MonTimer, MonWorkAgain, MonRestore, MonLook, MonJudge,
             Judge, MonBacklog, Backlog, MonClaim, MonWake, MonRoundEnd, Step, Last, Mon
      <3> QED
        BY <1>3, <3>1, MonitorFrame DEF MonitorKnown
    <2>2. CASE UNCHANGED <<wait_inited, users>>
      BY <2>1, <2>2
    <2>3. CASE wait_inited /\ wait_inited' = FALSE /\ users' = users - 1
      BY <2>1, <2>3
    <2>4. CASE ~wait_inited /\ wait_inited' = TRUE /\ users' = users + 1
      BY <2>1, <2>4
    <2> QED
      BY <1>3, <2>2, <2>3, <2>4 DEF Monitor, MonPrepare, MonTop, MonRead, MonPending, MonCount,
             MonAnnounce, MonIdle, MonBusy, MonUnannounce, MonSleep, MonTimer, MonWorkAgain, MonRestore,
             MonLook, MonJudge, Judge, MonBacklog, Backlog, MonClaim, MonWake, MonRoundEnd, Quietly, timer
  <1>4. CASE UNCHANGED vars
    BY <1>4 DEF vars, creator, timer
  <1> QED
    BY <1>1, <1>2, <1>3, <1>4, Steps

(* Every step keeps the places of all threads. *)
LEMMA PlacesNext == ASSUME TypeOK, Places, [Next]_vars PROVE Places'
  BY CreatorNext, MonitorNext, WorkersNext, InTaskNext, TimerNext DEF Places

-----------------------------------------------------------------------------
(* The counters. *)

(* Loads are numbers. *)
LEMMA LoadType ==
    ASSUME TypeOK
    PROVE  \A w \in Workers : /\ Load[w] = Len(pend[w]) + (IF pc[w] \in Busy THEN 1 ELSE 0)
                              /\ Load[w] \in Nat
  BY DEF Load, TypeOK, WorkersOK

(* Sums do not change with what they sum. *)
LEMMA LoadSame ==
    ASSUME TypeOK, \A w \in Workers : pend'[w] = pend[w] /\ (pc'[w] \in Busy <=> pc[w] \in Busy)
    PROVE  Load' = Load
  BY DEF Load

(* A change at one worker changes the sum by as much. *)
LEMMA SumOfWorkers ==
    ASSUME NEW f, NEW g, NEW w \in Workers,
           \A v \in Workers : f[v] \in Int /\ g[v] \in Int, \A v \in Workers \ {w} : g[v] = f[v]
    PROVE  /\ SumFunctionOnSet(g, Workers) = SumFunctionOnSet(f, Workers) + (g[w] - f[w])
           /\ SumFunctionOnSet(f, Workers) \in Int
  <1>1. IsFiniteSet(Workers)
    BY Indices
  <1> QED
    BY <1>1, SumUpdate

(* The same of the counters. *)
LEMMA SumOfCtrs ==
    ASSUME NEW f, NEW g, NEW c \in Ctrs,
           \A x \in Ctrs : f[x] \in Int /\ g[x] \in Int, \A x \in Ctrs \ {c} : g[x] = f[x]
    PROVE  /\ SumFunctionOnSet(g, Ctrs) = SumFunctionOnSet(f, Ctrs) + (g[c] - f[c])
           /\ SumFunctionOnSet(f, Ctrs) \in Int
  <1>1. IsFiniteSet(Ctrs)
    BY Indices
  <1> QED
    BY <1>1, SumUpdate

(* One worker's load. *)
LEMMA LoadMoves ==
    ASSUME TypeOK, TypeOK', NEW w \in Workers,
           \A v \in Workers \ {w} : pend'[v] = pend[v] /\ pc'[v] = pc[v]
    PROVE  /\ SumFunctionOnSet(Load', Workers) = SumFunctionOnSet(Load, Workers) + (Load'[w] - Load[w])
           /\ SumFunctionOnSet(Load, Workers) \in Int
           /\ Load[w] = Len(pend[w]) + (IF pc[w] \in Busy THEN 1 ELSE 0) /\ Load[w] \in Nat
           /\ Load'[w] = Len(pend'[w]) + (IF pc'[w] \in Busy THEN 1 ELSE 0) /\ Load'[w] \in Nat
  <1>1. \A v \in Workers : /\ Load[v] = Len(pend[v]) + (IF pc[v] \in Busy THEN 1 ELSE 0)
                           /\ Load[v] \in Nat
    BY LoadType
  <1>2. \A v \in Workers : /\ Load'[v] = Len(pend'[v]) + (IF pc'[v] \in Busy THEN 1 ELSE 0)
                           /\ Load'[v] \in Nat
    BY DEF Load, TypeOK, WorkersOK
  <1>3. \A v \in Workers : Load[v] \in Int /\ Load'[v] \in Int
    <2>1. ASSUME NEW v \in Workers PROVE Load[v] \in Nat /\ Load'[v] \in Nat
      BY <1>1, <1>2, Zenon
    <2> HIDE <1>1, <1>2
    <2> QED
      BY <2>1
  <1>4. \A v \in Workers \ {w} : Load'[v] = Load[v]
    BY DEF Load
  <1>5. /\ SumFunctionOnSet(Load', Workers) = SumFunctionOnSet(Load, Workers) + (Load'[w] - Load[w])
        /\ SumFunctionOnSet(Load, Workers) \in Int
    BY <1>3, <1>4, SumOfWorkers
  <1> QED
    BY <1>1, <1>2, <1>5

(* One counter. *)
LEMMA CtrMoves ==
    ASSUME TypeOK, NEW c \in Ctrs, NEW d \in {1, -1}, ctr' = [ctr EXCEPT ![c] = @ + d]
    PROVE  SumFunctionOnSet(ctr', Ctrs) = SumFunctionOnSet(ctr, Ctrs) + d
           /\ SumFunctionOnSet(ctr, Ctrs) \in Int
  <1>0. ctr \in [Ctrs -> Int]
    BY DEF TypeOK, PoolOK
  <1>1. \A x \in Ctrs : ctr[x] \in Int /\ ctr'[x] \in Int
    BY <1>0
  <1>2. \A x \in Ctrs \ {c} : ctr'[x] = ctr[x]
    BY <1>0
  <1>3. ctr'[c] - ctr[c] = d
    BY <1>0
  <1>4. /\ SumFunctionOnSet(ctr', Ctrs) = SumFunctionOnSet(ctr, Ctrs) + (ctr'[c] - ctr[c])
        /\ SumFunctionOnSet(ctr, Ctrs) \in Int
    BY <1>1, <1>2, SumOfCtrs
  <1> QED
    BY <1>3, <1>4

(* Counters that only fall, in a part of them. *)
LEMMA CtrFalls ==
    ASSUME TypeOK, TypeOK', NEW m \in Nat, \A c \in 0 .. m - 1 : c \in Ctrs /\ ctr'[c] <= ctr[c],
           NEW s \in Int, SumFunctionOnSet(ctr, 0 .. m - 1) <= s
    PROVE  SumFunctionOnSet(ctr', 0 .. m - 1) <= s
  <1>1. ASSUME NEW f, NEW g, f = ctr, g = ctr'
        PROVE  /\ SumFunctionOnSet(g, 0 .. m - 1) <= SumFunctionOnSet(f, 0 .. m - 1)
               /\ SumFunctionOnSet(g, 0 .. m - 1) \in Int /\ SumFunctionOnSet(f, 0 .. m - 1) \in Int
    <2>1. IsFiniteSet(0 .. m - 1)
      BY FS_Interval
    <2>2. \A c \in 0 .. m - 1 : f[c] \in Int /\ g[c] \in Int /\ g[c] <= f[c]
      BY <1>1 DEF TypeOK, PoolOK
    <2> QED
      BY <2>1, <2>2, SumMonotone, SumPicked
  <1>2. /\ SumFunctionOnSet(ctr', 0 .. m - 1) <= SumFunctionOnSet(ctr, 0 .. m - 1)
        /\ SumFunctionOnSet(ctr', 0 .. m - 1) \in Int /\ SumFunctionOnSet(ctr, 0 .. m - 1) \in Int
    BY <1>1
  <1> QED
    BY <1>2

(* One counter more is read. *)
LEMMA CtrRead ==
    ASSUME TypeOK, NEW m \in Ctrs, NEW s \in Int, SumFunctionOnSet(ctr, 0 .. m - 1) <= s
    PROVE  SumFunctionOnSet(ctr, 0 .. m) <= s + ctr[m] /\ ctr[m] \in Int
           /\ SumFunctionOnSet(ctr, 0 .. m) \in Int
  <1>1. m \in Nat /\ 0 .. m = (0 .. m - 1) \cup {m} /\ m \notin 0 .. m - 1 /\ 0 .. m \subseteq Ctrs
    BY Indices
  <1>2. IsFiniteSet(0 .. m - 1) /\ IsFiniteSet(0 .. m)
    BY <1>1, FS_Interval
  <1>3. \A c \in (0 .. m - 1) \cup {m} : ctr[c] \in Int
    BY <1>1 DEF TypeOK, PoolOK
  <1>4. /\ SumFunctionOnSet(ctr, (0 .. m - 1) \cup {m}) = SumFunctionOnSet(ctr, 0 .. m - 1) + ctr[m]
        /\ SumFunctionOnSet(ctr, 0 .. m - 1) \in Int
    BY <1>1, <1>2, <1>3, SumAdd
  <1>5. SumFunctionOnSet(ctr, 0 .. m) = SumFunctionOnSet(ctr, 0 .. m - 1) + ctr[m] /\ ctr[m] \in Int
    BY <1>1, <1>3, <1>4
  <1> HIDE <1>1
  <1> QED
    BY <1>4, <1>5

(* Counters that sum to no more than nothing leave nobody a task. *)
LEMMA NothingCounted ==
    ASSUME TypeOK, CountersExact, SumFunctionOnSet(ctr, Ctrs) <= 0
    PROVE  Quiet /\ mpc # "push" /\ SumFunctionOnSet(ctr, Ctrs) = 0
  <1>1. SumFunctionOnSet(Load, Workers) \in Nat /\ \A w \in Workers : Load[w] <= SumFunctionOnSet(Load, Workers)
    <2>1. IsFiniteSet(Workers) /\ \A w \in Workers : Load[w] \in Nat
      BY Indices, LoadType
    <2> QED
      BY <2>1, SumOfNat
  <1>2. Len(ring) \in Nat
    BY DEF TypeOK, PoolOK
  <1>3. Len(ring) = 0 /\ mpc # "push" /\ SumFunctionOnSet(Load, Workers) = 0
        /\ SumFunctionOnSet(ctr, Ctrs) = 0
    BY <1>1, <1>2 DEF CountersExact
  <1>4. ASSUME NEW w \in Workers PROVE pend[w] = <<>> /\ pc[w] \notin Busy
    <2>1. Load[w] <= 0 /\ Load[w] \in Nat /\ Load[w] = Len(pend[w]) + (IF pc[w] \in Busy THEN 1 ELSE 0)
      BY <1>1, <1>3, LoadType
    <2>2. Len(pend[w]) \in Nat /\ pend[w] \in Seq(Tasks)
      BY DEF TypeOK, WorkersOK
    <2>3. Load[w] = 0
      <3>1. Load[w] \in Nat /\ Load[w] <= 0
        BY <2>1
      <3> HIDE <2>1
      <3> QED
        BY <3>1
    <2>4. ASSUME NEW n \in Nat, n + (IF pc[w] \in Busy THEN 1 ELSE 0) = 0 PROVE n = 0 /\ pc[w] \notin Busy
      BY <2>4
    <2>5. Len(pend[w]) = 0 /\ pc[w] \notin Busy
      BY <2>1, <2>2, <2>3, <2>4
    <2> QED
      BY <2>2, <2>5, EmptySeq
  <1>5. ring = <<>>
    BY <1>3, EmptySeq DEF TypeOK, PoolOK
  <1> QED
    BY <1>3, <1>4, <1>5 DEF Quiet

-----------------------------------------------------------------------------
(* What the counters say. *)

Counted == TypeOK /\ Places /\ QuietWhenOver /\ CountersExact /\ WaitReads

(* Nothing comes to a pool that is not up. *)
LEMMA QuietNext == ASSUME Counted, [Next]_vars PROVE QuietWhenOver'
  <1> USE DEF Counted
  <1>1. CASE Creator
    <2>1. UNCHANGED pend
      BY <1>1, CreatorFrame
    <2>2. CASE WaitRead
      <3>1. CASE mpc' = "stop"
        <4>1. at + 1 \notin Ctrs /\ ~(sum + ctr[at] > 0) /\ at \in Ctrs /\ mpc = "wait"
          BY <2>2, <3>1 DEF WaitRead, Places, CreatorKnown
        <4>2. sum \in Int /\ SumFunctionOnSet(ctr, 0 .. at - 1) <= sum
          BY <4>1 DEF TypeOK, CreatorOK, WaitReads
        <4>3. SumFunctionOnSet(ctr, 0 .. at) <= sum + ctr[at] /\ ctr[at] \in Int
              /\ SumFunctionOnSet(ctr, 0 .. at) \in Int
          BY <4>1, <4>2, CtrRead
        <4>4. 0 .. at = Ctrs
          BY <4>1, Indices
        <4>5. SumFunctionOnSet(ctr, Ctrs) <= 0
          BY <4>1, <4>2, <4>3, <4>4
        <4>6. Quiet
          BY <4>5, NothingCounted
        <4> QED
          BY <2>1, <2>2, <4>6 DEF QuietWhenOver, Quiet, WaitRead, worker, shared
      <3>2. CASE mpc' # "stop"
        BY <2>1, <2>2, <3>2 DEF QuietWhenOver, Quiet, WaitRead, worker, shared
      <3> QED
        BY <3>1, <3>2
    <2>3. CASE StartWorker
      <3>1. Quiet /\ UNCHANGED ring
        BY <2>3 DEF QuietWhenOver, StartWorker
      <3>2. \A w \in Workers : pc'[w] \notin Busy
        BY <2>3, <3>1 DEF StartWorker, Go, Quiet, Busy, TypeOK, WorkersOK
      <3> QED
        BY <2>1, <3>1, <3>2 DEF QuietWhenOver, Quiet
    <2>4. CASE SubmitCount \/ SubmitPush \/ SetProfile \/ Rouse \/ RouseSignal
      <3>1. ~stop' /\ mpc' \notin {"alloc", "parts", "start", "stop", "gone"}
        BY <2>4 DEF SubmitCount, SubmitPush, SetProfile, Rouse, RouseSignal, Op, Main, Places, CreatorKnown
      <3> QED
        BY <3>1 DEF QuietWhenOver
    <2>5. CASE Alloc \/ Parts \/ StartMonitor \/ Destroy \/ DestroyStop \/ WakeMonitor \/ JoinMonitor
               \/ WakeWorker \/ JoinWorker \/ Free
      <3>1. UNCHANGED <<ring, pc>>
        BY <2>5 DEF Alloc, Parts, StartMonitor, Destroy, DestroyStop, WakeMonitor, JoinMonitor,
                    WakeWorker, JoinWorker, Free, worker, shared
      <3>2. mpc' \in {"alloc", "parts", "start", "stop", "gone"} \/ stop'
                => mpc \in {"alloc", "parts", "start", "stop", "gone"} \/ stop
        BY <2>5 DEF Alloc, Parts, StartMonitor, Destroy, DestroyStop, WakeMonitor, JoinMonitor,
                    WakeWorker, JoinWorker, Free, Main, shared, Places, CreatorKnown
      <3> QED
        BY <2>1, <3>1, <3>2 DEF QuietWhenOver, Quiet
    <2> QED
      BY <1>1, <2>2, <2>3, <2>4, <2>5 DEF Creator
  <1>2. ASSUME NEW w \in Workers, Turn(w) PROVE QuietWhenOver'
    <2>1. UNCHANGED <<mpc, stop>>
      BY <1>2, WorkerFrame DEF TypeOK
    <2>2. CASE Quiet
      <3>1. ~Take(w) /\ ~Begin(w) /\ ~End(w) /\ ~Count(w)
        BY <2>2 DEF Quiet, Busy, Take, Begin, End, Count, Go
      <3>2. UNCHANGED <<ring, pend>> /\ \E to \in {"exit", "park", "prepare", "test", "sleep", "woke",
                                                    "top", "active"} : pc' = [pc EXCEPT ![w] = to]
        BY <1>2, <3>1 DEF Turn, Worker, Leave, ElasticWorker, ElasticTop, ElasticPark, ElasticPrepare,
             ElasticSleep, ElasticWoken, ElasticTimeout, ElasticAwake, ElasticRetire, Go, Moves, shared
      <3>3. \A v \in Workers : pc'[v] \notin Busy
        BY <2>2, <3>2 DEF Quiet, Busy, TypeOK, WorkersOK
      <3> QED
        BY <2>2, <3>2, <3>3 DEF QuietWhenOver, Quiet
    <2> QED
      BY <2>1, <2>2 DEF QuietWhenOver
  <1>3. CASE Monitor \/ UNCHANGED vars
    <2>1. UNCHANGED <<mpc, stop, ring, pend, pc>>
      BY <1>3, MonitorFrame DEF vars, creator, worker, shared
    <2> QED
      BY <2>1 DEF QuietWhenOver, Quiet
  <1> QED
    BY <1>1, <1>2, <1>3, Steps

(* What is counted is where it should be. *)
LEMMA CountersNext == ASSUME Counted, TypeOK', [Next]_vars PROVE CountersExact'
  <1> USE DEF Counted
  <1>0. Len(ring) \in Nat /\ Len(ring') \in Nat /\ SumFunctionOnSet(Load, Workers) \in Int
    <2>1. IsFiniteSet(Workers) /\ \A w \in Workers : Load[w] \in Nat
      BY Indices, LoadType
    <2>2. SumFunctionOnSet(Load, Workers) \in Nat
      BY <2>1, SumOfNat
    <2> QED
      BY <2>2 DEF TypeOK, PoolOK
  <1>1. CASE Creator
    <2>1. Load' = Load
      <3>1. \A w \in Workers : pend'[w] = pend[w] /\ (pc'[w] \in Busy <=> pc[w] \in Busy)
        <4>1. UNCHANGED pend
          BY <1>1, CreatorFrame
        <4>2. CASE StartWorker
          BY <4>1, <4>2 DEF StartWorker, Go, Busy, TypeOK, WorkersOK
        <4>3. CASE ~StartWorker
          <5>1. UNCHANGED pc
            BY <1>1, <4>3 DEF Creator, Alloc, Parts, StartMonitor, SubmitCount, SubmitPush, SetProfile,
                 Rouse, RouseSignal, Destroy, WaitRead, DestroyStop, WakeMonitor, JoinMonitor,
                 WakeWorker, JoinWorker, Free, Op, worker
          <5> QED
            BY <4>1, <5>1
        <4> QED
          BY <4>2, <4>3
      <3> QED
        BY <3>1, LoadSame
    <2>2. CASE SubmitCount
      <3>1. SumFunctionOnSet(ctr', Ctrs) = SumFunctionOnSet(ctr, Ctrs) + 1 /\ SumFunctionOnSet(ctr, Ctrs) \in Int
        <4>1. ctr' = [ctr EXCEPT ![0] = @ + 1] /\ 0 \in Ctrs /\ 1 \in {1, -1}
          BY <2>2, Sizes DEF SubmitCount, Ctrs
        <4> QED
          BY <4>1, CtrMoves
      <3>2. mpc = "up" /\ mpc' = "push" /\ UNCHANGED ring
        BY <2>2 DEF SubmitCount, Op, Main
      <3> QED
        BY <1>0, <2>1, <3>1, <3>2 DEF CountersExact
    <2>3. CASE SubmitPush
      <3>1. Len(ring') = Len(ring) + 1 /\ mpc = "push" /\ mpc' = "rouse" /\ UNCHANGED ctr
        BY <2>3 DEF SubmitPush, Op, Main, TypeOK, PoolOK
      <3> QED
        BY <1>0, <2>1, <3>1 DEF CountersExact
    <2>4. CASE ~SubmitCount /\ ~SubmitPush
      <3>1. UNCHANGED <<ring, ctr>> /\ mpc # "push" /\ mpc' # "push"
        BY <1>1, <2>4 DEF Creator, Alloc, Parts, StartWorker, StartMonitor, SetProfile, Rouse,
             RouseSignal, Destroy, WaitRead, DestroyStop, WakeMonitor, JoinMonitor, WakeWorker,
             JoinWorker, Free, Op, Main, shared
      <3> QED
        BY <2>1, <3>1 DEF CountersExact
    <2> QED
      BY <2>2, <2>3, <2>4
  <1>2. ASSUME NEW w \in Workers, Turn(w) PROVE CountersExact'
    <2>1. UNCHANGED mpc /\ \A v \in Workers \ {w} : pend'[v] = pend[v] /\ pc'[v] = pc[v]
      BY <1>2, WorkerFrame DEF TypeOK
    <2>2. /\ SumFunctionOnSet(Load', Workers) = SumFunctionOnSet(Load, Workers) + (Load'[w] - Load[w])
          /\ Load[w] = Len(pend[w]) + (IF pc[w] \in Busy THEN 1 ELSE 0) /\ Load[w] \in Nat
          /\ Load'[w] = Len(pend'[w]) + (IF pc'[w] \in Busy THEN 1 ELSE 0) /\ Load'[w] \in Nat
      BY <2>1, LoadMoves
    <2>3. Len(pend[w]) \in Nat /\ Len(pend'[w]) \in Nat
      BY DEF TypeOK, WorkersOK
    <2>a. ASSUME pc[w] \notin Busy PROVE Load[w] = Len(pend[w])
      BY <2>2, <2>3, <2>a
    <2>b. ASSUME pc[w] \in Busy PROVE Load[w] = Len(pend[w]) + 1
      BY <2>2, <2>3, <2>b
    <2>c. ASSUME pc'[w] \notin Busy PROVE Load'[w] = Len(pend'[w])
      BY <2>2, <2>3, <2>c
    <2>d. ASSUME pc'[w] \in Busy PROVE Load'[w] = Len(pend'[w]) + 1
      BY <2>2, <2>3, <2>d
    <2>e. SumFunctionOnSet(Load', Workers) = SumFunctionOnSet(Load, Workers) + (Load'[w] - Load[w])
      BY <2>2
    <2>f. SumFunctionOnSet(ctr, Ctrs)
            = Len(ring) + (IF mpc = "push" THEN 1 ELSE 0) + SumFunctionOnSet(Load, Workers)
      BY DEF CountersExact
    <2>g. (mpc' = "push") = (mpc = "push")
      BY <2>1
    <2>4. CASE Take(w)
      <3>1. UNCHANGED ctr /\ pc[w] \notin Busy /\ pc'[w] \in Busy
        BY <2>4 DEF Take, Busy, TypeOK, WorkersOK
      <3>2. Len(ring') + Len(pend'[w]) + 1 = Len(ring) + Len(pend[w])
        <4>1. CASE pend[w] # <<>> /\ pend' = [pend EXCEPT ![w] = Tail(@)] /\ UNCHANGED ring
          <5>1. pend'[w] = Tail(pend[w]) /\ pend[w] \in Seq(Tasks)
            BY <4>1 DEF TypeOK, WorkersOK
          <5>2. ASSUME NEW s \in Seq(Tasks), s # <<>> PROVE Len(Tail(s)) + 1 = Len(s)
            BY <5>2
          <5>3. Len(pend'[w]) + 1 = Len(pend[w]) /\ Len(ring') = Len(ring)
            BY <4>1, <5>1, <5>2
          <5> QED
            BY <1>0, <2>3, <5>3
        <4>2. ASSUME NEW n, n = IF Len(ring) < Batch THEN Len(ring) ELSE Batch,
                     pend[w] = <<>>, n > 0, pend' = [pend EXCEPT ![w] = SubSeq(ring, 2, n)],
                     ring' = SubSeq(ring, n + 1, Len(ring))
              PROVE  Len(ring') + Len(pend'[w]) + 1 = Len(ring) + Len(pend[w])
          <5>1. /\ pend'[w] = SubSeq(ring, 2, n) /\ ring \in Seq(Tasks) /\ Len(pend[w]) = 0
                /\ n \in Nat /\ n <= Len(ring)
            BY <1>0, <4>2, Sizes DEF TypeOK, WorkersOK, PoolOK
          <5>2. Len(SubSeq(ring, 2, n)) = n - 1 /\ Len(SubSeq(ring, n + 1, Len(ring))) = Len(ring) - n
            BY SMTT(20), <1>0, <4>2, <5>1
          <5>3. Len(pend'[w]) = n - 1 /\ Len(ring') = Len(ring) - n
            BY <4>2, <5>1, <5>2
          <5> HIDE <4>2, <5>2
          <5> QED
            BY <1>0, <5>1, <5>3
        <4> QED
          BY <2>4, <4>1, <4>2 DEF Take
      <3>3. Load[w] = Len(pend[w]) /\ Load'[w] = Len(pend'[w]) + 1
        BY <3>1, <2>a, <2>d
      <3>4. Load'[w] - Load[w] = Len(ring) - Len(ring')
        BY <1>0, <2>3, <3>2, <3>3
      <3>5. SumFunctionOnSet(Load', Workers) = SumFunctionOnSet(Load, Workers) + (Len(ring) - Len(ring'))
        BY <2>e, <3>4
      <3> QED
        BY <1>0, <2>f, <2>g, <3>1, <3>5 DEF CountersExact
    <2>5. CASE Count(w)
      <3>1. SumFunctionOnSet(ctr', Ctrs) = SumFunctionOnSet(ctr, Ctrs) - 1 /\ SumFunctionOnSet(ctr, Ctrs) \in Int
        <4>1. ctr' = [ctr EXCEPT ![w] = @ + (-1)] /\ w \in Ctrs
          BY <2>5, Indices DEF Count, TypeOK, PoolOK
        <4>2. SumFunctionOnSet(ctr', Ctrs) = SumFunctionOnSet(ctr, Ctrs) + (-1)
              /\ SumFunctionOnSet(ctr, Ctrs) \in Int
          BY <4>1, CtrMoves
        <4> QED
          BY <4>2
      <3>2. pc[w] \in Busy /\ pc'[w] \notin Busy /\ UNCHANGED <<pend, ring>>
        BY <2>5 DEF Count, Go, Busy, TypeOK, WorkersOK
      <3>3. Load[w] = Len(pend[w]) + 1 /\ Load'[w] = Len(pend'[w]) /\ pend' = pend
        BY <3>2, <2>b, <2>c
      <3>4. SumFunctionOnSet(Load', Workers) = SumFunctionOnSet(Load, Workers) - 1
        BY <1>0, <2>3, <2>e, <3>3
      <3> QED
        BY <1>0, <2>f, <2>g, <3>1, <3>2, <3>4 DEF CountersExact
    <2>6. CASE ~Take(w) /\ ~Count(w)
      <3>1. UNCHANGED <<ctr, ring, pend>> /\ (pc'[w] \in Busy <=> pc[w] \in Busy)
        BY <1>2, <2>6 DEF Turn, Worker, Begin, End, Leave, ElasticWorker, ElasticTop, ElasticPark,
             ElasticPrepare, ElasticSleep, ElasticWoken, ElasticTimeout, ElasticAwake, ElasticRetire,
             Go, Work, Moves, shared, Busy, TypeOK, WorkersOK
      <3>2. Load' = Load
        BY <2>1, <3>1, LoadSame
      <3> QED
        BY <2>1, <3>1, <3>2 DEF CountersExact
    <2> QED
      BY <2>4, <2>5, <2>6
  <1>3. CASE Monitor \/ UNCHANGED vars
    <2>1. UNCHANGED <<mpc, ctr, ring, pend, pc>>
      BY <1>3, MonitorFrame DEF vars, creator, worker, shared
    <2> QED
      BY <2>1, LoadSame DEF CountersExact
  <1> QED
    BY <1>1, <1>2, <1>3, Steps

(* Nothing has been read of none. *)
LEMMA SumOfNone == ASSUME NEW f PROVE SumFunctionOnSet(f, 0 .. 0 - 1) = 0
  <1>1. 0 .. 0 - 1 = {}
    OBVIOUS
  <1>2. IsFiniteSet({}) /\ \A x \in {} : f[x] = 0
    BY FS_EmptySet
  <1>3. SumFunctionOnSet(f, {}) = 0
    BY <1>2, SumZero
  <1> QED
    BY <1>1, <1>3

(* A worker raises no counter. *)
LEMMA CountersFall ==
    ASSUME TypeOK, NEW w \in Workers, Turn(w)
    PROVE  \A c \in Ctrs : ctr'[c] <= ctr[c]
  <1>1. ctr \in [Ctrs -> Int]
    BY DEF TypeOK, PoolOK
  <1>2. CASE Count(w)
    BY <1>1, <1>2 DEF Count
  <1>3. CASE ~Count(w)
    <2>1. UNCHANGED ctr
      BY <1>3 DEF Turn, Worker, Take, Begin, End, Leave, ElasticWorker, ElasticTop, ElasticPark,
             ElasticPrepare, ElasticSleep, ElasticWoken, ElasticTimeout, ElasticAwake, ElasticRetire,
             Work, Moves, shared
    <2> QED
      BY <1>1, <2>1
  <1> QED
    BY <1>2, <1>3

(* A sum read so far stays a bound when a worker moves. *)
LEMMA ReadStays ==
    ASSUME TypeOK, TypeOK', NEW w \in Workers, Turn(w), NEW m \in Ctrs, NEW s \in Int,
           SumFunctionOnSet(ctr, 0 .. m - 1) <= s
    PROVE  SumFunctionOnSet(ctr', 0 .. m - 1) <= s
  <1>1. m \in Nat /\ 0 .. m - 1 \subseteq Ctrs
    BY Indices
  <1>2. \A c \in 0 .. m - 1 : c \in Ctrs /\ ctr'[c] <= ctr[c]
    BY <1>1, CountersFall
  <1> QED
    BY <1>1, <1>2, CtrFalls

(* The creator waits from the first counter on. *)
LEMMA WaitNext == ASSUME Counted, TypeOK', [Next]_vars PROVE WaitReads'
  <1> USE DEF Counted
  <1> SUFFICES ASSUME mpc' = "wait" PROVE SumFunctionOnSet(ctr', 0 .. at' - 1) <= sum'
    BY DEF WaitReads
  <1>1. CASE Creator
    <2>1. CASE at' = 0 /\ sum' = 0
      <3>1. SumFunctionOnSet(ctr', 0 .. 0 - 1) = 0
        BY SumOfNone
      <3> QED
        BY <2>1, <3>1
    <2>2. CASE WaitRead /\ "ctrs" \in have /\ at + 1 \in Ctrs
      <3>1. at \in Ctrs /\ sum \in Int /\ SumFunctionOnSet(ctr, 0 .. at - 1) <= sum
        BY <2>2 DEF WaitRead, Places, CreatorKnown, WaitReads, TypeOK, CreatorOK
      <3>2. SumFunctionOnSet(ctr, 0 .. at) <= sum + ctr[at]
        BY <3>1, CtrRead
      <3>3. at' = at + 1 /\ sum' = sum + ctr[at] /\ UNCHANGED ctr /\ at' - 1 = at
        BY <2>2, <3>1, Indices DEF WaitRead, shared
      <3> QED
        BY <3>2, <3>3
    <2>3. (at' = 0 /\ sum' = 0) \/ (WaitRead /\ "ctrs" \in have /\ at + 1 \in Ctrs)
      <3>1. CASE WaitRead
        BY <3>1 DEF WaitRead
      <3>2. CASE ~WaitRead
        BY <1>1, <3>2 DEF Creator, Alloc, Parts, StartWorker, StartMonitor, SubmitCount, SubmitPush,
             SetProfile, Rouse, RouseSignal, Destroy, DestroyStop, WakeMonitor, JoinMonitor, WakeWorker,
             JoinWorker, Free, Op, Main, Places, CreatorKnown
      <3> QED
        BY <3>1, <3>2
    <2> QED
      BY <2>1, <2>2, <2>3
  <1>2. ASSUME NEW w \in Workers, Turn(w) PROVE SumFunctionOnSet(ctr', 0 .. at' - 1) <= sum'
    <2>1. mpc = "wait" /\ UNCHANGED <<at, sum>>
      BY <1>2, WorkerFrame DEF TypeOK
    <2>2. at \in Ctrs /\ sum \in Int /\ SumFunctionOnSet(ctr, 0 .. at - 1) <= sum
      BY <2>1 DEF Places, CreatorKnown, WaitReads, TypeOK, CreatorOK
    <2> QED
      BY <1>2, <2>1, <2>2, ReadStays
  <1>3. CASE Monitor \/ UNCHANGED vars
    <2>1. UNCHANGED <<mpc, at, sum, ctr>>
      BY <1>3, MonitorFrame DEF vars, creator, shared
    <2> QED
      BY <2>1 DEF WaitReads
  <1> QED
    BY <1>1, <1>2, <1>3, Steps

-----------------------------------------------------------------------------
(* The long sleep. *)

Watched == Counted /\ Announced /\ RetestReads /\ NoLongSleepWithWork

(* Submitting and changing the profile. *)
Using == SubmitCount \/ SubmitPush \/ SetProfile \/ Rouse \/ RouseSignal

(* What else the creator does leaves the announcement and the counters alone, *)
(* unless it wakes the monitor.                                               *)
LEMMA NotUsing ==
    ASSUME Creator, ~Using, mon' # "begin"
    PROVE  /\ UNCHANGED <<mon, mon_dormindo, ctr>> /\ mpc \notin {"push", "rouse", "signal"}
           /\ mon_signal' \/ UNCHANGED mon_signal
  BY DEF Using, Creator, Alloc, Parts, StartWorker, StartMonitor, Destroy, WaitRead, DestroyStop,
         WakeMonitor, JoinMonitor, WakeWorker, JoinWorker, Free, Main, Mon, monitor, shared

(* A submit or a change of profile that is not over will wake the monitor. *)
LEMMA UsingWakes ==
    ASSUME TypeOK, Announced, Using, mon = "retest" \/ (mon = "sleep" /\ long),
           ~mon_signal', mpc' \notin {"push", "rouse", "signal"}
    PROVE  UNCHANGED ctr /\ mpc = "up" /\ UNCHANGED mon_signal
  <1>1. mon_dormindo \/ mpc = "signal" \/ mon_signal
    BY Zenon DEF Announced
  <1>2. CASE Rouse
    <2>1. mpc = "rouse" /\ mpc' = (IF mon_dormindo THEN "signal" ELSE "up") /\ UNCHANGED mon_signal
      BY <1>2 DEF Rouse, Op, Main
    <2> QED
      BY <1>1, <2>1
  <1>3. CASE SetProfile
    BY <1>3 DEF SetProfile, Op, Main
  <1>4. ~SubmitCount /\ ~SubmitPush /\ ~RouseSignal
    BY DEF SubmitCount, SubmitPush, RouseSignal, Op, Main
  <1> QED
    BY <1>2, <1>3, <1>4 DEF Using

(* Where the monitor comes to the re-test and the long sleep from. *)
LEMMA MonitorRetests ==
    ASSUME Monitor, MonitorKnown
    PROVE  /\ mon' = "retest" => MonAnnounce \/ (MonRead /\ mon = "retest")
           /\ mon' = "sleep" /\ long' => MonIdle
           /\ UNCHANGED mon_signal \/ ~(mon' = "retest" \/ (mon' = "sleep" /\ long'))
  <1>1. mon' = "retest" => MonAnnounce \/ (MonRead /\ mon = "retest")
    BY DEF Monitor, MonPrepare, MonTop, MonRead, MonPending, MonCount, MonAnnounce, MonIdle, MonBusy,
           MonUnannounce, MonSleep, MonTimer, MonWorkAgain, MonRestore, MonLook, MonJudge, Judge,
           MonBacklog, Backlog, MonClaim, MonWake, MonRoundEnd, Step, Mon, Last
  <1>2. mon' = "sleep" => MonIdle \/ MonTop \/ MonPending \/ MonUnannounce
    BY DEF Monitor, MonPrepare, MonTop, MonRead, MonPending, MonCount, MonAnnounce, MonIdle, MonBusy,
           MonUnannounce, MonSleep, MonTimer, MonWorkAgain, MonRestore, MonLook, MonJudge, Judge,
           MonBacklog, Backlog, MonClaim, MonWake, MonRoundEnd, Step, Mon, Last
  <1>3. MonTop \/ MonPending \/ MonUnannounce => mon # "sleep" /\ UNCHANGED long
    BY DEF MonTop, MonPending, MonUnannounce, Last, Step, Mon, Locals
  <1>4. long => mon = "sleep"
    BY DEF MonitorKnown
  <1>5. mon' = "sleep" /\ long' => MonIdle
    BY <1>2, <1>3, <1>4
  <1>6. MonAnnounce \/ MonRead \/ MonIdle => UNCHANGED mon_signal
    BY DEF MonAnnounce, MonRead, MonIdle, Quietly
  <1> QED
    BY <1>1, <1>5, <1>6

(* The announcement is taken back by its owner or by who wakes it. *)
LEMMA AnnouncedNext == ASSUME Watched, TypeOK', [Next]_vars PROVE Announced'
  <1> USE DEF Watched, Counted
  <1> SUFFICES ASSUME mon' = "retest" \/ (mon' = "sleep" /\ long')
               PROVE  mon_dormindo' \/ mpc' = "signal" \/ mon_signal'
    BY DEF Announced
  <1>1. CASE Creator
    <2>1. UNCHANGED <<mon, long>>
      <3>1. UNCHANGED long
        BY <1>1, CreatorFrame
      <3>2. UNCHANGED mon \/ mon' = "begin"
        BY <1>1 DEF Creator, Alloc, Parts, StartWorker, StartMonitor, SubmitCount, SubmitPush, SetProfile,
             Rouse, RouseSignal, Destroy, WaitRead, DestroyStop, WakeMonitor, JoinMonitor, WakeWorker,
             JoinWorker, Free, Op, Mon, monitor
      <3> QED
        BY <3>1, <3>2
    <2>2. mon_dormindo \/ mpc = "signal" \/ mon_signal
      BY <2>1, Zenon DEF Announced
    <2>3. CASE ~Using
      <3>1. UNCHANGED mon_dormindo /\ mpc # "signal" /\ (mon_signal' \/ UNCHANGED mon_signal)
        BY <1>1, <2>3, NotUsing
      <3> QED
        BY <2>2, <3>1
    <2>4. CASE SubmitCount \/ SubmitPush \/ SetProfile
      <3>1. mpc # "signal" /\ UNCHANGED <<mon_dormindo, mon_signal>>
        BY <2>4 DEF SubmitCount, SubmitPush, SetProfile, Op, Main
      <3> QED
        BY <2>2, <3>1
    <2>5. CASE Rouse
      <3>1. mpc = "rouse" /\ mpc' = (IF mon_dormindo THEN "signal" ELSE "up") /\ UNCHANGED mon_signal
        BY <2>5 DEF Rouse, Op, Main
      <3> QED
        BY <2>2, <3>1
    <2>6. CASE RouseSignal
      BY <2>6 DEF RouseSignal
    <2> QED
      BY <2>3, <2>4, <2>5, <2>6 DEF Using
  <1>2. ASSUME NEW w \in Workers, Turn(w) PROVE mon_dormindo' \/ mpc' = "signal" \/ mon_signal'
    <2>1. UNCHANGED <<mon, long, mon_dormindo, mpc, mon_signal>>
      BY <1>2, WorkerFrame DEF TypeOK
    <2> QED
      BY <2>1 DEF Announced
  <1>3. CASE Monitor
    <2>1. CASE MonAnnounce
      BY <2>1 DEF MonAnnounce
    <2>2. CASE MonRead /\ mon = "retest"
      <3>1. UNCHANGED <<mon_dormindo, mon_signal, mpc>>
        BY <1>3, <2>2, MonitorFrame DEF MonRead, Quietly
      <3> QED
        BY <2>2, <3>1 DEF Announced
    <2>3. CASE MonIdle
      <3>1. mon = "retest" /\ UNCHANGED <<mon_dormindo, mon_signal, mpc>>
        BY <1>3, <2>3, MonitorFrame DEF MonIdle, Last, Step, Mon
      <3> QED
        BY <3>1 DEF Announced
    <2> QED
      BY <1>3, <2>1, <2>2, <2>3, MonitorRetests DEF Places
  <1>4. CASE UNCHANGED vars
    BY <1>4 DEF vars, monitor, creator, Announced
  <1> QED
    BY <1>1, <1>2, <1>3, <1>4, Steps

(* What is read after the announcement bounds what nobody announced. *)
LEMMA RetestNext == ASSUME Watched, TypeOK', [Next]_vars PROVE RetestReads'
  <1> USE DEF Watched, Counted
  <1> SUFFICES ASSUME mon' = "retest", ~mon_signal', mpc' \notin {"push", "rouse", "signal"}
               PROVE  SumFunctionOnSet(ctr', 0 .. mi' - 1) <= msum'
    BY DEF RetestReads
  <1>1. CASE Creator
    <2>1. UNCHANGED <<mi, msum, mon>>
      <3>1. UNCHANGED <<mi, msum>>
        BY <1>1, CreatorFrame
      <3>2. CASE Using
        BY <3>1, <3>2 DEF Using, SubmitCount, SubmitPush, SetProfile, Rouse, RouseSignal, Op
      <3> QED
        BY <1>1, <3>1, <3>2, NotUsing
    <2>2. UNCHANGED ctr /\ ~mon_signal /\ mpc \notin {"push", "rouse", "signal"}
      <3>1. CASE Using
        BY <2>1, <3>1, UsingWakes
      <3>2. CASE ~Using
        BY <1>1, <3>2, NotUsing
      <3> QED
        BY <3>1, <3>2
    <2> QED
      BY <2>1, <2>2 DEF RetestReads
  <1>2. ASSUME NEW w \in Workers, Turn(w) PROVE SumFunctionOnSet(ctr', 0 .. mi' - 1) <= msum'
    <2>1. UNCHANGED <<mon, mi, msum, mon_signal, mpc>>
      BY <1>2, WorkerFrame DEF TypeOK
    <2>2. mi \in Ctrs /\ msum \in Int /\ SumFunctionOnSet(ctr, 0 .. mi - 1) <= msum
      BY <2>1 DEF Places, MonitorKnown, RetestReads, TypeOK, MonitorOK
    <2> QED
      BY <1>2, <2>1, <2>2, ReadStays
  <1>3. CASE Monitor
    <2>0. UNCHANGED <<ctr, mpc, mon_signal>>
      BY <1>3, MonitorFrame, MonitorRetests DEF Places
    <2>1. CASE MonAnnounce
      <3>1. mi' = 0 /\ msum' = 0
        BY <2>1 DEF MonAnnounce, Step, Mon, Locals, Places, MonitorKnown
      <3>2. SumFunctionOnSet(ctr', 0 .. 0 - 1) = 0
        BY SumOfNone
      <3> QED
        BY <3>1, <3>2
    <2>2. CASE MonRead /\ mon = "retest"
      <3>1. mi \in Ctrs /\ msum \in Int /\ SumFunctionOnSet(ctr, 0 .. mi - 1) <= msum
        BY <2>0, <2>2 DEF Places, MonitorKnown, RetestReads, TypeOK, MonitorOK
      <3>2. SumFunctionOnSet(ctr, 0 .. mi) <= msum + ctr[mi]
        BY <3>1, CtrRead
      <3>3. mi' = mi + 1 /\ msum' = msum + ctr[mi] /\ mi' - 1 = mi
        BY <2>2, <3>1, Indices DEF MonRead
      <3> QED
        BY <2>0, <3>2, <3>3
    <2> QED
      BY <1>3, <2>1, <2>2, MonitorRetests DEF Places
  <1>4. CASE UNCHANGED vars
    BY <1>4 DEF vars, monitor, creator, shared, RetestReads
  <1> QED
    BY <1>1, <1>2, <1>3, <1>4, Steps

(* Nothing was there, and nothing comes without waking it. *)
LEMMA AsleepNext == ASSUME Watched, TypeOK', [Next]_vars PROVE NoLongSleepWithWork'
  <1> USE DEF Watched, Counted
  <1> SUFFICES ASSUME mon' = "sleep", long', ~mon_signal', mpc' \notin {"push", "rouse", "signal"}
               PROVE  SumFunctionOnSet(ctr', Ctrs) = 0
    BY DEF NoLongSleepWithWork
  <1>1. CASE Creator
    <2>1. UNCHANGED <<long, mon>>
      <3>1. UNCHANGED long
        BY <1>1, CreatorFrame
      <3>2. CASE Using
        BY <3>1, <3>2 DEF Using, SubmitCount, SubmitPush, SetProfile, Rouse, RouseSignal, Op
      <3> QED
        BY <1>1, <3>1, <3>2, NotUsing
    <2>2. UNCHANGED ctr /\ ~mon_signal /\ mpc \notin {"push", "rouse", "signal"}
      <3>1. CASE Using
        BY <2>1, <3>1, UsingWakes
      <3>2. CASE ~Using
        BY <1>1, <3>2, NotUsing
      <3> QED
        BY <3>1, <3>2
    <2> QED
      BY <2>1, <2>2 DEF NoLongSleepWithWork
  <1>2. ASSUME NEW w \in Workers, Turn(w) PROVE SumFunctionOnSet(ctr', Ctrs) = 0
    <2>1. UNCHANGED <<mon, long, mon_signal, mpc>>
      BY <1>2, WorkerFrame DEF TypeOK
    <2>2. SumFunctionOnSet(ctr, Ctrs) = 0
      BY <2>1 DEF NoLongSleepWithWork
    <2>3. Quiet
      BY <2>2, NothingCounted
    <2>4. UNCHANGED ctr
      BY <1>2, <2>3 DEF Quiet, Busy, Count, Go, Turn, Worker, Take, Begin, End, Leave, ElasticWorker,
             ElasticTop, ElasticPark, ElasticPrepare, ElasticSleep, ElasticWoken, ElasticTimeout,
             ElasticAwake, ElasticRetire, Work, Moves, shared
    <2> QED
      BY <2>2, <2>4
  <1>3. CASE Monitor
    <2>1. MonIdle /\ UNCHANGED <<mon_signal, mpc, ctr>>
      BY <1>3, MonitorFrame, MonitorRetests DEF Places
    <2>2. mon = "retest" /\ mi + 1 \notin Ctrs /\ msum + ctr[mi] = 0
      BY <2>1 DEF MonIdle, Last, Step, Mon, Total
    <2>3. mi \in Ctrs /\ msum \in Int /\ SumFunctionOnSet(ctr, 0 .. mi - 1) <= msum
      BY <2>1, <2>2 DEF Places, MonitorKnown, RetestReads, TypeOK, MonitorOK
    <2>4. SumFunctionOnSet(ctr, 0 .. mi) <= msum + ctr[mi]
      BY <2>3, CtrRead
    <2>5. 0 .. mi = Ctrs
      BY <2>2, <2>3, Indices
    <2>6. SumFunctionOnSet(ctr, Ctrs) <= 0
      BY <2>2, <2>4, <2>5
    <2> QED
      BY <2>1, <2>6, NothingCounted
  <1>4. CASE UNCHANGED vars
    BY <1>4 DEF vars, monitor, creator, shared, NoLongSleepWithWork
  <1> QED
    BY <1>1, <1>2, <1>3, <1>4, Steps

-----------------------------------------------------------------------------
(* Starts. *)

(* What the monitor read of a worker stays true until the worker begins a task. *)
LEMMA StartsNext == ASSUME TypeOK, TypeOK', Places, StartsKnown, [Next]_vars PROVE StartsKnown'
  <1>0. /\ \A v \in Base : v \in Workers /\ start_count[v] \in Nat /\ mon_last[v] \in Nat
        /\ msc \in Nat
    BY Indices DEF TypeOK, WorkersOK, MonitorOK
  <1>1. CASE Creator
    <2>1. UNCHANGED <<start_count, mon_last, msc, mi, same>>
      BY <1>1, CreatorFrame
    <2>2. mon' \in {mon, "begin"}
      BY <1>1 DEF Creator, Alloc, Parts, StartWorker, StartMonitor, SubmitCount, SubmitPush, SetProfile,
             Rouse, RouseSignal, Destroy, WaitRead, DestroyStop, WakeMonitor, JoinMonitor, WakeWorker,
             JoinWorker, Free, Op, Mon, monitor
    <2>3. \A v \in Workers : pc'[v] = "run" => pc[v] = "run"
      BY <1>1 DEF Creator, Alloc, Parts, StartWorker, StartMonitor, SubmitCount, SubmitPush, SetProfile,
             Rouse, RouseSignal, Destroy, WaitRead, DestroyStop, WakeMonitor, JoinMonitor, WakeWorker,
             JoinWorker, Free, Op, Go, worker, TypeOK, WorkersOK
    <2> QED
      BY <1>0, <2>1, <2>2, <2>3 DEF StartsKnown
  <1>2. ASSUME NEW w \in Workers, Turn(w) PROVE StartsKnown'
    <2>1. /\ UNCHANGED <<mon, mon_last, msc, mi>>
          /\ \A v \in Workers \ {w} : pc'[v] = pc[v] /\ start_count'[v] = start_count[v]
      BY <1>2, WorkerFrame DEF TypeOK
    <2>2. mon = "judge" => mi + 1 \in Base
      BY DEF Places, MonitorKnown
    <2>3. CASE Begin(w)
      <3>1. start_count'[w] = start_count[w] + 1 /\ start_count[w] \in Nat /\ UNCHANGED same
        BY <2>3 DEF Begin, Work, monitor, TypeOK, WorkersOK
      <3>2. \A v \in Base : mon_last[v] <= start_count'[v] /\ (v = w => start_count'[v] # mon_last[v])
        BY <1>0, <2>1, <3>1 DEF StartsKnown
      <3>3. mon = "judge" => msc <= start_count'[mi + 1]
        BY <1>0, <2>1, <2>2, <3>1 DEF StartsKnown
      <3>4. \A v \in Base : pc'[v] = "run" /\ start_count'[v] = mon_last[v] => v \in same
        BY <1>0, <2>1, <3>2 DEF StartsKnown
      <3> QED
        BY <2>1, <3>1, <3>2, <3>3, <3>4 DEF StartsKnown
    <2>4. CASE ~Begin(w)
      <3>1. UNCHANGED start_count /\ pc'[w] # "run" /\ (\A v \in same : v # w => v \in same')
        BY <1>2, <2>4 DEF Turn, Worker, Take, End, Count, Leave, ElasticWorker, ElasticTop, ElasticPark,
             ElasticPrepare, ElasticSleep, ElasticWoken, ElasticTimeout, ElasticAwake, ElasticRetire,
             Go, Work, Moves, monitor, TypeOK, WorkersOK
      <3> QED
        BY <1>0, <2>1, <3>1 DEF StartsKnown
    <2> QED
      BY <2>3, <2>4
  <1>3. CASE Monitor
    <2>1. UNCHANGED <<start_count, pc>>
      BY <1>3, MonitorFrame
    <2>2. CASE MonLook
      <3>1. mi + 1 \in Base /\ msc' = start_count[mi + 1] /\ UNCHANGED <<mi, mon_last, same>>
        BY <2>2 DEF MonLook, Step
      <3> QED
        BY <1>0, <2>1, <3>1 DEF StartsKnown
    <2>3. CASE MonJudge
      <3>1. /\ mon = "judge" /\ mon' = "stuck" /\ mi + 1 \in Base
            /\ mon_last' = [mon_last EXCEPT ![mi + 1] = msc]
            /\ same' = IF pc[mi + 1] = "run" /\ start_count[mi + 1] = msc
                       THEN same \cup {mi + 1} ELSE same \ {mi + 1}
        BY <2>3 DEF MonJudge, Judge
      <3>2. mon_last'[mi + 1] = msc /\ \A v \in Base \ {mi + 1} : mon_last'[v] = mon_last[v]
        BY <3>1 DEF TypeOK, MonitorOK
      <3> QED
        BY <2>1, <3>1, <3>2 DEF StartsKnown
    <2>4. CASE ~MonLook /\ ~MonJudge
      <3>1. UNCHANGED <<mon_last, same>> /\ mon' # "judge"
        BY <1>3, <2>4 DEF Monitor, MonPrepare, MonTop, MonRead, MonPending, MonCount, MonAnnounce, MonIdle,
             MonBusy, MonUnannounce, MonSleep, MonTimer, MonWorkAgain, MonRestore,
             MonBacklog, Backlog, MonClaim, MonWake, MonRoundEnd, Step, Mon, Last
      <3> QED
        BY <2>1, <3>1 DEF StartsKnown
    <2> QED
      BY <2>2, <2>3, <2>4
  <1>4. CASE UNCHANGED vars
    BY <1>4 DEF vars, monitor, worker, StartsKnown
  <1> QED
    BY <1>1, <1>2, <1>3, <1>4, Steps

(* A task that starts is one more. *)
LEMMA StartedMoves ==
    ASSUME TypeOK, TypeOK', NEW w \in Workers, Turn(w)
    PROVE  /\ Started \in Int
           /\ IF Begin(w) THEN Started' = Started + 1 /\ worked' ELSE Started' = Started /\ UNCHANGED worked
  <1>1. \A v \in Workers : start_count[v] \in Int /\ start_count'[v] \in Int
    BY DEF TypeOK, WorkersOK
  <1>2. \A v \in Workers \ {w} : start_count'[v] = start_count[v]
    BY WorkerFrame DEF TypeOK
  <1>3. /\ SumFunctionOnSet(start_count', Workers)
             = SumFunctionOnSet(start_count, Workers) + (start_count'[w] - start_count[w])
        /\ SumFunctionOnSet(start_count, Workers) \in Int
    BY <1>1, <1>2, SumOfWorkers
  <1>4. CASE Begin(w)
    <2>1. start_count'[w] - start_count[w] = 1 /\ worked'
      BY <1>4 DEF Begin, TypeOK, WorkersOK
    <2> QED
      BY <1>3, <1>4, <2>1 DEF Started
  <1>5. CASE ~Begin(w)
    <2>1. UNCHANGED <<start_count, worked>>
      BY <1>5 DEF Turn, Worker, Take, End, Count, Leave, ElasticWorker, ElasticTop, ElasticPark,
             ElasticPrepare, ElasticSleep, ElasticWoken, ElasticTimeout, ElasticAwake, ElasticRetire,
             Work, Moves, timer
    <2> QED
      BY <1>3, <1>5, <2>1 DEF Started
  <1> QED
    BY <1>4, <1>5

(* The starts the monitor remembers are from before what it announced. *)
LEMMA IdleNext == ASSUME TypeOK, TypeOK', IdleKnown, [Next]_vars PROVE IdleKnown'
  <1>0. iniciadas \in Nat /\ idle_started \in Nat
    BY DEF TypeOK, PoolOK, MonitorOK
  <1>1. CASE Creator
    <2>1. UNCHANGED <<start_count, iniciadas, idle, idle_started, worked>>
      BY <1>1, CreatorFrame
    <2>2. mon' \in {mon, "begin"}
      BY <1>1 DEF Creator, Alloc, Parts, StartWorker, StartMonitor, SubmitCount, SubmitPush, SetProfile,
             Rouse, RouseSignal, Destroy, WaitRead, DestroyStop, WakeMonitor, JoinMonitor, WakeWorker,
             JoinWorker, Free, Op, Mon, monitor
    <2> QED
      BY <2>1, <2>2 DEF IdleKnown, Started
  <1>2. ASSUME NEW w \in Workers, Turn(w) PROVE IdleKnown'
    <2>1. UNCHANGED <<mon, iniciadas, idle, idle_started>>
      BY <1>2, WorkerFrame DEF TypeOK
    <2>2. /\ Started \in Int
          /\ IF Begin(w) THEN Started' = Started + 1 /\ worked' ELSE Started' = Started /\ UNCHANGED worked
      BY <1>2, StartedMoves
    <2>3. CASE Begin(w)
      BY <1>0, <2>1, <2>2, <2>3 DEF IdleKnown
    <2>4. CASE ~Begin(w)
      BY <2>1, <2>2, <2>4 DEF IdleKnown
    <2> QED
      BY <2>3, <2>4
  <1>3. CASE Monitor
    <2>1. Started' = Started /\ Started \in Int
      <3>1. UNCHANGED start_count
        BY <1>3, MonitorFrame
      <3>2. IsFiniteSet(Workers) /\ \A v \in Workers : start_count[v] \in Int
        BY Indices DEF TypeOK, WorkersOK
      <3>3. SumFunctionOnSet(start_count, Workers) \in Int
        BY <3>2, SumPicked
      <3> QED
        BY <3>1, <3>3 DEF Started
    <2>2. CASE MonCount
      BY <2>1, <2>2 DEF MonCount, Step, Mon, Quietly, timer, IdleKnown
    <2>3. CASE MonPrepare
      BY <2>1, <2>3 DEF MonPrepare, Step, Mon, Locals, timer, IdleKnown
    <2>4. CASE MonAnnounce
      <3>1. mon = "announce" /\ mon' = "retest" /\ UNCHANGED <<iniciadas, idle, idle_started>>
            /\ worked' = (idle /\ worked)
        BY <2>4 DEF MonAnnounce, Step, Mon, Locals
      <3> QED
        BY <2>1, <3>1 DEF IdleKnown
    <2>5. CASE MonRead
      BY <2>1, <2>5 DEF MonRead, Step, Mon, Quietly, timer, IdleKnown
    <2>6. CASE MonIdle
      <3>1. mon = "retest" /\ mon' = "sleep" /\ UNCHANGED worked
        BY <2>6 DEF MonIdle, Last, Step, Mon, timer
      <3>2. (~idle /\ idle' = TRUE /\ idle_started' = iniciadas) \/ (idle /\ UNCHANGED <<idle, idle_started>>)
        BY <2>6 DEF MonIdle, timer
      <3> QED
        BY <2>1, <3>1, <3>2 DEF IdleKnown
    <2>7. CASE MonRestore
      BY <2>7 DEF MonRestore, Step, Mon, IdleKnown
    <2>8. CASE ~MonCount /\ ~MonPrepare /\ ~MonAnnounce /\ ~MonRead /\ ~MonIdle /\ ~MonRestore
      <3>1. UNCHANGED <<idle, idle_started, worked>> /\ mon' \notin {"prepare", "announce", "retest"}
        BY <1>3, <2>8 DEF Monitor, MonTop, MonPending, MonBusy, MonUnannounce, MonSleep, MonTimer,
             MonWorkAgain, MonLook, MonJudge, Judge, MonBacklog, Backlog, MonClaim, MonWake, MonRoundEnd,
             Step, Mon, Last, Quietly, timer
      <3> QED
        BY <2>1, <3>1 DEF IdleKnown
    <2> QED
      BY <2>2, <2>3, <2>4, <2>5, <2>6, <2>7, <2>8
  <1>4. CASE UNCHANGED vars
    BY <1>4 DEF vars, monitor, timer, worker, IdleKnown, Started
  <1> QED
    BY <1>1, <1>2, <1>3, <1>4, Steps

-----------------------------------------------------------------------------
(* The invariant. *)

(* It holds before anything is allocated. *)
LEMMA IInvInit == Init => IInv
  <1> SUFFICES ASSUME Init PROVE IInv
    OBVIOUS
  <1>1. TypeOK
    <2>1. CreatorOK
      BY MonitorAssumption, Sizes DEF Init, CreatorOK, Tasks
    <2>2. PoolOK
      <3>1. ring \in Seq(Tasks) /\ ctr \in [Ctrs -> Int]
        BY DEF Init
      <3>2. stop \in BOOLEAN /\ wait_inited \in BOOLEAN /\ idle \in BOOLEAN /\ worked \in BOOLEAN
        BY DEF Init
      <3>3. perfil \in {"eco", "perf"} /\ users \in {0, 1} /\ idle_started \in Nat
        BY DEF Init
      <3> QED
        BY <3>1, <3>2, <3>3 DEF PoolOK
    <2>3. WorkersOK
      BY Sizes DEF Init, WorkersOK
    <2>4. MonitorOK
      <3>1. mon_last \in [Base -> Nat] /\ same \subseteq Base /\ mon = "none"
        BY DEF Init
      <3>2. mon_signal \in BOOLEAN /\ mon_dormindo \in BOOLEAN /\ long \in BOOLEAN
        BY DEF Init
      <3>3. mi = 0 /\ msum = 0 /\ stuck = 0 /\ msc = 0 /\ iniciadas = 0
        BY DEF Init
      <3> QED
        BY <3>1, <3>2, <3>3, Sizes DEF MonitorOK
    <2> QED
      BY <2>1, <2>2, <2>3, <2>4 DEF TypeOK
  <1>2. Places
    BY DEF Init, Places, CreatorKnown, MonitorKnown, WorkersKnown, InTaskKnown, TimerHeld
  <1>3. QuietWhenOver /\ Quiet
    BY DEF Init, QuietWhenOver, Quiet, Busy
  <1>4. CountersExact
    <2>1. IsFiniteSet(Workers) /\ IsFiniteSet(Ctrs)
      BY Indices
    <2>2. \A w \in Workers : Load[w] = 0
      BY DEF Init, Load, Busy
    <2>3. \A c \in Ctrs : ctr[c] = 0
      BY DEF Init
    <2>4. SumFunctionOnSet(ctr, Ctrs) = 0 /\ SumFunctionOnSet(Load, Workers) = 0
      BY <2>1, <2>2, <2>3, SumZero
    <2>5. Len(ring) = 0 /\ mpc # "push"
      BY DEF Init
    <2> QED
      BY <2>4, <2>5 DEF CountersExact
  <1>5. WaitReads /\ Announced /\ RetestReads /\ NoLongSleepWithWork /\ IdleKnown
    BY DEF Init, WaitReads, Announced, RetestReads, NoLongSleepWithWork, IdleKnown
  <1>6. StartsKnown
    <2>1. \A w \in Base : mon_last[w] = 0 /\ start_count[w] = 0 /\ pc[w] = "none"
      BY Indices DEF Init
    <2>2. mon = "none"
      BY DEF Init
    <2> QED
      BY <2>1, <2>2 DEF StartsKnown
  <1> QED
    BY <1>1, <1>2, <1>3, <1>4, <1>5, <1>6 DEF IInv

(* Every step keeps it. *)
LEMMA IInvNext == IInv /\ [Next]_vars => IInv'
  <1> SUFFICES ASSUME IInv, [Next]_vars PROVE IInv'
    OBVIOUS
  <1>1. Counted /\ Watched /\ TypeOK /\ Places /\ StartsKnown /\ IdleKnown
    BY DEF IInv, Counted, Watched
  <1>2. TypeOK' /\ Places'
    BY <1>1, TypeNext, PlacesNext
  <1>3. QuietWhenOver' /\ CountersExact' /\ WaitReads'
    BY <1>1, <1>2, QuietNext, CountersNext, WaitNext
  <1>4. Announced' /\ RetestReads' /\ NoLongSleepWithWork'
    BY <1>1, <1>2, AnnouncedNext, RetestNext, AsleepNext
  <1>5. StartsKnown' /\ IdleKnown'
    BY <1>1, <1>2, StartsNext, IdleNext
  <1> QED
    BY <1>2, <1>3, <1>4, <1>5 DEF IInv

(* It holds always. *)
LEMMA IInvAlways == Spec => []IInv
  <1> QED
    BY IInvInit, IInvNext, PTL DEF Spec

(* Every variable of the monitored pool has a value the program could give it: *)
(* no batch is longer than POOL_BATCH, no thread is in more than one task, and *)
(* thread_wait.c counts the pool at most once.                                 *)
THEOREM MonitorTypeCorrect == Spec => []TypeOK
  <1>1. IInv => TypeOK
    BY DEF IInv
  <1> QED
    BY <1>1, IInvAlways, PTL

(* However create failed and whatever the profile, pool_destroy_relative frees *)
(* the pool only when no thread of it is left, no task is in the ring or in a  *)
(* worker's batch, and the 1 ms timer was given back.                          *)
THEOREM MonitorFreedOnlyWhenDone == Spec => []FreedOnlyWhenDone
  <1>1. IInv => FreedOnlyWhenDone
    <2> SUFFICES ASSUME IInv, mpc = "gone" PROVE FreedOnlyWhenDone
      BY DEF FreedOnlyWhenDone
    <2>1. mon \in {"none", "exit"} /\ (\A w \in Workers : pc[w] \in {"none", "exit"}) /\ users = 0
      BY DEF IInv, Places, MonitorKnown, WorkersKnown, TimerHeld
    <2>2. Quiet
      BY DEF IInv, QuietWhenOver
    <2> QED
      BY <2>1, <2>2 DEF Quiet, FreedOnlyWhenDone
  <1> QED
    BY <1>1, IInvAlways, PTL

(* A monitor in its long sleep that nobody is about to wake has nothing to watch. *)
THEOREM MonitorNoLongSleepWithWork == Spec => []NoLongSleepWithWork
  <1>1. IInv => NoLongSleepWithWork
    BY DEF IInv
  <1> QED
    BY <1>1, IInvAlways, PTL

(* A pool that ran a task since it was announced idle is not taken for idle at *)
(* the monitor's next look: pool_monitor_fn then goes straight to give the     *)
(* timer back, or ends.                                                        *)
THEOREM MonitorTimerComesBack == Spec => TimerComesBack
  <1> DEFINE A == mon = "stopped" /\ mon' \in {"resum", "stuck"} => ~(idle /\ worked)
  <1>1. IInv /\ [Next]_vars => [A]_vars
    <2> SUFFICES ASSUME IInv, [Next]_vars, mon = "stopped", mon' \in {"resum", "stuck"}, idle, worked
                 PROVE  FALSE
      OBVIOUS
    <2>1. MonTimer
      <3>1. Monitor
        <4>1. mon' # mon /\ mon' # "begin"
          OBVIOUS
        <4>2. ~UNCHANGED vars
          BY <4>1 DEF vars, monitor
        <4>3. ASSUME NEW w \in Workers, Turn(w) PROVE FALSE
          BY <4>1, <4>3, WorkerFrame DEF IInv, TypeOK
        <4>4. ~Creator
          BY <4>1 DEF Creator, Alloc, Parts, StartWorker, StartMonitor, SubmitCount, SubmitPush,
               SetProfile, Rouse, RouseSignal, Destroy, WaitRead, DestroyStop, WakeMonitor, JoinMonitor,
               WakeWorker, JoinWorker, Free, Op, Mon, monitor
        <4> QED
          BY <4>2, <4>3, <4>4, Steps
      <3> QED
        BY <3>1 DEF Monitor, MonPrepare, MonTop, MonRead, MonPending, MonCount, MonAnnounce, MonIdle,
             MonBusy, MonUnannounce, MonSleep, MonWorkAgain, MonRestore, MonLook, MonJudge, Judge,
             MonBacklog, Backlog, MonClaim, MonWake, MonRoundEnd, Step, Mon, Last
    <2>2. Started # idle_started
      <3>1. idle_started < Started /\ idle_started \in Nat
        BY DEF IInv, IdleKnown, TypeOK, PoolOK
      <3>2. idle_started # Started
        BY <3>1
      <3> QED
        BY <3>2
    <2> QED
      BY <2>1, <2>2 DEF MonTimer, Step, Mon
  <1> QED
    BY <1>1, IInvAlways, PTL DEF Spec, TimerComesBack

(* A worker that pool_monitor_fn counts as stuck has been in one task since   *)
(* the last look, unless it began another between the two reads of this one: *)
(* that it is in a task and that it began no other are read one after the    *)
(* other, while it goes on.                                                  *)
THEOREM MonitorJudgedStuckRanThroughout == Spec => JudgedStuckRanThroughout
  <1> DEFINE A == mon = "judge" /\ stuck' > stuck =>
                     \/ mi + 1 \in same \/ pc[mi + 1] = "began" \/ start_count[mi + 1] # msc
  <1>1. IInv /\ [Next]_vars => [A]_vars
    <2> SUFFICES ASSUME IInv, [Next]_vars, mon = "judge", stuck' > stuck
                 PROVE  mi + 1 \in same \/ pc[mi + 1] = "began" \/ start_count[mi + 1] # msc
      OBVIOUS
    <2>0. stuck \in Nat /\ stuck' # stuck
      <3>1. stuck \in Nat
        BY Sizes DEF IInv, TypeOK, MonitorOK
      <3> QED
        BY <3>1
    <2>1. MonJudge
      <3>1. ~Creator /\ ~UNCHANGED vars
        BY <2>0, CreatorFrame DEF vars, monitor
      <3>2. ASSUME NEW w \in Workers, Turn(w) PROVE FALSE
        BY <2>0, <3>2, WorkerFrame DEF IInv, TypeOK
      <3>3. Monitor
        BY <3>1, <3>2, Steps
      <3> QED
        BY <3>3 DEF Monitor, MonPrepare, MonTop, MonRead, MonPending, MonCount, MonAnnounce, MonIdle,
             MonBusy, MonUnannounce, MonSleep, MonTimer, MonWorkAgain, MonRestore, MonLook,
             MonBacklog, Backlog, MonClaim, MonWake, MonRoundEnd, Step, Mon, Last
    <2>2. mi + 1 \in Base /\ (in_task[mi + 1] > 0 /\ msc = mon_last[mi + 1])
      <3>1. stuck' = stuck + (IF InSameTask(mi + 1) THEN 1 ELSE 0) /\ mi + 1 \in Base
        BY <2>1 DEF MonJudge, Judge
      <3>2. InSameTask(mi + 1)
        BY <2>0, <3>1
      <3> QED
        BY <3>1, <3>2 DEF InSameTask
    <2>3. pc[mi + 1] \in {"began", "run"}
      BY <2>2, Indices DEF IInv, Places, InTaskKnown
    <2> QED
      BY <2>2, <2>3 DEF IInv, StartsKnown
  <1> QED
    BY <1>1, IInvAlways, PTL DEF Spec, JudgedStuckRanThroughout

=============================================================================
