----------------------------- MODULE PoolMonitor -----------------------------
(***************************************************************************)
(* The threads of a pool from pool_create_relative to                      *)
(* pool_destroy_relative (thread_pool.c): the ordinary workers, the        *)
(* elastic ones that sleep until they are needed, and the monitor that     *)
(* activates them and, in the economy profile, sleeps long and gives the   *)
(* 1 ms timer back.  One thread creates the pool, submits, changes the     *)
(* profile and destroys it.                                                *)
(*                                                                         *)
(* How ordinary workers sleep is in PoolParking: here they keep looking.   *)
(* A task is "short" or "long": a long one does not end while others wait  *)
(* in the ring.  Tasks do not spawn, there is one shard, its ring is never *)
(* full, and memory is sequentially consistent.  The monitor's locals go   *)
(* back to 0 when they are no longer read.                                 *)
(***************************************************************************)
EXTENDS Integers, Sequences, Functions

CONSTANTS
    NumBase, NumElastic,   \* n_workers, n_elastic
    StuckMin, Batch,       \* POOL_STUCK_MIN, POOL_BATCH
    Plans                  \* what the creator does with the pool, in order

Base    == 1 .. NumBase
Elastic == NumBase + 1 .. NumBase + NumElastic
Workers == Base \cup Elastic
Ctrs    == 0 .. NumBase + NumElastic    \* the shard's, then one of each worker

ASSUME MonitorAssumption ==
    /\ {NumBase, NumElastic, StuckMin, Batch} \subseteq Nat \ {0}
    /\ Plans \subseteq Seq({"short", "long", "eco", "perf"})

VARIABLES
    mpc, plan, at, sum,       \* the creator: where it is, what is left; loops of destroy
    have,                     \* what is allocated: "ctrs", "shards", "workers"
    stop, perfil, ring, ctr,  \* ThreadPool
    wait_inited, users,       \* the timer: held by this pool; thread_wait.c's count
    pc, in_task, start_count, pend, task,    \* workers
    parked, signal,           \* PoolWorker.parked, .wait (elastic workers)
    mon, mi, msum, msc, iniciadas, stuck,    \* the monitor: where it is, its locals
    mon_last, mon_signal, mon_dormindo, long,
    idle, idle_started,       \* ocioso_desde_ms # 0, ocioso_iniciadas
    worked,    \* history: a task started since the pool was announced idle
    same       \* history: workers in one task since the monitor last read them

creator == <<mpc, plan, at, sum, have>>
timer   == <<wait_inited, users, idle, idle_started, worked>>
worker  == <<pc, in_task, start_count, pend, task>>
elastic == <<parked, signal>>
monitor == <<mon, mi, msum, msc, iniciadas, stuck, mon_last, mon_signal, mon_dormindo, long, same>>
shared  == <<stop, perfil, ring, ctr>>
vars == <<creator, timer, worker, elastic, monitor, shared>>

Init ==
    /\ mpc = "alloc" /\ plan \in Plans /\ at = 1 /\ sum = 0 /\ have = {}
    /\ stop = FALSE /\ perfil = "perf" /\ ring = <<>> /\ ctr = [c \in Ctrs |-> 0]
    /\ wait_inited = FALSE /\ users = 0 /\ idle = FALSE /\ idle_started = 0 /\ worked = FALSE
    /\ pc = [w \in Workers |-> "none"] /\ in_task = [w \in Workers |-> 0]
    /\ start_count = [w \in Workers |-> 0] /\ pend = [w \in Workers |-> <<>>]
    /\ task = [w \in Workers |-> "none"]
    /\ parked = [w \in Elastic |-> TRUE] /\ signal = [w \in Workers |-> FALSE]
    /\ mon = "none" /\ mi = 0 /\ msum = 0 /\ msc = 0 /\ iniciadas = 0 /\ stuck = 0
    /\ mon_last = [w \in Base |-> 0] /\ mon_signal = FALSE /\ mon_dormindo = FALSE
    /\ long = FALSE /\ same = {}

Main(from, to) == mpc = from /\ mpc' = to
Mon(from, to)  == mon = from /\ mon' = to
Go(w, from, to) == pc[w] = from /\ pc' = [pc EXCEPT ![w] = to]

-----------------------------------------------------------------------------
(* pool_create_relative.  Everything it allocates may fail. *)

(* The pool, then ctrs, shards and workers, tested together. *)
Alloc ==
    /\ \/ Main("alloc", "gone") /\ UNCHANGED have
       \/ /\ have' \in SUBSET {"ctrs", "shards", "workers"}
          /\ Main("alloc", IF have' = {"ctrs", "shards", "workers"} THEN "parts" ELSE "wait")
    /\ at' = 0
    /\ UNCHANGED <<plan, sum, timer, worker, elastic, monitor, shared>>

(* thread_wait_init; then the rings and the deques, any of which may fail. *)
Parts ==
    /\ \E to \in {"start", "wait"} : Main("parts", to)
    /\ \/ wait_inited' = TRUE /\ users' = users + 1
       \/ UNCHANGED <<wait_inited, users>>
    /\ at' = IF mpc' = "start" THEN 1 ELSE 0
    /\ UNCHANGED <<plan, sum, have, idle, idle_started, worked, worker, elastic, monitor, shared>>

StartWorker ==
    /\ mpc = "start" /\ at \in Workers
    /\ \/ /\ Go(at, "none", IF at \in Base THEN "loop" ELSE "top")
          /\ at' = at + 1
          /\ UNCHANGED <<mpc, stop>>
       \/ stop' = TRUE /\ mpc' = "wake" /\ at' = 1 /\ UNCHANGED pc
    /\ UNCHANGED <<plan, sum, have, timer, in_task, start_count, pend, task, elastic, monitor,
                   perfil, ring, ctr>>

StartMonitor ==
    /\ mpc = "start" /\ at \notin Workers
    /\ \/ Mon("none", "begin") /\ mpc' = "up" /\ UNCHANGED <<at, stop>>
       \/ stop' = TRUE /\ mpc' = "wake" /\ at' = 1 /\ UNCHANGED mon
    /\ UNCHANGED <<plan, sum, have, timer, worker, elastic, mi, msum, msc, iniciadas, stuck,
                   mon_last, mon_signal, mon_dormindo, long, same, perfil, ring, ctr>>

-----------------------------------------------------------------------------
(* pool_submit_relative and pool_perfil_relative. *)

Op(from, to) == Main(from, to) /\ UNCHANGED <<at, sum, have, timer, worker, elastic, mon, mi, msum,
    msc, iniciadas, stuck, mon_last, long, same, stop>>

SubmitCount ==
    /\ plan # <<>> /\ Head(plan) \in {"short", "long"}
    /\ Op("up", "push")
    /\ ctr' = [ctr EXCEPT ![0] = @ + 1]
    /\ UNCHANGED <<plan, perfil, ring, mon_signal, mon_dormindo>>

SubmitPush ==
    /\ Op("push", "rouse")
    /\ ring' = Append(ring, Head(plan)) /\ plan' = Tail(plan)
    /\ UNCHANGED <<perfil, ctr, mon_signal, mon_dormindo>>

SetProfile ==
    /\ plan # <<>> /\ Head(plan) \in {"eco", "perf"}
    /\ Op("up", IF Head(plan) = "eco" THEN "up" ELSE "rouse")
    /\ perfil' = Head(plan) /\ plan' = Tail(plan)
    /\ UNCHANGED <<ring, ctr, mon_signal, mon_dormindo>>

(* Both end by waking a monitor that announced its long sleep. *)
Rouse ==
    /\ Op("rouse", IF mon_dormindo THEN "signal" ELSE "up")
    /\ mon_dormindo' = FALSE
    /\ UNCHANGED <<plan, perfil, ring, ctr, mon_signal>>

RouseSignal ==
    /\ Op("signal", "up")
    /\ mon_signal' = TRUE
    /\ UNCHANGED <<plan, perfil, ring, ctr, mon_dormindo>>

-----------------------------------------------------------------------------
(* pool_destroy_relative, by way of pool_wait_idle_relative; and the end of a  *)
(* failed create, which sets stop itself.                                      *)

Destroy ==
    /\ plan = <<>> /\ Main("up", "wait")
    /\ at' = 0 /\ sum' = 0
    /\ UNCHANGED <<plan, have, timer, worker, elastic, monitor, shared>>

(* A pool whose counters could not be had is waited for all the same. *)
WaitRead ==
    /\ mpc = "wait"
    /\ LET s == sum + ctr[at]
       IN  CASE "ctrs" \notin have -> mpc' = "crashed" /\ UNCHANGED <<at, sum>>
             [] "ctrs" \in have /\ at + 1 \in Ctrs -> at' = at + 1 /\ sum' = s /\ UNCHANGED mpc
             [] OTHER -> /\ mpc' = IF s > 0 THEN "wait" ELSE "stop"
                         /\ at' = 0 /\ sum' = 0
    /\ UNCHANGED <<plan, have, timer, worker, elastic, monitor, shared>>

DestroyStop ==
    /\ Main("stop", "wakemon")
    /\ stop' = TRUE
    /\ UNCHANGED <<plan, at, sum, have, timer, worker, elastic, monitor, perfil, ring, ctr>>

WakeMonitor ==
    /\ Main("wakemon", "joinmon")
    /\ mon_signal' = TRUE
    /\ UNCHANGED <<plan, at, sum, have, timer, worker, elastic, shared, mon, mi, msum, msc, iniciadas,
                   stuck, mon_last, mon_dormindo, long, same>>

JoinMonitor ==
    /\ Main("joinmon", "wake")
    /\ mon \in {"none", "exit"}
    /\ at' = 1
    /\ UNCHANGED <<plan, sum, have, timer, worker, elastic, monitor, shared>>

(* The workers one by one, as far as they were started. *)
Joinable == at \in Workers /\ pc[at] # "none"

WakeWorker ==
    /\ Joinable /\ Main("wake", "join")
    /\ signal' = [signal EXCEPT ![at] = TRUE]
    /\ UNCHANGED <<plan, at, sum, have, timer, worker, parked, monitor, shared>>

JoinWorker ==
    /\ Main("join", "wake")
    /\ pc[at] = "exit"
    /\ at' = at + 1
    /\ UNCHANGED <<plan, sum, have, timer, worker, elastic, monitor, shared>>

(* Bug seeded in Free: the loop before it ends with the ordinary workers. *)
MFreeBeforeElastic ==
    /\ (at \notin Base \/ ~Joinable) /\ Main("wake", "gone")
    /\ have' = {}
    /\ users' = IF wait_inited THEN users - 1 ELSE users
    /\ UNCHANGED <<plan, at, sum, wait_inited, idle, idle_started, worked, worker, elastic, monitor, shared>>

Free ==
    /\ ~Joinable /\ Main("wake", "gone")
    /\ have' = {}
    /\ users' = IF wait_inited THEN users - 1 ELSE users
    /\ UNCHANGED <<plan, at, sum, wait_inited, idle, idle_started, worked, worker, elastic, monitor, shared>>

-----------------------------------------------------------------------------
(* The workers. *)

Work(w) == UNCHANGED <<creator, wait_inited, users, idle, idle_started, monitor, stop, perfil>>

(* pool_try_get: the rest of the last batch, or a new one. *)
Take(w) ==
    /\ pc[w] \in {"loop", "active"} /\ ~stop
    /\ \/ pend[w] # <<>> /\ task' = [task EXCEPT ![w] = Head(pend[w])]
          /\ pend' = [pend EXCEPT ![w] = Tail(@)] /\ UNCHANGED ring
       \/ LET n == IF Len(ring) < Batch THEN Len(ring) ELSE Batch
          IN  /\ pend[w] = <<>> /\ n > 0
              /\ task' = [task EXCEPT ![w] = Head(ring)]
              /\ pend' = [pend EXCEPT ![w] = SubSeq(ring, 2, n)]
              /\ ring' = SubSeq(ring, n + 1, Len(ring))
    /\ in_task' = [in_task EXCEPT ![w] = @ + 1]
    /\ pc' = [pc EXCEPT ![w] = "began"]
    /\ Work(w)
    /\ UNCHANGED <<elastic, start_count, ctr, worked>>

(* pool_run *)
Begin(w) ==
    /\ Go(w, "began", "run")
    /\ start_count' = [start_count EXCEPT ![w] = @ + 1]
    /\ worked' = TRUE
    /\ Work(w)
    /\ UNCHANGED <<elastic, in_task, pend, task, ring, ctr>>

End(w) ==
    /\ Go(w, "run", "ended")
    /\ task[w] = "long" => ring = <<>>
    /\ in_task' = [in_task EXCEPT ![w] = @ - 1]
    /\ task' = [task EXCEPT ![w] = "none"]
    /\ same' = same \ {w}
    /\ UNCHANGED <<creator, timer, elastic, shared, start_count, pend, mon, mi, msum, msc, iniciadas,
                   stuck, mon_last, mon_signal, mon_dormindo, long>>

(* Bug seeded in Count: the elastic workers, numbered after the others, are *)
(* beyond the counters.                                                      *)
MCountOrdinary(w) ==
    /\ Go(w, "ended", IF w \in Base THEN "loop" ELSE "active")
    /\ ctr' = IF w \in Base THEN [ctr EXCEPT ![w] = @ - 1] ELSE ctr
    /\ Work(w)
    /\ UNCHANGED <<elastic, in_task, start_count, pend, task, ring, worked>>

Count(w) ==
    /\ Go(w, "ended", IF w \in Base THEN "loop" ELSE "active")
    /\ ctr' = [ctr EXCEPT ![w] = @ - 1]
    /\ Work(w)
    /\ UNCHANGED <<elastic, in_task, start_count, pend, task, ring, worked>>

Moves(w) == UNCHANGED <<creator, timer, monitor, shared, in_task, start_count, pend, task>>

Leave(w) ==
    /\ stop
    /\ \E from \in {"loop", "top", "woke"} : Go(w, from, "exit")
    /\ Moves(w) /\ UNCHANGED elastic

(* The elastic ones announce themselves, then clear their signal ... *)
ElasticTop(w) ==
    /\ ~stop /\ Go(w, "top", "park")
    /\ Moves(w) /\ UNCHANGED elastic

ElasticPark(w) ==
    /\ Go(w, "park", "prepare")
    /\ parked' = [parked EXCEPT ![w] = TRUE]
    /\ Moves(w) /\ UNCHANGED signal

ElasticPrepare(w) ==
    /\ Go(w, "prepare", "test")
    /\ signal' = [signal EXCEPT ![w] = FALSE]
    /\ Moves(w) /\ UNCHANGED parked

(* ... and sleep unless they were claimed in between. *)
ElasticSleep(w) ==
    /\ Go(w, "test", IF parked[w] THEN "sleep" ELSE "woke")
    /\ Moves(w) /\ UNCHANGED elastic

ElasticWoken(w) ==
    /\ signal[w] /\ Go(w, "sleep", "woke")
    /\ signal' = [signal EXCEPT ![w] = FALSE]
    /\ Moves(w) /\ UNCHANGED parked

ElasticTimeout(w) ==
    /\ Go(w, "sleep", "woke")
    /\ \E kept \in {signal[w], FALSE} : signal' = [signal EXCEPT ![w] = kept]
    /\ Moves(w) /\ UNCHANGED parked

(* Claimed: it works until it has found nothing for long enough. *)
ElasticAwake(w) ==
    /\ ~stop /\ Go(w, "woke", IF parked[w] THEN "top" ELSE "active")
    /\ Moves(w) /\ UNCHANGED elastic

ElasticRetire(w) ==
    /\ Go(w, "active", "top")
    /\ stop \/ (ring = <<>> /\ pend[w] = <<>>)
    /\ Moves(w) /\ UNCHANGED elastic

-----------------------------------------------------------------------------
(* pool_monitor_fn *)

Step(from, to) == Mon(from, to) /\ UNCHANGED <<creator, worker, perfil, ring, ctr, stop, mon_last, same>>
Quietly == UNCHANGED <<timer, elastic, mon_signal, mon_dormindo>>
Locals  == UNCHANGED <<mi, msum, msc, iniciadas, stuck, long>>

(* Summed in one step: the counts only grow, and whether one did is all that is *)
(* asked.                                                                       *)
Started == SumFunctionOnSet(start_count, Workers)

MonPrepare ==
    /\ \/ Step("begin", "top")
       \/ Step("prepare", "announce")
    /\ mon_signal' = FALSE
    /\ Locals /\ UNCHANGED <<timer, elastic, mon_dormindo>>

MonTop ==
    /\ Step("top", IF stop THEN "exit" ELSE IF perfil = "eco" THEN "sum" ELSE "sleep")
    /\ mi' = 0 /\ msum' = 0 /\ stuck' = 0
    /\ Quietly /\ UNCHANGED <<msc, iniciadas, long>>

(* pool_total_pending, one counter at a time: before announcing the long sleep, *)
(* after that, and to see whether there is work again.                          *)
MonRead ==
    /\ mon \in {"sum", "retest", "resum"} /\ mi + 1 \in Ctrs
    /\ Step(mon, mon)
    /\ mi' = mi + 1 /\ msum' = msum + ctr[mi]
    /\ Quietly /\ UNCHANGED <<msc, iniciadas, stuck, long>>

Total == msum + ctr[mi]
Last(from, to) == mi + 1 \notin Ctrs /\ Step(from, to) /\ mi' = 0 /\ msum' = 0

MonPending ==
    /\ Last("sum", IF Total = 0 THEN "count" ELSE "sleep")
    /\ Quietly /\ UNCHANGED <<msc, iniciadas, stuck, long>>

MonCount ==
    /\ Step("count", "prepare")
    /\ iniciadas' = Started
    /\ Quietly /\ UNCHANGED <<mi, msum, msc, stuck, long>>

(* Bug seeded in MonAnnounce: no re-test, the total read before is trusted. *)
MAnnounceNoRetest ==
    /\ Step("announce", "sleep")
    /\ mon_dormindo' = TRUE /\ long' = TRUE
    /\ UNCHANGED <<timer, elastic, mon_signal, mi, msum, msc, iniciadas, stuck>>

MonAnnounce ==
    /\ Step("announce", "retest")
    /\ mon_dormindo' = TRUE
    /\ worked' = (idle /\ worked)
    /\ Locals /\ UNCHANGED <<wait_inited, users, idle, idle_started, elastic, mon_signal>>

(* Bug seeded in MonIdle: what was started is read after the re-test. *)
MIdleReadsLate ==
    /\ Last("retest", "sleep") /\ Total = 0
    /\ long' = TRUE /\ iniciadas' = 0
    /\ idle' = TRUE /\ idle_started' = IF idle THEN idle_started ELSE Started
    /\ UNCHANGED <<wait_inited, users, worked, elastic, mon_signal, mon_dormindo, msc, stuck>>

(* Still nothing: it will sleep long, and gives the timer back when the pool has *)
(* been idle for long enough.                                                   *)
MonIdle ==
    /\ Last("retest", "sleep") /\ Total = 0
    /\ long' = TRUE /\ iniciadas' = 0
    /\ \/ /\ ~idle
          /\ idle' = TRUE /\ idle_started' = iniciadas
          /\ UNCHANGED <<wait_inited, users, worked>>
       \/ idle /\ UNCHANGED timer
       \/ /\ idle /\ wait_inited
          /\ wait_inited' = FALSE /\ users' = users - 1
          /\ UNCHANGED <<idle, idle_started, worked>>
    /\ UNCHANGED <<elastic, mon_signal, mon_dormindo, msc, stuck>>

MonBusy ==
    /\ Last("retest", "unannounce") /\ Total # 0
    /\ iniciadas' = 0
    /\ Quietly /\ UNCHANGED <<msc, stuck, long>>

MonUnannounce ==
    /\ \/ Step("unannounce", "sleep")
       \/ Step("awake", "stopped")
    /\ mon_dormindo' = FALSE
    /\ Locals /\ UNCHANGED <<timer, elastic, mon_signal>>

MonSleep ==
    /\ Step("sleep", "awake")
    /\ \/ mon_signal /\ mon_signal' = FALSE
       \/ mon_signal' \in {mon_signal, FALSE}     \* timeout
    /\ long' = FALSE
    /\ UNCHANGED <<timer, elastic, mon_dormindo, mi, msum, msc, iniciadas, stuck>>

(* Work again, or no more economy: the timer is asked for anew. *)
MonTimer ==
    /\ LET worth == idle \/ ~wait_inited
           sure  == perfil # "eco" \/ (idle /\ Started # idle_started)
       IN  Step("stopped", CASE stop -> "exit" [] ~stop /\ worth /\ sure -> "restore"
                             [] ~stop /\ worth /\ ~sure -> "resum" [] OTHER -> "stuck")
    /\ mi' = 0
    /\ Quietly /\ UNCHANGED <<msum, msc, iniciadas, stuck, long>>

MonWorkAgain ==
    /\ Last("resum", IF Total > 0 THEN "restore" ELSE "stuck")
    /\ Quietly /\ UNCHANGED <<msc, iniciadas, stuck, long>>

MonRestore ==
    /\ Step("restore", "stuck")
    /\ idle' = FALSE /\ idle_started' = 0
    /\ \/ ~wait_inited /\ wait_inited' = TRUE /\ users' = users + 1
       \/ UNCHANGED <<wait_inited, users>>
    /\ Locals /\ UNCHANGED <<elastic, mon_signal, mon_dormindo, worked>>

(* The scan for stuck workers reads how many tasks each began, then whether it *)
(* is in one.                                                                  *)
MonLook ==
    /\ mi + 1 \in Base /\ Step("stuck", "judge")
    /\ msc' = start_count[mi + 1]
    /\ Quietly /\ UNCHANGED <<mi, msum, iniciadas, stuck, long>>

InSameTask(w) == in_task[w] > 0 /\ msc = mon_last[w]

Judge(held) ==
    LET w == mi + 1
    IN  /\ mon = "judge"
        /\ stuck' = stuck + (IF held THEN 1 ELSE 0)
        /\ mon_last' = [mon_last EXCEPT ![w] = msc]
        /\ same' = IF pc[w] = "run" /\ start_count[w] = msc THEN same \cup {w} ELSE same \ {w}
        /\ mon' = "stuck" /\ mi' = w /\ msc' = 0
        /\ Quietly /\ UNCHANGED <<creator, worker, shared, msum, iniciadas, long>>

(* Bug seeded in MonJudge: any worker in a task is taken for stuck. *)
MJudgeInTask == mi + 1 \in Base /\ Judge(in_task[mi + 1] > 0)

MonJudge == mi + 1 \in Base /\ Judge(InSameTask(mi + 1))

Backlog(least) ==
    /\ mi + 1 \notin Base
    /\ \/ stuck >= least /\ ring # <<>> /\ Step("stuck", "wake") /\ mi' = NumBase + 1
       \/ (stuck < least \/ ring = <<>>) /\ Step("stuck", "top") /\ mi' = 0
    /\ Quietly /\ UNCHANGED <<msum, msc, iniciadas, stuck, long>>

(* Bug seeded in MonBacklog: > for >=. *)
MBacklogMore == Backlog(StuckMin + 1)

MonBacklog == Backlog(StuckMin)

(* As many sleeping elastic workers as there are stuck ones are claimed, each *)
(* woken at once.                                                             *)
MonClaim ==
    /\ mi \in Elastic /\ stuck > 0
    /\ IF parked[mi]
       THEN Step("wake", "signal") /\ parked' = [parked EXCEPT ![mi] = FALSE] /\ UNCHANGED mi
       ELSE Step("wake", "wake") /\ mi' = mi + 1 /\ UNCHANGED parked
    /\ UNCHANGED <<timer, signal, mon_signal, mon_dormindo, msum, msc, iniciadas, stuck, long>>

MonWake ==
    /\ Step("signal", "wake")
    /\ signal' = [signal EXCEPT ![mi] = TRUE]
    /\ mi' = mi + 1 /\ stuck' = stuck - 1
    /\ UNCHANGED <<timer, parked, mon_signal, mon_dormindo, msum, msc, iniciadas, long>>

MonRoundEnd ==
    /\ mi \notin Elastic \/ stuck = 0
    /\ Step("wake", "top") /\ mi' = 0
    /\ Quietly /\ UNCHANGED <<msum, msc, iniciadas, stuck, long>>

-----------------------------------------------------------------------------
Creator == \/ Alloc \/ Parts \/ StartWorker \/ StartMonitor
           \/ SubmitCount \/ SubmitPush \/ SetProfile \/ Rouse \/ RouseSignal
           \/ Destroy \/ WaitRead \/ DestroyStop \/ WakeMonitor \/ JoinMonitor
           \/ WakeWorker \/ JoinWorker \/ Free

Worker(w) == Take(w) \/ Begin(w) \/ End(w) \/ Count(w) \/ Leave(w)

ElasticWorker(w) == \/ ElasticTop(w) \/ ElasticPark(w) \/ ElasticPrepare(w) \/ ElasticSleep(w)
                    \/ ElasticWoken(w) \/ ElasticTimeout(w) \/ ElasticAwake(w) \/ ElasticRetire(w)

Monitor == \/ MonPrepare \/ MonTop \/ MonRead \/ MonPending \/ MonCount \/ MonAnnounce
           \/ MonIdle \/ MonBusy \/ MonUnannounce \/ MonSleep \/ MonTimer \/ MonWorkAgain
           \/ MonRestore \/ MonLook \/ MonJudge \/ MonBacklog \/ MonClaim \/ MonWake \/ MonRoundEnd

Over == mpc \in {"gone", "crashed"} /\ UNCHANGED vars

Next == \/ Creator \/ Monitor \/ Over
        \/ \E w \in Workers : Worker(w)
        \/ \E w \in Elastic : ElasticWorker(w)

Spec == Init /\ [][Next]_vars

(* The operating system runs every thread. *)
FairSpec == /\ Spec /\ WF_vars(Creator) /\ WF_vars(Monitor)
            /\ \A w \in Workers : WF_vars(Worker(w) \/ (w \in Elastic /\ ElasticWorker(w)))

-----------------------------------------------------------------------------
Tasks == {"short", "long"}

(* Every variable has a value the program could give it; a depth in tasks is 0 *)
(* or 1 because tasks do not spawn.                                            *)
CreatorOK ==
    /\ mpc \in {"alloc", "parts", "start", "up", "push", "rouse", "signal", "wait", "stop",
                "wakemon", "joinmon", "wake", "join", "gone", "crashed"}
    /\ plan \in Seq(Tasks \cup {"eco", "perf"}) /\ at \in 0 .. NumBase + NumElastic + 1
    /\ sum \in Int /\ have \subseteq {"ctrs", "shards", "workers"}

PoolOK ==
    /\ stop \in BOOLEAN /\ perfil \in {"eco", "perf"} /\ ring \in Seq(Tasks)
    /\ ctr \in [Ctrs -> Int] /\ wait_inited \in BOOLEAN /\ users \in {0, 1}
    /\ idle \in BOOLEAN /\ idle_started \in Nat /\ worked \in BOOLEAN

WorkersOK ==
    /\ pc \in [Workers -> {"none", "loop", "began", "run", "ended", "top", "park", "prepare", "test",
                          "sleep", "woke", "active", "exit"}]
    /\ in_task \in [Workers -> {0, 1}] /\ start_count \in [Workers -> Nat]
    /\ pend \in [Workers -> Seq(Tasks)] /\ \A w \in Workers : Len(pend[w]) < Batch
    /\ task \in [Workers -> Tasks \cup {"none"}]
    /\ parked \in [Elastic -> BOOLEAN] /\ signal \in [Workers -> BOOLEAN]

MonitorOK ==
    /\ mon \in {"none", "begin", "top", "sum", "count", "prepare", "announce", "retest", "unannounce",
                "sleep", "awake", "stopped", "resum", "restore", "stuck", "judge", "wake", "signal", "exit"}
    /\ mi \in 0 .. NumBase + NumElastic + 1 /\ msum \in Int /\ stuck \in 0 .. NumBase
    /\ msc \in Nat /\ iniciadas \in Nat /\ mon_last \in [Base -> Nat] /\ same \subseteq Base
    /\ mon_signal \in BOOLEAN /\ mon_dormindo \in BOOLEAN /\ long \in BOOLEAN

TypeOK == CreatorOK /\ PoolOK /\ WorkersOK /\ MonitorOK

(* The pool is freed when no thread of it is left and no task either, and the   *)
(* 1 ms timer was given back by whoever of monitor and destroy came first,      *)
(* whatever failed while it was created (destroy and the failures of create).   *)
FreedOnlyWhenDone ==
    mpc = "gone" => /\ mon \in {"none", "exit"} /\ \A w \in Workers : pc[w] \in {"none", "exit"}
                    /\ ring = <<>> /\ \A w \in Workers : pend[w] = <<>>
                    /\ users = 0

(* A monitor in its long sleep that nobody is about to wake has nothing to   *)
(* watch: announce and re-test leave no window for a submit, whichever order *)
(* it and the change of profile come in.                                     *)
NoLongSleepWithWork ==
    mon = "sleep" /\ long /\ ~mon_signal /\ mpc \notin {"push", "rouse", "signal"}
        => SumFunctionOnSet(ctr, Ctrs) = 0

(* A pool that ran a task since it was announced idle is not taken for idle at *)
(* the monitor's next look, however briefly the task ran: the timer comes back *)
(* (the comment of pool_monitor_fn on tasks that end before it wakes).         *)
TimerComesBack ==
    [][mon = "stopped" /\ mon' \in {"resum", "stuck"} => ~(idle /\ worked)]_vars

(* A worker counted as stuck has been in one task since the monitor's last look, *)
(* unless it began another between the two reads of this one.                    *)
JudgedStuckRanThroughout ==
    [][mon = "judge" /\ stuck' > stuck =>
        \/ mi + 1 \in same \/ pc[mi + 1] = "began" \/ start_count[mi + 1] # msc]_vars

(* An activation is lost when it meets a worker that just timed out and goes   *)
(* back to sleep.  Workers sleep 100 ms and the monitor 5: not all are lost.   *)
Activation == mon = "wake" /\ mon' = "signal"
SomeReachASleeper ==
    []<><<Activation>>_vars => []<><<Activation /\ pc[mi] = "sleep">>_vars

(* Tasks do not wait in the ring for long ones that fill the ordinary workers: *)
(* the monitor activates elastic ones, in spite of the activations it loses.   *)
WaitingWorkGetsHelp == SomeReachASleeper => (ring # <<>> ~> ring = <<>>)

(* Once the ring is empty destroy returns, whatever the profile and wherever the *)
(* stop finds the threads.                                                       *)
DestroyEnds == mpc = "wait" /\ ring = <<>> ~> mpc \in {"gone", "crashed"}

=============================================================================
