----------------------------- MODULE MCDispatch ------------------------------
(***************************************************************************)
(* What becomes of a task, in the two places it could be left: on its way  *)
(* through slots, deques and shards to the worker that runs it             *)
(* (PoolDispatch), and beside cores that all went to sleep (PoolParking).  *)
(* "part" says which of the two runs in a behaviour; the variables of the  *)
(* other stay as they were.                                                *)
(***************************************************************************)
EXTENDS MCPoolDispatch

CONSTANTS k1, k2, p1, NoCore

VARIABLES
    part,
    claimed, published, dq, parked, signal, n_parked, n_girando, buf, pc, left, beaten, slot,
    kept, timedout, kpc, src, g, scan, target, sends, spawns, late

parkVars == <<claimed, published, dq, parked, signal, n_parked, n_girando, buf, pc, left, beaten,
              slot, kept, timedout, kpc, src, g, scan, target, sends, spawns, late>>

From(where, n, m) == [cores |-> where, sends |-> n, spawns |-> m]

(* A core alone and a burst of two; a core in a task that spawns, another asleep. *)
One == INSTANCE PoolParking WITH
    Cores <- {k1}, Submitters <- {p1}, Starts <- {From([k \in {k1} |-> "look"], 2, 0)},
    ring <- published, raced <- beaten, lifo <- slot
Pair == INSTANCE PoolParking WITH
    Cores <- {k1, k2}, Submitters <- {p1},
    Starts <- {From([k \in {k1, k2} |-> IF k = k1 THEN "run" ELSE "sleep"], 0, 1)},
    ring <- published, raced <- beaten, lifo <- slot

NoPark ==
    /\ claimed = 0 /\ published = 0 /\ dq = 0 /\ parked = 0 /\ signal = 0 /\ n_parked = 0
    /\ n_girando = 0 /\ buf = 0 /\ pc = 0 /\ left = 0 /\ beaten = 0 /\ slot = 0 /\ kept = 0
    /\ timedout = 0 /\ kpc = 0 /\ src = 0 /\ g = 0 /\ scan = 0 /\ target = 0 /\ sends = 0
    /\ spawns = 0 /\ late = 0

-----------------------------------------------------------------------------
MCInit ==
    /\ part \in {"dispatch", "one", "pair"}
    /\ Init /\ (part # "dispatch" => unsent = Plan(<<r>>, <<d>>))
    /\ \/ part = "dispatch" /\ NoPark
       \/ part = "one" /\ One!Init
       \/ part = "pair" /\ Pair!Init

InDispatch(A) == part = "dispatch" /\ A /\ UNCHANGED <<part, parkVars>>
InOne(A)  == part = "one" /\ A /\ UNCHANGED <<part, vars>>
InPair(A) == part = "pair" /\ A /\ UNCHANGED <<part, vars>>

MCNext == InDispatch(Next) \/ InOne(One!Next) \/ InPair(Pair!Next)

(* Each part's own fairness: threads are scheduled, stores reach memory, clocks *)
(* advance.                                                                      *)
MCSpec ==
    /\ MCInit /\ [][MCNext]_<<part, vars, parkVars>>
    /\ \A p \in Submitters : WF_vars(InDispatch(SubmitStep(p)))
    /\ \A w \in Workers : WF_vars(InDispatch(WorkerStep(w)))
    /\ WF_vars(InDispatch(MainStep))
    /\ \A t \in {p1, k1} :
        WF_parkVars(InOne(One!Drain(t))) /\ WF_parkVars(InOne(One!WakeStep(t)))
    /\ WF_parkVars(InOne(One!CoreStep(k1))) /\ WF_parkVars(InOne(One!Timeout(k1)))
    /\ \A t \in {p1, k1, k2} :
        WF_parkVars(InPair(Pair!Drain(t))) /\ WF_parkVars(InPair(Pair!WakeStep(t)))
    /\ \A k \in {k1, k2} :
        WF_parkVars(InPair(Pair!CoreStep(k))) /\ WF_parkVars(InPair(Pair!Timeout(k)))

-----------------------------------------------------------------------------
(* Every accepted task runs: the LIFO slot starves none (thread_pool.c:398), and   *)
(* for cores that sleep while no one wakes them there is a timeout (:688).         *)
EveryTaskStarts ==
    /\ EveryTaskRuns
    /\ <>[](part = "one" => One!NothingQueued)
    /\ <>[](part = "pair" => Pair!NothingQueued)
=============================================================================
