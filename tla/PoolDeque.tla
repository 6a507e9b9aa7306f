------------------------------ MODULE PoolDeque ------------------------------
(***************************************************************************)
(* The Chase-Lev deque of thread_pool.c (PoolDeque: pool_deque_push,       *)
(* pool_deque_take, pool_deque_steal) on x86-TSO memory.  The owner's      *)
(* stores (the two words of a slot, and bottom) go through a FIFO store    *)
(* buffer and reach memory later; pool_fence and a CAS wait until it is    *)
(* empty.  Thieves store only with CAS, so they need no buffer.  A step of *)
(* the owner may do several buffered stores: nobody sees them before they  *)
(* are drained.                                                            *)
(***************************************************************************)
EXTENDS Integers, Sequences

CONSTANTS
    Tasks,    \* tasks the owner spawns, each once
    NoTask,   \* content of a slot never written; what a failed call returns
    Owner,    \* the worker whose deque this is
    Thieves,  \* the other workers
    Cap       \* slots (POOL_DEQUE_CAP); mask = Cap - 1

VARIABLES
    top, bottom,      \* PoolDeque.top, .bottom in memory
    fn, arg,          \* PoolSlot.fn and .arg of each slot, in memory
    buffer,           \* the owner's stores not yet in memory, oldest first
    own,              \* bottom as the owner reads it (its last store)
    opc, ob, ot,      \* pool_deque_take: where it is, b, t
    hpc, ht, hfn, harg, \* pool_deque_steal: where it is, t, the slot words read
    result,           \* <<fn, arg>> each worker's last take or steal returned
    unsent,           \* tasks not yet spawned
    log               \* history: the task last pushed at each position

mem    == <<top, bottom, fn, arg>>
owner  == <<buffer, own, opc, ob, ot>>
thief  == <<hpc, ht, hfn, harg>>
vars   == <<mem, owner, thief, result, unsent, log>>

Slots == 0 .. Cap - 1
Slot(i) == i % Cap
Nothing == <<NoTask, NoTask>>

(* pool_deque_init; the slots come from malloc and are written before read. *)
Init ==
    /\ top = 0 /\ bottom = 0 /\ own = 0
    /\ fn = [i \in Slots |-> NoTask] /\ arg = [i \in Slots |-> NoTask]
    /\ buffer = <<>>
    /\ opc = "idle" /\ ob = 0 /\ ot = 0
    /\ hpc = [h \in Thieves |-> "idle"]
    /\ ht = [h \in Thieves |-> 0]
    /\ hfn = [h \in Thieves |-> NoTask]
    /\ harg = [h \in Thieves |-> NoTask]
    /\ result = [a \in {Owner} \cup Thieves |-> Nothing]
    /\ unsent = Tasks
    /\ log = <<>>

Returns(a, r) == result' = [result EXCEPT ![a] = r]

(* A store of the owner to bottom, on top of the stores s. *)
StoreBottom(s, v) ==
    /\ buffer' = Append(s, [to |-> "bottom", at |-> 0, v |-> v])
    /\ own' = v

(* The oldest buffered store reaches memory. *)
Drain ==
    /\ buffer # <<>>
    /\ LET s == Head(buffer)
       IN  /\ bottom' = IF s.to = "bottom" THEN s.v ELSE bottom
           /\ fn' = IF s.to = "fn" THEN [fn EXCEPT ![s.at] = s.v] ELSE fn
           /\ arg' = IF s.to = "arg" THEN [arg EXCEPT ![s.at] = s.v] ELSE arg
    /\ buffer' = Tail(buffer)
    /\ UNCHANGED <<top, own, opc, ob, ot, thief, result, unsent, log>>

-----------------------------------------------------------------------------
(* Tasks are interchangeable, so they are spawned in one fixed order. *)
Turn(t) == unsent # {} /\ t = CHOOSE u \in unsent : TRUE

(* pool_deque_push: a full deque (b - top >= cap) refuses, and the caller runs *)
(* the task itself; otherwise the slot is written, then bottom.                *)
Push(t) ==
    /\ opc = "idle" /\ Turn(t)
    /\ own - top < Cap
    /\ StoreBottom(buffer \o << [to |-> "fn",  at |-> Slot(own), v |-> t],
                                [to |-> "arg", at |-> Slot(own), v |-> t] >>, own + 1)
    /\ log' = [q \in 0 .. own |-> IF q = own THEN t ELSE log[q]]
    /\ unsent' = unsent \ {t}
    /\ UNCHANGED <<mem, opc, ob, ot, thief, result>>

PushRefused(t) ==
    /\ opc = "idle" /\ Turn(t)
    /\ own - top >= Cap
    /\ unsent' = unsent \ {t}
    /\ UNCHANGED <<mem, owner, thief, result, log>>

(* pool_deque_take: nothing there (no fence paid), or bottom is lowered. *)
TakeStart ==
    /\ opc = "idle"
    /\ IF own - top <= 0
       THEN Returns(Owner, Nothing) /\ UNCHANGED <<buffer, own, opc, ob>>
       ELSE /\ StoreBottom(buffer, own - 1)
            /\ ob' = own - 1 /\ opc' = "fence"
            /\ UNCHANGED result
    /\ UNCHANGED <<mem, ot, thief, unsent, log>>

(* Bug seeded in TakeFence: the fence is missing. *)
MTakeNoFence ==
    /\ opc = "fence"
    /\ opc' = "load"
    /\ UNCHANGED <<mem, buffer, own, ob, ot, thief, result, unsent, log>>

TakeFence ==
    /\ opc = "fence" /\ buffer = <<>>
    /\ opc' = "load"
    /\ UNCHANGED <<mem, buffer, own, ob, ot, thief, result, unsent, log>>

(* top is read again: the task is the owner's, or the last one and thieves  *)
(* compete for it, or it is gone and bottom is put back.                    *)
TakeLoad ==
    /\ opc = "load"
    /\ ot' = top
    /\ \/ /\ top < ob
          /\ opc' = "idle"
          /\ Returns(Owner, <<fn[Slot(ob)], arg[Slot(ob)]>>)
          /\ UNCHANGED <<buffer, own>>
       \/ /\ top = ob
          /\ opc' = "cas"
          /\ UNCHANGED <<buffer, own, result>>
       \/ /\ top > ob
          /\ opc' = "idle"
          /\ StoreBottom(buffer, ob + 1)
          /\ Returns(Owner, Nothing)
    /\ UNCHANGED <<mem, ob, thief, unsent, log>>

TakeCas ==
    /\ opc = "cas" /\ buffer = <<>>
    /\ top' = IF top = ot THEN ot + 1 ELSE top
    /\ Returns(Owner, IF top = ot THEN <<fn[Slot(ob)], arg[Slot(ob)]>> ELSE Nothing)
    /\ StoreBottom(buffer, ob + 1)
    /\ opc' = "idle"
    /\ UNCHANGED <<bottom, fn, arg, ob, ot, thief, unsent, log>>

-----------------------------------------------------------------------------
(* pool_deque_steal *)

StealTop(h) ==
    /\ hpc[h] = "idle"
    /\ ht' = [ht EXCEPT ![h] = top]
    /\ hpc' = [hpc EXCEPT ![h] = "bottom"]
    /\ UNCHANGED <<mem, owner, hfn, harg, result, unsent, log>>

StealBottom(h) ==
    /\ hpc[h] = "bottom"
    /\ IF ht[h] < bottom
       THEN hpc' = [hpc EXCEPT ![h] = "fn"] /\ UNCHANGED result
       ELSE hpc' = [hpc EXCEPT ![h] = "idle"] /\ Returns(h, Nothing)
    /\ UNCHANGED <<mem, owner, ht, hfn, harg, unsent, log>>

StealFn(h) ==
    /\ hpc[h] = "fn"
    /\ hfn' = [hfn EXCEPT ![h] = fn[Slot(ht[h])]]
    /\ hpc' = [hpc EXCEPT ![h] = "arg"]
    /\ UNCHANGED <<mem, owner, ht, harg, result, unsent, log>>

StealArg(h) ==
    /\ hpc[h] = "arg"
    /\ harg' = [harg EXCEPT ![h] = arg[Slot(ht[h])]]
    /\ hpc' = [hpc EXCEPT ![h] = "cas"]
    /\ UNCHANGED <<mem, owner, ht, hfn, result, unsent, log>>

StealCas(h) ==
    /\ hpc[h] = "cas"
    /\ top' = IF top = ht[h] THEN ht[h] + 1 ELSE top
    /\ Returns(h, IF top = ht[h] THEN <<hfn[h], harg[h]>> ELSE Nothing)
    /\ hpc' = [hpc EXCEPT ![h] = "idle"]
    /\ UNCHANGED <<bottom, fn, arg, owner, ht, hfn, harg, unsent, log>>

-----------------------------------------------------------------------------
OwnerStep ==
    \/ \E t \in Tasks : Push(t) \/ PushRefused(t)
    \/ TakeStart \/ TakeFence \/ TakeLoad \/ TakeCas
StealStep(h) == StealTop(h) \/ StealBottom(h) \/ StealFn(h) \/ StealArg(h) \/ StealCas(h)

Next == Drain \/ OwnerStep \/ \E h \in Thieves : StealStep(h)

Spec == Init /\ [][Next]_vars

-----------------------------------------------------------------------------
(* What must hold. *)

Words == Tasks \cup {NoTask}

(* Types.  That bottom is never negative is a fact of pool_deque_take: it      *)
(* lowers bottom only after having seen top below it.                         *)
TypeOK ==
    /\ top \in Nat /\ bottom \in Nat /\ own \in Nat
    /\ fn \in [Slots -> Words] /\ arg \in [Slots -> Words]
    /\ opc \in {"idle", "fence", "load", "cas"} /\ ob \in Nat /\ ot \in Nat
    /\ hpc \in [Thieves -> {"idle", "bottom", "fn", "arg", "cas"}]
    /\ ht \in [Thieves -> Nat]
    /\ hfn \in [Thieves -> Words] /\ harg \in [Thieves -> Words]
    /\ result \in [{Owner} \cup Thieves -> Words \X Words]
    /\ unsent \subseteq Tasks

(* The deque as a TaskDeque: positions from top to the owner's bottom, with   *)
(* the position a take has lowered bottom past still in until it is decided.  *)
content ==
    LET end == IF opc = "idle" THEN own ELSE ob + 1
    IN  [k \in 1 .. end - top |-> log[top + k - 1]]

Abstract == INSTANCE TaskDeque WITH content <- content, result <- result

(* The deque implements the abstract one under every interleaving and every   *)
(* delay of the owner's stores: a task is handed over once, whole (no fn of   *)
(* one task with the arg of another), oldest to thieves and youngest to the   *)
(* owner, and the owner's take fails only when nothing is left.               *)
ImplementsDeque == Abstract!Spec

(* The indices stay within one buffer of each other, seen by any worker: a    *)
(* slot never holds two tasks, and bottom is never more than one below top    *)
(* (the interval in which a failing take has lowered it).                     *)
IndicesInStep == /\ own - top <= Cap /\ bottom - top <= Cap
                 /\ own - top >= -1 /\ (opc = "idle" => own >= top)

=============================================================================
