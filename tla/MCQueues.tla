------------------------------ MODULE MCQueues -------------------------------
(***************************************************************************)
(* The ring of a shard, the deque of a worker and the public ring on small *)
(* instances, one at a time: they share nothing.  "subject" says which one *)
(* is used in a behaviour; the others stay as their initialisation left    *)
(* them.                                                                   *)
(***************************************************************************)
EXTENDS PoolRing, TLC

CONSTANTS
    Spawned, NoSpawn, w0, w1, w2, DequeSlots,              \* the deque
    Items, NoItem, m1, m2, k1, k2, l1, RingSlots, Turns, First, Retries

VARIABLES
    subject,
    top, bottom, fn, arg, buffer, own, opc, ob, ot, hpc, ht, hfn, harg,
    dequeResult, dequeUnsent, dequeLog,
    mode, team, ringHead, ringTail, seqno, guard, ringCell, me, answer, ringUnsent, ringLog

Deque == INSTANCE PoolDequeProofs WITH
    Tasks <- Spawned, NoTask <- NoSpawn, Owner <- w0, Thieves <- {w1, w2}, Cap <- DequeSlots,
    result <- dequeResult, unsent <- dequeUnsent, log <- dequeLog

Ring == INSTANCE RingQueueProofs WITH
    Producers <- {m1, m2}, Consumers <- {k1, k2}, Lookers <- {l1},
    Teams <- {{m1, m2, k1, k2}, {m1, k1, l1}},
    Slots <- RingSlots, Modulus <- Turns, head <- ringHead, tail <- ringTail,
    cell <- ringCell, unsent <- ringUnsent, log <- ringLog

dequeVars == <<top, bottom, fn, arg, buffer, own, opc, ob, ot, hpc, ht, hfn, harg,
               dequeResult, dequeUnsent, dequeLog>>
ringVars == <<mode, team, ringHead, ringTail, seqno, guard, ringCell, me, answer,
              ringUnsent, ringLog>>

MCInit ==
    /\ Init /\ Deque!Init /\ Ring!Init
    /\ \/ subject \in {"shard", "deque"} /\ mode = "broken" /\ l1 \in team
       \/ subject = "ring"

MCNext ==
    \/ subject = "shard" /\ Next /\ UNCHANGED <<subject, dequeVars, ringVars>>
    \/ subject = "deque" /\ Deque!Next /\ UNCHANGED <<subject, vars, ringVars>>
    \/ subject = "ring" /\ Ring!Next /\ UNCHANGED <<subject, vars, dequeVars>>

MCSpec == MCInit /\ [][MCNext]_<<subject, vars, dequeVars, ringVars>>

(* Threads of one kind are interchangeable for safety. *)
Symmetry == Permutations(Producers) \cup Permutations(Consumers)
            \cup Permutations({w1, w2})

-----------------------------------------------------------------------------
(* The owner and the thieves of a worker's deque implement a sequential deque. *)
ImplementsDeque == Deque!ImplementsDeque

(* ring_queue_peek_ hands over the item that was at the head when checked.    *)
PeekIsTheItem == Ring!PeekIsTheItem

(* A ring_queue_count that saw head twice the same was exact at one moment.   *)
CountWasTrue == Ring!CountWasTrue

(* ring_queue_push_/pop_ and ring_queue_push_mp_/pop_mc_ implement the FIFO.   *)
ImplementsFifo == Ring!ImplementsFifo
=============================================================================
