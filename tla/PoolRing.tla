------------------------------ MODULE PoolRing ------------------------------
(***************************************************************************)
(* The typed Vyukov ring of thread_pool.c (PoolRing: pool_ring_init,       *)
(* pool_ring_push, pool_ring_pop_batch), the queue of one shard.  Any      *)
(* number of submitting threads push, any number of workers pop in         *)
(* batches.  Every access to shared memory is a step of its own.           *)
(*                                                                         *)
(* Positions are kept here as they would be without wrapping; the code     *)
(* keeps their low w bits (uint32_t, Modulus = 2^32).  Every test the code *)
(* makes is made here on the low bits only: SameBits for the equality a    *)
(* CAS tests, Dif for the (int32_t) difference.                            *)
(***************************************************************************)
EXTENDS Integers

CONSTANTS
    Producers,  \* threads that call pool_ring_push
    Consumers,  \* workers that call pool_ring_pop_batch
    Tasks,      \* the tasks that are submitted, each once
    NoTask,     \* content of a cell or buffer nobody has written
    Cap,        \* number of cells (POOL_SHARD_CAP); mask = Cap - 1
    Batch,      \* most tasks one pop reserves (POOL_BATCH)
    Modulus,    \* number of values of a position (2^32)
    Start,      \* pushes, all popped, before the modelled part of the run
    MaxLag      \* positions the ring may advance while a thread is stopped
                \* between reading a position and its CAS

(* MaxLag is the one assumption the ring makes on scheduling: if a thread   *)
(* stopped inside a push or a pop for 2^31 operations of the others, the    *)
(* position it holds would be mistaken for a current one.                   *)
ASSUME RingAssumption ==
    /\ Cap \in Nat /\ Cap >= 2
    /\ Batch \in 1 .. Cap
    /\ Modulus \in Nat /\ Modulus % Cap = 0
    /\ MaxLag \in Nat /\ 2 * (MaxLag + 2 * Cap) < Modulus
    /\ Start \in Nat /\ Start % Cap = 0
    /\ NoTask \notin Tasks

VARIABLES
    tail, head, seq, cell,     \* PoolRing: tail, head, cells[].seq, cells[].t
    ppc, ppos, ptask,          \* a push: where it is, pos, *t
    cpc, cpos, cn, ci, out,    \* a pop: where it is, pos, n, i, out[]
    result,                    \* what the last pop of each consumer returned
    unsent,                    \* tasks not yet accepted nor being pushed
    log                        \* history: the task that was given each position

ring == <<tail, head, seq, cell>>
push == <<ppc, ppos, ptask, unsent, log>>
pop  == <<cpc, cpos, cn, ci, out, result>>
vars == <<ring, push, pop>>

Cells == 0 .. Cap - 1
Slot(pos) == pos % Cap

(* Equality of the w-bit values of two positions. *)
SameBits(a, b) == (a - b) % Modulus = 0

(* (int32_t)(a - b) *)
Dif(a, b) == LET d == (a - b) % Modulus
             IN  IF 2 * d < Modulus THEN d ELSE d - Modulus

(* pool_ring_init, followed by Start pushes and pops that are over. *)
Init ==
    /\ tail = Start /\ head = Start
    /\ seq  = [i \in Cells |-> Start + i]
    /\ cell = [i \in Cells |-> NoTask]
    /\ ppc = [p \in Producers |-> "idle"]
    /\ ppos = [p \in Producers |-> Start]
    /\ ptask = [p \in Producers |-> NoTask]
    /\ cpc = [c \in Consumers |-> "idle"]
    /\ cpos = [c \in Consumers |-> Start]
    /\ cn = [c \in Consumers |-> 0]
    /\ ci = [c \in Consumers |-> 0]
    /\ out = [c \in Consumers |-> [i \in 0 .. Batch - 1 |-> NoTask]]
    /\ result = [c \in Consumers |-> <<>>]
    /\ unsent = Tasks
    /\ log = [q \in Start .. Start - 1 |-> NoTask]

-----------------------------------------------------------------------------
(* pool_ring_push *)

PushStart(p, t) ==
    /\ ppc[p] = "idle" /\ t \in unsent
    /\ ptask' = [ptask EXCEPT ![p] = t]
    /\ unsent' = unsent \ {t}
    /\ ppos' = [ppos EXCEPT ![p] = tail]
    /\ ppc' = [ppc EXCEPT ![p] = "read"]
    /\ UNCHANGED <<ring, log, pop>>

(* Bug seeded in PushRead: a cell that is ahead (pos is old) counts as full. *)
MPushReadStaleIsFull(p) ==
    /\ ppc[p] = "read"
    /\ LET dif == Dif(seq[Slot(ppos[p])], ppos[p])
       IN  /\ ppc' = [ppc EXCEPT ![p] = IF dif = 0 THEN "cas" ELSE "idle"]
           /\ unsent' = IF dif # 0 THEN unsent \cup {ptask[p]} ELSE unsent
    /\ UNCHANGED <<ring, ppos, ptask, log, pop>>

(* Bug seeded in PushRead: the seqno of the cell is not looked at. *)
MPushReadSkipsSeq(p) ==
    /\ ppc[p] = "read"
    /\ ppc' = [ppc EXCEPT ![p] = "cas"]
    /\ UNCHANGED <<ring, ppos, ptask, unsent, log, pop>>

(* The cell's seqno against pos: free, full (return false), or pos is old. *)
PushRead(p) ==
    /\ ppc[p] = "read"
    /\ LET dif == Dif(seq[Slot(ppos[p])], ppos[p])
       IN  /\ ppc' = [ppc EXCEPT ![p] = IF dif = 0 THEN "cas"
                                        ELSE IF dif < 0 THEN "idle" ELSE "reload"]
           /\ unsent' = IF dif < 0 THEN unsent \cup {ptask[p]} ELSE unsent
    /\ UNCHANGED <<ring, ppos, ptask, log, pop>>

(* Advancing a position keeps every stopped thread within MaxLag of it. *)
TailMayAdvance(p) ==
    \A r \in Producers \ {p} :
        ppc[r] \in {"read", "cas", "reload"} => tail + 1 - ppos[r] <= MaxLag

(* Bug seeded in PushCas: the cell is published before the task is in it. *)
MPushCasPublishes(p) ==
    /\ ppc[p] = "cas"
    /\ IF SameBits(tail, ppos[p])
       THEN /\ TailMayAdvance(p)
            /\ tail' = tail + 1
            /\ log' = [q \in Start .. tail |-> IF q = tail THEN ptask[p] ELSE log[q]]
            /\ seq' = [seq EXCEPT ![Slot(tail)] = tail + 1]
            /\ ppc' = [ppc EXCEPT ![p] = "write"]
       ELSE /\ ppc' = [ppc EXCEPT ![p] = "reload"]
            /\ UNCHANGED <<tail, seq, log>>
    /\ UNCHANGED <<head, cell, ppos, ptask, unsent, pop>>

PushCas(p) ==
    /\ ppc[p] = "cas"
    /\ IF SameBits(tail, ppos[p])
       THEN /\ TailMayAdvance(p)
            /\ tail' = tail + 1
            /\ log' = [q \in Start .. tail |-> IF q = tail THEN ptask[p] ELSE log[q]]
            /\ ppc' = [ppc EXCEPT ![p] = "write"]
       ELSE /\ ppc' = [ppc EXCEPT ![p] = "reload"]
            /\ UNCHANGED <<tail, log>>
    /\ UNCHANGED <<head, seq, cell, ppos, ptask, unsent, pop>>

PushReload(p) ==
    /\ ppc[p] = "reload"
    /\ ppos' = [ppos EXCEPT ![p] = tail]
    /\ ppc' = [ppc EXCEPT ![p] = "read"]
    /\ UNCHANGED <<ring, ptask, unsent, log, pop>>

PushWrite(p) ==
    /\ ppc[p] = "write"
    /\ cell' = [cell EXCEPT ![Slot(ppos[p])] = ptask[p]]
    /\ ppc' = [ppc EXCEPT ![p] = "publish"]
    /\ UNCHANGED <<tail, head, seq, ppos, ptask, unsent, log, pop>>

PushPublish(p) ==
    /\ ppc[p] = "publish"
    /\ seq' = [seq EXCEPT ![Slot(ppos[p])] = ppos[p] + 1]
    /\ ppc' = [ppc EXCEPT ![p] = "idle"]
    /\ UNCHANGED <<tail, head, cell, ppos, ptask, unsent, log, pop>>

-----------------------------------------------------------------------------
(* pool_ring_pop_batch *)

PopLoad(c) ==
    /\ cpc[c] \in {"idle", "load"}
    /\ cpos' = [cpos EXCEPT ![c] = head]
    /\ cn' = [cn EXCEPT ![c] = 0]
    /\ cpc' = [cpc EXCEPT ![c] = "scan"]
    /\ UNCHANGED <<ring, push, ci, out, result>>

(* cells[pos + n] holds a published task. *)
Published(c) == Dif(seq[Slot(cpos[c] + cn[c])], cpos[c] + cn[c] + 1) = 0

(* One turn of the loop that counts the published cells from pos on. *)
PopScan(c) ==
    /\ cpc[c] = "scan"
    /\ IF cn[c] < Batch /\ Published(c)
       THEN cn' = [cn EXCEPT ![c] = @ + 1] /\ UNCHANGED cpc
       ELSE /\ cpc' = [cpc EXCEPT ![c] = IF cn[c] = 0 THEN "idle" ELSE "cas"]
            /\ UNCHANGED cn
    /\ result' = IF cn[c] = 0 /\ ~Published(c) THEN [result EXCEPT ![c] = <<>>] ELSE result
    /\ UNCHANGED <<ring, push, cpos, ci, out>>

HeadMayAdvance(c) ==
    \A r \in Consumers \ {c} :
        cpc[r] \in {"scan", "cas"} => head + cn[c] - cpos[r] <= MaxLag

PopCas(c) ==
    /\ cpc[c] = "cas"
    /\ IF SameBits(head, cpos[c])
       THEN /\ HeadMayAdvance(c)
            /\ head' = head + cn[c]
            /\ cpc' = [cpc EXCEPT ![c] = "copy"]
       ELSE cpc' = [cpc EXCEPT ![c] = "load"] /\ UNCHANGED head
    /\ ci' = [ci EXCEPT ![c] = 0]
    /\ UNCHANGED <<tail, seq, cell, push, cpos, cn, out, result>>

PopCopy(c) ==
    /\ cpc[c] = "copy"
    /\ out' = [out EXCEPT ![c][ci[c]] = cell[Slot(cpos[c] + ci[c])]]
    /\ cpc' = [cpc EXCEPT ![c] = "recycle"]
    /\ UNCHANGED <<ring, push, cpos, cn, ci, result>>

(* Bug seeded in PopRecycle: the loop over the batch ends after one cell. *)
MPopRecycleOnlyFirst(c) ==
    /\ cpc[c] = "recycle"
    /\ seq' = [seq EXCEPT ![Slot(cpos[c] + ci[c])] = cpos[c] + ci[c] + Cap]
    /\ ci' = [ci EXCEPT ![c] = @ + 1]
    /\ cpc' = [cpc EXCEPT ![c] = "idle"]
    /\ result' = [result EXCEPT ![c] = [k \in 1 .. cn[c] |-> out[c][k - 1]]]
    /\ UNCHANGED <<tail, head, cell, push, cpos, cn, out>>

(* Frees the cell for the next turn; after the last one the pop returns n. *)
PopRecycle(c) ==
    /\ cpc[c] = "recycle"
    /\ seq' = [seq EXCEPT ![Slot(cpos[c] + ci[c])] = cpos[c] + ci[c] + Cap]
    /\ ci' = [ci EXCEPT ![c] = @ + 1]
    /\ IF ci[c] + 1 = cn[c]
       THEN /\ cpc' = [cpc EXCEPT ![c] = "idle"]
            /\ result' = [result EXCEPT ![c] = [k \in 1 .. cn[c] |-> out[c][k - 1]]]
       ELSE cpc' = [cpc EXCEPT ![c] = "copy"] /\ UNCHANGED result
    /\ UNCHANGED <<tail, head, cell, push, cpos, cn, out>>

-----------------------------------------------------------------------------
PushStep(p) == PushRead(p) \/ PushCas(p) \/ PushReload(p) \/ PushWrite(p) \/ PushPublish(p)
PopStep(c)  == PopLoad(c) \/ PopScan(c) \/ PopCas(c) \/ PopCopy(c) \/ PopRecycle(c)

Next ==
    \/ \E p \in Producers : (\E t \in Tasks : PushStart(p, t)) \/ PushStep(p)
    \/ \E c \in Consumers : PopStep(c)

Spec == Init /\ [][Next]_vars

-----------------------------------------------------------------------------
(* What must hold. *)

TypeOK ==
    /\ tail \in Nat /\ head \in Nat
    /\ seq \in [Cells -> Nat]
    /\ cell \in [Cells -> Tasks \cup {NoTask}]
    /\ ppc \in [Producers -> {"idle", "read", "cas", "reload", "write", "publish"}]
    /\ ppos \in [Producers -> Nat]
    /\ ptask \in [Producers -> Tasks \cup {NoTask}]
    /\ cpc \in [Consumers -> {"idle", "load", "scan", "cas", "copy", "recycle"}]
    /\ cpos \in [Consumers -> Nat]
    /\ cn \in [Consumers -> 0 .. Batch]
    /\ ci \in [Consumers -> 0 .. Batch]
    /\ out \in [Consumers -> [0 .. Batch - 1 -> Tasks \cup {NoTask}]]
    /\ unsent \subseteq Tasks
    /\ log \in [Start .. tail - 1 -> Tasks]
    /\ \A p \in Producers : ppc[p] # "idle" => ptask[p] \in Tasks

(* The positions a thread owns between its CAS and its last write of seq. *)
Writing(p) == IF ppc[p] \in {"write", "publish"} THEN {ppos[p]} ELSE {}
Reading(c) == IF cpc[c] \in {"copy", "recycle"}
              THEN cpos[c] + ci[c] .. cpos[c] + cn[c] - 1 ELSE {}

(* No two threads ever own the same cell: the seqno alone gives exclusive    *)
(* access (thread_pool.c: "sem peek_guard (o seqno ja da exclusividade do    *)
(* slot)"), for producers that write it and consumers that copy it.          *)
ExclusiveCells ==
    /\ \A p, r \in Producers : p # r =>
          \A x \in Writing(p), y \in Writing(r) : Slot(x) # Slot(y)
    /\ \A c, d \in Consumers : c # d =>
          \A x \in Reading(c), y \in Reading(d) : Slot(x) # Slot(y)
    /\ \A p \in Producers, c \in Consumers :
          \A x \in Writing(p), y \in Reading(c) : Slot(x) # Slot(y)

(* What a pop has copied for a position is the task whose push claimed that  *)
(* position: no task is torn, read before it is written, overwritten before  *)
(* it is read, or handed over out of order.                                  *)
CopiesAreTheLog ==
    \A c \in Consumers :
        /\ cpc[c] \in {"copy", "recycle"} => \A k \in 0 .. Batch - 1 :
              (k < ci[c] \/ (k = ci[c] /\ cpc[c] = "recycle")) => out[c][k] = log[cpos[c] + k]

(* pool_ring_push answers false only when the cell it needs, the one of       *)
(* position tail - Cap, has not been given back: its task is still queued or  *)
(* a pop is still copying it.  A push that lost races, or read old values,    *)
(* never reports a full ring.                                                 *)
RefusedOnlyWhenFull ==
    [][\A p \in Producers : (ppc[p] = "read" /\ ppc'[p] = "idle") =>
          \/ tail = head + Cap
          \/ \E c \in Consumers : tail - Cap \in Reading(c)]_vars

(* The ring as a TaskChannel: a task is queued from the CAS on tail to the    *)
(* CAS on head that covers it, and in the hands of that pop until it returns. *)
queue == [k \in 1 .. tail - head |-> log[head + k - 1]]
hand  == [c \in Consumers |->
            IF cpc[c] \in {"copy", "recycle"}
            THEN [k \in 1 .. cn[c] |-> log[cpos[c] + k - 1]] ELSE <<>>]

Channel == INSTANCE TaskChannel WITH queue <- queue, hand <- hand, result <- result

(* The ring implements the bounded FIFO: every step of every interleaving is  *)
(* a step of TaskChannel or changes nothing there, and what a pop returns,    *)
(* read from the cells, is what the FIFO hands out.                           *)
ImplementsChannel == Channel!Spec

=============================================================================
