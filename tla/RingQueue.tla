----------------------------- MODULE RingQueue ------------------------------
(***************************************************************************)
(* The public ring of ring_queue.c: one producer and one consumer          *)
(* (ring_queue_push_, ring_queue_pop_), or many of each                    *)
(* (ring_queue_push_mp_, ring_queue_pop_mc_), with agents that look at the *)
(* oldest item without taking it (ring_queue_peek_) and that count.        *)
(* Counters are uint32_t: here they wrap at Modulus, and start at First so *)
(* that they do.  The interlocked operations of the code order each other. *)
(***************************************************************************)
EXTENDS Integers, Sequences

CONSTANTS
    Items, NoItem,      \* what is queued, each item once
    Producers, Consumers, Lookers,
    Teams,              \* which of them may call on one ring: a set of sets
    Slots,              \* capacity, a power of two
    Modulus, First,     \* 2^w of the counters, and where they start
    Retries             \* attempts of ring_queue_count and ring_queue_peek_

VARIABLES
    mode,       \* "one" (push_, pop_), "many" (push_mp_, pop_mc_), "broken"
    team,       \* who calls
    head, tail, seqno, guard, cell,  \* RingQueue (guard: peek_guard), the caller's buffer
    me,         \* per agent: its place and its local variables
    answer,     \* per agent: what its last call returned, <<>> for false
    unsent,     \* items not yet offered
    log         \* history: items in the order they entered

shared == <<mode, team, head, tail, seqno, guard, cell>>
vars   == <<shared, me, answer, unsent, log>>

Agents == Producers \cup Consumers \cup Lookers
Index == 0 .. Slots - 1
Pos(i) == i % Slots
Plus(i, n) == (i + n) % Modulus
Minus(i, j) == (i - j) % Modulus
Negative(d) == d >= Modulus \div 2

(* at: h or t of the call; t, sure: count's t, and whether h1 = h2; truth:   *)
(* history, items queued when count read tail.                              *)
Idle == [pc |-> "idle", at |-> 0, t |-> 0, sure |-> FALSE, tries |-> 0,
         item |-> NoItem, truth |-> 0]

(* ring_queue_init: a capacity that is not a power of two, or a failed malloc, *)
(* leaves a ring that refuses every call ("broken").                           *)
Init ==
    /\ mode \in {"one", "many", "broken"}
    /\ team \in Teams
    /\ head = First /\ tail = First
    /\ seqno = [i \in Index |-> Plus(First, (i - First) % Slots)]
    /\ guard = [i \in Index |-> 0]
    /\ cell = [i \in Index |-> NoItem]
    /\ me = [a \in Agents |-> Idle]
    /\ answer = [a \in Agents |-> <<>>]
    /\ unsent = Items /\ log = <<>>

At(a, where) == me[a].pc = where
Returns(a, what) ==
    /\ answer' = [answer EXCEPT ![a] = what]
    /\ me' = [me EXCEPT ![a] = Idle]

(* In mode "one" at most one producer and one consumer call at a time. *)
Alone(group) == mode = "one" => \A a \in group : At(a, "idle")

(* Instances that differ only in local variables. *)
Local == UNCHANGED <<shared, answer, unsent, log>>

-----------------------------------------------------------------------------
(* ring_queue_count: head, tail, head again; Retries times, then unconfirmed. *)

CountHead(a) ==
    /\ At(a, "h1")
    /\ me' = [me EXCEPT ![a].at = head, ![a].pc = "t"]
    /\ Local

CountTail(a) ==
    /\ At(a, "t")
    /\ me' = [me EXCEPT ![a].t = tail, ![a].truth = Minus(tail, head),
                        ![a].pc = IF me[a].tries < Retries THEN "h2" ELSE "counted"]
    /\ Local

(* Bug seeded in CountAgain: the second read of head is not compared. *)
MCountAgainBlind(a) ==
    /\ At(a, "h2")
    /\ me' = [me EXCEPT ![a].sure = TRUE, ![a].pc = "counted"]
    /\ Local

CountAgain(a) ==
    /\ At(a, "h2")
    /\ me' = IF head = me[a].at
             THEN [me EXCEPT ![a].sure = TRUE, ![a].pc = "counted"]
             ELSE [me EXCEPT ![a].tries = @ + 1, ![a].pc = "h1"]
    /\ Local

CountStep(a) == CountHead(a) \/ CountTail(a) \/ CountAgain(a)

Count(a) ==
    LET n == Minus(me[a].t, me[a].at) IN IF n > Slots THEN Slots ELSE n

-----------------------------------------------------------------------------
(* ring_queue_push_ and ring_queue_push_mp_ *)

(* Items are interchangeable, so they are offered in one fixed order. *)
Turn(i) == unsent # {} /\ i = CHOOSE j \in unsent : TRUE

Offer(p, i) ==
    /\ At(p, "idle") /\ Turn(i) /\ Alone(Producers)
    /\ unsent' = unsent \ {i}
    /\ me' = [me EXCEPT ![p].item = i,
                        ![p].pc = IF mode = "one" THEN "h1" ELSE "tail"]
    /\ mode # "broken"
    /\ UNCHANGED <<shared, answer, log>>

OfferBroken(p, i) ==
    /\ mode = "broken" /\ Turn(i)
    /\ unsent' = unsent \ {i}
    /\ UNCHANGED <<shared, me, answer, log>>

(* ring_queue_full, then tail, which only this producer moves. *)
OfferCounted(p) ==
    /\ At(p, "counted")
    /\ IF Count(p) >= Slots
       THEN Returns(p, <<>>)
       ELSE /\ me' = [me EXCEPT ![p].at = tail, ![p].pc = "lock"]
            /\ UNCHANGED answer
    /\ UNCHANGED <<shared, unsent, log>>

OfferTail(p) ==
    /\ At(p, "tail")
    /\ me' = [me EXCEPT ![p].at = tail, ![p].pc = "seq"]
    /\ Local

(* diff = 0: the CAS on tail is tried; negative: full; positive: t is old. *)
OfferSeq(p) ==
    LET diff == Minus(seqno[Pos(me[p].at)], me[p].at)
    IN  /\ At(p, "seq")
        /\ IF diff # 0 /\ Negative(diff)
           THEN Returns(p, <<>>)
           ELSE /\ me' = [me EXCEPT ![p].pc = IF diff = 0 THEN "cas" ELSE "tail"]
                /\ UNCHANGED answer
        /\ UNCHANGED <<shared, unsent, log>>

(* Bug seeded in OfferCas: tail is stored, whatever it is by now. *)
MOfferStoreTail(p) ==
    /\ At(p, "cas")
    /\ tail' = Plus(me[p].at, 1) /\ log' = Append(log, me[p].item)
    /\ me' = [me EXCEPT ![p].pc = "lock"]
    /\ UNCHANGED <<mode, team, head, seqno, guard, cell, answer, unsent>>

OfferCas(p) ==
    /\ At(p, "cas")
    /\ IF tail = me[p].at
       THEN /\ tail' = Plus(tail, 1) /\ log' = Append(log, me[p].item)
            /\ me' = [me EXCEPT ![p].pc = "lock"]
       ELSE /\ me' = [me EXCEPT ![p].pc = "tail"]
            /\ UNCHANGED <<tail, log>>
    /\ UNCHANGED <<mode, team, head, seqno, guard, cell, answer, unsent>>

(* ring_writer_lock: waits until no looker holds the cell. *)
OfferLock(p) ==
    /\ At(p, "lock") /\ guard[Pos(me[p].at)] = 0
    /\ guard' = [guard EXCEPT ![Pos(me[p].at)] = -1]
    /\ me' = [me EXCEPT ![p].pc = "write"]
    /\ UNCHANGED <<mode, team, head, tail, seqno, cell, answer, unsent, log>>

OfferWrite(p) ==
    /\ At(p, "write")
    /\ cell' = [cell EXCEPT ![Pos(me[p].at)] = me[p].item]
    /\ guard' = [guard EXCEPT ![Pos(me[p].at)] = 0]
    /\ me' = [me EXCEPT ![p].pc = "publish"]
    /\ UNCHANGED <<mode, team, head, tail, seqno, answer, unsent, log>>

(* In mode "one" the item can be looked at from here on, before it counts. *)
OfferPublish(p) ==
    /\ At(p, "publish")
    /\ seqno' = [seqno EXCEPT ![Pos(me[p].at)] = Plus(me[p].at, 1)]
    /\ IF mode = "one"
       THEN /\ log' = Append(log, me[p].item)
            /\ me' = [me EXCEPT ![p].pc = "advance"] /\ UNCHANGED answer
       ELSE Returns(p, <<me[p].item>>) /\ UNCHANGED log
    /\ UNCHANGED <<mode, team, head, tail, guard, cell, unsent>>

OfferAdvance(p) ==
    /\ At(p, "advance")
    /\ tail' = Plus(tail, 1)
    /\ Returns(p, <<me[p].item>>)
    /\ UNCHANGED <<mode, team, head, seqno, guard, cell, unsent, log>>

OfferStep(p) ==
    \/ \E i \in Items : Offer(p, i) \/ OfferBroken(p, i)
    \/ CountStep(p) \/ OfferCounted(p) \/ OfferTail(p) \/ OfferSeq(p) \/ OfferCas(p)
    \/ OfferLock(p) \/ OfferWrite(p) \/ OfferPublish(p) \/ OfferAdvance(p)

-----------------------------------------------------------------------------
(* ring_queue_pop_ and ring_queue_pop_mc_ *)

Take(c) ==
    /\ At(c, "idle") /\ Alone(Consumers)
    /\ IF mode = "broken"
       THEN Returns(c, <<>>)
       ELSE /\ me' = [me EXCEPT ![c].pc = IF mode = "one" THEN "h1" ELSE "head"]
            /\ UNCHANGED answer
    /\ UNCHANGED <<shared, unsent, log>>

(* ring_queue_empty, then head, which only this consumer moves. *)
TakeCounted(c) ==
    /\ At(c, "counted")
    /\ IF Count(c) = 0
       THEN Returns(c, <<>>)
       ELSE /\ me' = [me EXCEPT ![c].at = head, ![c].pc = "read"]
            /\ UNCHANGED answer
    /\ UNCHANGED <<shared, unsent, log>>

TakeHead(c) ==
    /\ At(c, "head")
    /\ me' = [me EXCEPT ![c].at = head, ![c].pc = "seq"]
    /\ Local

TakeSeq(c) ==
    LET diff == Minus(seqno[Pos(me[c].at)], Plus(me[c].at, 1))
    IN  /\ At(c, "seq")
        /\ IF diff # 0 /\ Negative(diff)
           THEN Returns(c, <<>>)
           ELSE /\ me' = [me EXCEPT ![c].pc = IF diff = 0 THEN "cas" ELSE "head"]
                /\ UNCHANGED answer
        /\ UNCHANGED <<shared, unsent, log>>

TakeCas(c) ==
    /\ At(c, "cas")
    /\ head' = IF head = me[c].at THEN Plus(head, 1) ELSE head
    /\ me' = [me EXCEPT ![c].pc = IF head = me[c].at THEN "read" ELSE "head"]
    /\ UNCHANGED <<mode, team, tail, seqno, guard, cell, answer, unsent, log>>

TakeRead(c) ==
    /\ At(c, "read")
    /\ me' = [me EXCEPT ![c].item = cell[Pos(me[c].at)], ![c].pc = "recycle"]
    /\ Local

TakeRecycle(c) ==
    /\ At(c, "recycle")
    /\ seqno' = [seqno EXCEPT ![Pos(me[c].at)] = Plus(me[c].at, Slots)]
    /\ IF mode = "one"
       THEN me' = [me EXCEPT ![c].pc = "advance"] /\ UNCHANGED answer
       ELSE Returns(c, <<me[c].item>>)
    /\ UNCHANGED <<mode, team, head, tail, guard, cell, unsent, log>>

TakeAdvance(c) ==
    /\ At(c, "advance")
    /\ head' = Plus(head, 1)
    /\ me' = [me EXCEPT ![c].pc = "give"]
    /\ UNCHANGED <<mode, team, tail, seqno, guard, cell, answer, unsent, log>>

TakeGive(c) ==
    /\ At(c, "give")
    /\ Returns(c, <<me[c].item>>)
    /\ UNCHANGED <<shared, unsent, log>>

TakeStep(c) ==
    \/ Take(c) \/ CountStep(c) \/ TakeCounted(c) \/ TakeHead(c) \/ TakeSeq(c) \/ TakeCas(c)
    \/ TakeRead(c) \/ TakeRecycle(c) \/ TakeAdvance(c) \/ TakeGive(c)

-----------------------------------------------------------------------------
(* ring_queue_peek_, and a call of ring_queue_count for its own sake. *)

LookCount(k) ==
    /\ At(k, "idle") /\ mode # "broken"
    /\ me' = [me EXCEPT ![k].pc = "h1"]
    /\ Local

LookCounted(k) ==
    /\ At(k, "counted")
    /\ Returns(k, <<Count(k)>>)
    /\ UNCHANGED <<shared, unsent, log>>

Look(k) ==
    /\ At(k, "idle") \/ At(k, "again")
    /\ mode # "broken"
    /\ me' = [me EXCEPT ![k].at = head, ![k].pc = "seq"]
    /\ Local

Published(k) == seqno[Pos(me[k].at)] = Plus(me[k].at, 1)

LookSeq(k) ==
    /\ At(k, "seq")
    /\ IF Published(k)
       THEN me' = [me EXCEPT ![k].pc = "lock"] /\ UNCHANGED answer
       ELSE Returns(k, <<>>)
    /\ UNCHANGED <<shared, unsent, log>>

(* One attempt is over: another, or false after the last. *)
Retry(k) ==
    IF me[k].tries + 1 < Retries
    THEN me' = [me EXCEPT ![k].tries = @ + 1, ![k].pc = "again"] /\ UNCHANGED answer
    ELSE Returns(k, <<>>)

(* Bug seeded in LookLock: the item is copied without a second look at head. *)
MLookLockBlind(k) ==
    /\ At(k, "lock")
    /\ IF guard[Pos(me[k].at)] < 0
       THEN Retry(k) /\ UNCHANGED guard
       ELSE /\ guard' = [guard EXCEPT ![Pos(me[k].at)] = @ + 1]
            /\ me' = [me EXCEPT ![k].pc = "look"] /\ UNCHANGED answer
    /\ UNCHANGED <<mode, team, head, tail, seqno, cell, unsent, log>>

(* ring_reader_lock: refused while a writer holds the cell. *)
LookLock(k) ==
    /\ At(k, "lock")
    /\ IF guard[Pos(me[k].at)] < 0
       THEN Retry(k) /\ UNCHANGED guard
       ELSE /\ guard' = [guard EXCEPT ![Pos(me[k].at)] = @ + 1]
            /\ me' = [me EXCEPT ![k].pc = "recheck"] /\ UNCHANGED answer
    /\ UNCHANGED <<mode, team, head, tail, seqno, cell, unsent, log>>

LookRecheck(k) ==
    /\ At(k, "recheck")
    /\ me' = [me EXCEPT ![k].pc = IF head = me[k].at THEN "reseq" ELSE "unlock"]
    /\ Local

LookReseq(k) ==
    /\ At(k, "reseq")
    /\ me' = [me EXCEPT ![k].pc = IF Published(k) THEN "look" ELSE "unlock"]
    /\ Local

LookUnlock(k) ==
    /\ At(k, "unlock")
    /\ guard' = [guard EXCEPT ![Pos(me[k].at)] = @ - 1]
    /\ Retry(k)
    /\ UNCHANGED <<mode, team, head, tail, seqno, cell, unsent, log>>

LookCopy(k) ==
    /\ At(k, "look")
    /\ guard' = [guard EXCEPT ![Pos(me[k].at)] = @ - 1]
    /\ Returns(k, <<cell[Pos(me[k].at)]>>)
    /\ UNCHANGED <<mode, team, head, tail, seqno, cell, unsent, log>>

LookStep(k) ==
    \/ LookCount(k) \/ CountStep(k) \/ LookCounted(k)
    \/ Look(k) \/ LookSeq(k) \/ LookLock(k) \/ LookRecheck(k) \/ LookReseq(k)
    \/ LookUnlock(k) \/ LookCopy(k)

Next ==
    \/ \E p \in Producers \cap team : OfferStep(p)
    \/ \E c \in Consumers \cap team : TakeStep(c)
    \/ \E k \in Lookers \cap team : LookStep(k)

Spec == Init /\ [][Next]_vars

-----------------------------------------------------------------------------
(* What must hold. *)

(* A peek that succeeds hands over the item of the position that was the head  *)
(* when it was checked under the guard, never a later item of the same cell.   *)
Entered(i) == log[Minus(i, First) + 1]
PeekIsTheItem ==
    [][\A k \in Lookers : (At(k, "look") /\ me'[k].pc = "idle") =>
          answer'[k] = <<Entered(me[k].at)>>]_vars

(* A confirmed ring_queue_count is the number of items there were in the ring  *)
(* at one moment of the call, whatever pops and pushes happen meanwhile.       *)
CountWasTrue ==
    \A a \in Agents : (At(a, "counted") /\ me[a].sure) => Count(a) = me[a].truth

(* What ring_queue.c:231 says of push_mp_ and pop_mc_, "Bounded MPMC queue":   *)
(* the ring never holds more items than it has cells.                          *)
Bounded == Minus(tail, head) <= Slots

(* The ring as a channel from which items are taken one at a time. *)
queue == SubSeq(log, Minus(head, First) + 1, Len(log))
hand == [c \in Consumers |->
            IF me[c].pc \in (IF mode = "one" THEN {"give"} ELSE {"read", "recycle"})
            THEN <<Entered(me[c].at)>> ELSE <<>>]

Channel == INSTANCE TaskChannel
    WITH Tasks <- Items, Cap <- Slots, Batch <- 1, queue <- queue, hand <- hand,
         result <- [c \in Consumers |-> answer[c]]

(* Both pairs of operations implement the bounded FIFO: a taken item is the    *)
(* oldest, is handed over once and is read whole from the cells.               *)
ImplementsFifo == Channel!Spec

=============================================================================
