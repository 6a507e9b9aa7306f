---------------------------- MODULE TaskChannel -----------------------------
(***************************************************************************)
(* What a shard queue promises the thread pool: a bounded FIFO from which  *)
(* a worker takes the oldest tasks, a batch at a time, and is handed       *)
(* exactly those, in order.  It may refuse a Put or miss at any time.      *)
(***************************************************************************)
EXTENDS Naturals, Sequences

CONSTANTS Tasks, Consumers, Cap, Batch

VARIABLES
    queue,    \* accepted and not yet taken, oldest first
    hand,     \* per consumer: taken, not yet handed over
    result    \* per consumer: what its last call returned

vars == <<queue, hand, result>>

Init ==
    /\ queue = <<>>
    /\ hand = [c \in Consumers |-> <<>>]
    /\ result = [c \in Consumers |-> <<>>]

Put(t) ==
    /\ Len(queue) < Cap
    /\ queue' = Append(queue, t)
    /\ UNCHANGED <<hand, result>>

Take(c) ==
    /\ hand[c] = <<>>
    /\ \E n \in 1 .. Batch :
        /\ n <= Len(queue)
        /\ hand' = [hand EXCEPT ![c] = SubSeq(queue, 1, n)]
        /\ queue' = SubSeq(queue, n + 1, Len(queue))
    /\ UNCHANGED result

Give(c) ==
    /\ hand[c] # <<>>
    /\ result' = [result EXCEPT ![c] = hand[c]]
    /\ hand' = [hand EXCEPT ![c] = <<>>]
    /\ UNCHANGED queue

Miss(c) ==
    /\ hand[c] = <<>>
    /\ result' = [result EXCEPT ![c] = <<>>]
    /\ UNCHANGED <<queue, hand>>

Next ==
    \/ \E t \in Tasks : Put(t)
    \/ \E c \in Consumers : Take(c) \/ Give(c) \/ Miss(c)

Spec == Init /\ [][Next]_vars
=============================================================================
