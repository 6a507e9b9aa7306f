----------------------------- MODULE TaskDeque ------------------------------
(***************************************************************************)
(* What a worker's deque promises the thread pool: a bounded sequence of   *)
(* tasks; its owner adds and removes at the young end, thieves remove at   *)
(* the old end, and each removal hands over one whole task.                *)
(***************************************************************************)
EXTENDS Naturals, Sequences

CONSTANTS Tasks, NoTask, Owner, Thieves, Cap

VARIABLES
    content,  \* oldest first
    result    \* per agent: what its last take or steal returned (fn, arg)

vars == <<content, result>>

Agents == {Owner} \cup Thieves

Init ==
    /\ content = <<>>
    /\ result = [a \in Agents |-> <<NoTask, NoTask>>]

Push(t) ==
    /\ Len(content) < Cap
    /\ content' = Append(content, t)
    /\ UNCHANGED result

(* The task is whole: fn and arg belong together. *)
Hand(a, t) == result' = [result EXCEPT ![a] = <<t, t>>]

Take ==
    /\ content # <<>>
    /\ Hand(Owner, content[Len(content)])
    /\ content' = SubSeq(content, 1, Len(content) - 1)

(* The owner finds nothing only when there is nothing. *)
TakeNothing ==
    /\ content = <<>>
    /\ result' = [result EXCEPT ![Owner] = <<NoTask, NoTask>>]
    /\ UNCHANGED content

Steal(h) ==
    /\ content # <<>>
    /\ Hand(h, Head(content))
    /\ content' = Tail(content)

(* A thief may come back with nothing at any time. *)
StealNothing(h) ==
    /\ result' = [result EXCEPT ![h] = <<NoTask, NoTask>>]
    /\ UNCHANGED content

Next ==
    \/ \E t \in Tasks : Push(t)
    \/ Take \/ TakeNothing
    \/ \E h \in Thieves : Steal(h) \/ StealNothing(h)

Spec == Init /\ [][Next]_vars
=============================================================================
