-------------------------------- MODULE Lists --------------------------------
(***************************************************************************)
(* list_hander.c: ListX, a growing vector of pointers to items of others.  *)
(* One thread works; any allocation may fail.  Nobody sets Active when a   *)
(* list is made: it is what the memory held.                               *)
(***************************************************************************)
EXTENDS Integers, Sequences, SequencesExt

CONSTANTS
    Items,           \* the instances callers put in
    Counts,          \* initial counts asked for
    Default,         \* INITIAL_LIST_COUNT
    Hole,            \* a place of the vector nobody wrote
    Steps            \* bound on the calls

VARIABLES
    made,      \* there is a ListX
    active, max, count,
    cells,     \* Items; NoCells for NULL
    handler,   \* g_error_handler: the library's own or the program's
    crashed,
    log,       \* history: what was added and not removed, in order
    steps

vars == <<made, active, max, count, cells, handler, crashed, log, steps>>

NoCells == <<-1>>
Holes(n) == [i \in 1 .. n |-> Hole]
Live == made /\ ~crashed

Init ==
    /\ made = FALSE /\ active = FALSE /\ max = 0 /\ count = 0
    /\ cells = NoCells /\ handler \in {"own", "program"} /\ crashed = FALSE
    /\ log = <<>> /\ steps = 0

Step == ~crashed /\ steps < Steps /\ steps' = steps + 1 /\ UNCHANGED handler

(* xpb_event_trigger_error: the library's own handler reads where the error came *)
(* from, and it is told nowhere.                                                 *)
Fails(failed) == crashed' = (failed /\ handler = "own")

-----------------------------------------------------------------------------
(* list_init, and list_create once it has the ListX: an allocation of nothing   *)
(* gives nothing.                                                               *)
ListInit(n) ==
    /\ Step /\ ~made
    /\ made' = TRUE /\ active' \in BOOLEAN
    /\ max' = (IF n >= 0 THEN n ELSE Default) /\ count' = 0
    /\ cells' \in {NoCells} \cup (IF max' > 0 THEN {Holes(max')} ELSE {})
    /\ Fails(cells' = NoCells)
    /\ UNCHANGED log

(* list_create without memory for the ListX. *)
ListCreateFails ==
    /\ Step /\ ~made
    /\ Fails(TRUE)
    /\ UNCHANGED <<made, active, max, count, cells, log>>

Put(vector, item) ==
    /\ cells' = [vector EXCEPT ![count + 1] = item]
    /\ count' = count + 1 /\ log' = Append(log, item)
    /\ crashed' = FALSE

(* list_add where there is room: the vector may not be there at all. *)
ListAdd(item) ==
    /\ Step /\ made /\ count + 1 < max
    /\ \/ cells # NoCells /\ Put(cells, item)
       \/ cells = NoCells /\ crashed' = TRUE /\ UNCHANGED <<cells, count, log>>
    /\ UNCHANGED <<made, active, max>>

(* Bug seeded in Grown: the new vector is not the old one's continuation. *)
MGrownAnew == Holes(max * 2)

(* memop_realloc_raw, which makes a vector when there is none. *)
Grown == (IF cells = NoCells THEN Holes(max) ELSE cells) \o Holes(max)

(* list_add to a vector that would be full: twice as large first. *)
ListAddGrows(item) ==
    /\ Step /\ made /\ count + 1 >= max
    /\ \/ max > 0 /\ Put(Grown, item) /\ max' = max * 2
       \/ Fails(TRUE) /\ UNCHANGED <<max, count, cells, log>>
    /\ UNCHANGED <<made, active>>

(* An item of another size than the list's. *)
ListAddWrongSize ==
    /\ Step /\ made
    /\ Fails(TRUE)
    /\ UNCHANGED <<made, active, max, count, cells, log>>

(* Bug seeded in Without: the last item is not moved down. *)
MWithout(i) == [k \in DOMAIN cells |-> IF k \in i .. count - 2 THEN cells[k + 1] ELSE cells[k]]

(* The vector once what follows place i moved down. *)
Without(i) == [k \in DOMAIN cells |-> IF k \in i .. count - 1 THEN cells[k + 1] ELSE cells[k]]

RemovePlace(i) ==
    /\ cells' = Without(i) /\ count' = count - 1
    /\ log' = RemoveAt(log, i)
    /\ UNCHANGED <<made, active, max, crashed>>

Places(item) == {i \in 1 .. count : cells[i] = item}
First(item) == CHOOSE i \in Places(item) : \A k \in Places(item) : i <= k

ListRemove(item) ==
    /\ Step /\ made /\ active
    /\ Places(item) # {}
    /\ RemovePlace(First(item))

ListRemoveIndex(index) ==
    /\ Step /\ made /\ active
    /\ index \in 0 .. count - 1
    /\ RemovePlace(index + 1)

(* The vector goes; the ListX is the caller's, who has no list any more. *)
ListRelease ==
    /\ Step /\ made
    /\ made' = FALSE /\ active' = FALSE /\ max' = 0 /\ count' = 0
    /\ cells' = NoCells /\ log' = <<>>
    /\ UNCHANGED crashed

Next ==
    \/ \E n \in Counts : ListInit(n)
    \/ \E item \in Items : ListAdd(item) \/ ListAddGrows(item) \/ ListRemove(item)
    \/ \E index \in 0 .. count : ListRemoveIndex(index)
    \/ ListCreateFails \/ ListAddWrongSize \/ ListRelease

Spec == Init /\ [][Next]_vars
-----------------------------------------------------------------------------
(* What must hold. *)

(* The list is what was added to it and not removed, in the order of the adds,    *)
(* through every growth and every removal, inside a vector that has room for one  *)
(* more; adding to a list with no vector never leaves a count without items.      *)
ListIsTheLog ==
    Live =>
        /\ count = Len(log)
        /\ cells = NoCells => count = 0
        /\ cells # NoCells => /\ Len(cells) = max /\ count < max
                              /\ SubSeq(cells, 1, count) = log
=============================================================================
