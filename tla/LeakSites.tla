------------------------------ MODULE LeakSites ------------------------------
(***************************************************************************)
(* What the leak watch knows of a span: the table in which memory_pool.c   *)
(* keeps when each span was made, and the search by which mem_leak_watch.c *)
(* finds the span a word on a stack points into.  The table is hashed by   *)
(* the span's address, with linear probing, has a fixed size, and nothing  *)
(* ever leaves it but all at once: a span at an address used before takes  *)
(* the entry over.  A frame of the stack is abstracted to the time.        *)
(***************************************************************************)
EXTENDS Integers, Sequences, SequencesExt, FiniteSets, FiniteSetsExt

CONSTANTS
    Bases,           \* addresses of spans, in units of a span
    Slots,           \* MEMOP_SITE_TABLE_SIZE
    Hash,            \* memop_site_hash: Bases -> 0 .. Slots - 1
    SpanSize,        \* MLW_SPAN_SIZE, in words
    NoSpan,
    Made             \* bound on the spans made

VARIABLES
    watched,     \* g_leak_watch_enabled
    table,       \* g_site_table: slot -> [base, made]
    spans,       \* the spans there are
    clock,       \* spans made so far: the time
    recorded     \* history: when each span was last recorded; 0: never

vars == <<watched, table, spans, clock, recorded>>

SlotSet == 0 .. Slots - 1
FreeSlot == [base |-> NoSpan, made |-> 0]

Init ==
    /\ watched = FALSE /\ table = [i \in SlotSet |-> FreeSlot]
    /\ spans = {} /\ clock = 0 /\ recorded = [b \in Bases |-> 0]

(* The slots from the span's own on, around the end of the table. *)
Probe(b) == [i \in 1 .. Slots |-> (Hash[b] + i - 1) % Slots]

(* The first that is free or the span's; none: the table is full. *)
Place(b) ==
    LET stops == {i \in 1 .. Slots : table[Probe(b)[i]].base \in {NoSpan, b}}
    IN  IF stops = {} THEN -1 ELSE Probe(b)[Min(stops)]

(* Bug seeded in site_record: whoever has the span's own slot loses it. *)
Msite_record(b, now) ==
    table' = IF watched THEN [table EXCEPT ![Hash[b]] = [base |-> b, made |-> now]] ELSE table

site_record(b, now) ==
    table' = IF watched /\ Place(b) # -1
             THEN [table EXCEPT ![Place(b)] = [base |-> b, made |-> now]] ELSE table

site_lookup(b) ==
    IF Place(b) # -1 /\ table[Place(b)].base = b THEN table[Place(b)].made ELSE 0

-----------------------------------------------------------------------------
leak_watch_enable ==
    /\ watched' = ~watched
    /\ UNCHANGED <<table, spans, clock, recorded>>

(* One kept before keeps its entry; another needs a free one. *)
HasRoom(b) == recorded[b] # 0 \/ Cardinality({c \in Bases : recorded[c] # 0}) < Slots

span_create(b) ==
    /\ clock < Made /\ b \notin spans
    /\ clock' = clock + 1 /\ spans' = spans \cup {b}
    /\ site_record(b, clock')
    /\ recorded' = [recorded EXCEPT ![b] = IF watched /\ HasRoom(b) THEN clock' ELSE @]
    /\ UNCHANGED watched

(* Its chunk is given back; what was recorded of it stays. *)
span_release(b) ==
    /\ b \in spans /\ spans' = spans \ {b}
    /\ UNCHANGED <<watched, table, clock, recorded>>

(* memop_shutdown: the only time the table is cleared. *)
shutdown ==
    /\ spans' = {} /\ table' = [i \in SlotSet |-> FreeSlot]
    /\ recorded' = [b \in Bases |-> 0]
    /\ UNCHANGED <<watched, clock>>

Next ==
    \/ leak_watch_enable \/ shutdown
    \/ \E b \in Bases : span_create(b) \/ span_release(b)

Spec == Init /\ [][Next]_vars

-----------------------------------------------------------------------------
(* The scan *)

span_cmp(a, b) == a < b
Snapshot == SetToSortSeq(spans, span_cmp)

(* Bug seeded in mark_candidate: a span's last word is taken for the next one's. *)
Mmark_candidate(found, w) ==
    LET find[lo, hi \in 0 .. Len(found)] ==
            LET mid == lo + (hi - lo) \div 2  base == found[mid + 1] * SpanSize
            IN  IF lo >= hi THEN NoSpan
                ELSE IF w < base THEN find[lo, mid]
                ELSE IF w >= base + SpanSize - 1 THEN find[mid + 1, hi]
                ELSE found[mid + 1]
    IN  IF w = 0 THEN NoSpan ELSE find[0, Len(found)]

(* The span a word points into, searched for in the sorted snapshot. *)
mark_candidate(found, w) ==
    LET find[lo, hi \in 0 .. Len(found)] ==
            LET mid == lo + (hi - lo) \div 2  base == found[mid + 1] * SpanSize
            IN  IF lo >= hi THEN NoSpan
                ELSE IF w < base THEN find[lo, mid]
                ELSE IF w >= base + SpanSize THEN find[mid + 1, hi]
                ELSE found[mid + 1]
    IN  IF w = 0 THEN NoSpan ELSE find[0, Len(found)]

-----------------------------------------------------------------------------
(* What must hold. *)

(* What was recorded of a span is found, however the addresses collide and come   *)
(* again, and is not taken for another's; a record is dropped only when every     *)
(* slot is another span's ("tabela cheia", memory_pool.c:280).                    *)
SitesFound == \A b \in Bases : site_lookup(b) = recorded[b]

(* A word marks the span it points into, and no word marks another                *)
(* ("range e exato", mem_leak_watch.c:311).                                       *)
MarksRight ==
    \A w \in 0 .. (Max(Bases) + 1) * SpanSize :
        mark_candidate(Snapshot, w) =
            IF w \div SpanSize \in spans THEN w \div SpanSize ELSE NoSpan
=============================================================================
