------------------------------ MODULE MemSpans -------------------------------
(***************************************************************************)
(* The spans of memory_pool.c: blocks of one size class carved from a      *)
(* chunk, owned by the heap of one thread, which takes and frees them      *)
(* without a lock while other threads push what they free on the span's    *)
(* remote list.                                                            *)
(*                                                                         *)
(* The chunk layer is used through what MemChunks shows: a chunk handed    *)
(* out is nobody else's.  Which free block a span gives is left open.      *)
(***************************************************************************)
EXTENDS Integers, Sequences, SequencesExt, FiniteSets

CONSTANTS
    Threads, Heaps, NoHeap,    \* Heaps: bound on the heaps ever created
    Chunks, NoSpan,
    Classes, Large,            \* size classes; MEMOP_CLASS_LARGE
    Count,                     \* Count[c]: blocks in a span of class c
    ScanMax                    \* MEMOP_FULL_SCAN_K

ASSUME SpanAssumption ==
    /\ NoHeap \notin Heaps /\ NoSpan \notin Chunks /\ Large \notin Classes
    /\ Count \in [Classes -> Nat] /\ \A c \in Classes : Count[c] >= 2
    /\ ScanMax \in Nat \ {0} /\ IsFiniteSet(Threads)

VARIABLES
    heap,      \* g_heap of each thread
    made,      \* heaps created
    list,      \* MemHeap.spans[class], head first
    full,      \* MemHeap.full_head .. full_tail
    taken,     \* chunks obtained from the chunk layer
    span,      \* MemSpan: the header of each chunk in use
    live,      \* blocks the program holds: <<chunk, index>>
    pc,        \* per thread: "out", "list", "scan", "create", "push", "end"
    class, cur, k, start,    \* memop_refill
    block, seen,             \* memop_free_raw of a remote block: it, and the head read
    walk                     \* memop_on_ended_thread: spans still to visit

heaps  == <<heap, made>>
lists  == <<list, full>>
refill == <<class, cur, k, start>>
remote == <<block, seen>>
vars == <<heaps, lists, taken, span, live, pc, refill, remote, walk>>

Blank == [owner |-> NoHeap, class |-> Large, free |-> {}, bump |-> 0, used |-> 0,
          full |-> FALSE, remote |-> <<>>]

Init ==
    /\ heap = [t \in Threads |-> NoHeap] /\ made = {}
    /\ list = [h \in Heaps |-> [c \in Classes |-> <<>>]]
    /\ full = [h \in Heaps |-> <<>>]
    /\ taken = {} /\ span = [s \in Chunks |-> Blank] /\ live = {}
    /\ pc = [t \in Threads |-> "out"]
    /\ class = [t \in Threads |-> Large] /\ cur = [t \in Threads |-> NoSpan]
    /\ k = [t \in Threads |-> 0] /\ start = [t \in Threads |-> NoSpan]
    /\ block = [t \in Threads |-> 0] /\ seen = [t \in Threads |-> 0]
    /\ walk = [t \in Threads |-> {}]

Goto(t, at) == pc' = [pc EXCEPT ![t] = at]
First(seq)  == IF seq = <<>> THEN NoSpan ELSE Head(seq)
After(seq, s) == LET i == CHOOSE j \in DOMAIN seq : seq[j] = s
                 IN  IF i < Len(seq) THEN seq[i + 1] ELSE NoSpan

(* The lists of heap h.  A span is in a list once at most. *)
Unlinked(seq, s) ==
    IF s \in ToSet(seq) THEN RemoveAt(seq, CHOOSE i \in DOMAIN seq : seq[i] = s) ELSE seq

list_insert_head(h, c, s) == list' = [list EXCEPT ![h][c] = <<s>> \o @]
list_unlink(h, c, s)      == list' = [list EXCEPT ![h][c] = Unlinked(@, s)]
full_push_tail(h, s)      == full' = [full EXCEPT ![h] = Append(@, s)]
full_unlink(h, s)         == full' = [full EXCEPT ![h] = Unlinked(@, s)]

(* get_heap, on the first allocation of a thread. *)
GetHeap(t) ==
    /\ pc[t] = "out" /\ heap[t] = NoHeap
    /\ \E h \in Heaps \ made : heap' = [heap EXCEPT ![t] = h] /\ made' = made \cup {h}
    /\ UNCHANGED <<lists, taken, span, live, pc, refill, remote, walk>>

-----------------------------------------------------------------------------
(* Blocks of a span header m, kept apart from the state so that a drain and    *)
(* what follows it are one step of the owner.                                  *)

Serves(m) == m.free # {} \/ m.bump < Count[m.class]

(* The block is one that was freed or, when there is none, the next by bump. *)
Given(m) == IF m.free # {} THEN m.free ELSE {m.bump + 1}
Give(m, i) ==
    [m EXCEPT !.used = @ + 1, !.free = @ \ {i}, !.bump = IF i > @ THEN i ELSE @]

(* Bug seeded in Drained: the drained blocks still count as used. *)
MDrainedKeepsUsed(m) == [m EXCEPT !.free = @ \cup ToSet(m.remote), !.remote = <<>>]

(* span_drain_remote *)
Drained(m) ==
    [m EXCEPT !.free = @ \cup ToSet(m.remote), !.used = @ - Len(m.remote), !.remote = <<>>]

-----------------------------------------------------------------------------
(* memop_alloc_raw *)

AllocFast(t, c) ==
    /\ pc[t] = "out" /\ heap[t] # NoHeap
    /\ LET s == First(list[heap[t]][c])
       IN  /\ s # NoSpan /\ Serves(span[s])
           /\ \E i \in Given(span[s]) :
                span' = [span EXCEPT ![s] = Give(@, i)] /\ live' = live \cup {<<s, i>>}
    /\ UNCHANGED <<heaps, lists, taken, pc, refill, remote, walk>>

AllocSlow(t, c) ==
    /\ pc[t] = "out" /\ heap[t] # NoHeap
    /\ LET s == First(list[heap[t]][c])
       IN  /\ s # NoSpan => ~Serves(span[s])
           /\ cur' = [cur EXCEPT ![t] = s]
    /\ class' = [class EXCEPT ![t] = c]
    /\ Goto(t, "list")
    /\ UNCHANGED <<heaps, lists, taken, span, live, k, start, remote, walk>>

(* memop_refill, the label got: span s, by now with header m, gives a block    *)
(* and comes first in its class.                                               *)
Got(t, s, m) ==
    /\ \E i \in Given(m) :
        span' = [span EXCEPT ![s] = Give(m, i)] /\ live' = live \cup {<<s, i>>}
    /\ list' = [list EXCEPT ![heap[t]][m.class] = <<s>> \o Unlinked(@, s)]
    /\ cur' = [cur EXCEPT ![t] = NoSpan] /\ start' = [start EXCEPT ![t] = NoSpan]
    /\ class' = [class EXCEPT ![t] = Large] /\ k' = [k EXCEPT ![t] = 0]
    /\ Goto(t, "out")

(* A span of the class serves, at once or after a drain. *)
RefillList(t) ==
    /\ pc[t] = "list" /\ cur[t] # NoSpan
    /\ LET m == IF Serves(span[cur[t]]) THEN span[cur[t]] ELSE Drained(span[cur[t]])
       IN  Serves(m) /\ Got(t, cur[t], m)
    /\ UNCHANGED <<heaps, full, taken, remote, walk>>

(* Bug seeded in RefillFull: only the first span of the class is looked at. *)
MRefillFullOnlyFirst(t) ==
    /\ pc[t] = "list" /\ cur[t] # NoSpan
    /\ LET s == cur[t]  h == heap[t]
       IN  /\ ~Serves(Drained(span[s]))
           /\ cur' = [cur EXCEPT ![t] = NoSpan]
           /\ list_unlink(h, class[t], s) /\ full_push_tail(h, s)
           /\ span' = [span EXCEPT ![s].full = TRUE]
    /\ UNCHANGED <<heaps, taken, live, pc, class, k, start, remote, walk>>

(* Or it is exhausted, and moves to the full list. *)
RefillFull(t) ==
    /\ pc[t] = "list" /\ cur[t] # NoSpan
    /\ LET s == cur[t]  h == heap[t]
       IN  /\ ~Serves(Drained(span[s]))
           /\ cur' = [cur EXCEPT ![t] = After(list[h][class[t]], s)]
           /\ list_unlink(h, class[t], s) /\ full_push_tail(h, s)
           /\ span' = [span EXCEPT ![s].full = TRUE]
    /\ UNCHANGED <<heaps, taken, live, pc, class, k, start, remote, walk>>

RefillListEnd(t) ==
    /\ pc[t] = "list" /\ cur[t] = NoSpan
    /\ Goto(t, "scan")
    /\ UNCHANGED <<heaps, lists, taken, span, live, refill, remote, walk>>

(* Up to K full spans are looked at for remote frees. *)
Scanned(t) == LET s == First(full[heap[t]])
              IN  IF k[t] < ScanMax /\ s # start[t] THEN s ELSE NoSpan

ScanNext(t, s) ==
    /\ k' = [k EXCEPT ![t] = @ + 1]
    /\ start' = [start EXCEPT ![t] = IF @ = NoSpan THEN s ELSE @]

RefillScanHit(t) ==
    /\ pc[t] = "scan" /\ Scanned(t) # NoSpan
    /\ LET s == Scanned(t)  h == heap[t]
           m == [Drained(span[s]) EXCEPT !.full = FALSE]
       IN  /\ span[s].remote # <<>>
           /\ full_unlink(h, s)
           /\ IF m.class = class[t]
              THEN Got(t, s, m)
              ELSE /\ span' = [span EXCEPT ![s] = m]
                   /\ list_insert_head(h, m.class, s)
                   /\ ScanNext(t, s)
                   /\ UNCHANGED <<live, pc, class, cur>>
    /\ UNCHANGED <<heaps, taken, remote, walk>>

(* Nothing came back to it: it goes to the end of the list. *)
RefillScanMiss(t) ==
    /\ pc[t] = "scan" /\ Scanned(t) # NoSpan
    /\ LET s == Scanned(t)
       IN  /\ span[s].remote = <<>>
           /\ full' = [full EXCEPT ![heap[t]] = Append(Tail(@), s)]
           /\ ScanNext(t, s)
    /\ UNCHANGED <<heaps, list, taken, span, live, pc, class, cur, remote, walk>>

RefillScanEnd(t) ==
    /\ pc[t] = "scan" /\ Scanned(t) = NoSpan
    /\ Goto(t, "create")
    /\ UNCHANGED <<heaps, lists, taken, span, live, refill, remote, walk>>

(* span_create, or NULL when no chunk can be had. *)
RefillCreate(t) ==
    /\ pc[t] = "create"
    /\ \/ \E s \in Chunks \ taken :
            /\ taken' = taken \cup {s}
            /\ Got(t, s, [Blank EXCEPT !.owner = heap[t], !.class = class[t]])
       \/ /\ Goto(t, "out") /\ UNCHANGED <<list, taken, span, live>>
          /\ cur' = [cur EXCEPT ![t] = NoSpan] /\ start' = [start EXCEPT ![t] = NoSpan]
          /\ class' = [class EXCEPT ![t] = Large] /\ k' = [k EXCEPT ![t] = 0]
    /\ UNCHANGED <<heaps, full, remote, walk>>

(* memop_alloc_large, one unit: the chunk is one block, owned by no heap. *)
AllocLarge(t) ==
    /\ pc[t] = "out" /\ heap[t] # NoHeap
    /\ \E s \in Chunks \ taken :
        /\ taken' = taken \cup {s} /\ live' = live \cup {<<s, 1>>}
        /\ span' = [span EXCEPT ![s] = [Blank EXCEPT !.used = 1]]
    /\ UNCHANGED <<heaps, lists, pc, refill, remote, walk>>

-----------------------------------------------------------------------------
(* memop_free_raw, called with a block the program holds. *)

(* chunk_release *)
Release(s) == taken' = taken \ {s} /\ span' = [span EXCEPT ![s] = Blank]

FreeLarge(t, s) ==
    /\ pc[t] = "out" /\ <<s, 1>> \in live /\ span[s].class = Large
    /\ live' = live \ {<<s, 1>>}
    /\ Release(s)
    /\ UNCHANGED <<heaps, lists, pc, refill, remote, walk>>

(* Bug seeded in FreeLocal: a full span is not linked back. *)
MFreeLocalStaysFull(t, s, i) ==
    /\ pc[t] = "out" /\ <<s, i>> \in live
    /\ span[s].class # Large /\ span[s].owner = heap[t]
    /\ live' = live \ {<<s, i>>}
    /\ span' = [span EXCEPT ![s].free = @ \cup {i}, ![s].used = @ - 1]
    /\ UNCHANGED <<heaps, lists, taken, pc, refill, remote, walk>>

(* By the owner: a full span serves again, one left empty is given back unless *)
(* it is the only one of its class.                                            *)
FreeLocal(t, s, i) ==
    /\ pc[t] = "out" /\ <<s, i>> \in live
    /\ span[s].class # Large /\ span[s].owner = heap[t]
    /\ live' = live \ {<<s, i>>}
    /\ LET h == heap[t]  c == span[s].class
           m == [span[s] EXCEPT !.free = @ \cup {i}, !.used = @ - 1]
       IN  \/ /\ m.full
              /\ span' = [span EXCEPT ![s] = [m EXCEPT !.full = FALSE]]
              /\ full_unlink(h, s) /\ list_insert_head(h, c, s)
              /\ UNCHANGED taken
           \/ /\ ~m.full /\ m.used = 0 /\ Len(list[h][c]) > 1
              /\ list_unlink(h, c, s) /\ Release(s)
              /\ UNCHANGED full
           \/ /\ ~m.full /\ ~(m.used = 0 /\ Len(list[h][c]) > 1)
              /\ span' = [span EXCEPT ![s] = m]
              /\ UNCHANGED <<lists, taken>>
    /\ UNCHANGED <<heaps, pc, refill, remote, walk>>

(* By anyone else: a Treiber push, first the head is read ... *)
Top(s) == IF span[s].remote = <<>> THEN 0 ELSE Head(span[s].remote)

FreeRemote(t, s, i) ==
    /\ pc[t] = "out" /\ <<s, i>> \in live
    /\ span[s].class # Large /\ span[s].owner # heap[t]
    /\ live' = live \ {<<s, i>>}
    /\ cur' = [cur EXCEPT ![t] = s] /\ block' = [block EXCEPT ![t] = i]
    /\ seen' = [seen EXCEPT ![t] = Top(s)]
    /\ Goto(t, "push")
    /\ UNCHANGED <<heaps, lists, taken, span, class, k, start, walk>>

(* Bug seeded in RemotePush: a plain store in place of the CAS. *)
MRemotePushStored(t) ==
    /\ pc[t] = "push"
    /\ LET s == cur[t]
       IN  span' = [span EXCEPT ![s].remote =
                        <<block[t]>> \o (IF seen[t] = 0 THEN <<>> ELSE @)]
    /\ cur' = [cur EXCEPT ![t] = NoSpan]
    /\ block' = [block EXCEPT ![t] = 0] /\ seen' = [seen EXCEPT ![t] = 0]
    /\ Goto(t, "out")
    /\ UNCHANGED <<heaps, lists, taken, live, class, k, start, walk>>

(* ... then the block is put before it, unless the head changed. *)
RemotePush(t) ==
    /\ pc[t] = "push"
    /\ LET s == cur[t]
       IN  IF Top(s) = seen[t]
           THEN /\ span' = [span EXCEPT ![s].remote = <<block[t]>> \o @]
                /\ cur' = [cur EXCEPT ![t] = NoSpan]
                /\ block' = [block EXCEPT ![t] = 0] /\ seen' = [seen EXCEPT ![t] = 0]
                /\ Goto(t, "out")
           ELSE /\ seen' = [seen EXCEPT ![t] = Top(s)]
                /\ UNCHANGED <<span, cur, block, pc>>
    /\ UNCHANGED <<heaps, lists, taken, live, class, k, start, walk>>

-----------------------------------------------------------------------------
(* memop_on_ended_thread *)

SpansOf(h) == (UNION {ToSet(list[h][c]) : c \in Classes}) \cup ToSet(full[h])

EndThread(t) ==
    /\ pc[t] = "out" /\ heap[t] # NoHeap
    /\ walk' = [walk EXCEPT ![t] = SpansOf(heap[t])]
    /\ Goto(t, "end")
    /\ UNCHANGED <<heaps, lists, taken, span, live, refill, remote>>

(* Each span is drained; one without blocks in use goes back, the others stay *)
(* in the heap that nobody owns any more.  The order of the walk is left open. *)
EndSpan(t, s) ==
    /\ pc[t] = "end" /\ s \in walk[t]
    /\ LET h == heap[t]  m == Drained(span[s])
       IN  IF m.used = 0
           THEN /\ Release(s)
                /\ IF m.full THEN full_unlink(h, s) /\ UNCHANGED list
                             ELSE list_unlink(h, m.class, s) /\ UNCHANGED full
           ELSE span' = [span EXCEPT ![s] = m] /\ UNCHANGED <<lists, taken>>
    /\ walk' = [walk EXCEPT ![t] = @ \ {s}]
    /\ UNCHANGED <<heaps, live, pc, refill, remote>>

Ended(t) ==
    /\ pc[t] = "end" /\ walk[t] = {}
    /\ heap' = [heap EXCEPT ![t] = NoHeap]
    /\ Goto(t, "out")
    /\ UNCHANGED <<made, lists, taken, span, live, refill, remote, walk>>

-----------------------------------------------------------------------------
Step(t) ==
    \/ GetHeap(t)
    \/ \E c \in Classes : AllocFast(t, c) \/ AllocSlow(t, c)
    \/ RefillList(t) \/ RefillFull(t) \/ RefillListEnd(t)
    \/ RefillScanHit(t) \/ RefillScanMiss(t) \/ RefillScanEnd(t) \/ RefillCreate(t)
    \/ AllocLarge(t) \/ RemotePush(t)
    \/ \E b \in live : FreeLarge(t, b[1]) \/ FreeLocal(t, b[1], b[2]) \/ FreeRemote(t, b[1], b[2])
    \/ EndThread(t) \/ Ended(t) \/ \E s \in walk[t] : EndSpan(t, s)

Next == \E t \in Threads : Step(t)

Spec == Init /\ [][Next]_vars

-----------------------------------------------------------------------------
(* What must hold. *)

Header == [owner : Heaps \cup {NoHeap}, class : Classes \cup {Large}, free : SUBSET Nat, bump : Nat,
           used : Nat, full : BOOLEAN, remote : Seq(Nat)]

ThreadsOK ==
    /\ heap \in [Threads -> Heaps \cup {NoHeap}]
    /\ pc \in [Threads -> {"out", "list", "scan", "create", "push", "end"}]
    /\ class \in [Threads -> Classes \cup {Large}]
    /\ cur \in [Threads -> Chunks \cup {NoSpan}] /\ start \in [Threads -> Chunks \cup {NoSpan}]
    /\ k \in [Threads -> 0 .. ScanMax] /\ walk \in [Threads -> SUBSET Chunks]
    /\ block \in [Threads -> Nat] /\ seen \in [Threads -> Nat]

SpansOK ==
    /\ made \subseteq Heaps /\ taken \subseteq Chunks /\ live \subseteq Chunks \X Nat
    /\ list \in [Heaps -> [Classes -> Seq(Chunks)]] /\ full \in [Heaps -> Seq(Chunks)]
    /\ span \in [Chunks -> Header]

TypeOK == ThreadsOK /\ SpansOK

Small == {s \in taken : span[s].class # Large}
Pushing(s) == {t \in Threads : pc[t] = "push" /\ cur[t] = s}
Owned(h) == \E t \in Threads : heap[t] = h /\ pc[t] # "end"
Held(s) == {b[2] : b \in {x \in live : x[1] = s}}

(* Every block carved from a span, and never more than fit in it, is in one   *)
(* place: held by the program, free in the span, in its remote list, or being *)
(* pushed there.  Chunks given back have none: no span is released while a    *)
(* block of it is held or on its way.                                         *)
BlocksInOnePlace ==
    /\ \A s \in Small :
        LET free   == span[s].free
            freed  == ToSet(span[s].remote)
            pushed == {block[t] : t \in Pushing(s)}
        IN  /\ Held(s) \cup free \cup freed \cup pushed = 1 .. span[s].bump
            /\ span[s].bump <= Count[span[s].class]
            /\ Held(s) \cap free = {} /\ freed \cap pushed = {}
            /\ (Held(s) \cup free) \cap (freed \cup pushed) = {}
            /\ IsInjective(span[s].remote)
            /\ \A t, u \in Pushing(s) : block[t] = block[u] => t = u
    /\ \A s \in Chunks \ taken : Held(s) = {} /\ Pushing(s) = {}

(* "o dono ajusta 'used' ao drenar": what the owner alone counts is the blocks *)
(* held plus those freed by others and not yet drained.                        *)
UsedExact ==
    \A s \in Small :
        span[s].used = Cardinality(Held(s)) + Len(span[s].remote) + Cardinality(Pushing(s))

(* Every span is in one list of its heap, once, the one its state says; and the *)
(* full list hides no block that its owner, while there is one, could give.     *)
ListsMatchState ==
    /\ \A s \in Small : /\ span[s].owner \in Heaps
                        /\ span[s].full /\ Owned(span[s].owner) => ~Serves(span[s])
    /\ \A h \in Heaps :
        /\ IsInjective(full[h]) /\ \A c \in Classes : IsInjective(list[h][c])
        /\ ToSet(full[h]) = {s \in Small : span[s].owner = h /\ span[s].full}
        /\ \A c \in Classes :
            ToSet(list[h][c])
                = {s \in Small : span[s].owner = h /\ span[s].class = c /\ ~span[s].full}

(* A thread asks for another chunk for a class only when none of its own spans of *)
(* that class has a block to give, those freed by others and not drained yet   *)
(* left aside.                                                                 *)
NewSpanOnlyWhenExhausted ==
    [][\A t \in Threads : (pc[t] = "create" /\ pc'[t] = "out") =>
          \A s \in Small : span[s].owner = heap[t] /\ span[s].class = class[t]
              => ~Serves(span[s])]_vars
=============================================================================
