----------------------------- MODULE MemChunks -------------------------------
(***************************************************************************)
(* The chunks of memory_pool.c: each thread's cache, the global cache, the *)
(* segments that chunks are carved from by bump, and the purge that gives  *)
(* idle segments back to the operating system.                             *)
(*                                                                         *)
(* What happens under cache_lock is one action.  Time is left open: any    *)
(* evaluation of the purge may come too early, and any idle segment but    *)
(* the one idle since now may have been so for long enough.                *)
(***************************************************************************)
EXTENDS Integers, Sequences, SequencesExt, FiniteSets, FiniteSetsExt

CONSTANTS
    Threads,
    Segs, NoSeg,     \* addresses the operating system has for segments
    Spans,           \* MEMOP_SEG_SPANS: chunk 0 holds the header
    LocalMax,        \* MEMOP_HEAP_CACHE_MAX
    Low, High,       \* MEMOP_PURGE_LOW and HIGH, in chunks
    Smooth           \* 1 << MEMOP_PURGE_EWMA_SHIFT

(* What the code's parameters satisfy. *)
ChunkAssumption ==
    /\ NoSeg \notin Segs
    /\ {Spans, LocalMax, Smooth} \subseteq Nat \ {0} /\ Spans > 1
    /\ Low \in Nat /\ High \in Nat /\ Low <= High

AllChunks == Segs \X (1 .. Spans - 1)
SegOf(c) == c[1]    \* MEMOP_SEG_OF

VARIABLES
    mapped,      \* the segments the operating system has given us
    segments,    \* G.segments, the current one first
    next_chunk, live,               \* of each segment
    span_cache, cache_count,        \* G: the global cache
    cache_avg, purging,             \* G: the state of the purge
    heap,        \* the threads with g_heap set
    local,       \* MemHeap.local_cache (local_count = Len)
    pc,          \* per thread: "out", "new", "push", "ending", "local"
    seg,         \* chunk_acquire: the segment just obtained
    inuse,       \* the chunks callers hold
    raced        \* history: two threads were making a segment at once

global == <<mapped, segments, next_chunk, live>>
cache  == <<span_cache, cache_count, cache_avg, purging>>
vars == <<global, cache, heap, local, pc, seg, inuse, raced>>

Init ==
    /\ mapped = {} /\ segments = <<>>
    /\ next_chunk = [s \in Segs |-> 0] /\ live = [s \in Segs |-> 0]
    /\ span_cache = <<>> /\ cache_count = 0 /\ cache_avg = 0 /\ purging = FALSE
    /\ heap = {} /\ local = [t \in Threads |-> <<>>]
    /\ pc = [t \in Threads |-> "out"] /\ seg = [t \in Threads |-> NoSeg]
    /\ inuse = {} /\ raced = FALSE

Goto(t, at) == pc' = [pc EXCEPT ![t] = at]
GetHeap(t)  == heap' = heap \cup {t}
HandOut(c)  == inuse' = inuse \cup {c}
GiveBack(c) == c \in inuse /\ inuse' = inuse \ {c}

-----------------------------------------------------------------------------
(* chunk_acquire *)

AcquireLocal(t) ==
    /\ pc[t] = "out" /\ local[t] # <<>>
    /\ HandOut(Head(local[t]))
    /\ local' = [local EXCEPT ![t] = Tail(@)]
    /\ UNCHANGED <<global, cache, heap, pc, seg, raced>>

(* Bug seeded in AcquireCached: the segment is not counted as used again. *)
MAcquireCachedUncounted(t) ==
    /\ pc[t] = "out" /\ local[t] = <<>> /\ span_cache # <<>>
    /\ GetHeap(t) /\ HandOut(Head(span_cache))
    /\ span_cache' = Tail(span_cache) /\ cache_count' = cache_count - 1
    /\ UNCHANGED <<global, cache_avg, purging, local, pc, seg, raced>>

AcquireCached(t) ==
    /\ pc[t] = "out" /\ local[t] = <<>> /\ span_cache # <<>>
    /\ GetHeap(t) /\ HandOut(Head(span_cache))
    /\ span_cache' = Tail(span_cache) /\ cache_count' = cache_count - 1
    /\ live' = [live EXCEPT ![SegOf(Head(span_cache))] = @ + 1]
    /\ UNCHANGED <<mapped, segments, next_chunk, cache_avg, purging, local, pc, seg, raced>>

(* The segment chunks are carved from still has some. *)
CanBump == segments # <<>> /\ next_chunk[Head(segments)] < Spans

AcquireBump(t) ==
    /\ pc[t] = "out" /\ local[t] = <<>> /\ span_cache = <<>> /\ CanBump
    /\ GetHeap(t)
    /\ LET s == Head(segments)
       IN  /\ HandOut(<<s, next_chunk[s]>>)
           /\ next_chunk' = [next_chunk EXCEPT ![s] = @ + 1]
           /\ live' = [live EXCEPT ![s] = @ + 1]
    /\ UNCHANGED <<mapped, segments, cache, local, pc, seg, raced>>

(* Nothing left: the lock is released before the system is asked. *)
AcquireNone(t) ==
    /\ pc[t] = "out" /\ local[t] = <<>> /\ span_cache = <<>> /\ ~CanBump
    /\ GetHeap(t) /\ Goto(t, "new")
    /\ raced' = (raced \/ \E r \in Threads : pc[r] \in {"new", "push"})
    /\ UNCHANGED <<global, cache, local, seg, inuse>>

(* seg_os_alloc: a new segment, whose chunk 1 is the caller's; or NULL. *)
NewSegment(t) ==
    /\ pc[t] = "new"
    /\ \/ \E s \in Segs \ mapped :
            /\ mapped' = mapped \cup {s}
            /\ next_chunk' = [next_chunk EXCEPT ![s] = 2]
            /\ live' = [live EXCEPT ![s] = 1]
            /\ seg' = [seg EXCEPT ![t] = s]
            /\ Goto(t, "push")
       \/ Goto(t, "out") /\ UNCHANGED <<mapped, next_chunk, live, seg>>
    /\ UNCHANGED <<segments, cache, heap, local, inuse, raced>>

(* Bug seeded in PushSegment: the new segment goes to the end of the list. *)
MPushSegmentLast(t) ==
    /\ pc[t] = "push"
    /\ segments' = Append(segments, seg[t])
    /\ HandOut(<<seg[t], 1>>)
    /\ seg' = [seg EXCEPT ![t] = NoSeg]
    /\ Goto(t, "out")
    /\ UNCHANGED <<mapped, next_chunk, live, cache, heap, local, raced>>

PushSegment(t) ==
    /\ pc[t] = "push"
    /\ segments' = <<seg[t]>> \o segments
    /\ HandOut(<<seg[t], 1>>)
    /\ seg' = [seg EXCEPT ![t] = NoSeg]
    /\ Goto(t, "out")
    /\ UNCHANGED <<mapped, next_chunk, live, cache, heap, local, raced>>

-----------------------------------------------------------------------------
(* The purge *)

(* Bug seeded in Doomed: the target is not counted down. *)
MDoomedPastTarget(old, target) == IF target > 0 THEN old ELSE {}

(* purge_apply_locked, given the segments found idle for long enough: from the *)
(* head of the list on, until the chunks they hold make up the target.         *)
Doomed(old, target) ==
    {segments[i] : i \in {j \in DOMAIN segments : segments[j] \in old /\ target >
        MapThenSumSet(LAMBDA k : next_chunk[segments[k]] - 1,
                      {k \in 1 .. j - 1 : segments[k] \in old})}}

Idle(lives) == {s \in ToSet(segments) : lives[s] = 0}

(* Bug seeded in GiveToSystem: the global cache keeps their chunks. *)
MGiveToSystemKeepsCache(doomed, chunks) ==
    /\ mapped' = mapped \ doomed
    /\ segments' = SelectSeq(segments, LAMBDA s : s \notin doomed)
    /\ span_cache' = chunks
    /\ cache_count' = cache_count + Len(span_cache') - Len(span_cache)

(* They leave the list, their chunks leave the cache, the memory goes back. *)
GiveToSystem(doomed, chunks) ==
    /\ mapped' = mapped \ doomed
    /\ segments' = SelectSeq(segments, LAMBDA s : s \notin doomed)
    /\ span_cache' = SelectSeq(chunks, LAMBDA c : SegOf(c) \notin doomed)
    /\ cache_count' = cache_count + Len(span_cache') - Len(span_cache)

Quot(a, b) == IF a >= 0 THEN a \div b ELSE -((-a) \div b)   \* C division

(* memop_purge_locked, chunk c having just made its segment idle. *)
AutoPurge(c, lives, chunks) ==
    LET avg == cache_avg + Quot(cache_count + 1 - cache_avg, Smooth)
        on  == IF purging THEN avg >= Low ELSE avg > High
    IN  \/ GiveToSystem({}, chunks) /\ UNCHANGED <<cache_avg, purging>>  \* too early
        \/ /\ cache_avg' = avg /\ purging' = on
           /\ \E old \in SUBSET (Idle(lives) \ {SegOf(c)}) :
                GiveToSystem(IF on THEN Doomed(old, cache_count + 1 - Low) ELSE {}, chunks)

(* memop_purge: every idle segment, at once. *)
Purge ==
    /\ GiveToSystem(Idle(live), span_cache)
    /\ UNCHANGED <<next_chunk, live, cache_avg, purging, heap, local, pc, seg, inuse, raced>>

-----------------------------------------------------------------------------
(* chunk_release *)

ReleaseLocal(t, c) ==
    /\ pc[t] = "out" /\ t \in heap /\ Len(local[t]) < LocalMax
    /\ GiveBack(c)
    /\ local' = [local EXCEPT ![t] = <<c>> \o @]
    /\ UNCHANGED <<global, cache, heap, pc, seg, raced>>

(* To the global cache; the last chunk of a segment may set off the purge. *)
ToGlobal(c) ==
    LET chunks == <<c>> \o span_cache
    IN  /\ live' = [live EXCEPT ![SegOf(c)] = IF @ > 0 THEN @ - 1 ELSE @]
        /\ IF live'[SegOf(c)] = 0
           THEN AutoPurge(c, live', chunks)
           ELSE /\ span_cache' = chunks /\ cache_count' = cache_count + 1
                /\ UNCHANGED <<mapped, segments, cache_avg, purging>>
        /\ UNCHANGED next_chunk

ReleaseGlobal(t, c) ==
    /\ pc[t] = "out" /\ (t \notin heap \/ Len(local[t]) >= LocalMax)
    /\ GiveBack(c)
    /\ ToGlobal(c)
    /\ UNCHANGED <<heap, local, pc, seg, raced>>

-----------------------------------------------------------------------------
(* memop_on_ended_thread: the spans left empty, then chunk_local_to_global. *)

EndThread(t) ==
    /\ pc[t] = "out" /\ t \in heap /\ Goto(t, "ending")
    /\ UNCHANGED <<global, cache, heap, local, seg, inuse, raced>>

EndSpan(t, c) ==
    /\ pc[t] = "ending"
    /\ GiveBack(c)
    /\ ToGlobal(c)
    /\ UNCHANGED <<heap, local, pc, seg, raced>>

EndLocal(t) ==
    /\ pc[t] \in {"ending", "local"} /\ local[t] # <<>>
    /\ ToGlobal(Head(local[t]))
    /\ local' = [local EXCEPT ![t] = Tail(@)]
    /\ Goto(t, "local")
    /\ UNCHANGED <<heap, seg, inuse, raced>>

(* The thread is over; another one with a new heap may take its place. *)
Ended(t) ==
    /\ pc[t] \in {"ending", "local"} /\ local[t] = <<>>
    /\ Goto(t, "out") /\ heap' = heap \ {t}
    /\ UNCHANGED <<global, cache, local, seg, inuse, raced>>

-----------------------------------------------------------------------------
(* Every segment goes back, whoever held its chunks. *)
segments_free_all == mapped' = {} /\ segments' = <<>> /\ span_cache' = <<>> /\ cache_count' = 0

(* memop_shutdown, called by t when no other thread is left that allocates. *)
Shutdown(t) ==
    /\ heap \subseteq {t} /\ \A r \in Threads : pc[r] = "out"
    /\ segments_free_all /\ cache_avg' = 0 /\ purging' = FALSE
    /\ heap' = {} /\ local' = [local EXCEPT ![t] = <<>>]
    /\ inuse' = {} /\ raced' = FALSE
    /\ UNCHANGED <<next_chunk, live, pc, seg>>

-----------------------------------------------------------------------------
Next ==
    \/ Purge
    \/ \E t \in Threads :
        \/ AcquireLocal(t) \/ AcquireCached(t) \/ AcquireBump(t) \/ AcquireNone(t)
        \/ NewSegment(t) \/ PushSegment(t)
        \/ EndThread(t) \/ EndLocal(t) \/ Ended(t) \/ Shutdown(t)
        \/ \E c \in inuse : ReleaseLocal(t, c) \/ ReleaseGlobal(t, c) \/ EndSpan(t, c)

Spec == Init /\ [][Next]_vars
-----------------------------------------------------------------------------
(* What must hold. *)

TypeOK ==
    /\ mapped \subseteq Segs /\ segments \in Seq(mapped) /\ IsInjective(segments)
    /\ next_chunk \in [Segs -> 0 .. Spans] /\ live \in [Segs -> 0 .. Spans - 1]
    /\ span_cache \in Seq(AllChunks) /\ cache_count \in Nat /\ cache_avg \in Nat
    /\ purging \in BOOLEAN
    /\ heap \subseteq Threads /\ local \in [Threads -> Seq(AllChunks)]
    /\ \A t \in Threads : Len(local[t]) <= LocalMax
    /\ pc \in [Threads -> {"out", "new", "push", "ending", "local"}]
    /\ seg \in [Threads -> Segs \cup {NoSeg}]
    /\ inuse \subseteq AllChunks /\ raced \in BOOLEAN

(* The chunks handed out at least once by the segments in the list. *)
Doled == UNION {{<<s, i>> : i \in 1 .. next_chunk[s] - 1} : s \in ToSet(segments)}

(* Each of them is in one place, held by a caller, in one thread's cache or in *)
(* the global one; and nobody holds, and no cache keeps, a chunk of a segment  *)
(* that went back to the system.                                               *)
ChunksInOnePlace ==
    /\ inuse \cup ToSet(span_cache) \cup UNION {ToSet(local[t]) : t \in Threads} = Doled
    /\ Cardinality(inuse) + Len(span_cache) + MapThenSumSet(LAMBDA t : Len(local[t]), Threads)
         = Cardinality(Doled)

(* MemSegment.live: "chunks doled atualmente FORA do cache global", whether in *)
(* use or in the cache of some thread, living or ended; cache_count likewise.  *)
LiveExact ==
    /\ \A s \in ToSet(segments) :
          live[s] = Cardinality({c \in Doled \ ToSet(span_cache) : SegOf(c) = s})
    /\ cache_count = Len(span_cache)

(* "para ao atingir 'target'": an automatic purge leaves LOW chunks cached, but *)
(* for the last segment it took.                                                *)
LeavesLow == (~(mapped \subseteq mapped') /\ live # live') => cache_count' > Low - (Spans - 1)
PurgeKeepsLow == [][LeavesLow]_vars

(* "chunks 2..63 ficam para bump": a segment that is no longer the current one *)
(* has none left.  It is so until two threads make a segment at once; then one *)
(* is buried, its chunks out of reach until those before it are purged.        *)
SegmentsUsedUp == ~raced => \A i \in 2 .. Len(segments) : next_chunk[segments[i]] = Spans
=============================================================================
