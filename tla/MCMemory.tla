------------------------------ MODULE MCMemory -------------------------------
(***************************************************************************)
(* The two layers of the allocator -- spans of blocks, chunks --, what is  *)
(* built on its blocks -- buffers, lists, strings --, numbers, what is     *)
(* recorded of spans, and the registry of the library's copies, one at a   *)
(* time: "part" says which one runs in a behaviour; the variables of the   *)
(* others stay as they were.                                               *)
(*                                                                         *)
(* Heaps and the calls of a caller are bounded: behaviours end, and TLC is *)
(* told not to take that for a deadlock.                                   *)
(***************************************************************************)
EXTENDS MemSpans

CONSTANTS
    a, b,                                       \* size classes
    Segs, NoSeg, SegSpans, LocalMax, Low, High, Smooth, t1, s3,
    x, sp, NUL, Junk, None, Copies, Inodes, Sizes, Offsets, Calls

VARIABLES
    part,
    mapped, segments, next_chunk, chunkLive, span_cache, cache_count, cache_avg, purging,
    chunkHeap, local, chunkPc, seg, inuse, raced,
    scene, at, registered, duplicate, blind, mutex, maps, record, name, holder, content, fd,
    blocks, buffer, handler, crashed, ideal, asked, calls,
    listed, active, max, count, cells, log,
    str, parts,
    text, parsed,
    watched, sites, spans, clock, recorded

chunkVars == <<mapped, segments, next_chunk, chunkLive, span_cache, cache_count, cache_avg,
               purging, chunkHeap, local, chunkPc, seg, inuse, raced>>
copyVars == <<scene, at, registered, duplicate, blind, mutex, maps, record, name, holder,
              content, fd>>
bufferVars == <<blocks, buffer, ideal, asked>>
listVars   == <<listed, active, max, count, cells, log>>
callVars   == <<handler, crashed, calls>>
stringVars == <<str, parts>>
numberVars == <<text, parsed>>
siteVars   == <<watched, sites, spans, clock, recorded>>
restVars   == <<stringVars, numberVars, siteVars>>
allVars == <<part, vars, chunkVars, copyVars, bufferVars, listVars, callVars, restVars>>

TwoEach == [c \in Classes |-> 2]

(* Two threads share the chunks of two segments; one alone has a third segment, *)
(* for a purge that takes some of the idle ones.                                 *)
Shared == INSTANCE MemChunks WITH
    Spans <- SegSpans, live <- chunkLive, heap <- chunkHeap, pc <- chunkPc
Alone == INSTANCE MemChunks WITH
    Threads <- {t1}, Segs <- Segs \cup {s3}, Low <- 4, High <- 4,
    Spans <- SegSpans, live <- chunkLive, heap <- chunkHeap, pc <- chunkPc

ASSUME ChunksFit == Shared!ChunkAssumption /\ Alone!ChunkAssumption

(* The callers' buffers, items and strings: two of each.  Of the sizes asked for *)
(* in the .cfg, 15 is more than a stride can say, 31 wraps with the header and 30 *)
(* wraps to nothing.                                                              *)
Two == Threads
SomeTexts == {<<x>>, <<sp>>, <<x, sp>>}
ThreeBlocks == 1 .. 3
ThreeSizes == <<1, 2, 4>>

On(os, serial, releases, leftover, fatal) ==
    [os |-> os, serial |-> serial, releases |-> releases, leftover |-> leftover, fatal |-> fatal]
Registry == INSTANCE InstanceRegistry WITH
    Scenarios <- {On("windows", FALSE, 2, FALSE, FALSE), On("windows", FALSE, 0, FALSE, TRUE),
                  On("posix", TRUE, 2, TRUE, FALSE), On("posix", TRUE, 0, TRUE, TRUE)}

Buffer == INSTANCE MemBuffers WITH
    Buffers <- Two, Blocks <- ThreeBlocks, NoBlock <- 0, ClassSizes <- ThreeSizes,
    Grain <- 1, Align <- 2, Unit <- 8, Header <- 2, Width <- 16, Space <- 32,
    block <- blocks

List == INSTANCE Lists WITH
    Items <- Two, Counts <- -1 .. 2, Default <- 3, Hole <- Junk, Steps <- 7, steps <- calls,
    made <- listed

String == INSTANCE Strings WITH
    Names <- Two, Texts <- SomeTexts, Blank <- sp, Initial <- 1,
    Longest <- 3, Self <- FALSE, Calls <- 5

Number == INSTANCE Numbers WITH
    Width <- 256, Digits <- {0, 7}, Longest <- 5, TextLength <- 4

(* Four spans for three slots, three of them with the last slot for their own. *)
Site == INSTANCE LeakSites WITH
    Bases <- 1 .. 4, Slots <- 3, Hash <- <<2, 2, 0, 2>>, SpanSize <- 2, NoSpan <- 0,
    Made <- 5, table <- sites

-----------------------------------------------------------------------------
NoChunks ==
    /\ mapped = None /\ segments = None /\ next_chunk = None /\ chunkLive = None
    /\ span_cache = None /\ cache_count = None /\ cache_avg = None /\ purging = None
    /\ chunkHeap = None /\ local = None /\ chunkPc = None /\ seg = None /\ inuse = None
    /\ raced = None
NoCopies ==
    /\ scene = None /\ at = None /\ registered = None /\ duplicate = None /\ blind = None
    /\ mutex = None /\ maps = None /\ record = None /\ name = None /\ holder = None
    /\ content = None /\ fd = None

NoBuffers == blocks = None /\ buffer = None /\ ideal = None /\ asked = None
NoList ==
    /\ listed = None /\ active = None /\ max = None /\ count = None /\ cells = None /\ log = None
NoHandler == handler = None /\ crashed = None
NoStrings == str = [s \in Two |-> String!Dead] /\ parts = String!NoParts
NoNumber == text = None /\ parsed = None
NoSites ==
    watched = None /\ sites = None /\ spans = None /\ clock = None /\ recorded = None

Parts == {"spans", "chunks", "alone", "copies", "buffers", "lists", "strings", "numbers", "sites"}

MCInit ==
    /\ part \in Parts
    /\ Init
    /\ \/ part = "chunks" /\ Shared!Init
       \/ part = "alone" /\ Alone!Init
       \/ part \notin {"chunks", "alone"} /\ NoChunks
    /\ \/ part = "copies" /\ Registry!Init
       \/ part # "copies" /\ NoCopies
    /\ \/ part = "buffers" /\ Buffer!Init /\ NoList /\ NoStrings
       \/ part = "lists" /\ List!Init /\ NoBuffers /\ NoStrings
       \/ part = "strings" /\ String!Init /\ NoHandler /\ NoBuffers /\ NoList
       \/ part \in {"spans", "chunks", "alone", "copies", "numbers", "sites"}
          /\ NoBuffers /\ NoList /\ NoStrings /\ NoHandler /\ calls = 0
    /\ \/ part = "numbers" /\ Number!Init
       \/ part # "numbers" /\ NoNumber
    /\ \/ part = "sites" /\ Site!Init
       \/ part # "sites" /\ NoSites

(* A step of one part that leaves the others alone. *)
In(p, A) == part = p /\ A /\ UNCHANGED part

MCNext ==
    \/ In("spans", Next)
       /\ UNCHANGED <<chunkVars, copyVars, bufferVars, listVars, callVars, restVars>>
    \/ (In("chunks", Shared!Next) \/ In("alone", Alone!Next))
       /\ UNCHANGED <<vars, copyVars, bufferVars, listVars, callVars, restVars>>
    \/ In("copies", Registry!Next)
       /\ UNCHANGED <<vars, chunkVars, bufferVars, listVars, callVars, restVars>>
    \/ In("buffers", Buffer!Next)
       /\ UNCHANGED <<vars, chunkVars, copyVars, listVars, restVars>>
    \/ In("lists", List!Next)
       /\ UNCHANGED <<vars, chunkVars, copyVars, bufferVars, restVars>>
    \/ In("strings", String!Next)
       /\ UNCHANGED <<vars, chunkVars, copyVars, bufferVars, listVars, handler, crashed,
                      numberVars, siteVars>>
    \/ In("numbers", Number!Next)
       /\ UNCHANGED <<vars, chunkVars, copyVars, bufferVars, listVars, callVars, stringVars,
                      siteVars>>
    \/ In("sites", Site!Next)
       /\ UNCHANGED <<vars, chunkVars, copyVars, bufferVars, listVars, callVars, stringVars,
                      numberVars>>

MCSpec == MCInit /\ [][MCNext]_allVars

Symmetry == Permutations(Threads) \cup Permutations(Segs \cup {s3})
            \cup Permutations(Chunks) \cup Permutations(Classes)

-----------------------------------------------------------------------------
(* Each chunk is with a caller, in one cache or not yet handed out, and a segment  *)
(* behind the current one has none left to hand out; live and cache_count, which   *)
(* decide when a segment goes back to the system, are exact (memory_pool.c:420-520). *)
ChunksKept ==
    /\ part = "chunks" =>
        Shared!ChunksInOnePlace /\ Shared!SegmentsUsedUp /\ Shared!LiveExact
    /\ part = "alone" =>
        Alone!ChunksInOnePlace /\ Alone!SegmentsUsedUp /\ Alone!LiveExact

(* An automatic purge leaves its low mark of chunks, but for the rest of the last  *)
(* segment it takes: fewer than SegSpans - 1 below (memory_pool.c:467 and 526).    *)
LowKept ==
    [][(part = "chunks" => Shared!LeavesLow) /\ (part = "alone" => Alone!LeavesLow)]_<<part, chunkVars>>

(* One copy of the library is first, and the others know it                       *)
(* (xplat_instance.c:252-291).                                                     *)
OneInstance == part = "copies" => Registry!OneInstance

(* What callers wrote or added is there, in blocks that are theirs alone, whatever *)
(* grew, moved or failed (memory_pool.c:1050-1169, list_hander.c:62-128); and what *)
(* was recorded of a span is found (memory_pool.c:257-310).  Of a block of 4 GB or *)
(* more it is what its MemBuffer counts (memory_pool.c:897).                       *)
ContentsKept ==
    /\ part = "buffers" => Buffer!BlocksAreTheBuffers /\ Buffer!ContentsKept
    /\ part = "lists" => List!ListIsTheLog
    /\ part = "sites" => Site!SitesFound /\ Site!MarksRight

(* A StringX is a text, whatever its capacity (string_handler.c).                  *)
ImplementsTexts ==
    String!Store!Init /\ [][part = "strings" /\ String!Store!Next]_(String!Seen)

(* Strings keep room for their NUL, splits join and searches find; numbers are     *)
(* read as they are written (string_handler.c:348-667, numeric.c).                 *)
TextsRight ==
    /\ part = "strings" => String!StringSound /\ String!SplitJoins /\ String!SearchesRight
    /\ part = "numbers" => Number!RoundTrip /\ Number!ParsersRight
=============================================================================
