----------------------------- MODULE MemBuffers ------------------------------
(***************************************************************************)
(* The sizes and the contents of the blocks memory_pool.c hands out: the   *)
(* table from sizes to classes, large blocks, and the calls on a MemBuffer *)
(* (memop_alloc, calloc, realloc, free, copy, append).  One thread works;  *)
(* any allocation may fail.                                                *)
(*                                                                         *)
(* The bytes a caller writes are 1, 2, 3 ... so that each says where it    *)
(* belongs; Junk is whatever memory held before.                           *)
(***************************************************************************)
EXTENDS Integers, Sequences, FiniteSets, FiniteSetsExt

CONSTANTS
    Buffers,         \* the MemBuffers of the program
    Blocks, NoBlock, \* bound on the blocks in use at once
    ClassSizes,      \* MemClassSizes
    Grain, Align,    \* 8 bytes a bucket of g_size2class; blocks aligned to 16
    Unit, Header,    \* MEMOP_SPAN_SIZE and MEMOP_SPAN_HEADER
    Width, Space,    \* 2^32, of the uint32 stride; 2^64, of a size_t
    Sizes, Offsets,  \* what callers ask for
    Junk, Calls      \* bound on the calls

VARIABLES
    block,     \* the blocks in use: [class, units, usable, cells]; units is 0 for a small one
    buffer,    \* MemBuffer: Ptr and Size
    handler,   \* g_error_handler: the library's own or the program's
    crashed,   \* brought down, by the handler or by a write past a block
    ideal,     \* history: what the caller wrote in the bytes its MemBuffer counts
    asked,     \* history: the size last asked for
    calls

vars == <<block, buffer, handler, crashed, ideal, asked, calls>>

Null == [ptr |-> NoBlock, size |-> 0]
Free == [class |-> 0, units |-> 0, usable |-> 0, cells |-> <<>>]
Live == {b \in Blocks : block[b] # Free}

-----------------------------------------------------------------------------
(* Sizes *)

AlignUp(v, a) == ((v + a - 1) \div a) * a
MaxSmall == ClassSizes[Len(ClassSizes)]
LargeClass == 0

(* memop_build_size2class *)
SizeTable ==
    [i \in 0 .. MaxSmall \div Grain - 1 |->
        Min({c \in DOMAIN ClassSizes : ClassSizes[c] >= (i + 1) * Grain})]

Class(size) == IF size > MaxSmall THEN LargeClass ELSE SizeTable[(size - 1) \div Grain]
Stride(c) == AlignUp(ClassSizes[c], Align)

(* memop_alloc_large: a whole number of units, the first with the header.  The  *)
(* sum may wrap; the stride, all that is known of the room later, is cut.        *)
LargeBlock(size) ==
    LET total == AlignUp((size + Header) % Space, Unit) % Space
    IN  [units |-> total \div Unit, usable |-> (total - Header) % Width,
         room |-> total - Header]

(* The units, what the block says it holds and what it holds, size > 0. *)
Shape(size) ==
    IF Class(size) = LargeClass THEN LargeBlock(size)
    ELSE [units |-> 0, usable |-> Stride(Class(size)), room |-> Stride(Class(size))]

(* What memop_alloc_raw(size) carves out. *)
Fresh(size) ==
    [class |-> Class(size), units |-> Shape(size).units, usable |-> Shape(size).usable,
     cells |-> [i \in 1 .. Shape(size).room |-> Junk]]

(* So many bytes written there end past it; with no unit the header does. *)
Overruns(size, bytes) == bytes > Shape(size).room

Room(at, size, limit) == at <= limit /\ size <= limit - at

(* cells with those of src, from place k on, copied over place at and after. *)
Overlay(cells, at, src, k, size) ==
    [i \in DOMAIN cells |-> IF i \in at + 1 .. at + size THEN src[k + i - at] ELSE cells[i]]
Bytes(size) == [i \in 1 .. size |-> i]
Zeros(size) == [i \in 1 .. size |-> 0]
Unwritten(size) == [i \in 1 .. size |-> Junk]
(* Of these bytes, those a block counts: past them nothing is known. *)
Counted(bytes, usable) == [i \in DOMAIN bytes |-> IF i <= usable THEN bytes[i] ELSE Junk]

Init ==
    /\ block = [b \in Blocks |-> Free]
    /\ buffer = [v \in Buffers |-> Null]
    /\ handler \in {"own", "program"}
    /\ crashed = FALSE
    /\ ideal = [v \in Buffers |-> <<>>] /\ asked = [v \in Buffers |-> 0]
    /\ calls = 0

Call == ~crashed /\ calls < Calls /\ calls' = calls + 1
Spare == CHOOSE b \in Blocks : block[b] = Free

-----------------------------------------------------------------------------
(* memop_alloc; memop_calloc_raw, whose pointer the program keeps with its size. *)

Given(v, size, cells) ==
    /\ block' = [block EXCEPT ![Spare] = [Fresh(size) EXCEPT !.cells = cells]]
    /\ buffer' = [buffer EXCEPT ![v] = [ptr |-> Spare, size |-> Fresh(size).usable]]

Refused(v) == buffer' = [buffer EXCEPT ![v] = Null] /\ UNCHANGED block

Alloc(v, size) ==
    /\ Call /\ buffer[v].ptr = NoBlock
    /\ \/ size > 0 /\ Live # Blocks /\ Given(v, size, Fresh(size).cells)
          /\ asked' = [asked EXCEPT ![v] = size]
          /\ ideal' = [ideal EXCEPT ![v] = Unwritten(size)]
          /\ crashed' = Overruns(size, 0)
       \/ Refused(v) /\ UNCHANGED <<asked, ideal, crashed>>
    /\ UNCHANGED handler

Calloc(v, size) ==
    /\ Call /\ buffer[v].ptr = NoBlock
    /\ \/ /\ size > 0 /\ Live # Blocks
          /\ Given(v, size, Overlay(Fresh(size).cells, 0, Zeros(size), 0, size))
          /\ asked' = [asked EXCEPT ![v] = size]
          /\ ideal' = [ideal EXCEPT ![v] = Counted(Zeros(size), Fresh(size).usable)]
          /\ crashed' = Overruns(size, size)
       \/ Refused(v) /\ UNCHANGED <<asked, ideal, crashed>>
    /\ UNCHANGED handler

(* memop_free; memop_realloc to nothing. *)
FreeBuffer(v) ==
    /\ Call /\ buffer[v].ptr # NoBlock
    /\ block' = [block EXCEPT ![buffer[v].ptr] = Free]
    /\ buffer' = [buffer EXCEPT ![v] = Null]
    /\ asked' = [asked EXCEPT ![v] = 0] /\ ideal' = [ideal EXCEPT ![v] = <<>>]
    /\ UNCHANGED <<handler, crashed>>

-----------------------------------------------------------------------------
(* memop_realloc of a buffer that has a block *)

(* The classes are in order, so a class not above the present one fits; a large *)
(* block serves any large size up to its own.                                   *)
StaysInPlace(m, size) ==
    IF m.class # LargeClass
    THEN Class(size) \in 1 .. m.class
    ELSE Class(size) = LargeClass /\ size <= m.usable

(* What the caller wrote and still asks for; the rest is new. *)
Resize(v, size, usable) ==
    /\ asked' = [asked EXCEPT ![v] = size]
    /\ ideal' = [ideal EXCEPT ![v] =
                    Counted([i \in 1 .. size |-> IF i <= asked[v] THEN @[i] ELSE Junk], usable)]

ReallocInPlace(v, size) ==
    /\ Call /\ buffer[v].ptr # NoBlock /\ size > 0
    /\ StaysInPlace(block[buffer[v].ptr], size)
    /\ buffer' = [buffer EXCEPT ![v].size = block[buffer[v].ptr].usable]
    /\ Resize(v, size, block[buffer[v].ptr].usable)
    /\ UNCHANGED <<block, handler, crashed>>

(* Bug seeded in Moved: only what the caller asked for anew is copied, whatever *)
(* the old block holds.                                                         *)
MMovedTooLittle(old, size) ==
    [Fresh(size) EXCEPT !.cells = Overlay(@, 0, old.cells, 0, Min({old.usable, size}) - 1)]

(* The new block, with what it can keep of the old one. *)
Moved(old, size) ==
    [Fresh(size) EXCEPT !.cells = Overlay(@, 0, old.cells, 0, Min({old.usable, size}))]

ReallocMove(v, size) ==
    LET p == buffer[v].ptr
    IN  /\ Call /\ p # NoBlock /\ size > 0 /\ ~StaysInPlace(block[p], size)
        /\ Live # Blocks
        /\ block' = [block EXCEPT ![Spare] = Moved(block[p], size), ![p] = Free]
        /\ buffer' = [buffer EXCEPT ![v] = [ptr |-> Spare, size |-> Fresh(size).usable]]
        /\ Resize(v, size, Fresh(size).usable)
        /\ crashed' = Overruns(size, Min({block[p].usable, size}))
        /\ UNCHANGED handler

(* Bug seeded in ReallocFails: the buffer is overwritten with the NULL result. *)
MReallocFailsForgets(v, size) ==
    /\ Call /\ buffer[v].ptr # NoBlock /\ size > 0
    /\ ~StaysInPlace(block[buffer[v].ptr], size)
    /\ buffer' = [buffer EXCEPT ![v] = Null]
    /\ UNCHANGED <<block, handler, crashed, ideal, asked>>

(* No memory: NULL is returned, the buffer keeps its block. *)
ReallocFails(v, size) ==
    /\ Call /\ buffer[v].ptr # NoBlock /\ size > 0
    /\ ~StaysInPlace(block[buffer[v].ptr], size)
    /\ UNCHANGED <<block, buffer, handler, crashed, ideal, asked>>

-----------------------------------------------------------------------------
(* memop_copy and memop_append *)

Write(v, at, src, k, size) ==
    /\ block' = [block EXCEPT ![buffer[v].ptr].cells = Overlay(@, at, src, k, size)]
    /\ ideal' = [ideal EXCEPT ![v] =
                    [i \in DOMAIN @ |-> IF i \in at + 1 .. at + size THEN src[k + i - at] ELSE @[i]]]
    /\ UNCHANGED crashed

(* xpb_event_trigger_error: the library's own handler reads where the error came *)
(* from, and it is told nowhere.                                                 *)
Error ==
    /\ crashed' = (handler = "own")
    /\ UNCHANGED <<block, ideal>>

(* One of three: nothing to do, an error, or the whole transfer. *)
Transfer(none, fits, write) ==
    \/ none /\ UNCHANGED <<block, ideal, crashed>>
    \/ ~none /\ ~fits /\ Error
    \/ ~none /\ fits /\ write

AppendBytes(v, size, at) ==
    /\ Call
    /\ Transfer(buffer[v].ptr = NoBlock \/ size = 0, Room(at, size, buffer[v].size),
                Write(v, at, Bytes(size), 0, size))
    /\ UNCHANGED <<buffer, handler, asked>>

Copy(v, to, w, size, from) ==
    /\ Call /\ v # w
    /\ Transfer(NoBlock \in {buffer[v].ptr, buffer[w].ptr} \/ size = 0,
                Room(from, size, buffer[w].size) /\ Room(to, size, buffer[v].size),
                Write(v, to, block[buffer[w].ptr].cells, from, size))
    /\ UNCHANGED <<buffer, handler, asked>>

-----------------------------------------------------------------------------
Next ==
    \E v \in Buffers :
        \/ FreeBuffer(v)
        \/ \E size \in Sizes :
            \/ Alloc(v, size) \/ Calloc(v, size)
            \/ ReallocInPlace(v, size) \/ ReallocMove(v, size) \/ ReallocFails(v, size)
            \/ \E at \in Offsets :
                \/ AppendBytes(v, size, at)
                \/ \E w \in Buffers, from \in Offsets : Copy(v, at, w, size, from)

Spec == Init /\ [][Next]_vars

-----------------------------------------------------------------------------
(* What must hold. *)

(* A block in use belongs to one buffer, which knows its size; below the width   *)
(* of stride (4 GB) that is at least what was asked for, and no block is lost,   *)
(* whichever calls fail.  A larger block may be told for a small one (897).      *)
BlocksAreTheBuffers ==
    /\ Live = {buffer[v].ptr : v \in Buffers} \ {NoBlock}
    /\ \A v, w \in Buffers : v # w /\ buffer[v].ptr # NoBlock => buffer[v].ptr # buffer[w].ptr
    /\ \A v \in Buffers : buffer[v].ptr # NoBlock =>
           /\ buffer[v].size = block[buffer[v].ptr].usable
           /\ asked[v] + Header <= Width => asked[v] <= buffer[v].size

(* What a caller wrote in the bytes it asked for and its MemBuffer counts stays  *)
(* there through copies and every change of size that still asks for them        *)
(* ("preservando o conteudo", memory_pool.h:59).  Below 4 GB a MemBuffer counts  *)
(* all of them; of a larger block a change of size loses those it does not.      *)
(* Nothing is said once a write went past a block or the handler crashed.        *)
ContentsKept ==
    ~crashed => \A v \in Buffers : buffer[v].ptr # NoBlock =>
        \A i \in 1 .. asked[v] :
            ideal[v][i] # Junk => block[buffer[v].ptr].cells[i] = ideal[v][i]
=============================================================================
