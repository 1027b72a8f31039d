------------------------------- MODULE Bitmap --------------------------------
(***************************************************************************)
(* The default memory manager (memory_manager.c): one byte per block of    *)
(* the heap, 0 for a free block, else the colour of the allocation it      *)
(* belongs to.  Colours are given out in turn from 8 bits and come back,   *)
(* and the bitmap keeps no lengths: memory_free takes back the run of      *)
(* blocks of one colour around the pointer.  All that tells two            *)
(* allocations of one colour apart is that memory_alloc never puts one     *)
(* next to an occupied block.                                              *)
(***************************************************************************)
EXTENDS Integers, FiniteSets, FiniteSetsExt

CONSTANTS TotalBlocks,  \* blocks of the heap
          BlockSize,    \* bytes of a block, 1024 in the code
          Colors,       \* colours there are, 255 in the code
          Requests      \* the sizes callers ask for, in bytes

BitmapAssumption ==
    /\ TotalBlocks \in Nat \ {0}
    /\ BlockSize \in Nat \ {0}
    /\ Colors \in Nat \ {0}
    /\ Requests \subseteq Nat \ {0}

VARIABLES bitmap,   \* the colour of each block, 0 when it is free
          counter,  \* allocation_counter, the next colour
          used,     \* used_blocks; info.used_memory is always used * BlockSize
          live      \* the ranges callers hold: block, blocks and bytes asked for

vars == <<bitmap, counter, used, live>>

Blocks == 0 .. TotalBlocks - 1

Init ==
    /\ bitmap = [b \in Blocks |-> 0]
    /\ counter = 1
    /\ used = 0
    /\ live = {}

\* get_next_allocation_color: the counter wraps and skips 0.
NextColor(c) == IF c = Colors THEN 1 ELSE c + 1

BlocksNeeded(size) == (size + BlockSize - 1) \div BlockSize

AllFree(first, n) == \A b \in first .. first + n - 1 : b \in Blocks /\ bitmap[b] = 0

\* A run of free blocks starts here.
RunStarts(b) == bitmap[b] = 0 /\ (b = 0 \/ bitmap[b - 1] # 0)

\* The starts the loop of memory_alloc tries: the first block of a run of free
\* blocks, then, every time a start is refused, the block n further on.
Tried(n) ==
    {b \in Blocks : \E s \in 0 .. b : /\ RunStarts(s)
                                      /\ AllFree(s, b + n - s)
                                      /\ (b - s) % n = 0}

\* A start is refused when the block on either side of the range is occupied.
Apart(b, n) ==
    /\ b > 0 => bitmap[b - 1] = 0
    /\ b + n < TotalBlocks => bitmap[b + n] = 0

Fits(n) == {b \in Tried(n) : Apart(b, n)}

\* memory_alloc(size), for a size that is not zero and not larger than the
\* heap.  The first start that is not refused is taken.
Alloc(size) ==
    LET n == BlocksNeeded(size)
    IN  /\ size <= TotalBlocks * BlockSize
        /\ n <= TotalBlocks - used
        /\ Fits(n) # {}
        /\ LET first == Min(Fits(n))
           IN  /\ bitmap' = [b \in Blocks |-> IF b \in first .. first + n - 1
                                              THEN counter ELSE bitmap[b]]
               /\ live' = live \cup {[block |-> first, blocks |-> n, size |-> size]}
        /\ counter' = NextColor(counter)
        /\ used' = used + n

\* A faulty variant for the mutation runs: every block of the colour.
ColorRun_Anywhere(b) == {c \in Blocks : bitmap[c] = bitmap[b]}

\* A faulty variant for the mutation runs: only the blocks behind the pointer.
ColorRun_Forward(b) ==
    {c \in Blocks : b <= c /\ \A d \in b .. c : bitmap[d] = bitmap[b]}

\* find_block_start and the forward loop of memory_free: the blocks of the
\* colour of b that touch b without a break.
ColorRun(b) ==
    {c \in Blocks : \A d \in Blocks :
        (b <= d /\ d <= c) \/ (c <= d /\ d <= b) => bitmap[d] = bitmap[b]}

\* memory_free(p) for a pointer p into block b: at its start or, for an
\* allocation of several blocks, anywhere.  A free block is refused.
Free(b) ==
    /\ bitmap[b] # 0
    /\ bitmap' = [c \in Blocks |-> IF c \in ColorRun(b) THEN 0 ELSE bitmap[c]]
    /\ used' = used - Cardinality(ColorRun(b))
    /\ live' = {a \in live : b \notin a.block .. a.block + a.blocks - 1}
    /\ UNCHANGED counter

\* memory_state_get, in bytes.
memory_state_get ==
    [total_memory |-> TotalBlocks * BlockSize,
     used_memory  |-> used * BlockSize,
     free_memory  |-> (TotalBlocks - used) * BlockSize]

Next == \/ \E size \in Requests : Alloc(size)
        \/ \E b \in Blocks : Free(b)

Spec == Init /\ [][Next]_vars

-------------------------------------------------------------------------------
\* Every variable has its type.
BitmapTypeOK ==
    /\ bitmap \in [Blocks -> 0 .. Colors]
    /\ counter \in 1 .. Colors
    /\ used \in 0 .. TotalBlocks
    /\ live \subseteq [block : Blocks, blocks : 1 .. TotalBlocks, size : Requests]

Extent(a) == a.block .. a.block + a.blocks - 1

\* No block is lost: an occupied block belongs to an allocation somebody can
\* still free, and the free memory that mem reports is that of the other blocks.
NoBlockLost ==
    /\ \A b \in Blocks : bitmap[b] # 0 => \E a \in live : b \in Extent(a)
    /\ memory_state_get.free_memory = BlockSize * Cardinality({b \in Blocks : bitmap[b] = 0})

\* The promise of memory_manager.h, in bytes of the heap.
A == INSTANCE Allocator WITH
        Heap <- [first |-> 0, last |-> TotalBlocks * BlockSize - 1],
        live <- {[at |-> a.block * BlockSize, size |-> a.size] : a \in live}

\* Every step of the bitmap manager is an allocation of a free range, the
\* release of one live range, or none of them (Allocator).
BitmapImplements == A!Spec
==============================================================================
