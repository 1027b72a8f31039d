-------------------------------- MODULE Buddy ---------------------------------
(***************************************************************************)
(* The memory manager of a kernel built with BUDDY_MM (buddy_mm.c): blocks *)
(* of 2^order bytes, each starting with a header block_t, free blocks in   *)
(* one list for every order.  Addresses are offsets from                   *)
(* managed_memory_start.  A list is sorted by address, so it is the set of *)
(* its blocks and its head their minimum.                                  *)
(*                                                                         *)
(* The order and the status of a block are read from the header in memory, *)
(* which outlives the block: a header left inside a larger free block is   *)
(* stale, and one inside a block that is handed out belongs to the caller, *)
(* who writes what he likes (UserData).                                    *)
(***************************************************************************)
EXTENDS Integers, FiniteSets, FiniteSetsExt

CONSTANTS MIN_LEVEL,   \* order of the smallest block, 5 in the code
          MAX_ORDER,   \* bound of the orders, 25 in the code
          Header,      \* sizeof(block_t), 16 bytes
          MEMORY_END,  \* the end of the managed region
          Managed,     \* the starts memory_manager_init may be given
          Requests,    \* the sizes callers ask for, in bytes
          UserData     \* what an overwritten header holds

Orders == MIN_LEVEL .. MAX_ORDER - 1

Size(order) == 2 ^ order

HeaderType == [order : Orders, status : {"FREE", "OCCUPIED"}]

\* What the proofs use of the powers of two, which to the provers are symbols.
PowersDouble ==
    \A k \in Orders : Size(k) \in Nat \ {0} /\ Size(k + 1) = Size(k) + Size(k)

BuddyAssumption ==
    /\ MIN_LEVEL \in Nat /\ MAX_ORDER \in Nat /\ MIN_LEVEL < MAX_ORDER
    /\ PowersDouble
    /\ Header \in Nat \ {0} /\ Header < Size(MIN_LEVEL)
    /\ MEMORY_END \in Nat
    /\ Managed \subseteq 0 .. MEMORY_END
    /\ Requests \subseteq Nat \ {0}
    /\ UserData \notin HeaderType

VARIABLES max_order,    \* the order of the whole heap
          start,        \* managed_memory_start
          free_blocks,  \* for each order the free blocks of that order
          header,       \* what the memory holds where a block can start
          used_memory,
          live          \* what callers hold: block, and the bytes asked for

vars == <<max_order, start, free_blocks, header, used_memory, live>>

total_memory == Size(max_order)

\* The offsets a block can start at.
Units(order) == {u * Size(MIN_LEVEL) : u \in 0 .. Size(order) \div Size(MIN_LEVEL) - 1}

RoundUp(addr, n) == ((addr + n - 1) \div n) * n

RoundDown(addr, n) == (addr \div n) * n

\* The orders of heaps that fit between an address and the end of the region,
\* aligned to their size.
HeapOrders(addr) ==
    {k \in Orders : /\ Size(k) <= MEMORY_END - addr
                    /\ RoundUp(addr, Size(k)) + Size(k) <= MEMORY_END}

\* No request lies between what the heap holds beside a header and the size of
\* the heap: memory_alloc compares the bare request with the heap, and the block
\* it settles for would end before the bytes asked for do.
RequestsLeaveRoom ==
    \A addr \in Managed :
        LET orders == HeapOrders(RoundUp(addr, 8))
        IN  orders # {} =>
                \A size \in Requests :
                    size <= Size(Max(orders)) => size + Header <= Size(Max(orders))

\* memory_manager_init with room for a heap (without it there is no manager):
\* one free block of the largest order that fits.
Init ==
    \E addr \in Managed :
        LET aligned == RoundUp(addr, 8)
        IN  /\ HeapOrders(aligned) # {}
            /\ max_order = Max(HeapOrders(aligned))
            /\ start = RoundUp(aligned, Size(max_order))
            /\ free_blocks = [k \in Orders |-> IF k = max_order THEN {0} ELSE {}]
            /\ header = [u \in Units(max_order) |->
                            IF u = 0 THEN [order |-> max_order, status |-> "FREE"]
                            ELSE UserData]
            /\ used_memory = 0
            /\ live = {}

\* The smallest order whose block holds the request and the header; the
\* search ends at max_order whether that block holds them or not.
OrderFor(size) ==
    LET enough == {k \in MIN_LEVEL .. max_order : Size(k) >= size + Header}
    IN  IF enough = {} THEN max_order ELSE Min(enough)

\* memory_alloc(size) of a size that is not larger than the heap.  The first
\* block of the smallest order that has one, o, is halved (split_block) down
\* to the order needed; each time the right half is left free.
Alloc(size) ==
    LET order  == OrderFor(size)
        enough == {k \in order .. max_order : free_blocks[k] # {}}
        o      == Min(enough)
        block  == Min(free_blocks[o])
        Right(k) == block + Size(k)
        halves == {Right(k) : k \in order .. o - 1}
    IN  /\ size <= total_memory
        /\ enough # {}
        /\ free_blocks' =
              [k \in Orders |-> IF k = o THEN free_blocks[k] \ {block}
                                ELSE IF k \in order .. o - 1 THEN {Right(k)}
                                ELSE free_blocks[k]]
        /\ header' =
              [u \in DOMAIN header |->
                  IF u = block THEN [order |-> order, status |-> "OCCUPIED"]
                  ELSE IF u \in halves
                       THEN [order |-> CHOOSE k \in order .. o - 1 : u = Right(k),
                             status |-> "FREE"]
                  ELSE IF block < u /\ u < block + Size(order) THEN UserData
                  ELSE header[u]]
        /\ used_memory' = IF used_memory + Size(order) <= total_memory
                          THEN used_memory + Size(order) ELSE used_memory
        /\ live' = live \cup {[block |-> block, size |-> size]}
    /\ UNCHANGED <<max_order, start>>

\* The block that contains b at a higher order, and its other half.
Ancestor(b, k) == RoundDown(b, Size(k))

BuddyOf(b, k) == IF (b \div Size(k)) % 2 = 0 THEN b + Size(k) ELSE b - Size(k)

\* A faulty variant for the mutation runs: the status of the buddy is not read.
MergesAnyStatus(b, k) ==
    LET buddy == BuddyOf(Ancestor(b, k), k)
    IN  buddy < total_memory /\ header[buddy] # UserData /\ header[buddy].order = k

\* The loop of memory_free merges at order k when the header of the buddy
\* says it is a free block of the same order.
Merges(b, k) ==
    LET buddy == BuddyOf(Ancestor(b, k), k)
    IN  /\ buddy < total_memory
        /\ header[buddy] = [order |-> k, status |-> "FREE"]

\* The order at which the merging of b stops.
MergedOrder(b, order) ==
    Max({k \in order .. max_order : \A j \in order .. k - 1 : Merges(b, j)})

\* memory_free(p) for p after the header of b.  Only a header that reads as
\* an occupied block lets the call go on: a second free of a block that has
\* not been handed out again is refused.
Free(b) ==
    /\ header[b] # UserData
    /\ header[b].status = "OCCUPIED"
    /\ header[b].order \in MIN_LEVEL .. max_order
    /\ b + Size(header[b].order) <= total_memory
    /\ LET order == header[b].order
           last  == MergedOrder(b, order)
           Path(u) == {k \in order .. last : Ancestor(b, k) = u}
       IN  /\ free_blocks' =
                 [k \in Orders |->
                     IF k \in order .. last - 1
                     THEN free_blocks[k] \ {BuddyOf(Ancestor(b, k), k)}
                     ELSE IF k = last THEN free_blocks[k] \cup {Ancestor(b, k)}
                     ELSE free_blocks[k]]
           /\ header' = [u \in DOMAIN header |->
                            IF Path(u) # {} THEN [order |-> Max(Path(u)), status |-> "FREE"]
                            ELSE header[u]]
           /\ used_memory' = IF used_memory >= Size(order)
                             THEN used_memory - Size(order) ELSE used_memory
    /\ live' = {a \in live : a.block # b}
    /\ UNCHANGED <<max_order, start>>

memory_state_get ==
    [total_memory |-> total_memory,
     used_memory  |-> used_memory,
     free_memory  |-> total_memory - used_memory]

Next == \/ \E size \in Requests : Alloc(size)
        \/ \E b \in DOMAIN header : Free(b)

Spec == Init /\ [][Next]_vars

-------------------------------------------------------------------------------
\* Every variable has its type.
BuddyTypeOK ==
    /\ max_order \in Orders
    /\ start \in 0 .. MEMORY_END
    /\ free_blocks \in [Orders -> SUBSET Units(max_order)]
    /\ header \in [Units(max_order) -> HeaderType \cup {UserData}]
    /\ used_memory \in 0 .. total_memory
    /\ live \subseteq [block : Units(max_order), size : Requests]

FreeExtents ==
    UNION {{[at |-> b, size |-> Size(k)] : b \in free_blocks[k]} : k \in Orders}

LiveExtents == {[at |-> a.block, size |-> Size(header[a.block].order)] : a \in live}

\* The blocks in the free lists and the blocks handed out cover the heap once:
\* nothing is lost when halves are merged and nothing is handed out twice.
BlocksTileTheHeap ==
    \A u \in Units(max_order) :
        Cardinality({e \in FreeExtents \cup LiveExtents : e.at <= u /\ u < e.at + e.size}) = 1

\* Two halves of one block are never both free: whoever frees last merges
\* them, so that freeing everything gives the whole heap back.
HalvesAreMerged ==
    /\ \A k \in MIN_LEVEL .. max_order - 1 :
          \A b \in free_blocks[k] : BuddyOf(b, k) \notin free_blocks[k]
    /\ live = {} => free_blocks[max_order] = {0}

\* What mem prints is true: the free memory is the size of the blocks in the
\* lists, although the count of the used memory is clipped at both ends.
FreeIsAccounted ==
    memory_state_get.free_memory = MapThenSumSet(LAMBDA e : e.size, FreeExtents)

\* No block is lost, by any sequence of requests and releases.
NoBlockLost == BlocksTileTheHeap /\ HalvesAreMerged /\ FreeIsAccounted

\* The promise of memory_manager.h, in bytes of the region.
A == INSTANCE Allocator WITH
        Heap <- [first |-> 0, last |-> MEMORY_END - 1],
        live <- {[at |-> start + a.block + Header, size |-> a.size] : a \in live}

\* Every step of the buddy manager is an allocation of a free range, the
\* release of one live range, or none of them (Allocator).
Implements == A!Spec
==============================================================================
