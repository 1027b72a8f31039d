----------------------------- MODULE ArrayProofs -----------------------------
(***************************************************************************)
(* Proofs about two arrays of the kernel: the colours of the bitmap        *)
(* manager (Bitmap), with test_mm on what it allocates (TestMM), and,      *)
(* sharing nothing with them, the ring of the ready queue (ReadyQueue).    *)
(***************************************************************************)
EXTENDS TestMM, ReadyQueue, SequenceTheorems, FiniteSetTheorems, WellFoundedInduction,
        TLAPS

---------------------------------------------------------------------------
(* The bitmap: the default memory manager loses no block and implements    *)
(* Allocator, for every size of the heap and of its blocks and every       *)
(* number of colours, one included.                                        *)
(*                                                                         *)
(* The manager keeps neither lengths nor owners, only a colour per block,  *)
(* and colours come round.  What makes it work is an invariant that no     *)
(* line of the code states: between two live allocations there is always a *)
(* free block (Separate), so that the run of one colour around a pointer   *)
(* is one allocation, whole (ColorRunIsExtent).                            *)

After(a) == a.block + a.blocks

(* An allocation is inside the heap, of as many blocks as its bytes need    *)
(* and of one colour.                                                       *)
GoodAllocation(a) ==
    /\ a \in [block : Blocks, blocks : 1 .. TotalBlocks, size : Requests]
    /\ After(a) <= TotalBlocks
    /\ a.blocks = BlocksNeeded(a.size)
    /\ bitmap[a.block] # 0
    /\ \A b \in Extent(a) : bitmap[b] = bitmap[a.block]

Separate(a, c) == After(a) < c.block \/ After(c) < a.block

Occupied == {b \in Blocks : bitmap[b] # 0}

MapInv ==
    /\ BitmapTypeOK
    /\ \A a \in live : GoodAllocation(a)
    /\ \A a, c \in live : a # c => Separate(a, c)
    /\ \A b \in Occupied : \E a \in live : b \in Extent(a)
    /\ used = Cardinality(Occupied)

-----------------------------------------------------------------------------
(* Arithmetic of blocks *)

LEMMA SomeMin ==
    ASSUME NEW S, S \subseteq Nat, S # {}
    PROVE  Min(S) \in S
<1>1. PICK x \in S : \A y \in S : ~ (<<y, x>> \in OpToRel(<, Nat))
  BY NatLessThanWellFounded, WFMin
<1>2. \A y \in S : x <= y
  <2>1. ASSUME NEW y \in S, y < x
        PROVE  <<y, x>> \in OpToRel(<, Nat)
    <3>1. <<y, x>> \in Nat \X Nat /\ <<y, x>>[1] = y /\ <<y, x>>[2] = x
      OBVIOUS
    <3>. QED
      BY <2>1, <3>1, Zenon DEF OpToRel
  <2>2. \A y \in S : ~ (y < x)
    BY <1>1, <2>1, Zenon
  <2>. QED
    BY <2>2
<1>. QED
  BY <1>1, <1>2 DEF Min

(* Multiplication by a natural number is monotone.                         *)
LEMMA Times ==
    ASSUME NEW x \in Nat, NEW y \in Nat, NEW n \in Nat, x <= y
    PROVE  x * n <= y * n /\ x * n \in Nat /\ y * n \in Nat
<1>1. y * n = x * n + (y - x) * n /\ (y - x) * n >= 0 /\ x * n \in Nat
  OBVIOUS
<1>. QED
  BY <1>1

(* An interval of n numbers has n elements.                                *)
LEMMA SizeOfRange ==
    ASSUME NEW first \in Int, NEW n \in Nat
    PROVE  /\ IsFiniteSet(first .. first + n - 1)
           /\ Cardinality(first .. first + n - 1) = n
<1> DEFINE last == first + n - 1
<1>1. last \in Int /\ (first > last => n = 0) /\ last - first + 1 = n
  OBVIOUS
<1>. HIDE DEF last
<1>2. /\ IsFiniteSet(first .. last)
      /\ Cardinality(first .. last) = IF first > last THEN 0 ELSE last - first + 1
  BY <1>1, FS_Interval
<1>3. IsFiniteSet(first .. last) /\ Cardinality(first .. last) = n
  BY <1>1, <1>2
<1>. QED
  BY <1>3 DEF last

(* As many blocks as needed hold the bytes asked for. *)
LEMMA NeededIsEnough ==
    ASSUME BitmapAssumption, NEW size \in Requests
    PROVE  /\ BlocksNeeded(size) \in Nat \ {0}
           /\ size \in Nat \ {0} /\ size <= BlocksNeeded(size) * BlockSize
<1>1. size \in Nat \ {0} /\ BlockSize \in Nat \ {0}
  BY DEF BitmapAssumption
<1> DEFINE x == size + BlockSize - 1
           n == x \div BlockSize
<1>2. x \in Nat /\ x >= BlockSize
  BY <1>1
<1>. HIDE DEF x
<1>3. n \in Nat /\ n * BlockSize <= x /\ x < n * BlockSize + BlockSize
  BY <1>1, <1>2
<1>. HIDE DEF n
<1>4. n # 0
  BY <1>1, <1>2, <1>3
<1>5. size <= n * BlockSize
  <2>1. n * BlockSize \in Nat
    BY <1>1, <1>3
  <2>. QED
    BY <1>1, <1>3, <2>1 DEF x
<1>. QED
  BY <1>1, <1>3, <1>4, <1>5 DEF BlocksNeeded, n, x
-----------------------------------------------------------------------------
(* memory_alloc chooses free blocks with a free block, or the end of the     *)
(* heap, on either side.                                                     *)
LEMMA ChoiceIsFree ==
    ASSUME BitmapAssumption, NEW n \in Nat \ {0}, NEW first, Fits(n) # {},
           first = Min(Fits(n))
    PROVE  /\ first \in Blocks /\ first \in Nat /\ first + n <= TotalBlocks
           /\ \A b \in first .. first + n - 1 : b \in Blocks /\ bitmap[b] = 0
           /\ Apart(first, n)
<1>1. TotalBlocks \in Nat \ {0}
  BY DEF BitmapAssumption
<1>2. Fits(n) \subseteq Blocks /\ Blocks \subseteq Nat
  BY <1>1 DEF Fits, Tried, Blocks
<1>3. first \in Fits(n)
  <2>1. Fits(n) \subseteq Nat
    BY <1>2
  <2>. QED
    BY <2>1, SomeMin
<1>4. first \in Tried(n) /\ Apart(first, n)
  BY <1>3 DEF Fits
<1>5. first \in Blocks /\ first \in Nat
  BY <1>2, <1>3
<1>6. PICK s \in 0 .. first : AllFree(s, first + n - s)
  BY <1>4 DEF Tried
<1>7. ASSUME NEW b \in first .. first + n - 1
      PROVE  b \in Blocks /\ bitmap[b] = 0
  <2>1. b \in s .. s + (first + n - s) - 1
    BY <1>5, <1>6, <1>7
  <2>. QED
    BY <1>6, <2>1 DEF AllFree
<1>8. first + n <= TotalBlocks
  <2>1. first + n - 1 \in Blocks
    BY <1>5, <1>7
  <2>. QED
    BY <1>1, <1>5, <2>1 DEF Blocks
<1>. QED
  BY <1>4, <1>5, <1>7, <1>8

(* The run of one colour around a block is the allocation it belongs to:     *)
(* not a block more, for the neighbours are free, and not a block less.      *)
LEMMA ColorRunIsExtent ==
    ASSUME BitmapAssumption, MapInv, NEW a \in live, NEW b \in Extent(a)
    PROVE  ColorRun(b) = Extent(a) /\ Extent(a) \subseteq Blocks /\ bitmap[b] # 0
<1>1. TotalBlocks \in Nat \ {0}
  BY DEF BitmapAssumption
<1>2. /\ GoodAllocation(a)
      /\ \A c \in live : GoodAllocation(c)
      /\ \A c \in live : c # a => Separate(a, c)
      /\ \A d \in Occupied : \E c \in live : d \in Extent(c)
  BY DEF MapInv
<1>3. /\ a.block \in Nat /\ a.blocks \in Nat \ {0}
      /\ a.block + a.blocks <= TotalBlocks
      /\ \A d \in Extent(a) : bitmap[d] = bitmap[a.block]
      /\ bitmap[a.block] # 0
  BY <1>1, <1>2 DEF GoodAllocation, After, Blocks
<1>4. Extent(a) \subseteq Blocks
  BY <1>1, <1>3 DEF Extent, Blocks
<1>5. bitmap[b] = bitmap[a.block]
  BY <1>3
<1>6. ASSUME NEW d \in Blocks, d \notin Extent(a), d = a.block - 1 \/ d = After(a)
      PROVE  bitmap[d] = 0
  <2>1. SUFFICES ASSUME bitmap[d] # 0
                 PROVE  FALSE
    OBVIOUS
  <2>2. PICK c \in live : d \in Extent(c)
    BY <1>2, <2>1 DEF Occupied
  <2>3. c # a
    BY <1>6, <2>2
  <2>4. Separate(a, c)
    BY <1>2, <2>3
  <2>5. c.block \in Nat /\ c.blocks \in Nat
    BY <1>1, <1>2 DEF GoodAllocation, Blocks
  <2>. QED
    BY <1>3, <1>6, <2>2, <2>4, <2>5 DEF Separate, Extent, After
<1>7. Extent(a) \subseteq ColorRun(b)
  <2>1. ASSUME NEW c \in Extent(a), NEW d \in Blocks,
               (b <= d /\ d <= c) \/ (c <= d /\ d <= b)
        PROVE  bitmap[d] = bitmap[b]
    <3>1. d \in Extent(a)
      BY <1>1, <1>3, <2>1 DEF Extent, Blocks
    <3>. QED
      BY <1>3, <1>5, <3>1
  <2>. QED
    BY <1>4, <2>1 DEF ColorRun
<1>8. ASSUME NEW c \in ColorRun(b), c \notin Extent(a)
      PROVE  FALSE
  <2>1. c \in Blocks /\ c \in Int /\ b \in Int /\ c >= 0 /\ c < TotalBlocks
    BY <1>1, <1>4 DEF ColorRun, Blocks
  <2>2. \A d \in Blocks : (b <= d /\ d <= c) \/ (c <= d /\ d <= b)
                          => bitmap[d] = bitmap[b]
    BY <1>8 DEF ColorRun
  <2>3. a.block <= b /\ b < After(a)
    BY <1>3, <2>1 DEF Extent, After
  <2>4. CASE c < a.block
    <3>1. a.block - 1 \in Blocks /\ a.block - 1 \notin Extent(a)
      BY <1>1, <1>3, <2>1, <2>4 DEF Blocks, Extent
    <3>2. bitmap[a.block - 1] = 0
      BY <1>6, <3>1
    <3>3. c <= a.block - 1 /\ a.block - 1 <= b
      BY <1>3, <2>1, <2>3, <2>4
    <3>. QED
      BY <1>3, <1>5, <2>2, <3>1, <3>2, <3>3
  <2>5. CASE c >= After(a)
    <3>1. After(a) \in Blocks /\ After(a) \notin Extent(a)
      BY <1>1, <1>3, <2>1, <2>5 DEF Blocks, Extent, After
    <3>2. bitmap[After(a)] = 0
      BY <1>6, <3>1
    <3>3. b <= After(a) /\ After(a) <= c
      BY <1>3, <2>1, <2>3, <2>5 DEF After
    <3>. QED
      BY <1>3, <1>5, <2>2, <3>1, <3>2, <3>3
  <2>. QED
    BY <1>3, <1>8, <2>1, <2>4, <2>5 DEF Extent, After
<1>. QED
  BY <1>3, <1>4, <1>5, <1>7, <1>8
(* What memory_alloc chooses leaves a free block between itself and every    *)
(* live allocation.                                                          *)
LEMMA ChoiceIsSeparate ==
    ASSUME BitmapAssumption, MapInv, NEW a \in live,
           NEW n \in Nat \ {0}, NEW first \in Nat, first + n <= TotalBlocks,
           \A b \in first .. first + n - 1 : bitmap[b] = 0,
           Apart(first, n)
    PROVE  After(a) < first \/ first + n < a.block
<1>1. TotalBlocks \in Nat \ {0}
  BY DEF BitmapAssumption
<1>2. GoodAllocation(a)
  BY DEF MapInv
<1>3. /\ a.block \in Nat /\ a.blocks \in Nat \ {0}
      /\ a.block + a.blocks <= TotalBlocks
      /\ \A d \in Extent(a) : bitmap[d] # 0
  BY <1>1, <1>2 DEF GoodAllocation, After, Blocks
<1>4. SUFFICES ASSUME After(a) >= first, first + n >= a.block
               PROVE  FALSE
  BY <1>3 DEF After
<1>5. first - 1 >= 0 => bitmap[first - 1] = 0
  BY DEF Apart
<1>6. first + n < TotalBlocks => bitmap[first + n] = 0
  BY DEF Apart
<1>7. CASE a.block >= first - 1
  <2>1. a.block \in Extent(a)
    BY <1>3 DEF Extent
  <2>2. bitmap[a.block] # 0
    BY <1>3, <2>1
  <2>3. a.block = first - 1 \/ a.block = first + n \/ a.block \in first .. first + n - 1
    BY <1>3, <1>4, <1>7
  <2>. QED
    BY <1>1, <1>3, <1>5, <1>6, <2>2, <2>3
<1>8. CASE a.block < first - 1
  <2>1. first - 1 \in Extent(a)
    BY <1>3, <1>4, <1>8 DEF Extent, After
  <2>. QED
    BY <1>3, <1>5, <1>8, <2>1
<1>. QED
  BY <1>3, <1>7, <1>8

(* memory_alloc, its choice named. *)
LEMMA AllocChooses ==
    ASSUME BitmapAssumption, MapInv, NEW size \in Requests, Alloc(size)
    PROVE  \E first, n :
             /\ n = BlocksNeeded(size) /\ n \in 1 .. TotalBlocks
             /\ first \in Blocks /\ first \in Nat /\ first + n <= TotalBlocks
             /\ \A b \in first .. first + n - 1 : b \in Blocks /\ bitmap[b] = 0
             /\ \A a \in live : After(a) < first \/ first + n < a.block
             /\ bitmap' = [b \in Blocks |-> IF b \in first .. first + n - 1
                                            THEN counter ELSE bitmap[b]]
             /\ live' = live \cup {[block |-> first, blocks |-> n, size |-> size]}
             /\ counter' = NextColor(counter)
             /\ used' = used + n
<1> DEFINE n     == BlocksNeeded(size)
           first == Min(Fits(n))
<1>1. /\ Fits(n) # {}
      /\ bitmap' = [b \in Blocks |-> IF b \in first .. first + n - 1
                                     THEN counter ELSE bitmap[b]]
      /\ live' = live \cup {[block |-> first, blocks |-> n, size |-> size]}
      /\ counter' = NextColor(counter)
      /\ used' = used + n
  BY DEF Alloc
<1>2. n \in Nat \ {0}
  BY NeededIsEnough
<1>. HIDE DEF n
<1>3. PICK f : f = first
  OBVIOUS
<1>4. /\ f \in Blocks /\ f \in Nat /\ f + n <= TotalBlocks
      /\ \A b \in f .. f + n - 1 : b \in Blocks /\ bitmap[b] = 0
      /\ Apart(f, n)
  BY <1>1, <1>2, <1>3, ChoiceIsFree
<1>5. \A a \in live : After(a) < f \/ f + n < a.block
  BY <1>2, <1>4, ChoiceIsSeparate
<1>6. n \in 1 .. TotalBlocks
  BY <1>2, <1>4 DEF BitmapAssumption
<1>7. /\ bitmap' = [b \in Blocks |-> IF b \in f .. f + n - 1
                                     THEN counter ELSE bitmap[b]]
      /\ live' = live \cup {[block |-> f, blocks |-> n, size |-> size]}
      /\ counter' = NextColor(counter)
      /\ used' = used + n
  BY <1>1, <1>3
<1>8. n = BlocksNeeded(size)
  BY DEF n
<1>. HIDE DEF first
<1>. QED
  BY <1>4, <1>5, <1>6, <1>7, <1>8

(* An allocation keeps the map: its run of colour touches no other of      *)
(* that colour.                                                            *)
LEMMA AllocKeeps ==
    ASSUME BitmapAssumption, MapInv, NEW size \in Requests, Alloc(size)
    PROVE  MapInv'
<1>1. /\ TotalBlocks \in Nat \ {0} /\ Colors \in Nat \ {0}
      /\ Requests \subseteq Nat \ {0}
  BY DEF BitmapAssumption
<1>2. PICK first, n :
             /\ n = BlocksNeeded(size) /\ n \in 1 .. TotalBlocks
             /\ first \in Blocks /\ first \in Nat /\ first + n <= TotalBlocks
             /\ \A b \in first .. first + n - 1 : b \in Blocks /\ bitmap[b] = 0
             /\ \A a \in live : After(a) < first \/ first + n < a.block
             /\ bitmap' = [b \in Blocks |-> IF b \in first .. first + n - 1
                                            THEN counter ELSE bitmap[b]]
             /\ live' = live \cup {[block |-> first, blocks |-> n, size |-> size]}
             /\ counter' = NextColor(counter)
             /\ used' = used + n
  BY AllocChooses
<1>3. PICK new : new = [block |-> first, blocks |-> n, size |-> size]
  OBVIOUS
<1>4. /\ new \in [block : Blocks, blocks : 1 .. TotalBlocks, size : Requests]
      /\ new.block = first /\ new.blocks = n /\ new.size = size
  BY <1>2, <1>3
<1>5. live' = live \cup {new}
  BY <1>2, <1>3
<1>6. /\ bitmap \in [Blocks -> 0 .. Colors] /\ counter \in 1 .. Colors
      /\ used \in 0 .. TotalBlocks
      /\ live \subseteq [block : Blocks, blocks : 1 .. TotalBlocks, size : Requests]
  BY DEF MapInv, BitmapTypeOK
<1>7. /\ \A b \in first .. first + n - 1 : bitmap'[b] = counter /\ counter # 0
      /\ \A b \in Blocks : b \notin first .. first + n - 1 => bitmap'[b] = bitmap[b]
  BY <1>1, <1>2, <1>6
<1>8. Occupied' = Occupied \cup (first .. first + n - 1)
  BY <1>2, <1>7 DEF Occupied
<1>9. used' = Cardinality(Occupied')
  <2>1. IsFiniteSet(Blocks)
    BY <1>1, FS_Interval DEF Blocks
  <2>2. IsFiniteSet(Occupied)
    BY <2>1, FS_Subset DEF Occupied
  <2>3. IsFiniteSet(first .. first + n - 1) /\ Cardinality(first .. first + n - 1) = n
    <3>1. first \in Int /\ n \in Nat
      BY <1>1, <1>2
    <3>. QED
      BY <3>1, SizeOfRange
  <2>4. Occupied \cap (first .. first + n - 1) = {}
    BY <1>2 DEF Occupied
  <2>5. Cardinality(Occupied \cup (first .. first + n - 1))
          = Cardinality(Occupied) + Cardinality(first .. first + n - 1)
              - Cardinality(Occupied \cap (first .. first + n - 1))
    BY <2>2, <2>3, FS_Union
  <2>6. used = Cardinality(Occupied) /\ Cardinality({}) = 0
    BY FS_EmptySet DEF MapInv
  <2>. QED
    <3>1. Cardinality(Occupied \cup (first .. first + n - 1)) = used + n - 0
      BY <2>3, <2>4, <2>5, <2>6, Zenon
    <3>2. Cardinality(Occupied') = used + n - 0
      BY <1>8, <3>1, Zenon
    <3>3. used + n - 0 = used + n
      BY <1>1, <1>2, <1>6
    <3>. QED
      BY <1>2, <3>2, <3>3, Zenon
<1>10. used' \in 0 .. TotalBlocks
  <2>1. n <= TotalBlocks - used
    BY <1>2 DEF Alloc
  <2>. QED
    BY <1>1, <1>2, <1>6, <2>1
<1>11. BitmapTypeOK'
  <2>1. bitmap' \in [Blocks -> 0 .. Colors]
    BY <1>1, <1>2, <1>6
  <2>2. counter' \in 1 .. Colors
    BY <1>1, <1>2, <1>6 DEF NextColor
  <2>. QED
    BY <1>4, <1>5, <1>6, <1>10, <2>1, <2>2 DEF BitmapTypeOK
<1>12. ASSUME NEW a \in live'
       PROVE  GoodAllocation(a)'
  <2>1. CASE a = new
    <3>1. Extent(a) = first .. first + n - 1
      BY <1>4, <2>1 DEF Extent
    <3>2. a.block \in Extent(a)
      BY <1>1, <1>2, <1>4, <2>1, <3>1
    <3>. QED
      BY <1>2, <1>4, <1>7, <2>1, <3>1, <3>2 DEF GoodAllocation, After, Extent
  <2>2. CASE a \in live
    <3>1. GoodAllocation(a)
      BY <2>2 DEF MapInv
    <3>2. /\ a.block \in Nat /\ a.blocks \in Nat \ {0} /\ After(a) <= TotalBlocks
          /\ After(a) = a.block + a.blocks
      BY <1>1, <3>1 DEF GoodAllocation, Blocks, After
    <3>3. ASSUME NEW b \in Extent(a)
          PROVE  bitmap'[b] = bitmap[b]
      <4>1. b \in Blocks
        BY <1>1, <3>2 DEF Extent, Blocks
      <4>2. After(a) < first \/ first + n < a.block
        BY <1>2, <2>2
      <4>3. b \notin first .. first + n - 1
        BY <1>1, <1>2, <3>2, <4>2 DEF Extent
      <4>. QED
        BY <1>7, <4>1, <4>3
    <3>4. a.block \in Extent(a)
      BY <3>2 DEF Extent
    <3>. QED
      BY <3>1, <3>3, <3>4 DEF GoodAllocation, After, Extent
  <2>. QED
    BY <1>5, <2>1, <2>2
<1>13. ASSUME NEW a \in live', NEW c \in live', a # c
       PROVE  Separate(a, c)
  <2>1. ASSUME NEW d \in live
        PROVE  Separate(d, new) /\ Separate(new, d)
    <3>1. After(d) < first \/ first + n < d.block
      BY <1>2
    <3>. QED
      BY <1>4, <3>1 DEF Separate, After
  <2>2. a \in live /\ c \in live => Separate(a, c)
    BY <1>13 DEF MapInv
  <2>. QED
    BY <1>5, <1>13, <2>1, <2>2
<1>14. ASSUME NEW b \in Occupied'
       PROVE  \E a \in live' : b \in Extent(a)
  <2>1. CASE b \in Occupied
    BY <1>5, <2>1 DEF MapInv
  <2>2. CASE b \in first .. first + n - 1
    BY <1>4, <1>5, <2>2 DEF Extent
  <2>. QED
    BY <1>8, <2>1, <2>2
<1>. QED
  BY <1>9, <1>11, <1>12, <1>13, <1>14 DEF MapInv, Separate, After, Extent
(* memory_free takes back one allocation, whole. *)
LEMMA FreeTakesOne ==
    ASSUME BitmapAssumption, MapInv, NEW b \in Blocks, Free(b)
    PROVE  \E a \in live :
             /\ Extent(a) \subseteq Blocks
             /\ bitmap' = [c \in Blocks |-> IF c \in Extent(a) THEN 0 ELSE bitmap[c]]
             /\ used' = used - Cardinality(Extent(a))
             /\ live' = live \ {a}
             /\ counter' = counter
<1>1. PICK a \in live : b \in Extent(a)
  BY DEF Free, MapInv, Occupied
<1>2. ColorRun(b) = Extent(a) /\ Extent(a) \subseteq Blocks
  BY <1>1, ColorRunIsExtent
<1>3. live' = {c \in live : b \notin Extent(c)}
  BY DEF Free, Extent
<1>4. ASSUME NEW c \in live, c # a
      PROVE  b \notin Extent(c)
  <2>1. GoodAllocation(a) /\ GoodAllocation(c) /\ Separate(c, a)
    BY <1>4 DEF MapInv
  <2>2. /\ a.block \in Nat /\ a.blocks \in Nat /\ c.block \in Nat /\ c.blocks \in Nat
        /\ b \in Nat
    BY <2>1 DEF GoodAllocation, Blocks, BitmapAssumption
  <2>. QED
    BY <1>1, <2>1, <2>2 DEF Separate, Extent, After
<1>5. live' = live \ {a}
  BY <1>1, <1>3, <1>4
<1>. QED
  BY <1>2, <1>5 DEF Free

(* A free keeps the map.                                                   *)
LEMMA FreeKeeps ==
    ASSUME BitmapAssumption, MapInv, NEW b \in Blocks, Free(b)
    PROVE  MapInv'
<1>1. TotalBlocks \in Nat \ {0} /\ Colors \in Nat \ {0}
  BY DEF BitmapAssumption
<1>2. PICK a \in live :
             /\ Extent(a) \subseteq Blocks
             /\ bitmap' = [c \in Blocks |-> IF c \in Extent(a) THEN 0 ELSE bitmap[c]]
             /\ used' = used - Cardinality(Extent(a))
             /\ live' = live \ {a}
             /\ counter' = counter
  BY FreeTakesOne
<1>3. /\ bitmap \in [Blocks -> 0 .. Colors] /\ counter \in 1 .. Colors
      /\ used \in 0 .. TotalBlocks
      /\ live \subseteq [block : Blocks, blocks : 1 .. TotalBlocks, size : Requests]
      /\ used = Cardinality(Occupied)
  BY DEF MapInv, BitmapTypeOK
<1>4. /\ \A c \in Extent(a) : bitmap'[c] = 0
      /\ \A c \in Blocks : c \notin Extent(a) => bitmap'[c] = bitmap[c]
  BY <1>2
<1>5. Occupied' = Occupied \ Extent(a)
  BY <1>2, <1>4 DEF Occupied
<1>6. GoodAllocation(a)
  BY DEF MapInv
<1>7. Extent(a) \subseteq Occupied
  BY <1>2, <1>6 DEF GoodAllocation, Occupied
<1>8. used' = Cardinality(Occupied') /\ used' \in 0 .. TotalBlocks
  <2>1. IsFiniteSet(Blocks)
    BY <1>1, FS_Interval DEF Blocks
  <2>2. IsFiniteSet(Occupied)
    BY <2>1, FS_Subset DEF Occupied
  <2>3. /\ IsFiniteSet(Occupied \ Extent(a))
        /\ Cardinality(Occupied \ Extent(a))
             = Cardinality(Occupied) - Cardinality(Occupied \cap Extent(a))
    BY <2>2, FS_Difference
  <2>4. Occupied \cap Extent(a) = Extent(a)
    BY <1>7
  <2>5. used' = Cardinality(Occupied')
    BY <1>2, <1>3, <1>5, <2>3, <2>4, Zenon
  <2>6. Cardinality(Occupied') \in Nat
    BY <1>5, <2>3, FS_CardinalityType
  <2>7. Cardinality(Extent(a)) \in Nat
    BY <1>7, <2>2, FS_Subset, FS_CardinalityType
  <2>. QED
    BY <1>1, <1>2, <1>3, <2>5, <2>6, <2>7
<1>9. BitmapTypeOK'
  <2>1. bitmap' \in [Blocks -> 0 .. Colors]
    BY <1>1, <1>2, <1>3
  <2>. QED
    BY <1>2, <1>3, <1>8, <2>1 DEF BitmapTypeOK
<1>10. ASSUME NEW c \in live, c # a
       PROVE  Extent(c) \cap Extent(a) = {}
  <2>1. GoodAllocation(c) /\ Separate(c, a)
    BY <1>10 DEF MapInv
  <2>2. /\ a.block \in Nat /\ a.blocks \in Nat /\ c.block \in Nat /\ c.blocks \in Nat
    BY <1>1, <1>6, <2>1 DEF GoodAllocation, Blocks
  <2>. QED
    BY <2>1, <2>2 DEF Separate, Extent, After
<1>11. ASSUME NEW c \in live'
       PROVE  GoodAllocation(c)'
  <2>1. c \in live /\ c # a /\ GoodAllocation(c)
    BY <1>2, <1>11 DEF MapInv
  <2>2. /\ c.block \in Nat /\ c.blocks \in Nat \ {0} /\ After(c) <= TotalBlocks
        /\ After(c) = c.block + c.blocks
    BY <1>1, <2>1 DEF GoodAllocation, Blocks, After
  <2>3. Extent(c) \subseteq Blocks /\ c.block \in Extent(c)
    BY <1>1, <2>2 DEF Extent, Blocks
  <2>4. \A d \in Extent(c) : bitmap'[d] = bitmap[d]
    BY <1>4, <1>10, <2>1, <2>3
  <2>. QED
    BY <2>1, <2>3, <2>4 DEF GoodAllocation, After, Extent
<1>12. \A c, d \in live' : c # d => Separate(c, d)
  BY <1>2 DEF MapInv
<1>13. ASSUME NEW d \in Occupied'
       PROVE  \E c \in live' : d \in Extent(c)
  <2>1. PICK c \in live : d \in Extent(c)
    BY <1>5, <1>13 DEF MapInv
  <2>. QED
    BY <1>2, <1>5, <1>13, <2>1
<1>. QED
  BY <1>8, <1>9, <1>11, <1>12, <1>13 DEF MapInv, Separate, After, Extent

(* An empty map satisfies it.                                              *)
LEMMA InitMapInv ==
    ASSUME BitmapAssumption, Init
    PROVE  MapInv
<1>1. Occupied = {} /\ live = {}
  BY DEF Init, Occupied
<1>2. BitmapTypeOK
  BY DEF BitmapAssumption, BitmapTypeOK, Init
<1>3. used = Cardinality(Occupied)
  BY <1>1, FS_EmptySet DEF Init
<1>. QED
  BY <1>1, <1>2, <1>3 DEF MapInv

(* MapInv is inductive.                                                    *)
LEMMA NextKeepsMapInv ==
    ASSUME BitmapAssumption, MapInv, [Next]_vars
    PROVE  MapInv'
<1>1. ASSUME NEW size \in Requests, Alloc(size)
      PROVE  MapInv'
  BY <1>1, AllocKeeps
<1>2. ASSUME NEW b \in Blocks, Free(b)
      PROVE  MapInv'
  BY <1>2, FreeKeeps
<1>3. CASE UNCHANGED vars
  BY <1>3 DEF vars, MapInv, BitmapTypeOK, GoodAllocation, Separate, Occupied,
              After, Extent
<1>. QED
  BY <1>1, <1>2, <1>3 DEF Next

(* The allocations are ranges of one colour with a free block between any    *)
(* two, every occupied block is in one of them, and used_blocks is their     *)
(* number, whatever memory_alloc and memory_free are asked for.              *)
THEOREM MapInvHolds ==
    ASSUME BitmapAssumption
    PROVE  Spec => []MapInv
<1>1. Init => MapInv
  BY InitMapInv
<1>2. MapInv /\ [Next]_vars => MapInv'
  BY NextKeepsMapInv
<1>. QED
  BY <1>1, <1>2, PTL DEF Spec

(* No block is lost: what memory_free takes back was handed out, what was    *)
(* handed out can be taken back, and mem's free memory is the free blocks.   *)
THEOREM BlocksAreNeverLost ==
    ASSUME BitmapAssumption
    PROVE  Spec => []NoBlockLost
<1>1. MapInv => NoBlockLost
  <2>. SUFFICES ASSUME MapInv
                PROVE  NoBlockLost
    OBVIOUS
  <2> DEFINE free == {b \in Blocks : bitmap[b] = 0}
  <2>1. TotalBlocks \in Nat \ {0} /\ BlockSize \in Nat \ {0}
    BY DEF BitmapAssumption
  <2>2. IsFiniteSet(0 .. 0 + TotalBlocks - 1)
        /\ Cardinality(0 .. 0 + TotalBlocks - 1) = TotalBlocks
    BY <2>1, SizeOfRange
  <2>3. IsFiniteSet(Blocks) /\ Cardinality(Blocks) = TotalBlocks
    BY <2>1, <2>2 DEF Blocks
  <2>4. free = Blocks \ Occupied /\ Blocks \cap Occupied = Occupied
    BY DEF Occupied
  <2>5. Cardinality(free) = Cardinality(Blocks) - Cardinality(Occupied)
    BY <2>3, <2>4, FS_Difference
  <2>6. Cardinality(free) = TotalBlocks - used /\ used \in Int
    BY <2>1, <2>3, <2>5 DEF MapInv, BitmapTypeOK
  <2>. HIDE DEF free
  <2>7. memory_state_get.free_memory = (TotalBlocks - used) * BlockSize
    BY DEF memory_state_get
  <2>8. memory_state_get.free_memory = BlockSize * Cardinality(free)
    BY <2>1, <2>6, <2>7
  <2>9. \A b \in Blocks : bitmap[b] # 0 => \E a \in live : b \in Extent(a)
    BY DEF MapInv, Occupied
  <2>. QED
    BY <2>8, <2>9 DEF NoBlockLost, free
<1>. QED
  BY <1>1, MapInvHolds, PTL
-----------------------------------------------------------------------------
(* The bytes of the heap that callers hold, as Allocator sees them.          *)
Bar(a) == [at |-> a.block * BlockSize, size |-> a.size]

bars == {Bar(a) : a \in live}

(* Allocations with blocks of their own have bytes of their own. *)
LEMMA SeparateBytes ==
    ASSUME BitmapAssumption, NEW x \in Nat, NEW m \in Nat, NEW s \in Nat \ {0},
           s <= m * BlockSize,
           NEW y \in Nat, NEW n \in Nat, NEW t \in Nat \ {0},
           t <= n * BlockSize,
           x + m < y \/ y + n < x
    PROVE  /\ ~ (x * BlockSize < y * BlockSize + t /\ y * BlockSize < x * BlockSize + s)
           /\ x * BlockSize # y * BlockSize
<1>1. BlockSize \in Nat \ {0}
  BY DEF BitmapAssumption
<1>2. /\ (x + m) * BlockSize = x * BlockSize + m * BlockSize
      /\ (y + n) * BlockSize = y * BlockSize + n * BlockSize
      /\ x * BlockSize \in Nat /\ m * BlockSize \in Nat
      /\ y * BlockSize \in Nat /\ n * BlockSize \in Nat
  BY <1>1
<1>3. CASE x + m < y
  <2>1. (x + m) * BlockSize <= y * BlockSize
    BY <1>1, <1>3, Times
  <2>. QED
    BY <1>2, <2>1
<1>4. CASE y + n < x
  <2>1. (y + n) * BlockSize <= x * BlockSize
    BY <1>1, <1>4, Times
  <2>. QED
    BY <1>2, <2>1
<1>. QED
  BY <1>3, <1>4

(* The fields of an allocation, and its bytes inside its blocks. *)
LEMMA FieldsOfLive ==
    ASSUME BitmapAssumption, MapInv, NEW a \in live
    PROVE  /\ a.block \in Nat /\ a.blocks \in Nat /\ a.size \in Nat \ {0}
           /\ a.size <= a.blocks * BlockSize
           /\ Bar(a).at = a.block * BlockSize /\ Bar(a).size = a.size
           /\ After(a) = a.block + a.blocks
<1>1. GoodAllocation(a)
  BY DEF MapInv
<1>2. a.size \in Requests /\ a.block \in Nat /\ a.blocks = BlocksNeeded(a.size)
  BY <1>1 DEF GoodAllocation, Blocks, BitmapAssumption
<1>3. /\ a.blocks \in Nat \ {0} /\ a.size \in Nat \ {0}
      /\ a.size <= a.blocks * BlockSize
  BY <1>2, NeededIsEnough
<1>. QED
  BY <1>2, <1>3 DEF Bar, After

(* An allocation of the bitmap is one of the allocator.                    *)
LEMMA AllocMaps ==
    ASSUME BitmapAssumption, MapInv, NEW size \in Requests, Alloc(size)
    PROVE  A!Alloc(size)
<1>1. TotalBlocks \in Nat \ {0} /\ BlockSize \in Nat \ {0} /\ size \in Nat \ {0}
  BY DEF BitmapAssumption
<1>2. PICK first, n :
             /\ n = BlocksNeeded(size) /\ n \in 1 .. TotalBlocks
             /\ first \in Blocks /\ first \in Nat /\ first + n <= TotalBlocks
             /\ \A b \in first .. first + n - 1 : b \in Blocks /\ bitmap[b] = 0
             /\ \A a \in live : After(a) < first \/ first + n < a.block
             /\ bitmap' = [b \in Blocks |-> IF b \in first .. first + n - 1
                                            THEN counter ELSE bitmap[b]]
             /\ live' = live \cup {[block |-> first, blocks |-> n, size |-> size]}
             /\ counter' = NextColor(counter)
             /\ used' = used + n
  BY AllocChooses
<1>3. size <= n * BlockSize /\ n \in Nat
  BY <1>2, NeededIsEnough
<1>4. PICK new : new = [at |-> first * BlockSize, size |-> size]
  OBVIOUS
<1>5. new.at = first * BlockSize /\ new.size = size
  BY <1>4
<1>6. bars' = bars \cup {new}
  <2>1. PICK c : c = [block |-> first, blocks |-> n, size |-> size]
    OBVIOUS
  <2>2. c.block = first /\ c.size = size
    BY <2>1
  <2>3. live' = live \cup {c}
    BY <1>2, <2>1
  <2>4. Bar(c) = new
    BY <1>4, <2>2 DEF Bar
  <2>5. bars' = {Bar(a) : a \in live'}
    BY DEF bars, Bar
  <2>. QED
    BY <2>3, <2>4, <2>5 DEF bars
<1>7. ASSUME NEW a \in live
      PROVE  /\ ~ (Bar(a).at < new.at + new.size /\ new.at < Bar(a).at + Bar(a).size)
             /\ Bar(a) # new
  <2>1. /\ a.block \in Nat /\ a.blocks \in Nat /\ a.size \in Nat \ {0}
        /\ a.size <= a.blocks * BlockSize
        /\ Bar(a).at = a.block * BlockSize /\ Bar(a).size = a.size
        /\ After(a) = a.block + a.blocks
    BY FieldsOfLive
  <2>2. a.block + a.blocks < first \/ first + n < a.block
    BY <1>2, <2>1
  <2>3. /\ ~ (a.block * BlockSize < first * BlockSize + size
              /\ first * BlockSize < a.block * BlockSize + a.size)
        /\ a.block * BlockSize # first * BlockSize
    BY <1>1, <1>2, <1>3, <2>1, <2>2, SeparateBytes
  <2>. QED
    BY <1>5, <2>1, <2>3
<1>8. new \in bars' /\ new \notin bars
  BY <1>6, <1>7 DEF bars
<1>9. 0 <= new.at /\ new.at + new.size - 1 <= TotalBlocks * BlockSize - 1
  <2>1. (first + n) * BlockSize <= TotalBlocks * BlockSize
    BY <1>1, <1>2, <1>3, Times
  <2>2. (first + n) * BlockSize = first * BlockSize + n * BlockSize
        /\ first * BlockSize \in Nat /\ n * BlockSize \in Nat
        /\ TotalBlocks * BlockSize \in Nat
    BY <1>1, <1>2, <1>3
  <2>. QED
    BY <1>1, <1>3, <1>5, <2>1, <2>2
<1>10. \A r \in bars : ~ (r.at < new.at + new.size /\ new.at < r.at + r.size)
  BY <1>7 DEF bars
<1>. QED
  BY <1>5, <1>6, <1>8, <1>9, <1>10 DEF A!Alloc, A!InHeap, A!Overlap, bars, Bar

(* A free of the bitmap is one of the allocator.                           *)
LEMMA FreeMaps ==
    ASSUME BitmapAssumption, MapInv, NEW b \in Blocks, Free(b)
    PROVE  \E r \in bars : A!Free(r)
<1>1. PICK a \in live : live' = live \ {a}
  BY FreeTakesOne
<1>2. ASSUME NEW c \in live, c # a
      PROVE  Bar(c) # Bar(a)
  <2>1. /\ a.block \in Nat /\ a.blocks \in Nat /\ a.size \in Nat \ {0}
        /\ a.size <= a.blocks * BlockSize
        /\ Bar(a).at = a.block * BlockSize
        /\ After(a) = a.block + a.blocks
    BY FieldsOfLive
  <2>2. /\ c.block \in Nat /\ c.blocks \in Nat /\ c.size \in Nat \ {0}
        /\ c.size <= c.blocks * BlockSize
        /\ Bar(c).at = c.block * BlockSize
        /\ After(c) = c.block + c.blocks
    BY FieldsOfLive
  <2>3. Separate(a, c)
    BY <1>2 DEF MapInv
  <2>4. a.block + a.blocks < c.block \/ c.block + c.blocks < a.block
    BY <2>1, <2>2, <2>3 DEF Separate
  <2>5. a.block * BlockSize # c.block * BlockSize
    BY <2>1, <2>2, <2>4, SeparateBytes
  <2>. QED
    BY <2>1, <2>2, <2>5
<1>3. bars' = bars \ {Bar(a)}
  BY <1>1, <1>2 DEF bars, Bar
<1>. QED
  BY <1>3 DEF A!Free, bars, Bar

(* The bitmap manager keeps the promise of memory_manager.h: every step      *)
(* hands out a range of the heap that no live range touches, takes one live  *)
(* range back, or changes nothing of what callers hold.                      *)
THEOREM BitmapKeepsThePromise ==
    ASSUME BitmapAssumption
    PROVE  Spec => BitmapImplements
<1>1. Init => A!Init
  BY DEF Init, A!Init
<1>2. MapInv /\ [Next]_vars => [A!Next]_bars
  <2>. SUFFICES ASSUME MapInv, [Next]_vars
                PROVE  A!Next \/ bars' = bars
    OBVIOUS
  <2>1. ASSUME NEW size \in Requests, Alloc(size)
        PROVE  A!Next
    <3>1. A!Alloc(size)
      BY <2>1, AllocMaps
    <3>. QED
      BY <3>1 DEF A!Next
  <2>2. ASSUME NEW b \in Blocks, Free(b)
        PROVE  A!Next
    <3>1. PICK r \in bars : A!Free(r)
      BY <2>2, FreeMaps
    <3>. QED
      BY <3>1 DEF A!Next, bars, Bar
  <2>3. CASE UNCHANGED vars
    BY <2>3 DEF vars, bars, Bar
  <2>. QED
    BY <2>1, <2>2, <2>3 DEF Next
<1>. QED
  BY <1>1, <1>2, MapInvHolds, PTL DEF Spec, BitmapImplements, A!Spec, bars, Bar

---------------------------------------------------------------------------
(* test_mm: no tester finds a foreign mark.                                *)
(*                                                                         *)
(* A tester looks at the marks of one block while others allocate, mark    *)
(* and free between any two of its steps.  What keeps them apart is that   *)
(* what it holds is allocated (BlocksAreKept), and held by it alone        *)
(* (HeldOnce): with MapInv, two allocations share no block.                *)

(* What malloc can give. *)
Given == [block : Blocks, blocks : 1 .. TotalBlocks, size : Requests]

\* The blocks, by their place in mm_rqs, that are still a tester's.
StillHeld(t) ==
    IF loop[t] = "free" THEN at[t] .. Len(mm_rqs[t])
    ELSE IF loop[t] \in {"request", "set", "check"} THEN 1 .. Len(mm_rqs[t])
    ELSE {}

\* Those that bear its mark.
Marked(t) ==
    IF loop[t] = "set" THEN 1 .. at[t] - 1
    ELSE IF loop[t] = "check" THEN at[t] .. Len(mm_rqs[t])
    ELSE {}

TesterTypes ==
    /\ memory \in [Blocks -> Int]
    /\ mm_rqs \in [Tester -> Seq(Given)]
    /\ loop \in [Tester -> Rounds \cup {"killed"}]
    /\ at \in [Tester -> Nat \ {0}]

InItsLoop(t) ==
    /\ loop[t] = "request" => at[t] = 1
    /\ loop[t] \in {"set", "check", "free"} => at[t] <= Len(mm_rqs[t])

\* A tester's blocks are live, and its marks are on them.
BlocksAreKept(t) ==
    /\ \A j \in StillHeld(t) : mm_rqs[t][j] \in live
    /\ \A j \in Marked(t) : \A b \in Extent(mm_rqs[t][j]) : memory[b] = j - 1

\* No allocation is held twice.
HeldOnce ==
    \A t, u \in Tester : \A j \in StillHeld(t), k \in StillHeld(u) :
        mm_rqs[t][j] = mm_rqs[u][k] => t = u /\ j = k

TestInv ==
    /\ MapInv
    /\ TesterTypes
    /\ \A t \in Tester : InItsLoop(t) /\ BlocksAreKept(t)
    /\ HeldOnce

(* Nothing is held before the first request.                               *)
LEMMA TotalOfNone ==
    ASSUME NEW rqs, Len(rqs) = 0
    PROVE  Total(rqs) = 0
<1> DEFINE Sum(f) == [n \in 0 .. Len(rqs) |-> IF n = 0 THEN 0 ELSE f[n - 1] + rqs[n].size]
           sum == CHOOSE f : f = Sum(f)
           zero == [n \in 0 .. Len(rqs) |-> 0]
<1>1. Total(rqs) = sum[0]
  BY DEF Total
<1>2. zero = Sum(zero)
  <2>1. \A n \in 0 .. Len(rqs) : n = 0
    OBVIOUS
  <2>. QED
    BY <2>1
<1>3. sum = Sum(sum)
  <2>. HIDE DEF zero, Sum
  <2>. QED
    BY <1>2
<1>. HIDE DEF sum
<1>4. sum[0] = 0
  BY <1>3
<1>. QED
  BY <1>1, <1>4

(* Two allocations share no block.                                         *)
LEMMA ExtentsApart ==
    ASSUME BitmapAssumption, MapInv, NEW a \in live
    PROVE  /\ Extent(a) \subseteq Blocks /\ a.block \in Extent(a) /\ a.block \in Blocks
           /\ bitmap[a.block] # 0 /\ a \in Given
           /\ \A c \in live : c # a => Extent(c) \cap Extent(a) = {}
<1>1. TotalBlocks \in Nat \ {0}
  BY DEF BitmapAssumption
<1>2. GoodAllocation(a)
  BY DEF MapInv
<1>3. a.block \in Nat /\ a.blocks \in Nat \ {0} /\ a.block + a.blocks <= TotalBlocks
  BY <1>1, <1>2 DEF GoodAllocation, Blocks, After
<1>4. ASSUME NEW c \in live, c # a
      PROVE  Extent(c) \cap Extent(a) = {}
  <2>1. GoodAllocation(c) /\ Separate(c, a)
    BY <1>4 DEF MapInv
  <2>2. c.block \in Nat /\ c.blocks \in Nat
    BY <1>1, <2>1 DEF GoodAllocation, Blocks
  <2>. QED
    BY <1>3, <2>1, <2>2 DEF Separate, Extent, After
<1>. QED
  BY <1>1, <1>2, <1>3, <1>4 DEF GoodAllocation, Blocks, Extent, Given

(* A step of one tester that holds what it held or a new block, frees only *)
(* its own, and writes only there, is no business of the others.           *)
LEMMA OthersKeep ==
    ASSUME BitmapAssumption, TestInv, MapInv', TesterTypes', NEW t \in Tester,
           InItsLoop(t)', BlocksAreKept(t)',
           \A u \in Tester \ {t} :
              mm_rqs'[u] = mm_rqs[u] /\ loop'[u] = loop[u] /\ at'[u] = at[u],
           \A j, k \in StillHeld(t)' : mm_rqs'[t][j] = mm_rqs'[t][k] => j = k,
           \A j \in StillHeld(t)' : \/ mm_rqs'[t][j] \notin live
                                \/ \E k \in StillHeld(t) : mm_rqs'[t][j] = mm_rqs[t][k],
           \A a \in live : a \in live' \/ \E k \in StillHeld(t) : a = mm_rqs[t][k],
           \A b \in Blocks : \/ memory'[b] = memory[b]
                             \/ \E k \in StillHeld(t) : b \in Extent(mm_rqs[t][k])
    PROVE  TestInv'
<1>1. /\ \A u \in Tester : InItsLoop(u) /\ BlocksAreKept(u)
      /\ HeldOnce
  BY DEF TestInv
<1>2. ASSUME NEW u \in Tester, u # t
      PROVE  /\ StillHeld(u)' = StillHeld(u) /\ Marked(u)' = Marked(u)
             /\ mm_rqs'[u] = mm_rqs[u] /\ InItsLoop(u)'
  BY <1>1, <1>2 DEF StillHeld, Marked, InItsLoop
<1>3. ASSUME NEW u \in Tester, u # t, NEW j \in StillHeld(u)
      PROVE  /\ mm_rqs[u][j] \in live /\ mm_rqs[u][j] \in live'
             /\ \A k \in StillHeld(t) : mm_rqs[u][j] # mm_rqs[t][k]
             /\ \A k \in StillHeld(t)' : mm_rqs[u][j] # mm_rqs'[t][k]
  <2>1. mm_rqs[u][j] \in live
    BY <1>1 DEF BlocksAreKept
  <2>2. \A k \in StillHeld(t) : mm_rqs[u][j] # mm_rqs[t][k]
    BY <1>1, <1>3 DEF HeldOnce
  <2>. QED
    BY <2>1, <2>2
<1>4. ASSUME NEW u \in Tester, u # t
      PROVE  BlocksAreKept(u)'
  <2>1. \A j \in StillHeld(u)' : mm_rqs'[u][j] \in live'
    BY <1>2, <1>3, <1>4
  <2>2. ASSUME NEW j \in Marked(u), NEW b \in Extent(mm_rqs[u][j])
        PROVE  memory'[b] = j - 1
    <3>1. j \in StillHeld(u)
      <4>1. /\ at[u] \in Nat \ {0} /\ Len(mm_rqs[u]) \in Nat
            /\ loop[u] \in {"set", "check"} => at[u] <= Len(mm_rqs[u])
        BY <1>1 DEF TestInv, TesterTypes, InItsLoop
      <4>. QED
        BY <2>2, <4>1 DEF Marked, StillHeld
    <3>2. memory[b] = j - 1
      BY <1>1, <2>2 DEF BlocksAreKept
    <3>3. mm_rqs[u][j] \in live /\ b \in Blocks
      BY <1>3, <1>4, <2>2, <3>1, ExtentsApart DEF TestInv
    <3>4. ASSUME NEW k \in StillHeld(t)
          PROVE  b \notin Extent(mm_rqs[t][k])
      <4>1. mm_rqs[t][k] \in live /\ mm_rqs[t][k] # mm_rqs[u][j]
        BY <1>1, <1>3, <1>4, <3>1 DEF BlocksAreKept
      <4>2. Extent(mm_rqs[t][k]) \cap Extent(mm_rqs[u][j]) = {}
        BY <3>3, <4>1, ExtentsApart DEF TestInv
      <4>. QED
        BY <2>2, <4>2
    <3>. QED
      BY <3>2, <3>3, <3>4
  <2>3. Marked(u)' = Marked(u) /\ mm_rqs'[u] = mm_rqs[u]
    BY <1>2, <1>4
  <2>4. \A j \in Marked(u)' : \A b \in Extent(mm_rqs'[u][j]) : memory'[b] = j - 1
    BY <2>2, <2>3
  <2>. QED
    BY <2>1, <2>4 DEF BlocksAreKept, Extent
<1>5. HeldOnce'
  <2>1. SUFFICES ASSUME NEW v \in Tester, NEW u \in Tester, NEW j \in StillHeld(v)',
                        NEW k \in StillHeld(u)', mm_rqs'[v][j] = mm_rqs'[u][k]
                 PROVE  v = u /\ j = k
    BY DEF HeldOnce
  <2>2. CASE v = t /\ u = t
    BY <2>1, <2>2
  <2>3. CASE v = t /\ u # t
    <3>1. k \in StillHeld(u) /\ mm_rqs'[u][k] = mm_rqs[u][k] /\ j \in StillHeld(t)'
      BY <1>2, <2>1, <2>3
    <3>. QED
      BY <1>3, <2>1, <2>3, <3>1
  <2>4. CASE v # t /\ u = t
    <3>1. j \in StillHeld(v) /\ mm_rqs'[v][j] = mm_rqs[v][j] /\ k \in StillHeld(t)'
      BY <1>2, <2>1, <2>4
    <3>. QED
      BY <1>3, <2>1, <2>4, <3>1
  <2>5. CASE v # t /\ u # t
    BY <1>1, <1>2, <2>1, <2>5 DEF HeldOnce
  <2>. QED
    BY <2>2, <2>3, <2>4, <2>5
<1>. QED
  BY <1>2, <1>4, <1>5 DEF TestInv

(* What a step of the loops does to a tester's place.                      *)
LEMMA ToNextMoves ==
    ASSUME TestInv, NEW t \in Tester, NEW next \in Rounds, ToNext(t, next)
    PROVE  /\ \A u \in Tester \ {t} : loop'[u] = loop[u] /\ at'[u] = at[u]
           /\ loop' \in [Tester -> Rounds \cup {"killed"}]
           /\ at' \in [Tester -> Nat \ {0}]
           /\ at[t] \in Nat \ {0} /\ Len(mm_rqs[t]) \in Nat
           /\ \/ /\ at[t] < Len(mm_rqs[t])
                 /\ at'[t] = at[t] + 1 /\ loop'[t] = loop[t]
              \/ /\ ~ at[t] < Len(mm_rqs[t])
                 /\ at'[t] = 1 /\ loop'[t] = next
<1>1. /\ at \in [Tester -> Nat \ {0}] /\ at[t] \in Nat \ {0}
      /\ loop \in [Tester -> Rounds \cup {"killed"}] /\ Len(mm_rqs[t]) \in Nat
  BY DEF TestInv, TesterTypes
<1>2. CASE at[t] < Len(mm_rqs[t])
  <2>1. at' = [at EXCEPT ![t] = at[t] + 1] /\ loop' = loop
    BY <1>2 DEF ToNext
  <2>2. at[t] + 1 \in Nat \ {0}
    BY <1>1
  <2>3. at' \in [Tester -> Nat \ {0}] /\ at'[t] = at[t] + 1
    BY <1>1, <2>1, <2>2
  <2>4. \A u \in Tester \ {t} : at'[u] = at[u]
    BY <1>1, <2>1
  <2>. QED
    BY <1>1, <1>2, <2>1, <2>3, <2>4
<1>3. CASE ~ at[t] < Len(mm_rqs[t])
  <2>1. at' = [at EXCEPT ![t] = 1] /\ loop' = [loop EXCEPT ![t] = next]
    BY <1>3 DEF ToNext
  <2>2. at' \in [Tester -> Nat \ {0}] /\ at'[t] = 1
    BY <1>1, <2>1
  <2>3. loop' \in [Tester -> Rounds \cup {"killed"}] /\ loop'[t] = next
    BY <1>1, <2>1
  <2>4. \A u \in Tester \ {t} : at'[u] = at[u] /\ loop'[u] = loop[u]
    BY <1>1, <2>1
  <2>. QED
    BY <1>1, <1>3, <2>2, <2>3, <2>4
<1>. QED
  BY <1>2, <1>3

(* malloc.                                                                 *)
LEMMA RequestKeeps ==
    ASSUME BitmapAssumption, TestMMAssumption, TestInv, NEW t \in Tester,
           NEW size \in 1 .. MaxMemory, Request(t, size)
    PROVE  TestInv'
<1>1. /\ Alloc(size) /\ size \in Requests /\ loop[t] = "request"
      /\ UNCHANGED <<memory, loop, at>>
  BY DEF Request, Wants, sys_malloc, TestMMAssumption
<1>2. MapInv' /\ MapInv
  BY <1>1, AllocKeeps DEF TestInv
<1> DEFINE n == BlocksNeeded(size)
           first == Min(Fits(n))
           new == [block |-> first, blocks |-> n, size |-> size]
           old == mm_rqs[t]
<1>3. live' = live \cup {new} /\ mm_rqs' = [mm_rqs EXCEPT ![t] = Append(old, new)]
  BY <1>1 DEF Alloc, Request, sys_malloc
<1>4. new \notin live
  <2>1. n \in Nat \ {0} /\ Fits(n) # {}
    BY <1>1, NeededIsEnough DEF Alloc
  <2>2. PICK f : f = first
    OBVIOUS
  <2>. HIDE DEF n
  <2>3. /\ f \in Blocks /\ f \in Nat /\ f + n <= TotalBlocks
        /\ \A b \in f .. f + n - 1 : b \in Blocks /\ bitmap[b] = 0
        /\ Apart(f, n)
    BY <2>1, <2>2, ChoiceIsFree
  <2>4. bitmap[f] = 0
    BY <2>1, <2>3
  <2>5. \A a \in live : bitmap[a.block] # 0
    BY <1>2, ExtentsApart
  <2>. QED
    BY <2>2, <2>4, <2>5
<1>5. new \in Given
  <2>1. new \in live'
    BY <1>3
  <2>2. new \in [block : Blocks, blocks : 1 .. TotalBlocks, size : Requests]
    <3>. HIDE DEF new
    <3>. QED
      BY <1>2, <2>1 DEF MapInv, BitmapTypeOK, Blocks
  <2>. QED
    BY <2>2 DEF Given
<1>. HIDE DEF new
<1>6. /\ old \in Seq(Given) /\ Len(old) \in Nat
      /\ mm_rqs \in [Tester -> Seq(Given)] /\ at[t] = 1
      /\ BlocksAreKept(t) /\ HeldOnce
  BY <1>1 DEF TestInv, TesterTypes, InItsLoop
<1>7. /\ Append(old, new) \in Seq(Given) /\ Len(Append(old, new)) = Len(old) + 1
      /\ \A j \in 1 .. Len(old) : Append(old, new)[j] = old[j]
      /\ Append(old, new)[Len(old) + 1] = new
  BY <1>5, <1>6, AppendProperties
<1>8. /\ mm_rqs'[t] = Append(old, new) /\ mm_rqs' \in [Tester -> Seq(Given)]
      /\ \A u \in Tester \ {t} : mm_rqs'[u] = mm_rqs[u]
  BY <1>3, <1>6, <1>7
<1>9. StillHeld(t) = 1 .. Len(old) /\ StillHeld(t)' = 1 .. Len(old) + 1 /\ Marked(t)' = {}
  BY <1>1, <1>7, <1>8 DEF StillHeld, Marked
<1>10. ASSUME NEW j \in StillHeld(t)'
       PROVE  \/ j \in StillHeld(t) /\ mm_rqs'[t][j] = old[j] /\ old[j] \in live
              \/ j = Len(old) + 1 /\ mm_rqs'[t][j] = new
  <2>1. CASE j \in 1 .. Len(old)
    BY <1>6, <1>7, <1>8, <1>9, <2>1 DEF BlocksAreKept
  <2>2. CASE j = Len(old) + 1
    BY <1>7, <1>8, <2>2
  <2>. QED
    BY <1>6, <1>9, <2>1, <2>2
<1>11. BlocksAreKept(t)'
  <2>1. live \subseteq live' /\ new \in live'
    BY <1>3
  <2>2. ASSUME NEW j \in StillHeld(t)'
        PROVE  mm_rqs'[t][j] \in live'
    BY <1>10, <2>1
  <2>. QED
    BY <1>9, <2>2 DEF BlocksAreKept
<1>12. \A j, k \in StillHeld(t)' : mm_rqs'[t][j] = mm_rqs'[t][k] => j = k
  BY <1>4, <1>6, <1>10 DEF HeldOnce
<1>13. \A j \in StillHeld(t)' : \/ mm_rqs'[t][j] \notin live
                            \/ \E k \in StillHeld(t) : mm_rqs'[t][j] = mm_rqs[t][k]
  BY <1>4, <1>10
<1>14. TesterTypes' /\ InItsLoop(t)'
  BY <1>1, <1>6, <1>8 DEF TestInv, TesterTypes, InItsLoop, Given, Blocks
<1>. QED
  BY <1>1, <1>2, <1>3, <1>8, <1>11, <1>12, <1>13, <1>14, OthersKeep

(* The marks.                                                              *)
LEMMA SetKeeps ==
    ASSUME BitmapAssumption, TestInv, NEW t \in Tester, Set(t)
    PROVE  TestInv'
<1> DEFINE x == mm_rqs[t][at[t]]
<1>1. /\ loop[t] = "set" /\ ToNext(t, "check") /\ UNCHANGED vars /\ mm_rqs' = mm_rqs
      /\ memory' = [b \in Blocks |-> IF b \in Extent(x) THEN at[t] - 1 ELSE memory[b]]
  BY DEF Set, Current, TestInv, TesterTypes
<1>2. MapInv' /\ live' = live /\ MapInv
  BY <1>1, NextKeepsMapInv DEF TestInv, vars
<1>3. /\ at[t] \in Nat \ {0} /\ Len(mm_rqs[t]) \in Nat /\ at[t] <= Len(mm_rqs[t])
      /\ StillHeld(t) = 1 .. Len(mm_rqs[t]) /\ Marked(t) = 1 .. at[t] - 1
      /\ BlocksAreKept(t) /\ HeldOnce
  BY <1>1 DEF TestInv, TesterTypes, InItsLoop, StillHeld, Marked
<1>4. /\ \A u \in Tester \ {t} : loop'[u] = loop[u] /\ at'[u] = at[u]
      /\ loop' \in [Tester -> Rounds \cup {"killed"}] /\ at' \in [Tester -> Nat \ {0}]
      /\ \/ at[t] < Len(mm_rqs[t]) /\ at'[t] = at[t] + 1 /\ loop'[t] = "set"
         \/ at[t] = Len(mm_rqs[t]) /\ at'[t] = 1 /\ loop'[t] = "check"
  BY <1>1, <1>3, ToNextMoves DEF Rounds
<1>5. /\ StillHeld(t)' = StillHeld(t) /\ Marked(t)' = 1 .. at[t] /\ InItsLoop(t)'
  BY <1>1, <1>3, <1>4 DEF StillHeld, Marked, InItsLoop
<1>6. at[t] \in StillHeld(t) /\ x \in live
  BY <1>3 DEF BlocksAreKept
<1>7. ASSUME NEW j \in Marked(t)', NEW b \in Extent(mm_rqs[t][j])
      PROVE  memory'[b] = j - 1
  <2>1. j \in StillHeld(t) /\ mm_rqs[t][j] \in live
    BY <1>3, <1>5 DEF BlocksAreKept
  <2>2. b \in Blocks
    BY <1>2, <1>7, <2>1, ExtentsApart
  <2>3. CASE j = at[t]
    BY <1>1, <1>7, <2>2, <2>3
  <2>4. CASE j # at[t]
    <3>1. j \in Marked(t)
      BY <1>3, <1>5, <2>4
    <3>2. mm_rqs[t][j] # x
      BY <1>3, <1>6, <2>1, <2>4 DEF HeldOnce
    <3>3. Extent(mm_rqs[t][j]) \cap Extent(x) = {}
      BY <1>2, <1>6, <2>1, <3>2, ExtentsApart
    <3>4. memory[b] = j - 1
      BY <1>3, <1>7, <3>1 DEF BlocksAreKept
    <3>. QED
      BY <1>1, <1>7, <2>2, <3>3, <3>4
  <2>. QED
    BY <2>3, <2>4
<1>8. BlocksAreKept(t)'
  <2>1. \A j \in StillHeld(t)' : mm_rqs'[t][j] \in live'
    BY <1>1, <1>2, <1>3, <1>5 DEF BlocksAreKept
  <2>2. \A j \in Marked(t)' : \A b \in Extent(mm_rqs'[t][j]) : memory'[b] = j - 1
    BY <1>1, <1>7
  <2>. QED
    BY <2>1, <2>2 DEF BlocksAreKept, Extent
<1>9. \A b \in Blocks : \/ memory'[b] = memory[b]
                        \/ \E k \in StillHeld(t) : b \in Extent(mm_rqs[t][k])
  BY <1>1, <1>6
<1>10. TesterTypes'
  <2>1. memory' \in [Blocks -> Int]
    BY <1>1, <1>3 DEF TestInv, TesterTypes
  <2>. QED
    BY <1>1, <1>4, <2>1 DEF TestInv, TesterTypes, Given, Blocks
<1>11. \A j, k \in StillHeld(t)' : mm_rqs'[t][j] = mm_rqs'[t][k] => j = k
  BY <1>1, <1>3, <1>5 DEF HeldOnce
<1>12. \A j \in StillHeld(t)' : \/ mm_rqs'[t][j] \notin live
                            \/ \E k \in StillHeld(t) : mm_rqs'[t][j] = mm_rqs[t][k]
  BY <1>1, <1>5
<1>. QED
  BY <1>1, <1>2, <1>4, <1>5, <1>8, <1>9, <1>10, <1>11, <1>12, OthersKeep

(* A step after which a tester holds no more than before, and the heap and *)
(* its bytes are as they were.                                             *)
LEMMA QuietStep ==
    ASSUME BitmapAssumption, TestInv, NEW t \in Tester, UNCHANGED vars,
           UNCHANGED <<memory, mm_rqs>>, TesterTypes', InItsLoop(t)',
           \A u \in Tester \ {t} : loop'[u] = loop[u] /\ at'[u] = at[u],
           StillHeld(t)' \subseteq StillHeld(t), Marked(t)' \subseteq Marked(t)
    PROVE  TestInv'
<1>1. MapInv' /\ live' = live /\ HeldOnce /\ BlocksAreKept(t)
  BY NextKeepsMapInv DEF TestInv, vars
<1>2. BlocksAreKept(t)'
  <2>1. \A j \in StillHeld(t)' : mm_rqs'[t][j] \in live'
    BY <1>1 DEF BlocksAreKept
  <2>2. \A j \in Marked(t)' : \A b \in Extent(mm_rqs'[t][j]) : memory'[b] = j - 1
    BY <1>1 DEF BlocksAreKept
  <2>. QED
    BY <2>1, <2>2 DEF BlocksAreKept, Extent
<1>3. \A j, k \in StillHeld(t)' : mm_rqs'[t][j] = mm_rqs'[t][k] => j = k
  BY <1>1 DEF HeldOnce
<1>. QED
  BY <1>1, <1>2, <1>3, OthersKeep

(* The checks find the tester's own marks.                                 *)
LEMMA CheckKeeps ==
    ASSUME BitmapAssumption, TestInv, NEW t \in Tester, Check(t)
    PROVE  TestInv'
<1>1. loop[t] = "check" /\ UNCHANGED vars /\ UNCHANGED <<memory, mm_rqs>>
  BY DEF Check
<1>2. /\ at[t] \in Nat \ {0} /\ Len(mm_rqs[t]) \in Nat /\ at[t] <= Len(mm_rqs[t])
      /\ StillHeld(t) = 1 .. Len(mm_rqs[t]) /\ Marked(t) = at[t] .. Len(mm_rqs[t])
      /\ BlocksAreKept(t)
  BY <1>1 DEF TestInv, TesterTypes, InItsLoop, StillHeld, Marked
<1>3. MemCheck(t)
  <2>1. at[t] \in Marked(t)
    BY <1>2
  <2>. QED
    BY <1>2, <2>1 DEF MemCheck, Current, BlocksAreKept
<1>4. ToNext(t, "free")
  BY <1>3 DEF Check
<1>5. /\ \A u \in Tester \ {t} : loop'[u] = loop[u] /\ at'[u] = at[u]
      /\ loop' \in [Tester -> Rounds \cup {"killed"}] /\ at' \in [Tester -> Nat \ {0}]
      /\ \/ at[t] < Len(mm_rqs[t]) /\ at'[t] = at[t] + 1 /\ loop'[t] = "check"
         \/ at[t] = Len(mm_rqs[t]) /\ at'[t] = 1 /\ loop'[t] = "free"
  BY <1>1, <1>2, <1>4, ToNextMoves DEF Rounds
<1>6. /\ StillHeld(t)' = StillHeld(t) /\ Marked(t)' \subseteq Marked(t) /\ InItsLoop(t)'
  BY <1>1, <1>2, <1>5 DEF StillHeld, Marked, InItsLoop
<1>7. TesterTypes'
  BY <1>1, <1>5 DEF TestInv, TesterTypes, Given, Blocks
<1>. QED
  BY <1>1, <1>5, <1>6, <1>7, QuietStep

(* free.                                                                   *)
LEMMA GiveBackKeeps ==
    ASSUME BitmapAssumption, TestInv, NEW t \in Tester, GiveBack(t)
    PROVE  TestInv'
<1> DEFINE x == mm_rqs[t][at[t]]
<1>1. /\ loop[t] = "free" /\ sys_free(x) /\ ToNext(t, "request") /\ memory' = memory
      /\ mm_rqs' = IF at[t] < Len(mm_rqs[t]) THEN mm_rqs
                   ELSE [mm_rqs EXCEPT ![t] = <<>>]
  BY DEF GiveBack, Current
<1>2. /\ at[t] \in Nat \ {0} /\ Len(mm_rqs[t]) \in Nat /\ at[t] <= Len(mm_rqs[t])
      /\ StillHeld(t) = at[t] .. Len(mm_rqs[t]) /\ at[t] \in StillHeld(t)
      /\ BlocksAreKept(t) /\ HeldOnce /\ MapInv /\ mm_rqs \in [Tester -> Seq(Given)]
  BY <1>1 DEF TestInv, TesterTypes, InItsLoop, StillHeld
<1>3. x \in live
  BY <1>2 DEF BlocksAreKept
<1>4. x.block \in Extent(x) /\ x.block \in Blocks /\ bitmap[x.block] # 0
  BY <1>2, <1>3, ExtentsApart
<1>5. Free(x.block)
  BY <1>1, <1>4 DEF sys_free
<1>6. MapInv'
  BY <1>2, <1>4, <1>5, FreeKeeps
<1>7. live' = live \ {x}
  <2>1. PICK a \in live : live' = live \ {a}
    BY <1>2, <1>4, <1>5, FreeTakesOne
  <2>2. x \notin live'
    BY <1>4, <1>5 DEF Free, Extent
  <2>. QED
    BY <1>3, <2>1, <2>2
<1>8. /\ \A u \in Tester \ {t} : loop'[u] = loop[u] /\ at'[u] = at[u]
      /\ loop' \in [Tester -> Rounds \cup {"killed"}] /\ at' \in [Tester -> Nat \ {0}]
      /\ \/ at[t] < Len(mm_rqs[t]) /\ at'[t] = at[t] + 1 /\ loop'[t] = "free"
         \/ at[t] = Len(mm_rqs[t]) /\ at'[t] = 1 /\ loop'[t] = "request"
  BY <1>1, <1>2, ToNextMoves DEF Rounds
<1>9. /\ mm_rqs' \in [Tester -> Seq(Given)]
      /\ \A u \in Tester \ {t} : mm_rqs'[u] = mm_rqs[u]
      /\ at[t] < Len(mm_rqs[t]) => mm_rqs'[t] = mm_rqs[t]
      /\ at[t] = Len(mm_rqs[t]) => mm_rqs'[t] = <<>>
  BY <1>1, <1>2
<1>10. /\ Marked(t)' = {} /\ InItsLoop(t)'
       /\ \A j \in StillHeld(t)' : /\ j \in StillHeld(t) /\ j # at[t]
                               /\ mm_rqs'[t][j] = mm_rqs[t][j]
  <2>1. CASE at[t] < Len(mm_rqs[t])
    BY <1>2, <1>8, <1>9, <2>1 DEF StillHeld, Marked, InItsLoop
  <2>2. CASE at[t] = Len(mm_rqs[t])
    <3>1. Len(mm_rqs'[t]) = 0
      BY <1>9, <2>2
    <3>. QED
      BY <1>2, <1>8, <1>9, <2>2, <3>1 DEF StillHeld, Marked, InItsLoop
  <2>. QED
    BY <1>2, <2>1, <2>2
<1>11. ASSUME NEW j \in StillHeld(t)'
       PROVE  mm_rqs'[t][j] \in live'
  <2>1. mm_rqs[t][j] \in live /\ mm_rqs[t][j] # x
    BY <1>2, <1>10 DEF BlocksAreKept, HeldOnce
  <2>. QED
    BY <1>7, <1>10, <2>1
<1>12. BlocksAreKept(t)'
  BY <1>10, <1>11 DEF BlocksAreKept
<1>13. \A j, k \in StillHeld(t)' : mm_rqs'[t][j] = mm_rqs'[t][k] => j = k
  BY <1>2, <1>10 DEF HeldOnce
<1>14. \A j \in StillHeld(t)' : \E k \in StillHeld(t) : mm_rqs'[t][j] = mm_rqs[t][k]
  BY <1>10
<1>15. \A a \in live : a \in live' \/ \E k \in StillHeld(t) : a = mm_rqs[t][k]
  BY <1>2, <1>7
<1>16. TesterTypes'
  BY <1>1, <1>8, <1>9 DEF TestInv, TesterTypes, Given, Blocks
<1>. QED
  BY <1>1, <1>6, <1>8, <1>9, <1>10, <1>12, <1>13, <1>14, <1>15, <1>16, OthersKeep

(* No step of the testers breaks the invariant.                            *)
LEMMA TestNextKeeps ==
    ASSUME BitmapAssumption, TestMMAssumption, TestInv, [TestNext]_mmVars
    PROVE  TestInv'
<1>1. ASSUME NEW t \in Tester, EnoughBlocks(t)
      PROVE  TestInv'
  <2>1. /\ loop[t] = "request" /\ UNCHANGED vars /\ UNCHANGED <<memory, mm_rqs>>
        /\ loop' = [loop EXCEPT ![t] = "set"] /\ at' = at /\ at[t] = 1
        /\ Len(mm_rqs[t]) \in Nat
    BY <1>1 DEF EnoughBlocks, TestInv, TesterTypes, InItsLoop
  <2>2. Len(mm_rqs[t]) # 0
    BY <1>1, <2>1, TotalOfNone DEF EnoughBlocks, Wants, TestMMAssumption
  <2>3. loop'[t] = "set" /\ \A u \in Tester \ {t} : loop'[u] = loop[u]
    BY <2>1 DEF TestInv, TesterTypes
  <2>4. StillHeld(t)' = StillHeld(t) /\ Marked(t)' = {} /\ InItsLoop(t)'
    BY <2>1, <2>2, <2>3 DEF StillHeld, Marked, InItsLoop
  <2>5. TesterTypes'
    BY <2>1 DEF TestInv, TesterTypes, Given, Blocks, Rounds
  <2>. QED
    BY <2>1, <2>3, <2>4, <2>5, QuietStep
<1>2. ASSUME NEW t \in Tester, Kill(t)
      PROVE  TestInv'
  <2>1. /\ UNCHANGED vars /\ UNCHANGED <<memory, mm_rqs>> /\ at' = at
        /\ loop' = [loop EXCEPT ![t] = "killed"]
    BY <1>2 DEF Kill
  <2>2. loop'[t] = "killed" /\ \A u \in Tester \ {t} : loop'[u] = loop[u]
    BY <2>1 DEF TestInv, TesterTypes
  <2>3. StillHeld(t)' = {} /\ Marked(t)' = {} /\ InItsLoop(t)'
    BY <2>2 DEF StillHeld, Marked, InItsLoop
  <2>4. TesterTypes'
    BY <2>1 DEF TestInv, TesterTypes, Given, Blocks, Rounds
  <2>. QED
    BY <2>1, <2>2, <2>3, <2>4, QuietStep
<1>3. ASSUME NEW t \in Tester, Advance(t)
      PROVE  TestInv'
  BY <1>1, <1>3, SetKeeps, CheckKeeps, GiveBackKeeps DEF Advance
<1>4. CASE UNCHANGED mmVars
  <2>1. UNCHANGED vars /\ UNCHANGED <<memory, mm_rqs, loop, at>>
    BY <1>4 DEF mmVars, testVars
  <2>2. MapInv' /\ live' = live
    BY <2>1, NextKeepsMapInv DEF TestInv, vars
  <2>3. TesterTypes'
    BY <2>1 DEF TestInv, TesterTypes, Given, Blocks
  <2>4. ASSUME NEW t \in Tester
        PROVE  StillHeld(t)' = StillHeld(t) /\ Marked(t)' = Marked(t)
    BY <2>1 DEF StillHeld, Marked
  <2>5. ASSUME NEW t \in Tester
        PROVE  InItsLoop(t)' /\ BlocksAreKept(t)'
    <3>1. InItsLoop(t) /\ BlocksAreKept(t)
      BY DEF TestInv
    <3>2. InItsLoop(t)'
      BY <2>1, <3>1 DEF InItsLoop
    <3>. QED
      BY <2>1, <2>2, <2>4, <3>1, <3>2 DEF BlocksAreKept, Extent
  <2>6. HeldOnce'
    BY <2>1, <2>4 DEF TestInv, HeldOnce
  <2>. QED
    BY <2>2, <2>3, <2>5, <2>6 DEF TestInv
<1>. QED
  BY <1>2, <1>3, <1>4, RequestKeeps DEF TestNext, Retry, Ended

(* No tester of test_mm finds a foreign mark, for any number of testers    *)
(* and any heap, however the calls interleave and whoever is killed when:  *)
(* what memory_alloc gives is nobody else's until it is freed.             *)
THEOREM TestersNeverFail ==
    ASSUME BitmapAssumption, TestMMAssumption
    PROVE  TestSpec => []NobodyFails
<1>1. TestInit => TestInv
  <2>. SUFFICES ASSUME TestInit
                PROVE  TestInv
    OBVIOUS
  <2>1. MapInv
    BY InitMapInv DEF TestInit
  <2>2. TesterTypes
    BY DEF TestInit, TesterTypes, Blocks, Rounds, Unmarked
  <2>3. \A t \in Tester : StillHeld(t) = {} /\ Marked(t) = {} /\ InItsLoop(t)
    BY DEF TestInit, StillHeld, Marked, InItsLoop
  <2>. QED
    BY <2>1, <2>2, <2>3 DEF TestInv, BlocksAreKept, HeldOnce
<1>2. TestInv /\ [TestNext]_mmVars => TestInv'
  BY TestNextKeeps
<1>3. TestInv => NobodyFails
  BY DEF TestInv, TesterTypes, Rounds, NobodyFails
<1>. QED
  BY <1>1, <1>2, <1>3, PTL DEF TestSpec
---------------------------------------------------------------------------
(* The ready queue: its array, with head, tail, count and shifts around    *)
(* the end, implements RunQueue for every size of the process table.       *)
(*                                                                         *)
(* An add that finds the array full is refused in the code and the process *)
(* would be lost to the scheduler.  The invariant excludes it: the array   *)
(* holds the READY processes, each of them once, and the one that runs is  *)
(* not READY.                                                              *)

M == MAX_PROCESSES

Elements(r) == [i \in 1 .. r.count |-> r.cell[Cell(r, i - 1)]]

Positions(r) == 0 .. r.count - 1

At(r, i) == r.cell[Cell(r, i)]

Holds(r, p) == \E i \in Positions(r) : At(r, i) = p

GoodRing(r) ==
    /\ r \in [cell : [Proc -> Proc \cup {NULL}], head : Proc, tail : Proc,
              count : 0 .. M]
    /\ r.tail = (r.head + r.count) % M
    /\ \A i \in Positions(r) : At(r, i) \in Proc
    /\ \A i, j \in Positions(r) : At(r, i) = At(r, j) => i = j

(* The array holds the processes that st says are READY. *)
HoldsReady(st, r) == \A p \in Proc : st[p] = "READY" <=> Holds(r, p)

RingInv ==
    /\ GoodRing(Ring)
    /\ state \in [Proc -> {"READY", "RUNNING", "BLOCKED"}]
    /\ priority \in [Proc -> Priorities]
    /\ current \in Proc
    /\ HoldsReady(state, Ring)
    /\ \A p \in Proc : state[p] = "RUNNING" <=> p = current

-----------------------------------------------------------------------------
(* Positions around the end of the array *)

LEMMA Around ==
    ASSUME NEW m \in Nat \ {0}, NEW x \in 0 .. 2 * m - 1
    PROVE  x % m = IF x < m THEN x ELSE x - m
<1> DEFINE k == x \div m
           y == x % m
<1>1. x \in Nat /\ x < m + m
  OBVIOUS
<1>2. k \in Nat /\ y \in 0 .. m - 1 /\ x = m * k + y
  BY <1>1
<1>. HIDE DEF k, y
<1>3. k <= 1
  <2>1. SUFFICES ASSUME k >= 2
                 PROVE  FALSE
    BY <1>2
  <2>2. m * k = m * 2 + m * (k - 2) /\ m * (k - 2) \in Nat
    BY <1>2, <2>1
  <2>. QED
    BY <1>1, <1>2, <2>2
<1>4. CASE k = 0
  BY <1>1, <1>2, <1>4 DEF y
<1>5. CASE k = 1
  BY <1>1, <1>2, <1>5 DEF y
<1>. QED
  BY <1>2, <1>3, <1>4, <1>5

(* The constants of the ring.                                              *)
LEMMA RingSizes ==
    ASSUME ReadyQueueAssumption
    PROVE  /\ M \in Nat \ {0} /\ MAX_PROCESSES = M /\ Proc = 0 .. M - 1
           /\ NULL \notin Proc /\ 0 \in Proc /\ Idle = 0
  BY DEF ReadyQueueAssumption, M, Proc, NULL, Idle

(* The fields of a ring. *)
LEMMA RingFields ==
    ASSUME ReadyQueueAssumption, NEW r, GoodRing(r)
    PROVE  /\ r.cell \in [Proc -> Proc \cup {NULL}]
           /\ r.head \in Proc /\ r.tail \in Proc /\ r.count \in 0 .. M
           /\ r.head \in Nat /\ r.head < M /\ r.tail \in Nat /\ r.tail < M
           /\ r.count \in Nat
  BY RingSizes DEF GoodRing

(* Cell i of a ring, and that no two positions share one. *)
LEMMA CellIs ==
    ASSUME ReadyQueueAssumption, NEW r, r.head \in Proc, NEW i \in 0 .. M
    PROVE  /\ Cell(r, i) = IF r.head + i < M THEN r.head + i ELSE r.head + i - M
           /\ Cell(r, i) \in Proc /\ Cell(r, i) \in Nat /\ Cell(r, i) < M
<1>1. r.head \in Nat /\ r.head < M /\ M \in Nat \ {0} /\ r.head + i \in 0 .. 2 * M - 1
  BY RingSizes
<1>2. Cell(r, i) = (r.head + i) % M
  BY RingSizes DEF Cell
<1>3. (r.head + i) % M = IF r.head + i < M THEN r.head + i ELSE r.head + i - M
  <2>1. \A x \in 0 .. 2 * M - 1 : x % M = IF x < M THEN x ELSE x - M
    BY <1>1, Around
  <2>. QED
    BY <1>1, <2>1
<1>. QED
  BY <1>1, <1>2, <1>3, RingSizes

(* Different positions are different cells.                                *)
LEMMA CellsDiffer ==
    ASSUME ReadyQueueAssumption, NEW r, r.head \in Proc,
           NEW i \in 0 .. M - 1, NEW j \in 0 .. M - 1, Cell(r, i) = Cell(r, j)
    PROVE  i = j
<1>1. r.head \in Nat /\ r.head < M /\ M \in Nat \ {0}
  BY RingSizes
<1>2. Cell(r, i) = IF r.head + i < M THEN r.head + i ELSE r.head + i - M
  BY <1>1, CellIs
<1>3. Cell(r, j) = IF r.head + j < M THEN r.head + j ELSE r.head + j - M
  BY <1>1, CellIs
<1>4. PICK h : h = r.head
  OBVIOUS
<1>5. PICK c : c = Cell(r, i)
  OBVIOUS
<1>6. h \in Nat /\ h < M /\ M \in Nat \ {0}
  BY <1>1, <1>4
<1>7. c = IF h + i < M THEN h + i ELSE h + i - M
  BY <1>2, <1>4, <1>5
<1>8. c = IF h + j < M THEN h + j ELSE h + j - M
  BY <1>3, <1>4, <1>5
<1>. QED
  BY <1>6, <1>7, <1>8

(* One cell further on is the next position. *)
LEMMA NextCell ==
    ASSUME ReadyQueueAssumption, NEW r, r.head \in Proc, NEW i \in 0 .. M - 1
    PROVE  (Cell(r, i) + 1) % M = Cell(r, i + 1)
<1>1. r.head \in Nat /\ r.head < M /\ M \in Nat \ {0}
  BY RingSizes
<1>2. Cell(r, i) = IF r.head + i < M THEN r.head + i ELSE r.head + i - M
  BY <1>1, CellIs
<1>3. i + 1 \in 0 .. M
  BY <1>1
<1>4. Cell(r, i + 1) = IF r.head + (i + 1) < M THEN r.head + (i + 1)
                       ELSE r.head + (i + 1) - M
  BY <1>3, CellIs
<1>5. Cell(r, i) + 1 \in 0 .. 2 * M - 1
  BY <1>1, <1>2
<1>6. (Cell(r, i) + 1) % M = IF Cell(r, i) + 1 < M THEN Cell(r, i) + 1
                             ELSE Cell(r, i) + 1 - M
  <2>1. \A x \in 0 .. 2 * M - 1 : x % M = IF x < M THEN x ELSE x - M
    BY <1>1, Around
  <2>. QED
    BY <1>1, <1>2, <1>5, <2>1
<1>. QED
  BY <1>1, <1>2, <1>4, <1>6

(* The sequence of the ring, position by position.                         *)
LEMMA HeldPositions ==
    ASSUME ReadyQueueAssumption, NEW r, GoodRing(r)
    PROVE  /\ Elements(r) \in Seq(Proc) /\ Len(Elements(r)) = r.count
           /\ DOMAIN Elements(r) = 1 .. r.count
           /\ \A i \in Positions(r) : i + 1 \in 1 .. r.count /\ Elements(r)[i + 1] = At(r, i)
           /\ \A k \in 1 .. r.count : k - 1 \in Positions(r) /\ Elements(r)[k] = At(r, k - 1)
<1>1. r.count \in Nat
  BY RingFields
<1>2. \A i \in Positions(r) : At(r, i) \in Proc
  BY DEF GoodRing
<1>3. \A k \in 1 .. r.count : k - 1 \in Positions(r) /\ Elements(r)[k] = At(r, k - 1)
  BY <1>1 DEF Elements, Positions, At
<1>4. \A i \in Positions(r) : i + 1 \in 1 .. r.count /\ Elements(r)[i + 1] = At(r, i)
  <2>1. ASSUME NEW i \in Positions(r)
        PROVE  i + 1 \in 1 .. r.count /\ Elements(r)[i + 1] = At(r, i)
    <3>1. i + 1 \in 1 .. r.count /\ i + 1 - 1 = i
      BY <1>1 DEF Positions
    <3>2. PICK k \in 1 .. r.count : k = i + 1
      BY <3>1
    <3>3. k - 1 = i
      BY <1>1, <3>2 DEF Positions
    <3>4. Elements(r)[k] = At(r, k - 1)
      BY <1>3
    <3>5. Elements(r)[k] = At(r, i)
      BY <3>3, <3>4, Zenon
    <3>. QED
      BY <3>1, <3>2, <3>5
  <2>. QED
    BY <2>1
<1>5. Elements(r) \in [1 .. r.count -> Proc]
  BY <1>2, <1>3 DEF Elements
<1>6. Elements(r) \in Seq(Proc) /\ Len(Elements(r)) = r.count
  BY <1>1, <1>5
<1>. QED
  BY <1>3, <1>4, <1>5, <1>6
-----------------------------------------------------------------------------
(* The two changes of the array *)

(* add_to_ready_queue appends, when there is room. *)
LEMMA AddIsAppend ==
    ASSUME ReadyQueueAssumption, NEW r, GoodRing(r), NEW p \in Proc, ~ Holds(r, p),
           r.count < M, NEW a, a = add_to_ready_queue(r, p)
    PROVE  /\ GoodRing(a)
           /\ Elements(a) = Append(Elements(r), p)
           /\ \A o \in Proc : Holds(a, o) <=> Holds(r, o) \/ o = p
<1>1. /\ r.cell \in [Proc -> Proc \cup {NULL}]
      /\ r.head \in Proc /\ r.tail \in Proc /\ r.count \in 0 .. M - 1
      /\ r.count \in Nat /\ M \in Nat \ {0} /\ r.count < M
  BY RingFields, RingSizes
<1>2. /\ a.cell = [r.cell EXCEPT ![r.tail] = p]
      /\ a.tail = (r.tail + 1) % M
      /\ a.count = r.count + 1
      /\ a.head = r.head
  <2>1. r \in [cell : [Proc -> Proc \cup {NULL}], head : Proc, tail : Proc,
               count : 0 .. M]
    BY DEF GoodRing
  <2>2. ~ (r.count >= MAX_PROCESSES)
    BY <1>1, RingSizes
  <2>3. a = [r EXCEPT !.cell[r.tail] = p,
                      !.tail = (@ + 1) % MAX_PROCESSES,
                      !.count = @ + 1]
    BY <2>2 DEF add_to_ready_queue
  <2>. QED
    BY <2>1, <2>3 DEF M
<1>3. \A i \in 0 .. M : Cell(a, i) = Cell(r, i)
  BY <1>2 DEF Cell
<1>4. r.tail = Cell(r, r.count)
  BY DEF GoodRing, Cell, M
<1>5. a.tail = Cell(a, a.count) /\ a.tail \in Proc /\ a.count \in 0 .. M
  <2>1. (Cell(r, r.count) + 1) % M = Cell(r, r.count + 1)
    BY <1>1, NextCell
  <2>2. a.count \in 0 .. M
    BY <1>1, <1>2
  <2>. QED
    BY <1>1, <1>2, <1>3, <1>4, <2>1, <2>2, CellIs
<1>6. ASSUME NEW i \in Positions(r)
      PROVE  At(a, i) = At(r, i) /\ i \in Positions(a) /\ At(r, i) \in Proc
  <2>1. i \in 0 .. M - 1 /\ i # r.count /\ i \in Positions(a)
    BY <1>1, <1>2 DEF Positions
  <2>2. Cell(r, i) # r.tail
    BY <1>1, <1>4, <2>1, CellsDiffer
  <2>3. Cell(r, i) \in Proc /\ Cell(a, i) = Cell(r, i)
    BY <1>1, <1>3, <2>1, CellIs
  <2>4. At(r, i) \in Proc
    BY DEF GoodRing
  <2>. QED
    BY <1>1, <1>2, <2>1, <2>2, <2>3, <2>4 DEF At
<1>7. At(a, r.count) = p /\ r.count \in Positions(a)
  BY <1>1, <1>2, <1>3, <1>4 DEF At, Positions
<1>8. Positions(a) = Positions(r) \cup {r.count}
  BY <1>1, <1>2 DEF Positions
<1>9. \A o \in Proc : Holds(a, o) <=> Holds(r, o) \/ o = p
  BY <1>6, <1>7, <1>8 DEF Holds
<1>10. \A i, j \in Positions(a) : At(a, i) = At(a, j) => i = j
  <2>1. \A i, j \in Positions(r) : At(r, i) = At(r, j) => i = j
    BY DEF GoodRing
  <2>2. \A i \in Positions(r) : At(r, i) # p
    BY DEF Holds
  <2>. QED
    BY <1>6, <1>7, <1>8, <2>1, <2>2
<1>11. GoodRing(a)
  <2>1. a \in [cell : [Proc -> Proc \cup {NULL}], head : Proc, tail : Proc,
               count : 0 .. M]
    <3>1. r \in [cell : [Proc -> Proc \cup {NULL}], head : Proc, tail : Proc,
                 count : 0 .. M]
      BY DEF GoodRing
    <3>2. ~ (r.count >= MAX_PROCESSES)
      BY <1>1, RingSizes
    <3>3. a = [cell |-> a.cell, head |-> a.head, tail |-> a.tail, count |-> a.count]
      BY <3>1, <3>2 DEF add_to_ready_queue
    <3>4. a.cell \in [Proc -> Proc \cup {NULL}]
      BY <1>1, <1>2
    <3>. QED
      BY <1>1, <1>2, <1>5, <3>3, <3>4
  <2>2. a.tail = (a.head + a.count) % M
    BY <1>5 DEF Cell, M
  <2>3. \A i \in Positions(a) : At(a, i) \in Proc
    BY <1>6, <1>7, <1>8
  <2>. QED
    BY <1>10, <2>1, <2>2, <2>3 DEF GoodRing
<1>12. Elements(a) = Append(Elements(r), p)
  <2>1. /\ Elements(a) \in Seq(Proc) /\ Len(Elements(a)) = r.count + 1
        /\ \A k \in 1 .. r.count + 1 : Elements(a)[k] = At(a, k - 1)
    BY <1>2, <1>11, HeldPositions
  <2>2. /\ Elements(r) \in Seq(Proc) /\ Len(Elements(r)) = r.count
        /\ \A k \in 1 .. r.count : k - 1 \in Positions(r) /\ Elements(r)[k] = At(r, k - 1)
    BY HeldPositions
  <2>3. /\ Append(Elements(r), p) \in Seq(Proc)
        /\ Len(Append(Elements(r), p)) = r.count + 1
        /\ \A k \in 1 .. r.count : Append(Elements(r), p)[k] = Elements(r)[k]
        /\ Append(Elements(r), p)[r.count + 1] = p
    BY <2>2, AppendProperties
  <2>4. ASSUME NEW k \in 1 .. r.count + 1
        PROVE  Elements(a)[k] = Append(Elements(r), p)[k]
    <3>1. CASE k \in 1 .. r.count
      <4>1. PICK i \in Positions(r) : i = k - 1
        BY <2>2, <3>1
      <4>2. At(a, i) = At(r, i)
        BY <1>6
      <4>3. Elements(a)[k] = At(a, k - 1) /\ Elements(r)[k] = At(r, k - 1)
        BY <2>1, <2>2, <3>1
      <4>4. Elements(a)[k] = Elements(r)[k]
        BY <4>1, <4>2, <4>3, Zenon
      <4>. QED
        BY <2>3, <3>1, <4>4
    <3>2. CASE k = r.count + 1
      <4>1. k - 1 = r.count
        BY <1>1, <3>2
      <4>2. Elements(a)[k] = p
        BY <1>7, <2>1, <4>1, Zenon
      <4>. QED
        BY <2>3, <3>2, <4>2
    <3>3. k \in 1 .. r.count \/ k = r.count + 1
      BY <1>1
    <3>. QED
      BY <3>1, <3>2, <3>3
  <2>. QED
    BY <2>1, <2>3, <2>4, SeqEqual
<1>. QED
  BY <1>9, <1>11, <1>12

(* Taking an element out of a sequence. *)
LEMMA RemoveAtProperties ==
    ASSUME NEW S, NEW s \in Seq(S), NEW i \in 1 .. Len(s)
    PROVE  /\ Abstract!RemoveAt(s, i) \in Seq(S)
           /\ Len(Abstract!RemoveAt(s, i)) = Len(s) - 1
           /\ \A j \in 1 .. Len(s) - 1 :
                 Abstract!RemoveAt(s, i)[j] = IF j < i THEN s[j] ELSE s[j + 1]
<1> DEFINE a == SubSeq(s, 1, i - 1)
           b == SubSeq(s, i + 1, Len(s))
<1>1. Len(s) \in Nat /\ \A k \in 1 .. Len(s) : s[k] \in S
  BY ElementOfSeq, LenProperties
<1>2. /\ a \in Seq(S)
      /\ Len(a) = i - 1
      /\ \A j \in 1 .. i - 1 : a[j] = s[j]
  <2>1. \A k \in 1 .. i - 1 : s[k] \in S
    BY <1>1
  <2>2. 1 \in Int /\ i - 1 \in Int
    BY <1>1
  <2>. QED
    BY <1>1, <2>1, <2>2, SubSeqProperties
<1>3. /\ b \in Seq(S)
      /\ Len(b) = Len(s) - i
      /\ \A j \in 1 .. Len(s) - i : b[j] = s[i + j]
  <2>1. \A k \in i + 1 .. Len(s) : s[k] \in S
    BY <1>1
  <2>2. i + 1 \in Int /\ Len(s) \in Int
    BY <1>1
  <2>. QED
    BY <1>1, <2>1, <2>2, SubSeqProperties
<1>. HIDE DEF a, b
<1>4. /\ a \o b \in Seq(S)
      /\ Len(a \o b) = Len(s) - 1
      /\ \A j \in 1 .. Len(s) - 1 :
            (a \o b)[j] = IF j <= i - 1 THEN a[j] ELSE b[j - (i - 1)]
  <2>1. /\ a \o b \in Seq(S)
        /\ Len(a \o b) = Len(a) + Len(b)
        /\ \A j \in 1 .. Len(a) + Len(b) :
              (a \o b)[j] = IF j <= Len(a) THEN a[j] ELSE b[j - Len(a)]
    BY <1>2, <1>3, ConcatProperties
  <2>. QED
    BY <1>1, <1>2, <1>3, <2>1
<1>5. Abstract!RemoveAt(s, i) = a \o b
  BY DEF Abstract!RemoveAt, a, b
<1>6. ASSUME NEW j \in 1 .. Len(s) - 1
      PROVE  (a \o b)[j] = IF j < i THEN s[j] ELSE s[j + 1]
  <2>1. CASE j < i
    BY <1>1, <1>2, <1>4, <2>1
  <2>2. CASE ~ (j < i)
    <3>1. PICK k \in 1 .. Len(s) - i : k = j - (i - 1) /\ i + k = j + 1
      BY <1>1, <2>2
    <3>2. (a \o b)[j] = b[k] /\ b[k] = s[i + k]
      BY <1>1, <1>3, <1>4, <2>2, <3>1
    <3>. QED
      BY <2>2, <3>1, <3>2
  <2>. QED
    BY <2>1, <2>2
<1>. QED
  BY <1>4, <1>5, <1>6
(* One cell back is the position before. *)
LEMMA CellBefore ==
    ASSUME ReadyQueueAssumption, NEW r, r.head \in Proc, NEW i \in 1 .. M
    PROVE  (Cell(r, i) - 1 + M) % M = Cell(r, i - 1)
<1>1. r.head \in Nat /\ r.head < M /\ M \in Nat \ {0}
  BY RingSizes
<1>2. /\ Cell(r, i) = IF r.head + i < M THEN r.head + i ELSE r.head + i - M
      /\ Cell(r, i) \in Nat /\ Cell(r, i) < M
  BY <1>1, CellIs
<1>3. i - 1 \in 0 .. M
  BY <1>1
<1>4. Cell(r, i - 1) = IF r.head + (i - 1) < M THEN r.head + (i - 1)
                       ELSE r.head + (i - 1) - M
  BY <1>3, CellIs
<1>5. Cell(r, i) - 1 + M \in 0 .. 2 * M - 1
  BY <1>1, <1>2
<1>6. (Cell(r, i) - 1 + M) % M = IF Cell(r, i) - 1 + M < M THEN Cell(r, i) - 1 + M
                                 ELSE Cell(r, i) - 1 + M - M
  <2>1. \A x \in 0 .. 2 * M - 1 : x % M = IF x < M THEN x ELSE x - M
    BY <1>1, Around
  <2>. QED
    BY <1>1, <1>2, <1>5, <2>1
<1>. QED
  BY <1>1, <1>2, <1>4, <1>6

(* The shift: positions behind the one taken move up by one. *)
LEMMA WithoutShifts ==
    ASSUME ReadyQueueAssumption, NEW r, GoodRing(r), NEW i \in Positions(r),
           NEW w, w = Without(r, i)
    PROVE  /\ w \in [cell : [Proc -> Proc \cup {NULL}], head : Proc, tail : Proc,
                     count : 0 .. M]
           /\ w.count = r.count - 1 /\ w.head = r.head
           /\ w.tail = (w.head + w.count) % M
           /\ \A j \in Positions(w) :
                 /\ j \in Positions(r) /\ j + 1 \in Positions(r)
                 /\ At(w, j) = IF j < i THEN At(r, j) ELSE At(r, j + 1)
<1>1. /\ r.cell \in [Proc -> Proc \cup {NULL}]
      /\ r.head \in Proc /\ r.tail \in Proc /\ r.count \in 1 .. M
      /\ r.count \in Nat /\ M \in Nat \ {0} /\ i \in 0 .. M - 1 /\ i < r.count
  BY RingFields, RingSizes DEF Positions
<1> DEFINE moved == [c \in Proc |->
              IF \E j \in i .. r.count - 2 : c = Cell(r, j)
              THEN r.cell[(c + 1) % MAX_PROCESSES] ELSE r.cell[c]]
           last == Cell(r, r.count - 1)
           cell == [moved EXCEPT ![last] = NULL]
           end == (r.tail - 1 + MAX_PROCESSES) % MAX_PROCESSES
<1>2. w = [r EXCEPT !.count = r.count - 1, !.tail = end, !.cell = cell]
  BY DEF Without
<1>3. last \in Proc
  <2>1. r.count - 1 \in 0 .. M
    BY <1>1
  <2>. QED
    BY <1>1, <2>1, CellIs
<1>4. end = last
  <2>1. r.tail = Cell(r, r.count)
    BY DEF GoodRing, Cell, M
  <2>2. (Cell(r, r.count) - 1 + M) % M = Cell(r, r.count - 1)
    BY <1>1, CellBefore
  <2>. QED
    BY <2>1, <2>2, Zenon DEF M
<1>5. cell \in [Proc -> Proc \cup {NULL}]
  <2>1. ASSUME NEW c \in Proc
        PROVE  moved[c] \in Proc \cup {NULL}
    <3>1. c \in Nat /\ (c + 1) % M \in Proc
      BY <1>1, RingSizes
    <3>. QED
      BY <1>1, <3>1 DEF M
  <2>2. moved \in [Proc -> Proc \cup {NULL}]
    BY <2>1
  <2>. HIDE DEF moved
  <2>. QED
    BY <1>3, <2>2
<1>6. /\ w = [cell |-> cell, head |-> r.head, tail |-> end, count |-> r.count - 1]
      /\ w.cell = cell /\ w.head = r.head /\ w.tail = end /\ w.count = r.count - 1
  <2>. HIDE DEF cell, end
  <2>1. r \in [cell : [Proc -> Proc \cup {NULL}], head : Proc, tail : Proc,
               count : 0 .. M]
    BY DEF GoodRing
  <2>. QED
    BY <1>2, <2>1
<1>7. w \in [cell : [Proc -> Proc \cup {NULL}], head : Proc, tail : Proc,
             count : 0 .. M]
  <2>. HIDE DEF cell, end, last
  <2>1. r.count - 1 \in 0 .. M
    BY <1>1
  <2>. QED
    BY <1>1, <1>3, <1>4, <1>5, <1>6, <2>1
<1>8. \A j \in 0 .. M : Cell(w, j) = Cell(r, j)
  BY <1>6 DEF Cell
<1>9. w.tail = (w.head + w.count) % M
  <2>. HIDE DEF cell, end
  <2>. QED
    BY <1>4, <1>6 DEF Cell, M
<1>10. ASSUME NEW j \in Positions(w)
       PROVE  /\ j \in Positions(r) /\ j + 1 \in Positions(r)
              /\ At(w, j) = IF j < i THEN At(r, j) ELSE At(r, j + 1)
  <2>1. /\ j \in 0 .. r.count - 2 /\ j \in 0 .. M - 1 /\ j \in Int
        /\ j \in Positions(r) /\ j + 1 \in Positions(r)
        /\ r.count - 1 \in 0 .. M - 1 /\ j # r.count - 1
    BY <1>1, <1>6 DEF Positions
  <2>2. PICK c : c = Cell(r, j)
    OBVIOUS
  <2>3. c \in Proc /\ c = Cell(w, j)
    BY <1>1, <1>8, <2>1, <2>2, CellIs
  <2>4. c # last
    BY <1>1, <2>1, <2>2, CellsDiffer
  <2>5. At(w, j) = moved[c]
    <3>. HIDE DEF moved, last
    <3>. QED
      BY <1>5, <1>6, <2>3, <2>4 DEF At
  <2>6. CASE j < i
    <3>1. ASSUME NEW k \in i .. r.count - 2, c = Cell(r, k)
          PROVE  FALSE
      <4>1. k \in 0 .. M - 1
        BY <1>1
      <4>2. k = j
        BY <1>1, <2>1, <2>2, <3>1, <4>1, CellsDiffer
      <4>. QED
        BY <1>1, <2>6, <4>2
    <3>2. moved[c] = r.cell[c]
      BY <2>3, <3>1
    <3>. QED
      BY <2>1, <2>2, <2>5, <2>6, <3>2, Zenon DEF At
  <2>7. CASE ~ (j < i)
    <3>1. j \in i .. r.count - 2
      BY <1>1, <2>1, <2>7
    <3>2. moved[c] = r.cell[(c + 1) % MAX_PROCESSES]
      BY <2>2, <2>3, <3>1
    <3>3. (c + 1) % MAX_PROCESSES = Cell(r, j + 1)
      <4>1. (Cell(r, j) + 1) % M = Cell(r, j + 1)
        BY <1>1, <2>1, NextCell
      <4>. QED
        BY <2>2, <4>1, Zenon DEF M
    <3>4. At(w, j) = At(r, j + 1)
      BY <2>5, <3>2, <3>3, Zenon DEF At
    <3>. QED
      BY <2>1, <2>7, <3>4, Zenon
  <2>. QED
    BY <2>6, <2>7
<1>. QED
  BY <1>6, <1>7, <1>9, <1>10

(* The removal that shifts across the end of the array is RemoveAt.        *)
LEMMA WithoutIsRemoveAt ==
    ASSUME ReadyQueueAssumption, NEW r, GoodRing(r), NEW i \in Positions(r),
           NEW w, w = Without(r, i)
    PROVE  /\ GoodRing(w)
           /\ Elements(w) = Abstract!RemoveAt(Elements(r), i + 1)
           /\ \A o \in Proc : Holds(w, o) <=> Holds(r, o) /\ o # At(r, i)
<1>1. /\ w \in [cell : [Proc -> Proc \cup {NULL}], head : Proc, tail : Proc,
                count : 0 .. M]
      /\ w.count = r.count - 1 /\ w.head = r.head
      /\ w.tail = (w.head + w.count) % M
      /\ \A j \in Positions(w) :
            /\ j \in Positions(r) /\ j + 1 \in Positions(r)
            /\ At(w, j) = IF j < i THEN At(r, j) ELSE At(r, j + 1)
  BY WithoutShifts
<1>2. /\ \A j \in Positions(r) : At(r, j) \in Proc
      /\ \A j, k \in Positions(r) : At(r, j) = At(r, k) => j = k
  BY DEF GoodRing
<1>3. r.count \in Nat /\ i \in Int /\ i >= 0 /\ i < r.count
  BY RingFields DEF Positions
<1>4. \A j \in Positions(w) : At(w, j) \in Proc
  <2>1. ASSUME NEW j \in Positions(w)
        PROVE  At(w, j) \in Proc
    <3>1. /\ j \in Positions(r) /\ j + 1 \in Positions(r)
          /\ At(w, j) = IF j < i THEN At(r, j) ELSE At(r, j + 1)
      BY <1>1
    <3>2. At(r, j) \in Proc /\ At(r, j + 1) \in Proc
      BY <1>2, <3>1
    <3>. QED
      BY <3>1, <3>2
  <2>. QED
    BY <2>1
<1>5. ASSUME NEW j \in Positions(w), NEW k \in Positions(w), At(w, j) = At(w, k)
      PROVE  j = k
  <2>1. /\ j \in Positions(r) /\ j + 1 \in Positions(r)
        /\ At(w, j) = IF j < i THEN At(r, j) ELSE At(r, j + 1)
    BY <1>1
  <2>2. /\ k \in Positions(r) /\ k + 1 \in Positions(r)
        /\ At(w, k) = IF k < i THEN At(r, k) ELSE At(r, k + 1)
    BY <1>1
  <2>3. j \in Int /\ k \in Int
    BY <1>3, <2>1, <2>2 DEF Positions
  <2>4. PICK x \in Positions(r) : x = IF j < i THEN j ELSE j + 1
    BY <2>1
  <2>5. PICK y \in Positions(r) : y = IF k < i THEN k ELSE k + 1
    BY <2>2
  <2>6. At(w, j) = At(r, x) /\ At(w, k) = At(r, y)
    BY <2>1, <2>2, <2>4, <2>5
  <2>7. x = y
    BY <1>2, <1>5, <2>6
  <2>. QED
    BY <1>3, <2>3, <2>4, <2>5, <2>7
<1>6. GoodRing(w)
  BY <1>1, <1>4, <1>5 DEF GoodRing
<1>7. ASSUME NEW o \in Proc, Holds(w, o)
      PROVE  Holds(r, o) /\ o # At(r, i)
  <2>1. PICK j \in Positions(w) : At(w, j) = o
    BY <1>7 DEF Holds
  <2>2. /\ j \in Positions(r) /\ j + 1 \in Positions(r)
        /\ At(w, j) = IF j < i THEN At(r, j) ELSE At(r, j + 1)
    BY <1>1
  <2>3. PICK x \in Positions(r) : x = IF j < i THEN j ELSE j + 1
    BY <2>2
  <2>4. At(r, x) = o
    BY <2>1, <2>2, <2>3
  <2>5. x # i
    BY <1>3, <2>2, <2>3 DEF Positions
  <2>. QED
    BY <1>2, <2>4, <2>5 DEF Holds
<1>8. ASSUME NEW o \in Proc, Holds(r, o), o # At(r, i)
      PROVE  Holds(w, o)
  <2>1. PICK x \in Positions(r) : At(r, x) = o
    BY <1>8 DEF Holds
  <2>2. x # i /\ x \in Int /\ x >= 0 /\ x < r.count
    BY <1>3, <1>8, <2>1 DEF Positions
  <2>3. CASE x < i
    <3>1. x \in Positions(w)
      BY <1>1, <1>3, <2>2, <2>3 DEF Positions
    <3>2. At(w, x) = At(r, x)
      BY <1>1, <2>3, <3>1
    <3>. QED
      BY <2>1, <3>1, <3>2 DEF Holds
  <2>4. CASE x > i
    <3>1. PICK j \in Positions(w) : j = x - 1
      BY <1>1, <1>3, <2>2, <2>4 DEF Positions
    <3>2. j + 1 = x /\ ~ (j < i)
      BY <1>3, <2>2, <2>4, <3>1
    <3>3. At(w, j) = At(r, j + 1)
      BY <1>1, <3>2
    <3>4. At(w, j) = o
      BY <2>1, <3>2, <3>3, Zenon
    <3>. QED
      BY <3>4 DEF Holds
  <2>. QED
    BY <1>3, <2>2, <2>3, <2>4
<1>9. Elements(w) = Abstract!RemoveAt(Elements(r), i + 1)
  <2>1. /\ Elements(w) \in Seq(Proc) /\ Len(Elements(w)) = r.count - 1
        /\ \A k \in 1 .. r.count - 1 :
              k - 1 \in Positions(w) /\ Elements(w)[k] = At(w, k - 1)
    BY <1>1, <1>6, HeldPositions
  <2>2. /\ Elements(r) \in Seq(Proc) /\ Len(Elements(r)) = r.count
        /\ \A j \in Positions(r) : Elements(r)[j + 1] = At(r, j)
    BY HeldPositions
  <2>3. i + 1 \in 1 .. r.count
    BY <1>3
  <2>4. /\ Abstract!RemoveAt(Elements(r), i + 1) \in Seq(Proc)
        /\ Len(Abstract!RemoveAt(Elements(r), i + 1)) = r.count - 1
        /\ \A k \in 1 .. r.count - 1 :
              Abstract!RemoveAt(Elements(r), i + 1)[k]
                = IF k < i + 1 THEN Elements(r)[k] ELSE Elements(r)[k + 1]
    BY <2>2, <2>3, RemoveAtProperties
  <2>5. ASSUME NEW k \in 1 .. r.count - 1
        PROVE  Elements(w)[k] = Abstract!RemoveAt(Elements(r), i + 1)[k]
    <3>1. PICK j \in Positions(w) : j = k - 1
      BY <2>1
    <3>2. j + 1 = k /\ (j < i <=> k < i + 1) /\ j + 1 + 1 = k + 1
      BY <1>3, <3>1
    <3>3. /\ j \in Positions(r) /\ j + 1 \in Positions(r)
          /\ At(w, j) = IF j < i THEN At(r, j) ELSE At(r, j + 1)
      BY <1>1
    <3>4. Elements(r)[j + 1] = At(r, j) /\ Elements(r)[j + 1 + 1] = At(r, j + 1)
      BY <2>2, <3>3
    <3>5. Elements(w)[k] = At(w, j)
      BY <2>1, <3>1, Zenon
    <3>6. CASE j < i
      <4>1. Elements(w)[k] = Elements(r)[k]
        BY <3>2, <3>3, <3>4, <3>5, <3>6, Zenon
      <4>. QED
        BY <2>4, <3>2, <3>6, <4>1
    <3>7. CASE ~ (j < i)
      <4>1. Elements(w)[k] = Elements(r)[k + 1]
        BY <3>2, <3>3, <3>4, <3>5, <3>7, Zenon
      <4>. QED
        BY <2>4, <3>2, <3>7, <4>1
    <3>. QED
      BY <3>6, <3>7
  <2>. QED
    BY <2>1, <2>4, <2>5, SeqEqual
<1>. QED
  BY <1>6, <1>7, <1>8, <1>9
-----------------------------------------------------------------------------
(* The choice of the next process *)

LEMMA Least ==
    ASSUME NEW S, S \subseteq Nat, S # {}
    PROVE  \E x \in S : \A y \in S : x <= y
<1>1. PICK x \in S : \A y \in S : ~ (<<y, x>> \in OpToRel(<, Nat))
  BY NatLessThanWellFounded, WFMin
<1>2. ASSUME NEW y \in S, y < x
      PROVE  <<y, x>> \in OpToRel(<, Nat)
  <2>1. <<y, x>> \in Nat \X Nat /\ <<y, x>>[1] = y /\ <<y, x>>[2] = x
    OBVIOUS
  <2>. QED
    BY <1>2, <2>1, Zenon DEF OpToRel
<1>3. \A y \in S : ~ (y < x)
  BY <1>1, <1>2, Zenon
<1>. QED
  BY <1>3

AsGood(r, i) == \A j \in Positions(r) : priority[At(r, i)] <= priority[At(r, j)]

(* The search of remove_from_ready_queue finds the first of the best. *)
LEMMA BestIs ==
    ASSUME ReadyQueueAssumption, NEW r, GoodRing(r),
           priority \in [Proc -> Priorities], r.count # 0
    PROVE  /\ Best(r) # {}
           /\ \A i \in Best(r) :
                 /\ i \in Positions(r) /\ AsGood(r, i)
                 /\ \A j \in 0 .. i - 1 :
                       j \in Positions(r) /\ priority[At(r, i)] < priority[At(r, j)]
<1>1. r.count \in Nat /\ 0 \in Positions(r)
  BY RingFields DEF Positions
<1>2. \A i \in Positions(r) : /\ At(r, i) \in Proc /\ At(r, i) # NULL
                              /\ priority[At(r, i)] \in Nat
  <2>1. \A i \in Positions(r) : At(r, i) \in Proc
    BY DEF GoodRing
  <2>. QED
    BY <2>1, RingSizes DEF ReadyQueueAssumption
<1> DEFINE held == {i \in 0 .. r.count - 1 : r.cell[Cell(r, i)] # NULL}
<1>3. held = Positions(r)
  BY <1>2 DEF Positions, At
<1>4. Best(r) = {i \in 0 .. r.count - 1 :
                   /\ r.cell[Cell(r, i)] # NULL
                   /\ \A k \in held : priority[r.cell[Cell(r, i)]] <= priority[r.cell[Cell(r, k)]]
                   /\ \A j \in 0 .. i - 1 : r.cell[Cell(r, j)] # NULL =>
                        ~ \A k \in held : priority[r.cell[Cell(r, j)]]
                                            <= priority[r.cell[Cell(r, k)]]}
  BY DEF Best, First
<1>. HIDE DEF held
<1>5. \A i : i \in Best(r) <=>
         /\ i \in Positions(r) /\ AsGood(r, i)
         /\ \A j \in 0 .. i - 1 : At(r, j) # NULL => ~ AsGood(r, j)
  BY <1>2, <1>3, <1>4 DEF Positions, At, AsGood
<1>6. Best(r) # {}
  <2> DEFINE P == {priority[At(r, i)] : i \in Positions(r)}
  <2>1. P \subseteq Nat /\ P # {}
    BY <1>1, <1>2
  <2>2. PICK m \in P : \A n \in P : m <= n
    BY <2>1, Least
  <2> DEFINE Q == {i \in Positions(r) : priority[At(r, i)] = m}
  <2>3. Q \subseteq Nat /\ Q # {}
    BY <1>1, <2>2 DEF Positions
  <2>4. PICK i \in Q : \A k \in Q : i <= k
    BY <2>3, Least
  <2>5. \A k \in Positions(r) : m <= priority[At(r, k)]
    BY <2>2
  <2>6. AsGood(r, i)
    BY <2>4, <2>5 DEF AsGood
  <2>7. ASSUME NEW j \in 0 .. i - 1, AsGood(r, j)
        PROVE  FALSE
    <3>1. j \in Positions(r) /\ j \in Int /\ i \in Int /\ j < i
      BY <1>1, <2>4 DEF Positions
    <3>2. priority[At(r, j)] <= m /\ m <= priority[At(r, j)]
      BY <2>4, <2>5, <2>7, <3>1 DEF AsGood
    <3>3. priority[At(r, j)] = m
      BY <1>2, <2>1, <2>2, <3>1, <3>2
    <3>4. i <= j
      BY <2>4, <3>1, <3>3
    <3>. QED
      BY <3>1, <3>4
  <2>. QED
    BY <1>5, <2>4, <2>6, <2>7
<1>7. ASSUME NEW i \in Best(r), NEW j \in 0 .. i - 1
      PROVE  j \in Positions(r) /\ priority[At(r, i)] < priority[At(r, j)]
  <2>1. i \in Positions(r) /\ AsGood(r, i)
    BY <1>5
  <2>2. j \in Positions(r)
    BY <1>1, <2>1 DEF Positions
  <2>3. ~ AsGood(r, j)
    BY <1>2, <1>5, <2>2
  <2>4. PICK k \in Positions(r) : ~ (priority[At(r, j)] <= priority[At(r, k)])
    BY <2>3 DEF AsGood
  <2>5. priority[At(r, i)] <= priority[At(r, k)]
    BY <2>1 DEF AsGood
  <2>. QED
    BY <1>2, <2>1, <2>2, <2>4, <2>5
<1>. QED
  BY <1>5, <1>6, <1>7

(* What remove_from_ready_queue gives is what the sorted queue dispatches. *)
LEMMA TakesTheBest ==
    ASSUME ReadyQueueAssumption, NEW r, GoodRing(r),
           priority \in [Proc -> Priorities], r.count # 0,
           NEW got, got = remove_from_ready_queue(r)
    PROVE  \E i \in Positions(r) :
             /\ got.taken = At(r, i) /\ got.rest = Without(r, i)
             /\ Abstract!IsFirstOfBest(Elements(r), i + 1)
<1>1. /\ Best(r) # {}
      /\ \A i \in Best(r) :
            /\ i \in Positions(r) /\ AsGood(r, i)
            /\ \A j \in 0 .. i - 1 :
                  j \in Positions(r) /\ priority[At(r, i)] < priority[At(r, j)]
  BY BestIs
<1>2. PICK i \in Best(r) : i = CHOOSE k \in Best(r) : TRUE
  BY <1>1
<1>3. got = [taken |-> r.cell[Cell(r, i)], rest |-> Without(r, i)]
  BY <1>1, <1>2 DEF remove_from_ready_queue
<1>4. /\ i \in Positions(r) /\ AsGood(r, i)
      /\ \A j \in 0 .. i - 1 :
            j \in Positions(r) /\ priority[At(r, i)] < priority[At(r, j)]
  BY <1>1
<1>5. Abstract!IsFirstOfBest(Elements(r), i + 1)
  <2>1. /\ DOMAIN Elements(r) = 1 .. r.count /\ r.count \in Nat
        /\ Elements(r)[i + 1] = At(r, i)
        /\ \A k \in 1 .. r.count : k - 1 \in Positions(r) /\ Elements(r)[k] = At(r, k - 1)
    BY <1>4, HeldPositions, RingFields
  <2>2. ASSUME NEW k \in 1 .. r.count
        PROVE  /\ priority[Elements(r)[i + 1]] <= priority[Elements(r)[k]]
               /\ k < i + 1 => priority[Elements(r)[i + 1]] < priority[Elements(r)[k]]
    <3>1. PICK j \in Positions(r) : j = k - 1
      BY <2>1
    <3>2. Elements(r)[k] = At(r, j)
      BY <2>1, <3>1, Zenon
    <3>3. k < i + 1 => j \in 0 .. i - 1
      BY <1>4, <2>1, <3>1 DEF Positions
    <3>. QED
      BY <1>4, <2>1, <3>2, <3>3 DEF AsGood
  <2>3. i + 1 - 1 <= r.count /\ i \in Int
    BY <1>4, <2>1 DEF Positions
  <2>4. \A k \in 1 .. (i + 1) - 1 : k \in 1 .. r.count /\ k < i + 1
    BY <2>1, <2>3
  <2>5. \A k \in DOMAIN Elements(r) :
            priority[Elements(r)[i + 1]] <= priority[Elements(r)[k]]
    BY <2>1, <2>2, Zenon
  <2>6. \A k \in 1 .. (i + 1) - 1 :
            priority[Elements(r)[i + 1]] < priority[Elements(r)[k]]
    BY <2>2, <2>4, Zenon
  <2>. QED
    BY <2>5, <2>6, Zenon DEF Abstract!IsFirstOfBest
<1>. QED
  BY <1>3, <1>4, <1>5 DEF At
(* There is room for a process that is not in the array. *)
LEMMA HasRoom ==
    ASSUME ReadyQueueAssumption, NEW r, GoodRing(r), NEW p \in Proc, ~ Holds(r, p)
    PROVE  r.count < M
<1>1. r.count \in Nat /\ M \in Nat \ {0}
  BY RingFields, RingSizes
<1>2. SUFFICES ASSUME r.count >= M
               PROVE  FALSE
  BY <1>1
<1> DEFINE S == 0 .. r.count - 1
           T == Proc \ {p}
           f == [i \in S |-> At(r, i)]
<1>3. f \in [S -> T] /\ \A i, j \in S : f[i] = f[j] => i = j
  BY DEF GoodRing, Positions, Holds
<1>4. IsFiniteSet(S) /\ Cardinality(S) = r.count
  <2>1. PICK last : last = r.count - 1
    OBVIOUS
  <2>2. last \in Int /\ last >= 0 /\ last - 0 + 1 = r.count
    BY <1>1, <1>2, <2>1
  <2>3. IsFiniteSet(0 .. last)
        /\ Cardinality(0 .. last) = IF 0 > last THEN 0 ELSE last - 0 + 1
    BY <2>2, FS_Interval
  <2>4. IsFiniteSet(0 .. last) /\ Cardinality(0 .. last) = r.count
    BY <2>2, <2>3
  <2>. QED
    BY <2>1, <2>4
<1>5. IsFiniteSet(T) /\ Cardinality(T) = M - 1
  <2>1. PICK last : last = M - 1
    OBVIOUS
  <2>2. last \in Int /\ last >= 0 /\ last - 0 + 1 = M
    BY <1>1, <2>1
  <2>3. IsFiniteSet(0 .. last)
        /\ Cardinality(0 .. last) = IF 0 > last THEN 0 ELSE last - 0 + 1
    BY <2>2, FS_Interval
  <2>4. IsFiniteSet(Proc) /\ Cardinality(Proc) = M
    <3>1. IsFiniteSet(0 .. last) /\ Cardinality(0 .. last) = M
      BY <2>2, <2>3
    <3>. QED
      BY <2>1, <3>1, RingSizes
  <2>. QED
    BY <2>4, FS_RemoveElement
<1>. HIDE DEF S, T, f
<1>6. Cardinality(T) < Cardinality(S)
  BY <1>1, <1>2, <1>4, <1>5
<1>7. \E i, j \in S : i # j /\ f[i] = f[j]
  BY <1>3, <1>4, <1>5, <1>6, FS_PigeonHole
<1>. QED
  BY <1>3, <1>7

(* removeFromScheduler takes the process out, if it is there. *)
LEMMA RemoveTakesOut ==
    ASSUME ReadyQueueAssumption, NEW r, GoodRing(r), NEW p \in Proc,
           NEW w, w = removeFromScheduler(r, p)
    PROVE  /\ ~ Holds(r, p) => w = r
           /\ Holds(r, p) => \E i \in Positions(r) : At(r, i) = p /\ w = Without(r, i)
<1> DEFINE places == {i \in 0 .. r.count - 1 :
                        /\ r.cell[Cell(r, i)] # NULL /\ r.cell[Cell(r, i)] = p
                        /\ \A j \in 0 .. i - 1 : r.cell[Cell(r, j)] # NULL =>
                             ~ (r.cell[Cell(r, j)] = p)}
<1>1. w = IF places = {} THEN r ELSE Without(r, CHOOSE i \in places : TRUE)
  BY DEF removeFromScheduler, First
<1>2. \A i \in places : i \in Positions(r) /\ At(r, i) = p
  BY DEF Positions, At
<1>3. ASSUME NEW i \in Positions(r), At(r, i) = p
      PROVE  i \in places
  <2>1. i \in 0 .. r.count - 1 /\ r.cell[Cell(r, i)] = p /\ p # NULL /\ r.count \in Nat
    BY <1>3, RingSizes, RingFields DEF Positions, At
  <2>2. ASSUME NEW j \in 0 .. i - 1
        PROVE  ~ (r.cell[Cell(r, j)] = p)
    <3>1. j \in Positions(r) /\ j # i
      BY <2>1 DEF Positions
    <3>. QED
      BY <1>3, <3>1 DEF GoodRing, At
  <2>. QED
    BY <2>1, <2>2
<1>. HIDE DEF places
<1>4. CASE Holds(r, p)
  <2>1. places # {}
    BY <1>3, <1>4 DEF Holds
  <2>2. PICK i \in places : i = CHOOSE k \in places : TRUE
    BY <2>1
  <2>3. w = Without(r, i)
    BY <1>1, <2>1, <2>2
  <2>. QED
    BY <1>2, <1>4, <2>2, <2>3
<1>5. CASE ~ Holds(r, p)
  <2>1. places = {}
    BY <1>2, <1>5 DEF Holds
  <2>. QED
    BY <1>1, <1>5, <2>1
<1>. QED
  BY <1>4, <1>5

(* The choice that both kinds of schedule make. *)
LEMMA TakeDispatches ==
    ASSUME ReadyQueueAssumption, NEW r, GoodRing(r),
           priority \in [Proc -> Priorities],
           NEW got, got = remove_from_ready_queue(r),
           NEW next, next = IF got.taken = NULL THEN Idle ELSE got.taken
    PROVE  /\ GoodRing(got.rest) /\ next \in Proc
           /\ \A o \in Proc : Holds(got.rest, o) <=> Holds(r, o) /\ o # next
           /\ \/ Elements(r) = <<>> /\ Elements(got.rest) = <<>> /\ next = Idle
              \/ \E k \in DOMAIN Elements(r) :
                    /\ Abstract!IsFirstOfBest(Elements(r), k)
                    /\ Elements(got.rest) = Abstract!RemoveAt(Elements(r), k)
                    /\ next = Elements(r)[k]
<1>1. CASE r.count = 0
  <2>1. got = [taken |-> NULL, rest |-> r]
    BY <1>1 DEF remove_from_ready_queue
  <2>2. got.rest = r /\ next = Idle /\ Idle \in Proc
    BY <2>1, RingSizes
  <2>3. Positions(r) = {}
    BY <1>1 DEF Positions
  <2>4. Elements(r) \in Seq(Proc) /\ Len(Elements(r)) = 0
    BY <1>1, HeldPositions
  <2>5. Elements(r) = <<>>
    BY <2>4, EmptySeq
  <2>. QED
    BY <2>2, <2>3, <2>5 DEF Holds
<1>2. CASE r.count # 0
  <2>1. PICK i \in Positions(r) :
             /\ got.taken = At(r, i) /\ got.rest = Without(r, i)
             /\ Abstract!IsFirstOfBest(Elements(r), i + 1)
    BY <1>2, TakesTheBest
  <2>2. At(r, i) \in Proc /\ next = At(r, i)
    BY <2>1, RingSizes DEF GoodRing
  <2>3. /\ GoodRing(got.rest)
        /\ Elements(got.rest) = Abstract!RemoveAt(Elements(r), i + 1)
        /\ \A o \in Proc : Holds(got.rest, o) <=> Holds(r, o) /\ o # At(r, i)
    BY <2>1, WithoutIsRemoveAt
  <2>4. i + 1 \in DOMAIN Elements(r) /\ Elements(r)[i + 1] = At(r, i)
    BY HeldPositions
  <2>. QED
    BY <2>1, <2>2, <2>3, <2>4
<1>. QED
  BY <1>1, <1>2
-----------------------------------------------------------------------------
(* The steps of the kernel *)

LEMMA ContentsAre ==
    /\ Contents = Elements(Ring)
    /\ Contents' = Elements(Ring')
  BY DEF Contents, Elements, Ring, Cell

(* The assignment of all fields is the ring itself.                        *)
LEMMA RingIsSet ==
    ASSUME NEW r, GoodRing(r), SetRing(r)
    PROVE  Ring' = r
<1>1. r \in [cell : [Proc -> Proc \cup {NULL}], head : Proc, tail : Proc,
             count : 0 .. M]
  BY DEF GoodRing
<1>. QED
  BY <1>1 DEF SetRing, Ring

(* schedule() dispatches the first of the best of the sequence.            *)
LEMMA ScheduleDispatches ==
    ASSUME ReadyQueueAssumption, NEW st, NEW r, GoodRing(r),
           st \in [Proc -> {"READY", "RUNNING", "BLOCKED"}],
           priority \in [Proc -> Priorities], current \in Proc,
           HoldsReady(st, r), \A p \in Proc : st[p] = "RUNNING" => p = current,
           Schedule(st, r)
    PROVE  /\ RingInv' /\ priority' = priority
           /\ Abstract!Dispatch(IF st[current] = "RUNNING"
                                THEN Append(Elements(r), current) ELSE Elements(r))
<1> DEFINE r1 == IF st[current] = "RUNNING" THEN add_to_ready_queue(r, current) ELSE r
           s  == IF st[current] = "RUNNING" THEN Append(Elements(r), current)
                 ELSE Elements(r)
<1>1. PICK q1 : q1 = r1
  OBVIOUS
<1>2. PICK got : got = remove_from_ready_queue(q1)
  OBVIOUS
<1>3. PICK next : next = IF got.taken = NULL THEN Idle ELSE got.taken
  OBVIOUS
<1>4. /\ SetRing(got.rest)
      /\ current' = next
      /\ state' = [p \in Proc |-> IF p = next THEN "RUNNING"
                                  ELSE IF p = current /\ st[current] = "RUNNING" THEN "READY"
                                  ELSE st[p]]
      /\ priority' = priority
  <2>1. PICK preempted \in {st[current] = "RUNNING"} :
          \E g \in {remove_from_ready_queue(
                      IF preempted THEN add_to_ready_queue(r, current) ELSE r)} :
          \E n \in {IF g.taken = NULL THEN Idle ELSE g.taken} :
            /\ SetRing(g.rest)
            /\ current' = n
            /\ state' = [p \in Proc |-> IF p = n THEN "RUNNING"
                                        ELSE IF p = current /\ preempted THEN "READY"
                                        ELSE st[p]]
            /\ UNCHANGED priority
    BY Zenon DEF Schedule
  <2>2. (IF preempted THEN add_to_ready_queue(r, current) ELSE r) = q1
    BY <1>1, <2>1, Zenon
  <2>3. /\ SetRing(got.rest)
        /\ current' = next
        /\ state' = [p \in Proc |-> IF p = next THEN "RUNNING"
                                    ELSE IF p = current /\ preempted THEN "READY"
                                    ELSE st[p]]
        /\ UNCHANGED priority
    <3>1. PICK g \in {remove_from_ready_queue(
                       IF preempted THEN add_to_ready_queue(r, current) ELSE r)} :
          \E n \in {IF g.taken = NULL THEN Idle ELSE g.taken} :
          /\ SetRing(g.rest)
          /\ current' = n
          /\ state' = [p \in Proc |-> IF p = n THEN "RUNNING"
                                      ELSE IF p = current /\ preempted THEN "READY"
                                      ELSE st[p]]
          /\ UNCHANGED priority
      BY <2>1, Zenon
    <3>2. g = got
      BY <1>2, <2>2, <3>1
    <3>3. PICK n \in {IF g.taken = NULL THEN Idle ELSE g.taken} :
          /\ SetRing(g.rest)
          /\ current' = n
          /\ state' = [p \in Proc |-> IF p = n THEN "RUNNING"
                                      ELSE IF p = current /\ preempted THEN "READY"
                                      ELSE st[p]]
          /\ UNCHANGED priority
      BY <3>1, Zenon
    <3>4. n = next
      BY <1>3, <3>2, <3>3
    <3>. QED
      BY <3>2, <3>3, <3>4, Zenon
  <2>4. preempted = (st[current] = "RUNNING")
    BY <2>1
  <2>. QED
    BY <2>3, <2>4, Zenon
<1>5. /\ GoodRing(q1) /\ Elements(q1) = s
      /\ \A o \in Proc : Holds(q1, o) <=> \/ Holds(r, o)
                                          \/ st[current] = "RUNNING" /\ o = current
  <2>1. CASE st[current] = "RUNNING"
    <3>1. ~ Holds(r, current)
      BY <2>1 DEF HoldsReady
    <3>2. r.count < M
      BY <3>1, HasRoom
    <3>3. q1 = add_to_ready_queue(r, current)
      BY <1>1, <2>1
    <3>. QED
      BY <2>1, <3>1, <3>2, <3>3, AddIsAppend
  <2>2. CASE st[current] # "RUNNING"
    BY <1>1, <2>2
  <2>. QED
    BY <2>1, <2>2
<1>. HIDE DEF r1, s
<1>6. /\ GoodRing(got.rest) /\ next \in Proc
      /\ \A o \in Proc : Holds(got.rest, o) <=> Holds(q1, o) /\ o # next
      /\ \/ Elements(q1) = <<>> /\ Elements(got.rest) = <<>> /\ next = Idle
         \/ \E k \in DOMAIN Elements(q1) :
               /\ Abstract!IsFirstOfBest(Elements(q1), k)
               /\ Elements(got.rest) = Abstract!RemoveAt(Elements(q1), k)
               /\ next = Elements(q1)[k]
  BY <1>2, <1>3, <1>5, TakeDispatches
<1>7. Ring' = got.rest /\ Contents' = Elements(got.rest)
  BY <1>4, <1>6, RingIsSet, ContentsAre
<1>8. Abstract!Dispatch(s)
  BY <1>4, <1>5, <1>6, <1>7 DEF Abstract!Dispatch
<1>9. RingInv'
  <2>1. GoodRing(Ring')
    BY <1>6, <1>7
  <2>2. state' \in [Proc -> {"READY", "RUNNING", "BLOCKED"}]
    BY <1>4
  <2>3. current' \in Proc /\ priority' \in [Proc -> Priorities]
    BY <1>4, <1>6
  <2>4. ASSUME NEW p \in Proc
        PROVE  /\ state'[p] = "READY" <=> Holds(got.rest, p)
               /\ state'[p] = "RUNNING" <=> p = current'
    <3>1. /\ state'[p] = IF p = next THEN "RUNNING"
                         ELSE IF p = current /\ st[current] = "RUNNING" THEN "READY"
                         ELSE st[p]
      BY <1>4
    <3>2. st[p] = "READY" <=> Holds(r, p)
      BY DEF HoldsReady
    <3>3. Holds(got.rest, p) <=> /\ p # next
                                 /\ \/ st[p] = "READY"
                                    \/ st[current] = "RUNNING" /\ p = current
      BY <1>5, <1>6, <3>2
    <3>. QED
      BY <1>4, <3>1, <3>3
  <2>5. HoldsReady(state', Ring')
    BY <1>7, <2>4 DEF HoldsReady
  <2>. QED
    BY <2>1, <2>2, <2>3, <2>4, <2>5 DEF RingInv, GoodRing, Positions, At, Cell, Ring,
                                        HoldsReady, Holds
<1>. QED
  BY <1>4, <1>8, <1>9 DEF s

(* A wake-up is an arrival at the end of the sequence.                     *)
LEMMA WakeArrives ==
    ASSUME ReadyQueueAssumption, RingInv, NEW p \in Proc, Wake(p)
    PROVE  RingInv' /\ Abstract!Arrive(p)
<1>1. /\ GoodRing(Ring) /\ state \in [Proc -> {"READY", "RUNNING", "BLOCKED"}]
      /\ priority \in [Proc -> Priorities] /\ current \in Proc
      /\ HoldsReady(state, Ring)
      /\ \A o \in Proc : state[o] = "RUNNING" <=> o = current
  BY DEF RingInv
<1>2. /\ state[p] = "BLOCKED" /\ state' = [state EXCEPT ![p] = "READY"]
      /\ SetRing(add_to_ready_queue(Ring, p))
      /\ priority' = priority /\ current' = current
  BY DEF Wake
<1>3. ~ Holds(Ring, p) /\ p # current
  BY <1>1, <1>2 DEF HoldsReady
<1>4. PICK a : a = add_to_ready_queue(Ring, p)
  OBVIOUS
<1>5. /\ GoodRing(a)
      /\ Elements(a) = Append(Elements(Ring), p)
      /\ \A o \in Proc : Holds(a, o) <=> Holds(Ring, o) \/ o = p
  BY <1>1, <1>3, <1>4, HasRoom, AddIsAppend
<1>6. Ring' = a
  BY <1>2, <1>4, <1>5, RingIsSet
<1>7. Contents' = Append(Contents, p)
  BY <1>5, <1>6, ContentsAre
<1>8. ~ Abstract!InQueue(p)
  <2>1. ASSUME NEW k \in DOMAIN Contents, Contents[k] = p
        PROVE  FALSE
    <3>1. k \in 1 .. Ring.count /\ Elements(Ring)[k] = p
      BY <1>1, <2>1, ContentsAre, HeldPositions
    <3>2. k - 1 \in Positions(Ring) /\ At(Ring, k - 1) = p
      BY <1>1, <3>1, HeldPositions
    <3>. QED
      BY <1>3, <3>2 DEF Holds
  <2>. QED
    BY <2>1 DEF Abstract!InQueue
<1>9. RingInv'
  <2>1. \A o \in Proc : state'[o] = IF o = p THEN "READY" ELSE state[o]
    BY <1>1, <1>2
  <2>2. HoldsReady(state', a)
    BY <1>1, <1>5, <2>1 DEF HoldsReady
  <2>3. \A o \in Proc : state'[o] = "RUNNING" <=> o = current'
    BY <1>1, <1>2, <1>3, <2>1
  <2>4. state' \in [Proc -> {"READY", "RUNNING", "BLOCKED"}]
    BY <1>1, <1>2
  <2>5. GoodRing(Ring') /\ HoldsReady(state', Ring')
    BY <1>5, <1>6, <2>2
  <2>. QED
    BY <1>1, <1>2, <2>3, <2>4, <2>5
       DEF RingInv, GoodRing, Positions, At, Cell, Ring, HoldsReady, Holds
<1>. QED
  BY <1>2, <1>3, <1>7, <1>8, <1>9 DEF Abstract!Arrive

(* A block of a READY process is its departure from the sequence.          *)
LEMMA BlockLeaves ==
    ASSUME ReadyQueueAssumption, RingInv, NEW p \in Proc, Block(p), p # current
    PROVE  RingInv' /\ Abstract!Leave(p)
<1>1. /\ GoodRing(Ring) /\ state \in [Proc -> {"READY", "RUNNING", "BLOCKED"}]
      /\ priority \in [Proc -> Priorities] /\ current \in Proc
      /\ HoldsReady(state, Ring)
      /\ \A o \in Proc : state[o] = "RUNNING" <=> o = current
  BY DEF RingInv
<1>2. /\ state[p] # "BLOCKED" /\ state' = [state EXCEPT ![p] = "BLOCKED"]
      /\ SetRing(removeFromScheduler(Ring, p))
      /\ priority' = priority /\ current' = current
  BY DEF Block
<1>3. Holds(Ring, p)
  <2>1. state[p] = "READY"
    BY <1>1, <1>2
  <2>. QED
    BY <1>1, <2>1 DEF HoldsReady
<1>4. PICK w : w = removeFromScheduler(Ring, p)
  OBVIOUS
<1>5. PICK i \in Positions(Ring) : At(Ring, i) = p /\ w = Without(Ring, i)
  BY <1>1, <1>3, <1>4, RemoveTakesOut
<1>6. /\ GoodRing(w)
      /\ Elements(w) = Abstract!RemoveAt(Elements(Ring), i + 1)
      /\ \A o \in Proc : Holds(w, o) <=> Holds(Ring, o) /\ o # p
  BY <1>1, <1>5, WithoutIsRemoveAt
<1>7. Ring' = w
  BY <1>2, <1>4, <1>6, RingIsSet
<1>8. /\ Contents' = Abstract!RemoveAt(Contents, i + 1)
      /\ i + 1 \in DOMAIN Contents /\ Contents[i + 1] = p
  <2>1. i + 1 \in DOMAIN Elements(Ring) /\ Elements(Ring)[i + 1] = At(Ring, i)
    BY <1>1, HeldPositions
  <2>. QED
    BY <1>5, <1>6, <1>7, <2>1, ContentsAre
<1>9. RingInv'
  <2>1. \A o \in Proc : state'[o] = IF o = p THEN "BLOCKED" ELSE state[o]
    BY <1>1, <1>2
  <2>2. HoldsReady(state', w)
    BY <1>1, <1>6, <2>1 DEF HoldsReady
  <2>3. \A o \in Proc : state'[o] = "RUNNING" <=> o = current'
    BY <1>1, <1>2, <2>1
  <2>4. state' \in [Proc -> {"READY", "RUNNING", "BLOCKED"}]
    BY <1>1, <1>2
  <2>5. GoodRing(Ring') /\ HoldsReady(state', Ring')
    BY <1>6, <1>7, <2>2
  <2>. QED
    BY <1>1, <1>2, <2>3, <2>4, <2>5
       DEF RingInv, GoodRing, Positions, At, Cell, Ring, HoldsReady, Holds
<1>. QED
  BY <1>2, <1>8, <1>9 DEF Abstract!Leave

(* The running process sleeps: it is not in the array, and is not put there. *)
LEMMA BlockSleeps ==
    ASSUME ReadyQueueAssumption, RingInv, NEW p \in Proc, Block(p), p = current
    PROVE  RingInv' /\ Abstract!Sleep
<1>1. /\ GoodRing(Ring) /\ state \in [Proc -> {"READY", "RUNNING", "BLOCKED"}]
      /\ priority \in [Proc -> Priorities] /\ current \in Proc
      /\ HoldsReady(state, Ring)
      /\ \A o \in Proc : state[o] = "RUNNING" <=> o = current
  BY DEF RingInv
<1>2. PICK st : st = [state EXCEPT ![p] = "BLOCKED"]
  OBVIOUS
<1>3. ~ Holds(Ring, p)
  BY <1>1 DEF HoldsReady
<1>4. PICK w : w = removeFromScheduler(Ring, p)
  OBVIOUS
<1>5. w = Ring
  BY <1>1, <1>3, <1>4, RemoveTakesOut
<1>6. Schedule(st, Ring)
  BY <1>2, <1>4, <1>5 DEF Block
<1>7. /\ st \in [Proc -> {"READY", "RUNNING", "BLOCKED"}]
      /\ \A o \in Proc : st[o] = IF o = p THEN "BLOCKED" ELSE state[o]
  BY <1>1, <1>2
<1>8. HoldsReady(st, Ring) /\ (\A o \in Proc : st[o] = "RUNNING" => o = current)
      /\ st[current] # "RUNNING"
  BY <1>1, <1>3, <1>7 DEF HoldsReady
<1>9. /\ RingInv' /\ priority' = priority
      /\ Abstract!Dispatch(IF st[current] = "RUNNING"
                           THEN Append(Elements(Ring), current) ELSE Elements(Ring))
  BY <1>1, <1>6, <1>7, <1>8, ScheduleDispatches
<1>10. Abstract!Dispatch(Contents)
  BY <1>8, <1>9, ContentsAre
<1>. QED
  BY <1>9, <1>10 DEF Abstract!Sleep

(* The timer sends the running process to the end of the sequence.         *)
LEMMA TickPreempts ==
    ASSUME ReadyQueueAssumption, RingInv, Tick
    PROVE  RingInv' /\ Abstract!Preempt
<1>1. /\ GoodRing(Ring) /\ state \in [Proc -> {"READY", "RUNNING", "BLOCKED"}]
      /\ priority \in [Proc -> Priorities] /\ current \in Proc
      /\ HoldsReady(state, Ring)
      /\ \A o \in Proc : state[o] = "RUNNING" <=> o = current
  BY DEF RingInv
<1>2. Schedule(state, Ring) /\ state[current] = "RUNNING"
  BY <1>1 DEF Tick
<1>3. /\ RingInv' /\ priority' = priority
      /\ Abstract!Dispatch(IF state[current] = "RUNNING"
                           THEN Append(Elements(Ring), current) ELSE Elements(Ring))
  BY <1>1, <1>2, ScheduleDispatches
<1>4. Abstract!Dispatch(Append(Contents, current))
  BY <1>2, <1>3, ContentsAre
<1>. QED
  BY <1>3, <1>4 DEF Abstract!Preempt

(* nice moves nobody in the sequence.                                      *)
LEMMA ChangesPriority ==
    ASSUME RingInv, NEW p \in Proc, NEW n \in Priorities, change_priority(p, n)
    PROVE  RingInv' /\ Abstract!Reprioritize
<1>1. /\ priority' = [priority EXCEPT ![p] = n]
      /\ UNCHANGED <<ready_queue, head, tail, count, state, current>>
  BY DEF change_priority, ringVars
<1>2. priority' \in [Proc -> Priorities]
  BY <1>1 DEF RingInv
<1>3. RingInv'
  BY <1>1, <1>2 DEF RingInv, GoodRing, Positions, At, Cell, Ring, HoldsReady, Holds
<1>4. Contents' = Contents
  BY <1>1 DEF Contents, Ring, Cell
<1>. QED
  BY <1>1, <1>2, <1>3, <1>4 DEF Abstract!Reprioritize

(* The empty ring is the empty sequence.                                   *)
LEMMA InitRing ==
    ASSUME ReadyQueueAssumption, QueueInit
    PROVE  RingInv /\ Abstract!RunQueueInit
<1>1. /\ Ring = [cell |-> [c \in Proc |-> NULL], head |-> 0, tail |-> 0, count |-> 0]
      /\ priority \in [Proc -> Priorities] /\ current = Idle
      /\ state = [p \in Proc |-> IF p = Idle THEN "RUNNING" ELSE "BLOCKED"]
  BY DEF QueueInit, init_ready_queue, Ring
<1>2. PICK r : r = Ring
  OBVIOUS
<1>3. r.cell = [c \in Proc |-> NULL] /\ r.head = 0 /\ r.tail = 0 /\ r.count = 0
  BY <1>1, <1>2
<1>4. Positions(r) = {} /\ Elements(r) = <<>>
  BY <1>3 DEF Positions, Elements
<1>5. GoodRing(r)
  <2>1. r \in [cell : [Proc -> Proc \cup {NULL}], head : Proc, tail : Proc,
               count : 0 .. M]
    BY <1>1, <1>2, RingSizes
  <2>2. 0 % M = 0
    <3>1. \A x \in 0 .. 2 * M - 1 : x % M = IF x < M THEN x ELSE x - M
      BY RingSizes, Around
    <3>. QED
      BY <3>1, RingSizes
  <2>. QED
    BY <1>3, <1>4, <2>1, <2>2 DEF GoodRing
<1>6. HoldsReady(state, r)
  BY <1>1, <1>4 DEF HoldsReady, Holds
<1>7. RingInv
  <2>1. state \in [Proc -> {"READY", "RUNNING", "BLOCKED"}] /\ current \in Proc
        /\ \A p \in Proc : state[p] = "RUNNING" <=> p = current
    BY <1>1, RingSizes
  <2>. QED
    BY <1>1, <1>2, <1>5, <1>6, <2>1 DEF RingInv
<1>8. Contents = <<>>
  BY <1>2, <1>4, ContentsAre
<1>. QED
  BY <1>1, <1>7, <1>8 DEF Abstract!RunQueueInit

(* Every step keeps the ring and is one of the sorted queue's, or none.    *)
LEMMA NextIsAbstract ==
    ASSUME ReadyQueueAssumption, RingInv, [QueueNext]_queueVars
    PROVE  /\ RingInv'
           /\ Abstract!RunQueueNext \/ UNCHANGED <<Contents, current, priority>>
<1>1. CASE Tick
  BY <1>1, TickPreempts DEF Abstract!RunQueueNext
<1>2. ASSUME NEW p \in Proc, Wake(p)
      PROVE  RingInv' /\ Abstract!RunQueueNext
  BY <1>2, WakeArrives DEF Abstract!RunQueueNext
<1>3. ASSUME NEW p \in Proc, Block(p)
      PROVE  RingInv' /\ Abstract!RunQueueNext
  <2>1. CASE p = current
    BY <1>3, <2>1, BlockSleeps DEF Abstract!RunQueueNext
  <2>2. CASE p # current
    BY <1>3, <2>2, BlockLeaves DEF Abstract!RunQueueNext
  <2>. QED
    BY <2>1, <2>2
<1>4. ASSUME NEW p \in Proc, NEW n \in Priorities, change_priority(p, n)
      PROVE  RingInv' /\ Abstract!RunQueueNext
  BY <1>4, ChangesPriority DEF Abstract!RunQueueNext
<1>5. CASE UNCHANGED queueVars
  <2>1. UNCHANGED <<ready_queue, head, tail, count, state, priority, current>>
    BY <1>5 DEF queueVars, ringVars
  <2>2. RingInv'
    BY <2>1 DEF RingInv, GoodRing, Positions, At, Cell, Ring, HoldsReady, Holds
  <2>3. Contents' = Contents
    BY <2>1 DEF Contents, Ring, Cell
  <2>. QED
    BY <2>1, <2>2, <2>3
<1>. QED
  BY <1>1, <1>2, <1>3, <1>4, <1>5 DEF QueueNext

(* The array holds the READY processes, each of them once, between head and  *)
(* tail, whatever is woken, blocked, preempted and reprioritised.            *)
THEOREM RingHoldsTheReady ==
    ASSUME ReadyQueueAssumption
    PROVE  QueueSpec => []RingInv
<1>1. QueueInit => RingInv
  BY InitRing
<1>2. RingInv /\ [QueueNext]_queueVars => RingInv'
  BY NextIsAbstract
<1>. QED
  BY <1>1, <1>2, PTL DEF QueueSpec

(* The array with its head, tail, count and shifts implements the queue that *)
(* is sorted by priority and, within one, by arrival: an add appends and is  *)
(* never refused, and what is taken is the first of the best.                *)
THEOREM ArrayIsTheSortedQueue ==
    ASSUME ReadyQueueAssumption
    PROVE  QueueSpec => RunQueueSpec
<1>1. QueueInit => Abstract!RunQueueInit
  BY InitRing
<1>2. RingInv /\ [QueueNext]_queueVars
        => [Abstract!RunQueueNext]_<<Contents, current, priority>>
  BY NextIsAbstract
<1>. QED
  BY <1>1, <1>2, RingHoldsTheReady, PTL
     DEF QueueSpec, RunQueueSpec, Abstract!RunQueueSpec
=============================================================================
