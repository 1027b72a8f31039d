------------------------------ MODULE BuddyProofs ------------------------------
(***************************************************************************)
(* Proofs about the buddy manager of module Buddy, for any heap, any       *)
(* orders and any sizes of the requests.                                   *)
(*                                                                         *)
(* HalvesInv says that the blocks, free and held, are pieces aligned to    *)
(* their size that cover the heap once (Tiling), that the headers at their *)
(* starts tell the truth and a header that says "occupied" is that of a    *)
(* block somebody holds, stale ones included (HeadersTell), that a block   *)
(* has one holder, and that two halves of a block are never both free.     *)
(* What makes memory_free right is MergesTell: it reads a header where a   *)
(* buddy would start, and no block may start there; but the blocks cover   *)
(* the heap and two that share a byte lie one in the other (Nested), so    *)
(* one does start there, and its header is not left over.                  *)
(*                                                                         *)
(* All the proofs know of the sizes is that each is twice the one before   *)
(* (PowersDouble); that every size divides the larger ones follows from    *)
(* that by the least counterexample.                                       *)
(***************************************************************************)
EXTENDS Buddy, FiniteSetTheorems, WellFoundedInduction, TLAPS

---------------------------------------------------------------------------
(* The least and the largest of a set of orders.                            *)
LEMMA LeastNumber ==
    ASSUME NEW S, S \subseteq Nat, S # {}
    PROVE  Min(S) \in S /\ \A y \in S : Min(S) <= y
<1>1. PICK x \in S : \A y \in S : ~ (<<y, x>> \in OpToRel(<, Nat))
  BY NatLessThanWellFounded, WFMin
<1>2. ASSUME NEW y \in S, y < x
      PROVE  <<y, x>> \in OpToRel(<, Nat)
  <2>1. <<y, x>> \in Nat \X Nat /\ <<y, x>>[1] = y /\ <<y, x>>[2] = x
    OBVIOUS
  <2>. QED
    BY <1>2, <2>1, Zenon DEF OpToRel
<1>3. \A y \in S : ~ (y < x)
  BY <1>1, <1>2, Zenon
<1>4. x \in S /\ \A y \in S : x <= y
  BY <1>3
<1>. QED
  BY <1>4, Zenon DEF Min

LEMMA LargestNumber ==
    ASSUME NEW S, S \subseteq Nat, S # {}, NEW top \in Nat, \A y \in S : y <= top
    PROVE  Max(S) \in S /\ \A y \in S : Max(S) >= y
<1> DEFINE D == {top - y : y \in S}
<1>0. \A y \in S : y \in Nat /\ top - y \in Nat
  <2>1. ASSUME NEW y \in S
        PROVE  y \in Nat /\ top - y \in Nat
    <3>1. y \in Nat /\ y <= top
      OBVIOUS
    <3>. QED
      BY <3>1
  <2>. QED
    BY <2>1
<1>1. D \subseteq Nat /\ D # {}
  BY <1>0
<1>2. Min(D) \in D /\ \A y \in D : Min(D) <= y
  BY <1>1, LeastNumber
<1>3. PICK x \in S : Min(D) = top - x
  BY <1>2
<1>4. ASSUME NEW y \in S
      PROVE  x >= y
  <2>1. top - x <= top - y
    BY <1>2, <1>3
  <2>. QED
    BY <1>0, <2>1
<1>. QED
  BY <1>3, <1>4, Zenon DEF Max

---------------------------------------------------------------------------
(* Multiples and sizes *)

Multiple(x, n) == \E q \in Nat : x = q * n

(* Multiplication by a natural number is monotone.                         *)
LEMMA Times ==
    ASSUME NEW x \in Nat, NEW y \in Nat, NEW n \in Nat, x <= y
    PROVE  x * n <= y * n /\ x * n \in Nat /\ y * n \in Nat
<1>1. y * n = x * n + (y - x) * n /\ (y - x) * n >= 0 /\ x * n \in Nat
  OBVIOUS
<1>. QED
  BY <1>1

LEMMA NextMultiple ==
    ASSUME NEW n \in Nat \ {0}, NEW x, NEW y, Multiple(x, n), Multiple(y, n)
    PROVE  x \in Nat /\ y \in Nat /\ (x < y => x + n <= y)
<1>1. PICK q \in Nat, r \in Nat : x = q * n /\ y = r * n
  BY DEF Multiple
<1>2. x \in Nat /\ y \in Nat
  BY <1>1
<1>3. ASSUME x < y
      PROVE  x + n <= y
  <2>1. ~ r <= q
    BY <1>1, <1>2, <1>3, Times
  <2>2. (q + 1) * n <= r * n
    BY <2>1, Times
  <2>3. (q + 1) * n = q * n + n
    OBVIOUS
  <2>. QED
    BY <1>1, <1>2, <2>2, <2>3
<1>. QED
  BY <1>2, <1>3

LEMMA Rounding ==
    ASSUME NEW addr \in Nat, NEW n \in Nat \ {0}
    PROVE  /\ Multiple(RoundDown(addr, n), n)
           /\ RoundDown(addr, n) \in Nat
           /\ RoundDown(addr, n) <= addr /\ addr < RoundDown(addr, n) + n
           /\ \A x : Multiple(x, n) /\ x <= addr /\ addr < x + n => x = RoundDown(addr, n)
           /\ RoundUp(addr, n) \in Nat /\ RoundUp(addr, n) >= addr
<1> DEFINE q == addr \div n
           r == addr % n
           u == addr + n - 1
           v == u \div n
           w == u % n
<1>1. q \in Nat /\ r \in 0 .. n - 1 /\ addr = n * q + r
  OBVIOUS
<1>2. u \in Nat
  OBVIOUS
<1>. HIDE DEF u
<1>3. v \in Nat /\ w \in 0 .. n - 1 /\ u = n * v + w
  BY <1>2
<1>. HIDE DEF q, r, v, w
<1>4. n * q = q * n /\ n * v = v * n /\ q * n \in Nat /\ v * n \in Nat
  BY <1>1, <1>3
<1>5. RoundDown(addr, n) = q * n /\ RoundUp(addr, n) = v * n
  BY DEF RoundDown, RoundUp, q, v, u
<1>6. q * n <= addr /\ addr < q * n + n
  BY <1>1, <1>4
<1>7. v * n >= addr
  BY <1>3, <1>4 DEF u
<1>8. Multiple(q * n, n)
  BY <1>1 DEF Multiple
<1>9. ASSUME NEW x, Multiple(x, n), x <= addr, addr < x + n
      PROVE  x = q * n
  <2>1. x \in Nat /\ (x < q * n => x + n <= q * n)
    BY <1>8, <1>9, NextMultiple
  <2>2. q * n < x => q * n + n <= x
    BY <1>8, <1>9, NextMultiple
  <2>. QED
    BY <1>4, <1>6, <1>9, <2>1, <2>2
<1>. QED
  BY <1>4, <1>5, <1>6, <1>7, <1>8, <1>9

LEMMA Sizes ==
    ASSUME BuddyAssumption
    PROVE  /\ MIN_LEVEL \in Nat /\ MAX_ORDER \in Nat
           /\ \A k \in Orders : /\ k \in Nat /\ Size(k) \in Nat \ {0}
                                /\ Size(k + 1) = Size(k) + Size(k)
BY DEF BuddyAssumption, PowersDouble, Orders

(* A size is a multiple of every smaller one.                               *)
LEMMA SizesDivide ==
    ASSUME BuddyAssumption, NEW k \in Orders, NEW j \in Orders, k <= j
    PROVE  \E c \in Nat \ {0} : Size(j) = c * Size(k)
<1> DEFINE Bad == {i \in Orders : k <= i /\ ~ \E c \in Nat \ {0} : Size(i) = c * Size(k)}
<1>1. k \in Nat /\ j \in Nat /\ Size(k) \in Nat \ {0} /\ Bad \subseteq Nat
  BY Sizes
<1>2. SUFFICES ASSUME Bad # {}
               PROVE  FALSE
  OBVIOUS
<1>3. Min(Bad) \in Bad /\ \A y \in Bad : Min(Bad) <= y
  BY <1>1, <1>2, LeastNumber
<1> DEFINE i == Min(Bad)
<1>. HIDE DEF i
<1>4. /\ i \in Orders /\ k <= i /\ i \in Nat
      /\ ~ \E c \in Nat \ {0} : Size(i) = c * Size(k)
      /\ \A y \in Bad : i <= y
  BY <1>1, <1>3 DEF i
<1>5. i # k
  <2>1. Size(k) = 1 * Size(k) /\ 1 \in Nat \ {0}
    BY <1>1
  <2>. QED
    BY <1>4, <2>1
<1>6. i - 1 \in Orders /\ k <= i - 1 /\ ~ i <= i - 1
  BY <1>1, <1>4, <1>5, Sizes DEF Orders
<1>7. i - 1 \notin Bad
  BY <1>4, <1>6, Zenon
<1>8. PICK c \in Nat \ {0} : Size(i - 1) = c * Size(k)
  BY <1>6, <1>7
<1>9. Size(i) = Size(i - 1) + Size(i - 1)
  <2>1. (i - 1) + 1 = i
    BY <1>4
  <2>2. Size((i - 1) + 1) = Size(i - 1) + Size(i - 1)
    BY <1>6, Sizes
  <2>. QED
    BY <2>1, <2>2
<1>10. (c + c) * Size(k) = c * Size(k) + c * Size(k) /\ c + c \in Nat \ {0}
  BY <1>1
<1>. QED
  BY <1>4, <1>8, <1>9, <1>10

LEMMA SizesGrow ==
    ASSUME BuddyAssumption, NEW k \in Orders, NEW j \in Orders
    PROVE  /\ Size(k) \in Nat \ {0} /\ Size(j) \in Nat \ {0}
           /\ k <= j => Size(k) <= Size(j)
           /\ k < j  => Size(k) + Size(k) <= Size(j)
<1>1. ASSUME NEW i \in Orders, NEW l \in Orders, i <= l
      PROVE  Size(i) <= Size(l)
  <2>1. Size(i) \in Nat \ {0}
    BY Sizes
  <2>2. PICK c \in Nat \ {0} : Size(l) = c * Size(i)
    BY <1>1, SizesDivide
  <2>3. 1 * Size(i) <= c * Size(i) /\ 1 * Size(i) = Size(i)
    BY <2>1, Times
  <2>. QED
    BY <2>2, <2>3
<1>2. ASSUME k < j
      PROVE  Size(k) + Size(k) <= Size(j)
  <2>1. k + 1 \in Orders /\ k + 1 <= j
    BY <1>2, Sizes DEF Orders
  <2>. QED
    BY <1>1, <2>1, Sizes
<1>. QED
  BY <1>1, <1>2, Sizes

LEMMA MultipleOfSmaller ==
    ASSUME BuddyAssumption, NEW k \in Orders, NEW j \in Orders, k <= j,
           NEW x, Multiple(x, Size(j))
    PROVE  Multiple(x, Size(k))
<1>1. Size(k) \in Nat \ {0}
  BY Sizes
<1>2. PICK c \in Nat \ {0} : Size(j) = c * Size(k)
  BY SizesDivide
<1>3. PICK q \in Nat : x = q * Size(j)
  BY DEF Multiple
<1>4. q * (c * Size(k)) = (q * c) * Size(k) /\ q * c \in Nat
  BY <1>1
<1>. QED
  BY <1>2, <1>3, <1>4 DEF Multiple

---------------------------------------------------------------------------
(* Pieces of the heap: [at, order] stands for the bytes of a block.         *)

Pieces(m) == {p \in [at : Nat, order : MIN_LEVEL .. m] :
                 Multiple(p.at, Size(p.order)) /\ p.at < Size(m)}

Inside(u, p) == p.at <= u /\ u < p.at + Size(p.order)

(* The set S of pieces covers the heap of order m once.                     *)
Tiling(S, m) ==
    /\ S \subseteq Pieces(m)
    /\ \A p \in S, q \in S, u \in Nat : Inside(u, p) /\ Inside(u, q) => p = q
    /\ \A u \in 0 .. Size(m) - 1 : \E p \in S : Inside(u, p)

LEMMA PieceType ==
    ASSUME BuddyAssumption, NEW m \in Orders, NEW p \in Pieces(m)
    PROVE  /\ p.at \in Nat /\ p.order \in Orders /\ p.order \in Nat /\ p.order <= m
           /\ p = [at |-> p.at, order |-> p.order]
           /\ Size(p.order) \in Nat \ {0} /\ Multiple(p.at, Size(p.order))
           /\ Inside(p.at, p)
           /\ p.at + Size(p.order) <= Size(m)
<1>1. /\ p.at \in Nat /\ p.order \in MIN_LEVEL .. m /\ p = [at |-> p.at, order |-> p.order]
      /\ Multiple(p.at, Size(p.order)) /\ p.at < Size(m)
  BY DEF Pieces
<1>2. p.order \in Orders /\ p.order \in Nat /\ p.order <= m /\ m \in Nat
  BY <1>1, Sizes DEF Orders
<1>3. Size(p.order) \in Nat \ {0}
  BY <1>2, Sizes
<1>4. Multiple(Size(m), Size(p.order))
  <2>1. PICK c \in Nat \ {0} : Size(m) = c * Size(p.order)
    BY <1>2, SizesDivide
  <2>. QED
    BY <2>1 DEF Multiple
<1>5. p.at + Size(p.order) <= Size(m)
  BY <1>1, <1>3, <1>4, NextMultiple
<1>. QED
  BY <1>1, <1>2, <1>3, <1>5 DEF Inside

(* Two pieces that share a byte are one in the other.                       *)
LEMMA Nested ==
    ASSUME BuddyAssumption, NEW m \in Orders, NEW p \in Pieces(m), NEW q \in Pieces(m),
           p.order <= q.order, NEW u \in Nat, Inside(u, p), Inside(u, q)
    PROVE  /\ q.at <= p.at
           /\ p.at + Size(p.order) <= q.at + Size(q.order)
           /\ \A v \in Nat : Inside(v, p) => Inside(v, q)
           /\ p.order = q.order => p = q
<1>1. /\ p.at \in Nat /\ p.order \in Orders /\ p = [at |-> p.at, order |-> p.order]
      /\ Size(p.order) \in Nat \ {0} /\ Multiple(p.at, Size(p.order))
  BY PieceType
<1>2. /\ q.at \in Nat /\ q.order \in Orders /\ q = [at |-> q.at, order |-> q.order]
      /\ Size(q.order) \in Nat \ {0} /\ Multiple(q.at, Size(q.order))
  BY PieceType
<1>3. Multiple(q.at, Size(p.order))
  BY <1>1, <1>2, MultipleOfSmaller
<1>4. Multiple(q.at + Size(q.order), Size(p.order))
  <2>1. PICK a \in Nat : q.at = a * Size(p.order)
    BY <1>3 DEF Multiple
  <2>2. PICK c \in Nat \ {0} : Size(q.order) = c * Size(p.order)
    BY <1>1, <1>2, SizesDivide
  <2>3. (a + c) * Size(p.order) = a * Size(p.order) + c * Size(p.order) /\ a + c \in Nat
    BY <1>1
  <2>. QED
    BY <2>1, <2>2, <2>3 DEF Multiple
<1>5. /\ p.at <= u /\ u < p.at + Size(p.order)
      /\ q.at <= u /\ u < q.at + Size(q.order)
  BY DEF Inside
<1>6. q.at <= p.at
  <2>1. p.at < q.at => p.at + Size(p.order) <= q.at
    BY <1>1, <1>3, NextMultiple
  <2>. QED
    BY <1>1, <1>2, <1>5, <2>1
<1>7. p.at + Size(p.order) <= q.at + Size(q.order)
  <2>1. p.at < q.at + Size(q.order) => p.at + Size(p.order) <= q.at + Size(q.order)
    BY <1>1, <1>4, NextMultiple
  <2>. QED
    BY <1>1, <1>2, <1>5, <2>1
<1>8. p.order = q.order => p = q
  <2>1. ASSUME p.order = q.order
        PROVE  p.at = q.at
    BY <1>1, <1>2, <1>6, <1>7, <2>1
  <2>. QED
    BY <1>1, <1>2, <2>1
<1>9. ASSUME NEW v \in Nat, Inside(v, p)
      PROVE  Inside(v, q)
  BY <1>1, <1>2, <1>6, <1>7, <1>9 DEF Inside
<1>. QED
  BY <1>6, <1>7, <1>8, <1>9

Around(b, k) == [at |-> Ancestor(b, k), order |-> k]

Beside(b, k) == [at |-> BuddyOf(Ancestor(b, k), k), order |-> k]

(* The piece of order k around a byte.                                      *)
LEMMA AroundIs ==
    ASSUME BuddyAssumption, NEW m \in Orders, NEW b \in 0 .. Size(m) - 1,
           NEW k \in MIN_LEVEL .. m
    PROVE  /\ k \in Orders
           /\ Around(b, k) \in Pieces(m) /\ Inside(b, Around(b, k))
           /\ Around(b, k).at = Ancestor(b, k) /\ Around(b, k).order = k
           /\ \A p \in Pieces(m) : p.order = k /\ Inside(b, p) => p = Around(b, k)
<1>1. k \in Orders /\ m \in Nat /\ k <= m
  BY Sizes DEF Orders
<1>2. Size(k) \in Nat \ {0} /\ Size(m) \in Nat \ {0} /\ b \in Nat /\ b < Size(m)
  BY <1>1, Sizes
<1>3. /\ Multiple(Ancestor(b, k), Size(k)) /\ Ancestor(b, k) \in Nat
      /\ Ancestor(b, k) <= b /\ b < Ancestor(b, k) + Size(k)
  BY <1>2, Rounding DEF Ancestor
<1>4. Around(b, k).at = Ancestor(b, k) /\ Around(b, k).order = k
  BY DEF Around
<1>5. Ancestor(b, k) < Size(m)
  BY <1>2, <1>3
<1>6. Around(b, k) \in Pieces(m) /\ Inside(b, Around(b, k))
  BY <1>1, <1>3, <1>5 DEF Around, Pieces, Inside
<1>7. ASSUME NEW p \in Pieces(m), p.order = k, Inside(b, p)
      PROVE  p = Around(b, k)
  BY <1>1, <1>2, <1>4, <1>6, <1>7, Nested
<1>. QED
  BY <1>1, <1>4, <1>6, <1>7

LEMMA Quotient ==
    ASSUME NEW n \in Nat \ {0}, NEW q \in Nat
    PROVE  (q * n) \div n = q
<1> DEFINE x == q * n
           v == x \div n
           w == x % n
<1>1. x \in Nat
  OBVIOUS
<1>. HIDE DEF x
<1>2. v \in Nat /\ w \in 0 .. n - 1 /\ x = n * v + w
  BY <1>1
<1>. HIDE DEF v, w
<1>3. n * v = v * n /\ v * n \in Nat /\ (v + 1) * n = v * n + n /\ (q + 1) * n = q * n + n
      /\ q * n \in Nat
  BY <1>2
<1>4. ~ q + 1 <= v
  <2>1. q + 1 <= v => (q + 1) * n <= v * n
    BY <1>2, Times
  <2>. QED
    BY <1>2, <1>3, <2>1 DEF x
<1>5. ~ v + 1 <= q
  <2>1. v + 1 <= q => (v + 1) * n <= q * n
    BY <1>2, Times
  <2>. QED
    BY <1>2, <1>3, <2>1 DEF x
<1>6. v = q
  BY <1>2, <1>4, <1>5
<1>. QED
  BY <1>6 DEF v, x

(* The buddy of a piece is the other half of the piece of the next order.   *)
LEMMA BesideIs ==
    ASSUME BuddyAssumption, NEW m \in Orders, NEW b \in 0 .. Size(m) - 1,
           NEW k \in MIN_LEVEL .. m - 1
    PROVE  /\ Beside(b, k).at = BuddyOf(Ancestor(b, k), k) /\ Beside(b, k).order = k
           /\ Beside(b, k) \in Pieces(m)
           /\ Beside(b, k) # Around(b, k)
           /\ \/ /\ Ancestor(b, k) = Ancestor(b, k + 1)
                 /\ Beside(b, k).at = Ancestor(b, k + 1) + Size(k)
              \/ /\ Ancestor(b, k) = Ancestor(b, k + 1) + Size(k)
                 /\ Beside(b, k).at = Ancestor(b, k + 1)
           /\ \A u \in Nat : Inside(u, Around(b, k + 1))
                                <=> Inside(u, Around(b, k)) \/ Inside(u, Beside(b, k))
<1> DEFINE c == Ancestor(b, k)
           a == Ancestor(b, k + 1)
           n == Size(k)
<1>1. /\ k \in MIN_LEVEL .. m /\ k + 1 \in MIN_LEVEL .. m /\ k \in Nat /\ m \in Nat
      /\ k <= k + 1
  BY Sizes DEF Orders
<1>2. k \in Orders /\ Around(b, k) \in Pieces(m) /\ Inside(b, Around(b, k))
      /\ Around(b, k).at = c /\ Around(b, k).order = k
  BY <1>1, AroundIs
<1>3. k + 1 \in Orders /\ Around(b, k + 1) \in Pieces(m) /\ Inside(b, Around(b, k + 1))
      /\ Around(b, k + 1).at = a /\ Around(b, k + 1).order = k + 1
  BY <1>1, AroundIs
<1>4. n \in Nat \ {0} /\ Size(k + 1) = n + n
  BY <1>2, Sizes
<1>5. c \in Nat /\ Multiple(c, n) /\ c + n <= Size(m)
  BY <1>2, PieceType
<1>6. a \in Nat /\ Multiple(a, n + n) /\ a + (n + n) <= Size(m)
  BY <1>3, <1>4, PieceType
<1>7. a <= c /\ c + n <= a + (n + n)
  <2>1. b \in Nat
    BY <1>3, Sizes
  <2>2. Around(b, k).order <= Around(b, k + 1).order
    BY <1>1, <1>2, <1>3
  <2>3. /\ Around(b, k + 1).at <= Around(b, k).at
        /\ Around(b, k).at + Size(Around(b, k).order)
              <= Around(b, k + 1).at + Size(Around(b, k + 1).order)
    BY <1>2, <1>3, <2>1, <2>2, Nested
  <2>. QED
    BY <1>2, <1>3, <1>4, <2>3
<1>8. PICK r \in Nat : a = r * (n + n)
  BY <1>6 DEF Multiple
<1>9. PICK q \in Nat : c = q * n
  BY <1>5 DEF Multiple
<1>. HIDE DEF a, c, n
<1>10. a = (r + r) * n /\ r + r \in Nat /\ (r + r + 1) * n = (r + r) * n + n
  BY <1>4, <1>8
<1>11. c \div n = q
  BY <1>4, <1>9, Quotient
<1>12. q = r + r \/ q = r + r + 1
  <2>1. q < r + r => (q + 1) * n <= (r + r) * n
    BY <1>4, <1>10, Times
  <2>2. r + r + 1 < q => (r + r + 2) * n <= q * n
    BY <1>4, <1>10, Times
  <2>3. (q + 1) * n = q * n + n /\ (r + r + 2) * n = (r + r) * n + (n + n)
    BY <1>4
  <2>. QED
    BY <1>4, <1>5, <1>6, <1>7, <1>9, <1>10, <2>1, <2>2, <2>3
<1>13. \/ c = a /\ BuddyOf(c, k) = a + n
       \/ c = a + n /\ BuddyOf(c, k) = a
  <2>1. CASE q = r + r
    <3>1. q % 2 = 0
      BY <2>1
    <3>. QED
      BY <1>9, <1>10, <1>11, <2>1, <3>1 DEF BuddyOf, n
  <2>2. CASE q = r + r + 1
    <3>1. ~ q % 2 = 0
      BY <2>2
    <3>2. c = a + n
      BY <1>9, <1>10, <2>2
    <3>. QED
      BY <1>4, <1>6, <1>11, <3>1, <3>2 DEF BuddyOf, n
  <2>. QED
    BY <1>12, <2>1, <2>2
<1>14. Beside(b, k).at = BuddyOf(c, k) /\ Beside(b, k).order = k
  BY DEF Beside, c
<1>15. Multiple(a, n) /\ Multiple(a + n, n)
  BY <1>10 DEF Multiple
<1>16. Beside(b, k) \in Pieces(m)
  <2>1. Beside(b, k).at \in Nat /\ Beside(b, k).at < Size(m)
        /\ Multiple(Beside(b, k).at, n)
    BY <1>1, <1>2, <1>4, <1>6, <1>13, <1>14, <1>15, Sizes
  <2>. QED
    BY <1>1, <1>14, <2>1 DEF Pieces, Beside, c, n
<1>17. Beside(b, k) # Around(b, k)
  BY <1>2, <1>4, <1>6, <1>13, <1>14
<1>18. ASSUME NEW u \in Nat
       PROVE  Inside(u, Around(b, k + 1))
                 <=> Inside(u, Around(b, k)) \/ Inside(u, Beside(b, k))
  <2>1. /\ Inside(u, Around(b, k + 1)) <=> a <= u /\ u < a + (n + n)
        /\ Inside(u, Around(b, k)) <=> c <= u /\ u < c + n
        /\ Inside(u, Beside(b, k)) <=> BuddyOf(c, k) <= u /\ u < BuddyOf(c, k) + n
    BY <1>2, <1>3, <1>4, <1>14 DEF Inside, n
  <2>. QED
    BY <1>4, <1>5, <1>6, <1>13, <2>1
<1>. QED
  BY <1>13, <1>14, <1>16, <1>17, <1>18 DEF a, c, n

(* What is left of a block of order o at b when a block of order k0 is cut  *)
(* off its left end: halves of every order in between.                      *)
Halves(b, k0, o) == {[at |-> b + Size(k), order |-> k] : k \in k0 .. o - 1}

Parts(b, k0, o) == {[at |-> b, order |-> k0]} \union Halves(b, k0, o)

LEMMA PartsCover ==
    ASSUME BuddyAssumption, NEW m \in Orders, NEW p \in Pieces(m),
           NEW k0 \in MIN_LEVEL .. p.order
    PROVE  /\ Parts(p.at, k0, p.order) \subseteq Pieces(m)
           /\ \A q \in Parts(p.at, k0, p.order), u \in Nat : Inside(u, q) => Inside(u, p)
           /\ \A q \in Parts(p.at, k0, p.order), r \in Parts(p.at, k0, p.order), u \in Nat :
                 Inside(u, q) /\ Inside(u, r) => q = r
           /\ \A u \in Nat : Inside(u, p) =>
                 \E q \in Parts(p.at, k0, p.order) : Inside(u, q)
<1> DEFINE b == p.at
           o == p.order
<1>1. /\ b \in Nat /\ o \in Orders /\ o \in Nat /\ o <= m
      /\ Size(o) \in Nat \ {0} /\ Multiple(b, Size(o)) /\ b + Size(o) <= Size(m)
      /\ Size(m) \in Nat
  BY PieceType, Sizes
<1>2. k0 \in Orders /\ k0 \in Nat /\ k0 <= o /\ MIN_LEVEL \in Nat /\ m \in Nat
  BY <1>1, Sizes DEF Orders
<1>3. \A k \in k0 .. o - 1 :
         /\ k \in Orders /\ k \in Nat /\ k < o /\ k \in MIN_LEVEL .. m /\ k + 1 \in Orders
         /\ Size(k) \in Nat \ {0} /\ Size(k) + Size(k) <= Size(o)
         /\ Size(k0) <= Size(k) /\ Size(k + 1) = Size(k) + Size(k)
  <2>1. ASSUME NEW k \in k0 .. o - 1
        PROVE  k \in Orders /\ k \in Nat /\ k < o /\ k \in MIN_LEVEL .. m /\ k0 <= k
               /\ k + 1 \in Orders
    BY <1>1, <1>2, Sizes DEF Orders
  <2>2. ASSUME NEW k \in k0 .. o - 1
        PROVE  Size(k) + Size(k) <= Size(o) /\ Size(k0) <= Size(k)
    BY <1>1, <1>2, <2>1, SizesGrow
  <2>. QED
    BY <2>1, <2>2, Sizes
<1>4. Size(k0) \in Nat \ {0} /\ Size(k0) <= Size(o)
  BY <1>1, <1>2, SizesGrow
<1>. HIDE DEF b, o
<1> DEFINE first == [at |-> b, order |-> k0]
           half(k) == [at |-> b + Size(k), order |-> k]
<1>5. Parts(b, k0, o) = {first} \union {half(k) : k \in k0 .. o - 1}
  BY DEF Parts, Halves
<1>6. \A u \in Nat : /\ Inside(u, p) <=> b <= u /\ u < b + Size(o)
                     /\ Inside(u, first) <=> b <= u /\ u < b + Size(k0)
                     /\ \A k \in k0 .. o - 1 :
                           Inside(u, half(k)) <=> b + Size(k) <= u
                                                  /\ u < b + Size(k) + Size(k)
  BY DEF Inside, b, o
<1>7. first \in Pieces(m)
  <2>1. k0 \in MIN_LEVEL .. m
    BY <1>1, <1>2
  <2>2. Multiple(b, Size(k0)) /\ b < Size(m)
    BY <1>1, <1>2, MultipleOfSmaller
  <2>. QED
    BY <1>1, <2>1, <2>2 DEF Pieces
<1>8. ASSUME NEW k \in k0 .. o - 1
      PROVE  half(k) \in Pieces(m)
  <2>1. Multiple(b, Size(k))
    BY <1>1, <1>3, MultipleOfSmaller
  <2>2. Multiple(b + Size(k), Size(k))
    <3>1. PICK q \in Nat : b = q * Size(k)
      BY <2>1 DEF Multiple
    <3>2. (q + 1) * Size(k) = q * Size(k) + Size(k) /\ q + 1 \in Nat
      BY <1>3
    <3>. QED
      BY <3>1, <3>2 DEF Multiple
  <2>3. b + Size(k) \in Nat /\ b + Size(k) < Size(m)
    BY <1>1, <1>3
  <2>. QED
    BY <1>3, <2>2, <2>3 DEF Pieces
<1>9. ASSUME NEW u \in Nat
      PROVE  /\ Inside(u, first) => Inside(u, p)
             /\ \A k \in k0 .. o - 1 : Inside(u, half(k)) => Inside(u, p)
             /\ \A k \in k0 .. o - 1 : ~ (Inside(u, half(k)) /\ Inside(u, first))
  <2>1. ASSUME NEW k \in k0 .. o - 1
        PROVE  /\ Inside(u, half(k)) => Inside(u, p)
               /\ ~ (Inside(u, half(k)) /\ Inside(u, first))
    BY <1>1, <1>3, <1>4, <1>6
  <2>. QED
    BY <1>1, <1>4, <1>6, <2>1
<1>10. ASSUME NEW u \in Nat, NEW k \in k0 .. o - 1, NEW j \in k0 .. o - 1,
              Inside(u, half(k)), Inside(u, half(j))
       PROVE  k = j
  <2>1. k < j => Size(k) + Size(k) <= Size(j)
    BY <1>3, SizesGrow
  <2>2. j < k => Size(j) + Size(j) <= Size(k)
    BY <1>3, SizesGrow
  <2>. QED
    BY <1>1, <1>3, <1>6, <1>10, <2>1, <2>2
<1>11. ASSUME NEW u \in Nat, Inside(u, p), ~ Inside(u, first)
       PROVE  \E k \in k0 .. o - 1 : Inside(u, half(k))
  <2> DEFINE T == {k \in k0 .. o - 1 : b + Size(k) <= u}
             t == Max(T)
  <2>1. b <= u /\ u < b + Size(o) /\ b + Size(k0) <= u
    BY <1>1, <1>4, <1>6, <1>11
  <2>2. k0 < o
    BY <1>1, <1>2, <2>1
  <2>3. k0 \in T /\ T \subseteq Nat /\ \A k \in T : k <= o
    BY <1>1, <1>2, <2>1, <2>2
  <2>4. t \in T /\ \A k \in T : t >= k
    BY <1>1, <2>3, LargestNumber
  <2>. HIDE DEF t
  <2>5. t \in k0 .. o - 1 /\ b + Size(t) <= u /\ t \in Nat
    BY <1>3, <2>4
  <2>6. u < b + Size(t + 1)
    <3>1. CASE t + 1 = o
      BY <2>1, <3>1
    <3>2. CASE t + 1 # o
      <4>1. t + 1 \in k0 .. o - 1 /\ ~ t >= t + 1
        BY <1>1, <1>2, <2>5, <3>2
      <4>2. t + 1 \notin T
        BY <2>4, <4>1, Zenon
      <4>. QED
        BY <1>1, <1>3, <4>1, <4>2
    <3>. QED
      BY <3>1, <3>2
  <2>. QED
    BY <1>1, <1>3, <1>6, <2>5, <2>6
<1>12. Parts(b, k0, o) \subseteq Pieces(m)
  BY <1>5, <1>7, <1>8, Zenon
<1>13. \A q \in Parts(b, k0, o), u \in Nat : Inside(u, q) => Inside(u, p)
  BY <1>5, <1>9, Zenon
<1>14. ASSUME NEW q \in Parts(b, k0, o), NEW r \in Parts(b, k0, o), NEW u \in Nat,
              Inside(u, q), Inside(u, r)
       PROVE  q = r
  <2>1. CASE q = first /\ r = first
    BY <2>1
  <2>2. ASSUME NEW k \in k0 .. o - 1, NEW j \in k0 .. o - 1, q = half(k), r = half(j)
        PROVE  q = r
    <3>1. k = j
      BY <1>10, <1>14, <2>2, Zenon
    <3>. QED
      BY <2>2, <3>1
  <2>3. ASSUME NEW k \in k0 .. o - 1
        PROVE  ~ (q = first /\ r = half(k)) /\ ~ (r = first /\ q = half(k))
    BY <1>9, <1>14, Zenon
  <2>. QED
    BY <1>5, <2>1, <2>2, <2>3, Zenon
<1>15. \A u \in Nat : Inside(u, p) => \E q \in Parts(b, k0, o) : Inside(u, q)
  BY <1>5, <1>11, Zenon
<1>. QED
  BY <1>12, <1>13, <1>14, <1>15 DEF b, o

LEMMA SplitTiling ==
    ASSUME BuddyAssumption, NEW m \in Orders, NEW S, Tiling(S, m), NEW p \in S,
           NEW k0 \in MIN_LEVEL .. p.order
    PROVE  Tiling((S \ {p}) \union Parts(p.at, k0, p.order), m)
<1> DEFINE P == Parts(p.at, k0, p.order)
<1>1. /\ S \subseteq Pieces(m) /\ p \in Pieces(m)
      /\ \A q \in S, r \in S, u \in Nat : Inside(u, q) /\ Inside(u, r) => q = r
      /\ \A u \in 0 .. Size(m) - 1 : \E q \in S : Inside(u, q)
  BY DEF Tiling
<1>2. /\ P \subseteq Pieces(m)
      /\ \A q \in P, u \in Nat : Inside(u, q) => Inside(u, p)
      /\ \A q \in P, r \in P, u \in Nat : Inside(u, q) /\ Inside(u, r) => q = r
      /\ \A u \in Nat : Inside(u, p) => \E q \in P : Inside(u, q)
  BY <1>1, PartsCover
<1>. HIDE DEF P
<1>3. ASSUME NEW q \in (S \ {p}) \union P, NEW r \in (S \ {p}) \union P, NEW u \in Nat,
             Inside(u, q), Inside(u, r)
      PROVE  q = r
  BY <1>1, <1>2, <1>3, Zenon
<1>4. ASSUME NEW u \in 0 .. Size(m) - 1
      PROVE  \E q \in (S \ {p}) \union P : Inside(u, q)
  <2>1. u \in Nat
    BY Sizes
  <2>. QED
    BY <1>1, <1>2, <2>1, Zenon
<1>5. (S \ {p}) \union P \subseteq Pieces(m)
  BY <1>1, <1>2
<1>. QED
  BY <1>3, <1>4, <1>5, Zenon DEF Tiling, P

(* One piece takes the place of those inside it.                            *)
LEMMA MergeTiling ==
    ASSUME BuddyAssumption, NEW m \in Orders, NEW S, Tiling(S, m), NEW c \in Pieces(m),
           NEW p0 \in S, p0.order <= c.order, Inside(p0.at, c)
    PROVE  /\ Tiling({p \in S : ~ Inside(p.at, c)} \union {c}, m)
           /\ \A p \in S, u \in Nat : Inside(u, p) /\ Inside(u, c) =>
                 /\ Inside(p.at, c) /\ p.order <= c.order
                 /\ \A v \in Nat : Inside(v, p) => Inside(v, c)
<1> DEFINE R == {p \in S : ~ Inside(p.at, c)} \union {c}
<1>1. /\ S \subseteq Pieces(m) /\ p0 \in Pieces(m)
      /\ \A q \in S, r \in S, u \in Nat : Inside(u, q) /\ Inside(u, r) => q = r
      /\ \A u \in 0 .. Size(m) - 1 : \E q \in S : Inside(u, q)
  BY DEF Tiling
<1>2. c.order \in Nat /\ p0.at \in Nat /\ Inside(p0.at, p0) /\ p0.order \in Nat
  BY <1>1, PieceType
<1>3. ASSUME NEW p \in S, NEW u \in Nat, Inside(u, p), Inside(u, c)
      PROVE  /\ Inside(p.at, c) /\ p.order <= c.order
             /\ \A v \in Nat : Inside(v, p) => Inside(v, c)
  <2>1. p \in Pieces(m) /\ p.at \in Nat /\ p.order \in Nat /\ Inside(p.at, p)
    BY <1>1, PieceType
  <2>2. p.order <= c.order
    <3>1. SUFFICES ASSUME c.order <= p.order, c.order # p.order
                   PROVE  FALSE
      BY <1>2, <2>1
    <3>2. \A v \in Nat : Inside(v, c) => Inside(v, p)
      BY <1>3, <2>1, <3>1, Nested
    <3>3. p = p0
      BY <1>1, <1>2, <3>2, Zenon
    <3>. QED
      BY <1>2, <2>1, <3>1, <3>3
  <2>3. \A v \in Nat : Inside(v, p) => Inside(v, c)
    BY <1>3, <2>1, <2>2, Nested
  <2>. QED
    BY <2>1, <2>2, <2>3
<1>4. ASSUME NEW q \in R, NEW r \in R, NEW u \in Nat, Inside(u, q), Inside(u, r)
      PROVE  q = r
  BY <1>1, <1>3, <1>4, Zenon
<1>5. ASSUME NEW u \in 0 .. Size(m) - 1
      PROVE  \E q \in R : Inside(u, q)
  <2>1. u \in Nat
    BY Sizes
  <2>2. PICK p \in S : Inside(u, p)
    BY <1>1
  <2>3. p \in Pieces(m) /\ p.at \in Nat /\ Inside(p.at, p)
    BY <1>1, PieceType
  <2>4. CASE Inside(p.at, c)
    BY <1>3, <2>1, <2>2, <2>3, <2>4, Zenon
  <2>5. CASE ~ Inside(p.at, c)
    BY <2>2, <2>5
  <2>. QED
    BY <2>4, <2>5
<1>6. R \subseteq Pieces(m)
  BY <1>1
<1>. QED
  BY <1>3, <1>4, <1>5, <1>6, Zenon DEF Tiling

---------------------------------------------------------------------------
(* The invariant of the manager *)

FreeBlocks == UNION {{[at |-> b, order |-> k] : b \in free_blocks[k]} : k \in Orders}

\* The block a caller holds, of the order its header says.
BlockOf(a) == [at |-> a.block, order |-> header[a.block].order]

HeldBlocks == {BlockOf(a) : a \in live}

Blocks == FreeBlocks \union HeldBlocks

TypeInv ==
    /\ max_order \in Orders
    /\ start \in Nat /\ start + Size(max_order) <= MEMORY_END
    /\ free_blocks \in [Orders -> SUBSET Nat]
    /\ header \in [Units(max_order) -> HeaderType \cup {UserData}]
    /\ used_memory \in 0 .. total_memory
    /\ live \subseteq [block : Units(max_order), size : Requests]

\* What the header at the start of a block says is true, and a header that says
\* "occupied" is that of a block somebody holds.
HeadersTell ==
    /\ \A k \in Orders : \A b \in free_blocks[k] : header[b] = [order |-> k, status |-> "FREE"]
    /\ \A a \in live : header[a.block] \in HeaderType /\ header[a.block].status = "OCCUPIED"
    /\ \A u \in Units(max_order) :
          header[u] # UserData /\ header[u].status = "OCCUPIED" => \E a \in live : a.block = u

OneHolder == \A a \in live, c \in live : a.block = c.block => a = c

HalvesApart ==
    \A k \in MIN_LEVEL .. max_order - 1 :
        \A b \in free_blocks[k] : BuddyOf(b, k) \notin free_blocks[k]

HalvesInv ==
    TypeInv /\ Tiling(Blocks, max_order) /\ HeadersTell /\ OneHolder /\ HalvesApart

LEMMA UnitsAre ==
    ASSUME BuddyAssumption, NEW m \in Orders
    PROVE  Units(m) = {u \in Nat : Multiple(u, Size(MIN_LEVEL)) /\ u < Size(m)}
<1> DEFINE n == Size(MIN_LEVEL)
           d == Size(m) \div n
<1>1. MIN_LEVEL \in Orders /\ MIN_LEVEL <= m
  BY DEF BuddyAssumption, Orders
<1>2. n \in Nat \ {0} /\ Size(m) \in Nat \ {0}
  BY <1>1, Sizes
<1>3. PICK c \in Nat \ {0} : Size(m) = c * n
  BY <1>1, SizesDivide
<1>4. d = c
  BY <1>2, <1>3, Quotient
<1>5. \A q \in Nat : q * n \in Nat /\ (q < c <=> q * n < c * n)
  <2>1. ASSUME NEW q \in Nat
        PROVE  q * n \in Nat /\ (q < c <=> q * n < c * n)
    <3>1. q < c => (q + 1) * n <= c * n
      BY <1>2, Times
    <3>2. c <= q => c * n <= q * n
      BY <1>2, Times
    <3>3. (q + 1) * n = q * n + n /\ q * n \in Nat /\ c * n \in Nat
      BY <1>2
    <3>. QED
      BY <1>2, <3>1, <3>2, <3>3
  <2>. QED
    BY <2>1
<1>6. Units(m) = {q * n : q \in 0 .. c - 1}
  BY <1>4 DEF Units
<1>. HIDE DEF n
<1>7. ASSUME NEW u
      PROVE  u \in Units(m) <=> u \in Nat /\ Multiple(u, n) /\ u < Size(m)
  <2>1. ASSUME u \in Units(m)
        PROVE  u \in Nat /\ Multiple(u, n) /\ u < Size(m)
    <3>1. PICK q \in 0 .. c - 1 : u = q * n
      BY <1>6, <2>1
    <3>. QED
      BY <1>3, <1>5, <3>1 DEF Multiple, n
  <2>2. ASSUME u \in Nat, Multiple(u, n), u < Size(m)
        PROVE  u \in Units(m)
    <3>1. PICK q \in Nat : u = q * n
      BY <2>2 DEF Multiple
    <3>. QED
      BY <1>3, <1>5, <1>6, <2>2, <3>1 DEF n
  <2>. QED
    BY <2>1, <2>2
<1>. QED
  BY <1>7 DEF n

(* Where the blocks are.                                                    *)
LEMMA PieceInUnits ==
    ASSUME BuddyAssumption, NEW m \in Orders, NEW p \in Pieces(m)
    PROVE  p.at \in Units(m)
<1>1. /\ p.at \in Nat /\ p.order \in Orders /\ Multiple(p.at, Size(p.order))
      /\ Size(p.order) \in Nat \ {0} /\ p.at + Size(p.order) <= Size(m) /\ Size(m) \in Nat
  BY PieceType, Sizes
<1>2. MIN_LEVEL \in Orders /\ MIN_LEVEL <= p.order
  BY <1>1 DEF BuddyAssumption, Orders
<1>3. Multiple(p.at, Size(MIN_LEVEL)) /\ p.at < Size(m)
  BY <1>1, <1>2, MultipleOfSmaller
<1>. QED
  BY <1>1, <1>3, UnitsAre

LEMMA BlocksAre ==
    ASSUME BuddyAssumption, HalvesInv
    PROVE  /\ Blocks \subseteq Pieces(max_order)
           /\ \A p \in Blocks, q \in Blocks, u \in Nat : Inside(u, p) /\ Inside(u, q) => p = q
           /\ \A p \in Blocks : /\ p.at \in Units(max_order) /\ p.at \in Nat
                                /\ p.order \in MIN_LEVEL .. max_order /\ p.order \in Orders
                                /\ Inside(p.at, p)
           /\ \A k \in Orders : \A b \in free_blocks[k] :
                 /\ [at |-> b, order |-> k] \in Blocks
                 /\ b \in Units(max_order) /\ b \in Nat /\ k \in MIN_LEVEL .. max_order
           /\ \A a \in live : /\ BlockOf(a) \in Blocks /\ BlockOf(a).at = a.block
                              /\ BlockOf(a).order = header[a.block].order
                              /\ a.block \in Units(max_order)
           /\ FreeBlocks \intersect HeldBlocks = {}
<1>1. /\ max_order \in Orders /\ Blocks \subseteq Pieces(max_order)
      /\ \A p \in Blocks, q \in Blocks, u \in Nat : Inside(u, p) /\ Inside(u, q) => p = q
      /\ free_blocks \in [Orders -> SUBSET Nat]
      /\ live \subseteq [block : Units(max_order), size : Requests]
  BY DEF HalvesInv, TypeInv, Tiling
<1>2. ASSUME NEW p \in Blocks
      PROVE  /\ p.at \in Units(max_order) /\ p.at \in Nat
             /\ p.order \in MIN_LEVEL .. max_order /\ p.order \in Orders
             /\ Inside(p.at, p)
  <2>1. p \in Pieces(max_order)
    BY <1>1
  <2>. QED
    BY <1>1, <2>1, PieceType, PieceInUnits DEF Pieces
<1>3. ASSUME NEW k \in Orders, NEW b \in free_blocks[k]
      PROVE  /\ [at |-> b, order |-> k] \in Blocks
             /\ b \in Units(max_order) /\ b \in Nat /\ k \in MIN_LEVEL .. max_order
  <2>1. [at |-> b, order |-> k] \in Blocks
    BY DEF Blocks, FreeBlocks
  <2>. QED
    BY <1>2, <2>1
<1>4. \A a \in live : /\ BlockOf(a) \in Blocks /\ BlockOf(a).at = a.block
                      /\ BlockOf(a).order = header[a.block].order
                      /\ a.block \in Units(max_order)
  BY <1>1 DEF Blocks, HeldBlocks, BlockOf
<1>5. FreeBlocks \intersect HeldBlocks = {}
  <2>1. SUFFICES ASSUME NEW k \in Orders, NEW b \in free_blocks[k], NEW a \in live,
                        b = a.block
                 PROVE  FALSE
    BY DEF FreeBlocks, HeldBlocks, BlockOf
  <2>2. header[b] = [order |-> k, status |-> "FREE"] /\ header[b].status = "OCCUPIED"
    BY <2>1, Zenon DEF HalvesInv, HeadersTell
  <2>. QED
    BY <2>2
<1>. QED
  BY <1>1, <1>2, <1>3, <1>4, <1>5

LEMMA HalvesStart ==
    ASSUME BuddyAssumption, Init
    PROVE  HalvesInv
<1>1. PICK addr \in Managed :
         LET aligned == RoundUp(addr, 8)
         IN  /\ HeapOrders(aligned) # {}
             /\ max_order = Max(HeapOrders(aligned))
             /\ start = RoundUp(aligned, Size(max_order))
             /\ free_blocks = [k \in Orders |-> IF k = max_order THEN {0} ELSE {}]
             /\ header = [u \in Units(max_order) |->
                             IF u = 0 THEN [order |-> max_order, status |-> "FREE"]
                             ELSE UserData]
             /\ used_memory = 0
             /\ live = {}
  BY DEF Init
<1> DEFINE aligned == RoundUp(addr, 8)
<1>2. aligned \in Nat /\ MEMORY_END \in Nat
  <2>1. addr \in Nat /\ MEMORY_END \in Nat /\ 8 \in Nat \ {0}
    BY DEF BuddyAssumption
  <2>. QED
    BY <2>1, Rounding
<1>. HIDE DEF aligned
<1>3. /\ HeapOrders(aligned) # {} /\ max_order = Max(HeapOrders(aligned))
      /\ start = RoundUp(aligned, Size(max_order))
  BY <1>1 DEF aligned
<1>4. max_order \in HeapOrders(aligned)
  <2>1. HeapOrders(aligned) \subseteq Nat /\ \A k \in HeapOrders(aligned) : k <= MAX_ORDER
    BY Sizes DEF HeapOrders, Orders
  <2>. QED
    BY <1>3, <2>1, Sizes, LargestNumber
<1>5. max_order \in Orders /\ start + Size(max_order) <= MEMORY_END
  BY <1>3, <1>4 DEF HeapOrders
<1>6. Size(max_order) \in Nat \ {0} /\ start \in Nat
  <2>1. Size(max_order) \in Nat \ {0}
    BY <1>5, Sizes
  <2>. QED
    BY <1>2, <1>3, <2>1, Rounding
<1>7. 0 \in Units(max_order)
  <2>1. Size(MIN_LEVEL) \in Nat \ {0}
    BY Sizes DEF BuddyAssumption, Orders
  <2>2. 0 = 0 * Size(MIN_LEVEL)
    BY <2>1
  <2>. QED
    BY <1>5, <1>6, <2>2, UnitsAre DEF Multiple
<1>8. [order |-> max_order, status |-> "FREE"] \in HeaderType
  BY <1>5 DEF HeaderType
<1>9. TypeInv
  BY <1>1, <1>5, <1>6, <1>8 DEF TypeInv, total_memory
<1>10. Blocks = {[at |-> 0, order |-> max_order]}
  <2>1. FreeBlocks = {[at |-> 0, order |-> max_order]}
    BY <1>1, <1>5 DEF FreeBlocks
  <2>2. HeldBlocks = {}
    BY <1>1 DEF HeldBlocks
  <2>. QED
    BY <2>1, <2>2 DEF Blocks
<1>11. Tiling(Blocks, max_order)
  <2> DEFINE p == [at |-> 0, order |-> max_order]
  <2>1. p \in Pieces(max_order)
    <3>1. 0 = 0 * Size(max_order)
      BY <1>6
    <3>2. max_order \in MIN_LEVEL .. max_order
      BY <1>5, Sizes DEF Orders
    <3>. QED
      BY <1>6, <3>1, <3>2 DEF Pieces, Multiple
  <2>2. \A u \in 0 .. Size(max_order) - 1 : Inside(u, p)
    BY <1>6 DEF Inside
  <2>. QED
    BY <1>10, <2>1, <2>2 DEF Tiling
<1>12. HeadersTell
  <2>1. ASSUME NEW k \in Orders, NEW b \in free_blocks[k]
        PROVE  header[b] = [order |-> k, status |-> "FREE"]
    BY <1>1, <1>7
  <2>2. ASSUME NEW u \in Units(max_order), header[u] # UserData
        PROVE  header[u].status # "OCCUPIED"
    BY <1>1, <2>2
  <2>3. live = {}
    BY <1>1
  <2>. QED
    BY <2>1, <2>2, <2>3, Zenon DEF HeadersTell
<1>13. OneHolder
  BY <1>1 DEF OneHolder
<1>14. HalvesApart
  <2>1. \A k \in MIN_LEVEL .. max_order - 1 : k \in Orders /\ k # max_order
    BY <1>5, Sizes DEF Orders
  <2>. QED
    BY <1>1, <2>1 DEF HalvesApart
<1>. QED
  BY <1>9, <1>11, <1>12, <1>13, <1>14 DEF HalvesInv

(* The order memory_alloc settles for.                                      *)
LEMMA OrderForIs ==
    ASSUME BuddyAssumption, max_order \in Orders, NEW size \in Requests
    PROVE  /\ OrderFor(size) \in MIN_LEVEL .. max_order
           /\ size + Header <= total_memory => size + Header <= Size(OrderFor(size))
<1> DEFINE enough == {k \in MIN_LEVEL .. max_order : Size(k) >= size + Header}
<1>1. /\ MIN_LEVEL \in Nat /\ max_order \in Nat /\ MIN_LEVEL <= max_order
      /\ size \in Nat /\ Header \in Nat /\ Size(max_order) \in Nat
      /\ MAX_ORDER \in Nat /\ max_order <= MAX_ORDER - 1
  BY Sizes DEF BuddyAssumption, Orders
<1>2. enough \subseteq Nat
  BY <1>1
<1>3. CASE enough = {}
  <2>1. OrderFor(size) = max_order
    BY <1>3 DEF OrderFor
  <2>2. max_order \in MIN_LEVEL .. max_order
    BY <1>1
  <2>. QED
    BY <2>1, <2>2 DEF total_memory
<1>4. CASE enough # {}
  <2>1. OrderFor(size) = Min(enough)
    BY <1>4 DEF OrderFor
  <2>2. OrderFor(size) \in enough
    BY <1>2, <1>4, <2>1, LeastNumber
  <2>3. OrderFor(size) \in Orders
    BY <1>1, <2>2 DEF Orders
  <2>4. Size(OrderFor(size)) \in Nat
    BY <2>3, Sizes
  <2>. QED
    BY <1>1, <2>2, <2>4
<1>. QED
  BY <1>3, <1>4

(* What memory_alloc does to the blocks: the first block of the smallest    *)
(* order that has one gives way to its parts, of which the left one is held. *)
AllocBlocks(size, o, b, k0) ==
    /\ k0 \in MIN_LEVEL .. max_order /\ o \in k0 .. max_order
    /\ k0 \in Orders /\ o \in Orders
    /\ b \in free_blocks[o]
    /\ \A k \in k0 .. o - 1 : free_blocks[k] = {}
    /\ free_blocks' =
          [k \in Orders |->
              IF k = o THEN free_blocks[k] \ {b}
              ELSE IF k \in k0 .. o - 1 THEN {b + Size(k)}
              ELSE free_blocks[k]]
    /\ header' =
          [u \in DOMAIN header |->
              IF u = b THEN [order |-> k0, status |-> "OCCUPIED"]
              ELSE IF u \in {b + Size(k) : k \in k0 .. o - 1}
                   THEN [order |-> CHOOSE k \in k0 .. o - 1 : u = b + Size(k),
                         status |-> "FREE"]
              ELSE IF b < u /\ u < b + Size(k0) THEN UserData
              ELSE header[u]]
    /\ live' = live \cup {[block |-> b, size |-> size]}

LEMMA AllocIs ==
    ASSUME BuddyAssumption, TypeInv, NEW size \in Requests, Alloc(size)
    PROVE  /\ \E o, b : AllocBlocks(size, o, b, OrderFor(size))
           /\ size <= total_memory
           /\ max_order' = max_order /\ start' = start
           /\ used_memory' = IF used_memory + Size(OrderFor(size)) <= total_memory
                             THEN used_memory + Size(OrderFor(size)) ELSE used_memory
<1> DEFINE k0     == OrderFor(size)
           enough == {k \in k0 .. max_order : free_blocks[k] # {}}
           o      == Min(enough)
           b      == Min(free_blocks[o])
<1>1. /\ enough # {}
      /\ free_blocks' =
            [k \in Orders |->
                IF k = o THEN free_blocks[k] \ {b}
                ELSE IF k \in k0 .. o - 1 THEN {b + Size(k)}
                ELSE free_blocks[k]]
      /\ header' =
            [u \in DOMAIN header |->
                IF u = b THEN [order |-> k0, status |-> "OCCUPIED"]
                ELSE IF u \in {b + Size(k) : k \in k0 .. o - 1}
                     THEN [order |-> CHOOSE k \in k0 .. o - 1 : u = b + Size(k),
                           status |-> "FREE"]
                ELSE IF b < u /\ u < b + Size(k0) THEN UserData
                ELSE header[u]]
      /\ live' = live \cup {[block |-> b, size |-> size]}
  BY Zenon DEF Alloc
<1>2. /\ size <= total_memory
      /\ max_order' = max_order /\ start' = start
      /\ used_memory' = IF used_memory + Size(k0) <= total_memory
                        THEN used_memory + Size(k0) ELSE used_memory
  BY Zenon DEF Alloc
<1>3. /\ max_order \in Orders /\ free_blocks \in [Orders -> SUBSET Nat]
      /\ max_order \in Nat /\ MIN_LEVEL \in Nat /\ MAX_ORDER \in Nat
      /\ max_order <= MAX_ORDER - 1
  BY Sizes DEF TypeInv, Orders
<1>4. k0 \in MIN_LEVEL .. max_order
  BY <1>3, OrderForIs
<1>. HIDE DEF k0
<1>5. k0 \in Nat /\ enough \subseteq Nat /\ k0 \in Orders
  BY <1>3, <1>4 DEF Orders
<1>6. o \in enough /\ \A k \in enough : o <= k
  BY <1>1, <1>5, LeastNumber
<1>. HIDE DEF o
<1>7. o \in k0 .. max_order /\ free_blocks[o] # {} /\ o \in Nat /\ o \in Orders
  <2>1. o \in k0 .. max_order /\ free_blocks[o] # {} /\ o \in Nat
    BY <1>3, <1>5, <1>6
  <2>. QED
    BY <1>3, <1>4, <2>1 DEF Orders
<1>8. b \in free_blocks[o]
  <2>1. free_blocks[o] \subseteq Nat
    BY <1>3, <1>7
  <2>. QED
    BY <1>7, <2>1, LeastNumber
<1>9. \A k \in k0 .. o - 1 : free_blocks[k] = {}
  <2>1. ASSUME NEW k \in k0 .. o - 1, free_blocks[k] # {}
        PROVE  FALSE
    <3>1. k \in k0 .. max_order /\ ~ o <= k
      BY <1>3, <1>5, <1>7
    <3>2. k \in enough
      BY <2>1, <3>1
    <3>. QED
      BY <1>6, <3>1, <3>2, Zenon
  <2>. QED
    BY <2>1
<1>. HIDE DEF b, enough
<1>10. AllocBlocks(size, o, b, k0)
  BY <1>1, <1>4, <1>5, <1>7, <1>8, <1>9, Zenon DEF AllocBlocks
<1>. QED
  BY <1>2, <1>10, Zenon DEF k0

LEMMA AllocTiles ==
    ASSUME BuddyAssumption, HalvesInv, max_order' = max_order,
           NEW size \in Requests, NEW o, NEW b, NEW k0, AllocBlocks(size, o, b, k0)
    PROVE  /\ Tiling(Blocks, max_order)'
           /\ HeadersTell' /\ OneHolder' /\ HalvesApart'
           /\ free_blocks' \in [Orders -> SUBSET Nat]
           /\ header' \in [Units(max_order) -> HeaderType \cup {UserData}]
           /\ b \in Units(max_order)
           /\ \A a \in live : header'[a.block] = header[a.block] /\ a.block # b
           /\ header'[b].order = k0
<1> DEFINE p == [at |-> b, order |-> o]
           P == Parts(b, k0, o)
           H == Halves(b, k0, o)
           first == [at |-> b, order |-> k0]
<1>1. /\ max_order \in Orders /\ max_order \in Nat /\ MIN_LEVEL \in Nat /\ MAX_ORDER \in Nat
      /\ free_blocks \in [Orders -> SUBSET Nat]
      /\ header \in [Units(max_order) -> HeaderType \cup {UserData}]
      /\ live \subseteq [block : Units(max_order), size : Requests]
      /\ Tiling(Blocks, max_order)
  BY Sizes DEF HalvesInv, TypeInv, Orders
<1>2. /\ k0 \in MIN_LEVEL .. max_order /\ o \in k0 .. max_order
      /\ k0 \in Orders /\ o \in Orders /\ k0 \in Nat /\ o \in Nat
      /\ b \in free_blocks[o]
      /\ \A k \in k0 .. o - 1 : free_blocks[k] = {}
      /\ \A k \in k0 .. o - 1 : k \in Orders /\ k \in Nat /\ k # o /\ Size(k) \in Nat \ {0}
  <2>1. /\ k0 \in MIN_LEVEL .. max_order /\ o \in k0 .. max_order
        /\ k0 \in Orders /\ o \in Orders
        /\ b \in free_blocks[o]
        /\ \A k \in k0 .. o - 1 : free_blocks[k] = {}
    BY DEF AllocBlocks
  <2>2. \A k \in k0 .. o - 1 : k \in Orders /\ k # o
    BY <1>1, <2>1 DEF Orders
  <2>. QED
    BY <2>1, <2>2, Sizes
<1>3. /\ free_blocks'[o] = free_blocks[o] \ {b}
      /\ \A k \in k0 .. o - 1 : free_blocks'[k] = {b + Size(k)}
      /\ \A k \in Orders : k # o /\ k \notin k0 .. o - 1 => free_blocks'[k] = free_blocks[k]
      /\ DOMAIN header = Units(max_order)
      /\ live' = live \cup {[block |-> b, size |-> size]}
  BY <1>1, <1>2 DEF AllocBlocks
<1>4. p \in Blocks /\ b \in Units(max_order) /\ b \in Nat
  BY <1>2, BlocksAre
<1>5. /\ p \in Pieces(max_order) /\ p.at = b /\ p.order = o
      /\ \A q \in Blocks, r \in Blocks, u \in Nat : Inside(u, q) /\ Inside(u, r) => q = r
  BY <1>4, BlocksAre
<1>6. /\ P \subseteq Pieces(max_order)
      /\ \A q \in P, u \in Nat : Inside(u, q) => Inside(u, p)
      /\ \A q \in P, r \in P, u \in Nat : Inside(u, q) /\ Inside(u, r) => q = r
  <2>1. k0 \in MIN_LEVEL .. p.order
    BY <1>1, <1>2, <1>5
  <2>. QED
    BY <1>1, <1>5, <2>1, PartsCover
<1>7. Tiling((Blocks \ {p}) \union P, max_order)
  <2>1. k0 \in MIN_LEVEL .. p.order
    BY <1>1, <1>2, <1>5
  <2>. QED
    BY <1>1, <1>4, <1>5, <2>1, SplitTiling
<1>8. /\ first \in P /\ Inside(b, first)
      /\ \A k \in k0 .. o - 1 : [at |-> b + Size(k), order |-> k] \in P
      /\ P = {first} \union H
  <2>1. Inside(b, first)
    BY <1>2, <1>4, Sizes DEF Inside
  <2>. QED
    BY <2>1 DEF Parts, Halves
<1>9. \A q \in P : q.at \in Units(max_order) /\ q.at \in Nat /\ Inside(q.at, q) /\ Inside(q.at, p)
  BY <1>1, <1>6, PieceInUnits, PieceType
<1>10. Inside(b, p)
  BY <1>4, <1>5, BlocksAre
<1>11. \A u \in Nat : Inside(u, first) <=> b <= u /\ u < b + Size(k0)
  BY DEF Inside
<1>12. ASSUME NEW u \in Units(max_order), ~ Inside(u, p)
       PROVE  header'[u] = header[u]
  <2>1. u \in Nat
    BY <1>1, UnitsAre
  <2>2. u # b
    BY <1>10, <1>12
  <2>3. \A k \in k0 .. o - 1 : u # b + Size(k)
    <3>1. ASSUME NEW k \in k0 .. o - 1, u = b + Size(k)
          PROVE  FALSE
      <4>1. [at |-> b + Size(k), order |-> k] \in P
        BY <1>8
      <4>2. Inside([at |-> b + Size(k), order |-> k].at, p)
        BY <1>9, <4>1, Zenon
      <4>. QED
        BY <1>12, <3>1, <4>2
    <3>. QED
      BY <3>1
  <2>4. ~ (b < u /\ u < b + Size(k0))
    <3>1. ~ Inside(u, first)
      BY <1>6, <1>8, <1>12, <2>1, Zenon
    <3>2. Size(k0) \in Nat
      BY <1>2, Sizes
    <3>. QED
      BY <1>4, <1>11, <2>1, <3>1, <3>2
  <2>. QED
    BY <1>3, <2>2, <2>3, <2>4 DEF AllocBlocks
<1>13. ASSUME NEW q \in Blocks, q # p
       PROVE  q.at \in Units(max_order) /\ ~ Inside(q.at, p) /\ header'[q.at] = header[q.at]
  <2>1. q.at \in Units(max_order) /\ q.at \in Nat /\ Inside(q.at, q)
    BY BlocksAre
  <2>2. ~ Inside(q.at, p)
    BY <1>4, <1>5, <1>13, <2>1, Zenon
  <2>. QED
    BY <1>12, <2>1, <2>2
<1>14. header'[b] = [order |-> k0, status |-> "OCCUPIED"]
  BY <1>3, <1>4 DEF AllocBlocks
<1>15. ASSUME NEW k \in k0 .. o - 1
       PROVE  header'[b + Size(k)] = [order |-> k, status |-> "FREE"]
  <2> DEFINE u == b + Size(k)
  <2>1. [at |-> u, order |-> k] \in P
    BY <1>8
  <2>2. u \in Units(max_order) /\ u \in Nat
    <3>1. [at |-> u, order |-> k].at \in Units(max_order) /\ [at |-> u, order |-> k].at \in Nat
      BY <1>9, <2>1, Zenon
    <3>. QED
      BY <3>1
  <2>3. u # b
    BY <1>2, <1>4
  <2>4. \A j \in k0 .. o - 1 : u = b + Size(j) => j = k
    <3>1. ASSUME NEW j \in k0 .. o - 1, j # k
          PROVE  Size(j) # Size(k)
      <4>1. (k < j => Size(k) + Size(k) <= Size(j)) /\ (j < k => Size(j) + Size(j) <= Size(k))
        BY <1>2, SizesGrow
      <4>. QED
        BY <1>2, <3>1, <4>1
    <3>2. ASSUME NEW j \in k0 .. o - 1, b + Size(k) = b + Size(j)
          PROVE  Size(k) = Size(j)
      BY <1>2, <1>4, <3>2
    <3>. QED
      BY <3>1, <3>2
  <2>5. (CHOOSE j \in k0 .. o - 1 : u = b + Size(j)) = k
    BY <2>4
  <2>6. header'[u] = [order |-> CHOOSE j \in k0 .. o - 1 : u = b + Size(j), status |-> "FREE"]
    BY <1>3, <2>2, <2>3 DEF AllocBlocks
  <2>. QED
    BY <2>5, <2>6
<1>16. ASSUME NEW a \in live
       PROVE  /\ header'[a.block] = header[a.block] /\ a.block # b
              /\ a.block \in Units(max_order)
  <2>1. BlockOf(a) \in Blocks /\ BlockOf(a).at = a.block /\ BlockOf(a) \in HeldBlocks
    BY BlocksAre DEF HeldBlocks
  <2>2. p \in FreeBlocks
    BY <1>2 DEF FreeBlocks
  <2>3. BlockOf(a) # p
    BY <2>1, <2>2, BlocksAre
  <2>4. /\ BlockOf(a).at \in Units(max_order) /\ ~ Inside(BlockOf(a).at, p)
        /\ header'[BlockOf(a).at] = header[BlockOf(a).at]
    BY <1>13, <2>1, <2>3, Zenon
  <2>. QED
    BY <1>10, <2>1, <2>4
<1>17. free_blocks' \in [Orders -> SUBSET Nat]
  <2>1. \A k \in Orders :
           (IF k = o THEN free_blocks[k] \ {b}
            ELSE IF k \in k0 .. o - 1 THEN {b + Size(k)} ELSE free_blocks[k]) \in SUBSET Nat
    BY <1>1, <1>2, <1>4
  <2>. QED
    BY <2>1 DEF AllocBlocks
<1>18. header' \in [Units(max_order) -> HeaderType \cup {UserData}]
  <2>1. ASSUME NEW u \in Units(max_order)
        PROVE  header'[u] \in HeaderType \cup {UserData}
    <3>1. CASE u = b
      BY <1>2, <1>14, <3>1 DEF HeaderType
    <3>2. ASSUME NEW k \in k0 .. o - 1, u = b + Size(k)
          PROVE  header'[u] \in HeaderType \cup {UserData}
      <4>1. header'[u] = [order |-> k, status |-> "FREE"]
        BY <1>15, <3>2
      <4>2. [order |-> k, status |-> "FREE"] \in HeaderType
        BY <1>2 DEF HeaderType
      <4>. QED
        BY <4>1, <4>2
    <3>3. CASE u # b /\ \A k \in k0 .. o - 1 : u # b + Size(k)
      <4>1. header'[u] = UserData \/ header'[u] = header[u]
        BY <1>3, <3>3 DEF AllocBlocks
      <4>. QED
        BY <1>1, <4>1
    <3>. QED
      BY <3>1, <3>2, <3>3
  <2>2. header' = [u \in Units(max_order) |-> header'[u]]
    BY <1>3 DEF AllocBlocks
  <2>. QED
    BY <2>1, <2>2
<1>19. FreeBlocks' = (FreeBlocks \ {p}) \union H
  <2>1. ASSUME NEW q
        PROVE  q \in FreeBlocks' <=> \E k \in Orders, c \in Nat :
                   q = [at |-> c, order |-> k] /\ c \in free_blocks'[k]
    BY <1>17 DEF FreeBlocks
  <2>2. ASSUME NEW q
        PROVE  q \in FreeBlocks <=> \E k \in Orders, c \in Nat :
                   q = [at |-> c, order |-> k] /\ c \in free_blocks[k]
    BY <1>1 DEF FreeBlocks
  <2>3. ASSUME NEW k \in Orders, NEW c \in Nat
        PROVE  c \in free_blocks'[k] <=>
                  \/ c \in free_blocks[k] /\ ~ (k = o /\ c = b)
                  \/ k \in k0 .. o - 1 /\ c = b + Size(k)
    BY <1>2, <1>3
  <2>4. \A q : q \in H <=> \E k \in k0 .. o - 1 : q = [at |-> b + Size(k), order |-> k]
    BY DEF Halves
  <2>5. ASSUME NEW k \in Orders, NEW c \in Nat
        PROVE  [at |-> c, order |-> k] \in H <=> k \in k0 .. o - 1 /\ c = b + Size(k)
    BY <2>4
  <2>6. ASSUME NEW k \in Orders, NEW c \in Nat
        PROVE  [at |-> c, order |-> k] = p <=> k = o /\ c = b
    OBVIOUS
  <2>7. \A q \in H : \E k \in Orders, c \in Nat : q = [at |-> c, order |-> k]
    <3>1. ASSUME NEW q \in H
          PROVE  \E k \in Orders, c \in Nat : q = [at |-> c, order |-> k]
      <4>1. PICK k \in k0 .. o - 1 : q = [at |-> b + Size(k), order |-> k]
        BY <2>4
      <4>2. k \in Orders /\ b + Size(k) \in Nat
        BY <1>2, <1>4
      <4>. QED
        BY <4>1, <4>2
    <3>. QED
      BY <3>1
  <2>. HIDE DEF p, H
  <2>8. ASSUME NEW q
        PROVE  q \in FreeBlocks' <=> q \in (FreeBlocks \ {p}) \union H
    <3>1. CASE \E k \in Orders, c \in Nat : q = [at |-> c, order |-> k]
      <4>1. PICK k \in Orders, c \in Nat : q = [at |-> c, order |-> k]
        BY <3>1
      <4>2. q \in FreeBlocks' <=> c \in free_blocks'[k]
        BY <2>1, <4>1
      <4>3. q \in FreeBlocks <=> c \in free_blocks[k]
        BY <2>2, <4>1
      <4>4. (q \in H <=> k \in k0 .. o - 1 /\ c = b + Size(k)) /\ (q = p <=> k = o /\ c = b)
        BY <2>5, <2>6, <4>1
      <4>5. ~ (k = o /\ k \in k0 .. o - 1)
        BY <1>2
      <4>. QED
        BY <2>3, <4>2, <4>3, <4>4, <4>5
    <3>2. CASE ~ \E k \in Orders, c \in Nat : q = [at |-> c, order |-> k]
      <4>1. q \notin FreeBlocks'
        BY <2>1, <3>2, Zenon
      <4>2. q \notin FreeBlocks
        BY <2>2, <3>2, Zenon
      <4>3. q \notin H
        BY <2>7, <3>2, Zenon
      <4>. QED
        BY <4>1, <4>2, <4>3
    <3>. QED
      BY <3>1, <3>2
  <2>. QED
    BY <2>8
<1>20. HeldBlocks' = HeldBlocks \union {first}
  <2> DEFINE new == [block |-> b, size |-> size]
  <2>1. \A a \in live : BlockOf(a)' = BlockOf(a)
    BY <1>16 DEF BlockOf
  <2>2. BlockOf(new)' = first
    BY <1>14 DEF BlockOf
  <2>3. HeldBlocks' = {BlockOf(a)' : a \in live'}
    BY DEF HeldBlocks
  <2>4. live' = live \union {new}
    BY <1>3
  <2>. HIDE DEF new, first
  <2>. QED
    BY <2>1, <2>2, <2>3, <2>4 DEF HeldBlocks
<1>21. Blocks' = (Blocks \ {p}) \union P
  <2>1. p \notin HeldBlocks
    <3>1. p \in FreeBlocks
      BY <1>2 DEF FreeBlocks
    <3>. QED
      BY <3>1, BlocksAre
  <2>. QED
    BY <1>8, <1>19, <1>20, <2>1 DEF Blocks
<1>22. Tiling(Blocks, max_order)'
  <2>1. Tiling(Blocks', max_order)
    BY <1>7, <1>21
  <2>2. \A S : Tiling(S, max_order)' <=> Tiling(S, max_order)
    BY DEF Tiling, Pieces, Inside
  <2>. QED
    BY <2>1 DEF Tiling, Pieces, Inside, Multiple
<1>23. HeadersTell'
  <2>1. ASSUME NEW k \in Orders, NEW c \in free_blocks'[k]
        PROVE  header'[c] = [order |-> k, status |-> "FREE"]
    <3>1. CASE k \in k0 .. o - 1
      BY <1>3, <1>15, <3>1
    <3>2. CASE k \notin k0 .. o - 1
      <4>1. c \in free_blocks[k] /\ ~ (k = o /\ c = b)
        BY <1>3, <3>2
      <4>2. [at |-> c, order |-> k] \in Blocks /\ [at |-> c, order |-> k] # p
        BY <4>1, BlocksAre
      <4>3. header'[[at |-> c, order |-> k].at] = header[[at |-> c, order |-> k].at]
        BY <1>13, <4>2, Zenon
      <4>4. header[c] = [order |-> k, status |-> "FREE"]
        BY <4>1, Zenon DEF HalvesInv, HeadersTell
      <4>. QED
        BY <4>3, <4>4
    <3>. QED
      BY <3>1, <3>2
  <2>2. ASSUME NEW a \in live'
        PROVE  header'[a.block] \in HeaderType /\ header'[a.block].status = "OCCUPIED"
    <3>1. CASE a \in live
      <4>1. header[a.block] \in HeaderType /\ header[a.block].status = "OCCUPIED"
        BY <3>1, Zenon DEF HalvesInv, HeadersTell
      <4>. QED
        BY <1>16, <3>1, <4>1
    <3>2. CASE a = [block |-> b, size |-> size]
      BY <1>2, <1>14, <3>2 DEF HeaderType
    <3>. QED
      BY <1>3, <3>1, <3>2
  <2>3. ASSUME NEW u \in Units(max_order), header'[u] # UserData,
               header'[u].status = "OCCUPIED"
        PROVE  \E a \in live' : a.block = u
    <3>1. CASE u = b
      <4>1. [block |-> b, size |-> size] \in live' /\ [block |-> b, size |-> size].block = u
        BY <1>3, <3>1
      <4>. QED
        BY <4>1
    <3>2. ASSUME NEW k \in k0 .. o - 1, u = b + Size(k)
          PROVE  FALSE
      <4>1. header'[u] = [order |-> k, status |-> "FREE"]
        BY <1>15, <3>2
      <4>. QED
        BY <2>3, <4>1
    <3>3. CASE u # b /\ \A k \in k0 .. o - 1 : u # b + Size(k)
      <4>1. header'[u] = header[u]
        BY <1>3, <2>3, <3>3 DEF AllocBlocks
      <4>2. \E a \in live : a.block = u
        BY <2>3, <4>1, Zenon DEF HalvesInv, HeadersTell
      <4>. QED
        BY <1>3, <4>2
    <3>. QED
      BY <3>1, <3>2, <3>3
  <2>. QED
    BY <2>1, <2>2, <2>3 DEF HeadersTell, Units
<1>24. OneHolder'
  <2>1. \A a \in live, c \in live : a.block = c.block => a = c
    BY DEF HalvesInv, OneHolder
  <2> DEFINE new == [block |-> b, size |-> size]
  <2>2. new.block = b
    OBVIOUS
  <2>. HIDE DEF new
  <2>3. live' = live \union {new}
    BY <1>3 DEF new
  <2>. QED
    BY <1>16, <2>1, <2>2, <2>3, Zenon DEF OneHolder
<1>25. HalvesApart'
  <2>1. SUFFICES ASSUME NEW k \in MIN_LEVEL .. max_order - 1, NEW c \in free_blocks'[k]
                 PROVE  BuddyOf(c, k) \notin free_blocks'[k]
    BY DEF HalvesApart, BuddyOf, Size
  <2>2. k \in Orders /\ Size(k) \in Nat \ {0}
    BY <1>1, Sizes DEF Orders
  <2>3. CASE k \in k0 .. o - 1
    <3>1. c = b + Size(k) /\ free_blocks'[k] = {c} /\ c \in Nat
      BY <1>3, <1>4, <2>1, <2>2, <2>3
    <3>2. BuddyOf(c, k) # c
      BY <2>2, <3>1 DEF BuddyOf
    <3>. QED
      BY <3>1, <3>2
  <2>4. CASE k \notin k0 .. o - 1
    <3>1. free_blocks'[k] \subseteq free_blocks[k]
      BY <1>3, <2>2, <2>4
    <3>2. \A d \in free_blocks[k] : BuddyOf(d, k) \notin free_blocks[k]
      BY <2>1 DEF HalvesInv, HalvesApart
    <3>. QED
      BY <2>1, <3>1, <3>2
  <2>. QED
    BY <2>3, <2>4
<1>26. header'[b].order = k0
  BY <1>14
<1>. QED
  BY <1>4, <1>16, <1>17, <1>18, <1>22, <1>23, <1>24, <1>25, <1>26

LEMMA BuddyOfBuddy ==
    ASSUME BuddyAssumption, NEW k \in Orders, NEW d, Multiple(d, Size(k))
    PROVE  BuddyOf(BuddyOf(d, k), k) = d
<1> DEFINE n == Size(k)
<1>1. n \in Nat \ {0}
  BY Sizes
<1>2. PICK s \in Nat : d = s * n
  BY DEF Multiple
<1>. HIDE DEF n
<1>3. d \div n = s /\ d \in Nat
  BY <1>1, <1>2, Quotient
<1>4. BuddyOf(d, k) = IF s % 2 = 0 THEN d + n ELSE d - n
  BY <1>3 DEF BuddyOf, n
<1>5. CASE s % 2 = 0
  <2>1. d + n = (s + 1) * n /\ ~ (s + 1) % 2 = 0
    BY <1>1, <1>2, <1>5
  <2>2. (d + n) \div n = s + 1
    BY <1>1, <2>1, Quotient
  <2>3. BuddyOf(d + n, k) = d + n - n
    BY <1>1, <1>3, <2>1, <2>2 DEF BuddyOf, n
  <2>. QED
    BY <1>1, <1>3, <1>4, <1>5, <2>3
<1>6. CASE ~ s % 2 = 0
  <2>1. s - 1 \in Nat /\ (s - 1) % 2 = 0
    BY <1>6
  <2>2. d - n = (s - 1) * n
    BY <1>1, <1>2
  <2>3. (d - n) \div n = s - 1
    BY <1>1, <2>1, <2>2, Quotient
  <2>4. BuddyOf(d - n, k) = d - n + n
    BY <2>1, <2>3 DEF BuddyOf, n
  <2>. QED
    BY <1>1, <1>3, <1>4, <1>6, <2>4
<1>. QED
  BY <1>5, <1>6

(* What memory_free does: the block at b of order o, once held, and its     *)
(* buddies up to the order l become one free block.                         *)
Path(u, b, o, l) == {k \in o .. l : Ancestor(b, k) = u}

FreeAt(b, o, l) ==
    /\ o \in MIN_LEVEL .. max_order /\ l \in o .. max_order
    /\ \E a \in live : a.block = b /\ header[b].order = o
    /\ \A k \in o .. l - 1 : Merges(b, k)
    /\ l < max_order => ~ Merges(b, l)
    /\ free_blocks' =
          [k \in Orders |->
              IF k \in o .. l - 1 THEN free_blocks[k] \ {BuddyOf(Ancestor(b, k), k)}
              ELSE IF k = l THEN free_blocks[k] \cup {Ancestor(b, k)}
              ELSE free_blocks[k]]
    /\ header' =
          [u \in DOMAIN header |->
              IF Path(u, b, o, l) # {} THEN [order |-> Max(Path(u, b, o, l)), status |-> "FREE"]
              ELSE header[u]]
    /\ live' = {a \in live : a.block # b}

LEMMA FreeIs ==
    ASSUME BuddyAssumption, HalvesInv, NEW b \in DOMAIN header, Free(b)
    PROVE  /\ \E o, l : FreeAt(b, o, l) /\ o \in Orders
                        /\ used_memory' = IF used_memory >= Size(o)
                                          THEN used_memory - Size(o) ELSE used_memory
           /\ max_order' = max_order /\ start' = start
<1> DEFINE o == header[b].order
           l == MergedOrder(b, o)
           M == {k \in o .. max_order : \A j \in o .. k - 1 : Merges(b, j)}
<1>1. /\ header[b] # UserData /\ header[b].status = "OCCUPIED"
      /\ o \in MIN_LEVEL .. max_order
      /\ free_blocks' =
            [k \in Orders |->
                IF k \in o .. l - 1 THEN free_blocks[k] \ {BuddyOf(Ancestor(b, k), k)}
                ELSE IF k = l THEN free_blocks[k] \cup {Ancestor(b, k)}
                ELSE free_blocks[k]]
      /\ header' =
            [u \in DOMAIN header |->
                IF Path(u, b, o, l) # {}
                THEN [order |-> Max(Path(u, b, o, l)), status |-> "FREE"]
                ELSE header[u]]
      /\ live' = {a \in live : a.block # b}
  BY Zenon DEF Free, Path
<1>2. /\ max_order' = max_order /\ start' = start
      /\ used_memory' = IF used_memory >= Size(o) THEN used_memory - Size(o) ELSE used_memory
  BY Zenon DEF Free
<1>3. /\ max_order \in Orders /\ max_order \in Nat /\ MIN_LEVEL \in Nat /\ MAX_ORDER \in Nat
      /\ max_order <= MAX_ORDER - 1
      /\ header \in [Units(max_order) -> HeaderType \cup {UserData}]
  BY Sizes DEF HalvesInv, TypeInv, Orders
<1>4. \E a \in live : a.block = b
  <2>1. b \in Units(max_order)
    BY <1>3
  <2>. QED
    BY <1>1, <2>1, Zenon DEF HalvesInv, HeadersTell
<1>5. o \in Nat /\ o \in Orders /\ o <= max_order
  BY <1>1, <1>3 DEF Orders
<1>6. l = Max(M)
  BY DEF MergedOrder
<1>. HIDE DEF o, l
<1>7. l \in M /\ \A k \in M : l >= k
  <2>1. o \in M /\ M \subseteq Nat /\ \A k \in M : k <= max_order
    BY <1>3, <1>5
  <2>. QED
    BY <1>3, <1>6, <2>1, LargestNumber
<1>8. l \in o .. max_order /\ \A j \in o .. l - 1 : Merges(b, j)
  BY <1>7
<1>9. l < max_order => ~ Merges(b, l)
  <2>1. SUFFICES ASSUME l < max_order, Merges(b, l)
                 PROVE  FALSE
    OBVIOUS
  <2>2. l + 1 \in o .. max_order /\ ~ l >= l + 1
    BY <1>3, <1>5, <1>8, <2>1
  <2>3. \A j \in o .. (l + 1) - 1 : j \in o .. l - 1 \/ j = l
    BY <1>5, <1>8
  <2>4. l + 1 \in M
    BY <1>8, <2>1, <2>2, <2>3
  <2>. QED
    BY <1>7, <2>2, <2>4
<1>10. FreeAt(b, o, l)
  BY <1>1, <1>4, <1>8, <1>9, Zenon DEF FreeAt, o
<1>. QED
  BY <1>2, <1>5, <1>10, Zenon

(* A header that says "free" where a buddy would start is that of a block,  *)
(* not one left over.                                                       *)
LEMMA MergesTell ==
    ASSUME BuddyAssumption, HalvesInv, NEW a \in live, NEW k \in header[a.block].order .. max_order - 1,
           header[a.block].order \in MIN_LEVEL .. max_order, Merges(a.block, k)
    PROVE  BuddyOf(Ancestor(a.block, k), k) \in free_blocks[k]
<1> DEFINE b == a.block
           o == header[b].order
           p == BlockOf(a)
           q == Beside(b, k)
<1>1. /\ p \in Blocks /\ p.at = b /\ p.order = o /\ b \in Units(max_order)
      /\ \A r \in Blocks, s \in Blocks, u \in Nat : Inside(u, r) /\ Inside(u, s) => r = s
      /\ Blocks \subseteq Pieces(max_order) /\ Inside(p.at, p)
  BY BlocksAre
<1>2. /\ max_order \in Orders /\ max_order \in Nat /\ MIN_LEVEL \in Nat /\ o \in Nat
      /\ k \in MIN_LEVEL .. max_order - 1 /\ k + 1 \in MIN_LEVEL .. max_order /\ k \in Nat
      /\ o <= k
  BY Sizes DEF HalvesInv, TypeInv
<1>3. b \in 0 .. Size(max_order) - 1 /\ b \in Nat
  BY <1>1, <1>2, UnitsAre, Sizes
<1>4. /\ q \in Pieces(max_order) /\ q.at = BuddyOf(Ancestor(b, k), k) /\ q.order = k
      /\ \A u \in Nat : Inside(u, Around(b, k + 1))
                           <=> Inside(u, Around(b, k)) \/ Inside(u, q)
  BY <1>2, <1>3, BesideIs
<1>5. /\ Around(b, k + 1) \in Pieces(max_order) /\ Inside(b, Around(b, k + 1))
      /\ Around(b, k + 1).order = k + 1
  BY <1>2, <1>3, AroundIs
<1>6. q.at \in Nat /\ Inside(q.at, q) /\ q.at \in 0 .. Size(max_order) - 1
  BY <1>2, <1>4, PieceType, Sizes
<1>7. header[q.at] = [order |-> k, status |-> "FREE"]
  BY <1>4 DEF Merges
<1>8. PICK r \in Blocks : Inside(q.at, r)
  BY <1>6 DEF HalvesInv, Tiling
<1>9. r \in Pieces(max_order) /\ r.at \in Nat /\ r.order \in Nat /\ r.order \in Orders
      /\ Size(r.order) \in Nat
  BY <1>1, <1>2, PieceType
<1>10. ~ r.order > k
  <2>1. SUFFICES ASSUME r.order > k
                 PROVE  FALSE
    OBVIOUS
  <2>2. Inside(q.at, Around(b, k + 1))
    BY <1>4, <1>6
  <2>3. Around(b, k + 1).order <= r.order
    BY <1>2, <1>5, <1>9, <2>1
  <2>4. \A v \in Nat : Inside(v, Around(b, k + 1)) => Inside(v, r)
    BY <1>2, <1>5, <1>6, <1>8, <1>9, <2>2, <2>3, Nested
  <2>5. Inside(b, r)
    BY <1>3, <1>5, <2>4
  <2>6. r = p
    BY <1>1, <1>3, <2>5, Zenon
  <2>. QED
    BY <1>1, <1>2, <2>1, <2>6
<1>11. r.at = q.at
  <2>1. r.order <= q.order
    BY <1>2, <1>4, <1>9, <1>10
  <2>2. q.at <= r.at
    BY <1>2, <1>4, <1>6, <1>8, <1>9, <2>1, Nested
  <2>. QED
    BY <1>6, <1>8, <1>9, <2>2 DEF Inside
<1>12. CASE r \in FreeBlocks
  <2>1. PICK j \in Orders : \E d \in free_blocks[j] : r = [at |-> d, order |-> j]
    BY <1>12 DEF FreeBlocks
  <2>2. PICK d \in free_blocks[j] : r = [at |-> d, order |-> j]
    BY <2>1
  <2>3. d = q.at
    BY <1>11, <2>2
  <2>4. header[d] = [order |-> j, status |-> "FREE"]
    BY <2>2, Zenon DEF HalvesInv, HeadersTell
  <2>5. j = k
    BY <1>7, <2>3, <2>4
  <2>. QED
    BY <1>4, <2>2, <2>3, <2>5
<1>13. CASE r \in HeldBlocks
  <2>1. PICK c \in live : r = BlockOf(c)
    BY <1>13 DEF HeldBlocks
  <2>2. c.block = q.at
    BY <1>11, <2>1 DEF BlockOf
  <2>3. header[c.block].status = "OCCUPIED"
    BY <2>1, Zenon DEF HalvesInv, HeadersTell
  <2>. QED
    BY <1>7, <2>2, <2>3
<1>. QED
  BY <1>8, <1>12, <1>13 DEF Blocks

LEMMA FreeTiles ==
    ASSUME BuddyAssumption, HalvesInv, max_order' = max_order,
           NEW b, NEW o, NEW l, FreeAt(b, o, l)
    PROVE  /\ Tiling(Blocks, max_order)'
           /\ HeadersTell' /\ OneHolder' /\ HalvesApart'
           /\ free_blocks' \in [Orders -> SUBSET Nat]
           /\ header' \in [Units(max_order) -> HeaderType \cup {UserData}]
           /\ \A a \in live' : header'[a.block] = header[a.block]
<1> DEFINE c == Around(b, l)
<1>1. /\ max_order \in Orders /\ max_order \in Nat /\ MIN_LEVEL \in Nat /\ MAX_ORDER \in Nat
      /\ max_order <= MAX_ORDER - 1
      /\ free_blocks \in [Orders -> SUBSET Nat]
      /\ header \in [Units(max_order) -> HeaderType \cup {UserData}]
      /\ DOMAIN header = Units(max_order)
      /\ live \subseteq [block : Units(max_order), size : Requests]
      /\ Tiling(Blocks, max_order)
  BY Sizes DEF HalvesInv, TypeInv, Orders
<1>2. PICK a0 \in live : a0.block = b /\ header[b].order = o
  BY DEF FreeAt
<1> DEFINE p0 == BlockOf(a0)
<1>3. /\ p0 \in Blocks /\ p0 \in HeldBlocks /\ p0.at = b /\ p0.order = o
      /\ b \in Units(max_order) /\ Inside(b, p0)
      /\ Blocks \subseteq Pieces(max_order) /\ p0 \in Pieces(max_order)
      /\ \A r \in Blocks, s \in Blocks, u \in Nat : Inside(u, r) /\ Inside(u, s) => r = s
  BY <1>2, BlocksAre DEF HeldBlocks
<1>4. b \in Nat /\ b \in 0 .. Size(max_order) - 1
  BY <1>1, <1>3, UnitsAre, Sizes
<1>5. /\ o \in MIN_LEVEL .. max_order /\ l \in o .. max_order /\ o \in Nat /\ l \in Nat
      /\ o <= l /\ l <= max_order /\ l \in MIN_LEVEL .. max_order
      /\ o \in Orders /\ l \in Orders
      /\ \A k \in o .. l - 1 : Merges(b, k)
      /\ l < max_order => ~ Merges(b, l)
  <2>1. o \in MIN_LEVEL .. max_order /\ l \in o .. max_order
    BY DEF FreeAt
  <2>2. o \in Nat /\ l \in Nat /\ o <= l /\ l <= max_order /\ l \in MIN_LEVEL .. max_order
    BY <1>1, <2>1
  <2>3. o \in Orders /\ l \in Orders
    BY <1>1, <2>1, <2>2 DEF Orders
  <2>. QED
    BY <2>1, <2>2, <2>3 DEF FreeAt
<1>6. \A k \in o .. l : /\ k \in MIN_LEVEL .. max_order /\ k \in Nat /\ k <= l
                        /\ Around(b, k) \in Pieces(max_order) /\ Inside(b, Around(b, k))
                        /\ Around(b, k).at = Ancestor(b, k) /\ Around(b, k).order = k
                        /\ k \in Orders
  <2>1. ASSUME NEW k \in o .. l
        PROVE  k \in MIN_LEVEL .. max_order /\ k \in Nat /\ k <= l
    BY <1>1, <1>5
  <2>. QED
    BY <1>1, <1>4, <2>1, AroundIs
<1>7. /\ c \in Pieces(max_order) /\ Inside(b, c) /\ c.at = Ancestor(b, l) /\ c.order = l
      /\ l \in o .. l /\ o \in o .. l
  BY <1>5, <1>6
<1>8. ASSUME NEW k \in o .. l
      PROVE  \A v \in Nat : Inside(v, Around(b, k)) => Inside(v, c)
  <2>1. Around(b, k).order <= c.order
    BY <1>6, <1>7
  <2>. QED
    BY <1>1, <1>4, <1>6, <1>7, <2>1, Nested
<1>9. Around(b, o) = p0
  BY <1>1, <1>3, <1>4, <1>5, AroundIs
<1>10. ASSUME NEW k \in o .. l - 1
       PROVE  /\ BuddyOf(Ancestor(b, k), k) \in free_blocks[k] /\ k \in Orders
              /\ Beside(b, k) \in FreeBlocks /\ Beside(b, k) \in Blocks
              /\ Beside(b, k) = [at |-> BuddyOf(Ancestor(b, k), k), order |-> k]
              /\ Inside(Beside(b, k).at, c)
              /\ \A u \in Nat : Inside(u, Around(b, k + 1))
                                   <=> Inside(u, Around(b, k)) \/ Inside(u, Beside(b, k))
  <2>1. /\ k \in o .. l /\ k + 1 \in o .. l /\ k \in o .. max_order - 1
        /\ k \in MIN_LEVEL .. max_order - 1
    BY <1>1, <1>5
  <2>2. BuddyOf(Ancestor(b, k), k) \in free_blocks[k]
    BY <1>2, <1>5, <2>1, MergesTell
  <2>3. k \in Orders
    BY <1>6, <2>1
  <2>4. Beside(b, k) \in FreeBlocks /\ Beside(b, k) \in Blocks
    BY <2>2, <2>3 DEF Beside, FreeBlocks, Blocks
  <2>5. /\ Beside(b, k) \in Pieces(max_order)
        /\ \A u \in Nat : Inside(u, Around(b, k + 1))
                             <=> Inside(u, Around(b, k)) \/ Inside(u, Beside(b, k))
    BY <1>1, <1>4, <2>1, BesideIs
  <2>6. Beside(b, k).at \in Nat /\ Inside(Beside(b, k).at, Beside(b, k))
    BY <1>1, <2>5, PieceType
  <2>7. Inside(Beside(b, k).at, c)
    BY <1>8, <2>1, <2>5, <2>6
  <2>. QED
    BY <2>2, <2>3, <2>4, <2>5, <2>7 DEF Beside
<1>11. ASSUME NEW p \in Blocks, Inside(p.at, c)
       PROVE  p = p0 \/ \E k \in o .. l - 1 : p = Beside(b, k)
  <2> DEFINE T == {k \in o .. l : Inside(p.at, Around(b, k))}
             t == Min(T)
  <2>1. p.at \in Nat /\ Inside(p.at, p)
    BY BlocksAre
  <2>2. T \subseteq Nat /\ l \in T
    BY <1>6, <1>7, <1>11
  <2>3. t \in T /\ \A k \in T : t <= k
    BY <2>2, LeastNumber
  <2>. HIDE DEF t
  <2>4. t \in o .. l /\ t \in Nat /\ Inside(p.at, Around(b, t))
    BY <2>2, <2>3
  <2>5. CASE t = o
    BY <1>3, <1>9, <2>1, <2>4, <2>5
  <2>6. CASE t # o
    <3>1. t - 1 \in o .. l - 1 /\ t - 1 \in o .. l /\ ~ t <= t - 1 /\ (t - 1) + 1 = t
      BY <1>5, <2>4, <2>6
    <3>2. t - 1 \notin T
      BY <2>3, <3>1, Zenon
    <3>3. ~ Inside(p.at, Around(b, t - 1))
      BY <3>1, <3>2
    <3>4. Inside(p.at, Around(b, (t - 1) + 1))
      BY <2>4, <3>1
    <3>5. Inside(p.at, Beside(b, t - 1)) /\ Beside(b, t - 1) \in Blocks
      BY <1>10, <2>1, <3>1, <3>3, <3>4
    <3>6. p = Beside(b, t - 1)
      BY <1>3, <2>1, <3>5, Zenon
    <3>. QED
      BY <3>1, <3>6
  <2>. QED
    BY <2>5, <2>6
<1>12. ASSUME NEW u \in Units(max_order), ~ Inside(u, c)
       PROVE  header'[u] = header[u]
  <2>1. ASSUME NEW k \in o .. l, Ancestor(b, k) = u
        PROVE  FALSE
    <3>1. u \in Nat /\ Inside(u, Around(b, k))
      BY <1>1, <1>6, <2>1, PieceType
    <3>. QED
      BY <1>8, <1>12, <3>1
  <2>2. Path(u, b, o, l) = {}
    BY <2>1 DEF Path
  <2>. QED
    BY <1>1, <2>2 DEF FreeAt
<1>13. \A u \in Units(max_order) : Path(u, b, o, l) # {} =>
          /\ header'[u] = [order |-> Max(Path(u, b, o, l)), status |-> "FREE"]
          /\ Max(Path(u, b, o, l)) \in Path(u, b, o, l)
          /\ \A k \in Path(u, b, o, l) : Max(Path(u, b, o, l)) >= k
  <2>1. ASSUME NEW u \in Units(max_order), Path(u, b, o, l) # {}
        PROVE  /\ Max(Path(u, b, o, l)) \in Path(u, b, o, l)
               /\ \A k \in Path(u, b, o, l) : Max(Path(u, b, o, l)) >= k
    <3>1. Path(u, b, o, l) \subseteq Nat /\ \A k \in Path(u, b, o, l) : k <= l
      BY <1>6 DEF Path
    <3>. QED
      BY <1>5, <2>1, <3>1, LargestNumber
  <2>. QED
    BY <1>1, <2>1 DEF FreeAt
<1>14. c.at \in Units(max_order) /\ c.at \in Nat /\ Inside(c.at, c)
  BY <1>1, <1>7, PieceInUnits, PieceType
<1>15. header'[c.at] = [order |-> l, status |-> "FREE"]
  <2> DEFINE S == Path(c.at, b, o, l)
             x == Max(S)
  <2>1. l \in S /\ \A k \in S : k \in Nat /\ k <= l
    BY <1>6, <1>7 DEF Path
  <2>2. header'[c.at] = [order |-> x, status |-> "FREE"] /\ x \in S /\ \A k \in S : x >= k
    BY <1>13, <1>14, <2>1
  <2>. HIDE DEF x, S
  <2>3. x = l
    BY <1>5, <2>1, <2>2
  <2>. QED
    BY <2>2, <2>3
<1>16. /\ \A k \in o .. l - 1 : free_blocks'[k] = free_blocks[k] \ {BuddyOf(Ancestor(b, k), k)}
       /\ free_blocks'[l] = free_blocks[l] \union {c.at}
       /\ \A k \in Orders : k \notin o .. l => free_blocks'[k] = free_blocks[k]
       /\ live' = {a \in live : a.block # b}
  <2>1. /\ free_blocks' =
              [k \in Orders |->
                  IF k \in o .. l - 1 THEN free_blocks[k] \ {BuddyOf(Ancestor(b, k), k)}
                  ELSE IF k = l THEN free_blocks[k] \cup {Ancestor(b, k)}
                  ELSE free_blocks[k]]
        /\ live' = {a \in live : a.block # b}
    BY DEF FreeAt
  <2>2. \A k \in Orders : k \notin o .. l => k # l /\ k \notin o .. l - 1
    BY <1>5
  <2>3. \A k \in o .. l - 1 : k \in Orders
    BY <1>10
  <2>4. l \notin o .. l - 1
    BY <1>5
  <2>. HIDE DEF c
  <2>. QED
    BY <1>5, <1>7, <2>1, <2>2, <2>3, <2>4
<1>17. free_blocks' \in [Orders -> SUBSET Nat]
  <2>1. \A k \in Orders : free_blocks'[k] \in SUBSET Nat
    <3>1. ASSUME NEW k \in Orders
          PROVE  free_blocks'[k] \subseteq free_blocks[k] \union {c.at}
      <4>1. k \in o .. l - 1 \/ k = l \/ k \notin o .. l
        BY <1>5, Sizes
      <4>. QED
        BY <1>16, <4>1
    <3>. QED
      BY <1>1, <1>14, <3>1
  <2>2. free_blocks' = [k \in Orders |-> free_blocks'[k]]
    BY DEF FreeAt
  <2>. QED
    BY <2>1, <2>2
<1>18. header' \in [Units(max_order) -> HeaderType \cup {UserData}]
  <2>1. ASSUME NEW u \in Units(max_order)
        PROVE  header'[u] \in HeaderType \cup {UserData}
    <3>1. CASE Path(u, b, o, l) = {}
      BY <1>1, <3>1 DEF FreeAt
    <3>2. CASE Path(u, b, o, l) # {}
      <4>1. Max(Path(u, b, o, l)) \in Orders
        BY <1>6, <1>13, <3>2 DEF Path
      <4>2. header'[u] = [order |-> Max(Path(u, b, o, l)), status |-> "FREE"]
        BY <1>13, <3>2
      <4>3. [order |-> Max(Path(u, b, o, l)), status |-> "FREE"] \in HeaderType
        BY <4>1 DEF HeaderType
      <4>. QED
        BY <4>2, <4>3
    <3>. QED
      BY <3>1, <3>2
  <2>2. header' = [u \in Units(max_order) |-> header'[u]]
    BY <1>1 DEF FreeAt
  <2>. QED
    BY <2>1, <2>2
<1>19. ASSUME NEW k \in Orders, NEW d \in Nat
       PROVE  d \in free_blocks'[k] <=> \/ d \in free_blocks[k] /\ ~ Inside(d, c)
                                        \/ k = l /\ d = c.at
  <2>1. ASSUME d \in free_blocks[k], Inside(d, c)
        PROVE  k \in o .. l - 1 /\ d = BuddyOf(Ancestor(b, k), k)
    <3> DEFINE q == [at |-> d, order |-> k]
    <3>1. q \in Blocks /\ q \in FreeBlocks /\ Inside(q.at, c)
      BY <2>1, BlocksAre DEF FreeBlocks
    <3>2. q # p0
      BY <1>3, <3>1, BlocksAre
    <3>3. PICK j \in o .. l - 1 : q = Beside(b, j)
      BY <1>11, <3>1, <3>2
    <3>. QED
      BY <1>10, <3>3
  <2>2. ASSUME k \in o .. l - 1
        PROVE  Inside(BuddyOf(Ancestor(b, k), k), c)
    <3>1. Beside(b, k).at = BuddyOf(Ancestor(b, k), k)
      BY DEF Beside
    <3>. QED
      BY <1>10, <2>2, <3>1
  <2>3. CASE k \in o .. l - 1
    <3>1. k # l
      BY <1>5, <2>3
    <3>. HIDE DEF c
    <3>. QED
      BY <1>16, <2>1, <2>2, <2>3, <3>1
  <2>4. CASE k = l
    <3>1. k \notin o .. l - 1
      BY <1>5, <2>4
    <3>. HIDE DEF c
    <3>. QED
      BY <1>16, <2>1, <2>4, <3>1
  <2>5. CASE k \notin o .. l
    <3>1. k \notin o .. l - 1 /\ k # l
      BY <1>5, <2>5
    <3>. HIDE DEF c
    <3>. QED
      BY <1>16, <2>1, <2>5, <3>1
  <2>6. k \in o .. l - 1 \/ k = l \/ k \notin o .. l
    BY <1>5, Sizes
  <2>. QED
    BY <2>3, <2>4, <2>5, <2>6
<1>20. ASSUME NEW a \in live
       PROVE  /\ a \in live' <=> ~ Inside(a.block, c)
              /\ a.block \in Units(max_order) /\ BlockOf(a) \in Blocks
              /\ BlockOf(a).at = a.block
              /\ a \in live' => header'[a.block] = header[a.block]
  <2>1. BlockOf(a) \in Blocks /\ BlockOf(a).at = a.block /\ BlockOf(a) \in HeldBlocks
        /\ a.block \in Units(max_order)
    BY BlocksAre DEF HeldBlocks
  <2>2. ASSUME Inside(a.block, c)
        PROVE  a.block = b
    <3>1. BlockOf(a) = p0 \/ \E k \in o .. l - 1 : BlockOf(a) = Beside(b, k)
      BY <1>11, <2>1, <2>2
    <3>2. \A k \in o .. l - 1 : BlockOf(a) # Beside(b, k)
      BY <1>10, <2>1, BlocksAre
    <3>. QED
      BY <1>3, <2>1, <3>1, <3>2
  <2>3. a.block = b => Inside(a.block, c)
    BY <1>7
  <2>4. a \in live' <=> a.block # b
    BY <1>16
  <2>. QED
    BY <1>12, <2>1, <2>2, <2>3, <2>4
<1>21. FreeBlocks' = {q \in FreeBlocks : ~ Inside(q.at, c)} \union {c}
  <2>1. ASSUME NEW q
        PROVE  q \in FreeBlocks' <=> \E k \in Orders, d \in Nat :
                   q = [at |-> d, order |-> k] /\ d \in free_blocks'[k]
    BY <1>17 DEF FreeBlocks
  <2>2. ASSUME NEW q
        PROVE  q \in FreeBlocks <=> \E k \in Orders, d \in Nat :
                   q = [at |-> d, order |-> k] /\ d \in free_blocks[k]
    BY <1>1 DEF FreeBlocks
  <2>3. ASSUME NEW q, NEW k \in Orders, NEW d \in Nat, q = [at |-> d, order |-> k]
        PROVE  /\ q \in FreeBlocks' <=> d \in free_blocks'[k]
               /\ q \in FreeBlocks  <=> d \in free_blocks[k]
               /\ q.at = d
    BY <2>1, <2>2, <2>3
  <2>4. c = [at |-> c.at, order |-> l]
    BY <1>7 DEF Around
  <2>5. ASSUME NEW q, NEW k \in Orders, NEW d \in Nat, q = [at |-> d, order |-> k]
        PROVE  q = c <=> k = l /\ d = c.at
    BY <2>4, <2>5
  <2>. HIDE DEF c
  <2>6. ASSUME NEW q, NEW k \in Orders, NEW d \in Nat, q = [at |-> d, order |-> k]
        PROVE  q \in FreeBlocks' <=> q \in {r \in FreeBlocks : ~ Inside(r.at, c)} \union {c}
    <3>1. d \in free_blocks'[k] <=> \/ d \in free_blocks[k] /\ ~ Inside(d, c)
                                    \/ k = l /\ d = c.at
      BY <1>19
    <3>2. /\ q \in FreeBlocks' <=> d \in free_blocks'[k]
          /\ q \in FreeBlocks  <=> d \in free_blocks[k]
          /\ q.at = d
          /\ q = c <=> k = l /\ d = c.at
      BY <2>3, <2>5, <2>6
    <3>. HIDE <2>6
    <3>. QED
      BY <3>1, <3>2
  <2>7. ASSUME NEW q, ~ \E k \in Orders, d \in Nat : q = [at |-> d, order |-> k]
        PROVE  q \notin FreeBlocks' /\ q \notin FreeBlocks /\ q # c
    <3>1. q \notin FreeBlocks'
      BY <2>1, <2>7, Zenon
    <3>2. q \notin FreeBlocks
      BY <2>2, <2>7, Zenon
    <3>3. q # c
      <4>1. ASSUME q = c
            PROVE  q = [at |-> c.at, order |-> l]
        BY <2>4, <4>1
      <4>. QED
        BY <1>5, <1>14, <2>7, <4>1, Zenon
    <3>. QED
      BY <3>1, <3>2, <3>3
  <2>8. \A q : q \in FreeBlocks' <=> q \in {r \in FreeBlocks : ~ Inside(r.at, c)} \union {c}
    BY <2>6, <2>7
  <2>. QED
    BY <2>8
<1>22. HeldBlocks' = {q \in HeldBlocks : ~ Inside(q.at, c)}
  <2>1. ASSUME NEW a \in live'
        PROVE  a \in live /\ BlockOf(a)' = BlockOf(a)
    <3>1. a \in live
      BY <1>16, <2>1
    <3>. QED
      BY <1>20, <2>1, <3>1 DEF BlockOf
  <2>2. HeldBlocks' = {BlockOf(a)' : a \in live'}
    BY DEF HeldBlocks
  <2>3. \A a \in live : a \in live' <=> ~ Inside(BlockOf(a).at, c)
    BY <1>20
  <2>. HIDE DEF c
  <2>4. ASSUME NEW q
        PROVE  q \in HeldBlocks' <=> q \in HeldBlocks /\ ~ Inside(q.at, c)
    <3>1. ASSUME q \in HeldBlocks'
          PROVE  q \in HeldBlocks /\ ~ Inside(q.at, c)
      <4>1. PICK a \in live' : q = BlockOf(a)'
        BY <2>2, <3>1
      <4>2. a \in live /\ q = BlockOf(a)
        BY <2>1, <4>1
      <4>. QED
        BY <2>3, <4>2 DEF HeldBlocks
    <3>2. ASSUME q \in HeldBlocks, ~ Inside(q.at, c)
          PROVE  q \in HeldBlocks'
      <4>1. PICK a \in live : q = BlockOf(a)
        BY <3>2 DEF HeldBlocks
      <4>2. a \in live'
        BY <2>3, <3>2, <4>1
      <4>3. q = BlockOf(a)'
        BY <2>1, <4>1, <4>2
      <4>. QED
        BY <2>2, <4>2, <4>3
    <3>. QED
      BY <3>1, <3>2
  <2>. QED
    BY <2>4
<1>23. Tiling(Blocks, max_order)'
  <2>1. Blocks' = {q \in Blocks : ~ Inside(q.at, c)} \union {c}
    BY <1>21, <1>22 DEF Blocks
  <2>2. p0.order <= c.order /\ Inside(p0.at, c)
    BY <1>3, <1>5, <1>7
  <2>3. Tiling({q \in Blocks : ~ Inside(q.at, c)} \union {c}, max_order)
    BY <1>1, <1>3, <1>7, <2>2, MergeTiling
  <2>4. Tiling(Blocks', max_order)
    BY <2>1, <2>3
  <2>. QED
    BY <2>4 DEF Tiling, Pieces, Inside, Multiple
<1>24. HeadersTell'
  <2>1. ASSUME NEW k \in Orders, NEW d \in free_blocks'[k]
        PROVE  header'[d] = [order |-> k, status |-> "FREE"]
    <3>1. d \in Nat
      BY <1>17
    <3>2. CASE k = l /\ d = c.at
      BY <1>15, <3>2
    <3>3. CASE d \in free_blocks[k] /\ ~ Inside(d, c)
      <4>1. d \in Units(max_order)
        BY <3>3, BlocksAre
      <4>2. header[d] = [order |-> k, status |-> "FREE"]
        BY <3>3, Zenon DEF HalvesInv, HeadersTell
      <4>. QED
        BY <1>12, <3>3, <4>1, <4>2
    <3>. QED
      BY <1>19, <3>1, <3>2, <3>3
  <2>2. ASSUME NEW a \in live'
        PROVE  header'[a.block] \in HeaderType /\ header'[a.block].status = "OCCUPIED"
    <3>1. a \in live
      BY <1>16
    <3>2. header[a.block] \in HeaderType /\ header[a.block].status = "OCCUPIED"
      BY <3>1, Zenon DEF HalvesInv, HeadersTell
    <3>. QED
      BY <1>20, <3>1, <3>2
  <2>3. ASSUME NEW u \in Units(max_order), header'[u] # UserData,
               header'[u].status = "OCCUPIED"
        PROVE  \E a \in live' : a.block = u
    <3>1. Path(u, b, o, l) = {}
      <4>1. ASSUME Path(u, b, o, l) # {}
            PROVE  FALSE
        <5>1. header'[u] = [order |-> Max(Path(u, b, o, l)), status |-> "FREE"]
          BY <1>13, <4>1
        <5>2. header'[u].status = "FREE"
          BY <5>1
        <5>. QED
          BY <2>3, <5>2
      <4>. QED
        BY <4>1
    <3>2. header'[u] = header[u]
      BY <1>1, <3>1 DEF FreeAt
    <3>3. PICK a \in live : a.block = u
      BY <2>3, <3>2, Zenon DEF HalvesInv, HeadersTell
    <3>4. u # b
      <4>1. Ancestor(b, o) = b
        BY <1>3, <1>6, <1>7, <1>9
      <4>. QED
        BY <1>7, <3>1, <4>1 DEF Path
    <3>. QED
      BY <1>16, <3>3, <3>4
  <2>. QED
    BY <2>1, <2>2, <2>3 DEF HeadersTell, Units
<1>25. OneHolder'
  BY <1>16 DEF HalvesInv, OneHolder
<1>26. HalvesApart'
  <2>1. SUFFICES ASSUME NEW k \in MIN_LEVEL .. max_order - 1, NEW d \in free_blocks'[k],
                        BuddyOf(d, k) \in free_blocks'[k]
                 PROVE  FALSE
    BY DEF HalvesApart, BuddyOf, Size
  <2>2. k \in Orders /\ Size(k) \in Nat \ {0} /\ d \in Nat /\ BuddyOf(d, k) \in Nat
    BY <1>1, <1>17, <2>1, Sizes DEF Orders
  <2>3. ~ (d \in free_blocks[k] /\ BuddyOf(d, k) \in free_blocks[k])
    BY <2>1 DEF HalvesInv, HalvesApart
  <2>4. k = l /\ (d = c.at \/ BuddyOf(d, k) = c.at)
    <3>. HIDE DEF c
    <3>. QED
      BY <1>19, <2>1, <2>2, <2>3
  <2>5. l < max_order /\ ~ Merges(b, l)
    BY <1>1, <1>5, <2>1, <2>4
  <2>6. BuddyOf(c.at, l) \notin free_blocks[l]
    <3> DEFINE e == BuddyOf(c.at, l)
    <3>1. SUFFICES ASSUME e \in free_blocks[l]
                   PROVE  FALSE
      OBVIOUS
    <3>2. e \in Units(max_order)
      BY <1>5, <3>1, BlocksAre
    <3>3. e < Size(max_order)
      BY <1>1, <3>2, UnitsAre
    <3>4. header[e] = [order |-> l, status |-> "FREE"]
      BY <1>5, <3>1, Zenon DEF HalvesInv, HeadersTell
    <3>5. e = BuddyOf(Ancestor(b, l), l)
      BY <1>7
    <3>. HIDE DEF e
    <3>. QED
      BY <2>5, <3>3, <3>4, <3>5 DEF Merges, total_memory
  <2>7. c.at \notin free_blocks[l]
    <3>1. SUFFICES ASSUME c.at \in free_blocks[l]
                   PROVE  FALSE
      OBVIOUS
    <3> DEFINE q == [at |-> c.at, order |-> l]
    <3>2. q \in Blocks /\ q \in FreeBlocks
      BY <1>5, <3>1, BlocksAre DEF FreeBlocks
    <3>3. q # p0 /\ Inside(q.at, c)
      BY <1>3, <1>14, <3>2, BlocksAre
    <3>4. PICK k1 \in o .. l - 1 : q = Beside(b, k1)
      BY <1>11, <3>2, <3>3
    <3>5. l = k1
      BY <1>10, <3>4
    <3>. QED
      BY <1>5, <3>5
  <2>8. Multiple(c.at, Size(l)) /\ BuddyOf(c.at, l) # c.at
    <3>1. Multiple(c.at, Size(l))
      BY <1>1, <1>7, PieceType
    <3>. QED
      BY <1>14, <2>2, <2>4, <3>1 DEF BuddyOf
  <2>9. \A x \in Nat : x \in free_blocks'[l] => x \in free_blocks[l] \/ x = c.at
    <3>. HIDE DEF c
    <3>. QED
      BY <1>16
  <2>10. CASE d = c.at
    BY <2>1, <2>2, <2>4, <2>6, <2>8, <2>9, <2>10
  <2>11. CASE BuddyOf(d, k) = c.at
    <3>1. d # c.at
      BY <2>4, <2>8, <2>11
    <3>2. d \in free_blocks[l]
      BY <2>1, <2>2, <2>4, <2>9, <3>1
    <3>3. [at |-> d, order |-> l] \in Pieces(max_order)
      BY <1>3, <1>5, <3>2, BlocksAre
    <3>4. Multiple([at |-> d, order |-> l].at, Size([at |-> d, order |-> l].order))
      BY <1>1, <3>3, PieceType
    <3>5. BuddyOf(BuddyOf(d, l), l) = d
      BY <1>5, <3>4, BuddyOfBuddy
    <3>6. BuddyOf(c.at, l) = d
      BY <2>4, <2>11, <3>5
    <3>. QED
      BY <2>6, <3>2, <3>6
  <2>. QED
    BY <2>4, <2>10, <2>11
<1>27. \A a \in live' : header'[a.block] = header[a.block]
  BY <1>16, <1>20
<1>. QED
  BY <1>17, <1>18, <1>23, <1>24, <1>25, <1>26, <1>27

LEMMA HalvesInvHolds == ASSUME BuddyAssumption PROVE Spec => []HalvesInv
<1>1. ASSUME HalvesInv, [Next]_vars
      PROVE  HalvesInv'
  <2>1. CASE UNCHANGED vars
    <3>1. TypeInv'
      BY <1>1, <2>1, Zenon DEF HalvesInv, TypeInv, vars, total_memory, Units, Size
    <3>2. Blocks' = Blocks
      BY <2>1 DEF Blocks, FreeBlocks, HeldBlocks, BlockOf, vars
    <3>3. Tiling(Blocks, max_order)'
      <4>1. Tiling(Blocks', max_order')
        BY <1>1, <2>1, <3>2 DEF HalvesInv, vars
      <4>. QED
        BY <4>1 DEF Tiling, Pieces, Inside, Multiple
    <3>4. HeadersTell' /\ OneHolder' /\ HalvesApart'
      BY <1>1, <2>1, Zenon DEF HalvesInv, HeadersTell, OneHolder, HalvesApart, vars, Units,
                              BuddyOf, Size
    <3>. QED
      BY <3>1, <3>3, <3>4 DEF HalvesInv
  <2>2. ASSUME NEW size \in Requests, Alloc(size)
        PROVE  HalvesInv'
    <3>1. TypeInv
      BY <1>1 DEF HalvesInv
    <3> DEFINE k0 == OrderFor(size)
    <3>2. /\ \E o, b : AllocBlocks(size, o, b, k0)
          /\ max_order' = max_order /\ start' = start
          /\ used_memory' = IF used_memory + Size(k0) <= total_memory
                            THEN used_memory + Size(k0) ELSE used_memory
      BY <2>2, <3>1, AllocIs
    <3>. HIDE DEF k0
    <3>3. PICK o, b : AllocBlocks(size, o, b, k0)
      BY <3>2
    <3>4. /\ Tiling(Blocks, max_order)'
          /\ HeadersTell' /\ OneHolder' /\ HalvesApart'
          /\ free_blocks' \in [Orders -> SUBSET Nat]
          /\ header' \in [Units(max_order) -> HeaderType \cup {UserData}]
          /\ b \in Units(max_order)
      BY <1>1, <3>2, <3>3, AllocTiles
    <3>5. live' \subseteq [block : Units(max_order), size : Requests]
      BY <3>1, <3>3, <3>4 DEF AllocBlocks, TypeInv
    <3>6. used_memory' \in 0 .. total_memory
      <4>1. k0 \in Orders
        BY <3>3 DEF AllocBlocks
      <4>2. Size(k0) \in Nat /\ total_memory \in Nat
        BY <3>1, <4>1, Sizes DEF TypeInv, total_memory
      <4>. QED
        BY <3>1, <3>2, <4>2 DEF TypeInv
    <3>7. TypeInv'
      BY <3>1, <3>2, <3>4, <3>5, <3>6 DEF TypeInv, total_memory, Units, Size
    <3>. QED
      BY <3>4, <3>7 DEF HalvesInv
  <2>3. ASSUME NEW b \in DOMAIN header, Free(b)
        PROVE  HalvesInv'
    <3>1. TypeInv
      BY <1>1 DEF HalvesInv
    <3>2. max_order' = max_order /\ start' = start
      BY <1>1, <2>3, FreeIs
    <3>3. PICK o, l : /\ FreeAt(b, o, l) /\ o \in Orders
                      /\ used_memory' = IF used_memory >= Size(o)
                                        THEN used_memory - Size(o) ELSE used_memory
      BY <1>1, <2>3, FreeIs
    <3>4. /\ Tiling(Blocks, max_order)'
          /\ HeadersTell' /\ OneHolder' /\ HalvesApart'
          /\ free_blocks' \in [Orders -> SUBSET Nat]
          /\ header' \in [Units(max_order) -> HeaderType \cup {UserData}]
      BY <1>1, <3>2, <3>3, FreeTiles
    <3>5. live' \subseteq [block : Units(max_order), size : Requests]
      BY <3>1, <3>3 DEF FreeAt, TypeInv
    <3>6. used_memory' \in 0 .. total_memory
      <4>1. Size(o) \in Nat /\ total_memory \in Nat
        BY <3>1, <3>3, Sizes DEF TypeInv, total_memory
      <4>. QED
        BY <3>1, <3>3, <4>1 DEF TypeInv
    <3>7. TypeInv'
      BY <3>1, <3>2, <3>4, <3>5, <3>6 DEF TypeInv, total_memory, Units, Size
    <3>. QED
      BY <3>4, <3>7 DEF HalvesInv
  <2>. QED
    BY <1>1, <2>1, <2>2, <2>3 DEF Next
<1>2. Init => HalvesInv
  BY HalvesStart
<1>. QED
  BY <1>1, <1>2, PTL DEF Spec

---------------------------------------------------------------------------
(* Nothing is lost *)

LEMMA TheHeapIsTiled ==
    ASSUME BuddyAssumption, HalvesInv
    PROVE  BlocksTileTheHeap
<1> DEFINE ext(p) == [at |-> p.at, size |-> Size(p.order)]
<1>1. FreeExtents \cup LiveExtents = {ext(p) : p \in Blocks}
  <2>1. FreeExtents = {ext(p) : p \in FreeBlocks}
    <3>1. ASSUME NEW e
          PROVE  e \in FreeExtents <=> \E k \in Orders : \E b \in free_blocks[k] :
                                           e = [at |-> b, size |-> Size(k)]
      BY DEF FreeExtents
    <3>2. ASSUME NEW e
          PROVE  e \in {ext(p) : p \in FreeBlocks} <=>
                    \E k \in Orders : \E b \in free_blocks[k] :
                        e = [at |-> b, size |-> Size(k)]
      <4>1. \A k, b : ext([at |-> b, order |-> k]) = [at |-> b, size |-> Size(k)]
        OBVIOUS
      <4>2. \A p : p \in FreeBlocks <=> \E k \in Orders : \E b \in free_blocks[k] :
                                            p = [at |-> b, order |-> k]
        BY DEF FreeBlocks
      <4>. HIDE DEF ext
      <4>3. e \in {ext(p) : p \in FreeBlocks} <=> \E p \in FreeBlocks : e = ext(p)
        OBVIOUS
      <4>4. ASSUME NEW k \in Orders, NEW b \in free_blocks[k], e = [at |-> b, size |-> Size(k)]
            PROVE  \E p \in FreeBlocks : e = ext(p)
        <5>1. [at |-> b, order |-> k] \in FreeBlocks
          BY <4>2
        <5>. QED
          BY <4>1, <4>4, <5>1, Zenon
      <4>5. ASSUME NEW p \in FreeBlocks, e = ext(p)
            PROVE  \E k \in Orders : \E b \in free_blocks[k] : e = [at |-> b, size |-> Size(k)]
        <5>1. PICK k \in Orders : \E b \in free_blocks[k] : p = [at |-> b, order |-> k]
          BY <4>2
        <5>2. PICK b \in free_blocks[k] : p = [at |-> b, order |-> k]
          BY <5>1
        <5>3. e = [at |-> b, size |-> Size(k)]
          BY <4>1, <4>5, <5>2, Zenon
        <5>. QED
          BY <5>3
      <4>. QED
        BY <4>3, <4>4, <4>5, Zenon
    <3>. QED
      BY <3>1, <3>2
  <2>2. LiveExtents = {ext(p) : p \in HeldBlocks}
    <3>1. \A a : ext(BlockOf(a)) = [at |-> a.block, size |-> Size(header[a.block].order)]
      BY DEF BlockOf
    <3>. HIDE DEF ext
    <3>. QED
      BY <3>1 DEF LiveExtents, HeldBlocks
  <2>. QED
    BY <2>1, <2>2 DEF Blocks
<1>2. ASSUME NEW u \in Units(max_order)
      PROVE  Cardinality({e \in FreeExtents \cup LiveExtents :
                             e.at <= u /\ u < e.at + e.size}) = 1
  <2>1. max_order \in Orders /\ Tiling(Blocks, max_order)
    BY DEF HalvesInv, TypeInv
  <2>2. u \in Nat /\ u \in 0 .. Size(max_order) - 1
    BY <2>1, UnitsAre, Sizes
  <2>3. PICK p \in Blocks : Inside(u, p)
    BY <2>1, <2>2 DEF Tiling
  <2>4. \A q \in Blocks : Inside(u, q) => q = p
    BY <2>1, <2>2, <2>3 DEF Tiling
  <2>5. \A q : ext(q).at <= u /\ u < ext(q).at + ext(q).size <=> Inside(u, q)
    BY DEF Inside
  <2>. HIDE DEF ext
  <2>6. {e \in FreeExtents \cup LiveExtents : e.at <= u /\ u < e.at + e.size} = {ext(p)}
    BY <1>1, <2>3, <2>4, <2>5
  <2>. QED
    BY <2>6, FS_Singleton
<1>. QED
  BY <1>2 DEF BlocksTileTheHeap

LEMMA TheHalvesAreMerged ==
    ASSUME BuddyAssumption, HalvesInv
    PROVE  HalvesAreMerged
<1>1. /\ max_order \in Orders /\ max_order \in Nat /\ MIN_LEVEL \in Nat
      /\ Size(max_order) \in Nat \ {0}
      /\ free_blocks \in [Orders -> SUBSET Nat] /\ Tiling(Blocks, max_order)
      /\ Blocks \subseteq Pieces(max_order)
      /\ \A p \in Blocks, q \in Blocks, u \in Nat : Inside(u, p) /\ Inside(u, q) => p = q
  BY Sizes, BlocksAre DEF HalvesInv, TypeInv
<1>2. ASSUME live = {}
      PROVE  free_blocks[max_order] = {0}
  <2> DEFINE K == {k \in Orders : free_blocks[k] # {}}
             k == Min(K)
  <2>1. Blocks = FreeBlocks
    BY <1>2 DEF Blocks, HeldBlocks
  <2>2. \A p \in Blocks : p.order \in Orders /\ p.at \in free_blocks[p.order]
    BY <2>1 DEF FreeBlocks
  <2>3. K \subseteq Nat /\ K # {}
    <3>1. 0 \in 0 .. Size(max_order) - 1
      BY <1>1
    <3>2. PICK p \in Blocks : Inside(0, p)
      BY <1>1, <3>1 DEF Tiling
    <3>3. p.order \in K
      BY <2>2
    <3>. QED
      BY <3>3, Sizes
  <2>4. k \in K /\ \A j \in K : k <= j
    BY <2>3, LeastNumber
  <2>. HIDE DEF k
  <2>5. k \in Orders /\ k \in Nat /\ \A p \in Blocks : k <= p.order
    BY <2>2, <2>3, <2>4
  <2>6. PICK b \in free_blocks[k] : TRUE
    BY <2>4
  <2> DEFINE p == [at |-> b, order |-> k]
  <2>7. /\ p \in Blocks /\ p.at = b /\ p.order = k /\ Inside(b, p)
        /\ b \in Nat /\ b \in Units(max_order) /\ k \in MIN_LEVEL .. max_order
        /\ p \in Pieces(max_order)
    BY <1>1, <2>5, <2>6, BlocksAre
  <2>. HIDE DEF p
  <2>8. k = max_order
    <3>1. SUFFICES ASSUME k # max_order
                   PROVE  FALSE
      OBVIOUS
    <3>2. /\ k \in MIN_LEVEL .. max_order - 1 /\ k + 1 \in MIN_LEVEL .. max_order
          /\ b \in 0 .. Size(max_order) - 1
      BY <1>1, <2>5, <2>7, <3>1, UnitsAre
    <3> DEFINE q == Beside(b, k)
    <3>3. p = Around(b, k) /\ Ancestor(b, k) = b
      BY <1>1, <2>7, <3>2, AroundIs
    <3>4. /\ q \in Pieces(max_order) /\ q.order = k /\ q.at = BuddyOf(b, k)
          /\ \A u \in Nat : Inside(u, Around(b, k + 1))
                               <=> Inside(u, Around(b, k)) \/ Inside(u, q)
      BY <1>1, <3>2, <3>3, BesideIs
    <3>5. /\ Around(b, k + 1) \in Pieces(max_order) /\ Inside(b, Around(b, k + 1))
          /\ Around(b, k + 1).order = k + 1
      BY <1>1, <3>2, AroundIs
    <3>6. q.at \in Nat /\ Inside(q.at, q) /\ q.at \in 0 .. Size(max_order) - 1
      BY <1>1, <3>4, PieceType
    <3>7. PICK r \in Blocks : Inside(q.at, r)
      BY <1>1, <3>6 DEF Tiling
    <3>8. r \in Pieces(max_order) /\ r.order \in Nat /\ k <= r.order
      BY <1>1, <2>5, PieceType
    <3>9. CASE r.order = k
      <4>1. r = q
        BY <1>1, <2>5, <3>4, <3>6, <3>7, <3>8, <3>9, Nested
      <4>2. BuddyOf(b, k) \in free_blocks[k]
        BY <2>2, <3>4, <4>1
      <4>. QED
        BY <2>6, <3>2, <4>2 DEF HalvesInv, HalvesApart
    <3>10. CASE r.order # k
      <4>1. Around(b, k + 1).order <= r.order
        BY <2>5, <3>5, <3>8, <3>10
      <4>2. Inside(q.at, Around(b, k + 1))
        BY <3>4, <3>6
      <4>3. Inside(b, r)
        BY <1>1, <2>7, <3>5, <3>6, <3>7, <3>8, <4>1, <4>2, Nested
      <4>4. r = p
        BY <1>1, <2>7, <4>3, Zenon
      <4>. QED
        BY <2>7, <3>10, <4>4
    <3>. QED
      BY <3>9, <3>10
  <2>9. \A d \in free_blocks[max_order] : d = 0
    <3>1. ASSUME NEW d \in free_blocks[max_order]
          PROVE  d = 0
      <4> DEFINE q == [at |-> d, order |-> max_order]
      <4>1. q \in Pieces(max_order)
        BY <1>1, BlocksAre
      <4>2. q.at \in Nat /\ q.at + Size(q.order) <= Size(max_order)
        BY <1>1, <4>1, PieceType
      <4>. QED
        BY <1>1, <4>2
    <3>. QED
      BY <3>1
  <2>. QED
    BY <2>6, <2>8, <2>9
<1>. QED
  BY <1>2 DEF HalvesAreMerged, HalvesInv, HalvesApart

(* No sequence of requests and releases loses a block of the buddy manager  *)
(* or hands one out twice (split_block, merge, memory_free): the blocks     *)
(* cover the heap once, and whoever frees last merges the halves, so that   *)
(* freeing everything gives the whole heap back.                            *)
THEOREM HalvesAreNeverLost ==
    ASSUME BuddyAssumption
    PROVE  Spec => [](BlocksTileTheHeap /\ HalvesAreMerged)
<1>1. HalvesInv => BlocksTileTheHeap /\ HalvesAreMerged
  BY TheHeapIsTiled, TheHalvesAreMerged
<1>. QED
  BY <1>1, HalvesInvHolds, PTL

---------------------------------------------------------------------------
(* The promise of memory_manager.h *)

\* A block that is handed out has room for its header and the bytes asked for.
RoomInv ==
    /\ \A size \in Requests : size <= total_memory => size + Header <= total_memory
    /\ \A a \in live : a.size + Header <= Size(header[a.block].order)

LEMMA RoomInvHolds ==
    ASSUME BuddyAssumption, RequestsLeaveRoom
    PROVE  Spec => []RoomInv
<1>1. Init => RoomInv
  <2>1. ASSUME NEW addr \in Managed, HeapOrders(RoundUp(addr, 8)) # {},
               max_order = Max(HeapOrders(RoundUp(addr, 8)))
        PROVE  \A size \in Requests : size <= total_memory => size + Header <= total_memory
    BY <2>1 DEF RequestsLeaveRoom, total_memory
  <2>. QED
    BY <2>1 DEF Init, RoomInv
<1>2. ASSUME RoomInv, HalvesInv, [Next]_vars
      PROVE  RoomInv'
  <2>1. CASE UNCHANGED vars
    BY <1>2, <2>1 DEF RoomInv, vars, total_memory, Size
  <2>2. ASSUME NEW size \in Requests, Alloc(size)
        PROVE  RoomInv'
    <3> DEFINE k0 == OrderFor(size)
    <3>1. TypeInv
      BY <1>2 DEF HalvesInv
    <3>2. /\ \E o, b : AllocBlocks(size, o, b, k0)
          /\ max_order' = max_order /\ size <= total_memory
      BY <2>2, <3>1, AllocIs
    <3>3. size + Header <= Size(k0)
      BY <1>2, <3>1, <3>2, OrderForIs DEF RoomInv, TypeInv
    <3>. HIDE DEF k0
    <3>4. PICK o, b : AllocBlocks(size, o, b, k0)
      BY <3>2
    <3>5. /\ \A a \in live : header'[a.block] = header[a.block]
          /\ header'[b].order = k0
      BY <1>2, <3>2, <3>4, AllocTiles
    <3>6. live' = live \cup {[block |-> b, size |-> size]}
      BY <3>4 DEF AllocBlocks
    <3>7. ASSUME NEW a \in live'
          PROVE  a.size + Header <= Size(header'[a.block].order)
      <4>1. CASE a \in live
        BY <1>2, <3>5, <4>1 DEF RoomInv
      <4>2. CASE a = [block |-> b, size |-> size]
        BY <3>3, <3>5, <4>2
      <4>. QED
        BY <3>6, <4>1, <4>2
    <3>. QED
      BY <1>2, <3>2, <3>7 DEF RoomInv, total_memory, Size
  <2>3. ASSUME NEW b \in DOMAIN header, Free(b)
        PROVE  RoomInv'
    <3>1. max_order' = max_order
      BY <1>2, <2>3, FreeIs
    <3>2. PICK o, l : FreeAt(b, o, l)
      BY <1>2, <2>3, FreeIs
    <3>3. \A a \in live' : header'[a.block] = header[a.block]
      BY <1>2, <3>1, <3>2, FreeTiles
    <3>4. live' \subseteq live
      BY <3>2 DEF FreeAt
    <3>5. \A a \in live' : a.size + Header <= Size(header'[a.block].order)
      BY <1>2, <3>3, <3>4 DEF RoomInv
    <3>. QED
      BY <1>2, <3>1, <3>5 DEF RoomInv, total_memory, Size
  <2>. QED
    BY <1>2, <2>1, <2>2, <2>3 DEF Next
<1>. QED
  BY <1>1, <1>2, HalvesInvHolds, PTL DEF Spec

\* The blocks that are handed out share no byte.
HeldApart ==
    \A a \in live :
       /\ a.block \in Nat /\ a.size \in Nat \ {0} /\ start \in Nat /\ Header \in Nat
       /\ Size(header[a.block].order) \in Nat
       /\ a.block + Size(header[a.block].order) <= Size(max_order)
       /\ a.size + Header <= Size(header[a.block].order)
       /\ \A c \in live : a # c =>
             \/ a.block + Size(header[a.block].order) <= c.block
             \/ c.block + Size(header[c.block].order) <= a.block

LEMMA HeldAreApart ==
    ASSUME BuddyAssumption, HalvesInv, RoomInv
    PROVE  HeldApart
<1>1. /\ max_order \in Orders /\ start \in Nat /\ Header \in Nat
      /\ live \subseteq [block : Units(max_order), size : Requests]
      /\ Requests \subseteq Nat \ {0}
  BY DEF HalvesInv, TypeInv, BuddyAssumption
<1>2. ASSUME NEW a \in live
      PROVE  /\ BlockOf(a) \in Blocks /\ BlockOf(a).at = a.block
             /\ BlockOf(a).order = header[a.block].order
             /\ Inside(a.block, BlockOf(a))
             /\ a.block \in Nat /\ a.size \in Nat \ {0}
             /\ Size(header[a.block].order) \in Nat
             /\ a.block + Size(header[a.block].order) <= Size(max_order)
  <2>1. /\ BlockOf(a) \in Blocks /\ BlockOf(a) \in Pieces(max_order)
        /\ BlockOf(a).at = a.block /\ BlockOf(a).order = header[a.block].order
    BY BlocksAre
  <2>2. /\ BlockOf(a).at \in Nat /\ Size(BlockOf(a).order) \in Nat \ {0}
        /\ Inside(BlockOf(a).at, BlockOf(a))
        /\ BlockOf(a).at + Size(BlockOf(a).order) <= Size(max_order)
    BY <1>1, <2>1, PieceType
  <2>. QED
    BY <1>1, <2>1, <2>2
<1>3. ASSUME NEW a \in live, NEW c \in live, a # c
      PROVE  \/ a.block + Size(header[a.block].order) <= c.block
             \/ c.block + Size(header[c.block].order) <= a.block
  <2>1. a.block # c.block
    BY <1>3 DEF HalvesInv, OneHolder
  <2>2. \A p \in Blocks, q \in Blocks, u \in Nat : Inside(u, p) /\ Inside(u, q) => p = q
    BY BlocksAre
  <2>3. BlockOf(a) # BlockOf(c)
    BY <1>2, <2>1
  <2>4. ~ Inside(a.block, BlockOf(c)) /\ ~ Inside(c.block, BlockOf(a))
    BY <1>2, <2>2, <2>3, Zenon
  <2>. QED
    BY <1>2, <2>1, <2>4 DEF Inside
<1>. QED
  BY <1>1, <1>2, <1>3 DEF RoomInv, HeldApart

(* The buddy manager implements the allocator memory_manager.h promises:    *)
(* memory_alloc hands out bytes of the heap that nobody holds, memory_free  *)
(* takes one range back, for every heap and every sequence of requests that *)
(* leave room for a header.                                                 *)
THEOREM BuddyKeepsThePromise ==
    ASSUME BuddyAssumption, RequestsLeaveRoom
    PROVE  Spec => Implements
<1> DEFINE ranges == {[at |-> start + a.block + Header, size |-> a.size] : a \in live}
<1>1. Init => A!Init
  BY DEF Init, A!Init
<1>2. ASSUME HalvesInv, HalvesInv', HeldApart, HeldApart', [Next]_vars
      PROVE  A!Next \/ UNCHANGED ranges
  <2>1. CASE UNCHANGED vars
    BY <2>1, Zenon DEF vars
  <2>2. ASSUME NEW size \in Requests, Alloc(size)
        PROVE  A!Next
    <3> DEFINE k0 == OrderFor(size)
    <3>1. TypeInv
      BY <1>2 DEF HalvesInv
    <3>2. /\ \E o, b : AllocBlocks(size, o, b, k0)
          /\ max_order' = max_order /\ start' = start
      BY <2>2, <3>1, AllocIs
    <3>. HIDE DEF k0
    <3>3. PICK o, b : AllocBlocks(size, o, b, k0)
      BY <3>2
    <3> DEFINE new == [block |-> b, size |-> size]
               out == [at |-> start + b + Header, size |-> size]
    <3>4. live' = live \union {new} /\ new.block = b /\ new.size = size
      BY <3>3 DEF AllocBlocks
    <3>5. /\ \A a \in live : header'[a.block] = header[a.block] /\ a.block # b
          /\ header'[b].order = k0
      BY <1>2, <3>2, <3>3, AllocTiles
    <3>7. ranges' = ranges \union {out}
      <4>1. ranges' = {[at |-> start + a.block + Header, size |-> a.size] : a \in live'}
        BY <3>2
      <4>2. [at |-> start + new.block + Header, size |-> new.size] = out
        OBVIOUS
      <4>. HIDE DEF out, new
      <4>. QED
        BY <3>4, <4>1, <4>2
    <3>8. ASSUME NEW a \in live
          PROVE  /\ \/ a.block + Size(header[a.block].order) <= b
                    \/ b + Size(k0) <= a.block
                 /\ a.block \in Nat /\ a.size \in Nat \ {0}
                 /\ Size(header[a.block].order) \in Nat
                 /\ a.size + Header <= Size(header[a.block].order)
      <4>1. a \in live' /\ new \in live' /\ a # new
        BY <3>4, <3>5
      <4>. HIDE DEF new
      <4>3. \/ a.block + Size(header'[a.block].order) <= new.block
            \/ new.block + Size(header'[new.block].order) <= a.block
        BY <1>2, <4>1, Zenon DEF HeldApart, Size
      <4>4. /\ a.block \in Nat /\ a.size \in Nat \ {0}
            /\ Size(header[a.block].order) \in Nat
            /\ a.size + Header <= Size(header[a.block].order)
        BY <1>2 DEF HeldApart
      <4>. QED
        BY <3>4, <3>5, <4>3, <4>4
    <3>9. /\ b \in Nat /\ size \in Nat \ {0} /\ start \in Nat /\ Header \in Nat
          /\ Size(k0) \in Nat /\ size + Header <= Size(k0)
          /\ b + Size(k0) <= Size(max_order) /\ Size(max_order) \in Nat
          /\ start + Size(max_order) <= MEMORY_END /\ MEMORY_END \in Nat
      <4>2. new \in live'
        BY <3>4
      <4>. HIDE DEF new
      <4>3. /\ new.block \in Nat /\ new.size \in Nat \ {0} /\ start' \in Nat /\ Header \in Nat
            /\ Size(header'[new.block].order) \in Nat
            /\ new.block + Size(header'[new.block].order) <= Size(max_order')
            /\ new.size + Header <= Size(header'[new.block].order)
        BY <1>2, <4>2, Zenon DEF HeldApart, Size
      <4>. QED
        BY <3>1, <3>2, <3>4, <3>5, <4>3, Sizes DEF TypeInv, BuddyAssumption
    <3>10. out \notin ranges /\ \A r \in ranges : ~ A!Overlap(r, out)
      <4>1. ASSUME NEW a \in live
            PROVE  /\ out # [at |-> start + a.block + Header, size |-> a.size]
                   /\ ~ A!Overlap([at |-> start + a.block + Header, size |-> a.size], out)
        BY <3>5, <3>8, <3>9 DEF A!Overlap
      <4>. HIDE DEF out
      <4>. QED
        BY <4>1
    <3>11. out.size = size /\ A!InHeap(out)
      BY <3>9 DEF A!InHeap
    <3>. HIDE DEF out, ranges
    <3>12. A!Alloc(size)
      <4>1. out \in ranges' \ ranges
        BY <3>7, <3>10
      <4>. QED
        BY <3>7, <3>10, <3>11, <4>1 DEF A!Alloc, ranges
    <3>. QED
      BY <3>12 DEF A!Next
  <2>3. ASSUME NEW b \in DOMAIN header, Free(b)
        PROVE  A!Next
    <3>1. max_order' = max_order /\ start' = start
      BY <1>2, <2>3, FreeIs
    <3>2. PICK o, l : FreeAt(b, o, l)
      BY <1>2, <2>3, FreeIs
    <3>3. PICK a0 \in live : a0.block = b
      BY <3>2 DEF FreeAt
    <3>4. live' = {a \in live : a.block # b}
      BY <3>2 DEF FreeAt
    <3> DEFINE out(a) == [at |-> start + a.block + Header, size |-> a.size]
    <3>5. \A a \in live : a.block \in Nat /\ start \in Nat /\ Header \in Nat
      BY <1>2 DEF HeldApart
    <3>6. \A a \in live : /\ a.block = b => a = a0
                          /\ a.block # b => out(a) # out(a0)
      <4>1. ASSUME NEW a \in live, a.block # b
            PROVE  start + a.block + Header # start + a0.block + Header
        BY <3>3, <3>5, <4>1
      <4>2. \A a \in live : a.block = b => a = a0
        BY <1>2, <3>3 DEF HalvesInv, OneHolder
      <4>. QED
        BY <4>1, <4>2
    <3>7. ranges' = {out(a) : a \in live'} /\ ranges = {out(a) : a \in live}
      BY <3>1
    <3>. HIDE DEF out, ranges
    <3>8. ranges' = ranges \ {out(a0)} /\ out(a0) \in ranges
      BY <3>3, <3>4, <3>6, <3>7
    <3>9. \E r \in ranges : ranges' = ranges \ {r}
      BY <3>8
    <3>. QED
      BY <3>9 DEF A!Next, A!Free, ranges
  <2>. QED
    BY <1>2, <2>1, <2>2, <2>3 DEF Next
<1>3. HalvesInv /\ RoomInv => HeldApart
  BY HeldAreApart
<1>. QED
  BY <1>1, <1>2, <1>3, HalvesInvHolds, RoomInvHolds, PTL DEF Spec, Implements, A!Spec
==============================================================================
