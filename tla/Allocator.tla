------------------------------ MODULE Allocator ------------------------------
(***************************************************************************)
(* What memory_manager.h promises of a memory manager, whichever of the    *)
(* two implementations the kernel is built with: memory_alloc hands out a  *)
(* range of the heap of the size asked for that no live range touches, or  *)
(* fails and changes nothing; memory_free takes one live range back, or    *)
(* fails and changes nothing.  Bitmap and Buddy are shown to implement it. *)
(***************************************************************************)
EXTENDS Integers

CONSTANTS Heap,     \* the addresses the manager hands out, first and last
          Requests  \* the sizes callers ask for, in bytes

VARIABLE live  \* the ranges [at, size] handed out and not yet freed

\* Two ranges that share a byte.
Overlap(a, b) == a.at < b.at + b.size /\ b.at < a.at + a.size

InHeap(a) == Heap.first <= a.at /\ a.at + a.size - 1 <= Heap.last

Init == live = {}

\* memory_alloc, when it succeeds: one new range.
Alloc(size) ==
    \E new \in live' \ live :
        /\ new.size = size
        /\ InHeap(new)
        /\ \A a \in live : ~Overlap(a, new)
        /\ live' = live \cup {new}

\* memory_free, when it succeeds.
Free(a) == live' = live \ {a}

Next == \/ \E size \in Requests : Alloc(size)
        \/ \E a \in live : Free(a)

Spec == Init /\ [][Next]_live
==============================================================================
