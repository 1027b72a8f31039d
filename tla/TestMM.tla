------------------------------- MODULE TestMM -------------------------------
(***************************************************************************)
(* test_mm (src/Userland/SampleCodeModule/tests/test_mm.c) on the bitmap   *)
(* memory manager: testers ask for blocks of random sizes up to a total,   *)
(* write a mark on each, check the marks, give all back and start again.   *)
(* sys_malloc and sys_free run with interrupts masked, one call in a step; *)
(* a tester can be preempted between its own steps.  A mark is written     *)
(* per block of the manager.                                               *)
(***************************************************************************)
EXTENDS Bitmap, Sequences

CONSTANTS Tester,      \* processes that run test_mm
          MaxMemory,   \* its argument
          MAX_BLOCKS

TestMMAssumption ==
    /\ MaxMemory \in Nat \ {0}
    /\ MAX_BLOCKS \in Nat \ {0}
    /\ 1 .. MaxMemory \subseteq Requests

VARIABLES memory,  \* the mark on each block of the heap
          mm_rqs,  \* by tester: the blocks it holds
          loop,    \* the loop it is in
          at       \* and where in it

testVars == <<memory, mm_rqs, loop, at>>
mmVars == <<vars, testVars>>

Rounds == {"request", "set", "check", "free"}

Unmarked == -1

Total(rqs) == LET sum[n \in 0 .. Len(rqs)] ==
                     IF n = 0 THEN 0 ELSE sum[n - 1] + rqs[n].size
              IN  sum[Len(rqs)]

---------------------------------------------------------------------------
(* The system calls *)

Refused(size) ==
    LET n == BlocksNeeded(size)
    IN  \/ size > TotalBlocks * BlockSize
        \/ n > TotalBlocks - used
        \/ Fits(n) = {}

(* sys_malloc, when it succeeds: the block joins those of the tester. *)
sys_malloc(t, size) ==
    /\ Alloc(size)
    /\ LET n == BlocksNeeded(size)
           given == [block |-> Min(Fits(n)), blocks |-> n, size |-> size]
       IN  mm_rqs' = [mm_rqs EXCEPT ![t] = Append(@, given)]

(* A block that is free already is refused, which nobody looks at. *)
sys_free(a) == IF bitmap[a.block] = 0 THEN UNCHANGED vars ELSE Free(a.block)

---------------------------------------------------------------------------
(* The test *)

(* GetUniform(max_memory - total - 1) + 1; GetUniform(0) is 0. *)
Sizes(t) ==
    LET rest == MaxMemory - Total(mm_rqs[t]) - 1
    IN  IF rest = 0 THEN {1} ELSE 1 .. rest

Wants(t) ==
    /\ loop[t] = "request"
    /\ Len(mm_rqs[t]) < MAX_BLOCKS
    /\ Total(mm_rqs[t]) < MaxMemory

Request(t, size) ==
    /\ Wants(t) /\ size \in Sizes(t)
    /\ ~ Refused(size)
    /\ sys_malloc(t, size)
    /\ UNCHANGED <<memory, loop, at>>

(* A refused request is tried again with another size. *)
Retry(t) ==
    /\ Wants(t)
    /\ \E size \in Sizes(t) : Refused(size)
    /\ UNCHANGED mmVars

EnoughBlocks(t) ==
    /\ loop[t] = "request" /\ ~ Wants(t)
    /\ loop' = [loop EXCEPT ![t] = "set"]
    /\ UNCHANGED <<vars, memory, mm_rqs, at>>

Current(t) == mm_rqs[t][at[t]]

(* To the next block, or to the start of the next loop. *)
ToNext(t, next) ==
    IF at[t] < Len(mm_rqs[t])
    THEN at' = [at EXCEPT ![t] = @ + 1] /\ UNCHANGED loop
    ELSE at' = [at EXCEPT ![t] = 1] /\ loop' = [loop EXCEPT ![t] = next]

Set(t) ==
    /\ loop[t] = "set"
    /\ memory' = [b \in DOMAIN memory |->
                     IF b \in Extent(Current(t)) THEN at[t] - 1 ELSE memory[b]]
    /\ ToNext(t, "check")
    /\ UNCHANGED <<vars, mm_rqs>>

MemCheck(t) == \A b \in Extent(Current(t)) : memory[b] = at[t] - 1

Check(t) ==
    /\ loop[t] = "check"
    /\ IF MemCheck(t) THEN ToNext(t, "free")
       ELSE loop' = [loop EXCEPT ![t] = "failed"] /\ UNCHANGED at
    /\ UNCHANGED <<vars, memory, mm_rqs>>

(* A faulty variant for the mutation runs: rq is not reset. *)
GiveBack_KeepsBlocks(t) ==
    /\ loop[t] = "free"
    /\ sys_free(Current(t))
    /\ ToNext(t, "request")
    /\ UNCHANGED <<memory, mm_rqs>>

(* With the last block the next round begins, with rq = 0. *)
GiveBack(t) ==
    /\ loop[t] = "free"
    /\ sys_free(Current(t))
    /\ ToNext(t, "request")
    /\ mm_rqs' = IF at[t] < Len(mm_rqs[t]) THEN mm_rqs
                 ELSE [mm_rqs EXCEPT ![t] = <<>>]
    /\ UNCHANGED memory

(* Ctrl+C or kill.  The kernel gives back the stack and the arguments of a *)
(* process; what it got from malloc is nowhere on record.                  *)
Kill(t) ==
    /\ loop[t] \in Rounds
    /\ loop' = [loop EXCEPT ![t] = "killed"]
    /\ UNCHANGED <<vars, memory, mm_rqs, at>>

Ended == (\A t \in Tester : loop[t] \notin Rounds) /\ UNCHANGED mmVars

---------------------------------------------------------------------------

TestInit ==
    /\ Init
    /\ memory = [b \in 0 .. TotalBlocks - 1 |-> Unmarked]
    /\ mm_rqs = [t \in Tester |-> <<>>]
    /\ loop = [t \in Tester |-> "request"]
    /\ at = [t \in Tester |-> 1]

Advance(t) == EnoughBlocks(t) \/ Set(t) \/ Check(t) \/ GiveBack(t)

TestNext ==
    \/ \E t \in Tester, size \in 1 .. MaxMemory : Request(t, size)
    \/ \E t \in Tester : Retry(t) \/ Advance(t) \/ Kill(t)
    \/ Ended

TestSpec == TestInit /\ [][TestNext]_mmVars

---------------------------------------------------------------------------
(* Properties *)

(* Every variable is of its type, and no more is held than the argument    *)
(* of the test allows (test_mm.c:34-42).                                 *)
MMTypeOK ==
    /\ loop \in [Tester -> Rounds \union {"failed", "killed"}]
    /\ at \in [Tester -> 1 .. MAX_BLOCKS]
    /\ \A t \in Tester : /\ Len(mm_rqs[t]) <= MAX_BLOCKS
                         /\ Total(mm_rqs[t]) <= MaxMemory

(* No tester finds the mark of another one on a block that malloc gave it, *)
(* however their calls interleave (memcheck in test_mm.c:51-56).         *)
NobodyFails == \A t \in Tester : loop[t] # "failed"

=============================================================================
