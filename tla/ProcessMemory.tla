---------------------------- MODULE ProcessMemory ----------------------------
(***************************************************************************)
(* The memory a process owns (process.c): the copy of its arguments and    *)
(* its stack, allocated by create_process_internal one block after the     *)
(* other, any of which may be refused, and given back when the slot of a   *)
(* dead process is released, never while the CPU is still on its stack.    *)
(*                                                                         *)
(* The heap is a set of blocks; which blocks an allocation takes, and      *)
(* whether it is refused with blocks left (they may not be contiguous), is *)
(* the memory manager's business (modules Bitmap and Buddy).               *)
(***************************************************************************)
EXTENDS Integers, FiniteSets

CONSTANTS
    LastSlot,          \* MAX_PROCESSES - 1
    Blocks,            \* the heap
    STACK_SIZE,        \* in blocks
    MaxArgs,           \* bound: arguments of a process
    CLEANUP_INTERVAL   \* calls of schedule() between two clean-ups

MemoryAssumption ==
    /\ LastSlot \in Nat \ {0}
    /\ IsFiniteSet(Blocks)
    /\ STACK_SIZE \in Nat \ {0} /\ MaxArgs \in Nat /\ CLEANUP_INTERVAL \in Nat \ {0, 1}

VARIABLES
    slot,      \* the table: state, argc and the blocks each process owns
    current,   \* the slot whose stack the CPU is on
    pending,   \* pending_cleanup_process, or NoSlot
    used,      \* the blocks the memory manager has handed out
    cleanup,   \* cleanup_counter
    job        \* the creation under way: the slot, the arguments still to copy

memVars == <<slot, current, pending, used, cleanup, job>>

Idle == 0                        \* its memory is never given back
Slots == 1 .. LastSlot
NoSlot == -1
Indices == 1 .. MaxArgs

FreedPCB == [state |-> "TERMINATED", argc |-> 0, argv |-> {},
             args |-> [i \in Indices |-> {}], stack |-> {}]

PCB == [state : {"READY", "TERMINATED"}, argc : 0 .. MaxArgs, argv : SUBSET Blocks,
        args : [Indices -> SUBSET Blocks], stack : SUBSET Blocks]

NoJob == [slot |-> NoSlot, argc |-> 0, next |-> 0]

Owned(p) == p.argv \union p.stack \union UNION {p.args[i] : i \in Indices}

\* What memory_alloc may return when n blocks are asked for.
Allocations(n) == {B \in SUBSET (Blocks \ used) : Cardinality(B) = n}

-----------------------------------------------------------------------------
\* The strings named by argc, and the array, if there is one.
ArgumentBlocks(p) ==
    IF p.argv = {} THEN {}
    ELSE p.argv \union UNION {p.args[i] : i \in 1 .. p.argc}

\* The pointers to the strings are in the array: without it they are lost.
release_process_arguments(p) ==
    IF p.argv = {} THEN p
    ELSE [p EXCEPT !.argv = {}, !.argc = 0, !.args = [i \in Indices |-> {}]]

ReleasedBlocks(S) == UNION {ArgumentBlocks(slot[s]) \union slot[s].stack : s \in S}

\* release_process_resources on every slot of S.
release_process_resources(S) ==
    /\ slot' = [s \in Slots |-> IF s \in S THEN FreedPCB ELSE slot[s]]
    /\ used' = used \ ReleasedBlocks(S)
    /\ pending' = IF pending \in S THEN NoSlot ELSE pending

Dead == {s \in Slots : slot[s].state = "TERMINATED"}

(* A faulty variant for the mutation runs: the current process is not excepted. *)
Reaped_Current == Dead

\* The slots free_terminated_processes releases.
Reaped == Dead \ {current}

-----------------------------------------------------------------------------
(* create_process_internal, by allocations.  The caller is current and     *)
(* alive, so its own slot is never the one found.                          *)

FirstFree == {s \in Dead : \A t \in Dead : s <= t}

CreateBegins ==
    /\ job = NoJob
    /\ current # Idle => slot[current].state = "READY"
    /\ \E argc \in 0 .. MaxArgs, s \in FirstFree :
         /\ job' = [slot |-> s, argc |-> argc, next |-> 0]
         /\ slot' = [t \in Slots |->
                        IF t = s THEN [FreedPCB EXCEPT !.state = "READY"]
                        ELSE IF t \in Reaped THEN FreedPCB ELSE slot[t]]
    /\ used' = used \ ReleasedBlocks(Reaped)
    /\ pending' = IF pending \in Reaped THEN NoSlot ELSE pending
    /\ UNCHANGED <<current, cleanup>>

\* The array of argc + 1 pointers; without arguments there is none.
AllocArray ==
    /\ job # NoJob /\ job.argc > 0 /\ job.next = 0
    /\ \E B \in Allocations(1) :
         /\ used' = used \union B
         /\ slot' = [slot EXCEPT ![job.slot].argv = B]
    /\ job' = [job EXCEPT !.next = 1]
    /\ UNCHANGED <<current, pending, cleanup>>

CopyArgument ==
    /\ job # NoJob /\ job.next \in 1 .. job.argc
    /\ \E B \in Allocations(1) :
         /\ used' = used \union B
         /\ slot' = [slot EXCEPT ![job.slot] =
                        [@ EXCEPT !.args[job.next] = B,
                                  !.argc = IF job.next = job.argc THEN job.argc ELSE 0]]
    /\ job' = [job EXCEPT !.next = @ + 1]
    /\ UNCHANGED <<current, pending, cleanup>>

ArgumentsCopied == job # NoJob /\ job.next = IF job.argc = 0 THEN 0 ELSE job.argc + 1

(* A faulty variant for the mutation runs: the freed pointers are not cleared. *)
CreationFails_KeepsPointers(p) ==
    /\ used' = used \ ArgumentBlocks(p)
    /\ slot' = [slot EXCEPT ![job.slot] = [p EXCEPT !.state = "TERMINATED"]]
    /\ job' = NoJob
    /\ UNCHANGED <<current, pending, cleanup>>

\* The creation fails: what the arguments held is given back, as far as argc says.
CreationFails(p) ==
    /\ used' = used \ ArgumentBlocks(p)
    /\ slot' = [slot EXCEPT ![job.slot] =
                   [release_process_arguments(p) EXCEPT !.state = "TERMINATED"]]
    /\ job' = NoJob
    /\ UNCHANGED <<current, pending, cleanup>>

\* duplicate_arguments: argc is only set at the end, so that here it is still 0.
ArgumentsRefused ==
    /\ job # NoJob /\ job.next <= job.argc /\ job.argc > 0
    /\ CreationFails(slot[job.slot])

AllocStack ==
    /\ ArgumentsCopied
    /\ \E B \in Allocations(STACK_SIZE) :
         /\ used' = used \union B
         /\ slot' = [slot EXCEPT ![job.slot].stack = B]
    /\ job' = NoJob
    /\ UNCHANGED <<current, pending, cleanup>>

\* Refused, also after the dead were released once more (none is left: the creation
\* began by releasing them and nobody else has run).
StackRefused == ArgumentsCopied /\ CreationFails(slot[job.slot])

-----------------------------------------------------------------------------
(* terminate_process, and schedule() *)

process_terminates(s) ==
    /\ job = NoJob
    /\ current # Idle => slot[current].state = "READY"
    /\ slot[s].state = "READY"
    /\ slot' = [slot EXCEPT ![s].state = "TERMINATED"]
    /\ pending' = IF s = current THEN s ELSE pending
    /\ UNCHANGED <<current, used, cleanup, job>>

\* cleanup_counter after one more call.
Counted == IF cleanup + 1 >= CLEANUP_INTERVAL THEN 0 ELSE cleanup + 1

CleansUp == Counted \in {0, 1}

\* Clean-up, the process that was pending, and then the next process.  The dead
\* that was current a moment ago is not: it is let go of by the next call.
schedule ==
    /\ job = NoJob
    /\ cleanup' = Counted
    /\ release_process_resources(
          (IF CleansUp THEN Reaped ELSE {})
             \union ({pending} \ {NoSlot, current}))
    /\ current' \in {Idle} \union {s \in Slots : slot[s].state = "READY"}
    /\ UNCHANGED job

-----------------------------------------------------------------------------
MemInit ==
    /\ slot = [s \in Slots |-> FreedPCB]
    /\ current = Idle
    /\ pending = NoSlot
    /\ used = {}
    /\ cleanup = 0           \* CLEANUP_INTERVAL - 1, and the clean-up of the boot
    /\ job = NoJob

Terminate == \E s \in Slots : process_terminates(s)

MemNext ==
    \/ CreateBegins \/ AllocArray \/ CopyArgument \/ ArgumentsRefused
    \/ AllocStack \/ StackRefused
    \/ Terminate \/ schedule

MemSpec == MemInit /\ [][MemNext]_memVars

-----------------------------------------------------------------------------
(* The slots, their blocks and the creation under way are of their types, and  *)
(* only a slot that is being filled is READY without a stack.                   *)
MemTypeOK ==
    /\ slot \in [Slots -> PCB]
    /\ current \in Slots \union {Idle}
    /\ pending \in Slots \union {NoSlot}
    /\ used \subseteq Blocks
    /\ cleanup \in 0 .. CLEANUP_INTERVAL - 1
    /\ job \in [slot : Slots \union {NoSlot}, argc : 0 .. MaxArgs, next : 0 .. MaxArgs + 1]
    /\ \A s \in Slots : slot[s].state = "READY" /\ s # job.slot => slot[s].stack # {}

(* No block belongs to two processes, and none that a process holds is free,   *)
(* whichever allocation of which creation was refused (process.c:175-225,       *)
(* 677-690).                                                                    *)
BlocksHaveOneOwner ==
    /\ \A s, t \in Slots : s # t => Owned(slot[s]) \intersect Owned(slot[t]) = {}
    /\ \A s \in Slots : Owned(slot[s]) \subseteq used

(* The stack the CPU is on is not given back in the call of schedule() that     *)
(* leaves it (which still runs on it), nor before, even when its process is     *)
(* dead and pending (process.c:1165-1167, 1186).                                *)
CurrentStackIsKept == [][current # Idle => slot'[current].stack # {}]_memVars
=============================================================================
