------------------------------- MODULE MCMemory -------------------------------
(***************************************************************************)
(* What the kernel keeps in arrays, model checked side by side: the bitmap *)
(* manager under any sequence of calls, the buddy manager likewise, test_mm *)
(* on the bitmap manager, and the ring of the ready queue.  A behaviour is *)
(* one of them, its part, while the variables of the others keep their     *)
(* initial values: the states are the sum of theirs.                       *)
(***************************************************************************)
EXTENDS TestMM, ReadyQueue

CONSTANT UserData  \* a model value, no header

VARIABLES
    part,
    y_max_order, y_start, y_free_blocks, y_header, y_used_memory, y_live

Halves == INSTANCE Buddy WITH
    MIN_LEVEL <- 5, MAX_ORDER <- 9, Header <- 16, MEMORY_END <- 540,
    Managed <- {3, 257}, Requests <- {1, 17, 112, 240}, UserData <- UserData,
    max_order <- y_max_order, start <- y_start, free_blocks <- y_free_blocks,
    header <- y_header, used_memory <- y_used_memory, live <- y_live

ASSUME MCMemoryAssumption ==
    /\ BitmapAssumption /\ ReadyQueueAssumption /\ Halves!BuddyAssumption
    /\ TestMMAssumption /\ Halves!RequestsLeaveRoom

halvesVars == <<y_max_order, y_start, y_free_blocks, y_header, y_used_memory, y_live>>

MemoryInit ==
    /\ part \in {"bitmap", "buddy", "test_mm", "queue"}
    /\ TestInit
    /\ Halves!Init
    /\ part # "buddy" => y_start = 256
    /\ QueueInit
    /\ part # "queue" => \A p \in Proc : priority[p] = 0

MapPart ==
    part = "bitmap" /\ Next /\ UNCHANGED <<part, halvesVars, testVars, queueVars>>

HalvesPart ==
    part = "buddy" /\ Halves!Next /\ UNCHANGED <<part, vars, testVars, queueVars>>

TestPart ==
    part = "test_mm" /\ TestNext /\ UNCHANGED <<part, halvesVars, queueVars>>

QueuePart ==
    part = "queue" /\ QueueNext /\ UNCHANGED <<part, vars, halvesVars, testVars>>

MemorySpec ==
    /\ MemoryInit
    /\ [][MapPart \/ HalvesPart \/ TestPart \/ QueuePart]_<<part, vars, halvesVars,
                                                        testVars, queueVars>>

-----------------------------------------------------------------------------
(* The buddy manager implements the abstract allocator, and loses no block *)
(* either.  The other properties are those of the modules extended.        *)
BuddyImplements == Halves!Implements /\ [](part = "buddy" => Halves!NoBlockLost)
=============================================================================
