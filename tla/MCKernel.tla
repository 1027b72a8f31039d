------------------------------ MODULE MCKernel ------------------------------
(***************************************************************************)
(* Three tables of the kernel that do not touch one another, model checked *)
(* side by side: the semaphores, the memory of the processes, and the pipe *)
(* descriptors.                                                            *)
(* A behaviour exercises one of them, its part, while the others keep      *)
(* their initial state: the states are the sum of theirs.                  *)
(***************************************************************************)
EXTENDS Semaphore, Descriptors, ProcessMemory

ASSUME MCKernelAssumption ==
    SemaphoreAssumption /\ MemoryAssumption /\ DescriptorsAssumption

VARIABLE part

KernelInit ==
    /\ part \in {"semaphores", "memory", "descriptors"}
    /\ SemInit
    /\ MemInit
    /\ IoInit

KernelNext ==
    /\ UNCHANGED part
    /\ \/ part = "semaphores" /\ SemNext /\ UNCHANGED <<memVars, ioVars>>
       \/ part = "memory" /\ MemNext /\ UNCHANGED <<semVars, ioVars>>
       \/ part = "descriptors" /\ IoNext /\ UNCHANGED <<semVars, memVars>>

KernelSpec == KernelInit /\ [][KernelNext]_<<part, semVars, memVars, ioVars>>
=============================================================================
