---------------------------- MODULE ProcessLimits ----------------------------
(***************************************************************************)
(* MAX_PROCESSES of Kernel/scheduler/include/process.h: the length of      *)
(* process_table and, in semaphore.c, of the queue of the waiters.  A      *)
(* program on top of both means the same number.                           *)
(***************************************************************************)
CONSTANT MAX_PROCESSES  \* 64
=============================================================================
