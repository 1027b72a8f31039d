------------------------------ MODULE TestSync ------------------------------
(***************************************************************************)
(* The workers of Userland/SampleCodeModule/tests/test_sync.c on the       *)
(* semaphores of module Semaphore: each adds its inc to a shared variable  *)
(* N times, reading it, yielding and writing it back, between sem_wait and *)
(* sem_post.  The workers are processes of that module; the parent that    *)
(* creates and awaits them is left out.                                    *)
(***************************************************************************)
EXTENDS Semaphore, Integers

CONSTANTS
    Increasing,  \* the workers started with inc = 1
    Decreasing,  \* the workers started with inc = -1
    N,           \* rounds of each worker
    SEM_ID       \* the name of the semaphore

Adders == Increasing \union Decreasing

TestSyncAssumption ==
    /\ Adders \subseteq Processes
    /\ Increasing \intersect Decreasing = {}
    /\ N \in Nat \ {0}
    /\ SEM_ID \in Names
    /\ 1 \in InitialValues
    /\ IsFiniteSet(Processes) /\ Cardinality(Processes) <= MAX_PROCESSES
    /\ Cardinality(Processes) <= MaxUsers

VARIABLES
    stage,   \* what a worker does next
    round,   \* rounds it has completed
    aux,     \* its copy of the shared variable
    global   \* the shared variable

syncVars == <<sem_table, state, stage, round, aux, global>>

Label == {"open", "wait", "load", "store", "post", "close", "exit", "done"}

inc(p) == IF p \in Increasing THEN 1 ELSE -1

SyncInit ==
    /\ SemInit
    /\ stage = [p \in Adders |-> "open"]
    /\ round = [p \in Adders |-> 0]
    /\ aux = [p \in Adders |-> 0]
    /\ global = 0

(* A worker moves from one label to another when schedule() gives it the   *)
(* CPU; one that sleeps in sem_wait is at "load" already.                  *)
Moves(p, from, to) ==
    /\ state[p] = "READY"
    /\ stage[p] = from
    /\ stage' = [stage EXCEPT ![p] = to]

(* The results of the semaphore calls are ignored, but for an id of 0.     *)
Open(p) ==
    /\ Moves(p, "open", "wait")
    /\ sem_open(SEM_ID, 1)
    /\ UNCHANGED <<round, aux, global>>

Wait(p) ==
    /\ Moves(p, "wait", "load")
    /\ sem_wait(p, SEM_ID)
    /\ UNCHANGED <<round, aux, global>>

(* A faulty variant for the mutation runs: the variable is read in the first *)
(* round only.                                                              *)
Load_Once(p) ==
    /\ Moves(p, "load", "store")
    /\ aux' = IF round[p] = 0 THEN [aux EXCEPT ![p] = global] ELSE aux
    /\ UNCHANGED <<semVars, round, global>>

Load(p) ==
    /\ Moves(p, "load", "store")
    /\ aux' = [aux EXCEPT ![p] = global]
    /\ UNCHANGED <<semVars, round, global>>

Store(p) ==
    /\ Moves(p, "store", "post")
    /\ global' = aux[p] + inc(p)
    /\ UNCHANGED <<semVars, round, aux>>

Post(p) ==
    /\ Moves(p, "post", IF round[p] + 1 < N THEN "wait" ELSE "close")
    /\ round' = [round EXCEPT ![p] = @ + 1]
    /\ sem_post(SEM_ID)
    /\ UNCHANGED <<aux, global>>

Close(p) ==
    /\ Moves(p, "close", "exit")
    /\ sem_close(SEM_ID)
    /\ UNCHANGED <<round, aux, global>>

Exit(p) ==
    /\ Moves(p, "exit", "done")
    /\ Dies(p)
    /\ UNCHANGED <<round, aux, global>>

Worker(p) == Open(p) \/ Wait(p) \/ Load(p) \/ Store(p) \/ Post(p) \/ Close(p) \/ Exit(p)

AllDone == \A p \in Adders : stage[p] = "done"

Finished == AllDone /\ UNCHANGED syncVars

SyncNext == Finished \/ \E p \in Adders : Worker(p)

(* The scheduler starves nobody: see NoStarvation in module Scheduler. *)
SyncSpec == SyncInit /\ [][SyncNext]_syncVars /\ \A p \in Adders : WF_syncVars(Worker(p))

-----------------------------------------------------------------------------
(* Properties *)

(* Every variable stays in its type. *)
SyncTypeOK ==
    /\ SemTypeOK
    /\ stage \in [Adders -> Label]
    /\ round \in [Adders -> 0 .. N]
    /\ aux \in [Adders -> Int]
    /\ global \in Int

(* The README gives 0 as the result of test_sync with semaphores: no        *)
(* update is lost, even though the semaphore is opened and closed, freed    *)
(* and created again while others are in their critical section.            *)
ResultIsTheSum ==
    AllDone => global = N * (Cardinality(Increasing) - Cardinality(Decreasing))

(* Every worker gets its turns and ends: no wake-up is lost and nobody      *)
(* waits for a token forever.                                               *)
AllEnd == <>AllDone
=============================================================================
