----------------------------- MODULE ReadyQueue -----------------------------
(***************************************************************************)
(* The ready queue as it is stored (src/Kernel/scheduler/process.c): an    *)
(* array of MAX_PROCESSES pointers with head, tail and count, from which   *)
(* an element is taken by shifting those behind it.  The module Scheduler  *)
(* has a sequence in its place; here the array is shown to behave as one.  *)
(*                                                                         *)
(* The kernel changes it with interrupts masked, one whole operation at a  *)
(* time.  (A process that returns from main wakes its waiter with          *)
(* interrupts enabled; an add that is interrupted is left out.)            *)
(* Ageing, boost and nice may change any priority at any time here, so     *)
(* also before each choice.                                                *)
(***************************************************************************)
EXTENDS Integers, FiniteSets

CONSTANTS MAX_PROCESSES, \* slots of the table and of the queue
          Priorities     \* the values of a priority

ReadyQueueAssumption == MAX_PROCESSES \in Nat \ {0} /\ Priorities \subseteq Nat

Proc == 0 .. MAX_PROCESSES - 1
Idle == 0     \* the slot of idle_pcb
NULL == -1

VARIABLES ready_queue, head, tail, count,
          state,        \* of each process
          priority,
          current       \* current_process

ringVars == <<ready_queue, head, tail, count>>
queueVars == <<ringVars, state, priority, current>>

Ring == [cell |-> ready_queue, head |-> head, tail |-> tail, count |-> count]

SetRing(r) ==
    /\ ready_queue' = r.cell /\ head' = r.head
    /\ tail' = r.tail /\ count' = r.count

---------------------------------------------------------------------------
(* The operations on the array *)

Cell(r, i) == (r.head + i) % MAX_PROCESSES

add_to_ready_queue(r, p) ==
    IF r.count >= MAX_PROCESSES THEN r
    ELSE [r EXCEPT !.cell[r.tail] = p,
                   !.tail = (@ + 1) % MAX_PROCESSES,
                   !.count = @ + 1]

(* The elements behind position i move up by one cell. *)
Without(r, i) ==
    LET moved == [c \in Proc |->
            IF \E j \in i .. r.count - 2 : c = Cell(r, j)
            THEN r.cell[(c + 1) % MAX_PROCESSES] ELSE r.cell[c]]
    IN  [r EXCEPT !.count = @ - 1,
                  !.tail = (@ - 1 + MAX_PROCESSES) % MAX_PROCESSES,
                  !.cell = [moved EXCEPT ![Cell(r, r.count - 1)] = NULL]]

(* The positions that a search from the head would stop at. *)
First(r, Wanted(_)) ==
    {i \in 0 .. r.count - 1 :
        /\ r.cell[Cell(r, i)] # NULL /\ Wanted(r.cell[Cell(r, i)])
        /\ \A j \in 0 .. i - 1 :
              r.cell[Cell(r, j)] # NULL => ~ Wanted(r.cell[Cell(r, j)])}

removeFromScheduler(r, p) ==
    LET at == First(r, LAMBDA o : o = p)
    IN  IF at = {} THEN r ELSE Without(r, CHOOSE i \in at : TRUE)

(* A faulty variant for the mutation runs: the last of the best is taken. *)
Best_Last(r) ==
    LET held == {i \in 0 .. r.count - 1 : r.cell[Cell(r, i)] # NULL}
    IN  {i \in held : \A j \in held :
            LET o == priority[r.cell[Cell(r, j)]]
            IN  /\ priority[r.cell[Cell(r, i)]] <= o
                /\ j > i => priority[r.cell[Cell(r, i)]] < o}

(* The first position with the lowest priority, none when all are NULL. *)
Best(r) ==
    LET held == {i \in 0 .. r.count - 1 : r.cell[Cell(r, i)] # NULL}
    IN  First(r, LAMBDA p : \A i \in held : priority[p] <= priority[r.cell[Cell(r, i)]])

(* remove_from_ready_queue: what is taken, and the queue it leaves.  With  *)
(* nothing but NULL in it the head is given away.                          *)
remove_from_ready_queue(r) ==
    IF r.count = 0 THEN [taken |-> NULL, rest |-> r]
    ELSE IF Best(r) = {}
         THEN [taken |-> r.cell[r.head],
               rest |-> [r EXCEPT !.cell[r.head] = NULL,
                                  !.head = (@ + 1) % MAX_PROCESSES,
                                  !.count = @ - 1]]
         ELSE LET i == CHOOSE i \in Best(r) : TRUE
              IN  [taken |-> r.cell[Cell(r, i)], rest |-> Without(r, i)]

---------------------------------------------------------------------------
(* The kernel around it *)

(* schedule: the process that runs goes to the end of the queue, if it is  *)
(* still RUNNING, and the next one comes.                                  *)
Schedule(st, r) ==
    \E preempted \in {st[current] = "RUNNING"} :
    \E got \in {remove_from_ready_queue(
                    IF preempted THEN add_to_ready_queue(r, current) ELSE r)} :
    \E next \in {IF got.taken = NULL THEN Idle ELSE got.taken} :
        /\ SetRing(got.rest)
        /\ current' = next
        /\ state' = [p \in Proc |-> IF p = next THEN "RUNNING"
                                    ELSE IF p = current /\ preempted THEN "READY"
                                    ELSE st[p]]
        /\ UNCHANGED priority

Tick == Schedule(state, Ring)

(* unblock_process, sem_post, terminate_process for a waiter; a new process. *)
Wake(p) ==
    /\ state[p] = "BLOCKED"
    /\ state' = [state EXCEPT ![p] = "READY"]
    /\ SetRing(add_to_ready_queue(Ring, p))
    /\ UNCHANGED <<priority, current>>

(* block_process, waitpid; the end of a process. *)
Block(p) ==
    /\ state[p] # "BLOCKED"
    /\ LET st == [state EXCEPT ![p] = "BLOCKED"]
       IN  IF p = current THEN Schedule(st, removeFromScheduler(Ring, p))
           ELSE /\ state' = st
                /\ SetRing(removeFromScheduler(Ring, p))
                /\ UNCHANGED <<priority, current>>

change_priority(p, n) ==
    /\ priority' = [priority EXCEPT ![p] = n]
    /\ UNCHANGED <<ringVars, state, current>>

---------------------------------------------------------------------------

init_ready_queue ==
    /\ ready_queue = [c \in Proc |-> NULL]
    /\ head = 0 /\ tail = 0 /\ count = 0

QueueInit ==
    /\ init_ready_queue
    /\ state = [p \in Proc |-> IF p = Idle THEN "RUNNING" ELSE "BLOCKED"]
    /\ priority \in [Proc -> Priorities]
    /\ current = Idle

QueueNext ==
    \/ Tick
    \/ \E p \in Proc : Wake(p) \/ Block(p)
    \/ \E p \in Proc, n \in Priorities : change_priority(p, n)

QueueSpec == QueueInit /\ [][QueueNext]_queueVars

---------------------------------------------------------------------------
(* Properties *)

Contents == [i \in 1 .. count |-> ready_queue[Cell(Ring, i - 1)]]

Abstract == INSTANCE RunQueue WITH q <- Contents

(* The array with its head, tail, count and shifts implements the queue    *)
(* that is sorted by priority and, within one, by arrival.                 *)
RunQueueSpec == Abstract!RunQueueSpec
=============================================================================
