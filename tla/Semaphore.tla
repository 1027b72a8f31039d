------------------------------ MODULE Semaphore ------------------------------
(***************************************************************************)
(* The named semaphores of Kernel/scheduler/semaphore.c, with what they do *)
(* to the processes: block_process, unblock_process, and what can happen   *)
(* to a waiter behind the semaphore's back, a kill.  (sys_block and        *)
(* sys_unblock, by which a process can be made READY in the middle of      *)
(* sem_wait, are in module Process and not used on waiters here.)          *)
(*                                                                         *)
(* A call runs with interrupts masked, as one step; the interrupts come    *)
(* back only when sem_wait has already slept, and nothing but the return   *)
(* is left.  Which READY process makes the next call is up to schedule(),  *)
(* here any of them.  A process is named by its pid; pids are not reused.  *)
(* mm_lock, which no call ever has to wait for, is left out.               *)
(***************************************************************************)
EXTENDS Naturals, Sequences, FiniteSets, SequencesExt, ProcessLimits

CONSTANTS
    Processes,       \* pids
    Names,           \* valid semaphore names
    MAX_SEMAPHORES,  \* entries of sem_table (64)
    MaxUsers,        \* where the reference count saturates (65535)
    InitialValues,   \* the values semaphores are opened with
    MaxValue         \* bound: nobody posts to a semaphore with this value

SemaphoreAssumption ==
    /\ IsFiniteSet(Names)
    /\ MAX_PROCESSES \in Nat \ {0}
    /\ MAX_SEMAPHORES \in Nat \ {0}
    /\ MaxUsers \in Nat \ {0}
    /\ MaxValue \in Nat
    /\ InitialValues \subseteq 0 .. MaxValue

VARIABLES
    sem_table,  \* by name; the position in the table is never looked at
    state       \* the ProcessState of each process, RUNNING being READY

semVars == <<sem_table, state>>

Sem == [used: BOOLEAN, value: 0 .. MaxValue, users: 0 .. MaxUsers,
        waiting_processes: Seq(Processes)]

SEM_FREE == [used |-> FALSE, value |-> 0, users |-> 0, waiting_processes |-> <<>>]

find_semaphore(n) == sem_table[n].used

TableIsFull == Cardinality({n \in Names : sem_table[n].used}) >= MAX_SEMAPHORES

(* A faulty variant for the mutation runs: nobody is woken. *)
Woken_Never(S) == state

(* unblock_process for each of a set: only a BLOCKED one is woken. *)
Woken(S) ==
    [p \in Processes |-> IF p \in S /\ state[p] = "BLOCKED" THEN "READY" ELSE state[p]]

-----------------------------------------------------------------------------
(* The calls.  A name that is not open, a full table and a full queue are  *)
(* errors the caller is told of and nothing changes.                       *)

AddUser(users) == IF users < MaxUsers THEN users + 1 ELSE users

sem_open(n, initial_value) ==
    /\ sem_table' =
          IF find_semaphore(n)
          THEN [sem_table EXCEPT ![n].users = AddUser(@)]
          ELSE IF TableIsFull THEN sem_table
          ELSE [sem_table EXCEPT ![n] = [SEM_FREE EXCEPT !.used = TRUE, !.users = 1,
                                                        !.value = initial_value]]
    /\ UNCHANGED state

(* A faulty variant for the mutation runs: the last token is never given. *)
MustWait_OffByOne(n) == sem_table[n].value <= 1

MustWait(n) == sem_table[n].value = 0

(* The caller p takes a token or joins the queue and sleeps. *)
sem_wait(p, n) ==
    IF ~ find_semaphore(n) THEN UNCHANGED semVars
    ELSE IF ~ MustWait(n)
    THEN /\ sem_table' = [sem_table EXCEPT ![n].value = @ - 1]
         /\ UNCHANGED state
    ELSE IF Len(sem_table[n].waiting_processes) >= MAX_PROCESSES THEN UNCHANGED semVars
    ELSE /\ sem_table' = [sem_table EXCEPT ![n].waiting_processes = Append(@, p)]
         /\ state' = [state EXCEPT ![p] = "BLOCKED"]

(* A faulty variant for the mutation runs: the last to come is served first. *)
sem_post_LastFirst(n) ==
    LET queue == sem_table[n].waiting_processes
    IN  IF queue # <<>>
        THEN /\ sem_table' = [sem_table EXCEPT ![n].waiting_processes = Front(@)]
             /\ state' = Woken({Last(queue)})
        ELSE /\ sem_table' = [sem_table EXCEPT ![n].value = @ + 1]
             /\ UNCHANGED state

(* With a queue the token goes to its head, whatever has become of it. *)
sem_post(n) ==
    LET queue == sem_table[n].waiting_processes
    IN  IF ~ find_semaphore(n) THEN UNCHANGED semVars
        ELSE IF queue # <<>>
        THEN /\ sem_table' = [sem_table EXCEPT ![n].waiting_processes = Tail(@)]
             /\ state' = Woken({Head(queue)})
        ELSE /\ sem_table' = [sem_table EXCEPT ![n].value = @ + 1]
             /\ UNCHANGED state

IsLastUser(n) == sem_table[n].users <= 1

(* The last user frees the semaphore and wakes all who wait. *)
sem_close(n) ==
    IF ~ find_semaphore(n) THEN UNCHANGED semVars
    ELSE IF IsLastUser(n)
    THEN /\ sem_table' = [sem_table EXCEPT ![n] = SEM_FREE]
         /\ state' = Woken(ToSet(sem_table[n].waiting_processes))
    ELSE /\ sem_table' = [sem_table EXCEPT ![n].users = @ - 1]
         /\ UNCHANGED state

-----------------------------------------------------------------------------
(* What process.c does to a process without telling the semaphores *)

(* terminate_process of p, by p itself or by another one. *)
Dies(p) ==
    /\ state[p] # "TERMINATED"
    /\ state' = [state EXCEPT ![p] = "TERMINATED"]
    /\ UNCHANGED sem_table

-----------------------------------------------------------------------------
SemInit ==
    /\ sem_table = [n \in Names |-> SEM_FREE]
    /\ state = [p \in Processes |-> "READY"]

Calls(p) ==
    /\ state[p] = "READY"
    /\ \E n \in Names :
          \/ \E v \in InitialValues : sem_open(n, v)
          \/ sem_wait(p, n)
          \/ sem_table[n].value < MaxValue /\ sem_post(n)
          \/ sem_close(n)

SemNext == \E p \in Processes : Calls(p) \/ Dies(p)

SemSpec == SemInit /\ [][SemNext]_semVars

-----------------------------------------------------------------------------
(* Properties *)

(* Every variable stays in its type. *)
SemTypeOK ==
    /\ sem_table \in [Names -> Sem]
    /\ state \in [Processes -> {"READY", "BLOCKED", "TERMINATED"}]

(* No token lies idle while a process waits for it, and no newcomer can     *)
(* take one past the queue, kills included.                                 *)
NoIdleToken ==
    \A n \in Names : sem_table[n].waiting_processes # <<>> => sem_table[n].value = 0

(* A sleeping process is in one queue, once, of a semaphore that exists,    *)
(* and one that is awake is in none: somebody's post or the last close will *)
(* reach the sleeper, and no later post is wasted on one that has gone on.  *)
(* It holds as long as only the semaphores block and unblock.               *)
SleepersAreQueued ==
    LET Places(p) == {x \in Names \X (1 .. MAX_PROCESSES) :
                        /\ x[2] \in DOMAIN sem_table[x[1]].waiting_processes
                        /\ sem_table[x[1]].waiting_processes[x[2]] = p}
    IN  \A p \in Processes :
           /\ state[p] = "BLOCKED" => Cardinality(Places(p)) = 1
           /\ state[p] = "READY" => Places(p) = {}

(* The queue is fair: while a process waits, those behind it in the queue   *)
(* are not woken, unless the semaphore is closed.                           *)
FirstComeFirstServed ==
    [][\A n \in Names :
          LET queue == sem_table[n].waiting_processes
          IN  sem_table'[n].used =>
                 \A i, j \in DOMAIN queue :
                    /\ i < j
                    /\ state[queue[j]] = "BLOCKED"
                    /\ state'[queue[j]] = "READY"
                    => state'[queue[i]] # "BLOCKED"]_semVars
=============================================================================
