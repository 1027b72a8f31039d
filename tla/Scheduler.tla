------------------------------ MODULE Scheduler ------------------------------
(***************************************************************************)
(* The CPU scheduler of Kernel/scheduler/process.c: the ready queue, the   *)
(* time slices, the ageing of waiting processes, the foreground boost and  *)
(* schedule() itself, together with the handlers that move a process in    *)
(* and out of the queue.                                                   *)
(*                                                                         *)
(* The machine has one CPU and every interrupt gate masks interrupts, so   *)
(* a handler is one atomic step: the assignments it makes and the          *)
(* schedule() call it ends in, when it forces one with int 0x20.           *)
(*                                                                         *)
(* A process is named by its slot of process_table.  Slot 0 is idle_pcb,   *)
(* the context that boots the machine.  Who may call what, process ids,    *)
(* parents and waitpid are the business of module Process, which           *)
(* implements this one.                                                    *)
(***************************************************************************)
EXTENDS Naturals, Sequences, FiniteSets, SequencesExt, ProcessLimits

CONSTANTS
    MAX_PRIORITY,         \* the least urgent priority (255)
    AGING_THRESHOLD,      \* scheduling passes a process waits for a promotion (5)
    AGING_STEP,           \* by how much a promotion lowers the number (32)
    priority_time_slices, \* ticks granted per bucket (<<4,4,3,3,2,2,2,1,1,1,1>>)
    Priorities,           \* the priorities processes are created with
    NiceValues            \* the priorities nice is asked for

MIN_PRIORITY == 0
Proc     == 0 .. MAX_PROCESSES - 1
Idle     == 0
Priority == MIN_PRIORITY .. MAX_PRIORITY
PRIORITY_BUCKETS == Len(priority_time_slices)
MaxSlice == 1 + Max({priority_time_slices[b] : b \in DOMAIN priority_time_slices})

ASSUME SchedulerAssumption ==
    /\ MAX_PROCESSES \in Nat \ {0}
    /\ MAX_PRIORITY \in Nat \ {0}
    /\ AGING_THRESHOLD \in Nat \ {0}
    /\ AGING_STEP \in Nat \ {0}
    /\ priority_time_slices \in Seq(Nat)
    /\ PRIORITY_BUCKETS > 0
    /\ MaxSlice \in Nat \ {0}
    /\ Priorities \subseteq Priority
    /\ NiceValues \subseteq Priority

VARIABLES
    pcb,          \* the scheduling fields of process_table
    ready_queue,  \* the FIFO of slots waiting for the CPU
    current       \* the slot of current_process

schedVars == <<pcb, ready_queue, current>>

State == {"READY", "RUNNING", "BLOCKED", "TERMINATED"}

(* scheduler_counter is only ever compared with a time slice: it is counted *)
(* up to MaxSlice, beyond which every comparison has the same outcome.      *)
PCB == [state: State, priority: Priority, base_priority: Priority,
        saved_priority: Priority, boost: BOOLEAN,
        scheduler_counter: 0 .. MaxSlice,
        waiting_ticks: 0 .. AGING_THRESHOLD - 1]

(* A slot nobody uses.  The fields of a terminated process are never read   *)
(* again before create_process_internal sets all of them.                   *)
FreeSlot == [state |-> "TERMINATED", priority |-> 0, base_priority |-> 0,
             saved_priority |-> 0, boost |-> FALSE, scheduler_counter |-> 0,
             waiting_ticks |-> 0]

NewProcess(prio) ==
    [FreeSlot EXCEPT !.state = "READY", !.priority = prio,
                     !.base_priority = prio, !.saved_priority = prio]

Alive(p) == pcb[p].state # "TERMINATED"

-----------------------------------------------------------------------------
(* Time slices *)

normalize_priority(prio) ==
    (prio * (PRIORITY_BUCKETS - 1) + MAX_PRIORITY \div 2) \div MAX_PRIORITY

get_time_slice_budget(prio) ==
    LET slice == priority_time_slices[normalize_priority(prio) + 1]
    IN  IF slice = 0 THEN 1 ELSE slice

Bump(counter) == IF counter < MaxSlice THEN counter + 1 ELSE counter

-----------------------------------------------------------------------------
(* The ready queue.  t is a process table, q a queue: a handler computes    *)
(* with both before it stores them.                                         *)

IsFull(q) == Len(q) >= MAX_PROCESSES

(* add_to_ready_queue, called with a process in state READY. *)
add_to_ready_queue(q, p) == IF IsFull(q) THEN q ELSE Append(q, p)

(* A faulty variant for the mutation runs: the process stays in the queue. *)
removeFromScheduler_Forgotten(q, p) == q

removeFromScheduler(q, p) == RemoveFirst(q, p)

(* A faulty variant for the mutation runs: waiting_ticks is not reset. *)
Aged_TicksKept(proc) ==
    [proc EXCEPT !.waiting_ticks = IF proc.priority = MIN_PRIORITY THEN 0 ELSE @ + 1]

(* A faulty variant for the mutation runs: nobody is ever promoted. *)
Aged_NoPromotion(proc) ==
    [proc EXCEPT !.waiting_ticks = (@ + 1) % AGING_THRESHOLD]

(* One scheduling pass over a process that waits in the queue: at MIN_PRIORITY *)
(* it only waits, otherwise every AGING_THRESHOLD passes promote it.           *)
Aged(proc) ==
    LET promoted == IF proc.priority > AGING_STEP
                    THEN proc.priority - AGING_STEP ELSE MIN_PRIORITY
    IN  IF proc.priority = MIN_PRIORITY
        THEN [proc EXCEPT !.waiting_ticks = 0]
        ELSE IF proc.waiting_ticks + 1 >= AGING_THRESHOLD
             THEN [proc EXCEPT !.waiting_ticks = 0, !.priority = promoted]
             ELSE [proc EXCEPT !.waiting_ticks = @ + 1]

apply_aging_to_ready_processes(t, q) ==
    [p \in Proc |-> IF t[p].state = "READY" /\ \E i \in DOMAIN q : q[i] = p
                    THEN Aged(t[p]) ELSE t[p]]

(* A faulty variant for the mutation runs: the last of equals wins. *)
IsNext_LastOfEquals(t, q, i) ==
    /\ t[q[i]].state # "TERMINATED"
    /\ \A j \in DOMAIN q :
          t[q[j]].state # "TERMINATED" =>
             \/ t[q[i]].priority < t[q[j]].priority
             \/ t[q[i]].priority = t[q[j]].priority /\ i >= j

(* remove_from_ready_queue picks index i: the most urgent live process, and *)
(* the one that has waited longest among the equally urgent.                *)
IsNext(t, q, i) ==
    /\ t[q[i]].state # "TERMINATED"
    /\ \A j \in DOMAIN q :
          t[q[j]].state # "TERMINATED" =>
             \/ t[q[i]].priority < t[q[j]].priority
             \/ t[q[i]].priority = t[q[j]].priority /\ i <= j

-----------------------------------------------------------------------------
(* schedule() *)

Continues(t) ==
    /\ t[current].state = "RUNNING"
    /\ t[current].scheduler_counter + 1 < get_time_slice_budget(t[current].priority)

KeepRunning(t, q) ==
    /\ pcb' = [t EXCEPT ![current].scheduler_counter = Bump(@)]
    /\ ready_queue' = q
    /\ UNCHANGED current

(* The current process, when it still runs, goes to the tail of the queue;  *)
(* if the queue is full it is terminated on the spot.                       *)
Preempted(t, q) ==
    IF t[current].state # "RUNNING" THEN t
    ELSE IF IsFull(q) THEN [t EXCEPT ![current] = FreeSlot]
    ELSE [t EXCEPT ![current].state = "READY",
                   ![current].scheduler_counter = 0,
                   ![current].waiting_ticks = 0]

QueueAfterPreemption(t, q) ==
    IF t[current].state # "RUNNING" THEN q ELSE add_to_ready_queue(q, current)

(* The boosted or aged priority that won the CPU is given back here. *)
Dispatch(t, q, p) ==
    /\ pcb' = [t EXCEPT ![p].state = "RUNNING",
                        ![p].scheduler_counter = Bump(@),
                        ![p].waiting_ticks = 0,
                        ![p].priority = t[p].base_priority]
    /\ ready_queue' = q
    /\ current' = p

(* Without a live process in the queue the CPU goes to idle_pcb, in whatever *)
(* state it is.                                                              *)
Switch(t, q) ==
    \/ \E i \in DOMAIN q : IsNext(t, q, i) /\ Dispatch(t, RemoveAt(q, i), q[i])
    \/ /\ \A i \in DOMAIN q : t[q[i]].state = "TERMINATED"
       /\ Dispatch(t, <<>>, Idle)

Schedule(t, q) ==
    IF Continues(t) THEN KeepRunning(t, q)
    ELSE \E q1 \in {QueueAfterPreemption(t, q)} :
         \E t1 \in {apply_aging_to_ready_processes(Preempted(t, q), q1)} :
            Switch(t1, q1)

(* A handler that leaves the CPU to the current process. *)
Return(t, q) ==
    /\ pcb' = t
    /\ ready_queue' = q
    /\ UNCHANGED current

-----------------------------------------------------------------------------
(* The foreground boost *)

(* A faulty variant for the mutation runs: the priority is not saved. *)
Boosted_NotSaved(proc) ==
    IF proc.boost THEN proc ELSE [proc EXCEPT !.priority = MIN_PRIORITY, !.boost = TRUE]

Boosted(proc) ==
    IF proc.boost THEN proc
    ELSE [proc EXCEPT !.saved_priority = proc.priority,
                      !.priority = MIN_PRIORITY, !.boost = TRUE]

Unboosted(proc) ==
    IF proc.boost THEN [proc EXCEPT !.priority = proc.saved_priority, !.boost = FALSE]
    ELSE proc

(* set_foreground_process: boosts the new owner, then restores the old one. *)
WithForeground(t, p) ==
    [o \in Proc |-> IF o = p THEN Boosted(t[o]) ELSE Unboosted(t[o])]

release_foreground_owner(t) == [o \in Proc |-> Unboosted(t[o])]

-----------------------------------------------------------------------------
(* The handlers *)

SchedulerInit ==
    /\ pcb = [p \in Proc |-> IF p = Idle THEN [FreeSlot EXCEPT !.state = "RUNNING"]
                             ELSE FreeSlot]
    /\ ready_queue = <<>>
    /\ current = Idle

(* The timer interrupt, yield() and every forced int 0x20. *)
Tick == Schedule(pcb, ready_queue)

(* create_process_internal: a slot leaves TERMINATED; when the queue has no *)
(* room it falls back.  fg is assign_foreground.                            *)
Admit(p, prio, fg) ==
    LET t == [pcb EXCEPT ![p] = NewProcess(prio)]
    IN  /\ p # Idle
        /\ pcb[p].state = "TERMINATED"
        /\ ~ IsFull(ready_queue)
        /\ Return(IF fg THEN WithForeground(t, p) ELSE t,
                  add_to_ready_queue(ready_queue, p))

(* terminate_process, its last part: the process gives up the foreground,   *)
(* its state and its place in the queue; the CPU too if it has it.          *)
Retire(p) ==
    LET t == [pcb EXCEPT ![p] = FreeSlot]
        q == removeFromScheduler(ready_queue, p)
    IN  /\ p # Idle
        /\ Alive(p)
        /\ IF p = current THEN Schedule(t, q) ELSE Return(t, q)

(* block_process and, for the caller itself, waitpid; only waitpid can *)
(* block idle_pcb.                                                        *)
Block(p) ==
    LET t == [pcb EXCEPT ![p].state = "BLOCKED", ![p].waiting_ticks = 0]
        q == removeFromScheduler(ready_queue, p)
    IN  /\ pcb[p].state \in {"READY", "RUNNING"}
        /\ p = Idle => current = Idle
        /\ IF p = current THEN Schedule(t, q) ELSE Return(t, q)

(* The table and the queue once unblock_process has woken p. *)
UnblockedTable(p) ==
    [pcb EXCEPT ![p].state = "READY", ![p].waiting_ticks = 0]

(* A faulty variant for the mutation runs: any process is unblocked. *)
unblock_process_AnyState(p) ==
    Return(UnblockedTable(p), add_to_ready_queue(ready_queue, p))

unblock_process(p) ==
    /\ pcb[p].state = "BLOCKED"
    /\ Return(UnblockedTable(p), add_to_ready_queue(ready_queue, p))

(* The end of sem_post: wake a waiter, then force a scheduling pass. *)
WakeAndSwitch(p) ==
    /\ p # Idle
    /\ pcb[p].state = "BLOCKED"
    /\ Schedule(UnblockedTable(p), add_to_ready_queue(ready_queue, p))

change_priority(p, prio) ==
    LET proc  == [pcb[p] EXCEPT !.base_priority = prio, !.waiting_ticks = 0]
    IN  /\ p # Idle
        /\ Alive(p)
        /\ Return([pcb EXCEPT ![p] = IF proc.boost
                                     THEN [proc EXCEPT !.saved_priority = prio]
                                     ELSE [proc EXCEPT !.priority = prio]],
                  ready_queue)

set_foreground_process(p) ==
    /\ p # Idle
    /\ Alive(p)
    /\ Return(WithForeground(pcb, p), ready_queue)

clear_foreground_process ==
    Return(release_foreground_owner(pcb), ready_queue)

SchedulerNext ==
    \/ Tick
    \/ clear_foreground_process
    \/ \E p \in Proc :
          \/ Retire(p)
          \/ Block(p)
          \/ unblock_process(p)
          \/ WakeAndSwitch(p)
          \/ set_foreground_process(p)
          \/ \E prio \in NiceValues : change_priority(p, prio)
          \/ \E prio \in Priorities, fg \in BOOLEAN : Admit(p, prio, fg)

SchedulerSpec == SchedulerInit /\ [][SchedulerNext]_schedVars

-----------------------------------------------------------------------------
(* Properties *)

(* Every variable stays in its type. *)
TypeOK ==
    /\ pcb \in [Proc -> PCB]
    /\ ready_queue \in Seq(Proc)
    /\ current \in Proc

(* The ready queue holds every READY process, nothing else, and nobody      *)
(* twice: no process is forgotten, none gets two turns, and a blocked or    *)
(* dead one is never dispatched, whatever the handlers did to it while it   *)
(* waited.                                                                  *)
QueueIsReadySet ==
    /\ \A i, j \in DOMAIN ready_queue : ready_queue[i] = ready_queue[j] => i = j
    /\ \A p \in Proc :
          pcb[p].state = "READY" <=> \E i \in DOMAIN ready_queue : ready_queue[i] = p

(* The process on the CPU, and no other, is RUNNING. *)
OnlyCurrentRuns ==
    \A p \in Proc : pcb[p].state = "RUNNING" <=> p = current

(* A preempted process always finds room in the queue, so that schedule()   *)
(* never has to terminate it for want of a place.                           *)
RoomForCurrent == ~ IsFull(ready_queue)

(* Ageing and the foreground boost only ever favour a process: its          *)
(* effective priority is never worse than the one nice gave it, and         *)
(* releasing the foreground does not make it worse.  A boosted process that *)
(* has been dispatched and then reniced is the exception the code makes.    *)
NeverWorseThanNice ==
    \A p \in Proc :
        IF pcb[p].boost THEN pcb[p].saved_priority <= pcb[p].base_priority
        ELSE pcb[p].priority <= pcb[p].base_priority

(* Nobody overtakes a process that has reached the top priority: when the   *)
(* CPU goes to another process, that one was further ahead in the queue.    *)
(* This bounded bypass is what makes ageing effective.                      *)
NoOvertakingAtTheTop ==
    [][ \A i \in DOMAIN ready_queue :
          LET p == ready_queue[i]
          IN  /\ current' # current
              /\ pcb[p].priority = MIN_PRIORITY
              /\ pcb'[p].state = "READY"
              => \E k \in 1 .. i - 1 : ready_queue[k] = current'
      ]_schedVars

(* The timer never stops. *)
SchedulerFairness == WF_schedVars(Tick)

(* No process starves: a READY process eventually leaves the queue, for the *)
(* CPU unless somebody blocks or kills it first, however many processes are *)
(* created, woken and boosted around it.  Only nice can hold it back, which *)
(* takes its age away each time it is called: checked with NiceValues = {}. *)
NoStarvation ==
    \A p \in Proc : pcb[p].state = "READY" ~> pcb[p].state # "READY"

FairScheduler == SchedulerSpec /\ SchedulerFairness
=============================================================================
