------------------------------- MODULE Process -------------------------------
(***************************************************************************)
(* The life cycle of a process in Kernel/scheduler/process.c: creation in  *)
(* a free slot of process_table, exit, kill with all descendants, waitpid, *)
(* the foreground owner that Ctrl+C kills, and the reaping of dead slots.  *)
(*                                                                         *)
(* Module Scheduler gives the table's scheduling fields, the ready queue   *)
(* and schedule(); this module adds the identity of a process and shows    *)
(* that every step is one of the scheduler's.                              *)
(*                                                                         *)
(* A system call runs with interrupts masked, as one step.  The exception  *)
(* is terminate_process, a recursion over the family tree: its activations *)
(* are the frames on the stack of the process that runs it.  It need not   *)
(* run to its end: when it terminates that very process, schedule() never  *)
(* comes back.  With interrupts masked nothing else happens meanwhile; a   *)
(* process that returns from its main function calls it from               *)
(* process_entry_wrapper with interrupts enabled, and can be preempted.    *)
(*                                                                         *)
(* The semaphores reach the table through block_process, unblock_process   *)
(* and a forced int 0x20 only.  Pipes, memory and arguments of a process   *)
(* are left out.                                                           *)
(***************************************************************************)
EXTENDS Scheduler, Integers

CONSTANTS
    CLEANUP_INTERVAL,  \* every how many calls schedule() reaps (3)
    MaxPid             \* bound: no process is created with a greater pid

ASSUME ProcessAssumption ==
    /\ CLEANUP_INTERVAL \in Nat \ {0}
    /\ MaxPid \in Nat

VARIABLES
    family,           \* pid, parent_pid and waiting_pid of process_table
    foreground,       \* foregroundProcessPid
    next_pid,
    cleanup_counter,
    pending_cleanup,  \* the slot of pending_cleanup_process
    frames,           \* by stack, activations of terminate_process, innermost last
    boot,             \* where the boot context, slot 0, is in its program
    preempted         \* history: an exit was interrupted, and others have run

processVars == <<pcb, ready_queue, current, family, foreground, next_pid,
                 cleanup_counter, pending_cleanup, frames, boot, preempted>>

None  == -1
Pid   == 0 .. MaxPid
Shell == 1   \* the pid of the first process created

Family == [pid: Pid \union {None}, parent_pid: Pid \union {None},
           waiting_pid: Pid \union {None}]

Released == [pid |-> None, parent_pid |-> None, waiting_pid |-> None]

(* What is left to do, the next slot to look at, kill_descendants, and     *)
(* whether it runs with interrupts masked.                                 *)
Frame == [slot: Proc, todo: {"waiters", "children", "die"}, next: 0 .. MAX_PROCESSES,
          kill: BOOLEAN, masked: BOOLEAN]

(* The program of the boot context: main of sampleCodeModule.c creates the *)
(* shell and waits for it; then main of kernel.c returns and the loader    *)
(* masks the interrupts and halts.                                         *)
BootState == {"start", "created", "leaving", "halted"}

-----------------------------------------------------------------------------
(* Finding and releasing slots *)

(* The first slot with this pid, none when there is no such process. *)
get_process_by_pid(fam, x) ==
    {p \in Proc : fam[p].pid = x /\ \A o \in Proc : fam[o].pid = x => p <= o}

(* A faulty variant for the mutation runs: slots are reaped that are not in the queue. *)
Dead_NotQueued(t) ==
    {p \in Proc \ {Idle, current} : ~ \E i \in DOMAIN ready_queue : ready_queue[i] = p}

Dead(t) == {p \in Proc \ {Idle, current} : t[p].state = "TERMINATED"}

(* release_process_resources, for every slot of a set. *)
release_process_resources(fam, S) == [p \in Proc |-> IF p \in S THEN Released ELSE fam[p]]

PendingAfter(pending, S) == IF pending \in S THEN None ELSE pending

(* The slots schedule() releases before it looks at the current process. *)
Reaped(t, pending) ==
    LET count == cleanup_counter + 1
    IN  (IF count >= CLEANUP_INTERVAL \/ count = 1 THEN Dead(t) ELSE {})
          \union ({pending} \ {None, current})

CountAfter ==
    IF cleanup_counter + 1 >= CLEANUP_INTERVAL THEN 0 ELSE cleanup_counter + 1

(* removeFromScheduler of the slots of S: without one of them in it the queue *)
(* is left alone.                                                             *)
WithoutSlots(q, S) ==
    IF \E i \in DOMAIN q : q[i] \in S THEN SelectSeq(q, LAMBDA p : p \notin S) ELSE q

(* schedule() called with table t, queue q, family fam. *)
RunScheduler(t, q, fam, pending) ==
    \E S \in {Reaped(t, pending)} :
        /\ Schedule(t, WithoutSlots(q, S))
        /\ family' = release_process_resources(fam, S)
        /\ pending_cleanup' = PendingAfter(pending, S)
        /\ cleanup_counter' = CountAfter

NoReaping == UNCHANGED <<pending_cleanup, cleanup_counter>>

-----------------------------------------------------------------------------
(* The foreground owner *)

Owner(fam) == IF foreground = None THEN {} ELSE get_process_by_pid(fam, foreground)

WithOwnerRestored(t, fam) ==
    [p \in Proc |-> IF p \in Owner(fam) THEN Unboosted(t[p]) ELSE t[p]]

(* A faulty variant for the mutation runs: the old owner keeps the boost. *)
WithOwner_OldKept(t, fam, p) == [t EXCEPT ![p] = Boosted(@)]

(* set_foreground_process for a live process p that is not the owner. *)
WithOwner(t, fam, p) == WithOwnerRestored([t EXCEPT ![p] = Boosted(@)], fam)

-----------------------------------------------------------------------------
ProcessInit ==
    /\ SchedulerInit
    /\ family = [[p \in Proc |-> Released] EXCEPT ![Idle].pid = 0]
    /\ foreground = None
    /\ next_pid = 1
    /\ cleanup_counter = CLEANUP_INTERVAL - 1
    /\ pending_cleanup = None
    /\ frames = [p \in Proc |-> <<>>]
    /\ boot = "start"
    /\ preempted = FALSE

Terminating == frames[current] # <<>>
Top == Last(frames[current])

(* Interrupts are enabled: in user code, the boot context and an exit from  *)
(* process_entry_wrapper.                                                   *)
Enabled == boot # "halted" /\ (Terminating => ~ Top.masked)

UserRuns == boot # "halted" /\ ~ Terminating /\ current # Idle

(* The timer, yield, and the forced switch of sem_post and sem_close. *)
timer_handler ==
    /\ Enabled
    /\ RunScheduler(pcb, ready_queue, family, pending_cleanup)
    /\ preempted' = (preempted \/ Terminating)
    /\ UNCHANGED <<foreground, next_pid, frames, boot>>

(* create_process_internal: dead slots are released first, the first free  *)
(* one is taken.  waiting_pid is what the release left in the slot.  With  *)
(* every slot in use nothing but the release happens; when an argument,    *)
(* the stack or a pipe is refused the slot is left TERMINATED.             *)
create_process(prio, fg, ok) ==
    /\ next_pid <= MaxPid
    /\ \E S \in {Dead(pcb)} : \E fam \in {release_process_resources(family, S)} :
       LET free == {p \in Proc \ {Idle} : pcb[p].state = "TERMINATED"}
           p    == Min(free)
           t    == [pcb EXCEPT ![p] = NewProcess(prio)]
           q    == add_to_ready_queue(ready_queue, p)
           born == [fam EXCEPT ![p].pid = next_pid, ![p].parent_pid = fam[current].pid]
       IN  /\ pending_cleanup' = PendingAfter(pending_cleanup, S)
           /\ \/ /\ free = {}
                 /\ family' = fam
                 /\ Return(pcb, ready_queue)
                 /\ UNCHANGED <<next_pid, foreground>>
              \/ /\ free # {}
                 /\ family' = born
                 /\ next_pid' = next_pid + 1
                 /\ foreground' = IF ok /\ fg THEN next_pid ELSE foreground
                 /\ IF ok THEN Return(IF fg THEN WithOwner(t, born, p) ELSE t, q)
                    ELSE Return(pcb, ready_queue)
    /\ UNCHANGED <<cleanup_counter, frames, preempted>>

set_foreground_process_of(x) ==
    /\ foreground # x
    /\ \E p \in get_process_by_pid(family, x) :
          IF Alive(p)
          THEN /\ foreground' = x
               /\ Return(WithOwner(pcb, family, p), ready_queue)
          ELSE /\ foreground' = None
               /\ Return(WithOwnerRestored(pcb, family), ready_queue)
    /\ NoReaping
    /\ UNCHANGED <<family, next_pid, frames, boot, preempted>>

(* clear_foreground_process by the owner's pid, or set_foreground(-1). *)
release_foreground ==
    /\ foreground # None
    /\ foreground' = None
    /\ Return(WithOwnerRestored(pcb, family), ready_queue)
    /\ NoReaping
    /\ UNCHANGED <<family, next_pid, frames, boot, preempted>>

(* waitpid of the current process for x, which it may be itself.  The      *)
(* three later looks at the child see what the first one saw.              *)
WaitFor(x) ==
    LET t == [pcb EXCEPT ![current].state = "BLOCKED"]
        q == removeFromScheduler(ready_queue, current)
    IN  /\ \E p \in get_process_by_pid(family, x) : Alive(p)
        /\ RunScheduler(t, q, [family EXCEPT ![current].waiting_pid = x], pending_cleanup)

waitpid(x) == WaitFor(x) /\ UNCHANGED <<foreground, next_pid, frames, boot, preempted>>

(* sys_block on any process, and sem_wait on the current one. *)
block_process(x) ==
    /\ \E p \in get_process_by_pid(family, x) :
          LET t == [pcb EXCEPT ![p].state = "BLOCKED", ![p].waiting_ticks = 0]
              q == removeFromScheduler(ready_queue, p)
          IN  /\ pcb[p].state \notin {"TERMINATED", "BLOCKED"}
              /\ IF p = current THEN RunScheduler(t, q, family, pending_cleanup)
                 ELSE Return(t, q) /\ NoReaping /\ UNCHANGED family
    /\ UNCHANGED <<foreground, next_pid, frames, boot, preempted>>

(* A faulty variant for the mutation runs: any process is unblocked. *)
unblock_process_of_AnyState(x) ==
    /\ \E p \in get_process_by_pid(family, x) :
          Return(UnblockedTable(p), add_to_ready_queue(ready_queue, p))
    /\ NoReaping
    /\ UNCHANGED <<family, foreground, next_pid, frames, boot, preempted>>

(* sys_unblock, and sem_post or sem_close for a waiter of theirs. *)
unblock_process_of(x) ==
    /\ \E p \in get_process_by_pid(family, x) :
          /\ pcb[p].state = "BLOCKED"
          /\ Return(UnblockedTable(p), add_to_ready_queue(ready_queue, p))
    /\ NoReaping
    /\ UNCHANGED <<family, foreground, next_pid, frames, boot, preempted>>

nice(x, prio) ==
    /\ \E p \in get_process_by_pid(family, x) : change_priority(p, prio)
    /\ NoReaping
    /\ UNCHANGED <<family, foreground, next_pid, frames, boot, preempted>>

-----------------------------------------------------------------------------
(* terminate_process *)

Activation(p, kill, masked) ==
    [slot |-> p, todo |-> "waiters", next |-> 0, kill |-> kill, masked |-> masked]

Terminate(S, kill, masked) ==
    /\ \E p \in S : /\ Alive(p)
                    /\ frames' = [frames EXCEPT
                          ![current] = Append(@, Activation(p, kill, masked))]
    /\ UNCHANGED <<schedVars, family, foreground, next_pid, boot, preempted>>
    /\ NoReaping

kill_process(x) == UserRuns /\ Terminate(get_process_by_pid(family, x), TRUE, TRUE)

(* By sys_exit, or with interrupts enabled at the end of main. *)
exit_current_process ==
    /\ UserRuns
    /\ \E masked \in BOOLEAN : Terminate({current}, FALSE, masked)

(* The keyboard interrupt, on the stack of whoever runs. *)
handle_ctrl_c ==
    /\ Enabled
    /\ foreground > 0
    /\ Terminate(get_process_by_pid(family, foreground), TRUE, TRUE)

\* The innermost activation becomes f.
Continue(f) == frames' = [frames EXCEPT ![current] = Append(Front(@), f)]

(* A faulty variant for the mutation runs: a waiter that is awake stays registered. *)
Waiters_Blocked(p) ==
    {w \in Proc : family[w].waiting_pid = family[p].pid /\ pcb[w].state = "BLOCKED"}

Waiters(p) ==
    {w \in Proc : family[w].waiting_pid = family[p].pid /\ pcb[w].state # "TERMINATED"}

(* A faulty variant for the mutation runs: sleeping children are overlooked. *)
Children_Awake(p) ==
    {c \in Proc \ {Idle} : /\ family[c].parent_pid = family[p].pid
                          /\ pcb[c].state \in {"READY", "RUNNING"}}

Children(p) ==
    {c \in Proc \ {Idle} : family[c].parent_pid = family[p].pid /\ Alive(c)}

(* The table is walked once: waiters are woken in the order of their slots; *)
(* one that is not blocked only forgets whom it waits for.                  *)
WaitersAhead == {w \in Waiters(Top.slot) : w >= Top.next}

WakeWaiter ==
    /\ Terminating
    /\ Top.todo = "waiters"
    /\ WaitersAhead # {}
    /\ LET w == Min(WaitersAhead)
       IN  /\ family' = [family EXCEPT ![w].waiting_pid = None]
           /\ IF pcb[w].state = "BLOCKED"
              THEN Return(UnblockedTable(w), add_to_ready_queue(ready_queue, w))
              ELSE Return(pcb, ready_queue)
           /\ Continue([Top EXCEPT !.next = w + 1])
    /\ NoReaping
    /\ UNCHANGED <<foreground, next_pid, boot, preempted>>

WaitersWoken ==
    /\ Terminating
    /\ Top.todo = "waiters"
    /\ WaitersAhead = {}
    /\ family' = [family EXCEPT ![Top.slot].waiting_pid = None]
    /\ Continue([Top EXCEPT !.todo = "children", !.next = 0])
    /\ NoReaping
    /\ UNCHANGED <<schedVars, foreground, next_pid, boot, preempted>>

ChildrenAhead == {c \in Children(Top.slot) : c >= Top.next}

(* Of the next live child: a kill takes it first, in a recursive call, an   *)
(* exit hands it to the grandparent.                                        *)
NextChild ==
    /\ Terminating
    /\ Top.todo = "children"
    /\ ChildrenAhead # {}
    /\ LET c == Min(ChildrenAhead)
           up == [Top EXCEPT !.next = c + 1]
       IN  IF Top.kill
           THEN /\ frames' = [frames EXCEPT ![current] =
                                 Front(@) \o <<up, Activation(c, TRUE, TRUE)>>]
                /\ UNCHANGED family
           ELSE /\ family' = [family EXCEPT ![c].parent_pid = family[Top.slot].parent_pid]
                /\ Continue(up)
    /\ NoReaping
    /\ UNCHANGED <<schedVars, foreground, next_pid, boot, preempted>>

(* The foreground is given up, without the boost having to be taken back    *)
(* from a process that is about to die.                                     *)
ChildrenGone ==
    /\ Terminating
    /\ Top.todo = "children"
    /\ ChildrenAhead = {}
    /\ foreground' = IF foreground = family[Top.slot].pid THEN None ELSE foreground
    /\ Return(IF foreground = family[Top.slot].pid THEN WithOwnerRestored(pcb, family)
              ELSE pcb, ready_queue)
    /\ Continue([Top EXCEPT !.todo = "die"])
    /\ NoReaping
    /\ UNCHANGED <<family, next_pid, boot, preempted>>

(* The process dies.  If it is the one that runs, the CPU is given away    *)
(* and with its stack all the activations are gone; otherwise the caller   *)
(* goes on.                                                                *)
FinishTermination ==
    /\ Terminating
    /\ Top.todo = "die"
    /\ LET p == Top.slot
           t == [pcb EXCEPT ![p] = FreeSlot]
           q == removeFromScheduler(ready_queue, p)
       IN  IF p = current
           THEN /\ RunScheduler(t, q, family, p)
                /\ frames' = [frames EXCEPT ![p] = <<>>]
           ELSE /\ Return(t, q)
                /\ frames' = [frames EXCEPT ![current] = Front(@), ![p] = <<>>]
                /\ NoReaping
                /\ UNCHANGED family
    /\ UNCHANGED <<foreground, next_pid, boot, preempted>>

terminate_process ==
    WakeWaiter \/ WaitersWoken \/ NextChild \/ ChildrenGone \/ FinishTermination

-----------------------------------------------------------------------------
(* The boot context, slot 0 *)

BootRuns == boot # "halted" /\ current = Idle /\ ~ Terminating

CreateShell ==
    /\ BootRuns
    /\ boot = "start"
    /\ \E prio \in Priorities, ok \in BOOLEAN :
          /\ create_process(prio, FALSE, ok)
          /\ boot' = IF ok THEN "created" ELSE "leaving"

(* waitpid returns at once when the shell is already gone. *)
WaitForShell ==
    /\ BootRuns
    /\ boot = "created"
    /\ boot' = "leaving"
    /\ IF \E p \in get_process_by_pid(family, Shell) : Alive(p)
       THEN WaitFor(Shell) /\ UNCHANGED <<foreground, next_pid, frames, preempted>>
       ELSE /\ UNCHANGED <<schedVars, family, foreground, next_pid, frames, preempted>>
            /\ NoReaping

(* main returns to the loader: cli; hlt.  This is what runs when schedule() *)
(* falls back on idle_pcb, too.                                             *)
Halt ==
    /\ BootRuns
    /\ boot = "leaving"
    /\ boot' = "halted"
    /\ UNCHANGED <<schedVars, family, foreground, next_pid, frames, preempted>>
    /\ NoReaping

Halted == boot = "halted" /\ UNCHANGED processVars

-----------------------------------------------------------------------------
SystemCall ==
    \/ release_foreground
    \/ \E prio \in Priorities, fg, ok \in BOOLEAN :
          create_process(prio, fg, ok) /\ UNCHANGED boot
    \/ \E x \in 1 .. next_pid - 1 :
          \/ set_foreground_process_of(x)
          \/ waitpid(x)
          \/ block_process(x)
          \/ unblock_process_of(x)
          \/ \E prio \in NiceValues : nice(x, prio)

ProcessNext ==
    \/ timer_handler
    \/ handle_ctrl_c
    \/ exit_current_process
    \/ \E x \in 1 .. next_pid - 1 : kill_process(x)
    \/ UserRuns /\ SystemCall
    \/ terminate_process
    \/ CreateShell \/ WaitForShell \/ Halt \/ Halted

ProcessSpec == ProcessInit /\ [][ProcessNext]_processVars

-----------------------------------------------------------------------------
(* Properties *)

(* Every variable stays in its type. *)
ProcessTypeOK ==
    /\ TypeOK
    /\ family \in [Proc -> Family]
    /\ foreground \in Pid \union {None}
    /\ next_pid \in 1 .. MaxPid + 1
    /\ cleanup_counter \in 0 .. CLEANUP_INTERVAL - 1
    /\ pending_cleanup \in Proc \union {None}
    /\ frames \in [Proc -> Seq(Frame)]
    /\ boot \in BootState
    /\ preempted \in BOOLEAN

(* A live process keeps its table entry and its stack: reaping takes only   *)
(* dead slots, never the one on whose stack the kernel runs, and a pid      *)
(* names one slot.                                                          *)
LiveSlotsAreKept ==
    /\ \A p \in Proc : Alive(p) => family[p].pid # None
    /\ \A p, r \in Proc : family[p].pid = family[r].pid /\ family[p].pid # None => p = r

(* A process registered in waitpid waits for one that lives, so that its    *)
(* death will wake it: no wake-up is lost, in whatever order child and      *)
(* parent come to exit and waitpid.  It holds as long as no exit has been   *)
(* preempted half way, which a return from main allows (preempted).         *)
NoLostWaiter ==
    ~ preempted /\ (\A p \in Proc : frames[p] = <<>>) =>
      \A p \in Proc : Alive(p) /\ family[p].waiting_pid # None =>
         \E c \in Proc : Alive(c) /\ family[c].pid = family[p].waiting_pid

(* The parent of a live process is alive and older: exit hands children     *)
(* over and kill takes them first, so that the family is a tree rooted in   *)
(* the boot context and the recursion of terminate_process is finite.  It   *)
(* holds as long as no exit has been preempted half way.                    *)
FamilyIsATree ==
    ~ preempted => \A p \in Proc \ {Idle} : Alive(p) =>
       \E r \in Proc : /\ Alive(r)
                      /\ family[r].pid = family[p].parent_pid
                      /\ family[r].pid < family[p].pid

(* The owner Ctrl+C would kill is the one process with the boost, and it is *)
(* alive; without an owner nobody has the boost.  It holds as long as no    *)
(* exit has been preempted half way.                                        *)
ForegroundIsBoosted ==
    ~ preempted =>
      /\ \A p \in Proc : pcb[p].boost <=> Alive(p) /\ family[p].pid = foreground
      /\ foreground # None => \E p \in Proc : pcb[p].boost

(* The README says that Ctrl+C kills the process in the foreground and      *)
(* process.h that kill_process ends a process: when the activations are     *)
(* over, the process they were started for is dead.                         *)
KillEndsTheTarget ==
    [][\A p \in Proc : frames[p] # <<>> /\ frames'[p] = <<>> =>
          pcb'[Head(frames[p]).slot].state = "TERMINATED"]_processVars

(* process.h says that waitpid waits until the child has ended: the boot    *)
(* context returns from it and halts the machine only after the shell died. *)
HaltsAfterTheShell ==
    boot = "halted" => \A p \in Proc : family[p].pid = Shell => ~ Alive(p)
=============================================================================
