------------------------------- MODULE Timer -------------------------------
(***************************************************************************)
(* The tick counter of the kernel (src/Kernel/time.c) and the sleep that   *)
(* is a loop of hlt on it.  Interrupt 0x20 is raised by the timer, by      *)
(* force_context_switch (yield and the spinlock), and by                   *)
(* _force_scheduler_interrupt, which sets a flag first so that its         *)
(* interrupt is not counted.  The flag is one byte for all processes:      *)
(* where interrupts are enabled (in a process that returns from main, or   *)
(* after a sleep in a semaphore) the timer may come between the two        *)
(* instructions and take the flag.                                         *)
(***************************************************************************)
EXTENDS Integers, FiniteSets

CONSTANTS Proc,      \* processes
          Secs,      \* arguments of sleepUser
          PerSecond, \* USERLAND_SECONDS_TO_TICKS
          INT_MAX,
          ULONG_MAX,
          MaxReal    \* bound: interrupts that count

TimerAssumption ==
    /\ IsFiniteSet(Proc) /\ Proc # {}
    /\ Secs \subseteq Int
    /\ PerSecond \in Nat \ {0}
    /\ INT_MAX \in Nat /\ ULONG_MAX \in Nat /\ ULONG_MAX > 2 * INT_MAX + 1
    /\ MaxReal \in Nat

VARIABLES ticks,         \* the counter
          manual,        \* manually_triggered_timer_interrupt
          current,       \* the process that has the CPU
          doing,         \* where each process is
          current_ticks, \* sleep: the local variable
          time,          \* sleep: the argument
          real,          \* interrupts of the timer and of yields (not in the code)
          asked          \* the seconds asked for and when (not in the code)

timerVars == <<ticks, manual, current, doing, current_ticks, time, real, asked>>

\* "forcing": between the two instructions of _force_scheduler_interrupt;
\* "struck": killed there, after the timer took its flag
Points == {"user", "forcing", "asleep", "struck", "dead"}

Living == {p \in Proc : doing[p] \notin {"struck", "dead"}}

---------------------------------------------------------------------------
(* Integers of the machine *)

AsInt(n) == ((n + INT_MAX + 1) % (2 * INT_MAX + 2)) - (INT_MAX + 1)

AsLong(n) == n % (ULONG_MAX + 1)

---------------------------------------------------------------------------
(* The interrupt *)

timer_handler ==
    IF manual THEN manual' = FALSE /\ UNCHANGED ticks
    ELSE ticks' = AsLong(ticks + 1) /\ UNCHANGED manual

Switch == current' \in Living

Tick ==
    /\ real < MaxReal
    /\ real' = real + 1
    /\ timer_handler
    /\ Switch
    /\ UNCHANGED <<doing, current_ticks, time, asked>>

(* yield, and a turn of spinlock_lock: an interrupt like the timer's, which *)
(* it counts.                                                              *)
force_context_switch == doing[current] = "user" /\ Tick

(* With interrupts masked the flag is set and taken in one step. *)
ForcedSwitch ==
    /\ doing[current] = "user"
    /\ manual' = FALSE
    /\ Switch
    /\ UNCHANGED <<ticks, doing, current_ticks, time, real, asked>>

SetFlag ==
    /\ doing[current] = "user"
    /\ manual' = TRUE
    /\ doing' = [doing EXCEPT ![current] = "forcing"]
    /\ UNCHANGED <<ticks, current, current_ticks, time, real, asked>>

RaiseInterrupt ==
    /\ doing[current] = "forcing"
    /\ timer_handler
    /\ doing' = [doing EXCEPT ![current] = "user"]
    /\ current' \in Living
    /\ UNCHANGED <<current_ticks, time, real, asked>>

(* Any process can be killed, by another or by Ctrl+C; when it has the CPU *)
(* terminate_process ends in a forced switch.                              *)
KillsProcess(p) ==
    /\ p \in Living /\ Living # {p}
    /\ doing' = [doing EXCEPT ![p] =
                IF doing[p] = "forcing" /\ ~ (p = current /\ manual)
                THEN "struck" ELSE "dead"]
    /\ IF p = current
       THEN manual' = FALSE /\ current' \in Living \ {p}
       ELSE UNCHANGED <<manual, current>>
    /\ UNCHANGED <<ticks, current_ticks, time, real, asked>>

---------------------------------------------------------------------------
(* Sleep *)

AtLeastOne(segs) == IF segs <= 0 THEN 1 ELSE segs

(* sleepUser: the product is an int. *)
TicksOf(segs) ==
    LET n == AsInt(AtLeastOne(segs) * PerSecond)
    IN  IF n <= 0 THEN PerSecond ELSE n

(* A faulty variant for the mutation runs: the boundary tick is not slept. *)
StillWaits_Strict(p) == AsLong(AsInt(current_ticks[p] + time[p])) > ticks

(* The sum is an int; to compare it the compiler makes it unsigned long,   *)
(* which turns a negative sum into a huge one.                             *)
StillWaits(p) == AsLong(AsInt(current_ticks[p] + time[p])) >= ticks

sleep(segs) ==
    /\ doing[current] = "user"
    /\ doing' = [doing EXCEPT ![current] = "asleep"]
    /\ current_ticks' = [current_ticks EXCEPT ![current] = AsInt(ticks)]
    /\ time' = [time EXCEPT ![current] = TicksOf(segs)]
    /\ asked' = [asked EXCEPT ![current] = [secs |-> AtLeastOne(segs), at |-> real]]
    /\ UNCHANGED <<ticks, manual, current, real>>

(* The condition is looked at when the process has the CPU again. *)
SleepOn ==
    /\ doing[current] = "asleep"
    /\ StillWaits(current)
    /\ UNCHANGED timerVars

WakeUp ==
    /\ doing[current] = "asleep"
    /\ ~ StillWaits(current)
    /\ doing' = [doing EXCEPT ![current] = "user"]
    /\ current_ticks' = [current_ticks EXCEPT ![current] = 0]
    /\ time' = [time EXCEPT ![current] = 0]
    /\ asked' = [asked EXCEPT ![current] = [secs |-> 1, at |-> 0]]
    /\ UNCHANGED <<ticks, manual, current, real>>

---------------------------------------------------------------------------

TimerInit ==
    /\ ticks = 0 /\ manual = FALSE /\ real = 0
    /\ current \in Proc
    /\ doing = [p \in Proc |-> "user"]
    /\ current_ticks = [p \in Proc |-> 0]
    /\ time = [p \in Proc |-> 0]
    /\ asked = [p \in Proc |-> [secs |-> 1, at |-> 0]]

TimerNext ==
    \/ Tick
    \/ force_context_switch
    \/ ForcedSwitch
    \/ SetFlag
    \/ RaiseInterrupt
    \/ \E p \in Proc : KillsProcess(p)
    \/ \E segs \in Secs : sleep(segs)
    \/ SleepOn
    \/ WakeUp

TimerSpec == TimerInit /\ [][TimerNext]_timerVars

---------------------------------------------------------------------------
(* Properties *)

(* The counter, the flag and the places of the processes are of their      *)
(* types, and the process that has the CPU is alive (time.c, irqDispatcher). *)
TimerTypeOK ==
    /\ ticks \in 0 .. ULONG_MAX
    /\ manual \in BOOLEAN
    /\ real \in 0 .. MaxReal
    /\ current \in Living
    /\ doing \in [Proc -> Points]
    /\ \A p \in Proc : current_ticks[p] = AsInt(current_ticks[p])
    /\ \A p \in Proc : time[p] = AsInt(time[p])

(* Who sleeps for so many seconds is not woken before as many interrupts,  *)
(* but for the ticks that other processes held back when he fell asleep.   *)
SleepLasts ==
    \A p \in Proc :
        doing[p] = "asleep" /\ ~ StillWaits(p) =>
            real - asked[p].at
                >= asked[p].secs * PerSecond + 2 - Cardinality(Proc)

(* Who has slept for so many seconds, and for the ticks that others may    *)
(* hold back now, wakes when he has the CPU.                               *)
SleepEnds ==
    \A p \in Proc :
        /\ doing[p] = "asleep"
        /\ real - asked[p].at >= asked[p].secs * PerSecond + Cardinality(Proc)
        => ~ StillWaits(p)

(* A sleep ends neither early nor late (sleep in time.c), although the      *)
(* timer may take the flag of a forced switch at any point.                *)
SleepIsOnTime == SleepLasts /\ SleepEnds

=============================================================================
