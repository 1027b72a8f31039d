---------------------------- MODULE ProcessProofs ----------------------------
(***************************************************************************)
(* Proofs about Process: every step is a step of Scheduler or leaves the   *)
(* scheduler alone, and the table of processes is never torn: a live       *)
(* process keeps its slot, a pid names one slot, and the activations of    *)
(* terminate_process name live processes, whatever was interrupted.  The   *)
(* second part, on the family, has an invariant of its own, FamilyInv, and *)
(* so has the third, on test_process: RecordInv.                           *)
(*                                                                         *)
(* The inductive invariant ProcInv has five parts: the scheduler's Inv,    *)
(* Fresh and, of this module, TableInv (the identities), FramesInv (the    *)
(* stacks) and BoostInv (who may be boosted).  None can go: that the       *)
(* process about to die is alive, which Retire asks for, comes from the    *)
(* chain of growing pids on a stack, and that chain from the table's order *)
(* of parents before children; that waitpid may leave waiting_ticks alone  *)
(* comes from Fresh; that the boost is taken from the owner only, and not  *)
(* from all as Scheduler has it, from BoostInv.                            *)
(***************************************************************************)
EXTENDS TestProcesses, SchedulerProofs, WellFoundedInduction

Fresh == pcb[current].waiting_ticks = 0

TableInv ==
    /\ family \in [Proc -> Family]
    /\ next_pid \in 1 .. MaxPid + 1
    /\ foreground \in Pid \union {None}
    /\ foreground < next_pid
    /\ family[Idle].pid = 0
    /\ Alive(Idle)
    /\ \A p \in Proc :
          /\ family[p].pid < next_pid
          /\ Alive(p) => family[p].pid # None
          /\ p # Idle /\ family[p].pid # None =>
                /\ family[p].parent_pid # None
                /\ family[p].parent_pid < family[p].pid
    /\ \A p, r \in Proc :
          family[p].pid = family[r].pid /\ family[p].pid # None => p = r
    /\ pending_cleanup \in Proc \union {None}
    /\ pending_cleanup # None =>
          pending_cleanup # Idle /\ ~ Alive(pending_cleanup)
    /\ cleanup_counter \in 0 .. CLEANUP_INTERVAL - 1
    /\ boot \in BootState
    /\ preempted \in BOOLEAN

(* A stack holds at most one exit, of its own process and at the bottom,    *)
(* and above it kills of growing pids; with interrupts masked it is the     *)
(* stack of the process that runs.                                          *)
FramesInv ==
    /\ frames \in [Proc -> Seq(Frame)]
    /\ \A p \in Proc : \A i \in DOMAIN frames[p] :
          /\ frames[p][i].slot # Idle
          /\ Alive(frames[p][i].slot)
          /\ ~ frames[p][i].kill => i = 1 /\ frames[p][i].slot = p
          /\ frames[p][i].kill => frames[p][i].masked
          /\ p # current => ~ frames[p][i].masked
          /\ frames[p][i].kill =>
                \A j \in DOMAIN frames[p] :
                   i < j => family[frames[p][i].slot].pid
                              < family[frames[p][j].slot].pid

BoostInv == \A p \in Proc : pcb[p].boost => Alive(p) /\ family[p].pid = foreground

ProcInv == Inv /\ Fresh /\ TableInv /\ FramesInv /\ BoostInv

-----------------------------------------------------------------------------
(* Sets and sequences *)

LEMMA MinProperties ==
    ASSUME NEW S, S \subseteq Nat, S # {}
    PROVE  Min(S) \in S /\ \A y \in S : Min(S) <= y
<1>1. PICK x \in S : \A y \in S : ~ (<<y, x>> \in OpToRel(<, Nat))
  BY NatLessThanWellFounded, WFMin
<1>2. \A y \in S : x <= y
  <2>1. ASSUME NEW y \in S, y < x
        PROVE  <<y, x>> \in OpToRel(<, Nat)
    <3>1. <<y, x>> \in Nat \X Nat /\ <<y, x>>[1] = y /\ <<y, x>>[2] = x
      OBVIOUS
    <3>. QED
      BY <2>1, <3>1, Zenon DEF OpToRel
  <2>2. \A y \in S : ~ (y < x)
    BY <1>1, <2>1, Zenon
  <2>. QED
    BY <2>2
<1>. QED
  BY <1>2 DEF Min

(* The innermost activation of a stack that is not empty. *)
LEMMA TopProperties ==
    ASSUME NEW S, NEW s \in Seq(S), s # <<>>
    PROVE  /\ Len(s) \in Nat \ {0} /\ DOMAIN s = 1 .. Len(s)
           /\ \A i \in DOMAIN s : s[i] \in S
           /\ Last(s) = s[Len(s)] /\ Last(s) \in S
           /\ Front(s) \in Seq(S) /\ Len(Front(s)) = Len(s) - 1
           /\ DOMAIN Front(s) = 1 .. Len(s) - 1
           /\ \A i \in 1 .. Len(s) - 1 : Front(s)[i] = s[i]
<1>1. /\ Len(s) \in Nat \ {0} /\ DOMAIN s = 1 .. Len(s)
      /\ \A i \in DOMAIN s : s[i] \in S
  BY EmptySeq, ElementOfSeq, LenProperties
<1>2. Last(s) = s[Len(s)] /\ s[Len(s)] \in S
  BY <1>1 DEF Last
<1>3. /\ Front(s) \in Seq(S) /\ Len(Front(s)) = Len(s) - 1
      /\ \A i \in 1 .. Len(s) - 1 : Front(s)[i] = s[i]
  <2>1. 1 \in Int /\ Len(s) - 1 \in Int /\ \A k \in 1 .. Len(s) - 1 : s[k] \in S
    BY <1>1
  <2>. QED
    BY <1>1, <2>1, SubSeqProperties DEF Front
<1>. QED
  BY <1>1, <1>2, <1>3, LenProperties

(* Another activation in the place of the innermost one. *)
LEMMA ReplaceTop ==
    ASSUME NEW S, NEW s \in Seq(S), s # <<>>, NEW f \in S
    PROVE  /\ Append(Front(s), f) \in Seq(S)
           /\ DOMAIN Append(Front(s), f) = 1 .. Len(s)
           /\ Len(Append(Front(s), f)) = Len(s)
           /\ \A i \in 1 .. Len(s) - 1 : Append(Front(s), f)[i] = s[i]
           /\ Append(Front(s), f)[Len(s)] = f
<1> DEFINE r == Front(s)
<1>1. /\ r \in Seq(S) /\ Len(r) = Len(s) - 1 /\ Len(s) \in Nat \ {0}
      /\ \A i \in 1 .. Len(s) - 1 : r[i] = s[i]
  BY TopProperties
<1>. HIDE DEF r
<1>2. /\ Append(r, f) \in Seq(S) /\ Len(Append(r, f)) = Len(s)
      /\ \A i \in 1 .. Len(s) - 1 : Append(r, f)[i] = s[i]
      /\ Append(r, f)[Len(s)] = f
  BY <1>1, AppendProperties
<1>. QED
  BY <1>2, LenProperties DEF r

(* A recursive call: the innermost activation goes on, another is on top. *)
LEMMA PushTop ==
    ASSUME NEW s \in Seq(Frame), s # <<>>, NEW f \in Frame, NEW g \in Frame,
           NEW e \in Seq(Frame), Len(e) = 2, e[1] = f, e[2] = g
    PROVE  /\ Front(s) \o e \in Seq(Frame)
           /\ DOMAIN (Front(s) \o e) = 1 .. Len(s) + 1
           /\ Len(Front(s) \o e) = Len(s) + 1
           /\ \A i \in 1 .. Len(s) - 1 : (Front(s) \o e)[i] = s[i]
           /\ (Front(s) \o e)[Len(s)] = f
           /\ (Front(s) \o e)[Len(s) + 1] = g
<1> DEFINE r == Front(s)
<1>1. /\ r \in Seq(Frame) /\ Len(r) = Len(s) - 1 /\ Len(s) \in Nat \ {0}
      /\ \A i \in 1 .. Len(s) - 1 : r[i] = s[i]
  BY TopProperties
<1>. HIDE DEF r
<1>3. /\ r \o e \in Seq(Frame) /\ Len(r \o e) = Len(s) + 1
      /\ \A i \in 1 .. Len(s) + 1 :
            (r \o e)[i] = IF i <= Len(s) - 1 THEN r[i] ELSE e[i - (Len(s) - 1)]
  <2>1. /\ r \o e \in Seq(Frame) /\ Len(r \o e) = Len(r) + Len(e)
        /\ \A i \in 1 .. Len(r) + Len(e) :
              (r \o e)[i] = IF i <= Len(r) THEN r[i] ELSE e[i - Len(r)]
    BY <1>1, ConcatProperties
  <2>2. Len(r) + Len(e) = Len(s) + 1
    BY <1>1
  <2>. QED
    BY <1>1, <2>1, <2>2
<1>4. /\ \A i \in 1 .. Len(s) - 1 : (r \o e)[i] = s[i]
      /\ (r \o e)[Len(s)] = f
      /\ (r \o e)[Len(s) + 1] = g
  <2>1. (r \o e)[Len(s)] = e[1]
    BY <1>1, <1>3
  <2>2. (r \o e)[Len(s) + 1] = e[2]
    BY <1>1, <1>3
  <2>. QED
    BY <1>1, <1>3, <2>1, <2>2
<1>. QED
  BY <1>3, <1>4, LenProperties DEF r
-----------------------------------------------------------------------------
(* What schedule() leaves alone: it neither ends nor begins a life, and it  *)
(* gives the boost to nobody and takes it from nobody.                      *)

SameLife(t, u) ==
    \A p \in Proc : /\ u[p].state = "TERMINATED" <=> t[p].state = "TERMINATED"
                    /\ u[p].boost = t[p].boost

(* A dispatch ends no life, and who is dispatched is of age 0.             *)
LEMMA DispatchKeeps ==
    ASSUME NEW t \in [Proc -> PCB], NEW q, NEW p \in Proc,
           t[p].state # "TERMINATED", Dispatch(t, q, p)
    PROVE  SameLife(t, pcb') /\ pcb'[current'].waiting_ticks = 0
  BY DEF Dispatch, SameLife, PCB

(* Nor does a preemption end a life.                                       *)
LEMMA PreemptedKeeps ==
    ASSUME NEW t, NEW q, Consistent(t, q), current \in Proc,
           t[current].state # "READY"
    PROVE  SameLife(t, Preempted(t, q))
  BY RoomForOthers, SMTT(30) DEF Preempted, SameLife, Consistent, PCB

(* Nor does ageing.                                                        *)
LEMMA AgingKeeps ==
    ASSUME NEW t, NEW q, Consistent(t, q)
    PROVE  SameLife(t, apply_aging_to_ready_processes(t, q))
<1>1. ASSUME NEW r \in PCB
      PROVE  Aged(r).state = r.state /\ Aged(r).boost = r.boost
  BY DEF Aged, PCB
<1>. QED
  BY <1>1 DEF apply_aging_to_ready_processes, SameLife, Consistent

(* Nor does the choice of the next process.                                *)
LEMMA SwitchKeeps ==
    ASSUME NEW t, NEW q, Consistent(t, q), t[Idle].state # "TERMINATED",
           Switch(t, q)
    PROVE  SameLife(t, pcb') /\ pcb'[current'].waiting_ticks = 0
<1>1. t \in [Proc -> PCB] /\ \A i \in DOMAIN q : q[i] \in Proc
  BY ElementOfSeq, LenProperties DEF Consistent
<1>2. Idle \in Proc
  BY SchedulerAssumption DEF Idle, Proc
<1>3. ASSUME NEW i \in DOMAIN q, IsNext(t, q, i), Dispatch(t, RemoveAt(q, i), q[i])
      PROVE  SameLife(t, pcb') /\ pcb'[current'].waiting_ticks = 0
  BY <1>1, <1>3, DispatchKeeps DEF IsNext
<1>4. CASE Dispatch(t, <<>>, Idle)
  BY <1>1, <1>2, <1>4, DispatchKeeps
<1>. QED
  BY <1>3, <1>4 DEF Switch

(* schedule() as a whole ends no life and leaves its choice at age 0.      *)
LEMMA ScheduleKeeps ==
    ASSUME NEW t, NEW q, Consistent(t, q), current \in Proc,
           t[current].state # "READY", t[Idle].state # "TERMINATED",
           t[current].waiting_ticks = 0, Schedule(t, q)
    PROVE  SameLife(t, pcb') /\ pcb'[current'].waiting_ticks = 0
<1>0. t \in [Proc -> PCB] /\ Idle \in Proc
  BY SchedulerAssumption DEF Consistent, Idle, Proc
<1>1. CASE Continues(t)
  <2>1. pcb' = [t EXCEPT ![current].scheduler_counter = Bump(@)] /\ current' = current
    BY <1>1 DEF Schedule, KeepRunning
  <2>. QED
    BY <1>0, <2>1 DEF SameLife, PCB
<1>2. CASE ~ Continues(t)
  <2> DEFINE q1 == QueueAfterPreemption(t, q)
             t0 == Preempted(t, q)
             t1 == apply_aging_to_ready_processes(t0, q1)
  <2>1. Switch(t1, q1)
    BY <1>2 DEF Schedule
  <2>2. Consistent(t0, q1) /\ SameLife(t, t0)
    BY PreemptedConsistent, PreemptedKeeps
  <2>3. Consistent(t1, q1) /\ SameLife(t0, t1)
    BY <2>2, AgingConsistent, AgingKeeps
  <2>. HIDE DEF t0, q1, t1
  <2>4. t1[Idle].state # "TERMINATED"
    BY <1>0, <2>2, <2>3 DEF SameLife
  <2>5. SameLife(t1, pcb') /\ pcb'[current'].waiting_ticks = 0
    BY <2>1, <2>3, <2>4, SwitchKeeps
  <2>. QED
    BY <2>2, <2>3, <2>5 DEF SameLife
<1>. QED
  BY <1>1, <1>2

(* Nor does it put anybody but the boot context to sleep or wake him.      *)
SameSleep(t, u) ==
    \A p \in Proc \ {Idle} : u[p].state = "BLOCKED" <=> t[p].state = "BLOCKED"

(* Asleep before schedule() is asleep after it.                            *)
LEMMA ScheduleLeavesAsleep ==
    ASSUME NEW t, NEW q, Consistent(t, q), current \in Proc,
           t[current].state # "READY", Schedule(t, q)
    PROVE  SameSleep(t, pcb')
<1>1. ASSUME NEW u \in [Proc -> PCB], NEW r, NEW p \in Proc,
             p # Idle => u[p].state # "BLOCKED", Dispatch(u, r, p)
      PROVE  SameSleep(u, pcb')
  BY <1>1 DEF Dispatch, SameSleep, PCB
<1>2. ASSUME NEW u, NEW r, Consistent(u, r), Switch(u, r)
      PROVE  SameSleep(u, pcb')
  <2>1. /\ u \in [Proc -> PCB] /\ Idle \in Proc
        /\ \A i \in DOMAIN r : r[i] \in Proc /\ u[r[i]].state = "READY"
    BY <1>2, ElementOfSeq, LenProperties, SchedulerAssumption, SMTT(30)
       DEF Consistent, Queued, Idle, Proc
  <2>2. ASSUME NEW i \in DOMAIN r, Dispatch(u, RemoveAt(r, i), r[i])
        PROVE  SameSleep(u, pcb')
    BY <1>1, <2>1, <2>2
  <2>3. CASE Dispatch(u, <<>>, Idle)
    BY <1>1, <2>1, <2>3
  <2>. QED
    BY <1>2, <2>2, <2>3 DEF Switch
<1>3. CASE Continues(t)
  <2>1. pcb' = [t EXCEPT ![current].scheduler_counter = Bump(@)]
    BY <1>3 DEF Schedule, KeepRunning
  <2>. QED
    BY <2>1 DEF SameSleep, Consistent, PCB
<1>4. CASE ~ Continues(t)
  <2> DEFINE q1 == QueueAfterPreemption(t, q)
             t0 == Preempted(t, q)
             t1 == apply_aging_to_ready_processes(t0, q1)
  <2>1. Switch(t1, q1)
    BY <1>4 DEF Schedule
  <2>2. Consistent(t0, q1) /\ SameSleep(t, t0)
    <3>1. t \in [Proc -> PCB] /\ ~ IsFull(q)
      BY RoomForOthers DEF Consistent
    <3>2. /\ t[current].state # "RUNNING" => t0 = t
          /\ t[current].state = "RUNNING" =>
                /\ t0[current].state = "READY"
                /\ \A p \in Proc \ {current} : t0[p] = t[p]
      BY <3>1 DEF Preempted, PCB
    <3>. HIDE DEF t0
    <3>3. SameSleep(t, t0)
      BY <3>2 DEF SameSleep
    <3>. QED
      BY <3>3, PreemptedConsistent DEF t0
  <2>3. ASSUME NEW r \in PCB
        PROVE  Aged(r).state = r.state
    BY DEF Aged, PCB
  <2>4. Consistent(t1, q1) /\ SameSleep(t0, t1)
    BY <2>2, <2>3, AgingConsistent DEF apply_aging_to_ready_processes, SameSleep, Consistent
  <2>. HIDE DEF t0, q1, t1
  <2>5. SameSleep(t1, pcb')
    BY <1>2, <2>1, <2>4
  <2>. QED
    BY <2>2, <2>4, <2>5 DEF SameSleep
<1>. QED
  BY <1>3, <1>4

(* With no slot of S in it, the queue is left alone. *)
LEMMA NothingToRemove ==
    ASSUME NEW t, NEW q, Consistent(t, q), NEW S,
           \A p \in S : t[p].state = "TERMINATED"
    PROVE  WithoutSlots(q, S) = q
<1>1. \A i \in DOMAIN q : q[i] \in Proc /\ t[q[i]].state = "READY"
  BY ElementOfSeq, LenProperties DEF Consistent, Queued
<1>. QED
  BY <1>1 DEF WithoutSlots

(* What a handler leaves of the identities in fam: slots of the dead may    *)
(* have been released.                                                      *)
Reaps(t, fam) ==
    /\ family' \in [Proc -> Family]
    /\ \A p \in Proc :
          \/ family'[p] = fam[p]
          \/ family'[p] = Released /\ p # Idle /\ t[p].state = "TERMINATED"
    /\ pending_cleanup' \in Proc \union {None}
    /\ pending_cleanup' # None =>
          pending_cleanup' # Idle /\ t[pending_cleanup'].state = "TERMINATED"
    /\ cleanup_counter' \in 0 .. CLEANUP_INTERVAL - 1

(* A released slot is of the type of the table, and None is not a pid.     *)
LEMMA ReleasedType == Released \in Family /\ None \notin Proc /\ None \notin Pid
  BY SchedulerAssumption, ProcessAssumption DEF Released, Family, None, Proc, Pid

(* schedule() with the reaping before it: a step of Scheduler, and it      *)
(* reaps the dead only.                                                    *)
LEMMA RunSchedulerStep ==
    ASSUME NEW t, NEW q, Consistent(t, q), current \in Proc,
           t[current].state # "READY", t[Idle].state # "TERMINATED",
           t[current].waiting_ticks = 0,
           NEW fam \in [Proc -> Family],
           NEW pending \in Proc \union {None},
           pending # None => pending # Idle /\ t[pending].state = "TERMINATED",
           cleanup_counter \in 0 .. CLEANUP_INTERVAL - 1,
           RunScheduler(t, q, fam, pending)
    PROVE  /\ Schedule(t, q) /\ Reaps(t, fam)
           /\ SameLife(t, pcb') /\ SameSleep(t, pcb')
<1>1. PICK S \in {Reaped(t, pending)} :
         /\ Schedule(t, WithoutSlots(q, S))
         /\ family' = release_process_resources(fam, S)
         /\ pending_cleanup' = PendingAfter(pending, S)
         /\ cleanup_counter' = CountAfter
  BY Zenon DEF RunScheduler
<1>2. \A p \in S : p \in Proc \ {Idle} /\ t[p].state = "TERMINATED"
  BY DEF Reaped, Dead
<1>3. Schedule(t, q)
  BY <1>1, <1>2, NothingToRemove
<1>4. SameLife(t, pcb') /\ SameSleep(t, pcb')
  BY <1>3, ScheduleKeeps, ScheduleLeavesAsleep
<1>5. Reaps(t, fam)
  <2>1. cleanup_counter' \in 0 .. CLEANUP_INTERVAL - 1
    BY <1>1, ProcessAssumption DEF CountAfter
  <2>2. /\ family' \in [Proc -> Family]
        /\ \A p \in Proc :
              \/ family'[p] = fam[p]
              \/ family'[p] = Released /\ p # Idle /\ t[p].state = "TERMINATED"
    BY <1>1, <1>2, ReleasedType DEF release_process_resources
  <2>3. pending_cleanup' \in {pending, None}
    BY <1>1 DEF PendingAfter
  <2>. QED
    BY <2>1, <2>2, <2>3 DEF Reaps
<1>. QED
  BY <1>3, <1>4, <1>5

(* A pid names at most one slot, so that the first with it is the one. *)
LEMMA FoundProcess ==
    ASSUME TableInv, NEW x \in Pid, NEW p \in get_process_by_pid(family, x)
    PROVE  p \in Proc /\ family[p].pid = x /\ (x # 0 => p # Idle)
  BY DEF TableInv, get_process_by_pid

(* Whoever is boosted owns the foreground. *)
LEMMA OwnerIsFound ==
    ASSUME TableInv, BoostInv, NEW p \in Proc, pcb[p].boost
    PROVE  p \in Owner(family)
<1>1. foreground # None /\ family[p].pid = foreground
  BY DEF TableInv, BoostInv
<1>2. \A o \in Proc : family[o].pid = foreground => p <= o
  BY <1>1, SchedulerAssumption DEF TableInv, Proc
<1>. QED
  BY <1>1, <1>2 DEF Owner, get_process_by_pid
-----------------------------------------------------------------------------
(* Every step is one of the scheduler's, or leaves the scheduler alone.     *)

SchedulerStep == [SchedulerNext]_schedVars

(* What the scheduler's invariant says of the process on the CPU.          *)
LEMMA CurrentRuns ==
    ASSUME ProcInv
    PROVE  /\ pcb \in [Proc -> PCB]
           /\ Consistent(pcb, ready_queue)
           /\ ready_queue \in Seq(Proc)
           /\ current \in Proc /\ Idle \in Proc
           /\ pcb[current].state = "RUNNING" /\ pcb[current].waiting_ticks = 0
           /\ pcb[Idle].state # "TERMINATED"
           /\ ~ IsFull(ready_queue)
<1>1. /\ Consistent(pcb, ready_queue) /\ current \in Proc
      /\ pcb[current].state = "RUNNING" /\ pcb[current].waiting_ticks = 0
  BY DEF ProcInv, Inv, OnlyCurrentRuns, Fresh
<1>2. Idle \in Proc /\ pcb[Idle].state # "TERMINATED"
  BY SchedulerAssumption DEF Idle, Proc, ProcInv, TableInv, Alive
<1>3. ~ IsFull(ready_queue)
  BY <1>1, RoomForOthers
<1>. QED
  BY <1>1, <1>2, <1>3 DEF Consistent

(* What timer_handler does to the scheduler. *)
LEMMA TimerStep ==
    ASSUME ProcInv, RunScheduler(pcb, ready_queue, family, pending_cleanup)
    PROVE  /\ Tick
           /\ SameLife(pcb, pcb') /\ SameSleep(pcb, pcb')
           /\ Reaps(pcb, family)
<1>1. /\ family \in [Proc -> Family]
      /\ pending_cleanup \in Proc \union {None}
      /\ pending_cleanup # None =>
            pending_cleanup # Idle /\ pcb[pending_cleanup].state = "TERMINATED"
      /\ cleanup_counter \in 0 .. CLEANUP_INTERVAL - 1
  BY DEF ProcInv, TableInv, Alive
<1>2. pcb[current].state # "READY"
  BY CurrentRuns
<1>. QED
  BY <1>1, <1>2, CurrentRuns, RunSchedulerStep DEF Tick

(* The current process, taken off the queue with r in its slot, gives the   *)
(* CPU away; only a dead one may be left to be released.                    *)
LEMMA LeaveStep ==
    ASSUME ProcInv, NEW r \in PCB, r.state \in {"BLOCKED", "TERMINATED"},
           r.waiting_ticks = 0, r.state = "TERMINATED" => current # Idle,
           NEW fam \in [Proc -> Family],
           NEW pending \in {pending_cleanup, current},
           pending = current => r.state = "TERMINATED",
           RunScheduler([pcb EXCEPT ![current] = r],
                        removeFromScheduler(ready_queue, current), fam, pending)
    PROVE  /\ Schedule([pcb EXCEPT ![current] = r],
                       removeFromScheduler(ready_queue, current))
           /\ SameLife([pcb EXCEPT ![current] = r], pcb')
           /\ SameSleep([pcb EXCEPT ![current] = r], pcb')
           /\ Reaps([pcb EXCEPT ![current] = r], fam)
<1> DEFINE t == [pcb EXCEPT ![current] = r]
           q == removeFromScheduler(ready_queue, current)
<1>1. /\ t \in [Proc -> PCB] /\ current \in Proc
      /\ t[current] = r
      /\ \A o \in Proc \ {current} : t[o] = pcb[o]
      /\ t[Idle].state # "TERMINATED"
  BY CurrentRuns
<1>2. t[current].state # "READY" /\ t[current].waiting_ticks = 0
  BY <1>1
<1>3. /\ pending \in Proc \union {None}
      /\ pending # None => pending # Idle /\ t[pending].state = "TERMINATED"
      /\ cleanup_counter \in 0 .. CLEANUP_INTERVAL - 1
  BY <1>1 DEF ProcInv, TableInv, Alive
<1>4. RunScheduler(t, q, fam, pending)
  OBVIOUS
<1>5. \A o \in Proc \ {current} : t[o].state = "READY" <=> pcb[o].state = "READY"
  BY <1>1
<1>. HIDE DEF t
<1>6. Consistent(t, q)
  BY <1>1, <1>2, <1>5, CurrentRuns, RemoveConsistent
<1>. HIDE DEF q
<1>7. Schedule(t, q) /\ SameLife(t, pcb') /\ SameSleep(t, pcb') /\ Reaps(t, fam)
  BY <1>1, <1>2, <1>3, <1>4, <1>6, RunSchedulerStep
<1>. QED
  BY <1>7 DEF t, q

(* The slot of a process that waits for a child or a semaphore.  waitpid    *)
(* does not reset waiting_ticks; of the process that runs it is 0.          *)
LEMMA BlockedSlot ==
    ASSUME ProcInv, NEW p \in Proc
    PROVE  /\ [pcb[p] EXCEPT !.state = "BLOCKED", !.waiting_ticks = 0] \in PCB
           /\ [pcb[p] EXCEPT !.state = "BLOCKED", !.waiting_ticks = 0].state
                 = "BLOCKED"
           /\ [pcb[p] EXCEPT !.state = "BLOCKED", !.waiting_ticks = 0].waiting_ticks
                 = 0
           /\ [pcb[p] EXCEPT !.state = "BLOCKED", !.waiting_ticks = 0].boost
                 = pcb[p].boost
           /\ p = current =>
                 [pcb[p] EXCEPT !.state = "BLOCKED", !.waiting_ticks = 0]
                    = [pcb[p] EXCEPT !.state = "BLOCKED"]
<1>1. pcb[p] \in PCB /\ "BLOCKED" \in State
  BY CurrentRuns DEF State
<1>2. [pcb[p] EXCEPT !.state = "BLOCKED", !.waiting_ticks = 0] \in PCB
  BY <1>1, PCBUpdate
<1>3. pcb[current].waiting_ticks = 0
  BY CurrentRuns
<1>. QED
  BY <1>1, <1>2, <1>3 DEF PCB

(* waitpid is the scheduler's Block, and the child it waits for lives.     *)
LEMMA WaitStep ==
    ASSUME ProcInv, NEW x \in Pid, WaitFor(x)
    PROVE  /\ Block(current)
           /\ SameLife(pcb, pcb')
           /\ \A o \in Proc \ {Idle, current} :
                 pcb'[o].state = "BLOCKED" <=> pcb[o].state = "BLOCKED"
           /\ Reaps(pcb, [family EXCEPT ![current].waiting_pid = x])
           /\ [family EXCEPT ![current].waiting_pid = x] \in [Proc -> Family]
           /\ \E c \in Proc : Alive(c) /\ family[c].pid = x
<1> DEFINE r == [pcb[current] EXCEPT !.state = "BLOCKED", !.waiting_ticks = 0]
           fam == [family EXCEPT ![current].waiting_pid = x]
           q == removeFromScheduler(ready_queue, current)
<1>1. /\ r \in PCB /\ r.state = "BLOCKED" /\ r.waiting_ticks = 0
      /\ r.boost = pcb[current].boost
      /\ r = [pcb[current] EXCEPT !.state = "BLOCKED"]
  BY CurrentRuns, BlockedSlot
<1>2. fam \in [Proc -> Family]
  BY DEF ProcInv, TableInv, Family
<1>3. RunScheduler([pcb EXCEPT ![current] = r], q, fam, pending_cleanup)
  BY <1>1 DEF WaitFor
<1>4. Block(current) <=> Schedule([pcb EXCEPT ![current] = r], q)
  BY CurrentRuns DEF Block
<1>5. pending_cleanup # current
  BY CurrentRuns, ReleasedType DEF ProcInv, TableInv, Alive
<1>. HIDE DEF r, fam
<1>6. /\ Schedule([pcb EXCEPT ![current] = r], q)
      /\ SameLife([pcb EXCEPT ![current] = r], pcb')
      /\ SameSleep([pcb EXCEPT ![current] = r], pcb')
      /\ Reaps([pcb EXCEPT ![current] = r], fam)
  BY <1>1, <1>2, <1>3, <1>5, LeaveStep
<1>7. SameLife(pcb, pcb') /\ Reaps(pcb, fam)
  BY <1>1, <1>6, CurrentRuns, ReleasedType DEF SameLife, Reaps
<1>9. \A o \in Proc \ {Idle, current} :
         pcb'[o].state = "BLOCKED" <=> pcb[o].state = "BLOCKED"
  BY <1>6, CurrentRuns DEF SameSleep
<1>8. \E c \in Proc : Alive(c) /\ family[c].pid = x
  BY FoundProcess DEF WaitFor, ProcInv
<1>. QED
  BY <1>2, <1>4, <1>6, <1>7, <1>8, <1>9 DEF fam

(* sys_block, and sem_wait on the caller itself. *)
LEMMA BlockStep ==
    ASSUME ProcInv, NEW x \in Pid \ {0}, block_process(x)
    PROVE  /\ \E p \in Proc : Block(p)
           /\ SameLife(pcb, pcb')
           /\ \A o \in Proc \ {Idle} :
                 pcb'[o].state = "BLOCKED" <=>
                    pcb[o].state = "BLOCKED" \/ o \in get_process_by_pid(family, x)
           /\ Reaps(pcb, family)
<1>1. PICK p \in get_process_by_pid(family, x) :
         LET t == [pcb EXCEPT ![p].state = "BLOCKED", ![p].waiting_ticks = 0]
             q == removeFromScheduler(ready_queue, p)
         IN  /\ pcb[p].state \notin {"TERMINATED", "BLOCKED"}
             /\ IF p = current THEN RunScheduler(t, q, family, pending_cleanup)
                ELSE Return(t, q) /\ NoReaping /\ UNCHANGED family
  BY DEF block_process
<1>2. p \in Proc /\ p # Idle
  BY FoundProcess DEF ProcInv
<1> DEFINE r == [pcb[p] EXCEPT !.state = "BLOCKED", !.waiting_ticks = 0]
           t == [pcb EXCEPT ![p] = r]
           q == removeFromScheduler(ready_queue, p)
<1>3. /\ r \in PCB /\ r.state = "BLOCKED" /\ r.waiting_ticks = 0
      /\ r.boost = pcb[p].boost
  BY <1>2, BlockedSlot
<1>4. /\ pcb[p].state \in {"READY", "RUNNING"}
      /\ p = current => RunScheduler(t, q, family, pending_cleanup)
      /\ p # current => Return(t, q) /\ NoReaping /\ UNCHANGED family
  <2>1. pcb[p].state \in State
    BY <1>2, CurrentRuns, PCBFields
  <2>. QED
    BY <1>1, <2>1 DEF State
<1>5. Block(p) <=> IF p = current THEN Schedule(t, q) ELSE Return(t, q)
  BY <1>2, <1>4 DEF Block
<1>. HIDE DEF r
<1>6. SameLife(pcb, t)
  BY <1>2, <1>3, <1>4, CurrentRuns DEF SameLife
<1>9. \A o \in Proc : t[o].state = "BLOCKED" <=>
                         pcb[o].state = "BLOCKED" \/ o \in get_process_by_pid(family, x)
  <2>1. get_process_by_pid(family, x) = {p}
    <3>1. ASSUME NEW o \in get_process_by_pid(family, x)
          PROVE  o = p
      BY <1>1, <3>1, FoundProcess, ReleasedType DEF ProcInv, TableInv
    <3>. QED
      BY <1>1, <3>1
  <2>2. t[p] = r /\ \A o \in Proc \ {p} : t[o] = pcb[o]
    BY <1>2, CurrentRuns
  <2>. QED
    BY <1>3, <2>1, <2>2
<1>7. CASE p = current
  <2>1. pending_cleanup # current /\ family \in [Proc -> Family]
    BY CurrentRuns, ReleasedType DEF ProcInv, TableInv, Alive
  <2>2. /\ Schedule(t, q)
        /\ SameLife(t, pcb') /\ SameSleep(t, pcb')
        /\ Reaps(t, family)
    BY <1>3, <1>4, <1>7, <2>1, LeaveStep
  <2>. HIDE DEF t
  <2>3. SameLife(pcb, pcb') /\ Reaps(pcb, family)
    BY <1>6, <2>2, ReleasedType DEF SameLife, Reaps
  <2>. QED
    BY <1>2, <1>5, <1>7, <1>9, <2>2, <2>3 DEF SameSleep
<1>8. CASE p # current
  <2>1. Reaps(pcb, family)
    BY <1>4, <1>8 DEF Reaps, NoReaping, ProcInv, TableInv, Alive
  <2>. QED
    BY <1>2, <1>4, <1>5, <1>6, <1>8, <1>9, <2>1 DEF Return
<1>. QED
  BY <1>7, <1>8

(* The boost of the owner is taken back: nobody else has one to lose. *)
LEMMA RestoredIsReleased ==
    ASSUME ProcInv
    PROVE  WithOwnerRestored(pcb, family) = release_foreground_owner(pcb)
<1>1. ASSUME NEW o \in Proc
      PROVE  (IF o \in Owner(family) THEN Unboosted(pcb[o]) ELSE pcb[o])
                = Unboosted(pcb[o])
  <2>1. CASE pcb[o].boost
    BY <2>1, OwnerIsFound DEF ProcInv
  <2>2. CASE ~ pcb[o].boost
    BY <2>2 DEF Unboosted
  <2>. QED
    BY <2>1, <2>2
<1>. QED
  BY <1>1 DEF WithOwnerRestored, release_foreground_owner

(* Boosting the new owner and unboosting the old one is what Scheduler      *)
(* does, once for a process of the table and once for one just created.     *)
LEMMA OwnerIsForeground ==
    ASSUME ProcInv, NEW t \in [Proc -> PCB], NEW fam \in [Proc -> Family],
           NEW p \in Proc, fam[p].pid # foreground,
           \A o \in Proc \ {p} : t[o].boost => pcb[o].boost,
           \A o \in Proc : pcb[o].boost => fam[o].pid = foreground,
           \A o \in Proc : fam[o].pid = foreground /\ foreground # None
                              => family[o].pid = foreground
    PROVE  WithOwner(t, fam, p) = WithForeground(t, p)
<1> DEFINE u == [t EXCEPT ![p] = Boosted(@)]
<1>1. ASSUME NEW o \in Proc
      PROVE  (IF o \in Owner(fam) THEN Unboosted(u[o]) ELSE u[o])
                = IF o = p THEN Boosted(t[o]) ELSE Unboosted(t[o])
  <2>1. CASE o = p
    <3>1. p \notin Owner(fam)
      BY DEF Owner, get_process_by_pid
    <3>. QED
      BY <2>1, <3>1
  <2>2. CASE o # p /\ t[o].boost
    <3>1. pcb[o].boost /\ family[o].pid = foreground /\ foreground # None
      BY <2>2 DEF ProcInv, BoostInv, TableInv
    <3>2. \A r \in Proc : fam[r].pid = foreground => o <= r
      <4>1. ASSUME NEW r \in Proc, fam[r].pid = foreground PROVE o <= r
        <5>1. r = o
          BY <3>1, <4>1 DEF ProcInv, TableInv
        <5>. QED
          BY <5>1, SchedulerAssumption DEF Proc
      <4>. QED
        BY <4>1
    <3>3. o \in Owner(fam)
      BY <3>1, <3>2 DEF Owner, get_process_by_pid
    <3>. QED
      BY <2>2, <3>3
  <2>3. CASE o # p /\ ~ t[o].boost
    BY <2>3 DEF Unboosted
  <2>. QED
    BY <2>1, <2>2, <2>3
<1>. QED
  BY <1>1 DEF WithOwner, WithOwnerRestored, WithForeground

(* The foreground calls are the scheduler's.                               *)
LEMMA ForegroundStep ==
    ASSUME ProcInv, NEW x \in Pid \ {0}, set_foreground_process_of(x)
    PROVE  \/ foreground' = None /\ clear_foreground_process
           \/ /\ foreground' = x
              /\ \E p \in Proc : family[p].pid = x /\ set_foreground_process(p)
<1>1. PICK p \in get_process_by_pid(family, x) :
         IF Alive(p)
         THEN foreground' = x /\ Return(WithOwner(pcb, family, p), ready_queue)
         ELSE foreground' = None /\ Return(WithOwnerRestored(pcb, family), ready_queue)
  BY DEF set_foreground_process_of
<1>2. p \in Proc /\ p # Idle /\ family[p].pid = x /\ foreground # x
  BY FoundProcess DEF ProcInv, set_foreground_process_of
<1>3. CASE Alive(p)
  <2>1. WithOwner(pcb, family, p) = WithForeground(pcb, p)
    BY <1>2, CurrentRuns, OwnerIsForeground DEF ProcInv, TableInv, BoostInv
  <2>. QED
    BY <1>1, <1>2, <1>3, <2>1 DEF set_foreground_process
<1>4. CASE ~ Alive(p)
  BY <1>1, <1>4, RestoredIsReleased DEF clear_foreground_process
<1>. QED
  BY <1>3, <1>4

(* What create_process leaves of the identities: dead slots are released,   *)
(* and p, one of them, may be born.                                         *)
Swept(fam) ==
    /\ fam \in [Proc -> Family]
    /\ \A o \in Proc :
          \/ fam[o] = family[o]
          \/ fam[o] = Released /\ o # Idle /\ pcb[o].state = "TERMINATED"

Newborn(fam, p) ==
    [fam EXCEPT ![p].pid = next_pid, ![p].parent_pid = family[current].pid]

Birth(fam, p, fg, ok) ==
    /\ p # Idle
    /\ pcb[p].state = "TERMINATED"
    /\ fam[p] = Released
    /\ next_pid \in Pid
    /\ family' = Newborn(fam, p)
    /\ next_pid' = next_pid + 1
    /\ foreground' = IF ok /\ fg THEN next_pid ELSE foreground

(* The entry of a new process.                                             *)
LEMMA NewbornType ==
    ASSUME NEW fam \in [Proc -> Family], NEW p \in Proc, next_pid \in Pid,
           family[current].pid \in Pid \union {None}
    PROVE  /\ Newborn(fam, p) \in [Proc -> Family]
           /\ Newborn(fam, p)[p].pid = next_pid
           /\ Newborn(fam, p)[p].parent_pid = family[current].pid
           /\ Newborn(fam, p)[p].waiting_pid = fam[p].waiting_pid
           /\ \A o \in Proc \ {p} : Newborn(fam, p)[o] = fam[o]
<1> DEFINE r == [fam[p] EXCEPT !.pid = next_pid, !.parent_pid = family[current].pid]
<1>1. /\ r \in Family /\ r.pid = next_pid /\ r.parent_pid = family[current].pid
      /\ r.waiting_pid = fam[p].waiting_pid
  BY DEF Family
<1>2. Newborn(fam, p) = [fam EXCEPT ![p] = r]
  BY DEF Newborn
<1>. HIDE DEF r
<1>. QED
  BY <1>1, <1>2

(* A creation sweeps, then admits a process, or leaves its slot dead, or   *)
(* finds none.                                                             *)
LEMMA CreateStep ==
    ASSUME ProcInv, NEW prio \in Priorities, NEW fg \in BOOLEAN, NEW ok \in BOOLEAN,
           create_process(prio, fg, ok)
    PROVE  \E fam \in [Proc -> Family] :
              /\ Swept(fam)
              /\ pending_cleanup' = None
              /\ \/ /\ family' = fam
                    /\ UNCHANGED <<schedVars, next_pid, foreground>>
                 \/ \E p \in Proc :
                       /\ Birth(fam, p, fg, ok)
                       /\ IF ok THEN Admit(p, prio, fg) ELSE UNCHANGED schedVars
<1> DEFINE S == Dead(pcb)
           fam == release_process_resources(family, S)
           free == {o \in Proc \ {Idle} : pcb[o].state = "TERMINATED"}
           p == Min(free)
           t == [pcb EXCEPT ![p] = NewProcess(prio)]
           born == [fam EXCEPT ![p].pid = next_pid, ![p].parent_pid = fam[current].pid]
<1>1. /\ next_pid <= MaxPid
      /\ pending_cleanup' = PendingAfter(pending_cleanup, S)
      /\ \/ /\ free = {}
            /\ family' = fam
            /\ Return(pcb, ready_queue)
            /\ UNCHANGED <<next_pid, foreground>>
         \/ /\ free # {}
            /\ family' = born
            /\ next_pid' = next_pid + 1
            /\ foreground' = IF ok /\ fg THEN next_pid ELSE foreground
            /\ IF ok
               THEN Return(IF fg THEN WithOwner(t, born, p) ELSE t,
                           add_to_ready_queue(ready_queue, p))
               ELSE Return(pcb, ready_queue)
  BY Zenon DEF create_process
<1>2. Swept(fam) /\ \A o \in S : fam[o] = Released
  BY ReleasedType DEF Swept, ProcInv, TableInv, release_process_resources, Dead
<1>3. S = free
  BY CurrentRuns DEF Dead
<1>4. fam[current] = family[current]
  BY CurrentRuns DEF release_process_resources, Dead
<1>5. pending_cleanup' = None
  BY <1>1, CurrentRuns DEF PendingAfter, Dead, ProcInv, TableInv, Alive
<1>6. next_pid \in Pid
  BY <1>1, ProcessAssumption DEF ProcInv, TableInv, Pid
<1>7. free # {} => p \in free
  <2>1. free \subseteq Nat
    BY SchedulerAssumption DEF Proc
  <2>. QED
    BY <2>1, MinProperties
<1>. HIDE DEF S, fam, free, p
<1>8. CASE free = {}
  BY <1>1, <1>2, <1>5, <1>8 DEF Return, schedVars, Swept
<1>9. CASE free # {}
  <2>1. p \in Proc /\ p # Idle /\ pcb[p].state = "TERMINATED" /\ fam[p] = Released
    BY <1>2, <1>3, <1>7, <1>9 DEF free
  <2>2. born = Newborn(fam, p)
    BY <1>4 DEF Newborn
  <2>3. Birth(fam, p, fg, ok)
    BY <1>1, <1>6, <1>9, <2>1, <2>2 DEF Birth
  <2>4. CASE ~ ok
    BY <1>1, <1>2, <1>5, <1>9, <2>1, <2>3, <2>4 DEF Return, schedVars, Swept
  <2>5. CASE ok
    <3>1. born \in [Proc -> Family] /\ born[p].pid = next_pid
          /\ \A o \in Proc \ {p} : born[o] = fam[o]
      <4>1. family[current].pid \in Pid \union {None}
        BY CurrentRuns DEF ProcInv, TableInv, Family
      <4>2. fam \in [Proc -> Family]
        BY <1>2 DEF Swept
      <4>. HIDE DEF born
      <4>. QED
        BY <1>6, <2>1, <2>2, <4>1, <4>2, NewbornType
    <3>2. /\ t \in [Proc -> PCB] /\ t[p].boost = FALSE
          /\ \A o \in Proc \ {p} : t[o] = pcb[o]
      <4>1. NewProcess(prio) \in PCB /\ NewProcess(prio).boost = FALSE
        BY SchedulerAssumption, FreeSlotType
           DEF NewProcess, FreeSlot, PCB, State
      <4>. QED
        BY <2>1, <4>1, CurrentRuns
    <3>. HIDE DEF t, born
    <3>3. born[p].pid # foreground
      BY <1>6, <3>1 DEF ProcInv, TableInv
    <3>4. \A o \in Proc : pcb[o].boost => born[o].pid = foreground
      <4>1. ASSUME NEW o \in Proc, pcb[o].boost PROVE born[o].pid = foreground
        <5>1. pcb[o].state # "TERMINATED" /\ family[o].pid = foreground
          BY <4>1 DEF ProcInv, BoostInv, Alive
        <5>2. o # p /\ fam[o] = family[o]
          BY <1>2, <2>1, <5>1 DEF Swept
        <5>. QED
          BY <3>1, <5>1, <5>2
      <4>. QED
        BY <4>1
    <3>5. \A o \in Proc : born[o].pid = foreground /\ foreground # None
                             => family[o].pid = foreground
      BY <1>2, <3>1, <3>3 DEF Swept, Released
    <3>6. WithOwner(t, born, p) = WithForeground(t, p)
      BY <2>1, <3>1, <3>2, <3>3, <3>4, <3>5, OwnerIsForeground
    <3>7. Return(IF fg THEN WithForeground(t, p) ELSE t,
                 add_to_ready_queue(ready_queue, p))
      BY <1>1, <1>9, <2>5, <3>6
    <3>8. Admit(p, prio, fg)
      BY <2>1, <3>7, CurrentRuns DEF Admit, t
    <3>. QED
      BY <1>2, <1>5, <2>1, <2>3, <2>5, <3>8 DEF Swept
  <2>. QED
    BY <2>4, <2>5
<1>. QED
  BY <1>8, <1>9

(* The boost of the dying owner goes, if it was the owner. *)
LEMMA ChildrenGoneStep ==
    ASSUME ProcInv, ChildrenGone
    PROVE  clear_foreground_process \/ UNCHANGED schedVars
  BY RestoredIsReleased
     DEF ChildrenGone, clear_foreground_process, Return, schedVars

(* Waking a waiter is the scheduler's unblock_process.                     *)
LEMMA WakeWaiterStep ==
    ASSUME ProcInv, WakeWaiter
    PROVE  (\E w \in Proc : unblock_process(w)) \/ UNCHANGED schedVars
<1> DEFINE w == Min(WaitersAhead)
<1>1. w \in Proc
  <2>1. WaitersAhead \subseteq Nat /\ WaitersAhead \subseteq Proc
    BY SchedulerAssumption DEF WaitersAhead, Waiters, Proc
  <2>2. w \in WaitersAhead
    BY <2>1, MinProperties DEF WakeWaiter
  <2>. QED
    BY <2>1, <2>2
<1>2. IF pcb[w].state = "BLOCKED"
      THEN Return(UnblockedTable(w), add_to_ready_queue(ready_queue, w))
      ELSE Return(pcb, ready_queue)
  BY DEF WakeWaiter
<1>. HIDE DEF w
<1>. QED
  BY <1>1, <1>2 DEF unblock_process, Return, schedVars

(* The process that dies is alive until then, and not the boot context.     *)
LEMMA TopIsAlive ==
    ASSUME ProcInv, Terminating
    PROVE  /\ Top.slot \in Proc \ {Idle} /\ Alive(Top.slot)
           /\ frames[current] \in Seq(Frame) /\ frames[current] # <<>>
           /\ Top \in Frame
           /\ Len(frames[current]) \in Nat \ {0}
           /\ DOMAIN frames[current] = 1 .. Len(frames[current])
           /\ Top = frames[current][Len(frames[current])]
<1>1. frames[current] \in Seq(Frame) /\ frames[current] # <<>>
  BY CurrentRuns DEF ProcInv, FramesInv, Terminating
<1>2. /\ Len(frames[current]) \in Nat \ {0}
      /\ DOMAIN frames[current] = 1 .. Len(frames[current])
      /\ Top = frames[current][Len(frames[current])]
      /\ Top \in Frame
  BY <1>1, TopProperties DEF Top
<1>3. Top.slot \in Proc \ {Idle} /\ Alive(Top.slot)
  <2>1. Top.slot \in Proc
    BY <1>2 DEF Frame
  <2>2. Len(frames[current]) \in DOMAIN frames[current]
    BY <1>2
  <2>. QED
    BY <1>2, <2>1, <2>2, CurrentRuns DEF ProcInv, FramesInv
<1>. QED
  BY <1>1, <1>2, <1>3

(* The end of terminate_process is the scheduler's Retire.                 *)
LEMMA FinishStep ==
    ASSUME ProcInv, FinishTermination
    PROVE  /\ Retire(Top.slot)
           /\ SameLife([pcb EXCEPT ![Top.slot] = FreeSlot], pcb')
           /\ SameSleep([pcb EXCEPT ![Top.slot] = FreeSlot], pcb')
           /\ Reaps([pcb EXCEPT ![Top.slot] = FreeSlot], family)
<1> DEFINE p == Top.slot
           t == [pcb EXCEPT ![p] = FreeSlot]
           q == removeFromScheduler(ready_queue, p)
<1>1. p \in Proc \ {Idle} /\ Alive(p)
  BY TopIsAlive DEF FinishTermination
<1>2. IF p = current THEN RunScheduler(t, q, family, p)
      ELSE Return(t, q) /\ NoReaping /\ UNCHANGED family
  BY DEF FinishTermination
<1>. HIDE DEF p
<1>3. Retire(p) <=> IF p = current THEN Schedule(t, q) ELSE Return(t, q)
  BY <1>1 DEF Retire
<1>4. FreeSlot \in PCB /\ FreeSlot.state = "TERMINATED" /\ FreeSlot.waiting_ticks = 0
  BY FreeSlotType DEF FreeSlot
<1>5. CASE p = current
  <2>1. family \in [Proc -> Family]
    BY DEF ProcInv, TableInv
  <2>2. Schedule(t, q) /\ SameLife(t, pcb') /\ SameSleep(t, pcb') /\ Reaps(t, family)
    BY <1>1, <1>2, <1>4, <1>5, <2>1, LeaveStep
  <2>. QED
    BY <1>3, <1>5, <2>2 DEF p
<1>6. CASE p # current
  <2>1. /\ t \in [Proc -> PCB] /\ t[p].state = "TERMINATED"
        /\ \A o \in Proc \ {p} : t[o] = pcb[o]
    BY <1>1, <1>4, CurrentRuns
  <2>. HIDE DEF t
  <2>2. SameLife(t, pcb') /\ SameSleep(t, pcb')
    BY <1>2, <1>6 DEF SameLife, SameSleep, Return
  <2>3. Reaps(t, family)
    BY <1>2, <1>6, <2>1, ReleasedType
       DEF Reaps, NoReaping, ProcInv, TableInv, Alive
  <2>. QED
    BY <1>2, <1>3, <1>6, <2>2, <2>3 DEF p, t
<1>. QED
  BY <1>5, <1>6

(* The pids that were given out are pids.                                  *)
LEMMA KnownPids ==
    ASSUME ProcInv, NEW x \in 1 .. next_pid - 1
    PROVE  x \in Pid \ {0}
  BY ProcessAssumption DEF ProcInv, TableInv, Pid

(* The boot context waits for the shell only when there is one. *)
LEMMA WaitForShellStep ==
    ASSUME ProcInv, WaitForShell
    PROVE  \/ Shell \in Pid \ {0} /\ WaitFor(Shell) /\ UNCHANGED <<foreground, next_pid>>
           \/ UNCHANGED <<schedVars, family, foreground, next_pid>> /\ NoReaping
<1>1. CASE \E p \in get_process_by_pid(family, Shell) : Alive(p)
  <2>1. PICK p \in Proc : family[p].pid = Shell
    BY <1>1 DEF get_process_by_pid
  <2>2. Shell \in Pid \ {0}
    BY <2>1, ProcessAssumption DEF ProcInv, TableInv, Family, Pid, Shell, None
  <2>. QED
    BY <1>1, <2>2 DEF WaitForShell
<1>2. CASE ~ \E p \in get_process_by_pid(family, Shell) : Alive(p)
  BY <1>2 DEF WaitForShell
<1>. QED
  BY <1>1, <1>2

(* Every step of the life cycle is one of the scheduler's or none.         *)
LEMMA StepRefines ==
    ASSUME ProcInv, [ProcessNext]_processVars
    PROVE  SchedulerStep
<1> USE DEF SchedulerStep
<1>1. CASE timer_handler
  BY <1>1, TimerStep DEF timer_handler, SchedulerNext
<1>2. CASE \/ handle_ctrl_c \/ exit_current_process
           \/ \E x \in 1 .. next_pid - 1 : kill_process(x)
  BY <1>2 DEF handle_ctrl_c, exit_current_process, kill_process, Terminate
<1>3. CASE release_foreground
  BY <1>3, RestoredIsReleased
     DEF release_foreground, clear_foreground_process, SchedulerNext
<1>4. ASSUME NEW prio \in Priorities, NEW fg \in BOOLEAN, NEW ok \in BOOLEAN,
             create_process(prio, fg, ok)
      PROVE  SchedulerStep
  BY <1>4, CreateStep DEF SchedulerNext
<1>5. ASSUME NEW x \in 1 .. next_pid - 1, set_foreground_process_of(x)
      PROVE  SchedulerStep
  BY <1>5, KnownPids, ForegroundStep DEF SchedulerNext
<1>6. ASSUME NEW x \in 1 .. next_pid - 1, waitpid(x)
      PROVE  SchedulerStep
  BY <1>6, KnownPids, WaitStep, CurrentRuns DEF waitpid, SchedulerNext
<1>7. ASSUME NEW x \in 1 .. next_pid - 1, block_process(x)
      PROVE  SchedulerStep
  BY <1>7, KnownPids, BlockStep DEF SchedulerNext
<1>8. ASSUME NEW x \in 1 .. next_pid - 1, unblock_process_of(x)
      PROVE  SchedulerStep
  <2>1. \E p \in Proc : unblock_process(p)
    BY <1>8, KnownPids, FoundProcess DEF unblock_process_of, unblock_process, ProcInv
  <2>. QED
    BY <2>1 DEF SchedulerNext
<1>9. ASSUME NEW x \in 1 .. next_pid - 1, NEW prio \in NiceValues, nice(x, prio)
      PROVE  SchedulerStep
  <2>1. \E p \in Proc : change_priority(p, prio)
    BY <1>9, KnownPids, FoundProcess DEF nice, ProcInv
  <2>. QED
    BY <2>1 DEF SchedulerNext
<1>10. CASE WakeWaiter
  BY <1>10, WakeWaiterStep DEF SchedulerNext
<1>11. CASE WaitersWoken \/ NextChild \/ Halt \/ Halted \/ UNCHANGED processVars
  BY <1>11 DEF WaitersWoken, NextChild, Halt, Halted, processVars, schedVars
<1>12. CASE ChildrenGone
  BY <1>12, ChildrenGoneStep DEF SchedulerNext
<1>13. CASE FinishTermination
  BY <1>13, FinishStep, TopIsAlive DEF FinishTermination, SchedulerNext
<1>14. CASE CreateShell
  BY <1>4, <1>14 DEF CreateShell
<1>15. CASE WaitForShell
  BY <1>15, WaitForShellStep, WaitStep, CurrentRuns DEF SchedulerNext
<1>. QED
  BY <1>1, <1>2, <1>3, <1>4, <1>5, <1>6, <1>7, <1>8, <1>9, <1>10, <1>11, <1>12,
     <1>13, <1>14, <1>15
     DEF ProcessNext, SystemCall, terminate_process

-----------------------------------------------------------------------------
(* The process that runs has waited no scheduling pass. *)

LEMMA ReturnFresh ==
    ASSUME Fresh, NEW t, NEW q, t[current].waiting_ticks = 0, Return(t, q)
    PROVE  Fresh'
  BY DEF Fresh, Return

(* Whoever takes the CPU from one that leaves it is of age 0.              *)
LEMMA LeaveFresh ==
    ASSUME ProcInv, NEW p \in Proc, NEW r \in PCB,
           r.state \notin {"READY", "RUNNING"}, r.waiting_ticks = 0,
           r.state = "TERMINATED" => p # Idle,
           IF p = current
           THEN Schedule([pcb EXCEPT ![p] = r], removeFromScheduler(ready_queue, p))
           ELSE Return([pcb EXCEPT ![p] = r], removeFromScheduler(ready_queue, p))
    PROVE  Fresh'
<1> DEFINE t == [pcb EXCEPT ![p] = r]
           q == removeFromScheduler(ready_queue, p)
<1>1. /\ t \in [Proc -> PCB] /\ t[p] = r
      /\ t[current].waiting_ticks = 0
      /\ t[Idle].state # "TERMINATED"
      /\ \A o \in Proc \ {p} : t[o] = pcb[o]
  BY CurrentRuns
<1>2. IF p = current THEN Schedule(t, q) ELSE Return(t, q)
  OBVIOUS
<1>. HIDE DEF t
<1>3. \A o \in Proc \ {p} : t[o].state = "READY" <=> pcb[o].state = "READY"
  BY <1>1
<1>4. Consistent(t, q)
  BY <1>1, <1>3, CurrentRuns, RemoveConsistent
<1>. HIDE DEF q
<1>5. CASE p = current
  BY <1>1, <1>2, <1>4, <1>5, ScheduleKeeps DEF Fresh
<1>6. CASE p # current
  BY <1>1, <1>2, <1>6, ReturnFresh DEF ProcInv
<1>. QED
  BY <1>5, <1>6

(* The process on the CPU is of age 0 after every step.                    *)
LEMMA FreshStep ==
    ASSUME ProcInv, SchedulerStep
    PROVE  Fresh'
<1>0. Fresh /\ Inv /\ pcb[current].waiting_ticks = 0
  BY DEF ProcInv, Fresh
<1>1. CASE Tick
  BY <1>1, CurrentRuns, ScheduleKeeps DEF Tick, Fresh
<1>2. ASSUME NEW t \in [Proc -> PCB], NEW p, t[current].waiting_ticks = 0
      PROVE  /\ WithForeground(t, p)[current].waiting_ticks = 0
             /\ release_foreground_owner(t)[current].waiting_ticks = 0
  <2>1. \A r \in PCB : /\ Boosted(r).waiting_ticks = r.waiting_ticks
                       /\ Unboosted(r).waiting_ticks = r.waiting_ticks
    BY DEF Boosted, Unboosted, PCB
  <2>. QED
    BY <1>2, <2>1, CurrentRuns DEF WithForeground, release_foreground_owner
<1>3. CASE clear_foreground_process \/ \E p \in Proc : set_foreground_process(p)
  BY <1>0, <1>2, <1>3, CurrentRuns, ReturnFresh
     DEF clear_foreground_process, set_foreground_process
<1>4. ASSUME NEW p \in Proc, Retire(p) PROVE Fresh'
  <2>1. FreeSlot.waiting_ticks = 0
    BY DEF FreeSlot
  <2>. QED
    BY <1>4, <2>1, FreeSlotType, LeaveFresh DEF Retire
<1>5. ASSUME NEW p \in Proc, Block(p) PROVE Fresh'
  <2> DEFINE r == [pcb[p] EXCEPT !.state = "BLOCKED", !.waiting_ticks = 0]
  <2>1. IF p = current
        THEN Schedule([pcb EXCEPT ![p] = r], removeFromScheduler(ready_queue, p))
        ELSE Return([pcb EXCEPT ![p] = r], removeFromScheduler(ready_queue, p))
    BY <1>5 DEF Block
  <2>2. r \in PCB /\ r.state = "BLOCKED" /\ r.waiting_ticks = 0
    BY BlockedSlot
  <2>. HIDE DEF r
  <2>. QED
    BY <2>1, <2>2, LeaveFresh
<1>6. ASSUME NEW p \in Proc, unblock_process(p) PROVE Fresh'
  <2>1. UnblockedTable(p)[current] = pcb[current]
    BY <1>6, CurrentRuns DEF unblock_process, UnblockedTable
  <2>. QED
    BY <1>0, <1>6, <2>1, ReturnFresh DEF unblock_process
<1>7. ASSUME NEW p \in Proc, WakeAndSwitch(p) PROVE Fresh'
  <2> DEFINE t == UnblockedTable(p)
             q == add_to_ready_queue(ready_queue, p)
  <2>1. pcb[p].state = "BLOCKED" /\ Schedule(t, q)
    BY <1>7 DEF WakeAndSwitch
  <2>2. Consistent(t, q)
    BY <1>0, <2>1, UnblockConsistent
  <2>3. t[current] = pcb[current] /\ t[Idle].state # "TERMINATED"
    BY <1>7, CurrentRuns DEF WakeAndSwitch, UnblockedTable
  <2>. HIDE DEF t, q
  <2>. QED
    BY <2>1, <2>2, <2>3, CurrentRuns, ScheduleKeeps DEF Fresh
<1>8. ASSUME NEW p \in Proc, NEW prio \in NiceValues, change_priority(p, prio)
      PROVE  Fresh'
  <2> DEFINE a == [pcb[p] EXCEPT !.base_priority = prio, !.waiting_ticks = 0]
             r == IF a.boost THEN [a EXCEPT !.saved_priority = prio]
                  ELSE [a EXCEPT !.priority = prio]
  <2>1. Return([pcb EXCEPT ![p] = r], ready_queue)
    BY <1>8 DEF change_priority
  <2>2. r.waiting_ticks = 0
    BY CurrentRuns DEF PCB
  <2>. HIDE DEF r
  <2>3. [pcb EXCEPT ![p] = r][current].waiting_ticks = 0
    BY <2>2, CurrentRuns
  <2>. QED
    BY <1>0, <2>1, <2>3, ReturnFresh
<1>9. ASSUME NEW p \in Proc, NEW prio \in Priorities, NEW fg \in BOOLEAN,
             Admit(p, prio, fg)
      PROVE  Fresh'
  <2> DEFINE t == [pcb EXCEPT ![p] = NewProcess(prio)]
  <2>1. Return(IF fg THEN WithForeground(t, p) ELSE t,
               add_to_ready_queue(ready_queue, p))
    BY <1>9 DEF Admit
  <2>2. NewProcess(prio) \in PCB
    BY SchedulerAssumption, FreeSlotType DEF NewProcess, FreeSlot, PCB, State
  <2>3. t \in [Proc -> PCB] /\ t[current] = pcb[current]
    BY <1>9, <2>2, CurrentRuns DEF Admit
  <2>. HIDE DEF t
  <2>4. (IF fg THEN WithForeground(t, p) ELSE t)[current].waiting_ticks = 0
    BY <1>0, <1>2, <2>3
  <2>. QED
    BY <1>0, <2>1, <2>4, ReturnFresh
<1>10. CASE UNCHANGED schedVars
  BY <1>0, <1>10 DEF Fresh, schedVars
<1>. QED
  BY <1>1, <1>3, <1>4, <1>5, <1>6, <1>7, <1>8, <1>9, <1>10
     DEF SchedulerStep, SchedulerNext

-----------------------------------------------------------------------------
(* The identities.  Effect is what every step but a creation does to them:  *)
(* nobody is born, whoever dies is dead in t, pids stay and a parent is     *)
(* always older, dead slots may be released.                                *)

Effect(t, fam) ==
    /\ \A p \in Proc : pcb'[p].state = "TERMINATED" <=> t[p].state = "TERMINATED"
    /\ \A p \in Proc : pcb[p].state = "TERMINATED" => t[p].state = "TERMINATED"
    /\ t[Idle].state # "TERMINATED"
    /\ fam \in [Proc -> Family]
    /\ \A p \in Proc : fam[p].pid = family[p].pid
    /\ \A p \in Proc \ {Idle} : family[p].pid # None =>
          fam[p].parent_pid # None /\ fam[p].parent_pid < fam[p].pid
    /\ Reaps(t, fam)
    /\ next_pid' = next_pid

(* A step with an Effect keeps the table of identities.                    *)
LEMMA TableKept ==
    ASSUME TableInv, NEW t, NEW fam, Effect(t, fam),
           foreground' \in Pid \union {None}, foreground' < next_pid,
           boot' \in BootState, preempted' \in BOOLEAN
    PROVE  TableInv'
<1>1. Idle \in Proc
  BY SchedulerAssumption DEF Idle, Proc
<1>2. \A p \in Proc : pcb'[p].state # "TERMINATED" =>
         /\ pcb[p].state # "TERMINATED"
         /\ t[p].state # "TERMINATED"
         /\ family'[p] = fam[p]
  BY DEF Effect, Reaps
<1>3. \A p \in Proc : family'[p] = fam[p] \/ (family'[p] = Released /\ p # Idle)
  BY DEF Effect, Reaps
<1>4. /\ family' \in [Proc -> Family]
      /\ family'[Idle].pid = 0
      /\ pcb'[Idle].state # "TERMINATED"
  BY <1>1, <1>3 DEF Effect, Reaps, TableInv
<1>5. ASSUME NEW p \in Proc
      PROVE  /\ family'[p].pid < next_pid
             /\ pcb'[p].state # "TERMINATED" => family'[p].pid # None
             /\ p # Idle /\ family'[p].pid # None =>
                   /\ family'[p].parent_pid # None
                   /\ family'[p].parent_pid < family'[p].pid
  <2>1. CASE family'[p] = fam[p]
    BY <1>2, <2>1 DEF Effect, TableInv, Alive
  <2>2. CASE family'[p] = Released /\ p # Idle
    <3>1. family'[p].pid = None /\ None < next_pid
      BY <2>2 DEF Released, None, TableInv
    <3>2. pcb'[p].state # "TERMINATED" => family'[p].pid # None
      BY <1>2 DEF Effect, TableInv, Alive
    <3>. QED
      BY <3>1, <3>2
  <2>. QED
    BY <1>3, <2>1, <2>2
<1>6. ASSUME NEW p \in Proc, NEW r \in Proc,
             family'[p].pid = family'[r].pid, family'[p].pid # None
      PROVE  p = r
  <2>1. family'[p] = fam[p] /\ family'[r] = fam[r]
    BY <1>3, <1>6 DEF Released
  <2>. QED
    BY <1>6, <2>1 DEF Effect, TableInv
<1>7. /\ pending_cleanup' \in Proc \union {None}
      /\ pending_cleanup' # None =>
            pending_cleanup' # Idle /\ pcb'[pending_cleanup'].state = "TERMINATED"
      /\ cleanup_counter' \in 0 .. CLEANUP_INTERVAL - 1
  BY DEF Effect, Reaps
<1>8. next_pid' \in 1 .. MaxPid + 1 /\ foreground' < next_pid'
  BY DEF Effect, TableInv
<1>. QED
  BY <1>4, <1>5, <1>6, <1>7, <1>8 DEF TableInv, Alive, Effect

(* A step that ends no life has the Effect of its new identities.          *)
LEMMA QuietEffect ==
    ASSUME ProcInv, NEW fam \in [Proc -> Family],
           \A p \in Proc : pcb'[p].state = "TERMINATED" <=> pcb[p].state = "TERMINATED",
           \A p \in Proc : fam[p].pid = family[p].pid,
           \A p \in Proc \ {Idle} : family[p].pid # None =>
              fam[p].parent_pid # None /\ fam[p].parent_pid < fam[p].pid,
           Reaps(pcb, fam), next_pid' = next_pid
    PROVE  Effect(pcb, fam)
  BY CurrentRuns DEF Effect

(* Without a scheduling pass, no slot is released. *)
LEMMA NoReapingReaps ==
    ASSUME ProcInv, NoReaping, NEW fam \in [Proc -> Family], family' = fam
    PROVE  Reaps(pcb, fam)
  BY DEF Reaps, NoReaping, ProcInv, TableInv, Alive

(* The table as it is satisfies what Effect asks of the new one.           *)
LEMMA SameFamily ==
    ASSUME ProcInv
    PROVE  /\ family \in [Proc -> Family]
           /\ \A p \in Proc \ {Idle} : family[p].pid # None =>
                 family[p].parent_pid # None /\ family[p].parent_pid < family[p].pid
  BY DEF ProcInv, TableInv

(* Only waiting_pid is written. *)
LEMMA SameParents ==
    ASSUME ProcInv, NEW p \in Proc, NEW x \in Pid \union {None}
    PROVE  /\ [family EXCEPT ![p].waiting_pid = x] \in [Proc -> Family]
           /\ \A o \in Proc :
                 /\ [family EXCEPT ![p].waiting_pid = x][o].pid = family[o].pid
                 /\ [family EXCEPT ![p].waiting_pid = x][o].parent_pid
                       = family[o].parent_pid
                 /\ [family EXCEPT ![p].waiting_pid = x][o].waiting_pid
                       = IF o = p THEN x ELSE family[o].waiting_pid
<1> DEFINE r == [family[p] EXCEPT !.waiting_pid = x]
<1>1. family[p] \in Family
  BY DEF ProcInv, TableInv
<1>2. /\ r \in Family /\ r.pid = family[p].pid
      /\ r.parent_pid = family[p].parent_pid /\ r.waiting_pid = x
  BY <1>1 DEF Family
<1>3. [family EXCEPT ![p].waiting_pid = x] = [family EXCEPT ![p] = r]
  OBVIOUS
<1>. HIDE DEF r
<1>4. family \in [Proc -> Family]
  BY DEF ProcInv, TableInv
<1> DEFINE fam == [family EXCEPT ![p] = r]
<1>5. fam \in [Proc -> Family] /\ \A o \in Proc : fam[o] = IF o = p THEN r ELSE family[o]
  BY <1>2, <1>4
<1>. HIDE DEF fam
<1>6. \A o \in Proc : /\ fam[o].pid = family[o].pid
                       /\ fam[o].parent_pid = family[o].parent_pid
                       /\ fam[o].waiting_pid = IF o = p THEN x ELSE family[o].waiting_pid
  BY <1>2, <1>5
<1>. QED
  BY <1>3, <1>5, <1>6, Zenon DEF fam

(* The scheduler's handlers that return end and begin no life. *)
LEMMA ReturnKeepsLives ==
    ASSUME ProcInv,
           \/ clear_foreground_process
           \/ \E p \in Proc : \/ set_foreground_process(p)
                              \/ unblock_process(p)
                              \/ \E prio \in NiceValues : change_priority(p, prio)
           \/ UNCHANGED schedVars
    PROVE  \A o \in Proc : pcb'[o].state = "TERMINATED" <=> pcb[o].state = "TERMINATED"
<1>1. CASE clear_foreground_process \/ \E p \in Proc : set_foreground_process(p)
  <2>1. PICK t : /\ pcb' = t
                 /\ \/ t = release_foreground_owner(pcb)
                    \/ \E p \in Proc : t = WithForeground(pcb, p)
    BY <1>1 DEF clear_foreground_process, set_foreground_process, Return
  <2>2. /\ \A o \in Proc : release_foreground_owner(pcb)[o].state = pcb[o].state
        /\ \A p : \A o \in Proc : WithForeground(pcb, p)[o].state = pcb[o].state
    BY CurrentRuns, ForegroundConsistent, ZenonT(30)
  <2>. QED
    BY <2>1, <2>2
<1>2. ASSUME NEW p \in Proc, unblock_process(p), NEW o \in Proc
      PROVE  pcb'[o].state = "TERMINATED" <=> pcb[o].state = "TERMINATED"
  BY <1>2, CurrentRuns DEF unblock_process, UnblockedTable, Return, PCB
<1>3. ASSUME NEW p \in Proc, NEW prio \in NiceValues, change_priority(p, prio),
             NEW o \in Proc
      PROVE  pcb'[o].state = "TERMINATED" <=> pcb[o].state = "TERMINATED"
  BY <1>3, CurrentRuns DEF change_priority, Return, PCB
<1>4. CASE UNCHANGED schedVars
  BY <1>4 DEF schedVars
<1>. QED
  BY <1>1, <1>2, <1>3, <1>4

(* The steps that change nothing of the identities. *)
PlainStep ==
    \/ timer_handler \/ handle_ctrl_c \/ exit_current_process
    \/ release_foreground
    \/ \E x \in 1 .. next_pid - 1 :
          \/ kill_process(x) \/ set_foreground_process_of(x) \/ block_process(x)
          \/ unblock_process_of(x)
          \/ \E prio \in NiceValues : nice(x, prio)
    \/ ChildrenGone
    \/ Halt \/ Halted \/ UNCHANGED processVars

(* The steps that write no identity.                                       *)
LEMMA PlainEffect ==
    ASSUME ProcInv, PlainStep
    PROVE  Effect(pcb, family) /\ next_pid' = next_pid
<1> DEFINE Lives == \A p \in Proc : pcb'[p].state = "TERMINATED"
                                       <=> pcb[p].state = "TERMINATED"
<1>1. Lives /\ Reaps(pcb, family) /\ next_pid' = next_pid
  <2>1. CASE timer_handler
    BY <2>1, TimerStep DEF timer_handler, SameLife
  <2>2. CASE \/ handle_ctrl_c \/ exit_current_process
             \/ \E x \in 1 .. next_pid - 1 : kill_process(x)
    BY <2>2, SameFamily, NoReapingReaps
       DEF handle_ctrl_c, exit_current_process, kill_process, Terminate, schedVars
  <2>3. CASE release_foreground
    <3>1. clear_foreground_process
      BY <2>3, RestoredIsReleased DEF release_foreground, clear_foreground_process
    <3>. QED
      BY <2>3, <3>1, ReturnKeepsLives, SameFamily, NoReapingReaps
         DEF release_foreground
  <2>4. ASSUME NEW x \in 1 .. next_pid - 1, set_foreground_process_of(x)
        PROVE  Lives /\ Reaps(pcb, family) /\ next_pid' = next_pid
    BY <2>4, KnownPids, ForegroundStep, ReturnKeepsLives, SameFamily, NoReapingReaps
       DEF set_foreground_process_of
  <2>5. ASSUME NEW x \in 1 .. next_pid - 1, block_process(x)
        PROVE  Lives /\ Reaps(pcb, family) /\ next_pid' = next_pid
    BY <2>5, KnownPids, BlockStep DEF block_process, SameLife
  <2>6. ASSUME NEW x \in 1 .. next_pid - 1, unblock_process_of(x)
        PROVE  Lives /\ Reaps(pcb, family) /\ next_pid' = next_pid
    <3>1. \E p \in Proc : unblock_process(p)
      BY <2>6, KnownPids, FoundProcess
         DEF unblock_process_of, unblock_process, ProcInv
    <3>. QED
      BY <2>6, <3>1, ReturnKeepsLives, SameFamily, NoReapingReaps
         DEF unblock_process_of
  <2>7. ASSUME NEW x \in 1 .. next_pid - 1, NEW prio \in NiceValues, nice(x, prio)
        PROVE  Lives /\ Reaps(pcb, family) /\ next_pid' = next_pid
    <3>1. \E p \in Proc : change_priority(p, prio)
      BY <2>7, KnownPids, FoundProcess DEF nice, ProcInv
    <3>. QED
      BY <2>7, <3>1, ReturnKeepsLives, SameFamily, NoReapingReaps DEF nice
  <2>8. CASE ChildrenGone
    BY <2>8, ChildrenGoneStep, ReturnKeepsLives, SameFamily, NoReapingReaps
       DEF ChildrenGone
  <2>9. CASE Halt \/ Halted \/ UNCHANGED processVars
    BY <2>9, SameFamily, NoReapingReaps
       DEF Halt, Halted, processVars, schedVars, NoReaping
  <2>. QED
    BY <2>1, <2>2, <2>3, <2>4, <2>5, <2>6, <2>7, <2>8, <2>9 DEF PlainStep
<1>. QED
  BY <1>1, SameFamily, QuietEffect

(* A step that writes the waiting_pid of one process. *)
LEMMA WaitingEffect ==
    ASSUME ProcInv, NEW p \in Proc, NEW x \in Pid \union {None},
           \A o \in Proc : pcb'[o].state = "TERMINATED" <=> pcb[o].state = "TERMINATED",
           Reaps(pcb, [family EXCEPT ![p].waiting_pid = x]), next_pid' = next_pid
    PROVE  Effect(pcb, [family EXCEPT ![p].waiting_pid = x])
<1> DEFINE fam == [family EXCEPT ![p].waiting_pid = x]
<1>1. fam \in [Proc -> Family] /\ \A o \in Proc : /\ fam[o].pid = family[o].pid
                                                /\ fam[o].parent_pid = family[o].parent_pid
  BY SameParents
<1>2. Reaps(pcb, fam)
  OBVIOUS
<1>. HIDE DEF fam
<1>3. \A o \in Proc \ {Idle} : family[o].pid # None =>
         fam[o].parent_pid # None /\ fam[o].parent_pid < fam[o].pid
  BY <1>1, SameFamily
<1>4. Effect(pcb, fam)
  BY <1>1, <1>2, <1>3, QuietEffect
<1>. QED
  BY <1>4 DEF fam

(* waitpid, of a process or of the boot context. *)
LEMMA WaitEffect ==
    ASSUME ProcInv, NEW x \in Pid, WaitFor(x), next_pid' = next_pid
    PROVE  Effect(pcb, [family EXCEPT ![current].waiting_pid = x])
<1>1. /\ SameLife(pcb, pcb')
      /\ Reaps(pcb, [family EXCEPT ![current].waiting_pid = x])
  BY WaitStep
<1>. QED
  BY <1>1, CurrentRuns, WaitingEffect DEF SameLife

(* A waiter that is woken forgets whom it waits for.                       *)
LEMMA WakeWaiterEffect ==
    ASSUME ProcInv, WakeWaiter
    PROVE  /\ Min(WaitersAhead) \in WaitersAhead
           /\ \A o \in WaitersAhead : Min(WaitersAhead) <= o
           /\ Min(WaitersAhead) \in Proc
           /\ Effect(pcb, [family EXCEPT ![Min(WaitersAhead)].waiting_pid = None])
<1> DEFINE w == Min(WaitersAhead)
<1>1. w \in Proc /\ w \in WaitersAhead /\ \A o \in WaitersAhead : w <= o
  <2>1. WaitersAhead \subseteq Nat /\ WaitersAhead \subseteq Proc
    BY SchedulerAssumption DEF WaitersAhead, Waiters, Proc
  <2>. QED
    BY <2>1, MinProperties DEF WakeWaiter
<1>2. family' = [family EXCEPT ![w].waiting_pid = None] /\ next_pid' = next_pid /\ NoReaping
  BY DEF WakeWaiter
<1>. HIDE DEF w
<1>3. \A p \in Proc : pcb'[p].state = "TERMINATED" <=> pcb[p].state = "TERMINATED"
  BY WakeWaiterStep, ReturnKeepsLives
<1>4. Effect(pcb, [family EXCEPT ![w].waiting_pid = None])
  <2>1. [family EXCEPT ![w].waiting_pid = None] \in [Proc -> Family]
    BY <1>1, SameParents
  <2>2. Reaps(pcb, [family EXCEPT ![w].waiting_pid = None])
    BY <1>2, <2>1, NoReapingReaps
  <2>. QED
    BY <1>1, <1>2, <1>3, <2>2, WaitingEffect
<1>. QED
  BY <1>1, <1>4 DEF w

(* The process that dies forgets whom it waits for.                        *)
LEMMA WaitersWokenEffect ==
    ASSUME ProcInv, WaitersWoken
    PROVE  Effect(pcb, [family EXCEPT ![Top.slot].waiting_pid = None])
<1>1. /\ family' = [family EXCEPT ![Top.slot].waiting_pid = None]
      /\ next_pid' = next_pid /\ NoReaping /\ pcb' = pcb
  BY DEF WaitersWoken, schedVars
<1>2. Top.slot \in Proc
  BY TopIsAlive DEF WaitersWoken
<1>3. [family EXCEPT ![Top.slot].waiting_pid = None] \in [Proc -> Family]
  BY <1>2, SameParents
<1>4. Reaps(pcb, [family EXCEPT ![Top.slot].waiting_pid = None])
  BY <1>1, <1>3, NoReapingReaps
<1>. QED
  BY <1>1, <1>2, <1>4, WaitingEffect

(* A child is handed to a grandparent, who is older still. *)
Adopted(c) == [family EXCEPT ![c].parent_pid = family[Top.slot].parent_pid]

(* The next child is alive and younger; an exit hands it over.             *)
LEMMA NextChildEffect ==
    ASSUME ProcInv, NextChild
    PROVE  LET c == Min(ChildrenAhead) IN
           /\ c \in ChildrenAhead
           /\ \A o \in ChildrenAhead : c <= o
           /\ c \in Proc \ {Idle} /\ Alive(c)
           /\ family[c].parent_pid = family[Top.slot].pid
           /\ family[Top.slot].pid < family[c].pid
           /\ family' = IF Top.kill THEN family ELSE Adopted(c)
           /\ \A o \in Proc :
                 /\ Adopted(c)[o].pid = family[o].pid
                 /\ Adopted(c)[o].waiting_pid = family[o].waiting_pid
                 /\ Adopted(c)[o].parent_pid = IF o = c THEN family[Top.slot].parent_pid
                                               ELSE family[o].parent_pid
           /\ Effect(pcb, family')
<1> DEFINE c == Min(ChildrenAhead)
<1>1. c \in Proc \ {Idle} /\ c \in ChildrenAhead /\ \A o \in ChildrenAhead : c <= o
  <2>1. ChildrenAhead \subseteq Nat /\ ChildrenAhead \subseteq Proc \ {Idle}
    BY SchedulerAssumption DEF ChildrenAhead, Children, Proc
  <2>. QED
    BY <2>1, MinProperties DEF NextChild
<1>2. /\ family' = IF Top.kill THEN family ELSE Adopted(c)
      /\ next_pid' = next_pid /\ NoReaping /\ pcb' = pcb
  BY DEF NextChild, schedVars, Adopted
<1>. HIDE DEF c
<1>3. Alive(c) /\ family[c].parent_pid = family[Top.slot].pid
  BY <1>1 DEF ChildrenAhead, Children
<1>4. /\ Top.slot \in Proc \ {Idle}
      /\ family[Top.slot].pid # None
      /\ family[Top.slot].parent_pid # None
      /\ family[Top.slot].parent_pid < family[Top.slot].pid
      /\ family[Top.slot].pid < family[c].pid
      /\ family[Top.slot] \in Family
  BY <1>1, <1>3, TopIsAlive DEF NextChild, ProcInv, TableInv
<1> DEFINE r == [family[c] EXCEPT !.parent_pid = family[Top.slot].parent_pid]
           fam == [family EXCEPT ![c] = r]
<1>5. /\ r \in Family /\ r.pid = family[c].pid
      /\ r.parent_pid = family[Top.slot].parent_pid
      /\ r.waiting_pid = family[c].waiting_pid
  <2>1. family[c] \in Family
    BY <1>1 DEF ProcInv, TableInv
  <2>. QED
    BY <1>4, <2>1 DEF Family
<1>6. Adopted(c) = fam
  BY DEF Adopted
<1>. HIDE DEF r
<1>7. fam \in [Proc -> Family] /\ \A o \in Proc : fam[o] = IF o = c THEN r ELSE family[o]
  BY <1>1, <1>5, SameFamily
<1>. HIDE DEF fam
<1>8. \A o \in Proc :
         /\ fam[o].pid = family[o].pid
         /\ fam[o].waiting_pid = family[o].waiting_pid
         /\ fam[o].parent_pid = IF o = c THEN family[Top.slot].parent_pid
                                ELSE family[o].parent_pid
  BY <1>5, <1>7
<1>9. \A o \in Proc \ {Idle} : family[o].pid # None =>
         fam[o].parent_pid # None /\ fam[o].parent_pid < fam[o].pid
  <2>1. family[c].pid \in Int /\ family[Top.slot].pid \in Int
        /\ family[Top.slot].parent_pid \in Int
    BY <1>1, <1>4, ProcessAssumption DEF Family, Pid, None, ProcInv, TableInv
  <2>. QED
    BY <1>1, <1>4, <1>8, <2>1, SameFamily
<1>10. Effect(pcb, family')
  <2>1. family' \in {family, fam}
    BY <1>2, <1>6
  <2>2. Reaps(pcb, family')
    BY <1>2, <1>7, <2>1, SameFamily, NoReapingReaps
  <2>. QED
    BY <1>2, <1>7, <1>8, <1>9, <2>1, <2>2, SameFamily, QuietEffect
<1>. QED
  BY <1>1, <1>2, <1>3, <1>4, <1>6, <1>8, <1>10 DEF c
(* The process on top of the stack dies, and nobody else does. *)
LEMMA FinishEffect ==
    ASSUME ProcInv, FinishTermination
    PROVE  Effect([pcb EXCEPT ![Top.slot] = FreeSlot], family)
<1> DEFINE t == [pcb EXCEPT ![Top.slot] = FreeSlot]
<1>1. SameLife(t, pcb') /\ Reaps(t, family)
  BY FinishStep
<1>2. /\ \A p \in Proc : pcb[p].state = "TERMINATED" => t[p].state = "TERMINATED"
      /\ t[Idle].state # "TERMINATED"
  BY TopIsAlive, CurrentRuns, FreeSlotType DEF FinishTermination
<1>3. next_pid' = next_pid
  BY DEF FinishTermination
<1>. HIDE DEF t
<1>4. Effect(t, family)
  BY <1>1, <1>2, <1>3, SameFamily DEF Effect, SameLife
<1>. QED
  BY <1>4 DEF t

(* The process that is created, and only it, begins a life. *)
LEMMA AdmitKeeps ==
    ASSUME ProcInv, NEW p \in Proc, NEW prio \in Priorities, NEW fg \in BOOLEAN,
           Admit(p, prio, fg)
    PROVE  /\ current' = current
           /\ \A o \in Proc :
                 /\ pcb'[o].state = IF o = p THEN "READY" ELSE pcb[o].state
                 /\ pcb'[o].boost <=> IF o = p THEN fg ELSE ~ fg /\ pcb[o].boost
<1> DEFINE t == [pcb EXCEPT ![p] = NewProcess(prio)]
<1>1. /\ pcb' = IF fg THEN WithForeground(t, p) ELSE t
      /\ current' = current
  BY DEF Admit, Return
<1>2. /\ NewProcess(prio) \in PCB /\ NewProcess(prio).state = "READY"
      /\ NewProcess(prio).boost = FALSE
  BY SchedulerAssumption, FreeSlotType DEF NewProcess, FreeSlot, PCB, State
<1>3. /\ t \in [Proc -> PCB]
      /\ \A o \in Proc : /\ t[o].state = IF o = p THEN "READY" ELSE pcb[o].state
                         /\ t[o].boost <=> o # p /\ pcb[o].boost
  BY <1>2, CurrentRuns
<1>. HIDE DEF t
<1>4. \A r \in PCB : /\ Boosted(r).state = r.state /\ Boosted(r).boost
                     /\ Unboosted(r).state = r.state /\ ~ Unboosted(r).boost
  BY DEF Boosted, Unboosted, PCB
<1>5. \A o \in Proc : /\ WithForeground(t, p)[o].state = t[o].state
                      /\ WithForeground(t, p)[o].boost <=> o = p
  BY <1>3, <1>4 DEF WithForeground
<1>. QED
  BY <1>1, <1>3, <1>5

(* A creation keeps the table: its pid is new and its parent older.        *)
LEMMA CreationTable ==
    ASSUME ProcInv, NEW prio \in Priorities, NEW fg \in BOOLEAN, NEW ok \in BOOLEAN,
           create_process(prio, fg, ok), boot' \in BootState
    PROVE  TableInv'
<1>1. PICK fam \in [Proc -> Family] :
         /\ Swept(fam)
         /\ pending_cleanup' = None
         /\ \/ /\ family' = fam
               /\ UNCHANGED <<schedVars, next_pid, foreground>>
            \/ \E p \in Proc :
                  /\ Birth(fam, p, fg, ok)
                  /\ IF ok THEN Admit(p, prio, fg) ELSE UNCHANGED schedVars
  BY CreateStep
<1>2. cleanup_counter' = cleanup_counter /\ preempted' = preempted
  BY DEF create_process
<1>3. CASE family' = fam /\ UNCHANGED <<schedVars, next_pid, foreground>>
  <2>1. Reaps(pcb, family)
    BY <1>1, <1>2, <1>3 DEF Reaps, Swept, ProcInv, TableInv, Alive
  <2>2. Effect(pcb, family)
    BY <1>3, <2>1, SameFamily, QuietEffect DEF schedVars
  <2>. QED
    BY <1>2, <1>3, <2>2, TableKept DEF ProcInv, TableInv
<1>4. ASSUME NEW p \in Proc, Birth(fam, p, fg, ok),
             IF ok THEN Admit(p, prio, fg) ELSE UNCHANGED schedVars
      PROVE  TableInv'
  <2>1. /\ family' \in [Proc -> Family]
        /\ family'[p].pid = next_pid
        /\ family'[p].parent_pid = family[current].pid
        /\ \A o \in Proc \ {p} : family'[o] = fam[o]
    <3>1. family[current].pid \in Pid \union {None}
      BY CurrentRuns DEF ProcInv, TableInv, Family
    <3>. QED
      BY <1>4, <3>1, NewbornType DEF Birth
  <2>2. /\ \A o \in Proc \ {p} : pcb'[o].state = pcb[o].state
        /\ p # Idle /\ pcb[p].state = "TERMINATED"
        /\ pcb'[p].state # "TERMINATED" => ok
    BY <1>4, AdmitKeeps DEF Birth, schedVars
  <2>3. /\ next_pid' = next_pid + 1 /\ next_pid' \in 1 .. MaxPid + 1
        /\ foreground' \in Pid \union {None} /\ foreground' < next_pid'
    BY <1>4, ProcessAssumption DEF Birth, ProcInv, TableInv, Pid, None
  <2>4. \A o \in Proc \ {p} :
           \/ family'[o] = family[o]
           \/ family'[o] = Released /\ o # Idle /\ pcb'[o].state = "TERMINATED"
    BY <1>1, <2>1, <2>2 DEF Swept
  <2>5. \A o \in Proc : family[o] \in Family
    BY DEF ProcInv, TableInv
  <2>6. ASSUME NEW o \in Proc
        PROVE  /\ family'[o].pid < next_pid'
               /\ pcb'[o].state # "TERMINATED" => family'[o].pid # None
               /\ o # Idle /\ family'[o].pid # None =>
                     /\ family'[o].parent_pid # None
                     /\ family'[o].parent_pid < family'[o].pid
    <3>1. CASE o = p
      <4>1. next_pid \in Int /\ next_pid # None
        BY ProcessAssumption DEF ProcInv, TableInv, None
      <4>2. family[current].pid # None /\ family[current].pid < next_pid
        BY CurrentRuns DEF ProcInv, TableInv, Alive
      <4>. QED
        BY <2>1, <2>3, <3>1, <4>1, <4>2
    <3>2. CASE o # p /\ family'[o] = family[o]
      <4>1. family[o].pid \in Int /\ family[o].pid < next_pid /\ next_pid \in Int
        BY <2>5, ProcessAssumption DEF ProcInv, TableInv, Family, Pid, None
      <4>. QED
        BY <2>2, <2>3, <3>2, <4>1 DEF ProcInv, TableInv, Alive
    <3>3. CASE o # p /\ family'[o] = Released /\ pcb'[o].state = "TERMINATED"
      BY <2>3, <3>3 DEF Released, None
    <3>. QED
      BY <2>4, <3>1, <3>2, <3>3
  <2>7. ASSUME NEW o \in Proc, NEW r \in Proc,
               family'[o].pid = family'[r].pid, family'[o].pid # None
        PROVE  o = r
    <3>1. ASSUME NEW a \in Proc \ {p}, family'[a].pid # None
          PROVE  family'[a] = family[a] /\ family'[a].pid # next_pid
      <4>1. family'[a] = family[a]
        BY <2>4, <3>1 DEF Released
      <4>2. family[a].pid \in Int /\ family[a].pid < next_pid /\ next_pid \in Int
        BY <2>5, <3>1, ProcessAssumption DEF ProcInv, TableInv, Family, Pid, None
      <4>. QED
        BY <4>1, <4>2
    <3>. QED
      BY <2>1, <2>7, <3>1 DEF ProcInv, TableInv
  <2>8. /\ family'[Idle].pid = 0 /\ pcb'[Idle].state # "TERMINATED"
    BY <2>2, <2>4, CurrentRuns DEF ProcInv, TableInv
  <2>9. /\ pending_cleanup' = None
        /\ cleanup_counter' \in 0 .. CLEANUP_INTERVAL - 1
        /\ preempted' \in BOOLEAN
    BY <1>1, <1>2 DEF ProcInv, TableInv
  <2>. QED
    BY <1>4, <2>1, <2>3, <2>6, <2>7, <2>8, <2>9 DEF TableInv, Alive
<1>. QED
  BY <1>1, <1>3, <1>4
(* The other fields, of the steps that begin no life. *)
LEMMA PlainTypes ==
    ASSUME ProcInv, PlainStep
    PROVE  /\ foreground' \in Pid \union {None} /\ foreground' < next_pid
           /\ boot' \in BootState /\ preempted' \in BOOLEAN
<1>1. /\ None < next_pid /\ foreground \in Pid \union {None} /\ foreground < next_pid
      /\ boot \in BootState /\ preempted \in BOOLEAN
  BY DEF None, ProcInv, TableInv
<1>2. CASE timer_handler
  BY <1>1, <1>2 DEF timer_handler
<1>3. CASE \/ handle_ctrl_c \/ exit_current_process
           \/ \E x \in 1 .. next_pid - 1 : kill_process(x)
  BY <1>1, <1>3 DEF handle_ctrl_c, exit_current_process, kill_process, Terminate
<1>4. CASE release_foreground
  BY <1>1, <1>4 DEF release_foreground
<1>5. ASSUME NEW x \in 1 .. next_pid - 1, set_foreground_process_of(x)
      PROVE  /\ foreground' \in Pid \union {None} /\ foreground' < next_pid
             /\ boot' \in BootState /\ preempted' \in BOOLEAN
  <2>1. foreground' \in {x, None} /\ boot' = boot /\ preempted' = preempted
    BY <1>5 DEF set_foreground_process_of
  <2>2. x \in Pid /\ x < next_pid
    BY KnownPids DEF ProcInv, TableInv
  <2>. QED
    BY <1>1, <2>1, <2>2
<1>6. ASSUME NEW x \in 1 .. next_pid - 1,
             \/ block_process(x) \/ unblock_process_of(x)
             \/ \E prio \in NiceValues : nice(x, prio)
      PROVE  UNCHANGED <<foreground, boot, preempted>>
  BY <1>6 DEF block_process, unblock_process_of, nice
<1>7. CASE ChildrenGone
  BY <1>1, <1>7 DEF ChildrenGone
<1>8. CASE Halt \/ Halted \/ UNCHANGED processVars
  BY <1>1, <1>8 DEF Halt, Halted, processVars, BootState
<1>. QED
  BY <1>1, <1>2, <1>3, <1>4, <1>5, <1>6, <1>7, <1>8 DEF PlainStep

(* Every step keeps the table.                                             *)
LEMMA TableNext ==
    ASSUME ProcInv, [ProcessNext]_processVars
    PROVE  TableInv'
<1>0. /\ TableInv /\ foreground \in Pid \union {None} /\ foreground < next_pid
      /\ boot \in BootState /\ preempted \in BOOLEAN
  BY DEF ProcInv, TableInv
<1>1. CASE PlainStep
  BY <1>0, <1>1, PlainEffect, PlainTypes, TableKept
<1>2. ASSUME NEW prio \in Priorities, NEW fg \in BOOLEAN, NEW ok \in BOOLEAN,
             create_process(prio, fg, ok), boot' \in BootState
      PROVE  TableInv'
  BY <1>2, CreationTable
<1>3. CASE UserRuns /\ \E prio \in Priorities, fg, ok \in BOOLEAN :
                          create_process(prio, fg, ok) /\ UNCHANGED boot
  BY <1>0, <1>2, <1>3
<1>4. CASE CreateShell
  BY <1>2, <1>4 DEF CreateShell, BootState
<1>5. ASSUME NEW x \in Pid, WaitFor(x), UNCHANGED <<foreground, next_pid, preempted>>,
             boot' \in BootState
      PROVE  TableInv'
  BY <1>0, <1>5, WaitEffect, TableKept
<1>6. ASSUME NEW x \in 1 .. next_pid - 1, waitpid(x)
      PROVE  TableInv'
  BY <1>0, <1>5, <1>6, KnownPids DEF waitpid
<1>7. CASE WaitForShell
  <2>1. boot' \in BootState /\ preempted' = preempted
    BY <1>7 DEF WaitForShell, BootState
  <2>2. CASE Shell \in Pid \ {0} /\ WaitFor(Shell) /\ UNCHANGED <<foreground, next_pid>>
    BY <1>5, <2>1, <2>2
  <2>3. CASE UNCHANGED <<schedVars, family, foreground, next_pid>> /\ NoReaping
    <3>1. Reaps(pcb, family)
      BY <2>3, SameFamily, NoReapingReaps
    <3>2. Effect(pcb, family)
      BY <2>3, <3>1, SameFamily, QuietEffect DEF schedVars
    <3>. QED
      BY <1>0, <2>1, <2>3, <3>2, TableKept
  <2>. QED
    BY <1>7, <2>2, <2>3, WaitForShellStep
<1>8. CASE WakeWaiter
  BY <1>0, <1>8, WakeWaiterEffect, TableKept DEF WakeWaiter
<1>9. CASE WaitersWoken
  BY <1>0, <1>9, WaitersWokenEffect, TableKept DEF WaitersWoken
<1>10. CASE NextChild
  BY <1>0, <1>10, NextChildEffect, TableKept DEF NextChild
<1>11. CASE FinishTermination
  BY <1>0, <1>11, FinishEffect, TableKept DEF FinishTermination
<1>. QED
  BY <1>1, <1>3, <1>4, <1>6, <1>7, <1>8, <1>9, <1>10, <1>11
     DEF ProcessNext, SystemCall, terminate_process, PlainStep
-----------------------------------------------------------------------------
(* The stacks.  LivesOn is what a step does to the processes on them that   *)
(* does not kill, GoodStack what FramesInv asks of the stack in use.        *)

LivesOn ==
    \A p \in Proc : pcb[p].state # "TERMINATED" =>
       pcb'[p].state # "TERMINATED" /\ family'[p].pid = family[p].pid

GoodStack(s) ==
    /\ s \in Seq(Frame)
    /\ \A i \in DOMAIN s :
          /\ s[i].slot # Idle
          /\ pcb[s[i].slot].state # "TERMINATED"
          /\ ~ s[i].kill => i = 1 /\ s[i].slot = current
          /\ s[i].kill => s[i].masked
          /\ s[i].kill =>
                \A j \in DOMAIN s :
                   i < j => family[s[i].slot].pid < family[s[j].slot].pid

(* A step with an Effect that ends no life lets the living go on.          *)
LEMMA EffectLives ==
    ASSUME NEW fam, Effect(pcb, fam)
    PROVE  LivesOn
  BY DEF Effect, Reaps, LivesOn

(* So does a creation.                                                     *)
LEMMA CreationLives ==
    ASSUME ProcInv, NEW prio \in Priorities, NEW fg \in BOOLEAN, NEW ok \in BOOLEAN,
           create_process(prio, fg, ok)
    PROVE  LivesOn
<1>1. PICK fam \in [Proc -> Family] :
         /\ Swept(fam)
         /\ \/ /\ family' = fam
               /\ UNCHANGED <<schedVars, next_pid, foreground>>
            \/ \E p \in Proc :
                  /\ Birth(fam, p, fg, ok)
                  /\ IF ok THEN Admit(p, prio, fg) ELSE UNCHANGED schedVars
  BY CreateStep
<1>2. \A o \in Proc : pcb[o].state # "TERMINATED" => fam[o].pid = family[o].pid
  BY <1>1 DEF Swept
<1>3. CASE family' = fam /\ UNCHANGED <<schedVars, next_pid, foreground>>
  BY <1>2, <1>3 DEF LivesOn, schedVars
<1>4. ASSUME NEW p \in Proc, Birth(fam, p, fg, ok),
             IF ok THEN Admit(p, prio, fg) ELSE UNCHANGED schedVars
      PROVE  LivesOn
  <2>1. \A o \in Proc \ {p} : family'[o] = fam[o]
    <3>1. family[current].pid \in Pid \union {None}
      BY CurrentRuns DEF ProcInv, TableInv, Family
    <3>. QED
      BY <1>4, <3>1, NewbornType DEF Birth
  <2>2. /\ \A o \in Proc \ {p} : pcb'[o].state = pcb[o].state
        /\ pcb[p].state = "TERMINATED"
    BY <1>4, AdmitKeeps DEF Birth, schedVars
  <2>. QED
    BY <1>2, <2>1, <2>2 DEF LivesOn
<1>. QED
  BY <1>1, <1>3, <1>4

(* Where interrupts are enabled there is at most one activation, an exit. *)
LEMMA EnabledStack ==
    ASSUME ProcInv, Enabled, NEW i \in DOMAIN frames[current]
    PROVE  /\ ~ frames[current][i].masked /\ ~ frames[current][i].kill
           /\ i = 1 /\ Len(frames[current]) = 1
           /\ frames[current][i].slot = current
<1>1. Terminating
  BY EmptySeq, CurrentRuns DEF ProcInv, FramesInv, Terminating
<1>2. /\ Len(frames[current]) \in DOMAIN frames[current]
      /\ Top = frames[current][Len(frames[current])]
      /\ DOMAIN frames[current] = 1 .. Len(frames[current])
  BY <1>1, TopIsAlive
<1>3. ~ Top.masked
  BY <1>1 DEF Enabled
<1>4. ~ Top.kill /\ Len(frames[current]) = 1 /\ Top.slot = current
  BY <1>2, <1>3, CurrentRuns DEF ProcInv, FramesInv
<1>5. i = 1
  BY <1>2, <1>4
<1>. QED
  BY <1>2, <1>3, <1>4, <1>5

(* Stacks that are left alone stay good while nobody on them dies.         *)
LEMMA FramesKept ==
    ASSUME ProcInv, LivesOn, frames' = frames,
           current' = current \/ \A i \in DOMAIN frames[current] :
                                    ~ frames[current][i].masked
    PROVE  FramesInv'
<1>1. ASSUME NEW p \in Proc, NEW i \in DOMAIN frames[p]
      PROVE  /\ frames[p][i] \in Frame
             /\ frames[p][i].slot \in Proc
             /\ pcb[frames[p][i].slot].state # "TERMINATED"
  <2>1. frames[p][i] \in Frame
    BY ElementOfSeq, LenProperties DEF ProcInv, FramesInv
  <2>. QED
    BY <2>1 DEF Frame, ProcInv, FramesInv, Alive
<1>2. ASSUME NEW p \in Proc, NEW i \in DOMAIN frames[p], NEW j \in DOMAIN frames[p],
             frames[p][i].kill, i < j
      PROVE  family'[frames[p][i].slot].pid < family'[frames[p][j].slot].pid
  <2>1. family[frames[p][i].slot].pid < family[frames[p][j].slot].pid
    BY <1>2 DEF ProcInv, FramesInv
  <2>. QED
    BY <1>1, <2>1 DEF LivesOn
<1>3. ASSUME NEW p \in Proc, NEW i \in DOMAIN frames[p]
      PROVE  /\ frames[p][i].slot # Idle
             /\ pcb'[frames[p][i].slot].state # "TERMINATED"
             /\ ~ frames[p][i].kill => i = 1 /\ frames[p][i].slot = p
             /\ frames[p][i].kill => frames[p][i].masked
             /\ p # current' => ~ frames[p][i].masked
  BY <1>1 DEF ProcInv, FramesInv, LivesOn
<1>4. frames' \in [Proc -> Seq(Frame)]
  BY DEF ProcInv, FramesInv
<1>. QED
  BY <1>2, <1>3, <1>4 DEF FramesInv, Alive

(* The stack in use is good.                                               *)
LEMMA CurrentIsGood ==
    ASSUME ProcInv
    PROVE  GoodStack(frames[current])
  BY CurrentRuns DEF ProcInv, FramesInv, GoodStack, Alive

(* A good stack may replace the one in use.                                *)
LEMMA FramesChanged ==
    ASSUME ProcInv, LivesOn, NEW s, GoodStack(s), current' = current,
           frames' = [frames EXCEPT ![current] = s]
    PROVE  FramesInv'
<1>1. /\ frames' \in [Proc -> Seq(Frame)]
      /\ frames'[current] = s
      /\ \A p \in Proc \ {current} : frames'[p] = frames[p]
  BY CurrentRuns DEF ProcInv, FramesInv, GoodStack
<1>2. ASSUME NEW i \in DOMAIN s
      PROVE  /\ s[i].slot \in Proc
             /\ s[i].slot # Idle
             /\ pcb'[s[i].slot].state # "TERMINATED"
             /\ family'[s[i].slot].pid = family[s[i].slot].pid
             /\ ~ s[i].kill => i = 1 /\ s[i].slot = current
             /\ s[i].kill => s[i].masked
             /\ s[i].kill =>
                   \A j \in DOMAIN s :
                      i < j => family[s[i].slot].pid < family[s[j].slot].pid
  <2>1. s[i] \in Frame
    BY ElementOfSeq, LenProperties DEF GoodStack
  <2>. QED
    BY <2>1 DEF GoodStack, Frame, LivesOn
<1>3. ASSUME NEW p \in Proc \ {current}, NEW i \in DOMAIN frames[p]
      PROVE  /\ frames[p][i].slot # Idle
             /\ pcb'[frames[p][i].slot].state # "TERMINATED"
             /\ ~ frames[p][i].kill /\ i = 1 /\ frames[p][i].slot = p
             /\ ~ frames[p][i].masked
  <2>1. /\ frames[p][i].slot # Idle
        /\ pcb[frames[p][i].slot].state # "TERMINATED"
        /\ ~ frames[p][i].kill /\ i = 1 /\ frames[p][i].slot = p
        /\ ~ frames[p][i].masked
    BY DEF ProcInv, FramesInv, Alive
  <2>. QED
    BY <2>1 DEF LivesOn
<1>4. ASSUME NEW p \in Proc, NEW i \in DOMAIN frames'[p]
      PROVE  /\ frames'[p][i].slot # Idle
             /\ pcb'[frames'[p][i].slot].state # "TERMINATED"
             /\ ~ frames'[p][i].kill => i = 1 /\ frames'[p][i].slot = p
             /\ frames'[p][i].kill => frames'[p][i].masked
             /\ p # current => ~ frames'[p][i].masked
             /\ frames'[p][i].kill =>
                   \A j \in DOMAIN frames'[p] :
                      i < j => family'[frames'[p][i].slot].pid
                                 < family'[frames'[p][j].slot].pid
  <2>1. CASE p = current
    BY <1>1, <1>2, <2>1
  <2>2. CASE p # current
    BY <1>1, <1>3, <2>2
  <2>. QED
    BY <2>1, <2>2
<1>. QED
  BY <1>1, <1>4 DEF FramesInv, Alive
(* A kill or an exit begins. *)
LEMMA TerminateFrames ==
    ASSUME ProcInv, NEW S, NEW kill \in BOOLEAN, NEW masked \in BOOLEAN,
           Terminate(S, kill, masked), S \subseteq Proc \ {Idle},
           kill => masked /\ Enabled,
           ~ kill => ~ Terminating /\ S = {current}
    PROVE  FramesInv'
<1>1. PICK p \in S :
         /\ Alive(p)
         /\ frames' = [frames EXCEPT ![current] = Append(@, Activation(p, kill, masked))]
  BY DEF Terminate
<1>2. LivesOn /\ current' = current
  BY DEF Terminate, LivesOn, schedVars
<1> DEFINE f == Activation(p, kill, masked)
           s == Append(frames[current], f)
<1>3. /\ f \in Frame /\ f.slot = p /\ f.kill = kill /\ f.masked = masked
  BY SchedulerAssumption DEF Activation, Frame
<1>. HIDE DEF f
<1>4. /\ frames[current] \in Seq(Frame)
      /\ \A i \in DOMAIN frames[current] : kill /\ ~ frames[current][i].kill /\ i = 1
  BY EnabledStack, EmptySeq, CurrentRuns DEF ProcInv, FramesInv, Terminating
<1>5. /\ s \in Seq(Frame) /\ DOMAIN s = 1 .. Len(frames[current]) + 1
      /\ \A i \in 1 .. Len(frames[current]) : s[i] = frames[current][i]
      /\ s[Len(frames[current]) + 1] = f
      /\ Len(frames[current]) \in Nat
      /\ DOMAIN frames[current] = 1 .. Len(frames[current])
  BY <1>3, <1>4, AppendProperties, LenProperties
<1>. HIDE DEF s
<1>6. GoodStack(s)
  <2>1. ASSUME NEW i \in DOMAIN s, i <= Len(frames[current])
        PROVE  /\ s[i].slot # Idle
               /\ pcb[s[i].slot].state # "TERMINATED"
               /\ ~ s[i].kill /\ i = 1 /\ s[i].slot = current
    BY <1>4, <1>5, <2>1, CurrentIsGood DEF GoodStack
  <2>2. ~ kill => Len(frames[current]) = 0
    BY <1>4, <1>5
  <2>3. ASSUME NEW i \in DOMAIN s, i > Len(frames[current])
        PROVE  /\ s[i].slot # Idle
               /\ pcb[s[i].slot].state # "TERMINATED"
               /\ ~ s[i].kill => i = 1 /\ s[i].slot = current
               /\ s[i].kill => s[i].masked
               /\ \A j \in DOMAIN s : ~ (i < j)
    <3>1. s[i] = f /\ i = Len(frames[current]) + 1
      BY <1>5, <2>3
    <3>. QED
      BY <1>1, <1>3, <1>5, <2>2, <3>1 DEF Alive
  <2>4. \A i \in DOMAIN s : i <= Len(frames[current]) \/ i > Len(frames[current])
    BY <1>5
  <2>. QED
    BY <1>5, <2>1, <2>3, <2>4 DEF GoodStack
<1>7. frames' = [frames EXCEPT ![current] = s]
  BY <1>1 DEF s, f
<1>. QED
  BY <1>2, <1>6, <1>7, FramesChanged

(* The innermost activation goes on, for the same process. *)
LEMMA ContinueFrames ==
    ASSUME ProcInv, LivesOn, Terminating, NEW f \in Frame, Continue(f),
           f.slot = Top.slot, f.kill = Top.kill, f.masked = Top.masked,
           current' = current
    PROVE  FramesInv'
<1> DEFINE s == Append(Front(frames[current]), f)
           n == Len(frames[current])
<1>1. /\ frames[current] \in Seq(Frame) /\ frames[current] # <<>>
      /\ n \in Nat \ {0} /\ DOMAIN frames[current] = 1 .. n
      /\ Top = frames[current][n]
  BY TopIsAlive
<1>2. frames' = [frames EXCEPT ![current] = s]
  BY DEF Continue
<1>3. /\ s \in Seq(Frame) /\ DOMAIN s = 1 .. n
      /\ \A i \in 1 .. n - 1 : s[i] = frames[current][i]
      /\ s[n] = f
  BY <1>1, ReplaceTop
<1>. HIDE DEF s, n
<1>4. \A i \in 1 .. n : /\ s[i].slot = frames[current][i].slot
                        /\ s[i].kill = frames[current][i].kill
                        /\ s[i].masked = frames[current][i].masked
  <2>1. \A i \in 1 .. n : i \in 1 .. n - 1 \/ i = n
    BY <1>1
  <2>. QED
    BY <1>1, <1>3, <2>1
<1>5. GoodStack(s)
  BY <1>1, <1>3, <1>4, CurrentIsGood DEF GoodStack
<1>. QED
  BY <1>2, <1>5, FramesChanged

(* The recursive call on a child goes on with a greater pid.               *)
LEMMA NextChildFrames ==
    ASSUME ProcInv, NextChild
    PROVE  FramesInv'
<1> DEFINE c == Min(ChildrenAhead)
           up == [Top EXCEPT !.next = c + 1]
<1>1. /\ c \in Proc \ {Idle} /\ Alive(c)
      /\ family[Top.slot].pid < family[c].pid
      /\ Effect(pcb, family')
  BY NextChildEffect
<1>2. LivesOn
  BY <1>1, EffectLives
<1>3. /\ Terminating /\ current' = current
      /\ IF Top.kill THEN frames' = [frames EXCEPT ![current] =
                               Front(@) \o <<up, Activation(c, TRUE, TRUE)>>]
         ELSE Continue(up)
  BY DEF NextChild, schedVars
<1>. HIDE DEF c
<1>4. /\ up \in Frame /\ up.slot = Top.slot /\ up.kill = Top.kill
      /\ up.masked = Top.masked
  <2>1. c + 1 \in 0 .. MAX_PROCESSES
    BY <1>1, SchedulerAssumption DEF Proc
  <2>. QED
    BY <1>3, <2>1, TopIsAlive DEF Frame
<1>. HIDE DEF up
<1>5. CASE ~ Top.kill
  BY <1>2, <1>3, <1>4, <1>5, ContinueFrames
<1>6. CASE Top.kill
  <2> DEFINE g == Activation(c, TRUE, TRUE)
             s == Front(frames[current]) \o <<up, g>>
             n == Len(frames[current])
  <2>1. /\ frames[current] \in Seq(Frame) /\ frames[current] # <<>>
        /\ n \in Nat \ {0} /\ DOMAIN frames[current] = 1 .. n
        /\ Top = frames[current][n]
    BY <1>3, TopIsAlive
  <2>2. g \in Frame /\ g.slot = c /\ g.kill /\ g.masked
    BY <1>1, SchedulerAssumption DEF Activation, Frame
  <2>3. frames' = [frames EXCEPT ![current] = s]
    BY <1>3, <1>6
  <2>. HIDE DEF g
  <2>4. /\ s \in Seq(Frame) /\ DOMAIN s = 1 .. n + 1
        /\ \A i \in 1 .. n - 1 : s[i] = frames[current][i]
        /\ s[n] = up /\ s[n + 1] = g
    <3> DEFINE e == <<up, g>>
               z == frames[current]
    <3>0. up \in Frame /\ g \in Frame
      BY <1>4, <2>2
    <3>1. e \in Seq(Frame) /\ Len(e) = 2 /\ e[1] = up /\ e[2] = g
      BY <3>0
    <3>2. z \in Seq(Frame) /\ z # <<>>
      BY <2>1
    <3> HIDE DEF e, z
    <3>3. /\ Front(z) \o e \in Seq(Frame)
          /\ DOMAIN (Front(z) \o e) = 1 .. Len(z) + 1
          /\ \A i \in 1 .. Len(z) - 1 : (Front(z) \o e)[i] = z[i]
          /\ (Front(z) \o e)[Len(z)] = up
          /\ (Front(z) \o e)[Len(z) + 1] = g
      BY <3>0, <3>1, <3>2, PushTop
    <3>. QED
      BY <3>3 DEF e, z
  <2>. HIDE DEF s, n
  <2>5. \A i \in 1 .. n : /\ s[i].slot = frames[current][i].slot
                          /\ s[i].kill = frames[current][i].kill
                          /\ s[i].masked = frames[current][i].masked
    <3>1. \A i \in 1 .. n : i \in 1 .. n - 1 \/ i = n
      BY <2>1
    <3>. QED
      BY <1>4, <2>1, <2>4, <3>1
  <2>6. \A i \in 1 .. n + 1 : i \in 1 .. n \/ i = n + 1
    BY <2>1
  <2>7. ASSUME NEW i \in 1 .. n, frames[current][i].kill
        PROVE  family[frames[current][i].slot].pid < family[c].pid
    <3>1. CASE i = n
      BY <1>1, <2>1, <3>1
    <3>2. CASE i # n
      <4>1. family[frames[current][i].slot].pid < family[Top.slot].pid
        BY <2>1, <2>7, <3>2, CurrentIsGood DEF GoodStack
      <4>2. frames[current][i].slot \in Proc /\ Top.slot \in Proc /\ c \in Proc
        <5>1. frames[current][i] \in Frame
          BY <2>1, ElementOfSeq DEF n
        <5>. QED
          BY <1>1, <1>3, <5>1, TopIsAlive DEF Frame
      <4>3. \A o \in Proc : family[o].pid \in Int
        BY ProcessAssumption DEF ProcInv, TableInv, Family, Pid, None
      <4>. QED
        BY <1>1, <4>1, <4>2, <4>3
    <3>. QED
      BY <3>1, <3>2
  <2>8. ASSUME NEW i \in 1 .. n + 1
        PROVE  /\ s[i].slot # Idle
               /\ pcb[s[i].slot].state # "TERMINATED"
               /\ ~ s[i].kill => i = 1 /\ s[i].slot = current
               /\ s[i].kill => s[i].masked
               /\ s[i].kill =>
                     \A j \in 1 .. n + 1 :
                        i < j => family[s[i].slot].pid < family[s[j].slot].pid
    <3>1. CASE i \in 1 .. n
      BY <2>1, <2>2, <2>4, <2>5, <2>6, <2>7, <3>1, CurrentIsGood, SMTT(30) DEF GoodStack
    <3>2. CASE i = n + 1
      BY <1>1, <2>1, <2>2, <2>4, <3>2 DEF Alive
    <3>. QED
      BY <2>6, <3>1, <3>2
  <2>9. GoodStack(s)
    BY <2>4, <2>8 DEF GoodStack
  <2>. QED
    BY <1>2, <1>3, <2>3, <2>9, FramesChanged
<1>. QED
  BY <1>5, <1>6
(* The dead process is on no stack: below it on this one are older          *)
(* processes, and on the others only exits of their own processes.          *)
LEMMA FinishFrames ==
    ASSUME ProcInv, FinishTermination
    PROVE  FramesInv'
<1> DEFINE p == Top.slot
           n == Len(frames[current])
<1>1. /\ Terminating
      /\ frames' = IF p = current THEN [frames EXCEPT ![p] = <<>>]
                   ELSE [frames EXCEPT ![current] = Front(@), ![p] = <<>>]
      /\ p # current => current' = current
  BY DEF FinishTermination, Return
<1>2. /\ p \in Proc /\ p # Idle
      /\ frames[current] \in Seq(Frame) /\ frames[current] # <<>>
      /\ n \in Nat \ {0} /\ DOMAIN frames[current] = 1 .. n
      /\ frames[current][n].slot = p
  BY <1>1, TopIsAlive
<1>3. \A o \in Proc \ {p} : pcb[o].state # "TERMINATED" =>
         pcb'[o].state # "TERMINATED" /\ family'[o].pid = family[o].pid
  <2> DEFINE t == [pcb EXCEPT ![p] = FreeSlot]
  <2>1. Effect(t, family)
    BY FinishEffect
  <2>2. \A o \in Proc \ {p} : t[o] = pcb[o]
    BY <1>2, CurrentRuns
  <2>. HIDE DEF t
  <2>. QED
    BY <2>1, <2>2 DEF Effect, Reaps
<1>4. /\ Front(frames[current]) \in Seq(Frame)
      /\ DOMAIN Front(frames[current]) = 1 .. n - 1
      /\ \A i \in 1 .. n - 1 : Front(frames[current])[i] = frames[current][i]
  BY <1>2, TopProperties
<1>. HIDE DEF p, n
<1>5. \A o \in Proc :
         /\ frames'[o] \in Seq(Frame)
         /\ o = p => frames'[o] = <<>>
         /\ o # p /\ o # current => frames'[o] = frames[o]
         /\ o # p /\ o = current => frames'[o] = Front(frames[o])
  <2>1. frames \in [Proc -> Seq(Frame)] /\ <<>> \in Seq(Frame)
    BY DEF ProcInv, FramesInv
  <2>. QED
    BY <1>1, <1>2, <1>4, <2>1, CurrentRuns
<1>6. frames' \in [Proc -> Seq(Frame)]
  <2>1. DOMAIN frames' = Proc /\ frames' = [o \in Proc |-> frames'[o]]
    BY <1>1 DEF ProcInv, FramesInv
  <2>. QED
    BY <1>5, <2>1
<1>7. ASSUME NEW o \in Proc \ {p, current}, NEW i \in DOMAIN frames[o]
      PROVE  /\ frames[o][i].slot = o /\ o # Idle /\ i = 1
             /\ ~ frames[o][i].masked /\ ~ frames[o][i].kill
             /\ pcb'[o].state # "TERMINATED"
  BY <1>3 DEF ProcInv, FramesInv, Alive
<1>8. ASSUME current # p, NEW i \in 1 .. n - 1
      PROVE  /\ frames[current][i].slot \in Proc \ {p, Idle}
             /\ pcb[frames[current][i].slot].state # "TERMINATED"
             /\ ~ frames[current][i].kill => i = 1 /\ frames[current][i].slot = current
             /\ frames[current][i].kill => frames[current][i].masked
             /\ frames[current][i].kill =>
                   \A j \in 1 .. n - 1 : i < j =>
                      family[frames[current][i].slot].pid
                         < family[frames[current][j].slot].pid
  <2>1. frames[current][i] \in Frame /\ i \in 1 .. n /\ n \in 1 .. n /\ i < n
    BY <1>2, ElementOfSeq DEF n
  <2>2. frames[current][i].slot \in Proc
    BY <2>1 DEF Frame
  <2>3. frames[current][i].kill =>
           family[frames[current][i].slot].pid < family[p].pid
    BY <1>2, <2>1, CurrentIsGood DEF GoodStack
  <2>4. family[p].pid \in Int
    BY <1>2, ProcessAssumption DEF ProcInv, TableInv, Family, Pid, None
  <2>5. frames[current][i].slot # p
    BY <1>2, <1>8, <2>1, <2>3, <2>4, CurrentIsGood DEF GoodStack
  <2>. QED
    BY <1>2, <2>1, <2>2, <2>5, CurrentIsGood DEF GoodStack
<1>9. ASSUME NEW o \in Proc, NEW i \in DOMAIN frames'[o]
      PROVE  /\ frames'[o][i].slot # Idle
             /\ pcb'[frames'[o][i].slot].state # "TERMINATED"
             /\ ~ frames'[o][i].kill => i = 1 /\ frames'[o][i].slot = o
             /\ frames'[o][i].kill => frames'[o][i].masked
             /\ o # current' => ~ frames'[o][i].masked
             /\ frames'[o][i].kill =>
                   \A j \in DOMAIN frames'[o] :
                      i < j => family'[frames'[o][i].slot].pid
                                 < family'[frames'[o][j].slot].pid
  <2>1. o # p
    <3>1. CASE o = p
      <4>1. frames'[o] = <<>> /\ DOMAIN <<>> = {}
        BY <1>5, <3>1
      <4>. QED
        BY <4>1
    <3>. QED
      BY <3>1
  <2>2. CASE o # current
    BY <1>5, <1>7, <2>1, <2>2
  <2>3. CASE o = current
    <3>1. /\ frames'[o] = Front(frames[current]) /\ DOMAIN frames'[o] = 1 .. n - 1
          /\ current' = current
          /\ \A j \in 1 .. n - 1 : frames'[o][j] = frames[current][j]
      BY <1>1, <1>4, <1>5, <2>1, <2>3
    <3>. QED
      BY <1>3, <1>8, <2>1, <2>3, <3>1
  <2>. QED
    BY <2>2, <2>3
<1>. QED
  BY <1>6, <1>9 DEF FramesInv, Alive

(* Every step keeps the stacks good.                                       *)
LEMMA FramesNext ==
    ASSUME ProcInv, [ProcessNext]_processVars
    PROVE  FramesInv'
<1>1. ASSUME UserRuns \/ BootRuns
      PROVE  Enabled /\ \A i \in DOMAIN frames[current] : ~ frames[current][i].masked
  <2>1. Enabled
    BY <1>1 DEF UserRuns, BootRuns, Enabled
  <2>. QED
    BY <2>1, EnabledStack
<1>2. CASE timer_handler
  <2>1. LivesOn
    BY <1>2, PlainEffect, EffectLives DEF PlainStep
  <2>. QED
    BY <1>2, <2>1, EnabledStack, FramesKept DEF timer_handler
<1>3. CASE handle_ctrl_c
  <2> DEFINE S == get_process_by_pid(family, foreground)
  <2>1. S \subseteq Proc \ {Idle} /\ Enabled /\ Terminate(S, TRUE, TRUE)
    <3>1. foreground \in Pid /\ foreground # 0
      BY <1>3 DEF handle_ctrl_c, ProcInv, TableInv, None
    <3>. QED
      BY <1>3, <3>1, FoundProcess DEF handle_ctrl_c, ProcInv
  <2>. HIDE DEF S
  <2>. QED
    BY <2>1, TerminateFrames
<1>4. ASSUME NEW x \in 1 .. next_pid - 1, kill_process(x) PROVE FramesInv'
  <2> DEFINE S == get_process_by_pid(family, x)
  <2>1. S \subseteq Proc \ {Idle} /\ Enabled /\ Terminate(S, TRUE, TRUE)
    BY <1>1, <1>4, KnownPids, FoundProcess DEF kill_process, ProcInv
  <2>. HIDE DEF S
  <2>. QED
    BY <2>1, TerminateFrames
<1>5. CASE exit_current_process
  <2>1. PICK masked \in BOOLEAN : Terminate({current}, FALSE, masked)
    BY <1>5 DEF exit_current_process
  <2>2. {current} \subseteq Proc \ {Idle} /\ ~ Terminating
    BY <1>5, CurrentRuns DEF exit_current_process, UserRuns
  <2>. QED
    BY <2>1, <2>2, TerminateFrames
<1>6. CASE UserRuns /\ SystemCall
  <2>1. frames' = frames
    BY <1>6 DEF SystemCall, release_foreground, create_process,
       set_foreground_process_of, waitpid, block_process, unblock_process_of, nice
  <2>2. LivesOn
    <3>1. ASSUME NEW x \in 1 .. next_pid - 1, waitpid(x) PROVE LivesOn
      BY <3>1, KnownPids, WaitEffect, EffectLives DEF waitpid
    <3>2. PlainStep => LivesOn
      BY PlainEffect, EffectLives
    <3>. QED
      BY <1>6, <3>1, <3>2, CreationLives DEF SystemCall, PlainStep
  <2>. QED
    BY <1>1, <1>6, <2>1, <2>2, FramesKept
<1>7. CASE WakeWaiter
  <2> DEFINE w == Min(WaitersAhead)
             f == [Top EXCEPT !.next = w + 1]
  <2>1. w \in Proc /\ LivesOn
    BY <1>7, WakeWaiterEffect, EffectLives
  <2>2. Terminating /\ current' = current /\ Continue(f)
    BY <1>7 DEF WakeWaiter, Return
  <2>. HIDE DEF w
  <2>3. /\ f \in Frame /\ f.slot = Top.slot /\ f.kill = Top.kill
        /\ f.masked = Top.masked
    <3>1. w + 1 \in 0 .. MAX_PROCESSES
      BY <2>1, SchedulerAssumption DEF Proc
    <3>. QED
      BY <2>2, <3>1, TopIsAlive DEF Frame
  <2>. QED
    BY <2>1, <2>2, <2>3, ContinueFrames
<1>9. CASE WaitersWoken
  <2> DEFINE f == [Top EXCEPT !.todo = "children", !.next = 0]
  <2>1. Terminating /\ current' = current /\ Continue(f)
    BY <1>9 DEF WaitersWoken, schedVars
  <2>2. LivesOn
    BY <1>9, WaitersWokenEffect, EffectLives
  <2>3. /\ f \in Frame /\ f.slot = Top.slot /\ f.kill = Top.kill
        /\ f.masked = Top.masked
    <3>1. Top \in Frame /\ 0 \in 0 .. MAX_PROCESSES
      BY <2>1, TopIsAlive, SchedulerAssumption
    <3> DEFINE a == [Top EXCEPT !.todo = "children"]
    <3>2. a \in Frame /\ a.slot = Top.slot /\ a.kill = Top.kill /\ a.masked = Top.masked
      BY <3>1 DEF Frame
    <3>3. f = [a EXCEPT !.next = 0]
      OBVIOUS
    <3>. HIDE DEF a, f
    <3>. QED
      BY <3>1, <3>2, <3>3 DEF Frame
  <2>. HIDE DEF f
  <2>. QED
    BY <2>1, <2>2, <2>3, ContinueFrames
<1>10. CASE NextChild
  BY <1>10, NextChildFrames
<1>11. CASE ChildrenGone
  <2> DEFINE f == [Top EXCEPT !.todo = "die"]
  <2>1. Terminating /\ current' = current /\ Continue(f)
    BY <1>11 DEF ChildrenGone, Return
  <2>2. LivesOn
    BY <1>11, PlainEffect, EffectLives DEF PlainStep
  <2>3. /\ f \in Frame /\ f.slot = Top.slot /\ f.kill = Top.kill
        /\ f.masked = Top.masked
    BY <2>1, TopIsAlive DEF Frame
  <2>. HIDE DEF f
  <2>. QED
    BY <2>1, <2>2, <2>3, ContinueFrames
<1>12. CASE FinishTermination
  BY <1>12, FinishFrames
<1>13. CASE CreateShell
  <2>1. LivesOn /\ frames' = frames
    BY <1>13, CreationLives, ZenonT(30) DEF CreateShell, create_process
  <2>. QED
    BY <1>1, <1>13, <2>1, FramesKept DEF CreateShell
<1>14. CASE WaitForShell
  <2>1. frames' = frames
    BY <1>14 DEF WaitForShell
  <2>2. CASE Shell \in Pid \ {0} /\ WaitFor(Shell) /\ UNCHANGED <<foreground, next_pid>>
    BY <1>1, <1>14, <2>1, <2>2, WaitEffect, EffectLives, FramesKept DEF WaitForShell
  <2>3. CASE UNCHANGED <<schedVars, family, foreground, next_pid>> /\ NoReaping
    BY <2>1, <2>3, FramesKept DEF LivesOn, schedVars
  <2>. QED
    BY <1>14, <2>2, <2>3, WaitForShellStep
<1>15. CASE Halt \/ Halted \/ UNCHANGED processVars
  BY <1>15, FramesKept DEF Halt, Halted, processVars, LivesOn, schedVars
<1>. QED
  BY <1>2, <1>3, <1>4, <1>5, <1>6, <1>7, <1>9, <1>10, <1>11, <1>12, <1>13, <1>14,
     <1>15 DEF ProcessNext, terminate_process
-----------------------------------------------------------------------------
(* The boost *)

SameBoosts == \A p \in Proc : pcb'[p].boost <=> pcb[p].boost

(* Unblocking and renicing leave the boosts alone.                         *)
LEMMA ReturnKeepsBoosts ==
    ASSUME ProcInv,
           \/ \E p \in Proc : \/ unblock_process(p)
                              \/ \E prio \in NiceValues : change_priority(p, prio)
           \/ UNCHANGED schedVars
    PROVE  SameBoosts
<1>1. ASSUME NEW p \in Proc, unblock_process(p), NEW o \in Proc
      PROVE  pcb'[o].boost <=> pcb[o].boost
  BY <1>1, CurrentRuns DEF unblock_process, UnblockedTable, Return, PCB
<1>2. ASSUME NEW p \in Proc, NEW prio \in NiceValues, change_priority(p, prio),
             NEW o \in Proc
      PROVE  pcb'[o].boost <=> pcb[o].boost
  BY <1>2, CurrentRuns DEF change_priority, Return, PCB
<1>3. CASE UNCHANGED schedVars
  BY <1>3 DEF schedVars, SameBoosts
<1>. QED
  BY <1>1, <1>2, <1>3 DEF SameBoosts

(* The foreground calls leave one boost or none.                           *)
LEMMA ForegroundBoosts ==
    ASSUME ProcInv
    PROVE  /\ clear_foreground_process => \A o \in Proc : ~ pcb'[o].boost
           /\ \A p \in Proc : set_foreground_process(p) =>
                 \A o \in Proc : pcb'[o].boost <=> o = p
<1>1. \A r \in PCB : Boosted(r).boost /\ ~ Unboosted(r).boost
  BY DEF Boosted, Unboosted, PCB
<1>2. clear_foreground_process => \A o \in Proc : ~ pcb'[o].boost
  BY <1>1, CurrentRuns
     DEF clear_foreground_process, release_foreground_owner, Return
<1>3. ASSUME NEW p \in Proc, set_foreground_process(p), NEW o \in Proc
      PROVE  pcb'[o].boost <=> o = p
  BY <1>1, <1>3, CurrentRuns DEF set_foreground_process, WithForeground, Return
<1>. QED
  BY <1>2, <1>3

(* Without a new owner and a new boost BoostInv stays.                     *)
LEMMA BoostKept ==
    ASSUME ProcInv, LivesOn, foreground' = foreground,
           \A p \in Proc : pcb'[p].boost => pcb[p].boost
    PROVE  BoostInv'
  BY DEF ProcInv, BoostInv, LivesOn, Alive

(* Every step keeps the boost with the owner.                              *)
LEMMA BoostNext ==
    ASSUME ProcInv, [ProcessNext]_processVars
    PROVE  BoostInv'
<1>1. PlainStep => LivesOn
  BY PlainEffect, EffectLives
<1>2. ASSUME clear_foreground_process PROVE BoostInv'
  BY <1>2, ForegroundBoosts DEF BoostInv
<1>3. ASSUME SameLife(pcb, pcb'), LivesOn, foreground' = foreground PROVE BoostInv'
  BY <1>3, BoostKept DEF SameLife
<1>4. CASE timer_handler
  BY <1>1, <1>3, <1>4, TimerStep DEF timer_handler, PlainStep
<1>5. CASE \/ handle_ctrl_c \/ exit_current_process
           \/ \E x \in 1 .. next_pid - 1 : kill_process(x)
  <2>1. UNCHANGED <<schedVars, foreground>>
    BY <1>5 DEF handle_ctrl_c, exit_current_process, kill_process, Terminate
  <2>. QED
    BY <1>1, <1>5, <2>1, ReturnKeepsBoosts, BoostKept DEF PlainStep, SameBoosts
<1>6. CASE release_foreground
  BY <1>2, <1>6, RestoredIsReleased DEF release_foreground, clear_foreground_process
<1>7. ASSUME NEW prio \in Priorities, NEW fg \in BOOLEAN, NEW ok \in BOOLEAN,
             create_process(prio, fg, ok)
      PROVE  BoostInv'
  <2>1. LivesOn
    BY <1>7, CreationLives
  <2>2. PICK fam \in [Proc -> Family] :
           \/ UNCHANGED <<schedVars, next_pid, foreground>>
           \/ \E p \in Proc :
                 /\ Birth(fam, p, fg, ok)
                 /\ IF ok THEN Admit(p, prio, fg) ELSE UNCHANGED schedVars
    BY <1>7, CreateStep
  <2>3. CASE UNCHANGED <<schedVars, next_pid, foreground>>
    BY <2>1, <2>3, BoostKept DEF schedVars
  <2>4. ASSUME NEW p \in Proc, Birth(fam, p, fg, ok), ok, Admit(p, prio, fg)
        PROVE  BoostInv'
    <3>1. \A o \in Proc : /\ pcb'[o].state = IF o = p THEN "READY" ELSE pcb[o].state
                          /\ pcb'[o].boost <=> IF o = p THEN fg ELSE ~ fg /\ pcb[o].boost
      BY <2>4, AdmitKeeps
    <3>2. CASE fg
      <4>1. family'[p].pid = next_pid /\ foreground' = next_pid
        <5>1. family[current].pid \in Pid \union {None}
          BY CurrentRuns DEF ProcInv, TableInv, Family
        <5>. QED
          BY <2>4, <3>2, <5>1, NewbornType DEF Birth
      <4>. QED
        BY <3>1, <3>2, <4>1 DEF BoostInv, Alive
    <3>3. CASE ~ fg
      <4>1. foreground' = foreground
        BY <2>4, <3>3 DEF Birth
      <4>. QED
        BY <2>1, <3>1, <3>3, <4>1, BoostKept
    <3>. QED
      BY <3>2, <3>3
  <2>5. ASSUME NEW p \in Proc, Birth(fam, p, fg, ok), ~ ok, UNCHANGED schedVars
        PROVE  BoostInv'
    BY <2>1, <2>5, BoostKept DEF Birth, schedVars
  <2>. QED
    BY <2>2, <2>3, <2>4, <2>5
<1>8. ASSUME NEW x \in 1 .. next_pid - 1, set_foreground_process_of(x)
      PROVE  BoostInv'
  <2>1. CASE clear_foreground_process
    BY <1>2, <2>1
  <2>2. ASSUME foreground' = x, NEW p \in Proc, family[p].pid = x,
               set_foreground_process(p)
        PROVE  BoostInv'
    <3>1. \A o \in Proc : pcb'[o].boost <=> o = p
      BY <2>2, ForegroundBoosts
    <3>2. LivesOn /\ pcb[p].state # "TERMINATED"
      BY <1>1, <1>8, <2>2 DEF PlainStep, set_foreground_process, Alive
    <3>. QED
      BY <2>2, <3>1, <3>2 DEF BoostInv, LivesOn, Alive
  <2>. QED
    BY <1>8, <2>1, <2>2, KnownPids, ForegroundStep
<1>9. ASSUME NEW x \in Pid, WaitFor(x), UNCHANGED <<foreground, next_pid>>
      PROVE  BoostInv'
  BY <1>3, <1>9, WaitStep, WaitEffect, EffectLives
<1>10. ASSUME NEW x \in 1 .. next_pid - 1, waitpid(x)
       PROVE  BoostInv'
  BY <1>9, <1>10, KnownPids DEF waitpid
<1>11. ASSUME NEW x \in 1 .. next_pid - 1, block_process(x)
       PROVE  BoostInv'
  BY <1>1, <1>3, <1>11, KnownPids, BlockStep DEF block_process, PlainStep
<1>12. ASSUME NEW x \in 1 .. next_pid - 1, unblock_process_of(x)
       PROVE  BoostInv'
  <2>1. \E p \in Proc : unblock_process(p)
    BY <1>12, KnownPids, FoundProcess DEF unblock_process_of, unblock_process, ProcInv
  <2>2. foreground' = foreground
    BY <1>12 DEF unblock_process_of
  <2>. QED
    BY <1>1, <1>12, <2>1, <2>2, ReturnKeepsBoosts, BoostKept DEF PlainStep, SameBoosts
<1>13. ASSUME NEW x \in 1 .. next_pid - 1, NEW prio \in NiceValues, nice(x, prio)
       PROVE  BoostInv'
  <2>1. \E p \in Proc : change_priority(p, prio)
    BY <1>13, KnownPids, FoundProcess DEF nice, ProcInv
  <2>2. foreground' = foreground
    BY <1>13 DEF nice
  <2>. QED
    BY <1>1, <1>13, <2>1, <2>2, ReturnKeepsBoosts, BoostKept DEF PlainStep, SameBoosts
<1>14. CASE WakeWaiter
  <2>1. LivesOn /\ foreground' = foreground
    BY <1>14, WakeWaiterEffect, EffectLives DEF WakeWaiter
  <2>. QED
    BY <1>14, <2>1, WakeWaiterStep, ReturnKeepsBoosts, BoostKept DEF SameBoosts
<1>15. CASE WaitersWoken \/ NextChild
  <2>1. UNCHANGED <<schedVars, foreground>>
    BY <1>15 DEF WaitersWoken, NextChild
  <2>2. LivesOn
    BY <1>15, WaitersWokenEffect, NextChildEffect, EffectLives
  <2>. QED
    BY <2>1, <2>2, ReturnKeepsBoosts, BoostKept DEF SameBoosts
<1>16. CASE ChildrenGone
  <2>1. CASE foreground = family[Top.slot].pid
    <3>1. clear_foreground_process
      BY <1>16, <2>1, RestoredIsReleased DEF ChildrenGone, clear_foreground_process
    <3>. QED
      BY <1>2, <3>1
  <2>2. CASE foreground # family[Top.slot].pid
    <3>1. pcb' = pcb /\ foreground' = foreground
      BY <1>16, <2>2 DEF ChildrenGone, Return
    <3>. QED
      BY <1>1, <1>16, <3>1, BoostKept DEF PlainStep
  <2>. QED
    BY <2>1, <2>2
<1>17. CASE FinishTermination
  <2> DEFINE t == [pcb EXCEPT ![Top.slot] = FreeSlot]
  <2>1. SameLife(t, pcb') /\ Effect(t, family) /\ foreground' = foreground
    BY <1>17, FinishStep, FinishEffect DEF FinishTermination
  <2>2. \A o \in Proc : t[o].boost => t[o] = pcb[o]
    BY CurrentRuns DEF FreeSlot
  <2>. HIDE DEF t
  <2>3. ASSUME NEW o \in Proc, pcb'[o].boost
        PROVE  pcb'[o].state # "TERMINATED" /\ family'[o].pid = foreground
    <3>1. t[o] = pcb[o] /\ pcb[o].boost
      BY <2>1, <2>2, <2>3 DEF SameLife
    <3>2. t[o].state # "TERMINATED" /\ family[o].pid = foreground
      BY <3>1 DEF ProcInv, BoostInv, Alive
    <3>. QED
      BY <2>1, <3>2 DEF SameLife, Effect, Reaps
  <2>. QED
    BY <2>1, <2>3 DEF BoostInv, Alive
<1>18. CASE CreateShell
  BY <1>7, <1>18 DEF CreateShell
<1>19. CASE WaitForShell
  <2>1. CASE UNCHANGED <<schedVars, family, foreground, next_pid>>
    BY <2>1, BoostKept DEF LivesOn, schedVars
  <2>. QED
    BY <1>9, <1>19, <2>1, WaitForShellStep
<1>20. CASE Halt \/ Halted \/ UNCHANGED processVars
  BY <1>20, BoostKept DEF Halt, Halted, processVars, LivesOn, schedVars
<1>. QED
  BY <1>4, <1>5, <1>6, <1>7, <1>8, <1>10, <1>11, <1>12, <1>13, <1>14, <1>15, <1>16,
     <1>17, <1>18, <1>19, <1>20 DEF ProcessNext, SystemCall, terminate_process

-----------------------------------------------------------------------------
(* The invariant *)

LEMMA ProcInit == ProcessInit => ProcInv
<1> SUFFICES ASSUME ProcessInit PROVE ProcInv
  OBVIOUS
<1>1. Inv
  BY InitInv DEF ProcessInit
<1>2. /\ \A p \in Proc : /\ pcb[p] = IF p = Idle THEN [FreeSlot EXCEPT !.state = "RUNNING"]
                                     ELSE FreeSlot
                         /\ pcb[p].waiting_ticks = 0 /\ ~ pcb[p].boost
      /\ Idle \in Proc /\ current = Idle /\ Alive(Idle)
      /\ \A p \in Proc \ {Idle} : ~ Alive(p)
  BY SchedulerAssumption
     DEF ProcessInit, SchedulerInit, FreeSlot, Idle, Proc, Alive
<1>3. Fresh /\ BoostInv
  BY <1>2 DEF Fresh, BoostInv
<1> DEFINE r == [Released EXCEPT !.pid = 0]
<1>4. /\ r \in Family /\ r.pid = 0
      /\ Released \in Family /\ Released.pid = None
  BY ReleasedType, ProcessAssumption DEF Released, Family, Pid, None
<1>5. \A p \in Proc : family[p] = IF p = Idle THEN r ELSE Released
  BY <1>2 DEF ProcessInit
<1>. HIDE DEF r
<1>6. family \in [Proc -> Family]
  <2>1. DOMAIN family = Proc /\ family = [p \in Proc |-> family[p]]
    BY DEF ProcessInit
  <2>. QED
    BY <1>4, <1>5, <2>1
<1>7. /\ next_pid = 1 /\ foreground = None /\ pending_cleanup = None
      /\ cleanup_counter \in 0 .. CLEANUP_INTERVAL - 1
      /\ next_pid \in 1 .. MaxPid + 1
      /\ boot \in BootState /\ preempted \in BOOLEAN
  <2>1. /\ next_pid = 1 /\ foreground = None /\ pending_cleanup = None
        /\ cleanup_counter = CLEANUP_INTERVAL - 1 /\ boot = "start" /\ preempted = FALSE
    BY DEF ProcessInit
  <2>2. 1 \in 1 .. MaxPid + 1 /\ CLEANUP_INTERVAL - 1 \in 0 .. CLEANUP_INTERVAL - 1
    BY ProcessAssumption
  <2>. QED
    BY <2>1, <2>2 DEF BootState
<1>8. TableInv
  BY <1>2, <1>4, <1>5, <1>6, <1>7 DEF TableInv, None
<1>9. FramesInv
  <2>1. /\ frames \in [Proc -> Seq(Frame)]
        /\ \A p \in Proc : frames[p] = <<>>
    BY DEF ProcessInit
  <2>2. \A p \in Proc : DOMAIN frames[p] = {}
    BY <2>1
  <2>. QED
    BY <2>1, <2>2 DEF FramesInv
<1>. QED
  BY <1>1, <1>3, <1>8, <1>9 DEF ProcInv

(* The five parts together are inductive.                                  *)
LEMMA ProcNext ==
    ASSUME ProcInv, [ProcessNext]_processVars
    PROVE  ProcInv'
<1>1. SchedulerStep
  BY StepRefines
<1>2. Inv'
  BY <1>1, NextInv DEF ProcInv, SchedulerStep
<1>. QED
  BY <1>1, <1>2, FreshStep, TableNext, FramesNext, BoostNext DEF ProcInv

(* The tables of identities and of scheduling fields, the stacks, the queue *)
(* and the boost agree in every state the kernel can reach, with an exit    *)
(* half way or preempted too.                                               *)
THEOREM ProcInvHolds == ProcessSpec => []ProcInv
<1>1. ProcInv /\ [ProcessNext]_processVars => ProcInv'
  BY ProcNext
<1>. QED
  BY <1>1, ProcInit, PTL DEF ProcessSpec

(* Whatever is created, killed, awaited and reaped, and wherever an exit is *)
(* interrupted, process.c does to the queue and to the scheduling fields    *)
(* only what Scheduler allows: what is proved of Scheduler holds here.      *)
THEOREM LifeCycleIsScheduled == ProcessSpec => SchedulerSpec
<1>1. ProcessInit => SchedulerInit
  BY DEF ProcessInit
<1>2. ProcInv /\ [ProcessNext]_processVars => [SchedulerNext]_schedVars
  BY StepRefines DEF SchedulerStep
<1>. QED
  BY <1>1, <1>2, ProcInvHolds, PTL DEF ProcessSpec, SchedulerSpec

(* Identities, stacks and counters stay in their types: pids are handed out *)
(* in order up to next_pid, parents and owners are pids or none.            *)
THEOREM ProcessTypeCorrect == ProcessSpec => []ProcessTypeOK
<1>1. ProcInv => ProcessTypeOK
  BY DEF ProcInv, Inv, Consistent, TypeOK, TableInv, FramesInv, ProcessTypeOK
<1>. QED
  BY <1>1, ProcInvHolds, PTL

(* Reaping takes only dead slots, and a pid names one slot, so that a live  *)
(* process keeps its entry whatever reaps in between: the sweep of a        *)
(* creation, the one of schedule() or pending_cleanup_process.              *)
THEOREM LiveSlotsKept == ProcessSpec => []LiveSlotsAreKept
<1>1. ProcInv => LiveSlotsAreKept
  BY DEF ProcInv, TableInv, LiveSlotsAreKept
<1>. QED
  BY <1>1, ProcInvHolds, PTL

-----------------------------------------------------------------------------
(***************************************************************************)
(* The family: as long as no exit has been preempted half way, no wake-up  *)
(* of waitpid is lost, the family is a tree and the owner of the           *)
(* foreground is the process with the boost.                               *)
(*                                                                         *)
(* None of the three is inductive: while terminate_process is under way it *)
(* is what the activations have done so far that keeps them.  Orderly adds *)
(* that: only the stack in use holds activations, and each has done what   *)
(* its stage says (Stage): nobody it has passed still waits for its        *)
(* process, the children it has passed are gone, or handed over, and       *)
(* before it dies nobody is left and the foreground is not its own.        *)
(***************************************************************************)

(* Waiters and Children, of a table t and identities fam. *)
LiveWaiters(t, fam, p) ==
    {w \in Proc : fam[w].waiting_pid = fam[p].pid /\ t[w].state # "TERMINATED"}

LiveChildren(t, fam, p) ==
    {c \in Proc \ {Idle} : fam[c].parent_pid = fam[p].pid /\ t[c].state # "TERMINATED"}

(* What activation f has done; x is the child it waits for, if any. *)
Stage(t, fam, fg, f, x) ==
    /\ f.todo = "waiters" => \A w \in LiveWaiters(t, fam, f.slot) : w >= f.next
    /\ f.todo # "waiters" => LiveWaiters(t, fam, f.slot) = {}
    /\ f.todo = "children" =>
          \A c \in LiveChildren(t, fam, f.slot) : c >= f.next \/ c = x
    /\ f.todo = "die" => LiveChildren(t, fam, f.slot) = {} /\ fam[f.slot].pid # fg

Above(s, i) == IF i < Len(s) /\ s[i].kill THEN s[i + 1].slot ELSE None

StackDone(t, fam, fg, s) ==
    \A i \in 1 .. Len(s) :
       /\ Stage(t, fam, fg, s[i], Above(s, i))
       /\ i < Len(s) /\ s[i].kill => s[i].todo = "children"

Alone == \A p \in Proc \ {current} : frames[p] = <<>>

WaitersWait ==
    \A p \in Proc : Alive(p) /\ family[p].waiting_pid # None =>
       \E c \in Proc : Alive(c) /\ family[c].pid = family[p].waiting_pid

ParentsLive ==
    \A p \in Proc \ {Idle} : Alive(p) =>
       \E r \in Proc : /\ Alive(r)
                       /\ family[r].pid = family[p].parent_pid
                       /\ family[r].pid < family[p].pid

OwnerBoosted == foreground # None => \E p \in Proc : pcb[p].boost

Orderly ==
    /\ Alone
    /\ StackDone(pcb, family, foreground, frames[current])
    /\ WaitersWait
    /\ ParentsLive
    /\ OwnerBoosted

FamilyInv == ProcInv /\ (~ preempted => Orderly)

-----------------------------------------------------------------------------
(* Waiting and parents *)

(* A step that begins and ends no life and after which a live process       *)
(* waits for the one it waited for, for none or for another live one.       *)
LEMMA WaitKept ==
    ASSUME WaitersWait, NEW fam, Effect(pcb, fam),
           \A p \in Proc :
              \/ fam[p].waiting_pid \in {family[p].waiting_pid, None}
              \/ \E c \in Proc : Alive(c) /\ family[c].pid = fam[p].waiting_pid
    PROVE  WaitersWait'
<1>1. \A p \in Proc : pcb'[p].state # "TERMINATED" =>
         /\ pcb[p].state # "TERMINATED"
         /\ family'[p] = fam[p] /\ fam[p].pid = family[p].pid
  BY DEF Effect, Reaps
<1>2. \A p \in Proc : pcb[p].state # "TERMINATED" =>
         pcb'[p].state # "TERMINATED"
  BY DEF Effect
<1>3. ASSUME NEW p \in Proc, pcb'[p].state # "TERMINATED",
             family'[p].waiting_pid # None
      PROVE  \E c \in Proc : /\ pcb'[c].state # "TERMINATED"
                             /\ family'[c].pid = family'[p].waiting_pid
  <2>1. PICK c \in Proc : /\ pcb[c].state # "TERMINATED"
                          /\ family[c].pid = fam[p].waiting_pid
    BY <1>1, <1>3 DEF WaitersWait, Alive
  <2>. QED
    BY <1>1, <1>2, <1>3, <2>1
<1>. QED
  BY <1>3 DEF WaitersWait, Alive

(* A step that begins and ends no life and after which a live process has   *)
(* its parent, or another one that lives and is older.                      *)
LEMMA ParentsKept ==
    ASSUME ParentsLive, NEW fam, Effect(pcb, fam),
           \A p \in Proc \ {Idle} : Alive(p) =>
              \/ fam[p].parent_pid = family[p].parent_pid
              \/ \E r \in Proc : /\ Alive(r)
                                 /\ family[r].pid = fam[p].parent_pid
                                 /\ family[r].pid < family[p].pid
    PROVE  ParentsLive'
<1>1. \A p \in Proc : pcb'[p].state # "TERMINATED" =>
         /\ pcb[p].state # "TERMINATED"
         /\ family'[p] = fam[p] /\ fam[p].pid = family[p].pid
  BY DEF Effect, Reaps
<1>2. \A p \in Proc : pcb[p].state # "TERMINATED" =>
         pcb'[p].state # "TERMINATED"
  BY DEF Effect
<1>3. ASSUME NEW p \in Proc \ {Idle}, pcb'[p].state # "TERMINATED"
      PROVE  \E r \in Proc : /\ pcb'[r].state # "TERMINATED"
                             /\ family'[r].pid = family'[p].parent_pid
                             /\ family'[r].pid < family'[p].pid
  <2>1. PICK r \in Proc : /\ pcb[r].state # "TERMINATED"
                          /\ family[r].pid = fam[p].parent_pid
                          /\ family[r].pid < family[p].pid
    BY <1>1, <1>3 DEF ParentsLive, Alive
  <2>. QED
    BY <1>1, <1>2, <1>3, <2>1
<1>. QED
  BY <1>3 DEF ParentsLive, Alive

(* A step that writes no identity and ends no life keeps the family.       *)
LEMMA QuietFamily ==
    ASSUME WaitersWait, ParentsLive, Effect(pcb, family)
    PROVE  WaitersWait' /\ ParentsLive'
  BY WaitKept, ParentsKept

(* One process stops waiting, or waits for a live one. *)
LEMMA WaitingFamily ==
    ASSUME ProcInv, WaitersWait, ParentsLive,
           NEW p \in Proc, NEW x \in Pid \union {None},
           x = None \/ \E c \in Proc : Alive(c) /\ family[c].pid = x,
           Effect(pcb, [family EXCEPT ![p].waiting_pid = x])
    PROVE  WaitersWait' /\ ParentsLive'
<1> DEFINE fam == [family EXCEPT ![p].waiting_pid = x]
<1>1. \A o \in Proc : /\ fam[o].parent_pid = family[o].parent_pid
                      /\ fam[o].waiting_pid = IF o = p THEN x ELSE family[o].waiting_pid
  BY SameParents, SameFamily, SMT
<1>2. Effect(pcb, fam)
  OBVIOUS
<1>. HIDE DEF fam
<1>. QED
  BY <1>1, <1>2, WaitKept, ParentsKept

(* The children of a process that exits go to its parent. *)
LEMMA NextChildFamily ==
    ASSUME ProcInv, WaitersWait, ParentsLive, NextChild
    PROVE  WaitersWait' /\ ParentsLive'
<1> DEFINE c == Min(ChildrenAhead)
<1>1. /\ c \in Proc \ {Idle} /\ Alive(c)
      /\ family[Top.slot].pid < family[c].pid
      /\ family' = IF Top.kill THEN family ELSE Adopted(c)
      /\ \A o \in Proc :
            /\ Adopted(c)[o].waiting_pid = family[o].waiting_pid
            /\ Adopted(c)[o].parent_pid = IF o = c THEN family[Top.slot].parent_pid
                                          ELSE family[o].parent_pid
      /\ Effect(pcb, family')
  BY NextChildEffect
<1>. HIDE DEF c
<1>2. CASE Top.kill
  BY <1>1, <1>2, QuietFamily
<1>3. CASE ~ Top.kill
  <2>1. PICK r \in Proc : /\ Alive(r)
                          /\ family[r].pid = family[Top.slot].parent_pid
                          /\ family[r].pid < family[Top.slot].pid
    BY TopIsAlive DEF NextChild, ParentsLive
  <2>2. family[r].pid < family[c].pid
    <3>1. \A o \in Proc : family[o].pid \in Int
      BY ProcessAssumption DEF ProcInv, TableInv, Family, Pid, None
    <3>2. Top.slot \in Proc
      BY TopIsAlive DEF NextChild
    <3>. QED
      BY <1>1, <2>1, <3>1, <3>2
  <2>. QED
    BY <1>1, <1>3, <2>1, <2>2, WaitKept, ParentsKept
<1>. QED
  BY <1>2, <1>3

(* The process that dies leaves no waiter and no child behind. *)
LEMMA FinishFamily ==
    ASSUME ProcInv, WaitersWait, ParentsLive, FinishTermination,
           LiveWaiters(pcb, family, Top.slot) = {},
           LiveChildren(pcb, family, Top.slot) = {}
    PROVE  WaitersWait' /\ ParentsLive'
<1> DEFINE p == Top.slot
           t == [pcb EXCEPT ![p] = FreeSlot]
<1>1. p \in Proc /\ Effect(t, family)
  BY TopIsAlive, FinishEffect DEF FinishTermination
<1>2. \A o \in Proc : t[o].state # "TERMINATED" <=> o # p /\ pcb[o].state # "TERMINATED"
  BY <1>1, CurrentRuns, FreeSlotType
<1>3. /\ \A o \in Proc : pcb[o].state # "TERMINATED" =>
            family[o].waiting_pid # family[p].pid
      /\ \A o \in Proc \ {Idle} : pcb[o].state # "TERMINATED" =>
            family[o].parent_pid # family[p].pid
  BY DEF LiveWaiters, LiveChildren
<1>. HIDE DEF p, t
<1>4. \A o \in Proc : pcb'[o].state # "TERMINATED"
                        <=> o # p /\ pcb[o].state # "TERMINATED"
  BY <1>1, <1>2 DEF Effect
<1>5. \A o \in Proc : o # p /\ pcb[o].state # "TERMINATED" => family'[o] = family[o]
  BY <1>1, <1>2 DEF Effect, Reaps
<1>6. ASSUME NEW o \in Proc, o # p, pcb[o].state # "TERMINATED",
             family[o].waiting_pid # None
      PROVE  \E c \in Proc \ {p} : /\ pcb[c].state # "TERMINATED"
                                   /\ family[c].pid = family[o].waiting_pid
  BY <1>3, <1>6 DEF WaitersWait, Alive
<1>7. ASSUME NEW o \in Proc \ {Idle}, o # p, pcb[o].state # "TERMINATED"
      PROVE  \E r \in Proc \ {p} : /\ pcb[r].state # "TERMINATED"
                                   /\ family[r].pid = family[o].parent_pid
                                   /\ family[r].pid < family[o].pid
  BY <1>3, <1>7 DEF ParentsLive, Alive
<1>. QED
  BY <1>4, <1>5, <1>6, <1>7 DEF WaitersWait, ParentsLive, Alive

(* A process is created as a child of the one that runs, and waits for none. *)
LEMMA CreationFamily ==
    ASSUME ProcInv, WaitersWait, ParentsLive,
           NEW prio \in Priorities, NEW fg \in BOOLEAN, NEW ok \in BOOLEAN,
           create_process(prio, fg, ok)
    PROVE  WaitersWait' /\ ParentsLive'
<1>1. PICK fam \in [Proc -> Family] :
         /\ Swept(fam)
         /\ \/ /\ family' = fam
               /\ UNCHANGED <<schedVars, next_pid, foreground>>
            \/ \E p \in Proc :
                  /\ Birth(fam, p, fg, ok)
                  /\ IF ok THEN Admit(p, prio, fg) ELSE UNCHANGED schedVars
  BY CreateStep
<1>2. \A o \in Proc : pcb[o].state # "TERMINATED" => fam[o] = family[o]
  BY <1>1 DEF Swept
<1>3. CASE family' = fam /\ UNCHANGED <<schedVars, next_pid, foreground>>
  <2>1. /\ pcb' = pcb
        /\ \A o \in Proc : pcb[o].state # "TERMINATED" => family'[o] = family[o]
    BY <1>2, <1>3 DEF schedVars
  <2>. QED
    BY <2>1 DEF WaitersWait, ParentsLive, Alive
<1>4. ASSUME NEW p \in Proc, Birth(fam, p, fg, ok),
             IF ok THEN Admit(p, prio, fg) ELSE UNCHANGED schedVars
      PROVE  WaitersWait' /\ ParentsLive'
  <2>1. /\ family'[p].pid = next_pid
        /\ family'[p].parent_pid = family[current].pid
        /\ family'[p].waiting_pid = None
        /\ \A o \in Proc \ {p} : family'[o] = fam[o]
    <3>1. family[current].pid \in Pid \union {None}
      BY CurrentRuns DEF ProcInv, TableInv, Family
    <3>. QED
      BY <1>4, <3>1, NewbornType DEF Birth, Released
  <2>2. /\ \A o \in Proc \ {p} : pcb'[o].state = pcb[o].state
        /\ pcb[p].state = "TERMINATED"
    BY <1>4, AdmitKeeps DEF Birth, schedVars
  <2>3. \A o \in Proc : pcb[o].state # "TERMINATED" =>
           o # p /\ family'[o] = family[o] /\ pcb'[o].state # "TERMINATED"
    BY <1>2, <2>1, <2>2
  <2>4. /\ pcb[current].state # "TERMINATED" /\ current \in Proc
        /\ family[current].pid < next_pid
    BY CurrentRuns DEF ProcInv, TableInv
  <2>5. ASSUME NEW o \in Proc, pcb'[o].state # "TERMINATED",
               family'[o].waiting_pid # None
        PROVE  \E c \in Proc : /\ pcb'[c].state # "TERMINATED"
                               /\ family'[c].pid = family'[o].waiting_pid
    <3>1. pcb[o].state # "TERMINATED" /\ family'[o] = family[o]
      BY <1>2, <2>1, <2>2, <2>5
    <3>2. PICK c \in Proc : /\ pcb[c].state # "TERMINATED"
                            /\ family[c].pid = family[o].waiting_pid
      BY <2>5, <3>1 DEF WaitersWait, Alive
    <3>. QED
      BY <2>3, <3>1, <3>2
  <2>6. ASSUME NEW o \in Proc \ {Idle}, pcb'[o].state # "TERMINATED"
        PROVE  \E r \in Proc : /\ pcb'[r].state # "TERMINATED"
                               /\ family'[r].pid = family'[o].parent_pid
                               /\ family'[r].pid < family'[o].pid
    <3>1. CASE o = p
      BY <2>1, <2>3, <2>4, <3>1
    <3>2. CASE o # p
      <4>1. pcb[o].state # "TERMINATED" /\ family'[o] = family[o]
        BY <1>2, <2>1, <2>2, <2>6, <3>2
      <4>2. PICK r \in Proc : /\ pcb[r].state # "TERMINATED"
                              /\ family[r].pid = family[o].parent_pid
                              /\ family[r].pid < family[o].pid
        BY <4>1 DEF ParentsLive, Alive
      <4>. QED
        BY <2>3, <4>1, <4>2
    <3>. QED
      BY <3>1, <3>2
  <2>. QED
    BY <2>5, <2>6 DEF WaitersWait, ParentsLive, Alive
<1>. QED
  BY <1>1, <1>3, <1>4
-----------------------------------------------------------------------------
(* What the activations have done stays done. *)

Fewer(p) ==
    /\ family[p].pid # None
    /\ family'[p].pid = family[p].pid
    /\ LiveWaiters(pcb', family', p) \subseteq LiveWaiters(pcb, family, p)
    /\ LiveChildren(pcb', family', p) \subseteq LiveChildren(pcb, family, p)

(* A step that only makes processes stop waiting adds no waiter and no     *)
(* child.                                                                  *)
LEMMA EffectFewer ==
    ASSUME ProcInv, NEW t, NEW fam, Effect(t, fam),
           \A o \in Proc : /\ fam[o].waiting_pid \in {family[o].waiting_pid, None}
                           /\ fam[o].parent_pid = family[o].parent_pid,
           NEW p \in Proc, t[p].state # "TERMINATED"
    PROVE  Fewer(p)
<1>1. \A o \in Proc : t[o].state # "TERMINATED" =>
         /\ pcb[o].state # "TERMINATED" /\ family'[o] = fam[o]
         /\ fam[o].pid = family[o].pid
  BY DEF Effect, Reaps
<1>2. \A o \in Proc : pcb'[o].state # "TERMINATED" => t[o].state # "TERMINATED"
  BY DEF Effect
<1>3. family[p].pid # None /\ family'[p].pid = family[p].pid
  BY <1>1 DEF ProcInv, TableInv, Alive
<1>4. ASSUME NEW o \in LiveWaiters(pcb', family', p)
      PROVE  o \in LiveWaiters(pcb, family, p)
  BY <1>1, <1>2, <1>3 DEF LiveWaiters
<1>5. ASSUME NEW o \in LiveChildren(pcb', family', p)
      PROVE  o \in LiveChildren(pcb, family, p)
  BY <1>1, <1>2, <1>3 DEF LiveChildren
<1>. QED
  BY <1>3, <1>4, <1>5 DEF Fewer

(* Nor does one that writes no identity.                                   *)
LEMMA QuietFewer ==
    ASSUME ProcInv, Effect(pcb, family), NEW p \in Proc, pcb[p].state # "TERMINATED"
    PROVE  Fewer(p)
  BY EffectFewer

(* Nor does waking a waiter, who is no waiter any more.                    *)
LEMMA WaitingFewer ==
    ASSUME ProcInv, NEW w \in Proc, Effect(pcb, [family EXCEPT ![w].waiting_pid = None]),
           NEW p \in Proc, pcb[p].state # "TERMINATED"
    PROVE  /\ Fewer(p)
           /\ family'[w].waiting_pid # family'[p].pid
<1> DEFINE fam == [family EXCEPT ![w].waiting_pid = None]
<1>1. \A o \in Proc : /\ fam[o].parent_pid = family[o].parent_pid
                      /\ fam[o].waiting_pid
                            = IF o = w THEN None ELSE family[o].waiting_pid
  BY SameParents, SameFamily, SMT
<1>2. Effect(pcb, fam)
  OBVIOUS
<1>. HIDE DEF fam
<1>3. Fewer(p)
  BY <1>1, <1>2, EffectFewer
<1>4. family'[w] = fam[w] \/ family'[w] = Released
  BY <1>2 DEF Effect, Reaps
<1>. QED
  BY <1>1, <1>3, <1>4 DEF Fewer, Released

(* With fewer waiters and children an activation is as far as it was.      *)
LEMMA StageKept ==
    ASSUME NEW f, NEW x, Fewer(f.slot), foreground' \in {foreground, None},
           Stage(pcb, family, foreground, f, x)
    PROVE  Stage(pcb', family', foreground', f, x)
  BY DEF Fewer, Stage

(* The slots on the stack in use are live, and the process that dies is not *)
(* one of those below it.                                                   *)
LEMMA StackSlots ==
    ASSUME ProcInv, Terminating
    PROVE  /\ Len(frames[current]) \in Nat \ {0}
           /\ \A i \in 1 .. Len(frames[current]) :
                 /\ frames[current][i] \in Frame
                 /\ frames[current][i].slot \in Proc
                 /\ pcb[frames[current][i].slot].state # "TERMINATED"
           /\ Top = frames[current][Len(frames[current])]
           /\ \A i \in 1 .. Len(frames[current]) - 1 :
                 Top.slot # current => frames[current][i].slot # Top.slot
           /\ ~ Top.kill => Len(frames[current]) = 1
<1> DEFINE n == Len(frames[current])
<1>1. /\ frames[current] \in Seq(Frame) /\ n \in Nat \ {0}
      /\ DOMAIN frames[current] = 1 .. n
      /\ Top = frames[current][n] /\ Top.slot \in Proc
  BY TopIsAlive
<1>2. \A i \in 1 .. n : frames[current][i] \in Frame
  BY <1>1, ElementOfSeq DEF n
<1>. HIDE DEF n
<1>3. \A i \in 1 .. n : /\ frames[current][i].slot \in Proc
                        /\ pcb[frames[current][i].slot].state # "TERMINATED"
  BY <1>1, <1>2, CurrentIsGood DEF GoodStack, Frame
<1>4. ~ Top.kill => n = 1
  BY <1>1, CurrentIsGood DEF GoodStack
<1>5. ASSUME NEW i \in 1 .. n - 1, Top.slot # current
      PROVE  frames[current][i].slot # Top.slot
  <2>1. i \in 1 .. n /\ n \in 1 .. n /\ i < n
    BY <1>1
  <2>2. frames[current][i].kill =>
           family[frames[current][i].slot].pid < family[Top.slot].pid
    BY <1>1, <2>1, CurrentIsGood DEF GoodStack
  <2>3. family[Top.slot].pid \in Int
    BY <1>1, ProcessAssumption DEF ProcInv, TableInv, Family, Pid, None
  <2>. QED
    BY <1>1, <1>5, <2>1, <2>2, <2>3, CurrentIsGood DEF GoodStack
<1>. QED
  BY <1>1, <1>2, <1>3, <1>4, <1>5 DEF n

(* The innermost activation has gone on. *)
LEMMA ContinueDone ==
    ASSUME ProcInv, Terminating, StackDone(pcb, family, foreground, frames[current]),
           NEW f \in Frame, Continue(f), f.slot = Top.slot, f.kill = Top.kill,
           current' = current, foreground' \in {foreground, None},
           \A i \in 1 .. Len(frames[current]) - 1 : Fewer(frames[current][i].slot),
           Stage(pcb', family', foreground', f, None)
    PROVE  StackDone(pcb', family', foreground', frames'[current'])
<1> DEFINE s == Append(Front(frames[current]), f)
           n == Len(frames[current])
<1>1. /\ frames[current] \in Seq(Frame) /\ frames[current] # <<>>
      /\ n \in Nat \ {0} /\ Top = frames[current][n]
  BY TopIsAlive
<1>2. frames'[current'] = s
  BY CurrentRuns DEF Continue, ProcInv, FramesInv
<1>3. /\ Len(s) = n
      /\ \A i \in 1 .. n - 1 : s[i] = frames[current][i]
      /\ s[n] = f
  BY <1>1, ReplaceTop
<1>4. \A i \in 1 .. n - 1 : /\ Fewer(frames[current][i].slot)
                            /\ Stage(pcb, family, foreground, frames[current][i],
                                     Above(frames[current], i))
                            /\ frames[current][i].kill =>
                                  frames[current][i].todo = "children"
  BY <1>1 DEF StackDone
<1>5. \A i \in 1 .. n - 1 : Above(frames[current], i)
         = IF frames[current][i].kill THEN frames[current][i + 1].slot ELSE None
  BY <1>1 DEF Above
<1>6. Stage(pcb', family', foreground', f, None)
  OBVIOUS
<1>. HIDE DEF s, n
<1>7. \A i \in 1 .. n - 1 : s[i + 1].slot = frames[current][i + 1].slot
  BY <1>1, <1>3
<1>8. ASSUME NEW i \in 1 .. n - 1
      PROVE  /\ Stage(pcb', family', foreground', s[i], Above(s, i))
             /\ s[i].kill => s[i].todo = "children"
  <2>1. Above(s, i) = Above(frames[current], i)
    BY <1>1, <1>3, <1>5, <1>7 DEF Above
  <2>2. s[i] = frames[current][i]
    BY <1>3
  <2>. QED
    BY <1>4, <2>1, <2>2, StageKept
<1>9. Above(s, n) = None
  BY <1>1, <1>3 DEF Above
<1>10. \A i \in 1 .. n : i \in 1 .. n - 1 \/ i = n
  BY <1>1
<1>11. StackDone(pcb', family', foreground', s)
  BY <1>1, <1>3, <1>6, <1>8, <1>9, <1>10 DEF StackDone
<1>. QED
  BY <1>2, <1>11

(* With no activation in sight, nothing is half done. *)
LEMMA IdleStacks ==
    ASSUME ProcInv, Alone, ~ Terminating, frames' = frames, current' \in Proc
    PROVE  Alone' /\ StackDone(pcb', family', foreground', frames'[current'])
<1>1. \A p \in Proc : frames'[p] = <<>>
  BY DEF Alone, Terminating
<1>2. 1 .. Len(<<>>) = {}
  BY EmptySeq
<1>. QED
  BY <1>1, <1>2 DEF Alone, StackDone

(* Only the stack in use is written.                                       *)
LEMMA StackInUse ==
    ASSUME ProcInv, Alone, current' = current, NEW s,
           frames' = [frames EXCEPT ![current] = s]
    PROVE  Alone'
  BY DEF Alone, ProcInv, FramesInv
-----------------------------------------------------------------------------
(* The stack, step by step *)

StackOrderly == Alone /\ StackDone(pcb, family, foreground, frames[current])

StackOrderlyNext ==
    Alone' /\ StackDone(pcb', family', foreground', frames'[current'])

(* A new activation has done nothing yet, and need not have.               *)
LEMMA TerminateDone ==
    ASSUME ProcInv, StackOrderly, NEW S \in SUBSET Proc,
           NEW kill \in BOOLEAN, NEW masked \in BOOLEAN,
           Terminate(S, kill, masked), Enabled
    PROVE  StackOrderlyNext
<1>1. PICK p \in S :
         frames' = [frames EXCEPT ![current] = Append(@, Activation(p, kill, masked))]
  BY DEF Terminate
<1>2. current' = current /\ pcb' = pcb /\ family' = family /\ foreground' = foreground
  BY DEF Terminate, schedVars
<1> DEFINE f == Activation(p, kill, masked)
           s == Append(frames[current], f)
           n == Len(frames[current])
<1>3. /\ f \in Frame /\ f.todo = "waiters" /\ f.next = 0
  BY SchedulerAssumption DEF Activation, Frame
<1>4. frames'[current'] = s /\ frames' = [frames EXCEPT ![current] = s]
  BY <1>1, <1>2, CurrentRuns DEF ProcInv, FramesInv
<1>. HIDE DEF f
<1>5. /\ frames[current] \in Seq(Frame) /\ n \in Nat /\ DOMAIN frames[current] = 1 .. n
  BY CurrentRuns, LenProperties DEF ProcInv, FramesInv
<1>6. /\ Len(s) = n + 1
      /\ \A i \in 1 .. n : s[i] = frames[current][i]
      /\ s[n + 1] = f
  BY <1>3, <1>5, AppendProperties
<1>. HIDE DEF s, n
<1>7. \A i \in 1 .. n : ~ frames[current][i].kill
  BY <1>5, EnabledStack
<1>8. ASSUME NEW i \in 1 .. n
      PROVE  /\ Stage(pcb, family, foreground, s[i], Above(s, i))
             /\ ~ s[i].kill
  <2>1. Above(s, i) = None /\ Above(frames[current], i) = None
    BY <1>6, <1>7 DEF Above
  <2>2. n = Len(frames[current])
    BY DEF n
  <2>. QED
    BY <1>6, <1>7, <2>1, <2>2 DEF StackOrderly, StackDone
<1>9. Stage(pcb, family, foreground, f, Above(s, n + 1))
  <2>1. \A w \in Proc : w >= 0
    BY SchedulerAssumption DEF Proc
  <2>. QED
    BY <1>3, <2>1 DEF Stage, LiveWaiters
<1>10. \A i \in 1 .. n + 1 : i \in 1 .. n \/ i = n + 1
  BY <1>5
<1>11. StackDone(pcb, family, foreground, s)
  BY <1>5, <1>6, <1>8, <1>9, <1>10 DEF StackDone
<1>12. Alone'
  BY <1>2, <1>4, StackInUse DEF StackOrderly
<1>. QED
  BY <1>2, <1>4, <1>11, <1>12 DEF StackOrderlyNext

(* The activation on top, of the four parts of terminate_process. *)
LEMMA TopStage ==
    ASSUME ProcInv, StackOrderly, Terminating
    PROVE  /\ Stage(pcb, family, foreground, Top, None)
           /\ \A i \in 1 .. Len(frames[current]) - 1 :
                 frames[current][i].slot \in Proc
                 /\ pcb[frames[current][i].slot].state # "TERMINATED"
           /\ Top.slot \in Proc /\ pcb[Top.slot].state # "TERMINATED"
           /\ Top \in Frame
           /\ LiveWaiters(pcb, family, Top.slot) = Waiters(Top.slot)
           /\ LiveChildren(pcb, family, Top.slot) = Children(Top.slot)
<1>1. Len(frames[current]) \in 1 .. Len(frames[current])
  BY StackSlots
<1>2. Above(frames[current], Len(frames[current])) = None
  BY StackSlots DEF Above
<1>3. Stage(pcb, family, foreground, Top, None)
  BY <1>1, <1>2, StackSlots DEF StackOrderly, StackDone
<1>4. \A i \in 1 .. Len(frames[current]) - 1 :
         frames[current][i].slot \in Proc
         /\ pcb[frames[current][i].slot].state # "TERMINATED"
  BY StackSlots
<1>5. /\ LiveWaiters(pcb, family, Top.slot) = Waiters(Top.slot)
      /\ LiveChildren(pcb, family, Top.slot) = Children(Top.slot)
  BY DEF LiveWaiters, LiveChildren, Waiters, Children, Alive
<1>. QED
  BY <1>1, <1>3, <1>4, <1>5, StackSlots

(* A waiter is passed when it waits no longer. *)
LEMMA WakeWaiterDone ==
    ASSUME ProcInv, StackOrderly, WakeWaiter
    PROVE  StackOrderlyNext
<1> DEFINE w == Min(WaitersAhead)
           f == [Top EXCEPT !.next = w + 1]
<1>1. /\ w \in WaitersAhead /\ w \in Proc
      /\ \A o \in WaitersAhead : w <= o
      /\ Effect(pcb, [family EXCEPT ![w].waiting_pid = None])
  BY WakeWaiterEffect
<1>2. /\ Terminating /\ Top.todo = "waiters" /\ Continue(f)
      /\ current' = current /\ foreground' = foreground
  BY DEF WakeWaiter, Return
<1>. HIDE DEF w
<1>3. /\ f \in Frame /\ f.slot = Top.slot /\ f.kill = Top.kill
      /\ f.todo = "waiters" /\ f.next = w + 1
  <2>1. w + 1 \in 0 .. MAX_PROCESSES
    BY <1>1, SchedulerAssumption DEF Proc
  <2>. QED
    BY <1>2, <2>1, TopIsAlive DEF Frame
<1>. HIDE DEF f
<1>4. \A o \in LiveWaiters(pcb, family, Top.slot) : o \in WaitersAhead
  BY <1>2, TopStage DEF Stage, WaitersAhead
<1>5. Fewer(Top.slot) /\ w \notin LiveWaiters(pcb', family', Top.slot)
  BY <1>1, <1>2, TopStage, WaitingFewer DEF LiveWaiters
<1>6. \A o \in LiveWaiters(pcb', family', Top.slot) : o >= w + 1
  <2>1. ASSUME NEW o \in LiveWaiters(pcb', family', Top.slot)
        PROVE  o >= w + 1
    <3>1. o \in WaitersAhead /\ o # w /\ w <= o
      BY <1>1, <1>4, <1>5 DEF Fewer
    <3>2. o \in Nat /\ w \in Nat
      BY <1>1, SchedulerAssumption DEF LiveWaiters, Proc
    <3>. QED
      BY <3>1, <3>2
  <2>. QED
    BY <2>1
<1>7. Stage(pcb', family', foreground', f, None)
  BY <1>3, <1>6 DEF Stage
<1>8. \A i \in 1 .. Len(frames[current]) - 1 : Fewer(frames[current][i].slot)
  BY <1>1, <1>2, TopStage, WaitingFewer
<1>9. StackDone(pcb', family', foreground', frames'[current'])
  BY <1>2, <1>3, <1>7, <1>8, ContinueDone DEF StackOrderly
<1>10. Alone'
  BY <1>2, StackInUse DEF Continue, StackOrderly
<1>. QED
  BY <1>9, <1>10 DEF StackOrderlyNext

(* When nobody waits any more the waiters are done.                        *)
LEMMA WaitersWokenDone ==
    ASSUME ProcInv, StackOrderly, WaitersWoken
    PROVE  StackOrderlyNext
<1> DEFINE a == [Top EXCEPT !.todo = "children"]
           f == [Top EXCEPT !.todo = "children", !.next = 0]
<1>1. /\ Terminating /\ Top.todo = "waiters" /\ WaitersAhead = {} /\ Continue(f)
      /\ current' = current /\ foreground' = foreground
  BY DEF WaitersWoken, schedVars
<1>2. Effect(pcb, [family EXCEPT ![Top.slot].waiting_pid = None])
  BY WaitersWokenEffect
<1>3. /\ f \in Frame /\ f.slot = Top.slot /\ f.kill = Top.kill
      /\ f.todo = "children" /\ f.next = 0
  <2>1. Top \in Frame /\ 0 \in 0 .. MAX_PROCESSES
    BY <1>1, TopIsAlive, SchedulerAssumption
  <2>2. a \in Frame /\ a.slot = Top.slot /\ a.kill = Top.kill /\ a.todo = "children"
    BY <2>1 DEF Frame
  <2>3. f = [a EXCEPT !.next = 0]
    OBVIOUS
  <2>. HIDE DEF a, f
  <2>. QED
    BY <2>1, <2>2, <2>3 DEF Frame
<1>. HIDE DEF a, f
<1>4. LiveWaiters(pcb, family, Top.slot) = {}
  BY <1>1, TopStage DEF Stage, WaitersAhead
<1>5. Fewer(Top.slot)
  BY <1>1, <1>2, TopStage, WaitingFewer
<1>6. Stage(pcb', family', foreground', f, None)
  <2>1. \A c \in Proc : c >= 0
    BY SchedulerAssumption DEF Proc
  <2>. QED
    BY <1>3, <1>4, <1>5, <2>1 DEF Stage, Fewer, LiveChildren
<1>7. \A i \in 1 .. Len(frames[current]) - 1 : Fewer(frames[current][i].slot)
  BY <1>1, <1>2, TopStage, WaitingFewer
<1>8. StackDone(pcb', family', foreground', frames'[current'])
  BY <1>1, <1>3, <1>6, <1>7, ContinueDone DEF StackOrderly
<1>9. Alone'
  BY <1>1, StackInUse DEF Continue, StackOrderly
<1>. QED
  BY <1>8, <1>9 DEF StackOrderlyNext

(* When no child is left the children are done.                            *)
LEMMA ChildrenGoneDone ==
    ASSUME ProcInv, StackOrderly, ChildrenGone
    PROVE  StackOrderlyNext
<1> DEFINE f == [Top EXCEPT !.todo = "die"]
<1>1. /\ Terminating /\ Top.todo = "children" /\ ChildrenAhead = {} /\ Continue(f)
      /\ current' = current
      /\ foreground' = IF foreground = family[Top.slot].pid THEN None ELSE foreground
  BY DEF ChildrenGone, Return
<1>2. Effect(pcb, family)
  BY PlainEffect DEF PlainStep
<1>3. f \in Frame /\ f.slot = Top.slot /\ f.kill = Top.kill /\ f.todo = "die"
  BY <1>1, TopIsAlive DEF Frame
<1>. HIDE DEF f
<1>4. /\ LiveWaiters(pcb, family, Top.slot) = {}
      /\ LiveChildren(pcb, family, Top.slot) = {}
  <2>1. \A c \in LiveChildren(pcb, family, Top.slot) : c >= Top.next
    BY <1>1, TopStage, ReleasedType DEF Stage, LiveChildren
  <2>. QED
    BY <1>1, <2>1, TopStage DEF Stage, ChildrenAhead
<1>5. Fewer(Top.slot)
  BY <1>1, <1>2, TopStage, QuietFewer
<1>6. Stage(pcb', family', foreground', f, None)
  BY <1>1, <1>3, <1>4, <1>5 DEF Stage, Fewer
<1>7. \A i \in 1 .. Len(frames[current]) - 1 : Fewer(frames[current][i].slot)
  BY <1>1, <1>2, TopStage, QuietFewer
<1>8. StackDone(pcb', family', foreground', frames'[current'])
  BY <1>1, <1>3, <1>6, <1>7, ContinueDone DEF StackOrderly
<1>9. Alone'
  BY <1>1, StackInUse DEF Continue, StackOrderly
<1>. QED
  BY <1>8, <1>9 DEF StackOrderlyNext
(* A kill takes the next child first: its activation goes on top. *)
LEMMA KillChildDone ==
    ASSUME ProcInv, StackOrderly, NextChild, Top.kill
    PROVE  StackOrderlyNext
<1> DEFINE c == Min(ChildrenAhead)
           up == [Top EXCEPT !.next = c + 1]
           g == Activation(c, TRUE, TRUE)
           z == frames[current]
           e == <<up, g>>
           s == Front(z) \o e
           n == Len(z)
<1>1. /\ c \in Proc /\ c \in ChildrenAhead
      /\ \A o \in ChildrenAhead : c <= o
  BY NextChildEffect
<1>2. /\ Terminating /\ Top.todo = "children"
      /\ pcb' = pcb /\ family' = family /\ foreground' = foreground
      /\ current' = current
      /\ frames' = [frames EXCEPT ![current] = s]
  BY DEF NextChild, schedVars
<1>. HIDE DEF c
<1>3. /\ up \in Frame /\ up.slot = Top.slot /\ up.kill = Top.kill
      /\ up.todo = "children" /\ up.next = c + 1
  <2>1. c + 1 \in 0 .. MAX_PROCESSES
    BY <1>1, SchedulerAssumption DEF Proc
  <2>. QED
    BY <1>2, <2>1, TopIsAlive DEF Frame
<1>4. g \in Frame /\ g.slot = c /\ g.todo = "waiters" /\ g.next = 0
  BY <1>1, SchedulerAssumption DEF Activation, Frame
<1>. HIDE DEF up, g
<1>5. up \in Frame /\ g \in Frame
  BY <1>3, <1>4
<1>6. e \in Seq(Frame) /\ Len(e) = 2 /\ e[1] = up /\ e[2] = g
  BY <1>5
<1>7. z \in Seq(Frame) /\ z # <<>> /\ n \in Nat \ {0} /\ Top = z[n]
  BY <1>2, TopIsAlive
<1>8. frames'[current'] = s
  BY <1>2, CurrentRuns DEF ProcInv, FramesInv
<1>9. \A i \in 1 .. n : /\ Stage(pcb, family, foreground, z[i], Above(z, i))
                        /\ i < n /\ z[i].kill => z[i].todo = "children"
  BY DEF StackOrderly, StackDone
<1>. HIDE DEF e, z
<1>10. /\ Len(s) = n + 1
       /\ \A i \in 1 .. n - 1 : s[i] = z[i]
       /\ s[n] = up /\ s[n + 1] = g
  <2>1. z \in Seq(Frame) /\ z # <<>>
    BY <1>7
  <2>2. /\ Len(Front(z) \o e) = Len(z) + 1
        /\ \A i \in 1 .. Len(z) - 1 : (Front(z) \o e)[i] = z[i]
        /\ (Front(z) \o e)[Len(z)] = up
        /\ (Front(z) \o e)[Len(z) + 1] = g
    BY <1>5, <1>6, <2>1, PushTop
  <2>. QED
    BY <2>2 DEF s, n
<1>. HIDE DEF s, n
<1>11. ASSUME NEW i \in 1 .. n - 1
       PROVE  /\ Stage(pcb, family, foreground, s[i], Above(s, i))
              /\ s[i].kill => s[i].todo = "children"
  <2>1. s[i + 1].slot = z[i + 1].slot
    BY <1>3, <1>7, <1>10
  <2>2. Above(s, i) = Above(z, i)
    BY <1>7, <1>10, <2>1 DEF Above, n
  <2>3. i \in 1 .. n /\ i < n /\ s[i] = z[i]
    BY <1>7, <1>10
  <2>. QED
    BY <1>9, <2>2, <2>3
<1>12. /\ LiveWaiters(pcb, family, Top.slot) = {}
       /\ \A o \in LiveChildren(pcb, family, Top.slot) : o >= c + 1 \/ o = c
  <2>1. \A o \in LiveChildren(pcb, family, Top.slot) : o >= Top.next /\ o \in Proc
    BY <1>2, TopStage, ReleasedType DEF Stage, LiveChildren
  <2>2. \A o \in LiveChildren(pcb, family, Top.slot) : o \in ChildrenAhead
    BY <1>2, <2>1, TopStage DEF ChildrenAhead
  <2>3. \A o \in Proc : o \in Nat
    BY SchedulerAssumption DEF Proc
  <2>. QED
    BY <1>1, <1>2, <2>1, <2>2, <2>3, TopStage DEF Stage
<1>13. Stage(pcb, family, foreground, s[n], Above(s, n))
  <2>1. Above(s, n) = c
    <3>1. n < Len(s) /\ s[n] = up /\ s[n + 1] = g
      BY <1>7, <1>10
    <3>2. up.kill = TRUE
      BY <1>3
    <3>3. g.slot = c
      BY <1>4
    <3>. QED
      BY <3>1, <3>2, <3>3, Zenon DEF Above
  <2>. QED
    BY <1>3, <1>10, <1>12, <2>1 DEF Stage
<1>14. Stage(pcb, family, foreground, s[n + 1], Above(s, n + 1))
  <2>1. \A w \in Proc : w >= 0
    BY SchedulerAssumption DEF Proc
  <2>. QED
    BY <1>4, <1>10, <2>1 DEF Stage, LiveWaiters
<1>15. \A i \in 1 .. n + 1 : i \in 1 .. n - 1 \/ i = n \/ i = n + 1
  BY <1>7
<1>16. StackDone(pcb, family, foreground, s)
  BY <1>3, <1>7, <1>10, <1>11, <1>13, <1>14, <1>15 DEF StackDone
<1>17. Alone'
  BY <1>2, StackInUse DEF StackOrderly
<1>. QED
  BY <1>2, <1>8, <1>16, <1>17 DEF StackOrderlyNext

(* An exit hands the next child over. *)
LEMMA AdoptChildDone ==
    ASSUME ProcInv, StackOrderly, NextChild, ~ Top.kill
    PROVE  StackOrderlyNext
<1> DEFINE c == Min(ChildrenAhead)
           up == [Top EXCEPT !.next = c + 1]
<1>1. /\ c \in Proc /\ c \in ChildrenAhead
      /\ \A o \in ChildrenAhead : c <= o
      /\ family' = Adopted(c)
      /\ \A o \in Proc :
            /\ Adopted(c)[o].pid = family[o].pid
            /\ Adopted(c)[o].waiting_pid = family[o].waiting_pid
            /\ Adopted(c)[o].parent_pid = IF o = c THEN family[Top.slot].parent_pid
                                          ELSE family[o].parent_pid
  BY NextChildEffect
<1>2. /\ Terminating /\ Top.todo = "children"
      /\ pcb' = pcb /\ foreground' = foreground /\ current' = current
      /\ Continue(up)
  BY DEF NextChild, schedVars
<1>. HIDE DEF c
<1>3. /\ up \in Frame /\ up.slot = Top.slot /\ up.kill = Top.kill
      /\ up.todo = "children" /\ up.next = c + 1
  <2>1. c + 1 \in 0 .. MAX_PROCESSES
    BY <1>1, SchedulerAssumption DEF Proc
  <2>. QED
    BY <1>2, <2>1, TopIsAlive DEF Frame
<1>. HIDE DEF up
<1>4. family[Top.slot].parent_pid # family[Top.slot].pid
  <2>1. /\ Top.slot \in Proc /\ Top.slot # Idle /\ Alive(Top.slot)
    BY <1>2, TopIsAlive
  <2>2. family[Top.slot].pid \in Int
    BY <2>1, ProcessAssumption DEF ProcInv, TableInv, Family, Pid, None
  <2>. QED
    BY <2>1, <2>2 DEF ProcInv, TableInv
<1>5. LiveWaiters(pcb', family', Top.slot) = {}
  <2>1. LiveWaiters(pcb, family, Top.slot) = {} /\ Top.slot \in Proc
    BY <1>2, TopStage DEF Stage
  <2>. QED
    BY <1>1, <1>2, <2>1 DEF LiveWaiters
<1>6. \A o \in LiveChildren(pcb', family', Top.slot) : o >= c + 1
  <2>1. ASSUME NEW o \in LiveChildren(pcb', family', Top.slot)
        PROVE  o >= c + 1
    <3>1. Top.slot \in Proc /\ o \in Proc
      BY <1>2, TopStage DEF LiveChildren
    <3>2. o # c /\ o \in LiveChildren(pcb, family, Top.slot)
      BY <1>1, <1>2, <1>4, <2>1, <3>1 DEF LiveChildren
    <3>3. o >= Top.next /\ o \in Children(Top.slot)
      BY <1>2, <3>1, <3>2, TopStage, ReleasedType DEF Stage
    <3>4. c <= o
      BY <1>1, <3>3 DEF ChildrenAhead
    <3>5. o \in Nat /\ c \in Nat
      BY <1>1, <3>1, SchedulerAssumption DEF Proc
    <3>. QED
      BY <3>2, <3>4, <3>5
  <2>. QED
    BY <2>1
<1>7. Stage(pcb', family', foreground', up, None)
  BY <1>3, <1>5, <1>6 DEF Stage
<1>8. \A i \in 1 .. Len(frames[current]) - 1 : Fewer(frames[current][i].slot)
  BY <1>2, StackSlots
<1>9. StackDone(pcb', family', foreground', frames'[current'])
  BY <1>2, <1>3, <1>7, <1>8, ContinueDone DEF StackOrderly
<1>10. Alone'
  BY <1>2, StackInUse DEF Continue, StackOrderly
<1>. QED
  BY <1>9, <1>10 DEF StackOrderlyNext

(* The process is dead: the activation below goes on without the child, or  *)
(* the whole stack is gone.                                                 *)
LEMMA FinishDone ==
    ASSUME ProcInv, StackOrderly, FinishTermination, current' \in Proc
    PROVE  StackOrderlyNext
<1> DEFINE p == Top.slot
           z == frames[current]
           n == Len(z)
           t == [pcb EXCEPT ![p] = FreeSlot]
<1>1. /\ Terminating /\ foreground' = foreground
      /\ frames' = IF p = current THEN [frames EXCEPT ![p] = <<>>]
                   ELSE [frames EXCEPT ![current] = Front(@), ![p] = <<>>]
      /\ p # current => current' = current
  BY DEF FinishTermination, Return
<1>2. /\ p \in Proc /\ z \in Seq(Frame) /\ z # <<>> /\ n \in Nat \ {0}
      /\ z[n].slot = p
      /\ \A i \in 1 .. n : z[i].slot \in Proc /\ pcb[z[i].slot].state # "TERMINATED"
      /\ \A i \in 1 .. n - 1 : p # current => z[i].slot # p
  BY <1>1, StackSlots, TopIsAlive
<1>3. Effect(t, family)
  BY FinishEffect
<1>4. t[p].state = "TERMINATED" /\ \A o \in Proc \ {p} : t[o] = pcb[o]
  BY <1>2, CurrentRuns, FreeSlotType
<1>5. /\ Len(Front(z)) = n - 1
      /\ \A i \in 1 .. n - 1 : Front(z)[i] = z[i]
  BY <1>2, TopProperties
<1>6. \A i \in 1 .. n : /\ Stage(pcb, family, foreground, z[i], Above(z, i))
                        /\ i < n /\ z[i].kill => z[i].todo = "children"
  BY DEF StackOrderly, StackDone
<1>7. \A o \in Proc \ {current} : frames[o] = <<>>
  BY DEF StackOrderly, Alone
<1>8. frames \in [Proc -> Seq(Frame)] /\ current \in Proc
  BY CurrentRuns DEF ProcInv, FramesInv
<1>. HIDE DEF p, z, n, t
<1>9. CASE p = current
  <2>1. \A o \in Proc : frames'[o] = <<>>
    BY <1>1, <1>7, <1>8, <1>9
  <2>2. 1 .. Len(<<>>) = {}
    BY EmptySeq
  <2>. QED
    BY <2>1, <2>2 DEF StackOrderlyNext, Alone, StackDone
<1>10. CASE p # current
  <2> DEFINE s == Front(z)
  <2>1. current' = current /\ frames'[current] = s
        /\ \A o \in Proc \ {current} : frames'[o] = <<>>
    BY <1>1, <1>2, <1>7, <1>8, <1>10 DEF z
  <2>2. \A i \in 1 .. n - 1 : Fewer(z[i].slot)
    <3>1. \A i \in 1 .. n - 1 : i \in 1 .. n
      BY <1>2
    <3>2. \A i \in 1 .. n - 1 : z[i].slot \in Proc /\ t[z[i].slot].state # "TERMINATED"
      BY <1>2, <1>4, <1>10, <3>1
    <3>. QED
      BY <1>3, <3>2, EffectFewer
  <2>3. \A o : p \notin LiveChildren(pcb', family', o)
    <3>1. pcb'[p].state = "TERMINATED"
      BY <1>2, <1>3, <1>4 DEF Effect
    <3>. QED
      BY <3>1 DEF LiveChildren
  <2>. HIDE DEF s
  <2>4. ASSUME NEW i \in 1 .. n - 1
        PROVE  /\ Stage(pcb', family', foreground', s[i], Above(s, i))
               /\ s[i].kill => s[i].todo = "children"
    <3>1. i \in 1 .. n /\ i < n /\ s[i] = z[i]
      BY <1>2, <1>5 DEF s
    <3>2. Stage(pcb', family', foreground', z[i], Above(z, i))
      BY <1>1, <1>6, <2>2, <3>1, StageKept
    <3>3. Above(z, i) = p \/ Above(z, i) = Above(s, i)
      <4>1. CASE i = n - 1
        <5>1. Above(s, i) = None
          BY <1>5, <4>1 DEF Above, s
        <5>2. Above(z, i) \in {p, None}
          <6>1. i + 1 = n
            BY <1>2, <4>1
          <6>. QED
            BY <1>2, <6>1 DEF Above
        <5>. QED
          BY <5>1, <5>2
      <4>2. CASE i # n - 1
        <5>1. i < n - 1 /\ i + 1 \in 1 .. n - 1 /\ i < n /\ i \in 1 .. n - 1
          BY <1>2, <4>2
        <5>2. s[i + 1] = z[i + 1] /\ s[i] = z[i] /\ Len(s) = n - 1
          BY <1>5, <5>1 DEF s
        <5>. QED
          BY <1>2, <5>1, <5>2 DEF Above, n
      <4>. QED
        BY <4>1, <4>2
    <3>4. Stage(pcb', family', foreground', z[i], Above(s, i))
      BY <2>3, <3>2, <3>3 DEF Stage
    <3>. QED
      BY <1>6, <3>1, <3>4
  <2>5. StackDone(pcb', family', foreground', s)
    BY <1>2, <1>5, <2>4 DEF StackDone, s
  <2>. QED
    BY <2>1, <2>5 DEF StackOrderlyNext, Alone
<1>. QED
  BY <1>9, <1>10
-----------------------------------------------------------------------------
(* The owner of the foreground *)

LEMMA OwnerKept ==
    ASSUME OwnerBoosted, foreground' = foreground,
           \A p \in Proc : pcb[p].boost => pcb'[p].boost
    PROVE  OwnerBoosted'
  BY DEF OwnerBoosted

(* Whoever gets the foreground gets the boost, and whoever loses the boost  *)
(* has given up the foreground.                                             *)
LEMMA OwnerNext ==
    ASSUME ProcInv, OwnerBoosted, [ProcessNext]_processVars,
           FinishTermination => family[Top.slot].pid # foreground
    PROVE  OwnerBoosted'
<1>1. ASSUME foreground' = None PROVE OwnerBoosted'
  BY <1>1 DEF OwnerBoosted
<1>2. ASSUME SameLife(pcb, pcb') \/ SameBoosts, foreground' = foreground
      PROVE  OwnerBoosted'
  BY <1>2, OwnerKept DEF SameLife, SameBoosts
<1>3. CASE timer_handler
  BY <1>2, <1>3, TimerStep DEF timer_handler
<1>4. CASE \/ handle_ctrl_c \/ exit_current_process
           \/ \E x \in 1 .. next_pid - 1 : kill_process(x)
  <2>1. UNCHANGED <<schedVars, foreground>>
    BY <1>4 DEF handle_ctrl_c, exit_current_process, kill_process, Terminate
  <2>. QED
    BY <1>2, <2>1, ReturnKeepsBoosts
<1>5. CASE release_foreground
  BY <1>1, <1>5 DEF release_foreground
<1>6. ASSUME NEW prio \in Priorities, NEW fg \in BOOLEAN, NEW ok \in BOOLEAN,
             create_process(prio, fg, ok)
      PROVE  OwnerBoosted'
  <2>1. PICK fam \in [Proc -> Family] :
           \/ UNCHANGED <<schedVars, next_pid, foreground>>
           \/ \E p \in Proc :
                 /\ Birth(fam, p, fg, ok)
                 /\ IF ok THEN Admit(p, prio, fg) ELSE UNCHANGED schedVars
    BY <1>6, CreateStep
  <2>2. CASE UNCHANGED <<schedVars, next_pid, foreground>>
    BY <1>2, <2>2, ReturnKeepsBoosts
  <2>3. ASSUME NEW p \in Proc, Birth(fam, p, fg, ok), ok, Admit(p, prio, fg)
        PROVE  OwnerBoosted'
    <3>1. \A o \in Proc : pcb'[o].boost <=> IF o = p THEN fg ELSE ~ fg /\ pcb[o].boost
      BY <2>3, AdmitKeeps
    <3>2. ~ pcb[p].boost
      BY <2>3 DEF Birth, ProcInv, BoostInv, Alive
    <3>3. ~ fg => foreground' = foreground
      BY <2>3 DEF Birth
    <3>. QED
      BY <3>1, <3>2, <3>3, OwnerKept DEF OwnerBoosted
  <2>4. ASSUME NEW p \in Proc, Birth(fam, p, fg, ok), ~ ok, UNCHANGED schedVars
        PROVE  OwnerBoosted'
    BY <1>2, <2>4, ReturnKeepsBoosts DEF Birth
  <2>. QED
    BY <2>1, <2>2, <2>3, <2>4
<1>7. ASSUME NEW x \in 1 .. next_pid - 1, set_foreground_process_of(x)
      PROVE  OwnerBoosted'
  <2>1. ASSUME NEW p \in Proc, set_foreground_process(p)
        PROVE  OwnerBoosted'
    BY <2>1, ForegroundBoosts DEF OwnerBoosted
  <2>. QED
    BY <1>1, <1>7, <2>1, KnownPids, ForegroundStep
<1>8. ASSUME NEW x \in Pid, WaitFor(x), foreground' = foreground
      PROVE  OwnerBoosted'
  BY <1>2, <1>8, WaitStep
<1>9. ASSUME NEW x \in 1 .. next_pid - 1, waitpid(x)
      PROVE  OwnerBoosted'
  BY <1>8, <1>9, KnownPids DEF waitpid
<1>10. ASSUME NEW x \in 1 .. next_pid - 1, block_process(x)
       PROVE  OwnerBoosted'
  BY <1>2, <1>10, KnownPids, BlockStep DEF block_process
<1>11. ASSUME NEW x \in 1 .. next_pid - 1, unblock_process_of(x)
       PROVE  OwnerBoosted'
  <2>1. \E p \in Proc : unblock_process(p)
    BY <1>11, KnownPids, FoundProcess DEF unblock_process_of, unblock_process, ProcInv
  <2>2. foreground' = foreground
    BY <1>11 DEF unblock_process_of
  <2>. QED
    BY <1>2, <2>1, <2>2, ReturnKeepsBoosts
<1>12. ASSUME NEW x \in 1 .. next_pid - 1, NEW prio \in NiceValues, nice(x, prio)
       PROVE  OwnerBoosted'
  <2>1. \E p \in Proc : change_priority(p, prio)
    BY <1>12, KnownPids, FoundProcess DEF nice, ProcInv
  <2>2. foreground' = foreground
    BY <1>12 DEF nice
  <2>. QED
    BY <1>2, <2>1, <2>2, ReturnKeepsBoosts
<1>13. CASE WakeWaiter
  <2>1. foreground' = foreground
    BY <1>13 DEF WakeWaiter
  <2>. QED
    BY <1>2, <1>13, <2>1, WakeWaiterStep, ReturnKeepsBoosts
<1>14. CASE WaitersWoken \/ NextChild
  <2>1. UNCHANGED <<schedVars, foreground>>
    BY <1>14 DEF WaitersWoken, NextChild
  <2>. QED
    BY <1>2, <2>1, ReturnKeepsBoosts
<1>15. CASE ChildrenGone
  <2>1. CASE foreground = family[Top.slot].pid
    BY <1>1, <1>15, <2>1 DEF ChildrenGone
  <2>2. CASE foreground # family[Top.slot].pid
    <3>1. pcb' = pcb /\ foreground' = foreground
      BY <1>15, <2>2 DEF ChildrenGone, Return
    <3>. QED
      BY <3>1, OwnerKept
  <2>. QED
    BY <2>1, <2>2
<1>16. CASE FinishTermination
  <2> DEFINE t == [pcb EXCEPT ![Top.slot] = FreeSlot]
  <2>1. SameLife(t, pcb') /\ foreground' = foreground
    BY <1>16, FinishStep DEF FinishTermination
  <2>2. ASSUME NEW o \in Proc, pcb[o].boost
        PROVE  t[o] = pcb[o]
    <3>1. o # Top.slot
      BY <1>16, <2>2 DEF ProcInv, BoostInv
    <3>. QED
      BY <3>1, CurrentRuns
  <2>. HIDE DEF t
  <2>. QED
    BY <2>1, <2>2, OwnerKept DEF SameLife
<1>17. CASE CreateShell
  BY <1>6, <1>17 DEF CreateShell
<1>18. CASE WaitForShell
  <2>1. CASE UNCHANGED <<schedVars, family, foreground, next_pid>>
    BY <1>2, <2>1, ReturnKeepsBoosts
  <2>2. CASE Shell \in Pid \ {0} /\ WaitFor(Shell) /\ UNCHANGED <<foreground, next_pid>>
    BY <1>8, <2>2
  <2>. QED
    BY <1>18, <2>1, <2>2, WaitForShellStep
<1>19. CASE Halt \/ Halted \/ UNCHANGED processVars
  <2>1. UNCHANGED <<schedVars, foreground>>
    BY <1>19 DEF Halt, Halted, processVars, schedVars
  <2>. QED
    BY <1>2, <2>1, ReturnKeepsBoosts
<1>. QED
  BY <1>3, <1>4, <1>5, <1>6, <1>7, <1>9, <1>10, <1>11, <1>12, <1>13, <1>14, <1>15,
     <1>16, <1>17, <1>18, <1>19 DEF ProcessNext, SystemCall, terminate_process
-----------------------------------------------------------------------------
(* The invariant *)

LEMMA StaysPreempted ==
    ASSUME [ProcessNext]_processVars, preempted
    PROVE  preempted'
<1>1. timer_handler => preempted'
  BY DEF timer_handler
<1>2. handle_ctrl_c \/ exit_current_process
         \/ (\E x \in 1 .. next_pid - 1 : kill_process(x)) => preempted'
  BY DEF handle_ctrl_c, exit_current_process, kill_process, Terminate
<1>3. SystemCall => preempted'
  BY DEF SystemCall, release_foreground, create_process, set_foreground_process_of,
         waitpid, block_process, unblock_process_of, nice
<1>4. terminate_process => preempted'
  BY DEF terminate_process, WakeWaiter, WaitersWoken, NextChild, ChildrenGone,
         FinishTermination
<1>5. CreateShell \/ WaitForShell \/ Halt \/ Halted \/ UNCHANGED processVars
         => preempted'
  BY DEF CreateShell, create_process, WaitForShell, Halt, Halted, processVars
<1>. QED
  BY <1>1, <1>2, <1>3, <1>4, <1>5 DEF ProcessNext

(* Every step that preempts no exit keeps the family and the stages.       *)
LEMMA FamilyStep ==
    ASSUME ProcInv, current' \in Proc, StackOrderly, WaitersWait, ParentsLive,
           [ProcessNext]_processVars, ~ preempted'
    PROVE  StackOrderlyNext /\ WaitersWait' /\ ParentsLive'
<1> DEFINE Goal == StackOrderlyNext /\ WaitersWait' /\ ParentsLive'
<1>1. ASSUME ~ Terminating, frames' = frames
      PROVE  StackOrderlyNext
  BY <1>1, IdleStacks DEF StackOrderly, StackOrderlyNext
<1>2. ASSUME PlainStep, StackOrderlyNext
      PROVE  Goal
  BY <1>2, PlainEffect, QuietFamily
<1>3. CASE timer_handler
  <2>1. ~ Terminating /\ frames' = frames
    BY <1>3 DEF timer_handler
  <2>. QED
    BY <1>1, <1>2, <1>3, <2>1 DEF PlainStep
<1>4. ASSUME NEW S \in SUBSET Proc, NEW kill \in BOOLEAN, NEW masked \in BOOLEAN,
             Terminate(S, kill, masked), Enabled
      PROVE  StackOrderlyNext
  BY <1>4, TerminateDone
<1>5. CASE handle_ctrl_c
  <2>1. get_process_by_pid(family, foreground) \in SUBSET Proc
    BY DEF get_process_by_pid
  <2>. QED
    BY <1>2, <1>4, <1>5, <2>1 DEF handle_ctrl_c, PlainStep
<1>6. CASE exit_current_process
  <2>1. {current} \in SUBSET Proc /\ Enabled
    BY <1>6, CurrentRuns DEF exit_current_process, UserRuns, Enabled
  <2>. QED
    BY <1>2, <1>4, <1>6, <2>1 DEF exit_current_process, PlainStep
<1>7. ASSUME NEW x \in 1 .. next_pid - 1, kill_process(x)
       PROVE  Goal
  <2>1. get_process_by_pid(family, x) \in SUBSET Proc /\ Enabled
    BY <1>7 DEF kill_process, get_process_by_pid, UserRuns, Enabled
  <2>. QED
    BY <1>2, <1>4, <1>7, <2>1 DEF kill_process, PlainStep
<1>8. ASSUME NEW x \in Pid, WaitFor(x), next_pid' = next_pid
       PROVE  WaitersWait' /\ ParentsLive'
  BY <1>8, CurrentRuns, WaitStep, WaitEffect, WaitingFamily
<1>9. ASSUME NEW prio \in Priorities, NEW fg \in BOOLEAN, NEW ok \in BOOLEAN,
              create_process(prio, fg, ok), ~ Terminating
       PROVE  Goal
  <2>1. frames' = frames
    BY <1>9 DEF create_process
  <2>. QED
    BY <1>1, <1>9, <2>1, CreationFamily
<1>10. CASE UserRuns /\ SystemCall
  <2>1. ~ Terminating
    BY <1>10 DEF UserRuns
  <2>2. frames' = frames
    BY <1>10 DEF SystemCall, release_foreground, create_process,
       set_foreground_process_of, waitpid, block_process, unblock_process_of, nice
  <2>3. ASSUME NEW x \in 1 .. next_pid - 1, waitpid(x) PROVE Goal
    BY <1>1, <1>8, <2>1, <2>2, <2>3, KnownPids DEF waitpid
  <2>. QED
    BY <1>1, <1>2, <1>9, <1>10, <2>1, <2>2, <2>3 DEF SystemCall, PlainStep
<1>11. CASE WakeWaiter
  BY <1>11, WakeWaiterDone, WakeWaiterEffect, WaitingFamily
<1>12. CASE WaitersWoken
  <2>1. Top.slot \in Proc
    BY <1>12, TopIsAlive DEF WaitersWoken
  <2>. QED
    BY <1>12, <2>1, WaitersWokenDone, WaitersWokenEffect, WaitingFamily
<1>13. CASE NextChild
  BY <1>13, KillChildDone, AdoptChildDone, NextChildFamily
<1>14. CASE ChildrenGone
  BY <1>2, <1>14, ChildrenGoneDone DEF PlainStep
<1>15. FinishTermination =>
          /\ LiveWaiters(pcb, family, Top.slot) = {}
          /\ LiveChildren(pcb, family, Top.slot) = {}
  BY TopStage DEF FinishTermination, Stage
<1>16. CASE FinishTermination
  BY <1>15, <1>16, FinishDone, FinishFamily
<1>17. CASE CreateShell
  BY <1>9, <1>17 DEF CreateShell, BootRuns
<1>18. CASE WaitForShell
  <2>1. ~ Terminating /\ frames' = frames
    BY <1>18 DEF WaitForShell, BootRuns
  <2>2. CASE Shell \in Pid \ {0} /\ WaitFor(Shell) /\ UNCHANGED <<foreground, next_pid>>
    BY <1>1, <1>8, <2>1, <2>2
  <2>3. CASE UNCHANGED <<schedVars, family, foreground, next_pid>> /\ NoReaping
    BY <1>1, <2>1, <2>3 DEF WaitersWait, ParentsLive, Alive, schedVars
  <2>. QED
    BY <1>18, <2>2, <2>3, WaitForShellStep
<1>19. CASE Halt
  <2>1. ~ Terminating /\ frames' = frames
    BY <1>19 DEF Halt, BootRuns
  <2>. QED
    BY <1>1, <1>2, <1>19, <2>1 DEF PlainStep
<1>20. CASE Halted \/ UNCHANGED processVars
  <2>1. UNCHANGED processVars
    BY <1>20 DEF Halted
  <2>2. StackOrderlyNext
    BY <2>1 DEF processVars, StackOrderly, StackOrderlyNext, Alone, StackDone,
       Stage, Above, LiveWaiters, LiveChildren
  <2>. QED
    BY <1>2, <1>20, <2>2 DEF PlainStep
<1>. QED
  BY <1>3, <1>5, <1>6, <1>7, <1>10, <1>11, <1>12, <1>13, <1>14, <1>16, <1>17, <1>18,
     <1>19, <1>20 DEF ProcessNext, terminate_process

(* FamilyInv is inductive.                                                 *)
LEMMA FamilyNext ==
    ASSUME FamilyInv, [ProcessNext]_processVars
    PROVE  FamilyInv'
<1>1. ProcInv /\ ProcInv' /\ current' \in Proc
  BY ProcNext DEF FamilyInv, ProcInv, Inv, Consistent
<1>2. SUFFICES ASSUME ~ preempted'
               PROVE  Orderly'
  BY <1>1 DEF FamilyInv
<1>3. ~ preempted /\ StackOrderly /\ WaitersWait /\ ParentsLive /\ OwnerBoosted
  BY <1>2, StaysPreempted DEF FamilyInv, Orderly, StackOrderly
<1>4. StackOrderlyNext /\ WaitersWait' /\ ParentsLive'
  BY <1>1, <1>2, <1>3, FamilyStep
<1>5. FinishTermination => family[Top.slot].pid # foreground
  BY <1>1, <1>3, TopStage DEF FinishTermination, Stage
<1>6. OwnerBoosted'
  BY <1>1, <1>3, <1>5, OwnerNext
<1>. QED
  BY <1>4, <1>6 DEF Orderly, StackOrderlyNext

(* At boot there is no family to speak of.                                 *)
LEMMA FamilyBegins == ProcessInit => FamilyInv
<1> SUFFICES ASSUME ProcessInit PROVE FamilyInv
  OBVIOUS
<1>1. ProcInv
  BY ProcInit
<1>2. \A p \in Proc : frames[p] = <<>> /\ (p # Idle => ~ Alive(p))
  BY SchedulerAssumption
     DEF ProcessInit, SchedulerInit, FreeSlot, Idle, Proc, Alive
<1>3. family[Idle].waiting_pid = None /\ foreground = None
  <2>1. Idle \in Proc /\ Released.waiting_pid = None
    BY <1>1, CurrentRuns DEF Released
  <2>2. [Released EXCEPT !.pid = 0].waiting_pid = None
    BY DEF Released
  <2>3. family[Idle] = [Released EXCEPT !.pid = 0]
    BY <2>1 DEF ProcessInit
  <2>. QED
    BY <2>2, <2>3 DEF ProcessInit
<1>4. frames[current] = <<>> /\ 1 .. Len(<<>>) = {}
  BY <1>1, <1>2, CurrentRuns, EmptySeq
<1>. QED
  BY <1>1, <1>2, <1>3, <1>4 DEF FamilyInv, Orderly, Alone, StackDone, WaitersWait,
     ParentsLive, OwnerBoosted

(* As long as no exit has been preempted half way, the activations have    *)
(* done what their stages say: process.c keeps the family between the      *)
(* steps of an exit.                                                       *)
THEOREM FamilyInvHolds == ProcessSpec => []FamilyInv
<1>1. FamilyInv /\ [ProcessNext]_processVars => FamilyInv'
  BY FamilyNext
<1>. QED
  BY <1>1, FamilyBegins, PTL DEF ProcessSpec

(* Whoever is registered in waitpid waits for a process that lives, in      *)
(* whatever order child and parent came to exit and waitpid, and whoever    *)
(* was killed, adopted or reaped in between: its death will wake it.        *)
THEOREM NoWaiterLost == ProcessSpec => []NoLostWaiter
<1>1. FamilyInv => NoLostWaiter
  BY DEF FamilyInv, Orderly, WaitersWait, NoLostWaiter
<1>. QED
  BY <1>1, FamilyInvHolds, PTL

(* Exits hand their children over and kills take them first, one by one and *)
(* with other calls of terminate_process above and below on the stack: the  *)
(* parent of a live process always lives and is older.                      *)
THEOREM FamilyStaysATree == ProcessSpec => []FamilyIsATree
<1>1. FamilyInv => FamilyIsATree
  BY DEF FamilyInv, Orderly, ParentsLive, FamilyIsATree
<1>. QED
  BY <1>1, FamilyInvHolds, PTL

(* The process Ctrl+C would kill is the one with the boost, and it lives,   *)
(* whoever gave it the foreground or took it away.                          *)
THEOREM ForegroundHasBoost == ProcessSpec => []ForegroundIsBoosted
<1>1. ASSUME FamilyInv, ~ preempted
      PROVE  ForegroundIsBoosted
  <2>1. foreground # None => \E p \in Proc : pcb[p].boost
    BY <1>1 DEF FamilyInv, Orderly, OwnerBoosted
  <2>2. \A p \in Proc : pcb[p].boost => Alive(p) /\ family[p].pid = foreground
    BY <1>1 DEF FamilyInv, ProcInv, BoostInv
  <2>3. ASSUME NEW p \in Proc, Alive(p), family[p].pid = foreground
        PROVE  pcb[p].boost
    <3>1. family[p].pid # None
      BY <1>1, <2>3 DEF FamilyInv, ProcInv, TableInv
    <3>2. PICK o \in Proc : pcb[o].boost
      BY <2>1, <2>3, <3>1
    <3>3. family[o].pid = family[p].pid
      BY <2>2, <2>3, <3>2
    <3>4. o = p
      BY <1>1, <3>1, <3>3 DEF FamilyInv, ProcInv, TableInv
    <3>. QED
      BY <3>2, <3>4
  <2>4. \A p \in Proc : pcb[p].boost <=> Alive(p) /\ family[p].pid = foreground
    <3>1. \A p \in Proc : pcb[p].boost \in BOOLEAN
      BY <1>1, CurrentRuns DEF FamilyInv, PCB
    <3>. QED
      BY <2>2, <2>3, <3>1, Zenon
  <2>. QED
    BY <2>1, <2>4 DEF ForegroundIsBoosted
<1>2. FamilyInv => ForegroundIsBoosted
  BY <1>1 DEF ForegroundIsBoosted
<1>. QED
  BY <1>2, FamilyInvHolds, PTL

-----------------------------------------------------------------------------
(***************************************************************************)
(* test_process and the process table agree.                               *)
(*                                                                         *)
(* RecordIsTheTable is not inductive: between the call that kills a child  *)
(* and its death the record is ahead of the table.  A child the tester has *)
(* begun to kill is condemned, down as dead already; that it is the only   *)
(* thing to die is what OneStack and Kinship add: only the tester          *)
(* terminates anybody, one at a time, and its children have no children    *)
(* that a kill would take along and nobody to wait for that would wake     *)
(* them.                                                                   *)
(***************************************************************************)

(* Where the test is; a pid of its record is one it was given, once.       *)
RecordTypes ==
    /\ max_processes \in Index
    /\ rq \in Index
    /\ pids \in [Index -> Pid \union {None}]
    /\ records \in [Index -> {"KILLED", "RUNNING", "BLOCKED"}]
    /\ \A r \in Index : pids[r] # None => Tester < pids[r] /\ pids[r] < next_pid
    /\ \A r, s \in Index : pids[r] = pids[s] /\ pids[r] # None => r = s

(* The processes up to the tester are the only parents, and the only ones  *)
(* that anybody waits for; a child of the tester waits for nobody.          *)
Kin(f) ==
    /\ f.parent_pid <= Tester
    /\ f.waiting_pid <= Tester
    /\ f.pid > Tester => f.waiting_pid = None

Kinship == \A p \in Proc : Kin(family[p])

(* The kernel terminates something on behalf of the tester only: itself, or *)
(* a child that it already has down as dead.                                *)
OneStack ==
    \A q \in Proc : frames[q] # <<>> =>
       /\ family[q].pid = Tester
       /\ Len(frames[q]) = 1
       /\ frames[q][1].kill =>
             /\ family[frames[q][1].slot].pid > Tester
             /\ \A r \in Index : pids[r] = family[frames[q][1].slot].pid
                                   => records[r] = "KILLED"

Condemned(p) ==
    \E q \in Proc : frames[q] # <<>> /\ frames[q][1].kill /\ frames[q][1].slot = p

(* What the record of a child says of the slot with its pid. *)
Agree(r, p) ==
    /\ records[r] # "KILLED" => Alive(p)
    /\ records[r] = "KILLED" /\ ~ Condemned(p) => ~ Alive(p)
    /\ ~ Condemned(p) => (records[r] = "BLOCKED" <=> pcb[p].state = "BLOCKED")

Beliefs ==
    \A r \in Index :
       /\ \A p \in Proc : family[p].pid = pids[r] /\ pids[r] # None => Agree(r, p)
       /\ records[r] # "KILLED" => \E p \in Proc : family[p].pid = pids[r] /\ Alive(p)

RecordInv == ProcInv /\ RecordTypes /\ Kinship /\ OneStack /\ Beliefs

(* The pids of the first three processes, as integers.                     *)
LEMMA PidsAreInts ==
    ASSUME ProcInv
    PROVE  /\ Tester = 2 /\ None = -1 /\ Shell = 1 /\ MaxPid \in Nat
           /\ \A p \in Proc : /\ family[p].pid \in Int /\ family[p].pid < next_pid
                              /\ family[p].parent_pid \in Int
                              /\ family[p].waiting_pid \in Int
           /\ next_pid \in Int /\ next_pid <= MaxPid + 1 /\ family[Idle].pid = 0
  BY ProcessAssumption DEF ProcInv, TableInv, Family, Pid, None, Tester, Shell

(* A pid in use is found at its one slot.                                  *)
LEMMA FoundAt ==
    ASSUME ProcInv, NEW p \in Proc, family[p].pid # None
    PROVE  get_process_by_pid(family, family[p].pid) = {p}
<1>1. \A o \in Proc : family[o].pid = family[p].pid => o = p
  BY DEF ProcInv, TableInv
<1>2. p <= p
  BY SchedulerAssumption DEF Proc
<1>. QED
  BY <1>1, <1>2 DEF get_process_by_pid

(* The stack on which something is terminated is that of a live process,   *)
(* and what is killed runs with interrupts masked.                         *)
LEMMA StackOwner ==
    ASSUME ProcInv, OneStack, NEW q \in Proc, frames[q] # <<>>
    PROVE  /\ Alive(q) /\ frames[q][1] \in Frame /\ DOMAIN frames[q] = {1}
           /\ frames[q][1].kill => q = current /\ frames[q][1].masked
           /\ ~ frames[q][1].kill => frames[q][1].slot = q
           /\ frames[q][1].slot \in Proc /\ Alive(frames[q][1].slot)
<1>1. frames[q] \in Seq(Frame) /\ Len(frames[q]) = 1
  BY DEF ProcInv, FramesInv, OneStack
<1>2. DOMAIN frames[q] = {1} /\ frames[q][1] \in Frame
  BY <1>1, ElementOfSeq, LenProperties
<1>3. /\ Alive(frames[q][1].slot)
      /\ frames[q][1].kill => frames[q][1].masked
      /\ q # current => ~ frames[q][1].masked
      /\ ~ frames[q][1].kill => frames[q][1].slot = q
  BY <1>2 DEF ProcInv, FramesInv
<1>4. Alive(current)
  BY CurrentRuns DEF Alive
<1>. QED
  BY <1>2, <1>3, <1>4 DEF Frame

(* Whoever lives keeps its identity.                                       *)
LEMMA LivesKeepPids ==
    ASSUME NEW t, NEW fam, Effect(t, fam)
    PROVE  \A p \in Proc :
              /\ pcb'[p].state # "TERMINATED" =>
                   family'[p].pid = family[p].pid /\ pcb[p].state # "TERMINATED"
              /\ family'[p].pid # None => family'[p].pid = family[p].pid
  BY DEF Effect, Reaps, Released

(* Nobody else becomes a parent or is waited for.                          *)
LEMMA KinshipKept ==
    ASSUME NEW t, NEW fam, Effect(t, fam), \A p \in Proc : Kin(fam[p])
    PROVE  Kinship'
<1>1. Kin(Released)
  BY DEF Kin, Released, Tester, Shell, None
<1>2. \A p \in Proc : family'[p] = fam[p] \/ family'[p] = Released
  BY DEF Effect, Reaps
<1>. QED
  BY <1>1, <1>2 DEF Kinship

(* A step that begins no termination.                                      *)
LEMMA StackKept ==
    ASSUME ProcInv, ProcInv', OneStack, NEW t, NEW fam, Effect(t, fam),
           pids' = pids, \A r \in Index : records[r] = "KILLED" => records'[r] = "KILLED",
           \A q \in Proc : frames'[q] # <<>> =>
              /\ frames[q] # <<>> /\ Len(frames'[q]) = 1
              /\ frames'[q][1].slot = frames[q][1].slot
              /\ frames'[q][1].kill = frames[q][1].kill
    PROVE  OneStack'
<1>1. ASSUME NEW q \in Proc, frames'[q] # <<>>
      PROVE  /\ family'[q].pid = Tester /\ Len(frames'[q]) = 1
             /\ frames'[q][1].kill =>
                   /\ family'[frames'[q][1].slot].pid > Tester
                   /\ \A r \in Index : pids'[r] = family'[frames'[q][1].slot].pid
                                         => records'[r] = "KILLED"
  <2>1. /\ frames[q] # <<>> /\ Len(frames'[q]) = 1
        /\ frames'[q][1].slot = frames[q][1].slot
        /\ frames'[q][1].kill = frames[q][1].kill
    BY <1>1
  <2>2. frames[q][1].slot \in Proc /\ (~ frames[q][1].kill => frames[q][1].slot = q)
    BY <2>1, StackOwner
  <2>3. /\ pcb'[frames'[q][1].slot].state # "TERMINATED"
        /\ frames'[q][1].kill => q = current'
    <3>1. DOMAIN frames'[q] = {1}
      BY <1>1, <2>1, LenProperties DEF ProcInv, FramesInv
    <3>. QED
      BY <3>1 DEF ProcInv, FramesInv, Alive
  <2>4. pcb'[current'].state # "TERMINATED" /\ current' \in Proc
    BY DEF ProcInv, Inv, OnlyCurrentRuns
  <2>5. /\ family'[frames[q][1].slot].pid = family[frames[q][1].slot].pid
        /\ family'[q].pid = family[q].pid
    BY <2>1, <2>2, <2>3, <2>4, LivesKeepPids
  <2>. QED
    BY <2>1, <2>5 DEF OneStack
<1>. QED
  BY <1>1 DEF OneStack

(* The record and the table, child by child.                               *)
LEMMA BeliefsKept ==
    ASSUME ProcInv, RecordTypes, Beliefs, NEW t, NEW fam, Effect(t, fam), pids' = pids,
           \A r \in Index : records'[r] # "KILLED" => records[r] # "KILLED",
           \A r \in Index, p \in Proc :
              pids[r] # None /\ family[p].pid = pids[r] => Agree(r, p)'
    PROVE  Beliefs'
<1>1. ASSUME NEW r \in Index
      PROVE  /\ \A p \in Proc : family'[p].pid = pids'[r] /\ pids'[r] # None => Agree(r, p)'
             /\ records'[r] # "KILLED" => \E p \in Proc : family'[p].pid = pids'[r]
                                                           /\ pcb'[p].state # "TERMINATED"
  <2>1. ASSUME NEW p \in Proc, family'[p].pid = pids'[r], pids'[r] # None
        PROVE  Agree(r, p)'
    BY <2>1, LivesKeepPids
  <2>2. ASSUME records'[r] # "KILLED"
        PROVE  \E p \in Proc : family'[p].pid = pids'[r] /\ pcb'[p].state # "TERMINATED"
    <3>1. PICK p \in Proc : family[p].pid = pids[r] /\ Alive(p)
      BY <2>2 DEF Beliefs
    <3>2. pids[r] # None
      BY <3>1 DEF ProcInv, TableInv
    <3>3. pcb'[p].state # "TERMINATED"
      BY <2>2, <3>1, <3>2 DEF Agree, Alive
    <3>. QED
      BY <3>1, <3>3, LivesKeepPids
  <2>. QED
    BY <2>1, <2>2
<1>. QED
  BY <1>1 DEF Beliefs, Alive

(* A step of which the test knows nothing: a child at most dies, if it is  *)
(* condemned.                                                              *)
LEMMA QuietRecord ==
    ASSUME RecordInv, ProcInv', NEW t, NEW fam, Effect(t, fam), UNCHANGED testVars,
           \A p \in Proc : Kin(fam[p]),
           \A q \in Proc : frames'[q] # <<>> =>
              /\ frames[q] # <<>> /\ Len(frames'[q]) = 1
              /\ frames'[q][1].slot = frames[q][1].slot
              /\ frames'[q][1].kill = frames[q][1].kill,
           \A p \in Proc : family[p].pid > Tester =>
              \/ Condemned(p) /\ t[p].state = "TERMINATED"
              \/ /\ t[p].state = "TERMINATED" => pcb[p].state = "TERMINATED"
                 /\ pcb'[p].state = "BLOCKED" <=> pcb[p].state = "BLOCKED"
                 /\ Condemned(p) => Condemned(p)'
    PROVE  RecordInv'
<1>1. UNCHANGED <<pids, records, max_processes, rq>> /\ next_pid' = next_pid
  BY DEF testVars, Effect
<1>2. Kinship' /\ OneStack'
  BY <1>1, KinshipKept, StackKept DEF RecordInv
<1>3. RecordTypes'
  BY <1>1 DEF RecordInv, RecordTypes
<1>4. ASSUME NEW r \in Index, NEW p \in Proc, pids[r] # None, family[p].pid = pids[r]
      PROVE  Agree(r, p)'
  <2>1. Agree(r, p) /\ family[p].pid > Tester
    BY <1>4, PidsAreInts DEF RecordInv, Beliefs, RecordTypes
  <2>2. pcb'[p].state = "TERMINATED" <=> t[p].state = "TERMINATED"
    BY DEF Effect
  <2>3. CASE Condemned(p) /\ t[p].state = "TERMINATED"
    <3>1. records[r] = "KILLED"
      BY <1>4, <2>3 DEF Condemned, RecordInv, OneStack
    <3>. QED
      BY <1>1, <2>2, <2>3, <3>1 DEF Agree, Alive
  <2>4. CASE /\ t[p].state = "TERMINATED" => pcb[p].state = "TERMINATED"
             /\ pcb'[p].state = "BLOCKED" <=> pcb[p].state = "BLOCKED"
             /\ Condemned(p) => Condemned(p)'
    <3>1. pcb[p].state = "TERMINATED" => t[p].state = "TERMINATED"
      BY DEF Effect
    <3>. QED
      BY <1>1, <2>1, <2>2, <2>4, <3>1 DEF Agree, Alive
  <2>. QED
    BY <2>1, <2>3, <2>4
<1>5. Beliefs'
  BY <1>1, <1>4, BeliefsKept DEF RecordInv
<1>. QED
  BY <1>2, <1>3, <1>5 DEF RecordInv

(* The one activation of a stack goes on.                                  *)
LEMMA OneActivation ==
    ASSUME RecordInv, Terminating
    PROVE  /\ Top = frames[current][1] /\ Top \in Frame /\ Top.slot \in Proc
           /\ frames[current] \in Seq(Frame) /\ Len(frames[current]) = 1
           /\ frames \in [Proc -> Seq(Frame)] /\ current \in Proc
           /\ family[current].pid = Tester
           /\ Top.kill => Condemned(Top.slot) /\ family[Top.slot].pid > Tester
           /\ ~ Top.kill => Top.slot = current
<1>1. /\ frames[current] # <<>> /\ current \in Proc
      /\ Len(frames[current]) = 1 /\ family[current].pid = Tester
  BY CurrentRuns DEF RecordInv, OneStack, Terminating
<1>2. /\ Top = frames[current][1] /\ Top \in Frame /\ Top.slot \in Proc
      /\ frames[current] \in Seq(Frame)
  BY <1>1, TopIsAlive DEF RecordInv
<1>. QED
  BY <1>1, <1>2, StackOwner DEF RecordInv, OneStack, Condemned, ProcInv, FramesInv

(* An activation of which only the progress changes.                       *)
LEMMA FrameGoesOn ==
    ASSUME NEW f \in Frame, NEW td \in {"waiters", "children", "die"},
           NEW n \in 0 .. MAX_PROCESSES
    PROVE  /\ [f EXCEPT !.next = n] \in Frame
           /\ [f EXCEPT !.next = n].slot = f.slot
           /\ [f EXCEPT !.next = n].kill = f.kill
           /\ [f EXCEPT !.todo = td] \in Frame
           /\ [f EXCEPT !.todo = td].slot = f.slot
           /\ [f EXCEPT !.todo = td].kill = f.kill
           /\ [f EXCEPT !.todo = td, !.next = n] \in Frame
           /\ [f EXCEPT !.todo = td, !.next = n].slot = f.slot
           /\ [f EXCEPT !.todo = td, !.next = n].kill = f.kill
  BY DEF Frame

(* It changes what it has done, not whom it terminates.                    *)
LEMMA OneContinues ==
    ASSUME RecordInv, Terminating, NEW f \in Frame, Continue(f),
           f.slot = Top.slot, f.kill = Top.kill
    PROVE  /\ \A q \in Proc : frames'[q] # <<>> =>
                 /\ frames[q] # <<>> /\ Len(frames'[q]) = 1
                 /\ frames'[q][1].slot = frames[q][1].slot
                 /\ frames'[q][1].kill = frames[q][1].kill
           /\ \A p \in Proc : Condemned(p) => Condemned(p)'
<1> DEFINE s == Append(Front(frames[current]), f)
<1>1. Len(s) = 1 /\ s[1] = f /\ s # <<>>
  <2>1. frames[current] # <<>>
    BY DEF Terminating
  <2>2. Len(s) = Len(frames[current]) /\ s[Len(frames[current])] = f
    BY <2>1, OneActivation, ReplaceTop
  <2>3. s \in Seq(Frame)
    BY <2>1, OneActivation, ReplaceTop
  <2>. HIDE DEF s
  <2>4. Len(s) = 1 /\ s[1] = f
    BY <2>2, OneActivation
  <2>5. s = <<>> => Len(s) = 0
    BY <2>3, EmptySeq
  <2>. QED
    BY <2>4, <2>5
<1>2. frames' = [frames EXCEPT ![current] = s]
  BY DEF Continue
<1>. HIDE DEF s
<1>3. /\ frames'[current] = s /\ \A q \in Proc \ {current} : frames'[q] = frames[q]
      /\ frames[current] # <<>> /\ frames[current][1] = Top
  BY <1>2, OneActivation DEF Terminating
<1>4. \A q \in Proc : frames[q] # <<>> => Len(frames[q]) = 1
  BY DEF RecordInv, OneStack
<1>. QED
  BY <1>1, <1>3, <1>4 DEF Condemned

(* The timer, and what goes on of a termination.                           *)
LEMMA KernelRecord ==
    ASSUME RecordInv, ProcInv', UNCHANGED testVars, timer_handler \/ terminate_process
    PROVE  RecordInv'
<1>1. /\ \A p \in Proc : Kin(family[p])
      /\ \A q \in Proc : frames[q] # <<>> => Len(frames[q]) = 1
      /\ \A p \in Proc : family[p].pid > Tester => p # Idle
      /\ ProcInv
  BY PidsAreInts DEF RecordInv, Kinship, OneStack
<1>2. CASE timer_handler
  <2>1. Effect(pcb, family)
    BY <1>1, <1>2, PlainEffect DEF PlainStep
  <2>2. frames' = frames /\ SameSleep(pcb, pcb')
    BY <1>1, <1>2, TimerStep DEF timer_handler
  <2>3. \A p \in Proc : Condemned(p)' <=> Condemned(p)
    BY <2>2 DEF Condemned
  <2>. QED
    BY <1>1, <2>1, <2>2, <2>3, QuietRecord DEF SameSleep
<1>3. CASE WakeWaiter
  <2> DEFINE w == Min(WaitersAhead)
             fam == [family EXCEPT ![w].waiting_pid = None]
  <2>1. w \in Proc /\ w \in WaitersAhead /\ Effect(pcb, fam)
    BY <1>1, <1>3, WakeWaiterEffect
  <2>2. /\ family[w].waiting_pid = family[Top.slot].pid /\ Top.slot \in Proc
        /\ family[Top.slot].pid # None
    BY <1>1, <1>3, <2>1, TopIsAlive DEF WaitersAhead, Waiters, WakeWaiter, ProcInv, TableInv
  <2>3. ~ family[w].pid > Tester
    BY <1>1, <2>1, <2>2 DEF Kin
  <2>4. \A p \in Proc : Kin(fam[p])
    <3>1. \A p \in Proc : /\ fam[p].pid = family[p].pid
                          /\ fam[p].parent_pid = family[p].parent_pid
                          /\ fam[p].waiting_pid \in {family[p].waiting_pid, None}
      BY <1>1, <2>1, SameParents
    <3>. QED
      BY <1>1, <3>1, PidsAreInts DEF Kin
  <2>5. \A p \in Proc \ {w} : pcb'[p] = pcb[p]
    <3>. HIDE DEF w
    <3>1. pcb' = UnblockedTable(w) \/ pcb' = pcb
      BY <1>3 DEF WakeWaiter, Return, w
    <3>. QED
      BY <1>1, <2>1, <3>1, CurrentRuns DEF UnblockedTable
  <2>6. Terminating /\ Continue([Top EXCEPT !.next = w + 1])
    BY <1>3 DEF WakeWaiter
  <2>7. Top \in Frame /\ w + 1 \in 0 .. MAX_PROCESSES
    BY <2>1, <2>6, OneActivation, SchedulerAssumption DEF Proc
  <2>. HIDE DEF fam, w
  <2>8. PICK f \in Frame : Continue(f) /\ f.slot = Top.slot /\ f.kill = Top.kill
    BY <2>6, <2>7, FrameGoesOn, ZenonT(30)
  <2>9. \A p \in Proc : family[p].pid > Tester =>
           /\ pcb'[p].state = "BLOCKED" <=> pcb[p].state = "BLOCKED"
           /\ Condemned(p) => Condemned(p)'
    BY <2>3, <2>5, <2>6, <2>8, OneContinues
  <2>. QED
    BY <2>1, <2>4, <2>6, <2>8, <2>9, OneContinues, QuietRecord
<1>4. CASE WaitersWoken
  <2> DEFINE fam == [family EXCEPT ![Top.slot].waiting_pid = None]
             f == [Top EXCEPT !.todo = "children", !.next = 0]
  <2>1. Effect(pcb, fam) /\ pcb' = pcb /\ Terminating /\ Continue(f)
    BY <1>1, <1>4, WaitersWokenEffect DEF WaitersWoken, schedVars
  <2>2. \A p \in Proc : Kin(fam[p])
    <3>1. \A p \in Proc : /\ fam[p].pid = family[p].pid
                          /\ fam[p].parent_pid = family[p].parent_pid
                          /\ fam[p].waiting_pid \in {family[p].waiting_pid, None}
      BY <1>1, <2>1, SameParents, OneActivation
    <3>. QED
      BY <1>1, <3>1, PidsAreInts DEF Kin
  <2>3. f \in Frame /\ f.slot = Top.slot /\ f.kill = Top.kill
    <3>1. Top \in Frame /\ 0 \in 0 .. MAX_PROCESSES
      BY <2>1, OneActivation, SchedulerAssumption
    <3>. QED
      BY <3>1, FrameGoesOn
  <2>. HIDE DEF fam, f
  <2>. QED
    BY <2>1, <2>2, <2>3, OneContinues, QuietRecord
<1>5. CASE NextChild
  <2> DEFINE c == Min(ChildrenAhead)
             f == [Top EXCEPT !.next = c + 1]
  <2>1. /\ c \in Proc /\ Effect(pcb, family') /\ pcb' = pcb /\ Terminating
        /\ family[c].parent_pid = family[Top.slot].pid
        /\ family' = IF Top.kill THEN family ELSE Adopted(c)
        /\ \A o \in Proc :
              /\ Adopted(c)[o].pid = family[o].pid
              /\ Adopted(c)[o].waiting_pid = family[o].waiting_pid
              /\ Adopted(c)[o].parent_pid = IF o = c THEN family[Top.slot].parent_pid
                                            ELSE family[o].parent_pid
    BY <1>1, <1>5, NextChildEffect DEF NextChild, schedVars
  <2>2. ~ Top.kill
    BY <1>1, <2>1, OneActivation, PidsAreInts DEF Kin
  <2>3. Continue(f)
    BY <1>5, <2>2 DEF NextChild
  <2>4. f \in Frame /\ f.slot = Top.slot /\ f.kill = Top.kill
    <3>1. Top \in Frame /\ c + 1 \in 0 .. MAX_PROCESSES
      BY <2>1, OneActivation, SchedulerAssumption DEF Proc
    <3>. HIDE DEF c
    <3>. QED
      BY <3>1, FrameGoesOn
  <2>. HIDE DEF f, c
  <2>5. \A o \in Proc : Kin(family'[o])
    BY <1>1, <2>1, <2>2, OneActivation DEF Kin
  <2>. QED
    BY <2>1, <2>3, <2>4, <2>5, OneContinues, QuietRecord
<1>6. CASE ChildrenGone
  <2> DEFINE f == [Top EXCEPT !.todo = "die"]
  <2>1. Effect(pcb, family) /\ Terminating /\ Continue(f)
    BY <1>1, <1>6, PlainEffect DEF PlainStep, ChildrenGone
  <2>2. f \in Frame /\ f.slot = Top.slot /\ f.kill = Top.kill
    <3>1. Top \in Frame
      BY <2>1, OneActivation
    <3>. QED
      BY <3>1, FrameGoesOn DEF Frame
  <2>3. \A p \in Proc : pcb'[p].state = pcb[p].state
    <3>1. pcb' \in {WithOwnerRestored(pcb, family), pcb}
      BY <1>6 DEF ChildrenGone, Return
    <3>2. \A r \in PCB : Unboosted(r).state = r.state
      BY DEF Unboosted, PCB
    <3>3. \A p \in Proc : WithOwnerRestored(pcb, family)[p].state = pcb[p].state
      BY <1>1, <3>2, CurrentRuns DEF WithOwnerRestored
    <3>. QED
      BY <3>1, <3>3
  <2>. HIDE DEF f
  <2>. QED
    BY <1>1, <2>1, <2>2, <2>3, OneContinues, QuietRecord
<1>7. CASE FinishTermination
  <2> DEFINE t == [pcb EXCEPT ![Top.slot] = FreeSlot]
  <2>1. Effect(t, family) /\ SameSleep(t, pcb') /\ Terminating
    BY <1>1, <1>7, FinishEffect, FinishStep DEF FinishTermination
  <2>2. /\ t[Top.slot].state = "TERMINATED"
        /\ \A p \in Proc \ {Top.slot} : t[p] = pcb[p]
    BY <1>1, <2>1, OneActivation, CurrentRuns, FreeSlotType
  <2>3. /\ frames'[current] = <<>>
        /\ \A q \in Proc : frames'[q] # <<>> => frames'[q] = frames[q]
    <3>1. frames' = IF Top.slot = current THEN [frames EXCEPT ![current] = <<>>]
                    ELSE [frames EXCEPT ![current] = Front(@), ![Top.slot] = <<>>]
      BY <1>7 DEF FinishTermination
    <3>2. Front(frames[current]) = <<>>
      <4>1. frames[current] # <<>> /\ frames[current] \in Seq(Frame)
        BY <2>1, OneActivation DEF Terminating
      <4>3. Len(frames[current]) = 1
        BY <2>1, OneActivation
      <4>4. /\ Front(frames[current]) \in Seq(Frame)
            /\ Len(Front(frames[current])) = Len(frames[current]) - 1
        BY <4>1, TopProperties
      <4>2. Front(frames[current]) \in Seq(Frame) /\ Len(Front(frames[current])) = 0
        BY <4>3, <4>4
      <4>. QED
        BY <4>2, EmptySeq
    <3>. QED
      BY <2>1, <3>1, <3>2, OneActivation
  <2>4. ASSUME NEW p \in Proc, p # Top.slot, Condemned(p)
        PROVE  Condemned(p)'
    <3>1. PICK q \in Proc : /\ frames[q] # <<>> /\ frames[q][1].kill
                           /\ frames[q][1].slot = p
      BY <2>4 DEF Condemned
    <3>2. q = current
      BY <1>1, <3>1, StackOwner DEF RecordInv
    <3>. QED
      BY <2>1, <2>4, <3>1, <3>2, OneActivation
  <2>5. family[Top.slot].pid > Tester => Condemned(Top.slot)
    BY <2>1, OneActivation, PidsAreInts, <1>1
  <2>. HIDE DEF t
  <2>6. \A p \in Proc : family[p].pid > Tester =>
           \/ Condemned(p) /\ t[p].state = "TERMINATED"
           \/ /\ t[p].state = "TERMINATED" => pcb[p].state = "TERMINATED"
              /\ pcb'[p].state = "BLOCKED" <=> pcb[p].state = "BLOCKED"
              /\ Condemned(p) => Condemned(p)'
    BY <1>1, <2>1, <2>2, <2>4, <2>5 DEF SameSleep
  <2>. QED
    BY <1>1, <2>1, <2>3, <2>6, QuietRecord
<1>. QED
  BY <1>2, <1>3, <1>4, <1>5, <1>6, <1>7 DEF terminate_process

(* With no termination under way on the CPU nobody is condemned.           *)
LEMMA NobodyCondemned ==
    ASSUME ProcInv, OneStack, ~ Terminating
    PROVE  \A p \in Proc : ~ Condemned(p)
  BY StackOwner DEF Condemned, Terminating

(* A child that is not down as dead is found by its pid, alive.            *)
LEMMA ChildIsFound ==
    ASSUME RecordInv, NEW r \in Index, records[r] # "KILLED"
    PROVE  /\ pids[r] \in 1 .. next_pid - 1 /\ pids[r] \in Pid \ {0}
           /\ pids[r] > Tester /\ pids[r] # None
           /\ \E p \in Proc : /\ family[p].pid = pids[r] /\ Alive(p) /\ p # Idle
                              /\ get_process_by_pid(family, pids[r]) = {p}
           /\ ~ NoSuchProcess(pids[r])
<1>1. PICK p \in Proc : family[p].pid = pids[r] /\ Alive(p)
  BY DEF RecordInv, Beliefs
<1>2. pids[r] # None
  BY <1>1 DEF RecordInv, ProcInv, TableInv
<1>3. pids[r] > Tester /\ pids[r] < next_pid /\ pids[r] \in Pid
  BY <1>2 DEF RecordInv, RecordTypes
<1>4. get_process_by_pid(family, pids[r]) = {p}
  BY <1>1, <1>2, FoundAt DEF RecordInv
<1>5. pids[r] \in 1 .. next_pid - 1 /\ pids[r] # 0 /\ p # Idle
  BY <1>1, <1>3, PidsAreInts DEF RecordInv
<1>. QED
  BY <1>1, <1>2, <1>3, <1>4, <1>5 DEF NoSuchProcess

(* To the next child, or to the next loop.                                 *)
LEMMA StepKeepsTypes ==
    ASSUME RecordInv, NEW next, Step(next),
           pids' = pids, next_pid' = next_pid,
           records' \in [Index -> {"KILLED", "RUNNING", "BLOCKED"}]
    PROVE  RecordTypes'
<1>1. rq' \in Index /\ max_processes' \in Index
  BY TestProcessesAssumption DEF Step, RecordInv, RecordTypes, Index
<1>. QED
  BY <1>1 DEF RecordInv, RecordTypes

(* What the test does to the process table, the kernel allows.             *)
LEMMA TestRefines ==
    ASSUME RecordInv, [TestNext]_allVars
    PROVE  [ProcessNext]_processVars
<1>1. ASSUME NEW x, x \in {Shell, Tester}, \E p \in Proc : family[p].pid = x
      PROVE  x \in 1 .. next_pid - 1
  BY <1>1, PidsAreInts DEF RecordInv
<1>2. ASSUME NEW x, Runs(x), SystemCall
      PROVE  ProcessNext
  BY <1>2 DEF ProcessNext, Runs
<1>3. CASE Boot
  BY <1>3 DEF Boot, ProcessNext
<1>4. CASE ShellSpawns
  BY <1>2, <1>4 DEF ShellSpawns, SystemCall
<1>5. CASE ShellWaits
  <2>1. \E p \in Proc : family[p].pid = Tester
    BY <1>5 DEF ShellWaits, waitpid, WaitFor, get_process_by_pid
  <2>. QED
    BY <1>1, <1>2, <1>5, <2>1 DEF ShellWaits, SystemCall
<1>6. CASE Create
  BY <1>2, <1>6 DEF Create, In, SystemCall
<1>7. ASSUME records[rq] # "KILLED"
      PROVE  pids[rq] \in 1 .. next_pid - 1 /\ ~ NoSuchProcess(pids[rq])
  BY <1>7, ChildIsFound DEF RecordInv, RecordTypes
<1>8. CASE Kill
  BY <1>7, <1>8 DEF Kill, ProcessNext
<1>9. CASE BlockChild
  BY <1>2, <1>7, <1>9 DEF BlockChild, In, SystemCall
<1>10. CASE Unblock
  BY <1>2, <1>7, <1>10 DEF Unblock, In, SystemCall
<1>11. CASE Skip \/ LeaveBlocked \/ UNCHANGED allVars
  BY <1>11 DEF Skip, LeaveBlocked, allVars
<1>12. CASE ReturnError \/ timer_handler \/ terminate_process
  BY <1>12 DEF ReturnError, ProcessNext
<1>. QED
  BY <1>3, <1>4, <1>5, <1>6, <1>8, <1>9, <1>10, <1>11, <1>12 DEF TestNext, TestStep

(* The shell and the boot context wait.                                    *)
LEMMA WaitRecord ==
    ASSUME RecordInv, ProcInv', NEW x \in {Shell, Tester}, WaitFor(x),
           family[current].pid <= Shell, UNCHANGED <<next_pid, frames, testVars>>
    PROVE  RecordInv'
<1> DEFINE fam == [family EXCEPT ![current].waiting_pid = x]
<1>1. ProcInv /\ x \in Pid
  <2>1. PICK p \in Proc : family[p].pid = x
    BY DEF WaitFor, get_process_by_pid
  <2>. QED
    BY <2>1, PidsAreInts DEF RecordInv, ProcInv, TableInv, Family
<1>2. Effect(pcb, fam)
  BY <1>1, WaitEffect
<1>3. \A o \in Proc \ {Idle, current} :
         pcb'[o].state = "BLOCKED" <=> pcb[o].state = "BLOCKED"
  BY <1>1, WaitStep
<1>4. \A p \in Proc : Kin(fam[p])
  <2>1. ASSUME NEW p \in Proc
        PROVE  /\ fam[p].pid = family[p].pid
               /\ fam[p].parent_pid = family[p].parent_pid
               /\ \/ fam[p].waiting_pid = family[p].waiting_pid
                  \/ p = current /\ fam[p].waiting_pid = x
    BY <1>1, CurrentRuns, SameParents
  <2>2. \A p \in Proc : Kin(family[p])
    BY DEF RecordInv, Kinship
  <2>. HIDE DEF fam
  <2>. QED
    BY <1>1, <2>1, <2>2, PidsAreInts DEF Kin
<1>5. \A q \in Proc : frames'[q] # <<>> =>
         /\ frames[q] # <<>> /\ Len(frames'[q]) = 1
         /\ frames'[q][1].slot = frames[q][1].slot
         /\ frames'[q][1].kill = frames[q][1].kill
  BY DEF RecordInv, OneStack
<1>6. \A p \in Proc : Condemned(p)' <=> Condemned(p)
  BY DEF Condemned
<1>7. \A p \in Proc : family[p].pid > Tester => p # Idle /\ p # current
  BY <1>1, PidsAreInts
<1>. HIDE DEF fam
<1>8. UNCHANGED testVars
  OBVIOUS
<1>. QED
  BY <1>2, <1>3, <1>4, <1>5, <1>6, <1>7, <1>8, QuietRecord DEF Effect

(* A child is created, or the test itself.                                 *)
Created(r) ==
    pids'[r] = next_pid /\ next_pid' = next_pid + 1 /\ records'[r] = "RUNNING"

Untouched(r) == pids'[r] = pids[r] /\ records'[r] = records[r]

(* Creation sweeps dead slots only and gives the newborn a fresh pid and a *)
(* parent up to the tester.                                                *)
LEMMA CreationRecord ==
    ASSUME RecordInv, NEW prio \in Priorities, NEW fg \in BOOLEAN,
           create_process(prio, fg, TRUE), family[current].pid <= Tester,
           \A r \in Index : Created(r) \/ Untouched(r)
    PROVE  /\ Kinship' /\ OneStack' /\ Beliefs'
           /\ next_pid' \in Int /\ next_pid' >= next_pid
<1>1. PICK fam \in [Proc -> Family] :
              /\ Swept(fam)
              /\ \/ /\ family' = fam
                    /\ UNCHANGED <<schedVars, next_pid, foreground>>
                 \/ \E p \in Proc : Birth(fam, p, fg, TRUE) /\ Admit(p, prio, fg)
  <2>1. ProcInv /\ TRUE \in BOOLEAN
    BY DEF RecordInv
  <2>2. PICK fam \in [Proc -> Family] :
           /\ Swept(fam)
           /\ pending_cleanup' = None
           /\ \/ /\ family' = fam
                 /\ UNCHANGED <<schedVars, next_pid, foreground>>
              \/ \E p \in Proc :
                    /\ Birth(fam, p, fg, TRUE)
                    /\ IF TRUE THEN Admit(p, prio, fg) ELSE UNCHANGED schedVars
    BY <2>1, CreateStep, Zenon
  <2>. QED
    BY <2>2, Zenon
<1>2. frames' = frames
  BY DEF create_process
<1>3. /\ ProcInv /\ current \in Proc
      /\ \A o \in Proc : Kin(family[o])
      /\ \A o \in Proc : Alive(o) => fam[o] = family[o]
      /\ \A o \in Proc : fam[o] = family[o] \/ fam[o] = Released
      /\ \A r \in Index : pids[r] # None => Tester < pids[r] /\ pids[r] < next_pid
      /\ \A r \in Index : pids[r] \in Int
      /\ next_pid \in Int /\ next_pid # None
      /\ \A p \in Proc : family[p].pid < next_pid /\ family[p].pid \in Int
  BY <1>1, CurrentRuns, PidsAreInts DEF RecordInv, Kinship, Swept, Alive, RecordTypes, Pid,
                                           ProcInv, TableInv
<1>4. Kin(Released) /\ Released.pid = None /\ Released.waiting_pid = None
  BY DEF Kin, Released, Tester, Shell, None
<1>5. /\ \A q \in Proc : frames[q] # <<>> => Alive(q) /\ frames[q][1].slot \in Proc
                                             /\ Alive(frames[q][1].slot)
      /\ \A p \in Proc : Condemned(p)' <=> Condemned(p)
  BY <1>2, StackOwner DEF RecordInv, Condemned
<1>6. \A q \in Proc : frames[q] # <<>> =>
         /\ family[q].pid = Tester /\ Len(frames[q]) = 1
         /\ frames[q][1].kill =>
               /\ family[frames[q][1].slot].pid > Tester
               /\ family[frames[q][1].slot].pid < next_pid
               /\ \A r \in Index : pids[r] = family[frames[q][1].slot].pid
                                     => records[r] = "KILLED"
  BY <1>5, PidsAreInts DEF RecordInv, OneStack
<1>7. \A r \in Index :
         /\ \A p \in Proc : family[p].pid = pids[r] /\ pids[r] # None => Agree(r, p)
         /\ records[r] # "KILLED" => \E p \in Proc : family[p].pid = pids[r] /\ Alive(p)
  BY DEF RecordInv, Beliefs
<1>8. CASE family' = fam /\ UNCHANGED <<schedVars, next_pid, foreground>>
  <2>1. pcb' = pcb /\ next_pid' = next_pid
    BY <1>8 DEF schedVars
  <2>2. \A r \in Index : Untouched(r)
    BY <2>1, PidsAreInts DEF RecordInv, Created
  <2>3. Kinship'
    BY <1>3, <1>4, <1>8 DEF Kinship
  <2>4. OneStack'
    BY <1>2, <1>3, <1>5, <1>6, <1>8, <2>2 DEF OneStack, Untouched
  <2>5. \A r \in Index, p \in Proc : Agree(r, p)' <=> Agree(r, p)
    BY <1>5, <2>1, <2>2 DEF Agree, Untouched, Alive
  <2>6. \A p \in Proc : family'[p].pid # None => family'[p].pid = family[p].pid
    BY <1>3, <1>4, <1>8
  <2>7. Beliefs'
    BY <1>3, <1>7, <1>8, <2>1, <2>2, <2>5, <2>6 DEF Beliefs, Untouched, Alive
  <2>. QED
    BY <2>1, <2>3, <2>4, <2>7, PidsAreInts, <1>3
<1>9. CASE \E p \in Proc : Birth(fam, p, fg, TRUE) /\ Admit(p, prio, fg)
  <2>1. PICK b \in Proc : Birth(fam, b, fg, TRUE) /\ Admit(b, prio, fg)
    BY <1>9
  <2>2. /\ next_pid' = next_pid + 1 /\ ~ Alive(b) /\ b # current
        /\ family'[b].pid = next_pid
        /\ family'[b].parent_pid = family[current].pid
        /\ family'[b].waiting_pid = None
        /\ \A o \in Proc \ {b} : family'[o] = fam[o]
    <3>1. /\ next_pid \in Pid /\ family[current].pid \in Pid \union {None}
          /\ family' = Newborn(fam, b) /\ fam[b] = Released
          /\ next_pid' = next_pid + 1 /\ ~ Alive(b)
      BY <1>3, <2>1 DEF Birth, ProcInv, TableInv, Family, Alive
    <3>. QED
      BY <1>3, <1>4, <3>1, NewbornType, CurrentRuns DEF Alive
  <2>3. \A o \in Proc : pcb'[o].state = IF o = b THEN "READY" ELSE pcb[o].state
    BY <1>3, <2>1, AdmitKeeps
  <2>4. Kinship'
    <3>1. Kin(family'[b])
      BY <1>3, <2>2, PidsAreInts DEF Kin
    <3>. QED
      BY <1>3, <1>4, <2>2, <3>1 DEF Kinship
  <2>5. \A o \in Proc : Alive(o) => o # b /\ family'[o] = family[o]
    BY <1>3, <2>2
  <2>6. \A r \in Index : Created(r) => pids'[r] = next_pid
    BY DEF Created
  <2>7. OneStack'
    BY <1>2, <1>3, <1>5, <1>6, <2>5, <2>6 DEF OneStack, Untouched
  <2>8. ASSUME NEW r \in Index, Untouched(r)
        PROVE  /\ \A p \in Proc : family'[p].pid = pids'[r] /\ pids'[r] # None
                                   => Agree(r, p)'
               /\ records'[r] # "KILLED" => \E p \in Proc : family'[p].pid = pids'[r]
                                                            /\ pcb'[p].state # "TERMINATED"
    <3>1. ASSUME NEW p \in Proc, family'[p].pid = pids'[r], pids'[r] # None
          PROVE  Agree(r, p)'
      <4>1. pids[r] # None /\ pids'[r] = pids[r] /\ records'[r] = records[r]
        BY <2>8, <3>1 DEF Untouched
      <4>2. p # b
        BY <1>3, <2>2, <3>1, <4>1, PidsAreInts
      <4>3. family[p].pid = pids[r] /\ pcb'[p].state = pcb[p].state
        BY <1>3, <1>4, <2>2, <2>3, <3>1, <4>1, <4>2
      <4>4. Agree(r, p)
        BY <1>7, <4>1, <4>3
      <4>. QED
        BY <1>5, <4>1, <4>3, <4>4 DEF Agree, Alive
    <3>2. ASSUME records'[r] # "KILLED"
          PROVE  \E p \in Proc : family'[p].pid = pids'[r] /\ pcb'[p].state # "TERMINATED"
      <4>1. PICK p \in Proc : family[p].pid = pids[r] /\ Alive(p)
        BY <1>7, <2>8, <3>2 DEF Untouched
      <4>. QED
        BY <2>3, <2>5, <2>8, <4>1 DEF Untouched, Alive
    <3>. QED
      BY <3>1, <3>2
  <2>9. ASSUME NEW r \in Index, Created(r)
        PROVE  /\ \A p \in Proc : family'[p].pid = pids'[r] /\ pids'[r] # None
                                   => Agree(r, p)'
               /\ records'[r] # "KILLED" => \E p \in Proc : family'[p].pid = pids'[r]
                                                            /\ pcb'[p].state # "TERMINATED"
    <3>1. pids'[r] = next_pid /\ records'[r] = "RUNNING"
      BY <2>9 DEF Created
    <3>2. \A p \in Proc \ {b} : family'[p].pid # next_pid
      BY <1>3, <1>4, <2>2, PidsAreInts
    <3>3. pcb'[b].state = "READY" /\ family'[b].pid = next_pid
      BY <2>2, <2>3
    <3>4. Agree(r, b)'
      BY <3>1, <3>3 DEF Agree, Alive
    <3>. QED
      BY <3>1, <3>2, <3>3, <3>4
  <2>10. Beliefs'
    BY <2>8, <2>9 DEF Beliefs, Alive
  <2>. QED
    BY <2>2, <2>4, <2>7, <2>10, PidsAreInts, <1>3
<1>. QED
  BY <1>1, <1>8, <1>9

(* The kernel begins a termination on behalf of the test.                  *)
LEMMA TerminateRecord ==
    ASSUME RecordInv, ProcInv', NEW p \in Proc,
           NEW kill \in BOOLEAN, NEW masked \in BOOLEAN,
           Runs(Tester), Terminate({p}, kill, masked), pids' = pids,
           \A r \in Index :
              \/ records'[r] = records[r]
              \/ kill /\ records'[r] = "KILLED" /\ pids[r] = family[p].pid,
           kill => /\ family[p].pid > Tester
                   /\ \A r \in Index : pids[r] = family[p].pid => records'[r] = "KILLED"
    PROVE  Kinship' /\ OneStack' /\ Beliefs' /\ next_pid' = next_pid
<1> DEFINE a == Activation(p, kill, masked)
<1>1. /\ UNCHANGED <<schedVars, family, next_pid>>
      /\ ~ Terminating /\ family[current].pid = Tester
  BY DEF Terminate, Runs, UserRuns
<1>2. pcb' = pcb /\ current' = current /\ current \in Proc /\ ProcInv
  BY <1>1, CurrentRuns DEF schedVars, RecordInv
<1>3. frames' = [frames EXCEPT ![current] = Append(frames[current], a)]
  BY DEF Terminate
<1>4. /\ frames'[current] = <<a>> /\ a.slot = p /\ a.kill = kill
      /\ \A q \in Proc \ {current} : frames'[q] = frames[q]
  <2>1. frames[current] = <<>> /\ Append(<<>>, a) = <<a>>
    BY <1>1 DEF Terminating
  <2>2. frames \in [Proc -> Seq(Frame)]
    BY DEF RecordInv, ProcInv, FramesInv
  <2>3. a.slot = p /\ a.kill = kill
    BY DEF Activation
  <2>. HIDE DEF a
  <2>. QED
    BY <1>2, <1>3, <2>1, <2>2, <2>3
<1>5. /\ <<a>> # <<>> /\ Len(<<a>>) = 1 /\ <<a>>[1] = a
  OBVIOUS
<1>. HIDE DEF a
<1>6. \A q \in Proc : ~ Condemned(q)
  BY <1>1, NobodyCondemned DEF RecordInv
<1>7. \A q \in Proc : frames[q] # <<>> => Len(frames[q]) = 1 /\ family[q].pid = Tester
                                          /\ ~ frames[q][1].kill
  BY <1>1, StackOwner DEF RecordInv, OneStack, Terminating
<1>8. OneStack'
  <2>1. ASSUME NEW q \in Proc, frames'[q] # <<>>
        PROVE  /\ family'[q].pid = Tester
               /\ Len(frames'[q]) = 1
               /\ frames'[q][1].kill =>
                     /\ family'[frames'[q][1].slot].pid > Tester
                     /\ \A r \in Index : pids'[r] = family'[frames'[q][1].slot].pid
                                           => records'[r] = "KILLED"
    <3>1. CASE q = current
      <4>1. Len(frames'[q]) = 1 /\ frames'[q][1] = a
        BY <1>4, <1>5, <3>1
      <4>. QED
        BY <1>1, <1>4, <3>1, <4>1
    <3>2. CASE q # current
      BY <1>1, <1>4, <1>7, <2>1, <3>2
    <3>. QED
      BY <3>1, <3>2
  <2>. QED
    BY <2>1 DEF OneStack
<1>9. Kinship'
  BY <1>1 DEF RecordInv, Kinship
<1>10. \A q \in Proc : Condemned(q)' <=> q = p /\ kill
  <2>1. \A q \in Proc : Condemned(q)' => q = p /\ kill
    BY <1>4, <1>5, <1>7 DEF Condemned
  <2>2. kill => Condemned(p)'
    BY <1>2, <1>4, <1>5, ZenonT(30) DEF Condemned
  <2>. QED
    BY <2>1, <2>2
<1>11. Effect(pcb, family)
  BY <1>1, <1>2, SameFamily, NoReapingReaps, QuietEffect DEF Terminate
<1>12. ASSUME NEW r \in Index, NEW q \in Proc, pids[r] # None, family[q].pid = pids[r]
       PROVE  Agree(r, q)'
  <2>1. Agree(r, q)
    BY <1>12 DEF RecordInv, Beliefs
  <2>2. CASE q = p /\ kill
    BY <1>10, <1>12, <2>2 DEF Agree
  <2>3. CASE ~ (q = p /\ kill)
    <3>1. records'[r] = records[r]
      BY <1>12, <2>3, <1>2 DEF ProcInv, TableInv
    <3>. QED
      BY <1>2, <1>6, <1>10, <2>1, <2>3, <3>1 DEF Agree, Alive
  <2>. QED
    BY <2>2, <2>3
<1>13. Beliefs'
  <2>1. \A r \in Index : records'[r] # "KILLED" => records[r] # "KILLED"
    OBVIOUS
  <2>. QED
    BY <1>2, <1>11, <1>12, <2>1, BeliefsKept DEF RecordInv
<1>. QED
  BY <1>1, <1>8, <1>9, <1>13

(* The kernel and the processes before the test.                           *)
LEMMA OtherRecords ==
    ASSUME RecordInv, ProcInv',
           \/ Boot \/ ShellSpawns \/ ShellWaits
           \/ (timer_handler \/ terminate_process) /\ UNCHANGED testVars
    PROVE  RecordInv'
<1>1. ASSUME NEW prio \in Priorities, NEW fg \in BOOLEAN, create_process(prio, fg, TRUE),
             family[current].pid <= Tester, UNCHANGED testVars
      PROVE  RecordInv'
  <2>1. \A r \in Index : Untouched(r)
    BY <1>1 DEF Untouched, testVars
  <2>2. /\ Kinship' /\ OneStack' /\ Beliefs'
        /\ next_pid' \in Int /\ next_pid' >= next_pid /\ next_pid \in Int
    BY <1>1, <2>1, CreationRecord, PidsAreInts DEF RecordInv
  <2>3. \A r \in Index : pids[r] \in Int
    BY PidsAreInts DEF RecordInv, RecordTypes, Pid
  <2>4. RecordTypes'
    BY <1>1, <2>2, <2>3 DEF RecordInv, RecordTypes, testVars
  <2>. QED
    BY <2>2, <2>4 DEF RecordInv
<1>2. Tester = 2 /\ Shell = 1 /\ family[Idle].pid = 0
  BY PidsAreInts DEF RecordInv
<1>3. CASE Boot
  <2>1. CASE CreateShell /\ boot' = "created"
    <3>1. PICK prio \in Priorities, ok \in BOOLEAN :
             create_process(prio, FALSE, ok) /\ boot' = IF ok THEN "created" ELSE "leaving"
      BY <2>1 DEF CreateShell
    <3>2. ok /\ family[current].pid <= Tester
      BY <1>2, <2>1, <3>1 DEF CreateShell, BootRuns
    <3>. QED
      BY <1>1, <1>3, <3>1, <3>2 DEF Boot
  <2>2. CASE WaitForShell
    <3>1. family[current].pid <= Shell
      BY <1>2, <2>2 DEF WaitForShell, BootRuns
    <3>2. CASE WaitFor(Shell) /\ UNCHANGED <<foreground, next_pid, frames, preempted>>
      BY <1>3, <3>1, <3>2, WaitRecord DEF Boot
    <3>3. CASE /\ UNCHANGED <<schedVars, family, foreground, next_pid, frames, preempted>>
               /\ NoReaping
      BY <1>3, <3>3 DEF Boot, schedVars, testVars, RecordInv, RecordTypes, Kinship,
                        OneStack, Beliefs, Agree, Condemned, Alive, Kin
    <3>. QED
      BY <2>2, <3>2, <3>3 DEF WaitForShell
  <2>. QED
    BY <1>3, <2>1, <2>2 DEF Boot
<1>4. CASE ShellSpawns
  <2>1. PICK prio \in Priorities : create_process(prio, TRUE, TRUE)
    BY <1>4 DEF ShellSpawns
  <2>2. family[current].pid <= Tester /\ UNCHANGED testVars
    BY <1>2, <1>4 DEF ShellSpawns, Runs
  <2>. QED
    BY <1>1, <2>1, <2>2
<1>5. CASE ShellWaits
  BY <1>2, <1>5, WaitRecord DEF ShellWaits, Runs, waitpid
<1>6. CASE (timer_handler \/ terminate_process) /\ UNCHANGED testVars
  BY <1>6, KernelRecord
<1>. QED
  BY <1>3, <1>4, <1>5, <1>6

(* A child is put to sleep, or woken.                                      *)
LEMMA SleepRecord ==
    ASSUME RecordInv, ProcInv', NEW r \in Index,
           NEW p \in Proc \ {Idle}, family[p].pid = pids[r],
           NEW state \in {"RUNNING", "BLOCKED"},
           Runs(Tester), Effect(pcb, family), frames' = frames,
           records[r] # "KILLED", pids[r] # None, pids' = pids,
           records' = [records EXCEPT ![r] = state],
           pcb'[p].state = "BLOCKED" <=> state = "BLOCKED",
           \A o \in Proc \ {Idle, p} :
              pcb'[o].state = "BLOCKED" <=> pcb[o].state = "BLOCKED"
    PROVE  Kinship' /\ OneStack' /\ Beliefs' /\ next_pid' = next_pid
<1>1. ProcInv /\ ~ Terminating
  BY DEF RecordInv, Runs, UserRuns
<1>2. /\ records'[r] = state
      /\ \A s \in Index \ {r} : records'[s] = records[s]
      /\ \A s \in Index : records[s] = "KILLED" <=> records'[s] = "KILLED"
  BY DEF RecordInv, RecordTypes
<1>3. \A q \in Proc : frames[q] # <<>> => Len(frames[q]) = 1
  BY DEF RecordInv, OneStack
<1>4. OneStack'
  BY <1>1, <1>2, <1>3, StackKept DEF RecordInv
<1>5. Kinship'
  BY KinshipKept DEF RecordInv, Kinship
<1>6. \A q \in Proc : ~ Condemned(q)
  BY <1>1, NobodyCondemned DEF RecordInv
<1>7. \A q \in Proc : ~ Condemned(q)'
  BY <1>6 DEF Condemned
<1>8. ASSUME NEW s \in Index, NEW q \in Proc, pids[s] # None, family[q].pid = pids[s]
      PROVE  Agree(s, q)'
  <2>1. Agree(s, q)
    BY <1>8 DEF RecordInv, Beliefs
  <2>2. pcb'[q].state = "TERMINATED" <=> pcb[q].state = "TERMINATED"
    BY DEF Effect
  <2>3. s = r <=> q = p
    BY <1>1, <1>8 DEF RecordInv, RecordTypes, ProcInv, TableInv
  <2>4. q # Idle
    BY <1>8, PidsAreInts DEF RecordInv, RecordTypes
  <2>5. CASE s = r
    BY <1>2, <1>6, <2>1, <2>2, <2>3, <2>5 DEF Agree, Alive
  <2>6. CASE s # r
    BY <1>2, <1>6, <1>7, <2>1, <2>2, <2>3, <2>4, <2>6 DEF Agree, Alive
  <2>. QED
    BY <2>5, <2>6
<1>9. Beliefs'
  <2>1. \A s \in Index : records'[s] # "KILLED" => records[s] # "KILLED"
    BY <1>2
  <2>. QED
    BY <1>1, <1>8, <2>1, BeliefsKept DEF RecordInv
<1>. QED
  BY <1>4, <1>5, <1>9 DEF Effect

(* A child is woken, and nobody else.                                      *)
LEMMA UnblockStep ==
    ASSUME ProcInv, NEW p \in Proc, NEW x, get_process_by_pid(family, x) = {p},
           unblock_process_of(x)
    PROVE  /\ pcb'[p].state = "READY"
           /\ \A o \in Proc \ {p} : pcb'[o] = pcb[o]
           /\ frames' = frames
<1>1. pcb' = UnblockedTable(p) /\ frames' = frames
  BY DEF unblock_process_of, Return
<1> DEFINE r == [pcb[p] EXCEPT !.state = "READY", !.waiting_ticks = 0]
<1>2. pcb' = [pcb EXCEPT ![p] = r]
  BY <1>1 DEF UnblockedTable
<1>3. r.state = "READY"
  <2>1. pcb[p] \in PCB
    BY CurrentRuns
  <2>. QED
    BY <2>1 DEF PCB
<1>. HIDE DEF r
<1>. QED
  BY <1>1, <1>2, <1>3, CurrentRuns

(* The steps of the test.                                                  *)
LEMMA TestRecords ==
    ASSUME RecordInv, ProcInv', TestStep
    PROVE  RecordInv'
<1>1. /\ ProcInv /\ rq \in Index /\ next_pid \in Int /\ Tester = 2
      /\ \A r \in Index : pids[r] \in Int
      /\ records \in [Index -> {"KILLED", "RUNNING", "BLOCKED"}]
  BY PidsAreInts DEF RecordInv, RecordTypes, Pid
<1>2. ASSUME Runs(Tester), records[rq] # "KILLED"
      PROVE  /\ ~ NoSuchProcess(pids[rq]) /\ pids[rq] \in 1 .. next_pid - 1
             /\ pids[rq] \in Pid \ {0} /\ pids[rq] > Tester /\ pids[rq] # None
             /\ \E p \in Proc \ {Idle} : /\ family[p].pid = pids[rq]
                                         /\ get_process_by_pid(family, pids[rq]) = {p}
  BY <1>1, <1>2, ChildIsFound
<1>3. ASSUME NEW st \in {"KILLED", "RUNNING", "BLOCKED"}
      PROVE  /\ [records EXCEPT ![rq] = st] \in [Index -> {"KILLED", "RUNNING", "BLOCKED"}]
             /\ [records EXCEPT ![rq] = st][rq] = st
             /\ \A r \in Index \ {rq} : [records EXCEPT ![rq] = st][r] = records[r]
  BY <1>1
<1>4. CASE Create
  <2>1. PICK prio \in Priorities : create_process(prio, FALSE, TRUE)
    BY <1>4 DEF Create
  <2>2. family[current].pid <= Tester
    BY <1>1, <1>4 DEF Create, In, Runs
  <2>3. CASE next_pid' = next_pid
    <3>1. UNCHANGED <<max_processes, pids, records, rq>>
      BY <1>4, <2>3 DEF Create, Fail
    <3>2. \A r \in Index : Untouched(r)
      BY <3>1 DEF Untouched
    <3>3. Kinship' /\ OneStack' /\ Beliefs'
      BY <2>1, <2>2, <3>2, CreationRecord
    <3>. QED
      BY <2>3, <3>1, <3>3 DEF RecordInv, RecordTypes
  <2>4. CASE next_pid' # next_pid
    <3>1. /\ pids' = [pids EXCEPT ![rq] = next_pid]
          /\ records' = [records EXCEPT ![rq] = "RUNNING"]
          /\ Step("kill")
      BY <1>4, <2>4 DEF Create
    <3>2. next_pid' = next_pid + 1 /\ next_pid \in Pid
      <4>1. PICK fam \in [Proc -> Family] :
               \/ next_pid' = next_pid
               \/ \E p \in Proc : Birth(fam, p, FALSE, TRUE)
        BY <1>1, <2>1, CreateStep
      <4>. QED
        BY <2>4, <4>1 DEF Birth
    <3>3. /\ pids'[rq] = next_pid /\ records'[rq] = "RUNNING"
          /\ \A r \in Index \ {rq} : pids'[r] = pids[r] /\ records'[r] = records[r]
          /\ pids' \in [Index -> Pid \union {None}]
          /\ records' \in [Index -> {"KILLED", "RUNNING", "BLOCKED"}]
      BY <1>1, <1>3, <3>1, <3>2 DEF RecordInv, RecordTypes
    <3>4. \A r \in Index : Created(r) \/ Untouched(r)
      BY <3>2, <3>3 DEF Created, Untouched
    <3>5. Kinship' /\ OneStack' /\ Beliefs'
      BY <2>1, <2>2, <3>4, CreationRecord
    <3>6. rq' \in Index /\ max_processes' \in Index
      BY <3>1, TestProcessesAssumption DEF Step, RecordInv, RecordTypes, Index
    <3>7. Tester < next_pid
      BY <1>1, <1>4, PidsAreInts, CurrentRuns DEF Create, In, Runs
    <3>8. \A r \in Index : pids[r] # None => Tester < pids[r] /\ pids[r] < next_pid
      BY DEF RecordInv, RecordTypes
    <3>9. \A r \in Index : pids'[r] # None => Tester < pids'[r] /\ pids'[r] < next_pid'
      BY <1>1, <3>2, <3>3, <3>7, <3>8
    <3>10. \A r, s \in Index : pids'[r] = pids'[s] /\ pids'[r] # None => r = s
      <4>1. \A r, s \in Index : pids[r] = pids[s] /\ pids[r] # None => r = s
        BY DEF RecordInv, RecordTypes
      <4>2. \A r \in Index \ {rq} : pids'[r] = next_pid /\ pids'[r] # None => FALSE
        BY <1>1, <3>3, <3>8
      <4>. QED
        BY <3>3, <4>1, <4>2
    <3>. QED
      BY <3>3, <3>5, <3>6, <3>9, <3>10 DEF RecordInv, RecordTypes
  <2>. QED
    BY <2>3, <2>4
<1>5. CASE Kill
  <2>1. Runs(Tester) /\ records[rq] # "KILLED"
    BY <1>5 DEF Kill, In
  <2>2. PICK p \in Proc \ {Idle} : /\ family[p].pid = pids[rq]
                                   /\ get_process_by_pid(family, pids[rq]) = {p}
    BY <1>2, <2>1
  <2>3. /\ Terminate({p}, TRUE, TRUE) /\ Step("unblock") /\ pids' = pids
        /\ records' = [records EXCEPT ![rq] = "KILLED"]
    BY <1>2, <1>5, <2>1, <2>2 DEF Kill, kill_process
  <2>4. \A r \in Index : \/ records'[r] = records[r]
                         \/ records'[r] = "KILLED" /\ pids[r] = family[p].pid
    BY <1>3, <2>2, <2>3
  <2>5. /\ family[p].pid > Tester
        /\ \A r \in Index : pids[r] = family[p].pid => records'[r] = "KILLED"
    BY <1>1, <1>2, <1>3, <2>1, <2>2, <2>3 DEF RecordInv, RecordTypes
  <2>6. Kinship' /\ OneStack' /\ Beliefs' /\ next_pid' = next_pid
    BY <2>1, <2>3, <2>4, <2>5, TerminateRecord
  <2>7. RecordTypes'
    BY <1>3, <2>3, <2>6, StepKeepsTypes
  <2>. QED
    BY <2>6, <2>7 DEF RecordInv
<1>6. CASE BlockChild
  <2>1. Runs(Tester) /\ records[rq] # "KILLED"
    BY <1>6 DEF BlockChild, In
  <2>2. PICK p \in Proc \ {Idle} : /\ family[p].pid = pids[rq]
                                   /\ get_process_by_pid(family, pids[rq]) = {p}
    BY <1>2, <2>1
  <2>3. /\ block_process(pids[rq]) /\ Step("unblock") /\ pids' = pids
        /\ records' = [records EXCEPT ![rq] = "BLOCKED"]
    BY <1>2, <1>6, <2>1 DEF BlockChild
  <2>4. Effect(pcb, family) /\ frames' = frames /\ next_pid' = next_pid
    BY <1>1, <1>2, <2>1, <2>3, PlainEffect DEF PlainStep, block_process
  <2>5. \A o \in Proc \ {Idle} :
           pcb'[o].state = "BLOCKED" <=> pcb[o].state = "BLOCKED" \/ o = p
    BY <1>1, <1>2, <2>1, <2>2, <2>3, BlockStep
  <2>6. Kinship' /\ OneStack' /\ Beliefs' /\ next_pid' = next_pid
    BY <1>1, <1>2, <2>1, <2>2, <2>3, <2>4, <2>5, SleepRecord
  <2>7. RecordTypes'
    BY <1>3, <2>3, <2>6, StepKeepsTypes
  <2>. QED
    BY <2>6, <2>7 DEF RecordInv
<1>7. CASE Unblock
  <2>1. Runs(Tester) /\ records[rq] # "KILLED"
    BY <1>7 DEF Unblock, In
  <2>2. PICK p \in Proc \ {Idle} : /\ family[p].pid = pids[rq]
                                   /\ get_process_by_pid(family, pids[rq]) = {p}
    BY <1>2, <2>1
  <2>3. /\ unblock_process_of(pids[rq]) /\ Step("kill") /\ pids' = pids
        /\ records' = [records EXCEPT ![rq] = "RUNNING"]
    BY <1>7 DEF Unblock
  <2>4. Effect(pcb, family) /\ next_pid' = next_pid
    BY <1>1, <1>2, <2>1, <2>3, PlainEffect DEF PlainStep
  <2>5. /\ pcb'[p].state = "READY" /\ frames' = frames
        /\ \A o \in Proc \ {p} : pcb'[o] = pcb[o]
    BY <1>1, <2>2, <2>3, UnblockStep
  <2>6. Kinship' /\ OneStack' /\ Beliefs' /\ next_pid' = next_pid
    BY <1>1, <1>2, <2>1, <2>2, <2>3, <2>4, <2>5, SleepRecord, ZenonT(30)
  <2>7. RecordTypes'
    BY <1>3, <2>3, <2>6, StepKeepsTypes
  <2>. QED
    BY <2>6, <2>7 DEF RecordInv
<1>8. CASE Skip \/ LeaveBlocked
  <2>1. /\ UNCHANGED <<processVars, pids, records>>
        /\ \E l \in {"unblock", "create", "kill"} : Step(l)
    BY <1>8 DEF Skip, LeaveBlocked, NextRound
  <2>2. next_pid' = next_pid
    BY <2>1 DEF processVars
  <2>3. RecordTypes'
    BY <1>1, <2>1, <2>2, StepKeepsTypes
  <2>4. Kinship' /\ OneStack' /\ Beliefs'
    BY <2>1 DEF processVars, RecordInv, Kinship, OneStack, Beliefs, Agree, Condemned,
                Alive, Kin
  <2>. QED
    BY <2>3, <2>4 DEF RecordInv
<1>9. CASE ReturnError
  <2>1. PICK masked \in BOOLEAN : Terminate({current}, FALSE, masked)
    BY <1>9 DEF ReturnError, exit_current_process
  <2>2. Runs(Tester) /\ UNCHANGED <<max_processes, pids, records, rq>>
    BY <1>9 DEF ReturnError, In, testVars
  <2>3. Kinship' /\ OneStack' /\ Beliefs' /\ next_pid' = next_pid
    BY <1>1, <2>1, <2>2, CurrentRuns, TerminateRecord
  <2>. QED
    BY <2>2, <2>3 DEF RecordInv, RecordTypes
<1>. QED
  BY <1>4, <1>5, <1>6, <1>7, <1>8, <1>9 DEF TestStep

(* Every step keeps the invariant.                                         *)
LEMMA RecordNext ==
    ASSUME RecordInv, [TestNext]_allVars
    PROVE  RecordInv'
<1>1. ProcInv'
  BY TestRefines, ProcNext DEF RecordInv
<1>2. CASE UNCHANGED allVars
  BY <1>1, <1>2 DEF allVars, processVars, testVars, RecordInv, RecordTypes, Kinship,
                    OneStack, Beliefs, Agree, Condemned, Alive, Kin
<1>. QED
  BY <1>1, <1>2, OtherRecords, TestRecords DEF TestNext

(* At the start there are no children and no stacks.                       *)
LEMMA RecordBegins == ASSUME TestInit PROVE RecordInv
<1>1. /\ ProcessInit /\ max_processes \in Index /\ pids = [r \in Index |-> None]
      /\ records = [r \in Index |-> "KILLED"] /\ rq = 1
  BY DEF TestInit
<1>2. ProcInv
  BY <1>1, ProcInit
<1>3. RecordTypes
  BY <1>1, TestProcessesAssumption DEF RecordTypes, Index
<1>4. \A p \in Proc : /\ family[p].waiting_pid = None
                      /\ family[p].parent_pid = None
                      /\ frames[p] = <<>>
  <2>1. family = [[p \in Proc |-> Released] EXCEPT ![Idle].pid = 0]
    BY <1>1 DEF ProcessInit
  <2>2. \A p \in Proc : \/ family[p] = Released
                        \/ family[p] = [Released EXCEPT !.pid = 0]
    BY <2>1
  <2>3. Released.waiting_pid = None /\ Released.parent_pid = None
    BY DEF Released
  <2>4. /\ [Released EXCEPT !.pid = 0].waiting_pid = None
        /\ [Released EXCEPT !.pid = 0].parent_pid = None
    BY DEF Released
  <2>. QED
    BY <1>1, <2>2, <2>3, <2>4 DEF ProcessInit
<1>5. Kinship
  BY <1>2, <1>4, PidsAreInts DEF Kinship, Kin
<1>6. OneStack
  BY <1>4 DEF OneStack
<1>7. Beliefs
  BY <1>1 DEF Beliefs
<1>. QED
  BY <1>2, <1>3, <1>5, <1>6, <1>7 DEF RecordInv

(* With no kernel work nobody is condemned, and the beliefs are the table. *)
LEMMA RecordIsRight == ASSUME RecordInv PROVE RecordIsTheTable
<1> SUFFICES ASSUME NoKernelWork, NEW r \in Index
             PROVE  /\ records[r] = "KILLED" <=> ~ IsAlive(pids[r])
                    /\ records[r] = "BLOCKED" <=>
                         \E p \in get_process_by_pid(family, pids[r]) :
                            pcb[p].state = "BLOCKED"
  BY DEF RecordIsTheTable
<1>1. \A p \in Proc : ~ Condemned(p)
  BY DEF NoKernelWork, Condemned
<1>2. \A p \in get_process_by_pid(family, pids[r]) : p \in Proc /\ family[p].pid = pids[r]
  BY DEF get_process_by_pid
<1>3. CASE pids[r] = None
  <2>1. records[r] = "KILLED"
    BY <1>3, ChildIsFound
  <2>2. \A p \in get_process_by_pid(family, pids[r]) : pcb[p].state = "TERMINATED"
    BY <1>2, <1>3 DEF RecordInv, ProcInv, TableInv, Alive
  <2>. QED
    BY <2>1, <2>2 DEF IsAlive, Alive
<1>4. CASE pids[r] # None
  <2>1. \A p \in get_process_by_pid(family, pids[r]) : Agree(r, p)
    BY <1>2, <1>4 DEF RecordInv, Beliefs
  <2>2. records[r] # "KILLED" => \E p \in get_process_by_pid(family, pids[r]) : Alive(p)
    BY ChildIsFound
  <2>3. records[r] \in {"KILLED", "RUNNING", "BLOCKED"}
    BY DEF RecordInv, RecordTypes
  <2>4. \A p \in get_process_by_pid(family, pids[r]) :
           /\ Alive(p) <=> records[r] # "KILLED"
           /\ pcb[p].state = "BLOCKED" <=> records[r] = "BLOCKED"
    BY <1>1, <1>2, <2>1 DEF Agree
  <2>. QED
    BY <2>2, <2>4 DEF IsAlive
<1>. QED
  BY <1>3, <1>4

(* What test_process has down of its children is what the process table    *)
(* says of them whenever the kernel has done what it was asked, for any    *)
(* number of children and wherever the timer comes in: nothing but the     *)
(* calls of the test puts them to sleep, wakes them or ends them, reaping  *)
(* and the reuse of slots do not mix them up, and a kill ends its target.  *)
THEOREM RecordsAreTrue == TestSpec => []RecordIsTheTable
<1>1. RecordInv /\ [TestNext]_allVars => RecordInv'
  BY RecordNext
<1>2. TestInit => RecordInv
  BY RecordBegins
<1>3. RecordInv => RecordIsTheTable
  BY RecordIsRight
<1>. QED
  BY <1>1, <1>2, <1>3, PTL DEF TestSpec

=============================================================================
