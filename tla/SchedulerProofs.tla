--------------------------- MODULE SchedulerProofs ---------------------------
(***************************************************************************)
(* Proofs about Scheduler, for every number of processes, every priority   *)
(* range, every ageing parameter and every table of time slices.           *)
(*                                                                         *)
(* The inductive invariant Inv says that the queue is exactly the set of   *)
(* READY processes and that the process on the CPU is the RUNNING one.     *)
(* Handlers compute a table t and a queue q before they reach schedule(),  *)
(* when the first half holds of t and q and the second may not: Consistent *)
(* is that first half, for a table and a queue that are not yet stored.    *)
(***************************************************************************)
EXTENDS Scheduler, SequenceTheorems, FiniteSetTheorems, TLAPS

Queued(q, p) == \E i \in DOMAIN q : q[i] = p

Consistent(t, q) ==
    /\ t \in [Proc -> PCB]
    /\ q \in Seq(Proc)
    /\ \A i, j \in DOMAIN q : q[i] = q[j] => i = j
    /\ \A p \in Proc : t[p].state = "READY" <=> Queued(q, p)

Inv ==
    /\ Consistent(pcb, ready_queue)
    /\ current \in Proc
    /\ OnlyCurrentRuns

-----------------------------------------------------------------------------
(* Sequences *)

(* Removing the element at index i keeps the others in order. *)
LEMMA RemoveAtProperties ==
    ASSUME NEW S, NEW s \in Seq(S), NEW i \in 1 .. Len(s)
    PROVE  /\ RemoveAt(s, i) \in Seq(S)
           /\ Len(RemoveAt(s, i)) = Len(s) - 1
           /\ \A j \in 1 .. Len(s) - 1 :
                 RemoveAt(s, i)[j] = IF j < i THEN s[j] ELSE s[j + 1]
<1> DEFINE a == SubSeq(s, 1, i - 1)
           b == SubSeq(s, i + 1, Len(s))
<1>0. Len(s) \in Nat /\ \A k \in 1 .. Len(s) : s[k] \in S
  BY ElementOfSeq, LenProperties
<1>1. /\ a \in Seq(S)
      /\ Len(a) = i - 1
      /\ \A j \in 1 .. i - 1 : a[j] = s[j]
  <2>1. \A k \in 1 .. i - 1 : s[k] \in S
    BY <1>0
  <2>2. 1 \in Int /\ i - 1 \in Int
    BY <1>0
  <2>. QED
    BY <1>0, <2>1, <2>2, SubSeqProperties
<1>2. /\ b \in Seq(S)
      /\ Len(b) = Len(s) - i
      /\ \A j \in 1 .. Len(s) - i : b[j] = s[i + j]
  <2>1. \A k \in i + 1 .. Len(s) : s[k] \in S
    BY <1>0
  <2>2. i + 1 \in Int /\ Len(s) \in Int
    BY <1>0
  <2>. QED
    BY <1>0, <2>1, <2>2, SubSeqProperties
<1>3. /\ a \o b \in Seq(S)
      /\ Len(a \o b) = Len(a) + Len(b)
      /\ \A j \in 1 .. Len(a) + Len(b) :
            (a \o b)[j] = IF j <= Len(a) THEN a[j] ELSE b[j - Len(a)]
  <2>. HIDE DEF a, b
  <2>. QED
    BY <1>1, <1>2, ConcatProperties
<1>4. RemoveAt(s, i) = a \o b
  BY DEF RemoveAt
<1>. HIDE DEF a, b
<1>5. ASSUME NEW j \in 1 .. Len(s) - 1
      PROVE  (a \o b)[j] = IF j < i THEN s[j] ELSE s[j + 1]
  <2>1. CASE j < i
    BY <1>0, <1>1, <1>2, <1>3, <2>1
  <2>2. CASE ~ (j < i)
    <3>1. /\ j - Len(a) \in 1 .. Len(s) - i
          /\ i + (j - Len(a)) = j + 1
          /\ j \in 1 .. Len(a) + Len(b)
          /\ ~ (j <= Len(a))
      BY <1>0, <1>1, <1>2, <2>2
    <3>2. (a \o b)[j] = b[j - Len(a)]
      BY <1>3, <3>1
    <3>3. b[j - Len(a)] = s[j + 1]
      BY <1>2, <3>1
    <3>. QED
      BY <2>2, <3>2, <3>3
  <2>. QED
    BY <2>1, <2>2
<1>. QED
  BY <1>0, <1>1, <1>2, <1>3, <1>4, <1>5

(* In a sequence without repetitions, RemoveFirst finds its element. *)
LEMMA RemoveFirstProperties ==
    ASSUME NEW S, NEW s \in Seq(S), NEW e, NEW k \in 1 .. Len(s), s[k] = e,
           \A i, j \in DOMAIN s : s[i] = s[j] => i = j
    PROVE  RemoveFirst(s, e) = RemoveAt(s, k)
<1>1. DOMAIN s = 1 .. Len(s) /\ Len(s) \in Nat
  BY LenProperties
<1>2. {i \in 1 .. Len(s) : s[i] = e} = {k}
  BY <1>1
<1>3. Min({k}) = k
  BY DEF Min
<1>4. SelectInSeq(s, LAMBDA v : v = e) = k
  BY <1>2, <1>3 DEF SelectInSeq
<1>. QED
  BY <1>4 DEF RemoveFirst

-----------------------------------------------------------------------------
(* What the handlers do to the queue *)

(* A consistent queue is never full while some process is not READY: the    *)
(* queue maps its indices one to one into the other slots.                  *)
LEMMA RoomForOthers ==
    ASSUME NEW t, NEW q, Consistent(t, q),
           NEW c \in Proc, t[c].state # "READY"
    PROVE  /\ Len(q) \in Nat
           /\ Len(q) < MAX_PROCESSES
           /\ ~ IsFull(q)
<1> USE SchedulerAssumption
<1>1. /\ Len(q) \in Nat
      /\ DOMAIN q = 1 .. Len(q)
      /\ \A i \in 1 .. Len(q) : q[i] \in Proc
  BY ElementOfSeq, LenProperties DEF Consistent
<1>2. \A i \in 1 .. Len(q) : q[i] # c
  BY <1>1 DEF Consistent, Queued
<1>3. /\ IsFiniteSet(Proc)
      /\ Cardinality(Proc) = MAX_PROCESSES
  <2>1. 0 \in Int /\ MAX_PROCESSES - 1 \in Int /\ MAX_PROCESSES > 0
    OBVIOUS
  <2>2. Cardinality(0 .. MAX_PROCESSES - 1)
           = IF 0 > MAX_PROCESSES - 1 THEN 0 ELSE MAX_PROCESSES - 1 - 0 + 1
    BY <2>1, FS_Interval, Zenon
  <2>3. IsFiniteSet(0 .. MAX_PROCESSES - 1)
    BY <2>1, FS_Interval
  <2>. QED
    BY <2>1, <2>2, <2>3 DEF Proc
<1>4. /\ IsFiniteSet(Proc \ {c})
      /\ Cardinality(Proc \ {c}) = MAX_PROCESSES - 1
  BY <1>3, FS_RemoveElement
<1>5. q \in Injection(1 .. Len(q), Proc \ {c})
  <2>1. q \in [1 .. Len(q) -> Proc]
    BY <1>1, LenProperties DEF Consistent
  <2>2. q \in [1 .. Len(q) -> Proc \ {c}]
    BY <2>1, <1>2
  <2>3. IsInjective(q)
    BY <1>1 DEF Consistent, IsInjective
  <2>. QED
    BY <2>2, <2>3 DEF Injection
<1>6. Cardinality(1 .. Len(q)) <= Cardinality(Proc \ {c})
  BY <1>4, <1>5, FS_Injection
<1>7. Cardinality(1 .. Len(q)) = Len(q)
  <2>1. 1 \in Int /\ Len(q) \in Int
    BY <1>1
  <2>2. Cardinality(1 .. Len(q)) = IF 1 > Len(q) THEN 0 ELSE Len(q) - 1 + 1
    BY <2>1, FS_Interval, Zenon
  <2>. QED
    BY <1>1, <2>2
<1>. QED
  BY <1>1, <1>4, <1>6, <1>7 DEF IsFull

(* add_to_ready_queue of a process that becomes READY. *)
LEMMA AddConsistent ==
    ASSUME NEW t, NEW q, Consistent(t, q), NEW p \in Proc,
           t[p].state # "READY",
           NEW u \in [Proc -> PCB], u[p].state = "READY",
           \A o \in Proc \ {p} : u[o].state = "READY" <=> t[o].state = "READY"
    PROVE  Consistent(u, add_to_ready_queue(q, p))
<1>1. add_to_ready_queue(q, p) = Append(q, p)
  BY RoomForOthers DEF add_to_ready_queue
<1>2. /\ Len(q) \in Nat
      /\ DOMAIN q = 1 .. Len(q)
      /\ \A i \in 1 .. Len(q) : q[i] \in Proc
      /\ q \in Seq(Proc)
  BY ElementOfSeq, LenProperties DEF Consistent
<1> DEFINE r == Append(q, p)
<1>3. /\ r \in Seq(Proc)
      /\ Len(r) = Len(q) + 1
      /\ DOMAIN r = 1 .. Len(q) + 1
      /\ \A i \in 1 .. Len(q) : r[i] = q[i]
      /\ r[Len(q) + 1] = p
  BY <1>2, AppendProperties, LenProperties
<1>4. \A i \in 1 .. Len(q) : q[i] # p
  BY <1>2 DEF Consistent, Queued
<1> HIDE DEF r
<1>5. \A i, j \in DOMAIN r : r[i] = r[j] => i = j
  BY <1>2, <1>3, <1>4 DEF Consistent
<1>6. ASSUME NEW o \in Proc
      PROVE  u[o].state = "READY" <=> Queued(r, o)
  <2>1. CASE o = p
    BY <1>2, <1>3, <2>1 DEF Queued
  <2>2. CASE o # p
    <3>1. Queued(r, o) <=> Queued(q, o)
      BY <1>2, <1>3, <2>2 DEF Queued
    <3>. QED
      BY <2>2, <3>1 DEF Consistent
  <2>. QED
    BY <2>1, <2>2
<1>. QED
  BY <1>1, <1>3, <1>5, <1>6 DEF Consistent, r

(* Taking out the process at index k, when it is READY no more. *)
LEMMA TakeConsistent ==
    ASSUME NEW t, NEW q, Consistent(t, q), NEW k \in DOMAIN q,
           NEW u \in [Proc -> PCB], u[q[k]].state # "READY",
           \A o \in Proc \ {q[k]} : u[o].state = "READY" <=> t[o].state = "READY"
    PROVE  Consistent(u, RemoveAt(q, k))
<1>1. /\ Len(q) \in Nat
      /\ DOMAIN q = 1 .. Len(q)
      /\ \A i \in 1 .. Len(q) : q[i] \in Proc
      /\ q \in Seq(Proc)
  BY ElementOfSeq, LenProperties DEF Consistent
<1> DEFINE r == RemoveAt(q, k)
<1>2. /\ r \in Seq(Proc)
      /\ Len(r) = Len(q) - 1
      /\ \A j \in 1 .. Len(q) - 1 : r[j] = IF j < k THEN q[j] ELSE q[j + 1]
  <2>1. k \in 1 .. Len(q) /\ q \in Seq(Proc)
    BY <1>1
  <2>. QED
    BY <2>1, RemoveAtProperties, Zenon
<1>3. DOMAIN r = 1 .. Len(q) - 1
  BY <1>2, LenProperties
<1> HIDE DEF r
<1>4. \A i, j \in DOMAIN r : r[i] = r[j] => i = j
  BY <1>1, <1>2, <1>3 DEF Consistent
<1>5. ASSUME NEW o \in Proc, o # q[k]
      PROVE  Queued(r, o) <=> Queued(q, o)
  <2>1. ASSUME NEW i \in DOMAIN r, r[i] = o
        PROVE  Queued(q, o)
    <3>1. i \in DOMAIN q /\ i + 1 \in DOMAIN q /\ (q[i] = o \/ q[i + 1] = o)
      BY <1>1, <1>2, <1>3, <2>1
    <3>. QED
      BY <3>1 DEF Queued
  <2>2. ASSUME NEW i \in DOMAIN q, q[i] = o
        PROVE  Queued(r, o)
    <3>1. CASE i < k
      BY <1>1, <1>2, <1>3, <2>2, <3>1 DEF Queued
    <3>2. CASE i > k
      <4>1. i - 1 \in DOMAIN r /\ r[i - 1] = q[i]
        BY <1>1, <1>2, <1>3, <3>2
      <4>. QED
        BY <2>2, <4>1 DEF Queued
    <3>. QED
      BY <1>1, <1>5, <2>2, <3>1, <3>2
  <2>. QED
    BY <2>1, <2>2 DEF Queued
<1>6. ~ Queued(r, q[k])
  <2>1. ASSUME NEW i \in DOMAIN r, r[i] = q[k]
        PROVE  FALSE
    <3>1. /\ i \in DOMAIN q /\ i + 1 \in DOMAIN q
          /\ r[i] = IF i < k THEN q[i] ELSE q[i + 1]
      BY <1>1, <1>2, <1>3
    <3>2. i \in Nat /\ k \in Nat
      BY <1>1, <3>1
    <3>3. CASE i < k
      <4>1. q[i] = q[k]
        BY <2>1, <3>1, <3>3
      <4>2. i = k
        BY <3>1, <4>1 DEF Consistent
      <4>. QED
        BY <3>2, <3>3, <4>2
    <3>4. CASE ~ (i < k)
      <4>1. q[i + 1] = q[k]
        BY <2>1, <3>1, <3>4
      <4>2. i + 1 = k
        BY <3>1, <4>1 DEF Consistent
      <4>. QED
        BY <3>2, <3>4, <4>2
    <3>. QED
      BY <3>3, <3>4
  <2>. QED
    BY <2>1 DEF Queued
<1>7. \A o \in Proc : u[o].state = "READY" <=> Queued(r, o)
  BY <1>1, <1>5, <1>6 DEF Consistent
<1>. QED
  BY <1>2, <1>4, <1>7 DEF Consistent, r

(* removeFromScheduler of a process that is READY no more, queued or not. *)
LEMMA RemoveConsistent ==
    ASSUME NEW t, NEW q, Consistent(t, q), NEW p \in Proc,
           NEW u \in [Proc -> PCB], u[p].state # "READY",
           \A o \in Proc \ {p} : u[o].state = "READY" <=> t[o].state = "READY"
    PROVE  Consistent(u, removeFromScheduler(q, p))
<1>1. q \in Seq(Proc) /\ DOMAIN q = 1 .. Len(q)
  BY LenProperties DEF Consistent
<1>2. CASE Queued(q, p)
  <2>1. PICK k \in DOMAIN q : q[k] = p
    BY <1>2 DEF Queued
  <2>2. removeFromScheduler(q, p) = RemoveAt(q, k)
    BY <1>1, <2>1, RemoveFirstProperties DEF Consistent, removeFromScheduler
  <2>. QED
    BY <2>1, <2>2, TakeConsistent
<1>3. CASE ~ Queued(q, p)
  <2>1. removeFromScheduler(q, p) = q
    BY <1>1, <1>3 DEF removeFromScheduler, RemoveFirst, Queued
  <2>. QED
    BY <1>3, <2>1 DEF Consistent
<1>. QED
  BY <1>2, <1>3

(* A change that makes nobody READY and nobody cease to be. *)
LEMMA UpdateConsistent ==
    ASSUME NEW t, NEW q, Consistent(t, q), NEW u \in [Proc -> PCB],
           \A o \in Proc : u[o].state = "READY" <=> t[o].state = "READY"
    PROVE  Consistent(u, q)
  BY DEF Consistent

-----------------------------------------------------------------------------
(* schedule() *)

LEMMA PCBFields ==
    ASSUME NEW r \in PCB
    PROVE  /\ r.state \in State
           /\ r.priority \in Priority
           /\ r.base_priority \in Priority
           /\ r.saved_priority \in Priority
           /\ r.boost \in BOOLEAN
           /\ r.scheduler_counter \in 0 .. MaxSlice
           /\ r.waiting_ticks \in 0 .. AGING_THRESHOLD - 1
  BY DEF PCB

(* Whatever a handler writes into a PCB, it stays one. *)
LEMMA PCBUpdate ==
    ASSUME NEW r \in PCB, NEW s \in State
    PROVE  /\ [r EXCEPT !.state = s] \in PCB
           /\ [r EXCEPT !.state = s, !.waiting_ticks = 0] \in PCB
           /\ [r EXCEPT !.state = s, !.scheduler_counter = 0, !.waiting_ticks = 0] \in PCB
           /\ [r EXCEPT !.state = s, !.scheduler_counter = Bump(@),
                        !.waiting_ticks = 0, !.priority = r.base_priority] \in PCB
           /\ [r EXCEPT !.scheduler_counter = Bump(@)] \in PCB
<1>1. Bump(r.scheduler_counter) \in 0 .. MaxSlice
  BY SchedulerAssumption DEF PCB, Bump
<1>2. 0 \in 0 .. AGING_THRESHOLD - 1 /\ 0 \in 0 .. MaxSlice
  BY SchedulerAssumption
<1>. QED
  BY <1>1, <1>2 DEF PCB

(* A free slot is of the type of the table.                                *)
LEMMA FreeSlotType == FreeSlot \in PCB /\ FreeSlot.state = "TERMINATED"
  BY SchedulerAssumption DEF FreeSlot, PCB, State, Priority, MIN_PRIORITY

(* Ageing touches neither the state nor the type of a process. *)
LEMMA AgedType ==
    ASSUME NEW r \in PCB
    PROVE  Aged(r) \in PCB /\ Aged(r).state = r.state
<1>1. MIN_PRIORITY \in Priority /\ 0 \in 0 .. AGING_THRESHOLD - 1
  BY SchedulerAssumption DEF Priority, MIN_PRIORITY
<1>2. r.priority > AGING_STEP => r.priority - AGING_STEP \in Priority
  BY SchedulerAssumption, PCBFields DEF Priority, MIN_PRIORITY
<1>3. ~ (r.waiting_ticks + 1 >= AGING_THRESHOLD)
        => r.waiting_ticks + 1 \in 0 .. AGING_THRESHOLD - 1
  BY SchedulerAssumption, PCBFields
<1>. QED
  BY <1>1, <1>2, <1>3 DEF Aged, PCB

(* Ageing keeps the queue the READY set.                                   *)
LEMMA AgingConsistent ==
    ASSUME NEW t, NEW q, Consistent(t, q)
    PROVE  /\ Consistent(apply_aging_to_ready_processes(t, q), q)
           /\ \A p \in Proc : apply_aging_to_ready_processes(t, q)[p].state = t[p].state
<1> DEFINE u == apply_aging_to_ready_processes(t, q)
<1>1. \A p \in Proc : u[p] \in PCB /\ u[p].state = t[p].state
  BY AgedType DEF Consistent, apply_aging_to_ready_processes
<1>2. u \in [Proc -> PCB]
  BY <1>1 DEF apply_aging_to_ready_processes
<1>. HIDE DEF u
<1>3. Consistent(u, q)
  BY <1>1, <1>2, UpdateConsistent
<1>. QED
  BY <1>1, <1>3 DEF u

(* Giving the CPU to p when nobody else runs. *)
LEMMA DispatchProperties ==
    ASSUME NEW t \in [Proc -> PCB], NEW q, NEW p \in Proc,
           \A o \in Proc \ {p} : t[o].state # "RUNNING",
           Dispatch(t, q, p)
    PROVE  /\ pcb' \in [Proc -> PCB]
           /\ pcb'[p].state = "RUNNING"
           /\ \A o \in Proc \ {p} : pcb'[o].state = t[o].state
           /\ ready_queue' = q
           /\ current' = p
           /\ OnlyCurrentRuns'
<1> DEFINE r == [t[p] EXCEPT !.state = "RUNNING", !.scheduler_counter = Bump(@),
                             !.waiting_ticks = 0, !.priority = t[p].base_priority]
<1>1. /\ pcb' = [t EXCEPT ![p] = r]
      /\ ready_queue' = q
      /\ current' = p
  BY DEF Dispatch, PCB
<1>2. r \in PCB /\ r.state = "RUNNING"
  <2>1. t[p] \in PCB /\ "RUNNING" \in State
    BY DEF State
  <2>2. r \in PCB
    BY <2>1, PCBUpdate
  <2>. QED
    BY <2>1, <2>2 DEF PCB
<1>. HIDE DEF r
<1>3. /\ pcb' \in [Proc -> PCB]
      /\ pcb'[p].state = "RUNNING"
      /\ \A o \in Proc \ {p} : pcb'[o].state = t[o].state
  BY <1>1, <1>2
<1>4. OnlyCurrentRuns'
  BY <1>1, <1>3 DEF OnlyCurrentRuns
<1>. QED
  BY <1>1, <1>3, <1>4

(* When nobody runs, the choice of the next process restores Inv.          *)
LEMMA SwitchInv ==
    ASSUME NEW t, NEW q, Consistent(t, q),
           \A o \in Proc : t[o].state # "RUNNING",
           Switch(t, q)
    PROVE  Inv'
<1>0. /\ t \in [Proc -> PCB] /\ q \in Seq(Proc)
      /\ DOMAIN q = 1 .. Len(q)
      /\ \A i \in DOMAIN q : q[i] \in Proc /\ t[q[i]].state = "READY"
  BY ElementOfSeq, LenProperties DEF Consistent, Queued
<1>1. ASSUME NEW i \in DOMAIN q, Dispatch(t, RemoveAt(q, i), q[i])
      PROVE  Inv'
  <2>1. /\ pcb' \in [Proc -> PCB]
        /\ pcb'[q[i]].state = "RUNNING"
        /\ \A o \in Proc \ {q[i]} : pcb'[o].state = t[o].state
        /\ ready_queue' = RemoveAt(q, i)
        /\ current' = q[i]
        /\ OnlyCurrentRuns'
    BY <1>0, <1>1, DispatchProperties
  <2>2. Consistent(pcb', RemoveAt(q, i))
    BY <2>1, TakeConsistent
  <2>. QED
    BY <1>0, <2>1, <2>2 DEF Inv, Consistent, Queued
<1>2. ASSUME \A i \in DOMAIN q : t[q[i]].state = "TERMINATED",
             Dispatch(t, <<>>, Idle)
      PROVE  Inv'
  <2>1. DOMAIN q = {}
    BY <1>0, <1>2
  <2>2. Idle \in Proc
    BY SchedulerAssumption DEF Idle, Proc
  <2>3. /\ pcb' \in [Proc -> PCB]
        /\ pcb'[Idle].state = "RUNNING"
        /\ \A o \in Proc \ {Idle} : pcb'[o].state = t[o].state
        /\ ready_queue' = <<>>
        /\ current' = Idle
        /\ OnlyCurrentRuns'
    BY <1>0, <1>2, <2>2, DispatchProperties
  <2>4. \A o \in Proc : pcb'[o].state # "READY"
    BY <2>1, <2>3 DEF Consistent, Queued
  <2>5. Consistent(pcb', <<>>)
    BY <2>3, <2>4, EmptySeq DEF Consistent, Queued
  <2>. QED
    BY <2>2, <2>3, <2>5 DEF Inv, Consistent, Queued
<1>. QED
  BY <1>1, <1>2 DEF Switch

(* The preempted process joins the queue as a READY one. *)
LEMMA PreemptedConsistent ==
    ASSUME NEW t, NEW q, Consistent(t, q), current \in Proc,
           t[current].state # "READY"
    PROVE  /\ Consistent(Preempted(t, q), QueueAfterPreemption(t, q))
           /\ Preempted(t, q)[current].state # "RUNNING"
           /\ \A o \in Proc \ {current} : Preempted(t, q)[o] = t[o]
<1>0. t \in [Proc -> PCB] /\ ~ IsFull(q)
  BY RoomForOthers DEF Consistent
<1>1. CASE t[current].state # "RUNNING"
  BY <1>1 DEF Preempted, QueueAfterPreemption
<1>2. CASE t[current].state = "RUNNING"
  <2> DEFINE r == [t[current] EXCEPT !.state = "READY",
                      !.scheduler_counter = 0, !.waiting_ticks = 0]
             u == Preempted(t, q)
  <2>1. r \in PCB /\ r.state = "READY"
    <3>1. t[current] \in PCB /\ "READY" \in State
      BY <1>0 DEF State
    <3>2. r \in PCB
      BY <3>1, PCBUpdate
    <3>. QED
      BY <3>1, <3>2 DEF PCB
  <2>2. /\ u = [t EXCEPT ![current] = r]
        /\ QueueAfterPreemption(t, q) = add_to_ready_queue(q, current)
    BY <1>0, <1>2 DEF Preempted, QueueAfterPreemption
  <2>. HIDE DEF r, u
  <2>3. /\ u \in [Proc -> PCB]
        /\ u[current].state = "READY"
        /\ \A o \in Proc \ {current} : u[o] = t[o]
    BY <1>0, <2>1, <2>2
  <2>4. \A o \in Proc \ {current} : u[o].state = "READY" <=> t[o].state = "READY"
    BY <2>3
  <2>5. Consistent(u, add_to_ready_queue(q, current))
    BY <1>2, <2>3, <2>4, AddConsistent
  <2>. QED
    BY <2>2, <2>3, <2>5 DEF u
<1>. QED
  BY <1>1, <1>2

(* schedule() restores the invariant from any table and queue that agree on *)
(* who is READY and in which nobody but the current process may be RUNNING. *)
LEMMA ScheduleInv ==
    ASSUME NEW t, NEW q, Consistent(t, q), current \in Proc,
           \A o \in Proc \ {current} : t[o].state # "RUNNING",
           t[current].state # "READY",
           Schedule(t, q)
    PROVE  Inv'
<1>0. t \in [Proc -> PCB] /\ ~ IsFull(q)
  BY RoomForOthers DEF Consistent
<1>1. CASE Continues(t)
  <2>1. KeepRunning(t, q)
    BY <1>1 DEF Schedule
  <2> DEFINE r == [t[current] EXCEPT !.scheduler_counter = Bump(@)]
  <2>2. r \in PCB /\ r.state = "RUNNING"
    <3>1. t[current] \in PCB /\ "RUNNING" \in State
      BY <1>0 DEF State
    <3>2. r \in PCB
      BY <3>1, PCBUpdate
    <3>. QED
      BY <1>1, <3>1, <3>2 DEF Continues, PCB
  <2>3. /\ pcb' = [t EXCEPT ![current] = r]
        /\ ready_queue' = q
        /\ current' = current
    BY <2>1 DEF KeepRunning
  <2>. HIDE DEF r
  <2>4. /\ pcb' \in [Proc -> PCB]
        /\ \A o \in Proc : pcb'[o].state = t[o].state
    BY <1>0, <1>1, <2>2, <2>3 DEF Continues
  <2>5. Consistent(pcb', q)
    BY <2>4, UpdateConsistent
  <2>6. OnlyCurrentRuns'
    BY <1>1, <2>3, <2>4 DEF OnlyCurrentRuns, Continues
  <2>. QED
    BY <2>3, <2>5, <2>6 DEF Inv, Consistent, Queued
<1>2. CASE ~ Continues(t)
  <2> DEFINE q1 == QueueAfterPreemption(t, q)
             t0 == Preempted(t, q)
             t1 == apply_aging_to_ready_processes(t0, q1)
  <2>1. Switch(t1, q1)
    BY <1>2 DEF Schedule
  <2>2. Consistent(t0, q1) /\ \A o \in Proc : t0[o].state # "RUNNING"
    BY PreemptedConsistent
  <2>. HIDE DEF t0, q1
  <2>3. Consistent(t1, q1) /\ \A o \in Proc : t1[o].state # "RUNNING"
    BY <2>2, AgingConsistent
  <2>. HIDE DEF t1
  <2>. QED
    BY <2>1, <2>3, SwitchInv
<1>. QED
  BY <1>1, <1>2

-----------------------------------------------------------------------------
(* The invariant is inductive: one lemma per handler. *)

(* A handler that leaves the CPU alone: the current process stays RUNNING,  *)
(* nobody else starts to.                                                   *)
LEMMA ReturnInv ==
    ASSUME NEW t, NEW q, Consistent(t, q), Inv,
           \A o \in Proc : t[o].state = "RUNNING" <=> pcb[o].state = "RUNNING",
           Return(t, q)
    PROVE  Inv'
<1>1. /\ pcb' = t
      /\ ready_queue' = q
      /\ current' = current
  BY DEF Return
<1>2. OnlyCurrentRuns'
  BY <1>1 DEF Inv, OnlyCurrentRuns
<1>. QED
  BY <1>1, <1>2 DEF Inv, Consistent, Queued

(* The boot context runs and the queue is empty.                           *)
LEMMA InitInv == SchedulerInit => Inv
<1> SUFFICES ASSUME SchedulerInit PROVE Inv
  OBVIOUS
<1>1. Idle \in Proc
  BY SchedulerAssumption DEF Idle, Proc
<1>2. \A p \in Proc : /\ pcb[p] \in PCB
                      /\ pcb[p].state = IF p = Idle THEN "RUNNING" ELSE "TERMINATED"
  <2>1. [FreeSlot EXCEPT !.state = "RUNNING"] \in PCB
    BY FreeSlotType, PCBUpdate DEF State
  <2>2. [FreeSlot EXCEPT !.state = "RUNNING"].state = "RUNNING"
    BY DEF FreeSlot
  <2>. QED
    BY <2>1, <2>2, FreeSlotType DEF SchedulerInit
<1>3. pcb \in [Proc -> PCB]
  BY <1>2 DEF SchedulerInit
<1>4. Consistent(pcb, ready_queue)
  BY <1>2, <1>3, EmptySeq DEF SchedulerInit, Consistent, Queued
<1>. QED
  BY <1>1, <1>2, <1>4 DEF SchedulerInit, Inv, OnlyCurrentRuns

(* The timer keeps Inv.                                                    *)
LEMMA TickInv ==
    ASSUME Inv, Tick PROVE Inv'
  BY ScheduleInv DEF Inv, OnlyCurrentRuns, Tick

(* Boosting and unboosting touch neither the state nor the type. *)
LEMMA BoostType ==
    ASSUME NEW r \in PCB
    PROVE  /\ Boosted(r) \in PCB /\ Boosted(r).state = r.state
           /\ Unboosted(r) \in PCB /\ Unboosted(r).state = r.state
<1>1. MIN_PRIORITY \in Priority
  BY SchedulerAssumption DEF Priority, MIN_PRIORITY
<1>. QED
  BY <1>1 DEF Boosted, Unboosted, PCB

(* So the foreground calls keep the queue the READY set,                   *)
LEMMA ForegroundConsistent ==
    ASSUME NEW t, NEW q, Consistent(t, q), NEW p
    PROVE  /\ Consistent(WithForeground(t, p), q)
           /\ Consistent(release_foreground_owner(t), q)
           /\ \A o \in Proc : WithForeground(t, p)[o].state = t[o].state
           /\ \A o \in Proc : release_foreground_owner(t)[o].state = t[o].state
<1> DEFINE u == WithForeground(t, p)
           v == release_foreground_owner(t)
<1>1. \A o \in Proc : u[o] \in PCB /\ u[o].state = t[o].state
  BY BoostType DEF Consistent, WithForeground
<1>2. \A o \in Proc : v[o] \in PCB /\ v[o].state = t[o].state
  BY BoostType DEF Consistent, release_foreground_owner
<1>3. u \in [Proc -> PCB] /\ v \in [Proc -> PCB]
  BY <1>1, <1>2 DEF WithForeground, release_foreground_owner
<1>. HIDE DEF u, v
<1>4. Consistent(u, q) /\ Consistent(v, q)
  BY <1>1, <1>2, <1>3, UpdateConsistent
<1>. QED
  BY <1>1, <1>2, <1>4 DEF u, v

(* and Inv.                                                                *)
LEMMA ForegroundInv ==
    ASSUME Inv, \/ clear_foreground_process
                \/ \E p \in Proc : set_foreground_process(p)
    PROVE  Inv'
<1>1. CASE clear_foreground_process
  BY <1>1, ForegroundConsistent, ReturnInv DEF Inv, clear_foreground_process
<1>2. ASSUME NEW p \in Proc, set_foreground_process(p)
      PROVE  Inv'
  BY <1>2, ForegroundConsistent, ReturnInv DEF Inv, set_foreground_process
<1>. QED
  BY <1>1, <1>2

(* A new process keeps Inv.                                                *)
LEMMA AdmitInv ==
    ASSUME Inv, NEW p \in Proc, NEW prio \in Priority, NEW fg \in BOOLEAN,
           Admit(p, prio, fg)
    PROVE  Inv'
<1> DEFINE t == [pcb EXCEPT ![p] = NewProcess(prio)]
           q == add_to_ready_queue(ready_queue, p)
<1>1. NewProcess(prio) \in PCB /\ NewProcess(prio).state = "READY"
  BY SchedulerAssumption, FreeSlotType DEF NewProcess, FreeSlot, PCB, State
<1>2. pcb[p].state = "TERMINATED"
  BY DEF Admit
<1>3. /\ t \in [Proc -> PCB]
      /\ t[p].state = "READY"
      /\ \A o \in Proc \ {p} : t[o].state = pcb[o].state
  BY <1>1 DEF Inv, Consistent
<1>4. Return(IF fg THEN WithForeground(t, p) ELSE t, q)
  BY DEF Admit
<1>. HIDE DEF t
<1>5. Consistent(t, q)
  BY <1>2, <1>3, AddConsistent DEF Inv
<1>. HIDE DEF q
<1>6. \A o \in Proc : t[o].state = "RUNNING" <=> pcb[o].state = "RUNNING"
  BY <1>2, <1>3
<1>7. CASE fg
  <2>1. /\ Consistent(WithForeground(t, p), q)
        /\ \A o \in Proc : WithForeground(t, p)[o].state = t[o].state
    BY <1>5, ForegroundConsistent
  <2>. QED
    BY <1>4, <1>6, <1>7, <2>1, ReturnInv
<1>8. CASE ~ fg
  BY <1>4, <1>5, <1>6, <1>8, ReturnInv
<1>. QED
  BY <1>7, <1>8

(* Taking p off the queue and writing a state that is neither READY nor     *)
(* RUNNING into its slot, then scheduling if p had the CPU.                 *)
LEMMA LeaveInv ==
    ASSUME Inv, NEW p \in Proc, NEW r \in PCB,
           r.state \notin {"READY", "RUNNING"},
           IF p = current
           THEN Schedule([pcb EXCEPT ![p] = r], removeFromScheduler(ready_queue, p))
           ELSE Return([pcb EXCEPT ![p] = r], removeFromScheduler(ready_queue, p))
    PROVE  Inv'
<1> DEFINE t == [pcb EXCEPT ![p] = r]
           q == removeFromScheduler(ready_queue, p)
<1>1. /\ t \in [Proc -> PCB]
      /\ t[p].state \notin {"READY", "RUNNING"}
      /\ \A o \in Proc \ {p} : t[o].state = pcb[o].state
  BY DEF Inv, Consistent
<1>2. p = current => Schedule(t, q)
  OBVIOUS
<1>3. p # current => Return(t, q)
  OBVIOUS
<1>. HIDE DEF t
<1>4. Consistent(t, q)
  BY <1>1, RemoveConsistent DEF Inv
<1>. HIDE DEF q
<1>5. CASE p = current
  BY <1>1, <1>2, <1>4, <1>5, ScheduleInv DEF Inv, OnlyCurrentRuns
<1>6. CASE p # current
  <2>1. \A o \in Proc : t[o].state = "RUNNING" <=> pcb[o].state = "RUNNING"
    BY <1>1, <1>6 DEF Inv, OnlyCurrentRuns
  <2>. QED
    BY <1>3, <1>4, <1>6, <2>1, ReturnInv
<1>. QED
  BY <1>5, <1>6

(* The end of a process keeps Inv.                                         *)
LEMMA RetireInv ==
    ASSUME Inv, NEW p \in Proc, Retire(p) PROVE Inv'
  BY FreeSlotType, LeaveInv DEF Retire

(* A block keeps Inv, of the process on the CPU or of another.             *)
LEMMA BlockInv ==
    ASSUME Inv, NEW p \in Proc, Block(p) PROVE Inv'
<1> DEFINE r == [pcb[p] EXCEPT !.state = "BLOCKED", !.waiting_ticks = 0]
<1>1. r \in PCB /\ r.state = "BLOCKED"
  <2>1. pcb[p] \in PCB /\ "BLOCKED" \in State
    BY DEF Inv, Consistent, State
  <2>2. r \in PCB
    BY <2>1, PCBUpdate
  <2>. QED
    BY <2>1, <2>2 DEF PCB
<1>2. IF p = current
      THEN Schedule([pcb EXCEPT ![p] = r], removeFromScheduler(ready_queue, p))
      ELSE Return([pcb EXCEPT ![p] = r], removeFromScheduler(ready_queue, p))
  BY DEF Block
<1>. HIDE DEF r
<1>. QED
  BY <1>1, <1>2, LeaveInv

(* The table and the queue that unblock_process leaves behind. *)
LEMMA UnblockConsistent ==
    ASSUME Inv, NEW p \in Proc, pcb[p].state = "BLOCKED"
    PROVE  /\ Consistent(UnblockedTable(p), add_to_ready_queue(ready_queue, p))
           /\ \A o \in Proc : UnblockedTable(p)[o].state = "RUNNING"
                                <=> pcb[o].state = "RUNNING"
<1> DEFINE r == [pcb[p] EXCEPT !.state = "READY", !.waiting_ticks = 0]
           t == UnblockedTable(p)
<1>1. r \in PCB /\ r.state = "READY"
  <2>1. pcb[p] \in PCB /\ "READY" \in State
    BY DEF Inv, Consistent, State
  <2>2. r \in PCB
    BY <2>1, PCBUpdate
  <2>. QED
    BY <2>1, <2>2 DEF PCB
<1>2. t = [pcb EXCEPT ![p] = r]
  BY DEF UnblockedTable
<1>. HIDE DEF r, t
<1>3. /\ t \in [Proc -> PCB]
      /\ t[p].state = "READY"
      /\ \A o \in Proc \ {p} : t[o].state = pcb[o].state
  BY <1>1, <1>2 DEF Inv, Consistent
<1>4. Consistent(t, add_to_ready_queue(ready_queue, p))
  BY <1>3, AddConsistent DEF Inv
<1>. QED
  BY <1>3, <1>4 DEF t

(* An unblock keeps Inv.                                                   *)
LEMMA UnblockInv ==
    ASSUME Inv, NEW p \in Proc, unblock_process(p) PROVE Inv'
  BY UnblockConsistent, ReturnInv DEF unblock_process

(* sem_post with its forced switch keeps Inv.                              *)
LEMMA WakeAndSwitchInv ==
    ASSUME Inv, NEW p \in Proc, WakeAndSwitch(p) PROVE Inv'
<1>1. /\ Consistent(UnblockedTable(p), add_to_ready_queue(ready_queue, p))
      /\ \A o \in Proc : UnblockedTable(p)[o].state = "RUNNING"
                           <=> pcb[o].state = "RUNNING"
  BY UnblockConsistent DEF WakeAndSwitch
<1>2. Schedule(UnblockedTable(p), add_to_ready_queue(ready_queue, p))
  BY DEF WakeAndSwitch
<1>3. pcb[current].state = "RUNNING"
  BY DEF Inv, OnlyCurrentRuns
<1>. QED
  BY <1>1, <1>2, <1>3, ScheduleInv DEF Inv, OnlyCurrentRuns

(* nice keeps Inv.                                                         *)
LEMMA ChangePriorityInv ==
    ASSUME Inv, NEW p \in Proc, NEW prio \in Priority, change_priority(p, prio)
    PROVE  Inv'
<1>1. PICK r : /\ r \in PCB
               /\ r.state = pcb[p].state
               /\ Return([pcb EXCEPT ![p] = r], ready_queue)
  <2> DEFINE a == [pcb[p] EXCEPT !.base_priority = prio, !.waiting_ticks = 0]
             b == IF a.boost THEN [a EXCEPT !.saved_priority = prio]
                  ELSE [a EXCEPT !.priority = prio]
  <2>1. pcb[p] \in PCB /\ 0 \in 0 .. AGING_THRESHOLD - 1
    BY SchedulerAssumption DEF Inv, Consistent
  <2>2. a \in PCB /\ a.state = pcb[p].state
    BY <2>1 DEF PCB
  <2>3. Return([pcb EXCEPT ![p] = b], ready_queue)
    BY DEF change_priority
  <2>. HIDE DEF a
  <2>4. b \in PCB /\ b.state = a.state
    BY <2>2 DEF PCB
  <2>. HIDE DEF b
  <2>. QED
    BY <2>2, <2>3, <2>4
<1> DEFINE t == [pcb EXCEPT ![p] = r]
<1>2. t \in [Proc -> PCB] /\ \A o \in Proc : t[o].state = pcb[o].state
  BY <1>1 DEF Inv, Consistent
<1>3. Return(t, ready_queue)
  BY <1>1
<1>. HIDE DEF t
<1>4. Consistent(t, ready_queue)
  BY <1>2, UpdateConsistent DEF Inv
<1>. QED
  BY <1>2, <1>3, <1>4, ReturnInv

(* Inv is inductive.                                                       *)
LEMMA NextInv == Inv /\ [SchedulerNext]_schedVars => Inv'
<1> SUFFICES ASSUME Inv, [SchedulerNext]_schedVars PROVE Inv'
  OBVIOUS
<1>1. CASE Tick
  BY <1>1, TickInv
<1>2. CASE clear_foreground_process
  BY <1>2, ForegroundInv
<1>3. ASSUME NEW p \in Proc, Retire(p) PROVE Inv'
  BY <1>3, RetireInv
<1>4. ASSUME NEW p \in Proc, Block(p) PROVE Inv'
  BY <1>4, BlockInv
<1>5. ASSUME NEW p \in Proc, unblock_process(p) PROVE Inv'
  BY <1>5, UnblockInv
<1>6. ASSUME NEW p \in Proc, WakeAndSwitch(p) PROVE Inv'
  BY <1>6, WakeAndSwitchInv
<1>7. ASSUME NEW p \in Proc, set_foreground_process(p) PROVE Inv'
  BY <1>7, ForegroundInv
<1>8. ASSUME NEW p \in Proc, NEW prio \in NiceValues, change_priority(p, prio)
      PROVE  Inv'
  BY <1>8, ChangePriorityInv, SchedulerAssumption
<1>9. ASSUME NEW p \in Proc, NEW prio \in Priorities, NEW fg \in BOOLEAN,
             Admit(p, prio, fg)
      PROVE  Inv'
  BY <1>9, AdmitInv, SchedulerAssumption
<1>10. CASE UNCHANGED schedVars
  BY <1>10 DEF schedVars, Inv, Consistent, Queued, OnlyCurrentRuns
<1>. QED
  BY <1>1, <1>2, <1>3, <1>4, <1>5, <1>6, <1>7, <1>8, <1>9, <1>10
     DEF SchedulerNext

(* The queue is the READY set and one process runs, after every handler    *)
(* of process.c.                                                           *)
THEOREM InvHolds == SchedulerSpec => []Inv
  BY InitInv, NextInv, PTL DEF SchedulerSpec

(* The scheduling fields, the queue and current_process always have their   *)
(* types: no handler writes a priority, a slice counter or an age out of    *)
(* range.                                                                   *)
THEOREM TypeCorrect == SchedulerSpec => []TypeOK
<1>1. Inv => TypeOK
  BY DEF Inv, Consistent, TypeOK
<1>. QED
  BY <1>1, InvHolds, PTL

(* The ready queue is exactly the set of READY processes, each once, and    *)
(* the CPU belongs to the one RUNNING process.                              *)
THEOREM QueueCorrect == SchedulerSpec => [](QueueIsReadySet /\ OnlyCurrentRuns)
<1>1. Inv => QueueIsReadySet /\ OnlyCurrentRuns
  BY DEF Inv, Consistent, Queued, QueueIsReadySet
<1>. QED
  BY <1>1, InvHolds, PTL

(* The ready queue never fills up, so schedule() never terminates a         *)
(* preempted process for want of room.                                      *)
THEOREM QueueHasRoom == SchedulerSpec => []RoomForCurrent
<1>1. Inv => RoomForCurrent
  <2> SUFFICES ASSUME Inv PROVE RoomForCurrent
    OBVIOUS
  <2>1. pcb[current].state # "READY"
    BY DEF Inv, OnlyCurrentRuns
  <2>. QED
    BY <2>1, RoomForOthers DEF Inv, RoomForCurrent
<1>. QED
  BY <1>1, InvHolds, PTL

-----------------------------------------------------------------------------
(* Priorities: what ageing, the foreground boost and nice leave of them,   *)
(* and what the top priority is worth.  NeverWorseThanNice says the same   *)
(* of every slot, on its own: Favoured is what it says of one, and every   *)
(* field a handler writes keeps it.  That nobody overtakes the top         *)
(* priority follows from Inv and from the order in which schedule() looks  *)
(* at the queue.                                                           *)

Favoured(r) ==
    IF r.boost THEN r.saved_priority <= r.base_priority
    ELSE r.priority <= r.base_priority

AllFavoured(t) == \A p \in Proc : Favoured(t[p])

-----------------------------------------------------------------------------
(* What is written into one slot *)

LEMMA PriorityIsNat == \A n \in Priority : n \in Int /\ 0 <= n /\ n <= n
  BY SchedulerAssumption DEF Priority, MIN_PRIORITY

(* Slice counter, age and state say nothing about priorities, and a process *)
(* that gets the CPU has its nice priority back.                            *)
LEMMA UpdateFavoured ==
    ASSUME NEW r \in PCB, Favoured(r), NEW s \in State
    PROVE  /\ Favoured([r EXCEPT !.state = s, !.waiting_ticks = 0])
           /\ Favoured([r EXCEPT !.state = s, !.scheduler_counter = 0,
                                 !.waiting_ticks = 0])
           /\ Favoured([r EXCEPT !.scheduler_counter = Bump(@)])
           /\ Favoured([r EXCEPT !.state = s, !.scheduler_counter = Bump(@),
                                 !.waiting_ticks = 0, !.priority = r.base_priority])
<1>1. r.base_priority <= r.base_priority
  BY PCBFields, PriorityIsNat
<1>. QED
  BY <1>1 DEF PCB, Favoured

(* A new slot has the priority nice gave.                                  *)
LEMMA FreshFavoured ==
    ASSUME NEW prio \in Priority
    PROVE  Favoured(FreeSlot) /\ Favoured(NewProcess(prio))
  BY PriorityIsNat DEF Favoured, FreeSlot, NewProcess

(* A promotion only lowers the number. *)
LEMMA AgedFavoured ==
    ASSUME NEW r \in PCB, Favoured(r)
    PROVE  Favoured(Aged(r))
<1>1. /\ r.priority \in Int /\ 0 <= r.priority
      /\ r.base_priority \in Int /\ 0 <= r.base_priority
      /\ AGING_STEP \in Nat
  BY PCBFields, PriorityIsNat, SchedulerAssumption
<1>. QED
  BY <1>1 DEF Aged, Favoured, PCB, MIN_PRIORITY

(* The boost is the top priority, and without it nice's is back.           *)
LEMMA BoostFavoured ==
    ASSUME NEW r \in PCB, Favoured(r)
    PROVE  Favoured(Boosted(r)) /\ Favoured(Unboosted(r))
  BY DEF Boosted, Unboosted, Favoured, PCB

-----------------------------------------------------------------------------
(* What the handlers do to the table *)

(* Writing one slot. *)
LEMMA SlotFavoured ==
    ASSUME NEW t \in [Proc -> PCB], AllFavoured(t), NEW p \in Proc,
           NEW r, Favoured(r)
    PROVE  AllFavoured([t EXCEPT ![p] = r])
  BY DEF AllFavoured

(* The foreground calls keep every slot favoured.                          *)
LEMMA ForegroundFavoured ==
    ASSUME NEW t \in [Proc -> PCB], AllFavoured(t), NEW p
    PROVE  /\ AllFavoured(WithForeground(t, p))
           /\ AllFavoured(release_foreground_owner(t))
  BY BoostFavoured DEF AllFavoured, WithForeground, release_foreground_owner

(* So does ageing.                                                         *)
LEMMA AgingFavoured ==
    ASSUME NEW t \in [Proc -> PCB], AllFavoured(t), NEW q
    PROVE  AllFavoured(apply_aging_to_ready_processes(t, q))
  BY AgedFavoured DEF AllFavoured, apply_aging_to_ready_processes

(* Giving the CPU away. *)
LEMMA DispatchFavoured ==
    ASSUME NEW t \in [Proc -> PCB], AllFavoured(t), NEW q, NEW p \in Proc,
           Dispatch(t, q, p)
    PROVE  AllFavoured(pcb')
<1> DEFINE r == [t[p] EXCEPT !.state = "RUNNING", !.scheduler_counter = Bump(@),
                             !.waiting_ticks = 0, !.priority = t[p].base_priority]
<1>1. pcb' = [t EXCEPT ![p] = r]
  BY DEF Dispatch, PCB
<1>2. Favoured(r)
  <2>1. t[p] \in PCB /\ Favoured(t[p]) /\ "RUNNING" \in State
    BY DEF State, AllFavoured
  <2>. QED
    BY <2>1, UpdateFavoured
<1>. HIDE DEF r
<1>. QED
  BY <1>1, <1>2, SlotFavoured

(* So does the choice of the next process.                                 *)
LEMMA SwitchFavoured ==
    ASSUME NEW t, NEW q, Consistent(t, q), AllFavoured(t), Switch(t, q)
    PROVE  AllFavoured(pcb')
<1>1. t \in [Proc -> PCB] /\ \A i \in DOMAIN q : q[i] \in Proc
  BY ElementOfSeq, LenProperties DEF Consistent
<1>2. Idle \in Proc
  BY SchedulerAssumption DEF Idle, Proc
<1>3. ASSUME NEW i \in DOMAIN q, Dispatch(t, RemoveAt(q, i), q[i])
      PROVE  AllFavoured(pcb')
  BY <1>1, <1>3, DispatchFavoured
<1>4. CASE Dispatch(t, <<>>, Idle)
  BY <1>1, <1>2, <1>4, DispatchFavoured
<1>. QED
  BY <1>3, <1>4 DEF Switch

(* What schedule() chooses from when it takes the CPU away. *)
QueuedTable(t, q) ==
    apply_aging_to_ready_processes(Preempted(t, q), QueueAfterPreemption(t, q))

(* So does schedule() as a whole.                                          *)
LEMMA ScheduleFavoured ==
    ASSUME NEW t, NEW q, Consistent(t, q), current \in Proc,
           t[current].state # "READY", AllFavoured(t), Schedule(t, q)
    PROVE  AllFavoured(pcb')
<1>0. t \in [Proc -> PCB] /\ t[current] \in PCB /\ Favoured(t[current])
  BY DEF Consistent, AllFavoured
<1>1. CASE Continues(t)
  <2> DEFINE r == [t[current] EXCEPT !.scheduler_counter = Bump(@)]
  <2>1. Favoured(r)
    BY <1>0, UpdateFavoured DEF State
  <2>2. pcb' = [t EXCEPT ![current] = r]
    BY <1>1 DEF Schedule, KeepRunning
  <2>. HIDE DEF r
  <2>. QED
    BY <1>0, <2>1, <2>2, SlotFavoured
<1>2. CASE ~ Continues(t)
  <2>1. Switch(QueuedTable(t, q), QueueAfterPreemption(t, q))
    BY <1>2 DEF Schedule, QueuedTable
  <2>2. /\ Consistent(Preempted(t, q), QueueAfterPreemption(t, q))
        /\ Consistent(QueuedTable(t, q), QueueAfterPreemption(t, q))
    BY PreemptedConsistent, AgingConsistent DEF QueuedTable
  <2>3. AllFavoured(Preempted(t, q))
    <3> DEFINE r == [t[current] EXCEPT !.state = "READY",
                        !.scheduler_counter = 0, !.waiting_ticks = 0]
    <3>1. Favoured(r)
      BY <1>0, UpdateFavoured DEF State
    <3>2. \/ Preempted(t, q) = t
          \/ Preempted(t, q) = [t EXCEPT ![current] = r]
      BY RoomForOthers DEF Preempted
    <3>. HIDE DEF r
    <3>. QED
      BY <1>0, <3>1, <3>2, SlotFavoured
  <2>4. AllFavoured(QueuedTable(t, q))
    BY <2>2, <2>3, AgingFavoured DEF QueuedTable, Consistent
  <2>. QED
    BY <2>1, <2>2, <2>4, SwitchFavoured
<1>. QED
  BY <1>1, <1>2

-----------------------------------------------------------------------------
(* Nobody is worse off than nice left him: one lemma per kind of handler. *)

PriorityInv == Inv /\ AllFavoured(pcb)

(* Every slot begins favoured.                                             *)
LEMMA PriorityInit == SchedulerInit => PriorityInv
<1> SUFFICES ASSUME SchedulerInit PROVE PriorityInv
  OBVIOUS
<1>1. Favoured(FreeSlot) /\ Favoured([FreeSlot EXCEPT !.state = "RUNNING"])
  BY DEF Favoured, FreeSlot
<1>2. AllFavoured(pcb)
  BY <1>1 DEF SchedulerInit, AllFavoured
<1>. QED
  BY <1>2, InitInv DEF PriorityInv

(* A process that leaves the CPU or the queue leaves the table favoured.   *)
LEMMA LeaveFavoured ==
    ASSUME PriorityInv, NEW p \in Proc, NEW r \in PCB, Favoured(r),
           r.state \notin {"READY", "RUNNING"},
           IF p = current
           THEN Schedule([pcb EXCEPT ![p] = r], removeFromScheduler(ready_queue, p))
           ELSE Return([pcb EXCEPT ![p] = r], removeFromScheduler(ready_queue, p))
    PROVE  AllFavoured(pcb')
<1> DEFINE t == [pcb EXCEPT ![p] = r]
           q == removeFromScheduler(ready_queue, p)
<1>1. /\ t \in [Proc -> PCB]
      /\ t[p].state \notin {"READY", "RUNNING"}
      /\ \A o \in Proc \ {p} : t[o].state = pcb[o].state
  BY DEF PriorityInv, Inv, Consistent
<1>2. AllFavoured(t)
  BY SlotFavoured DEF PriorityInv, Inv, Consistent
<1>3. p = current => Schedule(t, q)
  OBVIOUS
<1>4. p # current => pcb' = t
  BY DEF Return
<1>. HIDE DEF t
<1>5. Consistent(t, q)
  BY <1>1, RemoveConsistent DEF PriorityInv, Inv
<1>. HIDE DEF q
<1>6. CASE p = current
  BY <1>1, <1>2, <1>3, <1>5, <1>6, ScheduleFavoured DEF PriorityInv, Inv
<1>. QED
  BY <1>2, <1>4, <1>6

(* The end of a process.                                                   *)
LEMMA RetireFavoured ==
    ASSUME PriorityInv, NEW p \in Proc, Retire(p) PROVE AllFavoured(pcb')
<1>1. Favoured(FreeSlot)
  BY DEF FreeSlot, Favoured
<1>. QED
  BY <1>1, FreeSlotType, LeaveFavoured DEF Retire

(* A block.                                                                *)
LEMMA BlockFavoured ==
    ASSUME PriorityInv, NEW p \in Proc, Block(p) PROVE AllFavoured(pcb')
<1> DEFINE r == [pcb[p] EXCEPT !.state = "BLOCKED", !.waiting_ticks = 0]
<1>1. r \in PCB /\ r.state = "BLOCKED" /\ Favoured(r)
  <2>1. pcb[p] \in PCB /\ "BLOCKED" \in State /\ Favoured(pcb[p])
    BY DEF PriorityInv, Inv, Consistent, State, AllFavoured
  <2>2. r \in PCB /\ Favoured(r)
    BY <2>1, PCBUpdate, UpdateFavoured
  <2>. QED
    BY <2>1, <2>2 DEF PCB
<1>2. IF p = current
      THEN Schedule([pcb EXCEPT ![p] = r], removeFromScheduler(ready_queue, p))
      ELSE Return([pcb EXCEPT ![p] = r], removeFromScheduler(ready_queue, p))
  BY DEF Block
<1>. HIDE DEF r
<1>. QED
  BY <1>1, <1>2, LeaveFavoured

(* An unblock.                                                             *)
LEMMA UnblockFavoured ==
    ASSUME PriorityInv, NEW p \in Proc, pcb[p].state = "BLOCKED"
    PROVE  AllFavoured(UnblockedTable(p))
<1> DEFINE r == [pcb[p] EXCEPT !.state = "READY", !.waiting_ticks = 0]
<1>1. Favoured(r)
  <2>1. pcb[p] \in PCB /\ "READY" \in State /\ Favoured(pcb[p])
    BY DEF PriorityInv, Inv, Consistent, State, AllFavoured
  <2>. QED
    BY <2>1, UpdateFavoured
<1>2. UnblockedTable(p) = [pcb EXCEPT ![p] = r]
  BY DEF UnblockedTable
<1>3. pcb \in [Proc -> PCB] /\ AllFavoured(pcb)
  BY DEF PriorityInv, Inv, Consistent
<1>. HIDE DEF r
<1>4. AllFavoured([pcb EXCEPT ![p] = r])
  BY <1>1, <1>3, SlotFavoured
<1>. QED
  BY <1>2, <1>4, Zenon

(* sem_post with its forced switch.                                        *)
LEMMA WakeAndSwitchFavoured ==
    ASSUME PriorityInv, NEW p \in Proc, WakeAndSwitch(p) PROVE AllFavoured(pcb')
<1>1. /\ Consistent(UnblockedTable(p), add_to_ready_queue(ready_queue, p))
      /\ \A o \in Proc : UnblockedTable(p)[o].state = "RUNNING"
                           <=> pcb[o].state = "RUNNING"
  BY UnblockConsistent DEF WakeAndSwitch, PriorityInv
<1>2. Schedule(UnblockedTable(p), add_to_ready_queue(ready_queue, p))
  BY DEF WakeAndSwitch
<1>3. AllFavoured(UnblockedTable(p))
  BY UnblockFavoured DEF WakeAndSwitch
<1>4. current \in Proc /\ UnblockedTable(p)[current].state = "RUNNING"
  BY <1>1 DEF PriorityInv, Inv, OnlyCurrentRuns
<1>. QED
  BY <1>1, <1>2, <1>3, <1>4, ScheduleFavoured

(* nice sets the base priority, and with it the one it has just made stale. *)
LEMMA ChangePriorityFavoured ==
    ASSUME PriorityInv, NEW p \in Proc, NEW prio \in Priority,
           change_priority(p, prio)
    PROVE  AllFavoured(pcb')
<1> DEFINE a == [pcb[p] EXCEPT !.base_priority = prio, !.waiting_ticks = 0]
           b == IF a.boost THEN [a EXCEPT !.saved_priority = prio]
                ELSE [a EXCEPT !.priority = prio]
<1>1. pcb[p] \in PCB
  BY DEF PriorityInv, Inv, Consistent
<1>2. prio <= prio
  BY PriorityIsNat
<1>3. Favoured(b)
  BY <1>1, <1>2 DEF PCB, Favoured
<1>4. pcb' = [pcb EXCEPT ![p] = b]
  BY DEF change_priority, Return
<1>. HIDE DEF b
<1>. QED
  BY <1>3, <1>4, SlotFavoured DEF PriorityInv, Inv, Consistent

(* A new process.                                                          *)
LEMMA AdmitFavoured ==
    ASSUME PriorityInv, NEW p \in Proc, NEW prio \in Priority, NEW fg \in BOOLEAN,
           Admit(p, prio, fg)
    PROVE  AllFavoured(pcb')
<1> DEFINE t == [pcb EXCEPT ![p] = NewProcess(prio)]
<1>1. NewProcess(prio) \in PCB
  BY SchedulerAssumption, FreeSlotType DEF NewProcess, FreeSlot, PCB, State
<1>2. t \in [Proc -> PCB] /\ AllFavoured(t)
  BY <1>1, FreshFavoured, SlotFavoured DEF PriorityInv, Inv, Consistent
<1>3. pcb' = IF fg THEN WithForeground(t, p) ELSE t
  BY DEF Admit, Return
<1>. HIDE DEF t
<1>. QED
  BY <1>2, <1>3, ForegroundFavoured

(* PriorityInv is inductive.                                               *)
LEMMA PriorityNext == PriorityInv /\ [SchedulerNext]_schedVars => PriorityInv'
<1> SUFFICES ASSUME PriorityInv, [SchedulerNext]_schedVars
             PROVE  AllFavoured(pcb')
  <2>1. AllFavoured(pcb') => AllFavoured(pcb)'
    OBVIOUS
  <2>. QED
    BY <2>1, NextInv DEF PriorityInv
<1>0. pcb \in [Proc -> PCB] /\ AllFavoured(pcb)
  BY DEF PriorityInv, Inv, Consistent
<1>1. CASE Tick
  <2>1. current \in Proc /\ pcb[current].state # "READY"
    BY DEF PriorityInv, Inv, OnlyCurrentRuns
  <2>. QED
    BY <1>0, <1>1, <2>1, ScheduleFavoured DEF Tick, PriorityInv, Inv
<1>2. CASE clear_foreground_process
  BY <1>0, <1>2, ForegroundFavoured DEF clear_foreground_process, Return
<1>3. ASSUME NEW p \in Proc, Retire(p) PROVE AllFavoured(pcb')
  BY <1>3, RetireFavoured
<1>4. ASSUME NEW p \in Proc, Block(p) PROVE AllFavoured(pcb')
  BY <1>4, BlockFavoured
<1>5. ASSUME NEW p \in Proc, unblock_process(p) PROVE AllFavoured(pcb')
  BY <1>5, UnblockFavoured DEF unblock_process, Return
<1>6. ASSUME NEW p \in Proc, WakeAndSwitch(p) PROVE AllFavoured(pcb')
  BY <1>6, WakeAndSwitchFavoured
<1>7. ASSUME NEW p \in Proc, set_foreground_process(p) PROVE AllFavoured(pcb')
  BY <1>0, <1>7, ForegroundFavoured DEF set_foreground_process, Return
<1>8. ASSUME NEW p \in Proc, NEW prio \in NiceValues, change_priority(p, prio)
      PROVE  AllFavoured(pcb')
  BY <1>8, ChangePriorityFavoured, SchedulerAssumption
<1>9. ASSUME NEW p \in Proc, NEW prio \in Priorities, NEW fg \in BOOLEAN,
             Admit(p, prio, fg)
      PROVE  AllFavoured(pcb')
  BY <1>9, AdmitFavoured, SchedulerAssumption
<1>10. CASE UNCHANGED schedVars
  BY <1>0, <1>10 DEF schedVars
<1>. QED
  BY <1>1, <1>2, <1>3, <1>4, <1>5, <1>6, <1>7, <1>8, <1>9, <1>10
     DEF SchedulerNext

(* Ageing and the foreground boost only ever favour a process: its          *)
(* effective priority is never worse than nice left it, and the one that    *)
(* releasing the foreground will restore is not worse either.               *)
THEOREM PriorityFavours == SchedulerSpec => []NeverWorseThanNice
<1>1. PriorityInv => NeverWorseThanNice
  BY DEF PriorityInv, AllFavoured, Favoured, NeverWorseThanNice
<1>. QED
  BY <1>1, PriorityInit, PriorityNext, PTL DEF SchedulerSpec

-----------------------------------------------------------------------------
(* The order of dispatch *)

(* What NoOvertakingAtTheTop says of one step. *)
Overtaking ==
    \A i \in DOMAIN ready_queue :
       LET p == ready_queue[i]
       IN  /\ current' # current
           /\ pcb[p].priority = MIN_PRIORITY
           /\ pcb'[p].state = "READY"
           => \E k \in 1 .. i - 1 : ready_queue[k] = current'

(* A handler may change the table and append to the queue before it calls   *)
(* schedule(): those that waited before it are where they were.             *)
Extends(q) ==
    /\ Len(ready_queue) <= Len(q)
    /\ \A i \in DOMAIN ready_queue : q[i] = ready_queue[i]

(* Of the top priority schedule() takes the first, and others only behind  *)
(* it.                                                                     *)
LEMMA ScheduleOrder ==
    ASSUME Inv, NEW t, NEW q, Consistent(t, q), Extends(q),
           t[current].state # "READY",
           \A i \in DOMAIN ready_queue : t[ready_queue[i]] = pcb[ready_queue[i]],
           Schedule(t, q)
    PROVE  Overtaking
<1> SUFFICES ASSUME NEW i \in DOMAIN ready_queue, current' # current,
                    pcb[ready_queue[i]].priority = MIN_PRIORITY,
                    pcb'[ready_queue[i]].state = "READY"
             PROVE  \E k \in 1 .. i - 1 : ready_queue[k] = current'
  BY DEF Overtaking
<1> DEFINE p == ready_queue[i]
           q1 == QueueAfterPreemption(t, q)
           t1 == QueuedTable(t, q)
<1>1. /\ Len(ready_queue) \in Nat /\ DOMAIN ready_queue = 1 .. Len(ready_queue)
      /\ Len(q) \in Nat /\ DOMAIN q = 1 .. Len(q) /\ q \in Seq(Proc)
      /\ p \in Proc /\ p # current /\ pcb[p].state = "READY"
  BY ElementOfSeq, LenProperties DEF Inv, Consistent, Queued, OnlyCurrentRuns
<1>2. Switch(t1, q1)
  BY DEF Schedule, KeepRunning, QueuedTable
<1>3. /\ Consistent(Preempted(t, q), q1)
      /\ Preempted(t, q)[p] = pcb[p]
  BY <1>1, PreemptedConsistent DEF Inv
<1>4. /\ Consistent(t1, q1)
      /\ t1[p].state = "READY"
      /\ t1[p].priority = MIN_PRIORITY
  <2>1. /\ Consistent(t1, q1)
        /\ t1[p].state = Preempted(t, q)[p].state
    BY <1>1, <1>3, AgingConsistent DEF QueuedTable
  <2>2. t1[p] \in {pcb[p], Aged(pcb[p])}
    BY <1>1, <1>3 DEF QueuedTable, apply_aging_to_ready_processes
  <2>3. pcb[p] \in PCB
    BY <1>1 DEF Inv, Consistent
  <2>4. Aged(pcb[p]).priority = MIN_PRIORITY
    BY <2>3 DEF Aged, PCB
  <2>. QED
    BY <1>1, <1>3, <2>1, <2>2, <2>4
<1>5. /\ Len(q1) \in Nat /\ DOMAIN q1 = 1 .. Len(q1)
      /\ \A j \in DOMAIN q1 : q1[j] \in Proc
      /\ Len(q) <= Len(q1)
      /\ \A j \in DOMAIN q : q1[j] = q[j]
  <2>1. q1 = q \/ q1 = Append(q, current)
    BY DEF QueueAfterPreemption, add_to_ready_queue
  <2>2. q1 \in Seq(Proc)
    BY <1>3 DEF Consistent
  <2>3. Len(q) <= Len(q1) /\ \A j \in DOMAIN q : q1[j] = q[j]
    BY <1>1, <2>1, AppendProperties DEF Inv
  <2>. QED
    BY <2>2, <2>3, ElementOfSeq, LenProperties
<1>. HIDE DEF t1, q1
<1>6. /\ i \in DOMAIN q1 /\ q1[i] = p
      /\ \A j \in 1 .. i - 1 : q1[j] = ready_queue[j]
  BY <1>1, <1>5 DEF Extends
<1>7. PICK j \in DOMAIN q1 : IsNext(t1, q1, j) /\ Dispatch(t1, RemoveAt(q1, j), q1[j])
  BY <1>2, <1>4, <1>6 DEF Switch
<1>8. /\ \/ t1[q1[j]].priority < MIN_PRIORITY
         \/ t1[q1[j]].priority = MIN_PRIORITY /\ j <= i
      /\ t1[q1[j]].priority \in Int /\ MIN_PRIORITY <= t1[q1[j]].priority
  <2>1. t1[q1[j]] \in PCB
    BY <1>4, <1>5 DEF Consistent
  <2>. QED
    BY <1>4, <1>6, <1>7, <2>1, PCBFields, PriorityIsNat DEF IsNext, MIN_PRIORITY
<1>9. j <= i
  BY <1>8 DEF MIN_PRIORITY
<1>10. current' = q1[j] /\ pcb'[q1[j]].state = "RUNNING"
  <2>1. t1 \in [Proc -> PCB] /\ q1[j] \in Proc
    BY <1>4, <1>5 DEF Consistent
  <2>. QED
    BY <1>7, <2>1 DEF Dispatch, PCB
<1>11. j # i
  BY <1>6, <1>10
<1>. QED
  BY <1>1, <1>5, <1>6, <1>9, <1>10, <1>11

(* Who sleeps or dies while on the CPU has no place in the queue to give up. *)
LEMMA NotQueued ==
    ASSUME Inv, NEW p \in Proc, pcb[p].state # "READY"
    PROVE  /\ removeFromScheduler(ready_queue, p) = ready_queue
           /\ \A i \in DOMAIN ready_queue : ready_queue[i] # p
<1>1. ready_queue \in Seq(Proc) /\ DOMAIN ready_queue = 1 .. Len(ready_queue)
  BY LenProperties DEF Inv, Consistent
<1>2. \A i \in DOMAIN ready_queue : ready_queue[i] # p
  BY DEF Inv, Consistent, Queued
<1>. QED
  BY <1>1, <1>2 DEF removeFromScheduler, RemoveFirst

(* A process that leaves lets nobody overtake.                             *)
LEMMA LeaveOrder ==
    ASSUME Inv, NEW p \in Proc, NEW r \in PCB,
           r.state \notin {"READY", "RUNNING"},
           IF p = current
           THEN Schedule([pcb EXCEPT ![p] = r], removeFromScheduler(ready_queue, p))
           ELSE Return([pcb EXCEPT ![p] = r], removeFromScheduler(ready_queue, p))
    PROVE  Overtaking
<1>1. CASE p # current
  BY <1>1 DEF Overtaking, Return
<1>2. CASE p = current
  <2> DEFINE t == [pcb EXCEPT ![p] = r]
  <2>1. /\ removeFromScheduler(ready_queue, p) = ready_queue
        /\ \A i \in DOMAIN ready_queue : ready_queue[i] # p
    BY <1>2, NotQueued DEF Inv, OnlyCurrentRuns
  <2>2. Schedule(t, ready_queue)
    BY <1>2, <2>1
  <2>3. /\ t \in [Proc -> PCB] /\ t[p].state # "READY"
        /\ \A o \in Proc \ {p} : t[o] = pcb[o]
        /\ \A i \in DOMAIN ready_queue : t[ready_queue[i]] = pcb[ready_queue[i]]
    BY <2>1, ElementOfSeq, LenProperties DEF Inv, Consistent
  <2>. HIDE DEF t
  <2>4. Consistent(t, ready_queue)
    BY <1>2, <2>3, UpdateConsistent DEF Inv, OnlyCurrentRuns
  <2>5. Extends(ready_queue)
    BY LenProperties DEF Extends, Inv, Consistent
  <2>. QED
    BY <1>2, <2>2, <2>3, <2>4, <2>5, ScheduleOrder
<1>. QED
  BY <1>1, <1>2

(* Nor does sem_post with its forced switch.                               *)
LEMMA WakeAndSwitchOrder ==
    ASSUME Inv, NEW p \in Proc, WakeAndSwitch(p)
    PROVE  Overtaking
<1> DEFINE t == UnblockedTable(p)
           q == add_to_ready_queue(ready_queue, p)
<1>1. pcb[p].state = "BLOCKED" /\ Schedule(t, q)
  BY DEF WakeAndSwitch
<1>2. Consistent(t, q) /\ t[current].state = "RUNNING"
  BY <1>1, UnblockConsistent DEF Inv, OnlyCurrentRuns
<1>3. Extends(q)
  <2>1. q = ready_queue \/ q = Append(ready_queue, p)
    BY DEF add_to_ready_queue
  <2>2. Len(ready_queue) \in Nat /\ DOMAIN ready_queue = 1 .. Len(ready_queue)
    BY LenProperties DEF Inv, Consistent
  <2>. QED
    BY <2>1, <2>2, AppendProperties DEF Extends, Inv, Consistent
<1>4. \A i \in DOMAIN ready_queue : t[ready_queue[i]] = pcb[ready_queue[i]]
  BY <1>1, NotQueued, ElementOfSeq, LenProperties
     DEF UnblockedTable, Inv, Consistent
<1>. HIDE DEF t, q
<1>. QED
  BY <1>1, <1>2, <1>3, <1>4, ScheduleOrder

(* No step lets anybody overtake at the top.                               *)
LEMMA StepOrder == Inv /\ [SchedulerNext]_schedVars => Overtaking
<1> SUFFICES ASSUME Inv, [SchedulerNext]_schedVars PROVE Overtaking
  OBVIOUS
<1>1. CASE Tick
  <2>1. Extends(ready_queue)
    BY LenProperties DEF Extends, Inv, Consistent
  <2>2. pcb[current].state # "READY"
    BY DEF Inv, OnlyCurrentRuns
  <2>. QED
    BY <1>1, <2>1, <2>2, ScheduleOrder DEF Tick, Inv
<1>2. ASSUME NEW p \in Proc, Retire(p) PROVE Overtaking
  BY <1>2, FreeSlotType, LeaveOrder DEF Retire
<1>3. ASSUME NEW p \in Proc, Block(p) PROVE Overtaking
  <2> DEFINE r == [pcb[p] EXCEPT !.state = "BLOCKED", !.waiting_ticks = 0]
  <2>1. r \in PCB /\ r.state = "BLOCKED"
    <3>1. pcb[p] \in PCB /\ "BLOCKED" \in State
      BY DEF Inv, Consistent, State
    <3>2. r \in PCB
      BY <3>1, PCBUpdate
    <3>. QED
      BY <3>1, <3>2 DEF PCB
  <2>2. IF p = current
        THEN Schedule([pcb EXCEPT ![p] = r], removeFromScheduler(ready_queue, p))
        ELSE Return([pcb EXCEPT ![p] = r], removeFromScheduler(ready_queue, p))
    BY <1>3 DEF Block
  <2>. HIDE DEF r
  <2>. QED
    BY <2>1, <2>2, LeaveOrder
<1>4. ASSUME NEW p \in Proc, WakeAndSwitch(p) PROVE Overtaking
  BY <1>4, WakeAndSwitchOrder
<1>5. CASE current' = current
  BY <1>5 DEF Overtaking
<1>. QED
  BY <1>1, <1>2, <1>3, <1>4, <1>5
     DEF SchedulerNext, clear_foreground_process, unblock_process,
         set_foreground_process, change_priority, Admit, Return, schedVars

(* Nobody overtakes a process that has reached the top priority: when the   *)
(* CPU changes hands and such a process is left waiting, the one that got   *)
(* it was ahead of it in the queue.  With the ageing of the queue this is   *)
(* what bounds how long a process waits.                                    *)
THEOREM TopIsServedInOrder == SchedulerSpec => NoOvertakingAtTheTop
<1>1. Inv /\ [SchedulerNext]_schedVars => [Overtaking]_schedVars
  BY StepOrder
<1>2. [][Overtaking]_schedVars => NoOvertakingAtTheTop
  BY PTL DEF NoOvertakingAtTheTop, Overtaking
<1>. QED
  BY <1>1, <1>2, InvHolds, PTL DEF SchedulerSpec
=============================================================================
