--------------------------- MODULE SemaphoreProofs ---------------------------
(***************************************************************************)
(* Proofs about Semaphore: no token lies idle while somebody waits, every  *)
(* sleeper is in one queue and once, and a queue is served in order.       *)
(*                                                                         *)
(* The three need one another and what holds of the table behind them: an  *)
(* entry that is free is empty, so that opening a name again finds no      *)
(* queue, and of two places in the queues no two have the same process, so *)
(* that waking one does not wake another further back.                     *)
(*                                                                         *)
(* The second part is about their user MvarCommand: for any number of      *)
(* writers and readers, and whatever is refused, the pipe of the command   *)
(* is an MVar.  The two semaphores together never hold more than one       *)
(* token.  OneToken says where it is: in "empty", in "full", or with the   *)
(* one worker that has been let through (Through), and what the pipe holds *)
(* in each case.  A post hands it from a worker to the head of a queue, so *)
(* the invariant says who is in which queue and where it goes on           *)
(* (Sleepers), on top of what holds of the semaphores themselves.          *)
(*                                                                         *)
(* The third part is about their user TestSync: the lost updates that      *)
(* test_sync is about do not occur.  The semaphore exists while somebody   *)
(* has it open, and its one token is in it or with the worker inside.      *)
(***************************************************************************)
EXTENDS MvarCommand, TestSync, SequenceTheorems, FiniteSetTheorems, TLAPS

Queue(n) == sem_table[n].waiting_processes

(* An entry that is free is empty, a queue is no longer than its array, and *)
(* with a queue there is no token.                                          *)
GoodEntry(s) ==
    /\ ~ s.used => s = SEM_FREE
    /\ Len(s.waiting_processes) <= MAX_PROCESSES
    /\ s.waiting_processes # <<>> => s.value = 0

OnePlaceEach ==
    \A n, m \in Names : \A i \in 1 .. Len(Queue(n)), j \in 1 .. Len(Queue(m)) :
       Queue(n)[i] = Queue(m)[j] => n = m /\ i = j

SleepersWait ==
    \A p \in Processes : state[p] = "BLOCKED" =>
       \E n \in Names : \E i \in 1 .. Len(Queue(n)) : Queue(n)[i] = p

WaitersSleep ==
    \A n \in Names : \A i \in 1 .. Len(Queue(n)) : state[Queue(n)[i]] # "READY"

SemInv ==
    /\ SemTypeOK
    /\ \A n \in Names : GoodEntry(sem_table[n])
    /\ OnePlaceEach
    /\ SleepersWait
    /\ WaitersSleep

-----------------------------------------------------------------------------
(* Entries and queues *)

LEMMA FreeEntry ==
    ASSUME SemaphoreAssumption
    PROVE  SEM_FREE \in Sem /\ GoodEntry(SEM_FREE)
           /\ SEM_FREE.waiting_processes = <<>> /\ ~ SEM_FREE.used
<1>1. <<>> \in Seq(Processes) /\ Len(<<>>) = 0
  BY EmptySeq
<1>. QED
  BY <1>1 DEF SemaphoreAssumption, SEM_FREE, Sem, GoodEntry

(* One entry changes and keeps its queue: only the entry has to be good. *)
LEMMA EntryChanges ==
    ASSUME SemInv, NEW n \in Names, NEW s \in Sem, GoodEntry(s),
           sem_table' = [sem_table EXCEPT ![n] = s],
           s.waiting_processes = Queue(n), state' = state
    PROVE  SemInv'
<1>1. /\ sem_table' \in [Names -> Sem]
      /\ state' \in [Processes -> {"READY", "BLOCKED", "TERMINATED"}]
  BY DEF SemInv, SemTypeOK
<1>2. \A m \in Names : sem_table'[m] = IF m = n THEN s ELSE sem_table[m]
  BY DEF SemInv, SemTypeOK
<1>3. \A m \in Names : Queue(m)' = Queue(m) /\ GoodEntry(sem_table[m])'
  BY <1>2 DEF SemInv, Queue, GoodEntry
<1>4. SemTypeOK'
  BY <1>1 DEF SemTypeOK
<1>5. OnePlaceEach' /\ SleepersWait' /\ WaitersSleep'
  BY <1>3 DEF SemInv, OnePlaceEach, SleepersWait, WaitersSleep
<1>. QED
  BY <1>3, <1>4, <1>5 DEF SemInv

(* The types of an entry and of its queue.                                 *)
LEMMA QueueFacts ==
    ASSUME SemInv, NEW n \in Names
    PROVE  /\ sem_table[n] \in Sem /\ Queue(n) \in Seq(Processes)
           /\ Len(Queue(n)) \in Nat /\ DOMAIN Queue(n) = 1 .. Len(Queue(n))
           /\ \A i \in 1 .. Len(Queue(n)) : Queue(n)[i] \in Processes
           /\ Queue(n) # <<>> <=> Len(Queue(n)) > 0
           /\ Queue(n) # <<>> => sem_table[n].used
<1>1. sem_table[n] \in Sem /\ Queue(n) \in Seq(Processes)
  BY DEF SemInv, SemTypeOK, Sem, Queue
<1>2. /\ Len(Queue(n)) \in Nat /\ DOMAIN Queue(n) = 1 .. Len(Queue(n))
      /\ \A i \in 1 .. Len(Queue(n)) : Queue(n)[i] \in Processes
  BY <1>1, LenProperties, ElementOfSeq
<1>3. Queue(n) # <<>> <=> Len(Queue(n)) > 0
  BY <1>1, <1>2, EmptySeq
<1>4. Queue(n) # <<>> => sem_table[n].used
  BY DEF SemInv, GoodEntry, Queue, SEM_FREE
<1>. QED
  BY <1>1, <1>2, <1>3, <1>4

(* Waking makes sleepers READY and nobody else.                            *)
LEMMA WokenProperties ==
    ASSUME SemInv, NEW S
    PROVE  /\ Woken(S) \in [Processes -> {"READY", "BLOCKED", "TERMINATED"}]
           /\ \A p \in Processes :
                 Woken(S)[p] = IF p \in S /\ state[p] = "BLOCKED" THEN "READY"
                               ELSE state[p]
  BY DEF SemInv, SemTypeOK, Woken

(* What is left of the queues is as it was, and exactly those who left them *)
(* have been woken.                                                         *)
LEMMA WaitersLeave ==
    ASSUME SemInv, NEW n \in Names, NEW s \in Sem, GoodEntry(s),
           sem_table' = [sem_table EXCEPT ![n] = s],
           NEW k \in Nat, k <= Len(Queue(n)),
           Len(s.waiting_processes) = Len(Queue(n)) - k,
           \A i \in 1 .. Len(Queue(n)) - k : s.waiting_processes[i] = Queue(n)[i + k],
           state' = Woken({Queue(n)[i] : i \in 1 .. k})
    PROVE  SemInv'
<1> DEFINE S == {Queue(n)[i] : i \in 1 .. k}
<1>1. \A m \in Names : sem_table'[m] = IF m = n THEN s ELSE sem_table[m]
  BY DEF SemInv, SemTypeOK
<1>2. SemTypeOK' /\ \A m \in Names : GoodEntry(sem_table[m])'
  BY <1>1, WokenProperties DEF SemInv, SemTypeOK, GoodEntry
<1>3. \A m \in Names \ {n} : Queue(m)' = Queue(m)
  BY <1>1 DEF Queue
<1>4. /\ Len(Queue(n)') = Len(Queue(n)) - k
      /\ \A i \in 1 .. Len(Queue(n)) - k : Queue(n)'[i] = Queue(n)[i + k]
  BY <1>1 DEF Queue
<1>5. ASSUME NEW m \in Names, NEW i \in 1 .. Len(Queue(m)')
      PROVE  \E j \in 1 .. Len(Queue(m)) :
                /\ Queue(m)'[i] = Queue(m)[j]
                /\ j = IF m = n THEN i + k ELSE i
  <2>1. CASE m = n
    <3>1. i + k \in 1 .. Len(Queue(n)) /\ i \in 1 .. Len(Queue(n)) - k
      BY <1>4, <1>5, <2>1, QueueFacts
    <3>. QED
      BY <1>4, <2>1, <3>1
  <2>2. CASE m # n
    BY <1>3, <2>2
  <2>. QED
    BY <2>1, <2>2
<1>6. \A p \in S : \E i \in 1 .. Len(Queue(n)) : i <= k /\ Queue(n)[i] = p
  BY QueueFacts
<1>7. \A p \in Processes : state'[p] = IF p \in S /\ state[p] = "BLOCKED" THEN "READY"
                                       ELSE state[p]
  BY WokenProperties
<1>8. OnePlaceEach'
  <2>1. ASSUME NEW l \in Names, NEW m \in Names,
               NEW i \in 1 .. Len(Queue(l)'), NEW j \in 1 .. Len(Queue(m)'),
               Queue(l)'[i] = Queue(m)'[j]
        PROVE  l = m /\ i = j
    <3>1. PICK a \in 1 .. Len(Queue(l)) : Queue(l)'[i] = Queue(l)[a]
                                          /\ a = IF l = n THEN i + k ELSE i
      BY <1>5
    <3>2. PICK b \in 1 .. Len(Queue(m)) : Queue(m)'[j] = Queue(m)[b]
                                          /\ b = IF m = n THEN j + k ELSE j
      BY <1>5
    <3>3. l = m /\ a = b
      <4>1. Queue(l)[a] = Queue(m)[b]
        BY <2>1, <3>1, <3>2
      <4>2. OnePlaceEach
        BY DEF SemInv
      <4>. QED
        BY <4>1, <4>2 DEF OnePlaceEach
    <3>4. i \in Int /\ j \in Int
      BY <3>1, <3>2
    <3>. QED
      BY <3>1, <3>2, <3>3, <3>4
  <2>. QED
    BY <2>1 DEF OnePlaceEach
<1>9. SleepersWait'
  <2>1. ASSUME NEW p \in Processes, state'[p] = "BLOCKED"
        PROVE  \E m \in Names : \E i \in 1 .. Len(Queue(m)') : Queue(m)'[i] = p
    <3>1. state[p] = "BLOCKED" /\ p \notin S
      BY <1>7, <2>1
    <3>2. PICK m \in Names : \E j \in 1 .. Len(Queue(m)) : Queue(m)[j] = p
      BY <3>1 DEF SemInv, SleepersWait
    <3>. PICK j \in 1 .. Len(Queue(m)) : Queue(m)[j] = p
      BY <3>2
    <3>3. CASE m # n
      BY <1>3, <3>3
    <3>4. CASE m = n
      <4>1. ~ j <= k /\ j \in Nat \ {0} /\ Len(Queue(n)) \in Nat
        BY <3>1, <3>2, <3>4, QueueFacts
      <4>2. j - k \in 1 .. Len(Queue(n)) - k /\ (j - k) + k = j
        BY <3>2, <3>4, <4>1
      <4>. QED
        BY <1>4, <3>2, <3>4, <4>2
    <3>. QED
      BY <3>3, <3>4
  <2>. QED
    BY <2>1 DEF SleepersWait
<1>10. WaitersSleep'
  <2>1. ASSUME NEW m \in Names, NEW i \in 1 .. Len(Queue(m)')
        PROVE  state'[Queue(m)'[i]] # "READY"
    <3>1. PICK j \in 1 .. Len(Queue(m)) : Queue(m)'[i] = Queue(m)[j]
                                          /\ j = IF m = n THEN i + k ELSE i
      BY <1>5
    <3>2. Queue(m)[j] \in Processes /\ state[Queue(m)[j]] # "READY"
      BY <3>1, QueueFacts DEF SemInv, WaitersSleep
    <3>3. Queue(m)[j] \notin S
      <4>1. ASSUME Queue(m)[j] \in S PROVE FALSE
        <5>1. PICK a \in 1 .. Len(Queue(n)) : a <= k /\ Queue(n)[a] = Queue(m)[j]
          BY <1>6, <4>1
        <5>2. m = n /\ a = j
          BY <3>1, <5>1 DEF SemInv, OnePlaceEach
        <5>. QED
          BY <1>4, <3>1, <5>1, <5>2, QueueFacts
      <4>. QED
        BY <4>1
    <3>. QED
      BY <1>7, <3>1, <3>2, <3>3
  <2>. QED
    BY <2>1 DEF WaitersSleep
<1>. QED
  BY <1>2, <1>8, <1>9, <1>10 DEF SemInv
(* A process joins a queue and sleeps. *)
LEMMA WaiterJoins ==
    ASSUME SemInv, NEW n \in Names, NEW p \in Processes, state[p] = "READY",
           sem_table[n].used, sem_table[n].value = 0,
           MAX_PROCESSES \in Nat, Len(Queue(n)) < MAX_PROCESSES,
           sem_table' = [sem_table EXCEPT ![n].waiting_processes = Append(@, p)],
           state' = [state EXCEPT ![p] = "BLOCKED"]
    PROVE  SemInv'
<1> DEFINE q == Append(Queue(n), p)
           s == [sem_table[n] EXCEPT !.waiting_processes = q]
           k == Len(Queue(n)) + 1
<1>1. /\ q \in Seq(Processes) /\ Len(q) = k /\ k \in Nat
      /\ \A i \in 1 .. Len(Queue(n)) : q[i] = Queue(n)[i]
      /\ q[k] = p
  BY QueueFacts, AppendProperties
<1>2. \A i \in 1 .. k : i \in 1 .. Len(Queue(n)) \/ i = k
  BY QueueFacts
<1>3. sem_table' = [sem_table EXCEPT ![n] = s]
  BY DEF SemInv, SemTypeOK, Queue
<1>. HIDE DEF q
<1>4. s \in Sem /\ s.used /\ s.value = 0 /\ s.waiting_processes = q
  BY <1>1, QueueFacts DEF Sem
<1>5. GoodEntry(s)
  <2>1. k <= MAX_PROCESSES
    BY <1>1, QueueFacts
  <2>. QED
    BY <1>1, <1>4, <2>1 DEF GoodEntry
<1>. HIDE DEF s
<1>6. \A m \in Names : sem_table'[m] = IF m = n THEN s ELSE sem_table[m]
  BY <1>3 DEF SemInv, SemTypeOK
<1>7. SemTypeOK' /\ \A m \in Names : GoodEntry(sem_table[m])'
  BY <1>3, <1>4, <1>5, <1>6, ZenonT(30) DEF SemInv, SemTypeOK, GoodEntry
<1>8. Queue(n)' = q /\ \A m \in Names \ {n} : Queue(m)' = Queue(m)
  BY <1>4, <1>6 DEF Queue
<1>9. \A o \in Processes : state'[o] = IF o = p THEN "BLOCKED" ELSE state[o]
  BY DEF SemInv, SemTypeOK
<1>. HIDE DEF k
<1>10. ASSUME NEW m \in Names, NEW i \in 1 .. Len(Queue(m)')
       PROVE  \/ i \in 1 .. Len(Queue(m)) /\ Queue(m)'[i] = Queue(m)[i]
              \/ m = n /\ i = k /\ Queue(m)'[i] = p
  BY <1>1, <1>2, <1>8
<1>11. \A m \in Names : \A i \in 1 .. Len(Queue(m)) :
          Queue(m)[i] \in Processes \ {p} /\ state[Queue(m)[i]] # "READY"
  BY QueueFacts DEF SemInv, WaitersSleep
<1>12. OnePlaceEach'
  <2>1. ASSUME NEW l \in Names, NEW m \in Names,
               NEW i \in 1 .. Len(Queue(l)'), NEW j \in 1 .. Len(Queue(m)'),
               Queue(l)'[i] = Queue(m)'[j]
        PROVE  l = m /\ i = j
    <3>1. CASE l = n /\ i = k /\ Queue(l)'[i] = p
      BY <1>10, <1>11, <2>1, <3>1
    <3>2. CASE i \in 1 .. Len(Queue(l)) /\ Queue(l)'[i] = Queue(l)[i]
      <4>1. j \in 1 .. Len(Queue(m)) /\ Queue(m)'[j] = Queue(m)[j]
        BY <1>10, <1>11, <2>1, <3>2, ZenonT(30)
      <4>2. OnePlaceEach
        BY DEF SemInv
      <4>3. Queue(l)[i] = Queue(m)[j]
        BY <2>1, <3>2, <4>1
      <4>. QED
        BY <3>2, <4>1, <4>2, <4>3 DEF OnePlaceEach
    <3>. QED
      BY <1>10, <3>1, <3>2
  <2>. QED
    BY <2>1 DEF OnePlaceEach
<1>13. SleepersWait'
  <2>1. ASSUME NEW o \in Processes, state'[o] = "BLOCKED"
        PROVE  \E m \in Names : \E i \in 1 .. Len(Queue(m)') : Queue(m)'[i] = o
    <3>1. CASE o = p
      <4>1. k \in 1 .. Len(Queue(n)') /\ Queue(n)'[k] = p
        BY <1>1, <1>8, QueueFacts DEF k
      <4>. QED
        BY <3>1, <4>1
    <3>2. CASE o # p
      <4>1. PICK m \in Names : \E i \in 1 .. Len(Queue(m)) : Queue(m)[i] = o
        BY <1>9, <2>1, <3>2 DEF SemInv, SleepersWait
      <4>2. PICK i \in 1 .. Len(Queue(m)) : Queue(m)[i] = o
        BY <4>1
      <4>3. i \in 1 .. Len(Queue(m)') /\ Queue(m)'[i] = o
        BY <1>1, <1>8, <4>2, QueueFacts DEF k
      <4>. QED
        BY <4>3
    <3>. QED
      BY <3>1, <3>2
  <2>. QED
    BY <2>1 DEF SleepersWait
<1>14. WaitersSleep'
  BY <1>9, <1>10, <1>11 DEF WaitersSleep
<1>. QED
  BY <1>7, <1>12, <1>13, <1>14 DEF SemInv
(* A process that dies stays where it is in the queues. *)
LEMMA WaiterDies ==
    ASSUME SemInv, NEW p \in Processes, Dies(p)
    PROVE  SemInv'
<1>1. /\ sem_table' = sem_table
      /\ state' \in [Processes -> {"READY", "BLOCKED", "TERMINATED"}]
      /\ \A o \in Processes : state'[o] = IF o = p THEN "TERMINATED" ELSE state[o]
  BY DEF SemInv, SemTypeOK, Dies
<1>2. SemTypeOK' /\ \A n \in Names : GoodEntry(sem_table[n])'
  BY <1>1 DEF SemInv, SemTypeOK, GoodEntry
<1>3. \A n \in Names : Queue(n)' = Queue(n)
  BY <1>1 DEF Queue
<1>4. OnePlaceEach' /\ SleepersWait'
  BY <1>1, <1>3 DEF SemInv, OnePlaceEach, SleepersWait
<1>5. WaitersSleep'
  BY <1>1, <1>3, QueueFacts DEF SemInv, WaitersSleep
<1>. QED
  BY <1>2, <1>4, <1>5 DEF SemInv

-----------------------------------------------------------------------------
(* The calls *)

LEMMA OpenKeeps ==
    ASSUME SemaphoreAssumption, SemInv, NEW n \in Names, NEW v \in InitialValues,
           sem_open(n, v)
    PROVE  SemInv'
<1>1. CASE find_semaphore(n)
  <2> DEFINE s == [sem_table[n] EXCEPT !.users = AddUser(@)]
  <2>1. AddUser(sem_table[n].users) \in 0 .. MaxUsers
    BY QueueFacts DEF SemaphoreAssumption, AddUser, Sem
  <2>2. /\ s \in Sem /\ s.used = sem_table[n].used /\ s.value = sem_table[n].value
        /\ s.waiting_processes = Queue(n)
    BY <2>1, QueueFacts DEF Sem, Queue
  <2>3. sem_table' = [sem_table EXCEPT ![n] = s] /\ state' = state
    BY <1>1 DEF sem_open
  <2>4. GoodEntry(s)
    BY <1>1, <2>2 DEF SemInv, GoodEntry, find_semaphore, Queue
  <2>. HIDE DEF s
  <2>. QED
    BY <2>2, <2>3, <2>4, EntryChanges
<1>2. CASE ~ find_semaphore(n) /\ ~ TableIsFull
  <2> DEFINE a == [SEM_FREE EXCEPT !.used = TRUE]
             b == [a EXCEPT !.users = 1]
             s == [SEM_FREE EXCEPT !.used = TRUE, !.users = 1, !.value = v]
  <2>1. a \in Sem /\ a.used /\ a.waiting_processes = <<>>
    BY FreeEntry DEF Sem
  <2>2. s = [b EXCEPT !.value = v]
    OBVIOUS
  <2>. HIDE DEF a, s
  <2>3. b \in Sem /\ b.used /\ b.waiting_processes = <<>>
    BY <2>1 DEF Sem, SemaphoreAssumption
  <2>. HIDE DEF b
  <2>4. /\ s \in Sem /\ s.used /\ s.waiting_processes = <<>>
        /\ GoodEntry(s)
    <3>1. v \in 0 .. MaxValue
      BY DEF SemaphoreAssumption
    <3>2. s \in Sem /\ s.used /\ s.waiting_processes = <<>>
      BY <2>2, <2>3, <3>1 DEF Sem
    <3>3. Len(<<>>) = 0
      BY EmptySeq
    <3>. QED
      BY <3>2, <3>3 DEF SemaphoreAssumption, GoodEntry
  <2>5. s.waiting_processes = Queue(n)
    BY <1>2, <2>4, FreeEntry DEF SemInv, GoodEntry, find_semaphore, Queue
  <2>6. sem_table' = [sem_table EXCEPT ![n] = s] /\ state' = state
    BY <1>2 DEF sem_open, s
  <2>. QED
    BY <2>4, <2>5, <2>6, EntryChanges
<1>3. CASE ~ find_semaphore(n) /\ TableIsFull
  <2>1. sem_table' = [sem_table EXCEPT ![n] = sem_table[n]] /\ state' = state
    BY <1>3 DEF sem_open, SemInv, SemTypeOK
  <2>. QED
    BY <2>1, QueueFacts, EntryChanges DEF SemInv, Queue
<1>. QED
  BY <1>1, <1>2, <1>3

(* A step that changes nothing.                                            *)
LEMMA NothingChanges ==
    ASSUME SemInv, UNCHANGED semVars
    PROVE  SemInv'
  BY DEF SemInv, SemTypeOK, GoodEntry, OnePlaceEach, SleepersWait, WaitersSleep,
         Queue, semVars

(* A wait takes a token or the last place of the queue.                    *)
LEMMA WaitKeeps ==
    ASSUME SemaphoreAssumption, SemInv, NEW n \in Names, NEW p \in Processes,
           state[p] = "READY", sem_wait(p, n)
    PROVE  SemInv'
<1>1. CASE UNCHANGED semVars
  BY <1>1, NothingChanges
<1>2. CASE find_semaphore(n) /\ ~ MustWait(n)
  <2> DEFINE s == [sem_table[n] EXCEPT !.value = @ - 1]
  <2>1. sem_table[n].value - 1 \in 0 .. MaxValue
    BY <1>2, QueueFacts DEF SemaphoreAssumption, MustWait, Sem
  <2>2. /\ s \in Sem /\ s.used = sem_table[n].used
        /\ s.waiting_processes = Queue(n)
    BY <2>1, QueueFacts DEF Sem, Queue
  <2>3. sem_table' = [sem_table EXCEPT ![n] = s] /\ state' = state
    BY <1>2 DEF sem_wait
  <2>4. GoodEntry(s)
    BY <1>2, <2>2 DEF SemInv, GoodEntry, find_semaphore, MustWait, Queue
  <2>. HIDE DEF s
  <2>. QED
    BY <2>2, <2>3, <2>4, EntryChanges
<1>3. CASE /\ find_semaphore(n) /\ MustWait(n)
           /\ ~ Len(sem_table[n].waiting_processes) >= MAX_PROCESSES
  <2>1. MAX_PROCESSES \in Nat /\ Len(Queue(n)) < MAX_PROCESSES
    BY <1>3, QueueFacts DEF SemaphoreAssumption, Queue
  <2>2. /\ sem_table' = [sem_table EXCEPT ![n].waiting_processes = Append(@, p)]
        /\ state' = [state EXCEPT ![p] = "BLOCKED"]
    BY <1>3 DEF sem_wait
  <2>. QED
    BY <1>3, <2>1, <2>2, WaiterJoins DEF find_semaphore, MustWait
<1>. QED
  BY <1>1, <1>2, <1>3 DEF sem_wait

(* A post hands its token to the head, or counts it.                       *)
LEMMA PostKeeps ==
    ASSUME SemaphoreAssumption, SemInv, NEW n \in Names, sem_post(n),
           sem_table[n].value < MaxValue
    PROVE  SemInv'
<1>1. CASE ~ find_semaphore(n)
  BY <1>1, NothingChanges DEF sem_post
<1>2. CASE find_semaphore(n) /\ Queue(n) # <<>>
  <2> DEFINE q == Tail(Queue(n))
             s == [sem_table[n] EXCEPT !.waiting_processes = q]
  <2>1. /\ q \in Seq(Processes) /\ Len(q) = Len(Queue(n)) - 1
        /\ \A i \in 1 .. Len(Queue(n)) - 1 : q[i] = Queue(n)[i + 1]
    BY <1>2, QueueFacts, HeadTailProperties
  <2>2. /\ sem_table' = [sem_table EXCEPT ![n] = s]
        /\ state' = Woken({Head(Queue(n))})
    BY <1>2 DEF sem_post, Queue
  <2>3. {Head(Queue(n))} = {Queue(n)[i] : i \in 1 .. 1}
    BY <1>2, QueueFacts
  <2>. HIDE DEF q
  <2>4. /\ s \in Sem /\ s.used = sem_table[n].used /\ s.value = sem_table[n].value
        /\ s.waiting_processes = q
    BY <2>1, QueueFacts DEF Sem
  <2>5. GoodEntry(s)
    <3>1. /\ sem_table[n].used /\ sem_table[n].value = 0
          /\ Len(Queue(n)) <= MAX_PROCESSES
      BY <1>2 DEF SemInv, GoodEntry, Queue, find_semaphore
    <3>2. Len(q) <= MAX_PROCESSES
      BY <2>1, <3>1, QueueFacts DEF SemaphoreAssumption
    <3>. QED
      BY <2>4, <3>1, <3>2 DEF GoodEntry
  <2>. HIDE DEF s
  <2>6. 1 \in Nat /\ 1 <= Len(Queue(n))
    BY <1>2, QueueFacts
  <2>. QED
    BY <2>1, <2>2, <2>3, <2>4, <2>5, <2>6, WaitersLeave
<1>3. CASE find_semaphore(n) /\ Queue(n) = <<>>
  <2> DEFINE s == [sem_table[n] EXCEPT !.value = @ + 1]
  <2>1. sem_table[n].value + 1 \in 0 .. MaxValue
    BY QueueFacts DEF SemaphoreAssumption, Sem
  <2>2. s \in Sem /\ s.used = sem_table[n].used /\ s.waiting_processes = Queue(n)
    BY <2>1, QueueFacts DEF Sem, Queue
  <2>3. sem_table' = [sem_table EXCEPT ![n] = s] /\ state' = state
    BY <1>3 DEF sem_post, Queue
  <2>4. GoodEntry(s)
    BY <1>3, <2>2 DEF SemInv, GoodEntry, find_semaphore, Queue
  <2>. HIDE DEF s
  <2>. QED
    BY <2>2, <2>3, <2>4, EntryChanges
<1>. QED
  BY <1>1, <1>2, <1>3

(* The last close wakes everybody and empties the queue.                   *)
LEMMA CloseKeeps ==
    ASSUME SemaphoreAssumption, SemInv, NEW n \in Names, sem_close(n)
    PROVE  SemInv'
<1>1. CASE ~ find_semaphore(n)
  BY <1>1, NothingChanges DEF sem_close
<1>2. CASE find_semaphore(n) /\ IsLastUser(n)
  <2> DEFINE k == Len(Queue(n))
  <2>1. k \in Nat /\ k <= Len(Queue(n)) /\ Len(Queue(n)) - k = 0
    BY QueueFacts
  <2>2. ToSet(Queue(n)) = {Queue(n)[i] : i \in 1 .. k}
    BY QueueFacts DEF ToSet
  <2>3. /\ sem_table' = [sem_table EXCEPT ![n] = SEM_FREE]
        /\ state' = Woken({Queue(n)[i] : i \in 1 .. k})
    BY <1>2, <2>2 DEF sem_close, Queue
  <2>4. SEM_FREE \in Sem /\ GoodEntry(SEM_FREE) /\ Len(SEM_FREE.waiting_processes) = 0
    BY FreeEntry, EmptySeq
  <2>. HIDE DEF k
  <2>5. 1 .. Len(Queue(n)) - k = {}
    BY <2>1
  <2>. QED
    BY <2>1, <2>3, <2>4, <2>5, WaitersLeave
<1>3. CASE find_semaphore(n) /\ ~ IsLastUser(n)
  <2> DEFINE s == [sem_table[n] EXCEPT !.users = @ - 1]
  <2>1. sem_table[n].users - 1 \in 0 .. MaxUsers
    BY <1>3, QueueFacts DEF SemaphoreAssumption, IsLastUser, Sem
  <2>2. /\ s \in Sem /\ s.used = sem_table[n].used /\ s.value = sem_table[n].value
        /\ s.waiting_processes = Queue(n)
    BY <2>1, QueueFacts DEF Sem, Queue
  <2>3. sem_table' = [sem_table EXCEPT ![n] = s] /\ state' = state
    BY <1>3 DEF sem_close
  <2>4. GoodEntry(s)
    BY <1>3, <2>2 DEF SemInv, GoodEntry, find_semaphore, Queue
  <2>. HIDE DEF s
  <2>. QED
    BY <2>2, <2>3, <2>4, EntryChanges
<1>. QED
  BY <1>1, <1>2, <1>3

-----------------------------------------------------------------------------
(* The invariant *)

LEMMA SemBegins == ASSUME SemaphoreAssumption, SemInit PROVE SemInv
<1>1. \A n \in Names : /\ sem_table[n] = SEM_FREE /\ Queue(n) = <<>>
                       /\ 1 .. Len(Queue(n)) = {}
  BY FreeEntry, EmptySeq DEF SemInit, Queue
<1>2. SemTypeOK
  BY FreeEntry DEF SemInit, SemTypeOK
<1>3. \A n \in Names : GoodEntry(sem_table[n])
  BY <1>1, FreeEntry
<1>4. \A p \in Processes : state[p] = "READY"
  BY DEF SemInit
<1>. QED
  BY <1>1, <1>2, <1>3, <1>4 DEF SemInv, OnePlaceEach, SleepersWait, WaitersSleep

(* SemInv is inductive.                                                    *)
LEMMA SemInvNext ==
    ASSUME SemaphoreAssumption, SemInv, [SemNext]_semVars
    PROVE  SemInv'
  BY OpenKeeps, WaitKeeps, PostKeeps, CloseKeeps, WaiterDies, NothingChanges
     DEF SemNext, Calls

(* The table, its queues and the states of the processes agree in every     *)
(* state, whoever is killed while it waits.                                 *)
THEOREM SemInvHolds == ASSUME SemaphoreAssumption PROVE SemSpec => []SemInv
<1>1. SemInit => SemInv
  BY SemBegins
<1>2. SemInv /\ [SemNext]_semVars => SemInv'
  BY SemInvNext
<1>. QED
  BY <1>1, <1>2, PTL DEF SemSpec

(* A token is counted only while nobody waits, so that a newcomer never     *)
(* takes one past the queue.                                                *)
THEOREM TokensAreHandedOver ==
    ASSUME SemaphoreAssumption PROVE SemSpec => []NoIdleToken
<1>1. SemInv => NoIdleToken
  BY DEF SemInv, GoodEntry, NoIdleToken
<1>. QED
  BY <1>1, SemInvHolds, PTL

(* A sleeper has one place, in a queue of a semaphore that exists, and who  *)
(* is awake has none.                                                       *)
THEOREM SleepersHaveOnePlace ==
    ASSUME SemaphoreAssumption PROVE SemSpec => []SleepersAreQueued
<1> DEFINE Places(p) == {x \in Names \X (1 .. MAX_PROCESSES) :
                           /\ x[2] \in DOMAIN sem_table[x[1]].waiting_processes
                           /\ sem_table[x[1]].waiting_processes[x[2]] = p}
<1>1. ASSUME SemInv, NEW p \in Processes, NEW x \in Places(p)
      PROVE  /\ x[1] \in Names /\ x[2] \in 1 .. Len(Queue(x[1]))
             /\ Queue(x[1])[x[2]] = p /\ x = <<x[1], x[2]>>
  BY <1>1, QueueFacts DEF Queue
<1>2. ASSUME SemInv, NEW p \in Processes, state[p] = "BLOCKED"
      PROVE  Cardinality(Places(p)) = 1
  <2>1. PICK n \in Names : \E i \in 1 .. Len(Queue(n)) : Queue(n)[i] = p
    BY <1>2 DEF SemInv, SleepersWait
  <2>2. PICK i \in 1 .. Len(Queue(n)) : Queue(n)[i] = p
    BY <2>1
  <2>3. i \in 1 .. MAX_PROCESSES /\ i \in DOMAIN Queue(n)
    <3>1. Len(Queue(n)) <= MAX_PROCESSES
      BY <1>2 DEF SemInv, GoodEntry, Queue
    <3>. QED
      BY <1>2, <3>1, QueueFacts DEF SemaphoreAssumption
  <2>4. <<n, i>> \in Places(p)
    BY <2>2, <2>3 DEF Queue
  <2>5. ASSUME NEW x \in Places(p) PROVE x = <<n, i>>
    <3>1. /\ x[1] \in Names /\ x[2] \in 1 .. Len(Queue(x[1]))
          /\ Queue(x[1])[x[2]] = Queue(n)[i] /\ x = <<x[1], x[2]>>
      BY <1>1, <1>2, <2>2
    <3>2. OnePlaceEach
      BY <1>2 DEF SemInv
    <3>3. x[1] = n /\ x[2] = i
      BY <3>1, <3>2 DEF OnePlaceEach
    <3>. QED
      BY <3>1, <3>3
  <2>. HIDE DEF Places
  <2>6. Places(p) = {<<n, i>>}
    BY <2>4, <2>5
  <2>. QED
    BY <2>6, FS_Singleton
<1>3. ASSUME SemInv, NEW p \in Processes, state[p] = "READY"
      PROVE  Places(p) = {}
  <2>1. ASSUME NEW x \in Places(p) PROVE FALSE
    <3>1. x[1] \in Names /\ x[2] \in 1 .. Len(Queue(x[1])) /\ Queue(x[1])[x[2]] = p
      BY <1>1, <1>3
    <3>. QED
      BY <1>3, <3>1 DEF SemInv, WaitersSleep
  <2>. QED
    BY <2>1
<1>4. SemInv => SleepersAreQueued
  BY <1>2, <1>3 DEF SleepersAreQueued
<1>. QED
  BY <1>4, SemInvHolds, PTL
-----------------------------------------------------------------------------
(* Order *)

(* Who wakes up was the first of a queue, or in one of a closed semaphore. *)
LEMMA WhoWakes ==
    ASSUME SemInv, [SemNext]_semVars, NEW p \in Processes,
           state[p] = "BLOCKED", state'[p] = "READY"
    PROVE  \E n \in Names : \/ Queue(n) # <<>> /\ p = Queue(n)[1]
                            \/ ~ sem_table'[n].used /\ p \in ToSet(Queue(n))
<1>1. ASSUME UNCHANGED state PROVE FALSE
  BY <1>1
<1>2. ASSUME NEW o \in Processes, Dies(o) PROVE FALSE
  BY <1>2 DEF Dies, SemInv, SemTypeOK
<1>3. ASSUME NEW n \in Names, NEW v \in InitialValues, sem_open(n, v) PROVE FALSE
  BY <1>1, <1>3 DEF sem_open
<1>4. ASSUME NEW n \in Names, NEW o \in Processes, sem_wait(o, n) PROVE FALSE
  BY <1>1, <1>4 DEF sem_wait, SemInv, SemTypeOK, semVars
<1>5. ASSUME NEW n \in Names, sem_post(n)
      PROVE  Queue(n) # <<>> /\ p = Queue(n)[1]
  <2>1. Queue(n) # <<>> /\ state' = Woken({Head(Queue(n))})
    BY <1>1, <1>5 DEF sem_post, Queue, semVars
  <2>2. p \in {Head(Queue(n))}
    BY <2>1, WokenProperties
  <2>. QED
    BY <2>1, <2>2, QueueFacts
<1>6. ASSUME NEW n \in Names, sem_close(n)
      PROVE  ~ sem_table'[n].used /\ p \in ToSet(Queue(n))
  <2>1. /\ sem_table' = [sem_table EXCEPT ![n] = SEM_FREE]
        /\ state' = Woken(ToSet(Queue(n)))
    BY <1>1, <1>6 DEF sem_close, Queue, semVars
  <2>2. p \in ToSet(Queue(n))
    BY <2>1, WokenProperties
  <2>. QED
    BY <2>1, <2>2 DEF SemInv, SemTypeOK, SEM_FREE
<1>. QED
  BY <1>1, <1>2, <1>3, <1>4, <1>5, <1>6 DEF SemNext, Calls, semVars

(* Of two sleepers of a semaphore that stays open, the one behind is never  *)
(* woken before the other: it is in no other queue, at no other place.      *)
THEOREM ServedInOrder ==
    ASSUME SemaphoreAssumption PROVE SemSpec => FirstComeFirstServed
<1> DEFINE InOrder ==
       \A n \in Names :
          LET queue == sem_table[n].waiting_processes
          IN  sem_table'[n].used =>
                 \A i, j \in DOMAIN queue :
                    /\ i < j
                    /\ state[queue[j]] = "BLOCKED"
                    /\ state'[queue[j]] = "READY"
                    => state'[queue[i]] # "BLOCKED"
<1>1. ASSUME SemInv, [SemNext]_semVars PROVE InOrder
  <2>1. ASSUME NEW n \in Names, sem_table'[n].used,
               NEW i \in 1 .. Len(Queue(n)), NEW j \in 1 .. Len(Queue(n)), i < j,
               state[Queue(n)[j]] = "BLOCKED", state'[Queue(n)[j]] = "READY"
        PROVE  FALSE
    <3> DEFINE p == Queue(n)[j]
    <3>1. p \in Processes /\ i >= 1
      BY <1>1, QueueFacts
    <3>2. PICK m \in Names : \/ Queue(m) # <<>> /\ p = Queue(m)[1]
                             \/ ~ sem_table'[m].used /\ p \in ToSet(Queue(m))
      BY <1>1, <2>1, <3>1, WhoWakes
    <3>3. PICK k \in 1 .. Len(Queue(m)) : /\ Queue(n)[j] = Queue(m)[k]
                                          /\ k = 1 \/ ~ sem_table'[m].used
      BY <1>1, <3>2, QueueFacts DEF ToSet
    <3>4. OnePlaceEach
      BY <1>1 DEF SemInv
    <3>5. n = m /\ j = k
      BY <3>3, <3>4 DEF OnePlaceEach
    <3>. QED
      BY <2>1, <3>1, <3>3, <3>5
  <2>2. \A n \in Names : DOMAIN sem_table[n].waiting_processes = 1 .. Len(Queue(n))
    BY <1>1, QueueFacts DEF Queue
  <2>. QED
    BY <2>1, <2>2 DEF Queue
<1>2. SemInv /\ [SemNext]_semVars => [InOrder]_semVars
  BY <1>1
<1>. QED
  BY <1>2, SemInvHolds, PTL DEF SemSpec, FirstComeFirstServed

-----------------------------------------------------------------------------
(* The calls as programs see them that fit the table of processes           *)

TableHoldsAll ==
    /\ SemaphoreAssumption
    /\ IsFiniteSet(Processes) /\ Cardinality(Processes) <= MAX_PROCESSES

Value(n) == sem_table[n].value

(* A process that is awake always finds room in a queue: those who sleep    *)
(* are others, and a queue is as long as the table of processes.            *)
LEMMA RoomToSleep ==
    ASSUME TableHoldsAll, SemInv, NEW n \in Names,
           NEW p \in Processes, state[p] = "READY"
    PROVE  Len(Queue(n)) < MAX_PROCESSES
<1> DEFINE k == Len(Queue(n))
           Others == Processes \ {p}
<1>1. /\ k \in Nat /\ DOMAIN Queue(n) = 1 .. k /\ Queue(n) \in Seq(Processes)
      /\ \A i \in 1 .. k : Queue(n)[i] \in Processes
  BY QueueFacts
<1>2. \A i \in 1 .. k : Queue(n)[i] # p
  BY <1>1 DEF SemInv, WaitersSleep
<1>3. IsFiniteSet(Others) /\ Cardinality(Others) = Cardinality(Processes) - 1
      /\ Cardinality(Processes) \in Nat
  BY FS_RemoveElement, FS_CardinalityType DEF TableHoldsAll
<1>4. Queue(n) \in Injection(1 .. k, Others)
  <2>1. Queue(n) \in [1 .. k -> Others]
    BY <1>1, <1>2
  <2>2. \A i, j \in 1 .. k : Queue(n)[i] = Queue(n)[j] => i = j
    BY DEF SemInv, OnePlaceEach
  <2>. QED
    BY <2>1, <2>2 DEF Injection, IsInjective
<1>5. IsFiniteSet(1 .. k) /\ Cardinality(1 .. k) = k
  <2>1. 1 \in Int /\ k \in Int /\ (1 > k => k = 0) /\ k - 1 + 1 = k
    BY <1>1
  <2>2. Cardinality(1 .. k) = IF 1 > k THEN 0 ELSE k - 1 + 1
    BY <2>1, FS_Interval, Zenon
  <2>3. IsFiniteSet(1 .. k)
    BY <2>1, FS_Interval, Zenon
  <2>. QED
    BY <2>1, <2>2, <2>3
<1>6. Cardinality(1 .. k) <= Cardinality(Others)
  BY <1>3, <1>4, <1>5, FS_Injection
<1>. QED
  BY <1>1, <1>3, <1>5, <1>6 DEF TableHoldsAll, SemaphoreAssumption

\* What a call does not touch.
Unmoved(n) ==
    /\ sem_table'[n].used = sem_table[n].used
    /\ sem_table'[n].users = sem_table[n].users
    /\ Value(n)' = Value(n)
    /\ Queue(n)' = Queue(n)

\* What a wait does.
LEMMA WaitEffect ==
    ASSUME TableHoldsAll, SemInv, NEW n \in Names, sem_table[n].used,
           NEW p \in Processes, state[p] = "READY", sem_wait(p, n)
    PROVE  /\ SemInv'
           /\ \A m \in Names \ {n} : Unmoved(m)
           /\ sem_table'[n].used /\ sem_table'[n].users = sem_table[n].users
           /\ \/ /\ Value(n) > 0 /\ Value(n)' = Value(n) - 1 /\ Queue(n)' = Queue(n)
                 /\ state' = state
              \/ /\ Value(n) = 0 /\ Value(n)' = 0
                 /\ Queue(n)' = Append(Queue(n), p)
                 /\ state' = [state EXCEPT ![p] = "BLOCKED"]
<1>1. SemInv'
  BY WaitKeeps DEF TableHoldsAll
<1>2. Len(Queue(n)) \in Nat /\ Len(Queue(n)) < MAX_PROCESSES /\ MAX_PROCESSES \in Nat
  BY RoomToSleep, QueueFacts DEF TableHoldsAll, SemaphoreAssumption
<1>3. sem_table \in [Names -> Sem] /\ sem_table[n] \in Sem /\ Value(n) \in Nat
  BY DEF SemInv, SemTypeOK, Sem, Value, TableHoldsAll, SemaphoreAssumption
<1>4. CASE Value(n) = 0
  <2>1. /\ sem_table' = [sem_table EXCEPT ![n].waiting_processes = Append(@, p)]
        /\ state' = [state EXCEPT ![p] = "BLOCKED"]
    BY <1>2, <1>4 DEF sem_wait, find_semaphore, MustWait, Value, Queue
  <2>. QED
    BY <1>1, <1>3, <1>4, <2>1 DEF Unmoved, Value, Queue, Sem
<1>5. CASE Value(n) > 0
  <2>1. sem_table' = [sem_table EXCEPT ![n].value = @ - 1] /\ state' = state
    BY <1>5 DEF sem_wait, find_semaphore, MustWait, Value
  <2>. QED
    BY <1>1, <1>3, <1>5, <2>1 DEF Unmoved, Value, Queue, Sem
<1>. QED
  BY <1>3, <1>4, <1>5

\* What a post does.
LEMMA PostEffect ==
    ASSUME TableHoldsAll, SemInv, NEW n \in Names, sem_table[n].used, Value(n) = 0,
           0 < MaxValue,
           sem_post(n), \A i \in 1 .. Len(Queue(n)) : state[Queue(n)[i]] # "TERMINATED"
    PROVE  /\ SemInv'
           /\ \A m \in Names \ {n} : Unmoved(m)
           /\ sem_table'[n].used /\ sem_table'[n].users = sem_table[n].users
           /\ \/ /\ Queue(n) = <<>> /\ Queue(n)' = <<>> /\ Value(n)' = 1
                 /\ state' = state
              \/ /\ Queue(n) # <<>> /\ Queue(n)' = Tail(Queue(n)) /\ Value(n)' = 0
                 /\ state' = [state EXCEPT ![Head(Queue(n))] = "READY"]
<1>1. SemInv'
  BY PostKeeps DEF TableHoldsAll, Value
<1>2. sem_table \in [Names -> Sem] /\ sem_table[n] \in Sem
  BY DEF SemInv, SemTypeOK
<1>3. CASE Queue(n) = <<>>
  <2>1. sem_table' = [sem_table EXCEPT ![n].value = @ + 1] /\ state' = state
    BY <1>3 DEF sem_post, find_semaphore, Queue
  <2>. QED
    BY <1>1, <1>2, <1>3, <2>1 DEF Unmoved, Value, Queue, Sem
<1>4. CASE Queue(n) # <<>>
  <2> DEFINE h == Head(Queue(n))
  <2>1. /\ sem_table' = [sem_table EXCEPT ![n].waiting_processes = Tail(@)]
        /\ state' = Woken({h})
    BY <1>4 DEF sem_post, find_semaphore, Queue
  <2>2. h = Queue(n)[1] /\ 1 \in 1 .. Len(Queue(n)) /\ h \in Processes
    BY <1>4, QueueFacts
  <2>3. state[h] = "BLOCKED" /\ state \in [Processes -> {"READY", "BLOCKED", "TERMINATED"}]
    BY <2>2 DEF SemInv, WaitersSleep, SemTypeOK
  <2>. HIDE DEF h
  <2>4. state' = [state EXCEPT ![h] = "READY"]
    BY <2>1, <2>3 DEF Woken
  <2>. QED
    BY <1>1, <1>2, <1>4, <2>1, <2>4 DEF Unmoved, Value, Queue, Sem, h
<1>. QED
  BY <1>3, <1>4

-----------------------------------------------------------------------------
(* The command mvar *)

MvarAssumptions == SemaphoreAssumption /\ MvarAssumption

Labels == {"none", "delay", "write", "announce", "read", "release", "print"}

Started == main \in {"create", "done"}

\* The workers that hold the token, each of its side.
Through ==
    {p \in Workers :
        state[p] = "READY" /\ pc[p] \in {"write", "announce", "read", "release"}}

Full == \E x \in Writers : pipe = <<x>>

OneToken ==
    \/ Through = {} /\ Value("empty") = 1 /\ Value("full") = 0 /\ pipe = <<>>
    \/ Through = {} /\ Value("empty") = 0 /\ Value("full") = 1 /\ Full
    \/ /\ Value("empty") = 0 /\ Value("full") = 0
       /\ \E p \in Workers :
             /\ Through = {p}
             /\ pc[p] \in {"write", "release"} => pipe = <<>>
             /\ pc[p] \in {"announce", "read"} => Full

Sleepers ==
    /\ \A i \in 1 .. Len(Queue("empty")) :
          Queue("empty")[i] \in Writers /\ pc[Queue("empty")[i]] = "write"
    /\ \A i \in 1 .. Len(Queue("full")) :
          Queue("full")[i] \in Readers /\ pc[Queue("full")[i]] = "read"

Types ==
    /\ pc \in [Workers -> Labels]
    /\ \A w \in Writers : pc[w] \notin {"read", "release", "print"}
    /\ \A r \in Readers : pc[r] \notin {"write", "announce"}
    /\ \A p \in Processes : state[p] # "TERMINATED"

(* What the main process has opened so far.                                *)
Preparing ==
    /\ \A p \in Workers : pc[p] = "none"
    /\ \A n \in Names : Queue(n) = <<>>
    /\ pipe = <<>>
    /\ main # "sem_full" => sem_table["empty"] = SEM_FREE
    /\ main = "sem_full" =>
          sem_table["empty"].used /\ Value("empty") = 1 /\ sem_table["empty"].users = 1
    /\ sem_table["full"] = SEM_FREE

Working ==
    /\ \A n \in Names : sem_table[n].used
    /\ OneToken
    /\ Sleepers

MvarInv ==
    /\ SemInv
    /\ Types
    /\ Started => Working
    /\ ~ Started => Preparing

\* The processes of mvar fit the table.
LEMMA MvarFits ==
    MvarAssumptions => TableHoldsAll /\ 0 < MaxValue
  BY DEF MvarAssumptions, MvarAssumption, TableHoldsAll, SemaphoreAssumption

-----------------------------------------------------------------------------
(* The token *)

(* A wait at semaphore n: the side of p, where it goes on and what it finds *)
(* in the pipe when it is let through.                                      *)
LEMMA TakeToken ==
    ASSUME MvarAssumptions, MvarInv, Working,
           NEW n \in Names, NEW l, NEW p,
           \/ n = "empty" /\ l = "write" /\ p \in Writers
           \/ n = "full" /\ l = "read" /\ p \in Readers,
           At(p, "delay"), sem_wait(p, n), Goto(p, l), UNCHANGED <<mainVars, pipe>>
    PROVE  MvarInv'
<1>1. /\ Names = {"empty", "full"} /\ Writers \intersect Readers = {}
      /\ Workers = Writers \union Readers /\ Workers \subseteq Processes
      /\ p \in Workers /\ p \in Processes
  BY DEF MvarAssumptions, MvarAssumption, Workers
<1>2. /\ SemInv'
      /\ \A m \in Names \ {n} : Unmoved(m)
      /\ sem_table'[n].used
      /\ \/ /\ Value(n) > 0 /\ Value(n)' = Value(n) - 1 /\ Queue(n)' = Queue(n)
            /\ state' = state
         \/ /\ Value(n) = 0 /\ Value(n)' = 0
            /\ Queue(n)' = Append(Queue(n), p)
            /\ state' = [state EXCEPT ![p] = "BLOCKED"]
  BY <1>1, MvarFits, WaitEffect DEF MvarInv, Working, At
<1>3. \A m \in Names : sem_table'[m].used
  BY <1>2 DEF Working, Unmoved
<1>4. /\ pc' = [pc EXCEPT ![p] = l] /\ main' = main /\ pipe' = pipe
      /\ pc[p] = "delay" /\ state[p] = "READY"
      /\ pc \in [Workers -> Labels]
      /\ state \in [Processes -> {"READY", "BLOCKED", "TERMINATED"}]
  BY DEF Goto, At, mainVars, MvarInv, Types, SemInv, SemTypeOK
<1>5. Types'
  BY <1>1, <1>2, <1>4 DEF MvarInv, Types, Labels
<1>6. \A m \in Names : \A i \in 1 .. Len(Queue(m)) :
         /\ pc'[Queue(m)[i]] = pc[Queue(m)[i]]
         /\ Queue(m)[i] \in Processes
  BY <1>1, <1>4, QueueFacts DEF Working, Sleepers, MvarInv
<1>7. Sleepers'
  <2>1. \A m \in Names \ {n} : Queue(m)' = Queue(m)
    BY <1>2 DEF Unmoved
  <2>2. \A i \in 1 .. Len(Queue(n))' :
           \/ i \in 1 .. Len(Queue(n)) /\ Queue(n)'[i] = Queue(n)[i]
           \/ Queue(n)'[i] = p
    <3>1. CASE Queue(n)' = Queue(n)
      BY <3>1
    <3>2. CASE Queue(n)' = Append(Queue(n), p)
      BY <1>1, <3>2, QueueFacts, AppendProperties DEF MvarInv
    <3>. QED
      BY <1>2, <3>1, <3>2
  <2>3. pc'[p] = l
    BY <1>1, <1>4
  <2>4. Sleepers
    BY DEF Working
  <2>. QED
    BY <1>1, <1>6, <2>1, <2>2, <2>3, <2>4 DEF Sleepers
<1>8. OneToken'
  <2>1. CASE Value(n) > 0 /\ Value(n)' = Value(n) - 1 /\ state' = state
    <3>1. Through = {}
      BY <1>1, <2>1 DEF Working, OneToken
    <3>2. Through' = {p}
      BY <1>1, <1>4, <2>1, <3>1 DEF Through
    <3>3. \A m \in Names : Value(m)' = 0
      BY <1>1, <1>2, <2>1 DEF Working, OneToken, Unmoved
    <3>4. l = "write" => pipe = <<>>
      BY <2>1 DEF Working, OneToken
    <3>5. l = "read" => Full
      BY <2>1 DEF Working, OneToken
    <3>. QED
      BY <1>1, <1>4, <3>2, <3>3, <3>4, <3>5 DEF OneToken, Full, Value
  <2>2. CASE Value(n) = 0 /\ Value(n)' = 0 /\ state' = [state EXCEPT ![p] = "BLOCKED"]
    <3>1. Through' = Through /\ p \notin Through
      BY <1>1, <1>4, <2>2 DEF Through
    <3>2. \A m \in Names : Value(m)' = Value(m)
      BY <1>1, <1>2, <2>2 DEF Unmoved
    <3>3. \A q \in Through : pc'[q] = pc[q]
      BY <1>4, <3>1 DEF Through
    <3>. QED
      BY <1>1, <1>4, <3>1, <3>2, <3>3 DEF Working, OneToken, Full
  <2>. QED
    BY <1>2, <2>1, <2>2
<1>9. Started' = Started /\ Started
  BY <1>4, <1>1 DEF MvarInv, Preparing, Started, At
<1>. QED
  BY <1>2, <1>3, <1>5, <1>7, <1>8, <1>9 DEF MvarInv, Working

(* The token goes to the head of the other side, or into the semaphore.     *)
LEMMA PassToken ==
    ASSUME MvarAssumptions, MvarInv, Working,
           NEW n \in Names, NEW l, NEW p \in Workers,
           \/ n = "full" /\ pc[p] = "announce" /\ l = "delay"
           \/ n = "empty" /\ pc[p] = "release" /\ l = "print",
           state[p] = "READY", sem_post(n), Goto(p, l), UNCHANGED <<mainVars, pipe>>
    PROVE  MvarInv'
<1>1. /\ Names = {"empty", "full"} /\ Writers \intersect Readers = {}
      /\ Workers = Writers \union Readers /\ Workers \subseteq Processes
      /\ p \in Processes
  BY DEF MvarAssumptions, MvarAssumption, Workers
<1>2. /\ Through = {p} /\ \A m \in Names : Value(m) = 0
      /\ pc[p] = "release" => pipe = <<>>
      /\ pc[p] = "announce" => Full
  <2>1. p \in Through
    BY DEF Through
  <2>. QED
    BY <1>1, <2>1 DEF Working, OneToken
<1>3. /\ SemInv'
      /\ \A m \in Names \ {n} : Unmoved(m)
      /\ sem_table'[n].used
      /\ \/ /\ Queue(n) = <<>> /\ Queue(n)' = <<>> /\ Value(n)' = 1
            /\ state' = state
         \/ /\ Queue(n) # <<>> /\ Queue(n)' = Tail(Queue(n)) /\ Value(n)' = 0
            /\ state' = [state EXCEPT ![Head(Queue(n))] = "READY"]
  <2>1. \A i \in 1 .. Len(Queue(n)) : state[Queue(n)[i]] # "TERMINATED"
    BY QueueFacts DEF MvarInv, Types
  <2>. QED
    BY <1>2, <2>1, MvarFits, PostEffect DEF MvarInv, Working
<1>4. \A m \in Names : sem_table'[m].used
  BY <1>3 DEF Working, Unmoved
<1>5. /\ pc' = [pc EXCEPT ![p] = l] /\ main' = main /\ pipe' = pipe
      /\ pc \in [Workers -> Labels]
      /\ state \in [Processes -> {"READY", "BLOCKED", "TERMINATED"}]
  BY DEF Goto, mainVars, MvarInv, Types, SemInv, SemTypeOK
<1>6. Types'
  <2>1. \A q \in Processes : state'[q] # "TERMINATED"
    BY <1>3, <1>5 DEF MvarInv, Types
  <2>2. p \in Readers => l # "delay"
    BY DEF MvarInv, Types
  <2>3. p \in Writers => l # "print"
    BY DEF MvarInv, Types
  <2>. QED
    BY <1>1, <1>5, <2>1, <2>2, <2>3 DEF MvarInv, Types, Labels
<1>7. \A m \in Names : \A i \in 1 .. Len(Queue(m)) :
         /\ Queue(m)[i] # p /\ Queue(m)[i] \in Workers
         /\ pc'[Queue(m)[i]] = pc[Queue(m)[i]]
  <2>1. \A m \in Names : \A i \in 1 .. Len(Queue(m)) : Queue(m)[i] # p
    BY DEF MvarInv, SemInv, WaitersSleep
  <2>2. \A m \in Names : \A i \in 1 .. Len(Queue(m)) : Queue(m)[i] \in Workers
    BY <1>1 DEF Working, Sleepers
  <2>. QED
    BY <1>5, <2>1, <2>2
<1>8. Sleepers'
  <2>1. \A m \in Names \ {n} : Queue(m)' = Queue(m)
    BY <1>3 DEF Unmoved
  <2>2. \A i \in 1 .. Len(Queue(n))' :
           \E j \in 1 .. Len(Queue(n)) : Queue(n)'[i] = Queue(n)[j]
    <3>1. CASE Queue(n)' = Queue(n)
      BY <3>1
    <3>2. CASE Queue(n) # <<>> /\ Queue(n)' = Tail(Queue(n))
      BY <3>2, QueueFacts, HeadTailProperties DEF MvarInv
    <3>. QED
      BY <1>3, <3>1, <3>2
  <2>3. Sleepers
    BY DEF Working
  <2>4. \A m \in Names : \A i \in 1 .. Len(Queue(m))' :
           \E j \in 1 .. Len(Queue(m)) :
              Queue(m)'[i] = Queue(m)[j] /\ pc'[Queue(m)[j]] = pc[Queue(m)[j]]
    BY <1>7, <2>1, <2>2
  <2>5. \A i \in 1 .. Len(Queue("empty"))' :
           Queue("empty")'[i] \in Writers /\ pc'[Queue("empty")'[i]] = "write"
    BY <1>1, <2>3, <2>4 DEF Sleepers
  <2>6. \A i \in 1 .. Len(Queue("full"))' :
           Queue("full")'[i] \in Readers /\ pc'[Queue("full")'[i]] = "read"
    BY <1>1, <2>3, <2>4 DEF Sleepers
  <2>. QED
    BY <2>5, <2>6 DEF Sleepers
<1>9. OneToken'
  <2>1. CASE Queue(n) = <<>> /\ Value(n)' = 1 /\ state' = state
    <3>1. Through' = {}
      BY <1>1, <1>2, <1>5, <2>1 DEF Through
    <3>2. \A m \in Names \ {n} : Value(m)' = 0
      BY <1>2, <1>3 DEF Unmoved
    <3>. QED
      BY <1>1, <1>2, <1>5, <2>1, <3>1, <3>2 DEF OneToken, Full
  <2>2. CASE /\ Queue(n) # <<>> /\ Value(n)' = 0
             /\ state' = [state EXCEPT ![Head(Queue(n))] = "READY"]
    <3> DEFINE h == Head(Queue(n))
    <3>1. h = Queue(n)[1] /\ 1 \in 1 .. Len(Queue(n))
      BY <2>2, QueueFacts DEF MvarInv
    <3>. HIDE DEF h
    <3>2. h \in Workers /\ h # p /\ pc'[h] = pc[h] /\ h \in Processes
      BY <1>1, <1>7, <3>1
    <3>3. pc[h] = IF n = "empty" THEN "write" ELSE "read"
      BY <1>1, <3>1 DEF Working, Sleepers
    <3>4. state' = [state EXCEPT ![h] = "READY"]
      BY <2>2 DEF h
    <3>5. Through' = {h}
      BY <1>1, <1>2, <1>5, <3>2, <3>3, <3>4 DEF Through
    <3>6. \A m \in Names : Value(m)' = 0
      BY <1>2, <1>3, <2>2 DEF Unmoved
    <3>. QED
      BY <1>1, <1>2, <1>5, <3>2, <3>3, <3>5, <3>6 DEF OneToken, Full
  <2>. QED
    BY <1>3, <2>1, <2>2
<1>10. Started' = Started /\ Started
  <2>1. pc[p] # "none"
    OBVIOUS
  <2>. QED
    BY <1>5, <2>1 DEF MvarInv, Preparing, Started
<1>. QED
  BY <1>3, <1>4, <1>6, <1>8, <1>9, <1>10 DEF MvarInv, Working

(* Between a wait and a post the holder works on the pipe.                  *)
LEMMA WriteStep ==
    ASSUME MvarAssumptions, MvarInv, Working, NEW w \in Writers, Write(w)
    PROVE  MvarInv' /\ Cell!Put(w)
<1>1. /\ w \in Workers /\ Writers \intersect Readers = {}
      /\ pc \in [Workers -> Labels] /\ pc[w] = "write" /\ state[w] = "READY"
  BY DEF MvarAssumptions, MvarAssumption, Workers, MvarInv, Types, Write, At
<1>2. Through = {w} /\ Value("empty") = 0 /\ Value("full") = 0 /\ pipe = <<>>
  <2>1. w \in Through
    BY <1>1 DEF Through
  <2>. QED
    BY <1>1, <2>1 DEF Working, OneToken
<1>3. /\ pc' = [pc EXCEPT ![w] = "announce"] /\ pipe' = <<w>>
      /\ UNCHANGED <<sem_table, state, main>>
  BY <1>2 DEF Write, Goto, semVars, mainVars
<1>4. SemInv' /\ \A n \in Names : Queue(n)' = Queue(n)
  BY NothingChanges DEF Write, MvarInv, Queue, semVars
<1>5. Types'
  BY <1>1, <1>3 DEF MvarInv, Types, Labels
<1>6. Sleepers'
  <2>1. \A n \in Names : \A i \in 1 .. Len(Queue(n)) : Queue(n)[i] # w
    BY <1>1 DEF MvarInv, SemInv, WaitersSleep
  <2>2. Names = {"empty", "full"} /\ Workers = Writers \union Readers
    BY DEF MvarAssumptions, MvarAssumption, Workers
  <2>. QED
    BY <1>1, <1>3, <1>4, <2>1, <2>2 DEF Working, Sleepers
<1>7. OneToken'
  <2>1. Through' = {w}
    BY <1>1, <1>2, <1>3 DEF Through
  <2>. QED
    BY <1>1, <1>2, <1>3, <2>1 DEF OneToken, Full, Value
<1>8. Started' = Started /\ Started
  <2>1. pc[w] # "none"
    BY <1>1
  <2>. QED
    BY <1>1, <1>3, <2>1 DEF MvarInv, Preparing, Started
<1>9. Cell!Put(w)
  BY <1>2, <1>3 DEF Cell!Put
<1>. QED
  BY <1>3, <1>4, <1>5, <1>6, <1>7, <1>8, <1>9 DEF MvarInv, Working

(* A reader takes the value.                                               *)
LEMMA ReadStep ==
    ASSUME MvarAssumptions, MvarInv, Working, NEW r \in Readers, Read(r)
    PROVE  MvarInv' /\ Cell!Take
<1>1. /\ r \in Workers /\ Writers \intersect Readers = {}
      /\ pc \in [Workers -> Labels] /\ pc[r] = "read" /\ state[r] = "READY"
  BY DEF MvarAssumptions, MvarAssumption, Workers, MvarInv, Types, Read, At
<1>2. Through = {r} /\ Value("empty") = 0 /\ Value("full") = 0 /\ Full
  <2>1. r \in Through
    BY <1>1 DEF Through
  <2>. QED
    BY <1>1, <2>1 DEF Working, OneToken
<1>3. /\ pc' = [pc EXCEPT ![r] = "release"] /\ pipe' = <<>> /\ pipe # <<>>
      /\ UNCHANGED <<sem_table, state, main>>
  BY <1>2 DEF Read, Goto, semVars, mainVars, Full
<1>4. SemInv' /\ \A n \in Names : Queue(n)' = Queue(n)
  BY NothingChanges DEF Read, MvarInv, Queue, semVars
<1>5. Types'
  BY <1>1, <1>3 DEF MvarInv, Types, Labels
<1>6. Sleepers'
  <2>1. \A n \in Names : \A i \in 1 .. Len(Queue(n)) : Queue(n)[i] # r
    BY <1>1 DEF MvarInv, SemInv, WaitersSleep
  <2>2. Names = {"empty", "full"} /\ Workers = Writers \union Readers
    BY DEF MvarAssumptions, MvarAssumption, Workers
  <2>. QED
    BY <1>1, <1>3, <1>4, <2>1, <2>2 DEF Working, Sleepers
<1>7. OneToken'
  <2>1. Through' = {r}
    BY <1>1, <1>2, <1>3 DEF Through
  <2>. QED
    BY <1>1, <1>2, <1>3, <2>1 DEF OneToken, Value
<1>8. Started' = Started /\ Started
  <2>1. pc[r] # "none"
    BY <1>1
  <2>. QED
    BY <1>1, <1>3, <2>1 DEF MvarInv, Preparing, Started
<1>9. Cell!Take
  BY <1>3 DEF Cell!Take
<1>. QED
  BY <1>3, <1>4, <1>5, <1>6, <1>7, <1>8, <1>9 DEF MvarInv, Working

(* It prints it and posts that the cell is empty.                          *)
LEMMA PrintStep ==
    ASSUME MvarAssumptions, MvarInv, Working, NEW r \in Readers, PrintValue(r)
    PROVE  MvarInv'
<1>1. /\ r \in Workers /\ Writers \intersect Readers = {}
      /\ pc \in [Workers -> Labels] /\ pc[r] = "print" /\ state[r] = "READY"
      /\ pc' = [pc EXCEPT ![r] = "delay"]
      /\ UNCHANGED <<sem_table, state, main, pipe>>
  BY DEF MvarAssumptions, MvarAssumption, Workers, MvarInv, Types, PrintValue, At, Goto,
         semVars, mainVars
<1>2. SemInv' /\ \A n \in Names : Queue(n)' = Queue(n)
  BY <1>1, NothingChanges DEF MvarInv, Queue, semVars
<1>3. Types'
  BY <1>1 DEF MvarInv, Types, Labels
<1>4. Sleepers'
  <2>1. \A n \in Names : \A i \in 1 .. Len(Queue(n)) : Queue(n)[i] # r
    BY <1>1 DEF MvarInv, SemInv, WaitersSleep
  <2>2. Names = {"empty", "full"} /\ Workers = Writers \union Readers
    BY DEF MvarAssumptions, MvarAssumption, Workers
  <2>. QED
    BY <1>1, <1>2, <2>1, <2>2 DEF Working, Sleepers
<1>5. OneToken'
  <2>1. Through' = Through /\ r \notin Through
    BY <1>1 DEF Through
  <2>2. \A q \in Through : pc'[q] = pc[q]
    BY <1>1, <2>1 DEF Through
  <2>. QED
    BY <1>1, <2>1, <2>2 DEF Working, OneToken, Full, Value
<1>6. Started' = Started /\ Started
  <2>1. pc[r] # "none"
    BY <1>1
  <2>. QED
    BY <1>1, <2>1 DEF MvarInv, Preparing, Started
<1>. QED
  BY <1>1, <1>2, <1>3, <1>4, <1>5, <1>6 DEF MvarInv, Working

(* Main creates a worker.                                                  *)
LEMMA CreateStep ==
    ASSUME MvarAssumptions, MvarInv, CreateWorker
    PROVE  MvarInv' /\ pipe' = pipe
<1>1. /\ Started /\ Started' /\ Working
      /\ UNCHANGED <<sem_table, state, main, pipe>>
  BY DEF CreateWorker, Started, MvarInv, semVars
<1>2. SemInv' /\ \A n \in Names : Queue(n)' = Queue(n)
  BY <1>1, NothingChanges DEF MvarInv, Queue, semVars
<1>3. CASE pc' = pc
  <2>1. Types' /\ Sleepers'
    BY <1>1, <1>3 DEF MvarInv, Types, Working, Sleepers, Queue
  <2>2. OneToken'
    BY <1>1, <1>3 DEF Working, OneToken, Through, Full, Value
  <2>. QED
    BY <1>1, <1>2, <2>1, <2>2 DEF MvarInv, Working
<1>4. CASE pc' # pc
  <2>1. PICK p \in Workers : pc[p] = "none" /\ pc' = [pc EXCEPT ![p] = "delay"]
    BY <1>4 DEF CreateWorker, NextToCreate, Uncreated, Workers
  <2>2. pc \in [Workers -> Labels] /\ Names = {"empty", "full"}
        /\ Workers = Writers \union Readers
    BY DEF MvarInv, Types, MvarAssumptions, MvarAssumption, Workers
  <2>3. Types'
    BY <1>1, <2>1, <2>2 DEF MvarInv, Types, Labels
  <2>4. Sleepers'
    BY <1>1, <1>2, <2>1, <2>2 DEF Working, Sleepers
  <2>5. Through' = Through /\ p \notin Through
    BY <1>1, <2>1, <2>2 DEF Through
  <2>6. \A q \in Through : pc'[q] = pc[q]
    BY <2>1, <2>2, <2>5 DEF Through
  <2>7. OneToken'
    BY <1>1, <2>2, <2>5, <2>6 DEF Working, OneToken, Full, Value
  <2>. QED
    BY <1>1, <1>2, <2>3, <2>4, <2>7 DEF MvarInv, Working
<1>. QED
  BY <1>1, <1>3, <1>4

-----------------------------------------------------------------------------
(* The main process, before there are workers *)

(* Nobody sleeps yet.                                                       *)
LEMMA NobodySleeps ==
    ASSUME MvarInv, Preparing
    PROVE  state = [p \in Processes |-> "READY"]
<1>1. state \in [Processes -> {"READY", "BLOCKED", "TERMINATED"}]
  BY DEF MvarInv, SemInv, SemTypeOK
<1>2. \A n \in Names : 1 .. Len(Queue(n)) = {}
  BY QueueFacts DEF Preparing, MvarInv
<1>3. \A p \in Processes : state[p] = "READY"
  BY <1>1, <1>2 DEF MvarInv, Types, SemInv, SleepersWait
<1>. QED
  BY <1>1, <1>3

(* The steps of main keep the invariant and the cell.                      *)
LEMMA MainStepKeeps ==
    ASSUME MvarAssumptions, MvarInv, MainNext
    PROVE  MvarInv' /\ pipe' = pipe
<1>1. /\ Names = {"empty", "full"} /\ MAX_SEMAPHORES > 1 /\ MAX_SEMAPHORES \in Nat
      /\ 0 \in InitialValues /\ 1 \in InitialValues
  BY DEF MvarAssumptions, MvarAssumption, SemaphoreAssumption
<1>2. sem_table \in [Names -> Sem] /\ SemaphoreAssumption
  BY DEF MvarInv, SemInv, SemTypeOK, MvarAssumptions
<1>3. CASE Allocate \/ OpenPipe \/ MallocRefused \/ PipeRefused \/ EmptyRefused
  <2>1. /\ UNCHANGED <<semVars, pc, pipe>> /\ ~ Started /\ ~ Started'
        /\ main # "sem_full" /\ main' # "sem_full"
    BY <1>3 DEF Allocate, OpenPipe, MallocRefused, PipeRefused, EmptyRefused,
               MainStep, Started
  <2>2. SemInv'
    BY <2>1, NothingChanges DEF MvarInv
  <2>. QED
    BY <2>1, <2>2 DEF MvarInv, Types, Preparing, Queue, Value, semVars
<1>4. CASE OpenEmpty
  <2>1. /\ ~ Started /\ ~ Started' /\ main = "sem_empty" /\ main' = "sem_full"
        /\ UNCHANGED <<pipe, pc>> /\ Preparing /\ sem_open("empty", 1)
    BY <1>4 DEF OpenEmpty, MainStep, Started, MvarInv
  <2>2. \A n \in Names : sem_table[n] = SEM_FREE /\ ~ sem_table[n].used
    BY <1>1, <2>1 DEF Preparing, SEM_FREE
  <2>3. ~ TableIsFull
    <3>1. {n \in Names : sem_table[n].used} = {}
      BY <2>2
    <3>. QED
      BY <1>1, <3>1, FS_EmptySet DEF TableIsFull
  <2>4. /\ sem_table' = [sem_table EXCEPT !["empty"] =
                            [SEM_FREE EXCEPT !.used = TRUE, !.users = 1, !.value = 1]]
        /\ state' = state
    BY <1>1, <2>1, <2>2, <2>3 DEF sem_open, find_semaphore
  <2>5. SemInv'
    BY <1>1, <1>2, <2>1, OpenKeeps DEF MvarInv
  <2>. QED
    BY <1>1, <1>2, <2>1, <2>2, <2>4, <2>5
       DEF MvarInv, Types, Preparing, Queue, Value, SEM_FREE
<1>5. CASE OpenFull
  <2>1. /\ ~ Started /\ Started' /\ main = "sem_full"
        /\ UNCHANGED <<pipe, pc>> /\ Preparing /\ sem_open("full", 0)
    BY <1>5 DEF OpenFull, MainStep, Started, MvarInv
  <2>2. /\ sem_table["full"] = SEM_FREE /\ ~ sem_table["full"].used
        /\ sem_table["empty"].used /\ Value("empty") = 1
        /\ \A n \in Names : Queue(n) = <<>>
        /\ pipe = <<>> /\ \A p \in Workers : pc[p] = "none"
    BY <1>1, <2>1 DEF Preparing, SEM_FREE
  <2>3. ~ TableIsFull
    <3>1. {n \in Names : sem_table[n].used} = {"empty"}
      BY <1>1, <2>2
    <3>. QED
      BY <1>1, <3>1, FS_Singleton DEF TableIsFull
  <2>4. /\ sem_table' = [sem_table EXCEPT !["full"] =
                            [SEM_FREE EXCEPT !.used = TRUE, !.users = 1, !.value = 0]]
        /\ state' = state
    BY <1>1, <2>1, <2>2, <2>3 DEF sem_open, find_semaphore
  <2>5. SemInv'
    BY <1>1, <1>2, <2>1, OpenKeeps DEF MvarInv
  <2>6. /\ \A n \in Names : sem_table'[n].used /\ Queue(n)' = <<>>
        /\ Value("empty")' = 1 /\ Value("full")' = 0
    BY <1>1, <1>2, <2>2, <2>4 DEF Queue, Value, SEM_FREE
  <2>7. Through' = {}
    BY <2>1, <2>2 DEF Through
  <2>8. Working'
    <3>1. 1 .. Len(<<>>) = {}
      OBVIOUS
    <3>2. Sleepers'
      BY <1>1, <2>6, <3>1 DEF Sleepers
    <3>. QED
      BY <1>1, <2>1, <2>2, <2>6, <2>7, <3>2 DEF Working, OneToken
  <2>. QED
    BY <2>1, <2>4, <2>5, <2>8 DEF MvarInv, Types
<1>6. CASE FullRefused
  <2>1. /\ ~ Started /\ ~ Started' /\ main = "sem_full" /\ main' = "failed"
        /\ UNCHANGED <<pipe, pc>> /\ Preparing /\ sem_close("empty")
    BY <1>6 DEF FullRefused, MainStep, Started, MvarInv
  <2>2. /\ sem_table["empty"].used /\ sem_table["empty"].users = 1
        /\ \A n \in Names : Queue(n) = <<>>
        /\ sem_table["full"] = SEM_FREE
    BY <1>1, <2>1 DEF Preparing
  <2>3. sem_table' = [sem_table EXCEPT !["empty"] = SEM_FREE]
    BY <2>1, <2>2 DEF sem_close, find_semaphore, IsLastUser
  <2>4. state' = state
    <3>1. state' = Woken(ToSet(Queue("empty")))
      BY <2>1, <2>2 DEF sem_close, find_semaphore, IsLastUser, Queue
    <3>2. state = [p \in Processes |-> "READY"]
      BY <2>1, NobodySleeps
    <3>. QED
      BY <3>1, <3>2 DEF Woken
  <2>5. SemInv'
    BY <1>1, <1>2, <2>1, CloseKeeps DEF MvarInv
  <2>. QED
    BY <1>1, <1>2, <2>1, <2>2, <2>3, <2>4, <2>5
       DEF MvarInv, Types, Preparing, Queue, Value, SEM_FREE
<1>7. CASE MainEnds
  <2>1. /\ UNCHANGED <<semVars, pc, pipe>> /\ Started /\ Started' /\ Working
    BY <1>7 DEF MainEnds, Started, MvarInv
  <2>2. SemInv'
    BY <2>1, NothingChanges DEF MvarInv
  <2>. QED
    BY <2>1, <2>2 DEF MvarInv, Types, Working, Sleepers, OneToken, Through, Full, Queue,
                     Value, semVars
<1>. QED
  BY <1>3, <1>4, <1>5, <1>6, <1>7, CreateStep DEF MainNext

-----------------------------------------------------------------------------
(* Nothing is open yet.                                                    *)
LEMMA MvarBegins == ASSUME MvarAssumptions, MvarInit PROVE MvarInv
<1>1. SemInv
  BY SemBegins DEF MvarAssumptions, MvarInit
<1>2. \A n \in Names : sem_table[n] = SEM_FREE /\ Queue(n) = <<>>
  BY DEF MvarInit, SemInit, Queue, SEM_FREE
<1>3. Workers \subseteq Processes /\ Names = {"empty", "full"}
  BY DEF MvarAssumptions, MvarAssumption, Workers
<1>. QED
  BY <1>1, <1>2, <1>3 DEF MvarInit, SemInit, MvarInv, Types, Labels, Started, Preparing,
                         Workers

\* What a step may do to the cell.
CellStep == Cell!Take \/ \E v \in Writers : Cell!Put(v)

(* Every step keeps MvarInv and is one of the cell's, or leaves it alone.  *)
LEMMA MvarStep ==
    ASSUME MvarAssumptions, MvarInv, [MvarNext]_mvarVars
    PROVE  MvarInv' /\ (CellStep \/ pipe' = pipe)
<1>1. ASSUME NEW w \in Writers, WriterNext(w)
      PROVE  MvarInv' /\ (CellStep \/ pipe' = pipe)
  <2>1. Working
    BY <1>1 DEF MvarInv, Preparing, Workers, WriterNext, WaitEmpty, Write, PostFull, At
  <2>2. CASE WaitEmpty(w)
    BY <1>1, <2>1, <2>2, TakeToken DEF WaitEmpty, MvarAssumptions, MvarAssumption
  <2>3. CASE Write(w)
    BY <2>1, <2>3, WriteStep DEF CellStep
  <2>4. CASE PostFull(w)
    BY <2>1, <2>4, PassToken
       DEF PostFull, At, MvarAssumptions, MvarAssumption, Workers
  <2>. QED
    BY <1>1, <2>2, <2>3, <2>4 DEF WriterNext
<1>2. ASSUME NEW r \in Readers, ReaderNext(r)
      PROVE  MvarInv' /\ (CellStep \/ pipe' = pipe)
  <2>1. Working
    BY <1>2 DEF MvarInv, Preparing, Workers, ReaderNext, WaitFull, Read, PostEmpty,
               PrintValue, At
  <2>2. CASE WaitFull(r)
    BY <1>2, <2>1, <2>2, TakeToken DEF WaitFull, MvarAssumptions, MvarAssumption
  <2>3. CASE Read(r)
    BY <2>1, <2>3, ReadStep DEF CellStep
  <2>4. CASE PostEmpty(r)
    BY <2>1, <2>4, PassToken
       DEF PostEmpty, At, MvarAssumptions, MvarAssumption, Workers
  <2>5. CASE PrintValue(r)
    BY <2>1, <2>5, PrintStep DEF PrintValue
  <2>. QED
    BY <1>2, <2>2, <2>3, <2>4, <2>5 DEF ReaderNext
<1>3. CASE UNCHANGED mvarVars
  <2>1. SemInv'
    BY <1>3, NothingChanges DEF MvarInv, mvarVars
  <2>. QED
    BY <1>3, <2>1 DEF mvarVars, mainVars, semVars, MvarInv, Types, Started, Working,
          Preparing, Sleepers, OneToken, Through, Full, Queue, Value
<1>. QED
  BY <1>1, <1>2, <1>3, MainStepKeeps DEF MvarNext

(* There is at most one token and one byte, whatever the main process was   *)
(* refused.                                                                 *)
THEOREM MvarInvHolds == ASSUME MvarAssumptions PROVE MvarSpec => []MvarInv
<1>1. MvarInit => MvarInv
  BY MvarBegins
<1>2. MvarInv /\ [MvarNext]_mvarVars => MvarInv'
  BY MvarStep
<1>. QED
  BY <1>1, <1>2, PTL DEF MvarSpec

(* However writers and readers interleave, and however many they are, the   *)
(* pipe is an MVar: a value is put only where there is none and taken once. *)
THEOREM PipeIsAnMVar == ASSUME MvarAssumptions PROVE MvarSpec => MVarSpec
<1>1. MvarInit => Cell!MVarInit
  BY DEF MvarInit, Cell!MVarInit
<1>2. MvarInv /\ [MvarNext]_mvarVars => [CellStep]_pipe
  BY MvarStep
<1>. QED
  BY <1>1, <1>2, MvarInvHolds, PTL DEF MvarSpec, MVarSpec, Cell!MVarSpec, CellStep

-----------------------------------------------------------------------------
(* test_sync *)

SyncAssumptions == SemaphoreAssumption /\ TestSyncAssumption

\* Between its sem_open and its sem_close.
HasOpen == {p \in Adders : stage[p] \in {"wait", "load", "store", "post", "close"}}

\* With the token: past its sem_wait, and not asleep in it.
Inside == {p \in Adders : state[p] = "READY" /\ stage[p] \in {"load", "store", "post"}}

\* The rounds of which p has written its sum.
Added(p) == IF stage[p] = "post" THEN round[p] + 1 ELSE round[p]

\* The additions made so far by the processes of S.
Additions(S) == {x \in S \X (1 .. N) : x[2] <= Added(x[1])}

SyncTypes ==
    /\ stage \in [Adders -> Label]
    /\ round \in [Adders -> 0 .. N]
    /\ aux \in [Adders -> Int]
    /\ global \in Int

\* How far a worker is, by its stage.
RoundsOfStage ==
    \A p \in Adders :
       /\ stage[p] = "open" => round[p] = 0
       /\ stage[p] \in {"wait", "load", "store", "post"} => round[p] < N
       /\ stage[p] \in {"close", "exit", "done"} => round[p] = N

\* Who sleeps is in its sem_wait, and who has ended was done.
AwayFromCpu ==
    \A p \in Adders :
       /\ state[p] = "BLOCKED" => stage[p] = "load"
       /\ state[p] = "TERMINATED" => stage[p] = "done"

\* Whoever is in the queue is a worker and sleeps.
QueueSleeps ==
    \A i \in 1 .. Len(Queue(SEM_ID)) :
       Queue(SEM_ID)[i] \in Adders /\ state[Queue(SEM_ID)[i]] = "BLOCKED"

\* The one semaphore exists while somebody has it open, with one token.
OneLock ==
    /\ \A n \in Names \ {SEM_ID} : ~ sem_table[n].used
    /\ ~ sem_table[SEM_ID].used => HasOpen = {}
    /\ sem_table[SEM_ID].used =>
          /\ sem_table[SEM_ID].users = Cardinality(HasOpen)
          /\ \/ Inside = {} /\ Value(SEM_ID) = 1
             \/ Value(SEM_ID) = 0 /\ \E p \in Adders : Inside = {p}

\* Between its reading and its writing nobody has changed the variable.
CopyIsCurrent == \A p \in Adders : stage[p] = "store" => aux[p] = global

SumOfAdditions ==
    global = Cardinality(Additions(Increasing)) - Cardinality(Additions(Decreasing))

SyncInv ==
    /\ SemInv /\ SyncTypes /\ RoundsOfStage /\ AwayFromCpu /\ QueueSleeps
    /\ OneLock /\ CopyIsCurrent /\ SumOfAdditions

\* The workers of test_sync fit the table, and the count of those who have it open.
LEMMA SyncFacts ==
    ASSUME SyncAssumptions
    PROVE  /\ TableHoldsAll /\ 0 < MaxValue /\ 1 \in InitialValues
           /\ SEM_ID \in Names /\ N \in Nat \ {0}
           /\ IsFiniteSet(Processes) /\ Cardinality(Processes) <= MaxUsers
           /\ MaxUsers \in Nat \ {0} /\ MAX_SEMAPHORES \in Nat \ {0} /\ MaxValue \in Nat
           /\ Adders \subseteq Processes /\ IsFiniteSet(Adders)
           /\ Adders = Increasing \union Decreasing
           /\ Increasing \intersect Decreasing = {}
<1>1. Adders \subseteq Processes /\ IsFiniteSet(Processes)
  BY DEF SyncAssumptions, TestSyncAssumption
<1>2. IsFiniteSet(Adders)
  BY <1>1, FS_Subset
<1>. QED
  BY <1>1, <1>2 DEF SyncAssumptions, TestSyncAssumption, SemaphoreAssumption, TableHoldsAll,
                    Adders

\* Those who have it open are finitely many.
LEMMA OpenIsFinite ==
    ASSUME SyncAssumptions
    PROVE  /\ IsFiniteSet(HasOpen) /\ Cardinality(HasOpen) \in Nat
           /\ Cardinality(HasOpen) <= MaxUsers
           /\ IsFiniteSet(HasOpen') /\ Cardinality(HasOpen') \in Nat
<1>1. HasOpen \subseteq Processes /\ HasOpen' \subseteq Processes
  BY SyncFacts DEF HasOpen
<1>2. IsFiniteSet(Processes) /\ Cardinality(Processes) <= MaxUsers /\ MaxUsers \in Nat
  BY SyncFacts
<1>3. /\ IsFiniteSet(HasOpen) /\ IsFiniteSet(HasOpen')
      /\ Cardinality(HasOpen) <= Cardinality(Processes)
  BY <1>1, <1>2, FS_Subset
<1>4. /\ Cardinality(HasOpen) \in Nat /\ Cardinality(HasOpen') \in Nat
      /\ Cardinality(Processes) \in Nat
  BY <1>2, <1>3, FS_CardinalityType
<1>. QED
  BY <1>2, <1>3, <1>4

\* Additions are finitely many.
LEMMA AdditionsAreFinite ==
    ASSUME SyncAssumptions, NEW S \in SUBSET Adders
    PROVE  IsFiniteSet(Additions(S)) /\ Cardinality(Additions(S)) \in Nat
<1>1. IsFiniteSet(S)
  BY SyncFacts, FS_Subset
<1>2. IsFiniteSet(1 .. N)
  BY SyncFacts, FS_Interval
<1>3. IsFiniteSet(S \X (1 .. N))
  BY <1>1, <1>2, FS_Product
<1>4. Additions(S) \subseteq S \X (1 .. N)
  BY DEF Additions
<1>5. IsFiniteSet(Additions(S))
  BY <1>3, <1>4, FS_Subset
<1>. QED
  BY <1>5, FS_CardinalityType

\* Where nobody has written a sum, the additions are the same.
LEMMA SameAdditions ==
    ASSUME SyncAssumptions, SumOfAdditions, global' = global,
           \A p \in Adders : Added(p)' = Added(p)
    PROVE  SumOfAdditions'
<1>1. Increasing \subseteq Adders /\ Decreasing \subseteq Adders
  BY SyncFacts
<1>2. ASSUME NEW S \in SUBSET Adders
      PROVE  Additions(S)' = Additions(S)
  BY DEF Additions
<1>3. Additions(Increasing)' = Additions(Increasing)
      /\ Additions(Decreasing)' = Additions(Decreasing)
  BY <1>1, <1>2
<1>. QED
  BY <1>3 DEF SumOfAdditions

\* A sum is written: one addition more, on the side of the writer.
LEMMA OneAdditionMore ==
    ASSUME SyncAssumptions, SumOfAdditions, NEW p \in Adders, global' = global + inc(p),
           Added(p) \in 0 .. N - 1, Added(p)' = Added(p) + 1,
           \A q \in Adders \ {p} : Added(q)' = Added(q)
    PROVE  SumOfAdditions'
<1>1. /\ Increasing \subseteq Adders /\ Decreasing \subseteq Adders
      /\ p \in Increasing <=> p \notin Decreasing
      /\ N \in Nat
  BY SyncFacts
<1> DEFINE k == Added(p) + 1
<1>2. ASSUME NEW S \in SUBSET Adders, p \in S
      PROVE  Cardinality(Additions(S)') = Cardinality(Additions(S)) + 1
  <2>1. k \in 1 .. N /\ ~ k <= Added(p)
    BY <1>1
  <2>2. <<p, k>> \notin Additions(S)
    BY <2>1 DEF Additions
  <2>3. Additions(S)' = Additions(S) \union {<<p, k>>}
    <3>1. ASSUME NEW q \in S, NEW j \in 1 .. N
          PROVE  <<q, j>> \in Additions(S)' <=> <<q, j>> \in Additions(S) \union {<<p, k>>}
      <4>1. CASE q = p
        <5>1. j <= Added(p)' <=> (j <= Added(p) \/ j = k)
          BY <1>1, <2>1
        <5>. QED
          BY <4>1, <5>1 DEF Additions
      <4>2. CASE q # p
        BY <4>2 DEF Additions
      <4>. QED
        BY <4>1, <4>2
    <3>2. <<p, k>> \in S \X (1 .. N)
      BY <1>2, <2>1
    <3>3. Additions(S)' \subseteq S \X (1 .. N) /\ Additions(S) \subseteq S \X (1 .. N)
      BY DEF Additions
    <3>. HIDE DEF k
    <3>. QED
      BY <3>1, <3>2, <3>3
  <2>4. IsFiniteSet(Additions(S))
    BY AdditionsAreFinite
  <2>. QED
    BY <2>2, <2>3, <2>4, FS_AddElement
<1>3. ASSUME NEW S \in SUBSET Adders, p \notin S
      PROVE  Additions(S)' = Additions(S)
  BY <1>3 DEF Additions
<1>4. /\ Cardinality(Additions(Increasing)) \in Nat
      /\ Cardinality(Additions(Decreasing)) \in Nat
  BY <1>1, AdditionsAreFinite
<1>5. CASE p \in Increasing
  <2>1. Cardinality(Additions(Increasing)') = Cardinality(Additions(Increasing)) + 1
    BY <1>1, <1>2, <1>5
  <2>2. Additions(Decreasing)' = Additions(Decreasing)
    BY <1>1, <1>3, <1>5
  <2>. QED
    BY <1>4, <1>5, <2>1, <2>2 DEF SumOfAdditions, inc
<1>6. CASE p \notin Increasing
  <2>1. Cardinality(Additions(Decreasing)') = Cardinality(Additions(Decreasing)) + 1
    BY <1>1, <1>2, <1>6
  <2>2. Additions(Increasing)' = Additions(Increasing)
    BY <1>1, <1>3, <1>6
  <2>. QED
    BY <1>4, <1>6, <2>1, <2>2 DEF SumOfAdditions, inc
<1>. QED
  BY <1>5, <1>6

\* Who is inside holds the one token.
LEMMA InsideIsOne ==
    ASSUME SyncAssumptions, SyncInv, NEW p \in Inside
    PROVE  /\ Inside = {p} /\ sem_table[SEM_ID].used /\ Value(SEM_ID) = 0
           /\ p \in HasOpen
<1>1. p \in HasOpen
  BY DEF Inside, HasOpen
<1>. QED
  BY <1>1 DEF SyncInv, OneLock

\* At these stages a worker is awake.
LEMMA AwakeInside ==
    ASSUME SyncAssumptions, SyncInv, NEW p \in Adders, stage[p] \in {"store", "post"}
    PROVE  p \in Inside
  BY SyncFacts DEF SyncInv, AwayFromCpu, Inside, SemInv, SemTypeOK

\* A worker steps from stage to stage; nobody else does.
LEMMA StageMoves ==
    ASSUME SyncAssumptions, SyncInv, NEW p \in Adders, NEW from, NEW to \in Label,
           Moves(p, from, to)
    PROVE  /\ p \in Processes /\ Adders \subseteq Processes
           /\ state[p] = "READY" /\ stage[p] = from /\ stage'[p] = to
           /\ \A q \in Adders \ {p} : stage'[q] = stage[q]
           /\ stage' \in [Adders -> Label]
  BY SyncFacts DEF Moves, SyncInv, SyncTypes

\* Who is away from the CPU does not step.
LEMMA QueueIsOther ==
    ASSUME SyncInv, NEW p \in Adders, state[p] = "READY"
    PROVE  \A i \in 1 .. Len(Queue(SEM_ID)) : Queue(SEM_ID)[i] # p
  BY DEF SyncInv, QueueSleeps

(* A worker reads the shared variable.                                     *)
LEMMA LoadStep ==
    ASSUME SyncAssumptions, SyncInv, NEW p \in Adders, Load(p)
    PROVE  SyncInv'
<1>1. /\ p \in Processes /\ Adders \subseteq Processes
      /\ state[p] = "READY" /\ stage[p] = "load" /\ stage'[p] = "store"
      /\ \A q \in Adders \ {p} : stage'[q] = stage[q]
      /\ stage' \in [Adders -> Label]
  BY StageMoves DEF Load, Label
<1>2. /\ UNCHANGED <<sem_table, state, round, global>>
      /\ aux' = [aux EXCEPT ![p] = global]
  BY DEF Load, semVars
<1>3. SemInv' /\ Queue(SEM_ID)' = Queue(SEM_ID) /\ Value(SEM_ID)' = Value(SEM_ID)
  BY <1>2, NothingChanges DEF SyncInv, semVars, Queue, Value
<1>4. Inside' = Inside /\ HasOpen' = HasOpen
  BY <1>1, <1>2 DEF Inside, HasOpen
<1>5. SyncTypes' /\ CopyIsCurrent'
  BY <1>1, <1>2 DEF SyncInv, SyncTypes, CopyIsCurrent
<1>6. RoundsOfStage' /\ AwayFromCpu' /\ QueueSleeps'
  BY <1>1, <1>2, <1>3 DEF SyncInv, RoundsOfStage, AwayFromCpu, QueueSleeps
<1>7. OneLock'
  BY <1>2, <1>3, <1>4 DEF SyncInv, OneLock
<1>8. SumOfAdditions'
  <2>1. \A q \in Adders : Added(q)' = Added(q)
    BY <1>1, <1>2 DEF Added
  <2>. QED
    BY <1>2, <2>1, SameAdditions DEF SyncInv
<1>. QED
  BY <1>3, <1>5, <1>6, <1>7, <1>8 DEF SyncInv

(* It writes the sum: nobody else has a copy that would be lost.           *)
LEMMA StoreStep ==
    ASSUME SyncAssumptions, SyncInv, NEW p \in Adders, Store(p)
    PROVE  SyncInv'
<1>1. /\ p \in Processes /\ Adders \subseteq Processes
      /\ state[p] = "READY" /\ stage[p] = "store" /\ stage'[p] = "post"
      /\ \A q \in Adders \ {p} : stage'[q] = stage[q]
      /\ stage' \in [Adders -> Label]
  BY StageMoves DEF Store, Label
<1>2. UNCHANGED <<sem_table, state, round, aux>> /\ global' = aux[p] + inc(p)
  BY DEF Store, semVars
<1>3. SemInv' /\ Queue(SEM_ID)' = Queue(SEM_ID) /\ Value(SEM_ID)' = Value(SEM_ID)
  BY <1>2, NothingChanges DEF SyncInv, semVars, Queue, Value
<1>4. Inside' = Inside /\ HasOpen' = HasOpen
  BY <1>1, <1>2 DEF Inside, HasOpen
<1>5. global' = global + inc(p) /\ global' \in Int
  BY <1>1, <1>2 DEF SyncInv, SyncTypes, CopyIsCurrent, inc
<1>6. CopyIsCurrent'
  <2>1. \A q \in Adders : stage[q] = "store" => q = p
    BY <1>1, AwakeInside, InsideIsOne
  <2>. QED
    BY <1>1, <2>1 DEF CopyIsCurrent
<1>7. SyncTypes' /\ RoundsOfStage' /\ AwayFromCpu' /\ QueueSleeps'
  BY <1>1, <1>2, <1>3, <1>5
     DEF SyncInv, SyncTypes, RoundsOfStage, AwayFromCpu, QueueSleeps
<1>8. OneLock'
  BY <1>2, <1>3, <1>4 DEF SyncInv, OneLock
<1>9. SumOfAdditions'
  <2>1. Added(p) \in 0 .. N - 1 /\ Added(p)' = Added(p) + 1
    BY <1>1, <1>2, SyncFacts DEF SyncInv, SyncTypes, RoundsOfStage, Added
  <2>2. \A q \in Adders \ {p} : Added(q)' = Added(q)
    BY <1>1, <1>2 DEF Added
  <2>. QED
    BY <1>5, <2>1, <2>2, OneAdditionMore DEF SyncInv
<1>. QED
  BY <1>3, <1>6, <1>7, <1>8, <1>9 DEF SyncInv

(* It takes the token, or sleeps.                                          *)
LEMMA WaitStep ==
    ASSUME SyncAssumptions, SyncInv, NEW p \in Adders, Wait(p)
    PROVE  SyncInv'
<1>1. /\ p \in Processes /\ Adders \subseteq Processes
      /\ state[p] = "READY" /\ stage[p] = "wait" /\ stage'[p] = "load"
      /\ \A q \in Adders \ {p} : stage'[q] = stage[q]
      /\ stage' \in [Adders -> Label]
  BY StageMoves DEF Wait, Label
<1>2. UNCHANGED <<round, aux, global>> /\ sem_wait(p, SEM_ID)
  BY DEF Wait
<1>3. SEM_ID \in Names /\ sem_table[SEM_ID].used /\ p \notin Inside
  BY <1>1, SyncFacts DEF SyncInv, OneLock, HasOpen, Inside
<1>4. /\ SemInv'
      /\ \A m \in Names \ {SEM_ID} : Unmoved(m)
      /\ sem_table'[SEM_ID].used /\ sem_table'[SEM_ID].users = sem_table[SEM_ID].users
      /\ \/ /\ Value(SEM_ID) > 0 /\ Value(SEM_ID)' = Value(SEM_ID) - 1
            /\ Queue(SEM_ID)' = Queue(SEM_ID)
            /\ state' = state
         \/ /\ Value(SEM_ID) = 0 /\ Value(SEM_ID)' = 0
            /\ Queue(SEM_ID)' = Append(Queue(SEM_ID), p)
            /\ state' = [state EXCEPT ![p] = "BLOCKED"]
  BY <1>1, <1>2, <1>3, SyncFacts, WaitEffect DEF SyncInv
<1>5. state \in [Processes -> {"READY", "BLOCKED", "TERMINATED"}]
  BY DEF SyncInv, SemInv, SemTypeOK
<1>6. HasOpen' = HasOpen
  BY <1>1 DEF HasOpen
<1>7. SyncTypes' /\ RoundsOfStage' /\ CopyIsCurrent'
  BY <1>1, <1>2 DEF SyncInv, SyncTypes, RoundsOfStage, CopyIsCurrent
<1>8. AwayFromCpu'
  BY <1>1, <1>4, <1>5 DEF SyncInv, AwayFromCpu
<1>9. QueueSleeps'
  <2>1. CASE Queue(SEM_ID)' = Queue(SEM_ID) /\ state' = state
    BY <2>1 DEF SyncInv, QueueSleeps
  <2>2. CASE /\ Queue(SEM_ID)' = Append(Queue(SEM_ID), p)
             /\ state' = [state EXCEPT ![p] = "BLOCKED"]
    <3>1. \A i \in 1 .. Len(Queue(SEM_ID))' :
             \/ i \in 1 .. Len(Queue(SEM_ID)) /\ Queue(SEM_ID)'[i] = Queue(SEM_ID)[i]
             \/ Queue(SEM_ID)'[i] = p
      BY <1>3, <2>2, QueueFacts, AppendProperties DEF SyncInv
    <3>2. \A i \in 1 .. Len(Queue(SEM_ID)) :
             Queue(SEM_ID)[i] \in Adders /\ state[Queue(SEM_ID)[i]] = "BLOCKED"
      BY <1>3, QueueFacts DEF SyncInv, QueueSleeps
    <3>. QED
      BY <1>1, <1>5, <2>2, <3>1, <3>2 DEF QueueSleeps
  <2>. QED
    BY <1>4, <2>1, <2>2
<1>10. OneLock'
  <2>1. \A n \in Names \ {SEM_ID} : ~ sem_table'[n].used
    BY <1>4 DEF SyncInv, OneLock, Unmoved
  <2>2. CASE Value(SEM_ID) > 0 /\ Value(SEM_ID)' = Value(SEM_ID) - 1 /\ state' = state
    <3>1. Inside = {} /\ Value(SEM_ID) = 1
      BY <1>3, <2>2 DEF SyncInv, OneLock
    <3>2. Inside' = {p}
      BY <1>1, <2>2, <3>1 DEF Inside
    <3>. QED
      BY <1>3, <1>4, <1>6, <2>1, <2>2, <3>1, <3>2 DEF SyncInv, OneLock
  <2>3. CASE /\ Value(SEM_ID) = 0 /\ Value(SEM_ID)' = 0
             /\ state' = [state EXCEPT ![p] = "BLOCKED"]
    <3>1. Inside' = Inside
      BY <1>1, <1>3, <1>5, <2>3 DEF Inside
    <3>. QED
      BY <1>3, <1>4, <1>6, <2>1, <2>3, <3>1 DEF SyncInv, OneLock
  <2>. QED
    BY <1>4, <2>2, <2>3
<1>11. SumOfAdditions'
  <2>1. \A q \in Adders : Added(q)' = Added(q)
    BY <1>1, <1>2 DEF Added
  <2>. QED
    BY <1>2, <2>1, SameAdditions DEF SyncInv
<1>. QED
  BY <1>4, <1>7, <1>8, <1>9, <1>10, <1>11 DEF SyncInv

(* The token goes to the head of the queue, or into the semaphore.         *)
LEMMA PostStep ==
    ASSUME SyncAssumptions, SyncInv, NEW p \in Adders, Post(p)
    PROVE  SyncInv'
<1> DEFINE to == IF round[p] + 1 < N THEN "wait" ELSE "close"
<1>1. /\ p \in Processes /\ Adders \subseteq Processes
      /\ state[p] = "READY" /\ stage[p] = "post" /\ stage'[p] = to
      /\ \A q \in Adders \ {p} : stage'[q] = stage[q]
      /\ stage' \in [Adders -> Label]
  <2>1. to \in Label /\ Moves(p, "post", to)
    BY DEF Post, Label
  <2>. HIDE DEF to
  <2>. QED
    BY <2>1, StageMoves
<1>2. /\ UNCHANGED <<aux, global>> /\ sem_post(SEM_ID)
      /\ round' = [round EXCEPT ![p] = round[p] + 1]
  BY DEF Post
<1>3. /\ SEM_ID \in Names /\ Inside = {p} /\ sem_table[SEM_ID].used
      /\ Value(SEM_ID) = 0
  BY <1>1, SyncFacts, AwakeInside, InsideIsOne
<1>4. /\ SemInv'
      /\ \A m \in Names \ {SEM_ID} : Unmoved(m)
      /\ sem_table'[SEM_ID].used /\ sem_table'[SEM_ID].users = sem_table[SEM_ID].users
      /\ \/ /\ Queue(SEM_ID) = <<>> /\ Queue(SEM_ID)' = <<>> /\ Value(SEM_ID)' = 1
            /\ state' = state
         \/ /\ Queue(SEM_ID) # <<>> /\ Queue(SEM_ID)' = Tail(Queue(SEM_ID))
            /\ Value(SEM_ID)' = 0
            /\ state' = [state EXCEPT ![Head(Queue(SEM_ID))] = "READY"]
  <2>1. \A i \in 1 .. Len(Queue(SEM_ID)) : state[Queue(SEM_ID)[i]] # "TERMINATED"
    BY DEF SyncInv, QueueSleeps
  <2>. QED
    BY <1>2, <1>3, <2>1, SyncFacts, PostEffect DEF SyncInv
<1>5. state \in [Processes -> {"READY", "BLOCKED", "TERMINATED"}]
  BY DEF SyncInv, SemInv, SemTypeOK
<1>6. /\ round[p] \in 0 .. N /\ round[p] < N /\ N \in Nat
      /\ to = "close" => round[p] + 1 = N
      /\ to = "wait" => round[p] + 1 < N
      /\ to \in {"wait", "close"}
  BY <1>1, SyncFacts DEF SyncInv, SyncTypes, RoundsOfStage
<1>. HIDE DEF to
<1>7. HasOpen' = HasOpen
  BY <1>1, <1>6 DEF HasOpen
<1>8. SyncTypes' /\ CopyIsCurrent'
  BY <1>1, <1>2, <1>6 DEF SyncInv, SyncTypes, CopyIsCurrent
<1>9. RoundsOfStage'
  BY <1>1, <1>2, <1>6 DEF SyncInv, SyncTypes, RoundsOfStage
<1>10. \A n \in Names \ {SEM_ID} : ~ sem_table'[n].used
  BY <1>4 DEF SyncInv, OneLock, Unmoved
<1>11. AwayFromCpu' /\ QueueSleeps' /\ OneLock'
  <2>1. CASE Queue(SEM_ID) = <<>> /\ Queue(SEM_ID)' = <<>> /\ Value(SEM_ID)' = 1
             /\ state' = state
    <3>1. Inside' = {}
      BY <1>1, <1>3, <1>6, <2>1 DEF Inside
    <3>2. AwayFromCpu' /\ QueueSleeps'
      BY <1>1, <2>1 DEF SyncInv, AwayFromCpu, QueueSleeps
    <3>. QED
      BY <1>3, <1>4, <1>7, <1>10, <2>1, <3>1, <3>2 DEF SyncInv, OneLock
  <2>2. CASE /\ Queue(SEM_ID) # <<>> /\ Queue(SEM_ID)' = Tail(Queue(SEM_ID))
             /\ Value(SEM_ID)' = 0
             /\ state' = [state EXCEPT ![Head(Queue(SEM_ID))] = "READY"]
    <3> DEFINE h == Head(Queue(SEM_ID))
               k == Len(Queue(SEM_ID))
    <3>1. /\ h = Queue(SEM_ID)[1] /\ 1 \in 1 .. k /\ k \in Nat
          /\ \A i \in 1 .. k : Queue(SEM_ID)[i] \in Adders
          /\ Len(Queue(SEM_ID)') = k - 1
          /\ \A i \in 1 .. k - 1 : Queue(SEM_ID)'[i] = Queue(SEM_ID)[i + 1]
      BY <1>3, <2>2, QueueFacts, HeadTailProperties DEF SyncInv, QueueSleeps
    <3>2. h \in Adders /\ state[h] = "BLOCKED" /\ stage[h] = "load" /\ h # p
      BY <1>1, <3>1 DEF SyncInv, QueueSleeps, AwayFromCpu
    <3>3. \A i \in 1 .. k - 1 : Queue(SEM_ID)[i + 1] # h
      <4>1. OnePlaceEach /\ SEM_ID \in Names
        BY <1>3 DEF SyncInv, SemInv
      <4>. HIDE DEF h
      <4>2. ASSUME NEW i \in 1 .. k - 1, Queue(SEM_ID)[i + 1] = Queue(SEM_ID)[1]
            PROVE  FALSE
        <5>1. i + 1 \in 1 .. k /\ i + 1 # 1
          BY <3>1
        <5>. QED
          BY <3>1, <4>1, <4>2, <5>1 DEF OnePlaceEach
      <4>. QED
        BY <3>1, <4>2
    <3>4. QueueSleeps'
      <4>1. ASSUME NEW i \in 1 .. k - 1
            PROVE  state'[Queue(SEM_ID)'[i]] = "BLOCKED"
        <5>1. i + 1 \in 1 .. k
          BY <3>1
        <5>. HIDE DEF h, k
        <5>2. state'[Queue(SEM_ID)[i + 1]] = state[Queue(SEM_ID)[i + 1]]
          BY <1>5, <2>2, <3>1, <3>3, <5>1 DEF h
        <5>. QED
          BY <3>1, <5>1, <5>2 DEF SyncInv, QueueSleeps, k
      <4>. QED
        BY <3>1, <4>1 DEF QueueSleeps
    <3>. HIDE DEF h
    <3>5. AwayFromCpu'
      BY <1>1, <1>5, <2>2, <3>2 DEF SyncInv, AwayFromCpu, h
    <3>6. Inside' = {h}
      BY <1>1, <1>3, <1>5, <1>6, <2>2, <3>2 DEF Inside, h
    <3>. QED
      BY <1>3, <1>4, <1>7, <1>10, <2>2, <3>2, <3>4, <3>5, <3>6 DEF SyncInv, OneLock
  <2>. QED
    BY <1>4, <2>1, <2>2
<1>12. SumOfAdditions'
  <2>1. \A q \in Adders : Added(q)' = Added(q)
    BY <1>1, <1>2, <1>6 DEF SyncInv, SyncTypes, Added
  <2>. QED
    BY <1>2, <2>1, SameAdditions DEF SyncInv
<1>. QED
  BY <1>4, <1>8, <1>9, <1>11, <1>12 DEF SyncInv

(* A worker that is done ends.                                             *)
LEMMA ExitStep ==
    ASSUME SyncAssumptions, SyncInv, NEW p \in Adders, Exit(p)
    PROVE  SyncInv'
<1>1. /\ p \in Processes /\ Adders \subseteq Processes
      /\ state[p] = "READY" /\ stage[p] = "exit" /\ stage'[p] = "done"
      /\ \A q \in Adders \ {p} : stage'[q] = stage[q]
      /\ stage' \in [Adders -> Label]
  BY StageMoves DEF Exit, Label
<1>2. /\ UNCHANGED <<sem_table, round, aux, global>> /\ Dies(p)
      /\ state' = [state EXCEPT ![p] = "TERMINATED"]
  BY DEF Exit, Dies
<1>3. SemInv' /\ Queue(SEM_ID)' = Queue(SEM_ID) /\ Value(SEM_ID)' = Value(SEM_ID)
  BY <1>2, WaiterDies, SyncFacts DEF SyncInv, TableHoldsAll, Queue, Value
<1>4. state \in [Processes -> {"READY", "BLOCKED", "TERMINATED"}]
  BY DEF SyncInv, SemInv, SemTypeOK
<1>5. Inside' = Inside /\ HasOpen' = HasOpen
  BY <1>1, <1>2, <1>4 DEF Inside, HasOpen
<1>6. SyncTypes' /\ RoundsOfStage' /\ AwayFromCpu' /\ CopyIsCurrent'
  BY <1>1, <1>2, <1>4 DEF SyncInv, SyncTypes, RoundsOfStage, AwayFromCpu, CopyIsCurrent
<1>7. QueueSleeps'
  <2>1. \A i \in 1 .. Len(Queue(SEM_ID)) :
           Queue(SEM_ID)[i] \in Adders /\ Queue(SEM_ID)[i] # p
    BY <1>1, SyncFacts, QueueFacts, QueueIsOther DEF SyncInv, QueueSleeps
  <2>. QED
    BY <1>2, <1>3, <1>4, <2>1 DEF SyncInv, QueueSleeps
<1>8. OneLock'
  BY <1>2, <1>3, <1>5 DEF SyncInv, OneLock
<1>9. SumOfAdditions'
  <2>1. \A q \in Adders : Added(q)' = Added(q)
    BY <1>1, <1>2 DEF Added
  <2>. QED
    BY <1>2, <2>1, SameAdditions DEF SyncInv
<1>. QED
  BY <1>3, <1>6, <1>7, <1>8, <1>9 DEF SyncInv

(* The first to come creates the semaphore, with one token.                *)
LEMMA OpenStep ==
    ASSUME SyncAssumptions, SyncInv, NEW p \in Adders, Open(p)
    PROVE  SyncInv'
<1>1. /\ p \in Processes /\ Adders \subseteq Processes
      /\ state[p] = "READY" /\ stage[p] = "open" /\ stage'[p] = "wait"
      /\ \A q \in Adders \ {p} : stage'[q] = stage[q]
      /\ stage' \in [Adders -> Label]
  BY StageMoves DEF Open, Label
<1>2. UNCHANGED <<round, aux, global, state>> /\ sem_open(SEM_ID, 1) /\ SEM_ID \in Names
  BY SyncFacts DEF Open, sem_open
<1>3. SemInv'
  BY <1>2, SyncFacts, OpenKeeps DEF SyncInv, TableHoldsAll
<1>4. sem_table \in [Names -> Sem] /\ sem_table[SEM_ID] \in Sem
  BY <1>2 DEF SyncInv, SemInv, SemTypeOK
<1>5. Inside' = Inside
  BY <1>1, <1>2 DEF Inside
<1>6. /\ HasOpen' = HasOpen \union {p}
      /\ Cardinality(HasOpen') = Cardinality(HasOpen) + 1
      /\ Cardinality(HasOpen') <= MaxUsers
  <2>1. HasOpen' = HasOpen \union {p} /\ p \notin HasOpen
    BY <1>1 DEF HasOpen
  <2>2. Cardinality(HasOpen') = Cardinality(HasOpen) + 1
    BY <2>1, OpenIsFinite, FS_AddElement
  <2>3. HasOpen' \subseteq Processes
    BY SyncFacts DEF HasOpen
  <2>4. Cardinality(HasOpen') <= Cardinality(Processes)
    BY <2>3, SyncFacts, FS_Subset
  <2>5. Cardinality(Processes) \in Nat
    BY SyncFacts, FS_CardinalityType
  <2>. QED
    BY <2>1, <2>2, <2>4, <2>5, OpenIsFinite, SyncFacts
<1>7. /\ sem_table'[SEM_ID].used
      /\ sem_table'[SEM_ID].users = Cardinality(HasOpen')
      /\ Queue(SEM_ID)' = Queue(SEM_ID)
      /\ \A n \in Names \ {SEM_ID} : sem_table'[n] = sem_table[n]
      /\ \/ Inside = {} /\ Value(SEM_ID)' = 1
         \/ Value(SEM_ID)' = 0 /\ \E q \in Adders : Inside = {q}
  <2>1. CASE sem_table[SEM_ID].used
    <3>1. sem_table' = [sem_table EXCEPT ![SEM_ID].users = @ + 1]
      <4>1. sem_table[SEM_ID].users < MaxUsers
        BY <1>6, <2>1, OpenIsFinite, SyncFacts DEF SyncInv, OneLock
      <4>. QED
        BY <1>2, <2>1, <4>1 DEF sem_open, find_semaphore, AddUser
    <3>2. Value(SEM_ID)' = Value(SEM_ID) /\ Queue(SEM_ID)' = Queue(SEM_ID)
      BY <1>4, <3>1 DEF Value, Queue, Sem
    <3>. QED
      BY <1>2, <1>4, <1>6, <2>1, <3>1, <3>2 DEF SyncInv, OneLock, Sem
  <2>2. CASE ~ sem_table[SEM_ID].used
    <3>1. ~ TableIsFull
      <4>1. {n \in Names : sem_table[n].used} = {}
        BY <2>2 DEF SyncInv, OneLock
      <4>2. Cardinality({n \in Names : sem_table[n].used}) = 0
        BY <4>1, FS_EmptySet
      <4>3. MAX_SEMAPHORES \in Nat \ {0}
        BY SyncFacts
      <4>. QED
        BY <4>2, <4>3 DEF TableIsFull
    <3>2. HasOpen = {} /\ Inside = {}
      BY <2>2 DEF SyncInv, OneLock, HasOpen, Inside
    <3>3. Cardinality(HasOpen') = 1
      BY <1>6, <3>2, FS_EmptySet
    <3>4. sem_table' = [sem_table EXCEPT ![SEM_ID] =
                           [SEM_FREE EXCEPT !.used = TRUE, !.users = 1, !.value = 1]]
      BY <1>2, <2>2, <3>1 DEF sem_open, find_semaphore
    <3>5. Queue(SEM_ID) = <<>>
      BY <2>2, <1>2 DEF SyncInv, SemInv, GoodEntry, SEM_FREE, Queue
    <3>. QED
      BY <1>2, <1>4, <3>2, <3>3, <3>4, <3>5 DEF SEM_FREE, Value, Queue
  <2>. QED
    BY <2>1, <2>2
<1>8. OneLock'
  BY <1>2, <1>5, <1>7 DEF SyncInv, OneLock
<1>9. SyncTypes' /\ RoundsOfStage' /\ AwayFromCpu' /\ CopyIsCurrent'
  BY <1>1, <1>2, SyncFacts DEF SyncInv, SyncTypes, RoundsOfStage, AwayFromCpu, CopyIsCurrent
<1>10. QueueSleeps'
  BY <1>2, <1>7 DEF SyncInv, QueueSleeps
<1>11. SumOfAdditions'
  <2>1. \A q \in Adders : Added(q)' = Added(q)
    BY <1>1, <1>2 DEF Added
  <2>. QED
    BY <1>2, <2>1, SameAdditions DEF SyncInv
<1>. QED
  BY <1>3, <1>8, <1>9, <1>10, <1>11 DEF SyncInv

(* The last to leave frees it; nobody waits, or is inside.                 *)
LEMMA CloseStep ==
    ASSUME SyncAssumptions, SyncInv, NEW p \in Adders, Close(p)
    PROVE  SyncInv'
<1>1. /\ p \in Processes /\ Adders \subseteq Processes
      /\ state[p] = "READY" /\ stage[p] = "close" /\ stage'[p] = "exit"
      /\ \A q \in Adders \ {p} : stage'[q] = stage[q]
      /\ stage' \in [Adders -> Label]
  BY StageMoves DEF Close, Label
<1>2. UNCHANGED <<round, aux, global>> /\ sem_close(SEM_ID) /\ SEM_ID \in Names
  BY SyncFacts DEF Close
<1>3. SemInv'
  BY <1>2, SyncFacts, CloseKeeps DEF SyncInv, TableHoldsAll
<1>4. sem_table \in [Names -> Sem] /\ sem_table[SEM_ID] \in Sem
  BY <1>2 DEF SyncInv, SemInv, SemTypeOK
<1>5. /\ sem_table[SEM_ID].used /\ sem_table[SEM_ID].users = Cardinality(HasOpen)
      /\ HasOpen' = HasOpen \ {p} /\ p \in HasOpen
      /\ Cardinality(HasOpen') = Cardinality(HasOpen) - 1
  <2>1. p \in HasOpen /\ HasOpen' = HasOpen \ {p}
    BY <1>1 DEF HasOpen
  <2>2. Cardinality(HasOpen') = Cardinality(HasOpen) - 1
    BY <2>1, OpenIsFinite, FS_RemoveElement
  <2>. QED
    BY <2>1, <2>2 DEF SyncInv, OneLock
<1>6. state' = state /\ OneLock' /\ Queue(SEM_ID)' = Queue(SEM_ID)
  <2>1. CASE IsLastUser(SEM_ID)
    <3>1. HasOpen' = {}
      <4>1. Cardinality(HasOpen') = 0
        BY <1>5, <2>1, OpenIsFinite DEF IsLastUser
      <4>. QED
        BY <4>1, OpenIsFinite, FS_EmptySet
    <3>2. Queue(SEM_ID) = <<>>
      <4>1. ASSUME Queue(SEM_ID) # <<>> PROVE FALSE
        <5> DEFINE h == Queue(SEM_ID)[1]
        <5>1. 1 \in 1 .. Len(Queue(SEM_ID)) /\ h \in Adders
          BY <1>2, <4>1, QueueFacts DEF SyncInv, QueueSleeps
        <5>2. h \in HasOpen /\ h # p
          BY <1>1, <5>1 DEF SyncInv, QueueSleeps, AwayFromCpu, HasOpen
        <5>. QED
          BY <1>5, <3>1, <5>2
      <4>. QED
        BY <4>1
    <3>3. sem_table' = [sem_table EXCEPT ![SEM_ID] = SEM_FREE] /\ state' = Woken({})
      <4>1. ToSet(<<>>) = {}
        BY DEF ToSet
      <4>. QED
        BY <1>2, <1>5, <2>1, <3>2, <4>1 DEF sem_close, find_semaphore, Queue
    <3>4. state' = state
      BY <3>3 DEF Woken, SyncInv, SemInv, SemTypeOK
    <3>5. OneLock' /\ Queue(SEM_ID)' = <<>>
      BY <1>2, <1>4, <3>1, <3>3 DEF SyncInv, OneLock, SEM_FREE, Queue
    <3>. QED
      BY <3>2, <3>4, <3>5
  <2>2. CASE ~ IsLastUser(SEM_ID)
    <3>1. sem_table' = [sem_table EXCEPT ![SEM_ID].users = @ - 1] /\ state' = state
      BY <1>2, <1>5, <2>2 DEF sem_close, find_semaphore
    <3>2. Inside' = Inside
      BY <1>1, <3>1 DEF Inside
    <3>3. /\ Queue(SEM_ID)' = Queue(SEM_ID) /\ Value(SEM_ID)' = Value(SEM_ID)
          /\ sem_table'[SEM_ID].used
          /\ sem_table'[SEM_ID].users = Cardinality(HasOpen')
          /\ \A n \in Names \ {SEM_ID} : sem_table'[n] = sem_table[n]
      BY <1>2, <1>4, <1>5, <3>1 DEF Queue, Value, Sem
    <3>4. OneLock'
      BY <1>5, <3>2, <3>3 DEF SyncInv, OneLock
    <3>. QED
      BY <3>1, <3>3, <3>4
  <2>. QED
    BY <2>1, <2>2
<1>7. SyncTypes' /\ RoundsOfStage' /\ AwayFromCpu' /\ CopyIsCurrent'
  BY <1>1, <1>2, <1>6 DEF SyncInv, SyncTypes, RoundsOfStage, AwayFromCpu, CopyIsCurrent
<1>8. QueueSleeps'
  BY <1>6 DEF SyncInv, QueueSleeps
<1>9. SumOfAdditions'
  <2>1. \A q \in Adders : Added(q)' = Added(q)
    BY <1>1, <1>2 DEF Added
  <2>. QED
    BY <1>2, <2>1, SameAdditions DEF SyncInv
<1>. QED
  BY <1>3, <1>6, <1>7, <1>8, <1>9 DEF SyncInv

(* SyncInv is inductive.                                                   *)
LEMMA SyncStep ==
    ASSUME SyncAssumptions, SyncInv, [SyncNext]_syncVars
    PROVE  SyncInv'
<1>1. CASE UNCHANGED syncVars
  <2>1. UNCHANGED <<sem_table, state, stage, round, aux, global>>
    BY <1>1 DEF syncVars
  <2>2. SemInv'
    BY <2>1, NothingChanges DEF SyncInv, semVars
  <2>3. SyncTypes' /\ RoundsOfStage' /\ AwayFromCpu' /\ QueueSleeps' /\ CopyIsCurrent'
    BY <2>1 DEF SyncInv, SyncTypes, RoundsOfStage, AwayFromCpu, QueueSleeps, CopyIsCurrent,
                Queue
  <2>4. OneLock' /\ SumOfAdditions'
    BY <2>1 DEF SyncInv, OneLock, SumOfAdditions, HasOpen, Inside, Value, Additions, Added
  <2>. QED
    BY <2>2, <2>3, <2>4 DEF SyncInv
<1>2. ASSUME NEW p \in Adders, Worker(p)
      PROVE  SyncInv'
  BY <1>2, OpenStep, WaitStep, LoadStep, StoreStep, PostStep, CloseStep, ExitStep
     DEF Worker
<1>. QED
  BY <1>1, <1>2 DEF SyncNext, Finished

\* Nobody has begun.
LEMMA SyncBegins == ASSUME SyncAssumptions, SyncInit PROVE SyncInv
<1>1. SemInv /\ SEM_ID \in Names /\ Queue(SEM_ID) = <<>>
  BY SyncFacts, SemBegins DEF SyncInit, SemInit, TableHoldsAll, SEM_FREE, Queue
<1>2. /\ \A p \in Adders : /\ stage[p] = "open" /\ round[p] = 0
                              /\ state[p] = "READY"
      /\ \A n \in Names : ~ sem_table[n].used
  BY SyncFacts DEF SyncInit, SemInit, SEM_FREE
<1>3. SyncTypes
  BY SyncFacts DEF SyncInit, SyncTypes, Label
<1>4. RoundsOfStage /\ AwayFromCpu /\ CopyIsCurrent
  BY <1>2 DEF RoundsOfStage, AwayFromCpu, CopyIsCurrent
<1>5. QueueSleeps
  BY <1>1, EmptySeq DEF QueueSleeps
<1>6. OneLock
  BY <1>1, <1>2 DEF OneLock, HasOpen
<1>7. SumOfAdditions
  <2>1. Increasing \subseteq Adders /\ Decreasing \subseteq Adders
    BY SyncFacts
  <2>2. Additions(Increasing) = {} /\ Additions(Decreasing) = {}
    <3>1. \A p \in Adders : Added(p) = 0
      BY <1>2 DEF Added
    <3>. QED
      BY <2>1, <3>1, SyncFacts DEF Additions
  <2>. QED
    BY <2>2, FS_EmptySet DEF SyncInit, SumOfAdditions
<1>. QED
  BY <1>1, <1>3, <1>4, <1>5, <1>6, <1>7 DEF SyncInv

(* test_sync with semaphores loses no update: when all have ended the        *)
(* variable is what the README promises, for any number of workers on either *)
(* side and any number of rounds, although the semaphore is freed and        *)
(* created again whenever nobody has it open.                                *)
THEOREM NoUpdateIsLost ==
    ASSUME SyncAssumptions PROVE SyncSpec => []ResultIsTheSum
<1>1. SyncInit => SyncInv
  BY SyncBegins
<1>2. SyncInv /\ [SyncNext]_syncVars => SyncInv'
  BY SyncStep
<1>3. ASSUME SyncInv PROVE ResultIsTheSum
  <2>1. ASSUME AllDone
        PROVE  global = N * (Cardinality(Increasing) - Cardinality(Decreasing))
    <3>1. ASSUME NEW S \in SUBSET Adders
          PROVE  Cardinality(Additions(S)) = Cardinality(S) * N /\ Cardinality(S) \in Nat
      <4>1. Additions(S) = S \X (1 .. N)
        BY <1>3, <2>1 DEF Additions, Added, AllDone, SyncInv, RoundsOfStage
      <4>2. IsFiniteSet(S) /\ IsFiniteSet(1 .. N) /\ Cardinality(1 .. N) = N
        <5>1. 1 \in Int /\ N \in Int /\ ~ 1 > N /\ N - 1 + 1 = N
          BY SyncFacts
        <5>2. /\ IsFiniteSet(1 .. N)
              /\ Cardinality(1 .. N) = IF 1 > N THEN 0 ELSE N - 1 + 1
          BY <5>1, FS_Interval, Zenon
        <5>3. IsFiniteSet(S)
          BY SyncFacts, FS_Subset
        <5>. QED
          BY <5>1, <5>2, <5>3
      <4>. QED
        BY <4>1, <4>2, FS_Product, FS_CardinalityType
    <3>2. Increasing \subseteq Adders /\ Decreasing \subseteq Adders /\ N \in Nat
      BY SyncFacts
    <3> DEFINE a == Cardinality(Increasing)
               b == Cardinality(Decreasing)
    <3>3. a \in Nat /\ b \in Nat /\ global = a * N - b * N
      BY <1>3, <3>1, <3>2 DEF SyncInv, SumOfAdditions
    <3>. HIDE DEF a, b
    <3>4. a * N - b * N = N * (a - b)
      BY <3>2, <3>3
    <3>. QED
      BY <3>3, <3>4 DEF a, b
  <2>. QED
    BY <2>1 DEF ResultIsTheSum
<1>. QED
  BY <1>1, <1>2, <1>3, PTL DEF SyncSpec
=============================================================================
