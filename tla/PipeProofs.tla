------------------------------ MODULE PipeProofs ------------------------------
(***************************************************************************)
(* Proofs about the pipe of module Pipe, for any number of writers,        *)
(* readers and killers, any sizes of the calls and any ring, with the      *)
(* semaphore calls cut in two or not.                                      *)
(*                                                                         *)
(* A token of the semaphore "read" is a promise of a byte.  The promises   *)
(* are its value, the readers that were given a token and have not taken   *)
(* their byte yet, and the writers that have stored a byte and not yet     *)
(* posted: together never more than there are bytes in the ring (Backed),  *)
(* as long as there are writers.  That a reader is given a token once, and *)
(* only while it waits for one, needs that everybody in the queue of a     *)
(* semaphore is there once and stands where one waits for it (OnePlace).   *)
(* This is TokenInv; the proof of its step goes by the five shapes of a    *)
(* step: one without a semaphore, a wait, a post, a close and a death.     *)
(*                                                                         *)
(* On it rest two more: SleepInv, for whole semaphore calls, says that who *)
(* sleeps is queued; CountInv, for processes that end with sys_exit, that  *)
(* the counts of the pipe are those of the open descriptors, because an    *)
(* end is counted off by a process that keeps the CPU until it is safe.    *)
(*                                                                         *)
(* The last part shows that the pipe implements the Channel.               *)
(***************************************************************************)
EXTENDS Pipe, FiniteSetTheorems, SequenceTheorems, TLAPS

---------------------------------------------------------------------------
(* The types the proofs need.  The bounds of the value and of the ring in  *)
(* PipeTypeOK are not among them.                                          *)

SemRecord == [used : BOOLEAN, value : Nat, users : Nat,
              waiting_processes : Seq(Processes)]

PipeRecord == [active : BOOLEAN, readers : Nat, writers : Nat, eof : BOOLEAN,
               readIndex : Nat, writeIndex : Nat, count : Nat,
               buffer : [0 .. PIPE_BUFFER_SIZE - 1 -> (Writers \X Nat) \cup {Nobody}]]

CallTypes ==
    /\ sem_table \in [Names -> SemRecord]
    /\ state \in [Processes -> {"READY", "BLOCKED", "TERMINATED"}]
    /\ pc \in [Processes -> Labels]
    /\ masked \in [Processes -> BOOLEAN]
    /\ cpu \in Processes \cup {Nobody}
    /\ half \in [Processes -> {"no", "queued", "counting"}]

DataTypes ==
    /\ pipe \in PipeRecord
    /\ sent \in [Writers -> Nat]
    /\ desc \in [Ends -> {"open", "released", "none"}]
    /\ target \in [Processes -> Processes \cup {Nobody}]
    /\ tokens \in [Processes -> Nat]

Types == CallTypes /\ DataTypes

---------------------------------------------------------------------------
(* The queues *)

Queue(n) == sem_table[n].waiting_processes

\* Where p stands when it is in the queue of n: in the middle of sem_wait, or
\* behind it, asleep or killed in its sleep.
Place(p, n) ==
    \/ /\ half[p] = "queued"
       /\ \/ n = "read"  /\ pc[p] = "r_token"
          \/ n = "write" /\ pc[p] = "w_room"
          \/ n = "mutex" /\ pc[p] \in {"w_mutex", "r_mutex"}
    \/ /\ half[p] # "queued"
       /\ state[p] # "READY"
       /\ \/ n = "read"  /\ pc[p] = "r_mutex"
          \/ n = "write" /\ pc[p] = "w_mutex"
          \/ n = "mutex" /\ pc[p] \in {"w_put", "r_get"}

OnePlace ==
    \A n \in Names :
        /\ \A i \in DOMAIN Queue(n), p \in Processes :
              Queue(n)[i] = p => Place(p, n)
        /\ \A i, j \in DOMAIN Queue(n) : Queue(n)[i] = Queue(n)[j] => i = j

---------------------------------------------------------------------------
(* The promises *)

Waits(p) == \E i \in DOMAIN Queue("read") : Queue("read")[i] = p

\* p has a byte it did not announce, or was given one it has not taken.
Claims(p) ==
    \/ pc[p] \in {"w_unlock", "w_signal"}
    \/ /\ ~ Waits(p)
       /\ \/ pc[p] \in {"r_mutex", "r_get"}
          \/ pc[p] = "undo" /\ p \in Readers
          \/ pc[p] = "r_token" /\ half[p] = "queued"

Claimants == {p \in Processes : Claims(p)}

Backed == sem_table["read"].value + Cardinality(Claimants) <= pipe.count

\* The semaphores are closed, the tokens of the end of file posted and an empty
\* ring found by a reader that was given a token when there are no writers.
AtEnd(p) ==
    \/ tokens[p] > 0
    \/ pc[p] \in {"r_empty", "t_mutex", "t_read", "t_write", "t_reset"}
    \/ pc[p] = "r_get" /\ half[p] = "counting"

NoWritersThen == \A p \in Processes : AtEnd(p) => pipe.writers = 0

\* Where p stands in the middle of a wait, or of a post.
Halfway ==
    \A p \in Processes :
        /\ half[p] = "queued" => pc[p] \in {"w_room", "w_mutex", "r_token", "r_mutex"}
        /\ half[p] = "counting" =>
              \/ pc[p] \in {"w_unlock", "w_signal", "r_unlock", "r_signal", "r_get", "undo"}
              \/ pc[p] = "t_post" /\ tokens[p] > 0

PromisesKept ==
    /\ NoWritersThen
    /\ pipe.writers > 0 => Backed

TokenInv ==
    /\ Types
    /\ OnePlace
    /\ Halfway
    /\ PromisesKept

---------------------------------------------------------------------------
(* What a step does to the semaphores, to the states and to the labels *)

\* Nobody but p moves, or goes from one half of a call to the other.
Alone(p) ==
    /\ pc' \in [Processes -> Labels]
    /\ half' \in [Processes -> {"no", "queued", "counting"}]
    /\ masked' \in [Processes -> BOOLEAN]
    /\ cpu' \in Processes \cup {Nobody}
    /\ \A o \in Processes \ {p} :
          pc'[o] = pc[o] /\ half'[o] = half[o] /\ masked'[o] = masked[o]

\* The queues of the others than n stay, and the table in its type.
OnlyAt(n) ==
    /\ sem_table' \in [Names -> SemRecord]
    /\ \A m \in Names \ {n} : sem_table'[m] = sem_table[m]

SameValue(n) == sem_table'[n].value = sem_table[n].value

(* A step of a call that touches no semaphore.                             *)
LEMMA QuietEffect ==
    ASSUME Types, NEW p \in Processes, NEW from \in Labels, NEW to \in Labels,
           Step(p, from, to) \/ Enter(p, from, to) \/ Leave(p, from, to)
    PROVE  /\ Alone(p) /\ sem_table' = sem_table /\ state' = state
           /\ half' = half /\ pc[p] = from /\ pc'[p] = to /\ state[p] = "READY"
<1>1. /\ pc' = [pc EXCEPT ![p] = to] /\ half' = half /\ sem_table' = sem_table
      /\ state' = state /\ pc[p] = from /\ state[p] = "READY"
  BY DEF Step, Enter, Leave, At, Goto, semVars
<1>2. /\ masked' \in [Processes -> BOOLEAN] /\ cpu' \in Processes \cup {Nobody}
      /\ \A o \in Processes \ {p} : masked'[o] = masked[o]
  BY DEF Types, CallTypes, Step, Enter, Leave, KeepsCpu
<1>3. /\ pc' \in [Processes -> Labels] /\ pc'[p] = to
      /\ \A o \in Processes \ {p} : pc'[o] = pc[o]
  BY <1>1 DEF Types, CallTypes
<1>4. half' \in [Processes -> {"no", "queued", "counting"}]
  BY <1>1 DEF Types, CallTypes
<1>. QED
  BY <1>1, <1>2, <1>3, <1>4 DEF Alone

(* One entry of the table changes.                                         *)
LEMMA EntryEffect ==
    ASSUME Types, NEW n \in Names, NEW s \in SemRecord,
           sem_table' = [sem_table EXCEPT ![n] = s]
    PROVE  /\ OnlyAt(n) /\ sem_table'[n] = s
           /\ sem_table'[n].value = s.value /\ Queue(n)' = s.waiting_processes
<1>1. /\ sem_table' \in [Names -> SemRecord] /\ sem_table'[n] = s
      /\ \A m \in Names \ {n} : sem_table'[m] = sem_table[m]
  BY DEF Types, CallTypes
<1>. QED
  BY <1>1 DEF OnlyAt, Queue

(* What is in the table.                                                   *)
LEMMA EntryType ==
    ASSUME Types, NEW n \in Names
    PROVE  /\ sem_table[n] \in SemRecord
           /\ sem_table[n].value \in Nat /\ sem_table[n].users \in Nat
           /\ sem_table[n].used \in BOOLEAN
           /\ Queue(n) \in Seq(Processes)
  BY DEF Types, CallTypes, SemRecord, Queue
(* A wait that was not refused: the process goes to sleep after it had     *)
(* joined the queue, takes a token, joins the queue and sleeps, or only    *)
(* joins it.                                                               *)
LEMMA WaitEffect ==
    ASSUME Types, NEW p \in Processes, NEW n \in Names,
           NEW from \in Labels, NEW to \in Labels, Wait(p, n, from, to)
    PROVE  /\ Alone(p) /\ OnlyAt(n)
           /\ pc[p] = from /\ state[p] = "READY"
           /\ \/ /\ half[p] = "queued" /\ half'[p] = "no" /\ pc'[p] = to
                 /\ state' = [state EXCEPT ![p] = "BLOCKED"]
                 /\ sem_table' = sem_table
              \/ /\ half[p] # "queued" /\ half' = half /\ pc'[p] = to
                 /\ sem_table[n].value > 0
                 /\ sem_table'[n].value = sem_table[n].value - 1
                 /\ Queue(n)' = Queue(n) /\ state' = state
              \/ /\ half[p] # "queued" /\ half' = half /\ pc'[p] = to
                 /\ SameValue(n) /\ Queue(n)' = Append(Queue(n), p)
                 /\ state' = [state EXCEPT ![p] = "BLOCKED"]
              \/ /\ half[p] # "queued" /\ half'[p] = "queued" /\ pc'[p] = from
                 /\ ~ SemaphoresAtomic
                 /\ SameValue(n) /\ Queue(n)' = Append(Queue(n), p)
                 /\ state' = state
<1>1. pc[p] = from /\ state[p] = "READY"
  BY DEF Wait, At
<1>2. /\ Append(Queue(n), p) \in Seq(Processes)
      /\ sem_table[n] \in SemRecord /\ sem_table[n].value \in Nat
      /\ Queue(n) = sem_table[n].waiting_processes
  BY EntryType, AppendProperties DEF Queue
<1> DEFINE joined == [sem_table[n] EXCEPT !.waiting_processes = Append(Queue(n), p)]
           taken == [sem_table[n] EXCEPT !.value = sem_table[n].value - 1]
<1>3. /\ joined \in SemRecord /\ joined.value = sem_table[n].value
      /\ joined.waiting_processes = Append(Queue(n), p)
  BY <1>2 DEF SemRecord
<1>4. sem_table[n].value > 0 =>
         /\ taken \in SemRecord /\ taken.value = sem_table[n].value - 1
         /\ taken.waiting_processes = Queue(n)
  BY <1>2 DEF SemRecord
<1>5. CASE half[p] = "queued"
  <2>1. /\ state' = [state EXCEPT ![p] = "BLOCKED"]
        /\ half' = [half EXCEPT ![p] = "no"] /\ pc' = [pc EXCEPT ![p] = to]
        /\ cpu' = Nobody /\ sem_table' = sem_table /\ masked' = masked
    BY <1>5 DEF Wait, Goto
  <2>2. Alone(p) /\ half'[p] = "no" /\ pc'[p] = to
    BY <2>1 DEF Types, CallTypes, Alone
  <2>3. OnlyAt(n)
    BY <2>1 DEF Types, CallTypes, OnlyAt
  <2>. QED
    BY <1>1, <1>5, <2>1, <2>2, <2>3
<1>6. CASE half[p] # "queued" /\ (Whole(p) \/ ~ MustWait(n))
  <2>1. /\ sem_wait(p, n) /\ pc' = [pc EXCEPT ![p] = to] /\ half' = half
        /\ masked' = [masked EXCEPT ![p] = masked[p] /\ ~ MustWait(n)]
        /\ cpu' = IF masked[p] /\ ~ MustWait(n) THEN p ELSE Nobody
        /\ ~ Refused(n)
    BY <1>6 DEF Wait, Goto
  <2>2. Alone(p) /\ pc'[p] = to
    <3>1. masked' \in [Processes -> BOOLEAN]
          /\ \A o \in Processes \ {p} : masked'[o] = masked[o]
      BY <2>1 DEF Types, CallTypes, MustWait
    <3>2. /\ pc' \in [Processes -> Labels] /\ pc'[p] = to
          /\ \A o \in Processes \ {p} : pc'[o] = pc[o]
      BY <2>1 DEF Types, CallTypes
    <3>3. cpu' \in Processes \cup {Nobody}
      BY <2>1
    <3>. QED
      BY <2>1, <3>1, <3>2, <3>3 DEF Types, CallTypes, Alone
  <2>3. CASE MustWait(n)
    <3>1. /\ sem_table' = [sem_table EXCEPT ![n] = joined]
          /\ state' = [state EXCEPT ![p] = "BLOCKED"]
      BY <2>1, <2>3 DEF sem_wait, Refused, Queue
    <3>. HIDE DEF joined
    <3>2. OnlyAt(n) /\ SameValue(n) /\ Queue(n)' = Append(Queue(n), p)
      BY <1>3, <3>1, EntryEffect DEF SameValue
    <3>. QED
      BY <1>1, <1>6, <2>1, <2>2, <3>1, <3>2
  <2>4. CASE ~ MustWait(n)
    <3>1. sem_table' = [sem_table EXCEPT ![n] = taken] /\ state' = state
      BY <2>1, <2>4 DEF sem_wait, Refused
    <3>2. sem_table[n].value > 0
      BY <1>2, <2>4 DEF MustWait
    <3>. HIDE DEF taken
    <3>3. /\ OnlyAt(n) /\ sem_table'[n].value = sem_table[n].value - 1
          /\ Queue(n)' = Queue(n)
      BY <1>4, <3>1, <3>2, EntryEffect
    <3>. QED
      BY <1>1, <1>6, <2>1, <2>2, <3>1, <3>2, <3>3
  <2>. QED
    BY <2>3, <2>4
<1>7. CASE half[p] # "queued" /\ ~ (Whole(p) \/ ~ MustWait(n))
  <2>1. /\ sem_table' = [sem_table EXCEPT ![n] = joined]
        /\ half' = [half EXCEPT ![p] = "queued"]
        /\ cpu' = Nobody /\ state' = state /\ pc' = pc /\ masked' = masked
    BY <1>7 DEF Wait, Queue
  <2>2. Alone(p) /\ half'[p] = "queued" /\ pc'[p] = from
    BY <1>1, <2>1 DEF Types, CallTypes, Alone
  <2>3. ~ SemaphoresAtomic
    BY <1>7 DEF Whole
  <2>. HIDE DEF joined
  <2>4. OnlyAt(n) /\ SameValue(n) /\ Queue(n)' = Append(Queue(n), p)
    BY <1>3, <2>1, EntryEffect DEF SameValue
  <2>. QED
    BY <1>1, <1>7, <2>1, <2>2, <2>3, <2>4
<1>. QED
  BY <1>5, <1>6, <1>7

(* A post: nothing yet or nothing at all, one token more, or the head of   *)
(* the queue leaves it.                                                    *)
LEMMA PostEffect ==
    ASSUME Types, NEW p \in Processes, NEW n \in Names,
           NEW from \in Labels, NEW to \in Labels, Post(p, n, from, to)
    PROVE  /\ Alone(p) /\ OnlyAt(n) /\ masked' = masked
           /\ pc[p] = from /\ state[p] = "READY"
           /\ half'[p] \in {half[p], "no", "counting"}
           /\ \/ /\ sem_table' = sem_table /\ state' = state
                 /\ \/ half'[p] = "counting" /\ pc'[p] = from /\ ~ SemaphoresAtomic
                    \/ half[p] # "counting" /\ half' = half /\ pc'[p] = to
              \/ /\ pc'[p] = to
                 /\ \/ half[p] # "counting" /\ half' = half
                    \/ half[p] = "counting" /\ half'[p] = "no"
                 /\ sem_table'[n].value = sem_table[n].value + 1
                 /\ Queue(n)' = Queue(n) /\ state' = state
              \/ /\ pc'[p] = to /\ half[p] # "counting" /\ half' = half
                 /\ SameValue(n) /\ Queue(n) # <<>> /\ Queue(n)' = Tail(Queue(n))
                 /\ state' = Woken({Head(Queue(n))})
<1>1. pc[p] = from /\ state[p] = "READY" /\ masked' = masked
  BY DEF Post, At
<1>2. /\ sem_table[n] \in SemRecord /\ sem_table[n].value \in Nat
      /\ Queue(n) = sem_table[n].waiting_processes
      /\ Queue(n) \in Seq(Processes)
      /\ Queue(n) # <<>> => Tail(Queue(n)) \in Seq(Processes)
  BY EntryType, HeadTailProperties DEF Queue
<1> DEFINE left0 == [sem_table[n] EXCEPT !.waiting_processes = Tail(Queue(n))]
           more == [sem_table[n] EXCEPT !.value = sem_table[n].value + 1]
<1>3. Queue(n) # <<>> =>
         /\ left0 \in SemRecord /\ left0.value = sem_table[n].value
         /\ left0.waiting_processes = Tail(Queue(n))
  BY <1>2 DEF SemRecord
<1>4. /\ more \in SemRecord /\ more.value = sem_table[n].value + 1
      /\ more.waiting_processes = Queue(n)
  BY <1>2 DEF SemRecord
<1>5. CASE half[p] = "counting"
  <2>1. /\ sem_table' = [sem_table EXCEPT ![n] = more]
        /\ half' = [half EXCEPT ![p] = "no"] /\ pc' = [pc EXCEPT ![p] = to]
        /\ cpu' = Nobody /\ state' = state
    BY <1>5 DEF Post, Goto
  <2>2. Alone(p) /\ half'[p] = "no" /\ pc'[p] = to
    BY <1>1, <2>1 DEF Types, CallTypes, Alone
  <2>. HIDE DEF more
  <2>3. /\ OnlyAt(n) /\ sem_table'[n].value = sem_table[n].value + 1
        /\ Queue(n)' = Queue(n)
    BY <1>4, <2>1, EntryEffect
  <2>. QED
    BY <1>1, <1>5, <2>1, <2>2, <2>3
<1>6. CASE half[p] # "counting" /\ (Whole(p) \/ Queue(n) # <<>> \/ ~ find_semaphore(n))
  <2>1. /\ sem_post(n) /\ pc' = [pc EXCEPT ![p] = to] /\ half' = half
        /\ cpu' = IF masked[p] /\ Queue(n) = <<>> THEN p ELSE Nobody
    BY <1>6 DEF Post, Goto, Queue
  <2>2. Alone(p) /\ pc'[p] = to
    BY <1>1, <2>1 DEF Types, CallTypes, Alone
  <2>3. CASE ~ find_semaphore(n)
    <3>1. sem_table' = sem_table /\ state' = state
      BY <2>1, <2>3 DEF sem_post, semVars
    <3>2. OnlyAt(n)
      BY <3>1 DEF Types, CallTypes, OnlyAt
    <3>. QED
      BY <1>1, <1>6, <2>1, <2>2, <3>1, <3>2
  <2>4. CASE find_semaphore(n) /\ Queue(n) # <<>>
    <3>1. /\ sem_table' = [sem_table EXCEPT ![n] = left0]
          /\ state' = Woken({Head(Queue(n))})
      BY <2>1, <2>4 DEF sem_post, Queue
    <3>. HIDE DEF left0
    <3>2. OnlyAt(n) /\ SameValue(n) /\ Queue(n)' = Tail(Queue(n))
      BY <1>3, <2>4, <3>1, EntryEffect DEF SameValue
    <3>. QED
      BY <1>1, <1>6, <2>1, <2>2, <2>4, <3>1, <3>2
  <2>5. CASE find_semaphore(n) /\ Queue(n) = <<>>
    <3>1. sem_table' = [sem_table EXCEPT ![n] = more] /\ state' = state
      BY <2>1, <2>5 DEF sem_post, Queue
    <3>. HIDE DEF more
    <3>2. /\ OnlyAt(n) /\ sem_table'[n].value = sem_table[n].value + 1
          /\ Queue(n)' = Queue(n)
      BY <1>4, <3>1, EntryEffect
    <3>. QED
      BY <1>1, <1>6, <2>1, <2>2, <3>1, <3>2
  <2>. QED
    BY <2>3, <2>4, <2>5
<1>7. CASE half[p] # "counting" /\ ~ (Whole(p) \/ Queue(n) # <<>> \/ ~ find_semaphore(n))
  <2>1. /\ half' = [half EXCEPT ![p] = "counting"] /\ cpu' = Nobody
        /\ sem_table' = sem_table /\ state' = state /\ pc' = pc
    BY <1>7 DEF Post, Queue, semVars
  <2>2. Alone(p) /\ half'[p] = "counting" /\ pc'[p] = from
    BY <1>1, <2>1 DEF Types, CallTypes, Alone
  <2>3. ~ SemaphoresAtomic
    BY <1>7 DEF Whole
  <2>4. OnlyAt(n)
    BY <2>1 DEF Types, CallTypes, OnlyAt
  <2>. QED
    BY <1>1, <2>1, <2>2, <2>3, <2>4
<1>. QED
  BY <1>5, <1>6, <1>7

(* The labels of a post.                                                   *)
LEMMA PostMoves ==
    ASSUME Types, NEW p \in Processes, NEW n \in Names,
           NEW from \in Labels, NEW to \in Labels, Post(p, n, from, to)
    PROVE  Alone(p) /\ OnlyAt(n) /\ pc[p] = from /\ pc'[p] \in {from, to}
<1>1. pc'[p] = from \/ pc'[p] = to
  BY PostEffect
<1>2. Alone(p) /\ OnlyAt(n) /\ pc[p] = from
  BY PostEffect
<1>. QED
  BY <1>1, <1>2

(* A close: one user less, nothing, or the queue is emptied and woken.     *)
LEMMA CloseEffect ==
    ASSUME Types, NEW p \in Processes, NEW n \in Names,
           NEW from \in Labels, NEW to \in Labels, CloseSem(p, n, from, to)
    PROVE  /\ Alone(p) /\ OnlyAt(n) /\ masked' = masked /\ half' = half
           /\ pc[p] = from /\ pc'[p] = to /\ state[p] = "READY"
           /\ \/ SameValue(n) /\ Queue(n)' = Queue(n) /\ state' = state
              \/ /\ Queue(n)' = <<>> /\ state' = Woken(ToSet(Queue(n)))
<1>1. /\ pc[p] = from /\ state[p] = "READY" /\ masked' = masked /\ half' = half
      /\ pc' = [pc EXCEPT ![p] = to] /\ cpu' \in Processes \cup {Nobody}
  BY DEF CloseSem, At, Goto
<1>2. Alone(p) /\ pc'[p] = to
  BY <1>1 DEF Types, CallTypes, Alone
<1>3. /\ sem_table[n] \in SemRecord /\ sem_table[n].users \in Nat
      /\ Queue(n) = sem_table[n].waiting_processes
  BY EntryType DEF Queue
<1> DEFINE fewer == [sem_table[n] EXCEPT !.users = sem_table[n].users - 1]
<1>4. sem_table[n].users > 1 =>
         /\ fewer \in SemRecord /\ fewer.value = sem_table[n].value
         /\ fewer.waiting_processes = Queue(n)
  BY <1>3 DEF SemRecord
<1>5. SEM_FREE \in SemRecord /\ SEM_FREE.waiting_processes = <<>>
  BY EmptySeq DEF SEM_FREE, SemRecord
<1>6. CASE ~ pipe.active \/ ~ find_semaphore(n)
  <2>1. sem_table' = sem_table /\ state' = state
    BY <1>6 DEF CloseSem, sem_close, semVars
  <2>. QED
    BY <1>1, <1>2, <2>1 DEF Types, CallTypes, OnlyAt, Queue, SameValue
<1>7. CASE pipe.active /\ find_semaphore(n) /\ IsLastUser(n)
  <2>1. /\ sem_table' = [sem_table EXCEPT ![n] = SEM_FREE]
        /\ state' = Woken(ToSet(Queue(n)))
    BY <1>7 DEF CloseSem, sem_close, Queue
  <2>2. OnlyAt(n) /\ Queue(n)' = <<>>
    BY <1>5, <2>1, EntryEffect
  <2>. QED
    BY <1>1, <1>2, <2>1, <2>2
<1>8. CASE pipe.active /\ find_semaphore(n) /\ ~ IsLastUser(n)
  <2>1. sem_table' = [sem_table EXCEPT ![n] = fewer] /\ state' = state
    BY <1>8 DEF CloseSem, sem_close
  <2>2. sem_table[n].users > 1
    BY <1>3, <1>8 DEF IsLastUser
  <2>. HIDE DEF fewer
  <2>3. OnlyAt(n) /\ SameValue(n) /\ Queue(n)' = Queue(n)
    BY <1>4, <2>1, <2>2, EntryEffect DEF SameValue
  <2>. QED
    BY <1>1, <1>2, <2>1, <2>3
<1>. QED
  BY <1>6, <1>7, <1>8
---------------------------------------------------------------------------
(* OnePlace *)

WaitLabels == {"w_room", "w_mutex", "r_token", "r_mutex"}

\* p is in none of the queues.
Absent(p) == \A n \in Names : \A i \in DOMAIN Queue(n) : Queue(n)[i] # p

(* A queue is a sequence of processes.                                     *)
LEMMA QueueFacts ==
    ASSUME Types, NEW n \in Names
    PROVE  /\ Queue(n) \in Seq(Processes) /\ Len(Queue(n)) \in Nat
           /\ DOMAIN Queue(n) = 1 .. Len(Queue(n))
           /\ \A i \in DOMAIN Queue(n) : Queue(n)[i] \in Processes
  BY EntryType, LenProperties, ElementOfSeq

(* Who is at the start of a call on no semaphore, or has not begun to      *)
(* wait, is in no queue.                                                   *)
LEMMA RunnerIsAbsent ==
    ASSUME Types, OnePlace, NEW p \in Processes, state[p] = "READY",
           half[p] # "queued" \/ pc[p] \notin WaitLabels
    PROVE  Absent(p)
<1>1. \A n \in Names : ~ Place(p, n)
  BY DEF Place, WaitLabels
<1>. QED
  BY <1>1 DEF OnePlace, Absent

(* The label tells the queue.                                              *)
LEMMA OneQueue ==
    ASSUME NEW p, NEW n, NEW m, Place(p, n), Place(p, m)
    PROVE  n = m
  BY DEF Place

(* The queues stay as they are, and p is in none.                          *)
LEMMA PlacesStay ==
    ASSUME Types, OnePlace, NEW p \in Processes, Alone(p), Absent(p),
           \A n \in Names : Queue(n)' = Queue(n),
           \A o \in Processes \ {p} : state[o] # "READY" => state'[o] # "READY"
    PROVE  OnePlace'
<1>1. ASSUME NEW n \in Names, NEW i \in DOMAIN Queue(n), NEW o \in Processes,
             Queue(n)[i] = o
      PROVE  Place(o, n)'
  <2>1. o # p /\ Place(o, n)
    BY <1>1 DEF OnePlace, Absent
  <2>. QED
    BY <2>1 DEF Alone, Place
<1>. QED
  BY <1>1 DEF OnePlace

(* p joins the queue of n.                                                 *)
LEMMA PlacesJoin ==
    ASSUME Types, OnePlace, NEW p \in Processes, NEW n \in Names,
           Alone(p), Absent(p), OnlyAt(n), Queue(n)' = Append(Queue(n), p),
           \A o \in Processes \ {p} : state'[o] = state[o], Place(p, n)'
    PROVE  OnePlace'
<1> DEFINE k == Len(Queue(n)) + 1
<1>1. /\ DOMAIN Queue(n)' = 1 .. k
      /\ \A i \in 1 .. k : \/ i \in DOMAIN Queue(n) /\ Queue(n)'[i] = Queue(n)[i]
                           \/ i = k /\ Queue(n)'[i] = p
  <2>1. /\ Len(Append(Queue(n), p)) = k /\ Append(Queue(n), p) \in Seq(Processes)
        /\ \A i \in 1 .. Len(Queue(n)) : Append(Queue(n), p)[i] = Queue(n)[i]
        /\ Append(Queue(n), p)[k] = p
    BY QueueFacts, AppendProperties
  <2>2. \A i \in 1 .. k : i \in 1 .. Len(Queue(n)) \/ i = k
    BY QueueFacts
  <2>. QED
    BY <2>1, <2>2, QueueFacts, LenProperties
<1>. HIDE DEF k
<1>2. \A m \in Names \ {n} : Queue(m)' = Queue(m)
  BY DEF OnlyAt, Queue
<1>3. \A m \in Names : \A o \in Processes \ {p} : Place(o, m) => Place(o, m)'
  BY DEF Alone, Place
<1>4. \A m \in Names : \A i \in DOMAIN Queue(m) :
         Queue(m)[i] \in Processes \ {p}
  BY QueueFacts DEF Absent
<1>5. ASSUME NEW m \in Names, NEW i \in DOMAIN Queue(m)', NEW o \in Processes,
             Queue(m)'[i] = o
      PROVE  Place(o, m)'
  <2>1. CASE m # n
    BY <1>2, <1>3, <1>4, <1>5, <2>1 DEF OnePlace
  <2>2. CASE m = n
    <3>1. CASE i \in DOMAIN Queue(n) /\ Queue(n)'[i] = Queue(n)[i]
      BY <1>3, <1>4, <1>5, <2>2, <3>1 DEF OnePlace
    <3>2. CASE Queue(n)'[i] = p
      BY <1>5, <2>2, <3>2
    <3>. QED
      BY <1>1, <1>5, <2>2, <3>1, <3>2
  <2>. QED
    BY <2>1, <2>2
<1>6. ASSUME NEW m \in Names, NEW i \in DOMAIN Queue(m)', NEW j \in DOMAIN Queue(m)',
             Queue(m)'[i] = Queue(m)'[j]
      PROVE  i = j
  <2>1. CASE m # n
    BY <1>2, <1>6, <2>1 DEF OnePlace
  <2>2. CASE m = n
    BY <1>1, <1>4, <1>6, <2>2 DEF OnePlace
  <2>. QED
    BY <2>1, <2>2
<1>. QED
  BY <1>5, <1>6 DEF OnePlace

(* The first k leave the queue of n, and nobody but they wakes up.         *)
LEMMA PlacesLeave ==
    ASSUME Types, OnePlace, NEW p \in Processes, NEW n \in Names,
           Alone(p), Absent(p), OnlyAt(n), Queue(n)' \in Seq(Processes),
           NEW k \in Nat, k <= Len(Queue(n)),
           Len(Queue(n)') = Len(Queue(n)) - k,
           \A i \in 1 .. Len(Queue(n)) - k : Queue(n)'[i] = Queue(n)[i + k],
           \A o \in Processes :
              state'[o] # state[o] => \E j \in 1 .. k : Queue(n)[j] = o
    PROVE  OnePlace'
<1>1. \A m \in Names \ {n} : Queue(m)' = Queue(m)
  BY DEF OnlyAt, Queue
<1>2. ASSUME NEW m \in Names, NEW i \in DOMAIN Queue(m)'
      PROVE  \E a \in DOMAIN Queue(m) : /\ Queue(m)'[i] = Queue(m)[a]
                                        /\ a = IF m = n THEN i + k ELSE i
  <2>1. CASE m = n
    <3>1. DOMAIN Queue(n)' = 1 .. Len(Queue(n)')
      BY LenProperties
    <3>2. i + k \in 1 .. Len(Queue(n)) /\ i \in 1 .. Len(Queue(n)) - k
      BY <1>2, <2>1, <3>1, QueueFacts
    <3>. QED
      BY <2>1, <3>2, QueueFacts
  <2>2. CASE m # n
    BY <1>1, <1>2, <2>2
  <2>. QED
    BY <2>1, <2>2
<1>3. ASSUME NEW m \in Names, NEW i \in DOMAIN Queue(m)', NEW o \in Processes,
             Queue(m)'[i] = o
      PROVE  Place(o, m)'
  <2>1. PICK a \in DOMAIN Queue(m) : /\ Queue(m)'[i] = Queue(m)[a]
                                     /\ a = IF m = n THEN i + k ELSE i
    BY <1>2, <1>3
  <2>2. o = Queue(m)[a] /\ o # p /\ Place(o, m)
    BY <1>3, <2>1 DEF OnePlace, Absent
  <2>3. state'[o] = state[o]
    <3>1. ASSUME NEW j \in 1 .. k, Queue(n)[j] = o
          PROVE  FALSE
      <4>1. j \in DOMAIN Queue(n) /\ Place(o, n)
        BY <3>1, QueueFacts DEF OnePlace
      <4>2. m = n
        BY <2>2, <4>1, OneQueue
      <4>3. j = a
        BY <2>2, <3>1, <4>1, <4>2 DEF OnePlace
      <4>4. i \in Nat /\ i > 0
        <5>1. DOMAIN Queue(n)' = 1 .. Len(Queue(n)')
          BY LenProperties
        <5>. QED
          BY <1>3, <4>2, <5>1
      <4>. QED
        BY <2>1, <4>2, <4>3, <4>4
    <3>. QED
      BY <2>2, <3>1
  <2>4. Place(o, m)'
    BY <2>2, <2>3 DEF Alone, Place
  <2>. QED
    BY <2>1, <2>4
<1>4. ASSUME NEW m \in Names, NEW i \in DOMAIN Queue(m)', NEW j \in DOMAIN Queue(m)',
             Queue(m)'[i] = Queue(m)'[j]
      PROVE  i = j
  <2>1. PICK a \in DOMAIN Queue(m) : /\ Queue(m)'[i] = Queue(m)[a]
                                     /\ a = IF m = n THEN i + k ELSE i
    BY <1>2, <1>4
  <2>2. PICK b \in DOMAIN Queue(m) : /\ Queue(m)'[j] = Queue(m)[b]
                                     /\ b = IF m = n THEN j + k ELSE j
    BY <1>2, <1>4
  <2>3. a = b
    BY <1>4, <2>1, <2>2 DEF OnePlace
  <2>4. m = n => i \in Int /\ j \in Int
    <3>1. DOMAIN Queue(n)' = 1 .. Len(Queue(n)')
      BY LenProperties
    <3>. QED
      BY <3>1
  <2>. QED
    BY <2>1, <2>2, <2>3, <2>4
<1>. QED
  BY <1>3, <1>4 DEF OnePlace
\* The waits of pipe_write and pipe_read: on n at from, then at to.
WaitPoint(n, from, to) ==
    \/ n = "write" /\ from = "w_room" /\ to = "w_mutex"
    \/ n = "mutex" /\ from = "w_mutex" /\ to = "w_put"
    \/ n = "read" /\ from = "r_token" /\ to = "r_mutex"
    \/ n = "mutex" /\ from = "r_mutex" /\ to = "r_get"

(* A wait, of the three kinds.                                             *)
LEMMA PlacesWait ==
    ASSUME Types, OnePlace, NEW p \in Processes, NEW n \in Names,
           NEW from \in Labels, NEW to \in Labels, WaitPoint(n, from, to),
           Wait(p, n, from, to)
    PROVE  OnePlace'
<1>1. /\ Alone(p) /\ OnlyAt(n) /\ pc[p] = from /\ state[p] = "READY"
      /\ pc' \in [Processes -> Labels] /\ pc \in [Processes -> Labels]
  BY WaitEffect DEF Alone, Types, CallTypes
<1>2. CASE /\ half[p] = "queued" /\ half'[p] = "no" /\ pc'[p] = to
           /\ state' = [state EXCEPT ![p] = "BLOCKED"] /\ sem_table' = sem_table
  <2>1. \A m \in Names : Queue(m)' = Queue(m)
    BY <1>2 DEF Queue
  <2>2. \A o \in Processes : state'[o] = IF o = p THEN "BLOCKED" ELSE state[o]
    BY <1>2 DEF Types, CallTypes
  <2>3. ASSUME NEW m \in Names, NEW i \in DOMAIN Queue(m), NEW o \in Processes,
               Queue(m)[i] = o
        PROVE  Place(o, m)'
    <3>1. Place(o, m)
      BY <2>3 DEF OnePlace
    <3>2. CASE o = p
      BY <1>1, <1>2, <2>2, <3>1, <3>2 DEF Place, WaitPoint
    <3>3. CASE o # p
      BY <1>1, <2>2, <3>1, <3>3 DEF Place, Alone
    <3>. QED
      BY <3>2, <3>3
  <2>. QED
    BY <2>1, <2>3 DEF OnePlace
<1>3. half[p] # "queued" => Absent(p)
  BY <1>1, RunnerIsAbsent
<1>4. CASE /\ half[p] # "queued" /\ Queue(n)' = Queue(n) /\ state' = state
  <2>1. \A m \in Names : Queue(m)' = Queue(m)
    BY <1>1, <1>4 DEF OnlyAt, Queue
  <2>. QED
    BY <1>1, <1>3, <1>4, <2>1, PlacesStay
<1>5. CASE /\ half[p] # "queued" /\ half' = half /\ pc'[p] = to
           /\ Queue(n)' = Append(Queue(n), p)
           /\ state' = [state EXCEPT ![p] = "BLOCKED"]
  <2>1. \A o \in Processes : state'[o] = IF o = p THEN "BLOCKED" ELSE state[o]
    BY <1>5 DEF Types, CallTypes
  <2>2. Place(p, n)'
    BY <1>5, <2>1 DEF Place, WaitPoint
  <2>. QED
    BY <1>1, <1>3, <1>5, <2>1, <2>2, PlacesJoin
<1>6. CASE /\ half[p] # "queued" /\ half'[p] = "queued" /\ pc'[p] = from
           /\ Queue(n)' = Append(Queue(n), p) /\ state' = state
  <2>1. Place(p, n)'
    BY <1>6 DEF Place, WaitPoint
  <2>. QED
    BY <1>1, <1>3, <1>6, <2>1, PlacesJoin
<1>. QED
  BY <1>2, <1>4, <1>5, <1>6, WaitEffect

(* Only who is in the set is woken.                                        *)
LEMMA WokenValue ==
    ASSUME Types, NEW S
    PROVE  /\ Woken(S) \in [Processes -> {"READY", "BLOCKED", "TERMINATED"}]
           /\ \A o \in Processes : Woken(S)[o] # state[o] => o \in S
  BY DEF Types, CallTypes, Woken

(* A post: nobody moves in the queues, or the first one leaves.            *)
LEMMA PlacesPost ==
    ASSUME Types, OnePlace, NEW p \in Processes, NEW n \in Names,
           NEW from \in Labels \ WaitLabels, NEW to \in Labels, Post(p, n, from, to)
    PROVE  OnePlace'
<1>1. Alone(p) /\ OnlyAt(n) /\ pc[p] = from /\ state[p] = "READY"
  BY PostEffect
<1>2. Absent(p)
  BY <1>1, RunnerIsAbsent
<1>3. CASE Queue(n)' = Queue(n) /\ state' = state
  <2>1. \A m \in Names : Queue(m)' = Queue(m)
    BY <1>1, <1>3 DEF OnlyAt, Queue
  <2>. QED
    BY <1>1, <1>2, <1>3, <2>1, PlacesStay
<1>4. CASE /\ Queue(n) # <<>> /\ Queue(n)' = Tail(Queue(n))
           /\ state' = Woken({Head(Queue(n))})
  <2>1. /\ Tail(Queue(n)) \in Seq(Processes) /\ 1 <= Len(Queue(n))
        /\ Len(Tail(Queue(n))) = Len(Queue(n)) - 1
        /\ \A i \in 1 .. Len(Queue(n)) - 1 : Tail(Queue(n))[i] = Queue(n)[i + 1]
        /\ Head(Queue(n)) = Queue(n)[1]
    BY <1>4, QueueFacts, HeadTailProperties, EmptySeq
  <2>2. \A o \in Processes : state'[o] # state[o] => \E j \in 1 .. 1 : Queue(n)[j] = o
    BY <1>4, <2>1, WokenValue
  <2>3. /\ Queue(n)' \in Seq(Processes) /\ Len(Queue(n)') = Len(Queue(n)) - 1
        /\ \A i \in 1 .. Len(Queue(n)) - 1 : Queue(n)'[i] = Queue(n)[i + 1]
    BY <1>4, <2>1
  <2>4. PICK k \in Nat : k = 1
    OBVIOUS
  <2>. QED
    BY <1>1, <1>2, <2>1, <2>2, <2>3, <2>4, PlacesLeave
<1>5. sem_table' = sem_table => Queue(n)' = Queue(n)
  BY DEF Queue
<1>. QED
  BY <1>3, <1>4, <1>5, PostEffect

(* A close: nobody moves in the queues, or all leave one of them.          *)
LEMMA PlacesClose ==
    ASSUME Types, OnePlace, NEW p \in Processes, NEW n \in Names,
           NEW from \in Labels \ WaitLabels, NEW to \in Labels,
           CloseSem(p, n, from, to)
    PROVE  OnePlace'
<1>1. Alone(p) /\ OnlyAt(n) /\ pc[p] = from /\ state[p] = "READY"
  BY CloseEffect
<1>2. Absent(p)
  BY <1>1, RunnerIsAbsent
<1>3. CASE Queue(n)' = Queue(n) /\ state' = state
  <2>1. \A m \in Names : Queue(m)' = Queue(m)
    BY <1>1, <1>3 DEF OnlyAt, Queue
  <2>. QED
    BY <1>1, <1>2, <1>3, <2>1, PlacesStay
<1>4. CASE Queue(n)' = <<>> /\ state' = Woken(ToSet(Queue(n)))
  <2> DEFINE k == Len(Queue(n))
  <2>1. /\ <<>> \in Seq(Processes) /\ Len(<<>>) = 0 /\ k \in Nat /\ k - k = 0
        /\ 1 .. 0 = {} /\ DOMAIN Queue(n) = 1 .. k
    BY QueueFacts, EmptySeq
  <2>2. \A o \in Processes : state'[o] # state[o] => \E j \in 1 .. k : Queue(n)[j] = o
    BY <1>4, <2>1, WokenValue DEF ToSet
  <2>3. /\ Queue(n)' \in Seq(Processes) /\ k <= Len(Queue(n))
        /\ Len(Queue(n)') = Len(Queue(n)) - k
        /\ \A i \in 1 .. Len(Queue(n)) - k : Queue(n)'[i] = Queue(n)[i + k]
    BY <1>4, <2>1
  <2>4. PICK l \in Nat : l = k
    BY <2>1
  <2>. QED
    BY <1>1, <1>2, <2>2, <2>3, <2>4, PlacesLeave
<1>. QED
  BY <1>3, <1>4, CloseEffect

(* No semaphore is touched, and nobody wakes.                              *)
LEMMA PlacesQuiet ==
    ASSUME Types, OnePlace, NEW p \in Processes, Alone(p), sem_table' = sem_table,
           state[p] = "READY", half[p] # "queued" \/ pc[p] \notin WaitLabels,
           \A o \in Processes \ {p} : state[o] # "READY" => state'[o] # "READY"
    PROVE  OnePlace'
<1>1. \A m \in Names : Queue(m)' = Queue(m)
  BY DEF Queue
<1>2. Absent(p)
  BY RunnerIsAbsent
<1>. QED
  BY <1>1, <1>2, PlacesStay
---------------------------------------------------------------------------
(* Backed *)

(* The sizes of a set and of one that has lost or won a member.            *)
LEMMA Sizes ==
    ASSUME NEW S, IsFiniteSet(S), NEW T, NEW p, NEW o
    PROVE  /\ Cardinality(S) \in Nat
           /\ T \subseteq S => Cardinality(T) \in Nat /\ Cardinality(T) <= Cardinality(S)
           /\ T \subseteq S \cup {o} =>
                 Cardinality(T) \in Nat /\ Cardinality(T) <= Cardinality(S) + 1
           /\ p \in S /\ T \subseteq S \ {p} =>
                 Cardinality(T) \in Nat /\ Cardinality(T) <= Cardinality(S) - 1
           /\ p \in S /\ T \subseteq (S \ {p}) \cup {o} =>
                 Cardinality(T) \in Nat /\ Cardinality(T) <= Cardinality(S)
<1>1. Cardinality(S) \in Nat
  BY FS_CardinalityType
<1>2. /\ IsFiniteSet(S \cup {o}) /\ Cardinality(S \cup {o}) \in Nat
      /\ Cardinality(S \cup {o}) <= Cardinality(S) + 1
  BY <1>1, FS_AddElement, FS_CardinalityType
<1>3. /\ IsFiniteSet(S \ {p}) /\ Cardinality(S \ {p}) \in Nat
      /\ p \in S => Cardinality(S \ {p}) = Cardinality(S) - 1
  BY <1>1, FS_RemoveElement, FS_CardinalityType
<1>4. /\ IsFiniteSet((S \ {p}) \cup {o}) /\ Cardinality((S \ {p}) \cup {o}) \in Nat
      /\ Cardinality((S \ {p}) \cup {o}) <= Cardinality(S \ {p}) + 1
  <2>1. PICK R : R = S \ {p}
    OBVIOUS
  <2>2. IsFiniteSet(R) /\ Cardinality(R) \in Nat
    BY <1>3, <2>1
  <2>3. /\ IsFiniteSet(R \cup {o})
        /\ Cardinality(R \cup {o}) \in {Cardinality(R), Cardinality(R) + 1}
    BY <2>2, FS_AddElement
  <2>. QED
    BY <2>1, <2>2, <2>3
<1>5. \A U : IsFiniteSet(U) /\ T \subseteq U =>
         Cardinality(T) \in Nat /\ Cardinality(T) <= Cardinality(U)
  BY FS_Subset, FS_CardinalityType
<1>6. T \subseteq S => Cardinality(T) \in Nat /\ Cardinality(T) <= Cardinality(S)
  BY <1>5
<1>7. T \subseteq S \cup {o} =>
         Cardinality(T) \in Nat /\ Cardinality(T) <= Cardinality(S) + 1
  BY <1>1, <1>2, <1>5
<1>8. p \in S /\ T \subseteq S \ {p} =>
         Cardinality(T) \in Nat /\ Cardinality(T) <= Cardinality(S) - 1
  BY <1>1, <1>3, <1>5
<1>9. p \in S /\ T \subseteq (S \ {p}) \cup {o} =>
         Cardinality(T) \in Nat /\ Cardinality(T) <= Cardinality(S)
  BY <1>1, <1>3, <1>4, <1>5
<1>. QED
  BY <1>1, <1>6, <1>7, <1>8, <1>9

(* The promises can be counted.                                            *)
LEMMA ClaimantsFinite ==
    ASSUME PipeAssumption
    PROVE  /\ IsFiniteSet(Claimants) /\ Cardinality(Claimants) \in Nat
           /\ "read" \in Names /\ "write" \in Names /\ "mutex" \in Names
<1>1. IsFiniteSet(Processes) /\ Claimants \subseteq Processes
  BY DEF PipeAssumption, Claimants
<1>2. IsFiniteSet(Claimants)
  BY <1>1, FS_Subset
<1>. QED
  BY <1>2, FS_CardinalityType DEF PipeAssumption

(* Who claims after a step claimed before it, or is p, which moved, or has *)
(* left the queue of "read".                                               *)
LEMMA NewClaims ==
    ASSUME NEW p \in Processes, Alone(p), NEW o \in Processes \ {p},
           Claims(o)', Waits(o) => Waits(o)'
    PROVE  Claims(o)
  BY DEF Alone, Claims

(* What leaves the read semaphore alone, and takes no byte.                *)
LEMMA BackedStays ==
    ASSUME PipeAssumption, Types, Backed, NEW p \in Processes, Alone(p),
           SameValue("read"), Queue("read")' = Queue("read"),
           pipe'.count \in Nat, pipe'.count >= pipe.count,
           Claims(p)' => Claims(p)
    PROVE  Backed'
<1>1. Claimants' \subseteq Claimants
  <2>1. ASSUME NEW o \in Processes, Claims(o)'
        PROVE  Claims(o)
    <3>1. Waits(o) => Waits(o)'
      BY DEF Waits
    <3>. QED
      BY <2>1, <3>1, NewClaims
  <2>. QED
    BY <2>1 DEF Claimants
<1>2. IsFiniteSet(Claimants) /\ "read" \in Names
  BY ClaimantsFinite
<1>3. sem_table["read"].value \in Nat /\ pipe.count \in Nat
  BY <1>2, EntryType DEF Types, DataTypes, PipeRecord
<1>4. PICK S : S = Claimants'
  OBVIOUS
<1>5. /\ Cardinality(S) <= Cardinality(Claimants)
      /\ Cardinality(S) \in Nat /\ Cardinality(Claimants) \in Nat
  BY <1>1, <1>2, <1>4, Sizes
<1>. QED
  BY <1>3, <1>4, <1>5 DEF Backed, SameValue

(* A byte is stored and its token still to be posted.                      *)
LEMMA BackedByNewByte ==
    ASSUME PipeAssumption, Types, Backed, NEW p \in Processes, Alone(p),
           sem_table' = sem_table, pipe'.count = pipe.count + 1
    PROVE  Backed'
<1>1. Claimants' \subseteq Claimants \cup {p}
  <2>1. ASSUME NEW o \in Processes \ {p}, Claims(o)'
        PROVE  Claims(o)
    <3>1. Waits(o) => Waits(o)'
      BY DEF Waits, Queue
    <3>. QED
      BY <2>1, <3>1, NewClaims
  <2>. QED
    BY <2>1 DEF Claimants
<1>2. IsFiniteSet(Claimants) /\ "read" \in Names
  BY ClaimantsFinite
<1>3. sem_table["read"].value \in Nat /\ pipe.count \in Nat
  BY <1>2, EntryType DEF Types, DataTypes, PipeRecord
<1>4. PICK S : S = Claimants'
  OBVIOUS
<1>5. /\ Cardinality(S) <= Cardinality(Claimants) + 1
      /\ Cardinality(S) \in Nat /\ Cardinality(Claimants) \in Nat
  BY <1>1, <1>2, <1>4, Sizes
<1>. QED
  BY <1>3, <1>4, <1>5 DEF Backed

(* A byte is taken by a reader that had a claim.                           *)
LEMMA BackedByTakenByte ==
    ASSUME PipeAssumption, Types, Backed, NEW p \in Processes, Alone(p),
           Claims(p), ~ Claims(p)',
           sem_table' = sem_table, pipe'.count = pipe.count - 1
    PROVE  Backed'
<1>1. Claimants' \subseteq Claimants \ {p} /\ p \in Claimants
  <2>1. ASSUME NEW o \in Processes \ {p}, Claims(o)'
        PROVE  Claims(o)
    <3>1. Waits(o) => Waits(o)'
      BY DEF Waits, Queue
    <3>. QED
      BY <2>1, <3>1, NewClaims
  <2>. QED
    BY <2>1 DEF Claimants
<1>2. IsFiniteSet(Claimants) /\ "read" \in Names
  BY ClaimantsFinite
<1>3. sem_table["read"].value \in Nat /\ pipe.count \in Nat
  BY <1>2, EntryType DEF Types, DataTypes, PipeRecord
<1>4. PICK S : S = Claimants'
  OBVIOUS
<1>5. /\ Cardinality(S) <= Cardinality(Claimants) - 1
      /\ Cardinality(S) \in Nat /\ Cardinality(Claimants) \in Nat
  BY <1>1, <1>2, <1>4, Sizes
<1>. QED
  BY <1>3, <1>4, <1>5 DEF Backed

(* A wait for a token: it is taken with the claim that goes with it.       *)
LEMMA BackedWait ==
    ASSUME PipeAssumption, Types, OnePlace, Backed, NEW p \in Processes,
           Wait(p, "read", "r_token", "r_mutex"), pipe' = pipe
    PROVE  Backed'
<1>0. "read" \in Names /\ IsFiniteSet(Claimants) /\ Cardinality(Claimants) \in Nat
  BY ClaimantsFinite
<1>1. "r_token" \in Labels /\ "r_mutex" \in Labels
  BY DEF Labels
<1>2. Alone(p) /\ pc[p] = "r_token" /\ state[p] = "READY" /\ OnlyAt("read")
  BY <1>0, <1>1, WaitEffect
<1>3. sem_table["read"].value \in Nat /\ pipe.count \in Nat
  BY <1>0, EntryType DEF Types, DataTypes, PipeRecord
<1>4. CASE half[p] = "queued" /\ half'[p] = "no" /\ pc'[p] = "r_mutex"
           /\ sem_table' = sem_table
  <2>1. Queue("read")' = Queue("read") /\ SameValue("read")
    BY <1>4 DEF Queue, SameValue
  <2>2. Claims(p)' => Claims(p)
    BY <1>2, <1>4, <2>1 DEF Claims, Waits
  <2>. QED
    BY <1>2, <1>3, <2>1, <2>2, BackedStays
<1>5. CASE /\ half[p] # "queued" /\ sem_table["read"].value > 0
           /\ sem_table'["read"].value = sem_table["read"].value - 1
           /\ Queue("read")' = Queue("read")
  <2>1. Claimants' \subseteq Claimants \cup {p}
    <3>1. ASSUME NEW o \in Processes \ {p}, Claims(o)'
          PROVE  Claims(o)
      <4>1. Waits(o) => Waits(o)'
        BY <1>5 DEF Waits
      <4>. QED
        BY <1>2, <3>1, <4>1, NewClaims
    <3>. QED
      BY <3>1 DEF Claimants
  <2>2. PICK S : S = Claimants'
    OBVIOUS
  <2>3. Cardinality(S) <= Cardinality(Claimants) + 1 /\ Cardinality(S) \in Nat
    BY <1>0, <2>1, <2>2, Sizes
  <2>. QED
    BY <1>0, <1>3, <1>5, <2>2, <2>3 DEF Backed
<1>6. CASE /\ half[p] # "queued" /\ SameValue("read")
           /\ Queue("read")' = Append(Queue("read"), p)
  <2>1. \A o \in Processes : Waits(o) \/ o = p => Waits(o)'
    <3>1. /\ Queue("read") \in Seq(Processes) /\ Len(Queue("read")) \in Nat
          /\ DOMAIN Queue("read") = 1 .. Len(Queue("read"))
      BY <1>0, QueueFacts
    <3>2. /\ DOMAIN Append(Queue("read"), p) = 1 .. Len(Queue("read")) + 1
          /\ \A i \in 1 .. Len(Queue("read")) :
                Append(Queue("read"), p)[i] = Queue("read")[i]
          /\ Append(Queue("read"), p)[Len(Queue("read")) + 1] = p
      BY <3>1, AppendProperties, LenProperties
    <3>3. /\ Len(Queue("read")) + 1 \in 1 .. Len(Queue("read")) + 1
          /\ 1 .. Len(Queue("read")) \subseteq 1 .. Len(Queue("read")) + 1
      BY <3>1
    <3>. QED
      BY <1>6, <3>1, <3>2, <3>3 DEF Waits
  <2>2. Claimants' \subseteq Claimants
    <3>1. ASSUME NEW o \in Processes \ {p}, Claims(o)'
          PROVE  Claims(o)
      BY <1>2, <2>1, <3>1, NewClaims
    <3>2. ~ Claims(p)'
      <4>1. pc'[p] \in {"r_token", "r_mutex"} /\ Waits(p)'
        BY <1>0, <1>1, <2>1, WaitEffect
      <4>. QED
        BY <4>1 DEF Claims
    <3>. QED
      BY <3>1, <3>2 DEF Claimants
  <2>3. PICK S : S = Claimants'
    OBVIOUS
  <2>4. Cardinality(S) <= Cardinality(Claimants) /\ Cardinality(S) \in Nat
    BY <1>0, <2>2, <2>3, Sizes
  <2>. QED
    BY <1>0, <1>3, <1>6, <2>3, <2>4 DEF Backed, SameValue
<1>. QED
  BY <1>0, <1>1, <1>4, <1>5, <1>6, WaitEffect

(* A post of a token by who announced it: the claim goes into the value,   *)
(* to the head of the queue, or is dropped.                                *)
LEMMA BackedPost ==
    ASSUME PipeAssumption, Types, OnePlace, Backed, NEW p \in Processes,
           NEW from \in Labels \ WaitLabels, NEW to \in Labels,
           Post(p, "read", from, to), pipe' = pipe, Claims(p),
           to \notin {"w_unlock", "w_signal", "r_mutex", "r_get", "r_token", "undo"},
           from \in {"w_signal", "undo"}
    PROVE  Backed'
<1>0. "read" \in Names /\ IsFiniteSet(Claimants) /\ Cardinality(Claimants) \in Nat
  BY ClaimantsFinite
<1>1. Alone(p) /\ pc[p] = from /\ state[p] = "READY"
  BY <1>0, PostEffect
<1>2. sem_table["read"].value \in Nat /\ pipe.count \in Nat /\ p \in Claimants
  BY <1>0, EntryType DEF Types, DataTypes, PipeRecord, Claimants
<1>3. pc'[p] = to => ~ Claims(p)'
  BY DEF Claims
<1>4. CASE sem_table' = sem_table
  <2>1. Queue("read")' = Queue("read") /\ SameValue("read")
    BY <1>4 DEF Queue, SameValue
  <2>. QED
    BY <1>1, <1>2, <2>1, BackedStays
<1>5. CASE /\ pc'[p] = to /\ Queue("read")' = Queue("read")
           /\ sem_table'["read"].value = sem_table["read"].value + 1
  <2>1. Claimants' \subseteq Claimants \ {p}
    <3>1. ASSUME NEW o \in Processes \ {p}, Claims(o)'
          PROVE  Claims(o)
      <4>1. Waits(o) => Waits(o)'
        BY <1>5 DEF Waits
      <4>. QED
        BY <1>1, <3>1, <4>1, NewClaims
    <3>. QED
      BY <1>3, <1>5, <3>1 DEF Claimants
  <2>2. PICK S : S = Claimants'
    OBVIOUS
  <2>3. Cardinality(S) <= Cardinality(Claimants) - 1 /\ Cardinality(S) \in Nat
    BY <1>0, <1>2, <2>1, <2>2, Sizes
  <2>. QED
    BY <1>0, <1>2, <1>5, <2>2, <2>3 DEF Backed
<1>6. CASE /\ pc'[p] = to /\ SameValue("read") /\ Queue("read") # <<>>
           /\ Queue("read")' = Tail(Queue("read"))
  <2>1. PICK h : h = Head(Queue("read"))
    OBVIOUS
  <2>2. \A o \in Processes \ {h} : Waits(o) => Waits(o)'
    <3>1. /\ Queue("read") \in Seq(Processes) /\ Len(Queue("read")) \in Nat
          /\ DOMAIN Queue("read") = 1 .. Len(Queue("read"))
      BY <1>0, QueueFacts
    <3>2. /\ DOMAIN Tail(Queue("read")) = 1 .. Len(Queue("read")) - 1
          /\ \A i \in 1 .. Len(Queue("read")) - 1 :
                Tail(Queue("read"))[i] = Queue("read")[i + 1]
          /\ h = Queue("read")[1]
      BY <1>6, <2>1, <3>1, HeadTailProperties, LenProperties
    <3>3. ASSUME NEW o \in Processes \ {h}, NEW i \in DOMAIN Queue("read"),
                 Queue("read")[i] = o
          PROVE  Waits(o)'
      <4>1. i # 1 /\ i \in 1 .. Len(Queue("read"))
        BY <3>1, <3>2, <3>3
      <4>2. i - 1 \in 1 .. Len(Queue("read")) - 1 /\ (i - 1) + 1 = i
        BY <3>1, <4>1
      <4>. QED
        BY <1>6, <3>2, <3>3, <4>2 DEF Waits
    <3>. QED
      BY <3>3 DEF Waits
  <2>3. Claimants' \subseteq (Claimants \ {p}) \cup {h}
    <3>1. ASSUME NEW o \in Processes \ {p, h}, Claims(o)'
          PROVE  Claims(o)
      BY <1>1, <2>2, <3>1, NewClaims
    <3>. QED
      BY <1>3, <1>6, <3>1 DEF Claimants
  <2>4. PICK S : S = Claimants'
    OBVIOUS
  <2>5. Cardinality(S) <= Cardinality(Claimants) /\ Cardinality(S) \in Nat
    BY <1>0, <1>2, <2>3, <2>4, Sizes
  <2>. QED
    BY <1>0, <1>2, <1>6, <2>4, <2>5 DEF Backed, SameValue
<1>. QED
  BY <1>0, <1>4, <1>5, <1>6, PostEffect
---------------------------------------------------------------------------
(* A step of one process *)

WaitingAt == {"w_room", "w_mutex", "r_token", "r_mutex"}
PostingAt == {"w_unlock", "w_signal", "r_unlock", "r_signal", "r_get", "undo"}

\* What the shape of a step says of all but the promises.
CallInv ==
    /\ CallTypes
    /\ OnePlace
    /\ Halfway

\* The end-of-file tokens of the others stay.
OwnTokens(p) == \A o \in Processes \ {p} : tokens'[o] = tokens[o]

(* Only p goes from one half of a call to the other.                       *)
LEMMA HalfwayStays ==
    ASSUME Types, Halfway, NEW p \in Processes, Alone(p), OwnTokens(p),
           half'[p] = "queued" => pc'[p] \in WaitingAt,
           half'[p] = "counting" =>
              pc'[p] \in PostingAt \/ (pc'[p] = "t_post" /\ tokens'[p] > 0)
    PROVE  Halfway'
<1>1. ASSUME NEW o \in Processes
      PROVE  /\ half'[o] = "queued" => pc'[o] \in WaitingAt
             /\ half'[o] = "counting" =>
                   pc'[o] \in PostingAt \/ (pc'[o] = "t_post" /\ tokens'[o] > 0)
  <2>1. CASE o = p
    BY <2>1
  <2>2. CASE o # p
    <3>1. half'[o] = half[o] /\ pc'[o] = pc[o] /\ tokens'[o] = tokens[o]
      BY <2>2 DEF Alone, OwnTokens
    <3>2. /\ half[o] = "queued" => pc[o] \in WaitingAt
          /\ half[o] = "counting" =>
                pc[o] \in PostingAt \/ (pc[o] = "t_post" /\ tokens[o] > 0)
      BY DEF Halfway, WaitingAt, PostingAt
    <3>. QED
      BY <3>1, <3>2
  <2>. QED
    BY <2>1, <2>2
<1>. QED
  BY <1>1 DEF Halfway, WaitingAt, PostingAt

(* A step of a call that touches no semaphore.                             *)
LEMMA QuietCalls ==
    ASSUME Types, OnePlace, Halfway, NEW p \in Processes,
           NEW from \in Labels, NEW to \in Labels,
           Step(p, from, to) \/ Enter(p, from, to) \/ Leave(p, from, to),
           half[p] = "no", OwnTokens(p)
    PROVE  CallInv'
<1>1. /\ Alone(p) /\ sem_table' = sem_table /\ state' = state
      /\ half' = half /\ state[p] = "READY"
  BY QuietEffect
<1>2. CallTypes'
  BY <1>1 DEF Types, CallTypes, Alone
<1>3. OnePlace'
  BY <1>1, PlacesQuiet
<1>4. Halfway'
  BY <1>1, HalfwayStays
<1>. QED
  BY <1>2, <1>3, <1>4 DEF CallInv

(* A wait.                                                                 *)
LEMMA WaitCalls ==
    ASSUME Types, OnePlace, Halfway, NEW p \in Processes, NEW n \in Names,
           NEW from \in Labels, NEW to \in Labels, WaitPoint(n, from, to),
           Wait(p, n, from, to), OwnTokens(p)
    PROVE  CallInv'
<1>1. Alone(p) /\ OnlyAt(n) /\ pc[p] = from /\ from \in WaitingAt
  BY WaitEffect DEF WaitPoint, WaitingAt
<1>2. CallTypes'
  <2>1. state' = state \/ state' = [state EXCEPT ![p] = "BLOCKED"]
    BY WaitEffect
  <2>2. state' \in [Processes -> {"READY", "BLOCKED", "TERMINATED"}]
    BY <2>1 DEF Types, CallTypes
  <2>. QED
    BY <1>1, <2>2 DEF CallTypes, Alone, OnlyAt
<1>3. OnePlace'
  BY PlacesWait
<1>4. Halfway'
  <2>1. half[p] \in {"no", "queued", "counting"}
    BY DEF Types, CallTypes
  <2>2. half[p] = "counting" => pc[p] \in PostingAt \cup {"t_post"}
    BY DEF Halfway, PostingAt
  <2>3. half[p] # "counting"
    BY <1>1, <2>2 DEF WaitingAt, PostingAt
  <2>4. half'[p] = "no" \/ (half'[p] = "queued" /\ pc'[p] = from)
    BY <2>1, <2>3, WaitEffect
  <2>. QED
    BY <1>1, <2>4, HalfwayStays
<1>. QED
  BY <1>2, <1>3, <1>4 DEF CallInv

(* A post.                                                                 *)
LEMMA PostCalls ==
    ASSUME Types, OnePlace, Halfway, NEW p \in Processes, NEW n \in Names,
           NEW from \in PostingAt \cup {"t_post"}, NEW to \in Labels,
           Post(p, n, from, to), OwnTokens(p),
           from = "t_post" /\ half'[p] = "counting" => tokens'[p] > 0
    PROVE  CallInv'
<1>0. from \in Labels \ WaitLabels
  BY DEF PostingAt, Labels, Leaving, WaitLabels
<1>1. Alone(p) /\ OnlyAt(n) /\ pc[p] = from
  BY <1>0, PostEffect
<1>2. CallTypes'
  <2>1. state' = state \/ state' = Woken({Head(Queue(n))})
    BY <1>0, PostEffect
  <2>2. state' \in [Processes -> {"READY", "BLOCKED", "TERMINATED"}]
    BY <2>1, WokenValue DEF Types, CallTypes
  <2>. QED
    BY <1>1, <2>2 DEF CallTypes, Alone, OnlyAt
<1>3. OnePlace'
  BY <1>0, PlacesPost
<1>4. Halfway'
  <2>1. half[p] \in {"no", "queued", "counting"}
    BY DEF Types, CallTypes
  <2>2. half[p] # "queued"
    BY <1>0, <1>1 DEF Halfway, WaitLabels
  <2>3. half'[p] = "no" \/ (half'[p] = "counting" /\ pc'[p] = from)
    BY <1>0, <2>1, <2>2, PostEffect
  <2>. QED
    BY <1>1, <2>3, HalfwayStays
<1>. QED
  BY <1>2, <1>3, <1>4 DEF CallInv

(* A close.                                                                *)
LEMMA CloseCalls ==
    ASSUME Types, OnePlace, Halfway, NEW p \in Processes, NEW n \in Names,
           NEW from \in {"t_mutex", "t_read", "t_write"}, NEW to \in Labels,
           CloseSem(p, n, from, to), OwnTokens(p)
    PROVE  CallInv'
<1>0. from \in Labels \ WaitLabels
  BY DEF Labels, Leaving, WaitLabels
<1>1. Alone(p) /\ OnlyAt(n) /\ pc[p] = from /\ half' = half
  BY <1>0, CloseEffect
<1>2. CallTypes'
  <2>1. state' = state \/ state' = Woken(ToSet(Queue(n)))
    BY <1>0, CloseEffect
  <2>2. state' \in [Processes -> {"READY", "BLOCKED", "TERMINATED"}]
    BY <2>1, WokenValue DEF Types, CallTypes
  <2>. QED
    BY <1>1, <2>2 DEF CallTypes, Alone, OnlyAt
<1>3. OnePlace'
  BY <1>0, PlacesClose
<1>4. Halfway'
  <2>1. half[p] # "queued" /\ half[p] # "counting"
    BY <1>1 DEF Halfway
  <2>. QED
    BY <1>1, <2>1, HalfwayStays
<1>. QED
  BY <1>2, <1>3, <1>4 DEF CallInv

(* The end of the process that is terminated, which is not p when it is    *)
(* killed.                                                                 *)
LEMMA DieEffect ==
    ASSUME Types, OnePlace, Halfway, NEW p \in Processes,
           NEW from \in {"t_post", "t_reset"}, Die(p, from),
           from = "t_post" => tokens[p] = 0
    PROVE  /\ CallInv' /\ Alone(p) /\ sem_table' = sem_table
           /\ tokens' = tokens /\ pc[p] = from /\ pc'[p] = "done" /\ half[p] = "no"
<1>1. /\ state' = [state EXCEPT ![target[p]] = "TERMINATED"]
      /\ pc' = [pc EXCEPT ![p] = "done"] /\ masked' = [masked EXCEPT ![p] = FALSE]
      /\ cpu' = Nobody /\ half' = half /\ sem_table' = sem_table /\ tokens' = tokens
      /\ pc[p] = from /\ state[p] = "READY"
  BY DEF Die, At, Goto
<1>2. /\ pc' \in [Processes -> Labels] /\ pc'[p] = "done"
      /\ \A o \in Processes \ {p} : pc'[o] = pc[o]
  BY <1>1 DEF Types, CallTypes, Labels, Leaving
<1>3. Alone(p)
  BY <1>1, <1>2 DEF Types, CallTypes, Alone
<1>4. /\ state' \in [Processes -> {"READY", "BLOCKED", "TERMINATED"}]
      /\ \A o \in Processes : state'[o] \in {state[o], "TERMINATED"}
  BY <1>1 DEF Types, CallTypes
<1>5. CallTypes'
  BY <1>1, <1>3, <1>4 DEF Types, CallTypes, Alone
<1>6. half[p] # "queued" /\ half[p] # "counting"
  <2>1. tokens[p] \in Nat
    BY DEF Types, DataTypes
  <2>. QED
    BY <1>1, <2>1 DEF Halfway
<1>7. half[p] = "no"
  BY <1>6 DEF Types, CallTypes
<1>8. OnePlace'
  BY <1>1, <1>3, <1>4, <1>6, PlacesQuiet
<1>9. Halfway'
  BY <1>1, <1>3, <1>6, HalfwayStays DEF OwnTokens
<1>. QED
  BY <1>1, <1>2, <1>3, <1>5, <1>7, <1>8, <1>9 DEF CallInv
---------------------------------------------------------------------------
(* The data *)

(* The fields of the pipe.                                                 *)
LEMMA PipeFacts ==
    ASSUME PipeAssumption, Types
    PROVE  /\ pipe \in PipeRecord
           /\ pipe.active \in BOOLEAN /\ pipe.eof \in BOOLEAN
           /\ pipe.readers \in Nat /\ pipe.writers \in Nat /\ pipe.count \in Nat
           /\ pipe.readIndex \in Nat /\ pipe.writeIndex \in Nat
           /\ pipe.buffer \in [0 .. PIPE_BUFFER_SIZE - 1 -> (Writers \X Nat) \cup {Nobody}]
           /\ Minus1(pipe.readers) \in Nat /\ Minus1(pipe.writers) \in Nat
           /\ (pipe.readIndex + 1) % PIPE_BUFFER_SIZE \in Nat
           /\ (pipe.writeIndex + 1) % PIPE_BUFFER_SIZE \in Nat
           /\ EofTokens \in Nat
           /\ \A t \in Processes : tokens[t] \in Nat
<1>1. /\ pipe \in PipeRecord /\ pipe.active \in BOOLEAN /\ pipe.eof \in BOOLEAN
      /\ pipe.readers \in Nat /\ pipe.writers \in Nat /\ pipe.count \in Nat
      /\ pipe.readIndex \in Nat /\ pipe.writeIndex \in Nat
      /\ pipe.buffer \in [0 .. PIPE_BUFFER_SIZE - 1 -> (Writers \X Nat) \cup {Nobody}]
  BY DEF Types, DataTypes, PipeRecord
<1>2. \A k \in Nat : (k + 1) % PIPE_BUFFER_SIZE \in Nat
  BY DEF PipeAssumption
<1>3. Minus1(pipe.readers) \in Nat /\ Minus1(pipe.writers) \in Nat
  BY <1>1 DEF Minus1
<1>4. EofTokens \in Nat /\ \A t \in Processes : tokens[t] \in Nat
  BY <1>1 DEF EofTokens, Types, DataTypes
<1>. QED
  BY <1>1, <1>2, <1>3, <1>4

(* Nothing changes.                                                        *)
LEMMA DataStays ==
    ASSUME Types, pipe' = pipe, sent' = sent, desc' = desc, target' = target,
           tokens' = tokens
    PROVE  DataTypes'
  BY DEF Types, DataTypes

(* The bytes a writer stores.                                              *)
LEMMA DataWriter ==
    ASSUME PipeAssumption, Types, NEW w \in Writers, Writer(w)
    PROVE  DataTypes' /\ tokens' = tokens
<1>. USE PipeFacts
<1>1. CASE UNCHANGED <<pipe, sent, desc, target, tokens>>
  BY <1>1, DataStays
<1>2. CASE Store(w)
  <2>1. <<w, sent[w] + 1>> \in Writers \X Nat
    BY DEF Types, DataTypes
  <2>2. pipe' \in PipeRecord
    <3>1. [pipe.buffer EXCEPT ![pipe.writeIndex] = <<w, sent[w] + 1>>] \in
             [0 .. PIPE_BUFFER_SIZE - 1 -> (Writers \X Nat) \cup {Nobody}]
      BY <2>1
    <3>2. PICK b : b = [pipe.buffer EXCEPT ![pipe.writeIndex] = <<w, sent[w] + 1>>]
      OBVIOUS
    <3>3. pipe' = [pipe EXCEPT !.buffer = b]
      BY <1>2, <3>2 DEF Store
    <3>. QED
      BY <3>1, <3>2, <3>3 DEF PipeRecord
  <2>. QED
    BY <1>2, <2>2 DEF Store, locals, Types, DataTypes
<1>3. CASE Count(w)
  <2>1. pipe' \in PipeRecord
    <3>1. PICK i \in Nat : i = (pipe.writeIndex + 1) % PIPE_BUFFER_SIZE
      OBVIOUS
    <3>2. PICK c \in Nat : c = pipe.count + 1
      OBVIOUS
    <3>3. pipe' = [pipe EXCEPT !.writeIndex = i, !.count = c]
      BY <1>3, <3>1, <3>2 DEF Count
    <3>. QED
      BY <3>3 DEF PipeRecord
  <2>2. sent' \in [Writers -> Nat]
    <3>1. sent \in [Writers -> Nat] /\ sent' = [sent EXCEPT ![w] = sent[w] + 1]
      BY <1>3 DEF Count, Types, DataTypes
    <3>2. sent[w] + 1 \in Nat
      BY <3>1
    <3>. QED
      BY <3>1, <3>2
  <2>. QED
    BY <1>3, <2>1, <2>2 DEF Count, Types, DataTypes
<1>. QED
  BY <1>1, <1>2, <1>3
     DEF Writer, WriteCall, WaitForRoom, LockToWrite, UnlockAfterWrite, SignalReader,
         ReturnFromWrite, locals

(* The bytes a reader takes.                                               *)
LEMMA DataReader ==
    ASSUME PipeAssumption, Types, NEW r \in Readers, Reader(r)
    PROVE  DataTypes' /\ tokens' = tokens
<1>. USE PipeFacts
<1>1. CASE UNCHANGED <<pipe, sent, desc, target, tokens>>
  BY <1>1, DataStays
<1>2. CASE Get(r)
  <2>1. pipe' \in PipeRecord
    <3>1. PICK i \in Nat : i = (pipe.readIndex + 1) % PIPE_BUFFER_SIZE
      OBVIOUS
    <3>2. PICK c \in Nat : c = pipe.count - 1
      BY <1>2, SMTT(30) DEF Get
    <3>3. pipe' = [pipe EXCEPT !.readIndex = i, !.count = c]
      BY <1>2, <3>1, <3>2 DEF Get
    <3>. QED
      BY <3>3 DEF PipeRecord
  <2>. QED
    BY <1>2, <2>1 DEF Get, Types, DataTypes
<1>. QED
  BY <1>1, <1>2
     DEF Reader, ReadCall, CheckEof, WaitForByte, LockToRead, UnlockAfterRead,
         SignalWriter, FindEmpty, Retry, ReturnFromRead, locals

(* The target of an exit or a kill.                                        *)
LEMMA DataEnds ==
    ASSUME PipeAssumption, Types, NEW p \in Processes,
           Undo(p) \/ Exit(p) \/ (p \in Killers /\ Kill(p))
    PROVE  DataTypes' /\ tokens' = tokens
<1>1. CASE Undo(p)
  BY <1>1, DataStays DEF Undo, locals
<1>2. CASE Exit(p)
  BY <1>2 DEF Exit, Types, DataTypes
<1>3. CASE Kill(p)
  <2>1. PICK t \in Ends : target' = [target EXCEPT ![p] = t]
    BY <1>3 DEF Kill
  <2>2. t \in Processes
    BY <2>1 DEF PipeAssumption, Ends
  <2>. QED
    BY <1>3, <2>1, <2>2 DEF Kill, Types, DataTypes
<1>. QED
  BY <1>1, <1>2, <1>3

(* The counts, the flags and the tokens of terminate_process.              *)
LEMMA DataTermination ==
    ASSUME PipeAssumption, Types, NEW p \in Processes, Termination(p)
    PROVE  DataTypes' /\ OwnTokens(p)
<1>. USE PipeFacts
<1>1. CASE UNCHANGED <<pipe, sent, desc, target, tokens>>
  BY <1>1, DataStays DEF OwnTokens
<1>2. CASE Unregister(p)
  <2>1. pipe' \in PipeRecord
    <3>1. PICK k \in Nat, l \in Nat : k = Minus1(pipe.writers) /\ l = Minus1(pipe.readers)
      OBVIOUS
    <3>2. \/ pipe' = pipe \/ pipe' = [pipe EXCEPT !.writers = k]
          \/ pipe' = [pipe EXCEPT !.readers = l]
      BY <1>2, <3>1 DEF Unregister
    <3>. QED
      BY <3>2 DEF PipeRecord
  <2>2. desc' \in [Ends -> {"open", "released", "none"}]
    BY <1>2 DEF Unregister, Types, DataTypes
  <2>. QED
    BY <1>2, <2>1, <2>2 DEF Unregister, Types, DataTypes, OwnTokens
<1>3. CASE SetEof(p)
  <2>1. pipe' \in PipeRecord
    <3>1. PICK b \in BOOLEAN : b = (pipe.eof \/ LastWriterLeft)
      BY DEF LastWriterLeft
    <3>2. pipe' = [pipe EXCEPT !.eof = b]
      BY <1>3, <3>1 DEF SetEof
    <3>. QED
      BY <3>2 DEF PipeRecord
  <2>2. tokens' \in [Processes -> Nat]
    BY <1>3 DEF SetEof, Types, DataTypes
  <2>3. OwnTokens(p)
    BY <1>3 DEF SetEof, Types, DataTypes, OwnTokens
  <2>. QED
    BY <1>3, <2>1, <2>2, <2>3 DEF SetEof, Types, DataTypes
<1>4. CASE PostEof(p)
  <2>1. PICK k : k = IF half'[p] = "no" THEN tokens[p] - 1 ELSE tokens[p]
    OBVIOUS
  <2>2. k \in Nat /\ tokens' = [tokens EXCEPT ![p] = k]
    BY <1>4, <2>1, SMTT(30) DEF PostEof
  <2>3. tokens' \in [Processes -> Nat] /\ OwnTokens(p)
    BY <2>2 DEF Types, DataTypes, OwnTokens
  <2>. QED
    BY <1>4, <2>3 DEF PostEof, Types, DataTypes
<1>5. CASE DieInUse(p)
  BY <1>5 DEF DieInUse, Die, Types, DataTypes, OwnTokens
<1>6. CASE DieAfterReset(p)
  <2>1. pipe' \in PipeRecord
    BY <1>6 DEF DieAfterReset, PipeRecord
  <2>. QED
    BY <1>6, <2>1 DEF DieAfterReset, Die, Types, DataTypes, OwnTokens
<1>. QED
  BY <1>1, <1>2, <1>3, <1>4, <1>5, <1>6
     DEF Termination, Destroy, CloseSems, CloseSem, locals
---------------------------------------------------------------------------
(* The promises, step by step *)

(* The parts that the steps establish.                                     *)
LEMMA TokenInvParts ==
    CallInv' /\ DataTypes' /\ PromisesKept' => TokenInv'
  BY DEF TokenInv, CallInv, Types

(* The writers never become more, and only p moves.                        *)
LEMMA NoWritersStays ==
    ASSUME NoWritersThen, NEW p \in Processes, Alone(p), OwnTokens(p),
           pipe.writers = 0 => pipe'.writers = 0,
           AtEnd(p)' => AtEnd(p) \/ pipe'.writers = 0
    PROVE  NoWritersThen'
<1>1. ASSUME NEW o \in Processes, AtEnd(o)'
      PROVE  pipe'.writers = 0
  <2>1. CASE o = p
    BY <1>1, <2>1 DEF NoWritersThen
  <2>2. CASE o # p
    <3>1. AtEnd(o)
      BY <1>1, <2>2 DEF AtEnd, Alone, OwnTokens
    <3>. QED
      BY <3>1 DEF NoWritersThen
  <2>. QED
    BY <2>1, <2>2
<1>. QED
  BY <1>1 DEF NoWritersThen

\* Labels with a claim, whatever has become of the queues.
ClaimAt == {"w_unlock", "w_signal", "r_mutex", "r_get", "undo"}
EndAt == {"r_empty", "t_mutex", "t_read", "t_write", "t_reset"}

(* A step that touches no semaphore and no byte, and makes no promise.     *)
LEMMA QuietPromises ==
    ASSUME PipeAssumption, Types, OnePlace, Halfway, PromisesKept,
           NEW p \in Processes, NEW from \in Labels, NEW to \in Labels,
           Step(p, from, to) \/ Enter(p, from, to) \/ Leave(p, from, to),
           half[p] = "no", DataTypes', tokens' = tokens,
           pipe.writers = 0 => pipe'.writers = 0, pipe'.count = pipe.count,
           to \in EndAt => pipe'.writers = 0,
           \/ to \notin ClaimAt
           \/ to = "undo" /\ p \notin Readers
           \/ Claims(p)
    PROVE  TokenInv'
<1>1. /\ Alone(p) /\ sem_table' = sem_table /\ half' = half /\ pc'[p] = to
      /\ OwnTokens(p)
  BY QuietEffect DEF OwnTokens
<1>2. CallInv'
  BY <1>1, QuietCalls
<1>3. NoWritersThen'
  <2>1. AtEnd(p)' => AtEnd(p) \/ pipe'.writers = 0
    BY <1>1 DEF AtEnd, EndAt
  <2>. QED
    BY <1>1, <2>1, NoWritersStays DEF PromisesKept
<1>4. ASSUME pipe'.writers > 0
      PROVE  Backed'
  <2>1. Backed
    <3>1. pipe.writers \in Nat /\ pipe.writers # 0
      BY <1>4, PipeFacts
    <3>. QED
      BY <3>1 DEF PromisesKept
  <2>2. SameValue("read") /\ Queue("read")' = Queue("read")
    BY <1>1 DEF SameValue, Queue
  <2>3. Claims(p)' => Claims(p)
    BY <1>1 DEF Claims, ClaimAt
  <2>4. pipe'.count \in Nat /\ pipe'.count >= pipe.count
    BY PipeFacts
  <2>. QED
    BY <1>1, <2>1, <2>2, <2>3, <2>4, BackedStays
<1>. QED
  BY <1>2, <1>3, <1>4, TokenInvParts DEF PromisesKept

(* A wait for the mutex or for room.                                       *)
LEMMA WaitPromises ==
    ASSUME PipeAssumption, Types, OnePlace, Halfway, PromisesKept,
           NEW p \in Processes, NEW n \in {"mutex", "write"},
           NEW from \in Labels, NEW to \in Labels, WaitPoint(n, from, to),
           Wait(p, n, from, to), pipe' = pipe, DataTypes', tokens' = tokens
    PROVE  TokenInv'
<1>0. n \in Names
  BY DEF PipeAssumption
<1>1. /\ Alone(p) /\ OnlyAt(n) /\ pc[p] = from /\ pc'[p] \in {from, to}
      /\ state[p] = "READY"
      /\ OwnTokens(p)
  BY <1>0, WaitEffect DEF OwnTokens
<1>2. CallInv'
  BY <1>0, <1>1, WaitCalls
<1>3. NoWritersThen'
  <2>1. half'[p] # "counting"
    <3>1. half[p] # "counting"
      BY <1>1 DEF Halfway, WaitPoint
    <3>. QED
      BY <1>0, <3>1, WaitEffect
  <2>2. AtEnd(p)' => AtEnd(p)
    BY <1>1, <2>1 DEF AtEnd, WaitPoint
  <2>. QED
    BY <1>1, <2>2, NoWritersStays DEF PromisesKept
<1>4. ASSUME pipe'.writers > 0
      PROVE  Backed'
  <2>1. Backed /\ pipe'.count \in Nat /\ pipe'.count >= pipe.count
    BY <1>4, PipeFacts DEF PromisesKept
  <2>2. SameValue("read") /\ Queue("read")' = Queue("read")
    BY <1>0, <1>1 DEF SameValue, Queue, OnlyAt, PipeAssumption
  <2>3. Claims(p)' => Claims(p)
    <3>1. Waits(p)' <=> Waits(p)
      BY <2>2 DEF Waits
    <3>. QED
      BY <1>1, <3>1 DEF Claims, WaitPoint
  <2>. QED
    BY <1>1, <2>1, <2>2, <2>3, BackedStays
<1>. QED
  BY <1>2, <1>3, <1>4, TokenInvParts DEF PromisesKept

(* A post to the mutex or to the semaphore of the room.                    *)
LEMMA PostPromises ==
    ASSUME PipeAssumption, Types, OnePlace, Halfway, PromisesKept,
           NEW p \in Processes, NEW n \in {"mutex", "write"},
           NEW from \in PostingAt, NEW to \in Labels,
           Post(p, n, from, to), pipe' = pipe, DataTypes', tokens' = tokens,
           to \in EndAt \/ from = "r_get" => pipe.writers = 0,
           to \notin ClaimAt \/ Claims(p), from = "undo" => p \notin Readers
    PROVE  TokenInv'
<1>0. n \in Names /\ from \in Labels \ WaitLabels
  BY DEF PipeAssumption, PostingAt, Labels, WaitLabels
<1>1. /\ Alone(p) /\ OnlyAt(n) /\ pc[p] = from /\ pc'[p] \in {from, to} /\ OwnTokens(p)
  BY <1>0, PostMoves DEF OwnTokens
<1>2. CallInv'
  BY <1>0, <1>1, PostCalls DEF PostingAt
<1>3. NoWritersThen'
  <2>1. AtEnd(p)' => AtEnd(p) \/ pipe.writers = 0
    <3>1. pc'[p] = "r_get" /\ half'[p] = "counting" => from = "r_get" \/ to = "r_get"
      BY <1>1
    <3>2. to = "r_get" => half'[p] # "counting" \/ pc'[p] = from
      BY <1>0, PostEffect, ZenonT(30)
    <3>3. from \notin EndAt
      BY DEF PostingAt, EndAt
    <3>. QED
      BY <1>1, <3>1, <3>2, <3>3 DEF AtEnd, EndAt
  <2>. QED
    BY <1>1, <2>1, NoWritersStays DEF PromisesKept
<1>4. ASSUME pipe'.writers > 0
      PROVE  Backed'
  <2>1. Backed /\ pipe'.count \in Nat /\ pipe'.count >= pipe.count
    BY <1>4, PipeFacts DEF PromisesKept
  <2>2. SameValue("read") /\ Queue("read")' = Queue("read")
    BY <1>0, <1>1 DEF SameValue, Queue, OnlyAt, PipeAssumption
  <2>3. Claims(p)' => Claims(p)
    <3>1. Waits(p)' <=> Waits(p)
      BY <2>2 DEF Waits
    <3>2. half'[p] # "queued" \/ pc'[p] # "r_token"
      <4>1. half[p] # "queued"
        BY <1>0, <1>1 DEF Halfway, WaitLabels
      <4>. QED
        BY <1>0, <4>1, PostEffect
    <3>. QED
      BY <1>1, <3>1, <3>2 DEF Claims, ClaimAt
  <2>. QED
    BY <1>1, <2>1, <2>2, <2>3, BackedStays
<1>. QED
  BY <1>2, <1>3, <1>4, TokenInvParts DEF PromisesKept

(* A claimed token is posted.                                              *)
LEMMA TokenPromises ==
    ASSUME PipeAssumption, Types, OnePlace, Halfway, PromisesKept,
           NEW p \in Processes, NEW from \in {"w_signal", "undo"}, NEW to \in Labels,
           Post(p, "read", from, to), pipe' = pipe, DataTypes', tokens' = tokens,
           to \in {"w_return", "w_room", "r_return"}, Claims(p)
    PROVE  TokenInv'
<1>0. "read" \in Names /\ from \in Labels \ WaitLabels /\ from \in PostingAt
  BY DEF PipeAssumption, PostingAt, Labels, WaitLabels
<1>1. Alone(p) /\ pc[p] = from /\ pc'[p] \in {from, to} /\ OwnTokens(p)
  BY <1>0, PostMoves DEF OwnTokens
<1>2. CallInv'
  BY <1>0, <1>1, PostCalls
<1>3. NoWritersThen'
  <2>1. AtEnd(p)' => AtEnd(p)
    BY <1>1 DEF AtEnd
  <2>. QED
    BY <1>1, <2>1, NoWritersStays DEF PromisesKept
<1>4. ASSUME pipe'.writers > 0
      PROVE  Backed'
  <2>1. Backed
    BY <1>4 DEF PromisesKept
  <2>. QED
    BY <1>0, <2>1, BackedPost
<1>. QED
  BY <1>2, <1>3, <1>4, TokenInvParts DEF PromisesKept

(* Who can be in the middle of a call, by its label.                       *)
LEMMA NotHalfway ==
    ASSUME Types, Halfway, NEW p \in Processes
    PROVE  /\ half[p] \in {"no", "queued", "counting"}
           /\ pc[p] \notin WaitingAt \cup PostingAt \cup {"t_post"} => half[p] = "no"
           /\ pc[p] \notin PostingAt \cup {"t_post"} => half[p] # "counting"
           /\ pc[p] \notin WaitingAt => half[p] # "queued"
           /\ pc[p] = "t_post" /\ tokens[p] = 0 => half[p] = "no"
<1>1. half[p] \in {"no", "queued", "counting"} /\ tokens[p] \in Nat
  BY DEF Types, CallTypes, DataTypes
<1>. QED
  BY <1>1 DEF Halfway, WaitingAt, PostingAt

(* Who is not asleep and was in the queue of "read" holds its token.       *)
LEMMA RunnerClaims ==
    ASSUME PipeAssumption, Types, OnePlace, NEW p \in Processes,
           state[p] = "READY", half[p] # "queued",
           \/ pc[p] \in {"r_mutex", "r_get"}
           \/ pc[p] = "undo" /\ p \in Readers
    PROVE  Claims(p)
<1>1. Absent(p) /\ "read" \in Names
  BY RunnerIsAbsent DEF PipeAssumption
<1>2. ~ Waits(p)
  BY <1>1 DEF Absent, Waits
<1>. QED
  BY <1>2 DEF Claims

(* A step of a writer in pipe_write.                                       *)
LEMMA WriterStep ==
    ASSUME PipeAssumption, TokenInv, NEW w \in Writers, Writer(w)
    PROVE  TokenInv'
<1>. DEFINE after == AfterWrite(w)
<1>1. /\ Types /\ OnePlace /\ Halfway /\ PromisesKept
      /\ w \in Processes /\ w \notin Readers
      /\ DataTypes' /\ tokens' = tokens
  BY DataWriter DEF TokenInv, PipeAssumption
<1>2. /\ after \in Labels /\ after \notin ClaimAt \cup EndAt
      /\ {"user", "w_room", "w_mutex", "w_put", "w_count", "w_unlock", "w_signal",
          "w_return", "undo"} \subseteq Labels
  BY DEF AfterWrite, Labels, Leaving, ClaimAt, EndAt
<1>. HIDE DEF after
<1>3. CASE WriteCall(w)
  <2>1. Enter(w, "user", "w_room") /\ pipe' = pipe
    BY <1>3 DEF WriteCall
  <2>2. pc[w] = "user"
    BY <2>1 DEF Enter, At
  <2>3. half[w] = "no"
    BY <1>1, <2>2, NotHalfway DEF WaitingAt, PostingAt
  <2>. QED
    BY <1>1, <1>2, <2>1, <2>3, QuietPromises DEF ClaimAt, EndAt
<1>4. CASE WaitForRoom(w)
  <2>1. CASE Wait(w, "write", "w_room", "w_mutex")
    BY <1>1, <1>2, <1>4, <2>1, WaitPromises DEF WaitForRoom, WaitPoint
  <2>2. CASE Fail(w, "write", "w_room", "w_return")
    <3>1. Step(w, "w_room", "w_return") /\ half[w] # "queued" /\ pc[w] = "w_room"
      BY <2>2 DEF Fail, Step, At
    <3>2. half[w] = "no"
      BY <1>1, <3>1, NotHalfway DEF PostingAt
    <3>. QED
      BY <1>1, <1>2, <1>4, <3>1, <3>2, QuietPromises DEF WaitForRoom, ClaimAt, EndAt
  <2>. QED
    BY <1>4, <2>1, <2>2 DEF WaitForRoom
<1>5. CASE LockToWrite(w)
  <2>1. CASE Wait(w, "mutex", "w_mutex", "w_put")
    BY <1>1, <1>2, <1>5, <2>1, WaitPromises DEF LockToWrite, WaitPoint
  <2>2. CASE Fail(w, "mutex", "w_mutex", "undo")
    <3>1. Step(w, "w_mutex", "undo") /\ half[w] # "queued" /\ pc[w] = "w_mutex"
      BY <2>2 DEF Fail, Step, At
    <3>2. half[w] = "no"
      BY <1>1, <3>1, NotHalfway DEF PostingAt
    <3>. QED
      BY <1>1, <1>2, <1>5, <3>1, <3>2, QuietPromises DEF LockToWrite, EndAt
  <2>. QED
    BY <1>5, <2>1, <2>2 DEF LockToWrite
<1>6. CASE Store(w)
  <2>1. Step(w, "w_put", "w_count") /\ pc[w] = "w_put"
    BY <1>6 DEF Store, Step, At
  <2>2. half[w] = "no"
    BY <1>1, <2>1, NotHalfway DEF WaitingAt, PostingAt
  <2>3. pipe'.writers = pipe.writers /\ pipe'.count = pipe.count
    BY <1>1, <1>6 DEF Store, Types, DataTypes, PipeRecord
  <2>. QED
    BY <1>1, <1>2, <2>1, <2>2, <2>3, QuietPromises DEF ClaimAt, EndAt
<1>7. CASE Count(w)
  <2>1. Step(w, "w_count", "w_unlock") /\ pc[w] = "w_count"
    BY <1>7 DEF Count, Step, At
  <2>2. half[w] = "no" /\ OwnTokens(w)
    BY <1>1, <2>1, NotHalfway DEF WaitingAt, PostingAt, OwnTokens
  <2>3. pipe'.writers = pipe.writers /\ pipe'.count = pipe.count + 1
    BY <1>1, <1>7 DEF Count, Types, DataTypes, PipeRecord
  <2>4. CallInv'
    BY <1>1, <1>2, <2>1, <2>2, QuietCalls
  <2>5. Alone(w) /\ pc'[w] = "w_unlock" /\ sem_table' = sem_table
    BY <1>1, <1>2, <2>1, QuietEffect
  <2>6. NoWritersThen'
    <3>1. AtEnd(w)' => AtEnd(w)
      BY <1>1, <2>5 DEF AtEnd
    <3>. QED
      BY <1>1, <2>2, <2>3, <2>5, <3>1, NoWritersStays DEF PromisesKept
  <2>7. pipe'.writers > 0 => Backed'
    BY <1>1, <2>3, <2>5, BackedByNewByte DEF PromisesKept
  <2>. QED
    BY <1>1, <2>4, <2>6, <2>7, TokenInvParts DEF PromisesKept
<1>8. CASE UnlockAfterWrite(w)
  <2>1. Post(w, "mutex", "w_unlock", "w_signal") /\ pipe' = pipe
    BY <1>8 DEF UnlockAfterWrite
  <2>2. Claims(w)
    BY <2>1 DEF Post, At, Claims
  <2>3. "w_unlock" \in PostingAt /\ "w_signal" \notin EndAt
    BY DEF PostingAt, EndAt
  <2>. QED
    BY <1>1, <1>2, <2>1, <2>2, <2>3, PostPromises
<1>9. CASE SignalReader(w)
  <2>1. PICK to \in {"w_return", "w_room"} : Post(w, "read", "w_signal", to) /\ pipe' = pipe
    BY <1>9 DEF SignalReader
  <2>2. Claims(w)
    BY <2>1 DEF Post, At, Claims
  <2>. QED
    BY <1>1, <1>2, <2>1, <2>2, TokenPromises
<1>10. CASE ReturnFromWrite(w)
  <2>1. PICK l \in {"w_return", "w_room", "w_mutex", "w_put", "w_unlock", "w_signal"} :
           Leave(w, l, after) /\ pipe' = pipe /\ (l = "w_return" \/ half[w] = "no")
    BY <1>10 DEF ReturnFromWrite, Checked, after
  <2>2. half[w] = "no"
    <3>1. pc[w] = l
      BY <2>1 DEF Leave, At
    <3>. QED
      BY <1>1, <2>1, <3>1, NotHalfway DEF WaitingAt, PostingAt
  <2>. QED
    BY <1>1, <1>2, <2>1, <2>2, QuietPromises
<1>. QED
  BY <1>3, <1>4, <1>5, <1>6, <1>7, <1>8, <1>9, <1>10 DEF Writer
(* The ring is not empty when somebody was promised a byte.                *)
LEMMA PromisedByte ==
    ASSUME PipeAssumption, Types, PromisesKept, NEW p \in Processes, Claims(p),
           pipe.count = 0
    PROVE  pipe.writers = 0
<1>1. ASSUME Backed
      PROVE  FALSE
  <2>1. IsFiniteSet(Claimants) /\ p \in Claimants /\ "read" \in Names
    BY ClaimantsFinite DEF Claimants
  <2>2. /\ Cardinality(Claimants) \in Nat /\ Cardinality({}) \in Nat
        /\ Cardinality({}) <= Cardinality(Claimants) - 1
    BY <2>1, Sizes
  <2>3. sem_table["read"].value \in Nat
    BY <2>1, EntryType
  <2>. QED
    BY <1>1, <2>2, <2>3, FS_EmptySet DEF Backed
<1>. QED
  BY <1>1, PipeFacts DEF PromisesKept

(* A step of a reader in pipe_read.                                        *)
LEMMA ReaderStep ==
    ASSUME PipeAssumption, TokenInv, NEW r \in Readers, Reader(r)
    PROVE  TokenInv'
<1>. DEFINE after == AfterRead(r)
<1>1. /\ Types /\ OnePlace /\ Halfway /\ PromisesKept /\ NoWritersThen
      /\ r \in Processes /\ r \in Readers
      /\ DataTypes' /\ tokens' = tokens
  BY DataReader DEF TokenInv, PipeAssumption, PromisesKept
<1>2. /\ after \in Labels /\ after \notin ClaimAt \cup EndAt
      /\ {"user", "r_check", "r_token", "r_mutex", "r_get", "r_unlock", "r_signal",
          "r_empty", "r_return", "undo"} \subseteq Labels
  BY DEF AfterRead, Labels, Leaving, ClaimAt, EndAt
<1>. HIDE DEF after
<1>3. CASE ReadCall(r)
  <2>1. Enter(r, "user", "r_check") /\ pipe' = pipe
    BY <1>3 DEF ReadCall
  <2>2. pc[r] = "user"
    BY <2>1 DEF Enter, At
  <2>3. half[r] = "no"
    BY <1>1, <2>2, NotHalfway DEF WaitingAt, PostingAt
  <2>. QED
    BY <1>1, <1>2, <2>1, <2>3, QuietPromises DEF ClaimAt, EndAt
<1>4. CASE CheckEof(r)
  <2>1. PICK to \in {"r_return", "r_token"} : Step(r, "r_check", to) /\ pipe' = pipe
    BY <1>4 DEF CheckEof
  <2>2. pc[r] = "r_check"
    BY <2>1 DEF Step, At
  <2>3. half[r] = "no"
    BY <1>1, <2>2, NotHalfway DEF WaitingAt, PostingAt
  <2>. QED
    BY <1>1, <1>2, <2>1, <2>3, QuietPromises DEF ClaimAt, EndAt
<1>5. CASE WaitForByte(r)
  <2>1. CASE Wait(r, "read", "r_token", "r_mutex")
    <3>1. "read" \in Names /\ OwnTokens(r) /\ pipe' = pipe
      BY <1>1, <1>5 DEF PipeAssumption, OwnTokens, WaitForByte
    <3>2. CallInv'
      BY <1>1, <1>2, <2>1, <3>1, WaitCalls DEF WaitPoint
    <3>3. Alone(r) /\ pc'[r] \in {"r_token", "r_mutex"}
      BY <1>1, <1>2, <2>1, <3>1, WaitEffect
    <3>4. NoWritersThen'
      <4>1. AtEnd(r)' => AtEnd(r)
        BY <1>1, <3>3 DEF AtEnd
      <4>. QED
        BY <1>1, <3>1, <3>3, <4>1, NoWritersStays
    <3>5. pipe'.writers > 0 => Backed'
      BY <1>1, <2>1, <3>1, BackedWait DEF PromisesKept
    <3>. QED
      BY <1>1, <3>2, <3>4, <3>5, TokenInvParts DEF PromisesKept
  <2>2. CASE Fail(r, "read", "r_token", "r_return")
    <3>1. Step(r, "r_token", "r_return") /\ half[r] # "queued" /\ pc[r] = "r_token"
      BY <2>2 DEF Fail, Step, At
    <3>2. half[r] = "no"
      BY <1>1, <3>1, NotHalfway DEF PostingAt
    <3>. QED
      BY <1>1, <1>2, <1>5, <3>1, <3>2, QuietPromises DEF WaitForByte, ClaimAt, EndAt
  <2>. QED
    BY <1>5, <2>1, <2>2 DEF WaitForByte
<1>6. CASE LockToRead(r)
  <2>1. CASE Wait(r, "mutex", "r_mutex", "r_get")
    BY <1>1, <1>2, <1>6, <2>1, WaitPromises DEF LockToRead, WaitPoint
  <2>2. CASE Fail(r, "mutex", "r_mutex", "undo")
    <3>1. /\ Step(r, "r_mutex", "undo") /\ half[r] # "queued" /\ pc[r] = "r_mutex"
          /\ state[r] = "READY"
      BY <2>2 DEF Fail, Step, At
    <3>2. half[r] = "no" /\ Claims(r)
      BY <1>1, <3>1, NotHalfway, RunnerClaims DEF PostingAt
    <3>. QED
      BY <1>1, <1>2, <1>6, <3>1, <3>2, QuietPromises DEF LockToRead, EndAt
  <2>. QED
    BY <1>6, <2>1, <2>2 DEF LockToRead
<1>7. CASE Get(r)
  <2>1. /\ Step(r, "r_get", "r_unlock") /\ pc[r] = "r_get" /\ state[r] = "READY"
        /\ half[r] = "no"
    BY <1>7 DEF Get, Step, At
  <2>2. Claims(r) /\ OwnTokens(r)
    BY <1>1, <2>1, RunnerClaims DEF OwnTokens
  <2>3. pipe'.writers = pipe.writers /\ pipe'.count = pipe.count - 1
    BY <1>1, <1>7 DEF Get, Types, DataTypes, PipeRecord
  <2>4. CallInv'
    BY <1>1, <1>2, <2>1, <2>2, QuietCalls
  <2>5. Alone(r) /\ pc'[r] = "r_unlock" /\ sem_table' = sem_table
    BY <1>1, <1>2, <2>1, QuietEffect
  <2>6. NoWritersThen'
    <3>1. AtEnd(r)' => AtEnd(r)
      BY <1>1, <2>5 DEF AtEnd
    <3>. QED
      BY <1>1, <2>2, <2>3, <2>5, <3>1, NoWritersStays
  <2>7. pipe'.writers > 0 => Backed'
    <3>1. ~ Claims(r)'
      BY <2>5 DEF Claims
    <3>. QED
      BY <1>1, <2>2, <2>3, <2>5, <3>1, BackedByTakenByte DEF PromisesKept
  <2>. QED
    BY <1>1, <2>4, <2>6, <2>7, TokenInvParts DEF PromisesKept
<1>8. CASE UnlockAfterRead(r)
  <2>1. Post(r, "mutex", "r_unlock", "r_signal") /\ pipe' = pipe
    BY <1>8 DEF UnlockAfterRead
  <2>2. "r_unlock" \in PostingAt /\ "r_signal" \notin EndAt \cup ClaimAt
    BY DEF PostingAt, EndAt, ClaimAt
  <2>. QED
    BY <1>1, <1>2, <2>1, <2>2, PostPromises
<1>9. CASE SignalWriter(r)
  <2>1. PICK to \in {"r_return", "r_check"} :
           Post(r, "write", "r_signal", to) /\ pipe' = pipe
    BY <1>9 DEF SignalWriter
  <2>2. "r_signal" \in PostingAt /\ to \notin EndAt \cup ClaimAt
    BY DEF PostingAt, EndAt, ClaimAt
  <2>. QED
    BY <1>1, <1>2, <2>1, <2>2, PostPromises
<1>10. CASE FindEmpty(r)
  <2>1. /\ Post(r, "mutex", "r_get", "r_empty") /\ pipe' = pipe
        /\ pipe.count = 0 \/ half[r] = "counting"
    BY <1>10 DEF FindEmpty
  <2>2. pc[r] = "r_get" /\ state[r] = "READY" /\ half[r] # "queued"
    <3>1. pc[r] = "r_get" /\ state[r] = "READY"
      BY <2>1 DEF Post, At
    <3>. QED
      BY <1>1, <3>1, NotHalfway DEF WaitingAt
  <2>3. pipe.writers = 0
    <3>1. CASE half[r] = "counting"
      BY <1>1, <2>2, <3>1 DEF NoWritersThen, AtEnd
    <3>2. CASE pipe.count = 0
      <4>1. Claims(r)
        BY <1>1, <2>2, RunnerClaims
      <4>. QED
        BY <1>1, <3>2, <4>1, PromisedByte
    <3>. QED
      BY <2>1, <3>1, <3>2
  <2>4. "r_get" \in PostingAt /\ "r_empty" \notin ClaimAt
    BY DEF PostingAt, ClaimAt
  <2>. QED
    BY <1>1, <1>2, <2>1, <2>3, <2>4, PostPromises
<1>11. CASE Retry(r)
  <2>1. PICK to \in {"r_return", "r_check"} : Step(r, "r_empty", to) /\ pipe' = pipe
    BY <1>11 DEF Retry
  <2>2. pc[r] = "r_empty"
    BY <2>1 DEF Step, At
  <2>3. half[r] = "no"
    BY <1>1, <2>2, NotHalfway DEF WaitingAt, PostingAt
  <2>. QED
    BY <1>1, <1>2, <2>1, <2>3, QuietPromises DEF ClaimAt, EndAt
<1>12. CASE ReturnFromRead(r)
  <2>1. PICK l \in {"r_return", "r_check", "r_token", "r_mutex", "r_get", "r_unlock",
                    "r_signal"} :
           Leave(r, l, after) /\ pipe' = pipe /\ (l = "r_return" \/ half[r] = "no")
    BY <1>12 DEF ReturnFromRead, Checked, after
  <2>2. half[r] = "no"
    <3>1. pc[r] = l
      BY <2>1 DEF Leave, At
    <3>. QED
      BY <1>1, <2>1, <3>1, NotHalfway DEF WaitingAt, PostingAt
  <2>. QED
    BY <1>1, <1>2, <2>1, <2>2, QuietPromises
<1>. QED
  BY <1>3, <1>4, <1>5, <1>6, <1>7, <1>8, <1>9, <1>10, <1>11, <1>12 DEF Reader
(* The token given back, the end of a process that exits, a kill.          *)
LEMMA EndStep ==
    ASSUME PipeAssumption, TokenInv, NEW p \in Processes,
           \/ p \in Ends /\ (Undo(p) \/ Exit(p))
           \/ p \in Killers /\ Kill(p)
    PROVE  TokenInv'
<1>1. /\ Types /\ OnePlace /\ Halfway /\ PromisesKept
      /\ DataTypes' /\ tokens' = tokens
  BY DataEnds DEF TokenInv
<1>2. /\ {"user", "exit", "t_release", "undo", "w_return", "r_return"} \subseteq Labels
      /\ {"t_release", "w_return", "r_return"} \intersect (ClaimAt \cup EndAt) = {}
      /\ "undo" \in PostingAt
  BY DEF Labels, Leaving, ClaimAt, EndAt, PostingAt
<1>3. CASE p \in Ends /\ Undo(p)
  <2>1. CASE p \in Writers
    <3>1. Post(p, "write", "undo", "w_return") /\ pipe' = pipe /\ p \notin Readers
      BY <1>3, <2>1 DEF Undo, PipeAssumption
    <3>. QED
      BY <1>1, <1>2, <3>1, PostPromises
  <2>2. CASE p \notin Writers /\ p \in Readers
    <3>1. Post(p, "read", "undo", "r_return") /\ pipe' = pipe
      BY <1>3, <2>2 DEF Undo
    <3>2. pc[p] = "undo" /\ state[p] = "READY"
      BY <3>1 DEF Post, At
    <3>3. half[p] # "queued"
      BY <1>1, <3>2, NotHalfway DEF WaitingAt
    <3>4. Claims(p)
      BY <1>1, <2>2, <3>2, <3>3, RunnerClaims
    <3>. QED
      BY <1>1, <1>2, <3>1, <3>4, TokenPromises
  <2>3. CASE p \notin Writers /\ p \notin Readers
    BY <1>3, <2>3 DEF Ends
  <2>. QED
    BY <2>1, <2>2, <2>3
<1>4. CASE Exit(p)
  <2>1. /\ Step(p, "exit", "t_release") \/ Enter(p, "exit", "t_release")
        /\ pipe' = pipe /\ pc[p] = "exit"
    BY <1>4 DEF Exit, Step, Enter, At
  <2>2. half[p] = "no"
    BY <1>1, <2>1, NotHalfway DEF WaitingAt, PostingAt
  <2>. QED
    BY <1>1, <1>2, <2>1, <2>2, QuietPromises
<1>5. CASE Kill(p)
  <2>1. Enter(p, "user", "t_release") /\ pipe' = pipe /\ pc[p] = "user"
    BY <1>5 DEF Kill, Enter, At
  <2>2. half[p] = "no"
    BY <1>1, <2>1, NotHalfway DEF WaitingAt, PostingAt
  <2>. QED
    BY <1>1, <1>2, <2>1, <2>2, QuietPromises
<1>. QED
  BY <1>3, <1>4, <1>5

(* A step that leaves no writers, or for which there are none.             *)
LEMMA NoPromises ==
    ASSUME PipeAssumption, TokenInv, NEW p \in Processes, CallInv', DataTypes',
           Alone(p), OwnTokens(p), pipe'.writers = 0
    PROVE  TokenInv'
<1>1. NoWritersThen'
  BY NoWritersStays DEF TokenInv, PromisesKept
<1>2. PromisesKept'
  BY <1>1 DEF PromisesKept
<1>. QED
  BY <1>2, TokenInvParts

(* A step of terminate_process.                                            *)
LEMMA TerminationStep ==
    ASSUME PipeAssumption, TokenInv, NEW p \in Processes, Termination(p)
    PROVE  TokenInv'
<1>1. /\ Types /\ OnePlace /\ Halfway /\ PromisesKept /\ NoWritersThen
      /\ DataTypes' /\ OwnTokens(p) /\ tokens[p] \in Nat
  BY DataTermination, PipeFacts DEF TokenInv, PromisesKept
<1>2. /\ {"t_release", "t_eof", "t_post", "t_mutex", "t_read", "t_write", "t_reset",
          "done"} \subseteq Labels
      /\ {"t_release", "t_eof", "t_post", "t_mutex", "t_read", "t_write", "t_reset",
          "done"} \intersect ClaimAt = {}
      /\ {"t_release", "t_eof", "t_post", "done"} \intersect EndAt = {}
      /\ {"mutex", "read", "write"} \subseteq Names
  BY DEF Labels, Leaving, ClaimAt, EndAt, PipeAssumption
<1>3. CASE Unregister(p)
  <2>1. PICK to \in {"t_eof", "t_post"} : Step(p, "t_release", to)
    BY <1>3 DEF Unregister
  <2>2. pc[p] = "t_release" /\ tokens' = tokens
    BY <1>3, <2>1 DEF Unregister, Step, At
  <2>3. half[p] = "no"
    BY <1>1, <2>2, NotHalfway DEF WaitingAt, PostingAt
  <2>4. pipe'.count = pipe.count /\ (pipe.writers = 0 => pipe'.writers = 0)
    <3>1. PICK k, l : k = Minus1(pipe.writers) /\ l = Minus1(pipe.readers)
      OBVIOUS
    <3>2. \/ pipe' = pipe \/ pipe' = [pipe EXCEPT !.writers = k]
          \/ pipe' = [pipe EXCEPT !.readers = l]
      BY <1>3, <3>1 DEF Unregister
    <3>3. pipe.writers = 0 => k = 0
      BY <3>1 DEF Minus1
    <3>4. pipe \in PipeRecord
      BY <1>1 DEF Types, DataTypes
    <3>. QED
      BY <3>2, <3>3, <3>4 DEF PipeRecord
  <2>. QED
    BY <1>1, <1>2, <2>1, <2>2, <2>3, <2>4, QuietPromises
<1>4. CASE SetEof(p)
  <2>1. Step(p, "t_eof", "t_post") /\ pc[p] = "t_eof"
    BY <1>4 DEF SetEof, Step, At
  <2>2. half[p] = "no"
    BY <1>1, <2>1, NotHalfway DEF WaitingAt, PostingAt
  <2>3. pipe'.count = pipe.count /\ pipe'.writers = pipe.writers
    BY <1>1, <1>4 DEF SetEof, Types, DataTypes, PipeRecord
  <2>4. CallInv' /\ Alone(p) /\ pc'[p] = "t_post"
    BY <1>1, <1>2, <2>1, <2>2, QuietCalls, QuietEffect
  <2>5. CASE pipe.writers = 0
    BY <1>1, <2>3, <2>4, <2>5, NoPromises
  <2>6. CASE pipe.writers # 0
    <3>1. tokens' = [tokens EXCEPT ![p] = 0]
      BY <1>4, <2>6 DEF SetEof, EofTokens, LastWriterLeft
    <3>2. tokens'[p] = 0
      BY <3>1 DEF Types, DataTypes, TokenInv
    <3>3. NoWritersThen'
      <4>1. AtEnd(p)' => AtEnd(p)
        BY <2>4, <3>2 DEF AtEnd
      <4>. QED
        BY <1>1, <2>3, <2>4, <4>1, NoWritersStays
    <3>4. pipe'.writers > 0 => Backed'
      <4>1. SameValue("read") /\ Queue("read")' = Queue("read")
        BY <1>1, <1>2, <2>1, QuietEffect DEF SameValue, Queue
      <4>2. ~ Claims(p)'
        BY <2>4 DEF Claims
      <4>. QED
        BY <1>1, <2>3, <2>4, <4>1, <4>2, BackedStays, PipeFacts DEF PromisesKept
    <3>. QED
      BY <1>1, <2>4, <3>3, <3>4, TokenInvParts DEF PromisesKept
  <2>. QED
    BY <2>5, <2>6
<1>5. CASE PostEof(p)
  <2>1. Post(p, "read", "t_post", "t_post") /\ tokens[p] > 0 /\ pipe' = pipe
    BY <1>5 DEF PostEof
  <2>2. half'[p] = "counting" => tokens'[p] > 0
    <3>1. half'[p] = "counting" => tokens' = [tokens EXCEPT ![p] = tokens[p]]
      BY <1>5 DEF PostEof
    <3>. QED
      BY <1>1, <2>1, <3>1 DEF Types, DataTypes
  <2>3. CallInv'
    BY <1>1, <1>2, <2>1, <2>2, PostCalls
  <2>4. Alone(p)
    BY <1>1, <1>2, <2>1, PostEffect
  <2>5. pipe'.writers = 0
    BY <1>1, <2>1 DEF NoWritersThen, AtEnd
  <2>. QED
    BY <1>1, <2>3, <2>4, <2>5, NoPromises
<1>6. CASE Destroy(p)
  <2>1. /\ Step(p, "t_post", "t_mutex") /\ pc[p] = "t_post" /\ tokens[p] = 0
        /\ pipe' = pipe /\ tokens' = tokens /\ pipe.writers = 0
    BY <1>6 DEF Destroy, Unused, Step, At, locals
  <2>2. half[p] = "no"
    BY <1>1, <2>1, NotHalfway
  <2>. QED
    BY <1>1, <1>2, <2>1, <2>2, QuietPromises
<1>7. CASE CloseSems(p)
  <2>1. PICK n \in {"mutex", "read", "write"}, from \in {"t_mutex", "t_read", "t_write"},
             to \in {"t_read", "t_write", "t_reset"} : CloseSem(p, n, from, to)
    BY <1>7 DEF CloseSems
  <2>2. CallInv'
    BY <1>1, <1>2, <2>1, CloseCalls
  <2>3. Alone(p)
    BY <1>1, <1>2, <2>1, CloseEffect
  <2>4. pipe'.writers = 0
    <3>1. pipe' = pipe /\ pc[p] = from
      BY <2>1 DEF CloseSem, At
    <3>. QED
      BY <1>1, <3>1 DEF NoWritersThen, AtEnd
  <2>. QED
    BY <1>1, <2>2, <2>3, <2>4, NoPromises
<1>8. CASE DieInUse(p)
  <2>1. Die(p, "t_post") /\ tokens[p] = 0 /\ pipe' = pipe
    BY <1>8 DEF DieInUse
  <2>2. /\ CallInv' /\ Alone(p) /\ sem_table' = sem_table /\ tokens' = tokens
        /\ pc'[p] = "done"
    BY <1>1, <2>1, DieEffect
  <2>3. NoWritersThen'
    <3>1. AtEnd(p)' => AtEnd(p)
      BY <2>2 DEF AtEnd
    <3>. QED
      BY <1>1, <2>1, <2>2, <3>1, NoWritersStays
  <2>4. pipe'.writers > 0 => Backed'
    <3>1. SameValue("read") /\ Queue("read")' = Queue("read")
      BY <2>2 DEF SameValue, Queue
    <3>2. ~ Claims(p)'
      BY <2>2 DEF Claims
    <3>. QED
      BY <1>1, <2>1, <2>2, <3>1, <3>2, BackedStays, PipeFacts DEF PromisesKept
  <2>. QED
    BY <1>1, <2>2, <2>3, <2>4, TokenInvParts DEF PromisesKept
<1>9. CASE DieAfterReset(p)
  <2>1. Die(p, "t_reset")
    BY <1>9 DEF DieAfterReset
  <2>2. CallInv' /\ Alone(p)
    BY <1>1, <2>1, DieEffect
  <2>3. pipe'.writers = 0
    BY <1>1, <1>9 DEF DieAfterReset, Types, DataTypes, PipeRecord
  <2>. QED
    BY <1>1, <2>2, <2>3, NoPromises
<1>. QED
  BY <1>3, <1>4, <1>5, <1>6, <1>7, <1>8, <1>9 DEF Termination

(* A step that changes nothing.                                            *)
LEMMA TokenInvStays ==
    ASSUME PipeAssumption, TokenInv, UNCHANGED pipeVars
    PROVE  TokenInv'
  BY DEF pipeVars, TokenInv, Types, CallTypes, DataTypes, OnePlace, Queue, Place, Halfway,
         PromisesKept,
         NoWritersThen, AtEnd, Backed, Claimants, Claims, Waits

(* A new pipe has made no promise.                                         *)
LEMMA TokenInvInit ==
    ASSUME PipeAssumption, PipeInit
    PROVE  TokenInv
<1>1. /\ \A n \in Names : sem_table[n] \in SemRecord /\ Queue(n) = <<>>
      /\ sem_table["read"].value = 0
      /\ sem_table \in [Names -> SemRecord]
  <2>1. ASSUME NEW n \in Names, NEW v \in Nat
        PROVE  /\ [SEM_FREE EXCEPT !.used = TRUE, !.users = 1, !.value = v] \in SemRecord
               /\ [SEM_FREE EXCEPT !.used = TRUE, !.users = 1,
                                   !.value = v].waiting_processes = <<>>
    BY EmptySeq DEF SEM_FREE, SemRecord
  <2>2. \A n \in Names : \E v \in Nat :
           /\ sem_table[n] = [SEM_FREE EXCEPT !.used = TRUE, !.users = 1, !.value = v]
           /\ n = "read" => v = 0
    BY DEF PipeInit, PipeAssumption
  <2>3. "read" \in Names /\ \A n \in Names : sem_table[n] \in SemRecord /\ Queue(n) = <<>>
    <3>1. ASSUME NEW n \in Names
          PROVE  sem_table[n] \in SemRecord /\ Queue(n) = <<>>
      <4>1. PICK v \in Nat :
               sem_table[n] = [SEM_FREE EXCEPT !.used = TRUE, !.users = 1, !.value = v]
        BY <2>2
      <4>. QED
        BY <2>1, <4>1 DEF Queue
    <3>. QED
      BY <3>1 DEF PipeAssumption
  <2>4. sem_table["read"].value = 0
    BY <2>2, <2>3 DEF SEM_FREE
  <2>5. sem_table \in [Names -> SemRecord]
    BY <2>3 DEF PipeInit
  <2>. QED
    BY <2>3, <2>4, <2>5
<1>2. CallTypes
  BY <1>1 DEF CallTypes, PipeInit, Labels, Leaving
<1>3. Cardinality(Readers) \in Nat /\ Cardinality(Writers) \in Nat
  <2>1. IsFiniteSet(Readers) /\ IsFiniteSet(Writers)
    BY FS_Subset DEF PipeAssumption
  <2>. QED
    BY <2>1, FS_CardinalityType
<1>4. pipe \in PipeRecord /\ pipe.count = 0
  BY <1>3 DEF PipeInit, PipeRecord
<1>5. DataTypes
  BY <1>4 DEF DataTypes, PipeInit
<1>6. OnePlace /\ Halfway /\ NoWritersThen
  <2>1. \A n \in Names : DOMAIN Queue(n) = {}
    BY <1>1, EmptySeq
  <2>2. \A p \in Processes : pc[p] = "user" /\ half[p] = "no" /\ tokens[p] = 0
    BY DEF PipeInit
  <2>. QED
    BY <2>1, <2>2 DEF OnePlace, Halfway, NoWritersThen, AtEnd
<1>7. Backed
  <2>1. Claimants = {}
    BY DEF Claimants, Claims, PipeInit
  <2>. QED
    BY <1>1, <1>4, <2>1, FS_EmptySet DEF Backed
<1>. QED
  BY <1>2, <1>5, <1>6, <1>7 DEF TokenInv, Types, PromisesKept

(* TokenInv is inductive.                                                  *)
LEMMA TokenInvStep ==
    ASSUME PipeAssumption, TokenInv, [PipeNext]_pipeVars
    PROVE  TokenInv'
<1>1. TokenInv
  OBVIOUS
<1>2. CASE UNCHANGED pipeVars
  BY <1>2, TokenInvStays
<1>3. ASSUME NEW p \in Processes, ProcessStep(p)
      PROVE  TokenInv'
  BY <1>1, <1>3, WriterStep, ReaderStep, EndStep, TerminationStep DEF ProcessStep
<1>4. ASSUME NEW k \in Killers, Kill(k)
      PROVE  TokenInv'
  BY <1>1, <1>4, EndStep DEF PipeAssumption
<1>. QED
  BY <1>2, <1>3, <1>4 DEF PipeNext, Finished

(* A reader that was given a token finds a byte when it has the mutex, as  *)
(* long as there are writers: pipe_read never takes one of its retries.    *)
THEOREM TokenIsAByte ==
    ASSUME PipeAssumption
    PROVE  PipeSpec => []TokenMeansByte
<1>1. PipeInit => TokenInv
  BY TokenInvInit
<1>2. TokenInv /\ [PipeNext]_pipeVars => TokenInv'
  BY TokenInvStep
<1>3. TokenInv => TokenMeansByte
  BY DEF TokenInv, PromisesKept, NoWritersThen, AtEnd, TokenMeansByte, PipeAssumption
<1>. QED
  BY <1>1, <1>2, <1>3, PTL DEF PipeSpec

---------------------------------------------------------------------------
(* The sleepers *)

\* The step of p from one label to another.
InCall(p, from, to) ==
    \/ Step(p, from, to) \/ Enter(p, from, to) \/ Leave(p, from, to)
    \/ \E n \in Names : Wait(p, n, from, to) \/ Post(p, n, from, to)

StepOf(p, from, to) ==
    \/ InCall(p, from, to)
    \/ \E n \in Names : CloseSem(p, n, from, to)
    \/ Die(p, from)

\* Where one is who is not terminating a process.
CallLabels ==
    {"user", "exit", "undo", "w_room", "w_mutex", "w_put", "w_count", "w_unlock",
     "w_signal", "w_return", "r_check", "r_token", "r_mutex", "r_get", "r_unlock",
     "r_signal", "r_empty", "r_return"}

(* A step of a writer, of a reader and of one that gives a token back is   *)
(* made of one call or less.                                               *)
LEMMA CallStep ==
    ASSUME PipeAssumption, NEW p \in Processes, Writer(p) \/ Reader(p) \/ Undo(p)
    PROVE  \E from \in CallLabels, to \in CallLabels : InCall(p, from, to)
<1>1. {"mutex", "read", "write"} = Names
  BY DEF PipeAssumption
<1>2. AfterWrite(p) \in CallLabels /\ AfterRead(p) \in CallLabels
  BY DEF AfterWrite, AfterRead, CallLabels
<1>3. CASE Writer(p)
  <2>1. CASE WriteCall(p) \/ Store(p) \/ Count(p) \/ ReturnFromWrite(p)
    BY <1>2, <2>1 DEF WriteCall, Store, Count, ReturnFromWrite, InCall, CallLabels
  <2>2. CASE WaitForRoom(p) \/ LockToWrite(p)
    BY <1>1, <2>2 DEF WaitForRoom, LockToWrite, Fail, InCall, CallLabels
  <2>3. CASE UnlockAfterWrite(p) \/ SignalReader(p)
    BY <1>1, <2>3 DEF UnlockAfterWrite, SignalReader, InCall, CallLabels
  <2>. QED
    BY <1>3, <2>1, <2>2, <2>3 DEF Writer
<1>4. CASE Reader(p)
  <2>1. CASE ReadCall(p) \/ CheckEof(p) \/ Get(p) \/ Retry(p) \/ ReturnFromRead(p)
    BY <1>2, <2>1 DEF ReadCall, CheckEof, Get, Retry, ReturnFromRead, InCall, CallLabels
  <2>2. CASE WaitForByte(p) \/ LockToRead(p)
    BY <1>1, <2>2 DEF WaitForByte, LockToRead, Fail, InCall, CallLabels
  <2>3. CASE UnlockAfterRead(p) \/ SignalWriter(p) \/ FindEmpty(p)
    BY <1>1, <2>3 DEF UnlockAfterRead, SignalWriter, FindEmpty, InCall, CallLabels
  <2>. QED
    BY <1>4, <2>1, <2>2, <2>3 DEF Reader
<1>5. CASE Undo(p)
  BY <1>1, <1>5 DEF Undo, InCall, CallLabels
<1>. QED
  BY <1>3, <1>4, <1>5

(* Every step is made of one call or less.                                 *)
LEMMA OneCall ==
    ASSUME PipeAssumption, PipeNext
    PROVE  \/ UNCHANGED pipeVars
           \/ \E p \in Processes, from \in Labels, to \in Labels : StepOf(p, from, to)
<1>1. {"mutex", "read", "write"} = Names
  BY DEF PipeAssumption
<1>2. /\ CallLabels \subseteq Labels
      /\ {"user", "exit", "t_release", "t_eof", "t_post", "t_mutex", "t_read", "t_write",
          "t_reset", "done"} \subseteq Labels
  BY DEF Labels, Leaving, CallLabels
<1>3. ASSUME NEW p \in Processes, Writer(p) \/ Reader(p) \/ Undo(p)
      PROVE  \E from \in Labels, to \in Labels : StepOf(p, from, to)
  BY <1>2, <1>3, CallStep DEF StepOf
<1>4. ASSUME NEW p \in Processes, Exit(p) \/ Kill(p) \/ Termination(p)
      PROVE  \E from \in Labels, to \in Labels : StepOf(p, from, to)
  <2>1. CASE Exit(p) \/ Kill(p) \/ Unregister(p) \/ SetEof(p) \/ Destroy(p)
    BY <1>2, <2>1 DEF Exit, Kill, Unregister, SetEof, Destroy, StepOf, InCall
  <2>2. CASE PostEof(p) \/ CloseSems(p)
    BY <1>1, <1>2, <2>2 DEF PostEof, CloseSems, StepOf, InCall
  <2>3. CASE DieInUse(p) \/ DieAfterReset(p)
    BY <1>2, <2>3 DEF DieInUse, DieAfterReset, StepOf
  <2>. QED
    BY <1>4, <2>1, <2>2, <2>3 DEF Termination
<1>5. /\ Writers \subseteq Processes /\ Readers \subseteq Processes
      /\ Killers \subseteq Processes
  BY DEF PipeAssumption
<1>. QED
  BY <1>3, <1>4, <1>5 DEF PipeNext, ProcessStep, Finished

\* p is in the queue of a semaphore.
Queued(p) == \E n \in Names : \E i \in DOMAIN Queue(n) : Queue(n)[i] = p

\* With whole semaphore calls nobody is ever between its two halves.
SleepInv ==
    /\ TokenInv
    /\ \A p \in Processes :
          /\ half[p] = "no"
          /\ state[p] = "BLOCKED" => Queued(p)

(* Who stays in the queue of n, or was in another one, is still queued.    *)
LEMMA QueuedStays ==
    ASSUME NEW n \in Names, OnlyAt(n), NEW o \in Processes, Queued(o),
           \A i \in DOMAIN Queue(n) :
              Queue(n)[i] = o => \E j \in DOMAIN Queue(n)' : Queue(n)'[j] = o
    PROVE  Queued(o)'
<1>1. PICK m \in Names : \E i \in DOMAIN Queue(m) : Queue(m)[i] = o
  BY DEF Queued
<1>2. CASE m = n
  BY <1>1, <1>2 DEF Queued
<1>3. CASE m # n
  <2>1. Queue(m)' = Queue(m)
    BY <1>3 DEF OnlyAt, Queue
  <2>. QED
    BY <1>1, <2>1 DEF Queued
<1>. QED
  BY <1>2, <1>3

(* One step of a call.                                                     *)
LEMMA SleepersStay ==
    ASSUME PipeAssumption, SemaphoresAtomic = TRUE, SleepInv, NEW p \in Processes,
           NEW from \in Labels, NEW to \in Labels, StepOf(p, from, to)
    PROVE  \A o \in Processes : half'[o] = "no" /\ (state'[o] = "BLOCKED" => Queued(o)')
<1>1. /\ Types /\ \A o \in Processes : half[o] = "no"
      /\ \A o \in Processes : state[o] = "BLOCKED" => Queued(o)
  BY DEF SleepInv, TokenInv
<1>2. ASSUME sem_table' = sem_table, half' = half,
             \A o \in Processes : state'[o] = "BLOCKED" => state[o] = "BLOCKED"
      PROVE  \A o \in Processes : half'[o] = "no" /\ (state'[o] = "BLOCKED" => Queued(o)')
  <2>1. \A o \in Processes : Queued(o) => Queued(o)'
    BY <1>2 DEF Queued, Queue
  <2>. QED
    BY <1>1, <1>2, <2>1
<1>3. CASE Step(p, from, to) \/ Enter(p, from, to) \/ Leave(p, from, to)
  <2>1. sem_table' = sem_table /\ half' = half /\ state' = state
    BY <1>1, <1>3, QuietEffect
  <2>. QED
    BY <1>2, <2>1
<1>4. CASE Die(p, from)
  <2>1. sem_table' = sem_table /\ half' = half
        /\ state' = [state EXCEPT ![target[p]] = "TERMINATED"]
    BY <1>4 DEF Die
  <2>2. \A o \in Processes : state'[o] = "BLOCKED" => state[o] = "BLOCKED"
    BY <1>1, <2>1 DEF Types, CallTypes
  <2>. QED
    BY <1>2, <2>1, <2>2
<1>5. ASSUME NEW n \in Names, Wait(p, n, from, to)
      PROVE  \A o \in Processes : half'[o] = "no" /\ (state'[o] = "BLOCKED" => Queued(o)')
  <2>1. half[p] = "no" /\ OnlyAt(n) /\ half' = half
    BY <1>1, <1>5, WaitEffect
  <2>2. \A o \in Processes : half'[o] = "no"
    BY <1>1, <2>1
  <2>3. CASE Queue(n)' = Queue(n) /\ state' = state
    <3>1. \A o \in Processes : Queued(o) => Queued(o)'
      BY <2>1, <2>3, QueuedStays
    <3>. QED
      BY <1>1, <2>2, <2>3, <3>1
  <2>4. CASE /\ Queue(n)' = Append(Queue(n), p)
             /\ state' = [state EXCEPT ![p] = "BLOCKED"]
    <3>1. /\ Queue(n) \in Seq(Processes) /\ Len(Queue(n)) \in Nat
          /\ DOMAIN Queue(n) = 1 .. Len(Queue(n))
      BY <1>1, QueueFacts
    <3>2. /\ DOMAIN Queue(n)' = 1 .. Len(Queue(n)) + 1
          /\ \A i \in 1 .. Len(Queue(n)) : Queue(n)'[i] = Queue(n)[i]
          /\ Queue(n)'[Len(Queue(n)) + 1] = p
      BY <2>4, <3>1, AppendProperties, LenProperties
    <3>3. /\ Len(Queue(n)) + 1 \in 1 .. Len(Queue(n)) + 1
          /\ 1 .. Len(Queue(n)) \subseteq 1 .. Len(Queue(n)) + 1
      BY <3>1
    <3>4. \A o \in Processes : Queued(o) => Queued(o)'
      BY <2>1, <3>1, <3>2, <3>3, QueuedStays
    <3>5. Queued(p)'
      BY <3>2, <3>3 DEF Queued
    <3>6. \A o \in Processes \ {p} : state'[o] = state[o]
      BY <1>1, <2>4 DEF Types, CallTypes
    <3>. QED
      BY <1>1, <2>2, <3>4, <3>5, <3>6
  <2>. QED
    BY <1>1, <1>5, <2>1, <2>3, <2>4, WaitEffect
<1>6. ASSUME NEW n \in Names, Post(p, n, from, to)
      PROVE  \A o \in Processes : half'[o] = "no" /\ (state'[o] = "BLOCKED" => Queued(o)')
  <2>1. OnlyAt(n) /\ half' = half
    BY <1>1, <1>6, PostEffect
  <2>2. \A o \in Processes : half'[o] = "no"
    BY <1>1, <2>1
  <2>3. CASE Queue(n)' = Queue(n) /\ state' = state
    <3>1. \A o \in Processes : Queued(o) => Queued(o)'
      BY <2>1, <2>3, QueuedStays
    <3>. QED
      BY <1>1, <2>2, <2>3, <3>1
  <2>4. CASE /\ Queue(n) # <<>> /\ Queue(n)' = Tail(Queue(n))
             /\ state' = Woken({Head(Queue(n))})
    <3>1. /\ Queue(n) \in Seq(Processes) /\ Len(Queue(n)) \in Nat
          /\ DOMAIN Queue(n) = 1 .. Len(Queue(n))
      BY <1>1, QueueFacts
    <3>2. /\ DOMAIN Queue(n)' = 1 .. Len(Queue(n)) - 1
          /\ \A i \in 1 .. Len(Queue(n)) - 1 : Queue(n)'[i] = Queue(n)[i + 1]
          /\ Head(Queue(n)) = Queue(n)[1]
      BY <2>4, <3>1, HeadTailProperties, LenProperties
    <3>3. ASSUME NEW o \in Processes, state'[o] = "BLOCKED"
          PROVE  state[o] = "BLOCKED" /\ o # Head(Queue(n))
      BY <2>4, <3>3 DEF Woken
    <3>4. ASSUME NEW o \in Processes, o # Head(Queue(n)), NEW i \in DOMAIN Queue(n),
                 Queue(n)[i] = o
          PROVE  \E j \in DOMAIN Queue(n)' : Queue(n)'[j] = o
      <4>1. i # 1 /\ i \in 1 .. Len(Queue(n))
        BY <3>1, <3>2, <3>4
      <4>2. i - 1 \in 1 .. Len(Queue(n)) - 1 /\ (i - 1) + 1 = i
        BY <3>1, <4>1
      <4>. QED
        BY <3>2, <3>4, <4>2
    <3>5. \A o \in Processes : o # Head(Queue(n)) /\ Queued(o) => Queued(o)'
      BY <2>1, <3>4, QueuedStays
    <3>. QED
      BY <1>1, <2>2, <3>3, <3>5
  <2>5. sem_table' = sem_table => Queue(n)' = Queue(n)
    BY DEF Queue
  <2>. QED
    BY <1>1, <1>6, <2>3, <2>4, <2>5, PostEffect
<1>7. ASSUME NEW n \in Names, CloseSem(p, n, from, to)
      PROVE  \A o \in Processes : half'[o] = "no" /\ (state'[o] = "BLOCKED" => Queued(o)')
  <2>1. OnlyAt(n) /\ half' = half
    BY <1>1, <1>7, CloseEffect
  <2>2. \A o \in Processes : half'[o] = "no"
    BY <1>1, <2>1
  <2>3. CASE Queue(n)' = Queue(n) /\ state' = state
    <3>1. \A o \in Processes : Queued(o) => Queued(o)'
      BY <2>1, <2>3, QueuedStays
    <3>. QED
      BY <1>1, <2>2, <2>3, <3>1
  <2>4. CASE state' = Woken(ToSet(Queue(n)))
    <3>1. ASSUME NEW o \in Processes, state'[o] = "BLOCKED"
          PROVE  state[o] = "BLOCKED" /\ \A i \in DOMAIN Queue(n) : Queue(n)[i] # o
      BY <2>4, <3>1 DEF Woken, ToSet
    <3>2. \A o \in Processes :
             Queued(o) /\ (\A i \in DOMAIN Queue(n) : Queue(n)[i] # o) => Queued(o)'
      BY <2>1, QueuedStays
    <3>. QED
      BY <1>1, <2>2, <3>1, <3>2
  <2>. QED
    BY <1>1, <1>7, <2>3, <2>4, CloseEffect
<1>. QED
  BY <1>3, <1>4, <1>5, <1>6, <1>7 DEF StepOf, InCall

(* Whoever sleeps is in the queue of a semaphore, when a semaphore call    *)
(* cannot be interrupted.                                                  *)
THEOREM SleepersAreReachable ==
    ASSUME PipeAssumption, SemaphoresAtomic = TRUE
    PROVE  PipeSpec => []SleepersCanBeWoken
<1>1. PipeInit => SleepInv
  BY TokenInvInit DEF SleepInv, PipeInit
<1>2. SleepInv /\ [PipeNext]_pipeVars => SleepInv'
  <2> SUFFICES ASSUME SleepInv, [PipeNext]_pipeVars
               PROVE  SleepInv'
    OBVIOUS
  <2>1. TokenInv'
    BY TokenInvStep DEF SleepInv
  <2>2. CASE UNCHANGED pipeVars
    BY <2>1, <2>2 DEF SleepInv, pipeVars, Queued, Queue
  <2>3. CASE \E p \in Processes, from \in Labels, to \in Labels : StepOf(p, from, to)
    BY <2>1, <2>3, SleepersStay DEF SleepInv
  <2>. QED
    BY <2>2, <2>3, OneCall
<1>3. SleepInv => SleepersCanBeWoken
  <2> SUFFICES ASSUME SleepInv, NEW p \in Processes, state[p] = "BLOCKED"
               PROVE  p \in AllWaiters
    BY DEF SleepersCanBeWoken
  <2>1. PICK n \in Names : \E i \in DOMAIN Queue(n) : Queue(n)[i] = p
    BY DEF SleepInv, Queued
  <2>. QED
    BY <2>1 DEF AllWaiters, ToSet, Queue
<1>. QED
  BY <1>1, <1>2, <1>3, PTL DEF PipeSpec

---------------------------------------------------------------------------
(* The counts of the ends *)

OpenWriters == {w \in Writers : desc[w] = "open"}
OpenReaders == {r \in Readers : desc[r] = "open"}

\* The count of the ends of the kind of t.
Side(t) == IF t \in Writers THEN pipe.writers ELSE pipe.readers

Releasing == {"t_eof", "t_post"}
Closing == {"t_mutex", "t_read", "t_write", "t_reset"}

\* An end is only counted off by one that has the CPU, and keeps it.
Terminator(p) ==
    /\ pc[p] \in {"t_release"} \cup Releasing \cup Closing =>
          masked[p] /\ target[p] \in Ends
    /\ pc[p] = "t_release" => cpu = p
    /\ pc[p] = "t_eof" => target[p] \in Writers
    /\ pc[p] \in Releasing \cup Closing => desc[target[p]] # "open"
    /\ pc[p] \in Closing => pipe.writers = 0 /\ pipe.readers = 0
    /\ tokens[p] > 0 =>
          pc[p] = "t_post" /\ target[p] \in Writers /\ pipe.writers = 0

\* An end that has been counted off and could be counted off again, by a second
\* process that kills it, is one of none, or the CPU is not free for that.
CountedOff(t) ==
    desc[t] = "released" =>
        \/ Side(t) = 0
        \/ cpu \in Processes /\ pc[cpu] \in Releasing /\ target[cpu] = t

Counted ==
    /\ pipe.writers = Cardinality(OpenWriters)
    /\ pipe.readers = Cardinality(OpenReaders)
    /\ ~ pipe.active => pipe.writers = 0 /\ pipe.readers = 0

CountInv ==
    /\ TokenInv
    /\ Counted
    /\ \A t \in Ends : CountedOff(t)
    /\ \A p \in Processes : Terminator(p)

(* The steps of the calls.                                                 *)
LEMMA CountsStay ==
    ASSUME PipeAssumption, CountInv, TokenInv', NEW p \in Processes,
           Alone(p), cpu \in {Nobody, p},
           pc[p] \in CallLabels, pc'[p] \in CallLabels \cup {"done"},
           pipe'.writers = pipe.writers, pipe'.readers = pipe.readers,
           pipe'.active = pipe.active,
           desc' = desc, target' = target, tokens' = tokens
    PROVE  CountInv'
<1>1. /\ Counted /\ \A t \in Ends : CountedOff(t)
      /\ \A o \in Processes : Terminator(o)
      /\ Nobody \notin Processes
  BY DEF CountInv, PipeAssumption
<1>2. Counted'
  BY <1>1 DEF Counted, OpenWriters, OpenReaders
<1>3. ASSUME NEW t \in Ends
      PROVE  CountedOff(t)'
  <2>1. ~ (cpu \in Processes /\ pc[cpu] \in Releasing)
    BY <1>1 DEF Releasing, CallLabels
  <2>2. desc[t] = "released" => Side(t) = 0
    BY <1>1, <2>1 DEF CountedOff
  <2>3. Side(t)' = Side(t)
    BY DEF Side
  <2>. QED
    BY <2>2, <2>3 DEF CountedOff
<1>4. ASSUME NEW o \in Processes
      PROVE  Terminator(o)'
  <2>1. CASE o = p
    <3>1. ~ tokens[p] > 0
      BY <1>1 DEF Terminator, CallLabels
    <3>. QED
      BY <2>1, <3>1 DEF Terminator, CallLabels, Releasing, Closing
  <2>2. CASE o # p
    <3>1. pc'[o] = pc[o] /\ masked'[o] = masked[o] /\ Terminator(o)
      BY <1>1, <2>2 DEF Alone
    <3>2. pc[o] # "t_release"
      BY <1>1, <2>2, <3>1 DEF Terminator
    <3>. QED
      BY <3>1, <3>2 DEF Terminator
  <2>. QED
    BY <2>1, <2>2
<1>. QED
  BY <1>2, <1>3, <1>4 DEF CountInv
(* The steps of the writers and the readers.                               *)
LEMMA CallsCount ==
    ASSUME PipeAssumption, CountInv, TokenInv', NEW p \in Processes,
           \/ p \in Writers /\ Writer(p)
           \/ p \in Readers /\ Reader(p)
           \/ p \in Ends /\ Undo(p)
    PROVE  CountInv'
<1>1. Types
  BY DEF CountInv, TokenInv
<1>2. PICK from \in CallLabels, to \in CallLabels : InCall(p, from, to)
  BY CallStep
<1>3. from \in Labels /\ to \in Labels
  BY DEF CallLabels, Labels, Leaving
<1>4. Alone(p) /\ pc[p] = from /\ pc'[p] \in {from, to} /\ cpu \in {Nobody, p}
  <2>1. CASE Step(p, from, to) \/ Enter(p, from, to) \/ Leave(p, from, to)
    <3>1. Alone(p) /\ pc[p] = from /\ pc'[p] \in {from, to}
      BY <1>1, <1>3, <2>1, QuietEffect
    <3>2. cpu \in {Nobody, p}
      BY <2>1 DEF Step, Enter, Leave, At
    <3>. QED
      BY <3>1, <3>2
  <2>2. ASSUME NEW n \in Names, Wait(p, n, from, to)
        PROVE  Alone(p) /\ pc[p] = from /\ pc'[p] \in {from, to} /\ cpu \in {Nobody, p}
    <3>1. Alone(p) /\ pc[p] = from /\ (pc'[p] = from \/ pc'[p] = to)
      BY <1>1, <1>3, <2>2, WaitEffect
    <3>2. cpu \in {Nobody, p}
      BY <2>2 DEF Wait, At
    <3>. QED
      BY <3>1, <3>2
  <2>3. ASSUME NEW n \in Names, Post(p, n, from, to)
        PROVE  Alone(p) /\ pc[p] = from /\ pc'[p] \in {from, to} /\ cpu \in {Nobody, p}
    <3>1. Alone(p) /\ pc[p] = from /\ pc'[p] \in {from, to}
      BY <1>1, <1>3, <2>3, PostMoves
    <3>2. cpu \in {Nobody, p}
      BY <2>3 DEF Post, At
    <3>. QED
      BY <3>1, <3>2
  <2>. QED
    BY <1>2, <2>1, <2>2, <2>3 DEF InCall
<1>5. /\ pipe'.writers = pipe.writers /\ pipe'.readers = pipe.readers
      /\ pipe'.active = pipe.active
  <2>1. pipe \in PipeRecord
    BY <1>1 DEF Types, DataTypes
  <2>2. CASE p \in Writers /\ Writer(p)
    BY <2>1, <2>2
       DEF Writer, WriteCall, WaitForRoom, LockToWrite, Store, Count, UnlockAfterWrite,
           SignalReader, ReturnFromWrite, PipeRecord
  <2>3. CASE p \in Readers /\ Reader(p)
    BY <2>1, <2>3
       DEF Reader, ReadCall, CheckEof, WaitForByte, LockToRead, Get, UnlockAfterRead,
           SignalWriter, FindEmpty, Retry, ReturnFromRead, PipeRecord
  <2>. QED
    BY <2>2, <2>3 DEF Undo
<1>6. desc' = desc /\ target' = target /\ tokens' = tokens
  BY DEF Writer, WriteCall, WaitForRoom, LockToWrite, Store, Count, UnlockAfterWrite,
         SignalReader, ReturnFromWrite, Reader, ReadCall, CheckEof, WaitForByte,
         LockToRead, Get, UnlockAfterRead, SignalWriter, FindEmpty, Retry,
         ReturnFromRead, Undo, locals
<1>7. pc[p] \in CallLabels /\ pc'[p] \in CallLabels \cup {"done"}
  BY <1>4
<1>. QED
  BY <1>4, <1>5, <1>6, <1>7, CountsStay

(* Who does not run does not move.                                         *)
LEMMA OthersStand ==
    ASSUME PipeAssumption, CountInv, NEW p \in Processes, NEW o \in Processes \ {p},
           Alone(p), cpu \in {Nobody, p}, OwnTokens(p), target'[o] = target[o],
           pipe.writers = 0 => pipe'.writers = 0,
           pipe.readers = 0 => pipe'.readers = 0,
           \A t \in Ends : desc[t] # "open" => desc'[t] # "open"
    PROVE  Terminator(o)'
<1>1. Terminator(o) /\ Nobody \notin Processes
  BY DEF CountInv, PipeAssumption
<1>2. /\ pc'[o] = pc[o] /\ masked'[o] = masked[o] /\ tokens'[o] = tokens[o]
      /\ cpu # o
  BY <1>1 DEF Alone, OwnTokens
<1>3. pc[o] # "t_release"
  BY <1>1, <1>2 DEF Terminator
<1>. QED
  BY <1>1, <1>2, <1>3 DEF Terminator

(* An exit or a kill takes the CPU.                                        *)
LEMMA StartCounts ==
    ASSUME PipeAssumption, ReturnsFromMain = FALSE, CountInv, TokenInv',
           NEW p \in Processes,
           \/ p \in Ends /\ Exit(p)
           \/ p \in Killers /\ Kill(p)
    PROVE  CountInv'
<1>1. /\ Types /\ Counted /\ \A t \in Ends : CountedOff(t)
      /\ Terminator(p) /\ Nobody \notin Processes
  BY DEF CountInv, TokenInv, PipeAssumption
<1>2. PICK from \in {"user", "exit"}, t \in Ends :
         /\ Enter(p, from, "t_release") /\ target' = [target EXCEPT ![p] = t]
         /\ pipe' = pipe /\ desc' = desc /\ tokens' = tokens
  BY DEF Exit, Kill
<1>3. from \in Labels /\ "t_release" \in Labels
  BY DEF Labels, Leaving
<1>4. Alone(p) /\ pc[p] = from /\ pc'[p] = "t_release"
  BY <1>1, <1>2, <1>3, QuietEffect
<1>5. cpu \in {Nobody, p} /\ cpu' = p /\ masked'[p]
  <2>1. masked' = [masked EXCEPT ![p] = TRUE] /\ cpu' = p /\ cpu \in {Nobody, p}
    BY <1>2 DEF Enter, At
  <2>. QED
    BY <1>1, <2>1 DEF Types, CallTypes
<1>6. target'[p] = t /\ \A o \in Processes \ {p} : target'[o] = target[o]
  BY <1>1, <1>2 DEF Types, DataTypes
<1>7. Counted'
  BY <1>1, <1>2 DEF Counted, OpenWriters, OpenReaders
<1>8. ASSUME NEW u \in Ends
      PROVE  CountedOff(u)'
  <2>1. ~ (cpu \in Processes /\ pc[cpu] \in Releasing)
    BY <1>1, <1>4, <1>5 DEF Releasing
  <2>2. desc[u] = "released" => Side(u) = 0
    BY <1>1, <2>1 DEF CountedOff
  <2>. QED
    BY <1>2, <2>2 DEF CountedOff, Side
<1>9. Terminator(p)'
  <2>1. ~ tokens[p] > 0
    BY <1>1, <1>4 DEF Terminator
  <2>. QED
    BY <1>2, <1>4, <1>5, <1>6, <2>1 DEF Terminator, Releasing, Closing
<1>10. ASSUME NEW o \in Processes \ {p}
       PROVE  Terminator(o)'
  BY <1>2, <1>4, <1>5, <1>6, OthersStand DEF OwnTokens
<1>. QED
  BY <1>7, <1>8, <1>9, <1>10 DEF CountInv
(* An end that is released is open no more.                                *)
LEMMA OneEndLess ==
    ASSUME PipeAssumption, Types, NEW t \in Ends, NEW v \in {"released", "none"},
           desc' = [desc EXCEPT ![t] = v]
    PROVE  /\ desc[t] # "open" =>
                 OpenWriters' = OpenWriters /\ OpenReaders' = OpenReaders
           /\ t \in Writers => OpenReaders' = OpenReaders
           /\ t \notin Writers => OpenWriters' = OpenWriters
           /\ desc[t] = "open" /\ t \in Writers =>
                 /\ Cardinality(OpenWriters) > 0
                 /\ Cardinality(OpenWriters') = Cardinality(OpenWriters) - 1
           /\ desc[t] = "open" /\ t \notin Writers =>
                 /\ Cardinality(OpenReaders) > 0
                 /\ Cardinality(OpenReaders') = Cardinality(OpenReaders) - 1
<1>1. /\ desc'[t] = v /\ \A u \in Ends \ {t} : desc'[u] = desc[u]
      /\ Writers \subseteq Ends /\ Readers \subseteq Ends
      /\ Writers \intersect Readers = {} /\ Ends = Writers \cup Readers
  BY DEF Types, DataTypes, Ends, PipeAssumption
<1>2. OpenWriters' = OpenWriters \ {t} /\ OpenReaders' = OpenReaders \ {t}
  BY <1>1 DEF OpenWriters, OpenReaders
<1>3. /\ desc[t] # "open" => t \notin OpenWriters /\ t \notin OpenReaders
      /\ desc[t] = "open" /\ t \in Writers => t \in OpenWriters
      /\ desc[t] = "open" /\ t \notin Writers => t \in OpenReaders
      /\ t \in Writers => t \notin OpenReaders
      /\ t \notin Writers => t \notin OpenWriters
  BY <1>1 DEF OpenWriters, OpenReaders
<1>4. IsFiniteSet(OpenWriters) /\ IsFiniteSet(OpenReaders)
  <2>1. OpenWriters \subseteq Processes /\ OpenReaders \subseteq Processes
    BY DEF OpenWriters, OpenReaders, PipeAssumption
  <2>. QED
    BY <2>1, FS_Subset DEF PipeAssumption
<1>5. \A S : IsFiniteSet(S) /\ t \in S =>
         Cardinality(S) > 0 /\ Cardinality(S \ {t}) = Cardinality(S) - 1
  <2>1. ASSUME NEW S, IsFiniteSet(S), t \in S
        PROVE  Cardinality(S) > 0 /\ Cardinality(S \ {t}) = Cardinality(S) - 1
    <3>1. Cardinality(S) \in Nat /\ Cardinality(S \ {t}) = Cardinality(S) - 1
      BY <2>1, FS_CardinalityType, FS_RemoveElement
    <3>2. Cardinality(S) # 0
      BY <2>1, FS_EmptySet
    <3>. QED
      BY <3>1, <3>2
  <2>. QED
    BY <2>1
<1>6. /\ t \notin OpenWriters => OpenWriters \ {t} = OpenWriters
      /\ t \notin OpenReaders => OpenReaders \ {t} = OpenReaders
  OBVIOUS
<1>. QED
  BY <1>2, <1>3, <1>4, <1>5, <1>6

(* An end is counted off, once.                                            *)
LEMMA UnregisterCounts ==
    ASSUME PipeAssumption, CountInv, TokenInv', NEW p \in Processes, Unregister(p)
    PROVE  CountInv'
<1>. DEFINE t == target[p]
<1>1. /\ Types /\ Counted /\ \A u \in Ends : CountedOff(u)
      /\ Terminator(p) /\ Nobody \notin Processes
      /\ pipe.writers \in Nat /\ pipe.readers \in Nat
  BY PipeFacts DEF CountInv, TokenInv, PipeAssumption
<1>2. PICK to \in Releasing : /\ Step(p, "t_release", to)
                              /\ to = "t_eof" => t \in Writers
  BY DEF Unregister, Releasing
<1>3. "t_release" \in Labels /\ to \in Labels
  BY DEF Labels, Leaving, Releasing
<1>4. Alone(p) /\ pc[p] = "t_release" /\ pc'[p] = to
  BY <1>1, <1>2, <1>3, QuietEffect
<1>5. /\ masked[p] /\ masked'[p] /\ t \in Ends /\ cpu = p /\ cpu' = p
      /\ ~ tokens[p] > 0
  <2>1. masked[p] /\ t \in Ends /\ cpu = p /\ ~ tokens[p] > 0
    BY <1>1, <1>4 DEF Terminator
  <2>. QED
    BY <1>2, <2>1 DEF Step, KeepsCpu
<1>6. target' = target /\ tokens' = tokens
  BY DEF Unregister
<1>7. \A u \in Ends : desc[u] = "released" => Side(u) = 0
  BY <1>1, <1>4, <1>5 DEF CountedOff, Releasing
<1>. HIDE DEF t
<1>8. CASE Registered(t)
  <2>1. /\ desc' = [desc EXCEPT ![t] = "released"]
        /\ t \in Writers => pipe' = [pipe EXCEPT !.writers = Minus1(pipe.writers)]
        /\ t \notin Writers => pipe' = [pipe EXCEPT !.readers = Minus1(pipe.readers)]
    BY <1>8 DEF Unregister, t
  <2>2. /\ t \in Writers => /\ pipe'.writers = Minus1(pipe.writers)
                            /\ pipe'.readers = pipe.readers
        /\ t \notin Writers => /\ pipe'.readers = Minus1(pipe.readers)
                               /\ pipe'.writers = pipe.writers
        /\ pipe'.active = pipe.active
    <3>1. PICK k, l : k = Minus1(pipe.writers) /\ l = Minus1(pipe.readers)
      OBVIOUS
    <3>2. /\ t \in Writers => pipe' = [pipe EXCEPT !.writers = k]
          /\ t \notin Writers => pipe' = [pipe EXCEPT !.readers = l]
      BY <2>1, <3>1
    <3>. QED
      BY <1>1, <3>1, <3>2 DEF Types, DataTypes, PipeRecord
  <2>3. desc[t] \in {"open", "released", "none"} /\ desc[t] # "none"
    BY <1>1, <1>5, <1>8 DEF Registered, Types, DataTypes
  <2>4. Counted'
    <3>1. CASE desc[t] = "released"
      <4>1. OpenWriters' = OpenWriters /\ OpenReaders' = OpenReaders
        BY <1>1, <1>5, <2>1, <3>1, OneEndLess
      <4>2. pipe'.writers = pipe.writers /\ pipe'.readers = pipe.readers
        BY <1>5, <1>7, <2>2, <3>1 DEF Side, Minus1
      <4>. QED
        BY <1>1, <2>2, <4>1, <4>2 DEF Counted
    <3>2. CASE desc[t] = "open" /\ t \in Writers
      <4>1. /\ OpenReaders' = OpenReaders /\ Cardinality(OpenWriters) > 0
            /\ Cardinality(OpenWriters') = Cardinality(OpenWriters) - 1
        BY <1>1, <1>5, <2>1, <3>2, OneEndLess
      <4>2. pipe'.writers = pipe.writers - 1 /\ pipe'.readers = pipe.readers
        BY <1>1, <2>2, <3>2, <4>1 DEF Counted, Minus1
      <4>. QED
        BY <1>1, <2>2, <4>1, <4>2 DEF Counted
    <3>3. CASE desc[t] = "open" /\ t \notin Writers
      <4>1. /\ OpenWriters' = OpenWriters /\ Cardinality(OpenReaders) > 0
            /\ Cardinality(OpenReaders') = Cardinality(OpenReaders) - 1
        BY <1>1, <1>5, <2>1, <3>3, OneEndLess
      <4>2. pipe'.readers = pipe.readers - 1 /\ pipe'.writers = pipe.writers
        BY <1>1, <2>2, <3>3, <4>1 DEF Counted, Minus1
      <4>. QED
        BY <1>1, <2>2, <4>1, <4>2 DEF Counted
    <3>. QED
      BY <2>3, <3>1, <3>2, <3>3
  <2>5. /\ pipe.writers = 0 => pipe'.writers = 0
        /\ pipe.readers = 0 => pipe'.readers = 0
    BY <2>2 DEF Minus1
  <2>6. /\ desc'[t] = "released" /\ \A u \in Ends \ {t} : desc'[u] = desc[u]
    BY <1>1, <1>5, <2>1 DEF Types, DataTypes
  <2>7. ASSUME NEW u \in Ends
        PROVE  CountedOff(u)'
    <3>1. CASE u = t
      BY <1>4, <1>5, <1>6, <3>1 DEF CountedOff, t
    <3>2. CASE u # t
      BY <1>7, <2>5, <2>6, <3>2 DEF CountedOff, Side
    <3>. QED
      BY <3>1, <3>2
  <2>8. Terminator(p)'
    BY <1>2, <1>4, <1>5, <1>6, <2>6 DEF Terminator, Releasing, Closing, t
  <2>9. ASSUME NEW o \in Processes \ {p}
        PROVE  Terminator(o)'
    BY <1>4, <1>5, <1>6, <2>5, <2>6, OthersStand DEF OwnTokens
  <2>. QED
    BY <2>4, <2>7, <2>8, <2>9 DEF CountInv
<1>9. CASE ~ Registered(t)
  <2>1. pipe' = pipe /\ desc' = desc
    BY <1>9 DEF Unregister, t
  <2>2. desc[t] # "open"
    <3>1. desc[t] = "open" /\ ~ pipe.active => FALSE
      <4>1. ASSUME desc[t] = "open", ~ pipe.active
            PROVE  FALSE
        <5>1. /\ Cardinality(OpenWriters) = 0 /\ Cardinality(OpenReaders) = 0
              /\ t \in OpenWriters \cup OpenReaders
          BY <1>1, <1>5, <4>1 DEF Counted, OpenWriters, OpenReaders, Ends
        <5>2. IsFiniteSet(OpenWriters) /\ IsFiniteSet(OpenReaders)
          <6>1. OpenWriters \subseteq Processes /\ OpenReaders \subseteq Processes
            BY DEF OpenWriters, OpenReaders, PipeAssumption
          <6>. QED
            BY <6>1, FS_Subset DEF PipeAssumption
        <5>. QED
          BY <5>1, <5>2, FS_EmptySet
      <4>. QED
        BY <4>1
    <3>. QED
      BY <1>9, <3>1 DEF Registered
  <2>3. Counted'
    BY <1>1, <2>1 DEF Counted, OpenWriters, OpenReaders
  <2>4. ASSUME NEW u \in Ends
        PROVE  CountedOff(u)'
    BY <1>7, <2>1 DEF CountedOff, Side
  <2>5. Terminator(p)'
    BY <1>2, <1>4, <1>5, <1>6, <2>1, <2>2 DEF Terminator, Releasing, Closing, t
  <2>6. ASSUME NEW o \in Processes \ {p}
        PROVE  Terminator(o)'
    BY <1>4, <1>5, <1>6, <2>1, OthersStand DEF OwnTokens
  <2>. QED
    BY <2>3, <2>4, <2>5, <2>6 DEF CountInv
<1>. QED
  BY <1>8, <1>9
(* A later step of terminate_process, which counts off nothing.            *)
LEMMA LaterCounts ==
    ASSUME PipeAssumption, CountInv, TokenInv', NEW p \in Processes,
           Alone(p), cpu \in {Nobody, p}, OwnTokens(p),
           pipe'.writers = pipe.writers, pipe'.readers = pipe.readers,
           pipe'.active = pipe.active \/ (pipe.writers = 0 /\ pipe.readers = 0),
           target' = target,
           \/ desc' = desc
           \/ desc' = [desc EXCEPT ![target[p]] = "none"] /\ pc'[p] = "done",
           pc[p] \in Releasing \cup Closing,
           \/ /\ pc'[p] \in Releasing \cup Closing /\ pc'[p] # "t_eof" /\ masked'[p]
              /\ cpu' = p \/ Side(target[p]) = 0
              /\ pc'[p] = "t_post" \/ (pipe.writers = 0 /\ pipe.readers = 0)
           \/ pc'[p] = "done" /\ desc' # desc
           \/ pc'[p] = "done" /\ desc[target[p]] = "none",
           tokens'[p] > 0 =>
              pc'[p] = "t_post" /\ target[p] \in Writers /\ pipe.writers = 0
    PROVE  CountInv'
<1>. DEFINE t == target[p]
<1>1. /\ Types /\ Counted /\ \A u \in Ends : CountedOff(u)
      /\ Terminator(p) /\ Nobody \notin Processes
  BY DEF CountInv, TokenInv, PipeAssumption
<1>2. t \in Ends /\ desc[t] # "open"
  BY <1>1 DEF Terminator
<1>. HIDE DEF t
<1>3. /\ OpenWriters' = OpenWriters /\ OpenReaders' = OpenReaders
      /\ \A u \in Ends : u # t => desc'[u] = desc[u]
      /\ desc'[t] # "open" /\ (desc' # desc => desc'[t] = "none")
  <2>1. CASE desc' = desc
    BY <1>2, <2>1 DEF OpenWriters, OpenReaders
  <2>2. CASE desc' = [desc EXCEPT ![t] = "none"]
    <3>1. OpenWriters' = OpenWriters /\ OpenReaders' = OpenReaders
      BY <1>1, <1>2, <2>2, OneEndLess
    <3>2. desc'[t] = "none" /\ \A u \in Ends : u # t => desc'[u] = desc[u]
      BY <1>1, <1>2, <2>2 DEF Types, DataTypes
    <3>. QED
      BY <3>1, <3>2
  <2>. QED
    BY <2>1, <2>2 DEF t
<1>4. Counted'
  BY <1>1, <1>3 DEF Counted
<1>5. ASSUME NEW u \in Ends
      PROVE  CountedOff(u)'
  <2>1. Side(u)' = Side(u)
    BY DEF Side
  <2>2. CASE u # t
    <3>1. desc[u] = "released" => Side(u) = 0
      BY <1>1, <2>2 DEF CountedOff, t
    <3>. QED
      BY <1>3, <2>1, <2>2, <3>1 DEF CountedOff
  <2>3. CASE u = t /\ pc'[p] = "done"
    <3>1. desc'[t] # "released"
      BY <1>3, <2>3 DEF t, Releasing, Closing
    <3>. QED
      BY <2>3, <3>1 DEF CountedOff
  <2>4. CASE u = t /\ pc'[p] # "done"
    <3>1. cpu' = p \/ Side(t) = 0
      BY <2>4 DEF t
    <3>2. pc'[p] = "t_post" \/ Side(t) = 0
      BY <2>4 DEF t, Side
    <3>3. target'[p] = t
      BY DEF t
    <3>. QED
      BY <2>1, <2>4, <3>1, <3>2, <3>3 DEF CountedOff, Releasing
  <2>. QED
    BY <2>2, <2>3, <2>4
<1>6. Terminator(p)'
  <2>1. target'[p] = t
    BY DEF t
  <2>2. CASE pc'[p] = "done"
    BY <2>2 DEF Terminator, Releasing, Closing
  <2>3. CASE pc'[p] # "done"
    <3>1. /\ pc'[p] \in Releasing \cup Closing /\ pc'[p] # "t_eof" /\ masked'[p]
          /\ pc'[p] = "t_post" \/ (pipe.writers = 0 /\ pipe.readers = 0)
      BY <2>3
    <3>2. desc'[t] # "open"
      BY <1>3
    <3>. QED
      BY <1>2, <2>1, <3>1, <3>2 DEF Terminator, Releasing, Closing, t
  <2>. QED
    BY <2>2, <2>3
<1>7. ASSUME NEW o \in Processes \ {p}
      PROVE  Terminator(o)'
  <2>1. \A u \in Ends : desc[u] # "open" => desc'[u] # "open"
    BY <1>3
  <2>. QED
    BY <2>1, OthersStand
<1>. QED
  BY <1>4, <1>5, <1>6, <1>7 DEF CountInv

(* The steps of terminate_process.                                         *)
LEMMA TerminationCounts ==
    ASSUME PipeAssumption, CountInv, TokenInv', NEW p \in Processes, Termination(p)
    PROVE  CountInv'
<1>1. /\ Types /\ OnePlace /\ Halfway /\ OwnTokens(p) /\ tokens[p] \in Nat
      /\ pipe \in PipeRecord /\ Terminator(p) /\ Nobody \notin Processes
  BY DataTermination, PipeFacts DEF CountInv, TokenInv, PipeAssumption
<1>2. /\ {"t_eof", "t_post", "t_mutex", "t_read", "t_write", "t_reset",
          "done"} \subseteq Labels
      /\ {"mutex", "read", "write"} \subseteq Names
  BY DEF Labels, Leaving, PipeAssumption
<1>3. CASE Unregister(p)
  BY <1>3, UnregisterCounts
<1>4. CASE SetEof(p)
  <2>1. /\ Step(p, "t_eof", "t_post") /\ target' = target /\ desc' = desc
        /\ tokens' = [tokens EXCEPT ![p] = EofTokens]
    BY <1>4 DEF SetEof
  <2>2. /\ pipe'.writers = pipe.writers /\ pipe'.readers = pipe.readers
        /\ pipe'.active = pipe.active
    BY <1>1, <1>4 DEF SetEof, PipeRecord
  <2>3. Alone(p) /\ pc[p] = "t_eof" /\ pc'[p] = "t_post"
    BY <1>1, <1>2, <2>1, QuietEffect
  <2>4. masked'[p] /\ cpu' = p /\ cpu \in {Nobody, p} /\ target[p] \in Writers
    BY <1>1, <2>1, <2>3 DEF Terminator, Releasing, Step, At, KeepsCpu
  <2>5. tokens'[p] > 0 => pipe.writers = 0
    <3>1. tokens'[p] = EofTokens
      BY <1>1, <2>1 DEF Types, DataTypes
    <3>. QED
      BY <3>1 DEF EofTokens, LastWriterLeft
  <2>. QED
    BY <1>1, <2>1, <2>2, <2>3, <2>4, <2>5, LaterCounts DEF Releasing
<1>5. CASE PostEof(p)
  <2>1. /\ Post(p, "read", "t_post", "t_post") /\ tokens[p] > 0 /\ pipe' = pipe
        /\ target' = target /\ desc' = desc
    BY <1>5 DEF PostEof
  <2>2. Alone(p) /\ pc[p] = "t_post" /\ pc'[p] = "t_post"
    BY <1>1, <1>2, <2>1, PostMoves
  <2>3. /\ masked'[p] /\ cpu \in {Nobody, p} /\ target[p] \in Writers
        /\ pipe.writers = 0
    BY <1>1, <2>1, <2>2 DEF Terminator, Releasing, Post, At
  <2>4. Side(target[p]) = 0
    BY <2>3 DEF Side
  <2>. QED
    BY <1>1, <2>1, <2>2, <2>3, <2>4, LaterCounts DEF Releasing
<1>6. CASE Destroy(p)
  <2>1. /\ Step(p, "t_post", "t_mutex") /\ tokens[p] = 0 /\ tokens' = tokens
        /\ pipe' = pipe /\ target' = target /\ desc' = desc
        /\ pipe.writers = 0 /\ pipe.readers = 0
    BY <1>6 DEF Destroy, Unused, locals
  <2>2. Alone(p) /\ pc[p] = "t_post" /\ pc'[p] = "t_mutex"
    BY <1>1, <1>2, <2>1, QuietEffect
  <2>3. masked'[p] /\ cpu' = p /\ cpu \in {Nobody, p}
    BY <1>1, <2>1, <2>2 DEF Terminator, Releasing, Step, At, KeepsCpu
  <2>. QED
    BY <1>1, <2>1, <2>2, <2>3, LaterCounts DEF Releasing, Closing
<1>7. CASE CloseSems(p)
  <2>1. PICK n \in {"mutex", "read", "write"}, from \in {"t_mutex", "t_read", "t_write"},
             to \in {"t_read", "t_write", "t_reset"} : CloseSem(p, n, from, to)
    BY <1>7 DEF CloseSems
  <2>2. /\ Alone(p) /\ pc[p] = from /\ pc'[p] = to /\ masked' = masked
    BY <1>1, <1>2, <2>1, CloseEffect
  <2>3. /\ pipe' = pipe /\ target' = target /\ desc' = desc /\ tokens' = tokens
        /\ cpu \in {Nobody, p}
    BY <2>1 DEF CloseSem, At, locals
  <2>4. /\ masked'[p] /\ pipe.writers = 0 /\ pipe.readers = 0 /\ ~ tokens[p] > 0
    BY <1>1, <2>2 DEF Terminator, Closing
  <2>5. Side(target[p]) = 0
    BY <2>4 DEF Side
  <2>. QED
    BY <1>1, <2>2, <2>3, <2>4, <2>5, LaterCounts DEF Closing
<1>8. CASE DieInUse(p) \/ DieAfterReset(p)
  <2>1. PICK from \in {"t_post", "t_reset"} :
           Die(p, from) /\ (from = "t_post" => tokens[p] = 0)
    BY <1>8 DEF DieInUse, DieAfterReset
  <2>2. Alone(p) /\ pc[p] = from /\ pc'[p] = "done" /\ tokens' = tokens
    BY <1>1, <2>1, DieEffect
  <2>3. /\ desc' = [desc EXCEPT ![target[p]] = "none"] /\ target' = target
        /\ cpu \in {Nobody, p}
    BY <2>1 DEF Die, At
  <2>4. /\ pipe'.writers = pipe.writers /\ pipe'.readers = pipe.readers
        /\ pipe'.active = pipe.active \/ (pipe.writers = 0 /\ pipe.readers = 0)
    <3>1. CASE pipe' = pipe
      BY <3>1
    <3>2. CASE DieAfterReset(p)
      <4>1. pc[p] = "t_reset"
        BY <3>2 DEF DieAfterReset, Die, At
      <4>2. pipe.writers = 0 /\ pipe.readers = 0
        BY <1>1, <4>1 DEF Terminator, Closing
      <4>3. pipe'.writers = 0 /\ pipe'.readers = 0
        BY <1>1, <3>2 DEF DieAfterReset, PipeRecord
      <4>. QED
        BY <4>2, <4>3
    <3>. QED
      BY <1>8, <3>1, <3>2 DEF DieInUse
  <2>5. ~ tokens'[p] > 0
    BY <1>1, <2>1, <2>2 DEF Terminator
  <2>6. desc' = desc => desc[target[p]] = "none"
    <3>1. target[p] \in Ends
      BY <1>1, <2>2 DEF Terminator, Releasing, Closing
    <3>. QED
      BY <1>1, <2>3, <3>1 DEF Types, DataTypes
  <2>. QED
    BY <1>1, <2>2, <2>3, <2>4, <2>5, <2>6, LaterCounts DEF Releasing, Closing
<1>. QED
  BY <1>3, <1>4, <1>5, <1>6, <1>7, <1>8 DEF Termination

(* A new pipe has all its ends.                                            *)
LEMMA CountInvInit ==
    ASSUME PipeAssumption, PipeInit
    PROVE  CountInv
<1>1. OpenWriters = Writers /\ OpenReaders = Readers
  BY DEF OpenWriters, OpenReaders, PipeInit, Ends
<1>2. Counted
  BY <1>1 DEF Counted, PipeInit
<1>3. \A t \in Ends : CountedOff(t)
  BY DEF CountedOff, PipeInit
<1>4. \A p \in Processes : Terminator(p)
  <2>1. \A p \in Processes : pc[p] = "user" /\ tokens[p] = 0
    BY DEF PipeInit
  <2>. QED
    BY <2>1 DEF Terminator, Releasing, Closing
<1>. QED
  BY <1>2, <1>3, <1>4, TokenInvInit DEF CountInv

(* A pipe that a process has open for writing has writers, also when two   *)
(* processes kill the same end, one in the middle of the other.            *)
THEOREM OpenWritersAreCounted ==
    ASSUME PipeAssumption, ReturnsFromMain = FALSE
    PROVE  PipeSpec => []OpenWriterIsCounted
<1>1. PipeInit => CountInv
  BY CountInvInit
<1>2. CountInv /\ [PipeNext]_pipeVars => CountInv'
  <2> SUFFICES ASSUME CountInv, [PipeNext]_pipeVars
               PROVE  CountInv'
    OBVIOUS
  <2>1. TokenInv'
    BY TokenInvStep DEF CountInv
  <2>2. CASE UNCHANGED pipeVars
    BY <2>1, <2>2 DEF CountInv, pipeVars, Counted, OpenWriters, OpenReaders, CountedOff,
                      Side, Terminator
  <2>3. ASSUME NEW p \in Processes, ProcessStep(p)
        PROVE  CountInv'
    BY <2>1, <2>3, CallsCount, StartCounts, TerminationCounts DEF ProcessStep
  <2>4. ASSUME NEW k \in Killers, Kill(k)
        PROVE  CountInv'
    BY <2>1, <2>4, StartCounts DEF PipeAssumption
  <2>. QED
    BY <2>2, <2>3, <2>4 DEF PipeNext, Finished
<1>3. CountInv => OpenWriterIsCounted
  <2> SUFFICES ASSUME CountInv, NEW w \in Writers, desc[w] = "open"
               PROVE  pipe.active /\ pipe.writers > 0
    BY DEF OpenWriterIsCounted, pipe_has_writers
  <2>1. OpenWriters \subseteq Processes /\ w \in OpenWriters
    BY DEF OpenWriters, PipeAssumption
  <2>2. IsFiniteSet(OpenWriters)
    BY <2>1, FS_Subset DEF PipeAssumption
  <2>3. Cardinality(OpenWriters) \in Nat /\ Cardinality(OpenWriters) # 0
    BY <2>1, <2>2, FS_CardinalityType, FS_EmptySet
  <2>4. pipe.writers > 0
    BY <2>3 DEF CountInv, Counted
  <2>. QED
    BY <2>4 DEF CountInv, Counted
<1>. QED
  BY <1>1, <1>2, <1>3, PTL DEF PipeSpec
-------------------------------------------------------------------------------
(***************************************************************************)
(* The pipe implements the Channel, when nobody is killed.                 *)
(*                                                                         *)
(* ChannelInv is TokenInv and, on top of it,                               *)
(*   - EndsInv: an end is open until its process takes it back, the counts *)
(*     of the pipe are those of the open ends, the semaphores are there as *)
(*     long as there is one, so no wait is refused and no call is left     *)
(*     early, and a reader that gives up has found nothing left and no     *)
(*     writers;                                                            *)
(*   - OneLocker: with the value of "mutex" at most one process has it, or *)
(*     was given it and does not run yet;                                  *)
(*   - RoomForAll: the value of "write", the processes that were given     *)
(*     room and the bytes in the ring are together at most its size;       *)
(*   - Ring: the place of the next byte is count places after the first;   *)
(*   - Stored: the byte a writer is about to count is there.               *)
(* ChannelSteps sorts the steps of the pipe into those that the users of   *)
(* the channel see and the others; ChannelStep maps each kind.             *)
(***************************************************************************)

(* The channel *)

\* Nobody is killed, and a queue is as long as the table of processes.
ChannelAssumption ==
    /\ PipeAssumption
    /\ Killers = {}
    /\ MAX_PROCESSES \in Nat /\ Cardinality(Processes) <= MAX_PROCESSES

InQueue(p, n) == \E i \in DOMAIN Queue(n) : Queue(n)[i] = p

\* p has the mutex, or was given it and has not gone on yet.
Locks(p) ==
    \/ pc[p] \in {"w_count", "w_unlock", "r_unlock"}
    \/ /\ ~ InQueue(p, "mutex")
       /\ \/ pc[p] \in {"w_put", "r_get"}
          \/ pc[p] \in {"w_mutex", "r_mutex"} /\ half[p] = "queued"

Lockers == {p \in Processes : Locks(p)}
OneLocker == sem_table["mutex"].value + Cardinality(Lockers) <= 1

\* p has room for a byte it has not counted, or has taken one and not said so.
Reserves(p) ==
    \/ pc[p] \in {"w_put", "w_count", "r_unlock", "r_signal"}
    \/ /\ ~ InQueue(p, "write")
       /\ pc[p] = "w_mutex" \/ (pc[p] = "w_room" /\ half[p] = "queued")

Reservers == {p \in Processes : Reserves(p)}
RoomForAll ==
    sem_table["write"].value + Cardinality(Reservers) + pipe.count <= PIPE_BUFFER_SIZE

\* The ring: the cell of its i-th byte when it starts at r.
Places == 0 .. PIPE_BUFFER_SIZE - 1
Cell(r, i) == (r + i - 1) % PIPE_BUFFER_SIZE

Ring ==
    /\ pipe.readIndex \in Places
    /\ pipe.writeIndex = Cell(pipe.readIndex, pipe.count + 1)

Stored ==
    \A w \in Writers :
        pc[w] = "w_count" => pipe.buffer[pipe.writeIndex] = <<w, sent[w] + 1>>

\* A process has its end open until it takes it back itself.
EndOf(p) ==
    /\ pc[p] # "undo"
    /\ pc[p] \in Leaving \ {"exit"} => target[p] = p
    /\ desc[p] = "open" <=> pc[p] \in CallLabels \cup {"t_release"}
    /\ pc[p] \in Closing => OpenWriters = {} /\ OpenReaders = {} /\ pipe.count = 0

Opened ==
    /\ pipe.writers = Cardinality(OpenWriters)
    /\ pipe.readers = Cardinality(OpenReaders)
    /\ OpenWriters \cup OpenReaders # {} =>
          pipe.active /\ \A n \in Names : find_semaphore(n)
    /\ pipe.eof => OpenWriters = {}

\* r has found that there is nothing left, and nobody to write any more.
FoundEnd(r) ==
    \/ pc[r] \in {"r_empty"} \cup Leaving
    \/ pc[r] = "r_get" /\ half[r] = "counting"
    \/ pc[r] = "r_return" /\ left[r] = ReadSize[r]

AllTaken ==
    \A r \in Readers : FoundEnd(r) => OpenWriters = {} /\ pipe.count = 0

Sized ==
    /\ calls \in [Writers -> Seq(Nat)] /\ left \in [Ends -> Int]
    /\ \A r \in Readers : left[r] <= ReadSize[r]

EndsInv == Sized /\ Opened /\ (\A p \in Processes : EndOf(p)) /\ AllTaken
ChannelInv == TokenInv /\ EndsInv /\ OneLocker /\ RoomForAll /\ Ring /\ Stored

---------------------------------------------------------------------------
(* Nobody is refused *)

(* Without killers every process is an end.                                *)
LEMMA AllAreEnds ==
    ASSUME ChannelAssumption
    PROVE  /\ PipeAssumption /\ Processes = Ends /\ Writers \subseteq Processes
           /\ Readers \subseteq Processes /\ \A r \in Readers : r \notin Writers
           /\ PIPE_BUFFER_SIZE \in Nat \ {0}
           /\ Names = {"mutex", "read", "write"}
           /\ IsFiniteSet(Processes) /\ Cardinality(Processes) \in Nat
           /\ IsFiniteSet(Writers) /\ IsFiniteSet(Readers)
<1>1. /\ PipeAssumption /\ Processes = Ends /\ Writers \subseteq Processes
      /\ Readers \subseteq Processes /\ \A r \in Readers : r \notin Writers
      /\ PIPE_BUFFER_SIZE \in Nat \ {0} /\ Names = {"mutex", "read", "write"}
      /\ IsFiniteSet(Processes)
  BY DEF ChannelAssumption, PipeAssumption, Ends
<1>. QED
  BY <1>1, FS_Subset, FS_CardinalityType

(* There is room in a queue for one who is in none of them: the others are *)
(* fewer than the queue is long.                                           *)
LEMMA QueueIsShort ==
    ASSUME ChannelAssumption, Types, OnePlace, NEW n \in Names,
           NEW p \in Processes, Absent(p)
    PROVE  Len(Queue(n)) < MAX_PROCESSES
<1> DEFINE k == Len(Queue(n))
           Others == Processes \ {p}
<1>1. /\ k \in Nat /\ DOMAIN Queue(n) = 1 .. k /\ Queue(n) \in Seq(Processes)
      /\ \A i \in 1 .. k : Queue(n)[i] \in Processes
  BY QueueFacts
<1>2. \A i \in 1 .. k : Queue(n)[i] # p
  BY <1>1 DEF Absent
<1>3. IsFiniteSet(Others) /\ Cardinality(Others) = Cardinality(Processes) - 1
      /\ Cardinality(Processes) \in Nat
  BY AllAreEnds, FS_RemoveElement
<1>4. Queue(n) \in Injection(1 .. k, Others)
  <2>1. Queue(n) \in [1 .. k -> Others]
    BY <1>1, <1>2
  <2>2. \A i, j \in 1 .. k : Queue(n)[i] = Queue(n)[j] => i = j
    BY <1>1 DEF OnePlace
  <2>. QED
    BY <2>1, <2>2 DEF Injection, IsInjective
<1>5. IsFiniteSet(1 .. k) /\ Cardinality(1 .. k) = k
  <2>1. 1 \in Int /\ k \in Int /\ (1 > k => k = 0) /\ k - 1 + 1 = k
    BY <1>1
  <2>2. Cardinality(1 .. k) = IF 1 > k THEN 0 ELSE k - 1 + 1
    BY <2>1, FS_Interval, Zenon
  <2>3. IsFiniteSet(1 .. k)
    BY <2>1, FS_Interval, Zenon
  <2>. QED
    BY <2>1, <2>2, <2>3
<1>6. Cardinality(1 .. k) <= Cardinality(Others)
  BY <1>3, <1>4, <1>5, FS_Injection
<1>. QED
  BY <1>1, <1>3, <1>5, <1>6 DEF ChannelAssumption

(* A process in a call has its end open, and the pipe and its semaphores   *)
(* are there.                                                              *)
LEMMA PipeIsThere ==
    ASSUME ChannelAssumption, EndsInv, NEW p \in Processes,
           pc[p] \in CallLabels \cup {"t_release"}
    PROVE  /\ desc[p] = "open" /\ pipe.active /\ \A n \in Names : find_semaphore(n)
           /\ p \in Writers => p \in OpenWriters
           /\ p \in Readers => p \in OpenReaders
<1>1. desc[p] = "open" /\ p \in Ends
  BY AllAreEnds DEF EndsInv, EndOf
<1>2. p \in OpenWriters \cup OpenReaders
  BY <1>1 DEF OpenWriters, OpenReaders, Ends
<1>. QED
  BY <1>1, <1>2 DEF EndsInv, Opened, OpenWriters, OpenReaders

(* No wait in a call fails.                                                *)
LEMMA NoWaitFails ==
    ASSUME ChannelAssumption, Types, OnePlace, EndsInv, NEW p \in Processes,
           NEW n \in Names, NEW from \in CallLabels, NEW to, Fail(p, n, from, to)
    PROVE  FALSE
<1>1. pc[p] = from /\ state[p] = "READY" /\ half[p] # "queued"
  BY DEF Fail, Step, At
<1>2. find_semaphore(n)
  BY <1>1, PipeIsThere
<1>3. Absent(p)
  BY <1>1, RunnerIsAbsent
<1>4. Len(Queue(n)) < MAX_PROCESSES /\ Len(Queue(n)) \in Nat
  BY <1>3, QueueIsShort, QueueFacts
<1>. QED
  BY <1>2, <1>4 DEF Fail, Refused, Queue, ChannelAssumption

---------------------------------------------------------------------------
(* The tokens of the mutex and of the room *)

(* Who is awake and not between the halves of a wait is in no queue.       *)
LEMMA RunnerHasLeft ==
    ASSUME Types, OnePlace, NEW p \in Processes, state[p] = "READY", NEW n \in Names,
           ~ (half[p] = "queued" /\ Place(p, n))
    PROVE  ~ InQueue(p, n)
  BY DEF OnePlace, InQueue, Place

\* Who holds a token of n after the step of p and was not given one by it held
\* one before.
Keeps(C, D, p, n) ==
    \A o \in Processes \ {p} : o \in D /\ (InQueue(o, n) => InQueue(o, n)') => o \in C

(* A wait for a token of n that p then holds.                              *)
LEMMA WaitTokens ==
    ASSUME ChannelAssumption, Types, OnePlace, NEW p \in Processes, NEW n \in Names,
           NEW from \in Labels, NEW to \in Labels, Wait(p, n, from, to),
           NEW C \in SUBSET Processes, NEW D \in SUBSET Processes,
           Keeps(C, D, p, n), p \in D => ~ InQueue(p, n)',
           half[p] = "queued" /\ ~ InQueue(p, n) => p \in C
    PROVE  /\ sem_table'[n].value + Cardinality(D) <= sem_table[n].value + Cardinality(C)
           /\ Cardinality(C) \in Nat /\ Cardinality(D) \in Nat
           /\ sem_table'[n].value \in Nat
<1>0. /\ IsFiniteSet(C) /\ Cardinality(C) \in Nat
      /\ IsFiniteSet(D) /\ Cardinality(D) \in Nat
  BY AllAreEnds, FS_Subset, FS_CardinalityType
<1>1. sem_table[n].value \in Nat /\ sem_table'[n].value \in Nat
  <2>1. OnlyAt(n)
    BY WaitEffect
  <2>. QED
    BY <2>1, EntryType DEF OnlyAt, SemRecord
<1>2. CASE half[p] = "queued" /\ sem_table' = sem_table
  <2>1. D \subseteq C
    BY <1>2 DEF Keeps, InQueue, Queue
  <2>. QED
    BY <1>0, <1>1, <1>2, <2>1, Sizes
<1>3. CASE /\ sem_table[n].value > 0 /\ Queue(n)' = Queue(n)
           /\ sem_table'[n].value = sem_table[n].value - 1
  <2>1. D \subseteq C \cup {p}
    BY <1>3 DEF Keeps, InQueue
  <2>2. Cardinality(D) <= Cardinality(C) + 1
    BY <1>0, <2>1, Sizes
  <2>. QED
    BY <1>0, <1>1, <1>3, <2>2
<1>4. CASE SameValue(n) /\ Queue(n)' = Append(Queue(n), p)
  <2>1. \A o \in Processes : InQueue(o, n) \/ o = p => InQueue(o, n)'
    <3>1. /\ Queue(n) \in Seq(Processes) /\ Len(Queue(n)) \in Nat
          /\ DOMAIN Queue(n) = 1 .. Len(Queue(n))
      BY QueueFacts
    <3>2. /\ DOMAIN Append(Queue(n), p) = 1 .. Len(Queue(n)) + 1
          /\ \A i \in 1 .. Len(Queue(n)) : Append(Queue(n), p)[i] = Queue(n)[i]
          /\ Append(Queue(n), p)[Len(Queue(n)) + 1] = p
      BY <3>1, AppendProperties, LenProperties
    <3>3. /\ Len(Queue(n)) + 1 \in 1 .. Len(Queue(n)) + 1
          /\ 1 .. Len(Queue(n)) \subseteq 1 .. Len(Queue(n)) + 1
      BY <3>1
    <3>. QED
      BY <1>4, <3>1, <3>2, <3>3 DEF InQueue
  <2>2. D \subseteq C
    BY <2>1 DEF Keeps
  <2>3. Cardinality(D) <= Cardinality(C)
    BY <1>0, <2>2, Sizes
  <2>. QED
    BY <1>0, <1>1, <1>4, <2>3 DEF SameValue
<1>. QED
  BY <1>2, <1>3, <1>4, WaitEffect

(* A post of a token of n by p, who held it.                               *)
LEMMA PostTokens ==
    ASSUME ChannelAssumption, Types, OnePlace, NEW p \in Processes, NEW n \in Names,
           NEW from \in Labels, NEW to \in Labels, Post(p, n, from, to),
           NEW C \in SUBSET Processes, NEW D \in SUBSET Processes,
           Keeps(C, D, p, n), p \in C, pc'[p] = to => p \notin D
    PROVE  /\ sem_table'[n].value + Cardinality(D) <= sem_table[n].value + Cardinality(C)
           /\ Cardinality(C) \in Nat /\ Cardinality(D) \in Nat
           /\ sem_table'[n].value \in Nat
<1>0. /\ IsFiniteSet(C) /\ Cardinality(C) \in Nat
      /\ IsFiniteSet(D) /\ Cardinality(D) \in Nat
  BY AllAreEnds, FS_Subset, FS_CardinalityType
<1>1. sem_table[n].value \in Nat /\ sem_table'[n].value \in Nat
  <2>1. OnlyAt(n)
    BY PostEffect
  <2>. QED
    BY <2>1, EntryType DEF OnlyAt, SemRecord
<1>2. CASE sem_table' = sem_table
  <2>1. D \subseteq C
    BY <1>2 DEF Keeps, InQueue, Queue
  <2>. QED
    BY <1>0, <1>1, <1>2, <2>1, Sizes
<1>3. CASE /\ pc'[p] = to /\ Queue(n)' = Queue(n)
           /\ sem_table'[n].value = sem_table[n].value + 1
  <2>1. D \subseteq C \ {p}
    BY <1>3 DEF Keeps, InQueue
  <2>2. Cardinality(D) <= Cardinality(C) - 1
    BY <1>0, <2>1, Sizes
  <2>. QED
    BY <1>0, <1>1, <1>3, <2>2
<1>4. CASE /\ pc'[p] = to /\ SameValue(n) /\ Queue(n) # <<>>
           /\ Queue(n)' = Tail(Queue(n))
  <2>1. PICK h : h = Head(Queue(n))
    OBVIOUS
  <2>2. \A o \in Processes \ {h} : InQueue(o, n) => InQueue(o, n)'
    <3>1. /\ Queue(n) \in Seq(Processes) /\ Len(Queue(n)) \in Nat
          /\ DOMAIN Queue(n) = 1 .. Len(Queue(n))
      BY QueueFacts
    <3>2. /\ DOMAIN Tail(Queue(n)) = 1 .. Len(Queue(n)) - 1
          /\ \A i \in 1 .. Len(Queue(n)) - 1 : Tail(Queue(n))[i] = Queue(n)[i + 1]
          /\ h = Queue(n)[1]
      BY <1>4, <2>1, <3>1, HeadTailProperties, LenProperties
    <3>3. ASSUME NEW o \in Processes \ {h}, NEW i \in DOMAIN Queue(n), Queue(n)[i] = o
          PROVE  InQueue(o, n)'
      <4>1. i # 1 /\ i \in 1 .. Len(Queue(n))
        BY <3>1, <3>2, <3>3
      <4>2. i - 1 \in 1 .. Len(Queue(n)) - 1 /\ (i - 1) + 1 = i
        BY <3>1, <4>1
      <4>. QED
        BY <1>4, <3>2, <3>3, <4>2 DEF InQueue
    <3>. QED
      BY <3>3 DEF InQueue
  <2>3. D \subseteq (C \ {p}) \cup {h}
    BY <1>4, <2>2 DEF Keeps
  <2>4. Cardinality(D) <= Cardinality(C)
    BY <1>0, <2>3, Sizes
  <2>. QED
    BY <1>0, <1>1, <1>4, <2>4 DEF SameValue
<1>. QED
  BY <1>2, <1>3, <1>4, PostEffect

(* A step in which nobody is given a token of n.                           *)
LEMMA NoToken ==
    ASSUME ChannelAssumption, Types, NEW p \in Processes, NEW n \in Names,
           sem_table'[n].value \in Nat, sem_table'[n].value <= sem_table[n].value,
           Queue(n)' = Queue(n),
           NEW C \in SUBSET Processes, NEW D \in SUBSET Processes,
           Keeps(C, D, p, n), p \in D => p \in C
    PROVE  /\ sem_table'[n].value + Cardinality(D) <= sem_table[n].value + Cardinality(C)
           /\ Cardinality(C) \in Nat /\ Cardinality(D) \in Nat
<1>0. /\ IsFiniteSet(C) /\ Cardinality(C) \in Nat
      /\ IsFiniteSet(D) /\ Cardinality(D) \in Nat
  BY AllAreEnds, FS_Subset, FS_CardinalityType
<1>1. D \subseteq C
  BY DEF Keeps, InQueue
<1>2. Cardinality(D) <= Cardinality(C)
  BY <1>0, <1>1, Sizes
<1>3. sem_table[n].value \in Nat
  BY EntryType
<1>. QED
  BY <1>0, <1>2, <1>3

(* What does not move keeps what it holds.                                 *)
LEMMA HoldersKeep ==
    ASSUME ChannelAssumption, NEW p \in Processes, Alone(p)
    PROVE  /\ Keeps(Lockers, Lockers', p, "mutex")
           /\ Keeps(Reservers, Reservers', p, "write")
           /\ Lockers \in SUBSET Processes /\ Lockers' \in SUBSET Processes
           /\ Reservers \in SUBSET Processes /\ Reservers' \in SUBSET Processes
<1>1. ASSUME NEW o \in Processes \ {p}, Locks(o)',
             InQueue(o, "mutex") => InQueue(o, "mutex")'
      PROVE  Locks(o)
  BY <1>1 DEF Alone, Locks
<1>2. ASSUME NEW o \in Processes \ {p}, Reserves(o)',
             InQueue(o, "write") => InQueue(o, "write")'
      PROVE  Reserves(o)
  BY <1>2 DEF Alone, Reserves
<1>. QED
  BY <1>1, <1>2 DEF Keeps, Lockers, Reservers

Held == OneLocker /\ RoomForAll

(* From the tokens to the two sums.                                        *)
LEMMA HeldSums ==
    ASSUME ChannelAssumption, Types, Held, pipe'.count = pipe.count,
           /\ sem_table'["mutex"].value + Cardinality(Lockers')
                 <= sem_table["mutex"].value + Cardinality(Lockers)
           /\ Cardinality(Lockers) \in Nat /\ Cardinality(Lockers') \in Nat
           /\ sem_table'["mutex"].value \in Nat,
           /\ sem_table'["write"].value + Cardinality(Reservers')
                 <= sem_table["write"].value + Cardinality(Reservers)
           /\ Cardinality(Reservers) \in Nat /\ Cardinality(Reservers') \in Nat
           /\ sem_table'["write"].value \in Nat
    PROVE  Held'
<1>1. pipe.count \in Nat /\ PIPE_BUFFER_SIZE \in Nat /\ {"mutex", "write"} \subseteq Names
  BY AllAreEnds DEF Types, DataTypes, PipeRecord
<1>2. sem_table["mutex"].value \in Nat /\ sem_table["write"].value \in Nat
  BY <1>1, EntryType
<1>. QED
  BY <1>1, <1>2 DEF Held, OneLocker, RoomForAll

(* A step without a semaphore.                                             *)
LEMMA HeldQuiet ==
    ASSUME ChannelAssumption, Types, Held, NEW p \in Processes, Alone(p),
           sem_table' = sem_table, pipe'.count = pipe.count,
           Locks(p)' => Locks(p), Reserves(p)' => Reserves(p)
    PROVE  Held'
<1>1. /\ "mutex" \in Names /\ "write" \in Names
      /\ p \in Lockers' => p \in Lockers
      /\ p \in Reservers' => p \in Reservers
  BY AllAreEnds DEF Lockers, Reservers
<1>2. /\ Queue("mutex")' = Queue("mutex") /\ Queue("write")' = Queue("write")
      /\ sem_table'["mutex"].value = sem_table["mutex"].value
      /\ sem_table'["write"].value = sem_table["write"].value
      /\ sem_table["mutex"].value \in Nat /\ sem_table["write"].value \in Nat
  BY <1>1, EntryType DEF Queue
<1>3. /\ sem_table'["mutex"].value + Cardinality(Lockers')
            <= sem_table["mutex"].value + Cardinality(Lockers)
      /\ Cardinality(Lockers) \in Nat /\ Cardinality(Lockers') \in Nat
  BY <1>1, <1>2, HoldersKeep, NoToken
<1>4. /\ sem_table'["write"].value + Cardinality(Reservers')
            <= sem_table["write"].value + Cardinality(Reservers)
      /\ Cardinality(Reservers) \in Nat /\ Cardinality(Reservers') \in Nat
  BY <1>1, <1>2, HoldersKeep, NoToken
<1>. QED
  BY <1>2, <1>3, <1>4, HeldSums

(* A wait.                                                                 *)
LEMMA HeldWait ==
    ASSUME ChannelAssumption, Types, OnePlace, Halfway, Held, NEW p \in Processes,
           NEW n \in Names, NEW from \in Labels, NEW to \in Labels,
           WaitPoint(n, from, to), Wait(p, n, from, to), pipe' = pipe
    PROVE  Held'
<1>1. /\ "mutex" \in Names /\ "write" \in Names
      /\ Alone(p) /\ OnlyAt(n) /\ pc[p] = from /\ state[p] = "READY"
      /\ pc'[p] \in {from, to}
  BY AllAreEnds, WaitEffect
<1>2. /\ half[p] # "counting" /\ half[p] \in {"no", "queued", "counting"}
      /\ half'[p] \in {"no", "queued"} /\ (half'[p] = "queued" => pc'[p] = from)
  <2>1. /\ half[p] # "counting" /\ half[p] \in {"no", "queued", "counting"}
    BY <1>1 DEF Halfway, WaitPoint, Types, CallTypes
  <2>. QED
    BY <2>1, WaitEffect
<1>3. /\ sem_table'["mutex"].value \in Nat /\ sem_table'["write"].value \in Nat
      /\ sem_table["mutex"].value \in Nat /\ sem_table["write"].value \in Nat
  BY <1>1, EntryType DEF OnlyAt, SemRecord
<1>4. InQueue(p, n)' => ~ (n = "mutex" /\ Locks(p)') /\ ~ (n = "write" /\ Reserves(p)')
  BY <1>1 DEF WaitPoint, Locks, Reserves
<1>5. ~ InQueue(p, "write") \/ n = "write"
  BY <1>1, RunnerHasLeft DEF Place, WaitPoint
<1>6. /\ sem_table'["mutex"].value + Cardinality(Lockers')
            <= sem_table["mutex"].value + Cardinality(Lockers)
      /\ Cardinality(Lockers) \in Nat /\ Cardinality(Lockers') \in Nat
  <2>1. CASE n = "mutex"
    <3>1. half[p] = "queued" /\ ~ InQueue(p, n) => p \in Lockers
      BY <1>1, <2>1 DEF WaitPoint, Lockers, Locks
    <3>2. p \in Lockers' => ~ InQueue(p, n)'
      BY <1>4, <2>1 DEF Lockers
    <3>. QED
      BY <2>1, <3>1, <3>2, <1>1, HoldersKeep, WaitTokens
  <2>2. CASE n # "mutex"
    <3>1. ~ Locks(p)'
      BY <1>1, <1>2, <2>2 DEF WaitPoint, Locks
    <3>2. /\ Queue("mutex")' = Queue("mutex")
          /\ sem_table'["mutex"].value = sem_table["mutex"].value
      BY <1>1, <2>2 DEF OnlyAt, Queue
    <3>3. p \in Lockers' => p \in Lockers
      BY <3>1 DEF Lockers
    <3>4. sem_table'["mutex"].value <= sem_table["mutex"].value
      BY <1>3, <3>2
    <3>. QED
      BY <1>1, <1>3, <3>2, <3>3, <3>4, HoldersKeep, NoToken
  <2>. QED
    BY <2>1, <2>2
<1>7. /\ sem_table'["write"].value + Cardinality(Reservers')
            <= sem_table["write"].value + Cardinality(Reservers)
      /\ Cardinality(Reservers) \in Nat /\ Cardinality(Reservers') \in Nat
  <2>1. CASE n = "write"
    <3>1. half[p] = "queued" /\ ~ InQueue(p, n) => p \in Reservers
      BY <1>1, <2>1 DEF WaitPoint, Reservers, Reserves
    <3>2. p \in Reservers' => ~ InQueue(p, n)'
      BY <1>4, <2>1 DEF Reservers
    <3>. QED
      BY <2>1, <3>1, <3>2, <1>1, HoldersKeep, WaitTokens
  <2>2. CASE n # "write"
    <3>1. Reserves(p)' => Reserves(p)
      BY <1>1, <1>2, <1>5, <2>2 DEF WaitPoint, Reserves
    <3>2. /\ Queue("write")' = Queue("write")
          /\ sem_table'["write"].value = sem_table["write"].value
      BY <1>1, <2>2 DEF OnlyAt, Queue
    <3>3. p \in Reservers' => p \in Reservers
      BY <3>1 DEF Reservers
    <3>4. sem_table'["write"].value <= sem_table["write"].value
      BY <1>3, <3>2
    <3>. QED
      BY <1>1, <1>3, <3>2, <3>3, <3>4, HoldersKeep, NoToken
  <2>. QED
    BY <2>1, <2>2
<1>. QED
  BY <1>3, <1>6, <1>7, HeldSums

\* The posts of pipe_write, pipe_read and terminate_process: of n at from.
PostPoint(n, from, to) ==
    \/ n = "mutex" /\ from = "w_unlock" /\ to = "w_signal"
    \/ n = "read" /\ from = "w_signal" /\ to \in {"w_return", "w_room"}
    \/ n = "mutex" /\ from = "r_unlock" /\ to = "r_signal"
    \/ n = "write" /\ from = "r_signal" /\ to \in {"r_return", "r_check"}
    \/ n = "mutex" /\ from = "r_get" /\ to = "r_empty"
    \/ n = "read" /\ from = "t_post" /\ to = "t_post"

(* A post.                                                                 *)
LEMMA HeldPost ==
    ASSUME ChannelAssumption, Types, OnePlace, Halfway, Held, NEW p \in Processes,
           NEW n \in Names, NEW from \in Labels, NEW to \in Labels,
           PostPoint(n, from, to), Post(p, n, from, to), pipe' = pipe
    PROVE  Held'
<1>1. /\ "mutex" \in Names /\ "write" \in Names
      /\ Alone(p) /\ OnlyAt(n) /\ pc[p] = from /\ state[p] = "READY"
      /\ pc'[p] \in {from, to}
  <2>1. pc'[p] \in {from, to}
    BY PostMoves
  <2>2. Alone(p) /\ OnlyAt(n) /\ pc[p] = from /\ state[p] = "READY"
    BY PostEffect
  <2>. QED
    BY <2>1, <2>2, AllAreEnds
<1>2. half[p] # "queued" /\ half'[p] # "queued"
  <2>1. half[p] # "queued"
    BY <1>1 DEF Halfway, PostPoint
  <2>. QED
    BY <2>1, PostEffect
<1>3. /\ sem_table'["mutex"].value \in Nat /\ sem_table'["write"].value \in Nat
      /\ sem_table["mutex"].value \in Nat /\ sem_table["write"].value \in Nat
  BY <1>1, EntryType DEF OnlyAt, SemRecord
<1>4. ~ InQueue(p, "mutex") /\ ~ InQueue(p, "write")
  BY <1>1, <1>2, RunnerHasLeft
<1>6. /\ sem_table'["mutex"].value + Cardinality(Lockers')
            <= sem_table["mutex"].value + Cardinality(Lockers)
      /\ Cardinality(Lockers) \in Nat /\ Cardinality(Lockers') \in Nat
  <2>1. CASE n = "mutex"
    <3>1. p \in Lockers
      BY <1>1, <1>4, <2>1 DEF PostPoint, Lockers, Locks
    <3>2. pc'[p] = to => p \notin Lockers'
      BY <2>1 DEF PostPoint, Lockers, Locks
    <3>. QED
      BY <2>1, <3>1, <3>2, <1>1, HoldersKeep, PostTokens
  <2>2. CASE n # "mutex"
    <3>1. ~ Locks(p)'
      BY <1>1, <2>2 DEF PostPoint, Locks
    <3>2. /\ Queue("mutex")' = Queue("mutex")
          /\ sem_table'["mutex"].value = sem_table["mutex"].value
      BY <1>1, <2>2 DEF OnlyAt, Queue
    <3>3. p \in Lockers' => p \in Lockers
      BY <3>1 DEF Lockers
    <3>4. sem_table'["mutex"].value <= sem_table["mutex"].value
      BY <1>3, <3>2
    <3>. QED
      BY <1>1, <1>3, <3>2, <3>3, <3>4, HoldersKeep, NoToken
  <2>. QED
    BY <2>1, <2>2
<1>7. /\ sem_table'["write"].value + Cardinality(Reservers')
            <= sem_table["write"].value + Cardinality(Reservers)
      /\ Cardinality(Reservers) \in Nat /\ Cardinality(Reservers') \in Nat
  <2>1. CASE n = "write"
    <3>1. p \in Reservers
      BY <1>1, <2>1 DEF PostPoint, Reservers, Reserves
    <3>2. pc'[p] = to => p \notin Reservers'
      BY <2>1 DEF PostPoint, Reservers, Reserves
    <3>. QED
      BY <2>1, <3>1, <3>2, <1>1, HoldersKeep, PostTokens
  <2>2. CASE n # "write"
    <3>1. Reserves(p)' => Reserves(p)
      BY <1>1, <1>2, <2>2 DEF PostPoint, Reserves
    <3>2. /\ Queue("write")' = Queue("write")
          /\ sem_table'["write"].value = sem_table["write"].value
      BY <1>1, <2>2 DEF OnlyAt, Queue
    <3>3. p \in Reservers' => p \in Reservers
      BY <3>1 DEF Reservers
    <3>4. sem_table'["write"].value <= sem_table["write"].value
      BY <1>3, <3>2
    <3>. QED
      BY <1>1, <1>3, <3>2, <3>3, <3>4, HoldersKeep, NoToken
  <2>. QED
    BY <2>1, <2>2
<1>. QED
  BY <1>3, <1>6, <1>7, HeldSums

(* The byte of a writer is counted: it had room for it.                    *)
LEMMA HeldCount ==
    ASSUME ChannelAssumption, Types, OnePlace, Held, NEW p \in Processes,
           Step(p, "w_count", "w_unlock"), pipe'.count = pipe.count + 1
    PROVE  Held'
<1>1. /\ Alone(p) /\ sem_table' = sem_table /\ pc[p] = "w_count" /\ pc'[p] = "w_unlock"
  <2>1. "w_count" \in Labels /\ "w_unlock" \in Labels
    BY DEF Labels
  <2>. QED
    BY <2>1, QuietEffect
<1>2. Locks(p) /\ Reserves(p) /\ ~ Reserves(p)'
  BY <1>1 DEF Locks, Reserves
<1>3. Lockers' \subseteq Lockers
  BY <1>1, <1>2, HoldersKeep DEF Keeps, Lockers, InQueue, Queue
<1>4. Reservers' \subseteq Reservers \ {p} /\ p \in Reservers
  BY <1>1, <1>2, HoldersKeep DEF Keeps, Reservers, InQueue, Queue
<1>5. IsFiniteSet(Lockers) /\ IsFiniteSet(Reservers)
  BY AllAreEnds, FS_Subset DEF Lockers, Reservers
<1>6. /\ Cardinality(Lockers') <= Cardinality(Lockers)
      /\ Cardinality(Lockers) \in Nat /\ Cardinality(Lockers') \in Nat
  BY <1>3, <1>5, Sizes
<1>7. /\ Cardinality(Reservers') <= Cardinality(Reservers) - 1
      /\ Cardinality(Reservers) \in Nat /\ Cardinality(Reservers') \in Nat
  BY <1>4, <1>5, Sizes
<1>8. pipe.count \in Nat /\ PIPE_BUFFER_SIZE \in Nat /\ {"mutex", "write"} \subseteq Names
  BY AllAreEnds DEF Types, DataTypes, PipeRecord
<1>9. sem_table["mutex"].value \in Nat /\ sem_table["write"].value \in Nat
  BY <1>8, EntryType
<1>. QED
  BY <1>1, <1>6, <1>7, <1>8, <1>9 DEF Held, OneLocker, RoomForAll

(* A reader takes a byte: its room is to be given back.                    *)
LEMMA HeldGet ==
    ASSUME ChannelAssumption, Types, OnePlace, Held, NEW p \in Processes,
           Step(p, "r_get", "r_unlock"), half[p] = "no", pipe.count > 0,
           pipe'.count = pipe.count - 1
    PROVE  Held'
<1>1. /\ Alone(p) /\ sem_table' = sem_table /\ pc[p] = "r_get" /\ pc'[p] = "r_unlock"
      /\ state[p] = "READY"
  <2>1. "r_get" \in Labels /\ "r_unlock" \in Labels
    BY DEF Labels
  <2>. QED
    BY <2>1, QuietEffect
<1>2. Locks(p)
  <2>1. ~ InQueue(p, "mutex")
    BY <1>1, AllAreEnds, RunnerHasLeft
  <2>. QED
    BY <1>1, <2>1 DEF Locks
<1>3. Lockers' \subseteq Lockers
  BY <1>1, <1>2, HoldersKeep DEF Keeps, Lockers, InQueue, Queue
<1>4. Reservers' \subseteq Reservers \cup {p}
  BY <1>1, HoldersKeep DEF Keeps, Reservers, InQueue, Queue
<1>5. IsFiniteSet(Lockers) /\ IsFiniteSet(Reservers)
  BY AllAreEnds, FS_Subset DEF Lockers, Reservers
<1>6. /\ Cardinality(Lockers') <= Cardinality(Lockers)
      /\ Cardinality(Lockers) \in Nat /\ Cardinality(Lockers') \in Nat
  BY <1>3, <1>5, Sizes
<1>7. /\ Cardinality(Reservers') <= Cardinality(Reservers) + 1
      /\ Cardinality(Reservers) \in Nat /\ Cardinality(Reservers') \in Nat
  BY <1>4, <1>5, Sizes
<1>8. pipe.count \in Nat /\ PIPE_BUFFER_SIZE \in Nat /\ {"mutex", "write"} \subseteq Names
  BY AllAreEnds DEF Types, DataTypes, PipeRecord
<1>9. sem_table["mutex"].value \in Nat /\ sem_table["write"].value \in Nat
  BY <1>8, EntryType
<1>. QED
  BY <1>1, <1>6, <1>7, <1>8, <1>9 DEF Held, OneLocker, RoomForAll

(* A close, when nobody is in a call.                                      *)
LEMMA HeldClose ==
    ASSUME ChannelAssumption, Types, Held, NEW p \in Processes, NEW n \in Names,
           NEW from \in Labels, NEW to \in Leaving,
           CloseSem(p, n, from, to), pipe'.count = pipe.count,
           \A o \in Processes : pc[o] \notin CallLabels
    PROVE  Held'
<1>1. /\ Alone(p) /\ OnlyAt(n) /\ pc'[p] = to /\ "mutex" \in Names /\ "write" \in Names
  <2>1. to \in Labels
    BY DEF Labels
  <2>. QED
    BY <2>1, CloseEffect, AllAreEnds
<1>2. \A o \in Processes : pc'[o] \notin CallLabels \ {"exit"}
  BY <1>1 DEF Alone, Leaving, CallLabels
<1>3. Lockers' = {} /\ Reservers' = {}
  BY <1>2 DEF Lockers, Reservers, Locks, Reserves, CallLabels
<1>4. \A m \in Names : /\ sem_table[m].value \in Nat /\ sem_table'[m].value \in Nat
                       /\ sem_table'[m].value <= sem_table[m].value
  <2>1. \A m \in Names : sem_table[m].value \in Nat /\ sem_table'[m].value \in Nat
    BY <1>1, EntryType DEF OnlyAt, SemRecord
  <2>2. sem_table'[n].value = sem_table[n].value \/ sem_table'[n].value = 0
    <3>1. CASE UNCHANGED semVars
      BY <3>1 DEF semVars
    <3>2. CASE sem_table' = [sem_table EXCEPT ![n] = SEM_FREE]
      BY <3>2 DEF Types, CallTypes, SEM_FREE
    <3>3. CASE sem_table' = [sem_table EXCEPT ![n].users = @ - 1]
      BY <3>3 DEF Types, CallTypes, SemRecord
    <3>. QED
      BY <3>1, <3>2, <3>3 DEF CloseSem, sem_close
  <2>. QED
    BY <1>1, <2>1, <2>2 DEF OnlyAt
<1>5. /\ Cardinality(Lockers') = 0 /\ Cardinality(Reservers') = 0
      /\ Cardinality(Lockers) \in Nat /\ Cardinality(Reservers) \in Nat
  <2>1. IsFiniteSet(Lockers) /\ IsFiniteSet(Reservers)
    BY AllAreEnds, FS_Subset DEF Lockers, Reservers
  <2>. QED
    BY <1>3, <2>1, FS_EmptySet, FS_CardinalityType
<1>6. pipe.count \in Nat /\ PIPE_BUFFER_SIZE \in Nat
  BY AllAreEnds DEF Types, DataTypes, PipeRecord
<1>7. /\ sem_table["mutex"].value \in Nat /\ sem_table'["mutex"].value \in Nat
      /\ sem_table'["mutex"].value <= sem_table["mutex"].value
      /\ sem_table["write"].value \in Nat /\ sem_table'["write"].value \in Nat
      /\ sem_table'["write"].value <= sem_table["write"].value
  BY <1>1, <1>4
<1>. QED
  BY <1>5, <1>6, <1>7 DEF Held, OneLocker, RoomForAll

---------------------------------------------------------------------------
(* The ends *)

(* A wait, a post and a step without a semaphore close none.               *)
LEMMA StillUsed ==
    ASSUME Types, NEW p \in Processes, NEW from, NEW to, InCall(p, from, to)
    PROVE  \A m \in Names : find_semaphore(m)' = find_semaphore(m)
<1>1. CASE UNCHANGED sem_table
  BY <1>1 DEF find_semaphore
<1>2. ASSUME NEW n \in Names,
             \/ sem_table' = [sem_table EXCEPT ![n].value = @ - 1]
             \/ sem_table' = [sem_table EXCEPT ![n].value = @ + 1]
             \/ sem_table' = [sem_table EXCEPT ![n].waiting_processes = Append(@, p)]
             \/ sem_table' = [sem_table EXCEPT ![n].waiting_processes = Tail(@)]
      PROVE  \A m \in Names : find_semaphore(m)' = find_semaphore(m)
  <2>1. sem_table[n] \in SemRecord /\ sem_table \in [Names -> SemRecord]
    BY DEF Types, CallTypes
  <2>2. PICK v, q :
           \/ sem_table' = [sem_table EXCEPT ![n].value = v]
           \/ sem_table' = [sem_table EXCEPT ![n].waiting_processes = q]
    BY <1>2
  <2>3. sem_table'[n].used = sem_table[n].used
    BY <2>1, <2>2 DEF SemRecord
  <2>4. \A m \in Names \ {n} : sem_table'[m] = sem_table[m]
    BY <2>1, <2>2
  <2>. QED
    BY <2>3, <2>4 DEF find_semaphore
<1>3. ASSUME NEW n \in Names, Wait(p, n, from, to)
      PROVE  \A m \in Names : find_semaphore(m)' = find_semaphore(m)
  <2>1. \/ sem_table' = sem_table
        \/ sem_table' = [sem_table EXCEPT ![n].value = @ - 1]
        \/ sem_table' = [sem_table EXCEPT ![n].waiting_processes = Append(@, p)]
    BY <1>3 DEF Wait, sem_wait, semVars
  <2>. QED
    BY <1>1, <1>2, <2>1
<1>4. ASSUME NEW n \in Names, Post(p, n, from, to)
      PROVE  \A m \in Names : find_semaphore(m)' = find_semaphore(m)
  <2>1. \/ sem_table' = sem_table
        \/ sem_table' = [sem_table EXCEPT ![n].value = @ + 1]
        \/ sem_table' = [sem_table EXCEPT ![n].waiting_processes = Tail(@)]
    BY <1>4 DEF Post, sem_post, semVars
  <2>. QED
    BY <1>1, <1>2, <2>1
<1>. QED
  BY <1>1, <1>3, <1>4 DEF InCall, Step, Enter, Leave, semVars

(* What one step may do to the ends: p stays in its call, and finds the    *)
(* end only when it is there.                                              *)
LEMMA EndsInCall ==
    ASSUME ChannelAssumption, Types, EndsInv, NEW p \in Processes, Alone(p),
           NEW from \in CallLabels, NEW to \in CallLabels \ {"undo"},
           InCall(p, from, to), pc[p] = from, pc'[p] \in {from, to},
           desc' = desc, target' = target,
           pipe'.active = pipe.active, pipe'.readers = pipe.readers,
           pipe'.writers = pipe.writers, pipe'.eof = pipe.eof,
           OpenWriters = {} /\ pipe.count = 0 => pipe'.count = 0,
           Sized', \A o \in Readers \ {p} : left'[o] = left[o],
           p \in Readers /\ FoundEnd(p)' => OpenWriters = {} /\ pipe.count = 0
    PROVE  EndsInv'
<1>1. OpenWriters' = OpenWriters /\ OpenReaders' = OpenReaders
  BY DEF OpenWriters, OpenReaders
<1>2. Opened'
  <2>1. \A m \in Names : find_semaphore(m)' = find_semaphore(m)
    BY StillUsed
  <2>. QED
    BY <1>1, <2>1 DEF EndsInv, Opened
<1>3. ASSUME NEW o \in Processes
      PROVE  EndOf(o)'
  <2>1. CASE o = p
    <3>1. pc[p] \in CallLabels \ {"undo"}
      BY DEF EndsInv, EndOf
    <3>2. pc'[p] \in CallLabels \ {"undo"}
      BY <3>1
    <3>3. desc'[p] = "open"
      BY PipeIsThere
    <3>. QED
      BY <2>1, <3>2, <3>3 DEF EndOf, CallLabels, Leaving, Closing
  <2>2. CASE o # p
    <3>1. pc'[o] = pc[o] /\ EndOf(o)
      BY <2>2 DEF Alone, EndsInv
    <3>. QED
      BY <1>1, <3>1 DEF EndOf
  <2>. QED
    BY <2>1, <2>2
<1>4. ASSUME NEW r \in Readers, FoundEnd(r)'
      PROVE  OpenWriters' = {} /\ pipe'.count = 0
  <2>1. CASE r = p
    BY <1>1, <1>4, <2>1
  <2>2. CASE r # p
    <3>1. r \in Processes
      BY AllAreEnds
    <3>2. pc'[r] = pc[r] /\ half'[r] = half[r] /\ left'[r] = left[r]
      BY <2>2, <3>1 DEF Alone
    <3>3. FoundEnd(r)
      BY <1>4, <3>2 DEF FoundEnd
    <3>. QED
      BY <1>1, <3>3 DEF EndsInv, AllTaken
  <2>. QED
    BY <2>1, <2>2
<1>. QED
  BY <1>2, <1>3, <1>4 DEF EndsInv, AllTaken

(* The sizes of the calls.                                                 *)
LEMMA SizedStays ==
    ASSUME Sized, calls' = calls, left' = left
    PROVE  Sized'
  BY DEF Sized

(* The step of one that is in a call, when it leaves the pipe alone.       *)
LEMMA EndsSamePipe ==
    ASSUME ChannelAssumption, Types, EndsInv, NEW p \in Processes,
           NEW from \in CallLabels, NEW to \in CallLabels \ {"undo"},
           InCall(p, from, to), pipe' = pipe, UNCHANGED locals,
           p \in Readers /\ FoundEnd(p)' => OpenWriters = {} /\ pipe.count = 0
    PROVE  EndsInv'
<1>1. from \in Labels /\ to \in Labels
  BY DEF CallLabels, Labels, Leaving
<1>2. Alone(p) /\ pc[p] = from
  BY <1>1, QuietEffect, WaitEffect, PostEffect DEF InCall
<1>3. pc'[p] \in {from, to}
  <2>1. ASSUME NEW n \in Names, Wait(p, n, from, to)
        PROVE  pc'[p] \in {from, to}
    BY <1>1, <2>1, WaitEffect
  <2>2. ASSUME NEW n \in Names, Post(p, n, from, to)
        PROVE  pc'[p] \in {from, to}
    BY <1>1, <2>2, PostMoves
  <2>3. CASE Step(p, from, to) \/ Enter(p, from, to) \/ Leave(p, from, to)
    BY <1>1, <2>3, QuietEffect
  <2>. QED
    BY <2>1, <2>2, <2>3 DEF InCall
<1>4. Sized'
  BY SizedStays DEF EndsInv, locals
<1>. QED
  BY <1>2, <1>3, <1>4, EndsInCall DEF locals

(* A step of a writer.                                                     *)
LEMMA EndsWriter ==
    ASSUME ChannelAssumption, TokenInv, EndsInv, NEW w \in Writers, Writer(w)
    PROVE  EndsInv'
<1>1. /\ Types /\ OnePlace /\ Halfway /\ PipeAssumption
      /\ w \in Processes /\ w \notin Readers /\ w \in Ends
      /\ Sized /\ calls[w] \in Seq(Nat) /\ \A o \in Readers : o # w
      /\ {"mutex", "read", "write"} = Names
  BY AllAreEnds DEF TokenInv, EndsInv, Sized, Ends
<1>2. AfterWrite(w) \in CallLabels \ {"undo"}
  BY DEF AfterWrite, CallLabels
<1>3. CASE WriteCall(w)
  <2>1. /\ Enter(w, "user", "w_room") /\ calls[w] # <<>>
        /\ left' = [left EXCEPT ![w] = Head(calls[w])]
        /\ calls' = [calls EXCEPT ![w] = Tail(calls[w])]
        /\ UNCHANGED <<pipe, sent, got, desc, target, tokens>>
    BY <1>3 DEF WriteCall
  <2>2. Head(calls[w]) \in Nat /\ Tail(calls[w]) \in Seq(Nat)
    BY <1>1, <2>1, HeadTailProperties
  <2>3. Sized' /\ \A o \in Readers \ {w} : left'[o] = left[o]
    BY <1>1, <2>1, <2>2 DEF Sized, Ends
  <2>4. "user" \in Labels /\ "w_room" \in Labels
    BY DEF Labels, Leaving
  <2>5. Alone(w) /\ pc[w] = "user" /\ pc'[w] = "w_room"
    BY <1>1, <2>1, <2>4, QuietEffect
  <2>. QED
    BY <1>1, <2>1, <2>3, <2>5, EndsInCall DEF InCall, CallLabels
<1>4. CASE WaitForRoom(w)
  <2>1. ~ Fail(w, "write", "w_room", "w_return")
    BY <1>1, NoWaitFails DEF CallLabels
  <2>2. InCall(w, "w_room", "w_mutex") /\ pipe' = pipe /\ UNCHANGED locals
    BY <1>1, <1>4, <2>1 DEF WaitForRoom, InCall
  <2>. QED
    BY <1>1, <2>2, EndsSamePipe DEF CallLabels
<1>5. CASE LockToWrite(w)
  <2>1. ~ Fail(w, "mutex", "w_mutex", "undo")
    BY <1>1, NoWaitFails DEF CallLabels
  <2>2. InCall(w, "w_mutex", "w_put") /\ pipe' = pipe /\ UNCHANGED locals
    BY <1>1, <1>5, <2>1 DEF LockToWrite, InCall
  <2>. QED
    BY <1>1, <2>2, EndsSamePipe DEF CallLabels
<1>6. CASE Store(w)
  <2>1. Step(w, "w_put", "w_count") /\ UNCHANGED locals
    BY <1>6 DEF Store
  <2>2. /\ pipe'.active = pipe.active /\ pipe'.readers = pipe.readers
        /\ pipe'.writers = pipe.writers /\ pipe'.eof = pipe.eof
        /\ pipe'.count = pipe.count
    BY <1>1, <1>6 DEF Store, Types, DataTypes, PipeRecord
  <2>3. "w_put" \in Labels /\ "w_count" \in Labels
    BY DEF Labels
  <2>4. Alone(w) /\ pc[w] = "w_put" /\ pc'[w] = "w_count"
    BY <1>1, <2>1, <2>3, QuietEffect
  <2>5. Sized'
    BY <1>1, <2>1, SizedStays DEF locals
  <2>. QED
    BY <1>1, <2>1, <2>2, <2>4, <2>5, EndsInCall DEF InCall, CallLabels, locals
<1>7. CASE Count(w)
  <2>1. /\ Step(w, "w_count", "w_unlock") /\ left' = [left EXCEPT ![w] = @ - 1]
        /\ UNCHANGED <<calls, got, desc, target, tokens>>
    BY <1>7 DEF Count
  <2>2. /\ pipe'.active = pipe.active /\ pipe'.readers = pipe.readers
        /\ pipe'.writers = pipe.writers /\ pipe'.eof = pipe.eof
    BY <1>1, <1>7 DEF Count, Types, DataTypes, PipeRecord
  <2>3. "w_unlock" \in Labels /\ "w_count" \in Labels
    BY DEF Labels
  <2>4. Alone(w) /\ pc[w] = "w_count" /\ pc'[w] = "w_unlock"
    BY <1>1, <2>1, <2>3, QuietEffect
  <2>5. Sized' /\ \A o \in Readers \ {w} : left'[o] = left[o]
    BY <1>1, <2>1 DEF Sized, Ends
  <2>6. OpenWriters # {}
    BY <1>1, <2>4, PipeIsThere DEF CallLabels
  <2>. QED
    BY <1>1, <2>1, <2>2, <2>4, <2>5, <2>6, EndsInCall DEF InCall, CallLabels
<1>8. CASE UnlockAfterWrite(w)
  <2>1. InCall(w, "w_unlock", "w_signal") /\ pipe' = pipe /\ UNCHANGED locals
    BY <1>1, <1>8 DEF UnlockAfterWrite, InCall
  <2>. QED
    BY <1>1, <2>1, EndsSamePipe DEF CallLabels
<1>9. CASE SignalReader(w)
  <2>1. PICK to \in {"w_return", "w_room"} :
           InCall(w, "w_signal", to) /\ pipe' = pipe /\ UNCHANGED locals
    BY <1>1, <1>9 DEF SignalReader, InCall
  <2>. QED
    BY <1>1, <2>1, EndsSamePipe DEF CallLabels
<1>10. CASE ReturnFromWrite(w)
  <2>1. PICK l \in {"w_return", "w_room", "w_mutex", "w_put", "w_unlock", "w_signal"} :
           /\ InCall(w, l, AfterWrite(w)) /\ pipe' = pipe /\ UNCHANGED locals
    BY <1>10 DEF ReturnFromWrite, InCall
  <2>. QED
    BY <1>1, <1>2, <2>1, EndsSamePipe DEF CallLabels
<1>. QED
  BY <1>3, <1>4, <1>5, <1>6, <1>7, <1>8, <1>9, <1>10 DEF Writer

(* Without writers in the count there is no open end to write.             *)
LEMMA NoOpenWriters ==
    ASSUME ChannelAssumption, EndsInv, pipe.writers = 0
    PROVE  OpenWriters = {}
<1>1. IsFiniteSet(OpenWriters)
  BY AllAreEnds, FS_Subset DEF OpenWriters
<1>. QED
  BY <1>1, FS_EmptySet DEF EndsInv, Opened

(* A step of a reader.                                                     *)
LEMMA EndsReader ==
    ASSUME ChannelAssumption, TokenInv, TokenInv', EndsInv, NEW r \in Readers, Reader(r)
    PROVE  EndsInv'
<1>1. /\ Types /\ OnePlace /\ Halfway /\ PipeAssumption
      /\ r \in Processes /\ r \notin Writers /\ r \in Ends
      /\ Sized /\ left[r] \in Int /\ ReadSize[r] \in Nat \ {0}
      /\ {"mutex", "read", "write"} = Names
  BY AllAreEnds DEF TokenInv, EndsInv, Sized, Ends, PipeAssumption
<1>2. /\ AfterRead(r) \in CallLabels \ {"undo"}
      /\ AfterRead(r) = "exit" <=> left[r] = ReadSize[r]
      /\ AfterRead(r) \in {"exit", "user"}
  BY DEF AfterRead, CallLabels
<1>3. FoundEnd(r) => OpenWriters = {} /\ pipe.count = 0
  BY DEF EndsInv, AllTaken
<1>4. CASE ReadCall(r)
  <2>1. /\ Enter(r, "user", "r_check")
        /\ left' = [left EXCEPT ![r] = ReadSize[r]]
        /\ UNCHANGED <<pipe, calls, sent, got, desc, target, tokens>>
    BY <1>4 DEF ReadCall
  <2>2. Sized' /\ \A o \in Readers \ {r} : left'[o] = left[o]
    BY <1>1, <2>1 DEF Sized, Ends
  <2>3. "user" \in Labels /\ "r_check" \in Labels
    BY DEF Labels, Leaving
  <2>4. Alone(r) /\ pc[r] = "user" /\ pc'[r] = "r_check"
    BY <1>1, <2>1, <2>3, QuietEffect
  <2>5. ~ FoundEnd(r)'
    BY <2>4 DEF FoundEnd, Leaving
  <2>. QED
    BY <1>1, <2>1, <2>2, <2>4, <2>5, EndsInCall DEF InCall, CallLabels
<1>5. CASE CheckEof(r)
  <2>1. CASE AtEof
    <3>1. InCall(r, "r_check", "r_return") /\ pipe' = pipe /\ UNCHANGED locals
      BY <1>5, <2>1 DEF CheckEof, InCall
    <3>2. OpenWriters = {} /\ pipe.count = 0
      BY <2>1 DEF AtEof, EndsInv, Opened
    <3>. QED
      BY <1>1, <3>1, <3>2, EndsSamePipe DEF CallLabels
  <2>2. CASE ~ AtEof
    <3>1. Step(r, "r_check", "r_token") /\ pipe' = pipe /\ UNCHANGED locals
      BY <1>5, <2>2 DEF CheckEof
    <3>2. pc'[r] = "r_token"
      <4>1. "r_check" \in Labels /\ "r_token" \in Labels
        BY DEF Labels, Leaving
      <4>. QED
        BY <1>1, <3>1, <4>1, QuietEffect
    <3>3. ~ FoundEnd(r)'
      BY <3>2 DEF FoundEnd, Leaving
    <3>. QED
      BY <1>1, <3>1, <3>3, EndsSamePipe DEF CallLabels, InCall
  <2>. QED
    BY <2>1, <2>2
<1>6. CASE WaitForByte(r)
  <2>1. ~ Fail(r, "read", "r_token", "r_return")
    BY <1>1, NoWaitFails DEF CallLabels
  <2>2. Wait(r, "read", "r_token", "r_mutex") /\ pipe' = pipe /\ UNCHANGED locals
    BY <1>6, <2>1 DEF WaitForByte
  <2>3. ~ FoundEnd(r)'
    <3>1. "r_token" \in Labels /\ "r_mutex" \in Labels
      BY DEF Labels, Leaving
    <3>2. pc'[r] \in {"r_token", "r_mutex"}
      BY <1>1, <2>2, <3>1, WaitEffect
    <3>. QED
      BY <3>2 DEF FoundEnd, Leaving
  <2>4. InCall(r, "r_token", "r_mutex")
    BY <1>1, <2>2 DEF InCall
  <2>. QED
    BY <1>1, <2>2, <2>3, <2>4, EndsSamePipe DEF CallLabels
<1>7. CASE LockToRead(r)
  <2>1. ~ Fail(r, "mutex", "r_mutex", "undo")
    BY <1>1, NoWaitFails DEF CallLabels
  <2>2. Wait(r, "mutex", "r_mutex", "r_get") /\ pipe' = pipe /\ UNCHANGED locals
    BY <1>7, <2>1 DEF LockToRead
  <2>3. ~ FoundEnd(r)'
    <3>1. "r_get" \in Labels /\ "r_mutex" \in Labels
      BY DEF Labels, Leaving
    <3>2. pc'[r] \in {"r_mutex", "r_get"} /\ pc[r] = "r_mutex"
      BY <1>1, <2>2, <3>1, WaitEffect
    <3>3. half[r] # "counting"
      BY <1>1, <3>2 DEF Halfway
    <3>4. half'[r] # "counting"
      BY <1>1, <2>2, <3>1, <3>3, WaitEffect
    <3>. QED
      BY <3>2, <3>4 DEF FoundEnd, Leaving
  <2>4. InCall(r, "r_mutex", "r_get")
    BY <1>1, <2>2 DEF InCall
  <2>. QED
    BY <1>1, <2>2, <2>3, <2>4, EndsSamePipe DEF CallLabels
<1>8. CASE Get(r)
  <2>1. /\ Step(r, "r_get", "r_unlock") /\ left' = [left EXCEPT ![r] = @ - 1]
        /\ UNCHANGED <<calls, sent, desc, target, tokens>> /\ pipe.count > 0
    BY <1>8 DEF Get
  <2>2. /\ pipe'.active = pipe.active /\ pipe'.readers = pipe.readers
        /\ pipe'.writers = pipe.writers /\ pipe'.eof = pipe.eof
    BY <1>1, <1>8 DEF Get, Types, DataTypes, PipeRecord
  <2>3. "r_get" \in Labels /\ "r_unlock" \in Labels
    BY DEF Labels
  <2>4. Alone(r) /\ pc[r] = "r_get" /\ pc'[r] = "r_unlock"
    BY <1>1, <2>1, <2>3, QuietEffect
  <2>5. Sized' /\ \A o \in Readers \ {r} : left'[o] = left[o]
    BY <1>1, <2>1 DEF Sized, Ends
  <2>6. ~ FoundEnd(r)'
    BY <2>4 DEF FoundEnd, Leaving
  <2>7. ~ (OpenWriters = {} /\ pipe.count = 0)
    BY <2>1
  <2>. QED
    BY <1>1, <2>1, <2>2, <2>4, <2>5, <2>6, <2>7, EndsInCall DEF InCall, CallLabels
<1>9. CASE UnlockAfterRead(r)
  <2>1. Post(r, "mutex", "r_unlock", "r_signal") /\ pipe' = pipe /\ UNCHANGED locals
    BY <1>9 DEF UnlockAfterRead
  <2>2. ~ FoundEnd(r)'
    <3>1. "r_unlock" \in Labels /\ "r_signal" \in Labels
      BY DEF Labels, Leaving
    <3>2. pc'[r] \in {"r_unlock", "r_signal"}
      BY <1>1, <2>1, <3>1, PostMoves
    <3>. QED
      BY <3>2 DEF FoundEnd, Leaving
  <2>3. InCall(r, "r_unlock", "r_signal")
    BY <1>1, <2>1 DEF InCall
  <2>. QED
    BY <1>1, <2>1, <2>2, <2>3, EndsSamePipe DEF CallLabels
<1>10. CASE SignalWriter(r)
  <2>1. PICK to \in {"r_return", "r_check"} :
           /\ Post(r, "write", "r_signal", to) /\ pipe' = pipe /\ UNCHANGED locals
           /\ to = "r_return" => left[r] = 0
    BY <1>10 DEF SignalWriter
  <2>2. ~ FoundEnd(r)'
    <3>1. "r_signal" \in Labels /\ to \in Labels
      BY DEF Labels, Leaving
    <3>2. pc'[r] \in {"r_signal", to}
      BY <1>1, <2>1, <3>1, PostMoves
    <3>3. to = "r_return" => left'[r] # ReadSize[r]
      BY <1>1, <2>1 DEF locals
    <3>. QED
      BY <3>2, <3>3 DEF FoundEnd, Leaving
  <2>3. InCall(r, "r_signal", to)
    BY <1>1, <2>1 DEF InCall
  <2>. QED
    BY <1>1, <2>1, <2>2, <2>3, EndsSamePipe DEF CallLabels
<1>11. CASE FindEmpty(r)
  <2>1. /\ Post(r, "mutex", "r_get", "r_empty") /\ pipe' = pipe /\ UNCHANGED locals
        /\ pipe.count = 0 \/ half[r] = "counting"
    BY <1>11 DEF FindEmpty
  <2>2. FoundEnd(r)' => OpenWriters = {} /\ pipe.count = 0
    <3>1. "r_get" \in Labels /\ "r_empty" \in Labels
      BY DEF Labels, Leaving
    <3>2. pc[r] = "r_get" /\ pc'[r] \in {"r_get", "r_empty"}
      BY <1>1, <2>1, <3>1, PostMoves
    <3>3. CASE half[r] = "counting"
      BY <1>3, <3>2, <3>3 DEF FoundEnd
    <3>4. CASE pipe.count = 0
      <4>1. FoundEnd(r)' => AtEnd(r)'
        BY <3>2 DEF FoundEnd, AtEnd, Leaving
      <4>2. FoundEnd(r)' => pipe.writers = 0
        BY <1>1, <2>1, <4>1 DEF TokenInv, PromisesKept, NoWritersThen
      <4>. QED
        BY <3>4, <4>2, NoOpenWriters
    <3>. QED
      BY <2>1, <3>3, <3>4
  <2>3. InCall(r, "r_get", "r_empty")
    BY <1>1, <2>1 DEF InCall
  <2>. QED
    BY <1>1, <2>1, <2>2, <2>3, EndsSamePipe DEF CallLabels
<1>12. CASE Retry(r)
  <2>1. PICK to \in {"r_return", "r_check"} :
           InCall(r, "r_empty", to) /\ pc[r] = "r_empty" /\ pipe' = pipe /\ UNCHANGED locals
    BY <1>12 DEF Retry, InCall, Step, At
  <2>2. FoundEnd(r)
    BY <2>1 DEF FoundEnd
  <2>. QED
    BY <1>1, <1>3, <2>1, <2>2, EndsSamePipe DEF CallLabels
<1>13. CASE ReturnFromRead(r)
  <2>1. pc[r] \in CallLabels => Checked(r)
    BY <1>1, PipeIsThere DEF Checked
  <2>2. Leave(r, "r_return", AfterRead(r)) /\ pipe' = pipe /\ UNCHANGED locals
    BY <1>13, <2>1 DEF ReturnFromRead, Leave, At, CallLabels
  <2>3. pc[r] = "r_return" /\ pc'[r] = AfterRead(r)
    <3>1. "r_return" \in Labels /\ AfterRead(r) \in Labels
      BY <1>2 DEF Labels, Leaving
    <3>. QED
      BY <1>1, <2>2, <3>1, QuietEffect
  <2>4. FoundEnd(r)' => FoundEnd(r)
    BY <1>2, <2>3 DEF FoundEnd, Leaving
  <2>. QED
    BY <1>1, <1>2, <1>3, <2>2, <2>4, EndsSamePipe DEF CallLabels, InCall
<1>. QED
  BY <1>4, <1>5, <1>6, <1>7, <1>8, <1>9, <1>10, <1>11, <1>12, <1>13 DEF Reader

(* The exit of a process, which takes back its own end.                    *)
LEMMA EndsExit ==
    ASSUME ChannelAssumption, TokenInv, EndsInv, NEW p \in Processes, Exit(p)
    PROVE  EndsInv'
<1>1. /\ Step(p, "exit", "t_release") \/ Enter(p, "exit", "t_release")
      /\ target' = [target EXCEPT ![p] = p]
      /\ UNCHANGED <<pipe, calls, left, sent, got, desc, tokens>>
  BY DEF Exit
<1>2. /\ "exit" \in Labels /\ "t_release" \in Labels /\ Types
  BY DEF Labels, Leaving, TokenInv
<1>3. /\ Alone(p) /\ sem_table' = sem_table /\ pc[p] = "exit" /\ pc'[p] = "t_release"
  BY <1>1, <1>2, QuietEffect
<1>4. /\ OpenWriters' = OpenWriters /\ OpenReaders' = OpenReaders
      /\ \A m \in Names : find_semaphore(m)' = find_semaphore(m)
  BY <1>1, <1>3 DEF OpenWriters, OpenReaders, find_semaphore
<1>5. Sized' /\ Opened'
  BY <1>1, <1>4 DEF EndsInv, Sized, Opened
<1>6. ASSUME NEW o \in Processes
      PROVE  EndOf(o)'
  <2>1. CASE o = p
    <3>1. target'[p] = p
      BY <1>1, <1>2 DEF Types, DataTypes
    <3>2. desc'[p] = "open"
      BY <1>1, <1>3, PipeIsThere DEF CallLabels
    <3>. QED
      BY <1>3, <2>1, <3>1, <3>2 DEF EndOf, Closing
  <2>2. CASE o # p
    <3>1. pc'[o] = pc[o] /\ EndOf(o) /\ target'[o] = target[o]
      BY <1>1, <1>2, <1>3, <2>2 DEF Alone, EndsInv, Types, DataTypes
    <3>. QED
      BY <1>1, <1>4, <3>1 DEF EndOf
  <2>. QED
    BY <2>1, <2>2
<1>7. ASSUME NEW r \in Readers, FoundEnd(r)'
      PROVE  OpenWriters' = {} /\ pipe'.count = 0
  <2>1. FoundEnd(r)
    <3>1. CASE r = p
      BY <1>3, <3>1 DEF FoundEnd, Leaving
    <3>2. CASE r # p
      BY <1>1, <1>3, <1>7, <3>2, AllAreEnds DEF Alone, FoundEnd
    <3>. QED
      BY <3>1, <3>2
  <2>. QED
    BY <1>1, <1>4, <2>1 DEF EndsInv, AllTaken
<1>. QED
  BY <1>5, <1>6, <1>7 DEF EndsInv, AllTaken

(* A step of terminate_process after the end has been taken back: what was *)
(* found stays found.                                                      *)
LEMMA EndsAfter ==
    ASSUME ChannelAssumption, TokenInv, EndsInv, NEW p \in Processes, Alone(p),
           pc[p] \in Leaving \ {"exit", "t_release"},
           pc'[p] \in Leaving \ {"exit", "t_release"},
           calls' = calls, left' = left, target' = target,
           \A t \in Ends : desc'[t] = "open" <=> desc[t] = "open",
           pipe'.writers = pipe.writers, pipe'.readers = pipe.readers,
           pipe.count = 0 => pipe'.count = 0,
           pipe'.eof => OpenWriters = {},
           OpenWriters \cup OpenReaders # {} =>
              /\ pipe'.active = pipe.active
              /\ \A m \in Names : find_semaphore(m)' = find_semaphore(m),
           pc'[p] \in Closing => OpenWriters = {} /\ OpenReaders = {} /\ pipe.count = 0
    PROVE  EndsInv'
<1>1. OpenWriters' = OpenWriters /\ OpenReaders' = OpenReaders
  BY DEF OpenWriters, OpenReaders, Ends
<1>2. Sized' /\ Opened'
  BY <1>1 DEF EndsInv, Sized, Opened
<1>3. ASSUME NEW o \in Processes
      PROVE  EndOf(o)'
  <2>1. o \in Ends /\ EndOf(o)
    BY AllAreEnds DEF EndsInv
  <2>2. CASE o = p
    <3>1. /\ pc'[p] \notin CallLabels \cup {"t_release"}
          /\ pc[p] \notin CallLabels \cup {"t_release"} /\ pc'[p] # "undo"
      BY DEF CallLabels, Leaving
    <3>2. desc[p] # "open" /\ target[p] = p
      BY <2>1, <2>2, <3>1 DEF EndOf
    <3>3. desc'[p] # "open"
      BY <2>1, <2>2, <3>2
    <3>. QED
      BY <1>1, <2>2, <3>1, <3>2, <3>3 DEF EndOf
  <2>3. CASE o # p
    <3>1. pc'[o] = pc[o]
      BY <2>3 DEF Alone
    <3>. QED
      BY <1>1, <2>1, <3>1 DEF EndOf
  <2>. QED
    BY <2>2, <2>3
<1>4. ASSUME NEW r \in Readers, FoundEnd(r)'
      PROVE  OpenWriters' = {} /\ pipe'.count = 0
  <2>1. FoundEnd(r)
    <3>1. CASE r = p
      BY <3>1 DEF FoundEnd
    <3>2. CASE r # p
      BY <1>4, <3>2, AllAreEnds DEF Alone, FoundEnd
    <3>. QED
      BY <3>1, <3>2
  <2>. QED
    BY <1>1, <2>1 DEF EndsInv, AllTaken
<1>. QED
  BY <1>2, <1>3, <1>4 DEF EndsInv, AllTaken

(* The end is counted off, by its own process.                             *)
LEMMA EndsUnregister ==
    ASSUME ChannelAssumption, TokenInv, EndsInv, NEW p \in Processes, Unregister(p)
    PROVE  /\ EndsInv' /\ desc' = [desc EXCEPT ![p] = "released"]
           /\ p \in Writers => p \in OpenWriters
<1>1. /\ pc[p] = "t_release" /\ Types /\ p \in Ends
      /\ "t_release" \in Labels /\ "t_eof" \in Labels /\ "t_post" \in Labels
  BY AllAreEnds DEF Unregister, Step, At, TokenInv, Labels, Leaving
<1>2. /\ desc[p] = "open" /\ pipe.active /\ \A n \in Names : find_semaphore(n)
      /\ p \in Writers => p \in OpenWriters
      /\ p \in Readers => p \in OpenReaders
  BY <1>1, PipeIsThere
<1>3. target[p] = p
  BY <1>1 DEF EndsInv, EndOf, Leaving
<1>4. /\ Step(p, "t_release", "t_eof") \/ Step(p, "t_release", "t_post")
      /\ pipe' = IF p \in Writers THEN [pipe EXCEPT !.writers = Minus1(@)]
                 ELSE [pipe EXCEPT !.readers = Minus1(@)]
      /\ desc' = [desc EXCEPT ![p] = "released"]
      /\ UNCHANGED <<calls, left, sent, got, target, tokens>>
  BY <1>2, <1>3 DEF Unregister, Registered
<1>5. /\ Alone(p) /\ sem_table' = sem_table /\ pc'[p] \in {"t_eof", "t_post"}
  BY <1>1, <1>4, QuietEffect
<1>6. \A o \in Ends : desc'[o] = IF o = p THEN "released" ELSE desc[o]
  BY <1>1, <1>4 DEF Types, DataTypes
<1>7. OpenWriters' = OpenWriters \ {p} /\ OpenReaders' = OpenReaders \ {p}
  BY <1>6 DEF OpenWriters, OpenReaders, Ends
<1>8. /\ IsFiniteSet(OpenWriters) /\ IsFiniteSet(OpenReaders)
      /\ Cardinality(OpenWriters) \in Nat /\ Cardinality(OpenReaders) \in Nat
  BY AllAreEnds, FS_Subset, FS_CardinalityType DEF OpenWriters, OpenReaders
<1>9. /\ p \in OpenWriters => Cardinality(OpenWriters \ {p}) = Cardinality(OpenWriters) - 1
      /\ p \in OpenReaders => Cardinality(OpenReaders \ {p}) = Cardinality(OpenReaders) - 1
      /\ p \notin OpenWriters => OpenWriters \ {p} = OpenWriters
      /\ p \notin OpenReaders => OpenReaders \ {p} = OpenReaders
      /\ p \in OpenWriters => Cardinality(OpenWriters) > 0
      /\ p \in OpenReaders => Cardinality(OpenReaders) > 0
  <2>1. \A S : IsFiniteSet(S) /\ p \in S =>
           Cardinality(S) > 0 /\ Cardinality(S \ {p}) = Cardinality(S) - 1
    <3>1. ASSUME NEW S, IsFiniteSet(S), p \in S
          PROVE  Cardinality(S) > 0 /\ Cardinality(S \ {p}) = Cardinality(S) - 1
      <4>1. S # {} /\ Cardinality(S) \in Nat
        BY <3>1, FS_CardinalityType
      <4>2. Cardinality(S) # 0
        BY <3>1, <4>1, FS_EmptySet
      <4>3. Cardinality(S \ {p}) = Cardinality(S) - 1
        BY <3>1, FS_RemoveElement
      <4>. QED
        BY <4>1, <4>2, <4>3
    <3>. QED
      BY <3>1
  <2>. QED
    BY <1>8, <2>1
<1>10. /\ pipe.writers = Cardinality(OpenWriters) /\ pipe.readers = Cardinality(OpenReaders)
       /\ pipe.eof => OpenWriters = {}
  BY DEF EndsInv, Opened
<1>11. /\ pipe'.writers = Cardinality(OpenWriters')
       /\ pipe'.readers = Cardinality(OpenReaders')
       /\ pipe'.active = pipe.active /\ pipe'.eof = pipe.eof /\ pipe'.count = pipe.count
  <2>1. pipe \in PipeRecord
    BY <1>1 DEF Types, DataTypes
  <2>2. CASE p \in Writers
    <3>1. p \in OpenWriters /\ p \notin OpenReaders
      BY <1>2, <2>2, AllAreEnds DEF OpenReaders
    <3>2. Minus1(pipe.writers) = Cardinality(OpenWriters) - 1
      BY <1>8, <1>9, <1>10, <3>1 DEF Minus1
    <3>3. pipe' = [pipe EXCEPT !.writers = Cardinality(OpenWriters) - 1]
      BY <1>4, <2>2, <3>2
    <3>. QED
      BY <1>7, <1>9, <1>10, <2>1, <3>1, <3>3 DEF PipeRecord
  <2>3. CASE p \notin Writers
    <3>1. p \in OpenReaders /\ p \notin OpenWriters
      BY <1>1, <1>2, <2>3 DEF Ends, OpenWriters
    <3>2. Minus1(pipe.readers) = Cardinality(OpenReaders) - 1
      BY <1>8, <1>9, <1>10, <3>1 DEF Minus1
    <3>3. pipe' = [pipe EXCEPT !.readers = Cardinality(OpenReaders) - 1]
      BY <1>4, <2>3, <3>2
    <3>. QED
      BY <1>7, <1>9, <1>10, <2>1, <3>1, <3>3 DEF PipeRecord
  <2>. QED
    BY <2>2, <2>3
<1>12. Sized'
  BY <1>4, SizedStays DEF EndsInv
<1>13. Opened'
  <2>1. pipe'.active /\ \A n \in Names : find_semaphore(n)'
    BY <1>2, <1>5, <1>11 DEF find_semaphore
  <2>2. pipe'.eof => OpenWriters' = {}
    BY <1>7, <1>10, <1>11
  <2>. QED
    BY <1>11, <2>1, <2>2 DEF Opened
<1>14. ASSUME NEW o \in Processes
       PROVE  EndOf(o)'
  <2>1. o \in Ends /\ EndOf(o)
    BY AllAreEnds DEF EndsInv
  <2>2. CASE o = p
    BY <1>3, <1>4, <1>5, <1>6, <2>1, <2>2 DEF EndOf, CallLabels, Closing
  <2>3. CASE o # p
    <3>1. pc'[o] = pc[o] /\ desc'[o] = desc[o] /\ target'[o] = target[o]
      BY <1>4, <1>5, <1>6, <2>1, <2>3 DEF Alone
    <3>. QED
      BY <1>7, <1>11, <2>1, <3>1 DEF EndOf
  <2>. QED
    BY <2>2, <2>3
<1>15. ASSUME NEW r \in Readers, FoundEnd(r)'
       PROVE  OpenWriters' = {} /\ pipe'.count = 0
  <2>1. FoundEnd(r)
    <3>1. CASE r = p
      BY <1>1, <3>1 DEF FoundEnd, Leaving
    <3>2. CASE r # p
      BY <1>4, <1>5, <1>15, <3>2, AllAreEnds DEF Alone, FoundEnd
    <3>. QED
      BY <3>1, <3>2
  <2>. QED
    BY <1>7, <1>11, <2>1 DEF EndsInv, AllTaken
<1>. QED
  BY <1>2, <1>4, <1>12, <1>13, <1>14, <1>15 DEF EndsInv, AllTaken

(* The other steps of terminate_process.                                   *)
LEMMA EndsTermination ==
    ASSUME ChannelAssumption, TokenInv, EndsInv, NEW p \in Processes,
           Termination(p), ~ Unregister(p)
    PROVE  /\ EndsInv' /\ \A t \in Ends : desc'[t] = "open" <=> desc[t] = "open"
           /\ pc[p] \in Leaving \ {"exit", "t_release"}
           /\ pc'[p] \in Leaving \ {"exit", "t_release"}
<1>1. /\ Types /\ OnePlace /\ Halfway /\ pipe \in PipeRecord
      /\ {"t_release", "t_eof", "t_post", "t_mutex", "t_read", "t_write", "t_reset",
          "done"} \subseteq Labels
      /\ {"mutex", "read", "write"} = Names
      /\ {"t_eof", "t_post", "t_mutex", "t_read", "t_write", "t_reset",
          "done"} = Leaving \ {"exit", "t_release"}
      /\ pipe.eof => OpenWriters = {}
      /\ p \in Ends
  BY AllAreEnds DEF TokenInv, Types, DataTypes, Labels, Leaving, EndsInv, Opened
<1>2. CASE SetEof(p)
  <2>1. /\ Step(p, "t_eof", "t_post") /\ UNCHANGED <<calls, left, sent, got, desc, target>>
    BY <1>2 DEF SetEof
  <2>2. /\ Alone(p) /\ sem_table' = sem_table /\ pc[p] = "t_eof" /\ pc'[p] = "t_post"
    BY <1>1, <2>1, QuietEffect
  <2>3. /\ pipe'.writers = pipe.writers /\ pipe'.readers = pipe.readers
        /\ pipe'.count = pipe.count /\ pipe'.active = pipe.active
    BY <1>1, <1>2 DEF SetEof, PipeRecord
  <2>4. pipe'.eof => OpenWriters = {}
    <3>1. pipe'.eof => pipe.eof \/ LastWriterLeft
      BY <1>1, <1>2 DEF SetEof, PipeRecord
    <3>. QED
      BY <1>1, <3>1, NoOpenWriters DEF LastWriterLeft
  <2>5. \A m \in Names : find_semaphore(m)' = find_semaphore(m)
    BY <2>2 DEF find_semaphore
  <2>. QED
    BY <1>1, <2>1, <2>2, <2>3, <2>4, <2>5, EndsAfter DEF Closing
<1>3. CASE PostEof(p)
  <2>1. /\ Post(p, "read", "t_post", "t_post")
        /\ UNCHANGED <<pipe, calls, left, sent, got, desc, target>>
    BY <1>3 DEF PostEof
  <2>2. /\ Alone(p) /\ pc[p] = "t_post" /\ pc'[p] = "t_post"
    BY <1>1, <2>1, PostMoves
  <2>3. \A m \in Names : find_semaphore(m)' = find_semaphore(m)
    BY <1>1, <2>1, StillUsed DEF InCall
  <2>. QED
    BY <1>1, <2>1, <2>2, <2>3, EndsAfter DEF Closing
<1>4. CASE Destroy(p)
  <2>1. /\ Step(p, "t_post", "t_mutex") /\ pipe' = pipe /\ UNCHANGED locals
        /\ pipe.readers = 0 /\ pipe.writers = 0 /\ pipe.count = 0
    BY <1>4 DEF Destroy, Unused
  <2>2. /\ Alone(p) /\ sem_table' = sem_table /\ pc[p] = "t_post" /\ pc'[p] = "t_mutex"
    BY <1>1, <2>1, QuietEffect
  <2>3. OpenWriters = {} /\ OpenReaders = {}
    <3>1. IsFiniteSet(OpenWriters) /\ IsFiniteSet(OpenReaders)
      BY AllAreEnds, FS_Subset DEF OpenWriters, OpenReaders
    <3>. QED
      BY <2>1, <3>1, FS_EmptySet DEF EndsInv, Opened
  <2>4. \A m \in Names : find_semaphore(m)' = find_semaphore(m)
    BY <2>2 DEF find_semaphore
  <2>. QED
    BY <1>1, <2>1, <2>2, <2>3, <2>4, EndsAfter DEF locals
<1>5. CASE CloseSems(p)
  <2>1. PICK n \in {"mutex", "read", "write"}, from \in {"t_mutex", "t_read", "t_write"},
             to \in {"t_read", "t_write", "t_reset"} : CloseSem(p, n, from, to)
    BY <1>5 DEF CloseSems
  <2>2. /\ Alone(p) /\ pc[p] = from /\ pc'[p] = to
    BY <1>1, <2>1, CloseEffect
  <2>3. OpenWriters = {} /\ OpenReaders = {} /\ pipe.count = 0
    BY <2>2 DEF EndsInv, EndOf, Closing
  <2>4. pipe' = pipe /\ UNCHANGED locals
    BY <2>1 DEF CloseSem
  <2>. QED
    BY <1>1, <2>2, <2>3, <2>4, EndsAfter DEF locals
<1>6. CASE DieInUse(p) \/ DieAfterReset(p)
  <2>1. PICK from \in {"t_post", "t_reset"} :
           Die(p, from) /\ (from = "t_post" => tokens[p] = 0 /\ pipe' = pipe)
    BY <1>6 DEF DieInUse, DieAfterReset
  <2>2. /\ Alone(p) /\ sem_table' = sem_table /\ pc[p] = from /\ pc'[p] = "done"
    BY <1>1, <2>1, DieEffect
  <2>3. target[p] = p /\ desc[p] # "open"
    BY <1>1, <2>2 DEF EndsInv, EndOf, Leaving, CallLabels
  <2>4. /\ desc' = [desc EXCEPT ![p] = "none"]
        /\ UNCHANGED <<calls, left, sent, got, target, tokens>>
    BY <2>1, <2>3 DEF Die
  <2>5. \A t \in Ends : desc'[t] = "open" <=> desc[t] = "open"
    BY <1>1, <2>3, <2>4 DEF Types, DataTypes
  <2>6. \A m \in Names : find_semaphore(m)' = find_semaphore(m)
    BY <2>2 DEF find_semaphore
  <2>7. CASE pipe' = pipe
    BY <1>1, <2>2, <2>4, <2>5, <2>6, <2>7, EndsAfter DEF Closing
  <2>8. CASE from = "t_reset" /\ pipe' # pipe
    <3>1. DieAfterReset(p)
      BY <1>6, <2>8 DEF DieInUse
    <3>2. /\ pipe'.active = FALSE /\ pipe'.eof = FALSE /\ pipe'.readers = 0
          /\ pipe'.writers = 0 /\ pipe'.count = 0
      BY <1>1, <3>1 DEF DieAfterReset, PipeRecord
    <3>3. OpenWriters = {} /\ OpenReaders = {}
      BY <2>2, <2>8 DEF EndsInv, EndOf, Closing
    <3>4. pipe.writers = 0 /\ pipe.readers = 0
      BY <3>3, FS_EmptySet DEF EndsInv, Opened
    <3>5. /\ pipe'.writers = pipe.writers /\ pipe'.readers = pipe.readers
          /\ pipe.count = 0 => pipe'.count = 0
          /\ pipe'.eof => OpenWriters = {}
          /\ ~ (OpenWriters \cup OpenReaders # {})
      BY <3>2, <3>3, <3>4
    <3>6. OpenWriters \cup OpenReaders # {} =>
             /\ pipe'.active = pipe.active
             /\ \A m \in Names : find_semaphore(m)' = find_semaphore(m)
      BY <3>5
    <3>7. pc'[p] \in Closing => OpenWriters = {} /\ OpenReaders = {} /\ pipe.count = 0
      BY <2>2 DEF Closing
    <3>8. EndsInv'
      BY <1>1, <2>2, <2>4, <2>5, <3>5, <3>6, <3>7, EndsAfter
    <3>. QED
      BY <1>1, <2>2, <2>5, <3>8
  <2>. QED
    BY <2>1, <2>7, <2>8
<1>. QED
  BY <1>2, <1>3, <1>4, <1>5, <1>6 DEF Termination
(* The steps of a call without a semaphore that give no token away.        *)
LEMMA HeldMove ==
    ASSUME ChannelAssumption, Types, Held, NEW p \in Processes,
           NEW from \in Labels, NEW to \in Labels,
           Step(p, from, to) \/ Enter(p, from, to) \/ Leave(p, from, to),
           half[p] = "no", pipe'.count = pipe.count,
           to \notin {"w_mutex", "w_put", "w_count", "w_unlock", "r_get", "r_unlock",
                      "r_signal"}
    PROVE  Held'
<1>1. /\ Alone(p) /\ sem_table' = sem_table /\ pc'[p] = to /\ half'[p] = "no"
  BY QuietEffect
<1>2. ~ Locks(p)' /\ ~ Reserves(p)'
  BY <1>1 DEF Locks, Reserves
<1>. QED
  BY <1>1, <1>2, HeldQuiet

(* The steps of a writer.                                                  *)
LEMMA HeldWriter ==
    ASSUME ChannelAssumption, TokenInv, EndsInv, Held, NEW w \in Writers, Writer(w)
    PROVE  Held'
<1>1. /\ Types /\ OnePlace /\ Halfway /\ PipeAssumption /\ w \in Processes
      /\ {"mutex", "read", "write"} = Names /\ pipe \in PipeRecord
      /\ {"user", "exit", "w_room", "w_mutex", "w_put", "w_count", "w_unlock",
          "w_signal", "w_return"} \subseteq Labels \cap CallLabels
  BY AllAreEnds DEF TokenInv, Types, DataTypes, Labels, Leaving, CallLabels
<1>2. CASE WriteCall(w)
  <2>1. Enter(w, "user", "w_room") /\ pipe' = pipe
    BY <1>2 DEF WriteCall
  <2>2. half[w] = "no"
    BY <1>1, <2>1, NotHalfway DEF Enter, At, WaitingAt, PostingAt
  <2>. QED
    BY <1>1, <2>1, <2>2, HeldMove
<1>3. CASE WaitForRoom(w)
  <2>1. ~ Fail(w, "write", "w_room", "w_return")
    BY <1>1, NoWaitFails
  <2>2. Wait(w, "write", "w_room", "w_mutex") /\ pipe' = pipe
    BY <1>3, <2>1 DEF WaitForRoom
  <2>3. WaitPoint("write", "w_room", "w_mutex")
    BY DEF WaitPoint
  <2>. QED
    BY <1>1, <2>2, <2>3, HeldWait
<1>4. CASE LockToWrite(w)
  <2>1. ~ Fail(w, "mutex", "w_mutex", "undo")
    BY <1>1, NoWaitFails
  <2>2. Wait(w, "mutex", "w_mutex", "w_put") /\ pipe' = pipe
    BY <1>4, <2>1 DEF LockToWrite
  <2>3. WaitPoint("mutex", "w_mutex", "w_put")
    BY DEF WaitPoint
  <2>. QED
    BY <1>1, <2>2, <2>3, HeldWait
<1>5. CASE Store(w)
  <2>1. /\ Step(w, "w_put", "w_count")
        /\ pipe'.count = pipe.count
    BY <1>1, <1>5 DEF Store, PipeRecord
  <2>2. /\ Alone(w) /\ sem_table' = sem_table /\ pc[w] = "w_put" /\ pc'[w] = "w_count"
        /\ state[w] = "READY"
    BY <1>1, <2>1, QuietEffect
  <2>3. half[w] # "queued"
    BY <1>1, <2>2, NotHalfway DEF WaitingAt, PostingAt
  <2>4. ~ InQueue(w, "mutex")
    BY <1>1, <2>2, <2>3, RunnerHasLeft
  <2>5. Locks(w) /\ Reserves(w)
    BY <2>2, <2>4 DEF Locks, Reserves
  <2>. QED
    BY <1>1, <2>1, <2>2, <2>5, HeldQuiet
<1>6. CASE Count(w)
  <2>1. /\ Step(w, "w_count", "w_unlock")
        /\ pipe'.count = pipe.count + 1
    BY <1>1, <1>6 DEF Count, PipeRecord
  <2>. QED
    BY <1>1, <2>1, HeldCount
<1>7. CASE UnlockAfterWrite(w)
  <2>1. Post(w, "mutex", "w_unlock", "w_signal") /\ pipe' = pipe
    BY <1>7 DEF UnlockAfterWrite
  <2>2. PostPoint("mutex", "w_unlock", "w_signal")
    BY DEF PostPoint
  <2>. QED
    BY <1>1, <2>1, <2>2, HeldPost
<1>8. CASE SignalReader(w)
  <2>1. PICK to \in {"w_return", "w_room"} : Post(w, "read", "w_signal", to) /\ pipe' = pipe
    BY <1>8 DEF SignalReader
  <2>2. PostPoint("read", "w_signal", to)
    BY DEF PostPoint
  <2>. QED
    BY <1>1, <2>1, <2>2, HeldPost
<1>9. CASE ReturnFromWrite(w)
  <2>1. pc[w] \in CallLabels => Checked(w)
    BY <1>1, PipeIsThere DEF Checked
  <2>2. Leave(w, "w_return", AfterWrite(w)) /\ pipe' = pipe
    BY <1>9, <2>1 DEF ReturnFromWrite, Leave, At, CallLabels
  <2>3. half[w] = "no"
    BY <1>1, <2>2, NotHalfway DEF Leave, At, WaitingAt, PostingAt
  <2>4. AfterWrite(w) \in {"user", "exit"}
    BY DEF AfterWrite
  <2>. QED
    BY <1>1, <2>2, <2>3, <2>4, HeldMove
<1>. QED
  BY <1>2, <1>3, <1>4, <1>5, <1>6, <1>7, <1>8, <1>9 DEF Writer

(* The steps of a reader.                                                  *)
LEMMA HeldReader ==
    ASSUME ChannelAssumption, TokenInv, EndsInv, Held, NEW r \in Readers, Reader(r)
    PROVE  Held'
<1>1. /\ Types /\ OnePlace /\ Halfway /\ PipeAssumption /\ r \in Processes
      /\ {"mutex", "read", "write"} = Names /\ pipe \in PipeRecord
      /\ {"user", "exit", "r_check", "r_token", "r_mutex", "r_get", "r_unlock",
          "r_signal", "r_empty", "r_return"} \subseteq Labels \cap CallLabels
  BY AllAreEnds DEF TokenInv, Types, DataTypes, Labels, Leaving, CallLabels
<1>2. CASE ReadCall(r) \/ CheckEof(r) \/ Retry(r)
  <2>1. PICK from \in {"user", "r_check", "r_empty"},
             to \in {"r_check", "r_return", "r_token"} :
           (Step(r, from, to) \/ Enter(r, from, to)) /\ pipe' = pipe
    BY <1>2 DEF ReadCall, CheckEof, Retry
  <2>2. half[r] = "no"
    BY <1>1, <2>1, NotHalfway DEF Step, Enter, At, WaitingAt, PostingAt
  <2>. QED
    BY <1>1, <2>1, <2>2, HeldMove
<1>3. CASE WaitForByte(r)
  <2>1. ~ Fail(r, "read", "r_token", "r_return")
    BY <1>1, NoWaitFails
  <2>2. Wait(r, "read", "r_token", "r_mutex") /\ pipe' = pipe
    BY <1>3, <2>1 DEF WaitForByte
  <2>3. WaitPoint("read", "r_token", "r_mutex")
    BY DEF WaitPoint
  <2>. QED
    BY <1>1, <2>2, <2>3, HeldWait
<1>4. CASE LockToRead(r)
  <2>1. ~ Fail(r, "mutex", "r_mutex", "undo")
    BY <1>1, NoWaitFails
  <2>2. Wait(r, "mutex", "r_mutex", "r_get") /\ pipe' = pipe
    BY <1>4, <2>1 DEF LockToRead
  <2>3. WaitPoint("mutex", "r_mutex", "r_get")
    BY DEF WaitPoint
  <2>. QED
    BY <1>1, <2>2, <2>3, HeldWait
<1>5. CASE Get(r)
  <2>1. /\ Step(r, "r_get", "r_unlock") /\ half[r] = "no" /\ pipe.count > 0
        /\ pipe'.count = pipe.count - 1
    BY <1>1, <1>5 DEF Get, PipeRecord
  <2>. QED
    BY <1>1, <2>1, HeldGet
<1>6. CASE UnlockAfterRead(r)
  <2>1. Post(r, "mutex", "r_unlock", "r_signal") /\ pipe' = pipe
    BY <1>6 DEF UnlockAfterRead
  <2>2. PostPoint("mutex", "r_unlock", "r_signal")
    BY DEF PostPoint
  <2>. QED
    BY <1>1, <2>1, <2>2, HeldPost
<1>7. CASE SignalWriter(r)
  <2>1. PICK to \in {"r_return", "r_check"} :
           Post(r, "write", "r_signal", to) /\ pipe' = pipe
    BY <1>7 DEF SignalWriter
  <2>2. PostPoint("write", "r_signal", to)
    BY DEF PostPoint
  <2>. QED
    BY <1>1, <2>1, <2>2, HeldPost
<1>8. CASE FindEmpty(r)
  <2>1. Post(r, "mutex", "r_get", "r_empty") /\ pipe' = pipe
    BY <1>8 DEF FindEmpty
  <2>2. PostPoint("mutex", "r_get", "r_empty")
    BY DEF PostPoint
  <2>. QED
    BY <1>1, <2>1, <2>2, HeldPost
<1>9. CASE ReturnFromRead(r)
  <2>1. pc[r] \in CallLabels => Checked(r)
    BY <1>1, PipeIsThere DEF Checked
  <2>2. Leave(r, "r_return", AfterRead(r)) /\ pipe' = pipe
    BY <1>9, <2>1 DEF ReturnFromRead, Leave, At, CallLabels
  <2>3. half[r] = "no"
    BY <1>1, <2>2, NotHalfway DEF Leave, At, WaitingAt, PostingAt
  <2>4. AfterRead(r) \in {"user", "exit"}
    BY DEF AfterRead
  <2>. QED
    BY <1>1, <2>2, <2>3, <2>4, HeldMove
<1>. QED
  BY <1>2, <1>3, <1>4, <1>5, <1>6, <1>7, <1>8, <1>9 DEF Reader

(* Whoever closes the semaphores is alone with them.                       *)
LEMMA ClosedAlone ==
    ASSUME ChannelAssumption, EndsInv, NEW p \in Processes, pc[p] \in Closing
    PROVE  /\ pipe.count = 0 /\ OpenWriters = {} /\ OpenReaders = {}
           /\ \A o \in Processes : pc[o] \notin CallLabels
<1>1. pipe.count = 0 /\ OpenWriters = {} /\ OpenReaders = {}
  BY DEF EndsInv, EndOf
<1>2. ASSUME NEW o \in Processes, pc[o] \in CallLabels
      PROVE  FALSE
  <2>1. o \in Writers \/ o \in Readers
    BY AllAreEnds DEF Ends
  <2>. QED
    BY <1>1, <1>2, <2>1, PipeIsThere
<1>. QED
  BY <1>1, <1>2

(* The exit of a process.                                                  *)
LEMMA HeldEnd ==
    ASSUME ChannelAssumption, TokenInv, EndsInv, Held, NEW p \in Processes,
           Exit(p) \/ Termination(p)
    PROVE  Held'
<1>1. /\ Types /\ OnePlace /\ Halfway /\ PipeAssumption
      /\ {"mutex", "read", "write"} = Names /\ pipe \in PipeRecord
      /\ {"exit", "t_release", "t_eof", "t_post", "t_mutex", "t_read", "t_write",
          "t_reset", "done"} \subseteq Labels
  BY AllAreEnds DEF TokenInv, Types, DataTypes, Labels, Leaving
<1>2. CASE Exit(p) \/ Unregister(p) \/ SetEof(p) \/ Destroy(p)
  <2>1. PICK from \in {"exit", "t_release", "t_eof", "t_post"},
             to \in {"t_release", "t_eof", "t_post", "t_mutex"} :
           /\ Step(p, from, to) \/ Enter(p, from, to)
           /\ from = "t_post" => tokens[p] = 0
    BY <1>2 DEF Exit, Unregister, SetEof, Destroy
  <2>2. half[p] = "no"
    BY <1>1, <2>1, NotHalfway DEF Step, Enter, At, WaitingAt, PostingAt
  <2>3. pipe'.count = pipe.count
    BY <1>1, <1>2 DEF Exit, Unregister, SetEof, Destroy, PipeRecord
  <2>. QED
    BY <1>1, <2>1, <2>2, <2>3, HeldMove
<1>3. CASE PostEof(p)
  <2>1. Post(p, "read", "t_post", "t_post") /\ pipe' = pipe
    BY <1>3 DEF PostEof
  <2>2. PostPoint("read", "t_post", "t_post")
    BY DEF PostPoint
  <2>. QED
    BY <1>1, <2>1, <2>2, HeldPost
<1>4. CASE CloseSems(p)
  <2>1. PICK n \in Names, from \in {"t_mutex", "t_read", "t_write"},
             to \in {"t_read", "t_write", "t_reset"} : CloseSem(p, n, from, to)
    BY <1>1, <1>4 DEF CloseSems
  <2>2. pc[p] \in Closing /\ pipe' = pipe
    BY <2>1 DEF CloseSem, At, Closing
  <2>3. to \in Leaving
    BY DEF Leaving
  <2>. QED
    BY <1>1, <2>1, <2>2, <2>3, ClosedAlone, HeldClose
<1>5. CASE DieInUse(p) \/ DieAfterReset(p)
  <2>1. PICK from \in {"t_post", "t_reset"} :
           Die(p, from) /\ (from = "t_post" => tokens[p] = 0)
    BY <1>5 DEF DieInUse, DieAfterReset
  <2>2. Alone(p) /\ sem_table' = sem_table /\ pc'[p] = "done" /\ pc[p] = from
    BY <1>1, <2>1, DieEffect
  <2>3. pipe'.count = pipe.count
    <3>1. CASE DieInUse(p)
      BY <3>1 DEF DieInUse
    <3>2. CASE DieAfterReset(p)
      <4>1. pc[p] = "t_reset"
        BY <3>2 DEF DieAfterReset, Die, At
      <4>2. pipe.count = 0
        BY <4>1, ClosedAlone DEF Closing
      <4>. QED
        BY <1>1, <3>2, <4>2 DEF DieAfterReset, PipeRecord
    <3>. QED
      BY <1>5, <3>1, <3>2
  <2>4. ~ Locks(p)' /\ ~ Reserves(p)'
    BY <2>2 DEF Locks, Reserves
  <2>. QED
    BY <1>1, <2>2, <2>3, <2>4, HeldQuiet
<1>. QED
  BY <1>2, <1>3, <1>4, <1>5 DEF Termination
---------------------------------------------------------------------------
(* The ring and the channel *)

\* A step of p that moves no byte, closes no end and tells nobody of the end.
SameRing ==
    /\ pipe'.readIndex = pipe.readIndex /\ pipe'.writeIndex = pipe.writeIndex
    /\ pipe'.count = pipe.count /\ pipe'.buffer = pipe.buffer
    /\ sent' = sent /\ got' = got

SameEnds == \A t \in Ends : desc'[t] = "open" <=> desc[t] = "open"

Aside(p) ==
    /\ Alone(p) /\ SameRing /\ SameEnds
    /\ pc'[p] # "w_count"
    /\ p \in Readers => (pc'[p] \in Leaving <=> pc[p] \in Leaving)

(* A step of a call which is not one of those.                             *)
LEMMA AsideCall ==
    ASSUME Types, NEW p \in Processes, NEW from \in CallLabels, NEW to \in CallLabels,
           InCall(p, from, to), pipe' = pipe, UNCHANGED locals,
           to # "w_count", from \notin {"exit", "w_count"}, p \in Readers => to # "exit"
    PROVE  Aside(p)
<1>1. from \in Labels /\ to \in Labels
  BY DEF CallLabels, Labels, Leaving
<1>2. Alone(p) /\ pc[p] = from /\ pc'[p] \in {from, to}
  <2>1. CASE Step(p, from, to) \/ Enter(p, from, to) \/ Leave(p, from, to)
    BY <1>1, <2>1, QuietEffect
  <2>2. CASE \E n \in Names : Wait(p, n, from, to)
    BY <1>1, <2>2, WaitEffect
  <2>3. CASE \E n \in Names : Post(p, n, from, to)
    BY <1>1, <2>3, PostMoves
  <2>. QED
    BY <2>1, <2>2, <2>3 DEF InCall
<1>3. SameRing /\ SameEnds
  BY DEF SameRing, SameEnds, locals
<1>4. p \in Readers => pc[p] \notin Leaving /\ pc'[p] \notin Leaving
  BY <1>2 DEF CallLabels, Leaving
<1>. QED
  BY <1>2, <1>3, <1>4 DEF Aside

(* What a writer does to the channel.                                      *)
LEMMA WriterAside ==
    ASSUME ChannelAssumption, TokenInv, EndsInv, NEW w \in Writers, Writer(w),
           ~ Store(w), ~ Count(w)
    PROVE  Aside(w)
<1>1. /\ Types /\ OnePlace /\ w \in Processes /\ w \notin Readers
      /\ {"mutex", "read", "write"} = Names
      /\ {"user", "exit", "w_room", "w_mutex", "w_put", "w_unlock",
          "w_signal", "w_return"} \subseteq Labels \cap CallLabels
  BY AllAreEnds DEF TokenInv, Labels, Leaving, CallLabels
<1>2. CASE WriteCall(w)
  <2>1. Enter(w, "user", "w_room") /\ UNCHANGED <<pipe, sent, got, desc>>
    BY <1>2 DEF WriteCall
  <2>2. Alone(w) /\ pc'[w] = "w_room"
    BY <1>1, <2>1, QuietEffect
  <2>. QED
    BY <1>1, <2>1, <2>2 DEF Aside, SameRing, SameEnds
<1>3. CASE WaitForRoom(w)
  <2>1. ~ Fail(w, "write", "w_room", "w_return")
    BY <1>1, NoWaitFails
  <2>2. InCall(w, "w_room", "w_mutex") /\ pipe' = pipe /\ UNCHANGED locals
    BY <1>1, <1>3, <2>1 DEF WaitForRoom, InCall
  <2>. QED
    BY <1>1, <2>2, AsideCall
<1>4. CASE LockToWrite(w)
  <2>1. ~ Fail(w, "mutex", "w_mutex", "undo")
    BY <1>1, NoWaitFails
  <2>2. InCall(w, "w_mutex", "w_put") /\ pipe' = pipe /\ UNCHANGED locals
    BY <1>1, <1>4, <2>1 DEF LockToWrite, InCall
  <2>. QED
    BY <1>1, <2>2, AsideCall
<1>5. CASE UnlockAfterWrite(w)
  <2>1. InCall(w, "w_unlock", "w_signal") /\ pipe' = pipe /\ UNCHANGED locals
    BY <1>1, <1>5 DEF UnlockAfterWrite, InCall
  <2>. QED
    BY <1>1, <2>1, AsideCall
<1>6. CASE SignalReader(w)
  <2>1. PICK to \in {"w_return", "w_room"} :
           InCall(w, "w_signal", to) /\ pipe' = pipe /\ UNCHANGED locals
    BY <1>1, <1>6 DEF SignalReader, InCall
  <2>. QED
    BY <1>1, <2>1, AsideCall
<1>7. CASE ReturnFromWrite(w)
  <2>1. PICK l \in {"w_return", "w_room", "w_mutex", "w_put", "w_unlock", "w_signal"} :
           InCall(w, l, AfterWrite(w)) /\ pipe' = pipe /\ UNCHANGED locals
    BY <1>7 DEF ReturnFromWrite, InCall
  <2>2. AfterWrite(w) \in {"user", "exit"}
    BY DEF AfterWrite
  <2>. QED
    BY <1>1, <2>1, <2>2, AsideCall
<1>. QED
  BY <1>2, <1>3, <1>4, <1>5, <1>6, <1>7 DEF Writer

\* The last return of a reader.
FindsEnd(r) ==
    /\ Leave(r, "r_return", "exit") /\ left[r] = ReadSize[r]
    /\ pipe' = pipe /\ UNCHANGED locals

(* What a reader does to the channel.                                      *)
LEMMA ReaderAside ==
    ASSUME ChannelAssumption, TokenInv, EndsInv, NEW r \in Readers, Reader(r),
           ~ Get(r), ~ FindsEnd(r)
    PROVE  Aside(r)
<1>1. /\ Types /\ OnePlace /\ r \in Processes
      /\ {"mutex", "read", "write"} = Names
      /\ {"user", "exit", "r_check", "r_token", "r_mutex", "r_get", "r_unlock",
          "r_signal", "r_empty", "r_return"} \subseteq Labels \cap CallLabels
  BY AllAreEnds DEF TokenInv, Labels, Leaving, CallLabels
<1>2. CASE ReadCall(r)
  <2>1. Enter(r, "user", "r_check") /\ UNCHANGED <<pipe, sent, got, desc>>
    BY <1>2 DEF ReadCall
  <2>2. Alone(r) /\ pc[r] = "user" /\ pc'[r] = "r_check"
    BY <1>1, <2>1, QuietEffect
  <2>. QED
    BY <1>1, <2>1, <2>2 DEF Aside, SameRing, SameEnds, Leaving
<1>3. CASE CheckEof(r) \/ Retry(r)
  <2>1. PICK from \in {"r_check", "r_empty"}, to \in {"r_check", "r_return", "r_token"} :
           InCall(r, from, to) /\ pipe' = pipe /\ UNCHANGED locals
    BY <1>3 DEF CheckEof, Retry, InCall
  <2>. QED
    BY <1>1, <2>1, AsideCall
<1>4. CASE WaitForByte(r)
  <2>1. ~ Fail(r, "read", "r_token", "r_return")
    BY <1>1, NoWaitFails
  <2>2. InCall(r, "r_token", "r_mutex") /\ pipe' = pipe /\ UNCHANGED locals
    BY <1>1, <1>4, <2>1 DEF WaitForByte, InCall
  <2>. QED
    BY <1>1, <2>2, AsideCall
<1>5. CASE LockToRead(r)
  <2>1. ~ Fail(r, "mutex", "r_mutex", "undo")
    BY <1>1, NoWaitFails
  <2>2. InCall(r, "r_mutex", "r_get") /\ pipe' = pipe /\ UNCHANGED locals
    BY <1>1, <1>5, <2>1 DEF LockToRead, InCall
  <2>. QED
    BY <1>1, <2>2, AsideCall
<1>6. CASE UnlockAfterRead(r)
  <2>1. InCall(r, "r_unlock", "r_signal") /\ pipe' = pipe /\ UNCHANGED locals
    BY <1>1, <1>6 DEF UnlockAfterRead, InCall
  <2>. QED
    BY <1>1, <2>1, AsideCall
<1>7. CASE SignalWriter(r)
  <2>1. PICK to \in {"r_return", "r_check"} :
           InCall(r, "r_signal", to) /\ pipe' = pipe /\ UNCHANGED locals
    BY <1>1, <1>7 DEF SignalWriter, InCall
  <2>. QED
    BY <1>1, <2>1, AsideCall
<1>8. CASE FindEmpty(r)
  <2>1. InCall(r, "r_get", "r_empty") /\ pipe' = pipe /\ UNCHANGED locals
    BY <1>1, <1>8 DEF FindEmpty, InCall
  <2>. QED
    BY <1>1, <2>1, AsideCall
<1>9. CASE ReturnFromRead(r)
  <2>1. pc[r] \in CallLabels => Checked(r)
    BY <1>1, PipeIsThere DEF Checked
  <2>2. Leave(r, "r_return", AfterRead(r)) /\ pipe' = pipe /\ UNCHANGED locals
    BY <1>9, <2>1 DEF ReturnFromRead, Leave, At, CallLabels
  <2>3. AfterRead(r) = "user"
    BY <2>2 DEF AfterRead, FindsEnd
  <2>4. InCall(r, "r_return", "user")
    BY <2>2, <2>3 DEF InCall
  <2>. QED
    BY <1>1, <2>2, <2>4, AsideCall
<1>. QED
  BY <1>2, <1>3, <1>4, <1>5, <1>6, <1>7, <1>8, <1>9 DEF Reader

(* What the exit of a process does to the channel.                         *)
LEMMA EndAside ==
    ASSUME ChannelAssumption, TokenInv, EndsInv, NEW p \in Processes,
           Exit(p) \/ Termination(p), ~ Unregister(p), ~ DieAfterReset(p)
    PROVE  Aside(p)
<1>1. /\ Types /\ OnePlace /\ Halfway /\ p \in Ends /\ pipe \in PipeRecord
      /\ {"mutex", "read", "write"} = Names
      /\ {"exit", "t_release", "t_eof", "t_post", "t_mutex", "t_read", "t_write",
          "t_reset", "done"} = Leaving /\ Leaving \subseteq Labels
  BY AllAreEnds DEF TokenInv, Types, DataTypes, Labels, Leaving
<1>2. CASE Exit(p)
  <2>1. /\ Step(p, "exit", "t_release") \/ Enter(p, "exit", "t_release")
        /\ UNCHANGED <<pipe, sent, got, desc>>
    BY <1>2 DEF Exit
  <2>2. Alone(p) /\ pc[p] = "exit" /\ pc'[p] = "t_release"
    BY <1>1, <2>1, QuietEffect
  <2>. QED
    BY <1>1, <2>1, <2>2 DEF Aside, SameRing, SameEnds
<1>3. CASE Termination(p)
  <2>1. SameEnds /\ pc[p] \in Leaving /\ pc'[p] \in Leaving
    BY <1>1, <1>3, EndsTermination DEF SameEnds
  <2>2. Alone(p) /\ SameRing
    <3>1. CASE SetEof(p)
      <4>1. Step(p, "t_eof", "t_post") /\ UNCHANGED <<sent, got>>
        BY <3>1 DEF SetEof
      <4>2. pipe' = [pipe EXCEPT !.eof = pipe'.eof]
        BY <1>1, <3>1 DEF SetEof, PipeRecord
      <4>3. SameRing
        BY <1>1, <4>1, <4>2 DEF SameRing, PipeRecord
      <4>. QED
        BY <1>1, <4>1, <4>3, QuietEffect
    <3>2. CASE PostEof(p)
      <4>1. Post(p, "read", "t_post", "t_post") /\ UNCHANGED <<pipe, sent, got>>
        BY <3>2 DEF PostEof
      <4>. QED
        BY <1>1, <4>1, PostMoves DEF SameRing
    <3>3. CASE Destroy(p)
      <4>1. Step(p, "t_post", "t_mutex") /\ UNCHANGED <<pipe, sent, got>>
        BY <3>3 DEF Destroy, locals
      <4>. QED
        BY <1>1, <4>1, QuietEffect DEF SameRing
    <3>4. CASE CloseSems(p)
      <4>1. PICK n \in Names, from \in Leaving, to \in Leaving : CloseSem(p, n, from, to)
        BY <1>1, <3>4 DEF CloseSems
      <4>2. UNCHANGED <<pipe, sent, got>>
        BY <4>1 DEF CloseSem, locals
      <4>. QED
        BY <1>1, <4>1, <4>2, CloseEffect DEF SameRing
    <3>5. CASE DieInUse(p)
      <4>1. Die(p, "t_post") /\ tokens[p] = 0 /\ UNCHANGED <<pipe, sent, got>>
        BY <3>5 DEF DieInUse, Die
      <4>. QED
        BY <1>1, <4>1, DieEffect DEF SameRing
    <3>. QED
      BY <1>3, <3>1, <3>2, <3>3, <3>4, <3>5 DEF Termination
  <2>3. pc'[p] # "w_count"
    BY <2>1 DEF Leaving
  <2>. QED
    BY <2>1, <2>2, <2>3 DEF Aside
<1>. QED
  BY <1>2, <1>3

(* The steps, as far as the channel sees them.                             *)
LEMMA ChannelSteps ==
    ASSUME ChannelAssumption, TokenInv, EndsInv, PipeNext
    PROVE  \/ UNCHANGED pipeVars
           \/ \E w \in Writers : Store(w) \/ Count(w)
           \/ \E r \in Readers : Get(r) \/ FindsEnd(r)
           \/ \E p \in Processes : Unregister(p) \/ DieAfterReset(p) \/ Aside(p)
<1>1. ASSUME NEW p \in Processes, Undo(p)
      PROVE  FALSE
  <2>1. pc[p] = "undo"
    BY <1>1 DEF Undo, Post, At
  <2>. QED
    BY <2>1 DEF EndsInv, EndOf
<1>2. ASSUME NEW p \in Processes, Exit(p) \/ Termination(p)
      PROVE  Unregister(p) \/ DieAfterReset(p) \/ Aside(p)
  BY <1>2, EndAside
<1>3. Killers = {} /\ Writers \subseteq Processes /\ Readers \subseteq Processes
  BY AllAreEnds DEF ChannelAssumption
<1>. QED
  BY <1>1, <1>2, <1>3, WriterAside, ReaderAside DEF PipeNext, ProcessStep, Finished
(* Positions around the end of the ring.                                   *)
LEMMA Around ==
    ASSUME NEW m \in Nat \ {0}, NEW x \in 0 .. 2 * m - 1
    PROVE  x % m = IF x < m THEN x ELSE x - m
<1> DEFINE k == x \div m
           y == x % m
<1>1. k \in Nat /\ y \in 0 .. m - 1 /\ x = m * k + y /\ x < m + m
  OBVIOUS
<1>. HIDE DEF k, y
<1>2. ~ k >= 2
  <2>1. ASSUME k >= 2
        PROVE  m * k = m * 2 + m * (k - 2) /\ m * (k - 2) \in Nat
    BY <1>1, <2>1
  <2>. QED
    BY <1>1, <2>1
<1>3. k = 0 \/ k = 1
  BY <1>1, <1>2
<1>. QED
  BY <1>1, <1>3 DEF y

(* Two processes never hold the mutex.                                     *)
LEMMA OnlyLocker ==
    ASSUME ChannelAssumption, Types, OneLocker, NEW p \in Processes, Locks(p),
           NEW o \in Processes, Locks(o)
    PROVE  p = o
<1>1. IsFiniteSet(Lockers) /\ p \in Lockers /\ o \in Lockers /\ "mutex" \in Names
  BY AllAreEnds, FS_Subset DEF Lockers
<1>2. Cardinality(Lockers) \in Nat /\ Cardinality(Lockers) <= 1
  BY <1>1, EntryType, FS_CardinalityType DEF OneLocker
<1>3. ASSUME p # o
      PROVE  FALSE
  <2>1. Cardinality({o}) <= Cardinality(Lockers) - 1
    BY <1>1, <1>3, Sizes
  <2>2. Cardinality({o}) = 1
    BY FS_Singleton
  <2>. QED
    BY <1>2, <2>1, <2>2
<1>. QED
  BY <1>3

(* Who has room has it beside what is in the ring.                         *)
LEMMA RoomLeft ==
    ASSUME ChannelAssumption, Types, RoomForAll
    PROVE  /\ pipe.count <= PIPE_BUFFER_SIZE
           /\ \A p \in Processes : Reserves(p) => pipe.count < PIPE_BUFFER_SIZE
<1>1. /\ IsFiniteSet(Reservers) /\ Cardinality(Reservers) \in Nat /\ "write" \in Names
      /\ PIPE_BUFFER_SIZE \in Nat /\ pipe.count \in Nat
  BY AllAreEnds, FS_Subset, FS_CardinalityType DEF Reservers, Types, DataTypes, PipeRecord
<1>2. sem_table["write"].value \in Nat
  BY <1>1, EntryType
<1>3. ASSUME NEW p \in Processes, Reserves(p)
      PROVE  Cardinality(Reservers) > 0
  <2>1. Reservers # {}
    BY <1>3 DEF Reservers
  <2>. QED
    BY <1>1, <2>1, FS_EmptySet
<1>. QED
  BY <1>1, <1>2, <1>3 DEF RoomForAll

(* One turn of the ring at most.                                           *)
LEMMA CellValue ==
    ASSUME PIPE_BUFFER_SIZE \in Nat \ {0}, NEW r \in Places, NEW i \in Nat,
           i > 0, i <= PIPE_BUFFER_SIZE + 1
    PROVE  /\ Cell(r, i) \in Places
           /\ Cell(r, i) = r + i - 1 \/ Cell(r, i) = r + i - 1 - PIPE_BUFFER_SIZE
<1>1. r + i - 1 \in 0 .. 2 * PIPE_BUFFER_SIZE - 1 /\ r \in Nat
  BY DEF Places
<1> DEFINE x == r + i - 1
           m == PIPE_BUFFER_SIZE
<1>2. x % m = IF x < m THEN x ELSE x - m
  BY <1>1, Around
<1>. QED
  BY <1>1, <1>2 DEF Cell, Places

(* The cells from one on.                                                  *)
LEMMA CellFacts ==
    ASSUME PIPE_BUFFER_SIZE \in Nat \ {0}, NEW r \in Places
    PROVE  /\ \A i \in 1 .. PIPE_BUFFER_SIZE + 1 : Cell(r, i) \in Places
           /\ \A i, j \in 1 .. PIPE_BUFFER_SIZE : Cell(r, i) = Cell(r, j) => i = j
           /\ \A i, j \in 1 .. PIPE_BUFFER_SIZE + 1 :
                 j = i + 1 => /\ Cell(Cell(r, i), 2) = Cell(r, j)
                              /\ Cell(Cell(r, 2), i) = Cell(r, j)
           /\ Cell(r, 1) = r
<1> DEFINE m == PIPE_BUFFER_SIZE
<1>1. m \in Nat /\ m > 0 /\ \A s \in Places : s \in Nat /\ s < m
  BY DEF Places
<1>2. \A s \in Places, i \in 1 .. m + 1 :
         Cell(s, i) \in Places /\ (Cell(s, i) = s + i - 1 \/ Cell(s, i) = s + i - 1 - m)
  BY CellValue
<1>. HIDE DEF m
<1>3. ASSUME NEW i \in 1 .. m, NEW j \in 1 .. m, Cell(r, i) = Cell(r, j)
      PROVE  i = j
  <2>1. /\ Cell(r, i) = r + i - 1 \/ Cell(r, i) = r + i - 1 - m
        /\ Cell(r, j) = r + j - 1 \/ Cell(r, j) = r + j - 1 - m
    BY <1>1, <1>2
  <2>. QED
    BY <1>1, <1>3, <2>1
<1>4. ASSUME NEW i \in 1 .. m + 1, NEW j \in 1 .. m + 1, j = i + 1
      PROVE  /\ Cell(Cell(r, i), 2) = Cell(r, j)
             /\ Cell(Cell(r, 2), i) = Cell(r, j)
  <2> DEFINE a == Cell(r, i)
             b == Cell(r, 2)
             c == Cell(r, j)
             d == Cell(a, 2)
             e == Cell(b, i)
  <2>1. /\ a \in Places /\ (a = r + i - 1 \/ a = r + i - 1 - m)
        /\ b \in Places /\ (b = r + 2 - 1 \/ b = r + 2 - 1 - m)
        /\ c \in Places /\ (c = r + j - 1 \/ c = r + j - 1 - m)
    BY <1>1, <1>2
  <2>2. d \in Places /\ (d = a + 2 - 1 \/ d = a + 2 - 1 - m)
    BY <1>1, <1>2, <2>1
  <2>3. e \in Places /\ (e = b + i - 1 \/ e = b + i - 1 - m)
    BY <1>1, <1>2, <2>1
  <2>. HIDE DEF a, b, c, d, e
  <2>4. /\ a \in Nat /\ b \in Nat /\ c \in Nat /\ d \in Nat /\ e \in Nat /\ r \in Nat
        /\ a < m /\ b < m /\ c < m /\ d < m /\ e < m
    BY <1>1, <2>1, <2>2, <2>3
  <2>5. d = c
    BY <1>1, <1>4, <2>1, <2>2, <2>4
  <2>6. e = c
    BY <1>1, <1>4, <2>1, <2>3, <2>4
  <2>. QED
    BY <2>5, <2>6 DEF a, b, c, d, e
<1>5. Cell(r, 1) = r
  <2>1. /\ Cell(r, 1) \in Places
        /\ Cell(r, 1) = r + 1 - 1 \/ Cell(r, 1) = r + 1 - 1 - m
    BY <1>1, <1>2
  <2>. QED
    BY <1>1, <2>1
<1>. QED
  BY <1>2, <1>3, <1>4, <1>5 DEF m

\* The c cells of the buffer b from read on, as a sequence.
RingOf(read, c, b) == [i \in 1 .. c |-> b[(read + i - 1) % PIPE_BUFFER_SIZE]]

(* The bytes of a ring, and their sequence.                                *)
LEMMA RingBytes ==
    ASSUME NEW read, NEW c, NEW b
    PROVE  /\ \A i \in 1 .. c : RingOf(read, c, b)[i] = b[Cell(read, i)]
           /\ c \in Nat => Len(RingOf(read, c, b)) = c
  BY DEF RingOf, Cell

(* The ring is a sequence of what is in its cells.                         *)
LEMMA RingSequence ==
    ASSUME PIPE_BUFFER_SIZE \in Nat \ {0}, NEW T, NEW read \in Places,
           NEW b \in [Places -> T],
           NEW c \in 0 .. PIPE_BUFFER_SIZE
    PROVE  RingOf(read, c, b) \in Seq(T)
<1>1. RingOf(read, c, b) = [i \in 1 .. c |-> b[Cell(read, i)]]
  BY DEF RingOf, Cell
<1>2. ASSUME NEW i \in 1 .. c
      PROVE  b[Cell(read, i)] \in T
  <2>1. i \in 1 .. PIPE_BUFFER_SIZE + 1
    OBVIOUS
  <2>. QED
    BY <2>1, CellFacts
<1>3. RingOf(read, c, b) \in [1 .. c -> T]
  BY <1>1, <1>2
<1>4. c \in Nat
  OBVIOUS
<1>. QED
  BY <1>3, <1>4

(* A byte more at the end.                                                 *)
LEMMA RingAppend ==
    ASSUME PIPE_BUFFER_SIZE \in Nat \ {0}, NEW T, NEW read \in Places,
           NEW b \in [Places -> T],
           NEW c \in 0 .. PIPE_BUFFER_SIZE, NEW d \in 0 .. PIPE_BUFFER_SIZE, d = c + 1
    PROVE  RingOf(read, d, b) = Append(RingOf(read, c, b), b[Cell(read, d)])
<1> DEFINE s == RingOf(read, c, b)
           t == RingOf(read, d, b)
           x == b[Cell(read, d)]
<1>1. c \in Nat /\ d \in 1 .. d /\ d \in 1 .. PIPE_BUFFER_SIZE + 1
  OBVIOUS
<1>2. /\ s \in Seq(T)
      /\ Len(s) = c
      /\ \A i \in 1 .. c : s[i] = b[Cell(read, i)]
  BY <1>1, RingSequence, RingBytes
<1>3. /\ t \in Seq(T)
      /\ Len(t) = d
      /\ \A i \in 1 .. d : t[i] = b[Cell(read, i)]
  BY <1>1, RingSequence, RingBytes
<1>4. x \in T
  BY <1>1, CellFacts
<1>5. t[d] = x
  BY <1>1, <1>3
<1>. HIDE DEF s, t, x
<1>6. /\ Append(s, x) \in Seq(T) /\ Len(Append(s, x)) = d
      /\ \A i \in 1 .. c : Append(s, x)[i] = s[i]
      /\ Append(s, x)[d] = x
  BY <1>1, <1>2, <1>4, AppendProperties
<1>7. ASSUME NEW i \in 1 .. d
      PROVE  Append(s, x)[i] = t[i]
  <2>1. CASE i = d
    BY <1>5, <1>6, <2>1
  <2>2. CASE i # d
    <3>1. i \in 1 .. c
      BY <1>1, <2>2
    <3>. QED
      BY <1>2, <1>3, <1>6, <3>1
  <2>. QED
    BY <2>1, <2>2
<1>8. Append(s, x) = t
  BY <1>3, <1>6, <1>7, SeqEqual
<1>. QED
  BY <1>8 DEF s, t, x

(* A byte less at the head.                                                *)
LEMMA RingTail ==
    ASSUME PIPE_BUFFER_SIZE \in Nat \ {0}, NEW T, NEW read \in Places,
           NEW b \in [Places -> T],
           NEW c \in 0 .. PIPE_BUFFER_SIZE, NEW d \in 0 .. PIPE_BUFFER_SIZE, c = d + 1
    PROVE  /\ RingOf(Cell(read, 2), d, b) = Tail(RingOf(read, c, b))
           /\ Head(RingOf(read, c, b)) = b[read] /\ RingOf(read, c, b) # <<>>
<1> DEFINE s == RingOf(read, c, b)
           next == Cell(read, 2)
           t == RingOf(next, d, b)
<1>1. c \in Nat /\ d \in Nat /\ 1 \in 1 .. c /\ 2 \in 1 .. PIPE_BUFFER_SIZE + 1
  OBVIOUS
<1>2. next \in Places
  BY <1>1, CellFacts
<1>3. /\ s \in Seq(T)
      /\ Len(s) = c
      /\ \A i \in 1 .. c : s[i] = b[Cell(read, i)]
  BY <1>1, RingSequence, RingBytes
<1>. HIDE DEF next
<1>4. /\ t \in Seq(T)
      /\ Len(t) = d
      /\ \A i \in 1 .. d : t[i] = b[Cell(next, i)]
  BY <1>2, RingSequence, RingBytes
<1>. HIDE DEF s, t
<1>5. s # <<>>
  BY <1>1, <1>3, EmptySeq
<1>6. /\ Tail(s) \in Seq(T) /\ Len(Tail(s)) = d /\ Head(s) = s[1]
      /\ \A i \in 1 .. d : Tail(s)[i] = s[i + 1]
  BY <1>1, <1>3, <1>5, HeadTailProperties
<1>7. ASSUME NEW i \in 1 .. d
      PROVE  Tail(s)[i] = t[i]
  <2> DEFINE j == i + 1
  <2>1. j \in 1 .. c /\ j = i + 1 /\ {i, j} \subseteq 1 .. PIPE_BUFFER_SIZE + 1
    BY <1>1
  <2>2. Tail(s)[i] = s[j]
    BY <1>6
  <2>. HIDE DEF j
  <2>3. Cell(next, i) = Cell(read, j)
    BY <2>1, CellFacts DEF next
  <2>. QED
    BY <1>3, <1>4, <2>1, <2>2, <2>3
<1>8. Tail(s) = t
  BY <1>4, <1>6, <1>7, SeqEqual
<1>9. s[1] = b[read]
  BY <1>1, <1>3, CellFacts
<1>. QED
  BY <1>6, <1>8, <1>9, <1>5 DEF s, t, next

(* The cell behind the last byte is none of theirs.                        *)
LEMMA RingBehind ==
    ASSUME PIPE_BUFFER_SIZE \in Nat \ {0}, NEW T, NEW read \in Places,
           NEW b \in [Places -> T],
           NEW c \in 0 .. PIPE_BUFFER_SIZE, NEW d \in 0 .. PIPE_BUFFER_SIZE, d = c + 1,
           NEW e \in [Places -> T], \A l \in Places : l # Cell(read, d) => e[l] = b[l]
    PROVE  RingOf(read, c, e) = RingOf(read, c, b)
<1> DEFINE s == RingOf(read, c, b)
           t == RingOf(read, c, e)
<1>1. c \in Nat
  OBVIOUS
<1>2. e \in [Places -> T] /\ \A l \in Places : l # Cell(read, d) => e[l] = b[l]
  OBVIOUS
<1>3. /\ s \in Seq(T)
      /\ Len(s) = c
      /\ \A i \in 1 .. c : s[i] = b[Cell(read, i)]
  BY <1>2, RingSequence, RingBytes
<1>4. t \in Seq(T)
  BY <1>2, RingSequence
<1>5. Len(t) = c /\ \A i \in 1 .. c : t[i] = e[Cell(read, i)]
  BY <1>1, RingBytes
<1>. HIDE DEF s, t
<1>6. ASSUME NEW i \in 1 .. c
      PROVE  e[Cell(read, i)] = b[Cell(read, i)]
  <2>1. {i, d} \subseteq 1 .. PIPE_BUFFER_SIZE /\ i # d /\ i \in 1 .. PIPE_BUFFER_SIZE + 1
    OBVIOUS
  <2>2. Cell(read, i) \in Places /\ Cell(read, i) # Cell(read, d)
    BY <2>1, CellFacts
  <2>. QED
    BY <1>2, <2>2
<1>7. t = s
  BY <1>3, <1>4, <1>6, <1>5, SeqEqual
<1>. QED
  BY <1>7 DEF s, t

(* What the types say of the ring.                                         *)
LEMMA RingFacts ==
    ASSUME ChannelAssumption, Types, RoomForAll, Ring
    PROVE  /\ PIPE_BUFFER_SIZE \in Nat \ {0}
           /\ pipe.readIndex \in Places /\ pipe.writeIndex \in Places
           /\ pipe.count \in 0 .. PIPE_BUFFER_SIZE
           /\ pipe \in PipeRecord
           /\ pipe.buffer \in [Places -> (Writers \X Nat) \cup {Nobody}]
           /\ Contents = RingOf(pipe.readIndex, pipe.count, pipe.buffer)
<1>1. /\ PIPE_BUFFER_SIZE \in Nat \ {0} /\ pipe \in PipeRecord
      /\ pipe.count \in Nat /\ pipe.readIndex \in Places
      /\ pipe.buffer \in [Places -> (Writers \X Nat) \cup {Nobody}]
  BY AllAreEnds DEF Types, DataTypes, PipeRecord, Ring, Places
<1>2. pipe.count \in 0 .. PIPE_BUFFER_SIZE
  BY <1>1, RoomLeft
<1>3. pipe.writeIndex \in Places
  <2> DEFINE d == pipe.count + 1
  <2>1. d \in 1 .. PIPE_BUFFER_SIZE + 1
    BY <1>1, <1>2
  <2>. HIDE DEF d
  <2>2. Cell(pipe.readIndex, d) \in Places
    BY <1>1, <2>1, CellFacts
  <2>. QED
    BY <2>2 DEF Ring, d
<1>4. Contents = RingOf(pipe.readIndex, pipe.count, pipe.buffer)
  BY DEF Contents, RingOf
<1>. QED
  BY <1>1, <1>2, <1>3, <1>4
(* A step which is none of those of the ring leaves it alone.              *)
LEMMA RingStays ==
    ASSUME Ring, SameRing
    PROVE  Ring' /\ Contents' = Contents
<1>1. Ring'
  BY DEF SameRing, Ring
<1>2. Contents' = Contents
  BY DEF SameRing, Contents
<1>. QED
  BY <1>1, <1>2

(* A byte in the cell behind the ring: the one to be counted.              *)
LEMMA StoreStep ==
    ASSUME ChannelAssumption, TokenInv, OneLocker, RoomForAll, Ring,
           NEW w \in Writers, Store(w)
    PROVE  /\ Ring' /\ Stored' /\ Contents' = Contents
           /\ sent' = sent /\ got' = got /\ desc' = desc
           /\ Alone(w) /\ pc'[w] = "w_count" /\ pc[w] = "w_put"
<1>1. /\ Types /\ OnePlace /\ Halfway /\ w \in Processes
      /\ "mutex" \in Names /\ "w_put" \in Labels /\ "w_count" \in Labels
  BY AllAreEnds DEF TokenInv, Labels, Leaving
<1>2. /\ Step(w, "w_put", "w_count") /\ sent' = sent /\ got' = got /\ desc' = desc
      /\ pipe' = [pipe EXCEPT !.buffer[pipe.writeIndex] = <<w, sent[w] + 1>>]
  BY DEF Store, locals
<1>3. /\ Alone(w) /\ pc'[w] = "w_count" /\ pc[w] = "w_put" /\ state[w] = "READY"
  BY <1>1, <1>2, QuietEffect
<1>4. Locks(w)
  <2>1. half[w] # "queued"
    BY <1>1, <1>3, NotHalfway DEF WaitingAt, PostingAt
  <2>2. ~ InQueue(w, "mutex")
    BY <1>1, <1>3, <2>1, RunnerHasLeft
  <2>. QED
    BY <1>3, <2>2 DEF Locks
<1> DEFINE T == (Writers \X Nat) \cup {Nobody}
           b == pipe.buffer
           c == pipe.count
           d == c + 1
           read == pipe.readIndex
           x == <<w, sent[w] + 1>>
<1>5. /\ PIPE_BUFFER_SIZE \in Nat \ {0} /\ read \in Places /\ pipe \in PipeRecord
      /\ c \in 0 .. PIPE_BUFFER_SIZE /\ b \in [Places -> T] /\ pipe.writeIndex \in Places
      /\ Contents = RingOf(read, c, b)
  BY <1>1, RingFacts
<1>6. d \in 0 .. PIPE_BUFFER_SIZE /\ d = c + 1
  <2>1. Reserves(w)
    BY <1>3 DEF Reserves
  <2>2. c < PIPE_BUFFER_SIZE
    BY <1>1, <2>1, RoomLeft
  <2>. QED
    BY <1>5, <2>2
<1>7. x \in T /\ sent[w] \in Nat
  BY <1>1 DEF Types, DataTypes
<1>8. pipe.writeIndex = Cell(read, d)
  BY DEF Ring
<1>9. /\ pipe'.buffer = [b EXCEPT ![pipe.writeIndex] = x]
      /\ pipe'.readIndex = read /\ pipe'.count = c /\ pipe'.writeIndex = pipe.writeIndex
  BY <1>2, <1>5 DEF PipeRecord
<1>10. Ring'
  BY <1>9 DEF Ring
<1>11. Contents' = Contents
  <2>1. Contents' = RingOf(read, c, pipe'.buffer)
    BY <1>9 DEF Contents, RingOf
  <2> DEFINE f == pipe'.buffer
  <2>2. f \in [Places -> T] /\ \A l \in Places : l # Cell(read, d) => f[l] = b[l]
    BY <1>5, <1>7, <1>8, <1>9
  <2>. HIDE DEF T, b, c, d, f, read, x
  <2>3. RingOf(read, c, f) = RingOf(read, c, b)
    BY <1>5, <1>6, <2>2, RingBehind
  <2>. QED
    BY <1>5, <2>1, <2>3 DEF f
<1>12. Stored'
  <2>1. ASSUME NEW v \in Writers, pc'[v] = "w_count"
        PROVE  v = w
    <3>1. ASSUME v # w
          PROVE  FALSE
      <4>1. v \in Processes /\ pc[v] = "w_count"
        BY <1>3, <2>1, <3>1, AllAreEnds DEF Alone
      <4>2. Locks(v)
        BY <4>1 DEF Locks
      <4>. QED
        BY <1>1, <1>4, <3>1, <4>1, <4>2, OnlyLocker
    <3>. QED
      BY <3>1
  <2>2. pipe'.buffer[pipe'.writeIndex] = <<w, sent'[w] + 1>>
    BY <1>2, <1>5, <1>9
  <2>. QED
    BY <2>1, <2>2 DEF Stored
<1>. QED
  BY <1>2, <1>3, <1>10, <1>11, <1>12

(* The byte is in the ring when it is counted.                             *)
LEMMA CountStep ==
    ASSUME ChannelAssumption, TokenInv, OneLocker, RoomForAll, Ring, Stored,
           NEW w \in Writers, Count(w)
    PROVE  /\ Ring' /\ Stored' /\ got' = got /\ desc' = desc
           /\ Contents' = Append(Contents, <<w, sent[w] + 1>>)
           /\ Len(Contents) < PIPE_BUFFER_SIZE
           /\ sent' = [sent EXCEPT ![w] = @ + 1]
           /\ Alone(w) /\ pc'[w] = "w_unlock" /\ pc[w] = "w_count"
<1>1. /\ Types /\ OnePlace /\ Halfway /\ w \in Processes
      /\ "mutex" \in Names /\ "w_unlock" \in Labels /\ "w_count" \in Labels
  BY AllAreEnds DEF TokenInv, Labels, Leaving
<1>2. /\ Step(w, "w_count", "w_unlock") /\ got' = got /\ desc' = desc
      /\ sent' = [sent EXCEPT ![w] = @ + 1]
      /\ pipe' = [pipe EXCEPT !.writeIndex = (@ + 1) % PIPE_BUFFER_SIZE, !.count = @ + 1]
  BY DEF Count
<1>3. /\ Alone(w) /\ pc'[w] = "w_unlock" /\ pc[w] = "w_count"
  BY <1>1, <1>2, QuietEffect
<1> DEFINE T == (Writers \X Nat) \cup {Nobody}
           b == pipe.buffer
           c == pipe.count
           d == c + 1
           e == d + 1
           read == pipe.readIndex
           x == <<w, sent[w] + 1>>
<1>5. /\ PIPE_BUFFER_SIZE \in Nat \ {0} /\ read \in Places /\ pipe \in PipeRecord
      /\ c \in 0 .. PIPE_BUFFER_SIZE /\ b \in [Places -> T] /\ pipe.writeIndex \in Places
      /\ Contents = RingOf(read, c, b)
  BY <1>1, RingFacts
<1>6. d \in 0 .. PIPE_BUFFER_SIZE /\ d = c + 1 /\ c < PIPE_BUFFER_SIZE
  <2>1. Reserves(w)
    BY <1>3 DEF Reserves
  <2>2. c < PIPE_BUFFER_SIZE
    BY <1>1, <2>1, RoomLeft
  <2>. QED
    BY <1>5, <2>2
<1>8. pipe.writeIndex = Cell(read, d)
  BY DEF Ring
<1>9. /\ pipe'.buffer = b /\ pipe'.readIndex = read /\ pipe'.count = d
      /\ pipe'.writeIndex = (pipe.writeIndex + 1) % PIPE_BUFFER_SIZE
  BY <1>2, <1>5 DEF PipeRecord
<1>10. Ring'
  <2>1. pipe'.writeIndex = Cell(Cell(read, d), 2)
    <3>1. pipe.writeIndex + 1 = pipe.writeIndex + 2 - 1
      BY <1>5 DEF Places
    <3>. QED
      BY <1>8, <1>9, <3>1 DEF Cell
  <2>2. d \in 1 .. PIPE_BUFFER_SIZE + 1 /\ e \in 1 .. PIPE_BUFFER_SIZE + 1 /\ e = d + 1
    BY <1>5, <1>6
  <2>3. pipe'.readIndex = read /\ pipe'.count + 1 = e
    BY <1>9
  <2>. HIDE DEF T, b, c, d, e, read
  <2>4. Cell(Cell(read, d), 2) = Cell(read, e)
    BY <1>5, <2>2, CellFacts
  <2>. QED
    BY <1>5, <2>1, <2>3, <2>4 DEF Ring
<1>11. Contents' = Append(Contents, x)
  <2>1. Contents' = RingOf(read, d, b)
    BY <1>9 DEF Contents, RingOf
  <2>2. b[pipe.writeIndex] = x
    BY <1>3 DEF Stored
  <2>. HIDE DEF T, b, c, d, e, read, x
  <2>3. RingOf(read, d, b) = Append(RingOf(read, c, b), b[Cell(read, d)])
    BY <1>5, <1>6, RingAppend
  <2>. QED
    BY <1>5, <1>8, <2>1, <2>2, <2>3
<1>12. Stored'
  <2>1. ASSUME NEW v \in Writers, pc'[v] = "w_count"
        PROVE  FALSE
    <3>1. v \in Processes /\ v # w /\ pc[v] = "w_count"
      BY <1>3, <2>1, AllAreEnds DEF Alone
    <3>2. Locks(v) /\ Locks(w)
      BY <1>3, <3>1 DEF Locks
    <3>. QED
      BY <1>1, <3>1, <3>2, OnlyLocker
  <2>. QED
    BY <2>1 DEF Stored
<1>13. Len(Contents) < PIPE_BUFFER_SIZE
  <2>. HIDE DEF T, b, c, d, e, read, x
  <2>1. Len(RingOf(read, c, b)) = c
    BY <1>5, RingBytes
  <2>. QED
    BY <1>5, <1>6, <2>1
<1>. QED
  BY <1>2, <1>3, <1>10, <1>11, <1>12, <1>13

(* The oldest byte leaves the ring.                                        *)
LEMMA GetStep ==
    ASSUME ChannelAssumption, TokenInv, OneLocker, RoomForAll, Ring, Stored,
           NEW r \in Readers, Get(r)
    PROVE  /\ Ring' /\ Stored' /\ sent' = sent /\ desc' = desc
           /\ Contents # <<>> /\ Contents' = Tail(Contents)
           /\ got' = Append(got, Head(Contents))
           /\ Alone(r) /\ pc'[r] = "r_unlock" /\ pc[r] = "r_get"
<1>1. /\ Types /\ OnePlace /\ Halfway /\ r \in Processes
      /\ "mutex" \in Names /\ "r_unlock" \in Labels /\ "r_get" \in Labels
  BY AllAreEnds DEF TokenInv, Labels, Leaving
<1>2. /\ Step(r, "r_get", "r_unlock") /\ sent' = sent /\ desc' = desc
      /\ half[r] = "no" /\ pipe.count > 0
      /\ got' = Append(got, pipe.buffer[pipe.readIndex])
      /\ pipe' = [pipe EXCEPT !.readIndex = (@ + 1) % PIPE_BUFFER_SIZE, !.count = @ - 1]
  BY DEF Get
<1>3. /\ Alone(r) /\ pc'[r] = "r_unlock" /\ pc[r] = "r_get" /\ state[r] = "READY"
  BY <1>1, <1>2, QuietEffect
<1>4. Locks(r)
  <2>2. ~ InQueue(r, "mutex")
    BY <1>1, <1>2, <1>3, RunnerHasLeft
  <2>. QED
    BY <1>3, <2>2 DEF Locks
<1> DEFINE T == (Writers \X Nat) \cup {Nobody}
           b == pipe.buffer
           c == pipe.count
           d == c - 1
           e == c + 1
           read == pipe.readIndex
<1>5. /\ PIPE_BUFFER_SIZE \in Nat \ {0} /\ read \in Places /\ pipe \in PipeRecord
      /\ c \in 0 .. PIPE_BUFFER_SIZE /\ b \in [Places -> T] /\ pipe.writeIndex \in Places
      /\ Contents = RingOf(read, c, b)
  BY <1>1, RingFacts
<1>6. d \in 0 .. PIPE_BUFFER_SIZE /\ c = d + 1
  BY <1>2, <1>5
<1>8. pipe.writeIndex = Cell(read, e)
  BY DEF Ring
<1>9. /\ pipe'.buffer = b /\ pipe'.readIndex = Cell(read, 2) /\ pipe'.count = d
      /\ pipe'.writeIndex = pipe.writeIndex
  <2>1. read + 1 = read + 2 - 1
    BY <1>5 DEF Places
  <2>2. pipe'.readIndex = (read + 1) % PIPE_BUFFER_SIZE
    BY <1>2, <1>5 DEF PipeRecord
  <2>3. pipe'.readIndex = Cell(read, 2)
    BY <2>1, <2>2 DEF Cell
  <2>. QED
    BY <1>2, <1>5, <2>3 DEF PipeRecord
<1>10. Ring'
  <2>2. /\ c \in 1 .. PIPE_BUFFER_SIZE + 1 /\ e \in 1 .. PIPE_BUFFER_SIZE + 1 /\ e = c + 1
        /\ 2 \in 1 .. PIPE_BUFFER_SIZE + 1 /\ d + 1 = c
    BY <1>5, <1>6
  <2>. HIDE DEF T, b, c, d, e, read
  <2>3. pipe'.readIndex = Cell(read, 2) /\ pipe'.count + 1 = c
    BY <1>9, <2>2
  <2>4. Cell(Cell(read, 2), c) = Cell(read, e) /\ Cell(read, 2) \in Places
    BY <1>5, <2>2, CellFacts
  <2>. QED
    BY <1>8, <1>9, <2>3, <2>4 DEF Ring
<1>11. /\ Contents # <<>> /\ Contents' = Tail(Contents)
       /\ Head(Contents) = pipe.buffer[pipe.readIndex]
  <2>1. Contents' = RingOf(Cell(read, 2), d, b)
    BY <1>9 DEF Contents, RingOf
  <2>2. pipe.buffer[pipe.readIndex] = b[read]
    OBVIOUS
  <2>. HIDE DEF T, b, c, d, e, read
  <2>3. /\ RingOf(Cell(read, 2), d, b) = Tail(RingOf(read, c, b))
        /\ Head(RingOf(read, c, b)) = b[read] /\ RingOf(read, c, b) # <<>>
    BY <1>5, <1>6, RingTail, ZenonT(30)
  <2>. QED
    BY <1>5, <2>1, <2>2, <2>3
<1>12. Stored'
  <2>1. ASSUME NEW v \in Writers, pc'[v] = "w_count"
        PROVE  FALSE
    <3>1. v \in Processes /\ v # r /\ pc[v] = "w_count"
      BY <1>3, <2>1, AllAreEnds DEF Alone
    <3>2. Locks(v)
      BY <3>1 DEF Locks
    <3>. QED
      BY <1>1, <1>4, <3>1, <3>2, OnlyLocker
  <2>. QED
    BY <2>1 DEF Stored
<1>. QED
  BY <1>2, <1>3, <1>10, <1>11, <1>12

(* A step beside the ring writes no byte that is not stored.               *)
LEMMA StoredStays ==
    ASSUME ChannelAssumption, Stored, SameRing, NEW p \in Processes, Alone(p),
           pc'[p] # "w_count"
    PROVE  Stored'
  BY AllAreEnds DEF Stored, SameRing, Alone
---------------------------------------------------------------------------
(* The invariant of the channel *)

\* The writers that have closed.
Closed == {w \in Writers : desc[w] # "open"}

(* The ends stay in order.                                                 *)
LEMMA EndsStep ==
    ASSUME ChannelAssumption, TokenInv, TokenInv', EndsInv, Held, [PipeNext]_pipeVars
    PROVE  EndsInv' /\ Held'
<1>1. Killers = {} /\ Writers \subseteq Processes /\ Readers \subseteq Processes
  BY AllAreEnds DEF ChannelAssumption
<1>2. CASE UNCHANGED pipeVars
  <2>1. EndsInv'
    BY <1>2 DEF pipeVars, EndsInv, Sized, Opened, OpenWriters, OpenReaders, EndOf,
                AllTaken, FoundEnd, find_semaphore
  <2>2. Held'
    BY <1>2 DEF pipeVars, Held, OneLocker, RoomForAll, Lockers, Locks, Reservers,
                Reserves, InQueue, Queue
  <2>. QED
    BY <2>1, <2>2
<1>3. ASSUME NEW p \in Processes, Undo(p)
      PROVE  FALSE
  <2>1. pc[p] = "undo"
    BY <1>3 DEF Undo, Post, At
  <2>. QED
    BY <2>1 DEF EndsInv, EndOf
<1>4. ASSUME NEW p \in Processes, ProcessStep(p)
      PROVE  EndsInv' /\ Held'
  <2>1. CASE p \in Writers /\ Writer(p)
    BY <2>1, EndsWriter, HeldWriter
  <2>2. CASE p \in Readers /\ Reader(p)
    BY <2>2, EndsReader, HeldReader
  <2>3. CASE Exit(p)
    BY <2>3, EndsExit, HeldEnd
  <2>4. CASE Termination(p)
    <3>1. Held'
      BY <2>4, HeldEnd
    <3>2. EndsInv'
      BY <2>4, EndsUnregister, EndsTermination
    <3>. QED
      BY <3>1, <3>2
  <2>. QED
    BY <1>3, <1>4, <2>1, <2>2, <2>3, <2>4 DEF ProcessStep
<1>. QED
  BY <1>1, <1>2, <1>4 DEF PipeNext, Finished

(* The end of the pipe: its ring is empty, before and after.               *)
LEMMA ResetStep ==
    ASSUME ChannelAssumption, TokenInv, EndsInv, OneLocker, RoomForAll, Ring, Stored,
           NEW p \in Processes, DieAfterReset(p)
    PROVE  /\ Ring' /\ Stored' /\ Contents' = Contents
           /\ sent' = sent /\ got' = got /\ SameEnds
           /\ Alone(p) /\ pc'[p] = "done" /\ pc[p] = "t_reset"
<1>1. Types /\ OnePlace /\ Halfway
  BY DEF TokenInv
<1>2. Die(p, "t_reset") /\ sent' = sent /\ got' = got
  BY DEF DieAfterReset, Die
<1>3. Alone(p) /\ pc'[p] = "done" /\ pc[p] = "t_reset"
  BY <1>1, <1>2, DieEffect
<1>4. SameEnds
  <2>1. Termination(p) /\ ~ Unregister(p)
    BY <1>3 DEF Termination, Unregister, Step, At
  <2>. QED
    BY <2>1, EndsTermination DEF SameEnds
<1>5. /\ PIPE_BUFFER_SIZE \in Nat \ {0} /\ pipe.readIndex \in Places /\ pipe \in PipeRecord
      /\ pipe.buffer \in [Places -> (Writers \X Nat) \cup {Nobody}]
      /\ Contents = RingOf(pipe.readIndex, pipe.count, pipe.buffer)
  BY <1>1, RingFacts
<1>6. pipe.count = 0 /\ \A o \in Processes : pc[o] \notin CallLabels
  BY <1>3, ClosedAlone DEF Closing
<1>7. /\ pipe'.buffer = pipe.buffer /\ pipe'.readIndex = 0 /\ pipe'.count = 0
      /\ pipe'.writeIndex = 0
  BY <1>5 DEF DieAfterReset, PipeRecord
<1>8. Ring'
  <2>1. 0 \in Places
    BY <1>5 DEF Places
  <2>2. Cell(0, 1) = 0
    BY <1>5, <2>1, CellFacts
  <2>3. pipe'.count + 1 = 1
    BY <1>7
  <2>. QED
    BY <1>7, <2>1, <2>2, <2>3 DEF Ring
<1>9. Contents' = Contents
  <2> DEFINE T == (Writers \X Nat) \cup {Nobody}
             s == RingOf(pipe.readIndex, 0, pipe.buffer)
             t == RingOf(0, 0, pipe.buffer)
  <2>1. 0 \in Places /\ 0 \in 0 .. PIPE_BUFFER_SIZE
    BY <1>5 DEF Places
  <2>2. s \in Seq(T) /\ Len(s) = 0 /\ t \in Seq(T) /\ Len(t) = 0
    BY <1>5, <2>1, RingSequence, RingBytes
  <2>3. Contents = s /\ Contents' = t
    BY <1>5, <1>6, <1>7 DEF Contents, RingOf
  <2>. HIDE DEF s, t, T
  <2>. QED
    BY <2>2, <2>3, EmptySeq
<1>10. Stored'
  <2>1. ASSUME NEW v \in Writers, pc'[v] = "w_count"
        PROVE  FALSE
    <3>1. v \in Processes /\ pc[v] = "w_count"
      BY <1>3, <2>1, AllAreEnds DEF Alone
    <3>. QED
      BY <1>6, <3>1 DEF CallLabels
  <2>. QED
    BY <2>1 DEF Stored
<1>. QED
  BY <1>2, <1>3, <1>4, <1>8, <1>9, <1>10

(* A process takes its end back.                                           *)
LEMMA ReleaseStep ==
    ASSUME ChannelAssumption, TokenInv, EndsInv, NEW p \in Processes, Unregister(p)
    PROVE  /\ SameRing /\ desc' = [desc EXCEPT ![p] = "released"]
           /\ Alone(p) /\ pc'[p] \in {"t_eof", "t_post"} /\ pc[p] = "t_release"
<1>1. Types /\ {"t_release", "t_eof", "t_post"} \subseteq Labels
  BY DEF TokenInv, Labels, Leaving
<1>2. PICK to \in {"t_eof", "t_post"} : Step(p, "t_release", to)
  BY DEF Unregister
<1>3. Alone(p) /\ pc'[p] \in {"t_eof", "t_post"} /\ pc[p] = "t_release"
  BY <1>1, <1>2, QuietEffect
<1>4. SameRing
  BY <1>1 DEF Unregister, SameRing, Types, DataTypes, PipeRecord
<1>. QED
  BY <1>3, <1>4, EndsUnregister

(* A reader is told of the end when all is taken.                          *)
LEMMA EndStepOfReader ==
    ASSUME ChannelAssumption, TokenInv, EndsInv, OneLocker, RoomForAll, Ring,
           NEW r \in Readers, FindsEnd(r)
    PROVE  /\ SameRing /\ desc' = desc
           /\ Closed = Writers /\ Contents = <<>>
           /\ Alone(r) /\ pc'[r] = "exit" /\ pc[r] = "r_return" /\ r \in Processes
<1>1. Types /\ {"r_return", "exit"} \subseteq Labels /\ r \in Processes
  BY AllAreEnds DEF TokenInv, Labels, Leaving
<1>2. /\ Leave(r, "r_return", "exit") /\ left[r] = ReadSize[r]
      /\ pipe' = pipe /\ UNCHANGED locals
  BY DEF FindsEnd
<1>3. Alone(r) /\ pc'[r] = "exit" /\ pc[r] = "r_return"
  BY <1>1, <1>2, QuietEffect
<1>4. SameRing /\ desc' = desc
  BY <1>2 DEF SameRing, locals
<1>5. OpenWriters = {} /\ pipe.count = 0
  BY <1>2, <1>3 DEF EndsInv, AllTaken, FoundEnd
<1>6. Closed = Writers
  BY <1>5 DEF Closed, OpenWriters
<1>7. Contents = <<>>
  <2> DEFINE T == (Writers \X Nat) \cup {Nobody}
             s == RingOf(pipe.readIndex, 0, pipe.buffer)
  <2>1. /\ PIPE_BUFFER_SIZE \in Nat \ {0} /\ pipe.readIndex \in Places
        /\ pipe.buffer \in [Places -> T] /\ Contents = s
    BY <1>1, <1>5, RingFacts
  <2>2. 0 \in 0 .. PIPE_BUFFER_SIZE
    BY <2>1
  <2>. HIDE DEF T
  <2>3. s \in Seq(T) /\ Len(s) = 0
    BY <2>1, <2>2, RingSequence, RingBytes
  <2>. HIDE DEF s
  <2>. QED
    BY <2>1, <2>3, EmptySeq
<1>. QED
  BY <1>1, <1>3, <1>4, <1>6, <1>7

(* Who stays open, or in the call, when nobody but p moves.                *)
LEMMA EndsSeen ==
    ASSUME ChannelAssumption, NEW p \in Processes, Alone(p)
    PROVE  /\ (p \in Readers => (pc'[p] \in Leaving <=> pc[p] \in Leaving))
                 => ToldOfEnd' = ToldOfEnd
           /\ p \in Readers /\ pc'[p] \in Leaving => ToldOfEnd' = ToldOfEnd \cup {p}
           /\ SameEnds => Closed' = Closed
           /\ desc' = desc => Closed' = Closed
<1>1. Readers \subseteq Processes /\ Writers \subseteq Ends
  BY AllAreEnds DEF Ends
<1>2. \A o \in Readers \ {p} : pc'[o] \in Leaving <=> pc[o] \in Leaving
  BY <1>1 DEF Alone
<1>3. (p \in Readers => (pc'[p] \in Leaving <=> pc[p] \in Leaving))
         => ToldOfEnd' = ToldOfEnd
  BY <1>2 DEF ToldOfEnd
<1>4. p \in Readers /\ pc'[p] \in Leaving => ToldOfEnd' = ToldOfEnd \cup {p}
  BY <1>2 DEF ToldOfEnd
<1>5. SameEnds => Closed' = Closed
  BY <1>1 DEF SameEnds, Closed
<1>6. desc' = desc => Closed' = Closed
  BY DEF Closed
<1>. QED
  BY <1>3, <1>4, <1>5, <1>6
---------------------------------------------------------------------------
(* The refinement *)

\* The variables of the channel, as the pipe shows them.
channelSeen == <<Contents, sent, got, Closed, ToldOfEnd>>

(* A step of the pipe is a step of the channel, or none of its business.   *)
LEMMA ChannelStep ==
    ASSUME ChannelAssumption, ChannelInv, [PipeNext]_pipeVars
    PROVE  /\ Ring' /\ Stored'
           /\ A!Next \/ channelSeen' = channelSeen
<1>0. /\ TokenInv /\ EndsInv /\ Types /\ OneLocker /\ RoomForAll /\ Ring /\ Stored
      /\ Writers \subseteq Processes /\ Readers \subseteq Processes
      /\ \A r \in Readers : r \notin Writers
  BY AllAreEnds DEF ChannelInv, TokenInv
<1>1. CASE UNCHANGED pipeVars
  <2>1. Contents' = Contents /\ Closed' = Closed /\ ToldOfEnd' = ToldOfEnd
    BY <1>1 DEF pipeVars, Contents, Closed, ToldOfEnd
  <2>2. Ring' /\ Stored'
    BY <1>0, <1>1 DEF pipeVars, Ring, Stored
  <2>. QED
    BY <1>1, <2>1, <2>2 DEF pipeVars, channelSeen
<1>2. ASSUME NEW w \in Writers, Store(w)
      PROVE  Ring' /\ Stored' /\ channelSeen' = channelSeen
  <2>1. /\ Ring' /\ Stored' /\ Contents' = Contents
        /\ sent' = sent /\ got' = got /\ desc' = desc
        /\ Alone(w) /\ pc'[w] = "w_count" /\ pc[w] = "w_put"
    BY <1>0, <1>2, StoreStep
  <2>2. Closed' = Closed /\ ToldOfEnd' = ToldOfEnd
    BY <1>0, <2>1, EndsSeen
  <2>. QED
    BY <2>1, <2>2 DEF channelSeen
<1>3. ASSUME NEW w \in Writers, Count(w)
      PROVE  Ring' /\ Stored' /\ A!Send(w)
  <2>1. /\ Ring' /\ Stored' /\ got' = got /\ desc' = desc
        /\ Contents' = Append(Contents, <<w, sent[w] + 1>>)
        /\ Len(Contents) < PIPE_BUFFER_SIZE
        /\ sent' = [sent EXCEPT ![w] = @ + 1]
        /\ Alone(w) /\ pc'[w] = "w_unlock" /\ pc[w] = "w_count"
    BY <1>0, <1>3, CountStep
  <2>2. Closed' = Closed /\ ToldOfEnd' = ToldOfEnd
    BY <1>0, <2>1, EndsSeen
  <2>3. w \notin Closed
    <3>1. pc[w] \in CallLabels
      BY <2>1 DEF CallLabels
    <3>2. desc[w] = "open"
      BY <1>0, <3>1, PipeIsThere
    <3>. QED
      BY <3>2 DEF Closed
  <2>4. sent'[w] = sent[w] + 1
    BY <1>0, <2>1 DEF Types, DataTypes
  <2>. QED
    BY <2>1, <2>2, <2>3, <2>4 DEF A!Send, Closed
<1>4. ASSUME NEW r \in Readers, Get(r)
      PROVE  Ring' /\ Stored' /\ A!Receive(r)
  <2>1. /\ Ring' /\ Stored' /\ sent' = sent /\ desc' = desc
        /\ Contents # <<>> /\ Contents' = Tail(Contents)
        /\ got' = Append(got, Head(Contents))
        /\ Alone(r) /\ pc'[r] = "r_unlock" /\ pc[r] = "r_get"
    BY <1>0, <1>4, GetStep
  <2>2. pc'[r] \notin Leaving /\ pc[r] \notin Leaving
    BY <2>1 DEF Leaving
  <2>3. Closed' = Closed /\ ToldOfEnd' = ToldOfEnd
    BY <1>0, <2>1, <2>2, EndsSeen
  <2>4. r \notin ToldOfEnd
    BY <2>2 DEF ToldOfEnd
  <2>. QED
    BY <2>1, <2>3, <2>4 DEF A!Receive, Closed
<1>5. ASSUME NEW r \in Readers, FindsEnd(r)
      PROVE  Ring' /\ Stored' /\ A!End(r)
  <2>1. /\ SameRing /\ desc' = desc /\ Closed = Writers /\ Contents = <<>>
        /\ Alone(r) /\ pc'[r] = "exit" /\ pc[r] = "r_return" /\ r \in Processes
    BY <1>0, <1>5, EndStepOfReader
  <2>2. Ring' /\ Stored' /\ Contents' = Contents
    BY <1>0, <2>1, RingStays, StoredStays
  <2>3. Closed' = Closed /\ ToldOfEnd' = ToldOfEnd \cup {r}
    <3>1. pc'[r] \in Leaving
      BY <2>1 DEF Leaving
    <3>. QED
      BY <2>1, <3>1, EndsSeen
  <2>. QED
    BY <2>1, <2>2, <2>3 DEF A!End, Closed, SameRing
<1>6. ASSUME NEW p \in Processes, Unregister(p)
      PROVE  /\ Ring' /\ Stored'
             /\ (p \in Writers /\ A!Close(p)) \/ channelSeen' = channelSeen
  <2>1. /\ SameRing /\ desc' = [desc EXCEPT ![p] = "released"]
        /\ Alone(p) /\ pc'[p] \in {"t_eof", "t_post"} /\ pc[p] = "t_release"
    BY <1>0, <1>6, ReleaseStep
  <2>2. Ring' /\ Stored' /\ Contents' = Contents
    BY <1>0, <2>1, RingStays, StoredStays
  <2>3. ToldOfEnd' = ToldOfEnd
    <3>1. pc'[p] \in Leaving /\ pc[p] \in Leaving
      BY <2>1 DEF Leaving
    <3>. QED
      BY <2>1, <3>1, EndsSeen
  <2>4. CASE p \in Writers
    <3>1. Closed' = Closed \cup {p}
      <4>1. \A w \in Writers : desc'[w] = IF w = p THEN "released" ELSE desc[w]
        BY <1>0, <2>1 DEF Types, DataTypes, Ends
      <4>. QED
        BY <2>4, <4>1 DEF Closed
    <3>. QED
      BY <2>1, <2>2, <2>3, <2>4, <3>1 DEF A!Close, Closed, SameRing
  <2>5. CASE p \notin Writers
    <3>1. Closed' = Closed
      <4>1. \A w \in Writers : desc'[w] = desc[w]
        BY <1>0, <2>1, <2>5 DEF Types, DataTypes, Ends
      <4>. QED
        BY <4>1 DEF Closed
    <3>. QED
      BY <2>1, <2>2, <2>3, <3>1 DEF channelSeen, SameRing
  <2>. QED
    BY <2>2, <2>4, <2>5
<1>7. ASSUME NEW p \in Processes, DieAfterReset(p)
      PROVE  Ring' /\ Stored' /\ channelSeen' = channelSeen
  <2>1. /\ Ring' /\ Stored' /\ Contents' = Contents
        /\ sent' = sent /\ got' = got /\ SameEnds
        /\ Alone(p) /\ pc'[p] = "done" /\ pc[p] = "t_reset"
    BY <1>0, <1>7, ResetStep
  <2>2. pc'[p] \in Leaving /\ pc[p] \in Leaving
    BY <2>1 DEF Leaving
  <2>3. Closed' = Closed /\ ToldOfEnd' = ToldOfEnd
    BY <2>1, <2>2, EndsSeen
  <2>. QED
    BY <2>1, <2>3 DEF channelSeen
<1>8. ASSUME NEW p \in Processes, Aside(p)
      PROVE  Ring' /\ Stored' /\ channelSeen' = channelSeen
  <2>1. /\ Alone(p) /\ SameRing /\ SameEnds /\ pc'[p] # "w_count"
        /\ p \in Readers => (pc'[p] \in Leaving <=> pc[p] \in Leaving)
    BY <1>8 DEF Aside
  <2>2. Ring' /\ Stored' /\ Contents' = Contents
    BY <1>0, <2>1, RingStays, StoredStays
  <2>3. Closed' = Closed /\ ToldOfEnd' = ToldOfEnd
    BY <2>1, EndsSeen
  <2>. QED
    BY <2>1, <2>2, <2>3 DEF channelSeen, SameRing
<1>9. CASE PipeNext
  <2>1. \/ UNCHANGED pipeVars
        \/ \E w \in Writers : Store(w) \/ Count(w)
        \/ \E r \in Readers : Get(r) \/ FindsEnd(r)
        \/ \E p \in Processes : Unregister(p) \/ DieAfterReset(p) \/ Aside(p)
    BY <1>0, <1>9, ChannelSteps
  <2>. QED
    BY <1>0, <1>1, <1>2, <1>3, <1>4, <1>5, <1>6, <1>7, <1>8, <2>1 DEF A!Next
<1>. QED
  BY <1>1, <1>9

(* A new pipe is an empty channel.                                         *)
LEMMA ChannelInit ==
    ASSUME ChannelAssumption, PipeInit
    PROVE  ChannelInv /\ A!Init
<1>0. /\ PipeAssumption /\ PIPE_BUFFER_SIZE \in Nat \ {0}
      /\ Names = {"mutex", "read", "write"}
      /\ IsFiniteSet(Writers) /\ IsFiniteSet(Readers)
      /\ Writers \subseteq Processes /\ Readers \subseteq Processes
  BY AllAreEnds
<1>1. TokenInv
  BY <1>0, TokenInvInit
<1>2. /\ \A p \in Processes : pc[p] = "user" /\ half[p] = "no"
      /\ \A p \in Ends : desc[p] = "open"
      /\ pipe.readIndex = 0 /\ pipe.writeIndex = 0 /\ pipe.count = 0
      /\ pipe.active = TRUE /\ pipe.eof = FALSE
      /\ pipe.readers = Cardinality(Readers) /\ pipe.writers = Cardinality(Writers)
  BY DEF PipeInit
<1>3. /\ \A n \in Names : sem_table[n].used
      /\ sem_table["mutex"].value = 1 /\ sem_table["write"].value = PIPE_BUFFER_SIZE
  <2>1. \A v : /\ [SEM_FREE EXCEPT !.used = TRUE, !.users = 1, !.value = v].value = v
               /\ [SEM_FREE EXCEPT !.used = TRUE, !.users = 1, !.value = v].used
    BY DEF SEM_FREE
  <2>2. \A n \in Names : \E v \in Nat :
           /\ sem_table[n] = [SEM_FREE EXCEPT !.used = TRUE, !.users = 1, !.value = v]
           /\ n = "mutex" => v = 1
           /\ n = "write" => v = PIPE_BUFFER_SIZE
    BY <1>0 DEF PipeInit
  <2>3. ASSUME NEW n \in Names
        PROVE  /\ sem_table[n].used
               /\ n = "mutex" => sem_table[n].value = 1
               /\ n = "write" => sem_table[n].value = PIPE_BUFFER_SIZE
    <3>1. PICK v \in Nat :
             /\ sem_table[n] = [SEM_FREE EXCEPT !.used = TRUE, !.users = 1, !.value = v]
             /\ n = "mutex" => v = 1
             /\ n = "write" => v = PIPE_BUFFER_SIZE
      BY <2>2
    <3>2. sem_table[n].used /\ sem_table[n].value = v
      BY <2>1, <3>1
    <3>. QED
      BY <3>1, <3>2
  <2>. QED
    BY <1>0, <2>3
<1>4. EndsInv
  <2>1. OpenWriters = Writers /\ OpenReaders = Readers
    BY <1>2 DEF OpenWriters, OpenReaders, Ends
  <2>2. Sized
    BY <1>0 DEF Sized, PipeInit, PipeAssumption, Ends
  <2>3. Opened
    BY <1>2, <1>3, <2>1 DEF Opened, find_semaphore
  <2>4. \A p \in Processes : EndOf(p)
    BY <1>2, AllAreEnds DEF EndOf, CallLabels, Closing, Leaving
  <2>5. AllTaken
    BY <1>0, <1>2 DEF AllTaken, FoundEnd, Leaving
  <2>. QED
    BY <2>2, <2>3, <2>4, <2>5 DEF EndsInv
<1>5. OneLocker /\ RoomForAll
  <2>1. Lockers = {} /\ Reservers = {}
    BY <1>2 DEF Lockers, Locks, Reservers, Reserves
  <2>. QED
    BY <1>0, <1>2, <1>3, <2>1, FS_EmptySet DEF OneLocker, RoomForAll
<1>6. Ring
  <2>1. 0 \in Places
    BY <1>0 DEF Places
  <2>2. Cell(0, 1) = 0
    BY <1>0, <2>1, CellFacts
  <2>3. pipe.count + 1 = 1
    BY <1>2
  <2>. QED
    BY <1>2, <2>1, <2>2, <2>3 DEF Ring
<1>7. Stored
  BY <1>0, <1>2 DEF Stored
<1>8. Contents = <<>>
  <2> DEFINE T == (Writers \X Nat) \cup {Nobody}
             s == RingOf(pipe.readIndex, 0, pipe.buffer)
  <2>1. /\ pipe.readIndex \in Places /\ pipe.buffer \in [Places -> T] /\ Contents = s
    BY <1>1, <1>2, <1>5, <1>6, RingFacts DEF TokenInv
  <2>2. 0 \in 0 .. PIPE_BUFFER_SIZE
    BY <1>0
  <2>. HIDE DEF T
  <2>3. s \in Seq(T) /\ Len(s) = 0
    BY <1>0, <2>1, <2>2, RingSequence, RingBytes
  <2>. HIDE DEF s
  <2>. QED
    BY <2>1, <2>3, EmptySeq
<1>9. Closed = {} /\ ToldOfEnd = {}
  BY <1>0, <1>2 DEF Closed, ToldOfEnd, Leaving, Ends
<1>10. A!Init
  BY <1>8, <1>9 DEF A!Init, Closed, PipeInit
<1>. QED
  BY <1>1, <1>4, <1>5, <1>6, <1>7, <1>10 DEF ChannelInv

(* A pipe is a channel: every step of the system calls on it is a step of  *)
(* the bounded queue of bytes, or changes nothing that its users see.      *)
THEOREM PipeIsAChannel ==
    ASSUME ChannelAssumption
    PROVE  PipeSpec => Implements
<1>1. PipeInit => ChannelInv /\ A!Init
  BY ChannelInit
<1>2. ChannelInv /\ [PipeNext]_pipeVars => ChannelInv' /\ [A!Next]_(A!channelVars)
  <2> SUFFICES ASSUME ChannelInv, [PipeNext]_pipeVars
               PROVE  ChannelInv' /\ [A!Next]_(A!channelVars)
    OBVIOUS
  <2>1. TokenInv /\ EndsInv /\ Held /\ PipeAssumption
    BY AllAreEnds DEF ChannelInv, Held
  <2>2. TokenInv'
    BY <2>1, TokenInvStep
  <2>3. EndsInv' /\ Held'
    BY <2>1, <2>2, EndsStep
  <2>4. Ring' /\ Stored' /\ (A!Next \/ channelSeen' = channelSeen)
    BY ChannelStep
  <2>5. ChannelInv'
    BY <2>2, <2>3, <2>4 DEF ChannelInv, Held
  <2>6. channelSeen' = channelSeen => UNCHANGED A!channelVars
    BY DEF channelSeen, A!channelVars, Closed
  <2>. QED
    BY <2>4, <2>5, <2>6
<1>. QED
  BY <1>1, <1>2, PTL DEF PipeSpec, Implements, A!Spec

=============================================================================
