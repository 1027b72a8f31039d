-------------------------------- MODULE Pipe ---------------------------------
(***************************************************************************)
(* A pipe of Kernel/pipe.c between processes that were created with it as  *)
(* their stdout or stdin, on the semaphores of module Semaphore: pipe_read *)
(* and pipe_write, the end of file, the release of a descriptor by an exit *)
(* or a kill, and the destruction of the pipe.                             *)
(*                                                                         *)
(* A system call starts with interrupts masked and keeps the CPU, but a    *)
(* sleep in sem_wait ends with sti; hlt: the rest of the call runs with    *)
(* interrupts enabled and can be preempted anywhere, and so can a process  *)
(* that returns from main.  sem_post gives the CPU away when it has woken  *)
(* somebody.                                                               *)
(***************************************************************************)
EXTENDS Semaphore, Integers

CONSTANTS
    Writers, Readers,  \* processes with the pipe as stdout, as stdin
    Killers,           \* processes that kill one of them
    Writes,            \* the sizes of the write calls of each writer
    ReadSize,          \* the size of the read calls of each reader
    PIPE_BUFFER_SIZE,  \* 1024 in the code
    SemaphoresAtomic,  \* a semaphore call is one step with interrupts enabled, too
    ReturnsFromMain,   \* processes return from main, else they call sys_exit
    Nobody             \* no process

PipeAssumption ==
    /\ Processes = Writers \union Readers \union Killers /\ IsFiniteSet(Processes)
    /\ Writers \intersect Readers = {}
    /\ Killers \intersect (Writers \union Readers) = {}
    /\ Names = {"mutex", "read", "write"}
    /\ Writes \in [Writers -> Seq(Nat \ {0})]
    /\ ReadSize \in [Readers -> Nat \ {0}]
    /\ PIPE_BUFFER_SIZE \in Nat \ {0} /\ PIPE_BUFFER_SIZE <= MaxValue
    /\ {SemaphoresAtomic, ReturnsFromMain} \subseteq BOOLEAN
    /\ Nobody \notin Processes

VARIABLES
    pipe,    \* the Pipe
    pc,      \* where a process is, in user code or in a call
    masked,  \* it runs with interrupts masked
    cpu,     \* the process that cannot be preempted now, or Nobody
    half,    \* the semaphore call it is in the middle of
    calls,   \* the write calls a writer still has to make
    left,    \* bytes the call has still to transfer
    sent,    \* bytes a writer has put into the pipe
    got,     \* the bytes the readers took, in order
    desc,    \* its descriptor: "open", "released" once, "none" when reset
    target,  \* whom terminate_process, run by this process, is about
    tokens   \* the end-of-file tokens it has still to post

pipeVars == <<sem_table, state, pipe, pc, masked, cpu, half, calls, left, sent, got,
              desc, target, tokens>>

\* What the calls of a process on the semaphores leave alone.
locals == <<calls, left, sent, got, desc, target, tokens>>

Ends == Writers \union Readers
PipeInit ==
    /\ sem_table = [n \in Names |->
          [SEM_FREE EXCEPT !.used = TRUE, !.users = 1,
             !.value = CASE n = "mutex" -> 1
                         [] n = "read" -> 0
                         [] n = "write" -> PIPE_BUFFER_SIZE]]
    /\ state = [p \in Processes |-> "READY"]
    /\ pipe = [active |-> TRUE, readers |-> Cardinality(Readers),
               writers |-> Cardinality(Writers), eof |-> FALSE,
               readIndex |-> 0, writeIndex |-> 0, count |-> 0,
               buffer |-> [i \in 0 .. PIPE_BUFFER_SIZE - 1 |-> Nobody]]
    /\ pc = [p \in Processes |-> "user"]
    /\ masked = [p \in Processes |-> FALSE]
    /\ cpu = Nobody
    /\ half = [p \in Processes |-> "no"]
    /\ calls = Writes
    /\ left = [p \in Ends |-> 0]
    /\ sent = [w \in Writers |-> 0]
    /\ got = <<>>
    /\ desc = [p \in Ends |-> "open"]
    /\ target = [p \in Processes |-> Nobody]
    /\ tokens = [p \in Processes |-> 0]

-----------------------------------------------------------------------------
(* Running *)

\* Process p takes its next step, which starts here.
At(p, label) ==
    /\ state[p] = "READY"
    /\ cpu \in {Nobody, p}
    /\ pc[p] = label

Goto(p, label) == pc' = [pc EXCEPT ![p] = label]

\* With interrupts masked nobody else runs before the next step of p.
KeepsCpu(p) == cpu' = IF masked[p] THEN p ELSE Nobody

\* A step inside a call that touches no semaphore.
Step(p, from, to) ==
    /\ At(p, from)
    /\ Goto(p, to)
    /\ KeepsCpu(p)
    /\ UNCHANGED <<semVars, masked, half>>

Enter(p, from, to) ==
    /\ At(p, from)
    /\ Goto(p, to)
    /\ masked' = [masked EXCEPT ![p] = TRUE]
    /\ cpu' = p
    /\ UNCHANGED <<semVars, half>>

\* The return from a call to user code.
Leave(p, from, to) ==
    /\ At(p, from)
    /\ Goto(p, to)
    /\ masked' = [masked EXCEPT ![p] = FALSE]
    /\ cpu' = Nobody
    /\ UNCHANGED <<semVars, half>>

\* A semaphore call of p cannot be interrupted.
Whole(p) == masked[p] \/ SemaphoresAtomic

\* A wait on a semaphore that has been closed, or whose queue is full, fails.
Refused(n) ==
    \/ ~ find_semaphore(n)
    \/ MustWait(n) /\ Len(sem_table[n].waiting_processes) >= MAX_PROCESSES

Fail(p, n, from, to) ==
    /\ half[p] # "queued"
    /\ Refused(n)
    /\ Step(p, from, to)

\* sem_wait, then label to.  Whoever sleeps goes on with interrupts enabled.
\* With interrupts enabled it can be preempted between joining the queue and
\* going to sleep, which it does even when the semaphore is closed meanwhile.
Wait(p, n, from, to) ==
    /\ At(p, from)
    /\ half[p] = "queued" \/ ~ Refused(n)
    /\ IF half[p] = "queued"
       THEN /\ state' = [state EXCEPT ![p] = "BLOCKED"]
            /\ half' = [half EXCEPT ![p] = "no"]
            /\ Goto(p, to)
            /\ cpu' = Nobody
            /\ UNCHANGED <<sem_table, masked>>
       ELSE IF Whole(p) \/ ~ MustWait(n)
       THEN /\ sem_wait(p, n)
            /\ Goto(p, to)
            /\ masked' = [masked EXCEPT ![p] = @ /\ ~ MustWait(n)]
            /\ cpu' = IF masked[p] /\ ~ MustWait(n) THEN p ELSE Nobody
            /\ UNCHANGED half
       ELSE /\ sem_table' = [sem_table EXCEPT ![n].waiting_processes = Append(@, p)]
            /\ half' = [half EXCEPT ![p] = "queued"]
            /\ cpu' = Nobody
            /\ UNCHANGED <<state, pc, masked>>

\* sem_post, then label to.  The CPU goes to somebody else when the queue was
\* not empty.  With interrupts enabled the caller can be preempted between
\* its look at the queue and the increment.
Post(p, n, from, to) ==
    LET wakes == sem_table[n].waiting_processes # <<>>
    IN  /\ At(p, from)
        /\ IF half[p] = "counting"
           THEN /\ sem_table' = [sem_table EXCEPT ![n].value = @ + 1]
                /\ half' = [half EXCEPT ![p] = "no"]
                /\ Goto(p, to)
                /\ cpu' = Nobody
                /\ UNCHANGED state
           ELSE IF Whole(p) \/ wakes \/ ~ find_semaphore(n)
           THEN /\ sem_post(n)
                /\ Goto(p, to)
                /\ cpu' = IF masked[p] /\ ~ wakes THEN p ELSE Nobody
                /\ UNCHANGED half
           ELSE /\ half' = [half EXCEPT ![p] = "counting"]
                /\ cpu' = Nobody
                /\ UNCHANGED <<semVars, pc>>
        /\ UNCHANGED masked

\* The check of active before a semaphore call of p; the call goes on to its end
\* without another.
Checked(p) == pipe.active \/ half[p] # "no"

-----------------------------------------------------------------------------
(* pipe_write.  Its checks of active only fail for a process that is being *)
(* killed while it runs.                                                   *)

\* The label a writer goes to when it leaves the call: it ends after the last.
AfterWrite(w) == IF calls[w] = <<>> THEN "exit" ELSE "user"

WriteCall(w) ==
    /\ calls[w] # <<>>
    /\ Enter(w, "user", "w_room")
    /\ left' = [left EXCEPT ![w] = Head(calls[w])]
    /\ calls' = [calls EXCEPT ![w] = Tail(@)]
    /\ UNCHANGED <<pipe, sent, got, desc, target, tokens>>

WaitForRoom(w) ==
    /\ Checked(w)
    /\ \/ Wait(w, "write", "w_room", "w_mutex")
       \/ Fail(w, "write", "w_room", "w_return")
    /\ UNCHANGED <<pipe, locals>>

LockToWrite(w) ==
    /\ Checked(w)
    /\ \/ Wait(w, "mutex", "w_mutex", "w_put")
       \/ Fail(w, "mutex", "w_mutex", "undo")
    /\ UNCHANGED <<pipe, locals>>

Store(w) ==
    /\ pipe.active
    /\ Step(w, "w_put", "w_count")
    /\ pipe' = [pipe EXCEPT !.buffer[pipe.writeIndex] = <<w, sent[w] + 1>>]
    /\ UNCHANGED locals

Count(w) ==
    /\ Step(w, "w_count", "w_unlock")
    /\ pipe' = [pipe EXCEPT !.writeIndex = (@ + 1) % PIPE_BUFFER_SIZE,
                            !.count = @ + 1]
    /\ sent' = [sent EXCEPT ![w] = @ + 1]
    /\ left' = [left EXCEPT ![w] = @ - 1]
    /\ UNCHANGED <<calls, got, desc, target, tokens>>

UnlockAfterWrite(w) ==
    /\ Checked(w)
    /\ Post(w, "mutex", "w_unlock", "w_signal")
    /\ UNCHANGED <<pipe, locals>>

SignalReader(w) ==
    /\ Checked(w)
    /\ Post(w, "read", "w_signal", IF left[w] = 0 THEN "w_return" ELSE "w_room")
    /\ UNCHANGED <<pipe, locals>>

ReturnFromWrite(w) ==
    /\ \/ Leave(w, "w_return", AfterWrite(w))
       \/ /\ ~ Checked(w)
          /\ \E l \in {"w_room", "w_mutex", "w_put", "w_unlock", "w_signal"} :
                Leave(w, l, AfterWrite(w))
    /\ UNCHANGED <<pipe, locals>>

Writer(w) == \/ WriteCall(w) \/ WaitForRoom(w) \/ LockToWrite(w)
             \/ Store(w) \/ Count(w) \/ UnlockAfterWrite(w) \/ SignalReader(w)
             \/ ReturnFromWrite(w)

-----------------------------------------------------------------------------
(* pipe_read, by a program that reads until a call returns nothing *)

ReadCall(r) ==
    /\ Enter(r, "user", "r_check")
    /\ left' = [left EXCEPT ![r] = ReadSize[r]]
    /\ UNCHANGED <<pipe, calls, sent, got, desc, target, tokens>>

(* A faulty variant for the mutation runs: an empty pipe is at its end. *)
AtEof_WhenEmpty == pipe.count = 0

(* A faulty variant for the mutation runs: what is left in the pipe is forgotten. *)
AtEof_DataLeft == pipe.eof

AtEof == pipe.count = 0 /\ pipe.eof

CheckEof(r) ==
    /\ pipe.active
    /\ Step(r, "r_check", IF AtEof THEN "r_return" ELSE "r_token")
    /\ UNCHANGED <<pipe, locals>>

WaitForByte(r) ==
    /\ Checked(r)
    /\ \/ Wait(r, "read", "r_token", "r_mutex")
       \/ Fail(r, "read", "r_token", "r_return")
    /\ UNCHANGED <<pipe, locals>>

LockToRead(r) ==
    /\ Checked(r)
    /\ \/ Wait(r, "mutex", "r_mutex", "r_get")
       \/ Fail(r, "mutex", "r_mutex", "undo")
    /\ UNCHANGED <<pipe, locals>>

Get(r) ==
    /\ pipe.active
    /\ half[r] = "no"
    /\ pipe.count > 0
    /\ Step(r, "r_get", "r_unlock")
    /\ got' = Append(got, pipe.buffer[pipe.readIndex])
    /\ pipe' = [pipe EXCEPT !.readIndex = (@ + 1) % PIPE_BUFFER_SIZE,
                            !.count = @ - 1]
    /\ left' = [left EXCEPT ![r] = @ - 1]
    /\ UNCHANGED <<calls, sent, desc, target, tokens>>

UnlockAfterRead(r) ==
    /\ Checked(r)
    /\ Post(r, "mutex", "r_unlock", "r_signal")
    /\ UNCHANGED <<pipe, locals>>

SignalWriter(r) ==
    /\ Checked(r)
    /\ Post(r, "write", "r_signal", IF left[r] = 0 THEN "r_return" ELSE "r_check")
    /\ UNCHANGED <<pipe, locals>>

\* A token and no byte: the end, or a retry.
FindEmpty(r) ==
    /\ Checked(r)
    /\ pipe.count = 0 \/ half[r] = "counting"
    /\ Post(r, "mutex", "r_get", "r_empty")
    /\ UNCHANGED <<pipe, locals>>

Retry(r) ==
    /\ Step(r, "r_empty", IF pipe.eof \/ pipe.writers = 0 THEN "r_return" ELSE "r_check")
    /\ UNCHANGED <<pipe, locals>>

AfterRead(r) == IF left[r] = ReadSize[r] THEN "exit" ELSE "user"

ReturnFromRead(r) ==
    /\ \/ Leave(r, "r_return", AfterRead(r))
       \/ /\ ~ Checked(r)
          /\ \E l \in {"r_check", "r_token", "r_mutex", "r_get", "r_unlock", "r_signal"} :
                Leave(r, l, AfterRead(r))
    /\ UNCHANGED <<pipe, locals>>

Reader(r) == \/ ReadCall(r) \/ CheckEof(r) \/ WaitForByte(r) \/ LockToRead(r)
             \/ Get(r) \/ UnlockAfterRead(r) \/ SignalWriter(r) \/ FindEmpty(r)
             \/ Retry(r) \/ ReturnFromRead(r)

\* The mutex is gone: the token goes back.
Undo(p) ==
    /\ IF p \in Writers THEN Post(p, "write", "undo", "w_return")
                       ELSE Post(p, "read", "undo", "r_return")
    /\ UNCHANGED <<pipe, locals>>

-----------------------------------------------------------------------------
(* terminate_process of process t, run by p: t itself, which exits, or a    *)
(* process that kills it.  Who returns from main does it with interrupts    *)
(* enabled.  t is READY until the release of its descriptor is over.        *)

Exit(p) ==
    /\ IF ReturnsFromMain THEN Step(p, "exit", "t_release")
       ELSE Enter(p, "exit", "t_release")
    /\ target' = [target EXCEPT ![p] = p]
    /\ UNCHANGED <<pipe, calls, left, sent, got, desc, tokens>>

Kill(k) ==
    \E t \in Ends :
        /\ state[t] # "TERMINATED"
        /\ Enter(k, "user", "t_release")
        /\ target' = [target EXCEPT ![k] = t]
        /\ UNCHANGED <<pipe, calls, left, sent, got, desc, tokens>>

(* A faulty variant for the mutation runs: an end is counted off twice. *)
Minus1_Twice(n) == IF n > 1 THEN n - 2 ELSE 0

Minus1(n) == IF n > 0 THEN n - 1 ELSE 0

\* Another run of terminate_process may have reset the descriptor meanwhile.
Registered(t) == desc[t] # "none" /\ pipe.active

Unregister(p) ==
    LET t == target[p]
    IN  /\ Step(p, "t_release",
              IF t \in Writers /\ Registered(t) THEN "t_eof" ELSE "t_post")
        /\ IF ~ Registered(t) THEN UNCHANGED <<pipe, desc>>
           ELSE /\ pipe' = IF t \in Writers THEN [pipe EXCEPT !.writers = Minus1(@)]
                           ELSE [pipe EXCEPT !.readers = Minus1(@)]
                /\ desc' = [desc EXCEPT ![t] = "released"]
        /\ UNCHANGED <<calls, left, sent, got, target, tokens>>

LastWriterLeft == pipe.writers = 0

(* A faulty variant for the mutation runs: every writer that leaves wakes the readers. *)
EofTokens_Always == pipe.readers

EofTokens == IF LastWriterLeft THEN pipe.readers ELSE 0

\* After the last writer every reader gets a token.
SetEof(p) ==
    /\ Step(p, "t_eof", "t_post")
    /\ pipe' = [pipe EXCEPT !.eof = @ \/ LastWriterLeft]
    /\ tokens' = [tokens EXCEPT ![p] = EofTokens]
    /\ UNCHANGED <<calls, left, sent, got, desc, target>>

PostEof(p) ==
    /\ tokens[p] > 0
    /\ Post(p, "read", "t_post", "t_post")
    /\ tokens' = [tokens EXCEPT ![p] = IF half'[p] = "no" THEN @ - 1 ELSE @]
    /\ UNCHANGED <<pipe, calls, left, sent, got, desc, target>>

Unused == pipe.active /\ pipe.readers = 0 /\ pipe.writers = 0 /\ pipe.count = 0

\* pipe_destroy_if_unused: the semaphores are closed one after the other.
\* Whoever sleeps there is woken, and then the CPU goes to somebody else.
Destroy(p) ==
    /\ At(p, "t_post")
    /\ tokens[p] = 0
    /\ Unused
    /\ Step(p, "t_post", "t_mutex")
    /\ UNCHANGED <<pipe, locals>>

CloseSem(p, n, from, to) ==
    /\ At(p, from)
    /\ IF pipe.active THEN sem_close(n) ELSE UNCHANGED semVars
    /\ Goto(p, to)
    /\ cpu' = IF masked[p] /\ sem_table[n].waiting_processes = <<>> THEN p ELSE Nobody
    /\ UNCHANGED <<masked, half, pipe, locals>>

CloseSems(p) ==
    \/ CloseSem(p, "mutex", "t_mutex", "t_read")
    \/ CloseSem(p, "read", "t_read", "t_write")
    \/ CloseSem(p, "write", "t_write", "t_reset")

\* The end of release_process_io_resources, and of t.
Die(p, from) ==
    /\ At(p, from)
    /\ state' = [state EXCEPT ![target[p]] = "TERMINATED"]
    /\ desc' = [desc EXCEPT ![target[p]] = "none"]
    /\ Goto(p, "done")
    /\ masked' = [masked EXCEPT ![p] = FALSE]
    /\ cpu' = Nobody
    /\ UNCHANGED <<sem_table, half, calls, left, sent, got, target, tokens>>

DieInUse(p) == tokens[p] = 0 /\ ~ Unused /\ Die(p, "t_post") /\ UNCHANGED pipe

DieAfterReset(p) ==
    /\ Die(p, "t_reset")
    /\ pipe' = [pipe EXCEPT !.active = FALSE, !.eof = FALSE, !.readers = 0, !.writers = 0,
                            !.readIndex = 0, !.writeIndex = 0, !.count = 0]

Termination(p) == \/ Unregister(p) \/ SetEof(p) \/ PostEof(p) \/ Destroy(p)
                  \/ CloseSems(p) \/ DieInUse(p) \/ DieAfterReset(p)

-----------------------------------------------------------------------------
ProcessStep(p) ==
    \/ p \in Writers /\ Writer(p)
    \/ p \in Readers /\ Reader(p)
    \/ p \in Ends /\ (Undo(p) \/ Exit(p))
    \/ Termination(p)

AllDone == \A p \in Ends : state[p] = "TERMINATED"

Finished == AllDone /\ UNCHANGED pipeVars

PipeNext ==
    \/ \E p \in Processes : ProcessStep(p)
    \/ \E k \in Killers : Kill(k)
    \/ Finished

\* The scheduler starves nobody (NoStarvation in module Scheduler).
PipeFairness == \A p \in Processes : WF_pipeVars(ProcessStep(p))

PipeSpec == PipeInit /\ [][PipeNext]_pipeVars /\ PipeFairness

-----------------------------------------------------------------------------
(* Properties *)

Leaving == {"exit", "t_release", "t_eof", "t_post", "t_mutex", "t_read", "t_write",
            "t_reset", "done"}

Labels == Leaving \union {"user", "undo",
           "w_room", "w_mutex", "w_put", "w_count", "w_unlock", "w_signal",
           "w_return",
           "r_check", "r_token", "r_mutex", "r_get", "r_unlock", "r_signal",
           "r_empty", "r_return"}

(* Every variable stays in its type; in particular the indices stay within  *)
(* the ring and the count within its size, with no check in pipe_write.     *)
PipeTypeOK ==
    /\ SemTypeOK
    /\ pipe.active \in BOOLEAN /\ pipe.eof \in BOOLEAN
    /\ pipe.readers \in 0 .. Cardinality(Readers)
    /\ pipe.writers \in 0 .. Cardinality(Writers)
    /\ pipe.readIndex \in 0 .. PIPE_BUFFER_SIZE - 1
    /\ pipe.writeIndex \in 0 .. PIPE_BUFFER_SIZE - 1
    /\ pipe.count \in 0 .. PIPE_BUFFER_SIZE
    /\ pc \in [Processes -> Labels]
    /\ masked \in [Processes -> BOOLEAN]
    /\ cpu \in Processes \union {Nobody}
    /\ half \in [Processes -> {"no", "queued", "counting"}]
    /\ target \in [Processes -> Processes \union {Nobody}]
    /\ desc \in [Ends -> {"open", "released", "none"}]

\* What is in the ring, oldest first.
Contents == [i \in 1 .. pipe.count |->
                pipe.buffer[(pipe.readIndex + i - 1) % PIPE_BUFFER_SIZE]]

(* A reader that has a token and the mutex finds a byte, or the end of the  *)
(* file: the ten retries of pipe_read are never made.                       *)
TokenMeansByte ==
    \A r \in Readers : state[r] = "READY" /\ pc[r] = "r_empty" =>
        pipe.eof \/ pipe.writers = 0

pipe_has_writers == pipe.active /\ pipe.writers > 0

(* pipe.h says of pipe_has_writers "1 si hay escritores activos": as long   *)
(* as a process has the pipe open for writing, it has writers.              *)
OpenWriterIsCounted ==
    (\E w \in Writers : desc[w] = "open") => pipe_has_writers

AllWaiters == UNION {ToSet(sem_table[n].waiting_processes) : n \in Names}

(* Whoever sleeps is in the queue of a semaphore, where a post finds it.    *)
SleepersCanBeWoken ==
    \A p \in Processes : state[p] = "BLOCKED" => p \in AllWaiters

(* Every process comes to its end, all that was written has been read, and  *)
(* the pipe and its semaphores are free again.                              *)
AllIsRead ==
    <>[](/\ AllDone
         /\ \A w \in Writers : sent[w] = FoldSeq(+, 0, Writes[w])
         /\ ~ pipe.active
         /\ \A n \in Names : ~ sem_table[n].used)

\* The readers that a call has given nothing.
ToldOfEnd == {r \in Readers : pc[r] \in Leaving}

A == INSTANCE Channel
     WITH Senders <- Writers, Receivers <- Readers, Capacity <- PIPE_BUFFER_SIZE,
          queue <- Contents, closed <- {w \in Writers : desc[w] # "open"},
          atEnd <- ToldOfEnd

(* A pipe whose ends are not killed implements the bounded channel: what    *)
(* the readers take is what the writers put in, in order, there is never    *)
(* more than it holds, nobody sends after it has closed, and a reader is    *)
(* told of the end only when every writer has closed and all is read.       *)
Implements == A!Spec
=============================================================================
