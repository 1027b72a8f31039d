----------------------------- MODULE Descriptors -----------------------------
(***************************************************************************)
(* The pipe table of Kernel/pipe.c and the descriptors of the processes    *)
(* (ProcessIOState in process.c): how create_process_internal hands them   *)
(* down and overrides them, how terminate_process releases them, and when  *)
(* a pipe is freed.                                                        *)
(*                                                                         *)
(* Every operation is one step.  What the semaphores of a pipe and an exit *)
(* with interrupts enabled make of that is in module Pipe.                 *)
(***************************************************************************)
EXTENDS Integers, Sequences, FiniteSets, SequencesExt

CONSTANTS
    Procs,             \* slots of the process table
    Init0,             \* the first process
    PipeNames,
    MAX_PIPES,         \* 32
    PIPE_BUFFER_SIZE,  \* 1024
    NoName             \* the name of a free slot

DescriptorsAssumption ==
    /\ IsFiniteSet(Procs) /\ Init0 \in Procs
    /\ NoName \notin PipeNames
    /\ MAX_PIPES \in Nat \ {0} /\ PIPE_BUFFER_SIZE \in Nat \ {0}

VARIABLES
    pipes,    \* the table
    io,       \* the descriptors of each process: a pipe, or Console
    alive,    \* the processes that are not TERMINATED
    switched  \* setting the descriptors of a new process posted to a reader

ioVars == <<pipes, io, alive, switched>>

PipeIds == 0 .. MAX_PIPES - 1
Console == -1           \* the keyboard, the screen
Inherit == -2           \* PROCESS_IO_*_INHERIT
Fds == {"stdin", "stdout", "stderr"}

PipeSlot == [name: PipeNames \union {NoName}, active: BOOLEAN, readers: Nat, writers: Nat,
             eof: BOOLEAN, bytes: Seq(Procs)]

FreeSlot == [name |-> NoName, active |-> FALSE, readers |-> 0, writers |-> 0,
             eof |-> FALSE, bytes |-> <<>>]

init_process_io_defaults == [fd \in Fds |-> Console]

-----------------------------------------------------------------------------
(* pipe.c, as functions of the table *)

find_pipe(table, n) == {i \in PipeIds : table[i].active /\ table[i].name = n}

FreePipes(table) == {i \in PipeIds : ~ table[i].active}

pipe_destroy_if_unused(table, i) ==
    IF /\ table[i].active /\ table[i].readers = 0 /\ table[i].writers = 0
       /\ table[i].bytes = <<>>
    THEN [table EXCEPT ![i] = FreeSlot] ELSE table

\* Where pipe_open finds or puts the pipe n, if it can.
OpenAt(table, n) ==
    IF find_pipe(table, n) # {} THEN find_pipe(table, n)
    ELSE {i \in FreePipes(table) : \A j \in FreePipes(table) : i <= j}

pipe_open(table, n, i) ==
    IF table[i].active THEN table
    ELSE [table EXCEPT ![i] = [FreeSlot EXCEPT !.name = n, !.active = TRUE]]

Registered(table, fd, i) ==
    IF fd = "stdin" THEN [table EXCEPT ![i].readers = @ + 1]
                    ELSE [table EXCEPT ![i].writers = @ + 1]

(* A faulty variant for the mutation runs: the writer that leaves is still counted. *)
LastWriter_Counted(table, fd, i) == fd # "stdin" /\ table[i].writers = 0

\* The last writer sets eof and posts to the readers.
LastWriter(table, fd, i) == fd # "stdin" /\ table[i].writers <= 1

Minus1(n) == IF n > 0 THEN n - 1 ELSE 0

Unregistered(table, fd, i) ==
    pipe_destroy_if_unused(
        IF fd = "stdin" THEN [table EXCEPT ![i].readers = Minus1(@)]
        ELSE [table EXCEPT ![i].writers = Minus1(@),
                           ![i].eof = @ \/ LastWriter(table, fd, i)], i)

-----------------------------------------------------------------------------
(* The descriptors of a process.  s holds the table, the descriptors of    *)
(* the process, whether all went well and whether a reader was posted to.  *)

IsPipe(table, d) == d \in PipeIds /\ table[d].active

Release(s, fd) ==
    LET i == s.desc[fd]
    IN  IF ~ IsPipe(s.table, i) THEN s
        ELSE [s EXCEPT !.table = Unregistered(@, fd, i),
                       !.posted = @ \/ (LastWriter(s.table, fd, i)
                                        /\ s.table[i].readers > 0)]

release_process_io_resources(s) ==
    [Release(Release(Release(s, "stdin"), "stdout"), "stderr")
        EXCEPT !.desc = init_process_io_defaults]

(* A faulty variant for the mutation runs: the copies are not registered. *)
Retain_Not(s, fd) == s

Retain(s, fd) ==
    IF s.ok /\ IsPipe(s.table, s.desc[fd])
    THEN [s EXCEPT !.table = Registered(@, fd, s.desc[fd])]
    ELSE s

retain_process_io_resources(s) ==
    Retain(Retain(Retain(s, "stdin"), "stdout"), "stderr")

\* set_process_stdin_descriptor and its two sisters.
SetDescriptor(s, fd, want) ==
    LET released == Release(s, fd)
    IN  IF ~ s.ok \/ want \in {Inherit, s.desc[fd]} THEN s
        ELSE IF want = Console THEN [released EXCEPT !.desc[fd] = Console]
        ELSE IF IsPipe(released.table, want)
        THEN [released EXCEPT !.table = Registered(@, fd, want), !.desc[fd] = want]
        ELSE [Retain(released, fd) EXCEPT !.ok = FALSE]

override_process_io(s, config) ==
    SetDescriptor(SetDescriptor(SetDescriptor(s, "stdin", config.stdin),
                                "stdout", config.stdout), "stderr", config.stderr)

\* What the parent hands down, then what the caller wants.
Opened(parent, config) ==
    override_process_io(
        retain_process_io_resources([table |-> pipes, desc |-> io[parent],
                                     ok |-> TRUE, posted |-> FALSE]), config)

-----------------------------------------------------------------------------
(* process.c.  A creation also fails when there is no memory for the       *)
(* arguments or the stack.                                                 *)

(* A faulty variant for the mutation runs: a failure forgets the descriptors. *)
create_process_internal_Forgets(child, parent, config, noMemory) ==
    LET opened == Opened(parent, config)
    IN  /\ parent \in alive /\ child \notin alive
        /\ pipes' = opened.table
        /\ io' = IF noMemory THEN io ELSE [io EXCEPT ![child] = opened.desc]
        /\ alive' = IF noMemory THEN alive ELSE alive \union {child}
        /\ switched' = (switched \/ opened.posted)

create_process_internal(child, parent, config, noMemory) ==
    LET opened == Opened(parent, config)
        failed == noMemory \/ ~ opened.ok
        final == IF failed THEN release_process_io_resources(opened) ELSE opened
    IN  /\ parent \in alive /\ child \notin alive
        /\ pipes' = final.table
        /\ io' = [io EXCEPT ![child] = final.desc]
        /\ alive' = IF failed THEN alive ELSE alive \union {child}
        /\ switched' = (switched \/ opened.posted)

(* terminate_process, by an exit or a kill. *)
terminate_process(p) ==
    LET released == release_process_io_resources([table |-> pipes, desc |-> io[p],
                                                  ok |-> TRUE, posted |-> FALSE])
    IN  /\ p \in alive
        /\ pipes' = released.table
        /\ io' = [io EXCEPT ![p] = released.desc]
        /\ alive' = alive \ {p}
        /\ UNCHANGED switched

\* process_read and process_write, one byte, when there is one or room for it.
Readable(p) == IsPipe(pipes, io[p]["stdin"]) /\ pipes[io[p]["stdin"]].bytes # <<>>

process_read(p) ==
    /\ p \in alive /\ Readable(p)
    /\ pipes' = [pipes EXCEPT ![io[p]["stdin"]].bytes = Tail(@)]
    /\ UNCHANGED <<io, alive, switched>>

Writable(p, fd) ==
    /\ IsPipe(pipes, io[p][fd])
    /\ Len(pipes[io[p][fd]].bytes) < PIPE_BUFFER_SIZE

process_write(p, fd) ==
    /\ p \in alive /\ Writable(p, fd)
    /\ pipes' = [pipes EXCEPT ![io[p][fd]].bytes = Append(@, p)]
    /\ UNCHANGED <<io, alive, switched>>

-----------------------------------------------------------------------------
sys_pipe_open(n) ==
    /\ \E i \in OpenAt(pipes, n) : pipes' = pipe_open(pipes, n, i)
    /\ UNCHANGED <<io, alive, switched>>

sys_pipe_close(i) ==
    /\ pipes[i].active
    /\ pipes' = pipe_destroy_if_unused(pipes, i)
    /\ UNCHANGED <<io, alive, switched>>

IoInit ==
    /\ pipes = [i \in PipeIds |-> FreeSlot]
    /\ io = [p \in Procs |-> init_process_io_defaults]
    /\ alive = {Init0}
    /\ switched = FALSE

\* Any configuration, among them pipes that are not open.
Configs == [Fds -> {Inherit, Console} \union PipeIds]

IoNext ==
    \/ \E n \in PipeNames : sys_pipe_open(n)
    \/ \E i \in PipeIds : sys_pipe_close(i)
    \/ \E child, parent \in Procs, config \in Configs, noMemory \in BOOLEAN :
          create_process_internal(child, parent, config, noMemory)
    \/ \E p \in Procs : \/ p # Init0 /\ terminate_process(p)
                        \/ process_read(p)
                        \/ \E fd \in {"stdout", "stderr"} : process_write(p, fd)

IoSpec == IoInit /\ [][IoNext]_ioVars

-----------------------------------------------------------------------------
(* Properties *)

(* Every variable stays in its type. *)
IoTypeOK ==
    /\ pipes \in [PipeIds -> PipeSlot]
    /\ io \in [Procs -> [Fds -> PipeIds \union {Console}]]
    /\ alive \subseteq Procs /\ Init0 \in alive
    /\ switched \in BOOLEAN

Refer(fds, i) == {x \in alive \X fds : io[x[1]][x[2]] = i}

(* The counts of a pipe are the descriptors that refer to it, whatever      *)
(* failed on the way: inherited, overridden, refused or released.           *)
CountsAreDescriptors ==
    \A i \in PipeIds : pipes[i].active =>
        /\ pipes[i].readers = Cardinality(Refer({"stdin"}, i))
        /\ pipes[i].writers = Cardinality(Refer({"stdout", "stderr"}, i))

(* create_process_internal gives the descriptors to the child while it      *)
(* holds process_creation_lock.  It must not lose the CPU to a reader it    *)
(* posts to there: what the child gives up its parent still holds.  (The    *)
(* release after a later failure is another matter: there it can happen.)   *)
NoSwitchInCreation == ~ switched
=============================================================================
