----------------------------- MODULE MvarCommand -----------------------------
(***************************************************************************)
(* The command mvar (commands/mvar_cmd.c): a main process that opens a     *)
(* pipe and two semaphores, creates the writers and the readers and ends,  *)
(* and the workers, which use the pipe as the cell and the semaphores,     *)
(* those of module Semaphore, as "it is empty" and "it is full".           *)
(*                                                                         *)
(* The workers hold no descriptor of the pipe; it is never registered with *)
(* anybody, so it has no end of file and is freed by nobody but a main     *)
(* that fails.  The cell holds at most one byte: pipe_write and pipe_read  *)
(* find room and a byte and are steps.  The slot states that nobody reads  *)
(* and the random delays are left out.                                     *)
(***************************************************************************)
EXTENDS Semaphore

CONSTANTS Writers, Readers, Main

MvarAssumption ==
    /\ Writers \intersect Readers = {}
    /\ Main \notin Writers \union Readers
    /\ Processes = Writers \union Readers \union {Main}
    /\ Names = {"empty", "full"} /\ MAX_SEMAPHORES > 1 /\ {0, 1} \subseteq InitialValues
    /\ IsFiniteSet(Processes) /\ Cardinality(Processes) <= MAX_PROCESSES

VARIABLES
    main,    \* the next step of the main process
    shared,  \* the MVarShared it has allocated is in use
    open,    \* the pipe is open
    pipe,    \* the bytes in it: the writer of each
    pc,      \* where each worker is; "none" before it is created
    refused  \* the workers that could not be created

mainVars == <<main, shared, open, refused>>
mvarVars == <<semVars, mainVars, pipe, pc>>

Workers == Writers \union Readers

-----------------------------------------------------------------------------
(* mvar_main *)

\* The main process goes from one step to another.
MainStep(from, to) == main = from /\ main' = to

Allocate ==
    /\ MainStep("malloc", "pipe")
    /\ shared' = TRUE
    /\ UNCHANGED <<semVars, open, refused, pipe, pc>>

OpenPipe ==
    /\ MainStep("pipe", "sem_empty")
    /\ open' = TRUE
    /\ UNCHANGED <<semVars, shared, refused, pipe, pc>>

(* A faulty variant for the mutation runs: opened with a token too many. *)
OpenEmpty_Two ==
    /\ MainStep("sem_empty", "sem_full")
    /\ sem_open("empty", 2)
    /\ UNCHANGED <<shared, open, refused, pipe, pc>>

OpenEmpty ==
    /\ MainStep("sem_empty", "sem_full")
    /\ sem_open("empty", 1)
    /\ UNCHANGED <<shared, open, refused, pipe, pc>>

OpenFull ==
    /\ MainStep("sem_full", "create")
    /\ sem_open("full", 0)
    /\ UNCHANGED <<shared, open, refused, pipe, pc>>

\* Any of the four may be refused; what was done before is undone and main returns.
MallocRefused ==
    /\ MainStep("malloc", "failed")
    /\ UNCHANGED <<semVars, shared, open, refused, pipe, pc>>

PipeRefused ==
    /\ MainStep("pipe", "failed")
    /\ shared' = FALSE
    /\ UNCHANGED <<semVars, open, refused, pipe, pc>>

EmptyRefused ==
    /\ MainStep("sem_empty", "failed")
    /\ shared' = FALSE /\ open' = FALSE
    /\ UNCHANGED <<semVars, refused, pipe, pc>>

FullRefused ==
    /\ MainStep("sem_full", "failed")
    /\ sem_close("empty")
    /\ shared' = FALSE /\ open' = FALSE
    /\ UNCHANGED <<refused, pipe, pc>>

\* Those still to be created: the writers come first.
Uncreated(S) == {p \in S \ refused : pc[p] = "none"}

NextToCreate == IF Uncreated(Writers) # {} THEN Uncreated(Writers) ELSE Uncreated(Readers)

CreateWorker ==
    /\ main = "create"
    /\ \E p \in NextToCreate :
         \/ pc' = [pc EXCEPT ![p] = "delay"] /\ UNCHANGED refused
         \/ refused' = refused \union {p} /\ UNCHANGED pc
    /\ UNCHANGED <<semVars, main, shared, open, pipe>>

MainEnds ==
    /\ main = "create" /\ NextToCreate = {}
    /\ main' = "done"
    /\ UNCHANGED <<semVars, shared, open, refused, pipe, pc>>

-----------------------------------------------------------------------------
(* The workers.  A worker that sleeps in sem_wait goes on at its label when *)
(* somebody has posted to it.                                               *)

At(p, label) == pc[p] = label /\ state[p] = "READY"

Goto(p, label) == pc' = [pc EXCEPT ![p] = label]

\* After the random delay.
WaitEmpty(w) ==
    /\ At(w, "delay")
    /\ sem_wait(w, "empty")
    /\ Goto(w, "write")
    /\ UNCHANGED <<mainVars, pipe>>

Write(w) ==
    /\ At(w, "write")
    /\ pipe' = Append(pipe, w)
    /\ Goto(w, "announce")
    /\ UNCHANGED <<semVars, mainVars>>

PostFull(w) ==
    /\ At(w, "announce")
    /\ sem_post("full")
    /\ Goto(w, "delay")
    /\ UNCHANGED <<mainVars, pipe>>

WaitFull(r) ==
    /\ At(r, "delay")
    /\ sem_wait(r, "full")
    /\ Goto(r, "read")
    /\ UNCHANGED <<mainVars, pipe>>

Read(r) ==
    /\ At(r, "read")
    /\ pipe # <<>>
    /\ pipe' = Tail(pipe)
    /\ Goto(r, "release")
    /\ UNCHANGED <<semVars, mainVars>>

PostEmpty(r) ==
    /\ At(r, "release")
    /\ sem_post("empty")
    /\ Goto(r, "print")
    /\ UNCHANGED <<mainVars, pipe>>

PrintValue(r) ==
    /\ At(r, "print")
    /\ Goto(r, "delay")
    /\ UNCHANGED <<semVars, mainVars, pipe>>

-----------------------------------------------------------------------------
MvarInit ==
    /\ SemInit
    /\ main = "malloc"
    /\ shared = FALSE /\ open = FALSE
    /\ refused = {}
    /\ pipe = <<>>
    /\ pc = [p \in Workers |-> "none"]

MainNext ==
    \/ Allocate \/ OpenPipe \/ OpenEmpty \/ OpenFull
    \/ MallocRefused \/ PipeRefused \/ EmptyRefused \/ FullRefused
    \/ CreateWorker \/ MainEnds

WriterNext(w) == WaitEmpty(w) \/ Write(w) \/ PostFull(w)
ReaderNext(r) == WaitFull(r) \/ Read(r) \/ PostEmpty(r) \/ PrintValue(r)

MvarNext ==
    \/ MainNext
    \/ \E w \in Writers : WriterNext(w)
    \/ \E r \in Readers : ReaderNext(r)

MvarSpec == MvarInit /\ [][MvarNext]_mvarVars

-----------------------------------------------------------------------------
(* The main process, the pipe and the workers are of their types, and whoever   *)
(* has been let through to the pipe finds what it needs there: pipe_write room, *)
(* pipe_read a byte.                                                            *)
MvarTypeOK ==
    /\ SemTypeOK
    /\ main \in {"malloc", "pipe", "sem_empty", "sem_full", "create", "done", "failed"}
    /\ {shared, open} \subseteq BOOLEAN
    /\ pipe \in Seq(Writers)
    /\ pc \in [Workers -> {"none", "delay", "write", "announce", "read", "release", "print"}]
    /\ \A w \in Writers : At(w, "write") => pipe = <<>>
    /\ \A r \in Readers : At(r, "read") => pipe # <<>>

(* However the workers interleave, the pipe is an MVar: it never holds two      *)
(* values and every value is taken once (mvar_cmd.c:191-216, 267-294).          *)
Cell == INSTANCE MVar WITH Values <- Writers, cell <- pipe
MVarSpec == Cell!MVarSpec
=============================================================================
