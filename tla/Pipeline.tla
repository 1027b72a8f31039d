------------------------------ MODULE Pipeline -------------------------------
(***************************************************************************)
(* pipes_cmd.c: the shell runs a command "writer | reader".  It opens the  *)
(* pipe named after the writer, creates both processes with their          *)
(* descriptors, waits for them and takes the foreground back.  The         *)
(* programs are those resolve_command_function knows; they share the       *)
(* semaphore print_sem, which print_format holds while it writes.          *)
(*                                                                         *)
(* Module Descriptors gives the pipes and the processes.  A system call is *)
(* one step here; user code and a write of many bytes are not.             *)
(***************************************************************************)
EXTENDS Descriptors

CONSTANTS
    Commands,      \* the pairs <<writer, reader>> the user types
    Reads,         \* the programs that read their input to its end
    Echoes,        \* those that write each byte they have read at once
    Pieces,        \* what each program then prints: bytes per print_format
    MaxKeys,       \* bound: keys typed for one program
    MaxPipelines,  \* bound: commands typed
    Troubled       \* bound: the commands in which something may go wrong, when last

Programs == {c[1] : c \in Commands} \union {c[2] : c \in Commands}

ASSUME PipelineAssumption ==
    /\ Procs = 0 .. 2 * MaxPipelines /\ Init0 = 0
    /\ Programs \subseteq PipeNames
    /\ Echoes \subseteq Reads
    /\ Programs \subseteq DOMAIN Pieces
    /\ MaxKeys \in Nat /\ MaxPipelines \in Nat
    /\ Troubled \subseteq Commands
    /\ DescriptorsAssumption

VARIABLES
    shell,       \* where the shell is, its command, its pipe and its children
    task,        \* what each process runs and how far it is
    got,         \* whose bytes a process has read
    print_sem,   \* who holds the semaphore, or Nobody
    foreground,  \* foregroundProcessPid, or Nobody
    created      \* process numbers used so far, by a refused creation too

pipelineVars == <<ioVars, shell, task, got, print_sem, foreground, created>>

Shell  == Init0
Nobody == -1
Users  == Procs \ {Shell}

Phase == {"none", "read", "write", "print", "printing", "exit"}

\* The phase after the last byte read, with these pieces left to print.
AfterReading(pieces) == IF pieces = <<>> THEN "exit" ELSE "print"

NewTask(program) ==
    [program |-> program, pieces |-> Pieces[program], left |-> 0, keys |-> MaxKeys,
     phase |-> IF program \in Reads THEN "read" ELSE AfterReading(Pieces[program])]

Init ==
    /\ IoInit
    /\ shell = [pc |-> "prompt", command |-> <<>>, pipe |-> Nobody,
                writer |-> Nobody, reader |-> Nobody]
    /\ task = [p \in Users |->
                 [program |-> NoName, pieces |-> <<>>, left |-> 0, keys |-> 0,
                  phase |-> "none"]]
    /\ got = [p \in Users |-> {}]
    /\ print_sem = Nobody
    /\ foreground = Shell
    /\ created = 0

\* A creation may be refused memory and the user may type Ctrl+C: in the last
\* pipeline, for what it leaves in the pipe is there for the next one of its name.
Trouble == shell.command \in Troubled /\ created >= 2 * (MaxPipelines - 1)

-----------------------------------------------------------------------------
(* The programs *)

\* Process p goes on to a phase.
Goto(p, phase) == task' = [task EXCEPT ![p].phase = phase]

Running(p, phase) == p \in alive /\ task[p].phase = phase

AfterByte(p) == IF task[p].program \in Echoes THEN "write" ELSE "read"

(* read_keyboard gives keys to the foreground process alone. *)
ReadKey(p) ==
    /\ Running(p, "read")
    /\ io[p]["stdin"] = Console
    /\ foreground = p
    /\ task[p].keys > 0
    /\ task' = [task EXCEPT ![p].phase = AfterByte(p), ![p].keys = @ - 1]
    /\ UNCHANGED <<ioVars, shell, got, print_sem, foreground, created>>

(* Ctrl+D; and whoever does not get the foreground is told of the end, too. *)
EndOfKeys(p) ==
    /\ Running(p, "read")
    /\ io[p]["stdin"] = Console
    /\ Goto(p, AfterReading(task[p].pieces))
    /\ UNCHANGED <<ioVars, shell, got, print_sem, foreground, created>>

ReadByte(p) ==
    /\ Running(p, "read")
    /\ process_read(p)
    /\ got' = [got EXCEPT ![p] = @ \union {Head(pipes[io[p]["stdin"]].bytes)}]
    /\ Goto(p, AfterByte(p))
    /\ UNCHANGED <<shell, print_sem, foreground, created>>

(* A faulty variant for the mutation runs: the bytes left are not read. *)
EndOfPipe_DataLeft(p) ==
    /\ Running(p, "read")
    /\ io[p]["stdin"] # Console
    /\ pipes[io[p]["stdin"]].eof
    /\ Goto(p, AfterReading(task[p].pieces))
    /\ UNCHANGED <<ioVars, shell, got, print_sem, foreground, created>>

EndOfPipe(p) ==
    /\ Running(p, "read")
    /\ io[p]["stdin"] # Console
    /\ LET pipe == pipes[io[p]["stdin"]]
       IN  ~ pipe.active \/ (pipe.bytes = <<>> /\ pipe.eof)
    /\ Goto(p, AfterReading(task[p].pieces))
    /\ UNCHANGED <<ioVars, shell, got, print_sem, foreground, created>>

\* One byte of a write_output to the screen, or to a pipe with room for it.
WriteByte(p) ==
    IF io[p]["stdout"] = Console THEN UNCHANGED ioVars ELSE process_write(p, "stdout")

Echo(p) ==
    /\ Running(p, "write")
    /\ WriteByte(p)
    /\ Goto(p, "read")
    /\ UNCHANGED <<shell, got, print_sem, foreground, created>>

(* print_format waits for the semaphore, writes, and posts it. *)
TakePrintSem(p) ==
    /\ Running(p, "print")
    /\ print_sem = Nobody
    /\ print_sem' = p
    /\ task' = [task EXCEPT ![p].phase = "printing", ![p].left = Head(task[p].pieces)]
    /\ UNCHANGED <<ioVars, shell, got, foreground, created>>

PrintByte(p) ==
    /\ Running(p, "printing")
    /\ task[p].left > 0
    /\ WriteByte(p)
    /\ task' = [task EXCEPT ![p].left = @ - 1]
    /\ UNCHANGED <<shell, got, print_sem, foreground, created>>

PostPrintSem(p) ==
    /\ Running(p, "printing")
    /\ task[p].left = 0
    /\ print_sem' = Nobody
    /\ task' = [task EXCEPT ![p].pieces = Tail(@),
                          ![p].phase = AfterReading(Tail(task[p].pieces))]
    /\ UNCHANGED <<ioVars, shell, got, foreground, created>>

(* terminate_process; a semaphore the process holds is nobody's business. *)
terminate_program(p) ==
    /\ terminate_process(p)
    /\ foreground' = IF foreground = p THEN Nobody ELSE foreground
    /\ UNCHANGED <<shell, task, got, print_sem, created>>

Exit(p) == Running(p, "exit") /\ terminate_program(p)

handle_ctrl_c == Trouble /\ foreground \in Users /\ terminate_program(foreground)

Program(p) ==
    \/ ReadKey(p) \/ EndOfKeys(p) \/ ReadByte(p) \/ EndOfPipe(p) \/ Echo(p)
    \/ TakePrintSem(p) \/ PrintByte(p) \/ PostPrintSem(p) \/ Exit(p)

-----------------------------------------------------------------------------
(* The shell.  Its own print_format writes to the screen and never blocks  *)
(* once it has the semaphore: it is one step.                              *)

CanPrint == print_sem = Nobody

Prompt ==
    /\ shell.pc = "prompt"
    /\ CanPrint
    /\ shell' = [shell EXCEPT !.pc = "typing"]
    /\ UNCHANGED <<ioVars, task, got, print_sem, foreground, created>>

(* pipe_open, by the name of the writer; the error message when there is   *)
(* no slot left.                                                           *)
OpenPipe ==
    /\ shell.pc = "typing"
    /\ created + 2 <= 2 * MaxPipelines
    /\ CanPrint
    /\ \E c \in Commands :
          IF OpenAt(pipes, c[1]) = {}
          THEN shell' = [shell EXCEPT !.pc = "prompt"] /\ UNCHANGED ioVars
          ELSE /\ sys_pipe_open(c[1])
               /\ \E i \in OpenAt(pipes, c[1]) :
                     shell' = [pc |-> "writer", command |-> c, pipe |-> i,
                               writer |-> Nobody, reader |-> Nobody]
    /\ UNCHANGED <<task, got, print_sem, foreground, created>>

build_writer_config == [stdin |-> Console, stdout |-> shell.pipe, stderr |-> Console]
build_reader_config == [stdin |-> shell.pipe, stdout |-> Console, stderr |-> Console]

Child == created + 1

Create(config, program) ==
    /\ create_process_internal(Child, Shell, config, FALSE)
    /\ created' = Child
    /\ task' = [task EXCEPT ![Child] = NewTask(program)]
    /\ UNCHANGED <<got, print_sem>>

CreateWriter ==
    /\ shell.pc = "writer"
    /\ Create(build_writer_config, shell.command[1])
    /\ foreground' = Child
    /\ shell' = [shell EXCEPT !.pc = "reader", !.writer = Child]

CreateReader ==
    /\ shell.pc = "reader"
    /\ Create(build_reader_config, shell.command[2])
    /\ Child \in alive'
    /\ shell' = [shell EXCEPT !.pc = "wait_writer", !.reader = Child]
    /\ UNCHANGED foreground

(* The first creation fails, the message is printed and the pipe closed. *)
NoWriter ==
    /\ Trouble
    /\ shell.pc = "writer"
    /\ CanPrint
    /\ sys_pipe_close(shell.pipe)
    /\ shell' = [shell EXCEPT !.pc = "prompt"]
    /\ created' = created + 2
    /\ UNCHANGED <<task, got, print_sem, foreground>>

(* The second one fails, also when the writer has come to its end and has  *)
(* taken the pipe with it: the writer is killed.  pipe_close then finds    *)
(* that the pipe is free or that bytes are left in it.                     *)
NoReader ==
    /\ shell.pc = "reader"
    /\ Trouble \/ ~ pipes[shell.pipe].active
    /\ CanPrint
    /\ shell' = [shell EXCEPT !.pc = "prompt"]
    /\ IF shell.writer \in alive
       THEN /\ terminate_process(shell.writer)
            /\ foreground' = IF foreground = shell.writer THEN Nobody ELSE foreground
       ELSE UNCHANGED <<ioVars, foreground>>
    /\ created' = created + 1
    /\ UNCHANGED <<task, got, print_sem>>

Waited(from, p, to) ==
    /\ shell.pc = from
    /\ p \notin alive
    /\ shell' = [shell EXCEPT !.pc = to]
    /\ UNCHANGED <<ioVars, task, got, print_sem, foreground, created>>

(* A faulty variant for the mutation runs: the shell does not wait for the reader. *)
WaitForReader_Not == Waited("wait_reader", shell.writer, "restore")

WaitForReader == Waited("wait_reader", shell.reader, "restore")

WaitForWriter == Waited("wait_writer", shell.writer, "wait_reader")

RestoreForeground ==
    /\ shell.pc = "restore"
    /\ shell' = [shell EXCEPT !.pc = "prompt"]
    /\ foreground' = Shell
    /\ UNCHANGED <<ioVars, task, got, print_sem, created>>

pipes_cmd ==
    \/ CreateWriter \/ CreateReader \/ NoWriter \/ NoReader
    \/ WaitForWriter \/ WaitForReader \/ RestoreForeground

-----------------------------------------------------------------------------
Next ==
    \/ Prompt \/ OpenPipe \/ pipes_cmd \/ handle_ctrl_c
    \/ \E p \in Users : Program(p)

(* The scheduler starves nobody, and the user ends his input some day.     *)
Fairness ==
    /\ WF_pipelineVars(Prompt)
    /\ WF_pipelineVars(pipes_cmd)
    /\ \A p \in Users : WF_pipelineVars(Program(p))

Spec == Init /\ [][Next]_pipelineVars /\ Fairness

-----------------------------------------------------------------------------
(* Properties *)

(* Every variable stays in its type. *)
PipelineTypeOK ==
    /\ IoTypeOK
    /\ shell.pc \in {"prompt", "typing", "writer", "reader", "wait_writer",
                     "wait_reader", "restore"}
    /\ \A p \in Users : task[p].phase \in Phase /\ task[p].left \in Nat
    /\ got \in [Users -> SUBSET Users]
    /\ {print_sem, foreground} \subseteq Procs \union {Nobody}
    /\ created \in 0 .. 2 * MaxPipelines

(* The README says that the standard output of the first command is        *)
(* connected to the standard input of the second: the reader gets bytes of *)
(* its writer, never of an earlier pipeline, as long as no creation was     *)
(* refused and no Ctrl+C typed in an earlier one: see Trouble.             *)
OwnBytesOnly ==
    shell.pc \in {"wait_writer", "wait_reader", "restore"} =>
        got[shell.reader] \subseteq {shell.writer}

(* When the user types the next command, both processes are gone.          *)
NobodyIsLeft == shell.pc = "typing" => alive = {Shell}

(* The shell comes back to its prompt after every command.                  *)
PromptReturns == []<>(shell.pc = "typing")
=============================================================================
