-------------------------------- MODULE Shell --------------------------------
(***************************************************************************)
(* The shell (terminal.c and commands/command_context.c), and the shell    *)
(* that its command sh starts: the loop that waits for the foreground,     *)
(* reads the keyboard and runs commands, in the foreground, which it waits *)
(* for, or in the background, which it announces.                          *)
(*                                                                         *)
(* All user programs share one address space: background_mode_flag and the *)
(* pending notification are one variable each for all the shells.  System  *)
(* calls are steps (module Process has their insides); user code can be    *)
(* preempted between any two.  A typed line is one key.                    *)
(***************************************************************************)
EXTENDS Integers, FiniteSets

CONSTANTS
    First,       \* the shell that runs from the start
    Second,      \* the one created by sh
    Jobs,        \* the processes of other commands
    NoProcess    \* pid -1

ShellAssumption ==
    /\ First # Second /\ {First, Second} \intersect Jobs = {}
    /\ NoProcess \notin Jobs \union {First, Second}

VARIABLES
    fg,         \* foregroundProcessPid
    status,     \* of each process
    waiting,    \* waiting_pid
    parent,
    place,      \* where each shell is
    cmd,        \* the command it runs
    child,      \* the process it has created for it
    seen,       \* fg_pid: the foreground process it waits to see go
    flag,       \* background_mode_flag
    pending,    \* pending_background_pid
    popped,     \* what a shell has read of it
    toggled     \* the user ran block on a shell (not in the code)

procVars == <<fg, status, waiting, parent>>
globals == <<flag, pending>>
shellVars == <<procVars, place, cmd, child, seen, globals, popped, toggled>>

Shells == {First, Second}
Procs == Shells \union Jobs

Kinds == {"job", "sh", "kill", "block", "exit", "empty"}
NoCommand == [kind |-> "empty", bg |-> FALSE]
Steps == {"start", "loop", "away", "reading", "parse", "run", "handle", "setfg",
          "waitpid", "clear", "setself", "reset", "pop", "notify"}

Lives(p) == status[p] \in {"ready", "blocked"}

Stands(s, label) == status[s] = "ready" /\ place[s] = label

GoesTo(s, label) == place' = [place EXCEPT ![s] = label]

-----------------------------------------------------------------------------
(* What the kernel does to the processes *)

(* A faulty variant for the mutation runs: nobody is woken. *)
Perish_NotWoken(dead) ==
    /\ status' = [p \in Procs |-> IF p \in dead THEN "dead" ELSE status[p]]
    /\ waiting' = [p \in Procs |->
                      IF p \in dead \/ waiting[p] \in dead THEN NoProcess ELSE waiting[p]]
    /\ fg' = IF fg \in dead THEN NoProcess ELSE fg

Perish(dead) ==
    /\ status' = [p \in Procs |->
                    IF p \in dead THEN "dead"
                    ELSE IF waiting[p] \in dead /\ status[p] = "blocked" THEN "ready"
                    ELSE status[p]]
    /\ waiting' = [p \in Procs |->
                      IF p \in dead \/ waiting[p] \in dead THEN NoProcess ELSE waiting[p]]
    /\ fg' = IF fg \in dead THEN NoProcess ELSE fg

\* kill_process takes the living descendants with it (two levels exist here).
Family(p) ==
    LET Children(S) == {q \in Procs : Lives(q) /\ parent[q] \in S}
    IN  {p} \union Children({p}) \union Children(Children({p}))

kill_process(p) == Perish(Family(p)) /\ UNCHANGED parent

\* An exit hands the children over.
exit_current_process(p) ==
    /\ Perish({p})
    /\ parent' = [q \in Procs |-> IF parent[q] = p THEN parent[p] ELSE parent[q]]

-----------------------------------------------------------------------------
(* The loop of terminal() *)

others == <<cmd, child, seen, globals, popped, toggled>>

Starts(s) ==
    /\ Stands(s, "start")
    /\ fg' = s
    /\ GoesTo(s, "loop")
    /\ UNCHANGED <<status, waiting, parent, others>>

LooksAtForeground(s) ==
    /\ Stands(s, "loop")
    /\ IF fg \in {NoProcess, s} THEN GoesTo(s, "reading") /\ UNCHANGED seen
       ELSE GoesTo(s, "away") /\ seen' = [seen EXCEPT ![s] = fg]
    /\ UNCHANGED <<procVars, cmd, child, globals, popped, toggled>>

\* It yields until it is in the foreground or somebody new is.
Away(s) ==
    /\ Stands(s, "away")
    /\ fg = s \/ fg # seen[s]
    /\ GoesTo(s, "loop")
    /\ UNCHANGED <<procVars, others>>

\* Bound: the user waits for the prompt.  Every other shell waits for its child, for
\* the foreground or for a key.
Settled(s) ==
    \A t \in Shells \ {s} : status[t] = "ready" => place[t] \in {"reading", "away"}

\* read_keyboard takes a key before it looks at the foreground (stdinout.c:120).
TakesKey(s) ==
    /\ Stands(s, "reading")
    /\ Settled(s)
    /\ GoesTo(s, "parse")
    /\ \E k \in Kinds, bg \in BOOLEAN :
         /\ k \in {"job", "sh"} \/ ~ bg
         /\ cmd' = [cmd EXCEPT ![s] = [kind |-> k, bg |-> bg]]
    /\ UNCHANGED <<procVars, child, seen, globals, popped, toggled>>

\* Without a key it goes back, if it has lost the foreground.
FindsNoKey(s) ==
    /\ Stands(s, "reading")
    /\ fg # s
    /\ GoesTo(s, "loop")
    /\ UNCHANGED <<procVars, others>>

(* A faulty variant for the mutation runs: the mode of the last command stays. *)
Parse_KeepsMode(s) ==
    /\ Stands(s, "parse")
    /\ child' = [child EXCEPT ![s] = NoProcess]
    /\ GoesTo(s, "run")
    /\ UNCHANGED <<procVars, cmd, seen, globals, popped, toggled>>

Parse(s) ==
    /\ Stands(s, "parse")
    /\ flag' = cmd[s].bg
    /\ child' = [child EXCEPT ![s] = NoProcess]
    /\ GoesTo(s, "run")
    /\ UNCHANGED <<procVars, cmd, seen, pending, popped, toggled>>

\* The builtins, the empty line, sh in the background, and a creation that fails.
NothingToWaitFor(s) ==
    /\ Stands(s, "run")
    /\ cmd[s].kind \in {"job", "sh", "empty"}
    /\ GoesTo(s, "reset")
    /\ UNCHANGED <<procVars, others>>

\* A second shell is created only once here, and none by the second.
CanCreate(s, p) ==
    /\ status[p] = "unborn"
    /\ \/ cmd[s].kind = "job" /\ p \in Jobs
       \/ cmd[s].kind = "sh" /\ ~ cmd[s].bg /\ p = Second

\* command_spawn_process: the flag decides whether the child starts in the foreground.
Spawn(s) ==
    /\ Stands(s, "run")
    /\ \E p \in Procs :
         /\ CanCreate(s, p)
         /\ status' = [status EXCEPT ![p] = "ready"]
         /\ parent' = [parent EXCEPT ![p] = s]
         /\ child' = [child EXCEPT ![s] = p]
         /\ fg' = IF flag THEN fg ELSE p
    /\ GoesTo(s, "handle")
    /\ UNCHANGED <<waiting, cmd, seen, globals, popped, toggled>>

RunKill(s) ==
    /\ Stands(s, "run") /\ cmd[s].kind = "kill"
    /\ \E p \in Procs : Lives(p) /\ kill_process(p)
    /\ GoesTo(s, "reset")
    /\ UNCHANGED others

\* block on a process that is blocked already unblocks it, whatever it waits for.
RunBlock(s) ==
    /\ Stands(s, "run") /\ cmd[s].kind = "block"
    /\ \E p \in Shells \ {s} :
         /\ Lives(p)
         /\ status' = [status EXCEPT ![p] = IF @ = "blocked" THEN "ready" ELSE "blocked"]
    /\ toggled' = TRUE
    /\ GoesTo(s, "reset")
    /\ UNCHANGED <<fg, waiting, parent, cmd, child, seen, globals, popped>>

BlockRefused(s) ==
    /\ Stands(s, "run") /\ cmd[s].kind = "block"
    /\ GoesTo(s, "reset")
    /\ UNCHANGED <<procVars, others>>

RunExit(s) ==
    /\ Stands(s, "run") /\ cmd[s].kind = "exit"
    /\ exit_current_process(s)
    /\ GoesTo(s, "reset")
    /\ UNCHANGED others

-----------------------------------------------------------------------------
(* command_handle_child_process *)

\* In the background: the notification that was pending is printed at once.
Remember(s) ==
    /\ Stands(s, "handle") /\ flag
    /\ pending' = child[s]
    /\ GoesTo(s, "reset")
    /\ UNCHANGED <<procVars, cmd, child, seen, flag, popped, toggled>>

WillWait(s) ==
    /\ Stands(s, "handle") /\ ~ flag
    /\ GoesTo(s, "setfg")
    /\ UNCHANGED <<procVars, others>>

\* set_foreground_process(p): a dead one only takes it away from its owner, or is not
\* found when its slot has been released.
SetForeground(s, p, from, to) ==
    /\ Stands(s, from)
    /\ \/ Lives(p) /\ fg' = p
       \/ ~ Lives(p) /\ fg' \in {fg, NoProcess}
    /\ GoesTo(s, to)
    /\ UNCHANGED <<status, waiting, parent, others>>

(* A faulty variant for the mutation runs: the shell does not wait. *)
WaitChild_Not(s) ==
    /\ Stands(s, "waitpid")
    /\ GoesTo(s, "clear")
    /\ UNCHANGED <<procVars, others>>

WaitChild(s) ==
    /\ Stands(s, "waitpid")
    /\ IF Lives(child[s])
       THEN /\ waiting' = [waiting EXCEPT ![s] = child[s]]
            /\ status' = [status EXCEPT ![s] = "blocked"]
       ELSE UNCHANGED <<status, waiting>>
    /\ GoesTo(s, "clear")
    /\ UNCHANGED <<fg, parent, others>>

ClearForeground(s) ==
    /\ Stands(s, "clear")
    /\ fg' = IF fg = child[s] THEN NoProcess ELSE fg
    /\ GoesTo(s, "setself")
    /\ UNCHANGED <<status, waiting, parent, others>>

BackToSelf(s) == SetForeground(s, s, "setself", "reset")

-----------------------------------------------------------------------------
(* The end of a command *)

Reset(s) ==
    /\ Stands(s, "reset")
    /\ flag' = FALSE
    /\ GoesTo(s, "pop")
    /\ UNCHANGED <<procVars, cmd, child, seen, pending, popped, toggled>>

\* command_pop_background_notification reads the pending job, and then forgets it.
Pop(s) ==
    /\ Stands(s, "pop")
    /\ popped' = [popped EXCEPT ![s] = pending]
    /\ GoesTo(s, "notify")
    /\ UNCHANGED <<procVars, cmd, child, seen, globals, toggled>>

\* It prints what it has read, if anything.
Notify(s) ==
    /\ Stands(s, "notify")
    /\ pending' = IF popped[s] = NoProcess THEN pending ELSE NoProcess
    /\ popped' = [popped EXCEPT ![s] = NoProcess]
    /\ GoesTo(s, "loop")
    /\ UNCHANGED <<procVars, cmd, child, seen, flag, toggled>>

-----------------------------------------------------------------------------
JobEnds(j) ==
    /\ status[j] = "ready"
    /\ exit_current_process(j)
    /\ UNCHANGED <<place, others>>

CtrlC ==
    /\ fg # NoProcess
    /\ kill_process(fg)
    /\ UNCHANGED <<place, others>>

ShellInit ==
    /\ fg = NoProcess
    /\ status = [p \in Procs |-> IF p = First THEN "ready" ELSE "unborn"]
    /\ waiting = [p \in Procs |-> NoProcess]
    /\ parent = [p \in Procs |-> NoProcess]
    /\ place = [s \in Shells |-> "start"]
    /\ cmd = [s \in Shells |-> NoCommand]
    /\ child = [s \in Shells |-> NoProcess]
    /\ seen = [s \in Shells |-> NoProcess]
    /\ flag = FALSE
    /\ pending = NoProcess
    /\ popped = [s \in Shells |-> NoProcess]
    /\ toggled = FALSE

\* The steps a shell takes without a key being typed.
Works(s) ==
    \/ Starts(s) \/ LooksAtForeground(s) \/ Away(s) \/ FindsNoKey(s)
    \/ Parse(s) \/ NothingToWaitFor(s) \/ Spawn(s)
    \/ RunKill(s) \/ RunBlock(s) \/ BlockRefused(s) \/ RunExit(s)
    \/ Remember(s) \/ WillWait(s)
    \/ SetForeground(s, child[s], "setfg", "waitpid")
    \/ WaitChild(s) \/ ClearForeground(s) \/ BackToSelf(s)
    \/ Reset(s) \/ Pop(s) \/ Notify(s)

ShellNext ==
    \/ \E s \in Shells : Works(s) \/ TakesKey(s)
    \/ \E j \in Jobs : JobEnds(j)
    \/ CtrlC

ShellSpec == ShellInit /\ [][ShellNext]_shellVars

\* The scheduler starves no shell that can run.
FairShellSpec == ShellSpec /\ \A s \in Shells : WF_shellVars(Works(s))

-----------------------------------------------------------------------------
(* The processes and the shells are of their types, and nobody waits for the dead. *)
ShellTypeOK ==
    /\ fg \in Procs \union {NoProcess}
    /\ status \in [Procs -> {"unborn", "ready", "blocked", "dead"}]
    /\ waiting \in [Procs -> Procs \union {NoProcess}]
    /\ parent \in [Procs -> Procs \union {NoProcess}]
    /\ place \in [Shells -> Steps]
    /\ cmd \in [Shells -> [kind : Kinds, bg : BOOLEAN]]
    /\ child \in [Shells -> Procs \union {NoProcess}]
    /\ flag \in BOOLEAN
    /\ pending \in Procs \union {NoProcess}
    /\ \A p \in Procs : waiting[p] # NoProcess => Lives(waiting[p])

(* "Si hay un proceso foreground diferente del terminal, no leer del teclado"   *)
(* (terminal.c:76): a shell takes no key from another process.  It holds as     *)
(* long as nobody runs block on a shell that waits for its child.               *)
KeysGoToTheForeground ==
    [][\A s \in Shells :
          ~ toggled /\ place[s] = "reading" /\ place'[s] = "parse" =>
              fg \in {s, NoProcess}]_shellVars

(* A command starts in the mode its own line asked for, although the flag       *)
(* belongs to all shells, one of which may have been killed before it reset it  *)
(* (command_context.c).  It holds as long as the user waits for the prompt: a   *)
(* new shell can run the next line before the one that created it has looked at *)
(* the flag again.                                                              *)
ModeIsTheCommands ==
    \A s \in Shells :
        ~ toggled /\ (Stands(s, "run") \/ Stands(s, "handle")) => flag = cmd[s].bg

\* The end of the wait, and what has to come of it.
AwaitsTheDead(s) == ~ toggled /\ Lives(s) /\ place[s] = "clear" /\ ~ Lives(child[s])
AtPrompt(s) == Stands(s, "reading") \/ ~ Lives(s) \/ toggled

(* When the process a shell waits for is dead the shell gets back to its        *)
(* prompt, if it is not killed itself or blocked by the user.                   *)
PromptComesBack == \A s \in Shells : AwaitsTheDead(s) ~> AtPrompt(s)
=============================================================================
