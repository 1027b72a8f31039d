------------------------------ MODULE MCConsole ------------------------------
(***************************************************************************)
(* What the user has in front of him, model checked side by side: the      *)
(* keyboard and its reader, the shells, a pipe whose ends are killed in    *)
(* the middle of their calls, as Ctrl+C does, and sleep on the timer.  A   *)
(* behaviour is about one of them, its part, while the variables of the    *)
(* others keep their initial values: the states are the sum of theirs.     *)
(***************************************************************************)
EXTENDS Pipe, Keyboard, Shell, Timer

\* Two writers, one of them with a call of two bytes, and a reader.
KilledWrites == [w1 |-> <<2>>, w2 |-> <<1>>]
KilledReads == [r1 |-> 2]

ASSUME MCConsoleAssumption ==
    /\ SemaphoreAssumption /\ PipeAssumption
    /\ KeyboardAssumption /\ ShellAssumption /\ TimerAssumption

VARIABLE part

consoleVars == <<part, kbdVars, shellVars, timerVars, pipeVars>>

ConsoleInit ==
    /\ part \in {"keyboard", "shell", "timer", "pipe"}
    /\ KbdInit
    /\ part # "keyboard" => ~ foreground
    /\ ShellInit
    /\ TimerInit
    /\ part # "timer" => current = CHOOSE p \in Proc : TRUE
    /\ PipeInit

BoardPart ==
    /\ part = "keyboard" /\ KbdNext
    /\ UNCHANGED <<part, shellVars, timerVars, pipeVars>>

ShellPart ==
    /\ part = "shell" /\ ShellNext
    /\ UNCHANGED <<part, kbdVars, timerVars, pipeVars>>

ClockPart ==
    /\ part = "timer" /\ TimerNext
    /\ UNCHANGED <<part, kbdVars, shellVars, pipeVars>>

PipePart ==
    /\ part = "pipe" /\ PipeNext
    /\ UNCHANGED <<part, kbdVars, shellVars, timerVars>>

\* The steps one shell takes without a key being typed.
ShellWorks(s) ==
    /\ part = "shell" /\ Works(s)
    /\ UNCHANGED <<part, kbdVars, timerVars, pipeVars>>

ConsoleSpec ==
    /\ ConsoleInit
    /\ [][BoardPart \/ ShellPart \/ ClockPart \/ PipePart]_consoleVars
    /\ \A s \in Shells : WF_consoleVars(ShellWorks(s))

=============================================================================
