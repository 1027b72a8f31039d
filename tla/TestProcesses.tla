---------------------------- MODULE TestProcesses ----------------------------
(***************************************************************************)
(* test_process (src/Userland/SampleCodeModule/tests/test_processes.c) on  *)
(* the life cycle of module Process: it creates as many children as it was *)
(* told to, then kills, blocks and unblocks them at random until all are   *)
(* dead, and begins again.  It keeps its own record of their states and    *)
(* never waits for them.  The boot context and the shell come before it,   *)
(* the timer between its steps.  Nobody types Ctrl+C.                      *)
(***************************************************************************)
EXTENDS Process

CONSTANT MaxArgument  \* bound: the greatest argument of the test

ASSUME TestProcessesAssumption == MaxArgument \in Nat \ {0}

VARIABLES
    max_processes, \* the argument of test_process
    pids,     \* the pid of each child of the round
    records,  \* the state the test believes it to be in
    loop,     \* the loop the test is in
    rq        \* and where in it

testVars == <<max_processes, pids, records, loop, rq>>
allVars  == <<processVars, testVars>>

Tester == Shell + 1  \* the second process created
Index  == 1 .. MaxArgument

TestInit ==
    /\ ProcessInit
    /\ max_processes \in Index
    /\ pids = [r \in Index |-> None]
    /\ records = [r \in Index |-> "KILLED"]
    /\ loop = "create"
    /\ rq = 1

Runs(x) == UserRuns /\ family[current].pid = x

-----------------------------------------------------------------------------
(* Before the test: the boot context starts the shell, the shell the test  *)

Boot ==
    /\ \/ CreateShell /\ boot' = "created"
       \/ WaitForShell
    /\ UNCHANGED testVars

(* command_spawn_process, in the foreground, and                           *)
(* command_handle_child_process.                                           *)
ShellSpawns ==
    /\ Runs(Shell)
    /\ next_pid = Tester
    /\ \E prio \in Priorities : create_process(prio, TRUE, TRUE)
    /\ UNCHANGED <<boot, testVars>>

ShellWaits ==
    /\ Runs(Shell)
    /\ waitpid(Tester)
    /\ UNCHANGED testVars

-----------------------------------------------------------------------------
(* The test *)

In(l) == Runs(Tester) /\ loop = l

(* To the next child, or to the start of the next loop. *)
Step(next) ==
    /\ IF rq < max_processes THEN rq' = rq + 1 /\ UNCHANGED loop
       ELSE rq' = 1 /\ loop' = next
    /\ UNCHANGED max_processes

Fail == loop' = "error" /\ UNCHANGED <<max_processes, pids, records, rq>>

(* my_create_process: -1 when the table is full. *)
Create ==
    /\ In("create")
    /\ \E prio \in Priorities : create_process(prio, FALSE, TRUE)
    /\ IF next_pid' = next_pid THEN Fail
       ELSE /\ pids' = [pids EXCEPT ![rq] = next_pid]
            /\ records' = [records EXCEPT ![rq] = "RUNNING"]
            /\ Step("kill")
    /\ UNCHANGED boot

(* A call by pid that returns -1 when there is no such live process. *)
NoSuchProcess(x) == \A p \in get_process_by_pid(family, x) : ~ Alive(p)

Kill ==
    /\ In("kill")
    /\ records[rq] # "KILLED"
    /\ IF NoSuchProcess(pids[rq]) THEN Fail /\ UNCHANGED processVars
       ELSE /\ kill_process(pids[rq])
            /\ records' = [records EXCEPT ![rq] = "KILLED"]
            /\ Step("unblock")
            /\ UNCHANGED pids

(* block_process answers -1, or 2 for a process already blocked. *)
BlockChild ==
    /\ In("kill")
    /\ records[rq] = "RUNNING"
    /\ IF NoSuchProcess(pids[rq]) THEN Fail /\ UNCHANGED processVars
       ELSE /\ block_process(pids[rq])
            /\ records' = [records EXCEPT ![rq] = "BLOCKED"]
            /\ Step("unblock")
            /\ UNCHANGED pids

Skip ==
    /\ In("kill")
    /\ records[rq] # "RUNNING"  \* the case of a block on one that does not run
    /\ Step("unblock")
    /\ UNCHANGED <<processVars, pids, records>>

NoneAlive == \A r \in Index : records[r] = "KILLED"

NextRound == Step(IF NoneAlive THEN "create" ELSE "kill")

(* A faulty variant for the mutation runs: the record is not brought up to date. *)
Unblock_Unrecorded ==
    /\ In("unblock")
    /\ records[rq] = "BLOCKED"
    /\ unblock_process_of(pids[rq])
    /\ Step("kill")
    /\ UNCHANGED <<pids, records>>

Unblock ==
    /\ In("unblock")
    /\ records[rq] = "BLOCKED"
    /\ unblock_process_of(pids[rq])
    /\ records' = [records EXCEPT ![rq] = "RUNNING"]
    /\ Step("kill")
    /\ UNCHANGED pids

LeaveBlocked ==
    /\ In("unblock")
    /\ NextRound
    /\ UNCHANGED <<processVars, pids, records>>

(* After an error the test returns from main, to process_entry_wrapper. *)
ReturnError ==
    /\ In("error")
    /\ exit_current_process
    /\ UNCHANGED testVars

TestStep == Create \/ Kill \/ BlockChild \/ Skip \/ Unblock \/ LeaveBlocked \/ ReturnError

TestNext ==
    \/ Boot \/ ShellSpawns \/ ShellWaits \/ TestStep
    \/ (timer_handler \/ terminate_process) /\ UNCHANGED testVars

TestSpec == TestInit /\ [][TestNext]_allVars

-----------------------------------------------------------------------------
(* Properties *)

NoKernelWork == \A p \in Proc : frames[p] = <<>>

IsAlive(x) == \E p \in get_process_by_pid(family, x) : Alive(p)

(* What the test believes of its children is what the process table says,  *)
(* whenever the kernel has done what it was asked: test_processes.c keeps  *)
(* a state of its own beside that of the PCBs.                             *)
RecordIsTheTable ==
    NoKernelWork /\ IsAlive(Tester) =>
      \A r \in Index :
         /\ records[r] = "KILLED" <=> ~ IsAlive(pids[r])
         /\ records[r] = "BLOCKED" <=>
              \E p \in get_process_by_pid(family, pids[r]) : pcb[p].state = "BLOCKED"

=============================================================================
