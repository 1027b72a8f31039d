----------------------------- MODULE MCPrograms -----------------------------
(***************************************************************************)
(* Three programs that run on the kernel, model checked side by side:      *)
(* test_process, test_sync and mvar.  A behaviour is one of them, its      *)
(* part, while the variables of the others keep their initial values: the  *)
(* states are the sum of theirs.                                           *)
(***************************************************************************)
EXTENDS MvarCommand, TestProcesses, TestSync

VARIABLE part

\* The scheduler of test_process is reduced to round robin.
OneSlice == <<1>>

ASSUME MCProgramsAssumption == SemaphoreAssumption /\ MvarAssumption /\ TestSyncAssumption

workerVars == <<stage, round, aux, global>>

ProgramsInit ==
    /\ part \in {"test_process", "test_sync", "mvar"}
    /\ TestInit
    /\ part # "test_process" => max_processes = 1
    /\ SyncInit
    /\ MvarInit

TestPart ==
    part = "test_process" /\ TestNext /\ UNCHANGED <<part, workerVars, mvarVars>>

SyncPart == part = "test_sync" /\ SyncNext /\ UNCHANGED <<part, allVars, mainVars, pipe, pc>>

MvarPart == part = "mvar" /\ MvarNext /\ UNCHANGED <<part, allVars, workerVars>>

\* The same for one worker of test_sync.
SyncWorker(p) ==
    part = "test_sync" /\ Worker(p) /\ UNCHANGED <<part, allVars, mainVars, pipe, pc>>

programsVars == <<part, allVars, workerVars, mvarVars>>

ProgramsSpec ==
    /\ ProgramsInit
    /\ [][TestPart \/ SyncPart \/ MvarPart]_programsVars
    /\ \A p \in Adders : WF_programsVars(SyncWorker(p))

-----------------------------------------------------------------------------
(* RecordIsTheTable is that of TestProcesses, ResultIsTheSum that of        *)
(* TestSync, MVarSpec that of MvarCommand.                                  *)

(* All the workers of test_sync end.                                       *)
AllFinish == <>(part = "test_sync" => AllDone)
=============================================================================
