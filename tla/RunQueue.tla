------------------------------ MODULE RunQueue ------------------------------
(***************************************************************************)
(* What the ready queue of src/Kernel/scheduler/process.c promises: the    *)
(* processes that can run wait in the order in which they came, and the    *)
(* CPU goes to the first of those with the best (lowest) priority, or to   *)
(* the idle context when there is none.                                    *)
(***************************************************************************)
EXTENDS Naturals, Sequences, SequencesExt

CONSTANTS Proc, Idle, Priorities

VARIABLES q, current, priority

InQueue(p) == \E i \in DOMAIN q : q[i] = p

IsFirstOfBest(s, i) ==
    /\ \A j \in DOMAIN s : priority[s[i]] <= priority[s[j]]
    /\ \A j \in 1 .. i - 1 : priority[s[i]] < priority[s[j]]

Dispatch(s) ==
    \/ s = <<>> /\ q' = s /\ current' = Idle
    \/ \E i \in DOMAIN s : /\ IsFirstOfBest(s, i)
                           /\ q' = RemoveAt(s, i)
                           /\ current' = s[i]

Arrive(p) ==
    /\ p # current /\ ~ InQueue(p)
    /\ q' = Append(q, p)
    /\ UNCHANGED <<current, priority>>

Leave(p) ==
    /\ \E i \in DOMAIN q : q[i] = p /\ q' = RemoveAt(q, i)
    /\ UNCHANGED <<current, priority>>

Preempt == Dispatch(Append(q, current)) /\ UNCHANGED priority

Sleep == Dispatch(q) /\ UNCHANGED priority

Reprioritize == priority' \in [Proc -> Priorities] /\ UNCHANGED <<q, current>>

RunQueueInit ==
    /\ q = <<>> /\ current = Idle
    /\ priority \in [Proc -> Priorities]

RunQueueNext ==
    \/ \E p \in Proc : Arrive(p) \/ Leave(p)
    \/ Preempt \/ Sleep \/ Reprioritize

RunQueueSpec == RunQueueInit /\ [][RunQueueNext]_<<q, current, priority>>
=============================================================================
