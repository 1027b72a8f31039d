------------------------------ MODULE KeyQueue ------------------------------
(***************************************************************************)
(* What the keyboard buffer promises to those who read it: the keys come   *)
(* out once each and in the order they were typed; when the typist gets    *)
(* Capacity + 1 keys ahead of the readers, all of them are lost.           *)
(***************************************************************************)
EXTENDS Naturals, Sequences

CONSTANTS Capacity, Keys, NoKey  \* a number, a set, and no member of it

VARIABLES
    queue,   \* the keys that were typed and not taken
    taken    \* the key its reader is busy with, or NoKey

queueVars == <<queue, taken>>

QueueInit == queue = <<>> /\ taken = NoKey

Type(k) ==
    /\ queue' = IF Len(queue) = Capacity THEN <<>> ELSE Append(queue, k)
    /\ UNCHANGED taken

Take ==
    /\ queue # <<>> /\ taken = NoKey
    /\ taken' = Head(queue) /\ queue' = Tail(queue)

Done == taken' = NoKey /\ UNCHANGED queue

QueueNext == Take \/ Done \/ \E k \in Keys : Type(k)

QueueSpec == QueueInit /\ [][QueueNext]_queueVars
=============================================================================
