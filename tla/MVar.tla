-------------------------------- MODULE MVar ---------------------------------
(***************************************************************************)
(* What the command mvar promises ("similar a una MVar de Haskell"): a     *)
(* variable that is empty or holds one value, put when it is empty and     *)
(* taken when it is not.                                                   *)
(***************************************************************************)
EXTENDS Sequences

CONSTANT Values

VARIABLE cell   \* <<>>, or the value in a sequence of one

MVarInit == cell = <<>>

Put(v) == cell = <<>> /\ cell' = <<v>>

Take == cell # <<>> /\ cell' = <<>>

MVarSpec == MVarInit /\ [][Take \/ \E v \in Values : Put(v)]_cell
=============================================================================
