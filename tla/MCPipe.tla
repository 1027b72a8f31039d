------------------------------- MODULE MCPipe --------------------------------
(* Values for the constants of Pipe that a configuration cannot write.       *)
EXTENDS Pipe

ASSUME MCPipeAssumption == SemaphoreAssumption /\ PipeAssumption

CONSTANTS w1, w2, r1, r2

\* More than the pipe holds.
TwoWriters == (w1 :> <<3>>) @@ (w2 :> <<1>>)
OneByteCalls == (w1 :> <<1, 1>>)
OneReader == r1 :> 2
TwoReaders == (r1 :> 1) @@ (r2 :> 2)
=============================================================================
