---------------------------- MODULE MCScheduler ----------------------------
(* Small time-slice tables for the model checking of Scheduler. *)
EXTENDS Scheduler

(* Two buckets: urgent processes run two ticks, the others one. *)
TwoSlices == <<2, 1>>

(* One bucket: everybody runs one tick. *)
OneSlice == <<1>>
=============================================================================
