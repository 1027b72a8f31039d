----------------------------- MODULE MCProcess -----------------------------
(* A scheduler reduced to round robin, for the model checking of Process. *)
EXTENDS Process

OneSlice == <<1>>
=============================================================================
