------------------------------- MODULE Channel -------------------------------
(***************************************************************************)
(* What a pipe promises its users: a bounded queue of bytes from senders   *)
(* to receivers, first in first out, and an end that a receiver is told of *)
(* only when every sender has closed and nothing is left to receive.  The  *)
(* n-th byte of a sender s is <<s, n>>: what is received can be compared   *)
(* with what was sent.  Module Pipe is shown to implement it.              *)
(***************************************************************************)
EXTENDS Naturals, Sequences

CONSTANTS Senders, Receivers, Capacity

VARIABLES
    queue,   \* the bytes sent and not yet received
    sent,    \* the number of bytes of each sender
    got,     \* the bytes received, in order
    closed,  \* the senders that have closed
    atEnd    \* the receivers that were told of the end

channelVars == <<queue, sent, got, closed, atEnd>>

Init ==
    /\ queue = <<>> /\ got = <<>>
    /\ sent = [s \in Senders |-> 0]
    /\ closed = {} /\ atEnd = {}

Send(s) ==
    /\ s \notin closed
    /\ Len(queue) < Capacity
    /\ sent' = [sent EXCEPT ![s] = @ + 1]
    /\ queue' = Append(queue, <<s, sent'[s]>>)
    /\ UNCHANGED <<got, closed, atEnd>>

Receive(r) ==
    /\ r \notin atEnd
    /\ queue # <<>>
    /\ got' = Append(got, Head(queue))
    /\ queue' = Tail(queue)
    /\ UNCHANGED <<sent, closed, atEnd>>

Close(s) ==
    /\ closed' = closed \union {s}
    /\ UNCHANGED <<queue, sent, got, atEnd>>

End(r) ==
    /\ closed = Senders
    /\ queue = <<>>
    /\ atEnd' = atEnd \union {r}
    /\ UNCHANGED <<queue, sent, got, closed>>

Next ==
    \/ \E s \in Senders : Close(s) \/ Send(s)
    \/ \E r \in Receivers : Receive(r) \/ End(r)

Spec == Init /\ [][Next]_channelVars
=============================================================================
