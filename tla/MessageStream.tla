--------------------------- MODULE MessageStream ---------------------------
(***************************************************************************)
(* What a netchan promises its callers: messages are numbered as they are  *)
(* sent, and the receiver gets some of them, each at most once, in         *)
(* the order of their numbers and byte for byte as sent.  Messages may be  *)
(* missing; nothing is ever altered, repeated, mixed or reordered.         *)
(***************************************************************************)
EXTENDS Integers, Sequences

CONSTANT Payload            \* the messages that may be sent

VARIABLES sent,             \* the messages, in the order they were sent
          delivered         \* what the receiver got: [sequence, message]

vars == <<sent, delivered>>

LastDelivered ==
  IF delivered = <<>> THEN 0 ELSE delivered[Len(delivered)].sequence

Init == sent = <<>> /\ delivered = <<>>

Send(m) == sent' = Append(sent, m) /\ UNCHANGED delivered

Deliver(i) ==
  /\ i > LastDelivered
  /\ delivered' = Append(delivered, [sequence |-> i, message |-> sent[i]])
  /\ UNCHANGED sent

Next == \/ \E m \in Payload : Send(m)
        \/ \E i \in 1 .. Len(sent) : Deliver(i)

Spec == Init /\ [][Next]_vars
=============================================================================
