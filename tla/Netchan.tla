------------------------------ MODULE Netchan ------------------------------
(***************************************************************************)
(* One direction of a sequenced channel (src/code/qcommon/net_chan.cpp)    *)
(* over UDP.  The sender numbers its messages and splits the long ones;    *)
(* the receiver drops what is old and puts fragments together.  Each side  *)
(* of a connection owns one netchan_t, whose sending half talks to the     *)
(* receiving half of the other side, so two copies of this module are a    *)
(* connection.                                                             *)
(*                                                                         *)
(* The network keeps every datagram ever sent and may hand over any of     *)
(* them at any time, again and again: a datagram that is never handed over *)
(* is lost, and duplicates and reordering come for free.                   *)
(*                                                                         *)
(* Netchan_Transmit has no guard of its own; its callers transmit only     *)
(* when no fragment is left (CL_WritePacket sends all fragments before it  *)
(* returns, SV_Netchan_Transmit queues), which is the guard of Transmit.   *)
(***************************************************************************)
EXTENDS NetchanOps, Sequences

CONSTANTS Payload,        \* messages the callers may send
          MaxMessages     \* bound on the messages of one behaviour

ASSUME PayloadAssumption == (\A m \in Payload : IsMessage(m)) /\ MaxMessages \in Nat

VARIABLES out,            \* sending half of the sender's netchan_t
          in,             \* receiving half of the receiver's netchan_t
          net,            \* datagrams sent so far
          sent,           \* history: messages in the order of Netchan_Transmit
          delivered       \* history: messages Netchan_Process returned qtrue for

vars == <<out, in, net, sent, delivered>>

Init ==
  /\ out = SetupSend
  /\ in = SetupReceive
  /\ net = {}
  /\ sent = <<>>
  /\ delivered = <<>>

Transmit(m) ==
  /\ ~out.unsentFragments
  /\ Len(sent) < MaxMessages
  /\ out' = AfterTransmit(out, m)
  /\ net' = net \union {TransmitPacket(out, m)}
  /\ sent' = Append(sent, m)
  /\ UNCHANGED <<in, delivered>>

TransmitNextFragment ==
  /\ out.unsentFragments
  /\ out' = AfterFragment(out)
  /\ net' = net \union {FragmentPacket(out)}
  /\ UNCHANGED <<in, sent, delivered>>

\* Netchan_Process returns qfalse: old, a fragment that does not fit, or not
\* the last one.
ProcessPartial(p) ==
  /\ ~Completes(in, p)
  /\ in' = AfterProcess(in, p)
  /\ UNCHANGED <<out, net, sent, delivered>>

\* Netchan_Process returns qtrue.
ProcessMessage(p) ==
  /\ Completes(in, p)
  /\ in' = AfterProcess(in, p)
  /\ delivered' = Append(delivered, [sequence |-> p.sequence,
                                     message  |-> ReceivedMessage(in, p)])
  /\ UNCHANGED <<out, net, sent>>

Next ==
  \/ \E m \in Payload : Transmit(m)
  \/ TransmitNextFragment
  \/ \E p \in net : ProcessPartial(p) \/ ProcessMessage(p)

\* SV_SendClientMessages sends a fragment of every client that has one in
\* every frame, and the client sends its fragments in a loop.
Fairness == WF_vars(TransmitNextFragment)

Spec == Init /\ [][Next]_vars

FairSpec == Spec /\ Fairness

-----------------------------------------------------------------------------
TypeOK ==
  /\ IsSendHalf(out)
  /\ in \in ReceiveHalf
  /\ \A p \in net : IsPacket(p)
  /\ sent \in Seq(Payload)
  /\ delivered \in Seq([sequence : Nat, message : Payload])

\* A message the receiver gets is the message sent under that number, byte for
\* byte, whatever fragments of it and of other messages arrived, in any order.
DeliveredIntact ==
  \A i \in 1 .. Len(delivered) :
    /\ delivered[i].sequence \in 1 .. Len(sent)
    /\ delivered[i].message = sent[delivered[i].sequence]

\* No message is handed over twice or after a newer one: the numbers grow.
DeliveredInOrder ==
  \A i, j \in 1 .. Len(delivered) :
    i < j => delivered[i].sequence < delivered[j].sequence

\* p ends the message sent under number s.
Ends(p, s, msgs) ==
  /\ p.sequence = s
  /\ p.start + p.length = msgs[s].length
  /\ p.length # FRAGMENT_SIZE

\* Once the sender moves on from a message, a datagram that tells the receiver
\* "no more to follow" has been sent, also for a message that is exactly a
\* number of full fragments long.
FragmentsTerminated ==
  \A s \in 1 .. Len(sent) :
    s < out.outgoingSequence => \E p \in net : Ends(p, s, sent)

\* The number of the message being assembled and the bytes put together so
\* far: always a prefix of that message, never bytes of two messages.
AssembledPrefix ==
  in.fragmentLength > 0 =>
    /\ in.fragmentSequence \in 1 .. Len(sent)
    /\ in.fragmentLength <= sent[in.fragmentSequence].length
    /\ \A i \in 0 .. in.fragmentLength - 1 :
         in.fragmentBuffer[i] = sent[in.fragmentSequence].data[i]

\* The message of the receiver's new number is handed over.
Advances ==
  /\ in'.incomingSequence > in.incomingSequence
  /\ delivered' = Append(delivered, [sequence |-> in'.incomingSequence,
                                     message  |-> sent[in'.incomingSequence]])

\* A sequence number is used up only by the message the caller gets under it:
\* no single fragment makes the rest of its message, or another, look old.
AdvanceByMessage == [][in'.incomingSequence # in.incomingSequence => Advances]_vars

\* A fragmented message is sent to its end: the sender never gets stuck with
\* fragments left, so its callers' queues move.
FragmentsDrain == out.unsentFragments ~> ~out.unsentFragments

Stream == INSTANCE MessageStream

\* The channel is a stream of numbered messages: whatever the network does, its
\* callers see only messages sent, unaltered, in order and at most once.
ImplementsStream == Stream!Spec

-----------------------------------------------------------------------------
(* The inductive invariant behind these properties.                         *)

\* A datagram carries a piece of the message sent under its number, and a
\* datagram that is not a full fragment carries the end of that message.
Genuine(p, msgs) ==
  /\ p.sequence \in 1 .. Len(msgs)
  /\ p.start + p.length <= msgs[p.sequence].length
  /\ \A i \in 0 .. p.length - 1 : p.data[i] = msgs[p.sequence].data[p.start + i]
  /\ p.length # FRAGMENT_SIZE => p.start + p.length = msgs[p.sequence].length
  /\ ~p.fragmented => p.start = 0 /\ p.length # FRAGMENT_SIZE

\* The sender's number and buffer are those of the message it is sending.
Sending(chan, msgs) ==
  IF chan.unsentFragments
  THEN /\ msgs # <<>>
       /\ chan.outgoingSequence = Len(msgs)
       /\ chan.unsentBuffer = msgs[Len(msgs)]
       /\ chan.unsentFragmentStart <= chan.unsentBuffer.length
  ELSE chan.outgoingSequence = Len(msgs) + 1

\* Nothing newer than the receiver's number has been handed over.
DeliveredOld ==
  \A i \in 1 .. Len(delivered) : delivered[i].sequence <= in.incomingSequence

\* What a channel relies on in every step: that what is on the network is genuine and
\* what has been put together is the beginning of one message, so that the message
\* handed over in the end is the one sent.
NetchanInv ==
  /\ TypeOK
  /\ \A p \in net : Genuine(p, sent)
  /\ Sending(out, sent)
  /\ AssembledPrefix
  /\ DeliveredOld
  /\ DeliveredIntact
  /\ DeliveredInOrder
  /\ FragmentsTerminated
=============================================================================
