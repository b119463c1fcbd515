--------------------------- MODULE ChannelProofs ---------------------------
(***************************************************************************)
(* Proofs about the channel and the server's queue in front of it.  For    *)
(* every fragment size, message length, payload and number of messages     *)
(* Netchan hands over only messages that were sent, byte for byte, in the  *)
(* order of their numbers.  The queue neither loses nor repeats one; one   *)
(* step of the server may send twice, so the lemmas about it are on the    *)
(* operators on the server's side of a channel, and its invariant is a     *)
(* predicate on such a side and the number of messages built so far.       *)
(***************************************************************************)
EXTENDS Netchan, ServerNetchan, SequenceTheorems, TLAPS

-----------------------------------------------------------------------------
(* What the operators of the sending half return.                           *)

\* The parts of a message.
LEMMA MessageParts ==
  ASSUME NEW m, IsMessage(m)
  PROVE  /\ m.length \in Lengths
         /\ m.data \in [0 .. m.length-1 -> Byte]
         /\ m = [length |-> m.length, data |-> m.data]
  BY DEF IsMessage

\* A length and that many bytes are a message.
LEMMA MakeMessage ==
  ASSUME NEW n \in Lengths, NEW d \in [0 .. n-1 -> Byte]
  PROVE  IsMessage([length |-> n, data |-> d])
  BY DEF IsMessage

\* Netchan_Setup leaves two well-formed halves.
LEMMA SetupType ==
  IsSendHalf(SetupSend) /\ SetupReceive \in ReceiveHalf
  <1>1. IsMessage(NoMessage)
    BY NetchanSizes DEF NoMessage, IsMessage, Lengths
  <1>2. IsSendHalf(SetupSend)
    BY <1>1, NetchanSizes DEF SetupSend, IsSendHalf, Lengths
  <1>3. SetupReceive \in ReceiveHalf
    BY NetchanSizes DEF SetupReceive, ReceiveHalf, Lengths
  <1> QED BY <1>2, <1>3

\* A fragment is cut from the unsent part of the buffer: a full one, or the
\* rest, and never past the end.
LEMMA FragmentCut ==
  ASSUME NEW chan, IsSendHalf(chan),
         chan.unsentFragmentStart <= chan.unsentBuffer.length
  PROVE  /\ NextLength(chan) \in Lengths
         /\ NextLength(chan) <= FRAGMENT_SIZE
         /\ chan.unsentFragmentStart + NextLength(chan) \in Lengths
         /\ chan.unsentFragmentStart + NextLength(chan) <= chan.unsentBuffer.length
         /\ NextLength(chan) # FRAGMENT_SIZE =>
              chan.unsentFragmentStart + NextLength(chan) = chan.unsentBuffer.length
  <1>1. chan.unsentBuffer.length \in Lengths
    BY MessageParts DEF IsSendHalf
  <1>2. chan.unsentFragmentStart \in Lengths
    BY DEF IsSendHalf
  <1> QED BY <1>1, <1>2, NetchanSizes DEF NextLength, Lengths

\* The datagram of a fragment is well formed and carries its slice.
LEMMA FragmentPacketType ==
  ASSUME NEW chan, IsSendHalf(chan),
         chan.unsentFragmentStart <= chan.unsentBuffer.length
  PROVE  /\ IsPacket(FragmentPacket(chan))
         /\ \A i \in 0 .. NextLength(chan) - 1 :
              FragmentPacket(chan).data[i] =
                chan.unsentBuffer.data[chan.unsentFragmentStart + i]
  <1> DEFINE n == NextLength(chan)
             start == chan.unsentFragmentStart
             p == FragmentPacket(chan)
  <1>1. /\ n \in Lengths /\ start \in Lengths
        /\ start + n <= chan.unsentBuffer.length
        /\ chan.unsentBuffer.length \in Lengths
        /\ chan.unsentBuffer.data \in [0 .. chan.unsentBuffer.length-1 -> Byte]
        /\ chan.outgoingSequence \in Nat
    BY FragmentCut, MessageParts DEF IsSendHalf
  <1>2. \A i \in 0 .. n-1 : start + i \in 0 .. chan.unsentBuffer.length-1
    BY <1>1, NetchanSizes DEF Lengths
  <1>3. Slice(chan.unsentBuffer.data, start, n) \in [0 .. n-1 -> Byte]
    BY <1>1, <1>2 DEF Slice
  <1>4. p \in [sequence : Nat, fragmented : BOOLEAN, start : Lengths,
               length : {n}, data : [0 .. n-1 -> Byte]]
    BY <1>1, <1>3 DEF FragmentPacket
  <1>5. \A i \in 0 .. n-1 : p.data[i] = chan.unsentBuffer.data[start + i]
    BY DEF FragmentPacket, Slice
  <1> QED BY <1>1, <1>4, <1>5 DEF IsPacket

\* After a fragment the half is well formed, and either the message goes on in
\* the same buffer under the same number, or it is sent to its end.
LEMMA AfterFragmentType ==
  ASSUME NEW chan, IsSendHalf(chan), chan.unsentFragments,
         chan.unsentFragmentStart <= chan.unsentBuffer.length
  PROVE  LET next == AfterFragment(chan) IN
         /\ IsSendHalf(next)
         /\ next.unsentBuffer = chan.unsentBuffer
         /\ next.unsentFragments =>
              /\ next.outgoingSequence = chan.outgoingSequence
              /\ next.unsentFragmentStart <= next.unsentBuffer.length
         /\ ~next.unsentFragments =>
              /\ next.outgoingSequence = chan.outgoingSequence + 1
              /\ NextLength(chan) # FRAGMENT_SIZE
              /\ chan.unsentFragmentStart + NextLength(chan) = chan.unsentBuffer.length
  <1> DEFINE n == NextLength(chan)
             next == AfterFragment(chan)
             done == /\ chan.unsentFragmentStart + n = chan.unsentBuffer.length
                     /\ n # FRAGMENT_SIZE
  <1>1. /\ n \in Lengths
        /\ chan.unsentFragmentStart + n \in Lengths
        /\ chan.unsentFragmentStart + n <= chan.unsentBuffer.length
    BY FragmentCut
  <1>2. chan \in [outgoingSequence : Nat \ {0}, unsentFragments : BOOLEAN,
                  unsentFragmentStart : Lengths, unsentBuffer : {chan.unsentBuffer}]
    BY DEF IsSendHalf
  <1>3. CASE done
    <2>1. next = [chan EXCEPT !.unsentFragmentStart = chan.unsentFragmentStart + n,
                              !.outgoingSequence = chan.outgoingSequence + 1,
                              !.unsentFragments = FALSE]
      BY <1>3 DEF AfterFragment
    <2> HIDE DEF n, next
    <2>2. next = [outgoingSequence    |-> chan.outgoingSequence + 1,
                  unsentFragments     |-> FALSE,
                  unsentFragmentStart |-> chan.unsentFragmentStart + n,
                  unsentBuffer        |-> chan.unsentBuffer]
      BY <1>2, <2>1
    <2>3. next \in [outgoingSequence : Nat \ {0}, unsentFragments : BOOLEAN,
                   unsentFragmentStart : Lengths, unsentBuffer : {chan.unsentBuffer}]
      BY <1>1, <1>2, <2>2
    <2> QED BY <2>2, <2>3, <1>3 DEF IsSendHalf, n, next
  <1>4. CASE ~done
    <2>1. next = [chan EXCEPT !.unsentFragmentStart = chan.unsentFragmentStart + n]
      BY <1>4 DEF AfterFragment
    <2> HIDE DEF n, next
    <2>2. /\ next.unsentFragments = TRUE
          /\ next.outgoingSequence = chan.outgoingSequence
          /\ next.unsentFragmentStart = chan.unsentFragmentStart + n
          /\ next.unsentBuffer = chan.unsentBuffer
          /\ next \in [outgoingSequence : Nat \ {0}, unsentFragments : BOOLEAN,
                       unsentFragmentStart : Lengths, unsentBuffer : {chan.unsentBuffer}]
      BY <1>1, <1>2, <2>1
    <2> QED BY <2>2, <1>1 DEF IsSendHalf, n, next
  <1> QED BY <1>3, <1>4

\* A long message is put into the buffer whole, under the current number.
LEMMA FragmentingType ==
  ASSUME NEW chan, IsSendHalf(chan), NEW m, IsMessage(m)
  PROVE  LET next == Fragmenting(chan, m) IN
         /\ IsSendHalf(next)
         /\ next.unsentFragments
         /\ next.unsentFragmentStart = 0
         /\ next.unsentBuffer = m
         /\ next.outgoingSequence = chan.outgoingSequence
  <1> DEFINE next == Fragmenting(chan, m)
  <1>1. next = [outgoingSequence |-> chan.outgoingSequence, unsentFragments |-> TRUE,
                unsentFragmentStart |-> 0, unsentBuffer |-> m]
    <2>1. chan \in [outgoingSequence : Nat \ {0}, unsentFragments : BOOLEAN,
                    unsentFragmentStart : Lengths, unsentBuffer : {chan.unsentBuffer}]
      BY DEF IsSendHalf
    <2>2. next = [chan EXCEPT !.unsentFragmentStart = 0, !.unsentFragments = TRUE,
                              !.unsentBuffer = m]
      BY DEF Fragmenting
    <2> HIDE DEF next
    <2> QED BY <2>1, <2>2
  <1>2. 0 \in Lengths
    BY NetchanSizes DEF Lengths
  <1>3. chan.outgoingSequence \in Nat \ {0}
    BY DEF IsSendHalf
  <1> HIDE DEF next
  <1> QED BY <1>1, <1>2, <1>3 DEF IsSendHalf, next

\* A short message leaves as one datagram and takes one number.
LEMMA WholeType ==
  ASSUME NEW chan, IsSendHalf(chan), ~chan.unsentFragments,
         NEW m, IsMessage(m), m.length < FRAGMENT_SIZE
  PROVE  LET next == AfterTransmit(chan, m)
             p    == TransmitPacket(chan, m)
         IN  /\ IsSendHalf(next)
             /\ ~next.unsentFragments
             /\ next.outgoingSequence = chan.outgoingSequence + 1
             /\ IsPacket(p)
             /\ p.sequence = chan.outgoingSequence
             /\ ~p.fragmented
             /\ p.start = 0
             /\ p.length = m.length
             /\ p.data = m.data
  <1> DEFINE next == AfterTransmit(chan, m)
             p    == TransmitPacket(chan, m)
  <1>1. /\ m.length \in Lengths
        /\ m.data \in [0 .. m.length-1 -> Byte]
        /\ ~(m.length >= FRAGMENT_SIZE)
        /\ 0 \in Lengths
    BY MessageParts, NetchanSizes DEF Lengths
  <1>2. next = [outgoingSequence |-> chan.outgoingSequence + 1, unsentFragments |-> FALSE,
                unsentFragmentStart |-> 0, unsentBuffer |-> chan.unsentBuffer]
    <2>1. chan \in [outgoingSequence : Nat \ {0}, unsentFragments : BOOLEAN,
                    unsentFragmentStart : Lengths, unsentBuffer : {chan.unsentBuffer}]
      BY DEF IsSendHalf
    <2>2. next = [chan EXCEPT !.unsentFragmentStart = 0,
                              !.outgoingSequence = chan.outgoingSequence + 1]
      BY <1>1 DEF AfterTransmit
    <2>3. chan.unsentFragments = FALSE
      BY <2>1
    <2> HIDE DEF next
    <2> QED BY <2>1, <2>2, <2>3
  <1>3. chan.outgoingSequence \in Nat \ {0}
    BY DEF IsSendHalf
  <1>4. p = [sequence |-> chan.outgoingSequence, fragmented |-> FALSE,
             start |-> 0, length |-> m.length, data |-> m.data]
    BY <1>1 DEF TransmitPacket
  <1> HIDE DEF next, p
  <1>5. IsPacket(p)
    BY <1>1, <1>3, <1>4 DEF IsPacket
  <1>6. IsSendHalf(next)
    BY <1>1, <1>2, <1>3 DEF IsSendHalf
  <1> QED BY <1>2, <1>4, <1>5, <1>6 DEF next, p

-----------------------------------------------------------------------------
(* What the operators of the receiving half return.                         *)

\* Turning to the message of a fragment keeps the buffer and the number of the
\* last message, and keeps the assembled part only of that same message.
LEMMA AssemblingType ==
  ASSUME NEW chan \in ReceiveHalf, NEW p, IsPacket(p)
  PROVE  LET c == Assembling(chan, p) IN
         /\ c \in ReceiveHalf
         /\ c.incomingSequence = chan.incomingSequence
         /\ c.fragmentSequence = p.sequence
         /\ c.fragmentBuffer = chan.fragmentBuffer
         /\ c.fragmentLength = IF p.sequence = chan.fragmentSequence
                               THEN chan.fragmentLength ELSE 0
  <1> DEFINE c == Assembling(chan, p)
  <1>1. p.sequence \in Nat
    BY DEF IsPacket
  <1>2. 0 \in Lengths
    BY NetchanSizes DEF Lengths
  <1>3. CASE p.sequence = chan.fragmentSequence
    BY <1>3 DEF Assembling
  <1>4. CASE p.sequence # chan.fragmentSequence
    <2>1. c = [chan EXCEPT !.fragmentSequence = p.sequence, !.fragmentLength = 0]
      BY <1>4 DEF Assembling
    <2> HIDE DEF c
    <2>2. c \in ReceiveHalf
      BY <1>1, <1>2, <2>1 DEF ReceiveHalf
    <2> QED BY <2>1, <2>2, <1>4 DEF ReceiveHalf, c
  <1> QED BY <1>3, <1>4

\* Keeping a fragment appends exactly its bytes.
LEMMA WithFragmentType ==
  ASSUME NEW chan \in ReceiveHalf, NEW p, IsPacket(p), Continues(chan, p)
  PROVE  LET c == Assembling(chan, p)
             d == WithFragment(chan, p)
         IN  /\ d \in ReceiveHalf
             /\ d.incomingSequence = chan.incomingSequence
             /\ d.fragmentSequence = p.sequence
             /\ p.start = c.fragmentLength
             /\ d.fragmentLength = p.start + p.length
             /\ \A i \in 0 .. p.start - 1 : d.fragmentBuffer[i] = chan.fragmentBuffer[i]
             /\ \A i \in 0 .. p.length - 1 : d.fragmentBuffer[p.start + i] = p.data[i]
  <1> DEFINE c == Assembling(chan, p)
             d == WithFragment(chan, p)
             end == c.fragmentLength + p.length
             buffer == [i \in 0 .. MAX_MSGLEN-1 |->
                          IF i \in c.fragmentLength .. end - 1
                          THEN p.data[i - c.fragmentLength] ELSE c.fragmentBuffer[i]]
  <1>1. /\ c \in ReceiveHalf
        /\ c.incomingSequence = chan.incomingSequence
        /\ c.fragmentSequence = p.sequence
        /\ c.fragmentBuffer = chan.fragmentBuffer
    BY AssemblingType
  <1>2. /\ p.start = c.fragmentLength
        /\ end <= MAX_MSGLEN
    BY DEF Continues
  <1>3. /\ p.length \in Lengths
        /\ p.start \in Lengths
        /\ p.data \in [0 .. p.length - 1 -> Byte]
    BY DEF IsPacket
  <1>4. end \in Lengths
    BY <1>2, <1>3, NetchanSizes DEF Lengths
  <1>5. d = [c EXCEPT !.fragmentLength = end, !.fragmentBuffer = buffer]
    BY DEF WithFragment
  <1> HIDE DEF c
  <1>6. buffer \in [0 .. MAX_MSGLEN-1 -> Byte]
    <2> SUFFICES ASSUME NEW i \in 0 .. MAX_MSGLEN-1
                 PROVE  (IF i \in c.fragmentLength .. end - 1
                         THEN p.data[i - c.fragmentLength] ELSE c.fragmentBuffer[i]) \in Byte
      OBVIOUS
    <2>1. CASE i \in c.fragmentLength .. end - 1
      <3>1. i - c.fragmentLength \in 0 .. p.length - 1
        BY <2>1, <1>2, <1>3, NetchanSizes DEF Lengths
      <3> QED BY <3>1, <2>1, <1>3
    <2>2. CASE i \notin c.fragmentLength .. end - 1
      BY <2>2, <1>1 DEF ReceiveHalf
    <2> QED BY <2>1, <2>2
  <1> HIDE DEF buffer, end, d
  <1>7. /\ d \in ReceiveHalf
        /\ d.incomingSequence = c.incomingSequence
        /\ d.fragmentSequence = c.fragmentSequence
        /\ d.fragmentLength = end
        /\ d.fragmentBuffer = buffer
    BY <1>1, <1>4, <1>5, <1>6 DEF ReceiveHalf
  <1>8. \A i \in 0 .. p.start - 1 : buffer[i] = c.fragmentBuffer[i]
    BY <1>2, <1>3, NetchanSizes DEF Lengths, buffer
  <1>9. \A i \in 0 .. p.length - 1 : buffer[p.start + i] = p.data[i]
    <2> SUFFICES ASSUME NEW i \in 0 .. p.length - 1
                 PROVE  buffer[p.start + i] = p.data[i]
      OBVIOUS
    <2>1. /\ p.start + i \in 0 .. MAX_MSGLEN-1
          /\ p.start + i \in c.fragmentLength .. end - 1
          /\ (p.start + i) - c.fragmentLength = i
      BY <1>2, <1>3, NetchanSizes DEF Lengths, end
    <2> QED BY <2>1 DEF buffer
  <1> QED BY <1>1, <1>2, <1>7, <1>8, <1>9 DEF d, c, end

-----------------------------------------------------------------------------
(* The invariant.                                                           *)

\* Appending a message leaves the numbers of the others alone.
LEMMA SentGrows ==
  ASSUME NEW msgs \in Seq(Payload), NEW m \in Payload
  PROVE  LET more == Append(msgs, m) IN
         /\ more \in Seq(Payload)
         /\ Len(more) = Len(msgs) + 1
         /\ more # <<>>
         /\ more[Len(msgs) + 1] = m
         /\ \A i \in 1 .. Len(msgs) : more[i] = msgs[i]
  OBVIOUS

\* Sending a fragment of the newest message emits a genuine datagram, keeps the
\* sender in step with its messages, and ends the message when it says so.
LEMMA FragmentStep ==
  ASSUME NEW chan, IsSendHalf(chan), chan.unsentFragments,
         NEW msgs \in Seq(Payload), Sending(chan, msgs)
  PROVE  LET p == FragmentPacket(chan)
             next == AfterFragment(chan)
         IN  /\ IsPacket(p)
             /\ Genuine(p, msgs)
             /\ IsSendHalf(next)
             /\ Sending(next, msgs)
             /\ next.unsentFragments => next.outgoingSequence = Len(msgs)
             /\ ~next.unsentFragments => Ends(p, Len(msgs), msgs)
  <1> DEFINE p == FragmentPacket(chan)
             next == AfterFragment(chan)
             n == NextLength(chan)
  <1>1. /\ msgs # <<>>
        /\ chan.outgoingSequence = Len(msgs)
        /\ chan.unsentBuffer = msgs[Len(msgs)]
        /\ chan.unsentFragmentStart <= chan.unsentBuffer.length
    BY DEF Sending
  <1>2. Len(msgs) \in 1 .. Len(msgs)
    BY <1>1
  <1>3. /\ IsPacket(p)
        /\ \A i \in 0 .. n - 1 :
             p.data[i] = chan.unsentBuffer.data[chan.unsentFragmentStart + i]
    BY <1>1, FragmentPacketType
  <1>4. /\ p.sequence = Len(msgs)
        /\ p.start = chan.unsentFragmentStart
        /\ p.length = n
        /\ p.fragmented
    BY <1>1 DEF FragmentPacket
  <1>5. /\ chan.unsentFragmentStart + n <= chan.unsentBuffer.length
        /\ n # FRAGMENT_SIZE => chan.unsentFragmentStart + n = chan.unsentBuffer.length
    BY <1>1, FragmentCut
  <1>6. /\ IsSendHalf(next)
        /\ next.unsentBuffer = chan.unsentBuffer
        /\ next.unsentFragments =>
             /\ next.outgoingSequence = chan.outgoingSequence
             /\ next.unsentFragmentStart <= next.unsentBuffer.length
        /\ ~next.unsentFragments =>
             /\ next.outgoingSequence = chan.outgoingSequence + 1
             /\ n # FRAGMENT_SIZE
             /\ chan.unsentFragmentStart + n = chan.unsentBuffer.length
    BY <1>1, AfterFragmentType
  <1> HIDE DEF p, next, n
  <1>7. Genuine(p, msgs)
    BY <1>1, <1>2, <1>3, <1>4, <1>5 DEF Genuine
  <1>8. Sending(next, msgs)
    BY <1>1, <1>6 DEF Sending
  <1>9. ~next.unsentFragments => Ends(p, Len(msgs), msgs)
    BY <1>1, <1>4, <1>6 DEF Ends
  <1> QED BY <1>1, <1>3, <1>6, <1>7, <1>8, <1>9 DEF p, next

LEMMA InitInv == Init => NetchanInv
  <1> SUFFICES ASSUME Init PROVE NetchanInv
    OBVIOUS
  <1> USE DEF Init
  <1>1. TypeOK
    BY SetupType DEF TypeOK
  <1>2. Sending(out, sent)
    BY DEF Sending, SetupSend
  <1>3. AssembledPrefix
    BY DEF AssembledPrefix, SetupReceive
  <1>4. DeliveredOld /\ DeliveredIntact /\ DeliveredInOrder /\ FragmentsTerminated
    BY DEF DeliveredOld, DeliveredIntact, DeliveredInOrder, FragmentsTerminated
  <1> QED BY <1>1, <1>2, <1>3, <1>4 DEF NetchanInv

\* What is true of the older messages stays true when a message is sent.
LEMMA OldSurvives ==
  ASSUME NetchanInv, NEW m \in Payload, sent' = Append(sent, m),
         net \subseteq net', UNCHANGED <<in, delivered>>
  PROVE  /\ sent' \in Seq(Payload)
         /\ Len(sent') = Len(sent) + 1
         /\ \A p \in net : Genuine(p, sent')
         /\ AssembledPrefix'
         /\ DeliveredIntact'
         /\ \A s \in 1 .. Len(sent) :
              s < out.outgoingSequence => \E p \in net' : Ends(p, s, sent')
  <1>1. sent \in Seq(Payload)
    BY DEF NetchanInv, TypeOK
  <1>2. /\ sent' \in Seq(Payload)
        /\ Len(sent') = Len(sent) + 1
        /\ \A i \in 1 .. Len(sent) : sent'[i] = sent[i]
    BY <1>1, SentGrows
  <1>3. \A p \in net : Genuine(p, sent')
    BY <1>1, <1>2 DEF NetchanInv, Genuine
  <1>4. AssembledPrefix'
    BY <1>1, <1>2 DEF NetchanInv, AssembledPrefix
  <1>5. DeliveredIntact'
    BY <1>1, <1>2 DEF NetchanInv, DeliveredIntact
  <1>6. \A s \in 1 .. Len(sent) :
          s < out.outgoingSequence => \E p \in net' : Ends(p, s, sent')
    BY <1>1, <1>2 DEF NetchanInv, FragmentsTerminated, Ends
  <1> QED BY <1>2, <1>3, <1>4, <1>5, <1>6

LEMMA TransmitInv ==
  ASSUME NetchanInv, NEW m \in Payload, Transmit(m)
  PROVE  NetchanInv'
  <1> DEFINE q == TransmitPacket(out, m)
  <1>1. /\ IsSendHalf(out)
        /\ ~out.unsentFragments
        /\ out.outgoingSequence = Len(sent) + 1
        /\ sent \in Seq(Payload)
        /\ IsMessage(m)
    BY PayloadAssumption DEF NetchanInv, TypeOK, Transmit, Sending
  <1>2. /\ out' = AfterTransmit(out, m)
        /\ net' = net \union {q}
        /\ sent' = Append(sent, m)
        /\ UNCHANGED <<in, delivered>>
    BY DEF Transmit
  <1>3. /\ Len(sent') = Len(sent) + 1
        /\ sent' # <<>>
        /\ sent'[Len(sent) + 1] = m
        /\ Len(sent) \in Nat
    BY <1>1, <1>2, SentGrows
  <1>4. /\ sent' \in Seq(Payload)
        /\ \A p \in net : Genuine(p, sent')
        /\ AssembledPrefix'
        /\ DeliveredIntact'
        /\ \A s \in 1 .. Len(sent) :
             s < out.outgoingSequence => \E p \in net' : Ends(p, s, sent')
    BY <1>2, OldSurvives
  <1>5. /\ IsSendHalf(out')
        /\ IsPacket(q)
        /\ Genuine(q, sent')
        /\ Sending(out', sent')
        /\ out'.unsentFragments => out'.outgoingSequence = Len(sent')
        /\ ~out'.unsentFragments => Ends(q, Len(sent'), sent')
    <2>1. CASE m.length >= FRAGMENT_SIZE
      <3> DEFINE chan == Fragmenting(out, m)
      <3>1. /\ IsSendHalf(chan)
            /\ chan.unsentFragments
            /\ chan.unsentFragmentStart = 0
            /\ chan.unsentBuffer = m
            /\ chan.outgoingSequence = out.outgoingSequence
        BY <1>1, FragmentingType
      <3>2. q = FragmentPacket(chan) /\ out' = AfterFragment(chan)
        BY <2>1, <1>2 DEF TransmitPacket, AfterTransmit
      <3> HIDE DEF chan, q
      <3>3. 0 <= m.length
        BY <1>1, MessageParts, NetchanSizes DEF Lengths
      <3>4. Sending(chan, sent')
        BY <3>1, <3>3, <1>1, <1>3 DEF Sending
      <3> QED BY <3>1, <3>2, <3>4, <1>4, FragmentStep
    <2>2. CASE ~(m.length >= FRAGMENT_SIZE)
      <3>1. m.length \in Lengths /\ m.length < FRAGMENT_SIZE
        BY <2>2, <1>1, MessageParts, NetchanSizes DEF Lengths
      <3>2. /\ IsSendHalf(out')
            /\ ~out'.unsentFragments
            /\ out'.outgoingSequence = out.outgoingSequence + 1
            /\ IsPacket(q)
            /\ q.sequence = out.outgoingSequence
            /\ ~q.fragmented
            /\ q.start = 0
            /\ q.length = m.length
            /\ q.data = m.data
        BY <3>1, <1>1, <1>2, WholeType
      <3> HIDE DEF q
      <3>3. m.length \in Nat /\ FRAGMENT_SIZE \in Nat
        BY <3>1, NetchanSizes DEF Lengths
      <3>4. Genuine(q, sent')
        BY <3>1, <3>2, <3>3, <1>1, <1>3 DEF Genuine
      <3>5. Sending(out', sent')
        BY <3>2, <1>1, <1>3 DEF Sending
      <3>6. Ends(q, Len(sent'), sent')
        BY <3>1, <3>2, <3>3, <1>1, <1>3 DEF Ends
      <3> QED BY <3>2, <3>4, <3>5, <3>6
    <2> QED BY <2>1, <2>2
  <1> HIDE DEF q
  <1>6. TypeOK'
    BY <1>2, <1>4, <1>5 DEF NetchanInv, TypeOK
  <1>7. FragmentsTerminated'
    <2> SUFFICES ASSUME NEW s \in 1 .. Len(sent'), s < out'.outgoingSequence
                 PROVE  \E p \in net' : Ends(p, s, sent')
      BY DEF FragmentsTerminated
    <2>1. CASE s \in 1 .. Len(sent)
      BY <2>1, <1>1, <1>4
    <2>2. CASE s = Len(sent')
      <3>1. ~out'.unsentFragments
        BY <2>2, <1>3, <1>5
      <3> QED BY <3>1, <2>2, <1>2, <1>5
    <2> QED BY <2>1, <2>2, <1>3
  <1>8. DeliveredOld' /\ DeliveredInOrder'
    BY <1>2 DEF NetchanInv, DeliveredOld, DeliveredInOrder
  <1> QED BY <1>2, <1>4, <1>5, <1>6, <1>7, <1>8 DEF NetchanInv

LEMMA TransmitNextFragmentInv ==
  ASSUME NetchanInv, TransmitNextFragment
  PROVE  NetchanInv'
  <1> DEFINE q == FragmentPacket(out)
  <1>1. /\ IsSendHalf(out)
        /\ out.unsentFragments
        /\ sent \in Seq(Payload)
        /\ Sending(out, sent)
        /\ out' = AfterFragment(out)
        /\ net' = net \union {q}
        /\ UNCHANGED <<in, sent, delivered>>
    BY DEF NetchanInv, TypeOK, TransmitNextFragment
  <1>2. /\ IsPacket(q)
        /\ Genuine(q, sent)
        /\ IsSendHalf(out')
        /\ Sending(out', sent)
        /\ out'.unsentFragments => out'.outgoingSequence = Len(sent)
        /\ ~out'.unsentFragments => Ends(q, Len(sent), sent)
    BY <1>1, FragmentStep
  <1> HIDE DEF q
  <1>3. TypeOK'
    BY <1>1, <1>2 DEF NetchanInv, TypeOK
  <1>4. (\A p \in net : Genuine(p, sent))' /\ Sending(out, sent)'
    BY <1>1, <1>2 DEF NetchanInv
  <1>5. FragmentsTerminated'
    <2> SUFFICES ASSUME NEW s \in 1 .. Len(sent), s < out'.outgoingSequence
                 PROVE  \E p \in net' : Ends(p, s, sent)
      BY <1>1 DEF FragmentsTerminated
    <2>1. out.outgoingSequence = Len(sent) /\ Len(sent) \in Nat
      BY <1>1 DEF Sending
    <2>2. CASE s < Len(sent)
      BY <2>1, <2>2, <1>1 DEF NetchanInv, FragmentsTerminated
    <2>3. CASE s = Len(sent)
      BY <2>3, <1>1, <1>2
    <2> QED BY <2>1, <2>2, <2>3
  <1>6. AssembledPrefix' /\ DeliveredOld' /\ DeliveredIntact' /\ DeliveredInOrder'
    BY <1>1 DEF NetchanInv, AssembledPrefix, DeliveredOld, DeliveredIntact, DeliveredInOrder
  <1> QED BY <1>3, <1>4, <1>5, <1>6 DEF NetchanInv

\* A kept fragment extends a prefix of its message to a longer prefix of it.
LEMMA KeepsPrefix ==
  ASSUME NetchanInv, NEW p \in net, p.fragmented, Continues(in, p)
  PROVE  LET d == WithFragment(in, p) IN
         /\ d \in ReceiveHalf
         /\ d.incomingSequence = in.incomingSequence
         /\ d.fragmentSequence = p.sequence
         /\ p.sequence \in 1 .. Len(sent)
         /\ d.fragmentLength = p.start + p.length
         /\ d.fragmentLength <= sent[p.sequence].length
         /\ \A i \in 0 .. d.fragmentLength - 1 :
              d.fragmentBuffer[i] = sent[p.sequence].data[i]
  <1> DEFINE d == WithFragment(in, p)
             c == Assembling(in, p)
             m == sent[p.sequence]
  <1>1. /\ in \in ReceiveHalf
        /\ IsPacket(p)
        /\ Genuine(p, sent)
        /\ AssembledPrefix
    BY DEF NetchanInv, TypeOK
  <1>2. /\ p.sequence \in 1 .. Len(sent)
        /\ p.start + p.length <= m.length
        /\ \A i \in 0 .. p.length - 1 : p.data[i] = m.data[p.start + i]
    BY <1>1 DEF Genuine
  <1>3. /\ p.start \in Nat
        /\ p.length \in Nat
    BY <1>1, NetchanSizes DEF IsPacket, Lengths
  <1>4. /\ d \in ReceiveHalf
        /\ d.incomingSequence = in.incomingSequence
        /\ d.fragmentSequence = p.sequence
        /\ p.start = c.fragmentLength
        /\ d.fragmentLength = p.start + p.length
        /\ \A i \in 0 .. p.start - 1 : d.fragmentBuffer[i] = in.fragmentBuffer[i]
        /\ \A i \in 0 .. p.length - 1 : d.fragmentBuffer[p.start + i] = p.data[i]
    BY <1>1, WithFragmentType
  <1>5. p.start > 0 => in.fragmentSequence = p.sequence /\ in.fragmentLength = p.start
    BY <1>1, <1>3, <1>4, AssemblingType
  <1> HIDE DEF d, c, m
  <1>6. \A i \in 0 .. p.start - 1 : d.fragmentBuffer[i] = m.data[i]
    <2> SUFFICES ASSUME NEW i \in 0 .. p.start - 1
                 PROVE  d.fragmentBuffer[i] = m.data[i]
      OBVIOUS
    <2>1. /\ p.start > 0
          /\ in.fragmentSequence = p.sequence
          /\ in.fragmentLength = p.start
      BY <1>3, <1>5
    <2>2. in.fragmentBuffer[i] = m.data[i]
      BY <2>1, <1>1 DEF AssembledPrefix, m
    <2> QED BY <2>2, <1>4
  <1>7. \A i \in 0 .. d.fragmentLength - 1 : d.fragmentBuffer[i] = m.data[i]
    <2> SUFFICES ASSUME NEW i \in 0 .. (p.start + p.length) - 1
                 PROVE  d.fragmentBuffer[i] = m.data[i]
      BY <1>4
    <2>1. CASE i < p.start
      BY <2>1, <1>3, <1>6
    <2>2. CASE i >= p.start
      <3>1. i - p.start \in 0 .. p.length - 1 /\ p.start + (i - p.start) = i
        BY <2>2, <1>3
      <3> QED BY <3>1, <1>2, <1>4
    <2> QED BY <2>1, <2>2, <1>3
  <1> QED BY <1>2, <1>4, <1>7 DEF d, m

LEMMA ProcessPartialInv ==
  ASSUME NetchanInv, NEW p \in net, ProcessPartial(p)
  PROVE  NetchanInv'
  <1>1. /\ in \in ReceiveHalf
        /\ IsPacket(p)
        /\ ~Completes(in, p)
        /\ in' = AfterProcess(in, p)
        /\ UNCHANGED <<out, net, sent, delivered>>
    BY DEF NetchanInv, TypeOK, ProcessPartial
  <1>2. /\ in' \in ReceiveHalf
        /\ in'.incomingSequence = in.incomingSequence
        /\ AssembledPrefix'
    <2>1. CASE ~Fresh(in, p)
      BY <2>1, <1>1 DEF AfterProcess, NetchanInv, AssembledPrefix
    <2>2. CASE Fresh(in, p) /\ ~p.fragmented
      BY <2>2, <1>1 DEF Completes
    <2>3. CASE Fresh(in, p) /\ p.fragmented /\ ~Continues(in, p)
      <3>1. in' = Assembling(in, p)
        BY <2>3, <1>1 DEF AfterProcess
      <3> DEFINE c == Assembling(in, p)
      <3>2. /\ c \in ReceiveHalf
            /\ c.incomingSequence = in.incomingSequence
            /\ c.fragmentSequence = p.sequence
            /\ c.fragmentBuffer = in.fragmentBuffer
            /\ c.fragmentLength = IF p.sequence = in.fragmentSequence
                                  THEN in.fragmentLength ELSE 0
        BY <1>1, AssemblingType
      <3> HIDE DEF c
      <3>3. in' = c
        BY <3>1 DEF c
      <3>4. AssembledPrefix'
        BY <3>2, <3>3, <1>1 DEF NetchanInv, AssembledPrefix
      <3> QED BY <3>2, <3>3, <3>4
    <2>4. CASE Fresh(in, p) /\ p.fragmented /\ Continues(in, p)
      <3>1. p.length = FRAGMENT_SIZE \/ ~Fits(in, p)
        BY <2>4, <1>1 DEF Completes
      <3>2. in' = WithFragment(in, p)
        BY <3>1, <2>4, <1>1 DEF AfterProcess
      <3>3. /\ in' \in ReceiveHalf
            /\ in'.incomingSequence = in.incomingSequence
            /\ in'.fragmentSequence = p.sequence
            /\ p.sequence \in 1 .. Len(sent)
            /\ in'.fragmentLength <= sent[p.sequence].length
            /\ \A i \in 0 .. in'.fragmentLength - 1 :
                 in'.fragmentBuffer[i] = sent[p.sequence].data[i]
        BY <3>2, <2>4, KeepsPrefix
      <3> QED BY <3>3, <1>1 DEF AssembledPrefix
    <2> QED BY <2>1, <2>2, <2>3, <2>4
  <1>3. TypeOK'
    BY <1>1, <1>2 DEF NetchanInv, TypeOK
  <1>4. DeliveredOld' /\ DeliveredIntact' /\ DeliveredInOrder' /\ FragmentsTerminated'
    BY <1>1, <1>2
       DEF NetchanInv, DeliveredOld, DeliveredIntact, DeliveredInOrder, FragmentsTerminated
  <1>5. (\A r \in net : Genuine(r, sent))' /\ Sending(out, sent)'
    BY <1>1 DEF NetchanInv
  <1> QED BY <1>2, <1>3, <1>4, <1>5 DEF NetchanInv

\* What Netchan_Process hands over is the message sent under the number of the
\* datagram that completed it, and no number as new was handed over before.
LEMMA CompletesMessage ==
  ASSUME NetchanInv, NEW p \in net, Completes(in, p)
  PROVE  LET next == AfterProcess(in, p) IN
         /\ next \in ReceiveHalf
         /\ next.incomingSequence = p.sequence
         /\ p.sequence > in.incomingSequence
         /\ p.sequence \in 1 .. Len(sent)
         /\ ReceivedMessage(in, p) = sent[p.sequence]
         /\ p.fragmented => next.fragmentLength = 0
         /\ ~p.fragmented => /\ next.fragmentLength = in.fragmentLength
                             /\ next.fragmentSequence = in.fragmentSequence
                             /\ next.fragmentBuffer = in.fragmentBuffer
  <1> DEFINE next == AfterProcess(in, p)
             m == sent[p.sequence]
  <1>1. /\ in \in ReceiveHalf
        /\ IsPacket(p)
        /\ Genuine(p, sent)
        /\ Fresh(in, p)
        /\ sent \in Seq(Payload)
    BY DEF NetchanInv, TypeOK, Completes
  <1>2. p.sequence > in.incomingSequence
    BY <1>1 DEF Fresh
  <1>3. /\ p.sequence \in 1 .. Len(sent)
        /\ p.length # FRAGMENT_SIZE => p.start + p.length = m.length
        /\ ~p.fragmented => p.start = 0 /\ p.length # FRAGMENT_SIZE
        /\ \A i \in 0 .. p.length - 1 : p.data[i] = m.data[p.start + i]
    BY <1>1 DEF Genuine
  <1>4. /\ m.length \in Lengths
        /\ m.data \in [0 .. m.length-1 -> Byte]
        /\ m = [length |-> m.length, data |-> m.data]
    <2>1. m \in Payload
      BY <1>1, <1>3
    <2> QED BY <2>1, PayloadAssumption, MessageParts
  <1>5. /\ p.length \in Nat
        /\ p.start \in Nat
        /\ p.data \in [0 .. p.length-1 -> Byte]
        /\ p.sequence \in Nat
    BY <1>1, NetchanSizes DEF IsPacket, Lengths
  <1>6. CASE ~p.fragmented
    <2>1. next = [in EXCEPT !.incomingSequence = p.sequence]
      BY <1>1, <1>6 DEF AfterProcess
    <2>2. /\ next \in ReceiveHalf
          /\ next.incomingSequence = p.sequence
          /\ next.fragmentLength = in.fragmentLength
          /\ next.fragmentSequence = in.fragmentSequence
          /\ next.fragmentBuffer = in.fragmentBuffer
      <3> HIDE DEF next
      <3> QED BY <1>1, <1>5, <2>1 DEF ReceiveHalf
    <2>3. /\ p.length = m.length
          /\ \A i \in 0 .. p.length - 1 : p.data[i] = m.data[i]
      <3>1. p.length = m.length
        BY <1>3, <1>4, <1>5, <1>6
      <3>2. \A i \in 0 .. p.length - 1 : p.start + i = i
        BY <1>3, <1>6
      <3> QED BY <3>1, <3>2, <1>3
    <2>4. p.data = m.data
      <3> HIDE DEF m
      <3> QED BY <2>3, <1>4, <1>5
    <2>5. ReceivedMessage(in, p) = [length |-> p.length, data |-> p.data]
      BY <1>6 DEF ReceivedMessage
    <2>6. ReceivedMessage(in, p) = m
      <3> HIDE DEF m
      <3> QED BY <2>3, <2>4, <2>5, <1>4
    <2> QED BY <1>2, <1>3, <1>6, <2>2, <2>6
  <1>7. CASE p.fragmented
    <2> DEFINE d == WithFragment(in, p)
               L == d.fragmentLength
    <2>1. Continues(in, p) /\ p.length # FRAGMENT_SIZE /\ Fits(in, p)
      BY <1>7 DEF Completes
    <2>2. next = [d EXCEPT !.fragmentLength = 0, !.incomingSequence = p.sequence]
      BY <1>1, <1>7, <2>1 DEF AfterProcess
    <2>3. /\ d \in ReceiveHalf
          /\ d.fragmentLength = m.length
          /\ \A i \in 0 .. d.fragmentLength - 1 : d.fragmentBuffer[i] = m.data[i]
      BY <1>3, <1>7, <2>1, KeepsPrefix
    <2>4. ReceivedMessage(in, p) = [length |-> L, data |-> Slice(d.fragmentBuffer, 0, L)]
      BY <1>7 DEF ReceivedMessage
    <2> HIDE DEF d, m, next
    <2>5. Slice(d.fragmentBuffer, 0, L) = m.data
      <3>1. \A i \in 0 .. L - 1 : d.fragmentBuffer[0 + i] = m.data[i]
        BY <2>3
      <3>2. Slice(d.fragmentBuffer, 0, L) = [i \in 0 .. L - 1 |-> m.data[i]]
        BY <3>1 DEF Slice
      <3> QED BY <3>2, <2>3, <1>4
    <2>6. ReceivedMessage(in, p) = m
      BY <2>3, <2>4, <2>5, <1>4
    <2>7. /\ next \in ReceiveHalf
          /\ next.incomingSequence = p.sequence
          /\ next.fragmentLength = 0
      <3>1. 0 \in Lengths
        BY NetchanSizes DEF Lengths
      <3> QED BY <3>1, <2>2, <2>3, <1>5 DEF ReceiveHalf
    <2> QED BY <1>2, <1>3, <1>7, <2>6, <2>7 DEF m, next
  <1> QED BY <1>6, <1>7

\* Every number handed over is at most the receiver's.
LEMMA DeliveredNumbers ==
  ASSUME NetchanInv, NEW i \in 1 .. Len(delivered)
  PROVE  /\ delivered[i].sequence \in Nat
         /\ delivered[i].sequence <= in.incomingSequence
  <1> DEFINE Handed == [sequence : Nat, message : Payload]
  <1>1. delivered \in Seq(Handed)
    BY DEF NetchanInv, TypeOK
  <1>2. delivered[i] \in Handed
    <2> HIDE DEF Handed
    <2> QED BY <1>1
  <1>3. delivered[i].sequence \in Nat
    BY <1>2
  <1>4. delivered[i].sequence <= in.incomingSequence
    BY DEF NetchanInv, DeliveredOld
  <1> QED BY <1>3, <1>4

LEMMA ProcessMessageInv ==
  ASSUME NetchanInv, NEW p \in net, ProcessMessage(p)
  PROVE  NetchanInv'
  <1> DEFINE e == [sequence |-> p.sequence, message |-> ReceivedMessage(in, p)]
             next == AfterProcess(in, p)
  <1>1. /\ Completes(in, p)
        /\ in' = next
        /\ delivered' = Append(delivered, e)
        /\ UNCHANGED <<out, net, sent>>
    BY DEF ProcessMessage
  <1>2. /\ next \in ReceiveHalf
        /\ next.incomingSequence = p.sequence
        /\ p.sequence > in.incomingSequence
        /\ p.sequence \in 1 .. Len(sent)
        /\ ReceivedMessage(in, p) = sent[p.sequence]
        /\ p.fragmented => next.fragmentLength = 0
        /\ ~p.fragmented => /\ next.fragmentLength = in.fragmentLength
                            /\ next.fragmentSequence = in.fragmentSequence
                            /\ next.fragmentBuffer = in.fragmentBuffer
    BY <1>1, CompletesMessage
  <1> HIDE DEF next
  <1>3. /\ delivered \in Seq([sequence : Nat, message : Payload])
        /\ sent \in Seq(Payload)
        /\ in.incomingSequence \in Nat
    BY DEF NetchanInv, TypeOK, ReceiveHalf
  <1>4. /\ e \in [sequence : Nat, message : Payload]
        /\ e.sequence = p.sequence
        /\ e.message = sent[p.sequence]
    BY <1>2, <1>3
  <1> HIDE DEF e
  <1>5. /\ delivered' \in Seq([sequence : Nat, message : Payload])
        /\ Len(delivered') = Len(delivered) + 1
        /\ delivered'[Len(delivered) + 1] = e
        /\ \A i \in 1 .. Len(delivered) : delivered'[i] = delivered[i]
        /\ Len(delivered) \in Nat
    BY <1>1, <1>3, <1>4
  <1>6. TypeOK'
    BY <1>1, <1>2, <1>5 DEF NetchanInv, TypeOK
  <1>7. \A i \in 1 .. Len(delivered') :
          i \in 1 .. Len(delivered) \/ i = Len(delivered) + 1
    BY <1>5
  <1>8. \A i \in 1 .. Len(delivered) :
          /\ delivered[i].sequence \in Nat
          /\ delivered[i].sequence <= in.incomingSequence
    BY DeliveredNumbers
  <1>9. DeliveredOld'
    BY <1>1, <1>2, <1>3, <1>4, <1>5, <1>7, <1>8 DEF DeliveredOld
  <1>10. DeliveredIntact'
    BY <1>1, <1>2, <1>4, <1>5, <1>7 DEF NetchanInv, DeliveredIntact
  <1>11. DeliveredInOrder'
    <2> SUFFICES ASSUME NEW i \in 1 .. Len(delivered'), NEW j \in 1 .. Len(delivered'), i < j
                 PROVE  delivered'[i].sequence < delivered'[j].sequence
      BY DEF DeliveredInOrder
    <2>1. i \in 1 .. Len(delivered)
      BY <1>5
    <2>2. CASE j \in 1 .. Len(delivered)
      BY <2>1, <2>2, <1>5 DEF NetchanInv, DeliveredInOrder
    <2>3. CASE j = Len(delivered) + 1
      <3>1. delivered'[j].sequence = p.sequence
        BY <2>3, <1>4, <1>5
      <3>2. /\ delivered'[i].sequence \in Nat
            /\ delivered'[i].sequence <= in.incomingSequence
        BY <2>1, <1>5, <1>8
      <3>3. p.sequence \in Nat
        BY <1>2
      <3> QED BY <3>1, <3>2, <3>3, <1>2, <1>3
    <2> QED BY <2>2, <2>3, <1>7
  <1>12. AssembledPrefix'
    <2>1. CASE p.fragmented
      BY <2>1, <1>1, <1>2 DEF AssembledPrefix
    <2>2. CASE ~p.fragmented
      BY <2>2, <1>1, <1>2 DEF NetchanInv, AssembledPrefix
    <2> QED BY <2>1, <2>2
  <1>13. FragmentsTerminated' /\ Sending(out, sent)' /\ (\A r \in net : Genuine(r, sent))'
    BY <1>1 DEF NetchanInv, FragmentsTerminated
  <1> QED BY <1>6, <1>9, <1>10, <1>11, <1>12, <1>13 DEF NetchanInv

\* Every step of the channel keeps the invariant.
LEMMA NextInv == NetchanInv /\ [Next]_vars => NetchanInv'
  <1> SUFFICES ASSUME NetchanInv, [Next]_vars PROVE NetchanInv'
    OBVIOUS
  <1>1. ASSUME NEW m \in Payload, Transmit(m) PROVE NetchanInv'
    BY <1>1, TransmitInv
  <1>2. CASE TransmitNextFragment
    BY <1>2, TransmitNextFragmentInv
  <1>3. ASSUME NEW p \in net, ProcessPartial(p) PROVE NetchanInv'
    BY <1>3, ProcessPartialInv
  <1>4. ASSUME NEW p \in net, ProcessMessage(p) PROVE NetchanInv'
    BY <1>4, ProcessMessageInv
  <1>5. CASE UNCHANGED vars
    BY <1>5 DEF vars, NetchanInv, TypeOK, AssembledPrefix, DeliveredOld, DeliveredIntact,
                DeliveredInOrder, FragmentsTerminated
  <1> QED BY <1>1, <1>2, <1>3, <1>4, <1>5 DEF Next

\* The inductive invariant holds in every reachable state.
THEOREM Invariance == Spec => []NetchanInv
  BY InitInv, NextInv, PTL DEF Spec

\* The state of the channel stays within its types: neither buffer of a netchan_t
\* is indexed outside 0 .. MAX_MSGLEN-1.
THEOREM TypeCorrect == Spec => []TypeOK
  <1>1. NetchanInv => TypeOK
    BY DEF NetchanInv
  <1> QED BY <1>1, Invariance, PTL

\* Whatever is lost, repeated or reordered, a message handed over is one that
\* was sent, byte for byte.
THEOREM Intact == Spec => []DeliveredIntact
  <1>1. NetchanInv => DeliveredIntact
    BY DEF NetchanInv
  <1> QED BY <1>1, Invariance, PTL

\* Messages are handed over in the order of their numbers, none twice.
THEOREM InOrder == Spec => []DeliveredInOrder
  <1>1. NetchanInv => DeliveredInOrder
    BY DEF NetchanInv
  <1> QED BY <1>1, Invariance, PTL

\* Every message the sender is done with has been sent to its end.
THEOREM Terminated == Spec => []FragmentsTerminated
  <1>1. NetchanInv => FragmentsTerminated
    BY DEF NetchanInv
  <1> QED BY <1>1, Invariance, PTL

-----------------------------------------------------------------------------
(* Steps, and the stream the channel implements.                            *)

\* The receiver's number moves only forward, and only with a message.
LEMMA StepAdvances ==
  ASSUME NetchanInv, [Next]_vars, in'.incomingSequence # in.incomingSequence
  PROVE  Advances
  <1>1. ASSUME NEW m \in Payload, Transmit(m) PROVE FALSE
    BY <1>1 DEF Transmit
  <1>2. CASE TransmitNextFragment
    BY <1>2 DEF TransmitNextFragment
  <1>3. ASSUME NEW p \in net, ProcessPartial(p) PROVE FALSE
    <2>1. in \in ReceiveHalf /\ IsPacket(p)
      BY DEF NetchanInv, TypeOK
    <2>2. in' = AfterProcess(in, p) /\ ~Completes(in, p)
      BY <1>3 DEF ProcessPartial
    <2>3. Assembling(in, p).incomingSequence = in.incomingSequence
      BY <2>1, AssemblingType
    <2>4. Continues(in, p) => WithFragment(in, p).incomingSequence = in.incomingSequence
      BY <2>1, WithFragmentType
    <2> QED BY <2>2, <2>3, <2>4 DEF AfterProcess, Completes
  <1>4. ASSUME NEW p \in net, ProcessMessage(p) PROVE Advances
    <2>1. Completes(in, p)
      BY <1>4 DEF ProcessMessage
    <2>2. /\ AfterProcess(in, p).incomingSequence = p.sequence
          /\ p.sequence > in.incomingSequence
          /\ ReceivedMessage(in, p) = sent[p.sequence]
      BY <2>1, CompletesMessage
    <2> QED BY <1>4, <2>2 DEF ProcessMessage, Advances
  <1>5. CASE UNCHANGED vars
    BY <1>5 DEF vars
  <1> QED BY <1>1, <1>2, <1>3, <1>4, <1>5 DEF Next

\* A number is used up only by the message handed over under it.
THEOREM AdvancesOnly == Spec => AdvanceByMessage
  <1>1. NetchanInv /\ [Next]_vars =>
          [in'.incomingSequence # in.incomingSequence => Advances]_vars
    BY StepAdvances
  <1> QED BY <1>1, Invariance, PTL DEF Spec, AdvanceByMessage

\* A step of the channel is a step of the stream or leaves the stream alone.
LEMMA StreamStep ==
  ASSUME NetchanInv, [Next]_vars
  PROVE  [Stream!Next]_(Stream!vars)
  <1>1. ASSUME NEW m \in Payload, Transmit(m) PROVE Stream!Next
    BY <1>1 DEF Transmit, Stream!Next, Stream!Send
  <1>2. CASE TransmitNextFragment
    BY <1>2 DEF TransmitNextFragment, Stream!vars
  <1>3. ASSUME NEW p \in net, ProcessPartial(p) PROVE UNCHANGED Stream!vars
    BY <1>3 DEF ProcessPartial, Stream!vars
  <1>4. ASSUME NEW p \in net, ProcessMessage(p) PROVE Stream!Next
    <2>1. Completes(in, p)
      BY <1>4 DEF ProcessMessage
    <2>2. /\ p.sequence > in.incomingSequence
          /\ p.sequence \in 1 .. Len(sent)
          /\ ReceivedMessage(in, p) = sent[p.sequence]
      BY <2>1, CompletesMessage
    <2>3. p.sequence > Stream!LastDelivered
      <3>1. CASE delivered = <<>>
        BY <3>1, <2>2 DEF Stream!LastDelivered
      <3>2. CASE delivered # <<>>
        <4>1. /\ delivered \in Seq([sequence : Nat, message : Payload])
              /\ in.incomingSequence \in Nat
              /\ DeliveredOld
          BY DEF NetchanInv, TypeOK, ReceiveHalf
        <4>2. Len(delivered) \in 1 .. Len(delivered)
          BY <4>1, <3>2
        <4>3. /\ delivered[Len(delivered)].sequence <= in.incomingSequence
              /\ delivered[Len(delivered)].sequence \in Nat
          BY <4>2, DeliveredNumbers
        <4>4. p.sequence \in Nat
          BY <2>2
        <4> QED BY <4>1, <4>3, <4>4, <3>2, <2>2 DEF Stream!LastDelivered
      <3> QED BY <3>1, <3>2
    <2>4. Stream!Deliver(p.sequence)
      BY <1>4, <2>2, <2>3 DEF ProcessMessage, Stream!Deliver
    <2> QED BY <2>2, <2>4 DEF Stream!Next
  <1>5. CASE UNCHANGED vars
    BY <1>5 DEF vars, Stream!vars
  <1> QED BY <1>1, <1>2, <1>3, <1>4, <1>5 DEF Next

\* The channel implements the stream of numbered messages.
THEOREM Implements == Spec => ImplementsStream
  <1>1. Init => Stream!Init
    BY DEF Init, Stream!Init
  <1>2. NetchanInv /\ [Next]_vars => [Stream!Next]_(Stream!vars)
    BY StreamStep
  <1> QED BY <1>1, <1>2, Invariance, PTL DEF Spec, Stream!Spec, ImplementsStream

--------------------------------------------------------------------------------
(* The server's queue.                                                      *)

USE NetchanSizes, ServerNetchanAssumption

Message == [id : Nat \ {0}, length : Lengths, kind : {"snapshot", "gamestate", "final"},
            reliableAcknowledge : Nat, builtAs : Nat, queued : BOOLEAN,
            sequence : Nat, key : Nat]

Channel == [outgoingSequence : Nat \ {0}, unsentFragments : BOOLEAN,
            unsentFragmentStart : Lengths, unsentBuffer : Message \cup {NoMessage}]

Side == [netchan : Channel, queue : Seq(Message), attached : BOOLEAN,
         lost : Seq(Message), wire : Seq(Message)]

\* While fragments are unsent there is a message they are of, and the next one
\* begins within it.
Unsent(chan) ==
  chan.unsentFragments => /\ chan.unsentBuffer \in Message
                          /\ chan.unsentFragmentStart <= chan.unsentBuffer.length

\* EachOnce, OneAtATime, DisorderIsOvertaking and NumberedAsNoted of a side s when n
\* messages have been built; a message that is in neither place is lost.
OnceEach(s, n) ==
  /\ Ids(s.wire) \union Ids(s.queue) \union Ids(s.lost) = 1 .. n
  /\ Len(s.wire) + Len(s.queue) + Len(s.lost) = n
  /\ s.lost # <<>> => ~s.attached

InTurn(s) ==
  /\ \A i \in 1 .. Len(s.wire) : s.wire[i].sequence = i
  /\ IF s.netchan.unsentFragments
     THEN /\ s.netchan.outgoingSequence = Len(s.wire)
          /\ s.netchan.unsentBuffer = s.wire[Len(s.wire)]
     ELSE s.netchan.outgoingSequence = Len(s.wire) + 1

Overtakings(s) ==
  /\ \A i, j \in 1 .. Len(s.wire) :
       i < j /\ s.wire[i].id > s.wire[j].id => s.wire[j].queued /\ ~s.wire[i].queued
  /\ \A i, j \in 1 .. Len(s.queue) : i < j => s.queue[i].id < s.queue[j].id
  /\ \A i \in 1 .. Len(s.wire), j \in 1 .. Len(s.queue) :
       s.wire[i].queued => s.wire[i].id < s.queue[j].id

AsBuilt(s) ==
  \A i \in 1 .. Len(s.wire) :
    /\ s.wire[i].builtAs <= s.wire[i].sequence
    /\ s.wire[i].kind = "snapshot" => s.wire[i].builtAs = s.wire[i].sequence

\* What is in the queue has waited there: it is no snapshot, and the number it was
\* built for is not above that of the next message.
Waiting(s) ==
  \A i \in 1 .. Len(s.queue) :
    /\ s.queue[i].queued
    /\ s.queue[i].kind # "snapshot"
    /\ s.queue[i].builtAs <= s.netchan.outgoingSequence

SideInv(s, n) ==
  /\ s \in Side
  /\ Unsent(s.netchan)
  /\ OnceEach(s, n)
  /\ InTurn(s)
  /\ Overtakings(s)
  /\ AsBuilt(s)
  /\ Waiting(s)

QueueInv ==
  /\ SideInv(cl, built)
  /\ lastClientCommand \in 0 .. MaxCommands
  /\ built \in 0 .. MaxBuilt
  /\ running \in BOOLEAN

-----------------------------------------------------------------------------
(* Sequences of messages.                                                   *)

LEMMA IdsOfAppend ==
  ASSUME NEW s \in Seq(Message), NEW m \in Message
  PROVE  Ids(Append(s, m)) = Ids(s) \cup {m.id}
<1>1. /\ Len(Append(s, m)) = Len(s) + 1 /\ Len(s) \in Nat
      /\ \A i \in 1 .. Len(s) : Append(s, m)[i] = s[i]
      /\ Append(s, m)[Len(s) + 1] = m
  BY AppendProperties, LenProperties
<1>. QED BY <1>1 DEF Ids

LEMMA IdsOfHeadAndTail ==
  ASSUME NEW s \in Seq(Message), s # <<>>
  PROVE  Ids(s) = {Head(s).id} \cup Ids(Tail(s))
<1>1. /\ Len(Tail(s)) = Len(s) - 1 /\ Len(s) \in Nat \ {0} /\ Head(s) = s[1]
      /\ \A i \in 1 .. Len(Tail(s)) : Tail(s)[i] = s[i + 1]
  BY HeadTailProperties, EmptySeq
<1>2. ASSUME NEW x \in Ids(s) PROVE x \in {Head(s).id} \cup Ids(Tail(s))
  <2>1. PICK i \in 1 .. Len(s) : x = s[i].id
    BY DEF Ids
  <2>2. CASE i = 1
    BY <1>1, <2>1, <2>2
  <2>3. CASE i # 1
    <3>1. i - 1 \in 1 .. Len(Tail(s)) /\ Tail(s)[i - 1] = s[i]
      BY <1>1, <2>3
    <3>. QED BY <2>1, <3>1 DEF Ids
  <2>. QED BY <2>2, <2>3
<1>3. ASSUME NEW x \in {Head(s).id} \cup Ids(Tail(s)) PROVE x \in Ids(s)
  BY <1>1 DEF Ids
<1>. QED BY <1>2, <1>3

-----------------------------------------------------------------------------
(* The channel.                                                             *)

\* A fragment leaves the number and the message in progress alone, or ends them.
LEMMA AfterFragmentShape ==
  ASSUME NEW chan \in Channel, Unsent(chan), chan.unsentFragments
  PROVE  /\ AfterFragment(chan) \in Channel
         /\ Unsent(AfterFragment(chan))
         /\ AfterFragment(chan).unsentBuffer = chan.unsentBuffer
         /\ AfterFragment(chan).outgoingSequence =
              IF AfterFragment(chan).unsentFragments THEN chan.outgoingSequence
                                                     ELSE chan.outgoingSequence + 1
<1>1. /\ chan.unsentBuffer \in Message /\ chan.unsentBuffer.length \in 0 .. MAX_MSGLEN
      /\ chan.unsentFragmentStart \in 0 .. chan.unsentBuffer.length
      /\ chan.outgoingSequence \in Nat \ {0}
  BY DEF Channel, Unsent, Message, Lengths
<1> DEFINE start == chan.unsentFragmentStart + NextLength(chan)
<1>2. start \in Lengths /\ start <= chan.unsentBuffer.length
  BY <1>1 DEF NextLength, Lengths
<1>3. CASE start = chan.unsentBuffer.length /\ NextLength(chan) # FRAGMENT_SIZE
  <2>1. AfterFragment(chan) = [chan EXCEPT !.unsentFragmentStart = start,
                                 !.outgoingSequence = @ + 1, !.unsentFragments = FALSE]
    BY <1>3 DEF AfterFragment
  <2>2. AfterFragment(chan) \in Channel
    <3>1. chan.outgoingSequence + 1 \in Nat \ {0}
      BY <1>1
    <3>. QED BY <1>2, <2>1, <3>1, Zenon DEF Channel
  <2>3. /\ ~AfterFragment(chan).unsentFragments
        /\ AfterFragment(chan).unsentBuffer = chan.unsentBuffer
        /\ AfterFragment(chan).outgoingSequence = chan.outgoingSequence + 1
    BY <1>1, <2>1 DEF Channel
  <2>. QED BY <2>2, <2>3 DEF Unsent
<1>4. CASE ~(start = chan.unsentBuffer.length /\ NextLength(chan) # FRAGMENT_SIZE)
  <2>1. AfterFragment(chan) = [chan EXCEPT !.unsentFragmentStart = start]
    BY <1>4 DEF AfterFragment
  <2>2. AfterFragment(chan) \in Channel
    BY <1>2, <2>1 DEF Channel
  <2>3. /\ AfterFragment(chan).unsentFragmentStart = start
        /\ AfterFragment(chan).unsentFragments = chan.unsentFragments
        /\ AfterFragment(chan).unsentBuffer = chan.unsentBuffer
        /\ AfterFragment(chan).outgoingSequence = chan.outgoingSequence
    BY <2>1 DEF Channel
  <2>. QED BY <1>1, <1>2, <2>2, <2>3 DEF Unsent
<1>. QED BY <1>3, <1>4

\* A message handed to the channel is sent in one packet, or is in progress
\* afterwards: its first fragment is a full one, which never ends it.
LEMMA AfterTransmitShape ==
  ASSUME NEW chan \in Channel, NEW m \in Message, ~chan.unsentFragments
  PROVE  /\ AfterTransmit(chan, m) \in Channel
         /\ Unsent(AfterTransmit(chan, m))
         /\ IF AfterTransmit(chan, m).unsentFragments
            THEN /\ AfterTransmit(chan, m).outgoingSequence = chan.outgoingSequence
                 /\ AfterTransmit(chan, m).unsentBuffer = m
            ELSE AfterTransmit(chan, m).outgoingSequence = chan.outgoingSequence + 1
<1>1. /\ m.length \in 0 .. MAX_MSGLEN /\ chan.outgoingSequence \in Nat \ {0}
      /\ 0 \in Lengths
  BY DEF Message, Channel, Lengths
<1>2. CASE m.length >= FRAGMENT_SIZE
  <2> DEFINE f == Fragmenting(chan, m)
  <2>1. /\ f \in Channel /\ f.unsentFragments /\ f.unsentFragmentStart = 0
        /\ f.unsentBuffer = m /\ f.outgoingSequence = chan.outgoingSequence
    BY <1>1 DEF Fragmenting, Channel
  <2>2. Unsent(f)
    BY <1>1, <2>1 DEF Unsent
  <2>3. NextLength(f) = FRAGMENT_SIZE
    BY <1>1, <1>2, <2>1 DEF NextLength
  <2>4. AfterFragment(f).unsentFragments
    BY <2>1, <2>3 DEF AfterFragment, Channel
  <2>5. AfterTransmit(chan, m) = AfterFragment(f)
    BY <1>2 DEF AfterTransmit
  <2>. QED BY <2>1, <2>2, <2>4, <2>5, AfterFragmentShape
<1>3. CASE ~(m.length >= FRAGMENT_SIZE)
  <2>1. AfterTransmit(chan, m) = [chan EXCEPT !.unsentFragmentStart = 0, !.outgoingSequence = @ + 1]
    BY <1>3 DEF AfterTransmit
  <2>2. AfterTransmit(chan, m) \in Channel
    <3>1. chan.outgoingSequence + 1 \in Nat \ {0}
      BY <1>1
    <3>. QED BY <1>1, <2>1, <3>1, Zenon DEF Channel
  <2>3. /\ ~AfterTransmit(chan, m).unsentFragments
        /\ AfterTransmit(chan, m).outgoingSequence = chan.outgoingSequence + 1
    BY <1>1, <2>1 DEF Channel
  <2>. QED BY <2>2, <2>3 DEF Unsent
<1>. QED BY <1>2, <1>3

-----------------------------------------------------------------------------
(* The operators on the server's side.                                      *)

LEMMA SideFields ==
  ASSUME NEW s \in Side
  PROVE  /\ s.netchan \in Channel /\ s.attached \in BOOLEAN
         /\ s.queue \in Seq(Message) /\ s.lost \in Seq(Message) /\ s.wire \in Seq(Message)
         /\ Len(s.queue) \in Nat /\ Len(s.lost) \in Nat /\ Len(s.wire) \in Nat
BY LenProperties DEF Side

\* A message whose turn it is goes from where it was built, or from the head of the
\* queue, to the end of the wire; rest is the side without it.
LEMMA EncodeAndTransmitKeeps ==
  ASSUME lastClientCommand \in Nat,
         NEW rest \in Side, NEW m \in Message, NEW n \in Nat,
         Unsent(rest.netchan), ~rest.netchan.unsentFragments,
         InTurn(rest), Overtakings(rest), AsBuilt(rest), Waiting(rest),
         Ids(rest.wire) \union Ids(rest.queue) \union Ids(rest.lost) \union {m.id} = 1 .. n,
         Len(rest.wire) + Len(rest.queue) + Len(rest.lost) + 1 = n,
         rest.lost # <<>> => ~rest.attached,
         \A i \in 1 .. Len(rest.wire) :
           rest.wire[i].id > m.id => m.queued /\ ~rest.wire[i].queued,
         m.queued => \A j \in 1 .. Len(rest.queue) : m.id < rest.queue[j].id,
         m.builtAs <= rest.netchan.outgoingSequence,
         m.kind = "snapshot" => m.builtAs = rest.netchan.outgoingSequence
  PROVE  SideInv(EncodeAndTransmit(rest, m), n)
<1> DEFINE e == SV_Netchan_Encode(rest, m)
           t == EncodeAndTransmit(rest, m)
<1>1. /\ rest.netchan \in Channel /\ rest.wire \in Seq(Message) /\ Len(rest.wire) \in Nat
      /\ rest.queue \in Seq(Message) /\ Len(rest.queue) \in Nat
      /\ rest.lost \in Seq(Message) /\ Len(rest.lost) \in Nat
  BY SideFields
<1>2. rest.netchan.outgoingSequence \in Nat \ {0}
  BY <1>1 DEF Channel
<1>3. /\ e \in Message /\ e.id = m.id /\ e.queued = m.queued
      /\ e.kind = m.kind /\ e.builtAs = m.builtAs
      /\ e.sequence = rest.netchan.outgoingSequence
  BY <1>2 DEF SV_Netchan_Encode, Message
<1>4. /\ t.netchan = AfterTransmit(rest.netchan, e) /\ t.wire = Append(rest.wire, e)
      /\ t.queue = rest.queue /\ t.lost = rest.lost /\ t.attached = rest.attached
  BY DEF EncodeAndTransmit, Side
<1>5. /\ t.netchan \in Channel /\ Unsent(t.netchan)
      /\ IF t.netchan.unsentFragments
         THEN /\ t.netchan.outgoingSequence = rest.netchan.outgoingSequence
              /\ t.netchan.unsentBuffer = e
         ELSE t.netchan.outgoingSequence = rest.netchan.outgoingSequence + 1
  BY <1>1, <1>3, <1>4, AfterTransmitShape
<1>6. /\ Append(rest.wire, e) \in Seq(Message)
      /\ Len(t.wire) = Len(rest.wire) + 1
      /\ \A i \in 1 .. Len(rest.wire) : t.wire[i] = rest.wire[i]
      /\ t.wire[Len(rest.wire) + 1] = e
  BY <1>1, <1>3, <1>4, AppendProperties
<1>7. t \in Side
  BY <1>4, <1>5, <1>6 DEF EncodeAndTransmit, Side
<1>8. OnceEach(t, n)
  <2>1. Ids(t.wire) = Ids(rest.wire) \cup {m.id}
    BY <1>1, <1>3, <1>4, IdsOfAppend
  <2>2. Ids(t.wire) \union Ids(t.queue) \union Ids(t.lost) = 1 .. n
    BY <1>4, <2>1
  <2>3. Len(t.wire) + Len(t.queue) + Len(t.lost) = n
    <3> DEFINE w == Len(rest.wire)  q == Len(rest.queue)  l == Len(rest.lost)
    <3>1. /\ w + q + l + 1 = n /\ w \in Nat /\ q \in Nat /\ l \in Nat
          /\ Len(t.wire) = w + 1 /\ Len(t.queue) = q /\ Len(t.lost) = l
      BY <1>1, <1>4, <1>6
    <3> HIDE DEF w, q, l, t
    <3>. QED BY <3>1
  <2>. QED BY <1>4, <2>2, <2>3 DEF OnceEach
<1>9. InTurn(t)
  <2>1. rest.netchan.outgoingSequence = Len(rest.wire) + 1
    BY DEF InTurn
  <2>2. ASSUME NEW i \in 1 .. Len(t.wire) PROVE t.wire[i].sequence = i
    <3>1. CASE i \in 1 .. Len(rest.wire)
      BY <1>6, <3>1 DEF InTurn
    <3>2. CASE i = Len(rest.wire) + 1
      BY <1>3, <1>6, <2>1, <3>2
    <3>. QED BY <1>1, <1>6, <3>1, <3>2
  <2>. QED BY <1>5, <1>6, <2>1, <2>2 DEF InTurn
<1>10. Overtakings(t)
  <2>1. \A i \in 1 .. Len(t.wire) : i \in 1 .. Len(rest.wire) \/ i = Len(rest.wire) + 1
    BY <1>1, <1>6
  <2>2. ASSUME NEW i \in 1 .. Len(t.wire), NEW j \in 1 .. Len(t.wire), i < j,
               t.wire[i].id > t.wire[j].id
        PROVE  t.wire[j].queued /\ ~t.wire[i].queued
    <3>1. i \in 1 .. Len(rest.wire)
      BY <1>1, <1>6, <2>2
    <3>2. CASE j \in 1 .. Len(rest.wire)
      BY <1>6, <2>2, <3>1, <3>2 DEF Overtakings
    <3>3. CASE j = Len(rest.wire) + 1
      BY <1>3, <1>6, <2>2, <3>1, <3>3
    <3>. QED BY <2>1, <3>2, <3>3
  <2>3. ASSUME NEW i \in 1 .. Len(t.wire), NEW j \in 1 .. Len(t.queue), t.wire[i].queued
        PROVE  t.wire[i].id < t.queue[j].id
    <3>2. CASE i \in 1 .. Len(rest.wire)
      BY <1>4, <1>6, <2>3, <3>2 DEF Overtakings
    <3>3. CASE i = Len(rest.wire) + 1
      BY <1>3, <1>4, <1>6, <2>3, <3>3
    <3>4. i \in 1 .. Len(rest.wire) \/ i = Len(rest.wire) + 1
      BY <2>1
    <3>. QED BY <3>2, <3>3, <3>4
  <2>4. \A i, j \in 1 .. Len(t.queue) : i < j => t.queue[i].id < t.queue[j].id
    BY <1>4 DEF Overtakings
  <2>. QED BY <2>2, <2>3, <2>4 DEF Overtakings
<1>11. AsBuilt(t)
  <2> SUFFICES ASSUME NEW i \in 1 .. Len(t.wire)
               PROVE  /\ t.wire[i].builtAs <= t.wire[i].sequence
                      /\ t.wire[i].kind = "snapshot" => t.wire[i].builtAs = t.wire[i].sequence
    BY DEF AsBuilt
  <2>1. CASE i \in 1 .. Len(rest.wire)
    BY <1>6, <2>1 DEF AsBuilt
  <2>2. CASE i = Len(rest.wire) + 1
    BY <1>3, <1>6, <2>2
  <2>. QED BY <1>1, <1>6, <2>1, <2>2
<1>12. Waiting(t)
  <2> SUFFICES ASSUME NEW i \in 1 .. Len(t.queue)
               PROVE  /\ t.queue[i].queued /\ t.queue[i].kind # "snapshot"
                      /\ t.queue[i].builtAs <= t.netchan.outgoingSequence
    BY DEF Waiting
  <2>1. i \in 1 .. Len(rest.queue) /\ t.queue[i] = rest.queue[i]
    BY <1>4
  <2>2. rest.queue[i] \in Message
    BY <1>1, <2>1, ElementOfSeq
  <2>3. rest.queue[i].builtAs \in Nat
    BY <2>2, Zenon DEF Message
  <2>4. t.netchan.outgoingSequence >= rest.netchan.outgoingSequence
    BY <1>2, <1>5
  <2>5. /\ rest.queue[i].queued /\ rest.queue[i].kind # "snapshot"
        /\ rest.queue[i].builtAs <= rest.netchan.outgoingSequence
    BY <2>1 DEF Waiting
  <2>6. t.netchan.outgoingSequence \in Nat
    BY <1>5 DEF Channel
  <2> HIDE DEF t
  <2>. QED BY <1>2, <2>1, <2>3, <2>4, <2>5, <2>6
<1>. QED BY <1>5, <1>7, <1>8, <1>9, <1>10, <1>11, <1>12 DEF SideInv

\* A fragment of the message in progress leaves everything else as it was.
LEMMA FragmentKeeps ==
  ASSUME NEW s, NEW n \in Nat, SideInv(s, n), s.netchan.unsentFragments
  PROVE  LET t == [s EXCEPT !.netchan = AfterFragment(@)]
         IN  SideInv(t, n)
<1> DEFINE t == [s EXCEPT !.netchan = AfterFragment(@)]
<1>1. s \in Side /\ s.netchan \in Channel /\ Unsent(s.netchan)
  BY SideFields DEF SideInv
<1>2. /\ t.netchan = AfterFragment(s.netchan)
      /\ t.wire = s.wire /\ t.queue = s.queue /\ t.lost = s.lost /\ t.attached = s.attached
  BY <1>1 DEF Side
<1>3. /\ t.netchan \in Channel /\ Unsent(t.netchan)
      /\ t.netchan.unsentBuffer = s.netchan.unsentBuffer
      /\ t.netchan.outgoingSequence = IF t.netchan.unsentFragments
                                      THEN s.netchan.outgoingSequence
                                      ELSE s.netchan.outgoingSequence + 1
  BY <1>1, <1>2, AfterFragmentShape
<1>4. t \in Side
  BY <1>1, <1>2, <1>3 DEF Side
<1>5. InTurn(t)
  BY <1>2, <1>3 DEF SideInv, InTurn
<1>6. Waiting(t)
  <2> SUFFICES ASSUME NEW i \in 1 .. Len(t.queue)
               PROVE  /\ t.queue[i].queued /\ t.queue[i].kind # "snapshot"
                      /\ t.queue[i].builtAs <= t.netchan.outgoingSequence
    BY DEF Waiting
  <2>1. i \in 1 .. Len(s.queue) /\ t.queue[i] = s.queue[i]
    BY <1>2
  <2>2. s.queue[i] \in Message
    BY <1>1, <2>1, SideFields, ElementOfSeq
  <2>3. s.queue[i].builtAs \in Nat
    BY <2>2, Zenon DEF Message
  <2>4. /\ s.queue[i].queued /\ s.queue[i].kind # "snapshot"
        /\ s.queue[i].builtAs <= s.netchan.outgoingSequence
    BY <2>1 DEF SideInv, Waiting
  <2>5. s.netchan.outgoingSequence \in Nat /\ t.netchan.outgoingSequence \in Nat
    BY <1>1, <1>3 DEF Channel
  <2>6. t.netchan.outgoingSequence >= s.netchan.outgoingSequence
    BY <1>3, <2>5
  <2> HIDE DEF t
  <2>. QED BY <2>1, <2>3, <2>4, <2>5, <2>6
<1>. QED BY <1>2, <1>3, <1>4, <1>5, <1>6 DEF SideInv, OnceEach, Overtakings, AsBuilt

\* SV_Netchan_Transmit, for a message built now; a snapshot is not built while
\* fragments are unsent.
LEMMA TransmitKeeps ==
  ASSUME lastClientCommand \in Nat,
         NEW s, NEW n \in Nat, SideInv(s, n),
         NEW m \in Message, m.id = n + 1, ~m.queued,
         m.builtAs = s.netchan.outgoingSequence,
         m.kind = "snapshot" => ~s.netchan.unsentFragments
  PROVE  SideInv(SV_Netchan_Transmit(s, m), n + 1)
<1>1. /\ s \in Side /\ s.netchan \in Channel /\ s.attached \in BOOLEAN
      /\ s.queue \in Seq(Message) /\ s.lost \in Seq(Message) /\ s.wire \in Seq(Message)
      /\ Len(s.queue) \in Nat /\ Len(s.lost) \in Nat /\ Len(s.wire) \in Nat
  BY SideFields DEF SideInv
<1>2. /\ Ids(s.wire) \union Ids(s.queue) \union Ids(s.lost) = 1 .. n
      /\ Len(s.wire) + Len(s.queue) + Len(s.lost) = n
  BY DEF SideInv, OnceEach
<1>3. Ids(s.wire) \union Ids(s.queue) \union Ids(s.lost) \union {m.id} = 1 .. n + 1
  <2>1. 1 .. n + 1 = (1 .. n) \cup {n + 1}
    OBVIOUS
  <2>. QED BY <1>2, <2>1
<1>4. /\ \A i \in 1 .. Len(s.wire) : s.wire[i].id \in 1 .. n
      /\ \A i \in 1 .. Len(s.queue) : s.queue[i].id \in 1 .. n
  BY <1>2 DEF Ids
<1>5. CASE s.netchan.unsentFragments
  <2> DEFINE kept == [m EXCEPT !.queued = TRUE]
             s1 == [s EXCEPT !.queue = IF s.attached THEN Append(@, kept) ELSE @,
                             !.lost = IF s.attached THEN @ ELSE Append(@, kept)]
             t == SV_Netchan_Transmit(s, m)
  <2>1. /\ kept \in Message /\ kept.id = n + 1 /\ kept.queued
        /\ kept.kind # "snapshot" /\ kept.builtAs = s.netchan.outgoingSequence
    BY <1>5 DEF Message
  <2>2. t = [s1 EXCEPT !.netchan = AfterFragment(@)]
    BY <1>1, <1>5 DEF SV_Netchan_Transmit, Side
  <2>3. /\ s1.netchan = s.netchan /\ s1.wire = s.wire /\ s1.attached = s.attached
        /\ s1.queue = IF s.attached THEN Append(s.queue, kept) ELSE s.queue
        /\ s1.lost = IF s.attached THEN s.lost ELSE Append(s.lost, kept)
    BY <1>1 DEF Side
  <2>4. /\ Append(s.queue, kept) \in Seq(Message)
        /\ Len(Append(s.queue, kept)) = Len(s.queue) + 1
        /\ \A i \in 1 .. Len(s.queue) : Append(s.queue, kept)[i] = s.queue[i]
        /\ Append(s.queue, kept)[Len(s.queue) + 1] = kept
        /\ Ids(Append(s.queue, kept)) = Ids(s.queue) \cup {n + 1}
        /\ Append(s.lost, kept) \in Seq(Message)
        /\ Len(Append(s.lost, kept)) = Len(s.lost) + 1
        /\ Ids(Append(s.lost, kept)) = Ids(s.lost) \cup {n + 1}
    <3> HIDE DEF kept
    <3>1. /\ Ids(Append(s.queue, kept)) = Ids(s.queue) \cup {n + 1}
          /\ Ids(Append(s.lost, kept)) = Ids(s.lost) \cup {n + 1}
      BY <1>1, <2>1, IdsOfAppend
    <3>. QED BY <1>1, <2>1, <3>1, AppendProperties
  <2>5. s1 \in Side
    BY <1>1, <2>4 DEF Side
  <2>6. OnceEach(s1, n + 1)
    <3>1. Ids(s1.wire) \union Ids(s1.queue) \union Ids(s1.lost) = 1 .. n + 1
      BY <1>3, <2>3, <2>4
    <3>2. Len(s1.wire) + Len(s1.queue) + Len(s1.lost) = n + 1
      <4> DEFINE w == Len(s.wire)  q == Len(s.queue)  l == Len(s.lost)
      <4>1. /\ w + q + l = n /\ w \in Nat /\ q \in Nat /\ l \in Nat
            /\ Len(s1.wire) = w
            /\ Len(s1.queue) = IF s.attached THEN q + 1 ELSE q
            /\ Len(s1.lost) = IF s.attached THEN l ELSE l + 1
        <5>1. w + q + l = n
          BY <1>2
        <5>2. /\ Len(s1.queue) = IF s.attached THEN q + 1 ELSE q
              /\ Len(s1.lost) = IF s.attached THEN l ELSE l + 1
          <6>1. CASE s.attached
            BY <2>3, <2>4, <6>1
          <6>2. CASE ~s.attached
            BY <2>3, <2>4, <6>2
          <6>. QED BY <1>1, <6>1, <6>2
        <5>. QED BY <1>1, <2>3, <5>1, <5>2
      <4> HIDE DEF w, q, l, s1
      <4>. QED BY <4>1
    <3>3. s1.lost # <<>> => ~s1.attached
      BY <2>3 DEF SideInv, OnceEach
    <3>. QED BY <3>1, <3>2, <3>3 DEF OnceEach
  <2>7. Waiting(s1) /\ Overtakings(s1)
    <3>1. CASE ~s.attached
      BY <2>3, <3>1 DEF SideInv, Waiting, Overtakings
    <3>2. CASE s.attached
      <4>1. /\ s1.queue = Append(s.queue, kept) /\ Len(s1.queue) = Len(s.queue) + 1
            /\ \A i \in 1 .. Len(s.queue) : s1.queue[i] = s.queue[i]
            /\ s1.queue[Len(s.queue) + 1] = kept
        BY <2>3, <2>4, <3>2
      <4>2. \A i \in 1 .. Len(s1.queue) : i \in 1 .. Len(s.queue) \/ i = Len(s.queue) + 1
        BY <1>1, <4>1
      <4>3. Waiting(s1)
        <5> SUFFICES ASSUME NEW i \in 1 .. Len(s1.queue)
                     PROVE  /\ s1.queue[i].queued /\ s1.queue[i].kind # "snapshot"
                            /\ s1.queue[i].builtAs <= s1.netchan.outgoingSequence
          BY DEF Waiting
        <5>1. CASE i \in 1 .. Len(s.queue)
          BY <2>3, <4>1, <5>1 DEF SideInv, Waiting
        <5>2. CASE i = Len(s.queue) + 1
          <6>1. s.netchan.outgoingSequence \in Nat
            BY <1>1 DEF Channel
          <6>. QED BY <2>1, <2>3, <4>1, <5>2, <6>1
        <5>. QED BY <4>2, <5>1, <5>2
      <4>4. ASSUME NEW i \in 1 .. Len(s1.queue), NEW j \in 1 .. Len(s1.queue), i < j
            PROVE  s1.queue[i].id < s1.queue[j].id
        <5>1. i \in 1 .. Len(s.queue)
          BY <1>1, <4>1, <4>4
        <5>2. CASE j \in 1 .. Len(s.queue)
          BY <4>1, <4>4, <5>1, <5>2 DEF SideInv, Overtakings
        <5>3. CASE j = Len(s.queue) + 1
          BY <1>4, <2>1, <4>1, <5>1, <5>3
        <5>. QED BY <4>2, <5>2, <5>3
      <4>5. ASSUME NEW i \in 1 .. Len(s1.wire), NEW j \in 1 .. Len(s1.queue),
                   s1.wire[i].queued
            PROVE  s1.wire[i].id < s1.queue[j].id
        <5>2. CASE j \in 1 .. Len(s.queue)
          BY <2>3, <4>1, <4>5, <5>2 DEF SideInv, Overtakings
        <5>3. CASE j = Len(s.queue) + 1
          <6>1. s1.queue[j].id = n + 1
            BY <2>1, <4>1, <5>3
          <6> HIDE DEF s1, kept
          <6>2. s1.wire[i].id \in 1 .. n
            BY <1>4, <2>3
          <6>. QED BY <6>1, <6>2
        <5>. QED BY <4>2, <5>2, <5>3
      <4>6. \A i, j \in 1 .. Len(s1.wire) :
              i < j /\ s1.wire[i].id > s1.wire[j].id => s1.wire[j].queued /\ ~s1.wire[i].queued
        BY <2>3 DEF SideInv, Overtakings
      <4>. QED BY <4>3, <4>4, <4>5, <4>6 DEF Overtakings
    <3>. QED BY <1>1, <3>1, <3>2
  <2>8. SideInv(s1, n + 1)
    BY <2>3, <2>5, <2>6, <2>7 DEF SideInv, InTurn, AsBuilt
  <2>9. s1.netchan.unsentFragments
    BY <1>5, <2>3
  <2> HIDE DEF s1
  <2>. QED BY <2>2, <2>8, <2>9, FragmentKeeps
<1>6. CASE ~s.netchan.unsentFragments
  <2>1. SV_Netchan_Transmit(s, m) = EncodeAndTransmit(s, m)
    BY <1>6 DEF SV_Netchan_Transmit
  <2>2. \A i \in 1 .. Len(s.wire) : s.wire[i].id > m.id => m.queued /\ ~s.wire[i].queued
    BY <1>4
  <2>3. /\ Unsent(s.netchan) /\ InTurn(s) /\ Overtakings(s) /\ AsBuilt(s) /\ Waiting(s)
        /\ (s.lost # <<>> => ~s.attached)
    BY DEF SideInv, OnceEach
  <2>4. Len(s.wire) + Len(s.queue) + Len(s.lost) + 1 = n + 1 /\ n + 1 \in Nat
    <3> DEFINE w == Len(s.wire)  q == Len(s.queue)  l == Len(s.lost)
    <3>1. w + q + l = n
      BY <1>2
    <3> HIDE DEF w, q, l
    <3>2. w + q + l + 1 = n + 1 /\ n + 1 \in Nat
      BY <3>1
    <3>. QED BY <3>2 DEF w, q, l
  <2>5. /\ (m.queued => \A j \in 1 .. Len(s.queue) : m.id < s.queue[j].id)
        /\ m.builtAs <= s.netchan.outgoingSequence
        /\ (m.kind = "snapshot" => m.builtAs = s.netchan.outgoingSequence)
    BY <1>1 DEF Channel
  <2>6. SideInv(EncodeAndTransmit(s, m), n + 1)
    BY <1>1, <1>3, <1>6, <2>2, <2>3, <2>4, <2>5, EncodeAndTransmitKeeps, Zenon
  <2>. QED BY <2>1, <2>6
<1>. QED BY <1>5, <1>6

\* SV_Netchan_TransmitNextFragment.
LEMMA TransmitNextFragmentKeeps ==
  ASSUME lastClientCommand \in Nat,
         NEW s, NEW n \in Nat, SideInv(s, n), s.netchan.unsentFragments
  PROVE  SideInv(SV_Netchan_TransmitNextFragment(s), n)
<1> DEFINE sentOne == [s EXCEPT !.netchan = AfterFragment(@)]
           t == SV_Netchan_TransmitNextFragment(s)
<1>1. SideInv(sentOne, n)
  BY FragmentKeeps
<1>2. /\ s \in Side /\ sentOne \in Side /\ sentOne.queue = s.queue
      /\ s.queue \in Seq(Message) /\ Len(s.queue) \in Nat
  BY <1>1, SideFields DEF SideInv, Side
<1>3. CASE sentOne.netchan.unsentFragments \/ s.queue = <<>>
  BY <1>1, <1>3 DEF SV_Netchan_TransmitNextFragment
<1>4. CASE ~sentOne.netchan.unsentFragments /\ s.queue # <<>>
  <2> DEFINE m == Head(s.queue)
             rest == [sentOne EXCEPT !.queue = Tail(@)]
  <2>1. t = [EncodeAndTransmit(sentOne, m) EXCEPT !.queue = Tail(@)]
    BY <1>4 DEF SV_Netchan_TransmitNextFragment
  <2>2. /\ rest.netchan = sentOne.netchan /\ rest.wire = sentOne.wire
        /\ rest.lost = sentOne.lost /\ rest.attached = sentOne.attached
        /\ rest.queue = Tail(s.queue)
    BY <1>2 DEF Side
  <2>3. t = EncodeAndTransmit(rest, m)
    BY <1>2, <2>1 DEF EncodeAndTransmit, SV_Netchan_Encode, Side
  <2>4. /\ m \in Message /\ m = s.queue[1] /\ 1 \in 1 .. Len(s.queue)
        /\ Tail(s.queue) \in Seq(Message)
        /\ Len(Tail(s.queue)) = Len(s.queue) - 1
        /\ \A i \in 1 .. Len(Tail(s.queue)) : Tail(s.queue)[i] = s.queue[i + 1]
        /\ Ids(s.queue) = {m.id} \cup Ids(Tail(s.queue))
    BY <1>2, <1>4, HeadTailProperties, EmptySeq, IdsOfHeadAndTail
  <2>5. rest \in Side
    BY <1>2, <2>4 DEF Side
  <2>6. \A i \in 1 .. Len(rest.queue) : /\ rest.queue[i] = s.queue[i + 1]
                                        /\ i + 1 \in 1 .. Len(s.queue)
    BY <1>2, <2>2, <2>4
  <2>7. Overtakings(s) /\ Waiting(s) /\ s.wire = sentOne.wire
    BY <1>2 DEF SideInv, Side
  <2>8. /\ Waiting(rest) /\ m.queued /\ m.kind # "snapshot"
        /\ m.builtAs <= rest.netchan.outgoingSequence
    <3>1. Waiting(sentOne) /\ sentOne.queue = s.queue
      BY <1>1, <1>2 DEF SideInv
    <3>2. Waiting(rest)
      BY <2>2, <2>6, <3>1 DEF Waiting
    <3>3. /\ s.queue[1].queued /\ s.queue[1].kind # "snapshot"
          /\ s.queue[1].builtAs <= sentOne.netchan.outgoingSequence
      BY <2>4, <3>1 DEF Waiting
    <3>. QED BY <2>2, <2>4, <3>2, <3>3
  <2>9. Overtakings(rest)
    <3>1. ASSUME NEW i \in 1 .. Len(rest.queue), NEW j \in 1 .. Len(rest.queue), i < j
          PROVE  rest.queue[i].id < rest.queue[j].id
      <4>1. /\ rest.queue[i] = s.queue[i + 1] /\ rest.queue[j] = s.queue[j + 1]
            /\ i + 1 \in 1 .. Len(s.queue) /\ j + 1 \in 1 .. Len(s.queue)
        BY <2>6
      <4>2. i + 1 < j + 1
        BY <1>2, <2>2, <2>4, <3>1
      <4>. QED BY <2>7, <4>1, <4>2, Zenon DEF Overtakings
    <3>2. \A i \in 1 .. Len(rest.wire), j \in 1 .. Len(rest.queue) :
            rest.wire[i].queued => rest.wire[i].id < rest.queue[j].id
      BY <2>2, <2>6, <2>7 DEF Overtakings
    <3>3. \A i, j \in 1 .. Len(rest.wire) :
            i < j /\ rest.wire[i].id > rest.wire[j].id => rest.wire[j].queued /\ ~rest.wire[i].queued
      BY <2>2, <2>7 DEF Overtakings
    <3>. QED BY <3>1, <3>2, <3>3 DEF Overtakings
  <2>10. /\ Unsent(rest.netchan) /\ InTurn(rest) /\ AsBuilt(rest)
         /\ (rest.lost # <<>> => ~rest.attached)
    BY <1>1, <2>2 DEF SideInv, OnceEach, InTurn, AsBuilt
  <2>11. \A j \in 1 .. Len(rest.queue) : m.id < rest.queue[j].id
    <3> SUFFICES ASSUME NEW j \in 1 .. Len(rest.queue) PROVE m.id < rest.queue[j].id
      OBVIOUS
    <3>1. rest.queue[j] = s.queue[j + 1] /\ j + 1 \in 1 .. Len(s.queue)
      BY <2>6
    <3>2. 1 < j + 1
      BY <1>2, <2>2, <2>4
    <3>3. s.queue[1].id < s.queue[j + 1].id
      <4> DEFINE k == j + 1
      <4>1. 1 \in 1 .. Len(s.queue) /\ k \in 1 .. Len(s.queue) /\ 1 < k
        BY <1>2, <3>1, <3>2
      <4>2. \A i, l \in 1 .. Len(s.queue) : i < l => s.queue[i].id < s.queue[l].id
        BY <2>7, Zenon DEF Overtakings
      <4> HIDE DEF k
      <4>3. s.queue[1].id < s.queue[k].id
        BY <4>1, <4>2, Zenon
      <4>. QED BY <4>3, Zenon DEF k
    <3>4. m = s.queue[1]
      BY <1>2, <2>4, Zenon
    <3>. QED BY <3>1, <3>3, <3>4, Zenon
  <2>12. \A i \in 1 .. Len(rest.wire) :
           rest.wire[i].id > m.id => m.queued /\ ~rest.wire[i].queued
    <3> SUFFICES ASSUME NEW i \in 1 .. Len(s.wire), s.wire[i].queued
                 PROVE  ~(s.wire[i].id > m.id)
      BY <2>2, <2>7, <2>8
    <3>1. s.wire[i].id < m.id
      BY <2>4, <2>7 DEF Overtakings
    <3>2. s.wire[i] \in Message
      BY <1>2, SideFields, ElementOfSeq
    <3>3. s.wire[i].id \in Nat /\ m.id \in Nat
      BY <2>4, <3>2, Zenon DEF Message
    <3> HIDE DEF m
    <3>. QED BY <3>1, <3>3
  <2>13. Ids(rest.wire) \union Ids(rest.queue) \union Ids(rest.lost) \union {m.id} = 1 .. n
    BY <1>1, <1>2, <2>2, <2>4 DEF SideInv, OnceEach
  <2>14. Len(rest.wire) + Len(rest.queue) + Len(rest.lost) + 1 = n
    <3> DEFINE w == Len(sentOne.wire)  q == Len(s.queue)  l == Len(sentOne.lost)
    <3>1. /\ w + q + l = n /\ w \in Nat /\ q \in Nat /\ l \in Nat
      BY <1>1, <1>2, SideFields DEF SideInv, OnceEach
    <3>2. Len(rest.wire) = w /\ Len(rest.queue) = q - 1 /\ Len(rest.lost) = l
      BY <2>2, <2>4
    <3> HIDE DEF w, q, l, rest
    <3>. QED BY <3>1, <3>2
  <2>15. ~rest.netchan.unsentFragments
    BY <1>4, <2>2
  <2> HIDE DEF rest, m
  <2>16. SideInv(EncodeAndTransmit(rest, m), n)
    BY <2>4, <2>5, <2>8, <2>9, <2>10, <2>11, <2>12, <2>13, <2>14, <2>15,
       EncodeAndTransmitKeeps, Zenon
  <2>. QED BY <2>3, <2>16
<1>. QED BY <1>3, <1>4

-----------------------------------------------------------------------------
(* The specification.                                                       *)

LEMMA QueueInitInv == QueueInit => QueueInv
<1> SUFFICES ASSUME QueueInit PROVE QueueInv
  OBVIOUS
<1>1. /\ cl.netchan = SetupSend /\ cl.queue = <<>> /\ cl.lost = <<>> /\ cl.wire = <<>>
      /\ cl.attached = TRUE /\ built = 0
  BY DEF QueueInit
<1>2. SetupSend \in Channel /\ Unsent(SetupSend) /\ SetupSend.outgoingSequence = 1
      /\ ~SetupSend.unsentFragments
  BY DEF SetupSend, Channel, Unsent, Lengths
<1>3. <<>> \in Seq(Message) /\ Len(<<>>) = 0
  OBVIOUS
<1>4. cl \in Side
  BY <1>2, <1>3 DEF QueueInit, Side
<1>5. OnceEach(cl, built)
  BY <1>1, <1>3 DEF OnceEach, Ids
<1>6. InTurn(cl) /\ Overtakings(cl) /\ AsBuilt(cl) /\ Waiting(cl)
  BY <1>1, <1>2, <1>3 DEF InTurn, Overtakings, AsBuilt, Waiting
<1>. QED BY <1>1, <1>2, <1>4, <1>5, <1>6 DEF QueueInv, SideInv, QueueInit

\* What is built of a type is a message with the number of the channel.
LEMMA BuildShape ==
  ASSUME QueueInv, NEW id \in Nat \ {0}, NEW n \in BuiltLengths,
         NEW kind \in {"snapshot", "gamestate", "final"}
  PROVE  /\ Build(id, n, kind) \in Message
         /\ Build(id, n, kind).id = id
         /\ ~Build(id, n, kind).queued
         /\ Build(id, n, kind).kind = kind
         /\ Build(id, n, kind).builtAs = cl.netchan.outgoingSequence
<1>1. n \in Lengths /\ cl.netchan.outgoingSequence \in Nat /\ lastClientCommand \in Nat
  BY SideFields DEF QueueInv, SideInv, Channel
<1>. QED BY <1>1 DEF Build, Message

LEMMA SendKeeps ==
  ASSUME QueueInv, NEW n \in BuiltLengths, NEW kind \in {"snapshot", "gamestate"},
         built < MaxBuilt, kind = "snapshot" => ~cl.netchan.unsentFragments,
         cl' = SV_Netchan_Transmit(cl, Build(built + 1, n, kind)),
         built' = built + 1, UNCHANGED <<lastClientCommand, running>>
  PROVE  QueueInv'
<1>1. built \in Nat /\ built + 1 \in Nat \ {0} /\ lastClientCommand \in Nat
      /\ SideInv(cl, built)
  BY DEF QueueInv
<1>2. SideInv(cl', built + 1)
  BY <1>1, BuildShape, TransmitKeeps
<1>. QED BY <1>2 DEF QueueInv

LEMMA FinalMessageKeeps ==
  ASSUME QueueInv, NEW n \in BuiltLengths, FinalMessage(n)
  PROVE  QueueInv'
<1> DEFINE first == Build(built + 1, n, "final")
           once == SV_Netchan_Transmit(cl, first)
           second == [Build(built + 2, n, "final")
                        EXCEPT !.builtAs = once.netchan.outgoingSequence]
<1>1. /\ built \in Nat /\ built + 1 \in Nat \ {0} /\ built + 2 \in Nat \ {0}
      /\ lastClientCommand \in Nat /\ SideInv(cl, built)
  BY DEF QueueInv
<1>2. SideInv(once, built + 1)
  BY <1>1, BuildShape, TransmitKeeps
<1>3. once.netchan.outgoingSequence \in Nat
  BY <1>2, SideFields DEF SideInv, Channel
<1>4. /\ second \in Message /\ second.id = built + 2 /\ ~second.queued
      /\ second.kind = "final"
      /\ second.builtAs = once.netchan.outgoingSequence
  <2> HIDE DEF once
  <2>. QED BY <1>1, <1>3, BuildShape DEF Message
<1>5. SideInv(SV_Netchan_Transmit(once, second), built + 2)
  <2>1. second.id = (built + 1) + 1 /\ (built + 1) + 1 = built + 2
    BY <1>1, <1>4
  <2> HIDE DEF once, second
  <2>. QED BY <1>1, <1>2, <1>4, <2>1, TransmitKeeps
<1>6. /\ cl' = SV_Netchan_Transmit(once, second) /\ built' = built + 2
      /\ running' = FALSE /\ lastClientCommand' = lastClientCommand
      /\ built + 1 < MaxBuilt
  BY DEF FinalMessage
<1>7. SideInv(cl', built')
  BY <1>5, <1>6
<1>8. lastClientCommand' \in 0 .. MaxCommands /\ built' \in 0 .. MaxBuilt
      /\ running' \in BOOLEAN
  <2>1. built' = built + 2 /\ built + 1 < MaxBuilt /\ running' = FALSE
    BY <1>6
  <2>2. lastClientCommand' \in 0 .. MaxCommands
    BY <1>6 DEF QueueInv
  <2>3. built' \in 0 .. MaxBuilt
    <3>1. built \in Nat /\ MaxBuilt \in Nat
      BY <1>1
    <3>. QED BY <2>1, <3>1
  <2>. QED BY <2>1, <2>2, <2>3
<1>. QED BY <1>7, <1>8 DEF QueueInv

\* Moving the client_t touches only whether the queue can be reached; one in use
\* is, so that what is lost was lost to a queue already left behind.
LEMMA ChangeMaxClientsKeeps ==
  ASSUME QueueInv, NEW sameAddress \in BOOLEAN, ChangeMaxClients(sameAddress)
  PROVE  QueueInv'
<1>1. /\ cl \in Side
      /\ cl' = [cl EXCEPT !.attached = @ /\ (sameAddress \/ cl.queue # <<>>)]
      /\ UNCHANGED <<lastClientCommand, built, running>>
  BY DEF QueueInv, SideInv, ChangeMaxClients
<1>2. /\ cl'.netchan = cl.netchan /\ cl'.queue = cl.queue /\ cl'.lost = cl.lost
      /\ cl'.wire = cl.wire /\ (cl'.attached => cl.attached)
  BY <1>1 DEF Side
<1>3. cl' \in Side
  BY <1>1 DEF Side
<1>4. OnceEach(cl', built)
  BY <1>2 DEF QueueInv, SideInv, OnceEach
<1>. QED BY <1>1, <1>2, <1>3, <1>4
         DEF QueueInv, SideInv, InTurn, Overtakings, AsBuilt, Waiting

LEMMA QueueNextInv == QueueInv /\ [QueueNext]_queueVars => QueueInv'
<1> SUFFICES ASSUME QueueInv, [QueueNext]_queueVars PROVE QueueInv'
  OBVIOUS
<1>1. CASE SendFragment
  <2>1. SideInv(cl, built) /\ built \in Nat /\ lastClientCommand \in Nat
    BY DEF QueueInv
  <2>2. SideInv(cl', built)
    BY <1>1, <2>1, TransmitNextFragmentKeeps DEF SendFragment
  <2>. QED BY <1>1, <2>2 DEF SendFragment, QueueInv
<1>2. ASSUME NEW n \in BuiltLengths, SendSnapshot(n) PROVE QueueInv'
  BY <1>2, SendKeeps DEF SendSnapshot
<1>3. ASSUME NEW n \in BuiltLengths, SendGamestate(n) PROVE QueueInv'
  BY <1>3, SendKeeps DEF SendGamestate
<1>4. ASSUME NEW n \in BuiltLengths, FinalMessage(n) PROVE QueueInv'
  BY <1>4, FinalMessageKeeps
<1>5. CASE ClientCommand
  BY <1>5 DEF ClientCommand, QueueInv
<1>6. ASSUME NEW sameAddress \in BOOLEAN, ChangeMaxClients(sameAddress) PROVE QueueInv'
  BY <1>6, ChangeMaxClientsKeeps
<1>7. CASE UNCHANGED queueVars
  BY <1>7 DEF queueVars, QueueInv
<1>. QED BY <1>1, <1>2, <1>3, <1>4, <1>5, <1>6, <1>7 DEF QueueNext

\* The invariant holds in every state (sv_net_chan.cpp with the calls that
\* SV_SendClientMessages, SV_SendClientGameState and SV_FinalMessage make).
THEOREM QueueInvariance == QueueSpec => []QueueInv
BY QueueInitInv, QueueNextInv, PTL DEF QueueSpec

\* SV_Netchan_Transmit and SV_Netchan_TransmitNextFragment lose and repeat no message
\* until SV_ChangeMaxClients leaves the client_t without a queue, and they never hand
\* the channel a message while fragments of another are unsent, before or after.
THEOREM Sound == QueueSpec => []QueueSound
<1>1. QueueInv => QueueSound
  <2> SUFFICES ASSUME QueueInv PROVE QueueSound
    OBVIOUS
  <2>1. /\ cl.netchan \in Channel /\ Len(cl.queue) \in Nat /\ Len(cl.wire) \in Nat
        /\ Len(cl.lost) \in Nat /\ Len(cl.wire) + Len(cl.queue) + Len(cl.lost) = built
    BY SideFields DEF QueueInv, SideInv, OnceEach
  <2>2. Len(cl.queue) <= built
    <3> DEFINE w == Len(cl.wire)  q == Len(cl.queue)  l == Len(cl.lost)
    <3>1. w + q + l = built
      BY <2>1
    <3>2. w \in Nat /\ q \in Nat /\ l \in Nat /\ built \in Nat
      BY <2>1 DEF QueueInv
    <3> HIDE DEF w, q, l
    <3>3. q <= built
      BY <3>1, <3>2
    <3>. QED BY <3>3 DEF q
  <2>3. QueueTypeOK
    BY <2>1, <2>2 DEF QueueInv, Channel, QueueTypeOK
  <2>4. EachOnce
    <3> SUFFICES ASSUME cl.attached
                 PROVE  /\ Ids(cl.wire) \union Ids(cl.queue) = 1 .. built
                        /\ Len(cl.wire) + Len(cl.queue) = built
      BY DEF EachOnce
    <3>1. cl.lost = <<>>
      BY DEF QueueInv, SideInv, OnceEach
    <3>2. Len(cl.lost) = 0 /\ Ids(cl.lost) = {}
      BY <3>1 DEF Ids
    <3>3. Ids(cl.wire) \union Ids(cl.queue) = 1 .. built
      BY <3>2 DEF QueueInv, SideInv, OnceEach
    <3>4. Len(cl.wire) + Len(cl.queue) = built
      <4> DEFINE w == Len(cl.wire)  q == Len(cl.queue)  l == Len(cl.lost)
      <4>1. w + q + l = built /\ w \in Nat /\ q \in Nat /\ l = 0
        BY <2>1, <3>2
      <4> HIDE DEF w, q, l
      <4>2. w + q = built
        BY <4>1
      <4>. QED BY <4>2 DEF w, q
    <3>. QED BY <3>3, <3>4
  <2>5. OneAtATime
    BY DEF QueueInv, SideInv, InTurn, OneAtATime
  <2>. QED BY <2>3, <2>4, <2>5 DEF QueueSound
<1>. QED BY <1>1, QueueInvariance, PTL

\* The queue's only disorder is that of SV_Netchan_Transmit, which sends at once
\* when the last fragment has just gone although messages wait: a queued message is
\* overtaken by one that was not, never by another queued one.
THEOREM OnlyOvertaking == QueueSpec => []DisorderIsOvertaking
<1>1. QueueInv => DisorderIsOvertaking
  BY DEF QueueInv, SideInv, Overtakings, DisorderIsOvertaking
<1>. QED BY <1>1, QueueInvariance, PTL

\* No message leaves under a number before the one the server noted for it
\* (SV_SendClientGameState), and a snapshot leaves under that of the slot its frame is
\* in: SV_SendClientMessages builds none while fragments are unsent, so none waits.
THEOREM NumbersHold == QueueSpec => []NumberedAsNoted
<1>1. QueueInv => NumberedAsNoted
  BY DEF QueueInv, SideInv, AsBuilt, NumberedAsNoted
<1>. QED BY <1>1, QueueInvariance, PTL
=============================================================================
