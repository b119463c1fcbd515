----------------------------- MODULE NetchanOps -----------------------------
(***************************************************************************)
(* What the functions of src/code/qcommon/net_chan.cpp compute, as pure    *)
(* operators on the two halves of a netchan_t: the half that sends and the *)
(* half that receives.  The modules that own a channel (Netchan,           *)
(* ServerNetchan) build their actions from these operators, so a caller    *)
(* that sends twice in one step composes them.                             *)
(*                                                                         *)
(* A message is what the callers hand to Netchan_Transmit: a length and    *)
(* that many bytes, counted from 0 as in the C arrays.                     *)
(***************************************************************************)
EXTENDS Integers

CONSTANTS FRAGMENT_SIZE,   \* bytes of a full fragment
          MAX_MSGLEN,      \* longest message, size of both channel buffers
          Byte,            \* the values of one byte
          ZeroByte         \* what Com_Memset leaves in a cleared buffer

ASSUME NetchanSizes ==
  /\ FRAGMENT_SIZE \in Nat \ {0}
  /\ MAX_MSGLEN \in Nat
  /\ ZeroByte \in Byte

Lengths == 0 .. MAX_MSGLEN

IsMessage(m) == \E n \in Lengths : m \in [length : {n}, data : [0 .. n-1 -> Byte]]

NoMessage == [length |-> 0, data |-> [i \in 0 .. -1 |-> ZeroByte]]

\* The n bytes of a buffer that begin at offset start.
Slice(buffer, start, n) == [i \in 0 .. n-1 |-> buffer[start + i]]

(***************************************************************************)
(* A datagram.  The FRAGMENT_BIT of the sequence number is the field       *)
(* fragmented; a whole message has start 0 and its own length.             *)
(***************************************************************************)
IsPacket(p) ==
  \E n \in Lengths :
    p \in [sequence : Nat, fragmented : BOOLEAN, start : Lengths,
          length : {n}, data : [0 .. n-1 -> Byte]]

-----------------------------------------------------------------------------
(* The sending half.                                                        *)

IsSendHalf(chan) ==
  /\ chan \in [outgoingSequence : Nat \ {0}, unsentFragments : BOOLEAN,
              unsentFragmentStart : Lengths, unsentBuffer : {chan.unsentBuffer}]
  /\ IsMessage(chan.unsentBuffer)

SetupSend == [outgoingSequence |-> 1, unsentFragments |-> FALSE,
              unsentFragmentStart |-> 0, unsentBuffer |-> NoMessage]

\* The length of the fragment that goes out next: a full one, or the rest.
NextLength(chan) ==
  LET rest == chan.unsentBuffer.length - chan.unsentFragmentStart
  IN  IF FRAGMENT_SIZE > rest THEN rest ELSE FRAGMENT_SIZE

FragmentPacket(chan) ==
  [sequence   |-> chan.outgoingSequence,
   fragmented |-> TRUE,
   start      |-> chan.unsentFragmentStart,
   length     |-> NextLength(chan),
   data       |-> Slice(chan.unsentBuffer.data, chan.unsentFragmentStart, NextLength(chan))]

\* Wrong: the start of the next fragment is not advanced.
AfterFragmentStuck(chan) ==
  LET start == chan.unsentFragmentStart + NextLength(chan)
  IN  IF start = chan.unsentBuffer.length /\ NextLength(chan) # FRAGMENT_SIZE
      THEN [chan EXCEPT !.outgoingSequence = @ + 1, !.unsentFragments = FALSE]
      ELSE chan

\* A fragment that ends the message ends the transmission only when it is not
\* a full one: a message of n full fragments is closed by an empty fragment.
AfterFragment(chan) ==
  LET start == chan.unsentFragmentStart + NextLength(chan)
  IN  IF start = chan.unsentBuffer.length /\ NextLength(chan) # FRAGMENT_SIZE
      THEN [chan EXCEPT !.unsentFragmentStart = start, !.outgoingSequence = @ + 1,
                        !.unsentFragments = FALSE]
      ELSE [chan EXCEPT !.unsentFragmentStart = start]

\* Wrong: the start is left where the last fragmented message ended.
FragmentingOn(chan, m) ==
  [chan EXCEPT !.unsentFragments = TRUE, !.unsentBuffer = m]

\* The channel of a message that must be fragmented, before its first fragment.
Fragmenting(chan, m) ==
  [chan EXCEPT !.unsentFragmentStart = 0, !.unsentFragments = TRUE, !.unsentBuffer = m]

TransmitPacket(chan, m) ==
  IF m.length >= FRAGMENT_SIZE
  THEN FragmentPacket(Fragmenting(chan, m))
  ELSE [sequence |-> chan.outgoingSequence, fragmented |-> FALSE,
        start |-> 0, length |-> m.length, data |-> m.data]

AfterTransmit(chan, m) ==
  IF m.length >= FRAGMENT_SIZE
  THEN AfterFragment(Fragmenting(chan, m))
  ELSE [chan EXCEPT !.unsentFragmentStart = 0, !.outgoingSequence = @ + 1]

-----------------------------------------------------------------------------
(* The receiving half.                                                      *)

ReceiveHalf == [incomingSequence : Nat, fragmentSequence : Nat,
                fragmentLength : Lengths,
                fragmentBuffer : [0 .. MAX_MSGLEN-1 -> Byte]]

SetupReceive == [incomingSequence |-> 0, fragmentSequence |-> 0, fragmentLength |-> 0,
                 fragmentBuffer |-> [i \in 0 .. MAX_MSGLEN-1 |-> ZeroByte]]

\* Packets that are not newer than the last message are dropped unseen.
Fresh(chan, p) == p.sequence > chan.incomingSequence

\* A fragment of another message abandons the one being assembled.
Assembling(chan, p) ==
  IF p.sequence = chan.fragmentSequence
  THEN chan
  ELSE [chan EXCEPT !.fragmentSequence = p.sequence, !.fragmentLength = 0]

\* Only the fragment that begins where the assembled part ends is kept.
Continues(chan, p) ==
  LET c == Assembling(chan, p)
  IN  /\ p.start = c.fragmentLength
      /\ c.fragmentLength + p.length <= MAX_MSGLEN

\* The channel with the fragment copied behind the assembled part.
WithFragment(chan, p) ==
  LET c   == Assembling(chan, p)
      end == c.fragmentLength + p.length
  IN  [c EXCEPT !.fragmentLength = end,
                !.fragmentBuffer =
                   [i \in 0 .. MAX_MSGLEN-1 |->
                      IF i \in c.fragmentLength .. end - 1
                      THEN p.data[i - c.fragmentLength] ELSE @[i]]]

\* The assembled message fits the buffer of the caller, which holds MAX_MSGLEN bytes
\* (msg->maxsize) at every call.
Fits(chan, p) == WithFragment(chan, p).fragmentLength <= MAX_MSGLEN

\* Netchan_Process returns qtrue: the caller gets a message.
Completes(chan, p) ==
  /\ Fresh(chan, p)
  /\ p.fragmented => Continues(chan, p) /\ p.length # FRAGMENT_SIZE /\ Fits(chan, p)

\* Wrong: the caller gets the last fragment only.
ReceivedFragment(chan, p) == [length |-> p.length, data |-> p.data]

\* The message the caller gets.
ReceivedMessage(chan, p) ==
  IF p.fragmented
  THEN LET c == WithFragment(chan, p)
       IN  [length |-> c.fragmentLength, data |-> Slice(c.fragmentBuffer, 0, c.fragmentLength)]
  ELSE [length |-> p.length, data |-> p.data]

\* Wrong: a fragment uses up the number of its message.
AfterProcessEarly(chan, p) ==
  IF ~Fresh(chan, p)
    THEN chan
  ELSE IF ~p.fragmented \/ ~Continues(chan, p)
    THEN [chan EXCEPT !.incomingSequence = p.sequence]
  ELSE [WithFragment(chan, p) EXCEPT !.incomingSequence = p.sequence]

\* The early returns of Netchan_Process, in its order.
AfterProcess(chan, p) ==
  IF ~Fresh(chan, p)
    THEN chan
  ELSE IF ~p.fragmented
    THEN [chan EXCEPT !.incomingSequence = p.sequence]
  ELSE IF ~Continues(chan, p)
    THEN Assembling(chan, p)
  ELSE IF p.length = FRAGMENT_SIZE \/ ~Fits(chan, p)
    THEN WithFragment(chan, p)
  ELSE [WithFragment(chan, p) EXCEPT !.fragmentLength = 0, !.incomingSequence = p.sequence]
=============================================================================
