--------------------------- MODULE ServerNetchan ---------------------------
(***************************************************************************)
(* The server's side of one client's channel (src/code/server/             *)
(* sv_net_chan.cpp): the netchan_t, the queue of messages that were built  *)
(* while fragments of an earlier one were still to be sent, and the key    *)
(* every message is encoded with on its way to the channel.                *)
(*                                                                         *)
(* A message is built with the number of the last client command in its    *)
(* first four bytes, which stay readable, and with the number it will be   *)
(* sent under implied by its contents (frames are stored under it).  The   *)
(* key is made of the channel's number and of the last client command at   *)
(* the time of the encoding; the client makes its own key of the number of *)
(* the datagram and of the command the first four bytes name.              *)
(*                                                                         *)
(* The contents of a message are its length and where it comes from.  One  *)
(* step of the server may call SV_Netchan_Transmit more than once, so the  *)
(* functions are operators on the server's side of the channel, a record   *)
(* [netchan, queue, attached, lost, wire].                                 *)
(*                                                                         *)
(* netchan_end_queue points at the pointer the next queued message goes    *)
(* to: netchan_start_queue of the same client_t when the queue is empty.   *)
(* SV_ChangeMaxClients moves the client_t and leaves that pointer behind;  *)
(* attached says whether it still leads to this queue.  The address of the *)
(* new array is the allocator's choice, so it may be the old one.          *)
(***************************************************************************)
EXTENDS NetchanOps, Sequences

CONSTANTS BuiltLengths,          \* lengths of the messages built
          MaxBuilt,              \* bound on the messages built
          MaxCommands            \* bound on the commands the client sends

ASSUME ServerNetchanAssumption ==
  /\ BuiltLengths \subseteq Lengths
  /\ MaxBuilt \in Nat
  /\ MaxCommands \in Nat

VARIABLES cl,                 \* the client's channel, as above; wire and lost are
                              \* histories of the messages passed to
                              \* Netchan_Transmit and of those queued nowhere
          lastClientCommand,  \* of the client_t
          built,              \* number of messages passed to SV_Netchan_Transmit
          running             \* FALSE once SV_FinalMessage has returned

queueVars == <<cl, lastClientCommand, built, running>>

\* A message as SV_Netchan_Transmit gets it; key is filled in by the encoding.
Build(id, n, kind) ==
  [id |-> id, length |-> n, kind |-> kind, reliableAcknowledge |-> lastClientCommand,
   builtAs |-> cl.netchan.outgoingSequence, queued |-> FALSE, sequence |-> 0, key |-> 0]

\* SV_Netchan_Encode: keyed by the last command of the client and, through
\* sequence, by the number of the message.
SV_Netchan_Encode(s, msg) ==
  [msg EXCEPT !.key = lastClientCommand, !.sequence = s.netchan.outgoingSequence]

\* SV_Netchan_Encode followed by Netchan_Transmit.
EncodeAndTransmit(s, msg) ==
  LET encoded == SV_Netchan_Encode(s, msg)
  IN  [s EXCEPT !.netchan = AfterTransmit(@, encoded), !.wire = Append(@, encoded)]

\* Wrong: the message sent from the queue is not taken out of it.
TransmitWithoutPop(s) ==
  LET sentOne == [s EXCEPT !.netchan = AfterFragment(@)]
  IN  IF sentOne.netchan.unsentFragments \/ s.queue = <<>>
      THEN sentOne
      ELSE EncodeAndTransmit(sentOne, Head(s.queue))

SV_Netchan_TransmitNextFragment(s) ==
  LET sentOne == [s EXCEPT !.netchan = AfterFragment(@)]
  IN  IF sentOne.netchan.unsentFragments \/ s.queue = <<>>
      THEN sentOne
      ELSE [EncodeAndTransmit(sentOne, Head(s.queue)) EXCEPT !.queue = Tail(@)]

\* Wrong: a message is queued in front of those that wait.
TransmitQueueFirst(s, msg) ==
  IF s.netchan.unsentFragments
  THEN [s EXCEPT !.queue = <<[msg EXCEPT !.queued = TRUE]>> \o @,
                 !.netchan = AfterFragment(@)]
  ELSE EncodeAndTransmit(s, msg)

\* A message that meets unsent fragments is queued, unencoded, and a fragment of
\* the message in progress is sent in its place.
SV_Netchan_Transmit(s, msg) ==
  IF s.netchan.unsentFragments
  THEN LET kept == [msg EXCEPT !.queued = TRUE]
       IN  [s EXCEPT !.queue = IF s.attached THEN Append(@, kept) ELSE @,
                     !.lost  = IF s.attached THEN @ ELSE Append(@, kept),
                     !.netchan = AfterFragment(@)]
  ELSE EncodeAndTransmit(s, msg)

-----------------------------------------------------------------------------
QueueInit ==
  /\ cl = [netchan |-> SetupSend, queue |-> <<>>, attached |-> TRUE,
            lost |-> <<>>, wire |-> <<>>]
  /\ lastClientCommand = 0
  /\ built = 0
  /\ running = TRUE

\* SV_SendClientMessages: a client with unsent fragments gets the next one.
SendFragment ==
  /\ running
  /\ cl.netchan.unsentFragments
  /\ cl' = SV_Netchan_TransmitNextFragment(cl)
  /\ UNCHANGED <<lastClientCommand, built, running>>

\* Wrong: a snapshot is built whatever is still being sent.
SendSnapshotAlways(n) ==
  /\ running
  /\ built < MaxBuilt
  /\ cl' = SV_Netchan_Transmit(cl, Build(built + 1, n, "snapshot"))
  /\ built' = built + 1
  /\ UNCHANGED <<lastClientCommand, running>>

\* SV_SendClientMessages: a client without unsent fragments gets a snapshot.
SendSnapshot(n) ==
  /\ running
  /\ ~cl.netchan.unsentFragments
  /\ built < MaxBuilt
  /\ cl' = SV_Netchan_Transmit(cl, Build(built + 1, n, "snapshot"))
  /\ built' = built + 1
  /\ UNCHANGED <<lastClientCommand, running>>

\* SV_SendClientGameState, called when a message of the client arrives, whatever
\* is being sent to it.
SendGamestate(n) ==
  /\ running
  /\ built < MaxBuilt
  /\ cl' = SV_Netchan_Transmit(cl, Build(built + 1, n, "gamestate"))
  /\ built' = built + 1
  /\ UNCHANGED <<lastClientCommand, running>>

\* SV_ClientCommand executes the next command of the client.
ClientCommand ==
  /\ running
  /\ lastClientCommand < MaxCommands
  /\ lastClientCommand' = lastClientCommand + 1
  /\ UNCHANGED <<cl, built, running>>

\* SV_ChangeMaxClients, on a map change, copies the client_t as it is; sameAddress
\* is where the zone puts the new array.  A queue in use hangs on its last
\* message, which is not moved.
ChangeMaxClients(sameAddress) ==
  /\ running
  /\ cl' = [cl EXCEPT !.attached = @ /\ (sameAddress \/ cl.queue # <<>>)]
  /\ UNCHANGED <<lastClientCommand, built, running>>

\* SV_FinalMessage: two snapshots whatever the rate and the fragments, and then
\* nothing more is sent.
FinalMessage(n) ==
  /\ running
  /\ built + 1 < MaxBuilt
  /\ LET once == SV_Netchan_Transmit(cl, Build(built + 1, n, "final"))
         second == [Build(built + 2, n, "final")
                      EXCEPT !.builtAs = once.netchan.outgoingSequence]
     IN  cl' = SV_Netchan_Transmit(once, second)
  /\ built' = built + 2
  /\ running' = FALSE
  /\ UNCHANGED lastClientCommand

QueueNext ==
  \/ SendFragment
  \/ \E n \in BuiltLengths : SendSnapshot(n) \/ SendGamestate(n) \/ FinalMessage(n)
  \/ ClientCommand
  \/ \E sameAddress \in BOOLEAN : ChangeMaxClients(sameAddress)

\* SV_Frame calls SV_SendClientMessages for as long as the server runs.
QueueSpec == QueueInit /\ [][QueueNext]_queueVars

-----------------------------------------------------------------------------
QueueTypeOK ==
  /\ cl.netchan.outgoingSequence \in Nat \ {0}
  /\ cl.netchan.unsentFragments \in BOOLEAN
  /\ cl.netchan.unsentFragmentStart \in Lengths
  /\ Len(cl.queue) <= built
  /\ lastClientCommand \in 0 .. MaxCommands
  /\ built \in 0 .. MaxBuilt
  /\ running \in BOOLEAN

Ids(msgs) == { msgs[i].id : i \in 1 .. Len(msgs) }

\* Until SV_ChangeMaxClients moves the client_t while its queue is empty, every
\* message built is on the wire or in the queue, and in one place once: queueing
\* and popping neither lose nor repeat a message.
EachOnce ==
  cl.attached => /\ Ids(cl.wire) \union Ids(cl.queue) = 1 .. built
                 /\ Len(cl.wire) + Len(cl.queue) = built

\* The channel is never handed a message while fragments of another are unsent:
\* what it is sending is the message handed to it last, under that one's number.
OneAtATime ==
  /\ \A i \in 1 .. Len(cl.wire) : cl.wire[i].sequence = i
  /\ IF cl.netchan.unsentFragments
     THEN /\ cl.netchan.outgoingSequence = Len(cl.wire)
          /\ cl.netchan.unsentBuffer = cl.wire[Len(cl.wire)]
     ELSE cl.netchan.outgoingSequence = Len(cl.wire) + 1

\* The queue is sound: its state is of its types, every message is in one place
\* once while the queue can be reached, and the channel sends one message at a time.
QueueSound == QueueTypeOK /\ EachOnce /\ OneAtATime

\* Whatever disorder there is, it is a queued message overtaken by one that was
\* not: queued messages stay in order among themselves.
DisorderIsOvertaking ==
  /\ \A i, j \in 1 .. Len(cl.wire) :
       i < j /\ cl.wire[i].id > cl.wire[j].id => cl.wire[j].queued /\ ~cl.wire[i].queued
  /\ \A i, j \in 1 .. Len(cl.queue) : i < j => cl.queue[i].id < cl.queue[j].id
  /\ \A i \in 1 .. Len(cl.wire), j \in 1 .. Len(cl.queue) :
       cl.wire[i].queued => cl.wire[i].id < cl.queue[j].id

\* The server notes the number it believes a message will have when it builds it:
\* the slot of a snapshot's frame, later the base of deltas, and the
\* gamestateMessageNum that acknowledgements are compared with.  A message never
\* leaves under a number before the one noted, so that a gamestate the client
\* passed over is sent again; and a snapshot leaves under that very number, whatever
\* was being sent when its turn came.
NumberedAsNoted ==
  \A i \in 1 .. Len(cl.wire) :
    LET m == cl.wire[i]
    IN  /\ m.builtAs <= m.sequence
        /\ m.kind = "snapshot" => m.builtAs = m.sequence

-----------------------------------------------------------------------------
(* What the comments promise and the code does not keep.                    *)

\* "if there are some unsent fragments ... then buffer them and make sure they
\* get sent in correct order" (sv_net_chan.cpp, above SV_Netchan_Transmit).
SentInOrder ==
  \A i, j \in 1 .. Len(cl.wire) : i < j => cl.wire[i].id < cl.wire[j].id

\* The same sentence: what is buffered gets sent.  A client_t moved while its queue
\* is empty queues its messages where nobody looks for them.
NothingLost == cl.lost = <<>>

\* "modify the key with the last received and with this message acknowledged client
\* command" (sv_net_chan.cpp:64): of a queued message these are two commands, and
\* the client knows only the second.
AllDecode == \A i \in 1 .. Len(cl.wire) : cl.wire[i].key = cl.wire[i].reliableAcknowledge
=============================================================================
