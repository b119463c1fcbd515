------------------------- MODULE ReliableCommands -------------------------
(***************************************************************************)
(* The two streams of reliable commands between one client and the server. *)
(* Each side numbers its commands, keeps the last MAX_RELIABLE_COMMANDS of *)
(* them in a ring, repeats the unacknowledged ones in every message, and   *)
(* acknowledges in every message the last command it received.  The body   *)
(* of a message is encoded with the command that its header acknowledges.  *)
(*                                                                         *)
(* A message travels over what MessageStream promises of a netchan: some   *)
(* messages are lost, the others arrive once and in order.  A command is   *)
(* represented by its number; 0 is the empty string of a fresh ring.  The  *)
(* client has the gamestate, so that both sides agree on the serverId.     *)
(***************************************************************************)
EXTENDS Integers, Sequences, FiniteSetsExt

CONSTANTS MAX_RELIABLE_COMMANDS,  \* size of both rings (64 in the source)
          MaxClientCommands,      \* bound: commands the client adds
          MaxServerCommands,      \* bound: commands the game adds
          Capacity                \* bound: messages on their way, each direction

ASSUME ReliableAssumption ==
  /\ MAX_RELIABLE_COMMANDS \in Nat \ {0}
  /\ MaxClientCommands \in Nat
  /\ MaxServerCommands \in Nat
  /\ Capacity \in Nat \ {0}

VARIABLES
  client,      \* the part of clientConnection_t that concerns commands
  server,      \* the same of client_t
  toServer,    \* client messages on their way
  toClient,    \* server messages on their way
  heard,       \* history: the strings CL_GetServerCommand returned
  obeyed,      \* history: the strings SV_ExecuteClientCommand was given
  overwrote,   \* history: the client has overwritten an unacknowledged command
  moved,       \* history: last command added before the last move executed
  shown,       \* history: last command added before the last snapshot parsed
  outOfRange   \* history: the server has refused an acknowledgement

vars == <<client, server, toServer, toClient, heard, obeyed, overwrote, moved,
          shown, outOfRange>>

Index(n) == n % MAX_RELIABLE_COMMANDS
EmptyRing == [i \in 0 .. MAX_RELIABLE_COMMANDS - 1 |-> 0]
Disconnect == -1     \* the string of a "disconnect" command
Notice == -2         \* the broadcast print of SV_DropClient

Outstanding(side) == side.reliableSequence - side.reliableAcknowledge

\* A command is added to either side: numbered, and written to its slot.
Numbered(side) == [side EXCEPT !.reliableSequence = @ + 1]
Written(side, string) ==
  [side EXCEPT !.reliableCommands[Index(side.reliableSequence)] = string]
Stored(side, string) == Written(Numbered(side), string)

\* Wrong: the loop of the writer stops one command early.
UnacknowledgedShort(side) ==
  [n \in side.reliableAcknowledge + 1 .. side.reliableSequence - 1 |->
     side.reliableCommands[Index(n)]]

\* The commands a message repeats: every one not acknowledged, by number.
Unacknowledged(side) ==
  [n \in side.reliableAcknowledge + 1 .. side.reliableSequence |->
     side.reliableCommands[Index(n)]]

\* An acknowledgement is out of range when older than the ring; either side
\* then takes everything for acknowledged.
TooOld(side, n) == n < side.reliableSequence - MAX_RELIABLE_COMMANDS
Acknowledged(side, n) ==
  [side EXCEPT !.reliableAcknowledge = IF TooOld(side, n) THEN side.reliableSequence ELSE n]

Newer(commands, last) == {n \in DOMAIN commands : n > last}
Interval(f, from, to) == [i \in 1 .. to - from + 1 |-> f[from + i - 1]]

-----------------------------------------------------------------------------
(* The client.                                                             *)

NewClient ==
  [up |-> TRUE,
   reliableSequence |-> 0, reliableAcknowledge |-> 0, reliableCommands |-> EmptyRing,
   serverCommandSequence |-> 0, serverCommands |-> EmptyRing,
   lastExecutedServerCommand |-> 0,
   serverCommandNum |-> 0]   \* of the latest snapshot

Left(c) == [c EXCEPT !.up = FALSE]   \* Com_Error(ERR_DROP)

ClientOverflows(c) == Outstanding(c) > MAX_RELIABLE_COMMANDS

\* Wrong: the slot is computed before the number is incremented.
AddedClientCommandEarly(c) ==
  Numbered([c EXCEPT !.reliableCommands[Index(c.reliableSequence)] = c.reliableSequence + 1])

AddedClientCommand(c) == Stored(c, c.reliableSequence + 1)

CL_AddReliableCommand ==
  /\ client.up
  /\ client.reliableSequence < MaxClientCommands
  /\ \/ ClientOverflows(client) /\ client' = Left(client) /\ UNCHANGED overwrote
     \/ /\ ~ClientOverflows(client)
        /\ client' = AddedClientCommand(client)
        /\ overwrote' = (overwrote \/ Outstanding(client) >= MAX_RELIABLE_COMMANDS)
  /\ UNCHANGED <<server, toServer, toClient, heard, obeyed, moved, shown, outOfRange>>

\* Wrong: the key is the command last executed, not the one acknowledged.
PacketKeyExecuted(c) ==
  [acknowledge |-> c.serverCommandSequence,
   key |-> c.serverCommands[Index(c.lastExecutedServerCommand)],
   commands |-> Unacknowledged(c), needs |-> c.reliableSequence]

\* Wrong: acknowledges the command it expects next.
PacketAhead(c) ==
  [acknowledge |-> c.serverCommandSequence + 1,
   key |-> c.serverCommands[Index(c.serverCommandSequence + 1)],
   commands |-> Unacknowledged(c), needs |-> c.reliableSequence]

\* A message to the server.  Its move was made when command "needs" was the
\* last one added.
Packet(c) ==
  [acknowledge |-> c.serverCommandSequence,
   key |-> c.serverCommands[Index(c.serverCommandSequence)],
   commands |-> Unacknowledged(c), needs |-> c.reliableSequence]

CL_WritePacket ==
  /\ client.up
  /\ Len(toServer) < Capacity
  /\ toServer' = Append(toServer, Packet(client))
  /\ UNCHANGED <<client, server, toClient, heard, obeyed, overwrote, moved, shown, outOfRange>>

\* CL_ParseCommandString, for every command of a message in turn.
ParsedCommandStrings(c, commands) ==
  LET new == Newer(commands, c.serverCommandSequence)
      Of(i) == {n \in new : Index(n) = i} IN
  [c EXCEPT !.serverCommandSequence = Max(new \cup {@}),
            !.serverCommands = [i \in DOMAIN @ |->
               IF Of(i) = {} THEN @[i] ELSE commands[Max(Of(i))]]]

\* Wrong: the snapshot is numbered before the commands of its message are parsed.
ParsedMessageEarly(c, m) ==
  ParsedCommandStrings([c EXCEPT !.serverCommandNum = c.serverCommandSequence], m.commands)

\* The commands of a message, then its snapshot.
ParsedMessage(c, m) ==
  LET parsed == ParsedCommandStrings(c, m.commands) IN
  [parsed EXCEPT !.serverCommandNum = parsed.serverCommandSequence]

ClientDecodes(m) == m.key = client.reliableCommands[Index(m.acknowledge)]

\* Decoded with another string, the body is noise: an illegible message, or
\* one that happens to begin with svc_EOF.
CL_ParseServerMessage ==
  /\ toClient # <<>>
  /\ toClient' = Tail(toClient)
  /\ LET m == Head(toClient)
         acked == Acknowledged(client, m.acknowledge) IN
     \/ ~client.up /\ UNCHANGED <<client, shown>>
     \/ client.up /\ ~ClientDecodes(m) /\ client' \in {acked, Left(acked)} /\ UNCHANGED shown
     \/ client.up /\ ClientDecodes(m) /\ client' = ParsedMessage(acked, m) /\ shown' = m.needs
  /\ UNCHANGED <<server, toServer, heard, obeyed, overwrote, moved, outOfRange>>

CycledOut(c, n) == n <= c.serverCommandSequence - MAX_RELIABLE_COMMANDS

\* cgame moves on to the latest snapshot: it asks for every command up to it,
\* in order, and a "disconnect" among them ends the connection.
CL_GetServerCommand ==
  LET first == client.lastExecutedServerCommand + 1
      Command(n) == client.serverCommands[Index(n)]
      disconnects == {n \in first .. client.serverCommandNum : Command(n) = Disconnect}
      last == IF disconnects = {} THEN client.serverCommandNum ELSE Min(disconnects)
  IN
  /\ client.up
  /\ first <= client.serverCommandNum
  /\ \/ CycledOut(client, first) /\ client' = Left(client) /\ UNCHANGED heard
     \/ /\ ~CycledOut(client, first)
        /\ heard' = heard \o Interval([n \in first .. last |-> Command(n)], first, last)
        /\ client' = [client EXCEPT !.lastExecutedServerCommand = last,
                                    !.up = (disconnects = {})]
  /\ UNCHANGED <<server, toServer, toClient, obeyed, overwrote, moved, shown, outOfRange>>

-----------------------------------------------------------------------------
(* The server.  Its record also keeps two histories: "said", the strings    *)
(* it was asked to send, by number, and "drops", the times it has told the  *)
(* game that this client disconnects.                                       *)

NewServer ==
  [zombie |-> FALSE,
   reliableSequence |-> 0, reliableAcknowledge |-> 0, reliableCommands |-> EmptyRing,
   lastClientCommand |-> 0, lastClientCommandString |-> 0,
   said |-> <<>>, drops |-> 0]

\* Whether the next command is the one that does not fit.  Only this one: those
\* after it are written over unacknowledged ones.
ServerOverflows(s) == Outstanding(s) + 1 = MAX_RELIABLE_COMMANDS + 1

Asked(s, string) == [s EXCEPT !.said = Append(@, string)]

\* SV_AddServerCommand where SV_DropClient cannot be reached again.
AddedToDropped(s, string) ==
  IF ServerOverflows(s) THEN Numbered(Asked(s, string)) ELSE Stored(Asked(s, string), string)

\* SV_DropClient from the assignment of CS_ZOMBIE on.
Dropped(s) ==
  AddedToDropped([s EXCEPT !.zombie = TRUE, !.drops = @ + 1], Disconnect)

\* SV_DropClient called for the overflow: its own broadcast is one command past
\* the one that does not fit, hence written.
DroppedForOverflow(s) == Dropped(Stored(Asked(s, Notice), Notice))

\* SV_DropClient for any other reason.  The broadcast may be the command that
\* does not fit: SV_AddServerCommand then drops the client, which is not yet a
\* zombie, and this call goes on from its return.
SV_DropClient(s) ==
  IF s.zombie THEN s
  ELSE Dropped(IF ServerOverflows(s)
               THEN DroppedForOverflow(Numbered(Asked(s, Notice)))
               ELSE Stored(Asked(s, Notice), Notice))

SV_AddServerCommand(s, string) ==
  IF ServerOverflows(s) /\ ~s.zombie
  THEN DroppedForOverflow(Numbered(Asked(s, string)))
  ELSE AddedToDropped(s, string)

\* The game sends a command, to a client that is no zombie.
SendServerCommand ==
  /\ ~server.zombie
  /\ server.reliableSequence < MaxServerCommands
  /\ server' = SV_AddServerCommand(server, server.reliableSequence + 1)
  /\ UNCHANGED <<client, toServer, toClient, heard, obeyed, overwrote, moved, shown, outOfRange>>

\* The client is kicked, or times out.
DropClient ==
  /\ ~server.zombie
  /\ server' = SV_DropClient(server)
  /\ UNCHANGED <<client, toServer, toClient, heard, obeyed, overwrote, moved, shown, outOfRange>>

\* A message to the client, a zombie too.  Its snapshot was made when command
\* "needs" was the last one added.
Snapshot(s) ==
  [acknowledge |-> s.lastClientCommand, key |-> s.lastClientCommandString,
   commands |-> Unacknowledged(s), needs |-> s.reliableSequence]

SV_SendClientSnapshot ==
  /\ Len(toClient) < Capacity
  /\ toClient' = Append(toClient, Snapshot(server))
  /\ UNCHANGED <<client, server, toServer, heard, obeyed, overwrote, moved, shown, outOfRange>>

LostCommands(s, new) == new # {} /\ Min(new) > s.lastClientCommand + 1

\* Wrong: the key string is not brought up to date.
ExecutedKeepingString(s, commands) ==
  [s EXCEPT !.lastClientCommand = Max(DOMAIN commands \cup {@})]

\* SV_ClientCommand for every command of a message that is new.
Executed(s, commands) ==
  LET new == Newer(commands, s.lastClientCommand) IN
  IF new = {} THEN s
  ELSE [s EXCEPT !.lastClientCommand = Max(new), !.lastClientCommandString = commands[Max(new)]]

\* The commands of a message, then its move, which a lost command keeps from
\* being executed.
ExecuteClientCommands(s, m) ==
  LET new == Newer(m.commands, s.lastClientCommand) IN
  \/ /\ LostCommands(s, new)
     /\ server' = SV_DropClient(s)
     /\ UNCHANGED <<obeyed, moved>>
  \/ /\ ~LostCommands(s, new)
     /\ server' = Executed(s, m.commands)
     /\ obeyed' = IF new = {} THEN obeyed
                  ELSE obeyed \o Interval(m.commands, Min(new), Max(new))
     /\ moved' = m.needs

ServerDecodes(m) == m.key = server.reliableCommands[Index(m.acknowledge)]

\* Decoded with another string, the body is noise: ignored, or taken for a
\* command far ahead, for which the client is dropped.
SV_ExecuteClientMessage(m) ==
  LET acked == Acknowledged(server, m.acknowledge) IN
  \/ /\ TooOld(server, m.acknowledge)
     /\ server' = acked
     /\ outOfRange' = TRUE
     /\ UNCHANGED <<obeyed, moved>>
  \/ /\ ~TooOld(server, m.acknowledge)
     /\ ~ServerDecodes(m)
     /\ server' \in {acked, SV_DropClient(acked)}
     /\ UNCHANGED <<obeyed, moved, outOfRange>>
  \/ /\ ~TooOld(server, m.acknowledge)
     /\ ServerDecodes(m)
     /\ ExecuteClientCommands(acked, m)
     /\ UNCHANGED outOfRange

SV_PacketEvent ==
  /\ toServer # <<>>
  /\ toServer' = Tail(toServer)
  /\ IF server.zombie THEN UNCHANGED <<server, obeyed, moved, outOfRange>>
     ELSE SV_ExecuteClientMessage(Head(toServer))
  /\ UNCHANGED <<client, toClient, heard, overwrote, shown>>

-----------------------------------------------------------------------------
(* The network and the whole.                                              *)

Lose ==
  /\ \/ toServer # <<>> /\ toServer' = Tail(toServer) /\ UNCHANGED toClient
     \/ toClient # <<>> /\ toClient' = Tail(toClient) /\ UNCHANGED toServer
  /\ UNCHANGED <<client, server, heard, obeyed, overwrote, moved, shown, outOfRange>>

Init ==
  /\ client = NewClient
  /\ server = NewServer
  /\ toServer = <<>> /\ toClient = <<>>
  /\ heard = <<>> /\ obeyed = <<>>
  /\ overwrote = FALSE /\ outOfRange = FALSE
  /\ moved = 0 /\ shown = 0

Next ==
  \/ CL_AddReliableCommand
  \/ CL_WritePacket
  \/ CL_ParseServerMessage
  \/ CL_GetServerCommand
  \/ SendServerCommand
  \/ DropClient
  \/ SV_SendClientSnapshot
  \/ SV_PacketEvent
  \/ Lose

\* Both sides send every frame; cgame draws every frame; a network that loses
\* messages does not lose all of them.
Fairness ==
  /\ WF_vars(CL_WritePacket) /\ WF_vars(SV_SendClientSnapshot)
  /\ WF_vars(CL_GetServerCommand)
  /\ SF_vars(CL_ParseServerMessage) /\ SF_vars(SV_PacketEvent)

Spec == Init /\ [][Next]_vars
FairSpec == Spec /\ Fairness

-----------------------------------------------------------------------------
(* Properties.                                                             *)

AddedCommands == 1 .. MaxClientCommands
ServerStrings == {Disconnect, Notice} \cup 1 .. MaxServerCommands
MaxServerSequence == MaxServerCommands + 5   \* two drops of two commands each

\* The kinds of values the variables take; a ring holds only strings that were
\* added, or the empty one.
TypeOK ==
  /\ client \in [up : BOOLEAN,
        reliableSequence : 0 .. MaxClientCommands, reliableAcknowledge : 0 .. MaxClientCommands,
        reliableCommands : [DOMAIN EmptyRing -> AddedCommands \cup {0}],
        serverCommandSequence : 0 .. MaxServerSequence,
        serverCommands : [DOMAIN EmptyRing -> ServerStrings \cup {0}],
        lastExecutedServerCommand : 0 .. MaxServerSequence,
        serverCommandNum : 0 .. MaxServerSequence]
  /\ [server EXCEPT !.said = <<>>] \in [zombie : BOOLEAN,
        reliableSequence : 0 .. MaxServerSequence, reliableAcknowledge : 0 .. MaxServerSequence,
        reliableCommands : [DOMAIN EmptyRing -> ServerStrings \cup {0}],
        lastClientCommand : 0 .. MaxClientCommands,
        lastClientCommandString : AddedCommands \cup {0},
        said : {<<>>}, drops : 0 .. 2]
  /\ Len(server.said) = server.reliableSequence
  /\ Len(toServer) <= Capacity /\ Len(toClient) <= Capacity
  /\ Len(obeyed) <= MaxClientCommands /\ Len(heard) <= MaxServerSequence
  /\ overwrote \in BOOLEAN /\ outOfRange \in BOOLEAN
  /\ moved \in 0 .. MaxClientCommands /\ shown \in 0 .. MaxServerSequence

\* cgame hears exactly what the game said, in order and once, however messages
\* are lost (SV_UpdateServerCommandsToClient repeats, CL_ParseCommandString
\* skips what it has), until the client is dropped.
ServerCommandsFaithful == ~server.zombie => heard = SubSeq(server.said, 1, Len(heard))

\* The server obeys exactly what the client said, in order and once, as long as
\* the client has not overwritten a command the server may still need.
ClientCommandsFaithful == ~overwrote => \A i \in 1 .. Len(obeyed) : obeyed[i] = i

\* Both streams of commands are executed as they were added.
CommandsFaithful == ServerCommandsFaithful /\ ClientCommandsFaithful

\* A message is decoded with the string it was encoded with while fewer than
\* MAX_RELIABLE_COMMANDS commands are outstanding on the decoding side: neither
\* side stops acknowledging with the string it encodes with.
KeysAgree ==
  /\ \A i \in 1 .. Len(toClient) :
       client.reliableSequence - toClient[i].acknowledge < MAX_RELIABLE_COMMANDS
         => ClientDecodes(toClient[i])
  /\ \A i \in 1 .. Len(toServer) :
       server.reliableSequence - toServer[i].acknowledge < MAX_RELIABLE_COMMANDS
         => ServerDecodes(toServer[i])

\* A move is executed only after every command added before it was made (the
\* promise of CL_AddReliableCommand), unless the client overwrote one.
MovesFollowCommands == ~overwrote => moved <= server.lastClientCommand

\* A snapshot is numbered with every command added before it was made (the
\* promise of SV_AddServerCommand), so that cgame executes those first.
SnapshotsFollowCommands == shown <= client.serverCommandNum

\* Neither moves nor snapshots run ahead of the commands they may depend on.
CommandsFirst == MovesFollowCommands /\ SnapshotsFollowCommands

\* What a side takes for acknowledged, the other side has received.
AcknowledgedIsReceived ==
  /\ server.reliableAcknowledge <= client.serverCommandSequence
  /\ ~overwrote => client.reliableAcknowledge <= server.lastClientCommand

\* An honest client never sends an acknowledgement that the server refuses as
\* out of range: the client is dropped before it could.
HonestInRange == ~outOfRange

\* Acknowledgements are sound: within the numbers added, only of what was received,
\* and never refused.
AcknowledgementsSound == TypeOK /\ AcknowledgedIsReceived /\ HonestInRange

\* Fewer commands outstanding than the rings hold.  With a full ring on each side
\* neither can decode what the other sends, and no acknowledgement moves again.
Room == Outstanding(client) < MAX_RELIABLE_COMMANDS /\ Outstanding(server) < MAX_RELIABLE_COMMANDS

\* While there is room, every command the game said is heard, unless the client
\* leaves or is dropped: the server repeats it until it is acknowledged.
ServerCommandsArrive ==
  []Room => \A n \in 1 .. MaxServerCommands :
    server.reliableSequence >= n ~> Len(heard) >= n \/ ~client.up \/ server.zombie

\* While there is room, every command of the client is obeyed, unless it leaves or
\* is dropped.
ClientCommandsArrive ==
  []Room => \A n \in 1 .. MaxClientCommands :
    client.reliableSequence >= n ~> Len(obeyed) >= n \/ ~client.up \/ server.zombie

\* Losses delay the commands of neither side for ever.
CommandsArrive == ServerCommandsArrive /\ ClientCommandsArrive

-----------------------------------------------------------------------------
(* What the source says and the code does not keep.                        *)

\* cl_main.cpp: a command "is guaranteed to not have future usercmd_t executed
\* before it is executed".
NoMoveBeforeCommand == moved <= server.lastClientCommand

\* sv_main.cpp: the check is made "so a broadcast print added by SV_DropClient()
\* doesn't cause a recursive drop client".
DroppedOnce == server.drops <= 1

===========================================================================
