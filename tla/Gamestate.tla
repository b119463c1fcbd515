----------------------------- MODULE Gamestate -----------------------------
(***************************************************************************)
(* How a client gets into the game, and through changes and restarts of    *)
(* the map: the gamestate, its serverId, the pure check and configstrings  *)
(* (src/code/server/sv_client.cpp, sv_init.cpp, sv_ccmds.cpp and           *)
(* src/code/client/cl_parse.cpp, cl_cgame.cpp, cl_main.cpp).               *)
(*                                                                         *)
(* One remote client that is connected and does not download.  Messages    *)
(* arrive in order, some do not arrive (MessageStream); reliable commands  *)
(* are known by their number on both sides, and are acknowledged, as in    *)
(* ReliableCommands; neither ring fills.  A map is identified with the     *)
(* serverId it was spawned with: its checksumFeed, its baselines.  One     *)
(* configstring of the game stands for all of them; <<map, n>> is its      *)
(* value in a map after n changes.                                         *)
(***************************************************************************)
EXTENDS Integers, Sequences, FiniteSets, SequencesExt

CONSTANTS MaxServerId,          \* bound: changes and restarts of the map
          MaxChanges,           \* bound: changes of the configstring
          MaxTime,              \* bound: sv.time
          MaxLost,              \* bound: messages lost
          MaxVidRestarts,       \* bound: vid_restart commands
          Capacity              \* bound: messages on their way, each direction

ASSUME GamestateAssumption ==
  /\ MaxServerId \in Nat \ {0} /\ MaxChanges \in Nat
  /\ MaxTime \in Nat /\ MaxLost \in Nat /\ MaxVidRestarts \in Nat
  /\ Capacity \in Nat \ {0}

VARIABLES
  server,           \* server_t, and client_t of the one client
  client,           \* clientActive_t, clientConnection_t and cls.state
  serverCommands,   \* reliable commands of the server, by number
  clientCommands,   \* reliable commands of the client, by number
  toServer,         \* client messages on their way
  toClient,         \* server messages on their way
  lost,             \* messages lost so far
  rushed            \* history: has a map been restarted under a client without its gamestate

vars == <<server, client, serverCommands, clientCommands, toServer, toClient, lost, rushed>>

-----------------------------------------------------------------------------
(* The server.  Only whether a message is later than the gamestate is ever *)
(* asked of its number (messageAcknowledge > gamestateMessageNum), so that *)
(* is all that "later" keeps, here and in what is on its way.              *)

NewServer(pure) ==
  [state |-> "connected",
   pure |-> pure,
   serverId |-> 1,
   restartedServerId |-> 1,
   checksumFeed |-> 1,          \* and checksumFeedServerId
   systeminfo |-> 1,            \* sv_serverid in CS_SYSTEMINFO
   configstring |-> <<1, 0>>,
   lastClientCommand |-> 0,
   pureReceived |-> FALSE,
   pureAuthentic |-> FALSE,
   time |-> 0,
   oldServerTime |-> 0]

\* SV_SpawnServer: while it loads, configstrings are set without a word to the
\* clients.  The flags of the pure check stay as they are.
Spawned(s) ==
  [s EXCEPT !.serverId = @ + 1, !.restartedServerId = s.serverId + 1,
            !.checksumFeed = s.serverId + 1, !.systeminfo = s.serverId + 1,
            !.configstring = <<s.serverId + 1, s.configstring[2]>>, !.oldServerTime = s.time, !.time = 0,
            !.state = "connected"]

SV_SpawnServer ==
  /\ server.state # "zombie"
  /\ server.serverId < MaxServerId
  /\ server' = Spawned(server)
  /\ UNCHANGED <<client, serverCommands, clientCommands, toServer, toClient, lost, rushed>>

\* SV_MapRestart_f: whatever a connected client was doing, it is in the game.
Restarted(s) == [s EXCEPT !.serverId = @ + 1, !.state = "active"]

SV_MapRestart_f ==
  /\ server.state # "zombie"
  /\ server.serverId < MaxServerId
  /\ server' = Restarted(server)
  /\ serverCommands' = Append(serverCommands, [kind |-> "map_restart", value |-> 0])
  /\ rushed' = (rushed \/ client.checksumFeed # server.checksumFeed)
  /\ UNCHANGED <<client, clientCommands, toServer, toClient, lost>>

\* Wrong: a client that is loading is not told.
ToldActive(s, commands, kind, value) ==
  IF s.state = "active" THEN Append(commands, [kind |-> kind, value |-> value]) ELSE commands

\* SV_SetConfigstring, of a value that is new: clients with a gamestate are told.
Told(s, commands, kind, value) ==
  IF s.state \in {"primed", "active"}
  THEN Append(commands, [kind |-> kind, value |-> value])
  ELSE commands

SV_SetConfigstring ==
  /\ server.configstring[2] < MaxChanges
  /\ LET value == <<server.configstring[1], server.configstring[2] + 1>> IN
     /\ server' = [server EXCEPT !.configstring = value]
     /\ serverCommands' = Told(server, serverCommands, "cs", value)
  /\ UNCHANGED <<client, clientCommands, toServer, toClient, lost, rushed>>

\* The message under construction, with every command there is.  Configstrings
\* are in a gamestate only; what a snapshot says of the game is not in there.
Message(s, commands, gamestate) ==
  [gamestate |-> gamestate,
   later |-> ~gamestate,
   reliableSequence |-> Len(commands),
   checksumFeed |-> s.checksumFeed,
   systeminfo |-> IF gamestate THEN s.systeminfo ELSE 0,
   configstring |-> IF gamestate THEN s.configstring ELSE <<0, 0>>,
   active |-> ~gamestate /\ s.state = "active",
   time |-> IF gamestate THEN 0 ELSE s.time + s.oldServerTime]

\* SV_Frame: CS_SYSTEMINFO follows the cvar sv_serverid, time goes on or not
\* far enough to matter, and the client gets a snapshot if one is due.
SV_Frame(time, due) ==
  /\ server.state # "zombie"
  /\ time \in {server.time, server.time + 1} /\ time <= MaxTime
  /\ LET commands == IF server.systeminfo # server.serverId
                     THEN Told(server, serverCommands, "systeminfo", server.serverId)
                     ELSE serverCommands
         s == [server EXCEPT !.systeminfo = server.serverId, !.time = time] IN
     /\ server' = s
     /\ serverCommands' = commands
     /\ IF due
        THEN /\ Len(toClient) < Capacity
             /\ toClient' = Append(toClient, Message(s, commands, FALSE))
        ELSE UNCHANGED toClient
  /\ UNCHANGED <<client, clientCommands, toServer, lost, rushed>>

-----------------------------------------------------------------------------
(* A message of the client at the server.                                  *)

\* Wrong: a "cp" of the last map is looked at.
OutdatedNever(s, cp) == FALSE
Outdated(s, cp) == cp.serverId < s.checksumFeed

\* SV_VerifyPaks_f, for a client that has the files it needs: the checksums are
\* right if they were made with the feed of this map.
VerifyPaks(s, cp) ==
  IF ~s.pure \/ Outdated(s, cp) THEN s
  ELSE IF cp.checksumFeed = s.checksumFeed
       THEN [s EXCEPT !.pureReceived = TRUE, !.pureAuthentic = TRUE]
       ELSE [s EXCEPT !.pureReceived = TRUE, !.pureAuthentic = FALSE, !.state = "zombie"]

\* SV_ClientCommand, of the one after the last executed.
ExecutedCommand(s, command) ==
  IF s.state = "zombie" THEN s
  ELSE LET t == CASE command.kind = "vdr" -> [s EXCEPT !.pureReceived = FALSE,
                                                       !.pureAuthentic = FALSE]
                  [] command.kind = "cp" -> VerifyPaks(s, command)
       IN  [t EXCEPT !.lastClientCommand = @ + 1]

Executed(s, m) ==
  FoldLeft(ExecutedCommand, s,
           SubSeq(clientCommands, s.lastClientCommand + 1, m.reliableSequence))

\* SV_SendClientGameState: "primed", and to be checked again.
Primed(s) == [s EXCEPT !.state = "primed", !.pureReceived = FALSE, !.pureAuthentic = FALSE]

\* SV_UserMove, up to the moves themselves.
Moved(s) ==
  IF s.pure /\ ~s.pureReceived
  THEN [next |-> IF s.state = "active" THEN Primed(s) ELSE s, gamestate |-> s.state = "active"]
  ELSE LET entered == IF s.state = "primed" THEN [s EXCEPT !.state = "active"] ELSE s IN
       [next |-> IF s.pure /\ ~s.pureAuthentic THEN [entered EXCEPT !.state = "zombie"] ELSE entered,
        gamestate |-> FALSE]

\* Wrong: a lost gamestate is not noticed.
ResendNever(m) == FALSE

\* "dropped gamestate, resending".
Resend(m) == m.later

\* What SV_ExecuteClientMessage makes of m, and whether it sends a gamestate.
Answer(s, m) ==
  LET beforeRestart == m.serverId >= s.restartedServerId /\ m.serverId < s.serverId
      executed == Executed([s EXCEPT !.oldServerTime = 0], m) IN
  IF m.serverId # s.serverId
  THEN IF ~beforeRestart /\ Resend(m)
       THEN [next |-> Primed(s), gamestate |-> TRUE]
       ELSE [next |-> s, gamestate |-> FALSE]
  ELSE IF executed.state # "zombie" /\ m.move
       THEN Moved(executed)
       ELSE [next |-> executed, gamestate |-> FALSE]

\* After a gamestate, nothing sent before is later than it.
Before(messages) == [i \in 1 .. Len(messages) |-> [messages[i] EXCEPT !.later = FALSE]]

SV_ExecuteClientMessage ==
  /\ toServer # <<>>
  /\ server.state # "zombie"
  /\ Len(toClient) < Capacity
  /\ LET answer == Answer(server, Head(toServer)) IN
     /\ server' = answer.next
     /\ IF answer.gamestate
        THEN /\ toServer' = Before(Tail(toServer))
             /\ toClient' = Append(Before(toClient), Message(answer.next, serverCommands, TRUE))
             /\ client' = [client EXCEPT !.later = FALSE]
        ELSE /\ toServer' = Tail(toServer)
             /\ UNCHANGED <<toClient, client>>
  /\ UNCHANGED <<serverCommands, clientCommands, lost, rushed>>

-----------------------------------------------------------------------------
(* The client.                                                             *)

NoSnapshot == [valid |-> FALSE, active |-> FALSE, checksumFeed |-> 0, time |-> 0,
               serverCommandNum |-> 0]

NewClient ==
  [state |-> "connected",
   checksumFeed |-> 0,
   serverId |-> 0,
   configstring |-> <<0, 0>>,
   serverCommandSequence |-> 0,
   lastExecutedServerCommand |-> 0,
   later |-> TRUE,              \* serverMessageSequence > the server's gamestateMessageNum
   snap |-> NoSnapshot,
   newSnapshots |-> FALSE,
   oldFrameServerTime |-> 0]

\* CL_WritePacket.
Packet(c, commands) ==
  [serverId |-> c.serverId,
   later |-> c.later,
   reliableSequence |-> Len(commands),
   move |-> c.state \in {"primed", "active"},
   checksumFeed |-> c.checksumFeed]

CL_WritePacket ==
  /\ client.state \in {"connected", "primed", "active"}
  /\ Len(toServer) < Capacity
  /\ toServer' = Append(toServer, Packet(client, clientCommands))
  /\ UNCHANGED <<server, client, serverCommands, clientCommands, toClient, lost, rushed>>

\* Wrong: the feed of the last map is kept.
GamestateKeepingFeed(c, m) ==
  [c EXCEPT !.state = "loading", !.serverId = m.systeminfo, !.configstring = m.configstring,
            !.serverCommandSequence = m.reliableSequence,
            !.snap = NoSnapshot, !.newSnapshots = FALSE, !.oldFrameServerTime = 0]

\* CL_ParseGamestate, up to the loading.
ParsedGamestate(c, m) ==
  [c EXCEPT !.state = "loading", !.checksumFeed = m.checksumFeed,
            !.serverId = m.systeminfo, !.configstring = m.configstring,
            !.serverCommandSequence = m.reliableSequence,
            !.snap = NoSnapshot, !.newSnapshots = FALSE, !.oldFrameServerTime = 0]

ParsedSnapshot(c, m) ==
  [c EXCEPT !.snap = [valid |-> TRUE, active |-> m.active, checksumFeed |-> m.checksumFeed,
                      time |-> m.time, serverCommandNum |-> c.serverCommandSequence],
            !.newSnapshots = TRUE]

\* CL_ParseServerMessage, in any state: before a gamestate the client is told of
\* what goes on in a map it does not have, and CL_DownloadsComplete looks for
\* messages once more before it loads ("this may change gamestate!").
CL_ParseServerMessage ==
  /\ toClient # <<>>
  /\ client.state # "dropped"
  /\ toClient' = Tail(toClient)
  /\ LET m == Head(toClient)
         c == [client EXCEPT !.later = m.later,
                             !.serverCommandSequence = m.reliableSequence] IN
     client' = IF m.gamestate THEN ParsedGamestate(c, m) ELSE ParsedSnapshot(c, m)
  /\ UNCHANGED <<server, serverCommands, clientCommands, toServer, lost, rushed>>

PureChecksums(c) == [kind |-> "cp", serverId |-> c.serverId, checksumFeed |-> c.checksumFeed]

\* The rest of CL_DownloadsComplete: the client game is started, the checksums and
\* a packet are sent.  (There are three packets, which say the same; here the
\* others are lost, and the first one is when there is no room for it.)
CL_DownloadsComplete ==
  /\ client.state = "loading"
  /\ LET primed == [client EXCEPT !.state = "primed"]
         commands == Append(clientCommands, PureChecksums(client)) IN
     /\ client' = primed
     /\ clientCommands' = commands
     /\ toServer' = IF Len(toServer) < Capacity
                    THEN Append(toServer, [Packet(primed, commands) EXCEPT !.move = FALSE])
                    ELSE toServer
  /\ UNCHANGED <<server, serverCommands, toClient, lost, rushed>>

VidRestarts == Cardinality({n \in 1 .. Len(clientCommands) : clientCommands[n].kind = "vdr"})

\* CL_Vid_Restart_f.
CL_Vid_Restart_f ==
  /\ client.state \in {"connected", "primed", "active"}
  /\ VidRestarts < MaxVidRestarts
  /\ LET vdr == Append(clientCommands, [kind |-> "vdr", serverId |-> 0, checksumFeed |-> 0]) IN
     IF client.state = "connected"
     THEN clientCommands' = vdr /\ UNCHANGED client
     ELSE /\ clientCommands' = Append(vdr, PureChecksums(client))
          /\ client' = [client EXCEPT !.state = "primed"]
  /\ UNCHANGED <<server, serverCommands, toServer, toClient, lost, rushed>>

\* CL_SetCGameTime: the first snapshot of the game makes the client active, and an
\* active client does not go back in time.
CL_SetCGameTime ==
  /\ client.state = "active" \/ (client.state = "primed" /\ client.newSnapshots)
  /\ LET c == [client EXCEPT !.newSnapshots = FALSE,
                             !.state = IF client.snap.active THEN "active" ELSE @] IN
     client' = IF c.state # "active" THEN c
               ELSE IF c.snap.time < c.oldFrameServerTime THEN [c EXCEPT !.state = "dropped"]
               ELSE [c EXCEPT !.oldFrameServerTime = c.snap.time]
  /\ UNCHANGED <<server, serverCommands, clientCommands, toServer, toClient, lost, rushed>>

\* CL_GetServerCommand, of the client game, which asks for one command after the
\* other from lastExecutedServerCommand on, as far as the snapshot it shows.
CL_GetServerCommand ==
  /\ client.state = "active"
  /\ client.lastExecutedServerCommand < client.snap.serverCommandNum
  /\ LET n == client.lastExecutedServerCommand + 1
         command == serverCommands[n] IN
     client' = [client EXCEPT
       !.lastExecutedServerCommand = n,
       !.configstring = IF command.kind = "cs" THEN command.value ELSE @,
       !.serverId = IF command.kind = "systeminfo" THEN command.value ELSE @]
  /\ UNCHANGED <<server, serverCommands, clientCommands, toServer, toClient, lost, rushed>>

-----------------------------------------------------------------------------
Lose ==
  /\ lost < MaxLost /\ lost' = lost + 1
  /\ \/ toServer # <<>> /\ toServer' = Tail(toServer) /\ UNCHANGED toClient
     \/ toClient # <<>> /\ toClient' = Tail(toClient) /\ UNCHANGED toServer
  /\ UNCHANGED <<server, client, serverCommands, clientCommands, rushed>>

Init ==
  /\ \E pure \in BOOLEAN : server = NewServer(pure)
  /\ client = NewClient
  /\ serverCommands = <<>> /\ clientCommands = <<>>
  /\ toServer = <<>> /\ toClient = <<>>
  /\ lost = 0 /\ rushed = FALSE

ClientNext ==
  \/ CL_WritePacket
  \/ CL_ParseServerMessage
  \/ CL_DownloadsComplete
  \/ CL_Vid_Restart_f
  \/ CL_SetCGameTime
  \/ CL_GetServerCommand

ServerNext ==
  \/ SV_SpawnServer
  \/ SV_MapRestart_f
  \/ SV_SetConfigstring
  \/ \E time \in 0 .. MaxTime, due \in BOOLEAN : SV_Frame(time, due)
  \/ SV_ExecuteClientMessage

Next == ClientNext \/ ServerNext \/ Lose

Spec == Init /\ [][Next]_vars

\* Both programs go round their frame loops, and messages that are not lost arrive.
Fairness ==
  /\ WF_vars(CL_WritePacket) /\ WF_vars(CL_ParseServerMessage)
  /\ WF_vars(CL_DownloadsComplete) /\ WF_vars(CL_SetCGameTime) /\ WF_vars(CL_GetServerCommand)
  /\ WF_vars(\E time \in 0 .. MaxTime : SV_Frame(time, TRUE))
  /\ SF_vars(SV_ExecuteClientMessage)

FairSpec == Spec /\ Fairness
-----------------------------------------------------------------------------
(* Properties.                                                             *)

\* The kinds of values the variables take.
TypeOK ==
  /\ server \in [state : {"zombie", "connected", "primed", "active"}, pure : BOOLEAN,
                 serverId : 1 .. MaxServerId, restartedServerId : 1 .. server.serverId,
                 checksumFeed : 1 .. server.serverId, systeminfo : 1 .. server.serverId,
                 configstring : (1 .. MaxServerId) \X (0 .. MaxChanges),
                 lastClientCommand : 0 .. Len(clientCommands),
                 pureReceived : BOOLEAN, pureAuthentic : BOOLEAN,
                 time : 0 .. MaxTime, oldServerTime : 0 .. MaxTime]
  /\ client.state \in {"connected", "loading", "primed", "active", "dropped"}
  /\ client.serverCommandSequence \in 0 .. Len(serverCommands)
  /\ client.lastExecutedServerCommand \in 0 .. client.serverCommandSequence
  /\ client.serverId \in 0 .. server.serverId /\ client.checksumFeed \in 0 .. server.checksumFeed
  /\ Len(toServer) <= Capacity /\ Len(toClient) <= Capacity
  /\ lost \in 0 .. MaxLost /\ rushed \in BOOLEAN

\* A message that says it is of the server's current serverId, so that the server
\* takes its commands and moves, comes from a client that has the gamestate of
\* the current map: otherwise the client would never be sent it.
CurrentIdIsCurrentMap ==
  \A i \in 1 .. Len(toServer) :
    toServer[i].serverId = server.serverId => toServer[i].checksumFeed = server.checksumFeed

\* The same, until a map is restarted under a client that has not its gamestate.
CurrentIdUntilRushed == ~rushed => CurrentIdIsCurrentMap

\* A client in the game shows no snapshot of the game of another map, whose
\* entities were written against other baselines.
SnapshotsOfOwnMap ==
  client.snap.active => client.snap.checksumFeed = client.checksumFeed

\* A client that has the right files passes the pure check, whatever old "cp"
\* commands arrive after a change of map, until a map is restarted under a client
\* that has not its gamestate.
NeverUnpure == ~rushed => server.state # "zombie"

ExecutedAll ==
  /\ client.checksumFeed = server.checksumFeed
  /\ client.lastExecutedServerCommand = Len(serverCommands)
  /\ \A i \in 1 .. Len(toClient) : ~toClient[i].gamestate

\* A client that has the gamestate and has executed all there is has the server's
\* value of a configstring.  It can only have another if that one came with the
\* gamestate and never in a command, and only one of another map.
ConfigstringsFollow ==
  ExecutedAll =>
    \/ client.configstring = server.configstring
    \/ /\ client.configstring[1] # server.checksumFeed
       /\ ~\E n \in 1 .. Len(serverCommands) :
            serverCommands[n].kind = "cs" /\ serverCommands[n].value = server.configstring

\* A client never mixes two maps, neither in what it shows nor in the values it
\* has been told, until a map is restarted under it when it has not its gamestate;
\* its state is of its types.
OneMap == TypeOK /\ (~rushed => SnapshotsOfOwnMap /\ ConfigstringsFollow)

\* "continue to send it a time as if the server has not restarted"
\* (sv_snapshot.cpp:151): no client is dropped because its time went backwards.
TimeNeverGoesBack == client.state # "dropped"

InTheGame ==
  /\ server.state = "active" /\ client.state = "active"
  /\ client.checksumFeed = server.checksumFeed /\ client.serverId = server.serverId

\* When the map changes no more, the client ends up in its game, whatever
\* messages were lost, unless its time went backwards or a map was restarted when
\* the client had not its gamestate.
ClientGetsIntoGame == <>[](InTheGame \/ client.state = "dropped" \/ rushed)
===========================================================================
