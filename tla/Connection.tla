---------------------------- MODULE Connection ----------------------------
(***************************************************************************)
(* How a client gets a slot on a server, and how both lose each other      *)
(* (sv_client.cpp, sv_main.cpp, sv_init.cpp; cl_main.cpp).                 *)
(*                                                                         *)
(* A client asks for a challenge, repeats a connect with it until the      *)
(* server answers, and then sends game messages encoded with it.  The      *)
(* clients sit behind one address translator: the server sees one base     *)
(* address, tells the clients apart by the qport in their packets, and     *)
(* the translator may give a client another port.  Either side may vanish, *)
(* be restarted, or end the connection; datagrams are lost, repeated and   *)
(* reordered for as long as they live.  Time is counted in ticks, by the   *)
(* age of what the code keeps the time of, up to where it matters.         *)
(*                                                                         *)
(* What the game messages say is left out but for the gamestate, the       *)
(* disconnect commands and the serverId; their order is that of Netchan.   *)
(***************************************************************************)
EXTENDS Integers, FiniteSets, FiniteSetsExt, Functions

CONSTANTS Clients,            \* the clients, each with its qport; also their ports
          NoClient,           \* neither
          sv_maxclients,      \* slots of the server
          MAX_CHALLENGES,     \* entries of the challenge table
          RETRANSMIT_TIMEOUT, \* ticks between two tries of a client
          sv_reconnectlimit,  \* ticks before a slot accepts another connect
          SPOOF_LIMIT,        \* ticks of silence before a disconnect packet counts
          sv_zombietime,      \* ticks a dropped client keeps its slot
          sv_timeout,         \* ticks of silence before the server drops a client
          cl_timeout,         \* ticks of silence before a client gives up
          TIMEOUT_FRAMES,     \* frames in a row that have to see a timeout
          Life,               \* ticks a datagram lives
          MaxChallenge,       \* bound: challenges made
          MaxStarts,          \* bound: connects of one user and restarts of the server
          MaxRemaps,          \* bound: changes of the translator
          ServerCapacity,     \* bound: datagrams on their way to the server
          ClientCapacity      \* bound: datagrams on their way to the clients

ASSUME ConnectionAssumption ==
  /\ Clients # {} /\ NoClient \notin Clients
  /\ \A n \in {sv_maxclients, MAX_CHALLENGES, RETRANSMIT_TIMEOUT, SPOOF_LIMIT,
             ServerCapacity, ClientCapacity} :
       n \in Nat \ {0}
  /\ {sv_reconnectlimit, sv_zombietime, sv_timeout, cl_timeout, TIMEOUT_FRAMES, Life} \subseteq Nat
  /\ {MaxChallenge, MaxStarts, MaxRemaps} \subseteq Nat
  /\ SPOOF_LIMIT <= cl_timeout + 1

VARIABLES
  client,    \* clc and cls of every client
  server,    \* svs: the slots, the challenge table, and what the game was told
  port,      \* the port the translator gives each client
  toServer,  \* datagrams on their way to the server
  toClients, \* datagrams on their way to the ports
  remaps     \* changes of the translator so far

vars == <<client, server, port, toServer, toClients, remaps>>

Slots == 1 .. sv_maxclients
Entries == 1 .. MAX_CHALLENGES

Lesser(a, b) == IF a < b THEN a ELSE b
Greater(a, b) == IF a < b THEN b ELSE a

SlotPatience == Greater(sv_timeout, sv_zombietime) + 1

\* Datagrams sent; with the network full, they are lost.
Sent(net, new, capacity) == IF Cardinality(net \cup new) <= capacity THEN net \cup new ELSE net
SentToServer(new) == toServer' = Sent(toServer, new, ServerCapacity)
SentToClients(new) == toClients' = Sent(toClients, new, ClientCapacity)

-----------------------------------------------------------------------------
(* Datagrams.                                                              *)

GetChallenge(p) == [kind |-> "getchallenge", port |-> p, age |-> 0]
ConnectPacket(p, c, cl) ==
  [kind |-> "connect", port |-> p, qport |-> c, challenge |-> cl.challenge, age |-> 0]
ClientMessage(p, c, cl, command) ==
  [kind |-> "message", port |-> p, qport |-> c, key |-> cl.challenge,
   serverId |-> cl.serverId, command |-> command, age |-> 0]

ChallengeResponse(p, challenge) ==
  [kind |-> "challengeResponse", port |-> p, challenge |-> challenge, age |-> 0]
ServerMessage(s, i, command) ==
  [kind |-> "message", port |-> s.slot[i].port, key |-> s.slot[i].challenge,
   serverId |-> s.instance, command |-> command, age |-> 0]
Notice(p, kind) == [kind |-> kind, port |-> p, age |-> 0]  \* connectResponse, print, disconnect

-----------------------------------------------------------------------------
(* The server.                                                             *)

NoChallenge == [port |-> NoClient, value |-> 0, connected |-> FALSE]
FreeSlot == [state |-> "free", port |-> NoClient, qport |-> NoClient, challenge |-> 0,
             connectAge |-> 0, packetAge |-> 0, timeoutCount |-> 0]

NewServer(instance, lastChallenge) ==
  [slot |-> [i \in Slots |-> FreeSlot],
   table |-> [k \in Entries |-> NoChallenge],
   playing |-> {},                  \* slots the game holds for connected
   deniedAgain |-> {},              \* history: slots a reconnect was refused for
   instance |-> instance,           \* serverId
   lastChallenge |-> lastChallenge] \* challenges are random; here, new numbers

MayStart(c) == client[c].attempts + server.instance <= MaxStarts

Used(s) == {i \in Slots : s.slot[i].state # "free"}
Connected(s) == {i \in Slots : s.slot[i].state \in {"connected", "primed", "active"}}

\* The first entry of a slot's address.
FirstEntry(s, i) == Min({k \in Entries : s.table[k].port = s.slot[i].port})
Listed(s, i) == \E k \in Entries : s.table[k].port = s.slot[i].port

\* SV_DropClient, of some of the connected slots.
Dropped(s, D) ==
  LET cleared == {FirstEntry(s, i) : i \in {j \in D : Listed(s, j)}}
  IN  [s EXCEPT !.slot = [i \in Slots |-> [s.slot[i] EXCEPT !.state = IF i \in D THEN "zombie" ELSE @]],
                !.playing = @ \ D,
                !.table = [k \in Entries |-> [s.table[k] EXCEPT !.connected = @ /\ k \notin cleared]]]

\* SV_GetChallenge: the entry of a port, or the oldest one, filled anew.
Entry(s, p) ==
  LET mine == {k \in Entries : s.table[k].port = p /\ ~s.table[k].connected}
      age(k) == s.table[k].value
      oldest == {k \in Entries : \A l \in Entries : age(k) <= age(l)}
  IN  IF mine # {} THEN Min(mine) ELSE Min(oldest)

Challenged(s, p) ==
  LET k == Entry(s, p)
  IN  IF s.table[k].port = p /\ ~s.table[k].connected THEN s
      ELSE [s EXCEPT !.lastChallenge = @ + 1,
                     !.table[k] = [port |-> p, value |-> s.lastChallenge + 1, connected |-> FALSE]]

\* A client of the local network is answered at once, or one the authorize
\* server has been silent about for long; else that server is asked.
SV_GetChallenge(d, atOnce) ==
  LET s == Challenged(server, d.port)
  IN  /\ s.lastChallenge <= MaxChallenge
      /\ server' = s
      /\ SentToClients(IF ~atOnce THEN {}
                       ELSE {ChallengeResponse(d.port, s.table[Entry(server, d.port)].value)})

\* SV_AuthorizeIpPacket: the answer, whose record is cleared if it is no.
SV_AuthorizeIpPacket(k, accepted) ==
  /\ server.table[k].value # 0
  /\ SentToClients({IF accepted
                                   THEN ChallengeResponse(server.table[k].port, server.table[k].value)
                                   ELSE Notice(server.table[k].port, "print")})
  /\ server' = IF accepted THEN server ELSE [server EXCEPT !.table[k] = NoChallenge]
  /\ UNCHANGED <<client, port, toServer, remaps>>

\* Wrong: the slot of any client behind the address is taken for this client's.
MatchingBase(s, d) == Used(s)

\* Wrong: a dropped client is not known any more.
MatchingConnected(s, d) ==
  {i \in Connected(s) : s.slot[i].qport = d.qport \/ s.slot[i].port = d.port}

\* The slots that are taken for this client's own.
Matching(s, d) == {i \in Used(s) : s.slot[i].qport = d.qport \/ s.slot[i].port = d.port}

Known(s, d) == {k \in Entries : s.table[k].port = d.port /\ s.table[k].value = d.challenge}

TooSoon(s, d) ==
  Matching(s, d) # {} /\ s.slot[Min(Matching(s, d))].connectAge < sv_reconnectlimit

NewSlot(d) ==
  [state |-> "connected", port |-> d.port, qport |-> d.qport, challenge |-> d.challenge,
   connectAge |-> 0, packetAge |-> 0, timeoutCount |-> 0]

\* Wrong: a client that reconnects keeps the challenge of before.
SlotKeepingChallenge(s, i, d, denied) ==
  [s EXCEPT !.slot[i] = IF denied THEN FreeSlot
                        ELSE [NewSlot(d) EXCEPT
                                !.challenge = IF i \in Used(s) THEN s.slot[i].challenge ELSE @],
            !.playing = IF denied THEN @ ELSE @ \cup {i},
            !.deniedAgain = IF denied THEN @ \cup (s.playing \cap {i}) ELSE @ \ {i}]

\* From gotnewcl on: the game is asked, and a denied slot is left free.  The
\* game is not told that the client before has left it.
SlotFilled(s, i, d, denied) ==
  [s EXCEPT !.slot[i] = IF denied THEN FreeSlot ELSE NewSlot(d),
            !.playing = IF denied THEN @ ELSE @ \cup {i},
            !.deniedAgain = IF denied THEN @ \cup (s.playing \cap {i}) ELSE @ \ {i}]

\* SV_DirectConnect, without the protocol version, passwords and pings.
SV_DirectConnect(d, denied) ==
  LET known == [server EXCEPT !.table = [k \in Entries |->
                  [server.table[k] EXCEPT !.connected = @ \/ k \in Known(server, d)]]]
      own == Matching(server, d)
      i == IF own # {} THEN Min(own) ELSE Min(Slots \ Used(server))
  IN  IF TooSoon(server, d) THEN UNCHANGED <<server, toClients>>
      ELSE IF Known(server, d) = {}
      THEN /\ SentToClients({Notice(d.port, "print")})
           /\ UNCHANGED server
      ELSE IF own = {} /\ Used(server) = Slots
      THEN /\ SentToClients({Notice(d.port, "print")})
           /\ server' = known
      ELSE /\ server' = SlotFilled(known, i, d, denied)
           /\ SentToClients({Notice(d.port, IF denied THEN "print"
                                                           ELSE "connectResponse")})

\* SV_ExecuteClientMessage, after the slot has noted that it heard of its client.
\* A message that is not of this map is answered by the gamestate, unread: always
\* in a new slot, else if it acknowledges a later message.  Read with the wrong key, or by a slot that has begun anew and misses commands, a message
\* may get the client dropped, or be nothing.
SV_ExecuteClientMessage(s, i, d) ==
  LET slot == s.slot[i]
  IN  IF d.serverId # s.instance
      THEN \/ /\ server' = [s EXCEPT !.slot[i].state = "primed"]
              /\ SentToClients({ServerMessage(s, i, "gamestate")})
           \/ /\ slot.state # "connected"
              /\ server' = s
              /\ UNCHANGED toClients
      ELSE /\ \/ /\ d.key # slot.challenge \/ slot.state = "connected"
                 /\ server' \in {s, Dropped(s, {i})}
              \/ /\ d.key = slot.challenge
                 /\ d.command = "disconnect"
                 /\ server' = Dropped(s, {i})
              \/ /\ d.key = slot.challenge
                 /\ d.command = "move"
                 /\ server' = [s EXCEPT !.slot[i].state = IF @ = "primed" THEN "active" ELSE @]
           /\ UNCHANGED toClients

\* SV_PacketEvent: the port is brought up to date, whatever the packet holds.
Heard(s, i, d) ==
  [s EXCEPT !.slot[i].port = d.port,
            !.slot[i].packetAge = IF s.slot[i].state = "zombie" THEN @ ELSE 0]

SV_SequencedPacket(d) ==
  LET own == {i \in Used(server) : server.slot[i].qport = d.qport}
      i == Min(own)
  IN  IF own = {}
      THEN /\ SentToClients({Notice(d.port, "disconnect")})
           /\ UNCHANGED server
      ELSE IF server.slot[i].state = "zombie"
      THEN /\ server' = Heard(server, i, d)
           /\ UNCHANGED toClients
      ELSE SV_ExecuteClientMessage(Heard(server, i, d), i, d)

\* SV_PacketEvent and SV_ConnectionlessPacket, of a datagram that may come again.
SV_PacketEvent(d) ==
  /\ toServer' \in {toServer, toServer \ {d}}
  /\ \/ d.kind = "getchallenge" /\ \E atOnce \in BOOLEAN : SV_GetChallenge(d, atOnce)
     \/ d.kind = "connect" /\ \E denied \in BOOLEAN : SV_DirectConnect(d, denied)
     \/ d.kind = "message" /\ SV_SequencedPacket(d)
  /\ UNCHANGED <<client, port, remaps>>

\* Wrong: only a client that is in the game times out.
OverdueActive(s, i) == s.slot[i].state = "active" /\ s.slot[i].packetAge > sv_timeout

Overdue(s, i) == i \in Connected(s) /\ s.slot[i].packetAge > sv_timeout

TimedOutSlots(s) ==
  {i \in Slots : Overdue(s, i) /\ s.slot[i].timeoutCount + 1 > TIMEOUT_FRAMES}

\* Wrong: a client that timed out is forgotten without telling the game.
CheckedTimeoutsSilently(s) ==
  LET zombies == {i \in Slots : s.slot[i].state = "zombie" /\ s.slot[i].packetAge > sv_zombietime}
  IN  [s EXCEPT !.slot = [i \in Slots |->
         IF i \in TimedOutSlots(s) \cup zombies THEN FreeSlot
         ELSE [s.slot[i] EXCEPT !.timeoutCount = IF Overdue(s, i) THEN @ + 1 ELSE 0]]]

\* SV_CheckTimeouts.
CheckedTimeouts(s) ==
  LET zombies == {i \in Slots : s.slot[i].state = "zombie" /\ s.slot[i].packetAge > sv_zombietime}
      t == Dropped(s, TimedOutSlots(s))
  IN  [t EXCEPT !.slot = [i \in Slots |->
         IF i \in TimedOutSlots(s) \cup zombies THEN FreeSlot
         ELSE [t.slot[i] EXCEPT !.timeoutCount = IF Overdue(s, i) THEN @ + 1 ELSE 0]]]

\* SV_Frame: the timeouts, then a message to every slot in use.  What a dropped
\* client is sent ends in its disconnect command.
SV_Frame ==
  LET s == CheckedTimeouts(server)
  IN  /\ server' = s
      /\ SentToClients({ServerMessage(s, i,
                          IF s.slot[i].state = "zombie" THEN "disconnect" ELSE "snapshot") : i \in Used(s)})
      /\ UNCHANGED <<client, port, toServer, remaps>>

\* SV_Kick_f ("in case there is a funny zombie", its slot is kept from now on),
\* and the other reasons of the server and the game to drop a client.
Kick(i) ==
  /\ i \in Connected(server)
  /\ server' \in {Dropped(server, {i}), [Dropped(server, {i}) EXCEPT !.slot[i].packetAge = 0]}
  /\ UNCHANGED <<client, port, toServer, toClients, remaps>>

\* SV_Shutdown, with the words of SV_FinalMessage, or a crash without them; then
\* the server is started again.
Restart(announced) ==
  /\ \A c \in Clients : MayStart(c)
  /\ server' = NewServer(server.instance + 1, server.lastChallenge)
  /\ SentToClients(IF ~announced THEN {}
                   ELSE {ServerMessage(server, i, "disconnect") : i \in Connected(server)})
  /\ UNCHANGED <<client, port, toServer, remaps>>

-----------------------------------------------------------------------------
(* The client.                                                             *)

\* What CL_Disconnect leaves: clc and cl are wiped.
NewClient(cl) ==
  [state |-> "disconnected", challenge |-> 0, serverId |-> 0,
   connectAge |-> RETRANSMIT_TIMEOUT, packetAge |-> cl_timeout + 1, timeoutCount |-> 0,
   attempts |-> cl.attempts,
   hasty |-> cl.hasty]  \* history: connected while packets of before were on their way

NeverConnected == NewClient([attempts |-> 0, hasty |-> FALSE])

\* The last words of CL_Disconnect, three times.
LastWords(c) ==
  IF client[c].state = "connected" THEN {ClientMessage(port[c], c, client[c], "disconnect")} ELSE {}

\* CL_Connect_f, after CL_Disconnect.
Connect(c) ==
  LET before == LastWords(c) \cup {d \in toServer \cup toClients : d.port = port[c]}
  IN  /\ MayStart(c)
      /\ client' = [client EXCEPT ![c] = [NewClient(client[c]) EXCEPT
                     !.state = "connecting", !.attempts = @ + 1, !.hasty = @ \/ before # {}]]
      /\ SentToServer(LastWords(c))
      /\ UNCHANGED <<server, port, toClients, remaps>>

\* CL_Disconnect, because the user wants to or after an error.
Disconnect(c) ==
  /\ client[c].state # "disconnected"
  /\ client' = [client EXCEPT ![c] = NewClient(@)]
  /\ SentToServer(LastWords(c))
  /\ UNCHANGED <<server, port, toClients, remaps>>

\* The process ends without a word.  Started again, it has another qport: it is
\* another client, and this one connects no more.
Crash(c) ==
  /\ client[c].state # "disconnected"
  /\ client' = [client EXCEPT ![c] = [NeverConnected EXCEPT !.attempts = MaxStarts]]
  /\ UNCHANGED <<server, port, toServer, toClients, remaps>>

\* Wrong: only a client in the game times out.
TimedOutInGame(cl) == cl.serverId # 0 /\ cl.packetAge > cl_timeout

\* CL_CheckTimeout.
TimedOut(cl) == cl.state = "connected" /\ cl.packetAge > cl_timeout

\* Wrong: a client goes on connecting when it is connected.
ResendsConnected(cl) == cl.connectAge >= RETRANSMIT_TIMEOUT

\* CL_CheckForResend.
Resends(cl) == cl.state \in {"connecting", "challenging"} /\ cl.connectAge >= RETRANSMIT_TIMEOUT

\* CL_Frame: CL_CheckTimeout, CL_SendCmd, CL_CheckForResend.
CL_Frame(c) ==
  LET cl == client[c]
      leaves == TimedOut(cl) /\ cl.timeoutCount + 1 > TIMEOUT_FRAMES
  IN  /\ cl.state # "disconnected"
      /\ client' = [client EXCEPT ![c] =
           IF leaves THEN NewClient(cl)
           ELSE [cl EXCEPT !.timeoutCount = IF TimedOut(cl) THEN @ + 1 ELSE 0,
                           !.connectAge = IF Resends(cl) THEN 0 ELSE @]]
      /\ SentToServer(
           IF leaves THEN LastWords(c)
           ELSE IF Resends(cl)
           THEN {IF cl.state = "connecting" THEN GetChallenge(port[c])
                 ELSE ConnectPacket(port[c], c, cl)}
           ELSE IF cl.state = "connected" THEN {ClientMessage(port[c], c, cl, "move")}
           ELSE {})
      /\ UNCHANGED <<server, port, toClients, remaps>>

\* The client has noted the time of the packet before it looks at it.
SpoofLimitPassed(cl) == cl.packetAge >= SPOOF_LIMIT

\* CL_DisconnectPacket.
DisconnectPacket(c, cl) ==
  IF cl.state = "connected" /\ SpoofLimitPassed(cl)
  THEN /\ client' = [client EXCEPT ![c] = NewClient(cl)]
       /\ SentToServer({ClientMessage(port[c], c, cl, "disconnect")})
  ELSE /\ client' = [client EXCEPT ![c] = cl]
       /\ UNCHANGED toServer

\* CL_ParseServerMessage.  A disconnect command is executed by the client game,
\* which runs once there is a gamestate.  With the wrong key the message is
\* nonsense, which is an error or nothing.
ServerMessageParsed(c, cl, d) ==
  LET leaves == /\ client' = [client EXCEPT ![c] = NewClient(cl)]
                /\ SentToServer({ClientMessage(port[c], c, cl, "disconnect")})
      stays(new) == client' = [client EXCEPT ![c] = new] /\ UNCHANGED toServer
  IN  IF cl.state # "connected" THEN stays(cl)
      ELSE IF d.key # cl.challenge THEN stays(cl) \/ leaves
      ELSE IF d.command = "gamestate" THEN stays([cl EXCEPT !.serverId = d.serverId])
      ELSE IF d.command = "disconnect" /\ cl.serverId # 0 THEN leaves
      ELSE stays(cl)

\* CL_PacketEvent and CL_ConnectionlessPacket.
CL_PacketEvent(d) ==
  LET c == CHOOSE x \in Clients : port[x] = d.port
      cl == [client[c] EXCEPT !.packetAge = 0]
      becomes(new) == client' = [client EXCEPT ![c] = new] /\ UNCHANGED toServer
  IN  /\ toClients' \in {toClients, toClients \ {d}}
      /\ IF cl.state = "disconnected" THEN becomes(client[c])
         ELSE CASE d.kind = "challengeResponse" ->
                     becomes(IF cl.state # "connecting" THEN cl
                             ELSE [cl EXCEPT !.state = "challenging", !.challenge = d.challenge,
                                             !.connectAge = RETRANSMIT_TIMEOUT])
                [] d.kind = "connectResponse" ->
                     becomes(IF cl.state # "challenging" THEN cl
                             ELSE [cl EXCEPT !.state = "connected"])
                [] d.kind = "disconnect" -> DisconnectPacket(c, cl)
                [] d.kind = "message" -> ServerMessageParsed(c, cl, d)
                [] d.kind = "print" -> becomes(cl)
      /\ UNCHANGED <<server, port, remaps>>

-----------------------------------------------------------------------------
(* The network and time.  A datagram is lost if nobody takes it while it   *)
(* lives.                                                                  *)

\* The translator gives a connected client another port, which nobody uses, while
\* it is quiet; who had that port will get this one's.
NatRemap(c, d) ==
  /\ c # d /\ remaps < MaxRemaps
  /\ client[c].state = "connected" /\ client[d].state = "disconnected"
  /\ toServer = {} /\ toClients = {}
  /\ port' = [port EXCEPT ![c] = port[d], ![d] = port[c]]
  /\ remaps' = remaps + 1
  /\ UNCHANGED <<client, server, toServer, toClients>>

Older(net) == {[d EXCEPT !.age = @ + 1] : d \in {x \in net : x.age < Life}}

Tick ==
  /\ client' = [c \in Clients |-> [client[c] EXCEPT
       !.connectAge = Lesser(@ + 1, RETRANSMIT_TIMEOUT),
       !.packetAge = Lesser(@ + 1, cl_timeout + 1)]]
  /\ server' = [server EXCEPT !.slot = [i \in Slots |->
       IF server.slot[i].state = "free" THEN FreeSlot
       ELSE [server.slot[i] EXCEPT !.connectAge = Lesser(@ + 1, sv_reconnectlimit),
                                   !.packetAge = Lesser(@ + 1, SlotPatience)]]]
  /\ toServer' = Older(toServer)
  /\ toClients' = Older(toClients)
  /\ UNCHANGED <<port, remaps>>

Init ==
  /\ client = [c \in Clients |-> NeverConnected]
  /\ server = NewServer(1, 0)
  /\ port = [c \in Clients |-> c]
  /\ toServer = {} /\ toClients = {}
  /\ remaps = 0

Next ==
  \/ \E c \in Clients : Connect(c) \/ Disconnect(c) \/ Crash(c) \/ CL_Frame(c)
  \/ \E d \in toServer : SV_PacketEvent(d)
  \/ \E d \in toClients : CL_PacketEvent(d)
  \/ \E k \in Entries, accepted \in BOOLEAN : SV_AuthorizeIpPacket(k, accepted)
  \/ SV_Frame
  \/ \E i \in Slots : Kick(i)
  \/ \E announced \in BOOLEAN : Restart(announced)
  \/ \E c, d \in Clients : NatRemap(c, d)
  \/ Tick

Spec == Init /\ [][Next]_vars

\* The main loops run and time passes.  Nothing is assumed of the network.
Fairness ==
  /\ WF_vars(Tick)
  /\ WF_vars(SV_Frame)
  /\ \A c \in Clients : WF_vars(CL_Frame(c))

FairSpec == Spec /\ Fairness

-----------------------------------------------------------------------------
(* What the connection promises.                                           *)

SlotStates == {"free", "zombie", "connected", "primed", "active"}
ClientStates == {"disconnected", "connecting", "challenging", "connected"}

\* The states, ages within the times they are compared with, and the ports a
\* permutation of the clients.
TypeOK ==
  /\ \A c \in Clients :
       /\ client[c].state \in ClientStates
       /\ client[c].connectAge \in 0 .. RETRANSMIT_TIMEOUT
       /\ client[c].packetAge \in 0 .. cl_timeout + 1
       /\ client[c].timeoutCount \in 0 .. TIMEOUT_FRAMES
       /\ client[c].challenge \in 0 .. MaxChallenge
       /\ client[c].serverId \in 0 .. server.instance
       /\ client[c].attempts \in 0 .. MaxStarts /\ client[c].hasty \in BOOLEAN
  /\ \A i \in Slots :
       /\ server.slot[i].state \in SlotStates
       /\ server.slot[i].connectAge \in 0 .. sv_reconnectlimit
       /\ server.slot[i].packetAge \in 0 .. SlotPatience
       /\ server.slot[i].timeoutCount \in 0 .. TIMEOUT_FRAMES
       /\ i \in Used(server) => server.slot[i].qport \in Clients /\ server.slot[i].port \in Clients
  /\ server.instance \in 1 .. MaxStarts + 1
  /\ server.lastChallenge \in 0 .. MaxChallenge
  /\ \A k \in Entries : server.table[k].value \in 0 .. server.lastChallenge
  /\ server.playing \cup server.deniedAgain \subseteq Slots
  /\ port \in Bijection(Clients, Clients)
  /\ Cardinality(toServer) <= ServerCapacity /\ Cardinality(toClients) <= ClientCapacity

\* A client has one slot: a connect that is repeated, late, or made anew after a
\* crash never takes a second one, and every packet of the client is for the
\* slot that is answered.  Only a port that now belongs to another client's
\* packets can give a client another one's slot beside its own.
OneSlot ==
  remaps = 0 => \A i, j \in Used(server) : server.slot[i].qport = server.slot[j].qport => i = j

\* Both ends agree on the challenge that keys the messages, whatever attempts
\* came before: the slot of a connected client has its challenge.  It holds of
\* users who let the packets of one attempt die before they make another.
SameChallenge ==
  remaps = 0 =>
    \A c \in Clients, i \in Connected(server) :
      /\ client[c].state = "connected" /\ ~client[c].hasty
      /\ server.slot[i].qport = c
      => server.slot[i].challenge = client[c].challenge

\* The two ends of a connection fit: types, ages within what they are compared
\* with, and one challenge.
EndsAgree == TypeOK /\ SameChallenge

\* A slot is not begun anew under such a client that is already in its game:
\* sequence numbers and commands would begin again on one side only, and as the
\* serverId is right, the server would not send the gamestate.
NotBegunAnew ==
  remaps = 0 =>
    \A c \in Clients, i \in Connected(server) :
      /\ client[c].state = "connected" /\ client[c].serverId = server.instance
      /\ ~client[c].hasty
      /\ server.slot[i].qport = c
      => server.slot[i].state # "connected"

\* The game is told of every client that connects and of every one that goes,
\* in all the ways a slot is given up; but not of one whose reconnect it
\* refuses, which stays in the game without a slot (the call that would tell it
\* is commented out in SV_DirectConnect).
GameKnows == server.playing \ server.deniedAgain = Connected(server)

\* A newcomer that has a port another client's packets came from.
PortInherited(old, new) == remaps > 0 /\ new.port = old.port

\* The slot of a client passes to another one only through being free.  Who is
\* put out of it by a newcomer, after a change of ports, is the client that was
\* last heard of from the very port the newcomer connects from.
NotPutOut ==
  [][\A i \in Used(server) :
       \/ server'.slot[i].state = "free"
       \/ server'.slot[i].qport = server.slot[i].qport
       \/ PortInherited(server.slot[i], server'.slot[i])]_vars

\* The slot of a client that is gone is free in the end, and stays so, in
\* whatever state the client left it and whatever of its packets come late.
SlotsReturn ==
  \A c \in Clients :
    <>[](client[c].state = "disconnected") =>
    <>[](\A i \in Slots : server.slot[i].qport # c)

\* A dropped client keeps its slot only for a time, even if it does not notice
\* and goes on sending.
ZombiesLeave ==
  \A i \in Slots : server.slot[i].state = "zombie" ~> server.slot[i].state # "zombie"

\* No slot is lost, neither to a client that has gone nor to one that was dropped
\* and does not notice.
SlotsComeFree == SlotsReturn /\ ZombiesLeave

\* A client does not stay connected to silence.
SilenceEnds ==
  \A c \in Clients : []<>(client[c].state # "connected" \/ client[c].packetAge = 0)

\* A client the server has no slot for, and which runs and gets answers, leaves
\* (CL_DisconnectPacket: "so it doesn't have to wait for the full timeout
\* period").
ForgottenClientLeaves ==
  \A c \in Clients :
    LET forgotten == client[c].state = "connected" /\ \A i \in Slots : server.slot[i].qport # c
    IN  forgotten ~> ~forgotten
=============================================================================
