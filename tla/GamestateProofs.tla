-------------------------- MODULE GamestateProofs --------------------------
(***************************************************************************)
(* Proofs about Gamestate.  For every number of changes, restarts and      *)
(* losses and every capacity of the network, until a map is restarted      *)
(* under a client that has not got its gamestate (rushed; what goes wrong  *)
(* then is a finding):                                                     *)
(*   - NeverUnpure: no old "cp" command fails the pure check;              *)
(*   - CurrentIdIsCurrentMap: what bears the current serverId comes from   *)
(*     a client with the gamestate of the current map;                     *)
(*   - OneMap: the client mixes no two maps, in what it shows or in what   *)
(*     it was told.                                                        *)
(* All of them rest on one argument.  A serverId that is not below the     *)
(* checksumFeed of the server belongs to the map the server has now        *)
(* (Current), wherever it is found: in the client, in a packet, in a "cp"  *)
(* command or in a gamestate on its way.  A change of map keeps that since *)
(* its serverId is above all there were; a restart keeps it since the      *)
(* client has the map by then, and cannot get an older one, because maps   *)
(* arrive in the order they were sent.                                     *)
(***************************************************************************)
EXTENDS Gamestate, SequenceTheorems, WellFoundedInduction, TLAPS

-----------------------------------------------------------------------------
(* The inductive invariant.                                                *)

Servers ==
  [state : {"connected", "primed", "active"}, pure : BOOLEAN,
   serverId : Nat, restartedServerId : Nat, checksumFeed : Nat, systeminfo : Nat,
   configstring : Nat \X Nat, lastClientCommand : Nat,
   pureReceived : BOOLEAN, pureAuthentic : BOOLEAN, time : Nat, oldServerTime : Nat]

ShownSnapshots ==
  [valid : BOOLEAN, active : BOOLEAN, checksumFeed : Nat, time : Nat, serverCommandNum : Nat]

Clients ==
  [state : {"connected", "loading", "primed", "active", "dropped"},
   checksumFeed : Nat, serverId : Nat, configstring : Nat \X Nat,
   serverCommandSequence : Nat, lastExecutedServerCommand : Nat, later : BOOLEAN,
   snap : ShownSnapshots, newSnapshots : BOOLEAN, oldFrameServerTime : Nat]

StringCommands == [kind : {"cs"}, value : Nat \X Nat]
IdCommands == [kind : {"systeminfo", "map_restart"}, value : Nat]
ClientCommands == [kind : {"cp", "vdr"}, serverId : Nat, checksumFeed : Nat]

Packets ==
  [serverId : Nat, later : BOOLEAN, reliableSequence : Nat, move : BOOLEAN, checksumFeed : Nat]
Messages ==
  [gamestate : BOOLEAN, later : BOOLEAN, reliableSequence : Nat, checksumFeed : Nat,
   systeminfo : Nat, configstring : Nat \X Nat, active : BOOLEAN, time : Nat]

\* A serverId that is not of an earlier map than the server's was told with the
\* feed of the server's map.
Current(s, id, feed) == id <= s.serverId /\ (id >= s.checksumFeed => feed = s.checksumFeed)

\* The server, with n commands of the client made so far.
ServerOK(s, n) ==
  /\ s \in Servers
  /\ 1 <= s.checksumFeed /\ s.checksumFeed <= s.systeminfo /\ s.systeminfo <= s.serverId
  /\ s.serverId <= MaxServerId /\ s.restartedServerId = s.checksumFeed
  /\ s.configstring[1] = s.checksumFeed /\ s.configstring[2] <= MaxChanges
  /\ s.time <= MaxTime /\ s.oldServerTime <= MaxTime
  /\ s.lastClientCommand <= n
  /\ s.pureReceived => s.pureAuthentic

\* The client, with n commands of the server made so far.  Its map is the server's
\* once it is in the game or was restarted there, and an earlier one as long as no
\* gamestate was sent.
ClientOK(c, s, n) ==
  /\ c \in Clients
  /\ c.checksumFeed <= s.checksumFeed /\ Current(s, c.serverId, c.checksumFeed)
  /\ c.lastExecutedServerCommand <= c.serverCommandSequence
  /\ c.snap.serverCommandNum <= c.serverCommandSequence
  /\ c.serverCommandSequence <= n
  /\ c.snap.active => c.snap.checksumFeed = c.checksumFeed
  /\ s.state = "connected" => c.checksumFeed < s.checksumFeed
  /\ s.state = "active" \/ s.serverId > s.checksumFeed => c.checksumFeed = s.checksumFeed

\* Command n sets the configstring, in the server's map.
SetsIn(s, commands, n) == commands[n].kind = "cs" /\ commands[n].value[1] = s.checksumFeed

\* The value is the server's, or a command after the n-th will set another one.
Follows(value, n, s, commands) ==
  \/ value = s.configstring
  \/ \E k \in 1 .. Len(commands) : n < k /\ SetsIn(s, commands, k)

\* Command n of the server.
CommandOK(n, s, c, commands) ==
  /\ commands[n].kind = "systeminfo" => Current(s, commands[n].value, c.checksumFeed)
  /\ commands[n].kind = "cs" => commands[n].value[1] <= s.checksumFeed
  /\ SetsIn(s, commands, n) =>
       /\ s.state # "connected"
       /\ Follows(commands[n].value, n, s, commands)
       /\ \A k \in 1 .. Len(commands) : n < k /\ commands[k].kind = "cs" => SetsIn(s, commands, k)

CommandsOK(s, c, commands) ==
  /\ commands \in Seq(StringCommands \cup IdCommands)
  /\ \A n \in 1 .. Len(commands) : CommandOK(n, s, c, commands)

RequestsOK(s, commands) ==
  /\ commands \in Seq(ClientCommands)
  /\ \A n \in 1 .. Len(commands) : Current(s, commands[n].serverId, commands[n].checksumFeed)

\* A message of the client, with n commands of it made so far.
PacketOK(p, s, c, n) ==
  /\ p \in Packets /\ Current(s, p.serverId, p.checksumFeed)
  /\ p.checksumFeed <= c.checksumFeed /\ p.reliableSequence <= n

\* A message of the server.
MessageOK(m, s, c, commands) ==
  /\ m \in Messages
  /\ c.serverCommandSequence <= m.reliableSequence /\ m.reliableSequence <= Len(commands)
  /\ c.checksumFeed <= m.checksumFeed /\ m.checksumFeed <= s.checksumFeed
  /\ m.active => m.checksumFeed = c.checksumFeed
  /\ m.gamestate =>
       /\ Current(s, m.systeminfo, m.checksumFeed)
       /\ m.checksumFeed = s.checksumFeed =>
            /\ s.state # "connected" /\ m.configstring[1] = s.checksumFeed
            /\ Follows(m.configstring, m.reliableSequence, s, commands)

\* Messages are of later maps, and after more commands, the later they were sent.
InOrder(messages) ==
  \A i, j \in 1 .. Len(messages) :
    i < j => /\ messages[i].reliableSequence <= messages[j].reliableSequence
             /\ messages[i].checksumFeed <= messages[j].checksumFeed

\* A client with the server's map has a configstring of it that follows the
\* server's, or one of an earlier map and all the commands of this map to come.
StringOK(c, s, commands) ==
  c.checksumFeed = s.checksumFeed =>
    IF c.configstring[1] = s.checksumFeed
    THEN Follows(c.configstring, c.lastExecutedServerCommand, s, commands)
    ELSE \A n \in 1 .. Len(commands) :
           SetsIn(s, commands, n) => c.lastExecutedServerCommand < n

StateInv ==
  /\ ServerOK(server, Len(clientCommands)) /\ ClientOK(client, server, Len(serverCommands))
  /\ CommandsOK(server, client, serverCommands) /\ RequestsOK(server, clientCommands)
  /\ StringOK(client, server, serverCommands)
  /\ lost \in 0 .. MaxLost

PacketsOK(packets, s, c, n) ==
  /\ packets \in Seq(Packets) /\ Len(packets) <= Capacity
  /\ \A i \in 1 .. Len(packets) : PacketOK(packets[i], s, c, n)

MessagesOK(messages, s, c, commands) ==
  /\ messages \in Seq(Messages) /\ Len(messages) <= Capacity
  /\ \A i \in 1 .. Len(messages) : MessageOK(messages[i], s, c, commands)
  /\ InOrder(messages)

ToServerInv == PacketsOK(toServer, server, client, Len(clientCommands))
ToClientInv == MessagesOK(toClient, server, client, serverCommands)

IInv == StateInv /\ ToServerInv /\ ToClientInv

\* All this holds until a restart finds the client without the map.
UntilRushed == rushed \in BOOLEAN /\ (~rushed => IInv)
-----------------------------------------------------------------------------
(* The commands of the client at the server: FoldLeft is a recursion over  *)
(* sets of places, of which only the first so many are met.                *)

LEMMA LeastOf ==
  ASSUME NEW S \in SUBSET Nat, S # {}
  PROVE  \E x \in S : \A y \in S : x <= y
<1> DEFINE R == OpToRel(<, Nat)
<1>1. IsWellFoundedOn(R, Nat)
  BY NatLessThanWellFounded
<1>2. \A x, y \in Nat : x < y => <<x, y>> \in R
  BY DEF OpToRel
<1> HIDE DEF R
<1>3. PICK x \in S : \A y \in S : <<y, x>> \notin R
  BY <1>1, WFMin
<1>4. \A y \in S : x <= y
  <2> SUFFICES ASSUME NEW y \in S PROVE x <= y
    OBVIOUS
  <2>1. x \in Nat /\ y \in Nat /\ <<y, x>> \notin R
    BY <1>3
  <2>. QED BY <1>2, <2>1
<1>. QED BY <1>4

LEMMA MaxIs ==
  ASSUME NEW S \in SUBSET Nat, NEW x \in S, \A y \in S : y <= x
  PROVE  Max(S) = x
<1>1. \E z \in S : \A y \in S : z >= y
  OBVIOUS
<1>2. Max(S) \in S /\ \A y \in S : Max(S) >= y
  BY <1>1, Zenon DEF Max
<1> DEFINE m == Max(S)
<1>3. m \in Nat /\ x \in Nat /\ m >= x /\ m <= x
  BY <1>2
<1> HIDE DEF m
<1>4. m = x
  BY <1>3
<1>. QED BY <1>4 DEF m

\* The k least of the numbers of a finite set; Max goes through it from above.
Recursion(g, s, commands, k) ==
  g = [t \in SUBSET (1 .. k) |->
         IF t = {} THEN s ELSE ExecutedCommand(g[t \ {Max(t)}], commands[Max(t)])]

LEMMA RecursionGoesOn ==
  ASSUME NEW s, NEW commands, NEW k \in Nat, NEW g, Recursion(g, s, commands, k)
  PROVE  \E h : Recursion(h, s, commands, k + 1)
<1> DEFINE n == k + 1
           h == [t \in SUBSET (1 .. n) |->
                   IF n \in t THEN ExecutedCommand(g[t \ {n}], commands[n]) ELSE g[t]]
<1>1. ASSUME NEW t \in SUBSET (1 .. n), n \in t
      PROVE  h[t] = ExecutedCommand(h[t \ {Max(t)}], commands[Max(t)]) /\ t # {}
  <2>1. Max(t) = n
    <3>1. t \in SUBSET Nat /\ \A y \in t : y <= n
      OBVIOUS
    <3>. QED BY <1>1, <3>1, MaxIs
  <2>2. t \ {n} \in SUBSET (1 .. n) /\ n \notin t \ {n}
    OBVIOUS
  <2>3. h[t \ {n}] = g[t \ {n}]
    BY <2>2
  <2>4. h[t] = ExecutedCommand(g[t \ {n}], commands[n])
    BY <1>1
  <2> HIDE DEF h, n
  <2>. QED BY <1>1, <2>1, <2>3, <2>4
<1>2. ASSUME NEW t \in SUBSET (1 .. n), n \notin t
      PROVE  h[t] = IF t = {} THEN s ELSE ExecutedCommand(h[t \ {Max(t)}], commands[Max(t)])
  <2>1. t \in SUBSET (1 .. k) /\ h[t] = g[t]
    BY <1>2
  <2>2. t \ {Max(t)} \in SUBSET (1 .. n) /\ n \notin t \ {Max(t)}
    BY <1>2
  <2>3. h[t \ {Max(t)}] = g[t \ {Max(t)}]
    BY <2>2
  <2>4. g[t] = IF t = {} THEN s ELSE ExecutedCommand(g[t \ {Max(t)}], commands[Max(t)])
    BY <2>1, Zenon DEF Recursion
  <2> HIDE DEF h, n
  <2>. QED BY <2>1, <2>3, <2>4
<1>3. h = [t \in SUBSET (1 .. n) |-> h[t]]
  OBVIOUS
<1> HIDE DEF h, n
<1>4. \A t \in SUBSET (1 .. n) :
        h[t] = IF t = {} THEN s ELSE ExecutedCommand(h[t \ {Max(t)}], commands[Max(t)])
  BY <1>1, <1>2
<1>5. h = [t \in SUBSET (1 .. n) |->
             IF t = {} THEN s ELSE ExecutedCommand(h[t \ {Max(t)}], commands[Max(t)])]
  BY <1>3, <1>4, Zenon
<1>. QED BY <1>5 DEF Recursion, n

LEMMA RecursionExists ==
  ASSUME NEW s, NEW commands, NEW n \in Nat
  PROVE  \E g : Recursion(g, s, commands, n)
<1> DEFINE none == {k \in Nat : ~\E g : Recursion(g, s, commands, k)}
<1>1. 0 \notin none
  <2> DEFINE g == [t \in {{}} |-> s]
  <2>1. SUBSET (1 .. 0) = {{}}
    OBVIOUS
  <2>2. g = [t \in SUBSET (1 .. 0) |->
               IF t = {} THEN s ELSE ExecutedCommand(g[t \ {Max(t)}], commands[Max(t)])]
    BY <2>1
  <2>. QED BY <2>2 DEF Recursion
<1>2. ASSUME none # {} PROVE FALSE
  <2>1. PICK x \in none : \A y \in none : x <= y
    BY <1>2, LeastOf
  <2>2. x \in Nat /\ x # 0
    BY <1>1
  <2>3. x - 1 \in Nat /\ x - 1 \notin none
    BY <2>1, <2>2
  <2>4. PICK g : Recursion(g, s, commands, x - 1)
    BY <2>3
  <2>5. \E h : Recursion(h, s, commands, (x - 1) + 1)
    BY <2>3, <2>4, RecursionGoesOn
  <2>. QED BY <2>2, <2>5
<1>. QED BY <1>2

LEMMA FoldIsRecursion ==
  ASSUME NEW s, NEW commands, NEW n \in Nat, DOMAIN commands = 1 .. n
  PROVE  \E g : /\ g[{}] = s
                /\ \A k \in 1 .. n : g[1 .. k] = ExecutedCommand(g[1 .. k - 1], commands[k])
                /\ FoldLeft(ExecutedCommand, s, commands) = g[1 .. n]
<1> DEFINE g == CHOOSE h : Recursion(h, s, commands, n)
<1>1. Recursion(g, s, commands, n)
  BY RecursionExists, Zenon
<1>2. FoldLeft(ExecutedCommand, s, commands) = g[1 .. n]
  BY DEF FoldLeft, MapThenFoldSet, Recursion
<1> HIDE DEF g
<1>3. g[{}] = s
  <2>1. {} \in SUBSET (1 .. n)
    OBVIOUS
  <2>. QED BY <1>1, <2>1, Zenon DEF Recursion
<1>4. ASSUME NEW k \in 1 .. n
      PROVE  g[1 .. k] = ExecutedCommand(g[1 .. k - 1], commands[k])
  <2>1. 1 .. k \in SUBSET (1 .. n) /\ 1 .. k # {} /\ k \in 1 .. k
    <3>1. ASSUME NEW x \in 1 .. k PROVE x \in 1 .. n
      OBVIOUS
    <3>2. k \in 1 .. k
      OBVIOUS
    <3>. QED BY <3>1, <3>2
  <2>2. Max(1 .. k) = k
    <3>1. 1 .. k \in SUBSET Nat /\ \A y \in 1 .. k : y <= k
      OBVIOUS
    <3>. QED BY <2>1, <3>1, MaxIs
  <2>3. (1 .. k) \ {k} = 1 .. k - 1
    OBVIOUS
  <2>. QED BY <1>1, <2>1, <2>2, <2>3 DEF Recursion
<1>. QED BY <1>2, <1>3, <1>4

\* What commands leave alone.
SameButJudged(s, t) ==
  /\ t.state = s.state /\ t.pure = s.pure /\ t.serverId = s.serverId
  /\ t.restartedServerId = s.restartedServerId /\ t.checksumFeed = s.checksumFeed
  /\ t.systeminfo = s.systeminfo /\ t.configstring = s.configstring
  /\ t.time = s.time /\ t.oldServerTime = s.oldServerTime

Judged(s, t, n) ==
  /\ t \in Servers /\ (t.pureReceived => t.pureAuthentic)
  /\ SameButJudged(s, t) /\ t.lastClientCommand = s.lastClientCommand + n

LEMMA ReceivedSet ==
  ASSUME NEW s \in Servers, NEW received \in BOOLEAN
  PROVE  LET t == [s EXCEPT !.pureReceived = received, !.pureAuthentic = received] IN
         /\ t \in Servers /\ SameButJudged(s, t) /\ t.lastClientCommand = s.lastClientCommand
         /\ t.pureReceived = received /\ t.pureAuthentic = received
BY DEF Servers, SameButJudged

LEMMA CommandCounted ==
  ASSUME NEW s \in Servers
  PROVE  LET t == [s EXCEPT !.lastClientCommand = @ + 1] IN
         /\ t \in Servers /\ SameButJudged(s, t)
         /\ t.lastClientCommand = s.lastClientCommand + 1
         /\ t.pureReceived = s.pureReceived /\ t.pureAuthentic = s.pureAuthentic
BY DEF Servers, SameButJudged

LEMMA CommandJudged ==
  ASSUME NEW s \in Servers, s.pureReceived => s.pureAuthentic,
         NEW c \in ClientCommands, c.serverId >= s.checksumFeed => c.checksumFeed = s.checksumFeed
  PROVE  Judged(s, ExecutedCommand(s, c), 1)
<1> DEFINE right == [s EXCEPT !.pureReceived = TRUE, !.pureAuthentic = TRUE]
           wrong == [s EXCEPT !.pureReceived = FALSE, !.pureAuthentic = FALSE]
           counted(t) == [t EXCEPT !.lastClientCommand = @ + 1]
<1>1. c.kind \in {"cp", "vdr"} /\ c.serverId \in Nat /\ s.checksumFeed \in Nat /\ s.state # "zombie"
  BY DEF ClientCommands, Servers
<1>2. c.kind = "cp" => VerifyPaks(s, c) \in {s, right}
  BY <1>1 DEF VerifyPaks, Outdated
<1>3. ExecutedCommand(s, c) \in {counted(s), counted(right), counted(wrong)}
  BY <1>1, <1>2 DEF ExecutedCommand
<1>4. ASSUME NEW t \in {s, right, wrong} PROVE Judged(s, counted(t), 1)
  <2>1. /\ t \in Servers /\ SameButJudged(s, t) /\ t.lastClientCommand = s.lastClientCommand
        /\ t.pureReceived => t.pureAuthentic
    <3>1. CASE t = s
      BY <3>1 DEF SameButJudged
    <3>2. CASE t = right
      <4>1. /\ right \in Servers /\ SameButJudged(s, right)
            /\ right.lastClientCommand = s.lastClientCommand /\ right.pureAuthentic = TRUE
        BY ReceivedSet
      <4> HIDE DEF right
      <4>. QED BY <3>2, <4>1
    <3>3. CASE t = wrong
      <4>1. /\ wrong \in Servers /\ SameButJudged(s, wrong)
            /\ wrong.lastClientCommand = s.lastClientCommand /\ wrong.pureReceived = FALSE
        BY ReceivedSet
      <4> HIDE DEF wrong
      <4>. QED BY <3>3, <4>1
    <3>. QED BY <1>4, <3>1, <3>2, <3>3
  <2> DEFINE u == counted(t)
  <2>2. /\ u \in Servers /\ SameButJudged(t, u)
        /\ u.lastClientCommand = t.lastClientCommand + 1
        /\ u.pureReceived = t.pureReceived /\ u.pureAuthentic = t.pureAuthentic
    BY <2>1, CommandCounted
  <2> HIDE DEF u
  <2>3. Judged(s, u, 1)
    BY <2>1, <2>2 DEF Judged, SameButJudged
  <2>. QED BY <2>3 DEF u
<1>. QED BY <1>3, <1>4

\* The commands of m that were not yet executed are, and the client is not dropped.
LEMMA ExecutedJudged ==
  ASSUME NEW s \in Servers, s.pureReceived => s.pureAuthentic, NEW m,
         clientCommands \in Seq(ClientCommands),
         m.reliableSequence \in 0 .. Len(clientCommands),
         s.lastClientCommand <= Len(clientCommands),
         \A n \in 1 .. Len(clientCommands) :
           clientCommands[n].serverId >= s.checksumFeed =>
             clientCommands[n].checksumFeed = s.checksumFeed
  PROVE  \E n \in Nat : /\ Judged(s, Executed(s, m), n)
                        /\ s.lastClientCommand + n <= Len(clientCommands)
<1> DEFINE a == s.lastClientCommand  r == m.reliableSequence
           commands == SubSeq(clientCommands, a + 1, r)
           count == IF a + 1 <= r THEN r - a ELSE 0
<1>1. a \in Nat /\ r \in 0 .. Len(clientCommands) /\ a <= Len(clientCommands)
  BY DEF Servers
<1>2. Len(clientCommands) \in Nat /\ count \in Nat /\ a + count <= Len(clientCommands)
  BY <1>1
<1>3. \A i \in a + 1 .. r : clientCommands[i] \in ClientCommands /\ i \in 1 .. Len(clientCommands)
  BY <1>1, ElementOfSeq
<1>4. /\ commands \in Seq(ClientCommands) /\ Len(commands) = count
      /\ \A i \in 1 .. count : commands[i] = clientCommands[a + i] /\ a + i \in a + 1 .. r
  <2>1. /\ commands \in Seq(ClientCommands)
        /\ Len(commands) = IF a + 1 <= r THEN r - (a + 1) + 1 ELSE 0
        /\ \A i \in 1 .. r - (a + 1) + 1 : commands[i] = clientCommands[(a + 1) + i - 1]
    <3>1. a + 1 \in Int /\ r \in Int
      BY <1>1
    <3>2. \A i \in a + 1 .. r : clientCommands[i] \in ClientCommands
      BY <1>3
    <3> HIDE DEF a, r
    <3>. QED BY <3>1, <3>2, SubSeqProperties
  <2> HIDE DEF commands
  <2>2. ASSUME NEW i \in 1 .. count
        PROVE  /\ i \in 1 .. r - (a + 1) + 1 /\ (a + 1) + i - 1 = a + i
               /\ a + i \in a + 1 .. r
    BY <1>1
  <2>3. Len(commands) = count
    BY <1>1, <2>1
  <2>4. ASSUME NEW i \in 1 .. count PROVE commands[i] = clientCommands[a + i]
    <3>1. commands[i] = clientCommands[(a + 1) + i - 1]
      BY <2>1, <2>2
    <3>. QED BY <2>2, <3>1
  <2> HIDE DEF count, a, r
  <2>. QED BY <2>1, <2>2, <2>3, <2>4
<1> HIDE DEF commands, count
<1>5. DOMAIN commands = 1 .. count
  BY <1>4
<1>6. PICK g : /\ g[{}] = s
               /\ \A k \in 1 .. count : g[1 .. k] = ExecutedCommand(g[1 .. k - 1], commands[k])
               /\ FoldLeft(ExecutedCommand, s, commands) = g[1 .. count]
  <2>1. count \in Nat
    BY <1>2
  <2> HIDE DEF a, r
  <2>. QED BY <2>1, <1>5, FoldIsRecursion, ZenonT(30)
<1> DEFINE wrong == {k \in Nat : k <= count /\ ~Judged(s, g[1 .. k], k)}
<1>7. Judged(s, g[1 .. 0], 0)
  BY <1>1, <1>6 DEF Judged, SameButJudged
<1>8. ASSUME NEW k \in Nat, k + 1 <= count, Judged(s, g[1 .. k], k)
      PROVE  Judged(s, g[1 .. k + 1], k + 1)
  <2> DEFINE t == g[1 .. k]  c == commands[k + 1]
  <2>1. g[1 .. k + 1] = ExecutedCommand(t, c)
    <3>1. \A j \in 1 .. count : j - 1 = k => g[1 .. j] = ExecutedCommand(g[1 .. k], commands[j])
      BY <1>6
    <3>2. k + 1 \in 1 .. count /\ (k + 1) - 1 = k
      BY <1>2, <1>8
    <3>. QED BY <3>1, <3>2
  <2>2. c \in ClientCommands /\ (c.serverId >= s.checksumFeed => c.checksumFeed = s.checksumFeed)
    <3>1. k + 1 \in 1 .. count
      BY <1>2, <1>8
    <3>2. \A i \in 1 .. count : commands[i] = clientCommands[a + i] /\ a + i \in a + 1 .. r
      BY <1>4
    <3>3. PICK n : c = clientCommands[n] /\ n \in a + 1 .. r
      BY <3>1, <3>2
    <3>4. clientCommands[n] \in ClientCommands /\ n \in 1 .. Len(clientCommands)
      BY <1>3, <3>3
    <3> HIDE DEF c
    <3>. QED BY <3>3, <3>4
  <2>3. Judged(s, t, k)
    BY <1>8
  <2> HIDE DEF t, c
  <2>4. Judged(t, ExecutedCommand(t, c), 1)
    <3>1. t \in Servers /\ (t.pureReceived => t.pureAuthentic) /\ t.checksumFeed = s.checksumFeed
      BY <2>3 DEF Judged, SameButJudged
    <3>. QED BY <2>2, <3>1, CommandJudged
  <2>5. t.lastClientCommand \in Nat /\ t.lastClientCommand = a + k
    BY <2>3 DEF Judged, Servers
  <2> DEFINE u == ExecutedCommand(t, c)
  <2>6. u.lastClientCommand = t.lastClientCommand + 1
    BY <2>4 DEF Judged
  <2>7. u.lastClientCommand = a + (k + 1)
    <3> DEFINE x == u.lastClientCommand  y == t.lastClientCommand
    <3>1. a \in Nat /\ k \in Nat /\ y \in Nat /\ y = a + k /\ x = y + 1
      BY <1>1, <2>5, <2>6
    <3> HIDE DEF x, y, a
    <3>2. x = a + (k + 1)
      BY <3>1
    <3>. QED BY <3>2 DEF x
  <2>8. u \in Servers /\ (u.pureReceived => u.pureAuthentic) /\ SameButJudged(s, u)
    BY <2>3, <2>4 DEF Judged, SameButJudged
  <2> HIDE DEF u
  <2>9. Judged(s, u, k + 1)
    BY <2>7, <2>8 DEF Judged
  <2>. QED BY <2>1, <2>9 DEF u
<1>9. ASSUME wrong # {} PROVE FALSE
  <2>1. PICK x \in wrong : \A y \in wrong : x <= y
    BY <1>9, LeastOf
  <2>2. x \in Nat /\ x <= count /\ x # 0 /\ ~Judged(s, g[1 .. x], x)
    BY <1>7, <2>1
  <2>3. x - 1 \in Nat /\ x - 1 \notin wrong /\ x - 1 <= count
    BY <1>2, <2>1, <2>2
  <2>4. Judged(s, g[1 .. x - 1], x - 1)
    BY <2>3
  <2>5. Judged(s, g[1 .. (x - 1) + 1], (x - 1) + 1)
    BY <1>8, <2>2, <2>3, <2>4
  <2>. QED BY <2>2, <2>5
<1>10. Judged(s, g[1 .. count], count)
  BY <1>2, <1>9
<1>. QED BY <1>2, <1>6, <1>10 DEF Executed, commands

-----------------------------------------------------------------------------
(* What stays as it was while the server goes on.                          *)

Extends(commands, more) ==
  /\ Len(commands) <= Len(more)
  /\ \A n \in 1 .. Len(commands) : more[n] = commands[n]

\* The server went from s to t within its map: what it set there it said, if there
\* was anybody with a gamestate to say it to.
SameMap(s, t, commands, more) ==
  /\ t.checksumFeed = s.checksumFeed /\ s.serverId <= t.serverId
  /\ t.state = "connected" => s.state = "connected"
  /\ \/ t.configstring = s.configstring
     \/ \E k \in 1 .. Len(more) : Len(commands) < k /\ SetsIn(t, more, k)
     \/ s.state = "connected"

\* The server went to another map.
LaterMap(s, t) == s.serverId < t.checksumFeed

GoesOn(s, t, commands, more) ==
  /\ Extends(commands, more) /\ commands \in Seq(StringCommands \cup IdCommands)
  /\ more \in Seq(StringCommands \cup IdCommands)
  /\ \E n \in Nat : ServerOK(s, n)
  /\ \E n \in Nat : ServerOK(t, n)
  /\ SameMap(s, t, commands, more) \/ LaterMap(s, t)

LEMMA NumbersOf ==
  ASSUME NEW s, NEW t, NEW commands, NEW more, GoesOn(s, t, commands, more)
  PROVE  /\ s.serverId \in Nat /\ s.checksumFeed \in Nat /\ s.checksumFeed <= s.serverId
         /\ t.serverId \in Nat /\ t.checksumFeed \in Nat /\ t.checksumFeed <= t.serverId
         /\ Len(commands) \in Nat /\ Len(more) \in Nat /\ Len(commands) <= Len(more)
<1>1. ASSUME NEW u, NEW n \in Nat, ServerOK(u, n)
      PROVE  u.serverId \in Nat /\ u.checksumFeed \in Nat /\ u.checksumFeed <= u.serverId
  <2>1. u.serverId \in Nat /\ u.checksumFeed \in Nat /\ u.systeminfo \in Nat
    BY <1>1 DEF ServerOK, Servers
  <2>. QED BY <1>1, <2>1 DEF ServerOK
<1>2. Len(commands) \in Nat /\ Len(more) \in Nat /\ Len(commands) <= Len(more)
  BY DEF GoesOn, Extends
<1>. QED BY <1>1, <1>2 DEF GoesOn

LEMMA ClientNumbers ==
  ASSUME NEW c \in Clients
  PROVE  /\ c.checksumFeed \in Nat /\ c.serverId \in Nat /\ c.serverCommandSequence \in Nat
         /\ c.lastExecutedServerCommand \in Nat
         /\ c.snap \in ShownSnapshots /\ c.configstring \in Nat \X Nat
BY DEF Clients

LEMMA CurrentStays ==
  ASSUME NEW s, NEW t, NEW commands, NEW more, GoesOn(s, t, commands, more),
         NEW id \in Nat, NEW feed, Current(s, id, feed)
  PROVE  Current(t, id, feed)
<1>1. /\ s.serverId \in Nat /\ s.checksumFeed \in Nat /\ s.checksumFeed <= s.serverId
      /\ t.serverId \in Nat /\ t.checksumFeed \in Nat /\ t.checksumFeed <= t.serverId
  BY NumbersOf
<1>2. /\ id <= s.serverId /\ (id >= s.checksumFeed => feed = s.checksumFeed)
      /\ \/ t.checksumFeed = s.checksumFeed /\ s.serverId <= t.serverId
         \/ s.serverId < t.checksumFeed
  BY DEF GoesOn, SameMap, LaterMap, Current
<1>3. id <= t.serverId
  BY <1>1, <1>2
<1>4. id >= t.checksumFeed => feed = t.checksumFeed
  BY <1>1, <1>2
<1>. QED BY <1>3, <1>4 DEF Current

LEMMA FollowsStays ==
  ASSUME NEW s, NEW t, NEW commands, NEW more, GoesOn(s, t, commands, more),
         SameMap(s, t, commands, more), s.state # "connected",
         NEW n \in Nat, n <= Len(commands), NEW value, Follows(value, n, s, commands)
  PROVE  Follows(value, n, t, more)
<1>1. Len(commands) \in Nat /\ Len(more) \in Nat /\ Len(commands) <= Len(more)
  BY DEF GoesOn, Extends
<1>2. CASE t.configstring = s.configstring /\ value = s.configstring
  BY <1>2 DEF Follows
<1>3. CASE \E k \in 1 .. Len(commands) : n < k /\ SetsIn(s, commands, k)
  <2>1. PICK k \in 1 .. Len(commands) : n < k /\ SetsIn(s, commands, k)
    BY <1>3
  <2>2. k \in 1 .. Len(more) /\ SetsIn(t, more, k)
    BY <1>1, <2>1 DEF SetsIn, SameMap, GoesOn, Extends
  <2>. QED BY <2>1, <2>2 DEF Follows
<1>4. CASE \E k \in 1 .. Len(more) : Len(commands) < k /\ SetsIn(t, more, k)
  <2>1. PICK k \in 1 .. Len(more) : Len(commands) < k /\ SetsIn(t, more, k)
    BY <1>4
  <2>2. n < k
    BY <1>1, <2>1
  <2>. QED BY <2>1, <2>2 DEF Follows
<1>. QED BY <1>2, <1>3, <1>4 DEF Follows, SameMap

LEMMA RequestsStay ==
  ASSUME NEW s, NEW t, NEW commands, NEW more, GoesOn(s, t, commands, more),
         NEW requests, RequestsOK(s, requests)
  PROVE  RequestsOK(t, requests)
<1>1. requests \in Seq(ClientCommands)
  BY DEF RequestsOK
<1>2. ASSUME NEW n \in 1 .. Len(requests)
      PROVE  Current(t, requests[n].serverId, requests[n].checksumFeed)
  <2> DEFINE c == requests[n]
  <2>1. c \in ClientCommands /\ Current(s, c.serverId, c.checksumFeed)
    BY <1>1, ElementOfSeq DEF RequestsOK
  <2> HIDE DEF c
  <2>2. c.serverId \in Nat
    BY <2>1 DEF ClientCommands
  <2>3. Current(t, c.serverId, c.checksumFeed)
    BY <2>1, <2>2, CurrentStays
  <2>. QED BY <2>3 DEF c
<1>. QED BY <1>1, <1>2 DEF RequestsOK

LEMMA PacketStays ==
  ASSUME NEW s, NEW t, NEW commands, NEW more, GoesOn(s, t, commands, more),
         NEW c \in Clients, NEW d \in Clients, c.checksumFeed <= d.checksumFeed,
         NEW n \in Nat, NEW k \in Nat, n <= k, NEW p, PacketOK(p, s, c, n)
  PROVE  PacketOK(p, t, d, k)
<1>1. /\ p \in Packets /\ Current(s, p.serverId, p.checksumFeed)
      /\ p.checksumFeed <= c.checksumFeed /\ p.reliableSequence <= n
  BY DEF PacketOK
<1>2. /\ p.serverId \in Nat /\ p.checksumFeed \in Nat /\ p.reliableSequence \in Nat
      /\ c.checksumFeed \in Nat /\ d.checksumFeed \in Nat
  BY <1>1 DEF Packets, Clients
<1>3. Current(t, p.serverId, p.checksumFeed)
  BY <1>1, <1>2, CurrentStays
<1>4. p.checksumFeed <= d.checksumFeed /\ p.reliableSequence <= k
  BY <1>1, <1>2
<1>. QED BY <1>1, <1>3, <1>4 DEF PacketOK

LEMMA MessageStays ==
  ASSUME NEW s, NEW t, NEW commands, NEW more, GoesOn(s, t, commands, more),
         NEW c \in Clients, NEW d \in Clients, c.checksumFeed = d.checksumFeed,
         c.serverCommandSequence = d.serverCommandSequence,
         NEW m, MessageOK(m, s, c, commands)
  PROVE  MessageOK(m, t, d, more)
<1>1. /\ m \in Messages
      /\ c.serverCommandSequence <= m.reliableSequence /\ m.reliableSequence <= Len(commands)
      /\ c.checksumFeed <= m.checksumFeed /\ m.checksumFeed <= s.checksumFeed
      /\ m.active => m.checksumFeed = c.checksumFeed
  BY DEF MessageOK
<1>2. /\ m.checksumFeed \in Nat /\ m.reliableSequence \in Nat /\ m.systeminfo \in Nat
      /\ s.serverId \in Nat /\ s.checksumFeed \in Nat /\ s.checksumFeed <= s.serverId
      /\ t.serverId \in Nat /\ t.checksumFeed \in Nat /\ t.checksumFeed <= t.serverId
  <2>1. m.checksumFeed \in Nat /\ m.reliableSequence \in Nat /\ m.systeminfo \in Nat
    BY <1>1 DEF Messages
  <2>. QED BY <2>1, NumbersOf
<1>3. Len(commands) \in Nat /\ Len(more) \in Nat /\ Len(commands) <= Len(more)
  BY DEF GoesOn, Extends
<1>4. m.reliableSequence <= Len(more) /\ m.checksumFeed <= t.checksumFeed
  BY <1>1, <1>2, <1>3 DEF GoesOn, SameMap, LaterMap
<1>5. ASSUME m.gamestate
      PROVE  /\ Current(t, m.systeminfo, m.checksumFeed)
             /\ m.checksumFeed = t.checksumFeed =>
                  /\ t.state # "connected" /\ m.configstring[1] = t.checksumFeed
                  /\ Follows(m.configstring, m.reliableSequence, t, more)
  <2>1. Current(t, m.systeminfo, m.checksumFeed)
    BY <1>2, <1>5, CurrentStays DEF MessageOK
  <2>2. ASSUME m.checksumFeed = t.checksumFeed
        PROVE  /\ t.state # "connected" /\ m.configstring[1] = t.checksumFeed
               /\ Follows(m.configstring, m.reliableSequence, t, more)
    <3>1. SameMap(s, t, commands, more)
      BY <1>1, <1>2, <2>2 DEF GoesOn, LaterMap
    <3>2. /\ s.state # "connected" /\ m.configstring[1] = s.checksumFeed
          /\ Follows(m.configstring, m.reliableSequence, s, commands)
      BY <1>5, <2>2, <3>1 DEF MessageOK, SameMap
    <3>3. Follows(m.configstring, m.reliableSequence, t, more)
      BY <1>1, <1>2, <3>1, <3>2, FollowsStays
    <3>. QED BY <3>1, <3>2, <3>3 DEF SameMap
  <2>. QED BY <2>1, <2>2
<1>. QED BY <1>1, <1>4, <1>5 DEF MessageOK

LEMMA CommandStays ==
  ASSUME NEW s, NEW t, NEW commands, NEW more, GoesOn(s, t, commands, more),
         NEW c \in Clients, NEW d \in Clients, c.checksumFeed <= d.checksumFeed,
         d.checksumFeed <= t.checksumFeed,
         \A k \in 1 .. Len(more) :
           Len(commands) < k /\ more[k].kind = "cs" => SetsIn(t, more, k),
         NEW n \in 1 .. Len(commands), CommandOK(n, s, c, commands)
  PROVE  CommandOK(n, t, d, more)
<1>1. /\ Len(commands) \in Nat /\ Len(more) \in Nat /\ Len(commands) <= Len(more)
      /\ more[n] = commands[n] /\ n \in Nat /\ n <= Len(commands)
  BY DEF GoesOn, Extends
<1>2. /\ s.serverId \in Nat /\ s.checksumFeed \in Nat /\ s.checksumFeed <= s.serverId
      /\ t.serverId \in Nat /\ t.checksumFeed \in Nat /\ t.checksumFeed <= t.serverId
      /\ c.checksumFeed \in Nat /\ d.checksumFeed \in Nat
  BY NumbersOf, ClientNumbers
<1>3. commands[n] \in StringCommands \cup IdCommands
  BY ElementOfSeq DEF GoesOn
<1>4. ASSUME commands[n].kind = "systeminfo"
      PROVE  Current(t, commands[n].value, d.checksumFeed)
  <2> DEFINE id == commands[n].value
  <2>1. id \in Nat
    BY <1>3, <1>4 DEF StringCommands, IdCommands
  <2>2. Current(s, id, c.checksumFeed)
    BY <1>4 DEF CommandOK
  <2> HIDE DEF id
  <2>3. Current(t, id, c.checksumFeed)
    BY <2>1, <2>2, CurrentStays
  <2>4. id >= t.checksumFeed => c.checksumFeed = t.checksumFeed
    BY <2>3 DEF Current
  <2>5. id >= t.checksumFeed => d.checksumFeed = t.checksumFeed
    BY <1>2, <2>4
  <2>6. Current(t, id, d.checksumFeed)
    BY <2>3, <2>5 DEF Current
  <2>. QED BY <2>6 DEF id
<1>5. ASSUME commands[n].kind = "cs"
      PROVE  /\ commands[n].value[1] <= t.checksumFeed
             /\ commands[n].value[1] = t.checksumFeed => SameMap(s, t, commands, more)
  <2> DEFINE map == commands[n].value[1]
  <2>1. map \in Nat
    BY <1>3, <1>5 DEF StringCommands, IdCommands
  <2>2. map <= s.checksumFeed
    BY <1>5 DEF CommandOK
  <2> HIDE DEF map
  <2>3. map <= t.checksumFeed /\ (map = t.checksumFeed => SameMap(s, t, commands, more))
    BY <1>2, <2>1, <2>2 DEF GoesOn, SameMap, LaterMap
  <2>. QED BY <2>3 DEF map
<1>6. ASSUME SetsIn(t, more, n)
      PROVE  /\ t.state # "connected"
             /\ Follows(more[n].value, n, t, more)
             /\ \A k \in 1 .. Len(more) : n < k /\ more[k].kind = "cs" => SetsIn(t, more, k)
  <2>1. SameMap(s, t, commands, more) /\ SetsIn(s, commands, n)
    BY <1>1, <1>5, <1>6 DEF SetsIn, SameMap
  <2>2. /\ s.state # "connected" /\ Follows(commands[n].value, n, s, commands)
        /\ \A k \in 1 .. Len(commands) : n < k /\ commands[k].kind = "cs" => SetsIn(s, commands, k)
    BY <2>1, Zenon DEF CommandOK
  <2>3. t.state # "connected" /\ Follows(more[n].value, n, t, more)
    BY <1>1, <2>1, <2>2, FollowsStays DEF SameMap
  <2>4. ASSUME NEW k \in 1 .. Len(more), n < k, more[k].kind = "cs" PROVE SetsIn(t, more, k)
    <3>1. CASE k <= Len(commands)
      <4>1. k \in 1 .. Len(commands) /\ more[k] = commands[k]
        BY <1>1, <3>1 DEF GoesOn, Extends
      <4>. QED BY <2>1, <2>2, <2>4, <4>1 DEF SetsIn, SameMap
    <3>2. CASE Len(commands) < k
      BY <2>4, <3>2
    <3>. QED BY <1>1, <3>1, <3>2
  <2>. QED BY <2>3, <2>4
<1>. QED BY <1>1, <1>4, <1>5, <1>6 DEF CommandOK

LEMMA CommandsStay ==
  ASSUME NEW s, NEW t, NEW commands, NEW more, GoesOn(s, t, commands, more),
         NEW c \in Clients, NEW d \in Clients, c.checksumFeed <= d.checksumFeed,
         d.checksumFeed <= t.checksumFeed, CommandsOK(s, c, commands),
         \A k \in 1 .. Len(more) :
           Len(commands) < k => /\ CommandOK(k, t, d, more)
                                /\ more[k].kind = "cs" => SetsIn(t, more, k)
  PROVE  CommandsOK(t, d, more)
<1>1. \A k \in 1 .. Len(more) : Len(commands) < k /\ more[k].kind = "cs" => SetsIn(t, more, k)
  OBVIOUS
<1>2. ASSUME NEW n \in 1 .. Len(more) PROVE CommandOK(n, t, d, more)
  <2>1. CASE Len(commands) < n
    BY <2>1
  <2>2. CASE n \in 1 .. Len(commands)
    <3>1. CommandOK(n, s, c, commands)
      BY <2>2 DEF CommandsOK
    <3>. QED BY <1>1, <2>2, <3>1, CommandStays
  <2>3. Len(commands) \in Nat
    BY DEF CommandsOK
  <2>. QED BY <2>1, <2>2, <2>3
<1>. QED BY <1>2 DEF CommandsOK, GoesOn

LEMMA StringStays ==
  ASSUME NEW s, NEW t, NEW commands, NEW more, GoesOn(s, t, commands, more),
         NEW c \in Clients, NEW d \in Clients, c.checksumFeed = d.checksumFeed,
         c.checksumFeed <= s.checksumFeed,
         c.configstring = d.configstring,
         c.lastExecutedServerCommand = d.lastExecutedServerCommand,
         c.lastExecutedServerCommand <= Len(commands), StringOK(c, s, commands),
         s.state = "connected" => c.checksumFeed # s.checksumFeed
  PROVE  StringOK(d, t, more)
<1> SUFFICES ASSUME d.checksumFeed = t.checksumFeed
             PROVE  IF d.configstring[1] = t.checksumFeed
                    THEN Follows(d.configstring, d.lastExecutedServerCommand, t, more)
                    ELSE \A n \in 1 .. Len(more) :
                           SetsIn(t, more, n) => d.lastExecutedServerCommand < n
  BY DEF StringOK
<1> DEFINE last == c.lastExecutedServerCommand
<1>1. /\ s.serverId \in Nat /\ s.checksumFeed \in Nat /\ s.checksumFeed <= s.serverId
      /\ last \in Nat /\ c.checksumFeed \in Nat /\ c.checksumFeed <= s.checksumFeed
      /\ Len(commands) \in Nat /\ Len(more) \in Nat /\ Len(commands) <= Len(more)
  BY NumbersOf, ClientNumbers
<1>2. SameMap(s, t, commands, more)
  BY <1>1 DEF GoesOn, LaterMap
<1>3. c.checksumFeed = s.checksumFeed /\ t.checksumFeed = s.checksumFeed
  BY <1>2 DEF SameMap
<1>4. CASE c.configstring[1] = s.checksumFeed
  <2>1. Follows(c.configstring, last, s, commands)
    BY <1>3, <1>4 DEF StringOK
  <2>2. Follows(c.configstring, last, t, more)
    BY <1>1, <1>2, <1>3, <2>1, FollowsStays
  <2>. QED BY <1>3, <1>4, <2>2
<1>5. CASE c.configstring[1] # s.checksumFeed
  <2>1. \A n \in 1 .. Len(commands) : SetsIn(s, commands, n) => last < n
    BY <1>3, <1>5 DEF StringOK
  <2>2. ASSUME NEW n \in 1 .. Len(more), SetsIn(t, more, n) PROVE last < n
    <3>1. CASE n <= Len(commands)
      <4>1. n \in 1 .. Len(commands) /\ more[n] = commands[n]
        BY <1>1, <3>1 DEF GoesOn, Extends
      <4>. QED BY <1>3, <2>1, <2>2, <4>1 DEF SetsIn
    <3>. QED BY <1>1, <3>1
  <2>. QED BY <1>3, <1>5, <2>2
<1>. QED BY <1>4, <1>5

-----------------------------------------------------------------------------
(* What is on its way.                                                     *)

\* The rest of a queue.
LEMMA RestOf ==
  ASSUME NEW S, NEW q \in Seq(S), q # <<>>
  PROVE  /\ Head(q) \in S /\ Head(q) = q[1] /\ 1 \in 1 .. Len(q)
         /\ Tail(q) \in Seq(S) /\ Len(Tail(q)) = Len(q) - 1 /\ Len(q) \in Nat \ {0}
         /\ \A i \in 1 .. Len(Tail(q)) : Tail(q)[i] = q[i + 1] /\ i + 1 \in 1 .. Len(q)
<1>1. Len(q) \in Nat \ {0}
  BY EmptySeq
<1>2. /\ Head(q) \in S /\ Tail(q) \in Seq(S) /\ Len(Tail(q)) = Len(q) - 1
      /\ \A i \in 1 .. Len(Tail(q)) : Tail(q)[i] = q[i + 1]
  BY HeadTailProperties
<1>3. Head(q) = q[1]
  OBVIOUS
<1>. QED BY <1>1, <1>2, <1>3

LEMMA PacketsStay ==
  ASSUME NEW s, NEW t, NEW commands, NEW more, GoesOn(s, t, commands, more),
         NEW c \in Clients, NEW d \in Clients, c.checksumFeed <= d.checksumFeed,
         NEW n \in Nat, NEW k \in Nat, n <= k, NEW packets, PacketsOK(packets, s, c, n)
  PROVE  PacketsOK(packets, t, d, k)
BY PacketStays DEF PacketsOK

LEMMA PacketsRest ==
  ASSUME NEW s, NEW c, NEW n, NEW packets, PacketsOK(packets, s, c, n), packets # <<>>
  PROVE  PacketsOK(Tail(packets), s, c, n) /\ PacketOK(Head(packets), s, c, n)
<1>1. packets \in Seq(Packets) /\ Len(packets) <= Capacity
      /\ \A i \in 1 .. Len(packets) : PacketOK(packets[i], s, c, n)
  BY DEF PacketsOK
<1>2. /\ Head(packets) = packets[1] /\ 1 \in 1 .. Len(packets)
      /\ Tail(packets) \in Seq(Packets) /\ Len(Tail(packets)) = Len(packets) - 1
      /\ Len(packets) \in Nat \ {0}
      /\ \A i \in 1 .. Len(Tail(packets)) :
           Tail(packets)[i] = packets[i + 1] /\ i + 1 \in 1 .. Len(packets)
  BY <1>1, RestOf
<1>3. Len(Tail(packets)) <= Capacity
  BY <1>1, <1>2, GamestateAssumption DEF GamestateAssumption
<1>4. \A i \in 1 .. Len(Tail(packets)) : PacketOK(Tail(packets)[i], s, c, n)
  BY <1>1, <1>2
<1>. QED BY <1>1, <1>2, <1>3, <1>4 DEF PacketsOK

LEMMA PacketsAppend ==
  ASSUME NEW s, NEW c, NEW n, NEW packets, PacketsOK(packets, s, c, n),
         Len(packets) < Capacity, NEW p, PacketOK(p, s, c, n)
  PROVE  PacketsOK(Append(packets, p), s, c, n)
<1> DEFINE q == Append(packets, p)
<1>1. packets \in Seq(Packets) /\ p \in Packets
  BY DEF PacketsOK, PacketOK
<1>2. /\ q \in Seq(Packets) /\ Len(q) = Len(packets) + 1 /\ Len(packets) \in Nat
      /\ \A i \in 1 .. Len(packets) : q[i] = packets[i]
      /\ q[Len(packets) + 1] = p
  BY <1>1, AppendProperties
<1>3. Len(q) <= Capacity
  BY <1>2, GamestateAssumption DEF GamestateAssumption
<1>4. ASSUME NEW i \in 1 .. Len(q) PROVE PacketOK(q[i], s, c, n)
  <2>1. CASE i \in 1 .. Len(packets)
    BY <1>2, <2>1 DEF PacketsOK
  <2>2. CASE i = Len(packets) + 1
    BY <1>2, <2>2
  <2>. QED BY <1>2, <2>1, <2>2
<1>. QED BY <1>2, <1>3, <1>4 DEF PacketsOK

\* That a gamestate was sent says nothing new of what is on its way.
LEMMA PacketsBefore ==
  ASSUME NEW s, NEW c, NEW n, NEW packets, PacketsOK(packets, s, c, n)
  PROVE  PacketsOK(Before(packets), s, c, n)
<1> DEFINE q == Before(packets)
<1>1. packets \in Seq(Packets) /\ Len(packets) \in Nat
  BY DEF PacketsOK
<1>2. q = [i \in 1 .. Len(packets) |-> [packets[i] EXCEPT !.later = FALSE]]
  BY DEF Before
<1>3. ASSUME NEW i \in 1 .. Len(packets) PROVE q[i] \in Packets /\ PacketOK(q[i], s, c, n)
  <2> DEFINE p == packets[i]  r == q[i]
  <2>1. p \in Packets
    BY <1>1, ElementOfSeq
  <2>2. PacketOK(p, s, c, n)
    BY DEF PacketsOK
  <2>3. r = [p EXCEPT !.later = FALSE]
    BY <1>2
  <2> HIDE DEF p, r
  <2>4. /\ r \in Packets /\ r.serverId = p.serverId /\ r.checksumFeed = p.checksumFeed
        /\ r.reliableSequence = p.reliableSequence
    BY <2>1, <2>3 DEF Packets
  <2>5. r \in Packets /\ PacketOK(r, s, c, n)
    BY <2>2, <2>4 DEF PacketOK
  <2>. QED BY <2>5 DEF r
<1> HIDE DEF q
<1>4. q \in Seq(Packets) /\ Len(q) = Len(packets)
  <2>1. q \in [1 .. Len(packets) -> Packets]
    BY <1>2, <1>3
  <2>. QED BY <1>1, <2>1
<1>. QED BY <1>3, <1>4 DEF PacketsOK, q

LEMMA MessagesStay ==
  ASSUME NEW s, NEW t, NEW commands, NEW more, GoesOn(s, t, commands, more),
         NEW c \in Clients, NEW d \in Clients, c.checksumFeed = d.checksumFeed,
         c.serverCommandSequence = d.serverCommandSequence,
         NEW messages, MessagesOK(messages, s, c, commands)
  PROVE  MessagesOK(messages, t, d, more)
<1>1. \A i \in 1 .. Len(messages) : MessageOK(messages[i], s, c, commands)
  BY DEF MessagesOK
<1>2. \A i \in 1 .. Len(messages) : MessageOK(messages[i], t, d, more)
  BY <1>1, MessageStays
<1>. QED BY <1>2 DEF MessagesOK

LEMMA MessagesRest ==
  ASSUME NEW s, NEW c, NEW commands, NEW messages, MessagesOK(messages, s, c, commands),
         messages # <<>>
  PROVE  /\ MessagesOK(Tail(messages), s, c, commands) /\ MessageOK(Head(messages), s, c, commands)
         /\ \A i \in 1 .. Len(Tail(messages)) :
              /\ Head(messages).reliableSequence <= Tail(messages)[i].reliableSequence
              /\ Head(messages).checksumFeed <= Tail(messages)[i].checksumFeed
<1> DEFINE rest == Tail(messages)
<1>1. /\ messages \in Seq(Messages) /\ Len(messages) <= Capacity /\ InOrder(messages)
      /\ \A i \in 1 .. Len(messages) : MessageOK(messages[i], s, c, commands)
  BY DEF MessagesOK
<1>2. /\ Head(messages) = messages[1] /\ 1 \in 1 .. Len(messages)
      /\ rest \in Seq(Messages) /\ Len(rest) = Len(messages) - 1
      /\ Len(messages) \in Nat \ {0}
      /\ \A i \in 1 .. Len(rest) : rest[i] = messages[i + 1] /\ i + 1 \in 1 .. Len(messages)
  BY <1>1, RestOf
<1> HIDE DEF rest
<1>3. Len(rest) <= Capacity
  BY <1>1, <1>2, GamestateAssumption DEF GamestateAssumption
<1>4. \A i \in 1 .. Len(rest) : MessageOK(rest[i], s, c, commands)
  BY <1>1, <1>2
<1>5. ASSUME NEW i \in 1 .. Len(rest), NEW j \in 1 .. Len(rest), i < j
      PROVE  /\ rest[i].reliableSequence <= rest[j].reliableSequence
             /\ rest[i].checksumFeed <= rest[j].checksumFeed
  <2>1. /\ rest[i] = messages[i + 1] /\ i + 1 \in 1 .. Len(messages)
        /\ rest[j] = messages[j + 1] /\ j + 1 \in 1 .. Len(messages)
    BY <1>2
  <2>2. i + 1 < j + 1
    BY <1>2, <1>5
  <2>. QED BY <1>1, <2>1, <2>2 DEF InOrder
<1>6. ASSUME NEW i \in 1 .. Len(rest)
      PROVE  /\ messages[1].reliableSequence <= rest[i].reliableSequence
             /\ messages[1].checksumFeed <= rest[i].checksumFeed
  <2>1. rest[i] = messages[i + 1] /\ i + 1 \in 1 .. Len(messages) /\ 1 < i + 1
    BY <1>2
  <2>. QED BY <1>1, <1>2, <2>1 DEF InOrder
<1>. QED BY <1>1, <1>2, <1>3, <1>4, <1>5, <1>6 DEF MessagesOK, InOrder, rest

LEMMA MessagesAppend ==
  ASSUME NEW s, NEW c, NEW commands, NEW messages, MessagesOK(messages, s, c, commands),
         Len(messages) < Capacity, NEW m, MessageOK(m, s, c, commands),
         m.checksumFeed = s.checksumFeed, m.reliableSequence = Len(commands)
  PROVE  MessagesOK(Append(messages, m), s, c, commands)
<1> DEFINE q == Append(messages, m)
<1>1. messages \in Seq(Messages) /\ m \in Messages /\ InOrder(messages)
  BY DEF MessagesOK, MessageOK
<1>2. /\ q \in Seq(Messages) /\ Len(q) = Len(messages) + 1 /\ Len(messages) \in Nat
      /\ \A i \in 1 .. Len(messages) : q[i] = messages[i]
      /\ q[Len(messages) + 1] = m
  BY <1>1, AppendProperties
<1> HIDE DEF q
<1>3. Len(q) <= Capacity
  BY <1>2, GamestateAssumption DEF GamestateAssumption
<1>4. ASSUME NEW i \in 1 .. Len(q) PROVE MessageOK(q[i], s, c, commands)
  <2>1. CASE i \in 1 .. Len(messages)
    BY <1>2, <2>1 DEF MessagesOK
  <2>2. CASE i = Len(messages) + 1
    BY <1>2, <2>2
  <2>. QED BY <1>2, <2>1, <2>2
<1>5. ASSUME NEW i \in 1 .. Len(q), NEW j \in 1 .. Len(q), i < j
      PROVE  q[i].reliableSequence <= q[j].reliableSequence /\ q[i].checksumFeed <= q[j].checksumFeed
  <2>1. i \in 1 .. Len(messages) /\ q[i] = messages[i]
    BY <1>2, <1>5
  <2>2. CASE j \in 1 .. Len(messages)
    BY <1>1, <1>2, <1>5, <2>1, <2>2 DEF InOrder
  <2>3. CASE j = Len(messages) + 1
    <3>1. q[i].reliableSequence <= Len(commands) /\ q[i].checksumFeed <= s.checksumFeed
      BY <1>4 DEF MessageOK
    <3>. QED BY <1>2, <2>3, <3>1
  <2>. QED BY <1>2, <2>2, <2>3
<1>. QED BY <1>2, <1>3, <1>4, <1>5 DEF MessagesOK, InOrder, q

LEMMA MessagesBefore ==
  ASSUME NEW s, NEW c, NEW commands, NEW messages, MessagesOK(messages, s, c, commands)
  PROVE  MessagesOK(Before(messages), s, c, commands) /\ Len(Before(messages)) = Len(messages)
<1> DEFINE q == Before(messages)
<1>1. messages \in Seq(Messages) /\ Len(messages) \in Nat /\ InOrder(messages)
      /\ Len(messages) <= Capacity
  BY DEF MessagesOK
<1>2. q = [i \in 1 .. Len(messages) |-> [messages[i] EXCEPT !.later = FALSE]]
  BY DEF Before
<1>3. ASSUME NEW i \in 1 .. Len(messages)
      PROVE  /\ q[i] \in Messages /\ MessageOK(q[i], s, c, commands)
             /\ q[i].reliableSequence = messages[i].reliableSequence
             /\ q[i].checksumFeed = messages[i].checksumFeed
  <2> DEFINE m == messages[i]  r == q[i]
  <2>1. m \in Messages
    BY <1>1, ElementOfSeq
  <2>2. MessageOK(m, s, c, commands)
    BY DEF MessagesOK
  <2>3. r = [m EXCEPT !.later = FALSE]
    BY <1>2
  <2> HIDE DEF m, r
  <2>4. /\ r \in Messages /\ r.gamestate = m.gamestate /\ r.reliableSequence = m.reliableSequence
        /\ r.checksumFeed = m.checksumFeed /\ r.systeminfo = m.systeminfo
        /\ r.configstring = m.configstring /\ r.active = m.active
    BY <2>1, <2>3 DEF Messages
  <2>5. MessageOK(r, s, c, commands)
    BY <2>2, <2>4 DEF MessageOK
  <2>. QED BY <2>4, <2>5 DEF m, r
<1> HIDE DEF q
<1>4. q \in Seq(Messages) /\ Len(q) = Len(messages)
  <2>1. q \in [1 .. Len(messages) -> Messages]
    BY <1>2, <1>3
  <2>. QED BY <1>1, <2>1
<1>5. InOrder(q)
  BY <1>1, <1>3, <1>4 DEF InOrder
<1>6. \A i \in 1 .. Len(q) : MessageOK(q[i], s, c, commands)
  BY <1>3, <1>4
<1>. QED BY <1>1, <1>4, <1>5, <1>6 DEF MessagesOK, q

\* What the server sends.
LEMMA MessageIsOK ==
  ASSUME NEW s, NEW c, NEW commands, NEW n \in Nat, ServerOK(s, n),
         ClientOK(c, s, Len(commands)), CommandsOK(s, c, commands),
         NEW gamestate \in BOOLEAN, gamestate => s.state # "connected"
  PROVE  LET m == Message(s, commands, gamestate) IN
         /\ MessageOK(m, s, c, commands)
         /\ m.checksumFeed = s.checksumFeed /\ m.reliableSequence = Len(commands)
<1> DEFINE m == Message(s, commands, gamestate)
<1>1. /\ s.checksumFeed \in Nat /\ s.systeminfo \in Nat /\ s.configstring \in Nat \X Nat
      /\ s.time \in Nat /\ s.oldServerTime \in Nat /\ s.serverId \in Nat
  BY DEF ServerOK, Servers
<1>2. Len(commands) \in Nat
  BY DEF CommandsOK
<1>3. /\ m.gamestate = gamestate /\ m.later = ~gamestate /\ m.reliableSequence = Len(commands)
      /\ m.checksumFeed = s.checksumFeed
      /\ m.systeminfo = (IF gamestate THEN s.systeminfo ELSE 0)
      /\ m.configstring = (IF gamestate THEN s.configstring ELSE <<0, 0>>)
      /\ m.active = (~gamestate /\ s.state = "active")
  BY DEF Message
<1>4. m \in Messages
  <2> DEFINE info == IF gamestate THEN s.systeminfo ELSE 0
             string == IF gamestate THEN s.configstring ELSE <<0, 0>>
             active == ~gamestate /\ s.state = "active"
             time == IF gamestate THEN 0 ELSE s.time + s.oldServerTime
             later == ~gamestate
  <2>1. m = [gamestate |-> gamestate, later |-> later, reliableSequence |-> Len(commands),
             checksumFeed |-> s.checksumFeed, systeminfo |-> info, configstring |-> string,
             active |-> active, time |-> time]
    BY Zenon DEF Message
  <2>2. info \in Nat /\ string \in Nat \X Nat /\ time \in Nat
    BY <1>1
  <2>3. active \in BOOLEAN /\ later \in BOOLEAN
    OBVIOUS
  <2> HIDE DEF m, info, string, active, time, later
  <2>. QED BY <1>1, <1>2, <2>1, <2>2, <2>3 DEF Messages
<1> HIDE DEF m
<1>5. c.serverCommandSequence <= Len(commands) /\ c.checksumFeed <= s.checksumFeed
  BY DEF ClientOK
<1>6. m.active => m.checksumFeed = c.checksumFeed
  BY <1>3 DEF ClientOK
<1>7. ASSUME m.gamestate
      PROVE  /\ Current(s, m.systeminfo, m.checksumFeed)
             /\ s.state # "connected" /\ m.configstring[1] = s.checksumFeed
             /\ Follows(m.configstring, m.reliableSequence, s, commands)
  <2>1. gamestate /\ m.systeminfo = s.systeminfo /\ m.configstring = s.configstring
    BY <1>3, <1>7
  <2>2. s.systeminfo <= s.serverId /\ s.configstring[1] = s.checksumFeed
    BY DEF ServerOK
  <2>. QED BY <1>3, <2>1, <2>2 DEF Current, Follows
<1>8. MessageOK(m, s, c, commands)
  BY <1>1, <1>2, <1>3, <1>4, <1>5, <1>6, <1>7 DEF MessageOK
<1>. QED BY <1>3, <1>8 DEF m

-----------------------------------------------------------------------------
(* The steps of the client.                                                *)

LEMMA ServerStays ==
  ASSUME IInv
  PROVE  /\ GoesOn(server, server, serverCommands, serverCommands)
         /\ Len(clientCommands) \in Nat /\ Len(serverCommands) \in Nat
<1>1. /\ ServerOK(server, Len(clientCommands)) /\ CommandsOK(server, client, serverCommands)
      /\ RequestsOK(server, clientCommands)
  BY DEF IInv, StateInv
<1>2. /\ Len(clientCommands) \in Nat /\ Len(serverCommands) \in Nat
      /\ serverCommands \in Seq(StringCommands \cup IdCommands)
  BY <1>1 DEF RequestsOK, CommandsOK
<1>3. Extends(serverCommands, serverCommands)
  BY <1>2 DEF Extends
<1>4. SameMap(server, server, serverCommands, serverCommands)
  <2>1. server.serverId \in Nat
    BY <1>1 DEF ServerOK, Servers
  <2>. QED BY <2>1 DEF SameMap
<1>. QED BY <1>1, <1>2, <1>3, <1>4 DEF GoesOn

LEMMA ServerOKLater ==
  ASSUME NEW s, NEW n \in Nat, NEW k \in Nat, n <= k, ServerOK(s, n)
  PROVE  ServerOK(s, k)
<1>1. s.lastClientCommand \in Nat /\ s.lastClientCommand <= n
  BY DEF ServerOK, Servers
<1>2. s.lastClientCommand <= k
  BY <1>1
<1>. QED BY <1>2 DEF ServerOK

LEMMA PacketIsOK ==
  ASSUME NEW s, NEW c, NEW n, ClientOK(c, s, n), NEW requests \in Seq(ClientCommands)
  PROVE  PacketOK(Packet(c, requests), s, c, Len(requests))
<1> DEFINE p == Packet(c, requests)
           move == c.state \in {"primed", "active"}
<1>1. c.serverId \in Nat /\ c.later \in BOOLEAN /\ c.checksumFeed \in Nat
  BY DEF ClientOK, Clients
<1>2. p = [serverId |-> c.serverId, later |-> c.later, reliableSequence |-> Len(requests),
           move |-> move, checksumFeed |-> c.checksumFeed]
  BY Zenon DEF Packet
<1>3. move \in BOOLEAN /\ Len(requests) \in Nat
  OBVIOUS
<1> HIDE DEF p, move
<1>4. /\ p \in Packets /\ p.serverId = c.serverId /\ p.checksumFeed = c.checksumFeed
      /\ p.reliableSequence = Len(requests)
  BY <1>1, <1>2, <1>3 DEF Packets
<1>5. Current(s, c.serverId, c.checksumFeed)
  BY DEF ClientOK
<1>6. PacketOK(p, s, c, Len(requests))
  BY <1>1, <1>3, <1>4, <1>5 DEF PacketOK
<1>. QED BY <1>6 DEF p

LEMMA WritePacketInv == ASSUME IInv, CL_WritePacket PROVE IInv'
<1>1. /\ toServer' = Append(toServer, Packet(client, clientCommands))
      /\ Len(toServer) < Capacity
      /\ UNCHANGED <<server, client, serverCommands, clientCommands, toClient, lost>>
  BY DEF CL_WritePacket
<1>2. StateInv' /\ ToClientInv'
  BY <1>1 DEF IInv, StateInv, ToClientInv
<1>3. PacketOK(Packet(client, clientCommands), server, client, Len(clientCommands))
  BY PacketIsOK DEF IInv, StateInv, RequestsOK
<1>4. PacketsOK(toServer', server, client, Len(clientCommands))
  BY <1>1, <1>3, PacketsAppend DEF IInv, ToServerInv
<1>. QED BY <1>1, <1>2, <1>4 DEF IInv, ToServerInv

LEMMA LoseInv == ASSUME IInv, Lose PROVE IInv'
<1>1. /\ lost < MaxLost /\ lost' = lost + 1
      /\ UNCHANGED <<server, client, serverCommands, clientCommands>>
  BY DEF Lose
<1>2. StateInv'
  BY <1>1, GamestateAssumption DEF IInv, StateInv, GamestateAssumption
<1>3. PacketsOK(toServer', server, client, Len(clientCommands))
  BY PacketsRest DEF Lose, IInv, ToServerInv
<1>4. MessagesOK(toClient', server, client, serverCommands)
  BY MessagesRest DEF Lose, IInv, ToClientInv
<1>. QED BY <1>1, <1>2, <1>3, <1>4 DEF IInv, ToServerInv, ToClientInv

\* What the client shows and does besides is of no consequence.
SameTold(c, d) ==
  /\ d.checksumFeed = c.checksumFeed /\ d.serverId = c.serverId
  /\ d.configstring = c.configstring
  /\ d.serverCommandSequence = c.serverCommandSequence
  /\ d.lastExecutedServerCommand = c.lastExecutedServerCommand
  /\ d.snap = c.snap

LEMMA SameToldKeeps ==
  ASSUME NEW s, NEW c, NEW d \in Clients, SameTold(c, d), NEW commands, NEW n,
         NEW messages, NEW packets,
         ClientOK(c, s, Len(commands)), CommandsOK(s, c, commands), StringOK(c, s, commands),
         MessagesOK(messages, s, c, commands), PacketsOK(packets, s, c, n)
  PROVE  /\ ClientOK(d, s, Len(commands)) /\ CommandsOK(s, d, commands)
         /\ StringOK(d, s, commands)
         /\ MessagesOK(messages, s, d, commands) /\ PacketsOK(packets, s, d, n)
<1>1. ClientOK(d, s, Len(commands))
  BY DEF ClientOK, SameTold
<1>2. CommandsOK(s, d, commands)
  BY DEF CommandsOK, CommandOK, SameTold
<1>3. StringOK(d, s, commands)
  BY DEF StringOK, SameTold
<1>4. MessagesOK(messages, s, d, commands)
  BY DEF MessagesOK, MessageOK, SameTold
<1>5. PacketsOK(packets, s, d, n)
  BY DEF PacketsOK, PacketOK, SameTold
<1>. QED BY <1>1, <1>2, <1>3, <1>4, <1>5

LEMMA SameToldOK ==
  ASSUME IInv, NEW d \in Clients, SameTold(client, d)
  PROVE  /\ ClientOK(d, server, Len(serverCommands))
         /\ CommandsOK(server, d, serverCommands)
         /\ StringOK(d, server, serverCommands)
         /\ MessagesOK(toClient, server, d, serverCommands)
         /\ PacketsOK(toServer, server, d, Len(clientCommands))
BY SameToldKeeps DEF IInv, StateInv, ToClientInv, ToServerInv

LEMMA CL_SetCGameTimeInv == ASSUME IInv, CL_SetCGameTime PROVE IInv'
<1>1. UNCHANGED <<server, serverCommands, clientCommands, toServer, toClient, lost>>
  BY DEF CL_SetCGameTime
<1>2. client' \in Clients /\ SameTold(client, client')
  <2> DEFINE state == IF client.snap.active THEN "active" ELSE client.state
             c == [client EXCEPT !.newSnapshots = FALSE, !.state = state]
             dropped == [c EXCEPT !.state = "dropped"]
             shown == [c EXCEPT !.oldFrameServerTime = c.snap.time]
  <2>1. client \in Clients
    BY DEF IInv, StateInv, ClientOK
  <2>2. state \in {"connected", "loading", "primed", "active", "dropped"}
    BY <2>1 DEF Clients
  <2>3. client' \in {c, dropped, shown}
    BY DEF CL_SetCGameTime
  <2> HIDE DEF state
  <2>4. c \in Clients /\ SameTold(client, c)
    BY <2>1, <2>2 DEF Clients, SameTold
  <2> HIDE DEF c
  <2>5. dropped \in Clients /\ SameTold(client, dropped)
    BY <2>4 DEF Clients, SameTold
  <2>6. shown \in Clients /\ SameTold(client, shown)
    <3>1. c.snap.time \in Nat
      BY <2>4 DEF Clients, ShownSnapshots
    <3>. QED BY <2>4, <3>1 DEF Clients, SameTold
  <2> HIDE DEF dropped, shown
  <2>. QED BY <2>3, <2>4, <2>5, <2>6
<1>3. /\ ClientOK(client', server, Len(serverCommands)) /\ CommandsOK(server, client', serverCommands)
      /\ StringOK(client', server, serverCommands)
      /\ MessagesOK(toClient, server, client', serverCommands)
      /\ PacketsOK(toServer, server, client', Len(clientCommands))
  BY <1>2, SameToldOK
<1>. QED BY <1>1, <1>3 DEF IInv, StateInv, ToServerInv, ToClientInv

LEMMA RequestsAppend ==
  ASSUME NEW s, NEW requests, RequestsOK(s, requests), NEW r \in ClientCommands,
         Current(s, r.serverId, r.checksumFeed)
  PROVE  /\ RequestsOK(s, Append(requests, r))
         /\ Len(Append(requests, r)) = Len(requests) + 1 /\ Len(requests) \in Nat
<1> DEFINE q == Append(requests, r)
<1>1. requests \in Seq(ClientCommands)
      /\ \A n \in 1 .. Len(requests) : Current(s, requests[n].serverId, requests[n].checksumFeed)
  BY DEF RequestsOK
<1>2. /\ q \in Seq(ClientCommands) /\ Len(q) = Len(requests) + 1 /\ Len(requests) \in Nat
      /\ \A n \in 1 .. Len(requests) : q[n] = requests[n]
      /\ q[Len(requests) + 1] = r
  BY <1>1, AppendProperties
<1> HIDE DEF q
<1>3. ASSUME NEW n \in 1 .. Len(q) PROVE Current(s, q[n].serverId, q[n].checksumFeed)
  <2>1. CASE n \in 1 .. Len(requests)
    BY <1>1, <1>2, <2>1
  <2>2. CASE n = Len(requests) + 1
    BY <1>2, <2>2
  <2>. QED BY <1>2, <2>1, <2>2
<1>4. RequestsOK(s, q) /\ Len(q) = Len(requests) + 1
  BY <1>2, <1>3 DEF RequestsOK
<1>. QED BY <1>2, <1>4 DEF q

LEMMA PureChecksumsOK ==
  ASSUME NEW s, NEW c, NEW n, ClientOK(c, s, n)
  PROVE  LET r == PureChecksums(c) IN
         r \in ClientCommands /\ Current(s, r.serverId, r.checksumFeed)
BY DEF PureChecksums, ClientOK, Clients, ClientCommands

LEMMA CL_DownloadsCompleteInv == ASSUME IInv, CL_DownloadsComplete PROVE IInv'
<1> DEFINE primed == [client EXCEPT !.state = "primed"]
           r == PureChecksums(client)
           commands == Append(clientCommands, r)
           n == Len(clientCommands)
           sent == Packet(primed, commands)
           p == [sent EXCEPT !.move = FALSE]
<1>1. /\ client' = primed /\ clientCommands' = commands
      /\ toServer' = (IF Len(toServer) < Capacity THEN Append(toServer, p) ELSE toServer)
      /\ UNCHANGED <<server, serverCommands, toClient, lost>>
  BY DEF CL_DownloadsComplete
<1>2. primed \in Clients /\ SameTold(client, primed)
  <2>1. client \in Clients
    BY DEF IInv, StateInv, ClientOK
  <2>. QED BY <2>1 DEF Clients, SameTold
<1>3. /\ ClientOK(primed, server, Len(serverCommands)) /\ CommandsOK(server, primed, serverCommands)
      /\ StringOK(primed, server, serverCommands)
      /\ MessagesOK(toClient, server, primed, serverCommands)
      /\ PacketsOK(toServer, server, primed, n)
  BY <1>2, SameToldOK
<1>4. RequestsOK(server, commands) /\ Len(commands) = n + 1 /\ n \in Nat
  <2>1. r \in ClientCommands /\ Current(server, r.serverId, r.checksumFeed)
    BY PureChecksumsOK DEF IInv, StateInv
  <2>. QED BY <2>1, RequestsAppend DEF IInv, StateInv
<1> HIDE DEF primed, commands
<1>5. n + 1 \in Nat /\ n <= n + 1 /\ primed.checksumFeed <= primed.checksumFeed
  <2>1. primed.checksumFeed \in Nat
    BY <1>2, ClientNumbers
  <2>. QED BY <1>4, <2>1
<1>6. ServerOK(server, n + 1)
  BY <1>4, <1>5, ServerOKLater DEF IInv, StateInv
<1>7. PacketsOK(toServer, server, primed, n + 1)
  BY <1>2, <1>3, <1>4, <1>5, ServerStays, PacketsStay
<1>8. PacketOK(p, server, primed, n + 1)
  <2>1. PacketOK(sent, server, primed, n + 1)
    BY <1>3, <1>4, PacketIsOK DEF RequestsOK
  <2> HIDE DEF sent
  <2>2. /\ p \in Packets /\ p.serverId = sent.serverId /\ p.checksumFeed = sent.checksumFeed
        /\ p.reliableSequence = sent.reliableSequence
    BY <2>1 DEF PacketOK, Packets
  <2> HIDE DEF p
  <2>. QED BY <2>1, <2>2 DEF PacketOK
<1> HIDE DEF p
<1>9. PacketsOK(toServer', server, primed, n + 1)
  <2>1. CASE Len(toServer) < Capacity
    BY <1>1, <1>7, <1>8, <2>1, PacketsAppend
  <2>2. CASE ~(Len(toServer) < Capacity)
    BY <1>1, <1>7, <2>2
  <2>. QED BY <2>1, <2>2
<1>10. Len(clientCommands') = n + 1
  BY <1>1, <1>4
<1> HIDE DEF n
<1>11. StateInv'
  BY <1>1, <1>3, <1>4, <1>6, <1>10 DEF IInv, StateInv
<1>12. ToServerInv' /\ ToClientInv'
  BY <1>1, <1>3, <1>9, <1>10 DEF ToServerInv, ToClientInv
<1>. QED BY <1>11, <1>12 DEF IInv

\* Client commands were added, and nothing else happened that is of consequence.
LEMMA RequestedInv ==
  ASSUME IInv, client' \in Clients, SameTold(client, client'),
         RequestsOK(server, clientCommands'), Len(clientCommands) <= Len(clientCommands'),
         UNCHANGED <<server, serverCommands, toServer, toClient, lost>>
  PROVE  IInv'
<1> DEFINE n == Len(clientCommands)  k == Len(clientCommands')
<1>1. /\ ClientOK(client', server, Len(serverCommands)) /\ CommandsOK(server, client', serverCommands)
      /\ StringOK(client', server, serverCommands)
      /\ MessagesOK(toClient, server, client', serverCommands)
      /\ PacketsOK(toServer, server, client', n)
  BY SameToldOK
<1>2. n \in Nat /\ k \in Nat /\ n <= k
  BY ServerStays DEF RequestsOK
<1>3. ServerOK(server, k)
  BY <1>2, ServerOKLater DEF IInv, StateInv
<1>4. client'.checksumFeed <= client'.checksumFeed
  BY ClientNumbers
<1>5. PacketsOK(toServer, server, client', k)
  BY <1>1, <1>2, <1>4, ServerStays, PacketsStay
<1>. QED BY <1>1, <1>3, <1>5 DEF IInv, StateInv, ToServerInv, ToClientInv

LEMMA CL_Vid_RestartInv == ASSUME IInv, CL_Vid_Restart_f PROVE IInv'
<1> DEFINE v == [kind |-> "vdr", serverId |-> 0, checksumFeed |-> 0]
           vdr == Append(clientCommands, v)
           r == PureChecksums(client)
           primed == [client EXCEPT !.state = "primed"]
<1>1. UNCHANGED <<server, serverCommands, toServer, toClient, lost>>
  BY DEF CL_Vid_Restart_f
<1>2. \/ clientCommands' = vdr /\ UNCHANGED client
      \/ clientCommands' = Append(vdr, r) /\ client' = primed
  BY DEF CL_Vid_Restart_f
<1>3. v \in ClientCommands /\ Current(server, v.serverId, v.checksumFeed)
  <2>1. server.checksumFeed \in Nat /\ 1 <= server.checksumFeed /\ server.serverId \in Nat
    BY DEF IInv, StateInv, ServerOK, Servers
  <2>. QED BY <2>1 DEF ClientCommands, Current
<1>4. r \in ClientCommands /\ Current(server, r.serverId, r.checksumFeed)
  BY PureChecksumsOK DEF IInv, StateInv
<1> HIDE DEF v, r
<1>5. RequestsOK(server, vdr) /\ Len(vdr) = Len(clientCommands) + 1 /\ Len(clientCommands) \in Nat
  BY <1>3, RequestsAppend DEF IInv, StateInv
<1> HIDE DEF vdr
<1>6. RequestsOK(server, Append(vdr, r)) /\ Len(Append(vdr, r)) = Len(vdr) + 1
  BY <1>4, <1>5, RequestsAppend
<1>7. /\ client \in Clients /\ SameTold(client, client)
      /\ primed \in Clients /\ SameTold(client, primed)
  <2>1. client \in Clients
    BY DEF IInv, StateInv, ClientOK
  <2>. QED BY <2>1 DEF Clients, SameTold
<1> HIDE DEF primed
<1>8. /\ client' \in Clients /\ SameTold(client, client')
      /\ RequestsOK(server, clientCommands') /\ Len(clientCommands) <= Len(clientCommands')
  <2>1. CASE clientCommands' = vdr /\ UNCHANGED client
    BY <1>5, <1>7, <2>1
  <2>2. CASE clientCommands' = Append(vdr, r) /\ client' = primed
    BY <1>5, <1>6, <1>7, <2>2
  <2>. QED BY <1>2, <2>1, <2>2
<1>. QED BY <1>1, <1>8, RequestedInv

\* The client executes a command of the server.
LEMMA CL_GetServerCommandInv == ASSUME IInv, CL_GetServerCommand PROVE IInv'
<1> DEFINE last == client.lastExecutedServerCommand
           n == last + 1
           command == serverCommands[n]
           string == IF command.kind = "cs" THEN command.value ELSE client.configstring
           id == IF command.kind = "systeminfo" THEN command.value ELSE client.serverId
           d == [client EXCEPT !.lastExecutedServerCommand = n,
                               !.configstring = string, !.serverId = id]
           feed == server.checksumFeed
           told == IF string[1] = feed
                   THEN Follows(string, n, server, serverCommands)
                   ELSE \A k \in 1 .. Len(serverCommands) :
                          SetsIn(server, serverCommands, k) => n < k
<1>1. /\ last < client.snap.serverCommandNum
      /\ client' = d
      /\ UNCHANGED <<server, serverCommands, clientCommands, toServer, toClient, lost>>
  BY DEF CL_GetServerCommand
<1>2. /\ client \in Clients /\ ClientOK(client, server, Len(serverCommands))
      /\ CommandsOK(server, client, serverCommands) /\ StringOK(client, server, serverCommands)
      /\ MessagesOK(toClient, server, client, serverCommands)
      /\ PacketsOK(toServer, server, client, Len(clientCommands))
  BY DEF IInv, StateInv, ClientOK, ToClientInv, ToServerInv
<1>3. /\ last \in Nat /\ client.serverCommandSequence \in Nat /\ client.checksumFeed \in Nat
      /\ client.snap.serverCommandNum \in Nat /\ Len(serverCommands) \in Nat
      /\ feed \in Nat
  <2>1. feed \in Nat
    BY DEF IInv, StateInv, ServerOK, Servers
  <2>. QED BY <1>2, <2>1, ServerStays, ClientNumbers DEF ShownSnapshots
<1>4. /\ client.snap.serverCommandNum <= client.serverCommandSequence
      /\ client.serverCommandSequence <= Len(serverCommands)
  BY <1>2 DEF ClientOK
<1>5. n \in 1 .. Len(serverCommands) /\ n \in Nat /\ n <= client.serverCommandSequence /\ last < n
  BY <1>1, <1>3, <1>4
<1> HIDE DEF last
<1>6. command \in StringCommands \cup IdCommands /\ CommandOK(n, server, client, serverCommands)
  BY <1>2, <1>5, ElementOfSeq DEF CommandsOK
<1>7. string \in Nat \X Nat /\ id \in Nat
  <2>1. client.configstring \in Nat \X Nat /\ client.serverId \in Nat
    BY <1>2, ClientNumbers
  <2>2. command.kind = "cs" => command.value \in Nat \X Nat
    BY <1>6 DEF StringCommands, IdCommands
  <2>3. command.kind = "systeminfo" => command.value \in Nat
    BY <1>6 DEF StringCommands, IdCommands
  <2>. QED BY <2>1, <2>2, <2>3
<1>8. Current(server, id, client.checksumFeed)
  <2>1. command.kind = "systeminfo" => Current(server, command.value, client.checksumFeed)
    BY <1>6 DEF CommandOK
  <2>2. Current(server, client.serverId, client.checksumFeed)
    BY <1>2 DEF ClientOK
  <2>. QED BY <2>1, <2>2
<1>9. ASSUME command.kind = "cs" PROVE client.checksumFeed = feed => told
  <2>1. string = command.value
    BY <1>9
  <2>2. ASSUME client.checksumFeed = feed
        PROVE  told
    <3>1. CASE string[1] = feed
      <4>1. SetsIn(server, serverCommands, n)
        BY <1>9, <2>1, <3>1 DEF SetsIn
      <4>. QED BY <1>6, <2>1, <3>1, <4>1 DEF CommandOK
    <3>2. CASE string[1] # feed
      <4>1. ASSUME NEW k \in 1 .. Len(serverCommands), SetsIn(server, serverCommands, k)
            PROVE  n < k
        <5>1. CASE k = n
          BY <2>1, <3>2, <4>1, <5>1 DEF SetsIn
        <5>2. CASE k < n
          <6>1. CommandOK(k, server, client, serverCommands)
            BY <1>2 DEF CommandsOK
          <6>2. SetsIn(server, serverCommands, n)
            BY <1>5, <1>9, <4>1, <5>2, <6>1 DEF CommandOK
          <6>. QED BY <2>1, <3>2, <6>2 DEF SetsIn
        <5>. QED BY <1>5, <5>1, <5>2
      <4>. QED BY <3>2, <4>1
    <3>. QED BY <3>1, <3>2
  <2>. QED BY <2>2
<1>10. ASSUME command.kind # "cs" PROVE client.checksumFeed = feed => told
  <2>1. string = client.configstring /\ ~SetsIn(server, serverCommands, n)
    BY <1>10 DEF SetsIn
  <2>2. ASSUME client.checksumFeed = feed
        PROVE  told
    <3>1. \A k \in 1 .. Len(serverCommands) :
            SetsIn(server, serverCommands, k) /\ last < k => n < k
      <4> SUFFICES ASSUME NEW k \in 1 .. Len(serverCommands),
                          SetsIn(server, serverCommands, k), last < k
                   PROVE  n < k
        OBVIOUS
      <4>1. k # n
        BY <2>1
      <4>. QED BY <1>3, <4>1
    <3>2. CASE string[1] = feed
      <4>1. Follows(string, last, server, serverCommands)
        BY <1>2, <2>1, <2>2, <3>2 DEF StringOK, last
      <4>. QED BY <3>1, <3>2, <4>1 DEF Follows
    <3>3. CASE string[1] # feed
      <4>1. \A k \in 1 .. Len(serverCommands) : SetsIn(server, serverCommands, k) => last < k
        BY <1>2, <2>1, <2>2, <3>3 DEF StringOK, last
      <4>. QED BY <3>1, <3>3, <4>1
    <3>. QED BY <3>2, <3>3
  <2>. QED BY <2>2
<1> HIDE DEF string, id
<1>11. /\ d \in Clients /\ d.configstring = string /\ d.serverId = id
       /\ d.lastExecutedServerCommand = n /\ d.checksumFeed = client.checksumFeed
       /\ d.serverCommandSequence = client.serverCommandSequence /\ d.snap = client.snap
  <2> HIDE DEF n
  <2>. QED BY <1>2, <1>5, <1>7 DEF Clients
<1> HIDE DEF d
<1>12. ClientOK(d, server, Len(serverCommands))
  BY <1>2, <1>5, <1>8, <1>11 DEF ClientOK
<1>13. StringOK(d, server, serverCommands)
  BY <1>9, <1>10, <1>11 DEF StringOK
<1>14. CommandsOK(server, d, serverCommands)
  BY <1>2, <1>11 DEF CommandsOK, CommandOK
<1>15. MessagesOK(toClient, server, d, serverCommands)
  BY <1>2, <1>11 DEF MessagesOK, MessageOK
<1>16. PacketsOK(toServer, server, d, Len(clientCommands))
  BY <1>2, <1>11 DEF PacketsOK, PacketOK
<1>. QED BY <1>1, <1>12, <1>13, <1>14, <1>15, <1>16
         DEF IInv, StateInv, ToServerInv, ToClientInv

\* The client of a message just read, and what is still on its way to it.
LEMMA ReadOn ==
  ASSUME NEW s, NEW c \in Clients, NEW d \in Clients, NEW commands,
         NEW m, NEW rest, MessageOK(m, s, c, commands), MessagesOK(rest, s, c, commands),
         \A i \in 1 .. Len(rest) : /\ m.reliableSequence <= rest[i].reliableSequence
                                   /\ m.checksumFeed <= rest[i].checksumFeed,
         d.serverCommandSequence = m.reliableSequence,
         d.checksumFeed \in {c.checksumFeed, m.checksumFeed}
  PROVE  MessagesOK(rest, s, d, commands)
<1>1. ASSUME NEW i \in 1 .. Len(rest) PROVE MessageOK(rest[i], s, d, commands)
  <2> DEFINE r == rest[i]
  <2>1. MessageOK(r, s, c, commands) /\ r \in Messages /\ m \in Messages
    BY DEF MessagesOK, MessageOK
  <2>2. m.reliableSequence <= r.reliableSequence /\ m.checksumFeed <= r.checksumFeed
    OBVIOUS
  <2> HIDE DEF r
  <2>3. /\ m.checksumFeed \in Nat /\ r.checksumFeed \in Nat /\ c.checksumFeed \in Nat
    BY <2>1, ClientNumbers DEF Messages
  <2>4. c.checksumFeed <= m.checksumFeed /\ c.checksumFeed <= r.checksumFeed
    BY <2>1 DEF MessageOK
  <2>5. d.checksumFeed <= r.checksumFeed
    BY <2>2, <2>3, <2>4
  <2>6. r.active => r.checksumFeed = d.checksumFeed
    <3>1. r.active => r.checksumFeed = c.checksumFeed
      BY <2>1 DEF MessageOK
    <3>. QED BY <2>2, <2>3, <2>4, <3>1
  <2>7. MessageOK(r, s, d, commands)
    BY <2>1, <2>2, <2>5, <2>6 DEF MessageOK
  <2>. QED BY <2>7 DEF r
<1>. QED BY <1>1 DEF MessagesOK

LEMMA CL_ParseServerMessageInv == ASSUME IInv, CL_ParseServerMessage PROVE IInv'
<1> DEFINE m == Head(toClient)  rest == Tail(toClient)
           c == [client EXCEPT !.later = m.later, !.serverCommandSequence = m.reliableSequence]
           d == IF m.gamestate THEN ParsedGamestate(c, m) ELSE ParsedSnapshot(c, m)
           feed == server.checksumFeed
<1>1. /\ toClient # <<>> /\ toClient' = rest /\ client' = d
      /\ UNCHANGED <<server, serverCommands, clientCommands, toServer, lost>>
  BY DEF CL_ParseServerMessage
<1>2. /\ client \in Clients /\ ClientOK(client, server, Len(serverCommands))
      /\ CommandsOK(server, client, serverCommands) /\ StringOK(client, server, serverCommands)
      /\ MessagesOK(toClient, server, client, serverCommands)
      /\ PacketsOK(toServer, server, client, Len(clientCommands))
  BY DEF IInv, StateInv, ClientOK, ToClientInv, ToServerInv
<1>3. /\ MessagesOK(rest, server, client, serverCommands)
      /\ MessageOK(m, server, client, serverCommands)
      /\ \A i \in 1 .. Len(rest) : /\ m.reliableSequence <= rest[i].reliableSequence
                                   /\ m.checksumFeed <= rest[i].checksumFeed
  BY <1>1, <1>2, MessagesRest
<1> HIDE DEF m, rest
<1>4. m \in Messages
  BY <1>3 DEF MessageOK
<1>5. /\ m.reliableSequence \in Nat /\ m.checksumFeed \in Nat /\ m.systeminfo \in Nat
      /\ m.configstring \in Nat \X Nat /\ m.later \in BOOLEAN /\ m.active \in BOOLEAN
      /\ m.time \in Nat /\ m.gamestate \in BOOLEAN
  BY <1>4 DEF Messages
<1>6. /\ c \in Clients /\ c.serverCommandSequence = m.reliableSequence
      /\ c.checksumFeed = client.checksumFeed /\ c.serverId = client.serverId
      /\ c.configstring = client.configstring
      /\ c.lastExecutedServerCommand = client.lastExecutedServerCommand
  BY <1>2, <1>5 DEF Clients
<1> HIDE DEF c
<1>7. NoSnapshot \in ShownSnapshots
  BY DEF NoSnapshot, ShownSnapshots
<1>8. ASSUME m.gamestate
      PROVE  /\ d \in Clients /\ d.checksumFeed = m.checksumFeed /\ d.serverId = m.systeminfo
             /\ d.configstring = m.configstring /\ d.serverCommandSequence = m.reliableSequence
             /\ d.lastExecutedServerCommand = client.lastExecutedServerCommand
             /\ d.snap = NoSnapshot
  <2>1. d = ParsedGamestate(c, m)
    BY <1>8
  <2> DEFINE a == [c EXCEPT !.state = "loading", !.checksumFeed = m.checksumFeed,
                            !.serverId = m.systeminfo, !.configstring = m.configstring]
             b == [a EXCEPT !.serverCommandSequence = m.reliableSequence,
                            !.snap = NoSnapshot, !.newSnapshots = FALSE,
                            !.oldFrameServerTime = 0]
  <2>2. ParsedGamestate(c, m) = b
    BY DEF ParsedGamestate
  <2>3. /\ a \in Clients /\ a.checksumFeed = m.checksumFeed /\ a.serverId = m.systeminfo
        /\ a.configstring = m.configstring
        /\ a.lastExecutedServerCommand = c.lastExecutedServerCommand
    BY <1>5, <1>6 DEF Clients
  <2> HIDE DEF d, a
  <2>4. /\ b \in Clients /\ b.checksumFeed = a.checksumFeed /\ b.serverId = a.serverId
        /\ b.configstring = a.configstring
        /\ b.lastExecutedServerCommand = a.lastExecutedServerCommand
        /\ b.serverCommandSequence = m.reliableSequence /\ b.snap = NoSnapshot
    BY <1>5, <1>7, <2>3 DEF Clients
  <2> HIDE DEF b
  <2>. QED BY <1>6, <2>1, <2>2, <2>3, <2>4
<1>9. ASSUME ~m.gamestate
      PROVE  /\ d \in Clients /\ d.checksumFeed = client.checksumFeed
             /\ d.serverId = client.serverId
             /\ d.configstring = client.configstring /\ d.serverCommandSequence = m.reliableSequence
             /\ d.lastExecutedServerCommand = client.lastExecutedServerCommand
             /\ d.snap.active = m.active /\ d.snap.checksumFeed = m.checksumFeed
             /\ d.snap.serverCommandNum = m.reliableSequence
  <2> DEFINE shown == [valid |-> TRUE, active |-> m.active, checksumFeed |-> m.checksumFeed,
                       time |-> m.time, serverCommandNum |-> c.serverCommandSequence]
  <2>1. d = [c EXCEPT !.snap = shown, !.newSnapshots = TRUE]
    BY <1>9 DEF ParsedSnapshot
  <2>2. /\ shown \in ShownSnapshots /\ shown.active = m.active
        /\ shown.checksumFeed = m.checksumFeed /\ shown.serverCommandNum = m.reliableSequence
    BY <1>5, <1>6 DEF ShownSnapshots
  <2> HIDE DEF d, shown
  <2>3. /\ d \in Clients /\ d.checksumFeed = c.checksumFeed /\ d.serverId = c.serverId
        /\ d.configstring = c.configstring /\ d.serverCommandSequence = c.serverCommandSequence
        /\ d.lastExecutedServerCommand = c.lastExecutedServerCommand /\ d.snap = shown
    BY <1>6, <2>1, <2>2 DEF Clients
  <2>. QED BY <1>6, <2>2, <2>3
<1>10. /\ d \in Clients /\ d.serverCommandSequence = m.reliableSequence
       /\ d.lastExecutedServerCommand = client.lastExecutedServerCommand
       /\ d.checksumFeed \in {client.checksumFeed, m.checksumFeed}
  BY <1>8, <1>9
<1> HIDE DEF d
<1>11. /\ client.serverCommandSequence \in Nat /\ client.lastExecutedServerCommand \in Nat
       /\ client.checksumFeed \in Nat /\ feed \in Nat /\ Len(serverCommands) \in Nat
       /\ server.serverId \in Nat
  <2>1. feed \in Nat /\ server.serverId \in Nat
    BY DEF IInv, StateInv, ServerOK, Servers
  <2>. QED BY <1>2, <2>1, ServerStays, ClientNumbers
<1>12. /\ client.checksumFeed <= m.checksumFeed /\ m.checksumFeed <= feed
       /\ client.lastExecutedServerCommand <= m.reliableSequence
       /\ m.reliableSequence <= Len(serverCommands)
  <2>1. /\ client.lastExecutedServerCommand <= client.serverCommandSequence
        /\ client.serverCommandSequence <= m.reliableSequence
        /\ client.checksumFeed <= m.checksumFeed /\ m.checksumFeed <= feed
        /\ m.reliableSequence <= Len(serverCommands)
    BY <1>2, <1>3 DEF ClientOK, MessageOK
  <2>. QED BY <1>5, <1>11, <2>1
<1>13. client.checksumFeed <= d.checksumFeed /\ d.checksumFeed <= feed
  BY <1>5, <1>10, <1>11, <1>12
<1>14. ClientOK(d, server, Len(serverCommands))
  <2>1. CASE m.gamestate
    <3>1. Current(server, d.serverId, d.checksumFeed)
      BY <1>3, <1>8, <2>1 DEF MessageOK
    <3>2. ~d.snap.active /\ d.snap.serverCommandNum = 0
      BY <1>8, <2>1 DEF NoSnapshot
    <3>3. server.state = "connected" => d.checksumFeed < feed
      <4>1. m.checksumFeed = feed => server.state # "connected"
        BY <1>3, <2>1 DEF MessageOK
      <4>. QED BY <1>5, <1>8, <1>11, <1>12, <2>1, <4>1
    <3>4. server.state = "active" \/ server.serverId > feed => d.checksumFeed = feed
      <4>1. server.state = "active" \/ server.serverId > feed => client.checksumFeed = feed
        BY <1>2 DEF ClientOK
      <4>. QED BY <1>5, <1>8, <1>11, <1>12, <2>1, <4>1
    <3>5. 0 <= m.reliableSequence
      BY <1>5
    <3>. QED BY <1>10, <1>12, <1>13, <3>1, <3>2, <3>3, <3>4, <3>5 DEF ClientOK
  <2>2. CASE ~m.gamestate
    <3>1. Current(server, d.serverId, d.checksumFeed)
      BY <1>2, <1>9, <2>2 DEF ClientOK
    <3>2. d.snap.active => d.snap.checksumFeed = d.checksumFeed
      BY <1>3, <1>9, <2>2 DEF MessageOK
    <3>3. d.snap.serverCommandNum <= d.serverCommandSequence
      BY <1>5, <1>9, <1>10, <2>2
    <3>4. /\ server.state = "connected" => d.checksumFeed < feed
          /\ server.state = "active" \/ server.serverId > feed => d.checksumFeed = feed
      BY <1>2, <1>9, <2>2 DEF ClientOK
    <3>. QED BY <1>10, <1>12, <1>13, <3>1, <3>2, <3>3, <3>4 DEF ClientOK
  <2>. QED BY <2>1, <2>2
<1>15. CommandsOK(server, d, serverCommands)
  <2>1. \A k \in 1 .. Len(serverCommands) : ~(Len(serverCommands) < k)
    BY <1>11
  <2>. QED BY <1>2, <1>10, <1>13, <2>1, ServerStays, CommandsStay
<1>16. MessagesOK(rest, server, d, serverCommands)
  BY <1>2, <1>3, <1>10, ReadOn
<1>17. PacketsOK(toServer, server, d, Len(clientCommands))
  <2>1. Len(clientCommands) \in Nat /\ Len(clientCommands) <= Len(clientCommands)
    BY ServerStays
  <2>. QED BY <1>2, <1>10, <1>13, <2>1, ServerStays, PacketsStay
<1>18. StringOK(d, server, serverCommands)
  <2>1. CASE m.gamestate
    <3> SUFFICES ASSUME d.checksumFeed = feed
                 PROVE  /\ d.configstring[1] = feed
                        /\ Follows(d.configstring, d.lastExecutedServerCommand,
                                   server, serverCommands)
      BY DEF StringOK
    <3>1. /\ m.configstring[1] = feed
          /\ Follows(m.configstring, m.reliableSequence, server, serverCommands)
      BY <1>3, <1>8, <2>1 DEF MessageOK
    <3>2. \A k \in 1 .. Len(serverCommands) :
            m.reliableSequence < k => client.lastExecutedServerCommand < k
      BY <1>5, <1>11, <1>12
    <3>. QED BY <1>8, <2>1, <3>1, <3>2 DEF Follows
  <2>2. CASE ~m.gamestate
    BY <1>2, <1>9, <2>2 DEF StringOK
  <2>. QED BY <2>1, <2>2
<1>. QED BY <1>1, <1>14, <1>15, <1>16, <1>17, <1>18
         DEF IInv, StateInv, ToServerInv, ToClientInv

-----------------------------------------------------------------------------
(* The steps of the server.                                                *)

LEMMA ServerGoesOn ==
  ASSUME IInv, NEW t, NEW more, GoesOn(server, t, serverCommands, more),
         t.state = "connected" => client.checksumFeed < t.checksumFeed,
         t.state = "active" \/ t.serverId > t.checksumFeed => client.checksumFeed = t.checksumFeed,
         \A k \in 1 .. Len(more) :
           Len(serverCommands) < k => /\ CommandOK(k, t, client, more)
                                      /\ more[k].kind = "cs" => SetsIn(t, more, k)
  PROVE  /\ ClientOK(client, t, Len(more)) /\ CommandsOK(t, client, more)
         /\ RequestsOK(t, clientCommands) /\ StringOK(client, t, more)
         /\ MessagesOK(toClient, t, client, more)
         /\ PacketsOK(toServer, t, client, Len(clientCommands))
<1> DEFINE n == Len(clientCommands)
<1>1. /\ client \in Clients /\ ClientOK(client, server, Len(serverCommands))
      /\ CommandsOK(server, client, serverCommands) /\ StringOK(client, server, serverCommands)
      /\ RequestsOK(server, clientCommands)
      /\ MessagesOK(toClient, server, client, serverCommands)
      /\ PacketsOK(toServer, server, client, n)
  BY DEF IInv, StateInv, ClientOK, ToClientInv, ToServerInv
<1>2. /\ server.serverId \in Nat /\ server.checksumFeed \in Nat
      /\ server.checksumFeed <= server.serverId
      /\ t.serverId \in Nat /\ t.checksumFeed \in Nat
      /\ Len(serverCommands) \in Nat /\ Len(more) \in Nat /\ Len(serverCommands) <= Len(more)
      /\ n \in Nat
  BY NumbersOf, ServerStays
<1>3. /\ client.checksumFeed \in Nat /\ client.serverId \in Nat
      /\ client.serverCommandSequence \in Nat /\ client.lastExecutedServerCommand \in Nat
  BY <1>1, ClientNumbers
<1>4. /\ client.checksumFeed <= server.checksumFeed
      /\ client.lastExecutedServerCommand <= client.serverCommandSequence
      /\ client.serverCommandSequence <= Len(serverCommands)
      /\ client.snap.serverCommandNum <= client.serverCommandSequence
      /\ client.snap.active => client.snap.checksumFeed = client.checksumFeed
      /\ Current(server, client.serverId, client.checksumFeed)
      /\ server.state = "connected" => client.checksumFeed < server.checksumFeed
  BY <1>1 DEF ClientOK
<1>5. client.checksumFeed <= t.checksumFeed /\ client.checksumFeed <= client.checksumFeed
  <2>1. t.checksumFeed = server.checksumFeed \/ server.serverId < t.checksumFeed
    BY DEF GoesOn, SameMap, LaterMap
  <2>. QED BY <1>2, <1>3, <1>4, <2>1
<1>6. Current(t, client.serverId, client.checksumFeed)
  BY <1>3, <1>4, CurrentStays
<1>7. /\ client.serverCommandSequence <= Len(more)
      /\ client.lastExecutedServerCommand <= Len(serverCommands)
  BY <1>2, <1>3, <1>4
<1>8. ClientOK(client, t, Len(more))
  BY <1>1, <1>4, <1>5, <1>6, <1>7 DEF ClientOK
<1>9. CommandsOK(t, client, more)
  BY <1>1, <1>5, CommandsStay
<1>10. RequestsOK(t, clientCommands)
  BY <1>1, RequestsStay
<1>11. StringOK(client, t, more)
  <2>1. server.state = "connected" => client.checksumFeed # server.checksumFeed
    BY <1>2, <1>3, <1>4
  <2>. QED BY <1>1, <1>4, <1>7, <2>1, StringStays
<1>12. MessagesOK(toClient, t, client, more)
  BY <1>1, MessagesStay
<1>13. PacketsOK(toServer, t, client, n)
  <2>1. n <= n
    BY <1>2
  <2>. QED BY <1>1, <1>2, <1>5, <2>1, PacketsStay
<1>. QED BY <1>8, <1>9, <1>10, <1>11, <1>12, <1>13

LEMMA ServerRecord ==
  ASSUME IInv
  PROVE  /\ server \in Servers /\ ServerOK(server, Len(clientCommands))
         /\ server.serverId \in Nat /\ server.checksumFeed \in Nat /\ server.systeminfo \in Nat
         /\ server.lastClientCommand \in Nat /\ server.configstring \in Nat \X Nat
         /\ server.time \in Nat /\ server.oldServerTime \in Nat
         /\ Len(clientCommands) \in Nat /\ Len(serverCommands) \in Nat
         /\ serverCommands \in Seq(StringCommands \cup IdCommands)
         /\ client.checksumFeed \in Nat
<1>1. server \in Servers /\ ServerOK(server, Len(clientCommands)) /\ client \in Clients
  BY DEF IInv, StateInv, ServerOK, ClientOK
<1>2. /\ server.serverId \in Nat /\ server.checksumFeed \in Nat /\ server.systeminfo \in Nat
      /\ server.lastClientCommand \in Nat /\ server.configstring \in Nat \X Nat
      /\ server.time \in Nat /\ server.oldServerTime \in Nat
  BY <1>1 DEF Servers
<1>. QED BY <1>1, <1>2, ServerStays, ClientNumbers DEF GoesOn

LEMMA NothingNew ==
  ASSUME NEW s, NEW t, NEW n \in Nat, ServerOK(s, n), ServerOK(t, n),
         NEW commands \in Seq(StringCommands \cup IdCommands),
         SameMap(s, t, commands, commands) \/ LaterMap(s, t)
  PROVE  /\ GoesOn(s, t, commands, commands)
         /\ \A k \in 1 .. Len(commands) : ~(Len(commands) < k)
<1>1. Extends(commands, commands) /\ \A k \in 1 .. Len(commands) : ~(Len(commands) < k)
  BY DEF Extends
<1>. QED BY <1>1 DEF GoesOn

\* Every serverId there was is below the feed of the new map.
LEMMA SV_SpawnServerInv == ASSUME IInv, SV_SpawnServer PROVE IInv'
<1> DEFINE t == Spawned(server)  id == server.serverId + 1  n == Len(clientCommands)
           string == <<id, server.configstring[2]>>
<1>1. /\ server.serverId < MaxServerId /\ server' = t
      /\ UNCHANGED <<client, serverCommands, clientCommands, toServer, toClient, lost>>
  BY DEF SV_SpawnServer
<1>2. /\ server \in Servers /\ ServerOK(server, n) /\ id \in Nat /\ n \in Nat
      /\ server.configstring \in Nat \X Nat /\ server.time \in Nat
      /\ serverCommands \in Seq(StringCommands \cup IdCommands)
  BY ServerRecord
<1>3. /\ t \in Servers /\ t.serverId = id /\ t.restartedServerId = id /\ t.checksumFeed = id
      /\ t.systeminfo = id /\ t.configstring = string
      /\ t.oldServerTime = server.time /\ t.time = 0 /\ t.state = "connected"
      /\ t.lastClientCommand = server.lastClientCommand
      /\ t.pureReceived = server.pureReceived /\ t.pureAuthentic = server.pureAuthentic
  <2> DEFINE a == [server EXCEPT !.serverId = id, !.restartedServerId = id,
                                 !.checksumFeed = id, !.systeminfo = id]
             b == [a EXCEPT !.configstring = string, !.oldServerTime = server.time, !.time = 0,
                            !.state = "connected"]
  <2>1. t = b
    BY DEF Spawned
  <2>2. /\ a \in Servers /\ a.serverId = id /\ a.restartedServerId = id /\ a.checksumFeed = id
        /\ a.systeminfo = id /\ a.lastClientCommand = server.lastClientCommand
        /\ a.pureReceived = server.pureReceived /\ a.pureAuthentic = server.pureAuthentic
    BY <1>2 DEF Servers
  <2>3. string \in Nat \X Nat
    BY <1>2
  <2> HIDE DEF t, a, string
  <2>4. /\ b \in Servers /\ b.serverId = a.serverId /\ b.restartedServerId = a.restartedServerId
        /\ b.checksumFeed = a.checksumFeed /\ b.systeminfo = a.systeminfo
        /\ b.configstring = string
        /\ b.oldServerTime = server.time /\ b.time = 0 /\ b.state = "connected"
        /\ b.lastClientCommand = a.lastClientCommand
        /\ b.pureReceived = a.pureReceived /\ b.pureAuthentic = a.pureAuthentic
    BY <1>2, <2>2, <2>3 DEF Servers
  <2> HIDE DEF b
  <2>. QED BY <2>1, <2>2, <2>4
<1> HIDE DEF t
<1>4. ServerOK(t, n)
  <2>1. /\ server.configstring[2] <= MaxChanges /\ server.time <= MaxTime
        /\ server.lastClientCommand <= n
        /\ server.pureReceived => server.pureAuthentic
    BY <1>2 DEF ServerOK
  <2>2. id <= MaxServerId /\ 1 <= id /\ 0 <= MaxTime
    BY <1>1, <1>2, ServerRecord, GamestateAssumption DEF GamestateAssumption
  <2>3. id <= id
    BY <1>2
  <2>4. t.configstring[1] = id /\ t.configstring[2] = server.configstring[2]
    BY <1>3
  <2> HIDE DEF id, string
  <2>. QED BY <1>3, <2>1, <2>2, <2>3, <2>4 DEF ServerOK
<1>5. /\ GoesOn(server, t, serverCommands, serverCommands)
      /\ \A k \in 1 .. Len(serverCommands) : ~(Len(serverCommands) < k)
  <2>1. LaterMap(server, t)
    BY <1>2, <1>3, ServerRecord DEF LaterMap
  <2>. QED BY <1>2, <1>4, <2>1, NothingNew
<1>6. /\ client.checksumFeed < t.checksumFeed
      /\ ~(t.state = "active" \/ t.serverId > t.checksumFeed)
  <2>1. client.checksumFeed <= server.checksumFeed /\ server.checksumFeed <= server.serverId
    BY ServerRecord, ServerStays, NumbersOf DEF IInv, StateInv, ClientOK
  <2>. QED BY <1>2, <1>3, <2>1, ServerRecord
<1>. QED BY <1>1, <1>4, <1>5, <1>6, ServerGoesOn DEF IInv, StateInv, ToServerInv, ToClientInv

LEMMA OneMore ==
  ASSUME NEW s, NEW t, NEW n \in Nat, ServerOK(s, n), ServerOK(t, n),
         NEW commands \in Seq(StringCommands \cup IdCommands),
         NEW command \in StringCommands \cup IdCommands, NEW c,
         t.checksumFeed = s.checksumFeed, s.serverId <= t.serverId, t.state # "connected",
         command.kind = "systeminfo" => Current(t, command.value, c.checksumFeed),
         IF command.kind = "cs"
         THEN command.value = t.configstring
         ELSE t.configstring = s.configstring
  PROVE  LET more == Append(commands, command) IN
         /\ GoesOn(s, t, commands, more)
         /\ \A k \in 1 .. Len(more) :
              Len(commands) < k => /\ CommandOK(k, t, c, more)
                                   /\ more[k].kind = "cs" => SetsIn(t, more, k)
<1> DEFINE more == Append(commands, command)  last == Len(commands) + 1
<1>1. /\ more \in Seq(StringCommands \cup IdCommands) /\ Len(more) = last
      /\ \A i \in 1 .. Len(commands) : more[i] = commands[i]
      /\ more[last] = command
      /\ Len(commands) \in Nat
  BY AppendProperties
<1> HIDE DEF more
<1>2. Extends(commands, more)
  BY <1>1 DEF Extends
<1>3. command.kind = "cs" => SetsIn(t, more, last)
  <2>1. t.configstring[1] = t.checksumFeed
    BY DEF ServerOK
  <2>. QED BY <1>1, <2>1 DEF SetsIn
<1>4. \A k \in 1 .. Len(more) : Len(commands) < k => k = last
  BY <1>1
<1>5. GoesOn(s, t, commands, more)
  <2>1. last \in 1 .. Len(more) /\ Len(commands) < last
    BY <1>1
  <2>2. SameMap(s, t, commands, more)
    BY <1>3, <2>1 DEF SameMap
  <2>. QED BY <1>1, <1>2, <2>2 DEF GoesOn
<1>6. CommandOK(last, t, c, more)
  <2>1. t.checksumFeed \in Nat /\ t.configstring[1] = t.checksumFeed
    BY DEF ServerOK, Servers
  <2>2. more[last].kind = "systeminfo" => Current(t, more[last].value, c.checksumFeed)
    BY <1>1
  <2>3. more[last].kind = "cs" => /\ more[last].value[1] <= t.checksumFeed
                                  /\ Follows(more[last].value, last, t, more)
    BY <1>1, <2>1 DEF Follows
  <2>4. \A k \in 1 .. Len(more) : ~(last < k)
    BY <1>1
  <2>. QED BY <2>2, <2>3, <2>4 DEF CommandOK, SetsIn
<1>7. \A k \in 1 .. Len(more) :
        Len(commands) < k => /\ CommandOK(k, t, c, more)
                             /\ more[k].kind = "cs" => SetsIn(t, more, k)
  BY <1>1, <1>3, <1>4, <1>6
<1>. QED BY <1>5, <1>7 DEF more

\* A restart is of a map that the client has, or sets rushed.
LEMMA SV_MapRestartInv == ASSUME IInv, ~rushed', SV_MapRestart_f PROVE IInv'
<1> DEFINE t == Restarted(server)  id == server.serverId + 1  n == Len(clientCommands)
           command == [kind |-> "map_restart", value |-> 0]
           more == Append(serverCommands, command)
<1>1. /\ server.serverId < MaxServerId /\ client.checksumFeed = server.checksumFeed
      /\ server' = t /\ serverCommands' = more
      /\ UNCHANGED <<client, clientCommands, toServer, toClient, lost>>
  BY DEF SV_MapRestart_f
<1>2. /\ server \in Servers /\ ServerOK(server, n) /\ n \in Nat
      /\ server.serverId \in Nat /\ id \in Nat
      /\ serverCommands \in Seq(StringCommands \cup IdCommands)
  BY ServerRecord
<1>3. /\ t \in Servers /\ t.serverId = id /\ t.restartedServerId = server.restartedServerId
      /\ t.checksumFeed = server.checksumFeed
      /\ t.systeminfo = server.systeminfo /\ t.configstring = server.configstring
      /\ t.oldServerTime = server.oldServerTime /\ t.time = server.time /\ t.state = "active"
      /\ t.lastClientCommand = server.lastClientCommand
      /\ t.pureReceived = server.pureReceived /\ t.pureAuthentic = server.pureAuthentic
  BY <1>2 DEF Restarted, Servers
<1> HIDE DEF t
<1>4. id <= MaxServerId /\ server.systeminfo <= id /\ server.serverId <= id
  <2>1. server.systeminfo <= server.serverId /\ server.systeminfo \in Nat /\ MaxServerId \in Nat
    BY <1>2, ServerRecord, GamestateAssumption DEF ServerOK, GamestateAssumption
  <2>. QED BY <1>1, <1>2, <2>1
<1> HIDE DEF id
<1>5. ServerOK(t, n)
  BY <1>2, <1>3, <1>4 DEF ServerOK
<1>6. command \in StringCommands \cup IdCommands /\ command.kind = "map_restart"
  BY DEF IdCommands
<1> HIDE DEF command
<1>7. /\ GoesOn(server, t, serverCommands, more)
      /\ \A k \in 1 .. Len(more) :
           Len(serverCommands) < k => /\ CommandOK(k, t, client, more)
                                      /\ more[k].kind = "cs" => SetsIn(t, more, k)
  <2>1. /\ t.state # "connected" /\ t.checksumFeed = server.checksumFeed
        /\ server.serverId <= t.serverId /\ t.configstring = server.configstring
    BY <1>3, <1>4
  <2>. QED BY <1>2, <1>5, <1>6, <2>1, OneMore
<1>8. t.state # "connected" /\ client.checksumFeed = t.checksumFeed
  BY <1>1, <1>3
<1>. QED BY <1>1, <1>5, <1>7, <1>8, ServerGoesOn DEF IInv, StateInv, ToServerInv, ToClientInv

LEMMA SV_SetConfigstringInv == ASSUME IInv, SV_SetConfigstring PROVE IInv'
<1> DEFINE value == <<server.configstring[1], server.configstring[2] + 1>>
           t == [server EXCEPT !.configstring = value]
           n == Len(clientCommands)
           command == [kind |-> "cs", value |-> value]
           more == Append(serverCommands, command)
<1>1. /\ server.configstring[2] < MaxChanges
      /\ server' = t /\ serverCommands' = Told(server, serverCommands, "cs", value)
      /\ UNCHANGED <<client, clientCommands, toServer, toClient, lost>>
  BY DEF SV_SetConfigstring
<1>2. /\ server \in Servers /\ ServerOK(server, n) /\ n \in Nat
      /\ server.configstring \in Nat \X Nat /\ server.serverId \in Nat
      /\ serverCommands \in Seq(StringCommands \cup IdCommands)
  BY ServerRecord
<1>3. /\ value \in Nat \X Nat /\ value[1] = server.configstring[1] /\ value[2] <= MaxChanges
  BY <1>1, <1>2, GamestateAssumption DEF GamestateAssumption
<1>4. command \in StringCommands \cup IdCommands /\ command.kind = "cs" /\ command.value = value
  BY <1>3 DEF StringCommands
<1>5. serverCommands' = IF server.state \in {"primed", "active"} THEN more ELSE serverCommands
  BY <1>1 DEF Told
<1> HIDE DEF value, command, more
<1>6. /\ t \in Servers /\ t.serverId = server.serverId
      /\ t.restartedServerId = server.restartedServerId
      /\ t.checksumFeed = server.checksumFeed
      /\ t.systeminfo = server.systeminfo /\ t.configstring = value
      /\ t.oldServerTime = server.oldServerTime /\ t.time = server.time /\ t.state = server.state
      /\ t.lastClientCommand = server.lastClientCommand
      /\ t.pureReceived = server.pureReceived /\ t.pureAuthentic = server.pureAuthentic
  BY <1>2, <1>3 DEF Servers
<1> HIDE DEF t
<1>7. ServerOK(t, n)
  BY <1>2, <1>3, <1>6 DEF ServerOK
<1>8. /\ t.state = "connected" => client.checksumFeed < t.checksumFeed
      /\ t.state = "active" \/ t.serverId > t.checksumFeed => client.checksumFeed = t.checksumFeed
  BY <1>6 DEF IInv, StateInv, ClientOK
<1>9. server.serverId <= t.serverId
  BY <1>2, <1>6
<1>10. CASE server.state \in {"primed", "active"}
  <2>1. /\ GoesOn(server, t, serverCommands, more)
        /\ \A k \in 1 .. Len(more) :
             Len(serverCommands) < k => /\ CommandOK(k, t, client, more)
                                        /\ more[k].kind = "cs" => SetsIn(t, more, k)
    <3>1. t.state # "connected"
      BY <1>6, <1>10
    <3>. QED BY <1>2, <1>4, <1>6, <1>7, <1>9, <3>1, OneMore DEF more
  <2>2. serverCommands' = more
    BY <1>5, <1>10
  <2>. QED BY <1>1, <1>7, <1>8, <2>1, <2>2, ServerGoesOn
           DEF IInv, StateInv, ToServerInv, ToClientInv
<1>11. CASE server.state = "connected"
  <2>1. SameMap(server, t, serverCommands, serverCommands)
    BY <1>6, <1>9, <1>11 DEF SameMap
  <2>2. /\ GoesOn(server, t, serverCommands, serverCommands)
        /\ \A k \in 1 .. Len(serverCommands) : ~(Len(serverCommands) < k)
    BY <1>2, <1>7, <2>1, NothingNew
  <2>3. serverCommands' = serverCommands
    BY <1>5, <1>11
  <2>. QED BY <1>1, <1>7, <1>8, <2>2, <2>3, ServerGoesOn
           DEF IInv, StateInv, ToServerInv, ToClientInv
<1>12. server.state \in {"connected", "primed", "active"}
  BY <1>2 DEF Servers
<1>. QED BY <1>10, <1>11, <1>12

\* The serverId that is told of in a command is of a restart, and the client has
\* the map that was restarted.
LEMMA SV_FrameInv ==
  ASSUME IInv, NEW time, NEW due \in BOOLEAN, SV_Frame(time, due)
  PROVE  IInv'
<1> DEFINE id == server.serverId
           t == [server EXCEPT !.systeminfo = id, !.time = time]
           n == Len(clientCommands)
           command == [kind |-> "systeminfo", value |-> id]
           more == Append(serverCommands, command)
           commands == IF server.systeminfo # id
                       THEN Told(server, serverCommands, "systeminfo", id)
                       ELSE serverCommands
           m == Message(t, commands, FALSE)
<1>1. /\ time \in {server.time, server.time + 1} /\ time <= MaxTime
      /\ server' = t /\ serverCommands' = commands
      /\ IF due THEN Len(toClient) < Capacity /\ toClient' = Append(toClient, m)
                ELSE UNCHANGED toClient
      /\ UNCHANGED <<client, clientCommands, toServer, lost>>
  BY DEF SV_Frame
<1>2. /\ server \in Servers /\ ServerOK(server, n) /\ n \in Nat
      /\ id \in Nat /\ server.systeminfo \in Nat /\ server.checksumFeed \in Nat
      /\ server.time \in Nat /\ client.checksumFeed \in Nat
      /\ serverCommands \in Seq(StringCommands \cup IdCommands)
  BY ServerRecord
<1>3. time \in Nat
  BY <1>1, <1>2
<1>4. /\ t \in Servers /\ t.serverId = id /\ t.restartedServerId = server.restartedServerId
      /\ t.checksumFeed = server.checksumFeed
      /\ t.systeminfo = id /\ t.configstring = server.configstring
      /\ t.oldServerTime = server.oldServerTime /\ t.time = time /\ t.state = server.state
      /\ t.lastClientCommand = server.lastClientCommand
      /\ t.pureReceived = server.pureReceived /\ t.pureAuthentic = server.pureAuthentic
  BY <1>2, <1>3 DEF Servers
<1> HIDE DEF t
<1>5. ServerOK(t, n)
  <2>1. server.checksumFeed <= id /\ id <= id
    <3>1. server.checksumFeed <= server.systeminfo /\ server.systeminfo <= id
      BY <1>2 DEF ServerOK
    <3>. QED BY <1>2, <3>1
  <2>. QED BY <1>1, <1>2, <1>4, <2>1 DEF ServerOK
<1>6. /\ t.state = "connected" => client.checksumFeed < t.checksumFeed
      /\ t.state = "active" \/ t.serverId > t.checksumFeed => client.checksumFeed = t.checksumFeed
  BY <1>4 DEF IInv, StateInv, ClientOK
<1>7. /\ GoesOn(server, t, serverCommands, commands)
      /\ \A k \in 1 .. Len(commands) :
           Len(serverCommands) < k => /\ CommandOK(k, t, client, commands)
                                      /\ commands[k].kind = "cs" => SetsIn(t, commands, k)
  <2>1. CASE server.systeminfo # id /\ server.state \in {"primed", "active"}
    <3>1. commands = more
      BY <2>1 DEF Told
    <3>2. command \in StringCommands \cup IdCommands /\ command.kind = "systeminfo"
          /\ command.value = id
      BY <1>2 DEF IdCommands
    <3>3. Current(t, id, client.checksumFeed)
      <4>1. server.checksumFeed <= server.systeminfo /\ server.systeminfo <= id
        BY <1>2 DEF ServerOK
      <4>2. id > server.checksumFeed
        BY <1>2, <2>1, <4>1
      <4>3. client.checksumFeed = t.checksumFeed
        BY <1>4, <1>6, <4>2
      <4>4. id <= id
        BY <1>2
      <4>. QED BY <1>4, <4>3, <4>4 DEF Current
    <3> HIDE DEF command, commands
    <3>4. /\ GoesOn(server, t, serverCommands, more)
          /\ \A k \in 1 .. Len(more) :
               Len(serverCommands) < k => /\ CommandOK(k, t, client, more)
                                          /\ more[k].kind = "cs" => SetsIn(t, more, k)
      <4>1. t.state # "connected" /\ server.serverId <= t.serverId
        BY <1>2, <1>4, <2>1
      <4>. QED BY <1>2, <1>4, <1>5, <3>2, <3>3, <4>1, OneMore
    <3>. QED BY <3>1, <3>4
  <2>2. CASE ~(server.systeminfo # id /\ server.state \in {"primed", "active"})
    <3>1. commands = serverCommands
      BY <2>2 DEF Told
    <3>2. SameMap(server, t, serverCommands, serverCommands)
      BY <1>2, <1>4 DEF SameMap
    <3> HIDE DEF commands
    <3>3. /\ GoesOn(server, t, serverCommands, serverCommands)
          /\ \A k \in 1 .. Len(serverCommands) : ~(Len(serverCommands) < k)
      BY <1>2, <1>5, <3>2, NothingNew
    <3>. QED BY <3>1, <3>3
  <2>. QED BY <2>1, <2>2
<1> HIDE DEF commands, m
<1>8. /\ ClientOK(client, t, Len(commands)) /\ CommandsOK(t, client, commands)
      /\ RequestsOK(t, clientCommands) /\ StringOK(client, t, commands)
      /\ MessagesOK(toClient, t, client, commands)
      /\ PacketsOK(toServer, t, client, n)
  BY <1>6, <1>7, ServerGoesOn
<1>9. MessagesOK(toClient', t, client, commands)
  <2>1. CASE due
    <3>1. /\ MessageOK(m, t, client, commands)
          /\ m.checksumFeed = t.checksumFeed /\ m.reliableSequence = Len(commands)
      BY <1>2, <1>5, <1>8, MessageIsOK DEF m
    <3>. QED BY <1>1, <1>8, <2>1, <3>1, MessagesAppend
  <2>2. CASE ~due
    BY <1>1, <1>8, <2>2
  <2>. QED BY <2>1, <2>2
<1>. QED BY <1>1, <1>5, <1>8, <1>9 DEF IInv, StateInv, ToServerInv, ToClientInv

\* What became of a server that looked at a message; it is not in the game unless
\* it was, or the message comes from its map.
Answered(s, t, n, same) ==
  /\ ServerOK(t, n)
  /\ t.checksumFeed = s.checksumFeed /\ t.serverId = s.serverId
  /\ t.configstring = s.configstring
  /\ t.state = "connected" => s.state = "connected"
  /\ t.state = "active" => s.state = "active" \/ same

LEMMA AnsweredSelf ==
  ASSUME NEW s, NEW n, ServerOK(s, n), NEW same \in BOOLEAN
  PROVE  Answered(s, s, n, same)
BY DEF Answered

LEMMA AnsweredTwice ==
  ASSUME NEW s, NEW t, NEW u, NEW n, NEW same \in BOOLEAN,
         Answered(s, t, n, same), Answered(t, u, n, same)
  PROVE  Answered(s, u, n, same)
BY DEF Answered

LEMMA PrimedAnswered ==
  ASSUME NEW s, NEW n, ServerOK(s, n), NEW same \in BOOLEAN
  PROVE  Answered(s, Primed(s), n, same) /\ Primed(s).state = "primed"
<1> DEFINE t == Primed(s)
<1>1. s \in Servers
  BY DEF ServerOK
<1>2. /\ t \in Servers /\ t.serverId = s.serverId
      /\ t.restartedServerId = s.restartedServerId /\ t.checksumFeed = s.checksumFeed
      /\ t.systeminfo = s.systeminfo /\ t.configstring = s.configstring
      /\ t.oldServerTime = s.oldServerTime /\ t.time = s.time /\ t.state = "primed"
      /\ t.lastClientCommand = s.lastClientCommand
      /\ t.pureReceived = FALSE /\ t.pureAuthentic = FALSE
  BY <1>1 DEF Primed, Servers
<1> HIDE DEF t
<1>3. Answered(s, t, n, same) /\ t.state = "primed"
  BY <1>2 DEF ServerOK, Answered
<1>. QED BY <1>3 DEF t

\* Who was checked passed.
LEMMA MovedAnswered ==
  ASSUME NEW s, NEW n, ServerOK(s, n)
  PROVE  /\ Answered(s, Moved(s).next, n, TRUE) /\ Moved(s).gamestate \in BOOLEAN
         /\ Moved(s).gamestate => Moved(s).next.state = "primed"
<1> DEFINE entered == IF s.state = "primed" THEN [s EXCEPT !.state = "active"] ELSE s
           a == Moved(s)
<1>1. s \in Servers /\ (s.pureReceived => s.pureAuthentic)
  BY DEF ServerOK
<1>2. s.pure \in BOOLEAN /\ s.pureReceived \in BOOLEAN /\ s.pureAuthentic \in BOOLEAN
  BY <1>1 DEF Servers
<1>3. CASE s.pure /\ ~s.pureReceived
  <2> DEFINE active == s.state = "active"
             next == IF active THEN Primed(s) ELSE s
  <2>1. a = [next |-> next, gamestate |-> active]
    BY <1>3 DEF Moved
  <2> HIDE DEF a
  <2>2. CASE active
    <3>1. a.next = Primed(s) /\ a.gamestate = TRUE
      BY <2>1, <2>2
    <3>2. Answered(s, Primed(s), n, TRUE) /\ Primed(s).state = "primed"
      BY PrimedAnswered
    <3>. QED BY <3>1, <3>2, Zenon DEF a
  <2>3. CASE ~active
    <3>1. a.next = s /\ a.gamestate = FALSE
      BY <2>1, <2>3
    <3>2. Answered(s, s, n, TRUE)
      BY AnsweredSelf
    <3>. QED BY <3>1, <3>2 DEF a
  <2>. QED BY <2>2, <2>3
<1>4. CASE ~(s.pure /\ ~s.pureReceived)
  <2>1. entered \in Servers /\ entered.pure = s.pure /\ entered.pureAuthentic = s.pureAuthentic
        /\ Answered(s, entered, n, TRUE)
    <3>1. CASE s.state = "primed"
      <4> DEFINE t == [s EXCEPT !.state = "active"]
      <4>1. /\ t \in Servers /\ t.pure = s.pure /\ t.serverId = s.serverId
            /\ t.restartedServerId = s.restartedServerId /\ t.checksumFeed = s.checksumFeed
            /\ t.systeminfo = s.systeminfo /\ t.configstring = s.configstring
            /\ t.oldServerTime = s.oldServerTime /\ t.time = s.time /\ t.state = "active"
            /\ t.lastClientCommand = s.lastClientCommand
            /\ t.pureReceived = s.pureReceived /\ t.pureAuthentic = s.pureAuthentic
        BY <1>1 DEF Servers
      <4>2. entered = t
        BY <3>1
      <4> HIDE DEF t, entered
      <4>3. ServerOK(t, n)
        BY <4>1 DEF ServerOK
      <4>. QED BY <4>1, <4>2, <4>3 DEF Answered
    <3>2. CASE s.state # "primed"
      BY <1>1, <3>2, AnsweredSelf
    <3>. QED BY <3>1, <3>2
  <2>2. a = [next |-> IF s.pure /\ ~s.pureAuthentic THEN [entered EXCEPT !.state = "zombie"]
                      ELSE entered,
             gamestate |-> FALSE]
    <3>1. entered.pureAuthentic = s.pureAuthentic
      BY <2>1
    <3>. QED BY <1>4 DEF Moved
  <2>3. ~(s.pure /\ ~s.pureAuthentic)
    BY <1>1, <1>2, <1>4
  <2> HIDE DEF a, entered
  <2>4. a.next = entered /\ a.gamestate = FALSE
    BY <2>2, <2>3
  <2>. QED BY <2>1, <2>4 DEF a
<1>. QED BY <1>3, <1>4

LEMMA ExecutedAnswered ==
  ASSUME NEW s, NEW n, n = Len(clientCommands), ServerOK(s, n), RequestsOK(s, clientCommands),
         NEW m, m.reliableSequence \in 0 .. n, NEW same \in BOOLEAN
  PROVE  LET t == Executed([s EXCEPT !.oldServerTime = 0], m) IN Answered(s, t, n, same)
<1> DEFINE u == [s EXCEPT !.oldServerTime = 0]  t == Executed(u, m)
<1>1. s \in Servers /\ clientCommands \in Seq(ClientCommands) /\ n \in Nat
  BY DEF ServerOK, RequestsOK
<1>2. /\ u \in Servers /\ u.serverId = s.serverId
      /\ u.restartedServerId = s.restartedServerId /\ u.checksumFeed = s.checksumFeed
      /\ u.systeminfo = s.systeminfo /\ u.configstring = s.configstring
      /\ u.oldServerTime = 0 /\ u.time = s.time /\ u.state = s.state
      /\ u.lastClientCommand = s.lastClientCommand
      /\ u.pureReceived = s.pureReceived /\ u.pureAuthentic = s.pureAuthentic
  BY <1>1 DEF Servers
<1> HIDE DEF u
<1>3. ServerOK(u, n)
  <2>1. 0 <= MaxTime
    BY GamestateAssumption DEF GamestateAssumption
  <2>. QED BY <1>2, <2>1 DEF ServerOK
<1>4. \A i \in 1 .. Len(clientCommands) :
        clientCommands[i].serverId >= u.checksumFeed =>
          clientCommands[i].checksumFeed = u.checksumFeed
  BY <1>2 DEF RequestsOK, Current
<1>5. /\ u.pureReceived => u.pureAuthentic
      /\ u.lastClientCommand <= Len(clientCommands)
  BY <1>3 DEF ServerOK
<1>6. PICK k \in Nat : Judged(u, t, k) /\ u.lastClientCommand + k <= Len(clientCommands)
  BY <1>1, <1>2, <1>4, <1>5, ExecutedJudged
<1> HIDE DEF t
<1>7. /\ t \in Servers /\ (t.pureReceived => t.pureAuthentic)
      /\ SameButJudged(u, t) /\ t.lastClientCommand <= n
  BY <1>6 DEF Judged
<1>8. ServerOK(t, n)
  BY <1>3, <1>7 DEF ServerOK, SameButJudged
<1>9. Answered(s, t, n, same)
  BY <1>2, <1>7, <1>8 DEF Answered, SameButJudged
<1>. QED BY <1>9 DEF t, u

LEMMA AnswerAnswered ==
  ASSUME NEW s, NEW n, n = Len(clientCommands), ServerOK(s, n), RequestsOK(s, clientCommands),
         NEW c, NEW k, ClientOK(c, s, k), NEW m, PacketOK(m, s, c, n)
  PROVE  LET a == Answer(s, m) IN
         /\ Answered(s, a.next, n, c.checksumFeed = s.checksumFeed)
         /\ a.gamestate \in BOOLEAN
         /\ a.gamestate => a.next.state = "primed"
<1> DEFINE a == Answer(s, m)
           same == c.checksumFeed = s.checksumFeed
           u == Executed([s EXCEPT !.oldServerTime = 0], m)
           beforeRestart == m.serverId >= s.restartedServerId /\ m.serverId < s.serverId
<1>1. /\ m.serverId \in Nat /\ m.later \in BOOLEAN /\ m.reliableSequence \in Nat
      /\ m.reliableSequence <= n /\ m.checksumFeed \in Nat /\ m.checksumFeed <= c.checksumFeed
      /\ Current(s, m.serverId, m.checksumFeed)
  BY DEF PacketOK, Packets
<1>2. same \in BOOLEAN /\ n \in Nat
  BY DEF RequestsOK
<1>3. CASE m.serverId # s.serverId
  <2>1. CASE ~beforeRestart /\ Resend(m)
    <3>1. a.next = Primed(s) /\ a.gamestate = TRUE
      BY <1>3, <2>1 DEF Answer
    <3>2. Answered(s, Primed(s), n, same) /\ Primed(s).state = "primed"
      BY <1>2, PrimedAnswered
    <3>. QED BY <3>1, <3>2, Zenon
  <2>2. CASE ~(~beforeRestart /\ Resend(m))
    <3>1. a.next = s /\ a.gamestate = FALSE
      BY <1>3, <2>2 DEF Answer
    <3>2. Answered(s, s, n, same)
      BY <1>2, AnsweredSelf
    <3>. QED BY <3>1, <3>2
  <2>. QED BY <2>1, <2>2
<1>4. CASE m.serverId = s.serverId
  <2>1. same
    <3>1. s.serverId \in Nat /\ s.checksumFeed \in Nat /\ c.checksumFeed \in Nat
      BY DEF ServerOK, Servers, ClientOK, Clients
    <3>2. s.checksumFeed <= s.serverId
      <4>1. s.checksumFeed <= s.systeminfo /\ s.systeminfo <= s.serverId /\ s.systeminfo \in Nat
        BY DEF ServerOK, Servers
      <4>. QED BY <3>1, <4>1
    <3>3. m.checksumFeed = s.checksumFeed
      BY <1>1, <1>4, <3>1, <3>2 DEF Current
    <3>4. c.checksumFeed <= s.checksumFeed
      BY DEF ClientOK
    <3>. QED BY <1>1, <3>1, <3>3, <3>4
  <2>2. Answered(s, u, n, TRUE)
    <3>1. m.reliableSequence \in 0 .. n
      BY <1>1, <1>2
    <3>. QED BY <3>1, ExecutedAnswered
  <2> HIDE DEF u
  <2>3. ServerOK(u, n)
    BY <2>2 DEF Answered
  <2>4. CASE u.state # "zombie" /\ m.move
    <3>1. a = Moved(u)
      BY <1>4, <2>4 DEF Answer, u
    <3>2. /\ Answered(u, Moved(u).next, n, TRUE) /\ Moved(u).gamestate \in BOOLEAN
          /\ Moved(u).gamestate => Moved(u).next.state = "primed"
      BY <2>3, MovedAnswered
    <3>3. Answered(s, Moved(u).next, n, TRUE)
      BY <2>2, <3>2, AnsweredTwice
    <3>4. Answered(s, Moved(u).next, n, same)
      BY <2>1, <3>3 DEF Answered
    <3>. QED BY <3>1, <3>2, <3>4, Zenon
  <2>5. CASE ~(u.state # "zombie" /\ m.move)
    <3>1. a.next = u /\ a.gamestate = FALSE
      BY <1>4, <2>5 DEF Answer, u
    <3>2. Answered(s, u, n, same)
      BY <2>1, <2>2 DEF Answered
    <3>. QED BY <3>1, <3>2
  <2>. QED BY <2>4, <2>5
<1>. QED BY <1>3, <1>4

\* A client message: its commands and its move, or another gamestate.
LEMMA SV_ExecuteClientMessageInv == ASSUME IInv, SV_ExecuteClientMessage PROVE IInv'
<1> DEFINE m == Head(toServer)  rest == Tail(toServer)
           answer == Answer(server, m)  t == answer.next
           n == Len(clientCommands)
           d == [client EXCEPT !.later = FALSE]
           gamestate == Message(t, serverCommands, TRUE)
<1>1. /\ toServer # <<>> /\ Len(toClient) < Capacity /\ server' = t
      /\ IF answer.gamestate
         THEN /\ toServer' = Before(rest) /\ client' = d
              /\ toClient' = Append(Before(toClient), gamestate)
         ELSE toServer' = rest /\ UNCHANGED <<toClient, client>>
      /\ UNCHANGED <<serverCommands, clientCommands, lost>>
  BY DEF SV_ExecuteClientMessage
<1>2. /\ ServerOK(server, n) /\ n \in Nat
      /\ serverCommands \in Seq(StringCommands \cup IdCommands)
      /\ server.serverId \in Nat
  BY ServerRecord
<1>3. /\ client \in Clients /\ ClientOK(client, server, Len(serverCommands))
      /\ RequestsOK(server, clientCommands)
      /\ PacketsOK(toServer, server, client, n)
  BY DEF IInv, StateInv, ClientOK, ToServerInv
<1>4. PacketOK(m, server, client, n)
  BY <1>1, <1>3, PacketsRest
<1> HIDE DEF m
<1>5. /\ Answered(server, t, n, client.checksumFeed = server.checksumFeed)
      /\ answer.gamestate \in BOOLEAN
      /\ answer.gamestate => t.state = "primed"
  BY <1>2, <1>3, <1>4, AnswerAnswered
<1> HIDE DEF answer
<1> HIDE DEF t
<1>6. ServerOK(t, n) /\ t.checksumFeed = server.checksumFeed /\ t.serverId = server.serverId
  BY <1>5 DEF Answered
<1>7. GoesOn(server, t, serverCommands, serverCommands)
      /\ \A k \in 1 .. Len(serverCommands) : ~(Len(serverCommands) < k)
  <2>1. SameMap(server, t, serverCommands, serverCommands)
    BY <1>2, <1>5 DEF SameMap, Answered
  <2>. QED BY <1>2, <1>6, <2>1, NothingNew
<1>8. /\ t.state = "connected" => client.checksumFeed < t.checksumFeed
      /\ t.state = "active" \/ t.serverId > t.checksumFeed => client.checksumFeed = t.checksumFeed
  BY <1>3, <1>5 DEF ClientOK, Answered
<1>9. /\ ClientOK(client, t, Len(serverCommands)) /\ CommandsOK(t, client, serverCommands)
      /\ RequestsOK(t, clientCommands) /\ StringOK(client, t, serverCommands)
      /\ MessagesOK(toClient, t, client, serverCommands)
      /\ PacketsOK(toServer, t, client, n)
  BY <1>7, <1>8, ServerGoesOn
<1>10. PacketsOK(rest, t, client, n)
  BY <1>1, <1>9, PacketsRest
<1> HIDE DEF rest
<1>11. CASE answer.gamestate
  <2>1. d \in Clients /\ SameTold(client, d)
    BY <1>3 DEF Clients, SameTold
  <2> HIDE DEF d
  <2>2. /\ PacketsOK(Before(rest), t, client, n)
        /\ MessagesOK(Before(toClient), t, client, serverCommands)
        /\ Len(Before(toClient)) < Capacity
    BY <1>1, <1>9, <1>10, PacketsBefore, MessagesBefore
  <2>3. /\ ClientOK(d, t, Len(serverCommands)) /\ CommandsOK(t, d, serverCommands)
        /\ StringOK(d, t, serverCommands)
        /\ MessagesOK(Before(toClient), t, d, serverCommands)
        /\ PacketsOK(Before(rest), t, d, n)
    BY <1>9, <2>1, <2>2, SameToldKeeps
  <2>4. /\ MessageOK(gamestate, t, d, serverCommands)
        /\ gamestate.checksumFeed = t.checksumFeed
        /\ gamestate.reliableSequence = Len(serverCommands)
    <3>1. ServerOK(t, n) /\ n \in Nat /\ t.state # "connected"
      BY <1>2, <1>5, <1>6, <1>11
    <3>2. ClientOK(d, t, Len(serverCommands)) /\ CommandsOK(t, d, serverCommands)
      BY <2>3
    <3> HIDE DEF n
    <3>. QED BY <3>1, <3>2, MessageIsOK
  <2> HIDE DEF gamestate
  <2>5. MessagesOK(Append(Before(toClient), gamestate), t, d, serverCommands)
    BY <2>2, <2>3, <2>4, MessagesAppend
  <2>. QED BY <1>1, <1>6, <1>9, <1>11, <2>3, <2>5
           DEF IInv, StateInv, ToServerInv, ToClientInv
<1>12. CASE ~answer.gamestate
  BY <1>1, <1>6, <1>9, <1>10, <1>12 DEF IInv, StateInv, ToServerInv, ToClientInv
<1>. QED BY <1>5, <1>11, <1>12

-----------------------------------------------------------------------------
LEMMA InitInv == ASSUME Init PROVE IInv
<1>1. PICK pure \in BOOLEAN : server = NewServer(pure)
  BY DEF Init
<1>2. /\ client = NewClient /\ serverCommands = <<>> /\ clientCommands = <<>>
      /\ toServer = <<>> /\ toClient = <<>> /\ lost = 0
  BY DEF Init
<1>3. /\ MaxServerId \in Nat \ {0} /\ MaxChanges \in Nat /\ MaxTime \in Nat /\ MaxLost \in Nat
      /\ Capacity \in Nat \ {0}
  BY GamestateAssumption DEF GamestateAssumption
<1>4. ServerOK(server, 0)
  <2>1. server \in Servers
    BY <1>1 DEF NewServer, Servers
  <2>. QED BY <1>1, <1>3, <2>1 DEF NewServer, ServerOK
<1>5. ClientOK(client, server, 0)
  <2>1. client \in Clients
    BY <1>2 DEF NewClient, NoSnapshot, Clients, ShownSnapshots
  <2>. QED BY <1>1, <1>2, <2>1 DEF NewServer, NewClient, NoSnapshot, ClientOK, Current
<1>6. StringOK(client, server, serverCommands)
  BY <1>1, <1>2 DEF NewServer, NewClient, StringOK
<1>7. CommandsOK(server, client, <<>>) /\ RequestsOK(server, <<>>)
  BY DEF CommandsOK, RequestsOK
<1>8. /\ PacketsOK(<<>>, server, client, 0)
      /\ MessagesOK(<<>>, server, client, serverCommands)
  BY <1>3 DEF PacketsOK, MessagesOK, InOrder
<1>9. lost \in 0 .. MaxLost /\ Len(serverCommands) = 0 /\ Len(clientCommands) = 0
  BY <1>2, <1>3
<1>. QED BY <1>2, <1>4, <1>5, <1>6, <1>7, <1>8, <1>9 DEF IInv, StateInv, ToServerInv, ToClientInv

LEMMA StutterInv == ASSUME IInv, UNCHANGED vars PROVE IInv'
BY DEF vars, IInv, StateInv, ToServerInv, ToClientInv

LEMMA NextInv == ASSUME IInv, ~rushed', Next PROVE IInv'
<1>1. CASE ClientNext
  BY <1>1, WritePacketInv, CL_ParseServerMessageInv, CL_DownloadsCompleteInv,
     CL_Vid_RestartInv, CL_SetCGameTimeInv, CL_GetServerCommandInv DEF ClientNext
<1>2. CASE ServerNext
  BY <1>2, SV_SpawnServerInv, SV_MapRestartInv, SV_SetConfigstringInv, SV_FrameInv,
     SV_ExecuteClientMessageInv DEF ServerNext
<1>3. CASE Lose
  BY <1>3, LoseInv
<1>. QED BY <1>1, <1>2, <1>3 DEF Next

\* No step takes rushed back.
LEMMA RushedStays ==
  ASSUME rushed \in BOOLEAN, [Next]_vars
  PROVE  rushed' \in BOOLEAN /\ (rushed => rushed')
<1>1. CASE ClientNext
  BY <1>1 DEF ClientNext, CL_WritePacket, CL_ParseServerMessage, CL_DownloadsComplete,
              CL_Vid_Restart_f, CL_SetCGameTime, CL_GetServerCommand
<1>2. CASE SV_MapRestart_f
  BY <1>2 DEF SV_MapRestart_f
<1>3. CASE SV_SpawnServer \/ SV_SetConfigstring \/ SV_ExecuteClientMessage
  BY <1>3 DEF SV_SpawnServer, SV_SetConfigstring, SV_ExecuteClientMessage
<1>4. ASSUME NEW time \in 0 .. MaxTime, NEW due \in BOOLEAN, SV_Frame(time, due)
      PROVE  rushed' = rushed
  BY <1>4 DEF SV_Frame
<1>5. CASE Lose
  BY <1>5 DEF Lose
<1>6. CASE UNCHANGED vars
  BY <1>6 DEF vars
<1>. QED BY <1>1, <1>2, <1>3, <1>4, <1>5, <1>6 DEF Next, ServerNext

\* The inductive invariant holds in every reachable state up to a restart that finds
\* the client without the map: the maps of server, client, messages and commands
\* agree, whatever is lost and however often the map changes.
THEOREM Invariance == Spec => []UntilRushed
<1>1. Init => UntilRushed
  BY InitInv DEF UntilRushed, Init
<1>2. UntilRushed /\ [Next]_vars => UntilRushed'
  <2> SUFFICES ASSUME UntilRushed, [Next]_vars PROVE UntilRushed'
    OBVIOUS
  <2>1. rushed' \in BOOLEAN /\ (rushed => rushed')
    BY RushedStays DEF UntilRushed
  <2>2. ASSUME ~rushed' PROVE IInv'
    <3>1. IInv
      BY <2>1, <2>2 DEF UntilRushed
    <3>2. CASE Next
      BY <2>2, <3>1, <3>2, NextInv
    <3>3. CASE UNCHANGED vars
      BY <3>1, <3>3, StutterInv
    <3>. QED BY <3>2, <3>3
  <2>. QED BY <2>1, <2>2 DEF UntilRushed
<1>. QED BY <1>1, <1>2, PTL DEF Spec

-----------------------------------------------------------------------------
(* What the invariant says.                                                *)

LEMMA NeverUnpureHolds == ASSUME UntilRushed PROVE NeverUnpure
BY DEF UntilRushed, IInv, StateInv, ServerOK, Servers, NeverUnpure

LEMMA CurrentIdHolds == ASSUME IInv PROVE CurrentIdIsCurrentMap
<1> SUFFICES ASSUME NEW i \in 1 .. Len(toServer), toServer[i].serverId = server.serverId
             PROVE  toServer[i].checksumFeed = server.checksumFeed
  BY DEF CurrentIdIsCurrentMap
<1>1. Current(server, toServer[i].serverId, toServer[i].checksumFeed)
  BY DEF IInv, ToServerInv, PacketsOK, PacketOK
<1>2. server.serverId \in Nat /\ server.checksumFeed \in Nat /\ server.checksumFeed <= server.serverId
  BY DEF IInv, StateInv, ServerOK, Servers
<1>. QED BY <1>1, <1>2 DEF Current

LEMMA TypeOKHolds == ASSUME IInv, rushed \in BOOLEAN PROVE TypeOK
<1> DEFINE n == Len(clientCommands)
           m == Len(serverCommands)
           types == [state : {"zombie", "connected", "primed", "active"}, pure : BOOLEAN,
                 serverId : 1 .. MaxServerId, restartedServerId : 1 .. server.serverId,
                 checksumFeed : 1 .. server.serverId, systeminfo : 1 .. server.serverId,
                 configstring : (1 .. MaxServerId) \X (0 .. MaxChanges),
                 lastClientCommand : 0 .. n,
                 pureReceived : BOOLEAN, pureAuthentic : BOOLEAN,
                 time : 0 .. MaxTime, oldServerTime : 0 .. MaxTime]
<1>1. n \in Nat /\ m \in Nat
  BY DEF IInv, StateInv, CommandsOK, RequestsOK
<1>2. ServerOK(server, n) /\ ClientOK(client, server, m)
  BY DEF IInv, StateInv
<1>3. MaxServerId \in Nat /\ MaxChanges \in Nat /\ MaxTime \in Nat
  BY GamestateAssumption
<1> HIDE DEF n, m
<1>4. /\ server.state \in {"connected", "primed", "active"} /\ server.pure \in BOOLEAN
      /\ server.pureReceived \in BOOLEAN /\ server.pureAuthentic \in BOOLEAN
  BY <1>2 DEF ServerOK, Servers
<1>5. /\ server.serverId \in 1 .. MaxServerId /\ server.restartedServerId \in 1 .. server.serverId
      /\ server.checksumFeed \in 1 .. server.serverId /\ server.systeminfo \in 1 .. server.serverId
  BY <1>2, <1>3 DEF ServerOK, Servers
<1>6. /\ server.lastClientCommand \in 0 .. n
      /\ server.time \in 0 .. MaxTime /\ server.oldServerTime \in 0 .. MaxTime
  BY <1>1, <1>2, <1>3 DEF ServerOK, Servers
<1>7. server.configstring \in (1 .. MaxServerId) \X (0 .. MaxChanges)
  <2>1. server.configstring \in Nat \X Nat
    BY <1>2 DEF ServerOK, Servers
  <2>2. server.configstring[1] \in 1 .. MaxServerId
    BY <1>2, <1>3, <1>5 DEF ServerOK
  <2>3. server.configstring[2] \in 0 .. MaxChanges
    BY <1>2, <1>3, <2>1 DEF ServerOK
  <2>. QED BY <2>1, <2>2, <2>3
<1>8. server = [state |-> server.state, pure |-> server.pure, serverId |-> server.serverId,
                restartedServerId |-> server.restartedServerId,
                checksumFeed |-> server.checksumFeed, systeminfo |-> server.systeminfo,
                configstring |-> server.configstring,
                lastClientCommand |-> server.lastClientCommand,
                pureReceived |-> server.pureReceived, pureAuthentic |-> server.pureAuthentic,
                time |-> server.time, oldServerTime |-> server.oldServerTime]
  BY <1>2 DEF ServerOK, Servers
<1>9. server \in types
  BY <1>4, <1>5, <1>6, <1>7, <1>8
<1>10. /\ client.state \in {"connected", "loading", "primed", "active", "dropped"}
       /\ client.serverCommandSequence \in 0 .. m
       /\ client.lastExecutedServerCommand \in 0 .. client.serverCommandSequence
       /\ client.serverId \in 0 .. server.serverId /\ client.checksumFeed \in 0 .. server.checksumFeed
  BY <1>1, <1>2, <1>5 DEF ClientOK, Clients, Current
<1>11. Len(toServer) <= Capacity /\ Len(toClient) <= Capacity /\ lost \in 0 .. MaxLost
  BY DEF IInv, StateInv, ToServerInv, ToClientInv, PacketsOK, MessagesOK
<1>. QED BY <1>9, <1>10, <1>11 DEF TypeOK, n, m

LEMMA ConfigstringsFollowHolds == ASSUME IInv PROVE ConfigstringsFollow
<1> SUFFICES ASSUME ExecutedAll
             PROVE  \/ client.configstring = server.configstring
                    \/ /\ client.configstring[1] # server.checksumFeed
                       /\ \A n \in 1 .. Len(serverCommands) :
                            ~(/\ serverCommands[n].kind = "cs"
                              /\ serverCommands[n].value = server.configstring)
  BY DEF ConfigstringsFollow
<1>1. StringOK(client, server, serverCommands) /\ client.checksumFeed = server.checksumFeed
      /\ client.lastExecutedServerCommand = Len(serverCommands)
  BY DEF IInv, StateInv, ExecutedAll
<1>2. Len(serverCommands) \in Nat /\ server.configstring[1] = server.checksumFeed
  BY DEF IInv, StateInv, CommandsOK, ServerOK
<1>3. CASE client.configstring[1] = server.checksumFeed
  <2>1. Follows(client.configstring, Len(serverCommands), server, serverCommands)
    BY <1>1, <1>3 DEF StringOK
  <2>. QED BY <1>2, <2>1 DEF Follows
<1>4. CASE client.configstring[1] # server.checksumFeed
  <2>1. ASSUME NEW n \in 1 .. Len(serverCommands) PROVE ~SetsIn(server, serverCommands, n)
    <3>1. SetsIn(server, serverCommands, n) => Len(serverCommands) < n
      BY <1>1, <1>4 DEF StringOK
    <3>. QED BY <1>2, <3>1
  <2>. QED BY <1>2, <1>4, <2>1 DEF SetsIn
<1>. QED BY <1>3, <1>4

LEMMA OneMapHolds == ASSUME UntilRushed PROVE ~rushed => OneMap
<1> SUFFICES ASSUME ~rushed PROVE OneMap
  OBVIOUS
<1>1. IInv /\ rushed \in BOOLEAN
  BY DEF UntilRushed
<1>2. SnapshotsOfOwnMap
  BY <1>1 DEF IInv, StateInv, ClientOK, SnapshotsOfOwnMap
<1>. QED BY <1>1, <1>2, TypeOKHolds, ConfigstringsFollowHolds DEF OneMap

\* A client with the right files is never thrown out by the pure check, until a map
\* is restarted under it when it has not its gamestate: in every state before, the
\* "cp" commands that the server does not pass over were made with the checksumFeed
\* of its own map (SV_VerifyPaks_f).
THEOREM RightFilesPass == Spec => []NeverUnpure
BY Invariance, NeverUnpureHolds, PTL

\* Every message that the server takes for one of its current serverId, and whose
\* commands and moves it executes, was sent by a client with the gamestate of the
\* current map (SV_ExecuteClientMessage), however often the map changes, until it is
\* restarted under a client that has not that gamestate.
THEOREM CurrentIdAlwaysCurrentMap == Spec => []CurrentIdUntilRushed
<1>1. UntilRushed => CurrentIdUntilRushed
  BY CurrentIdHolds DEF UntilRushed, CurrentIdUntilRushed
<1>. QED BY <1>1, Invariance, PTL

\* Until a map is restarted under a client that has not its gamestate, the variables
\* keep their types, the client shows no snapshot of the game of a map it has not
\* the gamestate of, and a client that has executed all there is has the configstring
\* of the server or, if that never was in a command to it, one of an earlier map, for
\* every number of changes of it and of maps (CL_ParseGamestate,
\* CL_GetServerCommand, SV_SetConfigstring).
THEOREM NeverTwoMaps == Spec => [](~rushed => OneMap)
<1>1. UntilRushed => (~rushed => OneMap)
  BY OneMapHolds
<1>. QED BY <1>1, Invariance, PTL

=============================================================================
