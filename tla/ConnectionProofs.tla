--------------------------- MODULE ConnectionProofs ---------------------------
(***************************************************************************)
(* Proofs about the connection for any number of clients, slots, challenges *)
(* and datagrams.                                                          *)
(***************************************************************************)
EXTENDS Connection, FiniteSetTheorems, TLAPS

-----------------------------------------------------------------------------
(* The inductive invariant.                                                *)

Times == 0 .. Life
AnyPort == Clients \cup {NoClient}

ClientType ==
  [state : ClientStates, challenge : Nat, serverId : Nat,
   connectAge : 0 .. RETRANSMIT_TIMEOUT, packetAge : 0 .. cl_timeout + 1,
   timeoutCount : 0 .. TIMEOUT_FRAMES, attempts : 0 .. MaxStarts, hasty : BOOLEAN]

SlotType ==
  [state : SlotStates, port : AnyPort, qport : AnyPort, challenge : Nat,
   connectAge : 0 .. sv_reconnectlimit, packetAge : 0 .. SlotPatience,
   timeoutCount : 0 .. TIMEOUT_FRAMES]

EntryType == [port : AnyPort, value : Nat, connected : BOOLEAN]

ServerType ==
  [slot : [Slots -> SlotType], table : [Entries -> EntryType], playing : SUBSET Slots,
   deniedAgain : SUBSET Slots, instance : Nat, lastChallenge : Nat]

\* The datagrams of both directions, by their kinds.
Requests == [kind : {"getchallenge"}, port : Clients, age : Times]
Connects == [kind : {"connect"}, port : Clients, qport : Clients, challenge : Nat, age : Times]
Moves == [kind : {"message"}, port : Clients, qport : Clients, key : Nat, serverId : Nat,
          command : {"move", "disconnect"}, age : Times]

Responses == [kind : {"challengeResponse"}, port : Clients, challenge : Nat, age : Times]
Updates == [kind : {"message"}, port : Clients, key : Nat, serverId : Nat,
            command : {"gamestate", "snapshot", "disconnect"}, age : Times]
Notices == [kind : {"connectResponse", "print", "disconnect"}, port : Clients, age : Times]

\* Who has a slot has ports, who has a challenge has a port, and challenges are
\* numbered in the order they were made.
ServerOK(s) ==
  /\ s \in ServerType
  /\ \A i \in Used(s) : s.slot[i].port \in Clients /\ s.slot[i].qport \in Clients
  /\ \A k \in Entries : /\ s.table[k].value <= s.lastChallenge
                        /\ s.table[k].value # 0 <=> s.table[k].port \in Clients

ToServerOK(net) ==
  net \subseteq Requests \cup Connects \cup Moves
  /\ IsFiniteSet(net) /\ Cardinality(net) <= ServerCapacity

ToClientsOK(net) ==
  net \subseteq Responses \cup Updates \cup Notices
  /\ IsFiniteSet(net) /\ Cardinality(net) <= ClientCapacity

TypeInv ==
  /\ client \in [Clients -> ClientType]
  /\ ServerOK(server)
  /\ port \in Bijection(Clients, Clients)
  /\ remaps \in Nat
  /\ ToServerOK(toServer)
  /\ ToClientsOK(toClients)

\* Challenges and serverIds that are known anywhere come from the server.
BoundInv ==
  /\ server.instance \in 1 .. MaxStarts + 1
  /\ server.lastChallenge <= MaxChallenge
  /\ \A d \in toServer : d.kind = "connect" => d.challenge <= server.lastChallenge
  /\ \A d \in toClients : d.kind = "challengeResponse" => d.challenge <= server.lastChallenge
  /\ \A d \in toClients : d.kind = "message" => d.serverId <= server.instance
  /\ \A c \in Clients :
       /\ client[c].challenge <= server.lastChallenge
       /\ client[c].serverId <= server.instance
       /\ client[c].state # "connected" => client[c].serverId = 0

\* Slots the server gave a client: as long as the translator leaves the ports alone,
\* at most one.
SlotsOf(c) == {i \in Used(server) : server.slot[i].qport = c}

FixedInv == remaps = 0 =>
  /\ \A c \in Clients : port[c] = c
  /\ \A d \in toServer : d.kind # "getchallenge" => d.qport = d.port
  /\ \A i \in Used(server) : server.slot[i].qport = server.slot[i].port
  /\ \A c \in Clients : \A i, j \in SlotsOf(c) : i = j

ConnectsOf(c) == {d \in toServer : d.kind = "connect" /\ d.qport = c}
MovesOf(c) == {d \in toServer : d.kind = "message" /\ d.qport = c}
ConnectResponses(c) == {d \in toClients : d.kind = "connectResponse" /\ d.port = c}
Gamestates(c) == {d \in toClients : d.kind = "message" /\ d.port = c /\ d.command = "gamestate"}

\* The server has taken the connect of this attempt, and the client knows or can
\* still hear of it.
Answered(c) ==
  \/ client[c].state = "connected"
  \/ client[c].state = "challenging" /\ ConnectResponses(c) # {}

\* A patient client makes an attempt when nothing of the one before is on its way.
\* Then all its connects carry the one challenge of the attempt, and so has the slot
\* from the first one that is answered on.
Agree(c) ==
  /\ client[c].state = "connecting" => ConnectsOf(c) = {} /\ ConnectResponses(c) = {}
  /\ client[c].state \in {"challenging", "connected"} =>
       \A d \in ConnectsOf(c) : d.challenge = client[c].challenge
  /\ Answered(c) => \A i \in SlotsOf(c) : server.slot[i].challenge = client[c].challenge

AgreeInv == remaps = 0 => \A c \in Clients : ~client[c].hasty => Agree(c)

IInv == TypeInv /\ BoundInv /\ FixedInv /\ AgreeInv

-----------------------------------------------------------------------------
(* Smallest elements and the network.                                      *)

LEMMA MinIsLeast ==
  ASSUME NEW S, S \subseteq Nat, S # {}
  PROVE  Min(S) \in S /\ \A y \in S : Min(S) <= y
<1> DEFINE less == {p \in Nat \X Nat : p[1] < p[2]}
<1>1. IsWellFoundedOn(less, Nat)
  BY NatLessThanWellFounded DEF OpToRel
<1>2. ASSUME NEW x \in Nat, NEW y \in Nat, y < x PROVE <<y, x>> \in less
  BY <1>2
<1> HIDE DEF less
<1>3. \E x \in S : \A y \in S : <<y, x>> \notin less
  BY <1>1, WFMin
<1>4. ASSUME NEW x \in S, \A y \in S : <<y, x>> \notin less, NEW y \in S PROVE x <= y
  <2>1. x \in Nat /\ y \in Nat /\ <<y, x>> \notin less
    BY <1>4
  <2>. QED BY <1>2, <2>1
<1>5. \E x \in S : \A y \in S : x <= y
  BY <1>3, <1>4
<1>. QED BY <1>5 DEF Min

LEMMA ConstantTypes ==
  /\ Clients # {} /\ NoClient \notin Clients
  /\ sv_maxclients \in Nat /\ sv_maxclients >= 1
  /\ MAX_CHALLENGES \in Nat /\ MAX_CHALLENGES >= 1
  /\ RETRANSMIT_TIMEOUT \in Nat /\ RETRANSMIT_TIMEOUT >= 1
  /\ ServerCapacity \in Nat /\ ClientCapacity \in Nat
  /\ sv_reconnectlimit \in Nat /\ sv_zombietime \in Nat /\ sv_timeout \in Nat
  /\ cl_timeout \in Nat /\ TIMEOUT_FRAMES \in Nat /\ Life \in Nat
  /\ MaxChallenge \in Nat /\ MaxStarts \in Nat /\ MaxRemaps \in Nat
  /\ SlotPatience \in Nat /\ sv_timeout < SlotPatience /\ sv_zombietime < SlotPatience
BY ConnectionAssumption DEF SlotPatience, Greater

LEMMA SlotsAndEntries == Slots \subseteq Nat /\ Entries \subseteq Nat /\ Slots # {} /\ Entries # {}
BY ConstantTypes DEF Slots, Entries

\* The network takes all that is sent, or nothing.
LEMMA SentWithin ==
  ASSUME NEW net, IsFiniteSet(net), NEW new, IsFiniteSet(new), NEW capacity,
         Cardinality(net) <= capacity
  PROVE  /\ Sent(net, new, capacity) \subseteq net \cup new
         /\ IsFiniteSet(Sent(net, new, capacity))
         /\ Cardinality(Sent(net, new, capacity)) <= capacity
BY FS_Union DEF Sent

-----------------------------------------------------------------------------
(* What the operations of the server return.                               *)

\* A slot is kept by a step.
KeptSlot(a, b) ==
  /\ a.state # "free"
  /\ b.qport = a.qport /\ b.challenge = a.challenge
  /\ b.connectAge = a.connectAge /\ b.packetAge <= a.packetAge
  /\ b.state = "connected" => a.state = "connected"

\* From s to t no slot is filled, and no challenge made before can become known
\* again.
Follows(s, t) ==
  /\ s.instance <= t.instance /\ (t.instance = s.instance \/ Used(t) = {})
  /\ s.lastChallenge <= t.lastChallenge
  /\ \A k \in Entries : \/ t.table[k].port = s.table[k].port /\ t.table[k].value = s.table[k].value
                        \/ t.table[k].value = 0
                        \/ t.table[k].value > s.lastChallenge
  /\ \A i \in Used(t) : KeptSlot(s.slot[i], t.slot[i])

\* The game knows of the slots it should know of.
GameTold(s) == s.playing \ s.deniedAgain = Connected(s)

\* A slot only takes the port that is its client's as long as no port changes.
SamePorts(s, t) == \A i \in Used(t) : t.slot[i].port \in {s.slot[i].port, t.slot[i].qport}

LEMMA DroppedOK ==
  ASSUME NEW s, ServerOK(s), NEW D, D \subseteq Connected(s)
  PROVE  /\ ServerOK(Dropped(s, D)) /\ Follows(s, Dropped(s, D))
         /\ SamePorts(s, Dropped(s, D))
         /\ GameTold(s) => GameTold(Dropped(s, D))
         /\ Used(Dropped(s, D)) = Used(s)
         /\ Connected(Dropped(s, D)) = Connected(s) \ D
         /\ \A i \in D : Dropped(s, D).slot[i].state = "zombie"
         /\ Dropped(s, D).instance = s.instance
         /\ Dropped(s, D).lastChallenge = s.lastChallenge
<1> DEFINE cleared == {FirstEntry(s, i) : i \in {j \in D : Listed(s, j)}}
           newSlot == [i \in Slots |-> [s.slot[i] EXCEPT !.state = IF i \in D THEN "zombie" ELSE @]]
           newTable == [k \in Entries |-> [s.table[k] EXCEPT !.connected = @ /\ k \notin cleared]]
           t == [s EXCEPT !.slot = newSlot, !.playing = @ \ D, !.table = newTable]
<1>1. Dropped(s, D) = t
  BY DEF Dropped
<1>2. s \in ServerType
  BY DEF ServerOK
<1>3. /\ newSlot \in [Slots -> SlotType]
      /\ \A i \in Slots : /\ newSlot[i].port = s.slot[i].port
                          /\ newSlot[i].qport = s.slot[i].qport
                          /\ newSlot[i].challenge = s.slot[i].challenge
                          /\ newSlot[i].connectAge = s.slot[i].connectAge
                          /\ newSlot[i].packetAge = s.slot[i].packetAge
                          /\ newSlot[i].state = IF i \in D THEN "zombie" ELSE s.slot[i].state
  BY <1>2 DEF ServerType, SlotType, SlotStates
<1>4. /\ newTable \in [Entries -> EntryType]
      /\ \A k \in Entries : /\ newTable[k].port = s.table[k].port
                            /\ newTable[k].value = s.table[k].value
  BY <1>2 DEF ServerType, EntryType
<1> HIDE DEF newSlot, newTable
<1>5. /\ t \in ServerType /\ t.slot = newSlot /\ t.table = newTable
      /\ t.playing = s.playing \ D /\ t.deniedAgain = s.deniedAgain
      /\ t.instance = s.instance /\ t.lastChallenge = s.lastChallenge
  BY <1>2, <1>3, <1>4 DEF ServerType
<1> HIDE DEF t
<1>6. Used(t) = Used(s) /\ Connected(t) = Connected(s) \ D
  BY <1>3, <1>5 DEF Used, Connected
<1>7. ServerOK(t)
  BY <1>3, <1>4, <1>5, <1>6 DEF ServerOK, Used
<1>8. \A i \in Used(t) : KeptSlot(s.slot[i], t.slot[i])
  <2> SUFFICES ASSUME NEW i \in Used(s) PROVE KeptSlot(s.slot[i], t.slot[i])
    BY <1>6
  <2>1. i \in Slots /\ s.slot[i].state # "free" /\ s.slot[i].packetAge \in Int
    BY <1>2, ConstantTypes DEF Used, ServerType, SlotType
  <2>. QED BY <1>3, <1>5, <2>1 DEF KeptSlot
<1>9. Follows(s, t)
  BY <1>2, <1>4, <1>5, <1>8 DEF Follows, ServerType
<1>10. SamePorts(s, t)
  BY <1>3, <1>5, <1>6 DEF SamePorts, Used
<1>11. GameTold(s) => GameTold(t)
  BY <1>5, <1>6 DEF GameTold
<1>12. \A i \in D : t.slot[i].state = "zombie"
  BY <1>3, <1>5 DEF Connected
<1>. QED BY <1>1, <1>5, <1>6, <1>7, <1>9, <1>10, <1>11, <1>12

\* The entry that is filled anew, or is of this port already.
LEMMA EntryIsEntry ==
  ASSUME NEW s, ServerOK(s), NEW p
  PROVE  Entry(s, p) \in Entries
<1> DEFINE mine == {k \in Entries : s.table[k].port = p /\ ~s.table[k].connected}
           oldest == {k \in Entries : \A l \in Entries : s.table[k].value <= s.table[l].value}
           values == {s.table[k].value : k \in Entries}
<1>1. \A k \in Entries : s.table[k].value \in Nat
  BY DEF ServerOK, ServerType, EntryType
<1>2. values \subseteq Nat /\ values # {}
  BY <1>1, SlotsAndEntries
<1> HIDE DEF values
<1>3. Min(values) \in values /\ \A y \in values : Min(values) <= y
  BY <1>2, MinIsLeast
<1>4. PICK k \in Entries : s.table[k].value = Min(values)
  BY <1>3 DEF values
<1>5. \A l \in Entries : s.table[k].value <= s.table[l].value
  BY <1>3, <1>4 DEF values
<1>6. oldest # {}
  BY <1>5
<1>7. Entry(s, p) = IF mine # {} THEN Min(mine) ELSE Min(oldest)
  BY DEF Entry
<1>8. mine \subseteq Nat /\ oldest \subseteq Nat /\ mine \subseteq Entries /\ oldest \subseteq Entries
  BY SlotsAndEntries
<1> HIDE DEF mine, oldest
<1>9. CASE mine # {}
  <2>1. Min(mine) \in mine
    BY <1>8, <1>9, MinIsLeast
  <2>. QED BY <1>7, <1>8, <1>9, <2>1
<1>10. CASE mine = {}
  <2>1. Min(oldest) \in oldest
    BY <1>6, <1>8, MinIsLeast
  <2>. QED BY <1>7, <1>8, <1>10, <2>1
<1>. QED BY <1>9, <1>10

\* A new challenge is a new number.
LEMMA ChallengedOK ==
  ASSUME NEW s, ServerOK(s), NEW p \in Clients
  PROVE  LET t == Challenged(s, p) IN
         /\ ServerOK(t) /\ Follows(s, t) /\ t.slot = s.slot
         /\ t.playing = s.playing /\ t.deniedAgain = s.deniedAgain
         /\ t.table[Entry(s, p)].value <= t.lastChallenge
         /\ t.table[Entry(s, p)].value \in Nat
<1> DEFINE k == Entry(s, p)
           new == [port |-> p, value |-> s.lastChallenge + 1, connected |-> FALSE]
           t == Challenged(s, p)
<1>1. k \in Entries
  BY EntryIsEntry
<1>2. /\ s \in ServerType /\ s.lastChallenge \in Nat /\ s.instance \in Nat
      /\ \A l \in Entries : s.table[l] \in EntryType /\ s.table[l].value \in Nat
      /\ \A i \in Slots : s.slot[i].packetAge \in Nat
  BY ConstantTypes DEF ServerOK, ServerType, EntryType, SlotType
<1>3. CASE s.table[k].port = p /\ ~s.table[k].connected
  <2>1. t = s
    BY <1>3 DEF Challenged
  <2>2. \A i \in Used(s) : KeptSlot(s.slot[i], s.slot[i])
    BY <1>2 DEF KeptSlot, Used
  <2>3. Follows(s, s)
    BY <1>2, <2>2 DEF Follows
  <2>4. s.table[k].value <= s.lastChallenge
    BY <1>1 DEF ServerOK
  <2>. QED BY <1>1, <1>2, <2>1, <2>3, <2>4
<1>4. CASE ~(s.table[k].port = p /\ ~s.table[k].connected)
  <2>1. t = [s EXCEPT !.lastChallenge = @ + 1, !.table[k] = new]
    BY <1>4 DEF Challenged
  <2>2. new \in EntryType /\ new.port = p /\ new.value = s.lastChallenge + 1
    BY <1>2 DEF EntryType, AnyPort
  <2> HIDE DEF new, k, t
  <2> DEFINE newTable == [s.table EXCEPT ![k] = new]
  <2>9. newTable \in [Entries -> EntryType]
    BY <1>1, <1>2, <2>2 DEF ServerType
  <2>10. t = [s EXCEPT !.lastChallenge = s.lastChallenge + 1, !.table = newTable]
    BY <1>2, <2>1 DEF ServerType
  <2> HIDE DEF newTable
  <2>3. /\ t \in ServerType /\ t.slot = s.slot /\ t.playing = s.playing
        /\ t.deniedAgain = s.deniedAgain /\ t.instance = s.instance
        /\ t.lastChallenge = s.lastChallenge + 1
        /\ t.table = newTable
    <3>1. s.lastChallenge + 1 \in Nat
      BY <1>2
    <3> DEFINE n == s.lastChallenge + 1
    <3>2. n \in Nat /\ t = [s EXCEPT !.lastChallenge = n, !.table = newTable]
      BY <3>1, <2>10
    <3> HIDE DEF n
    <3>3. t \in ServerType
      BY <1>2, <2>9, <3>2 DEF ServerType
    <3>4. /\ t.slot = s.slot /\ t.playing = s.playing
          /\ t.deniedAgain = s.deniedAgain /\ t.instance = s.instance
          /\ t.lastChallenge = n /\ t.table = newTable
      BY <1>2, <3>2 DEF ServerType
    <3>. QED BY <3>3, <3>4 DEF n
  <2>4. \A l \in Entries : t.table[l] = IF l = k THEN new ELSE s.table[l]
    BY <1>1, <1>2, <2>3 DEF ServerType, newTable
  <2>5. Used(t) = Used(s)
    BY <2>3 DEF Used
  <2>6. ServerOK(t)
    BY <1>2, <2>2, <2>3, <2>4, <2>5 DEF ServerOK
  <2>7. \A i \in Used(t) : KeptSlot(s.slot[i], t.slot[i])
    BY <1>2, <2>3 DEF KeptSlot, Used
  <2>8. Follows(s, t)
    BY <1>2, <2>2, <2>3, <2>4, <2>7 DEF Follows
  <2>. QED BY <1>1, <1>2, <2>2, <2>3, <2>4, <2>6, <2>8 DEF k, t
<1>. QED BY <1>3, <1>4

LEMMA NewServerOK ==
  ASSUME NEW n \in Nat, NEW l \in Nat
  PROVE  /\ ServerOK(NewServer(n, l)) /\ GameTold(NewServer(n, l))
         /\ Used(NewServer(n, l)) = {}
         /\ NewServer(n, l).instance = n /\ NewServer(n, l).lastChallenge = l
         /\ \A k \in Entries : NewServer(n, l).table[k].value = 0
<1> DEFINE t == NewServer(n, l)
<1>1. FreeSlot \in SlotType /\ FreeSlot.state = "free"
  BY ConstantTypes DEF FreeSlot, SlotType, SlotStates, AnyPort
<1>2. NoChallenge \in EntryType /\ NoChallenge.value = 0 /\ NoChallenge.port \notin Clients
  BY ConstantTypes DEF NoChallenge, EntryType, AnyPort
<1>3. /\ t.slot = [i \in Slots |-> FreeSlot] /\ t.table = [k \in Entries |-> NoChallenge]
      /\ t.playing = {} /\ t.deniedAgain = {} /\ t.instance = n /\ t.lastChallenge = l
      /\ t \in ServerType
  BY <1>1, <1>2 DEF NewServer, ServerType
<1> HIDE DEF t
<1>4. Used(t) = {} /\ Connected(t) = {}
  BY <1>1, <1>3 DEF Used, Connected
<1>5. ServerOK(t)
  <2>1. \A k \in Entries : t.table[k] = NoChallenge
    BY <1>3
  <2>. QED BY <1>2, <1>3, <1>4, <2>1 DEF ServerOK
<1>6. GameTold(t)
  BY <1>3, <1>4 DEF GameTold
<1>. QED BY <1>2, <1>3, <1>4, <1>5, <1>6 DEF t

\* A step that leaves the slots alone, or follows one that did.
LEMMA FollowsItself ==
  ASSUME NEW s, ServerOK(s)
  PROVE  Follows(s, s) /\ SamePorts(s, s)
<1>1. /\ s.lastChallenge \in Nat /\ s.instance \in Nat
      /\ \A i \in Slots : s.slot[i].packetAge \in Nat
  BY ConstantTypes DEF ServerOK, ServerType, SlotType
<1>2. \A i \in Used(s) : KeptSlot(s.slot[i], s.slot[i])
  BY <1>1 DEF KeptSlot, Used
<1>. QED BY <1>1, <1>2 DEF Follows, SamePorts

LEMMA FollowsOn ==
  ASSUME NEW s, ServerOK(s), NEW t, ServerOK(t), NEW u, ServerOK(u), Follows(s, t), Follows(t, u),
         s.instance = t.instance
  PROVE  Follows(s, u)
<1>1. /\ s.lastChallenge \in Nat /\ t.lastChallenge \in Nat /\ u.lastChallenge \in Nat
      /\ \A k \in Entries : s.table[k].value \in Nat /\ t.table[k].value \in Nat /\ u.table[k].value \in Nat
      /\ \A i \in Slots : /\ s.slot[i].packetAge \in Nat
                          /\ t.slot[i].packetAge \in Nat /\ u.slot[i].packetAge \in Nat
  BY ConstantTypes DEF ServerOK, ServerType, SlotType, EntryType
<1>2. \A i \in Used(u) : KeptSlot(s.slot[i], u.slot[i])
  <2> SUFFICES ASSUME NEW i \in Used(u) PROVE KeptSlot(s.slot[i], u.slot[i])
    OBVIOUS
  <2>1. i \in Slots /\ KeptSlot(t.slot[i], u.slot[i])
    BY DEF Follows, Used
  <2>2. i \in Used(t)
    BY <2>1 DEF KeptSlot, Used
  <2>3. KeptSlot(s.slot[i], t.slot[i])
    BY <2>2 DEF Follows
  <2>. QED BY <1>1, <2>1, <2>3 DEF KeptSlot
<1>3. \A k \in Entries : \/ u.table[k].port = s.table[k].port /\ u.table[k].value = s.table[k].value
                         \/ u.table[k].value = 0
                         \/ u.table[k].value > s.lastChallenge
  <2> SUFFICES ASSUME NEW k \in Entries
               PROVE  \/ u.table[k].port = s.table[k].port /\ u.table[k].value = s.table[k].value
                      \/ u.table[k].value = 0
                      \/ u.table[k].value > s.lastChallenge
    OBVIOUS
  <2>. QED BY <1>1 DEF Follows
<1>4. s.lastChallenge <= u.lastChallenge
  BY <1>1 DEF Follows
<1>. QED BY <1>2, <1>3, <1>4 DEF Follows

\* The record of a refused client is cleared.
LEMMA ClearedOK ==
  ASSUME NEW s, ServerOK(s), NEW k \in Entries
  PROVE  LET t == [s EXCEPT !.table[k] = NoChallenge] IN
         /\ ServerOK(t) /\ Follows(s, t) /\ t.slot = s.slot
         /\ t.playing = s.playing /\ t.deniedAgain = s.deniedAgain
         /\ t.lastChallenge = s.lastChallenge /\ t.instance = s.instance
<1> DEFINE newTable == [s.table EXCEPT ![k] = NoChallenge]
           t == [s EXCEPT !.table = newTable]
<1>1. NoChallenge \in EntryType /\ NoChallenge.value = 0 /\ NoChallenge.port \notin Clients
  BY ConstantTypes DEF NoChallenge, EntryType, AnyPort
<1>2. s \in ServerType /\ \A l \in Entries : s.table[l].value \in Nat
  BY DEF ServerOK, ServerType, EntryType
<1>3. /\ newTable \in [Entries -> EntryType]
      /\ \A l \in Entries : newTable[l] = IF l = k THEN NoChallenge ELSE s.table[l]
  BY <1>1, <1>2 DEF ServerType
<1> HIDE DEF newTable
<1>4. /\ t \in ServerType /\ t.slot = s.slot /\ t.table = newTable /\ t.playing = s.playing
      /\ t.deniedAgain = s.deniedAgain /\ t.instance = s.instance
      /\ t.lastChallenge = s.lastChallenge
  BY <1>2, <1>3 DEF ServerType
<1> HIDE DEF t
<1>5. Used(t) = Used(s)
  BY <1>4 DEF Used
<1>6. \A l \in Entries : t.table[l] = IF l = k THEN NoChallenge ELSE s.table[l]
  BY <1>3, <1>4
<1>7. ServerOK(t)
  <2>1. s.lastChallenge \in Nat
    BY <1>2 DEF ServerType
  <2>. QED BY <1>1, <1>2, <1>4, <1>5, <1>6, <2>1 DEF ServerOK
<1>8. Follows(s, t)
  BY FollowsItself, <1>1, <1>4, <1>5, <1>6 DEF Follows
<1>9. t = [s EXCEPT !.table[k] = NoChallenge]
  BY DEF t, newTable
<1>. QED BY <1>4, <1>7, <1>8, <1>9

\* The server hears of a client that has a slot.
LEMMA HeardOK ==
  ASSUME NEW s, ServerOK(s), NEW i \in Used(s), NEW d, d.port \in Clients
  PROVE  LET t == Heard(s, i, d) IN
         /\ ServerOK(t) /\ Follows(s, t) /\ Used(t) = Used(s)
         /\ GameTold(s) => GameTold(t)
         /\ s.slot[i].qport = d.port => SamePorts(s, t)
         /\ t.slot[i].state = s.slot[i].state /\ t.slot[i].qport = s.slot[i].qport
         /\ t.slot[i].challenge = s.slot[i].challenge
         /\ t.instance = s.instance /\ t.lastChallenge = s.lastChallenge
<1> DEFINE new == [s.slot[i] EXCEPT !.port = d.port,
                                    !.packetAge = IF s.slot[i].state = "zombie" THEN @ ELSE 0]
           newSlot == [s.slot EXCEPT ![i] = new]
           t == [s EXCEPT !.slot = newSlot]
<1>1. s \in ServerType /\ i \in Slots /\ s.slot[i] \in SlotType /\ s.slot[i].packetAge \in Nat
  BY ConstantTypes DEF ServerOK, ServerType, SlotType, Used
<1>2. /\ new \in SlotType /\ new.port = d.port /\ new.qport = s.slot[i].qport
      /\ new.challenge = s.slot[i].challenge /\ new.connectAge = s.slot[i].connectAge
      /\ new.state = s.slot[i].state /\ new.packetAge <= s.slot[i].packetAge
  <2> DEFINE old == s.slot[i]
             age == IF old.state = "zombie" THEN old.packetAge ELSE 0
  <2>1. old \in SlotType /\ age \in 0 .. SlotPatience /\ age <= old.packetAge
    BY <1>1, ConstantTypes DEF SlotType
  <2>2. new = [old EXCEPT !.port = d.port, !.packetAge = age]
    OBVIOUS
  <2> HIDE DEF old, age, new
  <2>3. new \in SlotType
    BY <2>1, <2>2 DEF SlotType, AnyPort
  <2>4. /\ new.port = d.port /\ new.qport = old.qport /\ new.challenge = old.challenge
        /\ new.connectAge = old.connectAge /\ new.state = old.state /\ new.packetAge = age
    BY <2>1, <2>2 DEF SlotType
  <2>. QED BY <2>1, <2>3, <2>4 DEF old
<1>9. t = Heard(s, i, d)
  BY <1>1 DEF Heard, ServerType
<1> HIDE DEF new
<1>3. /\ newSlot \in [Slots -> SlotType]
      /\ \A j \in Slots : newSlot[j] = IF j = i THEN new ELSE s.slot[j]
  BY <1>1, <1>2 DEF ServerType
<1> HIDE DEF newSlot
<1>4. /\ t \in ServerType /\ t.slot = newSlot /\ t.table = s.table /\ t.playing = s.playing
      /\ t.deniedAgain = s.deniedAgain /\ t.instance = s.instance
      /\ t.lastChallenge = s.lastChallenge
  BY <1>1, <1>3 DEF ServerType
<1> HIDE DEF t
<1>5. Used(t) = Used(s) /\ Connected(t) = Connected(s)
  BY <1>2, <1>3, <1>4 DEF Used, Connected
<1>6. ServerOK(t)
  BY <1>2, <1>3, <1>4, <1>5 DEF ServerOK, Used
<1>7. \A j \in Used(t) : KeptSlot(s.slot[j], t.slot[j])
  BY FollowsItself, <1>1, <1>2, <1>3, <1>4, <1>5 DEF KeptSlot, Used, Follows
<1>8. Follows(s, t)
  BY FollowsItself, <1>4, <1>5, <1>7 DEF Follows
<1>10. s.slot[i].qport = d.port => SamePorts(s, t)
  BY <1>2, <1>3, <1>4, <1>5 DEF SamePorts, Used
<1>11. GameTold(s) => GameTold(t)
  BY <1>4, <1>5 DEF GameTold
<1>. QED BY <1>1, <1>2, <1>3, <1>4, <1>5, <1>6, <1>8, <1>9, <1>10, <1>11

\* A connected slot goes on in its states.
InState(s, i, x) == [s EXCEPT !.slot[i].state = x]

LEMMA StateOK ==
  ASSUME NEW s, ServerOK(s), NEW i \in Connected(s), NEW x \in {"connected", "primed", "active"},
         x = "connected" => s.slot[i].state = "connected"
  PROVE  LET t == InState(s, i, x) IN
         /\ ServerOK(t) /\ Follows(s, t) /\ SamePorts(s, t) /\ Used(t) = Used(s)
         /\ GameTold(s) => GameTold(t)
         /\ \A j \in Slots \ {i} : t.slot[j] = s.slot[j]
         /\ t.slot[i].state = x
         /\ t.instance = s.instance /\ t.lastChallenge = s.lastChallenge
<1> DEFINE new == [s.slot[i] EXCEPT !.state = x]
           newSlot == [s.slot EXCEPT ![i] = new]
           t == [s EXCEPT !.slot = newSlot]
<1>1. /\ s \in ServerType /\ i \in Slots /\ s.slot[i] \in SlotType /\ s.slot[i].packetAge \in Nat
      /\ s.slot[i].state # "free"
  BY ConstantTypes DEF ServerOK, ServerType, SlotType, Connected
<1>2. /\ new \in SlotType /\ new.port = s.slot[i].port /\ new.qport = s.slot[i].qport
      /\ new.challenge = s.slot[i].challenge /\ new.connectAge = s.slot[i].connectAge
      /\ new.state = x /\ new.packetAge = s.slot[i].packetAge
  BY <1>1 DEF SlotType, SlotStates
<1> HIDE DEF new
<1>3. /\ newSlot \in [Slots -> SlotType]
      /\ \A j \in Slots : newSlot[j] = IF j = i THEN new ELSE s.slot[j]
  BY <1>1, <1>2 DEF ServerType
<1> HIDE DEF newSlot
<1>4. /\ t \in ServerType /\ t.slot = newSlot /\ t.table = s.table /\ t.playing = s.playing
      /\ t.deniedAgain = s.deniedAgain /\ t.instance = s.instance
      /\ t.lastChallenge = s.lastChallenge
  BY <1>1, <1>3 DEF ServerType
<1>9. t = InState(s, i, x)
  BY DEF InState, newSlot, new
<1> HIDE DEF t
<1>5. Used(t) = Used(s) /\ Connected(t) = Connected(s)
  BY <1>1, <1>2, <1>3, <1>4 DEF Used, Connected
<1>6. ServerOK(t)
  BY <1>2, <1>3, <1>4, <1>5 DEF ServerOK, Used
<1>7. \A j \in Used(t) : KeptSlot(s.slot[j], t.slot[j])
  BY FollowsItself, <1>1, <1>2, <1>3, <1>4, <1>5 DEF KeptSlot, Used, Follows
<1>8. Follows(s, t)
  BY FollowsItself, <1>4, <1>5, <1>7 DEF Follows
<1>10. SamePorts(s, t)
  BY <1>2, <1>3, <1>4, <1>5 DEF SamePorts, Used
<1>11. GameTold(s) => GameTold(t)
  BY <1>4, <1>5 DEF GameTold
<1>12. \A j \in Slots : t.slot[j] = IF j = i THEN new ELSE s.slot[j]
  BY <1>3, <1>4
<1>. QED BY <1>1, <1>2, <1>4, <1>5, <1>6, <1>8, <1>9, <1>10, <1>11, <1>12

\* A zombie may be kept from now on.
LEMMA KeptZombieOK ==
  ASSUME NEW s, ServerOK(s), NEW i \in Slots, s.slot[i].state = "zombie"
  PROVE  LET t == [s EXCEPT !.slot[i].packetAge = 0] IN
         /\ ServerOK(t) /\ Follows(s, t) /\ SamePorts(s, t) /\ Used(t) = Used(s)
         /\ GameTold(s) => GameTold(t)
         /\ t.instance = s.instance /\ t.lastChallenge = s.lastChallenge
<1> DEFINE new == [s.slot[i] EXCEPT !.packetAge = 0]
           newSlot == [s.slot EXCEPT ![i] = new]
           t == [s EXCEPT !.slot = newSlot]
<1>1. s \in ServerType /\ s.slot[i] \in SlotType /\ s.slot[i].packetAge \in Nat
  BY ConstantTypes DEF ServerOK, ServerType, SlotType
<1>2. /\ new \in SlotType /\ new.port = s.slot[i].port /\ new.qport = s.slot[i].qport
      /\ new.challenge = s.slot[i].challenge /\ new.connectAge = s.slot[i].connectAge
      /\ new.state = s.slot[i].state /\ new.packetAge <= s.slot[i].packetAge
  BY <1>1, ConstantTypes DEF SlotType
<1> HIDE DEF new
<1>3. /\ newSlot \in [Slots -> SlotType]
      /\ \A j \in Slots : newSlot[j] = IF j = i THEN new ELSE s.slot[j]
  BY <1>1, <1>2 DEF ServerType
<1> HIDE DEF newSlot
<1>4. /\ t \in ServerType /\ t.slot = newSlot /\ t.table = s.table /\ t.playing = s.playing
      /\ t.deniedAgain = s.deniedAgain /\ t.instance = s.instance
      /\ t.lastChallenge = s.lastChallenge
  BY <1>1, <1>3 DEF ServerType
<1>9. t = [s EXCEPT !.slot[i].packetAge = 0]
  BY DEF newSlot, new
<1> HIDE DEF t
<1>5. Used(t) = Used(s) /\ Connected(t) = Connected(s)
  BY <1>1, <1>2, <1>3, <1>4 DEF Used, Connected
<1>6. ServerOK(t)
  BY <1>2, <1>3, <1>4, <1>5 DEF ServerOK, Used
<1>7. \A j \in Used(t) : KeptSlot(s.slot[j], t.slot[j])
  BY FollowsItself, <1>1, <1>2, <1>3, <1>4, <1>5 DEF KeptSlot, Used, Follows
<1>8. Follows(s, t)
  BY FollowsItself, <1>4, <1>5, <1>7 DEF Follows
<1>10. SamePorts(s, t)
  BY <1>2, <1>3, <1>4, <1>5 DEF SamePorts, Used
<1>11. GameTold(s) => GameTold(t)
  BY <1>4, <1>5 DEF GameTold
<1>. QED BY <1>4, <1>5, <1>6, <1>8, <1>9, <1>10, <1>11

\* Timeouts make zombies of clients, and free slots of zombies.
LEMMA CheckedTimeoutsOK ==
  ASSUME NEW s, ServerOK(s)
  PROVE  LET t == CheckedTimeouts(s) IN
         /\ ServerOK(t) /\ Follows(s, t) /\ SamePorts(s, t)
         /\ GameTold(s) => GameTold(t)
         /\ \A i \in Used(s) \ Used(t) : s.slot[i].packetAge > Lesser(sv_timeout, sv_zombietime)
         /\ t.instance = s.instance /\ t.lastChallenge = s.lastChallenge
<1> DEFINE out == TimedOutSlots(s)
           u == Dropped(s, out)
           zombies == {i \in Slots : s.slot[i].state = "zombie" /\ s.slot[i].packetAge > sv_zombietime}
           count(i) == IF Overdue(s, i) THEN u.slot[i].timeoutCount + 1 ELSE 0
           counted(i) == [u.slot[i] EXCEPT !.timeoutCount = count(i)]
           newSlot == [i \in Slots |-> IF i \in out \cup zombies THEN FreeSlot ELSE counted(i)]
           t == CheckedTimeouts(s)
<1>1. out \subseteq Connected(s) /\ zombies \cap Connected(s) = {} /\ zombies \subseteq Slots
  BY DEF TimedOutSlots, Overdue, Connected
<1>2. /\ ServerOK(u) /\ Follows(s, u) /\ SamePorts(s, u) /\ (GameTold(s) => GameTold(u))
      /\ Used(u) = Used(s) /\ u.lastChallenge = s.lastChallenge /\ u.instance = s.instance
      /\ Connected(u) = Connected(s) \ out
      /\ \A i \in out : u.slot[i].state = "zombie"
  BY <1>1, DroppedOK
<1>3. /\ s \in ServerType /\ u \in ServerType
      /\ \A i \in Slots : s.slot[i].timeoutCount \in 0 .. TIMEOUT_FRAMES /\ s.slot[i].packetAge \in Nat
      /\ \A i \in Slots : u.slot[i] \in SlotType /\ u.slot[i].packetAge \in Nat
  BY <1>2, ConstantTypes DEF ServerOK, ServerType, SlotType
<1>4. \A i \in Slots : u.slot[i].timeoutCount = s.slot[i].timeoutCount
  <2> DEFINE slotOf(i) == [s.slot[i] EXCEPT !.state = IF i \in out THEN "zombie" ELSE @]
  <2>1. \A i \in Slots : slotOf(i).timeoutCount = s.slot[i].timeoutCount
    BY <1>3 DEF ServerType, SlotType
  <2>2. u.slot = [i \in Slots |-> slotOf(i)]
    BY <1>3 DEF Dropped, ServerType
  <2>. QED BY <2>1, <2>2
<1>5. \A i \in Slots \ out : count(i) \in 0 .. TIMEOUT_FRAMES
  BY <1>3, <1>4, ConstantTypes DEF TimedOutSlots
<1> HIDE DEF count
<1>6. /\ \A i \in Slots \ out : counted(i) \in SlotType
      /\ \A i \in Slots : /\ counted(i).state = u.slot[i].state /\ counted(i).port = u.slot[i].port
                          /\ counted(i).qport = u.slot[i].qport
                          /\ counted(i).challenge = u.slot[i].challenge
                          /\ counted(i).connectAge = u.slot[i].connectAge
                          /\ counted(i).packetAge = u.slot[i].packetAge
  <2>1. ASSUME NEW i \in Slots \ out PROVE counted(i) \in SlotType
    BY <1>3, <1>5 DEF SlotType
  <2>. QED BY <1>3, <2>1 DEF SlotType
<1> HIDE DEF counted
<1>7. t = [u EXCEPT !.slot = newSlot]
  BY DEF CheckedTimeouts, counted, count
<1>8. FreeSlot \in SlotType /\ FreeSlot.state = "free"
  BY ConstantTypes DEF FreeSlot, SlotType, SlotStates, AnyPort
<1>9. /\ newSlot \in [Slots -> SlotType]
      /\ \A i \in Slots : newSlot[i] = IF i \in out \cup zombies THEN FreeSlot ELSE counted(i)
  <2>1. \A i \in Slots : (IF i \in out \cup zombies THEN FreeSlot ELSE counted(i)) \in SlotType
    BY <1>6, <1>8
  <2>. QED BY <2>1
<1> HIDE DEF newSlot
<1>10. /\ t \in ServerType /\ t.slot = newSlot /\ t.table = u.table /\ t.playing = u.playing
       /\ t.deniedAgain = u.deniedAgain /\ t.instance = u.instance
       /\ t.lastChallenge = u.lastChallenge
  BY <1>3, <1>7, <1>9 DEF ServerType
<1> HIDE DEF t, u, out, zombies
<1>11. /\ Used(t) = Used(s) \ (out \cup zombies)
       /\ \A i \in Used(t) : t.slot[i] = counted(i)
  BY <1>2, <1>6, <1>8, <1>9, <1>10 DEF Used
<1>12. Connected(t) = Connected(u)
  <2>1. \A i \in zombies : i \notin Connected(u)
    BY <1>1, <1>2
  <2>. QED BY <1>1, <1>2, <1>6, <1>8, <1>9, <1>10, <2>1 DEF Connected
<1>13. ServerOK(t)
  BY <1>2, <1>6, <1>10, <1>11 DEF ServerOK, Used
<1>14. \A i \in Used(t) : KeptSlot(u.slot[i], t.slot[i])
  <2> SUFFICES ASSUME NEW i \in Used(t) PROVE KeptSlot(u.slot[i], t.slot[i])
    OBVIOUS
  <2>1. i \in Slots /\ i \in Used(u) /\ t.slot[i] = counted(i)
    BY <1>2, <1>11 DEF Used
  <2>. QED BY <1>3, <1>6, <2>1 DEF KeptSlot, Used
<1>15. Follows(u, t)
  BY <1>2, <1>10, <1>14, FollowsItself DEF Follows
<1>16. Follows(s, t)
  BY <1>2, <1>13, <1>15, FollowsOn
<1>17. SamePorts(s, t)
  <2> SUFFICES ASSUME NEW i \in Used(t) PROVE t.slot[i].port \in {s.slot[i].port, t.slot[i].qport}
    BY DEF SamePorts
  <2>1. i \in Slots /\ i \in Used(u) /\ t.slot[i] = counted(i)
    BY <1>2, <1>11 DEF Used
  <2>. QED BY <1>2, <1>6, <2>1 DEF SamePorts
<1>18. GameTold(s) => GameTold(t)
  BY <1>2, <1>10, <1>12 DEF GameTold
<1>19. \A i \in Used(s) \ Used(t) : s.slot[i].packetAge > Lesser(sv_timeout, sv_zombietime)
  <2> SUFFICES ASSUME NEW i \in out \cup zombies
               PROVE  s.slot[i].packetAge > Lesser(sv_timeout, sv_zombietime)
    BY <1>11
  <2>1. i \in Slots /\ (s.slot[i].packetAge > sv_timeout \/ s.slot[i].packetAge > sv_zombietime)
    BY DEF out, zombies, TimedOutSlots, Overdue
  <2>. QED BY <1>3, <2>1, ConstantTypes DEF Lesser
<1>. QED BY <1>2, <1>10, <1>13, <1>16, <1>17, <1>18, <1>19 DEF t

\* The server notes that a challenge is in use.
LEMMA NotedOK ==
  ASSUME NEW s, ServerOK(s), NEW K
  PROVE  LET t == [s EXCEPT !.table = [k \in Entries |->
                    [s.table[k] EXCEPT !.connected = @ \/ k \in K]]] IN
         /\ ServerOK(t) /\ Follows(s, t) /\ t.slot = s.slot
         /\ t.playing = s.playing /\ t.deniedAgain = s.deniedAgain
         /\ t.lastChallenge = s.lastChallenge /\ t.instance = s.instance
         /\ \A k \in Entries : /\ t.table[k].port = s.table[k].port
                               /\ t.table[k].value = s.table[k].value
<1> DEFINE newTable == [k \in Entries |-> [s.table[k] EXCEPT !.connected = @ \/ k \in K]]
           t == [s EXCEPT !.table = newTable]
<1>1. s \in ServerType
  BY DEF ServerOK
<1>2. /\ newTable \in [Entries -> EntryType]
      /\ \A k \in Entries : /\ newTable[k].port = s.table[k].port
                            /\ newTable[k].value = s.table[k].value
  BY <1>1 DEF ServerType, EntryType
<1>3. t = [s EXCEPT !.table = [k \in Entries |-> [s.table[k] EXCEPT !.connected = @ \/ k \in K]]]
  OBVIOUS
<1> HIDE DEF newTable
<1>4. /\ t \in ServerType /\ t.slot = s.slot /\ t.table = newTable /\ t.playing = s.playing
      /\ t.deniedAgain = s.deniedAgain /\ t.instance = s.instance
      /\ t.lastChallenge = s.lastChallenge
  BY <1>1, <1>2 DEF ServerType
<1> HIDE DEF t
<1>5. Used(t) = Used(s)
  BY <1>4 DEF Used
<1>6. ServerOK(t)
  BY <1>2, <1>4, <1>5 DEF ServerOK
<1>7. Follows(s, t)
  BY FollowsItself, <1>2, <1>4, <1>5 DEF Follows
<1>. QED BY <1>2, <1>3, <1>4, <1>6, <1>7

\* A slot is filled, or left free.
LEMMA SlotFilledOK ==
  ASSUME NEW s, ServerOK(s), NEW i \in Slots, NEW d \in Connects, NEW denied \in BOOLEAN
  PROVE  LET t == SlotFilled(s, i, d, denied) IN
         /\ ServerOK(t)
         /\ GameTold(s) => GameTold(t)
         /\ t.table = s.table /\ t.lastChallenge = s.lastChallenge /\ t.instance = s.instance
         /\ \A j \in Slots \ {i} : t.slot[j] = s.slot[j]
         /\ Used(t) = IF denied THEN Used(s) \ {i} ELSE Used(s) \cup {i}
         /\ ~denied => /\ t.slot[i].state = "connected" /\ t.slot[i].port = d.port
                       /\ t.slot[i].qport = d.qport /\ t.slot[i].challenge = d.challenge
                       /\ t.slot[i].connectAge = 0 /\ t.slot[i].packetAge = 0
         /\ denied => t.slot[i].state = "free"
<1> DEFINE new == IF denied THEN FreeSlot ELSE NewSlot(d)
           newSlot == [s.slot EXCEPT ![i] = new]
           playing == IF denied THEN s.playing ELSE s.playing \cup {i}
           again == IF denied THEN s.deniedAgain \cup (s.playing \cap {i}) ELSE s.deniedAgain \ {i}
           t == SlotFilled(s, i, d, denied)
<1>1. s \in ServerType /\ d.port \in Clients /\ d.qport \in Clients /\ d.challenge \in Nat
  BY DEF ServerOK, Connects
<1>2. /\ FreeSlot \in SlotType /\ FreeSlot.state = "free"
      /\ NewSlot(d) \in SlotType /\ NewSlot(d).state = "connected" /\ NewSlot(d).port = d.port
      /\ NewSlot(d).qport = d.qport /\ NewSlot(d).challenge = d.challenge
      /\ NewSlot(d).connectAge = 0 /\ NewSlot(d).packetAge = 0
  <2>1. FreeSlot \in SlotType /\ FreeSlot.state = "free"
    BY ConstantTypes DEF FreeSlot, SlotType, SlotStates, AnyPort
  <2>2. NewSlot(d) \in SlotType
    BY <1>1, ConstantTypes DEF NewSlot, SlotType, SlotStates, AnyPort
  <2>. QED BY <2>1, <2>2 DEF NewSlot
<1>3. new \in SlotType /\ (denied => new.state = "free") /\ (~denied => new = NewSlot(d))
  BY <1>2
<1>4. playing \in SUBSET Slots /\ again \in SUBSET Slots
  BY <1>1 DEF ServerType
<1>5. t = [s EXCEPT !.slot = newSlot, !.playing = playing, !.deniedAgain = again]
  BY DEF SlotFilled
<1> HIDE DEF new
<1>6. /\ newSlot \in [Slots -> SlotType]
      /\ \A j \in Slots : newSlot[j] = IF j = i THEN new ELSE s.slot[j]
  BY <1>1, <1>3 DEF ServerType
<1> HIDE DEF newSlot, playing, again, t
<1>7. /\ t \in ServerType /\ t.slot = newSlot /\ t.table = s.table /\ t.playing = playing
      /\ t.deniedAgain = again /\ t.instance = s.instance
      /\ t.lastChallenge = s.lastChallenge
  BY <1>1, <1>4, <1>5, <1>6 DEF ServerType
<1>8. \A j \in Slots : t.slot[j] = IF j = i THEN new ELSE s.slot[j]
  BY <1>6, <1>7
<1>9. /\ Used(t) = IF denied THEN Used(s) \ {i} ELSE Used(s) \cup {i}
      /\ Connected(t) = IF denied THEN Connected(s) \ {i} ELSE Connected(s) \cup {i}
  <2>1. CASE denied
    BY <1>3, <1>8, <2>1 DEF Used, Connected
  <2>2. CASE ~denied
    BY <1>2, <1>3, <1>8, <2>2 DEF Used, Connected
  <2>. QED BY <2>1, <2>2
<1>10. ServerOK(t)
  BY <1>1, <1>2, <1>3, <1>7, <1>8, <1>9 DEF ServerOK, Used
<1>11. GameTold(s) => GameTold(t)
  BY <1>7, <1>9 DEF GameTold, playing, again
<1>. QED BY <1>2, <1>3, <1>7, <1>8, <1>9, <1>10, <1>11 DEF t

-----------------------------------------------------------------------------
(* Datagrams.                                                              *)

\* What a server sends tells of its own challenges and its own map.
Told(s, new) ==
  /\ new \subseteq Responses \cup Updates \cup Notices /\ IsFiniteSet(new)
  /\ \A d \in new : d.kind = "challengeResponse" => d.challenge <= s.lastChallenge
  /\ \A d \in new : d.kind = "message" => d.serverId <= s.instance

LEMMA TellNothing ==
  ASSUME NEW s
  PROVE  Told(s, {})
BY FS_EmptySet DEF Told

LEMMA TellNotice ==
  ASSUME NEW s, NEW p \in Clients, NEW kind \in {"connectResponse", "print", "disconnect"}
  PROVE  Told(s, {Notice(p, kind)}) /\ Notice(p, kind).kind = kind /\ Notice(p, kind).port = p
         /\ Notice(p, kind).age = 0
<1>1. Notice(p, kind) \in Notices
  BY ConstantTypes DEF Notice, Notices, Times
<1>2. Notice(p, kind).kind = kind /\ Notice(p, kind).port = p /\ Notice(p, kind).age = 0
  BY DEF Notice
<1>. QED BY <1>1, <1>2, FS_Singleton DEF Told

LEMMA TellChallenge ==
  ASSUME NEW s, ServerOK(s), NEW p \in Clients, NEW x \in Nat, x <= s.lastChallenge
  PROVE  Told(s, {ChallengeResponse(p, x)}) /\ ChallengeResponse(p, x).kind = "challengeResponse"
<1>1. ChallengeResponse(p, x) \in Responses
  BY ConstantTypes DEF ChallengeResponse, Responses, Times
<1>2. /\ ChallengeResponse(p, x).kind = "challengeResponse"
      /\ ChallengeResponse(p, x).challenge = x
  BY DEF ChallengeResponse
<1>. QED BY <1>1, <1>2, FS_Singleton DEF Told

LEMMA ServerMessageFields ==
  ASSUME NEW s, ServerOK(s), NEW i \in Used(s), NEW command \in {"gamestate", "snapshot", "disconnect"}
  PROVE  LET m == ServerMessage(s, i, command) IN
         /\ m \in Updates /\ m.kind = "message" /\ m.port = s.slot[i].port
         /\ m.serverId = s.instance /\ m.command = command
<1>1. s.slot[i].port \in Clients /\ s.slot[i].challenge \in Nat /\ s.instance \in Nat
  BY DEF ServerOK, ServerType, SlotType, Used
<1>. QED BY <1>1, ConstantTypes DEF ServerMessage, Updates, Times

LEMMA TellMessages ==
  ASSUME NEW s, ServerOK(s), NEW U, U \subseteq Used(s),
         NEW command \in [U -> {"snapshot", "disconnect"}]
  PROVE  /\ Told(s, {ServerMessage(s, i, command[i]) : i \in U})
         /\ \A d \in {ServerMessage(s, i, command[i]) : i \in U} :
              d.kind = "message" /\ d.command # "gamestate"
<1> DEFINE f == [i \in U |-> ServerMessage(s, i, command[i])]
           new == {ServerMessage(s, i, command[i]) : i \in U}
<1>1. IsFiniteSet(Slots)
  BY FS_Interval, ConstantTypes DEF Slots
<1>2. IsFiniteSet(U)
  BY <1>1, FS_Subset DEF Used
<1>3. f \in Surjection(U, new)
  BY Zenon DEF Surjection
<1>4. IsFiniteSet(new)
  BY <1>2, <1>3, FS_Surjection
<1>5. \A i \in U : /\ ServerMessage(s, i, command[i]) \in Updates
                   /\ ServerMessage(s, i, command[i]).kind = "message"
                   /\ ServerMessage(s, i, command[i]).serverId = s.instance
                   /\ ServerMessage(s, i, command[i]).command # "gamestate"
  <2> SUFFICES ASSUME NEW i \in U
               PROVE  /\ ServerMessage(s, i, command[i]) \in Updates
                      /\ ServerMessage(s, i, command[i]).kind = "message"
                      /\ ServerMessage(s, i, command[i]).serverId = s.instance
                   /\ ServerMessage(s, i, command[i]).command # "gamestate"
    OBVIOUS
  <2>1. command[i] \in {"gamestate", "snapshot", "disconnect"} /\ command[i] # "gamestate"
    OBVIOUS
  <2>. QED BY <2>1, ServerMessageFields
<1>6. s.instance \in Nat
  BY DEF ServerOK, ServerType
<1>7. \A d \in new : d \in Updates /\ d.kind = "message" /\ d.serverId = s.instance
                    /\ d.command # "gamestate"
  BY <1>5
<1> HIDE DEF new
<1>8. Told(s, new)
  BY <1>4, <1>6, <1>7 DEF Told
<1>. QED BY <1>7, <1>8 DEF new

\* What is sent to the clients is on its way, or lost.
LEMMA SentToClientsOK ==
  ASSUME ToClientsOK(toClients), NEW s, NEW new, Told(s, new), SentToClients(new)
  PROVE  ToClientsOK(toClients') /\ toClients' \subseteq toClients \cup new
<1>1. toClients' = Sent(toClients, new, ClientCapacity)
  BY DEF SentToClients
<1>2. IsFiniteSet(toClients) /\ Cardinality(toClients) <= ClientCapacity /\ IsFiniteSet(new)
  BY DEF ToClientsOK, Told
<1>3. /\ toClients' \subseteq toClients \cup new /\ IsFiniteSet(toClients')
      /\ Cardinality(toClients') <= ClientCapacity
  BY <1>1, <1>2, SentWithin
<1>. QED BY <1>3 DEF ToClientsOK, Told

LEMMA SentToServerOK ==
  ASSUME ToServerOK(toServer), NEW new, new \subseteq Requests \cup Connects \cup Moves,
         IsFiniteSet(new), SentToServer(new)
  PROVE  ToServerOK(toServer') /\ toServer' \subseteq toServer \cup new
<1>1. toServer' = Sent(toServer, new, ServerCapacity)
  BY DEF SentToServer
<1>2. IsFiniteSet(toServer) /\ Cardinality(toServer) <= ServerCapacity
  BY DEF ToServerOK
<1>3. /\ toServer' \subseteq toServer \cup new /\ IsFiniteSet(toServer')
      /\ Cardinality(toServer') <= ServerCapacity
  BY <1>1, <1>2, SentWithin
<1>. QED BY <1>3 DEF ToServerOK

LEMMA NothingSent == /\ UNCHANGED toClients => SentToClients({})
                     /\ UNCHANGED toServer => SentToServer({})
<1>1. ASSUME NEW net, NEW capacity PROVE Sent(net, {}, capacity) = net
  <2>1. net \cup {} = net
    OBVIOUS
  <2>. QED BY <2>1 DEF Sent
<1>. QED BY <1>1 DEF SentToClients, SentToServer

\* Datagrams are taken.
LEMMA FewerToServer ==
  ASSUME ToServerOK(toServer), toServer' \subseteq toServer
  PROVE  ToServerOK(toServer')
<1>1. IsFiniteSet(toServer) /\ Cardinality(toServer) \in Nat
  BY FS_CardinalityType DEF ToServerOK
<1>2. IsFiniteSet(toServer') /\ Cardinality(toServer') <= Cardinality(toServer)
  BY <1>1, FS_Subset
<1>3. Cardinality(toServer') \in Nat
  BY <1>2, FS_CardinalityType
<1>. QED BY <1>1, <1>2, <1>3, ConstantTypes DEF ToServerOK

LEMMA FewerToClients ==
  ASSUME ToClientsOK(toClients), toClients' \subseteq toClients
  PROVE  ToClientsOK(toClients')
<1>1. IsFiniteSet(toClients) /\ Cardinality(toClients) \in Nat
  BY FS_CardinalityType DEF ToClientsOK
<1>2. IsFiniteSet(toClients') /\ Cardinality(toClients') <= Cardinality(toClients)
  BY <1>1, FS_Subset
<1>3. Cardinality(toClients') \in Nat
  BY <1>2, FS_CardinalityType
<1>. QED BY <1>1, <1>2, <1>3, ConstantTypes DEF ToClientsOK

\* The kinds of the datagrams tell what they hold.
LEMMA DatagramTypes ==
  /\ \A d \in Requests : d.kind = "getchallenge" /\ d.port \in Clients /\ d.age \in Times
  /\ \A d \in Connects : /\ d.kind = "connect" /\ d.port \in Clients /\ d.qport \in Clients
                         /\ d.challenge \in Nat /\ d.age \in Times
  /\ \A d \in Moves : /\ d.kind = "message" /\ d.port \in Clients /\ d.qport \in Clients
                      /\ d.age \in Times /\ d.serverId \in Nat
  /\ \A d \in Responses : /\ d.kind = "challengeResponse" /\ d.port \in Clients
                          /\ d.challenge \in Nat /\ d.age \in Times
  /\ \A d \in Updates : /\ d.kind = "message" /\ d.port \in Clients /\ d.serverId \in Nat
                        /\ d.age \in Times
  /\ \A d \in Notices : /\ d.kind \in {"connectResponse", "print", "disconnect"}
                        /\ d.port \in Clients /\ d.age \in Times
BY DEF Requests, Connects, Moves, Responses, Updates, Notices

-----------------------------------------------------------------------------
(* The invariant at steps of the server.                                   *)

LEMMA AgreeKept ==
  ASSUME NEW c, Agree(c), client'[c].state = client[c].state,
         client'[c].challenge = client[c].challenge,
         \A d \in ConnectsOf(c)' : \E e \in ConnectsOf(c) : e.challenge = d.challenge,
         ConnectResponses(c)' # {} => ConnectResponses(c) # {},
         \A i \in SlotsOf(c)' : i \in SlotsOf(c) /\ server'.slot[i].challenge = server.slot[i].challenge
  PROVE  Agree(c)'
<1>1. Answered(c)' => Answered(c)
  BY DEF Answered
<1>. QED BY <1>1 DEF Agree

\* Gamestates are sent in answer to a message of the client, whose slot is then no
\* longer a new one, and slots are freed after a silence, or with all challenges.
Calm ==
  /\ Follows(server, server') /\ SamePorts(server, server')
  /\ \A m \in toClients' \ toClients :
       /\ m.kind # "connectResponse"
       /\ m.kind = "message" /\ m.command = "gamestate" =>
            /\ \E d \in toServer : d.kind = "message" /\ d.port = m.port
            /\ \A i \in SlotsOf(m.port)' : server'.slot[i].state # "connected"
  /\ \/ \A i \in Used(server) \ Used(server') :
          server.slot[i].packetAge > Lesser(sv_timeout, sv_zombietime)
     \/ \A k \in Entries : server'.table[k].value = 0
  /\ toServer' \subseteq toServer

LEMMA CalmStep ==
  ASSUME Follows(server, server'), SamePorts(server, server'), toServer' \subseteq toServer,
         NEW new, toClients' \subseteq toClients \cup new,
         \A m \in new : m.kind # "connectResponse" /\ (m.kind = "message" => m.command # "gamestate"),
         \/ \A i \in Used(server) \ Used(server') :
              server.slot[i].packetAge > Lesser(sv_timeout, sv_zombietime)
         \/ \A k \in Entries : server'.table[k].value = 0
  PROVE  Calm
BY DEF Calm

LEMMA ServerStep ==
  ASSUME IInv, UNCHANGED <<client, port, remaps>>, ServerOK(server'), Follows(server, server'),
         server'.instance <= MaxStarts + 1, server'.lastChallenge <= MaxChallenge,
         remaps = 0 => SamePorts(server, server'),
         toServer' \subseteq toServer,
         NEW new, Told(server', new), SentToClients(new), \A d \in new : d.kind # "connectResponse"
  PROVE  IInv' /\ toClients' \subseteq toClients \cup new
<1>1. ToClientsOK(toClients') /\ toClients' \subseteq toClients \cup new /\ ToServerOK(toServer')
  BY SentToClientsOK, FewerToServer DEF IInv, TypeInv
<1>2. TypeInv'
  BY <1>1 DEF IInv, TypeInv
<1>3. BoundInv'
  <2>1. /\ server.instance \in Nat /\ server'.instance \in Nat
        /\ server.lastChallenge \in Nat /\ server'.lastChallenge \in Nat
        /\ server.instance <= server'.instance /\ server.lastChallenge <= server'.lastChallenge
    BY DEF IInv, TypeInv, ServerOK, ServerType, Follows
  <2>2. \A d \in toServer' : d.kind = "connect" => d.challenge <= server'.lastChallenge
    <3> SUFFICES ASSUME NEW d \in toServer, d.kind = "connect" PROVE d.challenge <= server'.lastChallenge
      OBVIOUS
    <3>1. d.challenge <= server.lastChallenge /\ d.challenge \in Nat
      BY DatagramTypes DEF IInv, TypeInv, ToServerOK, BoundInv
    <3>. QED BY <2>1, <3>1
  <2>3. \A d \in toClients' : d.kind = "challengeResponse" => d.challenge <= server'.lastChallenge
    <3> SUFFICES ASSUME NEW d \in toClients, d.kind = "challengeResponse"
                 PROVE  d.challenge <= server'.lastChallenge
      BY <1>1 DEF Told
    <3>1. d.challenge <= server.lastChallenge /\ d.challenge \in Nat
      BY DatagramTypes DEF IInv, TypeInv, ToClientsOK, BoundInv
    <3>. QED BY <2>1, <3>1
  <2>4. \A d \in toClients' : d.kind = "message" => d.serverId <= server'.instance
    <3> SUFFICES ASSUME NEW d \in toClients, d.kind = "message" PROVE d.serverId <= server'.instance
      BY <1>1 DEF Told
    <3>1. d.serverId <= server.instance /\ d.serverId \in Nat
      BY DatagramTypes DEF IInv, TypeInv, ToClientsOK, BoundInv
    <3>. QED BY <2>1, <3>1
  <2>5. ASSUME NEW c \in Clients
        PROVE  /\ client'[c].challenge <= server'.lastChallenge
               /\ client'[c].serverId <= server'.instance
               /\ client'[c].state # "connected" => client'[c].serverId = 0
    <3>1. client[c].challenge \in Nat /\ client[c].serverId \in Nat
      BY DEF IInv, TypeInv, ClientType
    <3>. QED BY <2>1, <3>1 DEF IInv, BoundInv
  <2>. QED BY <2>1, <2>2, <2>3, <2>4, <2>5, ConstantTypes DEF BoundInv, IInv
<1>4. ASSUME NEW c, NEW i \in SlotsOf(c)'
      PROVE  /\ i \in SlotsOf(c) /\ server'.slot[i].qport = server.slot[i].qport
             /\ server'.slot[i].challenge = server.slot[i].challenge
  BY DEF SlotsOf, Follows, KeptSlot, Used
<1>5. FixedInv'
  <2> SUFFICES ASSUME remaps = 0
               PROVE  /\ \A c \in Clients : port'[c] = c
                      /\ \A d \in toServer' : d.kind # "getchallenge" => d.qport = d.port
                      /\ \A i \in Used(server') : server'.slot[i].qport = server'.slot[i].port
                      /\ \A c \in Clients : \A i, j \in SlotsOf(c)' : i = j
    BY DEF FixedInv
  <2>1. ASSUME NEW i \in Used(server') PROVE server'.slot[i].qport = server'.slot[i].port
    <3>1. i \in Used(server) /\ server'.slot[i].qport = server.slot[i].qport
      BY DEF Follows, KeptSlot, Used
    <3>. QED BY <3>1 DEF SamePorts, IInv, FixedInv
  <2>. QED BY <1>4, <2>1 DEF IInv, FixedInv
<1>6. AgreeInv'
  <2> SUFFICES ASSUME remaps = 0, NEW c \in Clients, ~client[c].hasty PROVE Agree(c)'
    BY DEF AgreeInv
  <2>1. Agree(c)
    BY DEF IInv, AgreeInv
  <2>2. ConnectsOf(c)' \subseteq ConnectsOf(c) /\ ConnectResponses(c)' \subseteq ConnectResponses(c)
    BY <1>1 DEF ConnectsOf, ConnectResponses
  <2>. QED BY <1>4, <2>1, <2>2, AgreeKept
<1>. QED BY <1>1, <1>2, <1>3, <1>5, <1>6 DEF IInv

LEMMA GetChallengeKeeps ==
  ASSUME IInv, NEW d \in toServer, d.kind = "getchallenge", NEW atOnce \in BOOLEAN,
         SV_GetChallenge(d, atOnce), toServer' \subseteq toServer, UNCHANGED <<client, port, remaps>>
  PROVE  IInv' /\ Calm /\ (GameTold(server) => GameTold(server'))
<1> DEFINE s == Challenged(server, d.port)
           x == s.table[Entry(server, d.port)].value
           new == IF ~atOnce THEN {} ELSE {ChallengeResponse(d.port, x)}
<1>1. d \in Requests /\ d.port \in Clients
  BY DatagramTypes DEF IInv, TypeInv, ToServerOK
<1>2. ServerOK(server)
  BY DEF IInv, TypeInv
<1>3. /\ ServerOK(s) /\ Follows(server, s) /\ s.slot = server.slot
      /\ s.playing = server.playing /\ s.deniedAgain = server.deniedAgain
      /\ x <= s.lastChallenge /\ x \in Nat
  BY <1>1, <1>2, ChallengedOK
<1>4. /\ server' = s /\ s.lastChallenge <= MaxChallenge /\ SentToClients(new)
  BY DEF SV_GetChallenge
<1> HIDE DEF s, x
<1>5. s.instance <= MaxStarts + 1
  <2>1. s.instance = server.instance \/ Used(s) = {}
    BY <1>3 DEF Follows
  <2>2. s.instance = server.instance
    BY DEF s, Challenged
  <2>. QED BY <2>2, ConstantTypes DEF IInv, BoundInv
<1>6. Told(s, new) /\ \A e \in new : e.kind = "challengeResponse"
  BY <1>1, <1>3, TellChallenge, TellNothing
<1>7. SamePorts(server, s)
  BY <1>3 DEF SamePorts
<1>8. GameTold(server) => GameTold(s)
  BY <1>3 DEF GameTold, Connected
<1> HIDE DEF new
<1>9. IInv' /\ toClients' \subseteq toClients \cup new
  BY <1>3, <1>4, <1>5, <1>6, <1>7, ServerStep
<1>10. Used(server') = Used(server)
  BY <1>3, <1>4 DEF Used
<1>11. Calm
  BY <1>3, <1>4, <1>6, <1>7, <1>9, <1>10, CalmStep
<1>. QED BY <1>4, <1>8, <1>9, <1>11

LEMMA AuthorizeKeeps ==
  ASSUME IInv, NEW k \in Entries, NEW accepted \in BOOLEAN, SV_AuthorizeIpPacket(k, accepted)
  PROVE  IInv' /\ Calm /\ (GameTold(server) => GameTold(server'))
<1> DEFINE e == server.table[k]
           new == {IF accepted THEN ChallengeResponse(e.port, e.value) ELSE Notice(e.port, "print")}
           cleared == [server EXCEPT !.table[k] = NoChallenge]
<1>1. ServerOK(server)
  BY DEF IInv, TypeInv
<1>2. /\ e.value \in Nat /\ e.value <= server.lastChallenge /\ e.port \in Clients
  BY <1>1 DEF ServerOK, ServerType, EntryType, SV_AuthorizeIpPacket
<1>3. /\ ServerOK(cleared) /\ Follows(server, cleared) /\ cleared.slot = server.slot
      /\ cleared.playing = server.playing /\ cleared.deniedAgain = server.deniedAgain
      /\ cleared.lastChallenge = server.lastChallenge /\ cleared.instance = server.instance
  BY <1>1, ClearedOK
<1> HIDE DEF cleared, e
<1>4. /\ server' = IF accepted THEN server ELSE cleared
      /\ UNCHANGED <<client, port, toServer, remaps>> /\ SentToClients(new)
  BY DEF SV_AuthorizeIpPacket, e, cleared
<1>5. /\ ServerOK(server') /\ Follows(server, server') /\ server'.slot = server.slot
      /\ server'.playing = server.playing /\ server'.deniedAgain = server.deniedAgain
      /\ server'.lastChallenge = server.lastChallenge /\ server'.instance = server.instance
  BY <1>1, <1>3, <1>4, FollowsItself
<1>6. Told(server', new) /\ \A m \in new : m.kind \in {"challengeResponse", "print"}
  <2>1. CASE accepted
    <3>1. /\ Told(server', {ChallengeResponse(e.port, e.value)})
          /\ ChallengeResponse(e.port, e.value).kind = "challengeResponse"
      BY <1>2, <1>5, TellChallenge
    <3>. QED BY <2>1, <3>1
  <2>2. CASE ~accepted
    <3>1. Told(server', {Notice(e.port, "print")}) /\ Notice(e.port, "print").kind = "print"
      BY <1>2, TellNotice
    <3>. QED BY <2>2, <3>1
  <2>. QED BY <2>1, <2>2
<1>7. SamePorts(server, server')
  BY <1>5 DEF SamePorts
<1>8. GameTold(server) => GameTold(server')
  BY <1>5 DEF GameTold, Connected
<1>9. server'.instance <= MaxStarts + 1 /\ server'.lastChallenge <= MaxChallenge
  BY <1>5, ConstantTypes DEF IInv, BoundInv
<1> HIDE DEF new
<1>10. IInv' /\ toClients' \subseteq toClients \cup new
  BY <1>4, <1>5, <1>6, <1>7, <1>9, ServerStep
<1>11. Used(server') = Used(server)
  BY <1>5 DEF Used
<1>12. Calm
  BY <1>4, <1>5, <1>6, <1>7, <1>10, <1>11, CalmStep
<1>. QED BY <1>8, <1>10, <1>12

LEMMA FrameKeeps ==
  ASSUME IInv, SV_Frame
  PROVE  IInv' /\ Calm /\ (GameTold(server) => GameTold(server'))
<1> DEFINE s == CheckedTimeouts(server)
           command == [i \in Used(s) |-> IF s.slot[i].state = "zombie" THEN "disconnect" ELSE "snapshot"]
           new == {ServerMessage(s, i, command[i]) : i \in Used(s)}
<1>1. ServerOK(server)
  BY DEF IInv, TypeInv
<1>2. /\ ServerOK(s) /\ Follows(server, s) /\ SamePorts(server, s)
      /\ (GameTold(server) => GameTold(s))
      /\ s.instance = server.instance /\ s.lastChallenge = server.lastChallenge
      /\ \A i \in Used(server) \ Used(s) :
           server.slot[i].packetAge > Lesser(sv_timeout, sv_zombietime)
  BY <1>1, CheckedTimeoutsOK
<1>3. server' = s /\ UNCHANGED <<client, port, toServer, remaps>>
  BY DEF SV_Frame
<1>4. SentToClients(new)
  <2>1. new = {ServerMessage(s, i, IF s.slot[i].state = "zombie" THEN "disconnect" ELSE "snapshot") :
                 i \in Used(s)}
    OBVIOUS
  <2>. QED BY <2>1 DEF SV_Frame
<1> HIDE DEF s
<1>5. command \in [Used(s) -> {"snapshot", "disconnect"}]
  OBVIOUS
<1> HIDE DEF command
<1>6. Told(s, new) /\ \A m \in new : m.kind = "message" /\ m.command # "gamestate"
  BY <1>2, <1>5, TellMessages
<1>7. server'.instance <= MaxStarts + 1 /\ server'.lastChallenge <= MaxChallenge
  BY <1>2, <1>3, ConstantTypes DEF IInv, BoundInv
<1> HIDE DEF new
<1>8. \A m \in new : m.kind # "connectResponse"
  BY <1>6
<1>9. IInv' /\ toClients' \subseteq toClients \cup new
  BY <1>2, <1>3, <1>4, <1>6, <1>7, <1>8, ServerStep
<1>10. Calm
  BY <1>2, <1>3, <1>6, <1>8, <1>9, CalmStep
<1>. QED BY <1>2, <1>3, <1>9, <1>10

LEMMA KickKeeps ==
  ASSUME IInv, NEW i \in Slots, Kick(i)
  PROVE  IInv' /\ Calm /\ (GameTold(server) => GameTold(server'))
<1> DEFINE s == Dropped(server, {i})
           t == [s EXCEPT !.slot[i].packetAge = 0]
<1>1. ServerOK(server)
  BY DEF IInv, TypeInv
<1>2. {i} \subseteq Connected(server)
  BY DEF Kick
<1>3. /\ ServerOK(s) /\ Follows(server, s) /\ SamePorts(server, s)
      /\ (GameTold(server) => GameTold(s))
      /\ s.instance = server.instance /\ s.lastChallenge = server.lastChallenge
      /\ s.slot[i].state = "zombie" /\ Used(s) = Used(server)
  BY <1>1, <1>2, DroppedOK
<1> HIDE DEF s
<1>4. /\ ServerOK(t) /\ Follows(s, t) /\ SamePorts(s, t) /\ Used(t) = Used(s)
      /\ (GameTold(s) => GameTold(t))
      /\ t.instance = s.instance /\ t.lastChallenge = s.lastChallenge
  BY <1>3, KeptZombieOK
<1> HIDE DEF t
<1>5. Follows(server, t)
  BY <1>1, <1>3, <1>4, FollowsOn
<1>6. SamePorts(server, t)
  BY <1>3, <1>4 DEF SamePorts, Follows, KeptSlot
<1>7. server' \in {s, t} /\ UNCHANGED <<client, port, toServer, toClients, remaps>>
  BY DEF Kick, s, t
<1>8. /\ ServerOK(server') /\ Follows(server, server') /\ SamePorts(server, server')
      /\ (GameTold(server) => GameTold(server'))
      /\ server'.instance = server.instance /\ server'.lastChallenge = server.lastChallenge
  BY <1>3, <1>4, <1>5, <1>6, <1>7
<1>9. server'.instance <= MaxStarts + 1 /\ server'.lastChallenge <= MaxChallenge
  BY <1>8, ConstantTypes DEF IInv, BoundInv
<1>10. SentToClients({}) /\ Told(server', {})
  BY <1>7, NothingSent, TellNothing
<1>11. IInv' /\ toClients' \subseteq toClients \cup {}
  BY <1>7, <1>8, <1>9, <1>10, ServerStep
<1>12. Used(server') = Used(server)
  <2>1. CASE server' = s
    BY <1>3, <2>1 DEF Used
  <2>2. CASE server' = t
    BY <1>3, <1>4, <2>2 DEF Used
  <2>. QED BY <1>7, <2>1, <2>2
<1>13. toClients' = toClients /\ toServer' = toServer
  BY <1>7
<1>14. \A j \in Used(server) \ Used(server') : FALSE
  BY <1>12
<1>15. Calm
  BY <1>8, <1>13, <1>14 DEF Calm
<1>. QED BY <1>8, <1>11, <1>15

LEMMA RestartKeeps ==
  ASSUME IInv, NEW announced \in BOOLEAN, Restart(announced)
  PROVE  IInv' /\ Calm /\ GameTold(server')
<1> DEFINE s == NewServer(server.instance + 1, server.lastChallenge)
           command == [i \in Connected(server) |-> "disconnect"]
           words == {ServerMessage(server, i, command[i]) : i \in Connected(server)}
           new == IF ~announced THEN {} ELSE words
<1>1. /\ ServerOK(server) /\ server.instance \in Nat /\ server.lastChallenge \in Nat
  BY DEF IInv, TypeInv, ServerOK, ServerType
<1>2. /\ ServerOK(s) /\ GameTold(s) /\ Used(s) = {}
      /\ s.instance = server.instance + 1 /\ s.lastChallenge = server.lastChallenge
      /\ \A k \in Entries : s.table[k].value = 0
  BY <1>1, NewServerOK
<1>3. server' = s /\ UNCHANGED <<client, port, toServer, remaps>>
  BY DEF Restart
<1> HIDE DEF s
<1>4. SentToClients(new)
  <2>1. words = {ServerMessage(server, i, "disconnect") : i \in Connected(server)}
    OBVIOUS
  <2>. QED BY <2>1 DEF Restart
<1>5. Follows(server, s) /\ SamePorts(server, s)
  BY <1>1, <1>2 DEF Follows, SamePorts
<1>6. command \in [Connected(server) -> {"snapshot", "disconnect"}]
  OBVIOUS
<1> HIDE DEF command
<1>7. Connected(server) \subseteq Used(server)
  BY DEF Connected, Used
<1>8. Told(server, words) /\ \A m \in words : m.kind = "message" /\ m.command # "gamestate"
  BY <1>1, <1>6, <1>7, TellMessages
<1> HIDE DEF words
<1>9. Told(s, new) /\ \A m \in new : m.kind = "message" /\ m.command # "gamestate"
  <2>1. \A m \in words : m.serverId <= s.instance
    <3> SUFFICES ASSUME NEW m \in words PROVE m.serverId <= s.instance
      OBVIOUS
    <3>1. m.serverId <= server.instance /\ m \in Updates
      BY <1>8, DatagramTypes DEF Told
    <3>2. m.serverId \in Nat
      BY <3>1, DatagramTypes
    <3>. QED BY <1>1, <1>2, <3>1, <3>2
  <2>2. Told(s, words)
    BY <1>2, <1>8, <2>1 DEF Told
  <2>. QED BY <1>8, <2>2, TellNothing
<1>10. s.instance <= MaxStarts + 1 /\ s.lastChallenge <= MaxChallenge
  <2>1. PICK c \in Clients : TRUE
    BY ConstantTypes
  <2>2. client[c].attempts + server.instance <= MaxStarts
    BY <2>1 DEF Restart, MayStart
  <2>3. client[c].attempts \in Nat
    BY <2>1, ConstantTypes DEF IInv, TypeInv, ClientType
  <2>. QED BY <1>1, <1>2, <2>2, <2>3, ConstantTypes DEF IInv, BoundInv
<1> HIDE DEF new
<1>11. IInv' /\ toClients' \subseteq toClients \cup new
  BY <1>2, <1>3, <1>4, <1>5, <1>9, <1>10, ServerStep
<1>12. Calm
  BY <1>2, <1>3, <1>5, <1>9, <1>11, CalmStep
<1>. QED BY <1>2, <1>3, <1>11, <1>12

\* A client message that is read or answered.
LEMMA ExecuteOK ==
  ASSUME NEW s, ServerOK(s), NEW i \in Connected(s), NEW d, d.command \in {"move", "disconnect"},
         SV_ExecuteClientMessage(s, i, d)
  PROVE  /\ ServerOK(server') /\ Follows(s, server') /\ SamePorts(s, server')
         /\ GameTold(s) => GameTold(server')
         /\ Used(server') = Used(s)
         /\ server'.instance = s.instance /\ server'.lastChallenge = s.lastChallenge
         /\ \/ UNCHANGED toClients
            \/ SentToClients({ServerMessage(s, i, "gamestate")}) /\ server'.slot[i].state # "connected"
<1> DEFINE OK(t) == /\ ServerOK(t) /\ Follows(s, t) /\ SamePorts(s, t)
                    /\ GameTold(s) => GameTold(t)
                    /\ Used(t) = Used(s)
                    /\ t.instance = s.instance /\ t.lastChallenge = s.lastChallenge
           set(x) == InState(s, i, x)
           dropped == Dropped(s, {i})
<1>1. OK(s)
  BY FollowsItself
<1>2. OK(dropped)
  <2>1. {i} \subseteq Connected(s)
    OBVIOUS
  <2>. QED BY <2>1, DroppedOK
<1>7. ASSUME NEW x \in {"connected", "primed", "active"}, x = "connected" => s.slot[i].state = "connected"
      PROVE  OK(set(x)) /\ set(x).slot[i].state = x
  <2> HIDE DEF OK
  <2> DEFINE t == set(x)
  <2>1. /\ ServerOK(t) /\ Follows(s, t) /\ SamePorts(s, t) /\ Used(t) = Used(s)
        /\ GameTold(s) => GameTold(t)
        /\ t.slot[i].state = x
        /\ t.instance = s.instance /\ t.lastChallenge = s.lastChallenge
    BY <1>7, StateOK
  <2> HIDE DEF set
  <2>. QED BY <2>1 DEF OK
<1> HIDE DEF OK, set
<1>3. OK(set("primed")) /\ set("primed").slot[i].state = "primed"
  BY <1>7
<1>4. /\ s.slot[i].state = "primed" => OK(set("active"))
      /\ OK(set(s.slot[i].state))
  <2>1. s.slot[i].state \in {"connected", "primed", "active"}
    BY DEF Connected
  <2>2. OK(set("active"))
    BY <1>7
  <2>3. OK(set(s.slot[i].state))
    BY <1>7, <2>1
  <2>. QED BY <2>2, <2>3
<1>5. CASE d.serverId # s.instance
  <2>1. \/ /\ server' = set("primed") /\ SentToClients({ServerMessage(s, i, "gamestate")})
        \/ server' = s /\ UNCHANGED toClients
    BY <1>5 DEF SV_ExecuteClientMessage, set, InState
  <2>2. OK(server') /\ (server' = s \/ server'.slot[i].state = "primed")
    BY <1>1, <1>3, <2>1
  <2>3. \/ UNCHANGED toClients
        \/ SentToClients({ServerMessage(s, i, "gamestate")}) /\ server'.slot[i].state # "connected"
    BY <1>3, <2>1
  <2>. QED BY <2>2, <2>3 DEF OK
<1>6. CASE d.serverId = s.instance
  <2> DEFINE next == IF s.slot[i].state = "primed" THEN "active" ELSE s.slot[i].state
  <2>1. /\ \/ server' \in {s, dropped}
           \/ server' = dropped
           \/ server' = set(next)
        /\ UNCHANGED toClients
    BY <1>6 DEF SV_ExecuteClientMessage, set, InState
  <2>2. OK(set(next))
    <3>1. CASE s.slot[i].state = "primed"
      BY <1>4, <3>1
    <3>2. CASE s.slot[i].state # "primed"
      BY <1>4, <3>2
    <3>. QED BY <3>1, <3>2
  <2> HIDE DEF dropped, next
  <2>3. OK(server')
    BY <1>1, <1>2, <2>1, <2>2
  <2>. QED BY <2>1, <2>3 DEF OK
<1>. QED BY <1>5, <1>6

LEMMA SequencedPacketKeeps ==
  ASSUME IInv, NEW d \in toServer, d.kind = "message", SV_SequencedPacket(d),
         toServer' \subseteq toServer, UNCHANGED <<client, port, remaps>>
  PROVE  /\ IInv' /\ Follows(server, server') /\ (remaps = 0 => Calm)
         /\ GameTold(server) => GameTold(server')
<1> DEFINE own == {i \in Used(server) : server.slot[i].qport = d.qport}
           i == Min(own)
           h == Heard(server, i, d)
<1>1. /\ d \in Moves /\ d.port \in Clients /\ d.qport \in Clients
      /\ d.command \in {"move", "disconnect"} /\ (remaps = 0 => d.qport = d.port)
  BY DatagramTypes DEF IInv, TypeInv, ToServerOK, FixedInv, Moves
<1>2. ServerOK(server) /\ ToClientsOK(toClients)
  BY DEF IInv, TypeInv
<1>3. /\ server.instance <= MaxStarts + 1 /\ server.lastChallenge <= MaxChallenge
  BY ConstantTypes DEF IInv, BoundInv
<1>4. CASE own = {}
  <2> DEFINE new == {Notice(d.port, "disconnect")}
  <2>1. server' = server /\ SentToClients(new)
    BY <1>4 DEF SV_SequencedPacket
  <2>2. Told(server', new) /\ \A m \in new : m.kind = "disconnect"
    BY <1>1, TellNotice
  <2> HIDE DEF new
  <2>3. Follows(server, server') /\ SamePorts(server, server') /\ ServerOK(server')
    BY <1>2, <2>1, FollowsItself
  <2>4. /\ server'.instance <= MaxStarts + 1 /\ server'.lastChallenge <= MaxChallenge
    BY <1>3, <2>1
  <2>5. IInv' /\ toClients' \subseteq toClients \cup new
    BY <2>1, <2>2, <2>3, <2>4, ServerStep
  <2>6. \A j \in Used(server) \ Used(server') : FALSE
    BY <2>1 DEF Used
  <2>7. Calm
    BY <2>2, <2>3, <2>5, <2>6, CalmStep
  <2>. QED BY <2>1, <2>3, <2>5, <2>7
<1>5. CASE own # {}
  <2>1. own \subseteq Nat
    BY SlotsAndEntries DEF Used
  <2>2. i \in own
    BY <1>5, <2>1, MinIsLeast
  <2>3. /\ i \in Used(server) /\ i \in Slots /\ server.slot[i].qport = d.qport
        /\ server.slot[i].state # "free"
    BY <2>2 DEF Used
  <2>4. \/ server' = h /\ UNCHANGED toClients
        \/ server.slot[i].state # "zombie" /\ SV_ExecuteClientMessage(h, i, d)
    BY <1>5 DEF SV_SequencedPacket
  <2> HIDE DEF own, i
  <2>5. /\ ServerOK(h) /\ Follows(server, h) /\ Used(h) = Used(server)
        /\ (GameTold(server) => GameTold(h)) /\ (server.slot[i].qport = d.port => SamePorts(server, h))
        /\ h.slot[i].state = server.slot[i].state /\ h.slot[i].qport = server.slot[i].qport
        /\ h.slot[i].challenge = server.slot[i].challenge
        /\ h.instance = server.instance /\ h.lastChallenge = server.lastChallenge
    BY <1>1, <1>2, <2>3, HeardOK
  <2>6. h.slot[i].port = d.port
    <3>1. server \in ServerType /\ server.slot[i] \in SlotType
      BY <1>2, <2>3 DEF ServerOK, ServerType
    <3>. QED BY <2>3, <3>1 DEF Heard, ServerType, SlotType
  <2> HIDE DEF h
  <2> DEFINE m == ServerMessage(h, i, "gamestate")
  <2>7. /\ ServerOK(server') /\ Follows(h, server') /\ SamePorts(h, server')
        /\ (GameTold(h) => GameTold(server')) /\ Used(server') = Used(h)
        /\ server'.instance = h.instance /\ server'.lastChallenge = h.lastChallenge
        /\ \/ UNCHANGED toClients
           \/ SentToClients({m}) /\ server'.slot[i].state # "connected"
    <3>1. CASE server' = h /\ UNCHANGED toClients
      BY <2>5, <3>1, FollowsItself
    <3>2. CASE server.slot[i].state # "zombie" /\ SV_ExecuteClientMessage(h, i, d)
      <4>1. server.slot[i].state \in SlotStates
        BY <1>2, <2>3 DEF ServerOK, ServerType, SlotType
      <4>2. i \in Connected(h)
        BY <2>3, <2>5, <3>2, <4>1 DEF Connected, SlotStates
      <4>3. /\ ServerOK(server') /\ Follows(h, server') /\ SamePorts(h, server')
            /\ (GameTold(h) => GameTold(server')) /\ Used(server') = Used(h)
            /\ server'.instance = h.instance /\ server'.lastChallenge = h.lastChallenge
            /\ \/ UNCHANGED toClients
               \/ SentToClients({ServerMessage(h, i, "gamestate")}) /\ server'.slot[i].state # "connected"
        <5>1. ServerOK(h) /\ SV_ExecuteClientMessage(h, i, d)
          BY <2>5, <3>2
        <5>. QED BY ONLY <1>1, <4>2, <5>1, ExecuteOK
      <4>. QED BY <4>3 DEF m
    <3>. QED BY <2>4, <3>1, <3>2
  <2>8. i \in Used(h) /\ m \in Updates /\ m.kind = "message" /\ m.port = d.port
        /\ m.serverId = h.instance
    BY <2>3, <2>5, <2>6, ServerMessageFields
  <2> HIDE DEF m
  <2>9. Follows(server, server')
    BY <1>2, <2>5, <2>7, FollowsOn
  <2>10. remaps = 0 => SamePorts(server, server')
    <3> SUFFICES ASSUME remaps = 0 PROVE SamePorts(server, server')
      OBVIOUS
    <3>1. SamePorts(server, h)
      BY <1>1, <2>3, <2>5
    <3>. QED BY <2>7, <3>1 DEF SamePorts, Follows, KeptSlot
  <2>11. PICK new : /\ SentToClients(new) /\ new \in {{}, {m}}
                    /\ m \in new => server'.slot[i].state # "connected"
    <3>1. CASE UNCHANGED toClients
      BY <3>1, NothingSent
    <3>2. CASE SentToClients({m}) /\ server'.slot[i].state # "connected"
      BY <3>2
    <3>. QED BY <2>7, <3>1, <3>2
  <2>12. Told(server', new) /\ \A x \in new : x.kind # "connectResponse"
    <3>1. server'.instance \in Nat /\ IsFiniteSet({m}) /\ IsFiniteSet({})
      BY <2>7, FS_EmptySet, FS_Singleton DEF ServerOK, ServerType
    <3>. QED BY <2>7, <2>8, <2>11, <3>1 DEF Told
  <2>13. /\ server'.instance <= MaxStarts + 1 /\ server'.lastChallenge <= MaxChallenge
    BY <1>3, <2>5, <2>7
  <2>14. IInv' /\ toClients' \subseteq toClients \cup new
    BY <2>7, <2>9, <2>10, <2>11, <2>12, <2>13, ServerStep
  <2>15. remaps = 0 => Calm
    <3> SUFFICES ASSUME remaps = 0 PROVE Calm
      OBVIOUS
    <3>1. ASSUME NEW x \in toClients' \ toClients
          PROVE  /\ x.kind # "connectResponse"
                 /\ x.kind = "message" /\ x.command = "gamestate" =>
                      /\ \E e \in toServer : e.kind = "message" /\ e.port = x.port
                      /\ \A j \in SlotsOf(x.port)' : server'.slot[j].state # "connected"
      <4>1. x = m /\ m \in new
        BY <2>11, <2>14
      <4>2. \A j \in SlotsOf(x.port)' : server'.slot[j].state # "connected"
        <5> SUFFICES ASSUME NEW j \in SlotsOf(x.port)' PROVE server'.slot[j].state # "connected"
          OBVIOUS
        <5>1. remaps' = 0 /\ d.port \in Clients /\ x.port = d.port /\ d.port = d.qport
          BY <1>1, <2>8, <4>1
        <5>2. i \in Used(server') /\ server'.slot[i].qport = server.slot[i].qport
          BY <2>3, <2>5, <2>7, <2>9 DEF Follows, KeptSlot
        <5>3. i \in SlotsOf(x.port)'
          BY <2>3, <5>1, <5>2 DEF SlotsOf
        <5>4. i = j
          BY <2>14, <5>1, <5>3 DEF IInv, FixedInv
        <5>. QED BY <2>11, <4>1, <5>4
      <4>. QED BY <2>8, <4>1, <4>2
    <3>2. \A j \in Used(server) \ Used(server') : FALSE
      BY <2>5, <2>7
    <3>. QED BY <2>9, <2>10, <3>1, <3>2 DEF Calm
  <2>. QED BY <2>5, <2>7, <2>9, <2>14, <2>15
<1>. QED BY <1>4, <1>5

\* A connect is accepted, in the slot of the client if it has one; or the game denies
\* it, and that slot is free.
Filled(i, d, denied) ==
  /\ i \in Slots
  /\ i \in Used(server) => server.slot[i].connectAge >= sv_reconnectlimit
  /\ i \in Used(server) => server.slot[i].qport = d.qport \/ server.slot[i].port = d.port
  /\ i \in Used(server) /\ remaps = 0 => server.slot[i].qport = d.qport
  /\ i \notin Used(server) => SlotsOf(d.qport) = {}
  /\ Known(server, d) # {}
  /\ ServerOK(server')
  /\ server'.lastChallenge = server.lastChallenge /\ server'.instance = server.instance
  /\ \A k \in Entries : /\ server'.table[k].port = server.table[k].port
                        /\ server'.table[k].value = server.table[k].value
  /\ \A j \in Slots \ {i} : server'.slot[j] = server.slot[j]
  /\ Used(server') = IF denied THEN Used(server) \ {i} ELSE Used(server) \cup {i}
  /\ ~denied => LET new == server'.slot[i]
                IN  /\ new.state = "connected" /\ new.port = d.port /\ new.qport = d.qport
                    /\ new.challenge = d.challenge /\ new.connectAge = 0 /\ new.packetAge = 0
  /\ denied => server'.slot[i].state = "free"
  /\ ToClientsOK(toClients')
  /\ \A m \in toClients' \ toClients :
       m = IF denied THEN Notice(d.port, "print") ELSE Notice(d.port, "connectResponse")
  /\ toServer' \subseteq toServer /\ UNCHANGED <<client, port, remaps>>

LEMMA DirectConnectCases ==
  ASSUME IInv, NEW d \in toServer, d.kind = "connect", NEW denied \in BOOLEAN,
         SV_DirectConnect(d, denied), toServer' \subseteq toServer, UNCHANGED <<client, port, remaps>>
  PROVE  /\ (IInv' /\ Calm) \/ \E i \in Slots : Filled(i, d, denied)
         /\ GameTold(server) => GameTold(server')
<1> DEFINE own == Matching(server, d)
           i == IF own # {} THEN Min(own) ELSE Min(Slots \ Used(server))
           known == [server EXCEPT !.table = [k \in Entries |->
                      [server.table[k] EXCEPT !.connected = @ \/ k \in Known(server, d)]]]
           print == {Notice(d.port, "print")}
<1>1. d \in Connects /\ d.port \in Clients /\ (remaps = 0 => d.qport = d.port)
  BY DatagramTypes DEF IInv, TypeInv, ToServerOK, FixedInv
<1>2. ServerOK(server) /\ ToClientsOK(toClients)
  BY DEF IInv, TypeInv
<1>3. /\ server.instance <= MaxStarts + 1 /\ server.lastChallenge <= MaxChallenge
  BY ConstantTypes DEF IInv, BoundInv
<1>4. /\ ServerOK(known) /\ Follows(server, known) /\ known.slot = server.slot
      /\ known.playing = server.playing /\ known.deniedAgain = server.deniedAgain
      /\ known.lastChallenge = server.lastChallenge /\ known.instance = server.instance
      /\ \A k \in Entries : /\ known.table[k].port = server.table[k].port
                            /\ known.table[k].value = server.table[k].value
  BY <1>2, NotedOK
<1>5. SV_DirectConnect(d, denied) <=>
        IF TooSoon(server, d) THEN UNCHANGED <<server, toClients>>
        ELSE IF Known(server, d) = {} THEN SentToClients(print) /\ UNCHANGED server
        ELSE IF own = {} /\ Used(server) = Slots THEN SentToClients(print) /\ server' = known
        ELSE /\ server' = SlotFilled(known, i, d, denied)
             /\ SentToClients({Notice(d.port, IF denied THEN "print" ELSE "connectResponse")})
  BY DEF SV_DirectConnect
<1> HIDE DEF known, i, own
<1>6. ASSUME server' \in {server, known}, NEW new \in {{}, print}, SentToClients(new)
      PROVE  IInv' /\ Calm /\ (GameTold(server) => GameTold(server'))
  <2>1. /\ ServerOK(server') /\ Follows(server, server') /\ server'.slot = server.slot
        /\ server'.playing = server.playing /\ server'.deniedAgain = server.deniedAgain
        /\ server'.lastChallenge = server.lastChallenge /\ server'.instance = server.instance
    BY <1>2, <1>4, <1>6, FollowsItself
  <2>2. Told(server', new) /\ \A m \in new : m.kind = "print"
    <3>1. CASE new = {}
      BY <3>1, TellNothing
    <3>2. CASE new = print
      <4>1. Told(server', print) /\ Notice(d.port, "print").kind = "print"
        BY <1>1, TellNotice
      <4>. QED BY <3>2, <4>1
    <3>. QED BY <1>6, <3>1, <3>2
  <2> HIDE DEF print
  <2>3. SamePorts(server, server') /\ Used(server') = Used(server)
    BY <2>1 DEF SamePorts, Used
  <2>4. IInv' /\ toClients' \subseteq toClients \cup new
    BY <1>3, <1>6, <2>1, <2>2, <2>3, ServerStep
  <2>5. Calm
    BY <2>1, <2>2, <2>3, <2>4, CalmStep
  <2>. QED BY <2>1, <2>4, <2>5 DEF GameTold, Connected
<1>7. CASE TooSoon(server, d) \/ Known(server, d) = {} \/ (own = {} /\ Used(server) = Slots)
  <2>1. /\ server' \in {server, known}
        /\ SentToClients({}) \/ SentToClients(print)
    BY <1>5, <1>7, NothingSent
  <2>. QED BY <1>6, <2>1
<1>8. CASE ~(TooSoon(server, d) \/ Known(server, d) = {} \/ (own = {} /\ Used(server) = Slots))
  <2> DEFINE notice == IF denied THEN Notice(d.port, "print") ELSE Notice(d.port, "connectResponse")
  <2>13. ~TooSoon(server, d) /\ Known(server, d) # {} /\ ~(own = {} /\ Used(server) = Slots)
    BY <1>8
  <2>1. server' = SlotFilled(known, i, d, denied) /\ SentToClients({notice})
    <3>1. /\ server' = SlotFilled(known, i, d, denied)
          /\ SentToClients({Notice(d.port, IF denied THEN "print" ELSE "connectResponse")})
      BY <1>5, <2>13
    <3>2. CASE denied
      BY <3>1, <3>2
    <3>3. CASE ~denied
      BY <3>1, <3>3
    <3>. QED BY <3>2, <3>3
  <2>2. own \subseteq Used(server) /\ Used(server) \subseteq Slots /\ Slots \subseteq Nat
    BY SlotsAndEntries DEF own, Matching, Used
  <2>3. i \in Slots /\ (own # {} => i \in own) /\ (own = {} => i \notin Used(server))
    <3>1. CASE own # {}
      BY <2>2, <3>1, MinIsLeast DEF i
    <3>2. CASE own = {}
      <4>1. Slots \ Used(server) # {} /\ Slots \ Used(server) \subseteq Nat
        BY <1>8, <2>2, <3>2
      <4>2. i \in Slots \ Used(server)
        BY <3>2, <4>1, MinIsLeast DEF i
      <4>. QED BY <3>2, <4>2
    <3>. QED BY <3>1, <3>2
  <2>4. i \in Used(server) => server.slot[i].connectAge >= sv_reconnectlimit
    <3> SUFFICES ASSUME i \in Used(server) PROVE server.slot[i].connectAge >= sv_reconnectlimit
      OBVIOUS
    <3>1. own # {} /\ i = Min(own)
      BY <2>3 DEF i
    <3>2. ~(server.slot[i].connectAge < sv_reconnectlimit)
      BY <2>13, <3>1 DEF TooSoon, own
    <3>3. server.slot[i].connectAge \in Nat
      BY <1>2, <2>3, ConstantTypes DEF ServerOK, ServerType, SlotType
    <3>. QED BY <3>2, <3>3, ConstantTypes
  <2>14. i \in Used(server) => server.slot[i].qport = d.qport \/ server.slot[i].port = d.port
    BY <2>3 DEF own, Matching
  <2>5. i \in Used(server) /\ remaps = 0 => server.slot[i].qport = d.qport
    BY <1>1, <2>14 DEF IInv, FixedInv
  <2>6. i \notin Used(server) => SlotsOf(d.qport) = {}
    BY <2>2, <2>3 DEF own, Matching, SlotsOf
  <2>7. Told(server, {notice})
    <3>1. CASE denied
      BY <1>1, <3>1, TellNotice
    <3>2. CASE ~denied
      BY <1>1, <3>2, TellNotice
    <3>. QED BY <3>1, <3>2
  <2> HIDE DEF notice
  <2>8. ToClientsOK(toClients') /\ toClients' \subseteq toClients \cup {notice}
    BY <1>2, <2>1, <2>7, SentToClientsOK
  <2>9. /\ ServerOK(server') /\ (GameTold(known) => GameTold(server'))
        /\ server'.table = known.table /\ server'.lastChallenge = known.lastChallenge
        /\ server'.instance = known.instance
        /\ \A j \in Slots \ {i} : server'.slot[j] = known.slot[j]
        /\ Used(server') = IF denied THEN Used(known) \ {i} ELSE Used(known) \cup {i}
        /\ ~denied => /\ server'.slot[i].state = "connected" /\ server'.slot[i].port = d.port
                      /\ server'.slot[i].qport = d.qport /\ server'.slot[i].challenge = d.challenge
                      /\ server'.slot[i].connectAge = 0 /\ server'.slot[i].packetAge = 0
        /\ denied => server'.slot[i].state = "free"
    BY <1>1, <1>4, <2>1, <2>3, SlotFilledOK
  <2>10. Used(known) = Used(server) /\ GameTold(server) => GameTold(known)
    BY <1>4 DEF Used, GameTold, Connected
  <2>11. Filled(i, d, denied)
    <3>1. Used(known) = Used(server)
      BY <1>4 DEF Used
    <3>2. \A m \in toClients' \ toClients : m = notice
      BY <2>8
    <3>3. /\ \A k \in Entries : /\ server'.table[k].port = server.table[k].port
                                /\ server'.table[k].value = server.table[k].value
          /\ \A j \in Slots \ {i} : server'.slot[j] = server.slot[j]
          /\ Used(server') = IF denied THEN Used(server) \ {i} ELSE Used(server) \cup {i}
      BY <1>4, <2>9, <3>1
    <3>. QED BY <1>4, <2>13, <2>14, <2>3, <2>4, <2>5, <2>6, <2>8, <2>9, <3>2, <3>3 DEF Filled, notice
  <2>12. GameTold(server) => GameTold(server')
    BY <1>4, <2>9 DEF GameTold, Connected
  <2>. QED BY <2>3, <2>11, <2>12
<1>. QED BY <1>7, <1>8

\* Whose slots change when one is filled.
LEMMA FilledSlots ==
  ASSUME IInv, remaps = 0, NEW d \in toServer, d.kind = "connect", NEW denied \in BOOLEAN,
         NEW i \in Slots, Filled(i, d, denied), NEW c \in Clients
  PROVE  /\ c # d.qport => /\ SlotsOf(c)' = SlotsOf(c)
                           /\ \A j \in SlotsOf(c) : server'.slot[j] = server.slot[j]
         /\ denied => SlotsOf(d.qport)' = {}
         /\ ~denied => SlotsOf(d.qport)' = {i}
<1>1. \A j \in Slots : j # i => server'.slot[j] = server.slot[j]
  BY DEF Filled
<1>2. \A j \in Used(server) : j # i => server.slot[j].qport # d.qport
  <2> SUFFICES ASSUME NEW j \in Used(server), j # i, server.slot[j].qport = d.qport PROVE FALSE
    OBVIOUS
  <2>1. d.qport \in Clients
    BY DatagramTypes DEF IInv, TypeInv, ToServerOK
  <2>2. j \in SlotsOf(d.qport)
    BY DEF SlotsOf
  <2>3. i \in Used(server)
    BY <2>2 DEF Filled
  <2>4. i \in SlotsOf(d.qport)
    BY <2>3 DEF Filled, SlotsOf
  <2>. QED BY <2>1, <2>2, <2>4 DEF IInv, FixedInv
<1>3. CASE denied
  <2>1. Used(server') = Used(server) \ {i}
    BY <1>3 DEF Filled
  <2>2. \A j \in Used(server') : server'.slot[j] = server.slot[j] /\ j # i
    BY <1>1, <2>1 DEF Used
  <2>3. c # d.qport => /\ SlotsOf(c)' = SlotsOf(c)
                       /\ \A j \in SlotsOf(c) : server'.slot[j] = server.slot[j]
    <3> SUFFICES ASSUME c # d.qport
                 PROVE  /\ SlotsOf(c)' = SlotsOf(c)
                        /\ \A j \in SlotsOf(c) : server'.slot[j] = server.slot[j]
      OBVIOUS
    <3>1. i \notin SlotsOf(c)
      BY DEF Filled, SlotsOf
    <3>. QED BY <2>1, <2>2, <3>1 DEF SlotsOf
  <2>4. SlotsOf(d.qport)' = {}
    BY <1>2, <2>1, <2>2 DEF SlotsOf
  <2>. QED BY <1>3, <2>3, <2>4
<1>4. CASE ~denied
  <2>1. Used(server') = Used(server) \cup {i} /\ server'.slot[i].qport = d.qport
    BY <1>4 DEF Filled
  <2>2. \A j \in Used(server) : j # i => server'.slot[j] = server.slot[j]
    BY <1>1 DEF Used
  <2>3. c # d.qport => /\ SlotsOf(c)' = SlotsOf(c)
                       /\ \A j \in SlotsOf(c) : server'.slot[j] = server.slot[j]
    <3> SUFFICES ASSUME c # d.qport
                 PROVE  /\ SlotsOf(c)' = SlotsOf(c)
                        /\ \A j \in SlotsOf(c) : server'.slot[j] = server.slot[j]
      OBVIOUS
    <3>1. i \notin SlotsOf(c)
      BY DEF Filled, SlotsOf
    <3>. QED BY <2>1, <2>2, <3>1 DEF SlotsOf
  <2>4. SlotsOf(d.qport)' = {i}
    BY <1>2, <2>1, <2>2 DEF SlotsOf
  <2>. QED BY <1>4, <2>3, <2>4
<1>. QED BY <1>3, <1>4

LEMMA FilledKeeps ==
  ASSUME IInv, NEW d \in toServer, d.kind = "connect", NEW denied \in BOOLEAN,
         NEW i \in Slots, Filled(i, d, denied)
  PROVE  IInv'
<1> DEFINE notice == IF denied THEN Notice(d.port, "print") ELSE Notice(d.port, "connectResponse")
<1>1. /\ d \in Connects /\ d.port \in Clients /\ d.qport \in Clients
      /\ (remaps = 0 => d.qport = d.port)
  BY DatagramTypes DEF IInv, TypeInv, ToServerOK, FixedInv
<1>2. /\ ServerOK(server') /\ ToClientsOK(toClients') /\ toServer' \subseteq toServer
      /\ UNCHANGED <<client, port, remaps>> /\ \A m \in toClients' \ toClients : m = notice
      /\ server'.lastChallenge = server.lastChallenge /\ server'.instance = server.instance
  BY DEF Filled
<1>3. /\ notice.port = d.port
      /\ denied => notice.kind = "print"
      /\ ~denied => notice.kind = "connectResponse"
  BY DEF Notice
<1> HIDE DEF notice
<1>4. TypeInv'
  BY <1>2, FewerToServer DEF IInv, TypeInv
<1>5. BoundInv'
  <2>1. \A m \in toClients' : m.kind \in {"challengeResponse", "message"} => m \in toClients
    BY <1>2, <1>3
  <2>. QED BY <1>2, <2>1 DEF IInv, BoundInv
<1>6. FixedInv'
  <2> SUFFICES ASSUME remaps = 0 PROVE FixedInv'
    BY <1>2 DEF FixedInv
  <2>1. \A j \in Used(server') : server'.slot[j].qport = server'.slot[j].port
    <3> SUFFICES ASSUME NEW j \in Used(server') PROVE server'.slot[j].qport = server'.slot[j].port
      OBVIOUS
    <3>1. CASE j = i
      <4>1. ~denied
        BY <3>1 DEF Filled
      <4>. QED BY <1>1, <3>1, <4>1 DEF Filled
    <3>2. CASE j # i
      <4>1. j \in Used(server) /\ server'.slot[j] = server.slot[j]
        BY <3>2 DEF Filled, Used
      <4>. QED BY <4>1 DEF IInv, FixedInv
    <3>. QED BY <3>1, <3>2
  <2>2. \A c \in Clients : \A j, k \in SlotsOf(c)' : j = k
    <3> SUFFICES ASSUME NEW c \in Clients, NEW j \in SlotsOf(c)', NEW k \in SlotsOf(c)' PROVE j = k
      OBVIOUS
    <3>1. CASE c # d.qport
      BY <3>1, FilledSlots DEF IInv, FixedInv
    <3>2. CASE c = d.qport
      BY <1>1, <3>2, FilledSlots
    <3>. QED BY <3>1, <3>2
  <2>. QED BY <1>2, <2>1, <2>2 DEF IInv, FixedInv
<1>7. AgreeInv'
  <2> SUFFICES ASSUME remaps = 0, NEW c \in Clients, ~client[c].hasty PROVE Agree(c)'
    BY <1>2 DEF AgreeInv
  <2>1. Agree(c)
    BY DEF IInv, AgreeInv
  <2>2. ConnectsOf(c)' \subseteq ConnectsOf(c)
    BY <1>2 DEF ConnectsOf
  <2>3. CASE c # d.qport
    <3>1. ConnectResponses(c)' \subseteq ConnectResponses(c)
      BY <1>1, <1>2, <1>3, <2>3 DEF ConnectResponses
    <3>2. SlotsOf(c)' = SlotsOf(c) /\ \A j \in SlotsOf(c) : server'.slot[j] = server.slot[j]
      BY <2>3, FilledSlots
    <3>. QED BY <1>2, <2>1, <2>2, <3>1, <3>2, AgreeKept
  <2>4. CASE c = d.qport
    <3>1. d \in ConnectsOf(c)
      BY <2>4 DEF ConnectsOf
    <3>2. client[c].state # "connecting"
      BY <2>1, <3>1 DEF Agree
    <3>3. client[c].state \in {"challenging", "connected"} => d.challenge = client[c].challenge
      BY <2>1, <3>1 DEF Agree
    <3>4. \A j \in SlotsOf(c)' : server'.slot[j].challenge = d.challenge
      <4>1. denied => SlotsOf(c)' = {}
        BY <2>4, FilledSlots
      <4>2. ~denied => SlotsOf(c)' = {i} /\ server'.slot[i].challenge = d.challenge
        BY <2>4, FilledSlots DEF Filled
      <4>. QED BY <4>1, <4>2
    <3>5. Answered(c)' => client[c].state \in {"challenging", "connected"}
      BY <1>2 DEF Answered
    <3>. QED BY <1>2, <2>1, <2>2, <3>2, <3>3, <3>4, <3>5 DEF Agree
  <2>. QED BY <2>3, <2>4
<1>. QED BY <1>4, <1>5, <1>6, <1>7 DEF IInv

-----------------------------------------------------------------------------
(* The invariant at steps of a client.                                     *)

LEMMA PortIsClient ==
  ASSUME TypeInv, NEW c \in Clients
  PROVE  port[c] \in Clients
BY DEF TypeInv, Bijection, Injection, Surjection

LEMMA ClientStep ==
  ASSUME IInv, NEW c \in Clients, NEW cl \in ClientType, client' = [client EXCEPT ![c] = cl],
         UNCHANGED <<server, port, remaps>>,
         cl.challenge <= server.lastChallenge, cl.serverId <= server.instance,
         cl.state # "connected" => cl.serverId = 0,
         NEW new, new \subseteq Requests \cup Connects \cup Moves, IsFiniteSet(new), SentToServer(new),
         \A d \in new : d.kind # "getchallenge" => d.qport = c /\ d.port = port[c],
         \A d \in new : d.kind = "connect" => d.challenge <= server.lastChallenge,
         toClients' \subseteq toClients,
         remaps = 0 /\ ~cl.hasty => Agree(c)'
  PROVE  IInv' /\ toServer' \subseteq toServer \cup new
<1>1. ToServerOK(toServer') /\ toServer' \subseteq toServer \cup new /\ ToClientsOK(toClients')
  BY SentToServerOK, FewerToClients DEF IInv, TypeInv
<1>2. TypeInv'
  BY <1>1 DEF IInv, TypeInv
<1>3. \A x \in Clients : client'[x] = IF x = c THEN cl ELSE client[x]
  BY DEF IInv, TypeInv
<1>4. BoundInv'
  BY <1>1, <1>3 DEF IInv, BoundInv
<1>5. FixedInv'
  <2>1. SlotsOf(1)' = SlotsOf(1) /\ \A x : SlotsOf(x)' = SlotsOf(x)
    BY DEF SlotsOf
  <2>. QED BY <1>1, <2>1 DEF IInv, FixedInv
<1>6. AgreeInv'
  <2> SUFFICES ASSUME remaps = 0, NEW x \in Clients, ~client'[x].hasty PROVE Agree(x)'
    BY DEF AgreeInv
  <2>1. CASE x = c
    BY <1>3, <2>1
  <2>2. CASE x # c
    <3>1. Agree(x) /\ client'[x] = client[x]
      BY <1>3, <2>2 DEF IInv, AgreeInv
    <3>2. ConnectsOf(x)' \subseteq ConnectsOf(x)
      BY <1>1, <2>2 DEF ConnectsOf
    <3>3. ConnectResponses(x)' \subseteq ConnectResponses(x)
      BY DEF ConnectResponses
    <3>4. SlotsOf(x)' = SlotsOf(x)
      BY DEF SlotsOf
    <3>. QED BY <3>1, <3>2, <3>3, <3>4, AgreeKept
  <2>. QED BY <2>1, <2>2
<1>. QED BY <1>1, <1>2, <1>4, <1>5, <1>6 DEF IInv

\* What a client sends.
LEMMA SaidByClient ==
  ASSUME TypeInv, NEW c \in Clients, NEW cl \in ClientType, NEW command \in {"move", "disconnect"}
  PROVE  /\ ClientMessage(port[c], c, cl, command) \in Moves
         /\ ClientMessage(port[c], c, cl, command).kind = "message"
         /\ ClientMessage(port[c], c, cl, command).qport = c
         /\ ClientMessage(port[c], c, cl, command).port = port[c]
         /\ GetChallenge(port[c]) \in Requests /\ GetChallenge(port[c]).kind = "getchallenge"
         /\ ConnectPacket(port[c], c, cl) \in Connects
         /\ ConnectPacket(port[c], c, cl).kind = "connect"
         /\ ConnectPacket(port[c], c, cl).qport = c
         /\ ConnectPacket(port[c], c, cl).port = port[c]
         /\ ConnectPacket(port[c], c, cl).challenge = cl.challenge
         /\ ConnectPacket(port[c], c, cl).age = 0
<1>1. port[c] \in Clients /\ cl.challenge \in Nat /\ cl.serverId \in Nat
  BY PortIsClient DEF ClientType
<1>. QED BY <1>1, ConstantTypes
         DEF ClientMessage, Moves, GetChallenge, Requests, ConnectPacket, Connects, Times

\* The last words of a client.
LEMMA LastWordsOK ==
  ASSUME TypeInv, NEW c \in Clients
  PROVE  /\ LastWords(c) \subseteq Moves /\ IsFiniteSet(LastWords(c))
         /\ \A d \in LastWords(c) : d.kind = "message" /\ d.qport = c /\ d.port = port[c]
<1>1. client[c] \in ClientType
  BY DEF TypeInv
<1> DEFINE word == ClientMessage(port[c], c, client[c], "disconnect")
<1>2. word \in Moves /\ word.kind = "message" /\ word.qport = c /\ word.port = port[c]
  BY <1>1, SaidByClient
<1>3. IsFiniteSet({word}) /\ IsFiniteSet({})
  BY FS_Singleton, FS_EmptySet
<1>4. LastWords(c) \in {{word}, {}}
  BY DEF LastWords
<1> HIDE DEF word
<1>. QED BY <1>2, <1>3, <1>4

LEMMA NewClientOK ==
  ASSUME NEW cl, cl.attempts \in 0 .. MaxStarts, cl.hasty \in BOOLEAN
  PROVE  LET new == NewClient(cl) IN
         /\ new \in ClientType /\ new.state = "disconnected" /\ new.challenge = 0
         /\ new.serverId = 0 /\ new.connectAge = RETRANSMIT_TIMEOUT
         /\ new.attempts = cl.attempts /\ new.hasty = cl.hasty
BY ConstantTypes DEF NewClient, ClientType, ClientStates

\* Who is not connected agrees with everybody.
LEMMA AgreeDisconnected ==
  ASSUME NEW c, client'[c].state = "disconnected"
  PROVE  Agree(c)'
BY DEF Agree, Answered

\* A client leaves, with words of its own or without.
LEMMA LeaveStep ==
  ASSUME IInv, NEW c \in Clients, NEW cl \in ClientType,
         cl.state = "disconnected" /\ cl.challenge = 0 /\ cl.serverId = 0,
         client' = [client EXCEPT ![c] = cl],
         UNCHANGED <<server, port, remaps>>, toClients' \subseteq toClients,
         NEW new, new \subseteq Moves, IsFiniteSet(new), SentToServer(new),
         \A d \in new : d.kind = "message" /\ d.qport = c /\ d.port = port[c]
  PROVE  IInv' /\ toServer' \subseteq toServer \cup new
<1>1. server.lastChallenge \in Nat /\ server.instance \in Nat
  BY DEF IInv, TypeInv, ServerOK, ServerType
<1>2. client'[c] = cl
  BY DEF IInv, TypeInv
<1>3. Agree(c)'
  BY <1>2, AgreeDisconnected
<1>4. /\ new \subseteq Requests \cup Connects \cup Moves
      /\ \A d \in new : d.kind # "getchallenge" => d.qport = c /\ d.port = port[c]
      /\ \A d \in new : d.kind = "connect" => d.challenge <= server.lastChallenge
  OBVIOUS
<1>5. cl.challenge <= server.lastChallenge /\ cl.serverId <= server.instance
  BY <1>1
<1>6. /\ cl.state # "connected" => cl.serverId = 0
      /\ remaps = 0 /\ ~cl.hasty => Agree(c)'
  BY <1>3
<1>. QED BY <1>4, <1>5, <1>6, ClientStep

LEMMA ConnectKeeps ==
  ASSUME IInv, NEW c \in Clients, Connect(c)
  PROVE  IInv'
<1> DEFINE before == LastWords(c) \cup {d \in toServer \cup toClients : d.port = port[c]}
           gone == NewClient(client[c])
           hasty == client[c].hasty \/ before # {}
           attempts == client[c].attempts + 1
           cl == [gone EXCEPT !.state = "connecting", !.attempts = attempts, !.hasty = hasty]
<1>1. client[c] \in ClientType /\ server.instance \in Nat /\ server.lastChallenge \in Nat
  BY DEF IInv, TypeInv, ServerOK, ServerType
<1>2. /\ gone \in ClientType /\ gone.challenge = 0 /\ gone.serverId = 0
      /\ gone.attempts = client[c].attempts /\ gone.hasty = client[c].hasty
  BY <1>1, NewClientOK DEF ClientType
<1>3. attempts \in 0 .. MaxStarts /\ hasty \in BOOLEAN
  <2>1. client[c].attempts \in 0 .. MaxStarts /\ client[c].hasty \in BOOLEAN
    BY <1>1 DEF ClientType
  <2>2. client[c].attempts + server.instance <= MaxStarts /\ server.instance >= 1
    BY DEF Connect, MayStart, IInv, BoundInv
  <2>. QED BY <1>1, <2>1, <2>2, ConstantTypes
<1>4. /\ client' = [client EXCEPT ![c] = cl] /\ SentToServer(LastWords(c))
      /\ UNCHANGED <<server, port, toClients, remaps>>
  BY <1>1, <1>2 DEF Connect, ClientType
<1> HIDE DEF before, gone, hasty, attempts
<1>5. /\ cl \in ClientType /\ cl.state = "connecting" /\ cl.challenge = 0 /\ cl.serverId = 0
      /\ cl.hasty = hasty
  BY <1>2, <1>3 DEF ClientType, ClientStates
<1> HIDE DEF cl
<1>6. /\ LastWords(c) \subseteq Moves /\ IsFiniteSet(LastWords(c))
      /\ \A d \in LastWords(c) : d.kind = "message" /\ d.qport = c /\ d.port = port[c]
  BY LastWordsOK DEF IInv
<1>7. client'[c] = cl
  BY <1>4 DEF IInv, TypeInv
<1>8. ASSUME remaps = 0, ~hasty PROVE Agree(c)'
  <2>1. LastWords(c) = {} /\ \A d \in toServer \cup toClients : d.port # c
    BY <1>8 DEF hasty, before, IInv, FixedInv
  <2>2. toServer' \subseteq toServer
    BY <1>4, <2>1 DEF SentToServer, Sent
  <2>3. ConnectsOf(c)' = {}
    BY <1>8, <2>1, <2>2 DEF ConnectsOf, IInv, FixedInv
  <2>4. ConnectResponses(c)' = {}
    BY <1>4, <2>1 DEF ConnectResponses
  <2>. QED BY <1>5, <1>7, <2>3, <2>4 DEF Agree, Answered
<1>9. /\ LastWords(c) \subseteq Requests \cup Connects \cup Moves
      /\ \A d \in LastWords(c) : d.kind # "getchallenge" => d.qport = c /\ d.port = port[c]
      /\ \A d \in LastWords(c) : d.kind = "connect" => d.challenge <= server.lastChallenge
  BY <1>6
<1>10. cl.challenge <= server.lastChallenge /\ cl.serverId <= server.instance
  BY <1>1, <1>5
<1>11. toClients' \subseteq toClients
  BY <1>4
<1>. QED BY <1>4, <1>5, <1>6, <1>8, <1>9, <1>10, <1>11, ClientStep

LEMMA DisconnectKeeps ==
  ASSUME IInv, NEW c \in Clients, Disconnect(c)
  PROVE  IInv'
<1> DEFINE cl == NewClient(client[c])
<1>1. client[c] \in ClientType /\ client[c].attempts \in 0 .. MaxStarts /\ client[c].hasty \in BOOLEAN
  BY DEF IInv, TypeInv, ClientType
<1>2. /\ cl \in ClientType /\ cl.state = "disconnected" /\ cl.challenge = 0 /\ cl.serverId = 0
  BY <1>1, NewClientOK
<1>3. /\ client' = [client EXCEPT ![c] = cl] /\ SentToServer(LastWords(c))
      /\ UNCHANGED <<server, port, toClients, remaps>>
  BY DEF Disconnect
<1> HIDE DEF cl
<1>4. /\ LastWords(c) \subseteq Moves /\ IsFiniteSet(LastWords(c))
      /\ \A d \in LastWords(c) : d.kind = "message" /\ d.qport = c /\ d.port = port[c]
  BY LastWordsOK DEF IInv
<1>5. toClients' \subseteq toClients
  BY <1>3
<1>. QED BY <1>2, <1>3, <1>4, <1>5, LeaveStep

LEMMA CrashKeeps ==
  ASSUME IInv, NEW c \in Clients, Crash(c)
  PROVE  IInv'
<1> DEFINE cl == [NeverConnected EXCEPT !.attempts = MaxStarts]
<1>1. /\ NeverConnected \in ClientType /\ NeverConnected.state = "disconnected"
      /\ NeverConnected.challenge = 0 /\ NeverConnected.serverId = 0
  <2> DEFINE fresh == [attempts |-> 0, hasty |-> FALSE]
  <2>1. fresh.attempts \in 0 .. MaxStarts /\ fresh.hasty \in BOOLEAN
    BY ConstantTypes
  <2>2. NeverConnected = NewClient(fresh)
    BY DEF NeverConnected
  <2> HIDE DEF fresh
  <2>. QED BY <2>1, <2>2, NewClientOK
<1>2. MaxStarts \in 0 .. MaxStarts
  BY ConstantTypes
<1>3. /\ cl \in ClientType /\ cl.state = "disconnected" /\ cl.challenge = 0 /\ cl.serverId = 0
  BY <1>1, <1>2 DEF ClientType
<1>4. /\ client' = [client EXCEPT ![c] = cl]
      /\ UNCHANGED <<server, port, toServer, toClients, remaps>>
  BY DEF Crash
<1> HIDE DEF cl
<1>5. SentToServer({}) /\ {} \subseteq Moves /\ IsFiniteSet({}) /\ toClients' \subseteq toClients
  BY <1>4, NothingSent, FS_EmptySet
<1>. QED BY <1>3, <1>4, <1>5, LeaveStep

\* A client goes on with its attempt.
LEMMA StaysStep ==
  ASSUME IInv, NEW c \in Clients, NEW cl \in ClientType, client' = [client EXCEPT ![c] = cl],
         UNCHANGED <<server, port, remaps>>,
         cl.state = client[c].state, cl.challenge = client[c].challenge, cl.hasty = client[c].hasty,
         cl.serverId <= server.instance, cl.state # "connected" => cl.serverId = 0,
         NEW new, new \subseteq Requests \cup Connects \cup Moves, IsFiniteSet(new), SentToServer(new),
         \A d \in new : d.kind # "getchallenge" => d.qport = c /\ d.port = port[c],
         \A d \in new : d.kind = "connect" => cl.state = "challenging" /\ d.challenge = cl.challenge,
         toClients' \subseteq toClients
  PROVE  IInv' /\ toServer' \subseteq toServer \cup new
<1>1. toServer' \subseteq toServer \cup new
  BY SentToServerOK DEF IInv, TypeInv
<1>2. client'[c] = cl
  BY DEF IInv, TypeInv
<1>3. cl.challenge <= server.lastChallenge
  BY DEF IInv, BoundInv
<1>4. ASSUME remaps = 0, ~cl.hasty PROVE Agree(c)'
  <2>1. Agree(c)
    BY <1>4 DEF IInv, AgreeInv
  <2>2. \A d \in ConnectsOf(c)' :
          d \in ConnectsOf(c) \/ (cl.state = "challenging" /\ d.challenge = cl.challenge)
    BY <1>1 DEF ConnectsOf
  <2>3. ConnectResponses(c)' \subseteq ConnectResponses(c)
    BY DEF ConnectResponses
  <2>4. SlotsOf(c)' = SlotsOf(c)
    BY DEF SlotsOf
  <2>5. Answered(c)' => Answered(c)
    BY <1>2, <2>3 DEF Answered
  <2>. QED BY <1>2, <2>1, <2>2, <2>3, <2>4, <2>5 DEF Agree
<1>5. \A d \in new : d.kind = "connect" => d.challenge <= server.lastChallenge
  BY <1>3
<1>. QED BY <1>1, <1>3, <1>4, <1>5, ClientStep

LEMMA ClientFrameKeeps ==
  ASSUME IInv, NEW c \in Clients, CL_Frame(c)
  PROVE  IInv'
<1> DEFINE old == client[c]
           leaves == TimedOut(old) /\ old.timeoutCount + 1 > TIMEOUT_FRAMES
           count == IF TimedOut(old) THEN old.timeoutCount + 1 ELSE 0
           age == IF Resends(old) THEN 0 ELSE old.connectAge
           cl == [old EXCEPT !.timeoutCount = count, !.connectAge = age]
           new == IF Resends(old)
                  THEN {IF old.state = "connecting" THEN GetChallenge(port[c])
                        ELSE ConnectPacket(port[c], c, old)}
                  ELSE IF old.state = "connected" THEN {ClientMessage(port[c], c, old, "move")}
                  ELSE {}
<1>1. old \in ClientType /\ old.attempts \in 0 .. MaxStarts /\ old.hasty \in BOOLEAN
  BY DEF IInv, TypeInv, ClientType
<1>2. /\ UNCHANGED <<server, port, toClients, remaps>>
      /\ leaves => /\ client' = [client EXCEPT ![c] = NewClient(old)]
                   /\ SentToServer(LastWords(c))
      /\ ~leaves => client' = [client EXCEPT ![c] = cl] /\ SentToServer(new)
  BY DEF CL_Frame
<1>3. toClients' \subseteq toClients
  BY <1>2
<1>4. CASE leaves
  <2> DEFINE gone == NewClient(old)
  <2>1. gone \in ClientType /\ gone.state = "disconnected" /\ gone.challenge = 0 /\ gone.serverId = 0
    BY <1>1, NewClientOK
  <2>2. client' = [client EXCEPT ![c] = gone] /\ SentToServer(LastWords(c))
    BY <1>2, <1>4
  <2> HIDE DEF gone
  <2>3. /\ LastWords(c) \subseteq Moves /\ IsFiniteSet(LastWords(c))
        /\ \A d \in LastWords(c) : d.kind = "message" /\ d.qport = c /\ d.port = port[c]
    BY LastWordsOK DEF IInv
  <2>. QED BY <1>2, <1>3, <2>1, <2>2, <2>3, LeaveStep
<1>5. CASE ~leaves
  <2>1. count \in 0 .. TIMEOUT_FRAMES /\ age \in 0 .. RETRANSMIT_TIMEOUT
    BY <1>1, <1>5, ConstantTypes DEF ClientType
  <2>2. client' = [client EXCEPT ![c] = cl] /\ SentToServer(new)
    BY <1>2, <1>5
  <2>3. Resends(old) => old.state \in {"connecting", "challenging"}
    BY DEF Resends
  <2> HIDE DEF leaves, count, age
  <2>4. /\ cl \in ClientType /\ cl.state = old.state /\ cl.challenge = old.challenge
        /\ cl.serverId = old.serverId /\ cl.hasty = old.hasty
    BY <1>1, <2>1 DEF ClientType
  <2>5. /\ cl.serverId <= server.instance /\ (cl.state # "connected" => cl.serverId = 0)
    BY <2>4 DEF IInv, BoundInv
  <2> HIDE DEF cl, old
  <2> DEFINE Says(m) == /\ m \in Requests \cup Connects \cup Moves /\ new \in {{m}, {}}
                        /\ m.kind # "getchallenge" => m.qport = c /\ m.port = port[c]
                        /\ m.kind = "connect" =>
                             cl.state = "challenging" /\ m.challenge = cl.challenge
  <2>6. \E m : Says(m)
    <3>1. /\ ClientMessage(port[c], c, old, "move") \in Moves
          /\ ClientMessage(port[c], c, old, "move").kind = "message"
          /\ ClientMessage(port[c], c, old, "move").qport = c
          /\ ClientMessage(port[c], c, old, "move").port = port[c]
          /\ GetChallenge(port[c]) \in Requests /\ GetChallenge(port[c]).kind = "getchallenge"
          /\ ConnectPacket(port[c], c, old) \in Connects
          /\ ConnectPacket(port[c], c, old).kind = "connect"
          /\ ConnectPacket(port[c], c, old).qport = c
          /\ ConnectPacket(port[c], c, old).port = port[c]
          /\ ConnectPacket(port[c], c, old).challenge = old.challenge
      BY <1>1, SaidByClient DEF IInv
    <3>2. CASE Resends(old) /\ old.state = "connecting"
      <4>1. new = {GetChallenge(port[c])}
        BY <3>2
      <4>2. Says(GetChallenge(port[c]))
        BY <3>1, <4>1
      <4>. QED BY <4>2
    <3>3. CASE Resends(old) /\ old.state # "connecting"
      <4>1. new = {ConnectPacket(port[c], c, old)}
        BY <3>3
      <4>2. old.state = "challenging"
        BY <2>3, <3>3
      <4>3. Says(ConnectPacket(port[c], c, old))
        BY <2>4, <3>1, <4>1, <4>2
      <4>. QED BY <4>3
    <3>4. CASE ~Resends(old)
      <4>1. new \in {{ClientMessage(port[c], c, old, "move")}, {}}
        BY <3>4
      <4>2. Says(ClientMessage(port[c], c, old, "move"))
        BY <3>1, <4>1
      <4>. QED BY <4>2
    <3> HIDE DEF Says
    <3>. QED BY <3>2, <3>3, <3>4
  <2> HIDE DEF new
  <2>11. PICK m : Says(m)
    BY <2>6
  <2>7. IsFiniteSet(new)
    <3>1. IsFiniteSet({m}) /\ IsFiniteSet({})
      BY FS_Singleton, FS_EmptySet
    <3>2. new = {m} \/ new = {}
      BY <2>11
    <3>. QED BY <3>1, <3>2
  <2>8. cl.state = client[c].state /\ cl.challenge = client[c].challenge /\ cl.hasty = client[c].hasty
    BY <2>4 DEF old
  <2>9. /\ new \subseteq Requests \cup Connects \cup Moves
        /\ \A d \in new : d.kind # "getchallenge" => d.qport = c /\ d.port = port[c]
        /\ \A d \in new : d.kind = "connect" => cl.state = "challenging" /\ d.challenge = cl.challenge
    BY <2>11
  <2>. QED BY <1>2, <1>3, <2>2, <2>4, <2>5, <2>7, <2>8, <2>9, StaysStep
<1>. QED BY <1>4, <1>5

\* What becomes of a client that gets a packet.
SameAttempt(old, cl) ==
  /\ cl.challenge = old.challenge /\ cl.hasty = old.hasty /\ cl.attempts = old.attempts

GoesOn(old, cl, d) ==
  /\ cl.state = old.state /\ SameAttempt(old, cl) /\ cl.connectAge = old.connectAge
  /\ \/ cl.serverId = old.serverId
     \/ /\ cl.state = "connected" /\ cl.serverId = d.serverId
        /\ d.kind = "message" /\ d.command = "gamestate"

IsChallenged(old, cl, d) ==
  /\ old.state = "connecting" /\ d.kind = "challengeResponse"
  /\ cl.state = "challenging" /\ cl.challenge = d.challenge
  /\ cl.serverId = old.serverId /\ cl.hasty = old.hasty

IsConnected(old, cl, d) ==
  /\ old.state = "challenging" /\ d.kind = "connectResponse"
  /\ cl.state = "connected" /\ SameAttempt(old, cl) /\ cl.connectAge = old.connectAge
  /\ cl.serverId = old.serverId

Leaves(cl) == cl.state = "disconnected" /\ cl.challenge = 0 /\ cl.serverId = 0

Reacts(c, cl, d) ==
  /\ cl \in ClientType /\ client' = [client EXCEPT ![c] = cl]
  /\ \/ /\ GoesOn(client[c], cl, d) \/ IsChallenged(client[c], cl, d) \/ IsConnected(client[c], cl, d)
        /\ UNCHANGED toServer
     \/ /\ Leaves(cl) /\ client[c].state = "connected"
        /\ SentToServer({ClientMessage(port[c], c, [client[c] EXCEPT !.packetAge = 0], "disconnect")})

LEMMA PacketCases ==
  ASSUME IInv, NEW d \in toClients, CL_PacketEvent(d)
  PROVE  /\ \E c \in Clients : (remaps = 0 => c = d.port) /\ \E cl : Reacts(c, cl, d)
         /\ toClients' \subseteq toClients /\ UNCHANGED <<server, port, remaps>>
<1> DEFINE c == CHOOSE x \in Clients : port[x] = d.port
           old == client[c]
           cl == [old EXCEPT !.packetAge = 0]
           becomes(new) == client' = [client EXCEPT ![c] = new] /\ UNCHANGED toServer
           words == {ClientMessage(port[c], c, cl, "disconnect")}
           leaves == client' = [client EXCEPT ![c] = NewClient(cl)] /\ SentToServer(words)
<1>1. d.port \in Clients /\ d \in Responses \cup Updates \cup Notices
  BY DatagramTypes DEF IInv, TypeInv, ToClientsOK
<1>2. c \in Clients /\ port[c] = d.port
  <2>1. \E x \in Clients : port[x] = d.port
    BY <1>1 DEF IInv, TypeInv, Bijection, Surjection
  <2>. QED BY <2>1
<1>3. remaps = 0 => c = d.port
  BY <1>2 DEF IInv, FixedInv
<1>4. toClients' \subseteq toClients /\ UNCHANGED <<server, port, remaps>>
  BY DEF CL_PacketEvent
<1>5. IF cl.state = "disconnected" THEN becomes(client[c])
      ELSE CASE d.kind = "challengeResponse" ->
                  becomes(IF cl.state # "connecting" THEN cl
                          ELSE [cl EXCEPT !.state = "challenging", !.challenge = d.challenge,
                                          !.connectAge = RETRANSMIT_TIMEOUT])
             [] d.kind = "connectResponse" ->
                  becomes(IF cl.state # "challenging" THEN cl ELSE [cl EXCEPT !.state = "connected"])
             [] d.kind = "disconnect" -> DisconnectPacket(c, cl)
             [] d.kind = "message" -> ServerMessageParsed(c, cl, d)
             [] d.kind = "print" -> becomes(cl)
  BY DEF CL_PacketEvent
<1> HIDE DEF c
<1>6. old \in ClientType
  BY <1>2 DEF IInv, TypeInv
<1>7. /\ cl \in ClientType /\ cl.state = old.state /\ SameAttempt(old, cl)
      /\ cl.connectAge = old.connectAge /\ cl.serverId = old.serverId
      /\ cl.attempts \in 0 .. MaxStarts /\ cl.hasty \in BOOLEAN
  BY <1>6, ConstantTypes DEF ClientType, SameAttempt
<1>8. ASSUME becomes(cl) PROVE Reacts(c, cl, d)
  BY <1>7, <1>8 DEF Reacts, GoesOn
<1>9. ASSUME becomes(old) PROVE Reacts(c, old, d)
  BY <1>6, <1>9 DEF Reacts, GoesOn, SameAttempt
<1>10. ASSUME leaves, old.state = "connected" PROVE Reacts(c, NewClient(cl), d)
  <2> DEFINE gone == NewClient(cl)
  <2>1. gone \in ClientType /\ Leaves(gone)
    BY <1>7, NewClientOK DEF Leaves
  <2> HIDE DEF gone
  <2>2. client' = [client EXCEPT ![c] = gone] /\ SentToServer(words)
    BY <1>10 DEF gone
  <2>3. Reacts(c, gone, d)
    BY <1>10, <2>1, <2>2 DEF Reacts
  <2>. QED BY <2>3 DEF gone
<1>11. \E x : Reacts(c, x, d)
  <2>1. CASE cl.state = "disconnected"
    BY <1>5, <1>9, <2>1
  <2>2. CASE cl.state # "disconnected" /\ d.kind = "challengeResponse"
    <3>1. CASE cl.state # "connecting"
      <4>1. becomes(cl)
        BY <1>5, <2>2, <3>1
      <4>. QED BY <1>8, <4>1
    <3>2. CASE cl.state = "connecting"
      <4> DEFINE new == [cl EXCEPT !.state = "challenging", !.challenge = d.challenge,
                                   !.connectAge = RETRANSMIT_TIMEOUT]
      <4>1. becomes(new)
        BY <1>5, <2>2, <3>2
      <4>2. d.challenge \in Nat
        BY <1>1, <2>2, DatagramTypes
      <4> HIDE DEF cl
      <4> DEFINE given == d.challenge
      <4>6. given \in Nat /\ RETRANSMIT_TIMEOUT \in 0 .. RETRANSMIT_TIMEOUT /\ cl \in ClientType
        BY <1>7, <4>2, ConstantTypes
      <4> HIDE DEF given
      <4>7. new = [cl EXCEPT !.state = "challenging", !.challenge = given,
                             !.connectAge = RETRANSMIT_TIMEOUT]
        BY DEF given
      <4> HIDE DEF new
      <4>8. new \in ClientType
        BY <4>6, <4>7 DEF ClientType, ClientStates
      <4>9. new.state = "challenging" /\ new.challenge = given
        BY <4>6, <4>7 DEF ClientType
      <4>10. new.serverId = cl.serverId /\ new.hasty = cl.hasty
        BY <4>6, <4>7 DEF ClientType
      <4>3. /\ new \in ClientType /\ new.state = "challenging" /\ new.challenge = d.challenge
            /\ new.serverId = cl.serverId /\ new.hasty = cl.hasty
        BY <4>8, <4>9, <4>10 DEF given
      <4>4. IsChallenged(old, new, d)
        BY <1>7, <2>2, <3>2, <4>3 DEF IsChallenged, SameAttempt
      <4>5. Reacts(c, new, d)
        BY <4>1, <4>3, <4>4 DEF Reacts, new
      <4>. QED BY <4>5
    <3>. QED BY <3>1, <3>2
  <2>3. CASE cl.state # "disconnected" /\ d.kind = "connectResponse"
    <3>1. CASE cl.state # "challenging"
      <4>1. becomes(cl)
        BY <1>5, <2>3, <3>1
      <4>. QED BY <1>8, <4>1
    <3>2. CASE cl.state = "challenging"
      <4> DEFINE new == [cl EXCEPT !.state = "connected"]
      <4>1. becomes(new)
        BY <1>5, <2>3, <3>2
      <4> HIDE DEF cl
      <4>2. /\ new \in ClientType /\ new.state = "connected" /\ SameAttempt(cl, new)
            /\ new.serverId = cl.serverId /\ new.connectAge = cl.connectAge
        BY <1>7 DEF ClientType, ClientStates, SameAttempt
      <4> HIDE DEF new
      <4>3. IsConnected(old, new, d)
        BY <1>7, <2>3, <3>2, <4>2 DEF IsConnected, SameAttempt
      <4>4. Reacts(c, new, d)
        BY <4>1, <4>2, <4>3 DEF Reacts
      <4>. QED BY <4>4
    <3>. QED BY <3>1, <3>2
  <2>4. CASE cl.state # "disconnected" /\ d.kind = "disconnect"
    <3>1. DisconnectPacket(c, cl)
      BY <1>5, <2>4
    <3>2. (leaves /\ cl.state = "connected") \/ becomes(cl)
      BY <3>1 DEF DisconnectPacket
    <3>. QED BY <1>7, <1>8, <1>10, <3>2
  <2>5. CASE cl.state # "disconnected" /\ d.kind = "message"
    <3> DEFINE new == [cl EXCEPT !.serverId = d.serverId]
    <3>1. ServerMessageParsed(c, cl, d)
      BY <1>5, <2>5
    <3>2. \/ becomes(cl)
          \/ (leaves /\ cl.state = "connected")
          \/ (becomes(new) /\ cl.state = "connected" /\ d.command = "gamestate")
      BY <3>1 DEF ServerMessageParsed
    <3>3. ASSUME becomes(new), cl.state = "connected", d.command = "gamestate"
          PROVE  Reacts(c, new, d)
      <4>1. d.serverId \in Nat
        BY <1>1, <2>5, DatagramTypes
      <4>2. becomes(new)
        BY <3>3
      <4> HIDE DEF cl
      <4>3. /\ new \in ClientType /\ new.state = cl.state /\ SameAttempt(cl, new)
            /\ new.serverId = d.serverId /\ new.connectAge = cl.connectAge
        BY <1>7, <4>1 DEF ClientType, ClientStates, SameAttempt
      <4> HIDE DEF new
      <4>4. GoesOn(old, new, d)
        BY <1>7, <2>5, <3>3, <4>3 DEF GoesOn, SameAttempt
      <4>. QED BY <4>2, <4>3, <4>4 DEF Reacts
    <3>. QED BY <1>7, <1>8, <1>10, <3>2, <3>3
  <2>6. CASE cl.state # "disconnected" /\ d.kind = "print"
    <3>1. becomes(cl)
      BY <1>5, <2>6
    <3>. QED BY <1>8, <3>1
  <2>7. d.kind \in {"challengeResponse", "connectResponse", "disconnect", "message", "print"}
    BY <1>1, DatagramTypes
  <2>. QED BY <2>1, <2>2, <2>3, <2>4, <2>5, <2>6, <2>7
<1>. QED BY <1>2, <1>3, <1>4, <1>11

LEMMA PacketKeeps ==
  ASSUME IInv, NEW d \in toClients, CL_PacketEvent(d)
  PROVE  IInv'
<1>1. PICK c \in Clients : (remaps = 0 => c = d.port) /\ \E cl : Reacts(c, cl, d)
  BY PacketCases
<1>2. PICK cl : Reacts(c, cl, d)
  BY <1>1
<1>3. toClients' \subseteq toClients /\ UNCHANGED <<server, port, remaps>>
  BY PacketCases
<1>4. /\ cl \in ClientType /\ client' = [client EXCEPT ![c] = cl] /\ client'[c] = cl
      /\ client[c] \in ClientType
  BY <1>2 DEF Reacts, IInv, TypeInv
<1>5. /\ client[c].challenge <= server.lastChallenge /\ client[c].serverId <= server.instance
      /\ client[c].state # "connected" => client[c].serverId = 0
  BY DEF IInv, BoundInv
<1>6. {} \subseteq Requests \cup Connects \cup Moves /\ IsFiniteSet({})
  BY FS_EmptySet
<1>7. SlotsOf(c)' = SlotsOf(c) /\ ConnectResponses(c)' \subseteq ConnectResponses(c)
  BY <1>3 DEF SlotsOf, ConnectResponses
<1>8. CASE GoesOn(client[c], cl, d) /\ UNCHANGED toServer
  <2>1. cl.serverId <= server.instance /\ (cl.state # "connected" => cl.serverId = 0)
    BY <1>5, <1>8 DEF GoesOn, IInv, BoundInv
  <2>2. SentToServer({})
    BY <1>8, NothingSent
  <2>3. cl.state = client[c].state /\ cl.challenge = client[c].challenge /\ cl.hasty = client[c].hasty
    BY <1>8 DEF GoesOn, SameAttempt
  <2>. QED BY <1>3, <1>4, <1>6, <2>1, <2>2, <2>3, StaysStep
<1>9. CASE IsChallenged(client[c], cl, d) /\ UNCHANGED toServer
  <2>1. SentToServer({})
    BY <1>9, NothingSent
  <2>2. ASSUME remaps = 0, ~cl.hasty PROVE Agree(c)'
    <3>1. Agree(c) /\ client[c].state = "connecting"
      BY <1>9, <2>2 DEF IInv, AgreeInv, IsChallenged
    <3>2. ConnectsOf(c)' = {} /\ ConnectResponses(c)' = {}
      BY <1>7, <1>9, <3>1 DEF Agree, ConnectsOf
    <3>. QED BY <1>4, <1>9, <3>2 DEF Agree, Answered, IsChallenged
  <2>3. cl.challenge <= server.lastChallenge /\ cl.serverId <= server.instance
    BY <1>5, <1>9 DEF IsChallenged, IInv, BoundInv
  <2>4. cl.state # "connected" => cl.serverId = 0
    BY <1>5, <1>9 DEF IsChallenged
  <2>. QED BY <1>3, <1>4, <1>6, <2>1, <2>2, <2>3, <2>4, ClientStep
<1>10. CASE IsConnected(client[c], cl, d) /\ UNCHANGED toServer
  <2>1. SentToServer({})
    BY <1>10, NothingSent
  <2>2. ASSUME remaps = 0, ~cl.hasty PROVE Agree(c)'
    <3>1. Agree(c) /\ client[c].state = "challenging" /\ cl.challenge = client[c].challenge
      BY <1>10, <2>2 DEF IInv, AgreeInv, IsConnected, SameAttempt
    <3>2. d \in ConnectResponses(c)
      BY <1>1, <1>10, <2>2 DEF ConnectResponses, IsConnected
    <3>3. Answered(c)
      BY <3>1, <3>2 DEF Answered
    <3>4. ConnectsOf(c)' = ConnectsOf(c)
      BY <1>10 DEF ConnectsOf
    <3>. QED BY <1>3, <1>4, <1>7, <1>10, <3>1, <3>3, <3>4 DEF Agree, IsConnected
  <2>3. cl.challenge <= server.lastChallenge /\ cl.serverId <= server.instance
    BY <1>5, <1>10 DEF IsConnected, SameAttempt
  <2>4. cl.state # "connected" => cl.serverId = 0
    BY <1>10 DEF IsConnected
  <2>. QED BY <1>3, <1>4, <1>6, <2>1, <2>2, <2>3, <2>4, ClientStep
<1>11. CASE Leaves(cl) /\ SentToServer({ClientMessage(port[c], c, [client[c] EXCEPT !.packetAge = 0], "disconnect")})
  <2> DEFINE was == [client[c] EXCEPT !.packetAge = 0]
             word == ClientMessage(port[c], c, was, "disconnect")
  <2>1. was \in ClientType
    BY <1>4, ConstantTypes DEF ClientType
  <2> HIDE DEF was
  <2>2. word \in Moves /\ word.kind = "message" /\ word.qport = c /\ word.port = port[c]
    BY <2>1, SaidByClient DEF IInv
  <2>3. SentToServer({word})
    BY <1>11 DEF was
  <2> HIDE DEF word
  <2>4. {word} \subseteq Moves /\ IsFiniteSet({word})
    BY <2>2, FS_Singleton
  <2>5. cl.state = "disconnected" /\ cl.challenge = 0 /\ cl.serverId = 0
    BY <1>11 DEF Leaves
  <2>. QED BY <1>3, <1>4, <2>2, <2>3, <2>4, <2>5, LeaveStep
<1>. QED BY <1>2, <1>8, <1>9, <1>10, <1>11 DEF Reacts

LEMMA NatRemapKeeps ==
  ASSUME IInv, NEW c \in Clients, NEW d \in Clients, NatRemap(c, d)
  PROVE  IInv' /\ remaps' > 0
<1>1. /\ remaps \in Nat /\ remaps' = remaps + 1
      /\ UNCHANGED <<client, server, toServer, toClients>>
      /\ port' = [port EXCEPT ![c] = port[d], ![d] = port[c]]
  BY DEF NatRemap, IInv, TypeInv
<1>2. port \in [Clients -> Clients] /\ \A x, y \in Clients : port[x] = port[y] => x = y
  BY DEF IInv, TypeInv, Bijection, Injection, IsInjective
<1>3. \A y \in Clients : \E x \in Clients : port[x] = y
  BY DEF IInv, TypeInv, Bijection, Surjection
<1>4. port' \in [Clients -> Clients]
  BY <1>1, <1>2
<1>5. \A x \in Clients : port'[x] = IF x = d THEN port[c] ELSE IF x = c THEN port[d] ELSE port[x]
  BY <1>1, <1>2
<1>6. \A x, y \in Clients : port'[x] = port'[y] => x = y
  BY <1>2, <1>5
<1>7. \A y \in Clients : \E x \in Clients : port'[x] = y
  <2> SUFFICES ASSUME NEW y \in Clients PROVE \E x \in Clients : port'[x] = y
    OBVIOUS
  <2>1. PICK x \in Clients : port[x] = y
    BY <1>3
  <2>2. CASE x = c
    BY <1>5, <2>1, <2>2
  <2>3. CASE x = d
    BY <1>5, <2>1, <2>3
  <2>4. CASE x # c /\ x # d
    BY <1>5, <2>1, <2>4
  <2>. QED BY <2>2, <2>3, <2>4
<1>8. port' \in Bijection(Clients, Clients)
  BY <1>4, <1>6, <1>7 DEF Bijection, Injection, Surjection, IsInjective
<1>9. remaps' \in Nat /\ remaps' > 0
  BY <1>1
<1>10. TypeInv'
  BY <1>1, <1>8, <1>9 DEF IInv, TypeInv
<1>11. BoundInv'
  BY <1>1 DEF IInv, BoundInv
<1>. QED BY <1>9, <1>10, <1>11 DEF IInv, FixedInv, AgreeInv

-----------------------------------------------------------------------------
(* The invariant at a tick.                                                *)

LEMMA OlderFinite ==
  ASSUME NEW net, IsFiniteSet(net)
  PROVE  IsFiniteSet(Older(net)) /\ Cardinality(Older(net)) <= Cardinality(net)
<1> DEFINE alive == {x \in net : x.age < Life}
           f == [d \in alive |-> [d EXCEPT !.age = @ + 1]]
<1>1. /\ IsFiniteSet(alive) /\ Cardinality(alive) <= Cardinality(net)
      /\ Cardinality(alive) \in Nat /\ Cardinality(net) \in Nat
  BY FS_Subset, FS_CardinalityType
<1>2. Older(net) = {[d EXCEPT !.age = @ + 1] : d \in alive}
  BY DEF Older
<1> HIDE DEF alive
<1>3. f \in Surjection(alive, Older(net))
  BY <1>2, Zenon DEF Surjection
<1>4. IsFiniteSet(Older(net)) /\ Cardinality(Older(net)) <= Cardinality(alive)
  BY <1>1, <1>3, FS_Surjection
<1>5. Cardinality(Older(net)) \in Nat
  BY <1>4, FS_CardinalityType
<1>. QED BY <1>1, <1>4, <1>5

LEMMA OlderRequests ==
  ASSUME NEW net, net \subseteq Requests \cup Connects \cup Moves, NEW d \in Older(net)
  PROVE  /\ d \in Requests \cup Connects \cup Moves
         /\ \E e \in net :
              /\ d.kind = e.kind /\ d.port = e.port /\ d.age = e.age + 1 /\ e.age < Life
              /\ e.kind # "getchallenge" => d.qport = e.qport
              /\ e.kind = "connect" => d.challenge = e.challenge
<1>1. PICK e \in net : e.age < Life /\ d = [e EXCEPT !.age = @ + 1]
  BY DEF Older
<1>2. e.age \in Times
  BY <1>1, DatagramTypes
<1>3. e.age + 1 \in Times
  BY <1>1, <1>2, ConstantTypes DEF Times
<1> DEFINE older == e.age + 1
<1>4. d = [e EXCEPT !.age = older] /\ older \in Times
  BY <1>1, <1>3
<1> HIDE DEF older
<1>5. CASE e \in Requests
  <2>1. d \in Requests
    BY <1>4, <1>5 DEF Requests
  <2>2. /\ d.kind = e.kind /\ d.port = e.port /\ d.age = older /\ e.kind = "getchallenge"
    BY <1>4, <1>5 DEF Requests
  <2>. QED BY <1>1, <2>1, <2>2 DEF older
<1>6. CASE e \in Connects
  <2>1. d \in Connects
    BY <1>4, <1>6 DEF Connects
  <2>2. /\ d.kind = e.kind /\ d.port = e.port /\ d.age = older
        /\ d.qport = e.qport /\ d.challenge = e.challenge
    BY <1>4, <1>6 DEF Connects
  <2>. QED BY <1>1, <2>1, <2>2 DEF older
<1>7. CASE e \in Moves
  <2>1. d \in Moves
    BY <1>4, <1>7 DEF Moves
  <2>2. /\ d.kind = e.kind /\ d.port = e.port /\ d.age = older /\ d.qport = e.qport
        /\ e.kind = "message"
    BY <1>4, <1>7 DEF Moves
  <2>. QED BY <1>1, <2>1, <2>2 DEF older
<1>. QED BY <1>5, <1>6, <1>7

LEMMA OlderAnswers ==
  ASSUME NEW net, net \subseteq Responses \cup Updates \cup Notices, NEW d \in Older(net)
  PROVE  /\ d \in Responses \cup Updates \cup Notices
         /\ \E e \in net :
              /\ d.kind = e.kind /\ d.port = e.port /\ d.age = e.age + 1 /\ e.age < Life
              /\ e.kind = "message" => d.serverId = e.serverId /\ d.command = e.command
              /\ e.kind = "challengeResponse" => d.challenge = e.challenge
<1>1. PICK e \in net : e.age < Life /\ d = [e EXCEPT !.age = @ + 1]
  BY DEF Older
<1>2. e.age \in Times
  BY <1>1, DatagramTypes
<1>3. e.age + 1 \in Times
  BY <1>1, <1>2, ConstantTypes DEF Times
<1> DEFINE older == e.age + 1
<1>4. d = [e EXCEPT !.age = older] /\ older \in Times
  BY <1>1, <1>3
<1> HIDE DEF older
<1>5. CASE e \in Responses
  <2>1. d \in Responses
    BY <1>4, <1>5 DEF Responses
  <2>2. /\ d.kind = e.kind /\ d.port = e.port /\ d.age = older /\ d.challenge = e.challenge
        /\ e.kind = "challengeResponse"
    BY <1>4, <1>5 DEF Responses
  <2>. QED BY <1>1, <2>1, <2>2 DEF older
<1>6. CASE e \in Updates
  <2>1. d \in Updates
    BY <1>4, <1>6 DEF Updates
  <2>2. /\ d.kind = e.kind /\ d.port = e.port /\ d.age = older
        /\ d.serverId = e.serverId /\ d.command = e.command /\ e.kind = "message"
    BY <1>4, <1>6 DEF Updates
  <2>. QED BY <1>1, <2>1, <2>2 DEF older
<1>7. CASE e \in Notices
  <2>1. d \in Notices
    BY <1>4, <1>7 DEF Notices
  <2>2. /\ d.kind = e.kind /\ d.port = e.port /\ d.age = older
        /\ e.kind # "message" /\ e.kind # "challengeResponse"
    BY <1>4, <1>7 DEF Notices
  <2>. QED BY <1>1, <2>1, <2>2 DEF older
<1>. QED BY <1>5, <1>6, <1>7

\* What a tick does to the clients and to the slots.
LEMMA TickEffect ==
  ASSUME IInv, Tick
  PROVE  /\ client' \in [Clients -> ClientType] /\ ServerOK(server')
         /\ Used(server') = Used(server) /\ Connected(server') = Connected(server)
         /\ server'.playing = server.playing /\ server'.deniedAgain = server.deniedAgain
         /\ server'.instance = server.instance /\ server'.lastChallenge = server.lastChallenge
         /\ server'.table = server.table
         /\ \A c \in Clients :
              /\ client'[c].state = client[c].state /\ SameAttempt(client[c], client'[c])
              /\ client'[c].serverId = client[c].serverId
              /\ client'[c].connectAge = Lesser(client[c].connectAge + 1, RETRANSMIT_TIMEOUT)
         /\ \A i \in Used(server) :
              LET a == server.slot[i]  b == server'.slot[i]
              IN  /\ b.state = a.state /\ b.qport = a.qport /\ b.port = a.port
                  /\ b.challenge = a.challenge
                  /\ b.connectAge = Lesser(a.connectAge + 1, sv_reconnectlimit)
                  /\ b.packetAge = Lesser(a.packetAge + 1, SlotPatience)
<1>1. /\ client \in [Clients -> ClientType] /\ ServerOK(server) /\ server \in ServerType
      /\ \A i \in Slots : server.slot[i] \in SlotType
  BY DEF IInv, TypeInv, ServerOK, ServerType
<1>2. ASSUME NEW n \in Nat, NEW m \in Nat PROVE Lesser(n + 1, m) \in 0 .. m
  BY DEF Lesser
<1> DEFINE clientOf(c) == [client[c] EXCEPT
             !.connectAge = Lesser(client[c].connectAge + 1, RETRANSMIT_TIMEOUT),
             !.packetAge = Lesser(client[c].packetAge + 1, cl_timeout + 1)]
<1>3. ASSUME NEW c \in Clients
      PROVE  /\ clientOf(c) \in ClientType /\ clientOf(c).state = client[c].state
             /\ SameAttempt(client[c], clientOf(c)) /\ clientOf(c).serverId = client[c].serverId
             /\ clientOf(c).connectAge = Lesser(client[c].connectAge + 1, RETRANSMIT_TIMEOUT)
  <2> DEFINE old == client[c]
             x == Lesser(old.connectAge + 1, RETRANSMIT_TIMEOUT)
             y == Lesser(old.packetAge + 1, cl_timeout + 1)
  <2>1. old \in ClientType /\ old.connectAge \in Nat /\ old.packetAge \in Nat /\ cl_timeout + 1 \in Nat
    BY <1>1, ConstantTypes DEF ClientType
  <2>2. x \in 0 .. RETRANSMIT_TIMEOUT /\ y \in 0 .. cl_timeout + 1
    BY <1>2, <2>1, ConstantTypes
  <2>3. clientOf(c) = [old EXCEPT !.connectAge = x, !.packetAge = y]
    OBVIOUS
  <2> DEFINE new == clientOf(c)
  <2> HIDE DEF old, x, y, new
  <2>4. new \in ClientType
    BY <2>1, <2>2, <2>3 DEF ClientType, new
  <2>5. /\ new.state = old.state /\ new.challenge = old.challenge /\ new.hasty = old.hasty
        /\ new.attempts = old.attempts /\ new.serverId = old.serverId /\ new.connectAge = x
    BY <2>1, <2>2, <2>3 DEF ClientType, new
  <2>. QED BY <2>4, <2>5 DEF SameAttempt, new, old, x
<1>4. client' = [c \in Clients |-> clientOf(c)]
  BY DEF Tick
<1> HIDE DEF clientOf
<1>5. /\ client' \in [Clients -> ClientType]
      /\ \A c \in Clients : client'[c] = clientOf(c)
  BY <1>3, <1>4
<1> DEFINE slotOf(i) == [server.slot[i] EXCEPT
             !.connectAge = Lesser(server.slot[i].connectAge + 1, sv_reconnectlimit),
             !.packetAge = Lesser(server.slot[i].packetAge + 1, SlotPatience)]
           newSlot == [i \in Slots |-> IF server.slot[i].state = "free" THEN FreeSlot ELSE slotOf(i)]
<1>6. ASSUME NEW i \in Slots
      PROVE  LET a == server.slot[i]  b == slotOf(i)
             IN  /\ b \in SlotType
                 /\ b.state = a.state /\ b.qport = a.qport /\ b.port = a.port
                 /\ b.challenge = a.challenge
                 /\ b.connectAge = Lesser(a.connectAge + 1, sv_reconnectlimit)
                 /\ b.packetAge = Lesser(a.packetAge + 1, SlotPatience)
  <2> DEFINE old == server.slot[i]
             x == Lesser(old.connectAge + 1, sv_reconnectlimit)
             y == Lesser(old.packetAge + 1, SlotPatience)
             new == slotOf(i)
  <2>1. old \in SlotType /\ old.connectAge \in Nat /\ old.packetAge \in Nat
    BY <1>1, ConstantTypes DEF SlotType
  <2>2. x \in 0 .. sv_reconnectlimit /\ y \in 0 .. SlotPatience
    BY <1>2, <2>1, ConstantTypes
  <2>3. new = [old EXCEPT !.connectAge = x, !.packetAge = y]
    OBVIOUS
  <2> HIDE DEF old, x, y, new
  <2>4. new \in SlotType
    BY <2>1, <2>2, <2>3 DEF SlotType
  <2>5. /\ new.state = old.state /\ new.qport = old.qport /\ new.port = old.port
        /\ new.challenge = old.challenge /\ new.connectAge = x /\ new.packetAge = y
    BY <2>1, <2>2, <2>3 DEF SlotType
  <2>. QED BY <2>4, <2>5 DEF new, old, x, y
<1>7. FreeSlot \in SlotType /\ FreeSlot.state = "free"
  BY ConstantTypes DEF FreeSlot, SlotType, SlotStates, AnyPort
<1>8. server' = [server EXCEPT !.slot = newSlot]
  BY DEF Tick
<1> HIDE DEF slotOf
<1>9. /\ newSlot \in [Slots -> SlotType]
      /\ \A i \in Slots : newSlot[i] = IF server.slot[i].state = "free" THEN FreeSlot ELSE slotOf(i)
  BY <1>6, <1>7
<1> HIDE DEF newSlot
<1>10. /\ server' \in ServerType /\ server'.slot = newSlot /\ server'.table = server.table
       /\ server'.playing = server.playing /\ server'.deniedAgain = server.deniedAgain
       /\ server'.instance = server.instance /\ server'.lastChallenge = server.lastChallenge
  BY <1>1, <1>8, <1>9 DEF ServerType
<1>11. \A i \in Slots :
         server'.slot[i] = IF server.slot[i].state = "free" THEN FreeSlot ELSE slotOf(i)
  BY <1>9, <1>10
<1>12. Used(server') = Used(server) /\ Connected(server') = Connected(server)
  BY <1>6, <1>7, <1>11 DEF Used, Connected
<1>13. \A i \in Used(server) : server'.slot[i] = slotOf(i) /\ i \in Slots
  BY <1>11 DEF Used
<1>14. ServerOK(server')
  BY <1>1, <1>6, <1>10, <1>12, <1>13 DEF ServerOK
<1>. QED BY <1>3, <1>5, <1>6, <1>10, <1>12, <1>13, <1>14

LEMMA TickKeeps ==
  ASSUME IInv, Tick
  PROVE  IInv' /\ (GameTold(server) => GameTold(server'))
<1>1. /\ client' \in [Clients -> ClientType] /\ ServerOK(server')
      /\ Used(server') = Used(server) /\ Connected(server') = Connected(server)
      /\ server'.playing = server.playing /\ server'.deniedAgain = server.deniedAgain
      /\ server'.instance = server.instance /\ server'.lastChallenge = server.lastChallenge
      /\ \A c \in Clients :
           /\ client'[c].state = client[c].state /\ SameAttempt(client[c], client'[c])
           /\ client'[c].serverId = client[c].serverId
      /\ \A i \in Used(server) :
              /\ server'.slot[i].qport = server.slot[i].qport
              /\ server'.slot[i].port = server.slot[i].port
              /\ server'.slot[i].challenge = server.slot[i].challenge
  BY TickEffect
<1>2. /\ toServer' = Older(toServer) /\ toClients' = Older(toClients) /\ UNCHANGED <<port, remaps>>
  BY DEF Tick
<1>3. /\ toServer \subseteq Requests \cup Connects \cup Moves
      /\ toClients \subseteq Responses \cup Updates \cup Notices
  BY DEF IInv, TypeInv, ToServerOK, ToClientsOK
<1>4. \A d \in toServer' :
         /\ d \in Requests \cup Connects \cup Moves
         /\ \E e \in toServer : /\ d.kind = e.kind /\ d.port = e.port
                                /\ e.kind # "getchallenge" => d.qport = e.qport
                                /\ e.kind = "connect" => d.challenge = e.challenge
  BY <1>2, <1>3, OlderRequests
<1>5. \A d \in toClients' :
         /\ d \in Responses \cup Updates \cup Notices
         /\ \E e \in toClients : /\ d.kind = e.kind /\ d.port = e.port
                                 /\ e.kind = "message" => d.serverId = e.serverId
                                 /\ e.kind = "challengeResponse" => d.challenge = e.challenge
  BY <1>2, <1>3, OlderAnswers
<1>6. ToServerOK(toServer')
  <2>1. IsFiniteSet(toServer) /\ Cardinality(toServer) <= ServerCapacity
    BY DEF IInv, TypeInv, ToServerOK
  <2>2. /\ IsFiniteSet(toServer') /\ Cardinality(toServer') <= Cardinality(toServer)
    BY <1>2, <2>1, OlderFinite
  <2>3. Cardinality(toServer) \in Nat /\ Cardinality(toServer') \in Nat
    BY <2>1, <2>2, FS_CardinalityType
  <2>4. Cardinality(toServer') <= ServerCapacity
    BY <2>1, <2>2, <2>3, ConstantTypes
  <2>. QED BY <1>4, <2>2, <2>4 DEF ToServerOK
<1>7. ToClientsOK(toClients')
  <2>1. IsFiniteSet(toClients) /\ Cardinality(toClients) <= ClientCapacity
    BY DEF IInv, TypeInv, ToClientsOK
  <2>2. /\ IsFiniteSet(toClients') /\ Cardinality(toClients') <= Cardinality(toClients)
    BY <1>2, <2>1, OlderFinite
  <2>3. Cardinality(toClients) \in Nat /\ Cardinality(toClients') \in Nat
    BY <2>1, <2>2, FS_CardinalityType
  <2>4. Cardinality(toClients') <= ClientCapacity
    BY <2>1, <2>2, <2>3, ConstantTypes
  <2>. QED BY <1>5, <2>2, <2>4 DEF ToClientsOK
<1>8. TypeInv'
  BY <1>1, <1>2, <1>6, <1>7 DEF IInv, TypeInv
<1>9. BoundInv'
  <2>1. \A d \in toServer' : d.kind = "connect" => d.challenge <= server.lastChallenge
    BY <1>4 DEF IInv, BoundInv
  <2>2. \A d \in toClients' : d.kind = "challengeResponse" => d.challenge <= server.lastChallenge
    BY <1>5 DEF IInv, BoundInv
  <2>3. \A d \in toClients' : d.kind = "message" => d.serverId <= server.instance
    BY <1>5 DEF IInv, BoundInv
  <2>. QED BY <1>1, <2>1, <2>2, <2>3 DEF IInv, BoundInv, SameAttempt
<1>10. \A c : SlotsOf(c)' = SlotsOf(c)
  BY <1>1 DEF SlotsOf
<1>11. FixedInv'
  <2> SUFFICES ASSUME remaps = 0 PROVE FixedInv'
    BY <1>2 DEF FixedInv
  <2>1. \A d \in toServer' : d.kind # "getchallenge" => d.qport = d.port
    <3> SUFFICES ASSUME NEW d \in toServer', d.kind # "getchallenge" PROVE d.qport = d.port
      OBVIOUS
    <3>1. PICK e \in toServer : /\ d.kind = e.kind /\ d.port = e.port
                                /\ e.kind # "getchallenge" => d.qport = e.qport
      BY <1>4
    <3>. QED BY <3>1 DEF IInv, FixedInv
  <2>2. \A i \in Used(server') : server'.slot[i].qport = server'.slot[i].port
    BY <1>1 DEF IInv, FixedInv
  <2>. QED BY <1>2, <1>10, <2>1, <2>2 DEF IInv, FixedInv
<1>12. AgreeInv'
  <2> SUFFICES ASSUME remaps = 0, NEW c \in Clients, ~client'[c].hasty PROVE Agree(c)'
    BY <1>2 DEF AgreeInv
  <2>1. Agree(c)
    BY <1>1 DEF IInv, AgreeInv, SameAttempt
  <2>2. \A d \in ConnectsOf(c)' : \E e \in ConnectsOf(c) : e.challenge = d.challenge
    <3> SUFFICES ASSUME NEW d \in toServer', d.kind = "connect", d.qport = c
                 PROVE  \E e \in ConnectsOf(c) : e.challenge = d.challenge
      BY DEF ConnectsOf
    <3>1. PICK e \in toServer : /\ d.kind = e.kind /\ d.qport = e.qport
                                /\ d.challenge = e.challenge
      BY <1>4
    <3>. QED BY <3>1 DEF ConnectsOf
  <2>3. ConnectResponses(c)' # {} => ConnectResponses(c) # {}
    <3> SUFFICES ASSUME NEW d \in toClients', d.kind = "connectResponse", d.port = c
                 PROVE  ConnectResponses(c) # {}
      BY DEF ConnectResponses
    <3>1. PICK e \in toClients : d.kind = e.kind /\ d.port = e.port
      BY <1>5
    <3>. QED BY <3>1 DEF ConnectResponses
  <2>4. \A i \in SlotsOf(c)' : i \in SlotsOf(c) /\ server'.slot[i].challenge = server.slot[i].challenge
    BY <1>1, <1>10 DEF SlotsOf
  <2>. QED BY <1>1, <2>1, <2>2, <2>3, <2>4, AgreeKept DEF SameAttempt
<1>13. GameTold(server) => GameTold(server')
  BY <1>1 DEF GameTold
<1>. QED BY <1>8, <1>9, <1>11, <1>12, <1>13 DEF IInv

-----------------------------------------------------------------------------
(* The theorems.                                                           *)

LEMMA InitEstablishes == Init => IInv /\ GameTold(server)
<1> SUFFICES ASSUME Init PROVE IInv /\ GameTold(server)
  OBVIOUS
<1>1. /\ NeverConnected \in ClientType /\ NeverConnected.state = "disconnected"
      /\ NeverConnected.challenge = 0 /\ NeverConnected.serverId = 0
  <2> DEFINE fresh == [attempts |-> 0, hasty |-> FALSE]
  <2>1. fresh.attempts \in 0 .. MaxStarts /\ fresh.hasty \in BOOLEAN
    BY ConstantTypes
  <2>2. NeverConnected = NewClient(fresh)
    BY DEF NeverConnected
  <2> HIDE DEF fresh
  <2>. QED BY <2>1, <2>2, NewClientOK
<1>2. /\ ServerOK(server) /\ GameTold(server) /\ Used(server) = {}
      /\ server.instance = 1 /\ server.lastChallenge = 0
  BY NewServerOK DEF Init
<1>3. /\ client = [c \in Clients |-> NeverConnected] /\ port = [c \in Clients |-> c]
      /\ toServer = {} /\ toClients = {} /\ remaps = 0
  BY DEF Init
<1>4. port \in Bijection(Clients, Clients)
  BY <1>3 DEF Bijection, Injection, Surjection, IsInjective
<1>5. IsFiniteSet({}) /\ Cardinality({}) = 0
  BY FS_EmptySet
<1>6. TypeInv
  BY <1>1, <1>2, <1>3, <1>4, <1>5, ConstantTypes DEF TypeInv, ToServerOK, ToClientsOK
<1>7. BoundInv
  BY <1>1, <1>2, <1>3, ConstantTypes DEF BoundInv
<1>8. FixedInv
  BY <1>2, <1>3 DEF FixedInv, SlotsOf
<1>9. AgreeInv
  BY <1>1, <1>3 DEF AgreeInv, Agree, Answered
<1>. QED BY <1>2, <1>6, <1>7, <1>8, <1>9 DEF IInv

LEMMA ServerPacketKeeps ==
  ASSUME IInv, NEW d \in toServer, SV_PacketEvent(d)
  PROVE  /\ IInv' /\ (GameTold(server) => GameTold(server'))
         /\ \/ Follows(server, server') /\ (remaps = 0 => Calm)
            \/ \E i \in Slots, denied \in BOOLEAN : d.kind = "connect" /\ Filled(i, d, denied)
         /\ UNCHANGED <<client, port, remaps>>
<1>1. toServer' \subseteq toServer /\ UNCHANGED <<client, port, remaps>>
  BY DEF SV_PacketEvent
<1>2. CASE d.kind = "getchallenge"
  <2>1. PICK atOnce \in BOOLEAN : SV_GetChallenge(d, atOnce)
    BY <1>2 DEF SV_PacketEvent
  <2>. QED BY <1>1, <1>2, <2>1, GetChallengeKeeps DEF Calm
<1>3. CASE d.kind = "connect"
  <2>1. PICK denied \in BOOLEAN : SV_DirectConnect(d, denied)
    BY <1>3 DEF SV_PacketEvent
  <2>2. /\ (IInv' /\ Calm) \/ \E i \in Slots : Filled(i, d, denied)
        /\ GameTold(server) => GameTold(server')
    BY <1>1, <1>3, <2>1, DirectConnectCases
  <2>3. CASE IInv' /\ Calm
    BY <1>1, <2>2, <2>3 DEF Calm
  <2>4. CASE \E i \in Slots : Filled(i, d, denied)
    <3>1. PICK i \in Slots : Filled(i, d, denied)
      BY <2>4
    <3>2. IInv'
      BY <1>3, <3>1, FilledKeeps
    <3>. QED BY <1>1, <1>3, <2>2, <3>1, <3>2
  <2>. QED BY <2>2, <2>3, <2>4
<1>4. CASE d.kind = "message"
  <2>1. SV_SequencedPacket(d)
    BY <1>4 DEF SV_PacketEvent
  <2>. QED BY <1>1, <1>4, <2>1, SequencedPacketKeeps
<1>5. d.kind \in {"getchallenge", "connect", "message"}
  BY DatagramTypes DEF IInv, TypeInv, ToServerOK
<1>. QED BY <1>2, <1>3, <1>4, <1>5

\* Nobody is put out of its slot, but by one that has its port.
Stays == \A i \in Used(server) : \/ server'.slot[i].state = "free"
                                 \/ server'.slot[i].qport = server.slot[i].qport
                                 \/ PortInherited(server.slot[i], server'.slot[i])

LEMMA FollowsStays ==
  ASSUME Follows(server, server')
  PROVE  Stays
<1>1. \A i \in Used(server) : i \in Used(server') => server'.slot[i].qport = server.slot[i].qport
  BY DEF Follows, KeptSlot
<1>2. \A i \in Slots : i \notin Used(server') => server'.slot[i].state = "free"
  BY DEF Used
<1>. QED BY <1>1, <1>2 DEF Stays, Used

LEMMA CalmStays ==
  ASSUME Calm
  PROVE  Stays
BY FollowsStays DEF Calm

LEMMA FilledStays ==
  ASSUME IInv, NEW i \in Slots, NEW d \in toServer, d.kind = "connect", NEW denied \in BOOLEAN,
         Filled(i, d, denied)
  PROVE  Stays
<1> SUFFICES ASSUME NEW j \in Used(server)
             PROVE  \/ server'.slot[j].state = "free"
                    \/ server'.slot[j].qport = server.slot[j].qport
                    \/ PortInherited(server.slot[j], server'.slot[j])
  BY DEF Stays
<1>1. CASE j # i
  BY <1>1 DEF Filled, Used
<1>2. CASE j = i /\ denied
  BY <1>2 DEF Filled
<1>3. CASE j = i /\ ~denied
  <2>1. remaps \in Nat
    BY DEF IInv, TypeInv
  <2>2. /\ server'.slot[j].qport = d.qport /\ server'.slot[j].port = d.port
        /\ server.slot[j].qport = d.qport \/ (remaps # 0 /\ server.slot[j].port = d.port)
    BY <1>3 DEF Filled
  <2>. QED BY <2>1, <2>2 DEF PortInherited
<1>. QED BY <1>1, <1>2, <1>3

LEMMA SameServerStays ==
  ASSUME server' = server
  PROVE  Stays /\ (GameTold(server) => GameTold(server'))
BY DEF Stays, GameTold, Connected

LEMMA StepPreserves ==
  ASSUME IInv, [Next]_vars
  PROVE  IInv' /\ (GameTold(server) => GameTold(server')) /\ Stays
<1>1. ASSUME NEW c \in Clients, Connect(c) \/ Disconnect(c) \/ Crash(c) \/ CL_Frame(c)
      PROVE  IInv' /\ (GameTold(server) => GameTold(server')) /\ Stays
  <2>1. server' = server
    BY <1>1 DEF Connect, Disconnect, Crash, CL_Frame
  <2>. QED BY <1>1, <2>1, ConnectKeeps, DisconnectKeeps, CrashKeeps, ClientFrameKeeps, SameServerStays
<1>2. ASSUME NEW d \in toServer, SV_PacketEvent(d)
      PROVE  IInv' /\ (GameTold(server) => GameTold(server')) /\ Stays
  <2>1. /\ IInv' /\ (GameTold(server) => GameTold(server'))
        /\ \/ Follows(server, server')
           \/ \E i \in Slots, denied \in BOOLEAN : d.kind = "connect" /\ Filled(i, d, denied)
    BY <1>2, ServerPacketKeeps
  <2>. QED BY <2>1, FollowsStays, FilledStays
<1>3. ASSUME NEW d \in toClients, CL_PacketEvent(d)
      PROVE  IInv' /\ (GameTold(server) => GameTold(server')) /\ Stays
  <2>1. server' = server
    BY <1>3 DEF CL_PacketEvent
  <2>. QED BY <1>3, <2>1, PacketKeeps, SameServerStays
<1>4. ASSUME NEW k \in Entries, NEW accepted \in BOOLEAN, SV_AuthorizeIpPacket(k, accepted)
      PROVE  IInv' /\ (GameTold(server) => GameTold(server')) /\ Stays
  BY <1>4, AuthorizeKeeps, CalmStays
<1>5. ASSUME SV_Frame PROVE IInv' /\ (GameTold(server) => GameTold(server')) /\ Stays
  BY <1>5, FrameKeeps, CalmStays
<1>6. ASSUME NEW i \in Slots, Kick(i)
      PROVE  IInv' /\ (GameTold(server) => GameTold(server')) /\ Stays
  BY <1>6, KickKeeps, CalmStays
<1>7. ASSUME NEW announced \in BOOLEAN, Restart(announced)
      PROVE  IInv' /\ (GameTold(server) => GameTold(server')) /\ Stays
  BY <1>7, RestartKeeps, CalmStays
<1>8. ASSUME NEW c \in Clients, NEW d \in Clients, NatRemap(c, d)
      PROVE  IInv' /\ (GameTold(server) => GameTold(server')) /\ Stays
  <2>1. server' = server
    BY <1>8 DEF NatRemap
  <2>. QED BY <1>8, <2>1, NatRemapKeeps, SameServerStays
<1>9. ASSUME Tick PROVE IInv' /\ (GameTold(server) => GameTold(server')) /\ Stays
  <2>1. \A i \in Used(server) : server'.slot[i].qport = server.slot[i].qport
    BY <1>9, TickEffect
  <2>. QED BY <1>9, <2>1, TickKeeps DEF Stays
<1>10. ASSUME UNCHANGED vars PROVE IInv' /\ (GameTold(server) => GameTold(server')) /\ Stays
  <2>1. UNCHANGED <<client, server, port, toServer, toClients, remaps>>
    BY <1>10 DEF vars
  <2>2. TypeInv' /\ BoundInv'
    BY <2>1 DEF IInv, TypeInv, BoundInv
  <2>3. FixedInv'
    BY <2>1 DEF IInv, FixedInv, SlotsOf
  <2>4. AgreeInv'
    BY <2>1 DEF IInv, AgreeInv, Agree, Answered, ConnectsOf, ConnectResponses, SlotsOf
  <2>. QED BY <2>1, <2>2, <2>3, <2>4, SameServerStays DEF IInv
<1>. QED BY <1>1, <1>2, <1>3, <1>4, <1>5, <1>6, <1>7, <1>8, <1>9, <1>10 DEF Next

\* The invariant of the connection, by induction over the steps, with what the game
\* was told.
THEOREM Invariance == Spec => [](IInv /\ GameTold(server))
<1>1. Init => IInv /\ GameTold(server)
  BY InitEstablishes
<1>2. IInv /\ GameTold(server) /\ [Next]_vars => (IInv /\ GameTold(server))'
  BY StepPreserves DEF GameTold, Connected
<1>. QED BY <1>1, <1>2, PTL DEF Spec

\* A client has one slot, however often its connect comes and however it lost its last
\* connection, as long as the translator leaves the ports alone (SV_DirectConnect).
THEOREM OneSlotOnly == Spec => []OneSlot
<1>1. IInv => OneSlot
  <2> SUFFICES ASSUME IInv, remaps = 0, NEW i \in Used(server), NEW j \in Used(server),
                      server.slot[i].qport = server.slot[j].qport
               PROVE  i = j
    BY DEF OneSlot
  <2> DEFINE c == server.slot[i].qport
  <2>1. c \in Clients /\ i \in SlotsOf(c) /\ j \in SlotsOf(c)
    BY DEF IInv, TypeInv, ServerOK, SlotsOf
  <2>. QED BY <2>1 DEF IInv, FixedInv
<1>. QED BY <1>1, Invariance, PTL

\* The game is told of every client that comes and of every one that goes, but of those
\* whose reconnect it refuses (ClientConnect and ClientDisconnect, called from
\* SV_DirectConnect and SV_DropClient).
THEOREM GameAlwaysKnows == Spec => []GameKnows
<1>1. GameTold(server) => GameKnows
  BY DEF GameTold, GameKnows
<1>. QED BY <1>1, Invariance, PTL

\* A slot passes from one client to another only through being free, or to a newcomer
\* that has, after a change of ports, the port its client was last heard of from
\* (SV_DirectConnect).
THEOREM NobodyPutOut == Spec => NotPutOut
<1>1. IInv /\ [Next]_vars => [\A i \in Used(server) :
                                \/ server'.slot[i].state = "free"
                                \/ server'.slot[i].qport = server.slot[i].qport
                                \/ PortInherited(server.slot[i], server'.slot[i])]_vars
  BY StepPreserves DEF Stays
<1>. QED BY <1>1, Invariance, PTL DEF Spec, NotPutOut

\* The two ends fit: types and bounds, and one challenge in a client that waits for the
\* packets of one attempt to die before it makes another, and in its slot.
THEOREM EndsAlwaysAgree == Spec => []EndsAgree
<1>1. IInv => TypeOK
  <2> SUFFICES ASSUME IInv PROVE TypeOK
    OBVIOUS
  <2>1. /\ client \in [Clients -> ClientType] /\ ServerOK(server) /\ server \in ServerType
        /\ port \in Bijection(Clients, Clients)
        /\ server.instance \in 1 .. MaxStarts + 1 /\ server.lastChallenge <= MaxChallenge
        /\ server.instance \in Nat /\ server.lastChallenge \in Nat
    BY DEF IInv, TypeInv, BoundInv, ServerOK, ServerType
  <2>2. ASSUME NEW c \in Clients
        PROVE  /\ client[c].state \in ClientStates
               /\ client[c].connectAge \in 0 .. RETRANSMIT_TIMEOUT
               /\ client[c].packetAge \in 0 .. cl_timeout + 1
               /\ client[c].timeoutCount \in 0 .. TIMEOUT_FRAMES
               /\ client[c].challenge \in 0 .. MaxChallenge
               /\ client[c].serverId \in 0 .. server.instance
               /\ client[c].attempts \in 0 .. MaxStarts /\ client[c].hasty \in BOOLEAN
    <3>1. client[c] \in ClientType
      BY <2>1
    <3>2. client[c].challenge <= server.lastChallenge /\ client[c].serverId <= server.instance
      BY DEF IInv, BoundInv
    <3>3. client[c].challenge \in Nat /\ client[c].serverId \in Nat
      BY <3>1 DEF ClientType
    <3>4. client[c].challenge \in 0 .. MaxChallenge /\ client[c].serverId \in 0 .. server.instance
      BY <2>1, <3>2, <3>3, ConstantTypes
    <3>. QED BY <3>1, <3>4 DEF ClientType
  <2>3. ASSUME NEW i \in Slots
        PROVE  /\ server.slot[i].state \in SlotStates
               /\ server.slot[i].connectAge \in 0 .. sv_reconnectlimit
               /\ server.slot[i].packetAge \in 0 .. SlotPatience
               /\ server.slot[i].timeoutCount \in 0 .. TIMEOUT_FRAMES
               /\ i \in Used(server) =>
                    server.slot[i].qport \in Clients /\ server.slot[i].port \in Clients
    BY <2>1 DEF ServerOK, ServerType, SlotType
  <2>4. \A k \in Entries : server.table[k].value \in 0 .. server.lastChallenge
    BY <2>1 DEF ServerOK, ServerType, EntryType
  <2>5. server.playing \cup server.deniedAgain \subseteq Slots
    BY <2>1 DEF ServerType
  <2>6. server.lastChallenge \in 0 .. MaxChallenge
    BY <2>1, ConstantTypes
  <2>7. Cardinality(toServer) <= ServerCapacity /\ Cardinality(toClients) <= ClientCapacity
    BY DEF IInv, TypeInv, ToServerOK, ToClientsOK
  <2>. QED BY <2>1, <2>2, <2>3, <2>4, <2>5, <2>6, <2>7 DEF TypeOK
<1>2. IInv => SameChallenge
  <2> SUFFICES ASSUME IInv, remaps = 0, NEW c \in Clients, NEW i \in Connected(server),
                      client[c].state = "connected", ~client[c].hasty, server.slot[i].qport = c
               PROVE  server.slot[i].challenge = client[c].challenge
    BY DEF SameChallenge
  <2>1. Agree(c) /\ Answered(c)
    BY DEF IInv, AgreeInv, Answered
  <2>2. i \in SlotsOf(c)
    BY DEF SlotsOf, Used, Connected
  <2>. QED BY <2>1, <2>2 DEF Agree
<1>. QED BY <1>1, <1>2, Invariance, PTL DEF EndsAgree

-----------------------------------------------------------------------------
(* A slot is not begun anew under its client: the invariant that counts the time. *)

\* Datagrams are dead before the client repeats its connect, before the server takes
\* another connect of the same client, and before it gives a slot up.
Prompt ==
  /\ 2 * Life < RETRANSMIT_TIMEOUT /\ Life < sv_reconnectlimit
  /\ Life <= sv_timeout /\ Life <= sv_zombietime

\* A slot that is young has not been silent for longer.
AgeInv == remaps = 0 =>
  \A i \in Used(server) :
    server.slot[i].connectAge < sv_reconnectlimit =>
      server.slot[i].packetAge <= server.slot[i].connectAge

\* While a client connects, nothing it or the server said before is on its way; each
\* connect on its way is its last one; an answer is older than neither that connect nor
\* its slot, and tells the client before it connects again; once the client was answered,
\* a connect that still comes finds a slot that is too young for it; and a client in the
\* game, or about to be, has no new slot.
Timed(c) ==
  LET cl == client[c]
  IN  /\ cl.state \in {"connecting", "challenging"} => MovesOf(c) = {} /\ Gamestates(c) = {}
      /\ cl.state \in {"challenging", "connected"} =>
           \A d \in ConnectsOf(c) : d.age = cl.connectAge
      /\ cl.state = "challenging" =>
           \A r \in ConnectResponses(c) : r.age <= cl.connectAge /\ cl.connectAge <= r.age + Life
      /\ Answered(c) =>
           \A d \in ConnectsOf(c) : Known(server, d) # {} =>
             \E i \in SlotsOf(c) : server.slot[i].connectAge <= cl.connectAge
      /\ cl.state = "connected"
         /\ (cl.serverId = server.instance \/ \E m \in Gamestates(c) : m.serverId = server.instance)
         => \A i \in SlotsOf(c) : server.slot[i].state # "connected"

TimeInv == remaps = 0 => \A c \in Clients : ~client[c].hasty => Timed(c)

TInv == IInv /\ AgeInv /\ TimeInv

\* What was unknown stays so.
LEMMA KnownBefore ==
  ASSUME IInv, ServerOK(server'), Follows(server, server'),
         NEW d \in toServer, d.kind = "connect", Known(server', d) # {}
  PROVE  /\ Known(server, d) # {}
         /\ \E k \in Entries : server'.table[k].value # 0
<1>1. /\ d \in Connects /\ d.port \in Clients /\ d.challenge \in Nat
      /\ d.challenge <= server.lastChallenge /\ server.lastChallenge \in Nat
  BY DatagramTypes DEF IInv, TypeInv, ToServerOK, BoundInv, ServerOK, ServerType
<1>2. PICK k \in Entries : server'.table[k].port = d.port /\ server'.table[k].value = d.challenge
  BY DEF Known
<1>3. server'.table[k].value # 0
  BY <1>1, <1>2 DEF ServerOK
<1>4. server.table[k].port = d.port /\ server.table[k].value = d.challenge
  BY <1>1, <1>2, <1>3 DEF Follows
<1>. QED BY <1>3, <1>4 DEF Known

\* A client that is left alone.
LEMMA TimedKept ==
  ASSUME NEW c, Timed(c), client'[c].state = client[c].state,
         client'[c].connectAge = client[c].connectAge, client'[c].serverId = client[c].serverId,
         server'.instance = server.instance,
         SlotsOf(c)' = SlotsOf(c), \A i \in SlotsOf(c) : server'.slot[i] = server.slot[i],
         \A d \in ConnectsOf(c)' : d \in ConnectsOf(c)
                                   /\ (Known(server', d) # {} => Known(server, d) # {}),
         ConnectResponses(c)' \subseteq ConnectResponses(c),
         Gamestates(c)' \subseteq Gamestates(c),
         client[c].state \in {"connecting", "challenging"} => MovesOf(c)' \subseteq MovesOf(c)
  PROVE  Timed(c)'
<1>1. Answered(c)' => Answered(c)
  BY DEF Answered
<1>. QED BY <1>1 DEF Timed

\* A young slot is not given up.
LEMMA YoungStays ==
  ASSUME Prompt, TInv, remaps = 0, Calm, NEW i \in Used(server), server.slot[i].connectAge <= Life
  PROVE  i \in Used(server') \/ \A k \in Entries : server'.table[k].value = 0
<1>1. /\ server.slot[i].connectAge \in Nat /\ server.slot[i].packetAge \in Nat
  BY ConstantTypes DEF TInv, IInv, TypeInv, ServerOK, ServerType, SlotType, Used
<1>2. server.slot[i].packetAge <= Life
  BY <1>1, ConstantTypes DEF TInv, AgeInv, Prompt
<1>3. Life <= Lesser(sv_timeout, sv_zombietime)
  BY ConstantTypes DEF Prompt, Lesser
<1>4. Lesser(sv_timeout, sv_zombietime) \in Nat
  BY ConstantTypes DEF Lesser
<1>5. ~(server.slot[i].packetAge > Lesser(sv_timeout, sv_zombietime))
  BY <1>1, <1>2, <1>3, <1>4, ConstantTypes
<1>. QED BY <1>5 DEF Calm

LEMMA CalmTimed ==
  ASSUME Prompt, TInv, Calm, IInv', UNCHANGED <<client, port, remaps>>
  PROVE  AgeInv' /\ TimeInv'
<1>1. /\ Follows(server, server') /\ ServerOK(server) /\ ServerOK(server')
      /\ toServer' \subseteq toServer
  BY DEF Calm, TInv, IInv, TypeInv
<1>2. AgeInv'
  <2> SUFFICES ASSUME remaps = 0, NEW i \in Used(server'),
                      server'.slot[i].connectAge < sv_reconnectlimit
               PROVE  server'.slot[i].packetAge <= server'.slot[i].connectAge
    BY DEF AgeInv
  <2>1. i \in Slots /\ KeptSlot(server.slot[i], server'.slot[i])
    BY <1>1 DEF Follows, Used
  <2>2. i \in Used(server)
    BY <2>1 DEF KeptSlot, Used
  <2>3. /\ server.slot[i].connectAge \in Nat /\ server.slot[i].packetAge \in Nat
        /\ server'.slot[i].packetAge \in Nat
    BY <1>1, <2>1, ConstantTypes DEF ServerOK, ServerType, SlotType
  <2>. QED BY <2>1, <2>2, <2>3 DEF KeptSlot, TInv, AgeInv
<1>3. TimeInv'
  <2> SUFFICES ASSUME remaps = 0, NEW c \in Clients, ~client[c].hasty PROVE Timed(c)'
    BY DEF TimeInv
  <2>1. Timed(c)
    BY DEF TInv, TimeInv
  <2>2. /\ MovesOf(c)' \subseteq MovesOf(c) /\ ConnectsOf(c)' \subseteq ConnectsOf(c)
        /\ ConnectResponses(c)' \subseteq ConnectResponses(c)
    BY <1>1 DEF MovesOf, ConnectsOf, ConnectResponses, Calm
  <2>3. ASSUME NEW m \in Gamestates(c)', m \notin Gamestates(c)
        PROVE  MovesOf(c) # {} /\ \A i \in SlotsOf(c)' : server'.slot[i].state # "connected"
    <3>1. m \in toClients' \ toClients /\ m.kind = "message" /\ m.port = c /\ m.command = "gamestate"
      BY <2>3 DEF Gamestates
    <3>2. PICK e \in toServer : e.kind = "message" /\ e.port = c
      BY <3>1 DEF Calm
    <3>3. e \in MovesOf(c)
      BY <3>2 DEF MovesOf, TInv, IInv, FixedInv
    <3>. QED BY <3>1, <3>3 DEF Calm
  <2>4. ASSUME Answered(c)', NEW d \in ConnectsOf(c)', Known(server', d) # {}
        PROVE  \E i \in SlotsOf(c)' : server'.slot[i].connectAge <= client[c].connectAge
    <3>1. d \in ConnectsOf(c) /\ d \in toServer /\ d.kind = "connect"
      BY <2>2 DEF ConnectsOf
    <3>2. Answered(c) /\ client[c].state \in {"challenging", "connected"}
      BY <2>2, <2>4 DEF Answered
    <3>3. Known(server, d) # {} /\ \E k \in Entries : server'.table[k].value # 0
      BY <1>1, <2>4, <3>1, KnownBefore DEF TInv
    <3>4. PICK i \in SlotsOf(c) : server.slot[i].connectAge <= client[c].connectAge
      BY <2>1, <3>1, <3>2, <3>3 DEF Timed
    <3>5. client[c].connectAge = d.age /\ d.age \in Times
      BY <2>1, <3>1, <3>2, DatagramTypes DEF Timed, TInv, IInv, TypeInv, ToServerOK
    <3>6. i \in Used(server) /\ i \in Slots /\ server.slot[i].connectAge \in Nat
      BY <1>1, ConstantTypes DEF SlotsOf, Used, ServerOK, ServerType, SlotType
    <3>7. server.slot[i].connectAge <= Life
      BY <3>4, <3>5, <3>6, ConstantTypes DEF Times
    <3>8. i \in Used(server')
      BY <3>3, <3>6, <3>7, YoungStays
    <3>9. KeptSlot(server.slot[i], server'.slot[i])
      BY <1>1, <3>8 DEF Follows
    <3>10. i \in SlotsOf(c)'
      BY <3>8, <3>9 DEF SlotsOf, KeptSlot
    <3>. QED BY <3>4, <3>9, <3>10 DEF KeptSlot
  <2>5. ASSUME client[c].state = "connected",
               \/ client[c].serverId = server'.instance
               \/ \E m \in Gamestates(c)' : m.serverId = server'.instance,
               NEW i \in SlotsOf(c)'
        PROVE  server'.slot[i].state # "connected"
    <3>1. i \in Used(server') /\ i \in Slots /\ server'.slot[i].qport = c
      BY DEF SlotsOf, Used
    <3>2. KeptSlot(server.slot[i], server'.slot[i]) /\ server'.instance = server.instance
      BY <1>1, <3>1 DEF Follows
    <3>3. i \in SlotsOf(c)
      BY <3>1, <3>2 DEF SlotsOf, Used, KeptSlot
    <3>4. CASE \/ client[c].serverId = server.instance
               \/ \E m \in Gamestates(c) : m.serverId = server.instance
      <4>1. server.slot[i].state # "connected"
        BY <2>1, <2>5, <3>3, <3>4 DEF Timed
      <4>. QED BY <3>2, <4>1 DEF KeptSlot
    <3>5. CASE \E m \in Gamestates(c)' : m \notin Gamestates(c)
      BY <2>3, <3>5
    <3>. QED BY <2>5, <3>2, <3>4, <3>5
  <2>6. client[c].state \in {"connecting", "challenging"} => MovesOf(c)' = {} /\ Gamestates(c)' = {}
    BY <2>1, <2>2, <2>3 DEF Timed
  <2>7. client[c].state \in {"challenging", "connected"} =>
          \A d \in ConnectsOf(c)' : d.age = client[c].connectAge
    BY <2>1, <2>2 DEF Timed
  <2>8. client[c].state = "challenging" =>
          \A r \in ConnectResponses(c)' :
            r.age <= client[c].connectAge /\ client[c].connectAge <= r.age + Life
    BY <2>1, <2>2 DEF Timed
  <2>. QED BY <2>4, <2>5, <2>6, <2>7, <2>8 DEF Timed
<1>. QED BY <1>2, <1>3

LEMMA FilledTimed ==
  ASSUME Prompt, TInv, NEW i \in Slots, NEW d \in toServer, d.kind = "connect",
         NEW denied \in BOOLEAN, Filled(i, d, denied)
  PROVE  AgeInv' /\ TimeInv'
<1>1. /\ d \in Connects /\ d.port \in Clients /\ d.qport \in Clients /\ d.age \in Times
      /\ (remaps = 0 => d.qport = d.port)
  BY DatagramTypes DEF TInv, IInv, TypeInv, ToServerOK, FixedInv
<1>2. /\ UNCHANGED <<client, port, remaps>> /\ toServer' \subseteq toServer
      /\ server'.instance = server.instance
  BY DEF Filled
<1>3. AgeInv'
  <2> SUFFICES ASSUME remaps = 0, NEW j \in Used(server'),
                      server'.slot[j].connectAge < sv_reconnectlimit
               PROVE  server'.slot[j].packetAge <= server'.slot[j].connectAge
    BY <1>2 DEF AgeInv
  <2>1. CASE j = i
    <3>1. ~denied
      BY <2>1 DEF Filled
    <3>. QED BY <2>1, <3>1 DEF Filled
  <2>2. CASE j # i
    <3>1. j \in Used(server) /\ server'.slot[j] = server.slot[j]
      BY <2>2 DEF Filled, Used
    <3>. QED BY <3>1 DEF TInv, AgeInv
  <2>. QED BY <2>1, <2>2
<1>4. TimeInv'
  <2> SUFFICES ASSUME remaps = 0, NEW c \in Clients, ~client[c].hasty PROVE Timed(c)'
    BY <1>2 DEF TimeInv
  <2>1. Timed(c) /\ Agree(c)
    BY DEF TInv, TimeInv, IInv, AgreeInv
  <2>2. MovesOf(c)' \subseteq MovesOf(c) /\ ConnectsOf(c)' \subseteq ConnectsOf(c)
    BY <1>2 DEF MovesOf, ConnectsOf
  <2>3. \A m \in toClients' \ toClients :
           /\ m.port = d.port /\ m.kind # "message"
           /\ m.kind = "connectResponse" => ~denied /\ m.age = 0
    BY DEF Filled, Notice
  <2>4. Gamestates(c)' \subseteq Gamestates(c)
    BY <2>3 DEF Gamestates
  <2>5. \A e : Known(server', e) = Known(server, e)
    BY DEF Filled, Known
  <2>6. CASE c # d.qport
    <3>1. SlotsOf(c)' = SlotsOf(c) /\ \A j \in SlotsOf(c) : server'.slot[j] = server.slot[j]
      BY <2>6, FilledSlots DEF TInv
    <3>2. ConnectResponses(c)' \subseteq ConnectResponses(c)
      BY <1>1, <2>3, <2>6 DEF ConnectResponses
    <3>3. \A e \in ConnectsOf(c)' : e \in ConnectsOf(c)
                                    /\ (Known(server', e) # {} => Known(server, e) # {})
      BY <2>2, <2>5
    <3>. QED BY <1>2, <2>1, <2>2, <2>4, <3>1, <3>2, <3>3, TimedKept
  <2>7. CASE c = d.qport
    <3>1. d \in ConnectsOf(c) /\ Known(server, d) # {}
      BY <2>7 DEF ConnectsOf, Filled
    <3>2. ~Answered(c)
      <4> SUFFICES ASSUME Answered(c) PROVE FALSE
        OBVIOUS
      <4>1. PICK j \in SlotsOf(c) : server.slot[j].connectAge <= client[c].connectAge
        BY <2>1, <3>1 DEF Timed
      <4>2. client[c].connectAge = d.age
        BY <2>1, <3>1 DEF Timed, Answered
      <4>3. i \in Used(server)
        BY <2>7, <4>1 DEF Filled
      <4>4. i \in SlotsOf(c)
        BY <2>7, <4>3 DEF Filled, SlotsOf
      <4>5. i = j
        BY <4>1, <4>4 DEF TInv, IInv, FixedInv
      <4>6. server.slot[i].connectAge >= sv_reconnectlimit /\ server.slot[i].connectAge \in Nat
        BY <4>3, ConstantTypes DEF Filled, TInv, IInv, TypeInv, ServerOK, ServerType, SlotType
      <4>. QED BY <1>1, <4>1, <4>2, <4>5, <4>6, ConstantTypes DEF Prompt, Times
    <3>3. client[c].state # "connecting" /\ client[c].state # "connected"
      BY <2>1, <3>1, <3>2 DEF Agree, Answered
    <3>4. CASE client[c].state = "challenging"
      <4>1. MovesOf(c)' = {} /\ Gamestates(c)' = {}
        BY <2>1, <2>2, <2>4, <3>4 DEF Timed
      <4>2. client[c].connectAge = d.age /\ \A e \in ConnectsOf(c)' : e.age = client[c].connectAge
        BY <2>1, <2>2, <3>1, <3>4 DEF Timed
      <4>3. ConnectResponses(c) = {}
        BY <3>2, <3>4 DEF Answered
      <4>4. \A r \in ConnectResponses(c)' : ~denied /\ r.age = 0
        BY <2>3, <4>3 DEF ConnectResponses
      <4>5. \A r \in ConnectResponses(c)' :
              r.age <= client[c].connectAge /\ client[c].connectAge <= r.age + Life
        BY <1>1, <4>2, <4>4, ConstantTypes DEF Times
      <4>6. Answered(c)' => \E j \in SlotsOf(c)' : server'.slot[j].connectAge <= client[c].connectAge
        <5> SUFFICES ASSUME Answered(c)'
                     PROVE  \E j \in SlotsOf(c)' : server'.slot[j].connectAge <= client[c].connectAge
          OBVIOUS
        <5>1. ~denied
          BY <1>2, <3>4, <4>4 DEF Answered
        <5>2. SlotsOf(c)' = {i} /\ server'.slot[i].connectAge = 0
          BY <2>7, <5>1, FilledSlots DEF TInv, Filled
        <5>. QED BY <1>1, <4>2, <5>2, ConstantTypes DEF Times
      <4>. QED BY <1>2, <3>4, <4>1, <4>2, <4>5, <4>6 DEF Timed
    <3>5. CASE client[c].state = "disconnected"
      BY <1>2, <3>5 DEF Timed, Answered
    <3>6. client[c].state \in ClientStates
      BY DEF TInv, IInv, TypeInv, ClientType
    <3>. QED BY <3>3, <3>4, <3>5, <3>6 DEF ClientStates
  <2>. QED BY <2>6, <2>7
<1>. QED BY <1>3, <1>4

\* A step of one client: what the others see.
LEMMA ClientTimed ==
  ASSUME TInv, NEW c \in Clients, NEW cl, client' = [client EXCEPT ![c] = cl],
         UNCHANGED <<server, remaps>>, toClients' \subseteq toClients,
         NEW new, toServer' \subseteq toServer \cup new,
         \A d \in new : d.kind # "getchallenge" => d.qport = c,
         remaps = 0 /\ ~cl.hasty => Timed(c)'
  PROVE  AgeInv' /\ TimeInv'
<1>1. AgeInv'
  BY DEF TInv, AgeInv
<1>2. \A x \in Clients : client'[x] = IF x = c THEN cl ELSE client[x]
  BY DEF TInv, IInv, TypeInv
<1>3. TimeInv'
  <2> SUFFICES ASSUME remaps = 0, NEW x \in Clients, ~client'[x].hasty PROVE Timed(x)'
    BY DEF TimeInv
  <2>1. CASE x = c
    BY <1>2, <2>1
  <2>2. CASE x # c
    <3>1. Timed(x) /\ client'[x] = client[x]
      BY <1>2, <2>2 DEF TInv, TimeInv
    <3>2. ConnectsOf(x)' \subseteq ConnectsOf(x) /\ MovesOf(x)' \subseteq MovesOf(x)
      BY <2>2 DEF ConnectsOf, MovesOf
    <3>3. /\ ConnectResponses(x)' \subseteq ConnectResponses(x)
          /\ Gamestates(x)' \subseteq Gamestates(x)
          /\ SlotsOf(x)' = SlotsOf(x)
      BY DEF ConnectResponses, Gamestates, SlotsOf
    <3>. QED BY <3>1, <3>2, <3>3, TimedKept
  <2>. QED BY <2>1, <2>2
<1>. QED BY <1>1, <1>3

LEMMA TimedDisconnected ==
  ASSUME NEW c, client'[c].state = "disconnected"
  PROVE  Timed(c)'
BY DEF Timed, Answered

LEMMA LeaveTimed ==
  ASSUME TInv, NEW c \in Clients, NEW cl, cl.state = "disconnected",
         client' = [client EXCEPT ![c] = cl],
         UNCHANGED <<server, port, remaps>>, toClients' \subseteq toClients,
         NEW new, new \subseteq Moves, IsFiniteSet(new), SentToServer(new),
         \A d \in new : d.qport = c
  PROVE  AgeInv' /\ TimeInv'
<1>1. toServer' \subseteq toServer \cup new
  BY SentToServerOK DEF TInv, IInv, TypeInv
<1>2. client'[c].state = "disconnected"
  BY DEF TInv, IInv, TypeInv
<1>3. Timed(c)'
  BY <1>2, TimedDisconnected
<1>. QED BY <1>1, <1>3, ClientTimed

LEMMA LeavingTimed ==
  ASSUME TInv, NEW c \in Clients, Disconnect(c) \/ Crash(c)
  PROVE  AgeInv' /\ TimeInv'
<1>1. client[c].attempts \in 0 .. MaxStarts /\ client[c].hasty \in BOOLEAN
  BY DEF TInv, IInv, TypeInv, ClientType
<1>2. CASE Disconnect(c)
  <2> DEFINE cl == NewClient(client[c])
  <2>1. cl.state = "disconnected"
    BY DEF NewClient
  <2>2. /\ client' = [client EXCEPT ![c] = cl] /\ SentToServer(LastWords(c))
        /\ UNCHANGED <<server, port, toClients, remaps>>
    BY <1>2 DEF Disconnect
  <2> HIDE DEF cl
  <2>3. /\ LastWords(c) \subseteq Moves /\ IsFiniteSet(LastWords(c))
        /\ \A d \in LastWords(c) : d.kind = "message" /\ d.qport = c /\ d.port = port[c]
    BY LastWordsOK DEF TInv, IInv
  <2>4. toClients' \subseteq toClients
    BY <2>2
  <2>. QED BY <2>1, <2>2, <2>3, <2>4, LeaveTimed
<1>3. CASE Crash(c)
  <2> DEFINE cl == [NeverConnected EXCEPT !.attempts = MaxStarts]
  <2>1. cl.state = "disconnected"
    BY DEF NeverConnected, NewClient
  <2>2. /\ client' = [client EXCEPT ![c] = cl]
        /\ UNCHANGED <<server, port, toServer, toClients, remaps>>
    BY <1>3 DEF Crash
  <2> HIDE DEF cl
  <2>3. SentToServer({}) /\ {} \subseteq Moves /\ IsFiniteSet({}) /\ toClients' \subseteq toClients
    BY <2>2, NothingSent, FS_EmptySet
  <2>. QED BY <2>1, <2>2, <2>3, LeaveTimed
<1>. QED BY <1>2, <1>3

LEMMA ConnectTimed ==
  ASSUME TInv, NEW c \in Clients, Connect(c)
  PROVE  AgeInv' /\ TimeInv'
<1> DEFINE before == LastWords(c) \cup {d \in toServer \cup toClients : d.port = port[c]}
           gone == NewClient(client[c])
           hasty == client[c].hasty \/ before # {}
           attempts == client[c].attempts + 1
           cl == [gone EXCEPT !.state = "connecting", !.attempts = attempts, !.hasty = hasty]
<1>1. /\ client' = [client EXCEPT ![c] = cl] /\ SentToServer(LastWords(c))
      /\ UNCHANGED <<server, port, toClients, remaps>>
  BY DEF Connect, NewClient
<1>2. cl.state = "connecting" /\ cl.hasty = hasty
  BY DEF NewClient
<1> HIDE DEF cl
<1>3. /\ LastWords(c) \subseteq Moves /\ IsFiniteSet(LastWords(c))
      /\ \A d \in LastWords(c) : d.kind = "message" /\ d.qport = c /\ d.port = port[c]
  BY LastWordsOK DEF TInv, IInv
<1>4. toServer' \subseteq toServer \cup LastWords(c)
  BY <1>1, <1>3, SentToServerOK DEF TInv, IInv, TypeInv
<1>5. client'[c] = cl
  BY <1>1 DEF TInv, IInv, TypeInv
<1>6. ASSUME remaps = 0, ~hasty PROVE Timed(c)'
  <2>1. LastWords(c) = {} /\ \A d \in toServer \cup toClients : d.port # c
    BY <1>6 DEF TInv, IInv, FixedInv
  <2>2. toServer' \subseteq toServer
    BY <1>4, <2>1
  <2>3. MovesOf(c)' = {}
    BY <1>6, <2>1, <2>2 DEF MovesOf, TInv, IInv, FixedInv
  <2>4. Gamestates(c)' = {}
    BY <1>1, <2>1 DEF Gamestates
  <2>. QED BY <1>2, <1>5, <2>3, <2>4 DEF Timed, Answered
<1> HIDE DEF hasty
<1>7. /\ \A d \in LastWords(c) : d.kind # "getchallenge" => d.qport = c
      /\ toClients' \subseteq toClients
  BY <1>1, <1>3
<1>. QED BY <1>1, <1>2, <1>4, <1>6, <1>7, ClientTimed

\* A client sends its last connect again when that and all answers to it are dead.
LEMMA ClientFrameTimed ==
  ASSUME Prompt, TInv, NEW c \in Clients, CL_Frame(c)
  PROVE  AgeInv' /\ TimeInv'
<1> DEFINE old == client[c]
           leaves == TimedOut(old) /\ old.timeoutCount + 1 > TIMEOUT_FRAMES
           count == IF TimedOut(old) THEN old.timeoutCount + 1 ELSE 0
           age == IF Resends(old) THEN 0 ELSE old.connectAge
           cl == [old EXCEPT !.timeoutCount = count, !.connectAge = age]
           new == IF Resends(old)
                  THEN {IF old.state = "connecting" THEN GetChallenge(port[c])
                        ELSE ConnectPacket(port[c], c, old)}
                  ELSE IF old.state = "connected" THEN {ClientMessage(port[c], c, old, "move")}
                  ELSE {}
<1>1. old \in ClientType /\ old.attempts \in 0 .. MaxStarts /\ old.hasty \in BOOLEAN
  BY DEF TInv, IInv, TypeInv, ClientType
<1>2. /\ UNCHANGED <<server, port, toClients, remaps>>
      /\ leaves => /\ client' = [client EXCEPT ![c] = NewClient(old)]
                   /\ SentToServer(LastWords(c))
      /\ ~leaves => client' = [client EXCEPT ![c] = cl] /\ SentToServer(new)
  BY DEF CL_Frame
<1>3. toClients' \subseteq toClients /\ UNCHANGED <<server, port, remaps>>
  BY <1>2
<1>4. CASE leaves
  <2> DEFINE gone == NewClient(old)
  <2>1. gone.state = "disconnected"
    BY DEF NewClient
  <2>2. client' = [client EXCEPT ![c] = gone] /\ SentToServer(LastWords(c))
    BY <1>2, <1>4
  <2> HIDE DEF gone
  <2>3. /\ LastWords(c) \subseteq Moves /\ IsFiniteSet(LastWords(c))
        /\ \A d \in LastWords(c) : d.kind = "message" /\ d.qport = c /\ d.port = port[c]
    BY LastWordsOK DEF TInv, IInv
  <2>. QED BY <1>3, <2>1, <2>2, <2>3, LeaveTimed
<1>5. CASE ~leaves
  <2>1. client' = [client EXCEPT ![c] = cl] /\ SentToServer(new)
    BY <1>2, <1>5
  <2>2. Resends(old) => /\ old.state \in {"connecting", "challenging"}
                        /\ old.connectAge >= RETRANSMIT_TIMEOUT
    BY DEF Resends
  <2> HIDE DEF leaves, count
  <2>3. /\ cl.state = old.state /\ cl.challenge = old.challenge
        /\ cl.serverId = old.serverId /\ cl.hasty = old.hasty /\ cl.connectAge = age
    BY <1>1 DEF ClientType
  <2>4. Resends(old) => age = 0
    OBVIOUS
  <2>5. ~Resends(old) => age = old.connectAge
    OBVIOUS
  <2>6. /\ Resends(old) /\ old.state = "connecting" => new = {GetChallenge(port[c])}
        /\ Resends(old) /\ old.state # "connecting" => new = {ConnectPacket(port[c], c, old)}
        /\ ~Resends(old) /\ old.state = "connected" =>
             new = {ClientMessage(port[c], c, old, "move")}
        /\ ~Resends(old) /\ old.state # "connected" => new = {}
    OBVIOUS
  <2> HIDE DEF cl, old, age, new
  <2>7. /\ ClientMessage(port[c], c, old, "move") \in Moves
        /\ ClientMessage(port[c], c, old, "move").kind = "message"
        /\ ClientMessage(port[c], c, old, "move").qport = c
        /\ GetChallenge(port[c]) \in Requests /\ GetChallenge(port[c]).kind = "getchallenge"
        /\ ConnectPacket(port[c], c, old) \in Connects
        /\ ConnectPacket(port[c], c, old).kind = "connect"
        /\ ConnectPacket(port[c], c, old).qport = c
        /\ ConnectPacket(port[c], c, old).age = 0
    BY <1>1, SaidByClient DEF TInv, IInv
  <2>8. /\ \A d \in new : /\ d.kind # "getchallenge" => d.qport = c
                          /\ d.kind = "message" => old.state = "connected"
                          /\ d.kind = "connect" => Resends(old) /\ old.state # "connecting" /\ d.age = 0
        /\ new \subseteq Requests \cup Connects \cup Moves /\ IsFiniteSet(new)
    <3>1. CASE Resends(old) /\ old.state = "connecting"
      BY <2>6, <2>7, <3>1, FS_Singleton
    <3>2. CASE Resends(old) /\ old.state # "connecting"
      BY <2>6, <2>7, <3>2, FS_Singleton
    <3>3. CASE ~Resends(old) /\ old.state = "connected"
      BY <2>6, <2>7, <3>3, FS_Singleton
    <3>4. CASE ~Resends(old) /\ old.state # "connected"
      BY <2>6, <3>4, FS_EmptySet
    <3>. QED BY <3>1, <3>2, <3>3, <3>4
  <2>9. toServer' \subseteq toServer \cup new
    BY <2>1, <2>8, SentToServerOK DEF TInv, IInv, TypeInv
  <2>10. client'[c] = cl
    BY <2>1 DEF TInv, IInv, TypeInv
  <2>11. ASSUME remaps = 0, ~cl.hasty PROVE Timed(c)'
    <3>1. Timed(c) /\ client[c].state = old.state /\ client[c].connectAge = old.connectAge
          /\ client[c].serverId = old.serverId
      BY <2>3, <2>11 DEF TInv, TimeInv, old
    <3>2. /\ ConnectResponses(c)' = ConnectResponses(c) /\ Gamestates(c)' = Gamestates(c)
          /\ SlotsOf(c)' = SlotsOf(c) /\ \A d : Known(server', d) = Known(server, d)
      BY <1>2 DEF ConnectResponses, Gamestates, SlotsOf
    <3>3. old.state # "connected" => MovesOf(c)' \subseteq MovesOf(c)
      BY <2>8, <2>9 DEF MovesOf
    <3>4. ~Resends(old) => ConnectsOf(c)' \subseteq ConnectsOf(c)
      BY <2>8, <2>9 DEF ConnectsOf
    <3>5. CASE ~Resends(old)
      <4>1. /\ client'[c].state = client[c].state /\ client'[c].serverId = client[c].serverId
            /\ client'[c].connectAge = client[c].connectAge
        BY <2>3, <2>5, <2>10, <3>1, <3>5
      <4>2. \A d \in ConnectsOf(c)' : d \in ConnectsOf(c)
                                      /\ (Known(server', d) # {} => Known(server, d) # {})
        BY <3>2, <3>4, <3>5
      <4>3. client[c].state \in {"connecting", "challenging"} => MovesOf(c)' \subseteq MovesOf(c)
        BY <3>1, <3>3
      <4>4. /\ ConnectResponses(c)' \subseteq ConnectResponses(c)
            /\ Gamestates(c)' \subseteq Gamestates(c)
            /\ server'.instance = server.instance
            /\ \A i \in SlotsOf(c) : server'.slot[i] = server.slot[i]
        BY <1>3, <3>2
      <4>. QED BY <3>1, <3>2, <4>1, <4>2, <4>3, <4>4, TimedKept
    <3>6. CASE Resends(old) /\ old.state = "connecting"
      <4>1. MovesOf(c)' = {} /\ Gamestates(c)' = {}
        BY <3>1, <3>2, <3>3, <3>6 DEF Timed
      <4>2. client'[c].state = "connecting"
        BY <2>3, <2>10, <3>6
      <4>. QED BY <4>1, <4>2 DEF Timed, Answered
    <3>7. CASE Resends(old) /\ old.state # "connecting"
      <4>1. old.state = "challenging" /\ old.connectAge >= RETRANSMIT_TIMEOUT
        BY <2>2, <3>7
      <4>2. old.connectAge \in Nat
        BY <1>1, ConstantTypes DEF ClientType
      <4>3. ConnectsOf(c) = {}
        <5> SUFFICES ASSUME NEW d \in ConnectsOf(c) PROVE FALSE
          OBVIOUS
        <5>1. d.age = old.connectAge
          BY <3>1, <4>1 DEF Timed
        <5>2. d.age \in Times
          BY DatagramTypes DEF ConnectsOf, TInv, IInv, TypeInv, ToServerOK
        <5>. QED BY <4>1, <4>2, <5>1, <5>2, ConstantTypes DEF Times, Prompt
      <4>4. ConnectResponses(c)' = {}
        <5> SUFFICES ASSUME NEW r \in ConnectResponses(c) PROVE FALSE
          BY <3>2
        <5>1. old.connectAge <= r.age + Life
          BY <3>1, <4>1 DEF Timed
        <5>2. r.age \in Times
          BY DatagramTypes DEF ConnectResponses, TInv, IInv, TypeInv, ToClientsOK
        <5>. QED BY <4>1, <4>2, <5>1, <5>2, ConstantTypes DEF Times, Prompt
      <4>5. MovesOf(c)' = {} /\ Gamestates(c)' = {}
        BY <3>1, <3>2, <3>3, <4>1 DEF Timed
      <4>6. client'[c].state = "challenging" /\ client'[c].connectAge = 0
        BY <2>3, <2>4, <2>10, <3>7, <4>1
      <4>7. \A d \in ConnectsOf(c)' : d.age = 0
        BY <2>8, <2>9, <4>3 DEF ConnectsOf
      <4>. QED BY <4>4, <4>5, <4>6, <4>7 DEF Timed, Answered
    <3>. QED BY <3>5, <3>6, <3>7
  <2>12. \A d \in new : d.kind # "getchallenge" => d.qport = c
    BY <2>8
  <2>. QED BY <1>3, <2>1, <2>9, <2>11, <2>12, ClientTimed
<1>. QED BY <1>4, <1>5

LEMMA QuietTimed ==
  ASSUME TInv, NEW c \in Clients, NEW cl, client' = [client EXCEPT ![c] = cl],
         UNCHANGED <<server, toServer, remaps>>, toClients' \subseteq toClients,
         remaps = 0 /\ ~cl.hasty => Timed(c)'
  PROVE  AgeInv' /\ TimeInv'
<1> DEFINE new == {}
<1>1. toServer' \subseteq toServer \cup new /\ \A d \in new : d.kind # "getchallenge" => d.qport = c
  OBVIOUS
<1> HIDE DEF new
<1>. QED BY <1>1, ClientTimed

LEMMA PacketTimed ==
  ASSUME Prompt, TInv, NEW d \in toClients, CL_PacketEvent(d)
  PROVE  AgeInv' /\ TimeInv'
<1>1. PICK c \in Clients : (remaps = 0 => c = d.port) /\ \E cl : Reacts(c, cl, d)
  BY PacketCases DEF TInv
<1>2. PICK cl : Reacts(c, cl, d)
  BY <1>1
<1>3. toClients' \subseteq toClients /\ UNCHANGED <<server, port, remaps>>
  BY PacketCases DEF TInv
<1>4. /\ cl \in ClientType /\ client' = [client EXCEPT ![c] = cl] /\ client'[c] = cl
      /\ client[c] \in ClientType
  BY <1>2 DEF Reacts, TInv, IInv, TypeInv
<1>5. /\ SlotsOf(c)' = SlotsOf(c) /\ ConnectResponses(c)' \subseteq ConnectResponses(c)
      /\ Gamestates(c)' \subseteq Gamestates(c) /\ \A e : Known(server', e) = Known(server, e)
  BY <1>3 DEF SlotsOf, ConnectResponses, Gamestates
<1>6. ASSUME UNCHANGED toServer
      PROVE  ConnectsOf(c)' = ConnectsOf(c) /\ MovesOf(c)' = MovesOf(c)
  BY <1>6 DEF ConnectsOf, MovesOf
<1>7. CASE GoesOn(client[c], cl, d) /\ UNCHANGED toServer
  <2>1. ASSUME remaps = 0, ~cl.hasty PROVE Timed(c)'
    <3>1. /\ Timed(c) /\ cl.state = client[c].state /\ cl.connectAge = client[c].connectAge
      BY <1>7, <2>1 DEF TInv, TimeInv, GoesOn, SameAttempt
    <3>2. \A e \in ConnectsOf(c)' : e \in ConnectsOf(c)
                                    /\ (Known(server', e) # {} => Known(server, e) # {})
      BY <1>5, <1>6, <1>7
    <3>3. CASE cl.serverId = client[c].serverId
      <4>1. /\ server'.instance = server.instance
            /\ \A i \in SlotsOf(c) : server'.slot[i] = server.slot[i]
        BY <1>3
      <4>. QED BY <1>4, <1>5, <1>6, <1>7, <3>1, <3>2, <3>3, <4>1, TimedKept
    <3>4. CASE /\ cl.state = "connected" /\ cl.serverId = d.serverId
               /\ d.kind = "message" /\ d.command = "gamestate"
      <4>1. d \in Gamestates(c)
        BY <1>1, <2>1, <3>4 DEF Gamestates
      <4>2. cl.serverId = server.instance \/ (\E m \in Gamestates(c)' : m.serverId = server.instance)
            => \E m \in Gamestates(c) : m.serverId = server.instance
        BY <1>5, <3>4, <4>1
      <4>3. Answered(c) /\ client[c].state = "connected"
        BY <3>1, <3>4 DEF Answered
      <4>4. \A e \in ConnectsOf(c)' : e.age = cl.connectAge
        BY <3>1, <3>2, <4>3 DEF Timed
      <4>5. \A e \in ConnectsOf(c)' : Known(server', e) # {} =>
              \E i \in SlotsOf(c)' : server'.slot[i].connectAge <= cl.connectAge
        BY <1>3, <1>5, <3>1, <3>2, <4>3 DEF Timed
      <4>6. cl.serverId = server'.instance \/ (\E m \in Gamestates(c)' : m.serverId = server'.instance)
            => \A i \in SlotsOf(c)' : server'.slot[i].state # "connected"
        BY <1>3, <1>5, <3>1, <4>2, <4>3 DEF Timed
      <4>. QED BY <1>4, <3>4, <4>4, <4>5, <4>6 DEF Timed
    <3>. QED BY <1>7, <3>3, <3>4 DEF GoesOn
  <2>. QED BY <1>3, <1>4, <1>7, <2>1, QuietTimed
<1>8. CASE IsChallenged(client[c], cl, d) /\ UNCHANGED toServer
  <2>1. ASSUME remaps = 0, ~cl.hasty PROVE Timed(c)'
    <3>1. Timed(c) /\ Agree(c) /\ client[c].state = "connecting" /\ cl.state = "challenging"
      BY <1>8, <2>1 DEF TInv, TimeInv, IInv, AgreeInv, IsChallenged
    <3>2. /\ ConnectsOf(c)' = {} /\ ConnectResponses(c)' = {}
          /\ MovesOf(c)' = {} /\ Gamestates(c)' = {}
      BY <1>5, <1>6, <1>8, <3>1 DEF Agree, Timed
    <3>. QED BY <1>4, <3>1, <3>2 DEF Timed, Answered
  <2>. QED BY <1>3, <1>4, <1>8, <2>1, QuietTimed
<1>9. CASE IsConnected(client[c], cl, d) /\ UNCHANGED toServer
  <2>1. ASSUME remaps = 0, ~cl.hasty PROVE Timed(c)'
    <3>1. /\ Timed(c) /\ client[c].state = "challenging" /\ cl.state = "connected"
          /\ cl.connectAge = client[c].connectAge /\ cl.serverId = client[c].serverId
      BY <1>9, <2>1 DEF TInv, TimeInv, IsConnected, SameAttempt
    <3>2. d \in ConnectResponses(c)
      BY <1>1, <1>9, <2>1 DEF ConnectResponses, IsConnected
    <3>3. Answered(c)
      BY <3>1, <3>2 DEF Answered
    <3>4. Gamestates(c)' = {}
      BY <1>5, <3>1 DEF Timed
    <3>5. cl.serverId # server'.instance
      BY <1>3, <3>1 DEF TInv, IInv, BoundInv
    <3>6. \A e \in ConnectsOf(c)' : e.age = cl.connectAge
      BY <1>6, <1>9, <3>1 DEF Timed
    <3>7. \A e \in ConnectsOf(c)' : Known(server', e) # {} =>
            \E i \in SlotsOf(c)' : server'.slot[i].connectAge <= cl.connectAge
      BY <1>3, <1>5, <1>6, <1>9, <3>1, <3>3 DEF Timed
    <3>. QED BY <1>4, <3>1, <3>4, <3>5, <3>6, <3>7 DEF Timed
  <2>. QED BY <1>3, <1>4, <1>9, <2>1, QuietTimed
<1>10. CASE Leaves(cl) /\ SentToServer({ClientMessage(port[c], c, [client[c] EXCEPT !.packetAge = 0], "disconnect")})
  <2> DEFINE was == [client[c] EXCEPT !.packetAge = 0]
             word == ClientMessage(port[c], c, was, "disconnect")
  <2>1. was \in ClientType
    BY <1>4, ConstantTypes DEF ClientType
  <2> HIDE DEF was
  <2>2. word \in Moves /\ word.kind = "message" /\ word.qport = c /\ word.port = port[c]
    BY <2>1, SaidByClient DEF TInv, IInv
  <2>3. SentToServer({word})
    BY <1>10 DEF was
  <2> HIDE DEF word
  <2>4. {word} \subseteq Moves /\ IsFiniteSet({word}) /\ \A e \in {word} : e.qport = c
    BY <2>2, FS_Singleton
  <2>5. cl.state = "disconnected"
    BY <1>10 DEF Leaves
  <2>. QED BY <1>3, <1>4, <2>3, <2>4, <2>5, LeaveTimed
<1>. QED BY <1>2, <1>7, <1>8, <1>9, <1>10 DEF Reacts

\* A tick: what is on its way is dead before the times it is compared with end.
LEMMA TickTimed ==
  ASSUME Prompt, TInv, Tick
  PROVE  AgeInv' /\ TimeInv'
<1>1. /\ Used(server') = Used(server) /\ server'.instance = server.instance
      /\ server'.table = server.table
      /\ \A c \in Clients :
           /\ client'[c].state = client[c].state /\ client'[c].hasty = client[c].hasty
           /\ client'[c].serverId = client[c].serverId
           /\ client'[c].connectAge = Lesser(client[c].connectAge + 1, RETRANSMIT_TIMEOUT)
      /\ \A i \in Used(server) :
              LET a == server.slot[i]  b == server'.slot[i]
              IN  /\ b.state = a.state /\ b.qport = a.qport
                  /\ b.connectAge = Lesser(a.connectAge + 1, sv_reconnectlimit)
                  /\ b.packetAge = Lesser(a.packetAge + 1, SlotPatience)
  BY TickEffect DEF TInv, SameAttempt
<1>2. /\ toServer' = Older(toServer) /\ toClients' = Older(toClients)
      /\ UNCHANGED <<port, remaps>>
  BY DEF Tick
<1>3. \A d \in toServer' : \E e \in toServer :
        /\ d.kind = e.kind /\ d.port = e.port /\ d.age = e.age + 1 /\ e.age < Life
        /\ e.kind # "getchallenge" => d.qport = e.qport
        /\ e.kind = "connect" => d.challenge = e.challenge
  BY <1>2, OlderRequests DEF TInv, IInv, TypeInv, ToServerOK
<1>4. \A d \in toClients' : \E e \in toClients :
        /\ d.kind = e.kind /\ d.port = e.port /\ d.age = e.age + 1 /\ e.age < Life
        /\ e.kind = "message" => d.serverId = e.serverId /\ d.command = e.command
  BY <1>2, OlderAnswers DEF TInv, IInv, TypeInv, ToClientsOK
<1>5. /\ \A d \in toServer : d.age \in Nat
      /\ \A d \in toClients : d.age \in Nat
      /\ \A c \in Clients : client[c].connectAge \in Nat
      /\ \A i \in Used(server) : server.slot[i].connectAge \in Nat /\ server.slot[i].packetAge \in Nat
  <2>1. \A d \in toServer : d.age \in Times
    BY DatagramTypes DEF TInv, IInv, TypeInv, ToServerOK
  <2>2. \A d \in toClients : d.age \in Times
    BY DatagramTypes DEF TInv, IInv, TypeInv, ToClientsOK
  <2>3. \A c \in Clients : client[c].connectAge \in Nat
    BY ConstantTypes DEF TInv, IInv, TypeInv, ClientType
  <2>4. \A i \in Used(server) : server.slot[i].connectAge \in Nat /\ server.slot[i].packetAge \in Nat
    BY ConstantTypes DEF TInv, IInv, TypeInv, ServerOK, ServerType, SlotType, Used
  <2>. QED BY <2>1, <2>2, <2>3, <2>4, ConstantTypes DEF Times
<1>6. AgeInv'
  <2> SUFFICES ASSUME remaps = 0, NEW i \in Used(server), server'.slot[i].connectAge < sv_reconnectlimit
               PROVE  server'.slot[i].packetAge <= server'.slot[i].connectAge
    BY <1>1, <1>2 DEF AgeInv
  <2> DEFINE x == server.slot[i].connectAge
             y == server.slot[i].packetAge
  <2>1. /\ x \in Nat /\ y \in Nat /\ (x < sv_reconnectlimit => y <= x)
    BY <1>5 DEF TInv, AgeInv
  <2>2. /\ server'.slot[i].connectAge = Lesser(x + 1, sv_reconnectlimit)
        /\ server'.slot[i].packetAge = Lesser(y + 1, SlotPatience)
    BY <1>1
  <2> HIDE DEF x, y
  <2>. QED BY <2>1, <2>2, ConstantTypes DEF Lesser
<1>7. TimeInv'
  <2> SUFFICES ASSUME remaps = 0, NEW c \in Clients, ~client'[c].hasty PROVE Timed(c)'
    BY <1>2 DEF TimeInv
  <2>1. Timed(c)
    BY <1>1 DEF TInv, TimeInv
  <2> DEFINE old == client[c]
             x == client[c].connectAge
             y == client'[c].connectAge
  <2>2. /\ client'[c].state = client[c].state /\ client'[c].serverId = client[c].serverId
        /\ y = Lesser(x + 1, RETRANSMIT_TIMEOUT) /\ x \in Nat
    BY <1>1, <1>5
  <2>3. SlotsOf(c)' = SlotsOf(c)
    BY <1>1 DEF SlotsOf
  <2>4. \A d \in ConnectsOf(c)' : \E e \in ConnectsOf(c) :
          /\ d.age = e.age + 1 /\ e.age < Life /\ e.age \in Nat
          /\ Known(server', d) = Known(server, e)
    <3> SUFFICES ASSUME NEW d \in toServer', d.kind = "connect", d.qport = c
                 PROVE  \E e \in ConnectsOf(c) :
                          /\ d.age = e.age + 1 /\ e.age < Life /\ e.age \in Nat
                          /\ Known(server', d) = Known(server, e)
      BY DEF ConnectsOf
    <3>1. PICK e \in toServer : /\ d.kind = e.kind /\ d.port = e.port
                                /\ d.age = e.age + 1 /\ e.age < Life
                                /\ e.kind # "getchallenge" => d.qport = e.qport
                                /\ e.kind = "connect" => d.challenge = e.challenge
      BY <1>3
    <3>2. e \in ConnectsOf(c) /\ e.age \in Nat
      BY <1>5, <3>1 DEF ConnectsOf
    <3>3. d.port = e.port /\ d.challenge = e.challenge
      BY <3>1
    <3>4. Known(server', d) = Known(server, e)
      BY <1>1, <3>3 DEF Known
    <3>. QED BY <3>1, <3>2, <3>4
  <2>5. \A r \in ConnectResponses(c)' : \E e \in ConnectResponses(c) :
          r.age = e.age + 1 /\ e.age < Life /\ e.age \in Nat
    <3> SUFFICES ASSUME NEW r \in toClients', r.kind = "connectResponse", r.port = c
                 PROVE  \E e \in ConnectResponses(c) :
                          r.age = e.age + 1 /\ e.age < Life /\ e.age \in Nat
      BY DEF ConnectResponses
    <3>1. PICK e \in toClients : /\ r.kind = e.kind /\ r.port = e.port
                                 /\ r.age = e.age + 1 /\ e.age < Life
      BY <1>4
    <3>2. e \in ConnectResponses(c) /\ e.age \in Nat
      BY <1>5, <3>1 DEF ConnectResponses
    <3>. QED BY <3>1, <3>2
  <2>6. \A m \in Gamestates(c)' : \E e \in Gamestates(c) : m.serverId = e.serverId
    <3> SUFFICES ASSUME NEW m \in toClients', m.kind = "message", m.port = c, m.command = "gamestate"
                 PROVE  \E e \in Gamestates(c) : m.serverId = e.serverId
      BY DEF Gamestates
    <3>1. PICK e \in toClients : /\ m.kind = e.kind /\ m.port = e.port
                                 /\ e.kind = "message" => m.serverId = e.serverId /\ m.command = e.command
      BY <1>4
    <3>2. e \in Gamestates(c) /\ m.serverId = e.serverId
      BY <3>1 DEF Gamestates
    <3>. QED BY <3>2
  <2>7. MovesOf(c)' # {} => MovesOf(c) # {}
    <3> SUFFICES ASSUME NEW d \in toServer', d.kind = "message", d.qport = c PROVE MovesOf(c) # {}
      BY DEF MovesOf
    <3>1. PICK e \in toServer : /\ d.kind = e.kind /\ (e.kind # "getchallenge" => d.qport = e.qport)
      BY <1>3
    <3>2. e \in MovesOf(c)
      BY <3>1 DEF MovesOf
    <3>. QED BY <3>2
  <2>8. Answered(c)' => Answered(c)
    BY <2>2, <2>5 DEF Answered
  <2>9. old.state \in {"connecting", "challenging"} => MovesOf(c)' = {} /\ Gamestates(c)' = {}
    BY <2>1, <2>6, <2>7 DEF Timed
  <2>10. ASSUME old.state \in {"challenging", "connected"}, NEW d \in ConnectsOf(c)',
                NEW e \in ConnectsOf(c), d.age = e.age + 1, e.age < Life, e.age \in Nat
         PROVE  e.age = x /\ d.age = y /\ y = x + 1
    <3>1. e.age = x
      BY <2>1, <2>10 DEF Timed
    <3>2. y = x + 1
      BY <2>2, <2>10, <3>1, ConstantTypes DEF Lesser, Prompt
    <3>. QED BY <2>10, <3>1, <3>2
  <2>11. old.state \in {"challenging", "connected"} => \A d \in ConnectsOf(c)' : d.age = y
    BY <2>4, <2>10
  <2>12. old.state = "challenging" => \A r \in ConnectResponses(c)' : r.age <= y /\ y <= r.age + Life
    <3> SUFFICES ASSUME old.state = "challenging", NEW r \in ConnectResponses(c)'
                 PROVE  r.age <= y /\ y <= r.age + Life
      OBVIOUS
    <3>1. PICK e \in ConnectResponses(c) : r.age = e.age + 1 /\ e.age < Life /\ e.age \in Nat
      BY <2>5
    <3>2. e.age <= x /\ x <= e.age + Life
      BY <2>1 DEF Timed
    <3>3. y = Lesser(x + 1, RETRANSMIT_TIMEOUT) /\ x \in Nat
      BY <2>2
    <3> HIDE DEF x, y, old
    <3>. QED BY <3>1, <3>2, <3>3, ConstantTypes DEF Lesser, Prompt
  <2>13. ASSUME Answered(c)', NEW d \in ConnectsOf(c)', Known(server', d) # {}
         PROVE  \E i \in SlotsOf(c)' : server'.slot[i].connectAge <= y
    <3>1. PICK e \in ConnectsOf(c) : /\ d.age = e.age + 1 /\ e.age < Life /\ e.age \in Nat
                                     /\ Known(server', d) = Known(server, e)
      BY <2>4
    <3>2. PICK i \in SlotsOf(c) : server.slot[i].connectAge <= x
      BY <2>1, <2>8, <2>13, <3>1 DEF Timed
    <3>3. y = x + 1
      BY <2>8, <2>10, <2>13, <3>1 DEF Answered
    <3>4. i \in Used(server) /\ server.slot[i].connectAge \in Nat
      BY <1>5 DEF SlotsOf
    <3>5. server'.slot[i].connectAge = Lesser(server.slot[i].connectAge + 1, sv_reconnectlimit)
      BY <1>1, <3>4
    <3>6. server'.slot[i].connectAge <= y
      BY <2>2, <3>2, <3>3, <3>4, <3>5, ConstantTypes DEF Lesser
    <3>. QED BY <2>3, <3>6
  <2>14. ASSUME old.state = "connected",
                \/ old.serverId = server'.instance
                \/ \E m \in Gamestates(c)' : m.serverId = server'.instance,
                NEW i \in SlotsOf(c)'
         PROVE  server'.slot[i].state # "connected"
    <3>1. i \in SlotsOf(c) /\ i \in Used(server)
      BY <2>3 DEF SlotsOf
    <3>2. old.serverId = server.instance \/ \E m \in Gamestates(c) : m.serverId = server.instance
      BY <1>1, <2>6, <2>14
    <3>3. server.slot[i].state # "connected"
      BY <2>1, <2>14, <3>1, <3>2 DEF Timed
    <3>. QED BY <1>1, <3>1, <3>3
  <2> HIDE DEF y
  <2>15. client'[c].connectAge = y
    BY DEF y
  <2>. QED BY <2>2, <2>9, <2>11, <2>12, <2>13, <2>14, <2>15 DEF Timed
<1>. QED BY <1>6, <1>7

LEMMA InitTimed == Init => AgeInv /\ TimeInv
<1> SUFFICES ASSUME Init PROVE AgeInv /\ TimeInv
  OBVIOUS
<1>1. Used(server) = {}
  BY NewServerOK DEF Init
<1>2. \A c \in Clients : client[c].state = "disconnected"
  BY DEF Init, NeverConnected, NewClient
<1>. QED BY <1>1, <1>2 DEF AgeInv, TimeInv, Timed, Answered

LEMMA StepTimed ==
  ASSUME Prompt, TInv, [Next]_vars
  PROVE  TInv'
<1>0. IInv /\ IInv'
  BY StepPreserves DEF TInv
<1>1. ASSUME NEW c \in Clients, Connect(c) \/ Disconnect(c) \/ Crash(c) \/ CL_Frame(c)
      PROVE  AgeInv' /\ TimeInv'
  BY <1>1, ConnectTimed, LeavingTimed, ClientFrameTimed
<1>2. ASSUME NEW d \in toServer, SV_PacketEvent(d) PROVE AgeInv' /\ TimeInv'
  <2>1. /\ UNCHANGED <<client, port, remaps>>
        /\ remaps = 0 => \/ Calm
                         \/ \E i \in Slots, denied \in BOOLEAN :
                              d.kind = "connect" /\ Filled(i, d, denied)
    BY <1>0, <1>2, ServerPacketKeeps
  <2>2. CASE remaps # 0
    BY <2>1, <2>2 DEF AgeInv, TimeInv
  <2>3. CASE Calm
    BY <1>0, <2>1, <2>3, CalmTimed
  <2>4. CASE \E i \in Slots, denied \in BOOLEAN : d.kind = "connect" /\ Filled(i, d, denied)
    BY <2>4, FilledTimed
  <2>. QED BY <2>1, <2>2, <2>3, <2>4
<1>3. ASSUME NEW d \in toClients, CL_PacketEvent(d) PROVE AgeInv' /\ TimeInv'
  BY <1>3, PacketTimed
<1>4. ASSUME NEW k \in Entries, NEW accepted \in BOOLEAN, SV_AuthorizeIpPacket(k, accepted)
      PROVE  AgeInv' /\ TimeInv'
  <2>1. Calm /\ UNCHANGED <<client, port, remaps>>
    BY <1>0, <1>4, AuthorizeKeeps DEF SV_AuthorizeIpPacket
  <2>. QED BY <1>0, <2>1, CalmTimed
<1>5. ASSUME SV_Frame PROVE AgeInv' /\ TimeInv'
  <2>1. Calm /\ UNCHANGED <<client, port, remaps>>
    BY <1>0, <1>5, FrameKeeps DEF SV_Frame
  <2>. QED BY <1>0, <2>1, CalmTimed
<1>6. ASSUME NEW i \in Slots, Kick(i) PROVE AgeInv' /\ TimeInv'
  <2>1. Calm /\ UNCHANGED <<client, port, remaps>>
    BY <1>0, <1>6, KickKeeps DEF Kick
  <2>. QED BY <1>0, <2>1, CalmTimed
<1>7. ASSUME NEW announced \in BOOLEAN, Restart(announced) PROVE AgeInv' /\ TimeInv'
  <2>1. Calm /\ UNCHANGED <<client, port, remaps>>
    BY <1>0, <1>7, RestartKeeps DEF Restart
  <2>. QED BY <1>0, <2>1, CalmTimed
<1>8. ASSUME NEW c \in Clients, NEW d \in Clients, NatRemap(c, d) PROVE AgeInv' /\ TimeInv'
  <2>1. remaps' # 0
    BY <1>0, <1>8, NatRemapKeeps
  <2>. QED BY <2>1 DEF AgeInv, TimeInv
<1>9. ASSUME Tick PROVE AgeInv' /\ TimeInv'
  BY <1>9, TickTimed
<1>10. ASSUME UNCHANGED vars PROVE AgeInv' /\ TimeInv'
  <2>1. UNCHANGED <<client, server, port, toServer, toClients, remaps>>
    BY <1>10 DEF vars
  <2>2. AgeInv'
    BY <2>1 DEF TInv, AgeInv
  <2>3. ASSUME NEW c \in Clients, Timed(c) PROVE Timed(c)'
    BY <2>1, <2>3 DEF Timed, Answered, MovesOf, Gamestates, ConnectsOf, ConnectResponses, SlotsOf, Known
  <2>. QED BY <2>1, <2>2, <2>3 DEF TInv, TimeInv
<1>11. AgeInv' /\ TimeInv'
  BY <1>1, <1>2, <1>3, <1>4, <1>5, <1>6, <1>7, <1>8, <1>9, <1>10 DEF Next
<1>. QED BY <1>0, <1>11 DEF TInv

\* A slot is not begun anew under a client that is in its game, as long as datagrams die
\* soon enough and the translator leaves the ports alone (SV_DirectConnect, which has only
\* the time since the last connect to tell a late one by).
THEOREM InGameNotBegunAnew ==
  ASSUME Prompt
  PROVE  Spec => []NotBegunAnew
<1>1. Init => TInv
  BY InitEstablishes, InitTimed DEF TInv
<1>2. TInv /\ [Next]_vars => TInv'
  BY StepTimed
<1>3. TInv => NotBegunAnew
  <2> SUFFICES ASSUME TInv, remaps = 0, NEW c \in Clients, NEW i \in Connected(server),
                      client[c].state = "connected", client[c].serverId = server.instance,
                      ~client[c].hasty, server.slot[i].qport = c
               PROVE  server.slot[i].state # "connected"
    BY DEF NotBegunAnew
  <2>1. Timed(c)
    BY DEF TInv, TimeInv
  <2>2. i \in SlotsOf(c)
    BY DEF SlotsOf, Used, Connected
  <2>. QED BY <2>1, <2>2 DEF Timed
<1>. QED BY <1>1, <1>2, <1>3, PTL DEF Spec

=============================================================================
