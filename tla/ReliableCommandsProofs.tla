----------------------- MODULE ReliableCommandsProofs -----------------------
(***************************************************************************)
(* Proofs about the two streams of reliable commands, for every size of    *)
(* the rings and any number of commands.                                   *)
(***************************************************************************)
EXTENDS ReliableCommands, SequenceTheorems, WellFoundedInduction, TLAPS

USE ReliableAssumption

-----------------------------------------------------------------------------
(* Smallest and largest numbers.                                            *)

LEMMA MinIs ==
  ASSUME NEW S \in SUBSET Nat, S # {}
  PROVE  Min(S) \in S /\ \A y \in S : Min(S) <= y
<1> DEFINE R == OpToRel(<, Nat)
<1>1. IsWellFoundedOn(R, Nat)
  BY NatLessThanWellFounded
<1>2. \A x, y \in Nat : x < y => <<x, y>> \in R
  BY DEF OpToRel
<1> HIDE DEF R
<1>3. PICK x \in S : \A y \in S : ~(<<y, x>> \in R)
  BY <1>1, WFMin, Zenon
<1>4. ASSUME NEW y \in S PROVE x <= y
  <2>1. x \in Nat /\ y \in Nat
    OBVIOUS
  <2>2. ~(y < x)
    BY <1>2, <1>3, <2>1, Zenon
  <2>. QED BY <2>1, <2>2
<1>5. \E z \in S : \A y \in S : z <= y
  BY <1>4
<1>. QED BY <1>5, Zenon DEF Min

LEMMA MaxIs ==
  ASSUME NEW S \in SUBSET Int, NEW x \in S, \A y \in S : y <= x
  PROVE  Max(S) = x
<1>1. \A y \in S : x >= y
  OBVIOUS
<1>2. \E z \in S : \A y \in S : z >= y
  BY <1>1
<1>3. Max(S) \in S /\ \A y \in S : Max(S) >= y
  BY <1>2, Zenon DEF Max
<1> DEFINE z == Max(S)
<1> HIDE DEF z
<1>4. z \in S /\ z >= x
  BY <1>3 DEF z
<1>5. z <= x /\ z \in Int /\ x \in Int
  BY <1>4
<1>. QED BY <1>4, <1>5 DEF z
-----------------------------------------------------------------------------
(* The place of a number in a ring.                                         *)

LEMMA Division ==
  ASSUME NEW a \in Int, NEW L \in Nat \ {0}
  PROVE  a = L * (a \div L) + (a % L) /\ a \div L \in Int /\ a % L \in 0 .. L - 1
OBVIOUS

LEMMA MultiplesApart ==
  ASSUME NEW x \in Int, NEW y \in Int, NEW L \in Nat \ {0}, x < y
  PROVE  L * x + L <= L * y
OBVIOUS

LEMMA RemainderUnique ==
  ASSUME NEW q \in Int, NEW L \in Nat \ {0}, NEW r \in 0 .. L - 1
  PROVE  (L * q + r) % L = r
OBVIOUS

LEMMA IndexInRing ==
  ASSUME NEW n \in Int
  PROVE  Index(n) \in 0 .. MAX_RELIABLE_COMMANDS - 1
BY Division DEF Index

\* Two numbers less than a ring apart have different places.
LEMMA SameIndex ==
  ASSUME NEW a \in Int, NEW b \in Int, Index(a) = Index(b),
         a < b + MAX_RELIABLE_COMMANDS, b < a + MAX_RELIABLE_COMMANDS
  PROVE  a = b
<1> DEFINE L == MAX_RELIABLE_COMMANDS  x == a \div L  y == b \div L  r == a % L
<1>1. L \in Nat \ {0} /\ a < b + L /\ b < a + L
  OBVIOUS
<1> HIDE DEF L
<1>2. a = L * x + r /\ x \in Int /\ r \in 0 .. L - 1 /\ b = L * y + r /\ y \in Int
  BY <1>1, Division DEF Index, L
<1> HIDE DEF x, y, r
<1>3. ~(x < y) /\ ~(y < x)
  BY <1>1, <1>2, MultiplesApart
<1>. QED BY <1>2, <1>3

\* Among as many numbers in a row as the ring has places there is one for each.
LEMMA IndexInRow ==
  ASSUME NEW i \in 0 .. MAX_RELIABLE_COMMANDS - 1, NEW n \in Int
  PROVE  \E j \in n - MAX_RELIABLE_COMMANDS + 1 .. n : Index(j) = i
<1> DEFINE L == MAX_RELIABLE_COMMANDS  q == (n - i) \div L  r == (n - i) % L
<1>1. L \in Nat \ {0} /\ i \in 0 .. L - 1
  OBVIOUS
<1> HIDE DEF L
<1>2. n - i = L * q + r /\ q \in Int /\ r \in 0 .. L - 1
  BY <1>1, Division
<1> HIDE DEF q, r
<1>3. n - r = L * q + i /\ n - r \in n - L + 1 .. n
  BY <1>1, <1>2
<1>4. (n - r) % L = i
  BY <1>1, <1>2, <1>3, RemainderUnique
<1>. QED BY <1>3, <1>4 DEF Index, L

-----------------------------------------------------------------------------
(* The invariant.                                                           *)

Places == 0 .. MAX_RELIABLE_COMMANDS - 1
ClientStrings == AddedCommands \cup {0}
ServerTexts == ServerStrings \cup {0}
ServerSequences == 0 .. MaxServerSequence
ClientSequences == 0 .. MaxClientCommands

\* The text is the one the server wrote under number n, if that is still in the ring.
IsServerText(n, text) ==
  server.reliableSequence - n < MAX_RELIABLE_COMMANDS =>
    text = server.reliableCommands[Index(n)]

\* The client's ring holds its last commands; what it has of the server's is what the
\* server said, until the server drops it.
ClientInv ==
  /\ client \in [up : BOOLEAN,
        reliableSequence : ClientSequences, reliableAcknowledge : ClientSequences,
        reliableCommands : [Places -> ClientStrings],
        serverCommandSequence : ServerSequences,
        serverCommands : [Places -> ServerTexts],
        lastExecutedServerCommand : ServerSequences,
        serverCommandNum : ServerSequences]
  /\ client.reliableAcknowledge <= client.reliableSequence
  /\ ~overwrote => /\ Outstanding(client) <= MAX_RELIABLE_COMMANDS
                   /\ client.reliableAcknowledge <= server.lastClientCommand
  /\ \A n \in 0 .. client.reliableSequence :
       client.reliableSequence - n < MAX_RELIABLE_COMMANDS =>
         client.reliableCommands[Index(n)] = n
  /\ client.lastExecutedServerCommand <= client.serverCommandNum
  /\ client.serverCommandNum <= client.serverCommandSequence
  /\ client.serverCommandSequence <= server.reliableSequence
  /\ IsServerText(client.serverCommandSequence,
                  client.serverCommands[Index(client.serverCommandSequence)])
  /\ ~server.zombie =>
       \A n \in 1 .. client.serverCommandSequence :
         client.serverCommandSequence - n < MAX_RELIABLE_COMMANDS =>
           client.serverCommands[Index(n)] = server.said[n]

ServerRecord(s) ==
  /\ s \in [zombie : BOOLEAN,
        reliableSequence : Nat, reliableAcknowledge : Nat,
        reliableCommands : [Places -> ServerTexts],
        lastClientCommand : Nat, lastClientCommandString : Nat,
        said : Seq(ServerStrings), drops : Nat]
  /\ Len(s.said) = s.reliableSequence

\* The ring holds the last commands said, and no more of them are unacknowledged than
\* it has room for.
Connected(s) ==
  /\ Outstanding(s) <= MAX_RELIABLE_COMMANDS
  /\ \A n \in 1 .. s.reliableSequence :
       s.reliableSequence - n < MAX_RELIABLE_COMMANDS => s.reliableCommands[Index(n)] = s.said[n]

\* Until the server drops the client, its ring holds the last commands it said, and no
\* more are unacknowledged than the ring has room for.  The text it decodes with is the
\* number it acknowledges, even if the client has overwritten commands: the last command
\* of a message is never overwritten.
ServerInv ==
  /\ ServerRecord(server)
  /\ server.reliableSequence <= MaxServerSequence /\ server.drops <= 2
  /\ server.lastClientCommand \in ClientSequences
  /\ server.reliableAcknowledge <= client.serverCommandSequence
  /\ server.lastClientCommand <= client.reliableSequence
  /\ server.lastClientCommandString = server.lastClientCommand
  /\ ~server.zombie => /\ server.reliableSequence <= MaxServerCommands
                      /\ server.drops = 0
                      /\ Connected(server)

\* What was executed of either stream.
HeardInv ==
  /\ heard \in Seq(ServerTexts) /\ Len(heard) = client.lastExecutedServerCommand
  /\ ~server.zombie => \A n \in 1 .. Len(heard) : heard[n] = server.said[n]
  /\ shown \in ServerSequences /\ shown <= client.serverCommandNum

ObeyedInv ==
  /\ obeyed \in Seq(ClientStrings) /\ Len(obeyed) = server.lastClientCommand
  /\ ~overwrote => \A n \in 1 .. Len(obeyed) : obeyed[n] = n
  /\ moved \in ClientSequences /\ (~overwrote => moved <= server.lastClientCommand)
  /\ overwrote \in BOOLEAN /\ outOfRange = FALSE

\* A client message repeats the commands from a on, all but lost ones of which the
\* server has those before, and the last of which is right in any case.
ToServerMessage(m) ==
  /\ m.needs \in 0 .. client.reliableSequence
  /\ m.acknowledge \in server.reliableAcknowledge .. client.serverCommandSequence
  /\ IsServerText(m.acknowledge, m.key)
  /\ \E a \in 0 .. m.needs :
       /\ m.commands \in [a + 1 .. m.needs -> ClientStrings]
       /\ a < m.needs => m.commands[m.needs] = m.needs
       /\ ~overwrote => /\ a <= server.lastClientCommand
                        /\ \A n \in a + 1 .. m.needs : m.commands[n] = n

\* A server message, likewise.
ToClientMessage(m) ==
  /\ m.needs \in 0 .. server.reliableSequence
  /\ m.acknowledge \in 0 .. server.lastClientCommand
  /\ ~overwrote => client.reliableAcknowledge <= m.acknowledge
  /\ m.key = m.acknowledge
  /\ \E a \in 0 .. m.needs :
       /\ m.commands \in [a + 1 .. m.needs -> ServerTexts]
       /\ a <= client.serverCommandSequence
       /\ a < m.needs => IsServerText(m.needs, m.commands[m.needs])
       /\ ~server.zombie => \A n \in a + 1 .. m.needs : m.commands[n] = server.said[n]

InOrder(messages) ==
  \A i, j \in 1 .. Len(messages) : i < j => messages[i].acknowledge <= messages[j].acknowledge

CommandsInRow(Sequences, Texts) ==
  UNION {UNION {[a + 1 .. n -> Texts] : n \in Sequences} : a \in Sequences}

Messages(Sequences, Texts) ==
  [acknowledge : Int, key : Int, needs : Sequences, commands : CommandsInRow(Sequences, Texts)]

MessagesInv ==
  /\ toServer \in Seq(Messages(ClientSequences, ClientStrings)) /\ Len(toServer) <= Capacity
  /\ toClient \in Seq(Messages(ServerSequences, ServerTexts)) /\ Len(toClient) <= Capacity
  /\ \A i \in 1 .. Len(toServer) : ToServerMessage(toServer[i])
  /\ \A i \in 1 .. Len(toClient) : ToClientMessage(toClient[i])
  /\ InOrder(toServer) /\ InOrder(toClient)

IInv == ClientInv /\ ServerInv /\ HeardInv /\ ObeyedInv /\ MessagesInv
-----------------------------------------------------------------------------
(* The server adds commands.                                                *)

\* t is s after it added at most k commands and dropped the client at most d times.
Grown(s, t, k, d) ==
  /\ ServerRecord(t)
  /\ s.reliableSequence <= t.reliableSequence /\ t.reliableSequence <= s.reliableSequence + k
  /\ t.drops <= s.drops + d
  /\ s.zombie => t.zombie
  /\ \A n \in 0 .. s.reliableSequence :
       t.reliableSequence - n < MAX_RELIABLE_COMMANDS =>
         t.reliableCommands[Index(n)] = s.reliableCommands[Index(n)]
  /\ \A n \in 1 .. s.reliableSequence : t.said[n] = s.said[n]

\* The server has not yet received anything new.
SameReceived(s, t) ==
  /\ t.reliableAcknowledge = s.reliableAcknowledge
  /\ t.lastClientCommand = s.lastClientCommand
  /\ t.lastClientCommandString = s.lastClientCommandString

LEMMA GrownSelf ==
  ASSUME NEW s, ServerRecord(s)
  PROVE  Grown(s, s, 0, 0) /\ SameReceived(s, s)
BY DEF Grown, SameReceived, ServerRecord

LEMMA GrownTwice ==
  ASSUME NEW s, NEW t, NEW u, NEW k \in Nat, NEW l \in Nat, NEW d \in Nat, NEW e \in Nat,
         ServerRecord(s), Grown(s, t, k, d), Grown(t, u, l, e),
         SameReceived(s, t), SameReceived(t, u)
  PROVE  Grown(s, u, k + l, d + e) /\ SameReceived(s, u)
<1> DEFINE a == s.reliableSequence  b == t.reliableSequence  c == u.reliableSequence
<1>1. /\ a \in Nat /\ b \in Nat /\ c \in Nat /\ a <= b /\ b <= c
      /\ b <= a + k /\ c <= b + l
      /\ s.drops \in Nat /\ t.drops \in Nat /\ u.drops \in Nat
      /\ t.drops <= s.drops + d /\ u.drops <= t.drops + e
  BY DEF Grown, ServerRecord
<1>2. ASSUME NEW n \in 0 .. a, c - n < MAX_RELIABLE_COMMANDS
      PROVE  u.reliableCommands[Index(n)] = s.reliableCommands[Index(n)]
  <2>1. n \in 0 .. b /\ b - n < MAX_RELIABLE_COMMANDS
    BY <1>1, <1>2
  <2>. QED BY <1>2, <2>1 DEF Grown
<1>3. \A n \in 1 .. a : u.said[n] = s.said[n]
  <2>1. \A n \in 1 .. a : n \in 1 .. b
    BY <1>1
  <2>. QED BY <2>1 DEF Grown
<1>4. a <= c /\ c <= a + (k + l) /\ u.drops <= s.drops + (d + e)
  BY <1>1
<1>5. ServerRecord(u) /\ (s.zombie => u.zombie)
  BY Zenon DEF Grown
<1>6. SameReceived(s, u)
  BY DEF SameReceived
<1>. QED BY <1>2, <1>3, <1>4, <1>5, <1>6, Zenon DEF Grown

\* A command is numbered, but does not fit.
LEMMA NumberedGrows ==
  ASSUME NEW s, ServerRecord(s), NEW string \in ServerStrings
  PROVE  LET t == Numbered(Asked(s, string)) IN
         /\ Grown(s, t, 1, 0) /\ SameReceived(s, t)
         /\ t.zombie = s.zombie /\ t.reliableSequence = s.reliableSequence + 1
<1> DEFINE t == Numbered(Asked(s, string))
<1>1. s \in [zombie : BOOLEAN,
             reliableSequence : Nat, reliableAcknowledge : Nat,
             reliableCommands : [Places -> ServerTexts],
             lastClientCommand : Nat, lastClientCommandString : Nat,
             said : Seq(ServerStrings), drops : Nat]
      /\ Len(s.said) = s.reliableSequence
  BY DEF ServerRecord
<1>2. /\ Append(s.said, string) \in Seq(ServerStrings)
      /\ Len(Append(s.said, string)) = Len(s.said) + 1
      /\ \A n \in 1 .. Len(s.said) : Append(s.said, string)[n] = s.said[n]
  BY <1>1, AppendProperties
<1>3. /\ t.zombie = s.zombie /\ t.reliableSequence = s.reliableSequence + 1
      /\ t.reliableAcknowledge = s.reliableAcknowledge
      /\ t.reliableCommands = s.reliableCommands
      /\ t.lastClientCommand = s.lastClientCommand
      /\ t.lastClientCommandString = s.lastClientCommandString
      /\ t.said = Append(s.said, string) /\ t.drops = s.drops
      /\ t \in [zombie : BOOLEAN,
             reliableSequence : Nat, reliableAcknowledge : Nat,
             reliableCommands : [Places -> ServerTexts],
             lastClientCommand : Nat, lastClientCommandString : Nat,
             said : Seq(ServerStrings), drops : Nat]
  <2>1. t = [s EXCEPT !.said = Append(s.said, string), !.reliableSequence = s.reliableSequence + 1]
    BY <1>1 DEF Numbered, Asked
  <2>2. s.reliableSequence + 1 \in Nat
    BY <1>1
  <2> HIDE DEF t
  <2>. QED BY <1>1, <1>2, <2>1, <2>2, Zenon
<1> HIDE DEF t
<1>4. ServerRecord(t)
  BY <1>1, <1>2, <1>3 DEF ServerRecord
<1>5. s.reliableSequence <= t.reliableSequence /\ t.drops <= s.drops + 0
  BY <1>1, <1>3
<1>6. t.reliableSequence <= s.reliableSequence + 1
  BY <1>1, <1>3
<1>7. Grown(s, t, 1, 0)
  BY <1>1, <1>2, <1>3, <1>4, <1>5, <1>6 DEF Grown
<1>. QED BY <1>3, <1>7 DEF t, SameReceived

\* A command is numbered and written to the ring.
LEMMA StoredGrows ==
  ASSUME NEW s, ServerRecord(s), NEW string \in ServerStrings
  PROVE  LET t == Stored(Asked(s, string), string) IN
         /\ Grown(s, t, 1, 0) /\ SameReceived(s, t)
         /\ t.zombie = s.zombie /\ t.reliableSequence = s.reliableSequence + 1
         /\ t.drops = s.drops
         /\ t.reliableCommands[Index(s.reliableSequence + 1)] = string
         /\ t.said[s.reliableSequence + 1] = string
<1> DEFINE u == Numbered(Asked(s, string))  t == Written(u, string)  r == s.reliableSequence
<1>1. /\ Grown(s, u, 1, 0) /\ SameReceived(s, u)
      /\ u.zombie = s.zombie /\ u.reliableSequence = r + 1
  BY NumberedGrows
<1>2. r \in Nat /\ s.said \in Seq(ServerStrings) /\ Len(s.said) = r /\ s.drops \in Nat
  BY DEF ServerRecord
<1>3. /\ u.said = Append(s.said, string) /\ u.drops = s.drops
      /\ u.reliableCommands = s.reliableCommands
  BY DEF ServerRecord, Numbered, Asked
<1>4. u.said[r + 1] = string
  BY <1>2, <1>3, AppendProperties
<1>5. /\ u \in [zombie : BOOLEAN,
             reliableSequence : Nat, reliableAcknowledge : Nat,
             reliableCommands : [Places -> ServerTexts],
             lastClientCommand : Nat, lastClientCommandString : Nat,
             said : Seq(ServerStrings), drops : Nat]
      /\ Len(u.said) = u.reliableSequence
  BY <1>1 DEF Grown, ServerRecord
<1> HIDE DEF u
<1>6. Index(r + 1) \in Places /\ string \in ServerTexts
  <2>1. r + 1 \in Int
    BY <1>2
  <2> DEFINE k == r + 1
  <2> HIDE DEF k
  <2>2. k \in Int => Index(k) \in Places
    BY IndexInRing, Zenon DEF Places
  <2>3. string \in ServerTexts
    BY Zenon DEF ServerTexts
  <2>. QED BY <2>1, <2>2, <2>3, Zenon DEF k
<1>7. /\ t.zombie = s.zombie /\ t.reliableSequence = r + 1
      /\ t.reliableAcknowledge = u.reliableAcknowledge
      /\ t.reliableCommands = [u.reliableCommands EXCEPT ![Index(r + 1)] = string]
      /\ t.lastClientCommand = u.lastClientCommand
      /\ t.lastClientCommandString = u.lastClientCommandString
      /\ t.said = u.said /\ t.drops = u.drops
      /\ t \in [zombie : BOOLEAN,
             reliableSequence : Nat, reliableAcknowledge : Nat,
             reliableCommands : [Places -> ServerTexts],
             lastClientCommand : Nat, lastClientCommandString : Nat,
             said : Seq(ServerStrings), drops : Nat]
  <2>1. t = [u EXCEPT !.reliableCommands = [u.reliableCommands EXCEPT ![Index(r + 1)] = string]]
    BY <1>1, <1>5 DEF Written
  <2>2. [u.reliableCommands EXCEPT ![Index(r + 1)] = string] \in [Places -> ServerTexts]
    BY <1>5, <1>6
  <2> HIDE DEF t
  <2>. QED BY <1>1, <1>5, <2>1, <2>2, Zenon
<1> HIDE DEF t
<1>8. ServerRecord(t)
  BY <1>1, <1>5, <1>7 DEF ServerRecord
<1>9. ASSUME NEW n \in 0 .. r, (r + 1) - n < MAX_RELIABLE_COMMANDS
      PROVE  t.reliableCommands[Index(n)] = s.reliableCommands[Index(n)]
  <2>1. Index(n) \in Places
    BY IndexInRing DEF Places
  <2>2. /\ n \in Int /\ r + 1 \in Int /\ n # r + 1
        /\ n < (r + 1) + MAX_RELIABLE_COMMANDS /\ r + 1 < n + MAX_RELIABLE_COMMANDS
    BY <1>2, <1>9
  <2>3. Index(n) # Index(r + 1)
    BY <2>2, SameIndex, Zenon
  <2>. QED BY <1>3, <1>5, <1>7, <2>1, <2>3
<1>10. r <= r + 1 /\ r + 1 <= r + 1 /\ t.drops <= s.drops + 0
  BY <1>2, <1>3, <1>7
<1>11. \A n \in 1 .. r : t.said[n] = s.said[n]
  BY <1>1, <1>7 DEF Grown
<1>12. Grown(s, t, 1, 0)
  BY <1>7, <1>8, <1>9, <1>10, <1>11, Zenon DEF Grown
<1>13. t.reliableCommands[Index(r + 1)] = string
  BY <1>5, <1>6, <1>7
<1>14. SameReceived(s, t)
  BY <1>1, <1>7 DEF SameReceived
<1>15. t = Stored(Asked(s, string), string)
  BY DEF t, u, Stored
<1>. QED BY <1>3, <1>4, <1>7, <1>12, <1>13, <1>14, <1>15
LEMMA Strings ==
  /\ Disconnect \in ServerStrings /\ Notice \in ServerStrings
  /\ ServerTexts = ServerStrings \cup {0} /\ ServerStrings \subseteq ServerTexts
  /\ 0 \in ServerTexts /\ 0 \in ClientStrings
BY DEF ServerStrings, ServerTexts, ClientStrings

LEMMA AddedToDroppedGrows ==
  ASSUME NEW s, ServerRecord(s), NEW string \in ServerStrings
  PROVE  LET t == AddedToDropped(s, string) IN
         Grown(s, t, 1, 0) /\ SameReceived(s, t) /\ t.zombie = s.zombie
BY NumberedGrows, StoredGrows DEF AddedToDropped

LEMMA DroppedGrows ==
  ASSUME NEW s, ServerRecord(s)
  PROVE  LET t == Dropped(s) IN
         Grown(s, t, 1, 1) /\ SameReceived(s, t) /\ t.zombie
<1> DEFINE u == [s EXCEPT !.zombie = TRUE, !.drops = @ + 1]
<1>1. /\ s \in [zombie : BOOLEAN,
             reliableSequence : Nat, reliableAcknowledge : Nat,
             reliableCommands : [Places -> ServerTexts],
             lastClientCommand : Nat, lastClientCommandString : Nat,
             said : Seq(ServerStrings), drops : Nat]
      /\ Len(s.said) = s.reliableSequence
  BY DEF ServerRecord
<1>2. s.drops + 1 \in Nat /\ s.drops + 1 <= s.drops + 1
  BY <1>1
<1>3. /\ u.zombie /\ u.drops = s.drops + 1
      /\ u.reliableSequence = s.reliableSequence
      /\ u.reliableAcknowledge = s.reliableAcknowledge
      /\ u.reliableCommands = s.reliableCommands
      /\ u.lastClientCommand = s.lastClientCommand
      /\ u.lastClientCommandString = s.lastClientCommandString
      /\ u.said = s.said
      /\ u \in [zombie : BOOLEAN,
             reliableSequence : Nat, reliableAcknowledge : Nat,
             reliableCommands : [Places -> ServerTexts],
             lastClientCommand : Nat, lastClientCommandString : Nat,
             said : Seq(ServerStrings), drops : Nat]
  BY <1>1, <1>2, Zenon
<1>4. Dropped(s) = AddedToDropped(u, Disconnect)
  BY DEF Dropped
<1> HIDE DEF u
<1>5. ServerRecord(u)
  BY <1>1, <1>3 DEF ServerRecord
<1>6. Grown(s, u, 0, 1) /\ SameReceived(s, u)
  BY <1>1, <1>2, <1>3, <1>5 DEF Grown, SameReceived
<1>7. PICK t : t = Dropped(s)
  OBVIOUS
<1>8. Grown(u, t, 1, 0) /\ SameReceived(u, t) /\ t.zombie = u.zombie
  BY <1>4, <1>5, <1>7, Strings, AddedToDroppedGrows
<1>9. Grown(s, t, 0 + 1, 1 + 0) /\ SameReceived(s, t)
  BY <1>6, <1>8, GrownTwice
<1>. QED BY <1>3, <1>7, <1>8, <1>9

LEMMA DroppedForOverflowGrows ==
  ASSUME NEW s, ServerRecord(s)
  PROVE  LET t == DroppedForOverflow(s) IN
         Grown(s, t, 2, 1) /\ SameReceived(s, t) /\ t.zombie
<1>1. PICK u : u = Stored(Asked(s, Notice), Notice)
  OBVIOUS
<1>2. Grown(s, u, 1, 0) /\ SameReceived(s, u)
  BY <1>1, Strings, StoredGrows
<1>3. PICK t : t = Dropped(u)
  OBVIOUS
<1>4. Grown(u, t, 1, 1) /\ SameReceived(u, t) /\ t.zombie
  BY <1>2, <1>3, DroppedGrows DEF Grown
<1>5. Grown(s, t, 1 + 1, 0 + 1) /\ SameReceived(s, t)
  BY <1>2, <1>4, GrownTwice
<1>. QED BY <1>1, <1>3, <1>4, <1>5 DEF DroppedForOverflow

LEMMA GrownMore ==
  ASSUME NEW s, NEW t, NEW k \in Nat, NEW d \in Nat, NEW l \in Nat, NEW e \in Nat,
         ServerRecord(s), Grown(s, t, k, d), k <= l, d <= e
  PROVE  Grown(s, t, l, e)
<1>1. /\ s.reliableSequence \in Nat /\ t.reliableSequence \in Nat
      /\ s.drops \in Nat /\ t.drops \in Nat
  BY DEF Grown, ServerRecord
<1>2. t.reliableSequence <= s.reliableSequence + k /\ t.drops <= s.drops + d
  BY DEF Grown
<1>3. t.reliableSequence <= s.reliableSequence + l /\ t.drops <= s.drops + e
  BY <1>1, <1>2
<1>. QED BY <1>3, Zenon DEF Grown

\* A client that is dropped is told of it at most twice, and at most four commands are
\* added for it.
LEMMA SV_DropClientGrows ==
  ASSUME NEW s, ServerRecord(s), ~s.zombie
  PROVE  LET t == SV_DropClient(s) IN
         Grown(s, t, 4, 2) /\ SameReceived(s, t) /\ t.zombie
<1>1. PICK u : u = IF ServerOverflows(s)
                   THEN DroppedForOverflow(Numbered(Asked(s, Notice)))
                   ELSE Stored(Asked(s, Notice), Notice)
  OBVIOUS
<1>2. Grown(s, u, 3, 1) /\ SameReceived(s, u)
  <2>1. CASE ServerOverflows(s)
    <3>1. PICK v : v = Numbered(Asked(s, Notice))
      OBVIOUS
    <3>2. Grown(s, v, 1, 0) /\ SameReceived(s, v)
      BY <3>1, Strings, NumberedGrows
    <3>3. Grown(v, u, 2, 1) /\ SameReceived(v, u)
      BY <1>1, <2>1, <3>1, <3>2, DroppedForOverflowGrows DEF Grown
    <3>4. Grown(s, u, 1 + 2, 0 + 1) /\ SameReceived(s, u)
      BY <3>2, <3>3, GrownTwice
    <3>. QED BY <3>4
  <2>2. CASE ~ServerOverflows(s)
    <3>1. Grown(s, u, 1, 0) /\ SameReceived(s, u)
      BY <1>1, <2>2, Strings, StoredGrows
    <3>. QED BY <3>1, GrownMore
  <2>. QED BY <2>1, <2>2
<1>3. PICK t : t = SV_DropClient(s)
  OBVIOUS
<1>4. t = Dropped(u)
  BY <1>1, <1>3 DEF SV_DropClient
<1>5. Grown(u, t, 1, 1) /\ SameReceived(u, t) /\ t.zombie
  BY <1>2, <1>4, DroppedGrows DEF Grown
<1>6. Grown(s, t, 3 + 1, 1 + 1) /\ SameReceived(s, t)
  BY <1>2, <1>5, GrownTwice
<1>. QED BY <1>3, <1>5, <1>6

\* A command that fits leaves the client connected; one that does not drops it.
LEMMA SV_AddServerCommandGrows ==
  ASSUME NEW s, ServerRecord(s), ~s.zombie, Connected(s), NEW string \in ServerStrings
  PROVE  LET t == SV_AddServerCommand(s, string) IN
         /\ Grown(s, t, 4, 2) /\ SameReceived(s, t)
         /\ ~t.zombie => /\ Connected(t) /\ t.drops = s.drops
                         /\ t.reliableSequence = s.reliableSequence + 1
<1>1. PICK t : t = SV_AddServerCommand(s, string)
  OBVIOUS
<1>2. CASE ServerOverflows(s)
  <2>1. PICK v : v = Numbered(Asked(s, string))
    OBVIOUS
  <2>2. Grown(s, v, 1, 0) /\ SameReceived(s, v)
    BY <2>1, NumberedGrows
  <2>3. t = DroppedForOverflow(v)
    BY <1>1, <1>2, <2>1 DEF SV_AddServerCommand
  <2>4. Grown(v, t, 2, 1) /\ SameReceived(v, t) /\ t.zombie
    BY <2>2, <2>3, DroppedForOverflowGrows DEF Grown
  <2>5. Grown(s, t, 1 + 2, 0 + 1) /\ SameReceived(s, t)
    BY <2>2, <2>4, GrownTwice
  <2>6. Grown(s, t, 4, 2)
    BY <2>5, GrownMore
  <2>. QED BY <1>1, <2>4, <2>5, <2>6
<1>3. CASE ~ServerOverflows(s)
  <2> DEFINE r == s.reliableSequence
  <2>1. t = Stored(Asked(s, string), string)
    BY <1>1, <1>3 DEF SV_AddServerCommand, AddedToDropped
  <2>2. /\ Grown(s, t, 1, 0) /\ SameReceived(s, t)
        /\ t.zombie = s.zombie /\ t.reliableSequence = r + 1 /\ t.drops = s.drops
        /\ t.reliableCommands[Index(r + 1)] = string
        /\ t.said[r + 1] = string
    BY <2>1, StoredGrows
  <2>3. r \in Nat /\ s.reliableAcknowledge \in Nat
    BY DEF ServerRecord
  <2>4. Outstanding(t) <= MAX_RELIABLE_COMMANDS
    <3>1. r - s.reliableAcknowledge <= MAX_RELIABLE_COMMANDS
      BY DEF Connected, Outstanding
    <3>2. r - s.reliableAcknowledge + 1 # MAX_RELIABLE_COMMANDS + 1
      BY <1>3 DEF ServerOverflows, Outstanding
    <3>3. Outstanding(t) = (r + 1) - s.reliableAcknowledge
      BY <2>2 DEF Outstanding, SameReceived
    <3> HIDE DEF r
    <3>. QED BY <2>3, <3>1, <3>2, <3>3
  <2>5. ASSUME NEW n \in 1 .. r + 1, (r + 1) - n < MAX_RELIABLE_COMMANDS
        PROVE  t.reliableCommands[Index(n)] = t.said[n]
    <3>1. CASE n = r + 1
      BY <2>2, <3>1
    <3>2. CASE n # r + 1
      <4>1. n \in 1 .. r /\ n \in 0 .. r /\ r - n < MAX_RELIABLE_COMMANDS
        BY <2>3, <2>5, <3>2
      <4>2. s.reliableCommands[Index(n)] = s.said[n]
        BY <4>1 DEF Connected
      <4>3. t.reliableCommands[Index(n)] = s.reliableCommands[Index(n)] /\ t.said[n] = s.said[n]
        BY <2>2, <2>5, <4>1 DEF Grown
      <4>. QED BY <4>2, <4>3
    <3>. QED BY <3>1, <3>2
  <2>6. Connected(t)
    BY <2>2, <2>4, <2>5 DEF Connected
  <2>7. Grown(s, t, 4, 2)
    BY <2>2, GrownMore
  <2>. QED BY <1>1, <2>2, <2>6, <2>7
<1>. QED BY <1>2, <1>3
-----------------------------------------------------------------------------
(* What changes at one end leaves true of the other and of the messages.     *)

LEMMA Bounds ==
  ASSUME ClientInv, ServerInv
  PROVE  /\ client.reliableSequence \in ClientSequences /\ client.reliableSequence \in Nat
         /\ client.reliableAcknowledge \in Nat
         /\ client.reliableAcknowledge <= client.reliableSequence
         /\ client.serverCommandSequence \in ServerSequences
         /\ client.serverCommandSequence \in Nat
         /\ client.serverCommandSequence <= server.reliableSequence
         /\ client.lastExecutedServerCommand \in Nat /\ client.serverCommandNum \in Nat
         /\ client.lastExecutedServerCommand <= client.serverCommandNum
         /\ client.serverCommandNum <= client.serverCommandSequence
         /\ server.reliableSequence \in Nat /\ server.reliableSequence \in ServerSequences
         /\ server.reliableAcknowledge \in Nat
         /\ server.reliableAcknowledge <= client.serverCommandSequence
         /\ server.lastClientCommand \in Nat
         /\ server.lastClientCommand <= client.reliableSequence
<1>1. /\ client.reliableSequence \in ClientSequences
      /\ client.reliableAcknowledge \in ClientSequences
      /\ client.serverCommandSequence \in ServerSequences
      /\ client.lastExecutedServerCommand \in ServerSequences
      /\ client.serverCommandNum \in ServerSequences
  BY DEF ClientInv
<1>2. /\ server.reliableSequence \in Nat /\ server.reliableAcknowledge \in Nat
      /\ server.lastClientCommand \in Nat
      /\ server.reliableSequence <= MaxServerSequence
  BY DEF ServerInv, ServerRecord
<1>3. server.reliableSequence \in ServerSequences
  BY <1>2 DEF ServerSequences, MaxServerSequence
<1>4. /\ client.reliableSequence \in Nat /\ client.reliableAcknowledge \in Nat
      /\ client.serverCommandSequence \in Nat
      /\ client.lastExecutedServerCommand \in Nat /\ client.serverCommandNum \in Nat
  BY <1>1 DEF ServerSequences, ClientSequences
<1>5. /\ client.reliableAcknowledge <= client.reliableSequence
      /\ client.serverCommandSequence <= server.reliableSequence
      /\ client.lastExecutedServerCommand <= client.serverCommandNum
      /\ client.serverCommandNum <= client.serverCommandSequence
      /\ server.reliableAcknowledge <= client.serverCommandSequence
      /\ server.lastClientCommand <= client.reliableSequence
  BY DEF ClientInv, ServerInv
<1>. QED BY <1>1, <1>2, <1>3, <1>4, <1>5

\* The server receives and adds commands.
LEMMA ServerMoves ==
  ASSUME ClientInv, ServerInv, HeardInv,
         UNCHANGED <<client, heard, shown, overwrote>>, ~server.zombie,
         Grown(server, server', 4, 2),
         server'.lastClientCommand \in server.lastClientCommand .. client.reliableSequence,
         server'.lastClientCommandString = server'.lastClientCommand,
         server'.reliableAcknowledge \in server.reliableAcknowledge .. client.serverCommandSequence,
         ~server'.zombie => /\ server'.reliableSequence <= MaxServerCommands
                            /\ server'.drops = 0
                            /\ Connected(server')
  PROVE  /\ ClientInv' /\ ServerInv' /\ HeardInv'
         /\ \A m : ToClientMessage(m) => ToClientMessage(m)'
         /\ \A m : ToServerMessage(m) /\ m.acknowledge \in Int
                    /\ server'.reliableAcknowledge <= m.acknowledge
                    => ToServerMessage(m)'
<1> DEFINE r == server.reliableSequence  q == server'.reliableSequence
           scs == client.serverCommandSequence
<1>1. /\ r \in Nat /\ q \in Nat /\ r <= q /\ q <= r + 4 /\ scs \in Nat /\ scs <= r /\ scs <= q
      /\ server'.drops \in Nat /\ server'.drops <= server.drops + 2
  <2>1. /\ r \in Nat /\ q \in Nat /\ r <= q /\ q <= r + 4 /\ scs \in Nat /\ scs <= r
        /\ server'.drops \in Nat /\ server'.drops <= server.drops + 2
    BY Bounds DEF Grown, ServerRecord
  <2>. QED BY <2>1
<1>2. ASSUME NEW n \in 0 .. r, NEW text, IsServerText(n, text)
      PROVE  IsServerText(n, text)'
  <2>1. ASSUME q - n < MAX_RELIABLE_COMMANDS
        PROVE  text = server'.reliableCommands[Index(n)]
    <3>1. r - n < MAX_RELIABLE_COMMANDS
      BY <1>1, <2>1
    <3>2. server'.reliableCommands[Index(n)] = server.reliableCommands[Index(n)]
      BY <2>1 DEF Grown
    <3>. QED BY <1>2, <3>1, <3>2 DEF IsServerText
  <2>. QED BY <2>1 DEF IsServerText
<1>3. \A n \in 1 .. r : server'.said[n] = server.said[n]
  BY DEF Grown
<1>4. q <= MaxServerSequence /\ server'.drops <= 2
  <2>1. r <= MaxServerCommands /\ server.drops = 0
    BY DEF ServerInv
  <2>. QED BY <1>1, <2>1 DEF MaxServerSequence
<1>5. /\ server.lastClientCommand \in Nat /\ server'.lastClientCommand \in Nat
      /\ server.lastClientCommand <= server'.lastClientCommand
      /\ server'.lastClientCommand <= client.reliableSequence
      /\ server'.lastClientCommand \in ClientSequences
      /\ server.reliableAcknowledge \in Nat /\ server'.reliableAcknowledge \in Nat
      /\ server.reliableAcknowledge <= server'.reliableAcknowledge
      /\ server'.reliableAcknowledge <= scs
  <2>1. client.reliableSequence \in 0 .. MaxClientCommands
    BY Bounds DEF ClientSequences
  <2>. QED BY <1>1, <2>1, Bounds DEF ClientSequences
<1> HIDE DEF r, q, scs
<1>6. ServerInv'
  BY <1>4, <1>5 DEF ServerInv, Grown, q, scs
<1>7. ClientInv'
  <2>1. IsServerText(scs, client.serverCommands[Index(scs)])'
    <3>1. IsServerText(scs, client.serverCommands[Index(scs)])
      BY DEF ClientInv, scs
    <3>2. PICK n \in 0 .. r : n = scs
      BY <1>1
    <3>3. PICK text : text = client.serverCommands[Index(scs)]
      OBVIOUS
    <3>4. IsServerText(n, text)'
      BY <1>2, <3>1, <3>2, <3>3
    <3>5. scs' = scs /\ client' = client
      BY DEF scs
    <3>. QED BY <3>2, <3>3, <3>4, <3>5
  <2>2. \A n \in 1 .. scs : scs - n < MAX_RELIABLE_COMMANDS =>
                            client.serverCommands[Index(n)] = server'.said[n]
    <3>1. \A n \in 1 .. scs : scs - n < MAX_RELIABLE_COMMANDS =>
                              client.serverCommands[Index(n)] = server.said[n]
      BY DEF ClientInv, scs
    <3>2. \A n \in 1 .. scs : n \in 1 .. r
      BY <1>1
    <3>. QED BY <1>3, <3>1, <3>2
  <2>3. ~overwrote => client.reliableAcknowledge <= server'.lastClientCommand
    <3>1. ~overwrote => client.reliableAcknowledge <= server.lastClientCommand
      BY DEF ClientInv
    <3>. QED BY <1>5, <3>1, Bounds
  <2>4. scs <= q
    BY <1>1
  <2>. QED BY <2>1, <2>2, <2>3, <2>4 DEF ClientInv, scs, q
<1>8. HeardInv'
  <2>1. \A n \in 1 .. Len(heard) : n \in 1 .. r
    <3>1. Len(heard) = client.lastExecutedServerCommand
      BY DEF HeardInv
    <3>. QED BY <3>1, Bounds DEF r
  <2>2. \A n \in 1 .. Len(heard) : heard[n] = server'.said[n]
    BY <1>3, <2>1 DEF HeardInv
  <2>. QED BY <2>2 DEF HeardInv
<1>9. ASSUME NEW m, ToClientMessage(m)
      PROVE  ToClientMessage(m)'
  <2>1. /\ m.needs \in 0 .. r /\ m.needs \in 0 .. q
        /\ m.acknowledge \in 0 .. server'.lastClientCommand
    <3>1. m.needs \in 0 .. r /\ m.acknowledge \in 0 .. server.lastClientCommand
      BY <1>9 DEF ToClientMessage, r
    <3>. QED BY <1>1, <1>5, <3>1
  <2>2. PICK a \in 0 .. m.needs :
          /\ m.commands \in [a + 1 .. m.needs -> ServerTexts]
          /\ a <= client.serverCommandSequence
          /\ a < m.needs => IsServerText(m.needs, m.commands[m.needs])
          /\ ~server.zombie => \A n \in a + 1 .. m.needs : m.commands[n] = server.said[n]
    BY <1>9 DEF ToClientMessage
  <2>3. a < m.needs => IsServerText(m.needs, m.commands[m.needs])'
    BY <1>2, <2>1, <2>2
  <2>4. \A n \in a + 1 .. m.needs : m.commands[n] = server'.said[n]
    <3>1. \A n \in a + 1 .. m.needs : n \in 1 .. r
      BY <1>1, <2>1
    <3>. QED BY <1>3, <2>2, <3>1
  <2>. QED BY <1>9, <2>1, <2>2, <2>3, <2>4 DEF ToClientMessage, q
<1>10. ASSUME NEW m, ToServerMessage(m), m.acknowledge \in Int,
              server'.reliableAcknowledge <= m.acknowledge
       PROVE  ToServerMessage(m)'
  <2>1. /\ m.acknowledge \in server'.reliableAcknowledge .. scs
        /\ m.acknowledge \in 0 .. r
    <3>1. m.acknowledge <= scs
      BY <1>10, <1>1, <1>5 DEF ToServerMessage, scs
    <3>. QED BY <1>1, <1>5, <1>10, <3>1
  <2>2. IsServerText(m.acknowledge, m.key)'
    BY <1>2, <1>10, <2>1 DEF ToServerMessage
  <2>3. PICK a \in 0 .. m.needs :
          /\ m.commands \in [a + 1 .. m.needs -> ClientStrings]
          /\ a < m.needs => m.commands[m.needs] = m.needs
          /\ ~overwrote => /\ a <= server.lastClientCommand
                           /\ \A n \in a + 1 .. m.needs : m.commands[n] = n
    BY <1>10 DEF ToServerMessage
  <2>4. m.needs \in 0 .. client.reliableSequence
    BY <1>10 DEF ToServerMessage
  <2>5. ~overwrote => a <= server'.lastClientCommand
    BY <1>5, <2>3, <2>4, Bounds
  <2>. QED BY <2>1, <2>2, <2>3, <2>4, <2>5 DEF ToServerMessage, scs
<1>. QED BY <1>6, <1>7, <1>8, <1>9, <1>10
\* The client receives and adds commands.
LEMMA ClientMoves ==
  ASSUME ClientInv, ServerInv, UNCHANGED server,
         client'.reliableSequence \in Nat,
         client.reliableSequence <= client'.reliableSequence,
         client'.serverCommandSequence \in Nat,
         client.serverCommandSequence <= client'.serverCommandSequence,
         overwrote => overwrote'
  PROVE  /\ ServerInv'
         /\ \A m : ToServerMessage(m) => ToServerMessage(m)'
         /\ \A m : ToClientMessage(m) /\ (~overwrote' => client'.reliableAcknowledge <= m.acknowledge)
                    => ToClientMessage(m)'
<1>1. /\ server.lastClientCommand <= client'.reliableSequence
      /\ server.reliableAcknowledge <= client'.serverCommandSequence
  BY Bounds
<1>2. ServerInv'
  BY <1>1 DEF ServerInv
<1>3. \A n, text : IsServerText(n, text)' <=> IsServerText(n, text)
  BY DEF IsServerText
<1>4. ASSUME NEW m, ToServerMessage(m)
      PROVE  ToServerMessage(m)'
  <2>1. m.needs \in 0 .. client'.reliableSequence
    <3>1. m.needs \in 0 .. client.reliableSequence
      BY <1>4 DEF ToServerMessage
    <3>. QED BY <3>1, Bounds
  <2>2. m.acknowledge \in server.reliableAcknowledge .. client'.serverCommandSequence
    <3>1. m.acknowledge \in server.reliableAcknowledge .. client.serverCommandSequence
      BY <1>4 DEF ToServerMessage
    <3>. QED BY <3>1, Bounds
  <2>. QED BY <1>3, <1>4, <2>1, <2>2 DEF ToServerMessage
<1>5. ASSUME NEW m, ToClientMessage(m),
             ~overwrote' => client'.reliableAcknowledge <= m.acknowledge
      PROVE  ToClientMessage(m)'
  <2>1. PICK a \in 0 .. m.needs :
          /\ m.commands \in [a + 1 .. m.needs -> ServerTexts]
          /\ a <= client.serverCommandSequence
          /\ a < m.needs => IsServerText(m.needs, m.commands[m.needs])
          /\ ~server.zombie => \A n \in a + 1 .. m.needs : m.commands[n] = server.said[n]
    BY <1>5 DEF ToClientMessage
  <2>2. m.needs \in 0 .. server.reliableSequence
    BY <1>5 DEF ToClientMessage
  <2>3. a <= client'.serverCommandSequence
    BY <2>1, <2>2, Bounds
  <2>. QED BY <1>3, <1>5, <2>1, <2>2, <2>3 DEF ToClientMessage
<1>. QED BY <1>2, <1>4, <1>5

-----------------------------------------------------------------------------
(* Queues of messages.                                                      *)

LEMMA FirstTaken ==
  ASSUME NEW T, NEW s \in Seq(T), s # <<>>, InOrder(s), Len(s) <= Capacity
  PROVE  /\ Tail(s) \in Seq(T) /\ Len(Tail(s)) <= Capacity /\ InOrder(Tail(s))
         /\ Head(s) \in T /\ 1 \in 1 .. Len(s) /\ Head(s) = s[1]
         /\ \A i \in 1 .. Len(Tail(s)) :
              /\ i + 1 \in 1 .. Len(s) /\ Tail(s)[i] = s[i + 1]
              /\ Head(s).acknowledge <= Tail(s)[i].acknowledge
<1> DEFINE t == Tail(s)
<1>1. /\ Head(s) = s[1] /\ Len(s) \in Nat \ {0} /\ Head(s) \in T
      /\ t \in Seq(T) /\ Len(t) = Len(s) - 1
      /\ \A i \in 1 .. Len(t) : t[i] = s[i + 1]
  BY HeadTailProperties, LenProperties, EmptySeq
<1> HIDE DEF t
<1>2. 1 \in 1 .. Len(s) /\ Len(t) <= Capacity
  BY <1>1
<1>3. \A i \in 1 .. Len(t) : i + 1 \in 1 .. Len(s) /\ 1 < i + 1
  BY <1>1
<1>4. \A i \in 1 .. Len(t) : Head(s).acknowledge <= t[i].acknowledge
  BY <1>1, <1>2, <1>3 DEF InOrder
<1>5. ASSUME NEW i \in 1 .. Len(t), NEW j \in 1 .. Len(t), i < j
      PROVE  t[i].acknowledge <= t[j].acknowledge
  <2>1. i + 1 < j + 1
    BY <1>5
  <2>2. s[i + 1].acknowledge <= s[j + 1].acknowledge
    BY <1>3, <2>1 DEF InOrder
  <2>. QED BY <1>1, <2>2
<1>6. InOrder(t)
  BY <1>5 DEF InOrder
<1>. QED BY <1>1, <1>2, <1>3, <1>4, <1>6 DEF t

LEMMA OneAppended ==
  ASSUME NEW T, NEW s \in Seq(T), InOrder(s), Len(s) < Capacity, NEW m \in T,
         \A i \in 1 .. Len(s) : s[i].acknowledge <= m.acknowledge
  PROVE  /\ Append(s, m) \in Seq(T) /\ Len(Append(s, m)) <= Capacity
         /\ InOrder(Append(s, m))
         /\ \A i \in 1 .. Len(Append(s, m)) :
              \/ i \in 1 .. Len(s) /\ Append(s, m)[i] = s[i]
              \/ Append(s, m)[i] = m
<1> DEFINE t == Append(s, m)
<1>1. /\ Len(s) \in Nat /\ t \in Seq(T) /\ Len(t) = Len(s) + 1
      /\ \A i \in 1 .. Len(s) : t[i] = s[i]
      /\ t[Len(s) + 1] = m
  BY AppendProperties, LenProperties
<1> HIDE DEF t
<1>2. Len(t) <= Capacity
  BY <1>1
<1>3. \A i \in 1 .. Len(t) : i \in 1 .. Len(s) \/ i = Len(s) + 1
  BY <1>1
<1>4. \A i \in 1 .. Len(t) : (i \in 1 .. Len(s) /\ t[i] = s[i]) \/ t[i] = m
  BY <1>1, <1>3
<1>5. ASSUME NEW i \in 1 .. Len(t), NEW j \in 1 .. Len(t), i < j
      PROVE  t[i].acknowledge <= t[j].acknowledge
  <2>1. i \in 1 .. Len(s) /\ t[i] = s[i]
    BY <1>1, <1>5
  <2>2. CASE j \in 1 .. Len(s)
    BY <1>1, <1>5, <2>1, <2>2, Zenon DEF InOrder
  <2>3. CASE j = Len(s) + 1
    BY <1>1, <2>1, <2>3
  <2>. QED BY <1>3, <2>2, <2>3
<1>6. InOrder(t)
  BY <1>5 DEF InOrder
<1>. QED BY <1>1, <1>2, <1>4, <1>6 DEF t

-----------------------------------------------------------------------------
(* The initial states.                                                      *)

LEMMA InitInv == Init => IInv
<1> SUFFICES ASSUME Init PROVE IInv
  OBVIOUS
<1>1. 0 \in ClientSequences /\ 0 \in ServerSequences /\ MaxServerSequence \in Nat
  BY DEF ClientSequences, ServerSequences, MaxServerSequence
<1>2. /\ EmptyRing \in [Places -> ClientStrings] /\ EmptyRing \in [Places -> ServerTexts]
      /\ Index(0) \in Places /\ EmptyRing[Index(0)] = 0
  BY Strings, IndexInRing DEF EmptyRing, Places
<1>3. /\ client = NewClient /\ server = NewServer
      /\ toServer = <<>> /\ toClient = <<>> /\ heard = <<>> /\ obeyed = <<>>
      /\ overwrote = FALSE /\ outOfRange = FALSE /\ moved = 0 /\ shown = 0
  BY DEF Init
<1>4. IsServerText(0, 0)
  BY <1>2, <1>3 DEF IsServerText, NewServer
<1>5. ClientInv
  BY <1>1, <1>2, <1>3, <1>4 DEF ClientInv, NewClient, NewServer, Outstanding
<1>6. ServerInv
  <2>1. <<>> \in Seq(ServerStrings) /\ Len(<<>>) = 0
    OBVIOUS
  <2>2. ServerRecord(server)
    BY <1>2, <1>3, <2>1 DEF ServerRecord, NewServer
  <2>3. Connected(server)
    BY <1>3 DEF Connected, NewServer, Outstanding
  <2>. QED BY <1>1, <1>3, <2>2, <2>3 DEF ServerInv, NewServer, NewClient
<1>7. HeardInv /\ ObeyedInv
  <2>1. /\ heard \in Seq(ServerTexts) /\ Len(heard) = 0
        /\ obeyed \in Seq(ClientStrings) /\ Len(obeyed) = 0
    BY <1>3
  <2>2. /\ client.lastExecutedServerCommand = 0 /\ client.serverCommandNum = 0
        /\ server.lastClientCommand = 0
    BY <1>3 DEF NewClient, NewServer
  <2>3. \A n \in 1 .. 0 : FALSE
    OBVIOUS
  <2>4. HeardInv
    <3>1. \A n \in 1 .. Len(heard) : heard[n] = server.said[n]
      BY <2>1, <2>3, Zenon
    <3>. QED BY <1>1, <1>3, <2>1, <2>2, <3>1 DEF HeardInv
  <2>5. ObeyedInv
    <3>1. \A n \in 1 .. Len(obeyed) : obeyed[n] = n
      BY <2>1, <2>3, Zenon
    <3>2. overwrote \in BOOLEAN /\ outOfRange = FALSE
      BY <1>3, Zenon
    <3>3. moved \in ClientSequences /\ moved <= server.lastClientCommand
      BY <1>1, <1>3, <2>2
    <3>4. Len(obeyed) = server.lastClientCommand
      BY <2>1, <2>2
    <3>. QED BY <2>1, <3>1, <3>2, <3>3, <3>4, Zenon DEF ObeyedInv
  <2>. QED BY <2>4, <2>5
<1>8. MessagesInv
  BY <1>3 DEF MessagesInv, InOrder
<1>. QED BY <1>5, <1>6, <1>7, <1>8 DEF IInv
-----------------------------------------------------------------------------
(* The client's steps.                                                      *)

\* Only whether the client is connected changes, and what it takes for acknowledged.
LEMMA ClientAcknowledged ==
  ASSUME ClientInv, ServerInv, HeardInv, ObeyedInv,
         UNCHANGED <<server, heard, obeyed, moved, shown, overwrote, outOfRange>>,
         NEW up \in BOOLEAN, NEW k \in Nat, k <= client.reliableSequence,
         client.reliableSequence - k <= MAX_RELIABLE_COMMANDS \/ overwrote,
         k <= server.lastClientCommand \/ overwrote,
         client' = [client EXCEPT !.up = up, !.reliableAcknowledge = k]
  PROVE  ClientInv' /\ ServerInv' /\ HeardInv' /\ ObeyedInv'
<1>1. k \in ClientSequences
  BY Bounds DEF ClientSequences
<1>2. /\ client'.reliableSequence = client.reliableSequence
      /\ client'.reliableAcknowledge = k
      /\ client'.reliableCommands = client.reliableCommands
      /\ client'.serverCommandSequence = client.serverCommandSequence
      /\ client'.serverCommands = client.serverCommands
      /\ client'.lastExecutedServerCommand = client.lastExecutedServerCommand
      /\ client'.serverCommandNum = client.serverCommandNum
      /\ client' \in [up : BOOLEAN,
        reliableSequence : ClientSequences, reliableAcknowledge : ClientSequences,
        reliableCommands : [Places -> ClientStrings],
        serverCommandSequence : ServerSequences,
        serverCommands : [Places -> ServerTexts],
        lastExecutedServerCommand : ServerSequences,
        serverCommandNum : ServerSequences]
  BY <1>1 DEF ClientInv
<1>3. ~overwrote => Outstanding(client') <= MAX_RELIABLE_COMMANDS
  BY <1>2 DEF Outstanding
<1>4. \A n, text : IsServerText(n, text)' <=> IsServerText(n, text)
  BY DEF IsServerText
<1>5. IsServerText(client.serverCommandSequence,
                   client.serverCommands[Index(client.serverCommandSequence)])'
  <2>1. PICK n, text : /\ n = client.serverCommandSequence
                       /\ text = client.serverCommands[Index(client.serverCommandSequence)]
    OBVIOUS
  <2>2. IsServerText(n, text)
    BY <2>1 DEF ClientInv
  <2>3. IsServerText(n, text)'
    BY <1>4, <2>2
  <2>. QED BY <1>2, <2>1, <2>3
<1>6. ClientInv'
  BY <1>2, <1>3, <1>5 DEF ClientInv
<1>. QED BY <1>2, <1>6 DEF ServerInv, HeardInv, ObeyedInv

LEMMA CL_AddReliableCommandInv == IInv /\ CL_AddReliableCommand => IInv'
<1> SUFFICES ASSUME IInv, CL_AddReliableCommand PROVE IInv'
  OBVIOUS
<1>0. ClientInv /\ ServerInv /\ HeardInv /\ ObeyedInv /\ MessagesInv
  BY DEF IInv
<1> SUFFICES ClientInv' /\ ServerInv' /\ HeardInv' /\ ObeyedInv' /\ MessagesInv'
  BY DEF IInv
<1> DEFINE r == client.reliableSequence  k == client.reliableAcknowledge
<1>1. /\ r < MaxClientCommands
      /\ UNCHANGED <<server, toServer, toClient, heard, obeyed, moved, shown, outOfRange>>
  BY DEF CL_AddReliableCommand
<1>2. /\ r \in Nat /\ k \in Nat /\ k <= r /\ client.serverCommandSequence \in Nat
      /\ overwrote \in BOOLEAN
  BY <1>0, Bounds DEF ObeyedInv
<1>3. /\ client \in [up : BOOLEAN,
        reliableSequence : ClientSequences, reliableAcknowledge : ClientSequences,
        reliableCommands : [Places -> ClientStrings],
        serverCommandSequence : ServerSequences,
        serverCommands : [Places -> ServerTexts],
        lastExecutedServerCommand : ServerSequences,
        serverCommandNum : ServerSequences]
      /\ ~overwrote => r - k <= MAX_RELIABLE_COMMANDS /\ k <= server.lastClientCommand
  BY <1>0 DEF ClientInv, Outstanding
<1>4. CASE client' = Left(client) /\ UNCHANGED overwrote
  <2>1. client' = [client EXCEPT !.up = FALSE, !.reliableAcknowledge = k]
    BY <1>3, <1>4 DEF Left
  <2>2. ClientInv' /\ ServerInv' /\ HeardInv' /\ ObeyedInv'
    <3> HIDE DEF k
    <3>. QED BY <1>0, <1>1, <1>2, <1>3, <1>4, <2>1, ClientAcknowledged
  <2>3. /\ client'.reliableSequence = r /\ client'.reliableAcknowledge = k
        /\ client'.serverCommandSequence = client.serverCommandSequence
    BY <1>3, <2>1
  <2>4. /\ \A m : ToServerMessage(m) => ToServerMessage(m)'
        /\ \A m : ToClientMessage(m) => ToClientMessage(m)'
    <3>1. \A m : ToClientMessage(m) => (~overwrote' => client'.reliableAcknowledge <= m.acknowledge)
      BY <1>4, <2>3 DEF ToClientMessage
    <3>2. /\ client'.reliableSequence \in Nat /\ client.reliableSequence <= client'.reliableSequence
          /\ client'.serverCommandSequence \in Nat
          /\ client.serverCommandSequence <= client'.serverCommandSequence
      BY <1>2, <2>3
    <3>3. server' = server /\ (overwrote => overwrote')
      BY <1>1, <1>4
    <3>. QED BY <1>0, <3>1, <3>2, <3>3, ClientMoves, Zenon
  <2>5. MessagesInv'
    BY <1>0, <1>1, <2>4 DEF MessagesInv
  <2>. QED BY <2>2, <2>5
<1>5. CASE /\ client' = AddedClientCommand(client)
           /\ overwrote' = (overwrote \/ Outstanding(client) >= MAX_RELIABLE_COMMANDS)
  <2>1. /\ Index(r + 1) \in Places /\ r + 1 \in ClientStrings /\ r + 1 \in ClientSequences
        /\ r + 1 \in Nat /\ r <= r + 1 /\ r + 1 \in Int
    BY <1>1, <1>2, IndexInRing DEF Places, ClientStrings, ClientSequences, AddedCommands
  <2>2. client' = [client EXCEPT !.reliableSequence = r + 1,
                     !.reliableCommands = [client.reliableCommands EXCEPT ![Index(r + 1)] = r + 1]]
    BY <1>3, <1>5 DEF AddedClientCommand, Stored, Written, Numbered
  <2>3. /\ client'.reliableSequence = r + 1 /\ client'.reliableAcknowledge = k
        /\ client'.reliableCommands = [client.reliableCommands EXCEPT ![Index(r + 1)] = r + 1]
        /\ client'.serverCommandSequence = client.serverCommandSequence
        /\ client'.serverCommands = client.serverCommands
        /\ client'.lastExecutedServerCommand = client.lastExecutedServerCommand
        /\ client'.serverCommandNum = client.serverCommandNum
        /\ client' \in [up : BOOLEAN,
          reliableSequence : ClientSequences, reliableAcknowledge : ClientSequences,
          reliableCommands : [Places -> ClientStrings],
          serverCommandSequence : ServerSequences,
          serverCommands : [Places -> ServerTexts],
          lastExecutedServerCommand : ServerSequences,
          serverCommandNum : ServerSequences]
    <3>1. [client.reliableCommands EXCEPT ![Index(r + 1)] = r + 1] \in [Places -> ClientStrings]
      BY <1>3, <2>1
    <3>. QED BY <1>3, <2>1, <2>2, <3>1, Zenon
  <2>4. /\ overwrote => overwrote'
        /\ overwrote' \in BOOLEAN
        /\ ~overwrote' => ~overwrote /\ r - k < MAX_RELIABLE_COMMANDS
    <3>1. CASE Outstanding(client) >= MAX_RELIABLE_COMMANDS
      BY <1>2, <1>5, <3>1
    <3>2. CASE ~(Outstanding(client) >= MAX_RELIABLE_COMMANDS)
      <4>1. r - k < MAX_RELIABLE_COMMANDS
        BY <1>2, <3>2 DEF Outstanding
      <4>. QED BY <1>2, <1>5, <3>2, <4>1
    <3>. QED BY <3>1, <3>2
  <2>5. ASSUME NEW n \in 0 .. r + 1, (r + 1) - n < MAX_RELIABLE_COMMANDS
        PROVE  client'.reliableCommands[Index(n)] = n
    <3>1. CASE n = r + 1
      BY <1>3, <2>1, <2>3, <3>1
    <3>2. CASE n # r + 1
      <4>1. /\ n \in 0 .. r /\ n \in Int /\ r - n < MAX_RELIABLE_COMMANDS
            /\ n < (r + 1) + MAX_RELIABLE_COMMANDS /\ r + 1 < n + MAX_RELIABLE_COMMANDS
        BY <1>2, <2>5, <3>2
      <4>2. Index(n) \in Places /\ Index(n) # Index(r + 1)
        BY <2>1, <3>2, <4>1, SameIndex, IndexInRing DEF Places
      <4>3. client.reliableCommands[Index(n)] = n
        BY <1>0, <4>1 DEF ClientInv
      <4>. QED BY <1>3, <2>3, <4>2, <4>3
    <3>. QED BY <3>1, <3>2
  <2>6. ~overwrote' => /\ Outstanding(client') <= MAX_RELIABLE_COMMANDS
                       /\ client'.reliableAcknowledge <= server.lastClientCommand
    <3>1. ~overwrote' => (r + 1) - k <= MAX_RELIABLE_COMMANDS
      BY <1>2, <2>4
    <3>. QED BY <1>3, <2>3, <2>4, <3>1 DEF Outstanding
  <2>7. IsServerText(client.serverCommandSequence,
                     client.serverCommands[Index(client.serverCommandSequence)])'
    BY <1>0, <1>1, <2>3 DEF ClientInv, IsServerText
  <2>8. ClientInv'
    <3>1. k <= r + 1
      BY <1>2
    <3>. QED BY <1>0, <1>1, <2>3, <2>5, <2>6, <2>7, <3>1 DEF ClientInv
  <2>9. HeardInv' /\ ObeyedInv'
    BY <1>0, <1>1, <2>3, <2>4 DEF HeardInv, ObeyedInv
  <2>10. /\ ServerInv'
         /\ \A m : ToServerMessage(m) => ToServerMessage(m)'
         /\ \A m : ToClientMessage(m) => ToClientMessage(m)'
    <3>1. \A m : ToClientMessage(m) => (~overwrote' => client'.reliableAcknowledge <= m.acknowledge)
      BY <2>3, <2>4 DEF ToClientMessage
    <3>2. /\ client'.reliableSequence \in Nat /\ client.reliableSequence <= client'.reliableSequence
          /\ client'.serverCommandSequence \in Nat
          /\ client.serverCommandSequence <= client'.serverCommandSequence
      BY <1>2, <2>1, <2>3
    <3>3. server' = server /\ (overwrote => overwrote')
      BY <1>1, <2>4
    <3>. QED BY <1>0, <3>1, <3>2, <3>3, ClientMoves, Zenon
  <2>11. MessagesInv'
    BY <1>0, <1>1, <2>10 DEF MessagesInv
  <2>. QED BY <2>8, <2>9, <2>10, <2>11
<1>. QED BY <1>4, <1>5 DEF CL_AddReliableCommand

\* Only the queues of messages change.
LEMMA OnlyMessages ==
  ASSUME ClientInv, ServerInv, HeardInv, ObeyedInv,
         UNCHANGED <<client, server, heard, obeyed, overwrote, moved, shown, outOfRange>>
  PROVE  /\ ClientInv' /\ ServerInv' /\ HeardInv' /\ ObeyedInv'
         /\ \A m : ToServerMessage(m) => ToServerMessage(m)'
         /\ \A m : ToClientMessage(m) => ToClientMessage(m)'
<1>1. /\ client' = client /\ server' = server /\ heard' = heard /\ obeyed' = obeyed
      /\ overwrote' = overwrote /\ moved' = moved /\ shown' = shown
      /\ outOfRange' = outOfRange
  OBVIOUS
<1>2. ServerInv' /\ HeardInv' /\ ObeyedInv'
  BY <1>1 DEF ServerInv, HeardInv, ObeyedInv
<1>3. ClientInv'
  BY <1>1 DEF ClientInv, IsServerText
<1>4. \A m : ToServerMessage(m) => ToServerMessage(m)'
  BY <1>1 DEF ToServerMessage, IsServerText
<1>5. \A m : ToClientMessage(m) => ToClientMessage(m)'
  BY <1>1 DEF ToClientMessage, IsServerText
<1>. QED BY <1>2, <1>3, <1>4, <1>5

LEMMA TextsAreNumbers == ClientStrings \subseteq Int /\ ServerTexts \subseteq Int
BY DEF ClientStrings, ServerTexts, ServerStrings, AddedCommands, Disconnect, Notice

LEMMA InRow ==
  ASSUME NEW Sequences, NEW Texts, NEW a \in Sequences, NEW n \in Sequences,
         NEW commands \in [a + 1 .. n -> Texts]
  PROVE  commands \in CommandsInRow(Sequences, Texts)
<1> DEFINE List(x, y) == [x + 1 .. y -> Texts]
           From(x) == UNION {List(x, y) : y \in Sequences}
<1>1. CommandsInRow(Sequences, Texts) = UNION {From(x) : x \in Sequences}
  BY DEF CommandsInRow
<1>2. commands \in List(a, n)
  OBVIOUS
<1> HIDE DEF List
<1>3. commands \in From(a)
  BY <1>2
<1> HIDE DEF From
<1>. QED BY <1>1, <1>3

LEMMA CL_WritePacketInv == IInv /\ CL_WritePacket => IInv'
<1> SUFFICES ASSUME IInv, CL_WritePacket PROVE IInv'
  OBVIOUS
<1>0. ClientInv /\ ServerInv /\ HeardInv /\ ObeyedInv /\ MessagesInv
  BY DEF IInv
<1>1. /\ Len(toServer) < Capacity /\ toServer' = Append(toServer, Packet(client))
      /\ UNCHANGED <<client, server, toClient, heard, obeyed, overwrote, moved, shown, outOfRange>>
  BY DEF CL_WritePacket
<1> DEFINE r == client.reliableSequence  k == client.reliableAcknowledge
           scs == client.serverCommandSequence
<1>2. PICK m : m = Packet(client)
  OBVIOUS
<1>3. /\ m.acknowledge = scs /\ m.key = client.serverCommands[Index(scs)] /\ m.needs = r
      /\ m.commands = [n \in k + 1 .. r |-> client.reliableCommands[Index(n)]]
      /\ m = [acknowledge |-> scs, key |-> m.key, needs |-> r, commands |-> m.commands]
  BY <1>2 DEF Packet, Unacknowledged
<1>4. /\ r \in Nat /\ k \in Nat /\ k <= r /\ scs \in Nat /\ r \in ClientSequences
      /\ server.reliableAcknowledge \in Nat /\ server.reliableAcknowledge <= scs
      /\ k \in ClientSequences
  BY <1>0, Bounds DEF ClientSequences
<1>5. /\ client.reliableCommands \in [Places -> ClientStrings]
      /\ client.serverCommands \in [Places -> ServerTexts]
      /\ ~overwrote => r - k <= MAX_RELIABLE_COMMANDS /\ k <= server.lastClientCommand
      /\ \A n \in 0 .. r : r - n < MAX_RELIABLE_COMMANDS => client.reliableCommands[Index(n)] = n
      /\ IsServerText(scs, client.serverCommands[Index(scs)])
  BY <1>0 DEF ClientInv, Outstanding
<1> HIDE DEF r, k, scs
<1>6. m.commands \in [k + 1 .. r -> ClientStrings]
  <2>1. \A n \in k + 1 .. r : Index(n) \in Places
    BY <1>4, IndexInRing DEF Places
  <2>. QED BY <1>3, <1>5, <2>1
<1>7. ToServerMessage(m)
  <2>1. k \in 0 .. m.needs
    BY <1>3, <1>4
  <2>2. k < m.needs => m.commands[m.needs] = m.needs
    <3>1. k < r => r \in k + 1 .. r /\ r \in 0 .. r /\ r - r < MAX_RELIABLE_COMMANDS
      BY <1>4
    <3>. QED BY <1>3, <1>5, <3>1
  <2>3. ~overwrote => \A n \in k + 1 .. r : m.commands[n] = n
    <3>1. ASSUME ~overwrote, NEW n \in k + 1 .. r
          PROVE  n \in 0 .. r /\ r - n < MAX_RELIABLE_COMMANDS
      BY <1>4, <1>5, <3>1
    <3>. QED BY <1>3, <1>5, <3>1
  <2>4. m.acknowledge \in server.reliableAcknowledge .. scs /\ m.needs \in 0 .. r
    BY <1>3, <1>4
  <2>5. IsServerText(m.acknowledge, m.key)
    BY <1>3, <1>5
  <2>. QED BY <1>3, <1>5, <1>6, <2>1, <2>2, <2>3, <2>4, <2>5 DEF ToServerMessage, r, scs
<1>8. m \in Messages(ClientSequences, ClientStrings)
  <2>1. m.key \in Int /\ scs \in Int
    <3>1. Index(scs) \in Places
      BY <1>4, IndexInRing DEF Places
    <3>. QED BY <1>3, <1>4, <1>5, <3>1, TextsAreNumbers
  <2>2. m.commands \in CommandsInRow(ClientSequences, ClientStrings)
    BY <1>4, <1>6, InRow
  <2>. QED BY <1>3, <1>4, <2>1, <2>2 DEF Messages
<1>9. \A i \in 1 .. Len(toServer) : toServer[i].acknowledge <= m.acknowledge
  <2>1. \A i \in 1 .. Len(toServer) : ToServerMessage(toServer[i])
    BY <1>0 DEF MessagesInv
  <2>2. \A i \in 1 .. Len(toServer) :
          toServer[i].acknowledge \in server.reliableAcknowledge .. scs
    BY <2>1, Zenon DEF ToServerMessage, scs
  <2>. QED BY <1>3, <1>4, <2>2
<1>10. /\ toServer' \in Seq(Messages(ClientSequences, ClientStrings)) /\ Len(toServer') <= Capacity
       /\ InOrder(toServer')
       /\ \A i \in 1 .. Len(toServer') : (i \in 1 .. Len(toServer) /\ toServer'[i] = toServer[i])
                                        \/ toServer'[i] = m
  <2>1. toServer \in Seq(Messages(ClientSequences, ClientStrings)) /\ InOrder(toServer)
    BY <1>0 DEF MessagesInv
  <2>. QED BY <1>1, <1>2, <1>8, <1>9, <2>1, OneAppended
<1>11. /\ ClientInv' /\ ServerInv' /\ HeardInv' /\ ObeyedInv'
       /\ \A x : ToServerMessage(x) => ToServerMessage(x)'
       /\ \A x : ToClientMessage(x) => ToClientMessage(x)'
  BY <1>0, <1>1, OnlyMessages
<1>12. \A i \in 1 .. Len(toServer') : ToServerMessage(toServer[i])'
  <2>1. \A i \in 1 .. Len(toServer) : ToServerMessage(toServer[i])
    BY <1>0 DEF MessagesInv
  <2>2. ASSUME NEW i \in 1 .. Len(toServer')
        PROVE  ToServerMessage(toServer[i])'
    <3>1. PICK x : x = toServer'[i]
      OBVIOUS
    <3>2. ToServerMessage(x)
      BY <1>7, <1>10, <2>1, <3>1
    <3>3. ToServerMessage(x)'
      BY <1>11, <3>2
    <3>. QED BY <3>1, <3>3
  <2>. QED BY <2>2
<1>13. MessagesInv'
  BY <1>0, <1>1, <1>10, <1>11, <1>12 DEF MessagesInv
<1>. QED BY <1>11, <1>13 DEF IInv

-----------------------------------------------------------------------------
(* The server's steps.                                                      *)

LEMMA SV_SendClientSnapshotInv == IInv /\ SV_SendClientSnapshot => IInv'
<1> SUFFICES ASSUME IInv, SV_SendClientSnapshot PROVE IInv'
  OBVIOUS
<1>0. ClientInv /\ ServerInv /\ HeardInv /\ ObeyedInv /\ MessagesInv
  BY DEF IInv
<1>1. /\ Len(toClient) < Capacity /\ toClient' = Append(toClient, Snapshot(server))
      /\ UNCHANGED <<client, server, toServer, heard, obeyed, overwrote, moved, shown, outOfRange>>
  BY DEF SV_SendClientSnapshot
<1> DEFINE q == server.reliableSequence  a == server.reliableAcknowledge
           l == server.lastClientCommand
<1>2. PICK m : m = Snapshot(server)
  OBVIOUS
<1>3. /\ m.acknowledge = l /\ m.key = server.lastClientCommandString /\ m.needs = q
      /\ m.commands = [n \in a + 1 .. q |-> server.reliableCommands[Index(n)]]
      /\ m = [acknowledge |-> l, key |-> m.key, needs |-> q, commands |-> m.commands]
  BY <1>2 DEF Snapshot, Unacknowledged
<1>4. /\ q \in Nat /\ a \in Nat /\ a <= q /\ l \in Nat /\ q \in ServerSequences
      /\ a <= client.serverCommandSequence /\ a \in ServerSequences
      /\ server.lastClientCommandString = l
      /\ ~overwrote => client.reliableAcknowledge <= l
  <2>1. /\ q \in Nat /\ a \in Nat /\ a <= q /\ l \in Nat /\ q \in ServerSequences
        /\ a <= client.serverCommandSequence
    BY <1>0, Bounds
  <2>2. a \in ServerSequences
    BY <2>1 DEF ServerSequences, MaxServerSequence
  <2>3. server.lastClientCommandString = l /\ (~overwrote => client.reliableAcknowledge <= l)
    BY <1>0 DEF ServerInv, ClientInv
  <2>. QED BY <2>1, <2>2, <2>3
<1>5. /\ server.reliableCommands \in [Places -> ServerTexts]
      /\ ~server.zombie => q - a <= MAX_RELIABLE_COMMANDS
      /\ ~server.zombie => \A n \in 1 .. q :
            q - n < MAX_RELIABLE_COMMANDS => server.reliableCommands[Index(n)] = server.said[n]
  BY <1>0 DEF ServerInv, ServerRecord, Connected, Outstanding
<1> HIDE DEF q, a, l
<1>6. m.commands \in [a + 1 .. q -> ServerTexts]
  <2>1. \A n \in a + 1 .. q : Index(n) \in Places
    BY <1>4, IndexInRing DEF Places
  <2>. QED BY <1>3, <1>5, <2>1
<1>7. ToClientMessage(m)
  <2>1. a \in 0 .. m.needs
    BY <1>3, <1>4
  <2>2. a < m.needs => IsServerText(m.needs, m.commands[m.needs])
    <3>1. a < q => q \in a + 1 .. q
      BY <1>4
    <3>2. a < q => m.commands[q] = server.reliableCommands[Index(q)]
      BY <1>3, <3>1
    <3>. QED BY <1>3, <3>2 DEF IsServerText
  <2>3. ~server.zombie => \A n \in a + 1 .. q : m.commands[n] = server.said[n]
    <3>1. ASSUME ~server.zombie, NEW n \in a + 1 .. q
          PROVE  n \in 1 .. q /\ q - n < MAX_RELIABLE_COMMANDS
      BY <1>4, <1>5, <3>1
    <3>. QED BY <1>3, <1>5, <3>1
  <2>4. m.acknowledge \in 0 .. l /\ m.needs \in 0 .. q /\ m.key = m.acknowledge
    BY <1>3, <1>4
  <2>. QED BY <1>3, <1>4, <1>6, <2>1, <2>2, <2>3, <2>4 DEF ToClientMessage, q, l
<1>8. m \in Messages(ServerSequences, ServerTexts)
  <2>1. m.key \in Int /\ l \in Int
    BY <1>3, <1>4
  <2>2. m.commands \in CommandsInRow(ServerSequences, ServerTexts)
    BY <1>4, <1>6, InRow
  <2>. QED BY <1>3, <1>4, <2>1, <2>2 DEF Messages
<1>9. \A i \in 1 .. Len(toClient) : toClient[i].acknowledge <= m.acknowledge
  <2>1. \A i \in 1 .. Len(toClient) : ToClientMessage(toClient[i])
    BY <1>0 DEF MessagesInv
  <2>2. \A i \in 1 .. Len(toClient) : toClient[i].acknowledge \in 0 .. l
    BY <2>1, Zenon DEF ToClientMessage, l
  <2>. QED BY <1>3, <1>4, <2>2
<1>10. /\ toClient' \in Seq(Messages(ServerSequences, ServerTexts)) /\ Len(toClient') <= Capacity
       /\ InOrder(toClient')
       /\ \A i \in 1 .. Len(toClient') : (i \in 1 .. Len(toClient) /\ toClient'[i] = toClient[i])
                                        \/ toClient'[i] = m
  <2>1. toClient \in Seq(Messages(ServerSequences, ServerTexts)) /\ InOrder(toClient)
    BY <1>0 DEF MessagesInv
  <2>. QED BY <1>1, <1>2, <1>8, <1>9, <2>1, OneAppended
<1>11. /\ ClientInv' /\ ServerInv' /\ HeardInv' /\ ObeyedInv'
       /\ \A x : ToServerMessage(x) => ToServerMessage(x)'
       /\ \A x : ToClientMessage(x) => ToClientMessage(x)'
  BY <1>0, <1>1, OnlyMessages
<1>12. \A i \in 1 .. Len(toClient') : ToClientMessage(toClient[i])'
  <2>1. \A i \in 1 .. Len(toClient) : ToClientMessage(toClient[i])
    BY <1>0 DEF MessagesInv
  <2>2. ASSUME NEW i \in 1 .. Len(toClient')
        PROVE  ToClientMessage(toClient[i])'
    <3>1. PICK x : x = toClient'[i]
      OBVIOUS
    <3>2. ToClientMessage(x)
      BY <1>7, <1>10, <2>1, <3>1
    <3>3. ToClientMessage(x)'
      BY <1>11, <3>2
    <3>. QED BY <3>1, <3>3
  <2>. QED BY <2>2
<1>13. MessagesInv'
  BY <1>0, <1>1, <1>10, <1>11, <1>12 DEF MessagesInv
<1>. QED BY <1>11, <1>13 DEF IInv

\* Commands are added, and nothing is received.
LEMMA ServerAdds ==
  ASSUME IInv, ~server.zombie, Grown(server, server', 4, 2), SameReceived(server, server'),
         ~server'.zombie => /\ server'.reliableSequence <= MaxServerCommands
                            /\ server'.drops = 0
                            /\ Connected(server'),
         UNCHANGED <<client, toServer, toClient, heard, obeyed, overwrote, moved, shown, outOfRange>>
  PROVE  IInv'
<1>0. ClientInv /\ ServerInv /\ HeardInv /\ ObeyedInv /\ MessagesInv
  BY DEF IInv
<1>1. /\ server.lastClientCommand \in server.lastClientCommand .. client.reliableSequence
      /\ server.reliableAcknowledge \in server.reliableAcknowledge .. client.serverCommandSequence
      /\ server.reliableAcknowledge \in Nat
  BY <1>0, Bounds
<1>2. /\ server'.lastClientCommand = server.lastClientCommand
      /\ server'.lastClientCommandString = server'.lastClientCommand
      /\ server'.reliableAcknowledge = server.reliableAcknowledge
  BY <1>0 DEF SameReceived, ServerInv
<1>3. /\ ClientInv' /\ ServerInv' /\ HeardInv'
      /\ \A m : ToClientMessage(m) => ToClientMessage(m)'
      /\ \A m : ToServerMessage(m) /\ m.acknowledge \in Int
                /\ server'.reliableAcknowledge <= m.acknowledge
                  => ToServerMessage(m)'
  BY <1>0, <1>1, <1>2, ServerMoves
<1>4. \A i \in 1 .. Len(toServer) : ToServerMessage(toServer[i])'
  <2>1. ASSUME NEW i \in 1 .. Len(toServer)
        PROVE  ToServerMessage(toServer[i])'
    <3>1. PICK x : x = toServer[i]
      OBVIOUS
    <3>2. ToServerMessage(x)
      BY <1>0, <3>1 DEF MessagesInv
    <3>3. x.acknowledge \in server.reliableAcknowledge .. client.serverCommandSequence
      BY <3>2 DEF ToServerMessage
    <3>4. x.acknowledge \in Int /\ server.reliableAcknowledge <= x.acknowledge
      BY <1>1, <3>3
    <3>5. ToServerMessage(x)'
      BY <1>2, <1>3, <3>2, <3>4
    <3>. QED BY <3>1, <3>5
  <2>. QED BY <2>1
<1>5. ObeyedInv'
  BY <1>0, <1>2 DEF ObeyedInv
<1>6. MessagesInv'
  <2>1. \A i \in 1 .. Len(toClient) : ToClientMessage(toClient[i])
    BY <1>0 DEF MessagesInv
  <2>2. \A i \in 1 .. Len(toClient) : ToClientMessage(toClient[i])'
    BY <1>3, <2>1
  <2>. QED BY <1>0, <1>4, <2>2 DEF MessagesInv
<1>. QED BY <1>3, <1>5, <1>6 DEF IInv

LEMMA SendServerCommandInv == IInv /\ SendServerCommand => IInv'
<1> SUFFICES ASSUME IInv, SendServerCommand PROVE IInv'
  OBVIOUS
<1>1. ClientInv /\ ServerInv
  BY DEF IInv
<1>2. /\ ~server.zombie /\ server.reliableSequence < MaxServerCommands
      /\ UNCHANGED <<client, toServer, toClient, heard, obeyed, overwrote, moved, shown, outOfRange>>
  BY DEF SendServerCommand
<1> DEFINE q == server.reliableSequence
<1>3. q \in Nat /\ q + 1 <= MaxServerCommands /\ q + 1 \in ServerStrings
  BY <1>1, <1>2, Bounds DEF ServerStrings
<1>4. ServerRecord(server) /\ Connected(server) /\ server.drops = 0
  BY <1>1, <1>2 DEF ServerInv
<1>5. server' = SV_AddServerCommand(server, q + 1)
  BY DEF SendServerCommand
<1> HIDE DEF q
<1>6. /\ Grown(server, server', 4, 2) /\ SameReceived(server, server')
      /\ ~server'.zombie => /\ Connected(server') /\ server'.drops = 0
                            /\ server'.reliableSequence = q + 1
  BY <1>2, <1>3, <1>4, <1>5, SV_AddServerCommandGrows DEF q
<1>7. ~server'.zombie => server'.reliableSequence <= MaxServerCommands
  BY <1>3, <1>6
<1>. QED BY <1>2, <1>6, <1>7, ServerAdds

LEMMA DropClientInv == IInv /\ DropClient => IInv'
<1> SUFFICES ASSUME IInv, DropClient PROVE IInv'
  OBVIOUS
<1>1. ~server.zombie /\ ServerRecord(server)
  BY DEF DropClient, IInv, ServerInv
<1>2. /\ server' = SV_DropClient(server)
      /\ UNCHANGED <<client, toServer, toClient, heard, obeyed, overwrote, moved, shown, outOfRange>>
  BY DEF DropClient
<1>3. Grown(server, server', 4, 2) /\ SameReceived(server, server') /\ server'.zombie
  BY <1>1, <1>2, SV_DropClientGrows
<1>. QED BY <1>1, <1>2, <1>3, ServerAdds

\* What is written down of the commands executed.
WithNoted(s, commands, last) == s \o Interval(commands, Len(s) + 1, last)

IsNoted(T, s, commands, last, t) ==
  /\ t \in Seq(T) /\ Len(t) = last
  /\ \A n \in 1 .. Len(s) : t[n] = s[n]
  /\ \A n \in Len(s) + 1 .. last : t[n] = commands[n]

LEMMA Noted ==
  ASSUME NEW T, NEW s \in Seq(T), NEW last \in Nat, Len(s) <= last,
         NEW commands, \A n \in Len(s) + 1 .. last : commands[n] \in T
  PROVE  IsNoted(T, s, commands, last, WithNoted(s, commands, last))
<1>1. PICK l \in Nat : l = Len(s)
  BY LenProperties
<1>2. PICK k \in Nat : k = last - l
  BY <1>1
<1>3. PICK u : u = Interval(commands, l + 1, last)
  OBVIOUS
<1>4. u = [i \in 1 .. k |-> commands[l + i]]
  <2>1. last - (l + 1) + 1 = k
    BY <1>1, <1>2
  <2>2. \A i \in 1 .. k : (l + 1) + i - 1 = l + i
    BY <1>1, <1>2
  <2>. QED BY <1>3, <2>1, <2>2 DEF Interval
<1>5. \A i \in 1 .. k : l + i \in l + 1 .. last
  BY <1>1, <1>2
<1>6. u \in [1 .. k -> T]
  BY <1>1, <1>4, <1>5
<1>7. u \in Seq(T) /\ Len(u) = k
  BY <1>6, IsASeq, LenProperties
<1>8. PICK t : t = s \o u
  OBVIOUS
<1>9. /\ t \in Seq(T) /\ Len(t) = l + k
      /\ \A n \in 1 .. l + k : t[n] = IF n <= l THEN s[n] ELSE u[n - l]
  BY <1>1, <1>7, <1>8, ConcatProperties
<1>10. l + k = last
  BY <1>1, <1>2
<1>11. \A n \in 1 .. l : n \in 1 .. l + k /\ n <= l
  BY <1>1, <1>2
<1>12. \A n \in l + 1 .. last : n \in 1 .. l + k /\ ~(n <= l) /\ n - l \in 1 .. k /\ l + (n - l) = n
  BY <1>1, <1>2
<1>13. \A n \in l + 1 .. last : t[n] = commands[n]
  BY <1>4, <1>9, <1>12
<1>14. \A n \in 1 .. l : t[n] = s[n]
  BY <1>9, <1>11
<1>15. t = WithNoted(s, commands, last)
  BY <1>1, <1>3, <1>8, Zenon DEF WithNoted
<1>16. IsNoted(T, s, commands, last, t)
  BY <1>1, <1>9, <1>10, <1>13, <1>14 DEF IsNoted
<1>. QED BY <1>15, <1>16

\* The server after it received the acknowledgement x, and commands up to y.
WithReceived(s, x, y) ==
  [s EXCEPT !.reliableAcknowledge = x, !.lastClientCommand = y, !.lastClientCommandString = y]

LEMMA Received ==
  ASSUME NEW s, ServerRecord(s), NEW x \in Nat, NEW y \in Nat,
         NEW t, t = WithReceived(s, x, y)
  PROVE  /\ Grown(s, t, 4, 2)
         /\ t.zombie = s.zombie /\ t.drops = s.drops
         /\ t.reliableSequence = s.reliableSequence
         /\ t.reliableAcknowledge = x
         /\ t.lastClientCommand = y /\ t.lastClientCommandString = y
         /\ Connected(s) /\ s.reliableAcknowledge <= x => Connected(t)
<1>1. /\ s \in [zombie : BOOLEAN,
             reliableSequence : Nat, reliableAcknowledge : Nat,
             reliableCommands : [Places -> ServerTexts],
             lastClientCommand : Nat, lastClientCommandString : Nat,
             said : Seq(ServerStrings), drops : Nat]
      /\ Len(s.said) = s.reliableSequence
  BY DEF ServerRecord
<1>2. /\ t.zombie = s.zombie /\ t.drops = s.drops
      /\ t.reliableSequence = s.reliableSequence
      /\ t.reliableAcknowledge = x
      /\ t.reliableCommands = s.reliableCommands /\ t.said = s.said
      /\ t.lastClientCommand = y /\ t.lastClientCommandString = y
      /\ t \in [zombie : BOOLEAN,
             reliableSequence : Nat, reliableAcknowledge : Nat,
             reliableCommands : [Places -> ServerTexts],
             lastClientCommand : Nat, lastClientCommandString : Nat,
             said : Seq(ServerStrings), drops : Nat]
  BY <1>1, Zenon DEF WithReceived
<1>3. ServerRecord(t)
  BY <1>1, <1>2 DEF ServerRecord
<1>4. Grown(s, t, 0, 0)
  BY <1>1, <1>2, <1>3 DEF Grown
<1>5. Grown(s, t, 4, 2)
  BY <1>4, GrownMore
<1>6. ASSUME Connected(s), s.reliableAcknowledge <= x
      PROVE  Connected(t)
  <2>1. s.reliableSequence - x <= MAX_RELIABLE_COMMANDS
    <3>1. s.reliableSequence - s.reliableAcknowledge <= MAX_RELIABLE_COMMANDS
      BY <1>6 DEF Connected, Outstanding
    <3>. QED BY <1>1, <1>6, <3>1
  <2>. QED BY <1>2, <1>6, <2>1 DEF Connected, Outstanding
<1>. QED BY <1>2, <1>5, <1>6

\* What was received is followed by a drop of the client.
LEMMA ReceivedAndDropped ==
  ASSUME NEW s, ServerRecord(s), ~s.zombie, NEW x \in Nat, NEW y \in Nat,
         NEW t, t = SV_DropClient(WithReceived(s, x, y))
  PROVE  /\ Grown(s, t, 4, 2) /\ t.zombie
         /\ t.reliableAcknowledge = x
         /\ t.lastClientCommand = y /\ t.lastClientCommandString = y
<1>1. /\ s \in [zombie : BOOLEAN,
             reliableSequence : Nat, reliableAcknowledge : Nat,
             reliableCommands : [Places -> ServerTexts],
             lastClientCommand : Nat, lastClientCommandString : Nat,
             said : Seq(ServerStrings), drops : Nat]
      /\ Len(s.said) = s.reliableSequence
  BY DEF ServerRecord
<1>2. PICK u : u = WithReceived(s, x, y)
  OBVIOUS
<1>3. /\ u.zombie = s.zombie /\ u.drops = s.drops
      /\ u.reliableSequence = s.reliableSequence
      /\ u.reliableAcknowledge = x
      /\ u.reliableCommands = s.reliableCommands /\ u.said = s.said
      /\ u.lastClientCommand = y /\ u.lastClientCommandString = y
      /\ u \in [zombie : BOOLEAN,
             reliableSequence : Nat, reliableAcknowledge : Nat,
             reliableCommands : [Places -> ServerTexts],
             lastClientCommand : Nat, lastClientCommandString : Nat,
             said : Seq(ServerStrings), drops : Nat]
  BY <1>1, <1>2, Zenon DEF WithReceived
<1>4. ServerRecord(u)
  BY <1>1, <1>3 DEF ServerRecord
<1>5. Grown(u, t, 4, 2) /\ SameReceived(u, t) /\ t.zombie
  BY <1>2, <1>3, <1>4, SV_DropClientGrows
<1>6. Grown(s, t, 4, 2)
  BY <1>3, <1>5 DEF Grown
<1>. QED BY <1>3, <1>5, <1>6 DEF SameReceived

\* The first message is taken from a queue, by its receiver or the network.
LEMMA FirstToServerTaken ==
  ASSUME MessagesInv, toServer # <<>>, toServer' = Tail(toServer), UNCHANGED toClient,
         \A m : ToClientMessage(m) => ToClientMessage(m)',
         \A m : ToServerMessage(m) /\ m.acknowledge \in Int
                /\ Head(toServer).acknowledge <= m.acknowledge
                => ToServerMessage(m)'
  PROVE  MessagesInv'
<1> DEFINE T == Messages(ClientSequences, ClientStrings)
<1>1. toServer \in Seq(T) /\ Len(toServer) <= Capacity /\ InOrder(toServer)
  BY DEF MessagesInv
<1>2. \A x \in T : x.acknowledge \in Int
  BY DEF Messages
<1> HIDE DEF T
<1>3. /\ toServer' \in Seq(T) /\ Len(toServer') <= Capacity /\ InOrder(toServer')
      /\ \A i \in 1 .. Len(toServer') :
              /\ i + 1 \in 1 .. Len(toServer) /\ toServer'[i] = toServer[i + 1]
              /\ Head(toServer).acknowledge <= toServer'[i].acknowledge
  BY <1>1, FirstTaken
<1>4. ASSUME NEW i \in 1 .. Len(toServer')
      PROVE  ToServerMessage(toServer[i])'
  <2>1. PICK x : x = toServer'[i]
    OBVIOUS
  <2>2. x = toServer[i + 1] /\ i + 1 \in 1 .. Len(toServer)
        /\ Head(toServer).acknowledge <= x.acknowledge
    BY <1>3, <2>1
  <2>3. ToServerMessage(x)
    BY <2>2 DEF MessagesInv
  <2>4. x \in T
    BY <1>1, <2>2, ElementOfSeq
  <2>5. ToServerMessage(x)'
    BY <1>2, <2>2, <2>3, <2>4
  <2>. QED BY <2>1, <2>5
<1>5. \A i \in 1 .. Len(toClient) : ToClientMessage(toClient[i])'
  BY DEF MessagesInv
<1>. QED BY <1>3, <1>4, <1>5 DEF MessagesInv, T

LEMMA FirstToClientTaken ==
  ASSUME MessagesInv, toClient # <<>>, toClient' = Tail(toClient), UNCHANGED toServer,
         \A m : ToServerMessage(m) => ToServerMessage(m)',
         \A m : ToClientMessage(m) /\ m.acknowledge \in Int
                /\ Head(toClient).acknowledge <= m.acknowledge
                => ToClientMessage(m)'
  PROVE  MessagesInv'
<1> DEFINE T == Messages(ServerSequences, ServerTexts)
<1>1. toClient \in Seq(T) /\ Len(toClient) <= Capacity /\ InOrder(toClient)
  BY DEF MessagesInv
<1>2. \A x \in T : x.acknowledge \in Int
  BY DEF Messages
<1> HIDE DEF T
<1>3. /\ toClient' \in Seq(T) /\ Len(toClient') <= Capacity /\ InOrder(toClient')
      /\ \A i \in 1 .. Len(toClient') :
              /\ i + 1 \in 1 .. Len(toClient) /\ toClient'[i] = toClient[i + 1]
              /\ Head(toClient).acknowledge <= toClient'[i].acknowledge
  BY <1>1, FirstTaken
<1>4. ASSUME NEW i \in 1 .. Len(toClient')
      PROVE  ToClientMessage(toClient[i])'
  <2>1. PICK x : x = toClient'[i]
    OBVIOUS
  <2>2. x = toClient[i + 1] /\ i + 1 \in 1 .. Len(toClient)
        /\ Head(toClient).acknowledge <= x.acknowledge
    BY <1>3, <2>1
  <2>3. ToClientMessage(x)
    BY <2>2 DEF MessagesInv
  <2>4. x \in T
    BY <1>1, <2>2, ElementOfSeq
  <2>5. ToClientMessage(x)'
    BY <1>2, <2>2, <2>3, <2>4
  <2>. QED BY <2>1, <2>5
<1>5. \A i \in 1 .. Len(toServer) : ToServerMessage(toServer[i])'
  BY DEF MessagesInv
<1>. QED BY <1>3, <1>4, <1>5 DEF MessagesInv, T

LEMMA LoseInv == IInv /\ Lose => IInv'
<1> SUFFICES ASSUME IInv, Lose PROVE IInv'
  OBVIOUS
<1>0. ClientInv /\ ServerInv /\ HeardInv /\ ObeyedInv /\ MessagesInv
  BY DEF IInv
<1>1. /\ ClientInv' /\ ServerInv' /\ HeardInv' /\ ObeyedInv'
      /\ \A m : ToServerMessage(m) => ToServerMessage(m)'
      /\ \A m : ToClientMessage(m) => ToClientMessage(m)'
  <2>1. UNCHANGED <<client, server, heard, obeyed, overwrote, moved, shown, outOfRange>>
    BY DEF Lose
  <2>. QED BY <1>0, <2>1, OnlyMessages
<1>2. CASE toServer # <<>> /\ toServer' = Tail(toServer) /\ UNCHANGED toClient
  <2>1. MessagesInv'
    BY <1>0, <1>1, <1>2, FirstToServerTaken
  <2>. QED BY <1>1, <2>1 DEF IInv
<1>3. CASE toClient # <<>> /\ toClient' = Tail(toClient) /\ UNCHANGED toServer
  <2>1. MessagesInv'
    BY <1>0, <1>1, <1>3, FirstToClientTaken
  <2>. QED BY <1>1, <2>1 DEF IInv
<1>. QED BY <1>2, <1>3 DEF Lose

\* The server takes a message, of which it knows what it received, and what it
\* executed.
LEMMA ServerTakes ==
  ASSUME IInv, ~server.zombie, toServer # <<>>, toServer' = Tail(toServer),
         UNCHANGED <<client, toClient, heard, overwrote, shown>>,
         Grown(server, server', 4, 2),
         server'.reliableAcknowledge = Head(toServer).acknowledge,
         server'.lastClientCommand \in server.lastClientCommand .. client.reliableSequence,
         server'.lastClientCommandString = server'.lastClientCommand,
         ~server'.zombie => /\ server'.reliableSequence <= MaxServerCommands
                            /\ server'.drops = 0
                            /\ Connected(server'),
         ObeyedInv'
  PROVE  IInv'
<1>0. ClientInv /\ ServerInv /\ HeardInv /\ ObeyedInv /\ MessagesInv
  BY DEF IInv
<1>1. ToServerMessage(Head(toServer))
  <2> DEFINE T == Messages(ClientSequences, ClientStrings)
  <2>1. toServer \in Seq(T) /\ Len(toServer) <= Capacity /\ InOrder(toServer)
        /\ \A i \in 1 .. Len(toServer) : ToServerMessage(toServer[i])
    BY <1>0 DEF MessagesInv
  <2> HIDE DEF T
  <2>2. 1 \in 1 .. Len(toServer) /\ Head(toServer) = toServer[1]
    BY <2>1, FirstTaken
  <2>. QED BY <2>1, <2>2
<1>2. /\ server'.reliableAcknowledge \in server.reliableAcknowledge .. client.serverCommandSequence
      /\ server.reliableAcknowledge \in Nat
  BY <1>0, <1>1, Bounds DEF ToServerMessage
<1>3. /\ ClientInv' /\ ServerInv' /\ HeardInv'
      /\ \A m : ToClientMessage(m) => ToClientMessage(m)'
      /\ \A m : ToServerMessage(m) /\ m.acknowledge \in Int
                /\ server'.reliableAcknowledge <= m.acknowledge
                  => ToServerMessage(m)'
  BY <1>0, <1>2, ServerMoves
<1>4. MessagesInv'
  BY <1>0, <1>3, FirstToServerTaken
<1>. QED BY <1>3, <1>4 DEF IInv

LEMMA SV_PacketEventInv == IInv /\ SV_PacketEvent => IInv'
<1> SUFFICES ASSUME IInv, SV_PacketEvent PROVE IInv'
  OBVIOUS
<1>0. ClientInv /\ ServerInv /\ HeardInv /\ ObeyedInv /\ MessagesInv
  BY DEF IInv
<1>1. /\ toServer # <<>> /\ toServer' = Tail(toServer)
      /\ UNCHANGED <<client, toClient, heard, overwrote, shown>>
  BY DEF SV_PacketEvent
<1>2. CASE server.zombie
  <2>1. UNCHANGED <<client, server, heard, obeyed, overwrote, moved, shown, outOfRange>>
    BY <1>1, <1>2 DEF SV_PacketEvent
  <2>2. /\ ClientInv' /\ ServerInv' /\ HeardInv' /\ ObeyedInv'
        /\ \A m : ToServerMessage(m) => ToServerMessage(m)'
        /\ \A m : ToClientMessage(m) => ToClientMessage(m)'
    BY <1>0, <2>1, OnlyMessages
  <2>3. MessagesInv'
    BY <1>0, <1>1, <2>2, FirstToServerTaken
  <2>. QED BY <2>2, <2>3 DEF IInv
<1>3. CASE ~server.zombie
  <2>1. PICK m : m = Head(toServer)
    OBVIOUS
  <2> DEFINE k == m.acknowledge  l == server.lastClientCommand  r == client.reliableSequence
  <2>2. /\ m.needs \in 0 .. r
        /\ k \in server.reliableAcknowledge .. client.serverCommandSequence
        /\ IsServerText(k, m.key)
        /\ \E a \in 0 .. m.needs :
             /\ m.commands \in [a + 1 .. m.needs -> ClientStrings]
             /\ a < m.needs => m.commands[m.needs] = m.needs
             /\ ~overwrote => /\ a <= l
                              /\ \A n \in a + 1 .. m.needs : m.commands[n] = n
    <3> DEFINE T == Messages(ClientSequences, ClientStrings)
    <3>1. toServer \in Seq(T) /\ Len(toServer) <= Capacity /\ InOrder(toServer)
          /\ \A i \in 1 .. Len(toServer) : ToServerMessage(toServer[i])
      BY <1>0 DEF MessagesInv
    <3> HIDE DEF T
    <3>2. 1 \in 1 .. Len(toServer) /\ Head(toServer) = toServer[1]
      BY <1>1, <3>1, FirstTaken
    <3>3. ToServerMessage(m)
      BY <2>1, <3>1, <3>2
    <3>. QED BY <3>3, Zenon DEF ToServerMessage
  <2>3. /\ l \in Nat /\ r \in Nat /\ l <= r /\ k \in Nat /\ r \in ClientSequences
        /\ server.reliableAcknowledge <= k
        /\ ServerRecord(server) /\ Connected(server) /\ server.drops = 0
        /\ server.reliableSequence <= MaxServerCommands
        /\ server.lastClientCommandString = l
    <3>1. /\ ServerRecord(server) /\ Connected(server) /\ server.drops = 0
          /\ server.reliableSequence <= MaxServerCommands
          /\ server.lastClientCommandString = l
      BY <1>0, <1>3 DEF ServerInv
    <3>. QED BY <1>0, <2>2, <3>1, Bounds
  <2>4. ~TooOld(server, k)
    <3>1. server.reliableSequence - server.reliableAcknowledge <= MAX_RELIABLE_COMMANDS
      BY <2>3 DEF Connected, Outstanding
    <3>2. server.reliableSequence \in Nat /\ server.reliableAcknowledge \in Nat
      BY <1>0, Bounds
    <3> HIDE DEF k
    <3>. QED BY <2>3, <3>1, <3>2 DEF TooOld
  <2> DEFINE acked == Acknowledged(server, k)
  <2>5. /\ acked = [server EXCEPT !.reliableAcknowledge = k]
        /\ acked = WithReceived(server, k, l)
    <3>1. acked = [server EXCEPT !.reliableAcknowledge = k]
      BY <2>4 DEF Acknowledged
    <3>2. server \in [zombie : BOOLEAN,
             reliableSequence : Nat, reliableAcknowledge : Nat,
             reliableCommands : [Places -> ServerTexts],
             lastClientCommand : Nat, lastClientCommandString : Nat,
             said : Seq(ServerStrings), drops : Nat]
      BY <2>3 DEF ServerRecord
    <3>. QED BY <2>3, <3>1, <3>2 DEF WithReceived
  <2> HIDE DEF acked
  <2>6. \/ /\ server' \in {acked, SV_DropClient(acked)}
           /\ UNCHANGED <<obeyed, moved, outOfRange>>
        \/ /\ ExecuteClientCommands(acked, m)
           /\ outOfRange' = outOfRange
    <3>1. SV_ExecuteClientMessage(m)
      BY <1>3, <2>1 DEF SV_PacketEvent
    <3>. QED BY <2>4, <3>1 DEF SV_ExecuteClientMessage, acked
  <2>7. CASE server' = acked /\ UNCHANGED <<obeyed, moved, outOfRange>>
    <3>1. /\ Grown(server, server', 4, 2)
          /\ server'.drops = server.drops
          /\ server'.reliableSequence = server.reliableSequence
          /\ server'.reliableAcknowledge = k
          /\ server'.lastClientCommand = l /\ server'.lastClientCommandString = l
          /\ Connected(server')
      BY <2>3, <2>5, <2>7, Received
    <3>2. l \in l .. r
      BY <2>3
    <3>3. ObeyedInv'
      BY <1>0, <1>1, <2>7, <3>1 DEF ObeyedInv
    <3>. QED BY <1>1, <1>3, <2>1, <2>3, <3>1, <3>2, <3>3, ServerTakes
  <2>8. CASE server' = SV_DropClient(acked) /\ UNCHANGED <<obeyed, moved, outOfRange>>
    <3>1. /\ Grown(server, server', 4, 2) /\ server'.zombie
          /\ server'.reliableAcknowledge = k
          /\ server'.lastClientCommand = l /\ server'.lastClientCommandString = l
      BY <1>3, <2>3, <2>5, <2>8, ReceivedAndDropped
    <3>2. l \in l .. r
      BY <2>3
    <3>3. ObeyedInv'
      BY <1>0, <1>1, <2>8, <3>1 DEF ObeyedInv
    <3>. QED BY <1>1, <1>3, <2>1, <2>3, <3>1, <3>2, <3>3, ServerTakes
  <2> DEFINE new == Newer(m.commands, l)
  <2>9. acked.lastClientCommand = l
    BY <2>3, <2>5, Received
  <2>10. CASE /\ ~LostCommands(acked, new)
              /\ server' = Executed(acked, m.commands)
              /\ obeyed' = IF new = {} THEN obeyed
                           ELSE obeyed \o Interval(m.commands, Min(new), Max(new))
              /\ moved' = m.needs
              /\ outOfRange' = outOfRange
    <3>1. PICK a \in 0 .. m.needs :
             /\ m.commands \in [a + 1 .. m.needs -> ClientStrings]
             /\ a < m.needs => m.commands[m.needs] = m.needs
             /\ ~overwrote => /\ a <= l
                              /\ \A n \in a + 1 .. m.needs : m.commands[n] = n
      BY <2>2
    <3>2. /\ m.needs \in Nat /\ a \in Nat /\ a <= m.needs /\ m.needs <= r
          /\ m.needs \in ClientSequences
      BY <2>2, <2>3 DEF ClientSequences
    <3>3. new = {n \in a + 1 .. m.needs : n > l}
      BY <3>1 DEF Newer
    <3>4. /\ Len(obeyed) = l /\ obeyed \in Seq(ClientStrings)
          /\ ~overwrote => \A n \in 1 .. Len(obeyed) : obeyed[n] = n
          /\ overwrote' \in BOOLEAN /\ outOfRange' = FALSE
          /\ overwrote' = overwrote
      BY <1>0, <1>1, <2>10 DEF ObeyedInv
    <3>5. CASE new = {}
      <4>1. server' = acked /\ obeyed' = obeyed
        BY <2>9, <2>10, <3>5 DEF Executed
      <4>2. /\ Grown(server, server', 4, 2)
            /\ server'.drops = server.drops
            /\ server'.reliableSequence = server.reliableSequence
            /\ server'.reliableAcknowledge = k
            /\ server'.lastClientCommand = l /\ server'.lastClientCommandString = l
            /\ Connected(server')
        BY <2>3, <2>5, <4>1, Received
      <4>3. l \in l .. r
        BY <2>3
      <4>4. ~overwrote => m.needs <= l
        <5>1. m.needs \in a + 1 .. m.needs \/ m.needs <= a
          BY <3>2
        <5>2. ~(m.needs > l) \/ m.needs <= a
          BY <3>3, <3>5, <5>1
        <5>. QED BY <2>3, <3>1, <3>2, <5>2
      <4>5. ObeyedInv'
        BY <2>10, <3>2, <3>4, <4>1, <4>2, <4>4 DEF ObeyedInv
      <4>. QED BY <1>1, <1>3, <2>1, <2>3, <4>2, <4>3, <4>5, ServerTakes
    <3>6. CASE new # {}
      <4>1. /\ m.needs \in new /\ \A n \in new : n <= m.needs
            /\ new \in SUBSET Nat /\ new \in SUBSET Int /\ a < m.needs /\ l < m.needs
        BY <2>3, <3>2, <3>3, <3>6
      <4>2. Max(new) = m.needs
        BY <4>1, MaxIs
      <4>3. Min(new) \in new /\ \A n \in new : Min(new) <= n
        BY <3>6, <4>1, MinIs
      <4>4. Min(new) = l + 1 /\ a <= l
        <5>1. PICK x : x = Min(new)
          OBVIOUS
        <5>2. x \in Nat /\ x > l /\ x \in a + 1 .. m.needs
          BY <3>3, <4>1, <4>3, <5>1
        <5>3. ~(x > l + 1)
          BY <2>9, <2>10, <3>6, <5>1 DEF LostCommands
        <5>. QED BY <2>3, <3>2, <5>1, <5>2, <5>3
      <4>5. /\ server' = [acked EXCEPT !.lastClientCommand = m.needs,
                                       !.lastClientCommandString = m.needs]
            /\ obeyed' = obeyed \o Interval(m.commands, Len(obeyed) + 1, m.needs)
        <5>1. server' = [acked EXCEPT !.lastClientCommand = Max(new),
                                      !.lastClientCommandString = m.commands[Max(new)]]
          BY <2>9, <2>10, <3>6, Zenon DEF Executed
        <5>2. m.commands[Max(new)] = m.needs
          BY <3>1, <4>1, <4>2
        <5>. QED BY <2>10, <3>4, <3>6, <4>2, <4>4, <5>1, <5>2
      <4>6. server' = WithReceived(server, k, m.needs)
        BY <2>5, <4>5 DEF WithReceived
      <4>7. /\ Grown(server, server', 4, 2)
            /\ server'.drops = server.drops
            /\ server'.reliableSequence = server.reliableSequence
            /\ server'.reliableAcknowledge = k
            /\ server'.lastClientCommand = m.needs /\ server'.lastClientCommandString = m.needs
            /\ Connected(server')
        BY <2>3, <3>2, <4>6, Received
      <4>8. m.needs \in l .. r
        BY <2>3, <3>2, <4>1
      <4>9. \A n \in Len(obeyed) + 1 .. m.needs : n \in a + 1 .. m.needs
        BY <2>3, <3>2, <3>4, <4>4
      <4>10. \A n \in Len(obeyed) + 1 .. m.needs : m.commands[n] \in ClientStrings
        BY <3>1, <4>9
      <4>11. /\ obeyed' \in Seq(ClientStrings) /\ Len(obeyed') = m.needs
             /\ \A n \in 1 .. Len(obeyed) : obeyed'[n] = obeyed[n]
             /\ \A n \in Len(obeyed) + 1 .. m.needs : obeyed'[n] = m.commands[n]
        <5>1. Len(obeyed) <= m.needs
          BY <2>3, <3>2, <3>4, <4>1
        <5>2. PICK last \in Nat : last = m.needs
          BY <3>2
        <5>3. PICK commands : commands = m.commands
          OBVIOUS
        <5>4. \A n \in Len(obeyed) + 1 .. last : commands[n] \in ClientStrings
          BY <4>10, <5>2, <5>3
        <5>5. PICK t : t = WithNoted(obeyed, commands, last)
          OBVIOUS
        <5>6. Len(obeyed) <= last /\ obeyed \in Seq(ClientStrings)
          BY <3>4, <5>1, <5>2
        <5>7. IsNoted(ClientStrings, obeyed, commands, last, t)
          BY <5>4, <5>5, <5>6, Noted, Zenon
        <5>8. /\ t \in Seq(ClientStrings) /\ Len(t) = last
              /\ \A n \in 1 .. Len(obeyed) : t[n] = obeyed[n]
              /\ \A n \in Len(obeyed) + 1 .. last : t[n] = commands[n]
          BY <5>7 DEF IsNoted
        <5>. QED BY <4>5, <5>2, <5>3, <5>5, <5>8 DEF WithNoted
      <4>12. ~overwrote => \A n \in 1 .. m.needs : obeyed'[n] = n
        <5>1. ASSUME ~overwrote, NEW n \in 1 .. m.needs
              PROVE  obeyed'[n] = n
          <6>1. CASE n \in 1 .. Len(obeyed)
            BY <3>4, <4>11, <5>1, <6>1
          <6>2. CASE ~(n \in 1 .. Len(obeyed))
            <7>1. n \in Len(obeyed) + 1 .. m.needs
              BY <2>3, <3>2, <3>4, <6>2
            <7>. QED BY <3>1, <4>9, <4>11, <5>1, <7>1
          <6>. QED BY <6>1, <6>2
        <5>. QED BY <5>1
      <4>13. ObeyedInv'
        <5>1. m.needs <= m.needs
          BY <3>2
        <5>. QED BY <2>10, <3>2, <3>4, <4>7, <4>11, <4>12, <5>1 DEF ObeyedInv
      <4>. QED BY <1>1, <1>3, <2>1, <2>3, <4>7, <4>8, <4>13, ServerTakes
    <3>. QED BY <3>5, <3>6
  <2>11. CASE ExecuteClientCommands(acked, m) /\ outOfRange' = outOfRange
    <3> HIDE DEF new
    <3>1. \/ server' = SV_DropClient(acked) /\ UNCHANGED <<obeyed, moved>>
          \/ /\ ~LostCommands(acked, new)
             /\ server' = Executed(acked, m.commands)
             /\ obeyed' = IF new = {} THEN obeyed
                          ELSE obeyed \o Interval(m.commands, Min(new), Max(new))
             /\ moved' = m.needs
      BY <2>9, <2>11 DEF ExecuteClientCommands, new
    <3>. QED BY <2>8, <2>10, <2>11, <3>1
  <2>. QED BY <2>6, <2>7, <2>8, <2>11
<1>. QED BY <1>2, <1>3

-----------------------------------------------------------------------------
(* The client receives.                                                     *)

\* The commands of a message, from a on, are written over those that are too old.
NewerAt(commands, last, i) == {n \in Newer(commands, last) : Index(n) = i}

RingParsed(ring, commands, last) ==
  [i \in DOMAIN ring |-> IF NewerAt(commands, last, i) = {} THEN ring[i]
                         ELSE commands[Max(NewerAt(commands, last, i))]]

LastParsed(commands, last) == Max(Newer(commands, last) \cup {last})

LEMMA LastParsedIs ==
  ASSUME NEW a \in Nat, NEW b \in Nat, NEW last \in Nat, a <= last,
         NEW commands, DOMAIN commands = a + 1 .. b
  PROVE  /\ LastParsed(commands, last) \in Nat
         /\ LastParsed(commands, last) = b \/ LastParsed(commands, last) = last
         /\ last <= LastParsed(commands, last) /\ b <= LastParsed(commands, last)
<1>1. Newer(commands, last) = {n \in a + 1 .. b : n > last}
  BY DEF Newer
<1>2. PICK S : S = Newer(commands, last) \cup {last}
  OBVIOUS
<1>3. S \in SUBSET Int /\ last \in S /\ \A n \in S : n <= last \/ (n <= b /\ b \in S)
  BY <1>1, <1>2
<1>4. b > last => b \in S
  BY <1>1, <1>2
<1>5. CASE b > last
  <2>1. b \in S /\ b \in Int /\ \A n \in S : n <= b
    BY <1>3, <1>4, <1>5
  <2>2. Max(S) = b
    BY <1>3, <2>1, MaxIs
  <2>. QED BY <1>2, <1>5, <2>2 DEF LastParsed
<1>6. CASE ~(b > last)
  <2>1. \A n \in S : n <= last
    BY <1>1, <1>2, <1>6
  <2>2. Max(S) = last
    BY <1>3, <2>1, MaxIs
  <2>. QED BY <1>2, <1>6, <2>2 DEF LastParsed
<1>. QED BY <1>5, <1>6

\* The ring then holds the last commands of the stream, be they of this message or not.
IsParsed(ring, commands, last, new, t) ==
  /\ t \in [Places -> ServerTexts]
  /\ \A n \in 0 .. new : new - n < MAX_RELIABLE_COMMANDS =>
       t[Index(n)] = IF n <= last THEN ring[Index(n)] ELSE commands[n]

LEMMA RingParsedIs ==
  ASSUME NEW a \in Nat, NEW b \in Nat, NEW last \in Nat, a <= last,
         NEW commands, commands \in [a + 1 .. b -> ServerTexts],
         NEW ring, ring \in [Places -> ServerTexts]
  PROVE  IsParsed(ring, commands, last, LastParsed(commands, last), RingParsed(ring, commands, last))
<1> DEFINE L == MAX_RELIABLE_COMMANDS
<1>1. PICK new \in Nat : /\ new = LastParsed(commands, last)
                         /\ new = b \/ new = last
                         /\ last <= new /\ b <= new
  <2>1. DOMAIN commands = a + 1 .. b
    OBVIOUS
  <2>. QED BY <2>1, LastParsedIs
<1>2. PICK t : t = RingParsed(ring, commands, last)
  OBVIOUS
<1>3. L \in Nat \ {0}
  OBVIOUS
<1>4. Newer(commands, last) = {n \in a + 1 .. b : n > last}
  BY DEF Newer
<1>5. \A i \in Places : t[i] = IF NewerAt(commands, last, i) = {} THEN ring[i]
                               ELSE commands[Max(NewerAt(commands, last, i))]
  BY <1>2 DEF RingParsed
<1>6. DOMAIN t = Places /\ t = [i \in Places |-> t[i]]
  BY <1>2 DEF RingParsed
<1>7. ASSUME NEW n \in Int, n <= new, new - n < L
      PROVE  /\ Index(n) \in Places
             /\ n <= last => t[Index(n)] = ring[Index(n)]
             /\ n > last => n \in a + 1 .. b /\ t[Index(n)] = commands[n]
  <2>1. Index(n) \in Places
    BY IndexInRing DEF Places
  <2>2. PICK S : S = NewerAt(commands, last, Index(n))
    OBVIOUS
  <2>3. S \in SUBSET Int /\ \A x \in S : x \in Int /\ x > last /\ x <= new /\ Index(x) = Index(n)
    BY <1>1, <1>4, <2>2 DEF NewerAt
  <2>4. ASSUME NEW x \in S
        PROVE  x <= n
    <3>1. x \in Int /\ x <= new /\ Index(x) = Index(n)
      BY <2>3
    <3>2. x < n + L
      BY <1>1, <1>3, <1>7, <3>1
    <3>3. n < x + L => x = n
      BY <1>7, <3>1, <3>2, SameIndex
    <3>. QED BY <1>3, <1>7, <3>1, <3>3
  <2>5. CASE n <= last
    <3>1. S = {}
      <4>1. \A x \in S : FALSE
        <5>1. ASSUME NEW x \in S PROVE FALSE
          <6>1. x <= n /\ x \in Int /\ x > last
            BY <2>3, <2>4
          <6>. QED BY <1>7, <2>5, <6>1
        <5>. QED BY <5>1
      <4>. QED BY <4>1
    <3>2. t[Index(n)] = ring[Index(n)]
      BY <1>5, <2>1, <2>2, <3>1
    <3>. QED BY <1>7, <2>1, <2>5, <3>2
  <2>6. CASE n > last
    <3>1. n \in a + 1 .. b
      BY <1>1, <1>7, <2>6
    <3>2. n \in S
      BY <1>4, <2>2, <2>6, <3>1 DEF NewerAt
    <3>3. Max(S) = n
      BY <2>3, <2>4, <3>2, MaxIs
    <3>4. t[Index(n)] = commands[n]
      BY <1>5, <2>1, <2>2, <3>2, <3>3
    <3>. QED BY <1>7, <2>1, <2>6, <3>1, <3>4
  <2>. QED BY <1>7, <2>5, <2>6
<1>8. ASSUME NEW i \in Places
      PROVE  t[i] \in ServerTexts
  <2>1. PICK n \in new - L + 1 .. new : Index(n) = i
    <3>1. i \in 0 .. MAX_RELIABLE_COMMANDS - 1 /\ new \in Int
      BY <1>1 DEF Places
    <3>2. \E n \in new - MAX_RELIABLE_COMMANDS + 1 .. new : Index(n) = i
      BY <3>1, IndexInRow, Zenon
    <3>. QED BY <3>2, Zenon
  <2>2. n \in Int /\ n <= new /\ new - n < L
    BY <1>1, <1>3, <2>1
  <2>3. CASE n <= last
    <3>1. t[i] = ring[i]
      BY <1>7, <2>1, <2>2, <2>3
    <3>. QED BY <3>1
  <2>4. CASE n > last
    <3>1. t[i] = commands[n] /\ n \in a + 1 .. b
      BY <1>7, <2>1, <2>2, <2>4
    <3>. QED BY <3>1
  <2>. QED BY <2>2, <2>3, <2>4
<1>9. t \in [Places -> ServerTexts]
  BY <1>6, <1>8
<1>10. \A n \in 0 .. new : new - n < L =>
         t[Index(n)] = IF n <= last THEN ring[Index(n)] ELSE commands[n]
  BY <1>7
<1>11. IsParsed(ring, commands, last, new, t)
  BY <1>9, <1>10 DEF IsParsed
<1>. QED BY <1>1, <1>2, <1>11

\* Only whether the client is connected changes, and what it takes for acknowledged: the
\* messages stay as they were, if they acknowledge no less.
LEMMA ClientTakesAcknowledgement ==
  ASSUME IInv, toClient # <<>>, toClient' = Tail(toClient),
         UNCHANGED <<server, toServer, heard, obeyed, overwrote, moved, shown, outOfRange>>,
         NEW up \in BOOLEAN, NEW k \in Nat, k <= client.reliableSequence,
         client.reliableSequence - k <= MAX_RELIABLE_COMMANDS,
         ~overwrote => k <= server.lastClientCommand /\ k = Head(toClient).acknowledge,
         client' = [client EXCEPT !.up = up, !.reliableAcknowledge = k]
  PROVE  IInv'
<1>0. ClientInv /\ ServerInv /\ HeardInv /\ ObeyedInv /\ MessagesInv
  BY DEF IInv
<1>1. /\ server' = server /\ (overwrote => overwrote') /\ overwrote' = overwrote
      /\ UNCHANGED <<server, heard, obeyed, moved, shown, overwrote, outOfRange>>
  OBVIOUS
<1>2. ClientInv' /\ ServerInv' /\ HeardInv' /\ ObeyedInv'
  <2>1. client.reliableSequence - k <= MAX_RELIABLE_COMMANDS \/ overwrote
    OBVIOUS
  <2>2. k <= server.lastClientCommand \/ overwrote
    OBVIOUS
  <2>. QED BY <1>0, <1>1, <2>1, <2>2, ClientAcknowledged
<1>3. /\ client'.reliableSequence \in Nat /\ client.reliableSequence <= client'.reliableSequence
      /\ client'.serverCommandSequence \in Nat
      /\ client.serverCommandSequence <= client'.serverCommandSequence
      /\ client'.reliableAcknowledge = k
  <2>1. /\ client'.reliableSequence = client.reliableSequence
        /\ client'.serverCommandSequence = client.serverCommandSequence
        /\ client'.reliableAcknowledge = k
    BY <1>0 DEF ClientInv
  <2>. QED BY <1>0, <2>1, Bounds
<1>4. /\ \A m : ToServerMessage(m) => ToServerMessage(m)'
      /\ \A m : ToClientMessage(m) /\ (~overwrote' => client'.reliableAcknowledge <= m.acknowledge)
                    => ToClientMessage(m)'
  BY <1>0, <1>1, <1>3, ClientMoves, Zenon
<1>5. ~overwrote => client'.reliableAcknowledge = Head(toClient).acknowledge
  BY <1>3
<1>6. \A m : ToClientMessage(m) /\ m.acknowledge \in Int
                /\ Head(toClient).acknowledge <= m.acknowledge
                => ToClientMessage(m)'
  BY <1>1, <1>4, <1>5
<1>7. MessagesInv'
  BY <1>0, <1>4, <1>6, FirstToClientTaken
<1>. QED BY <1>2, <1>7 DEF IInv

LEMMA CL_ParseServerMessageInv == IInv /\ CL_ParseServerMessage => IInv'
<1> SUFFICES ASSUME IInv, CL_ParseServerMessage PROVE IInv'
  OBVIOUS
<1>0. ClientInv /\ ServerInv /\ HeardInv /\ ObeyedInv /\ MessagesInv
  BY DEF IInv
<1>1. PICK m : m = Head(toClient)
  OBVIOUS
<1> DEFINE acked == Acknowledged(client, m.acknowledge)
<1>2. /\ toClient # <<>> /\ toClient' = Tail(toClient)
      /\ UNCHANGED <<server, toServer, heard, obeyed, overwrote, moved, outOfRange>>
      /\ \/ UNCHANGED <<client, shown>>
         \/ client' \in {acked, Left(acked)} /\ UNCHANGED shown
         \/ client' = ParsedMessage(acked, m) /\ shown' = m.needs
  BY <1>1 DEF CL_ParseServerMessage
<1> DEFINE r == client.reliableSequence  l == server.lastClientCommand
           scs == client.serverCommandSequence
<1>3. /\ m.needs \in 0 .. server.reliableSequence
      /\ m.acknowledge \in 0 .. l
      /\ ~overwrote => client.reliableAcknowledge <= m.acknowledge
      /\ \E a \in 0 .. m.needs :
           /\ m.commands \in [a + 1 .. m.needs -> ServerTexts]
           /\ a <= scs
           /\ a < m.needs => IsServerText(m.needs, m.commands[m.needs])
           /\ ~server.zombie => \A n \in a + 1 .. m.needs : m.commands[n] = server.said[n]
  <2> DEFINE T == Messages(ServerSequences, ServerTexts)
  <2>1. toClient \in Seq(T) /\ Len(toClient) <= Capacity /\ InOrder(toClient)
        /\ \A i \in 1 .. Len(toClient) : ToClientMessage(toClient[i])
    BY <1>0 DEF MessagesInv
  <2> HIDE DEF T
  <2>2. 1 \in 1 .. Len(toClient) /\ Head(toClient) = toClient[1]
    BY <1>2, <2>1, FirstTaken
  <2>3. ToClientMessage(m)
    BY <1>1, <2>1, <2>2
  <2>. QED BY <2>3, Zenon DEF ToClientMessage
<1>4. /\ client \in [up : BOOLEAN,
        reliableSequence : ClientSequences, reliableAcknowledge : ClientSequences,
        reliableCommands : [Places -> ClientStrings],
        serverCommandSequence : ServerSequences,
        serverCommands : [Places -> ServerTexts],
        lastExecutedServerCommand : ServerSequences,
        serverCommandNum : ServerSequences]
      /\ ~overwrote => r - client.reliableAcknowledge <= MAX_RELIABLE_COMMANDS
  BY <1>0 DEF ClientInv, Outstanding
<1>5. /\ r \in Nat /\ client.reliableAcknowledge \in Nat /\ l \in Nat /\ l <= r /\ scs \in Nat
      /\ m.acknowledge \in Nat /\ m.acknowledge <= l
      /\ server.reliableSequence \in Nat /\ scs <= server.reliableSequence
  BY <1>0, <1>3, Bounds
<1> HIDE DEF r, l, scs
<1>6. PICK k \in Nat : /\ acked = [client EXCEPT !.reliableAcknowledge = k]
                       /\ k <= r /\ r - k <= MAX_RELIABLE_COMMANDS
                       /\ ~overwrote => k <= l /\ k = m.acknowledge
  <2>1. CASE TooOld(client, m.acknowledge)
    <3>1. acked = [client EXCEPT !.reliableAcknowledge = r]
      BY <2>1 DEF Acknowledged, r
    <3>2. m.acknowledge < r - MAX_RELIABLE_COMMANDS
      BY <2>1 DEF TooOld, r
    <3>3. overwrote
      BY <1>3, <1>4, <1>5, <3>2
    <3>4. r <= r /\ r - r <= MAX_RELIABLE_COMMANDS
      BY <1>5
    <3> HIDE DEF acked
    <3>. QED BY <1>5, <3>1, <3>3, <3>4
  <2>2. CASE ~TooOld(client, m.acknowledge)
    <3>1. acked = [client EXCEPT !.reliableAcknowledge = m.acknowledge]
      BY <2>2 DEF Acknowledged
    <3>2. r - m.acknowledge <= MAX_RELIABLE_COMMANDS
      BY <1>5, <2>2 DEF TooOld, r
    <3>3. m.acknowledge <= r
      BY <1>5
    <3> HIDE DEF acked
    <3>. QED BY <1>5, <3>1, <3>2, <3>3
  <2>. QED BY <2>1, <2>2
<1> HIDE DEF acked
<1>7. CASE UNCHANGED <<client, shown>>
  <2>1. UNCHANGED <<client, server, heard, obeyed, overwrote, moved, shown, outOfRange>>
    BY <1>2, <1>7
  <2>2. /\ ClientInv' /\ ServerInv' /\ HeardInv' /\ ObeyedInv'
        /\ \A x : ToServerMessage(x) => ToServerMessage(x)'
        /\ \A x : ToClientMessage(x) => ToClientMessage(x)'
    BY <1>0, <2>1, OnlyMessages
  <2>3. MessagesInv'
    BY <1>0, <1>2, <2>2, FirstToClientTaken
  <2>. QED BY <2>2, <2>3 DEF IInv
<1>8. CASE client' \in {acked, Left(acked)} /\ UNCHANGED shown
  <2>1. PICK up \in BOOLEAN : client' = [client EXCEPT !.up = up, !.reliableAcknowledge = k]
    <3>1. CASE client' = acked
      <4>1. client.up \in BOOLEAN
        BY <1>4
      <4>2. client' = [client EXCEPT !.up = client.up, !.reliableAcknowledge = k]
        BY <1>4, <1>6, <3>1
      <4>. QED BY <4>1, <4>2
    <3>2. CASE client' = Left(acked)
      <4>1. client' = [client EXCEPT !.up = FALSE, !.reliableAcknowledge = k]
        BY <1>4, <1>6, <3>2 DEF Left
      <4>. QED BY <4>1
    <3>. QED BY <1>8, <3>1, <3>2
  <2>. QED BY <1>1, <1>2, <1>6, <1>8, <2>1, ClientTakesAcknowledgement DEF r, l
<1>9. CASE client' = ParsedMessage(acked, m) /\ shown' = m.needs
  <2>1. PICK a \in 0 .. m.needs :
           /\ m.commands \in [a + 1 .. m.needs -> ServerTexts]
           /\ a <= scs
           /\ a < m.needs => IsServerText(m.needs, m.commands[m.needs])
           /\ ~server.zombie => \A n \in a + 1 .. m.needs : m.commands[n] = server.said[n]
    BY <1>3
  <2>2. /\ m.needs \in Nat /\ a \in Nat /\ m.needs <= server.reliableSequence
        /\ m.needs \in ServerSequences
    <3>1. /\ m.needs \in Nat /\ a \in Nat /\ m.needs <= server.reliableSequence
      BY <1>3, <1>5, <2>1
    <3>2. server.reliableSequence <= MaxServerSequence
      BY <1>0 DEF ServerInv
    <3>3. m.needs \in ServerSequences
      BY <1>5, <3>1, <3>2 DEF ServerSequences, MaxServerSequence
    <3>. QED BY <3>1, <3>3
  <2>3. PICK last \in Nat : last = LastParsed(m.commands, scs)
    <3>1. DOMAIN m.commands = a + 1 .. m.needs
      BY <2>1
    <3>. QED BY <1>5, <2>1, <2>2, <3>1, LastParsedIs
  <2>4. last = m.needs \/ last = scs
    <3>1. DOMAIN m.commands = a + 1 .. m.needs
      BY <2>1
    <3>. QED BY <1>5, <2>1, <2>2, <2>3, <3>1, LastParsedIs
  <2>5. scs <= last /\ m.needs <= last
    <3>1. DOMAIN m.commands = a + 1 .. m.needs
      BY <2>1
    <3>. QED BY <1>5, <2>1, <2>2, <2>3, <3>1, LastParsedIs
  <2>6. PICK ring : ring = RingParsed(client.serverCommands, m.commands, scs)
    OBVIOUS
  <2>7. /\ ring \in [Places -> ServerTexts]
        /\ \A n \in 0 .. last : last - n < MAX_RELIABLE_COMMANDS =>
             ring[Index(n)] = IF n <= scs THEN client.serverCommands[Index(n)] ELSE m.commands[n]
    <3>1. client.serverCommands \in [Places -> ServerTexts]
      BY <1>4
    <3>2. IsParsed(client.serverCommands, m.commands, scs, last, ring)
      BY <1>5, <2>1, <2>2, <2>3, <2>6, <3>1, RingParsedIs
    <3>. QED BY <3>2 DEF IsParsed
  <2>8. last \in ServerSequences /\ last <= server.reliableSequence
    BY <1>0, <1>5, <2>2, <2>4, Bounds DEF scs
  <2>9. client' = [client EXCEPT !.reliableAcknowledge = k, !.serverCommandSequence = last,
                                 !.serverCommands = ring, !.serverCommandNum = last]
    <3>1. /\ acked.serverCommandSequence = scs /\ acked.serverCommands = client.serverCommands
      BY <1>4, <1>6 DEF scs
    <3>2. ParsedCommandStrings(acked, m.commands)
            = [acked EXCEPT !.serverCommandSequence = last, !.serverCommands = ring]
      BY <1>4, <1>6, <2>3, <2>6, <3>1
        DEF ParsedCommandStrings, LastParsed, RingParsed, NewerAt
    <3>. QED BY <1>4, <1>6, <1>9, <3>2 DEF ParsedMessage
  <2>10. k \in ClientSequences /\ k <= r
    BY <1>0, <1>6, Bounds DEF ClientSequences, r
  <2>11. /\ client'.reliableSequence = r /\ client'.reliableAcknowledge = k
         /\ client'.reliableCommands = client.reliableCommands
         /\ client'.serverCommandSequence = last
         /\ client'.serverCommands = ring
         /\ client'.lastExecutedServerCommand = client.lastExecutedServerCommand
         /\ client'.serverCommandNum = last
         /\ client' \in [up : BOOLEAN,
           reliableSequence : ClientSequences, reliableAcknowledge : ClientSequences,
           reliableCommands : [Places -> ClientStrings],
           serverCommandSequence : ServerSequences,
           serverCommands : [Places -> ServerTexts],
           lastExecutedServerCommand : ServerSequences,
           serverCommandNum : ServerSequences]
    BY <1>4, <2>7, <2>8, <2>9, <2>10, Zenon DEF r
  <2>12. /\ ServerInv'
         /\ \A x : ToServerMessage(x) => ToServerMessage(x)'
         /\ \A x : ToClientMessage(x) /\ (~overwrote' => client'.reliableAcknowledge <= x.acknowledge)
                    => ToClientMessage(x)'
    <3>1. /\ client'.reliableSequence \in Nat
          /\ client.reliableSequence <= client'.reliableSequence
          /\ client'.serverCommandSequence \in Nat
          /\ client.serverCommandSequence <= client'.serverCommandSequence
      BY <1>5, <2>5, <2>11 DEF r, scs
    <3>2. server' = server /\ (overwrote => overwrote')
      BY <1>2
    <3>. QED BY <1>0, <3>1, <3>2, ClientMoves, Zenon
  <2>13. IsServerText(last, ring[Index(last)])
    <3>0. last \in 0 .. last /\ last - last < MAX_RELIABLE_COMMANDS
      BY <2>3
    <3>1. CASE last <= scs
      <4>1. last = scs /\ ring[Index(last)] = client.serverCommands[Index(scs)]
        BY <1>5, <2>3, <2>5, <2>7, <3>0, <3>1
      <4>2. IsServerText(scs, client.serverCommands[Index(scs)])
        BY <1>0 DEF ClientInv, scs
      <4>. QED BY <4>1, <4>2
    <3>2. CASE ~(last <= scs)
      <4>1. last = m.needs /\ ring[Index(last)] = m.commands[m.needs]
        BY <1>5, <2>4, <2>7, <3>0, <3>2
      <4>2. a < m.needs
        BY <1>5, <2>1, <2>2, <3>2, <4>1
      <4>. QED BY <2>1, <4>1, <4>2
    <3>. QED BY <3>1, <3>2
  <2>14. ASSUME ~server.zombie, NEW n \in 1 .. last, last - n < MAX_RELIABLE_COMMANDS
         PROVE  ring[Index(n)] = server.said[n]
    <3>1. CASE n <= scs
      <4>1. n \in 0 .. last /\ n \in 1 .. scs /\ scs - n < MAX_RELIABLE_COMMANDS
        BY <1>5, <2>3, <2>5, <2>14, <3>1
      <4>2. client.serverCommands[Index(n)] = server.said[n]
        BY <1>0, <2>14, <4>1 DEF ClientInv, scs
      <4>. QED BY <2>7, <2>14, <3>1, <4>1, <4>2
    <3>2. CASE ~(n <= scs)
      <4>1. n \in 0 .. last /\ n \in a + 1 .. m.needs
        BY <1>5, <2>1, <2>2, <2>3, <2>4, <3>2
      <4>. QED BY <2>1, <2>7, <2>14, <3>2, <4>1
    <3>. QED BY <3>1, <3>2
  <2>15. ~overwrote' => /\ Outstanding(client') <= MAX_RELIABLE_COMMANDS
                        /\ client'.reliableAcknowledge <= server'.lastClientCommand
    BY <1>2, <1>6, <2>11 DEF Outstanding, l
  <2>16. IsServerText(client.serverCommandSequence,
                      client.serverCommands[Index(client.serverCommandSequence)])'
    BY <1>2, <2>11, <2>13 DEF IsServerText
  <2>17. /\ client'.lastExecutedServerCommand <= client'.serverCommandNum
         /\ client'.serverCommandNum <= client'.serverCommandSequence
         /\ client'.serverCommandSequence <= server'.reliableSequence
         /\ client'.reliableAcknowledge <= client'.reliableSequence
    BY <1>0, <1>2, <2>3, <2>5, <2>8, <2>10, <2>11, Bounds DEF scs
  <2>18. ClientInv'
    <3>1. \A n \in 0 .. client'.reliableSequence :
            client'.reliableSequence - n < MAX_RELIABLE_COMMANDS =>
              client'.reliableCommands[Index(n)] = n
      BY <1>0, <2>11 DEF ClientInv, r
    <3>2. ~server'.zombie =>
            \A n \in 1 .. client'.serverCommandSequence :
              client'.serverCommandSequence - n < MAX_RELIABLE_COMMANDS =>
                client'.serverCommands[Index(n)] = server'.said[n]
      BY <1>2, <2>11, <2>14
    <3>. QED BY <2>11, <2>15, <2>16, <2>17, <3>1, <3>2 DEF ClientInv
  <2>19. HeardInv'
    <3>1. shown' \in ServerSequences /\ shown' <= client'.serverCommandNum
      BY <1>9, <2>2, <2>5, <2>11
    <3>. QED BY <1>0, <1>2, <2>11, <3>1 DEF HeardInv
  <2>20. ObeyedInv'
    BY <1>0, <1>2 DEF ObeyedInv
  <2>21. MessagesInv'
    <3>1. ~overwrote' => client'.reliableAcknowledge = Head(toClient).acknowledge
      BY <1>1, <1>2, <1>6, <2>11
    <3>2. \A x : ToClientMessage(x) /\ x.acknowledge \in Int
                  /\ Head(toClient).acknowledge <= x.acknowledge
                  => ToClientMessage(x)'
      BY <2>12, <3>1
    <3>. QED BY <1>0, <1>2, <2>12, <3>2, FirstToClientTaken
  <2>. QED BY <2>12, <2>18, <2>19, <2>20, <2>21 DEF IInv
<1>. QED BY <1>2, <1>7, <1>8, <1>9

\* cgame executes commands, or leaves.
LEMMA CL_GetServerCommandInv == IInv /\ CL_GetServerCommand => IInv'
<1> SUFFICES ASSUME IInv, CL_GetServerCommand PROVE IInv'
  OBVIOUS
<1>0. ClientInv /\ ServerInv /\ HeardInv /\ ObeyedInv /\ MessagesInv
  BY DEF IInv
<1> DEFINE Command(n) == client.serverCommands[Index(n)]
<1>1. PICK first, disconnects, last :
        /\ first = client.lastExecutedServerCommand + 1
        /\ disconnects = {n \in first .. client.serverCommandNum : Command(n) = Disconnect}
        /\ last = IF disconnects = {} THEN client.serverCommandNum ELSE Min(disconnects)
  OBVIOUS
<1>2. /\ UNCHANGED <<server, toServer, toClient, obeyed, overwrote, moved, shown, outOfRange>>
      /\ first <= client.serverCommandNum
      /\ \/ client' = Left(client) /\ UNCHANGED heard
         \/ /\ ~CycledOut(client, first)
            /\ heard' = heard \o Interval([n \in first .. last |-> Command(n)], first, last)
            /\ client' = [client EXCEPT !.lastExecutedServerCommand = last,
                                        !.up = (disconnects = {})]
  BY <1>1 DEF CL_GetServerCommand
<1> DEFINE scs == client.serverCommandSequence  num == client.serverCommandNum
<1>3. /\ client \in [up : BOOLEAN,
        reliableSequence : ClientSequences, reliableAcknowledge : ClientSequences,
        reliableCommands : [Places -> ClientStrings],
        serverCommandSequence : ServerSequences,
        serverCommands : [Places -> ServerTexts],
        lastExecutedServerCommand : ServerSequences,
        serverCommandNum : ServerSequences]
      /\ num \in Nat /\ scs \in Nat /\ num <= scs /\ num \in ServerSequences
      /\ first \in Nat \ {0} /\ client.lastExecutedServerCommand \in Nat
      /\ client.reliableSequence \in Nat
  <2>1. client \in [up : BOOLEAN,
        reliableSequence : ClientSequences, reliableAcknowledge : ClientSequences,
        reliableCommands : [Places -> ClientStrings],
        serverCommandSequence : ServerSequences,
        serverCommands : [Places -> ServerTexts],
        lastExecutedServerCommand : ServerSequences,
        serverCommandNum : ServerSequences]
    BY <1>0 DEF ClientInv
  <2>. QED BY <1>0, <1>1, <2>1, Bounds
<1>4. PICK up \in BOOLEAN : up = (disconnects = {})
  OBVIOUS
<1>5. last \in Nat /\ first <= last /\ last <= num
  <2>1. CASE disconnects = {}
    BY <1>1, <1>2, <1>3, <2>1
  <2>2. CASE disconnects # {}
    <3>1. disconnects \in SUBSET Nat
      BY <1>1, <1>3
    <3>2. last \in disconnects
      BY <1>1, <2>2, <3>1, MinIs
    <3>. QED BY <1>1, <1>3, <3>2
  <2>. QED BY <2>1, <2>2
<1>6. ASSUME NEW x \in BOOLEAN, NEW y \in Nat, client.lastExecutedServerCommand <= y, y <= num,
             client' = [client EXCEPT !.up = x, !.lastExecutedServerCommand = y],
             heard' \in Seq(ServerTexts), Len(heard') = y,
             ~server.zombie => \A n \in 1 .. Len(heard') : heard'[n] = server.said[n]
      PROVE  IInv'
  <2>1. y \in ServerSequences
    BY <1>3, <1>6 DEF ServerSequences, MaxServerSequence
  <2>2. /\ client'.reliableSequence = client.reliableSequence
        /\ client'.reliableAcknowledge = client.reliableAcknowledge
        /\ client'.reliableCommands = client.reliableCommands
        /\ client'.serverCommandSequence = scs
        /\ client'.serverCommands = client.serverCommands
        /\ client'.lastExecutedServerCommand = y
        /\ client'.serverCommandNum = num
        /\ client' \in [up : BOOLEAN,
          reliableSequence : ClientSequences, reliableAcknowledge : ClientSequences,
          reliableCommands : [Places -> ClientStrings],
          serverCommandSequence : ServerSequences,
          serverCommands : [Places -> ServerTexts],
          lastExecutedServerCommand : ServerSequences,
          serverCommandNum : ServerSequences]
    BY <1>3, <1>6, <2>1, Zenon
  <2>3. IsServerText(client.serverCommandSequence,
                     client.serverCommands[Index(client.serverCommandSequence)])'
    BY <1>0, <1>2, <2>2 DEF ClientInv, IsServerText
  <2>4. ClientInv'
    BY <1>0, <1>2, <1>6, <2>2, <2>3 DEF ClientInv, Outstanding
  <2>5. /\ ServerInv'
        /\ \A m : ToServerMessage(m) => ToServerMessage(m)'
        /\ \A m : ToClientMessage(m) /\ (~overwrote' => client'.reliableAcknowledge <= m.acknowledge)
                    => ToClientMessage(m)'
    <3>1. /\ client'.reliableSequence \in Nat
          /\ client.reliableSequence <= client'.reliableSequence
          /\ client'.serverCommandSequence \in Nat
          /\ client.serverCommandSequence <= client'.serverCommandSequence
      BY <1>3, <2>2
    <3>2. server' = server /\ (overwrote => overwrote')
      BY <1>2
    <3>. QED BY <1>0, <3>1, <3>2, ClientMoves, Zenon
  <2>6. HeardInv'
    BY <1>0, <1>2, <1>6, <2>2 DEF HeardInv
  <2>7. ObeyedInv'
    BY <1>0, <1>2 DEF ObeyedInv
  <2>8. MessagesInv'
    <3>1. \A m : ToClientMessage(m) => (~overwrote' => client'.reliableAcknowledge <= m.acknowledge)
      BY <1>2, <2>2 DEF ToClientMessage
    <3>2. \A m : ToClientMessage(m) => ToClientMessage(m)'
      BY <2>5, <3>1, Zenon
    <3>. QED BY <1>0, <1>2, <2>5, <3>2 DEF MessagesInv
  <2>. QED BY <2>4, <2>5, <2>6, <2>7, <2>8 DEF IInv
<1>7. CASE client' = Left(client) /\ UNCHANGED heard
  <2>1. client' = [client EXCEPT !.up = FALSE,
                     !.lastExecutedServerCommand = client.lastExecutedServerCommand]
    BY <1>3, <1>7 DEF Left
  <2>2. /\ heard' \in Seq(ServerTexts) /\ Len(heard') = client.lastExecutedServerCommand
        /\ ~server.zombie => \A n \in 1 .. Len(heard') : heard'[n] = server.said[n]
    BY <1>0, <1>7 DEF HeardInv
  <2>3. client.lastExecutedServerCommand <= client.lastExecutedServerCommand
        /\ client.lastExecutedServerCommand <= num
    BY <1>0, <1>3, Bounds
  <2>. QED BY <1>3, <1>6, <2>1, <2>2, <2>3
<1>8. CASE /\ ~CycledOut(client, first)
           /\ heard' = heard \o Interval([n \in first .. last |-> Command(n)], first, last)
           /\ client' = [client EXCEPT !.lastExecutedServerCommand = last,
                                       !.up = (disconnects = {})]
  <2>1. client' = [client EXCEPT !.up = up, !.lastExecutedServerCommand = last]
    BY <1>3, <1>4, <1>8
  <2>2. PICK commands : commands = [n \in first .. last |-> Command(n)]
    OBVIOUS
  <2>3. /\ heard \in Seq(ServerTexts) /\ Len(heard) = client.lastExecutedServerCommand
        /\ ~server.zombie => \A n \in 1 .. Len(heard) : heard[n] = server.said[n]
    BY <1>0 DEF HeardInv
  <2>4. first = Len(heard) + 1 /\ Len(heard) <= last /\ Len(heard) \in Nat
    BY <1>1, <1>3, <1>5, <2>3
  <2>5. heard' = WithNoted(heard, commands, last)
    BY <1>8, <2>2, <2>4 DEF WithNoted
  <2>6. \A n \in Len(heard) + 1 .. last : commands[n] = Command(n) /\ commands[n] \in ServerTexts
    <3>1. \A n \in first .. last : Index(n) \in Places
      BY <1>3, IndexInRing DEF Places
    <3>. QED BY <1>3, <2>2, <2>4, <3>1
  <2>7. IsNoted(ServerTexts, heard, commands, last, heard')
    BY <1>5, <2>3, <2>4, <2>5, <2>6, Noted
  <2>8. /\ heard' \in Seq(ServerTexts) /\ Len(heard') = last
        /\ \A n \in 1 .. Len(heard) : heard'[n] = heard[n]
        /\ \A n \in Len(heard) + 1 .. last : heard'[n] = commands[n]
    BY <2>7 DEF IsNoted
  <2>9. ASSUME ~server.zombie, NEW n \in 1 .. last
        PROVE  heard'[n] = server.said[n]
    <3>1. CASE n \in 1 .. Len(heard)
      BY <2>3, <2>8, <2>9, <3>1
    <3>2. CASE ~(n \in 1 .. Len(heard))
      <4>1. n \in Len(heard) + 1 .. last
        BY <1>5, <2>4, <3>2
      <4>2. n \in 1 .. scs /\ scs - n < MAX_RELIABLE_COMMANDS
        <5>1. ~(first <= scs - MAX_RELIABLE_COMMANDS)
          BY <1>8 DEF CycledOut
        <5>. QED BY <1>3, <1>5, <2>4, <4>1, <5>1
      <4>3. Command(n) = server.said[n]
        BY <1>0, <2>9, <4>2 DEF ClientInv
      <4>. QED BY <2>6, <2>8, <4>1, <4>3
    <3>. QED BY <3>1, <3>2
  <2>10. client.lastExecutedServerCommand <= last
    BY <2>3, <2>4
  <2>. QED BY <1>5, <1>6, <2>1, <2>8, <2>9, <2>10
<1>. QED BY <1>2, <1>7, <1>8

-----------------------------------------------------------------------------
(* The theorems.                                                            *)

LEMMA NextInv == IInv /\ [Next]_vars => IInv'
<1> SUFFICES ASSUME IInv, [Next]_vars PROVE IInv'
  OBVIOUS
<1>1. CASE CL_AddReliableCommand
  BY <1>1, CL_AddReliableCommandInv
<1>2. CASE CL_WritePacket
  BY <1>2, CL_WritePacketInv
<1>3. CASE CL_ParseServerMessage
  BY <1>3, CL_ParseServerMessageInv
<1>4. CASE CL_GetServerCommand
  BY <1>4, CL_GetServerCommandInv
<1>5. CASE SendServerCommand
  BY <1>5, SendServerCommandInv
<1>6. CASE DropClient
  BY <1>6, DropClientInv
<1>7. CASE SV_SendClientSnapshot
  BY <1>7, SV_SendClientSnapshotInv
<1>8. CASE SV_PacketEvent
  BY <1>8, SV_PacketEventInv
<1>9. CASE Lose
  BY <1>9, LoseInv
<1>10. CASE UNCHANGED vars
  <2>1. /\ UNCHANGED <<client, server, heard, obeyed, overwrote, moved, shown, outOfRange>>
        /\ toServer' = toServer /\ toClient' = toClient
    BY <1>10 DEF vars
  <2>2. ClientInv /\ ServerInv /\ HeardInv /\ ObeyedInv /\ MessagesInv
    BY DEF IInv
  <2>3. /\ ClientInv' /\ ServerInv' /\ HeardInv' /\ ObeyedInv'
        /\ \A m : ToServerMessage(m) => ToServerMessage(m)'
        /\ \A m : ToClientMessage(m) => ToClientMessage(m)'
    BY <2>1, <2>2, OnlyMessages
  <2>4. MessagesInv'
    BY <2>1, <2>2, <2>3 DEF MessagesInv
  <2>. QED BY <2>3, <2>4 DEF IInv
<1>. QED BY <1>1, <1>2, <1>3, <1>4, <1>5, <1>6, <1>7, <1>8, <1>9, <1>10 DEF Next

\* The inductive invariant: what each ring and each message on its way holds, and how
\* far the acknowledgements, the messages and the histories may be apart.
THEOREM Invariance == Spec => []IInv
<1>1. Init => IInv
  BY InitInv
<1>2. IInv /\ [Next]_vars => IInv'
  BY NextInv
<1>. QED BY <1>1, <1>2, PTL DEF Spec

\* Whatever is lost, cgame hears exactly what the game said, in order and once, until the
\* client is dropped (CL_ParseCommandString, CL_GetServerCommand), and the server obeys
\* exactly what the client said as long as the client has overwritten nothing the server
\* may still need (SV_ClientCommand).
THEOREM Faithful == Spec => []CommandsFaithful
<1>1. IInv => CommandsFaithful
  <2> SUFFICES ASSUME IInv PROVE CommandsFaithful
    OBVIOUS
  <2>0. ClientInv /\ ServerInv /\ HeardInv /\ ObeyedInv
    BY DEF IInv
  <2>1. ASSUME ~server.zombie
        PROVE  heard = SubSeq(server.said, 1, Len(heard))
    <3>1. PICK n \in Nat : n = Len(heard)
      BY <2>0, Bounds DEF HeardInv
    <3>2. /\ heard \in Seq(ServerTexts)
          /\ \A i \in 1 .. n : heard[i] = server.said[i]
      BY <2>0, <2>1, <3>1 DEF HeardInv
    <3>3. \A i \in 1 .. n : heard[i] \in ServerTexts
      BY <3>1, <3>2, ElementOfSeq
    <3>4. PICK t : t = SubSeq(server.said, 1, n)
      OBVIOUS
    <3>5. \A i \in 1 .. n : server.said[i] \in ServerTexts
      BY <3>2, <3>3
    <3>6. /\ t \in Seq(ServerTexts)
          /\ Len(t) = IF 1 <= n THEN n - 1 + 1 ELSE 0
          /\ \A i \in 1 .. n - 1 + 1 : t[i] = server.said[1 + i - 1]
      BY <3>4, <3>5, SubSeqProperties
    <3>7. Len(t) = n
      BY <3>6
    <3>8. \A i \in 1 .. n : i \in 1 .. n - 1 + 1 /\ 1 + i - 1 = i
      OBVIOUS
    <3>9. \A i \in 1 .. n : heard[i] = t[i]
      BY <3>2, <3>6, <3>8
    <3>10. heard = t
      BY <3>1, <3>2, <3>6, <3>7, <3>9, SeqEqual
    <3>. QED BY <3>1, <3>4, <3>10
  <2>2. ~overwrote => \A i \in 1 .. Len(obeyed) : obeyed[i] = i
    BY <2>0 DEF ObeyedInv
  <2>. QED BY <2>1, <2>2
       DEF CommandsFaithful, ServerCommandsFaithful, ClientCommandsFaithful
<1>. QED BY <1>1, Invariance, PTL

\* A message is decoded with the string it was encoded with, while less than a ring of
\* commands is outstanding at the end that decodes it (CL_Netchan_Decode and
\* SV_Netchan_Decode): also when the client has overwritten commands, and when the server
\* is about to drop it.
THEOREM Decodes == Spec => []KeysAgree
<1>1. IInv => KeysAgree
  <2> SUFFICES ASSUME IInv PROVE KeysAgree
    OBVIOUS
  <2>0. ClientInv /\ ServerInv /\ MessagesInv
    BY DEF IInv
  <2>1. ASSUME NEW i \in 1 .. Len(toClient),
               client.reliableSequence - toClient[i].acknowledge < MAX_RELIABLE_COMMANDS
        PROVE  ClientDecodes(toClient[i])
    <3>1. PICK m : m = toClient[i]
      OBVIOUS
    <3>2. ToClientMessage(m)
      BY <2>0, <3>1 DEF MessagesInv
    <3>3. m.acknowledge \in 0 .. server.lastClientCommand /\ m.key = m.acknowledge
      BY <3>2 DEF ToClientMessage
    <3>4. m.acknowledge \in 0 .. client.reliableSequence
      BY <2>0, <3>3, Bounds
    <3>5. client.reliableCommands[Index(m.acknowledge)] = m.acknowledge
      BY <2>0, <2>1, <3>1, <3>4 DEF ClientInv
    <3>. QED BY <3>1, <3>3, <3>5 DEF ClientDecodes
  <2>2. ASSUME NEW i \in 1 .. Len(toServer),
               server.reliableSequence - toServer[i].acknowledge < MAX_RELIABLE_COMMANDS
        PROVE  ServerDecodes(toServer[i])
    <3>1. PICK m : m = toServer[i]
      OBVIOUS
    <3>2. ToServerMessage(m)
      BY <2>0, <3>1 DEF MessagesInv
    <3>3. IsServerText(m.acknowledge, m.key)
      BY <3>2 DEF ToServerMessage
    <3>. QED BY <2>2, <3>1, <3>3 DEF IsServerText, ServerDecodes
  <2>. QED BY <2>1, <2>2 DEF KeysAgree
<1>. QED BY <1>1, Invariance, PTL

\* No move is executed before a command that was added before it, as long as the client
\* has overwritten nothing (SV_ExecuteClientMessage), and no snapshot is given to cgame
\* with a smaller number than the commands it may depend on (CL_ParseSnapshot).
THEOREM First == Spec => []CommandsFirst
<1>1. IInv => CommandsFirst
  BY DEF IInv, HeardInv, ObeyedInv, CommandsFirst, MovesFollowCommands, SnapshotsFollowCommands
<1>. QED BY <1>1, Invariance, PTL

\* Numbers and histories stay within what was added, acknowledgements are only of what was
\* received, and an honest client's acknowledgement is never refused as out of range
\* (SV_ExecuteClientMessage).
THEOREM Sound == Spec => []AcknowledgementsSound
<1>1. IInv => AcknowledgementsSound
  <2> SUFFICES ASSUME IInv PROVE AcknowledgementsSound
    OBVIOUS
  <2>0. ClientInv /\ ServerInv /\ HeardInv /\ ObeyedInv /\ MessagesInv
    BY DEF IInv
  <2>1. /\ DOMAIN EmptyRing = Places /\ ServerSequences = 0 .. MaxServerSequence
        /\ ClientSequences = 0 .. MaxClientCommands
        /\ ClientStrings = AddedCommands \cup {0} /\ ServerTexts = ServerStrings \cup {0}
    BY DEF EmptyRing, Places, ServerSequences, ClientSequences, ClientStrings, ServerTexts
  <2>2. client \in [up : BOOLEAN,
        reliableSequence : 0 .. MaxClientCommands, reliableAcknowledge : 0 .. MaxClientCommands,
        reliableCommands : [DOMAIN EmptyRing -> AddedCommands \cup {0}],
        serverCommandSequence : 0 .. MaxServerSequence,
        serverCommands : [DOMAIN EmptyRing -> ServerStrings \cup {0}],
        lastExecutedServerCommand : 0 .. MaxServerSequence,
        serverCommandNum : 0 .. MaxServerSequence]
    BY <2>0, <2>1 DEF ClientInv
  <2>3. /\ server \in [zombie : BOOLEAN,
             reliableSequence : Nat, reliableAcknowledge : Nat,
             reliableCommands : [Places -> ServerTexts],
             lastClientCommand : Nat, lastClientCommandString : Nat,
             said : Seq(ServerStrings), drops : Nat]
        /\ Len(server.said) = server.reliableSequence
        /\ server.drops <= 2 /\ server.lastClientCommand \in ClientSequences
        /\ server.lastClientCommandString = server.lastClientCommand
    BY <2>0 DEF ServerInv, ServerRecord
  <2>4. PICK s : s = [server EXCEPT !.said = <<>>]
    OBVIOUS
  <2>5. /\ server.reliableSequence \in 0 .. MaxServerSequence
        /\ server.reliableAcknowledge \in 0 .. MaxServerSequence
        /\ server.lastClientCommand \in 0 .. MaxClientCommands
        /\ server.drops \in 0 .. 2
    <3>1. /\ server.reliableSequence \in ServerSequences
          /\ server.reliableAcknowledge \in Nat
          /\ server.reliableAcknowledge <= server.reliableSequence
      BY <2>0, Bounds
    <3>2. MaxServerSequence \in Nat
      BY DEF MaxServerSequence
    <3>. QED BY <2>1, <2>3, <3>1, <3>2
  <2>6. server.lastClientCommandString \in AddedCommands \cup {0}
    BY <2>3, <2>5 DEF AddedCommands
  <2>7. s \in [zombie : BOOLEAN,
        reliableSequence : 0 .. MaxServerSequence, reliableAcknowledge : 0 .. MaxServerSequence,
        reliableCommands : [DOMAIN EmptyRing -> ServerStrings \cup {0}],
        lastClientCommand : 0 .. MaxClientCommands,
        lastClientCommandString : AddedCommands \cup {0},
        said : {<<>>}, drops : 0 .. 2]
    <3>1. s = [zombie |-> server.zombie, reliableSequence |-> server.reliableSequence,
               reliableAcknowledge |-> server.reliableAcknowledge,
               reliableCommands |-> server.reliableCommands,
               lastClientCommand |-> server.lastClientCommand,
               lastClientCommandString |-> server.lastClientCommandString,
               said |-> <<>>, drops |-> server.drops]
      BY <2>3, <2>4
    <3>2. server.zombie \in BOOLEAN /\ server.reliableCommands \in [Places -> ServerTexts]
      BY <2>3
    <3>3. server.reliableCommands \in [DOMAIN EmptyRing -> ServerStrings \cup {0}]
      BY <2>1, <3>2
    <3>. QED BY <2>5, <2>6, <3>1, <3>2, <3>3, Zenon
  <2>8. Len(obeyed) <= MaxClientCommands /\ Len(heard) <= MaxServerSequence
    <3>1. /\ Len(obeyed) = server.lastClientCommand
          /\ Len(heard) = client.lastExecutedServerCommand
      BY <2>0 DEF ObeyedInv, HeardInv
    <3>2. client.lastExecutedServerCommand \in 0 .. MaxServerSequence
      BY <2>2
    <3>3. MaxServerSequence \in Nat
      BY DEF MaxServerSequence
    <3>. QED BY <2>5, <3>1, <3>2, <3>3
  <2>9. /\ Len(toServer) <= Capacity /\ Len(toClient) <= Capacity
        /\ overwrote \in BOOLEAN /\ outOfRange \in BOOLEAN
        /\ moved \in 0 .. MaxClientCommands /\ shown \in 0 .. MaxServerSequence
    BY <2>0, <2>1 DEF MessagesInv, ObeyedInv, HeardInv
  <2>10. TypeOK
    BY <2>2, <2>3, <2>4, <2>7, <2>8, <2>9 DEF TypeOK
  <2>11. AcknowledgedIsReceived
    BY <2>0 DEF ClientInv, ServerInv, AcknowledgedIsReceived
  <2>12. HonestInRange
    BY <2>0 DEF ObeyedInv, HonestInRange
  <2>. QED BY <2>10, <2>11, <2>12 DEF AcknowledgementsSound
<1>. QED BY <1>1, Invariance, PTL
=============================================================================
