--------------------------- MODULE SnapshotsProofs ---------------------------
(***************************************************************************)
(* Proofs about delta compression for every size of the backup, of the     *)
(* rings and of the frames, every margin the code could have chosen and    *)
(* any number of messages, in whatever way they are lost, until a frame is *)
(* written over itself or over its base (overran).                         *)
(***************************************************************************)
EXTENDS Snapshots, SequenceTheorems, TLAPS

USE SnapshotsAssumption

-----------------------------------------------------------------------------
(* Rings.  A position counts on for ever, its place in the ring of size L   *)
(* is its remainder.                                                        *)

LEMMA Division ==
  ASSUME NEW a \in Int, NEW L \in Nat \ {0}
  PROVE  a = L * (a \div L) + (a % L) /\ a \div L \in Int /\ a % L \in 0 .. L - 1
OBVIOUS

LEMMA MultiplesApart ==
  ASSUME NEW x \in Int, NEW y \in Int, NEW L \in Nat \ {0}, x < y
  PROVE  L * x + L <= L * y
OBVIOUS

LEMMA RemainderUnique ==
  ASSUME NEW q \in Int, NEW L \in Nat \ {0}, NEW r \in 0 .. L - 1
  PROVE  (L * q + r) % L = r
OBVIOUS

\* The place of a position.  Its definition stays hidden: the lemmas say all that is
\* needed of it, and the provers cope badly with a remainder by a variable.
Place(p, L) == p % L

LEMMA PlaceInRing ==
  ASSUME NEW p \in Int, NEW L \in Nat \ {0}
  PROVE  Place(p, L) \in 0 .. L - 1
BY DEF Place

LEMMA PlaceOfSmall ==
  ASSUME NEW L \in Nat \ {0}, NEW p \in 0 .. L - 1
  PROVE  Place(p, L) = p
BY DEF Place

\* Two positions less than a ring apart have different places.
LEMMA SamePlace ==
  ASSUME NEW a \in Int, NEW b \in Int, NEW L \in Nat \ {0},
         Place(a, L) = Place(b, L), a < b + L, b < a + L
  PROVE  a = b
<1> DEFINE x == a \div L  y == b \div L  r == a % L
<1>1. a = L * x + r /\ b = L * y + r /\ x \in Int /\ y \in Int /\ r \in 0 .. L - 1
  BY Division DEF Place
<1> HIDE DEF x, y, r
<1>2. ~(x < y) /\ ~(y < x)
  BY <1>1, MultiplesApart
<1>. QED BY <1>1, <1>2

\* A multiple of the size more makes no difference.
LEMMA Around ==
  ASSUME NEW a \in Int, NEW q \in Int, NEW L \in Nat \ {0}
  PROVE  Place(L * q + a, L) = Place(a, L)
<1> DEFINE x == a \div L  r == a % L
<1>1. a = L * x + r /\ x \in Int /\ r \in 0 .. L - 1
  BY Division
<1> HIDE DEF x, r
<1>2. L * q + a = L * (q + x) + r /\ q + x \in Int
  BY <1>1
<1>3. (L * (q + x) + r) % L = r
  BY <1>1, <1>2, RemainderUnique
<1>. QED BY <1>2, <1>3 DEF r, Place

\* The distance behind a position is the same for the place of another.
LEMMA PlaceBehind ==
  ASSUME NEW p \in Int, NEW e \in Int, NEW L \in Nat \ {0}
  PROVE  Place(e - Place(p, L), L) = Place(e - p, L)
<1> DEFINE x == p \div L  r == p % L
<1>1. p = L * x + r /\ x \in Int /\ r \in 0 .. L - 1
  BY Division
<1> HIDE DEF x, r
<1>2. e - r = L * x + (e - p) /\ e - p \in Int
  BY <1>1
<1>3. Place(L * x + (e - p), L) = Place(e - p, L)
  BY <1>1, <1>2, Around
<1>4. Place(p, L) = r
  BY DEF Place, r
<1>. QED BY <1>2, <1>3, <1>4

\* Among any L positions in a row there is one at each place.
LEMMA PlaceInRow ==
  ASSUME NEW k \in Int, NEW n \in Int, NEW L \in Nat \ {0}
  PROVE  \E j \in n - L + 1 .. n : Place(j, L) = Place(k, L)
<1> DEFINE q == (n - k) \div L  r == (n - k) % L
<1>1. n - k = L * q + r /\ q \in Int /\ r \in 0 .. L - 1
  BY Division
<1> HIDE DEF q, r
<1>2. n - r = L * q + k /\ n - r \in n - L + 1 .. n
  BY <1>1
<1>3. Place(n - r, L) = Place(k, L)
  BY <1>1, <1>2, Around
<1>. QED BY <1>2, <1>3

LEMMA RingLength ==
  ASSUME NEW S, NEW L \in Nat, NEW ring \in [1 .. L -> S]
  PROVE  ring \in Seq(S) /\ Len(ring) = L
<1>1. ring \in UNION {[1 .. n -> S] : n \in Nat}
  BY Zenon
<1>3. ring \in Seq(S)
  BY <1>1, SeqDef, Zenon
<1>2. Len(ring) \in Nat /\ DOMAIN ring = 1 .. Len(ring)
  BY <1>3, LenProperties
<1>. QED BY <1>2, <1>3

\* The value that ends up at place k, if it is one of those written.
Index(k, first, N, L) == N - Place(first + N - k, L)

LEMMA IndexInValues ==
  ASSUME NEW L \in Nat \ {0}, NEW first \in Nat, NEW N \in Nat, NEW k \in 1 .. L
  PROVE  Index(k, first, N, L) \in Int /\ Index(k, first, N, L) <= N
<1>1. first + N - k \in Int
  OBVIOUS
<1>2. Place(first + N - k, L) \in 0 .. L - 1
  BY <1>1, PlaceInRing, Zenon
<1>. QED BY <1>2 DEF Index

LEMMA WroteRing ==
  ASSUME NEW S, NEW L \in Nat \ {0}, NEW ring \in [1 .. L -> S], NEW first \in Nat,
         NEW values \in Seq(S)
  PROVE  Wrote(ring, first, values) \in [1 .. L -> S]
<1> DEFINE N == Len(values)  w == Wrote(ring, first, values)
<1>1. Len(ring) = L /\ N \in Nat
  BY RingLength, LenProperties
<1>2. \A i \in 1 .. N : values[i] \in S
  BY ElementOfSeq
<1>3. w = [k \in 1 .. L |-> IF Index(k, first, N, L) >= 1
                            THEN values[Index(k, first, N, L)] ELSE ring[k]]
  BY <1>1 DEF Wrote, Index, Place
<1> HIDE DEF N, w
<1>4. \A k \in 1 .. L : Index(k, first, N, L) >= 1 => Index(k, first, N, L) \in 1 .. N
  BY <1>1, IndexInValues
<1>5. w \in [1 .. L -> S]
  BY <1>2, <1>3, <1>4
<1>. QED BY <1>5 DEF w

\* Of the last L positions up to the end of what is written, those from first on hold
\* the values, those before it what they held.
LEMMA WroteThere ==
  ASSUME NEW L \in Nat \ {0}, NEW ring, Len(ring) = L, NEW first \in Nat,
         NEW values, Len(values) \in Nat,
         NEW p \in Int, first + Len(values) - L <= p, p < first + Len(values)
  PROVE  Wrote(ring, first, values)[Place(p, L) + 1] =
           IF first <= p THEN values[p - first + 1] ELSE ring[Place(p, L) + 1]
<1> DEFINE N == Len(values)  k == Place(p, L) + 1  e == first + N - 1
<1>0. e \in Int /\ e - p \in 0 .. L - 1 /\ Place(p, L) \in 0 .. L - 1
  BY PlaceInRing
<1>1. k \in 1 .. L /\ Index(k, first, N, L) = p - first + 1
  <2>1. Place(e - Place(p, L), L) = e - p
    <3> HIDE DEF e
    <3>1. Place(e - p, L) = e - p
      BY <1>0, PlaceOfSmall
    <3>2. Place(e - Place(p, L), L) = Place(e - p, L)
      BY <1>0, PlaceBehind
    <3>. QED BY <3>1, <3>2, Zenon
  <2>2. first + N - k = e - Place(p, L)
    BY <1>0
  <2>3. Index(k, first, N, L) = N - (e - p)
    BY <2>1, <2>2 DEF Index
  <2>. QED BY <1>0, <2>3
<1>2. p - first + 1 >= 1 <=> first <= p
  OBVIOUS
<1>3. Wrote(ring, first, values) =
        [j \in 1 .. L |-> IF Index(j, first, N, L) >= 1
                          THEN values[Index(j, first, N, L)] ELSE ring[j]]
  BY DEF Wrote, Index, Place
<1> HIDE DEF N, k, e
<1>4. Wrote(ring, first, values)[k] = IF first <= p THEN values[p - first + 1] ELSE ring[k]
  BY <1>1, <1>2, <1>3
<1>. QED BY <1>4 DEF k

-----------------------------------------------------------------------------
(* Entities in a ring.                                                      *)

\* The count entities of frame number, written from position first on, are in the
\* ring of size L as far as they have not been written over.
Holds(ring, L, next, number, first, count) ==
  /\ first + count <= next
  /\ \A i \in 1 .. count :
       first + i - 1 >= next - L => ring[Place(first + i - 1, L) + 1] = <<number, i>>

LEMMA HoldsOn ==
  ASSUME NEW S, NEW L \in Nat \ {0}, NEW ring \in [1 .. L -> S], NEW next \in Nat,
         NEW values \in Seq(S), NEW number, NEW first \in Nat, NEW count \in Nat,
         Holds(ring, L, next, number, first, count)
  PROVE  Holds(Wrote(ring, next, values), L, next + Len(values), number, first, count)
<1>1. Len(values) \in Nat
  BY LenProperties
<1>2. ASSUME NEW i \in 1 .. count, first + i - 1 >= next + Len(values) - L
      PROVE  Wrote(ring, next, values)[Place(first + i - 1, L) + 1] = <<number, i>>
  <2> DEFINE p == first + i - 1
  <2>1. p \in Int /\ next + Len(values) - L <= p /\ p < next /\ p >= next - L
    BY <1>1, <1>2 DEF Holds
  <2>2. Wrote(ring, next, values)[Place(p, L) + 1] = ring[Place(p, L) + 1]
    <3>1. /\ ~(next <= p) /\ p < next + Len(values)
          /\ next + Len(values) - L <= p /\ p \in Int
      BY <1>1, <2>1
    <3>2. Len(ring) = L
      BY RingLength
    <3> HIDE DEF p
    <3>. QED BY <1>1, <3>1, <3>2, WroteThere
  <2>3. ring[Place(p, L) + 1] = <<number, i>>
    BY <2>1 DEF Holds
  <2>. QED BY <2>2, <2>3, Zenon
<1> DEFINE w == Wrote(ring, next, values)  n == next + Len(values)
<1>3. first + count <= n /\ n \in Nat
  BY <1>1 DEF Holds
<1>4. \A i \in 1 .. count : first + i - 1 >= n - L =>
                              w[Place(first + i - 1, L) + 1] = <<number, i>>
  <2> HIDE DEF w, n
  <2> SUFFICES ASSUME NEW i \in 1 .. count, first + i - 1 >= n - L
               PROVE  w[Place(first + i - 1, L) + 1] = <<number, i>>
    OBVIOUS
  <2>1. first + i - 1 >= next + Len(values) - L
    BY DEF n
  <2>2. Wrote(ring, next, values)[Place(first + i - 1, L) + 1] = <<number, i>>
    BY <1>2, <2>1, Zenon
  <2>. QED BY <2>2, Zenon DEF w
<1> HIDE DEF w, n
<1>5. Holds(w, L, n, number, first, count)
  BY <1>3, <1>4 DEF Holds
<1>. QED BY <1>5 DEF w, n

LEMMA HoldsNew ==
  ASSUME NEW S, NEW L \in Nat \ {0}, NEW ring \in [1 .. L -> S], NEW next \in Nat,
         NEW number, NEW count \in Nat,
         FrameEntities(number, count) \in Seq(S), Len(FrameEntities(number, count)) = count
  PROVE  Holds(Wrote(ring, next, FrameEntities(number, count)), L, next + count,
               number, next, count)
<1> DEFINE values == FrameEntities(number, count)
<1>1. ASSUME NEW i \in 1 .. count, next + i - 1 >= next + count - L
      PROVE  Wrote(ring, next, values)[Place(next + i - 1, L) + 1] = <<number, i>>
  <2> DEFINE p == next + i - 1
  <2>1. /\ p \in Int /\ next <= p /\ p < next + Len(values) /\ p - next + 1 = i
        /\ next + Len(values) - L <= p
    BY <1>1
  <2>2. Wrote(ring, next, values)[Place(p, L) + 1] = values[p - next + 1]
    <3>1. Len(values) \in Nat /\ Len(ring) = L
      BY RingLength
    <3> HIDE DEF values, p
    <3>. QED BY <2>1, <3>1, WroteThere
  <2>3. values[p - next + 1] = <<number, i>>
    BY <2>1 DEF FrameEntities
  <2>. QED BY <2>2, <2>3, Zenon
<1> DEFINE w == Wrote(ring, next, values)  n == next + count
<1>2. next + count <= n
  OBVIOUS
<1>3. \A i \in 1 .. count : next + i - 1 >= n - L => w[Place(next + i - 1, L) + 1] = <<number, i>>
  <2> SUFFICES ASSUME NEW i \in 1 .. count, next + i - 1 >= n - L
               PROVE  w[Place(next + i - 1, L) + 1] = <<number, i>>
    OBVIOUS
  <2> HIDE DEF values, w, n
  <2>1. next + i - 1 >= next + count - L
    BY DEF n
  <2>2. Wrote(ring, next, values)[Place(next + i - 1, L) + 1] = <<number, i>>
    BY <1>1, <2>1, Zenon
  <2>. QED BY <2>2, Zenon DEF w
<1> HIDE DEF values, w, n
<1>4. Holds(w, L, n, number, next, count)
  BY <1>2, <1>3 DEF Holds
<1>. QED BY <1>4 DEF values, w, n

LEMMA HoldsEntries ==
  ASSUME NEW L \in Nat \ {0}, NEW ring, Len(ring) = L, NEW next \in Nat,
         NEW number, NEW first \in Nat, NEW count \in Nat,
         Holds(ring, L, next, number, first, count), first >= next - L
  PROVE  Entries(ring, first, count) = FrameEntities(number, count)
<1>1. \A i \in 1 .. count : ring[Place(first + i - 1, L) + 1] = <<number, i>>
  <2> SUFFICES ASSUME NEW i \in 1 .. count
               PROVE  ring[Place(first + i - 1, L) + 1] = <<number, i>>
    OBVIOUS
  <2>1. first + i - 1 >= next - L
    OBVIOUS
  <2>. QED BY <2>1 DEF Holds
<1>. QED BY <1>1 DEF Entries, FrameEntities, Place

-----------------------------------------------------------------------------
(* The invariant.                                                           *)

LEMMA SlotRange ==
  ASSUME NEW n \in Int
  PROVE  Slot(n) \in Slots
BY PlaceInRing DEF Slot, Slots, Place

LEMMA SameSlot ==
  ASSUME NEW a \in Int, NEW b \in Int, Slot(a) = Slot(b),
         a < b + PACKET_BACKUP, b < a + PACKET_BACKUP
  PROVE  a = b
<1>1. Place(a, PACKET_BACKUP) = Place(b, PACKET_BACKUP) /\ PACKET_BACKUP \in Nat \ {0}
  BY DEF Slot, Place
<1>. QED BY <1>1, SamePlace

LEMMA SlotInRow ==
  ASSUME NEW k \in Int, NEW n \in Int
  PROVE  \E j \in n - PACKET_BACKUP + 1 .. n : Slot(j) = Slot(k)
<1>1. \E j \in n - PACKET_BACKUP + 1 .. n : Place(j, PACKET_BACKUP) = Place(k, PACKET_BACKUP)
  BY PlaceInRow
<1>. QED BY <1>1 DEF Slot, Place

LEMMA FrameEntitiesType ==
  ASSUME NEW n \in Numbers, NEW count \in Nat, count <= MaxEntities + OtherEntities
  PROVE  /\ FrameEntities(n, count) \in Seq(EntityStates)
         /\ Len(FrameEntities(n, count)) = count
<1>1. \A i \in 1 .. count : <<n, i>> \in EntityStates
  BY DEF EntityStates
<1>2. FrameEntities(n, count) \in [1 .. count -> EntityStates]
  BY <1>1 DEF FrameEntities
<1>. QED BY <1>2, RingLength

Frame == [number : Numbers, first_entity : Nat, num_entities : Counts]
Snap == [valid : BOOLEAN, messageNum : Numbers, ps : {Noise} \cup Numbers,
         parseEntitiesNum : Nat, numEntities : Counts]
Contents == [ps : Int, entities : Seq(EntityStates) \cup {<<>>}]
ServerMessage == [number : Numbers \ {0}, lastframe : Nat, from : Contents, to : Contents]
ClientMessage == [acknowledge : Numbers, delta : BOOLEAN]

\* The client has the snapshot with this number, or is so far beyond it that the
\* server will not use it any more.
Acknowledgeable(b) ==
  /\ b \in 1 .. client.snap.messageNum
  /\ client.snap.messageNum < b + PACKET_BACKUP =>
       client.snapshots[Slot(b)].valid /\ client.snapshots[Slot(b)].messageNum = b

\* The server's last PACKET_BACKUP frames are in their slots, and the entities of
\* every frame in the ring as far as they have not been written over.
ServerInv ==
  /\ server \in [outgoingSequence : 1 .. MaxMessages + 1,
                 deltaMessage : {-1} \cup Numbers, frames : [Slots -> Frame]]
  /\ entities \in [ring : [1 .. numSnapshotEntities -> EntityStates], next : Nat]
  /\ \A k \in 1 .. server.outgoingSequence - 1 :
       server.outgoingSequence - k <= PACKET_BACKUP => server.frames[Slot(k)].number = k
  /\ \A s \in Slots :
       LET f == server.frames[s] IN
       Holds(entities.ring, numSnapshotEntities, entities.next,
             f.number, f.first_entity, f.num_entities)

\* A valid snapshot is one of the last PACKET_BACKUP up to the current one, in its
\* own slot, with the entities of the frame of its number; where the server still
\* has that frame, with as many.
SnapInv(s, snap) ==
  snap.valid =>
    /\ snap.messageNum # 0 /\ Slot(snap.messageNum) = s
    /\ client.snap.messageNum - PACKET_BACKUP < snap.messageNum
    /\ snap.messageNum <= client.snap.messageNum
    /\ snap.ps = snap.messageNum
    /\ Holds(client.parseEntities, MAX_PARSE_ENTITIES, client.parseEntitiesNum,
             snap.messageNum, snap.parseEntitiesNum, snap.numEntities)
    /\ server.frames[s].number = snap.messageNum =>
         server.frames[s].num_entities = snap.numEntities

ClientInv ==
  /\ client \in [serverMessageSequence : Numbers, snap : Snap, snapshots : [Slots -> Snap],
                 parseEntitiesNum : Nat, parseEntities : [1 .. MAX_PARSE_ENTITIES -> EntityStates]]
  /\ client.snap.messageNum <= client.serverMessageSequence
  /\ client.serverMessageSequence < server.outgoingSequence
  /\ client.snap.valid => client.snapshots[Slot(client.snap.messageNum)] = client.snap
  /\ \A s \in Slots : SnapInv(s, client.snapshots[s])

\* A message on its way: newer than what the client has read, a frame as it was
\* built, and if a difference, then from a frame the client has or will have read.
MessageInv(m) ==
  /\ client.serverMessageSequence < m.number /\ m.number < server.outgoingSequence
  /\ \E count \in Counts :
       /\ m.to = [ps |-> m.number, entities |-> FrameEntities(m.number, count)]
       /\ server.frames[Slot(m.number)].number = m.number =>
            server.frames[Slot(m.number)].num_entities = count
  /\ m.lastframe > 0 =>
       LET b == m.number - m.lastframe IN
       /\ m.lastframe < PACKET_BACKUP
       /\ Acknowledgeable(b)
       /\ m.from = [ps |-> b, entities |-> FrameEntities(b, client.snapshots[Slot(b)].numEntities)]

ToClientInv ==
  /\ toClient \in Seq(ServerMessage)
  /\ Len(toClient) <= Capacity
  /\ \A i \in 1 .. Len(toClient) : MessageInv(toClient[i])
  /\ \A i, j \in 1 .. Len(toClient) : i < j => toClient[i].number < toClient[j].number

\* Whatever the server takes for acknowledged, now or when it reads what is on its way.
ToServerInv ==
  /\ toServer \in Seq(ClientMessage)
  /\ Len(toServer) <= Capacity
  /\ \A i \in 1 .. Len(toServer) :
       toServer[i].delta => Acknowledgeable(toServer[i].acknowledge)
  /\ server.deltaMessage > 0 => Acknowledgeable(server.deltaMessage)

IInv == ServerInv /\ ClientInv /\ ToClientInv /\ ToServerInv

-----------------------------------------------------------------------------
(* The initial states.                                                      *)

LEMMA Sizes ==
  /\ PACKET_BACKUP \in Nat \ {0} /\ numSnapshotEntities \in Nat \ {0}
  /\ MAX_PARSE_ENTITIES \in Nat \ {0} /\ DELTA_MARGIN \in Nat \ {0}
  /\ MaxEntities \in Nat \ {0} /\ OtherEntities \in Nat
  /\ MaxMessages \in Nat /\ Capacity \in Nat \ {0}
BY SnapshotsAssumption

LEMMA InitInv == Init => IInv
<1> SUFFICES ASSUME Init PROVE IInv
  OBVIOUS
<1>1. NoEntity \in EntityStates
  BY DEF EntityStates
<1>2. ServerInv
  <2>1. server \in [outgoingSequence : 1 .. MaxMessages + 1,
                    deltaMessage : {-1} \cup Numbers, frames : [Slots -> Frame]]
    BY Sizes DEF Init, NewServer, EmptyFrame, Frame, Numbers, Counts
  <2>2. entities \in [ring : [1 .. numSnapshotEntities -> EntityStates], next : Nat]
    BY <1>1 DEF Init
  <2>3. ASSUME NEW s \in Slots
        PROVE  LET f == server.frames[s] IN
               Holds(entities.ring, numSnapshotEntities, entities.next,
                     f.number, f.first_entity, f.num_entities)
    <3>1. server.frames[s] = EmptyFrame /\ entities.next = 0
      BY DEF Init, NewServer
    <3>. QED BY <3>1 DEF Holds, EmptyFrame
  <2>4. server.outgoingSequence = 1
    BY DEF Init, NewServer
  <2>. QED BY <2>1, <2>2, <2>3, <2>4 DEF ServerInv
<1>3. ClientInv
  <2>1. NoSnapshot \in Snap
    BY Sizes DEF NoSnapshot, Snap, Numbers, Counts
  <2>2. client \in [serverMessageSequence : Numbers, snap : Snap, snapshots : [Slots -> Snap],
                    parseEntitiesNum : Nat,
                    parseEntities : [1 .. MAX_PARSE_ENTITIES -> EntityStates]]
    BY <1>1, <2>1, Sizes DEF Init, NewClient, Numbers
  <2>3. /\ client.snap = NoSnapshot /\ \A s \in Slots : client.snapshots[s] = NoSnapshot
        /\ client.serverMessageSequence = 0 /\ server.outgoingSequence = 1
    BY DEF Init, NewClient, NewServer
  <2>. QED BY <2>2, <2>3 DEF ClientInv, SnapInv, NoSnapshot
<1>4. ToClientInv
  BY Sizes DEF Init, ToClientInv
<1>5. ToServerInv
  BY Sizes DEF Init, ToServerInv, NewServer
<1>. QED BY <1>2, <1>3, <1>4, <1>5 DEF IInv

-----------------------------------------------------------------------------
(* The server's steps.                                                      *)

\* All the server changes is the frame it will make differences from.
LEMMA OnlyDeltaMessage ==
  ASSUME ServerInv, ClientInv, ToClientInv, NEW d \in {-1} \cup Numbers,
         server' = [server EXCEPT !.deltaMessage = d],
         UNCHANGED <<client, entities, toClient>>
  PROVE  /\ ServerInv' /\ ClientInv' /\ ToClientInv'
         /\ server'.deltaMessage = d
         /\ \A b : Acknowledgeable(b)' <=> Acknowledgeable(b)
<1>1. server \in [outgoingSequence : 1 .. MaxMessages + 1,
                  deltaMessage : {-1} \cup Numbers, frames : [Slots -> Frame]]
  BY DEF ServerInv
<1>2. /\ server'.outgoingSequence = server.outgoingSequence
      /\ server'.frames = server.frames /\ server'.deltaMessage = d
      /\ server' \in [outgoingSequence : 1 .. MaxMessages + 1,
                      deltaMessage : {-1} \cup Numbers, frames : [Slots -> Frame]]
  BY <1>1
<1>3. ServerInv'
  BY <1>2, Zenon DEF ServerInv
<1>4. ASSUME NEW s, NEW snap
      PROVE  SnapInv(s, snap)' <=> SnapInv(s, snap)
  BY <1>2, Zenon DEF SnapInv
<1>5. ClientInv'
  BY <1>2, <1>4 DEF ClientInv
<1>6. \A b : Acknowledgeable(b)' <=> Acknowledgeable(b)
  BY DEF Acknowledgeable
<1>7. ASSUME NEW m PROVE MessageInv(m) => MessageInv(m)'
  BY <1>2, <1>6, Zenon DEF MessageInv
<1>8. ToClientInv'
  BY <1>7 DEF ToClientInv
<1>. QED BY <1>2, <1>3, <1>5, <1>6, <1>8

\* What is left to read when the first message is taken away.
LEMMA ToServerTail ==
  ASSUME ToServerInv, toServer # <<>>, toServer' = Tail(toServer)
  PROVE  /\ toServer' \in Seq(ClientMessage) /\ Len(toServer') <= Capacity
         /\ Head(toServer) \in ClientMessage
         /\ Head(toServer).delta => Acknowledgeable(Head(toServer).acknowledge)
         /\ \A i \in 1 .. Len(toServer') :
              toServer'[i].delta => Acknowledgeable(toServer'[i].acknowledge)
<1>1. /\ toServer \in Seq(ClientMessage) /\ Len(toServer) <= Capacity
      /\ \A i \in 1 .. Len(toServer) :
           toServer[i].delta => Acknowledgeable(toServer[i].acknowledge)
  BY DEF ToServerInv
<1>2. /\ Head(toServer) = toServer[1] /\ Len(toServer) \in Nat \ {0}
      /\ toServer' \in Seq(ClientMessage) /\ Len(toServer') = Len(toServer) - 1
      /\ \A i \in 1 .. Len(toServer') : toServer'[i] = toServer[i + 1]
  BY <1>1, HeadTailProperties, LenProperties, EmptySeq
<1>3. 1 \in 1 .. Len(toServer) /\ Len(toServer') <= Capacity
  BY <1>1, <1>2, Sizes
<1>4. \A i \in 1 .. Len(toServer') : i + 1 \in 1 .. Len(toServer)
  BY <1>2
<1>. QED BY <1>1, <1>2, <1>3, <1>4, ElementOfSeq

LEMMA SV_UserMoveInv == IInv /\ SV_UserMove => IInv'
<1> SUFFICES ASSUME IInv, SV_UserMove PROVE IInv'
  OBVIOUS
<1> DEFINE m == Head(toServer)
<1>1. /\ toServer # <<>> /\ toServer' = Tail(toServer)
      /\ server' = UserMove(server, m)
      /\ UNCHANGED <<client, entities, toClient>>
  BY DEF SV_UserMove
<1>2. /\ toServer' \in Seq(ClientMessage) /\ Len(toServer') <= Capacity
      /\ m \in ClientMessage
      /\ m.delta => Acknowledgeable(m.acknowledge)
      /\ \A i \in 1 .. Len(toServer') :
           toServer'[i].delta => Acknowledgeable(toServer'[i].acknowledge)
  BY <1>1, ToServerTail DEF IInv
<1> HIDE DEF m
<1>3. m.acknowledge \in Numbers /\ m.delta \in BOOLEAN
  BY <1>2 DEF ClientMessage
<1>4. \E d \in {-1} \cup Numbers :
        /\ server' = [server EXCEPT !.deltaMessage = d]
        /\ d > 0 => Acknowledgeable(d)
  <2>1. CASE m.delta
    BY <1>1, <1>2, <1>3, <2>1 DEF UserMove
  <2>2. CASE ~m.delta
    <3>1. server' = [server EXCEPT !.deltaMessage = -1]
      BY <1>1, <2>2, Zenon DEF UserMove
    <3>2. ~(-1 > 0)
      OBVIOUS
    <3>. QED BY <3>1, <3>2, Zenon
  <2>. QED BY <2>1, <2>2
<1>5. PICK d \in {-1} \cup Numbers :
        /\ server' = [server EXCEPT !.deltaMessage = d]
        /\ d > 0 => Acknowledgeable(d)
  BY <1>4
<1>6. /\ ServerInv' /\ ClientInv' /\ ToClientInv' /\ server'.deltaMessage = d
      /\ \A b : Acknowledgeable(b)' <=> Acknowledgeable(b)
  BY <1>1, <1>5, OnlyDeltaMessage DEF IInv
<1>7. ToServerInv'
  BY <1>2, <1>5, <1>6 DEF ToServerInv
<1>. QED BY <1>6, <1>7 DEF IInv

LEMMA SV_ClientEnterWorldInv == IInv /\ SV_ClientEnterWorld => IInv'
<1> SUFFICES ASSUME IInv, SV_ClientEnterWorld PROVE IInv'
  OBVIOUS
<1>1. /\ ServerInv' /\ ClientInv' /\ ToClientInv' /\ server'.deltaMessage = -1
      /\ \A b : Acknowledgeable(b)' <=> Acknowledgeable(b)
  BY OnlyDeltaMessage DEF IInv, SV_ClientEnterWorld
<1>2. toServer' = toServer
  BY DEF SV_ClientEnterWorld
<1>3. ToServerInv'
  BY <1>1, <1>2 DEF IInv, ToServerInv
<1>. QED BY <1>1, <1>3 DEF IInv
\* The entities of a frame written into the server's ring.
LEMMA ServerRingOn ==
  ASSUME NEW ents \in [ring : [1 .. numSnapshotEntities -> EntityStates], next : Nat],
         NEW count \in Nat, count <= MaxEntities + OtherEntities, NEW number \in Numbers
  PROVE  LET after == Built(ents, count, number) IN
         /\ after \in [ring : [1 .. numSnapshotEntities -> EntityStates], next : Nat]
         /\ after.next = ents.next + count
         /\ Holds(after.ring, numSnapshotEntities, after.next, number, ents.next, count)
         /\ \A n, first \in Nat, num \in Nat :
              Holds(ents.ring, numSnapshotEntities, ents.next, n, first, num) =>
                Holds(after.ring, numSnapshotEntities, after.next, n, first, num)
<1> DEFINE ring == ents.ring  next == ents.next  values == FrameEntities(number, count)
           w == Wrote(ring, next, values)  L == numSnapshotEntities
<1>1. /\ ring \in [1 .. L -> EntityStates] /\ next \in Nat
      /\ L \in Nat \ {0}
  BY Sizes
<1>2. values \in Seq(EntityStates) /\ Len(values) = count
  BY FrameEntitiesType
<1>3. Built(ents, count, number) = [ring |-> w, next |-> next + count]
  BY DEF Built, FrameEntities
<1> HIDE DEF ring, next, values, L
<1>4. w \in [1 .. L -> EntityStates]
  BY <1>1, <1>2, WroteRing
<1>5. Holds(w, L, next + count, number, next, count)
  BY <1>1, <1>2, HoldsNew DEF values, L
<1>6. ASSUME NEW n, NEW first \in Nat, NEW num \in Nat, Holds(ring, L, next, n, first, num)
      PROVE  Holds(w, L, next + count, n, first, num)
  <2>1. Holds(w, L, next + Len(values), n, first, num)
    BY <1>1, <1>2, <1>6, HoldsOn
  <2>. QED BY <1>2, <2>1, Zenon
<1> HIDE DEF w
<1>7. next + count \in Nat
  BY <1>1
<1> DEFINE after == Built(ents, count, number)
<1>8. after.ring = w /\ after.next = next + count
  BY <1>3
<1>9. after \in [ring : [1 .. L -> EntityStates], next : Nat]
  BY <1>3, <1>4, <1>7
<1> HIDE DEF after
<1>10. /\ after \in [ring : [1 .. L -> EntityStates], next : Nat]
       /\ after.next = next + count
       /\ Holds(after.ring, L, after.next, number, next, count)
       /\ \A n, first \in Nat, num \in Nat :
            Holds(ring, L, next, n, first, num) =>
              Holds(after.ring, L, after.next, n, first, num)
  <2>1. Holds(after.ring, L, after.next, number, next, count)
    BY <1>5, <1>8
  <2>2. ASSUME NEW n, NEW first \in Nat, NEW num \in Nat, Holds(ring, L, next, n, first, num)
        PROVE  Holds(after.ring, L, after.next, n, first, num)
    BY <1>6, <1>8, <2>2
  <2>. QED BY <1>8, <1>9, <2>1, <2>2
<1>. QED BY <1>10 DEF after, ring, next, L
LEMMA SV_SendClientMessagesInv ==
  ASSUME IInv, NEW others \in 0 .. OtherEntities, NEW count \in Counts,
         SV_SendClientMessages(others, count), ~overran'
  PROVE  IInv'
<1> DEFINE n == server.outgoingSequence
           P == PACKET_BACKUP
           L == numSnapshotEntities
           before == Built(entities, others, 0)
           built == Built(before, count, n)
           frame == [number |-> n, first_entity |-> before.next, num_entities |-> count]
           framed == [server EXCEPT !.frames[Slot(n)] = frame]
           lastframe == LastFrame(framed, built.next)
           from == IF lastframe = 0 THEN NoBase
                   ELSE Held(framed.frames[Slot(n - lastframe)], built.ring)
           to == Held(frame, built.ring)
           sent == [number |-> n, lastframe |-> lastframe, from |-> from, to |-> to]
           InRing(f) == Holds(built.ring, L, built.next, f.number, f.first_entity, f.num_entities)
<1>1. /\ n <= MaxMessages /\ Len(toClient) < Capacity
      /\ entities' = built
      /\ server' = [framed EXCEPT !.outgoingSequence = n + 1]
      /\ toClient' = Append(toClient, sent)
      /\ UNCHANGED <<client, toServer>>
  BY DEF SV_SendClientMessages
<1>2. /\ server \in [outgoingSequence : 1 .. MaxMessages + 1,
                     deltaMessage : {-1} \cup Numbers, frames : [Slots -> Frame]]
      /\ entities \in [ring : [1 .. L -> EntityStates], next : Nat]
  BY DEF IInv, ServerInv
<1>3. /\ n \in Numbers /\ n \in 1 .. MaxMessages /\ 0 \in Numbers
      /\ Slot(n) \in Slots
  BY <1>1, <1>2, Sizes, SlotRange DEF Numbers
<1>4. /\ count \in Nat /\ others \in Nat /\ count <= L
      /\ count <= MaxEntities + OtherEntities /\ others <= MaxEntities + OtherEntities
  <2>1. ~(count > L)
    BY DEF SV_SendClientMessages
  <2>. QED BY <2>1, Sizes DEF Counts
<1>5. /\ before \in [ring : [1 .. L -> EntityStates], next : Nat]
      /\ \A k, first \in Nat, num \in Nat :
           Holds(entities.ring, L, entities.next, k, first, num) =>
             Holds(before.ring, L, before.next, k, first, num)
  BY <1>2, <1>3, <1>4, ServerRingOn
<1>6. /\ built \in [ring : [1 .. L -> EntityStates], next : Nat]
      /\ built.next = before.next + count
      /\ Holds(built.ring, L, built.next, n, before.next, count)
      /\ \A k, first \in Nat, num \in Nat :
           Holds(before.ring, L, before.next, k, first, num) =>
             Holds(built.ring, L, built.next, k, first, num)
  <2> HIDE DEF before
  <2>. QED BY <1>3, <1>4, <1>5, ServerRingOn
<1> HIDE DEF before, built
<1>7. /\ frame \in Frame
      /\ framed.frames = [server.frames EXCEPT ![Slot(n)] = frame]
      /\ framed.deltaMessage = server.deltaMessage /\ framed.outgoingSequence = n
      /\ framed.frames[Slot(n)] = frame
      /\ \A s \in Slots : s # Slot(n) => framed.frames[s] = server.frames[s]
  BY <1>2, <1>3, <1>5 DEF Frame
<1>8. /\ server'.frames = framed.frames /\ server'.deltaMessage = server.deltaMessage
      /\ server'.outgoingSequence = n + 1
      /\ server' \in [outgoingSequence : 1 .. MaxMessages + 1,
                      deltaMessage : {-1} \cup Numbers, frames : [Slots -> Frame]]
  <2>1. framed \in [outgoingSequence : 1 .. MaxMessages + 1,
                    deltaMessage : {-1} \cup Numbers, frames : [Slots -> Frame]]
    BY <1>2, <1>3, <1>7
  <2>2. n + 1 \in 1 .. MaxMessages + 1
    BY <1>3, Sizes
  <2> HIDE DEF framed, n
  <2>. QED BY <1>1, <1>7, <2>1, <2>2
<1>9. \A s \in Slots : InRing(framed.frames[s])
  <2>1. InRing(frame)
    BY <1>6
  <2>2. ASSUME NEW s \in Slots
        PROVE  InRing(server.frames[s])
    <3> DEFINE f == server.frames[s]
    <3>1. f \in Frame /\ f.number \in Nat /\ f.first_entity \in Nat /\ f.num_entities \in Nat
      BY <1>2 DEF Frame, Counts, Numbers
    <3>2. Holds(entities.ring, L, entities.next, f.number, f.first_entity, f.num_entities)
      BY DEF IInv, ServerInv
    <3> HIDE DEF f
    <3>3. Holds(before.ring, L, before.next, f.number, f.first_entity, f.num_entities)
      BY <1>5, <3>1, <3>2
    <3>4. InRing(f)
      BY <1>6, <3>1, <3>3
    <3>. QED BY <3>4 DEF f
  <2> HIDE DEF frame, framed, InRing
  <2>. QED BY <1>7, <2>1, <2>2
<1>10. ASSUME NEW k \in 1 .. n - 1, n - k < P
       PROVE  /\ Slot(k) \in Slots /\ Slot(k) # Slot(n)
              /\ framed.frames[Slot(k)] = server.frames[Slot(k)]
              /\ server.frames[Slot(k)].number = k
  <2>1. Slot(k) \in Slots
    BY <1>3, SlotRange
  <2>2. k \in Int /\ n \in Int /\ k # n /\ k < n + P /\ n < k + P
    BY <1>3, <1>10, Sizes
  <2>3. Slot(k) # Slot(n)
    BY <2>2, SameSlot, Zenon
  <2>4. framed.frames[Slot(k)] = server.frames[Slot(k)]
    BY <1>7, <2>1, <2>3, Zenon
  <2>5. n - k <= P
    BY <1>3, <1>10, Sizes
  <2>6. server.frames[Slot(k)].number = k
    BY <2>5 DEF IInv, ServerInv
  <2>. QED BY <2>1, <2>3, <2>4, <2>6
<1>11. ServerInv'
  <2>1. ASSUME NEW k \in 1 .. n, n + 1 - k <= P
        PROVE  framed.frames[Slot(k)].number = k
    <3>1. CASE k = n
      BY <1>7, <3>1
    <3>2. CASE k # n
      <4>1. k \in 1 .. n - 1 /\ n - k < P
        BY <1>3, <2>1, <3>2, Sizes
      <4>. QED BY <1>10, <4>1, Zenon
    <3>. QED BY <3>1, <3>2
  <2>2. (n + 1) - 1 = n
    BY <1>3
  <2>3. /\ entities'.ring = built.ring /\ entities'.next = built.next
        /\ entities' \in [ring : [1 .. L -> EntityStates], next : Nat]
    BY <1>1, <1>6
  <2> HIDE DEF framed, n
  <2>4. \A k \in 1 .. server'.outgoingSequence - 1 :
          server'.outgoingSequence - k <= P => server'.frames[Slot(k)].number = k
    BY <1>8, <2>1, <2>2
  <2>5. \A s \in Slots :
          LET f == server'.frames[s] IN
          Holds(entities'.ring, L, entities'.next, f.number, f.first_entity, f.num_entities)
    BY <1>8, <1>9, <2>3
  <2>. QED BY <1>8, <2>3, <2>4, <2>5 DEF ServerInv
<1>12. /\ client.snap.messageNum \in Nat /\ client.serverMessageSequence \in Nat
       /\ client.snap.messageNum <= client.serverMessageSequence
       /\ client.serverMessageSequence < n /\ client.snap.messageNum < n
       /\ \A s \in Slots : client.snapshots[s] \in Snap /\ SnapInv(s, client.snapshots[s])
  <2>1. /\ client.snap.messageNum <= client.serverMessageSequence
        /\ client.serverMessageSequence < n
        /\ \A s \in Slots : client.snapshots[s] \in Snap /\ SnapInv(s, client.snapshots[s])
    BY DEF IInv, ClientInv
  <2>2. client.snap \in Snap /\ client.serverMessageSequence \in Numbers
    BY DEF IInv, ClientInv
  <2>3. client.snap.messageNum \in Nat /\ client.serverMessageSequence \in Nat /\ n \in Nat
    BY <1>3, <2>2 DEF Snap, Numbers
  <2> HIDE DEF n
  <2>. QED BY <2>1, <2>3
<1>13. ClientInv'
  <2>1. ASSUME NEW s \in Slots
        PROVE  SnapInv(s, client.snapshots[s])'
    <3> DEFINE snap == client.snapshots[s]
    <3>1. snap \in Snap /\ SnapInv(s, snap) /\ client' = client
      BY <1>1, <1>12
    <3>2. ASSUME snap.valid, server'.frames[s].number = snap.messageNum
          PROVE  server'.frames[s].num_entities = snap.numEntities
      <4>1. snap.messageNum <= client.snap.messageNum /\ snap.messageNum \in Nat
        BY <3>1, <3>2 DEF SnapInv, Snap, Numbers
      <4>2. snap.messageNum < n
        BY <1>3, <1>12, <4>1
      <4>3. s # Slot(n)
        BY <1>3, <1>7, <1>8, <3>2, <4>2
      <4>4. server'.frames[s] = server.frames[s]
        BY <1>7, <1>8, <4>3, Zenon
      <4>. QED BY <3>1, <3>2, <4>4, Zenon DEF SnapInv
    <3>3. snap' = snap
      BY <1>1
    <3>4. SnapInv(s, snap)'
      BY <3>1, <3>2, <3>3, Zenon DEF SnapInv
    <3>. QED BY <3>4
  <2>2. client.serverMessageSequence < server'.outgoingSequence
    BY <1>3, <1>8, <1>12
  <2> HIDE DEF framed, n
  <2>3. client' = client
    BY <1>1
  <2>. QED BY <2>1, <2>2, <2>3 DEF IInv, ClientInv
<1>14. to = [ps |-> n, entities |-> FrameEntities(n, count)]
  <2>1. before.next \in Nat /\ built.next \in Nat /\ before.next >= built.next - L
    BY <1>4, <1>5, <1>6
  <2>2. Len(built.ring) = L /\ L \in Nat \ {0}
    BY <1>6, Sizes, RingLength
  <2>3. Entries(built.ring, before.next, count) = FrameEntities(n, count)
    <3>1. Holds(built.ring, L, built.next, n, before.next, count) /\ count \in Nat
      BY <1>4, <1>6
    <3> HIDE DEF n, L
    <3>. QED BY <2>1, <2>2, <3>1, HoldsEntries
  <2>. QED BY <2>3 DEF Held
<1>15. ASSUME lastframe # 0
       PROVE  LET b == n - lastframe IN
              /\ lastframe \in Nat /\ lastframe < P
              /\ b \in Numbers /\ Acknowledgeable(b)
              /\ client.snapshots[Slot(b)].numEntities \in Counts
              /\ from = [ps |-> b, entities |->
                         FrameEntities(b, client.snapshots[Slot(b)].numEntities)]
  <2> DEFINE b == server.deltaMessage  f == server.frames[Slot(b)]
             snap == client.snapshots[Slot(b)]
  <2>1. b \in {-1} \cup Numbers /\ ~(b <= 0) /\ lastframe = n - b
    BY <1>2, <1>7, <1>15 DEF LastFrame
  <2>2. /\ b \in Numbers /\ b \in Int /\ b > 0
    BY <2>1 DEF Numbers
  <2>3. n - b < P
    <3>1. ~OutOfDatePacket(framed)
      BY <1>15 DEF LastFrame
    <3>2. ~(n - b >= PACKET_BACKUP - DELTA_MARGIN)
      BY <1>7, <3>1 DEF OutOfDatePacket
    <3> HIDE DEF n, b
    <3>. QED BY <1>3, <2>2, <3>2, Sizes
  <2>4. Acknowledgeable(b)
    BY <2>2 DEF IInv, ToServerInv
  <2>5. b \in 1 .. client.snap.messageNum
    BY <2>4 DEF Acknowledgeable
  <2>6. b \in 1 .. n - 1 /\ client.snap.messageNum < b + P /\ lastframe = n - b /\ n - lastframe = b
        /\ lastframe \in Nat /\ lastframe < P
    <3> HIDE DEF n, b, lastframe
    <3>. QED BY <1>3, <1>12, <2>1, <2>2, <2>3, <2>5, Sizes
  <2>7. snap.valid /\ snap.messageNum = b
    BY <2>4, <2>6 DEF Acknowledgeable
  <2>8. /\ Slot(b) \in Slots /\ framed.frames[Slot(b)] = f /\ f.number = b
    <3> HIDE DEF n, b, framed, frame
    <3>. QED BY <1>10, <2>3, <2>6, Zenon
  <2>9. f.num_entities = snap.numEntities
    <3>1. SnapInv(Slot(b), snap)
      BY <1>12, <2>8, Zenon
    <3> HIDE DEF b, f, snap
    <3>2. f = server.frames[Slot(b)]
      BY DEF f
    <3>. QED BY <2>7, <2>8, <3>1, <3>2, Zenon DEF SnapInv
  <2>10. f \in Frame /\ f.first_entity \in Nat /\ f.num_entities \in Nat /\ f.num_entities \in Counts
    BY <1>2, <2>8 DEF Frame, Counts
  <2>11. f.first_entity >= built.next - L
    <3>1. ~OutOfDateEntities(framed.frames[Slot(framed.deltaMessage)], built.next)
      BY <1>15 DEF LastFrame
    <3>2. framed.frames[Slot(framed.deltaMessage)] = f
      BY <1>7, <2>8
    <3>3. ~OutOfDateEntities(f, built.next)
      BY <3>1, <3>2
    <3>4. built.next \in Nat
      BY <1>6
    <3> HIDE DEF f
    <3>. QED BY <2>10, <3>3, <3>4, Sizes DEF OutOfDateEntities
  <2>12. InRing(f)
    BY <1>9, <2>8
  <2>13. Entries(built.ring, f.first_entity, f.num_entities) = FrameEntities(b, f.num_entities)
    <3>1. Len(built.ring) = L /\ L \in Nat \ {0} /\ built.next \in Nat
      BY <1>6, Sizes, RingLength
    <3>2. Holds(built.ring, L, built.next, b, f.first_entity, f.num_entities)
      BY <2>8, <2>12
    <3>3. f.first_entity \in Nat /\ f.num_entities \in Nat
      BY <2>10
    <3> HIDE DEF f, L, b
    <3>. QED BY <2>11, <3>1, <3>2, <3>3, HoldsEntries
  <2>14. from = Held(framed.frames[Slot(b)], built.ring)
    BY <1>15, <2>6
  <2>15. from = [ps |-> b, entities |-> FrameEntities(b, snap.numEntities)]
    <3>1. from = Held(f, built.ring)
      BY <2>8, <2>14
    <3> HIDE DEF f, from, b, snap
    <3>. QED BY <2>8, <2>9, <2>13, <3>1 DEF Held
  <2> HIDE DEF from, b, lastframe, n
  <2>16. snap.numEntities \in Counts
    BY <2>9, <2>10
  <2>17. n - lastframe = b
    BY <2>6
  <2>18. /\ n - lastframe \in Numbers /\ Acknowledgeable(n - lastframe)
         /\ client.snapshots[Slot(n - lastframe)] = snap
    BY <2>2, <2>4, <2>17
  <2> HIDE DEF snap
  <2>. QED BY <2>6, <2>15, <2>16, <2>17, <2>18, Zenon
<1> HIDE DEF sent
<1>16. PICK m : m = sent
  OBVIOUS
<1>17. /\ m.number = n /\ m.lastframe = lastframe /\ m.from = from /\ m.to = to
       /\ m = [number |-> m.number, lastframe |-> m.lastframe, from |-> m.from, to |-> m.to]
       /\ toClient' = Append(toClient, m)
  BY <1>1, <1>16 DEF sent
<1>18. \A b : Acknowledgeable(b)' <=> Acknowledgeable(b)
  BY <1>1 DEF Acknowledgeable
<1>19. MessageInv(m)'
  <2>1. client.serverMessageSequence < m.number /\ m.number < server'.outgoingSequence
    BY <1>3, <1>8, <1>12, <1>17
  <2>2. /\ m.to = [ps |-> m.number, entities |-> FrameEntities(m.number, count)]
        /\ server'.frames[Slot(m.number)].num_entities = count
    BY <1>7, <1>8, <1>14, <1>17
  <2>3. ASSUME m.lastframe > 0
        PROVE  LET b == m.number - m.lastframe IN
               /\ m.lastframe < PACKET_BACKUP
               /\ Acknowledgeable(b)
               /\ m.from = [ps |-> b, entities |->
                            FrameEntities(b, client.snapshots[Slot(b)].numEntities)]
    <3>1. lastframe # 0
      BY <1>17, <2>3
    <3> HIDE DEF lastframe, from, n
    <3>. QED BY <1>15, <1>17, <3>1
  <2> HIDE DEF lastframe, from, n, to, framed, built
  <2>4. client' = client
    BY <1>1
  <2>. QED BY <1>18, <2>1, <2>2, <2>3, <2>4, Zenon DEF MessageInv
<1>20. m \in ServerMessage
  <2>1. m.number \in Numbers \ {0}
    BY <1>3, <1>17
  <2>2. m.to \in Contents
    <3>1. FrameEntities(n, count) \in Seq(EntityStates)
      BY <1>3, <1>4, FrameEntitiesType
    <3>2. n \in Int
      BY <1>3
    <3> HIDE DEF n, to
    <3>. QED BY <1>14, <1>17, <3>1, <3>2 DEF Contents
  <2>3. m.lastframe \in Nat /\ m.from \in Contents
    <3>1. CASE lastframe = 0
      <4>1. m.from = NoBase
        BY <1>17, <3>1
      <4>. QED BY <1>17, <3>1, <4>1 DEF NoBase, Contents
    <3>2. CASE lastframe # 0
      <4> DEFINE b == n - lastframe  k == client.snapshots[Slot(b)].numEntities
      <4>1. /\ lastframe \in Nat /\ b \in Numbers /\ k \in Counts
            /\ from = [ps |-> b, entities |-> FrameEntities(b, k)]
        BY <1>15, <3>2
      <4> HIDE DEF lastframe, from, b, k
      <4>2. k \in Nat /\ k <= MaxEntities + OtherEntities /\ b \in Int
        BY <4>1, Sizes DEF Counts, Numbers
      <4>3. FrameEntities(b, k) \in Seq(EntityStates)
        BY <4>1, <4>2, FrameEntitiesType
      <4>. QED BY <1>17, <4>1, <4>2, <4>3 DEF Contents
    <3>. QED BY <3>1, <3>2
  <2>. QED BY <1>17, <2>1, <2>2, <2>3, Zenon DEF ServerMessage
<1>21. ASSUME NEW old, MessageInv(old), old \in ServerMessage
       PROVE  MessageInv(old)' /\ old.number < n
  <2>1. old.number < n /\ old.number \in Numbers
    BY <1>21 DEF MessageInv, ServerMessage
  <2>2. Slot(old.number) \in Slots
    BY <2>1, SlotRange DEF Numbers
  <2>3. server'.frames[Slot(old.number)].number = old.number =>
          /\ server.frames[Slot(old.number)].number = old.number
          /\ server'.frames[Slot(old.number)].num_entities =
               server.frames[Slot(old.number)].num_entities
    <3>1. ASSUME Slot(old.number) # Slot(n)
          PROVE  server'.frames[Slot(old.number)] = server.frames[Slot(old.number)]
      BY <1>7, <1>8, <2>2, <3>1, Zenon
    <3>2. ASSUME Slot(old.number) = Slot(n)
          PROVE  server'.frames[Slot(old.number)].number # old.number
      <4>1. server'.frames[Slot(old.number)].number = n
        BY <1>7, <1>8, <3>2
      <4>2. n # old.number
        BY <1>3, <2>1 DEF Numbers
      <4>. QED BY <4>1, <4>2, Zenon
    <3>. QED BY <3>1, <3>2, Zenon
  <2>4. old.number < server'.outgoingSequence
    BY <1>3, <1>8, <2>1 DEF Numbers
  <2>5. client' = client
    BY <1>1
  <2> HIDE DEF framed, n
  <2>. QED BY <1>18, <1>21, <2>1, <2>3, <2>4, <2>5, Zenon DEF MessageInv
<1>22. ToClientInv'
  <2>1. toClient \in Seq(ServerMessage) /\ Len(toClient) \in Nat
    BY LenProperties DEF IInv, ToClientInv
  <2>2. /\ toClient' \in Seq(ServerMessage) /\ Len(toClient') = Len(toClient) + 1
        /\ \A i \in 1 .. Len(toClient) : toClient'[i] = toClient[i]
        /\ toClient'[Len(toClient) + 1] = m
    BY <1>17, <1>20, <2>1, AppendProperties
  <2>3. Len(toClient') <= Capacity
    BY <1>1, <2>1, <2>2, Sizes
  <2>4. ASSUME NEW i \in 1 .. Len(toClient)
        PROVE  MessageInv(toClient[i]) /\ toClient[i] \in ServerMessage
    <3>1. toClient[i] \in ServerMessage
      BY <2>1, ElementOfSeq
    <3>. QED BY <3>1 DEF IInv, ToClientInv
  <2>5. ASSUME NEW i \in 1 .. Len(toClient')
        PROVE  MessageInv(toClient[i])'
    <3>1. CASE i \in 1 .. Len(toClient)
      <4>1. PICK old : old = toClient[i]
        OBVIOUS
      <4>2. MessageInv(old)'
        BY <1>21, <2>4, <3>1, <4>1
      <4>. QED BY <2>2, <3>1, <4>1, <4>2
    <3>2. CASE i \notin 1 .. Len(toClient)
      <4>1. i = Len(toClient) + 1
        BY <2>1, <2>2, <3>2
      <4>2. toClient'[i] = m
        BY <2>2, <4>1
      <4>. QED BY <1>19, <4>2
    <3>. QED BY <3>1, <3>2
  <2>6. ASSUME NEW i \in 1 .. Len(toClient'), NEW j \in 1 .. Len(toClient'), i < j
        PROVE  toClient'[i].number < toClient'[j].number
    <3>1. i \in 1 .. Len(toClient) /\ toClient'[i] = toClient[i]
      BY <2>1, <2>2, <2>6
    <3>2. CASE j \in 1 .. Len(toClient)
      <4>1. toClient'[j] = toClient[j]
        BY <2>2, <3>2
      <4>. QED BY <2>6, <3>1, <3>2, <4>1 DEF IInv, ToClientInv
    <3>3. CASE j \notin 1 .. Len(toClient)
      <4>1. j = Len(toClient) + 1
        BY <2>1, <2>2, <3>3
      <4>2. toClient'[j].number = n
        BY <1>17, <2>2, <4>1
      <4>3. toClient[i].number < n
        BY <1>21, <2>4, <3>1
      <4>. QED BY <3>1, <4>2, <4>3, Zenon
    <3>. QED BY <3>2, <3>3
  <2>. QED BY <2>2, <2>3, <2>5, <2>6 DEF ToClientInv
<1>23. ToServerInv'
  <2>1. toServer' = toServer
    BY <1>1
  <2>. QED BY <1>8, <1>18, <2>1 DEF IInv, ToServerInv
<1>. QED BY <1>11, <1>13, <1>22, <1>23 DEF IInv
-----------------------------------------------------------------------------
(* The client's steps, and losses.                                          *)

\* Nothing changes at either end.
LEMMA SameEnds ==
  ASSUME ServerInv, ClientInv, UNCHANGED <<client, server, entities>>
  PROVE  /\ ServerInv' /\ ClientInv'
         /\ \A m : MessageInv(m)' <=> MessageInv(m)
         /\ \A b : Acknowledgeable(b)' <=> Acknowledgeable(b)
<1>1. ServerInv'
  BY DEF ServerInv
<1>2. ClientInv'
  BY DEF ClientInv, SnapInv
<1>3. \A b : Acknowledgeable(b)' <=> Acknowledgeable(b)
  BY DEF Acknowledgeable
<1>4. ASSUME NEW m PROVE MessageInv(m)' <=> MessageInv(m)
  BY <1>3 DEF MessageInv
<1>. QED BY <1>1, <1>2, <1>3, <1>4

\* What is left to read when the first message is taken away.
LEMMA ToClientTail ==
  ASSUME ToClientInv, toClient # <<>>, toClient' = Tail(toClient)
  PROVE  /\ toClient' \in Seq(ServerMessage) /\ Len(toClient') \in Nat /\ Len(toClient') <= Capacity
         /\ Head(toClient) \in ServerMessage /\ MessageInv(Head(toClient))
         /\ \A i \in 1 .. Len(toClient') :
              /\ toClient'[i] \in ServerMessage /\ MessageInv(toClient'[i])
              /\ Head(toClient).number < toClient'[i].number
         /\ \A i, j \in 1 .. Len(toClient') : i < j => toClient'[i].number < toClient'[j].number
<1>1. /\ toClient \in Seq(ServerMessage) /\ Len(toClient) <= Capacity
      /\ \A i \in 1 .. Len(toClient) : MessageInv(toClient[i])
      /\ \A i, j \in 1 .. Len(toClient) : i < j => toClient[i].number < toClient[j].number
  BY DEF ToClientInv
<1>2. /\ Head(toClient) = toClient[1] /\ Len(toClient) \in Nat \ {0}
      /\ toClient' \in Seq(ServerMessage) /\ Len(toClient') = Len(toClient) - 1
      /\ \A i \in 1 .. Len(toClient') : toClient'[i] = toClient[i + 1]
  BY <1>1, HeadTailProperties, LenProperties, EmptySeq
<1>3. 1 \in 1 .. Len(toClient) /\ Len(toClient') \in Nat
  BY <1>2
<1>4. \A i \in 1 .. Len(toClient') : i + 1 \in 1 .. Len(toClient) /\ 1 < i + 1
  BY <1>2
<1>5. \A i, j \in 1 .. Len(toClient') : i < j => i + 1 < j + 1
  OBVIOUS
<1>6. Len(toClient') <= Capacity
  BY <1>1, <1>2, Sizes
<1>7. ASSUME NEW i \in 1 .. Len(toClient')
      PROVE  /\ toClient'[i] \in ServerMessage /\ MessageInv(toClient'[i])
             /\ Head(toClient).number < toClient'[i].number
  <2>1. toClient'[i] = toClient[i + 1] /\ i + 1 \in 1 .. Len(toClient) /\ 1 < i + 1
    BY <1>2, <1>4
  <2>2. toClient[i + 1] \in ServerMessage
    BY <1>1, <2>1, ElementOfSeq
  <2>3. MessageInv(toClient[i + 1]) /\ toClient[1].number < toClient[i + 1].number
    BY <1>1, <1>3, <2>1
  <2>. QED BY <1>2, <2>1, <2>2, <2>3
<1>8. ASSUME NEW i \in 1 .. Len(toClient'), NEW j \in 1 .. Len(toClient'), i < j
      PROVE  toClient'[i].number < toClient'[j].number
  <2>1. i + 1 < j + 1 /\ i + 1 \in 1 .. Len(toClient) /\ j + 1 \in 1 .. Len(toClient)
    BY <1>4, <1>5, <1>8
  <2>2. toClient[i + 1].number < toClient[j + 1].number
    BY <1>1, <2>1
  <2>. QED BY <1>2, <2>2
<1>9. Head(toClient) \in ServerMessage /\ MessageInv(Head(toClient))
  BY <1>1, <1>2, <1>3, ElementOfSeq
<1>. QED BY <1>2, <1>3, <1>6, <1>7, <1>8, <1>9

LEMMA LoseInv == IInv /\ Lose => IInv'
<1> SUFFICES ASSUME IInv, Lose PROVE IInv'
  OBVIOUS
<1>1. /\ ServerInv' /\ ClientInv'
      /\ \A m : MessageInv(m)' <=> MessageInv(m)
      /\ \A b : Acknowledgeable(b)' <=> Acknowledgeable(b)
  BY SameEnds DEF IInv, Lose
<1>2. server' = server
  BY DEF Lose
<1>3. CASE toServer # <<>> /\ toServer' = Tail(toServer) /\ UNCHANGED toClient
  <2>1. ToClientInv'
    BY <1>1, <1>3 DEF IInv, ToClientInv
  <2>2. ToServerInv'
    BY <1>1, <1>2, <1>3, ToServerTail DEF IInv, ToServerInv
  <2>. QED BY <1>1, <2>1, <2>2 DEF IInv
<1>4. CASE toClient # <<>> /\ toClient' = Tail(toClient) /\ UNCHANGED toServer
  <2>1. ToClientInv'
    BY <1>1, <1>4, ToClientTail DEF IInv, ToClientInv
  <2>2. ToServerInv'
    BY <1>1, <1>2, <1>4 DEF IInv, ToServerInv
  <2>. QED BY <1>1, <2>1, <2>2 DEF IInv
<1>. QED BY <1>3, <1>4 DEF Lose

LEMMA CL_WritePacketInv ==
  ASSUME IInv, NEW nodelta \in BOOLEAN, CL_WritePacket(nodelta)
  PROVE  IInv'
<1>1. /\ ServerInv' /\ ClientInv'
      /\ \A m : MessageInv(m)' <=> MessageInv(m)
      /\ \A b : Acknowledgeable(b)' <=> Acknowledgeable(b)
  BY SameEnds DEF IInv, CL_WritePacket
<1> DEFINE delta == CanDelta(client) /\ ~nodelta  acknowledge == client.serverMessageSequence
<1>2. /\ Len(toServer) < Capacity
      /\ toServer' = Append(toServer, [acknowledge |-> acknowledge, delta |-> delta])
      /\ server' = server /\ toClient' = toClient
  BY DEF CL_WritePacket
<1>3. acknowledge \in Numbers /\ delta \in BOOLEAN
  <2>1. client.serverMessageSequence \in Numbers /\ client.snap.valid \in BOOLEAN
    BY DEF IInv, ClientInv, Snap
  <2>. QED BY <2>1 DEF CanDelta
<1>4. delta => Acknowledgeable(acknowledge)
  <2> SUFFICES ASSUME delta PROVE Acknowledgeable(acknowledge)
    OBVIOUS
  <2> DEFINE n == client.snap.messageNum  snap == client.snapshots[Slot(n)]
  <2>1. client.snap.valid /\ acknowledge = n
    BY DEF CanDelta
  <2>2. n \in Nat
    BY DEF IInv, ClientInv, Snap, Numbers
  <2>3. Slot(n) \in Slots /\ snap = client.snap
    BY <2>1, <2>2, SlotRange DEF IInv, ClientInv
  <2>4. snap.valid /\ snap.messageNum = n /\ SnapInv(Slot(n), snap)
    BY <2>1, <2>3 DEF IInv, ClientInv
  <2> HIDE DEF snap
  <2>5. n # 0
    BY <2>4 DEF SnapInv
  <2>. QED BY <2>1, <2>2, <2>4, <2>5 DEF Acknowledgeable, snap
<1> HIDE DEF delta, acknowledge
<1>5. PICK m : m = [acknowledge |-> acknowledge, delta |-> delta]
  OBVIOUS
<1>6. /\ m \in ClientMessage /\ toServer' = Append(toServer, m)
      /\ m.delta => Acknowledgeable(m.acknowledge)
  BY <1>2, <1>3, <1>4, <1>5 DEF ClientMessage
<1>7. toServer \in Seq(ClientMessage) /\ Len(toServer) \in Nat
  BY LenProperties DEF IInv, ToServerInv
<1>8. /\ toServer' \in Seq(ClientMessage) /\ Len(toServer') = Len(toServer) + 1
      /\ \A i \in 1 .. Len(toServer) : toServer'[i] = toServer[i]
      /\ toServer'[Len(toServer) + 1] = m
  BY <1>6, <1>7, AppendProperties
<1>9. Len(toServer') <= Capacity
  BY <1>2, <1>7, <1>8, Sizes
<1>10. ASSUME NEW i \in 1 .. Len(toServer')
       PROVE  toServer'[i].delta => Acknowledgeable(toServer'[i].acknowledge)
  <2>1. CASE i \in 1 .. Len(toServer)
    BY <1>8, <2>1 DEF IInv, ToServerInv
  <2>2. CASE i \notin 1 .. Len(toServer)
    <3>1. i = Len(toServer) + 1
      BY <1>7, <1>8, <2>2
    <3>. QED BY <1>6, <1>8, <3>1
  <2>. QED BY <2>1, <2>2
<1>11. server.deltaMessage > 0 => Acknowledgeable(server.deltaMessage)
  BY DEF IInv, ToServerInv
<1>12. ToServerInv'
  BY <1>1, <1>2, <1>8, <1>9, <1>10, <1>11 DEF ToServerInv
<1>13. ToClientInv'
  BY <1>1, <1>2 DEF IInv, ToClientInv
<1>. QED BY <1>1, <1>12, <1>13 DEF IInv
\* Entities appended to the client's ring.
LEMMA ClientRingOn ==
  ASSUME NEW ring \in [1 .. MAX_PARSE_ENTITIES -> EntityStates], NEW next \in Nat,
         NEW values \in Seq(EntityStates)
  PROVE  /\ Wrote(ring, next, values) \in [1 .. MAX_PARSE_ENTITIES -> EntityStates]
         /\ next + Len(values) \in Nat
         /\ \A number, first \in Nat, count \in Nat :
              Holds(ring, MAX_PARSE_ENTITIES, next, number, first, count) =>
                Holds(Wrote(ring, next, values), MAX_PARSE_ENTITIES, next + Len(values),
                      number, first, count)
<1> DEFINE L == MAX_PARSE_ENTITIES
<1>1. L \in Nat \ {0} /\ Len(values) \in Nat
  BY Sizes, LenProperties
<1> HIDE DEF L
<1>2. ring \in [1 .. L -> EntityStates]
  BY DEF L
<1>3. Wrote(ring, next, values) \in [1 .. L -> EntityStates]
  BY <1>1, <1>2, WroteRing
<1>4. ASSUME NEW number, NEW first \in Nat, NEW count \in Nat,
             Holds(ring, L, next, number, first, count)
      PROVE  Holds(Wrote(ring, next, values), L, next + Len(values), number, first, count)
  BY <1>1, <1>2, <1>4, HoldsOn
<1>5. next + Len(values) \in Nat
  BY <1>1
<1>. QED BY <1>3, <1>4, <1>5 DEF L

\* What becomes of the snapshot in slot s, old, when number n follows number last.
IsKept(old, new, s, last, n) ==
  /\ new \in Snap
  /\ new.messageNum = old.messageNum /\ new.ps = old.ps
  /\ new.parseEntitiesNum = old.parseEntitiesNum
  /\ new.numEntities = old.numEntities
  /\ new.valid => old.valid
  /\ /\ new.valid /\ Slot(old.messageNum) = s
     /\ last - PACKET_BACKUP < old.messageNum /\ old.messageNum <= last
     => n - PACKET_BACKUP < old.messageNum
  /\ /\ old.valid /\ Slot(old.messageNum) = s
     /\ old.messageNum <= last /\ n < old.messageNum + PACKET_BACKUP
     => new.valid

\* The snapshots the client keeps when it reads a new one: those less than the backup
\* older, each in its own slot.
LEMMA KeptIsRecent ==
  ASSUME NEW c, NEW olds \in [Slots -> Snap], NEW last \in Nat,
         c.snapshots = olds, c.snap.messageNum = last,
         NEW snap, NEW n \in Nat, snap.messageNum = n, last < n,
         NEW s \in Slots, s # Slot(n)
  PROVE  IsKept(olds[s], Kept(c, snap)[s], s, last, n)
<1> DEFINE old == olds[s]  kept == Kept(c, snap)[s]  a == old.messageNum
           P == PACKET_BACKUP
           missed == {k \in last + 1 .. n - 1 : n - k < P}
           covered == \E k \in missed : Slot(k) = s
<1>1. kept = [old EXCEPT !.valid = @ /\ ~covered]
  BY DEF Kept
<1>2. old \in Snap /\ a \in Nat /\ old.valid \in BOOLEAN /\ last \in Nat /\ n \in Nat /\ last < n
      /\ P \in Nat \ {0}
  BY Sizes DEF Snap, Numbers
<1>3. covered \in BOOLEAN
  OBVIOUS
<1>4. covered <=> \E k \in last + 1 .. n - 1 : n - k < P /\ Slot(k) = s
  BY Zenon
<1> HIDE DEF covered
<1>5. /\ kept \in Snap /\ kept.messageNum = a /\ kept.ps = old.ps
      /\ kept.parseEntitiesNum = old.parseEntitiesNum /\ kept.numEntities = old.numEntities
      /\ kept.valid = (old.valid /\ ~covered)
  <2> HIDE DEF old, kept
  <2>. QED BY <1>1, <1>2, <1>3, Zenon DEF Snap, a
<1> HIDE DEF old, kept, a, missed, P
<1>6. ASSUME ~covered, Slot(a) = s, last - P < a, a <= last
      PROVE  n - P < a
  <2> SUFFICES ASSUME ~(n - P < a) PROVE FALSE
    OBVIOUS
  <2>1. \E j \in n - P + 1 .. n : Slot(j) = Slot(a)
    <3>1. a \in Int /\ n \in Int
      BY <1>2
    <3>. QED BY <3>1, SlotInRow, Zenon DEF P
  <2>2. PICK j \in n - P + 1 .. n : Slot(j) = s
    BY <1>6, <2>1
  <2>3. j # n
    BY <2>2
  <2>4. CASE j <= last
    <3>1. a < j /\ j < a + P /\ a < j + P /\ j \in Int /\ a \in Int
      BY <1>2, <1>6, <2>4
    <3>2. j = a
      BY <1>6, <2>2, <3>1, SameSlot, Zenon DEF P
    <3>. QED BY <3>1, <3>2
  <2>5. CASE ~(j <= last)
    <3>1. j \in last + 1 .. n - 1 /\ n - j < P
      BY <1>2, <2>3, <2>5
    <3>. QED BY <1>4, <1>6, <2>2, <3>1, Zenon
  <2>. QED BY <2>4, <2>5
<1>7. ASSUME Slot(a) = s, a <= last, n < a + P
      PROVE  ~covered
  <2> SUFFICES ASSUME covered PROVE FALSE
    OBVIOUS
  <2>1. PICK k \in last + 1 .. n - 1 : n - k < P /\ Slot(k) = s
    BY <1>4
  <2>2. a < k /\ k < a + P /\ a < k + P /\ k \in Int /\ a \in Int
    BY <1>2, <1>7, <2>1
  <2>3. k = a
    BY <1>7, <2>1, <2>2, SameSlot, Zenon DEF P
  <2>. QED BY <2>2, <2>3
<1>8. /\ kept.valid /\ Slot(a) = s /\ last - P < a /\ a <= last => n - P < a
      /\ old.valid /\ Slot(a) = s /\ a <= last /\ n < a + P => kept.valid
  BY <1>2, <1>3, <1>5, <1>6, <1>7, Zenon
<1>9. kept.valid => old.valid
  BY <1>2, <1>3, <1>5, Zenon
<1>. QED BY <1>5, <1>8, <1>9, Zenon DEF old, kept, a, P, IsKept
\* An unusable difference leaves its entities in the ring and nothing else.
LEMMA ThrownAway ==
  ASSUME ClientInv, server' = server,
         NEW n \in Numbers, client.serverMessageSequence < n, n < server.outgoingSequence,
         NEW values \in Seq(EntityStates),
         client' = [client EXCEPT !.serverMessageSequence = n,
                                  !.parseEntities = Wrote(@, client.parseEntitiesNum, values),
                                  !.parseEntitiesNum = @ + Len(values)]
  PROVE  /\ ClientInv'
         /\ client'.serverMessageSequence = n
         /\ \A b : Acknowledgeable(b) => Acknowledgeable(b)'
         /\ client'.snapshots = client.snapshots
<1> DEFINE ring == client.parseEntities  next == client.parseEntitiesNum
           w == Wrote(ring, next, values)  L == MAX_PARSE_ENTITIES
<1>1. client \in [serverMessageSequence : Numbers, snap : Snap, snapshots : [Slots -> Snap],
                  parseEntitiesNum : Nat, parseEntities : [1 .. L -> EntityStates]]
  BY DEF ClientInv
<1>2. /\ w \in [1 .. L -> EntityStates] /\ next + Len(values) \in Nat
      /\ \A number, first \in Nat, count \in Nat :
           Holds(ring, L, next, number, first, count) =>
             Holds(w, L, next + Len(values), number, first, count)
  BY <1>1, ClientRingOn
<1> HIDE DEF w
<1>3. /\ client'.serverMessageSequence = n /\ client'.snap = client.snap
      /\ client'.snapshots = client.snapshots
      /\ client'.parseEntitiesNum = next + Len(values) /\ client'.parseEntities = w
      /\ client' \in [serverMessageSequence : Numbers, snap : Snap, snapshots : [Slots -> Snap],
                       parseEntitiesNum : Nat, parseEntities : [1 .. L -> EntityStates]]
  <2>1. client' = [client EXCEPT !.serverMessageSequence = n, !.parseEntities = w,
                                !.parseEntitiesNum = next + Len(values)]
    BY DEF w
  <2>. QED BY <1>1, <1>2, <2>1, Zenon
<1>4. ASSUME NEW s \in Slots
      PROVE  SnapInv(s, client.snapshots[s])'
  <2>1. PICK snap : snap = client.snapshots[s]
    OBVIOUS
  <2>2. snap \in Snap /\ SnapInv(s, snap)
    BY <1>1, <2>1 DEF ClientInv
  <2>3. ASSUME snap.valid
        PROVE  Holds(w, L, next + Len(values), snap.messageNum, snap.parseEntitiesNum, snap.numEntities)
    <3>1. snap.messageNum \in Nat /\ snap.parseEntitiesNum \in Nat /\ snap.numEntities \in Nat
      BY <2>2 DEF Snap, Numbers, Counts
    <3>2. Holds(ring, L, next, snap.messageNum, snap.parseEntitiesNum, snap.numEntities)
      BY <2>2, <2>3 DEF SnapInv
    <3>. QED BY <1>2, <3>1, <3>2
  <2>4. SnapInv(s, snap)'
    BY <1>3, <2>2, <2>3, Zenon DEF SnapInv
  <2>. QED BY <1>3, <2>1, <2>4
<1>5. client.snap.messageNum <= n
  <2>1. client.snap.messageNum \in Nat /\ client.serverMessageSequence \in Nat /\ n \in Nat
    BY <1>1 DEF Snap, Numbers
  <2>2. client.snap.messageNum <= client.serverMessageSequence
    BY DEF ClientInv
  <2>. QED BY <2>1, <2>2
<1>6. ClientInv'
  BY <1>3, <1>4, <1>5 DEF ClientInv
<1>7. \A b : Acknowledgeable(b) => Acknowledgeable(b)'
  BY <1>3, Zenon DEF Acknowledgeable
<1>. QED BY <1>3, <1>6, <1>7

\* Message n was read rightly: the client has a new snapshot.
LEMMA NewSnapshot ==
  ASSUME ClientInv, server' = server,
         NEW n \in Numbers, client.serverMessageSequence < n, n < server.outgoingSequence,
         NEW count \in Counts,
         server.frames[Slot(n)].number = n => server.frames[Slot(n)].num_entities = count,
         NEW c, c.snapshots = client.snapshots, c.snap = client.snap,
         NEW snap, snap = [valid |-> TRUE, messageNum |-> n, ps |-> n,
                           parseEntitiesNum |-> client.parseEntitiesNum, numEntities |-> count],
         client' = [client EXCEPT !.serverMessageSequence = n, !.snap = snap,
                                  !.snapshots = Kept(c, snap),
                                  !.parseEntities = Wrote(@, client.parseEntitiesNum,
                                                          FrameEntities(n, count)),
                                  !.parseEntitiesNum = @ + count]
  PROVE  /\ ClientInv'
         /\ client'.serverMessageSequence = n
         /\ \A b : Acknowledgeable(b) =>
              /\ Acknowledgeable(b)'
              /\ n < b + PACKET_BACKUP =>
                   client'.snapshots[Slot(b)].numEntities = client.snapshots[Slot(b)].numEntities
<1> DEFINE ring == client.parseEntities  next == client.parseEntitiesNum
           values == FrameEntities(n, count)  last == client.snap.messageNum
           w == Wrote(ring, next, values)  L == MAX_PARSE_ENTITIES
           kept == Kept(c, snap)
<1>1. client \in [serverMessageSequence : Numbers, snap : Snap, snapshots : [Slots -> Snap],
                  parseEntitiesNum : Nat, parseEntities : [1 .. L -> EntityStates]]
  BY DEF ClientInv
<1>2. values \in Seq(EntityStates) /\ Len(values) = count /\ count \in Nat /\ count <= MaxEntities
  <2>1. count \in Nat /\ count <= MaxEntities + OtherEntities /\ count <= MaxEntities
    BY Sizes DEF Counts
  <2>. QED BY <2>1, FrameEntitiesType
<1>3. /\ w \in [1 .. L -> EntityStates] /\ next + count \in Nat
      /\ \A number, first \in Nat, num \in Nat :
           Holds(ring, L, next, number, first, num) =>
             Holds(w, L, next + count, number, first, num)
  <2> HIDE DEF values
  <2>1. /\ w \in [1 .. L -> EntityStates] /\ next + Len(values) \in Nat
        /\ \A number, first \in Nat, num \in Nat :
             Holds(ring, L, next, number, first, num) =>
               Holds(w, L, next + Len(values), number, first, num)
    BY <1>1, <1>2, ClientRingOn
  <2>. QED BY <1>2, <2>1
<1>4. Holds(w, L, next + count, n, next, count)
  <2>1. /\ L \in Nat \ {0} /\ ring \in [1 .. L -> EntityStates] /\ next \in Nat
    BY <1>1, <1>2, Sizes
  <2> HIDE DEF L, ring, next
  <2>. QED BY <1>2, <2>1, HoldsNew
<1>5. /\ n \in Nat \ {0} /\ n \in Int /\ last \in Nat /\ last < n /\ last <= n
      /\ last <= client.serverMessageSequence
  <2>1. last \in Nat /\ client.serverMessageSequence \in Nat /\ n \in Nat
    BY <1>1 DEF Snap, Numbers
  <2>2. last <= client.serverMessageSequence
    BY DEF ClientInv
  <2>. QED BY <2>1, <2>2
<1>6. snap \in Snap /\ snap.messageNum = n /\ snap.ps = n /\ snap.valid /\ snap.numEntities = count
      /\ snap.parseEntitiesNum = next
  BY <1>1, <1>2 DEF Snap
<1>7. ASSUME NEW s \in Slots, s # Slot(n)
      PROVE  IsKept(client.snapshots[s], kept[s], s, last, n)
  <2>1. /\ client.snapshots \in [Slots -> Snap] /\ c.snapshots = client.snapshots
        /\ last \in Nat /\ c.snap.messageNum = last /\ last < n /\ n \in Nat
    BY <1>1, <1>5
  <2> HIDE DEF last
  <2>. QED BY <1>6, <1>7, <2>1, KeptIsRecent
<1>8. kept[Slot(n)] = snap /\ Slot(n) \in Slots
  BY <1>5, <1>6, SlotRange DEF Kept
<1>9. kept \in [Slots -> Snap]
  <2>1. ASSUME NEW s \in Slots
        PROVE  kept[s] \in Snap
    <3>1. CASE s = Slot(n)
      BY <1>6, <1>8, <3>1, Zenon
    <3>2. CASE s # Slot(n)
      BY <1>7, <3>2, Zenon DEF IsKept
    <3>. QED BY <3>1, <3>2
  <2>2. kept = [s \in Slots |-> kept[s]]
    BY DEF Kept
  <2> HIDE DEF kept
  <2>. QED BY <2>1, <2>2
<1> HIDE DEF w, kept, last
<1>10. /\ client'.serverMessageSequence = n /\ client'.snap = snap /\ client'.snapshots = kept
       /\ client'.parseEntitiesNum = next + count /\ client'.parseEntities = w
       /\ client' \in [serverMessageSequence : Numbers, snap : Snap, snapshots : [Slots -> Snap],
                        parseEntitiesNum : Nat, parseEntities : [1 .. L -> EntityStates]]
  <2>1. client' = [client EXCEPT !.serverMessageSequence = n, !.snap = snap, !.snapshots = kept,
                                 !.parseEntities = w, !.parseEntitiesNum = next + count]
    BY DEF w, kept
  <2>. QED BY <1>1, <1>3, <1>6, <1>9, <2>1, Zenon
<1>11. ASSUME NEW s \in Slots
       PROVE  SnapInv(s, client.snapshots[s])'
  <2>1. PICK e : e = kept[s]
    OBVIOUS
  <2>2. PICK old : old = client.snapshots[s]
    OBVIOUS
  <2>3. CASE s = Slot(n)
    <3>1. e = snap
      BY <1>8, <2>1, <2>3
    <3>2. n - PACKET_BACKUP < n /\ n <= n /\ n # 0
      BY <1>5, Sizes
    <3>3. SnapInv(s, e)'
      BY <1>4, <1>6, <1>10, <2>3, <3>1, <3>2 DEF SnapInv
    <3>. QED BY <1>10, <2>1, <3>3
  <2>4. CASE s # Slot(n)
    <3>1. SnapInv(s, old) /\ old \in Snap
      BY <1>1, <2>2 DEF ClientInv
    <3>2. ASSUME e.valid
          PROVE  /\ e.messageNum # 0 /\ Slot(e.messageNum) = s
                 /\ n - PACKET_BACKUP < e.messageNum /\ e.messageNum <= n
                 /\ e.ps = e.messageNum
                 /\ Holds(w, L, next + count, e.messageNum, e.parseEntitiesNum, e.numEntities)
                 /\ server.frames[s].number = e.messageNum =>
                      server.frames[s].num_entities = e.numEntities
      <4>1. /\ e.messageNum = old.messageNum /\ e.ps = old.ps
            /\ e.parseEntitiesNum = old.parseEntitiesNum /\ e.numEntities = old.numEntities
            /\ old.valid
        BY <1>7, <2>1, <2>2, <2>4, <3>2 DEF IsKept
      <4>2. /\ old.messageNum # 0 /\ Slot(old.messageNum) = s
            /\ last - PACKET_BACKUP < old.messageNum /\ old.messageNum <= last
            /\ old.ps = old.messageNum
            /\ Holds(ring, L, next, old.messageNum, old.parseEntitiesNum, old.numEntities)
            /\ server.frames[s].number = old.messageNum =>
                 server.frames[s].num_entities = old.numEntities
        BY <3>1, <4>1, Zenon DEF SnapInv, last
      <4>3. n - PACKET_BACKUP < old.messageNum
        BY <1>7, <2>1, <2>2, <2>4, <3>2, <4>2 DEF IsKept
      <4>4. old.messageNum \in Nat /\ old.parseEntitiesNum \in Nat /\ old.numEntities \in Nat
        BY <3>1 DEF Snap, Numbers, Counts
      <4>5. old.messageNum <= n
        BY <1>5, <4>2, <4>4
      <4>6. Holds(w, L, next + count, old.messageNum, old.parseEntitiesNum, old.numEntities)
        BY <1>3, <4>2, <4>4
      <4>. QED BY <4>1, <4>2, <4>3, <4>5, <4>6
    <3>3. SnapInv(s, e)'
      BY <1>6, <1>10, <3>2, Zenon DEF SnapInv
    <3>. QED BY <1>10, <2>1, <3>3
  <2>. QED BY <2>3, <2>4
<1>12. ClientInv'
  <2>1. n <= n
    BY <1>5
  <2>. QED BY <1>6, <1>8, <1>10, <1>11, <2>1 DEF ClientInv
<1>13. ASSUME NEW b, Acknowledgeable(b)
       PROVE  /\ Acknowledgeable(b)'
              /\ n < b + PACKET_BACKUP =>
                   client'.snapshots[Slot(b)].numEntities = client.snapshots[Slot(b)].numEntities
  <2>1. b \in 1 .. last
    BY <1>13 DEF Acknowledgeable, last
  <2>2. b \in Int /\ b \in 1 .. n /\ b < n /\ b # n /\ b < n + PACKET_BACKUP
    BY <1>5, <2>1, Sizes
  <2>3. ASSUME n < b + PACKET_BACKUP
        PROVE  /\ kept[Slot(b)].valid /\ kept[Slot(b)].messageNum = b
               /\ kept[Slot(b)].numEntities = client.snapshots[Slot(b)].numEntities
    <3>1. Slot(b) \in Slots
      BY <2>2, SlotRange
    <3>2. Slot(b) # Slot(n)
      BY <1>5, <2>2, <2>3, SameSlot, Zenon
    <3>3. last < b + PACKET_BACKUP /\ b <= last
      BY <1>5, <2>1, <2>2, <2>3, Sizes
    <3>4. client.snapshots[Slot(b)].valid /\ client.snapshots[Slot(b)].messageNum = b
      BY <1>13, <3>3 DEF Acknowledgeable, last
    <3>. QED BY <1>7, <2>3, <3>1, <3>2, <3>3, <3>4 DEF IsKept
  <2>4. Acknowledgeable(b)'
    BY <1>6, <1>10, <2>2, <2>3 DEF Acknowledgeable
  <2>. QED BY <1>10, <2>3, <2>4
<1>. QED BY <1>10, <1>12, <1>13
LEMMA CL_ParseSnapshotInv == IInv /\ CL_ParseSnapshot /\ ~overran' => IInv'
<1> SUFFICES ASSUME IInv, CL_ParseSnapshot, ~overran' PROVE IInv'
  OBVIOUS
<1>1. PICK m : m = Head(toClient)
  OBVIOUS
<1> DEFINE c == [client EXCEPT !.serverMessageSequence = m.number]
           n == m.number  b == m.number - m.lastframe
           Snapped(read) == [valid |-> TRUE, messageNum |-> m.number, ps |-> read.ps,
                             parseEntitiesNum |-> c.parseEntitiesNum,
                             numEntities |-> Len(read.entities)]
<1>2. /\ toClient # <<>> /\ toClient' = Tail(toClient)
      /\ server' = server /\ entities' = entities /\ toServer' = toServer
      /\ \E read \in Decodings(c, m) :
           client' = IF m.lastframe = 0 \/ Usable(c, m)
                     THEN [Parsed(c, read) EXCEPT !.snap = Snapped(read),
                                                  !.snapshots = Kept(c, Snapped(read))]
                     ELSE Parsed(c, read)
      /\ ~(Usable(c, m) /\ Overwrites(c, m))
  BY <1>1 DEF CL_ParseSnapshot
<1>3. PICK read \in Decodings(c, m) :
        client' = IF m.lastframe = 0 \/ Usable(c, m)
                  THEN [Parsed(c, read) EXCEPT !.snap = Snapped(read),
                                               !.snapshots = Kept(c, Snapped(read))]
                  ELSE Parsed(c, read)
  BY <1>2
<1>4. /\ m \in ServerMessage /\ MessageInv(m)
      /\ toClient' \in Seq(ServerMessage) /\ Len(toClient') <= Capacity
      /\ \A i \in 1 .. Len(toClient') :
           /\ toClient'[i] \in ServerMessage /\ MessageInv(toClient'[i])
           /\ n < toClient'[i].number
      /\ \A i, j \in 1 .. Len(toClient') : i < j => toClient'[i].number < toClient'[j].number
  BY <1>1, <1>2, ToClientTail DEF IInv
<1>5. /\ client \in [serverMessageSequence : Numbers, snap : Snap, snapshots : [Slots -> Snap],
                     parseEntitiesNum : Nat,
                     parseEntities : [1 .. MAX_PARSE_ENTITIES -> EntityStates]]
      /\ client.snap.messageNum <= client.serverMessageSequence
      /\ \A s \in Slots : SnapInv(s, client.snapshots[s])
  BY DEF IInv, ClientInv
<1>6. /\ c.snap = client.snap /\ c.snapshots = client.snapshots
      /\ c.parseEntitiesNum = client.parseEntitiesNum /\ c.parseEntities = client.parseEntities
  BY <1>5
<1>7. /\ n \in Numbers /\ n \in Nat /\ m.lastframe \in Nat
      /\ client.serverMessageSequence < n /\ n < server.outgoingSequence
      /\ client.serverMessageSequence \in Nat /\ client.snap.messageNum \in Nat
      /\ client.snap.messageNum < n
  <2>1. /\ n \in Numbers /\ n \in Nat /\ m.lastframe \in Nat
        /\ client.serverMessageSequence \in Nat /\ client.snap.messageNum \in Nat
    BY <1>4, <1>5 DEF ServerMessage, Numbers, Snap
  <2>2. client.serverMessageSequence < n /\ n < server.outgoingSequence
    BY <1>4 DEF MessageInv
  <2>. QED BY <1>5, <2>1, <2>2
<1>8. PICK count \in Counts :
        /\ m.to = [ps |-> n, entities |-> FrameEntities(n, count)]
        /\ server.frames[Slot(n)].number = n => server.frames[Slot(n)].num_entities = count
  BY <1>4 DEF MessageInv
<1>9. /\ FrameEntities(n, count) \in Seq(EntityStates) /\ Len(FrameEntities(n, count)) = count
      /\ count \in Nat /\ count <= MaxEntities
  <2>1. count \in Nat /\ count <= MaxEntities + OtherEntities /\ count <= MaxEntities
    BY Sizes DEF Counts
  <2>. QED BY <1>7, <2>1, FrameEntitiesType
<1>10. read.entities \in Seq(EntityStates)
  <2>1. CASE read = m.to
    BY <1>8, <1>9, <2>1
  <2>2. CASE read # m.to
    <3>1. Base(c, m).numEntities \in Nat /\ Len(m.to.entities) \in Nat
      <4>1. b \in Int
        BY <1>7
      <4>2. client.snapshots[Slot(b)] \in Snap
        BY <1>5, <4>1, SlotRange
      <4>3. m.to.entities = FrameEntities(n, count)
        BY <1>8
      <4> HIDE DEF c
      <4>. QED BY <1>6, <1>9, <4>2, <4>3 DEF Base, Snap, Counts
    <3>2. PICK k \in 0 .. Base(c, m).numEntities + Len(m.to.entities) :
            read = [ps |-> Noise, entities |-> [i \in 1 .. k |-> NoiseEntity]]
      BY <1>3, <2>2 DEF Decodings, Misread
    <3>3. k \in Nat
      BY <3>1
    <3>4. read.entities \in [1 .. k -> EntityStates]
      BY <3>2 DEF EntityStates
    <3>. QED BY <3>3, <3>4, RingLength
  <2>. QED BY <2>1, <2>2
<1>11. ASSUME m.lastframe # 0, Usable(c, m)
       PROVE  read = m.to
  <2> DEFINE base == client.snapshots[Slot(b)]
  <2>1. /\ m.lastframe < PACKET_BACKUP /\ Acknowledgeable(b)
        /\ m.from = [ps |-> b, entities |-> FrameEntities(b, base.numEntities)]
    <3>1. m.lastframe > 0
      BY <1>7, <1>11
    <3>. QED BY <1>4, <3>1 DEF MessageInv
  <2>2. b \in Int /\ Slot(b) \in Slots
    BY <1>7, SlotRange
  <2>3. client.snap.messageNum < b + PACKET_BACKUP
    BY <1>7, <2>1, Sizes
  <2>4. base.valid /\ base.messageNum = b /\ Base(c, m) = base
    BY <1>6, <2>1, <2>3 DEF Acknowledgeable, Base
  <2>5. base \in Snap /\ SnapInv(Slot(b), base)
    BY <1>5, <2>2
  <2> HIDE DEF base, b
  <2>6. /\ base.ps = b
        /\ Holds(client.parseEntities, MAX_PARSE_ENTITIES, client.parseEntitiesNum,
                 b, base.parseEntitiesNum, base.numEntities)
    BY <2>4, <2>5, Zenon DEF SnapInv
  <2>7. /\ base.parseEntitiesNum \in Nat /\ base.numEntities \in Nat
        /\ client.parseEntitiesNum \in Nat
    BY <1>5, <2>5 DEF Snap, Counts
  <2>8. base.parseEntitiesNum >= client.parseEntitiesNum - MAX_PARSE_ENTITIES
    <3>1. client.parseEntitiesNum - base.parseEntitiesNum <= MAX_PARSE_ENTITIES - PARSE_MARGIN
      BY <1>6, <1>11, <2>4 DEF Usable
    <3>. QED BY <2>7, <3>1
  <2>9. Len(client.parseEntities) = MAX_PARSE_ENTITIES /\ MAX_PARSE_ENTITIES \in Nat \ {0}
    BY <1>5, RingLength, Sizes
  <2>10. Entries(client.parseEntities, base.parseEntitiesNum, base.numEntities) =
           FrameEntities(b, base.numEntities)
    BY <2>6, <2>7, <2>8, <2>9, HoldsEntries
  <2>11. HeldByClient(c, base) = m.from
    BY <1>6, <2>1, <2>6, <2>10 DEF HeldByClient
  <2>12. ~Overwrites(c, m)
    BY <1>2, <1>11
  <2>. QED BY <1>3, <2>4, <2>11, <2>12 DEF Decodings
<1>12. /\ ClientInv' /\ client'.serverMessageSequence = n
       /\ \A x : Acknowledgeable(x) =>
            /\ Acknowledgeable(x)'
            /\ n < x + PACKET_BACKUP =>
                 client'.snapshots[Slot(x)].numEntities = client.snapshots[Slot(x)].numEntities
  <2>1. CASE m.lastframe = 0 \/ Usable(c, m)
    <3>1. read = m.to
      <4>1. CASE m.lastframe = 0
        <5>1. ~Overwrites(c, m)
          BY <4>1 DEF Overwrites
        <5>. QED BY <1>3, <4>1, <5>1 DEF Decodings
      <4>2. CASE m.lastframe # 0
        BY <1>11, <2>1, <4>2
      <4>. QED BY <4>1, <4>2
    <3>2. read.ps = n /\ read.entities = FrameEntities(n, count)
      BY <1>8, <3>1
    <3>3. PICK snap : snap = Snapped(read)
      OBVIOUS
    <3>4. snap = [valid |-> TRUE, messageNum |-> n, ps |-> n,
                  parseEntitiesNum |-> client.parseEntitiesNum, numEntities |-> count]
      BY <1>6, <1>9, <3>2, <3>3
    <3>5. client' = [Parsed(c, read) EXCEPT !.snap = snap, !.snapshots = Kept(c, snap)]
      BY <1>3, <2>1, <3>3
    <3>6. PICK d : d = c
      OBVIOUS
    <3>7. client' = [client EXCEPT !.serverMessageSequence = n, !.snap = snap,
                                   !.snapshots = Kept(d, snap),
                                   !.parseEntities = Wrote(@, client.parseEntitiesNum,
                                                           FrameEntities(n, count)),
                                   !.parseEntitiesNum = @ + count]
      BY <1>5, <1>6, <1>9, <3>2, <3>5, <3>6 DEF Parsed
    <3>8. d.snapshots = client.snapshots /\ d.snap = client.snap
      BY <1>6, <3>6
    <3> HIDE DEF c, Snapped
    <3>. QED BY <1>2, <1>7, <1>8, <3>4, <3>7, <3>8, NewSnapshot DEF IInv
  <2>2. CASE ~(m.lastframe = 0 \/ Usable(c, m))
    <3>1. PICK values : values = read.entities
      OBVIOUS
    <3>2. client' = [client EXCEPT !.serverMessageSequence = n,
                                   !.parseEntities = Wrote(@, client.parseEntitiesNum, values),
                                   !.parseEntitiesNum = @ + Len(values)]
      BY <1>3, <1>5, <1>6, <2>2, <3>1 DEF Parsed
    <3>3. values \in Seq(EntityStates)
      BY <1>10, <3>1
    <3> HIDE DEF c, Snapped
    <3>4. /\ ClientInv' /\ client'.serverMessageSequence = n
          /\ \A x : Acknowledgeable(x) => Acknowledgeable(x)'
          /\ client'.snapshots = client.snapshots
      BY <1>2, <1>7, <3>2, <3>3, ThrownAway DEF IInv
    <3>. QED BY <3>4
  <2>. QED BY <2>1, <2>2
<1> HIDE DEF c, Snapped
<1>13. ServerInv'
  BY <1>2 DEF IInv, ServerInv
<1>14. ASSUME NEW later, MessageInv(later), later \in ServerMessage, n < later.number
       PROVE  MessageInv(later)'
  <2> DEFINE x == later.number - later.lastframe
  <2>1. client'.serverMessageSequence < later.number
    BY <1>12, <1>14
  <2>2. ASSUME later.lastframe > 0
        PROVE  /\ Acknowledgeable(x)'
               /\ client'.snapshots[Slot(x)].numEntities = client.snapshots[Slot(x)].numEntities
    <3>1. later.lastframe < PACKET_BACKUP /\ Acknowledgeable(x)
      BY <1>14, <2>2 DEF MessageInv
    <3>2. later.number \in Nat /\ later.lastframe \in Nat
      BY <1>14 DEF ServerMessage, Numbers
    <3>3. n < x + PACKET_BACKUP
      BY <1>7, <1>14, <3>1, <3>2, Sizes
    <3>. QED BY <1>12, <3>1, <3>3
  <2>. QED BY <1>2, <1>14, <2>1, <2>2 DEF MessageInv
<1>15. ToClientInv'
  BY <1>4, <1>14 DEF ToClientInv
<1>16. ToServerInv'
  BY <1>2, <1>12 DEF IInv, ToServerInv
<1>. QED BY <1>12, <1>13, <1>15, <1>16 DEF IInv

-----------------------------------------------------------------------------
LEMMA StutterInv == IInv /\ UNCHANGED vars => IInv'
<1> SUFFICES ASSUME IInv, UNCHANGED vars PROVE IInv'
  OBVIOUS
<1>1. /\ ServerInv' /\ ClientInv'
      /\ \A m : MessageInv(m)' <=> MessageInv(m)
      /\ \A b : Acknowledgeable(b)' <=> Acknowledgeable(b)
  BY SameEnds DEF IInv, vars
<1>. QED BY <1>1 DEF IInv, vars, ToClientInv, ToServerInv

LEMMA NextInv == IInv /\ [Next]_vars /\ ~overran' => IInv'
BY SV_SendClientMessagesInv, SV_UserMoveInv, SV_ClientEnterWorldInv, CL_WritePacketInv,
   CL_ParseSnapshotInv, LoseInv, StutterInv DEF Next

LEMMA OverranStays ==
  ASSUME overran \in BOOLEAN, [Next]_vars
  PROVE  overran' \in BOOLEAN /\ (overran => overran')
<1>1. ASSUME NEW others \in 0 .. OtherEntities, NEW count \in Counts,
             SV_SendClientMessages(others, count)
      PROVE  overran' \in BOOLEAN /\ (overran => overran')
  BY <1>1 DEF SV_SendClientMessages
<1>2. CASE CL_ParseSnapshot
  BY <1>2 DEF CL_ParseSnapshot
<1>3. CASE SV_UserMove \/ SV_ClientEnterWorld \/ Lose \/ UNCHANGED vars
  BY <1>3 DEF SV_UserMove, SV_ClientEnterWorld, Lose, vars
<1>4. ASSUME NEW nodelta \in BOOLEAN, CL_WritePacket(nodelta)
      PROVE  overran' = overran
  BY <1>4 DEF CL_WritePacket
<1>. QED BY <1>1, <1>2, <1>3, <1>4 DEF Next

\* The invariant holds as long as no frame was too large for a ring.
UntilOverran == overran \in BOOLEAN /\ (~overran => IInv)

\* Until a frame is too large for a ring, the server's frames and the client's
\* snapshots are the last PACKET_BACKUP ones with their entities as far as the rings
\* go, and every difference on its way is from a frame the client has until then.
THEOREM Invariance == Spec => []UntilOverran
<1>1. Init => UntilOverran
  BY InitInv DEF UntilOverran, Init
<1>2. UntilOverran /\ [Next]_vars => UntilOverran'
  <2> SUFFICES ASSUME UntilOverran, [Next]_vars PROVE UntilOverran'
    OBVIOUS
  <2>1. overran' \in BOOLEAN /\ (overran => overran')
    BY OverranStays DEF UntilOverran
  <2>2. ASSUME ~overran' PROVE IInv'
    BY <2>1, <2>2, NextInv DEF UntilOverran
  <2>. QED BY <2>1, <2>2 DEF UntilOverran
<1>. QED BY <1>1, <1>2, PTL DEF Spec

LEMMA IInvTypeOK == IInv /\ overran \in BOOLEAN => TypeOK
<1> SUFFICES ASSUME IInv, overran \in BOOLEAN PROVE TypeOK
  OBVIOUS
<1>1. /\ server \in [outgoingSequence : 1 .. MaxMessages + 1, deltaMessage : {-1} \cup Numbers,
                     frames : [Slots -> [number : Numbers, first_entity : Nat,
                                         num_entities : Counts]]]
      /\ entities \in [ring : [1 .. numSnapshotEntities -> EntityStates], next : Nat]
  BY DEF IInv, ServerInv, Frame
<1>2. entities.next \in Nat /\ Len(entities.ring) = numSnapshotEntities
  BY <1>1, RingLength
<1>3. client \in [serverMessageSequence : Numbers, snap : Snap, snapshots : [Slots -> Snap],
                  parseEntitiesNum : Nat,
                  parseEntities : [1 .. MAX_PARSE_ENTITIES -> EntityStates]]
  BY DEF IInv, ClientInv
<1>4. \A snap \in {client.snap} \cup {client.snapshots[s] : s \in Slots} :
        snap \in [valid : BOOLEAN, messageNum : Numbers, ps : {Noise} \cup Numbers,
                 parseEntitiesNum : Nat, numEntities : Nat]
  BY <1>3 DEF Snap, Counts
<1>5. Len(toServer) <= Capacity /\ Len(toClient) <= Capacity
  BY DEF IInv, ToServerInv, ToClientInv
<1>6. ASSUME NEW i \in 1 .. Len(toClient)
      PROVE  toClient[i].lastframe \in 0 .. toClient[i].number - 1
  <2> DEFINE m == toClient[i]
  <2>1. m \in ServerMessage /\ MessageInv(m)
    <3>1. toClient \in Seq(ServerMessage) /\ MessageInv(m)
      BY DEF IInv, ToClientInv
    <3>. QED BY <3>1, ElementOfSeq
  <2> HIDE DEF m
  <2>2. m.number \in Nat \ {0} /\ m.lastframe \in Nat
    BY <2>1 DEF ServerMessage, Numbers
  <2>3. m.lastframe > 0 => m.number - m.lastframe \in 1 .. client.snap.messageNum
    BY <2>1 DEF MessageInv, Acknowledgeable
  <2>4. m.lastframe \in 0 .. m.number - 1
    BY <2>2, <2>3
  <2>. QED BY <2>4 DEF m
<1>. QED BY <1>1, <1>2, <1>3, <1>4, <1>5, <1>6 DEF TypeOK

LEMMA IInvBases == IInv => BaseKept /\ BaseIntact
<1> SUFFICES ASSUME IInv, NEW i \in 1 .. Len(toClient), toClient[i].lastframe > 0
             PROVE  LET m == toClient[i]  b == m.number - m.lastframe IN
                    /\ Base(client, m).valid /\ Base(client, m).messageNum = b
                    /\ m.from = [ps |-> b, entities |-> FrameEntities(b, Len(m.from.entities))]
  BY DEF BaseKept, BaseIntact
<1> DEFINE m == toClient[i]  b == m.number - m.lastframe
           base == client.snapshots[Slot(b)]
<1>1. m \in ServerMessage /\ MessageInv(m) /\ m.lastframe > 0
  <2>1. toClient \in Seq(ServerMessage) /\ MessageInv(m)
    BY DEF IInv, ToClientInv
  <2>. QED BY <2>1, ElementOfSeq
<1> HIDE DEF m
<1>2. m.number \in Numbers /\ m.number \in Nat /\ m.lastframe \in Nat
  BY <1>1 DEF ServerMessage, Numbers
<1>3. /\ m.lastframe < PACKET_BACKUP /\ Acknowledgeable(b)
      /\ m.from = [ps |-> b, entities |-> FrameEntities(b, base.numEntities)]
      /\ client.serverMessageSequence < m.number
  BY <1>1 DEF MessageInv
<1>4. client.snap.messageNum \in Nat /\ client.serverMessageSequence \in Nat
      /\ client.snap.messageNum <= client.serverMessageSequence
      /\ client.snapshots \in [Slots -> Snap]
  BY DEF IInv, ClientInv, Snap, Numbers
<1>5. client.snap.messageNum < b + PACKET_BACKUP /\ b \in 1 .. client.snap.messageNum
  <2> DEFINE k == m.number  d == m.lastframe
             now == client.snap.messageNum  heard == client.serverMessageSequence
  <2>1. b \in 1 .. now
    BY <1>3 DEF Acknowledgeable
  <2>2. k \in Nat /\ d \in Nat /\ now \in Nat /\ heard \in Nat /\ now <= heard
    BY <1>2, <1>4
  <2>3. d < PACKET_BACKUP /\ heard < k /\ b = k - d
    BY <1>3
  <2>4. PACKET_BACKUP \in Nat
    BY Sizes
  <2> HIDE DEF k, d, now, heard, b
  <2>5. now < b + PACKET_BACKUP
    BY <2>2, <2>3, <2>4
  <2>. QED BY <2>1, <2>5, Zenon DEF now
<1>6. base.valid /\ base.messageNum = b
  BY <1>3, <1>5 DEF Acknowledgeable
<1>7. b \in Numbers /\ Slot(b) \in Slots
  BY <1>2, <1>4, <1>5, SlotRange DEF Numbers
<1>8. base.numEntities \in Nat /\ base.numEntities <= MaxEntities + OtherEntities
  BY <1>4, <1>7, Sizes DEF Snap, Counts
<1> HIDE DEF b, base
<1>9. Len(FrameEntities(b, base.numEntities)) = base.numEntities
  BY <1>7, <1>8, FrameEntitiesType
<1>10. m.from.entities = FrameEntities(b, base.numEntities)
  BY <1>3
<1>. QED BY <1>3, <1>6, <1>9, <1>10 DEF Base, m, b, base

LEMMA IInvFaithful == UntilOverran => SnapshotFaithful
<1> SUFFICES ASSUME IInv, NEW n \in Numbers \ {0}, Obtainable(n)
             PROVE  LET snap == client.snapshots[Slot(n)] IN
                    HeldByClient(client, snap) =
                      [ps |-> n, entities |-> FrameEntities(n, snap.numEntities)]
  BY DEF SnapshotFaithful, UntilOverran
<1> DEFINE snap == client.snapshots[Slot(n)]  last == client.snap.messageNum
<1>1. n \in Int /\ Slot(n) \in Slots
  BY SlotRange DEF Numbers
<1>2. /\ client.parseEntities \in [1 .. MAX_PARSE_ENTITIES -> EntityStates]
      /\ client.parseEntitiesNum \in Nat /\ last \in Nat
      /\ snap \in Snap /\ SnapInv(Slot(n), snap)
  BY <1>1 DEF IInv, ClientInv, Snap, Numbers
<1>3. /\ last - n \in 0 .. PACKET_BACKUP - 1 /\ snap.valid
      /\ client.parseEntitiesNum - snap.parseEntitiesNum < MAX_PARSE_ENTITIES
  BY DEF Obtainable
<1> HIDE DEF snap, last
<1>4. /\ Slot(snap.messageNum) = Slot(n) /\ snap.ps = snap.messageNum
      /\ last - PACKET_BACKUP < snap.messageNum /\ snap.messageNum <= last
      /\ Holds(client.parseEntities, MAX_PARSE_ENTITIES, client.parseEntitiesNum,
               snap.messageNum, snap.parseEntitiesNum, snap.numEntities)
  BY <1>2, <1>3, Zenon DEF SnapInv, last
<1>5. /\ snap.messageNum \in Int /\ snap.parseEntitiesNum \in Nat /\ snap.numEntities \in Nat
  BY <1>2 DEF Snap, Numbers, Counts
<1>6. snap.messageNum < n + PACKET_BACKUP /\ n < snap.messageNum + PACKET_BACKUP
  BY <1>1, <1>2, <1>3, <1>4, <1>5, Sizes
<1>7. snap.messageNum = n
  BY <1>1, <1>4, <1>5, <1>6, SameSlot
<1>8. Len(client.parseEntities) = MAX_PARSE_ENTITIES /\ MAX_PARSE_ENTITIES \in Nat \ {0}
      /\ snap.parseEntitiesNum >= client.parseEntitiesNum - MAX_PARSE_ENTITIES
  <2>1. MAX_PARSE_ENTITIES \in Nat \ {0}
    BY Sizes
  <2>2. Len(client.parseEntities) = MAX_PARSE_ENTITIES
    BY <1>2, <2>1, RingLength
  <2>3. snap.parseEntitiesNum >= client.parseEntitiesNum - MAX_PARSE_ENTITIES
    BY <1>2, <1>3, <1>5, <2>1
  <2>. QED BY <2>1, <2>2, <2>3
<1>9. Entries(client.parseEntities, snap.parseEntitiesNum, snap.numEntities) =
        FrameEntities(n, snap.numEntities)
  BY <1>2, <1>4, <1>5, <1>7, <1>8, HoldsEntries
<1>10. HeldByClient(client, snap) = [ps |-> n, entities |-> FrameEntities(n, snap.numEntities)]
  BY <1>4, <1>7, <1>9 DEF HeldByClient
<1>. QED BY <1>10 DEF snap

\* Until a frame is too large for a ring, every difference on its way was made from a
\* frame that was intact, and when it gets to the client, however many messages before
\* it are lost, its base is in its slot and valid: CL_ParseSnapshot's "should never
\* happen" and "too old" branches are not taken.
THEOREM DifferencesUsable == Spec => [](~overran => BaseUsable)
<1>1. UntilOverran => (~overran => BaseUsable)
  BY IInvTypeOK, IInvBases DEF UntilOverran, BaseUsable
<1>. QED BY <1>1, Invariance, PTL

\* Every snapshot the client game can get is the frame the server built under that
\* number, whatever was lost, until a frame is too large for a ring.
THEOREM Faithful == Spec => []SnapshotFaithful
BY IInvFaithful, Invariance, PTL
===========================================================================
