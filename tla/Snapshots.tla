----------------------------- MODULE Snapshots -----------------------------
(***************************************************************************)
(* Delta compression of snapshots for one active client                    *)
(* (src/code/server/sv_snapshot.cpp, src/code/client/cl_parse.cpp).        *)
(*                                                                         *)
(* The server keeps the last PACKET_BACKUP frames it built for the client; *)
(* the entities of all frames of all clients are in one ring.  The client  *)
(* keeps the last PACKET_BACKUP snapshots it parsed, and their entities in *)
(* a ring of its own.  A snapshot is sent as the difference from a frame   *)
(* that the client has acknowledged, when both sides can still have it.    *)
(*                                                                         *)
(* The world changes with every frame, so a frame is identified with the   *)
(* number of its message: its playerstate is the number, its i-th entity   *)
(* <<number, i>>.  A difference applied to the frame it was made from      *)
(* gives the new frame; applied to anything else it gives Noise.  Messages *)
(* arrive in order, some do not arrive (MessageStream).                    *)
(*                                                                         *)
(* Nothing in the source keeps the entities of one frame within the ring   *)
(* of the server or the margin of the client.  A frame of more is written  *)
(* over itself or over its base, which overran remembers: what the         *)
(* properties promise ends there.                                          *)
(***************************************************************************)
EXTENDS Integers, Sequences

CONSTANTS PACKET_BACKUP,        \* frames kept on each side (32)
          DELTA_MARGIN,         \* frames the server leaves unused (3)
          numSnapshotEntities,  \* size of svs.snapshotEntities
          MAX_PARSE_ENTITIES,   \* size of cl.parseEntities (2048)
          PARSE_MARGIN,         \* entries the client leaves unused (128)
          MaxEntities,          \* MAX_SNAPSHOT_ENTITIES (1024)
          OtherEntities,        \* bound: entities of other clients between two frames
          MaxMessages,          \* bound: server messages of one behaviour
          Capacity              \* bound: messages on their way, each direction

ASSUME SnapshotsAssumption ==
  /\ PACKET_BACKUP \in Nat /\ numSnapshotEntities \in Nat \ {0}
  /\ MAX_PARSE_ENTITIES \in Nat /\ PARSE_MARGIN \in Nat
  /\ DELTA_MARGIN \in 1 .. PACKET_BACKUP - 1
  /\ PARSE_MARGIN < MAX_PARSE_ENTITIES
  /\ MaxEntities \in Nat \ {0} /\ OtherEntities \in Nat
  /\ MaxMessages \in Nat /\ Capacity \in Nat \ {0}

VARIABLES
  client,       \* clientActive_t: snap, snapshots, parseEntities
  server,       \* client_t: frames, deltaMessage; its half of the netchan
  entities,     \* svs.snapshotEntities and svs.nextSnapshotEntities
  toServer,     \* client messages on their way
  toClient,     \* server messages on their way
  overran       \* history: a frame was written over itself or over its base

vars == <<client, server, entities, toServer, toClient, overran>>

Slot(n) == n % PACKET_BACKUP
Slots == 0 .. PACKET_BACKUP - 1

NoEntity == <<0, 0>>
Noise == -1               \* playerstate of a frame decoded from the wrong base
NoiseEntity == <<-1, 0>>
NoBase == [ps |-> 0, entities |-> <<>>]

\* count entries of a ring from position first on, and the ring after writing
\* values there: each place holds the last that was written to it.
Entries(ring, first, count) ==
  [i \in 1 .. count |-> ring[((first + i - 1) % Len(ring)) + 1]]
Wrote(ring, first, values) ==
  [k \in 1 .. Len(ring) |->
     LET i == Len(values) - ((first + Len(values) - k) % Len(ring)) IN
     IF i >= 1 THEN values[i] ELSE ring[k]]

-----------------------------------------------------------------------------
(* The server.                                                             *)

EmptyFrame == [number |-> 0, first_entity |-> 0, num_entities |-> 0]

NewServer ==
  [outgoingSequence |-> 1,
   deltaMessage |-> -1,
   frames |-> [s \in Slots |-> EmptyFrame]]

\* SV_BuildClientSnapshot, for any client: the entities go into the ring.
Built(ents, count, number) ==
  [ring |-> Wrote(ents.ring, ents.next, [i \in 1 .. count |-> <<number, i>>]),
   next |-> ents.next + count]

\* "Delta request from out of date packet".
OutOfDatePacket(s) == s.outgoingSequence - s.deltaMessage >= PACKET_BACKUP - DELTA_MARGIN

\* "Delta request from out of date entities".
OutOfDateEntities(frame, next) == frame.first_entity <= next - numSnapshotEntities

\* The distance to the frame to delta from, or 0 for none.
LastFrame(s, next) ==
  IF \/ s.deltaMessage <= 0
     \/ OutOfDatePacket(s)
     \/ OutOfDateEntities(s.frames[Slot(s.deltaMessage)], next)
  THEN 0
  ELSE s.outgoingSequence - s.deltaMessage

\* What a frame holds now that others may have written over its entities.
Held(frame, ring) ==
  [ps |-> frame.number, entities |-> Entries(ring, frame.first_entity, frame.num_entities)]

\* SV_SendClientMessages: the frames of other clients, which take entries of the
\* same ring, and then this one's, built and written as a difference.
SV_SendClientMessages(others, count) ==
  LET n == server.outgoingSequence
      before == Built(entities, others, 0)
      built == Built(before, count, n)
      frame == [number |-> n, first_entity |-> before.next, num_entities |-> count]
      framed == [server EXCEPT !.frames[Slot(n)] = frame]
      lastframe == LastFrame(framed, built.next)
  IN
  /\ n <= MaxMessages
  /\ Len(toClient) < Capacity
  /\ entities' = built
  /\ server' = [framed EXCEPT !.outgoingSequence = n + 1]
  /\ toClient' = Append(toClient,
       [number |-> n, lastframe |-> lastframe,
        from |-> IF lastframe = 0 THEN NoBase
                 ELSE Held(framed.frames[Slot(n - lastframe)], built.ring),
        to |-> Held(frame, built.ring)])
  /\ overran' = (overran \/ count > numSnapshotEntities)
  /\ UNCHANGED <<client, toServer>>

\* Wrong: deltas from the last message sent, not from the one acknowledged.
UserMoveUnacked(s, m) == [s EXCEPT !.deltaMessage = IF m.delta THEN s.outgoingSequence - 1 ELSE -1]

\* SV_UserMove: the frame to delta from is the one the move acknowledges.
UserMove(s, m) == [s EXCEPT !.deltaMessage = IF m.delta THEN m.acknowledge ELSE -1]

SV_UserMove ==
  /\ toServer # <<>>
  /\ toServer' = Tail(toServer)
  /\ server' = UserMove(server, Head(toServer))
  /\ UNCHANGED <<client, entities, toClient, overran>>

\* SV_ClientEnterWorld, after a restart of the map.
SV_ClientEnterWorld ==
  /\ server' = [server EXCEPT !.deltaMessage = -1]
  /\ UNCHANGED <<client, entities, toServer, toClient, overran>>

-----------------------------------------------------------------------------
(* The client.                                                             *)

NoSnapshot == [valid |-> FALSE, messageNum |-> 0, ps |-> 0,
               parseEntitiesNum |-> 0, numEntities |-> 0]

NewClient ==
  [serverMessageSequence |-> 0,
   snap |-> NoSnapshot,
   snapshots |-> [s \in Slots |-> NoSnapshot],
   parseEntitiesNum |-> 0,
   parseEntities |-> [i \in 1 .. MAX_PARSE_ENTITIES |-> NoEntity]]

\* Wrong: asks for a difference whenever it has a snapshot, whether or not the
\* last message brought it.
CanDeltaFromAny(c) == c.snap.valid

\* clc_move rather than clc_moveNoDelta.
CanDelta(c) == c.snap.valid /\ c.serverMessageSequence = c.snap.messageNum

\* cl_nodelta may ask for no difference at any time.
CL_WritePacket(nodelta) ==
  /\ Len(toServer) < Capacity
  /\ toServer' = Append(toServer, [acknowledge |-> client.serverMessageSequence,
                                   delta |-> CanDelta(client) /\ ~nodelta])
  /\ UNCHANGED <<client, server, entities, toClient, overran>>

Base(c, m) == c.snapshots[Slot(m.number - m.lastframe)]

HeldByClient(c, old) ==
  [ps |-> old.ps, entities |-> Entries(c.parseEntities, old.parseEntitiesNum, old.numEntities)]

Usable(c, m) ==
  /\ Base(c, m).valid
  /\ Base(c, m).messageNum = m.number - m.lastframe
  /\ c.parseEntitiesNum - Base(c, m).parseEntitiesNum <= MAX_PARSE_ENTITIES - PARSE_MARGIN

\* The entities read go into the places of the base they are read from.
Overwrites(c, m) ==
  /\ m.lastframe > 0
  /\ c.parseEntitiesNum + Len(m.to.entities) > Base(c, m).parseEntitiesNum + MAX_PARSE_ENTITIES

\* A difference read from the wrong base: any of the base's entities may be kept,
\* and any of the message's added.
Misread(c, m) ==
  {[ps |-> Noise, entities |-> [i \in 1 .. k |-> NoiseEntity]] :
     k \in 0 .. Base(c, m).numEntities + Len(m.to.entities)}

\* The client's reading of a message, with the entities it appends to its ring.
\* What becomes of a base that is written over depends on the entities.
Decodings(c, m) ==
  LET right == m.lastframe = 0 \/ HeldByClient(c, Base(c, m)) = m.from IN
  (IF right THEN {m.to} ELSE {}) \cup (IF right /\ ~Overwrites(c, m) THEN {} ELSE Misread(c, m))

Parsed(c, read) ==
  [c EXCEPT !.parseEntities = Wrote(@, c.parseEntitiesNum, read.entities),
            !.parseEntitiesNum = @ + Len(read.entities)]

\* Wrong: the snapshots between the last one and this one stay valid.
KeptAll(c, snap) == [c.snapshots EXCEPT ![Slot(snap.messageNum)] = snap]

\* The snapshots between the last one and this one were lost: their slots hold
\* older ones, which are made invalid.
Kept(c, snap) ==
  LET missed == {n \in c.snap.messageNum + 1 .. snap.messageNum - 1 :
                   snap.messageNum - n < PACKET_BACKUP}
  IN  [s \in Slots |->
         IF s = Slot(snap.messageNum) THEN snap
         ELSE [c.snapshots[s] EXCEPT !.valid = @ /\ ~\E n \in missed : Slot(n) = s]]

\* CL_ParseSnapshot.  An unusable difference is read and thrown away.
CL_ParseSnapshot ==
  /\ toClient # <<>>
  /\ toClient' = Tail(toClient)
  /\ LET m == Head(toClient)
         c == [client EXCEPT !.serverMessageSequence = m.number] IN
     \E read \in Decodings(c, m) :
       LET parsed == Parsed(c, read)
           snap == [valid |-> TRUE, messageNum |-> m.number, ps |-> read.ps,
                    parseEntitiesNum |-> c.parseEntitiesNum,
                    numEntities |-> Len(read.entities)] IN
       /\ client' = IF m.lastframe = 0 \/ Usable(c, m)
                    THEN [parsed EXCEPT !.snap = snap, !.snapshots = Kept(c, snap)]
                    ELSE parsed
       /\ overran' = (overran \/ (Usable(c, m) /\ Overwrites(c, m)))
  /\ UNCHANGED <<server, entities, toServer>>

-----------------------------------------------------------------------------
Lose ==
  /\ \/ toServer # <<>> /\ toServer' = Tail(toServer) /\ UNCHANGED toClient
     \/ toClient # <<>> /\ toClient' = Tail(toClient) /\ UNCHANGED toServer
  /\ UNCHANGED <<client, server, entities, overran>>

Init ==
  /\ client = NewClient
  /\ server = NewServer
  /\ entities = [ring |-> [i \in 1 .. numSnapshotEntities |-> NoEntity], next |-> 0]
  /\ toServer = <<>> /\ toClient = <<>>
  /\ overran = FALSE

Counts == 0 .. MaxEntities

Next ==
  \/ \E others \in 0 .. OtherEntities, count \in Counts : SV_SendClientMessages(others, count)
  \/ SV_UserMove
  \/ SV_ClientEnterWorld
  \/ \E nodelta \in BOOLEAN : CL_WritePacket(nodelta)
  \/ CL_ParseSnapshot
  \/ Lose

Spec == Init /\ [][Next]_vars
-----------------------------------------------------------------------------
(* Properties.                                                             *)

Numbers == 0 .. MaxMessages
EntityStates == {NoEntity, NoiseEntity} \cup (Numbers \X (1 .. MaxEntities + OtherEntities))

\* The kinds of values the variables take.
TypeOK ==
  /\ server \in [outgoingSequence : 1 .. MaxMessages + 1,
                 deltaMessage : {-1} \cup Numbers,
                 frames : [Slots -> [number : Numbers, first_entity : Nat, num_entities : Counts]]]
  /\ entities.next \in Nat /\ Len(entities.ring) = numSnapshotEntities
  /\ client.serverMessageSequence \in Numbers
  /\ \A snap \in {client.snap} \cup {client.snapshots[s] : s \in Slots} :
       snap \in [valid : BOOLEAN, messageNum : Numbers, ps : {Noise} \cup Numbers,
                parseEntitiesNum : Nat, numEntities : Nat]
  /\ client.parseEntitiesNum \in Nat
  /\ \A i \in 1 .. MAX_PARSE_ENTITIES : client.parseEntities[i] \in EntityStates
  /\ Len(toServer) <= Capacity /\ Len(toClient) <= Capacity
  /\ \A i \in 1 .. Len(toClient) :
       toClient[i].lastframe \in 0 .. toClient[i].number - 1
  /\ overran \in BOOLEAN

FrameEntities(number, count) == [i \in 1 .. count |-> <<number, i>>]

\* CL_GetSnapshot gives the client game the snapshot in the slot of number n,
\* which it does not compare with n.
Obtainable(n) ==
  /\ client.snap.messageNum - n \in 0 .. PACKET_BACKUP - 1
  /\ client.snapshots[Slot(n)].valid
  /\ client.parseEntitiesNum - client.snapshots[Slot(n)].parseEntitiesNum < MAX_PARSE_ENTITIES

\* Whatever snapshot the client game can get, the last one or one of the backup,
\* is the frame the server built under that number, playerstate and entities,
\* whatever was lost or written over in between: a difference is never applied to
\* another base than it was made from, and no slot holds an older snapshot.  It ends
\* when a frame is too large for a ring (overran).
SnapshotFaithful ==
  ~overran => \A n \in Numbers \ {0} : Obtainable(n) =>
    LET snap == client.snapshots[Slot(n)] IN
    HeldByClient(client, snap) =
      [ps |-> n, entities |-> FrameEntities(n, snap.numEntities)]

\* The client will still have the base of every difference on its way when it
\* gets there: what cl_parse.cpp says "should never happen" does not, and no
\* difference is from a snapshot that is too old for PACKET_BACKUP.
BaseKept ==
  \A i \in 1 .. Len(toClient) :
    LET m == toClient[i] IN
    m.lastframe > 0 => /\ Base(client, m).valid
                       /\ Base(client, m).messageNum = m.number - m.lastframe

\* A difference is made from the frame as it was sent: neither the frame's slot
\* nor any of its entities has been written over by then.
BaseIntact ==
  \A i \in 1 .. Len(toClient) :
    LET m == toClient[i] IN
    m.lastframe > 0 =>
      m.from = [ps |-> m.number - m.lastframe,
                entities |-> FrameEntities(m.number - m.lastframe, Len(m.from.entities))]

\* The base of a difference can be used on both sides: intact where the difference
\* is made, still there where it is applied, and all within its rings, until a frame
\* is too large for one of them (overran).
BaseUsable == TypeOK /\ (~overran => BaseKept /\ BaseIntact)
===========================================================================
