----------------------------- MODULE FrameProofs -----------------------------
(***************************************************************************)
(* Proofs about the main loop for every size of its rings and buffers and  *)
(* any number of events, packets, lines, errors and nested activations:    *)
(* events, packets and commands keep their order, the data of an event is  *)
(* freed once, and wait holds on a dedicated server.                       *)
(***************************************************************************)
EXTENDS Frame, FiniteSetTheorems, SequenceTheorems, NaturalsInduction, TLAPS

EventKinds == {"key", "console", "packet"}
LineKinds == {"newline", "any", "wait", "exec"}
Stages == {"events", "execute", "SV_Frame", "eventsAgain", "executeAgain", "CL_Frame"}
Functions == {"Com_EventLoop", "Cbuf_Execute", "Com_Milliseconds"}

\* The place of a position in a ring.  The lemmas say all that is needed of it: the
\* provers cope badly with a remainder by a variable.
Place(p, L) == p % L

Rings(size) == [slots : [0 .. size - 1 -> Nat], head : Nat, tail : Nat]

\* What waits in a ring of events: no more than it holds, in the order in which it
\* happened, from one number up to another.
Holds(r, size, n) == \E i \in r.tail .. r.head - 1 : r.slots[Place(i, size)] = n

EventRing(r, size, from, to) ==
  /\ r \in Rings(size) /\ r.tail <= r.head /\ r.head <= r.tail + size
  /\ \A i \in 0 .. size - 1 : r.slots[i] <= to
  /\ \A i \in r.tail .. r.head - 1 : from < r.slots[Place(i, size)]
  /\ \A i, j \in r.tail .. r.head - 1 : i < j => r.slots[Place(i, size)] < r.slots[Place(j, size)]

\* What is pushed back happened before what is still in the platform's queue.
RingsApart(pushed, queue) ==
  \A i \in pushed.tail .. pushed.head - 1, j \in queue.tail .. queue.head - 1 :
    pushed.slots[Place(i, MAX_PUSHED_EVENTS)] < queue.slots[Place(j, MAX_QUED_EVENTS)]

IsWaiting(pushed, queue, n) ==
  Holds(pushed, MAX_PUSHED_EVENTS, n) \/ Holds(queue, MAX_QUED_EVENTS, n)

RingsInv(pushed, queue, from, to) ==
  /\ EventRing(pushed, MAX_PUSHED_EVENTS, from, to)
  /\ EventRing(queue, MAX_QUED_EVENTS, from, to)
  /\ RingsApart(pushed, queue)

\* Whether an activation handles event n.
Handles(a, n) == a.doing.what = "event" /\ a.doing.id = <<n>>
InHand(st, n) == \E i \in 1 .. Len(st) : Handles(st[i], n)

\* The events that something still has, and the data of all others freed.
StillHas(pushed, queue, st, gone) ==
  {n \in Nat : n \in gone \/ InHand(st, n) \/ IsWaiting(pushed, queue, n)}

FreedOnce(ks, fs, had) ==
  /\ ks \in Seq(EventKinds) /\ fs \in Seq(Nat) /\ Len(fs) = Len(ks)
  /\ \A n \in 1 .. Len(ks) : fs[n] = IF ks[n] = "key" \/ n \in had THEN 0 ELSE 1

Doings == [what : {"nothing", "event", "client", "server", "line"}, id : Seq(Nat)]
Activations == [fn : Functions, at : {"events", "client", "server"}, doing : Doings]

\* Events are handled by one activation each, and none is newer than the last.
StackInv(st, gone, e) ==
  /\ st \in Seq(Activations) /\ Len(st) <= MaxNested
  /\ \A i \in 1 .. Len(st) :
       /\ st[i].doing.what = "nothing" <=> st[i].doing = Nothing
       /\ st[i].doing.what = "event" => \E n \in 1 .. e : st[i].doing.id = <<n>>
  /\ \A i, j \in 1 .. Len(st) :
       i # j /\ st[i].doing.what = "event" /\ st[j].doing.what = "event" =>
         st[i].doing.id # st[j].doing.id
  /\ gone \subseteq 1 .. e
  /\ \A n \in gone : ~InHand(st, n)

EventsInv ==
  /\ \E e \in 0 .. Len(kinds) :
       /\ last.event = <<e>>
       /\ RingsInv(com_pushedEvents, eventQue, e, Len(kinds))
       /\ StackInv(stack, lost, e)
  /\ Len(kinds) <= MaxEvents
  /\ FreedOnce(kinds, frees, StillHas(com_pushedEvents, eventQue, stack, lost))

\* The packets of the last places have the numbers of their places, and the last
\* one taken was before them.
PacketRing(r, taken) ==
  /\ r \in Rings(MAX_LOOPBACK) /\ r.tail <= r.head
  /\ \A i \in 0 .. MAX_LOOPBACK - 1 : r.slots[i] <= r.head
  /\ \A i \in 0 .. r.head - 1 :
       r.head <= i + MAX_LOOPBACK => r.slots[Place(i, MAX_LOOPBACK)] = i + 1
  /\ \E n \in 0 .. r.tail : taken = <<n>>

PacketsInv ==
  /\ \A s \in Sides : PacketRing(loopbacks[s], last[s])
  /\ loopbacks["client"].head + loopbacks["server"].head <= MaxPackets

\* One path is before another at some place, or leads to it.
Apart(p, q) == \E i \in 1 .. Len(p) : /\ i <= Len(q) /\ p[i] < q[i]
                                     /\ \A k \in 1 .. i - 1 : p[k] = q[k]
LeadsTo(p, q) == Len(p) < Len(q) /\ \A k \in 1 .. Len(p) : p[k] = q[k]

Paths == {p \in Seq(Nat) : Len(p) > 0}
Tokens == [path : Seq(Nat), cmd : LineKinds]

BufferInv(buf, line, n) ==
  /\ buf \in Seq(Tokens) /\ Len(buf) <= MAX_CMD_BUFFER
  /\ line \in Paths /\ line[1] <= n
  /\ \A j \in 1 .. Len(buf) :
       IsLine(buf[j]) =>
         /\ buf[j].path \in Paths /\ buf[j].path[1] <= n
         /\ Apart(line, buf[j].path) \/ LeadsTo(line, buf[j].path)
         /\ \A i \in 1 .. j - 1 : IsLine(buf[i]) => Apart(buf[i].path, buf[j].path)

CommandsInv ==
  /\ BufferInv(cmd_text, last.line, lines)
  /\ lines \in 0 .. MaxLines /\ cmd_wait \in Nat /\ waited \in Nat

\* On a dedicated server the buffer is run once a frame, by Com_Frame alone.
StageInv ==
  /\ dedicated \in BOOLEAN /\ stage \in Stages /\ drops \in 0 .. MaxDrops
  /\ stack = <<>> => stage \in {"SV_Frame", "CL_Frame"}
  /\ stage \in {"events", "eventsAgain"} => stack[1].fn = "Com_EventLoop"
  /\ stage \in {"execute", "executeAgain"} => stack[1].fn = "Cbuf_Execute"
  /\ dedicated =>
       /\ stage \in {"events", "execute", "SV_Frame"}
       /\ \A i \in 1 .. Len(stack) :
            i > 1 \/ stage = "SV_Frame" => stack[i].fn = "Com_Milliseconds"
       /\ waited <= cmd_wait + (IF stage = "SV_Frame" THEN 1 ELSE 0)

LastInv == last \in [event : Seq(Nat), client : Seq(Nat), server : Seq(Nat), line : Seq(Nat)]
RingsOfSides == loopbacks \in [Sides -> Rings(MAX_LOOPBACK)]

IInv == /\ EventsInv /\ PacketsInv /\ CommandsInv /\ StageInv
        /\ LastInv /\ RingsOfSides
-----------------------------------------------------------------------------
(* The constants, and places in rings.                                      *)

LEMMA Sizes ==
  /\ MAX_QUED_EVENTS \in Nat \ {0} /\ MAX_PUSHED_EVENTS \in Nat \ {0}
  /\ MAX_LOOPBACK \in Nat \ {0} /\ MAX_CMD_BUFFER \in Nat \ {0}
  /\ MAX_CMD_LINE \in Nat \ {0} /\ MaxNested \in Nat \ {0}
  /\ MaxEvents \in Nat /\ MaxLines \in Nat /\ MaxPackets \in Nat /\ MaxDrops \in Nat
BY FrameAssumption

LEMMA Division ==
  ASSUME NEW a \in Int, NEW L \in Nat \ {0}
  PROVE  a = L * (a \div L) + (a % L) /\ a \div L \in Int /\ a % L \in 0 .. L - 1
OBVIOUS

LEMMA MultiplesApart ==
  ASSUME NEW x \in Int, NEW y \in Int, NEW L \in Nat \ {0}, x < y
  PROVE  L * x + L <= L * y
OBVIOUS

LEMMA PlaceInRing ==
  ASSUME NEW p \in Int, NEW L \in Nat \ {0}
  PROVE  Place(p, L) \in 0 .. L - 1
BY DEF Place

\* Two positions less than a ring apart have different places.
LEMMA SamePlace ==
  ASSUME NEW a \in Int, NEW b \in Int, NEW L \in Nat \ {0},
         Place(a, L) = Place(b, L), a < b + L, b < a + L
  PROVE  a = b
<1> DEFINE x == a \div L  y == b \div L  r == a % L
<1>1. a = L * x + r /\ b = L * y + r /\ x \in Int /\ y \in Int /\ r \in 0 .. L - 1
  BY Division DEF Place
<1> HIDE DEF x, y, r
<1>2. ~(x < y) /\ ~(y < x)
  BY <1>1, MultiplesApart
<1>. QED BY <1>1, <1>2

\* A whole ring further is the same place.
LEMMA NextRound ==
  ASSUME NEW a \in Int, NEW L \in Nat \ {0}
  PROVE  Place(a + L, L) = Place(a, L)
<1> DEFINE x == a \div L  r == a % L
<1>1. a = L * x + r /\ x \in Int /\ r \in 0 .. L - 1
  BY Division
<1> HIDE DEF x, r
<1>2. L * (x + 1) = L * x + L
  BY <1>1
<1>3. a + L = L * (x + 1) + r
  BY <1>1, <1>2
<1>4. \A q \in Int : (L * q + r) % L = r
  BY <1>1
<1>. QED BY <1>1, <1>3, <1>4 DEF Place

LEMMA SizeIs ==
  ASSUME NEW size \in Nat \ {0}, NEW r \in Rings(size)
  PROVE  Size(r) = size
<1>1. DOMAIN r.slots = 0 .. size - 1
  BY DEF Rings
<1>2. Cardinality(0 .. size - 1) = size
  BY FS_Interval
<1>. QED BY <1>1, <1>2 DEF Size

LEMMA SlotIs ==
  ASSUME NEW size \in Nat \ {0}, NEW r \in Rings(size), NEW n \in Nat
  PROVE  Slot(r, n) = r.slots[Place(n, size)] /\ Slot(r, n) \in Nat
<1>1. Slot(r, n) = r.slots[Place(n, size)]
  BY SizeIs DEF Slot, Place
<1>2. Place(n, size) \in 0 .. size - 1
  BY PlaceInRing
<1>. QED BY <1>1, <1>2 DEF Rings

LEMMA AddedIs ==
  ASSUME NEW size \in Nat \ {0}, NEW r \in Rings(size), NEW x \in Nat
  PROVE  /\ Added(r, x) \in Rings(size)
         /\ Added(r, x).head = r.head + 1
         /\ Added(r, x).tail = IF r.head - r.tail >= size THEN r.tail + 1 ELSE r.tail
         /\ Added(r, x).slots = [r.slots EXCEPT ![Place(r.head, size)] = x]
<1>1. Size(r) = size
  BY SizeIs
<1> DEFINE e == Place(r.head, size)  full == r.head - r.tail >= size
<1>6. Added(r, x) = [r EXCEPT !.slots[e] = x, !.head = @ + 1,
                              !.tail = IF full THEN @ + 1 ELSE @]
  BY <1>1 DEF Added, IsFull, Place
<1> HIDE DEF e, full
<1>7. Added(r, x) = [slots |-> [r.slots EXCEPT ![e] = x], head |-> r.head + 1,
                     tail |-> IF full THEN r.tail + 1 ELSE r.tail]
  BY <1>6 DEF Rings
<1>2. /\ Added(r, x).head = r.head + 1
      /\ Added(r, x).tail = IF r.head - r.tail >= size THEN r.tail + 1 ELSE r.tail
      /\ Added(r, x).slots = [r.slots EXCEPT ![Place(r.head, size)] = x]
      /\ Added(r, x) = [slots |-> Added(r, x).slots, head |-> Added(r, x).head,
                        tail |-> Added(r, x).tail]
  BY <1>7 DEF e, full
<1>3. [r.slots EXCEPT ![Place(r.head, size)] = x] \in [0 .. size - 1 -> Nat]
  BY DEF Rings
<1> DEFINE a == Added(r, x)
<1> HIDE DEF a
<1>4. a.head \in Nat /\ a.tail \in Nat /\ a.slots \in [0 .. size - 1 -> Nat]
  BY <1>2, <1>3 DEF a, Rings
<1>5. a \in Rings(size)
  BY <1>2, <1>4 DEF a, Rings
<1>. QED BY <1>2, <1>5 DEF a

LEMMA TakenIs ==
  ASSUME NEW size \in Nat \ {0}, NEW r \in Rings(size)
  PROVE  /\ Taken(r) \in Rings(size) /\ Taken(r).head = r.head
         /\ Taken(r).tail = r.tail + 1 /\ Taken(r).slots = r.slots
BY DEF Taken, Rings

-----------------------------------------------------------------------------
(* Rings of events.                                                         *)

LEMMA RingValues ==
  ASSUME NEW size \in Nat \ {0}, NEW r, NEW from \in Nat, NEW to \in Nat,
         EventRing(r, size, from, to)
  PROVE  /\ r \in Rings(size) /\ r.head \in Nat /\ r.tail \in Nat
         /\ r.tail <= r.head /\ r.head <= r.tail + size
         /\ \A i \in r.tail .. r.head - 1 :
              /\ r.slots[Place(i, size)] \in Nat /\ from < r.slots[Place(i, size)]
              /\ r.slots[Place(i, size)] <= to
<1>1. /\ r \in Rings(size) /\ r.head \in Nat /\ r.tail \in Nat
      /\ r.slots \in [0 .. size - 1 -> Nat]
      /\ r.tail <= r.head /\ r.head <= r.tail + size
  BY DEF EventRing, Rings
<1>2. ASSUME NEW i \in r.tail .. r.head - 1
      PROVE  /\ r.slots[Place(i, size)] \in Nat /\ from < r.slots[Place(i, size)]
             /\ r.slots[Place(i, size)] <= to
  <2>1. i \in Int
    BY <1>1
  <2>2. Place(i, size) \in 0 .. size - 1
    BY <2>1, PlaceInRing
  <2>3. from < r.slots[Place(i, size)] /\ r.slots[Place(i, size)] <= to
    BY <2>2 DEF EventRing
  <2>. QED BY <1>1, <2>2, <2>3
<1>. QED BY <1>1, <1>2

LEMMA RingWider ==
  ASSUME NEW size \in Nat \ {0}, NEW r, NEW from \in Nat, NEW to \in Nat, NEW top \in Nat,
         EventRing(r, size, from, to), to <= top
  PROVE  EventRing(r, size, from, top)
<1>1. \A i \in 0 .. size - 1 : r.slots[i] \in Nat /\ r.slots[i] <= to
  BY DEF EventRing, Rings
<1>. QED BY <1>1 DEF EventRing

\* Ring a is r with x added: it keeps all but what x overwrites.
HasAdded(r, size, x, a) ==
  /\ \A i \in a.tail .. a.head - 1 :
       \/ i = r.head /\ a.slots[Place(i, size)] = x
       \/ i \in r.tail .. r.head - 1 /\ a.slots[Place(i, size)] = r.slots[Place(i, size)]
  /\ \A n \in Nat : Holds(a, size, n) <=>
       n = x \/ (Holds(r, size, n) /\ ~(IsFull(r) /\ n = Slot(r, r.head)))

LEMMA RingAdd ==
  ASSUME NEW size \in Nat \ {0}, NEW r, NEW from \in Nat, NEW to \in Nat, NEW top \in Nat,
         EventRing(r, size, from, to), NEW x \in Nat, from < x, x <= top, to <= top,
         \A i \in r.tail .. r.head - 1 : r.slots[Place(i, size)] < x
  PROVE  EventRing(Added(r, x), size, from, top) /\ HasAdded(r, size, x, Added(r, x))
<1> DEFINE a == Added(r, x)  h == r.head  t == r.tail  full == h - t >= size
           P(i) == Place(i, size)
<1>1. /\ r \in Rings(size) /\ h \in Nat /\ t \in Nat /\ t <= h /\ h <= t + size
      /\ \A i \in 0 .. size - 1 : r.slots[i] <= to /\ r.slots[i] \in Nat
      /\ r.slots \in [0 .. size - 1 -> Nat]
  BY DEF EventRing, Rings
<1>2. /\ a \in Rings(size) /\ a.head = h + 1 /\ a.tail = IF full THEN t + 1 ELSE t
      /\ a.slots = [r.slots EXCEPT ![P(h)] = x]
  BY <1>1, AddedIs
<1>3. \A i \in Int : P(i) \in 0 .. size - 1
  BY PlaceInRing
<1>4. \A i \in Int : P(i) = P(h) /\ i < h + size /\ h < i + size => i = h
  BY <1>1, SamePlace
<1>5. IsFull(r) <=> full
  BY <1>1, SizeIs DEF IsFull
<1>6. full => h = t + size /\ P(h) = P(t)
  <2>1. h \in Nat /\ t \in Nat /\ t \in Int /\ h <= t + size
    BY <1>1
  <2> HIDE DEF h, t, full
  <2>2. P(t + size) = P(t)
    BY <2>1, NextRound, Zenon
  <2> USE DEF full
  <2> HIDE DEF P
  <2>3. full => h = t + size
    BY <2>1
  <2>. QED BY <2>2, <2>3
<1>7. Slot(r, h) = r.slots[P(h)]
  BY <1>1, SlotIs
<1> HIDE DEF a, h, t, P
<1>8. ASSUME NEW i \in a.tail .. a.head - 1
      PROVE  \/ i = h /\ a.slots[P(i)] = x
             \/ i \in t .. h - 1 /\ a.slots[P(i)] = r.slots[P(i)] /\ P(i) # P(h)
  <2>1. i \in t .. h /\ i \in Int /\ (full => i # t)
    BY <1>1, <1>2
  <2>2. CASE i = h
    BY <1>1, <1>2, <1>3, <2>1, <2>2
  <2>3. CASE i # h
    <3>1. i \in t .. h - 1 /\ i < h + size /\ h < i + size
      BY <1>1, <2>1, <2>3
    <3>2. P(i) # P(h)
      BY <1>4, <2>1, <2>3, <3>1
    <3>. QED BY <1>1, <1>2, <1>3, <2>1, <3>1, <3>2
  <2>. QED BY <2>2, <2>3
<1>9. ASSUME NEW i \in t .. h - 1, full => i # t
      PROVE  i \in a.tail .. a.head - 1 /\ i # h
  BY <1>1, <1>2, <1>9
<1>10. h \in a.tail .. a.head - 1
  BY <1>1, <1>2
<1>11. \A i, j \in t .. h - 1 : i < j => r.slots[P(i)] < r.slots[P(j)]
  BY DEF EventRing, h, t, P
<1>12. \A i \in t .. h - 1 : from < r.slots[P(i)] /\ r.slots[P(i)] < x
  BY DEF EventRing, h, t, P
<1>13. EventRing(a, size, from, top)
  <2>1. a.tail <= a.head /\ a.head <= a.tail + size
    BY <1>1, <1>2
  <2>2. \A i \in 0 .. size - 1 : a.slots[i] <= top
    BY <1>1, <1>2
  <2>3. \A i \in a.tail .. a.head - 1 : from < a.slots[P(i)]
    BY <1>8, <1>12
  <2>4. ASSUME NEW i \in a.tail .. a.head - 1, NEW j \in a.tail .. a.head - 1, i < j
        PROVE  a.slots[P(i)] < a.slots[P(j)]
    <3>1. i # h /\ j <= h
      BY <1>1, <1>2, <2>4
    <3>2. i \in t .. h - 1 /\ a.slots[P(i)] = r.slots[P(i)]
      BY <1>8, <3>1
    <3>3. CASE j = h
      BY <1>8, <1>12, <3>2, <3>3, <1>1
    <3>4. CASE j # h
      BY <1>8, <1>11, <2>4, <3>2, <3>4
    <3>. QED BY <3>3, <3>4
  <2>. QED BY <1>2, <2>1, <2>2, <2>3, <2>4 DEF EventRing, P
<1>14. ASSUME NEW n \in Nat
       PROVE  Holds(a, size, n) <=>
                n = x \/ (Holds(r, size, n) /\ ~(full /\ n = r.slots[P(h)]))
  <2>1. ASSUME Holds(a, size, n), n # x
        PROVE  Holds(r, size, n) /\ ~(full /\ n = r.slots[P(h)])
    <3>1. PICK i \in a.tail .. a.head - 1 : a.slots[P(i)] = n
      BY <2>1 DEF Holds, P
    <3>2. i \in t .. h - 1 /\ r.slots[P(i)] = n
      BY <1>8, <2>1, <3>1
    <3>3. Holds(r, size, n)
      BY <3>2 DEF Holds, P, h, t
    <3>4. ASSUME full PROVE n # r.slots[P(h)]
      <4>1. t \in t .. h - 1 /\ t < i
        BY <1>1, <1>2, <3>1, <3>2, <3>4
      <4>2. r.slots[P(t)] < r.slots[P(i)]
        BY <1>11, <3>2, <4>1
      <4>3. r.slots[P(t)] \in Nat
        <5>1. t \in Int
          BY <1>1
        <5>2. P(t) \in 0 .. size - 1
          BY <1>3, <5>1
        <5>. QED BY <1>1, <5>2
      <4>4. r.slots[P(h)] = r.slots[P(t)]
        BY <1>6, <3>4
      <4>. QED BY <3>2, <4>2, <4>3, <4>4
    <3>. QED BY <3>3, <3>4
  <2>2. ASSUME n = x PROVE Holds(a, size, n)
    BY <1>8, <1>10, <2>2, <1>1 DEF Holds, P
  <2>3. ASSUME Holds(r, size, n), ~(full /\ n = r.slots[P(h)])
        PROVE  Holds(a, size, n)
    <3>1. PICK i \in t .. h - 1 : r.slots[P(i)] = n
      BY <2>3 DEF Holds, P, h, t
    <3>2. full => i # t
      BY <1>6, <2>3, <3>1
    <3>3. i \in a.tail .. a.head - 1 /\ i # h
      BY <1>9, <3>2
    <3>. QED BY <1>8, <3>1, <3>3 DEF Holds, P
  <2>. QED BY <2>1, <2>2, <2>3
<1>. QED BY <1>5, <1>7, <1>8, <1>13, <1>14 DEF a, h, t, P, HasAdded

\* What is taken is the oldest; the rest is newer.
LEMMA RingTake ==
  ASSUME NEW size \in Nat \ {0}, NEW r, NEW from \in Nat, NEW to \in Nat,
         EventRing(r, size, from, to), r.head > r.tail
  PROVE  LET x == Slot(r, r.tail)  a == Taken(r) IN
         /\ x \in Nat /\ from < x /\ x <= to /\ Holds(r, size, x)
         /\ x = r.slots[Place(r.tail, size)] /\ r.tail \in r.tail .. r.head - 1
         /\ EventRing(a, size, x, to)
         /\ \A i \in a.tail .. a.head - 1 :
              i \in r.tail .. r.head - 1 /\ a.slots[Place(i, size)] = r.slots[Place(i, size)]
         /\ \A n \in Nat : Holds(a, size, n) <=> Holds(r, size, n) /\ n # x
<1> DEFINE x == Slot(r, r.tail)  a == Taken(r)  P(i) == Place(i, size)
<1>1. /\ r \in Rings(size) /\ r.head \in Nat /\ r.tail \in Nat
      /\ r.tail <= r.head /\ r.head <= r.tail + size
      /\ \A i \in 0 .. size - 1 : r.slots[i] <= to /\ r.slots[i] \in Nat
      /\ \A i \in r.tail .. r.head - 1 : from < r.slots[P(i)]
      /\ \A i, j \in r.tail .. r.head - 1 : i < j => r.slots[P(i)] < r.slots[P(j)]
  BY DEF EventRing, Rings
<1>2. a \in Rings(size) /\ a.head = r.head /\ a.tail = r.tail + 1 /\ a.slots = r.slots
  BY <1>1, TakenIs
<1>3. x = r.slots[P(r.tail)]
  BY <1>1, SlotIs
<1>4. P(r.tail) \in 0 .. size - 1 /\ r.tail \in r.tail .. r.head - 1
  BY <1>1, PlaceInRing
<1> HIDE DEF a, x, P
<1>5. x \in Nat /\ from < x /\ x <= to
  BY <1>1, <1>3, <1>4
<1>6. Holds(r, size, x)
  BY <1>3, <1>4 DEF Holds, P
<1>7. \A i \in a.tail .. a.head - 1 :
        i \in r.tail .. r.head - 1 /\ r.tail < i /\ a.slots[P(i)] = r.slots[P(i)]
  BY <1>1, <1>2
<1>8. \A i \in a.tail .. a.head - 1 : x < a.slots[P(i)]
  BY <1>1, <1>3, <1>4, <1>7
<1>9. EventRing(a, size, x, to)
  <2>1. a.tail <= a.head /\ a.head <= a.tail + size
    BY <1>1, <1>2
  <2>2. \A i, j \in a.tail .. a.head - 1 : i < j => a.slots[P(i)] < a.slots[P(j)]
    BY <1>1, <1>7
  <2>. QED BY <1>1, <1>2, <1>8, <2>1, <2>2 DEF EventRing, P
<1>10. ASSUME NEW n \in Nat PROVE Holds(a, size, n) <=> Holds(r, size, n) /\ n # x
  <2>1. ASSUME Holds(a, size, n) PROVE Holds(r, size, n) /\ n # x
    <3>1. PICK i \in a.tail .. a.head - 1 : a.slots[P(i)] = n
      BY <2>1 DEF Holds, P
    <3>. QED BY <1>5, <1>7, <1>8, <3>1 DEF Holds, P
  <2>2. ASSUME Holds(r, size, n), n # x PROVE Holds(a, size, n)
    <3>1. PICK i \in r.tail .. r.head - 1 : r.slots[P(i)] = n
      BY <2>2 DEF Holds, P
    <3>2. i # r.tail
      BY <1>3, <2>2, <3>1
    <3>3. i \in a.tail .. a.head - 1
      BY <1>1, <1>2, <3>1, <3>2
    <3>. QED BY <1>7, <3>1, <3>3 DEF Holds, P
  <2>. QED BY <2>1, <2>2
<1>. QED BY <1>3, <1>4, <1>5, <1>6, <1>7, <1>9, <1>10 DEF a, x, P

-----------------------------------------------------------------------------
(* The data of events, and what Sys_QueEvent does with several of them.     *)

OneFreed(fs, n, ks) == IF ks[n] # "key" THEN [fs EXCEPT ![n] = @ + 1] ELSE fs

\* Events that keep what they had need no freeing.
LEMMA SameHad ==
  ASSUME NEW ks, NEW fs, NEW had, NEW now, FreedOnce(ks, fs, had),
         \A n \in 1 .. Len(ks) : n \in had <=> n \in now
  PROVE  FreedOnce(ks, fs, now)
BY DEF FreedOnce

LEMMA FreeOne ==
  ASSUME NEW ks, NEW fs, NEW had, NEW now, FreedOnce(ks, fs, had),
         NEW x \in 1 .. Len(ks), x \in had,
         \A n \in 1 .. Len(ks) : n \in now <=> n \in had /\ n # x
  PROVE  FreedOnce(ks, OneFreed(fs, x, ks), now)
<1>1. ks \in Seq(EventKinds) /\ fs \in Seq(Nat) /\ Len(fs) = Len(ks)
  BY DEF FreedOnce
<1>2. fs[x] = 0
  BY DEF FreedOnce
<1> DEFINE gs == [fs EXCEPT ![x] = @ + 1]
<1>3. gs = [fs EXCEPT ![x] = 1]
  <2>1. fs[x] + 1 = 1
    BY <1>2
  <2>. QED BY <2>1
<1>4. /\ gs \in Seq(Nat) /\ Len(gs) = Len(ks)
      /\ \A n \in 1 .. Len(ks) : gs[n] = IF n = x THEN 1 ELSE fs[n]
  <2>1. x \in 1 .. Len(fs) /\ 1 \in Nat
    BY <1>1
  <2>2. /\ [fs EXCEPT ![x] = 1] \in Seq(Nat) /\ Len([fs EXCEPT ![x] = 1]) = Len(fs)
        /\ \A n \in 1 .. Len(fs) : [fs EXCEPT ![x] = 1][n] = IF n = x THEN 1 ELSE fs[n]
    BY <1>1, <2>1, ExceptSeq
  <2> HIDE DEF gs
  <2>. QED BY <1>1, <1>3, <2>2
<1> HIDE DEF gs
<1>5. CASE ks[x] = "key"
  BY <1>5 DEF FreedOnce, OneFreed
<1>6. CASE ks[x] # "key"
  <2>1. OneFreed(fs, x, ks) = gs
    BY <1>6 DEF OneFreed, gs
  <2>2. ASSUME NEW n \in 1 .. Len(ks)
        PROVE  gs[n] = IF ks[n] = "key" \/ n \in now THEN 0 ELSE 1
    BY <1>4, <1>6 DEF FreedOnce
  <2>. QED BY <1>1, <1>4, <2>1, <2>2 DEF FreedOnce
<1>. QED BY <1>5, <1>6

\* One event put into the platform's queue.
QueueStep(s, ks) ==
  [ring |-> Added(s.ring, s.next), next |-> s.next + 1,
   frees |-> IF IsFull(s.ring) THEN OneFreed(s.frees, Slot(s.ring, s.ring.head), ks)
             ELSE s.frees]

HandsBefore(st, gone, e) == \A n \in Nat : n \in gone \/ InHand(st, n) => n \in 1 .. e

QueueInv(s, ks, pushed, st, gone, e) ==
  /\ s.next \in 1 .. Len(ks) + 1 /\ e < s.next
  /\ RingsInv(pushed, s.ring, e, s.next - 1)
  /\ FreedOnce(ks, s.frees, StillHas(pushed, s.ring, st, gone) \cup s.next .. Len(ks))

LEMMA QueueStepInv ==
  ASSUME NEW s, NEW ks \in Seq(EventKinds), NEW pushed, NEW st, NEW gone, NEW e \in Nat,
         QueueInv(s, ks, pushed, st, gone, e), HandsBefore(st, gone, e),
         s.next <= Len(ks)
  PROVE  QueueInv(QueueStep(s, ks), ks, pushed, st, gone, e)
<1> DEFINE r == s.ring  x == s.next  a == Added(r, x)  f == s.frees
           y == Slot(r, r.head)
           had == StillHas(pushed, r, st, gone) \cup x .. Len(ks)
           now == StillHas(pushed, a, st, gone) \cup x + 1 .. Len(ks)
           t == QueueStep(s, ks)
<1>1. /\ x \in Nat /\ x \in 1 .. Len(ks) /\ e < x /\ Len(ks) \in Nat
      /\ EventRing(r, MAX_QUED_EVENTS, e, x - 1)
      /\ EventRing(pushed, MAX_PUSHED_EVENTS, e, x - 1)
      /\ RingsApart(pushed, r) /\ FreedOnce(ks, f, had)
  <2>1. Len(ks) \in Nat
    BY LenProperties
  <2>. QED BY <2>1 DEF QueueInv, RingsInv
<1> HIDE DEF r, x, a, y, f
<1>13. x - 1 \in Nat /\ x - 1 <= x /\ x <= x
  BY <1>1
<1>2. /\ r \in Rings(MAX_QUED_EVENTS) /\ r.head \in Nat /\ r.tail \in Nat
      /\ \A i \in r.tail .. r.head - 1 :
           /\ r.slots[Place(i, MAX_QUED_EVENTS)] \in Nat
           /\ e < r.slots[Place(i, MAX_QUED_EVENTS)]
           /\ r.slots[Place(i, MAX_QUED_EVENTS)] <= x - 1
  BY <1>1, <1>13, Sizes, RingValues
<1>12. /\ pushed \in Rings(MAX_PUSHED_EVENTS) /\ pushed.head \in Nat /\ pushed.tail \in Nat
       /\ \A i \in pushed.tail .. pushed.head - 1 :
            /\ pushed.slots[Place(i, MAX_PUSHED_EVENTS)] \in Nat
            /\ pushed.slots[Place(i, MAX_PUSHED_EVENTS)] <= x - 1
  BY <1>1, <1>13, Sizes, RingValues
<1>3. \A i \in r.tail .. r.head - 1 :
        r.slots[Place(i, MAX_QUED_EVENTS)] < x /\ e < r.slots[Place(i, MAX_QUED_EVENTS)]
  BY <1>1, <1>2
<1>4. /\ EventRing(a, MAX_QUED_EVENTS, e, x)
      /\ \A i \in a.tail .. a.head - 1 :
           \/ i = r.head /\ a.slots[Place(i, MAX_QUED_EVENTS)] = x
           \/ /\ i \in r.tail .. r.head - 1
              /\ a.slots[Place(i, MAX_QUED_EVENTS)] = r.slots[Place(i, MAX_QUED_EVENTS)]
      /\ \A n \in Nat : Holds(a, MAX_QUED_EVENTS, n) <=>
           n = x \/ (Holds(r, MAX_QUED_EVENTS, n) /\ ~(IsFull(r) /\ n = y))
  <2> DEFINE below == x - 1
  <2>3. below \in Nat /\ below <= x /\ x <= x /\ x \in Nat /\ e < x
    BY <1>1, <1>13
  <2>4. EventRing(r, MAX_QUED_EVENTS, e, below) /\ MAX_QUED_EVENTS \in Nat \ {0}
    BY <1>1, Sizes
  <2>5. \A i \in r.tail .. r.head - 1 : r.slots[Place(i, MAX_QUED_EVENTS)] < x
    BY <1>3
  <2> HIDE DEF below
  <2>6. EventRing(a, MAX_QUED_EVENTS, e, x) /\ HasAdded(r, MAX_QUED_EVENTS, x, a)
    BY <2>3, <2>4, <2>5, RingAdd, ZenonT(30) DEF a
  <2>. QED BY <2>6 DEF HasAdded, y
<1>5. \A i \in pushed.tail .. pushed.head - 1 :
        /\ pushed.slots[Place(i, MAX_PUSHED_EVENTS)] < x
        /\ pushed.slots[Place(i, MAX_PUSHED_EVENTS)] \in Nat
  BY <1>1, <1>12
<1>6. RingsApart(pushed, a)
  <2> SUFFICES ASSUME NEW i \in pushed.tail .. pushed.head - 1, NEW j \in a.tail .. a.head - 1
               PROVE  pushed.slots[Place(i, MAX_PUSHED_EVENTS)]
                        < a.slots[Place(j, MAX_QUED_EVENTS)]
    BY DEF RingsApart
  <2>. QED BY <1>1, <1>4, <1>5 DEF RingsApart
<1>7. EventRing(pushed, MAX_PUSHED_EVENTS, e, x)
  BY <1>1, <1>13, Sizes, RingWider
<1>8. RingsInv(pushed, a, e, (x + 1) - 1)
  <2>1. (x + 1) - 1 = x
    BY <1>1
  <2> HIDE DEF x
  <2>. QED BY <1>4, <1>6, <1>7, <2>1 DEF RingsInv
<1>9. \A n \in Nat : IsWaiting(pushed, a, n) <=>
        \/ n = x \/ Holds(pushed, MAX_PUSHED_EVENTS, n)
        \/ Holds(r, MAX_QUED_EVENTS, n) /\ ~(IsFull(r) /\ n = y)
  BY <1>4 DEF IsWaiting
<1>10. CASE ~IsFull(r)
  <2>1. \A n \in 1 .. Len(ks) : n \in had <=> n \in now
    BY <1>1, <1>9, <1>10 DEF StillHas, IsWaiting
  <2>2. FreedOnce(ks, f, now)
    BY <1>1, <2>1, SameHad
  <2>3. t = [ring |-> a, next |-> x + 1, frees |-> f]
    BY <1>10 DEF QueueStep, a, r, x, f
  <2> HIDE DEF now, had, t
  <2>4. t.ring = a /\ t.next = x + 1 /\ t.frees = f
    BY <2>3
  <2>5. t.next \in 1 .. Len(ks) + 1 /\ e < t.next
    BY <1>1, <2>4
  <2>. QED BY <1>8, <2>2, <2>4, <2>5 DEF QueueInv, now, t
<1>11. CASE IsFull(r)
  <2>1. /\ y = r.slots[Place(r.tail, MAX_QUED_EVENTS)] /\ r.tail \in r.tail .. r.head - 1
        /\ y \in Nat /\ Holds(r, MAX_QUED_EVENTS, y)
    <3>1. r.head - r.tail >= MAX_QUED_EVENTS /\ r.head <= r.tail + MAX_QUED_EVENTS
      BY <1>1, <1>2, <1>11, SizeIs, Sizes DEF IsFull, EventRing
    <3>5. r.head \in Nat /\ r.tail \in Nat /\ MAX_QUED_EVENTS \in Nat \ {0}
      BY <1>2, Sizes
    <3>2. r.head = r.tail + MAX_QUED_EVENTS /\ r.tail \in r.tail .. r.head - 1 /\ r.tail \in Int
      BY <3>1, <3>5
    <3>3. Place(r.head, MAX_QUED_EVENTS) = Place(r.tail, MAX_QUED_EVENTS)
      BY <3>2, NextRound, Sizes
    <3>4. y = r.slots[Place(r.head, MAX_QUED_EVENTS)] /\ y \in Nat
      BY <1>2, SlotIs, Sizes DEF y
    <3>. QED BY <3>2, <3>3, <3>4 DEF Holds
  <2>2. e < y /\ y < x
    BY <1>3, <2>1
  <2>3. ~Holds(pushed, MAX_PUSHED_EVENTS, y)
    <3> SUFFICES ASSUME NEW i \in pushed.tail .. pushed.head - 1,
                        pushed.slots[Place(i, MAX_PUSHED_EVENTS)] = y
                 PROVE  FALSE
      BY DEF Holds
    <3>1. pushed.slots[Place(i, MAX_PUSHED_EVENTS)] < r.slots[Place(r.tail, MAX_QUED_EVENTS)]
      BY <1>1, <2>1 DEF RingsApart
    <3>. QED BY <2>1, <3>1
  <2>4. y \notin gone /\ ~InHand(st, y)
    BY <2>1, <2>2 DEF HandsBefore
  <2>5. y \in 1 .. Len(ks) /\ y \in had
    BY <1>1, <2>1, <2>2 DEF StillHas, IsWaiting
  <2>6. ASSUME NEW n \in 1 .. Len(ks) PROVE n \in now <=> n \in had /\ n # y
    <3>1. n \in Nat /\ (n \in x .. Len(ks) <=> n = x \/ n \in x + 1 .. Len(ks))
      BY <1>1
    <3>2. y \notin x + 1 .. Len(ks) /\ y # x
      BY <1>1, <2>1, <2>2
    <3>3. n \in StillHas(pushed, a, st, gone) <=>
            n \in gone \/ InHand(st, n) \/ IsWaiting(pushed, a, n)
      BY <3>1 DEF StillHas
    <3>4. n \in StillHas(pushed, r, st, gone) <=>
            n \in gone \/ InHand(st, n) \/ Holds(pushed, MAX_PUSHED_EVENTS, n)
              \/ Holds(r, MAX_QUED_EVENTS, n)
      BY <3>1 DEF StillHas, IsWaiting
    <3> HIDE DEF x, r
    <3>. QED BY <1>9, <1>11, <2>3, <2>4, <3>1, <3>2, <3>3, <3>4
  <2>7. FreedOnce(ks, OneFreed(f, y, ks), now)
    <3> HIDE DEF now, had, f
    <3>. QED BY <1>1, <2>5, <2>6, FreeOne
  <2>8. t = [ring |-> a, next |-> x + 1, frees |-> OneFreed(f, y, ks)]
    BY <1>11 DEF QueueStep, a, y, r, x, f
  <2> HIDE DEF now, had, t
  <2>9. t.ring = a /\ t.next = x + 1 /\ t.frees = OneFreed(f, y, ks)
    BY <2>8
  <2>10. t.next \in 1 .. Len(ks) + 1 /\ e < t.next
    BY <1>1, <2>9
  <2>. QED BY <1>8, <2>7, <2>9, <2>10 DEF QueueInv, now, t
<1>. QED BY <1>10, <1>11

\* FoldLeft is a recursion over sets of places, of which only the first so many are
\* met; Max goes through them from above.
LEMMA LeastOf ==
  ASSUME NEW S \in SUBSET Nat, S # {}
  PROVE  \E x \in S : \A y \in S : x <= y
<1> DEFINE R == OpToRel(<, Nat)
<1>1. IsWellFoundedOn(R, Nat)
  BY NatLessThanWellFounded
<1>2. \A x, y \in Nat : x < y => <<x, y>> \in R
  BY DEF OpToRel
<1> HIDE DEF R
<1>3. PICK x \in S : \A y \in S : <<y, x>> \notin R
  BY <1>1, WFMin
<1>4. \A y \in S : x <= y
  <2> SUFFICES ASSUME NEW y \in S PROVE x <= y
    OBVIOUS
  <2>1. x \in Nat /\ y \in Nat /\ <<y, x>> \notin R
    BY <1>3
  <2>. QED BY <1>2, <2>1
<1>. QED BY <1>4

LEMMA MaxIs ==
  ASSUME NEW S \in SUBSET Nat, NEW x \in S, \A y \in S : y <= x
  PROVE  Max(S) = x
<1>1. \E z \in S : \A y \in S : z >= y
  OBVIOUS
<1>2. Max(S) \in S /\ \A y \in S : Max(S) >= y
  BY <1>1, Zenon DEF Max
<1> DEFINE m == Max(S)
<1>3. m \in Nat /\ x \in Nat /\ m >= x /\ m <= x
  BY <1>2
<1> HIDE DEF m
<1>4. m = x
  BY <1>3
<1>. QED BY <1>4 DEF m

Recursion(g, s, ks, k) ==
  g = [t \in SUBSET (1 .. k) |-> IF t = {} THEN s ELSE QueueStep(g[t \ {Max(t)}], ks)]

LEMMA RecursionGoesOn ==
  ASSUME NEW s, NEW ks, NEW k \in Nat, NEW g, Recursion(g, s, ks, k)
  PROVE  \E h : Recursion(h, s, ks, k + 1)
<1> DEFINE n == k + 1
           h == [t \in SUBSET (1 .. n) |->
                   IF n \in t THEN QueueStep(g[t \ {n}], ks) ELSE g[t]]
<1>1. ASSUME NEW t \in SUBSET (1 .. n), n \in t
      PROVE  h[t] = QueueStep(h[t \ {Max(t)}], ks) /\ t # {}
  <2>1. Max(t) = n
    <3>1. t \in SUBSET Nat /\ \A y \in t : y <= n
      OBVIOUS
    <3>. QED BY <1>1, <3>1, MaxIs
  <2>2. t \ {n} \in SUBSET (1 .. n) /\ n \notin t \ {n}
    OBVIOUS
  <2>3. h[t \ {n}] = g[t \ {n}]
    BY <2>2
  <2>4. h[t] = QueueStep(g[t \ {n}], ks)
    BY <1>1
  <2> HIDE DEF h, n
  <2>. QED BY <1>1, <2>1, <2>3, <2>4
<1>2. ASSUME NEW t \in SUBSET (1 .. n), n \notin t
      PROVE  h[t] = IF t = {} THEN s ELSE QueueStep(h[t \ {Max(t)}], ks)
  <2>1. t \in SUBSET (1 .. k) /\ h[t] = g[t]
    BY <1>2
  <2>2. t \ {Max(t)} \in SUBSET (1 .. n) /\ n \notin t \ {Max(t)}
    BY <1>2
  <2>3. h[t \ {Max(t)}] = g[t \ {Max(t)}]
    BY <2>2
  <2>4. g[t] = IF t = {} THEN s ELSE QueueStep(g[t \ {Max(t)}], ks)
    BY <2>1, Zenon DEF Recursion
  <2> HIDE DEF h, n
  <2>. QED BY <2>1, <2>3, <2>4
<1>3. h = [t \in SUBSET (1 .. n) |-> h[t]]
  OBVIOUS
<1> HIDE DEF h, n
<1>4. \A t \in SUBSET (1 .. n) :
        h[t] = IF t = {} THEN s ELSE QueueStep(h[t \ {Max(t)}], ks)
  BY <1>1, <1>2
<1>5. h = [t \in SUBSET (1 .. n) |-> IF t = {} THEN s ELSE QueueStep(h[t \ {Max(t)}], ks)]
  BY <1>3, <1>4, Zenon
<1>. QED BY <1>5 DEF Recursion, n

LEMMA RecursionExists ==
  ASSUME NEW s, NEW ks, NEW n \in Nat
  PROVE  \E g : Recursion(g, s, ks, n)
<1> DEFINE none == {k \in Nat : ~\E g : Recursion(g, s, ks, k)}
<1>1. 0 \notin none
  <2> DEFINE g == [t \in {{}} |-> s]
  <2>1. SUBSET (1 .. 0) = {{}}
    OBVIOUS
  <2>2. g = [t \in SUBSET (1 .. 0) |-> IF t = {} THEN s ELSE QueueStep(g[t \ {Max(t)}], ks)]
    BY <2>1
  <2>. QED BY <2>2 DEF Recursion
<1>2. ASSUME none # {} PROVE FALSE
  <2>1. PICK x \in none : \A y \in none : x <= y
    BY <1>2, LeastOf
  <2>2. x \in Nat /\ x # 0
    BY <1>1
  <2>3. x - 1 \in Nat /\ x - 1 \notin none
    BY <2>1, <2>2
  <2>4. PICK g : Recursion(g, s, ks, x - 1)
    BY <2>3
  <2>5. \E h : Recursion(h, s, ks, (x - 1) + 1)
    BY <2>3, <2>4, RecursionGoesOn
  <2>. QED BY <2>2, <2>5
<1>. QED BY <1>2

\* The fold of n steps, as a function on the numbers of steps done.
Steps(g, s, ks, n) ==
  g[{}] = s /\ \A k \in 1 .. n : g[1 .. k] = QueueStep(g[1 .. k - 1], ks)

LEMMA RecursionSteps ==
  ASSUME NEW s, NEW ks, NEW n \in Nat, NEW g, Recursion(g, s, ks, n)
  PROVE  Steps(g, s, ks, n)
<1>3. g[{}] = s
  <2>1. {} \in SUBSET (1 .. n)
    OBVIOUS
  <2>. QED BY <2>1, Zenon DEF Recursion
<1>4. ASSUME NEW k \in 1 .. n
      PROVE  g[1 .. k] = QueueStep(g[1 .. k - 1], ks)
  <2>1. 1 .. k \in SUBSET (1 .. n) /\ 1 .. k # {} /\ k \in 1 .. k
    <3>1. ASSUME NEW x \in 1 .. k PROVE x \in 1 .. n
      OBVIOUS
    <3>2. k \in 1 .. k
      OBVIOUS
    <3>. QED BY <3>1, <3>2
  <2>2. Max(1 .. k) = k
    <3>1. 1 .. k \in SUBSET Nat /\ \A y \in 1 .. k : y <= k
      OBVIOUS
    <3>. QED BY <2>1, <3>1, MaxIs
  <2>3. (1 .. k) \ {k} = 1 .. k - 1
    OBVIOUS
  <2>. QED BY <2>1, <2>2, <2>3 DEF Recursion
<1>. QED BY <1>3, <1>4 DEF Steps

\* What so many steps keep.
LEMMA RecursionKeeps ==
  ASSUME NEW s, NEW ks \in Seq(EventKinds), NEW n \in Nat, NEW g, Recursion(g, s, ks, n),
         NEW pushed, NEW st, NEW gone, NEW e \in Nat,
         QueueInv(s, ks, pushed, st, gone, e), HandsBefore(st, gone, e),
         s.next + n = Len(ks) + 1
  PROVE  QueueInv(g[1 .. n], ks, pushed, st, gone, e) /\ g[1 .. n].next = Len(ks) + 1
<1> DEFINE Good(k) == QueueInv(g[1 .. k], ks, pushed, st, gone, e)
                        /\ g[1 .. k].next = s.next + k
           wrong == {k \in Nat : k <= n /\ ~Good(k)}
<1> HIDE DEF wrong, Good
<1>1. g[{}] = s /\ \A k \in 1 .. n : g[1 .. k] = QueueStep(g[1 .. k - 1], ks)
  <2>1. Steps(g, s, ks, n)
    BY RecursionSteps, Zenon
  <2>. QED BY <2>1, Zenon DEF Steps
<1> USE DEF wrong, Good
<1>2. s.next \in Nat /\ Len(ks) \in Nat
  <2>1. Len(ks) \in Nat
    BY LenProperties
  <2>. QED BY <2>1 DEF QueueInv
<1>3. Good(0)
  <2>1. 1 .. 0 = {}
    OBVIOUS
  <2>. QED BY <1>1, <1>2, <2>1
<1>4. ASSUME NEW k \in Nat, k + 1 <= n, Good(k) PROVE Good(k + 1)
  <2> DEFINE t == g[1 .. k]
  <2>1. g[1 .. k + 1] = QueueStep(t, ks)
    <3>1. k + 1 \in 1 .. n /\ (k + 1) - 1 = k
      BY <1>4
    <3>2. \A j \in 1 .. n : j - 1 = k => g[1 .. j] = QueueStep(g[1 .. k], ks)
      BY <1>1
    <3>. QED BY <3>1, <3>2
  <2>2. QueueInv(t, ks, pushed, st, gone, e) /\ t.next = s.next + k
    BY <1>4
  <2> HIDE DEF t
  <2>3. t.next <= Len(ks)
    BY <1>2, <1>4, <2>2
  <2>4. QueueInv(QueueStep(t, ks), ks, pushed, st, gone, e)
    BY <2>2, <2>3, QueueStepInv
  <2>5. QueueStep(t, ks).next = t.next + 1
    BY DEF QueueStep
  <2>6. t.next + 1 = s.next + (k + 1)
    BY <1>2, <2>2
  <2>. QED BY <2>1, <2>4, <2>5, <2>6
<1> HIDE DEF Good
<1>5. ASSUME wrong # {} PROVE FALSE
  <2>1. PICK x \in wrong : \A y \in wrong : x <= y
    BY <1>5, LeastOf
  <2>2. x \in Nat /\ x <= n /\ ~Good(x) /\ x # 0
    BY <1>3, <2>1
  <2>3. x - 1 \in Nat /\ x - 1 <= n /\ x - 1 \notin wrong /\ (x - 1) + 1 = x
    BY <2>1, <2>2
  <2>4. Good(x - 1)
    BY <2>3
  <2>5. Good((x - 1) + 1)
    BY <1>4, <2>2, <2>3, <2>4
  <2>. QED BY <2>2, <2>3, <2>5
<1>6. Good(n)
  <2>1. n <= n
    OBVIOUS
  <2>. QED BY <1>5, <2>1
<1>7. s.next + n = Len(ks) + 1
  OBVIOUS
<1>. QED BY <1>6, <1>7 DEF Good

\* What Sys_GetEvent finds: the new events are the newest, and what they overwrite
\* is freed.
LEMMA QueueInvAfter ==
  ASSUME NEW p \in Seq(EventKinds), kinds' = kinds \o p, NEW e \in 0 .. Len(kinds),
         RingsInv(com_pushedEvents, eventQue, e, Len(kinds)), HandsBefore(stack, lost, e),
         FreedOnce(kinds, frees, StillHas(com_pushedEvents, eventQue, stack, lost))
  PROVE  LET s == Queue(p) IN
         /\ kinds' \in Seq(EventKinds) /\ Len(kinds') = Len(kinds) + Len(p)
         /\ RingsInv(com_pushedEvents, s.ring, e, Len(kinds'))
         /\ FreedOnce(kinds', s.frees, StillHas(com_pushedEvents, s.ring, stack, lost))
<1> DEFINE n == Len(p)  len == Len(kinds)  ks == kinds'
           zeros == [i \in 1 .. n |-> 0]  fs == frees \o zeros
           s0 == [ring |-> eventQue, next |-> len + 1, frees |-> fs]
           had == StillHas(com_pushedEvents, eventQue, stack, lost)
<1>1. kinds \in Seq(EventKinds) /\ frees \in Seq(Nat) /\ Len(frees) = len /\ len \in Nat
  <2>1. kinds \in Seq(EventKinds) /\ frees \in Seq(Nat) /\ Len(frees) = len
    BY DEF FreedOnce
  <2>. QED BY <2>1, LenProperties
<1>2. n \in Nat /\ DOMAIN p = 1 .. n
  BY LenProperties
<1>3. zeros \in Seq(Nat) /\ Len(zeros) = n
  <2>1. zeros \in [1 .. n -> Nat]
    OBVIOUS
  <2>2. zeros \in UNION {[1 .. k -> Nat] : k \in Nat}
    BY <1>2, <2>1, Zenon
  <2>3. zeros \in Seq(Nat)
    BY <2>2, SeqDef, Zenon
  <2>4. Len(zeros) \in Nat /\ DOMAIN zeros = 1 .. Len(zeros)
    BY <2>3, LenProperties
  <2>. QED BY <1>2, <2>3, <2>4
<1>4. /\ fs \in Seq(Nat) /\ Len(fs) = len + n
      /\ \A i \in 1 .. len + n : fs[i] = IF i <= len THEN frees[i] ELSE 0
  <2> HIDE DEF zeros, len, n
  <2>1. /\ fs \in Seq(Nat) /\ Len(fs) = len + n
        /\ \A i \in 1 .. len + n : fs[i] = IF i <= len THEN frees[i] ELSE zeros[i - len]
    BY <1>1, <1>3, ConcatProperties
  <2>2. \A i \in 1 .. len + n : ~(i <= len) => zeros[i - len] = 0
    BY <1>1, <1>2 DEF zeros
  <2> HIDE DEF fs
  <2>. QED BY <2>1, <2>2
<1>5. /\ ks \in Seq(EventKinds) /\ Len(ks) = len + n
      /\ \A i \in 1 .. len + n : i <= len => ks[i] = kinds[i]
  <2>1. /\ kinds \o p \in Seq(EventKinds) /\ Len(kinds \o p) = len + n
        /\ \A i \in 1 .. len + n : (kinds \o p)[i] = IF i <= len THEN kinds[i] ELSE p[i - len]
    BY <1>1, ConcatProperties
  <2>. QED BY <2>1
<1> HIDE DEF fs, zeros, ks
<1>6. QueueInv(s0, ks, com_pushedEvents, stack, lost, e)
  <2> DEFINE some == StillHas(com_pushedEvents, eventQue, stack, lost) \cup len + 1 .. Len(ks)
  <2>1. \A i \in had : i \in Nat
    BY DEF StillHas
  <2>2. \A i \in had : i <= len
    <3> SUFFICES ASSUME NEW i \in had PROVE i <= len
      OBVIOUS
    <3>1. i \in lost \/ InHand(stack, i) => i \in 1 .. e
      BY <2>1 DEF HandsBefore
    <3>2. CASE Holds(com_pushedEvents, MAX_PUSHED_EVENTS, i)
      <4>1. EventRing(com_pushedEvents, MAX_PUSHED_EVENTS, e, len) /\ e \in Nat
        BY <1>1 DEF RingsInv
      <4>2. \A j \in com_pushedEvents.tail .. com_pushedEvents.head - 1 :
              com_pushedEvents.slots[Place(j, MAX_PUSHED_EVENTS)] <= len
        BY <1>1, <4>1, RingValues, Sizes
      <4>. QED BY <3>2, <4>2 DEF Holds
    <3>3. CASE Holds(eventQue, MAX_QUED_EVENTS, i)
      <4>1. EventRing(eventQue, MAX_QUED_EVENTS, e, len) /\ e \in Nat
        BY <1>1 DEF RingsInv
      <4>2. \A j \in eventQue.tail .. eventQue.head - 1 :
              eventQue.slots[Place(j, MAX_QUED_EVENTS)] <= len
        BY <1>1, <4>1, RingValues, Sizes
      <4>. QED BY <3>3, <4>2 DEF Holds
    <3>. QED BY <1>1, <2>1, <3>1, <3>2, <3>3 DEF StillHas, IsWaiting
  <2>3. FreedOnce(ks, fs, some)
    <3>1. ASSUME NEW i \in 1 .. Len(ks)
          PROVE  fs[i] = IF ks[i] = "key" \/ i \in some THEN 0 ELSE 1
      <4>1. i \in 1 .. len + n
        BY <1>5
      <4>2. CASE i <= len
        <5>1. i \in 1 .. Len(kinds) /\ i \notin len + 1 .. Len(ks)
          BY <1>1, <1>2, <4>1, <4>2
        <5>2. frees[i] = IF kinds[i] = "key" \/ i \in had THEN 0 ELSE 1
          BY <5>1 DEF FreedOnce
        <5>. QED BY <1>4, <1>5, <4>1, <4>2, <5>1, <5>2
      <4>3. CASE ~(i <= len)
        <5>1. i \in some
          BY <1>1, <1>2, <1>5, <4>1, <4>3
        <5>. QED BY <1>4, <4>1, <4>3, <5>1
      <4>. QED BY <4>2, <4>3
    <3>2. ks \in Seq(EventKinds) /\ fs \in Seq(Nat) /\ Len(fs) = Len(ks)
      BY <1>4, <1>5
    <3> HIDE DEF some
    <3>. QED BY <3>1, <3>2 DEF FreedOnce
  <2>4. s0.next \in 1 .. Len(ks) + 1 /\ e < s0.next /\ s0.next - 1 = len
    BY <1>1, <1>2, <1>5
  <2>5. s0.ring = eventQue /\ s0.next = len + 1 /\ s0.frees = fs
    OBVIOUS
  <2>6. RingsInv(com_pushedEvents, s0.ring, e, s0.next - 1)
    BY <2>4, <2>5
  <2> HIDE DEF s0, had, len
  <2>. QED BY <2>3, <2>4, <2>5, <2>6 DEF QueueInv
<1> DEFINE g == CHOOSE h : Recursion(h, s0, ks, n)
<1>7. Recursion(g, s0, ks, n)
  <2> HIDE DEF s0, n
  <2>. QED BY <1>2, RecursionExists, Zenon
<1>8. Queue(p) = g[1 .. n]
  BY <1>2, Zenon DEF Queue, FoldLeft, MapThenFoldSet, Recursion, QueueStep,
                     FreedByAdding, Freed, HasData, OneFreed, fs, zeros, ks
<1> HIDE DEF g
<1>9. QueueInv(g[1 .. n], ks, com_pushedEvents, stack, lost, e) /\ g[1 .. n].next = Len(ks) + 1
  <2>1. s0.next + n = Len(ks) + 1 /\ e \in Nat
    BY <1>1, <1>2, <1>5
  <2> HIDE DEF s0, n
  <2>. QED BY <1>2, <1>5, <1>6, <1>7, <2>1, RecursionKeeps
<1>10. /\ RingsInv(com_pushedEvents, Queue(p).ring, e, Len(ks))
       /\ FreedOnce(ks, Queue(p).frees, StillHas(com_pushedEvents, Queue(p).ring, stack, lost))
  <2> DEFINE s == Queue(p)
  <2>1. QueueInv(s, ks, com_pushedEvents, stack, lost, e) /\ s.next = Len(ks) + 1
    BY <1>8, <1>9
  <2> HIDE DEF s
  <2>2. s.next - 1 = Len(ks) /\ s.next .. Len(ks) = {}
    <3>1. Len(ks) \in Nat
      BY <1>1, <1>2, <1>5
    <3>. QED BY <2>1, <3>1
  <2>3. StillHas(com_pushedEvents, s.ring, stack, lost) \cup s.next .. Len(ks)
          = StillHas(com_pushedEvents, s.ring, stack, lost)
    BY <2>2
  <2>4. /\ RingsInv(com_pushedEvents, s.ring, e, Len(ks))
        /\ FreedOnce(ks, s.frees, StillHas(com_pushedEvents, s.ring, stack, lost))
    BY <2>1, <2>2, <2>3 DEF QueueInv
  <2>. QED BY <2>4 DEF s
<1>. QED BY <1>5, <1>10 DEF ks

-----------------------------------------------------------------------------
(* The activations.                                                         *)

OtherWork == {"nothing", "client", "server", "line"}

\* No event is taken up or put down from one stack to another.
Quiet(st, now) ==
  /\ now \in Seq(Activations) /\ Len(now) <= MaxNested
  /\ \A i \in 1 .. Len(now) :
       \/ i \in 1 .. Len(st) /\ now[i].doing = st[i].doing
       \/ now[i].doing.what \in OtherWork
            /\ (now[i].doing.what = "nothing" <=> now[i].doing = Nothing)
  /\ \A i \in 1 .. Len(st) :
       st[i].doing.what = "event" => i \in 1 .. Len(now) /\ now[i].doing = st[i].doing

LEMMA QuietHands ==
  ASSUME NEW st, NEW now, Quiet(st, now), NEW n
  PROVE  InHand(now, n) <=> InHand(st, n)
<1>1. ASSUME InHand(now, n) PROVE InHand(st, n)
  <2>1. PICK i \in 1 .. Len(now) : Handles(now[i], n)
    BY <1>1 DEF InHand
  <2>2. now[i].doing.what \notin OtherWork
    BY <2>1 DEF Handles, OtherWork
  <2>. QED BY <2>1, <2>2 DEF Quiet, Handles, InHand
<1>2. ASSUME InHand(st, n) PROVE InHand(now, n)
  <2>1. PICK i \in 1 .. Len(st) : Handles(st[i], n)
    BY <1>2 DEF InHand
  <2>. QED BY <2>1 DEF Quiet, Handles, InHand
<1>. QED BY <1>1, <1>2

LEMMA QuietStack ==
  ASSUME NEW st, NEW now, NEW gone, NEW e \in Nat, StackInv(st, gone, e), Quiet(st, now)
  PROVE  StackInv(now, gone, e)
<1>1. now \in Seq(Activations) /\ Len(now) <= MaxNested
  BY DEF Quiet
<1>2. ASSUME NEW i \in 1 .. Len(now), now[i].doing.what = "event"
      PROVE  i \in 1 .. Len(st) /\ now[i].doing = st[i].doing
  BY <1>2 DEF Quiet, OtherWork
<1>3. ASSUME NEW i \in 1 .. Len(now)
      PROVE  /\ now[i].doing.what = "nothing" <=> now[i].doing = Nothing
             /\ now[i].doing.what = "event" => \E n \in 1 .. e : now[i].doing.id = <<n>>
  BY <1>2 DEF Quiet, StackInv
<1>4. ASSUME NEW i \in 1 .. Len(now), NEW j \in 1 .. Len(now), i # j,
             now[i].doing.what = "event", now[j].doing.what = "event"
      PROVE  now[i].doing.id # now[j].doing.id
  BY <1>2, <1>4 DEF StackInv
<1>5. gone \subseteq 1 .. e /\ \A n \in gone : ~InHand(now, n)
  BY QuietHands DEF StackInv
<1>. QED BY <1>1, <1>3, <1>4, <1>5 DEF StackInv

LEMMA HandsInOrder ==
  ASSUME NEW st, NEW gone, NEW e \in Nat, StackInv(st, gone, e)
  PROVE  HandsBefore(st, gone, e)
<1> SUFFICES ASSUME NEW n \in Nat, n \in gone \/ InHand(st, n) PROVE n \in 1 .. e
  BY DEF HandsBefore
<1>1. CASE n \in gone
  BY <1>1 DEF StackInv
<1>2. CASE InHand(st, n)
  <2>1. PICK i \in 1 .. Len(st) : Handles(st[i], n)
    BY <1>2 DEF InHand
  <2>2. PICK m \in 1 .. e : st[i].doing.id = <<m>>
    BY <2>1 DEF StackInv, Handles
  <2>3. <<n>> = <<m>>
    BY <2>1, <2>2 DEF Handles
  <2>. QED BY <2>2, <2>3
<1>. QED BY <1>1, <1>2

\* Nothing happened to the events.
LEMMA EventsKept ==
  ASSUME EventsInv, UNCHANGED events, last'.event = last.event, Quiet(stack, stack')
  PROVE  EventsInv'
<1>1. PICK e \in 0 .. Len(kinds) :
        /\ last.event = <<e>>
        /\ RingsInv(com_pushedEvents, eventQue, e, Len(kinds))
        /\ StackInv(stack, lost, e)
  BY DEF EventsInv
<1>2. StackInv(stack', lost, e)
  BY <1>1, QuietStack
<1>3. \A n \in Nat : InHand(stack', n) <=> InHand(stack, n)
  BY QuietHands
<1>4. FreedOnce(kinds, frees, StillHas(com_pushedEvents, eventQue, stack', lost))
  <2>1. \A n \in 1 .. Len(kinds) :
          n \in StillHas(com_pushedEvents, eventQue, stack, lost)
            <=> n \in StillHas(com_pushedEvents, eventQue, stack', lost)
    BY <1>3 DEF StillHas
  <2>2. FreedOnce(kinds, frees, StillHas(com_pushedEvents, eventQue, stack, lost))
    BY DEF EventsInv
  <2>. QED BY <2>1, <2>2, SameHad
<1>5. Len(kinds) <= MaxEvents
  BY DEF EventsInv
<1>6. /\ kinds' = kinds /\ frees' = frees /\ eventQue' = eventQue
      /\ com_pushedEvents' = com_pushedEvents /\ lost' = lost
  BY DEF events
<1>. QED BY <1>1, <1>2, <1>4, <1>5, <1>6 DEF EventsInv

\* The doing of the top changes, or its phase.
LEMMA TopChanged ==
  ASSUME NEW st \in Seq(Activations), st # <<>>, NEW d \in Doings
  PROVE  LET now == [st EXCEPT ![Len(st)].doing = d] IN
         /\ now \in Seq(Activations) /\ Len(now) = Len(st)
         /\ \A i \in 1 .. Len(st) :
              /\ now[i].doing = IF i = Len(st) THEN d ELSE st[i].doing
              /\ now[i].fn = st[i].fn
<1> DEFINE n == Len(st)  a == st[n]  b == [a EXCEPT !.doing = d]
<1>1. n \in Nat /\ n \in 1 .. n
  BY EmptySeq, LenProperties
<1>2. a \in Activations
  BY <1>1, ElementOfSeq
<1>3. b \in Activations /\ b.doing = d /\ b.fn = a.fn
  BY <1>2 DEF Activations
<1>4. [st EXCEPT ![Len(st)].doing = d] = [st EXCEPT ![n] = b]
  OBVIOUS
<1> HIDE DEF b
<1> DEFINE now == [st EXCEPT ![n] = b]
<1>5. /\ now \in Seq(Activations) /\ Len(now) = n
      /\ \A j \in 1 .. n : now[j] = IF j = n THEN b ELSE st[j]
  BY <1>1, <1>3, ExceptSeq
<1>6. now = [st EXCEPT ![Len(st)].doing = d] /\ n = Len(st)
  BY <1>4
<1> HIDE DEF n, a, now
<1>7. \A i \in 1 .. n : /\ now[i].doing = IF i = n THEN d ELSE st[i].doing
                        /\ now[i].fn = st[i].fn
  BY <1>3, <1>5 DEF a
<1>. QED BY <1>5, <1>6, <1>7

LEMMA PhaseChanged ==
  ASSUME NEW st \in Seq(Activations), st # <<>>, NEW at \in {"events", "client", "server"}
  PROVE  LET now == [st EXCEPT ![Len(st)].at = at] IN
         /\ now \in Seq(Activations) /\ Len(now) = Len(st)
         /\ \A i \in 1 .. Len(st) : now[i].doing = st[i].doing /\ now[i].fn = st[i].fn
<1> DEFINE n == Len(st)  a == st[n]  b == [a EXCEPT !.at = at]
<1>1. n \in Nat /\ n \in 1 .. n
  BY EmptySeq, LenProperties
<1>2. a \in Activations
  BY <1>1, ElementOfSeq
<1>3. b \in Activations /\ b.doing = a.doing /\ b.fn = a.fn
  BY <1>2 DEF Activations
<1>4. [st EXCEPT ![Len(st)].at = at] = [st EXCEPT ![n] = b]
  OBVIOUS
<1> HIDE DEF b
<1> DEFINE now == [st EXCEPT ![n] = b]
<1>5. /\ now \in Seq(Activations) /\ Len(now) = n
      /\ \A j \in 1 .. n : now[j] = IF j = n THEN b ELSE st[j]
  BY <1>1, <1>3, ExceptSeq
<1>6. now = [st EXCEPT ![Len(st)].at = at] /\ n = Len(st)
  BY <1>4
<1> HIDE DEF n, a, now
<1>7. \A i \in 1 .. n : now[i].doing = st[i].doing /\ now[i].fn = st[i].fn
  BY <1>3, <1>5 DEF a
<1>. QED BY <1>5, <1>6, <1>7

LEMMA QuietTop ==
  ASSUME NEW st \in Seq(Activations), st # <<>>, Len(st) <= MaxNested,
         st[Len(st)].doing.what # "event",
         NEW d \in Doings, d.what \in OtherWork, d.what = "nothing" <=> d = Nothing
  PROVE  Quiet(st, [st EXCEPT ![Len(st)].doing = d])
<1> DEFINE now == [st EXCEPT ![Len(st)].doing = d]
<1>1. /\ now \in Seq(Activations) /\ Len(now) = Len(st)
      /\ \A i \in 1 .. Len(st) : now[i].doing = IF i = Len(st) THEN d ELSE st[i].doing
  BY TopChanged
<1> HIDE DEF now
<1>. QED BY <1>1 DEF Quiet, now

LEMMA QuietPhase ==
  ASSUME NEW st \in Seq(Activations), st # <<>>, Len(st) <= MaxNested,
         NEW at \in {"events", "client", "server"}
  PROVE  Quiet(st, [st EXCEPT ![Len(st)].at = at])
<1> DEFINE now == [st EXCEPT ![Len(st)].at = at]
<1>1. /\ now \in Seq(Activations) /\ Len(now) = Len(st)
      /\ \A i \in 1 .. Len(st) : now[i].doing = st[i].doing
  BY PhaseChanged
<1> HIDE DEF now
<1>. QED BY <1>1 DEF Quiet, now

\* What Com_Frame calls next.
LEMMA CalledIs ==
  ASSUME NEW s \in Stages
  PROVE  /\ Called(s) \in Seq(Activations) /\ Len(Called(s)) \in {0, 1}
         /\ Len(Called(s)) = 0 <=> s \in {"SV_Frame", "CL_Frame"}
         /\ \A i \in 1 .. Len(Called(s)) :
              /\ i = 1 /\ Called(s)[i].doing = Nothing
              /\ Called(s)[i].fn = IF s \in {"events", "eventsAgain"} THEN "Com_EventLoop"
                                   ELSE "Cbuf_Execute"
<1>1. ASSUME NEW fn \in Functions
      PROVE  Activation(fn) \in Activations /\ Activation(fn).doing = Nothing
             /\ Activation(fn).fn = fn
  BY EmptySeq DEF Activation, Activations, Nothing, Doings
<1>2. "Com_EventLoop" \in Functions /\ "Cbuf_Execute" \in Functions
  BY DEF Functions
<1>3. ASSUME NEW fn \in Functions
      PROVE  /\ <<Activation(fn)>> \in Seq(Activations) /\ Len(<<Activation(fn)>>) = 1
             /\ <<Activation(fn)>>[1] = Activation(fn)
  BY <1>1
<1>4. CASE s \in {"events", "eventsAgain"}
  <2>1. Called(s) = <<Activation("Com_EventLoop")>>
    BY <1>4 DEF Called
  <2>. QED BY <1>1, <1>2, <1>3, <1>4, <2>1
<1>5. CASE s \in {"execute", "executeAgain"}
  <2>1. Called(s) = <<Activation("Cbuf_Execute")>>
    BY <1>5 DEF Called
  <2>. QED BY <1>1, <1>2, <1>3, <1>5, <2>1
<1>6. CASE s \in {"SV_Frame", "CL_Frame"}
  <2>1. Called(s) = <<>>
    BY <1>6 DEF Called
  <2>. QED BY <1>6, <2>1, EmptySeq
<1>. QED BY <1>4, <1>5, <1>6 DEF Stages

LEMMA QuietCalled ==
  ASSUME NEW st, \A i \in 1 .. Len(st) : st[i].doing.what # "event",
         NEW s \in Stages
  PROVE  Quiet(st, Called(s))
<1> DEFINE now == Called(s)
<1>1. now \in Seq(Activations) /\ Len(now) \in {0, 1} /\ \A i \in 1 .. Len(now) : now[i].doing = Nothing
  BY CalledIs
<1> HIDE DEF now
<1>. QED BY <1>1, Sizes DEF Quiet, now, Nothing, OtherWork

LEMMA QuietFront ==
  ASSUME NEW st \in Seq(Activations), st # <<>>, Len(st) <= MaxNested,
         st[Len(st)].doing.what # "event"
  PROVE  /\ Quiet(st, Front(st)) /\ Len(Front(st)) = Len(st) - 1
         /\ \A i \in 1 .. Len(st) - 1 : Front(st)[i] = st[i]
<1> DEFINE now == Front(st)
<1>1. /\ now \in Seq(Activations) /\ Len(now) = Len(st) - 1 /\ Len(st) \in Nat \ {0}
      /\ \A i \in 1 .. Len(now) : now[i] = st[i]
  <2>1. Len(st) \in Nat \ {0}
    BY EmptySeq, LenProperties
  <2>2. now = SubSeq(st, 1, Len(st) - 1)
    BY DEF Front
  <2>3. 1 \in 1 .. Len(st) + 1 /\ Len(st) - 1 \in 0 .. Len(st)
    BY <2>1
  <2> DEFINE n == Len(st) - 1
  <2> HIDE DEF now, n
  <2>4. /\ SubSeq(st, 1, n) \in Seq(Activations)
        /\ Len(SubSeq(st, 1, n)) = IF 1 <= n THEN n - 1 + 1 ELSE 0
        /\ \A i \in 1 .. n - 1 + 1 : SubSeq(st, 1, n)[i] = st[1 + i - 1]
    BY <2>1, <2>3, SubSeqProperties DEF n
  <2>5. n \in Nat /\ now = SubSeq(st, 1, n)
    BY <2>1, <2>2 DEF n
  <2>6. Len(now) = n
    BY <2>4, <2>5
  <2>7. \A i \in 1 .. n : now[i] = st[i]
    <3>1. \A i \in 1 .. n : 1 + i - 1 = i /\ i \in 1 .. n - 1 + 1
      BY <2>5
    <3>. QED BY <2>4, <2>5, <3>1
  <2>. QED BY <2>1, <2>4, <2>5, <2>6, <2>7 DEF n
<1> HIDE DEF now
<1>2. Quiet(st, now)
  <2>1. \A i \in 1 .. Len(now) : i \in 1 .. Len(st) /\ now[i].doing = st[i].doing
    BY <1>1
  <2>2. \A i \in 1 .. Len(st) : st[i].doing.what = "event" => i \in 1 .. Len(now)
    BY <1>1
  <2>3. Len(now) <= MaxNested
    BY <1>1, Sizes
  <2>. QED BY <1>1, <2>1, <2>2, <2>3 DEF Quiet
<1>. QED BY <1>1, <1>2 DEF now

LEMMA QuietCall ==
  ASSUME NEW st \in Seq(Activations), Len(st) < MaxNested, NEW fn \in Functions
  PROVE  /\ Quiet(st, Append(st, Activation(fn)))
         /\ Len(Append(st, Activation(fn))) = Len(st) + 1
         /\ Append(st, Activation(fn))[Len(st) + 1].fn = fn
         /\ \A i \in 1 .. Len(st) : Append(st, Activation(fn))[i] = st[i]
<1> DEFINE a == Activation(fn)  now == Append(st, a)
<1>1. a \in Activations /\ a.doing = Nothing /\ a.fn = fn
  BY EmptySeq DEF Activation, Activations, Nothing, Doings
<1> HIDE DEF a
<1>2. /\ now \in Seq(Activations) /\ Len(now) = Len(st) + 1 /\ Len(st) \in Nat
      /\ \A i \in 1 .. Len(st) : now[i] = st[i]
      /\ now[Len(st) + 1] = a
  BY <1>1, AppendProperties, LenProperties
<1> HIDE DEF now
<1>3. ASSUME NEW i \in 1 .. Len(now)
      PROVE  (i \in 1 .. Len(st) /\ now[i] = st[i]) \/ now[i] = a
  BY <1>2
<1>4. Quiet(st, now)
  <2>1. Len(now) <= MaxNested
    BY <1>2, Sizes
  <2>2. \A i \in 1 .. Len(st) : i \in 1 .. Len(now)
    BY <1>2
  <2>. QED BY <1>1, <1>2, <1>3, <2>1, <2>2 DEF Quiet, Nothing, OtherWork
<1>. QED BY <1>1, <1>2, <1>4 DEF a, now

LEMMA TopIs ==
  ASSUME EventsInv
  PROVE  /\ stack \in Seq(Activations) /\ Len(stack) \in Nat /\ Len(stack) <= MaxNested
         /\ Top = stack[Len(stack)]
         /\ stack # <<>> => /\ Len(stack) \in 1 .. Len(stack) /\ Top \in Activations
                            /\ Doing = Top.doing /\ Doing \in Doings
         /\ Doing # Nothing => stack # <<>> /\ Doing.what # "nothing"
<1>1. /\ stack \in Seq(Activations) /\ Len(stack) <= MaxNested
      /\ \A i \in 1 .. Len(stack) : stack[i].doing.what = "nothing" <=> stack[i].doing = Nothing
  BY DEF EventsInv, StackInv
<1>2. Len(stack) \in Nat
  BY <1>1, LenProperties
<1>3. Top = stack[Len(stack)]
  BY DEF Top, Last
<1>4. ASSUME stack # <<>>
      PROVE  /\ Len(stack) \in 1 .. Len(stack) /\ Top \in Activations
             /\ Doing = Top.doing /\ Doing \in Doings
  <2>1. Len(stack) \in 1 .. Len(stack)
    BY <1>1, <1>2, <1>4, EmptySeq
  <2>2. Top \in Activations
    BY <1>1, <1>3, <2>1, ElementOfSeq
  <2>. QED BY <1>4, <2>1, <2>2 DEF Doing, Activations
<1>5. ASSUME Doing # Nothing PROVE stack # <<>> /\ Doing.what # "nothing"
  <2>1. stack # <<>>
    BY <1>5 DEF Doing
  <2>. QED BY <1>1, <1>3, <1>4, <1>5, <2>1
<1>. QED BY <1>1, <1>2, <1>3, <1>4, <1>5

LEMMA BeginQuiet ==
  ASSUME EventsInv, stack # <<>>, Doing.what # "event",
         NEW what \in {"client", "server", "line"}, NEW id \in Seq(Nat), Begin(what, id)
  PROVE  Quiet(stack, stack')
<1> DEFINE d == [what |-> what, id |-> id]
<1>1. d \in Doings /\ d.what \in OtherWork /\ (d.what = "nothing" <=> d = Nothing)
  BY DEF Doings, OtherWork, Nothing
<1>2. stack' = [stack EXCEPT ![Len(stack)].doing = d]
  BY DEF Begin
<1>3. stack[Len(stack)].doing.what # "event"
  BY TopIs
<1> HIDE DEF d
<1>. QED BY <1>1, <1>2, <1>3, TopIs, QuietTop

LEMMA DoneQuiet ==
  ASSUME EventsInv, stack # <<>>, Doing.what # "event", Done
  PROVE  Quiet(stack, stack')
<1> DEFINE d == Nothing
<1>1. d \in Doings /\ d.what \in OtherWork /\ (d.what = "nothing" <=> d = Nothing)
  BY EmptySeq DEF Doings, OtherWork, Nothing
<1>2. stack' = [stack EXCEPT ![Len(stack)].doing = d]
  BY DEF Done
<1>3. stack[Len(stack)].doing.what # "event"
  BY TopIs
<1> HIDE DEF d
<1>. QED BY <1>1, <1>2, <1>3, TopIs, QuietTop

\* Com_Frame goes on.
LEMMA NextStageQuiet ==
  ASSUME EventsInv, StageInv, Len(stack) <= 1, Doing = Nothing, NextStage
  PROVE  Quiet(stack, stack') /\ stage' \in Stages
<1>1. stage' \in Stages
  BY DEF NextStage, Following, StageInv, Stages
<1>2. \A i \in 1 .. Len(stack) : stack[i].doing.what # "event"
  <2> SUFFICES ASSUME NEW i \in 1 .. Len(stack) PROVE stack[i].doing.what # "event"
    OBVIOUS
  <2>1. stack # <<>> /\ i = Len(stack)
    BY TopIs, EmptySeq
  <2>. QED BY <2>1, TopIs DEF Nothing
<1>3. stack' = Called(stage')
  BY DEF NextStage
<1>. QED BY <1>1, <1>2, <1>3, QuietCalled

LEMMA ReturnQuiet ==
  ASSUME EventsInv, StageInv, stack # <<>>, Doing = Nothing, Return
  PROVE  Quiet(stack, stack')
<1>1. CASE Len(stack) > Len(Called(stage))
  <2>1. stack' = Front(stack)
    BY <1>1 DEF Return
  <2>2. stack[Len(stack)].doing.what # "event"
    BY TopIs DEF Nothing
  <2>. QED BY <2>1, <2>2, TopIs, QuietFront
<1>2. CASE ~(Len(stack) > Len(Called(stage)))
  <2>1. Len(stack) <= 1 /\ NextStage
    <3>1. Len(Called(stage)) \in {0, 1}
      BY CalledIs DEF StageInv
    <3>2. NextStage
      BY <1>2 DEF Return
    <3> DEFINE c == Len(Called(stage))
    <3>3. ~(Len(stack) > c) /\ c \in {0, 1}
      BY <1>2, <3>1
    <3> HIDE DEF c
    <3>4. Len(stack) <= 1
      BY <3>3, TopIs
    <3>. QED BY <3>2, <3>4
  <2>. QED BY <2>1, NextStageQuiet
<1>. QED BY <1>1, <1>2

LEMMA SameQuiet ==
  ASSUME EventsInv PROVE Quiet(stack, stack)
<1>1. stack \in Seq(Activations) /\ Len(stack) <= MaxNested
  BY TopIs
<1>. QED BY <1>1 DEF Quiet

LEMMA SkippedIs ==
  ASSUME NEW size \in Nat \ {0}, NEW r \in Rings(size), r.tail <= r.head
  PROVE  /\ Skipped(r) \in Rings(size) /\ Skipped(r).head = r.head
         /\ Skipped(r).slots = r.slots
         /\ Skipped(r).tail = IF r.head - r.tail > size THEN r.head - size ELSE r.tail
<1>1. Size(r) = size
  BY SizeIs
<1>. QED BY <1>1 DEF Skipped, Rings

\* What is in a line.
LEMMA LineIs ==
  ASSUME CommandsInv, cmd_text # <<>>
  PROVE  /\ cmd_text[1] \in Tokens /\ cmd_text[1].path \in Seq(Nat)
         /\ Len(cmd_text) \in Nat \ {0}
<1>1. cmd_text \in Seq(Tokens)
  BY DEF CommandsInv, BufferInv
<1>2. Len(cmd_text) \in Nat \ {0}
  BY <1>1, EmptySeq, LenProperties
<1>3. cmd_text[1] \in Tokens
  BY <1>1, <1>2, ElementOfSeq
<1>. QED BY <1>2, <1>3 DEF Tokens

LEMMA LoopPacketQuiet ==
  ASSUME IInv, LoopPacket
  PROVE  Quiet(stack, stack') /\ last'.event = last.event
<1>1. PICK side \in Sides : In("Com_EventLoop", side) /\ NET_GetLoopPacket(side)
  BY DEF LoopPacket
<1>2. stack # <<>> /\ Doing = Nothing /\ Doing.what # "event"
  BY <1>1 DEF In, Doing, Nothing
<1> DEFINE r == Skipped(loopbacks[side])
<1>3. CASE r.tail < r.head
  <2>1. Begin(side, <<Slot(r, r.tail)>>) /\ last' = [last EXCEPT ![side] = <<Slot(r, r.tail)>>]
    BY <1>1, <1>3 DEF NET_GetLoopPacket
  <2>2. loopbacks[side] \in Rings(MAX_LOOPBACK) /\ loopbacks[side].tail <= loopbacks[side].head
    BY DEF IInv, RingsOfSides, PacketsInv, PacketRing
  <2>3. r \in Rings(MAX_LOOPBACK)
    BY <2>2, Sizes, SkippedIs
  <2>4. Slot(r, r.tail) \in Nat
    BY <2>3, Sizes, SlotIs DEF Rings
  <2>5. side \in {"client", "server"}
    BY DEF Sides
  <2> DEFINE id == <<Slot(r, r.tail)>>
  <2>6. id \in Seq(Nat)
    BY <2>4
  <2> HIDE DEF id, r
  <2>7. Quiet(stack, stack')
    <3>1. Begin(side, id)
      BY <2>1 DEF id, r
    <3>2. side \in {"client", "server", "line"}
      BY <2>5
    <3>. QED BY <1>2, <2>6, <3>1, <3>2, BeginQuiet DEF IInv
  <2>8. last'.event = last.event
    BY <2>1, <2>5 DEF IInv, LastInv
  <2>. QED BY <2>7, <2>8
<1>4. CASE ~(r.tail < r.head)
  <2>1. last' = last
    BY <1>1, <1>4 DEF NET_GetLoopPacket
  <2>2. CASE side = "client"
    <3>1. Phase("server")
      BY <1>1, <1>4, <2>2 DEF NET_GetLoopPacket
    <3>2. Quiet(stack, stack')
      BY <1>2, <3>1, TopIs, QuietPhase DEF Phase, IInv
    <3>. QED BY <2>1, <3>2
  <2>3. CASE side # "client"
    <3>1. Return
      BY <1>1, <1>4, <2>3 DEF NET_GetLoopPacket
    <3>. QED BY <1>2, <2>1, <3>1, ReturnQuiet DEF IInv
  <2>. QED BY <2>2, <2>3
<1>. QED BY <1>3, <1>4

LEMMA ExecuteQuiet ==
  ASSUME IInv, Cbuf_Execute
  PROVE  Quiet(stack, stack') /\ last'.event = last.event
<1>1. stack # <<>> /\ Doing = Nothing /\ Doing.what # "event"
  BY DEF Cbuf_Execute, In, Doing, Nothing
<1>2. CASE cmd_text = <<>> \/ cmd_wait # 0
  <2>1. Return /\ last' = last
    BY <1>2 DEF Cbuf_Execute
  <2>. QED BY <1>1, <2>1, ReturnQuiet DEF IInv
<1>3. CASE ~(cmd_text = <<>> \/ cmd_wait # 0)
  <2> DEFINE line == IF LineLength = 0 THEN NewLine ELSE cmd_text[1]
  <2>1. /\ last' = last \/ last' = [last EXCEPT !.line = line.path]
        /\ stack' = stack \/ (Begin("line", line.path) /\ line.cmd = "any")
        /\ line.cmd \in LineKinds
    <3>1. line.cmd \in LineKinds
      BY <1>3, LineIs DEF IInv, Tokens, NewLine, LineKinds
    <3>. QED BY <1>3, <3>1 DEF Cbuf_Execute, LineKinds
  <2>2. line.path \in Seq(Nat)
    BY <1>3, LineIs, EmptySeq DEF IInv, NewLine
  <2> HIDE DEF line
  <2>3. last'.event = last.event
    BY <2>1 DEF IInv, LastInv
  <2>4. CASE stack' = stack
    BY <2>3, <2>4, SameQuiet DEF IInv
  <2>5. CASE Begin("line", line.path)
    BY <1>1, <2>2, <2>3, <2>5, BeginQuiet DEF IInv
  <2>. QED BY <2>1, <2>4, <2>5
<1>. QED BY <1>2, <1>3

\* Actions that do not touch the events.
LEMMA EventsUntouched ==
  ASSUME IInv,
         \/ LoopPacket \/ Cbuf_Execute \/ FrameEnds \/ AddCommand \/ AskTime
         \/ NestedEventLoop \/ NestedExecute \/ \E side \in Sides : NET_SendLoopPacket(side)
  PROVE  EventsInv'
<1>1. EventsInv /\ StageInv
  BY DEF IInv
<1>2. CASE LoopPacket
  BY <1>1, <1>2, LoopPacketQuiet, EventsKept DEF LoopPacket
<1>3. CASE Cbuf_Execute
  BY <1>1, <1>3, ExecuteQuiet, EventsKept DEF Cbuf_Execute
<1>4. CASE FrameEnds
  <2>1. Len(stack) <= 1 /\ Doing = Nothing /\ NextStage /\ last' = last
    BY <1>4, EmptySeq DEF FrameEnds, Doing
  <2>2. Quiet(stack, stack')
    BY <1>1, <2>1, NextStageQuiet
  <2>. QED BY <1>1, <1>4, <2>1, <2>2, EventsKept DEF FrameEnds
<1>5. CASE AddCommand
  <2>1. stack' = stack /\ last' = last /\ UNCHANGED events
    BY <1>5 DEF AddCommand
  <2>. QED BY <1>1, <2>1, SameQuiet, EventsKept
<1>6. ASSUME NEW side \in Sides, NET_SendLoopPacket(side) PROVE EventsInv'
  <2>1. stack' = stack /\ last' = last /\ UNCHANGED events
    BY <1>6 DEF NET_SendLoopPacket
  <2>. QED BY <1>1, <2>1, SameQuiet, EventsKept
<1>7. ASSUME NEW fn \in Functions, Calls(fn), last' = last, UNCHANGED events
      PROVE  EventsInv'
  <2>1. Quiet(stack, stack')
    BY <1>1, <1>7, TopIs, QuietCall DEF Calls
  <2>. QED BY <1>1, <1>7, <2>1, EventsKept
<1>8. CASE AskTime
  BY <1>7, <1>8 DEF AskTime, Functions
<1>9. CASE NestedEventLoop
  BY <1>7, <1>9 DEF NestedEventLoop, Functions
<1>10. CASE NestedExecute
  BY <1>7, <1>10 DEF NestedExecute, Functions
<1>. QED BY <1>2, <1>3, <1>4, <1>5, <1>6, <1>8, <1>9, <1>10

LEMMA RingNewer ==
  ASSUME NEW size, NEW r, NEW from, NEW to, NEW x, EventRing(r, size, from, to),
         \A i \in r.tail .. r.head - 1 : x < r.slots[Place(i, size)]
  PROVE  EventRing(r, size, x, to)
BY DEF EventRing

\* The event that a full ring loses is its oldest.
LEMMA Overwritten ==
  ASSUME NEW size \in Nat \ {0}, NEW r, NEW from \in Nat, NEW to \in Nat,
         EventRing(r, size, from, to), IsFull(r)
  PROVE  /\ Slot(r, r.head) = r.slots[Place(r.tail, size)] /\ r.tail \in r.tail .. r.head - 1
         /\ Slot(r, r.head) \in Nat /\ Holds(r, size, Slot(r, r.head))
<1>1. /\ r \in Rings(size) /\ r.head \in Nat /\ r.tail \in Nat /\ r.head <= r.tail + size
  BY RingValues
<1>2. r.head - r.tail >= size
  BY <1>1, SizeIs DEF IsFull
<1>3. r.head = r.tail + size /\ r.tail \in r.tail .. r.head - 1 /\ r.tail \in Int
  BY <1>1, <1>2
<1>4. Place(r.head, size) = Place(r.tail, size)
  BY <1>3, NextRound
<1>5. Slot(r, r.head) = r.slots[Place(r.head, size)] /\ Slot(r, r.head) \in Nat
  BY <1>1, SlotIs
<1>. QED BY <1>3, <1>4, <1>5 DEF Holds

\* An event begins that is newer than the last.
LEMMA EventBegins ==
  ASSUME EventsInv, stack # <<>>, Doing = Nothing, NEW e \in Nat, NEW x \in Nat, e < x,
         StackInv(stack, lost, e), Begin("event", <<x>>)
  PROVE  /\ StackInv(stack', lost, x)
         /\ \A n \in Nat : InHand(stack', n) <=> InHand(stack, n) \/ n = x
<1> DEFINE d == [what |-> "event", id |-> <<x>>]  n == Len(stack)
<1>1. d \in Doings /\ d.what = "event" /\ d.id = <<x>> /\ d # Nothing
  BY DEF Doings, Nothing
<1>2. stack' = [stack EXCEPT ![Len(stack)].doing = d]
  BY DEF Begin
<1> HIDE DEF d
<1>3. /\ stack' \in Seq(Activations) /\ Len(stack') = Len(stack)
      /\ \A i \in 1 .. Len(stack) : stack'[i].doing = IF i = Len(stack) THEN d ELSE stack[i].doing
  <2>1. stack \in Seq(Activations)
    BY TopIs
  <2>. QED BY <1>1, <1>2, <2>1, TopChanged
<1>4. n \in 1 .. n /\ stack[n].doing = Nothing /\ n <= MaxNested
  BY TopIs
<1>5. \A i \in 1 .. n : /\ stack[i].doing.what = "nothing" <=> stack[i].doing = Nothing
                        /\ stack[i].doing.what = "event" =>
                             \E m \in 1 .. e : stack[i].doing.id = <<m>>
  BY DEF StackInv
<1> HIDE DEF n
<1>6. /\ Len(stack') = n
      /\ \A i \in 1 .. n : stack'[i].doing = IF i = n THEN d ELSE stack[i].doing
  BY <1>3 DEF n
<1>7. \A m : InHand(stack', m) <=> InHand(stack, m) \/ m = x
  <2> SUFFICES ASSUME NEW m PROVE InHand(stack', m) <=> InHand(stack, m) \/ m = x
    OBVIOUS
  <2>1. InHand(stack', m) <=> \E i \in 1 .. n : Handles(stack'[i], m)
    BY <1>6 DEF InHand
  <2>2. InHand(stack, m) <=> \E i \in 1 .. n : Handles(stack[i], m)
    BY DEF InHand, n
  <2>3. Handles(stack'[n], m) <=> m = x
    <3>1. stack'[n].doing = d
      BY <1>4, <1>6
    <3>2. Handles(stack'[n], m) <=> <<x>> = <<m>>
      BY <1>1, <3>1 DEF Handles
    <3>. QED BY <3>2
  <2>4. ~Handles(stack[n], m)
    BY <1>4 DEF Handles, Nothing
  <2>5. \A i \in 1 .. n : i # n => (Handles(stack'[i], m) <=> Handles(stack[i], m))
    BY <1>6 DEF Handles
  <2>. QED BY <1>4, <2>1, <2>2, <2>3, <2>4, <2>5
<1>8. StackInv(stack', lost, x)
  <2>1. ASSUME NEW i \in 1 .. n
        PROVE  /\ stack'[i].doing.what = "nothing" <=> stack'[i].doing = Nothing
               /\ stack'[i].doing.what = "event" =>
                    \E m \in 1 .. x : stack'[i].doing.id = <<m>>
    <3>1. CASE i = n
      <4>1. stack'[i].doing = d /\ x \in 1 .. x
        BY <1>6, <3>1
      <4>. QED BY <1>1, <4>1 DEF Nothing
    <3>2. CASE i # n
      <4>1. \A m \in 1 .. e : m \in 1 .. x
        OBVIOUS
      <4>2. stack'[i].doing = stack[i].doing
        BY <1>6, <3>2
      <4>. QED BY <1>5, <4>1, <4>2
    <3>. QED BY <3>1, <3>2
  <2>2. ASSUME NEW i \in 1 .. n, stack[i].doing.what = "event"
        PROVE  stack[i].doing.id # <<x>>
    <3>1. PICK m \in 1 .. e : stack[i].doing.id = <<m>>
      BY <1>5, <2>2
    <3>2. m # x
      OBVIOUS
    <3>3. <<m>> # <<x>>
      BY <3>2
    <3>. QED BY <3>1, <3>3
  <2>3. ASSUME NEW i \in 1 .. n, NEW j \in 1 .. n, i # j,
               stack'[i].doing.what = "event", stack'[j].doing.what = "event"
        PROVE  stack'[i].doing.id # stack'[j].doing.id
    <3>1. CASE i = n
      BY <1>1, <1>6, <2>2, <2>3, <3>1
    <3>2. CASE j = n
      BY <1>1, <1>6, <2>2, <2>3, <3>2
    <3>3. CASE i # n /\ j # n
      <4>1. stack'[i].doing = stack[i].doing /\ stack'[j].doing = stack[j].doing
        BY <1>6, <3>3
      <4>. QED BY <2>3, <4>1 DEF StackInv, n
    <3>. QED BY <3>1, <3>2, <3>3
  <2>4. lost \subseteq 1 .. x /\ \A m \in lost : ~InHand(stack', m)
    <3>1. ASSUME NEW m \in lost PROVE m \in 1 .. x /\ ~InHand(stack', m)
      <4>1. m \in 1 .. e /\ ~InHand(stack, m)
        BY DEF StackInv
      <4>. QED BY <1>7, <4>1
    <3>. QED BY <3>1
  <2>. QED BY <1>3, <1>4, <1>6, <2>1, <2>3, <2>4 DEF StackInv, n
<1>. QED BY <1>7, <1>8

\* A handler puts its event down.
LEMMA EventEnds ==
  ASSUME EventsInv, stack # <<>>, NEW e \in Nat, NEW x, Handles(Top, x),
         StackInv(stack, lost, e), Done
  PROVE  /\ x \in 1 .. e /\ InHand(stack, x) /\ x \notin lost
         /\ StackInv(stack', lost, e)
         /\ \A n \in Nat : InHand(stack', n) <=> InHand(stack, n) /\ n # x
<1> DEFINE d == Nothing  n == Len(stack)
<1>1. d \in Doings /\ d.what = "nothing"
  BY EmptySeq DEF Doings, Nothing
<1>2. stack' = [stack EXCEPT ![Len(stack)].doing = d]
  BY DEF Done
<1> HIDE DEF d
<1>3. /\ stack' \in Seq(Activations) /\ Len(stack') = Len(stack)
      /\ \A i \in 1 .. Len(stack) : stack'[i].doing = IF i = Len(stack) THEN d ELSE stack[i].doing
  <2>1. stack \in Seq(Activations)
    BY TopIs
  <2>. QED BY <1>1, <1>2, <2>1, TopChanged
<1>4. n \in 1 .. n /\ Handles(stack[n], x) /\ n <= MaxNested
  BY TopIs
<1>5. \A i \in 1 .. n : /\ stack[i].doing.what = "nothing" <=> stack[i].doing = Nothing
                        /\ stack[i].doing.what = "event" =>
                             \E m \in 1 .. e : stack[i].doing.id = <<m>>
  BY DEF StackInv
<1> HIDE DEF n
<1>6. /\ Len(stack') = n
      /\ \A i \in 1 .. n : stack'[i].doing = IF i = n THEN d ELSE stack[i].doing
  BY <1>3 DEF n
<1>7. \A m : InHand(stack', m) <=> InHand(stack, m) /\ m # x
  <2> SUFFICES ASSUME NEW m PROVE InHand(stack', m) <=> InHand(stack, m) /\ m # x
    OBVIOUS
  <2>1. InHand(stack', m) <=> \E i \in 1 .. n : Handles(stack'[i], m)
    BY <1>6 DEF InHand
  <2>2. InHand(stack, m) <=> \E i \in 1 .. n : Handles(stack[i], m)
    BY DEF InHand, n
  <2>3. ~Handles(stack'[n], m)
    BY <1>1, <1>4, <1>6 DEF Handles
  <2>4. Handles(stack[n], m) <=> m = x
    <3>1. Handles(stack[n], m) <=> <<x>> = <<m>>
      BY <1>4 DEF Handles
    <3>. QED BY <3>1
  <2>5. \A i \in 1 .. n : i # n => (Handles(stack'[i], m) <=> Handles(stack[i], m))
    BY <1>6 DEF Handles
  <2>6. \A i \in 1 .. n : i # n => ~Handles(stack[i], x)
    BY <1>4 DEF Handles, StackInv, n
  <2>. QED BY <1>4, <2>1, <2>2, <2>3, <2>4, <2>5, <2>6
<1>8. InHand(stack, x)
  BY <1>4 DEF InHand, n
<1>9. x \in 1 .. e
  <2>1. PICK m \in 1 .. e : stack[n].doing.id = <<m>>
    BY <1>4, <1>5 DEF Handles
  <2>2. <<m>> = <<x>>
    BY <1>4, <2>1 DEF Handles
  <2>. QED BY <2>2
<1>10. StackInv(stack', lost, e)
  <2>1. ASSUME NEW i \in 1 .. n
        PROVE  /\ stack'[i].doing.what = "nothing" <=> stack'[i].doing = Nothing
               /\ stack'[i].doing.what = "event" =>
                    i # n /\ stack'[i].doing = stack[i].doing
                      /\ \E m \in 1 .. e : stack'[i].doing.id = <<m>>
    BY <1>1, <1>5, <1>6 DEF d
  <2>2. ASSUME NEW i \in 1 .. n, NEW j \in 1 .. n, i # j,
               stack'[i].doing.what = "event", stack'[j].doing.what = "event"
        PROVE  stack'[i].doing.id # stack'[j].doing.id
    <3>1. stack'[i].doing = stack[i].doing /\ stack'[j].doing = stack[j].doing
      BY <2>1, <2>2
    <3>. QED BY <2>2, <3>1 DEF StackInv, n
  <2>3. lost \subseteq 1 .. e /\ \A m \in lost : ~InHand(stack', m)
    BY <1>7 DEF StackInv
  <2>. QED BY <1>3, <1>4, <1>6, <2>1, <2>2, <2>3 DEF StackInv, n
<1>11. x \notin lost
  BY <1>8 DEF StackInv
<1>. QED BY <1>7, <1>8, <1>9, <1>10, <1>11

\* No packet that is too long becomes an event.
LEMMA PumpsAre ==
  ASSUME NEW p \in Pumped PROVE p \in Seq(EventKinds)
<1>1. PICK q \in Pumps : p = Received(q)
  BY DEF Pumped
<1> DEFINE n == Len(q)
<1>2. /\ q \in Seq(EventKinds \cup {"oversize"}) /\ n \in Nat
      /\ \A i \in 1..n - 1 : q[i] # "oversize"
  <2>1. EventKinds \cup {"oversize"} = {"key", "console", "packet", "oversize"}
    BY DEF EventKinds
  <2>2. q \in Seq(EventKinds \cup {"oversize"})
    BY <2>1, FrameAssumption
  <2>. QED BY <2>2, FrameAssumption, LenProperties
<1>3. \A i \in 1..n : q[i] \in EventKinds \cup {"oversize"}
  BY <1>2, ElementOfSeq
<1>4. CASE q # <<>> /\ q[n] = "oversize"
  <2>1. n - 1 \in 0..n
    BY <1>2, <1>4, EmptySeq
  <2>2. p = [i \in 1..n - 1 |-> q[i]]
    BY <1>1, <1>4, <2>1 DEF Received
  <2>3. \A i \in 1..n - 1 : q[i] \in EventKinds
    BY <1>2, <1>3
  <2>. QED BY <1>2, <2>1, <2>2, <2>3, IsASeq
<1>5. CASE ~(q # <<>> /\ q[n] = "oversize")
  <2>1. p = q
    BY <1>1, <1>5 DEF Received
  <2>2. \A i \in 1..n : q[i] \in EventKinds
    <3>1. n = 0 \/ q[n] # "oversize"
      BY <1>2, <1>5, EmptySeq
    <3>. QED BY <1>2, <1>3, <3>1
  <2>3. q = [i \in 1..n |-> q[i]]
    BY <1>2
  <2>. QED BY <1>2, <2>1, <2>2, <2>3, IsASeq
<1>. QED BY <1>4, <1>5

\* Events of which one part is oldest first and the rest is newer.
LEMMA EventsLoopEvent ==
  ASSUME IInv, LoopEvent
  PROVE  EventsInv'
<1>1. PICK p \in Pumped : Com_GetEvent(p)
  BY DEF LoopEvent
<1>2. EventsInv /\ stack # <<>> /\ Doing = Nothing /\ p \in Seq(EventKinds) /\ lost' = lost
  BY PumpsAre DEF LoopEvent, In, Doing, IInv
<1>3. PICK e \in 0 .. Len(kinds) :
        /\ last.event = <<e>>
        /\ RingsInv(com_pushedEvents, eventQue, e, Len(kinds))
        /\ StackInv(stack, lost, e)
  BY <1>2 DEF EventsInv
<1> DEFINE s == Queue(p)  K == Len(kinds')  q == s.ring
           pushed == com_pushedEvents.head > com_pushedEvents.tail
           ring == IF pushed THEN com_pushedEvents ELSE q
           x == Slot(ring, ring.tail)
           had == StillHas(com_pushedEvents, q, stack, lost)
<1>4. /\ kinds' = kinds \o p /\ Len(kinds) + Len(p) <= MaxEvents /\ frees' = s.frees
      /\ ring.head > ring.tail =>
           /\ Begin("event", <<x>>) /\ last' = [last EXCEPT !.event = <<x>>]
           /\ com_pushedEvents' = IF pushed THEN Taken(com_pushedEvents) ELSE com_pushedEvents
           /\ eventQue' = IF pushed THEN q ELSE Taken(q)
      /\ ~(ring.head > ring.tail) =>
           /\ Phase("client") /\ last' = last
           /\ com_pushedEvents' = com_pushedEvents /\ eventQue' = q
  BY <1>1 DEF Com_GetEvent, Sys_QueEvents
<1>5. /\ K = Len(kinds) + Len(p) /\ K \in Nat /\ e \in Nat /\ e <= K
      /\ RingsInv(com_pushedEvents, q, e, K)
      /\ FreedOnce(kinds', frees', had)
  <2>1. HandsBefore(stack, lost, e) /\ e \in Nat
    <3>1. e \in Nat
      OBVIOUS
    <3>. QED BY <1>3, <3>1, HandsInOrder
  <2>2. /\ kinds' \in Seq(EventKinds) /\ Len(kinds') = Len(kinds) + Len(p)
        /\ RingsInv(com_pushedEvents, Queue(p).ring, e, Len(kinds'))
        /\ FreedOnce(kinds', Queue(p).frees, StillHas(com_pushedEvents, Queue(p).ring, stack, lost))
    <3>1. FreedOnce(kinds, frees, StillHas(com_pushedEvents, eventQue, stack, lost))
      BY <1>2 DEF EventsInv
    <3>2. kinds' = kinds \o p
      BY <1>4
    <3>. QED BY <1>2, <1>3, <2>1, <3>1, <3>2, QueueInvAfter, Zenon
  <2>3. Len(kinds) \in Nat /\ Len(p) \in Nat
    <3>1. kinds \in Seq(EventKinds)
      BY <1>2 DEF EventsInv, FreedOnce
    <3>. QED BY <1>2, <3>1, LenProperties
  <2>. QED BY <1>4, <2>1, <2>2, <2>3
<1> HIDE DEF s, K, q, pushed, x, had
<1>6. CASE ring.head > ring.tail
  <2>1. /\ Begin("event", <<x>>) /\ last' = [last EXCEPT !.event = <<x>>]
        /\ com_pushedEvents' = IF pushed THEN Taken(com_pushedEvents) ELSE com_pushedEvents
        /\ eventQue' = IF pushed THEN q ELSE Taken(q)
    BY <1>4, <1>6
  <2>2. last'.event = <<x>>
    BY <2>1 DEF IInv, LastInv
  <2>3. /\ x \in Nat /\ e < x /\ x <= K
        /\ RingsInv(com_pushedEvents', eventQue', x, K)
        /\ \A n \in Nat : IsWaiting(com_pushedEvents, q, n) <=>
             n = x \/ IsWaiting(com_pushedEvents', eventQue', n)
    <3>1. /\ EventRing(com_pushedEvents, MAX_PUSHED_EVENTS, e, K)
          /\ EventRing(q, MAX_QUED_EVENTS, e, K) /\ RingsApart(com_pushedEvents, q)
      BY <1>5 DEF RingsInv
    <3>2. CASE pushed
      <4>1. x = Slot(com_pushedEvents, com_pushedEvents.tail) /\ com_pushedEvents' = Taken(com_pushedEvents)
            /\ eventQue' = q /\ com_pushedEvents.head > com_pushedEvents.tail
        BY <2>1, <3>2 DEF x, pushed
      <4>2. /\ x \in Nat /\ e < x /\ x <= K /\ Holds(com_pushedEvents, MAX_PUSHED_EVENTS, x)
            /\ x = com_pushedEvents.slots[Place(com_pushedEvents.tail, MAX_PUSHED_EVENTS)]
            /\ com_pushedEvents.tail \in com_pushedEvents.tail .. com_pushedEvents.head - 1
            /\ EventRing(com_pushedEvents', MAX_PUSHED_EVENTS, x, K)
            /\ \A i \in com_pushedEvents'.tail .. com_pushedEvents'.head - 1 :
                 /\ i \in com_pushedEvents.tail .. com_pushedEvents.head - 1
                 /\ com_pushedEvents'.slots[Place(i, MAX_PUSHED_EVENTS)]
                      = com_pushedEvents.slots[Place(i, MAX_PUSHED_EVENTS)]
            /\ \A n \in Nat : Holds(com_pushedEvents', MAX_PUSHED_EVENTS, n)
                                <=> Holds(com_pushedEvents, MAX_PUSHED_EVENTS, n) /\ n # x
        BY <1>5, <3>1, <4>1, Sizes, RingTake
      <4>3. \A i \in q.tail .. q.head - 1 : x < q.slots[Place(i, MAX_QUED_EVENTS)]
        BY <3>1, <4>2 DEF RingsApart
      <4>4. EventRing(q, MAX_QUED_EVENTS, x, K)
        BY <3>1, <4>3, RingNewer
      <4>5. RingsApart(com_pushedEvents', q)
        BY <3>1, <4>2 DEF RingsApart
      <4>6. \A n \in Nat : IsWaiting(com_pushedEvents, q, n) <=>
             n = x \/ IsWaiting(com_pushedEvents', q, n)
        BY <4>2 DEF IsWaiting
      <4>. QED BY <4>1, <4>2, <4>4, <4>5, <4>6 DEF RingsInv
    <3>3. CASE ~pushed
      <4>1. x = Slot(q, q.tail) /\ com_pushedEvents' = com_pushedEvents
            /\ eventQue' = Taken(q) /\ q.head > q.tail
        BY <1>6, <2>1, <3>3 DEF x
      <4>2. /\ x \in Nat /\ e < x /\ x <= K /\ Holds(q, MAX_QUED_EVENTS, x)
            /\ EventRing(eventQue', MAX_QUED_EVENTS, x, K)
            /\ \A n \in Nat : Holds(eventQue', MAX_QUED_EVENTS, n)
                                <=> Holds(q, MAX_QUED_EVENTS, n) /\ n # x
        BY <1>5, <3>1, <4>1, Sizes, RingTake
      <4>3. com_pushedEvents.tail .. com_pushedEvents.head - 1 = {}
        <5>1. com_pushedEvents.tail \in Nat /\ com_pushedEvents.head \in Nat
          BY <1>5, <3>1, Sizes, RingValues
        <5>. QED BY <3>3, <5>1 DEF pushed
      <4>4. EventRing(com_pushedEvents, MAX_PUSHED_EVENTS, x, K)
        BY <3>1, <4>3, RingNewer
      <4>5. RingsApart(com_pushedEvents, eventQue')
        BY <4>3 DEF RingsApart
      <4>6. \A n \in Nat : IsWaiting(com_pushedEvents, q, n) <=>
             n = x \/ IsWaiting(com_pushedEvents, eventQue', n)
        BY <4>2 DEF IsWaiting
      <4>. QED BY <4>1, <4>2, <4>4, <4>5, <4>6 DEF RingsInv
    <3>. QED BY <3>2, <3>3
  <2>4. /\ StackInv(stack', lost, x)
        /\ \A n \in Nat : InHand(stack', n) <=> InHand(stack, n) \/ n = x
    BY <1>2, <1>3, <1>5, <2>1, <2>3, EventBegins
  <2>5. \A n \in 1 .. K : n \in had <=> n \in StillHas(com_pushedEvents', eventQue', stack', lost)
    <3>1. \A n \in 1 .. K : n \in Nat
      OBVIOUS
    <3>. QED BY <2>3, <2>4, <3>1 DEF StillHas, had
  <2>6. FreedOnce(kinds', frees', StillHas(com_pushedEvents', eventQue', stack', lost))
    BY <1>5, <2>5, SameHad DEF K
  <2>7. x \in 0 .. Len(kinds') /\ Len(kinds') <= MaxEvents
    BY <1>4, <1>5, <2>3 DEF K
  <2>. QED BY <1>2, <2>2, <2>3, <2>4, <2>6, <2>7 DEF EventsInv, K
<1>7. CASE ~(ring.head > ring.tail)
  <2>1. Phase("client") /\ last' = last /\ com_pushedEvents' = com_pushedEvents /\ eventQue' = q
    BY <1>4, <1>7
  <2>2. Quiet(stack, stack')
    BY <1>2, <2>1, TopIs, QuietPhase DEF Phase
  <2>3. StackInv(stack', lost, e)
    BY <1>3, <1>5, <2>2, QuietStack
  <2>4. \A n \in 1 .. K : n \in had <=> n \in StillHas(com_pushedEvents', eventQue', stack', lost)
    BY <2>1, <2>2, QuietHands DEF StillHas, had
  <2>5. FreedOnce(kinds', frees', StillHas(com_pushedEvents', eventQue', stack', lost))
    BY <1>5, <2>4, SameHad DEF K
  <2>6. e \in 0 .. Len(kinds') /\ Len(kinds') <= MaxEvents
    BY <1>4, <1>5 DEF K
  <2>. QED BY <1>2, <1>3, <1>5, <2>1, <2>3, <2>5, <2>6 DEF EventsInv, K
<1>. QED BY <1>6, <1>7

LEMMA EventsMilliseconds ==
  ASSUME IInv, NEW p \in Pumped, Com_Milliseconds(p)
  PROVE  EventsInv'
<1>2. /\ EventsInv /\ stack # <<>> /\ Doing = Nothing /\ p \in Seq(EventKinds)
      /\ lost' = lost /\ last' = last
  BY PumpsAre DEF Com_Milliseconds, In, Doing, IInv
<1>3. PICK e \in 0 .. Len(kinds) :
        /\ last.event = <<e>>
        /\ RingsInv(com_pushedEvents, eventQue, e, Len(kinds))
        /\ StackInv(stack, lost, e)
  BY <1>2 DEF EventsInv
<1> DEFINE s == Queue(p)  K == Len(kinds')  q == s.ring  r == com_pushedEvents
           x == Slot(q, q.tail)  f == s.frees  y == Slot(r, r.head)
           had == StillHas(com_pushedEvents, q, stack, lost)
<1>4. /\ kinds' = kinds \o p /\ Len(kinds) + Len(p) <= MaxEvents
      /\ q.head > q.tail => /\ eventQue' = Taken(q) /\ com_pushedEvents' = Added(r, x)
                            /\ frees' = IF IsFull(r) THEN OneFreed(f, y, kinds') ELSE f
                            /\ stack' = stack
      /\ ~(q.head > q.tail) => /\ eventQue' = q /\ com_pushedEvents' = com_pushedEvents
                               /\ frees' = f /\ stack' = Front(stack)
  BY DEF Com_Milliseconds, Sys_QueEvents, FreedByAdding, Freed, HasData, OneFreed
<1>5. /\ K = Len(kinds) + Len(p) /\ K \in Nat /\ e \in Nat /\ e <= K
      /\ RingsInv(com_pushedEvents, q, e, K)
      /\ FreedOnce(kinds', f, had)
  <2>1. HandsBefore(stack, lost, e) /\ e \in Nat
    <3>1. e \in Nat
      OBVIOUS
    <3>. QED BY <1>3, <3>1, HandsInOrder
  <2>2. /\ kinds' \in Seq(EventKinds) /\ Len(kinds') = Len(kinds) + Len(p)
        /\ RingsInv(com_pushedEvents, Queue(p).ring, e, Len(kinds'))
        /\ FreedOnce(kinds', Queue(p).frees, StillHas(com_pushedEvents, Queue(p).ring, stack, lost))
    <3>1. FreedOnce(kinds, frees, StillHas(com_pushedEvents, eventQue, stack, lost))
      BY <1>2 DEF EventsInv
    <3>2. kinds' = kinds \o p
      BY <1>4
    <3>. QED BY <1>2, <1>3, <2>1, <3>1, <3>2, QueueInvAfter, Zenon
  <2>3. Len(kinds) \in Nat /\ Len(p) \in Nat
    <3>1. kinds \in Seq(EventKinds)
      BY <1>2 DEF EventsInv, FreedOnce
    <3>. QED BY <1>2, <3>1, LenProperties
  <2>. QED BY <1>4, <2>1, <2>2, <2>3
<1>6. e \in 0 .. Len(kinds') /\ Len(kinds') <= MaxEvents
  BY <1>4, <1>5
<1> HIDE DEF s, K, q, x, had, f, y
<1>7. CASE q.head > q.tail
  <2>1. /\ eventQue' = Taken(q) /\ com_pushedEvents' = Added(r, x) /\ stack' = stack
        /\ frees' = IF IsFull(r) THEN OneFreed(f, y, kinds') ELSE f
    BY <1>4, <1>7
  <2>2. /\ EventRing(r, MAX_PUSHED_EVENTS, e, K)
        /\ EventRing(q, MAX_QUED_EVENTS, e, K) /\ RingsApart(r, q)
    BY <1>5 DEF RingsInv
  <2>3. /\ x \in Nat /\ e < x /\ x <= K /\ Holds(q, MAX_QUED_EVENTS, x)
        /\ x = q.slots[Place(q.tail, MAX_QUED_EVENTS)] /\ q.tail \in q.tail .. q.head - 1
        /\ EventRing(eventQue', MAX_QUED_EVENTS, x, K)
        /\ \A i \in eventQue'.tail .. eventQue'.head - 1 :
             /\ i \in q.tail .. q.head - 1
             /\ eventQue'.slots[Place(i, MAX_QUED_EVENTS)] = q.slots[Place(i, MAX_QUED_EVENTS)]
        /\ \A n \in Nat : Holds(eventQue', MAX_QUED_EVENTS, n)
                            <=> Holds(q, MAX_QUED_EVENTS, n) /\ n # x
    BY <1>5, <1>7, <2>1, <2>2, Sizes, RingTake DEF x
  <2> HIDE DEF r
  <2>4. \A i \in r.tail .. r.head - 1 : r.slots[Place(i, MAX_PUSHED_EVENTS)] < x
    BY <2>2, <2>3 DEF RingsApart
  <2>5. /\ EventRing(com_pushedEvents', MAX_PUSHED_EVENTS, e, K)
        /\ HasAdded(r, MAX_PUSHED_EVENTS, x, com_pushedEvents')
    <3>1. K <= K /\ MAX_PUSHED_EVENTS \in Nat \ {0}
      BY <1>5, Sizes
    <3>2. EventRing(Added(r, x), MAX_PUSHED_EVENTS, e, K)
          /\ HasAdded(r, MAX_PUSHED_EVENTS, x, Added(r, x))
      BY <1>5, <2>2, <2>3, <2>4, <3>1, RingAdd, ZenonT(30)
    <3>. QED BY <2>1, <3>2
  <2>6. \A j \in eventQue'.tail .. eventQue'.head - 1 :
          /\ j \in q.tail .. q.head - 1
          /\ x < eventQue'.slots[Place(j, MAX_QUED_EVENTS)]
          /\ eventQue'.slots[Place(j, MAX_QUED_EVENTS)] = q.slots[Place(j, MAX_QUED_EVENTS)]
          /\ eventQue'.slots[Place(j, MAX_QUED_EVENTS)] \in Nat
    BY <1>5, <2>3, Sizes, RingValues
  <2>7. RingsApart(com_pushedEvents', eventQue')
    <3> SUFFICES ASSUME NEW i \in com_pushedEvents'.tail .. com_pushedEvents'.head - 1,
                        NEW j \in eventQue'.tail .. eventQue'.head - 1
                 PROVE  com_pushedEvents'.slots[Place(i, MAX_PUSHED_EVENTS)]
                          < eventQue'.slots[Place(j, MAX_QUED_EVENTS)]
      BY DEF RingsApart
    <3>1. CASE com_pushedEvents'.slots[Place(i, MAX_PUSHED_EVENTS)] = x
      BY <2>6, <3>1
    <3>2. CASE /\ i \in r.tail .. r.head - 1
               /\ com_pushedEvents'.slots[Place(i, MAX_PUSHED_EVENTS)]
                    = r.slots[Place(i, MAX_PUSHED_EVENTS)]
      BY <2>2, <2>6, <3>2 DEF RingsApart
    <3>. QED BY <2>5, <3>1, <3>2 DEF HasAdded
  <2>8. EventRing(eventQue', MAX_QUED_EVENTS, e, K)
    <3>1. \A i \in eventQue'.tail .. eventQue'.head - 1 :
            e < eventQue'.slots[Place(i, MAX_QUED_EVENTS)]
      BY <1>5, <2>3, <2>6
    <3>. QED BY <2>3, <3>1, RingNewer
  <2>9. RingsInv(com_pushedEvents', eventQue', e, K)
    BY <2>5, <2>7, <2>8 DEF RingsInv
  <2> DEFINE now == StillHas(com_pushedEvents', eventQue', stack', lost)
  <2>10. \A n \in Nat : IsWaiting(com_pushedEvents', eventQue', n) <=>
           \/ n = x \/ Holds(q, MAX_QUED_EVENTS, n)
           \/ Holds(r, MAX_PUSHED_EVENTS, n) /\ ~(IsFull(r) /\ n = y)
    BY <2>3, <2>5 DEF IsWaiting, HasAdded, y
  <2>11. FreedOnce(kinds', frees', now)
    <3>1. CASE ~IsFull(r)
      <4>1. \A n \in 1 .. K : n \in had <=> n \in now
        <5>1. \A n \in 1 .. K : n \in Nat
          OBVIOUS
        <5>. QED BY <2>1, <2>3, <2>10, <3>1, <5>1 DEF StillHas, IsWaiting, had, r
      <4>2. frees' = f
        BY <2>1, <3>1
      <4> HIDE DEF now
      <4>. QED BY <1>5, <4>1, <4>2, SameHad DEF K
    <3>2. CASE IsFull(r)
      <4>1. /\ y = r.slots[Place(r.tail, MAX_PUSHED_EVENTS)] /\ r.tail \in r.tail .. r.head - 1
            /\ y \in Nat /\ Holds(r, MAX_PUSHED_EVENTS, y)
        BY <1>5, <2>2, <3>2, Overwritten, Sizes DEF y
      <4>2. e < y /\ y <= K /\ y < x
        BY <1>5, <2>2, <2>4, <4>1, RingValues, Sizes
      <4>3. ~Holds(q, MAX_QUED_EVENTS, y)
        <5> SUFFICES ASSUME NEW j \in q.tail .. q.head - 1,
                            q.slots[Place(j, MAX_QUED_EVENTS)] = y
                     PROVE  FALSE
          BY DEF Holds
        <5>1. r.slots[Place(r.tail, MAX_PUSHED_EVENTS)] < q.slots[Place(j, MAX_QUED_EVENTS)]
          BY <2>2, <4>1 DEF RingsApart
        <5>. QED BY <4>1, <5>1
      <4>4. y \notin lost /\ ~InHand(stack, y)
        <5>1. HandsBefore(stack, lost, e)
          BY <1>3, <1>5, HandsInOrder
        <5>2. y \notin 1 .. e
          BY <1>5, <4>1, <4>2
        <5>. QED BY <4>1, <5>1, <5>2 DEF HandsBefore
      <4>5. y \in 1 .. K /\ y \in had
        <5>1. y \in had
          BY <4>1 DEF StillHas, IsWaiting, had, r
        <5>. QED BY <1>5, <4>1, <4>2, <5>1
      <4>6. ASSUME NEW n \in 1 .. K PROVE n \in now <=> n \in had /\ n # y
        <5>1. n \in Nat
          OBVIOUS
        <5>2. n \in now <=> n \in lost \/ InHand(stack, n) \/ IsWaiting(com_pushedEvents', eventQue', n)
          BY <2>1, <5>1 DEF StillHas
        <5>3. n \in had <=> n \in lost \/ InHand(stack, n) \/ Holds(r, MAX_PUSHED_EVENTS, n)
                              \/ Holds(q, MAX_QUED_EVENTS, n)
          BY <5>1 DEF StillHas, IsWaiting, had, r
        <5>4. y # x
          BY <2>3, <4>1, <4>2
        <5> HIDE DEF now
        <5>. QED BY <2>3, <2>10, <3>2, <4>3, <4>4, <5>1, <5>2, <5>3, <5>4
      <4>7. frees' = OneFreed(f, y, kinds')
        BY <2>1, <3>2
      <4> HIDE DEF now
      <4>8. FreedOnce(kinds', OneFreed(f, y, kinds'), now)
        BY <1>5, <4>5, <4>6, FreeOne DEF K
      <4>. QED BY <4>7, <4>8
    <3>. QED BY <3>1, <3>2
  <2>12. StackInv(stack', lost, e)
    BY <1>3, <2>1
  <2>. QED BY <1>2, <1>3, <1>6, <2>9, <2>11, <2>12 DEF EventsInv, K
<1>8. CASE ~(q.head > q.tail)
  <2>1. eventQue' = q /\ com_pushedEvents' = com_pushedEvents /\ frees' = f /\ stack' = Front(stack)
    BY <1>4, <1>8
  <2>2. Quiet(stack, stack')
    <3>1. stack[Len(stack)].doing.what # "event"
      BY <1>2, TopIs DEF Nothing
    <3>. QED BY <1>2, <2>1, <3>1, TopIs, QuietFront
  <2>3. StackInv(stack', lost, e)
    BY <1>3, <1>5, <2>2, QuietStack
  <2>4. \A n \in 1 .. K : n \in had <=> n \in StillHas(com_pushedEvents', eventQue', stack', lost)
    BY <2>1, <2>2, QuietHands DEF StillHas, had
  <2>5. FreedOnce(kinds', frees', StillHas(com_pushedEvents', eventQue', stack', lost))
    BY <1>5, <2>1, <2>4, SameHad DEF K
  <2>. QED BY <1>2, <1>3, <1>5, <1>6, <2>1, <2>3, <2>5 DEF EventsInv, K
<1>. QED BY <1>7, <1>8

\* The event of the top is dealt with, and its data freed.
LEMMA EventsHandled ==
  ASSUME EventsInv, stack # <<>>, NEW x, Handles(Top, x), Done,
         frees' = OneFreed(frees, x, kinds), last' = last,
         UNCHANGED <<eventQue, com_pushedEvents, kinds, lost>>
  PROVE  EventsInv'
<1>1. PICK e \in 0 .. Len(kinds) :
        /\ last.event = <<e>>
        /\ RingsInv(com_pushedEvents, eventQue, e, Len(kinds))
        /\ StackInv(stack, lost, e)
  BY DEF EventsInv
<1>2. Len(kinds) \in Nat /\ e \in Nat
  <2>1. kinds \in Seq(EventKinds)
    BY DEF EventsInv, FreedOnce
  <2>. QED BY <2>1, LenProperties
<1>3. /\ x \in 1 .. e /\ InHand(stack, x) /\ x \notin lost
      /\ StackInv(stack', lost, e)
      /\ \A n \in Nat : InHand(stack', n) <=> InHand(stack, n) /\ n # x
  BY <1>1, <1>2, EventEnds
<1>4. ~IsWaiting(com_pushedEvents, eventQue, x)
  <2>1. /\ EventRing(com_pushedEvents, MAX_PUSHED_EVENTS, e, Len(kinds))
        /\ EventRing(eventQue, MAX_QUED_EVENTS, e, Len(kinds))
    BY <1>1 DEF RingsInv
  <2>2. /\ \A i \in com_pushedEvents.tail .. com_pushedEvents.head - 1 :
             e < com_pushedEvents.slots[Place(i, MAX_PUSHED_EVENTS)]
        /\ \A i \in eventQue.tail .. eventQue.head - 1 :
             e < eventQue.slots[Place(i, MAX_QUED_EVENTS)]
    BY <2>1 DEF EventRing
  <2>3. ~(e < x)
    BY <1>2, <1>3
  <2>. QED BY <2>2, <2>3 DEF IsWaiting, Holds
<1> DEFINE had == StillHas(com_pushedEvents, eventQue, stack, lost)
           now == StillHas(com_pushedEvents', eventQue', stack', lost')
<1>5. \A n \in 1 .. Len(kinds) : n \in now <=> n \in had /\ n # x
  <2>1. \A n \in 1 .. Len(kinds) : n \in Nat
    BY <1>2
  <2>. QED BY <1>3, <1>4, <2>1 DEF StillHas
<1>6. x \in 1 .. Len(kinds) /\ x \in had
  BY <1>2, <1>3 DEF StillHas
<1>7. FreedOnce(kinds, frees, had)
  BY DEF EventsInv
<1> HIDE DEF had, now
<1>8. FreedOnce(kinds, OneFreed(frees, x, kinds), now)
  BY <1>5, <1>6, <1>7, FreeOne
<1>. QED BY <1>1, <1>3, <1>8 DEF EventsInv, now

LEMMA EventsDone ==
  ASSUME IInv, ConsoleEvent \/ HandlerEnds
  PROVE  EventsInv'
<1>1. EventsInv /\ Doing # Nothing /\ Done /\ last' = last
      /\ UNCHANGED <<eventQue, com_pushedEvents, kinds, lost>>
  <2>1. ConsoleEvent => Doing # Nothing
    BY DEF ConsoleEvent, Nothing
  <2>. QED BY <2>1 DEF IInv, ConsoleEvent, HandlerEnds
<1>2. stack # <<>> /\ Doing = Top.doing
  BY <1>1, TopIs
<1>3. CASE Doing.what = "event"
  <2>1. PICK x : Doing.id = <<x>>
    <3>1. PICK e \in 0 .. Len(kinds) : StackInv(stack, lost, e)
      BY <1>1 DEF EventsInv
    <3>. QED BY <1>1, <1>2, <1>3, <3>1, TopIs DEF StackInv
  <2>2. Handles(Top, x) /\ Doing.id[1] = x
    BY <1>2, <1>3, <2>1 DEF Handles
  <2>3. frees' = OneFreed(frees, x, kinds)
    <3>1. CASE HandlerEnds
      <4>1. kinds \in Seq(EventKinds)
        BY <1>1 DEF EventsInv, FreedOnce
      <4>2. x \in 1 .. Len(kinds)
        <5>1. PICK e \in 0 .. Len(kinds) : StackInv(stack, lost, e)
          BY <1>1 DEF EventsInv
        <5>2. EventsInv
          BY <1>1
        <5>3. Top = stack[Len(stack)] /\ Len(stack) \in 1 .. Len(stack)
          BY <1>2, <5>2, TopIs
        <5>4. Top.doing.what = "event"
          BY <1>2, <1>3
        <5>5. \E n \in 1 .. e : Top.doing.id = <<n>>
          BY <5>1, <5>3, <5>4 DEF StackInv
        <5>6. Len(kinds) \in Nat
          BY <4>1, LenProperties
        <5>. QED BY <1>2, <2>1, <5>1, <5>5, <5>6
      <4>3. kinds[x] \in EventKinds
        BY <4>1, <4>2, ElementOfSeq
      <4>4. ~Leaves(x)
        BY <4>3 DEF Leaves, Kind, EventKinds
      <4>. QED BY <1>1, <1>3, <2>2, <3>1, <4>4 DEF HandlerEnds, Freed, HasData, OneFreed
    <3>2. CASE ConsoleEvent
      BY <2>2, <3>2 DEF ConsoleEvent, Kind, OneFreed
    <3>. QED BY <3>1, <3>2
  <2>. QED BY <1>1, <1>2, <2>2, <2>3, EventsHandled
<1>4. CASE Doing.what # "event"
  <2>1. Quiet(stack, stack')
    BY <1>1, <1>2, <1>4, DoneQuiet
  <2>2. UNCHANGED events
    <3>1. HandlerEnds
      BY <1>4 DEF ConsoleEvent
    <3>2. frees' = frees
      BY <1>4, <3>1 DEF HandlerEnds
    <3>. QED BY <1>1, <3>2 DEF events
  <2>. QED BY <1>1, <2>1, <2>2, EventsKept
<1>. QED BY <1>3, <1>4

\* What an error interrupts.
LEMMA InProgressIs ==
  ASSUME EventsInv
  PROVE  \A n : n \in EventsInProgress <=> InHand(stack, n)
<1>3. PICK e \in 0 .. Len(kinds) : StackInv(stack, lost, e)
  BY DEF EventsInv
<1> SUFFICES ASSUME NEW n PROVE n \in EventsInProgress <=> InHand(stack, n)
  OBVIOUS
<1>1. ASSUME n \in EventsInProgress PROVE InHand(stack, n)
  <2>1. PICK d \in InProgress : d.what = "event" /\ n = d.id[1]
    BY <1>1 DEF EventsInProgress
  <2>2. PICK i \in 1 .. Len(stack) : d = stack[i].doing
    BY <2>1 DEF InProgress
  <2>3. PICK m \in 1 .. e : stack[i].doing.id = <<m>>
    BY <1>3, <2>1, <2>2 DEF StackInv
  <2>4. n = m
    BY <2>1, <2>2, <2>3
  <2>. QED BY <2>1, <2>2, <2>3, <2>4 DEF InHand, Handles
<1>2. ASSUME InHand(stack, n) PROVE n \in EventsInProgress
  <2>1. PICK i \in 1 .. Len(stack) : Handles(stack[i], n)
    BY <1>2 DEF InHand
  <2>2. stack[i].doing \in InProgress
    BY DEF InProgress
  <2>3. stack[i].doing.what = "event" /\ stack[i].doing.id[1] = n
    BY <2>1 DEF Handles
  <2>. QED BY <2>2, <2>3 DEF EventsInProgress
<1>. QED BY <1>1, <1>2

LEMMA EventsErrorDrop ==
  ASSUME IInv, ErrorDrop
  PROVE  EventsInv'
<1>1. /\ EventsInv /\ stack' = Called("events") /\ lost' = lost \cup EventsInProgress
      /\ UNCHANGED <<eventQue, com_pushedEvents, kinds, frees, last>>
  BY DEF IInv, ErrorDrop
<1>2. PICK e \in 0 .. Len(kinds) :
        /\ last.event = <<e>>
        /\ RingsInv(com_pushedEvents, eventQue, e, Len(kinds))
        /\ StackInv(stack, lost, e)
  BY <1>1 DEF EventsInv
<1>3. \A n : n \in EventsInProgress <=> InHand(stack, n)
  BY <1>1, InProgressIs
<1>4. /\ stack' \in Seq(Activations) /\ Len(stack') \in {0, 1}
      /\ \A i \in 1 .. Len(stack') : stack'[i].doing = Nothing
  BY <1>1, CalledIs DEF Stages
<1>5. \A n : ~InHand(stack', n)
  BY <1>4 DEF InHand, Handles, Nothing
<1>6. StackInv(stack', lost', e)
  <2>1. lost' \subseteq 1 .. e
    <3>1. e \in Nat
      OBVIOUS
    <3>2. HandsBefore(stack, lost, e)
      BY <1>2, <3>1, HandsInOrder
    <3>3. ASSUME NEW n \in EventsInProgress PROVE n \in 1 .. e
      <4>1. PICK i \in 1 .. Len(stack) : Handles(stack[i], n)
        BY <1>3 DEF InHand
      <4>2. PICK m \in 1 .. e : stack[i].doing.id = <<m>>
        BY <1>2, <4>1 DEF StackInv, Handles
      <4>3. <<n>> = <<m>>
        BY <4>1, <4>2 DEF Handles
      <4>. QED BY <4>3
    <3>4. lost \subseteq 1 .. e
      BY <1>2 DEF StackInv
    <3>. QED BY <1>1, <3>3, <3>4
  <2>2. Len(stack') <= MaxNested
    BY <1>4, Sizes
  <2>. QED BY <1>4, <1>5, <2>1, <2>2 DEF StackInv, Nothing
<1>7. FreedOnce(kinds', frees', StillHas(com_pushedEvents', eventQue', stack', lost'))
  <2> DEFINE had == StillHas(com_pushedEvents, eventQue, stack, lost)
             now == StillHas(com_pushedEvents', eventQue', stack', lost')
  <2>1. \A n \in 1 .. Len(kinds) : n \in had <=> n \in now
    BY <1>1, <1>3, <1>5 DEF StillHas
  <2>2. FreedOnce(kinds, frees, had)
    BY <1>1 DEF EventsInv
  <2> HIDE DEF had, now
  <2>3. FreedOnce(kinds, frees, now)
    BY <2>1, <2>2, SameHad
  <2>. QED BY <1>1, <2>3 DEF now
<1>. QED BY <1>1, <1>2, <1>6, <1>7 DEF EventsInv

LEMMA EventsNext ==
  ASSUME IInv, Next
  PROVE  EventsInv'
BY EventsUntouched, EventsLoopEvent, EventsMilliseconds, EventsDone, EventsErrorDrop DEF Next

-----------------------------------------------------------------------------
(* The packets.                                                             *)

\* The oldest packet that is left has the number of its place.
LEMMA PacketTaken ==
  ASSUME NEW r0, NEW taken, PacketRing(r0, taken), Skipped(r0).tail < Skipped(r0).head
  PROVE  LET r == Skipped(r0) IN
         PacketRing(Taken(r), <<Slot(r, r.tail)>>) /\ Slot(r, r.tail) \in Nat
           /\ Taken(r).head = r0.head
<1> DEFINE r == Skipped(r0)  L == MAX_LOOPBACK  a == Taken(r)  x == Slot(r, r.tail)
<1>1. /\ r0 \in Rings(L) /\ r0.head \in Nat /\ r0.tail \in Nat /\ r0.tail <= r0.head
      /\ L \in Nat \ {0}
  BY Sizes DEF PacketRing, Rings
<1>2. /\ r \in Rings(L) /\ r.head = r0.head /\ r.slots = r0.slots
      /\ r.tail = IF r0.head - r0.tail > L THEN r0.head - L ELSE r0.tail
      /\ r.tail \in Nat
  BY <1>1, SkippedIs DEF Rings
<1>3. /\ a \in Rings(L) /\ a.head = r.head /\ a.tail = r.tail + 1 /\ a.slots = r.slots
  BY <1>1, <1>2, TakenIs
<1>4. x = r.slots[Place(r.tail, L)]
  BY <1>1, <1>2, SlotIs
<1>5. r.tail \in 0 .. r0.head - 1 /\ r0.head <= r.tail + L
  BY <1>1, <1>2
<1>6. x = r.tail + 1
  BY <1>2, <1>4, <1>5 DEF PacketRing
<1>7. a.tail <= a.head /\ x \in 0 .. a.tail
  BY <1>1, <1>2, <1>3, <1>5, <1>6
<1>8. x \in Nat
  BY <1>2, <1>6
<1> HIDE DEF r, a, x
<1>9. PacketRing(a, <<x>>)
  BY <1>2, <1>3, <1>7 DEF PacketRing
<1>. QED BY <1>2, <1>3, <1>8, <1>9 DEF r, a, x

LEMMA PacketSent ==
  ASSUME NEW r, NEW taken, PacketRing(r, taken)
  PROVE  LET a == [r EXCEPT !.slots[r.head % MAX_LOOPBACK] = r.head + 1, !.head = @ + 1] IN
         PacketRing(a, taken) /\ a.head = r.head + 1
<1> DEFINE L == MAX_LOOPBACK  h == r.head  e == Place(h, L)
           b == [r EXCEPT !.slots[r.head % MAX_LOOPBACK] = r.head + 1, !.head = @ + 1]
           a == [slots |-> [r.slots EXCEPT ![e] = h + 1], head |-> h + 1, tail |-> r.tail]
<1>1. /\ r \in Rings(L) /\ h \in Nat /\ r.tail \in Nat /\ r.tail <= h /\ L \in Nat \ {0}
      /\ r.slots \in [0 .. L - 1 -> Nat]
  BY Sizes DEF PacketRing, Rings
<1>2. e \in 0 .. L - 1
  <2>1. h \in Int
    BY <1>1
  <2> HIDE DEF L, h
  <2>. QED BY <1>1, <2>1, PlaceInRing
<1>3. b = [r EXCEPT !.slots[e] = h + 1, !.head = @ + 1]
  BY DEF Place
<1> HIDE DEF e, b
<1>4. b = a
  BY <1>3 DEF PacketRing, Rings
<1>5. a \in Rings(L) /\ a.tail <= a.head
  BY <1>1, <1>2 DEF Rings
<1>6. \A i \in 0 .. L - 1 : a.slots[i] <= a.head
  BY <1>1, <1>2 DEF PacketRing
<1>7. ASSUME NEW i \in 0 .. a.head - 1, a.head <= i + L
      PROVE  a.slots[Place(i, L)] = i + 1
  <2>1. i \in Int /\ h \in Int /\ i < h + L /\ h < i + L
    BY <1>1, <1>7
  <2>2. Place(i, L) \in 0 .. L - 1
    <3> HIDE DEF L
    <3>. QED BY <1>1, <2>1, PlaceInRing
  <2>3. i \in Int /\ h \in Int /\ i < h + L /\ h < i + L /\ Place(i, L) \in 0 .. L - 1
    BY <2>1, <2>2
  <2>4. CASE i = h
    BY <1>1, <1>2, <2>4 DEF e
  <2>5. CASE i # h
    <3>1. Place(i, L) # e
      BY <1>1, <2>3, <2>5, SamePlace DEF e
    <3>2. i \in 0 .. h - 1 /\ h <= i + L
      BY <1>1, <1>7, <2>5
    <3>3. r.slots[Place(i, L)] = i + 1
      BY <3>2 DEF PacketRing
    <3>. QED BY <1>1, <2>3, <3>1, <3>3
  <2>. QED BY <2>4, <2>5
<1>8. \E n \in 0 .. a.tail : taken = <<n>>
  BY DEF PacketRing
<1> HIDE DEF a
<1>9. PacketRing(a, taken)
  BY <1>5, <1>6, <1>7, <1>8 DEF PacketRing
<1>. QED BY <1>4, <1>9 DEF a, b

LEMMA LoopbackSame ==
  ASSUME PacketsInv, RingsOfSides, loopbacks' = loopbacks,
         last'.client = last.client, last'.server = last.server
  PROVE  PacketsInv' /\ RingsOfSides'
<1>1. \A s \in Sides : last'[s] = last[s]
  BY DEF Sides
<1>. QED BY <1>1 DEF PacketsInv, RingsOfSides

LEMMA LoopbackGot ==
  ASSUME IInv, LoopPacket
  PROVE  PacketsInv' /\ RingsOfSides' /\ LastInv'
<1>1. PICK side \in Sides : NET_GetLoopPacket(side)
  BY DEF LoopPacket
<1> DEFINE r == Skipped(loopbacks[side])  x == Slot(r, r.tail)
<1>2. CASE r.tail < r.head
  <2>1. last' = [last EXCEPT ![side] = <<x>>] /\ loopbacks' = [loopbacks EXCEPT ![side] = Taken(r)]
    BY <1>1, <1>2 DEF NET_GetLoopPacket
  <2>2. PacketRing(Taken(r), <<x>>) /\ x \in Nat /\ Taken(r).head = loopbacks[side].head
    BY <1>2, PacketTaken DEF IInv, PacketsInv
  <2>3. Taken(r) \in Rings(MAX_LOOPBACK)
    BY <2>2 DEF PacketRing
  <2> HIDE DEF x, r
  <2>4. /\ loopbacks' \in [Sides -> Rings(MAX_LOOPBACK)]
        /\ \A s \in Sides : loopbacks'[s] = IF s = side THEN Taken(r) ELSE loopbacks[s]
    BY <2>1, <2>3 DEF IInv, RingsOfSides
  <2>5. /\ LastInv' /\ \A s \in Sides : last'[s] = IF s = side THEN <<x>> ELSE last[s]
    <3>1. <<x>> \in Seq(Nat)
      BY <2>2
    <3> DEFINE v == <<x>>
    <3> HIDE DEF v
    <3>2. v \in Seq(Nat) /\ last' = [last EXCEPT ![side] = v] /\ side \in {"client", "server"}
      BY <2>1, <3>1 DEF v, Sides
    <3>. QED BY <3>2 DEF IInv, LastInv, Sides, v
  <2>6. \A s \in Sides : PacketRing(loopbacks'[s], last'[s]) /\ loopbacks'[s].head = loopbacks[s].head
    BY <2>2, <2>4, <2>5 DEF IInv, PacketsInv
  <2>7. loopbacks'["client"].head = loopbacks["client"].head
        /\ loopbacks'["server"].head = loopbacks["server"].head
    BY <2>6 DEF Sides
  <2>. QED BY <2>4, <2>5, <2>6, <2>7 DEF PacketsInv, RingsOfSides, IInv
<1>3. CASE ~(r.tail < r.head)
  <2>1. last' = last /\ loopbacks' = loopbacks
    BY <1>1, <1>3 DEF NET_GetLoopPacket
  <2>. QED BY <2>1 DEF IInv, PacketsInv, RingsOfSides, LastInv
<1>. QED BY <1>2, <1>3

LEMMA LoopbackSent ==
  ASSUME IInv, NEW side \in Sides, NET_SendLoopPacket(side)
  PROVE  PacketsInv' /\ RingsOfSides' /\ LastInv'
<1> DEFINE r == loopbacks[side]
           a == [r EXCEPT !.slots[r.head % MAX_LOOPBACK] = r.head + 1, !.head = @ + 1]
<1>1. /\ last' = last /\ loopbacks' = [loopbacks EXCEPT ![side] = a]
      /\ loopbacks["client"].head + loopbacks["server"].head < MaxPackets
  BY DEF NET_SendLoopPacket
<1>2. PacketRing(a, last[side]) /\ a.head = r.head + 1
  BY PacketSent DEF IInv, PacketsInv
<1>3. a \in Rings(MAX_LOOPBACK)
  BY <1>2 DEF PacketRing
<1> HIDE DEF a
<1>4. /\ loopbacks' \in [Sides -> Rings(MAX_LOOPBACK)]
      /\ \A s \in Sides : loopbacks'[s] = IF s = side THEN a ELSE loopbacks[s]
  BY <1>1, <1>3 DEF IInv, RingsOfSides
<1>5. \A s \in Sides : PacketRing(loopbacks'[s], last'[s])
  BY <1>1, <1>2, <1>4 DEF IInv, PacketsInv
<1>6. loopbacks'["client"].head + loopbacks'["server"].head <= MaxPackets
  <2>1. /\ loopbacks["client"].head \in Nat /\ loopbacks["server"].head \in Nat
        /\ loopbacks["client"] \in Rings(MAX_LOOPBACK) /\ loopbacks["server"] \in Rings(MAX_LOOPBACK)
    BY DEF IInv, RingsOfSides, Rings, Sides
  <2>2. CASE side = "client"
    BY <1>1, <1>2, <1>4, <2>1, <2>2, Sizes DEF Sides
  <2>3. CASE side = "server"
    BY <1>1, <1>2, <1>4, <2>1, <2>3, Sizes DEF Sides
  <2>. QED BY <2>2, <2>3 DEF Sides
<1>. QED BY <1>1, <1>4, <1>5, <1>6 DEF PacketsInv, RingsOfSides, LastInv, IInv

\* The place of the event that a ring gives is a number.
LEMMA LastNext ==
  ASSUME IInv, Next
  PROVE  PacketsInv' /\ RingsOfSides' /\ LastInv'
<1>1. CASE LoopPacket
  BY <1>1, LoopbackGot
<1>2. ASSUME NEW side \in Sides, NET_SendLoopPacket(side)
      PROVE  PacketsInv' /\ RingsOfSides' /\ LastInv'
  BY <1>2, LoopbackSent
<1>3. CASE UNCHANGED <<loopbacks, last>>
  BY <1>3, LoopbackSame DEF IInv, LastInv
<1>4. CASE LoopEvent
  <2>1. loopbacks' = loopbacks /\ (last' = last \/ \E v : last' = [last EXCEPT !.event = v])
    BY <1>4 DEF LoopEvent, Com_GetEvent
  <2>2. \E e \in 0 .. Len(kinds') : last'.event = <<e>>
    BY <1>4, EventsLoopEvent DEF EventsInv
  <2>3. last'.event \in Seq(Nat)
    BY <2>2
  <2>4. LastInv' /\ last'.client = last.client /\ last'.server = last.server
    BY <2>1, <2>3 DEF IInv, LastInv
  <2>. QED BY <2>1, <2>4, LoopbackSame DEF IInv
<1>5. CASE Cbuf_Execute
  <2> DEFINE line == IF LineLength = 0 THEN NewLine ELSE cmd_text[1]
  <2>1. loopbacks' = loopbacks /\ (last' = last \/ last' = [last EXCEPT !.line = line.path])
    <3>1. CASE cmd_text = <<>> \/ cmd_wait # 0
      BY <1>5, <3>1 DEF Cbuf_Execute
    <3>2. CASE ~(cmd_text = <<>> \/ cmd_wait # 0)
      <4>1. line.cmd \in LineKinds
        BY <3>2, LineIs DEF IInv, Tokens, NewLine, LineKinds
      <4>. QED BY <1>5, <3>2, <4>1 DEF Cbuf_Execute, LineKinds
    <3>. QED BY <3>1, <3>2
  <2>2. cmd_text # <<>> => line.path \in Seq(Nat)
    BY LineIs, EmptySeq DEF IInv, NewLine
  <2>3. cmd_text = <<>> => last' = last
    BY <1>5 DEF Cbuf_Execute
  <2> HIDE DEF line
  <2>4. LastInv' /\ last'.client = last.client /\ last'.server = last.server
    BY <2>1, <2>2, <2>3 DEF IInv, LastInv
  <2>. QED BY <2>1, <2>4, LoopbackSame DEF IInv
<1>6. CASE \/ ConsoleEvent \/ HandlerEnds \/ FrameEnds \/ AddCommand \/ AskTime
           \/ NestedEventLoop \/ NestedExecute \/ ErrorDrop \/ \E p \in Pumped : Com_Milliseconds(p)
  BY <1>3, <1>6 DEF ConsoleEvent, HandlerEnds, FrameEnds, AddCommand, AskTime,
                    NestedEventLoop, NestedExecute, ErrorDrop, Com_Milliseconds
<1>. QED BY <1>1, <1>2, <1>4, <1>5, <1>6 DEF Next

-----------------------------------------------------------------------------
(* The command buffer.                                                      *)

LEMMA PathIs ==
  ASSUME NEW p \in Paths
  PROVE  p \in Seq(Nat) /\ Len(p) \in Nat /\ Len(p) > 0 /\ 1 \in 1 .. Len(p) /\ p[1] \in Nat
         /\ \A i \in 1 .. Len(p) : p[i] \in Nat
<1>1. p \in Seq(Nat) /\ Len(p) > 0
  BY DEF Paths
<1>2. Len(p) \in Nat
  BY <1>1, LenProperties
<1>3. \A i \in 1 .. Len(p) : p[i] \in Nat
  BY <1>1, ElementOfSeq
<1>. QED BY <1>1, <1>2, <1>3

\* A line after all others.
LEMMA ApartFromNewer ==
  ASSUME NEW p \in Paths, NEW n \in Nat, NEW m \in Nat, p[1] <= n, n < m
  PROVE  Apart(p, <<m>>) /\ <<m>> \in Paths
<1>1. Len(<<m>>) = 1 /\ <<m>>[1] = m /\ <<m>> \in Seq(Nat)
  OBVIOUS
<1>2. p[1] < m /\ 1 \in 1 .. Len(p)
  BY PathIs
<1> DEFINE q == <<m>>
<1>3. Len(q) = 1 /\ q[1] = m /\ q \in Seq(Nat)
  BY <1>1
<1> HIDE DEF q
<1>4. Apart(p, q)
  <2>1. /\ 1 \in 1 .. Len(p) /\ 1 <= Len(q) /\ p[1] < q[1]
        /\ \A k \in 1 .. 1 - 1 : p[k] = q[k]
    BY <1>2, <1>3
  <2>. QED BY <2>1, Zenon DEF Apart
<1>5. q \in Paths
  <2>1. q \in Seq(Nat) /\ Len(q) > 0
    BY <1>3
  <2>. QED BY <2>1, Zenon DEF Paths
<1>. QED BY <1>4, <1>5 DEF q

LEMMA BufferTypes ==
  ASSUME NEW buf, NEW line, NEW n \in Nat, BufferInv(buf, line, n)
  PROVE  /\ buf \in Seq(Tokens) /\ Len(buf) \in Nat /\ Len(buf) <= MAX_CMD_BUFFER
         /\ line \in Paths /\ line[1] <= n
         /\ \A j \in 1 .. Len(buf) : buf[j] \in Tokens
<1>1. buf \in Seq(Tokens)
  BY DEF BufferInv
<1>. QED BY <1>1, LenProperties, ElementOfSeq DEF BufferInv

\* One more at the end: a separator, or a line newer than all.
LEMMA BufferAppend ==
  ASSUME NEW buf, NEW line, NEW n \in Nat, NEW top \in Nat, n <= top,
         BufferInv(buf, line, n), Len(buf) < MAX_CMD_BUFFER,
         NEW t \in Tokens, IsLine(t) => t.path = <<top>> /\ n < top
  PROVE  BufferInv(Append(buf, t), line, top) /\ Len(Append(buf, t)) = Len(buf) + 1
<1> DEFINE now == Append(buf, t)  L == Len(buf)
<1>1. /\ buf \in Seq(Tokens) /\ L \in Nat /\ line \in Paths /\ line[1] <= n
  BY BufferTypes
<1>2. /\ now \in Seq(Tokens) /\ Len(now) = L + 1
      /\ \A i \in 1 .. L : now[i] = buf[i]
      /\ now[L + 1] = t
  BY <1>1, AppendProperties
<1>3. L < MAX_CMD_BUFFER
  OBVIOUS
<1> HIDE DEF now
<1>4. ASSUME NEW j \in 1 .. L, IsLine(buf[j])
      PROVE  /\ buf[j].path \in Paths /\ buf[j].path[1] <= n
             /\ Apart(line, buf[j].path) \/ LeadsTo(line, buf[j].path)
             /\ \A i \in 1 .. j - 1 : IsLine(buf[i]) => Apart(buf[i].path, buf[j].path)
  BY <1>4 DEF BufferInv
<1> HIDE DEF L
<1>5. ASSUME NEW j \in 1 .. L + 1, IsLine(now[j])
      PROVE  /\ now[j].path \in Paths /\ now[j].path[1] <= top
             /\ Apart(line, now[j].path) \/ LeadsTo(line, now[j].path)
             /\ \A i \in 1 .. j - 1 : IsLine(now[i]) => Apart(now[i].path, now[j].path)
  <2>1. CASE j = L + 1
    <3>1. now[j] = t /\ t.path = <<top>> /\ n < top
      BY <1>2, <1>5, <2>1
    <3>2. Apart(line, t.path) /\ t.path \in Paths
      BY <1>1, <3>1, ApartFromNewer
    <3>3. \A i \in 1 .. L : IsLine(buf[i]) => Apart(buf[i].path, t.path)
      BY <1>4, <3>1, ApartFromNewer
    <3>4. \A i \in 1 .. j - 1 : i \in 1 .. L /\ now[i] = buf[i]
      BY <1>1, <1>2, <2>1
    <3>5. now[j].path[1] <= top
      <4>1. <<top>>[1] = top
        OBVIOUS
      <4>. QED BY <3>1, <4>1
    <3>. QED BY <3>1, <3>2, <3>3, <3>4, <3>5
  <2>2. CASE j # L + 1
    <3>1. j \in 1 .. L /\ now[j] = buf[j]
      BY <1>1, <1>2, <2>2
    <3>2. \A i \in 1 .. j - 1 : i \in 1 .. L /\ now[i] = buf[i]
      BY <1>1, <1>2, <3>1
    <3>3. IsLine(buf[j])
      BY <1>5, <3>1
    <3>4. buf[j].path[1] <= top
      <4>1. buf[j].path[1] <= n /\ buf[j].path[1] \in Nat
        BY <1>4, <3>1, <3>3, PathIs
      <4>. QED BY <4>1
    <3>. QED BY <1>4, <3>1, <3>2, <3>3, <3>4
  <2>. QED BY <2>1, <2>2
<1>6. Len(now) <= MAX_CMD_BUFFER
  BY <1>1, <1>2, <1>3, Sizes
<1>7. line[1] <= top
  <2>1. line[1] \in Nat
    BY <1>1, PathIs
  <2>. QED BY <1>1, <2>1
<1>8. BufferInv(now, line, top)
  BY <1>1, <1>2, <1>5, <1>6, <1>7 DEF BufferInv
<1>. QED BY <1>2, <1>8 DEF now, L

\* Cbuf_AddText, of one or two.
LEMMA AddedLine ==
  ASSUME NEW line, BufferInv(cmd_text, line, lines), lines \in Nat,
         NEW cmd \in {"any", "wait", "exec"}, NEW apart \in BOOLEAN, AddLine(cmd, apart)
  PROVE  BufferInv(cmd_text', line, lines') /\ lines' \in 0 .. MaxLines
<1> DEFINE m == lines + 1  t == [path |-> <<m>>, cmd |-> cmd]
<1>1. m \in Nat /\ lines < m /\ lines' = m /\ lines < MaxLines
  BY DEF AddLine
<1>2. t \in Tokens /\ NewLine \in Tokens /\ ~IsLine(NewLine) /\ t.path = <<m>>
  BY EmptySeq DEF Tokens, LineKinds, NewLine, IsLine
<1>3. cmd_text' = IF apart THEN Appended(Appended(cmd_text, <<t>>), <<NewLine>>)
                  ELSE Appended(cmd_text, <<t, NewLine>>)
  BY DEF AddLine
<1> HIDE DEF t, m
<1> DEFINE one == Append(cmd_text, t)  two == Append(one, NewLine)
<1>4. cmd_text \in Seq(Tokens) /\ Len(cmd_text) \in Nat
  BY BufferTypes
<1>5. /\ cmd_text \o <<t>> = one /\ cmd_text \o <<t, NewLine>> = two
      /\ Append(cmd_text, NewLine) = cmd_text \o <<NewLine>>
      /\ one \o <<NewLine>> = two /\ Len(<<t>>) = 1 /\ Len(<<NewLine>>) = 1
      /\ Len(<<t, NewLine>>) = 2 /\ one \in Seq(Tokens)
  BY <1>2, <1>4
<1>6. Len(cmd_text) < MAX_CMD_BUFFER => BufferInv(one, line, m) /\ Len(one) = Len(cmd_text) + 1
  <2>1. lines <= m
    BY <1>1
  <2> HIDE DEF one
  <2>. QED BY <1>1, <1>2, <2>1, BufferAppend DEF one
<1>7. ASSUME NEW b, BufferInv(b, line, m), Len(b) < MAX_CMD_BUFFER
      PROVE  BufferInv(Append(b, NewLine), line, m)
  <2>1. m <= m
    BY <1>1
  <2>. QED BY <1>1, <1>2, <1>7, <2>1, BufferAppend
<1>8. BufferInv(cmd_text, line, m)
  <2>1. \A j \in 1 .. Len(cmd_text) : IsLine(cmd_text[j]) => cmd_text[j].path[1] <= m
    <3> SUFFICES ASSUME NEW j \in 1 .. Len(cmd_text), IsLine(cmd_text[j])
                 PROVE  cmd_text[j].path[1] <= m
      OBVIOUS
    <3>1. cmd_text[j].path \in Paths /\ cmd_text[j].path[1] <= lines
      BY DEF BufferInv
    <3>2. cmd_text[j].path[1] \in Nat
      BY <3>1, PathIs
    <3>. QED BY <1>1, <3>1, <3>2
  <2>2. line[1] <= m
    <3>1. line[1] \in Nat /\ line[1] <= lines
      BY BufferTypes, PathIs
    <3>. QED BY <1>1, <3>1
  <2>. QED BY <2>1, <2>2 DEF BufferInv
<1> HIDE DEF one, two
<1>9. BufferInv(cmd_text', line, m)
  <2>1. CASE ~apart
    <3>1. cmd_text' = IF Len(cmd_text) + 2 >= MAX_CMD_BUFFER THEN cmd_text ELSE two
      BY <1>3, <1>5, <2>1 DEF Appended
    <3>2. CASE Len(cmd_text) + 2 >= MAX_CMD_BUFFER
      BY <1>8, <3>1, <3>2
    <3>3. CASE ~(Len(cmd_text) + 2 >= MAX_CMD_BUFFER)
      <4>1. Len(cmd_text) < MAX_CMD_BUFFER /\ Len(cmd_text) + 1 < MAX_CMD_BUFFER
        BY <1>4, <3>3, Sizes
      <4>. QED BY <1>6, <1>7, <3>1, <3>3, <4>1 DEF two
    <3>. QED BY <3>2, <3>3
  <2>2. CASE apart
    <3>1. Appended(cmd_text, <<t>>) = IF Len(cmd_text) + 1 >= MAX_CMD_BUFFER THEN cmd_text ELSE one
      BY <1>5 DEF Appended
    <3>2. CASE Len(cmd_text) + 1 >= MAX_CMD_BUFFER
      <4>1. cmd_text' = cmd_text
        BY <1>3, <1>5, <2>2, <3>1, <3>2 DEF Appended
      <4>. QED BY <1>8, <4>1
    <3>3. CASE ~(Len(cmd_text) + 1 >= MAX_CMD_BUFFER)
      <4>1. BufferInv(one, line, m) /\ Len(one) = Len(cmd_text) + 1
        BY <1>4, <1>6, <3>3, Sizes
      <4>2. cmd_text' = IF Len(one) + 1 >= MAX_CMD_BUFFER THEN one ELSE two
        BY <1>3, <1>5, <2>2, <3>1, <3>3 DEF Appended
      <4>3. Len(one) < MAX_CMD_BUFFER
        BY <1>4, <3>3, <4>1, Sizes
      <4>. QED BY <1>7, <4>1, <4>2, <4>3 DEF two
    <3>. QED BY <3>2, <3>3
  <2>. QED BY <2>1, <2>2
<1>10. m \in 0 .. MaxLines
  BY <1>1, Sizes DEF m
<1>. QED BY <1>1, <1>9, <1>10

LEMMA LineLengthIs ==
  ASSUME NEW line, NEW n \in Nat, BufferInv(cmd_text, line, n)
  PROVE  LineLength \in Nat
<1> DEFINE breaks == {i \in 1 .. Len(cmd_text) : ~IsLine(cmd_text[i])}
           len == IF breaks = {} THEN Len(cmd_text) ELSE Min(breaks) - 1
<1>1. Len(cmd_text) \in Nat
  BY BufferTypes
<1>2. ASSUME NEW S \in SUBSET Nat, S # {} PROVE Min(S) \in S
  <2>1. \E x \in S : \A y \in S : x <= y
    BY <1>2, LeastOf
  <2>. QED BY <2>1, Zenon DEF Min
<1>3. len \in Nat
  <2>1. breaks \in SUBSET (1 .. Len(cmd_text))
    OBVIOUS
  <2> HIDE DEF breaks
  <2>2. breaks # {} => Min(breaks) \in breaks
    <3>1. breaks \in SUBSET Nat
      BY <1>1, <2>1
    <3>. QED BY <1>2, <3>1
  <2>3. breaks # {} => Min(breaks) \in 1 .. Len(cmd_text)
    BY <2>1, <2>2
  <2>. QED BY <1>1, <2>3
<1> HIDE DEF len
<1>4. MAX_CMD_LINE - 1 \in Nat
  BY Sizes
<1> DEFINE longest == MAX_CMD_LINE - 1
<1>5. Min({len, longest}) \in {len, longest}
  <2>1. {len, longest} \in SUBSET Nat /\ {len, longest} # {}
    BY <1>3, <1>4
  <2> HIDE DEF longest
  <2>. QED BY <1>2, <2>1
<1>6. LineLength = Min({len, longest})
  BY DEF LineLength, len
<1>. QED BY <1>3, <1>4, <1>5, <1>6

\* A line has been taken out; what is left is after it.
LEMMA BufferRest ==
  ASSUME NEW buf, NEW line, NEW n \in Nat, BufferInv(buf, line, n), NEW m \in Nat,
         NEW first \in Paths,
         first = line \/ (buf # <<>> /\ IsLine(buf[1]) /\ first = buf[1].path)
  PROVE  LET rest == Remaining(buf, m) IN
         /\ BufferInv(rest, first, n)
         /\ first # line => \A j \in 1 .. Len(rest) : IsLine(rest[j]) => Apart(first, rest[j].path)
<1> DEFINE rest == Remaining(buf, m)  L == Len(buf)
<1>1. /\ buf \in Seq(Tokens) /\ L \in Nat /\ L <= MAX_CMD_BUFFER /\ line[1] <= n
  BY BufferTypes
<1>2. \E d \in Nat \ {0} :
        /\ rest \in Seq(Tokens) /\ Len(rest) \in Nat /\ Len(rest) <= L
        /\ \A j \in 1 .. Len(rest) : j + d \in 1 .. L /\ rest[j] = buf[j + d]
  <2>1. CASE rest = <<>>
    <3>1. 1 \in Nat \ {0}
      OBVIOUS
    <3>2. Len(rest) = 0 /\ rest \in Seq(Tokens)
      BY <2>1, EmptySeq
    <3>3. \A j \in 1 .. Len(rest) : j + 1 \in 1 .. L /\ rest[j] = buf[j + 1]
      BY <3>2
    <3>4. Len(rest) \in Nat /\ Len(rest) <= L
      BY <1>1, <3>2
    <3> HIDE DEF rest, L
    <3>. QED BY <3>1, <3>2, <3>3, <3>4
  <2>2. CASE rest # <<>>
    <3>1. rest = SubSeq(buf, m + 2, L)
      BY <2>2 DEF Remaining
    <3>2. m + 2 <= L
      <4> SUFFICES ASSUME ~(m + 2 <= L) PROVE FALSE
        OBVIOUS
      <4>1. rest = <<>>
        <5>1. SubSeq(buf, m + 2, L) = <<>>
          BY <1>1
        <5>. QED BY <3>1, <5>1
      <4>. QED BY <2>2, <4>1
    <3> DEFINE a == m + 2
    <3>3. a \in 1 .. L + 1 /\ L \in a - 1 .. L
      BY <1>1, <3>2
    <3> HIDE DEF rest, a
    <3>4. /\ rest \in Seq(Tokens) /\ Len(rest) = IF a <= L THEN L - a + 1 ELSE 0
          /\ \A i \in 1 .. L - a + 1 : rest[i] = buf[a + i - 1]
      <4>1. rest = SubSeq(buf, a, L)
        BY <3>1 DEF a
      <4> HIDE DEF L
      <4>2. a \in 1 .. Len(buf) + 1 /\ L \in a - 1 .. Len(buf)
        BY <3>3 DEF L
      <4>. QED BY <1>1, <4>1, <4>2, SubSeqProperties
    <3>5. Len(rest) = L - a + 1 /\ a <= L /\ a \in Nat
      BY <3>2, <3>4 DEF a
    <3>6. \A j \in 1 .. Len(rest) : j + (m + 1) \in 1 .. L /\ rest[j] = buf[j + (m + 1)]
      <4> SUFFICES ASSUME NEW j \in 1 .. Len(rest)
                   PROVE  j + (m + 1) \in 1 .. L /\ rest[j] = buf[j + (m + 1)]
        OBVIOUS
      <4>1. j \in 1 .. L - a + 1 /\ a + j - 1 = j + (m + 1)
        BY <1>1, <3>5 DEF a
      <4>2. rest[j] = buf[a + j - 1]
        BY <3>4, <4>1
      <4>. QED BY <1>1, <3>5, <4>1, <4>2 DEF a
    <3>7. m + 1 \in Nat \ {0} /\ Len(rest) \in Nat /\ Len(rest) <= L
      BY <1>1, <3>2, <3>5 DEF a
    <3>. QED BY <3>4, <3>6, <3>7
  <2>. QED BY <2>1, <2>2
<1>3. PICK d \in Nat \ {0} :
        /\ rest \in Seq(Tokens) /\ Len(rest) \in Nat /\ Len(rest) <= L
        /\ \A j \in 1 .. Len(rest) : j + d \in 1 .. L /\ rest[j] = buf[j + d]
  BY <1>2
<1> HIDE DEF rest
<1>4. ASSUME NEW j \in 1 .. Len(rest), IsLine(rest[j])
      PROVE  /\ rest[j].path \in Paths /\ rest[j].path[1] <= n
             /\ Apart(line, rest[j].path) \/ LeadsTo(line, rest[j].path)
             /\ first # line => Apart(first, rest[j].path)
             /\ \A i \in 1 .. j - 1 : IsLine(rest[i]) => Apart(rest[i].path, rest[j].path)
  <2>1. j + d \in 1 .. L /\ rest[j] = buf[j + d] /\ IsLine(buf[j + d])
    BY <1>3, <1>4
  <2> DEFINE k == j + d
  <2>2. k \in 1 .. L /\ IsLine(buf[k]) /\ rest[j] = buf[k]
    BY <2>1
  <2>3. k > 1 /\ 1 \in 1 .. k - 1
    <3>1. j \in Nat /\ j >= 1
      OBVIOUS
    <3>. QED BY <3>1
  <2>4. \A i \in 1 .. j - 1 : i + d \in 1 .. k - 1 /\ rest[i] = buf[i + d]
    <3> SUFFICES ASSUME NEW i \in 1 .. j - 1 PROVE i + d \in 1 .. k - 1 /\ rest[i] = buf[i + d]
      OBVIOUS
    <3>1. i \in 1 .. Len(rest)
      BY <1>3
    <3>. QED BY <1>3, <3>1
  <2> HIDE DEF k
  <2>5. /\ buf[k].path \in Paths /\ buf[k].path[1] <= n
        /\ Apart(line, buf[k].path) \/ LeadsTo(line, buf[k].path)
        /\ \A i \in 1 .. k - 1 : IsLine(buf[i]) => Apart(buf[i].path, buf[k].path)
    BY <2>2 DEF BufferInv
  <2>6. first # line => Apart(first, buf[k].path)
    BY <2>3, <2>5
  <2>. QED BY <2>2, <2>4, <2>5, <2>6
<1>5. first[1] <= n
  <2>1. CASE first = line
    BY <1>1, <2>1
  <2>2. CASE first # line
    <3>1. buf # <<>> /\ IsLine(buf[1]) /\ first = buf[1].path
      BY <2>2
    <3>2. 1 \in 1 .. Len(buf)
      BY <1>1, <3>1, EmptySeq
    <3>. QED BY <3>1, <3>2 DEF BufferInv
  <2>. QED BY <2>1, <2>2
<1>6. Len(rest) <= MAX_CMD_BUFFER
  BY <1>1, <1>3, Sizes
<1>7. BufferInv(rest, first, n)
  BY <1>3, <1>4, <1>5, <1>6 DEF BufferInv
<1>. QED BY <1>4, <1>7 DEF rest

\* What exec and vstr insert: numbered lines, each with its separator.
LEMMA TextIs ==
  ASSUME NEW f \in Files, NEW p \in Paths
  PROVE  /\ Text(f, p) \in Seq(Tokens)
         /\ \A k \in 1 .. Len(Text(f, p)) :
              IsLine(Text(f, p)[k]) =>
                /\ Text(f, p)[k].path \in Paths /\ Text(f, p)[k].path[1] = p[1]
                /\ LeadsTo(p, Text(f, p)[k].path)
                /\ \A q : Apart(p, q) => Apart(Text(f, p)[k].path, q)
                /\ \A i \in 1 .. k - 1 :
                     IsLine(Text(f, p)[i]) => Apart(Text(f, p)[i].path, Text(f, p)[k].path)
<1> DEFINE t == Text(f, p)  n == 2 * Len(f)  at(k) == (k + 1) \div 2
           L == Len(p)
<1>1. f \in Seq({"any", "wait", "exec"}) /\ Len(f) \in Nat
  BY FrameAssumption, LenProperties
<1>2. n \in Nat
  BY <1>1
<1>3. ASSUME NEW k \in 1 .. n PROVE at(k) \in 1 .. Len(f)
  BY <1>1, <1>3
<1>4. ASSUME NEW k \in 1 .. n, NEW i \in 1 .. n, i < k, i # 2 * at(i), k # 2 * at(k)
      PROVE  at(i) < at(k)
  BY <1>1, <1>4
<1>5. p \in Seq(Nat) /\ L \in Nat /\ L > 0 /\ 1 \in 1 .. L /\ \A i \in 1 .. L : p[i] \in Nat
  BY PathIs
<1> DEFINE path(i) == Append(p, i)
<1>6. ASSUME NEW i \in Nat
      PROVE  /\ path(i) \in Seq(Nat) /\ Len(path(i)) = L + 1 /\ path(i)[L + 1] = i
             /\ \A k \in 1 .. L : path(i)[k] = p[k]
  BY <1>5, AppendProperties
<1>7. t = [k \in 1 .. n |-> IF k = 2 * at(k) THEN NewLine
                            ELSE [path |-> path(at(k)), cmd |-> f[at(k)]]]
  BY Zenon DEF Text
<1> HIDE DEF n, at, t, path, L
<1>8. ASSUME NEW i \in Nat
      PROVE  /\ path(i) \in Paths /\ path(i)[1] = p[1] /\ LeadsTo(p, path(i))
             /\ \A q : Apart(p, q) => Apart(path(i), q)
  <2>1. Len(path(i)) > 0 /\ path(i)[1] = p[1] /\ L < Len(path(i))
    BY <1>5, <1>6
  <2>2. path(i) \in Paths
    BY <1>6, <2>1, Zenon DEF Paths
  <2>3. LeadsTo(p, path(i))
    BY <1>6, <2>1 DEF LeadsTo, L
  <2>4. ASSUME NEW q, Apart(p, q) PROVE Apart(path(i), q)
    <3>1. PICK j \in 1 .. L : j <= Len(q) /\ p[j] < q[j] /\ \A k \in 1 .. j - 1 : p[k] = q[k]
      BY <2>4 DEF Apart, L
    <3> DEFINE w == path(i)
    <3>2. Len(w) = L + 1 /\ \A k \in 1 .. L : w[k] = p[k]
      BY <1>6
    <3> HIDE DEF w
    <3>3. j \in 1 .. Len(w) /\ w[j] = p[j]
      BY <1>5, <3>1, <3>2
    <3>4. \A k \in 1 .. j - 1 : w[k] = p[k]
      <4>1. \A k \in 1 .. j - 1 : k \in 1 .. L
        BY <1>5
      <4>. QED BY <3>2, <4>1
    <3>5. Apart(w, q)
      BY <3>1, <3>3, <3>4 DEF Apart
    <3>. QED BY <3>5 DEF w
  <2>. QED BY <2>1, <2>2, <2>3, <2>4
<1>9. ASSUME NEW i \in Nat, NEW j \in Nat, i < j PROVE Apart(path(i), path(j))
  <2> DEFINE v == path(i)  w == path(j)
  <2>1. /\ Len(v) = L + 1 /\ v[L + 1] = i /\ \A k \in 1 .. L : v[k] = p[k]
        /\ Len(w) = L + 1 /\ w[L + 1] = j /\ \A k \in 1 .. L : w[k] = p[k]
    BY <1>6
  <2> HIDE DEF v, w
  <2>2. L + 1 \in 1 .. Len(v) /\ L + 1 <= Len(w) /\ v[L + 1] < w[L + 1]
    BY <1>5, <1>9, <2>1
  <2>3. \A k \in 1 .. (L + 1) - 1 : v[k] = w[k]
    <3>1. (L + 1) - 1 = L
      BY <1>5
    <3>. QED BY <2>1, <3>1
  <2>4. Apart(v, w)
    BY <2>2, <2>3 DEF Apart
  <2>. QED BY <2>4 DEF v, w
<1>10. ASSUME NEW k \in 1 .. n
       PROVE  /\ t[k] \in Tokens /\ at(k) \in Nat
              /\ IsLine(t[k]) => k # 2 * at(k) /\ t[k].path = path(at(k))
  <2>1. at(k) \in 1 .. Len(f) /\ at(k) \in Nat
    BY <1>1, <1>3
  <2>2. f[at(k)] \in {"any", "wait", "exec"}
    BY <1>1, <2>1, ElementOfSeq
  <2>3. path(at(k)) \in Seq(Nat)
    BY <1>6, <2>1
  <2>4. CASE k = 2 * at(k)
    <3>1. t[k] = NewLine
      BY <1>7, <2>4
    <3>. QED BY <2>1, <3>1, EmptySeq DEF NewLine, Tokens, LineKinds, IsLine
  <2>5. CASE k # 2 * at(k)
    <3>1. t[k] = [path |-> path(at(k)), cmd |-> f[at(k)]]
      BY <1>7, <2>5
    <3>. QED BY <2>1, <2>2, <2>3, <2>5, <3>1 DEF Tokens, LineKinds
  <2>. QED BY <2>4, <2>5
<1>11. t \in Seq(Tokens) /\ Len(t) = n
  <2>1. DOMAIN t = 1 .. n /\ t = [k \in 1 .. n |-> t[k]]
    BY <1>7
  <2>2. t \in [1 .. n -> Tokens]
    BY <1>10, <2>1
  <2>3. t \in Seq(Tokens)
    <3>1. t \in UNION {[1 .. k -> Tokens] : k \in Nat}
      BY <1>2, <2>2, Zenon
    <3>. QED BY <3>1, SeqDef, Zenon
  <2>4. Len(t) \in Nat /\ DOMAIN t = 1 .. Len(t)
    BY <2>3, LenProperties
  <2>5. Len(t) = n
    BY <1>2, <2>1, <2>4
  <2>. QED BY <2>3, <2>5
<1>12. ASSUME NEW k \in 1 .. Len(t), IsLine(t[k])
       PROVE  /\ t[k].path \in Paths /\ t[k].path[1] = p[1] /\ LeadsTo(p, t[k].path)
              /\ \A q : Apart(p, q) => Apart(t[k].path, q)
              /\ \A i \in 1 .. k - 1 : IsLine(t[i]) => Apart(t[i].path, t[k].path)
  <2>1. k \in 1 .. n
    BY <1>11
  <2>2. k # 2 * at(k) /\ t[k].path = path(at(k)) /\ at(k) \in Nat
    BY <1>10, <1>12, <2>1
  <2>3. ASSUME NEW i \in 1 .. k - 1, IsLine(t[i]) PROVE Apart(t[i].path, t[k].path)
    <3>1. i \in 1 .. n /\ i < k
      BY <1>2, <2>1
    <3>2. i # 2 * at(i) /\ t[i].path = path(at(i)) /\ at(i) \in Nat
      BY <1>10, <2>3, <3>1
    <3>3. at(i) < at(k)
      BY <1>4, <2>1, <2>2, <3>1, <3>2
    <3>. QED BY <1>9, <2>2, <3>2, <3>3
  <2>. QED BY <1>8, <2>2, <2>3
<1>. QED BY <1>11, <1>12 DEF t

\* What a command inserts is after it and before all that was after it.
LEMMA BufferInsert ==
  ASSUME NEW rest, NEW p, NEW n \in Nat, BufferInv(rest, p, n), NEW f \in Files,
         \A j \in 1 .. Len(rest) : IsLine(rest[j]) => Apart(p, rest[j].path)
  PROVE  BufferInv(Inserted(rest, f, p), p, n)
<1> DEFINE t == Text(f, p)  now == t \o rest  a == Len(t)  b == Len(rest)
<1>1. rest \in Seq(Tokens) /\ b \in Nat /\ p \in Paths /\ p[1] <= n
  BY BufferTypes
<1>2. /\ t \in Seq(Tokens)
      /\ \A k \in 1 .. a :
           IsLine(t[k]) =>
             /\ t[k].path \in Paths /\ t[k].path[1] = p[1]
             /\ LeadsTo(p, t[k].path)
             /\ \A q : Apart(p, q) => Apart(t[k].path, q)
             /\ \A i \in 1 .. k - 1 : IsLine(t[i]) => Apart(t[i].path, t[k].path)
  BY <1>1, TextIs, Zenon
<1>3. a \in Nat
  BY <1>2, LenProperties
<1>4. Inserted(rest, f, p) = IF a + b > MAX_CMD_BUFFER THEN rest ELSE now
  BY DEF Inserted
<1>5. CASE a + b > MAX_CMD_BUFFER
  BY <1>4, <1>5
<1>6. CASE ~(a + b > MAX_CMD_BUFFER)
  <2> HIDE DEF t
  <2>1. /\ now \in Seq(Tokens) /\ Len(now) = a + b
        /\ \A i \in 1 .. a + b : now[i] = IF i <= a THEN t[i] ELSE rest[i - a]
    BY <1>1, <1>2, ConcatProperties
  <2> HIDE DEF now
  <2>2. ASSUME NEW j \in 1 .. b, IsLine(rest[j])
        PROVE  /\ rest[j].path \in Paths /\ rest[j].path[1] <= n /\ Apart(p, rest[j].path)
               /\ \A i \in 1 .. j - 1 : IsLine(rest[i]) => Apart(rest[i].path, rest[j].path)
    BY <2>2 DEF BufferInv
  <2>6. \A j \in 1 .. b : IsLine(rest[j]) => Apart(p, rest[j].path)
    OBVIOUS
  <2> HIDE DEF a, b
  <2>3. ASSUME NEW j \in 1 .. a + b, IsLine(now[j])
        PROVE  /\ now[j].path \in Paths /\ now[j].path[1] <= n
               /\ Apart(p, now[j].path) \/ LeadsTo(p, now[j].path)
               /\ \A i \in 1 .. j - 1 : IsLine(now[i]) => Apart(now[i].path, now[j].path)
    <3>1. CASE j <= a
      <4>1. j \in 1 .. a /\ now[j] = t[j] /\ \A i \in 1 .. j - 1 : now[i] = t[i]
        BY <1>1, <1>3, <2>1, <3>1
      <4>. QED BY <1>1, <1>2, <2>3, <4>1
    <3>2. CASE ~(j <= a)
      <4> DEFINE k == j - a
      <4>1. k \in 1 .. b /\ now[j] = rest[k]
        BY <1>1, <1>3, <2>1, <3>2
      <4>2. ASSUME NEW i \in 1 .. j - 1, IsLine(now[i]) PROVE Apart(now[i].path, now[j].path)
        <5>1. CASE i <= a
          <6>1. i \in 1 .. a /\ now[i] = t[i]
            BY <1>1, <1>3, <2>1, <3>2, <5>1
          <6>2. Apart(p, now[j].path)
            BY <2>2, <2>3, <4>1
          <6>. QED BY <1>2, <4>2, <6>1, <6>2
        <5>2. CASE ~(i <= a)
          <6>1. i - a \in 1 .. k - 1 /\ now[i] = rest[i - a]
            BY <1>1, <1>3, <2>1, <3>2, <5>2
          <6> HIDE DEF k
          <6>. QED BY <2>2, <2>3, <4>1, <4>2, <6>1
        <5>. QED BY <5>1, <5>2
      <4> HIDE DEF k
      <4>. QED BY <2>2, <2>3, <4>1, <4>2
    <3>. QED BY <3>1, <3>2
  <2>4. Len(now) <= MAX_CMD_BUFFER
    BY <1>1, <1>3, <1>6, <2>1, Sizes DEF a, b
  <2>5. BufferInv(now, p, n)
    BY <1>1, <2>1, <2>3, <2>4 DEF BufferInv
  <2>. QED BY <1>4, <1>6, <2>5
<1>. QED BY <1>5, <1>6

LEMMA NextWaits ==
  ASSUME waited \in Nat
  PROVE  /\ FrameLater \in Nat /\ FrameLater <= waited
         /\ waited > 0 => FrameLater = waited - 1
         /\ NextStage \/ Return => waited' \in Nat
BY DEF FrameLater, NextStage, Return

LEMMA CommandsExecute ==
  ASSUME IInv, Cbuf_Execute
  PROVE  CommandsInv'
<1>1. /\ BufferInv(cmd_text, last.line, lines) /\ lines \in Nat /\ lines' = lines
      /\ lines \in 0 .. MaxLines /\ cmd_wait \in Nat /\ waited \in Nat /\ last.line \in Paths
  BY Sizes, BufferTypes DEF IInv, CommandsInv, Cbuf_Execute
<1>2. CASE cmd_text = <<>> \/ cmd_wait # 0
  <2>1. /\ Return /\ cmd_text' = cmd_text /\ last' = last
        /\ cmd_wait' = IF cmd_text = <<>> THEN cmd_wait ELSE cmd_wait - 1
    BY <1>2 DEF Cbuf_Execute
  <2>2. waited' \in Nat /\ cmd_wait' \in Nat
    BY <1>1, <1>2, <2>1, NextWaits
  <2>. QED BY <1>1, <2>1, <2>2 DEF CommandsInv
<1>3. CASE ~(cmd_text = <<>> \/ cmd_wait # 0)
  <2> DEFINE line == IF LineLength = 0 THEN NewLine ELSE cmd_text[1]
             m == LineLength  rest == Remaining(cmd_text, m)
  <2>1. m \in Nat
    BY <1>1, LineLengthIs
  <2>2. line.cmd \in LineKinds
    BY <1>3, LineIs DEF IInv, Tokens, NewLine, LineKinds
  <2>3. CASE line.cmd = "newline"
    <3>1. cmd_text' = rest /\ UNCHANGED <<cmd_wait, waited, last>>
      BY <1>3, <2>3 DEF Cbuf_Execute
    <3> HIDE DEF line, m
    <3>2. BufferInv(rest, last.line, lines)
      BY <1>1, <2>1, BufferRest
    <3>. QED BY <1>1, <3>1, <3>2 DEF CommandsInv
  <2>4. CASE line.cmd # "newline"
    <3>1. line = cmd_text[1] /\ IsLine(cmd_text[1])
      BY <2>4 DEF NewLine, IsLine
    <3> DEFINE p == cmd_text[1].path
    <3>2. p \in Paths /\ p[1] <= lines /\ (Apart(last.line, p) \/ LeadsTo(last.line, p))
      <4>1. 1 \in 1 .. Len(cmd_text)
        BY <1>3, LineIs DEF IInv
      <4>. QED BY <1>1, <3>1, <4>1 DEF BufferInv
    <3>3. p # last.line
      <4> SUFFICES ASSUME p = last.line PROVE FALSE
        OBVIOUS
      <4>1. ~LeadsTo(p, p)
        BY <3>2, PathIs DEF LeadsTo
      <4>2. ~Apart(p, p)
        BY <3>2, PathIs DEF Apart
      <4> HIDE DEF p
      <4>. QED BY <3>2, <4>1, <4>2
    <3>4. /\ \/ cmd_text' = rest
             \/ \E f \in Files : cmd_text' = Inserted(rest, f, p)
          /\ last' = [last EXCEPT !.line = p]
          /\ \/ waited' = waited /\ cmd_wait' = cmd_wait
             \/ cmd_wait' \in Waits /\ waited' = cmd_wait'
      <4>1. line.cmd \in {"any", "wait", "exec"} /\ line.path = p
        BY <2>2, <2>4, <3>1 DEF LineKinds
      <4>2. CASE line.cmd = "wait"
        BY <1>3, <4>1, <4>2 DEF Cbuf_Execute
      <4>3. CASE line.cmd = "exec"
        <5>1. /\ \E f \in Files : cmd_text' = Inserted(rest, f, line.path)
              /\ last' = [last EXCEPT !.line = line.path]
              /\ UNCHANGED <<cmd_wait, waited>>
          BY <1>3, <4>3 DEF Cbuf_Execute
        <5> HIDE DEF line, rest
        <5>. QED BY <4>1, <5>1
      <4>4. CASE line.cmd = "any"
        <5>1. /\ cmd_text' = rest
              /\ last' = [last EXCEPT !.line = line.path]
              /\ UNCHANGED <<cmd_wait, waited>>
          BY <1>3, <4>4 DEF Cbuf_Execute
        <5> HIDE DEF line, rest
        <5>. QED BY <4>1, <5>1
      <4>. QED BY <4>1, <4>2, <4>3, <4>4
    <3> HIDE DEF line, m, p
    <3>5. /\ BufferInv(rest, p, lines)
          /\ \A j \in 1 .. Len(rest) : IsLine(rest[j]) => Apart(p, rest[j].path)
      <4>1. cmd_text # <<>> /\ IsLine(cmd_text[1]) /\ p = cmd_text[1].path
        BY <1>3, <3>1 DEF p
      <4>. QED BY <1>1, <2>1, <3>2, <3>3, <4>1, BufferRest
    <3> HIDE DEF rest
    <3>6. BufferInv(cmd_text', p, lines)
      BY <1>1, <3>4, <3>5, BufferInsert
    <3>7. last'.line = p
      BY <3>4 DEF IInv, LastInv
    <3>8. cmd_wait' \in Nat /\ waited' \in Nat
      BY <1>1, <3>4, FrameAssumption
    <3>. QED BY <1>1, <3>6, <3>7, <3>8 DEF CommandsInv
  <2>. QED BY <2>3, <2>4
<1>. QED BY <1>2, <1>3

LEMMA CommandsNext ==
  ASSUME IInv, Next
  PROVE  CommandsInv'
<1>1. /\ BufferInv(cmd_text, last.line, lines) /\ lines \in Nat
      /\ lines \in 0 .. MaxLines /\ cmd_wait \in Nat /\ waited \in Nat
  BY Sizes DEF IInv, CommandsInv
<1>2. CASE Cbuf_Execute
  BY <1>2, CommandsExecute
<1>3. ASSUME NEW cmd \in {"any", "wait", "exec"}, NEW apart \in BOOLEAN, AddLine(cmd, apart),
             UNCHANGED <<cmd_wait, waited, last>>
      PROVE  CommandsInv'
  BY <1>1, <1>3, AddedLine DEF CommandsInv
<1>4. CASE ConsoleEvent \/ AddCommand \/ NestedExecute
  <2>1. "any" \in {"any", "wait", "exec"} /\ TRUE \in BOOLEAN /\ FALSE \in BOOLEAN
    OBVIOUS
  <2>. QED BY <1>3, <1>4, <2>1 DEF ConsoleEvent, AddCommand, NestedExecute
<1>5. ASSUME UNCHANGED <<cmd_text, cmd_wait, lines>>, last'.line = last.line, waited' \in Nat
      PROVE  CommandsInv'
  BY <1>1, <1>5 DEF CommandsInv
<1>6. CASE LoopEvent
  <2>1. UNCHANGED commands /\ (last' = last \/ \E v : last' = [last EXCEPT !.event = v])
    BY <1>6 DEF LoopEvent, Com_GetEvent
  <2>2. last'.line = last.line
    BY <2>1 DEF IInv, LastInv
  <2>. QED BY <1>1, <1>5, <2>1, <2>2 DEF commands
<1>7. CASE LoopPacket
  <2>1. PICK side \in Sides : NET_GetLoopPacket(side)
    BY <1>7 DEF LoopPacket
  <2>2. last' = last \/ \E v : last' = [last EXCEPT ![side] = v]
    BY <2>1 DEF NET_GetLoopPacket
  <2>3. last'.line = last.line
    BY <2>2 DEF IInv, LastInv, Sides
  <2>4. waited' = waited \/ Return
    BY <2>1 DEF NET_GetLoopPacket
  <2>. QED BY <1>1, <1>5, <1>7, <2>3, <2>4, NextWaits DEF LoopPacket
<1>8. CASE FrameEnds
  BY <1>1, <1>5, <1>8, NextWaits DEF FrameEnds
<1>9. CASE ErrorDrop
  BY <1>1, <1>5, <1>9, NextWaits DEF ErrorDrop
<1>10. CASE \/ HandlerEnds \/ AskTime \/ NestedEventLoop \/ \E p \in Pumped : Com_Milliseconds(p)
            \/ \E side \in Sides : NET_SendLoopPacket(side)
  BY <1>1, <1>5, <1>10 DEF HandlerEnds, AskTime, NestedEventLoop, Com_Milliseconds,
                           NET_SendLoopPacket, commands
<1>. QED BY <1>2, <1>4, <1>6, <1>7, <1>8, <1>9, <1>10 DEF Next

-----------------------------------------------------------------------------
(* The stages of a frame.                                                   *)

LEMMA StageKept ==
  ASSUME EventsInv, StageInv, stage' = stage, dedicated' = dedicated, drops' = drops,
         Len(stack') \in Nat, stack' = <<>> => stage \in {"SV_Frame", "CL_Frame"},
         stack' # <<>> => Len(stack') > 0,
         \A i \in 1 .. Len(stack') :
           \/ i \in 1 .. Len(stack) /\ stack'[i].fn = stack[i].fn
           \/ i > Len(stack) /\ (dedicated => stack'[i].fn = "Com_Milliseconds"),
         dedicated => waited' <= cmd_wait' + (IF stage = "SV_Frame" THEN 1 ELSE 0)
  PROVE  StageInv'
<1>1. Len(stack) \in Nat /\ (Len(stack) = 0 => stack = <<>>)
  BY TopIs, EmptySeq
<1>2. stage \notin {"SV_Frame", "CL_Frame"} => Len(stack') > 0 /\ Len(stack) > 0
  BY <1>1 DEF StageInv
<1>3. stage \notin {"SV_Frame", "CL_Frame"} => stack'[1].fn = stack[1].fn
  BY <1>1, <1>2
<1>4. ASSUME dedicated, NEW i \in 1 .. Len(stack'), i > 1 \/ stage = "SV_Frame"
      PROVE  stack'[i].fn = "Com_Milliseconds"
  BY <1>4 DEF StageInv
<1>. QED BY <1>3, <1>4 DEF StageInv

LEMMA StageMoves ==
  ASSUME StageInv, NextStage, dedicated' = dedicated, drops' = drops,
         dedicated => waited' <= cmd_wait' + (IF stage' = "SV_Frame" THEN 1 ELSE 0)
  PROVE  StageInv'
<1>1. /\ stage' \in Stages /\ stack' = Called(stage')
      /\ dedicated => stage' \in {"events", "execute", "SV_Frame"}
  BY DEF NextStage, Following, StageInv, Stages
<1>2. /\ stack' \in Seq(Activations) /\ Len(stack') \in {0, 1}
      /\ Len(stack') = 0 <=> stage' \in {"SV_Frame", "CL_Frame"}
      /\ \A i \in 1 .. Len(stack') :
           i = 1 /\ stack'[i].fn = IF stage' \in {"events", "eventsAgain"} THEN "Com_EventLoop"
                                   ELSE "Cbuf_Execute"
  BY <1>1, CalledIs
<1>3. stack' = <<>> => Len(stack') = 0
  BY EmptySeq
<1>. QED BY <1>1, <1>2, <1>3 DEF StageInv

\* The top's work changes, not what it is.
LEMMA StageSameTop ==
  ASSUME EventsInv, StageInv, stack # <<>>, stage' = stage, dedicated' = dedicated,
         drops' = drops, waited' = waited, cmd_wait' = cmd_wait,
         \/ Done \/ \E at \in {"events", "client", "server"} : Phase(at)
         \/ \E what \in {"event", "client", "server", "line"}, id \in Seq(Nat) : Begin(what, id)
  PROVE  StageInv'
<1>1. stack \in Seq(Activations) /\ Len(stack) \in Nat /\ Len(stack) > 0
  BY TopIs, EmptySeq
<1>2. ASSUME NEW d \in Doings, stack' = [stack EXCEPT ![Len(stack)].doing = d]
      PROVE  Len(stack') = Len(stack) /\ \A i \in 1 .. Len(stack) : stack'[i].fn = stack[i].fn
  BY <1>1, <1>2, TopChanged
<1>3. Nothing \in Doings
  BY EmptySeq DEF Nothing, Doings
<1>4. Len(stack') = Len(stack) /\ \A i \in 1 .. Len(stack) : stack'[i].fn = stack[i].fn
  <2>1. CASE Done
    BY <1>2, <1>3, <2>1 DEF Done
  <2>2. ASSUME NEW at \in {"events", "client", "server"}, Phase(at)
        PROVE  Len(stack') = Len(stack) /\ \A i \in 1 .. Len(stack) : stack'[i].fn = stack[i].fn
    <3>1. stack' = [stack EXCEPT ![Len(stack)].at = at]
      BY <2>2 DEF Phase
    <3>. QED BY <1>1, <3>1, PhaseChanged
  <2>3. ASSUME NEW what \in {"event", "client", "server", "line"}, NEW id \in Seq(Nat),
               Begin(what, id)
        PROVE  Len(stack') = Len(stack) /\ \A i \in 1 .. Len(stack) : stack'[i].fn = stack[i].fn
    <3> DEFINE d == [what |-> what, id |-> id]
    <3>1. d \in Doings
      BY DEF Doings
    <3>2. stack' = [stack EXCEPT ![Len(stack)].doing = d]
      BY <2>3 DEF Begin
    <3> HIDE DEF d
    <3>. QED BY <1>2, <3>1, <3>2
  <2>. QED BY <2>1, <2>2, <2>3
<1>5. stack' # <<>>
  <2>1. stack' = <<>> => Len(stack') = 0
    BY EmptySeq
  <2>. QED BY <1>1, <1>4, <2>1
<1>6. dedicated => waited' <= cmd_wait' + (IF stage = "SV_Frame" THEN 1 ELSE 0)
  BY DEF StageInv
<1>. QED BY <1>1, <1>4, <1>5, <1>6, StageKept

LEMMA StageFront ==
  ASSUME EventsInv, StageInv, stack # <<>>, Doing = Nothing, stack' = Front(stack),
         stage' = stage, dedicated' = dedicated, drops' = drops,
         Len(stack) > Len(Called(stage)) \/ Top.fn = "Com_Milliseconds",
         dedicated => waited' <= cmd_wait' + (IF stage = "SV_Frame" THEN 1 ELSE 0)
  PROVE  StageInv'
<1>1. stack \in Seq(Activations) /\ Len(stack) \in Nat /\ Len(stack) > 0
  BY TopIs, EmptySeq
<1>2. Len(stack') = Len(stack) - 1 /\ \A i \in 1 .. Len(stack) - 1 : stack'[i] = stack[i]
  <2>1. stack[Len(stack)].doing.what # "event"
    BY TopIs DEF Nothing
  <2>. QED BY <1>1, <2>1, QuietFront, TopIs
<1>3. stack' \in Seq(Activations)
  <2>1. Quiet(stack, stack')
    <3>1. stack[Len(stack)].doing.what # "event"
      BY TopIs DEF Nothing
    <3>. QED BY <1>1, <3>1, QuietFront, TopIs
  <2>. QED BY <2>1 DEF Quiet
<1>4. stack' # <<>> => Len(stack') > 0
  BY <1>3, EmptySeq, LenProperties
<1>5. stack' = <<>> => stage \in {"SV_Frame", "CL_Frame"}
  <2> SUFFICES ASSUME stack' = <<>>, stage \notin {"SV_Frame", "CL_Frame"} PROVE FALSE
    OBVIOUS
  <2>1. Len(stack) = 1
    BY <1>1, <1>2, EmptySeq
  <2>2. Len(Called(stage)) = 1
    BY CalledIs DEF StageInv
  <2>3. Top.fn = "Com_Milliseconds"
    BY <2>1, <2>2
  <2>4. stack[1].fn = "Com_Milliseconds"
    BY <2>1, <2>3, TopIs
  <2>. QED BY <2>4 DEF StageInv, Stages
<1>6. Len(stack') \in Nat /\ \A i \in 1 .. Len(stack') : i \in 1 .. Len(stack) /\ stack'[i].fn = stack[i].fn
  BY <1>1, <1>2
<1>. QED BY <1>4, <1>5, <1>6, StageKept

\* On a dedicated server nothing but Com_Milliseconds is called from inside.
LEMMA TopOfDedicated ==
  ASSUME EventsInv, StageInv, stack # <<>>, dedicated, Top.fn # "Com_Milliseconds"
  PROVE  /\ stage = IF Top.fn = "Com_EventLoop" THEN "events" ELSE "execute"
         /\ ~(Len(stack) > Len(Called(stage)))
<1>1. Len(stack) \in 1 .. Len(stack) /\ Top = stack[Len(stack)] /\ Top \in Activations
  BY TopIs
<1>2. Len(stack) = 1 /\ stage # "SV_Frame"
  <2> DEFINE n == Len(stack)
  <2>1. n \in 1 .. n /\ n \in Nat /\ stack[n].fn # "Com_Milliseconds"
    BY <1>1, TopIs
  <2>2. \A i \in 1 .. n : i > 1 \/ stage = "SV_Frame" => stack[i].fn = "Com_Milliseconds"
    BY DEF StageInv
  <2> HIDE DEF n
  <2>3. n = 1 /\ stage # "SV_Frame"
    BY <2>1, <2>2
  <2>. QED BY <2>3 DEF n
<1>3. Top = stack[1]
  BY <1>1, <1>2
<1>4. stage \in {"events", "execute"}
  BY <1>2 DEF StageInv
<1>5. Len(Called(stage)) = 1
  BY <1>4, CalledIs DEF StageInv
<1>6. stage = IF Top.fn = "Com_EventLoop" THEN "events" ELSE "execute"
  BY <1>3, <1>4 DEF StageInv
<1>. QED BY <1>2, <1>5, <1>6

LEMMA StageCalls ==
  ASSUME EventsInv, StageInv, NEW fn \in Functions, Calls(fn), UNCHANGED <<dedicated, stage, drops>>,
         waited' = waited, cmd_wait' = cmd_wait, dedicated => fn = "Com_Milliseconds"
  PROVE  StageInv'
<1>1. stack \in Seq(Activations) /\ Len(stack) \in Nat
  BY TopIs
<1>2. /\ Len(stack') = Len(stack) + 1 /\ stack'[Len(stack) + 1].fn = fn
      /\ \A i \in 1 .. Len(stack) : stack'[i] = stack[i]
  BY <1>1, QuietCall DEF Calls
<1>3. stack' # <<>>
  <2>1. stack' = <<>> => Len(stack') = 0
    BY EmptySeq
  <2>. QED BY <1>1, <1>2, <2>1
<1>4. \A i \in 1 .. Len(stack') :
        \/ i \in 1 .. Len(stack) /\ stack'[i].fn = stack[i].fn
        \/ i > Len(stack) /\ (dedicated => stack'[i].fn = "Com_Milliseconds")
  BY <1>1, <1>2
<1>5. Len(stack') \in Nat /\ Len(stack') > 0
  BY <1>1, <1>2
<1>6. dedicated => waited' <= cmd_wait' + (IF stage = "SV_Frame" THEN 1 ELSE 0)
  BY DEF StageInv
<1>. QED BY <1>3, <1>4, <1>5, <1>6, StageKept

LEMMA StageSame ==
  ASSUME EventsInv, StageInv, UNCHANGED <<dedicated, stage, drops, stack>>,
         dedicated => waited' <= cmd_wait' + (IF stage = "SV_Frame" THEN 1 ELSE 0)
  PROVE  StageInv'
BY DEF StageInv

LEMMA WaitsLonger ==
  ASSUME NEW a \in Nat, NEW b \in Nat, a <= b, NEW s
  PROVE  a <= b + (IF s = "SV_Frame" THEN 1 ELSE 0)
<1>1. CASE s = "SV_Frame"
  BY <1>1
<1>2. CASE s # "SV_Frame"
  BY <1>2
<1>. QED BY <1>1, <1>2

LEMMA StageLoopPacket ==
  ASSUME IInv, LoopPacket
  PROVE  StageInv'
<1>1. /\ EventsInv /\ StageInv /\ stack # <<>> /\ Doing = Nothing /\ Top.fn = "Com_EventLoop"
      /\ UNCHANGED <<dedicated, drops, cmd_wait>>
  BY DEF IInv, LoopPacket, In, Doing
<1>2. PICK side \in Sides : NET_GetLoopPacket(side)
  BY DEF LoopPacket
<1> DEFINE r == Skipped(loopbacks[side])  x == Slot(r, r.tail)
<1>3. CASE r.tail < r.head
  <2>1. Begin(side, <<x>>) /\ UNCHANGED <<stage, waited>>
    BY <1>2, <1>3 DEF NET_GetLoopPacket
  <2>2. <<x>> \in Seq(Nat)
    <3>1. x \in Nat
      BY <1>3, PacketTaken DEF IInv, PacketsInv
    <3> HIDE DEF x
    <3>. QED BY <3>1
  <2> HIDE DEF x
  <2>3. side \in {"event", "client", "server", "line"}
    BY DEF Sides
  <2>. QED BY <1>1, <2>1, <2>2, <2>3, StageSameTop
<1>4. CASE ~(r.tail < r.head)
  <2>1. CASE side = "client"
    <3>1. Phase("server") /\ UNCHANGED <<stage, waited>>
      BY <1>2, <1>4, <2>1 DEF NET_GetLoopPacket
    <3>. QED BY <1>1, <3>1, StageSameTop
  <2>2. CASE side # "client"
    <3>1. Return
      BY <1>2, <1>4, <2>2 DEF NET_GetLoopPacket
    <3>2. CASE Len(stack) > Len(Called(stage))
      <4>1. stack' = Front(stack) /\ stage' = stage /\ waited' = waited
        BY <3>1, <3>2 DEF Return
      <4>2. dedicated => waited' <= cmd_wait' + (IF stage = "SV_Frame" THEN 1 ELSE 0)
        BY <1>1, <4>1 DEF StageInv
      <4>. QED BY <1>1, <3>2, <4>1, <4>2, StageFront
    <3>3. CASE ~(Len(stack) > Len(Called(stage)))
      <4>1. NextStage
        BY <3>1, <3>3 DEF Return
      <4>2. dedicated => stage = "events"
        BY <1>1, TopOfDedicated
      <4>3. stage = "events" => waited' = waited
        BY <4>1 DEF NextStage
      <4>4. ASSUME dedicated
            PROVE  waited' <= cmd_wait' + (IF stage' = "SV_Frame" THEN 1 ELSE 0)
        <5>1. waited' <= cmd_wait' /\ cmd_wait' \in Nat /\ waited' \in Nat
          BY <1>1, <4>2, <4>3, <4>4 DEF StageInv, IInv, CommandsInv
        <5>. QED BY <5>1, WaitsLonger
      <4>. QED BY <1>1, <4>1, <4>4, StageMoves
    <3>. QED BY <3>2, <3>3
  <2>. QED BY <2>1, <2>2
<1>. QED BY <1>3, <1>4

LEMMA StageExecute ==
  ASSUME IInv, Cbuf_Execute
  PROVE  StageInv'
<1>1. /\ EventsInv /\ StageInv /\ stack # <<>> /\ Doing = Nothing /\ Top.fn = "Cbuf_Execute"
      /\ UNCHANGED <<dedicated, drops>> /\ cmd_wait \in Nat /\ waited \in Nat
  BY DEF IInv, CommandsInv, Cbuf_Execute, In, Doing
<1>2. dedicated => stage = "execute" /\ ~(Len(stack) > Len(Called(stage)))
  BY <1>1, TopOfDedicated
<1>3. CASE cmd_text = <<>> \/ cmd_wait # 0
  <2>1. Return /\ cmd_wait' = IF cmd_text = <<>> THEN cmd_wait ELSE cmd_wait - 1
    BY <1>3 DEF Cbuf_Execute
  <2>2. CASE Len(stack) > Len(Called(stage))
    <3>1. stack' = Front(stack) /\ stage' = stage
      BY <2>1, <2>2 DEF Return
    <3>2. ~dedicated
      BY <1>2, <2>2
    <3>. QED BY <1>1, <2>2, <3>1, <3>2, StageFront
  <2>3. CASE ~(Len(stack) > Len(Called(stage)))
    <3>1. NextStage
      BY <2>1, <2>3 DEF Return
    <3>2. ASSUME dedicated
          PROVE  waited' <= cmd_wait' + (IF stage' = "SV_Frame" THEN 1 ELSE 0)
      <4>1. stage' = "SV_Frame" /\ waited' = waited
        BY <1>2, <3>1, <3>2 DEF NextStage, Following
      <4>2. waited <= cmd_wait
        BY <1>1, <1>2, <3>2 DEF StageInv
      <4>3. cmd_wait <= cmd_wait' + 1
        BY <1>1, <2>1
      <4>. QED BY <1>1, <1>3, <2>1, <4>1, <4>2, <4>3
    <3>. QED BY <1>1, <3>1, <3>2, StageMoves
  <2>. QED BY <2>2, <2>3
<1>4. CASE ~(cmd_text = <<>> \/ cmd_wait # 0)
  <2> DEFINE line == IF LineLength = 0 THEN NewLine ELSE cmd_text[1]
  <2>1. line.cmd \in LineKinds
    BY <1>4, LineIs DEF IInv, Tokens, NewLine, LineKinds
  <2>2. line.path \in Seq(Nat)
    BY <1>4, LineIs, EmptySeq DEF IInv, NewLine
  <2>3. /\ stage' = stage
        /\ \/ stack' = stack /\ waited' = waited /\ cmd_wait' = cmd_wait
           \/ stack' = stack /\ cmd_wait' \in Waits /\ waited' = cmd_wait'
           \/ Begin("line", line.path) /\ waited' = waited /\ cmd_wait' = cmd_wait
    BY <1>4, <2>1 DEF Cbuf_Execute, LineKinds
  <2> HIDE DEF line
  <2>4. CASE Begin("line", line.path) /\ waited' = waited /\ cmd_wait' = cmd_wait
    BY <1>1, <2>2, <2>3, <2>4, StageSameTop
  <2>5. CASE stack' = stack /\ waited' = waited /\ cmd_wait' = cmd_wait
    <3>1. dedicated => waited' <= cmd_wait' + (IF stage = "SV_Frame" THEN 1 ELSE 0)
      BY <1>1, <2>5 DEF StageInv
    <3>. QED BY <1>1, <2>3, <2>5, <3>1, StageSame
  <2>6. CASE stack' = stack /\ cmd_wait' \in Waits /\ waited' = cmd_wait'
    <3>1. waited' <= cmd_wait' + (IF stage = "SV_Frame" THEN 1 ELSE 0)
      <4>1. waited' \in Nat /\ cmd_wait' \in Nat /\ waited' <= cmd_wait'
        BY <2>6, FrameAssumption
      <4>. QED BY <4>1, WaitsLonger
    <3>. QED BY <1>1, <2>3, <2>6, <3>1, StageSame
  <2>. QED BY <2>3, <2>4, <2>5, <2>6
<1>. QED BY <1>3, <1>4

LEMMA StageNext ==
  ASSUME IInv, Next
  PROVE  StageInv'
<1>1. EventsInv /\ StageInv /\ cmd_wait \in Nat /\ waited \in Nat
      /\ (dedicated => waited <= cmd_wait + (IF stage = "SV_Frame" THEN 1 ELSE 0))
  BY DEF IInv, CommandsInv, StageInv
<1>2. CASE LoopPacket
  BY <1>2, StageLoopPacket
<1>3. CASE Cbuf_Execute
  BY <1>3, StageExecute
<1>4. CASE LoopEvent
  <2>1. stack # <<>> /\ UNCHANGED <<dedicated, stage, drops, cmd_wait, waited>>
    BY <1>4 DEF LoopEvent, In, commands
  <2>2. Phase("client") \/ \E x : Begin("event", <<x>>) /\ last' = [last EXCEPT !.event = <<x>>]
    BY <1>4, Zenon DEF LoopEvent, Com_GetEvent
  <2>3. ASSUME NEW x, Begin("event", <<x>>), last' = [last EXCEPT !.event = <<x>>]
        PROVE  StageInv'
    <3>1. last'.event = <<x>>
      BY <2>3 DEF IInv, LastInv
    <3>2. last'.event \in Seq(Nat)
      BY <1>4, LastNext DEF LastInv, Next
    <3>. QED BY <1>1, <2>1, <2>3, <3>1, <3>2, StageSameTop
  <2>4. CASE Phase("client")
    BY <1>1, <2>1, <2>4, StageSameTop
  <2>. QED BY <2>2, <2>3, <2>4
<1>5. CASE ConsoleEvent \/ HandlerEnds
  <2>1. Doing # Nothing /\ Done /\ UNCHANGED <<dedicated, stage, drops, cmd_wait, waited>>
    <3>1. ConsoleEvent => Doing # Nothing
      BY DEF ConsoleEvent, Nothing
    <3>. QED BY <1>5, <3>1 DEF ConsoleEvent, HandlerEnds, commands
  <2>2. stack # <<>>
    BY <1>1, <2>1, TopIs
  <2>. QED BY <1>1, <2>1, <2>2, StageSameTop
<1>6. CASE FrameEnds
  <2>1. stack = <<>> /\ NextStage /\ UNCHANGED <<dedicated, drops, cmd_wait>>
    BY <1>6 DEF FrameEnds
  <2>2. ASSUME dedicated
        PROVE  waited' <= cmd_wait' + (IF stage' = "SV_Frame" THEN 1 ELSE 0)
    <3>1. stage = "SV_Frame"
      BY <1>1, <2>1, <2>2 DEF StageInv
    <3>2. stage' = "events" /\ waited' = FrameLater
      BY <2>1, <2>2, <3>1 DEF NextStage, Following
    <3>3. waited <= cmd_wait + 1
      BY <1>1, <2>2, <3>1
    <3>4. FrameLater <= cmd_wait
      BY <1>1, <3>3 DEF FrameLater
    <3>5. waited' \in Nat /\ cmd_wait' \in Nat /\ waited' <= cmd_wait'
      BY <1>1, <2>1, <3>2, <3>4, NextWaits
    <3>. QED BY <3>5, WaitsLonger
  <2>. QED BY <1>1, <2>1, <2>2, StageMoves
<1>7. CASE AddCommand \/ \E side \in Sides : NET_SendLoopPacket(side)
  <2>1. UNCHANGED <<dedicated, stage, drops, stack, cmd_wait, waited>>
    BY <1>7 DEF AddCommand, NET_SendLoopPacket, commands
  <2>. QED BY <1>1, <2>1, StageSame
<1>8. CASE AskTime
  <2>1. Calls("Com_Milliseconds") /\ UNCHANGED <<dedicated, stage, drops, cmd_wait, waited>>
    BY <1>8 DEF AskTime, commands
  <2>. QED BY <1>1, <2>1, StageCalls DEF Functions
<1>9. CASE NestedEventLoop \/ NestedExecute
  <2>1. /\ Calls("Com_EventLoop") \/ Calls("Cbuf_Execute")
        /\ ~dedicated /\ UNCHANGED <<dedicated, stage, drops, cmd_wait, waited>>
    BY <1>9 DEF NestedEventLoop, NestedExecute, commands
  <2>. QED BY <1>1, <2>1, StageCalls DEF Functions
<1>10. ASSUME NEW p \in Pumped, Com_Milliseconds(p) PROVE StageInv'
  <2>1. /\ stack # <<>> /\ Doing = Nothing /\ Top.fn = "Com_Milliseconds"
        /\ UNCHANGED <<dedicated, stage, drops, cmd_wait, waited>>
        /\ stack' = stack \/ stack' = Front(stack)
    BY <1>10 DEF Com_Milliseconds, In, Doing, commands
  <2>2. CASE stack' = stack
    BY <1>1, <2>1, <2>2, StageSame
  <2>3. CASE stack' = Front(stack)
    BY <1>1, <2>1, <2>3, StageFront
  <2>. QED BY <2>1, <2>2, <2>3
<1>11. CASE ErrorDrop
  <2>1. /\ stage' = "events" /\ stack' = Called("events") /\ waited' = FrameLater
        /\ dedicated' = dedicated /\ cmd_wait' = cmd_wait /\ drops < MaxDrops /\ drops' = drops + 1
    BY <1>11 DEF ErrorDrop
  <2>2. /\ stack' \in Seq(Activations) /\ Len(stack') = 1
        /\ stack'[1].fn = "Com_EventLoop" /\ stack' # <<>>
    <3>1. /\ Len(stack') = 1 /\ stack' \in Seq(Activations)
          /\ \A i \in 1 .. Len(stack') : stack'[i].fn = "Com_EventLoop"
      <4>1. Len(stack') \in {0, 1} /\ Len(stack') # 0
        BY <2>1, CalledIs DEF Stages
      <4>. QED BY <2>1, <4>1, CalledIs DEF Stages
    <3>2. 1 \in 1 .. Len(stack')
      BY <3>1
    <3>. QED BY <3>1, <3>2, EmptySeq
  <2>3. dedicated => waited' <= cmd_wait'
    BY <1>1, <2>1 DEF FrameLater
  <2>4. drops' \in 0 .. MaxDrops
    BY <1>1, <2>1, Sizes DEF StageInv
  <2>5. \A i \in 1 .. Len(stack') : ~(i > 1)
    BY <2>2
  <2>6. cmd_wait' + 0 = cmd_wait'
    BY <1>1, <2>1
  <2>. QED BY <1>1, <2>1, <2>2, <2>3, <2>4, <2>5, <2>6 DEF StageInv, Stages
<1>. QED BY <1>2, <1>3, <1>4, <1>5, <1>6, <1>7, <1>8, <1>9, <1>10, <1>11 DEF Next

-----------------------------------------------------------------------------
(* The invariant.                                                           *)

LEMMA EmptyIs ==
  ASSUME NEW size \in Nat \ {0}
  PROVE  LET r == EmptyRing(size) IN
         /\ r \in Rings(size) /\ r.head = 0 /\ r.tail = 0
         /\ \A i \in 0 .. size - 1 : r.slots[i] = 0
BY DEF EmptyRing, Rings

LEMMA InitInv ==
  ASSUME Init
  PROVE  IInv
<1>1. EventsInv
  <2>1. kinds = <<>> /\ frees = <<>> /\ lost = {} /\ Len(kinds) = 0 /\ last.event = <<0>>
    BY DEF Init
  <2>2. /\ eventQue \in Rings(MAX_QUED_EVENTS) /\ eventQue.head = 0 /\ eventQue.tail = 0
        /\ \A i \in 0 .. MAX_QUED_EVENTS - 1 : eventQue.slots[i] = 0
    BY EmptyIs, Sizes DEF Init
  <2>3. /\ com_pushedEvents \in Rings(MAX_PUSHED_EVENTS)
        /\ com_pushedEvents.head = 0 /\ com_pushedEvents.tail = 0
        /\ \A i \in 0 .. MAX_PUSHED_EVENTS - 1 : com_pushedEvents.slots[i] = 0
    BY EmptyIs, Sizes DEF Init
  <2>4. 0 .. 0 - 1 = {}
    OBVIOUS
  <2>5. EventRing(eventQue, MAX_QUED_EVENTS, 0, 0)
    BY <2>2, <2>4, Sizes DEF EventRing
  <2>6. EventRing(com_pushedEvents, MAX_PUSHED_EVENTS, 0, 0)
    BY <2>3, <2>4, Sizes DEF EventRing
  <2>7. RingsApart(com_pushedEvents, eventQue)
    BY <2>2, <2>3, <2>4 DEF RingsApart
  <2>8. StackInv(stack, lost, 0)
    <3>1. /\ stack \in Seq(Activations) /\ Len(stack) \in {0, 1}
          /\ \A i \in 1 .. Len(stack) : stack[i].doing = Nothing
      BY CalledIs DEF Init, Stages
    <3>2. Len(stack) <= MaxNested
      BY <3>1, Sizes
    <3>. QED BY <2>1, <3>1, <3>2 DEF StackInv, Nothing
  <2>9. FreedOnce(kinds, frees, StillHas(com_pushedEvents, eventQue, stack, lost))
    <3>1. kinds \in Seq(EventKinds) /\ frees \in Seq(Nat) /\ Len(frees) = Len(kinds)
      BY <2>1, EmptySeq
    <3>. QED BY <2>1, <3>1 DEF FreedOnce
  <2>10. 0 \in 0 .. Len(kinds) /\ Len(kinds) <= MaxEvents
    BY <2>1, Sizes
  <2>. QED BY <2>1, <2>5, <2>6, <2>7, <2>8, <2>9, <2>10 DEF EventsInv, RingsInv
<1>2. PacketsInv /\ RingsOfSides
  <2>1. \A s \in Sides : loopbacks[s] = EmptyRing(MAX_LOOPBACK) /\ last[s] = <<0>>
    BY DEF Init, Sides
  <2> DEFINE r == EmptyRing(MAX_LOOPBACK)
  <2>2. /\ r \in Rings(MAX_LOOPBACK) /\ r.head = 0 /\ r.tail = 0
        /\ \A i \in 0 .. MAX_LOOPBACK - 1 : r.slots[i] = 0
    BY EmptyIs, Sizes
  <2> HIDE DEF r
  <2>3. PacketRing(r, <<0>>)
    <3>1. 0 .. 0 - 1 = {} /\ 0 \in 0 .. 0
      OBVIOUS
    <3>. QED BY <2>2, <3>1, Sizes DEF PacketRing
  <2>4. loopbacks \in [Sides -> Rings(MAX_LOOPBACK)]
    BY <2>2 DEF Init, r
  <2>5. loopbacks["client"].head = 0 /\ loopbacks["server"].head = 0
    BY <2>1, <2>2 DEF Sides, r
  <2>. QED BY <2>1, <2>3, <2>4, <2>5, Sizes DEF PacketsInv, RingsOfSides, r
<1>3. CommandsInv
  <2>1. cmd_text = <<>> /\ last.line = <<0>> /\ lines = 0 /\ cmd_wait = 0 /\ waited = 0
    BY DEF Init
  <2> DEFINE p == <<0>>
  <2>2. p \in Seq(Nat) /\ Len(p) > 0 /\ p[1] = 0
    OBVIOUS
  <2> HIDE DEF p
  <2>3. p \in Paths
    BY <2>2, Zenon DEF Paths
  <2>4. cmd_text \in Seq(Tokens) /\ Len(cmd_text) = 0
    BY <2>1, EmptySeq
  <2>5. Len(cmd_text) <= MAX_CMD_BUFFER
    BY <2>4, Sizes
  <2>6. BufferInv(cmd_text, p, 0)
    BY <2>2, <2>3, <2>4, <2>5 DEF BufferInv
  <2>. QED BY <2>1, <2>6, Sizes DEF CommandsInv, p
<1>4. StageInv
  <2>1. /\ dedicated \in BOOLEAN /\ stage = "events" /\ stack = Called("events") /\ drops = 0
        /\ cmd_wait = 0 /\ waited = 0
    BY DEF Init
  <2>2. /\ Len(stack) = 1 /\ stack[1].fn = "Com_EventLoop" /\ stack # <<>>
    <3>1. /\ Len(stack) = 1 /\ \A i \in 1 .. Len(stack) : stack[i].fn = "Com_EventLoop"
      <4>1. Len(stack) \in {0, 1} /\ Len(stack) # 0
        BY <2>1, CalledIs DEF Stages
      <4>. QED BY <2>1, <4>1, CalledIs DEF Stages
    <3>2. 1 \in 1 .. Len(stack)
      BY <3>1
    <3>. QED BY <3>1, <3>2, EmptySeq
  <2>3. \A i \in 1 .. Len(stack) : ~(i > 1)
    BY <2>2
  <2>. QED BY <2>1, <2>2, <2>3, Sizes DEF StageInv, Stages
<1>5. LastInv
  <2>1. <<0>> \in Seq(Nat)
    OBVIOUS
  <2>. QED BY <2>1 DEF Init, LastInv
<1>. QED BY <1>1, <1>2, <1>3, <1>4, <1>5 DEF IInv

LEMMA NextInv ==
  ASSUME IInv, [Next]_vars
  PROVE  IInv'
<1>1. CASE Next
  BY <1>1, EventsNext, LastNext, CommandsNext, StageNext DEF IInv
<1>2. CASE UNCHANGED vars
  BY <1>2 DEF vars, events, commands, IInv, EventsInv, PacketsInv, CommandsInv, StageInv,
              LastInv, RingsOfSides
<1>. QED BY <1>1, <1>2

\* The inductive invariant.
THEOREM Invariance == Spec => []IInv
<1>. QED BY InitInv, NextInv, PTL DEF Spec

-----------------------------------------------------------------------------
(* What follows.                                                            *)

LEMMA WaitingIs ==
  ASSUME NEW size \in Nat \ {0}, NEW r \in Rings(size), r.tail <= r.head
  PROVE  /\ Waiting(r) \in Seq(Nat) /\ Len(Waiting(r)) = r.head - r.tail
         /\ \A i \in 1 .. r.head - r.tail :
              /\ r.tail + i - 1 \in r.tail .. r.head - 1
              /\ Waiting(r)[i] = r.slots[Place(r.tail + i - 1, size)]
         /\ \A n \in Nat : (\E i \in 1 .. Len(Waiting(r)) : Waiting(r)[i] = n) <=> Holds(r, size, n)
<1> DEFINE w == Waiting(r)  n == r.head - r.tail
<1>1. r.head \in Nat /\ r.tail \in Nat /\ n \in Nat
  BY DEF Rings
<1>2. w = [i \in 1 .. n |-> Slot(r, r.tail + i - 1)]
  BY DEF Waiting
<1> HIDE DEF w
<1>3. ASSUME NEW i \in 1 .. n
      PROVE  /\ r.tail + i - 1 \in r.tail .. r.head - 1
             /\ w[i] = r.slots[Place(r.tail + i - 1, size)] /\ w[i] \in Nat
  <2>1. r.tail + i - 1 \in r.tail .. r.head - 1 /\ r.tail + i - 1 \in Nat
    BY <1>1
  <2>2. w[i] = Slot(r, r.tail + i - 1)
    BY <1>2
  <2> DEFINE k == r.tail + i - 1
  <2> HIDE DEF k
  <2>3. k \in Nat /\ w[i] = Slot(r, k)
    BY <2>1, <2>2 DEF k
  <2>4. Slot(r, k) = r.slots[Place(k, size)] /\ Slot(r, k) \in Nat
    BY <2>3, SlotIs
  <2>. QED BY <2>1, <2>3, <2>4 DEF k
<1>4. w \in Seq(Nat) /\ Len(w) = n
  <2>1. w \in [1 .. n -> Nat]
    BY <1>2, <1>3
  <2>2. w \in Seq(Nat)
    <3>1. w \in UNION {[1 .. k -> Nat] : k \in Nat}
      BY <1>1, <2>1, Zenon
    <3>. QED BY <3>1, SeqDef, Zenon
  <2>3. Len(w) \in Nat /\ DOMAIN w = 1 .. Len(w) /\ DOMAIN w = 1 .. n
    BY <1>2, <2>2, LenProperties
  <2>. QED BY <1>1, <2>2, <2>3
<1>5. ASSUME NEW m \in Nat PROVE (\E i \in 1 .. Len(w) : w[i] = m) <=> Holds(r, size, m)
  <2>1. ASSUME NEW i \in 1 .. Len(w), w[i] = m PROVE Holds(r, size, m)
    BY <1>3, <1>4, <2>1 DEF Holds
  <2>2. ASSUME Holds(r, size, m) PROVE \E i \in 1 .. Len(w) : w[i] = m
    <3>1. PICK j \in r.tail .. r.head - 1 : r.slots[Place(j, size)] = m
      BY <2>2 DEF Holds
    <3> DEFINE i == j - r.tail + 1
    <3>2. i \in 1 .. n /\ r.tail + i - 1 = j
      BY <1>1
    <3> HIDE DEF i, n
    <3>3. w[i] = m
      BY <1>3, <3>1, <3>2
    <3>. QED BY <1>4, <3>2, <3>3
  <2>. QED BY <2>1, <2>2
<1>. QED BY <1>3, <1>4, <1>5 DEF w

LEMMA JoinedIs ==
  ASSUME NEW v \in Seq(Nat), NEW w \in Seq(Nat)
  PROVE  /\ v \o w \in Seq(Nat) /\ Len(v \o w) = Len(v) + Len(w)
         /\ \A i \in 1 .. Len(v) + Len(w) :
              (v \o w)[i] = IF i <= Len(v) THEN v[i] ELSE w[i - Len(v)]
BY ConcatProperties

\* The events that wait, as a sequence.
LEMMA WaitingEventsAre ==
  ASSUME EventsInv, NEW e \in Nat, RingsInv(com_pushedEvents, eventQue, e, Len(kinds))
  PROVE  /\ Rises(WaitingEvents, <<e>>)
         /\ \A n \in Nat : (\E i \in 1 .. Len(WaitingEvents) : WaitingEvents[i] = n)
                             <=> IsWaiting(com_pushedEvents, eventQue, n)
<1> DEFINE r == com_pushedEvents  q == eventQue  v == Waiting(r)  w == Waiting(q)
           a == r.head - r.tail  b == q.head - q.tail
           s == v \o w
           P(i) == r.slots[Place(i, MAX_PUSHED_EVENTS)]
           Q(i) == q.slots[Place(i, MAX_QUED_EVENTS)]
<1>1. Len(kinds) \in Nat
  <2>1. kinds \in Seq(EventKinds)
    BY DEF EventsInv, FreedOnce
  <2>. QED BY <2>1, LenProperties
<1>2. /\ EventRing(r, MAX_PUSHED_EVENTS, e, Len(kinds))
      /\ EventRing(q, MAX_QUED_EVENTS, e, Len(kinds)) /\ RingsApart(r, q)
  BY DEF RingsInv
<1>3. /\ r \in Rings(MAX_PUSHED_EVENTS) /\ r.head \in Nat /\ r.tail \in Nat /\ r.tail <= r.head
      /\ q \in Rings(MAX_QUED_EVENTS) /\ q.head \in Nat /\ q.tail \in Nat /\ q.tail <= q.head
      /\ \A i \in r.tail .. r.head - 1 : P(i) \in Nat /\ e < P(i)
      /\ \A i \in q.tail .. q.head - 1 : Q(i) \in Nat /\ e < Q(i)
  BY <1>1, <1>2, Sizes, RingValues
<1>4. /\ \A i, j \in r.tail .. r.head - 1 : i < j => P(i) < P(j)
      /\ \A i, j \in q.tail .. q.head - 1 : i < j => Q(i) < Q(j)
      /\ \A i \in r.tail .. r.head - 1, j \in q.tail .. q.head - 1 : P(i) < Q(j)
  BY <1>2 DEF EventRing, RingsApart
<1>5. /\ v \in Seq(Nat) /\ Len(v) = a
      /\ \A i \in 1 .. a : r.tail + i - 1 \in r.tail .. r.head - 1 /\ v[i] = P(r.tail + i - 1)
      /\ \A n \in Nat : (\E i \in 1 .. Len(v) : v[i] = n) <=> Holds(r, MAX_PUSHED_EVENTS, n)
  BY <1>3, Sizes, WaitingIs
<1>6. /\ w \in Seq(Nat) /\ Len(w) = b
      /\ \A i \in 1 .. b : q.tail + i - 1 \in q.tail .. q.head - 1 /\ w[i] = Q(q.tail + i - 1)
      /\ \A n \in Nat : (\E i \in 1 .. Len(w) : w[i] = n) <=> Holds(q, MAX_QUED_EVENTS, n)
  BY <1>3, Sizes, WaitingIs
<1>7. a \in Nat /\ b \in Nat
  BY <1>3
<1>8. /\ s \in Seq(Nat) /\ Len(s) = a + b
      /\ \A i \in 1 .. a + b : s[i] = IF i <= a THEN v[i] ELSE w[i - a]
  <2> HIDE DEF v, w, a, b
  <2>1. /\ s \in Seq(Nat) /\ Len(s) = Len(v) + Len(w)
        /\ \A i \in 1 .. Len(v) + Len(w) : s[i] = IF i <= Len(v) THEN v[i] ELSE w[i - Len(v)]
    BY <1>5, <1>6, JoinedIs
  <2>. QED BY <1>5, <1>6, <2>1
<1> HIDE DEF P, Q, v, w, s
<1>9. ASSUME NEW i \in 1 .. a + b
      PROVE  s[i] > (IF i = 1 THEN <<e>>[1] ELSE s[i - 1])
  <2>1. ASSUME i <= a
        PROVE  /\ s[i] = P(r.tail + i - 1) /\ r.tail + i - 1 \in r.tail .. r.head - 1
               /\ s[i] \in Nat /\ e < s[i]
    <3>1. i \in 1 .. a
      BY <1>7, <2>1
    <3>. QED BY <1>3, <1>5, <1>8, <2>1, <3>1
  <2>2. ASSUME ~(i <= a)
        PROVE  /\ s[i] = Q(q.tail + (i - a) - 1) /\ q.tail + (i - a) - 1 \in q.tail .. q.head - 1
               /\ s[i] \in Nat /\ e < s[i]
    <3>1. i - a \in 1 .. b
      BY <1>7, <2>2
    <3> DEFINE k == i - a
    <3>2. k \in 1 .. b /\ s[i] = w[k]
      BY <1>8, <2>2, <3>1
    <3> HIDE DEF k
    <3>3. s[i] = Q(q.tail + k - 1) /\ q.tail + k - 1 \in q.tail .. q.head - 1
      BY <1>6, <3>2
    <3>4. s[i] \in Nat /\ e < s[i]
      BY <1>3, <3>3
    <3>. QED BY <3>3, <3>4 DEF k
  <2>3. CASE i = 1
    <3>1. e < s[i] /\ s[i] \in Nat
      BY <2>1, <2>2
    <3>2. <<e>>[1] = e
      OBVIOUS
    <3>. QED BY <2>3, <3>1, <3>2
  <2>4. CASE i # 1
    <3> DEFINE j == i - 1
    <3>1. j \in 1 .. a + b /\ i = j + 1
      BY <1>7, <2>4
    <3>2. CASE i <= a
      <4>1. j \in 1 .. a /\ s[j] = v[j]
        BY <1>7, <1>8, <3>1, <3>2
      <4>2. s[j] = P(r.tail + j - 1) /\ r.tail + j - 1 \in r.tail .. r.head - 1
        BY <1>5, <4>1
      <4>3. r.tail + j - 1 < r.tail + i - 1
        BY <1>3, <1>7, <3>1
      <4> HIDE DEF j
      <4>4. s[j] < s[i] /\ s[j] \in Nat
        BY <1>3, <1>4, <2>1, <3>2, <4>2, <4>3
      <4>. QED BY <2>1, <2>4, <3>2, <4>4 DEF j
    <3>3. CASE ~(i <= a) /\ j <= a
      <4>1. j \in 1 .. a /\ s[j] = v[j]
        BY <1>7, <1>8, <3>1, <3>3
      <4>2. s[j] = P(r.tail + j - 1) /\ r.tail + j - 1 \in r.tail .. r.head - 1
        BY <1>5, <4>1
      <4> HIDE DEF j
      <4>3. s[j] < s[i] /\ s[j] \in Nat
        BY <1>3, <1>4, <2>2, <3>3, <4>2
      <4>. QED BY <2>2, <2>4, <3>3, <4>3 DEF j
    <3>4. CASE ~(i <= a) /\ ~(j <= a)
      <4> DEFINE k == j - a
      <4>1. k \in 1 .. b /\ s[j] = w[k]
        BY <1>7, <1>8, <3>1, <3>4
      <4>2. i - a = k + 1 /\ q.tail + k - 1 < q.tail + (i - a) - 1
        <5> DEFINE h == a
        <5> HIDE DEF h
        <5>1. h \in Nat /\ j \in Int /\ i = j + 1 /\ q.tail \in Nat
          BY <1>3, <1>7, <3>1 DEF h
        <5>2. k = j - h
          BY DEF h
        <5> HIDE DEF k, j
        <5>3. i - h = k + 1 /\ q.tail + k - 1 < q.tail + (i - h) - 1
          BY <5>1, <5>2
        <5>. QED BY <5>3 DEF h
      <4> HIDE DEF k, j
      <4>3. s[j] = Q(q.tail + k - 1) /\ q.tail + k - 1 \in q.tail .. q.head - 1
        BY <1>6, <4>1
      <4>4. s[j] < s[i] /\ s[j] \in Nat
        BY <1>3, <1>4, <2>2, <3>4, <4>2, <4>3
      <4>. QED BY <2>2, <2>4, <3>4, <4>4 DEF j
    <3>. QED BY <3>2, <3>3, <3>4
  <2>. QED BY <2>3, <2>4
<1>10. Rises(s, <<e>>)
  BY <1>8, <1>9, Zenon DEF Rises
<1>11. ASSUME NEW n \in Nat
       PROVE  (\E i \in 1 .. Len(s) : s[i] = n) <=> IsWaiting(r, q, n)
  <2>1. ASSUME NEW i \in 1 .. Len(s), s[i] = n PROVE IsWaiting(r, q, n)
    <3>1. CASE i <= a
      <4>1. i \in 1 .. Len(v) /\ v[i] = n
        BY <1>5, <1>7, <1>8, <2>1, <3>1
      <4>. QED BY <1>5, <4>1 DEF IsWaiting
    <3>2. CASE ~(i <= a)
      <4>1. i - a \in 1 .. Len(w) /\ w[i - a] = n
        BY <1>6, <1>7, <1>8, <2>1, <3>2
      <4>. QED BY <1>6, <4>1 DEF IsWaiting
    <3>. QED BY <3>1, <3>2
  <2>2. ASSUME Holds(r, MAX_PUSHED_EVENTS, n) PROVE \E i \in 1 .. Len(s) : s[i] = n
    <3>1. PICK i \in 1 .. Len(v) : v[i] = n
      BY <1>5, <2>2
    <3>2. i \in 1 .. Len(s) /\ s[i] = n
      BY <1>5, <1>7, <1>8, <3>1
    <3>. QED BY <3>2
  <2>3. ASSUME Holds(q, MAX_QUED_EVENTS, n) PROVE \E i \in 1 .. Len(s) : s[i] = n
    <3>1. PICK i \in 1 .. Len(w) : w[i] = n
      BY <1>6, <2>3
    <3> DEFINE k == i + a
    <3>2. k \in 1 .. a + b /\ ~(k <= a) /\ k - a = i
      BY <1>6, <1>7
    <3> HIDE DEF k
    <3>3. k \in 1 .. Len(s) /\ s[k] = n
      BY <1>8, <3>1, <3>2
    <3>. QED BY <3>3
  <2>. QED BY <2>1, <2>2, <2>3 DEF IsWaiting
<1>12. s = WaitingEvents
  BY DEF s, v, w, WaitingEvents
<1>. QED BY <1>10, <1>11, <1>12

LEMMA Typed ==
  ASSUME IInv PROVE TypeOK
<1>1. PICK e \in 0 .. Len(kinds) :
        /\ last.event = <<e>>
        /\ RingsInv(com_pushedEvents, eventQue, e, Len(kinds))
        /\ StackInv(stack, lost, e)
  BY DEF IInv, EventsInv
<1>2. /\ kinds \in Seq(EventKinds) /\ Len(frees) = Len(kinds) /\ Len(kinds) <= MaxEvents
  BY DEF IInv, EventsInv, FreedOnce
<1>3. Len(kinds) \in Nat /\ e \in Nat
  BY <1>1, <1>2, LenProperties
<1>4. ASSUME NEW size \in Nat \ {0}, NEW r, EventRing(r, size, e, Len(kinds))
      PROVE  IsRing(r, size, MaxEvents) /\ r.head - r.tail <= size
  <2>1. /\ r.head \in Nat /\ r.tail \in Nat /\ r.tail <= r.head /\ r.head <= r.tail + size
        /\ r.slots \in [0 .. size - 1 -> Nat] /\ \A i \in 0 .. size - 1 : r.slots[i] <= Len(kinds)
    BY <1>4 DEF EventRing, Rings
  <2> DEFINE f == r.slots
  <2>2. f \in [0 .. size - 1 -> Nat] /\ \A i \in 0 .. size - 1 : f[i] \in 0 .. MaxEvents
    BY <1>2, <1>3, <2>1, Sizes
  <2> HIDE DEF f
  <2>3. f \in [0 .. size - 1 -> 0 .. MaxEvents]
    BY <2>2
  <2>. QED BY <2>1, <2>3 DEF IsRing, f
<1>5. ASSUME NEW s \in Sides PROVE IsRing(loopbacks[s], MAX_LOOPBACK, MaxPackets)
  <2> DEFINE r == loopbacks[s]  f == r.slots
  <2>1. /\ r.head \in Nat /\ r.tail \in Nat /\ r.tail <= r.head
        /\ f \in [0 .. MAX_LOOPBACK - 1 -> Nat] /\ \A i \in 0 .. MAX_LOOPBACK - 1 : f[i] <= r.head
    BY DEF IInv, PacketsInv, PacketRing, Rings
  <2>2. r.head <= MaxPackets
    <3>1. \A t \in Sides : loopbacks[t].head \in Nat
      BY DEF IInv, RingsOfSides, Rings
    <3>2. loopbacks["client"].head + loopbacks["server"].head <= MaxPackets
      BY DEF IInv, PacketsInv
    <3>. QED BY <3>1, <3>2, Sizes DEF Sides
  <2>3. \A i \in 0 .. MAX_LOOPBACK - 1 : f[i] \in 0 .. MaxPackets
    BY <2>1, <2>2, Sizes
  <2> HIDE DEF f
  <2>4. f \in [0 .. MAX_LOOPBACK - 1 -> 0 .. MaxPackets]
    BY <2>1, <2>3
  <2>. QED BY <2>1, <2>4 DEF IsRing, f
<1>6. /\ IsRing(eventQue, MAX_QUED_EVENTS, MaxEvents)
      /\ eventQue.head - eventQue.tail <= MAX_QUED_EVENTS
      /\ IsRing(com_pushedEvents, MAX_PUSHED_EVENTS, MaxEvents)
      /\ com_pushedEvents.head - com_pushedEvents.tail <= MAX_PUSHED_EVENTS
  BY <1>1, <1>4, Sizes DEF RingsInv
<1>7. Len(stack) <= MaxNested /\ lost \subseteq 1 .. Len(kinds)
  BY <1>1, <1>3 DEF StackInv
<1>8. /\ dedicated \in BOOLEAN /\ stage \in Stages /\ drops \in 0 .. MaxDrops
      /\ stack = <<>> => stage \in {"SV_Frame", "CL_Frame"}
  BY DEF IInv, StageInv
<1>9. /\ Len(cmd_text) <= MAX_CMD_BUFFER
      /\ cmd_wait \in Nat /\ waited \in Nat /\ lines \in 0 .. MaxLines
  BY DEF IInv, CommandsInv, BufferInv
<1>. QED BY <1>2, <1>5, <1>6, <1>7, <1>8, <1>9 DEF TypeOK, Stages

LEMMA EventsOrdered ==
  ASSUME IInv
  PROVE  /\ EventsInOrder
         /\ \A n \in Nat : (\E i \in 1 .. Len(WaitingEvents) : WaitingEvents[i] = n)
                             <=> IsWaiting(com_pushedEvents, eventQue, n)
<1>1. PICK e \in 0 .. Len(kinds) :
        last.event = <<e>> /\ RingsInv(com_pushedEvents, eventQue, e, Len(kinds))
  BY DEF IInv, EventsInv
<1>2. e \in Nat /\ EventsInv
  BY <1>1 DEF IInv
<1>. QED BY <1>1, <1>2, WaitingEventsAre DEF EventsInOrder

LEMMA PacketsOrdered ==
  ASSUME IInv PROVE PacketsInOrder
<1> SUFFICES ASSUME NEW s \in Sides
             PROVE  Rises(Waiting(Skipped(loopbacks[s])), last[s])
  BY DEF PacketsInOrder
<1> DEFINE r0 == loopbacks[s]  L == MAX_LOOPBACK  r == Skipped(r0)  w == Waiting(r)
<1>1. PacketRing(r0, last[s])
  BY DEF IInv, PacketsInv
<1> HIDE DEF r0
<1>2. /\ r0 \in Rings(L) /\ r0.head \in Nat /\ r0.tail \in Nat /\ r0.tail <= r0.head
      /\ L \in Nat \ {0}
  BY <1>1, Sizes DEF PacketRing, Rings
<1>3. /\ r \in Rings(L) /\ r.head = r0.head /\ r.slots = r0.slots
      /\ r.tail = IF r0.head - r0.tail > L THEN r0.head - L ELSE r0.tail
  BY <1>2, SkippedIs
<1>4. PICK n \in 0 .. r0.tail : last[s] = <<n>>
  BY <1>1 DEF PacketRing
<1>5. r.head \in Nat /\ r.tail \in Nat /\ r.tail <= r.head /\ n <= r.tail /\ n \in Nat
      /\ r.head <= r.tail + L
  BY <1>2, <1>3, <1>4
<1> HIDE DEF r
<1>6. /\ Len(w) = r.head - r.tail
      /\ \A i \in 1 .. r.head - r.tail : /\ r.tail + i - 1 \in r.tail .. r.head - 1
                                        /\ w[i] = r.slots[Place(r.tail + i - 1, L)]
  BY <1>2, <1>3, <1>5, WaitingIs
<1>7. \A i \in 0 .. r0.head - 1 : r0.head <= i + L => r0.slots[Place(i, L)] = i + 1
  BY <1>1 DEF PacketRing
<1> HIDE DEF w
<1>8. ASSUME NEW i \in 1 .. Len(w) PROVE w[i] = r.tail + i
  <2> DEFINE k == r.tail + i - 1
  <2>0. i \in 1 .. r.head - r.tail /\ i \in Int
    BY <1>5, <1>6
  <2>1. k \in 0 .. r0.head - 1 /\ r0.head <= k + L /\ k + 1 = r.tail + i
    <3> DEFINE t == r.tail  h == r.head
    <3> HIDE DEF t, h
    <3>1. t \in Nat /\ h \in Nat /\ h <= t + L /\ L \in Nat /\ i \in 1 .. h - t
      BY <1>2, <1>5, <2>0 DEF t, h
    <3>2. t + i - 1 \in 0 .. h - 1 /\ h <= t + i - 1 + L /\ t + i - 1 + 1 = t + i
      BY <3>1
    <3>. QED BY <1>3, <3>2 DEF t, h
  <2>2. w[i] = r.slots[Place(k, L)]
    BY <1>6, <2>0
  <2> HIDE DEF k
  <2>. QED BY <1>3, <1>7, <2>1, <2>2
<1>9. ASSUME NEW i \in 1 .. Len(w)
      PROVE  w[i] > (IF i = 1 THEN last[s][1] ELSE w[i - 1])
  <2>1. CASE i = 1
    BY <1>4, <1>5, <1>8, <2>1
  <2>2. CASE i # 1
    <3>1. i - 1 \in 1 .. Len(w)
      BY <1>5, <1>6, <2>2
    <3>. QED BY <1>5, <1>6, <1>8, <2>2, <3>1
  <2>. QED BY <2>1, <2>2
<1>. QED BY <1>9, Zenon DEF Rises, w, r, r0

LEMMA DataFreedOnce ==
  ASSUME IInv PROVE EventDataFreedOnce
<1>1. EventsInv
  BY DEF IInv
<1> DEFINE had == StillHas(com_pushedEvents, eventQue, stack, lost)
<1>2. /\ kinds \in Seq(EventKinds)
      /\ \A n \in 1 .. Len(kinds) : frees[n] = IF kinds[n] = "key" \/ n \in had THEN 0 ELSE 1
  BY <1>1 DEF EventsInv, FreedOnce
<1>3. Len(kinds) \in Nat
  BY <1>2, LenProperties
<1>4. ASSUME NEW n \in 1 .. Len(kinds)
      PROVE  n \in had <=> \/ n \in lost \cup EventsInProgress
                           \/ \E i \in 1 .. Len(WaitingEvents) : WaitingEvents[i] = n
  <2>1. n \in Nat
    BY <1>3
  <2>2. n \in had <=> n \in lost \/ InHand(stack, n) \/ IsWaiting(com_pushedEvents, eventQue, n)
    BY <2>1 DEF StillHas
  <2>3. n \in EventsInProgress <=> InHand(stack, n)
    BY <1>1, InProgressIs
  <2>4. (\E i \in 1 .. Len(WaitingEvents) : WaitingEvents[i] = n)
          <=> IsWaiting(com_pushedEvents, eventQue, n)
    BY <2>1, EventsOrdered
  <2>. QED BY <2>2, <2>3, <2>4
<1> HIDE DEF had
<1>. QED BY <1>2, <1>4 DEF EventDataFreedOnce

LEMMA SmallerOf ==
  ASSUME NEW a \in Nat, NEW b \in Nat
  PROVE  Min({a, b}) \in {a, b} /\ Min({a, b}) <= a /\ Min({a, b}) <= b
<1> DEFINE S == {a, b}
<1>1. S \in SUBSET Nat /\ S # {} /\ a \in S /\ b \in S
  OBVIOUS
<1> HIDE DEF S
<1>2. \E x \in S : \A y \in S : x <= y
  BY <1>1, LeastOf
<1>3. Min(S) \in S /\ \A y \in S : Min(S) <= y
  BY <1>2, Zenon DEF Min
<1>. QED BY <1>1, <1>3 DEF S

\* Paths that are equal up to a place begin with the same sequence.
LEMMA SameBeginning ==
  ASSUME NEW p \in Seq(Nat), NEW q \in Seq(Nat), NEW n \in Nat, n <= Len(p), n <= Len(q),
         \A k \in 1 .. n : p[k] = q[k]
  PROVE  SubSeq(p, 1, n) = SubSeq(q, 1, n)
<1> DEFINE a == SubSeq(p, 1, n)  b == SubSeq(q, 1, n)
<1>1. \A k \in 1 .. n : k \in 1 .. Len(p) /\ k \in 1 .. Len(q)
  <2>1. Len(p) \in Nat /\ Len(q) \in Nat
    BY LenProperties
  <2>. QED BY <2>1
<1>2. \A k \in 1 .. n : p[k] \in Nat /\ q[k] \in Nat
  BY <1>1, ElementOfSeq
<1>3. a \in Seq(Nat) /\ Len(a) = n /\ \A k \in 1 .. n : a[k] = p[k]
  BY <1>2, SubSeqProperties
<1>4. b \in Seq(Nat) /\ Len(b) = n /\ \A k \in 1 .. n : b[k] = q[k]
  BY <1>2, SubSeqProperties
<1> HIDE DEF a, b
<1>5. Len(a) = Len(b) /\ \A k \in 1 .. Len(a) : a[k] = b[k]
  BY <1>3, <1>4
<1>6. a = b
  BY <1>3, <1>4, <1>5, SeqEqual
<1>. QED BY <1>6 DEF a, b

LEMMA ComesBefore ==
  ASSUME NEW p \in Paths, NEW q \in Paths, Apart(p, q) \/ LeadsTo(p, q)
  PROVE  Before(p, q)
<1>1. /\ p \in Seq(Nat) /\ Len(p) \in Nat /\ q \in Seq(Nat) /\ Len(q) \in Nat
  BY PathIs
<1>2. CASE LeadsTo(p, q)
  <2>1. Len(p) < Len(q) /\ \A k \in 1 .. Len(p) : p[k] = q[k]
    BY <1>2 DEF LeadsTo
  <2>2. SubSeq(p, 1, Len(p)) = SubSeq(q, 1, Len(p))
    <3>1. Len(p) <= Len(p) /\ Len(p) <= Len(q)
      BY <1>1, <2>1
    <3>. QED BY <1>1, <2>1, <3>1, SameBeginning
  <2>3. SubSeq(p, 1, Len(p)) = p
    BY <1>1, SubSeqFull
  <2>4. p = SubSeq(q, 1, Len(p))
    BY <2>2, <2>3
  <2>. QED BY <2>1, <2>4 DEF Before
<1>3. CASE Apart(p, q)
  <2>1. PICK i \in 1 .. Len(p) : /\ i <= Len(q) /\ p[i] < q[i]
                                 /\ \A k \in 1 .. i - 1 : p[k] = q[k]
    BY <1>3 DEF Apart
  <2> DEFINE m == Min({Len(p), Len(q)})
  <2>2. m \in {Len(p), Len(q)}
    BY <1>1, SmallerOf
  <2> HIDE DEF m
  <2>3. i \in 1 .. m
    BY <1>1, <2>1, <2>2
  <2>4. i - 1 \in Nat /\ i - 1 <= Len(p) /\ i - 1 <= Len(q)
    BY <1>1, <2>1
  <2> DEFINE h == i - 1
  <2>5. h \in Nat /\ h <= Len(p) /\ h <= Len(q) /\ \A k \in 1 .. h : p[k] = q[k]
    BY <2>1, <2>4
  <2> HIDE DEF h
  <2>6. SubSeq(p, 1, h) = SubSeq(q, 1, h)
    BY <1>1, <2>5, SameBeginning
  <2>7. \E j \in 1 .. m : p[j] < q[j] /\ SubSeq(p, 1, j - 1) = SubSeq(q, 1, j - 1)
    BY <2>1, <2>3, <2>6, Zenon DEF h
  <2>. QED BY <2>7 DEF Before, m
<1>. QED BY <1>2, <1>3

LEMMA CommandsOrdered ==
  ASSUME IInv PROVE CommandsInOrder
<1>1. BufferInv(cmd_text, last.line, lines)
  BY DEF IInv, CommandsInv
<1>2. cmd_text \in Seq(Tokens)
  BY <1>1 DEF BufferInv
<1>3. Len(cmd_text) \in Nat
  BY <1>2, LenProperties
<1>4. ASSUME NEW j \in 1 .. Len(cmd_text), IsLine(cmd_text[j])
      PROVE  /\ Before(last.line, cmd_text[j].path)
             /\ \A i \in 1 .. j - 1 :
                  IsLine(cmd_text[i]) => Before(cmd_text[i].path, cmd_text[j].path)
  <2> DEFINE q == cmd_text[j].path  line == last.line
  <2>1. /\ q \in Paths /\ line \in Paths /\ (Apart(line, q) \/ LeadsTo(line, q))
        /\ \A i \in 1 .. j - 1 : IsLine(cmd_text[i]) => Apart(cmd_text[i].path, q)
    BY <1>1, <1>4 DEF BufferInv
  <2> HIDE DEF q, line
  <2>2. Before(line, q)
    BY <2>1, ComesBefore
  <2>3. ASSUME NEW i \in 1 .. j - 1, IsLine(cmd_text[i]) PROVE Before(cmd_text[i].path, q)
    <3>1. i \in 1 .. Len(cmd_text)
      BY <1>3
    <3> DEFINE p == cmd_text[i].path
    <3>2. p \in Paths /\ Apart(p, q)
      BY <1>1, <2>1, <2>3, <3>1 DEF BufferInv
    <3> HIDE DEF p
    <3>3. Before(p, q)
      BY <2>1, <3>2, ComesBefore
    <3>. QED BY <3>3 DEF p
  <2>. QED BY <2>2, <2>3 DEF q, line
<1>. QED BY <1>4, Zenon DEF CommandsInOrder

\* Only the command buffer of the frame takes lines on a dedicated server, when
\* nothing is being waited for.
LEMMA LineTaken ==
  ASSUME IInv, Next, dedicated, last'.line # last.line
  PROVE  waited = 0
<1>1. CASE Cbuf_Execute
  <2>1. In("Cbuf_Execute", "events")
    BY <1>1 DEF Cbuf_Execute
  <2>2. cmd_wait = 0
    BY <1>1 DEF Cbuf_Execute
  <2>3. stage = "execute"
    <3>1. stack # <<>> /\ Top.fn = "Cbuf_Execute"
      BY <2>1 DEF In
    <3>. QED BY <3>1, TopOfDedicated DEF IInv
  <2>4. waited <= cmd_wait + 0 /\ waited \in Nat
    BY <2>3 DEF IInv, StageInv, CommandsInv
  <2>. QED BY <2>2, <2>4
<1>2. CASE LoopEvent
  <2>1. last'.line = last.line
    <3>1. PICK p \in Pumped : Com_GetEvent(p)
      BY <1>2 DEF LoopEvent
    <3>2. \E x : last' = [last EXCEPT !.event = x] \/ last' = last
      BY <3>1 DEF Com_GetEvent
    <3>. QED BY <3>2 DEF IInv, LastInv
  <2>. QED BY <2>1
<1>3. CASE LoopPacket
  <2>1. last'.line = last.line
    <3>1. PICK s \in Sides : NET_GetLoopPacket(s)
      BY <1>3 DEF LoopPacket
    <3>2. \E x : last' = [last EXCEPT ![s] = x] \/ last' = last
      BY <3>1 DEF NET_GetLoopPacket
    <3>. QED BY <3>2 DEF IInv, LastInv, Sides
  <2>. QED BY <2>1
<1>4. CASE \/ ConsoleEvent \/ HandlerEnds \/ FrameEnds
           \/ AddCommand \/ AskTime \/ NestedEventLoop \/ NestedExecute \/ ErrorDrop
           \/ \E side \in Sides : NET_SendLoopPacket(side)
           \/ \E p \in Pumped : Com_Milliseconds(p)
  <2>1. UNCHANGED last
    BY <1>4 DEF ConsoleEvent, HandlerEnds, FrameEnds, AddCommand, AskTime, NestedEventLoop,
                NestedExecute, ErrorDrop, NET_SendLoopPacket, Com_Milliseconds
  <2>. QED BY <2>1
<1>. QED BY <1>1, <1>2, <1>3, <1>4, Zenon DEF Next

-----------------------------------------------------------------------------
(* The properties.                                                          *)

\* However the platform's events, those that Com_Milliseconds pushes back and the
\* packets of the loopback rings are mixed, and whatever the rings overwrite, what
\* waits is in order and newer than what was handled last.
THEOREM RingsKeepOrder == Spec => []RingsInOrder
<1>1. IInv => RingsInOrder
  BY Typed, EventsOrdered, PacketsOrdered DEF RingsInOrder
<1>. QED BY <1>1, Invariance, PTL

\* The data of every event is freed exactly once, by what handles it or by what
\* overwrites it in a ring, but for those that Com_Error jumps out of.
THEOREM DataIsFreedOnce == Spec => []EventDataFreedOnce
<1>. QED BY DataFreedOnce, Invariance, PTL

\* Commands are executed in the order of the scripts, those that Cbuf_InsertText
\* puts in front in the place of the command that inserted them.
THEOREM CommandsKeepOrder == Spec => []CommandsInOrder
<1>. QED BY CommandsOrdered, Invariance, PTL

\* A dedicated server executes no line before the frames of the last wait are over.
THEOREM WaitHoldsOnDedicated == Spec => DedicatedWaits
<1> DEFINE Waits0 == dedicated /\ last'.line # last.line => waited = 0
<1>1. ASSUME IInv, [Next]_vars PROVE [Waits0]_vars
  <2>1. CASE Next
    BY <1>1, <2>1, LineTaken
  <2>2. CASE UNCHANGED vars
    BY <2>2
  <2>. QED BY <1>1, <2>1, <2>2
<1>. QED BY <1>1, Invariance, PTL DEF Spec, DedicatedWaits
==============================================================================
