-------------------------------- MODULE Frame --------------------------------
(***************************************************************************)
(* The main loop of qcommon/common.cpp: Com_Frame with the event queue of  *)
(* the platform, the queue of events pushed back by Com_Milliseconds, the  *)
(* loopback rings between the local client and server (net_chan.cpp) and   *)
(* the command buffer (cmd.cpp).  What a handler or a command does is left *)
(* open but for what reaches back into these: it adds commands, sends      *)
(* packets, asks for the time, runs the event loop or the command buffer   *)
(* again from inside, or ends in Com_Error.                                *)
(***************************************************************************)
EXTENDS Integers, Sequences, SequencesExt

CONSTANTS MAX_QUED_EVENTS, MAX_PUSHED_EVENTS, MAX_LOOPBACK,
          MAX_CMD_BUFFER, MAX_CMD_LINE,  \* in commands and separators
          Pumps,      \* what the platform may find at once: sequences of kinds of events
          Files,      \* sequences of kinds of lines that exec or vstr inserts
          Waits,      \* what "wait" is given
          MaxEvents,  \* bound: events that happen
          MaxLines,   \* bound: lines added to the command buffer
          MaxPackets, \* bound: packets sent, in both directions
          MaxDrops,   \* bound: errors
          MaxNested   \* bound: activations inside each other

ASSUME FrameAssumption ==
  /\ \A n \in {MAX_QUED_EVENTS, MAX_PUSHED_EVENTS, MAX_LOOPBACK,
               MAX_CMD_BUFFER, MAX_CMD_LINE, MaxNested} : n \in Nat \ {0}
  /\ Pumps \subseteq Seq({"key", "console", "packet", "oversize"})
  /\ \A p \in Pumps : \A i \in 1..Len(p) - 1 : p[i] # "oversize"  \* packets come last
  /\ Files \subseteq Seq({"any", "wait", "exec"})
  /\ Waits \subseteq Nat       \* a negative one holds the buffer up for ever
  /\ \A n \in {MaxEvents, MaxLines, MaxPackets, MaxDrops} : n \in Nat

Sides == {"client", "server"}

VARIABLES dedicated,         \* com_dedicated
          stage,             \* how far Com_Frame is
          stack,             \* the event loops and Cbuf_Executes it is inside of
          eventQue,          \* the platform's ring
          com_pushedEvents,
          kinds,             \* kinds[n]: the kind of the n-th event that happened
          frees,             \* frees[n]: how often its data has been freed
          lost,              \* events that an error interrupted
          loopbacks,         \* packets on their way to each side
          cmd_text, cmd_wait,
          lines,             \* how many lines have been added to the end
          waited,            \* history: for how many frames the last wait holds
          last,              \* history: what was begun last
          drops              \* errors so far

events == <<eventQue, com_pushedEvents, kinds, frees, lost>>
commands == <<cmd_text, cmd_wait, lines, waited>>
vars == <<dedicated, stage, stack, events, loopbacks, commands, last, drops>>

Nothing == [what |-> "nothing", id |-> <<>>]
Activation(fn) == [fn |-> fn, at |-> "events", doing |-> Nothing]

\* What Com_Frame calls at each stage, if it is one of the two.
Called(s) == CASE s \in {"events", "eventsAgain"} -> <<Activation("Com_EventLoop")>>
               [] s \in {"execute", "executeAgain"} -> <<Activation("Cbuf_Execute")>>
               [] OTHER -> <<>>

\* Wrong: a dedicated server runs the buffer twice a frame too.
FollowingForAll == CASE stage = "events" -> {"events", "execute"}
                     [] stage = "execute" -> {"SV_Frame"}
                     [] stage = "SV_Frame" -> {"eventsAgain"}
                     [] stage = "eventsAgain" -> {"executeAgain"}
                     [] stage = "executeAgain" -> {"CL_Frame"}
                     [] stage = "CL_Frame" -> {"events"}

\* The events are looked at until the frame is long enough (com_maxfps).
Following == CASE stage = "events" -> {"events", "execute"}
               [] stage = "execute" -> {"SV_Frame"}
               [] stage = "SV_Frame" -> {IF dedicated THEN "events" ELSE "eventsAgain"}
               [] stage = "eventsAgain" -> {"executeAgain"}
               [] stage = "executeAgain" -> {"CL_Frame"}
               [] stage = "CL_Frame" -> {"events"}

EmptyRing(size) == [slots |-> [i \in 0..size - 1 |-> 0], head |-> 0, tail |-> 0]

Init == /\ dedicated \in BOOLEAN
        /\ stage = "events" /\ stack = Called("events")
        /\ eventQue = EmptyRing(MAX_QUED_EVENTS)
        /\ com_pushedEvents = EmptyRing(MAX_PUSHED_EVENTS)
        /\ kinds = <<>> /\ frees = <<>> /\ lost = {}
        /\ loopbacks = [s \in Sides |-> EmptyRing(MAX_LOOPBACK)]
        /\ cmd_text = <<>> /\ cmd_wait = 0 /\ lines = 0 /\ waited = 0
        /\ last = [event |-> <<0>>, client |-> <<0>>, server |-> <<0>>, line |-> <<0>>]
        /\ drops = 0

--------------------------------------------------------------------------------
Top == Last(stack)
Doing == IF stack = <<>> THEN Nothing ELSE Top.doing
In(fn, at) == stack # <<>> /\ Top.fn = fn /\ Top.at = at /\ Top.doing = Nothing

Begin(what, id) == stack' = [stack EXCEPT ![Len(stack)].doing = [what |-> what, id |-> id]]
Done == stack' = [stack EXCEPT ![Len(stack)].doing = Nothing]
Phase(at) == stack' = [stack EXCEPT ![Len(stack)].at = at]

FrameLater == IF waited > 0 THEN waited - 1 ELSE 0

NextStage ==
  /\ stage' \in Following
  /\ stack' = Called(stage')
  /\ waited' = IF stage # "events" /\ stage' = "events" THEN FrameLater ELSE waited

\* Back to what called it, which is Com_Frame in the end.
Return == IF Len(stack) > Len(Called(stage))
          THEN stack' = Front(stack) /\ UNCHANGED <<stage, waited>>
          ELSE NextStage

--------------------------------------------------------------------------------
\* The rings: head and tail only grow.
Size(r) == Cardinality(DOMAIN r.slots)
Slot(r, at) == r.slots[at % Size(r)]
Waiting(r) == [i \in 1..r.head - r.tail |-> Slot(r, r.tail + i - 1)]
IsFull(r) == r.head - r.tail >= Size(r)
Taken(r) == [r EXCEPT !.tail = @ + 1]

\* Sys_QueEvent and Com_PushEvent: a full ring loses its oldest event.
Added(r, x) == [r EXCEPT !.slots[r.head % Size(r)] = x, !.head = @ + 1,
                         !.tail = IF IsFull(r) THEN @ + 1 ELSE @]

HasData(n) == kinds'[n] # "key"
Freed(f, n) == IF HasData(n) THEN [f EXCEPT ![n] = @ + 1] ELSE f

\* Wrong: the data of an overwritten event is leaked.
FreedByAddingNothing(f, r) == f

\* Both free the data of the event whose slot they overwrite.
FreedByAdding(f, r) == IF IsFull(r) THEN Freed(f, Slot(r, r.head)) ELSE f

\* Wrong: a datagram is queued by its own length, not by what was read of it.
ReceivedWhole(p) == p

\* Sys_GetPacket refuses a datagram that fills its buffer of MAX_MSGLEN: a longer
\* one was cut.
Received(p) == IF p # <<>> /\ p[Len(p)] = "oversize" THEN SubSeq(p, 1, Len(p) - 1) ELSE p

\* What becomes events of what the platform finds.
Pumped == {Received(p) : p \in Pumps}

\* Sys_GetEvent looks for new events only when its ring is empty.
Sys_QueEvents(pumped) ==
  /\ eventQue.head > eventQue.tail => pumped = <<>>
  /\ Len(kinds) + Len(pumped) <= MaxEvents
  /\ kinds' = kinds \o pumped

Queue(pumped) ==
  FoldLeft(LAMBDA s, k : [ring |-> Added(s.ring, s.next), next |-> s.next + 1,
                          frees |-> FreedByAdding(s.frees, s.ring)],
           [ring |-> eventQue, next |-> Len(kinds) + 1,
            frees |-> frees \o [i \in 1..Len(pumped) |-> 0]],
           pumped)

--------------------------------------------------------------------------------
\* Wrong: the platform is asked before what was pushed back.
Com_GetEventReal(pumped) ==
  LET s == Queue(pumped)
      pushed == s.ring.head = s.ring.tail
      ring == IF pushed THEN com_pushedEvents ELSE s.ring
  IN /\ Sys_QueEvents(pumped)
     /\ frees' = s.frees
     /\ IF ring.head > ring.tail
        THEN /\ Begin("event", <<Slot(ring, ring.tail)>>)
             /\ last' = [last EXCEPT !.event = <<Slot(ring, ring.tail)>>]
        ELSE Phase("client") /\ UNCHANGED last
     /\ com_pushedEvents' = IF pushed /\ ring.head > ring.tail THEN Taken(ring)
                                                             ELSE com_pushedEvents
     /\ eventQue' = IF pushed THEN s.ring ELSE Taken(ring)

\* Com_GetEvent in Com_EventLoop: pushed events first, then the platform's; without
\* any the loopback packets are next.
Com_GetEvent(pumped) ==
  LET s == Queue(pumped)
      pushed == com_pushedEvents.head > com_pushedEvents.tail
      ring == IF pushed THEN com_pushedEvents ELSE s.ring
      rest == IF ring.head > ring.tail THEN Taken(ring) ELSE ring
  IN /\ pushed => pumped = <<>>
     /\ Sys_QueEvents(pumped)
     /\ frees' = s.frees
     /\ IF ring.head > ring.tail
        THEN /\ Begin("event", <<Slot(ring, ring.tail)>>)
             /\ last' = [last EXCEPT !.event = <<Slot(ring, ring.tail)>>]
        ELSE Phase("client") /\ UNCHANGED last
     /\ com_pushedEvents' = IF pushed THEN rest ELSE com_pushedEvents
     /\ eventQue' = IF pushed THEN s.ring ELSE rest

LoopEvent == /\ In("Com_EventLoop", "events")
             /\ \E p \in Pumped : Com_GetEvent(p)
             /\ UNCHANGED <<dedicated, stage, lost, loopbacks, commands, drops>>

\* NET_GetLoopPacket: of more packets than the ring holds the oldest are skipped.
Skipped(r) == IF r.head - r.tail > Size(r) THEN [r EXCEPT !.tail = r.head - Size(r)] ELSE r

\* Wrong: the event loop returns without the server's packets.
NET_GetLoopPacketClientOnly(side) ==
  LET r == Skipped(loopbacks[side])
  IN IF r.tail < r.head /\ side = "client"
     THEN /\ Begin(side, <<Slot(r, r.tail)>>)
          /\ last' = [last EXCEPT ![side] = <<Slot(r, r.tail)>>]
          /\ loopbacks' = [loopbacks EXCEPT ![side] = Taken(r)]
          /\ UNCHANGED <<stage, waited>>
     ELSE UNCHANGED <<last, loopbacks>> /\ Return

NET_GetLoopPacket(side) ==
  LET r == Skipped(loopbacks[side])
  IN IF r.tail < r.head
     THEN /\ Begin(side, <<Slot(r, r.tail)>>)
          /\ last' = [last EXCEPT ![side] = <<Slot(r, r.tail)>>]
          /\ loopbacks' = [loopbacks EXCEPT ![side] = Taken(r)]
          /\ UNCHANGED <<stage, waited>>
     ELSE /\ UNCHANGED <<last, loopbacks>>
          /\ IF side = "client" THEN Phase("server") /\ UNCHANGED <<stage, waited>> ELSE Return

LoopPacket == /\ \E side \in Sides : In("Com_EventLoop", side) /\ NET_GetLoopPacket(side)
              /\ UNCHANGED <<dedicated, events, cmd_text, cmd_wait, lines, drops>>

--------------------------------------------------------------------------------
NewLine == [path |-> <<>>, cmd |-> "newline"]
IsLine(t) == t.cmd # "newline"

\* Cbuf_AddText drops a text that does not fit.
Appended(buf, text) == IF Len(buf) + Len(text) >= MAX_CMD_BUFFER THEN buf ELSE buf \o text

\* An added line; console input and key bindings add the separator by itself.
AddLine(cmd, apart) ==
  LET line == [path |-> <<lines + 1>>, cmd |-> cmd]
  IN /\ lines < MaxLines
     /\ lines' = lines + 1
     /\ cmd_text' = IF apart THEN Appended(Appended(cmd_text, <<line>>), <<NewLine>>)
                             ELSE Appended(cmd_text, <<line, NewLine>>)

\* The lines of a file, each with its separator, by the path of the command.
Text(file, path) ==
  [k \in 1..2 * Len(file) |->
     LET i == (k + 1) \div 2 IN
     IF k = 2 * i THEN NewLine ELSE [path |-> Append(path, i), cmd |-> file[i]]]

\* Wrong: what is inserted goes to the end.
InsertedAtEnd(buf, file, path) ==
  LET text == Text(file, path) IN
  IF Len(text) + Len(buf) > MAX_CMD_BUFFER THEN buf ELSE buf \o text

\* Cbuf_InsertText: at the front, or not at all.
Inserted(buf, file, path) ==
  LET text == Text(file, path) IN
  IF Len(text) + Len(buf) > MAX_CMD_BUFFER THEN buf ELSE text \o buf

\* The first line: up to a separator, the end of the buffer or the longest line.
LineLength ==
  LET breaks == {i \in 1..Len(cmd_text) : ~IsLine(cmd_text[i])}
      line == IF breaks = {} THEN Len(cmd_text) ELSE Min(breaks) - 1
  IN Min({line, MAX_CMD_LINE - 1})

\* What is left when a line has been taken out, with the separator behind it.
Remaining(buf, n) == IF n = Len(buf) THEN <<>> ELSE SubSeq(buf, n + 2, Len(buf))

\* Cbuf_Execute takes a line out of the buffer and executes it; it stops when the
\* buffer is empty or a wait is pending.
Cbuf_Execute ==
  /\ In("Cbuf_Execute", "events")
  /\ IF cmd_text = <<>> \/ cmd_wait # 0
     THEN /\ Return
          /\ cmd_wait' = IF cmd_text = <<>> THEN cmd_wait ELSE cmd_wait - 1
          /\ UNCHANGED <<cmd_text, last>>
     ELSE LET rest == Remaining(cmd_text, LineLength)
              line == IF LineLength = 0 THEN NewLine ELSE cmd_text[1]
          IN /\ UNCHANGED stage
             /\ CASE line.cmd = "newline" ->
                       cmd_text' = rest /\ UNCHANGED <<stack, cmd_wait, waited, last>>
                  [] line.cmd = "wait" ->
                       /\ cmd_text' = rest
                       /\ cmd_wait' \in Waits /\ waited' = cmd_wait'
                       /\ last' = [last EXCEPT !.line = line.path]
                       /\ UNCHANGED stack
                  [] line.cmd = "exec" ->
                       /\ \E f \in Files : cmd_text' = Inserted(rest, f, line.path)
                       /\ last' = [last EXCEPT !.line = line.path]
                       /\ UNCHANGED <<stack, cmd_wait, waited>>
                  [] line.cmd = "any" ->
                       /\ cmd_text' = rest
                       /\ Begin("line", line.path)
                       /\ last' = [last EXCEPT !.line = line.path]
                       /\ UNCHANGED <<cmd_wait, waited>>
  /\ UNCHANGED <<dedicated, events, loopbacks, lines, drops>>

--------------------------------------------------------------------------------
\* What the code that is running may do.
Running == IF stack = <<>> THEN stage ELSE Doing.what
Kind(n) == kinds[n]

\* Console input becomes a line; any other event is a handler's business.
ConsoleEvent ==
  /\ Doing.what = "event" /\ Kind(Doing.id[1]) = "console"
  /\ \E cmd \in {"any", "wait", "exec"} : AddLine(cmd, TRUE)
  /\ Done
  /\ frees' = [frees EXCEPT ![Doing.id[1]] = @ + 1]
  /\ UNCHANGED <<dedicated, stage, eventQue, com_pushedEvents, kinds, lost, loopbacks,
                 cmd_wait, waited, last, drops>>

\* "Com_EventLoop: oversize packet": the loop goes on without freeing the data.
Leaves(n) == Kind(n) = "oversize"

\* A handler has finished; the event loop frees the data of the event.
HandlerEnds ==
  /\ Doing # Nothing
  /\ Doing.what = "event" /\ Kind(Doing.id[1]) = "console" => lines = MaxLines
  /\ Done
  /\ kinds' = kinds
  /\ frees' = IF Doing.what = "event" /\ ~Leaves(Doing.id[1])
              THEN Freed(frees, Doing.id[1]) ELSE frees
  /\ UNCHANGED <<dedicated, stage, eventQue, com_pushedEvents, lost, loopbacks,
                 commands, last, drops>>

\* SV_Frame or CL_Frame has finished.
FrameEnds ==
  /\ stack = <<>>
  /\ NextStage
  /\ UNCHANGED <<dedicated, events, loopbacks, cmd_text, cmd_wait, lines, last, drops>>

Works == /\ stack = <<>> \/ Doing # Nothing
         /\ Doing.what = "event" => Kind(Doing.id[1]) \notin {"console", "oversize"}

\* trap_SendConsoleCommand, key bindings, SV_Frame's restarts.
AddCommand ==
  /\ Works
  /\ \E cmd \in {"any", "wait", "exec"} : AddLine(cmd, FALSE)
  /\ UNCHANGED <<dedicated, stage, stack, events, loopbacks, cmd_wait, waited, last, drops>>

\* NET_SendLoopPacket, from the other side to this one.
NET_SendLoopPacket(side) ==
  /\ Works /\ ~dedicated
  /\ Running \notin {side, IF side = "client" THEN "CL_Frame" ELSE "SV_Frame"}
  /\ loopbacks["client"].head + loopbacks["server"].head < MaxPackets
  /\ LET r == loopbacks[side] IN
     loopbacks' = [loopbacks EXCEPT
       ![side] = [r EXCEPT !.slots[r.head % MAX_LOOPBACK] = r.head + 1, !.head = @ + 1]]
  /\ UNCHANGED <<dedicated, stage, stack, events, commands, last, drops>>

Calls(fn) == Len(stack) < MaxNested /\ stack' = Append(stack, Activation(fn))

\* CL_DownloadsComplete, inside of a packet, a demo or CL_Frame.
NestedEventLoop ==
  /\ Works /\ ~dedicated
  /\ Running \in {"client", "event", "line", "CL_Frame"}
  /\ Doing.what = "event" => Kind(Doing.id[1]) = "packet"
  /\ Calls("Com_EventLoop")
  /\ UNCHANGED <<dedicated, stage, events, loopbacks, commands, last, drops>>

\* CL_NextDemo, inside of the command demo or CL_Frame.
NestedExecute ==
  /\ Works /\ ~dedicated
  /\ Running \in {"line", "CL_Frame"}
  /\ Calls("Cbuf_Execute")
  /\ AddLine("any", TRUE)
  /\ UNCHANGED <<dedicated, stage, events, loopbacks, cmd_wait, waited, last, drops>>

AskTime == /\ Works
           /\ Calls("Com_Milliseconds")
           /\ UNCHANGED <<dedicated, stage, events, loopbacks, commands, last, drops>>

\* Com_Milliseconds pushes the platform's events until there are none.
Com_Milliseconds(pumped) ==
  LET s == Queue(pumped)
      e == Slot(s.ring, s.ring.tail)
  IN /\ In("Com_Milliseconds", "events")
     /\ Sys_QueEvents(pumped)
     /\ IF s.ring.head > s.ring.tail
        THEN /\ eventQue' = Taken(s.ring)
             /\ com_pushedEvents' = Added(com_pushedEvents, e)
             /\ frees' = FreedByAdding(s.frees, com_pushedEvents)
             /\ UNCHANGED stack
        ELSE /\ stack' = Front(stack)
             /\ eventQue' = s.ring /\ frees' = s.frees
             /\ UNCHANGED com_pushedEvents
     /\ UNCHANGED <<dedicated, stage, lost, loopbacks, commands, last, drops>>

\* Com_Error(ERR_DROP) jumps to the end of Com_Frame, out of everything.
InProgress == {stack[i].doing : i \in 1..Len(stack)}
EventsInProgress == {d.id[1] : d \in {x \in InProgress : x.what = "event"}}

ErrorDrop ==
  /\ Works
  /\ drops < MaxDrops
  /\ drops' = drops + 1
  /\ stage' = "events" /\ stack' = Called("events") /\ waited' = FrameLater
  /\ lost' = lost \cup EventsInProgress
  /\ UNCHANGED <<dedicated, eventQue, com_pushedEvents, kinds, frees, loopbacks,
                 cmd_text, cmd_wait, lines, last>>

Next == \/ LoopEvent \/ LoopPacket \/ Cbuf_Execute
        \/ ConsoleEvent \/ HandlerEnds \/ FrameEnds
        \/ AddCommand \/ AskTime \/ NestedEventLoop \/ NestedExecute \/ ErrorDrop
        \/ \E side \in Sides : NET_SendLoopPacket(side)
        \/ \E p \in Pumped : Com_Milliseconds(p)

Spec == Init /\ [][Next]_vars

\* The program goes on where nothing is left open; handlers return; and time passes,
\* so that a frame is long enough at last.
GoesOn == \/ LoopEvent \/ LoopPacket \/ Cbuf_Execute \/ ConsoleEvent
          \/ \E p \in Pumped : Com_Milliseconds(p)

Fairness == /\ WF_vars(GoesOn)
            /\ SF_vars(HandlerEnds \/ FrameEnds)
            /\ SF_vars(LoopPacket /\ stage = "events" /\ stage' = "execute")

FairSpec == Spec /\ Fairness

--------------------------------------------------------------------------------
IsRing(r, size, top) ==
  /\ r.slots \in [0..size - 1 -> 0..top]
  /\ r.head \in Nat /\ r.tail \in 0..r.head

TypeOK ==
  /\ dedicated \in BOOLEAN
  /\ stage \in {"events", "execute", "SV_Frame", "eventsAgain", "executeAgain", "CL_Frame"}
  /\ stack = <<>> => stage \in {"SV_Frame", "CL_Frame"}
  /\ Len(stack) <= MaxNested
  /\ IsRing(eventQue, MAX_QUED_EVENTS, MaxEvents)
  /\ eventQue.head - eventQue.tail <= MAX_QUED_EVENTS
  /\ IsRing(com_pushedEvents, MAX_PUSHED_EVENTS, MaxEvents)
  /\ com_pushedEvents.head - com_pushedEvents.tail <= MAX_PUSHED_EVENTS
  /\ \A s \in Sides : IsRing(loopbacks[s], MAX_LOOPBACK, MaxPackets)
  /\ Len(kinds) = Len(frees) /\ lost \subseteq 1..Len(kinds)
  /\ Len(cmd_text) <= MAX_CMD_BUFFER
  /\ cmd_wait \in Nat /\ waited \in Nat /\ lines \in 0..MaxLines /\ drops \in 0..MaxDrops

WaitingEvents == Waiting(com_pushedEvents) \o Waiting(eventQue)

\* Events are handled in the order in which they happened, and none twice, though
\* Com_Milliseconds pushes them back at any time, a full ring overwrites the oldest
\* and a handler may run the loop again: what waits is in order, and newer than
\* what was handled last.
Rises(q, from) == \A i \in 1..Len(q) : q[i] > (IF i = 1 THEN from[1] ELSE q[i - 1])

EventsInOrder == Rises(WaitingEvents, last.event)

\* The packets between the local client and server arrive in order, and none twice;
\* some may be skipped.
PacketsInOrder == \A s \in Sides : Rises(Waiting(Skipped(loopbacks[s])), last[s])

\* The rings hold no more than they may, and in order.
RingsInOrder == TypeOK /\ EventsInOrder /\ PacketsInOrder

\* The data of an event is freed once: not while the event waits or is handled, and
\* when it is overwritten or has been handled.  An error that jumps out of a handler
\* loses it; so would the branch of Com_EventLoop for oversize packets, which no
\* event reaches because Sys_GetPacket refuses what is too long.
EventDataFreedOnce ==
  \A n \in 1..Len(kinds) :
    frees[n] = IF \/ kinds[n] = "key" \/ n \in lost \cup EventsInProgress
                  \/ \E i \in 1..Len(WaitingEvents) : WaitingEvents[i] = n
               THEN 0 ELSE 1

\* Lexicographic order: a line comes after the one that inserted it, before the
\* next line.
Before(p, q) == \/ Len(p) < Len(q) /\ p = SubSeq(q, 1, Len(p))
                \/ \E i \in 1..Min({Len(p), Len(q)}) :
                     p[i] < q[i] /\ SubSeq(p, 1, i - 1) = SubSeq(q, 1, i - 1)

\* Lines are executed in the order of the script, those that exec and vstr insert
\* in the place of the command, and none twice, though commands add and insert
\* others, run the buffer again from inside or end in an error.
CommandsInOrder ==
  \A j \in 1..Len(cmd_text) :
    IsLine(cmd_text[j]) =>
      /\ Before(last.line, cmd_text[j].path)
      /\ \A i \in 1..j - 1 :
           IsLine(cmd_text[i]) => Before(cmd_text[i].path, cmd_text[j].path)

\* On a dedicated server "wait n" puts off the rest of the buffer for n frames, also
\* when errors end frames early.
DedicatedWaits == [][dedicated /\ last'.line # last.line => waited = 0]_vars

\* The comment on Cmd_Wait_f says so of every program: "delay execution of the
\* remainder of the command buffer until next frame".
WaitLasts == [][last'.line # last.line => waited = 0]_vars

\* Whatever happens is dealt with in the end: no event, packet or command waits
\* for ever.
CatchesUp == []<>(/\ WaitingEvents = <<>> /\ cmd_text = <<>>
                  /\ \A s \in Sides : loopbacks[s].head = loopbacks[s].tail)
================================================================================
