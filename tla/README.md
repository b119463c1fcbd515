# A verification development for cnq3 (challengeq3)

cnq3 is a Quake III engine. A *server* owns the game; *clients* connect to it over
UDP; both are built from one source tree and a player's machine may run both at
once. This directory holds

- TLA+ modules translated from the C++ source under `src/code`,
- TLC configurations that check them on small instances,
- proofs, checked by TLAPS, of what holds for every value of the constants.

Paths below are relative to `src/code`. `PROJECT.json` maps every definition to
the lines it stands for.

## Inventory

The program is single-threaded on each machine (`Com_Frame`: events, server
frame, events, client frame). What makes it hard is not threads but the network:
each side acts on what it last heard of the other, datagrams get lost, repeated
and reordered, and everything that must not get lost is rebuilt on top of
messages that may.

### How a message goes from the server to the client game

    game (VM) --SV_SetConfigstring, SV_GameSendServerCommand--+
      SV_SpawnServer / SV_MapRestart_f                        |
                 |                                            v
    SV_SendClientGameState   SV_SendClientSnapshot    reliableCommands[64]
                 |   (frames[32], delta, download block)      |
                 +--------------+-----------------------------+
                                v
                 SV_Netchan_Transmit  (queue behind fragments; key)
                                v
                 Netchan_Transmit / NextFragment  ---- UDP ----> Netchan_Process
                                                                      |
                                              CL_Netchan_Process (key) v
                                              CL_ParseServerMessage: gamestate,
                                              commands, snapshot, download
                                                                      |
                               cgame (VM) asks: CL_GetSnapshot, CL_GetServerCommand

In the other direction `CL_WritePacket` sends the serverId, the number of the last
message and of the last server command received, all unacknowledged client
commands and the last moves; `SV_ExecuteClientMessage` acts on them.

### The parts

| part | source | state | operations | interacts through |
|---|---|---|---|---|
| sequenced channel | `qcommon/net_chan.cpp` | `netchan_t`: outgoing number and unsent fragments; incoming number and fragments put together | transmit, next fragment, process | datagrams |
| server message queue | `server/sv_net_chan.cpp` | list of messages behind unsent fragments, its end pointer | transmit, next fragment, moving `client_t` | the channel; the key from `lastClientCommandString` |
| reliable commands | `cl_main`, `cl_parse`, `cl_net_chan`, `cl_cgame`, `sv_main`, `sv_client`, `sv_snapshot` | one ring of 64 strings per direction on each side, sequence, acknowledgement | add, send, receive, execute, drop on overflow | every message; the keys |
| snapshots | `server/sv_snapshot.cpp`, `client/cl_parse.cpp` | 32 frames per client, one ring of entities for all clients; on the client 32 snapshots and a ring of its own | build, choose a base, parse, acknowledge | message numbers, the ring shared by clients |
| gamestate, maps | `sv_init`, `sv_client`, `sv_ccmds`, `cl_parse`, `cl_cgame`, `cl_main` | serverId, restartedServerId, checksumFeed, configstrings, client state, oldServerTime | spawn, restart, set configstring, (re)send gamestate, pure check, enter the world | reliable commands (`cs`, `cp`), snapshots |
| downloads | `sv_client.cpp`, `cl_parse.cpp`, `cl_main.cpp` | window of 8 blocks, three block counters, EOF; block expected, list of files | begin, next, stop, done; write blocks, parse block | blocks in snapshots, acknowledgements as commands |
| connection | `sv_client`, `sv_main`, `cl_main` | challenges, slots, reconnect times, `lastPacketTime`; `clc.state`, retry time | getchallenge, connect, disconnect, timeouts, zombies | out-of-band packets |
| loopback, delayed packets | `net_chan.cpp` | two rings of 16 packets; a list with release times | send, get, queue, flush | stands in for UDP |
| command buffer | `qcommon/cmd.cpp` | a text and a wait count | add, insert, execute | console, cvars, everything |
| event queue | `qcommon/common.cpp`, `unix/unix_main.cpp` | the platform's ring, ring of pushed events, journal | queue, push, get, event loop (entered again from handlers) | client, server, console |
| zone, hunk | `qcommon/common.cpp` | lists of blocks with a rover; two banks with marks | allocate, free, clear, check | everything |
| errors | `qcommon/common.cpp` | `com_errorEntered`, error count | `Com_Error`, shutdown | everything |
| cvars | `qcommon/cvar.cpp` | values, latched values, flags | set, get, restart, infostrings | CS_SYSTEMINFO |
| message bits, Huffman | `qcommon/msg.cpp`, `huffman.cpp` | an adaptive tree, fixed after start | write and read bits, deltas | every message |
| others | collision, file system, virtual machine, renderer, sound, bots, platform, menus, vendored code | see `PROJECT.json` | | |

### What is hard, and what makes each part correct

- **Channel.** Fragments of several messages arrive in any order and again. A
  message handed over must be one that was sent, whole; numbers only grow; a
  message of exactly *n* fragments must still be seen to end.
- **Queue.** A gamestate and a snapshot collide. No message may get lost,
  repeated, or mixed with another; order among those queued.
- **Reliable commands.** Messages that carry the commands are lost, so commands
  are repeated until acknowledged, by acknowledgements that are lost too. Each
  command is executed once, in order, before anything that depends on it. The key
  of every message depends on the rings agreeing. Full rings.
- **Snapshots.** A difference must never be applied to another frame than the one
  it was made from, while acknowledgements are late, slots go round, and other
  clients and unreadable messages use up the ring.
- **Gamestate.** The map changes while the client is still loading the last one;
  commands and messages of the old map are on their way. Nothing of one map may be
  taken for another's, and the client must end up in the game.
- **Downloads.** Blocks are retransmitted while acknowledgements are on their way;
  a window buffer is reused; a late block of one file meets the next.
- **Connection.** `connect` is retried, so it arrives twice and late; slots are
  reused; both sides give up by time.
- **Main loop.** The event loop is entered again from inside a handler, commands
  insert commands and run the buffer from inside, asking for the time pushes events
  back, errors jump out of all of it, and every ring may be full.
- **Zone and hunk.** Blocks are merged under the rover; a scan must not give up too
  early; the banks of the hunk change roles; files are freed in any order, by code
  that an error may never let run.

`PROJECT.json` lists the hazards at their lines with the properties that would
catch them. Smaller ones it leaves out: a message queued just before its channel
falls idle waits until another one is fragmented (`sv_net_chan.cpp:144`); the last
snapshots of a server may stay in a queue (`sv_init.cpp:614`); a file of 32768 blocks
never arrives (`cl_parse.cpp:497`); a reconnect replaces a client without telling the
game (`sv_client.cpp:442`); adding the disconnect command may itself overflow
(`cl_main.cpp:759`); packets of different delays wait behind each other
(`net_chan.cpp:518`); an error inside an error (`common.cpp:250`).

## Modules

| module | models | state it keeps |
|---|---|---|
| `NetchanOps` | the functions of `net_chan.cpp` as operators on the two halves of a `netchan_t` | – |
| `Netchan` | one direction of a channel over a network that loses, repeats, reorders | `out`, `in`, `net`, histories `sent`, `delivered` |
| `MessageStream` | what a channel promises: numbered messages, unaltered, in order, at most once | `sent`, `delivered` |
| `ServerNetchan` | the server's queue in front of a channel, on the operators of `NetchanOps` | `cl` (channel, queue, histories), `lastClientCommand`, `built`, `running` |
| `ChannelProofs` | theorems about `Netchan` and `ServerNetchan` | – |
| `ReliableCommands` | both streams of commands and the keys, over a stream of messages | `client`, `server`, messages each way, histories |
| `ReliableCommandsProofs` | theorems about `ReliableCommands` | – |
| `Snapshots` | delta compression for one active client and a ring shared with others | `server`, `entities`, `client`, messages, history `overran` |
| `SnapshotsProofs` | theorems about `Snapshots` | – |
| `Gamestate` | a client through connecting, changes and restarts of the map, pure check, vid_restart | `server`, `client`, commands, messages, histories `lost`, `rushed` |
| `GamestateProofs` | theorems about `Gamestate` | – |
| `Download` | downloads, one file after the other, in a window by snapshots and commands | `server`, `client`, commands, messages, histories `lost`, `mistaken` |
| `DownloadProofs` | theorems about `Download`, for every list of files | – |
| `Connection` | challenge, connect, slots, timeouts and disconnection of several clients behind an address translator | `client`, `server`, `port`, datagrams with their age |
| `ConnectionProofs` | theorems about `Connection` | – |
| `Allocation` | what the callers of an allocator rely on: stretches that never overlap, refused only for want of room | `live`, `asked`, `refused` |
| `Zone` | the zone's list of blocks with its rover; a scan is one step per block | `size`, `tag`, `next`, `prev`, `rover`, `used`, `scan` |
| `Hunk` | the two banks of the hunk and those who allocate on it | `hunk`, `perm`, `fs_loadStack`, `server`, `held` |
| `MemoryProofs` | theorems about `Zone`, among them that it implements `Allocation`, and about `Hunk` | – |
| `Frame` | `Com_Frame` with the event queues, the loopback rings and the command buffer | `stage`, `stack`, three kinds of rings, `cmd_text`, `cmd_wait` |
| `FrameProofs` | theorems about `Frame` | – |
| `MC*` | the instances TLC checks | – |

**Layers.** `Netchan` models the channel byte by byte and implements
`MessageStream`, which says in two actions what a caller may count on: messages
arrive as sent, in order, at most once, and perhaps not at all. The modules above
take that promise as their network: their queues `toServer` and `toClient` are
first in, first out, with an action `Lose`. In the same way `Gamestate` and
`Download` take from `ReliableCommands` that commands are known by their number,
executed once and in order (`CommandsFaithful`), while neither ring is full. The
two links are of different strength: the first is a refinement, proved; of the second
`CommandsFaithful` is proved, but that it is what `Gamestate` and `Download` need is
an assumption written at the head of these modules. `Connection` stands beside them: it makes and ends what
they assume, a slot and a client with one challenge. It works on single datagrams,
which live for a time, because those before the connection have no channel.

`Zone` implements `Allocation` by a refinement mapping: the stretches in use are
the blocks whose tag is not 0, the request being served is that of the scan. TLC
checks the mapping with liveness (every request is answered), TLAPS proves its
safety part for every size. `Hunk` and `Frame` have no abstract specification of
their own; their promises are invariants.

**Correspondence.** Names of actions and operators are those of the functions; a
record's fields are those of the C structure. What one call does, including the
calls it makes, is one action: `SV_ExecuteClientMessage` in `Gamestate` executes
the commands, verifies the paks, primes or enters the world and may answer with a
gamestate, all in one step. Where a function calls another more than once in a
step (`SV_FinalMessage` sends twice), the callee is an operator on a record and the
action composes it. Abstractions:

- A command is its number; a configstring is a pair *map, change*; a map is the
  serverId it was spawned with; a frame is the number of its message and its
  *i*-th entity the pair *number, i*, so that a wrong base shows in every field.
- Keys are represented by the command string they are derived from. Two keys agree
  when the strings do; by accident different strings could give the same key.
- A message that cannot be decoded, and a download block that is not read over, is
  parsed as something arbitrary: a nondeterministic choice between the outcomes.
- Message numbers, times and commands are unbounded integers except where a width
  matters: block numbers pass through `Short` (`MSG_WriteShort`,
  `MSG_ReadBits`).
- History variables (`sent`, `delivered`, `heard`, `obeyed`, `moved`, `shown`,
  `lost`, ...) are never read by an action of the code, apart from the bound on
  losses.
- Three histories mark where a promise ends, because the code does not keep it any
  further: `rushed` (a map was restarted under a client without its gamestate),
  `overran` (a frame was written over itself or over its base, being too large for a
  ring) and `mistaken` (a download block was taken for one of another file). What
  leads there is modelled, and what follows it too. The properties are stated as
  long as the mark is not set; *Findings* lists what fails after it.
- `Connection` counts time in ticks, by the age of what the code keeps the time of,
  up to the age where no comparison can tell any more. A datagram has an age too and
  dies at `Life`; within its life it may arrive any number of times. A client is its
  qport; the translator gives each a port and may swap them.
- `Zone` and `Hunk` count memory in units of the alignment. A scan of the zone is
  interrupted after every block although nothing runs meanwhile: the steps make
  visible where it stands when it gives up. `Hunk` keeps what has been handed out and not given
  back in `held`, the C code keeps no such set.
- `Frame` leaves open what a handler or a command does, but not what it may do to
  the main loop: add lines, send loopback packets, ask for the time, run the event
  loop (`CL_DownloadsComplete`) or the buffer (`CL_NextDemo`) from inside, raise an
  error. The C stack is a sequence of activations. An event is its number; a line has
  a *path*, its place in the script and in the script that inserted it, which gives
  the order in which lines must be executed.

**Operators marked "Wrong:"** stand before the operator they vary and state a
plausible mistake (a dropped guard, an off-by-one, a missing reset). No action
uses them. For each property of a passing run one of them, put in place of the right
one, makes TLC find the property violated: the property does see that code.

Some properties of a run are conjunctions of named parts, each with a comment of its
own: `QueueSound`, `AcknowledgementsSound`, `BaseUsable`, `OneMap`, `EndsAgree`,
`WindowKept`, `ZoneSound`, `Accounted` and `RingsInOrder` contain their module's type
invariant; `CommandsFaithful`, `CommandsFirst`, `CommandsArrive`, `SlotsComeFree` and
`DownloadSucceeds` put two directions or two cases together.

## Runs

All with two workers; figures are distinct states.

| run | module | states | what it shows |
|---|---|---|---|
| `netchan` | `MCNetchan` | 4 555 | whatever the network does, messages are handed over whole, unmixed, in order, and the channel implements `MessageStream` |
| `server_netchan` | `MCServerNetchan` | 11 344 | the queue loses and repeats nothing until `client_t` is moved, never interleaves, its only disorder is overtaking, and snapshots and gamestates leave under the numbers the server noted for them; with the final messages |
| `reliable` | `MCReliableCommands` | 198 916 | commands are heard and obeyed once, in order, before what depends on them; keys agree; they arrive while there is room |
| `snapshots` | `MCSnapshots` | 2 373 909 | every snapshot the client game can get is the frame the server built under its number, until a frame is too large for a ring |
| `gamestate` | `MCGamestate` | 992 668 | through changes and restarts of the map, until one finds the client without its gamestate, the client's current messages are of the current map, old pure checksums do no harm, and it ends up in the game |
| `gs_current_id` | `MCGamestate` | violated | a restart of the map under a client that is still loading (see *Findings*) |
| `download` | `MCDownload` | 105 720 | of two files, until a block of the first is taken for one of the second: they are the server's and no honest acknowledgement is taken for a wrong one; and the download comes to an end |
| `connection` | `MCConnection`, two clients | 1 924 606 | one slot per client while no port changes, nobody put out but by who has its port, and the game knows who is connected, through retries, kicks, crashes, timeouts, a restarted server and a changed port |
| `connection_time` | `MCConnection`, one client | 424 367 | both ends have one challenge and a slot is not begun anew under its client, if its user is patient; slots come free, silence ends |
| `zone` | `MCZone` | 80 728 | the list of blocks stays sound, the account exact, the program ends only for want of memory, and the allocator implements `Allocation` |
| `hunk` | `MCHunk` | 2 180 267 | no byte is given out twice, temporary memory is on one end, all of it comes back |
| `frame` | `MCFrame` | 1 093 750 | events, packets and commands keep their order, event data is freed once but for errors, `wait` holds on a dedicated server, everything is dealt with in the end |

### Bounds and why they are enough

- **netchan.** `FRAGMENT_SIZE = 2`, `MAX_MSGLEN = 4`, messages of 1, 2, 3 and 4
  bytes: below, at, above one full fragment, and exactly two, which are all the
  cases of the length arithmetic. Three messages, so that fragments of two
  messages can mix while a third is handed over. The network keeps every datagram
  and hands over any of them any number of times. The theorems below remove the
  bounds.
- **server_netchan.** Lengths 1 and 3 (direct, and two fragments); four messages:
  one in fragments, two behind it, one that overtakes. One client command, which
  falls between building, encoding and sending. The theorems remove the bounds.
- **reliable.** Rings of two (64 in the code), four client commands and three
  server commands: each ring goes round once and overflows, which happens at the
  third outstanding command. One message each way on its way at a time
  (`Capacity`), in which any of them may get lost. The theorems remove the bounds, but
  for `CommandsArrive`.
- **snapshots.** A backup of 3 with a margin of 1 (32 and 3 in the code) and five
  messages, so that it goes round; rings of 3 and 2 entities, a frame of at most
  two, one entity of other clients between two frames, so that both rings are
  overwritten. The client's margin is one entity: a frame of two may be larger than it,
  as in the code, where the margin is 128 and nothing limits a frame to that, and
  may be written over the base it is decoded from (`overran`). TLC follows a behaviour
  up to there (`WithinRings`). The theorems remove the bounds and limit neither the
  frames nor what other clients take of the ring.
- **gamestate.** Three serverIds: two changes of map, a change and a restart, or
  two restarts; one change of the configstring, one lost message and one
  vid_restart at any time; pure server or not. `MaxTime = 0`: time matters to
  `TimeNeverGoesBack` only, so in the passing run no client is dropped by it, and
  `ClientGetsIntoGame` says that the client does get in. A restart may come at
  any time, as in the code. One under a client that is loading and has the gamestate of the map
  is followed like any other step; one under a client that has not sets `rushed`, the
  subject of `gs_current_id`, and TLC follows a behaviour up to there (`Followed`;
  without this constraint the run passes too, with 2 038 774 states, but takes nearly
  five minutes). Snapshots here carry no configstrings. The theorems
  remove the bounds of the invariants.
- **download.** Two files of one and three blocks in a window of two: the window of
  the first, sent again, reaches the client when it expects the second, and the second
  is longer than the window, so that a buffer is used again. Two lost messages and any
  number of retransmissions; servers that refuse and clients that cannot write the
  files. `MaxCommands = 10` is above what the two files need. The mistake the two
  files allow does happen in this run (`mistaken`), and more follows: without it,
  neither `NeverBroken` nor `EveryFileIntact` holds (see *Findings*). The theorems
  remove the bounds.
- **connection.** Two clients that are alike (symmetry) with the coarsest time: each
  connects once, the server may be restarted once, one port changes, one datagram is
  on its way in each direction and lives one tick. This is enough for a late connect
  of one client to meet the slot of the other, and for a client with the port of another to
  put it out: `NotPutOut` does not hold without `PortInherited`. `OneSlot` does not hold after a
  change of ports when clients connect twice (`MaxStarts = 2`). The theorems remove the bounds.
- **connection_time.** One client that connects twice, with the times in proportion:
  `RETRANSMIT_TIMEOUT` and `sv_reconnectlimit` are 3 s in the code, here 3 ticks;
  datagrams live one tick. The proportions matter: `NotBegunAnew` does not hold if a
  round trip can take longer than the reconnect limit, or if the server forgets a
  client (`sv_zombietime`, `sv_timeout`) while its connect is on its way.
  `EndsAgree` and `NotBegunAnew` are stated of clients that are not `hasty`,
  that is whose datagrams of one attempt are dead before the next one. With two
  datagrams on their way to the server the invariants also hold (1.9 million states);
  with two each way and a hasty user, `EndsAgree` would fail: the answer to the first attempt
  connects the second.
  The theorems remove the bounds of both invariants; the proportions are the
  hypothesis `Prompt` of the one about `NotBegunAnew`.
- **zone.** 14 units, requests of 2, 3 and 5 and the smallest fragment kept of 1:
  up to seven blocks, all shapes of merging, and zones too full for a request. 16
  units were checked too (323 785 states). The theorems remove the bounds.
- **hunk.** 6 units, allocations of 1 and 2, at most two files in memory when an
  error strikes. The theorems remove the bounds.
- **frame.** Rings of one, so that each overflows at the second item; a buffer of
  five tokens, so that a script does not fit behind another; two events, two added lines, two
  packets, one error, and two activations within each other. The invariants also hold with
  rings of two and three events (5.7 million states). `MAX_CMD_LINE = 2` makes a line
  that could not be separated from the next be cut as in the code.

Deadlock is checked in `reliable`, `hunk` and `frame`; in the other modules a bound on the messages, or
a client that is in the game or has left, or a request the zone cannot meet
(`ERR_FATAL`), ends a behaviour.

### Fairness

- `Netchan`: weak fairness of sending the next fragment.
  `SV_SendClientMessages` does so in every server frame for a client that has
  fragments left, `CL_WritePacket` in a loop. Nothing is assumed of arrival.
- `ReliableCommands`: weak fairness of both sides' sending and of the client game's
  asking for commands, which happen every frame; strong fairness of receiving: a
  network that loses messages does not lose all of them. The liveness
  properties hold only `[]Room`: with both rings full, the slot of the command a
  message acknowledges holds a newer one, neither side can decode the other, and
  no acknowledgement gets through any more.
- `Gamestate`: weak fairness of every step of the frame loops, strong fairness of
  `SV_ExecuteClientMessage`; losses are bounded. None for changes of the map or of
  configstrings, which are somebody's decision.
- `Download`: weak fairness of the frame loops and of a retransmission time that
  does go by; losses are bounded. A refusal is sent once in a snapshot, so
  `FilesArrive` and `DownloadEnds` are stated of servers that do not refuse: after a
  lost refusal the client waits forever. `DownloadEnds` accepts a client that was dropped:
  a late block nobody asked for may do that (`cl_parse.cpp:490`).
- `Connection`: weak fairness of the frames of the server and of each client, and of
  time. Nothing is assumed of the network or of users.
- `Zone`: weak fairness of the scan: a call that has begun goes on.
- `Frame`: weak fairness of what the program does by itself; strong fairness of
  handlers and frames ending (a handler may ask for the time again and again, but
  returns), and of a frame becoming long enough to leave the spinning of
  `Com_Frame`, as time passes.

## Findings

One run shows that the code does not keep what its comments say:

| run | what the source says | what the code does |
|---|---|---|
| `gs_current_id` | the gamestate "will be resent if the client ... has the wrong gamestate" (`sv_client.cpp:577`) | `map_restart` makes a loading client active and tells it the new serverId; it keeps the wrong map |

The modules state more of what comments promise and the code does not keep. They are
not among the runs above; the configuration named here, with the `MC` module of the
component, makes TLC show how the property fails. The last column is the place in the code.

| property | configuration | what the source says | what happens |
|---|---|---|---|
| `ServerNetchan!SentInOrder` | `SN_SentInOrder` | queued messages "get sent in correct order" (`sv_net_chan.cpp:171`) | `SV_Netchan_Transmit` sends the last fragment without popping the queue; the next message overtakes it (`sv_net_chan.cpp:189`) |
| `ServerNetchan!NothingLost` | `SN_NothingLost` | messages behind a fragmented one are buffered "and make sure they get sent in correct order" (`sv_net_chan.cpp:171`) | `SV_ChangeMaxClients` copies `client_t`, whose `netchan_end_queue` goes on pointing into the old one; what is queued after that is lost (`sv_init.cpp:278`) |
| `ServerNetchan!AllDecode` | `SN_AllDecode` | the key uses "the last received and with this message acknowledged client command" (`sv_net_chan.cpp:64`) | a queued message acknowledges the command of when it was built, and its key is taken of the one of when it is sent (`sv_net_chan.cpp:148`) |
| `ReliableCommands!NoMoveBeforeCommand` | `RC_NoMoveBeforeCommand` | no move is executed before the command added before it (`cl_main.cpp:90`) | one command more than the ring holds makes the client take all for acknowledged (`cl_parse.cpp:610`) |
| `ReliableCommands!DroppedOnce` | `RC_DroppedOnce` | the test with `==` prevents a recursive drop (`sv_main.cpp:142`) | the broadcast of `SV_DropClient` overflows the ring of the client being dropped, which is not yet a zombie (`sv_client.cpp:532`) |
| `Gamestate!TimeNeverGoesBack` | `GS_TimeNeverGoesBack` | time continues "as if the server has not restarted" (`sv_snapshot.cpp:149`) | a second change of map overwrites the offset of the first (`sv_init.cpp:376`) |
| `Download!NeverBroken` | `DL_NeverBroken` (two files) | the acknowledged block "should be the same" as the server's (`sv_client.cpp:722`) | a block of one file that was sent again is taken for the next file's (`cl_parse.cpp:522`) |
| `Download!EveryFileIntact` | `DL_EveryFileIntact` (two files) | "A zero length block means EOF" (`cl_parse.cpp:550`) | the same, when the block is in the middle or at the end of the next file: that is complete with a block of the other, or too short |
| `Connection!ForgottenClientLeaves` | `CN_ForgottenClientLeaves` | disconnect packets are sent "so it doesn't have to wait for the full timeout period" (`cl_main.cpp:1284`) | `CL_PacketEvent` counts the packet as heard from the server before it looks at it, so `CL_DisconnectPacket` takes each one for spurious, and `CL_CheckTimeout` never fires (`cl_main.cpp:1299`, `1449`) |
| `Hunk!LastFileClears` | `HK_LastFileClears` | "when the files-in-use count reaches zero, all temp memory will be deleted" (`common.cpp:1529`) | a file is counted before there is memory for it, and errors do not reset the count (`files.cpp:1444`): after an error it never reaches zero |
| `Frame!WaitLasts` | `FR_WaitLasts` | `wait` delays "until next frame" (`cmd.cpp:41`) | a client runs the buffer twice a frame (`common.cpp:2334`, `2383`) |

Others met while modelling, seen in the code: the renderer's allocations are "always on
the low heap" (`tr_local.h:1566`), but `Hunk_Alloc` only swaps banks when that is
worth it; a negative `wait` holds the buffer for ever (`cmd.cpp:47`); a command line
longer than 1023 characters is cut, loses a character and its rest is
executed as a command (`cmd.cpp:130`); commands that run the buffer from inside find
other arguments in `Cmd_Argv` afterwards (`cl_main.cpp:463`); an error that jumps out
of a handler leaks the data of its event (`common.cpp:1847`). The branch of `Com_EventLoop` for
oversize packets would leak it too (`common.cpp:1833`), but no packet gets there: `Sys_GetPacket`
refuses a datagram that fills its buffer of `MAX_MSGLEN` bytes (`net_ip.cpp:263`). `Frame` models
both. After a change of ports a client may have two slots, or be put out of its own
(`sv_client.cpp:366`); a reconnect that the game refuses leaves the old client in the game
(`sv_client.cpp:460`); a client kicked before
it has the gamestate is not told, and by the fault above it stays connected.

## Proofs

`ChannelProofs` proves, of the channel, for every fragment size, maximal length, set of bytes, set
of messages and number of messages (assumptions `NetchanSizes` and
`PayloadAssumption`: sizes are natural numbers, the fragment size is not 0, and a
message is no longer than `MAX_MSGLEN`):

- `Invariance`, `TypeCorrect`: the inductive invariant and the types; the buffers of
  a `netchan_t` are indexed within their size.
- `Intact`: what is handed over under a number is the message sent under it.
- `InOrder`: numbers handed over strictly grow.
- `Terminated`: a message the sender is done with has had its closing datagram.
- `AdvancesOnly`: the receiver's number moves only with the message of that number.
- `Implements`: `Spec` implements `MessageStream`, by the identity on the two
  histories.

**The invariant.** `DeliveredIntact` is not inductive: nothing in it speaks of the
fragments in the network or in the receiver's buffer. `NetchanInv` adds

- `Genuine`: every datagram ever sent is a piece of the message of its number at
  the place it names, and one that is not a *full* fragment ends that message.
  The receiver takes a fragment that is not full for the end; this is why it may.
- `Sending`: the sender's number and buffer are those of the last message, so that
  the next fragment is again genuine.
- `AssembledPrefix`: what the receiver has put together is a prefix of one message.
- `DeliveredOld`: nothing newer than `incomingSequence` was handed over, from
  which order follows.

The proof follows `Next`: lemmas first state what each operator of `NetchanOps`
returns (`FragmentCut`, `WithFragmentType`, ...), then one lemma per action shows
that the action preserves each conjunct it can disturb; `KeepsPrefix` and
`CompletesMessage` carry the argument that a fragment accepted at
`fragmentStart = fragmentLength` extends the prefix and that a closing one completes it.

`ChannelProofs` proves, of the server's queue, for every fragment size and length and any number of
messages and client commands (`NetchanSizes`, `ServerNetchanAssumption`):

- `Sound`: until `client_t` is moved, every message is in one place once, in the queue or
  on the channel; and none is ever sent between the fragments of another.
- `OnlyOvertaking`: what had to wait leaves in the order it was queued.
- `NumbersHold`: a snapshot leaves under the number of the slot its frame was stored in, although
  the number is taken when it is built and messages may be waiting; a gamestate never under a
  smaller one than the client's acknowledgement of it is compared with.

**Its invariant** says of the channel and the queue together (`SideInv`) that the
fragments unsent are those of the last message passed on, that every message
built is in exactly one place (`OnceEach`), that the queue grows (`InTurn`), and that a
message is out of order only if others waited when it left (`Overtakings`). As
`SV_Netchan_TransmitNextFragment` and `SV_FinalMessage` may send twice in a step, the
lemmas are about the operators on a `client_t`, which is in `SideInv` before and after
each of them, and the actions compose them.

`ReliableCommandsProofs` proves, for every size of the rings, any number of commands
and any losses (`ReliableAssumption`):

- `Faithful`: each side is told the other's commands in order, once and as they were
  added, until the client overwrites its own ring or is dropped.
- `Decodes`: both ends take the same string for the key of a message.
- `First`: what depends on a command is not seen before it.
- `Sound`: nothing is taken for acknowledged that was not received, and the server never
  sees an acknowledgement out of range from an honest client.

**Its invariant** describes the three places a command is in: the rings, which hold the
last commands of each side (`ClientInv`, `ServerInv`); the messages on their way
(`MessagesInv`), each with the numbers it was built from, whose acknowledgements
come in order; and what was told (`HeardInv`, `ObeyedInv`). The delicate part is that
`lastClientCommandString` is right even when the client has gone round its ring: a
message never overwrites its own last command. A drop adds up to four commands at once, which
are bounded by `Grown` along the calls of `SV_DropClient`.

`SnapshotsProofs` proves, for every `PACKET_BACKUP`, margin, size of the rings and of
frames (`SnapshotsAssumption`), until a frame is written over itself in the server's ring or over
its base in the client's (`overran`):

- `DifferencesUsable`: a difference is made from a frame that the client said it has,
  and whose slot and entities nothing has overwritten.
- `Faithful`: a snapshot the client takes for valid is the frame the server built.

**Its invariant** is about what is remembered: the last `PACKET_BACKUP` frames are in their
slots on either side, the entities of those young enough are in the ring
(`Holds`), and every difference on its way is from a frame the client acknowledged
(`ToClientInv`) that it still has if it reads the message. `DELTA_MARGIN` and
`PARSE_MARGIN` enter where the slots and the rings go round.

`GamestateProofs` proves, for any number of changes and restarts of the map, of
changes of the configstring, of losses and of messages on their way, and all times
(`GamestateAssumption`), until a map is restarted under a client that has not its gamestate
(`rushed`; after it `gs_current_id` shows a counterexample,
and the loading client would also send a "cp" of the wrong map):

- `CurrentIdAlwaysCurrentMap`: what bears the current serverId comes from a client with
  the current map.
- `RightFilesPass`: a client with the right files passes the pure check.
- `NeverTwoMaps`: types, snapshots of the client's own map only, and configstrings that
  end up as the server's.

**Its invariant** rests on one relation, `Current`: a serverId that is not below the
server's checksumFeed belongs to the map the server has now. It is asked of every
serverId there is: of the client, of its packets, of its "cp" commands, of gamestates and
of systeminfo commands on their way. A change of map keeps it because the new serverId,
and the feed with it, is above all of them. A restart keeps it because the client has the map
(`ClientOK`) and, maps arriving in the order they were sent (`InOrder`), cannot get an
older one again; one that finds the client without the map sets `rushed`. For the configstring, `Follows` says of every value on its way, and of
the client's, that it is the server's or that a command after it sets another one; for
a client with a string of an earlier map that all commands of this map are still to come
(`StringOK`). What one message makes the server do is a fold over commands;
`ExecutedJudged` describes it, by looking at the first command after which it
would not hold.

`ConnectionProofs` proves, for any number of clients, slots, challenges and datagrams
and all times (`ConnectionAssumption`):

- `OneSlotOnly`: a client never has two slots, while the translator leaves the ports
  alone.
- `NobodyPutOut`: a slot passes to another client only through being free, or, after a
  change of ports, to one that connects from the very port its client was last heard of from.
- `GameAlwaysKnows`: the game is told of everybody who comes and goes, but for those whose
  reconnect it refuses.
- `EndsAlwaysAgree`: types, and one challenge at both ends for patient clients, while
  the translator leaves the ports alone.
- `InGameNotBegunAnew`, under `Prompt`: datagrams live less than half the time
  between two connects, less than the reconnect limit, and no longer than the server's
  timeouts. Then, for patient clients and unchanged ports, no late connect begins a slot anew under a client in its game.

**Its invariant** `IInv` joins the types with `BoundInv` (challenges and serverIds known
anywhere come from the server), `FixedInv` (while no port has changed, ports are the
clients' own, and each has at most one slot) and `AgreeInv`: the connects of a
patient client on their way carry the one challenge of its attempt, and so
does its slot from the first answer on. `SameChallenge` speaks of connected clients only and
is not inductive: the client becomes connected by a datagram, sent when a connect it
no longer remembers was accepted. The steps of the server are told apart by what they do to the
slots: `Follows` and `Calm` (none is filled and no old challenge becomes known again),
or `Filled` (a connect is accepted or denied). `TInv` adds the time: how old the last connect,
the answers to it and the slot are, compared with each other (`Timed`). Its last case is why
`Prompt` is needed: the code tells a late connect from a new one only by the
age of the slot.

`MemoryProofs` proves, of the zone, for every size of the zone, set of requests and smallest
fragment (assumptions `UnitsAssumption`, `RequestsAssumption`,
`MinFragmentAssumption`):

- `Soundness`: links and rover stay at blocks (`ZoneTypeCorrect`), the blocks tile the
  zone, agree in both directions and never leave two free ones side by side
  (`HeapIsSound`), and the scan gives up only when no block is large enough
  (`ScanIsComplete`).
- `Implements`: every step of `Zone` is a step of `Allocation` or a stutter.
- `AccountExact`: `zone->used` is what the blocks in use take. That a sum over a set is
  the same in any order (`AnyOrder`), and grows by what is added (`SumWithout`), is
  shown by a smallest set for which it would not hold.

**Its invariant** adds `Scanning` to the types and the heap: the scan began at the
block before the rover, stands at a free block or just behind one, and every block
*between the rover and it* has been found wanting. "Between" is by address, round
the cap, and not by following links, which would need induction: `Successor` shows
that in a sound heap the link of a block leads to the next larger address, so that
one step of the scan adds one block (`Onward`, `Turn`), and when it is back at the
start all have been passed (`Around`). That a block passed while its free
predecessor was the candidate cannot be better is `NoTwoFree`, hence this conjunct
is needed for completeness and not only for economy. In `Implements` a scan that
gives up is a refusal because every gap of the abstract allocator lies in one free
block (`NoRoom`), again by `NoTwoFree`.

`MemoryProofs` proves, of the hunk, for every size of the hunk and of allocations and every number
of interrupted loads (`SizesAssumption`):

- `HunkTypeCorrect`, `AccountRight`: no bank leaves the hunk, and
  `Hunk_MemoryRemaining` is exactly what `Hunk_Alloc` can still give.
- `NeverShared`: what is in use never overlaps.
- `OneEnd`: temporary memory is in one bank, above its permanent part.
- `NothingLeft`: when nothing temporary is in use and no load was interrupted, no bank
  has temporary memory left. It rests on scratch buffers being stacked
  without a gap while no file is counted.

**Its invariant** places everything in use: the server's memory below the marks of its bank,
once it runs, permanent memory between bank's end and `permanent`, temporary memory
between `permanent` and `temp` of the temporary bank; and it says that the banks
do not meet (`low.temp + high.temp <= Total`) and that what the file system counts is at least
the files in memory. The last is what makes clearing the temporary bank safe: the
count reaches zero only if there are no files. `NothingShared` alone says nothing of
where memory lies, and no operation could be shown to keep it. Scratch buffers
enter with their discipline: they are given back in the opposite order and no file
is touched while there is one, which holds of their callers in the source.

`FrameProofs` proves, for every size of the rings and of the buffer, any scripts, any number
of events, packets, lines and errors and any depth of nesting (`FrameAssumption`, whose
only restriction is that `wait` is given no negative number):

- `RingsKeepOrder`: what waits in the rings of events, in the pushed and the platform's
  together, is in order and newer than what was handled last; packets likewise.
- `DataIsFreedOnce`: the data of an event is freed once, by what handles it or overwrites
  it, or is lost to an error.
- `CommandsKeepOrder`: the buffer is in the order of the scripts, and after the line
  executed last.
- `WaitHoldsOnDedicated`: on a dedicated server no line is executed while a wait holds.

**Its invariant** has a part for each of them. `EventRing` says of a ring what its slots
between tail and head hold, and `RingsApart` that all that was pushed back is older than
what the platform's ring holds: without it taking from the pushed ring first would not keep
the order. `StackInv` gives every event in hand to one activation, so that
`FreedOnce` can say whose data is still there: the lost, the handled, the waiting. In
`PacketRing` the last `MAX_LOOPBACK` places hold the numbers of their places, which is why
skipping the oldest keeps the order. `BufferInv` compares paths by the first place where
they differ (`Apart`, `LeadsTo`); a text that is inserted lies between the line that
inserted it and all that followed. `StageInv` ties `waited` to `cmd_wait` and the stage: only
a dedicated server runs the buffer once a frame, from `Com_Frame` alone, and only
there the two go down together. The events that the platform finds at once are a fold;
`QueueInvAfter` describes it by `RecursionKeeps`, that what every step of a fold keeps
holds after it. The last is shown by the least number of steps after which it would not
hold, as induction cannot be cited.

`DownloadProofs` proves, for every list of files of any length, every size of window, any number of
blocks in a snapshot and of losses and retransmissions (`DownloadAssumption`: the window is
no larger than half the numbers a short has, as 8 is than 32768), until the client takes a block of
one file for one of another (`mistaken`; after it `DL_NeverBroken` and `DL_EveryFileIntact` show
counterexamples, see *Findings*):

- `FileIsIntact`: a file the client takes for complete is the server's.
- `WindowIsKept`: the window is never exceeded, which is proved whatever the client mistakes, and no
  acknowledgement of an honest client breaks a download.

**Its invariant** relates four things: the command the server executed last, the block it
waits for, the block the client expects, and the commands it has added. From some command on, the client's are
the request of a file (`Asks`), one acknowledgement for each block before the one it expects
(`Acks`), and then nothing but `stopdl` and `donedl` (`Ends`); so the number of the command the
server executed last says which block it waits for (`Runs`), and the acknowledgement that comes
next is that block's. Either both are at the same file (`Together`), or the client has all of the
server's file and has asked for the next (`Behind`): it never gets further ahead, because a block of the
file it asks for next can only come from a server that has begun it. `Filled` says that the blocks from there on are in their buffers; as at most a window of
them waits, no two are in the same one (`SamePlace`). `BlockOK` asks of a block on its way that it is of a file the server has begun, and if that is
the client's file, only
that its number is that of a block read, and that its contents are right *if the client may
still take it*: an old block sent again may come from a buffer that has another one by
now, which does no harm, because its number is below what the client expects, and the number
in a short is unambiguous within the window (`ShortIs`, `TakenIs`). That block *n* is number *n* of
the file needs `eof`: until the end is read as many blocks have been read as were numbered. The
commands of a message and the blocks of a snapshot are folds, described as in `FrameProofs`.

**Only model-checked.** Liveness, which depends on ENABLED: `CommandsArrive`,
`SlotsComeFree`, `SilenceEnds`, `ClientGetsIntoGame`, `DownloadSucceeds` and the others; of the
refinement `Allocates` the safety part is proved, its fairness is left to TLC. Every
invariant and every action property of the runs is stated by a theorem, one of `Connection`
under the hypothesis named.

## Not modelled, and why

Of the modelled parts: address conversion and printing; flood protection and the
tokens of commands; rate and visibility of snapshots, the wire format of a delta
and the sizes of messages (so an overflowing snapshot, `sv_snapshot.cpp:609`, and
a reassembled message within four bytes of `MAX_MSGLEN`, `net_chan.cpp:344`, are
outside); HTTP downloads; clients that misbehave on purpose. Of the rest, each
component in `PROJECT.json` has its reason: floating-point geometry, codecs, user
interface, platform I/O and vendored code stay out; the parts below are planned.

## Plan

What is left, by what a fault would cost the players:

1. **`Gamestate` with `Download` and `Connection`** – a map that changes during a
   download (`sv_client.cpp:1414`), the end of a download that sends the gamestate,
   a client dropped while it loads.
2. **Proofs** – that a fold keeps what each of its steps keeps is shown in
   `GamestateProofs`, `FrameProofs` and `DownloadProofs` for the steps of each, as no theorem
   can take an operator as a parameter.
3. **Local machinery** – `ComError` (levels, recursion, shutting down), `Cvars`
   (latched values, the modified flags read each frame), the sector tree of
   `sv_world.cpp`.
4. **Pure algorithms** – message bits and signs, delta of entities against a
   reference, and the adaptive Huffman tree, over bounded inputs.
