----------------------------- MODULE Download -----------------------------
(***************************************************************************)
(* Downloads from the server, block by block in a window                   *)
(* (SV_WriteDownloadToClient and the commands of sv_client.cpp,            *)
(* CL_ParseDownload of cl_parse.cpp, CL_NextDownload of cl_main.cpp).      *)
(*                                                                         *)
(* One client asks for its missing files in turn.  Blocks travel in        *)
(* snapshots, which are lost and not repeated: when the window has been    *)
(* sent and a second goes by without an acknowledgement, the server starts *)
(* over from the first block not acknowledged.  Acknowledgements are       *)
(* reliable commands, known by their number on both sides and executed     *)
(* once and in order (ReliableCommands).                                   *)
(*                                                                         *)
(* A block carries its number and not its file, so one of the file before, *)
(* sent again and late, can be taken for one of this file.  mistaken       *)
(* remembers that it was: what is promised of a download ends there.       *)
(***************************************************************************)
EXTENDS Integers, Sequences, FiniteSetsExt, SequencesExt

CONSTANTS Blocks,               \* Blocks[f]: blocks of the f-th file the client wants
          MAX_DOWNLOAD_WINDOW,  \* blocks kept for the client to acknowledge (8)
          SHORT_LIMIT,          \* first number a short does not hold (32768)
          MaxBlocksPerSnap,     \* bound: blocks in one snapshot
          MaxLost,              \* bound: messages lost
          MaxCommands,          \* bound: client commands of one behaviour
          Capacity              \* bound: messages on their way, each direction

ASSUME DownloadAssumption ==
  /\ Blocks \in Seq(Nat \ {0}) /\ Blocks # <<>>
  /\ MAX_DOWNLOAD_WINDOW \in Nat \ {0} /\ SHORT_LIMIT \in Nat
  /\ MAX_DOWNLOAD_WINDOW <= SHORT_LIMIT
  /\ MaxBlocksPerSnap \in Nat \ {0} /\ MaxLost \in Nat /\ MaxCommands \in Nat
  /\ Capacity \in Nat \ {0}

VARIABLES
  server,          \* the download fields of client_t
  client,          \* the download fields of clientConnection_t
  clientCommands,  \* reliable commands of the client, by number
  toServer,        \* client messages on their way: how many commands they carry
  toClient,        \* server messages on their way: the blocks they carry
  lost,            \* messages lost so far
  mistaken         \* history: the client took a block of another file

vars == <<server, client, clientCommands, toServer, toClient, lost, mistaken>>

Files == 1 .. Len(Blocks)
NoFile == 0

\* What a block holds: part n of a file, or nothing at its end (size 0).
Part(file, n) == [file |-> file, part |-> n]
EndOfFile == [file |-> NoFile, part |-> 0]

\* The parts of a file, as the client has them when it is complete.
Contents(file) == [n \in 1 .. Blocks[file] |-> Part(file, n - 1)]

\* A block number through MSG_WriteShort and MSG_ReadShort.
Short(n) == ((n + SHORT_LIMIT) % (2 * SHORT_LIMIT)) - SHORT_LIMIT

Least(a, b) == IF a < b THEN a ELSE b

-----------------------------------------------------------------------------
(* The server.                                                             *)

NewServer(refuses) ==
  [downloadName |-> NoFile,
   download |-> FALSE,           \* is the file open
   refuses |-> refuses,          \* sv_allowDownload 0, an id pak, not there
   clientBlock |-> 0, currentBlock |-> 0, xmitBlock |-> 0,
   count |-> 0,                  \* blocks read
   eof |-> FALSE,
   blocks |-> [i \in 0 .. MAX_DOWNLOAD_WINDOW - 1 |-> EndOfFile],
   lastClientCommand |-> 0,
   state |-> "connected"]

\* SV_CloseDownload.  The sizes of the blocks stay.
Closed(s) == [s EXCEPT !.download = FALSE, !.downloadName = NoFile]

\* SV_BeginDownload_f.
Begun(s, file) == [Closed(s) EXCEPT !.downloadName = file]

\* SV_NextDownload_f.
NextDownload(s, block) ==
  IF block # s.clientBlock THEN [s EXCEPT !.state = "zombie"]
  ELSE IF s.blocks[s.clientBlock % MAX_DOWNLOAD_WINDOW] = EndOfFile THEN Closed(s)
  ELSE [s EXCEPT !.clientBlock = @ + 1]

\* Wrong: the number of the command executed is not kept.
ExecutedUncounted(s, command) ==
  IF s.state = "zombie" THEN s
  ELSE CASE command.kind = "download" -> Begun(s, command.arg)
         [] command.kind = "nextdl" -> NextDownload(s, command.arg)
         [] command.kind = "stopdl" -> Closed(s)
         [] command.kind = "donedl" -> [s EXCEPT !.state = "primed"]

\* SV_ClientCommand, of the one after the last executed.
ExecutedCommand(s, command) ==
  IF s.state = "zombie" THEN s
  ELSE LET t == CASE command.kind = "download" -> Begun(s, command.arg)
                  [] command.kind = "nextdl" -> NextDownload(s, command.arg)
                  [] command.kind = "stopdl" -> Closed(s)
                  [] command.kind = "donedl" -> [s EXCEPT !.state = "primed"]
       IN  [t EXCEPT !.lastClientCommand = @ + 1]

\* SV_ExecuteClientMessage.
SV_ExecuteClientMessage ==
  /\ toServer # <<>>
  /\ toServer' = Tail(toServer)
  /\ server' = FoldLeft(ExecutedCommand, server,
                        SubSeq(clientCommands, server.lastClientCommand + 1, Head(toServer)))
  /\ UNCHANGED <<client, clientCommands, toClient, lost, mistaken>>

Opened(s) ==
  IF s.download THEN s
  ELSE [s EXCEPT !.download = TRUE, !.clientBlock = 0, !.currentBlock = 0,
                 !.xmitBlock = 0, !.count = 0, !.eof = FALSE]

\* How many blocks may be read before the client has to acknowledge one.
Room(s) == MAX_DOWNLOAD_WINDOW - (s.currentBlock - s.clientBlock)

\* "Perform any reads that we need to".  Until its end is read, the number of a
\* block in the window is its number in the file.
WithReads(s) ==
  LET k == Least(Room(s), Blocks[s.downloadName] - s.count)
      read == s.currentBlock .. s.currentBlock + k - 1
      Slot(i) == {n \in read : n % MAX_DOWNLOAD_WINDOW = i} IN
  [s EXCEPT !.blocks = [i \in DOMAIN @ |-> IF Slot(i) = {} THEN @[i]
                                           ELSE Part(s.downloadName, Max(Slot(i)))],
            !.currentBlock = @ + k,
            !.count = @ + k]

\* "add the EOF block".
WithEnd(s) ==
  IF s.count = Blocks[s.downloadName] /\ ~s.eof /\ Room(s) > 0
  THEN [s EXCEPT !.blocks[s.currentBlock % MAX_DOWNLOAD_WINDOW] = EndOfFile,
                 !.currentBlock = @ + 1, !.eof = TRUE]
  ELSE s

\* The first block to send: after a second, the first that is not acknowledged.
First(s, expired) ==
  IF s.xmitBlock = s.currentBlock /\ expired THEN s.clientBlock ELSE s.xmitBlock

\* A block as the message carries it; of, the file it is sent for, is not in it.
Written(s, n) == [number |-> Short(n), refused |-> FALSE,
                  data |-> s.blocks[n % MAX_DOWNLOAD_WINDOW], of |-> s.downloadName]

Refusal == [number |-> 0, refused |-> TRUE, data |-> EndOfFile, of |-> NoFile]

\* SV_WriteDownloadToClient, of a file it does not let the client have.
Refuse ==
  /\ ~server.download /\ server.refuses
  /\ server' = [server EXCEPT !.downloadName = NoFile]
  /\ toClient' = Append(toClient, <<Refusal>>)

\* SV_WriteDownloadToClient, of t with all read that may be: a message without a
\* block says nothing of downloads.
Send(t, expired, blockspersnap) ==
  LET from == First(t, expired)
      to == Least(from + blockspersnap, t.currentBlock) IN
  IF t.clientBlock = t.currentBlock \/ from >= to
  THEN server' = t /\ UNCHANGED toClient
  ELSE /\ server' = [t EXCEPT !.xmitBlock = to]
       /\ toClient' = Append(toClient, [i \in 1 .. to - from |-> Written(t, from + i - 1)])

\* SV_SendClientSnapshot.
SV_SendClientSnapshot(expired, blockspersnap) ==
  /\ server.state = "connected" /\ server.downloadName # NoFile
  /\ Len(toClient) < Capacity
  /\ \/ Refuse
     \/ /\ server.download \/ ~server.refuses
        /\ \E s \in {WithReads(Opened(server))} : \E t \in {WithEnd(s)} :
             Send(t, expired, blockspersnap)
  /\ UNCHANGED <<client, clientCommands, toServer, lost, mistaken>>

-----------------------------------------------------------------------------
(* The client.  Its commands, what it has written of its files and whether  *)
(* it was mistaken go together through the blocks of one message.           *)

Command(kind, arg) == [kind |-> kind, arg |-> arg]

\* The first file has been asked for, as CL_InitDownloads leaves it.
NewClient(creates) ==
  [state |-> "connected",
   creates |-> creates,             \* can it create files
   downloadName |-> 1,              \* and downloadTempName
   downloadBlock |-> 0,
   received |-> [f \in Files |-> <<>>],
   complete |-> {},
   downloadRestart |-> TRUE]

\* CL_NextDownload, with CL_BeginDownload or CL_DownloadsComplete.  The last file
\* asked for is always the one before the first of downloadList.
NextFile(r, last) ==
  IF last < Len(Blocks)
  THEN [r EXCEPT !.client.downloadName = last + 1, !.client.downloadBlock = 0,
                 !.client.downloadRestart = TRUE,
                 !.commands = Append(@, Command("download", last + 1))]
  ELSE IF r.client.downloadRestart
  THEN [r EXCEPT !.client.downloadRestart = FALSE,
                 !.commands = Append(@, Command("donedl", 0))]
  ELSE [r EXCEPT !.client.state = "loading"]

\* Wrong: every block is taken for the one expected.
ExpectedAny(c, block) == TRUE
Expected(c, block) == c.downloadBlock = block.number

\* Wrong: an empty block is acknowledged, and is not the end of the file.
EndNever(block) == FALSE
End(block) == block.data = EndOfFile

\* A block that is the one expected is for another file.
Mistaken(r, block) == [r EXCEPT !.mistaken = @ \/ block.of # r.client.downloadName]

\* A block that is the one expected: written, acknowledged, perhaps the last.
Taken(r, block) ==
  LET f == r.client.downloadName
      acknowledged == Append(r.commands, Command("nextdl", r.client.downloadBlock)) IN
  IF ~End(block)
  THEN [r EXCEPT !.client.received[f] = Append(@, block.data),
                 !.client.downloadBlock = @ + 1, !.commands = acknowledged]
  ELSE NextFile([r EXCEPT !.client.downloadName = NoFile, !.client.downloadBlock = @ + 1,
                          !.client.complete = @ \union {f}, !.commands = acknowledged,
                          !.sent = acknowledged],
                f)

\* CL_ParseDownload.  A block that was not requested is not read over: what
\* follows the command byte is parsed as commands, and its first byte, the low one
\* of the number, is illegible in block 0; others may end the message.
ParsedBlock(r, block, ends) ==
  IF r.client.state = "dropped" \/ r.ended THEN r
  ELSE IF r.client.downloadName = NoFile
  THEN [r EXCEPT !.client.state = IF ends /\ block.number # 0 THEN @ ELSE "dropped",
                 !.commands = Append(@, Command("stopdl", 0)), !.ended = TRUE]
  ELSE IF block.refused THEN [r EXCEPT !.client.state = "dropped"]
  ELSE IF ~Expected(r.client, block) THEN r
  ELSE IF ~r.client.creates
  THEN NextFile([Mistaken(r, block) EXCEPT !.commands = Append(@, Command("stopdl", 0))],
                r.client.downloadName)
  ELSE Taken(Mistaken(r, block), block)

Read(blocks, ends) ==
  LET Parse(r, block) == ParsedBlock(r, block, ends) IN
  FoldLeft(Parse, [client |-> client, commands |-> clientCommands,
                   sent |-> <<>>, ended |-> FALSE, mistaken |-> mistaken], blocks)

\* CL_ParseServerMessage, of the download blocks.  At the end of a file the client
\* writes packets while it parses.
CL_ParseServerMessage(ends) ==
  /\ toClient # <<>>
  /\ client.state # "dropped"
  /\ Len(clientCommands) <= MaxCommands
  /\ \E r \in {Read(Head(toClient), ends)} :
     /\ client' = r.client
     /\ mistaken' = r.mistaken
     /\ clientCommands' = r.commands
     /\ toServer' = IF r.sent # <<>> /\ Len(toServer) < Capacity
                    THEN Append(toServer, Len(r.sent)) ELSE toServer
  /\ toClient' = Tail(toClient)
  /\ UNCHANGED <<server, lost>>

\* CL_WritePacket, of the commands the server may not have.
CL_WritePacket ==
  /\ client.state # "dropped"
  /\ Len(toServer) < Capacity
  /\ server.lastClientCommand < Len(clientCommands)
  /\ toServer' = Append(toServer, Len(clientCommands))
  /\ UNCHANGED <<server, client, clientCommands, toClient, lost, mistaken>>

-----------------------------------------------------------------------------
Lose ==
  /\ lost < MaxLost /\ lost' = lost + 1
  /\ \/ toServer # <<>> /\ toServer' = Tail(toServer) /\ UNCHANGED toClient
     \/ toClient # <<>> /\ toClient' = Tail(toClient) /\ UNCHANGED toServer
  /\ UNCHANGED <<server, client, clientCommands, mistaken>>

Init ==
  /\ \E refuses \in BOOLEAN : server = NewServer(refuses)
  /\ \E creates \in BOOLEAN : client = NewClient(creates)
  /\ clientCommands = <<Command("download", 1)>>
  /\ toServer = <<>> /\ toClient = <<>>
  /\ lost = 0
  /\ mistaken = FALSE

Next ==
  \/ SV_ExecuteClientMessage
  \/ \E expired \in BOOLEAN, blockspersnap \in 1 .. MaxBlocksPerSnap :
       SV_SendClientSnapshot(expired, blockspersnap)
  \/ \E ends \in BOOLEAN : CL_ParseServerMessage(ends)
  \/ CL_WritePacket
  \/ Lose

Spec == Init /\ [][Next]_vars

\* Both programs go round their frame loops, and time goes by between snapshots.
Fairness ==
  /\ WF_vars(SV_ExecuteClientMessage)
  /\ WF_vars(\E blockspersnap \in 1 .. MaxBlocksPerSnap :
               SV_SendClientSnapshot(TRUE, blockspersnap))
  /\ WF_vars(\E ends \in BOOLEAN : CL_ParseServerMessage(ends))
  /\ WF_vars(CL_WritePacket)

FairSpec == Spec /\ Fairness
-----------------------------------------------------------------------------
(* Properties.                                                             *)

\* The kinds of values the variables take; the server never has more blocks
\* waiting for the client than there are buffers, and sends none it has not read.
TypeOK ==
  /\ server.state \in {"connected", "primed", "zombie"}
  /\ server.downloadName \in Files \union {NoFile}
  /\ server.currentBlock <= server.clientBlock + MAX_DOWNLOAD_WINDOW
  /\ server.xmitBlock <= server.currentBlock
  /\ server.lastClientCommand \in 0 .. Len(clientCommands)
  /\ client.state \in {"connected", "loading", "dropped"}
  /\ client.downloadName \in Files \union {NoFile}
  /\ client.complete \subseteq Files
  /\ Len(toServer) <= Capacity /\ Len(toClient) <= Capacity
  /\ lost \in 0 .. MaxLost
  /\ mistaken \in BOOLEAN

\* A file the client takes for complete is the server's.
EveryFileIntact == \A f \in client.complete : client.received[f] = Contents(f)

\* It is, although blocks are lost, sent again after others have taken their buffers,
\* and arrive late, unless one of them was taken for a block of another file.
FilesIntact == ~mistaken => EveryFileIntact

\* What "nextdl" acknowledges is what the server waits for ("it should be the same
\* as cl->downloadClientBlock", sv_client.cpp:723): an honest client is never
\* dropped for a broken download.
NeverBroken == server.state # "zombie"

\* The counters of blocks stay within the window, and the acknowledgements with
\* them: only a block taken for one of another file breaks a download, or moves the
\* window past what was read.
WindowKept ==
  TypeOK /\ (~mistaken => NeverBroken /\ server.clientBlock <= server.currentBlock)

\* The files the server lets the client have arrive, whatever messages were lost.
FilesArrive ==
  (client.creates /\ ~server.refuses) ~> (client.complete = Files \/ mistaken)

\* A download the server does not refuse comes to an end there, whether or not the
\* client can write the files: it is sent the gamestate, unless it has gone.  (A
\* refusal is sent once, in a snapshot; when that is lost the client waits forever.)
DownloadEnds ==
  ~server.refuses ~> (server.state # "connected" \/ client.state = "dropped")

\* Losses do not stop a download: it ends, and with the files where there is nothing
\* against it.
DownloadSucceeds == FilesArrive /\ DownloadEnds
===========================================================================
