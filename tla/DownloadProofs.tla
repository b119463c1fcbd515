--------------------------- MODULE DownloadProofs ---------------------------
(***************************************************************************)
(* Proofs about downloads, for every list of files, every length of the    *)
(* window, number of blocks in a snapshot and number of losses and          *)
(* retransmissions.                                                        *)
(*                                                                         *)
(* What is promised ends when a block is taken for one of another file      *)
(* (mistaken); until then the client is at the file the server sends, or at *)
(* the beginning of the next, and what it has acknowledged, what the server *)
(* waits for and what is on its way fit together.                          *)
(***************************************************************************)
EXTENDS Download, FiniteSetTheorems, SequenceTheorems, NaturalsInduction, TLAPS

\* What block n of a file holds.
Data(f, n) == IF n < Blocks[f] THEN Part(f, n) ELSE EndOfFile

\* The buffer of a block.  The lemmas say all that is needed of it: the provers
\* cope badly with a remainder by a variable.
Place(p, L) == p % L

Names == Files \union {NoFile}
Datas == [file : Names, part : Nat]
BlockMessages == [number : Int, refused : BOOLEAN, data : Datas, of : Names]
Commands ==
  [kind : {"nextdl", "stopdl", "donedl"}, arg : Nat] \union [kind : {"download"}, arg : Files]

Servers ==
  [downloadName : Names, download : BOOLEAN, refuses : BOOLEAN,
   clientBlock : Nat, currentBlock : Nat, xmitBlock : Nat, count : Nat, eof : BOOLEAN,
   blocks : [0 .. MAX_DOWNLOAD_WINDOW - 1 -> Datas], lastClientCommand : Nat,
   state : {"connected", "primed", "zombie"}]

Clients ==
  [state : {"connected", "loading", "dropped"}, creates : BOOLEAN,
   downloadName : Names, downloadBlock : Nat, received : [Files -> Seq(Datas)],
   complete : SUBSET Files, downloadRestart : BOOLEAN]

\* What is true of the counters whatever the client acknowledges.
Windowed(s) ==
  /\ s \in Servers
  /\ s.currentBlock <= s.clientBlock + MAX_DOWNLOAD_WINDOW
  /\ s.xmitBlock <= s.currentBlock
  /\ s.download => s.downloadName \in Files /\ s.count <= Blocks[s.downloadName]

\* The blocks of file f that wait for the client are in their buffers.
Filled(s, f) ==
  \A n \in s.clientBlock .. s.currentBlock - 1 :
    s.blocks[Place(n, MAX_DOWNLOAD_WINDOW)] = Data(f, n)

\* The server has not begun with file f, of which the client has nothing; it has
\* executed l of the commands that ask for it and acknowledge its blocks, and top
\* blocks of it have been read.
Waits(s, f, top, a, l) ==
  /\ ~s.download /\ a = 0 /\ top = 0 /\ l <= 1
  /\ s.downloadName \in {NoFile, f} /\ (l = 0 => s.downloadName = NoFile)
  /\ s.clientBlock <= s.currentBlock

\* The server sends file f, of which the client has acknowledged a blocks.
Runs(s, f, top, a, l) ==
  /\ top = s.currentBlock /\ l >= 1
  /\ s.clientBlock <= a /\ a <= s.currentBlock /\ s.count <= Blocks[f]
  /\ IF s.eof THEN s.count = Blocks[f] /\ s.currentBlock = Blocks[f] + 1
              ELSE s.currentBlock = s.count
  /\ l <= a + 1 => s.clientBlock = Least(l - 1, Blocks[f])
  /\ s.downloadName = IF s.download THEN f ELSE NoFile
  /\ Filled(s, f)

Serves(s, f, top, a, l) ==
  /\ Windowed(s) /\ s.state # "zombie"
  /\ Waits(s, f, top, a, l) \/ Runs(s, f, top, a, l)

\* The command after the k-th asks for file f; those after it acknowledge its first a
\* blocks; from the k-th on none does either.
Asks(commands, k, f) ==
  k + 1 <= Len(commands) /\ commands[k + 1] = Command("download", f)

Acks(commands, k, a) ==
  /\ k + 1 + a <= Len(commands)
  /\ \A i \in 1 .. a : commands[k + 1 + i] = Command("nextdl", i - 1)

Ends(commands, k) ==
  \A i \in k + 1 .. Len(commands) : commands[i].kind \in {"stopdl", "donedl"}

\* The file the client is at, or was at last.
File(c) == IF c.downloadName = NoFile THEN Len(Blocks) ELSE c.downloadName

\* Server and client are at the same file, which the command after the k-th asks for.
Together(s, commands, c, f, k, top) ==
  /\ f = File(c)
  /\ Serves(s, f, top, c.downloadBlock, s.lastClientCommand - k)
  /\ Asks(commands, k, f) /\ Acks(commands, k, c.downloadBlock)
  /\ Ends(commands, k + 1 + c.downloadBlock)
  /\ c.downloadName # NoFile => Len(commands) = k + 1 + c.downloadBlock

\* The client has all of the server's file, and has asked for the next.
Behind(s, commands, c, f, k, top) ==
  /\ c.downloadName = f + 1 /\ c.downloadBlock = 0
  /\ Serves(s, f, top, Blocks[f] + 1, s.lastClientCommand - k)
  /\ s.lastClientCommand <= k + Blocks[f] + 2
  /\ Acks(commands, k, Blocks[f] + 1) /\ Asks(commands, k + Blocks[f] + 2, f + 1)
  /\ Len(commands) = k + Blocks[f] + 3

Linked(s, commands, c, f, k, top) ==
  /\ f \in Files /\ k \in Nat /\ top \in Nat /\ k <= s.lastClientCommand
  /\ \/ Together(s, commands, c, f, k, top)
     \/ Behind(s, commands, c, f, k, top)

\* What the client has of its files: all of those before, and the beginning of this.
Intact(c) ==
  /\ c.complete = IF c.downloadName = NoFile THEN Files ELSE 1 .. c.downloadName - 1
  /\ \A h \in c.complete : c.received[h] = Contents(h)
  /\ \A h \in Files : c.downloadName # NoFile /\ h > c.downloadName => c.received[h] = <<>>
  /\ IF c.downloadName = NoFile
     THEN c.downloadBlock = Blocks[Len(Blocks)] + 1
     ELSE /\ c.downloadBlock <= Blocks[c.downloadName]
          /\ c.received[c.downloadName] =
               [i \in 1 .. c.downloadBlock |-> Part(c.downloadName, i - 1)]
  /\ c.downloadBlock <= SHORT_LIMIT

\* A block on its way is of a file the server has begun; one of the client's file is
\* one the server has read, and if the client may still take it, it was not
\* overwritten before it was sent.
BlockOK(b, c, f, top) ==
  b.refused \/ /\ b.of \in 1 .. f
               /\ b.of = c.downloadName =>
                    \E n \in 0 .. top - 1 :
                      b.number = Short(n) /\ (n >= c.downloadBlock => b.data = Data(b.of, n))

BlocksOK(blocks, c, f, top) == \A j \in 1 .. Len(blocks) : BlockOK(blocks[j], c, f, top)

ToClientOK(messages, c, f, top) ==
  \A i \in 1 .. Len(messages) : BlocksOK(messages[i], c, f, top)

\* A client that cannot create files acknowledges nothing.
Quiet(s, commands, c) ==
  /\ \A i \in 1 .. Len(commands) : commands[i].kind # "nextdl"
  /\ s.clientBlock <= s.currentBlock /\ s.state # "zombie" /\ c.complete = {}

Exact(s, commands, c, messages) ==
  /\ Intact(c)
  /\ \E f, k, top \in Nat :
       Linked(s, commands, c, f, k, top) /\ ToClientOK(messages, c, f, top)

ToServerOK(messages, n) ==
  /\ messages \in Seq(Nat) /\ Len(messages) <= Capacity
  /\ \A i \in 1 .. Len(messages) : messages[i] <= n

Types ==
  /\ Windowed(server) /\ client \in Clients /\ clientCommands \in Seq(Commands)
  /\ server.lastClientCommand <= Len(clientCommands)
  /\ ToServerOK(toServer, Len(clientCommands))
  /\ toClient \in Seq(Seq(BlockMessages)) /\ Len(toClient) <= Capacity
  /\ lost \in 0 .. MaxLost /\ mistaken \in BOOLEAN

IInv ==
  /\ Types
  /\ IF client.creates THEN mistaken \/ Exact(server, clientCommands, client, toClient)
                       ELSE Quiet(server, clientCommands, client)
-----------------------------------------------------------------------------
(* The constants, places in the window, and numbers through a short.        *)

LEMMA Sizes ==
  /\ MAX_DOWNLOAD_WINDOW \in Nat \ {0} /\ SHORT_LIMIT \in Nat \ {0}
  /\ MAX_DOWNLOAD_WINDOW <= SHORT_LIMIT
  /\ MaxBlocksPerSnap \in Nat \ {0} /\ MaxLost \in Nat /\ Capacity \in Nat \ {0}
BY DownloadAssumption

LEMMA FilesAre ==
  /\ Len(Blocks) \in Nat \ {0} /\ Files = 1 .. Len(Blocks) /\ NoFile \notin Files
  /\ 1 \in Files /\ Len(Blocks) \in Files /\ Files \subseteq Nat
  /\ \A f \in Files : Blocks[f] \in Nat \ {0} /\ f \in Nat /\ f # 0
<1>1. Blocks \in Seq(Nat \ {0}) /\ Blocks # <<>>
  BY DownloadAssumption
<1>2. Len(Blocks) \in Nat \ {0}
  BY <1>1
<1>3. \A f \in 1 .. Len(Blocks) : Blocks[f] \in Nat \ {0}
  BY <1>1, ElementOfSeq
<1>. QED BY <1>2, <1>3 DEF Files, NoFile

LEMMA DataIs ==
  ASSUME NEW f \in Files, NEW n \in Nat
  PROVE  /\ Data(f, n) \in Datas /\ (Data(f, n) = EndOfFile <=> n >= Blocks[f])
         /\ (n < Blocks[f] => Data(f, n) = Part(f, n))
BY FilesAre DEF Data, Datas, Part, EndOfFile, NoFile, Names

LEMMA Division ==
  ASSUME NEW a \in Int, NEW L \in Nat \ {0}
  PROVE  a = L * (a \div L) + (a % L) /\ a \div L \in Int /\ a % L \in 0 .. L - 1
OBVIOUS

LEMMA MultiplesApart ==
  ASSUME NEW x \in Int, NEW y \in Int, NEW L \in Nat \ {0}, x < y
  PROVE  L * x + L <= L * y
OBVIOUS

LEMMA PlaceInRing ==
  ASSUME NEW p \in Int, NEW L \in Nat \ {0}
  PROVE  Place(p, L) \in 0 .. L - 1
BY DEF Place

\* Two numbers less than a window apart have different places.
LEMMA SamePlace ==
  ASSUME NEW a \in Int, NEW b \in Int, NEW L \in Nat \ {0},
         Place(a, L) = Place(b, L), a < b + L, b < a + L
  PROVE  a = b
<1> DEFINE x == a \div L  y == b \div L  r == a % L
<1>1. a = L * x + r /\ b = L * y + r /\ x \in Int /\ y \in Int /\ r \in 0 .. L - 1
  BY Division DEF Place
<1> HIDE DEF x, y, r
<1>2. ~(x < y) /\ ~(y < x)
  BY <1>1, MultiplesApart
<1>. QED BY <1>1, <1>2

\* A number below two ranges of a short arrives as the one expected only if it is it.
LEMMA ShortIs ==
  ASSUME NEW n \in Nat
  PROVE  /\ Short(n) \in Int
         /\ \A a \in Nat : n < 2 * SHORT_LIMIT /\ a = Short(n) => n = a /\ a < SHORT_LIMIT
<1> DEFINE S == SHORT_LIMIT  L == 2 * S  q == (n + S) \div L  r == (n + S) % L
<1>1. S \in Nat \ {0} /\ L \in Nat \ {0} /\ L = S + S
  BY Sizes
<1> HIDE DEF L
<1>2. n + S = L * q + r /\ q \in Int /\ r \in 0 .. L - 1
  <2>1. n + S \in Int
    BY <1>1
  <2>. QED BY <1>1, <2>1, Division
<1>3. Short(n) = r - S
  BY DEF Short, L
<1> HIDE DEF q, r, S
<1>4. ASSUME NEW a \in Nat, n < L, a = r - S PROVE n = a /\ a < S
  <2>1. n = L * q + a /\ a < S
    BY <1>1, <1>2, <1>4
  <2>2. ~(0 < q)
    <3>1. ASSUME 0 < q PROVE L * 0 + L <= L * q
      BY <1>1, <1>2, <3>1, MultiplesApart
    <3>2. L * 0 = 0 /\ L * q \in Int
      BY <1>1, <1>2
    <3>. QED BY <1>1, <1>4, <2>1, <3>1, <3>2
  <2>3. ~(q < 0)
    <3>1. ASSUME q < 0 PROVE L * q + L <= L * 0
      BY <1>1, <1>2, <3>1, MultiplesApart
    <3>2. L * 0 = 0 /\ L * q \in Int
      BY <1>1, <1>2
    <3>. QED BY <1>1, <2>1, <3>1, <3>2
  <2>4. q = 0
    BY <1>2, <2>2, <2>3
  <2>5. L * q = 0
    BY <1>1, <2>4
  <2>. QED BY <2>1, <2>5
<1>5. Short(n) \in Int
  BY <1>1, <1>2, <1>3
<1>. QED BY <1>3, <1>4, <1>5 DEF L, S

LEMMA LeastIs ==
  ASSUME NEW a \in Int, NEW b \in Int
  PROVE  /\ Least(a, b) \in {a, b} /\ Least(a, b) <= a /\ Least(a, b) <= b
         /\ (a <= b => Least(a, b) = a) /\ (b <= a => Least(a, b) = b)
BY DEF Least

-----------------------------------------------------------------------------
(* The commands the server executes.                                        *)

LEMMA ServerIs ==
  ASSUME NEW s \in Servers
  PROVE  /\ s.downloadName \in Names /\ s.download \in BOOLEAN /\ s.refuses \in BOOLEAN
         /\ s.clientBlock \in Nat /\ s.currentBlock \in Nat /\ s.xmitBlock \in Nat
         /\ s.count \in Nat /\ s.eof \in BOOLEAN
         /\ s.blocks \in [0 .. MAX_DOWNLOAD_WINDOW - 1 -> Datas]
         /\ s.lastClientCommand \in Nat /\ s.state \in {"connected", "primed", "zombie"}
BY DEF Servers

\* What no command changes.
SameBlocks(s, t) ==
  /\ t \in Servers
  /\ t.currentBlock = s.currentBlock /\ t.xmitBlock = s.xmitBlock /\ t.count = s.count
  /\ t.eof = s.eof /\ t.blocks = s.blocks

LEMMA ClosedIs ==
  ASSUME NEW s \in Servers
  PROVE  /\ SameBlocks(s, Closed(s)) /\ Closed(s).clientBlock = s.clientBlock
         /\ ~Closed(s).download /\ Closed(s).downloadName = NoFile
         /\ Closed(s).lastClientCommand = s.lastClientCommand
         /\ Closed(s).state = s.state
BY DEF Servers, Closed, SameBlocks, Names

LEMMA BegunIs ==
  ASSUME NEW s \in Servers, NEW f \in Files
  PROVE  LET t == Begun(s, f) IN
         /\ SameBlocks(s, t) /\ t.clientBlock = s.clientBlock
         /\ ~t.download /\ t.downloadName = f
         /\ t.lastClientCommand = s.lastClientCommand /\ t.state = s.state
<1> DEFINE c == Closed(s)
<1>1. /\ c \in Servers /\ SameBlocks(s, c) /\ ~c.download /\ c.clientBlock = s.clientBlock
      /\ c.lastClientCommand = s.lastClientCommand /\ c.state = s.state
  BY ClosedIs DEF SameBlocks
<1>2. Begun(s, f) = [c EXCEPT !.downloadName = f]
  BY DEF Begun
<1> HIDE DEF c
<1>. QED BY <1>1, <1>2 DEF Servers, SameBlocks, Names

LEMMA OneMore ==
  ASSUME NEW t \in Servers
  PROVE  LET u == [t EXCEPT !.lastClientCommand = @ + 1] IN
         /\ SameBlocks(t, u) /\ u.lastClientCommand = t.lastClientCommand + 1
         /\ u.clientBlock = t.clientBlock /\ u.download = t.download
         /\ u.downloadName = t.downloadName /\ u.state = t.state
<1> DEFINE l == t.lastClientCommand + 1  u == [t EXCEPT !.lastClientCommand = l]
<1>1. l \in Nat
  BY ServerIs
<1>2. u = [t EXCEPT !.lastClientCommand = @ + 1]
  BY DEF Servers
<1> HIDE DEF l
<1>3. /\ SameBlocks(t, u) /\ u.lastClientCommand = l
      /\ u.clientBlock = t.clientBlock /\ u.download = t.download
      /\ u.downloadName = t.downloadName /\ u.state = t.state
  BY <1>1 DEF Servers, SameBlocks
<1> HIDE DEF u
<1>. QED BY <1>2, <1>3 DEF l

\* Nothing but the acknowledgement of the block waited for moves the window.
LEMMA ExecutedIs ==
  ASSUME NEW s \in Servers, NEW command \in Commands, s.state # "zombie"
  PROVE  LET t == ExecutedCommand(s, command)
             b == s.clientBlock IN
         /\ SameBlocks(s, t) /\ t.lastClientCommand = s.lastClientCommand + 1
         /\ command.kind = "download" =>
              /\ t.clientBlock = b /\ t.state = s.state
              /\ ~t.download /\ t.downloadName = command.arg
         /\ command.kind = "stopdl" =>
              /\ t.clientBlock = b /\ t.state = s.state
              /\ ~t.download /\ t.downloadName = NoFile
         /\ command.kind = "donedl" =>
              /\ t.clientBlock = b /\ t.state = "primed"
              /\ t.download = s.download /\ t.downloadName = s.downloadName
         /\ command.kind = "nextdl" =>
              IF command.arg # b
              THEN /\ t.clientBlock = b /\ t.state = "zombie"
                   /\ t.download = s.download /\ t.downloadName = s.downloadName
              ELSE IF s.blocks[Place(b, MAX_DOWNLOAD_WINDOW)] = EndOfFile
              THEN /\ t.clientBlock = b /\ t.state = s.state
                   /\ ~t.download /\ t.downloadName = NoFile
              ELSE /\ t.clientBlock = b + 1 /\ t.state = s.state
                   /\ t.download = s.download /\ t.downloadName = s.downloadName
<1> DEFINE t == ExecutedCommand(s, command)  b == s.clientBlock
           More(c) == [c EXCEPT !.lastClientCommand = @ + 1]
<1>1. ASSUME NEW c, SameBlocks(s, c), c.lastClientCommand = s.lastClientCommand
      PROVE  /\ SameBlocks(s, More(c)) /\ More(c).clientBlock = c.clientBlock
             /\ More(c).lastClientCommand = s.lastClientCommand + 1
             /\ More(c).download = c.download /\ More(c).downloadName = c.downloadName
             /\ More(c).state = c.state
  <2>1. c \in Servers
    BY <1>1 DEF SameBlocks
  <2>. QED BY <1>1, <2>1, OneMore DEF SameBlocks
<1> HIDE DEF More
<1>2. CASE command.kind = "download"
  <2>1. command.arg \in Files
    BY <1>2 DEF Commands
  <2>2. t = More(Begun(s, command.arg))
    BY <1>2 DEF ExecutedCommand, More
  <2> HIDE DEF t
  <2>. QED BY <1>1, <1>2, <2>1, <2>2, BegunIs DEF t
<1>3. CASE command.kind = "stopdl"
  <2>2. t = More(Closed(s))
    BY <1>3 DEF ExecutedCommand, More
  <2> HIDE DEF t
  <2>. QED BY <1>1, <1>3, <2>2, ClosedIs DEF t
<1>4. CASE command.kind = "donedl"
  <2> DEFINE c == [s EXCEPT !.state = "primed"]
  <2>1. /\ SameBlocks(s, c) /\ c.lastClientCommand = s.lastClientCommand /\ c.state = "primed"
        /\ c.clientBlock = b /\ c.download = s.download /\ c.downloadName = s.downloadName
    BY DEF Servers, SameBlocks
  <2>2. t = More(c)
    BY <1>4 DEF ExecutedCommand, More
  <2> HIDE DEF t, c
  <2>. QED BY <1>1, <1>4, <2>1, <2>2 DEF t
<1>5. CASE command.kind = "nextdl"
  <2> DEFINE c == NextDownload(s, command.arg)
  <2>2. t = More(c)
    BY <1>5 DEF ExecutedCommand, More
  <2>3. CASE command.arg # b
    <3> DEFINE d == [s EXCEPT !.state = "zombie"]
    <3>1. c = d
      BY <2>3 DEF NextDownload
    <3>2. /\ SameBlocks(s, d) /\ d.lastClientCommand = s.lastClientCommand
          /\ d.clientBlock = b /\ d.state = "zombie"
          /\ d.download = s.download /\ d.downloadName = s.downloadName
      BY DEF Servers, SameBlocks
    <3> HIDE DEF t, c, d
    <3>. QED BY <1>1, <1>5, <2>2, <2>3, <3>1, <3>2 DEF t
  <2>4. CASE command.arg = b /\ s.blocks[Place(b, MAX_DOWNLOAD_WINDOW)] = EndOfFile
    <3>1. c = Closed(s)
      BY <2>4 DEF NextDownload, Place
    <3> HIDE DEF t, c
    <3>. QED BY <1>1, <1>5, <2>2, <2>4, <3>1, ClosedIs DEF t
  <2>5. CASE command.arg = b /\ s.blocks[Place(b, MAX_DOWNLOAD_WINDOW)] # EndOfFile
    <3> DEFINE d == [s EXCEPT !.clientBlock = b + 1]
    <3>1. c = d
      BY <2>5 DEF NextDownload, Place, Servers
    <3>2. b + 1 \in Nat
      BY ServerIs
    <3>3. /\ SameBlocks(s, d) /\ d.lastClientCommand = s.lastClientCommand
          /\ d.clientBlock = b + 1 /\ d.state = s.state
          /\ d.download = s.download /\ d.downloadName = s.downloadName
      BY <3>2 DEF Servers, SameBlocks
    <3> HIDE DEF t, c, d
    <3>. QED BY <1>1, <1>5, <2>2, <2>5, <3>1, <3>3 DEF t
  <2>. QED BY <2>3, <2>4, <2>5
<1>. QED BY <1>2, <1>3, <1>4, <1>5 DEF Commands

LEMMA ExecutedWindowed ==
  ASSUME NEW s, Windowed(s), NEW command \in Commands
  PROVE  LET t == ExecutedCommand(s, command) IN
         Windowed(t) /\ t.lastClientCommand <= s.lastClientCommand + 1
<1> DEFINE t == ExecutedCommand(s, command)
<1>1. s \in Servers
  BY DEF Windowed
<1>2. /\ s.clientBlock \in Nat /\ s.currentBlock \in Nat /\ s.lastClientCommand \in Nat
      /\ MAX_DOWNLOAD_WINDOW \in Nat
  BY <1>1, ServerIs, Sizes
<1>3. CASE s.state = "zombie"
  <2>1. t = s
    BY <1>3 DEF ExecutedCommand
  <2>. QED BY <1>2, <2>1
<1>4. CASE s.state # "zombie"
  <2>1. /\ SameBlocks(s, t) /\ t.lastClientCommand = s.lastClientCommand + 1
        /\ t.clientBlock \in {s.clientBlock, s.clientBlock + 1}
        /\ t.download => s.download /\ t.downloadName = s.downloadName
    <3>1. command.kind \in {"download", "stopdl", "donedl", "nextdl"}
      BY DEF Commands
    <3> HIDE DEF t
    <3>. QED BY <1>1, <1>4, <3>1, ExecutedIs DEF t
  <2> HIDE DEF t
  <2>2. t \in Servers /\ t.currentBlock = s.currentBlock /\ t.xmitBlock = s.xmitBlock
        /\ t.count = s.count
    BY <2>1 DEF SameBlocks
  <2>3. s.currentBlock <= t.clientBlock + MAX_DOWNLOAD_WINDOW
    <3>1. s.currentBlock <= s.clientBlock + MAX_DOWNLOAD_WINDOW
      BY DEF Windowed
    <3>. QED BY <1>2, <2>1, <3>1
  <2>4. t.lastClientCommand <= s.lastClientCommand + 1
    BY <1>2, <2>1
  <2>5. Windowed(t)
    BY <2>1, <2>2, <2>3 DEF Windowed
  <2>. QED BY <2>4, <2>5 DEF t
<1>. QED BY <1>3, <1>4
\* The server executes the acknowledgement of the block it waits for.
LEMMA RunsOn ==
  ASSUME NEW s, Windowed(s), s.state # "zombie", NEW f \in Files, NEW top, NEW a \in Nat,
         NEW l \in 1 .. a, a <= Blocks[f] + 1, Runs(s, f, top, a, l)
  PROVE  LET t == ExecutedCommand(s, Command("nextdl", l - 1)) IN
         /\ Windowed(t) /\ t.state # "zombie" /\ Runs(t, f, top, a, l + 1)
         /\ t.lastClientCommand = s.lastClientCommand + 1
<1> DEFINE command == Command("nextdl", l - 1)  t == ExecutedCommand(s, command)
           b == s.clientBlock  W == MAX_DOWNLOAD_WINDOW
<1>1. command \in Commands /\ command.kind = "nextdl" /\ command.arg = l - 1
  BY DEF Command, Commands
<1>2. s \in Servers /\ Blocks[f] \in Nat \ {0} /\ W \in Nat \ {0} /\ f # NoFile
  BY FilesAre, Sizes DEF Windowed
<1>3. b \in Nat /\ s.currentBlock \in Nat
  BY <1>2, ServerIs
<1>4. b = l - 1 /\ b <= Blocks[f] /\ b < s.currentBlock
  <2>1. b = Least(l - 1, Blocks[f])
    BY DEF Runs
  <2>2. l - 1 <= Blocks[f] /\ l - 1 \in Int
    BY <1>2
  <2>3. b = l - 1
    BY <1>2, <2>1, <2>2, LeastIs
  <2>4. a <= s.currentBlock
    BY DEF Runs
  <2>. QED BY <1>2, <1>3, <2>2, <2>3, <2>4
<1>5. s.blocks[Place(b, W)] = Data(f, b)
  <2>1. b \in b .. s.currentBlock - 1
    BY <1>3, <1>4
  <2>. QED BY <2>1, Zenon DEF Runs, Filled
<1>6. Data(f, b) = EndOfFile <=> b >= Blocks[f]
  BY <1>3, DataIs
<1>7. Windowed(t) /\ SameBlocks(s, t) /\ t.lastClientCommand = s.lastClientCommand + 1
  <2> HIDE DEF command
  <2>. QED BY <1>1, <1>2, ExecutedWindowed, ExecutedIs
<1>8. CASE b >= Blocks[f]
  <2>1. /\ t.clientBlock = b /\ t.state = s.state /\ ~t.download /\ t.downloadName = NoFile
    <3> HIDE DEF command, b
    <3>. QED BY <1>1, <1>2, <1>4, <1>5, <1>6, <1>8, ExecutedIs DEF b
  <2> HIDE DEF t, command
  <2>2. b = Least((l + 1) - 1, Blocks[f])
    <3>1. b = Blocks[f] /\ (l + 1) - 1 \in Int /\ Blocks[f] <= (l + 1) - 1
      BY <1>2, <1>3, <1>4, <1>8
    <3>. QED BY <1>2, <3>1, LeastIs
  <2>3. l + 1 >= 1
    OBVIOUS
  <2>4. Filled(t, f)
    BY <1>7, <2>1 DEF Runs, Filled, SameBlocks
  <2>5. Runs(t, f, top, a, l + 1)
    BY <1>7, <2>1, <2>2, <2>3, <2>4 DEF Runs, SameBlocks
  <2>. QED BY <1>7, <2>1, <2>5 DEF t, command
<1>9. CASE ~(b >= Blocks[f])
  <2>1. /\ t.clientBlock = b + 1 /\ t.state = s.state
        /\ t.download = s.download /\ t.downloadName = s.downloadName
    <3> HIDE DEF command, b
    <3>. QED BY <1>1, <1>2, <1>4, <1>5, <1>6, <1>9, ExecutedIs DEF b
  <2> HIDE DEF t, command
  <2>2. b + 1 = Least((l + 1) - 1, Blocks[f])
    <3>1. b + 1 = (l + 1) - 1 /\ (l + 1) - 1 \in Int /\ (l + 1) - 1 <= Blocks[f]
      BY <1>2, <1>3, <1>4, <1>9
    <3>. QED BY <1>2, <3>1, LeastIs
  <2>3. l + 1 >= 1 /\ b + 1 <= a
    BY <1>4
  <2>4. Filled(t, f)
    <3>1. \A n \in b + 1 .. s.currentBlock - 1 : n \in b .. s.currentBlock - 1
      BY <1>3
    <3>. QED BY <1>7, <2>1, <3>1 DEF Runs, Filled, SameBlocks
  <2>5. Runs(t, f, top, a, l + 1)
    BY <1>7, <2>1, <2>2, <2>3, <2>4 DEF Runs, SameBlocks
  <2>. QED BY <1>7, <2>1, <2>5 DEF t, command
<1>. QED BY <1>8, <1>9

\* The client gets as far as it does only with blocks the server has sent it.
LEMMA ServerExecutes ==
  ASSUME NEW s, Windowed(s), NEW commands \in Seq(Commands), NEW c \in Clients, Intact(c),
         s.lastClientCommand < Len(commands), NEW messages,
         NEW f \in Nat, NEW k \in Nat, NEW top \in Nat, Linked(s, commands, c, f, k, top),
         ToClientOK(messages, c, f, top)
  PROVE  LET t == ExecutedCommand(s, commands[s.lastClientCommand + 1]) IN
         /\ Windowed(t) /\ t.lastClientCommand = s.lastClientCommand + 1
         /\ \E g, j, p \in Nat :
              Linked(t, commands, c, g, j, p) /\ ToClientOK(messages, c, g, p)
<1> DEFINE m == s.lastClientCommand  l == m - k  command == commands[m + 1]
           t == ExecutedCommand(s, command)  n == Len(commands)  a == c.downloadBlock
<1>1. s \in Servers /\ n \in Nat /\ f \in Files /\ f \in Nat /\ Blocks[f] \in Nat \ {0}
  BY FilesAre, LenProperties DEF Windowed, Linked
<1>2. m \in Nat /\ l \in Nat /\ m + 1 \in 1 .. n /\ s.clientBlock \in Nat
      /\ a \in Nat /\ s.currentBlock \in Nat
  BY <1>1, ServerIs DEF Linked, Clients
<1>3. command \in Commands
  BY <1>2, ElementOfSeq
<1>4. a <= Blocks[f] + 1 \/ f # File(c)
  <2>1. f = File(c) => a <= Blocks[f] + 1
    BY <1>1, <1>2 DEF Intact, File
  <2>. QED BY <2>1
<1>5. CASE Together(s, commands, c, f, k, top)
  <2> HIDE DEF t, command, n, a, l, m
  <2>1. /\ f = File(c) /\ Serves(s, f, top, a, l) /\ Asks(commands, k, f)
        /\ Acks(commands, k, a) /\ Ends(commands, k + 1 + a)
        /\ c.downloadName # NoFile => n = k + 1 + a
    BY <1>5 DEF Together, a, l, m, n
  <2>2. ASSUME Serves(t, f, top, a, l + 1), t.lastClientCommand = m + 1
        PROVE  Linked(t, commands, c, f, k, top)
    <3>1. (m + 1) - k = l + 1 /\ k <= m + 1
      BY <1>2 DEF l
    <3>. QED BY <1>1, <2>1, <2>2, <3>1 DEF Linked, Together, a, n
  <2>3. CASE l = 0
    <3>1. command = Command("download", f) /\ command.kind = "download" /\ command.arg = f
      <4>1. m + 1 = k + 1
        BY <1>2, <2>3 DEF l
      <4>. QED BY <2>1, <4>1 DEF Asks, Command, command
    <3>2. /\ Windowed(t) /\ SameBlocks(s, t) /\ t.lastClientCommand = m + 1
          /\ t.clientBlock = s.clientBlock /\ t.state = s.state
          /\ ~t.download /\ t.downloadName = f
      BY <1>1, <1>3, <2>1, <3>1, ExecutedIs, ExecutedWindowed DEF t, m, Serves
    <3>3. Waits(s, f, top, a, l)
      BY <2>1, <2>3 DEF Serves, Runs
    <3>4. Waits(t, f, top, a, l + 1)
      BY <2>3, <3>2, <3>3 DEF Waits, SameBlocks
    <3>5. Serves(t, f, top, a, l + 1)
      BY <2>1, <3>2, <3>4 DEF Serves
    <3>. QED BY <1>1, <2>2, <3>2, <3>5 DEF t, m, command
  <2>4. CASE l \in 1 .. a
    <3>1. command = Command("nextdl", l - 1)
      <4>1. m + 1 = k + 1 + l
        BY <1>2 DEF l
      <4>. QED BY <2>1, <2>4, <4>1 DEF Acks, command
    <3>2. Runs(s, f, top, a, l)
      BY <2>1, <2>4 DEF Serves, Waits
    <3>3. /\ Windowed(t) /\ t.state # "zombie" /\ Runs(t, f, top, a, l + 1)
          /\ t.lastClientCommand = m + 1
      BY <1>1, <1>2, <1>4, <2>1, <2>4, <3>1, <3>2, RunsOn DEF t, m, Serves
    <3>4. Serves(t, f, top, a, l + 1)
      BY <3>3 DEF Serves
    <3>. QED BY <1>1, <2>2, <3>3, <3>4 DEF t, m, command
  <2>5. CASE l > a
    <3>1. command.kind \in {"stopdl", "donedl"}
      <4>1. m + 1 \in k + 1 + a + 1 .. n
        BY <1>1, <1>2, <2>5 DEF l
      <4>. QED BY <2>1, <4>1 DEF Ends, command, n
    <3>2. c.downloadName = NoFile
      <4>1. n # k + 1 + a
        BY <1>1, <1>2, <2>5 DEF l
      <4>. QED BY <2>1, <4>1
    <3>3. a # 0
      BY <2>1, <3>2, <1>1 DEF Intact, File, a
    <3>4. Runs(s, f, top, a, l)
      BY <2>1, <3>3 DEF Serves, Waits
    <3>5. /\ Windowed(t) /\ SameBlocks(s, t) /\ t.lastClientCommand = m + 1
          /\ t.clientBlock = s.clientBlock /\ t.state # "zombie"
          /\ t.downloadName = IF t.download THEN f ELSE NoFile
      BY <1>1, <1>3, <2>1, <3>1, <3>4, ExecutedIs, ExecutedWindowed DEF t, m, Serves, Runs
    <3>6. l + 1 >= 1 /\ ~(l + 1 <= a + 1)
      BY <1>2, <2>5
    <3>7. Filled(t, f)
      BY <3>4, <3>5 DEF Runs, Filled, SameBlocks
    <3>8. Runs(t, f, top, a, l + 1)
      BY <3>4, <3>5, <3>6, <3>7 DEF Runs, SameBlocks
    <3>9. Serves(t, f, top, a, l + 1)
      BY <3>5, <3>8 DEF Serves
    <3>. QED BY <1>1, <2>2, <3>5, <3>9 DEF t, m, command
  <2>. QED BY <1>2, <2>3, <2>4, <2>5
<1>6. CASE Behind(s, commands, c, f, k, top)
  <2> DEFINE P == Blocks[f]
  <2> HIDE DEF t, command, n, a, l, m
  <2>1. /\ c.downloadName = f + 1 /\ a = 0 /\ Serves(s, f, top, P + 1, l)
        /\ m <= k + P + 2 /\ Acks(commands, k, P + 1) /\ Asks(commands, k + P + 2, f + 1)
        /\ n = k + P + 3
    BY <1>6 DEF Behind, a, l, m, n
  <2>2. Runs(s, f, top, P + 1, l) /\ l >= 1
    <3>1. P + 1 # 0
      BY <1>1
    <3>. QED BY <2>1, <3>1 DEF Serves, Waits, Runs
  <2>3. CASE l <= P + 1
    <3>1. l \in 1 .. P + 1 /\ P + 1 \in Nat
      BY <1>1, <1>2, <2>2, <2>3
    <3>2. command = Command("nextdl", l - 1)
      <4>1. m + 1 = k + 1 + l
        BY <1>2 DEF l
      <4>. QED BY <2>1, <3>1, <4>1 DEF Acks, command
    <3>3. /\ Windowed(t) /\ t.state # "zombie" /\ Runs(t, f, top, P + 1, l + 1)
          /\ t.lastClientCommand = m + 1
      <4>1. P + 1 <= P + 1
        BY <3>1
      <4> HIDE DEF P
      <4>. QED BY <1>1, <2>1, <2>2, <3>1, <3>2, <4>1, RunsOn DEF t, m, Serves, P
    <3>4. Serves(t, f, top, P + 1, l + 1)
      BY <3>3 DEF Serves
    <3>5. (m + 1) - k = l + 1 /\ k <= m + 1 /\ m + 1 <= k + P + 2
      BY <1>1, <1>2, <2>3 DEF l
    <3>6. Behind(t, commands, c, f, k, top)
      BY <2>1, <3>3, <3>4, <3>5 DEF Behind, a, n
    <3>7. Linked(t, commands, c, f, k, top)
      BY <1>1, <3>3, <3>5, <3>6 DEF Linked
    <3>. QED BY <1>1, <3>3, <3>7 DEF t, m, command
  <2>4. CASE ~(l <= P + 1)
    <3> DEFINE j == k + P + 2
    <3>1. m = j /\ j \in Nat /\ m - j = 0
      <4>1. /\ m \in Nat /\ k \in Nat /\ P \in Nat /\ m <= k + P + 2 /\ ~(m - k <= P + 1)
        BY <1>1, <1>2, <2>1, <2>4 DEF l
      <4> HIDE DEF m, P
      <4>. QED BY <4>1
    <3>2. command = Command("download", f + 1) /\ command.kind = "download"
          /\ command.arg = f + 1
      BY <2>1, <3>1 DEF Asks, Command, command
    <3>3. /\ Windowed(t) /\ SameBlocks(s, t) /\ t.lastClientCommand = m + 1
          /\ t.clientBlock = s.clientBlock /\ t.state = s.state
          /\ ~t.download /\ t.downloadName = f + 1
      BY <1>1, <1>3, <2>1, <3>2, ExecutedIs, ExecutedWindowed DEF t, m, Serves
    <3>4. f + 1 \in Files /\ f + 1 \in Nat /\ f + 1 # NoFile /\ File(c) = f + 1
      <4>1. c.downloadName \in Names
        BY DEF Clients
      <4>2. f + 1 # NoFile
        BY <1>1 DEF NoFile
      <4>. QED BY <1>1, <2>1, <4>1, <4>2 DEF Names, File
    <3>5. s.clientBlock <= s.currentBlock
      <4>1. s.clientBlock <= P + 1 /\ P + 1 <= s.currentBlock
        BY <2>2 DEF Runs
      <4>. QED BY <1>1, <1>2, <4>1
    <3>6. (m + 1) - j = 1
      BY <3>1
    <3>7. Waits(t, f + 1, 0, 0, 1)
      <4>1. t.clientBlock <= t.currentBlock
        BY <3>3, <3>5 DEF SameBlocks
      <4>. QED BY <3>3, <4>1 DEF Waits
    <3>8. Serves(t, f + 1, 0, a, (m + 1) - j)
      BY <2>1, <3>3, <3>6, <3>7 DEF Serves
    <3>9. /\ n = j + 1 + a /\ j + 1 + a <= n /\ j <= m + 1
      <4>1. n = k + P + 3 /\ a = 0 /\ k \in Nat /\ P \in Nat /\ m \in Nat
        BY <1>1, <1>2, <2>1
      <4> HIDE DEF P
      <4>2. n = j + 1 /\ j \in Nat /\ m = j
        BY <3>1, <4>1
      <4> HIDE DEF j
      <4>. QED BY <4>1, <4>2
    <3>10. Acks(commands, j, a)
      BY <2>1, <3>9 DEF Acks, n
    <3>11. Ends(commands, j + 1 + a)
      BY <1>1, <3>1, <3>9 DEF Ends, n
    <3>12. Asks(commands, j, f + 1)
      BY <2>1 DEF Asks
    <3>13. Together(t, commands, c, f + 1, j, 0)
      BY <3>3, <3>4, <3>8, <3>9, <3>10, <3>11, <3>12 DEF Together, a, n
    <3>14. Linked(t, commands, c, f + 1, j, 0)
      BY <3>1, <3>3, <3>4, <3>9, <3>13 DEF Linked
    <3>15. ToClientOK(messages, c, f + 1, 0)
      <4>1. ASSUME NEW b, BlockOK(b, c, f, top) PROVE BlockOK(b, c, f + 1, 0)
        <5>1. b.of \in 1 .. f => b.of \in 1 .. f + 1 /\ b.of # f + 1
          BY <1>1
        <5>. QED BY <2>1, <4>1, <5>1 DEF BlockOK
      <4>. QED BY <4>1 DEF ToClientOK, BlocksOK
    <3>. QED BY <3>1, <3>3, <3>4, <3>14, <3>15 DEF t, m, command
  <2>. QED BY <2>3, <2>4
<1>. QED BY <1>5, <1>6 DEF Linked

\* Commands with no acknowledgement among them move nothing.
LEMMA QuietExecutes ==
  ASSUME NEW s, Windowed(s), NEW command \in Commands, command.kind # "nextdl",
         s.clientBlock <= s.currentBlock, s.state # "zombie"
  PROVE  LET t == ExecutedCommand(s, command) IN
         /\ Windowed(t) /\ t.lastClientCommand = s.lastClientCommand + 1
         /\ t.clientBlock <= t.currentBlock /\ t.state # "zombie"
<1>1. s \in Servers /\ command.kind \in {"download", "stopdl", "donedl"}
  BY DEF Windowed, Commands
<1> DEFINE t == ExecutedCommand(s, command)
<1>2. /\ Windowed(t) /\ SameBlocks(s, t) /\ t.lastClientCommand = s.lastClientCommand + 1
      /\ t.clientBlock = s.clientBlock /\ t.state \in {s.state, "primed"}
  BY <1>1, ExecutedIs, ExecutedWindowed
<1> HIDE DEF t
<1>. QED BY <1>2 DEF SameBlocks, t

-----------------------------------------------------------------------------
(* Folds.  FoldLeft is a recursion over sets of places, of which only the   *)
(* first so many are met; Max goes through them from above.  One            *)
(* description serves both programs: the mode says whose step it is.        *)

StepOf(mode, r, x) ==
  IF mode = "server" THEN ExecutedCommand(r, x) ELSE ParsedBlock(r, x, mode = "ends")

LEMMA LeastOf ==
  ASSUME NEW S \in SUBSET Nat, S # {}
  PROVE  \E x \in S : \A y \in S : x <= y
<1> DEFINE R == OpToRel(<, Nat)
<1>1. IsWellFoundedOn(R, Nat)
  BY NatLessThanWellFounded
<1>2. \A x, y \in Nat : x < y => <<x, y>> \in R
  BY DEF OpToRel
<1> HIDE DEF R
<1>3. PICK x \in S : \A y \in S : <<y, x>> \notin R
  BY <1>1, WFMin
<1>4. \A y \in S : x <= y
  <2> SUFFICES ASSUME NEW y \in S PROVE x <= y
    OBVIOUS
  <2>1. x \in Nat /\ y \in Nat /\ <<y, x>> \notin R
    BY <1>3
  <2>. QED BY <1>2, <2>1
<1>. QED BY <1>4

\* What is true of none and passed on from each number to the next is true of all.
LEMMA Counting ==
  ASSUME NEW n \in Nat, NEW good, 0 \in good,
         \A k \in 0 .. n - 1 : k \in good => k + 1 \in good
  PROVE  n \in good
<1> DEFINE wrong == {k \in 0 .. n : k \notin good}
<1>1. ASSUME wrong # {} PROVE FALSE
  <2>5. wrong \in SUBSET Nat
    OBVIOUS
  <2>1. PICK x \in wrong : \A y \in wrong : x <= y
    <3> HIDE DEF wrong
    <3>. QED BY <1>1, <2>5, LeastOf
  <2>2. x \in 0 .. n /\ x \notin good /\ x # 0
    BY <2>1
  <2>3. x - 1 \in 0 .. n - 1 /\ x - 1 \notin wrong /\ (x - 1) + 1 = x
    BY <2>1, <2>2
  <2>4. x - 1 \in good
    BY <2>3
  <2>. QED BY <2>2, <2>3, <2>4
<1>2. n \in 0 .. n
  OBVIOUS
<1>. QED BY <1>1, <1>2

LEMMA MaxIs ==
  ASSUME NEW S \in SUBSET Nat, NEW x \in S, \A y \in S : y <= x
  PROVE  Max(S) = x
<1>1. \E z \in S : \A y \in S : z >= y
  OBVIOUS
<1>2. Max(S) \in S /\ \A y \in S : Max(S) >= y
  BY <1>1, Zenon DEF Max
<1> DEFINE m == Max(S)
<1>3. m \in Nat /\ x \in Nat /\ m >= x /\ m <= x
  BY <1>2
<1> HIDE DEF m
<1>4. m = x
  BY <1>3
<1>. QED BY <1>4 DEF m

Recursion(g, m, s, xs, k) ==
  g = [t \in SUBSET (1 .. k) |->
         IF t = {} THEN s ELSE StepOf(m, g[t \ {Max(t)}], xs[Max(t)])]

LEMMA RecursionGoesOn ==
  ASSUME NEW m, NEW s, NEW xs, NEW k \in Nat, NEW g, Recursion(g, m, s, xs, k)
  PROVE  \E h : Recursion(h, m, s, xs, k + 1)
<1> DEFINE n == k + 1
           h == [t \in SUBSET (1 .. n) |->
                   IF n \in t THEN StepOf(m, g[t \ {n}], xs[n]) ELSE g[t]]
<1>1. ASSUME NEW t \in SUBSET (1 .. n), n \in t
      PROVE  h[t] = StepOf(m, h[t \ {Max(t)}], xs[Max(t)]) /\ t # {}
  <2>1. Max(t) = n
    <3>1. t \in SUBSET Nat /\ \A y \in t : y <= n
      OBVIOUS
    <3>. QED BY <1>1, <3>1, MaxIs
  <2>2. t \ {n} \in SUBSET (1 .. n) /\ n \notin t \ {n}
    OBVIOUS
  <2>3. h[t \ {n}] = g[t \ {n}]
    BY <2>2
  <2>4. h[t] = StepOf(m, g[t \ {n}], xs[n])
    BY <1>1
  <2> HIDE DEF h, n
  <2>. QED BY <1>1, <2>1, <2>3, <2>4
<1>2. ASSUME NEW t \in SUBSET (1 .. n), n \notin t
      PROVE  h[t] = IF t = {} THEN s ELSE StepOf(m, h[t \ {Max(t)}], xs[Max(t)])
  <2>1. t \in SUBSET (1 .. k) /\ h[t] = g[t]
    BY <1>2
  <2>2. t \ {Max(t)} \in SUBSET (1 .. n) /\ n \notin t \ {Max(t)}
    BY <1>2
  <2>3. h[t \ {Max(t)}] = g[t \ {Max(t)}]
    BY <2>2
  <2>4. g[t] = IF t = {} THEN s ELSE StepOf(m, g[t \ {Max(t)}], xs[Max(t)])
    BY <2>1, Zenon DEF Recursion
  <2> HIDE DEF h, n
  <2>. QED BY <2>1, <2>3, <2>4
<1>3. h = [t \in SUBSET (1 .. n) |-> h[t]]
  OBVIOUS
<1> HIDE DEF h, n
<1>4. \A t \in SUBSET (1 .. n) :
        h[t] = IF t = {} THEN s ELSE StepOf(m, h[t \ {Max(t)}], xs[Max(t)])
  BY <1>1, <1>2
<1>5. h = [t \in SUBSET (1 .. n) |->
             IF t = {} THEN s ELSE StepOf(m, h[t \ {Max(t)}], xs[Max(t)])]
  BY <1>3, <1>4, Zenon
<1>. QED BY <1>5 DEF Recursion, n

LEMMA RecursionExists ==
  ASSUME NEW m, NEW s, NEW xs, NEW n \in Nat
  PROVE  \E g : Recursion(g, m, s, xs, n)
<1> DEFINE good == {k \in Nat : \E g : Recursion(g, m, s, xs, k)}
<1>1. 0 \in good
  <2> DEFINE g == [t \in {{}} |-> s]
  <2>1. SUBSET (1 .. 0) = {{}}
    OBVIOUS
  <2>2. g = [t \in SUBSET (1 .. 0) |->
               IF t = {} THEN s ELSE StepOf(m, g[t \ {Max(t)}], xs[Max(t)])]
    BY <2>1
  <2>. QED BY <2>2 DEF Recursion
<1>2. ASSUME NEW k \in 0 .. n - 1, k \in good PROVE k + 1 \in good
  <2>1. PICK g : Recursion(g, m, s, xs, k)
    BY <1>2
  <2>2. \E h : Recursion(h, m, s, xs, k + 1)
    BY <2>1, RecursionGoesOn
  <2>. QED BY <2>2
<1> HIDE DEF good
<1>3. n \in good
  BY <1>1, <1>2, Counting
<1>. QED BY <1>3 DEF good

\* The fold of n steps, as a function on the numbers of steps done.
Steps(g, m, s, xs, n) ==
  g[{}] = s /\ \A k \in 1 .. n : g[1 .. k] = StepOf(m, g[1 .. k - 1], xs[k])

LEMMA RecursionSteps ==
  ASSUME NEW m, NEW s, NEW xs, NEW n \in Nat, NEW g, Recursion(g, m, s, xs, n)
  PROVE  Steps(g, m, s, xs, n)
<1>3. g[{}] = s
  <2>1. {} \in SUBSET (1 .. n)
    OBVIOUS
  <2>. QED BY <2>1, Zenon DEF Recursion
<1>4. ASSUME NEW k \in 1 .. n
      PROVE  g[1 .. k] = StepOf(m, g[1 .. k - 1], xs[k])
  <2>1. 1 .. k \in SUBSET (1 .. n) /\ 1 .. k # {} /\ k \in 1 .. k
    <3>1. ASSUME NEW x \in 1 .. k PROVE x \in 1 .. n
      OBVIOUS
    <3>2. k \in 1 .. k
      OBVIOUS
    <3>. QED BY <3>1, <3>2
  <2>2. Max(1 .. k) = k
    <3>1. 1 .. k \in SUBSET Nat /\ \A y \in 1 .. k : y <= k
      OBVIOUS
    <3>. QED BY <2>1, <3>1, MaxIs
  <2>3. (1 .. k) \ {k} = 1 .. k - 1
    OBVIOUS
  <2>. QED BY <2>1, <2>2, <2>3 DEF Recursion
<1>. QED BY <1>3, <1>4 DEF Steps

\* The two folds of the model, so described.
LEMMA ServerFold ==
  ASSUME NEW s, NEW T, NEW xs \in Seq(T)
  PROVE  \E g : /\ Steps(g, "server", s, xs, Len(xs))
                /\ FoldLeft(ExecutedCommand, s, xs) = g[1 .. Len(xs)]
<1> DEFINE n == Len(xs)
           Own(g) == g = [t \in SUBSET (1 .. n) |->
                            IF t = {} THEN s
                            ELSE ExecutedCommand(g[t \ {Max(t)}], xs[Max(t)])]
           g == CHOOSE h : Own(h)
<1>1. n \in Nat /\ DOMAIN xs = 1 .. n
  BY LenProperties
<1>2. ASSUME NEW h PROVE Recursion(h, "server", s, xs, n) <=> Own(h)
  BY DEF StepOf, Recursion
<1>3. FoldLeft(ExecutedCommand, s, xs) = g[1 .. n]
  BY <1>1, Zenon DEF FoldLeft, MapThenFoldSet
<1> HIDE DEF Own, n
<1>4. \E h : Recursion(h, "server", s, xs, n)
  BY <1>1, RecursionExists, Zenon
<1>5. Recursion(g, "server", s, xs, n)
  BY <1>2, <1>4, Zenon
<1> HIDE DEF g
<1>6. Steps(g, "server", s, xs, n)
  BY <1>1, <1>5, RecursionSteps, Zenon
<1>. QED BY <1>3, <1>6 DEF n

LEMMA ClientFold ==
  ASSUME NEW s, NEW T, NEW xs \in Seq(T), NEW ends \in BOOLEAN
  PROVE  LET Parse(r, block) == ParsedBlock(r, block, ends)
             m == IF ends THEN "ends" ELSE "goes"
         IN  \E g : Steps(g, m, s, xs, Len(xs)) /\ FoldLeft(Parse, s, xs) = g[1 .. Len(xs)]
<1> DEFINE n == Len(xs)  m == IF ends THEN "ends" ELSE "goes"
           Parse(r, block) == ParsedBlock(r, block, ends)
           Own(g) == g = [t \in SUBSET (1 .. n) |->
                            IF t = {} THEN s
                            ELSE ParsedBlock(g[t \ {Max(t)}], xs[Max(t)], ends)]
           g == CHOOSE h : Own(h)
<1>1. n \in Nat /\ DOMAIN xs = 1 .. n
  BY LenProperties
<1>7. m # "server" /\ (m = "ends") = ends
  OBVIOUS
<1>2. ASSUME NEW h PROVE Recursion(h, m, s, xs, n) <=> Own(h)
  <2>1. \A r, x : StepOf(m, r, x) = ParsedBlock(r, x, ends)
    <3> HIDE DEF m
    <3>. QED BY <1>7 DEF StepOf
  <2> HIDE DEF m
  <2>. QED BY <2>1 DEF Recursion
<1>3. FoldLeft(Parse, s, xs) = g[1 .. n]
  BY <1>1, Zenon DEF FoldLeft, MapThenFoldSet
<1> HIDE DEF Own, n, m
<1>4. \E h : Recursion(h, m, s, xs, n)
  BY <1>1, RecursionExists, Zenon
<1>5. Recursion(g, m, s, xs, n)
  BY <1>2, <1>4, Zenon
<1> HIDE DEF g
<1>6. Steps(g, m, s, xs, n)
  BY <1>1, <1>5, RecursionSteps, Zenon
<1>. QED BY <1>3, <1>6 DEF n, m

\* What one step keeps, the fold keeps; pairs say how many steps were done.
LEMMA ServerKeeps ==
  ASSUME NEW s, NEW T, NEW xs \in Seq(T), NEW good, <<0, s>> \in good,
         \A i \in 0 .. Len(xs) - 1 : \A t :
           <<i, t>> \in good => <<i + 1, ExecutedCommand(t, xs[i + 1])>> \in good
  PROVE  <<Len(xs), FoldLeft(ExecutedCommand, s, xs)>> \in good
<1> DEFINE N == Len(xs)
<1>1. N \in Nat
  BY LenProperties
<1>2. PICK g : Steps(g, "server", s, xs, N) /\ FoldLeft(ExecutedCommand, s, xs) = g[1 .. N]
  BY ServerFold, Zenon
<1> DEFINE done == {i \in Nat : i <= N => <<i, g[1 .. i]>> \in good}
<1>3. 0 \in done
  <2>1. 1 .. 0 = {} /\ g[{}] = s
    BY <1>2 DEF Steps
  <2>. QED BY <2>1
<1>4. ASSUME NEW i \in 0 .. N - 1, i \in done PROVE i + 1 \in done
  <2>1. i + 1 \in 1 .. N /\ (i + 1) - 1 = i /\ i \in Nat /\ i <= N
    BY <1>1
  <2>2. g[1 .. i + 1] = ExecutedCommand(g[1 .. i], xs[i + 1])
    <3>1. \A j \in 1 .. N : j - 1 = i => g[1 .. j] = StepOf("server", g[1 .. i], xs[j])
      BY <1>2 DEF Steps
    <3>. QED BY <2>1, <3>1 DEF StepOf
  <2>3. <<i, g[1 .. i]>> \in good
    BY <1>4, <2>1
  <2>4. <<i + 1, g[1 .. i + 1]>> \in good
    BY <2>2, <2>3
  <2>. QED BY <2>1, <2>4
<1> HIDE DEF done
<1>5. N \in done
  BY <1>1, <1>3, <1>4, Counting
<1>. QED BY <1>1, <1>2, <1>5 DEF done

LEMMA ClientKeeps ==
  ASSUME NEW s, NEW T, NEW xs \in Seq(T), NEW ends \in BOOLEAN, NEW good, s \in good,
         NEW m, m # "server", (m = "ends") = ends, NEW g, Steps(g, m, s, xs, Len(xs)),
         \A i \in 1 .. Len(xs) : \A r \in good : ParsedBlock(r, xs[i], ends) \in good
  PROVE  g[1 .. Len(xs)] \in good
<1> DEFINE N == Len(xs)
<1>1. N \in Nat
  BY LenProperties
<1> DEFINE done == {i \in Nat : i <= N => g[1 .. i] \in good}
<1>3. 0 \in done
  <2>1. 1 .. 0 = {}
    OBVIOUS
  <2>2. g[{}] = s
    BY Zenon DEF Steps
  <2>. QED BY <2>1, <2>2
<1>4. ASSUME NEW i \in 0 .. N - 1, i \in done PROVE i + 1 \in done
  <2>1. i + 1 \in 1 .. N /\ (i + 1) - 1 = i /\ i \in Nat /\ i <= N
    BY <1>1
  <2>2. g[1 .. i + 1] = ParsedBlock(g[1 .. i], xs[i + 1], ends)
    <3>1. \A j \in 1 .. N : j - 1 = i => g[1 .. j] = StepOf(m, g[1 .. i], xs[j])
      BY DEF Steps
    <3>. QED BY <2>1, <3>1 DEF StepOf
  <2>3. g[1 .. i] \in good
    BY <1>4, <2>1
  <2>4. g[1 .. i + 1] \in good
    BY <2>1, <2>2, <2>3
  <2>. QED BY <2>1, <2>4
<1> HIDE DEF done
<1>5. N \in done
  BY <1>1, <1>3, <1>4, Counting
<1>. QED BY <1>1, <1>5 DEF done

\* The commands a client message makes the server execute.
LEMMA CommandsOf ==
  ASSUME NEW commands \in Seq(Commands), NEW l \in Nat, NEW m \in Nat, m <= Len(commands),
         l <= Len(commands)
  PROVE  LET xs == SubSeq(commands, l + 1, m) IN
         /\ xs \in Seq(Commands) /\ Len(xs) \in Nat /\ l + Len(xs) <= Len(commands)
         /\ \A i \in 1 .. Len(xs) : xs[i] = commands[l + i] /\ xs[i] \in Commands
<1> DEFINE xs == SubSeq(commands, l + 1, m)  N == Len(xs)  n == Len(commands)
<1>1. n \in Nat
  BY LenProperties
<1>2. \A i \in l + 1 .. m : commands[i] \in Commands
  <2> SUFFICES ASSUME NEW i \in l + 1 .. m PROVE commands[i] \in Commands
    OBVIOUS
  <2>1. i \in 1 .. Len(commands)
    BY <1>1
  <2>. QED BY <2>1, ElementOfSeq
<1>3. /\ xs \in Seq(Commands) /\ N = IF l + 1 <= m THEN m - (l + 1) + 1 ELSE 0
      /\ \A i \in 1 .. m - (l + 1) + 1 : xs[i] = commands[(l + 1) + i - 1]
  BY <1>2, SubSeqProperties
<1> HIDE DEF xs
<1>4. N \in Nat /\ l + N <= n
  BY <1>1, <1>3
<1>5. ASSUME NEW i \in 1 .. N PROVE xs[i] = commands[l + i] /\ xs[i] \in Commands
  <2>1. i \in 1 .. m - (l + 1) + 1 /\ (l + 1) + i - 1 = l + i
    BY <1>3
  <2>2. xs[i] \in Commands
    BY <1>3, ElementOfSeq
  <2>. QED BY <1>3, <2>1, <2>2
<1>. QED BY <1>3, <1>4, <1>5 DEF xs

LEMMA ServerMessage ==
  ASSUME NEW s, Windowed(s), NEW commands \in Seq(Commands), NEW m \in Nat,
         m <= Len(commands), s.lastClientCommand <= Len(commands)
  PROVE  LET t == FoldLeft(ExecutedCommand, s, SubSeq(commands, s.lastClientCommand + 1, m))
         IN  Windowed(t) /\ t.lastClientCommand <= Len(commands)
<1> DEFINE l == s.lastClientCommand  xs == SubSeq(commands, l + 1, m)
           t == FoldLeft(ExecutedCommand, s, xs)
           good == {x \in Nat \X Servers : Windowed(x[2]) /\ x[2].lastClientCommand <= l + x[1]}
<1>1. s \in Servers /\ l \in Nat
  BY ServerIs DEF Windowed
<1>2. /\ xs \in Seq(Commands) /\ Len(xs) \in Nat /\ l + Len(xs) <= Len(commands)
      /\ \A i \in 1 .. Len(xs) : xs[i] \in Commands
  <2> HIDE DEF l
  <2>. QED BY <1>1, CommandsOf DEF l
<1> HIDE DEF xs, l
<1>3. <<0, s>> \in good
  BY <1>1 DEF l
<1>4. ASSUME NEW i \in 0 .. Len(xs) - 1, NEW u, <<i, u>> \in good
      PROVE  <<i + 1, ExecutedCommand(u, xs[i + 1])>> \in good
  <2> DEFINE v == ExecutedCommand(u, xs[i + 1])
  <2>1. /\ u \in Servers /\ Windowed(u) /\ u.lastClientCommand <= l + i
        /\ i + 1 \in 1 .. Len(xs) /\ i + 1 \in Nat
    BY <1>2, <1>4
  <2>2. Windowed(v) /\ v.lastClientCommand <= u.lastClientCommand + 1
    BY <1>2, <2>1, ExecutedWindowed
  <2> HIDE DEF v
  <2>3. v \in Servers /\ v.lastClientCommand \in Nat /\ u.lastClientCommand \in Nat
    BY <2>1, <2>2, ServerIs DEF Windowed
  <2>4. v.lastClientCommand <= l + (i + 1)
    BY <1>1, <2>1, <2>2, <2>3
  <2>. QED BY <2>1, <2>2, <2>3, <2>4 DEF v
<1> HIDE DEF good
<1>5. <<Len(xs), t>> \in good
  BY <1>2, <1>3, <1>4, ServerKeeps
<1> HIDE DEF t
<1>6. t \in Servers /\ Windowed(t) /\ t.lastClientCommand <= l + Len(xs)
  BY <1>5 DEF good
<1>7. t.lastClientCommand <= Len(commands)
  <2>1. t.lastClientCommand \in Nat /\ Len(commands) \in Nat
    BY <1>6, ServerIs, LenProperties
  <2>. QED BY <1>1, <1>2, <1>6, <2>1
<1>. QED BY <1>6, <1>7 DEF t, xs, l

LEMMA ServerMessageExact ==
  ASSUME NEW s, Windowed(s), NEW commands \in Seq(Commands), NEW m \in Nat,
         m <= Len(commands), s.lastClientCommand <= Len(commands), NEW c \in Clients,
         NEW messages, Exact(s, commands, c, messages)
  PROVE  LET t == FoldLeft(ExecutedCommand, s, SubSeq(commands, s.lastClientCommand + 1, m))
         IN  Exact(t, commands, c, messages)
<1> DEFINE l == s.lastClientCommand  xs == SubSeq(commands, l + 1, m)
           t == FoldLeft(ExecutedCommand, s, xs)
           Good(i, u) == /\ Windowed(u) /\ u.lastClientCommand = l + i
                         /\ Exact(u, commands, c, messages)
           good == {x \in Nat \X Servers : Good(x[1], x[2])}
<1>1. s \in Servers /\ l \in Nat /\ l + 0 = l
  BY ServerIs DEF Windowed
<1>2. /\ xs \in Seq(Commands) /\ Len(xs) \in Nat /\ l + Len(xs) <= Len(commands)
      /\ \A i \in 1 .. Len(xs) : xs[i] = commands[l + i]
  <2> HIDE DEF l
  <2>. QED BY <1>1, CommandsOf DEF l
<1> HIDE DEF xs, l
<1>3. <<0, s>> \in good
  <2>1. Good(0, s)
    BY <1>1 DEF l
  <2> HIDE DEF Good
  <2>. QED BY <1>1, <2>1
<1>4. ASSUME NEW i \in 0 .. Len(xs) - 1, NEW u, <<i, u>> \in good
      PROVE  <<i + 1, ExecutedCommand(u, xs[i + 1])>> \in good
  <2> DEFINE v == ExecutedCommand(u, xs[i + 1])
  <2>1. /\ u \in Servers /\ Good(i, u) /\ i + 1 \in 1 .. Len(xs) /\ i + 1 \in Nat
    <3> HIDE DEF Good
    <3>. QED BY <1>2, <1>4
  <2>2. /\ xs[i + 1] = commands[u.lastClientCommand + 1]
        /\ u.lastClientCommand < Len(commands)
        /\ u.lastClientCommand + 1 = l + (i + 1)
    <3>1. Len(commands) \in Nat /\ u.lastClientCommand = l + i /\ i \in Nat
      BY <2>1, LenProperties
    <3>2. l + (i + 1) = u.lastClientCommand + 1 /\ i + 1 <= Len(xs)
      BY <1>1, <1>2, <3>1
    <3>3. xs[i + 1] = commands[l + (i + 1)]
      BY <1>2, <2>1
    <3>. QED BY <1>1, <1>2, <3>1, <3>2, <3>3
  <2>3. PICK f, k, top \in Nat :
          Linked(u, commands, c, f, k, top) /\ ToClientOK(messages, c, f, top)
    BY <2>1 DEF Exact
  <2>4. Windowed(u) /\ Intact(c)
    BY <2>1 DEF Exact
  <2>5. /\ Windowed(v) /\ v.lastClientCommand = u.lastClientCommand + 1
        /\ \E g, j, p \in Nat :
             Linked(v, commands, c, g, j, p) /\ ToClientOK(messages, c, g, p)
    BY <2>2, <2>3, <2>4, ServerExecutes
  <2> HIDE DEF v
  <2>6. v \in Servers /\ Good(i + 1, v)
    BY <2>2, <2>4, <2>5 DEF Exact, Windowed
  <2> HIDE DEF Good
  <2>. QED BY <2>1, <2>6 DEF v
<1> HIDE DEF good
<1>5. <<Len(xs), t>> \in good
  BY <1>2, <1>3, <1>4, ServerKeeps
<1> HIDE DEF t
<1>6. Exact(t, commands, c, messages)
  BY <1>5 DEF good
<1>. QED BY <1>6 DEF t, xs, l

LEMMA ServerMessageQuiet ==
  ASSUME NEW s, Windowed(s), NEW commands \in Seq(Commands), NEW m \in Nat,
         m <= Len(commands), s.lastClientCommand <= Len(commands), NEW c,
         Quiet(s, commands, c)
  PROVE  LET t == FoldLeft(ExecutedCommand, s, SubSeq(commands, s.lastClientCommand + 1, m))
         IN  Quiet(t, commands, c)
<1> DEFINE l == s.lastClientCommand  xs == SubSeq(commands, l + 1, m)
           t == FoldLeft(ExecutedCommand, s, xs)
           Good(u) == Windowed(u) /\ Quiet(u, commands, c)
           good == {x \in Nat \X Servers : Good(x[2])}
<1>1. s \in Servers /\ l \in Nat
  BY ServerIs DEF Windowed
<1>2. /\ xs \in Seq(Commands) /\ Len(xs) \in Nat /\ l + Len(xs) <= Len(commands)
      /\ \A i \in 1 .. Len(xs) : xs[i] = commands[l + i] /\ xs[i] \in Commands
  <2> HIDE DEF l
  <2>. QED BY <1>1, CommandsOf DEF l
<1> HIDE DEF xs
<1>3. <<0, s>> \in good
  BY <1>1
<1>4. ASSUME NEW i \in 0 .. Len(xs) - 1, NEW u, <<i, u>> \in good
      PROVE  <<i + 1, ExecutedCommand(u, xs[i + 1])>> \in good
  <2> DEFINE v == ExecutedCommand(u, xs[i + 1])
  <2>1. /\ u \in Servers /\ Good(u) /\ i + 1 \in 1 .. Len(xs) /\ i + 1 \in Nat
    BY <1>2, <1>4
  <2>2. xs[i + 1] \in Commands /\ xs[i + 1].kind # "nextdl"
    <3>1. l + (i + 1) \in 1 .. Len(commands)
      <4>1. Len(commands) \in Nat
        BY LenProperties
      <4> HIDE DEF l
      <4>. QED BY <1>1, <1>2, <2>1, <4>1
    <3>2. xs[i + 1] = commands[l + (i + 1)] /\ xs[i + 1] \in Commands
      BY <1>2, <2>1
    <3>. QED BY <2>1, <3>1, <3>2 DEF Quiet
  <2>3. Windowed(v) /\ v.clientBlock <= v.currentBlock /\ v.state # "zombie"
    BY <2>1, <2>2, QuietExecutes DEF Quiet
  <2> HIDE DEF v
  <2>4. v \in Servers /\ Good(v)
    BY <2>1, <2>3 DEF Quiet, Windowed
  <2> HIDE DEF Good
  <2>. QED BY <2>1, <2>4 DEF v
<1> HIDE DEF good
<1>5. <<Len(xs), t>> \in good
  BY <1>2, <1>3, <1>4, ServerKeeps
<1> HIDE DEF t
<1>6. Quiet(t, commands, c)
  BY <1>5 DEF good
<1>. QED BY <1>6 DEF t, xs, l

-----------------------------------------------------------------------------
(* What the server reads and writes.                                        *)

\* What reading does not change.
SameFile(s, t) ==
  /\ t.downloadName = s.downloadName /\ t.clientBlock = s.clientBlock
  /\ t.lastClientCommand = s.lastClientCommand /\ t.state = s.state

LEMMA OpenedIs ==
  ASSUME NEW s, Windowed(s), s.downloadName \in Files
  PROVE  LET o == Opened(s) IN
         /\ Windowed(o) /\ o.download /\ o.downloadName = s.downloadName
         /\ o.lastClientCommand = s.lastClientCommand /\ o.state = s.state
         /\ (s.clientBlock <= s.currentBlock => o.clientBlock <= o.currentBlock)
         /\ \A f \in Files, top, a, l \in Nat :
              Serves(s, f, top, a, l) =>
                Runs(o, f, o.currentBlock, a, l) /\ top <= o.currentBlock
<1> DEFINE o == Opened(s)
<1>1. s \in Servers /\ s.downloadName # NoFile
  BY FilesAre DEF Windowed
<1>2. s.currentBlock \in Nat /\ MAX_DOWNLOAD_WINDOW \in Nat \ {0}
  BY <1>1, ServerIs, Sizes
<1>3. CASE s.download
  <2>1. o = s
    BY <1>3 DEF Opened
  <2>2. ASSUME NEW f \in Files, NEW top \in Nat, NEW a \in Nat, NEW l \in Nat,
               Serves(s, f, top, a, l)
        PROVE  Runs(o, f, o.currentBlock, a, l) /\ top <= o.currentBlock
    <3>1. Runs(s, f, top, a, l) /\ top = s.currentBlock
      BY <1>3, <2>2 DEF Serves, Waits, Runs
    <3>. QED BY <1>2, <2>1, <3>1
  <2>. QED BY <1>3, <2>1, <2>2
<1>4. CASE ~s.download
  <2>1. o = [s EXCEPT !.download = TRUE, !.clientBlock = 0, !.currentBlock = 0,
                      !.xmitBlock = 0, !.count = 0, !.eof = FALSE]
    BY <1>4 DEF Opened
  <2> HIDE DEF o
  <2>2. /\ o \in Servers /\ o.download /\ o.clientBlock = 0 /\ o.currentBlock = 0
        /\ o.xmitBlock = 0 /\ o.count = 0 /\ ~o.eof /\ o.downloadName = s.downloadName
        /\ o.lastClientCommand = s.lastClientCommand /\ o.state = s.state
    BY <1>1, <2>1 DEF Servers
  <2>3. Windowed(o)
    <3>1. Blocks[s.downloadName] \in Nat
      BY FilesAre
    <3>. QED BY <1>2, <2>2, <3>1 DEF Windowed
  <2>4. ASSUME NEW f \in Files, NEW top \in Nat, NEW a \in Nat, NEW l \in Nat,
               Serves(s, f, top, a, l)
        PROVE  Runs(o, f, o.currentBlock, a, l) /\ top <= o.currentBlock
    <3>1. Waits(s, f, top, a, l)
      BY <1>1, <1>4, <2>4 DEF Serves, Runs
    <3>2. a = 0 /\ top = 0 /\ l = 1 /\ s.downloadName = f
      BY <1>1, <3>1 DEF Waits
    <3>3. Blocks[f] \in Nat \ {0}
      BY FilesAre
    <3>4. Least(1 - 1, Blocks[f]) = 0
      BY <3>3 DEF Least
    <3>5. Filled(o, f)
      BY <2>2 DEF Filled
    <3>6. Runs(o, f, o.currentBlock, a, l)
      BY <2>2, <3>2, <3>3, <3>4, <3>5 DEF Runs
    <3>. QED BY <2>2, <3>2, <3>6
  <2>. QED BY <2>2, <2>3, <2>4 DEF o
<1>. QED BY <1>3, <1>4

LEMMA MaxIn ==
  ASSUME NEW S \in SUBSET Nat, S # {}, NEW N \in Nat, \A x \in S : x <= N
  PROVE  Max(S) \in S
<1> DEFINE T == {N - x : x \in S}
<1>1. T \in SUBSET Nat /\ T # {}
  <2>1. ASSUME NEW x \in S PROVE N - x \in Nat
    OBVIOUS
  <2>. QED BY <2>1
<1>2. PICK y \in T : \A z \in T : y <= z
  <2> HIDE DEF T
  <2>. QED BY <1>1, LeastOf
<1>3. PICK x \in S : y = N - x
  BY <1>2
<1>4. ASSUME NEW z \in S PROVE z <= x
  <2>1. N - z \in T /\ N - x <= N - z
    BY <1>2, <1>3
  <2>. QED BY <2>1
<1>5. Max(S) = x
  BY <1>4, MaxIs
<1>. QED BY <1>5

LEMMA ReadsIs ==
  ASSUME NEW s, Windowed(s), s.download
  PROVE  LET t == WithReads(s) IN
         /\ Windowed(t) /\ SameFile(s, t) /\ t.download /\ s.currentBlock <= t.currentBlock
         /\ \A a, l \in Nat :
              LET f == s.downloadName IN
              Runs(s, f, s.currentBlock, a, l) => Runs(t, f, t.currentBlock, a, l)
<1> DEFINE W == MAX_DOWNLOAD_WINDOW  cur == s.currentBlock  cli == s.clientBlock
           f == s.downloadName  P == Blocks[f]
           k == Least(Room(s), P - s.count)
           read == cur .. cur + k - 1
           Slot(i) == {m \in read : Place(m, W) = i}
           blocks == [i \in DOMAIN s.blocks |-> IF Slot(i) = {} THEN s.blocks[i]
                                               ELSE Part(f, Max(Slot(i)))]
           t == WithReads(s)
<1>1. /\ s \in Servers /\ cli \in Nat /\ cur \in Nat /\ s.xmitBlock \in Nat
      /\ s.count \in Nat /\ s.eof \in BOOLEAN /\ s.blocks \in [0 .. W - 1 -> Datas]
      /\ f \in Files /\ P \in Nat \ {0} /\ W \in Nat \ {0}
      /\ cur <= cli + W /\ s.xmitBlock <= cur /\ s.count <= P
  <2>1. s \in Servers /\ f \in Files /\ cur <= cli + W /\ s.xmitBlock <= cur /\ s.count <= P
    BY DEF Windowed
  <2>. QED BY <2>1, ServerIs, Sizes, FilesAre
<1>2. Room(s) = cli + W - cur /\ Room(s) \in Nat
  <2>1. Room(s) = W - (cur - cli)
    BY DEF Room
  <2> HIDE DEF W, cur, cli
  <2>. QED BY <1>1, <2>1
<1>3. /\ k \in Nat /\ k <= Room(s) /\ k <= P - s.count /\ cur + k \in Nat
      /\ cur + k <= cli + W /\ s.count + k <= P /\ s.count + k \in Nat
  <2> HIDE DEF W, cur, cli, f, P
  <2>1. P - s.count \in Nat
    BY <1>1
  <2>2. k \in {Room(s), P - s.count} /\ k <= Room(s) /\ k <= P - s.count
    BY <1>2, <2>1, LeastIs
  <2> HIDE DEF k
  <2>. QED BY <1>1, <1>2, <2>1, <2>2
<1>4. t = [s EXCEPT !.blocks = blocks, !.currentBlock = cur + k, !.count = s.count + k]
  BY DEF WithReads, Place
<1> HIDE DEF W, cur, cli, f, P, k, t
<1>8. DOMAIN s.blocks = 0 .. W - 1
  BY <1>1
<1>10. blocks \in [0 .. W - 1 -> Datas]
  <2>1. ASSUME NEW i \in 0 .. W - 1 PROVE blocks[i] \in Datas
    <3>1. CASE Slot(i) = {}
      BY <1>1, <1>8, <3>1
    <3>2. CASE Slot(i) # {}
      <4> DEFINE S == Slot(i)
      <4>1. S \in SUBSET Nat /\ S # {} /\ \A m \in S : m <= cur + k
        BY <1>1, <1>3, <3>2
      <4> HIDE DEF S
      <4>2. Max(S) \in Nat
        BY <1>3, <4>1, MaxIn
      <4>3. Part(f, Max(S)) \in Datas
        BY <1>1, <4>2 DEF Part, Datas, Names
      <4>. QED BY <1>8, <3>2, <4>3 DEF S
    <3>. QED BY <3>1, <3>2
  <2>2. blocks = [i \in 0 .. W - 1 |-> blocks[i]]
    BY <1>8
  <2> HIDE DEF blocks
  <2>. QED BY <2>1, <2>2
<1>12. /\ t \in Servers /\ t.blocks = blocks /\ t.currentBlock = cur + k
       /\ t.count = s.count + k /\ t.xmitBlock = s.xmitBlock /\ t.eof = s.eof /\ t.download
       /\ t.downloadName = f /\ t.clientBlock = cli /\ SameFile(s, t)
  <2> HIDE DEF blocks
  <2>2. blocks \in [0 .. MAX_DOWNLOAD_WINDOW - 1 -> Datas]
    BY <1>10 DEF W
  <2>. QED BY <1>1, <1>3, <1>4, <2>2 DEF Servers, cli, f, SameFile
<1>13. cur <= cur + k /\ s.xmitBlock <= cur + k
  BY <1>1, <1>3
<1>14. Windowed(t)
  BY <1>1, <1>3, <1>12, <1>13 DEF Windowed, P, W
<1>20. ASSUME NEW a \in Nat, NEW l \in Nat, Runs(s, f, cur, a, l)
      PROVE  Runs(t, f, t.currentBlock, a, l)
  <2>1. /\ cli <= a /\ a <= cur /\ Filled(s, f)
        /\ s.eof => s.count = P /\ cur = P + 1
        /\ ~s.eof => cur = s.count
    BY <1>20 DEF Runs, cli, cur, P
  <2>5. ASSUME NEW m \in cli .. cur + k - 1, NEW j \in cli .. cur + k - 1,
               Place(m, W) = Place(j, W)
        PROVE  m = j
    <3>1. m \in Int /\ j \in Int /\ m < j + W /\ j < m + W
      BY <1>1, <1>3
    <3>. QED BY <1>1, <2>5, <3>1, SamePlace
  <2>6. \A m \in read : m \in cli .. cur + k - 1 /\ m \in Nat
    BY <1>1, <1>3, <2>1
  <2>11. ASSUME NEW j \in cli .. cur + k - 1 PROVE blocks[Place(j, W)] = Data(f, j)
    <3>4. j \in Int
      BY <1>1
    <3>1. Place(j, W) \in 0 .. W - 1
      BY <1>1, <3>4, PlaceInRing
    <3>2. CASE j \in read
      <4>1. ASSUME NEW m \in read, Place(m, W) = Place(j, W) PROVE m = j
        BY <2>5, <2>6, <4>1
      <4>2. Slot(Place(j, W)) = {j}
        BY <3>2, <4>1
      <4>3. j \in Nat /\ {j} \in SUBSET Nat /\ \A y \in {j} : y <= j
        BY <2>6, <3>2
      <4>4. Max({j}) = j
        BY <4>3, MaxIs
      <4>5. blocks[Place(j, W)] = Part(f, j)
        <5>1. blocks[Place(j, W)] = IF Slot(Place(j, W)) = {} THEN s.blocks[Place(j, W)]
                                    ELSE Part(f, Max(Slot(Place(j, W))))
          BY <1>8, <3>1
        <5> HIDE DEF blocks, Slot
        <5>. QED BY <4>2, <4>4, <5>1
      <4>6. j < P
        <5>1. s.eof => k = 0
          BY <1>1, <1>3, <2>1
        <5>2. j < cur + k /\ cur <= j
          BY <1>1, <1>3, <3>2
        <5>3. ~s.eof
          BY <1>1, <1>3, <5>1, <5>2, <3>4
        <5>. QED BY <1>1, <1>3, <2>1, <3>4, <5>2, <5>3
      <4>. QED BY <4>5, <4>6 DEF Data, P
    <3>3. CASE j \notin read
      <4>1. Slot(Place(j, W)) = {}
        BY <2>5, <2>6, <3>3
      <4>2. j \in cli .. cur - 1
        BY <1>1, <1>3, <3>3
      <4>3. s.blocks[Place(j, W)] = Data(f, j)
        BY <2>1, <4>2 DEF Filled, W, cli, cur
      <4> HIDE DEF Slot
      <4>. QED BY <1>8, <3>1, <4>1, <4>3
    <3>. QED BY <3>2, <3>3
  <2> HIDE DEF blocks
  <2>13. Filled(t, f)
    <3>3. t.clientBlock = cli /\ t.currentBlock = cur + k /\ t.blocks = blocks
      BY <1>12
    <3>1. t.clientBlock .. t.currentBlock - 1 = cli .. (cur + k) - 1
      BY <3>3, Zenon
    <3>4. (cur + k) - 1 = cur + k - 1
      BY <1>1, <1>3
    <3>2. \A j \in cli .. (cur + k) - 1 : blocks[Place(j, W)] = Data(f, j)
      BY <2>11, <3>4, Zenon
    <3>. QED BY <3>1, <3>2, <3>3, Zenon DEF Filled, W
  <2>14. a <= cur + k
    BY <1>1, <1>3, <2>1
  <2>15. IF s.eof THEN s.count + k = P /\ cur + k = P + 1 ELSE cur + k = s.count + k
    <3>1. CASE s.eof
      <4>1. k = 0 /\ s.count = P /\ cur = P + 1
        BY <1>1, <1>3, <2>1, <3>1
      <4>. QED BY <1>1, <3>1, <4>1
    <3>2. CASE ~s.eof
      BY <2>1, <3>2
    <3>. QED BY <3>1, <3>2
  <2>16. l >= 1 /\ (l <= a + 1 => cli = Least(l - 1, P))
    BY <1>20 DEF Runs, cli, P
  <2>. QED BY <1>3, <1>12, <2>1, <2>13, <2>14, <2>15, <2>16 DEF Runs, P
<1>. QED BY <1>12, <1>13, <1>14, <1>20 DEF t, cur, f

LEMMA EndIs ==
  ASSUME NEW s, Windowed(s), s.download
  PROVE  LET t == WithEnd(s) IN
         /\ Windowed(t) /\ SameFile(s, t) /\ t.download /\ s.currentBlock <= t.currentBlock
         /\ \A a, l \in Nat :
              LET f == s.downloadName IN
              Runs(s, f, s.currentBlock, a, l) => Runs(t, f, t.currentBlock, a, l)
<1> DEFINE W == MAX_DOWNLOAD_WINDOW  cur == s.currentBlock  cli == s.clientBlock
           f == s.downloadName  P == Blocks[f]  p == Place(cur, W)  t == WithEnd(s)
           blocks == [s.blocks EXCEPT ![p] = EndOfFile]
<1>1. /\ s \in Servers /\ cli \in Nat /\ cur \in Nat /\ s.xmitBlock \in Nat
      /\ s.count \in Nat /\ s.eof \in BOOLEAN /\ s.blocks \in [0 .. W - 1 -> Datas]
      /\ f \in Files /\ P \in Nat \ {0} /\ W \in Nat \ {0}
      /\ cur <= cli + W /\ s.xmitBlock <= cur /\ s.count <= P
  <2>1. s \in Servers /\ f \in Files /\ cur <= cli + W /\ s.xmitBlock <= cur /\ s.count <= P
    BY DEF Windowed
  <2>. QED BY <2>1, ServerIs, Sizes, FilesAre
<1>4. CASE ~(s.count = P /\ ~s.eof /\ Room(s) > 0)
  <2>1. t = s
    BY <1>4 DEF WithEnd
  <2>2. cur <= cur /\ SameFile(s, s)
    BY <1>1 DEF SameFile
  <2> HIDE DEF t
  <2>. QED BY <2>1, <2>2 DEF t
<1>5. CASE s.count = P /\ ~s.eof /\ Room(s) > 0
  <2>1. t = [s EXCEPT !.blocks = blocks, !.currentBlock = cur + 1, !.eof = TRUE]
    <3>1. t = [s EXCEPT !.blocks[cur % W] = EndOfFile, !.currentBlock = @ + 1, !.eof = TRUE]
      BY <1>5 DEF WithEnd
    <3>. QED BY <1>1, <3>1 DEF Place, Servers
  <2>2. cur < cli + W /\ cur + 1 <= cli + W /\ cur + 1 \in Nat /\ cur <= cur + 1
        /\ s.xmitBlock <= cur + 1
    <3>1. Room(s) = W - (cur - cli)
      BY DEF Room
    <3> HIDE DEF W, cur, cli
    <3>. QED BY <1>1, <1>5, <3>1
  <2> HIDE DEF W, cur, cli, f, P, p, t, blocks
  <2>3. p \in 0 .. W - 1
    <3>1. cur \in Int
      BY <1>1
    <3>. QED BY <1>1, <3>1, PlaceInRing DEF p
  <2>4. EndOfFile \in Datas
    BY DEF EndOfFile, Datas, Names
  <2>5. blocks \in [0 .. W - 1 -> Datas]
    BY <1>1, <2>4 DEF blocks
  <2>7. /\ t \in Servers /\ t.blocks = blocks /\ t.currentBlock = cur + 1
        /\ t.count = s.count /\ t.xmitBlock = s.xmitBlock /\ t.eof = TRUE /\ t.download
        /\ t.downloadName = f /\ t.clientBlock = cli /\ SameFile(s, t)
    <3>1. blocks \in [0 .. MAX_DOWNLOAD_WINDOW - 1 -> Datas]
      BY <2>5 DEF W
    <3>. QED BY <1>1, <2>1, <2>2, <3>1 DEF Servers, cli, f, SameFile
  <2>8. Windowed(t)
    BY <1>1, <2>2, <2>7 DEF Windowed, P, W
  <2>9. ASSUME NEW a \in Nat, NEW l \in Nat, Runs(s, f, cur, a, l)
        PROVE  Runs(t, f, t.currentBlock, a, l)
    <3>1. cli <= a /\ a <= cur /\ Filled(s, f) /\ cur = P
      BY <1>5, <2>9 DEF Runs, cli, cur, P
    <3>2. ASSUME NEW j \in cli .. cur PROVE blocks[Place(j, W)] = Data(f, j)
      <4>1. j \in Int /\ cur \in Int
        BY <1>1
      <4>2. Place(j, W) \in 0 .. W - 1
        BY <1>1, <4>1, PlaceInRing
      <4>3. CASE Place(j, W) = p
        <5>1. j < cur + W /\ cur < j + W
          BY <1>1, <2>2
        <5>2. j = cur
          BY <1>1, <4>1, <4>3, <5>1, SamePlace DEF p
        <5>3. Data(f, j) = EndOfFile
          BY <1>1, <3>1, <5>2 DEF Data, P
        <5>. QED BY <1>1, <2>3, <4>3, <5>3 DEF blocks
      <4>4. CASE Place(j, W) # p
        <5>1. j # cur
          BY <4>4 DEF p
        <5>2. j \in cli .. cur - 1
          BY <1>1, <5>1
        <5>3. s.blocks[Place(j, W)] = Data(f, j)
          BY <3>1, <5>2, Zenon DEF Filled, cli, cur, W
        <5>. QED BY <1>1, <4>2, <4>4, <5>3 DEF blocks
      <4>. QED BY <4>3, <4>4
    <3>3. Filled(t, f)
      <4>1. (cur + 1) - 1 = cur
        BY <1>1
      <4>2. t.clientBlock .. t.currentBlock - 1 = cli .. cur /\ t.blocks = blocks
        BY <2>7, <4>1, Zenon
      <4>. QED BY <3>2, <4>2, Zenon DEF Filled, W
    <3>4. a <= cur + 1 /\ cur + 1 = P + 1
      BY <1>1, <3>1
    <3>5. l >= 1 /\ (l <= a + 1 => cli = Least(l - 1, P))
      BY <2>9 DEF Runs, cli, P
    <3>. QED BY <1>1, <1>5, <2>7, <3>1, <3>3, <3>4, <3>5 DEF Runs, P
  <2>. QED BY <2>2, <2>7, <2>8, <2>9 DEF t, cur, f
<1>. QED BY <1>4, <1>5

\* A block of the file the server sends: one the client may still take is in its
\* buffer.
LEMMA WrittenIs ==
  ASSUME NEW s, Windowed(s), s.downloadName \in Files, NEW m \in Nat, m < s.currentBlock
  PROVE  LET b == Written(s, m)  f == s.downloadName IN
         /\ b \in BlockMessages
         /\ \A c, a, l : /\ Runs(s, f, s.currentBlock, a, l) /\ a \in Nat
                         /\ c.downloadName = f => c.downloadBlock = a
                         => BlockOK(b, c, f, s.currentBlock)
<1> DEFINE W == MAX_DOWNLOAD_WINDOW  d == s.blocks[Place(m, W)]  b == Written(s, m)
           f == s.downloadName
<1>1. /\ s \in Servers /\ s.currentBlock \in Nat /\ s.blocks \in [0 .. W - 1 -> Datas]
      /\ s.clientBlock \in Nat
  BY ServerIs DEF Windowed
<1>2. W \in Nat \ {0} /\ m \in Int
  BY Sizes
<1>3. Place(m, W) \in 0 .. W - 1
  BY <1>2, PlaceInRing
<1>4. b = [number |-> Short(m), refused |-> FALSE, data |-> d, of |-> f]
  BY DEF Written, Place
<1>5. d \in Datas
  BY <1>1, <1>3
<1>6. Short(m) \in Int
  BY ShortIs
<1> HIDE DEF b, d
<1>7. b.number = Short(m) /\ ~b.refused /\ b.data = d /\ b.of = f /\ b \in BlockMessages
  BY <1>4, <1>5, <1>6 DEF BlockMessages, Names
<1>8. f \in 1 .. f /\ m \in 0 .. s.currentBlock - 1
  BY <1>1, FilesAre
<1>9. ASSUME NEW c, NEW a \in Nat, NEW l, Runs(s, f, s.currentBlock, a, l),
             c.downloadName = f => c.downloadBlock = a
      PROVE  BlockOK(b, c, f, s.currentBlock)
  <2>1. ASSUME m >= a PROVE d = Data(f, m)
    <3>1. m \in s.clientBlock .. s.currentBlock - 1
      <4>1. s.clientBlock <= a
        BY <1>9 DEF Runs
      <4>. QED BY <1>1, <2>1, <4>1
    <3>. QED BY <1>9, <3>1, Zenon DEF Runs, Filled, d, W
  <2>. QED BY <1>7, <1>8, <1>9, <2>1 DEF BlockOK
<1>. QED BY <1>7, <1>9 DEF b, f

\* Blocks from a first to before another, in one message.
LEMMA SendIs ==
  ASSUME NEW t, Windowed(t), t.downloadName \in Files, NEW from \in Nat, NEW to \in Nat,
         from < to, to <= t.currentBlock
  PROVE  LET u == [t EXCEPT !.xmitBlock = to]  f == t.downloadName  cur == t.currentBlock
             blocks == [i \in 1 .. to - from |-> Written(t, from + i - 1)] IN
         /\ Windowed(u) /\ SameFile(t, u) /\ u.currentBlock = cur
         /\ blocks \in Seq(BlockMessages)
         /\ \A c, a, l : /\ Runs(t, f, cur, a, l) /\ a \in Nat
                         /\ c.downloadName = f => c.downloadBlock = a
                         => Runs(u, f, cur, a, l) /\ BlocksOK(blocks, c, f, cur)
<1> DEFINE u == [t EXCEPT !.xmitBlock = to]  f == t.downloadName  cur == t.currentBlock
           N == to - from
           blocks == [i \in 1 .. N |-> Written(t, from + i - 1)]
<1>1. t \in Servers
  BY DEF Windowed
<1>2. /\ u \in Servers /\ u.blocks = t.blocks /\ u.currentBlock = t.currentBlock
      /\ u.count = t.count /\ u.clientBlock = t.clientBlock /\ u.xmitBlock = to
      /\ u.eof = t.eof /\ u.download = t.download /\ u.downloadName = t.downloadName
      /\ u.lastClientCommand = t.lastClientCommand /\ u.state = t.state
  BY <1>1 DEF Servers
<1>12. t.currentBlock \in Nat
  BY <1>1, ServerIs
<1> HIDE DEF u
<1>3. Windowed(u) /\ SameFile(t, u) /\ u.currentBlock = cur
  BY <1>2 DEF Windowed, SameFile
<1>5. N \in Nat
  OBVIOUS
<1>6. ASSUME NEW i \in 1 .. N
      PROVE  /\ blocks[i] = Written(t, from + i - 1)
             /\ from + i - 1 \in Nat /\ from + i - 1 < t.currentBlock
  BY <1>12
<1>8. blocks \in [1 .. N -> BlockMessages]
  <2>1. ASSUME NEW i \in 1 .. N PROVE blocks[i] \in BlockMessages
    BY <1>6, WrittenIs, Zenon
  <2>2. blocks = [i \in 1 .. N |-> blocks[i]]
    OBVIOUS
  <2> HIDE DEF blocks, N
  <2>. QED BY <2>1, <2>2
<1>9. blocks \in Seq(BlockMessages) /\ Len(blocks) = N
  <2>3. DOMAIN blocks = 1 .. N
    OBVIOUS
  <2> HIDE DEF blocks, N
  <2>1. blocks \in UNION {[1 .. i -> BlockMessages] : i \in Nat}
    BY <1>5, <1>8, Zenon
  <2>2. blocks \in Seq(BlockMessages)
    BY <2>1, SeqDef, Zenon
  <2>4. Len(blocks) \in Nat /\ DOMAIN blocks = 1 .. Len(blocks)
    BY <2>2, LenProperties
  <2>. QED BY <1>5, <2>2, <2>3, <2>4
<1>10. ASSUME NEW c, NEW a \in Nat, NEW l, Runs(t, f, cur, a, l),
              c.downloadName = f => c.downloadBlock = a
       PROVE  Runs(u, f, cur, a, l) /\ BlocksOK(blocks, c, f, cur)
  <2>1. Runs(u, f, cur, a, l)
    BY <1>2, <1>10 DEF Runs, Filled
  <2>2. ASSUME NEW i \in 1 .. N PROVE BlockOK(blocks[i], c, f, cur)
    <3>1. BlockOK(Written(t, from + i - 1), c, f, cur)
      BY <1>6, <1>10, WrittenIs
    <3>. QED BY <1>6, <3>1
  <2>. QED BY <1>9, <2>1, <2>2 DEF BlocksOK
<1>. QED BY <1>3, <1>9, <1>10 DEF u

-----------------------------------------------------------------------------
(* What the client does with the blocks of a message.                       *)

Parsers ==
  [client : Clients, commands : Seq(Commands), sent : Seq(Commands), ended : BOOLEAN,
   mistaken : BOOLEAN]

LEMMA ParserIs ==
  ASSUME NEW r \in Parsers
  PROVE  /\ r.client \in Clients /\ r.commands \in Seq(Commands) /\ r.sent \in Seq(Commands)
         /\ r.ended \in BOOLEAN /\ r.mistaken \in BOOLEAN
         /\ Len(r.commands) \in Nat /\ Len(r.sent) \in Nat
         /\ r.client.downloadBlock \in Nat /\ r.client.creates \in BOOLEAN
         /\ r.client.downloadName \in Names /\ r.client.complete \in SUBSET Files
         /\ r.client.received \in [Files -> Seq(Datas)] /\ r.client.downloadRestart \in BOOLEAN
         /\ r.client.state \in {"connected", "loading", "dropped"}
<1>1. /\ r.client \in Clients /\ r.commands \in Seq(Commands) /\ r.sent \in Seq(Commands)
      /\ r.ended \in BOOLEAN /\ r.mistaken \in BOOLEAN
  BY DEF Parsers
<1>2. Len(r.commands) \in Nat /\ Len(r.sent) \in Nat
  BY <1>1, LenProperties
<1>. QED BY <1>1, <1>2 DEF Clients

LEMMA CommandAdded ==
  ASSUME NEW commands \in Seq(Commands), NEW x \in Commands
  PROVE  LET new == Append(commands, x) IN
         /\ new \in Seq(Commands) /\ Len(commands) \in Nat /\ Len(new) = Len(commands) + 1
         /\ \A i \in 1 .. Len(commands) : new[i] = commands[i]
         /\ new[Len(commands) + 1] = x
BY LenProperties, AppendProperties

LEMMA CommandIs ==
  /\ \A arg \in Nat, kind \in {"nextdl", "stopdl", "donedl"} :
       Command(kind, arg) \in Commands /\ Command(kind, arg).kind = kind
  /\ \A f \in Files :
       Command("download", f) \in Commands /\ Command("download", f).kind = "download"
BY DEF Command, Commands

LEMMA NextFileIs ==
  ASSUME NEW r \in Parsers, NEW last \in Files
  PROVE  LET t == NextFile(r, last) IN
         /\ t \in Parsers /\ t.mistaken = r.mistaken /\ t.sent = r.sent /\ t.ended = r.ended
         /\ t.client.creates = r.client.creates /\ t.client.received = r.client.received
         /\ t.client.complete = r.client.complete
         /\ IF last < Len(Blocks)
            THEN /\ t.client.downloadName = last + 1 /\ t.client.downloadBlock = 0
                 /\ t.commands = Append(r.commands, Command("download", last + 1))
            ELSE /\ t.client.downloadName = r.client.downloadName
                 /\ t.client.downloadBlock = r.client.downloadBlock
                 /\ t.commands \in {r.commands, Append(r.commands, Command("donedl", 0))}
<1> DEFINE t == NextFile(r, last)  c == r.client
<1>1. /\ c \in Clients /\ r.commands \in Seq(Commands)
  BY ParserIs
<1>2. CASE last < Len(Blocks)
  <2> DEFINE d == [c EXCEPT !.downloadName = last + 1, !.downloadBlock = 0,
                            !.downloadRestart = TRUE]
             new == Append(r.commands, Command("download", last + 1))
  <2>1. t = [r EXCEPT !.client = d, !.commands = new]
    BY <1>1, <1>2 DEF NextFile, Parsers, Clients
  <2>2. last + 1 \in Files /\ last + 1 \in Names
    BY <1>2, FilesAre DEF Names
  <2>3. /\ d \in Clients /\ d.creates = c.creates /\ d.received = c.received
        /\ d.complete = c.complete /\ d.downloadName = last + 1 /\ d.downloadBlock = 0
    BY <1>1, <2>2 DEF Clients
  <2>4. new \in Seq(Commands)
    BY <1>1, <2>2, CommandIs, CommandAdded
  <2> HIDE DEF t, d, new, c
  <2>5. /\ t \in Parsers /\ t.client = d /\ t.commands = new /\ t.mistaken = r.mistaken
        /\ t.sent = r.sent /\ t.ended = r.ended
    BY <2>1, <2>3, <2>4 DEF Parsers
  <2>. QED BY <1>2, <2>3, <2>5 DEF t, new, c
<1>3. CASE ~(last < Len(Blocks)) /\ c.downloadRestart
  <2> DEFINE d == [c EXCEPT !.downloadRestart = FALSE]
             new == Append(r.commands, Command("donedl", 0))
  <2>1. t = [r EXCEPT !.client = d, !.commands = new]
    BY <1>1, <1>3 DEF NextFile, Parsers, Clients
  <2>3. /\ d \in Clients /\ d.creates = c.creates /\ d.received = c.received
        /\ d.complete = c.complete /\ d.downloadName = c.downloadName
        /\ d.downloadBlock = c.downloadBlock
    BY <1>1 DEF Clients
  <2>4. new \in Seq(Commands)
    BY <1>1, CommandIs, CommandAdded
  <2> HIDE DEF t, d, new, c
  <2>5. /\ t \in Parsers /\ t.client = d /\ t.commands = new /\ t.mistaken = r.mistaken
        /\ t.sent = r.sent /\ t.ended = r.ended
    BY <2>1, <2>3, <2>4 DEF Parsers
  <2>. QED BY <1>3, <2>3, <2>5 DEF t, new, c
<1>4. CASE ~(last < Len(Blocks)) /\ ~c.downloadRestart
  <2> DEFINE d == [c EXCEPT !.state = "loading"]
  <2>1. t = [r EXCEPT !.client = d]
    BY <1>1, <1>4 DEF NextFile, Parsers, Clients
  <2>3. /\ d \in Clients /\ d.creates = c.creates /\ d.received = c.received
        /\ d.complete = c.complete /\ d.downloadName = c.downloadName
        /\ d.downloadBlock = c.downloadBlock
    BY <1>1 DEF Clients
  <2> HIDE DEF t, d, c
  <2>5. /\ t \in Parsers /\ t.client = d /\ t.commands = r.commands /\ t.mistaken = r.mistaken
        /\ t.sent = r.sent /\ t.ended = r.ended
    BY <2>1, <2>3 DEF Parsers
  <2>. QED BY <1>4, <2>3, <2>5 DEF t, c
<1>. QED BY <1>2, <1>3, <1>4

LEMMA TakenIs ==
  ASSUME NEW r \in Parsers, NEW block \in BlockMessages, r.client.downloadName \in Files
  PROVE  LET t == Taken(r, block)  c == r.client  d == t.client
             f == c.downloadName
             ack == Append(r.commands, Command("nextdl", c.downloadBlock)) IN
         /\ t \in Parsers /\ t.mistaken = r.mistaken /\ d.creates = c.creates
         /\ t.sent \in {r.sent, ack}
         /\ IF ~End(block)
            THEN /\ d.downloadName = f /\ d.downloadBlock = c.downloadBlock + 1
                 /\ d.received = [c.received EXCEPT ![f] = Append(@, block.data)]
                 /\ d.complete = c.complete /\ t.commands = ack
            ELSE /\ d.received = c.received /\ d.complete = c.complete \union {f}
                 /\ IF f < Len(Blocks)
                    THEN /\ d.downloadName = f + 1 /\ d.downloadBlock = 0
                         /\ t.commands = Append(ack, Command("download", f + 1))
                    ELSE /\ d.downloadName = NoFile
                         /\ d.downloadBlock = c.downloadBlock + 1
                         /\ t.commands \in {ack, Append(ack, Command("donedl", 0))}
<1> DEFINE t == Taken(r, block)  c == r.client  f == c.downloadName  b == c.downloadBlock
           ack == Append(r.commands, Command("nextdl", b))
<1>1. /\ c \in Clients /\ r.commands \in Seq(Commands) /\ b \in Nat /\ b + 1 \in Nat
      /\ c.received \in [Files -> Seq(Datas)] /\ block.data \in Datas /\ f \in Names
  BY ParserIs DEF BlockMessages
<1>2. ack \in Seq(Commands)
  BY <1>1, CommandIs, CommandAdded
<1>3. CASE ~End(block)
  <2> DEFINE received == [c.received EXCEPT ![f] = Append(@, block.data)]
             d == [c EXCEPT !.received = received, !.downloadBlock = b + 1]
  <2>1. t = [r EXCEPT !.client = d, !.commands = ack]
    BY <1>1, <1>3 DEF Taken, Parsers, Clients
  <2>2. received \in [Files -> Seq(Datas)]
    <3>1. Append(c.received[f], block.data) \in Seq(Datas)
      BY <1>1, AppendProperties
    <3>. QED BY <1>1, <3>1
  <2> HIDE DEF received
  <2>3. /\ d \in Clients /\ d.creates = c.creates /\ d.received = received
        /\ d.complete = c.complete /\ d.downloadName = f /\ d.downloadBlock = b + 1
    BY <1>1, <2>2 DEF Clients
  <2> HIDE DEF t, d, c, ack, f, b
  <2>5. t \in Parsers /\ t.client = d /\ t.commands = ack /\ t.mistaken = r.mistaken
        /\ t.sent = r.sent
    BY <1>2, <2>1, <2>3 DEF Parsers
  <2>. QED BY <1>3, <2>3, <2>5 DEF t, c, ack, f, b, received
<1>4. CASE End(block)
  <2> DEFINE d == [c EXCEPT !.downloadName = NoFile, !.downloadBlock = b + 1,
                            !.complete = c.complete \union {f}]
             u == [r EXCEPT !.client = d, !.commands = ack, !.sent = ack]
  <2>1. t = NextFile(u, f)
    <3>1. [r EXCEPT !.client.downloadName = NoFile, !.client.downloadBlock = @ + 1,
                    !.client.complete = @ \union {f}, !.commands = ack, !.sent = ack] = u
      BY <1>1 DEF Parsers, Clients
    <3>. QED BY <1>4, <3>1, Zenon DEF Taken
  <2>3. /\ d \in Clients /\ d.creates = c.creates /\ d.received = c.received
        /\ d.complete = c.complete \union {f} /\ d.downloadName = NoFile
        /\ d.downloadBlock = b + 1
    BY <1>1 DEF Clients, Names
  <2> HIDE DEF t, d, c, ack, f, b
  <2>5. u \in Parsers /\ u.client = d /\ u.commands = ack /\ u.mistaken = r.mistaken
        /\ u.sent = ack
    BY <1>2, <2>3 DEF Parsers
  <2> HIDE DEF u
  <2>6. f \in Files
    BY DEF f, c
  <2>7. /\ t \in Parsers /\ t.mistaken = u.mistaken /\ t.sent = u.sent
        /\ t.client.creates = u.client.creates /\ t.client.received = u.client.received
        /\ t.client.complete = u.client.complete
        /\ IF f < Len(Blocks)
           THEN /\ t.client.downloadName = f + 1 /\ t.client.downloadBlock = 0
                /\ t.commands = Append(u.commands, Command("download", f + 1))
           ELSE /\ t.client.downloadName = u.client.downloadName
                /\ t.client.downloadBlock = u.client.downloadBlock
                /\ t.commands \in {u.commands, Append(u.commands, Command("donedl", 0))}
    BY <2>1, <2>5, <2>6, NextFileIs
  <2>8. /\ t \in Parsers /\ t.mistaken = r.mistaken /\ t.client.creates = c.creates
        /\ t.sent = ack
        /\ t.client.received = c.received /\ t.client.complete = c.complete \union {f}
        /\ IF f < Len(Blocks)
           THEN /\ t.client.downloadName = f + 1 /\ t.client.downloadBlock = 0
                /\ t.commands = Append(ack, Command("download", f + 1))
           ELSE /\ t.client.downloadName = NoFile /\ t.client.downloadBlock = b + 1
                /\ t.commands \in {ack, Append(ack, Command("donedl", 0))}
    BY <2>3, <2>5, <2>7
  <2>. QED BY <1>4, <2>8 DEF t, c, ack, f, b
<1>. QED BY <1>3, <1>4

LEMMA Stopped ==
  ASSUME NEW r \in Parsers
  PROVE  LET new == Append(r.commands, Command("stopdl", 0)) IN
         /\ new \in Seq(Commands) /\ Len(new) = Len(r.commands) + 1 /\ Len(r.commands) \in Nat
         /\ \A i \in 1 .. Len(r.commands) : new[i] = r.commands[i]
         /\ new[Len(r.commands) + 1].kind = "stopdl"
<1>1. r.commands \in Seq(Commands)
  BY ParserIs
<1>2. Command("stopdl", 0) \in Commands /\ Command("stopdl", 0).kind = "stopdl"
  BY CommandIs
<1>. QED BY <1>1, <1>2, CommandAdded

LEMMA MistakenIs ==
  ASSUME NEW r \in Parsers, NEW block
  PROVE  LET t == Mistaken(r, block) IN
         /\ t \in Parsers /\ t.client = r.client /\ t.commands = r.commands
         /\ t.sent = r.sent /\ t.ended = r.ended
         /\ (t.mistaken <=> r.mistaken \/ block.of # r.client.downloadName)
<1> DEFINE m == r.mistaken \/ block.of # r.client.downloadName
           t == [r EXCEPT !.mistaken = m]
<1>1. Mistaken(r, block) = t
  BY DEF Mistaken, Parsers
<1>2. m \in BOOLEAN
  BY Zenon
<1>4. m <=> r.mistaken \/ block.of # r.client.downloadName
  OBVIOUS
<1> HIDE DEF m
<1>3. /\ t \in Parsers /\ t.client = r.client /\ t.commands = r.commands
      /\ t.sent = r.sent /\ t.ended = r.ended /\ t.mistaken = m
  BY <1>2 DEF Parsers
<1> HIDE DEF t
<1>. QED BY <1>1, <1>3, <1>4, Zenon


\* What the invariant says of a client.
SameDownload(c, d) ==
  /\ d.creates = c.creates /\ d.downloadName = c.downloadName
  /\ d.downloadBlock = c.downloadBlock /\ d.received = c.received
  /\ d.complete = c.complete

\* The ways a block may be parsed: passed over; not requested; given up by a client
\* that cannot write it; taken.
PassedOver(r, t) ==
  /\ SameDownload(r.client, t.client)
  /\ t.commands = r.commands /\ t.sent = r.sent /\ t.mistaken = r.mistaken

NotRequested(r, t) ==
  /\ r.client.downloadName = NoFile /\ SameDownload(r.client, t.client)
  /\ t.commands = Append(r.commands, Command("stopdl", 0))
  /\ t.sent = r.sent /\ t.mistaken = r.mistaken

GivenUp(r, t) ==
  /\ ~r.client.creates /\ r.client.downloadName \in Files
  /\ \E u \in Parsers :
       /\ u.client = r.client /\ u.commands = Append(r.commands, Command("stopdl", 0))
       /\ u.sent = r.sent /\ (r.mistaken => u.mistaken)
       /\ t = NextFile(u, r.client.downloadName)

TakenFor(r, block, t) ==
  /\ r.client.creates /\ r.client.downloadName \in Files
  /\ ~block.refused /\ r.client.downloadBlock = block.number
  /\ \E u \in Parsers :
       /\ u.client = r.client /\ u.commands = r.commands /\ u.sent = r.sent
       /\ (u.mistaken <=> r.mistaken \/ block.of # r.client.downloadName)
       /\ t = Taken(u, block)

LEMMA ParsedCases ==
  ASSUME NEW r \in Parsers, NEW block \in BlockMessages, NEW ends \in BOOLEAN
  PROVE  LET t == ParsedBlock(r, block, ends) IN
         \/ t \in Parsers /\ PassedOver(r, t)
         \/ t \in Parsers /\ NotRequested(r, t)
         \/ GivenUp(r, t)
         \/ TakenFor(r, block, t)
<1> DEFINE t == ParsedBlock(r, block, ends)  c == r.client  f == c.downloadName
           stopped == Append(r.commands, Command("stopdl", 0))
<1>1. /\ c \in Clients /\ f \in Names /\ r.commands \in Seq(Commands)
      /\ c.state \in {"connected", "loading", "dropped"}
  BY ParserIs
<1>2. stopped \in Seq(Commands)
  BY Stopped
<1>3. ASSUME NEW x \in {"connected", "loading", "dropped"}
      PROVE  LET d == [c EXCEPT !.state = x] IN d \in Clients /\ SameDownload(c, d)
  BY <1>1 DEF Clients, SameDownload
<1>4. CASE c.state = "dropped" \/ r.ended
  <2>1. t = r
    BY <1>4 DEF ParsedBlock
  <2> HIDE DEF t
  <2>2. SameDownload(c, c)
    BY DEF SameDownload
  <2>. QED BY <2>1, <2>2 DEF t, PassedOver
<1>5. CASE ~(c.state = "dropped" \/ r.ended) /\ f = NoFile
  <2> DEFINE x == IF ends /\ block.number # 0 THEN c.state ELSE "dropped"
             d == [c EXCEPT !.state = x]
  <2>1. t = [r EXCEPT !.client = d, !.commands = stopped, !.ended = TRUE]
    BY <1>5 DEF ParsedBlock, Parsers, Clients
  <2>2. x \in {"connected", "loading", "dropped"}
    BY <1>1
  <2> HIDE DEF x
  <2>3. d \in Clients /\ SameDownload(c, d)
    BY <1>3, <2>2
  <2> HIDE DEF t, d, stopped, c
  <2>4. /\ t \in Parsers /\ t.client = d /\ t.commands = stopped /\ t.sent = r.sent
        /\ t.mistaken = r.mistaken
    BY <1>2, <2>1, <2>3 DEF Parsers
  <2>5. NotRequested(r, t)
    BY <1>5, <2>3, <2>4 DEF NotRequested, c, stopped
  <2>. QED BY <2>4, <2>5 DEF t
<1>6. CASE ~(c.state = "dropped" \/ r.ended) /\ f # NoFile /\ block.refused
  <2> DEFINE d == [c EXCEPT !.state = "dropped"]
  <2>1. t = [r EXCEPT !.client = d]
    BY <1>6 DEF ParsedBlock, Parsers, Clients
  <2>3. d \in Clients /\ SameDownload(c, d)
    BY <1>3
  <2> HIDE DEF t, d, c
  <2>4. /\ t \in Parsers /\ t.client = d /\ t.commands = r.commands /\ t.sent = r.sent
        /\ t.mistaken = r.mistaken
    BY <2>1, <2>3 DEF Parsers
  <2>5. PassedOver(r, t)
    BY <2>3, <2>4 DEF PassedOver, c
  <2>. QED BY <2>4, <2>5 DEF t
<1>7. CASE /\ ~(c.state = "dropped" \/ r.ended) /\ f # NoFile /\ ~block.refused
           /\ c.downloadBlock # block.number
  <2>1. t = r
    BY <1>7 DEF ParsedBlock, Expected
  <2> HIDE DEF t
  <2>2. SameDownload(c, c)
    BY DEF SameDownload
  <2>. QED BY <2>1, <2>2 DEF t, PassedOver
<1>8. CASE /\ ~(c.state = "dropped" \/ r.ended) /\ f # NoFile /\ ~block.refused
           /\ c.downloadBlock = block.number
  <2> DEFINE m == Mistaken(r, block)
  <2>1. /\ m \in Parsers /\ m.client = r.client /\ m.commands = r.commands
        /\ m.sent = r.sent /\ m.ended = r.ended
        /\ (m.mistaken <=> r.mistaken \/ block.of # r.client.downloadName)
    BY MistakenIs
  <2>2. f \in Files
    BY <1>1, <1>8 DEF Names
  <2>3. CASE c.creates
    <3>1. t = Taken(m, block)
      BY <1>8, <2>3 DEF ParsedBlock, Expected
    <3> HIDE DEF t, m
    <3>2. TakenFor(r, block, t)
      BY <1>8, <2>1, <2>2, <2>3, <3>1 DEF TakenFor
    <3>. QED BY <3>2 DEF t
  <2>4. CASE ~c.creates
    <3> DEFINE u == [m EXCEPT !.commands = stopped]
    <3>1. t = NextFile(u, f)
      <4>1. t = NextFile([m EXCEPT !.commands = Append(@, Command("stopdl", 0))], f)
        BY <1>8, <2>4 DEF ParsedBlock, Expected
      <4> HIDE DEF m, t, f
      <4>2. [m EXCEPT !.commands = Append(@, Command("stopdl", 0))] = u
        BY <2>1 DEF Parsers
      <4>. QED BY <4>1, <4>2
    <3> HIDE DEF t, m
    <3>2. /\ u \in Parsers /\ u.client = r.client /\ u.commands = stopped
          /\ u.sent = r.sent /\ (r.mistaken => u.mistaken)
      <4> HIDE DEF stopped
      <4>. QED BY <1>2, <2>1 DEF Parsers
    <3> HIDE DEF u
    <3>3. GivenUp(r, t)
      BY <2>2, <2>4, <3>1, <3>2 DEF GivenUp
    <3>. QED BY <3>3 DEF t
  <2>. QED BY <2>3, <2>4
<1>. QED BY <1>4, <1>5, <1>6, <1>7, <1>8

\* The types, and what only grows.
Parsed(r, t) ==
  /\ t \in Parsers /\ t.client.creates = r.client.creates
  /\ Len(r.commands) <= Len(t.commands)
  /\ r.mistaken => t.mistaken
  /\ Len(r.sent) <= Len(r.commands) => Len(t.sent) <= Len(t.commands)

\* No acknowledgement is among commands.
NoAcks(commands) == \A i \in 1 .. Len(commands) : commands[i].kind # "nextdl"

LEMMA NoAckAdded ==
  ASSUME NEW commands \in Seq(Commands), NoAcks(commands), NEW x \in Commands,
         x.kind # "nextdl"
  PROVE  NoAcks(Append(commands, x))
<1> DEFINE new == Append(commands, x)  n == Len(commands)
<1>1. /\ n \in Nat /\ Len(new) = n + 1 /\ new[n + 1] = x
      /\ \A i \in 1 .. n : new[i] = commands[i]
  BY CommandAdded
<1> HIDE DEF new, n
<1>2. ASSUME NEW i \in 1 .. Len(new) PROVE new[i].kind # "nextdl"
  <2>1. CASE i = n + 1
    BY <1>1, <2>1
  <2>2. CASE i # n + 1
    <3>1. i \in 1 .. n
      BY <1>1, <2>2
    <3>. QED BY <1>1, <3>1 DEF NoAcks, n
  <2>. QED BY <2>1, <2>2
<1>. QED BY <1>2 DEF NoAcks, new

LEMMA ParsedIs ==
  ASSUME NEW r \in Parsers, NEW block \in BlockMessages, NEW ends \in BOOLEAN
  PROVE  LET t == ParsedBlock(r, block, ends) IN
         /\ Parsed(r, t)
         /\ ~r.client.creates /\ NoAcks(r.commands)
            => NoAcks(t.commands) /\ t.client.complete = r.client.complete
<1> DEFINE t == ParsedBlock(r, block, ends)  c == r.client  n == Len(r.commands)
           stopped == Append(r.commands, Command("stopdl", 0))
<1>1. /\ \/ t \in Parsers /\ PassedOver(r, t)
         \/ t \in Parsers /\ NotRequested(r, t)
         \/ GivenUp(r, t)
         \/ TakenFor(r, block, t)
      /\ r.commands \in Seq(Commands) /\ n \in Nat /\ Len(r.sent) \in Nat
      /\ c.downloadBlock \in Nat
  BY ParsedCases, ParserIs
<1>2. /\ stopped \in Seq(Commands) /\ Len(stopped) = n + 1
      /\ NoAcks(r.commands) => NoAcks(stopped)
  <2>1. Command("stopdl", 0) \in Commands /\ Command("stopdl", 0).kind # "nextdl"
    BY CommandIs
  <2>. QED BY <1>1, <2>1, CommandAdded, NoAckAdded
<1> HIDE DEF t, stopped
<1>3. CASE t \in Parsers /\ PassedOver(r, t)
  BY <1>1, <1>3 DEF PassedOver, SameDownload, Parsed, t
<1>4. CASE t \in Parsers /\ NotRequested(r, t)
  <2>1. t.commands = stopped /\ t.sent = r.sent /\ SameDownload(c, t.client)
        /\ t.mistaken = r.mistaken
    BY <1>4 DEF NotRequested, stopped
  <2>. QED BY <1>1, <1>2, <1>4, <2>1 DEF SameDownload, Parsed, t
<1>5. CASE GivenUp(r, t)
  <2> DEFINE f == c.downloadName
  <2>1. /\ ~c.creates /\ f \in Files
        /\ \E v \in Parsers :
             /\ v.client = r.client /\ v.commands = stopped
             /\ v.sent = r.sent /\ (r.mistaken => v.mistaken) /\ t = NextFile(v, f)
    BY <1>5 DEF GivenUp, stopped
  <2>2. PICK u \in Parsers :
          /\ u.client = c /\ u.commands = stopped
          /\ u.sent = r.sent /\ (r.mistaken => u.mistaken) /\ t = NextFile(u, f)
    BY <2>1
  <2>3. /\ t \in Parsers /\ t.mistaken = u.mistaken /\ t.sent = u.sent
        /\ t.client.creates = u.client.creates /\ t.client.complete = u.client.complete
        /\ t.commands \in {stopped, Append(stopped, Command("download", f + 1)),
                           Append(stopped, Command("donedl", 0))}
        /\ t.commands = Append(stopped, Command("download", f + 1)) =>
             f < Len(Blocks) \/ t.commands \in {stopped, Append(stopped, Command("donedl", 0))}
    BY <2>1, <2>2, NextFileIs
  <2>4. ASSUME NEW x \in Commands, x.kind # "nextdl"
        PROVE  /\ Len(Append(stopped, x)) = n + 2
               /\ NoAcks(r.commands) => NoAcks(Append(stopped, x))
    <3>1. Len(Append(stopped, x)) = Len(stopped) + 1
      BY <1>2, CommandAdded
    <3>2. NoAcks(r.commands) => NoAcks(Append(stopped, x))
      BY <1>2, <2>4, NoAckAdded
    <3>. QED BY <1>1, <1>2, <3>1, <3>2
  <2>5. Command("donedl", 0) \in Commands /\ Command("donedl", 0).kind # "nextdl"
    BY CommandIs
  <2>6. f < Len(Blocks) => /\ Command("download", f + 1) \in Commands
                           /\ Command("download", f + 1).kind # "nextdl"
    <3>1. f < Len(Blocks) => f + 1 \in Files
      BY <2>1, FilesAre
    <3>. QED BY <3>1, CommandIs
  <2>7. Len(t.commands) >= n /\ (NoAcks(r.commands) => NoAcks(t.commands))
    <3>1. n + 1 >= n /\ n + 2 >= n
      BY <1>1
    <3>. QED BY <1>2, <2>3, <2>4, <2>5, <2>6, <3>1
  <2>8. Len(t.sent) = Len(r.sent)
    BY <2>2, <2>3
  <2>9. Len(t.commands) \in Nat
    BY <2>3, ParserIs
  <2>10. n <= Len(t.commands) /\ (Len(r.sent) <= n => Len(t.sent) <= Len(t.commands))
    BY <1>1, <2>7, <2>8, <2>9
  <2>. QED BY <2>2, <2>3, <2>7, <2>10 DEF Parsed, t
<1>6. CASE TakenFor(r, block, t)
  <2> DEFINE f == c.downloadName  ack == Append(r.commands, Command("nextdl", c.downloadBlock))
  <2>1. PICK u \in Parsers :
          /\ u.client = c /\ u.commands = r.commands /\ u.sent = r.sent
          /\ (r.mistaken => u.mistaken) /\ t = Taken(u, block)
    BY <1>6 DEF TakenFor
  <2>2. c.creates /\ f \in Files
    BY <1>6 DEF TakenFor
  <2>3. /\ t \in Parsers /\ t.mistaken = u.mistaken /\ t.client.creates = c.creates
        /\ t.sent \in {r.sent, ack}
        /\ t.commands \in {ack, Append(ack, Command("download", f + 1)),
                           Append(ack, Command("donedl", 0))}
        /\ (t.commands = Append(ack, Command("download", f + 1)) =>
             f < Len(Blocks) \/ t.commands \in {ack, Append(ack, Command("donedl", 0))})
    <3> DEFINE g == u.client.downloadName
               a == Append(u.commands, Command("nextdl", u.client.downloadBlock))
    <3>1. /\ g \in Files /\ g = f /\ a = ack /\ u.client.creates = c.creates
          /\ u.sent = r.sent
      BY <2>1, <2>2
    <3>2. /\ t \in Parsers /\ t.mistaken = u.mistaken /\ t.client.creates = u.client.creates
          /\ t.sent \in {u.sent, a}
          /\ \/ t.commands = a
             \/ g < Len(Blocks) /\ t.commands = Append(a, Command("download", g + 1))
             \/ t.commands = Append(a, Command("donedl", 0))
      BY <2>1, <3>1, TakenIs
    <3> HIDE DEF a, ack, f, g, c
    <3>. QED BY <3>1, <3>2
  <2>4. ack \in Seq(Commands) /\ Len(ack) = n + 1
    BY <1>1, CommandIs, CommandAdded
  <2> HIDE DEF ack
  <2>5. ASSUME NEW x \in Commands PROVE Len(Append(ack, x)) = n + 2
    <3>1. Len(Append(ack, x)) = Len(ack) + 1
      BY <2>4, CommandAdded
    <3>. QED BY <1>1, <2>4, <3>1
  <2>6. Command("donedl", 0) \in Commands
    BY CommandIs
  <2>7. f < Len(Blocks) => Command("download", f + 1) \in Commands
    <3>1. f < Len(Blocks) => f + 1 \in Files
      BY <2>2, FilesAre
    <3>. QED BY <3>1, CommandIs
  <2>8. Len(t.commands) \in {n + 1, n + 2}
    BY <2>3, <2>4, <2>5, <2>6, <2>7
  <2>9. Len(t.sent) \in {Len(r.sent), n + 1}
    BY <2>3, <2>4
  <2>10. n <= Len(t.commands) /\ (Len(r.sent) <= n => Len(t.sent) <= Len(t.commands))
    BY <1>1, <2>8, <2>9
  <2>. QED BY <2>1, <2>2, <2>3, <2>10 DEF Parsed, t
<1>. QED BY <1>1, <1>3, <1>4, <1>5, <1>6
-----------------------------------------------------------------------------
(* The client keeps step with the server.                                   *)

\* The client is as far with its file, or further, or done with the files up to f.
Onward(c, d, f) ==
  \/ d.downloadName = c.downloadName /\ c.downloadBlock <= d.downloadBlock
  \/ d.downloadName \notin 1 .. f

LEMMA BlockStays ==
  ASSUME NEW b, NEW c, NEW d, c.downloadBlock \in Nat, d.downloadBlock \in Nat,
         NEW f \in Nat, NEW top \in Nat, BlockOK(b, c, f, top), Onward(c, d, f)
  PROVE  BlockOK(b, d, f, top)
<1>1. CASE b.refused
  BY <1>1 DEF BlockOK
<1>2. CASE ~b.refused
  <2>1. /\ b.of \in 1 .. f
        /\ b.of = c.downloadName =>
             \E n \in 0 .. top - 1 :
               b.number = Short(n) /\ (n >= c.downloadBlock => b.data = Data(b.of, n))
    BY <1>2 DEF BlockOK
  <2>2. ASSUME b.of = d.downloadName
        PROVE  \E n \in 0 .. top - 1 :
                 b.number = Short(n) /\ (n >= d.downloadBlock => b.data = Data(b.of, n))
    <3>1. d.downloadName = c.downloadName /\ c.downloadBlock <= d.downloadBlock
      BY <2>1, <2>2 DEF Onward
    <3>2. PICK n \in 0 .. top - 1 :
            b.number = Short(n) /\ (n >= c.downloadBlock => b.data = Data(b.of, n))
      BY <2>1, <2>2, <3>1
    <3>3. n >= d.downloadBlock => n >= c.downloadBlock
      BY <3>1
    <3>. QED BY <3>2, <3>3
  <2>. QED BY <2>1, <2>2 DEF BlockOK
<1>. QED BY <1>1, <1>2

\* More of the file has been read.
LEMMA BlockLater ==
  ASSUME NEW b, NEW c, NEW f \in Nat, NEW top \in Nat, NEW more \in Nat, top <= more,
         BlockOK(b, c, f, top)
  PROVE  BlockOK(b, c, f, more)
<1>1. \A n \in 0 .. top - 1 : n \in 0 .. more - 1
  OBVIOUS
<1>. QED BY <1>1 DEF BlockOK

\* Commands are added at the end.
Grown(commands, new) ==
  /\ Len(commands) \in Nat /\ Len(new) \in Nat /\ Len(commands) <= Len(new)
  /\ \A i \in 1 .. Len(commands) : new[i] = commands[i]

LEMMA GrownByOne ==
  ASSUME NEW commands \in Seq(Commands), NEW x \in Commands
  PROVE  LET new == Append(commands, x) IN
         Grown(commands, new) /\ new \in Seq(Commands) /\ Len(new) = Len(commands) + 1
<1> DEFINE new == Append(commands, x)
<1>1. /\ Len(commands) \in Nat /\ Len(new) = Len(commands) + 1 /\ new \in Seq(Commands)
      /\ \A i \in 1 .. Len(commands) : new[i] = commands[i]
  BY CommandAdded
<1> HIDE DEF new
<1>. QED BY <1>1 DEF Grown, new

LEMMA GrownMore ==
  ASSUME NEW p, NEW q, NEW r, Grown(p, q), Grown(q, r)
  PROVE  Grown(p, r)
<1>1. /\ Len(p) \in Nat /\ Len(q) \in Nat /\ Len(r) \in Nat
      /\ Len(p) <= Len(q) /\ Len(q) <= Len(r)
  BY DEF Grown
<1>2. \A i \in 1 .. Len(p) : i \in 1 .. Len(q)
  BY <1>1
<1>3. Len(p) <= Len(r)
  BY <1>1
<1>. QED BY <1>1, <1>2, <1>3 DEF Grown

LEMMA AsksStay ==
  ASSUME NEW commands, NEW new, Grown(commands, new), NEW k \in Nat
  PROVE  /\ \A f : Asks(commands, k, f) => Asks(new, k, f)
         /\ \A a \in Nat : Acks(commands, k, a) => Acks(new, k, a)
<1>1. Len(commands) \in Nat /\ Len(new) \in Nat /\ Len(commands) <= Len(new)
  BY DEF Grown
<1>2. ASSUME NEW f, Asks(commands, k, f) PROVE Asks(new, k, f)
  <2>1. k + 1 \in 1 .. Len(commands) /\ k + 1 <= Len(new)
    BY <1>1, <1>2 DEF Asks
  <2>. QED BY <1>2, <2>1 DEF Asks, Grown
<1>3. ASSUME NEW a \in Nat, Acks(commands, k, a) PROVE Acks(new, k, a)
  <2>1. k + 1 + a <= Len(commands) /\ k + 1 + a <= Len(new)
    BY <1>1, <1>3 DEF Acks
  <2>2. \A i \in 1 .. a : k + 1 + i \in 1 .. Len(commands)
    BY <1>1, <2>1
  <2>. QED BY <1>3, <2>1, <2>2 DEF Acks, Grown
<1>. QED BY <1>2, <1>3

LEMMA AcksOneMore ==
  ASSUME NEW commands \in Seq(Commands), NEW k \in Nat, NEW a \in Nat,
         Len(commands) = k + 1 + a, Acks(commands, k, a)
  PROVE  Acks(Append(commands, Command("nextdl", a)), k, a + 1)
<1> DEFINE x == Command("nextdl", a)  new == Append(commands, x)
<1>1. x \in Commands
  BY CommandIs
<1>2. /\ Len(new) = Len(commands) + 1 /\ new[Len(commands) + 1] = x
      /\ \A i \in 1 .. Len(commands) : new[i] = commands[i]
  BY <1>1, CommandAdded
<1> HIDE DEF new, x
<1>3. ASSUME NEW i \in 1 .. a + 1 PROVE new[k + 1 + i] = Command("nextdl", i - 1)
  <2>1. CASE i = a + 1
    <3>1. k + 1 + i = Len(commands) + 1 /\ i - 1 = a
      BY <2>1
    <3>. QED BY <1>2, <3>1 DEF x
  <2>2. CASE i # a + 1
    <3>1. i \in 1 .. a /\ k + 1 + i \in 1 .. Len(commands)
      BY <2>2
    <3>. QED BY <1>2, <3>1 DEF Acks
  <2>. QED BY <2>1, <2>2
<1>4. k + 1 + (a + 1) <= Len(new)
  BY <1>2
<1>. QED BY <1>3, <1>4 DEF Acks, new, x

LEMMA EndsStay ==
  ASSUME NEW commands \in Seq(Commands), NEW k \in Nat, Ends(commands, k), NEW x \in Commands,
         x.kind \in {"stopdl", "donedl"}
  PROVE  Ends(Append(commands, x), k)
<1> DEFINE new == Append(commands, x)  n == Len(commands)
<1>2. /\ n \in Nat /\ Len(new) = n + 1 /\ new[n + 1] = x
      /\ \A i \in 1 .. n : new[i] = commands[i]
  BY CommandAdded
<1> HIDE DEF new, n
<1>3. ASSUME NEW i \in k + 1 .. Len(new) PROVE new[i].kind \in {"stopdl", "donedl"}
  <2>1. CASE i = n + 1
    BY <1>2, <2>1
  <2>2. CASE i # n + 1
    <3>1. i \in 1 .. n /\ i \in k + 1 .. n
      BY <1>2, <2>2
    <3>. QED BY <1>2, <3>1 DEF Ends, n
  <2>. QED BY <2>1, <2>2
<1>. QED BY <1>3 DEF Ends, new

LEMMA IntactStays ==
  ASSUME NEW c, NEW d, Intact(c), SameDownload(c, d)
  PROVE  Intact(d)
BY DEF SameDownload, Intact

LEMMA LinkedStays ==
  ASSUME NEW s, NEW commands, NEW c, NEW d, SameDownload(c, d),
         NEW f, NEW k, NEW top, Linked(s, commands, c, f, k, top)
  PROVE  Linked(s, commands, d, f, k, top)
BY DEF SameDownload, Linked, Together, Behind, File

LEMMA NotRequestedLinked ==
  ASSUME NEW s, NEW c, NEW d, SameDownload(c, d), NEW commands \in Seq(Commands),
         NEW f, NEW k, NEW top, c \in Clients, c.downloadName = NoFile,
         Linked(s, commands, c, f, k, top)
  PROVE  Linked(s, Append(commands, Command("stopdl", 0)), d, f, k, top)
<1> DEFINE x == Command("stopdl", 0)  new == Append(commands, x)  a == c.downloadBlock
<1>1. x \in Commands /\ x.kind = "stopdl"
  BY CommandIs
<1>2. f \in Files /\ f \in Nat /\ k \in Nat /\ a \in Nat /\ f + 1 # NoFile
  <2>1. f \in Files /\ k \in Nat
    BY DEF Linked
  <2>2. f \in Nat /\ f + 1 # NoFile
    BY <2>1, FilesAre DEF NoFile
  <2>. QED BY <2>1, <2>2 DEF Clients
<1>3. Together(s, commands, c, f, k, top) /\ top \in Nat /\ k <= s.lastClientCommand
  BY <1>2 DEF Linked, Behind
<1>4. Grown(commands, new)
  BY <1>1, GrownByOne
<1>5. Asks(new, k, f) /\ Acks(new, k, a)
  <2> HIDE DEF new
  <2>1. Asks(commands, k, f) /\ Acks(commands, k, a)
    BY <1>3 DEF Together
  <2>. QED BY <1>2, <1>4, <2>1, AsksStay
<1>6. Ends(new, k + 1 + a)
  <2>1. Ends(commands, k + 1 + a) /\ k + 1 + a \in Nat
    BY <1>2, <1>3 DEF Together
  <2> HIDE DEF a
  <2>. QED BY <1>1, <2>1, EndsStay
<1> HIDE DEF new
<1>7. Together(s, new, d, f, k, top)
  BY <1>3, <1>5, <1>6 DEF Together, SameDownload, File
<1>. QED BY <1>2, <1>3, <1>7 DEF Linked, new, x

\* A block is the next of the client's file, which server and client are both at.
Due(s, commands, c, f, k, top, block) ==
  LET a == c.downloadBlock  l == s.lastClientCommand - k IN
  /\ c.downloadName = f /\ f \in Files /\ k \in Nat /\ top \in Nat
  /\ k <= s.lastClientCommand
  /\ Asks(commands, k, f) /\ Acks(commands, k, a) /\ Len(commands) = k + 1 + a
  /\ Windowed(s) /\ s.state # "zombie" /\ Runs(s, f, top, a + 1, l)
  /\ a < SHORT_LIMIT /\ a <= Blocks[f] /\ block.data = Data(f, a)

\* A block taken for one of the client's file is the next of it: the number of no
\* other that the server may have sent is the same in a short.
LEMMA TakenFits ==
  ASSUME NEW s, NEW commands, NEW c \in Clients, Intact(c),
         NEW f, NEW k, NEW top, Linked(s, commands, c, f, k, top), Len(commands) \in Nat,
         s.lastClientCommand <= Len(commands), c.downloadName \in Files,
         NEW block, ~block.refused, block.number = c.downloadBlock,
         block.of = c.downloadName, BlockOK(block, c, f, top)
  PROVE  Due(s, commands, c, f, k, top, block)
<1> DEFINE a == c.downloadBlock  m == s.lastClientCommand  l == m - k  P == Blocks[f]
           W == MAX_DOWNLOAD_WINDOW
<1>1. /\ f \in Files /\ k \in Nat /\ top \in Nat /\ k <= m
      /\ c.downloadName \in 1 .. f
  BY DEF Linked, BlockOK
<1>2. /\ f \in Nat /\ P \in Nat \ {0} /\ a \in Nat
      /\ c.downloadName # f + 1 /\ c.downloadName # NoFile
  BY <1>1, FilesAre DEF Clients
<1>3. Together(s, commands, c, f, k, top)
  BY <1>2 DEF Linked, Behind
<1>4. /\ c.downloadName = f /\ Serves(s, f, top, a, l) /\ Asks(commands, k, f)
      /\ Acks(commands, k, a) /\ Len(commands) = k + 1 + a
  BY <1>2, <1>3 DEF Together, File
<1>5. PICK n \in 0 .. top - 1 : a = Short(n) /\ (n >= a => block.data = Data(f, n))
  BY <1>1, <1>4 DEF BlockOK
<1>6. Runs(s, f, top, a, l) /\ Windowed(s) /\ s.state # "zombie"
  BY <1>1, <1>4, <1>5 DEF Serves, Waits
<1>7. /\ s \in Servers /\ s.clientBlock \in Nat /\ s.currentBlock \in Nat /\ m \in Nat
      /\ s.currentBlock <= s.clientBlock + W
  BY <1>6, ServerIs DEF Windowed
<1>8. /\ W \in Nat /\ SHORT_LIMIT \in Nat /\ W <= SHORT_LIMIT
  BY Sizes
<1>9. /\ top = s.currentBlock /\ s.clientBlock <= a /\ a <= top
      /\ l <= a + 1 => s.clientBlock = Least(l - 1, P)
  BY <1>6 DEF Runs
<1>10. a <= SHORT_LIMIT /\ a <= P
  BY <1>4, <1>2 DEF Intact
<1>11. n \in Nat /\ n < top
  BY <1>1
<1> HIDE DEF W, P
<1>12. n < 2 * SHORT_LIMIT
  <2> HIDE DEF a, m
  <2>1. top <= a + W
    BY <1>2, <1>7, <1>8, <1>9
  <2>. QED BY <1>1, <1>2, <1>8, <1>10, <1>11, <2>1
<1>13. n = a /\ a < SHORT_LIMIT
  BY <1>2, <1>5, <1>11, <1>12, ShortIs
<1>14. block.data = Data(f, a)
  BY <1>2, <1>5, <1>13
<1>15. Runs(s, f, top, a + 1, l)
  <2> HIDE DEF a, m, l
  <2>1. s.clientBlock <= a + 1 /\ a + 1 <= top
    BY <1>1, <1>2, <1>7, <1>9, <1>11, <1>13
  <2>2. l <= a + 1
    <3>1. m <= k + 1 + a
      BY <1>4 DEF m
    <3>. QED BY <1>1, <1>2, <1>7, <3>1 DEF l
  <2>3. /\ top = s.currentBlock /\ l >= 1 /\ s.count <= P
        /\ IF s.eof THEN s.count = P /\ s.currentBlock = P + 1
                    ELSE s.currentBlock = s.count
        /\ s.downloadName = (IF s.download THEN f ELSE NoFile) /\ Filled(s, f)
    BY <1>6 DEF Runs, P
  <2>. QED BY <1>9, <2>1, <2>2, <2>3 DEF Runs, P
<1>. QED BY <1>1, <1>4, <1>6, <1>7, <1>10, <1>13, <1>14, <1>15 DEF P, Due

\* A block in the middle of a file.
LEMMA MiddleTaken ==
  ASSUME NEW s, NEW commands \in Seq(Commands), NEW c \in Clients, NEW d, Intact(c),
         NEW f \in Files, NEW k \in Nat, NEW top \in Nat, k <= s.lastClientCommand,
         c.downloadName = f, c.downloadBlock < Blocks[f], c.downloadBlock < SHORT_LIMIT,
         Asks(commands, k, f), Acks(commands, k, c.downloadBlock),
         Len(commands) = k + 1 + c.downloadBlock,
         Windowed(s), s.state # "zombie",
         Runs(s, f, top, c.downloadBlock + 1, s.lastClientCommand - k),
         d.downloadName = f, d.downloadBlock = c.downloadBlock + 1,
         d.received = [c.received EXCEPT ![f] = Append(@, Part(f, c.downloadBlock))],
         d.complete = c.complete
  PROVE  /\ Intact(d)
         /\ Linked(s, Append(commands, Command("nextdl", c.downloadBlock)), d, f, k, top)
<1> DEFINE a == c.downloadBlock  P == Blocks[f]  x == Command("nextdl", a)
           new == Append(commands, x)
<1>1. /\ a \in Nat /\ P \in Nat \ {0} /\ SHORT_LIMIT \in Nat /\ f # NoFile /\ f \in Nat
      /\ c.received \in [Files -> Seq(Datas)] /\ x \in Commands
      /\ \A h \in Files : h \in Nat
  BY FilesAre, Sizes, CommandIs DEF Clients
<1>2. /\ c.complete = 1 .. f - 1 /\ \A h \in c.complete : c.received[h] = Contents(h)
      /\ \A h \in Files : h > f => c.received[h] = <<>>
      /\ c.received[f] = [i \in 1 .. a |-> Part(f, i - 1)]
  BY <1>1 DEF Intact
<1>3. \A h \in Files : h # f => d.received[h] = c.received[h]
  BY <1>1
<1>4. d.received[f] = [i \in 1 .. a + 1 |-> Part(f, i - 1)]
  <2> DEFINE had == c.received[f]  has == Append(had, Part(f, a))
  <2>1. had \in Seq(Datas) /\ Part(f, a) \in Datas
    <3>1. Data(f, a) = Part(f, a) /\ Data(f, a) \in Datas
      BY <1>1, DataIs
    <3>. QED BY <1>1, <3>1
  <2>2. Len(had) = a /\ \A i \in 1 .. a : had[i] = Part(f, i - 1)
    <3>1. DOMAIN had = 1 .. Len(had) /\ Len(had) \in Nat
      BY <2>1, LenProperties
    <3>2. DOMAIN had = 1 .. a
      BY <1>2
    <3> HIDE DEF had, a
    <3>3. Len(had) = a
      <4> DEFINE n == Len(had)
      <4>1. n \in Nat /\ a \in Nat /\ 1 .. n = 1 .. a
        BY <1>1, <3>1, <3>2
      <4> HIDE DEF n
      <4>2. n \in 1 .. n \/ n = 0
        BY <4>1
      <4>3. a \in 1 .. a \/ a = 0
        BY <4>1
      <4>4. n <= a
        BY <4>1, <4>2
      <4>5. a <= n
        BY <4>1, <4>3
      <4>. QED BY <4>1, <4>4, <4>5 DEF n
    <3>. QED BY <1>2, <3>3 DEF had, a
  <2>3. d.received[f] = has
    BY <1>1
  <2> HIDE DEF had
  <2>4. /\ has \in Seq(Datas) /\ Len(has) = a + 1 /\ has[a + 1] = Part(f, a)
        /\ \A i \in 1 .. a : has[i] = Part(f, i - 1)
    BY <2>1, <2>2, AppendProperties
  <2> HIDE DEF has, a
  <2>5. has = [i \in 1 .. Len(has) |-> has[i]]
    <3>1. DOMAIN has = 1 .. Len(has) /\ has = [i \in DOMAIN has |-> has[i]]
      BY <2>4, LenProperties
    <3>. QED BY <3>1
  <2>6. ASSUME NEW i \in 1 .. a + 1 PROVE has[i] = Part(f, i - 1)
    <3>1. CASE i = a + 1
      <4>1. i - 1 = a
        BY <1>1, <3>1
      <4>. QED BY <2>4, <3>1, <4>1
    <3>2. CASE i # a + 1
      <4>1. i \in 1 .. a
        BY <1>1, <3>2
      <4>. QED BY <2>4, <4>1
    <3>. QED BY <3>1, <3>2
  <2>. QED BY <2>3, <2>4, <2>5, <2>6
<1>5. a + 1 <= P /\ a + 1 <= SHORT_LIMIT
  BY <1>1
<1>6. Intact(d)
  <2>1. \A h \in d.complete : d.received[h] = Contents(h)
    <3>1. \A h \in 1 .. f - 1 : h \in Files /\ h # f
      BY <1>1, FilesAre
    <3>. QED BY <1>2, <1>3, <3>1
  <2>2. \A h \in Files : h > f => d.received[h] = <<>>
    <3>1. \A h \in Files : h > f => h # f
      BY <1>1
    <3>. QED BY <1>2, <1>3, <3>1
  <2>. QED BY <1>1, <1>2, <1>4, <1>5, <2>1, <2>2 DEF Intact
<1>7. Grown(commands, new) /\ new \in Seq(Commands) /\ Len(new) = Len(commands) + 1
  BY <1>1, GrownByOne
<1>8. Asks(new, k, f) /\ Acks(new, k, a + 1) /\ Len(new) = k + 1 + (a + 1)
  <2>1. Acks(new, k, a + 1)
    BY <1>1, AcksOneMore
  <2> HIDE DEF new
  <2>2. Asks(new, k, f)
    BY <1>7, AsksStay
  <2>. QED BY <1>1, <1>7, <2>1, <2>2
<1>9. Ends(new, k + 1 + (a + 1))
  <2> HIDE DEF new
  <2>1. k + 1 + (a + 1) \in Nat
    BY <1>1
  <2>. QED BY <1>8, <2>1 DEF Ends
<1> HIDE DEF new, a
<1>10. Together(s, new, d, f, k, top)
  BY <1>1, <1>8, <1>9 DEF Together, Serves, File, a
<1>. QED BY <1>6, <1>10 DEF Linked, new, x, a

\* The last block of a file: the next is asked for, or none.
LEMMA LastTaken ==
  ASSUME NEW s, NEW commands \in Seq(Commands), NEW c \in Clients, NEW d, NEW new, Intact(c),
         NEW f \in Files, NEW k \in Nat, NEW top \in Nat, k <= s.lastClientCommand,
         c.downloadName = f, c.downloadBlock = Blocks[f], Blocks[f] < SHORT_LIMIT,
         Asks(commands, k, f), Acks(commands, k, Blocks[f]),
         Len(commands) = k + 1 + Blocks[f], s.lastClientCommand <= Len(commands),
         Windowed(s), s.state # "zombie",
         Runs(s, f, top, Blocks[f] + 1, s.lastClientCommand - k),
         d.received = c.received, d.complete = c.complete \union {f},
         LET ack == Append(commands, Command("nextdl", Blocks[f])) IN
         IF f < Len(Blocks)
         THEN /\ d.downloadName = f + 1 /\ d.downloadBlock = 0
              /\ new = Append(ack, Command("download", f + 1))
         ELSE /\ d.downloadName = NoFile /\ d.downloadBlock = Blocks[f] + 1
              /\ new \in {ack, Append(ack, Command("donedl", 0))}
  PROVE  Intact(d) /\ Linked(s, new, d, f, k, top)
<1> DEFINE P == Blocks[f]  x == Command("nextdl", P)  ack == Append(commands, x)
           m == s.lastClientCommand
<1>1. /\ P \in Nat \ {0} /\ SHORT_LIMIT \in Nat /\ f # NoFile /\ f \in Nat
      /\ Len(Blocks) \in Nat /\ x \in Commands /\ Files = 1 .. Len(Blocks)
      /\ f <= Len(Blocks)
  BY FilesAre, Sizes, CommandIs
<1>2. /\ c.complete = 1 .. f - 1 /\ \A h \in c.complete : c.received[h] = Contents(h)
      /\ \A h \in Files : h > f => c.received[h] = <<>>
      /\ c.received[f] = [i \in 1 .. P |-> Part(f, i - 1)]
  BY <1>1 DEF Intact
<1>3. d.complete = 1 .. f /\ \A h \in 1 .. f : d.received[h] = Contents(h)
  <2>1. (1 .. f - 1) \union {f} = 1 .. f
    BY <1>1
  <2>2. c.received[f] = Contents(f)
    BY <1>2 DEF Contents
  <2>3. \A h \in 1 .. f : h = f \/ h \in 1 .. f - 1
    BY <1>1
  <2>. QED BY <1>2, <2>1, <2>2, <2>3
<1>4. /\ Grown(commands, ack) /\ ack \in Seq(Commands) /\ Len(ack) = k + 1 + (P + 1)
      /\ Acks(ack, k, P + 1)
  <2>1. Acks(ack, k, P + 1)
    BY <1>1, AcksOneMore
  <2>2. Grown(commands, ack) /\ ack \in Seq(Commands) /\ Len(ack) = Len(commands) + 1
    BY <1>1, GrownByOne
  <2> HIDE DEF ack
  <2>. QED BY <1>1, <2>1, <2>2
<1> HIDE DEF ack
<1>5. Asks(ack, k, f)
  BY <1>4, AsksStay
<1>6. P + 1 \in Nat /\ m \in Nat /\ m <= k + 1 + P
  <2>1. s \in Servers
    BY DEF Windowed
  <2>. QED BY <1>1, <2>1, ServerIs
<1>7. CASE f < Len(Blocks)
  <2> DEFINE y == Command("download", f + 1)
  <2>1. /\ d.downloadName = f + 1 /\ d.downloadBlock = 0 /\ new = Append(ack, y)
    BY <1>7 DEF ack
  <2>2. f + 1 \in Files /\ f + 1 # NoFile /\ (f + 1) - 1 = f
    BY <1>1, <1>7 DEF NoFile
  <2>3. y \in Commands
    BY <2>2, CommandIs
  <2>4. /\ Grown(ack, new) /\ Len(new) = Len(ack) + 1 /\ new[Len(ack) + 1] = y
    BY <1>4, <2>1, <2>3, GrownByOne, CommandAdded
  <2> HIDE DEF y
  <2>5. Acks(new, k, P + 1)
    BY <1>4, <1>6, <2>4, AsksStay
  <2>6. Asks(new, k + P + 2, f + 1) /\ Len(new) = k + P + 3
    <3>1. Len(ack) = k + P + 2 /\ Len(new) = k + P + 3 /\ k + P + 2 + 1 = k + P + 3
          /\ k + P + 3 <= k + P + 3
      <4> HIDE DEF P
      <4>. QED BY <1>1, <1>4, <2>4
    <3>2. k + P + 2 + 1 = Len(ack) + 1
      BY <3>1
    <3>. QED BY <2>4, <3>1, <3>2 DEF Asks, y
  <2>7. m <= k + P + 2
    BY <1>1, <1>6
  <2>8. Behind(s, new, d, f, k, top)
    BY <2>1, <2>5, <2>6, <2>7 DEF Behind, Serves
  <2>9. Intact(d)
    <3>1. f + 1 > f /\ d.received[f + 1] = <<>>
      BY <1>1, <1>2, <2>2
    <3>2. <<>> = [i \in 1 .. 0 |-> Part(f + 1, i - 1)]
      OBVIOUS
    <3>3. \A h \in Files : h > f + 1 => d.received[h] = <<>>
      BY <1>1, <1>2
    <3>4. 0 <= Blocks[f + 1] /\ 0 <= SHORT_LIMIT
      BY <1>1, <2>2, FilesAre
    <3>5. d.downloadName # NoFile
      BY <2>1, <2>2
    <3>6. d.complete = 1 .. d.downloadName - 1
      BY <1>3, <2>1, <2>2
    <3>7. d.received[d.downloadName] =
            [i \in 1 .. d.downloadBlock |-> Part(d.downloadName, i - 1)]
      BY <2>1, <3>1, <3>2
    <3>8. \A h \in d.complete : d.received[h] = Contents(h)
      BY <1>3
    <3>9. \A h \in Files : d.downloadName # NoFile /\ h > d.downloadName => d.received[h] = <<>>
      BY <2>1, <3>3
    <3>10. d.downloadBlock <= Blocks[d.downloadName] /\ d.downloadBlock <= SHORT_LIMIT
      BY <2>1, <3>4
    <3>. QED BY <3>5, <3>6, <3>7, <3>8, <3>9, <3>10, Zenon DEF Intact
  <2>. QED BY <2>8, <2>9 DEF Linked
<1>8. CASE ~(f < Len(Blocks))
  <2> DEFINE y == Command("donedl", 0)
  <2>1. /\ d.downloadName = NoFile /\ d.downloadBlock = P + 1
        /\ new \in {ack, Append(ack, y)} /\ f = Len(Blocks)
    <3>1. f = Len(Blocks)
      BY <1>1, <1>8
    <3>. QED BY <1>8, <3>1, Zenon DEF ack
  <2>2. y \in Commands /\ y.kind \in {"stopdl", "donedl"}
    BY CommandIs
  <2>3. Ends(ack, k + 1 + (P + 1))
    BY <1>4, <1>6 DEF Ends
  <2>4. k + 1 + (P + 1) \in Nat
    BY <1>6
  <2>5. Asks(new, k, f) /\ Acks(new, k, P + 1) /\ Ends(new, k + 1 + (P + 1))
    <3>1. CASE new = ack
      BY <1>4, <1>5, <2>3, <3>1
    <3>2. CASE new = Append(ack, y)
      <4> DEFINE j == k + 1 + (P + 1)
      <4>1. Grown(ack, new)
        BY <1>4, <2>2, <3>2, GrownByOne
      <4>2. Asks(new, k, f) /\ Acks(new, k, P + 1)
        BY <1>4, <1>5, <1>6, <4>1, AsksStay
      <4>3. Ends(ack, j) /\ j \in Nat
        BY <2>3, <2>4
      <4> HIDE DEF j, y
      <4>4. Ends(new, j)
        BY <1>4, <2>2, <3>2, <4>3, EndsStay
      <4>. QED BY <4>2, <4>4 DEF j
    <3>. QED BY <2>1, <3>1, <3>2
  <2>6. Together(s, new, d, f, k, top)
    BY <2>1, <2>5 DEF Together, Serves, File
  <2>7. Intact(d)
    <3>1. d.complete = Files
      BY <1>1, <1>3, <2>1
    <3>2. P + 1 <= SHORT_LIMIT
      BY <1>1
    <3>. QED BY <1>1, <1>3, <2>1, <3>1, <3>2 DEF Intact
  <2>. QED BY <2>6, <2>7 DEF Linked
<1>. QED BY <1>7, <1>8

LEMMA ParsedExact ==
  ASSUME NEW s, NEW r \in Parsers, NEW block \in BlockMessages, NEW ends \in BOOLEAN,
         r.client.creates, Intact(r.client), NEW f, NEW k, NEW top,
         Linked(s, r.commands, r.client, f, k, top),
         s.lastClientCommand <= Len(r.commands), BlockOK(block, r.client, f, top)
  PROVE  LET t == ParsedBlock(r, block, ends) IN
         \/ t.mistaken
         \/ /\ Intact(t.client) /\ Linked(s, t.commands, t.client, f, k, top)
            /\ Onward(r.client, t.client, f)
<1> DEFINE t == ParsedBlock(r, block, ends)  c == r.client  a == c.downloadBlock
<1>1. /\ \/ t \in Parsers /\ PassedOver(r, t)
         \/ t \in Parsers /\ NotRequested(r, t)
         \/ GivenUp(r, t)
         \/ TakenFor(r, block, t)
      /\ r.commands \in Seq(Commands) /\ Len(r.commands) \in Nat /\ c \in Clients
      /\ a \in Nat
  BY ParsedCases, ParserIs
<1> HIDE DEF t
<1>2. CASE PassedOver(r, t)
  <2>1. SameDownload(c, t.client) /\ t.commands = r.commands
    BY <1>2 DEF PassedOver
  <2>2. Intact(t.client) /\ Linked(s, t.commands, t.client, f, k, top)
    BY <2>1, IntactStays, LinkedStays
  <2>3. Onward(c, t.client, f)
    BY <1>1, <2>1 DEF Onward, SameDownload
  <2>. QED BY <2>2, <2>3 DEF t
<1>3. CASE NotRequested(r, t)
  <2>1. /\ SameDownload(c, t.client) /\ t.commands = Append(r.commands, Command("stopdl", 0))
        /\ c.downloadName = NoFile
    BY <1>3 DEF NotRequested
  <2>2. Intact(t.client) /\ Linked(s, t.commands, t.client, f, k, top)
    BY <1>1, <2>1, IntactStays, NotRequestedLinked
  <2>3. Onward(c, t.client, f)
    BY <1>1, <2>1 DEF Onward, SameDownload
  <2>. QED BY <2>2, <2>3 DEF t
<1>4. CASE TakenFor(r, block, t)
  <2> DEFINE g == c.downloadName  d == t.client
             ack == Append(r.commands, Command("nextdl", a))
  <2>1. g \in Files /\ ~block.refused /\ block.number = a
    BY <1>4 DEF TakenFor
  <2>2. PICK u \in Parsers :
          /\ u.client = c /\ u.commands = r.commands
          /\ (u.mistaken <=> r.mistaken \/ block.of # g) /\ t = Taken(u, block)
    BY <1>4 DEF TakenFor
  <2>3. /\ t.mistaken = u.mistaken
        /\ IF ~End(block)
           THEN /\ d.downloadName = g /\ d.downloadBlock = a + 1
                /\ d.received = [c.received EXCEPT ![g] = Append(@, block.data)]
                /\ d.complete = c.complete /\ t.commands = ack
           ELSE /\ d.received = c.received /\ d.complete = c.complete \union {g}
                /\ IF g < Len(Blocks)
                   THEN /\ d.downloadName = g + 1 /\ d.downloadBlock = 0
                        /\ t.commands = Append(ack, Command("download", g + 1))
                   ELSE /\ d.downloadName = NoFile /\ d.downloadBlock = a + 1
                        /\ t.commands \in {ack, Append(ack, Command("donedl", 0))}
    <3>1. u.client.downloadName \in Files
      BY <2>1, <2>2
    <3>2. LET e == u.client  h == e.downloadName
              new == Append(u.commands, Command("nextdl", e.downloadBlock)) IN
          /\ t.mistaken = u.mistaken
          /\ IF ~End(block)
             THEN /\ d.downloadName = h /\ d.downloadBlock = e.downloadBlock + 1
                  /\ d.received = [e.received EXCEPT ![h] = Append(@, block.data)]
                  /\ d.complete = e.complete /\ t.commands = new
             ELSE /\ d.received = e.received /\ d.complete = e.complete \union {h}
                  /\ IF h < Len(Blocks)
                     THEN /\ d.downloadName = h + 1 /\ d.downloadBlock = 0
                          /\ t.commands = Append(new, Command("download", h + 1))
                     ELSE /\ d.downloadName = NoFile /\ d.downloadBlock = e.downloadBlock + 1
                          /\ t.commands \in {new, Append(new, Command("donedl", 0))}
      BY <2>2, <3>1, TakenIs
    <3>3. u.client = c /\ u.commands = r.commands
      BY <2>2
    <3> HIDE DEF c, d
    <3>. QED BY <3>2, <3>3, Zenon DEF c
  <2>4. CASE block.of = g
    <3> DEFINE l == s.lastClientCommand - k
    <3>1. /\ g = f /\ f \in Files /\ k \in Nat /\ top \in Nat
          /\ k <= s.lastClientCommand
          /\ Asks(r.commands, k, f) /\ Acks(r.commands, k, a) /\ Len(r.commands) = k + 1 + a
          /\ Windowed(s) /\ s.state # "zombie" /\ Runs(s, f, top, a + 1, l)
          /\ a < SHORT_LIMIT /\ a <= Blocks[f] /\ block.data = Data(f, a)
      <4> DEFINE commands == r.commands
      <4>1. /\ c \in Clients /\ Intact(c) /\ Linked(s, commands, c, f, k, top)
            /\ Len(commands) \in Nat /\ s.lastClientCommand <= Len(commands)
            /\ c.downloadName \in Files /\ ~block.refused
            /\ block.number = c.downloadBlock /\ block.of = c.downloadName
            /\ BlockOK(block, c, f, top)
        BY <1>1, <2>1, <2>4
      <4> HIDE DEF c, commands
      <4>2. Due(s, commands, c, f, k, top, block)
        BY <4>1, TakenFits
      <4>. QED BY <4>2, Zenon DEF commands, Due
    <3>2. Blocks[f] \in Nat \ {0} /\ f \in Nat /\ f # NoFile /\ f + 1 \notin 1 .. f
          /\ NoFile \notin 1 .. f
      BY <3>1, FilesAre DEF NoFile
    <3>3. (End(block) <=> a = Blocks[f]) /\ (a < Blocks[f] => block.data = Part(f, a))
      <4>1. (Data(f, a) = EndOfFile <=> a >= Blocks[f])
            /\ (a < Blocks[f] => Data(f, a) = Part(f, a))
        BY <1>1, <3>1, DataIs
      <4>2. a >= Blocks[f] <=> a = Blocks[f]
        BY <1>1, <3>1, <3>2
      <4>. QED BY <3>1, <4>1, <4>2 DEF End
    <3>4. CASE a < Blocks[f]
      <4>1. /\ d.downloadName = f /\ d.downloadBlock = a + 1
            /\ d.received = [c.received EXCEPT ![f] = Append(@, Part(f, a))]
            /\ d.complete = c.complete /\ t.commands = ack
        <5>1. ~End(block) /\ block.data = Part(f, a)
          BY <1>1, <3>2, <3>3, <3>4
        <5>. QED BY <2>3, <3>1, <5>1
      <4>2. Intact(d) /\ Linked(s, ack, d, f, k, top)
        <5> HIDE DEF c, d
        <5>. QED BY <1>1, <3>1, <3>4, <4>1, MiddleTaken DEF c
      <4>3. Onward(c, d, f)
        BY <1>1, <3>1, <4>1 DEF Onward
      <4>. QED BY <4>1, <4>2, <4>3 DEF t
    <3>5. CASE a = Blocks[f]
      <4> DEFINE P == Blocks[f]
      <4>1. /\ d.received = c.received /\ d.complete = c.complete \union {f}
            /\ LET more == Append(r.commands, Command("nextdl", P)) IN
               IF f < Len(Blocks)
               THEN /\ d.downloadName = f + 1 /\ d.downloadBlock = 0
                    /\ t.commands = Append(more, Command("download", f + 1))
               ELSE /\ d.downloadName = NoFile /\ d.downloadBlock = P + 1
                    /\ t.commands \in {more, Append(more, Command("donedl", 0))}
        BY <2>3, <3>1, <3>3, <3>5
      <4>2. Intact(d) /\ Linked(s, t.commands, d, f, k, top)
        <5> DEFINE commands == r.commands  new == t.commands
        <5>1. /\ commands \in Seq(Commands) /\ c \in Clients /\ Intact(c)
              /\ f \in Files /\ k \in Nat /\ top \in Nat /\ k <= s.lastClientCommand
              /\ c.downloadName = f /\ c.downloadBlock = P /\ P < SHORT_LIMIT
              /\ Asks(commands, k, f) /\ Acks(commands, k, P) /\ Len(commands) = k + 1 + P
              /\ s.lastClientCommand <= Len(commands)
              /\ Windowed(s) /\ s.state # "zombie"
              /\ Runs(s, f, top, P + 1, s.lastClientCommand - k)
          BY <1>1, <3>1, <3>5
        <5>2. /\ d.received = c.received /\ d.complete = c.complete \union {f}
              /\ LET more == Append(commands, Command("nextdl", P)) IN
                 IF f < Len(Blocks)
                 THEN /\ d.downloadName = f + 1 /\ d.downloadBlock = 0
                      /\ new = Append(more, Command("download", f + 1))
                 ELSE /\ d.downloadName = NoFile /\ d.downloadBlock = P + 1
                      /\ new \in {more, Append(more, Command("donedl", 0))}
          BY <4>1
        <5> HIDE DEF c, d, commands, new
        <5>. QED BY <5>1, <5>2, LastTaken DEF new
      <4>3. d.downloadName \in {f + 1, NoFile}
        BY <4>1
      <4>4. Onward(c, d, f)
        BY <3>2, <4>3 DEF Onward
      <4>. QED BY <4>2, <4>4 DEF t
    <3>. QED BY <1>1, <3>1, <3>2, <3>4, <3>5
  <2>5. CASE block.of # g
    BY <2>2, <2>3, <2>5 DEF t
  <2>. QED BY <2>4, <2>5
<1>. QED BY <1>1, <1>2, <1>3, <1>4 DEF GivenUp

\* The blocks of one message.
LEMMA MessageIs ==
  ASSUME NEW r \in Parsers, NEW blocks \in Seq(BlockMessages), NEW ends \in BOOLEAN,
         Len(r.sent) <= Len(r.commands)
  PROVE  LET Parse(q, block) == ParsedBlock(q, block, ends)
             t == FoldLeft(Parse, r, blocks)
         IN  /\ t \in Parsers /\ t.client.creates = r.client.creates
             /\ Len(r.commands) <= Len(t.commands) /\ Len(t.sent) <= Len(t.commands)
             /\ r.mistaken => t.mistaken
             /\ ~r.client.creates /\ NoAcks(r.commands)
                => NoAcks(t.commands) /\ t.client.complete = r.client.complete
<1> DEFINE Parse(q, block) == ParsedBlock(q, block, ends)
           t == FoldLeft(Parse, r, blocks)
           Good(q) == /\ q.client.creates = r.client.creates
                      /\ Len(r.commands) <= Len(q.commands)
                      /\ Len(q.sent) <= Len(q.commands)
                      /\ r.mistaken => q.mistaken
                      /\ ~r.client.creates /\ NoAcks(r.commands)
                         => NoAcks(q.commands) /\ q.client.complete = r.client.complete
           good == {q \in Parsers : Good(q)}
<1>1. r \in good
  <2>1. Len(r.commands) \in Nat
    BY ParserIs
  <2>. QED BY <2>1
<1>2. ASSUME NEW i \in 1 .. Len(blocks), NEW q \in good
      PROVE  ParsedBlock(q, blocks[i], ends) \in good
  <2> DEFINE v == ParsedBlock(q, blocks[i], ends)
  <2>1. blocks[i] \in BlockMessages
    BY ElementOfSeq
  <2>2. q \in Parsers /\ Good(q)
    <3> HIDE DEF Good
    <3>. QED OBVIOUS
  <2>3. /\ Parsed(q, v)
        /\ ~q.client.creates /\ NoAcks(q.commands)
           => NoAcks(v.commands) /\ v.client.complete = q.client.complete
    BY <2>1, <2>2, ParsedIs
  <2> HIDE DEF v
  <2>4. v \in Parsers
    BY <2>3 DEF Parsed
  <2>5. Len(r.commands) \in Nat /\ Len(q.commands) \in Nat /\ Len(v.commands) \in Nat
    BY <2>2, <2>4, ParserIs
  <2>6. Len(r.commands) <= Len(v.commands)
    BY <2>2, <2>3, <2>5 DEF Parsed
  <2>7. Good(v)
    BY <2>2, <2>3, <2>6 DEF Parsed
  <2> HIDE DEF Good
  <2>. QED BY <2>4, <2>7 DEF v
<1> HIDE DEF good
<1>5. \A i \in 1 .. Len(blocks) : \A q \in good : ParsedBlock(q, blocks[i], ends) \in good
  BY <1>2
<1> DEFINE m == IF ends THEN "ends" ELSE "goes"
<1>6. PICK g : Steps(g, m, r, blocks, Len(blocks))
               /\ FoldLeft(Parse, r, blocks) = g[1 .. Len(blocks)]
  BY ClientFold, Zenon
<1>7. m # "server" /\ (m = "ends") = ends
  OBVIOUS
<1> HIDE DEF m, t
<1>8. g[1 .. Len(blocks)] \in good
  BY <1>1, <1>5, <1>6, <1>7, ClientKeeps
<1>3. t \in good
  BY <1>6, <1>8, Zenon DEF t
<1> HIDE DEF t
<1>4. t \in Parsers /\ Good(t)
  BY <1>3 DEF good
<1>. QED BY <1>4 DEF t

LEMMA MessageExact ==
  ASSUME NEW s, s.lastClientCommand \in Nat, NEW r \in Parsers,
         NEW blocks \in Seq(BlockMessages), NEW ends \in BOOLEAN,
         s.lastClientCommand <= Len(r.commands), r.client.creates,
         Intact(r.client), NEW f \in Nat, NEW k \in Nat, NEW top \in Nat,
         Linked(s, r.commands, r.client, f, k, top), BlocksOK(blocks, r.client, f, top)
  PROVE  LET Parse(q, block) == ParsedBlock(q, block, ends)
             t == FoldLeft(Parse, r, blocks)
         IN  \/ t.mistaken
             \/ /\ Intact(t.client) /\ Linked(s, t.commands, t.client, f, k, top)
                /\ Onward(r.client, t.client, f)
<1> DEFINE Parse(q, block) == ParsedBlock(q, block, ends)
           t == FoldLeft(Parse, r, blocks)
           Fits(q) == /\ Intact(q.client) /\ Linked(s, q.commands, q.client, f, k, top)
                      /\ Onward(r.client, q.client, f)
           Good(q) == /\ q.client.creates /\ s.lastClientCommand <= Len(q.commands)
                      /\ q.mistaken \/ Fits(q)
           good == {q \in Parsers : Good(q)}
<1>1. r \in good
  <2>1. r.client.downloadBlock \in Nat
    BY ParserIs
  <2>2. Onward(r.client, r.client, f)
    BY <2>1 DEF Onward
  <2>. QED BY <2>2
<1>2. ASSUME NEW i \in 1 .. Len(blocks), NEW q \in good
      PROVE  ParsedBlock(q, blocks[i], ends) \in good
  <2> DEFINE b == blocks[i]  v == ParsedBlock(q, b, ends)
  <2>1. b \in BlockMessages /\ BlockOK(b, r.client, f, top)
    BY ElementOfSeq DEF BlocksOK
  <2>2. q \in Parsers /\ Good(q)
    <3> HIDE DEF Good
    <3>. QED OBVIOUS
  <2> HIDE DEF b, Fits
  <2>3. Parsed(q, v)
    BY <2>1, <2>2, ParsedIs
  <2>4. v \in Parsers /\ v.client.creates /\ (q.mistaken => v.mistaken)
    BY <2>2, <2>3 DEF Parsed
  <2>5. s.lastClientCommand <= Len(v.commands)
    <3>1. Len(q.commands) \in Nat /\ Len(v.commands) \in Nat
      BY <2>2, <2>4, ParserIs
    <3>. QED BY <2>2, <2>3, <3>1 DEF Parsed
  <2>6. ASSUME Fits(q), ~v.mistaken PROVE Fits(v)
    <3>1. /\ r.client.downloadBlock \in Nat /\ q.client.downloadBlock \in Nat
          /\ v.client.downloadBlock \in Nat
      BY <2>2, <2>4, ParserIs
    <3>2. /\ Intact(q.client) /\ Linked(s, q.commands, q.client, f, k, top)
          /\ Onward(r.client, q.client, f)
      BY <2>6 DEF Fits
    <3>3. BlockOK(b, q.client, f, top)
      BY <2>1, <3>1, <3>2, BlockStays
    <3>4. /\ Intact(v.client) /\ Linked(s, v.commands, v.client, f, k, top)
          /\ Onward(q.client, v.client, f)
      BY <2>1, <2>2, <2>6, <3>2, <3>3, ParsedExact
    <3> HIDE DEF v
    <3>5. Onward(r.client, v.client, f)
      BY <3>1, <3>2, <3>4 DEF Onward
    <3>. QED BY <3>4, <3>5 DEF Fits
  <2> HIDE DEF v
  <2>7. Good(v)
    BY <2>2, <2>4, <2>5, <2>6
  <2> HIDE DEF Good
  <2>. QED BY <2>4, <2>7 DEF v, b
<1> HIDE DEF good
<1>5. \A i \in 1 .. Len(blocks) : \A q \in good : ParsedBlock(q, blocks[i], ends) \in good
  BY <1>2
<1> DEFINE m == IF ends THEN "ends" ELSE "goes"
<1>6. PICK g : Steps(g, m, r, blocks, Len(blocks))
               /\ FoldLeft(Parse, r, blocks) = g[1 .. Len(blocks)]
  BY ClientFold, Zenon
<1>7. m # "server" /\ (m = "ends") = ends
  OBVIOUS
<1> HIDE DEF m, t
<1>8. g[1 .. Len(blocks)] \in good
  BY <1>1, <1>5, <1>6, <1>7, ClientKeeps
<1>3. t \in good
  BY <1>6, <1>8, Zenon DEF t
<1> HIDE DEF t, Fits
<1>4. t.mistaken \/ Fits(t)
  BY <1>3 DEF good
<1>. QED BY <1>4 DEF t, Fits
-----------------------------------------------------------------------------
(* Messages on their way.                                                   *)

LEMMA ToServerLess ==
  ASSUME NEW q, NEW n, ToServerOK(q, n), q # <<>>
  PROVE  ToServerOK(Tail(q), n) /\ Head(q) \in Nat /\ Head(q) <= n
<1>1. q \in Seq(Nat) /\ Len(q) <= Capacity /\ \A i \in 1 .. Len(q) : q[i] <= n
  BY DEF ToServerOK
<1>2. /\ Head(q) \in Nat /\ Tail(q) \in Seq(Nat) /\ Len(Tail(q)) = Len(q) - 1
      /\ \A i \in 1 .. Len(Tail(q)) : Tail(q)[i] = q[i + 1]
  BY <1>1, HeadTailProperties
<1>3. Len(q) \in Nat /\ Len(Tail(q)) \in Nat /\ Capacity \in Nat
  BY <1>1, <1>2, LenProperties, Sizes
<1>4. Head(q) = q[1]
  BY <1>1
<1> DEFINE t == Tail(q)
<1> HIDE DEF t
<1>5. \A i \in 1 .. Len(t) : i + 1 \in 1 .. Len(q)
  BY <1>2, <1>3 DEF t
<1>6. Len(t) <= Capacity /\ 1 \in 1 .. Len(q)
  BY <1>1, <1>2, <1>3 DEF t
<1>. QED BY <1>1, <1>2, <1>4, <1>5, <1>6 DEF ToServerOK, t

LEMMA ToServerMore ==
  ASSUME NEW q, NEW n \in Nat, NEW k \in Nat, k <= n, ToServerOK(q, n), Len(q) < Capacity
  PROVE  ToServerOK(Append(q, k), n)
<1>1. q \in Seq(Nat) /\ \A i \in 1 .. Len(q) : q[i] <= n
  BY DEF ToServerOK
<1> DEFINE t == Append(q, k)
<1>2. /\ t \in Seq(Nat) /\ Len(t) = Len(q) + 1
      /\ \A i \in 1 .. Len(q) : t[i] = q[i]
      /\ t[Len(q) + 1] = k
  BY <1>1, AppendProperties
<1>3. Len(q) \in Nat /\ Capacity \in Nat
  BY <1>1, LenProperties, Sizes
<1> HIDE DEF t
<1>4. ASSUME NEW i \in 1 .. Len(t) PROVE t[i] <= n
  <2>1. CASE i = Len(q) + 1
    BY <1>2, <2>1
  <2>2. CASE i # Len(q) + 1
    <3>1. i \in 1 .. Len(q)
      BY <1>2, <1>3, <2>2
    <3>. QED BY <1>1, <1>2, <3>1
  <2>. QED BY <2>1, <2>2
<1>5. Len(t) <= Capacity
  BY <1>2, <1>3
<1>. QED BY <1>2, <1>4, <1>5 DEF ToServerOK, t

LEMMA ToServerLater ==
  ASSUME NEW q, NEW n \in Nat, NEW m \in Nat, n <= m, ToServerOK(q, n)
  PROVE  ToServerOK(q, m)
<1>1. ASSUME NEW i \in 1 .. Len(q) PROVE q[i] <= m
  <2>1. q \in Seq(Nat) /\ q[i] <= n
    BY DEF ToServerOK
  <2>2. q[i] \in Nat
    BY <2>1, ElementOfSeq
  <2>. QED BY <2>1, <2>2
<1>. QED BY <1>1 DEF ToServerOK

LEMMA MessagesLess ==
  ASSUME NEW q \in Seq(Seq(BlockMessages)), q # <<>>, Len(q) <= Capacity
  PROVE  /\ Tail(q) \in Seq(Seq(BlockMessages)) /\ Head(q) \in Seq(BlockMessages)
         /\ Len(Tail(q)) <= Capacity
         /\ \A c, f, top : ToClientOK(q, c, f, top) =>
              ToClientOK(Tail(q), c, f, top) /\ BlocksOK(Head(q), c, f, top)
<1>2. /\ Tail(q) \in Seq(Seq(BlockMessages)) /\ Len(Tail(q)) = Len(q) - 1
      /\ Head(q) \in Seq(BlockMessages)
      /\ \A i \in 1 .. Len(Tail(q)) : Tail(q)[i] = q[i + 1]
  BY HeadTailProperties
<1>3. Len(q) \in Nat /\ Len(Tail(q)) \in Nat /\ Capacity \in Nat
  BY <1>2, LenProperties, Sizes
<1>4. Head(q) = q[1]
  OBVIOUS
<1> DEFINE t == Tail(q)
<1> HIDE DEF t
<1>5. \A i \in 1 .. Len(t) : i + 1 \in 1 .. Len(q)
  BY <1>2, <1>3 DEF t
<1>6. Len(t) <= Capacity /\ 1 \in 1 .. Len(q)
  BY <1>2, <1>3 DEF t
<1>7. ASSUME NEW c, NEW f, NEW top, ToClientOK(q, c, f, top)
      PROVE  ToClientOK(t, c, f, top) /\ BlocksOK(Head(q), c, f, top)
  BY <1>2, <1>4, <1>5, <1>6, <1>7 DEF ToClientOK, t
<1>. QED BY <1>2, <1>6, <1>7 DEF t

LEMMA MessagesMore ==
  ASSUME NEW q \in Seq(Seq(BlockMessages)), NEW blocks \in Seq(BlockMessages),
         Len(q) < Capacity
  PROVE  LET t == Append(q, blocks) IN
         /\ t \in Seq(Seq(BlockMessages)) /\ Len(t) <= Capacity
         /\ \A c, f, top : ToClientOK(q, c, f, top) /\ BlocksOK(blocks, c, f, top) =>
              ToClientOK(t, c, f, top)
<1> DEFINE t == Append(q, blocks)
<1>2. /\ t \in Seq(Seq(BlockMessages)) /\ Len(t) = Len(q) + 1
      /\ \A i \in 1 .. Len(q) : t[i] = q[i]
      /\ t[Len(q) + 1] = blocks
  BY AppendProperties
<1>3. Len(q) \in Nat /\ Capacity \in Nat
  BY LenProperties, Sizes
<1> HIDE DEF t
<1>4. ASSUME NEW c, NEW f, NEW top, ToClientOK(q, c, f, top), BlocksOK(blocks, c, f, top)
      PROVE  ToClientOK(t, c, f, top)
  <2>1. ASSUME NEW i \in 1 .. Len(t) PROVE BlocksOK(t[i], c, f, top)
    <3>1. CASE i = Len(q) + 1
      BY <1>2, <1>4, <3>1
    <3>2. CASE i # Len(q) + 1
      <4>1. i \in 1 .. Len(q)
        BY <1>2, <1>3, <3>2
      <4>. QED BY <1>2, <1>4, <4>1 DEF ToClientOK
    <3>. QED BY <3>1, <3>2
  <2>. QED BY <2>1 DEF ToClientOK
<1>5. Len(t) <= Capacity
  BY <1>2, <1>3
<1>. QED BY <1>2, <1>4, <1>5 DEF t

\* The client goes on, and the server reads more.
LEMMA MessagesStay ==
  ASSUME NEW q, NEW c, NEW d, c.downloadBlock \in Nat, d.downloadBlock \in Nat,
         NEW f \in Nat, NEW top \in Nat, ToClientOK(q, c, f, top), Onward(c, d, f)
  PROVE  ToClientOK(q, d, f, top)
BY BlockStays DEF ToClientOK, BlocksOK

LEMMA MessagesLater ==
  ASSUME NEW q, NEW c, NEW f \in Nat, NEW top \in Nat, NEW more \in Nat, top <= more,
         ToClientOK(q, c, f, top)
  PROVE  ToClientOK(q, c, f, more)
BY BlockLater DEF ToClientOK, BlocksOK

-----------------------------------------------------------------------------
(* A snapshot, with all read that may be.                                   *)

LEMMA ReadyIs ==
  ASSUME NEW s, Windowed(s), s.downloadName \in Files
  PROVE  LET t == WithEnd(WithReads(Opened(s))) IN
         /\ Windowed(t) /\ t.downloadName \in Files
         /\ t.lastClientCommand = s.lastClientCommand /\ t.state = s.state
         /\ (s.clientBlock <= s.currentBlock => t.clientBlock <= t.currentBlock)
         /\ \A f \in Files, top, a, l \in Nat :
              Serves(s, f, top, a, l) =>
                /\ Runs(t, f, t.currentBlock, a, l) /\ top <= t.currentBlock
                /\ t.downloadName = f
<1> DEFINE o == Opened(s)  w == WithReads(o)  t == WithEnd(w)
<1>1. /\ Windowed(o) /\ o.download /\ o.downloadName = s.downloadName
      /\ o.lastClientCommand = s.lastClientCommand /\ o.state = s.state
      /\ (s.clientBlock <= s.currentBlock => o.clientBlock <= o.currentBlock)
      /\ \A f \in Files, top, a, l \in Nat :
           Serves(s, f, top, a, l) =>
             Runs(o, f, o.currentBlock, a, l) /\ top <= o.currentBlock
  BY OpenedIs
<1> HIDE DEF o
<1>2. /\ Windowed(w) /\ SameFile(o, w) /\ w.download /\ o.currentBlock <= w.currentBlock
      /\ \A a, l \in Nat :
           LET f == o.downloadName IN
           Runs(o, f, o.currentBlock, a, l) => Runs(w, f, w.currentBlock, a, l)
  BY <1>1, ReadsIs
<1> HIDE DEF w
<1>3. /\ Windowed(t) /\ SameFile(w, t) /\ t.download /\ w.currentBlock <= t.currentBlock
      /\ \A a, l \in Nat :
           LET f == w.downloadName IN
           Runs(w, f, w.currentBlock, a, l) => Runs(t, f, t.currentBlock, a, l)
  BY <1>2, EndIs
<1> HIDE DEF t
<1>4. /\ o.currentBlock \in Nat /\ w.currentBlock \in Nat /\ t.currentBlock \in Nat
      /\ o.clientBlock \in Nat
  BY <1>1, <1>2, <1>3, ServerIs DEF Windowed
<1>5. /\ t.downloadName = s.downloadName /\ w.downloadName = o.downloadName
      /\ t.clientBlock = o.clientBlock
      /\ t.lastClientCommand = s.lastClientCommand /\ t.state = s.state
  BY <1>1, <1>2, <1>3 DEF SameFile
<1>6. s.clientBlock <= s.currentBlock => t.clientBlock <= t.currentBlock
  BY <1>1, <1>2, <1>3, <1>4, <1>5
<1>7. ASSUME NEW f \in Files, NEW top \in Nat, NEW a \in Nat, NEW l \in Nat,
             Serves(s, f, top, a, l)
      PROVE  /\ Runs(t, f, t.currentBlock, a, l) /\ top <= t.currentBlock
             /\ t.downloadName = f
  <2>1. Runs(o, f, o.currentBlock, a, l) /\ top <= o.currentBlock
    BY <1>1, <1>7
  <2>2. o.downloadName = f
    BY <1>1, <2>1 DEF Runs
  <2>3. Runs(t, f, t.currentBlock, a, l)
    BY <1>2, <1>3, <1>5, <2>1, <2>2
  <2>. QED BY <1>1, <1>2, <1>3, <1>4, <1>5, <2>1, <2>2, <2>3
<1>. QED BY <1>3, <1>5, <1>6, <1>7 DEF t, w, o

\* The server goes on with the same file.
LEMMA LinkedOn ==
  ASSUME NEW s \in Servers, NEW t, NEW commands, NEW c \in Clients, NEW f, NEW k, NEW top,
         Linked(s, commands, c, f, k, top), t.lastClientCommand = s.lastClientCommand,
         NEW more \in Nat,
         \A a, l \in Nat : Serves(s, f, top, a, l) => Serves(t, f, more, a, l)
  PROVE  Linked(t, commands, c, f, k, more)
<1> DEFINE l == s.lastClientCommand - k
<1>1. f \in Files /\ k \in Nat /\ k <= s.lastClientCommand /\ s.lastClientCommand \in Nat
  BY ServerIs DEF Linked
<1>2. l \in Nat /\ c.downloadBlock \in Nat /\ Blocks[f] + 1 \in Nat
  BY <1>1, FilesAre DEF Clients
<1>3. CASE Together(s, commands, c, f, k, top)
  <2>1. Serves(s, f, top, c.downloadBlock, l)
    BY <1>3 DEF Together
  <2>2. Serves(t, f, more, c.downloadBlock, l)
    BY <1>2, <2>1
  <2>. QED BY <1>1, <1>3, <2>2 DEF Together, Linked
<1>4. CASE Behind(s, commands, c, f, k, top)
  <2>1. Serves(s, f, top, Blocks[f] + 1, l)
    BY <1>4 DEF Behind
  <2>2. Serves(t, f, more, Blocks[f] + 1, l)
    BY <1>2, <2>1
  <2>. QED BY <1>1, <1>4, <2>2 DEF Behind, Linked
<1>. QED BY <1>3, <1>4 DEF Linked

\* What the client acknowledges of the file the server sends.
LEMMA LinkedServes ==
  ASSUME NEW s \in Servers, NEW commands, NEW c \in Clients, NEW f, NEW k, NEW top,
         Linked(s, commands, c, f, k, top)
  PROVE  \E a, l \in Nat : /\ Serves(s, f, top, a, l)
                           /\ c.downloadName = f => c.downloadBlock = a
<1> DEFINE l == s.lastClientCommand - k
<1>1. f \in Files /\ k \in Nat /\ k <= s.lastClientCommand /\ s.lastClientCommand \in Nat
  BY ServerIs DEF Linked
<1>2. /\ l \in Nat /\ c.downloadBlock \in Nat /\ Blocks[f] + 1 \in Nat /\ f \in Nat
      /\ f + 1 # f
  BY <1>1, FilesAre DEF Clients
<1>3. CASE Together(s, commands, c, f, k, top)
  <2>1. Serves(s, f, top, c.downloadBlock, l)
    BY <1>3 DEF Together
  <2>. QED BY <1>2, <2>1
<1>4. CASE Behind(s, commands, c, f, k, top)
  <2>1. Serves(s, f, top, Blocks[f] + 1, l) /\ c.downloadName # f
    BY <1>2, <1>4 DEF Behind
  <2>. QED BY <1>2, <2>1
<1>. QED BY <1>3, <1>4 DEF Linked

LEMMA RefusedKeeps ==
  ASSUME NEW s, Windowed(s), ~s.download
  PROVE  LET t == [s EXCEPT !.downloadName = NoFile] IN
         /\ Windowed(t) /\ SameBlocks(s, t) /\ t.lastClientCommand = s.lastClientCommand
         /\ t.clientBlock = s.clientBlock /\ t.state = s.state
         /\ \A f, top, a, l : Serves(s, f, top, a, l) => Serves(t, f, top, a, l)
<1> DEFINE t == [s EXCEPT !.downloadName = NoFile]
<1>1. /\ t \in Servers /\ SameBlocks(s, t) /\ ~t.download /\ t.downloadName = NoFile
      /\ t.lastClientCommand = s.lastClientCommand
      /\ t.clientBlock = s.clientBlock /\ t.state = s.state
  BY DEF Windowed, Servers, SameBlocks, Names
<1> HIDE DEF t
<1>2. Windowed(t)
  BY <1>1 DEF Windowed, SameBlocks
<1>3. ASSUME NEW f, NEW top, NEW a, NEW l, Serves(s, f, top, a, l)
      PROVE  Serves(t, f, top, a, l)
  <2>1. Waits(s, f, top, a, l) => Waits(t, f, top, a, l)
    BY <1>1 DEF Waits, SameBlocks
  <2>2. Runs(s, f, top, a, l) => Runs(t, f, top, a, l)
    BY <1>1 DEF Runs, SameBlocks, Filled
  <2>. QED BY <1>1, <1>2, <1>3, <2>1, <2>2 DEF Serves
<1>. QED BY <1>1, <1>2, <1>3 DEF t
-----------------------------------------------------------------------------
(* The invariant is one.                                                    *)

LEMMA InitInv ==
  ASSUME Init
  PROVE  IInv
<1>1. PICK refuses \in BOOLEAN : server = NewServer(refuses)
  BY DEF Init
<1>2. PICK creates \in BOOLEAN : client = NewClient(creates)
  BY DEF Init
<1>3. /\ clientCommands = <<Command("download", 1)>> /\ toServer = <<>> /\ toClient = <<>>
      /\ lost = 0 /\ mistaken = FALSE
  BY DEF Init
<1>4. /\ 1 \in Files /\ 1 # NoFile /\ Blocks[1] \in Nat /\ \A f \in Files : f \in Nat
  BY FilesAre DEF NoFile
<1>5. /\ server \in Servers /\ ~server.download /\ server.downloadName = NoFile
      /\ server.clientBlock = 0 /\ server.currentBlock = 0 /\ server.xmitBlock = 0
      /\ server.count = 0 /\ ~server.eof /\ server.lastClientCommand = 0
      /\ server.state = "connected"
  <2> DEFINE blocks == [i \in 0 .. MAX_DOWNLOAD_WINDOW - 1 |-> EndOfFile]
  <2>1. EndOfFile \in Datas
    BY DEF EndOfFile, Datas, Names
  <2>2. blocks \in [0 .. MAX_DOWNLOAD_WINDOW - 1 -> Datas]
    BY <2>1
  <2>3. server = [downloadName |-> NoFile, download |-> FALSE, refuses |-> refuses,
                  clientBlock |-> 0, currentBlock |-> 0, xmitBlock |-> 0, count |-> 0,
                  eof |-> FALSE, blocks |-> blocks, lastClientCommand |-> 0,
                  state |-> "connected"]
    BY <1>1 DEF NewServer
  <2> HIDE DEF blocks
  <2>. QED BY <2>2, <2>3 DEF Servers, Names
<1>6. Windowed(server)
  BY <1>5, Sizes DEF Windowed
<1>7. /\ clientCommands \in Seq(Commands) /\ Len(clientCommands) = 1
      /\ clientCommands[1] = Command("download", 1)
  <2>1. Command("download", 1) \in Commands
    BY <1>4, CommandIs
  <2>. QED BY <1>3, <2>1
<1>8. /\ client \in Clients /\ client.downloadBlock = 0 /\ client.downloadName = 1
      /\ client.complete = {} /\ \A f \in Files : client.received[f] = <<>>
  <2> DEFINE received == [f \in Files |-> <<>>]
  <2>1. client = [state |-> "connected", creates |-> creates, downloadName |-> 1,
                  downloadBlock |-> 0, received |-> received, complete |-> {},
                  downloadRestart |-> TRUE]
    BY <1>2 DEF NewClient
  <2>2. received \in [Files -> Seq(Datas)] /\ \A f \in Files : received[f] = <<>>
    OBVIOUS
  <2> HIDE DEF received
  <2>. QED BY <1>4, <2>1, <2>2 DEF Clients, Names
<1>9. Types
  <2>1. <<>> \in Seq(Nat) /\ <<>> \in Seq(Seq(BlockMessages)) /\ Len(<<>>) = 0
    OBVIOUS
  <2>2. ToServerOK(toServer, Len(clientCommands))
    BY <1>3, <2>1, Sizes DEF ToServerOK
  <2>3. toClient \in Seq(Seq(BlockMessages)) /\ Len(toClient) <= Capacity
    BY <1>3, <2>1, Sizes
  <2>4. lost \in 0 .. MaxLost
    BY <1>3, Sizes
  <2>6. mistaken \in BOOLEAN
    BY <1>3, Zenon
  <2>5. server.lastClientCommand <= Len(clientCommands)
    BY <1>5, <1>7
  <2>. QED BY <1>6, <1>7, <1>8, <2>2, <2>3, <2>4, <2>5, <2>6 DEF Types
<1>10. Exact(server, clientCommands, client, toClient)
  <2>1. Intact(client)
    <3>1. [i \in 1 .. 0 |-> Part(1, i - 1)] = <<>> /\ 1 .. 1 - 1 = {}
      OBVIOUS
    <3>. QED BY <1>4, <1>8, <3>1, Sizes DEF Intact
  <2>2. Together(server, clientCommands, client, 1, 0, 0)
    <3>1. Waits(server, 1, 0, 0, 0)
      BY <1>5 DEF Waits
    <3>2. Serves(server, 1, 0, 0, 0)
      BY <1>5, <1>6, <3>1 DEF Serves
    <3>3. Asks(clientCommands, 0, 1) /\ Acks(clientCommands, 0, 0)
          /\ Ends(clientCommands, 1)
      BY <1>7 DEF Asks, Acks, Ends
    <3>. QED BY <1>4, <1>5, <1>7, <1>8, <3>2, <3>3 DEF Together, File
  <2>3. Linked(server, clientCommands, client, 1, 0, 0)
    BY <1>4, <1>5, <2>2 DEF Linked
  <2>4. ToClientOK(toClient, client, 1, 0)
    BY <1>3 DEF ToClientOK
  <2>. QED BY <2>1, <2>3, <2>4 DEF Exact
<1>11. Quiet(server, clientCommands, client)
  <2>1. Command("download", 1).kind # "nextdl"
    BY DEF Command
  <2>. QED BY <1>5, <1>7, <1>8, <2>1 DEF Quiet
<1>. QED BY <1>9, <1>10, <1>11 DEF IInv

\* What a snapshot leaves, of types and of what the client does not change.
LEMMA SnapshotKeeps ==
  ASSUME Types, NEW expired \in BOOLEAN, NEW blockspersnap \in 1 .. MaxBlocksPerSnap,
         SV_SendClientSnapshot(expired, blockspersnap)
  PROVE  /\ Types'
         /\ (server.clientBlock <= server.currentBlock
             => server'.clientBlock <= server'.currentBlock)
         /\ server'.state = server.state
         /\ Exact(server, clientCommands, client, toClient)
            => Exact(server', clientCommands, client, toClient')
<1> DEFINE n == Len(clientCommands)
           t == WithEnd(WithReads(Opened(server)))
           from == First(t, expired)
           to == Least(from + blockspersnap, t.currentBlock)
<1>1. /\ Windowed(server) /\ client \in Clients /\ clientCommands \in Seq(Commands)
      /\ server.lastClientCommand <= n /\ ToServerOK(toServer, n)
      /\ toClient \in Seq(Seq(BlockMessages)) /\ Len(toClient) <= Capacity
      /\ lost \in 0 .. MaxLost /\ mistaken \in BOOLEAN
  BY DEF Types
<1>2. /\ Len(toClient) < Capacity /\ server.downloadName # NoFile
      /\ UNCHANGED <<client, clientCommands, toServer, lost, mistaken>>
      /\ \/ Refuse
         \/ Send(t, expired, blockspersnap)
  BY DEF SV_SendClientSnapshot
<1>3. server \in Servers /\ server.downloadName \in Files
  BY <1>1, <1>2, ServerIs DEF Windowed, Names
<1>4. CASE Refuse
  <2> DEFINE u == [server EXCEPT !.downloadName = NoFile]  blocks == <<Refusal>>
             q == Append(toClient, blocks)
  <2>1. server' = u /\ toClient' = q /\ ~server.download
    BY <1>4 DEF Refuse
  <2>2. /\ Windowed(u) /\ SameBlocks(server, u)
        /\ u.lastClientCommand = server.lastClientCommand
        /\ u.clientBlock = server.clientBlock /\ u.state = server.state
        /\ \A f, top, a, l : Serves(server, f, top, a, l) => Serves(u, f, top, a, l)
    BY <1>1, <2>1, RefusedKeeps
  <2>3. /\ blocks \in Seq(BlockMessages)
        /\ \A c, f, top : BlocksOK(blocks, c, f, top)
    <3>1. EndOfFile \in Datas
      BY DEF EndOfFile, Datas, Names
    <3>2. Refusal \in BlockMessages /\ Refusal.refused
      BY <3>1 DEF Refusal, BlockMessages, Names
    <3>. QED BY <3>2 DEF BlocksOK, BlockOK
  <2>4. /\ q \in Seq(Seq(BlockMessages)) /\ Len(q) <= Capacity
        /\ \A c, f, top : ToClientOK(toClient, c, f, top) => ToClientOK(q, c, f, top)
    <3> HIDE DEF blocks
    <3>. QED BY <1>1, <1>2, <2>3, MessagesMore
  <2> HIDE DEF u, q
  <2>5. ASSUME Exact(server, clientCommands, client, toClient)
        PROVE  Exact(u, clientCommands, client, q)
    <3>1. Intact(client)
      BY <2>5 DEF Exact
    <3>2. PICK f, k, top \in Nat : /\ Linked(server, clientCommands, client, f, k, top)
                                   /\ ToClientOK(toClient, client, f, top)
      BY <2>5 DEF Exact
    <3>3. \A a, l \in Nat : Serves(server, f, top, a, l) => Serves(u, f, top, a, l)
      BY <2>2
    <3>4. Linked(u, clientCommands, client, f, k, top)
      BY <1>1, <1>3, <2>2, <3>2, <3>3, LinkedOn
    <3>. QED BY <2>4, <3>1, <3>2, <3>4 DEF Exact
  <2>6. Types'
    BY <1>1, <1>2, <2>1, <2>2, <2>4 DEF Types
  <2>. QED BY <2>1, <2>2, <2>5, <2>6 DEF SameBlocks
<1>5. CASE Send(t, expired, blockspersnap)
  <2>1. /\ Windowed(t) /\ t.downloadName \in Files
        /\ t.lastClientCommand = server.lastClientCommand /\ t.state = server.state
        /\ (server.clientBlock <= server.currentBlock => t.clientBlock <= t.currentBlock)
        /\ \A f \in Files, top, a, l \in Nat :
             Serves(server, f, top, a, l) =>
               /\ Runs(t, f, t.currentBlock, a, l) /\ top <= t.currentBlock
               /\ t.downloadName = f
    BY <1>1, <1>3, ReadyIs
  <2>2. \/ server' = t /\ UNCHANGED toClient
        \/ /\ ~(t.clientBlock = t.currentBlock \/ from >= to)
           /\ server' = [t EXCEPT !.xmitBlock = to]
           /\ toClient' =
                Append(toClient, [i \in 1 .. to - from |-> Written(t, from + i - 1)])
    BY <1>5 DEF Send
  <2> HIDE DEF t
  <2>3. /\ t \in Servers /\ t.clientBlock \in Nat /\ t.currentBlock \in Nat
        /\ t.xmitBlock \in Nat /\ t.lastClientCommand \in Nat
    BY <2>1, ServerIs DEF Windowed
  \* Of the server after it, and of what it adds to the messages.
  <2> DEFINE Sends(u, q) ==
               /\ Windowed(u) /\ SameFile(t, u) /\ u.currentBlock = t.currentBlock
               /\ q \in Seq(Seq(BlockMessages)) /\ Len(q) <= Capacity
               /\ \A c, a, l : /\ Runs(t, t.downloadName, t.currentBlock, a, l) /\ a \in Nat
                               /\ c.downloadName = t.downloadName => c.downloadBlock = a
                    => /\ Runs(u, t.downloadName, t.currentBlock, a, l)
                       /\ ToClientOK(toClient, c, t.downloadName, t.currentBlock)
                          => ToClientOK(q, c, t.downloadName, t.currentBlock)
  <2>4. Sends(server', toClient')
    <3>1. CASE server' = t /\ UNCHANGED toClient
      BY <1>1, <2>1, <3>1 DEF SameFile
    <3>2. CASE /\ ~(t.clientBlock = t.currentBlock \/ from >= to)
               /\ server' = [t EXCEPT !.xmitBlock = to]
               /\ toClient' =
                    Append(toClient, [i \in 1 .. to - from |-> Written(t, from + i - 1)])
      <4> DEFINE u == [t EXCEPT !.xmitBlock = to]
                 blocks == [i \in 1 .. to - from |-> Written(t, from + i - 1)]
                 q == Append(toClient, blocks)
      <4>1. from \in Nat /\ to \in Nat /\ from < to /\ to <= t.currentBlock
        <5>1. from \in Nat
          BY <2>3 DEF First
        <5>2. blockspersnap \in Nat
          BY Sizes
        <5> HIDE DEF from
        <5>3. to \in {from + blockspersnap, t.currentBlock} /\ to <= t.currentBlock
          BY <2>3, <5>1, <5>2, LeastIs
        <5> HIDE DEF to
        <5>. QED BY <2>3, <3>2, <5>1, <5>2, <5>3
      <4> HIDE DEF from, to
      <4>2. /\ Windowed(u) /\ SameFile(t, u) /\ u.currentBlock = t.currentBlock
            /\ blocks \in Seq(BlockMessages)
            /\ \A c, a, l : /\ Runs(t, t.downloadName, t.currentBlock, a, l) /\ a \in Nat
                            /\ c.downloadName = t.downloadName => c.downloadBlock = a
                 => /\ Runs(u, t.downloadName, t.currentBlock, a, l)
                    /\ BlocksOK(blocks, c, t.downloadName, t.currentBlock)
        BY <2>1, <4>1, SendIs
      <4> HIDE DEF u, blocks
      <4>3. /\ q \in Seq(Seq(BlockMessages)) /\ Len(q) <= Capacity
            /\ \A c, f, top : ToClientOK(toClient, c, f, top) /\ BlocksOK(blocks, c, f, top) =>
                 ToClientOK(q, c, f, top)
        BY <1>1, <1>2, <4>2, MessagesMore
      <4> HIDE DEF q
      <4>4. Sends(u, q)
        BY <4>2, <4>3
      <4>5. server' = u /\ toClient' = q
        BY <3>2 DEF u, blocks, q
      <4> HIDE DEF Sends
      <4>. QED BY <4>4, <4>5
    <3>. QED BY <2>2, <3>1, <3>2
  <2>5. /\ Windowed(server') /\ server'.currentBlock = t.currentBlock
        /\ server'.clientBlock = t.clientBlock /\ server'.state = t.state
        /\ server'.lastClientCommand = t.lastClientCommand
        /\ server'.downloadName = t.downloadName
        /\ toClient' \in Seq(Seq(BlockMessages)) /\ Len(toClient') <= Capacity
    BY <2>4 DEF SameFile
  <2>6. Types'
    BY <1>1, <1>2, <2>1, <2>5 DEF Types
  <2>7. ASSUME Exact(server, clientCommands, client, toClient)
        PROVE  Exact(server', clientCommands, client, toClient')
    <3> DEFINE more == t.currentBlock
    <3>1. Intact(client)
      BY <2>7 DEF Exact
    <3>2. PICK f, k, top \in Nat : /\ Linked(server, clientCommands, client, f, k, top)
                                   /\ ToClientOK(toClient, client, f, top)
      BY <2>7 DEF Exact
    <3>3. PICK a, l \in Nat : /\ Serves(server, f, top, a, l)
                              /\ client.downloadName = f => client.downloadBlock = a
      BY <1>1, <1>3, <3>2, LinkedServes
    <3>4. f \in Files
      BY <3>2 DEF Linked
    <3>5. Runs(t, f, more, a, l) /\ top <= more /\ t.downloadName = f /\ more \in Nat
      BY <2>1, <2>3, <3>3, <3>4
    <3>6. ToClientOK(toClient, client, f, more)
      BY <3>2, <3>5, MessagesLater
    <3>7. ToClientOK(toClient', client, f, more)
      BY <2>4, <3>3, <3>5, <3>6
    <3>8. ASSUME NEW b \in Nat, NEW j \in Nat, Serves(server, f, top, b, j)
          PROVE  Serves(server', f, more, b, j)
      <4>1. Runs(t, f, more, b, j) /\ server.state # "zombie"
        BY <2>1, <3>4, <3>8 DEF Serves
      <4>2. Runs(server', f, more, b, j)
        <5> DEFINE c == [downloadName |-> NoFile]
        <5>1. c.downloadName # f
          BY <3>4, FilesAre
        <5> HIDE DEF c
        <5>. QED BY <2>4, <3>5, <4>1, <5>1
      <4>. QED BY <2>1, <2>5, <4>1, <4>2 DEF Serves
    <3>9. Linked(server', clientCommands, client, f, k, more)
      <4>1. server'.lastClientCommand = server.lastClientCommand
        BY <2>1, <2>5
      <4> DEFINE w == server'
      <4>2. \A b, j \in Nat : Serves(server, f, top, b, j) => Serves(w, f, more, b, j)
        BY <3>8
      <4>3. w.lastClientCommand = server.lastClientCommand
        BY <4>1
      <4> HIDE DEF w, more
      <4>4. Linked(w, clientCommands, client, f, k, more)
        BY <1>1, <1>3, <3>2, <3>5, <4>2, <4>3, LinkedOn
      <4>. QED BY <4>4 DEF w
    <3>. QED BY <3>1, <3>5, <3>7, <3>9 DEF Exact
  <2>. QED BY <2>1, <2>5, <2>6, <2>7
<1>. QED BY <1>2, <1>4, <1>5

\* What a message of the server leaves.
LEMMA ParsingKeeps ==
  ASSUME Types, NEW ends \in BOOLEAN, CL_ParseServerMessage(ends)
  PROVE  /\ Types' /\ client'.creates = client.creates /\ (mistaken => mistaken')
         /\ ~client.creates /\ Quiet(server, clientCommands, client)
            => Quiet(server, clientCommands', client')
         /\ /\ client.creates /\ Exact(server, clientCommands, client, toClient)
            => mistaken' \/ Exact(server, clientCommands', client', toClient')
<1> DEFINE n == Len(clientCommands)  blocks == Head(toClient)
           r == [client |-> client, commands |-> clientCommands, sent |-> <<>>,
                 ended |-> FALSE, mistaken |-> mistaken]
           Parse(q, block) == ParsedBlock(q, block, ends)
           t == FoldLeft(Parse, r, blocks)
           m == Len(t.commands)
<1>1. /\ Windowed(server) /\ client \in Clients /\ clientCommands \in Seq(Commands)
      /\ server.lastClientCommand <= n /\ ToServerOK(toServer, n)
      /\ toClient \in Seq(Seq(BlockMessages)) /\ Len(toClient) <= Capacity
      /\ lost \in 0 .. MaxLost /\ mistaken \in BOOLEAN
  BY DEF Types
<1>2. /\ toClient # <<>> /\ toClient' = Tail(toClient)
      /\ client' = t.client /\ clientCommands' = t.commands /\ mistaken' = t.mistaken
      /\ toServer' = IF t.sent # <<>> /\ Len(toServer) < Capacity
                     THEN Append(toServer, Len(t.sent)) ELSE toServer
      /\ UNCHANGED <<server, lost>>
  <2> DEFINE x == Read(blocks, ends)
  <2>1. /\ toClient # <<>> /\ toClient' = Tail(toClient)
        /\ client' = x.client /\ clientCommands' = x.commands /\ mistaken' = x.mistaken
        /\ toServer' = IF x.sent # <<>> /\ Len(toServer) < Capacity
                       THEN Append(toServer, Len(x.sent)) ELSE toServer
        /\ UNCHANGED <<server, lost>>
    <3> HIDE DEF x
    <3>. QED BY DEF CL_ParseServerMessage, x
  <2>2. x = t
    BY Zenon DEF Read
  <2> HIDE DEF x, t
  <2>. QED BY <2>1, <2>2
<1>3. /\ toClient' \in Seq(Seq(BlockMessages)) /\ blocks \in Seq(BlockMessages)
      /\ Len(toClient') <= Capacity
      /\ \A c, f, top : ToClientOK(toClient, c, f, top) =>
           ToClientOK(toClient', c, f, top) /\ BlocksOK(blocks, c, f, top)
  BY <1>1, <1>2, MessagesLess
<1>4. /\ r \in Parsers /\ r.client = client /\ r.commands = clientCommands
      /\ r.mistaken = mistaken /\ Len(r.sent) <= Len(r.commands)
      /\ n \in Nat /\ server.lastClientCommand \in Nat
  <2>1. <<>> \in Seq(Commands) /\ Len(<<>>) = 0
    OBVIOUS
  <2>2. n \in Nat /\ server.lastClientCommand \in Nat
    BY <1>1, ServerIs, LenProperties DEF Windowed
  <2>. QED BY <1>1, <2>1, <2>2 DEF Parsers
<1> HIDE DEF r, blocks
<1>5. /\ t \in Parsers /\ t.client.creates = r.client.creates
      /\ Len(r.commands) <= Len(t.commands) /\ Len(t.sent) <= Len(t.commands)
      /\ r.mistaken => t.mistaken
      /\ ~r.client.creates /\ NoAcks(r.commands)
         => NoAcks(t.commands) /\ t.client.complete = r.client.complete
  BY <1>3, <1>4, MessageIs, Zenon
<1>6. ASSUME client.creates, Intact(client), NEW f \in Nat, NEW k \in Nat, NEW top \in Nat,
             Linked(server, clientCommands, client, f, k, top),
             BlocksOK(blocks, client, f, top)
      PROVE  \/ t.mistaken
             \/ /\ Intact(t.client) /\ Linked(server, t.commands, t.client, f, k, top)
                /\ Onward(client, t.client, f)
  <2>1. /\ server.lastClientCommand <= Len(r.commands) /\ r.client.creates
        /\ Intact(r.client) /\ Linked(server, r.commands, r.client, f, k, top)
        /\ BlocksOK(blocks, r.client, f, top)
    BY <1>1, <1>4, <1>6
  <2>2. \/ t.mistaken
        \/ /\ Intact(t.client) /\ Linked(server, t.commands, t.client, f, k, top)
           /\ Onward(r.client, t.client, f)
    BY <1>3, <1>4, <2>1, MessageExact, Zenon
  <2> HIDE DEF t
  <2>. QED BY <1>4, <2>2
<1> HIDE DEF t
<1>7. /\ t.client \in Clients /\ t.commands \in Seq(Commands) /\ m \in Nat
      /\ t.mistaken \in BOOLEAN /\ Len(t.sent) \in Nat /\ n <= m /\ Len(t.sent) <= m
      /\ t.client.downloadBlock \in Nat /\ client.downloadBlock \in Nat
  BY <1>1, <1>4, <1>5, ParserIs DEF Clients
<1>8. ToServerOK(toServer', m)
  <2> DEFINE j == Len(t.sent)
  <2>1. ToServerOK(toServer, m)
    <3> HIDE DEF n, m
    <3>. QED BY <1>1, <1>4, <1>7, ToServerLater
  <2>2. CASE t.sent # <<>> /\ Len(toServer) < Capacity
    <3>1. ToServerOK(Append(toServer, j), m)
      <4>1. j \in Nat /\ j <= m
        BY <1>7
      <4> HIDE DEF j, m
      <4>. QED BY <1>7, <2>1, <2>2, <4>1, ToServerMore
    <3>. QED BY <1>2, <2>2, <3>1
  <2>3. CASE ~(t.sent # <<>> /\ Len(toServer) < Capacity)
    BY <1>2, <2>1, <2>3
  <2>. QED BY <2>2, <2>3
<1>9. Types'
  <2>1. server.lastClientCommand <= m
    BY <1>1, <1>4, <1>7
  <2>. QED BY <1>1, <1>2, <1>3, <1>7, <1>8, <2>1 DEF Types
<1>10. ASSUME ~client.creates, Quiet(server, clientCommands, client)
       PROVE  Quiet(server, clientCommands', client')
  <2>1. NoAcks(r.commands)
    BY <1>4, <1>10 DEF Quiet, NoAcks
  <2>2. NoAcks(t.commands) /\ t.client.complete = client.complete
    BY <1>4, <1>5, <1>10, <2>1
  <2>. QED BY <1>2, <1>10, <2>2 DEF Quiet, NoAcks
<1>11. ASSUME client.creates, Exact(server, clientCommands, client, toClient), ~t.mistaken
       PROVE  Exact(server, clientCommands', client', toClient')
  <2>1. Intact(client)
    BY <1>11 DEF Exact
  <2>2. PICK f, k, top \in Nat : /\ Linked(server, clientCommands, client, f, k, top)
                                 /\ ToClientOK(toClient, client, f, top)
    BY <1>11 DEF Exact
  <2>3. ToClientOK(toClient', client, f, top) /\ BlocksOK(blocks, client, f, top)
    BY <1>3, <2>2
  <2>4. /\ Intact(t.client) /\ Linked(server, t.commands, t.client, f, k, top)
        /\ Onward(client, t.client, f)
    BY <1>6, <1>11, <2>1, <2>2, <2>3
  <2>5. ToClientOK(toClient', t.client, f, top)
    BY <1>7, <2>3, <2>4, MessagesStay
  <2>. QED BY <1>2, <2>4, <2>5 DEF Exact
<1>. QED BY <1>2, <1>4, <1>5, <1>9, <1>10, <1>11

LEMMA NextInv ==
  ASSUME IInv, [Next]_vars
  PROVE  IInv'
<1> DEFINE n == Len(clientCommands)
<1>1. /\ Types
      /\ client.creates => mistaken \/ Exact(server, clientCommands, client, toClient)
      /\ ~client.creates => Quiet(server, clientCommands, client)
  BY DEF IInv
<1>2. /\ Windowed(server) /\ client \in Clients /\ clientCommands \in Seq(Commands)
      /\ server.lastClientCommand <= n /\ ToServerOK(toServer, n) /\ n \in Nat
      /\ toClient \in Seq(Seq(BlockMessages)) /\ Len(toClient) <= Capacity
      /\ lost \in 0 .. MaxLost /\ mistaken \in BOOLEAN
  BY <1>1, LenProperties DEF Types
<1>3. CASE SV_ExecuteClientMessage
  <2> DEFINE m == Head(toServer)
             t == FoldLeft(ExecutedCommand, server,
                           SubSeq(clientCommands, server.lastClientCommand + 1, m))
  <2>1. /\ toServer # <<>> /\ toServer' = Tail(toServer) /\ server' = t
        /\ UNCHANGED <<client, clientCommands, toClient, lost, mistaken>>
    BY <1>3 DEF SV_ExecuteClientMessage
  <2>2. ToServerOK(toServer', n) /\ m \in Nat /\ m <= n
    <3> HIDE DEF n
    <3>. QED BY <1>2, <2>1, ToServerLess
  <2> HIDE DEF m
  <2>3. Windowed(t) /\ t.lastClientCommand <= n
    BY <1>2, <2>2, ServerMessage
  <2>4. ASSUME Exact(server, clientCommands, client, toClient)
        PROVE  Exact(t, clientCommands, client, toClient)
    BY <1>2, <2>2, <2>4, ServerMessageExact
  <2>5. ASSUME Quiet(server, clientCommands, client) PROVE Quiet(t, clientCommands, client)
    BY <1>2, <2>2, <2>5, ServerMessageQuiet
  <2> HIDE DEF t
  <2>6. Types'
    BY <1>2, <2>1, <2>2, <2>3 DEF Types
  <2>. QED BY <1>1, <2>1, <2>4, <2>5, <2>6 DEF IInv
<1>4. ASSUME NEW expired \in BOOLEAN, NEW blockspersnap \in 1 .. MaxBlocksPerSnap,
             SV_SendClientSnapshot(expired, blockspersnap)
      PROVE  IInv'
  <2>1. UNCHANGED <<client, clientCommands, mistaken>>
    BY <1>4 DEF SV_SendClientSnapshot
  <2>2. /\ Types'
        /\ (server.clientBlock <= server.currentBlock
            => server'.clientBlock <= server'.currentBlock)
        /\ server'.state = server.state
        /\ Exact(server, clientCommands, client, toClient)
           => Exact(server', clientCommands, client, toClient')
    BY <1>1, <1>4, SnapshotKeeps
  <2>3. Quiet(server, clientCommands, client) => Quiet(server', clientCommands, client)
    BY <2>2 DEF Quiet
  <2>. QED BY <1>1, <2>1, <2>2, <2>3 DEF IInv
<1>5. ASSUME NEW ends \in BOOLEAN, CL_ParseServerMessage(ends)
      PROVE  IInv'
  <2>1. UNCHANGED server
    BY <1>5 DEF CL_ParseServerMessage
  <2>2. /\ Types' /\ client'.creates = client.creates /\ (mistaken => mistaken')
        /\ ~client.creates /\ Quiet(server, clientCommands, client)
           => Quiet(server, clientCommands', client')
        /\ /\ client.creates /\ Exact(server, clientCommands, client, toClient)
           => mistaken' \/ Exact(server, clientCommands', client', toClient')
    BY <1>1, <1>5, ParsingKeeps
  <2>. QED BY <1>1, <2>1, <2>2 DEF IInv
<1>6. CASE CL_WritePacket
  <2>1. /\ Len(toServer) < Capacity /\ toServer' = Append(toServer, n)
        /\ UNCHANGED <<server, client, clientCommands, toClient, lost, mistaken>>
    BY <1>6 DEF CL_WritePacket
  <2>2. ToServerOK(Append(toServer, n), n)
    <3> HIDE DEF n
    <3>1. n <= n
      BY <1>2
    <3>. QED BY <1>2, <2>1, <3>1, ToServerMore
  <2>3. Types'
    BY <1>2, <2>1, <2>2 DEF Types
  <2>. QED BY <1>1, <2>1, <2>3 DEF IInv
<1>7. CASE Lose
  <2>1. lost < MaxLost /\ lost' = lost + 1
        /\ UNCHANGED <<server, client, clientCommands, mistaken>>
    BY <1>7 DEF Lose
  <2>2. lost' \in 0 .. MaxLost
    BY <1>2, <2>1, Sizes
  <2>3. /\ ToServerOK(toServer', n) /\ toClient' \in Seq(Seq(BlockMessages))
        /\ Len(toClient') <= Capacity
        /\ \A c, f, top : ToClientOK(toClient, c, f, top) => ToClientOK(toClient', c, f, top)
    <3> HIDE DEF n
    <3>1. CASE toServer # <<>> /\ toServer' = Tail(toServer) /\ UNCHANGED toClient
      BY <1>2, <3>1, ToServerLess
    <3>2. CASE toClient # <<>> /\ toClient' = Tail(toClient) /\ UNCHANGED toServer
      BY <1>2, <3>2, MessagesLess
    <3>. QED BY <1>7, <3>1, <3>2 DEF Lose
  <2>4. Types'
    BY <1>2, <2>1, <2>2, <2>3 DEF Types
  <2>5. Exact(server, clientCommands, client, toClient)
        => Exact(server, clientCommands, client, toClient')
    BY <2>3 DEF Exact
  <2>. QED BY <1>1, <2>1, <2>4, <2>5 DEF IInv
<1>8. CASE UNCHANGED vars
  <2>1. UNCHANGED <<server, client, clientCommands, toServer, toClient, lost, mistaken>>
    BY <1>8 DEF vars
  <2>2. Types'
    BY <1>1, <2>1 DEF Types
  <2>. QED BY <1>1, <2>1, <2>2 DEF IInv
<1>. QED BY <1>3, <1>4, <1>5, <1>6, <1>7, <1>8 DEF Next

\* At every moment, until a block is taken for one of another file, the client is at
\* the file the server sends, or asks for the next: it has the beginning of that file
\* and all of those before, the server waits for a block it has acknowledged or
\* awaits, and the blocks on their way that it may still take are the file's
\* (SV_WriteDownloadToClient, CL_ParseDownload).
THEOREM Invariance == Spec => []IInv
<1>1. Init => IInv
  BY InitInv
<1>2. IInv /\ [Next]_vars => IInv'
  BY NextInv
<1>. QED BY <1>1, <1>2, PTL DEF Spec

\* The files the client takes for complete are the server's, until a block is taken
\* for one of another file: none is written twice, left out or taken for another of its
\* file, although the buffers of the window are used again and a short wraps round
\* (CL_ParseDownload, SV_WriteDownloadToClient).
THEOREM FileIsIntact == Spec => []FilesIntact
<1>1. IInv => FilesIntact
  <2> SUFFICES ASSUME IInv, ~mistaken, NEW f \in client.complete
               PROVE  client.received[f] = Contents(f)
    BY DEF FilesIntact, EveryFileIntact
  <2>1. CASE client.creates
    BY <2>1 DEF IInv, Exact, Intact
  <2>2. CASE ~client.creates
    BY <2>2 DEF IInv, Quiet
  <2>. QED BY <2>1, <2>2
<1>. QED BY <1>1, Invariance, PTL

\* The server never has more blocks waiting than the window holds, and never sends one
\* it has not read; until a block is taken for one of another file, it waits for none
\* it has not read, and never drops a client for a broken download
\* (SV_NextDownload_f).
THEOREM WindowIsKept == Spec => []WindowKept
<1>1. IInv => WindowKept
  <2> SUFFICES ASSUME IInv PROVE WindowKept
    OBVIOUS
  <2>1. /\ Windowed(server) /\ client \in Clients /\ clientCommands \in Seq(Commands)
        /\ server.lastClientCommand <= Len(clientCommands)
        /\ Len(toServer) <= Capacity /\ Len(toClient) <= Capacity
        /\ lost \in 0 .. MaxLost /\ mistaken \in BOOLEAN
    BY DEF IInv, Types, ToServerOK
  <2>2. /\ server \in Servers /\ server.lastClientCommand \in Nat
        /\ Len(clientCommands) \in Nat
    BY <2>1, ServerIs, LenProperties DEF Windowed
  <2>3. /\ server.state \in {"connected", "primed", "zombie"} /\ server.downloadName \in Names
        /\ client.state \in {"connected", "loading", "dropped"}
        /\ client.downloadName \in Names /\ client.complete \subseteq Files
    BY <2>1, <2>2, ServerIs DEF Clients
  <2>4. server.lastClientCommand \in 0 .. Len(clientCommands)
    BY <2>1, <2>2
  <2>5. TypeOK
    BY <2>1, <2>3, <2>4 DEF TypeOK, Windowed, Names
  <2>6. ASSUME ~mistaken
        PROVE  server.state # "zombie" /\ server.clientBlock <= server.currentBlock
    <3>1. CASE client.creates
      <4>1. Exact(server, clientCommands, client, toClient)
        BY <2>6, <3>1 DEF IInv
      <4>2. PICK f, k, top \in Nat : Linked(server, clientCommands, client, f, k, top)
        BY <4>1 DEF Exact
      <4>3. PICK a, l \in Nat : Serves(server, f, top, a, l)
        BY <2>1, <2>2, <4>2, LinkedServes
      <4>4. CASE Waits(server, f, top, a, l)
        BY <4>3, <4>4 DEF Serves, Waits
      <4>5. CASE Runs(server, f, top, a, l)
        <5>1. server.clientBlock \in Nat /\ server.currentBlock \in Nat
          BY <2>2, ServerIs
        <5>. QED BY <4>3, <4>5, <5>1 DEF Serves, Runs
      <4>. QED BY <4>3, <4>4, <4>5 DEF Serves
    <3>2. CASE ~client.creates
      BY <3>2 DEF IInv, Quiet
    <3>. QED BY <3>1, <3>2
  <2>. QED BY <2>5, <2>6 DEF WindowKept, NeverBroken
<1>. QED BY <1>1, Invariance, PTL
=============================================================================
