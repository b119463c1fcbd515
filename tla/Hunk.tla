--------------------------------- MODULE Hunk ---------------------------------
(***************************************************************************)
(* The hunk of qcommon/common.cpp with those who allocate on it: the       *)
(* server while it loads a map, the client's renderer, sound and game      *)
(* code, the files that FS_ReadFile loads (qcommon/files.cpp) and the      *)
(* scratch buffers of the renderer and of SV_ChangeMaxClients.  Two banks  *)
(* grow from the two ends towards the middle; one takes permanent          *)
(* allocations, the other temporary ones, and they may change roles.       *)
(* Sizes are in units of the rounding of Hunk_Alloc.                       *)
(***************************************************************************)
EXTENDS Integers, FiniteSets

CONSTANTS Total,      \* s_hunkTotal
          PermSizes,  \* sizes of permanent allocations, rounded
          TempSizes,  \* sizes of temporary allocations, header included
          MaxLost     \* bound: files in memory when an error strikes

ASSUME SizesAssumption ==
  /\ Total \in Nat
  /\ \A n \in PermSizes \cup TempSizes : n \in Nat \ {0}

Banks == {"low", "high"}

VARIABLES dedicated,     \* the program is built without a client
          hunk,          \* hunk_low and hunk_high
          perm,          \* the bank that hunk_permanent points at
          fs_loadStack,  \* files in memory, as the file system counts them
          server,        \* "none", "loading" up to Hunk_SetMark, then "running"
          held           \* what is in use: [from, to, by]

hunkVars == <<dedicated, hunk, perm, fs_loadStack, server, held>>

Other(b) == IF b = "low" THEN "high" ELSE "low"
temp == Other(perm)                     \* hunk_temp

By(who) == {r \in held : r.by = who}
Files == By("file")
Scratch == By("scratch")                \* Hunk_AllocateTempMemory, but no file
Temps == Files \cup Scratch
Perms == held \ Temps

Lost == fs_loadStack - Cardinality(Files)

\* The n units that follow the first used ones of a bank.
Piece(b, at, n, who) ==
  IF b = "low" THEN [from |-> at, to |-> at + n, by |-> who]
               ELSE [from |-> Total - at - n, to |-> Total - at, by |-> who]

EmptyBank == [mark |-> 0, permanent |-> 0, temp |-> 0, tempHighwater |-> 0]

HunkInit == /\ dedicated \in BOOLEAN
            /\ hunk = [b \in Banks |-> EmptyBank]
            /\ perm = "low"
            /\ fs_loadStack = 0
            /\ server = "none"
            /\ held = {}

--------------------------------------------------------------------------------
InUse(b) == hunk[b].temp # hunk[b].permanent
Wasted(b) == hunk[b].tempHighwater - hunk[b].permanent

\* Wrong: the banks change roles while temporary memory is in use.
SwappedAlways == IF Wasted(temp) > Wasted(perm) THEN temp ELSE perm

\* Hunk_SwapBanks: the bank that is permanent then.
Swapped == IF ~InUse(temp) /\ Wasted(temp) > Wasted(perm) THEN temp ELSE perm

\* The bank that Hunk_Alloc takes for a preference.
Chosen(preference) ==
  IF preference = "dontcare" \/ InUse(temp) \/ preference # perm THEN Swapped ELSE perm

\* Wrong: what is temporary is not counted.
Hunk_AllocFitsOverTemp(n) == hunk["low"].permanent + hunk["high"].permanent + n <= Total

Hunk_AllocFits(n) == hunk["low"].temp + hunk["high"].temp + n <= Total

\* Hunk_Alloc by who; preference is h_low, h_high or h_dontcare.
Hunk_Alloc(n, preference, who) ==
  LET p == Chosen(preference)
      used == hunk[p].permanent
  IN /\ Hunk_AllocFits(n)
     /\ perm' = p
     /\ hunk' = [hunk EXCEPT ![p].permanent = used + n, ![p].temp = used + n]
     /\ held' = held \cup {Piece(p, used, n, who)}
     /\ UNCHANGED <<fs_loadStack, server>>

TempFits(n) == hunk[Other(Swapped)].temp + hunk[Swapped].permanent + n <= Total

\* Hunk_AllocateTempMemory by who.
Hunk_AllocateTempMemory(n, who) ==
  LET t == Other(Swapped)
      used == hunk[t].temp
  IN /\ TempFits(n)
     /\ perm' = Swapped
     /\ hunk' = [hunk EXCEPT ![t].temp = used + n,
                             ![t].tempHighwater = IF used + n > @ THEN used + n ELSE @]
     /\ held' = held \cup {Piece(t, used, n, who)}

\* Hunk_FreeTempMemory: the top of the temporary bank after r is given back.
AfterFree(r) ==
  IF r = Piece(temp, hunk[temp].temp - (r.to - r.from), r.to - r.from, r.by)
  THEN hunk[temp].temp - (r.to - r.from)
  ELSE hunk[temp].temp

\* FS_ReadFile counts the file before it allocates.
FS_ReadFile(n) ==
  /\ Scratch = {}
  /\ Hunk_AllocateTempMemory(n, "file")
  /\ fs_loadStack' = fs_loadStack + 1
  /\ UNCHANGED server

\* Wrong: the last file clears nothing but itself.
FS_FreeFileOnly(r) ==
  /\ Scratch = {}
  /\ fs_loadStack' = fs_loadStack - 1
  /\ hunk' = [hunk EXCEPT ![temp].temp = AfterFree(r)]
  /\ held' = held \ {r}
  /\ UNCHANGED <<perm, server>>

\* FS_FreeFile: with the last file the whole temporary memory goes.
FS_FreeFile(r) ==
  /\ Scratch = {}
  /\ fs_loadStack' = fs_loadStack - 1
  /\ hunk' = [hunk EXCEPT ![temp].temp =
                IF fs_loadStack' = 0 THEN hunk[temp].permanent ELSE AfterFree(r)]
  /\ held' = held \ {r}
  /\ UNCHANGED <<perm, server>>

\* A scratch buffer, as RI_AutoPtr, R_MipMap2, SaveJPG and SV_ChangeMaxClients
\* hold it: given back in the opposite order, and no file is touched meanwhile.
AllocScratch(n) ==
  /\ Hunk_AllocateTempMemory(n, "scratch")
  /\ UNCHANGED <<fs_loadStack, server>>

FreeScratch(r) ==
  /\ \A s \in Scratch : IF temp = "low" THEN s.from <= r.from ELSE s.from >= r.from
  /\ hunk' = [hunk EXCEPT ![temp].temp = AfterFree(r)]
  /\ held' = held \ {r}
  /\ UNCHANGED <<perm, fs_loadStack, server>>

\* Wrong: only the bank that takes permanent memory now is marked.
Hunk_SetMarkOfPerm ==
  /\ server = "loading"
  /\ Temps = {}
  /\ hunk' = [hunk EXCEPT ![perm].mark = hunk[perm].permanent]
  /\ server' = "running"
  /\ UNCHANGED <<perm, fs_loadStack, held>>

\* Hunk_SetMark at the end of SV_SpawnServer.
Hunk_SetMark ==
  /\ server = "loading"
  /\ Temps = {}
  /\ hunk' = [b \in Banks |-> [hunk[b] EXCEPT !.mark = hunk[b].permanent]]
  /\ server' = "running"
  /\ UNCHANGED <<perm, fs_loadStack, held>>

\* Hunk_ClearToMark, when the client restarts beside a running server.
Hunk_ClearToMark ==
  /\ server = "running"
  /\ ~dedicated
  /\ Temps = {}
  /\ hunk' = [b \in Banks |->
                [hunk[b] EXCEPT !.permanent = hunk[b].mark, !.temp = hunk[b].mark]]
  /\ held' = By("server")
  /\ UNCHANGED <<perm, fs_loadStack, server>>

Hunk_Clear ==
  /\ hunk' = [b \in Banks |-> EmptyBank]
  /\ perm' = "low"
  /\ held' = {}
  /\ UNCHANGED fs_loadStack

\* SV_SpawnServer begins, from whatever was running.
SpawnServer == Temps = {} /\ Hunk_Clear /\ server' = "loading"

\* The client restarts and no server runs in this process.
ClientRestart == server = "none" /\ ~dedicated /\ Temps = {} /\ Hunk_Clear /\ UNCHANGED server

\* A server that is shut down (killserver) leaves the hunk alone.
SV_Shutdown == server = "running" /\ server' = "none" /\ UNCHANGED <<hunk, perm, fs_loadStack, held>>

\* The server allocates while it loads, the client whenever there is no loading.
Allocate(n, preference) ==
  IF server = "loading" THEN Hunk_Alloc(n, preference, "server")
                        ELSE ~dedicated /\ Hunk_Alloc(n, preference, "client")

\* Com_Error(ERR_DROP) jumps out of whatever runs: nobody frees what is held.  A
\* client clears the hunk (CL_FlushMemory), a dedicated server leaves it as it is,
\* p being its permanent bank, until the next map.
Dropped(p) == /\ server' = "none"
              /\ held' = {}
              /\ IF dedicated THEN hunk' = hunk /\ perm' = p
                              ELSE hunk' = [b \in Banks |-> EmptyBank] /\ perm' = "low"

\* Only a client's scratch buffers can be caught by an error.
ErrorDrop == /\ fs_loadStack <= MaxLost
             /\ dedicated => Scratch = {}
             /\ Dropped(perm)
             /\ UNCHANGED fs_loadStack

AllocateFails(n, preference) ==
  /\ fs_loadStack <= MaxLost
  /\ dedicated => Scratch = {}
  /\ ~Hunk_AllocFits(n)
  /\ Dropped(Chosen(preference))
  /\ UNCHANGED fs_loadStack

\* A file that does not fit has been counted already.
FS_ReadFileFails(n) ==
  /\ fs_loadStack < MaxLost
  /\ Scratch = {}
  /\ ~TempFits(n)
  /\ fs_loadStack' = fs_loadStack + 1
  /\ Dropped(Swapped)

HunkStep == \/ \E n \in PermSizes, preference \in Banks \cup {"dontcare"} :
                 Allocate(n, preference) \/ AllocateFails(n, preference)
            \/ \E n \in TempSizes : FS_ReadFile(n) \/ FS_ReadFileFails(n) \/ AllocScratch(n)
            \/ \E r \in Files : FS_FreeFile(r)
            \/ \E r \in Scratch : FreeScratch(r)
            \/ Hunk_SetMark \/ Hunk_ClearToMark \/ SpawnServer \/ ClientRestart
            \/ SV_Shutdown \/ ErrorDrop

HunkNext == HunkStep /\ UNCHANGED dedicated

HunkSpec == HunkInit /\ [][HunkNext]_hunkVars

--------------------------------------------------------------------------------
Owners == {"server", "client", "file", "scratch"}

HunkTypeOK == /\ dedicated \in BOOLEAN
              /\ hunk \in [Banks -> [mark : 0..Total, permanent : 0..Total,
                                     temp : 0..Total, tempHighwater : 0..Total]]
              /\ perm \in Banks
              /\ fs_loadStack \in Nat
              /\ server \in {"none", "loading", "running"}
              /\ held \subseteq [from : 0..Total, to : 0..Total, by : Owners]

\* What the banks have given out and nobody gave back never overlaps, whatever
\* the order of allocations, swaps of the banks, restarts and errors: memory that
\* survives a restart of the client (the server's) or a swap is not handed out
\* again.
NothingShared == \A r \in held, s \in held : r = s \/ r.to <= s.from \/ s.to <= r.from

\* "Temp memory must never be allocated on two ends at once", nor below what is
\* permanent.
TempsOnOneEnd == \A r \in Temps :
  IF temp = "low" THEN hunk["low"].permanent <= r.from /\ r.to <= hunk["low"].temp
                  ELSE /\ Total - hunk["high"].temp <= r.from
                       /\ r.to <= Total - hunk["high"].permanent

\* Hunk_Alloc fails exactly when Hunk_MemoryRemaining says so.
AtMost(a, b) == IF a > b THEN a ELSE b
Hunk_MemoryRemaining ==
  Total - (AtMost(hunk["low"].permanent, hunk["low"].temp) +
           AtMost(hunk["high"].permanent, hunk["high"].temp))
RemainingIsTrue ==
  /\ Hunk_MemoryRemaining >= 0
  /\ \A n \in PermSizes : Hunk_AllocFits(n) <=> n <= Hunk_MemoryRemaining

\* The account is right: both banks end within the hunk and what is reported as
\* left can be had.
Accounted == HunkTypeOK /\ RemainingIsTrue

\* Files may be freed in any order; when the last one is, and no error has
\* interrupted a load, no temporary memory is left behind.
AllGivenBack == Temps = {} /\ Lost = 0 => \A b \in Banks : ~InUse(b)

\* The comment on Hunk_AllocateTempMemory: "When the files-in-use count reaches
\* zero, all temp memory will be deleted".
LastFileClears ==
  [][\A r \in Files : Files = {r} /\ FS_FreeFile(r) => ~InUse(temp)']_hunkVars
================================================================================
