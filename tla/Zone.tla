--------------------------------- MODULE Zone ---------------------------------
(***************************************************************************)
(* One zone of the zone allocator of qcommon/common.cpp (mainzone or       *)
(* smallzone; a block's tag names the zone it belongs to, so the two do    *)
(* not meet).  The list of memblock_t is four functions on the addresses   *)
(* of the headers; the address 0 is zone->blocklist, the cap of the list.  *)
(* Z_TagMalloc's scan is modelled one turn of its loop at a time, Z_Free   *)
(* in one step: the program has one thread.  Addresses and sizes are in    *)
(* units of the alignment, and a request counts its header and its trash   *)
(* tester.                                                                 *)
(***************************************************************************)
EXTENDS Integers, FiniteSetsExt

CONSTANTS Units,       \* zone->size - sizeof(memzone_t)
          Requests,    \* sizes asked for, padded, header and tester included
          MinFragment  \* MINFRAGMENT

ASSUME UnitsAssumption == Units \in Nat \ {0}
ASSUME RequestsAssumption == \A n \in Requests : n \in Nat \ {0}
ASSUME MinFragmentAssumption == MinFragment \in Nat

VARIABLES size, tag, next, prev,  \* the headers on the list
          rover,                  \* zone->rover
          used,                   \* zone->used
          scan                    \* Z_TagMalloc's locals while it scans

vars == <<size, tag, next, prev, rover, used, scan>>

FREE == 0
USED == 1
Cap == 0                          \* &zone->blocklist

Blocks == DOMAIN size
IsFree(b) == tag[b] = FREE
Held == {b \in Blocks \ {Cap} : ~IsFree(b)}

Idle == [pc |-> "idle", size |-> 0, start |-> Cap, rover |-> Cap, base |-> Cap]
Fatal == [Idle EXCEPT !.pc = "fatal"]

--------------------------------------------------------------------------------
\* Z_ClearZone: one free block between the two ends of the cap.
Init == /\ size = [b \in {Cap, 1} |-> IF b = Cap THEN 0 ELSE Units]
        /\ tag = [b \in {Cap, 1} |-> IF b = Cap THEN USED ELSE FREE]
        /\ next = [b \in {Cap, 1} |-> IF b = Cap THEN 1 ELSE Cap]
        /\ prev = [b \in {Cap, 1} |-> IF b = Cap THEN 1 ELSE Cap]
        /\ rover = 1
        /\ used = 0
        /\ scan = Idle

\* Z_TagMalloc up to its loop.
Z_TagMalloc(n) ==
  /\ scan.pc = "idle"
  /\ scan' = [pc |-> "scan", size |-> n, start |-> prev[rover],
              rover |-> rover, base |-> rover]
  /\ UNCHANGED <<size, tag, next, prev, rover, used>>

\* The base that a turn of the loop leaves: a block in use is skipped.
NextBase == IF IsFree(scan.rover) THEN scan.base ELSE next[scan.rover]

\* Wrong: a block that is short of the trash tester is taken.
FitsBarely(b) == IsFree(b) /\ size[b] >= scan.size - 1

Fits(b) == IsFree(b) /\ size[b] >= scan.size

\* A turn that finds nothing.
ScanOn ==
  /\ scan.pc = "scan"
  /\ scan.rover # scan.start
  /\ ~Fits(NextBase)
  /\ scan' = [scan EXCEPT !.rover = next[scan.rover], !.base = NextBase]
  /\ UNCHANGED <<size, tag, next, prev, rover, used>>

\* "scaned all the way around the list"
Exhausted ==
  /\ scan.pc = "scan"
  /\ scan.rover = scan.start
  /\ scan' = Fatal
  /\ UNCHANGED <<size, tag, next, prev, rover, used>>

\* Wrong: the slack of a block is left out of the account.
TakeWholeAsAsked(b) ==
  /\ tag' = [tag EXCEPT ![b] = USED]
  /\ rover' = next[b]
  /\ used' = used + scan.size
  /\ UNCHANGED <<size, next, prev>>

\* The block is taken whole: what would be left over is too small for a block.
TakeWhole(b) ==
  /\ tag' = [tag EXCEPT ![b] = USED]
  /\ rover' = next[b]
  /\ used' = used + size[b]
  /\ UNCHANGED <<size, next, prev>>

\* The block is cut: a free fragment p follows the part that is taken.
TakePart(b, p) ==
  /\ size' = [c \in Blocks \cup {p} |->
                CASE c = b -> scan.size
                  [] c = p -> size[b] - scan.size
                  [] OTHER -> size[c]]
  /\ tag' = [c \in Blocks \cup {p} |->
               CASE c = b -> USED [] c = p -> FREE [] OTHER -> tag[c]]
  /\ next' = [c \in Blocks \cup {p} |->
                CASE c = b -> p [] c = p -> next[b] [] OTHER -> next[c]]
  /\ prev' = [c \in Blocks \cup {p} |->
                CASE c = p -> b [] c = next[b] -> p [] OTHER -> prev[c]]
  /\ rover' = p
  /\ used' = used + scan.size

\* A turn that finds a block, and the rest of Z_TagMalloc.
Found ==
  /\ scan.pc = "scan"
  /\ scan.rover # scan.start
  /\ Fits(NextBase)
  /\ IF size[NextBase] - scan.size > MinFragment
     THEN TakePart(NextBase, NextBase + scan.size)
     ELSE TakeWhole(NextBase)
  /\ scan' = Idle

\* The block that the freed one ends up in, and the one that then follows it.
MergedAt(b) == IF IsFree(prev[b]) THEN prev[b] ELSE b
FollowedBy(b) == IF IsFree(next[b]) THEN next[next[b]] ELSE next[b]
Absorbed(b) == (IF IsFree(prev[b]) THEN {b} ELSE {}) \cup
               (IF IsFree(next[b]) THEN {next[b]} ELSE {})
MergedSize(b) == size[b] + (IF IsFree(prev[b]) THEN size[prev[b]] ELSE 0)
                         + (IF IsFree(next[b]) THEN size[next[b]] ELSE 0)

\* Wrong: the rover stays at a header that the merge has removed.
Z_FreeRoverBehind(b) ==
  LET left == Blocks \ Absorbed(b)
      m == MergedAt(b)
      f == FollowedBy(b)
  IN /\ scan.pc = "idle"
     /\ used' = used - size[b]
     /\ size' = [c \in left |-> IF c = m THEN MergedSize(b) ELSE size[c]]
     /\ tag' = [c \in left |-> IF c = m THEN FREE ELSE tag[c]]
     /\ next' = [c \in left |-> IF c = m THEN f ELSE next[c]]
     /\ prev' = [c \in left |-> IF c = f THEN m ELSE prev[c]]
     /\ rover' = b
     /\ UNCHANGED scan

\* Z_Free of a block of the zone, with both merges.
Z_Free(b) ==
  LET left == Blocks \ Absorbed(b)
      m == MergedAt(b)
      f == FollowedBy(b)
  IN /\ scan.pc = "idle"
     /\ used' = used - size[b]
     /\ size' = [c \in left |-> IF c = m THEN MergedSize(b) ELSE size[c]]
     /\ tag' = [c \in left |-> IF c = m THEN FREE ELSE tag[c]]
     /\ next' = [c \in left |-> IF c = m THEN f ELSE next[c]]
     /\ prev' = [c \in left |-> IF c = f THEN m ELSE prev[c]]
     /\ rover' = m
     /\ UNCHANGED scan

Next == \/ \E n \in Requests : Z_TagMalloc(n)
        \/ ScanOn \/ Found \/ Exhausted
        \/ \E b \in Held : Z_Free(b)

Spec == Init /\ [][Next]_vars

\* A call that has begun goes on.
FairSpec == Spec /\ WF_vars(ScanOn \/ Found \/ Exhausted)

--------------------------------------------------------------------------------
TypeOK == /\ size \in [Blocks -> 0..Units]
          /\ Blocks \subseteq 0..Units
          /\ tag \in [Blocks -> {FREE, USED}]
          /\ next \in [Blocks -> Blocks]
          /\ prev \in [Blocks -> Blocks]
          /\ rover \in Blocks
          /\ used \in Int
          /\ scan \in [pc : {"idle", "scan", "fatal"}, size : Requests \cup {0},
                       start : Blocks, rover : Blocks, base : Blocks]

\* The cap is in use, takes nothing and stands before the first block.
Capped == Cap \in Blocks /\ ~IsFree(Cap) /\ size[Cap] = 0 /\ next[Cap] = 1

\* A block touches the next one, or the end of the zone.
Touches(b) == IF b + size[b] > Units
              THEN b + size[b] = Units + 1 /\ next[b] = Cap
              ELSE next[b] = b + size[b]
Tiled == \A b \in Blocks \ {Cap} :
           size[b] > 0 /\ Touches(b) /\ \A c \in Blocks : c <= b \/ c >= b + size[b]
Covered == \A x \in 1..Units : \E b \in Blocks \ {Cap} : b <= x /\ x < b + size[b]
Linked == \A b \in Blocks : prev[next[b]] = b /\ next[prev[b]] = b
NoTwoFree == \A b \in Blocks : IsFree(b) => ~IsFree(next[b])

\* The comment on the allocator and Z_CheckHeap: no space between blocks, none
\* outside them, links that agree in both directions, never two free blocks
\* side by side, over any order of requests and releases.
HeapChecks == Capped /\ Tiled /\ Covered /\ Linked /\ NoTwoFree

\* zone->used, from which Z_AvailableMemory is computed, is what the held
\* blocks take, slack included: nothing is lost to the account by a split or a
\* merge.
UsedIsHeld == used = MapThenSumSet(LAMBDA b : size[b], Held)

\* The scan starts at the rover, wherever allocations and merges have left it,
\* and gives up at the block before: it must not give up while a block would do.
FatalOnlyWhenFull ==
  scan.pc = "scan" /\ scan.rover = scan.start => \A b \in Blocks : ~Fits(b)

\* The rover and the links stay at blocks, the blocks tile the zone, and the
\* program ends only for want of memory.
ZoneSound == TypeOK /\ HeapChecks /\ FatalOnlyWhenFull

\* The zone keeps the promises of an allocator.
Stretch(b) == [from |-> b, to |-> b + size[b] - 1]
Abstract == INSTANCE Allocation WITH
              live <- {Stretch(b) : b \in Held},
              asked <- IF scan.pc = "scan" THEN scan.size ELSE 0,
              refused <- scan.pc = "fatal"
Allocates == Abstract!Spec
================================================================================
