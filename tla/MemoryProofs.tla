---------------------------- MODULE MemoryProofs ----------------------------
(***************************************************************************)
(* Proofs about the two allocators: the zone for every size of it, every   *)
(* set of requests and every size of fragment, and the hunk for every size *)
(* of it, every set of sizes and any number of interrupted loads.          *)
(***************************************************************************)
EXTENDS Zone, Hunk, FiniteSetTheorems, WellFoundedInduction, TLAPS

--------------------------------------------------------------------------------
(* Sums.  MapThenSumSet is a recursion over the subsets of a finite set    *)
(* that takes the elements in an order of its own; what it computes is     *)
(* found by looking at a smallest set where it would go wrong.             *)

LEMMA LeastOf ==
  ASSUME NEW S \in SUBSET Nat, S # {}
  PROVE  \E x \in S : \A y \in S : x <= y
<1> DEFINE R == OpToRel(<, Nat)
<1>1. IsWellFoundedOn(R, Nat)
  BY NatLessThanWellFounded
<1>2. \A x, y \in Nat : x < y => <<x, y>> \in R
  BY DEF OpToRel
<1> HIDE DEF R
<1>3. PICK x \in S : \A y \in S : <<y, x>> \notin R
  BY <1>1, WFMin
<1>4. ASSUME NEW y \in S PROVE x <= y
  <2>1. x \in Nat /\ y \in Nat /\ <<y, x>> \notin R
    BY <1>3
  <2>. QED BY <1>2, <2>1
<1>. QED BY <1>4

\* MapThenSumSet of w over S, as a function of the subsets of S, here of those
\* with at most k elements.
Picked(s) == CHOOSE x \in s : TRUE
Small(S, k) == {s \in SUBSET S : Cardinality(s) <= k}
SumStep(g, w, s) == IF s = {} THEN 0 ELSE w[Picked(s)] + g[s \ {Picked(s)}]
Summing(g, w, D) == g = [s \in D |-> SumStep(g, w, s)]
SumOf(w, S) == MapThenSumSet(LAMBDA b : w[b], S)

LEMMA PickedOf ==
  ASSUME NEW s, s # {}
  PROVE  Picked(s) \in s
BY Zenon DEF Picked

\* A set without one of its elements.
LEMMA Without ==
  ASSUME NEW S, IsFiniteSet(S), NEW s \in SUBSET S, NEW x \in s
  PROVE  /\ s \ {x} \in SUBSET S
         /\ Cardinality(s) \in Nat /\ Cardinality(s \ {x}) \in Nat
         /\ Cardinality(s \ {x}) = Cardinality(s) - 1
<1>1. IsFiniteSet(s)
  BY FS_Subset
<1>2. IsFiniteSet(s \ {x}) /\ Cardinality(s \ {x}) = Cardinality(s) - 1
  BY <1>1, FS_RemoveElement
<1>3. Cardinality(s) \in Nat /\ Cardinality(s \ {x}) \in Nat
  BY <1>1, <1>2, FS_CardinalityType
<1>. QED BY <1>2, <1>3

LEMMA SummingGoesOn ==
  ASSUME NEW w, NEW S, IsFiniteSet(S), NEW k \in Nat,
         NEW g, Summing(g, w, Small(S, k))
  PROVE  \E h : Summing(h, w, Small(S, k + 1))
<1> DEFINE h == [s \in Small(S, k + 1) |-> IF s \in Small(S, k) THEN g[s] ELSE SumStep(g, w, s)]
<1>1. \A s \in Small(S, k) : g[s] = SumStep(g, w, s) /\ h[s] = g[s]
  <2>1. \A s \in SUBSET S : Cardinality(s) \in Nat
    BY FS_Subset, FS_CardinalityType
  <2>2. \A s \in Small(S, k) : s \in Small(S, k + 1)
    BY <2>1 DEF Small
  <2>3. \A s \in Small(S, k) : g[s] = SumStep(g, w, s)
    BY Zenon DEF Summing
  <2>. QED BY <2>2, <2>3
<1>2. \A s \in Small(S, k + 1) : h[s] = SumStep(g, w, s)
  BY <1>1
<1>3. ASSUME NEW s \in Small(S, k + 1) PROVE SumStep(g, w, s) = SumStep(h, w, s)
  <2>1. CASE s = {}
    BY <2>1 DEF SumStep
  <2>2. CASE s # {}
    <3>1. Picked(s) \in s /\ s \in SUBSET S /\ Cardinality(s) <= k + 1
      BY <2>2, PickedOf DEF Small
    <3>2. s \ {Picked(s)} \in Small(S, k)
      BY <3>1, Without DEF Small
    <3>. QED BY <1>1, <3>2 DEF SumStep
  <2>. QED BY <2>1, <2>2
<1>4. h = [s \in Small(S, k + 1) |-> h[s]]
  OBVIOUS
<1> HIDE DEF h
<1>5. \A s \in Small(S, k + 1) : h[s] = SumStep(h, w, s)
  BY <1>2, <1>3
<1>6. h = [s \in Small(S, k + 1) |-> SumStep(h, w, s)]
  BY <1>4, <1>5, Zenon
<1>. QED BY <1>6 DEF Summing

LEMMA SummingExists ==
  ASSUME NEW w, NEW S, IsFiniteSet(S)
  PROVE  \E g : Summing(g, w, SUBSET S)
<1> DEFINE none == {k \in Nat : ~\E g : Summing(g, w, Small(S, k))}
<1>1. 0 \notin none
  <2> DEFINE g == [s \in {{}} |-> 0]
  <2>1. Small(S, 0) = {{}}
    <3>1. ASSUME NEW s \in SUBSET S PROVE Cardinality(s) <= 0 <=> s = {}
      <4>1. IsFiniteSet(s) /\ Cardinality(s) \in Nat
        BY FS_Subset, FS_CardinalityType
      <4>. QED BY <4>1, FS_EmptySet
    <3>. QED BY <3>1 DEF Small
  <2>2. g = [s \in Small(S, 0) |-> SumStep(g, w, s)]
    BY <2>1 DEF SumStep
  <2>. QED BY <2>2 DEF Summing
<1>2. ASSUME none # {} PROVE FALSE
  <2>1. PICK k \in none : \A j \in none : k <= j
    BY <1>2, LeastOf
  <2>2. k \in Nat /\ k # 0
    BY <1>1
  <2>3. k - 1 \in Nat /\ k - 1 \notin none
    BY <2>1, <2>2
  <2>4. PICK g : Summing(g, w, Small(S, k - 1))
    BY <2>3
  <2>5. \E h : Summing(h, w, Small(S, (k - 1) + 1))
    BY <2>3, <2>4, SummingGoesOn
  <2>. QED BY <2>2, <2>5
<1>3. Small(S, Cardinality(S)) = SUBSET S
  BY FS_Subset DEF Small
<1>4. Cardinality(S) \in Nat /\ Cardinality(S) \notin none
  BY <1>2, FS_CardinalityType
<1>5. \E g : Summing(g, w, Small(S, Cardinality(S)))
  BY <1>4
<1>. QED BY <1>3, <1>5

LEMMA SumIs ==
  ASSUME NEW w, NEW S, IsFiniteSet(S)
  PROVE  \E g : Summing(g, w, SUBSET S) /\ SumOf(w, S) = g[S]
<1> DEFINE g == CHOOSE h : Summing(h, w, SUBSET S)
<1>1. Summing(g, w, SUBSET S)
  BY SummingExists, Zenon
<1>2. SumOf(w, S) = g[S]
  BY DEF SumOf, MapThenSumSet, MapThenFoldSet, Summing, SumStep, Picked
<1> HIDE DEF g
<1>. QED BY <1>1, <1>2

Additive(g, w, s) == g[s] \in Int /\ \A y \in s : g[s] = w[y] + g[s \ {y}]

\* In whatever order the elements come, the sum is the same.
LEMMA AnyOrder ==
  ASSUME NEW w, NEW S, IsFiniteSet(S), \A x \in S : w[x] \in Int,
         NEW g, Summing(g, w, SUBSET S)
  PROVE  \A s \in SUBSET S : Additive(g, w, s)
<1> DEFINE Right(s) == g[s] \in Int /\ \A y \in s : g[s] = w[y] + g[s \ {y}]
           wrong == {n \in Nat : \E s \in SUBSET S : Cardinality(s) = n /\ ~Right(s)}
<1>1. \A s \in SUBSET S : Cardinality(s) \in Nat
  BY FS_Subset, FS_CardinalityType
<1>2. ASSUME NEW s \in SUBSET S, \A t \in SUBSET S : Cardinality(t) < Cardinality(s) => Right(t)
      PROVE  Right(s)
  <2> DEFINE x == Picked(s)
  <2>1. g[s] = SumStep(g, w, s)
    BY Zenon DEF Summing
  <2>2. CASE s = {}
    BY <2>1, <2>2 DEF SumStep
  <2>3. CASE s # {}
    <3>1. x \in s /\ g[s] = w[x] + g[s \ {x}]
      BY <2>1, <2>3, PickedOf DEF SumStep
    <3> HIDE DEF x
    <3>2. ASSUME NEW y \in s PROVE s \ {y} \in SUBSET S /\ Right(s \ {y}) /\ w[y] \in Int
      <4>1. s \ {y} \in SUBSET S /\ Cardinality(s \ {y}) < Cardinality(s)
        BY <1>1, Without
      <4>. QED BY <1>2, <4>1
    <3>3. g[s \ {x}] \in Int /\ w[x] \in Int
      BY <3>1, <3>2
    <3>4. ASSUME NEW y \in s, y # x PROVE g[s] = w[y] + g[s \ {y}]
      <4> DEFINE r == (s \ {x}) \ {y}
      <4>1. r = (s \ {y}) \ {x} /\ y \in s \ {x} /\ x \in s \ {y}
        BY <3>1, <3>4
      <4>2. g[s \ {x}] = w[y] + g[r]
        BY <3>1, <3>2, <4>1
      <4>3. g[s \ {y}] = w[x] + g[r]
        BY <3>2, <4>1
      <4>4. r \in SUBSET S /\ g[r] \in Int
        <5>1. s \ {x} \in SUBSET S
          BY <3>1, <3>2
        <5>2. r \in SUBSET S /\ Cardinality(r) < Cardinality(s)
          <6>1. Cardinality(r) = Cardinality(s \ {x}) - 1
            BY <4>1, <5>1, Without
          <6>2. Cardinality(s \ {x}) = Cardinality(s) - 1
            BY <3>1, Without
          <6>3. r \in SUBSET S
            OBVIOUS
          <6> HIDE DEF r
          <6>. QED BY <1>1, <5>1, <6>1, <6>2, <6>3
        <5>. QED BY <1>2, <5>2
      <4>5. w[x] \in Int /\ w[y] \in Int
        BY <3>1, <3>2
      <4> HIDE DEF r
      <4>. QED BY <3>1, <4>2, <4>3, <4>4, <4>5
    <3>5. g[s] \in Int
      BY <3>1, <3>3
    <3>6. ASSUME NEW y \in s PROVE g[s] = w[y] + g[s \ {y}]
      BY <3>1, <3>4
    <3>. QED BY <3>5, <3>6
  <2>. QED BY <2>2, <2>3
<1>3. ASSUME wrong # {} PROVE FALSE
  <2>1. PICK n \in wrong : \A j \in wrong : n <= j
    BY <1>3, LeastOf
  <2>2. PICK s \in SUBSET S : Cardinality(s) = n /\ ~Right(s)
    BY <2>1
  <2>3. ASSUME NEW t \in SUBSET S, Cardinality(t) < Cardinality(s) PROVE Right(t)
    <3> HIDE DEF Right
    <3>1. Cardinality(t) \in Nat /\ n \in Nat
      BY <1>1
    <3>2. Cardinality(t) \notin wrong
      BY <2>1, <2>2, <2>3, <3>1
    <3>. QED BY <3>1, <3>2
  <2>. QED BY <1>2, <2>2, <2>3
<1> HIDE DEF Right
<1>4. ASSUME NEW s \in SUBSET S PROVE Right(s)
  BY <1>1, <1>3
<1>. QED BY <1>4 DEF Right, Additive

\* Nor does it matter what else could be summed.
LEMMA SameSum ==
  ASSUME NEW T, IsFiniteSet(T), NEW S \in SUBSET T,
         NEW v, NEW w, \A x \in S : w[x] = v[x],
         NEW g, Summing(g, w, SUBSET S), NEW h, Summing(h, v, SUBSET T)
  PROVE  g[S] = h[S]
<1> DEFINE wrong == {n \in Nat : \E s \in SUBSET S : Cardinality(s) = n /\ g[s] # h[s]}
<1>1. IsFiniteSet(S) /\ \A s \in SUBSET S : Cardinality(s) \in Nat
  BY FS_Subset, FS_CardinalityType
<1>2. ASSUME NEW s \in SUBSET S, \A t \in SUBSET S : Cardinality(t) < Cardinality(s) => g[t] = h[t]
      PROVE  g[s] = h[s]
  <2>1. g[s] = SumStep(g, w, s) /\ h[s] = SumStep(h, v, s)
    <3>1. s \in SUBSET T
      OBVIOUS
    <3>. QED BY <3>1, Zenon DEF Summing
  <2>2. CASE s = {}
    BY <2>1, <2>2 DEF SumStep
  <2>3. CASE s # {}
    <3>1. Picked(s) \in s
      BY <2>3, PickedOf
    <3>2. s \ {Picked(s)} \in SUBSET S /\ Cardinality(s \ {Picked(s)}) < Cardinality(s)
      BY <1>1, <3>1, Without
    <3>. QED BY <1>2, <2>1, <2>3, <3>1, <3>2 DEF SumStep
  <2>. QED BY <2>2, <2>3
<1>3. ASSUME wrong # {} PROVE FALSE
  <2>1. PICK n \in wrong : \A j \in wrong : n <= j
    BY <1>3, LeastOf
  <2>2. PICK s \in SUBSET S : Cardinality(s) = n /\ g[s] # h[s]
    BY <2>1
  <2>3. ASSUME NEW t \in SUBSET S, Cardinality(t) < Cardinality(s) PROVE g[t] = h[t]
    <3>1. Cardinality(t) \in Nat /\ n \in Nat
      BY <1>1
    <3>2. Cardinality(t) \notin wrong
      BY <2>1, <2>2, <2>3, <3>1
    <3>. QED BY <3>1, <3>2
  <2>. QED BY <1>2, <2>2, <2>3
<1>. QED BY <1>1, <1>3

LEMMA SumOfNone ==
  ASSUME NEW w
  PROVE  SumOf(w, {}) = 0
<1>1. IsFiniteSet({})
  BY FS_EmptySet
<1>2. PICK g : Summing(g, w, SUBSET {}) /\ SumOf(w, {}) = g[{}]
  BY <1>1, SumIs
<1>3. {} \in SUBSET {}
  OBVIOUS
<1>4. g[{}] = SumStep(g, w, {})
  BY <1>2, <1>3, Zenon DEF Summing
<1>. QED BY <1>2, <1>4 DEF SumStep

LEMMA SumWithout ==
  ASSUME NEW v, NEW T, IsFiniteSet(T), \A y \in T : v[y] \in Int, NEW x \in T,
         NEW w, \A y \in T \ {x} : w[y] = v[y]
  PROVE  /\ SumOf(v, T) \in Int /\ SumOf(w, T \ {x}) \in Int
         /\ SumOf(v, T) = v[x] + SumOf(w, T \ {x})
<1> DEFINE S == T \ {x}
<1>1. S \in SUBSET T /\ IsFiniteSet(S)
  BY FS_Subset
<1>2. PICK h : Summing(h, v, SUBSET T) /\ SumOf(v, T) = h[T]
  BY SumIs
<1>3. PICK g : Summing(g, w, SUBSET S) /\ SumOf(w, S) = g[S]
  BY <1>1, SumIs
<1>4. g[S] = h[S]
  <2>1. \A y \in S : w[y] = v[y]
    OBVIOUS
  <2> HIDE DEF S
  <2>. QED BY <1>1, <1>2, <1>3, <2>1, SameSum
<1>5. h[T] \in Int /\ h[S] \in Int /\ h[T] = v[x] + h[S]
  <2>1. T \in SUBSET T /\ S \in SUBSET T
    OBVIOUS
  <2>2. \A s \in SUBSET T : h[s] \in Int /\ \A y \in s : h[s] = v[y] + h[s \ {y}]
    <3>1. IsFiniteSet(T) /\ (\A y \in T : v[y] \in Int) /\ Summing(h, v, SUBSET T)
      BY <1>2
    <3>2. \A s \in SUBSET T : Additive(h, v, s)
      BY <3>1, AnyOrder, Zenon
    <3>. QED BY <3>2 DEF Additive
  <2>. QED BY <2>1, <2>2
<1>. QED BY <1>2, <1>3, <1>4, <1>5

--------------------------------------------------------------------------------
(* The inductive invariant.                                                *)

\* The addresses met on the way from block f round the list to block r.
Between(f, r) == {b \in Blocks : IF f <= r THEN f <= b /\ b <= r
                                           ELSE f <= b \/ b <= r}

\* A scan started before the rover, looks at a free block or just after one, and
\* has found everything it passed wanting.
Scanning ==
  IF scan.pc = "scan"
  THEN /\ scan.size \in Requests
       /\ scan.start = prev[rover]
       /\ scan.base = scan.rover \/ (IsFree(scan.base) /\ next[scan.base] = scan.rover)
       /\ \/ scan.rover = rover /\ scan.base = rover
          \/ \A b \in Between(rover, scan.rover) : ~Fits(b)
  ELSE scan \in {Idle, Fatal}

\* What every step relies on: the types, the heap, and the state of a scan.
ZoneInv == TypeOK /\ HeapChecks /\ Scanning

USE UnitsAssumption, RequestsAssumption, MinFragmentAssumption

\* A block's successor is the next address at which a block begins; after the
\* last one comes the cap.
LEMMA Successor ==
  ASSUME TypeOK, HeapChecks, NEW b \in Blocks
  PROVE  /\ next[b] # b
         /\ \/ next[b] > b /\ \A c \in Blocks : c <= b \/ c >= next[b]
            \/ next[b] = Cap /\ \A c \in Blocks : c <= b
<1>1. CASE b = Cap
  <2>1. \A c \in Blocks : c \in Int /\ c >= 0
    BY DEF TypeOK
  <2>. QED BY <1>1, <2>1 DEF HeapChecks, Capped, Cap
<1>2. CASE b # Cap
  <2>1. /\ b \in 1..Units /\ size[b] \in Nat /\ size[b] > 0
        /\ Touches(b) /\ \A c \in Blocks : c <= b \/ c >= b + size[b]
    BY <1>2 DEF TypeOK, HeapChecks, Tiled, Cap
  <2>2. \A c \in Blocks : c \in 0..Units
    BY DEF TypeOK
  <2>. QED BY <1>2, <2>1, <2>2 DEF Touches, Cap
<1>. QED BY <1>1, <1>2

\* The way from f to the successor of r is the way to r and that successor.
LEMMA Onward ==
  ASSUME TypeOK, HeapChecks, NEW f \in Blocks, NEW r \in Blocks, next[r] # f
  PROVE  Between(f, next[r]) \subseteq Between(f, r) \cup {next[r]}
<1>1. /\ Blocks \subseteq 0..Units /\ next[r] \in Blocks
      /\ \A c \in Blocks : c \in Int /\ c >= 0
  BY DEF TypeOK
<1>2. \/ next[r] > r /\ \A c \in Blocks : c <= r \/ c >= next[r]
      \/ next[r] = 0 /\ \A c \in Blocks : c <= r
  BY Successor DEF Cap
<1>3. SUFFICES ASSUME NEW b \in Between(f, next[r]), b # next[r]
               PROVE  b \in Between(f, r)
  OBVIOUS
<1>4. b \in Blocks
  BY DEF Between
<1>5. IF f <= next[r] THEN f <= b /\ b <= next[r] ELSE f <= b \/ b <= next[r]
  BY <1>3 DEF Between
<1>6. /\ f \in Int /\ r \in Int /\ b \in Int /\ next[r] \in Int
      /\ b <= r \/ b >= next[r] \/ next[r] = 0
      /\ f <= r \/ f >= next[r] \/ next[r] = 0
  BY <1>1, <1>2, <1>4
<1>7. IF f <= r THEN f <= b /\ b <= r ELSE f <= b \/ b <= r
  BY <1>1, <1>2, <1>3, <1>4, <1>5, <1>6
<1>. QED BY <1>4, <1>7 DEF Between

\* If nothing up to r fits, nor the successor of r, nothing up to it fits.
LEMMA Passed ==
  ASSUME TypeOK, HeapChecks, NEW f \in Blocks, NEW r \in Blocks, next[r] # f,
         r = f \/ \A b \in Between(f, r) : ~Fits(b),
         ~Fits(r), ~Fits(next[r])
  PROVE  \A b \in Between(f, next[r]) : ~Fits(b)
<1>1. \A c \in Blocks : c \in Int
  BY DEF TypeOK
<1>2. Between(f, f) = {f}
  BY <1>1 DEF Between
<1>. QED BY Onward, <1>2

\* The way from f to the block before f is the whole list.
LEMMA Around ==
  ASSUME TypeOK, HeapChecks, NEW f \in Blocks
  PROVE  prev[f] # f /\ Between(f, prev[f]) = Blocks
<1> DEFINE r == prev[f]
<1>1. /\ r \in Blocks /\ next[r] = f
      /\ \A c \in Blocks : c \in Int /\ c >= 0
  BY DEF TypeOK, HeapChecks, Linked
<1>2. /\ next[r] # r
      /\ \/ f > r /\ \A c \in Blocks : c <= r \/ c >= f
         \/ f = 0 /\ \A c \in Blocks : c <= r
  BY <1>1, Successor DEF Cap
<1>. QED BY <1>1, <1>2 DEF Between

\* The block that a turn of the loop judges, and what the judgement covers.
LEMMA Turn ==
  ASSUME ZoneInv, scan.pc = "scan", scan.rover # scan.start
  PROVE  /\ scan.rover \in Blocks /\ next[scan.rover] \in Blocks
         /\ NextBase \in Blocks
         /\ NextBase = next[scan.rover]
              \/ (IsFree(NextBase) /\ next[NextBase] = next[scan.rover])
         /\ ~Fits(NextBase) => \A b \in Between(rover, next[scan.rover]) : ~Fits(b)
<1> DEFINE r == scan.rover
           n == next[r]
<1>1. r \in Blocks /\ n \in Blocks /\ rover \in Blocks /\ Blocks \subseteq 0..Units
  BY DEF ZoneInv, TypeOK
<1>2. n # rover
  BY <1>1 DEF ZoneInv, Scanning, HeapChecks, Linked
<1>3. CASE IsFree(r)
  <2>1. scan.base = r
    BY <1>1, <1>3 DEF ZoneInv, Scanning, HeapChecks, NoTwoFree, TypeOK
  <2>2. NextBase = r /\ IsFree(NextBase) /\ next[NextBase] = n
    BY <1>3, <2>1 DEF NextBase
  <2>3. ~Fits(n)
    BY <1>1, <1>3 DEF Fits, ZoneInv, HeapChecks, NoTwoFree
  <2>. QED BY <1>1, <1>2, <2>2, <2>3, Passed DEF ZoneInv, Scanning
<1>4. CASE ~IsFree(r)
  <2>1. NextBase = n
    BY <1>4 DEF NextBase
  <2>2. ~Fits(r)
    BY <1>4 DEF Fits
  <2>. QED BY <1>1, <1>2, <2>1, <2>2, Passed DEF ZoneInv, Scanning
<1>. QED BY <1>3, <1>4

LEMMA ZoneInitInv == Init => ZoneInv
<1> SUFFICES ASSUME Init PROVE ZoneInv
  OBVIOUS
<1>1. Blocks = {0, 1}
  BY DEF Init, Blocks, Cap
<1>2. /\ size[0] = 0 /\ size[1] = Units /\ tag[0] = USED /\ tag[1] = FREE
      /\ next[0] = 1 /\ next[1] = 0 /\ prev[0] = 1 /\ prev[1] = 0
  BY DEF Init, Cap
<1>3. TypeOK
  BY <1>1 DEF Init, TypeOK, Idle, Cap, FREE, USED
<1>4. HeapChecks
  BY <1>1, <1>2 DEF HeapChecks, Capped, Tiled, Covered, Touches, Linked, NoTwoFree, IsFree,
                    Cap, FREE, USED
<1>5. Scanning
  BY DEF Init, Scanning, Idle
<1>. QED BY <1>3, <1>4, <1>5 DEF ZoneInv

\* A step that leaves the heap alone keeps what is said of the heap.
LEMMA HeapUnchanged ==
  ASSUME ZoneInv, UNCHANGED <<size, tag, next, prev, rover, used>>
  PROVE  Blocks' = Blocks /\ HeapChecks'
BY DEF ZoneInv, HeapChecks, Capped, Tiled, Covered, Touches, Linked, NoTwoFree, IsFree,
       Blocks

LEMMA BeginInv ==
  ASSUME ZoneInv, NEW n \in Requests, Z_TagMalloc(n)
  PROVE  ZoneInv'
<1>1. /\ scan' = [pc |-> "scan", size |-> n, start |-> prev[rover],
                  rover |-> rover, base |-> rover]
      /\ UNCHANGED <<size, tag, next, prev, rover, used>>
  BY DEF Z_TagMalloc
<1>2. Blocks' = Blocks /\ HeapChecks'
  BY <1>1, HeapUnchanged
<1>3. TypeOK'
  BY <1>1, <1>2 DEF ZoneInv, TypeOK
<1>4. Scanning'
  BY <1>1 DEF Scanning
<1>. QED BY <1>2, <1>3, <1>4 DEF ZoneInv

LEMMA ScanOnInv == ASSUME ZoneInv, ScanOn PROVE ZoneInv'
<1>1. /\ scan.pc = "scan" /\ scan.rover # scan.start /\ ~Fits(NextBase)
      /\ scan' = [scan EXCEPT !.rover = next[scan.rover], !.base = NextBase]
      /\ UNCHANGED <<size, tag, next, prev, rover, used>>
  BY DEF ScanOn
<1>2. Blocks' = Blocks /\ HeapChecks'
  BY <1>1, HeapUnchanged
<1>3. /\ next[scan.rover] \in Blocks /\ NextBase \in Blocks
      /\ NextBase = next[scan.rover]
           \/ (IsFree(NextBase) /\ next[NextBase] = next[scan.rover])
      /\ \A b \in Between(rover, next[scan.rover]) : ~Fits(b)
  BY <1>1, Turn
<1>4. TypeOK'
  BY <1>1, <1>2, <1>3 DEF ZoneInv, TypeOK
<1>5. /\ scan'.pc = "scan" /\ scan'.size = scan.size /\ scan'.start = scan.start
      /\ scan'.rover = next[scan.rover] /\ scan'.base = NextBase
  BY <1>1 DEF ZoneInv, TypeOK
<1>6. \A b : Fits(b)' <=> Fits(b)
  BY <1>1, <1>5 DEF Fits, IsFree
<1>7. \A b : IsFree(b)' <=> IsFree(b)
  BY <1>1 DEF IsFree
<1>8. Between(rover, scan.rover)' = Between(rover, next[scan.rover])
  BY <1>1, <1>2, <1>5 DEF Between
<1>9. Scanning'
  <2>1. (scan.size \in Requests /\ scan.start = prev[rover])'
    BY <1>1, <1>5 DEF ZoneInv, Scanning
  <2>2. (scan.base = scan.rover \/ (IsFree(scan.base) /\ next[scan.base] = scan.rover))'
    BY <1>1, <1>3, <1>5, <1>7 DEF IsFree
  <2>3. (\A b \in Between(rover, scan.rover) : ~Fits(b))'
    BY <1>3, <1>6, <1>8
  <2>. QED BY <1>1, <1>5, <2>1, <2>2, <2>3 DEF Scanning
<1>. QED BY <1>2, <1>4, <1>9 DEF ZoneInv

LEMMA ExhaustedInv == ASSUME ZoneInv, Exhausted PROVE ZoneInv'
<1>1. scan' = Fatal /\ UNCHANGED <<size, tag, next, prev, rover, used>>
  BY DEF Exhausted
<1>2. Blocks' = Blocks /\ HeapChecks'
  BY <1>1, HeapUnchanged
<1>3. Fatal = [pc |-> "fatal", size |-> 0, start |-> Cap, rover |-> Cap, base |-> Cap]
  BY DEF Fatal, Idle
<1>4. TypeOK' /\ Scanning'
  BY <1>1, <1>2, <1>3 DEF ZoneInv, TypeOK, Scanning, HeapChecks, Capped
<1>. QED BY <1>2, <1>4 DEF ZoneInv

\* A block that is taken: it lies in the zone, and has a used neighbour after it.
LEMMA Taken ==
  ASSUME ZoneInv, Found
  PROVE  /\ scan.size \in Nat /\ scan.size > 0
         /\ NextBase \in Blocks /\ NextBase # Cap /\ IsFree(NextBase)
         /\ NextBase \in 1..Units /\ size[NextBase] \in Nat
         /\ size[NextBase] >= scan.size
         /\ Touches(NextBase)
         /\ next[NextBase] # NextBase /\ ~IsFree(next[NextBase])
<1>1. scan.pc = "scan" /\ scan.rover # scan.start /\ Fits(NextBase)
  BY DEF Found
<1>2. NextBase \in Blocks /\ IsFree(NextBase) /\ size[NextBase] >= scan.size
  BY <1>1, Turn DEF Fits
<1>3. scan.size \in Nat /\ scan.size > 0
  BY <1>1 DEF ZoneInv, Scanning
<1>4. NextBase # Cap /\ Touches(NextBase) /\ ~IsFree(next[NextBase])
  BY <1>2 DEF ZoneInv, HeapChecks, Capped, Tiled, NoTwoFree
<1>5. NextBase \in 1..Units /\ size[NextBase] \in Nat
  BY <1>2, <1>4 DEF ZoneInv, TypeOK, Cap
<1>. QED BY <1>2, <1>3, <1>4, <1>5, Successor DEF ZoneInv

LEMMA TakeWholeInv ==
  ASSUME ZoneInv, Found, TakeWhole(NextBase), scan' = Idle
  PROVE  ZoneInv'
<1> DEFINE b == NextBase
<1>1. b \in Blocks /\ b # Cap /\ IsFree(b) /\ size[b] \in Nat
  BY Taken
<1>2. /\ tag' = [tag EXCEPT ![b] = USED] /\ rover' = next[b]
      /\ used' = used + size[b] /\ UNCHANGED <<size, next, prev>>
      /\ Blocks' = Blocks
  BY DEF TakeWhole, Blocks
<1>3. TypeOK'
  BY <1>1, <1>2 DEF ZoneInv, TypeOK, Idle, HeapChecks, Capped, FREE, USED
<1>4. \A c \in Blocks : IsFree(c)' => IsFree(c)
  BY <1>1, <1>2 DEF IsFree, ZoneInv, TypeOK, FREE, USED
<1>5. Capped' /\ Tiled' /\ Covered' /\ Linked'
  BY <1>1, <1>2, <1>4 DEF ZoneInv, HeapChecks, Capped, Tiled, Covered, Touches, Linked
<1>6. NoTwoFree'
  BY <1>1, <1>2, <1>4 DEF ZoneInv, TypeOK, HeapChecks, NoTwoFree
<1>7. Scanning'
  BY DEF Scanning, Idle
<1>. QED BY <1>3, <1>5, <1>6, <1>7 DEF ZoneInv, HeapChecks

LEMMA TakePartInv ==
  ASSUME ZoneInv, Found, TakePart(NextBase, NextBase + scan.size), scan' = Idle,
         size[NextBase] - scan.size > MinFragment
  PROVE  ZoneInv'
<1> DEFINE b == NextBase
           p == b + scan.size
           n == next[b]
           All == Blocks \cup {p}
<1>1. /\ scan.size \in Nat /\ scan.size > 0 /\ b \in Blocks /\ b # Cap /\ IsFree(b)
      /\ b \in 1..Units /\ size[b] \in Nat /\ size[b] > scan.size
      /\ Touches(b) /\ n # b /\ ~IsFree(n)
  BY Taken DEF ZoneInv, TypeOK
<1>2. /\ n \in Blocks /\ Blocks \subseteq 0..Units
      /\ \A c \in Blocks : c <= b \/ c >= b + size[b]
  BY <1>1 DEF ZoneInv, TypeOK, HeapChecks, Tiled
<1>3. p \in 1..Units /\ p \notin Blocks /\ b < p /\ p < b + size[b] /\ p # n
  BY <1>1, <1>2 DEF Touches
<1>4. /\ size' = [c \in All |-> CASE c = b -> scan.size
                                  [] c = p -> size[b] - scan.size
                                  [] OTHER -> size[c]]
      /\ tag' = [c \in All |-> CASE c = b -> USED [] c = p -> FREE [] OTHER -> tag[c]]
      /\ next' = [c \in All |-> CASE c = b -> p [] c = p -> n [] OTHER -> next[c]]
      /\ prev' = [c \in All |-> CASE c = p -> b [] c = n -> p [] OTHER -> prev[c]]
      /\ rover' = p /\ used' = used + scan.size
  BY DEF TakePart
<1>5. Blocks' = All
  BY <1>4 DEF Blocks
<1>6. /\ size'[b] = scan.size /\ size'[p] = size[b] - scan.size
      /\ tag'[b] = USED /\ tag'[p] = FREE
      /\ next'[b] = p /\ next'[p] = n
      /\ prev'[p] = b /\ prev'[n] = p
  BY <1>1, <1>2, <1>3, <1>4
<1>7. /\ \A c \in Blocks \ {b} : size'[c] = size[c] /\ tag'[c] = tag[c] /\ next'[c] = next[c]
      /\ \A c \in Blocks \ {n} : prev'[c] = prev[c]
  BY <1>1, <1>2, <1>3, <1>4
<1>8. TypeOK'
  <2>1. (size \in [Blocks -> 0..Units])'
    BY <1>1, <1>4, <1>5 DEF ZoneInv, TypeOK
  <2>2. (tag \in [Blocks -> {FREE, USED}])'
    BY <1>4, <1>5 DEF ZoneInv, TypeOK
  <2>3. (next \in [Blocks -> Blocks] /\ prev \in [Blocks -> Blocks])'
    BY <1>1, <1>2, <1>4, <1>5 DEF ZoneInv, TypeOK
  <2>4. (Blocks \subseteq 0..Units /\ rover \in Blocks /\ used \in Int)'
    BY <1>1, <1>2, <1>3, <1>4, <1>5 DEF ZoneInv, TypeOK
  <2>5. (scan \in [pc : {"idle", "scan", "fatal"}, size : Requests \cup {0},
                   start : Blocks, rover : Blocks, base : Blocks])'
    BY <1>5 DEF Idle, ZoneInv, HeapChecks, Capped
  <2>. QED BY <2>1, <2>2, <2>3, <2>4, <2>5 DEF TypeOK
<1>9. Capped'
  BY <1>1, <1>5, <1>7 DEF ZoneInv, HeapChecks, Capped, IsFree
<1>10. Tiled'
  <2>1. SUFFICES ASSUME NEW c \in All \ {Cap}
                 PROVE  /\ size'[c] > 0 /\ Touches(c)'
                        /\ \A d \in All : d <= c \/ d >= c + size'[c]
    BY <1>5 DEF Tiled
  <2>2. CASE c = b
    BY <2>2, <1>1, <1>2, <1>3, <1>6 DEF Touches
  <2>3. CASE c = p
    BY <2>3, <1>1, <1>2, <1>3, <1>6 DEF Touches
  <2>4. CASE c \in Blocks \ {Cap, b}
    <3>1. /\ size'[c] = size[c] /\ next'[c] = next[c] /\ c \in 1..Units
          /\ size[c] \in Nat /\ size[c] > 0
          /\ Touches(c) /\ \A d \in Blocks : d <= c \/ d >= c + size[c]
      BY <2>4, <1>7 DEF ZoneInv, TypeOK, HeapChecks, Tiled, Cap
    <3>2. p <= c \/ p >= c + size[c]
      BY <1>1, <1>2, <1>3, <2>4, <3>1
    <3>. QED BY <3>1, <3>2 DEF Touches
  <2>. QED BY <2>2, <2>3, <2>4
<1>14. Covered'
  <2>1. SUFFICES ASSUME NEW x \in 1..Units
                 PROVE  \E c \in All \ {Cap} : c <= x /\ x < c + size'[c]
    BY <1>5 DEF Covered
  <2>2. PICK c \in Blocks \ {Cap} : c <= x /\ x < c + size[c]
    BY DEF ZoneInv, HeapChecks, Covered
  <2>3. CASE c # b
    BY <2>2, <2>3, <1>7
  <2>4. CASE c = b /\ x < p
    BY <2>2, <2>4, <1>1, <1>6
  <2>5. CASE c = b /\ x >= p
    BY <2>2, <2>5, <1>1, <1>3, <1>6 DEF Cap
  <2>. QED BY <2>3, <2>4, <2>5, <1>3
<1>11. Linked'
  <2>1. SUFFICES ASSUME NEW c \in All
                 PROVE  prev'[next'[c]] = c /\ next'[prev'[c]] = c
    BY <1>5 DEF Linked
  <2>2. /\ \A d \in Blocks : prev[next[d]] = d /\ next[prev[d]] = d
        /\ \A d \in Blocks : next[d] \in Blocks /\ prev[d] \in Blocks
    BY DEF ZoneInv, HeapChecks, Linked, TypeOK
  <2>3. prev'[next'[c]] = c
    BY <2>2, <1>1, <1>2, <1>3, <1>6, <1>7
  <2>4. CASE c = p \/ c = n
    BY <2>3, <2>4, <1>6
  <2>5. CASE c \in Blocks \ {n}
    <3>1. prev'[c] = prev[c] /\ prev[c] \in Blocks /\ next[prev[c]] = c
      BY <2>2, <2>5, <1>7
    <3>2. prev[c] # b
      BY <2>5, <3>1
    <3>. QED BY <2>3, <3>1, <3>2, <1>7
  <2>. QED BY <2>4, <2>5
<1>12. NoTwoFree'
  <2>1. SUFFICES ASSUME NEW c \in All, tag'[c] = FREE
                 PROVE  tag'[next'[c]] # FREE
    BY <1>5 DEF NoTwoFree, IsFree
  <2>2. CASE c = p
    BY <2>2, <1>1, <1>2, <1>6, <1>7 DEF IsFree
  <2>3. CASE c \in Blocks \ {b}
    <3>1. next'[c] = next[c] /\ next[c] \in Blocks /\ tag[next[c]] # FREE
      BY <2>1, <2>3, <1>7 DEF ZoneInv, TypeOK, HeapChecks, NoTwoFree, IsFree
    <3>2. next[c] # b
      BY <3>1, <1>1 DEF IsFree
    <3>. QED BY <3>1, <3>2, <1>7
  <2>. QED BY <2>1, <2>2, <2>3, <1>6 DEF FREE, USED
<1>13. Scanning'
  BY DEF Scanning, Idle
<1>. QED BY <1>8, <1>9, <1>10, <1>11, <1>12, <1>13, <1>14 DEF ZoneInv, HeapChecks

LEMMA FoundInv == ASSUME ZoneInv, Found PROVE ZoneInv'
BY TakeWholeInv, TakePartInv DEF Found

\* What Z_Free leaves: the block m that the freed one ends up in, f after it, and
\* the rest of the list as it was.
LEMMA Merged ==
  ASSUME ZoneInv, NEW b \in Held
  PROVE  LET m == MergedAt(b)  f == FollowedBy(b)  left == Blocks \ Absorbed(b)
             s == MergedSize(b)
         IN /\ m \in left \ {Cap} /\ f \in left /\ m # f /\ Cap \in left
            /\ s \in 1..Units /\ m + s = IF f = Cap THEN Units + 1 ELSE f
            /\ \A c \in left : c <= m \/ c >= m + s
            /\ \A c \in Absorbed(b) \cup {m} : m <= c /\ c + size[c] <= m + s
            /\ ~IsFree(f) /\ ~IsFree(prev[m])
            /\ \A c \in left \ {m} : next[c] \in left \ {f}
            /\ \A c \in left \ {f} : prev[c] \in left \ {m}
            /\ next[prev[m]] = m /\ prev[m] \in left
<1> DEFINE a == prev[b]
           n == next[b]
           nn == next[n]
<1>1. /\ b \in Blocks /\ b # Cap /\ ~IsFree(b) /\ Cap \in Blocks
      /\ \A c \in Blocks : next[c] \in Blocks /\ prev[c] \in Blocks
  BY DEF Held, ZoneInv, TypeOK, HeapChecks, Capped
<1>2. \A c \in Blocks : c \in 0..Units /\ size[c] \in 0..Units
  BY DEF ZoneInv, TypeOK
<1>3. \A c \in Blocks : prev[next[c]] = c /\ next[prev[c]] = c
  BY DEF ZoneInv, HeapChecks, Linked
<1>4. \A c \in Blocks \ {Cap} :
         /\ size[c] > 0
         /\ c + size[c] = IF next[c] = Cap THEN Units + 1 ELSE next[c]
         /\ \A d \in Blocks : d <= c \/ d >= c + size[c]
  BY <1>1, <1>2 DEF ZoneInv, HeapChecks, Tiled, Touches, Cap
<1>5. \A c \in Blocks : IsFree(c) => c # Cap /\ ~IsFree(next[c]) /\ ~IsFree(prev[c])
  BY <1>1, <1>3 DEF ZoneInv, HeapChecks, Capped, NoTwoFree
<1>6. a \in Blocks /\ n \in Blocks /\ nn \in Blocks /\ prev[a] \in Blocks
  BY <1>1
<1>7. a # b /\ n # b
  BY <1>1, <1>2, <1>3, <1>4, <1>6 DEF Cap
<1>8. CASE ~IsFree(a) /\ ~IsFree(n)
  <2>1. /\ MergedAt(b) = b /\ FollowedBy(b) = n /\ Absorbed(b) = {}
        /\ MergedSize(b) = size[b]
    BY <1>1, <1>2, <1>6, <1>8 DEF MergedAt, FollowedBy, Absorbed, MergedSize
  <2>2. /\ a \in Blocks
    BY <1>1, <1>2, <1>3, <1>4, <1>5, <1>6, <1>7, <1>8 DEF Cap
  <2>3. b # n /\ b \in Blocks \ ({} \cup {Cap}) /\ n \in Blocks \ {}
    BY <1>1, <1>2, <1>3, <1>4, <1>6, <1>7, <1>8, <2>2 DEF Cap
  <2>4. size[b] \in 1..Units /\ b + (size[b]) = IF n = Cap THEN Units + 1 ELSE n
    BY <1>1, <1>2, <1>4, <1>6, <1>8, <2>2, <2>3 DEF Cap
  <2>5. \A c \in Blocks \ {} : c <= b \/ c >= b + (size[b])
    BY <1>1, <1>2, <1>4, <1>6, <1>8, <2>2, <2>3 DEF Cap
  <2>6. \A c \in Blocks \ ({} \cup {b}) : next[c] \in Blocks \ ({} \cup {n})
    BY <1>1, <1>3, <1>6
  <2>7. \A c \in Blocks \ ({} \cup {n}) : prev[c] \in Blocks \ ({} \cup {b})
    BY <1>1, <1>3, <1>6
  <2>8. ~IsFree(n) /\ ~IsFree(prev[b]) /\ next[prev[b]] = b /\ prev[b] \in Blocks \ {}
    BY <1>1, <1>3, <1>5, <1>6, <1>7, <1>8, <2>2
  <2>9. \A c \in {} \cup {b} : b <= c /\ c + size[c] <= b + (size[b])
    BY <1>1, <1>2, <1>6, <1>8, <2>2, <2>3
  <2>. QED BY <1>1, <1>5, <1>6, <1>8, <2>1, <2>2, <2>3, <2>4, <2>5, <2>6, <2>7, <2>8, <2>9
<1>9. CASE ~IsFree(a) /\ IsFree(n)
  <2>1. /\ MergedAt(b) = b /\ FollowedBy(b) = nn /\ Absorbed(b) = {n}
        /\ MergedSize(b) = size[b] + size[n]
    BY <1>1, <1>2, <1>6, <1>9 DEF MergedAt, FollowedBy, Absorbed, MergedSize
  <2>2. /\ n # Cap /\ ~IsFree(nn) /\ nn # n /\ nn # b /\ a # n
          /\ b + size[b] = n
    BY <1>1, <1>2, <1>3, <1>4, <1>5, <1>6, <1>7, <1>9 DEF Cap
  <2>3. b # nn /\ b \in Blocks \ ({n} \cup {Cap}) /\ nn \in Blocks \ {n}
    BY <1>1, <1>2, <1>3, <1>4, <1>6, <1>7, <1>9, <2>2 DEF Cap
  <2>4. size[b] + size[n] \in 1..Units /\ b + (size[b] + size[n]) = IF nn = Cap THEN Units + 1 ELSE nn
    BY <1>1, <1>2, <1>4, <1>6, <1>9, <2>2, <2>3 DEF Cap
  <2>5. \A c \in Blocks \ {n} : c <= b \/ c >= b + (size[b] + size[n])
    BY <1>1, <1>2, <1>4, <1>6, <1>9, <2>2, <2>3 DEF Cap
  <2>6. \A c \in Blocks \ ({n} \cup {b}) : next[c] \in Blocks \ ({n} \cup {nn})
    BY <1>1, <1>3, <1>6
  <2>7. \A c \in Blocks \ ({n} \cup {nn}) : prev[c] \in Blocks \ ({n} \cup {b})
    BY <1>1, <1>3, <1>6
  <2>8. ~IsFree(nn) /\ ~IsFree(prev[b]) /\ next[prev[b]] = b /\ prev[b] \in Blocks \ {n}
    BY <1>1, <1>3, <1>5, <1>6, <1>7, <1>9, <2>2
  <2>9. \A c \in {n} \cup {b} : b <= c /\ c + size[c] <= b + (size[b] + size[n])
    BY <1>1, <1>2, <1>6, <1>9, <2>2, <2>3
  <2>. QED BY <1>1, <1>5, <1>6, <1>9, <2>1, <2>2, <2>3, <2>4, <2>5, <2>6, <2>7, <2>8, <2>9
<1>10. CASE IsFree(a) /\ ~IsFree(n)
  <2>1. /\ MergedAt(b) = a /\ FollowedBy(b) = n /\ Absorbed(b) = {b}
        /\ MergedSize(b) = size[b] + size[a]
    BY <1>1, <1>2, <1>6, <1>10 DEF MergedAt, FollowedBy, Absorbed, MergedSize
  <2>2. /\ a # Cap /\ ~IsFree(prev[a]) /\ prev[a] # a /\ prev[a] # b /\ a # n
          /\ a + size[a] = b
    BY <1>1, <1>2, <1>3, <1>4, <1>5, <1>6, <1>7, <1>10 DEF Cap
  <2>3. a # n /\ a \in Blocks \ ({b} \cup {Cap}) /\ n \in Blocks \ {b}
    BY <1>1, <1>2, <1>3, <1>4, <1>6, <1>7, <1>10, <2>2 DEF Cap
  <2>4. size[b] + size[a] \in 1..Units /\ a + (size[b] + size[a]) = IF n = Cap THEN Units + 1 ELSE n
    BY <1>1, <1>2, <1>4, <1>6, <1>10, <2>2, <2>3 DEF Cap
  <2>5. \A c \in Blocks \ {b} : c <= a \/ c >= a + (size[b] + size[a])
    <3>1. ASSUME NEW c \in Blocks, c # b PROVE c <= a \/ c >= a + (size[b] + size[a])
      <4>1. c <= a \/ c >= a + size[a]
        BY <1>4, <1>6, <2>2
      <4>2. c <= b \/ c >= b + size[b]
        BY <1>1, <1>4
      <4>3. /\ a \in Int /\ b \in Int /\ c \in Int /\ size[a] \in Int /\ size[b] \in Int
            /\ a + size[a] = b
        BY <1>1, <1>2, <1>6, <2>2
      <4>. QED BY <3>1, <4>1, <4>2, <4>3
    <3>. QED BY <3>1
  <2>6. \A c \in Blocks \ ({b} \cup {a}) : next[c] \in Blocks \ ({b} \cup {n})
    BY <1>1, <1>3, <1>6
  <2>7. \A c \in Blocks \ ({b} \cup {n}) : prev[c] \in Blocks \ ({b} \cup {a})
    BY <1>1, <1>3, <1>6
  <2>8. ~IsFree(n) /\ ~IsFree(prev[a]) /\ next[prev[a]] = a /\ prev[a] \in Blocks \ {b}
    BY <1>1, <1>3, <1>5, <1>6, <1>7, <1>10, <2>2
  <2>9. \A c \in {b} \cup {a} : a <= c /\ c + size[c] <= a + (size[b] + size[a])
    BY <1>1, <1>2, <1>6, <1>10, <2>2, <2>3
  <2>. QED BY <1>1, <1>5, <1>6, <1>10, <2>1, <2>2, <2>3, <2>4, <2>5, <2>6, <2>7, <2>8, <2>9
<1>11. CASE IsFree(a) /\ IsFree(n)
  <2>1. /\ MergedAt(b) = a /\ FollowedBy(b) = nn /\ Absorbed(b) = {b, n}
        /\ MergedSize(b) = size[b] + size[a] + size[n]
    BY <1>1, <1>2, <1>6, <1>11 DEF MergedAt, FollowedBy, Absorbed, MergedSize
  <2>2. /\ n # Cap /\ ~IsFree(nn) /\ nn # n /\ nn # b /\ a # n
          /\ b + size[b] = n
        /\ a # Cap /\ ~IsFree(prev[a]) /\ prev[a] # a /\ prev[a] # b /\ a # n
          /\ a + size[a] = b
        /\ nn # a /\ prev[a] # n
    BY <1>1, <1>2, <1>3, <1>4, <1>5, <1>6, <1>7, <1>11 DEF Cap
  <2>3. a # nn /\ a \in Blocks \ ({b, n} \cup {Cap}) /\ nn \in Blocks \ {b, n}
    BY <1>1, <1>2, <1>3, <1>4, <1>6, <1>7, <1>11, <2>2 DEF Cap
  <2>4. size[b] + size[a] + size[n] \in 1..Units /\ a + (size[b] + size[a] + size[n]) = IF nn = Cap THEN Units + 1 ELSE nn
    BY <1>1, <1>2, <1>4, <1>6, <1>11, <2>2, <2>3 DEF Cap
  <2>5. \A c \in Blocks \ {b, n} : c <= a \/ c >= a + (size[b] + size[a] + size[n])
    BY <1>1, <1>2, <1>4, <1>6, <1>11, <2>2, <2>3 DEF Cap
  <2>6. \A c \in Blocks \ ({b, n} \cup {a}) : next[c] \in Blocks \ ({b, n} \cup {nn})
    BY <1>1, <1>3, <1>6
  <2>7. \A c \in Blocks \ ({b, n} \cup {nn}) : prev[c] \in Blocks \ ({b, n} \cup {a})
    BY <1>1, <1>3, <1>6
  <2>8. ~IsFree(nn) /\ ~IsFree(prev[a]) /\ next[prev[a]] = a /\ prev[a] \in Blocks \ {b, n}
    BY <1>1, <1>3, <1>5, <1>6, <1>7, <1>11, <2>2
  <2>9. \A c \in {b, n} \cup {a} : a <= c /\ c + size[c] <= a + (size[b] + size[a] + size[n])
    BY <1>1, <1>2, <1>6, <1>11, <2>2, <2>3
  <2>. QED BY <1>1, <1>5, <1>6, <1>11, <2>1, <2>2, <2>3, <2>4, <2>5, <2>6, <2>7, <2>8, <2>9
<1>. QED BY <1>8, <1>9, <1>10, <1>11

LEMMA FreeInv == ASSUME ZoneInv, NEW b \in Held, Z_Free(b) PROVE ZoneInv'
<1> DEFINE m == MergedAt(b)
           f == FollowedBy(b)
           left == Blocks \ Absorbed(b)
           s == MergedSize(b)
<1>1. /\ m \in left \ {Cap} /\ f \in left /\ m # f /\ Cap \in left
      /\ s \in 1..Units /\ m + s = IF f = Cap THEN Units + 1 ELSE f
      /\ \A c \in left : c <= m \/ c >= m + s
      /\ \A c \in Absorbed(b) \cup {m} : m <= c /\ c + size[c] <= m + s
      /\ ~IsFree(f) /\ ~IsFree(prev[m])
      /\ \A c \in left \ {m} : next[c] \in left \ {f}
      /\ \A c \in left \ {f} : prev[c] \in left \ {m}
      /\ next[prev[m]] = m /\ prev[m] \in left
  BY Merged
<1>2. /\ left \subseteq Blocks /\ \A c \in Blocks : c \in 0..Units /\ size[c] \in 0..Units
      /\ \A c \in Blocks : prev[next[c]] = c /\ next[prev[c]] = c
  BY DEF ZoneInv, TypeOK, HeapChecks, Linked
<1>3. /\ used' = used - size[b]
      /\ size' = [c \in left |-> IF c = m THEN s ELSE size[c]]
      /\ tag' = [c \in left |-> IF c = m THEN FREE ELSE tag[c]]
      /\ next' = [c \in left |-> IF c = m THEN f ELSE next[c]]
      /\ prev' = [c \in left |-> IF c = f THEN m ELSE prev[c]]
      /\ rover' = m /\ scan' = scan /\ scan.pc = "idle"
  BY DEF Z_Free
<1>4. Blocks' = left
  BY <1>3 DEF Blocks
<1>5. /\ size'[m] = s /\ tag'[m] = FREE /\ next'[m] = f /\ prev'[f] = m
      /\ \A c \in left \ {m} : size'[c] = size[c] /\ tag'[c] = tag[c] /\ next'[c] = next[c]
      /\ \A c \in left \ {f} : prev'[c] = prev[c]
  BY <1>1, <1>3
<1>6. TypeOK'
  <2>0. scan = Idle /\ used - size[b] \in Int
    <3>1. scan = Idle
      BY <1>3 DEF ZoneInv, Scanning, Idle, Fatal
    <3>2. b \in Blocks
      BY DEF Held
    <3>. QED BY <3>1, <3>2, <1>2 DEF ZoneInv, TypeOK
  <2>1. (size \in [Blocks -> 0..Units])'
    BY <1>1, <1>2, <1>3, <1>4
  <2>2. (tag \in [Blocks -> {FREE, USED}])'
    BY <1>2, <1>3, <1>4 DEF ZoneInv, TypeOK
  <2>3. (next \in [Blocks -> Blocks] /\ prev \in [Blocks -> Blocks])'
    BY <1>1, <1>3, <1>4
  <2>4. (Blocks \subseteq 0..Units /\ rover \in Blocks /\ used \in Int)'
    BY <2>0, <1>1, <1>2, <1>3, <1>4
  <2>5. (scan \in [pc : {"idle", "scan", "fatal"}, size : Requests \cup {0},
                   start : Blocks, rover : Blocks, base : Blocks])'
    BY <2>0, <1>1, <1>3, <1>4 DEF Idle
  <2>. QED BY <2>1, <2>2, <2>3, <2>4, <2>5 DEF TypeOK
<1>7. Capped'
  BY <1>1, <1>4, <1>5 DEF ZoneInv, HeapChecks, Capped, IsFree
<1>8. Tiled'
  <2>1. SUFFICES ASSUME NEW c \in left \ {Cap}
                 PROVE  size'[c] > 0 /\ Touches(c)' /\ \A d \in left : d <= c \/ d >= c + size'[c]
    BY <1>4 DEF Tiled
  <2>2. CASE c = m
    BY <2>2, <1>1, <1>2, <1>5 DEF Touches, Cap
  <2>3. CASE c # m
    <3>1. /\ size[c] > 0 /\ Touches(c) /\ \A d \in Blocks : d <= c \/ d >= c + size[c]
      BY <1>2 DEF ZoneInv, HeapChecks, Tiled
    <3>. QED BY <2>3, <3>1, <1>2, <1>5 DEF Touches
  <2>. QED BY <2>2, <2>3
<1>12. Covered'
  <2>1. SUFFICES ASSUME NEW x \in 1..Units
                 PROVE  \E c \in left \ {Cap} : c <= x /\ x < c + size'[c]
    BY <1>4 DEF Covered
  <2>2. PICK c \in Blocks \ {Cap} : c <= x /\ x < c + size[c]
    BY DEF ZoneInv, HeapChecks, Covered
  <2>3. CASE c \in Absorbed(b) \cup {m}
    BY <2>2, <2>3, <1>1, <1>2, <1>5
  <2>4. CASE c \in left \ {m}
    BY <2>2, <2>4, <1>5
  <2>. QED BY <2>2, <2>3, <2>4
<1>9. Linked'
  <2>1. SUFFICES ASSUME NEW c \in left
                 PROVE  prev'[next'[c]] = c /\ next'[prev'[c]] = c
    BY <1>4 DEF Linked
  <2>2. prev'[next'[c]] = c
    BY <1>1, <1>2, <1>5
  <2>3. next'[prev'[c]] = c
    BY <1>1, <1>2, <1>5
  <2>. QED BY <2>2, <2>3
<1>10. NoTwoFree'
  <2>1. SUFFICES ASSUME NEW c \in left, tag'[c] = FREE
                 PROVE  tag'[next'[c]] # FREE
    BY <1>4 DEF NoTwoFree, IsFree
  <2>2. CASE c = m
    BY <2>2, <1>1, <1>5 DEF IsFree
  <2>3. CASE c # m
    <3>1. /\ next'[c] = next[c] /\ next[c] \in left /\ tag[c] = FREE /\ tag[next[c]] # FREE
      BY <2>1, <2>3, <1>1, <1>2, <1>5 DEF ZoneInv, HeapChecks, NoTwoFree, IsFree
    <3>2. next[c] # m
      BY <3>1, <1>1, <1>2 DEF IsFree
    <3>. QED BY <3>1, <3>2, <1>5
  <2>. QED BY <2>2, <2>3
<1>11. Scanning'
  BY <1>3 DEF ZoneInv, Scanning, Idle, Fatal
<1>. QED BY <1>6, <1>7, <1>8, <1>9, <1>10, <1>11, <1>12 DEF ZoneInv, HeapChecks

LEMMA StutterInv == ASSUME ZoneInv, UNCHANGED vars PROVE ZoneInv'
<1>1. Blocks' = Blocks
  BY DEF vars, Blocks
<1>2. TypeOK' /\ HeapChecks'
  BY <1>1, HeapUnchanged DEF vars, ZoneInv, TypeOK
<1>3. Scanning'
  BY <1>1 DEF vars, ZoneInv, Scanning, Between, Fits, IsFree, Idle, Fatal
<1>. QED BY <1>2, <1>3 DEF ZoneInv

LEMMA ZoneNextInv == ASSUME ZoneInv, [Next]_vars PROVE ZoneInv'
BY BeginInv, ScanOnInv, FoundInv, ExhaustedInv, FreeInv, StutterInv DEF Next

LEMMA ZoneInvariance == Spec => []ZoneInv
<1>1. ZoneInv /\ [Next]_vars => ZoneInv'
  BY ZoneNextInv
<1>. QED BY ZoneInitInv, <1>1, PTL DEF Spec

\* The state of the zone is well-typed, whatever its size and the requests.
THEOREM ZoneTypeCorrect == Spec => []TypeOK
<1>1. ZoneInv => TypeOK
  BY DEF ZoneInv
<1>. QED BY ZoneInvariance, <1>1, PTL

\* What Z_CheckHeap checks, and more, holds after every call: the blocks cover
\* the zone without overlapping, the links agree, no two free blocks touch.
THEOREM HeapIsSound == Spec => []HeapChecks
<1>1. ZoneInv => HeapChecks
  BY DEF ZoneInv
<1>. QED BY ZoneInvariance, <1>1, PTL

LEMMA ExhaustedIsFull == ZoneInv => FatalOnlyWhenFull
<1> SUFFICES ASSUME ZoneInv, scan.pc = "scan", scan.rover = scan.start
             PROVE  \A b \in Blocks : ~Fits(b)
  BY DEF FatalOnlyWhenFull
<1>1. rover \in Blocks /\ scan.rover = prev[rover]
  BY DEF ZoneInv, TypeOK, Scanning
<1>2. prev[rover] # rover /\ Between(rover, prev[rover]) = Blocks
  BY <1>1, Around DEF ZoneInv
<1>. QED BY <1>1, <1>2 DEF ZoneInv, Scanning

\* The scan gives up only when no free block is large enough, wherever the rover
\* stood.
THEOREM ScanIsComplete == Spec => []FatalOnlyWhenFull
BY ZoneInvariance, ExhaustedIsFull, PTL

\* The invariant the runs check: types, the heap as Z_CheckHeap wants it, and the
\* scan, together.
THEOREM Soundness == Spec => []ZoneSound
BY ZoneTypeCorrect, HeapIsSound, ScanIsComplete, PTL DEF ZoneSound

--------------------------------------------------------------------------------
\* What the callers hold, before and after.
Live == {Stretch(b) : b \in Held}

\* Two blocks have no address in common.
LEMMA BlocksApart ==
  ASSUME ZoneInv, NEW b \in Blocks \ {Cap}, NEW c \in Blocks \ {Cap}, b # c
  PROVE  b + size[b] <= c \/ c + size[c] <= b
<1>1. b \in Int /\ c \in Int /\ size[b] \in Int /\ size[c] \in Int
  BY DEF ZoneInv, TypeOK
<1>2. (c <= b \/ c >= b + size[b]) /\ (b <= c \/ b >= c + size[c])
  BY DEF ZoneInv, HeapChecks, Tiled
<1>. QED BY <1>1, <1>2

\* Where every free block is too small there is no gap for the request.
LEMMA NoRoom ==
  ASSUME ZoneInv, scan.pc = "scan", \A b \in Blocks : ~Fits(b),
         NEW x \in 1..Units, NEW y \in 1..Units, y = x + scan.size - 1
  PROVE  \E b \in Held : ~(y < b \/ b + size[b] - 1 < x)
<1>1. PICK b \in Blocks \ {Cap} : b <= x /\ x < b + size[b]
  BY DEF ZoneInv, HeapChecks, Covered
<1>2. b \in 1..Units /\ size[b] \in 0..Units /\ scan.size \in Nat /\ scan.size > 0
  BY DEF ZoneInv, TypeOK, Scanning, Cap
<1>3. CASE ~IsFree(b)
  BY <1>1, <1>2, <1>3 DEF Held
<1>4. CASE IsFree(b)
  <2>1. size[b] < scan.size
    BY <1>2, <1>4 DEF Fits
  <2>2. next[b] = b + size[b] /\ next[b] # Cap
    BY <1>1, <1>2, <2>1 DEF ZoneInv, HeapChecks, Tiled, Touches, Cap
  <2>3. next[b] \in Held /\ next[b] \in 1..Units /\ size[next[b]] \in 0..Units
        /\ size[next[b]] > 0
    BY <1>4, <2>2 DEF ZoneInv, TypeOK, HeapChecks, Tiled, NoTwoFree, Held, Cap
  <2>. QED BY <1>1, <1>2, <2>1, <2>2, <2>3
<1>. QED BY <1>3, <1>4

\* What Found adds to the blocks that are held, and to the account.
LEMMA FoundHolds ==
  ASSUME ZoneInv, Found
  PROVE  /\ size'[NextBase] \in scan.size..(scan.size + MinFragment)
         /\ size'[NextBase] <= size[NextBase]
         /\ Held' = Held \cup {NextBase} /\ NextBase \notin Held
         /\ \A c \in Held : size'[c] = size[c]
         /\ used' = used + size'[NextBase]
<1> DEFINE b == NextBase
           k == size'[b]
<1>1. /\ scan.pc = "scan" /\ scan' = Idle
      /\ IF size[b] - scan.size > MinFragment THEN TakePart(b, b + scan.size)
                                              ELSE TakeWhole(b)
  BY DEF Found
<1>2. /\ scan.size \in Nat /\ scan.size > 0 /\ b \in Blocks \ {Cap} /\ IsFree(b)
      /\ b \in 1..Units /\ size[b] \in 0..Units /\ size[b] >= scan.size
      /\ Touches(b)
  BY Taken DEF ZoneInv, TypeOK
<1>3. /\ k \in scan.size..(scan.size + MinFragment) /\ k <= size[b]
      /\ Held' = Held \cup {b} /\ b \notin Held
      /\ \A c \in Held : size'[c] = size[c]
      /\ used' = used + k
  <2>1. CASE size[b] - scan.size > MinFragment
    <3>1. TakePart(b, b + scan.size)
      BY <1>1, <2>1
    <3>2. b + scan.size \notin Blocks /\ b + scan.size # b
      <4>1. \A c \in Blocks : c <= b \/ c >= b + size[b]
        BY <1>2 DEF ZoneInv, HeapChecks, Tiled
      <4>. QED BY <1>2, <2>1, <4>1
    <3>3. Blocks' = Blocks \cup {b + scan.size}
      BY <3>1 DEF TakePart, Blocks
    <3>4. /\ \A c \in Blocks' : tag'[c] = CASE c = b -> USED
                                            [] c = b + scan.size -> FREE
                                            [] OTHER -> tag[c]
          /\ \A c \in Blocks' : size'[c] = CASE c = b -> scan.size
                                             [] c = b + scan.size -> size[b] - scan.size
                                             [] OTHER -> size[c]
      BY <3>1, <3>3 DEF TakePart
    <3>5. k = scan.size /\ tag'[b] = USED /\ tag'[b + scan.size] = FREE
          /\ \A c \in Blocks \ {b} : tag'[c] = tag[c] /\ size'[c] = size[c]
      BY <1>2, <3>2, <3>3, <3>4
    <3>6. b + scan.size # Cap
      BY <1>2 DEF Cap
    <3>7. Held' = Held \cup {b} /\ b \notin Held
      <4>1. PICK p : p = b + scan.size
        OBVIOUS
      <4>2. /\ Blocks' = Blocks \cup {p} /\ p # Cap /\ p # b /\ tag'[p] = 0 /\ tag'[b] = 1
            /\ \A c \in Blocks \ {b} : tag'[c] = tag[c]
            /\ b \in Blocks /\ b # Cap /\ tag[b] = 0 /\ p \notin Blocks
        BY <1>2, <3>2, <3>3, <3>5, <3>6, <4>1 DEF IsFree, FREE, USED
      <4>3. \A c : c \in Held' <=> c \in Held \cup {b}
        BY <4>2 DEF Held, IsFree, FREE
      <4>4. b \notin Held
        BY <4>2 DEF Held, IsFree, FREE
      <4>. QED BY <4>3, <4>4
    <3>8. \A c \in Held : size'[c] = size[c]
      BY <3>5, <3>7 DEF Held
    <3>9. k \in scan.size..(scan.size + MinFragment) /\ k <= size[b]
      BY <1>2, <3>5
    <3>10. used' = used + k
      BY <3>1, <3>5 DEF TakePart
    <3>. QED BY <3>7, <3>8, <3>9, <3>10
  <2>2. CASE ~(size[b] - scan.size > MinFragment)
    <3>1. TakeWhole(b)
      BY <1>1, <2>2
    <3>2. size' = size /\ Blocks' = Blocks /\ tag' = [tag EXCEPT ![b] = USED]
      BY <3>1 DEF TakeWhole, Blocks
    <3>3. tag'[b] = USED /\ \A c \in Blocks \ {b} : tag'[c] = tag[c]
      BY <1>2, <3>2 DEF ZoneInv, TypeOK
    <3>4. k = size[b] /\ k \in scan.size..(scan.size + MinFragment)
      BY <1>2, <2>2, <3>2
    <3>5. used' = used + k
      BY <3>1, <3>4 DEF TakeWhole
    <3>. QED BY <1>2, <3>2, <3>3, <3>4, <3>5 DEF Held, IsFree, FREE, USED
  <2>. QED BY <2>1, <2>2
<1>. QED BY <1>3

LEMMA FoundGrants == ASSUME ZoneInv, Found PROVE Abstract!Grant
<1> DEFINE b == NextBase
           k == size'[b]
<1>1. /\ scan.pc = "scan" /\ scan' = Idle
      /\ IF size[b] - scan.size > MinFragment THEN TakePart(b, b + scan.size)
                                              ELSE TakeWhole(b)
  BY DEF Found
<1>2. /\ scan.size \in Nat /\ scan.size > 0 /\ b \in Blocks \ {Cap} /\ IsFree(b)
      /\ b \in 1..Units /\ size[b] \in 0..Units /\ size[b] >= scan.size
      /\ Touches(b)
  BY Taken DEF ZoneInv, TypeOK
<1>3. /\ k \in scan.size..(scan.size + MinFragment) /\ k <= size[b]
      /\ Held' = Held \cup {b} /\ b \notin Held
      /\ \A c \in Held : size'[c] = size[c]
  BY FoundHolds
<1>4. b + k - 1 \in 1..Units
  <2>1. b + size[b] <= Units + 1
    BY <1>2 DEF ZoneInv, TypeOK, Touches
  <2>. QED BY <1>2, <1>3, <2>1
<1> DEFINE r == [from |-> b, to |-> b + k - 1]
<1>5. Live' = Live \cup {r}
  BY <1>3 DEF Live, Stretch
<1>6. \A c \in Held : r.to < c \/ c + size[c] - 1 < r.from
  <2>1. SUFFICES ASSUME NEW c \in Held
                 PROVE  b + k - 1 < c \/ c + size[c] - 1 < b
    OBVIOUS
  <2>2. b + size[b] <= c \/ c + size[c] <= b
    BY <1>2, <1>3, <2>1, BlocksApart DEF Held
  <2>3. c \in Int /\ size[c] \in Int
    BY DEF Held, ZoneInv, TypeOK
  <2>. QED BY <1>2, <1>3, <2>2, <2>3
<1>7. \A s \in Live : r.to < s.from \/ s.to < r.from
  BY <1>6 DEF Live, Stretch
<1>8. r \in [from : 1..Units, to : 1..Units] /\ r.to = r.from + k - 1
  BY <1>2, <1>4
<1>. QED
  BY <1>1, <1>2, <1>3, <1>5, <1>7, <1>8
     DEF Abstract!Grant, Abstract!Room, Abstract!Apart, Live, Idle

LEMMA ExhaustedRefuses == ASSUME ZoneInv, Exhausted PROVE Abstract!Refuse
<1>1. /\ scan.pc = "scan" /\ scan.rover = scan.start /\ scan' = Fatal
      /\ UNCHANGED <<size, tag>>
  BY DEF Exhausted
<1>2. \A b \in Blocks : ~Fits(b)
  BY <1>1, ExhaustedIsFull DEF FatalOnlyWhenFull
<1>3. scan.size \in Nat /\ scan.size > 0
  BY <1>1 DEF ZoneInv, Scanning
<1>4. Live' = Live
  BY <1>1 DEF Live, Held, Stretch, Blocks, IsFree
<1>5. Abstract!Room(scan.size) = {}
  <2>1. SUFFICES ASSUME NEW r \in [from : 1..Units, to : 1..Units],
                        r.to = r.from + scan.size - 1,
                        \A s \in Live : r.to < s.from \/ s.to < r.from
                 PROVE  FALSE
    BY DEF Abstract!Room, Abstract!Apart, Live
  <2>2. PICK b \in Held : ~(r.to < b \/ b + size[b] - 1 < r.from)
    BY <1>1, <1>2, <2>1, NoRoom
  <2>3. Stretch(b) \in Live /\ Stretch(b).from = b /\ Stretch(b).to = b + size[b] - 1
    BY DEF Live, Stretch
  <2>. QED BY <2>1, <2>2, <2>3
<1>. QED BY <1>1, <1>3, <1>4, <1>5 DEF Abstract!Refuse, Live, Fatal, Idle

\* What Z_Free leaves held, as it was.
LEMMA FreeHolds ==
  ASSUME ZoneInv, NEW b \in Held, Z_Free(b)
  PROVE  Held' = Held \ {b} /\ \A c \in Held \ {b} : size'[c] = size[c]
<1> DEFINE m == MergedAt(b)
           left == Blocks \ Absorbed(b)
<1>1. /\ scan.pc = "idle" /\ scan' = scan
      /\ size' = [c \in left |-> IF c = m THEN MergedSize(b) ELSE size[c]]
      /\ tag' = [c \in left |-> IF c = m THEN FREE ELSE tag[c]]
  BY DEF Z_Free
<1>2. Blocks' = left /\ m \in left /\ Absorbed(b) \subseteq Blocks
      /\ (b = m \/ b \in Absorbed(b)) /\ \A c \in (Absorbed(b) \cup {m}) \ {b} : IsFree(c)
  <2>1. Blocks' = left
    BY <1>1 DEF Blocks
  <2>2. m \in left
    BY Merged
  <2>3. prev[b] \in Blocks /\ next[b] \in Blocks /\ b \in Blocks
    BY DEF Held, ZoneInv, TypeOK
  <2>4. Absorbed(b) \subseteq Blocks /\ (b = m \/ b \in Absorbed(b))
    BY <2>3 DEF MergedAt, Absorbed
  <2>5. \A c \in (Absorbed(b) \cup {m}) \ {b} : IsFree(c)
    BY DEF MergedAt, Absorbed
  <2>. QED BY <2>1, <2>2, <2>4, <2>5
<1>3. \A c \in left \ {m} : size'[c] = size[c] /\ tag'[c] = tag[c]
  BY <1>1
<1>4. tag'[m] = FREE
  BY <1>1, <1>2
<1>5. Held' = Held \ {b}
  BY <1>2, <1>3, <1>4 DEF Held, IsFree
<1>6. \A c \in Held \ {b} : size'[c] = size[c]
  BY <1>2, <1>3 DEF Held
<1>. QED BY <1>5, <1>6

LEMMA FreeReleases ==
  ASSUME ZoneInv, NEW b \in Held, Z_Free(b)
  PROVE  Abstract!Release(Stretch(b))
<1>1. scan.pc = "idle" /\ scan' = scan
  BY DEF Z_Free
<1>2. Held' = Held \ {b} /\ \A c \in Held \ {b} : size'[c] = size[c]
  BY FreeHolds
<1>3. \A c \in Held \ {b} : Stretch(c) # Stretch(b) /\ Stretch(c)' = Stretch(c)
  BY <1>2 DEF Stretch
<1>4. Live' = Live \ {Stretch(b)}
  BY <1>2, <1>3 DEF Live
<1>. QED BY <1>1, <1>4 DEF Abstract!Release, Live

\* The zone implements the allocator: what is handed out never overlaps, has the
\* length asked for, stays until it is given back, and a request is refused only
\* when no gap holds it.
THEOREM Implements == Spec => Abstract!Safe
<1>1. Init => Abstract!Init
  <2>1. SUFFICES ASSUME Init PROVE Held = {} /\ scan = Idle
    BY DEF Abstract!Init, Idle
  <2>2. Blocks = {0, 1} /\ tag[1] = FREE /\ scan = Idle
    BY <2>1 DEF Init, Blocks, Cap
  <2>. QED BY <2>2 DEF Held, IsFree, Cap
<1>2. ZoneInv /\ [Next]_vars => [Abstract!Next]_Abstract!vars
  <2> SUFFICES ASSUME ZoneInv, [Next]_vars PROVE [Abstract!Next]_Abstract!vars
    OBVIOUS
  <2>1. ASSUME NEW n \in Requests, Z_TagMalloc(n) PROVE Abstract!Ask(n)
    <3>1. /\ scan.pc = "idle" /\ scan'.pc = "scan" /\ scan'.size = n
          /\ UNCHANGED <<size, tag>>
      BY <2>1 DEF Z_TagMalloc
    <3>2. Live' = Live
      BY <3>1 DEF Live, Held, Stretch, Blocks, IsFree
    <3>. QED BY <3>1, <3>2 DEF Abstract!Ask, Live
  <2>2. ASSUME ScanOn PROVE UNCHANGED Abstract!vars
    <3>1. /\ scan.pc = "scan" /\ scan'.pc = "scan" /\ scan'.size = scan.size
          /\ UNCHANGED <<size, tag>>
      BY <2>2 DEF ScanOn, ZoneInv, TypeOK
    <3>2. Live' = Live
      BY <3>1 DEF Live, Held, Stretch, Blocks, IsFree
    <3>. QED BY <3>1, <3>2 DEF Abstract!vars, Live
  <2>3. ASSUME NEW b \in Held, Z_Free(b)
        PROVE  \E r \in Live : Abstract!Release(r)
    BY <2>3, FreeReleases DEF Live
  <2>4. ASSUME UNCHANGED vars PROVE UNCHANGED Abstract!vars
    BY <2>4 DEF vars, Abstract!vars, Held, Stretch, Blocks, IsFree
  <2>. QED BY <2>1, <2>2, <2>3, <2>4, FoundGrants, ExhaustedRefuses
           DEF Next, Abstract!Next, Live
<1>. QED BY <1>1, <1>2, ZoneInvariance, PTL DEF Spec, Abstract!Safe

--------------------------------------------------------------------------------
(* The account.                                                            *)

LEMMA HeldFinite == ASSUME ZoneInv PROVE IsFiniteSet(Held) /\ \A b \in Held : size[b] \in Int
<1>1. Held \in SUBSET (0..Units)
  BY DEF ZoneInv, TypeOK, Held
<1>2. ASSUME NEW b \in Held PROVE size[b] \in Int
  BY DEF ZoneInv, TypeOK, Held
<1>3. IsFiniteSet(0..Units)
  BY FS_Interval
<1>4. IsFiniteSet(Held)
  BY <1>1, <1>3, FS_Subset
<1>. QED BY <1>2, <1>4

Exact == used = SumOf(size, Held)

LEMMA AccountInit == ASSUME Init PROVE Exact
<1>1. Held = {} /\ used = 0
  BY DEF Init, Held, Blocks, IsFree, Cap, FREE
<1>. QED BY <1>1, SumOfNone DEF Exact

LEMMA AccountFound == ASSUME ZoneInv, ZoneInv', Exact, Found PROVE Exact'
<1> DEFINE b == NextBase
<1>1. /\ Held' = Held \cup {b} /\ b \notin Held /\ used' = used + size'[b]
      /\ \A c \in Held : size'[c] = size[c]
  BY FoundHolds
<1>2. IsFiniteSet(Held') /\ \A c \in Held' : size'[c] \in Int
  <2>1. IsFiniteSet(Held')
    BY <1>1, HeldFinite, FS_AddElement
  <2>2. \A c \in Held' : size'[c] \in Int
    BY DEF ZoneInv, TypeOK, Held
  <2>. QED BY <2>1, <2>2
<1>3. b \in Held' /\ Held' \ {b} = Held
  BY <1>1
<1> HIDE DEF b
<1>4. SumOf(size', Held') = size'[b] + SumOf(size, Held)
  BY <1>1, <1>2, <1>3, SumWithout
<1>5. used = SumOf(size, Held) /\ used \in Int /\ size'[b] \in Int
  BY <1>2, <1>3 DEF Exact, ZoneInv, TypeOK
<1>6. used' = SumOf(size', Held')
  BY <1>1, <1>4, <1>5
<1>. QED BY <1>6 DEF Exact

LEMMA AccountFree ==
  ASSUME ZoneInv, Exact, NEW b \in Held, Z_Free(b)
  PROVE  Exact'
<1>1. /\ Held' = Held \ {b} /\ used' = used - size[b]
      /\ \A c \in Held \ {b} : size'[c] = size[c]
  BY FreeHolds DEF Z_Free
<1>2. IsFiniteSet(Held) /\ \A c \in Held : size[c] \in Int
  BY HeldFinite
<1>3. /\ SumOf(size', Held \ {b}) \in Int
      /\ SumOf(size, Held) = size[b] + SumOf(size', Held \ {b})
  BY <1>1, <1>2, SumWithout
<1>4. used = SumOf(size, Held) /\ size[b] \in Int
  BY <1>2 DEF Exact
<1>5. used' = SumOf(size', Held')
  BY <1>1, <1>3, <1>4
<1>. QED BY <1>5 DEF Exact

LEMMA AccountStays ==
  ASSUME Exact, UNCHANGED <<size, tag, used>>
  PROVE  Exact'
<1>1. used = SumOf(size, Held)
  BY DEF Exact
<1>2. Held' = Held
  BY DEF Held, Blocks, IsFree
<1>3. used' = SumOf(size', Held')
  BY <1>1, <1>2
<1>. QED BY <1>3 DEF Exact

\* zone->used is what the held blocks take, in every reachable state: however
\* blocks are cut, merged and taken with their slack (Z_TagMalloc, Z_Free), the
\* account from which Z_AvailableMemory is computed is exact.
THEOREM AccountExact == Spec => []UsedIsHeld
<1>1. Exact /\ ZoneInv /\ [Next]_vars => Exact'
  <2> SUFFICES ASSUME Exact, ZoneInv, [Next]_vars PROVE Exact'
    OBVIOUS
  <2>1. ASSUME NEW n \in Requests, Z_TagMalloc(n) PROVE Exact'
    BY <2>1, AccountStays DEF Z_TagMalloc
  <2>2. CASE ScanOn
    BY <2>2, AccountStays DEF ScanOn
  <2>3. CASE Exhausted
    BY <2>3, AccountStays DEF Exhausted
  <2>4. CASE Found
    BY <2>4, ZoneNextInv, AccountFound
  <2>5. ASSUME NEW b \in Held, Z_Free(b) PROVE Exact'
    BY <2>5, AccountFree
  <2>6. CASE UNCHANGED vars
    BY <2>6, AccountStays DEF vars
  <2>. QED BY <2>1, <2>2, <2>3, <2>4, <2>5, <2>6 DEF Next
<1>2. Exact => UsedIsHeld
  BY DEF Exact, SumOf, UsedIsHeld
<1>. QED BY <1>1, <1>2, AccountInit, ZoneInvariance, PTL DEF Spec

--------------------------------------------------------------------------------
(* The hunk.                                                                *)

USE SizesAssumption DEF Banks

\* The banks: permanent memory begins at the mark or above, temporary memory above
\* the permanent, only the temporary bank has any, and the two do not meet.
BankInv ==
  /\ hunk \in [Banks -> [mark : 0..Total, permanent : 0..Total,
                         temp : 0..Total, tempHighwater : 0..Total]]
  /\ perm \in Banks
  /\ \A b \in Banks : hunk[b].mark <= hunk[b].permanent /\ hunk[b].permanent <= hunk[b].temp
  /\ ~InUse(perm)
  /\ hunk["low"].temp + hunk["high"].temp <= Total

\* r lies in the first units of the low bank or in those of the high one.
Below(r, low, high) == r.to <= low \/ Total - high <= r.from

\* r lies in bank b between two heights.
Within(r, b, bottom, top) ==
  IF b = "low" THEN bottom <= r.from /\ r.to <= top
               ELSE Total - top <= r.from /\ r.to <= Total - bottom

IsTemp(r) == r.by \in {"file", "scratch"}

\* What is held: no two overlap, permanent ones are below the permanent tops,
\* the server's below the marks once it runs, temporary ones in the temporary bank
\* above its permanent part.
HeldInv ==
  /\ \A r \in held : r \in [from : 0..Total, to : 0..Total, by : Owners] /\ r.from < r.to
  /\ NothingShared
  /\ \A r \in held : ~IsTemp(r) => Below(r, hunk["low"].permanent, hunk["high"].permanent)
  /\ \A r \in held : IsTemp(r) => Within(r, temp, hunk[temp].permanent, hunk[temp].temp)
  /\ server = "running" =>
       \A r \in held : r.by = "server" => Below(r, hunk["low"].mark, hunk["high"].mark)

\* The file system counts at least the files that are held.
CountInv ==
  /\ fs_loadStack \in Nat
  /\ IsFiniteSet(Files)
  /\ Cardinality(Files) <= fs_loadStack

RestInv == dedicated \in BOOLEAN /\ server \in {"none", "loading", "running"}

HunkInv == BankInv /\ HeldInv /\ CountInv /\ RestInv

LEMMA TempsAreTemps == ASSUME HeldInv PROVE Temps = {r \in held : IsTemp(r)}
BY DEF Temps, Files, Scratch, By, IsTemp

\* A bank that becomes permanent has no temporary memory, and none is held when
\* the banks change roles.
LEMMA SwapIsSafe ==
  ASSUME BankInv, HeldInv
  PROVE  /\ Swapped \in Banks /\ ~InUse(Swapped)
         /\ \A f \in Banks \cup {"dontcare"} : Chosen(f) \in Banks /\ ~InUse(Chosen(f))
         /\ (\E r \in held : IsTemp(r)) =>
              Swapped = perm /\ \A f \in Banks \cup {"dontcare"} : Chosen(f) = perm
<1>1. temp \in Banks /\ perm \in Banks /\ ~InUse(perm)
  BY DEF BankInv, temp, Other
<1>2. Swapped \in Banks /\ ~InUse(Swapped)
  BY <1>1 DEF Swapped
<1>3. \A f \in Banks \cup {"dontcare"} : Chosen(f) \in {Swapped, perm}
  BY DEF Chosen
<1>4. ASSUME NEW r \in held, IsTemp(r) PROVE Swapped = perm
  <2>1. /\ Within(r, temp, hunk[temp].permanent, hunk[temp].temp)
        /\ r.from < r.to /\ r.from \in Int /\ r.to \in Int
    BY <1>4 DEF HeldInv
  <2>2. hunk[temp].permanent \in Int /\ hunk[temp].temp \in Int
    BY <1>1 DEF BankInv
  <2>3. InUse(temp)
    BY <2>1, <2>2 DEF Within, InUse
  <2>. QED BY <2>3 DEF Swapped
<1>. QED BY <1>1, <1>2, <1>3, <1>4

\* Adding a stretch that overlaps nothing held.
LEMMA AddApart ==
  ASSUME NothingShared, NEW r, held' = held \cup {r},
         \A s \in held : r.to <= s.from \/ s.to <= r.from
  PROVE  NothingShared'
BY DEF NothingShared

LEMMA HunkInitInv == HunkInit => HunkInv
<1> SUFFICES ASSUME HunkInit PROVE HunkInv
  OBVIOUS
<1>1. BankInv
  BY DEF HunkInit, BankInv, EmptyBank, InUse
<1>2. HeldInv
  BY DEF HunkInit, HeldInv, NothingShared
<1>3. Files = {}
  BY DEF HunkInit, Files, By
<1>4. CountInv
  BY <1>3, FS_EmptySet DEF HunkInit, CountInv
<1>. QED BY <1>1, <1>2, <1>4 DEF HunkInv, RestInv, HunkInit

LEMMA AllocInv ==
  ASSUME HunkInv, NEW n \in PermSizes, NEW f \in Banks \cup {"dontcare"},
         NEW who \in {"server", "client"}, Hunk_Alloc(n, f, who), UNCHANGED dedicated,
         who = "server" => server = "loading"
  PROVE  HunkInv'
<1> DEFINE p == Chosen(f)
           height == hunk[p].permanent
           r == Piece(p, height, n, who)
<1>1. p \in Banks /\ ~InUse(p) /\ ((\E s \in held : IsTemp(s)) => p = perm)
  BY SwapIsSafe DEF HunkInv
<1>2. /\ Hunk_AllocFits(n) /\ perm' = p /\ held' = held \cup {r}
      /\ hunk' = [hunk EXCEPT ![p].permanent = height + n, ![p].temp = height + n]
      /\ UNCHANGED <<fs_loadStack, server>>
  BY DEF Hunk_Alloc
<1>3. /\ n \in Nat /\ n > 0 /\ height \in 0..Total /\ hunk[p].temp = height
      /\ \A b \in Banks : /\ hunk[b].mark \in 0..Total /\ hunk[b].permanent \in 0..Total
                          /\ hunk[b].temp \in 0..Total
                          /\ hunk[b].mark <= hunk[b].permanent
                          /\ hunk[b].permanent <= hunk[b].temp
      /\ hunk["low"].temp + hunk["high"].temp + n <= Total
  BY <1>1, <1>2 DEF HunkInv, BankInv, InUse, Hunk_AllocFits
<1>4. /\ hunk'[p].permanent = height + n /\ hunk'[p].temp = height + n
      /\ hunk'[p].mark = hunk[p].mark
      /\ hunk'[Other(p)] = hunk[Other(p)] /\ Other(p) \in Banks /\ Other(p) # p
      /\ \A b \in Banks : b = p \/ b = Other(p)
  BY <1>1, <1>2 DEF HunkInv, BankInv, Other
<1>5. height + n \in 0..Total
  BY <1>1, <1>3
<1>6. BankInv'
  <2>1. (hunk \in [Banks -> [mark : 0..Total, permanent : 0..Total,
                             temp : 0..Total, tempHighwater : 0..Total]])'
    BY <1>1, <1>2, <1>5 DEF HunkInv, BankInv
  <2>2. (~InUse(perm))'
    BY <1>2, <1>4 DEF InUse
  <2>3. (\A b \in Banks : hunk[b].mark <= hunk[b].permanent /\ hunk[b].permanent <= hunk[b].temp)'
    BY <1>3, <1>4
  <2>4. (hunk["low"].temp + hunk["high"].temp <= Total)'
    BY <1>1, <1>3, <1>4 DEF Other
  <2>. QED BY <1>1, <1>2, <2>1, <2>2, <2>3, <2>4 DEF BankInv
<1>7. /\ r \in [from : 0..Total, to : 0..Total, by : Owners] /\ r.from < r.to /\ r.by = who
      /\ IF p = "low" THEN r.from = height /\ r.to = height + n
                      ELSE r.from = Total - height - n /\ r.to = Total - height
  BY <1>3, <1>5 DEF Piece, Owners
<1>8. ASSUME NEW s \in held PROVE r.to <= s.from \/ s.to <= r.from
  <2>1. s.from \in 0..Total /\ s.to \in 0..Total /\ s.from < s.to
    BY DEF HunkInv, HeldInv
  <2>2. CASE ~IsTemp(s)
    <3>1. Below(s, hunk["low"].permanent, hunk["high"].permanent)
      BY <2>2 DEF HunkInv, HeldInv
    <3>. QED BY <1>1, <1>3, <1>7, <2>1, <3>1 DEF Below
  <2>3. CASE IsTemp(s)
    <3>1. Within(s, temp, hunk[temp].permanent, hunk[temp].temp) /\ p = perm
      BY <1>1, <2>3 DEF HunkInv, HeldInv
    <3>. QED BY <1>1, <1>3, <1>7, <2>1, <3>1 DEF Within, temp, Other
  <2>. QED BY <2>2, <2>3
<1>9. NothingShared'
  BY <1>2, <1>8, AddApart DEF HunkInv, HeldInv
<1>10. (\A s \in held : ~IsTemp(s) => Below(s, hunk["low"].permanent, hunk["high"].permanent))'
  <2>1. ASSUME NEW s \in held', ~IsTemp(s)
        PROVE  Below(s, hunk'["low"].permanent, hunk'["high"].permanent)
    <3>1. CASE s = r
      BY <3>1, <1>1, <1>3, <1>4, <1>7 DEF Below
    <3>2. CASE s \in held
      <4>1. Below(s, hunk["low"].permanent, hunk["high"].permanent)
            /\ s.from \in 0..Total /\ s.to \in 0..Total
        BY <2>1, <3>2 DEF HunkInv, HeldInv
      <4>. QED BY <4>1, <1>1, <1>3, <1>4 DEF Below, Other
    <3>. QED BY <1>2, <2>1, <3>1, <3>2
  <2>. QED BY <2>1
<1>11. (\A s \in held : IsTemp(s) => Within(s, temp, hunk[temp].permanent, hunk[temp].temp))'
  <2>1. ASSUME NEW s \in held', IsTemp(s) PROVE s \in held /\ p = perm /\ temp' = temp
    BY <2>1, <1>1, <1>2, <1>7 DEF IsTemp, temp
  <2>2. ASSUME NEW s \in held', IsTemp(s)
        PROVE  Within(s, temp', hunk'[temp'].permanent, hunk'[temp'].temp)
    <3>1. Within(s, temp, hunk[temp].permanent, hunk[temp].temp) /\ temp = Other(p)
      BY <2>1, <2>2 DEF HunkInv, HeldInv, temp
    <3>. QED BY <2>1, <2>2, <3>1, <1>4
  <2>. QED BY <2>2
<1>12. (server = "running" =>
          \A s \in held : s.by = "server" => Below(s, hunk["low"].mark, hunk["high"].mark))'
  <2>1. hunk'["low"].mark = hunk["low"].mark /\ hunk'["high"].mark = hunk["high"].mark
    BY <1>1, <1>4 DEF Other
  <2>2. server' = "running" => r.by # "server"
    BY <1>2, <1>7
  <2>. QED BY <1>2, <2>1, <2>2 DEF HunkInv, HeldInv
<1>13. (\A s \in held : s \in [from : 0..Total, to : 0..Total, by : Owners] /\ s.from < s.to)'
  BY <1>2, <1>7 DEF HunkInv, HeldInv
<1>14. HeldInv'
  BY <1>9, <1>10, <1>11, <1>12, <1>13 DEF HeldInv
<1>15. Files' = Files
  BY <1>2, <1>7 DEF Files, By
<1>. QED BY <1>2, <1>6, <1>14, <1>15 DEF HunkInv, CountInv, RestInv

\* A temporary allocation, whoever asks, and whatever is counted.
LEMMA TempInv ==
  ASSUME HunkInv, NEW n \in TempSizes, NEW who \in {"file", "scratch"},
         Hunk_AllocateTempMemory(n, who), UNCHANGED server
  PROVE  BankInv' /\ HeldInv'
         /\ \E r : r.by = who /\ r \notin held /\ held' = held \cup {r}
<1> DEFINE p == Swapped
           t == Other(p)
           height == hunk[t].temp
           r == Piece(t, height, n, who)
<1>1. /\ p \in Banks /\ t \in Banks /\ t # p /\ ~InUse(p)
      /\ ((\E s \in held : IsTemp(s)) => p = perm)
      /\ \A b \in Banks : b = p \/ b = t
  BY SwapIsSafe DEF HunkInv, Other
<1>2. /\ TempFits(n) /\ perm' = p /\ held' = held \cup {r}
      /\ hunk' = [hunk EXCEPT ![t].temp = height + n,
                    ![t].tempHighwater = IF height + n > @ THEN height + n ELSE @]
  BY DEF Hunk_AllocateTempMemory
<1>3. /\ n \in Nat /\ n > 0
      /\ \A b \in Banks : /\ hunk[b].mark \in 0..Total /\ hunk[b].permanent \in 0..Total
                          /\ hunk[b].temp \in 0..Total
                          /\ hunk[b].mark <= hunk[b].permanent
                          /\ hunk[b].permanent <= hunk[b].temp
      /\ hunk[p].temp = hunk[p].permanent
      /\ height + hunk[p].permanent + n <= Total
  BY <1>1, <1>2 DEF HunkInv, BankInv, InUse, TempFits
<1>4. /\ hunk'[t].permanent = hunk[t].permanent /\ hunk'[t].temp = height + n
      /\ hunk'[t].mark = hunk[t].mark /\ hunk'[p] = hunk[p]
  BY <1>1, <1>2 DEF HunkInv, BankInv
<1>5. height + n \in 0..Total
  BY <1>1, <1>3
<1>6. BankInv'
  <2>1. (hunk \in [Banks -> [mark : 0..Total, permanent : 0..Total,
                             temp : 0..Total, tempHighwater : 0..Total]])'
    BY <1>1, <1>2, <1>5 DEF HunkInv, BankInv
  <2>2. (~InUse(perm))'
    BY <1>1, <1>2, <1>4 DEF InUse
  <2>3. (\A b \in Banks : hunk[b].mark <= hunk[b].permanent /\ hunk[b].permanent <= hunk[b].temp)'
    BY <1>1, <1>3, <1>4
  <2>4. (hunk["low"].temp + hunk["high"].temp <= Total)'
    BY <1>1, <1>3, <1>4
  <2>. QED BY <1>1, <1>2, <2>1, <2>2, <2>3, <2>4 DEF BankInv
<1>7. /\ r \in [from : 0..Total, to : 0..Total, by : Owners] /\ r.from < r.to /\ r.by = who
      /\ IF t = "low" THEN r.from = height /\ r.to = height + n
                      ELSE r.from = Total - height - n /\ r.to = Total - height
  BY <1>1, <1>3, <1>5 DEF Piece, Owners
<1>8. ASSUME NEW s \in held PROVE r.to <= s.from \/ s.to <= r.from
  <2>1. s.from \in 0..Total /\ s.to \in 0..Total /\ s.from < s.to
    BY DEF HunkInv, HeldInv
  <2>2. CASE ~IsTemp(s)
    <3>1. Below(s, hunk["low"].permanent, hunk["high"].permanent)
      BY <2>2 DEF HunkInv, HeldInv
    <3>. QED BY <1>1, <1>3, <1>7, <2>1, <3>1 DEF Below
  <2>3. CASE IsTemp(s)
    <3>1. Within(s, t, hunk[t].permanent, hunk[t].temp)
      BY <1>1, <2>3 DEF HunkInv, HeldInv, temp
    <3>. QED BY <1>1, <1>3, <1>7, <2>1, <3>1 DEF Within
  <2>. QED BY <2>2, <2>3
<1>9. NothingShared'
  BY <1>2, <1>8, AddApart DEF HunkInv, HeldInv
<1>10. hunk'["low"].permanent = hunk["low"].permanent /\ hunk'["low"].mark = hunk["low"].mark
       /\ hunk'["high"].permanent = hunk["high"].permanent /\ hunk'["high"].mark = hunk["high"].mark
  BY <1>1, <1>4
<1>11. (\A s \in held : ~IsTemp(s) => Below(s, hunk["low"].permanent, hunk["high"].permanent))'
  <2>1. IsTemp(r)
    BY <1>7 DEF IsTemp
  <2>. QED BY <1>2, <1>10, <2>1 DEF HunkInv, HeldInv
<1>12. (\A s \in held : IsTemp(s) => Within(s, temp, hunk[temp].permanent, hunk[temp].temp))'
  <2>1. temp' = t
    BY <1>2 DEF temp
  <2>2. ASSUME NEW s \in held', IsTemp(s)
        PROVE  Within(s, t, hunk'[t].permanent, hunk'[t].temp)
    <3>1. CASE s = r
      BY <3>1, <1>1, <1>3, <1>4, <1>7 DEF Within
    <3>2. CASE s \in held
      <4>1. Within(s, t, hunk[t].permanent, hunk[t].temp) /\ s.from \in 0..Total /\ s.to \in 0..Total
        BY <1>1, <2>2, <3>2 DEF HunkInv, HeldInv, temp
      <4>. QED BY <4>1, <1>1, <1>3, <1>4 DEF Within
    <3>. QED BY <1>2, <2>2, <3>1, <3>2
  <2>. QED BY <2>1, <2>2
<1>13. (server = "running" =>
          \A s \in held : s.by = "server" => Below(s, hunk["low"].mark, hunk["high"].mark))'
  BY <1>2, <1>7, <1>10 DEF HunkInv, HeldInv
<1>14. (\A s \in held : s \in [from : 0..Total, to : 0..Total, by : Owners] /\ s.from < s.to)'
  BY <1>2, <1>7 DEF HunkInv, HeldInv
<1>15. HeldInv'
  BY <1>9, <1>11, <1>12, <1>13, <1>14 DEF HeldInv
<1>16. r \notin held
  <2>1. SUFFICES ASSUME r \in held PROVE FALSE
    OBVIOUS
  <2>2. r.to <= r.from
    BY <1>8, <2>1
  <2>. QED BY <1>7, <2>2
<1>. QED BY <1>2, <1>6, <1>7, <1>15, <1>16

LEMMA ReadInv ==
  ASSUME HunkInv, NEW n \in TempSizes, FS_ReadFile(n), UNCHANGED dedicated
  PROVE  HunkInv'
<1>1. Hunk_AllocateTempMemory(n, "file") /\ fs_loadStack' = fs_loadStack + 1 /\ server' = server
  BY DEF FS_ReadFile
<1>2. BankInv' /\ HeldInv' /\ \E r : r.by = "file" /\ r \notin held /\ held' = held \cup {r}
  BY <1>1, TempInv
<1>3. PICK r : r.by = "file" /\ r \notin held /\ held' = held \cup {r}
  BY <1>2
<1>4. Files' = Files \cup {r} /\ r \notin Files
  BY <1>3 DEF Files, By
<1>5. IsFiniteSet(Files') /\ Cardinality(Files') = Cardinality(Files) + 1
  BY <1>4, FS_AddElement DEF HunkInv, CountInv
<1>6. CountInv'
  BY <1>1, <1>5, FS_CardinalityType DEF HunkInv, CountInv
<1>. QED BY <1>1, <1>2, <1>6 DEF HunkInv, RestInv

LEMMA ScratchInv ==
  ASSUME HunkInv, NEW n \in TempSizes, AllocScratch(n), UNCHANGED dedicated
  PROVE  HunkInv'
<1>1. Hunk_AllocateTempMemory(n, "scratch") /\ UNCHANGED <<fs_loadStack, server>>
  BY DEF AllocScratch
<1>2. BankInv' /\ HeldInv' /\ \E r : r.by = "scratch" /\ r \notin held /\ held' = held \cup {r}
  BY <1>1, TempInv
<1>3. Files' = Files
  BY <1>2 DEF Files, By
<1>. QED BY <1>1, <1>2, <1>3 DEF HunkInv, CountInv, RestInv

\* Giving back r: what else is temporary stays within the temporary bank.
LEMMA GiveBack ==
  ASSUME HunkInv, NEW r \in Temps, NEW top,
         hunk' = [hunk EXCEPT ![temp].temp = top], held' = held \ {r},
         UNCHANGED <<perm, server>>,
         top = AfterFree(r) \/ (top = hunk[temp].permanent /\ Temps = {r})
  PROVE  BankInv' /\ HeldInv'
<1> DEFINE t == temp
<1>1. /\ t \in Banks /\ perm \in Banks /\ t # perm /\ \A b \in Banks : b = t \/ b = perm
      /\ temp' = temp
  BY DEF HunkInv, BankInv, temp, Other
<1>2. r \in held /\ IsTemp(r) /\ Temps = {s \in held : IsTemp(s)}
  BY TempsAreTemps DEF HunkInv
<1>3. \A s \in held : /\ s \in [from : 0..Total, to : 0..Total, by : Owners] /\ s.from < s.to
                      /\ IsTemp(s) => Within(s, t, hunk[t].permanent, hunk[t].temp)
                      /\ s = r \/ s.to <= r.from \/ r.to <= s.from
  BY <1>2 DEF HunkInv, HeldInv, NothingShared
<1>4. /\ \A b \in Banks : /\ hunk[b].mark \in 0..Total /\ hunk[b].permanent \in 0..Total
                          /\ hunk[b].temp \in 0..Total
                          /\ hunk[b].mark <= hunk[b].permanent
                          /\ hunk[b].permanent <= hunk[b].temp
      /\ hunk["low"].temp + hunk["high"].temp <= Total
  BY DEF HunkInv, BankInv
<1>5. r.from \in 0..Total /\ r.to \in 0..Total /\ r.from < r.to
      /\ Within(r, t, hunk[t].permanent, hunk[t].temp)
  BY <1>2, <1>3
<1>6. \/ top = hunk[t].temp
      \/ /\ top = hunk[t].temp - (r.to - r.from)
         /\ IF t = "low" THEN r.to = hunk[t].temp ELSE r.from = Total - hunk[t].temp
      \/ top = hunk[t].permanent /\ Temps = {r}
  <2>1. CASE top = AfterFree(r) /\ top # hunk[t].temp
    <3>1. /\ r = Piece(t, hunk[t].temp - (r.to - r.from), r.to - r.from, r.by)
          /\ top = hunk[t].temp - (r.to - r.from)
      BY <2>1 DEF AfterFree
    <3>2. CASE t = "low"
      <4>1. r.to = hunk[t].temp - (r.to - r.from) + (r.to - r.from)
        BY <3>1, <3>2 DEF Piece
      <4>. QED BY <1>1, <1>4, <1>5, <3>1, <3>2, <4>1
    <3>3. CASE t # "low"
      <4>1. r.from = Total - (hunk[t].temp - (r.to - r.from)) - (r.to - r.from)
        BY <3>1, <3>3 DEF Piece
      <4>. QED BY <1>1, <1>4, <1>5, <3>1, <3>3, <4>1
    <3>. QED BY <3>2, <3>3
  <2>. QED BY <2>1
<1>7. top \in 0..Total /\ hunk[t].permanent <= top /\ top <= hunk[t].temp
  BY <1>1, <1>4, <1>5, <1>6 DEF Within
<1>8. /\ hunk'[t].permanent = hunk[t].permanent /\ hunk'[t].temp = top
      /\ hunk'[t].mark = hunk[t].mark /\ hunk'[perm] = hunk[perm]
  BY <1>1 DEF HunkInv, BankInv
<1>9. BankInv'
  <2>1. (hunk \in [Banks -> [mark : 0..Total, permanent : 0..Total,
                             temp : 0..Total, tempHighwater : 0..Total]])'
    BY <1>1, <1>7 DEF HunkInv, BankInv
  <2>2. (~InUse(perm))'
    BY <1>8 DEF InUse, HunkInv, BankInv
  <2>3. (\A b \in Banks : hunk[b].mark <= hunk[b].permanent /\ hunk[b].permanent <= hunk[b].temp)'
    BY <1>1, <1>4, <1>7, <1>8
  <2>4. (hunk["low"].temp + hunk["high"].temp <= Total)'
    BY <1>1, <1>4, <1>7, <1>8
  <2>. QED BY <1>1, <2>1, <2>2, <2>3, <2>4 DEF BankInv
<1>10. hunk'["low"].permanent = hunk["low"].permanent /\ hunk'["low"].mark = hunk["low"].mark
       /\ hunk'["high"].permanent = hunk["high"].permanent /\ hunk'["high"].mark = hunk["high"].mark
  BY <1>1, <1>8
<1>11. ASSUME NEW s \in held', IsTemp(s)
       PROVE  Within(s, t, hunk'[t].permanent, hunk'[t].temp)
  <2>1. /\ s \in held /\ s # r /\ s.from \in 0..Total /\ s.to \in 0..Total /\ s.from < s.to
        /\ Within(s, t, hunk[t].permanent, hunk[t].temp)
        /\ s.to <= r.from \/ r.to <= s.from
    BY <1>3, <1>11
  <2>2. Temps # {r}
    BY <1>2, <1>11, <2>1
  <2>. QED BY <1>1, <1>4, <1>5, <1>6, <1>8, <2>1, <2>2 DEF Within
<1>12. HeldInv'
  <2>1. NothingShared'
    BY DEF HunkInv, HeldInv, NothingShared
  <2>2. (\A s \in held : ~IsTemp(s) => Below(s, hunk["low"].permanent, hunk["high"].permanent))'
    BY <1>10 DEF HunkInv, HeldInv
  <2>3. (\A s \in held : IsTemp(s) => Within(s, temp, hunk[temp].permanent, hunk[temp].temp))'
    BY <1>1, <1>11
  <2>4. (server = "running" =>
           \A s \in held : s.by = "server" => Below(s, hunk["low"].mark, hunk["high"].mark))'
    BY <1>10 DEF HunkInv, HeldInv
  <2>5. (\A s \in held : s \in [from : 0..Total, to : 0..Total, by : Owners] /\ s.from < s.to)'
    BY <1>3
  <2>. QED BY <2>1, <2>2, <2>3, <2>4, <2>5 DEF HeldInv
<1>. QED BY <1>9, <1>12

\* When the count reaches nothing no other file can be in use.
LEMMA FreeFileInv ==
  ASSUME HunkInv, NEW r \in Files, FS_FreeFile(r), UNCHANGED dedicated
  PROVE  HunkInv'
<1> DEFINE top == IF fs_loadStack' = 0 THEN hunk[temp].permanent ELSE AfterFree(r)
<1>1. /\ Scratch = {} /\ fs_loadStack' = fs_loadStack - 1 /\ held' = held \ {r}
      /\ hunk' = [hunk EXCEPT ![temp].temp = top] /\ UNCHANGED <<perm, server>>
  BY DEF FS_FreeFile
<1>2. /\ fs_loadStack \in Nat /\ IsFiniteSet(Files) /\ Cardinality(Files) \in Nat
      /\ Cardinality(Files) <= fs_loadStack
  BY FS_CardinalityType DEF HunkInv, CountInv
<1>3. IsFiniteSet(Files \ {r}) /\ Cardinality(Files \ {r}) = Cardinality(Files) - 1
  BY <1>2, FS_RemoveElement
<1>4. Cardinality(Files \ {r}) \in Nat
  BY <1>3, FS_CardinalityType
<1>5. Files' = Files \ {r}
  BY <1>1 DEF Files, By
<1>6. CountInv'
  BY <1>1, <1>2, <1>3, <1>4, <1>5 DEF CountInv
<1>7. r \in Temps /\ Temps = Files
  BY <1>1 DEF Temps
<1>8. fs_loadStack' = 0 => Temps = {r}
  <2>1. SUFFICES ASSUME fs_loadStack' = 0 PROVE Files \ {r} = {}
    BY <1>7
  <2>2. Cardinality(Files \ {r}) = 0
    BY <1>1, <1>2, <1>3, <1>4, <2>1
  <2>. QED BY <1>3, <2>2, FS_EmptySet
<1>9. BankInv' /\ HeldInv'
  <2>1. top = AfterFree(r) \/ (top = hunk[temp].permanent /\ Temps = {r})
    BY <1>8
  <2>. QED BY <1>1, <1>7, <2>1, GiveBack
<1>. QED BY <1>1, <1>6, <1>9 DEF HunkInv, RestInv

LEMMA FreeScratchInv ==
  ASSUME HunkInv, NEW r \in Scratch, FreeScratch(r), UNCHANGED dedicated
  PROVE  HunkInv'
<1>1. /\ hunk' = [hunk EXCEPT ![temp].temp = AfterFree(r)] /\ held' = held \ {r}
      /\ UNCHANGED <<perm, fs_loadStack, server>>
  BY DEF FreeScratch
<1>2. r \in Temps
  BY DEF Temps
<1>3. BankInv' /\ HeldInv'
  BY <1>1, <1>2, GiveBack
<1>4. Files' = Files
  BY <1>1 DEF Files, Scratch, By
<1>. QED BY <1>1, <1>3, <1>4 DEF HunkInv, CountInv, RestInv

\* The server has allocated below the permanent tops, that become the marks.
LEMMA SetMarkInv ==
  ASSUME HunkInv, Hunk_SetMark, UNCHANGED dedicated
  PROVE  HunkInv'
<1>1. /\ hunk' = [b \in Banks |-> [hunk[b] EXCEPT !.mark = hunk[b].permanent]]
      /\ server' = "running" /\ UNCHANGED <<perm, fs_loadStack, held>>
  BY DEF Hunk_SetMark
<1>2. \A b \in Banks : /\ hunk'[b].mark = hunk[b].permanent
                       /\ hunk'[b].permanent = hunk[b].permanent /\ hunk'[b].temp = hunk[b].temp
  BY <1>1 DEF HunkInv, BankInv
<1>3. BankInv'
  <2>1. (hunk \in [Banks -> [mark : 0..Total, permanent : 0..Total,
                             temp : 0..Total, tempHighwater : 0..Total]])'
    BY <1>1 DEF HunkInv, BankInv
  <2>. QED BY <1>1, <1>2, <2>1 DEF HunkInv, BankInv, InUse
<1>4. temp' = temp /\ temp \in Banks /\ Files' = Files
  BY <1>1 DEF HunkInv, BankInv, temp, Other, Files, By
<1>5. HeldInv'
  <2>1. (\A s \in held : ~IsTemp(s) => Below(s, hunk["low"].permanent, hunk["high"].permanent))'
    BY <1>1, <1>2 DEF HunkInv, HeldInv
  <2>2. (\A s \in held : IsTemp(s) => Within(s, temp, hunk[temp].permanent, hunk[temp].temp))'
    BY <1>1, <1>2, <1>4 DEF HunkInv, HeldInv
  <2>3. (\A s \in held : s.by = "server" => Below(s, hunk["low"].mark, hunk["high"].mark))'
    BY <1>1, <1>2 DEF HunkInv, HeldInv, IsTemp
  <2>. QED BY <1>1, <2>1, <2>2, <2>3 DEF HunkInv, HeldInv, NothingShared
<1>. QED BY <1>1, <1>3, <1>4, <1>5 DEF HunkInv, CountInv, RestInv

\* Nobody's but the server's memory is left, and that is below the marks.
LEMMA ClearToMarkInv ==
  ASSUME HunkInv, Hunk_ClearToMark, UNCHANGED dedicated
  PROVE  HunkInv'
<1>1. /\ server = "running" /\ Temps = {} /\ held' = By("server")
      /\ hunk' = [b \in Banks |->
                    [hunk[b] EXCEPT !.permanent = hunk[b].mark, !.temp = hunk[b].mark]]
      /\ UNCHANGED <<perm, fs_loadStack, server>>
  BY DEF Hunk_ClearToMark
<1>2. \A b \in Banks : /\ hunk'[b].mark = hunk[b].mark /\ hunk[b].mark \in 0..Total
                       /\ hunk'[b].permanent = hunk[b].mark /\ hunk'[b].temp = hunk[b].mark
                       /\ hunk[b].temp \in 0..Total /\ hunk[b].permanent \in 0..Total
                       /\ hunk[b].mark <= hunk[b].permanent
                       /\ hunk[b].permanent <= hunk[b].temp
  BY <1>1 DEF HunkInv, BankInv
<1>3. BankInv'
  <2> DEFINE Bank == [mark : 0..Total, permanent : 0..Total,
                      temp : 0..Total, tempHighwater : 0..Total]
             cleared(b) == [hunk[b] EXCEPT !.permanent = hunk[b].mark, !.temp = hunk[b].mark]
  <2>1. (hunk \in [Banks -> Bank])'
    <3>1. \A b \in Banks : hunk[b] \in Bank
      BY DEF HunkInv, BankInv
    <3>2. ASSUME NEW b \in Banks PROVE cleared(b) \in Bank
      <4>1. hunk[b] \in Bank
        BY <3>1
      <4>. QED BY <4>1
    <3>3. hunk' = [b \in Banks |-> cleared(b)]
      BY <1>1
    <3> HIDE DEF Bank, cleared
    <3>4. \A b \in Banks : cleared(b) \in Bank
      BY <3>2
    <3>. QED BY <3>3, <3>4
  <2>2. (hunk["low"].temp + hunk["high"].temp <= Total)'
    BY <1>2 DEF HunkInv, BankInv
  <2>3. perm' \in Banks
    BY <1>1 DEF HunkInv, BankInv
  <2>4. (~InUse(perm))'
    BY <1>2, <2>3 DEF InUse
  <2>5. (\A b \in Banks : hunk[b].mark <= hunk[b].permanent /\ hunk[b].permanent <= hunk[b].temp)'
    BY <1>2
  <2>. QED BY <2>1, <2>2, <2>3, <2>4, <2>5 DEF BankInv
<1>4. \A s \in held' : s \in held /\ s.by = "server" /\ ~IsTemp(s)
  BY <1>1 DEF By, IsTemp
<1>5. Files' = {} /\ Files = {}
  BY <1>1, <1>4 DEF Files, By, Temps
<1>6. HeldInv'
  <2>1. \A s \in held' : Below(s, hunk["low"].mark, hunk["high"].mark)
    BY <1>1, <1>4 DEF HunkInv, HeldInv
  <2>2. (\A s \in held : ~IsTemp(s) => Below(s, hunk["low"].permanent, hunk["high"].permanent))'
    BY <1>2, <2>1
  <2>3. (\A s \in held : s.by = "server" => Below(s, hunk["low"].mark, hunk["high"].mark))'
    BY <1>2, <2>1
  <2>. QED BY <1>4, <2>2, <2>3 DEF HunkInv, HeldInv, NothingShared
<1>. QED BY <1>1, <1>3, <1>5, <1>6 DEF HunkInv, CountInv, RestInv

\* Nothing is held any more; the banks are empty or as they were.
LEMMA EmptiedInv ==
  ASSUME HunkInv, held' = {}, fs_loadStack' \in Nat, BankInv', RestInv'
  PROVE  HunkInv'
<1>1. Files' = {}
  BY DEF Files, By
<1>2. CountInv'
  BY <1>1, FS_EmptySet DEF CountInv
<1>3. HeldInv'
  BY DEF HeldInv, NothingShared
<1>. QED BY <1>2, <1>3 DEF HunkInv

LEMMA EmptyBanks ==
  ASSUME hunk' = [b \in Banks |-> EmptyBank], perm' = "low"
  PROVE  BankInv'
BY DEF BankInv, EmptyBank, InUse

LEMMA ClearInv ==
  ASSUME HunkInv, SpawnServer \/ ClientRestart, UNCHANGED dedicated
  PROVE  HunkInv'
<1>1. /\ hunk' = [b \in Banks |-> EmptyBank] /\ perm' = "low" /\ held' = {}
      /\ fs_loadStack' = fs_loadStack /\ server' \in {"loading", server}
  BY DEF SpawnServer, ClientRestart, Hunk_Clear
<1>2. BankInv'
  BY <1>1, EmptyBanks
<1>3. fs_loadStack' \in Nat /\ RestInv'
  BY <1>1 DEF HunkInv, CountInv, RestInv
<1>. QED BY <1>1, <1>2, <1>3, EmptiedInv

\* An error: a dedicated server keeps its banks, p permanent.
LEMMA DroppedInv ==
  ASSUME HunkInv, NEW p \in Banks, ~InUse(p), Dropped(p), fs_loadStack' \in Nat, UNCHANGED dedicated
  PROVE  HunkInv'
<1>1. BankInv'
  <2>1. CASE dedicated
    <3>1. hunk' = hunk /\ perm' = p
      BY <2>1 DEF Dropped
    <3>. QED BY <3>1 DEF HunkInv, BankInv, InUse
  <2>2. CASE ~dedicated
    BY <2>2, EmptyBanks DEF Dropped
  <2>. QED BY <2>1, <2>2
<1>2. held' = {} /\ RestInv'
  BY DEF Dropped, HunkInv, RestInv
<1>. QED BY <1>1, <1>2, EmptiedInv

LEMMA ErrorInv ==
  ASSUME HunkInv, UNCHANGED dedicated,
         \/ ErrorDrop
         \/ \E n \in PermSizes, f \in Banks \cup {"dontcare"} : AllocateFails(n, f)
         \/ \E n \in TempSizes : FS_ReadFileFails(n)
  PROVE  HunkInv'
<1>1. fs_loadStack' \in Nat
  BY DEF ErrorDrop, AllocateFails, FS_ReadFileFails, HunkInv, CountInv
<1>2. \E p \in Banks : ~InUse(p) /\ Dropped(p)
  <2>1. CASE ErrorDrop
    BY <2>1 DEF ErrorDrop, HunkInv, BankInv
  <2>2. ASSUME NEW n \in PermSizes, NEW f \in Banks \cup {"dontcare"}, AllocateFails(n, f)
        PROVE  \E p \in Banks : ~InUse(p) /\ Dropped(p)
    <3>1. Chosen(f) \in Banks /\ ~InUse(Chosen(f))
      BY SwapIsSafe DEF HunkInv
    <3>2. Dropped(Chosen(f))
      BY <2>2 DEF AllocateFails
    <3>. QED BY <3>1, <3>2
  <2>3. ASSUME NEW n \in TempSizes, FS_ReadFileFails(n)
        PROVE  \E p \in Banks : ~InUse(p) /\ Dropped(p)
    <3>1. Swapped \in Banks /\ ~InUse(Swapped)
      BY SwapIsSafe DEF HunkInv
    <3>2. Dropped(Swapped)
      BY <2>3 DEF FS_ReadFileFails
    <3>. QED BY <3>1, <3>2
  <2>. QED BY <2>1, <2>2, <2>3
<1>. QED BY <1>1, <1>2, DroppedInv

LEMMA HunkNextInv == HunkInv /\ [HunkNext]_hunkVars => HunkInv'
<1> SUFFICES ASSUME HunkInv, [HunkNext]_hunkVars PROVE HunkInv'
  OBVIOUS
<1>1. ASSUME NEW n \in PermSizes, NEW f \in Banks \cup {"dontcare"},
             Allocate(n, f), UNCHANGED dedicated
      PROVE  HunkInv'
  <2>1. \E who \in {"server", "client"} :
          Hunk_Alloc(n, f, who) /\ (who = "server" => server = "loading")
    BY <1>1 DEF Allocate
  <2>. QED BY <1>1, <2>1, AllocInv
<1>2. ASSUME NEW n \in TempSizes, FS_ReadFile(n), UNCHANGED dedicated PROVE HunkInv'
  BY <1>2, ReadInv
<1>3. ASSUME NEW n \in TempSizes, AllocScratch(n), UNCHANGED dedicated PROVE HunkInv'
  BY <1>3, ScratchInv
<1>4. ASSUME NEW r \in Files, FS_FreeFile(r), UNCHANGED dedicated PROVE HunkInv'
  BY <1>4, FreeFileInv
<1>5. ASSUME NEW r \in Scratch, FreeScratch(r), UNCHANGED dedicated PROVE HunkInv'
  BY <1>5, FreeScratchInv
<1>6. CASE Hunk_SetMark /\ UNCHANGED dedicated
  BY <1>6, SetMarkInv
<1>7. CASE Hunk_ClearToMark /\ UNCHANGED dedicated
  BY <1>7, ClearToMarkInv
<1>8. CASE (SpawnServer \/ ClientRestart) /\ UNCHANGED dedicated
  BY <1>8, ClearInv
<1>9. ASSUME UNCHANGED dedicated,
             \/ ErrorDrop
             \/ \E n \in PermSizes, f \in Banks \cup {"dontcare"} : AllocateFails(n, f)
             \/ \E n \in TempSizes : FS_ReadFileFails(n)
      PROVE  HunkInv'
  BY <1>9, ErrorInv
<1>10. CASE (SV_Shutdown /\ UNCHANGED dedicated) \/ UNCHANGED hunkVars
  <2>1. UNCHANGED <<hunk, perm, fs_loadStack, held, dedicated>> /\ server' \in {server, "none"}
    BY <1>10 DEF SV_Shutdown, hunkVars
  <2>2. temp' = temp /\ Files' = Files
    BY <2>1 DEF temp, Files, By
  <2>3. BankInv' /\ CountInv' /\ RestInv'
    BY <2>1, <2>2 DEF HunkInv, BankInv, CountInv, RestInv, InUse
  <2>4. HeldInv'
    BY <2>1, <2>2 DEF HunkInv, HeldInv, NothingShared
  <2>. QED BY <2>3, <2>4 DEF HunkInv
<1>. QED BY <1>1, <1>2, <1>3, <1>4, <1>5, <1>6, <1>7, <1>8, <1>9, <1>10 DEF HunkNext, HunkStep

LEMMA HunkInvariance == HunkSpec => []HunkInv
BY HunkInitInv, HunkNextInv, PTL DEF HunkSpec

\* Every variable keeps its type: no top leaves the hunk.
THEOREM HunkTypeCorrect == HunkSpec => []HunkTypeOK
<1>1. HunkInv => HunkTypeOK
  BY DEF HunkInv, BankInv, HeldInv, CountInv, RestInv, HunkTypeOK
<1>. QED BY <1>1, HunkInvariance, PTL

\* Two allocations in use never share a byte, through swaps of the banks, clearing
\* to the mark beside a running server, files freed in any order and errors.
THEOREM NeverShared == HunkSpec => []NothingShared
<1>1. HunkInv => NothingShared
  BY DEF HunkInv, HeldInv
<1>. QED BY <1>1, HunkInvariance, PTL

\* All temporary memory in use lies in one bank, above its permanent part.
THEOREM OneEnd == HunkSpec => []TempsOnOneEnd
<1>1. HunkInv => TempsOnOneEnd
  <2> SUFFICES ASSUME HunkInv, NEW r \in Temps
               PROVE  IF temp = "low" THEN hunk["low"].permanent <= r.from /\ r.to <= hunk["low"].temp
                                      ELSE /\ Total - hunk["high"].temp <= r.from
                                           /\ r.to <= Total - hunk["high"].permanent
    BY DEF TempsOnOneEnd
  <2>1. r \in held /\ IsTemp(r)
    BY TempsAreTemps DEF HunkInv
  <2>2. Within(r, temp, hunk[temp].permanent, hunk[temp].temp) /\ temp \in Banks
    BY <2>1 DEF HunkInv, HeldInv, BankInv, temp, Other
  <2>. QED BY <2>2 DEF Within
<1>. QED BY <1>1, HunkInvariance, PTL

\* What Hunk_MemoryRemaining reports is what Hunk_Alloc can still give.
THEOREM RemainingTrue == HunkSpec => []RemainingIsTrue
<1>1. HunkInv => RemainingIsTrue
  <2> SUFFICES ASSUME HunkInv PROVE RemainingIsTrue
    OBVIOUS
  <2>1. \A b \in Banks : /\ hunk[b].permanent \in 0..Total /\ hunk[b].temp \in 0..Total
                         /\ hunk[b].permanent <= hunk[b].temp
    BY DEF HunkInv, BankInv
  <2>2. \A b \in Banks : AtMost(hunk[b].permanent, hunk[b].temp) = hunk[b].temp
    BY <2>1 DEF AtMost
  <2>3. Hunk_MemoryRemaining = Total - (hunk["low"].temp + hunk["high"].temp)
    BY <2>2 DEF Hunk_MemoryRemaining
  <2>4. hunk["low"].temp + hunk["high"].temp <= Total
    BY DEF HunkInv, BankInv
  <2>. QED BY <2>1, <2>3, <2>4 DEF RemainingIsTrue, Hunk_AllocFits
<1>. QED BY <1>1, HunkInvariance, PTL

\* Hunk_Alloc and Hunk_MemoryRemaining agree on what is left, and both banks end
\* within the hunk.
THEOREM AccountRight == HunkSpec => []Accounted
BY HunkTypeCorrect, RemainingTrue, PTL DEF Accounted

--------------------------------------------------------------------------------
\* Where r begins and ends, counted from the end of bank b.
Bottom(r, b) == IF b = "low" THEN r.from ELSE Total - r.to
Top(r, b) == IF b = "low" THEN r.to ELSE Total - r.from

\* Scratch buffers stand on each other without a gap: the first one on the permanent
\* memory, the last one reaching up to the top of bank b.
Stacked(buffers, b) ==
  IF buffers = {} THEN ~InUse(b)
  ELSE /\ \E r \in buffers : Top(r, b) = hunk[b].temp
       /\ \A r \in buffers : \/ Bottom(r, b) = hunk[b].permanent
                             \/ \E s \in buffers : Top(s, b) = Bottom(r, b)

\* As long as the file system counts no file, the temporary bank holds nothing but
\* scratch buffers.  With a file in memory a gap may stay behind that only the last
\* file clears.
GivenInv == fs_loadStack = 0 => Stacked(Scratch, temp)

LEMMA GivenInit == HunkInit => GivenInv
BY DEF HunkInit, GivenInv, Stacked, Scratch, By, InUse, EmptyBank, temp, Other

\* Scratch buffers are temporary memory in the temporary bank.
LEMMA ScratchWithin ==
  ASSUME HunkInv
  PROVE  /\ temp \in Banks /\ hunk[temp].permanent \in Nat /\ hunk[temp].temp \in Nat
         /\ \A r \in Scratch :
              /\ IsTemp(r) /\ r \in [from : 0..Total, to : 0..Total, by : Owners]
              /\ Bottom(r, temp) \in Int /\ Top(r, temp) \in Int
              /\ hunk[temp].permanent <= Bottom(r, temp)
              /\ Bottom(r, temp) < Top(r, temp)
              /\ Top(r, temp) <= hunk[temp].temp
         /\ \A r, s \in Scratch :
              r = s \/ Top(r, temp) <= Bottom(s, temp) \/ Top(s, temp) <= Bottom(r, temp)
<1>1. temp \in Banks
  BY DEF temp, Other
<1>2. hunk[temp].permanent \in Nat /\ hunk[temp].temp \in Nat
  BY <1>1 DEF HunkInv, BankInv
<1>3. ASSUME NEW r \in Scratch
      PROVE  /\ r \in held /\ IsTemp(r) /\ r \in [from : 0..Total, to : 0..Total, by : Owners]
             /\ r.from < r.to /\ Within(r, temp, hunk[temp].permanent, hunk[temp].temp)
  BY DEF Scratch, By, IsTemp, HunkInv, HeldInv
<1>4. ASSUME NEW r \in Scratch
      PROVE  /\ Bottom(r, temp) \in Int /\ Top(r, temp) \in Int
             /\ hunk[temp].permanent <= Bottom(r, temp)
             /\ Bottom(r, temp) < Top(r, temp)
             /\ Top(r, temp) <= hunk[temp].temp
  BY <1>1, <1>2, <1>3 DEF Bottom, Top, Within
<1>5. ASSUME NEW r \in Scratch, NEW s \in Scratch
      PROVE  r = s \/ Top(r, temp) <= Bottom(s, temp) \/ Top(s, temp) <= Bottom(r, temp)
  <2>1. r = s \/ r.to <= s.from \/ s.to <= r.from
    BY <1>3 DEF HunkInv, HeldInv, NothingShared
  <2>. QED BY <1>1, <1>3, <2>1 DEF Bottom, Top
<1>. QED BY <1>1, <1>2, <1>3, <1>4, <1>5

\* No bank is in use but that of the scratch buffers, whatever the banks' roles.
LEMMA OthersUnused ==
  ASSUME HunkInv, GivenInv, fs_loadStack = 0, Scratch = {}
  PROVE  \A b \in Banks : ~InUse(b)
BY DEF GivenInv, Stacked, HunkInv, BankInv, temp, Other

\* Permanent memory never moves the banks under a scratch buffer.
LEMMA GivenAlloc ==
  ASSUME HunkInv, GivenInv, NEW n \in PermSizes, NEW f \in Banks \cup {"dontcare"},
         NEW who \in {"server", "client"}, Hunk_Alloc(n, f, who)
  PROVE  GivenInv'
<1> DEFINE p == Chosen(f)
<1>1. p \in Banks /\ ~InUse(p) /\ ((\E s \in held : IsTemp(s)) => p = perm)
  BY SwapIsSafe DEF HunkInv
<1>2. /\ perm' = p /\ fs_loadStack' = fs_loadStack
      /\ hunk' = [hunk EXCEPT ![p].permanent = hunk[p].permanent + n,
                              ![p].temp = hunk[p].permanent + n]
      /\ held' = held \cup {Piece(p, hunk[p].permanent, n, who)}
  BY DEF Hunk_Alloc
<1>3. Scratch' = Scratch
  BY <1>2 DEF Scratch, By, Piece
<1>4. /\ temp' \in Banks /\ temp' # p /\ temp' = Other(p)
  BY <1>1, <1>2 DEF temp, Other
<1>5. hunk'[temp'] = hunk[temp']
  BY <1>1, <1>2, <1>4 DEF HunkInv, BankInv
<1> SUFFICES ASSUME fs_loadStack' = 0 PROVE Stacked(Scratch, temp)'
  BY DEF GivenInv
<1>6. CASE Scratch = {}
  <2>1. ~InUse(temp')
    BY <1>2, <1>4, <1>6, OthersUnused
  <2>. QED BY <1>3, <1>5, <1>6, <2>1 DEF Stacked, InUse
<1>7. CASE Scratch # {}
  <2>1. temp' = temp
    BY <1>1, <1>2, <1>7 DEF Scratch, By, IsTemp, temp
  <2>. QED BY <1>2, <1>3, <1>5, <2>1 DEF GivenInv, Stacked, InUse, Top, Bottom
<1>. QED BY <1>6, <1>7

\* A new buffer stands on the last one, or on the permanent memory.
LEMMA GivenScratch ==
  ASSUME HunkInv, GivenInv, NEW n \in TempSizes, AllocScratch(n)
  PROVE  GivenInv'
<1> DEFINE t == Other(Swapped)
           height == hunk[t].temp
           r == Piece(t, height, n, "scratch")
<1>1. Swapped \in Banks /\ ((\E s \in held : IsTemp(s)) => Swapped = perm)
  BY SwapIsSafe DEF HunkInv
<1>2. /\ perm' = Swapped /\ fs_loadStack' = fs_loadStack /\ held' = held \cup {r}
      /\ hunk' = [hunk EXCEPT ![t].temp = height + n,
                    ![t].tempHighwater = IF height + n > @ THEN height + n ELSE @]
  BY DEF AllocScratch, Hunk_AllocateTempMemory
<1>3. t \in Banks /\ temp' = t
  BY <1>1, <1>2 DEF temp, Other
<1>4. hunk'[t].temp = height + n /\ hunk'[t].permanent = hunk[t].permanent
  BY <1>2, <1>3 DEF HunkInv, BankInv
<1>5. height \in Nat /\ n \in Nat
  BY <1>3 DEF HunkInv, BankInv
<1>6. Scratch' = Scratch \cup {r}
  BY <1>2 DEF Scratch, By, Piece
<1>7. Bottom(r, t) = height /\ Top(r, t) = height + n
  BY <1>3, <1>5 DEF Bottom, Top, Piece
<1> SUFFICES ASSUME fs_loadStack' = 0 PROVE Stacked(Scratch, temp)'
  BY DEF GivenInv
<1>8. CASE Scratch = {}
  <2>1. height = hunk[t].permanent
    BY <1>2, <1>3, <1>8, OthersUnused DEF InUse
  <2>. QED BY <1>3, <1>4, <1>6, <1>7, <1>8, <2>1 DEF Stacked
<1>9. CASE Scratch # {}
  <2>1. temp = t
    BY <1>1, <1>9 DEF Scratch, By, IsTemp, temp
  <2>2. PICK s \in Scratch : Top(s, t) = height
    BY <1>2, <1>9, <2>1 DEF GivenInv, Stacked
  <2>3. \A q \in Scratch : \/ Bottom(q, t) = hunk[t].permanent
                           \/ \E s2 \in Scratch : Top(s2, t) = Bottom(q, t)
    BY <1>2, <1>9, <2>1 DEF GivenInv, Stacked
  <2>4. \A q \in Scratch \cup {r} : \/ Bottom(q, t) = hunk[t].permanent
                                    \/ \E s2 \in Scratch \cup {r} : Top(s2, t) = Bottom(q, t)
    BY <1>7, <2>2, <2>3
  <2>. QED BY <1>3, <1>4, <1>6, <1>7, <2>4 DEF Stacked
<1>. QED BY <1>8, <1>9

\* The last buffer reaches up to the top, so that giving it back lowers the top to
\* the buffer below it, or to the permanent memory.
LEMMA GivenFreeScratch ==
  ASSUME HunkInv, GivenInv, NEW r \in Scratch, FreeScratch(r)
  PROVE  GivenInv'
<1> DEFINE t == temp
<1>1. /\ \A s \in Scratch : IF t = "low" THEN s.from <= r.from ELSE s.from >= r.from
      /\ hunk' = [hunk EXCEPT ![t].temp = AfterFree(r)] /\ held' = held \ {r}
      /\ perm' = perm /\ fs_loadStack' = fs_loadStack
  BY DEF FreeScratch
<1>2. /\ t \in Banks /\ hunk[t].permanent \in Nat /\ hunk[t].temp \in Nat
      /\ \A s \in Scratch :
              /\ IsTemp(s) /\ s \in [from : 0..Total, to : 0..Total, by : Owners]
              /\ Bottom(s, t) \in Int /\ Top(s, t) \in Int
              /\ hunk[t].permanent <= Bottom(s, t)
              /\ Bottom(s, t) < Top(s, t)
              /\ Top(s, t) <= hunk[t].temp
      /\ \A s, q \in Scratch : s = q \/ Top(s, t) <= Bottom(q, t) \/ Top(q, t) <= Bottom(s, t)
  BY ScratchWithin
<1>3. \A s \in Scratch : s # r => Top(s, t) <= Bottom(r, t)
  <2> SUFFICES ASSUME NEW s \in Scratch, s # r PROVE Top(s, t) <= Bottom(r, t)
    OBVIOUS
  <2>1. CASE Top(s, t) <= Bottom(r, t)
    BY <2>1
  <2>2. CASE Top(r, t) <= Bottom(s, t)
    <3>1. s.from \in Int /\ s.to \in Int /\ r.from \in Int /\ r.to \in Int /\ Total \in Int
      BY <1>2
    <3>2. CASE t = "low"
      BY <1>1, <1>2, <2>2, <3>1, <3>2 DEF Bottom, Top
    <3>3. CASE t # "low"
      <4>1. s.from >= r.from
        BY <1>1, <3>3
      <4>2. r.from < r.to /\ s.from < s.to /\ Total - r.from <= Total - s.to
        BY <1>2, <2>2, <3>3 DEF Bottom, Top
      <4>. QED BY <3>1, <4>1, <4>2
    <3>. QED BY <3>2, <3>3
  <2>. QED BY <1>2, <2>1, <2>2
<1> SUFFICES ASSUME fs_loadStack' = 0 PROVE Stacked(Scratch, temp)'
  BY DEF GivenInv
<1>4. /\ \E s \in Scratch : Top(s, t) = hunk[t].temp
      /\ \A s \in Scratch : \/ Bottom(s, t) = hunk[t].permanent
                            \/ \E q \in Scratch : Top(q, t) = Bottom(s, t)
  BY <1>1 DEF GivenInv, Stacked
<1>5. Top(r, t) = hunk[t].temp
  <2>1. PICK s \in Scratch : Top(s, t) = hunk[t].temp
    BY <1>4
  <2>2. CASE s # r
    <3>1. Top(s, t) <= Bottom(r, t)
      BY <1>3, <2>2
    <3>. QED BY <1>2, <2>1, <3>1
  <2>. QED BY <2>1, <2>2
<1>6. AfterFree(r) = Bottom(r, t)
  <2>1. r = [from |-> r.from, to |-> r.to, by |-> r.by]
        /\ r.from \in Int /\ r.to \in Int /\ Total \in Int
    BY <1>2
  <2>2. CASE t = "low"
    <3>1. r.to = hunk[t].temp /\ Bottom(r, t) = r.from
      BY <1>5, <2>2 DEF Top, Bottom
    <3>2. /\ hunk[t].temp - (r.to - r.from) = r.from
          /\ r.from + (r.to - r.from) = r.to
      BY <2>1, <3>1
    <3>3. Piece(t, hunk[t].temp - (r.to - r.from), r.to - r.from, r.by) = r
      BY <2>1, <2>2, <3>2 DEF Piece
    <3>. QED BY <3>1, <3>2, <3>3 DEF AfterFree
  <2>3. CASE t # "low"
    <3>1. Total - r.from = hunk[t].temp /\ Bottom(r, t) = Total - r.to
      BY <1>5, <2>3 DEF Top, Bottom
    <3>2. /\ hunk[t].temp - (r.to - r.from) = Total - r.to
          /\ Total - (Total - r.to) - (r.to - r.from) = r.from
          /\ Total - (Total - r.to) = r.to
      BY <2>1, <3>1
    <3>3. Piece(t, hunk[t].temp - (r.to - r.from), r.to - r.from, r.by) = r
      BY <2>1, <2>3, <3>2 DEF Piece
    <3>. QED BY <3>1, <3>2, <3>3 DEF AfterFree
  <2>. QED BY <2>2, <2>3
<1>7. temp' = t /\ Scratch' = Scratch \ {r}
  BY <1>1 DEF temp, Scratch, By
<1>8. hunk'[t].temp = Bottom(r, t) /\ hunk'[t].permanent = hunk[t].permanent
  BY <1>1, <1>2, <1>6 DEF HunkInv, BankInv
<1>9. CASE Bottom(r, t) = hunk[t].permanent
  <2>1. ASSUME NEW s \in Scratch, s # r PROVE FALSE
    <3>1. Top(s, t) <= Bottom(r, t)
      BY <1>3, <2>1
    <3>. QED BY <1>2, <1>9, <2>1, <3>1
  <2>2. Scratch' = {}
    BY <1>7, <2>1
  <2>. QED BY <1>7, <1>8, <1>9, <2>2 DEF Stacked, InUse
<1>10. CASE Bottom(r, t) # hunk[t].permanent
  <2>1. PICK q \in Scratch : Top(q, t) = Bottom(r, t)
    BY <1>4, <1>10
  <2>2. q # r
    BY <1>2, <2>1
  <2>3. ASSUME NEW s \in Scratch \ {r}
        PROVE  \/ Bottom(s, t) = hunk[t].permanent
               \/ \E q2 \in Scratch \ {r} : Top(q2, t) = Bottom(s, t)
    <3>1. CASE Bottom(s, t) = hunk[t].permanent
      BY <3>1
    <3>2. ASSUME NEW q2 \in Scratch, Top(q2, t) = Bottom(s, t) PROVE q2 # r
      <4>1. Top(s, t) <= Bottom(r, t) /\ Bottom(s, t) < Top(s, t) /\ Bottom(r, t) < Top(r, t)
        BY <1>2, <1>3
      <4>. QED BY <1>2, <3>2, <4>1
    <3>. QED BY <1>4, <3>1, <3>2
  <2>. QED BY <1>7, <1>8, <2>1, <2>2, <2>3 DEF Stacked
<1>. QED BY <1>9, <1>10

\* Nothing temporary is held, and no bank holds any: the bank that is temporary then
\* is not in use.
LEMMA GivenEmpty ==
  ASSUME Scratch' = {}, fs_loadStack' = 0 => (~InUse(temp))'
  PROVE  GivenInv'
BY DEF GivenInv, Stacked

\* The last file clears the temporary bank.
LEMMA GivenFreeFile ==
  ASSUME HunkInv, NEW r \in Files, FS_FreeFile(r)
  PROVE  GivenInv'
<1>1. /\ Scratch = {} /\ held' = held \ {r} /\ perm' = perm
      /\ hunk' = [hunk EXCEPT ![temp].temp =
                    IF fs_loadStack' = 0 THEN hunk[temp].permanent ELSE AfterFree(r)]
  BY DEF FS_FreeFile
<1>2. Scratch' = {} /\ temp' = temp /\ temp \in Banks
  BY <1>1 DEF Scratch, By, temp, Other
<1>3. fs_loadStack' = 0 => (~InUse(temp))'
  BY <1>1, <1>2 DEF InUse, HunkInv, BankInv
<1>. QED BY <1>2, <1>3, GivenEmpty

\* A file that is loaded is counted.
LEMMA GivenRead ==
  ASSUME HunkInv, NEW n \in TempSizes, FS_ReadFile(n) \/ FS_ReadFileFails(n)
  PROVE  GivenInv'
<1>1. fs_loadStack' = fs_loadStack + 1 /\ fs_loadStack \in Nat
  BY DEF FS_ReadFile, FS_ReadFileFails, HunkInv, CountInv
<1>. QED BY <1>1 DEF GivenInv

\* What is cleared is empty in both banks.
LEMMA GivenClear ==
  ASSUME HunkInv, GivenInv, Hunk_SetMark \/ Hunk_ClearToMark \/ SpawnServer \/ ClientRestart
  PROVE  GivenInv'
<1>1. CASE Hunk_SetMark
  <2>1. /\ Temps = {} /\ fs_loadStack' = fs_loadStack /\ held' = held /\ perm' = perm
        /\ hunk' = [b \in Banks |-> [hunk[b] EXCEPT !.mark = hunk[b].permanent]]
    BY <1>1 DEF Hunk_SetMark
  <2>2. Scratch = {} /\ Scratch' = {} /\ temp' = temp /\ temp \in Banks
    BY <2>1 DEF Temps, Scratch, By, temp, Other
  <2>3. hunk'[temp].permanent = hunk[temp].permanent /\ hunk'[temp].temp = hunk[temp].temp
    BY <2>1, <2>2 DEF HunkInv, BankInv
  <2>4. fs_loadStack' = 0 => (~InUse(temp))'
    BY <2>1, <2>2, <2>3, OthersUnused DEF InUse
  <2>. QED BY <2>2, <2>4, GivenEmpty
<1>2. CASE Hunk_ClearToMark
  <2>1. /\ held' = By("server")
        /\ hunk' = [b \in Banks |->
                      [hunk[b] EXCEPT !.permanent = hunk[b].mark, !.temp = hunk[b].mark]]
    BY <1>2 DEF Hunk_ClearToMark
  <2>2. Scratch' = {}
    BY <2>1 DEF Scratch, By
  <2>3. temp' \in Banks
    BY DEF temp, Other
  <2>4. \A b \in Banks : hunk'[b].permanent = hunk[b].mark /\ hunk'[b].temp = hunk[b].mark
    BY <2>1 DEF HunkInv, BankInv
  <2>5. (~InUse(temp))'
    BY <2>3, <2>4 DEF InUse
  <2>. QED BY <2>2, <2>5, GivenEmpty
<1>3. CASE SpawnServer \/ ClientRestart
  <2>1. held' = {} /\ hunk' = [b \in Banks |-> EmptyBank]
    BY <1>3 DEF SpawnServer, ClientRestart, Hunk_Clear
  <2>2. Scratch' = {} /\ temp' \in Banks
    BY <2>1 DEF Scratch, By, temp, Other
  <2>3. (~InUse(temp))'
    BY <2>1, <2>2 DEF InUse, EmptyBank
  <2>. QED BY <2>2, <2>3, GivenEmpty
<1>. QED BY <1>1, <1>2, <1>3

\* An error clears the hunk of a client; a dedicated server, whose hunk stays as it
\* is, has no scratch buffer then.
LEMMA GivenDropped ==
  ASSUME HunkInv, GivenInv, NEW p \in Banks, Dropped(p), fs_loadStack' = fs_loadStack,
         dedicated => Scratch = {}
  PROVE  GivenInv'
<1>1. held' = {}
  BY DEF Dropped
<1>2. Scratch' = {} /\ temp' \in Banks
  BY <1>1 DEF Scratch, By, temp, Other
<1>3. fs_loadStack' = 0 => (~InUse(temp))'
  <2>1. CASE dedicated
    <3>1. hunk' = hunk
      BY <2>1 DEF Dropped
    <3>. QED BY <1>2, <2>1, <3>1, OthersUnused DEF InUse
  <2>2. CASE ~dedicated
    <3>1. hunk' = [b \in Banks |-> EmptyBank]
      BY <2>2 DEF Dropped
    <3>. QED BY <1>2, <3>1 DEF InUse, EmptyBank
  <2>. QED BY <2>1, <2>2
<1>. QED BY <1>2, <1>3, GivenEmpty

LEMMA GivenNext == HunkInv /\ GivenInv /\ [HunkNext]_hunkVars => GivenInv'
<1> SUFFICES ASSUME HunkInv, GivenInv, [HunkNext]_hunkVars PROVE GivenInv'
  OBVIOUS
<1>1. ASSUME NEW n \in PermSizes, NEW f \in Banks \cup {"dontcare"}, Allocate(n, f)
      PROVE  GivenInv'
  <2>1. \E who \in {"server", "client"} : Hunk_Alloc(n, f, who)
    BY <1>1 DEF Allocate
  <2>. QED BY <2>1, GivenAlloc
<1>2. ASSUME NEW n \in PermSizes, NEW f \in Banks \cup {"dontcare"}, AllocateFails(n, f)
      PROVE  GivenInv'
  <2>1. /\ Dropped(Chosen(f)) /\ fs_loadStack' = fs_loadStack /\ (dedicated => Scratch = {})
    BY <1>2 DEF AllocateFails
  <2>2. Chosen(f) \in Banks
    BY SwapIsSafe DEF HunkInv
  <2>. QED BY <2>1, <2>2, GivenDropped
<1>3. ASSUME NEW n \in TempSizes, FS_ReadFile(n) \/ FS_ReadFileFails(n) PROVE GivenInv'
  BY <1>3, GivenRead
<1>4. ASSUME NEW n \in TempSizes, AllocScratch(n) PROVE GivenInv'
  BY <1>4, GivenScratch
<1>5. ASSUME NEW r \in Files, FS_FreeFile(r) PROVE GivenInv'
  BY <1>5, GivenFreeFile
<1>6. ASSUME NEW r \in Scratch, FreeScratch(r) PROVE GivenInv'
  BY <1>6, GivenFreeScratch
<1>7. CASE Hunk_SetMark \/ Hunk_ClearToMark \/ SpawnServer \/ ClientRestart
  BY <1>7, GivenClear
<1>8. CASE ErrorDrop
  <2>1. Dropped(perm) /\ fs_loadStack' = fs_loadStack /\ (dedicated => Scratch = {})
    BY <1>8 DEF ErrorDrop
  <2>2. perm \in Banks
    BY DEF HunkInv, BankInv
  <2>. QED BY <2>1, <2>2, GivenDropped
<1>9. CASE SV_Shutdown \/ UNCHANGED hunkVars
  <2>1. UNCHANGED <<hunk, perm, fs_loadStack, held>>
    BY <1>9 DEF SV_Shutdown, hunkVars
  <2>2. temp' = temp /\ Scratch' = Scratch
    BY <2>1 DEF temp, Scratch, By
  <2>. QED BY <2>1, <2>2 DEF GivenInv, Stacked, InUse, Top, Bottom
<1>. QED BY <1>1, <1>2, <1>3, <1>4, <1>5, <1>6, <1>7, <1>8, <1>9 DEF HunkNext, HunkStep

\* Whatever the order in which files are given back, no temporary memory is left
\* behind when nothing temporary is in use and no error has interrupted a load.
THEOREM NothingLeft == HunkSpec => []AllGivenBack
<1>1. HunkInv /\ GivenInv => AllGivenBack
  <2> SUFFICES ASSUME HunkInv, GivenInv, Temps = {}, Lost = 0 PROVE \A b \in Banks : ~InUse(b)
    BY DEF AllGivenBack
  <2>1. Files = {} /\ Scratch = {}
    BY DEF Temps
  <2>2. fs_loadStack = 0
    BY <2>1, FS_EmptySet DEF Lost, HunkInv, CountInv
  <2>. QED BY <2>1, <2>2, OthersUnused
<1>2. HunkSpec => []GivenInv
  BY GivenInit, GivenNext, HunkInvariance, PTL DEF HunkSpec
<1>. QED BY <1>1, <1>2, HunkInvariance, PTL
================================================================================
