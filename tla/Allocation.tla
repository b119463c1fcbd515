------------------------------ MODULE Allocation ------------------------------
(***************************************************************************)
(* What the callers of Z_Malloc, S_Malloc, Z_TagMalloc and Z_Free          *)
(* (qcommon/common.cpp) rely on, without blocks, links and rover: the      *)
(* stretches of memory that are handed out never overlap, a stretch is at  *)
(* least as long as was asked and hardly longer, it stays where it is      *)
(* until its own holder gives it back, and a request is refused only when  *)
(* there really is no gap that holds it.  A refusal is ERR_FATAL: the      *)
(* program ends.                                                           *)
(***************************************************************************)
EXTENDS Integers

CONSTANTS Units,       \* addresses 1..Units, in units of the alignment
          Requests,    \* lengths that are asked for
          MinFragment  \* what a stretch may be longer than asked

VARIABLES live,        \* the stretches handed out, [from, to]
          asked,       \* the request being served, 0 when there is none
          refused      \* a request has been refused

vars == <<live, asked, refused>>

\* The two stretches have no address in common.
Apart(r, s) == r.to < s.from \/ s.to < r.from

Room(n) == {r \in [from : 1..Units, to : 1..Units] :
              /\ r.to = r.from + n - 1
              /\ \A s \in live : Apart(r, s)}

Init == live = {} /\ asked = 0 /\ refused = FALSE

Ask(n) == /\ asked = 0
          /\ ~refused
          /\ asked' = n
          /\ UNCHANGED <<live, refused>>

Grant == /\ asked > 0
         /\ \E n \in asked..(asked + MinFragment) : \E r \in Room(n) :
               live' = live \cup {r}
         /\ asked' = 0
         /\ UNCHANGED refused

Refuse == /\ asked > 0
          /\ Room(asked) = {}
          /\ refused' = TRUE
          /\ asked' = 0
          /\ UNCHANGED live

Release(r) == /\ asked = 0
              /\ ~refused
              /\ live' = live \ {r}
              /\ UNCHANGED <<asked, refused>>

Next == \/ \E n \in Requests : Ask(n)
        \/ Grant
        \/ Refuse
        \/ \E r \in live : Release(r)

Safe == Init /\ [][Next]_vars

\* Every request is served.
Spec == Safe /\ WF_vars(Grant \/ Refuse)
================================================================================
