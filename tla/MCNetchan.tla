----------------------------- MODULE MCNetchan -----------------------------
(* Netchan on messages of every length class: below, at and above one full   *)
(* fragment, and at two full fragments.  The bytes of a message name the     *)
(* message and their place in it, so that any mixture is visible.            *)
EXTENDS Netchan

Msg(tag, n) == [length |-> n, data |-> [i \in 0 .. n-1 |-> 10 * tag + i + 1]]

MCByte == 0 .. 49
MCPayload == {Msg(1, 1), Msg(2, 2), Msg(3, 3), Msg(4, 4)}
=============================================================================
