---------------------------- MODULE MCGamestate ----------------------------
(***************************************************************************)
(* Gamestate for TLC.  Three serverIds, so that the map changes under a    *)
(* client that has not yet got the gamestate of the change before, or is   *)
(* restarted before or after it has that of the change.                    *)
(***************************************************************************)
EXTENDS Gamestate

\* A behaviour is followed up to the restart that sets rushed: every property holds
\* of the rest of it by then, but for the types.
Followed == ~rushed
=============================================================================
