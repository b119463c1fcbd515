------------------------ MODULE MCReliableCommands ------------------------
(***************************************************************************)
(* ReliableCommands for TLC.  Rings of two commands, so that the third     *)
(* command outstanding is the one that does not fit, and enough commands   *)
(* to go round the ring and past the overflow on either side.              *)
(***************************************************************************)
EXTENDS ReliableCommands
===========================================================================
