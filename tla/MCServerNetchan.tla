-------------------------- MODULE MCServerNetchan --------------------------
(* Short messages and messages of two fragments, two of them in flight while *)
(* the client's commands move on.                                            *)
EXTENDS ServerNetchan

MCByte == {0}
=============================================================================
