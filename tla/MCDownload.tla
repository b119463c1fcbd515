----------------------------- MODULE MCDownload -----------------------------
(***************************************************************************)
(* Download for TLC.  The first file is short: a window sent again holds    *)
(* its block 0, which may arrive when the second file has been asked for.   *)
(* The second, with its end, is longer than the window, so that buffers are *)
(* used again.                                                             *)
(***************************************************************************)
EXTENDS Download

MCFiles == <<1, 3>>
=============================================================================
