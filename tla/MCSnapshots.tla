---------------------------- MODULE MCSnapshots ----------------------------
(***************************************************************************)
(* Snapshots for TLC.  The backup is small enough to go round within the   *)
(* messages of one behaviour, and so are both rings of entities.           *)
(***************************************************************************)
EXTENDS Snapshots

\* Nothing is claimed once a frame was too large for a ring: not followed further.
WithinRings == ~overran
=============================================================================
