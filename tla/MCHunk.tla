-------------------------------- MODULE MCHunk --------------------------------
\* The hunk on a small piece of memory.
EXTENDS Hunk
================================================================================
