-------------------------------- MODULE MCZone --------------------------------
\* The zone on a small piece of memory.
EXTENDS Zone
================================================================================
