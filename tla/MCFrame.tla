------------------------------- MODULE MCFrame -------------------------------
\* The main loop with rings of one, and handlers that do little.
EXTENDS Frame

MCPumps == {<<>>, <<"packet">>, <<"key", "console">>, <<"oversize">>}
MCFiles == {<<"any", "wait">>, <<"any">>}
================================================================================
