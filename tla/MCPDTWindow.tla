---------------------------- MODULE MCPDTWindow ----------------------------
(* Small instances of PDTWindow for TLC. *)
EXTENDS PDTWindow

\* A gateway on US Pacific time: eight hours, two slots of six a day, behind UTC.
West == -2
=============================================================================
