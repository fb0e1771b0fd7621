------------------------ MODULE MCPllReconfiguration ------------------------
(***************************************************************************)
(* PllReconfiguration for TLC, with all modes of vpg.h.  A period of 100   *)
(* clocks leaves room for a whole change whose lock comes after 80.        *)
(***************************************************************************)
EXTENDS PllReconfiguration, TLC
=============================================================================
