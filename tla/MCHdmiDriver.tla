---------------------------- MODULE MCHdmiDriver ----------------------------
(* HdmiDriver for TLC.                                                     *)
EXTENDS HdmiDriver, TLC
=============================================================================
