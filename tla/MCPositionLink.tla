--------------------------- MODULE MCPositionLink ---------------------------
(***************************************************************************)
(* An instance of PositionLink for TLC.                                    *)
(***************************************************************************)
EXTENDS PositionLink, TLC

CONSTANTS here, there

TwoPositions == {here, there}
=============================================================================
