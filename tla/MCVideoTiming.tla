--------------------------- MODULE MCVideoTiming ---------------------------
(***************************************************************************)
(* VideoTiming with the limits that vpg.v has for 1440x900.                *)
(***************************************************************************)
EXTENDS VideoTiming, TLC

MonitorTiming ==
  "1440x900" :> [h_total |-> 1903, h_sync |-> 151, h_start |-> 381, h_end |-> 1821,
                 v_total |-> 931, v_sync |-> 2, v_start |-> 30, v_end |-> 930]

(* character_generator.vhd 118-119, 248-249: the coordinates that the      *)
(* generator of a character is given are in the ranges that it declares    *)
(* for them.                                                               *)
DeclaredRange == pixel_x \in 0 .. 1339 /\ pixel_y \in 0 .. 899
=============================================================================
