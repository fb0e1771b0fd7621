-------------------------- MODULE MCPixelPipeline --------------------------
(***************************************************************************)
(* PixelPipeline for TLC: two small modes of which each can leave the      *)
(* counters beyond the limits of the other; blocks of 5 pixels with dots   *)
(* of 2, so that the gap between dots is the shortest the pipelines bear.  *)
(* The last line of "high" is in a row of blocks behind the memory: the    *)
(* first at address 3, which has no word, the second at 4, which wraps.    *)
(***************************************************************************)
EXTENDS PixelPipeline, TLC

SmallTiming ==
  ("wide" :> [h_total |-> 14, h_sync |-> 1, h_start |-> 2, h_end |-> 11,
              v_total |-> 4, v_sync |-> 0, v_start |-> 1, v_end |-> 3])
  @@
  ("high" :> [h_total |-> 12, h_sync |-> 0, h_start |-> 2, h_end |-> 10,
              v_total |-> 7, v_sync |-> 0, v_start |-> 1, v_end |-> 6])
Dot == <<1, 4>>
Moves == {<<0, 0, 0>>, <<3, 0, 3>>}
(* Bits of words of 2, with one before the first column. *)
OneMap == {{0, 1}}
Corner == {0, 1, 2}
=============================================================================
