----------------------------- MODULE VideoModes -----------------------------
(***************************************************************************)
(* The tables that the mode number selects: the limits of the counters of  *)
(* the picture (vpg.v) and the words that pll_controller.v writes to the   *)
(* PLL for its clock.  The modes are numbered as in vpg.h.                 *)
(***************************************************************************)
EXTENDS Integers, Sequences

AllModes == 0 .. 6
LastMode == 6                  \* VESA_1600x1200p60

(* h_total, h_sync, h_start, h_end, v_total, v_sync, v_start, v_end.       *)
Limits == <<
  <<799, 95, 141, 781, 524, 1, 34, 514>>,          \* 640x480
  <<857, 61, 119, 839, 524, 5, 35, 515>>,          \* 720x480
  <<1343, 135, 293, 1317, 805, 5, 34, 802>>,       \* 1024x768
  <<1903, 151, 381, 1821, 931, 2, 30, 930>>,       \* 1440x900
  <<1687, 111, 357, 1637, 1065, 2, 40, 1064>>,     \* 1280x1024
  <<2199, 43, 189, 2109, 1124, 4, 40, 1120>>,      \* 1920x1080
  <<2159, 191, 493, 2093, 1249, 2, 48, 1248>> >>   \* 1600x1200
ModeTiming == [mode \in AllModes |->
  LET l == Limits[mode + 1] IN
  [h_total |-> l[1], h_sync |-> l[2], h_start |-> l[3], h_end |-> l[4],
   v_total |-> l[5], v_sync |-> l[6], v_start |-> l[7], v_end |-> l[8]]]

(* A word of a counter: odd division, bypass, high and low count.          *)
CounterWords == <<
  [m |-> <<0, 1, 0, 0>>, n |-> <<0, 1, 0, 0>>, c |-> <<0, 0, 1, 1>>],
  [m |-> <<1, 0, 27, 27>>, n |-> <<1, 0, 3, 2>>, c |-> <<0, 0, 10, 10>>],
  [m |-> <<1, 0, 7, 6>>, n |-> <<0, 0, 1, 1>>, c |-> <<1, 0, 3, 2>>],
  [m |-> <<1, 0, 106, 107>>, n |-> <<0, 0, 5, 5>>, c |-> <<1, 0, 5, 5>>],
  [m |-> <<0, 0, 27, 27>>, n |-> <<1, 0, 3, 2>>, c |-> <<1, 0, 3, 2>>],
  [m |-> <<0, 0, 37, 37>>, n |-> <<1, 0, 3, 2>>, c |-> <<1, 0, 3, 2>>],
  [m |-> <<1, 0, 41, 40>>, n |-> <<1, 0, 3, 2>>, c |-> <<1, 0, 3, 2>>] >>

(* What a PLL with such words in its counters makes of the 50 MHz clock.   *)
Division(word) == IF word[2] = 1 THEN 1 ELSE word[3] + word[4]
KiloHertz(pll) ==
  (50000 * Division(pll.m)) \div (Division(pll.n) * Division(pll.c))

(* The frames per second, in tenths, of a mode under a clock.              *)
FrameRate(mode, kHz) ==
  (kHz * 10000) \div ((ModeTiming[mode].h_total + 1) * (ModeTiming[mode].v_total + 1))
=============================================================================
