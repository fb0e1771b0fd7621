---------------------------- MODULE VideoTiming ----------------------------
(***************************************************************************)
(* vga_generator.v: the counters that scan the frame, the coordinates of   *)
(* the pixel that the layers draw, the synchronisation signals and the     *)
(* pulse that starts the refresh handler.  vpg.v gives the counters their  *)
(* limits: those of the mode, which the user changes by a switch.  A       *)
(* change of the clock makes the PLL lose its lock, which resets the       *)
(* counters; but the limits change first, in the middle of a frame.        *)
(*                                                                         *)
(* boarder, end_image and what only they read are left out: no output      *)
(* depends on them.  new_image is refresh_image under another name.        *)
(***************************************************************************)
EXTENDS Integers

CONSTANTS
  Modes,      \* the modes of the switch
  Timing,     \* the limits vpg.v gives in each
  COUNT       \* values of a counter (2^12 in the code)

ASSUME CountAssumption == COUNT \in Nat
ASSUME TimingAssumption ==
  \A m \in Modes :
    LET l == Timing[m] IN
    /\ {l.h_total, l.h_sync, l.h_start, l.h_end} \subseteq 0 .. COUNT - 1
    /\ {l.v_total, l.v_sync, l.v_start, l.v_end} \subseteq 0 .. COUNT - 1
    /\ l.h_sync < l.h_start /\ l.h_start < l.h_end
    /\ l.h_end + 2 <= l.h_total        \* room for the delay of the data enable
    /\ l.v_sync < l.v_start /\ l.v_start < l.v_end /\ l.v_end < l.v_total

VARIABLES
  mode,
  h_count, h_act, pixel_x, vga_hs_in,
  v_count, v_act, pixel_y, vga_vs_in,
  refresh_image, pre_vga_de, vga_de_in,
  settled, last     \* history: frames begun since the last disturbance, up to
                    \* 2; the last pixel drawn since it is 2

horizontal == <<h_count, h_act, pixel_x, vga_hs_in>>
vertical == <<v_count, v_act, pixel_y, vga_vs_in>>
vars == <<mode, horizontal, vertical, refresh_image, pre_vga_de, vga_de_in,
          settled, last>>

t == Timing[mode]

(* A wire or register of one bit. *)
Bit(b) == IF b THEN 1 ELSE 0

LastPixel(m) == <<Timing[m].h_end - Timing[m].h_start,
                  Timing[m].v_end - Timing[m].v_start>>

(* The reset of the generator, while the PLL is not locked; refresh_image  *)
(* has none.                                                               *)
ResetValues ==
  /\ h_count' = 0 /\ h_act' = 0 /\ pixel_x' = 0 /\ vga_hs_in' = 1
  /\ v_count' = 0 /\ v_act' = 0 /\ pixel_y' = 0 /\ vga_vs_in' = 1
  /\ pre_vga_de' = 0 /\ vga_de_in' = 0
  /\ settled' = 2 /\ last' = LastPixel(mode)

Init ==
  /\ mode \in Modes
  /\ h_count = 0 /\ h_act = 0 /\ pixel_x = 0 /\ vga_hs_in = 1
  /\ v_count = 0 /\ v_act = 0 /\ pixel_y = 0 /\ vga_vs_in = 1
  /\ refresh_image \in {0, 1} /\ pre_vga_de = 0 /\ vga_de_in = 0
  /\ settled = 2 /\ last = LastPixel(mode)

(***************************************************************************)
(* One pixel clock.  Every register takes its value from those before.     *)
(***************************************************************************)
h_max == h_count = t.h_total
v_max == v_count = t.v_total

(* Slips that the properties must notice (suffix _...): a counter that     *)
(* saturates where it has to wrap; one that is a bit wider; a coordinate   *)
(* that is not cleared; a picture that lacks its last line.                *)
Horizontal_Stuck ==
  /\ h_count' = IF h_max THEN 0 ELSE IF h_count < COUNT - 1 THEN h_count + 1 ELSE h_count
  /\ vga_hs_in' = Bit(h_count >= t.h_sync /\ ~h_max)
  /\ h_act' = Bit(h_count = t.h_start \/ (h_act = 1 /\ h_count # t.h_end))
  /\ pixel_x' = IF h_act = 1 THEN (pixel_x + 1) % COUNT ELSE 0
Horizontal_Wider ==
  /\ h_count' = IF h_max THEN 0 ELSE (h_count + 1) % (2 * COUNT)
  /\ vga_hs_in' = Bit(h_count >= t.h_sync /\ ~h_max)
  /\ h_act' = Bit(h_count = t.h_start \/ (h_act = 1 /\ h_count # t.h_end))
  /\ pixel_x' = IF h_act = 1 THEN (pixel_x + 1) % COUNT ELSE 0
PixelLine_KeptBelow ==
  pixel_y' = IF v_act = 1 /\ h_count = t.h_start THEN (pixel_y + 1) % COUNT ELSE pixel_y
Vertical_OneLineLess ==
  IF h_max
  THEN /\ v_count' = IF v_max THEN 0 ELSE (v_count + 1) % COUNT
       /\ refresh_image' = Bit(v_max)
       /\ vga_vs_in' = Bit(v_count >= t.v_sync /\ ~v_max)
       /\ v_act' = Bit(v_count = t.v_start \/ (v_act = 1 /\ v_count + 1 # t.v_end))
  ELSE UNCHANGED <<v_count, refresh_image, vga_vs_in, v_act>>

Horizontal ==
  /\ h_count' = IF h_max THEN 0 ELSE (h_count + 1) % COUNT
  /\ vga_hs_in' = Bit(h_count >= t.h_sync /\ ~h_max)
  /\ h_act' = Bit(h_count = t.h_start \/ (h_act = 1 /\ h_count # t.h_end))
  /\ pixel_x' = IF h_act = 1 THEN (pixel_x + 1) % COUNT ELSE 0

(* Once per line. *)
Vertical ==
  IF h_max
  THEN /\ v_count' = IF v_max THEN 0 ELSE (v_count + 1) % COUNT
       /\ refresh_image' = Bit(v_max)
       /\ vga_vs_in' = Bit(v_count >= t.v_sync /\ ~v_max)
       /\ v_act' = Bit(v_count = t.v_start \/ (v_act = 1 /\ v_count # t.v_end))
  ELSE UNCHANGED <<v_count, refresh_image, vga_vs_in, v_act>>

PixelLine ==
  pixel_y' = IF v_act = 0 THEN 0
             ELSE IF h_count = t.h_start THEN (pixel_y + 1) % COUNT ELSE pixel_y

DataEnable ==
  /\ pre_vga_de' = Bit(v_act = 1 /\ h_act = 1)
  /\ vga_de_in' = pre_vga_de

Clock ==
  /\ Horizontal /\ Vertical /\ PixelLine /\ DataEnable
  /\ settled' = IF h_max /\ v_max /\ settled < 2 THEN settled + 1 ELSE settled
  /\ last' = IF settled < 2 THEN LastPixel(mode)
             ELSE IF pre_vga_de' = 1 THEN <<pixel_x', pixel_y'>> ELSE last
  /\ UNCHANGED mode

(* The switch: the limits change at once, ... *)
ChangeMode ==
  /\ mode' \in Modes \ {mode}
  /\ settled' = 0 /\ last' = LastPixel(mode')
  /\ UNCHANGED <<horizontal, vertical, refresh_image, pre_vga_de, vga_de_in>>

(* ... and the clock, if it does, stops and starts again. *)
LoseLock ==
  /\ ResetValues
  /\ UNCHANGED <<mode, refresh_image>>

Next == Clock \/ ChangeMode \/ LoseLock

Spec == Init /\ [][Next]_vars
FairSpec == Spec /\ WF_vars(Clock)

(***************************************************************************)
(* Properties.                                                             *)
(***************************************************************************)
TypeOK ==
  /\ mode \in Modes
  /\ h_count \in 0 .. COUNT - 1 /\ v_count \in 0 .. COUNT - 1
  /\ pixel_x \in 0 .. COUNT - 1 /\ pixel_y \in 0 .. COUNT - 1
  /\ h_act \in {0, 1} /\ v_act \in {0, 1}
  /\ vga_hs_in \in {0, 1} /\ vga_vs_in \in {0, 1}
  /\ refresh_image \in {0, 1} /\ pre_vga_de \in {0, 1} /\ vga_de_in \in {0, 1}
  /\ settled \in 0 .. 2
  /\ last \in (0 .. COUNT - 1) \X (0 .. COUNT - 1)

(* The pixel that follows <<x, y>> in the frame. *)
Following(p) ==
  IF p[1] < LastPixel(mode)[1] THEN <<p[1] + 1, p[2]>>
  ELSE IF p[2] < LastPixel(mode)[2] THEN <<1, p[2] + 1>>
  ELSE <<1, 1>>

(* However the limits changed in the middle of a frame, two frames later   *)
(* the layers are asked for every pixel of the picture once, from left to  *)
(* right and from top to bottom.                                           *)
NextPixel ==
  settled = 2 /\ settled' = 2 /\ pre_vga_de' = 1 /\ mode' = mode
    => <<pixel_x', pixel_y'>> = Following(last)
RasterOrder == [][NextPixel]_vars

(* Every frame is whole when the refresh handler is called, and nothing is *)
(* drawn while a synchronisation pulse is being sent.                      *)
FramesAreWhole ==
  settled = 2 =>
    /\ h_max /\ v_max => last = LastPixel(mode)
    /\ vga_de_in = 1 => vga_hs_in = 1 /\ vga_vs_in = 1

(* Frames, and with them the game, go on when the mode does not change any *)
(* more, also where no loss of the lock has reset the counters: one that   *)
(* is beyond its new limit wraps around.                                   *)
FrameEdge == refresh_image = 0 /\ refresh_image' = 1
FramesGoOn == <>[][Clock]_vars => []<><<FrameEdge>>_vars
=============================================================================
