------------------------ MODULE PixelPipelineProofs ------------------------
(***************************************************************************)
(* First VideoTiming: its pictures are whole and drawn in order, for all   *)
(* modes and limits that TimingAssumption allows.  Then PixelPipeline: its *)
(* layers show what they have to, for all modes, limits, sizes, places and *)
(* memories that its assumptions allow.                                    *)
(***************************************************************************)
EXTENDS PixelPipeline, SequenceTheorems, TLAPS

(***************************************************************************)
(* The timing generator.                                                   *)
(***************************************************************************)
(* What is known when one frame has begun since the last disturbance: the  *)
(* counters are inside their limits, and the picture has its right and its *)
(* lower edge.                                                             *)
FirstFrame ==
  settled >= 1 =>
    /\ h_count <= t.h_total /\ v_count <= t.v_total
    /\ t.h_start < h_count /\ h_count <= t.h_end => h_act = 1
    /\ t.h_end < h_count => h_act = 0
    /\ t.v_start < v_count /\ v_count <= t.v_end => v_act = 1
    /\ t.v_end < v_count => v_act = 0
    /\ t.h_end + 1 < h_count => pre_vga_de = 0

(* ... and when two have: all edges, and the coordinates. *)
LinesInv ==
  settled = 2 =>
    /\ h_act = 1 <=> t.h_start < h_count /\ h_count <= t.h_end
    /\ h_act = 1 => pixel_x = h_count - t.h_start - 1
    /\ t.h_sync < h_count => vga_hs_in = 1
PictureInv ==
  settled = 2 =>
    /\ v_act = 1 <=> t.v_start < v_count /\ v_count <= t.v_end
    /\ v_act = 1 => pixel_y = v_count - t.v_start - (IF h_count <= t.h_start THEN 1 ELSE 0)
    /\ t.v_sync < v_count => vga_vs_in = 1
EnableInv ==
  settled = 2 =>
    /\ pre_vga_de = 1 <=> v_act = 1 /\ t.h_start + 1 < h_count /\ h_count <= t.h_end + 1
    /\ vga_de_in = 1 <=> v_act = 1 /\ t.h_start + 2 < h_count /\ h_count <= t.h_end + 2
DrawnInv ==
  settled = 2 =>
    last = IF v_act = 1 /\ t.h_start + 1 < h_count
           THEN <<IF h_count <= t.h_end + 1 THEN h_count - t.h_start - 1
                  ELSE t.h_end - t.h_start,
                  v_count - t.v_start>>
           ELSE IF v_act = 1 /\ t.v_start + 1 < v_count
           THEN <<t.h_end - t.h_start, v_count - t.v_start - 1>>
           ELSE LastPixel(mode)

VideoInv ==
  TypeOK /\ FirstFrame /\ LinesInv /\ PictureInv /\ EnableInv /\ DrawnInv

-----------------------------------------------------------------------------
LEMMA Limits ==
  ASSUME NEW m \in Modes
  PROVE  /\ COUNT \in Nat
         /\ Timing[m].h_total \in 0 .. COUNT - 1 /\ Timing[m].h_sync \in 0 .. COUNT - 1
         /\ Timing[m].h_start \in 0 .. COUNT - 1 /\ Timing[m].h_end \in 0 .. COUNT - 1
         /\ Timing[m].v_total \in 0 .. COUNT - 1 /\ Timing[m].v_sync \in 0 .. COUNT - 1
         /\ Timing[m].v_start \in 0 .. COUNT - 1 /\ Timing[m].v_end \in 0 .. COUNT - 1
         /\ Timing[m].h_sync < Timing[m].h_start /\ Timing[m].h_start < Timing[m].h_end
         /\ Timing[m].h_end + 2 <= Timing[m].h_total
         /\ Timing[m].v_sync < Timing[m].v_start /\ Timing[m].v_start < Timing[m].v_end
         /\ Timing[m].v_end < Timing[m].v_total
         /\ LastPixel(m) \in (0 .. COUNT - 1) \X (0 .. COUNT - 1)
<1> DEFINE l == Timing[m]
<1>1. /\ COUNT \in Nat
      /\ {l.h_total, l.h_sync, l.h_start, l.h_end} \subseteq 0 .. COUNT - 1
      /\ {l.v_total, l.v_sync, l.v_start, l.v_end} \subseteq 0 .. COUNT - 1
      /\ l.h_sync < l.h_start /\ l.h_start < l.h_end /\ l.h_end + 2 <= l.h_total
      /\ l.v_sync < l.v_start /\ l.v_start < l.v_end /\ l.v_end < l.v_total
  BY CountAssumption, TimingAssumption DEF TimingAssumption, CountAssumption
<1>2. QED
  BY <1>1 DEF LastPixel

(* A counter that counts up and wraps around stays in its width. *)
LEMMA Wraps ==
  ASSUME COUNT \in Nat, NEW n \in 0 .. COUNT - 1
  PROVE  /\ (n + 1) % COUNT \in 0 .. COUNT - 1
         /\ n + 1 < COUNT => (n + 1) % COUNT = n + 1
<1>1. COUNT > 0 /\ n + 1 \in Nat
  OBVIOUS
<1>2. QED
  BY <1>1, SMT

-----------------------------------------------------------------------------
LEMMA TypeInit == Init => TypeOK
<1> SUFFICES ASSUME Init PROVE TypeOK
  OBVIOUS
<1>1. mode \in Modes
  BY DEF Init
<1>2. 0 \in 0 .. COUNT - 1 /\ last \in (0 .. COUNT - 1) \X (0 .. COUNT - 1)
  BY <1>1, Limits DEF Init
<1>3. QED
  BY <1>1, <1>2 DEF Init, TypeOK

LEMMA TypeStep == TypeOK /\ [Next]_vars => TypeOK'
<1> SUFFICES ASSUME TypeOK, [Next]_vars PROVE TypeOK'
  OBVIOUS
<1>1. CASE Clock
  <2>1. /\ (h_count + 1) % COUNT \in 0 .. COUNT - 1
        /\ (v_count + 1) % COUNT \in 0 .. COUNT - 1
        /\ (pixel_x + 1) % COUNT \in 0 .. COUNT - 1
        /\ (pixel_y + 1) % COUNT \in 0 .. COUNT - 1
        /\ 0 \in 0 .. COUNT - 1
    BY Wraps, CountAssumption DEF TypeOK, CountAssumption
  <2>2. /\ h_count' \in 0 .. COUNT - 1 /\ pixel_x' \in 0 .. COUNT - 1
        /\ h_act' \in {0, 1} /\ vga_hs_in' \in {0, 1}
    BY <1>1, <2>1 DEF Clock, Horizontal, Bit, TypeOK
  <2>3. /\ v_count' \in 0 .. COUNT - 1
        /\ v_act' \in {0, 1} /\ vga_vs_in' \in {0, 1} /\ refresh_image' \in {0, 1}
    <3>1. CASE h_max
      BY <1>1, <2>1, <3>1 DEF Clock, Vertical, v_max, Bit, TypeOK
    <3>2. CASE ~h_max
      BY <1>1, <3>2 DEF Clock, Vertical, TypeOK
    <3>3. QED BY <3>1, <3>2
  <2>4. pixel_y' \in 0 .. COUNT - 1
    BY <1>1, <2>1 DEF Clock, PixelLine, TypeOK
  <2>5. pre_vga_de' \in {0, 1} /\ vga_de_in' \in {0, 1}
    BY <1>1 DEF Clock, DataEnable, Bit, TypeOK
  <2>6. settled' \in 0 .. 2 /\ mode' \in Modes
    BY <1>1 DEF Clock, TypeOK
  <2>7. last' \in (0 .. COUNT - 1) \X (0 .. COUNT - 1)
    BY <1>1, <2>2, <2>4, Limits DEF Clock, TypeOK
  <2>8. QED
    BY <2>2, <2>3, <2>4, <2>5, <2>6, <2>7 DEF TypeOK
<1>2. CASE ChangeMode
  BY <1>2, Limits DEF ChangeMode, TypeOK, horizontal, vertical
<1>3. CASE LoseLock
  BY <1>3, Limits DEF LoseLock, ResetValues, TypeOK
<1>4. CASE UNCHANGED vars
  BY <1>4 DEF vars, horizontal, vertical, TypeOK
<1>5. QED
  BY <1>1, <1>2, <1>3, <1>4 DEF Next

(* The counters and registers of the generator have their types.           *)
THEOREM TypeCorrect == Spec => []TypeOK
<1>1. QED
  BY TypeInit, TypeStep, PTL DEF Spec

-----------------------------------------------------------------------------
LEMMA VideoInit == Init => VideoInv
<1> SUFFICES ASSUME Init PROVE VideoInv
  OBVIOUS
<1>1. TypeOK
  BY TypeInit
<1>2. mode \in Modes
  BY DEF Init
<1>3. t.h_start \in Nat /\ t.h_total \in Nat /\ t.h_end \in Nat /\ t.h_sync \in Nat
      /\ t.v_start \in Nat /\ t.v_total \in Nat /\ t.v_end \in Nat /\ t.v_sync \in Nat
  BY <1>2, Limits DEF t
<1>4. FirstFrame
  BY <1>3 DEF Init, FirstFrame
<1>5. LinesInv /\ PictureInv
  BY <1>3 DEF Init, LinesInv, PictureInv
<1>6. EnableInv /\ DrawnInv
  BY <1>3 DEF Init, EnableInv, DrawnInv
<1>7. QED
  BY <1>1, <1>4, <1>5, <1>6 DEF VideoInv

(* Nothing is claimed just after a change of the limits.                   *)
LEMMA ChangeKeeps == VideoInv /\ ChangeMode => VideoInv'
<1> SUFFICES ASSUME VideoInv, ChangeMode PROVE VideoInv'
  OBVIOUS
<1>1. TypeOK'
  BY TypeStep DEF VideoInv, Next
<1>2. settled' = 0
  BY DEF ChangeMode
<1>3. QED
  BY <1>1, <1>2 DEF VideoInv, FirstFrame, LinesInv, PictureInv, EnableInv, DrawnInv

LEMMA ResetKeeps == VideoInv /\ LoseLock => VideoInv'
<1> SUFFICES ASSUME VideoInv, LoseLock PROVE VideoInv'
  OBVIOUS
<1>1. TypeOK'
  BY TypeStep DEF VideoInv, Next
<1>2. mode \in Modes /\ mode' = mode /\ t' = t
  BY DEF VideoInv, TypeOK, LoseLock, t
<1>3. t.h_start \in Nat /\ t.h_total \in Nat /\ t.h_end \in Nat /\ t.h_sync \in Nat
      /\ t.v_start \in Nat /\ t.v_total \in Nat /\ t.v_end \in Nat /\ t.v_sync \in Nat
  BY <1>2, Limits DEF t
<1>4. FirstFrame'
  BY <1>2, <1>3 DEF LoseLock, ResetValues, FirstFrame
<1>5. LinesInv' /\ PictureInv'
  BY <1>2, <1>3 DEF LoseLock, ResetValues, LinesInv, PictureInv
<1>6. EnableInv' /\ DrawnInv'
  BY <1>2, <1>3 DEF LoseLock, ResetValues, EnableInv, DrawnInv, LastPixel
<1>7. QED
  BY <1>1, <1>4, <1>5, <1>6 DEF VideoInv

(* How the counters move: together with Wraps this is all that the steps   *)
(* of the invariant need to know of them.                                  *)
LEMMA Counting ==
  ASSUME VideoInv, Clock
  PROVE  /\ h_max => h_count' = 0
         /\ h_max /\ v_max => v_count' = 0
         /\ settled >= 1 /\ ~h_max => h_count' = h_count + 1 /\ h_count < t.h_total
         /\ settled >= 1 /\ h_max /\ ~v_max => v_count' = v_count + 1 /\ v_count < t.v_total
         /\ ~h_max => v_count' = v_count /\ v_act' = v_act /\ vga_vs_in' = vga_vs_in
<1>1. /\ mode \in Modes /\ COUNT \in Nat
      /\ h_count \in 0 .. COUNT - 1 /\ v_count \in 0 .. COUNT - 1
  BY CountAssumption DEF VideoInv, TypeOK, CountAssumption
<1>2. t.h_total \in 0 .. COUNT - 1 /\ t.v_total \in 0 .. COUNT - 1
  BY <1>1, Limits DEF t
<1>3. settled >= 1 => h_count <= t.h_total /\ v_count <= t.v_total
  BY DEF VideoInv, FirstFrame
<1>4. settled >= 1 /\ ~h_max => h_count' = h_count + 1 /\ h_count < t.h_total
  <2>1. SUFFICES ASSUME settled >= 1, ~h_max
                 PROVE  h_count' = h_count + 1 /\ h_count < t.h_total
    OBVIOUS
  <2>2. h_count < t.h_total /\ h_count + 1 < COUNT
    BY <1>1, <1>2, <1>3, <2>1 DEF h_max
  <2>3. QED
    BY <1>1, <2>1, <2>2, Wraps DEF Clock, Horizontal
<1>5. settled >= 1 /\ h_max /\ ~v_max => v_count' = v_count + 1 /\ v_count < t.v_total
  <2>1. SUFFICES ASSUME settled >= 1, h_max, ~v_max
                 PROVE  v_count' = v_count + 1 /\ v_count < t.v_total
    OBVIOUS
  <2>2. v_count < t.v_total /\ v_count + 1 < COUNT
    BY <1>1, <1>2, <1>3, <2>1 DEF v_max
  <2>3. QED
    BY <1>1, <2>1, <2>2, Wraps DEF Clock, Vertical
<1>6. /\ h_max => h_count' = 0
      /\ h_max /\ v_max => v_count' = 0
      /\ ~h_max => v_count' = v_count /\ v_act' = v_act /\ vga_vs_in' = vga_vs_in
  BY DEF Clock, Horizontal, Vertical
<1>7. QED
  BY <1>4, <1>5, <1>6

(* One clock: first the counters and edges, ...                            *)
LEMMA ClockKeepsLines ==
  ASSUME VideoInv, Clock
  PROVE  FirstFrame' /\ LinesInv'
<1>1. /\ mode \in Modes /\ h_count \in Nat /\ v_count \in Nat
      /\ settled \in 0 .. 2 /\ h_act \in {0, 1} /\ v_act \in {0, 1}
      /\ pixel_x \in 0 .. COUNT - 1 /\ pre_vga_de \in {0, 1}
  BY CountAssumption DEF VideoInv, TypeOK, CountAssumption
<1>2. /\ t.h_start \in Nat /\ t.h_total \in Nat /\ t.h_end \in Nat /\ t.h_sync \in Nat
      /\ t.v_start \in Nat /\ t.v_total \in Nat /\ t.v_end \in Nat /\ t.v_sync \in Nat
      /\ t.h_sync < t.h_start /\ t.h_start < t.h_end /\ t.h_end + 2 <= t.h_total
      /\ t.v_sync < t.v_start /\ t.v_start < t.v_end /\ t.v_end < t.v_total
      /\ t.h_total < COUNT /\ COUNT \in Nat
  BY <1>1, Limits DEF t
<1>3. mode' = mode /\ t' = t
  BY DEF Clock, t
<1>4. settled' = IF h_max /\ v_max /\ settled < 2 THEN settled + 1 ELSE settled
  BY DEF Clock
<1>5. FirstFrame'
  <2>1. SUFFICES ASSUME settled' >= 1
                 PROVE  /\ h_count' <= t.h_total /\ v_count' <= t.v_total
                        /\ t.h_start < h_count' /\ h_count' <= t.h_end => h_act' = 1
                        /\ t.h_end < h_count' => h_act' = 0
                        /\ t.v_start < v_count' /\ v_count' <= t.v_end => v_act' = 1
                        /\ t.v_end < v_count' => v_act' = 0
                        /\ t.h_end + 1 < h_count' => pre_vga_de' = 0
    BY <1>3 DEF FirstFrame
  <2>2. CASE settled = 0
    <3>1. h_max /\ v_max /\ h_count' = 0 /\ v_count' = 0
      BY <1>1, <1>4, <2>1, <2>2, Counting
    <3>2. QED
      BY <1>2, <3>1
  <2>3. CASE settled >= 1
    <3>1. /\ t.h_start < h_count /\ h_count <= t.h_end => h_act = 1
          /\ t.h_end < h_count => h_act = 0
          /\ t.v_start < v_count /\ v_count <= t.v_end => v_act = 1
          /\ t.v_end < v_count => v_act = 0
          /\ h_count <= t.h_total /\ v_count <= t.v_total
      BY <2>3 DEF VideoInv, FirstFrame
    <3>2. h_act' = Bit(h_count = t.h_start \/ (h_act = 1 /\ h_count # t.h_end))
      BY DEF Clock, Horizontal
    <3>3. pre_vga_de' = Bit(v_act = 1 /\ h_act = 1)
      BY DEF Clock, DataEnable
    <3>4. CASE ~h_max
      BY <1>1, <1>2, <2>3, <3>1, <3>2, <3>3, <3>4, Counting DEF Bit
    <3>5. CASE h_max
      <4>1. h_count' = 0
        BY <3>5, Counting
      <4>2. v_act' = Bit(v_count = t.v_start \/ (v_act = 1 /\ v_count # t.v_end))
        BY <3>5 DEF Clock, Vertical
      <4>3. CASE v_max
        BY <1>2, <3>5, <4>1, <4>3, Counting
      <4>4. CASE ~v_max
        BY <1>1, <1>2, <2>3, <3>1, <3>5, <4>1, <4>2, <4>4, Counting DEF Bit
      <4>5. QED BY <4>3, <4>4
    <3>6. QED BY <3>4, <3>5
  <2>4. QED
    BY <1>1, <2>2, <2>3
<1>6. LinesInv'
  <2>1. SUFFICES ASSUME settled' = 2
                 PROVE  /\ h_act' = 1 <=> t.h_start < h_count' /\ h_count' <= t.h_end
                        /\ h_act' = 1 => pixel_x' = h_count' - t.h_start - 1
                        /\ t.h_sync < h_count' => vga_hs_in' = 1
    BY <1>3 DEF LinesInv
  <2>2. /\ h_act' = Bit(h_count = t.h_start \/ (h_act = 1 /\ h_count # t.h_end))
        /\ pixel_x' = IF h_act = 1 THEN (pixel_x + 1) % COUNT ELSE 0
        /\ vga_hs_in' = Bit(h_count >= t.h_sync /\ ~h_max)
    BY DEF Clock, Horizontal
  <2>3. settled >= 1
    BY <1>1, <1>4, <2>1
  <2>4. CASE h_max
    <3>1. h_count = t.h_total /\ h_count' = 0
      BY <2>4, Counting DEF h_max
    <3>2. h_act = 0
      BY <1>2, <2>3, <3>1 DEF VideoInv, FirstFrame
    <3>3. QED
      BY <1>2, <2>2, <3>1, <3>2 DEF Bit
  <2>5. CASE ~h_max
    <3>1. settled = 2
      BY <1>4, <2>1, <2>5
    <3>2. /\ h_act = 1 <=> t.h_start < h_count /\ h_count <= t.h_end
          /\ h_act = 1 => pixel_x = h_count - t.h_start - 1
      BY <3>1 DEF VideoInv, LinesInv
    <3>3. h_count' = h_count + 1 /\ h_count < t.h_total
      BY <2>3, <2>5, Counting
    <3>4. h_act = 1 => pixel_x + 1 < COUNT
      BY <1>1, <1>2, <3>2, <3>3
    <3>5. h_act = 1 => pixel_x' = h_count - t.h_start
      BY <1>1, <1>2, <2>2, <3>2, <3>4, Wraps
    <3>6. h_act' = 1 <=> t.h_start < h_count' /\ h_count' <= t.h_end
      BY <1>1, <1>2, <2>2, <3>2, <3>3 DEF Bit
    <3>7. h_act' = 1 => pixel_x' = h_count' - t.h_start - 1
      BY <1>1, <1>2, <2>2, <3>2, <3>3, <3>5, <3>6
    <3>8. t.h_sync < h_count' => vga_hs_in' = 1
      BY <1>1, <1>2, <2>2, <2>5, <3>3 DEF Bit
    <3>9. QED
      BY <3>6, <3>7, <3>8
  <2>6. QED
    BY <2>4, <2>5
<1>7. QED
  BY <1>5, <1>6

(* ... then the lines of the picture, the data enable and the pixels.      *)
LEMMA ClockKeepsPicture ==
  ASSUME VideoInv, Clock
  PROVE  PictureInv'
<1>1. /\ mode \in Modes /\ h_count \in Nat /\ v_count \in Nat
      /\ settled \in 0 .. 2 /\ v_act \in {0, 1} /\ pixel_y \in 0 .. COUNT - 1
  BY CountAssumption DEF VideoInv, TypeOK, CountAssumption
<1>2. /\ t.h_start \in Nat /\ t.h_total \in Nat /\ t.h_end \in Nat
      /\ t.v_start \in Nat /\ t.v_total \in Nat /\ t.v_end \in Nat /\ t.v_sync \in Nat
      /\ t.h_start < t.h_end /\ t.h_end + 2 <= t.h_total
      /\ t.v_sync < t.v_start /\ t.v_start < t.v_end /\ t.v_end < t.v_total
      /\ t.v_total < COUNT /\ COUNT \in Nat
  BY <1>1, Limits DEF t
<1>3. mode' = mode /\ t' = t
  BY DEF Clock, t
<1>4. settled' = IF h_max /\ v_max /\ settled < 2 THEN settled + 1 ELSE settled
  BY DEF Clock
<1>5. pixel_y' = IF v_act = 0 THEN 0
                 ELSE IF h_count = t.h_start THEN (pixel_y + 1) % COUNT ELSE pixel_y
  BY DEF Clock, PixelLine
<1>6. SUFFICES ASSUME settled' = 2
               PROVE  /\ v_act' = 1 <=> t.v_start < v_count' /\ v_count' <= t.v_end
                      /\ v_act' = 1 => pixel_y' = v_count' - t.v_start
                                           - (IF h_count' <= t.h_start THEN 1 ELSE 0)
                      /\ t.v_sync < v_count' => vga_vs_in' = 1
  BY <1>3 DEF PictureInv
<1>7. settled >= 1
  BY <1>1, <1>4, <1>6
<1>8. CASE ~h_max
  <2>1. settled = 2
    BY <1>4, <1>6, <1>8
  <2>2. /\ v_act = 1 <=> t.v_start < v_count /\ v_count <= t.v_end
        /\ v_act = 1 => pixel_y = v_count - t.v_start - (IF h_count <= t.h_start THEN 1 ELSE 0)
        /\ t.v_sync < v_count => vga_vs_in = 1
    BY <2>1 DEF VideoInv, PictureInv
  <2>3. v_count' = v_count /\ v_act' = v_act /\ vga_vs_in' = vga_vs_in /\ h_count' = h_count + 1
    BY <1>7, <1>8, Counting
  <2>4. v_act = 1 /\ h_count = t.h_start => pixel_y + 1 < COUNT
    BY <1>1, <1>2, <2>2
  <2>5. v_act = 1 /\ h_count = t.h_start => pixel_y' = pixel_y + 1
    <3>1. pixel_y + 1 < COUNT => (pixel_y + 1) % COUNT = pixel_y + 1
      BY <1>1, <1>2, Wraps
    <3>2. QED
      BY <1>1, <1>5, <2>4, <3>1
  <2>6. v_act = 1 => pixel_y' = v_count - t.v_start - (IF h_count + 1 <= t.h_start THEN 1 ELSE 0)
    <3>1. CASE h_count = t.h_start
      BY <1>1, <1>2, <2>2, <2>5, <3>1
    <3>2. CASE h_count # t.h_start
      BY <1>1, <1>2, <1>5, <2>2, <3>2
    <3>3. QED BY <3>1, <3>2
  <2>7. QED
    BY <2>2, <2>3, <2>6
<1>9. CASE h_max
  <2>1. h_count = t.h_total /\ h_count' = 0
    BY <1>9, Counting DEF h_max
  <2>2. /\ v_act' = Bit(v_count = t.v_start \/ (v_act = 1 /\ v_count # t.v_end))
        /\ vga_vs_in' = Bit(v_count >= t.v_sync /\ ~v_max)
    BY <1>9 DEF Clock, Vertical
  <2>3. CASE v_max
    <3>1. v_count = t.v_total /\ v_count' = 0
      BY <1>9, <2>3, Counting DEF v_max
    <3>2. v_act = 0
      BY <1>2, <1>7, <3>1 DEF VideoInv, FirstFrame
    <3>3. QED
      BY <1>2, <2>2, <3>1, <3>2 DEF Bit
  <2>4. CASE ~v_max
    <3>1. settled = 2
      BY <1>4, <1>6, <2>4
    <3>2. /\ v_act = 1 <=> t.v_start < v_count /\ v_count <= t.v_end
          /\ v_act = 1 => pixel_y = v_count - t.v_start
      BY <1>1, <1>2, <2>1, <3>1 DEF VideoInv, PictureInv
    <3>3. v_count' = v_count + 1
      BY <1>7, <1>9, <2>4, Counting
    <3>4. h_count # t.h_start
      BY <1>2, <2>1
    <3>5. v_act' = 1 <=> t.v_start < v_count' /\ v_count' <= t.v_end
      BY <1>1, <1>2, <2>2, <3>2, <3>3 DEF Bit
    <3>6. v_act' = 1 => pixel_y' = v_count' - t.v_start - 1
      BY <1>1, <1>2, <1>5, <3>2, <3>3, <3>4, <3>5
    <3>7. t.v_sync < v_count' => vga_vs_in' = 1
      BY <1>1, <1>2, <2>2, <2>4, <3>3 DEF Bit
    <3>8. QED
      BY <1>2, <2>1, <3>5, <3>6, <3>7
  <2>5. QED
    BY <2>3, <2>4
<1>10. QED
  BY <1>8, <1>9

LEMMA ClockKeepsEnable ==
  ASSUME VideoInv, Clock
  PROVE  EnableInv'
<1>1. /\ mode \in Modes /\ h_count \in Nat /\ v_count \in Nat
      /\ settled \in 0 .. 2 /\ v_act \in {0, 1} /\ h_act \in {0, 1}
      /\ pre_vga_de \in {0, 1}
  BY CountAssumption DEF VideoInv, TypeOK, CountAssumption
<1>2. /\ t.h_start \in Nat /\ t.h_total \in Nat /\ t.h_end \in Nat
      /\ t.h_start < t.h_end /\ t.h_end + 2 <= t.h_total
  BY <1>1, Limits DEF t
<1>3. mode' = mode /\ t' = t
  BY DEF Clock, t
<1>4. settled' = IF h_max /\ v_max /\ settled < 2 THEN settled + 1 ELSE settled
  BY DEF Clock
<1>5. pre_vga_de' = Bit(v_act = 1 /\ h_act = 1) /\ vga_de_in' = pre_vga_de
  BY DEF Clock, DataEnable
<1>6. SUFFICES ASSUME settled' = 2
      PROVE  /\ pre_vga_de' = 1 <=> v_act' = 1 /\ t.h_start + 1 < h_count' /\ h_count' <= t.h_end + 1
             /\ vga_de_in' = 1 <=> v_act' = 1 /\ t.h_start + 2 < h_count' /\ h_count' <= t.h_end + 2
  BY <1>3 DEF EnableInv
<1>7. settled >= 1
  BY <1>1, <1>4, <1>6
<1>8. CASE ~h_max
  <2>1. settled = 2
    BY <1>4, <1>6, <1>8
  <2>2. /\ h_act = 1 <=> t.h_start < h_count /\ h_count <= t.h_end
        /\ pre_vga_de = 1 <=> v_act = 1 /\ t.h_start + 1 < h_count /\ h_count <= t.h_end + 1
    BY <2>1 DEF VideoInv, LinesInv, EnableInv
  <2>3. v_act' = v_act /\ h_count' = h_count + 1
    BY <1>7, <1>8, Counting
  <2>4. QED
    BY <1>1, <1>2, <1>5, <2>2, <2>3 DEF Bit
<1>9. CASE h_max
  <2>1. h_count = t.h_total /\ h_count' = 0
    BY <1>9, Counting DEF h_max
  <2>2. h_act = 0 /\ pre_vga_de = 0
    BY <1>1, <1>2, <1>7, <2>1 DEF VideoInv, FirstFrame
  <2>3. QED
    BY <1>1, <1>2, <1>5, <2>1, <2>2 DEF Bit
<1>10. QED
  BY <1>8, <1>9

(* What the pixel is that pre_vga_de enables.                              *)
LEMMA PixelDrawn ==
  ASSUME VideoInv, Clock, settled = 2, pre_vga_de' = 1
  PROVE  /\ v_act = 1 /\ t.h_start < h_count /\ h_count <= t.h_end
         /\ t.v_start < v_count /\ v_count <= t.v_end
         /\ pixel_x' = h_count - t.h_start /\ pixel_y' = v_count - t.v_start
<1>1. /\ mode \in Modes /\ h_count \in Nat /\ v_count \in Nat
      /\ v_act \in {0, 1} /\ h_act \in {0, 1}
      /\ pixel_x \in 0 .. COUNT - 1 /\ pixel_y \in 0 .. COUNT - 1
  BY CountAssumption DEF VideoInv, TypeOK, CountAssumption
<1>2. /\ t.h_start \in Nat /\ t.h_end \in Nat /\ t.v_start \in Nat /\ t.v_end \in Nat
      /\ t.h_start < t.h_end /\ t.h_end < COUNT /\ COUNT \in Nat
  BY <1>1, Limits DEF t
<1>3. v_act = 1 /\ h_act = 1
  BY <1>1 DEF Clock, DataEnable, Bit
<1>4. /\ t.h_start < h_count /\ h_count <= t.h_end
      /\ pixel_x = h_count - t.h_start - 1
  BY <1>3 DEF VideoInv, LinesInv
<1>5. /\ t.v_start < v_count /\ v_count <= t.v_end
      /\ pixel_y = v_count - t.v_start
  BY <1>1, <1>2, <1>3, <1>4 DEF VideoInv, PictureInv
<1>6. pixel_x + 1 < COUNT
  BY <1>1, <1>2, <1>4
<1>7. (pixel_x + 1) % COUNT = pixel_x + 1
  BY <1>1, <1>2, <1>6, Wraps
<1>8. pixel_x' = pixel_x + 1 /\ pixel_y' = pixel_y
  BY <1>1, <1>2, <1>3, <1>4, <1>7 DEF Clock, Horizontal, PixelLine
<1>9. QED
  BY <1>1, <1>2, <1>3, <1>4, <1>5, <1>8

LEMMA ClockKeepsDrawn ==
  ASSUME VideoInv, Clock
  PROVE  DrawnInv'
<1>1. /\ mode \in Modes /\ h_count \in Nat /\ v_count \in Nat
      /\ settled \in 0 .. 2 /\ v_act \in {0, 1} /\ h_act \in {0, 1}
  BY CountAssumption DEF VideoInv, TypeOK, CountAssumption
<1>2. /\ t.h_start \in Nat /\ t.h_total \in Nat /\ t.h_end \in Nat
      /\ t.v_start \in Nat /\ t.v_total \in Nat /\ t.v_end \in Nat
      /\ t.h_start < t.h_end /\ t.h_end + 2 <= t.h_total
      /\ t.v_start < t.v_end /\ t.v_end < t.v_total
  BY <1>1, Limits DEF t
<1>3. mode' = mode /\ t' = t /\ LastPixel(mode)' = LastPixel(mode)
  BY DEF Clock, t, LastPixel
<1>4. LastPixel(mode) = <<t.h_end - t.h_start, t.v_end - t.v_start>>
  BY DEF LastPixel, t
<1>5. /\ settled' = IF h_max /\ v_max /\ settled < 2 THEN settled + 1 ELSE settled
      /\ last' = IF settled < 2 THEN LastPixel(mode)
                 ELSE IF pre_vga_de' = 1 THEN <<pixel_x', pixel_y'>> ELSE last
      /\ pre_vga_de' = Bit(v_act = 1 /\ h_act = 1)
  BY DEF Clock, DataEnable
<1> DEFINE W == t.h_end - t.h_start
<1>6. SUFFICES ASSUME settled' = 2
      PROVE  last' = IF v_act' = 1 /\ t.h_start + 1 < h_count'
                     THEN <<IF h_count' <= t.h_end + 1 THEN h_count' - t.h_start - 1 ELSE W,
                            v_count' - t.v_start>>
                     ELSE IF v_act' = 1 /\ t.v_start + 1 < v_count'
                     THEN <<W, v_count' - t.v_start - 1>>
                     ELSE LastPixel(mode)
  BY <1>3 DEF DrawnInv
<1>7. CASE settled # 2
  <2>1. h_max /\ v_max /\ settled < 2 /\ h_count' = 0 /\ v_count' = 0
    BY <1>1, <1>5, <1>6, <1>7, Counting
  <2>2. QED
    BY <1>2, <1>5, <2>1
<1>8. CASE settled = 2
  <2>1. /\ h_act = 1 <=> t.h_start < h_count /\ h_count <= t.h_end
        /\ v_act = 1 <=> t.v_start < v_count /\ v_count <= t.v_end
    BY <1>8 DEF VideoInv, LinesInv, PictureInv
  <2>2. last = IF v_act = 1 /\ t.h_start + 1 < h_count
               THEN <<IF h_count <= t.h_end + 1 THEN h_count - t.h_start - 1 ELSE W,
                      v_count - t.v_start>>
               ELSE IF v_act = 1 /\ t.v_start + 1 < v_count
               THEN <<W, v_count - t.v_start - 1>>
               ELSE LastPixel(mode)
    BY <1>8 DEF VideoInv, DrawnInv
  <2>3. CASE pre_vga_de' = 1
    <3>1. /\ v_act = 1 /\ t.h_start < h_count /\ h_count <= t.h_end
          /\ pixel_x' = h_count - t.h_start /\ pixel_y' = v_count - t.v_start
      BY <1>8, <2>3, PixelDrawn
    <3>2. ~h_max
      BY <1>1, <1>2, <3>1 DEF h_max
    <3>3. h_count' = h_count + 1 /\ v_count' = v_count /\ v_act' = v_act
      BY <1>8, <3>2, Counting
    <3>4. last' = <<pixel_x', pixel_y'>>
      BY <1>5, <1>8, <2>3
    <3>5. QED
      BY <1>1, <1>2, <3>1, <3>3, <3>4
  <2>4. CASE pre_vga_de' # 1
    <3>1. last' = last
      BY <1>5, <1>8, <2>4
    <3>2. ~(v_act = 1 /\ h_act = 1)
      BY <1>5, <2>4 DEF Bit
    <3>3. CASE ~h_max
      <4>1. h_count' = h_count + 1 /\ v_count' = v_count /\ v_act' = v_act
        BY <1>8, <3>3, Counting
      <4>2. v_act = 1 => h_count <= t.h_start \/ t.h_end < h_count
        BY <1>1, <1>2, <2>1, <3>2
      <4>3. CASE v_act = 1 /\ t.h_end < h_count
        BY <1>1, <1>2, <2>2, <3>1, <4>1, <4>3
      <4>4. CASE v_act = 0 \/ h_count <= t.h_start
        BY <1>1, <1>2, <2>2, <3>1, <4>1, <4>4
      <4>5. QED
        BY <1>1, <1>2, <4>2, <4>3, <4>4
    <3>4. CASE h_max
      <4>1. h_count = t.h_total /\ h_count' = 0
        BY <3>4, Counting DEF h_max
      <4>2. last = IF v_act = 1 THEN <<W, v_count - t.v_start>> ELSE LastPixel(mode)
        BY <1>1, <1>2, <1>4, <2>1, <2>2, <4>1
      <4>3. v_act' = Bit(v_count = t.v_start \/ (v_act = 1 /\ v_count # t.v_end))
        BY <3>4 DEF Clock, Vertical
      <4>4. CASE v_max
        <5>1. v_count = t.v_total /\ v_count' = 0
          BY <3>4, <4>4, Counting DEF v_max
        <5>2. v_act = 0 /\ v_act' = 0
          BY <1>1, <1>2, <2>1, <4>3, <5>1 DEF Bit
        <5>3. QED
          BY <3>1, <4>2, <5>2
      <4>5. CASE ~v_max
        <5>1. v_count' = v_count + 1
          BY <1>8, <3>4, <4>5, Counting
        <5>2. CASE v_act = 1 /\ v_count # t.v_end
          BY <1>1, <1>2, <2>1, <3>1, <4>1, <4>2, <4>3, <5>1, <5>2 DEF Bit
        <5>3. CASE v_act = 1 /\ v_count = t.v_end
          BY <1>1, <1>2, <1>4, <2>1, <3>1, <4>2, <4>3, <5>3 DEF Bit
        <5>4. CASE v_act = 0
          BY <1>1, <1>2, <3>1, <4>1, <4>2, <4>3, <5>1, <5>4 DEF Bit
        <5>5. QED
          BY <1>1, <5>2, <5>3, <5>4
      <4>6. QED
        BY <4>4, <4>5
    <3>5. QED
      BY <3>3, <3>4
  <2>5. QED
    BY <2>3, <2>4
<1>9. QED
  BY <1>7, <1>8

-----------------------------------------------------------------------------
LEMMA VideoStep == VideoInv /\ [Next]_vars => VideoInv'
<1> SUFFICES ASSUME VideoInv, [Next]_vars PROVE VideoInv'
  OBVIOUS
<1>1. CASE Clock
  <2>1. TypeOK'
    BY TypeStep DEF VideoInv
  <2>2. QED
    BY <1>1, <2>1, ClockKeepsLines, ClockKeepsPicture, ClockKeepsEnable, ClockKeepsDrawn
       DEF VideoInv
<1>2. CASE ChangeMode
  BY <1>2, ChangeKeeps
<1>3. CASE LoseLock
  BY <1>3, ResetKeeps
<1>4. CASE UNCHANGED vars
  <2>1. TypeOK' /\ t' = t /\ LastPixel(mode)' = LastPixel(mode)
    BY <1>4, TypeStep DEF VideoInv, vars, t, LastPixel
  <2>2. QED
    BY <1>4, <2>1 DEF vars, horizontal, vertical, VideoInv, FirstFrame, LinesInv,
                      PictureInv, EnableInv, DrawnInv
<1>5. QED
  BY <1>1, <1>2, <1>3, <1>4 DEF Next

LEMMA VideoInvariant == Spec => []VideoInv
<1>1. QED
  BY VideoInit, VideoStep, PTL DEF Spec

(* The refresh handler is called when the last pixel of the picture has    *)
(* been drawn, and nothing is drawn during a synchronisation pulse.        *)
THEOREM WholeFrames == Spec => []FramesAreWhole
<1>1. VideoInv => FramesAreWhole
  <2>1. SUFFICES ASSUME VideoInv, settled = 2
                 PROVE  /\ h_max /\ v_max => last = LastPixel(mode)
                        /\ vga_de_in = 1 => vga_hs_in = 1 /\ vga_vs_in = 1
    BY DEF FramesAreWhole
  <2>2. /\ mode \in Modes /\ h_count \in Nat /\ v_count \in Nat
        /\ v_act \in {0, 1}
    BY <2>1, CountAssumption DEF VideoInv, TypeOK, CountAssumption
  <2>3. /\ t.h_start \in Nat /\ t.h_total \in Nat /\ t.h_end \in Nat /\ t.h_sync \in Nat
        /\ t.v_start \in Nat /\ t.v_total \in Nat /\ t.v_end \in Nat /\ t.v_sync \in Nat
        /\ t.h_sync < t.h_start /\ t.v_sync < t.v_start /\ t.v_end < t.v_total
    BY <2>2, Limits DEF t
  <2>4. /\ v_act = 1 <=> t.v_start < v_count /\ v_count <= t.v_end
        /\ t.v_sync < v_count => vga_vs_in = 1
        /\ t.h_sync < h_count => vga_hs_in = 1
        /\ vga_de_in = 1 => v_act = 1 /\ t.h_start + 2 < h_count
    BY <2>1 DEF VideoInv, LinesInv, PictureInv, EnableInv
  <2>5. h_max /\ v_max => v_act = 0
    BY <2>2, <2>3, <2>4 DEF v_max
  <2>6. h_max /\ v_max => last = LastPixel(mode)
    BY <2>1, <2>5 DEF VideoInv, DrawnInv
  <2>7. vga_de_in = 1 => vga_hs_in = 1 /\ vga_vs_in = 1
    BY <2>2, <2>3, <2>4
  <2>8. QED
    BY <2>6, <2>7
<1>2. QED
  BY <1>1, VideoInvariant, PTL

(* Once the limits have settled, the pixels are drawn one after the other. *)
THEOREM Raster == Spec => RasterOrder
<1>1. VideoInv /\ [Next]_vars => [NextPixel]_vars
  <2>1. SUFFICES ASSUME VideoInv, Next, settled = 2, settled' = 2, pre_vga_de' = 1, mode' = mode
                 PROVE  <<pixel_x', pixel_y'>> = Following(last)
    BY DEF NextPixel
  <2>2. Clock
    BY <2>1 DEF Next, ChangeMode, LoseLock, ResetValues
  <2>3. /\ mode \in Modes /\ h_count \in Nat /\ v_count \in Nat
    BY <2>1, CountAssumption DEF VideoInv, TypeOK, CountAssumption
  <2>4. /\ t.h_start \in Nat /\ t.h_end \in Nat /\ t.v_start \in Nat /\ t.v_end \in Nat
        /\ t.h_start < t.h_end /\ t.v_start < t.v_end
    BY <2>3, Limits DEF t
  <2>5. LastPixel(mode) = <<t.h_end - t.h_start, t.v_end - t.v_start>>
    BY DEF LastPixel, t
  <2>6. /\ v_act = 1 /\ t.h_start < h_count /\ h_count <= t.h_end
        /\ t.v_start < v_count /\ v_count <= t.v_end
        /\ pixel_x' = h_count - t.h_start /\ pixel_y' = v_count - t.v_start
    BY <2>1, <2>2, PixelDrawn
  <2>7. last = IF t.h_start + 1 < h_count
               THEN <<h_count - t.h_start - 1, v_count - t.v_start>>
               ELSE IF t.v_start + 1 < v_count
               THEN <<t.h_end - t.h_start, v_count - t.v_start - 1>>
               ELSE LastPixel(mode)
    BY <2>1, <2>3, <2>4, <2>6 DEF VideoInv, DrawnInv
  <2>8. QED
    BY <2>3, <2>4, <2>5, <2>6, <2>7 DEF Following
<1>2. QED
  BY <1>1, VideoInvariant, PTL DEF Spec, RasterOrder

(***************************************************************************)
(* The layers.                                                             *)
(***************************************************************************)
(***************************************************************************)
(* The line as the generators are given it: the coordinate and the enable  *)
(* of each count.                                                          *)
(***************************************************************************)
X(h) == IF t.h_start < h /\ h <= t.h_end + 1 THEN h - t.h_start - 1 ELSE 0
De(h) == Bit(v_act = 1 /\ t.h_start + 1 < h /\ h <= t.h_end + 1)

(* The coordinate is that of the count; pixel_y is cleared behind the      *)
(* picture.                                                                *)
CoordinateInv ==
  settled = 2 =>
    /\ pixel_x = X(h_count)
    /\ v_act = 0 /\ h_count >= 1 => pixel_y = 0

LEMMA LineLimits ==
  ASSUME TypeOK
  PROVE  /\ mode \in Modes /\ COUNT \in Nat /\ h_count \in Nat /\ v_count \in Nat
         /\ settled \in 0 .. 2 /\ h_act \in {0, 1} /\ v_act \in {0, 1}
         /\ pixel_x \in 0 .. COUNT - 1 /\ pixel_y \in 0 .. COUNT - 1
         /\ t.h_start \in Nat /\ t.h_end \in Nat /\ t.h_total \in Nat
         /\ t.h_start >= 1 /\ t.h_start < t.h_end /\ t.h_end + 2 <= t.h_total
         /\ t.h_total < COUNT
         /\ t.v_start \in Nat /\ t.v_end \in Nat /\ t.v_total \in Nat
         /\ t.v_start < t.v_end /\ t.v_end < t.v_total
<1>1. mode \in Modes /\ COUNT \in Nat
  BY CountAssumption DEF TypeOK, CountAssumption
<1>2. QED
  BY <1>1, Limits DEF TypeOK, t

LEMMA PictureBegins == TypeOK => t.h_total \in Nat /\ t.h_total >= 3 /\ t.h_total >= 4
<1> SUFFICES ASSUME TypeOK PROVE t.h_total \in Nat /\ t.h_total >= 3 /\ t.h_total >= 4
  OBVIOUS
<1>1. /\ t.h_start \in Nat /\ t.h_end \in Nat /\ t.h_total \in Nat
      /\ t.h_start >= 1 /\ t.h_start < t.h_end /\ t.h_end + 2 <= t.h_total
  BY LineLimits
<1> QED BY <1>1

(* One clock of a settled frame: the coordinates of the next count.        *)
LEMMA LineStep ==
  ASSUME VideoInv, CoordinateInv, Clock, settled' = 2
  PROVE  /\ t' = t /\ mode' = mode
         /\ h_count' = IF h_count = t.h_total THEN 0 ELSE h_count + 1
         /\ CoordinateInv'
         /\ settled = 2 => /\ h_count <= t.h_total
                           /\ h_count # t.h_total => v_act' = v_act
                           /\ t.h_start < h_count => pixel_y' = pixel_y
<1>1. t' = t /\ mode' = mode /\ settled >= 1
  BY LineLimits DEF VideoInv, Clock, t
<1>2. TypeOK /\ TypeOK'
  BY VideoStep DEF VideoInv, Next
<1>3. h_count <= t.h_total /\ v_count <= t.v_total
  BY <1>1 DEF VideoInv, FirstFrame
<1>4. h_count' = IF h_count = t.h_total THEN 0 ELSE h_count + 1
  BY <1>1, Counting DEF h_max
<1>5. h_count # t.h_total => v_act' = v_act
  BY Counting DEF h_max
<1>6. settled = 1 => h_count = t.h_total /\ v_count = t.v_total
  BY DEF Clock, h_max, v_max
<1>7. pixel_x' = X(h_count)'
  <2>1. CASE settled = 1
    <3>1. h_act = 0 /\ h_count' = 0
      BY <1>1, <1>2, <1>4, <1>6, <2>1, LineLimits DEF VideoInv, FirstFrame
    <3> QED BY <1>1, <1>2, <3>1, LineLimits DEF Clock, Horizontal, X
  <2>2. CASE settled = 2
    <3>1. h_act = 1 <=> t.h_start < h_count /\ h_count <= t.h_end
      BY <2>2 DEF VideoInv, LinesInv
    <3>2. CASE h_act = 1
      <4>1. pixel_x = h_count - t.h_start - 1 /\ h_count' = h_count + 1
        BY <1>2, <1>4, <2>2, <3>1, <3>2, LineLimits DEF VideoInv, LinesInv
      <4>2. pixel_x + 1 < COUNT /\ pixel_x \in 0 .. COUNT - 1 /\ COUNT \in Nat
        BY <1>2, <3>1, <3>2, <4>1, LineLimits
      <4>3. pixel_x' = pixel_x + 1
        BY <3>2, <4>2, Wraps DEF Clock, Horizontal
      <4> QED BY <1>1, <1>2, <3>1, <3>2, <4>1, <4>3, LineLimits DEF X
    <3>3. CASE h_act # 1
      <4>1. pixel_x' = 0
        BY <3>3 DEF Clock, Horizontal
      <4> QED BY <1>1, <1>2, <1>3, <1>4, <3>1, <3>3, <4>1, LineLimits DEF X
    <3> QED BY <3>2, <3>3
  <2> QED BY <1>1, <1>2, <2>1, <2>2, LineLimits
<1>8. v_act' = 0 /\ h_count' >= 1 => pixel_y' = 0
  BY <1>2, <1>4, <1>5, LineLimits DEF Clock, PixelLine
<1>9. ASSUME settled = 2, t.h_start < h_count PROVE pixel_y' = pixel_y
  <2>1. h_count >= 1 /\ h_count # t.h_start
    BY <1>2, <1>9, LineLimits
  <2>2. CASE v_act = 0
    BY <1>9, <2>1, <2>2 DEF CoordinateInv, Clock, PixelLine
  <2>3. CASE v_act = 1
    BY <1>2, <2>1, <2>3, LineLimits DEF Clock, PixelLine
  <2> QED BY <1>2, <2>2, <2>3, LineLimits
<1> QED BY <1>1, <1>3, <1>4, <1>5, <1>7, <1>8, <1>9 DEF CoordinateInv

(***************************************************************************)
(* What the generators were given.                                         *)
(***************************************************************************)
APixel == [de : {0, 1}, x : 0 .. COUNT - 1, y : 0 .. COUNT - 1, at : Positions]

(* The last pixels are those of the counts before, of this line: only of   *)
(* pixels of the picture is the line known, the others have x = 0.         *)
AskedIs(n) ==
  h_count + 1 >= n =>
    /\ asked[n].x = X(h_count - n) /\ asked[n].de = De(h_count - n)
    /\ asked[n].x > 0 => asked[n].y = pixel_y

AskedInv ==
  /\ position \in Positions
  /\ asked \in Seq(APixel) /\ Len(asked) \in 0 .. 3
  /\ calm \in 0 .. CALM
  /\ Len(asked) < 3 => calm = Len(asked)
  /\ settled # 2 => asked = << >> /\ calm = 0
  /\ settled = 2 => \A n \in 1 .. Len(asked) : AskedIs(n)
  /\ \A n \in 1 .. Len(asked) : n <= calm => asked[n].at = position

(* What a layer wants, and finds, of the n-th of them.                     *)
W(l, n) == Wanted(l, asked[n])
Wants(l) == Wanted(l, Given)
Memory(l, n) == Answers(l, Address(l, asked[n]))

BufferInv ==
  /\ Len(asked) >= 1 => vga_de_in = asked[1].de
  /\ Len(asked) >= 2 => vga_de[1] = asked[2].de
  /\ Len(asked) = 3 => vga_de[2] = asked[3].de

LayersInv == DOMAIN layer = Layers /\ \A l \in Layers : layer[l].state \in 0 .. 3

(***************************************************************************)
(* The layers of blocks.  They look at the data enable, and find it low    *)
(* when a frame begins: until then (Len(asked) < 3) their state runs out.  *)
(* From then on it tells which of the last two pixels they draw.           *)
(***************************************************************************)
BlankInv == settled = 2 /\ Len(asked) < 3 => h_count = Len(asked) /\ v_act = 0

(* The state that two pixels leave behind: of the last, of the one before. *)
StateOf(one, two) == IF one THEN IF two THEN 2 ELSE 1 ELSE IF two THEN 3 ELSE 0

BlockLayers == {"background", "food"}
BlockInv(l) ==
  settled = 2 =>
    /\ Len(asked) = 1 => layer[l].state # 1
    /\ Len(asked) = 2 => layer[l].state \in {0, 3}
    /\ Len(asked) = 3 =>
         /\ layer[l].state = StateOf(W(l, 1), W(l, 2))
         /\ W(l, 1) => layer[l].rdaddress = Address(l, asked[1])
         /\ W(l, 2) /\ calm >= 1 => layer[l].memory_out \in Memory(l, 2)
         /\ W(l, 3) /\ calm >= 2 => layer[l].colour \in Memory(l, 3)
         /\ ~W(l, 3) => layer[l].colour = 0 \/ (calm = 3 /\ v_act = 0)

(***************************************************************************)
(* The character.  Its position changes under its pixels: what state it is *)
(* then in, for the pixels it is given from then on.                       *)
(***************************************************************************)
States ==
  LET w(n) == W("character", n) IN
  CASE calm = 1 -> IF w(1) THEN 0 .. 2 ELSE {0, 2, 3}
    [] calm = 2 -> IF w(1) THEN IF w(2) THEN {1, 2} ELSE 0 .. 2
                   ELSE IF w(2) THEN {0, 2, 3} ELSE {0, 3}
    [] calm = 3 -> IF w(1) THEN IF w(2) THEN IF w(3) THEN {2} ELSE {1, 2} ELSE {0, 1}
                   ELSE IF w(2) THEN {2, 3} ELSE IF w(3) THEN {0, 3} ELSE {0}
    [] calm = 4 -> IF w(1) THEN IF w(2) THEN IF w(3) THEN {2} ELSE {1, 2} ELSE {1}
                   ELSE IF w(2) THEN {3} ELSE IF w(3) THEN {0, 3} ELSE {0}
    [] calm >= 5 -> {StateOf(w(1), w(2))}
    [] OTHER -> 0 .. 3

CharacterInv ==
  LET g == layer["character"]  w(n) == W("character", n) IN
  /\ g.state \in States
  /\ calm >= 1 /\ w(1) /\ g.state # 0 => g.rdaddress = Address("character", asked[1])
  /\ calm >= 2 /\ w(2) /\ g.state \in {2, 3} => {g.memory_out} = Memory("character", 2)
  /\ calm \in {4, 5} /\ g.colour # 0 => w(1) \/ w(2) \/ w(3) \/ ~Wants("character")
  /\ calm = 5 /\ g.state = 1 => g.colour = 0
  /\ calm = 6 => {g.colour} = IF w(3) THEN Memory("character", 3) ELSE {0}

(***************************************************************************)
(* Which counts of a line a layer draws in.                                *)
(***************************************************************************)
(* Whether a layer draws at a count.                                       *)
D(l, h) == Wanted(l, Pixel(De(h), X(h), pixel_y, position))

LEMMA Parameters ==
  ASSUME NEW m \in Modes
  PROVE  /\ BLOCK \in Nat /\ DOT[1] \in Nat /\ DOT[2] \in Nat
         /\ DOT[1] + 3 <= DOT[2] /\ DOT[2] - DOT[1] + 2 <= BLOCK /\ DOT[2] <= BLOCK
         /\ BORDER \in Nat /\ BORDER >= 1 /\ SPRITE \in Nat /\ SPRITE >= 2
         /\ LastPixel(m)[1] = Timing[m].h_end - Timing[m].h_start
         /\ LastPixel(m)[1] >= 2 /\ LastPixel(m)[1] % BLOCK # DOT[1] + 1
<1>1. LastPixel(m)[1] = Timing[m].h_end - Timing[m].h_start
  BY DEF LastPixel
<1>2. QED
  BY <1>1, PipelineAssumption DEF PipelineAssumption

LEMMA PositionFacts ==
  ASSUME NEW p \in Positions, NEW m \in Modes
  PROVE  /\ p[1] \in Nat /\ p[2] \in Nat /\ p[3] \in 0 .. 3
         /\ LastPixel(m)[1] # p[1] + BORDER /\ LastPixel(m)[1] # p[1] + BORDER + 1
<1>1. Positions \subseteq Nat \X Nat \X (0 .. 3)
  BY PipelineAssumption DEF PipelineAssumption
<1>2. LastPixel(m)[1] \notin {p[1] + BORDER, p[1] + BORDER + 1}
  BY PipelineAssumption DEF PipelineAssumption
<1> QED BY <1>1, <1>2

LEMMA RemainderIs ==
  ASSUME NEW b \in Nat, NEW k \in Nat, NEW s \in 0 .. b - 1, NEW y \in Nat, y = b * k + s
  PROVE  y % b = s
OBVIOUS

LEMMA NextRemainder ==
  ASSUME NEW b \in Nat, b > 0, NEW z \in Nat
  PROVE  /\ z % b \in 0 .. b - 1
         /\ (z + 1) % b = IF z % b = b - 1 THEN 0 ELSE (z % b) + 1
<1> DEFINE q == z \div b
           r == z % b
<1>1. q \in Nat /\ r \in 0 .. b - 1 /\ z = b * q + r
  OBVIOUS
<1> HIDE DEF q, r
<1>2. CASE r = b - 1
  <2> DEFINE k == q + 1
             y == z + 1
  <2>1. k \in Nat /\ y \in Nat /\ 0 \in 0 .. b - 1 /\ y = b * k + 0
    BY <1>1, <1>2
  <2> HIDE DEF k, y
  <2>2. y % b = 0
    BY <2>1, RemainderIs
  <2> QED BY <1>1, <1>2, <2>2 DEF r, y
<1>3. CASE r # b - 1
  <2> DEFINE s == r + 1
             y == z + 1
  <2>1. q \in Nat /\ y \in Nat /\ s \in 0 .. b - 1 /\ y = b * q + s
    BY <1>1, <1>3
  <2> HIDE DEF s, y
  <2>2. y % b = s
    BY <2>1, RemainderIs
  <2> QED BY <1>1, <1>3, <2>2 DEF r, s, y
<1> QED BY <1>2, <1>3

LEMMA PixelIs ==
  ASSUME NEW de, NEW x, NEW y, NEW at
  PROVE  /\ Wanted("background", Pixel(de, x, y, at)) <=> de = 1
         /\ Wanted("food", Pixel(de, x, y, at)) <=> de = 1 /\ InDot(x) /\ InDot(y)
         /\ Wanted("character", Pixel(de, x, y, at)) <=> InSprite(x - at[1]) /\ InSprite(y - at[2])
BY DEF Wanted, Pixel

LEMMA LineFacts ==
  ASSUME TypeOK, NEW h \in Int
  PROVE  /\ X(h) \in Nat
         /\ De(h) = 1 <=> v_act = 1 /\ X(h) > 0
         /\ X(h) > 0 <=> t.h_start + 2 <= h /\ h <= t.h_end + 1
         /\ X(h) > 0 => X(h) = h - t.h_start - 1
BY LineLimits DEF X, De, Bit

LEMMA BlankAtTheEdge ==
  ASSUME TypeOK, position \in Positions, NEW l \in Layers, NEW h \in Int, X(h) = 0
  PROVE  ~D(l, h)
<1>1. De(h) # 1
  BY LineFacts
<1>2. position[1] \in Nat /\ BORDER \in Nat /\ BORDER >= 1
  BY LineLimits, PositionFacts, Parameters
<1>3. ~InSprite(X(h) - position[1])
  BY <1>2 DEF InSprite
<1> QED BY <1>1, <1>3, PixelIs DEF D, Layers

LEMMA BackgroundRuns ==
  ASSUME TypeOK, NEW h \in Int
  PROVE  /\ D("background", h - 1) /\ ~D("background", h - 2) => D("background", h)
         /\ D("background", h - 2) /\ ~D("background", h - 1) =>
              ~D("background", h) /\ ~D("background", h + 1)
<1>1. \A k \in Int : D("background", k) <=> v_act = 1 /\ t.h_start + 2 <= k /\ k <= t.h_end + 1
  BY LineFacts, PixelIs DEF D
<1>2. t.h_end - t.h_start >= 2
  BY LineLimits, Parameters DEF t
<1> QED BY <1>1, <1>2, LineLimits

LEMMA FoodRuns ==
  ASSUME TypeOK, NEW h \in Int
  PROVE  /\ D("food", h - 1) /\ ~D("food", h - 2) => D("food", h)
         /\ D("food", h - 2) /\ ~D("food", h - 1) => ~D("food", h) /\ ~D("food", h + 1)
<1> DEFINE width == t.h_end - t.h_start
           In(x) == InDot(x) /\ 1 <= x /\ x <= width
<1>1. /\ BLOCK \in Nat /\ DOT[1] \in Nat /\ DOT[2] \in Nat /\ width \in Nat /\ width >= 2
      /\ DOT[1] + 3 <= DOT[2] /\ DOT[2] - DOT[1] + 2 <= BLOCK /\ DOT[2] <= BLOCK
      /\ width % BLOCK # DOT[1] + 1 /\ t.h_start \in Nat /\ t.h_end \in Nat
  BY LineLimits, Parameters DEF t
<1>2. \A k \in Int : D("food", k) <=> v_act = 1 /\ InDot(pixel_y) /\ In(k - t.h_start - 1)
  <2> SUFFICES ASSUME NEW k \in Int
               PROVE  D("food", k) <=> v_act = 1 /\ InDot(pixel_y) /\ In(k - t.h_start - 1)
    OBVIOUS
  <2>1. D("food", k) <=> De(k) = 1 /\ InDot(X(k)) /\ InDot(pixel_y)
    BY PixelIs DEF D
  <2>2. X(k) > 0 <=> 1 <= k - t.h_start - 1 /\ k - t.h_start - 1 <= width
    BY <1>1, LineFacts
  <2> QED BY <2>1, <2>2, LineFacts
<1>3. ASSUME NEW x \in Nat
      PROVE  /\ x % BLOCK \in 0 .. BLOCK - 1
             /\ (x + 1) % BLOCK = IF x % BLOCK = BLOCK - 1 THEN 0 ELSE (x % BLOCK) + 1
  <2>1. BLOCK \in Nat /\ BLOCK > 0
    BY <1>1
  <2> QED BY <2>1, NextRemainder
<1>4. 1 % BLOCK = 1 /\ 2 % BLOCK = 2
  <2>1. 0 % BLOCK = 0
    BY <1>1
  <2>2. (0 + 1) % BLOCK = IF 0 % BLOCK = BLOCK - 1 THEN 0 ELSE (0 % BLOCK) + 1
    BY <1>3
  <2>3. 1 % BLOCK = 1
    BY <1>1, <2>1, <2>2
  <2>4. (1 + 1) % BLOCK = IF 1 % BLOCK = BLOCK - 1 THEN 0 ELSE (1 % BLOCK) + 1
    BY <1>3
  <2> QED BY <1>1, <2>3, <2>4
<1>5. \A x \in Int : In(x - 1) /\ ~In(x - 2) => In(x)
  <2> SUFFICES ASSUME NEW x \in Int, In(x - 1), ~In(x - 2) PROVE In(x)
    OBVIOUS
  <2>1. CASE x - 1 = 1
    <3>1. DOT[1] < 1
      BY <1>4, <2>1 DEF InDot
    <3> QED BY <1>1, <1>4, <2>1, <3>1 DEF InDot
  <2>2. CASE x - 1 # 1
    <3>1. x - 2 \in Nat /\ x - 1 \in Nat /\ 1 <= x - 2 /\ x - 2 <= width /\ x - 1 <= width
      BY <1>1, <2>2
    <3>2. ~InDot(x - 2)
      BY <3>1
    <3> DEFINE r == (x - 2) % BLOCK
    <3>3. /\ r \in 0 .. BLOCK - 1
          /\ (x - 1) % BLOCK = IF r = BLOCK - 1 THEN 0 ELSE r + 1
          /\ x % BLOCK = IF (x - 1) % BLOCK = BLOCK - 1 THEN 0 ELSE ((x - 1) % BLOCK) + 1
      <4>1. (x - 2) + 1 = x - 1 /\ (x - 1) + 1 = x
        BY <3>1
      <4> QED BY <1>3, <3>1, <4>1
    <3>4. ~(r > DOT[1] /\ r < DOT[2]) /\ (x - 1) % BLOCK > DOT[1] /\ (x - 1) % BLOCK < DOT[2]
      BY <3>2 DEF InDot
    <3> HIDE DEF r
    <3>5. (x - 1) % BLOCK = DOT[1] + 1 /\ x % BLOCK = DOT[1] + 2
      BY <1>1, <3>3, <3>4
    <3>6. x - 1 # width
      BY <1>1, <3>5
    <3> QED BY <1>1, <3>1, <3>5, <3>6 DEF InDot
  <2> QED BY <2>1, <2>2
<1>6. \A x \in Int : In(x - 2) /\ ~In(x - 1) => ~In(x) /\ ~In(x + 1)
  <2> SUFFICES ASSUME NEW x \in Int, In(x - 2), ~In(x - 1) PROVE ~In(x) /\ ~In(x + 1)
    OBVIOUS
  <2>4. width \in Nat
    BY <1>1
  <2> HIDE DEF width
  <2> SUFFICES ASSUME x <= width PROVE ~InDot(x) /\ ~InDot(x + 1)
    BY <2>4
  <2>1. x - 2 \in Nat /\ x - 1 \in Nat /\ x \in Nat /\ ~InDot(x - 1)
    <3>1. 1 <= x - 2
      OBVIOUS
    <3>2. x - 2 \in Nat /\ x - 1 \in Nat /\ x \in Nat /\ 1 <= x - 1 /\ x - 1 <= width
      BY <2>4, <3>1
    <3> QED BY <3>2
  <2>2. /\ (x - 2) % BLOCK \in 0 .. BLOCK - 1
        /\ (x - 1) % BLOCK = IF (x - 2) % BLOCK = BLOCK - 1 THEN 0 ELSE ((x - 2) % BLOCK) + 1
        /\ x % BLOCK = IF (x - 1) % BLOCK = BLOCK - 1 THEN 0 ELSE ((x - 1) % BLOCK) + 1
        /\ (x + 1) % BLOCK = IF x % BLOCK = BLOCK - 1 THEN 0 ELSE (x % BLOCK) + 1
    <3>1. (x - 2) + 1 = x - 1 /\ (x - 1) + 1 = x
      BY <2>1
    <3> QED BY <1>3, <2>1, <3>1
  <2>3. /\ (x - 2) % BLOCK > DOT[1] /\ (x - 2) % BLOCK < DOT[2]
        /\ ~((x - 1) % BLOCK > DOT[1] /\ (x - 1) % BLOCK < DOT[2])
    BY <2>1 DEF InDot
  <2> QED BY <1>1, <2>2, <2>3 DEF InDot
<1> HIDE DEF In, width
<1>7. (h - 1) - t.h_start - 1 = (h - t.h_start - 1) - 1 /\ (h - 2) - t.h_start - 1 = (h - t.h_start - 1) - 2
      /\ (h + 1) - t.h_start - 1 = (h - t.h_start - 1) + 1 /\ h - t.h_start - 1 \in Int
  BY <1>1
<1> QED BY <1>2, <1>5, <1>6, <1>7

LEMMA CharacterRuns ==
  ASSUME TypeOK, position \in Positions, NEW h \in Int
  PROVE  /\ D("character", h - 1) /\ ~D("character", h - 2) =>
              D("character", h) /\ D("character", h + 1)
         /\ D("character", h - 2) /\ ~D("character", h - 1) =>
              ~D("character", h) /\ ~D("character", h + 1)
         /\ D("character", h - 3) /\ ~D("character", h - 2) => ~D("character", h + 1)
<1> DEFINE a == position[1] + BORDER
<1>1. /\ a \in Nat /\ a >= 1 /\ BORDER \in Nat /\ SPRITE \in Nat /\ SPRITE >= 2 /\ position[1] \in Nat
      /\ t.h_end - t.h_start # a /\ t.h_end - t.h_start # a + 1
  BY LineLimits, Parameters, PositionFacts DEF t
<1>2. \A k \in Int : D("character", k) <=>
        /\ InSprite(pixel_y - position[2])
        /\ t.h_start + 2 <= k /\ k <= t.h_end + 1
        /\ a <= k - t.h_start - 1 /\ k - t.h_start - 1 < a + 2 * SPRITE
  <2> SUFFICES ASSUME NEW k \in Int
               PROVE  D("character", k) <=>
                        /\ InSprite(pixel_y - position[2])
                        /\ t.h_start + 2 <= k /\ k <= t.h_end + 1
                        /\ a <= k - t.h_start - 1 /\ k - t.h_start - 1 < a + 2 * SPRITE
    OBVIOUS
  <2>1. D("character", k) <=> InSprite(X(k) - position[1]) /\ InSprite(pixel_y - position[2])
    BY PixelIs DEF D
  <2>2. InSprite(X(k) - position[1]) <=> a <= X(k) /\ X(k) < a + 2 * SPRITE
    BY <1>1, LineFacts DEF InSprite
  <2> QED BY <1>1, <2>1, <2>2, LineFacts
<1> HIDE DEF a
<1> QED BY <1>1, <1>2, LineLimits

(***************************************************************************)
(* The last three pixels, along one step.                                  *)
(***************************************************************************)
LEMMA GivenIs ==
  ASSUME VideoInv, CoordinateInv, settled = 2, position \in Positions
  PROVE  /\ Given = Pixel(De(h_count), X(h_count), pixel_y, position)
         /\ Given.de = De(h_count) /\ Given.x = X(h_count) /\ Given.y = pixel_y
         /\ Given.at = position /\ Given \in APixel
<1>1. pre_vga_de \in {0, 1} /\ pixel_x \in 0 .. COUNT - 1 /\ pixel_y \in 0 .. COUNT - 1
  BY DEF VideoInv, TypeOK
<1>2. pre_vga_de = De(h_count) /\ pixel_x = X(h_count)
  BY <1>1 DEF VideoInv, EnableInv, CoordinateInv, De, Bit
<1> QED BY <1>1, <1>2 DEF Given, Pixel, APixel

LEMMA AskedLength == AskedInv => Len(asked) \in 0 .. 3
BY DEF AskedInv

LEMMA Pushed ==
  ASSUME AskedInv, Generators, settled = 2, Given \in APixel
  PROVE  /\ asked' \in Seq(APixel)
         /\ Len(asked') = IF Len(asked) < 3 THEN Len(asked) + 1 ELSE 3
         /\ asked'[1] = Given
         /\ \A n \in 2 .. Len(asked') : asked'[n] = asked[n - 1]
<1>1. asked \in Seq(APixel) /\ Len(asked) \in Nat /\ Len(asked) <= 3 /\ <<Given>> \in Seq(APixel)
  <2>1. asked \in Seq(APixel)
    BY DEF AskedInv
  <2>2. Len(asked) \in 0 .. 3
    BY AskedLength
  <2>3. Len(asked) \in Nat
    BY <2>1, LenProperties
  <2>4. Len(asked) <= 3
    <3>1. \A n \in 0 .. 3 : n <= 3
      OBVIOUS
    <3> QED BY <2>2, <3>1, Zenon
  <2>5. <<Given>> \in Seq(APixel)
    OBVIOUS
  <2> QED BY <2>1, <2>3, <2>4, <2>5
<1> DEFINE s == <<Given>> \o asked
           m == IF Len(asked) < 3 THEN Len(asked) + 1 ELSE 3
<1>2. /\ s \in Seq(APixel) /\ Len(s) = Len(asked) + 1
      /\ s[1] = Given /\ \A n \in 2 .. Len(s) : s[n] = asked[n - 1]
  BY <1>1
<1>3. asked' = SubSeq(s, 1, m) /\ m \in 1 .. Len(s)
  BY <1>1, <1>2 DEF Generators
<1> HIDE DEF s, m
<1>4. asked' \in Seq(APixel) /\ Len(asked') = m /\ \A n \in 1 .. m : asked'[n] = s[n]
  BY <1>2, <1>3
<1> QED BY <1>1, <1>2, <1>3, <1>4 DEF m

LEMMA AskedInit == PixelInit => AskedInv
BY DEF PixelInit, Init, AskedInv, CALM

LEMMA AskedClock ==
  ASSUME VideoInv, CoordinateInv, AskedInv, PixelClock
  PROVE  AskedInv'
<1>1. Clock /\ Generators /\ position' = position /\ position \in Positions
  BY DEF PixelClock, AskedInv
<1>2. TypeOK /\ TypeOK'
  BY <1>1, VideoStep DEF VideoInv, Next
<1>3. CASE settled # 2
  <2>0. settled < 2
    BY <1>2, <1>3, LineLimits
  <2>1. asked' = << >> /\ calm' = 0
    BY <1>1, <2>0 DEF Generators
  <2> QED BY <1>1, <2>1 DEF AskedInv, CALM
<1>4. CASE settled = 2
  <2>1. settled' = 2
    BY <1>1, <1>4 DEF Clock
  <2>2. /\ t' = t /\ CoordinateInv'
        /\ h_count' = IF h_count = t.h_total THEN 0 ELSE h_count + 1
        /\ h_count <= t.h_total
        /\ h_count # t.h_total => v_act' = v_act
        /\ t.h_start < h_count => pixel_y' = pixel_y
    BY <1>1, <1>4, <2>1, LineStep
  <2>3. /\ Given.de = De(h_count) /\ Given.x = X(h_count) /\ Given.y = pixel_y
        /\ Given.at = position /\ Given \in APixel
    BY <1>1, <1>4, GivenIs
  <2>4. /\ asked' \in Seq(APixel)
        /\ Len(asked') = IF Len(asked) < 3 THEN Len(asked) + 1 ELSE 3
        /\ asked'[1] = Given
        /\ \A n \in 2 .. Len(asked') : asked'[n] = asked[n - 1]
    BY <1>1, <1>4, <2>3, Pushed
  <2>5. /\ calm' = IF calm < CALM THEN calm + 1 ELSE calm
        /\ calm \in 0 .. CALM /\ Len(asked) \in 0 .. 3 /\ (Len(asked) < 3 => calm = Len(asked))
    BY <1>1, <1>4, AskedLength DEF Generators, AskedInv
  <2>6. ASSUME NEW n \in 1 .. Len(asked'), h_count' + 1 >= n
        PROVE  /\ asked'[n].x = X(h_count - n)' /\ asked'[n].de = De(h_count - n)'
               /\ asked'[n].x > 0 => asked'[n].y = pixel_y'
    <3>1. CASE n = 1
      <4>1. CASE h_count = t.h_total
        <5>1. Given.x = 0 /\ Given.de = 0
          <6>1. t.h_end \in Nat /\ t.h_total \in Nat /\ t.h_end + 2 <= t.h_total
            BY <1>2, LineLimits
          <6>2. ~(h_count <= t.h_end + 1)
            BY <4>1, <6>1
          <6> QED BY <2>3, <6>2 DEF X, De, Bit
        <5>2. h_count' = 0 /\ t.h_start \in Nat /\ t' = t
          BY <1>2, <2>2, <4>1, LineLimits
        <5>3. X(h_count - n)' = 0 /\ De(h_count - n)' = 0
          BY <3>1, <5>2 DEF X, De, Bit
        <5> QED BY <2>4, <3>1, <5>1, <5>3
      <4>2. CASE h_count # t.h_total
        <5>1. h_count' - n = h_count
          BY <1>2, <2>2, <3>1, <4>2, LineLimits
        <5>2. X(h_count - n)' = X(h_count) /\ De(h_count - n)' = De(h_count)
          BY <2>2, <4>2, <5>1 DEF X, De
        <5>3. X(h_count) > 0 => t.h_start < h_count
          BY <1>2, LineLimits DEF X
        <5> QED BY <2>2, <2>3, <2>4, <3>1, <5>2, <5>3
      <4> QED BY <4>1, <4>2
    <3>2. CASE n # 1
      <4>1. h_count # t.h_total /\ h_count' = h_count + 1 /\ h_count \in Nat
        <5>1. h_count \in Nat
          BY <1>2, LineLimits
        <5>2. n >= 2
          BY <2>4, <2>5, <3>2
        <5> QED BY <2>2, <2>6, <5>1, <5>2
      <4>2. n - 1 \in 1 .. Len(asked) /\ h_count + 1 >= n - 1 /\ asked'[n] = asked[n - 1]
        BY <2>4, <2>5, <2>6, <3>2, <4>1
      <4>3. AskedIs(n - 1)
        BY <1>4, <4>2 DEF AskedInv
      <4>4. h_count' - n = h_count - (n - 1)
        BY <4>1
      <4>5. X(h_count - n)' = X(h_count - (n - 1)) /\ De(h_count - n)' = De(h_count - (n - 1))
        BY <2>2, <4>1, <4>4 DEF X, De
      <4>6. X(h_count - (n - 1)) > 0 => t.h_start < h_count
        <5>1. n - 1 \in Nat
          BY <4>2, <2>5
        <5>2. t.h_start \in Nat
          BY <1>2, LineLimits
        <5> QED BY <4>1, <5>1, <5>2 DEF X
      <4> QED BY <2>2, <4>2, <4>3, <4>5, <4>6 DEF AskedIs
    <3> QED BY <3>1, <3>2
  <2>7. ASSUME NEW n \in 1 .. Len(asked'), n <= calm' PROVE asked'[n].at = position'
    <3>1. CASE n = 1
      BY <1>1, <2>3, <2>4, <3>1
    <3>2. CASE n # 1
      <4>1. n - 1 \in 1 .. Len(asked) /\ n - 1 <= calm /\ asked'[n] = asked[n - 1]
        BY <2>4, <2>5, <2>7, <3>2
      <4> QED BY <1>1, <4>1 DEF AskedInv
    <3> QED BY <3>1, <3>2
  <2>8. calm' \in 0 .. CALM /\ Len(asked') <= 3 /\ (Len(asked') < 3 => calm' = Len(asked'))
    BY <2>4, <2>5 DEF CALM
  <2> QED BY <1>1, <2>1, <2>4, <2>6, <2>7, <2>8 DEF AskedInv, AskedIs
<1> QED BY <1>3, <1>4

LEMMA AskedStep ==
  ASSUME VideoInv, CoordinateInv, AskedInv, [PixelNext]_pvars
  PROVE  AskedInv'
<1>1. CASE PixelClock
  BY <1>1, AskedClock
<1>2. CASE Rewrite
  <2>1. /\ UNCHANGED vars /\ asked' = asked /\ calm = CALM /\ calm' = 0 /\ position' \in Positions
    BY <1>2 DEF Rewrite, AskedInv
  <2>2. settled = 2 /\ Len(asked) = 3
    <3>1. settled # 2 => calm = 0
      BY DEF AskedInv
    <3>2. Len(asked) < 3 => calm = Len(asked)
      BY DEF AskedInv
    <3>3. Len(asked) \in 0 .. 3
      BY AskedLength
    <3>4. calm = 6
      BY <2>1 DEF CALM
    <3>5. settled = 2
      BY <3>1, <3>4
    <3>6. ~(Len(asked) < 3)
      BY <3>2, <3>3, <3>4
    <3> QED BY <3>3, <3>5, <3>6
  <2>3. \A n \in 1 .. Len(asked) : AskedIs(n)
    BY <2>2 DEF AskedInv
  <2>4. settled' = settled /\ \A n \in 1 .. Len(asked) : AskedIs(n)'
    BY <2>1, <2>3 DEF AskedIs, X, De, t, vars, horizontal, vertical
  <2> QED BY <2>1, <2>2, <2>4 DEF AskedInv, CALM
<1>3. CASE PixelChangeMode \/ PixelLoseLock
  <2>1. asked' = << >> /\ calm' = 0 /\ position' = position
    BY <1>3 DEF PixelChangeMode, PixelLoseLock
  <2> QED BY <2>1 DEF AskedInv, CALM
<1>4. CASE UNCHANGED pvars
  <2>1. UNCHANGED <<vars, position, asked, calm>>
    BY <1>4 DEF pvars, pipeline
  <2>2. settled = 2 => \A n \in 1 .. Len(asked) : AskedIs(n)'
    BY <2>1 DEF AskedInv, AskedIs, X, De, t, vars, horizontal, vertical
  <2> QED BY <2>1, <2>2 DEF AskedInv, vars
<1> QED BY <1>1, <1>2, <1>3, <1>4 DEF PixelNext

(***************************************************************************)
(* What a layer wants of the last pixels: runs of two pixels at least, and *)
(* three between them.                                                     *)
(***************************************************************************)
LineInv == VideoInv /\ CoordinateInv /\ AskedInv

LEMMA WantsIs ==
  ASSUME LineInv, settled = 2, NEW l
  PROVE  Wants(l) = D(l, h_count)
BY GivenIs DEF LineInv, AskedInv, Wants, D

LEMMA WantedIs ==
  ASSUME LineInv, settled = 2, NEW l \in Layers, NEW n \in 1 .. Len(asked), h_count + 1 >= n,
         l \in BlockLayers \/ n <= calm
  PROVE  W(l, n) <=> D(l, h_count - n)
<1> DEFINE h == h_count - n
           p == asked[n]
<1>1. TypeOK /\ position \in Positions /\ h \in Int
  BY LineLimits, AskedLength DEF LineInv, AskedInv, VideoInv
<1>2. p \in APixel
  BY DEF LineInv, AskedInv
<1>3. p.x = X(h) /\ p.de = De(h) /\ (p.x > 0 => p.y = pixel_y) /\ (n <= calm => p.at = position)
  BY DEF LineInv, AskedInv, AskedIs
<1>0. W(l, n) = Wanted(l, p)
  BY DEF W
<1> DEFINE q == Pixel(p.de, p.x, p.y, p.at)
<1>4. p = q
  BY <1>2 DEF APixel, Pixel
<1> SUFFICES W(l, n) <=> D(l, h)
  OBVIOUS
<1> HIDE DEF h, p
<1>5. /\ Wanted("background", p) <=> p.de = 1
      /\ Wanted("food", p) <=> p.de = 1 /\ InDot(p.x) /\ InDot(p.y)
      /\ Wanted("character", p) <=> InSprite(p.x - p.at[1]) /\ InSprite(p.y - p.at[2])
  BY <1>4, PixelIs
<1> HIDE DEF q
<1>8. /\ D("background", h) <=> De(h) = 1
      /\ D("food", h) <=> De(h) = 1 /\ InDot(X(h)) /\ InDot(pixel_y)
      /\ D("character", h) <=> InSprite(X(h) - position[1]) /\ InSprite(pixel_y - position[2])
  BY PixelIs DEF D
<1>6. CASE X(h) > 0
  <2>1. p.y = pixel_y /\ p.x = X(h) /\ p.de = De(h)
    BY <1>3, <1>6
  <2>2. CASE l = "background"
    BY <1>0, <1>5, <1>8, <2>1, <2>2
  <2>3. CASE l = "food"
    BY <1>0, <1>5, <1>8, <2>1, <2>3
  <2>4. CASE l = "character"
    <3>1. p.at = position
      BY <1>3, <2>4 DEF BlockLayers
    <3> QED BY <1>0, <1>5, <1>8, <2>1, <2>4, <3>1
  <2> QED BY <2>2, <2>3, <2>4 DEF Layers
<1>7. CASE ~(X(h) > 0)
  <2>1. X(h) = 0 /\ De(h) # 1
    BY <1>1, <1>7, LineFacts
  <2>2. ~D(l, h)
    BY <1>1, <2>1, BlankAtTheEdge
  <2>3. CASE l = "background"
    BY <1>0, <1>3, <1>5, <2>1, <2>2, <2>3
  <2>4. CASE l = "food"
    BY <1>0, <1>3, <1>5, <2>1, <2>2, <2>4
  <2>5. CASE l = "character"
    <3>1. p.x = 0 /\ p.at = position
      BY <1>3, <2>1, <2>5 DEF BlockLayers
    <3>2. position[1] \in Nat /\ BORDER \in Nat /\ BORDER >= 1
      BY <1>1, LineLimits, PositionFacts, Parameters
    <3>3. ~InSprite(p.x - p.at[1])
      BY <3>1, <3>2 DEF InSprite
    <3> QED BY <1>0, <1>5, <2>2, <2>5, <3>3
  <2> QED BY <2>3, <2>4, <2>5 DEF Layers
<1> QED BY <1>6, <1>7

LEMMA BlockRuns ==
  ASSUME LineInv, settled = 2, Len(asked) = 3, NEW l \in BlockLayers
  PROVE  /\ W(l, 1) /\ ~W(l, 2) => Wants(l) /\ ~W(l, 3)
         /\ ~W(l, 1) /\ W(l, 2) => ~Wants(l)
         /\ ~W(l, 1) /\ ~W(l, 2) /\ W(l, 3) => ~Wants(l)
<1> DEFINE h == h_count
<1>1. TypeOK /\ position \in Positions /\ h \in Nat /\ l \in Layers /\ t.h_start >= 1
  BY LineLimits DEF LineInv, AskedInv, VideoInv, BlockLayers, Layers
<1>2. Wants(l) = D(l, h) /\ (W(l, 1) <=> D(l, h - 1))
  BY <1>1, WantsIs, WantedIs
<1>3. CASE h < 2
  <2>1. X(h) = 0 /\ X(h - 1) = 0
    BY <1>1, <1>3, LineLimits DEF X
  <2> QED BY <1>1, <1>2, <2>1, BlankAtTheEdge
<1>4. CASE h >= 2
  <2>1. (W(l, 2) <=> D(l, h - 2)) /\ (W(l, 3) <=> D(l, h - 3))
    BY <1>1, <1>4, WantedIs
  <2>2. \A k \in Int : /\ D(l, k - 1) /\ ~D(l, k - 2) => D(l, k)
                       /\ D(l, k - 2) /\ ~D(l, k - 1) => ~D(l, k) /\ ~D(l, k + 1)
    BY <1>1, BackgroundRuns, FoodRuns DEF BlockLayers
  <2>3. /\ D(l, h - 1) /\ ~D(l, h - 2) => D(l, h)
        /\ D(l, h - 2) /\ ~D(l, h - 1) => ~D(l, h)
    BY <1>1, <2>2
  <2>4. D(l, h - 3) /\ ~D(l, h - 2) => ~D(l, h - 1) /\ ~D(l, h)
    <3>1. (h - 1) - 2 = h - 3 /\ (h - 1) - 1 = h - 2 /\ (h - 1) + 1 = h /\ h - 1 \in Int
      BY <1>1
    <3> QED BY <2>2, <3>1
  <2> QED BY <1>2, <2>1, <2>3, <2>4
<1> QED BY <1>1, <1>3, <1>4

LEMMA CharacterRunsOn ==
  ASSUME LineInv, settled = 2, calm >= 2
  PROVE  LET w(n) == W("character", n)  wants == Wants("character") IN
         /\ w(1) /\ ~w(2) => wants
         /\ ~w(1) /\ w(2) => ~wants
         /\ calm >= 3 => /\ w(1) /\ ~w(2) => ~w(3)
                         /\ w(1) /\ w(2) /\ ~w(3) => wants
                         /\ ~w(1) /\ ~w(2) /\ w(3) => ~wants
<1> DEFINE h == h_count
           d(k) == D("character", k)
<1>1. TypeOK /\ position \in Positions /\ h \in Nat /\ "character" \in Layers /\ t.h_start >= 1
  BY LineLimits DEF LineInv, AskedInv, VideoInv, Layers
<1>2. Len(asked) \in 0 .. 3 /\ (Len(asked) < 3 => calm = Len(asked)) /\ calm \in 0 .. CALM
  BY DEF LineInv, AskedInv
<1>3. (Wants("character") <=> d(h)) /\ (W("character", 1) <=> d(h - 1))
  BY <1>1, <1>2, WantsIs, WantedIs
<1>4. \A k \in Int : /\ d(k - 1) /\ ~d(k - 2) => d(k) /\ d(k + 1)
                     /\ d(k - 2) /\ ~d(k - 1) => ~d(k) /\ ~d(k + 1)
  BY <1>1, CharacterRuns
<1>5. h < 2 => ~d(h) /\ ~d(h - 1)
  <2>1. h < 2 => X(h) = 0 /\ X(h - 1) = 0
    BY <1>1, LineLimits DEF X
  <2> QED BY <1>1, <2>1, BlankAtTheEdge
<1>6. h >= 1 => (W("character", 2) <=> d(h - 2))
  BY <1>1, <1>2, WantedIs
<1>7. h >= 2 /\ calm >= 3 => (W("character", 3) <=> d(h - 3))
  BY <1>1, <1>2, WantedIs
<1>8. /\ d(h - 1) /\ ~d(h - 2) => d(h)
      /\ d(h - 2) /\ ~d(h - 1) => ~d(h)
  BY <1>1, <1>4
<1>9. /\ d(h - 2) /\ ~d(h - 3) => d(h - 1) /\ d(h)
      /\ d(h - 3) /\ ~d(h - 2) => ~d(h - 1) /\ ~d(h)
  <2>1. (h - 1) - 2 = h - 3 /\ (h - 1) - 1 = h - 2 /\ (h - 1) + 1 = h /\ h - 1 \in Int
    BY <1>1
  <2> QED BY <1>4, <2>1
<1> HIDE DEF d, h
<1>10. CASE h < 2
  BY <1>1, <1>3, <1>5, <1>10
<1>11. CASE h >= 2
  BY <1>1, <1>3, <1>6, <1>7, <1>8, <1>9, <1>11
<1> QED BY <1>1, <1>10, <1>11

(* Behind its last pixel in a line, the character is not wanted again.     *)
LEMMA NotAgain ==
  ASSUME LineInv, settled = 2, calm >= 3, PixelClock,
         W("character", 3), ~W("character", 2), ~W("character", 1)
  PROVE  ~Wants("character")'
<1> DEFINE h == h_count
<1>1. TypeOK /\ position \in Positions /\ h \in Nat /\ "character" \in Layers
      /\ t.h_start \in Nat /\ t.h_start >= 1
  BY LineLimits DEF LineInv, AskedInv, VideoInv, Layers
<1>2. Clock /\ position' = position /\ settled' = 2
  BY DEF PixelClock, Clock
<1>3. /\ t' = t /\ CoordinateInv'
      /\ h_count' = IF h = t.h_total THEN 0 ELSE h + 1
      /\ t.h_start < h => pixel_y' = pixel_y
  BY <1>2, LineStep DEF LineInv
<1>4. Wants("character")' <=> InSprite(pixel_x' - position[1]) /\ InSprite(pixel_y' - position[2])
  BY <1>2, PixelIs DEF Wants, Given
<1>5. pixel_x' = X(h_count)'
  BY <1>2, <1>3 DEF CoordinateInv
<1>6. ~InSprite(0 - position[1])
  <2>1. position[1] \in Nat /\ BORDER \in Nat /\ BORDER >= 1
    BY <1>1, LineLimits, PositionFacts, Parameters
  <2> QED BY <2>1 DEF InSprite
<1>7. CASE h = t.h_total \/ ~(t.h_start < h)
  <2>1. pixel_x' = 0
    BY <1>1, <1>3, <1>5, <1>7 DEF X
  <2> QED BY <1>4, <1>6, <2>1
<1>8. CASE h # t.h_total /\ t.h_start < h
  <2>1. pixel_x' = X(h + 1) /\ pixel_y' = pixel_y
    BY <1>3, <1>5, <1>8 DEF X
  <2>2. D("character", h + 1) <=> InSprite(X(h + 1) - position[1]) /\ InSprite(pixel_y - position[2])
    BY PixelIs DEF D
  <2>3. Len(asked) = 3
    BY AskedLength DEF LineInv, AskedInv
  <2>4. h >= 2
    BY <1>1, <1>8
  <2>5. 3 \in 1 .. Len(asked) /\ 2 \in 1 .. Len(asked) /\ 2 <= calm
        /\ h_count + 1 >= 3 /\ h_count + 1 >= 2
    <3>1. calm \in 0 .. 6
      BY DEF LineInv, AskedInv, CALM
    <3> QED BY <1>1, <2>3, <2>4, <3>1
  <2>6. D("character", h - 3)
    BY <1>1, <2>5, WantedIs
  <2>8. ~D("character", h - 2)
    BY <1>1, <2>5, WantedIs
  <2>7. ~D("character", h + 1)
    BY <1>1, <2>6, <2>8, CharacterRuns
  <2> QED BY <1>4, <2>1, <2>2, <2>7
<1> QED BY <1>7, <1>8

(***************************************************************************)
(* One step of the whole: the coordinates, the generators, the buffer.     *)
(***************************************************************************)
LEMMA Underneath == [PixelNext]_pvars => [Next]_vars
BY DEF PixelNext, PixelClock, Rewrite, PixelChangeMode, PixelLoseLock, Next, pvars

LEMMA LineInit == PixelInit => LineInv
<1> SUFFICES ASSUME PixelInit PROVE LineInv
  OBVIOUS
<1>1. VideoInv
  BY VideoInit DEF PixelInit
<1>2. t.h_start \in Nat
  BY <1>1, LineLimits DEF VideoInv
<1>3. CoordinateInv
  BY <1>2 DEF PixelInit, Init, CoordinateInv, X
<1> QED BY <1>1, <1>3, AskedInit DEF LineInv

LEMMA LineKept ==
  ASSUME LineInv, [PixelNext]_pvars
  PROVE  LineInv'
<1>1. VideoInv'
  BY Underneath, VideoStep DEF LineInv
<1>2. AskedInv'
  BY AskedStep DEF LineInv
<1>3. CoordinateInv'
  <2>1. CASE PixelClock
    <3>1. CASE settled' = 2
      BY <2>1, <3>1, LineStep DEF LineInv, PixelClock
    <3>2. CASE settled' # 2
      BY <3>2 DEF CoordinateInv
    <3> QED BY <3>1, <3>2
  <2>2. CASE Rewrite \/ UNCHANGED pvars
    BY <2>2 DEF LineInv, CoordinateInv, X, t, Rewrite, pvars, vars, horizontal, vertical
  <2>3. CASE PixelChangeMode
    BY <2>3 DEF CoordinateInv, PixelChangeMode, ChangeMode
  <2>4. CASE PixelLoseLock
    <3>1. h_count' = 0 /\ pixel_x' = 0 /\ mode' = mode
      BY <2>4 DEF PixelLoseLock, LoseLock, ResetValues
    <3>2. t' = t /\ t.h_start \in Nat
      BY <3>1, LineLimits DEF LineInv, VideoInv, t
    <3> QED BY <3>1, <3>2 DEF CoordinateInv, X
  <2> QED BY <2>1, <2>2, <2>3, <2>4 DEF PixelNext
<1> QED BY <1>1, <1>2, <1>3 DEF LineInv

LEMMA GeneratorStep ==
  ASSUME Generators, DOMAIN layer = Layers, NEW l \in Layers
  PROVE  LET g == layer[l]  n == layer'[l] IN
         /\ DOMAIN layer' = Layers
         /\ n.state = NextState(g, Wants(l))
         /\ n.rdaddress = IF Sends(g, Wants(l)) THEN Address(l, Given) ELSE g.rdaddress
         /\ n.memory_out \in Answers(l, g.rdaddress)
         /\ n.colour = Colour(g, Wants(l))
<1>1. PICK b \in Generate("background", layer["background"]),
          f \in Generate("food", layer["food"]),
          c \in Generate("character", layer["character"]) :
       layer' = [layer EXCEPT !["background"] = b, !["food"] = f, !["character"] = c]
  BY DEF Generators
<1>2. /\ DOMAIN layer' = Layers /\ layer'["background"] = b
      /\ layer'["food"] = f /\ layer'["character"] = c
  BY <1>1 DEF Layers
<1>3. layer'[l] \in Generate(l, layer[l])
  BY <1>1, <1>2 DEF Layers
<1>4. PICK bit \in Answers(l, layer[l].rdaddress) :
        layer'[l] = [state |-> NextState(layer[l], Wants(l)),
                     rdaddress |-> IF Sends(layer[l], Wants(l)) THEN Address(l, Given)
                                   ELSE layer[l].rdaddress,
                     memory_out |-> bit,
                     colour |-> Colour(layer[l], Wants(l))]
  BY <1>3 DEF Generate, Wants
<1> QED BY <1>2, <1>4

LEMMA CellInside ==
  ASSUME NEW s \in Nat, NEW a \in 0 .. s - 1, NEW b \in 0 .. s - 1
  PROVE  a + b * s \in 0 .. s * s - 1
<1>1. (s - 1 - b) \in Nat /\ (s - 1 - b) * s \in Nat /\ b * s \in Nat /\ s * s \in Nat
  OBVIOUS
<1>2. (s - 1 - b) * s = s * s - s - b * s
  OBVIOUS
<1>3. a + b * s <= s * s - 1
  BY <1>1, <1>2
<1> QED BY <1>1, <1>3

(* No pixel of a character has an address behind its memory.               *)
LEMMA CharacterAddress ==
  ASSUME NEW p \in APixel, COUNT \in Nat, Wanted("character", p)
  PROVE  Address("character", p) \in 0 .. SPRITE * SPRITE - 1
<1> DEFINE dx == Half(p.x - p.at[1] - BORDER)
           dy == Half(p.y - p.at[2] - BORDER)
<1>1. BORDER \in Nat /\ SPRITE \in Nat /\ Positions \subseteq Nat \X Nat \X (0 .. 3)
  BY PipelineAssumption DEF PipelineAssumption
<1>2. p.at[1] \in Nat /\ p.at[2] \in Nat /\ p.at[3] \in 0 .. 3 /\ p.x \in Nat /\ p.y \in Nat
  BY <1>1 DEF APixel
<1>3. InSprite(p.x - p.at[1]) /\ InSprite(p.y - p.at[2])
  BY DEF Wanted
<1>4. dx \in 0 .. SPRITE - 1
  BY <1>1, <1>2, <1>3 DEF InSprite, Half
<1>5. dy \in 0 .. SPRITE - 1
  BY <1>1, <1>2, <1>3 DEF InSprite, Half
<1>6. compute_char_address(p) \in {dx + dy * SPRITE, dx * SPRITE + dy,
                                   (SPRITE - 1 - dx) + dy * SPRITE,
                                   dx * SPRITE + (SPRITE - 1 - dy)}
  BY <1>2 DEF compute_char_address
<1> HIDE DEF dx, dy
<1>7. SPRITE - 1 - dx \in 0 .. SPRITE - 1 /\ SPRITE - 1 - dy \in 0 .. SPRITE - 1
  BY <1>1, <1>4, <1>5
<1>8. dx + dy * SPRITE \in 0 .. SPRITE * SPRITE - 1
  BY <1>1, <1>4, <1>5, CellInside
<1>9. (SPRITE - 1 - dx) + dy * SPRITE \in 0 .. SPRITE * SPRITE - 1
  BY <1>1, <1>5, <1>7, CellInside
<1>10. dx * SPRITE + dy \in 0 .. SPRITE * SPRITE - 1
  <2>1. dy + dx * SPRITE \in 0 .. SPRITE * SPRITE - 1
    BY <1>1, <1>4, <1>5, CellInside
  <2>2. dy + dx * SPRITE = dx * SPRITE + dy
    BY <1>1, <1>4, <1>5
  <2> QED BY <2>1, <2>2
<1>11. dx * SPRITE + (SPRITE - 1 - dy) \in 0 .. SPRITE * SPRITE - 1
  <2>1. (SPRITE - 1 - dy) + dx * SPRITE \in 0 .. SPRITE * SPRITE - 1
    BY <1>1, <1>4, <1>7, CellInside
  <2>2. (SPRITE - 1 - dy) + dx * SPRITE = dx * SPRITE + (SPRITE - 1 - dy)
    BY <1>1, <1>4, <1>7
  <2> QED BY <2>1, <2>2
<1> QED BY <1>6, <1>8, <1>9, <1>10, <1>11 DEF Address

LEMMA CharacterAnswer ==
  ASSUME NEW p \in APixel, COUNT \in Nat, Wanted("character", p),
         NEW bit \in Answers("character", Address("character", p))
  PROVE  {bit} = Answers("character", Address("character", p))
BY CharacterAddress DEF Answers

LEMMA ThreeAtMost ==
  ASSUME NEW a \in 0 .. 3, NEW b, b = IF a < 3 THEN a + 1 ELSE 3
  PROVE  /\ a < 3 \/ a = 3
         /\ b \in 1 .. 3 /\ (b >= 2 => a >= 1) /\ (b = 3 => a >= 2)
         /\ b = 1 => a = 0
         /\ b = 2 => a = 1
         /\ b = 3 => a = 2 \/ a = 3
OBVIOUS

(* The history moves on by a pixel.                                        *)
LEMMA Shift ==
  ASSUME LineInv, settled = 2, PixelClock
  PROVE  /\ settled' = 2 /\ position' = position /\ blockMap' = blockMap
         /\ Given \in APixel /\ asked'[1] = Given
         /\ Len(asked') = IF Len(asked) < 3 THEN Len(asked) + 1 ELSE 3
         /\ Len(asked') >= 2 => asked'[2] = asked[1]
         /\ Len(asked') = 3 => asked'[3] = asked[2]
         /\ calm' = IF calm < 6 THEN calm + 1 ELSE 6
         /\ calm \in 0 .. 6 /\ Len(asked) \in 0 .. 3 /\ (Len(asked) < 3 => calm = Len(asked))
<1>1. Clock /\ Generators /\ position' = position /\ blockMap' = blockMap /\ settled' = 2
  BY DEF PixelClock, Clock
<1>2. Given \in APixel
  BY GivenIs DEF LineInv, AskedInv
<1>3. /\ Len(asked') = IF Len(asked) < 3 THEN Len(asked) + 1 ELSE 3
      /\ asked'[1] = Given
      /\ \A n \in 2 .. Len(asked') : asked'[n] = asked[n - 1]
  BY <1>1, <1>2, Pushed DEF LineInv
<1>4. calm \in 0 .. 6 /\ (Len(asked) < 3 => calm = Len(asked))
  BY DEF LineInv, AskedInv, CALM
<1>5. Len(asked) \in 0 .. 3
  BY AskedLength DEF LineInv
<1>6. calm' = IF calm < 6 THEN calm + 1 ELSE 6
  BY <1>1, <1>4 DEF Generators, CALM
<1>7. Len(asked') >= 2 => asked'[2] = asked[1]
  BY <1>3, <1>5
<1>8. Len(asked') = 3 => asked'[3] = asked[2]
  BY <1>3, <1>5
<1> QED BY <1>1, <1>2, <1>3, <1>4, <1>5, <1>6, <1>7, <1>8

LEMMA WantedShift ==
  ASSUME LineInv, settled = 2, PixelClock, NEW l
  PROVE  /\ W(l, 1)' = Wants(l)
         /\ Len(asked') >= 2 => W(l, 2)' = W(l, 1) /\ Memory(l, 2)' = Memory(l, 1)
         /\ Len(asked') = 3 => W(l, 3)' = W(l, 2) /\ Memory(l, 3)' = Memory(l, 2)
<1>1. W(l, 1)' = Wants(l)
  BY Shift DEF W, Wants
<1>2. Len(asked') >= 2 => W(l, 2)' = W(l, 1) /\ Memory(l, 2)' = Memory(l, 1)
  BY Shift DEF W, Memory, Answers
<1>3. Len(asked') = 3 => W(l, 3)' = W(l, 2) /\ Memory(l, 3)' = Memory(l, 2)
  BY Shift DEF W, Memory, Answers
<1> QED BY <1>1, <1>2, <1>3

LEMMA OtherSteps ==
  ASSUME LineInv, [PixelNext]_pvars, ~(PixelClock /\ settled = 2)
  PROVE  \/ PixelClock /\ asked' = << >> /\ calm' = 0
         \/ /\ UNCHANGED <<vars, layer, vga_de, asked>> /\ Len(asked) = 3
            /\ calm = 6 /\ calm' = 0
         \/ UNCHANGED pvars
         \/ asked' = << >> /\ calm' = 0 /\ layer' = layer
<1>1. CASE PixelClock
  <2>1. settled < 2
    BY <1>1, LineLimits DEF LineInv, VideoInv
  <2> QED BY <1>1, <2>1 DEF PixelClock, Generators
<1>2. CASE Rewrite
  <2>1. UNCHANGED <<vars, layer, vga_de, asked>> /\ calm = 6 /\ calm' = 0
    BY <1>2 DEF Rewrite, CALM
  <2>2. Len(asked) = 3
    <3>1. Len(asked) \in 0 .. 3 /\ (Len(asked) < 3 => calm = Len(asked))
      BY AskedLength DEF LineInv, AskedInv
    <3>2. Len(asked) < 3 \/ Len(asked) = 3
      BY <3>1, ThreeAtMost, Zenon
    <3>3. calm = 6 => ~(calm \in 0 .. 2)
      OBVIOUS
    <3>4. Len(asked) < 3 => Len(asked) \in 0 .. 2
      BY <3>1
    <3> QED BY <2>1, <3>1, <3>2, <3>3, <3>4, Zenon
  <2> QED BY <2>1, <2>2
<1>3. CASE PixelChangeMode \/ PixelLoseLock
  BY <1>3 DEF PixelChangeMode, PixelLoseLock
<1> QED BY <1>1, <1>2, <1>3 DEF PixelNext

(* A frame that settles begins at its first line, before the picture.      *)
LEMMA BlankKept ==
  ASSUME LineInv, BlankInv, [PixelNext]_pvars
  PROVE  BlankInv'
<1>1. TypeOK /\ TypeOK'
  BY LineKept DEF LineInv, VideoInv
<1>2. CASE PixelClock
  <2>1. Clock
    BY <1>2 DEF PixelClock
  <2>2. CASE settled = 2
    <3>1. Len(asked') < 3 => Len(asked) < 3 /\ Len(asked') = Len(asked) + 1 /\ Len(asked) + 1 < 3
      BY <1>2, <2>2, Shift
    <3>2. h_count' = IF h_count = t.h_total THEN 0 ELSE h_count + 1
      BY <2>1, <2>2, LineStep DEF LineInv, Clock
    <3>3. h_count # t.h_total => v_act' = v_act
      BY <2>1, <2>2, LineStep DEF LineInv, Clock
    <3>4. Len(asked) < 3 /\ Len(asked) + 1 < 3 => h_count = Len(asked) /\ v_act = 0 /\ h_count # t.h_total
      <4>1. Len(asked) < 3 => h_count = Len(asked) /\ v_act = 0
        BY <2>2 DEF BlankInv
      <4>2. t.h_total \in Nat /\ t.h_total >= 4
        BY <1>1, PictureBegins
      <4> QED BY <4>1, <4>2
    <3> QED BY <3>1, <3>2, <3>3, <3>4 DEF BlankInv
  <2>3. CASE settled # 2
    <3> SUFFICES ASSUME settled' = 2 PROVE h_count' = 0 /\ v_act' = 0 /\ Len(asked') = 0
      BY DEF BlankInv
    <3>1. settled = 1 /\ h_max /\ v_max
      BY <1>1, <2>1, <2>3, LineLimits DEF Clock
    <3>2. v_act = 0 /\ v_count # t.v_start
      BY <1>1, <3>1, LineLimits DEF LineInv, VideoInv, FirstFrame, v_max
    <3>3. h_count' = 0 /\ v_act' = 0
      BY <2>1, <3>1, <3>2 DEF Clock, Horizontal, Vertical, Bit
    <3>4. asked' = << >>
      BY <1>2, <3>1 DEF PixelClock, Generators
    <3> QED BY <3>3, <3>4
  <2> QED BY <2>2, <2>3
<1>3. CASE Rewrite \/ UNCHANGED pvars
  BY <1>3 DEF BlankInv, Rewrite, pvars, pipeline, vars, horizontal, vertical
<1>4. CASE PixelChangeMode
  BY <1>4 DEF BlankInv, PixelChangeMode, ChangeMode
<1>5. CASE PixelLoseLock
  BY <1>5 DEF BlankInv, PixelLoseLock, LoseLock, ResetValues
<1> QED BY <1>2, <1>3, <1>4, <1>5 DEF PixelNext

LEMMA BufferKept ==
  ASSUME LineInv, BufferInv, [PixelNext]_pvars
  PROVE  BufferInv'
<1>1. CASE PixelClock /\ settled = 2
  <2>1. vga_de_in' = pre_vga_de /\ vga_de' = <<vga_de_in, vga_de[1]>>
    BY <1>1 DEF PixelClock, Clock, DataEnable, Generators, Buffer
  <2>2. Given.de = pre_vga_de
    BY DEF Given, Pixel
  <2>3. /\ Len(asked') = IF Len(asked) < 3 THEN Len(asked) + 1 ELSE 3
        /\ Len(asked) \in 0 .. 3 /\ asked'[1] = Given
        /\ Len(asked') >= 2 => asked'[2] = asked[1]
        /\ Len(asked') = 3 => asked'[3] = asked[2]
    BY <1>1, Shift
  <2>4. Len(asked') >= 2 => Len(asked) >= 1
    BY <2>3, ThreeAtMost, Zenon
  <2>5. Len(asked') = 3 => Len(asked) >= 2
    BY <2>3, ThreeAtMost, Zenon
  <2> QED BY <2>1, <2>2, <2>3, <2>4, <2>5 DEF BufferInv
<1>2. CASE ~(PixelClock /\ settled = 2)
  <2>1. UNCHANGED <<vars, vga_de, asked>> \/ asked' = << >>
    BY <1>2, OtherSteps DEF pvars, pipeline
  <2> QED BY <2>1 DEF BufferInv, vars
<1> QED BY <1>1, <1>2

LEMMA LayersKept ==
  ASSUME LineInv, LayersInv, [PixelNext]_pvars
  PROVE  LayersInv'
<1>1. CASE PixelClock
  <2>1. Generators /\ DOMAIN layer = Layers
    BY <1>1 DEF PixelClock, LayersInv
  <2>2. ASSUME NEW l \in Layers PROVE DOMAIN layer' = Layers /\ layer'[l].state \in 0 .. 3
    BY <2>1, GeneratorStep DEF NextState
  <2> QED BY <2>2 DEF LayersInv, Layers
<1>2. CASE layer' = layer
  BY <1>2 DEF LayersInv
<1> QED BY <1>1, <1>2 DEF PixelNext, Rewrite, PixelChangeMode, PixelLoseLock, pvars, pipeline

LEMMA NothingInBlank ==
  ASSUME LineInv, settled = 2, v_act = 0, NEW l \in BlockLayers
  PROVE  /\ ~Wants(l)
         /\ \A n \in 1 .. Len(asked) : h_count + 1 >= n => ~W(l, n)
<1>1. \A h : ~D(l, h)
  <2>1. \A h : De(h) # 1
    BY DEF De, Bit
  <2> QED BY <2>1, PixelIs DEF D, BlockLayers
<1>2. ~Wants(l)
  BY <1>1, WantsIs
<1>3. \A n \in 1 .. Len(asked) : h_count + 1 >= n => ~W(l, n)
  <2>1. l \in Layers
    BY DEF BlockLayers, Layers
  <2> QED BY <1>1, <2>1, WantedIs
<1> QED BY <1>2, <1>3

(* The first three clocks of a settled frame: the state runs out.          *)
LEMMA BlockStarts ==
  ASSUME LineInv, BlankInv, LayersInv, settled = 2, PixelClock, Len(asked) < 3,
         NEW l \in BlockLayers, BlockInv(l)
  PROVE  BlockInv(l)'
<1> DEFINE g == layer[l]  n == layer'[l]
<1>1. h_count = Len(asked) /\ v_act = 0 /\ ~Wants(l)
      /\ (Len(asked) >= 1 => ~W(l, 1)) /\ (Len(asked) = 2 => ~W(l, 2))
  <2>1. h_count = Len(asked) /\ v_act = 0
    BY DEF BlankInv
  <2>2. Len(asked) \in 0 .. 3
    BY Shift
  <2>3. ~Wants(l) /\ \A k \in 1 .. Len(asked) : h_count + 1 >= k => ~W(l, k)
    BY <2>1, NothingInBlank
  <2>4. ASSUME NEW a \in 0 .. 3
        PROVE  (a >= 1 => 1 \in 1 .. a) /\ (a = 2 => 2 \in 1 .. a) /\ a + 1 >= 1 /\ (a = 2 => a + 1 >= 2)
    OBVIOUS
  <2> QED BY <2>1, <2>2, <2>3, <2>4
<1>2. /\ n.state = NextState(g, FALSE) /\ g.state \in 0 .. 3
      /\ n.colour = Colour(g, FALSE)
  <2>1. l \in Layers /\ DOMAIN layer = Layers /\ g.state \in 0 .. 3 /\ Generators
    BY DEF BlockLayers, Layers, LayersInv, PixelClock
  <2>2. Wants(l) = FALSE
    BY <1>1, WantsIs, PixelIs DEF D, BlockLayers
  <2> QED BY <2>1, <2>2, GeneratorStep
<1>3. /\ W(l, 1)' = Wants(l)
      /\ Len(asked') >= 2 => W(l, 2)' = W(l, 1)
      /\ Len(asked') = 3 => W(l, 3)' = W(l, 2)
  BY WantedShift
<1>4. /\ Len(asked) \in 0 .. 3 /\ settled' = 2
      /\ (Len(asked) = 0 => Len(asked') = 1)
      /\ (Len(asked) = 1 => Len(asked') = 2)
      /\ (Len(asked) = 2 => Len(asked') = 3 /\ calm' = 3)
  <2>1. /\ Len(asked) \in 0 .. 3 /\ Len(asked') = IF Len(asked) < 3 THEN Len(asked) + 1 ELSE 3
        /\ calm = Len(asked) /\ calm' = (IF calm < 6 THEN calm + 1 ELSE 6) /\ settled' = 2
    BY Shift, Zenon
  <2>2. ASSUME NEW a \in 0 .. 3, NEW b, b = IF a < 3 THEN a + 1 ELSE 3
        PROVE  (a = 0 => b = 1) /\ (a = 1 => b = 2) /\ (a = 2 => b = 3)
    BY <2>2
  <2>3. calm = 2 => calm' = 3
    BY <2>1
  <2>4. (Len(asked) = 0 => Len(asked') = 1) /\ (Len(asked) = 1 => Len(asked') = 2)
        /\ (Len(asked) = 2 => Len(asked') = 3)
    BY <2>1, <2>2, Zenon
  <2>5. Len(asked) = 2 => calm' = 3
    BY <2>1, <2>3, Zenon
  <2> QED BY <2>1, <2>4, <2>5
<1>5. v_act' = 0
  <2>1. h_count # t.h_total
    <3>1. t.h_total >= 3 /\ t.h_total \in Nat
      BY PictureBegins DEF LineInv, VideoInv
    <3>2. ASSUME NEW a \in 0 .. 3, a < 3, NEW b \in Nat, b >= 3 PROVE a # b
      BY <3>2
    <3> QED BY <1>1, <1>4, <3>1, <3>2
  <2> QED BY <1>1, <2>1, LineStep DEF LineInv, PixelClock, Clock
<1>6. BlockInv(l) /\ settled = 2
  OBVIOUS
<1> HIDE DEF g, n
<1>7. CASE Len(asked) = 0
  <2>1. Len(asked') = 1 /\ n.state # 1
    BY <1>2, <1>4, <1>7 DEF NextState
  <2> QED BY <2>1 DEF BlockInv, n
<1>8. CASE Len(asked) = 1
  <2>1. Len(asked') = 2
    BY <1>4, <1>8
  <2>2. g.state # 1
    BY <1>6, <1>8 DEF BlockInv, g
  <2>3. n.state \in {0, 3}
    BY <1>2, <2>2 DEF NextState
  <2> QED BY <2>1, <2>3 DEF BlockInv, n
<1>9. CASE Len(asked) = 2
  <2>1. Len(asked') = 3 /\ calm' = 3
    BY <1>4, <1>9
  <2>2. g.state \in {0, 3}
    BY <1>6, <1>9 DEF BlockInv, g
  <2>3. n.state = 0
    BY <1>2, <2>2 DEF NextState
  <2>4. ~W(l, 1)' /\ ~W(l, 2)' /\ ~W(l, 3)'
    BY <1>1, <1>3, <1>9, <2>1
  <2> QED BY <1>5, <2>1, <2>3, <2>4 DEF BlockInv, StateOf, n
<1>10. Len(asked) = 0 \/ Len(asked) = 1 \/ Len(asked) = 2
  <2>1. \A a \in 0 .. 3 : a < 3 => a = 0 \/ a = 1 \/ a = 2
    OBVIOUS
  <2> QED BY <1>4, <2>1, Zenon
<1> QED BY <1>7, <1>8, <1>9, <1>10

(* From then on.                                                           *)
LEMMA BlockGoesOn ==
  ASSUME LineInv, LayersInv, settled = 2, PixelClock, Len(asked) = 3,
         NEW l \in BlockLayers, BlockInv(l)
  PROVE  BlockInv(l)'
<1> DEFINE g == layer[l]  n == layer'[l]
           w1 == W(l, 1)  w2 == W(l, 2)  w3 == W(l, 3)
<1>1. /\ g.state = StateOf(w1, w2)
      /\ w1 => g.rdaddress = Address(l, asked[1])
      /\ w2 /\ calm >= 1 => g.memory_out \in Memory(l, 2)
      /\ ~w3 => g.colour = 0 \/ (calm = 3 /\ v_act = 0)
  BY DEF BlockInv
<1>2. /\ n.state = NextState(g, Wants(l))
      /\ n.rdaddress = IF Sends(g, Wants(l)) THEN Address(l, Given) ELSE g.rdaddress
      /\ n.memory_out \in Answers(l, g.rdaddress)
      /\ n.colour = Colour(g, Wants(l))
  <2>1. l \in Layers /\ DOMAIN layer = Layers /\ Generators
    BY DEF BlockLayers, Layers, LayersInv, PixelClock
  <2> QED BY <2>1, GeneratorStep
<1>3. /\ w1 /\ ~w2 => Wants(l) /\ ~w3
      /\ ~w1 /\ w2 => ~Wants(l)
      /\ ~w1 /\ ~w2 /\ w3 => ~Wants(l)
  BY BlockRuns
<1>4. v_act = 0 => ~Wants(l) /\ ~w1
  <2>1. 1 \in 1 .. Len(asked) /\ h_count + 1 >= 1
    BY LineLimits DEF LineInv, VideoInv
  <2> QED BY <2>1, NothingInBlank
<1>5. /\ Len(asked') = 3 /\ asked'[1] = Given /\ settled' = 2
      /\ calm \in 0 .. 6 /\ calm' = IF calm < 6 THEN calm + 1 ELSE 6
  BY Shift
<1>6. /\ W(l, 1)' = Wants(l)
      /\ W(l, 2)' = w1 /\ Memory(l, 2)' = Memory(l, 1)
      /\ W(l, 3)' = w2 /\ Memory(l, 3)' = Memory(l, 2)
  BY <1>5, WantedShift
<1>7. w1 \in BOOLEAN /\ w2 \in BOOLEAN /\ w3 \in BOOLEAN /\ Wants(l) \in BOOLEAN
  BY DEF W, Wants, Wanted, BlockLayers
<1> HIDE DEF g, n, w1, w2, w3
<1>8. n.state = StateOf(Wants(l), w1)
  BY <1>1, <1>2, <1>3, <1>7 DEF NextState, StateOf
<1>9. Wants(l) => n.rdaddress = Address(l, Given)
  BY <1>1, <1>2, <1>3, <1>7 DEF Sends, StateOf
<1>10. w1 => n.memory_out \in Memory(l, 1)
  BY <1>1, <1>2 DEF Memory
<1>11. w2 /\ calm >= 1 => n.colour \in Memory(l, 2)
  BY <1>1, <1>2, <1>7 DEF Colour, StateOf
<1>12. ~w2 => n.colour = 0
  BY <1>1, <1>2, <1>3, <1>4, <1>7 DEF Colour, StateOf
<1>13. calm' >= 2 => calm >= 1
  BY <1>5
<1>14. /\ layer'[l].state = StateOf(W(l, 1)', W(l, 2)')
       /\ W(l, 1)' => layer'[l].rdaddress = Address(l, asked'[1])
       /\ W(l, 2)' /\ calm' >= 1 => layer'[l].memory_out \in Memory(l, 2)'
       /\ W(l, 3)' /\ calm' >= 2 => layer'[l].colour \in Memory(l, 3)'
       /\ ~W(l, 3)' => layer'[l].colour = 0
  BY <1>5, <1>6, <1>8, <1>9, <1>10, <1>11, <1>12, <1>13 DEF n
<1>15. Address(l, asked'[1]) = Address(l, asked[1])'
  BY DEF Address, compute_char_address, BlockAddress, Place
<1> QED BY <1>5, <1>14, <1>15 DEF BlockInv, StateOf

LEMMA BlockKept ==
  ASSUME LineInv, BlankInv, LayersInv, [PixelNext]_pvars, NEW l \in BlockLayers, BlockInv(l)
  PROVE  BlockInv(l)'
<1>1. CASE PixelClock /\ settled = 2
  <2>1. Len(asked) < 3 \/ Len(asked) = 3
    BY <1>1, Shift, ThreeAtMost, Zenon
  <2> QED BY <1>1, <2>1, BlockStarts, BlockGoesOn
<1>2. CASE ~(PixelClock /\ settled = 2)
  <2>1. CASE asked' = << >>
    <3>1. Len(asked') = 0
      BY <2>1
    <3> QED BY <3>1 DEF BlockInv
  <2>2. CASE /\ UNCHANGED <<vars, layer, vga_de, asked>> /\ Len(asked) = 3
             /\ calm = 6 /\ calm' = 0
    BY <2>2 DEF BlockInv, W, vars
  <2>3. CASE UNCHANGED pvars
    BY <2>3 DEF BlockInv, W, Memory, Answers, pvars, pipeline, vars, vertical
  <2> QED BY <1>2, <2>1, <2>2, <2>3, OtherSteps
<1> QED BY <1>1, <1>2

LEMMA CharacterClock ==
  ASSUME LineInv, LayersInv, CharacterInv, settled = 2, PixelClock
  PROVE  CharacterInv'
<1> DEFINE c == "character"
           g == layer[c]  n == layer'[c]  wants == Wants(c)
           w1 == W(c, 1)  w2 == W(c, 2)  w3 == W(c, 3)
<1>1. /\ g.state \in States
      /\ calm >= 1 /\ w1 /\ g.state # 0 => g.rdaddress = Address(c, asked[1])
      /\ calm >= 2 /\ w2 /\ g.state \in {2, 3} => {g.memory_out} = Memory(c, 2)
      /\ calm \in {4, 5} /\ g.colour # 0 => w1 \/ w2 \/ w3 \/ ~wants
      /\ calm = 5 /\ g.state = 1 => g.colour = 0
      /\ calm = 6 => {g.colour} = IF w3 THEN Memory(c, 3) ELSE {0}
  BY DEF CharacterInv
<1>2. /\ n.state = NextState(g, wants)
      /\ n.rdaddress = IF Sends(g, wants) THEN Address(c, Given) ELSE g.rdaddress
      /\ n.memory_out \in Answers(c, g.rdaddress)
      /\ n.colour = Colour(g, wants)
  <2>1. c \in Layers /\ DOMAIN layer = Layers /\ Generators
    BY DEF Layers, LayersInv, PixelClock
  <2> QED BY <2>1, GeneratorStep
<1>3. /\ settled' = 2 /\ Given \in APixel /\ asked'[1] = Given
      /\ calm \in 0 .. 6 /\ calm' = IF calm < 6 THEN calm + 1 ELSE 6
  BY Shift
<1>4. /\ calm >= 1 => Len(asked) >= 1 /\ Len(asked') >= 2
      /\ calm >= 2 => Len(asked') = 3
  <2>1. /\ Len(asked) \in 0 .. 3 /\ Len(asked') = IF Len(asked) < 3 THEN Len(asked) + 1 ELSE 3
        /\ (Len(asked) < 3 => calm = Len(asked))
    BY Shift
  <2>2. ASSUME NEW a \in 0 .. 3, NEW b, b = IF a < 3 THEN a + 1 ELSE 3,
               NEW d \in 0 .. 6, a < 3 => d = a
        PROVE  (d >= 1 => a >= 1 /\ b >= 2) /\ (d >= 2 => b = 3)
    BY <2>2
  <2> QED BY <1>3, <2>1, <2>2, Zenon
<1>5. /\ W(c, 1)' = wants
      /\ calm >= 1 => W(c, 2)' = w1 /\ Memory(c, 2)' = Memory(c, 1)
      /\ calm >= 2 => W(c, 3)' = w2 /\ Memory(c, 3)' = Memory(c, 2)
  BY <1>4, WantedShift, Zenon
<1>6. calm >= 2 => /\ w1 /\ ~w2 => wants
                   /\ ~w1 /\ w2 => ~wants
  BY CharacterRunsOn
<1>7. calm >= 3 => /\ w1 /\ ~w2 => ~w3
                   /\ w1 /\ w2 /\ ~w3 => wants
                   /\ ~w1 /\ ~w2 /\ w3 => ~wants
  BY <1>3, CharacterRunsOn
<1>8. calm >= 3 /\ w3 /\ ~w2 /\ ~w1 => ~Wants(c)'
  BY NotAgain
<1>9. calm >= 1 /\ w1 /\ g.state # 0 => {n.memory_out} = Memory(c, 1)
  <2> SUFFICES ASSUME calm >= 1, w1, g.state # 0 PROVE {n.memory_out} = Memory(c, 1)
    OBVIOUS
  <2>1. asked[1] \in APixel
    <3>1. Len(asked) \in 0 .. 3 /\ Len(asked) >= 1 /\ asked \in Seq(APixel)
      BY <1>4, AskedLength DEF LineInv, AskedInv
    <3>2. ASSUME NEW a \in 0 .. 3, a >= 1 PROVE 1 \in 1 .. a
      BY <3>2
    <3>3. 1 \in 1 .. Len(asked)
      BY <3>1, <3>2
    <3> QED BY <3>1, <3>3, ElementOfSeq
  <2>2. COUNT \in Nat /\ Wanted("character", asked[1])
    BY LineLimits DEF LineInv, VideoInv, W
  <2>3. n.memory_out \in Answers("character", Address("character", asked[1]))
    BY <1>1, <1>2
  <2> QED BY <2>1, <2>2, <2>3, CharacterAnswer DEF Memory
<1>10. w1 \in BOOLEAN /\ w2 \in BOOLEAN /\ w3 \in BOOLEAN /\ wants \in BOOLEAN
  BY DEF W, Wants, Wanted
<1>11. Address(c, asked'[1]) = Address(c, asked[1])'
  BY DEF Address, compute_char_address
<1>12. /\ calm = 1 => States = IF w1 THEN 0 .. 2 ELSE {0, 2, 3}
       /\ calm = 2 => States = IF w1 THEN IF w2 THEN {1, 2} ELSE 0 .. 2
                               ELSE IF w2 THEN {0, 2, 3} ELSE {0, 3}
       /\ calm = 3 => States = IF w1 THEN IF w2 THEN IF w3 THEN {2} ELSE {1, 2} ELSE {0, 1}
                               ELSE IF w2 THEN {2, 3} ELSE IF w3 THEN {0, 3} ELSE {0}
       /\ calm = 4 => States = IF w1 THEN IF w2 THEN IF w3 THEN {2} ELSE {1, 2} ELSE {1}
                               ELSE IF w2 THEN {3} ELSE IF w3 THEN {0, 3} ELSE {0}
       /\ calm \in {5, 6} => States = {StateOf(w1, w2)}
  BY DEF States
<1>13. g.state \in 0 .. 3
  BY DEF LayersInv, Layers
<1> DEFINE v2 == W(c, 2)'  v3 == W(c, 3)'
<1>14. /\ calm' = 1 => States' = IF wants THEN 0 .. 2 ELSE {0, 2, 3}
       /\ calm' = 2 => States' = IF wants THEN IF v2 THEN {1, 2} ELSE 0 .. 2
                               ELSE IF v2 THEN {0, 2, 3} ELSE {0, 3}
       /\ calm' = 3 => States' = IF wants THEN IF v2 THEN IF v3 THEN {2} ELSE {1, 2} ELSE {0, 1}
                               ELSE IF v2 THEN {2, 3} ELSE IF v3 THEN {0, 3} ELSE {0}
       /\ calm' = 4 => States' = IF wants THEN IF v2 THEN IF v3 THEN {2} ELSE {1, 2} ELSE {1}
                               ELSE IF v2 THEN {3} ELSE IF v3 THEN {0, 3} ELSE {0}
       /\ calm' \in {5, 6} => States' = {StateOf(wants, v2)}
  BY <1>5 DEF States, StateOf
<1> HIDE DEF g, n, wants, w1, w2, w3, v2, v3
<1>15. /\ calm >= 1 => v2 = w1
       /\ calm >= 2 => v3 = w2
  BY <1>5 DEF v2, v3
<1>16. n.state \in States'
  <2>1. CASE calm = 0
    BY <1>2, <1>3, <1>10, <1>13, <1>14, <2>1 DEF NextState
  <2>2. CASE calm = 1
    BY <1>1, <1>2, <1>3, <1>10, <1>12, <1>14, <1>15, <2>2 DEF NextState
  <2>3. CASE calm = 2
    BY <1>1, <1>2, <1>3, <1>6, <1>10, <1>12, <1>14, <1>15, <2>3 DEF NextState
  <2>4. CASE calm = 3
    BY <1>1, <1>2, <1>3, <1>6, <1>7, <1>10, <1>12, <1>14, <1>15, <2>4 DEF NextState
  <2>5. CASE calm = 4
    BY <1>1, <1>2, <1>3, <1>6, <1>7, <1>10, <1>12, <1>14, <1>15, <2>5 DEF NextState, StateOf
  <2>6. CASE calm \in {5, 6}
    BY <1>1, <1>2, <1>3, <1>6, <1>7, <1>10, <1>12, <1>14, <1>15, <2>6 DEF NextState, StateOf
  <2> QED BY <1>3, <2>1, <2>2, <2>3, <2>4, <2>5, <2>6
<1>17. wants /\ n.state # 0 => n.rdaddress = Address(c, Given)
  BY <1>2, <1>10, <1>13 DEF Sends, NextState
<1>18. calm' >= 2 /\ v2 /\ n.state \in {2, 3} => {n.memory_out} = Memory(c, 2)'
  <2>1. n.state \in {2, 3} => g.state # 0
    BY <1>2, <1>13 DEF NextState
  <2>2. calm' >= 2 => calm >= 1
    BY <1>3
  <2> QED BY <1>5, <1>9, <1>15, <2>1, <2>2
<1>19. calm' \in {4, 5} /\ n.colour # 0 => wants \/ v2 \/ v3 \/ ~Wants(c)'
  <2> SUFFICES ASSUME calm' \in {4, 5}, n.colour # 0, ~wants, ~v2, ~v3 PROVE ~Wants(c)'
    OBVIOUS
  <2>1. calm \in {3, 4}
    BY <1>3
  <2>2. ~w1 /\ ~w2
    BY <1>15, <2>1
  <2>3. g.state # 0
    BY <1>2 DEF Colour
  <2>4. w3
    BY <1>1, <1>12, <2>1, <2>2, <2>3
  <2> QED BY <1>8, <2>1, <2>2, <2>4
<1>20. calm' = 5 /\ n.state = 1 => n.colour = 0
  <2> SUFFICES ASSUME calm' = 5, n.state = 1 PROVE n.colour = 0
    OBVIOUS
  <2>1. calm = 4
    BY <1>3
  <2>2. g.state = 0 /\ wants
    BY <1>2, <1>13 DEF NextState
  <2>3. n.colour = g.colour
    BY <1>2, <2>2 DEF Colour
  <2>4. ~w1 /\ ~w2
    BY <1>1, <1>10, <1>12, <2>1, <2>2
  <2>5. ~w3
    BY <1>7, <2>1, <2>2, <2>4
  <2> QED BY <1>1, <2>1, <2>2, <2>3, <2>4, <2>5
<1>21. calm' = 6 => {n.colour} = IF v3 THEN Memory(c, 3)' ELSE {0}
  <2> SUFFICES ASSUME calm' = 6 PROVE {n.colour} = IF v3 THEN Memory(c, 3)' ELSE {0}
    OBVIOUS
  <2>1. calm \in {5, 6}
    BY <1>3
  <2>2. g.state = StateOf(w1, w2) /\ v3 = w2 /\ Memory(c, 3)' = Memory(c, 2)
    BY <1>1, <1>5, <1>12, <1>15, <2>1
  <2>3. CASE w2
    <3>1. g.state \in {2, 3}
      BY <2>2, <2>3 DEF StateOf
    <3>2. n.colour = g.memory_out
      BY <1>2, <3>1 DEF Colour
    <3>3. calm >= 2
      BY <2>1
    <3>4. {g.memory_out} = Memory(c, 2)
      BY <1>1, <2>3, <3>1, <3>3
    <3> QED BY <2>2, <2>3, <3>2, <3>4
  <2>4. CASE ~w2
    <3>1. CASE w1
      <4>1. g.state = 1 /\ ~w3
        BY <1>7, <2>1, <2>2, <2>4, <3>1 DEF StateOf
      <4>2. n.colour = g.colour
        BY <1>2, <4>1 DEF Colour
      <4>3. g.colour = 0
        BY <1>1, <2>1, <4>1
      <4> QED BY <2>2, <2>4, <4>2, <4>3
    <3>2. CASE ~w1
      <4>1. g.state = 0
        BY <2>2, <2>4, <3>2 DEF StateOf
      <4>2. CASE wants
        <5>1. ~w3
          BY <1>7, <2>1, <2>4, <3>2, <4>2
        <5>2. n.colour = g.colour
          BY <1>2, <4>1, <4>2 DEF Colour
        <5>3. g.colour = 0
          BY <1>1, <2>1, <2>4, <3>2, <4>2, <5>1
        <5> QED BY <2>2, <2>4, <5>2, <5>3
      <4>3. CASE ~wants
        <5>1. n.colour = 0
          BY <1>2, <4>1, <4>3 DEF Colour
        <5> QED BY <2>2, <2>4, <5>1
      <4> QED BY <4>2, <4>3
    <3> QED BY <3>1, <3>2
  <2> QED BY <2>3, <2>4
<1>22. /\ n.state \in States'
       /\ W(c, 1)' /\ n.state # 0 => n.rdaddress = Address(c, asked[1])'
       /\ calm' >= 2 /\ W(c, 2)' /\ n.state \in {2, 3} => {n.memory_out} = Memory(c, 2)'
       /\ calm' \in {4, 5} /\ n.colour # 0 => W(c, 1)' \/ W(c, 2)' \/ W(c, 3)' \/ ~Wants(c)'
       /\ calm' = 5 /\ n.state = 1 => n.colour = 0
       /\ calm' = 6 => {n.colour} = IF W(c, 3)' THEN Memory(c, 3)' ELSE {0}
  BY <1>3, <1>5, <1>11, <1>16, <1>17, <1>18, <1>19, <1>20, <1>21 DEF v2, v3
<1> QED BY <1>22 DEF CharacterInv, n

LEMMA CharacterKept ==
  ASSUME LineInv, LayersInv, CharacterInv, [PixelNext]_pvars
  PROVE  CharacterInv'
<1>1. CASE PixelClock /\ settled = 2
  BY <1>1, CharacterClock
<1>2. CASE ~(PixelClock /\ settled = 2)
  <2>1. CASE calm' = 0
    <3>1. layer'["character"].state \in 0 .. 3
      BY LayersKept DEF LayersInv, Layers
    <3>2. States' = 0 .. 3
      BY <2>1 DEF States
    <3> QED BY <2>1, <3>1, <3>2 DEF CharacterInv
  <2>2. CASE UNCHANGED pvars
    <3>1. /\ layer' = layer /\ asked' = asked /\ calm' = calm /\ blockMap' = blockMap
          /\ pre_vga_de' = pre_vga_de /\ pixel_x' = pixel_x /\ pixel_y' = pixel_y
          /\ position' = position
      BY <2>2 DEF pvars, pipeline, vars, horizontal, vertical
    <3>2. /\ \A n \in 1 .. 3 : W("character", n)' = W("character", n)
          /\ Wants("character")' = Wants("character")
          /\ \A n \in 1 .. 3 : Memory("character", n)' = Memory("character", n)
      BY <3>1 DEF W, Wants, Given, Memory, Answers
    <3>3. States' = States
      BY <3>1, <3>2 DEF States, StateOf
    <3> QED BY <3>1, <3>2, <3>3 DEF CharacterInv
  <2> QED BY <1>2, <2>1, <2>2, OtherSteps
<1> QED BY <1>1, <1>2

(***************************************************************************)
(* The whole.                                                              *)
(***************************************************************************)
PipelineInv ==
  /\ LineInv /\ BlankInv /\ BufferInv /\ LayersInv
  /\ \A l \in BlockLayers : BlockInv(l)
  /\ CharacterInv

LEMMA PipelineInit == PixelInit => PipelineInv
<1> SUFFICES ASSUME PixelInit PROVE PipelineInv
  OBVIOUS
<1>1. /\ asked = << >> /\ Len(asked) = 0 /\ calm = 0 /\ h_count = 0 /\ v_act = 0
      /\ layer = [l \in Layers |-> [state |-> 0, rdaddress |-> 0, memory_out |-> 0, colour |-> 0]]
  BY DEF PixelInit, Init
<1>2. LineInv
  BY LineInit
<1>3. BlankInv /\ BufferInv /\ LayersInv /\ \A l \in BlockLayers : BlockInv(l)
  BY <1>1 DEF BlankInv, BufferInv, LayersInv, BlockInv
<1>4. CharacterInv
  BY <1>1 DEF CharacterInv, States, Layers
<1> QED BY <1>2, <1>3, <1>4 DEF PipelineInv

LEMMA PipelineStep == PipelineInv /\ [PixelNext]_pvars => PipelineInv'
<1> SUFFICES ASSUME PipelineInv, [PixelNext]_pvars PROVE PipelineInv'
  OBVIOUS
<1>1. LineInv' /\ BlankInv' /\ BufferInv' /\ LayersInv'
  BY LineKept, BlankKept, BufferKept, LayersKept DEF PipelineInv
<1>2. \A l \in BlockLayers : BlockInv(l)'
  BY BlockKept DEF PipelineInv
<1>3. CharacterInv'
  BY CharacterKept DEF PipelineInv
<1> QED BY <1>1, <1>2, <1>3 DEF PipelineInv

(* A block that the memory has is where its place says.                    *)
LEMMA BlockInside ==
  ASSUME NEW l \in BlockLayers, NEW p \in APixel, COUNT \in Nat
  PROVE  Answers(l, Address(l, p))
           \subseteq IF Place(p) < WORDS THEN {Bit(Place(p) \in blockMap)} ELSE {0, 1}
<1>1. /\ BLOCK \in Nat \ {0} /\ MARGIN_COLUMNS \in Nat /\ WORD \in Nat /\ WORDS \in Nat
      /\ ADDRESSES \in Nat /\ WORDS <= ADDRESSES /\ p.x \in Nat /\ p.y \in Nat
  BY PipelineAssumption DEF PipelineAssumption, APixel
<1>2. Place(p) \in Nat
  <2>1. p.x \div BLOCK \in Nat /\ p.y \div BLOCK \in Nat
    BY <1>1
  <2>2. (p.y \div BLOCK) * WORD \in Nat
    BY <1>1, <2>1
  <2> QED BY <1>1, <2>1, <2>2 DEF Place
<1>3. Address(l, p) = Place(p) % ADDRESSES /\ l # "character"
  BY DEF Address, BlockAddress, BlockLayers
<1>4. CASE Place(p) < WORDS
  <2>1. Place(p) % ADDRESSES = Place(p) /\ Place(p) \in 0 .. WORDS - 1
    BY <1>1, <1>2, <1>4
  <2> QED BY <1>3, <1>4, <2>1 DEF Answers
<1>5. CASE ~(Place(p) < WORDS)
  <2>1. Answers(l, Address(l, p)) \subseteq {0, 1}
    BY DEF Answers, Bit
  <2> QED BY <1>5, <2>1
<1> QED BY <1>4, <1>5

LEMMA PipelineAligned == PipelineInv => PictureAligned
<1> SUFFICES ASSUME PipelineInv, settled = 2, calm = CALM
             PROVE  /\ vga_de[2] = asked[3].de
                    /\ \A l \in Layers : layer[l].colour \in Content(l, asked[3])
  BY DEF PictureAligned
<1>1. calm = 6 /\ Len(asked) = 3
  <2>1. calm = 6
    BY DEF CALM
  <2>2. Len(asked) \in 0 .. 3 /\ (Len(asked) < 3 => calm = Len(asked))
    BY AskedLength DEF PipelineInv, LineInv, AskedInv
  <2>3. ASSUME NEW a \in 0 .. 3, NEW d, d = 6, a < 3 => d = a PROVE a = 3
    BY <2>3
  <2> QED BY <2>1, <2>2, <2>3, Zenon
<1>2. vga_de[2] = asked[3].de
  BY <1>1 DEF PipelineInv, BufferInv
<1>3. asked[3] \in APixel /\ COUNT \in Nat
  <2>1. asked \in Seq(APixel) /\ 3 \in 1 .. Len(asked)
    BY <1>1 DEF PipelineInv, LineInv, AskedInv
  <2> QED BY <2>1, ElementOfSeq, LineLimits DEF PipelineInv, LineInv, VideoInv
<1>4. ASSUME NEW l \in BlockLayers PROVE layer[l].colour \in Content(l, asked[3])
  <2>1. layer[l].colour \in IF W(l, 3) THEN Memory(l, 3) ELSE {0}
    BY <1>1 DEF PipelineInv, BlockInv
  <2>2. l # "character"
    BY DEF BlockLayers
  <2> QED BY <1>3, <2>1, <2>2, BlockInside DEF Content, W, Memory
<1>5. layer["character"].colour \in Content("character", asked[3])
  <2>1. {layer["character"].colour} = IF W("character", 3) THEN Memory("character", 3) ELSE {0}
    BY <1>1 DEF PipelineInv, CharacterInv
  <2>2. W("character", 3) =>
          Memory("character", 3) = {Bit(compute_char_address(asked[3]) \in Shape)}
    BY <1>3, CharacterAddress DEF W, Memory, Answers, Address
  <2> QED BY <2>1, <2>2 DEF Content, W
<1> QED BY <1>2, <1>4, <1>5 DEF Layers, BlockLayers

(* Six clocks after a write at most, and in every frame that follows two   *)
(* undisturbed ones, the monitor is given the colours of the pixel that it *)
(* is told of, for all sizes of blocks, dots and characters, all places,   *)
(* orientations and memories, wherever the memory has a word for the block.*)
THEOREM PicturesAligned == PixelSpec => []PictureAligned
<1>1. PixelSpec => []PipelineInv
  BY PipelineInit, PipelineStep, PTL DEF PixelSpec
<1>2. QED
  BY <1>1, PipelineAligned, PTL

=============================================================================
