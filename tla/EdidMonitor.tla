---------------------------- MODULE EdidMonitor ----------------------------
(***************************************************************************)
(* The other side of edid.c: monitors, described by what they can do, the  *)
(* bytes of their EDID as the standards (EDID 1.4, CEA-861) lay them out,  *)
(* and what somebody who reads the description expects to see printed.     *)
(* Written from the fields' meaning, not from the decoder.                 *)
(***************************************************************************)
EXTENDS Edid               \* only for Total

LowByte(x) == x % 256
HighPart(x) == x \div 256
Nibbles(high, low) == 16 * high + low
PadTo(n, seq) == seq \o [i \in 1 .. n - Len(seq) |-> 0]
Flag(yes, weight) == IF yes THEN weight ELSE 0

(* A timing: digital separate sync, without stereo.                        *)
TimingBytes(t) ==
  LET clock == t.pixel_clock \div 10000 IN
  <<LowByte(clock), HighPart(clock),
    LowByte(t.width), LowByte(t.h_blank), Nibbles(HighPart(t.width), HighPart(t.h_blank)),
    LowByte(t.height), LowByte(t.v_blank), Nibbles(HighPart(t.height), HighPart(t.v_blank)),
    LowByte(t.h_fp), LowByte(t.h_sync), Nibbles(t.v_fp % 16, t.v_sync % 16),
    64 * HighPart(t.h_fp) + 16 * HighPart(t.h_sync) + 4 * (t.v_fp \div 16) + t.v_sync \div 16,
    LowByte(t.h_size), LowByte(t.v_size), Nibbles(HighPart(t.h_size), HighPart(t.v_size)),
    t.border_lr, t.border_tb,
    Flag(t.interlaced, 128) + 24 + Flag("vsync_p" \in t.sync, 4) + Flag("hsync_p" \in t.sync, 2)>>

(* The other descriptors: [kind, ...].  Text ends with a newline if there  *)
(* is room for one.                                                        *)
TextBytes(tag, text) ==
  <<0, 0, 0, tag, 0>> \o SubSeq(text \o <<10>> \o [i \in 1 .. 13 |-> 32], 1, 13)

Above(x) == x > 255
LimitBytes(l) ==
  <<0, 0, 0, \hfd,
    Flag(Above(l.v_max), 2) + Flag(Above(l.v_min), 1) + Flag(Above(l.h_max), 8) + Flag(Above(l.h_min), 4)>>
    \o [i \in 1 .. 4 |-> LET x == <<l.v_min, l.v_max, l.h_min, l.h_max>>[i] IN
                         IF Above(x) THEN x - 255 ELSE x]
    \o <<l.p_max \div 10, 1, 10, 32, 32, 32, 32, 32, 32>>

(* Of n bytes the bits that are in the set, counted from the highest one.  *)
BitByte(set, i) ==
  Flag(i \in set, 128) + Flag(i + 1 \in set, 64) + Flag(i + 2 \in set, 32) + Flag(i + 3 \in set, 16)
    + Flag(i + 4 \in set, 8) + Flag(i + 5 \in set, 4) + Flag(i + 6 \in set, 2) + Flag(i + 7 \in set, 1)
BitBytes(n, set) == [i \in 1 .. n |-> BitByte(set, 8 * (i - 1))]

(* n rows of w bytes each.                                                 *)
Rows(n, w, Row(_)) == [k \in 1 .. n * w |-> Row((k - 1) \div w + 1)[((k - 1) % w) + 1]]

ModeBytes(n, modes) ==
  LET Mode(i) == IF i > Len(modes) THEN <<1, 1>>
                 ELSE <<modes[i].horizontal \div 8 - 31,
                        64 * modes[i].aspect_ratio + modes[i].refresh_rate - 60>> IN
  Rows(n, 2, Mode)

PointBytes(p) == <<p.index, Nibbles(0, 4 * (p.x % 4) + (p.y % 4)), p.x \div 4, p.y \div 4, p.gamma - 100>>

DescriptorBytes(d) ==
  CASE d.kind = "timing" -> TimingBytes(d.u)
    [] d.kind = "name" -> TextBytes(\hfc, d.u)
    [] d.kind = "serial" -> TextBytes(\hff, d.u)
    [] d.kind = "limits" -> LimitBytes(d.u)
    [] d.kind = "color" -> <<0, 0, 0, \hfb, 0>> \o PointBytes(d.u[1]) \o PointBytes(d.u[2]) \o <<10, 32, 32>>
    [] d.kind = "standard" -> <<0, 0, 0, \hfa, 0>> \o ModeBytes(6, d.u) \o <<10>>
    [] d.kind = "established" -> <<0, 0, 0, \hf7, 0, 10>> \o PadTo(12, BitBytes(6, d.u))
    [] d.kind = "bytes" -> d.u

(* Data blocks of the extension.                                           *)
VideoBytes(svds) == [i \in DOMAIN svds |-> Flag(svds[i].native, 128) + svds[i].vic]
AudioBytes(sads) ==
  FlattenSeq([i \in DOMAIN sads |->
    <<8 * sads[i].format + sads[i].channels - 1, sads[i].freq,
      IF sads[i].format = 1 THEN sads[i].last ELSE sads[i].last \div 8>>])

LatencyBytes(l) == [i \in DOMAIN l |-> l[i] \div 2 + 1]
VicBytes(v) ==
  <<Nibbles(v.vic_2d, v.struct_3d)>> \o IF v.struct_3d >= 8 THEN <<16 * v.detail_3d>> ELSE << >>
VideoFieldBytes(v) ==
  LET masks == CASE v.multi_3d = 1 -> <<v.struct_all_3d>>
                 [] v.multi_3d = 2 -> <<v.struct_all_3d, v.mask_3d>> [] OTHER -> << >>
      formats == FlattenSeq([i \in DOMAIN masks |-> <<HighPart(masks[i]), LowByte(masks[i])>>])
                   \o FlattenSeq([i \in DOMAIN v.vic_3d |-> VicBytes(v.vic_3d[i])]) IN
  <<Flag(v.present_3d, 128) + 32 * v.multi_3d + 8 * v.image_size, Len(formats)>> \o formats

VendorBytes(v) ==
  <<3, 12, 0, Nibbles(v.addr[1], v.addr[2]), Nibbles(v.addr[3], v.addr[4]),
    Flag("bpp36" \in v.flags, 32) + Flag("bpp30" \in v.flags, 16), v.max_tmds_clk \div 5,
    Flag(v.p_latency # << >>, 128) + Flag(v.i_latency # << >>, 64) + Flag(v.hdmi_video, 32)>>
    \o LatencyBytes(v.p_latency) \o LatencyBytes(v.i_latency)
    \o IF v.hdmi_video THEN VideoFieldBytes(v.video) ELSE << >>

BodyBytes(k) ==
  CASE k.kind = "video" -> VideoBytes(k.u) [] k.kind = "audio" -> AudioBytes(k.u)
    [] k.kind = "vendor" -> VendorBytes(k.u) [] k.kind = "speaker" -> <<k.u, 0, 0>>
    [] k.kind = "bytes" -> k.u
BlockBytes(k) == <<32 * k.tag + Len(BodyBytes(k))>> \o BodyBytes(k)

(***************************************************************************)
(* The whole: [week, year, depth, size, gamma, established, standard,      *)
(* descriptors, blocks, timings, native]; no extension if there are no     *)
(* blocks.  native: how many of the timings of the extension, which come   *)
(* first, are native ones; byte 131 has this number.                       *)
(***************************************************************************)
HasExtension(m) == Len(m.blocks) > 0

(* Byte k of the base block, up to the one that makes its sum.             *)
BaseByte(m, k) ==
  CASE k \in 0 .. 7 -> <<0, 255, 255, 255, 255, 255, 255, 0>>[k + 1]
    [] k \in 8 .. 15 -> m.id[k - 7]
    [] k \in 16 .. 24 ->
         <<m.week, m.year - 1990, 1, 4, 128 + 16 * m.depth + 5, m.size[1], m.size[2], m.gamma - 100, 7>>[k - 15]
    [] k \in 25 .. 34 -> 66 + k
    [] k \in 35 .. 37 -> BitBytes(3, m.established)[k - 34]
    [] k \in 38 .. 53 -> ModeBytes(8, m.standard)[k - 37]
    [] k \in 54 .. 125 -> DescriptorBytes(m.descriptors[(k - 54) \div 18 + 1])[((k - 54) % 18) + 1]
    [] k = 126 -> IF HasExtension(m) THEN 1 ELSE 0

AllBlockBytes(m) == FlattenSeq([i \in DOMAIN m.blocks |-> BlockBytes(m.blocks[i])])
AllTimingBytes(m) == Rows(Len(m.timings), 18, LAMBDA i : TimingBytes(m.timings[i]))
Extension(m) ==
  PadTo(127, <<2, 3, 4 + Len(AllBlockBytes(m)), 64 + m.native>> \o AllBlockBytes(m) \o AllTimingBytes(m))

(* The byte that makes the sum of 128 a multiple of 256.                   *)
Sum(bytes) == (256 - (Total(bytes) % 256)) % 256

(* Byte k of the EDID of m, k \in 0 .. 255.                                *)
Encode(m) ==
  LET base == [k \in 1 .. 127 |-> BaseByte(m, k - 1)]  extension == Extension(m) IN
  [k \in 0 .. 255 |->
     CASE k < 127 -> base[k + 1] [] k = 127 -> Sum(base)
       [] k > 127 /\ ~HasExtension(m) -> 0
       [] k \in 128 .. 254 /\ HasExtension(m) -> extension[k - 127]
       [] k = 255 /\ HasExtension(m) -> Sum(extension)]

(***************************************************************************)
(* The descriptions that the fields have room for.  No two blocks share a  *)
(* tag, but for the extended one: the struct has one place for each.       *)
(***************************************************************************)
Below(n) == {x \in Nat : x < n}
Byte == 0 .. 255
Nibble == 0 .. 15

IsTiming(t) ==
  /\ t \in [pixel_clock : Nat, width : Below(4096), h_blank : Below(4096), height : Below(4096),
            v_blank : Below(4096), h_fp : Below(1024), h_sync : Below(1024), v_fp : 0 .. 63,
            v_sync : 0 .. 63, h_size : Below(4096), v_size : Below(4096), border_lr : Byte,
            border_tb : Byte, interlaced : BOOLEAN, stereo : {"none"},
            sync : {{"separate", v, h} : v \in {"vsync_p", "vsync_n"}, h \in {"hsync_p", "hsync_n"}}]
  /\ t.pixel_clock > 0 /\ t.pixel_clock % 10000 = 0 /\ t.pixel_clock < 10000 * 65536

IsText(u) == u \in Seq(Byte \ {0, 10}) /\ Len(u) <= 13

IsLimits(l) ==
  /\ l \in [v_min : Below(511), v_max : Below(511), h_min : Below(511), h_max : Below(511), p_max : Below(2551)]
  /\ l.v_min <= l.v_max /\ l.h_min <= l.h_max /\ l.p_max % 10 = 0

Points == [index : Byte, x : Below(1024), y : Below(1024), gamma : {g \in Below(355) : g >= 100}]

AreModes(n, modes) ==
  /\ modes \in Seq([horizontal : {8 * h : h \in 32 .. 286}, aspect_ratio : 0 .. 3, refresh_rate : 60 .. 123])
  /\ Len(modes) <= n

IsDescription(d) ==
  \/ d.kind = "timing" /\ IsTiming(d.u)
  \/ d.kind \in {"name", "serial"} /\ IsText(d.u)
  \/ d.kind = "limits" /\ IsLimits(d.u)
  \/ d.kind = "color" /\ d.u \in [1 .. 2 -> Points]
  \/ d.kind = "standard" /\ AreModes(6, d.u)
  \/ d.kind = "established" /\ d.u \subseteq 0 .. 16
  \/ d.kind = "bytes" /\ d.u \in [1 .. 18 -> Byte]

AudioFormats == [format : Nibble, channels : 1 .. 8, freq : 0 .. 127, last : Below(2041)]
IsSad(s) == CASE s.format = 1 -> s.last < 8 [] s.format \in 2 .. 8 -> s.last % 8 = 0 [] OTHER -> s.last = 0

IsLatency(l) == l = << >> \/ l \in [1 .. 2 -> {2 * n : n \in 0 .. 254}]

IsVideoFields(v) ==
  /\ v \in [present_3d : BOOLEAN, multi_3d : 0 .. 2, image_size : 0 .. 3, struct_all_3d : Below(65536),
            mask_3d : Below(65536), vic_3d : Seq([vic_2d : Nibble, struct_3d : Nibble, detail_3d : Nibble])]
  /\ v.multi_3d = 0 => v.struct_all_3d = 0 /\ v.vic_3d = << >>
  /\ v.multi_3d # 2 => v.mask_3d = 0
  /\ \A k \in DOMAIN v.vic_3d : v.vic_3d[k].struct_3d < 8 => v.vic_3d[k].detail_3d = 0

IsVendor(v) ==
  /\ DOMAIN v = {"addr", "flags", "max_tmds_clk", "p_latency", "i_latency", "hdmi_video", "video"}
  /\ v.addr \in [1 .. 4 -> Nibble] /\ v.flags \subseteq {"bpp36", "bpp30"}
  /\ v.max_tmds_clk \in {5 * n : n \in Byte} /\ IsLatency(v.p_latency) /\ IsLatency(v.i_latency)
  /\ v.hdmi_video \in BOOLEAN /\ (v.hdmi_video => IsVideoFields(v.video))

(* The block of another vendor.                                            *)
OfAnother(u) == Len(u) >= 3 /\ <<u[1], u[2], u[3]>> # <<3, 12, 0>>

(* More 3D formats than vic_3d has room for.                               *)
IsFull(k) == k.kind = "vendor" /\ k.u.hdmi_video /\ Len(k.u.video.vic_3d) > 16

IsBlock(k) ==
  /\ \/ k.tag = 1 /\ k.kind = "audio" /\ k.u \in Seq(AudioFormats) /\ \A i \in DOMAIN k.u : IsSad(k.u[i])
     \/ k.tag = 2 /\ k.kind = "video" /\ k.u \in Seq([native : BOOLEAN, vic : 0 .. 127])
     \/ k.tag = 3 /\ k.kind = "vendor" /\ IsVendor(k.u)
     \/ k.tag = 4 /\ k.kind = "speaker" /\ k.u \in 0 .. 127
     \/ k.tag \in {5, 7} /\ k.kind = "bytes" /\ k.u \in Seq(Byte)
     \/ k.tag = 3 /\ k.kind = "bytes" /\ k.u \in Seq(Byte) /\ OfAnother(k.u)
  /\ Len(BodyBytes(k)) <= 31

IsMonitor(m) ==
  /\ m.id \in [1 .. 8 -> Byte] /\ m.week \in 0 .. 54 /\ m.year \in {1990 + y : y \in Byte}
  /\ m.depth \in 0 .. 6 /\ m.size \in [1 .. 2 -> 1 .. 255] /\ m.gamma \in {g \in Below(355) : g >= 100}
  /\ m.established \subseteq 0 .. 16 /\ AreModes(8, m.standard)
  /\ Len(m.descriptors) = 4 /\ \A k \in 1 .. 4 : IsDescription(m.descriptors[k])
  /\ Len(m.blocks) \in 0 .. 62 /\ DOMAIN m.blocks = 1 .. Len(m.blocks)
  /\ \A k \in DOMAIN m.blocks : IsBlock(m.blocks[k])
  /\ \A k, l \in DOMAIN m.blocks : k # l /\ m.blocks[k].tag = m.blocks[l].tag => m.blocks[k].tag \in {5, 7}
  /\ Len(m.timings) \in 0 .. 6 /\ DOMAIN m.timings = 1 .. Len(m.timings)
  /\ \A k \in DOMAIN m.timings : IsTiming(m.timings[k])
  /\ m.native \in 0 .. Len(m.timings)
  /\ Len(AllBlockBytes(m)) + 18 * Len(m.timings) <= 123

(* What of a descriptor, and of a block, is to be seen in print.  An       *)
(* unused mode is listed as if it was one.                                 *)
UnusedMode == [horizontal |-> 256, aspect_ratio |-> 0, refresh_rate |-> 61]
Listed(n, modes) == {<<i, IF i <= Len(modes) THEN modes[i] ELSE UnusedMode>> : i \in 1 .. n}
Stretch(min, max) ==
  CASE Above(min) -> "max and min" [] Above(max) /\ ~Above(min) -> "max" [] OTHER -> "none"
Printed(d) ==
  CASE d.kind \in {"name", "serial"} -> <<d.kind, [text |-> d.u, behind |-> "end"]>>
    [] d.kind = "standard" -> <<"standard", Listed(6, d.u)>>
    [] d.kind = "limits" ->
         <<"limits", [h_offset |-> Stretch(d.u.h_min, d.u.h_max), v_offset |-> Stretch(d.u.v_min, d.u.v_max),
                      v_min |-> d.u.v_min, v_max |-> d.u.v_max, h_min |-> d.u.h_min, h_max |-> d.u.h_max,
                      p_max |-> d.u.p_max, timing_flags |-> "limits", more |-> << >>]>>
    [] OTHER -> <<d.kind, d.u>>

PrintedVendor(v) ==
  [ieee_reg_id |-> 3075, ext_len |-> Len(VendorBytes(v)), addr |-> v.addr, flags |-> v.flags,
   max_tmds_clk |-> v.max_tmds_clk, p_latency |-> v.p_latency, i_latency |-> v.i_latency,
   hdmi_video |-> v.hdmi_video, video |-> IF v.hdmi_video THEN v.video ELSE [present_3d |-> FALSE]]
PrintedBlock(k) == <<k.tag, IF k.kind = "vendor" THEN PrintedVendor(k.u) ELSE k.u>>
=============================================================================
