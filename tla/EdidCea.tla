------------------------------ MODULE EdidCea ------------------------------
(***************************************************************************)
(* edid.c: the extension block (edid_decode_cea), the whole of an EDID     *)
(* (edid_decode_v14), and what is printed of the struct (edid_print_v14,   *)
(* edid_print_cea).                                                        *)
(***************************************************************************)
EXTENDS Edid

Tags == [audio |-> 1, video |-> 2, vendor |-> 3, speaker |-> 4, dtc |-> 5, extended |-> 7]
ExtendedTags == (0 .. 5) \cup (16 .. 18)

(***************************************************************************)
(* Data blocks, of which c is the offset.                                  *)
(***************************************************************************)
BlockTag(b, c) == Bits(b[c], 5, 3)
BlockLength(b, c) == Bits(b[c], 0, 5)

(* Short audio descriptors: which of the last two is written depends on    *)
(* the format.                                                             *)
Sad(b, o, old) ==
  LET format == Bits(b[o], 3, 4) IN
  [format |-> format, channels |-> Bits(b[o], 0, 3) + 1, freq |-> Bits(b[o + 1], 0, 7),
   resolution |-> IF format = 1 THEN Bits(b[o + 2], 0, 3) ELSE old.resolution,
   bitrate |-> IF format \in 2 .. 8 THEN 8 * b[o + 2] ELSE old.bitrate]

Audio(b, c, old) ==
  LET nr == BlockLength(b, c) \div 3 IN
  [nr_sad |-> nr,
   sad |-> [i \in 1 .. 10 |-> IF i <= nr THEN Sad(b, c + 3 * i - 2, old.sad[i]) ELSE old.sad[i]]]

Video(b, c) ==
  [i \in 1 .. BlockLength(b, c) |-> [native |-> Has(b[c + i], 128), vic |-> Bits(b[c + i], 0, 7)]]

(* The formats of 3D, in len bytes from o on; some of them have a second   *)
(* byte.  A format is at byte at.                                          *)
Vic(b, at) ==
  LET struct == Bits(b[at], 0, 4) IN
  [vic_2d |-> Bits(b[at], 4, 4), struct_3d |-> struct,
   detail_3d |-> IF struct >= 8 THEN Bits(b[at + 1], 4, 4) ELSE 0]

NextVic(b, end, w) ==
  IF w.at >= end THEN w
  ELSE [at |-> w.at + IF Bits(b[w.at], 0, 4) >= 8 THEN 2 ELSE 1, vics |-> Append(w.vics, Vic(b, w.at))]

(* Slips that the properties must notice (suffix _...): the loop runs once *)
(* more; and, below, the second pair of latencies is read where the first  *)
(* one is; the blocks of the EDID before are not forgotten; the sum of the *)
(* base block is not checked.                                              *)
Vics_OneMore(b, o, len) ==
  IF len < 0 THEN << >>
  ELSE Repeat(len + 1, LAMBDA w : NextVic(b, o + len + 1, w), [at |-> o, vics |-> << >>]).vics

Vics(b, o, len) ==
  IF len <= 0 THEN << >>
  ELSE Repeat(len, LAMBDA w : NextVic(b, o + len, w), [at |-> o, vics |-> << >>]).vics

(* hv: where the video fields are.  The list of formats stays what it was  *)
(* when there is no byte for it.                                           *)
Fields3d(b, hv, present, old) ==
  LET multi == IF present THEN Bits(b[hv], 5, 2) ELSE 0
      size == IF present THEN Bits(b[hv + 1], 0, 5) ELSE 0
      d == hv + 2 + Bits(b[hv + 1], 5, 3)
      many == IF size > 0 THEN multi ELSE 0
      masks == CASE many = 2 -> 4 [] many = 1 -> 2 [] OTHER -> 0 IN
  [present_3d |-> present /\ Has(b[hv], 128), multi_3d |-> multi,
   image_size |-> IF present THEN Bits(b[hv], 3, 2) ELSE 0,
   struct_all_3d |-> IF masks > 0 THEN 256 * b[d] + b[d + 1] ELSE 0,
   mask_3d |-> IF masks = 4 THEN 256 * b[d + 2] + b[d + 3] ELSE 0,
   vic_3d |-> IF size = 0 THEN old ELSE IF masks = 0 THEN << >> ELSE Vics(b, d + masks, size - masks)]

Latency(b, o, present) == IF present THEN <<(b[o] - 1) * 2, (b[o + 1] - 1) * 2>> ELSE << >>

Vendor_SamePlace(b, c, old) ==
  LET n == BlockLength(b, c)
      fields == IF n >= 8 THEN b[c + 8] ELSE 0
      hv == c + 9 + (IF Has(fields, 128) THEN 2 ELSE 0) + (IF Has(fields, 64) THEN 2 ELSE 0) IN
  IF <<b[c + 1], b[c + 2], b[c + 3]>> # <<3, 12, 0>> THEN [old EXCEPT !.ieee_reg_id = 0]
  ELSE [ieee_reg_id |-> 3075, ext_len |-> n,
        addr |-> <<Bits(b[c + 4], 4, 4), Bits(b[c + 4], 0, 4), Bits(b[c + 5], 4, 4), Bits(b[c + 5], 0, 4)>>,
        flags |-> IF n >= 6 THEN Flags(b[c + 6], [ai |-> 128, bpp48 |-> 64, bpp36 |-> 32, bpp30 |-> 16, ycbcr444 |-> 8, dvi_dual |-> 1]) ELSE {},
        max_tmds_clk |-> IF n >= 7 THEN 5 * b[c + 7] ELSE 0,
        p_latency |-> Latency(b, c + 9, Has(fields, 128)),
        i_latency |-> Latency(b, c + 9, Has(fields, 64)),
        hdmi_video |-> Has(fields, 32),
        video |-> Fields3d(b, hv, Has(fields, 32), old.video.vic_3d)]

Vendor(b, c, old) ==
  LET n == BlockLength(b, c)
      fields == IF n >= 8 THEN b[c + 8] ELSE 0
      progressive == Has(fields, 128)  interlaced == Has(fields, 64)
      second == c + 9 + IF progressive THEN 2 ELSE 0
      hv == second + IF interlaced THEN 2 ELSE 0 IN
  IF <<b[c + 1], b[c + 2], b[c + 3]>> # <<3, 12, 0>> THEN [old EXCEPT !.ieee_reg_id = 0]
  ELSE [ieee_reg_id |-> 3075, ext_len |-> n,
        addr |-> <<Bits(b[c + 4], 4, 4), Bits(b[c + 4], 0, 4), Bits(b[c + 5], 4, 4), Bits(b[c + 5], 0, 4)>>,
        flags |-> IF n < 6 THEN {} ELSE
                    Flags(b[c + 6], [ai |-> 128, bpp48 |-> 64, bpp36 |-> 32, bpp30 |-> 16,
                                     ycbcr444 |-> 8, dvi_dual |-> 1]),
        max_tmds_clk |-> IF n >= 7 THEN 5 * b[c + 7] ELSE 0,
        p_latency |-> Latency(b, c + 9, progressive),
        i_latency |-> Latency(b, second, interlaced),
        hdmi_video |-> Has(fields, 32),
        video |-> Fields3d(b, hv, Has(fields, 32), old.video.vic_3d)]

(* vic_3d has room for 16 formats, and a block for 19: they are written    *)
(* over the fields that follow (edid_cea.h 198, 206, 212, 220), as the     *)
(* struct lies in memory.  Written: the formats that the block writes.     *)
ROOM == 16
Written(b, c) == Vendor(b, c, [ieee_reg_id |-> 0, video |-> [vic_3d |-> << >>]]).video.vic_3d

Overrun(list, cea) ==
  LET n == Len(list) - ROOM
      first == list[ROOM + 1]  second == list[ROOM + 2]  third == list[ROOM + 3] IN
  IF n <= 0 THEN cea
  ELSE [cea EXCEPT
    !.db_colorimetry = <<first.vic_2d, first.struct_3d>>,
    !.db_vcdb = [quant_range_sel |-> first.detail_3d,
                 pt |-> IF n > 1 THEN second.vic_2d ELSE @.pt,
                 it |-> IF n > 1 THEN second.struct_3d ELSE @.it,
                 ce |-> IF n > 1 THEN second.detail_3d ELSE @.ce],
    !.detailed_timing[1] =
       IF n <= 2 THEN @
       ELSE [@ EXCEPT !.pixel_clock = third.vic_2d, !.width = third.struct_3d, !.height = third.detail_3d]]

(* What is found there as formats: later blocks and timings write it, too. *)
Behind(cea) ==
  LET v == cea.db_vcdb  t == cea.detailed_timing[1] IN
  <<[vic_2d |-> cea.db_colorimetry[1], struct_3d |-> cea.db_colorimetry[2], detail_3d |-> v.quant_range_sel],
    [vic_2d |-> v.pt, struct_3d |-> v.it, detail_3d |-> v.ce],
    [vic_2d |-> t.pixel_clock, struct_3d |-> t.width, detail_3d |-> t.height]>>

VideoCapability(x) ==
  [quant_range_sel |-> Bits(x, 6, 1), pt |-> Bits(x, 4, 2), it |-> Bits(x, 2, 2), ce |-> Bits(x, 0, 2)]

(* An extended tag that the code does not know leaves the old one.         *)
Extended(b, c, cea) ==
  LET nr == Len(cea.dbc_tags) + 1  tag == b[c + 1] IN
  [cea EXCEPT !.dbe_tags = IF tag \in ExtendedTags THEN [@ EXCEPT ![nr] = tag] ELSE @,
              !.db_vcdb = IF tag = 0 THEN VideoCapability(b[c + 2]) ELSE @,
              !.db_colorimetry = IF tag = 5 THEN <<Bits(b[c + 2], 0, 2), Bits(b[c + 3], 0, 3)>> ELSE @]

DataBlock(b, c, cea) ==
  LET tag == BlockTag(b, c)
      new == CASE tag = Tags.audio -> [cea EXCEPT !.db_audio = Audio(b, c, @)]
               [] tag = Tags.video -> [cea EXCEPT !.db_video = Video(b, c)]
               [] tag = Tags.vendor -> Overrun(Written(b, c), [cea EXCEPT !.db_vsdb_hdmi = Vendor(b, c, @)])
               [] tag = Tags.speaker -> [cea EXCEPT !.db_speaker = Bits(b[c + 1], 0, 7)]
               [] tag = Tags.dtc -> cea
               [] tag = Tags.extended -> Extended(b, c, cea) IN
  [new EXCEPT !.dbc_tags = Append(@, tag)]

(* The blocks from o up to the detailed timings at dtd, of which one is at *)
(* c; a reserved tag ends the walk.                                        *)
NextBlock(b, dtd, w) ==
  IF w.c >= dtd \/ BlockTag(b, w.c) \in {0, 6} THEN w
  ELSE [c |-> w.c + BlockLength(b, w.c) + 1, cea |-> DataBlock(b, w.c, w.cea)]

Walk(b, o, dtd, cea) ==
  IF dtd <= o THEN cea
  ELSE Repeat(dtd - o, LAMBDA w : NextBlock(b, dtd, w), [c |-> o, cea |-> cea]).cea

edid_decode_cea_KeptBlocks(b, o, old) ==
  LET dtd == IF b[o + 2] > 4 THEN o + b[o + 2] ELSE 0
      cea == [old EXCEPT !.rev = b[o + 1], !.off_dtd = b[o + 2], !.nr_dtd = Bits(b[o + 3], 0, 4),
                         !.flags = Flags(b[o + 3], [underscan |-> 128, audio |-> 64, ycbcr444 |-> 32, ycbcr422 |-> 16])]
      walked == Walk(b, o + 4, dtd, cea) IN
  IF dtd = 0 THEN walked
  ELSE [walked EXCEPT !.detailed_timing =
          [i \in DOMAIN @ \cup (1 .. walked.nr_dtd) |->
             IF i <= walked.nr_dtd THEN DetailedTiming(b, dtd + 18 * (i - 1), FALSE) ELSE @[i]]]

(* dtd is a null pointer when there is neither a data block nor a timing.  *)
(* The array has eight timings, and the loop takes as many as byte 3 says. *)
edid_decode_cea(b, o, old) ==
  LET dtd == IF b[o + 2] > 4 THEN o + b[o + 2] ELSE 0
      cea == [old EXCEPT !.rev = b[o + 1], !.off_dtd = b[o + 2], !.nr_dtd = Bits(b[o + 3], 0, 4),
                         !.flags = Flags(b[o + 3], [underscan |-> 128, audio |-> 64, ycbcr444 |-> 32, ycbcr422 |-> 16]),
                         !.dbc_tags = << >>]
      walked == Walk(b, o + 4, dtd, cea) IN
  IF dtd = 0 THEN walked
  ELSE [walked EXCEPT !.detailed_timing =
          [i \in DOMAIN @ \cup (1 .. walked.nr_dtd) |->
             IF i <= walked.nr_dtd THEN DetailedTiming(b, dtd + 18 * (i - 1), FALSE) ELSE @[i]]]

(* Only the first extension block is looked at, and only if it is a        *)
(* CEA-861 one of version 3.                                               *)
edid_decode_extensions(b, info) ==
  IF b[126] > 0 /\ b[128] = 2 /\ b[129] = 3
  THEN [info EXCEPT !.ext_tag = 2, !.cea_ext = edid_decode_cea(b, 128, @)]
  ELSE info

(***************************************************************************)
(* The whole.                                                              *)
(***************************************************************************)
Header == <<0, 255, 255, 255, 255, 255, 255, 0>>

Checked_NoSum(b) == Little(b, 0, 8) = Header
Checked(b) ==
  /\ Little(b, 0, 8) = Header
  /\ Total(Little(b, 0, 128)) % 256 = 0

Base(b, old) ==
  LET input == Input(b[20])  feature == Feature(b[24], input.digital_if)
      marked == b[16] = 255 IN
  [checksum |-> b[127],
   id_mfg |-> <<64 + Bits(b[8], 2, 5), 64 + 8 * Bits(b[8], 0, 2) + Bits(b[9], 5, 3), 64 + Bits(b[9], 0, 5)>>,
   id_prod |-> Word(b, 10), id_sn |-> Little(b, 12, 4),
   mfg_week |-> IF b[16] \in 1 .. 54 THEN b[16] ELSE 0,
   mfg_year |-> IF marked THEN 0 ELSE 1990 + b[17], model_year |-> IF marked THEN 1990 + b[17] ELSE 0,
   ver |-> <<b[18], b[19]>>, input |-> input, screen |-> Screen(b[21], b[22]),
   gamma |-> IF b[23] < 255 THEN b[23] + 100 ELSE 0, feature |-> feature,
   chromaticity |-> Chromaticity(b, 25), timing_1_2 |-> Established(b, 35, 17),
   standard_timings |-> StandardTimings(b, 38, 8, old.standard_timings),
   descriptors |-> [i \in 1 .. 4 |-> Descriptor(b, 36 + 18 * i, "continuous" \in feature, old.descriptors[i])],
   extensions |-> b[126], ext_tag |-> old.ext_tag, cea_ext |-> old.cea_ext, others |-> old.others]

edid_decode_v14(b, old) ==
  IF ~Checked(b) THEN [r |-> -1, info |-> old]
  ELSE [r |-> 0, info |-> edid_decode_extensions(b, Base(b, old))]

(***************************************************************************)
(* What is printed.                                                        *)
(***************************************************************************)
Used(n, timings) == {<<i, timings[i]>> : i \in {j \in 1 .. n : timings[j].refresh_rate # 0}}

(* Of a bipolar composite sync nothing, and hsync is positive unless it is *)
(* known to be negative.                                                   *)
ShownSync(sync) ==
  IF "bipolar" \in sync THEN {}
  ELSE IF "separate" \in sync /\ "hsync_n" \notin sync THEN sync \cup {"hsync_p"} ELSE sync
ShownTiming(t) == [t EXCEPT !.sync = ShownSync(@)]

(* Of the established timings III, the first 17; of the others that are    *)
(* "skipped" nothing.                                                      *)
ShownDescriptor(d) ==
  CASE d.type = "timing" -> <<"timing", ShownTiming(d.u)>>
    [] d.type = "display" /\ d.tag = "limits" -> <<"limits", [d.u EXCEPT !.more = << >>]>>
    [] d.type = "display" /\ d.tag \in {"serial", "string", "name", "color"} -> <<d.tag, d.u>>
    [] d.type = "display" /\ d.tag = "standard" -> <<"standard", Used(6, d.extra)>>
    [] d.type = "display" /\ d.tag = "established" -> <<"established", d.timing_3 \cap (0 .. 16)>>
    [] OTHER -> <<d.tag>>

ShownSad(s) ==
  [format |-> s.format, channels |-> s.channels, freq |-> s.freq,
   last |-> CASE s.format = 1 -> s.resolution [] s.format \in 2 .. 8 -> s.bitrate [] OTHER -> 0]

(* The lists of a block whose other fields say that it has none are not    *)
(* printed; of a list that is longer than its array, what is behind it.    *)
Shown3d(video, behind) ==
  IF Len(video.vic_3d) <= ROOM THEN video
  ELSE [video EXCEPT !.vic_3d =
          [i \in DOMAIN @ |-> IF i - ROOM \in DOMAIN behind THEN behind[i - ROOM] ELSE @[i]]]

ShownVendor(v, behind) ==
  IF v.ieee_reg_id = 0 THEN [ieee_reg_id |-> 0]
  ELSE [v EXCEPT !.video = IF v.hdmi_video THEN Shown3d(@, behind) ELSE [present_3d |-> @.present_3d]]

ShownBlock(cea, i) ==
  LET tag == cea.dbc_tags[i] IN
  CASE tag = Tags.audio -> <<tag, [j \in 1 .. cea.db_audio.nr_sad |-> ShownSad(cea.db_audio.sad[j])]>>
    [] tag = Tags.video -> <<tag, cea.db_video>>
    [] tag = Tags.vendor -> <<tag, ShownVendor(cea.db_vsdb_hdmi, Behind(cea))>>
    [] tag = Tags.speaker -> <<tag, cea.db_speaker>>
    [] tag = Tags.extended /\ cea.dbe_tags[i] = 0 -> <<tag, 0, cea.db_vcdb>>
    [] tag = Tags.extended /\ cea.dbe_tags[i] # 0 -> <<tag, cea.dbe_tags[i]>>
    [] OTHER -> <<tag>>

edid_print_cea(cea) ==
  [rev |-> cea.rev, nr_dtd |-> cea.nr_dtd, off_dtd |-> cea.off_dtd, flags |-> cea.flags,
   blocks |-> [i \in DOMAIN cea.dbc_tags |-> ShownBlock(cea, i)],
   timings |-> [i \in 1 .. cea.nr_dtd |-> ShownTiming(cea.detailed_timing[i])]]

(* The checksum and the chromaticity are not printed.  Of the seven other  *)
(* places for extensions each is printed whose tag, which the code never   *)
(* writes, happens to be that of a CEA one.                                *)
edid_print_v14(info) ==
  [id |-> <<info.id_mfg, info.id_prod, info.id_sn>>,
   date |-> <<info.mfg_week, info.mfg_year, info.model_year>>,
   ver |-> info.ver, input |-> info.input, screen |-> info.screen, gamma |-> info.gamma,
   feature |-> info.feature, timing_1_2 |-> info.timing_1_2,
   standard_timings |-> Used(8, info.standard_timings),
   descriptors |-> [i \in 1 .. 4 |-> ShownDescriptor(info.descriptors[i])],
   extensions |-> info.extensions,
   cea |-> IF info.ext_tag = 2 THEN edid_print_cea(info.cea_ext) ELSE << >>, others |-> info.others]
=============================================================================
