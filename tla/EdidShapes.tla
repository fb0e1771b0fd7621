----------------------------- MODULE EdidShapes -----------------------------
(***************************************************************************)
(* What the proofs about EdidDump say of the bytes of an EDID, of the      *)
(* struct that they are decoded into, and of the variables.                *)
(***************************************************************************)
EXTENDS EdidDump

(***************************************************************************)
(* The bytes of a monitor.                                                 *)
(***************************************************************************)
(* Each of the sequences is where those before it end.                     *)
Placed(f, n, s, k) ==
  /\ Len(s[k]) \in Nat /\ Len(f[k]) = Len(f[k - 1]) + Len(s[k])
  /\ \A j \in 1 .. Len(s[k]) : f[n][Len(f[k - 1]) + j] = s[k][j]

FlatAt(f, S, n, s) ==
  /\ f[n] \in Seq(S) /\ Len(f[n]) \in Nat /\ Len(f[0]) = 0
  /\ \A k \in 0 .. n : f[k] \in Seq(S) /\ Len(f[k]) \in 0 .. Len(f[n])
  /\ \A k \in 1 .. n : Placed(f, n, s, k)

BlockRows(m) == [k \in 1 .. Len(m.blocks) |-> BlockBytes(m.blocks[k])]
TimingRow(m, j) == TimingBytes(m.timings[(j - 1) \div 18 + 1])[((j - 1) % 18) + 1]

(* The EDID e of the monitor m.                                            *)
IsEdid(e, m) ==
  /\ e \in [0 .. 255 -> Byte]
  /\ \A k \in 0 .. 126 : e[k] = BaseByte(m, k)
  /\ Total([n \in 1 .. 128 |-> e[n - 1]]) % 256 = 0
  /\ ~HasExtension(m) => \A k \in 128 .. 255 : e[k] = 0
  /\ HasExtension(m) => \A k \in 128 .. 254 : e[k] = Extension(m)[k - 127]

(* The extension of the monitor m in its EDID e: f are the blocks up to    *)
(* one.                                                                    *)
Extended128(e, m, f) ==
  LET n == Len(m.blocks)  l == Len(f[n])  t == Len(m.timings) IN
  /\ n \in 1 .. 62 /\ DOMAIN m.blocks = 1 .. n /\ l \in Nat /\ t \in 0 .. 6 /\ l + 18 * t <= 123
  /\ FlatAt(f, Byte, n, BlockRows(m)) /\ e \in [0 .. 255 -> Byte]
  /\ e[128] = 2 /\ e[129] = 3 /\ e[130] = 4 + l /\ e[131] = 64 + m.native /\ m.native \in 0 .. t
  /\ \A j \in 1 .. l : e[131 + j] = f[n][j]
  /\ \A j \in 1 .. t * 18 : e[131 + l + j] = TimingRow(m, j)

Place(f, k) == 132 + Len(f[k])

(***************************************************************************)
(* What the decoder makes of the extension, field by field.                *)
(***************************************************************************)
CeaFields ==
  {"rev", "off_dtd", "nr_dtd", "flags", "dbc_tags", "dbe_tags", "db_video", "db_audio", "db_speaker",
   "db_vsdb_hdmi", "db_colorimetry", "db_vcdb", "detailed_timing"}

TimingParts ==
  {"pixel_clock", "width", "h_blank", "height", "v_blank", "h_fp", "h_sync", "v_fp", "v_sync",
   "h_size", "v_size", "border_lr", "border_tb", "interlaced", "stereo", "sync"}

(* Where the detailed timings are.                                         *)
Dtd(b) == IF b[130] > 4 THEN 128 + b[130] ELSE 0

(* What is known before the blocks.                                        *)
CeaHead(b, old) ==
  [old EXCEPT !.rev = b[129], !.off_dtd = b[130], !.nr_dtd = Bits(b[131], 0, 4),
              !.flags = Flags(b[131], [underscan |-> 128, audio |-> 64, ycbcr444 |-> 32, ycbcr422 |-> 16]),
              !.dbc_tags = << >>]
CeaWalked(b, old) == Walk(b, 132, Dtd(b), CeaHead(b, old))

CeaTimes(b, old) ==
  LET x == CeaWalked(b, old) IN
  [n \in DOMAIN x.detailed_timing \cup (1 .. x.nr_dtd) |->
     IF n <= x.nr_dtd THEN DetailedTiming(b, Dtd(b) + 18 * (n - 1), FALSE) ELSE x.detailed_timing[n]]

(* What formats behind the array are written over.                         *)
OverColors(list, x) == IF Len(list) - ROOM <= 0 THEN x ELSE <<list[ROOM + 1].vic_2d, list[ROOM + 1].struct_3d>>
OverVcdb(list, x) ==
  LET n == Len(list) - ROOM IN
  IF n <= 0 THEN x
  ELSE [quant_range_sel |-> list[ROOM + 1].detail_3d, pt |-> IF n > 1 THEN list[ROOM + 2].vic_2d ELSE x.pt,
        it |-> IF n > 1 THEN list[ROOM + 2].struct_3d ELSE x.it,
        ce |-> IF n > 1 THEN list[ROOM + 2].detail_3d ELSE x.ce]
OverTimings(list, x) ==
  LET n == Len(list) - ROOM  third == list[ROOM + 3] IN
  IF n <= 0 THEN x
  ELSE [x EXCEPT ![1] = IF n <= 2 THEN @ ELSE
          [@ EXCEPT !.pixel_clock = third.vic_2d, !.width = third.struct_3d, !.height = third.detail_3d]]

(* What a data block changes.                                              *)
BlockStep(d, b, c, cea) ==
  LET t == BlockTag(b, c) IN
  /\ DOMAIN d = CeaFields /\ d.dbc_tags = Append(cea.dbc_tags, t)
  /\ d.rev = cea.rev /\ d.off_dtd = cea.off_dtd /\ d.nr_dtd = cea.nr_dtd /\ d.flags = cea.flags
  /\ d.detailed_timing = IF t = 3 THEN OverTimings(Written(b, c), cea.detailed_timing) ELSE cea.detailed_timing
  /\ d.db_audio = IF t = 1 THEN Audio(b, c, cea.db_audio) ELSE cea.db_audio
  /\ d.db_video = IF t = 2 THEN Video(b, c) ELSE cea.db_video
  /\ d.db_vsdb_hdmi = IF t = 3 THEN Vendor(b, c, cea.db_vsdb_hdmi) ELSE cea.db_vsdb_hdmi
  /\ d.db_speaker = IF t = 4 THEN Bits(b[c + 1], 0, 7) ELSE cea.db_speaker
  /\ d.dbe_tags = IF t = 7 THEN Extended(b, c, cea).dbe_tags ELSE cea.dbe_tags
  /\ d.db_vcdb = IF t = 7 THEN Extended(b, c, cea).db_vcdb
                 ELSE IF t = 3 THEN OverVcdb(Written(b, c), cea.db_vcdb) ELSE cea.db_vcdb
  /\ d.db_colorimetry = IF t = 7 THEN Extended(b, c, cea).db_colorimetry
                        ELSE IF t = 3 THEN OverColors(Written(b, c), cea.db_colorimetry) ELSE cea.db_colorimetry

(* What the fields are in the end.                                         *)
Holding(x, e, c, tag) ==
  /\ tag = 1 => \E y : x.db_audio = Audio(e, c, y)
  /\ tag = 2 => x.db_video = Video(e, c)
  /\ tag = 3 => \E y : x.db_vsdb_hdmi = Vendor(e, c, y)
  /\ tag = 4 => x.db_speaker = Bits(e[c + 1], 0, 7)

(* The tags of the blocks up to k, and the number of timings.              *)
TagsAre(x, m, k) ==
  /\ x.dbc_tags \in Seq(Nat) /\ Len(x.dbc_tags) = k
  /\ \A j \in 1 .. k : x.dbc_tags[j] = m.blocks[j].tag

(* The decoded extension.                                                  *)
FinalCea(x, e, m, f) ==
  /\ TagsAre(x, m, Len(m.blocks)) /\ DOMAIN x.dbc_tags = 1 .. Len(m.blocks) /\ x.nr_dtd = m.native
  /\ \A k \in 1 .. Len(m.blocks) : Holding(x, e, Place(f, k - 1), m.blocks[k].tag)
  /\ \A j \in 1 .. m.native : x.detailed_timing[j] = DetailedTiming(e, Dtd(e) + 18 * (j - 1), FALSE)

(***************************************************************************)
(* What is printed.                                                        *)
(***************************************************************************)
(* What is printed of the extension.                                       *)
CeaShows(c, m) ==
  /\ Len(c.blocks) = Len(m.blocks)
  /\ \A k \in DOMAIN m.blocks :
       m.blocks[k].kind # "bytes" /\ Settled(PrintedBlock(m.blocks[k])) /\ ~IsFull(m.blocks[k]) =>
         c.blocks[k] = PrintedBlock(m.blocks[k])
  /\ c.timings = [k \in 1 .. m.native |-> Meant(m.timings[k])]

(* What two decodings of an EDID print the same.                           *)
Agree(x, y, b) ==
  /\ \A f \in DOMAIN y \ {"standard_timings", "descriptors", "cea", "others"} : x[f] = y[f]
  /\ ~ZeroMode(b, 38, 8) => x.standard_timings = y.standard_timings
  /\ \A k \in 1 .. 4 :
       LET o == 36 + 18 * k IN
       KnownTag(b, o) /\ ~(b[o + 3] = \hfa /\ ZeroMode(b, o + 5, 6)) => Own(x.descriptors[k]) = Own(y.descriptors[k])

(* What lies behind the array of the 3D formats agrees on the places of n  *)
(* formats.                                                                *)
Alike(x, y, n) ==
  /\ n >= 1 => x.db_colorimetry = y.db_colorimetry /\ x.db_vcdb.quant_range_sel = y.db_vcdb.quant_range_sel
  /\ n >= 2 => x.db_vcdb.pt = y.db_vcdb.pt /\ x.db_vcdb.it = y.db_vcdb.it /\ x.db_vcdb.ce = y.db_vcdb.ce
  /\ n >= 3 => /\ x.detailed_timing[1].pixel_clock = y.detailed_timing[1].pixel_clock
               /\ x.detailed_timing[1].width = y.detailed_timing[1].width
               /\ x.detailed_timing[1].height = y.detailed_timing[1].height

(* Three fields.                                                           *)
AlikeParts(c, v, t, d, w, s, n) ==
  /\ n >= 1 => c = d /\ v.quant_range_sel = w.quant_range_sel
  /\ n >= 2 => v.pt = w.pt /\ v.it = w.it /\ v.ce = w.ce
  /\ n >= 3 => t.pixel_clock = s.pixel_clock /\ t.width = s.width /\ t.height = s.height

(***************************************************************************)
(* The invariants.                                                         *)
(***************************************************************************)
(* Each byte of the buffer is one of the monitor it was read of, and what  *)
(* is printed was checked.                                                 *)
Read ==
  /\ monitor \in 0 .. Len(Monitors) /\ i \in Cuts \cup {IDLE}
  /\ source \in [0 .. 255 -> 0 .. Len(Monitors)]
  /\ edid = [k \in 0 .. 255 |-> EdidOf[source[k]][k]]
Verified == Shown => i = IDLE /\ Checked(edid)

DescriptorFields == {"type", "tag", "u", "tail", "extra", "dcm", "cvt", "timing_3"}

Printout(b, old) == edid_print_v14(edid_decode_v14(b, old).info)
Continuous(b) == "continuous" \in Feature(b[24], Input(b[20]).digital_if)

(* What the struct always is.                                              *)
ShapedCea(cea) ==
  /\ DOMAIN cea = CeaFields /\ DOMAIN cea.dbe_tags = 1 .. 62
  /\ "ieee_reg_id" \in DOMAIN cea.db_vsdb_hdmi /\ "video" \in DOMAIN cea.db_vsdb_hdmi
  /\ 1 \in DOMAIN cea.detailed_timing /\ DOMAIN cea.detailed_timing[1] = TimingParts
Shaped(info) ==
  /\ ShapedCea(info.cea_ext)
  /\ \A k \in 1 .. 4 : DOMAIN info.descriptors[k] = DescriptorFields

Decoded ==
  /\ Shaped(edid_info)
  /\ Shown => \E old : Shaped(old) /\ printed = Printout(edid, old)

(* An extension that is read without a cut is that of one monitor.         *)
OneSource == \A k \in 128 .. 255 : source[k] = source[128]

BoundedCea(cea) ==
  /\ cea.nr_dtd \in 0 .. 15 /\ cea.db_audio.nr_sad \in 0 .. 10 /\ Len(cea.dbc_tags) <= 62
  /\ InArray(cea.db_vsdb_hdmi.video.vic_3d) /\ DOMAIN cea.detailed_timing = 1 .. 8
  /\ \A k \in 1 .. 8 : TimingOK(cea.detailed_timing[k])
BoundedDescriptor(d) == d.type = "timing" => TimingOK(d.u)
Bounded(info) == BoundedCea(info.cea_ext) /\ \A k \in 1 .. 4 : BoundedDescriptor(info.descriptors[k])

(* With the variables of the read.                                         *)
Typed == OneSource /\ Bounded(edid_info) /\ r \in {-1, 0} /\ p \in BOOLEAN
=============================================================================
