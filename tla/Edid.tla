-------------------------------- MODULE Edid --------------------------------
(***************************************************************************)
(* edid.c: what edid_decode_v14 makes of the 256 bytes of an EDID.  b[i]   *)
(* is byte i of the buffer; old is what the struct holds before: no field  *)
(* is cleared that the code does not write.  A set of flags is the set of  *)
(* their names, a bit field [name |-> mask]; a float is kept as the        *)
(* integer that it is computed from.                                       *)
(***************************************************************************)
EXTENDS Integers, Sequences, FiniteSets, SequencesExt

(* (x >> shift) & (2^n - 1), and x & mask for a mask of one bit.           *)
Two(n) == <<1, 2, 4, 8, 16, 32, 64, 128, 256>>[n + 1]       \* 2^n
Bits(x, shift, n) == (x \div Two(shift)) % Two(n)
Has(x, mask) == (x \div mask) % 2 = 1
Flags(x, masks) == {f \in DOMAIN masks : Has(x, masks[f])}
Little(b, o, n) == [i \in 1 .. n |-> b[o + i - 1]]
Word(b, o) == 256 * b[o + 1] + b[o]

Total(seq) ==
  LET sum[n \in 0 .. Len(seq)] == IF n = 0 THEN 0 ELSE sum[n - 1] + seq[n] IN sum[Len(seq)]

(* What a loop makes of s in n rounds.                                     *)
Repeat(n, Round(_), s) ==
  LET after[k \in 0 .. n] == IF k = 0 THEN s ELSE Round(after[k - 1]) IN after[n]

(***************************************************************************)
(* Detailed timing descriptors: 18 bytes from o on.  The function for the  *)
(* extension blocks leaves out the polarity of hsync.                      *)
(***************************************************************************)
Stereo(x) ==
  CASE Bits(x, 5, 2) = 0 -> "none"
    [] Bits(x, 5, 2) = 1 -> IF Has(x, 1) THEN "2way right even" ELSE "sequential right"
    [] Bits(x, 5, 2) = 2 -> IF Has(x, 1) THEN "2way left even" ELSE "sequential left"
    [] Bits(x, 5, 2) = 3 -> IF Has(x, 1) THEN "side by side" ELSE "4way"

Sync(x, hsync) ==
  CASE Has(x, 16) /\ Has(x, 8) ->
         {"separate", IF Has(x, 4) THEN "vsync_p" ELSE "vsync_n"}
           \cup (IF ~hsync THEN {} ELSE {IF Has(x, 2) THEN "hsync_p" ELSE "hsync_n"})
    [] Has(x, 16) /\ ~Has(x, 8) -> {"composite"} \cup Flags(x, [serration |-> 4])
    [] ~Has(x, 16) /\ Has(x, 128) ->
         {"bipolar"} \cup (IF ~Has(x, 64) THEN {} ELSE
           {"serration", IF Has(x, 32) THEN "sync on rgb" ELSE "sync on green"})
    [] OTHER -> {"analog composite"}

DetailedTiming(b, o, hsync) ==
  [pixel_clock |-> Word(b, o) * 10000,
   width |-> 256 * Bits(b[o + 4], 4, 4) + b[o + 2], h_blank |-> 256 * Bits(b[o + 4], 0, 4) + b[o + 3],
   height |-> 256 * Bits(b[o + 7], 4, 4) + b[o + 5], v_blank |-> 256 * Bits(b[o + 7], 0, 4) + b[o + 6],
   h_fp |-> 256 * Bits(b[o + 11], 6, 2) + b[o + 8], h_sync |-> 256 * Bits(b[o + 11], 4, 2) + b[o + 9],
   v_fp |-> 16 * Bits(b[o + 11], 2, 2) + Bits(b[o + 10], 4, 4),
   v_sync |-> 16 * Bits(b[o + 11], 0, 2) + Bits(b[o + 10], 0, 4),
   h_size |-> 256 * Bits(b[o + 14], 4, 4) + b[o + 12], v_size |-> 256 * Bits(b[o + 14], 0, 4) + b[o + 13],
   border_lr |-> b[o + 15], border_tb |-> b[o + 16], interlaced |-> Has(b[o + 17], 128),
   stereo |-> Stereo(b[o + 17]), sync |-> Sync(b[o + 17], hsync)]

(***************************************************************************)
(* The parts of the base block.                                            *)
(***************************************************************************)
Input(x) ==
  IF Has(x, 128)
  THEN [digital_if |-> TRUE, depth |-> IF Bits(x, 4, 3) = 7 THEN 0 ELSE Bits(x, 4, 3),
        interface |-> IF Bits(x, 0, 4) > 5 THEN 0 ELSE Bits(x, 0, 4)]
  ELSE [digital_if |-> FALSE, level |-> Bits(x, 5, 2), setup |-> Bits(x, 4, 1),
        sync_type |-> Bits(x, 1, 3), serrations |-> Bits(x, 0, 1)]

Screen(h, v) ==
  CASE h # 0 /\ v # 0 -> [defined |-> "size", horizontal |-> h, vertical |-> v]
    [] h # 0 /\ v = 0 -> [defined |-> "landscape", percent |-> h + 99]
    [] h = 0 /\ v # 0 -> [defined |-> "portrait", percent |-> v + 99]
    [] OTHER -> [defined |-> "nothing"]

Feature(x, digital_if) ==
  Flags(x, [standby |-> 128, suspend |-> 64, active_off |-> 32,
            srgb |-> 4, native |-> 2, continuous |-> 1])
    \cup IF digital_if THEN {"rgb444"} \cup Flags(x, [ycbcr444 |-> 8, ycbcr422 |-> 16])
         ELSE CASE Bits(x, 3, 2) = 0 -> {"gray"} [] Bits(x, 3, 2) = 1 -> {"rgb"}
                [] Bits(x, 3, 2) = 2 -> {"non rgb"} [] OTHER -> {}

(* The low bits of the four points x, y are in two bytes before the others. *)
Chromaticity(b, o) ==
  [i \in 1 .. 8 |->
     4 * b[o + 1 + i] + Bits(b[o + ((i - 1) \div 4)], 6 - (2 * ((i - 1) % 4)), 2)]

(* The n timings of a table that are established, a bit each.              *)
Established(b, o, n) == {i \in 0 .. n - 1 : Has(b[o + (i \div 8)], Two(7 - (i % 8)))}

(* An entry that starts with 0 keeps its old value.                        *)
StandardTiming(b, o, old) ==
  IF b[o] = 0 THEN old
  ELSE [horizontal |-> (b[o] + 31) * 8, aspect_ratio |-> Bits(b[o + 1], 6, 2),
        refresh_rate |-> Bits(b[o + 1], 0, 6) + 60]

StandardTimings(b, o, n, old) ==
  [i \in 1 .. n |-> StandardTiming(b, o + 2 * (i - 1), old[i])]

(***************************************************************************)
(* Descriptors.  What the union of a descriptor holds is u; a text has its *)
(* bytes 0 to 12 (and an end at byte 18), and bytes 13 to 17 are still of  *)
(* what was there before: tail, the last member that was not a text.       *)
(***************************************************************************)
(* 13 characters up to a newline; without one, what is behind them is read *)
(* with them.                                                              *)
Text(b, o, tail) ==
  LET c == Little(b, o + 5, 13)
      ends == {i \in 1 .. 13 : c[i] \in {0, 10}} IN
  IF ends = {} THEN [text |-> c, behind |-> tail]
  ELSE [text |-> SubSeq(c, 1, (CHOOSE i \in ends : \A j \in ends : i <= j) - 1), behind |-> "end"]

Offset(x) == CASE x = 2 -> "max" [] x = 3 -> "max and min" [] OTHER -> "none"
Rate(value, offset) == IF value # 0 /\ offset THEN value + 255 ELSE value

Cvt(b, o) ==
  [version |-> b[o + 11], extra_pclk |-> Bits(b[o + 12], 2, 6),
   line_max |-> IF b[o + 13] = 0 THEN 0 ELSE (256 * Bits(b[o + 12], 0, 2) + b[o + 13]) * 8,
   aspect_ratios |-> Bits(b[o + 14], 3, 5), preferred_ar |-> Bits(b[o + 15], 5, 3),
   blanking |-> Bits(b[o + 15], 3, 2), scaling |-> Bits(b[o + 16], 4, 4), v_refresh |-> b[o + 17]]

Gtf(b, o) ==
  [break_freq |-> b[o + 12] * 2, C |-> b[o + 13] \div 2, M |-> Word(b, o + 14),
   K |-> b[o + 16], J |-> b[o + 17] \div 2]

(* The low two bits of byte 4 are for the vertical rates, the next two for *)
(* the horizontal ones; h_offset ignores the former and v_offset the       *)
(* latter, but no other bit.                                               *)
RangeLimits(b, o, continuous) ==
  LET x == b[o + 4]  f == b[o + 10] IN
  [h_offset |-> IF Bits(x, 4, 4) = 0 THEN Offset(Bits(x, 2, 2)) ELSE "none",
   v_offset |-> IF Bits(x, 4, 4) = 0 THEN Offset(Bits(x, 0, 2)) ELSE "none",
   v_min |-> Rate(b[o + 5], Bits(x, 0, 2) = 3), v_max |-> Rate(b[o + 6], Has(x, 2)),
   h_min |-> Rate(b[o + 7], Bits(x, 2, 2) = 3), h_max |-> Rate(b[o + 8], Has(x, 8)),
   p_max |-> b[o + 9] * 10,
   timing_flags |-> CASE f = 1 -> "limits" [] f = 2 -> "second gtf"
                      [] f = 4 /\ continuous -> "cvt" [] OTHER -> "gtf",
   more |-> CASE f = 2 -> Gtf(b, o) [] f = 4 /\ continuous -> Cvt(b, o) [] OTHER -> << >>]

(* gamma is stored as (byte + 100) / 100.                                  *)
WhitePoint(b, o) ==
  [index |-> b[o], x |-> 4 * b[o + 2] + Bits(b[o + 1], 2, 2), y |-> 4 * b[o + 3] + Bits(b[o + 1], 0, 2),
   gamma |-> IF b[o + 4] < 255 THEN b[o + 4] + 100 ELSE 0]

(* Two fields are or-ed to what was there before.                          *)
CvtTiming(b, o, old) ==
  [lines |-> 256 * Bits(b[o + 1], 4, 4) + b[o], aspect |-> old.aspect \cup {Bits(b[o + 1], 2, 2)},
   preferred |-> old.preferred \cup {Bits(b[o + 2], 5, 2)}, supported |-> Bits(b[o + 2], 0, 5)]

Fill(d, x) == [d EXCEPT !.u = x, !.tail = x]

(* A tag that the code does not know leaves the descriptor as it was.      *)
DisplayDescriptor(b, o, continuous, old) ==
  LET d == [old EXCEPT !.type = "display"] IN
  CASE b[o + 3] = \hff -> [d EXCEPT !.tag = "serial", !.u = Text(b, o, d.tail)]
    [] b[o + 3] = \hfe -> [d EXCEPT !.tag = "string", !.u = Text(b, o, d.tail)]
    [] b[o + 3] = \hfd -> Fill([d EXCEPT !.tag = "limits"], RangeLimits(b, o, continuous))
    [] b[o + 3] = \hfc -> [d EXCEPT !.tag = "name", !.u = Text(b, o, d.tail)]
    [] b[o + 3] = \hfb -> Fill([d EXCEPT !.tag = "color"], <<WhitePoint(b, o + 5), WhitePoint(b, o + 10)>>)
    [] b[o + 3] = \hfa -> [d EXCEPT !.tag = "standard", !.extra = StandardTimings(b, o + 5, 6, @)]
    [] b[o + 3] = \hf9 -> [d EXCEPT !.tag = "dcm", !.dcm = <<b[o + 5]>> \o [i \in 1 .. 6 |-> Word(b, o + 4 + 2 * i)]]
    [] b[o + 3] = \hf8 -> [d EXCEPT !.tag = "cvt", !.cvt = [i \in 0 .. 3 |-> CvtTiming(b, o + 6 + 3 * i, @[i])]]
    [] b[o + 3] = \hf7 -> [d EXCEPT !.tag = "established", !.timing_3 = Established(b, o + 6, 44)]
    [] b[o + 3] = \h10 -> [d EXCEPT !.tag = "dummy"]
    [] OTHER -> d

Descriptor(b, o, continuous, old) ==
  IF b[o] # 0 \/ b[o + 1] # 0
  THEN Fill([old EXCEPT !.type = "timing"], DetailedTiming(b, o, TRUE))
  ELSE DisplayDescriptor(b, o, continuous, old)
=============================================================================
