------------------------------ MODULE EdidDump ------------------------------
(***************************************************************************)
(* The commands "e" and "e p" of main.c: the 256 bytes of the EDID are     *)
(* read one by one into a buffer of the program, decoded and printed.  At  *)
(* any time the monitor may be changed for another, or unplugged, and any  *)
(* read may fail.  The struct that is decoded into is a local of main()    *)
(* that nothing clears.                                                    *)
(***************************************************************************)
EXTENDS EdidCea, EdidMonitor

CONSTANTS
  Monitors,        \* a sequence of descriptions of monitors
  Cuts,            \* bounds: the bytes before which a monitor changes or a read fails,
  REPLUGS          \* and how often the monitor changes

ASSUME EdidAssumption ==
  /\ Cuts \subseteq 0 .. 255 /\ 0 \in Cuts
  /\ REPLUGS \in Nat
  /\ Len(Monitors) \in Nat /\ DOMAIN Monitors = 1 .. Len(Monitors)
  /\ \A m \in DOMAIN Monitors : IsMonitor(Monitors[m])

VARIABLES
  monitor,         \* the one that is connected, 0: none
  edid,            \* the buffer of the program
  edid_info,       \* the struct
  i, r, p,         \* the read under way: next byte, result, to be decoded
  printed,         \* what the last command has printed of the struct, << >>: nothing
  replugs,
  source           \* history: of which monitor each byte of the buffer is

vars == <<monitor, edid, edid_info, i, r, p, printed, replugs, source>>

EdidOf == [m \in 0 .. Len(Monitors) |->
             IF m = 0 THEN [k \in 0 .. 255 |-> 0] ELSE Encode(Monitors[m])]

(***************************************************************************)
(* The struct as nothing has written it: all zero, or the rest of          *)
(* something else.  others: the further extensions that have the tag of a  *)
(* CEA one.                                                                *)
(***************************************************************************)
Untouched(x) ==
  LET mode == [horizontal |-> x, aspect_ratio |-> 0, refresh_rate |-> x]
      cvt == [lines |-> x, aspect |-> {}, preferred |-> {}, supported |-> x]
      descriptor == [type |-> "none", tag |-> "none", u |-> << >>, tail |-> [k \in 1 .. 5 |-> x],
                     extra |-> [k \in 1 .. 6 |-> mode], dcm |-> << >>, cvt |-> [k \in 0 .. 3 |-> cvt], timing_3 |-> {}]
      vendor == [ieee_reg_id |-> x, ext_len |-> x, addr |-> <<x, x, x, x>>, flags |-> {}, max_tmds_clk |-> x,
                 p_latency |-> <<x, x>>, i_latency |-> <<x, x>>, hdmi_video |-> FALSE,
                 video |-> [present_3d |-> FALSE, multi_3d |-> 0, image_size |-> 0,
                            struct_all_3d |-> x, mask_3d |-> x, vic_3d |-> << >>]]
      sad == [format |-> 0, channels |-> x, freq |-> x, resolution |-> x, bitrate |-> x]
      timing == [DetailedTiming([k \in 0 .. 17 |-> x], 0, FALSE) EXCEPT !.sync = {}]
      cea == [rev |-> x, off_dtd |-> x, nr_dtd |-> 0, flags |-> {}, dbc_tags |-> << >>,
              dbe_tags |-> [k \in 1 .. 62 |-> x], db_video |-> << >>,
              db_audio |-> [nr_sad |-> 0, sad |-> [k \in 1 .. 10 |-> sad]], db_speaker |-> x,
              db_vsdb_hdmi |-> vendor, db_colorimetry |-> <<x, x>>,
              db_vcdb |-> VideoCapability(x), detailed_timing |-> [k \in 1 .. 8 |-> timing]] IN
  [checksum |-> x, id_mfg |-> << >>, id_prod |-> x, id_sn |-> << >>, mfg_week |-> x, mfg_year |-> x,
   model_year |-> x, ver |-> << >>, input |-> Input(x), screen |-> Screen(x, x), gamma |-> x,
   feature |-> {}, chromaticity |-> << >>, timing_1_2 |-> {},
   standard_timings |-> [k \in 1 .. 8 |-> mode], descriptors |-> [k \in 1 .. 4 |-> descriptor],
   extensions |-> x, ext_tag |-> x, cea_ext |-> cea, others |-> IF x = 2 THEN 1 .. 7 ELSE {}]

Zeros == Untouched(0)
Rest == Untouched(2)       \* 2 is also the tag of a CEA extension

IDLE == 256

Init ==
  /\ monitor \in 0 .. Len(Monitors)
  /\ edid = [k \in 0 .. 255 |-> 0] /\ source = [k \in 0 .. 255 |-> 0]
  /\ edid_info \in {Zeros, Rest}
  /\ i = IDLE /\ r = 0 /\ p = FALSE /\ printed = << >>
  /\ replugs = 0

Idle == i = IDLE /\ ~p

Command(with_p) ==
  /\ Idle
  /\ i' = 0 /\ r' = 0 /\ p' = with_p /\ printed' = << >>
  /\ UNCHANGED <<monitor, edid, edid_info, replugs, source>>

(* The bytes up to the next cut: the monitor does not change in between.   *)
UpTo(k) == LET later == {c \in Cuts \cup {IDLE} : c > k} IN CHOOSE c \in later : \A d \in later : c <= d

adv7513_edid_read ==
  /\ i < IDLE /\ r = 0 /\ i' = UpTo(i)
  /\ \E sent \in {EdidOf[monitor]} :
       edid' = [k \in 0 .. 255 |-> IF k \in i .. i' - 1 THEN sent[k] ELSE edid[k]]
  /\ source' = [k \in 0 .. 255 |-> IF k \in i .. i' - 1 THEN monitor ELSE source[k]]
  /\ UNCHANGED <<monitor, edid_info, r, p, printed, replugs>>

(* A byte that is not acknowledged ends the read; main only says so, and   *)
(* goes on with the buffer as it is.                                       *)
NotAcknowledged ==
  /\ i < IDLE /\ r = 0 /\ i' = IDLE /\ r' = -1
  /\ UNCHANGED <<monitor, edid, edid_info, p, printed, replugs, source>>

DecodeAndPrint ==
  /\ i = IDLE /\ p /\ p' = FALSE
  /\ \E d \in {edid_decode_v14(edid, edid_info)} :
       /\ edid_info' = d.info
       /\ printed' = IF d.r = 0 THEN edid_print_v14(d.info) ELSE << >>
  /\ UNCHANGED <<monitor, edid, i, r, replugs, source>>

Replug ==
  /\ replugs < REPLUGS /\ replugs' = replugs + 1
  /\ \E m \in (0 .. Len(Monitors)) \ {monitor} : monitor' = m
  /\ UNCHANGED <<edid, edid_info, i, r, p, printed, source>>

Next ==
  \/ \E with_p \in BOOLEAN : Command(with_p)
  \/ adv7513_edid_read \/ NotAcknowledged \/ DecodeAndPrint \/ Replug

Spec == Init /\ [][Next]_vars

(***************************************************************************)
(* Properties.                                                             *)
(***************************************************************************)
Shown == printed # << >>
TimingOK(t) ==
  /\ {t.width, t.height, t.h_blank, t.v_blank, t.h_size, t.v_size} \subseteq 0 .. 4095
  /\ {t.h_fp, t.h_sync} \subseteq 0 .. 1023 /\ {t.v_fp, t.v_sync} \subseteq 0 .. 63

(* Nothing is written past the end of an array: only a monitor with more   *)
(* than 16 3D formats, of which a block has room for 19, makes the list of *)
(* them run over the fields that follow.                                   *)
HasFull(m) == \E k \in DOMAIN m.blocks : IsFull(m.blocks[k])
InArray(formats) ==
  Len(formats) <= IF \E m \in DOMAIN Monitors : HasFull(Monitors[m]) THEN 19 ELSE ROOM

TypeOK ==
  /\ i \in Cuts \cup {IDLE} /\ r \in {-1, 0} /\ p \in BOOLEAN
  /\ monitor \in 0 .. Len(Monitors) /\ \A k \in 0 .. 255 : edid[k] \in 0 .. 255
  /\ LET cea == edid_info.cea_ext IN
     /\ cea.nr_dtd \in 0 .. 15 /\ cea.db_audio.nr_sad \in 0 .. 10 /\ Len(cea.dbc_tags) <= 62
     /\ InArray(cea.db_vsdb_hdmi.video.vic_3d) /\ DOMAIN cea.detailed_timing = 1 .. 8
     /\ \A k \in 1 .. 8 : TimingOK(cea.detailed_timing[k])
     /\ \A k \in 1 .. 4 : edid_info.descriptors[k].type = "timing" => TimingOK(edid_info.descriptors[k].u)

(* Blocks that the decoder writes as a whole.                              *)
Settled(block) ==
  /\ block[1] = Tags.extended => block[2] \in ExtendedTags
  /\ block[1] = Tags.vendor /\ block[2].ieee_reg_id # 0 /\ block[2].hdmi_video =>
       block[2].video.vic_3d # << >>

(* What is printed of a descriptor without the rest of an older one that   *)
(* a text of 13 characters is printed with.                                *)
IsText13(d) == d[1] \in {"serial", "string", "name"} /\ Len(d[2].text) = 13
Own(d) == IF IsText13(d) THEN <<d[1], d[2].text>> ELSE d

(* "display EDID raw data of currently connected monitor and decode it in  *)
(* the human readable format" (main.c 273): what is printed of an EDID     *)
(* that was read as a whole is what the monitor meant.  Seven things       *)
(* differ: an unused entry of the standard timings (1, 1) is listed as     *)
(* 256 pixels at 61 Hz; a text of 13 characters is not ended; video fields *)
(* without 3D formats keep those of an older EDID, and more of them than   *)
(* the array has room for are mixed with other fields; the decoder of the  *)
(* extension leaves out the polarity of hsync, which is printed as         *)
(* positive, takes an offset of 4, timings without data blocks, for no     *)
(* timings, and the number of native timings for that of all of them, so   *)
(* that the others are not printed.                                        *)
Reads(m) == \A k \in 0 .. 255 : source[k] = m
Meant(t) == IF "hsync_n" \in t.sync THEN [t EXCEPT !.sync = (@ \ {"hsync_n"}) \cup {"hsync_p"}] ELSE t
DecodesTheMonitor ==
  Shown => \A n \in DOMAIN Monitors : Reads(n) =>
    LET m == Monitors[n] IN
    /\ printed.date = <<m.week, m.year, 0>> /\ printed.gamma = m.gamma
    /\ printed.input = [digital_if |-> TRUE, depth |-> m.depth, interface |-> 5]
    /\ printed.screen = [defined |-> "size", horizontal |-> m.size[1], vertical |-> m.size[2]]
    /\ printed.timing_1_2 = m.established /\ printed.standard_timings = Listed(8, m.standard)
    /\ \A k \in 1 .. 4 : m.descriptors[k].kind # "bytes" =>
         Own(printed.descriptors[k]) = Own(Printed(m.descriptors[k]))
    /\ HasExtension(m) =>
         /\ Len(printed.cea.blocks) = Len(m.blocks)
         /\ \A k \in DOMAIN m.blocks :
              m.blocks[k].kind # "bytes" /\ Settled(PrintedBlock(m.blocks[k])) /\ ~IsFull(m.blocks[k]) =>
                printed.cea.blocks[k] = PrintedBlock(m.blocks[k])
         /\ printed.cea.timings = [k \in 1 .. m.native |-> Meant(m.timings[k])]

(* A base block that is pieced together from two monitors, or read half    *)
(* over an older one, is printed only if the bytes that do not belong to   *)
(* one of them have the sum of those that they replace: edid.c 973-978     *)
(* cannot tell more.                                                       *)
OnlyEqualSumsPass ==
  Shown => \A m \in {source[k] : k \in 0 .. 127} :
    LET own == EdidOf[m] IN Total([n \in 1 .. 128 |-> edid[n - 1] - own[n - 1]]) % 256 = 0

(* Nothing that is printed is older than the EDID it is printed for, but   *)
(* for what the code does not write: an extension that there is not, or    *)
(* that is of another kind or version; standard timings whose first byte   *)
(* is 0; a descriptor or an extended block with a tag that is not known;   *)
(* the 3D formats if their length is 0; detailed timings without an offset *)
(* to them; what follows a text of 13 characters; and the tags of further  *)
(* extensions, which it never writes.                                      *)
Extends(b) == b[126] > 0 /\ b[128] = 2 /\ b[129] = 3
ZeroMode(b, o, n) == \E k \in 0 .. n - 1 : b[o + 2 * k] = 0
KnownTag(b, o) == b[o] # 0 \/ b[o + 1] # 0 \/ b[o + 3] \in (\hf7 .. \hff) \cup {\h10}
NothingStale ==
  Shown =>
    LET fresh == edid_print_v14(edid_decode_v14(edid, Untouched(9)).info) IN
    /\ \A f \in DOMAIN fresh \ {"standard_timings", "descriptors", "cea", "others"} : printed[f] = fresh[f]
    /\ ~ZeroMode(edid, 38, 8) => printed.standard_timings = fresh.standard_timings
    /\ \A k \in 1 .. 4 :
         LET o == 36 + 18 * k IN
         KnownTag(edid, o) /\ ~(edid[o + 3] = \hfa /\ ZeroMode(edid, o + 5, 6)) =>
           Own(printed.descriptors[k]) = Own(fresh.descriptors[k])
    /\ Extends(edid) =>
         /\ edid[130] > 4 => printed.cea.timings = fresh.cea.timings
         /\ Len(printed.cea.blocks) = Len(fresh.cea.blocks)
         /\ \A k \in DOMAIN fresh.cea.blocks : Settled(fresh.cea.blocks[k]) =>
              printed.cea.blocks[k] = fresh.cea.blocks[k]
=============================================================================
