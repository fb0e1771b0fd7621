----------------------------- MODULE MCEdidDump -----------------------------
(* EdidDump for TLC: a monitor of each kind that the decoder distinguishes. *)
EXTENDS EdidDump

FullHD ==
  [pixel_clock |-> 148500000, width |-> 1920, h_blank |-> 280, height |-> 1080, v_blank |-> 45,
   h_fp |-> 88, h_sync |-> 44, v_fp |-> 4, v_sync |-> 5, h_size |-> 509, v_size |-> 286,
   border_lr |-> 0, border_tb |-> 0, interlaced |-> FALSE, stereo |-> "none",
   sync |-> {"separate", "vsync_p", "hsync_p"}]

(* Every field needs its high bits.                                        *)
Large ==
  [pixel_clock |-> 655350000, width |-> 3840, h_blank |-> 2815, height |-> 2304, v_blank |-> 1279,
   h_fp |-> 1020, h_sync |-> 259, v_fp |-> 37, v_sync |-> 50, h_size |-> 1800, v_size |-> 1290,
   border_lr |-> 3, border_tb |-> 7, interlaced |-> TRUE, stereo |-> "none",
   sync |-> {"separate", "vsync_n", "hsync_n"}]

Name == [kind |-> "name", u |-> <<65, 66, 67>>]
Limits ==
  [kind |-> "limits", u |-> [v_min |-> 24, v_max |-> 300, h_min |-> 260, h_max |-> 400, p_max |-> 600]]
Dummy == [kind |-> "bytes", u |-> <<0, 0, 0, 16, 0, 0, 0, 0, 0, 0, 0, 0, 0, 0, 0, 0, 0, 0>>]
Unknown == [Dummy EXCEPT !.u[4] = 5]
Cvt4 == [Dummy EXCEPT !.u = <<0, 0, 0, \hf8, 0, 1>> \o [k \in 1 .. 12 |-> 17 * k]]
Dcm == [Dummy EXCEPT !.u = <<0, 0, 0, \hf9, 0, 3>> \o [k \in 1 .. 12 |-> 19 * k]]
CvtLimits == [Dummy EXCEPT !.u = <<0, 0, 0, \hfd, 0, 50, 60, 30, 80, 15, 4, 17, 7, 80, 248, 40, 240, 60>>]
GtfLimits == [Dummy EXCEPT !.u = <<0, 0, 0, \hfd, 0, 50, 60, 30, 80, 15, 2, 0, 40, 80, 1, 2, 40, 60>>]
Modes == <<[horizontal |-> 1680, aspect_ratio |-> 0, refresh_rate |-> 60],
           [horizontal |-> 1280, aspect_ratio |-> 2, refresh_rate |-> 123]>>
WhitePoints == <<[index |-> 1, x |-> 321, y |-> 337, gamma |-> 220], [index |-> 2, x |-> 282, y |-> 299, gamma |-> 180]>>

Svds == [tag |-> 2, kind |-> "video", u |-> <<[native |-> TRUE, vic |-> 16], [native |-> FALSE, vic |-> 4]>>]
Sads == [tag |-> 1, kind |-> "audio", u |-> <<[format |-> 1, channels |-> 2, freq |-> 7, last |-> 5],
                                             [format |-> 2, channels |-> 6, freq |-> 4, last |-> 640]>>]
Speakers == [tag |-> 4, kind |-> "speaker", u |-> 79]
No3d == [present_3d |-> FALSE, multi_3d |-> 0, image_size |-> 0, struct_all_3d |-> 0, mask_3d |-> 0, vic_3d |-> << >>]
Hdmi == [tag |-> 3, kind |-> "vendor",
         u |-> [addr |-> <<1, 0, 2, 0>>, flags |-> {"bpp36", "bpp30"}, max_tmds_clk |-> 225,
                p_latency |-> << >>, i_latency |-> << >>, hdmi_video |-> FALSE, video |-> No3d]]
Late == [Hdmi EXCEPT !.u.p_latency = <<40, 60>>, !.u.i_latency = <<100, 20>>]
Hdmi3d ==
  [Late EXCEPT !.u.hdmi_video = TRUE,
               !.u.video = [present_3d |-> TRUE, multi_3d |-> 2, image_size |-> 1, struct_all_3d |-> 321,
                            mask_3d |-> 3, vic_3d |-> <<[vic_2d |-> 1, struct_3d |-> 0, detail_3d |-> 0],
                                                        [vic_2d |-> 2, struct_3d |-> 8, detail_3d |-> 1]>>]]
Other(tag, bytes) == [tag |-> tag, kind |-> "bytes", u |-> bytes]
Capability == Other(7, <<0, \h6a>>)
Colorimetry == Other(7, <<5, 3, 1>>)
Strange == Other(7, <<99, 1>>)
OtherVendor == Other(3, <<1, 2, 3, 4, 5>>)

Plain ==
  [id |-> <<36, 77, 1, 2, 3, 4, 5, 6>>, week |-> 12, year |-> 2013, depth |-> 2, size |-> <<51, 29>>,
   gamma |-> 220, established |-> {2, 7, 16}, standard |-> Modes,
   descriptors |-> <<[kind |-> "timing", u |-> FullHD], Name, Limits, Dummy>>,
   blocks |-> << >>, timings |-> << >>, native |-> 0]

Tv == [Plain EXCEPT !.blocks = <<Svds, Sads, Hdmi>>, !.timings = <<FullHD, Large>>, !.native = 1]
Tv3d == [Plain EXCEPT !.descriptors[1].u = Large, !.descriptors[4] = CvtLimits,
                      !.blocks = <<Svds, Speakers, Hdmi3d, Capability, Colorimetry>>, !.timings = <<Large, FullHD>>, !.native = 2]
Amplifier == [Plain EXCEPT !.week = 0, !.blocks = <<Sads, Late, Strange>>]
Odd == [Plain EXCEPT !.descriptors = <<[kind |-> "timing", u |-> Large], Unknown, Cvt4, Dcm>>,
                     !.blocks = <<OtherVendor>>]
Graphics == [Plain EXCEPT !.standard = << >>, !.established = {0, 9},
                          !.descriptors = <<[kind |-> "timing", u |-> FullHD], [kind |-> "color", u |-> WhitePoints],
                                            [kind |-> "standard", u |-> Modes],
                                            [kind |-> "established", u |-> {0, 9, 16}]>>]

(* Its serial number has the sum of that of Plain, and it has another name. *)
Twin == [Plain EXCEPT !.id = <<36, 77, 1, 2, 6, 5, 4, 3>>, !.descriptors[4] = GtfLimits]

(* Video fields without 3D formats, and a name that leaves no room for the *)
(* newline.                                                                *)
Flat == [Plain EXCEPT !.descriptors[2] = [kind |-> "name", u |-> [k \in 1 .. 13 |-> 64 + k]],
                      !.blocks = <<[Hdmi3d EXCEPT !.u.video = No3d]>>]

(* Three formats more than there is room for, between two blocks of what   *)
(* they are written over.                                                  *)
Full3d == [Hdmi EXCEPT !.u.hdmi_video = TRUE,
                       !.u.video = [No3d EXCEPT !.multi_3d = 1, !.struct_all_3d = 2,
                                                !.vic_3d = [k \in 1 .. 19 |-> [vic_2d |-> k % 16, struct_3d |-> k % 7, detail_3d |-> 0]]]]
Full == [Plain EXCEPT !.descriptors[3] = [kind |-> "serial", u |-> [k \in 1 .. 13 |-> 48 + k]],
                      !.blocks = <<Capability, Full3d, Colorimetry>>, !.timings = <<FullHD, Large>>, !.native = 1]

AllMonitors == <<Plain, Tv, Tv3d, Amplifier, Odd, Graphics, Twin, Flat, Full>>
=============================================================================
