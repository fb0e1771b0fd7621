------------------------------ MODULE Adv7513 -------------------------------
(***************************************************************************)
(* adv7513.c and encoder.c: what the driver does to the registers of the   *)
(* transmitter, as sequences of I2C transactions.  A register is the set   *)
(* of its bits that are 1.                                                 *)
(***************************************************************************)
EXTENDS Integers, Sequences

CONSTANT EDID_LENGTH      \* bytes that adv7513_edid_read reads (256 in the code)
ASSUME EdidAssumption == EDID_LENGTH \in Nat

Power == <<1, 2, 4, 8, 16, 32, 64, 128>>
Bits(byte) == {i \in 0 .. 7 : (byte \div Power[i + 1]) % 2 = 1}

reg_read(reg) == <<[op |-> "read", reg |-> reg]>>
reg_write(reg, data) == <<[op |-> "write", reg |-> reg, data |-> Bits(data)]>>

(* Two transactions: the register is read, and written back changed.       *)
reg_update_bits(reg, mask, data) ==
  <<[op |-> "read", reg |-> reg],
    [op |-> "modify", reg |-> reg, mask |-> Bits(mask), data |-> Bits(data) \cap Bits(mask)]>>
reg_clear_bits(reg, mask) == reg_update_bits(reg, mask, 0)

adv7513_chip_identify == reg_read(\h00) \o reg_read(\hf6) \o reg_read(\hf5)

adv7513_do_hpd_powerup ==
  reg_update_bits(\h41, \h40, 0)
    \o reg_write(\h98, \h03) \o reg_update_bits(\h9a, \he0, \he0) \o reg_write(\h9c, \h30)
    \o reg_update_bits(\h9d, \h03, \h01) \o reg_write(\ha2, \ha4) \o reg_write(\ha3, \ha4)
    \o reg_write(\he0, \hd0) \o reg_write(\h96, \hff)

adv7513_kick_up == reg_update_bits(\h41, \h40, 0)

adv7513_do_hpd_powerdown == reg_update_bits(\h41, \h40, \h40)

(* (regv & 0x40) == 1 compares 0 or 64 with 1.                             *)
power_state(regv) == IF (IF 6 \in regv THEN 64 ELSE 0) = 1 THEN 0 ELSE 1

adv7513_edid_read == [i \in 1 .. EDID_LENGTH |-> [op |-> "read edid", reg |-> i - 1]]

adv7513_config_csc == reg_update_bits(\h18, \h80, 0)

(* 24 bit RGB 4:4:4, 8 bits per channel, 4:3.                              *)
adv7513_video_in_format ==
  reg_update_bits(\h15, \h0f, 0) \o reg_update_bits(\h16, \h3d, \h30)
    \o reg_update_bits(\h17, \h02, 0)

adv7513_video_out_format(hdmi) ==
  reg_update_bits(\h16, \h80, 0) \o adv7513_config_csc
    \o reg_update_bits(\haf, \h82, IF hdmi THEN 2 ELSE 0)
    \o (IF hdmi THEN reg_update_bits(\h40, \h80, \h80) ELSE reg_clear_bits(\h40, \h80))
    \o reg_update_bits(\h4c, \h0f, 4)

(* Fields of the AVI infoframe: active format valid (bit 4), bars valid    *)
(* (1, bits 3:2) and scan 2 (bits 1:0); aspect 4:3, same active aspect; no *)
(* bars: the registers from 0x5a on.  The update is locked (0x4a bit 6)    *)
(* while it goes on.                                                       *)
no_bars == [i \in 1 .. 8 |-> [op |-> "write", reg |-> \h59 + i, data |-> {}]]
adv7513_avi_infoframe ==
  reg_update_bits(\h44, \h10, \h10) \o reg_update_bits(\h4a, \hc0, \hc0)
    \o reg_update_bits(\h55, \h70, 0 * 32 + 1 * 16 + 1 * 4 + 2)
    \o reg_write(\h56, 0 * 64 + 1 * 16 + 8) \o reg_write(\h57, 0) \o reg_write(\h59, 0)
    \o no_bars \o reg_clear_bits(\h4a, \h40)

adv7513_video_init(hdmi) ==
  adv7513_video_in_format \o adv7513_video_out_format(hdmi) \o adv7513_avi_infoframe

adv7513_chip_init(dvi) == adv7513_video_init(~dvi)

(* The registers of the transmitter that the driver uses.                  *)
RegisterNumbers ==
  {\h00, \h40, \h41, \h42, \h44, \h4a, \h4c, \h55, \h56, \h57, \h9a, \h9c, \h9d,
   \ha2, \ha3, \haf, \he0, \hf5, \hf6}
    \cup \h15 .. \h18 \cup \h59 .. \h61 \cup \h92 .. \h98
=============================================================================
