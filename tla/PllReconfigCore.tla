-------------------------- MODULE PllReconfigCore --------------------------
(***************************************************************************)
(* altera_pll_reconfig_core.v, as far as pll_controller.v uses it: it      *)
(* keeps the words that were written for the counters (n, m, c), the       *)
(* bandwidth (bw) and the charge pump (cp), writes them to the PLL one     *)
(* after the other when the start register is written, waits for the lock, *)
(* and, in polling mode, reports that once in its status register.         *)
(*                                                                         *)
(* Left out: phase shifts, fractional division, VCO, raw accesses, the     *)
(* other C counters, and the first 400 clocks, in which the core resets    *)
(* itself and the PLL locks.                                               *)
(***************************************************************************)
EXTENDS Integers, Sequences, VideoModes

VARIABLES
  mgmt_address, mgmt_write, mgmt_writedata, mgmt_read,   \* from the controller
  locked,                                                \* from the PLL
  slave_mode, current_state, dprio_cur_state, dprio_start,
  usr, changed, done,          \* usr_*, *_changed, *_done_q of each setting
  current_read_state, readdata,
  pll                          \* what the PLL is set to

core == <<slave_mode, current_state, dprio_cur_state, dprio_start, usr, changed,
          done, current_read_state, readdata, pll>>

Counters == {"n", "m", "c"}
Settings == Counters \cup {"bw", "cp"}

(* The settings of the PLL in a mode; medium bandwidth and charge pump.    *)
Word(n) == <<0, 0, 0, n>>
ModeSettings(mode) ==
  [s \in Settings |-> CASE s = "bw" -> Word(6) [] s = "cp" -> Word(3)
                        [] OTHER -> CounterWords[mode + 1][s]]

CoreInit ==
  /\ locked = 1 /\ slave_mode = "WR"
  /\ current_state = "IDLE" /\ dprio_cur_state = "IDLE" /\ dprio_start = 0
  /\ usr = [s \in Settings |-> Word(0)] /\ changed = {} /\ done = {}
  /\ current_read_state = "IDLE" /\ readdata = 0
  /\ pll = ModeSettings(LastMode)        \* 162 MHz as configured

(* The setting that is being written: the first of those that are due.     *)
Order == <<"n", "m", "c", "bw", "cp">>
Current ==
  LET due == {i \in DOMAIN Order : Order[i] \in changed \ done} IN
  IF due = {} THEN "none" ELSE Order[CHOOSE i \in due : \A j \in due : i <= j]

waiting == current_state = "WAIT_ON_LOCK"

(* A slip that the properties must notice: c is not waited for.            *)
AfterSeven_OnlyM ==
  LET unfinished == changed \ {Current} IN
  IF {"m"} \cap (unfinished \ done) # {} THEN "ONE"
  ELSE IF {"bw", "cp"} \cap unfinished # {} THEN "TWO" ELSE "DONE"

(* The state after SEVEN, where a setting has just been finished: its      *)
(* done bit counts for the counters, but only this clock's for bw and cp.  *)
AfterSeven ==
  LET unfinished == changed \ {Current} IN
  IF {"m", "c"} \cap (unfinished \ done) # {} THEN "ONE"
  ELSE IF {"bw", "cp"} \cap unfinished # {} THEN "TWO" ELSE "DONE"

dprio_next_state ==
  IF ~waiting THEN "IDLE"
  ELSE CASE dprio_cur_state = "IDLE" -> IF dprio_start = 1 THEN "ONE" ELSE "IDLE"
         [] dprio_cur_state = "ONE" -> IF Current = "none" THEN "IDLE" ELSE "TWO"
         [] dprio_cur_state = "TWO" -> IF Current = "none" THEN "IDLE"
                                       ELSE IF Current \in Counters THEN "THREE" ELSE "FOUR"
         [] dprio_cur_state = "THREE" -> "FOUR"
         [] dprio_cur_state = "FOUR" -> "FIVE"
         [] dprio_cur_state = "FIVE" -> "SIX"
         [] dprio_cur_state = "SIX" -> "SEVEN"
         [] dprio_cur_state = "SEVEN" -> AfterSeven
         [] dprio_cur_state = "DONE" -> IF dprio_start = 1 THEN "IDLE" ELSE "DONE"

dprio_write_done ==
  CASE ~waiting \/ dprio_cur_state = "IDLE" -> dprio_start = 0
    [] waiting /\ dprio_cur_state = "ONE" -> dprio_start = 0 /\ Current = "none"
    [] waiting /\ dprio_cur_state = "SEVEN" -> AfterSeven = "DONE"
    [] OTHER -> dprio_cur_state = "DONE"

(* The PLL is written in three accesses to a counter: the counts, the      *)
(* bypass and the odd bit; in one to bw or cp.                             *)
WritePll ==
  LET word == usr[Current] IN
  pll' = IF ~waiting \/ Current = "none" THEN pll
         ELSE CASE dprio_cur_state = "ONE" ->
                     [pll EXCEPT ![Current][3] = word[3], ![Current][4] = word[4]]
                [] dprio_cur_state = "SIX" /\ Current \in Counters ->
                     [pll EXCEPT ![Current][2] = word[2]]
                [] dprio_cur_state = "SEVEN" ->
                     IF Current \in Counters THEN [pll EXCEPT ![Current][1] = word[1]]
                     ELSE [pll EXCEPT ![Current] = word]
                [] OTHER -> pll

slave_waitrequest ==
  slave_mode = "WR" /\ (locked = 1 => waiting /\ ~dprio_write_done)

RegisterOf == [a \in {3, 4, 5, 8, 9} |->
  CASE a = 3 -> "n" [] a = 4 -> "m" [] a = 5 -> "c" [] a = 8 -> "bw" [] a = 9 -> "cp"]

(* A write to a register takes effect over what the same clock clears.     *)
Accepted == mgmt_write = 1 /\ ~slave_waitrequest
Written == IF Accepted /\ mgmt_address \in DOMAIN RegisterOf
           THEN {RegisterOf[mgmt_address]} ELSE {}
Registers ==
  /\ slave_mode' = IF Accepted /\ mgmt_address = 0 THEN "POLL" ELSE slave_mode
  /\ usr' = [s \in Settings |-> IF s \in Written THEN mgmt_writedata ELSE usr[s]]
  /\ changed' = (IF dprio_write_done THEN {} ELSE changed) \cup Written
  /\ done' = (IF dprio_write_done THEN {}
              ELSE IF waiting /\ dprio_cur_state = "SEVEN" THEN done \cup {Current}
              ELSE done) \ Written
  /\ dprio_start' = IF Written # {} THEN 1
                    ELSE IF dprio_next_state = "ONE" THEN 0 ELSE dprio_start
  /\ dprio_cur_state' = dprio_next_state

(* The status is read once: LOCKED is left for IDLE.                       *)
status_read == current_read_state = "IDLE" /\ ~waiting /\ mgmt_read = 1
MainStates ==
  current_state' =
    CASE current_state = "IDLE" ->
           IF Accepted /\ mgmt_address = 2 /\ changed # {} THEN "WAIT_ON_LOCK" ELSE "IDLE"
      [] waiting -> IF locked = 1 /\ dprio_write_done
                    THEN IF slave_mode = "WR" THEN "IDLE" ELSE "LOCKED"
                    ELSE "WAIT_ON_LOCK"
      [] current_state = "LOCKED" -> IF status_read THEN "IDLE" ELSE "LOCKED"

ReadStates ==
  /\ current_read_state' =
       CASE current_read_state = "IDLE" -> IF status_read THEN "WAIT" ELSE "IDLE"
         [] current_read_state = "WAIT" -> "READ"
         [] current_read_state = "READ" -> "POST_WAIT"
         [] current_read_state = "POST_WAIT" -> "IDLE"
  /\ readdata' =
       CASE status_read -> IF slave_mode = "POLL" /\ current_state = "LOCKED" THEN 1 ELSE 0
         [] current_read_state \in {"WAIT", "READ"} -> readdata
         [] OTHER -> 0

CoreClock == WritePll /\ Registers /\ MainStates /\ ReadStates
=============================================================================
