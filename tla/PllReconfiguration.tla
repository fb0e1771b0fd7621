------------------------- MODULE PllReconfiguration -------------------------
(***************************************************************************)
(* The choice of the mode and the change of the pixel clock that follows:  *)
(* vpg_mode.v, which looks at the switch once in PERIOD clocks and changes *)
(* the mode; pll_controller.v, which notices that and writes the words of  *)
(* the new mode to the core that reconfigures the PLL.  c5g_hdmi_vpg.v     *)
(* divides the clock of vpg_mode.v: PERIOD is 341333 there.                *)
(***************************************************************************)
EXTENDS PllReconfigCore

CONSTANTS
  PERIOD,       \* clocks of 50 MHz between two looks at the switch
  LOCK          \* clocks after a look by which the PLL is locked again

(* There is time for the change and the lock before the next look.         *)
ASSUME PeriodAssumption ==
  PERIOD \in Nat /\ LOCK \in Nat /\ PERIOD >= 59 /\ PERIOD >= LOCK + 4

VARIABLES
  mode, mode_change, pre_mode_button, virtual,       \* vpg_mode.v
  mode_change_d, state, write_count,                 \* pll_controller.v
  elapsed,      \* clocks since the last look
  crowded       \* history: the last change of the mode came while mode_change
                \* still told of the one before

chooser == <<mode, mode_change, pre_mode_button, virtual>>
bus == <<mgmt_address, mgmt_write, mgmt_writedata, mgmt_read>>
controller == <<mode_change_d, state, write_count>>
vars == <<core, locked, bus, chooser, controller, elapsed, crowded>>

Init ==
  /\ CoreInit
  /\ mgmt_address = 0 /\ mgmt_write = 0 /\ mgmt_writedata = Word(0) /\ mgmt_read = 0
  /\ mode = LastMode /\ mode_change = 0 /\ pre_mode_button = 1 /\ virtual = 0
  /\ mode_change_d = <<0, 0, 0>> /\ state = 0 /\ write_count = 0
  /\ elapsed = 0 /\ crowded = FALSE

(* A slip that the properties must notice: registers of n and m exchanged. *)
Address_Swapped == <<0, 3, 4, 5, 8, 9, 2, 1>>

(***************************************************************************)
(* vpg_mode.v: the switch was released and is up again, or, once, some     *)
(* time after the reset (ones have been shifted into virtual).             *)
(***************************************************************************)
NextMode(m) == IF m = LastMode THEN 0 ELSE m + 1

Look(mode_button) ==
  LET change == (mode_button = 1 /\ pre_mode_button = 0) \/ virtual = 9 IN
  /\ elapsed = PERIOD /\ elapsed' = 0
  /\ virtual' = IF virtual < 10 THEN virtual + 1 ELSE virtual
  /\ pre_mode_button' = mode_button
  /\ mode_change' = IF change THEN 1 ELSE 0
  /\ mode' = IF change THEN NextMode(mode) ELSE mode
  /\ crowded' = IF change THEN mode_change = 1 ELSE crowded
  /\ UNCHANGED <<core, locked, bus, controller>>

(***************************************************************************)
(* pll_controller.v: what it puts on the bus when it enters a state.       *)
(***************************************************************************)
Address == <<0, 4, 3, 5, 8, 9, 2, 1>>

Present(s) ==
  /\ mgmt_address' = Address[s]
  /\ mgmt_writedata' =
       CASE s \in {1, 7} -> Word(1)
         [] s = 2 -> ModeSettings(mode).m
         [] s = 3 -> ModeSettings(mode).n
         [] s = 4 -> ModeSettings(mode).c
         [] s = 5 -> Word(6) [] s = 6 -> Word(3)
         [] s = 8 -> mgmt_writedata

Notice ==
  /\ state = 0
  /\ IF mode_change_d[3] = 0 /\ mode_change_d[2] = 1
     THEN state' = 1 /\ Present(1)
     ELSE UNCHANGED <<state, mgmt_address, mgmt_writedata>>
  /\ UNCHANGED <<write_count, mgmt_write, mgmt_read>>

(* Slips: a core that is left without polling; a start that is written    *)
(* for three clocks.                                                       *)
WriteRegister_NoPolling ==
  /\ state \in 1 .. 7
  /\ mgmt_write' = IF write_count = 0 /\ state # 1 THEN 1 ELSE 0
  /\ IF write_count = 2
     THEN write_count' = 0 /\ state' = state + 1 /\ Present(state + 1)
     ELSE write_count' = write_count + 1 /\ UNCHANGED <<state, mgmt_address, mgmt_writedata>>
  /\ UNCHANGED mgmt_read
WriteRegister_StartTwice ==
  /\ state \in 1 .. 7
  /\ mgmt_write' = IF write_count = 0 \/ state = 7 THEN 1 ELSE 0
  /\ IF write_count = 2
     THEN write_count' = 0 /\ state' = state + 1 /\ Present(state + 1)
     ELSE write_count' = write_count + 1 /\ UNCHANGED <<state, mgmt_address, mgmt_writedata>>
  /\ UNCHANGED mgmt_read

(* States 1 to 7: three clocks each, of which the second writes.           *)
WriteRegister ==
  /\ state \in 1 .. 7
  /\ mgmt_write' = IF write_count = 0 THEN 1 ELSE 0
  /\ IF write_count = 2
     THEN write_count' = 0 /\ state' = state + 1 /\ Present(state + 1)
     ELSE write_count' = write_count + 1 /\ UNCHANGED <<state, mgmt_address, mgmt_writedata>>
  /\ UNCHANGED mgmt_read

CheckStatus ==
  /\ state = 8
  /\ IF mgmt_read = 1 /\ readdata = 1
     THEN mgmt_read' = 0 /\ state' = 0
     ELSE mgmt_read' = 1 /\ state' = state
  /\ UNCHANGED <<write_count, mgmt_write, mgmt_address, mgmt_writedata>>

(* The PLL may lose its lock while it is written.                          *)
Lock == locked' \in IF (waiting \/ locked = 0) /\ elapsed < LOCK THEN {0, 1} ELSE {1}

Clock ==
  /\ elapsed < PERIOD /\ elapsed' = elapsed + 1
  /\ mode_change_d' = <<mode_change, mode_change_d[1], mode_change_d[2]>>
  /\ Notice \/ WriteRegister \/ CheckStatus
  /\ CoreClock /\ Lock
  /\ UNCHANGED <<chooser, crowded>>

Next == Clock \/ \E mode_button \in {0, 1} : Look(mode_button)

Spec == Init /\ [][Next]_vars /\ WF_vars(Next)

(***************************************************************************)
(* Properties.                                                             *)
(***************************************************************************)
TypeOK ==
  /\ mode \in AllModes /\ virtual \in 0 .. 10 /\ elapsed \in 0 .. PERIOD
  /\ state \in 0 .. 8 /\ write_count \in 0 .. 2
  /\ changed \subseteq Settings /\ done \subseteq Settings

(* Before the next look at the switch the PLL has been reprogrammed, with  *)
(* the words of the mode that the counters of the picture have, so that a  *)
(* picture lasts a sixtieth of a second (within 1%), unless the change was *)
(* crowded.                                                                *)
SixtyFrames ==
  elapsed = PERIOD /\ ~crowded
    => /\ state = 0 /\ pll = ModeSettings(mode)
       /\ FrameRate(mode, KiloHertz(pll)) \in 594 .. 606

(* The types hold, and also after crowded changes the PLL runs with the    *)
(* settings of one mode, never with counters of two, whenever it is not    *)
(* being written.                                                          *)
NeverMixed ==
  /\ TypeOK
  /\ ~waiting => \E m \in AllModes : pll = ModeSettings(m)

(* The controller does not heed the core's wait request: none of its       *)
(* writes may fall into a time at which the core ignores or misuses it.    *)
WritesAccepted ==
  mgmt_write = 1 =>
    ~slave_waitrequest /\ current_state = "IDLE"

(* Controller and core never wait for each other: the change is finished.  *)
Finished == state # 0 ~> state = 0
=============================================================================
