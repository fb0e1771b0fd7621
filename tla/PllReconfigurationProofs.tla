---------------------- MODULE PllReconfigurationProofs ----------------------
(***************************************************************************)
(* The change of the pixel clock, proved for every PERIOD and LOCK: no     *)
(* write of the controller is lost, the PLL is never left with counters of *)
(* two modes, and before the next look at the switch the picture has its   *)
(* sixty frames a second.                                                  *)
(*                                                                         *)
(* The invariant follows the change along the time since the last look:    *)
(* the edge of mode_change through three flip-flops (EdgeInv), the seven   *)
(* writes of three clocks each (BusInv), what the core has stored of them  *)
(* (IdleInv), the five settings it writes to the PLL, each in its place and *)
(* time (WaitingInv, Busy), and the lock that is reported once (ReadInv,   *)
(* StateInv).                                                              *)
(***************************************************************************)
EXTENDS PllReconfiguration, TLAPS

(***************************************************************************)
(* The tables.                                                             *)
(***************************************************************************)
AWord == [1 .. 4 -> Nat]

LEMMA TableWords ==
  ASSUME NEW m \in AllModes, NEW s \in {"m", "n", "c"}
  PROVE  CounterWords[m + 1][s] \in AWord
<1>1. m \in {0, 1, 2, 3, 4, 5, 6}
  BY DEF AllModes
<1>2. CASE m = 0 BY <1>2 DEF CounterWords, AWord
<1>3. CASE m = 1 BY <1>3 DEF CounterWords, AWord
<1>4. CASE m = 2 BY <1>4 DEF CounterWords, AWord
<1>5. CASE m = 3 BY <1>5 DEF CounterWords, AWord
<1>6. CASE m = 4 BY <1>6 DEF CounterWords, AWord
<1>7. CASE m = 5 BY <1>7 DEF CounterWords, AWord
<1>8. CASE m = 6 BY <1>8 DEF CounterWords, AWord
<1> QED BY <1>1, <1>2, <1>3, <1>4, <1>5, <1>6, <1>7, <1>8

LEMMA WordIsWord == ASSUME NEW n \in Nat PROVE Word(n) \in AWord
BY DEF Word, AWord

LEMMA SettingsAreWords ==
  ASSUME NEW m \in AllModes
  PROVE  ModeSettings(m) \in [Settings -> AWord]
<1>1. ASSUME NEW s \in Settings
      PROVE  (CASE s = "bw" -> Word(6) [] s = "cp" -> Word(3)
                [] OTHER -> CounterWords[m + 1][s]) \in AWord
  <2>1. CASE s = "bw" BY <2>1, WordIsWord
  <2>2. CASE s = "cp" BY <2>2, WordIsWord
  <2>3. CASE s \in {"m", "n", "c"} BY <2>3, TableWords
  <2> QED BY <2>1, <2>2, <2>3 DEF Settings, Counters
<1> QED BY <1>1 DEF ModeSettings

LEMMA ModeSettingsAre ==
  ASSUME NEW m \in AllModes
  PROVE  ModeSettings(m)["bw"] = Word(6) /\ ModeSettings(m)["cp"] = Word(3)
BY DEF ModeSettings, Settings, Counters

(* Sixty frames a second, within a percent, in every mode.                 *)
LEMMA SixtyInEveryMode ==
  ASSUME NEW m \in AllModes
  PROVE  FrameRate(m, KiloHertz(ModeSettings(m))) \in 594 .. 606
<1> DEFINE w == CounterWords[m + 1]
<1>1. KiloHertz(ModeSettings(m)) = (50000 * Division(w.m)) \div (Division(w.n) * Division(w.c))
  BY DEF KiloHertz, ModeSettings, Settings, Counters
<1>2. m \in {0, 1, 2, 3, 4, 5, 6}
  BY DEF AllModes
<1>3. CASE m = 0
  <2>1. KiloHertz(ModeSettings(m)) = 25000
    BY <1>1, <1>3 DEF CounterWords, Division
  <2> QED BY <1>3, <2>1 DEF FrameRate, ModeTiming, Limits, AllModes
<1>4. CASE m = 1
  <2>1. KiloHertz(ModeSettings(m)) = 27000
    BY <1>1, <1>4 DEF CounterWords, Division
  <2> QED BY <1>4, <2>1 DEF FrameRate, ModeTiming, Limits, AllModes
<1>5. CASE m = 2
  <2>1. KiloHertz(ModeSettings(m)) = 65000
    BY <1>1, <1>5 DEF CounterWords, Division
  <2> QED BY <1>5, <2>1 DEF FrameRate, ModeTiming, Limits, AllModes
<1>6. CASE m = 3
  <2>1. KiloHertz(ModeSettings(m)) = 106500
    BY <1>1, <1>6 DEF CounterWords, Division
  <2> QED BY <1>6, <2>1 DEF FrameRate, ModeTiming, Limits, AllModes
<1>7. CASE m = 4
  <2>1. KiloHertz(ModeSettings(m)) = 108000
    BY <1>1, <1>7 DEF CounterWords, Division
  <2> QED BY <1>7, <2>1 DEF FrameRate, ModeTiming, Limits, AllModes
<1>8. CASE m = 5
  <2>1. KiloHertz(ModeSettings(m)) = 148000
    BY <1>1, <1>8 DEF CounterWords, Division
  <2> QED BY <1>8, <2>1 DEF FrameRate, ModeTiming, Limits, AllModes
<1>9. CASE m = 6
  <2>1. KiloHertz(ModeSettings(m)) = 162000
    BY <1>1, <1>9 DEF CounterWords, Division
  <2> QED BY <1>9, <2>1 DEF FrameRate, ModeTiming, Limits, AllModes
<1> QED BY <1>2, <1>3, <1>4, <1>5, <1>6, <1>7, <1>8, <1>9

(***************************************************************************)
(* The core while it writes: which setting is current, and what follows.   *)
(***************************************************************************)
Done == <<{}, {"n"}, {"n", "m"}, {"n", "m", "c"}, {"n", "m", "c", "bw"}>>

LEMMA CurrentIs ==
  ASSUME changed = Settings, NEW k \in 1 .. 5, done = Done[k]
  PROVE  Current = Order[k]
<1> DEFINE due == {i \in DOMAIN Order : Order[i] \in changed \ done}
<1>1. DOMAIN Order = 1 .. 5
  BY DEF Order
<1>2. /\ Order[1] = "n" /\ Order[2] = "m" /\ Order[3] = "c" /\ Order[4] = "bw" /\ Order[5] = "cp"
      /\ Done[1] = {} /\ Done[2] = {"n"} /\ Done[3] = {"n", "m"} /\ Done[4] = {"n", "m", "c"}
      /\ Done[5] = {"n", "m", "c", "bw"}
  BY DEF Order, Done
<1>3. due = k .. 5
  <2>1. \A i \in 1 .. 5 : Order[i] \in Settings \ Done[k] <=> i >= k
    BY <1>2 DEF Settings, Counters
  <2> QED BY <1>1, <2>1
<1>4. k \in due /\ \A j \in due : k <= j
  BY <1>3
<1>5. (CHOOSE i \in due : \A j \in due : i <= j) = k
  <2> DEFINE c == CHOOSE i \in due : \A j \in due : i <= j
  <2>1. c \in due /\ \A j \in due : c <= j
    BY <1>4, Zenon
  <2> QED BY <1>3, <1>4, <2>1
<1>6. due # {}
  BY <1>4
<1> QED BY <1>5, <1>6, Zenon DEF Current

LEMMA NoneCurrent == ASSUME changed \subseteq done PROVE Current = "none"
BY DEF Current

LEMMA AfterSevenIs ==
  ASSUME changed = Settings, NEW k \in 1 .. 5, done = Done[k]
  PROVE  AfterSeven = IF k < 3 THEN "ONE" ELSE "TWO"
<1>1. Current = Order[k]
  BY CurrentIs
<1>2. /\ Order[1] = "n" /\ Order[2] = "m" /\ Order[3] = "c" /\ Order[4] = "bw" /\ Order[5] = "cp"
      /\ Done[1] = {} /\ Done[2] = {"n"} /\ Done[3] = {"n", "m"} /\ Done[4] = {"n", "m", "c"}
      /\ Done[5] = {"n", "m", "c", "bw"}
  BY DEF Order, Done
<1> DEFINE unfinished == changed \ {Current}
<1>3. AfterSeven = IF {"m", "c"} \cap (unfinished \ done) # {} THEN "ONE"
                   ELSE IF {"bw", "cp"} \cap unfinished # {} THEN "TWO" ELSE "DONE"
  BY DEF AfterSeven
<1>4. /\ k < 3 => "c" \in {"m", "c"} \cap (unfinished \ done)
      /\ k >= 3 => {"m", "c"} \cap (unfinished \ done) = {}
      /\ k < 5 => "cp" \in {"bw", "cp"} \cap unfinished
      /\ k = 5 => "bw" \in {"bw", "cp"} \cap unfinished
  BY <1>1, <1>2 DEF Settings, Counters
<1> HIDE DEF unfinished
<1> QED BY <1>3, <1>4

(***************************************************************************)
(* The invariant.                                                          *)
(***************************************************************************)
DprioStates == {"IDLE", "ONE", "TWO", "THREE", "FOUR", "FIVE", "SIX", "SEVEN", "DONE"}
Bit == {0, 1}

Typed ==
  /\ mode \in AllModes /\ virtual \in 0 .. 10 /\ elapsed \in 0 .. PERIOD
  /\ state \in 0 .. 8 /\ write_count \in 0 .. 2 /\ crowded \in BOOLEAN
  /\ mode_change \in Bit /\ pre_mode_button \in Bit /\ locked \in Bit
  /\ mgmt_read \in Bit /\ readdata \in Bit /\ dprio_start \in Bit
  /\ mode_change_d \in [1 .. 3 -> Bit]
  /\ slave_mode \in {"WR", "POLL"} /\ current_state \in {"IDLE", "WAIT_ON_LOCK", "LOCKED"}
  /\ current_read_state \in {"IDLE", "WAIT", "READ", "POST_WAIT"}
  /\ dprio_cur_state \in DprioStates
  /\ changed \subseteq Settings /\ done \subseteq Settings
  /\ mgmt_writedata \in AWord /\ usr \in [Settings -> AWord] /\ pll \in [Settings -> AWord]

(* mode_change on its way through the three flip-flops.                    *)
EdgeInv ==
  /\ elapsed = 0 => mode_change_d[1] = mode_change_d[2] /\ mode_change_d[2] = mode_change_d[3]
  /\ elapsed = 1 => mode_change_d[1] = mode_change /\ mode_change_d[2] = mode_change_d[3]
  /\ elapsed = 2 => mode_change_d[1] = mode_change /\ mode_change_d[2] = mode_change
  /\ elapsed >= 3 => \A i \in 1 .. 3 : mode_change_d[i] = mode_change
  /\ elapsed < 3 /\ mode_change = 1 /\ ~crowded => mode_change_d[3] = 0

(* What the controller puts on the bus, and when.                          *)
Wanted(s) ==
  CASE s \in {1, 7} -> Word(1)
    [] s = 2 -> ModeSettings(mode)["m"] [] s = 3 -> ModeSettings(mode)["n"]
    [] s = 4 -> ModeSettings(mode)["c"] [] s = 5 -> Word(6) [] s = 6 -> Word(3)

BusInv ==
  /\ mgmt_write = IF state \in 1 .. 7 /\ write_count = 1 THEN 1 ELSE 0
  /\ state \in {0, 8} => write_count = 0
  /\ mgmt_read = 1 => state = 8
  /\ state = 8 => elapsed >= 24 /\ (elapsed >= 25 => mgmt_read = 1)
  /\ state \in 1 .. 7 => /\ mgmt_address = Address[state] /\ mgmt_writedata = Wanted(state)
                        /\ elapsed = 3 * state + write_count

(* The status that the core reports once.                                  *)
ReadInv ==
  \/ current_read_state = "IDLE" /\ readdata = 0
  \/ /\ readdata = 1 /\ current_state = "IDLE"
     /\ \/ state = 8 /\ mgmt_read = 1 /\ current_read_state = "WAIT"
        \/ state = 0 /\ current_read_state \in {"READ", "POST_WAIT"}
        \/ state = 1 /\ write_count = 0 /\ current_read_state = "POST_WAIT"

(* The state of the core, by the controller's and the time.                *)
Started == state = 8 \/ (state = 7 /\ write_count = 2)
StateInv ==
  /\ slave_mode = "WR" => locked = 1 /\ state \in {0, 1} /\ write_count # 2
  /\ ~Started => current_state = "IDLE"
  /\ waiting => elapsed <= 56 \/ elapsed <= LOCK + 1
  /\ current_state = "LOCKED" => state = 8 /\ elapsed >= 57 /\ (elapsed <= 57 \/ elapsed <= LOCK + 2)
  /\ Started /\ current_state = "IDLE"
       => state = 8 /\ readdata = 1 /\ elapsed >= 58 /\ (elapsed <= 58 \/ elapsed <= LOCK + 3)
  /\ elapsed > LOCK => locked = 1

(* The registers of the core while it does not write.                      *)
Past(s) == state > s \/ (state = s /\ write_count = 2)
StateOf == [r \in Settings |-> CASE r = "m" -> 2 [] r = "n" -> 3 [] r = "c" -> 4
                                 [] r = "bw" -> 5 [] r = "cp" -> 6]
Loaded == {r \in Settings : Past(StateOf[r])}
IdleInv ==
  ~waiting =>
    /\ dprio_cur_state = "IDLE" /\ done = {}
    /\ state = 8 => changed = {}
    /\ state # 8 => changed = Loaded
    /\ dprio_start = 0 <=> changed = {}
    /\ \A s \in changed : usr[s] = ModeSettings(mode)[s]
    /\ \E m \in AllModes : pll = ModeSettings(m)
    /\ ~crowded /\ (mode_change = 0 \/ elapsed >= 3) /\ state \in {0, 8} => pll = ModeSettings(mode)

(* The k-th setting is being written.                                      *)
Begin == <<24, 31, 38, 45, 50>>
Long == <<"ONE", "TWO", "THREE", "FOUR", "FIVE", "SIX", "SEVEN">>
Short == <<"TWO", "FOUR", "FIVE", "SIX", "SEVEN">>
Same(s, i) == pll[s][i] = usr[s][i]
Busy(k) ==
  /\ changed = Settings /\ done = Done[k] /\ dprio_start = 0
  /\ \A s \in done : pll[s] = usr[s]
  /\ \/ /\ k \in 1 .. 3
        /\ \E i \in 1 .. 7 : dprio_cur_state = Long[i] /\ elapsed = Begin[k] + i - 1
        /\ dprio_cur_state # "ONE" => Same(Order[k], 3) /\ Same(Order[k], 4)
        /\ dprio_cur_state = "SEVEN" => Same(Order[k], 2)
     \/ /\ k \in 4 .. 5
        /\ \E i \in 1 .. 5 : dprio_cur_state = Short[i] /\ elapsed = Begin[k] + i - 1

ToBegin ==
  /\ state = 7 /\ dprio_cur_state = "IDLE" /\ dprio_start = 1
  /\ changed = Settings /\ done = {} /\ elapsed = 23
AllWritten ==
  /\ dprio_start = 0 /\ changed = Settings /\ done = Settings /\ pll = usr
  /\ \/ dprio_cur_state = "TWO" /\ elapsed = 55
     \/ dprio_cur_state = "IDLE" /\ elapsed = 56
ToLock ==
  /\ dprio_start = 0 /\ changed = {} /\ done = {} /\ pll = usr
  /\ dprio_cur_state = "IDLE" /\ elapsed >= 57
WaitingInv ==
  waiting =>
    /\ usr = ModeSettings(mode)
    /\ ToBegin \/ (state = 8 /\ ((\E k \in 1 .. 5 : Busy(k)) \/ AllWritten \/ ToLock))

PllInv == Typed /\ EdgeInv /\ BusInv /\ ReadInv /\ StateInv /\ IdleInv /\ WaitingInv

LEMMA PllInit == Init => PllInv
<1> SUFFICES ASSUME Init PROVE PllInv
  OBVIOUS
<1> USE PeriodAssumption
<1>1. LastMode \in AllModes
  BY DEF LastMode, AllModes
<1>2. Word(0) \in AWord /\ ModeSettings(LastMode) \in [Settings -> AWord]
  BY <1>1, WordIsWord, SettingsAreWords
<1>3. Typed
  <2>1. mode_change_d \in [1 .. 3 -> Bit]
    BY DEF Init, Bit
  <2>2. usr \in [Settings -> AWord] /\ pll \in [Settings -> AWord] /\ mgmt_writedata \in AWord
    BY <1>2 DEF Init, CoreInit
  <2>3. 0 \in Bit /\ 1 \in Bit /\ "IDLE" \in DprioStates /\ 0 \in 0 .. PERIOD
    BY DEF Bit, DprioStates
  <2>4. crowded \in BOOLEAN
    BY DEF Init
  <2>5. /\ mode \in AllModes /\ virtual \in 0 .. 10 /\ state \in 0 .. 8 /\ write_count \in 0 .. 2
        /\ elapsed \in 0 .. PERIOD
        /\ mode_change \in Bit /\ pre_mode_button \in Bit /\ mgmt_read \in Bit
    BY <1>1, <2>3 DEF Init
  <2>6. /\ locked \in Bit /\ readdata \in Bit /\ dprio_start \in Bit
        /\ dprio_cur_state \in DprioStates
    BY <2>3 DEF Init, CoreInit
  <2>7. /\ slave_mode \in {"WR", "POLL"} /\ current_state \in {"IDLE", "WAIT_ON_LOCK", "LOCKED"}
        /\ current_read_state \in {"IDLE", "WAIT", "READ", "POST_WAIT"}
        /\ changed \subseteq Settings /\ done \subseteq Settings
    BY DEF Init, CoreInit
  <2> QED BY <2>1, <2>2, <2>4, <2>5, <2>6, <2>7, Zenon DEF Typed
<1>4. EdgeInv
  BY DEF Init, EdgeInv
<1>5. BusInv /\ ReadInv
  BY DEF Init, CoreInit, BusInv, ReadInv
<1>6. StateInv
  BY DEF Init, CoreInit, StateInv, Started, waiting
<1>7. IdleInv
  <2>1. Loaded = {}
    BY DEF Init, Loaded, Past, StateOf, Settings, Counters
  <2> QED BY <1>1, <2>1 DEF Init, CoreInit, IdleInv
<1>8. WaitingInv
  BY DEF Init, CoreInit, WaitingInv, waiting
<1> QED BY <1>3, <1>4, <1>5, <1>6, <1>7, <1>8 DEF PllInv

(* At the end of a period everything is at rest.                           *)
LEMMA AtRest ==
  ASSUME PllInv, elapsed = PERIOD PROVE state = 0 /\ ~waiting /\ changed = {}
<1> USE PeriodAssumption
<1>1. state \notin 1 .. 7
  BY DEF PllInv, BusInv, Typed
<1>2. state # 8
  BY DEF PllInv, StateInv, Started, Typed, waiting
<1>3. state = 0
  BY <1>1, <1>2 DEF PllInv, Typed
<1>4. current_state = "IDLE"
  BY <1>3 DEF PllInv, StateInv, Started
<1>5. Loaded = {}
  BY <1>3 DEF Loaded, Past, StateOf, Settings, Counters
<1> QED BY <1>3, <1>4, <1>5 DEF PllInv, IdleInv, waiting

LEMMA LookStep ==
  ASSUME PllInv, NEW mode_button \in {0, 1}, Look(mode_button) PROVE PllInv'
<1> USE PeriodAssumption
<1> DEFINE change == (mode_button = 1 /\ pre_mode_button = 0) \/ virtual = 9
<1>1. /\ elapsed = PERIOD /\ elapsed' = 0
      /\ virtual' = IF virtual < 10 THEN virtual + 1 ELSE virtual
      /\ pre_mode_button' = mode_button
      /\ mode_change' = IF change THEN 1 ELSE 0
      /\ mode' = IF change THEN NextMode(mode) ELSE mode
      /\ crowded' = IF change THEN mode_change = 1 ELSE crowded
  BY DEF Look
<1>2. /\ UNCHANGED <<slave_mode, current_state, dprio_cur_state, dprio_start, usr, changed, done,
           current_read_state, readdata, pll, locked>>
      /\ UNCHANGED <<mgmt_address, mgmt_write, mgmt_writedata, mgmt_read>>
      /\ UNCHANGED <<mode_change_d, state, write_count>>
  BY DEF Look, core, bus, controller
<1>3. state = 0 /\ ~waiting /\ changed = {} /\ current_state = "IDLE"
  BY <1>1, AtRest DEF PllInv, StateInv, Started
<1>4. NextMode(mode) \in AllModes
  BY DEF NextMode, AllModes, LastMode, PllInv, Typed
<1> HIDE DEF change
<1>5. mode' \in AllModes /\ mode_change' \in Bit /\ virtual' \in 0 .. 10 /\ pre_mode_button' \in Bit
      /\ crowded' \in BOOLEAN /\ elapsed' \in 0 .. PERIOD
  <2>1. mode \in AllModes /\ mode_change \in Bit /\ virtual \in 0 .. 10 /\ crowded \in BOOLEAN
    BY DEF PllInv, Typed
  <2>2. mode' \in AllModes
    BY <1>1, <1>4, <2>1
  <2>3. crowded' \in BOOLEAN
    BY <1>1, <2>1
  <2> QED BY <1>1, <2>1, <2>2, <2>3 DEF Bit
<1>6. Typed'
  BY <1>2, <1>5 DEF PllInv, Typed
<1>7. \A i \in 1 .. 3 : mode_change_d[i] = mode_change
  BY <1>1 DEF PllInv, EdgeInv
<1>8. EdgeInv'
  <2>1. mode_change' = 1 /\ ~crowded' => mode_change_d[3] = 0
    BY <1>1, <1>5, <1>7 DEF PllInv, Typed, Bit
  <2> QED BY <1>1, <1>2, <1>7, <2>1 DEF EdgeInv
<1>9. BusInv' /\ ReadInv'
  BY <1>2, <1>3 DEF PllInv, BusInv, ReadInv
<1>10. StateInv'
  BY <1>1, <1>2, <1>3 DEF PllInv, StateInv, Started, waiting
<1>11. IdleInv'
  <2>1. Loaded' = {}
    BY <1>2, <1>3 DEF Loaded, Past, StateOf, Settings, Counters
  <2>2. ~crowded' /\ (mode_change' = 0 \/ elapsed' >= 3) => ~crowded /\ mode' = mode
    BY <1>1
  <2>3. /\ dprio_cur_state = "IDLE" /\ done = {} /\ dprio_start = 0
        /\ \E m \in AllModes : pll = ModeSettings(m)
        /\ ~crowded => pll = ModeSettings(mode)
    BY <1>1, <1>3 DEF PllInv, IdleInv
  <2> QED BY <1>2, <1>3, <2>1, <2>2, <2>3 DEF IdleInv
<1>12. WaitingInv'
  BY <1>2, <1>3 DEF WaitingInv, waiting
<1> QED BY <1>6, <1>8, <1>9, <1>10, <1>11, <1>12 DEF PllInv

(***************************************************************************)
(* The controller.                                                         *)
(***************************************************************************)
LEMMA WantedIsWord ==
  ASSUME mode \in AllModes, NEW s \in 1 .. 7 PROVE Wanted(s) \in AWord
<1>1. ModeSettings(mode) \in [Settings -> AWord] /\ {"m", "n", "c"} \subseteq Settings
  BY SettingsAreWords DEF Settings, Counters
<1>2. Word(1) \in AWord /\ Word(3) \in AWord /\ Word(6) \in AWord
  BY WordIsWord
<1>3. CASE s \in {1, 7} BY <1>2, <1>3 DEF Wanted
<1>4. CASE s \in {2, 3, 4} BY <1>1, <1>4 DEF Wanted
<1>5. CASE s \in {5, 6} BY <1>2, <1>5 DEF Wanted
<1> QED BY <1>3, <1>4, <1>5

LEMMA PresentIs ==
  ASSUME Typed, NEW s \in 1 .. 8, Present(s)
  PROVE  /\ mgmt_address' = Address[s] /\ mgmt_writedata' \in AWord
         /\ s \in 1 .. 7 => mgmt_writedata' = Wanted(s)
<1>1. mgmt_address' = Address[s]
  BY DEF Present
<1>2. mgmt_writedata' =
       CASE s \in {1, 7} -> Word(1)
         [] s = 2 -> ModeSettings(mode)["m"]
         [] s = 3 -> ModeSettings(mode)["n"]
         [] s = 4 -> ModeSettings(mode)["c"]
         [] s = 5 -> Word(6) [] s = 6 -> Word(3)
         [] s = 8 -> mgmt_writedata
  BY DEF Present
<1>3. ASSUME s \in 1 .. 7 PROVE mgmt_writedata' = Wanted(s)
  BY <1>2, <1>3 DEF Wanted
<1>4. ASSUME s = 8 PROVE mgmt_writedata' = mgmt_writedata
  BY <1>2, <1>4
<1> QED BY <1>1, <1>3, <1>4, WantedIsWord DEF Typed

(* mode_change is noticed in the third clock after the look.               *)
LEMMA Noticed ==
  ASSUME Typed, EdgeInv
  PROVE  /\ mode_change_d[3] = 0 /\ mode_change_d[2] = 1 => elapsed = 2
         /\ ~crowded /\ mode_change = 1 /\ elapsed = 2
              => mode_change_d[3] = 0 /\ mode_change_d[2] = 1
<1>1. elapsed \in Nat
  BY PeriodAssumption DEF Typed
<1>2. elapsed = 0 \/ elapsed = 1 \/ elapsed = 2 \/ elapsed >= 3
  BY <1>1
<1>3. elapsed >= 3 => mode_change_d[3] = mode_change_d[2]
  BY DEF EdgeInv
<1> QED BY <1>2, <1>3 DEF EdgeInv

LEMMA EdgeClock == ASSUME Typed, EdgeInv, Clock PROVE EdgeInv'
<1>1. /\ elapsed' = elapsed + 1 /\ mode_change_d' = <<mode_change, mode_change_d[1], mode_change_d[2]>>
      /\ mode_change' = mode_change /\ crowded' = crowded
  BY DEF Clock, chooser
<1>2. elapsed \in Nat
  BY PeriodAssumption DEF Typed
<1>3. /\ mode_change_d'[1] = mode_change /\ mode_change_d'[2] = mode_change_d[1]
      /\ mode_change_d'[3] = mode_change_d[2]
  BY <1>1
<1>4. CASE elapsed = 0
  BY <1>1, <1>3, <1>4 DEF EdgeInv
<1>5. CASE elapsed = 1
  BY <1>1, <1>3, <1>5 DEF EdgeInv
<1>6. CASE elapsed = 2
  <2>1. \A i \in 1 .. 3 : mode_change_d'[i] = mode_change
    BY <1>3, <1>6 DEF EdgeInv
  <2> QED BY <1>1, <1>6, <2>1 DEF EdgeInv
<1>7. CASE elapsed >= 3
  <2>1. \A i \in 1 .. 3 : mode_change_d'[i] = mode_change
    BY <1>3, <1>7 DEF EdgeInv
  <2> QED BY <1>1, <1>2, <1>7, <2>1 DEF EdgeInv
<1> QED BY <1>2, <1>4, <1>5, <1>6, <1>7

(* A clock of the controller.                                              *)
LEMMA Moves ==
  ASSUME Typed, EdgeInv, BusInv, Clock
  PROVE  /\ elapsed' = elapsed + 1 /\ elapsed \in Nat /\ elapsed < PERIOD
         /\ UNCHANGED <<mode, mode_change, pre_mode_button, virtual, crowded>>
         /\ \/ state = 0 /\ state' = 0 /\ write_count' = 0 /\ write_count = 0
               /\ ~(mode_change_d[3] = 0 /\ mode_change_d[2] = 1)
            \/ state = 0 /\ state' = 1 /\ write_count' = 0 /\ write_count = 0 /\ elapsed = 2
            \/ state \in 1 .. 7 /\ write_count \in {0, 1} /\ state' = state
               /\ write_count' = write_count + 1
            \/ state \in 1 .. 7 /\ write_count = 2 /\ state' = state + 1 /\ write_count' = 0
            \/ state = 8 /\ write_count = 0 /\ write_count' = 0
               /\ state' = IF mgmt_read = 1 /\ readdata = 1 THEN 0 ELSE 8
<1>1. /\ elapsed' = elapsed + 1 /\ elapsed \in Nat /\ elapsed < PERIOD
      /\ UNCHANGED <<mode, mode_change, pre_mode_button, virtual, crowded>>
      /\ Notice \/ WriteRegister \/ CheckStatus
  BY PeriodAssumption DEF Clock, chooser, Typed
<1>2. CASE Notice
  BY <1>1, <1>2, Noticed DEF Notice, BusInv
<1>3. CASE WriteRegister
  BY <1>1, <1>3 DEF WriteRegister, Typed
<1>4. CASE CheckStatus
  BY <1>1, <1>4 DEF CheckStatus, BusInv
<1> QED BY <1>1, <1>2, <1>3, <1>4

LEMMA BusClock ==
  ASSUME Typed, EdgeInv, BusInv, Clock
  PROVE  BusInv' /\ mgmt_writedata' \in AWord /\ mgmt_read' \in Bit
<1>1. /\ elapsed' = elapsed + 1 /\ elapsed \in Nat
      /\ UNCHANGED <<mode, mode_change, pre_mode_button, virtual, crowded>>
      /\ Notice \/ WriteRegister \/ CheckStatus
  BY PeriodAssumption DEF Clock, chooser, Typed
<1>2. state \in 0 .. 8 /\ write_count \in 0 .. 2 /\ mgmt_read \in Bit /\ mgmt_writedata \in AWord
  BY DEF Typed
<1>3. \A s \in 1 .. 7 : Wanted(s)' = Wanted(s)
  BY <1>1 DEF Wanted
<1>4. CASE Notice
  <2>1. state = 0 /\ write_count = 0 /\ write_count' = 0 /\ mgmt_write' = 0 /\ mgmt_read' = 0
        /\ mgmt_read = 0
    BY <1>2, <1>4 DEF Notice, BusInv, Bit
  <2>2. CASE mode_change_d[3] = 0 /\ mode_change_d[2] = 1
    <3>1. state' = 1 /\ Present(1) /\ elapsed = 2
      BY <1>4, <2>2, Noticed DEF Notice
    <3>2. mgmt_address' = Address[1] /\ mgmt_writedata' \in AWord /\ mgmt_writedata' = Wanted(1)
      BY <3>1, PresentIs
    <3> QED BY <1>1, <1>3, <2>1, <3>1, <3>2 DEF BusInv, Bit
  <2>3. CASE ~(mode_change_d[3] = 0 /\ mode_change_d[2] = 1)
    <3>1. state' = 0 /\ mgmt_writedata' = mgmt_writedata
      BY <1>4, <2>1, <2>3 DEF Notice
    <3> QED BY <1>2, <2>1, <3>1 DEF BusInv, Bit
  <2> QED BY <2>2, <2>3
<1>5. CASE WriteRegister
  <2>1. /\ state \in 1 .. 7 /\ mgmt_read' = mgmt_read /\ mgmt_read = 0
        /\ mgmt_write' = IF write_count = 0 THEN 1 ELSE 0
        /\ mgmt_address = Address[state] /\ mgmt_writedata = Wanted(state)
        /\ elapsed = 3 * state + write_count
    BY <1>2, <1>5 DEF WriteRegister, BusInv, Bit
  <2>2. CASE write_count = 2
    <3>1. state' = state + 1 /\ write_count' = 0 /\ Present(state + 1) /\ mgmt_write' = 0
      BY <1>5, <2>1, <2>2 DEF WriteRegister
    <3>2. state + 1 \in 1 .. 8
      BY <2>1
    <3>3. mgmt_address' = Address[state + 1] /\ mgmt_writedata' \in AWord
          /\ (state + 1 \in 1 .. 7 => mgmt_writedata' = Wanted(state + 1))
      BY <3>1, <3>2, PresentIs
    <3>4. elapsed' = 3 * (state + 1) + 0 /\ (state + 1 = 8 => elapsed' = 24)
      BY <1>1, <2>1, <2>2
    <3> QED BY <1>1, <1>3, <2>1, <3>1, <3>2, <3>3, <3>4 DEF BusInv, Bit
  <2>3. CASE write_count # 2
    <3>1. state' = state /\ write_count' = write_count + 1 /\ UNCHANGED <<mgmt_address, mgmt_writedata>>
      BY <1>5, <2>3 DEF WriteRegister
    <3>2. mgmt_write' = IF write_count' = 1 THEN 1 ELSE 0
      BY <1>2, <2>1, <2>3, <3>1
    <3> QED BY <1>1, <1>2, <1>3, <2>1, <3>1, <3>2 DEF BusInv, Bit
  <2> QED BY <2>2, <2>3
<1>6. CASE CheckStatus
  <2>1. /\ state = 8 /\ write_count = 0 /\ write_count' = 0 /\ mgmt_write' = 0 /\ elapsed >= 24
        /\ mgmt_writedata' = mgmt_writedata
        /\ (mgmt_read' = 0 /\ state' = 0) \/ (mgmt_read' = 1 /\ state' = 8)
    BY <1>6 DEF CheckStatus, BusInv
  <2> QED BY <1>1, <1>2, <2>1 DEF BusInv, Bit
<1> QED BY <1>1, <1>4, <1>5, <1>6

(***************************************************************************)
(* The bus between them.                                                   *)
(***************************************************************************)
LEMMA WritesAreAccepted ==
  ASSUME Typed, BusInv, StateInv, mgmt_write = 1
  PROVE  ~slave_waitrequest /\ current_state = "IDLE"
<1>1. state \in 1 .. 7 /\ write_count = 1
  BY DEF BusInv
<1>2. current_state = "IDLE"
  BY <1>1 DEF StateInv, Started
<1>3. slave_mode = "WR" => locked = 1
  BY DEF StateInv
<1> QED BY <1>2, <1>3 DEF slave_waitrequest, waiting

LEMMA WhatIsWritten ==
  ASSUME Typed, BusInv, StateInv
  PROVE  /\ Accepted <=> state \in 1 .. 7 /\ write_count = 1
         /\ Accepted /\ mgmt_address = 0 <=> state = 1 /\ write_count = 1
         /\ Accepted /\ mgmt_address = 2 <=> state = 7 /\ write_count = 1
         /\ Written = {r \in Settings : StateOf[r] = state /\ write_count = 1}
<1>1. Accepted <=> state \in 1 .. 7 /\ write_count = 1
  BY WritesAreAccepted DEF Accepted, BusInv
<1>2. /\ Address[1] = 0 /\ Address[2] = 4 /\ Address[3] = 3 /\ Address[4] = 5 /\ Address[5] = 8
      /\ Address[6] = 9 /\ Address[7] = 2
  BY DEF Address
<1>3. state \in 1 .. 7 => mgmt_address = Address[state]
  BY DEF BusInv
<1>4. state \in 0 .. 8
  BY DEF Typed
<1>5. /\ Accepted /\ mgmt_address = 0 <=> state = 1 /\ write_count = 1
      /\ Accepted /\ mgmt_address = 2 <=> state = 7 /\ write_count = 1
  BY <1>1, <1>2, <1>3, <1>4
<1>6. /\ DOMAIN RegisterOf = {3, 4, 5, 8, 9}
      /\ RegisterOf[3] = "n" /\ RegisterOf[4] = "m" /\ RegisterOf[5] = "c"
      /\ RegisterOf[8] = "bw" /\ RegisterOf[9] = "cp"
  BY DEF RegisterOf
<1>7. /\ StateOf["m"] = 2 /\ StateOf["n"] = 3 /\ StateOf["c"] = 4 /\ StateOf["bw"] = 5
      /\ StateOf["cp"] = 6
  BY DEF StateOf, Settings, Counters
<1>8. Settings = {"m", "n", "c", "bw", "cp"}
  BY DEF Settings, Counters
<1>9. CASE ~Accepted
  BY <1>1, <1>7, <1>8, <1>9 DEF Written
<1>10. CASE Accepted
  <2>1. state \in {1, 2, 3, 4, 5, 6, 7} /\ write_count = 1
    BY <1>1, <1>10
  <2>2. CASE state = 1 BY <1>2, <1>3, <1>6, <1>7, <1>8, <1>10, <2>1, <2>2 DEF Written
  <2>3. CASE state = 2 BY <1>2, <1>3, <1>6, <1>7, <1>8, <1>10, <2>1, <2>3 DEF Written
  <2>4. CASE state = 3 BY <1>2, <1>3, <1>6, <1>7, <1>8, <1>10, <2>1, <2>4 DEF Written
  <2>5. CASE state = 4 BY <1>2, <1>3, <1>6, <1>7, <1>8, <1>10, <2>1, <2>5 DEF Written
  <2>6. CASE state = 5 BY <1>2, <1>3, <1>6, <1>7, <1>8, <1>10, <2>1, <2>6 DEF Written
  <2>7. CASE state = 6 BY <1>2, <1>3, <1>6, <1>7, <1>8, <1>10, <2>1, <2>7 DEF Written
  <2>8. CASE state = 7 BY <1>2, <1>3, <1>6, <1>7, <1>8, <1>10, <2>1, <2>8 DEF Written
  <2> QED BY <2>1, <2>2, <2>3, <2>4, <2>5, <2>6, <2>7, <2>8
<1> QED BY <1>1, <1>5, <1>9, <1>10

(* While the core waits for the PLL nothing is written to it.              *)
LEMMA NothingWritten ==
  ASSUME Typed, BusInv, StateInv, Started
  PROVE  Written = {} /\ ~(Accepted /\ mgmt_address \in {0, 2})
<1>1. StateOf \in [Settings -> 2 .. 6]
  BY DEF StateOf, Settings, Counters
<1> QED BY <1>1, WhatIsWritten DEF Started

LEMMA StatusRead ==
  ASSUME Typed, BusInv, ReadInv, StateInv
  PROVE  /\ current_state = "LOCKED" => status_read
         /\ current_state # "LOCKED" => ~status_read
<1>1. CASE current_state = "LOCKED"
  <2>1. state = 8 /\ elapsed >= 57 /\ current_read_state = "IDLE"
    BY <1>1 DEF StateInv, ReadInv
  <2>2. elapsed \in Nat
    BY PeriodAssumption DEF Typed
  <2>3. mgmt_read = 1
    BY <2>1, <2>2 DEF BusInv
  <2> QED BY <1>1, <2>1, <2>3 DEF status_read, waiting
<1>2. CASE current_state = "WAIT_ON_LOCK"
  BY <1>2 DEF status_read, waiting
<1>3. CASE current_state = "IDLE"
  <2>1. ASSUME status_read PROVE FALSE
    <3>1. mgmt_read = 1 /\ current_read_state = "IDLE"
      BY <2>1 DEF status_read
    <3>2. state = 8 /\ readdata = 0
      BY <3>1 DEF BusInv, ReadInv
    <3> QED BY <1>3, <3>2 DEF StateInv, Started
  <2> QED BY <1>3, <2>1
<1> QED BY <1>1, <1>2, <1>3 DEF Typed

LEMMA ReadClock ==
  ASSUME Typed, EdgeInv, BusInv, ReadInv, StateInv, Clock
  PROVE  /\ ReadInv'
         /\ current_read_state' \in {"IDLE", "WAIT", "READ", "POST_WAIT"} /\ readdata' \in Bit
         /\ readdata' = 1 /\ readdata = 0 => current_state = "LOCKED"
         /\ current_state = "LOCKED" => readdata' = 1 /\ readdata = 0
<1>1. /\ current_read_state' =
           CASE current_read_state = "IDLE" -> IF status_read THEN "WAIT" ELSE "IDLE"
             [] current_read_state = "WAIT" -> "READ"
             [] current_read_state = "READ" -> "POST_WAIT"
             [] current_read_state = "POST_WAIT" -> "IDLE"
      /\ readdata' =
           CASE status_read -> IF slave_mode = "POLL" /\ current_state = "LOCKED" THEN 1 ELSE 0
             [] current_read_state \in {"WAIT", "READ"} -> readdata
             [] OTHER -> 0
      /\ MainStates
  BY DEF Clock, CoreClock, ReadStates
<1>2. CASE current_state = "LOCKED"
  <2>1. state = 8 /\ current_read_state = "IDLE" /\ readdata = 0 /\ slave_mode = "POLL" /\ status_read
        /\ elapsed >= 57
    BY <1>2, StatusRead DEF StateInv, ReadInv, Typed
  <2>2. current_read_state' = "WAIT" /\ readdata' = 1
    BY <1>1, <1>2, <2>1
  <2>3. current_state' = "IDLE"
    BY <1>1, <1>2, <2>1 DEF MainStates, waiting
  <2>4. state' = 8
    BY <2>1, Moves
  <2>5. elapsed' >= 25
    BY <2>1, Moves
  <2>6. mgmt_read' = 1
    BY <2>4, <2>5, BusClock DEF BusInv
  <2> QED BY <1>2, <2>1, <2>2, <2>3, <2>4, <2>6 DEF ReadInv, Bit
<1>3. CASE current_state # "LOCKED"
  <2>1. ~status_read
    BY <1>3, StatusRead
  <2>2. CASE current_read_state = "IDLE" /\ readdata = 0
    BY <1>1, <1>3, <2>1, <2>2 DEF ReadInv, Bit
  <2>3. CASE readdata = 1 /\ current_state = "IDLE" /\ current_read_state # "IDLE"
    <3>1. current_state' = "IDLE"
      <4>1. ~(state = 7 /\ write_count = 1)
        BY <2>3 DEF ReadInv
      <4>2. ~(Accepted /\ mgmt_address = 2)
        BY <4>1, WhatIsWritten
      <4> QED BY <1>1, <2>3, <4>2 DEF MainStates, waiting
    <3>2. CASE current_read_state = "WAIT"
      <4>1. state = 8 /\ mgmt_read = 1
        BY <2>3, <3>2 DEF ReadInv
      <4>2. state' = 0
        BY <2>3, <4>1, Moves
      <4> QED BY <1>1, <1>3, <2>1, <2>3, <3>1, <3>2, <4>2 DEF ReadInv, Bit
    <3>3. CASE current_read_state = "READ"
      <4>1. state = 0
        BY <2>3, <3>3 DEF ReadInv
      <4>2. state' = 0 \/ (state' = 1 /\ write_count' = 0)
        BY <4>1, Moves
      <4> QED BY <1>1, <1>3, <2>1, <2>3, <3>1, <3>3, <4>2 DEF ReadInv, Bit
    <3>4. CASE current_read_state = "POST_WAIT"
      BY <1>1, <1>3, <2>1, <2>3, <3>4 DEF ReadInv, Bit
    <3> QED BY <2>3, <3>2, <3>3, <3>4 DEF Typed
  <2> QED BY <2>2, <2>3 DEF ReadInv
<1> QED BY <1>2, <1>3

(* The core that does not write only stores what it is sent.               *)
LEMMA CoreIdles ==
  ASSUME PllInv, Clock, ~waiting
  PROVE  /\ pll' = pll /\ dprio_cur_state' = "IDLE" /\ done' = {}
         /\ changed' = changed \cup Written
         /\ dprio_start' = 0 <=> changed' = {}
         /\ dprio_start' \in Bit
         /\ usr' = [s \in Settings |-> IF s \in Written THEN mgmt_writedata ELSE usr[s]]
         /\ current_state' = IF state = 7 /\ write_count = 1 THEN "WAIT_ON_LOCK" ELSE "IDLE"
<1>0. Typed /\ EdgeInv /\ BusInv /\ ReadInv /\ StateInv /\ IdleInv /\ Registers /\ MainStates /\ WritePll
  BY DEF PllInv, Clock, CoreClock
<1>1. dprio_cur_state = "IDLE" /\ done = {} /\ (dprio_start = 0 <=> changed = {})
      /\ (state # 8 => changed = Loaded)
  BY <1>0 DEF IdleInv
<1>2. dprio_write_done <=> dprio_start = 0
  BY DEF dprio_write_done
<1>3. dprio_next_state = "IDLE"
  BY DEF dprio_next_state
<1>4. changed' = changed \cup Written
  <2>1. changed' = (IF dprio_write_done THEN {} ELSE changed) \cup Written
    BY <1>0 DEF Registers
  <2> QED BY <1>1, <1>2, <2>1
<1>5. done' = {}
  <2>1. done' = (IF dprio_write_done THEN {} ELSE done) \ Written
    BY <1>0 DEF Registers
  <2> QED BY <1>1, <2>1
<1>6. (dprio_start' = 0 <=> changed' = {}) /\ dprio_start' \in Bit
  <2>1. dprio_start' = IF Written # {} THEN 1 ELSE dprio_start
    BY <1>0, <1>3 DEF Registers
  <2>2. dprio_start \in Bit
    BY <1>0 DEF Typed
  <2>3. CASE Written = {}
    BY <1>1, <1>4, <2>1, <2>2, <2>3
  <2>4. CASE Written # {}
    <3>1. changed' # {} /\ dprio_start' = 1
      BY <1>4, <2>1, <2>4
    <3> QED BY <3>1 DEF Bit
  <2> QED BY <2>3, <2>4
<1>7. pll' = pll
  BY <1>0 DEF WritePll
<1>8. current_state' = IF state = 7 /\ write_count = 1 THEN "WAIT_ON_LOCK" ELSE "IDLE"
  <2>1. CASE current_state = "LOCKED"
    <3>1. status_read /\ state = 8
      BY <1>0, <2>1, StatusRead DEF StateInv
    <3> QED BY <1>0, <2>1, <3>1 DEF MainStates, waiting
  <2>2. CASE current_state = "IDLE"
    <3>1. current_state' = IF Accepted /\ mgmt_address = 2 /\ changed # {} THEN "WAIT_ON_LOCK" ELSE "IDLE"
      BY <1>0, <2>2 DEF MainStates
    <3>2. state = 7 => changed # {}
      <4>1. state = 7 => "m" \in Loaded
        BY DEF Loaded, Past, StateOf, Settings, Counters
      <4> QED BY <1>1, <4>1
    <3>3. Accepted /\ mgmt_address = 2 <=> state = 7 /\ write_count = 1
      BY <1>0, WhatIsWritten
    <3> QED BY <3>1, <3>2, <3>3
  <2> QED BY <1>0, <2>1, <2>2 DEF Typed, waiting
<1> QED BY <1>0, <1>1, <1>3, <1>4, <1>5, <1>6, <1>7, <1>8 DEF Registers

(* One write is stored when the controller goes on.                        *)
LEMMA LoadedClock ==
  ASSUME Typed, EdgeInv, BusInv, StateInv, Clock, state' # 8, state # 8
  PROVE  Loaded' = Loaded \cup Written
<1> DEFINE at(r) == StateOf[r]
<1>1. \A r \in Settings : StateOf[r] \in 2 .. 6
  BY DEF StateOf, Settings, Counters
<1>2. Written = {r \in Settings : StateOf[r] = state /\ write_count = 1}
  BY WhatIsWritten
<1>3. state \in 0 .. 8 /\ write_count \in 0 .. 2
  BY DEF Typed
<1>4. Loaded = {r \in Settings : state > StateOf[r] \/ (state = StateOf[r] /\ write_count = 2)}
      /\ Loaded' = {r \in Settings : state' > StateOf[r] \/ (state' = StateOf[r] /\ write_count' = 2)}
  BY DEF Loaded, Past
<1>5. ASSUME NEW r \in Settings
      PROVE  (state' > StateOf[r] \/ (state' = StateOf[r] /\ write_count' = 2))
             <=> \/ state > StateOf[r] \/ (state = StateOf[r] /\ write_count = 2)
                 \/ (StateOf[r] = state /\ write_count = 1)
  <2> DEFINE a == StateOf[r]
  <2>1. a \in 2 .. 6
    BY <1>1
  <2>2. \/ state = 0 /\ state' = 0 /\ write_count' = 0 /\ write_count = 0
        \/ state = 0 /\ state' = 1 /\ write_count' = 0 /\ write_count = 0
        \/ state \in 1 .. 7 /\ write_count \in {0, 1} /\ state' = state /\ write_count' = write_count + 1
        \/ state \in 1 .. 7 /\ write_count = 2 /\ state' = state + 1 /\ write_count' = 0
    BY Moves
  <2> HIDE DEF a
  <2>3. (state' > a \/ (state' = a /\ write_count' = 2))
             <=> \/ state > a \/ (state = a /\ write_count = 2)
                 \/ (a = state /\ write_count = 1)
    BY <1>3, <2>1, <2>2
  <2> QED BY <2>3 DEF a
<1> QED BY <1>2, <1>4, <1>5

(* What is stored is what the mode wants.                                  *)
LEMMA WantedIs ==
  ASSUME mode \in AllModes, NEW s \in Settings
  PROVE  Wanted(StateOf[s]) = ModeSettings(mode)[s]
<1>1. /\ StateOf["m"] = 2 /\ StateOf["n"] = 3 /\ StateOf["c"] = 4 /\ StateOf["bw"] = 5
      /\ StateOf["cp"] = 6 /\ s \in {"m", "n", "c", "bw", "cp"}
  BY DEF StateOf, Settings, Counters
<1>2. CASE s \in {"m", "n", "c"}
  BY <1>1, <1>2 DEF Wanted
<1>3. CASE s \in {"bw", "cp"}
  BY <1>1, <1>3, ModeSettingsAre DEF Wanted
<1> QED BY <1>1, <1>2, <1>3

LEMMA StoredClock ==
  ASSUME PllInv, Clock, ~waiting
  PROVE  \A s \in changed' : usr'[s] = ModeSettings(mode)[s]
<1>0. Typed /\ BusInv /\ StateInv /\ IdleInv
  BY DEF PllInv
<1>1. changed' = changed \cup Written /\ Written \subseteq Settings /\ changed \subseteq Settings
      /\ usr' = [s \in Settings |-> IF s \in Written THEN mgmt_writedata ELSE usr[s]]
      /\ \A s \in changed : usr[s] = ModeSettings(mode)[s]
  BY <1>0, CoreIdles, WhatIsWritten DEF Typed, IdleInv
<1>2. ASSUME NEW s \in Written PROVE mgmt_writedata = ModeSettings(mode)[s]
  <2>1. StateOf[s] = state /\ state \in 1 .. 7
    <3>1. StateOf[s] = state /\ s \in Settings /\ StateOf[s] \in 2 .. 6
      BY <1>0, WhatIsWritten DEF StateOf, Settings, Counters
    <3> QED BY <3>1
  <2>2. mgmt_writedata = Wanted(StateOf[s])
    BY <1>0, <2>1 DEF BusInv
  <2> QED BY <1>0, <1>1, <2>2, WantedIs DEF Typed
<1> QED BY <1>1, <1>2

LEMMA IdleClock ==
  ASSUME PllInv, Clock, ~waiting
  PROVE  /\ IdleInv' /\ WaitingInv'
         /\ changed' \subseteq Settings /\ done' \subseteq Settings /\ dprio_start' \in Bit
         /\ dprio_cur_state' \in DprioStates
         /\ usr' \in [Settings -> AWord] /\ pll' \in [Settings -> AWord]
<1>0. Typed /\ EdgeInv /\ BusInv /\ StateInv /\ IdleInv
  BY DEF PllInv
<1>1. /\ pll' = pll /\ dprio_cur_state' = "IDLE" /\ done' = {}
      /\ changed' = changed \cup Written
      /\ (dprio_start' = 0 <=> changed' = {}) /\ dprio_start' \in Bit
      /\ usr' = [s \in Settings |-> IF s \in Written THEN mgmt_writedata ELSE usr[s]]
      /\ current_state' = IF state = 7 /\ write_count = 1 THEN "WAIT_ON_LOCK" ELSE "IDLE"
      /\ \A s \in changed' : usr'[s] = ModeSettings(mode)[s]
  BY CoreIdles, StoredClock
<1>2. /\ mode' = mode /\ crowded' = crowded /\ mode_change' = mode_change /\ elapsed' = elapsed + 1
      /\ elapsed \in Nat /\ mode \in AllModes
  BY <1>0, Moves DEF Typed
<1>3. changed' \subseteq Settings
  BY <1>0, <1>1, WhatIsWritten DEF Typed
<1>4. usr' \in [Settings -> AWord] /\ pll' \in [Settings -> AWord] /\ "IDLE" \in DprioStates
  BY <1>0, <1>1 DEF Typed, DprioStates
<1>5. state # 8 => state' # 8
  <2>1. ASSUME state = 7, write_count = 2 PROVE FALSE
    <3>1. Started /\ state # 8
      BY <2>1 DEF Started
    <3>2. current_state # "IDLE" /\ current_state # "LOCKED"
      BY <1>0, <3>1 DEF StateInv
    <3> QED BY <1>0, <3>2 DEF Typed, waiting
  <2>2. state \in 0 .. 8
    BY <1>0 DEF Typed
  <2> QED BY <1>0, <2>1, <2>2, Moves
<1>6. CASE state = 8
  <2>1. Written = {} /\ state' \in {0, 8} /\ changed' = {}
    <3>1. Written = {}
      BY <1>0, <1>6, NothingWritten DEF Started
    <3>2. state' \in {0, 8}
      BY <1>0, <1>6, Moves
    <3> QED BY <1>0, <1>1, <1>6, <3>1, <3>2 DEF IdleInv
  <2>2. current_state' = "IDLE"
    BY <1>1, <1>6
  <2>3. state' # 8 => Loaded' = {}
    BY <2>1 DEF Loaded, Past, StateOf, Settings, Counters
  <2>4. elapsed >= 24 /\ \E m \in AllModes : pll = ModeSettings(m)
    BY <1>0, <1>6 DEF BusInv, IdleInv
  <2>5. ~crowded => pll = ModeSettings(mode)
    BY <1>0, <1>2, <1>6, <2>4 DEF IdleInv
  <2>6. IdleInv'
    BY <1>1, <1>2, <2>1, <2>3, <2>4, <2>5 DEF IdleInv
  <2>7. WaitingInv'
    BY <2>2 DEF WaitingInv, waiting
  <2> QED BY <1>1, <1>3, <1>4, <2>6, <2>7
<1>7. CASE state # 8
  <2>1. state' # 8 /\ changed = Loaded /\ changed' = Loaded'
    BY <1>0, <1>1, <1>5, <1>7, LoadedClock DEF IdleInv
  <2>2. \E m \in AllModes : pll = ModeSettings(m)
    BY <1>0 DEF IdleInv
  <2>3. ~crowded /\ (mode_change = 0 \/ elapsed + 1 >= 3) /\ state' = 0 => pll = ModeSettings(mode)
    <3>1. state' = 0 => state = 0 /\ ~(mode_change_d[3] = 0 /\ mode_change_d[2] = 1)
      BY <1>0, <1>7, Moves DEF Typed
    <3>2. ~crowded /\ mode_change = 1 /\ elapsed = 2 => mode_change_d[3] = 0 /\ mode_change_d[2] = 1
      BY <1>0, Noticed
    <3>3. elapsed + 1 >= 3 => elapsed = 2 \/ elapsed >= 3
      BY <1>2
    <3>4. mode_change = 0 \/ mode_change = 1
      BY <1>0 DEF Typed, Bit
    <3> QED BY <1>0, <3>1, <3>2, <3>3, <3>4 DEF IdleInv
  <2>4. IdleInv'
    BY <1>1, <1>2, <2>1, <2>2, <2>3 DEF IdleInv
  <2>5. WaitingInv'
    <3>1. CASE ~(state = 7 /\ write_count = 1)
      BY <1>1, <3>1 DEF WaitingInv, waiting
    <3>2. CASE state = 7 /\ write_count = 1
      <4>1. state' = 7 /\ elapsed' = 23
        BY <1>0, <1>2, <3>2, Moves DEF BusInv
      <4>2. changed' = Settings
        <5>1. Loaded = Settings
          BY <3>2 DEF Loaded, Past, StateOf, Settings, Counters
        <5> QED BY <1>1, <1>3, <2>1, <5>1
      <4>3. usr' = ModeSettings(mode)
        <5>1. ModeSettings(mode) \in [Settings -> AWord]
          BY <1>2, SettingsAreWords
        <5> QED BY <1>1, <1>4, <4>2, <5>1
      <4>4. dprio_start' = 1
        <5>1. changed' # {}
          BY <4>2 DEF Settings, Counters
        <5> QED BY <1>1, <5>1 DEF Bit
      <4>5. ToBegin'
        BY <1>1, <4>1, <4>2, <4>4 DEF ToBegin
      <4>6. usr' = ModeSettings(mode)'
        BY <1>2, <4>3
      <4> QED BY <4>5, <4>6 DEF WaitingInv
    <3> QED BY <3>1, <3>2
  <2> QED BY <1>1, <1>3, <1>4, <2>4, <2>5
<1> QED BY <1>6, <1>7

(* The accesses to a setting of the PLL.                                   *)
Two(p, c, w) == [p EXCEPT ![c][3] = w[3], ![c][4] = w[4]]
Second(p, c, w) == [p EXCEPT ![c][2] = w[2]]
First(p, c, w) == [p EXCEPT ![c][1] = w[1]]

LEMMA WriteTwo ==
  ASSUME NEW p \in [Settings -> AWord], NEW c \in Settings, NEW w \in AWord,
         NEW q, q = Two(p, c, w)
  PROVE  /\ q \in [Settings -> AWord] /\ q[c][3] = w[3] /\ q[c][4] = w[4]
         /\ \A s \in Settings : s # c => q[s] = p[s]
BY DEF AWord, Two

LEMMA WriteSecond ==
  ASSUME NEW p \in [Settings -> AWord], NEW c \in Settings, NEW w \in AWord,
         NEW q, q = Second(p, c, w)
  PROVE  /\ q \in [Settings -> AWord] /\ q[c][2] = w[2]
         /\ q[c][3] = p[c][3] /\ q[c][4] = p[c][4]
         /\ \A s \in Settings : s # c => q[s] = p[s]
BY DEF AWord, Second

LEMMA WriteFirst ==
  ASSUME NEW p \in [Settings -> AWord], NEW c \in Settings, NEW w \in AWord,
         NEW q, q = First(p, c, w),
         p[c][2] = w[2], p[c][3] = w[3], p[c][4] = w[4]
  PROVE  /\ q \in [Settings -> AWord] /\ q[c] = w
         /\ \A s \in Settings : s # c => q[s] = p[s]
<1>1. q \in [Settings -> AWord] /\ \A s \in Settings : s # c => q[s] = p[s]
  BY DEF AWord, First
<1>2. q[c] = [p[c] EXCEPT ![1] = w[1]]
  BY DEF First
<1>3. p[c] \in [1 .. 4 -> Nat]
  BY DEF AWord
<1>4. q[c][1] = w[1] /\ q[c][2] = p[c][2] /\ q[c][3] = p[c][3] /\ q[c][4] = p[c][4]
  BY <1>2, <1>3
<1>5. \A i \in 1 .. 4 : q[c][i] = w[i]
  BY <1>4
<1> QED BY <1>1, <1>5 DEF AWord

LEMMA WriteWhole ==
  ASSUME NEW p \in [Settings -> AWord], NEW c \in Settings, NEW w \in AWord,
         NEW q, q = [p EXCEPT ![c] = w]
  PROVE  /\ q \in [Settings -> AWord] /\ q[c] = w
         /\ \A s \in Settings : s # c => q[s] = p[s]
OBVIOUS

(* The settings in their order.                                            *)
LEMMA InOrder ==
  ASSUME NEW k \in 1 .. 5
  PROVE  /\ Order[k] \in Settings /\ Order[k] \notin Done[k] /\ Done[k] \subseteq Settings
         /\ Order[k] # "none" /\ (Order[k] \in Counters <=> k \in 1 .. 3)
         /\ k < 5 => Done[k + 1] = Done[k] \cup {Order[k]}
         /\ k = 5 => Settings = Done[k] \cup {Order[k]}
<1>1. /\ Order[1] = "n" /\ Order[2] = "m" /\ Order[3] = "c" /\ Order[4] = "bw" /\ Order[5] = "cp"
      /\ Done[1] = {} /\ Done[2] = {"n"} /\ Done[3] = {"n", "m"} /\ Done[4] = {"n", "m", "c"}
      /\ Done[5] = {"n", "m", "c", "bw"}
  BY DEF Order, Done
<1>2. k \in {1, 2, 3, 4, 5}
  OBVIOUS
<1> USE DEF Settings, Counters
<1>3. CASE k = 1 BY <1>1, <1>3
<1>4. CASE k = 2 BY <1>1, <1>4
<1>5. CASE k = 3 BY <1>1, <1>5
<1>6. CASE k = 4 BY <1>1, <1>6
<1>7. CASE k = 5 BY <1>1, <1>7
<1> QED BY <1>2, <1>3, <1>4, <1>5, <1>6, <1>7

(* A clock of the core while it writes.                                    *)
LEMMA CoreWrites ==
  ASSUME PllInv, Clock, waiting
  PROVE  /\ usr' = usr /\ mode' = mode /\ state' = 8 /\ elapsed' = elapsed + 1 /\ elapsed \in Nat
         /\ changed' = IF dprio_write_done THEN {} ELSE changed
         /\ done' = IF dprio_write_done THEN {}
                    ELSE IF dprio_cur_state = "SEVEN" THEN done \cup {Current} ELSE done
         /\ dprio_start' = IF dprio_next_state = "ONE" THEN 0 ELSE dprio_start
         /\ dprio_cur_state' = dprio_next_state
         /\ current_state' = IF locked = 1 /\ dprio_write_done THEN "LOCKED" ELSE "WAIT_ON_LOCK"
         /\ slave_mode' = "POLL" /\ readdata = 0 /\ Started
         /\ usr \in [Settings -> AWord] /\ pll \in [Settings -> AWord]
<1>0. Typed /\ EdgeInv /\ BusInv /\ ReadInv /\ StateInv /\ Registers /\ MainStates
  BY DEF PllInv, Clock, CoreClock
<1>1. Started /\ readdata = 0
  BY <1>0 DEF StateInv, ReadInv, waiting
<1>2. Written = {} /\ ~(Accepted /\ mgmt_address = 0)
  BY <1>0, <1>1, NothingWritten
<1>3. state' = 8 /\ mode' = mode /\ elapsed' = elapsed + 1 /\ elapsed \in Nat
  BY <1>0, <1>1, Moves DEF Started
<1>4. slave_mode = "POLL"
  <2>1. slave_mode # "WR"
    BY <1>0, <1>1 DEF StateInv, Started
  <2> QED BY <1>0, <2>1 DEF Typed
<1>5. usr' = usr
  <2>1. usr \in [Settings -> AWord]
    BY <1>0 DEF Typed
  <2>2. usr' = [s \in Settings |-> usr[s]]
    BY <1>0, <1>2 DEF Registers
  <2> QED BY <2>1, <2>2
<1>6. changed' = IF dprio_write_done THEN {} ELSE changed
  BY <1>0, <1>2 DEF Registers
<1>7. done' = IF dprio_write_done THEN {}
              ELSE IF dprio_cur_state = "SEVEN" THEN done \cup {Current} ELSE done
  <2>1. done' = (IF dprio_write_done THEN {}
              ELSE IF waiting /\ dprio_cur_state = "SEVEN" THEN done \cup {Current}
              ELSE done) \ {}
    BY <1>0, <1>2 DEF Registers
  <2>2. \A S : S \ {} = S
    OBVIOUS
  <2> QED BY <2>1, <2>2
<1>8. dprio_start' = IF dprio_next_state = "ONE" THEN 0 ELSE dprio_start
  BY <1>0, <1>2 DEF Registers
<1>9. current_state' = IF locked = 1 /\ dprio_write_done THEN "LOCKED" ELSE "WAIT_ON_LOCK"
  BY <1>0, <1>4 DEF MainStates, waiting
<1>10. slave_mode' = "POLL" /\ dprio_cur_state' = dprio_next_state
  BY <1>0, <1>2, <1>4 DEF Registers
<1> QED BY <1>0, <1>1, <1>3, <1>5, <1>6, <1>7, <1>8, <1>9, <1>10 DEF Typed

(* The start.                                                              *)
LEMMA BeginClock ==
  ASSUME PllInv, Clock, waiting, ToBegin
  PROVE  Busy(1)' /\ ~dprio_write_done /\ pll' = pll
<1>1. ~dprio_write_done /\ dprio_next_state = "ONE"
  BY DEF ToBegin, dprio_write_done, dprio_next_state
<1>2. pll' = pll
  BY DEF ToBegin, Clock, CoreClock, WritePll
<1>3. /\ changed' = Settings /\ done' = {} /\ dprio_start' = 0 /\ dprio_cur_state' = "ONE"
      /\ elapsed' = 24
  BY <1>1, CoreWrites DEF ToBegin
<1>4. Done[1] = {} /\ Begin[1] = 24 /\ Long[1] = "ONE"
  BY DEF Done, Begin, Long
<1>5. Busy(1)'
  <2>1. 1 \in 1 .. 3 /\ 1 \in 1 .. 7 /\ 24 = 24 + 1 - 1
    OBVIOUS
  <2> QED BY <1>3, <1>4, <2>1 DEF Busy
<1> QED BY <1>1, <1>2, <1>5

(* The end.                                                                *)
LEMMA EndClock ==
  ASSUME PllInv, Clock, waiting, AllWritten \/ ToLock
  PROVE  /\ pll' = pll
         /\ ~dprio_write_done => AllWritten'
         /\ dprio_write_done => ToLock' /\ elapsed >= 56
<1>1. changed \subseteq done /\ dprio_start = 0 /\ pll = usr
  BY DEF AllWritten, ToLock
<1>2. Current = "none"
  BY <1>1, NoneCurrent
<1>3. pll' = pll
  BY <1>2 DEF Clock, CoreClock, WritePll
<1>4. CASE dprio_cur_state = "TWO"
  <2>1. ~dprio_write_done /\ dprio_next_state = "IDLE"
    BY <1>2, <1>4 DEF dprio_write_done, dprio_next_state
  <2>2. AllWritten /\ elapsed = 55
    BY <1>4 DEF AllWritten, ToLock
  <2> QED BY <1>3, <1>4, <2>1, <2>2, CoreWrites DEF AllWritten
<1>5. CASE dprio_cur_state = "IDLE"
  <2>1. dprio_write_done /\ dprio_next_state = "IDLE"
    BY <1>1, <1>5 DEF dprio_write_done, dprio_next_state
  <2>2. elapsed >= 56 /\ elapsed \in Nat
    BY <1>5, CoreWrites DEF AllWritten, ToLock
  <2>3. dprio_start' = 0 /\ changed' = {} /\ done' = {} /\ dprio_cur_state' = "IDLE" /\ usr' = usr
        /\ elapsed' >= 57
    BY <1>1, <2>1, <2>2, CoreWrites
  <2> QED BY <1>1, <1>3, <2>1, <2>2, <2>3 DEF ToLock
<1> QED BY <1>4, <1>5 DEF AllWritten, ToLock

(* What the core does to the setting that is being written.                *)
LEMMA BusyCore ==
  ASSUME PllInv, Clock, waiting, NEW k \in 1 .. 5, Busy(k)
  PROVE  /\ Current = Order[k] /\ ~dprio_write_done
         /\ dprio_cur_state \in {"ONE", "TWO", "THREE", "FOUR", "FIVE", "SIX", "SEVEN"}
         /\ dprio_next_state =
              CASE dprio_cur_state = "ONE" -> "TWO"
                [] dprio_cur_state = "TWO" -> IF k \in 1 .. 3 THEN "THREE" ELSE "FOUR"
                [] dprio_cur_state = "THREE" -> "FOUR"
                [] dprio_cur_state = "FOUR" -> "FIVE"
                [] dprio_cur_state = "FIVE" -> "SIX"
                [] dprio_cur_state = "SIX" -> "SEVEN"
                [] dprio_cur_state = "SEVEN" -> IF k < 3 THEN "ONE" ELSE "TWO"
<1>1. changed = Settings /\ done = Done[k] /\ dprio_start = 0
  BY DEF Busy
<1>2. Current = Order[k] /\ AfterSeven = IF k < 3 THEN "ONE" ELSE "TWO"
  BY <1>1, CurrentIs, AfterSevenIs
<1>3. dprio_cur_state \in {"ONE", "TWO", "THREE", "FOUR", "FIVE", "SIX", "SEVEN"}
  BY DEF Busy, Long, Short
<1>4. Current # "none" /\ (Current \in Counters <=> k \in 1 .. 3)
  BY <1>2, InOrder
<1>5. ~dprio_write_done
  <2>1. CASE dprio_cur_state = "ONE" BY <1>4, <2>1 DEF dprio_write_done
  <2>2. CASE dprio_cur_state = "SEVEN" BY <1>2, <2>2 DEF dprio_write_done
  <2>3. CASE dprio_cur_state \in {"TWO", "THREE", "FOUR", "FIVE", "SIX"}
    BY <2>3 DEF dprio_write_done
  <2> QED BY <1>3, <2>1, <2>2, <2>3
<1>6. CASE dprio_cur_state \in {"ONE", "TWO"}
  BY <1>2, <1>4, <1>5, <1>6 DEF dprio_next_state
<1>7. CASE dprio_cur_state \in {"THREE", "FOUR", "FIVE", "SIX"}
  BY <1>2, <1>5, <1>7 DEF dprio_next_state
<1>8. CASE dprio_cur_state = "SEVEN"
  BY <1>2, <1>5, <1>8 DEF dprio_next_state
<1> QED BY <1>3, <1>6, <1>7, <1>8

LEMMA BusyPll ==
  ASSUME PllInv, Clock, waiting, NEW k \in 1 .. 5, Busy(k)
  PROVE  /\ pll' \in [Settings -> AWord]
         /\ \A s \in Settings : s # Order[k] => pll'[s] = pll[s]
         /\ dprio_cur_state = "ONE" => Same(Order[k], 3)' /\ Same(Order[k], 4)'
         /\ dprio_cur_state \in {"TWO", "THREE", "FOUR", "FIVE"} => pll' = pll
         /\ dprio_cur_state = "SIX" /\ k \in 1 .. 3
              => /\ Same(Order[k], 2)' /\ pll'[Order[k]][3] = pll[Order[k]][3]
                 /\ pll'[Order[k]][4] = pll[Order[k]][4]
         /\ dprio_cur_state = "SEVEN" => pll'[Order[k]] = usr[Order[k]]
<1> DEFINE c == Order[k]
           w == usr[c]
<1>1. c \in Settings /\ c # "none" /\ (c \in Counters <=> k \in 1 .. 3)
  BY InOrder
<1>2. usr' = usr /\ pll \in [Settings -> AWord] /\ w \in AWord
  BY <1>1, CoreWrites
<1>3. /\ dprio_cur_state \in {"ONE", "TWO", "THREE", "FOUR", "FIVE", "SIX", "SEVEN"}
      /\ Current = c
  BY BusyCore
<1>4. pll' = CASE dprio_cur_state = "ONE" -> Two(pll, c, w)
                [] dprio_cur_state = "SIX" /\ c \in Counters -> Second(pll, c, w)
                [] dprio_cur_state = "SEVEN" ->
                     IF c \in Counters THEN First(pll, c, w)
                     ELSE [pll EXCEPT ![c] = w]
                [] OTHER -> pll
  <2> HIDE DEF c
  <2>1. WritePll
    BY DEF Clock, CoreClock
  <2> QED BY <1>1, <1>3, <2>1 DEF WritePll, Two, Second, First
<1> HIDE DEF c, w
<1>5. CASE dprio_cur_state = "ONE"
  <2>1. pll' = Two(pll, c, w)
    BY <1>4, <1>5
  <2>2. pll' \in [Settings -> AWord] /\ pll'[c][3] = w[3] /\ pll'[c][4] = w[4]
        /\ \A s \in Settings : s # c => pll'[s] = pll[s]
    <3> DEFINE q == pll'
    <3>1. c \in Settings /\ pll \in [Settings -> AWord] /\ w \in AWord
      BY <1>1, <1>2
    <3>2. q = Two(pll, c, w)
      BY <2>1
    <3> HIDE DEF q
    <3>3. /\ q \in [Settings -> AWord] /\ q[c][3] = w[3] /\ q[c][4] = w[4]
          /\ \A s \in Settings : s # c => q[s] = pll[s]
      BY <3>1, <3>2, WriteTwo
    <3> QED BY <3>3 DEF q
  <2> QED BY <1>2, <1>5, <2>2 DEF Same, c, w
<1>6. CASE dprio_cur_state \in {"TWO", "THREE", "FOUR", "FIVE"}
  <2>1. pll' = pll
    BY <1>4, <1>6
  <2> QED BY <1>2, <1>6, <2>1
<1>7. CASE dprio_cur_state = "SIX"
  <2>1. CASE c \in Counters
    <3>1. pll' = Second(pll, c, w)
      BY <1>4, <1>7, <2>1
    <3>2. /\ pll' \in [Settings -> AWord] /\ pll'[c][2] = w[2] /\ pll'[c][3] = pll[c][3]
          /\ pll'[c][4] = pll[c][4] /\ \A s \in Settings : s # c => pll'[s] = pll[s]
      BY <1>1, <1>2, <3>1, WriteSecond
    <3> QED BY <1>2, <1>7, <3>2 DEF Same, c, w
  <2>2. CASE c \notin Counters
    <3>1. pll' = pll
      BY <1>4, <1>7, <2>2
    <3> QED BY <1>1, <1>2, <1>7, <2>2, <3>1
  <2> QED BY <2>1, <2>2
<1>8. CASE dprio_cur_state = "SEVEN"
  <2>1. CASE c \in Counters
    <3>1. pll' = First(pll, c, w)
      BY <1>4, <1>8, <2>1
    <3>2. pll[c][2] = w[2] /\ pll[c][3] = w[3] /\ pll[c][4] = w[4]
      BY <1>1, <1>8, <2>1 DEF Busy, Same, c, w
    <3>3. pll' \in [Settings -> AWord] /\ pll'[c] = w /\ \A s \in Settings : s # c => pll'[s] = pll[s]
      BY <1>1, <1>2, <3>1, <3>2, WriteFirst
    <3> QED BY <1>8, <3>3 DEF c, w
  <2>2. CASE c \notin Counters
    <3>1. pll' = [pll EXCEPT ![c] = w]
      BY <1>4, <1>8, <2>2
    <3>2. pll' \in [Settings -> AWord] /\ pll'[c] = w /\ \A s \in Settings : s # c => pll'[s] = pll[s]
      BY <1>1, <1>2, <3>1, WriteWhole
    <3> QED BY <1>8, <3>2 DEF c, w
  <2> QED BY <2>1, <2>2
<1> QED BY <1>3, <1>5, <1>6, <1>7, <1>8

LEMMA BusyClock ==
  ASSUME PllInv, Clock, waiting, NEW k \in 1 .. 5, Busy(k)
  PROVE  (\E j \in 1 .. 5 : Busy(j)') \/ AllWritten'
<1> DEFINE c == Order[k]
           d == dprio_cur_state
<1>1. /\ changed = Settings /\ done = Done[k] /\ dprio_start = 0
      /\ \A s \in done : pll[s] = usr[s]
  BY DEF Busy
<1>2. /\ usr' = usr /\ elapsed' = elapsed + 1 /\ elapsed \in Nat /\ changed' = Settings
      /\ dprio_start' = 0 /\ dprio_cur_state' = dprio_next_state
      /\ done' = IF d = "SEVEN" THEN done \cup {c} ELSE done
  BY <1>1, BusyCore, CoreWrites
<1>3. /\ c \in Settings /\ c \notin Done[k] /\ Done[k] \subseteq Settings
      /\ k < 5 => Done[k + 1] = Done[k] \cup {c}
      /\ k = 5 => Settings = Done[k] \cup {c}
  BY InOrder
<1>4. \A s \in done : pll'[s] = usr[s]
  BY <1>1, <1>3, BusyPll
<1>5. /\ Begin[1] = 24 /\ Begin[2] = 31 /\ Begin[3] = 38 /\ Begin[4] = 45 /\ Begin[5] = 50
      /\ Long[1] = "ONE" /\ Long[2] = "TWO" /\ Long[3] = "THREE" /\ Long[4] = "FOUR"
      /\ Long[5] = "FIVE" /\ Long[6] = "SIX" /\ Long[7] = "SEVEN"
      /\ Short[1] = "TWO" /\ Short[2] = "FOUR" /\ Short[3] = "FIVE" /\ Short[4] = "SIX"
      /\ Short[5] = "SEVEN" /\ Begin[k] \in Nat
  BY DEF Begin, Long, Short
<1>6. CASE d # "SEVEN" /\ k \in 1 .. 3
  <2>1. PICK i \in 1 .. 7 : d = Long[i] /\ elapsed = Begin[k] + i - 1
    BY <1>6 DEF Busy
  <2>2. i + 1 \in 1 .. 7 /\ dprio_cur_state' = Long[i + 1]
    <3>1. i \in {1, 2, 3, 4, 5, 6}
      BY <1>5, <1>6, <2>1
    <3>2. d \in {"ONE", "TWO", "THREE", "FOUR", "FIVE", "SIX"} /\ k \in 1 .. 3
      BY <1>5, <1>6, <2>1, <3>1
    <3>3. dprio_next_state = CASE d = "ONE" -> "TWO" [] d = "TWO" -> "THREE" [] d = "THREE" -> "FOUR"
             [] d = "FOUR" -> "FIVE" [] d = "FIVE" -> "SIX" [] d = "SIX" -> "SEVEN"
      BY <3>2, BusyCore
    <3>4. dprio_next_state = Long[i + 1]
      BY <1>5, <2>1, <3>1, <3>3
    <3> QED BY <1>2, <3>1, <3>4
  <2>3. elapsed' = Begin[k] + (i + 1) - 1
    BY <1>2, <1>5, <2>1
  <2>4. Same(c, 3)' /\ Same(c, 4)'
    <3>1. CASE d = "ONE"
      BY <3>1, BusyPll
    <3>2. CASE d # "ONE"
      <4>1. Same(c, 3) /\ Same(c, 4)
        BY <1>6, <3>2 DEF Busy
      <4>2. pll'[c][3] = pll[c][3] /\ pll'[c][4] = pll[c][4]
        BY <1>6, <3>2, BusyPll, BusyCore
      <4> QED BY <1>2, <4>1, <4>2 DEF Same
    <3> QED BY <3>1, <3>2
  <2>5. dprio_cur_state' = "SEVEN" => Same(c, 2)'
    <3>1. dprio_cur_state' = "SEVEN" => d = "SIX"
      BY <1>2, <1>6, BusyCore
    <3> QED BY <1>6, <3>1, BusyPll
  <2>6. done' = Done[k]
    BY <1>1, <1>2, <1>6
  <2>7. Busy(k)'
    BY <1>1, <1>2, <1>4, <1>6, <2>2, <2>3, <2>4, <2>5, <2>6 DEF Busy
  <2> QED BY <2>7
<1>7. CASE d # "SEVEN" /\ k \in 4 .. 5
  <2>1. PICK i \in 1 .. 5 : d = Short[i] /\ elapsed = Begin[k] + i - 1
    BY <1>7 DEF Busy
  <2>2. i + 1 \in 1 .. 5 /\ dprio_cur_state' = Short[i + 1]
    <3>1. i \in {1, 2, 3, 4}
      BY <1>5, <1>7, <2>1
    <3>2. d \in {"TWO", "FOUR", "FIVE", "SIX"} /\ k \notin 1 .. 3
      BY <1>5, <1>7, <2>1, <3>1
    <3>3. dprio_next_state = CASE d = "TWO" -> "FOUR" [] d = "FOUR" -> "FIVE" [] d = "FIVE" -> "SIX"
             [] d = "SIX" -> "SEVEN"
      BY <3>2, BusyCore
    <3>4. dprio_next_state = Short[i + 1]
      BY <1>5, <2>1, <3>1, <3>3
    <3> QED BY <1>2, <3>1, <3>4
  <2>3. elapsed' = Begin[k] + (i + 1) - 1
    BY <1>2, <1>5, <2>1
  <2>4. done' = Done[k]
    BY <1>1, <1>2, <1>7
  <2>5. Busy(k)'
    BY <1>1, <1>2, <1>4, <1>7, <2>2, <2>3, <2>4 DEF Busy
  <2> QED BY <2>5
<1>8. CASE d = "SEVEN"
  <2>1. pll'[c] = usr[c] /\ done' = Done[k] \cup {c}
    BY <1>1, <1>2, <1>8, BusyPll
  <2>2. \A s \in done' : pll'[s] = usr'[s]
    BY <1>1, <1>2, <1>4, <2>1
  <2>3. elapsed' = IF k \in 1 .. 3 THEN Begin[k] + 7 ELSE Begin[k] + 5
    <3>1. CASE k \in 1 .. 3
      <4>1. PICK i \in 1 .. 7 : d = Long[i] /\ elapsed = Begin[k] + i - 1
        BY <3>1 DEF Busy
      <4>2. i = 7
        BY <1>5, <1>8, <4>1
      <4> QED BY <1>2, <1>5, <3>1, <4>1, <4>2
    <3>2. CASE k \notin 1 .. 3
      <4>1. PICK i \in 1 .. 5 : d = Short[i] /\ elapsed = Begin[k] + i - 1
        BY <3>2 DEF Busy
      <4>2. i = 5
        BY <1>5, <1>8, <4>1
      <4> QED BY <1>2, <1>5, <3>2, <4>1, <4>2
    <3> QED BY <3>1, <3>2
  <2>4. dprio_cur_state' = IF k < 3 THEN "ONE" ELSE "TWO"
    BY <1>2, <1>8, BusyCore
  <2>5. CASE k < 3
    <3>1. k + 1 \in 1 .. 3 /\ k + 1 \in 1 .. 5 /\ done' = Done[k + 1] /\ dprio_cur_state' = "ONE"
      BY <1>3, <2>1, <2>4, <2>5
    <3>2. elapsed' = Begin[k + 1] + 1 - 1
      <4>1. k \in {1, 2}
        BY <2>5
      <4>2. k \in 1 .. 3
        BY <2>5
      <4> QED BY <1>5, <2>3, <4>1, <4>2
    <3>3. 1 \in 1 .. 7 /\ Long[1] = "ONE"
      BY <1>5
    <3>4. Busy(k + 1)'
      BY <1>2, <2>2, <3>1, <3>2, <3>3 DEF Busy
    <3> QED BY <3>1, <3>4
  <2>6. CASE k \in 3 .. 4
    <3>1. k + 1 \in 4 .. 5 /\ k + 1 \in 1 .. 5 /\ done' = Done[k + 1] /\ dprio_cur_state' = "TWO"
      BY <1>3, <2>1, <2>4, <2>6
    <3>2. elapsed' = Begin[k + 1] + 1 - 1
      <4>1. k \in {3, 4}
        BY <2>6
      <4>2. (k = 3 => elapsed' = 45) /\ (k = 4 => elapsed' = 50)
        BY <1>5, <2>3
      <4> QED BY <1>5, <4>1, <4>2
    <3>3. 1 \in 1 .. 5 /\ Short[1] = "TWO"
      BY <1>5
    <3>4. Busy(k + 1)'
      BY <1>2, <2>2, <3>1, <3>2, <3>3 DEF Busy
    <3> QED BY <3>1, <3>4
  <2>7. CASE k = 5
    <3>1. done' = Settings /\ dprio_cur_state' = "TWO" /\ elapsed' = 55
      BY <1>3, <1>5, <2>1, <2>3, <2>4, <2>7
    <3>2. pll' = usr'
      <4>1. pll' \in [Settings -> AWord] /\ usr' \in [Settings -> AWord]
        BY <1>2, BusyPll, CoreWrites
      <4> QED BY <2>2, <3>1, <4>1
    <3> QED BY <1>2, <3>1, <3>2 DEF AllWritten
  <2> QED BY <2>5, <2>6, <2>7
<1> QED BY <1>6, <1>7, <1>8

(* A clock of a core that writes or waits for the lock.                    *)
LEMMA WaitingClock ==
  ASSUME PllInv, Clock, waiting
  PROVE  /\ IdleInv' /\ WaitingInv'
         /\ changed' \subseteq Settings /\ done' \subseteq Settings /\ dprio_start' \in Bit
         /\ dprio_cur_state' \in DprioStates
         /\ usr' \in [Settings -> AWord] /\ pll' \in [Settings -> AWord]
         /\ dprio_write_done => elapsed >= 56
         /\ ~dprio_write_done => elapsed <= 55
<1>1. /\ usr = ModeSettings(mode)
      /\ ToBegin \/ (\E k \in 1 .. 5 : Busy(k)) \/ AllWritten \/ ToLock
  BY DEF PllInv, WaitingInv
<1>2. /\ usr' = ModeSettings(mode)' /\ state' = 8 /\ usr' = usr /\ usr' \in [Settings -> AWord]
      /\ pll \in [Settings -> AWord] /\ elapsed \in Nat /\ mode' \in AllModes
      /\ current_state' = IF locked = 1 /\ dprio_write_done THEN "LOCKED" ELSE "WAIT_ON_LOCK"
      /\ dprio_cur_state' = dprio_next_state
  BY <1>1, CoreWrites DEF PllInv, Typed
<1>3. CASE ToBegin \/ \E k \in 1 .. 5 : Busy(k)
  <2>1. /\ (\E k \in 1 .. 5 : Busy(k)') \/ AllWritten'
        /\ ~dprio_write_done /\ pll' \in [Settings -> AWord] /\ elapsed <= 55
    <3>1. CASE ToBegin
      <4>1. 1 \in 1 .. 5 /\ elapsed = 23
        BY <3>1 DEF ToBegin
      <4> QED BY <1>2, <3>1, <4>1, BeginClock
    <3>2. ASSUME NEW k \in 1 .. 5, Busy(k)
          PROVE  /\ (\E j \in 1 .. 5 : Busy(j)') \/ AllWritten'
                 /\ ~dprio_write_done /\ pll' \in [Settings -> AWord] /\ elapsed <= 55
      <4>1. elapsed <= 55
        <5>1. /\ Begin[1] = 24 /\ Begin[2] = 31 /\ Begin[3] = 38 /\ Begin[4] = 45 /\ Begin[5] = 50
          BY DEF Begin
        <5>2. CASE k \in 1 .. 3
          <6>1. PICK i \in 1 .. 7 : elapsed = Begin[k] + i - 1
            BY <3>2, <5>2 DEF Busy
          <6> QED BY <5>1, <5>2, <6>1
        <5>3. CASE k \in 4 .. 5
          <6>1. PICK i \in 1 .. 5 : elapsed = Begin[k] + i - 1
            BY <3>2, <5>3 DEF Busy
          <6> QED BY <5>1, <5>3, <6>1
        <5> QED BY <5>2, <5>3
      <4>2. (\E j \in 1 .. 5 : Busy(j)') \/ AllWritten'
        BY <3>2, BusyClock
      <4>3. ~dprio_write_done /\ pll' \in [Settings -> AWord]
        BY <3>2, BusyCore, BusyPll
      <4> QED BY <4>1, <4>2, <4>3
    <3> QED BY <1>3, <3>1, <3>2
  <2>2. waiting'
    BY <1>2, <2>1 DEF waiting
  <2>3. IdleInv' /\ WaitingInv'
    BY <1>2, <2>1, <2>2 DEF IdleInv, WaitingInv
  <2>4. /\ changed' \subseteq Settings /\ done' \subseteq Settings /\ dprio_start' \in Bit
        /\ dprio_cur_state' \in DprioStates
    <3>1. CASE AllWritten'
      BY <3>1 DEF AllWritten, DprioStates, Bit
    <3>2. ASSUME NEW k \in 1 .. 5, Busy(k)'
          PROVE  /\ changed' \subseteq Settings /\ done' \subseteq Settings /\ dprio_start' \in Bit
                 /\ dprio_cur_state' \in DprioStates
      <4>1. changed' = Settings /\ done' = Done[k] /\ dprio_start' = 0
        BY <3>2 DEF Busy
      <4>2. dprio_cur_state' \in DprioStates
        BY <3>2 DEF Busy, DprioStates, Long, Short
      <4> QED BY <4>1, <4>2, InOrder DEF Bit
    <3> QED BY <2>1, <3>1, <3>2
  <2> QED BY <1>2, <2>1, <2>3, <2>4
<1>4. CASE AllWritten \/ ToLock
  <2>1. /\ pll' = pll /\ (~dprio_write_done => AllWritten')
        /\ dprio_write_done => ToLock' /\ elapsed >= 56
    BY <1>4, EndClock
  <2>2. ~dprio_write_done => elapsed <= 55
    <3>1. CASE dprio_cur_state = "IDLE"
      <4>1. dprio_write_done
        BY <1>4, <3>1 DEF AllWritten, ToLock, dprio_write_done
      <4> QED BY <4>1
    <3>2. CASE dprio_cur_state # "IDLE"
      BY <1>4, <3>2 DEF AllWritten, ToLock
    <3> QED BY <3>1, <3>2
  <2>3. /\ changed' \subseteq Settings /\ done' \subseteq Settings /\ dprio_start' \in Bit
        /\ dprio_cur_state' \in DprioStates
    BY <2>1 DEF AllWritten, ToLock, DprioStates, Bit
  <2>4. WaitingInv'
    BY <1>2, <2>1 DEF WaitingInv
  <2>5. IdleInv'
    <3>1. CASE dprio_write_done
      <4>1. /\ dprio_start' = 0 /\ changed' = {} /\ done' = {} /\ pll' = usr'
            /\ dprio_cur_state' = "IDLE"
        BY <2>1, <3>1 DEF ToLock
      <4>2. pll' = ModeSettings(mode)'
        BY <1>2, <4>1
      <4> QED BY <1>2, <4>1, <4>2 DEF IdleInv
    <3>2. CASE ~dprio_write_done
      <4>1. waiting'
        BY <1>2, <3>2 DEF waiting
      <4> QED BY <4>1 DEF IdleInv
    <3> QED BY <3>1, <3>2
  <2> QED BY <1>2, <2>1, <2>2, <2>3, <2>4, <2>5
<1> QED BY <1>1, <1>3, <1>4

(* When the core goes from state to state.                                 *)
LEMMA StateClock ==
  ASSUME PllInv, Clock
  PROVE  /\ StateInv' /\ locked' \in Bit /\ slave_mode' \in {"WR", "POLL"}
         /\ current_state' \in {"IDLE", "WAIT_ON_LOCK", "LOCKED"}
<1>0. Typed /\ EdgeInv /\ BusInv /\ ReadInv /\ StateInv /\ Registers /\ Lock
  BY DEF PllInv, Clock, CoreClock
<1>1. /\ elapsed' = elapsed + 1 /\ elapsed \in Nat /\ LOCK \in Nat /\ locked \in {0, 1}
      /\ slave_mode \in {"WR", "POLL"}
  BY <1>0, Moves, PeriodAssumption DEF Typed, Bit
<1>2. locked' \in {0, 1} /\ (elapsed >= LOCK => locked' = 1) /\ (~waiting /\ locked = 1 => locked' = 1)
  BY <1>0, <1>1 DEF Lock
<1>3. slave_mode' = IF Accepted /\ mgmt_address = 0 THEN "POLL" ELSE slave_mode
  BY <1>0 DEF Registers
<1>4. elapsed' > LOCK => locked' = 1
  BY <1>1, <1>2
<1>5. CASE waiting
  <2>1. /\ state' = 8 /\ slave_mode' = "POLL"
        /\ current_state' = IF locked = 1 /\ dprio_write_done THEN "LOCKED" ELSE "WAIT_ON_LOCK"
    BY <1>5, CoreWrites
  <2>2. (dprio_write_done => elapsed >= 56) /\ (~dprio_write_done => elapsed <= 55)
    BY <1>5, WaitingClock
  <2>3. elapsed <= 56 \/ elapsed <= LOCK + 1
    BY <1>0, <1>5 DEF StateInv
  <2>4. locked # 1 => elapsed <= LOCK
    BY <1>0, <1>1 DEF StateInv
  <2>5. Started'
    BY <2>1 DEF Started
  <2>6. waiting' => elapsed' <= 56 \/ elapsed' <= LOCK + 1
    BY <1>1, <2>1, <2>2, <2>4 DEF waiting
  <2>7. current_state' = "LOCKED" => elapsed' >= 57 /\ (elapsed' <= 57 \/ elapsed' <= LOCK + 2)
    BY <1>1, <2>1, <2>2, <2>3
  <2>8. current_state' # "IDLE" /\ current_state' \in {"IDLE", "WAIT_ON_LOCK", "LOCKED"}
    BY <2>1
  <2> QED BY <1>1, <1>2, <1>4, <2>1, <2>5, <2>6, <2>7, <2>8 DEF StateInv, Bit
<1>6. CASE ~waiting
  <2>1. current_state' = IF state = 7 /\ write_count = 1 THEN "WAIT_ON_LOCK" ELSE "IDLE"
    BY <1>6, CoreIdles
  <2>2. current_state' # "LOCKED" /\ current_state' \in {"IDLE", "WAIT_ON_LOCK", "LOCKED"}
    BY <2>1
  <2>3. /\ ~Started' => current_state' = "IDLE"
        /\ waiting' => elapsed' <= 56
    <3>1. CASE state = 7 /\ write_count = 1
      <4>1. state' = 7 /\ write_count' = 2 /\ elapsed' = 23
        BY <1>0, <3>1, Moves DEF BusInv
      <4> QED BY <4>1 DEF Started
    <3>2. CASE ~(state = 7 /\ write_count = 1)
      BY <2>1, <3>2 DEF waiting
    <3> QED BY <3>1, <3>2
  <2>4. ASSUME Started', current_state' = "IDLE"
        PROVE  state' = 8 /\ readdata' = 1 /\ elapsed' >= 58 /\ (elapsed' <= 58 \/ elapsed' <= LOCK + 3)
    <3>1. ~(state = 7 /\ write_count = 1)
      BY <2>1, <2>4
    <3>2. Started
      BY <1>0, <2>4, <3>1, Moves DEF Started, Typed
    <3>3. CASE current_state = "LOCKED"
      <4>1. state = 8 /\ elapsed >= 57 /\ (elapsed <= 57 \/ elapsed <= LOCK + 2)
        BY <1>0, <3>3 DEF StateInv
      <4>2. readdata' = 1 /\ readdata = 0
        BY <1>0, <3>3, ReadClock
      <4>3. state' = 8
        BY <1>0, <4>1, <4>2, Moves
      <4> QED BY <1>1, <4>1, <4>2, <4>3
    <3>4. CASE current_state = "IDLE"
      <4>1. state = 8 /\ readdata = 1 /\ elapsed >= 58
        BY <1>0, <3>2, <3>4 DEF StateInv
      <4>2. mgmt_read = 1
        BY <1>0, <1>1, <4>1 DEF BusInv
      <4>3. state' = 0
        BY <1>0, <4>1, <4>2, Moves
      <4> QED BY <2>4, <4>3 DEF Started
    <3> QED BY <1>0, <1>6, <3>3, <3>4 DEF Typed, waiting
  <2>5. slave_mode' = "WR" => locked' = 1 /\ state' \in {0, 1} /\ write_count' # 2
    <3> SUFFICES ASSUME slave_mode' = "WR"
                 PROVE  locked' = 1 /\ state' \in {0, 1} /\ write_count' # 2
      OBVIOUS
    <3>1. slave_mode = "WR" /\ ~(Accepted /\ mgmt_address = 0)
      BY <1>3
    <3>2. locked = 1 /\ state \in {0, 1} /\ write_count # 2 /\ ~(state = 1 /\ write_count = 1)
      BY <1>0, <3>1, WhatIsWritten DEF StateInv
    <3>3. state' \in {0, 1} /\ write_count' # 2
      BY <1>0, <3>2, Moves DEF Typed
    <3> QED BY <1>2, <1>6, <3>2, <3>3
  <2>6. slave_mode' \in {"WR", "POLL"}
    BY <1>1, <1>3
  <2>7. StateInv'
    BY <1>4, <2>2, <2>3, <2>4, <2>5 DEF StateInv
  <2> QED BY <1>2, <2>2, <2>6, <2>7 DEF Bit
<1> QED BY <1>5, <1>6

LEMMA ClockStep == ASSUME PllInv, Clock PROVE PllInv'
<1>0. Typed /\ EdgeInv /\ BusInv /\ ReadInv /\ StateInv
  BY DEF PllInv
<1>1. EdgeInv' /\ BusInv' /\ ReadInv' /\ StateInv'
  BY <1>0, EdgeClock, BusClock, ReadClock, StateClock
<1>2. /\ IdleInv' /\ WaitingInv'
      /\ changed' \subseteq Settings /\ done' \subseteq Settings /\ dprio_start' \in Bit
      /\ dprio_cur_state' \in DprioStates
      /\ usr' \in [Settings -> AWord] /\ pll' \in [Settings -> AWord]
  BY IdleClock, WaitingClock
<1>3. Typed'
  <2>1. /\ mode' \in AllModes /\ virtual' \in 0 .. 10 /\ crowded' \in BOOLEAN
        /\ mode_change' \in Bit /\ pre_mode_button' \in Bit
    BY <1>0, Moves, Zenon DEF Typed
  <2>2. elapsed' \in 0 .. PERIOD
    BY <1>0, Moves, PeriodAssumption
  <2>3. state' \in 0 .. 8 /\ write_count' \in 0 .. 2
    BY <1>0, Moves DEF Typed
  <2>4. mode_change_d' \in [1 .. 3 -> Bit]
    <3>1. mode_change_d' = <<mode_change, mode_change_d[1], mode_change_d[2]>>
      BY DEF Clock
    <3> QED BY <1>0, <3>1 DEF Typed, Bit
  <2>5. mgmt_writedata' \in AWord /\ mgmt_read' \in Bit
    BY <1>0, BusClock
  <2>6. current_read_state' \in {"IDLE", "WAIT", "READ", "POST_WAIT"} /\ readdata' \in Bit
    BY <1>0, ReadClock
  <2>7. /\ locked' \in Bit /\ slave_mode' \in {"WR", "POLL"}
        /\ current_state' \in {"IDLE", "WAIT_ON_LOCK", "LOCKED"}
    BY StateClock
  <2> QED BY <1>2, <2>1, <2>2, <2>3, <2>4, <2>5, <2>6, <2>7, Zenon DEF Typed
<1> QED BY <1>1, <1>2, <1>3 DEF PllInv

LEMMA PllNext == ASSUME PllInv, [Next]_vars PROVE PllInv'
<1>1. CASE Clock
  BY <1>1, ClockStep
<1>2. ASSUME NEW mode_button \in {0, 1}, Look(mode_button) PROVE PllInv'
  BY <1>2, LookStep
<1>3. CASE UNCHANGED vars
  <2> USE <1>3 DEF vars, core, bus, chooser, controller
  <2>1. Typed'
    BY DEF PllInv, Typed
  <2>2. EdgeInv'
    BY DEF PllInv, EdgeInv
  <2>3. BusInv'
    BY DEF PllInv, BusInv, Wanted
  <2>4. ReadInv'
    BY DEF PllInv, ReadInv
  <2>5. StateInv'
    BY DEF PllInv, StateInv, Started, waiting
  <2>6. IdleInv'
    <3>1. Loaded' = Loaded
      BY DEF Loaded, Past
    <3>2. waiting' = waiting
      BY DEF waiting
    <3> QED BY <3>1, <3>2 DEF PllInv, IdleInv
  <2>7. WaitingInv'
    BY DEF PllInv, WaitingInv, waiting, ToBegin, Busy, Same, AllWritten, ToLock
  <2> QED BY <2>1, <2>2, <2>3, <2>4, <2>5, <2>6, <2>7 DEF PllInv
<1> QED BY <1>1, <1>2, <1>3 DEF Next

LEMMA PllInvariant == Spec => []PllInv
<1>1. Init => PllInv
  BY PllInit
<1>2. PllInv /\ [Next]_vars => PllInv'
  BY PllNext
<1> QED BY <1>1, <1>2, PTL DEF Spec

(* No write of the controller falls into a time at which the core ignores  *)
(* or misuses it, although the controller does not heed the wait request.  *)
THEOREM EveryWriteAccepted == Spec => []WritesAccepted
<1>1. PllInv => WritesAccepted
  BY WritesAreAccepted DEF PllInv, WritesAccepted
<1> QED BY <1>1, PllInvariant, PTL

(* While the PLL is not being written it has the settings of one mode.     *)
THEOREM OneModeAtATime == Spec => []NeverMixed
<1>1. PllInv => NeverMixed
  BY DEF PllInv, NeverMixed, Typed, TypeOK, IdleInv
<1> QED BY <1>1, PllInvariant, PTL

(* Before the next look at the switch the PLL runs at the frequency that   *)
(* gives sixty pictures a second in the mode of the counters, unless the   *)
(* change was crowded.                                                     *)
THEOREM SixtyAtTheNextLook == Spec => []SixtyFrames
<1>1. ASSUME PllInv, elapsed = PERIOD, ~crowded
      PROVE  /\ state = 0 /\ pll = ModeSettings(mode)
             /\ FrameRate(mode, KiloHertz(pll)) \in 594 .. 606
  <2>1. state = 0 /\ ~waiting
    BY <1>1, AtRest
  <2>2. elapsed >= 3
    BY <1>1, PeriodAssumption
  <2>3. pll = ModeSettings(mode)
    BY <1>1, <2>1, <2>2 DEF PllInv, IdleInv
  <2>4. mode \in AllModes
    BY <1>1 DEF PllInv, Typed
  <2> QED BY <2>1, <2>3, <2>4, SixtyInEveryMode
<1>2. PllInv => SixtyFrames
  BY <1>1 DEF SixtyFrames
<1> QED BY <1>2, PllInvariant, PTL
=============================================================================
