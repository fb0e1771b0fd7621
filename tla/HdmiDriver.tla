----------------------------- MODULE HdmiDriver -----------------------------
(***************************************************************************)
(* main.c of the HDMI demo: the main program, which sets the transmitter   *)
(* up and obeys commands, and the handler of the transmitter's interrupt,  *)
(* which looks for a monitor and configures the transmitter for it.  Both  *)
(* use the same registers, one I2C transaction after the other; the        *)
(* handler may run between any two transactions of the main program        *)
(* (I2cBus shows what happens when it runs inside one).                    *)
(***************************************************************************)
EXTENDS Adv7513

CONSTANTS
  SENSES,          \* m_sense_retry_count, 30 in the code
  POWERONS,        \* pwron_retry_count, 200 in the code
  Commands,        \* of "i", "v", "o"
  TROUBLES         \* commands and failing transactions, together at most

ASSUME DriverAssumption ==
  /\ SENSES \in Nat \ {0} /\ POWERONS \in Nat \ {0} /\ TROUBLES \in Nat
  /\ Commands \subseteq {"i", "v", "o"}

VARIABLES
  regs,            \* of the transmitter
  hpd, receiver,   \* the monitor: its plug is in, its receiver is on
  sense,           \* the transmitter senses the receiver
  irq,             \* the PIO interrupt is unmasked
  main, handler,   \* who does what: see Idle
  status,          \* int_status of the handler
  dvi_mode, sense_retries, pwron_retries,
  nacks, given,    \* the failed transactions and the commands so far
  news             \* history: there was none that matters, or since the last one the
                   \* plug has moved while the driver was watching

troubles == <<nacks, given, news>>
program == <<irq, status, dvi_mode, sense_retries, pwron_retries>>
monitor == <<hpd, receiver>>
vars == <<regs, monitor, sense, main, handler, program, troubles>>

(* todo: the transactions of the phase that are left; regv: what was read  *)
(* last; failed: one of them was not acknowledged.                         *)
Phase(name, todo) == [phase |-> name, todo |-> todo, regv |-> {}, failed |-> FALSE]
Idle == Phase("idle", << >>)

Masks(r92, r94, r95) == reg_write(\h92, r92) \o reg_write(\h94, r94) \o reg_write(\h95, r95)

Init ==
  /\ regs = [r \in RegisterNumbers |-> IF r = \h41 THEN {6} ELSE {}]
  /\ hpd \in BOOLEAN /\ receiver \in BOOLEAN /\ (receiver => hpd) /\ sense = FALSE
  /\ irq = FALSE
  /\ main = Phase("identify", adv7513_chip_identify)
  /\ handler = Idle
  /\ status = {} /\ dvi_mode = FALSE /\ sense_retries = SENSES /\ pwron_retries = POWERONS
  /\ nacks = 0 /\ given = 0 /\ news = TRUE

(***************************************************************************)
(* The transmitter.  A status register is cleared by writing ones.         *)
(***************************************************************************)
Flag(bit) == regs' = [regs EXCEPT ![\h96] = @ \cup {bit}]

(* The level of HDMI_TX_INT, which interrupts while it lasts.              *)
Interrupting ==
  irq /\ \E p \in {<<\h92, \h93>>, <<\h94, \h96>>, <<\h95, \h97>>} : regs[p[1]] \cap regs[p[2]] # {}

Store(reg, data) ==
  regs' = [regs EXCEPT ![reg] = IF reg \in {\h93, \h96, \h97} THEN @ \ data ELSE data]

Levels == (IF hpd THEN {6} ELSE {}) \cup (IF sense THEN {5} ELSE {})

(* Failures have left the driver able to notice the plug: both programs    *)
(* wait, the interrupt is enabled, and the transmitter is powered up.      *)
Watching ==
  /\ main.phase = "prompt" /\ handler = Idle
  /\ 7 \in regs[\h94] /\ 6 \notin regs[\h41]

PlugOrUnplug ==
  /\ hpd' = ~hpd /\ receiver' = FALSE
  /\ Flag(7)
  /\ news' = (news \/ Watching)
  /\ UNCHANGED <<sense, main, handler, program, nacks, given>>

ReceiverOnOrOff ==
  /\ hpd /\ receiver' = ~receiver
  /\ UNCHANGED <<regs, hpd, sense, main, handler, program, troubles>>

(* The receiver is sensed while the transmitter is powered up.             *)
Sense ==
  /\ sense # (receiver /\ 6 \notin regs[\h41])
  /\ sense' = ~sense
  /\ Flag(6)
  /\ UNCHANGED <<monitor, main, handler, program, troubles>>

(***************************************************************************)
(* One I2C transaction of c, the main program or the handler.  A function  *)
(* returns at the first error; some callers ignore it (careless).          *)
(***************************************************************************)
MoreTrouble == nacks + given < TROUBLES

Careless(c) == c.phase \in {"disable", "unplugged", "plugged", "kick", "idle"}

Acknowledged(c, t) ==
  /\ CASE t.op = "write" -> Store(t.reg, t.data)
       [] t.op = "modify" -> Store(t.reg, (c.regv \ t.mask) \cup t.data)
       [] OTHER -> UNCHANGED regs
  /\ UNCHANGED <<nacks, news>>

After(c, t) ==
  [c EXCEPT !.todo = Tail(@),
            !.regv = CASE t.op = "read" -> IF t.reg = \h42 THEN Levels ELSE regs[t.reg]
                       [] OTHER -> @]

(* A slip: the error is not noticed.                                       *)
AfterNack_Ignored(c) == [c EXCEPT !.todo = Tail(@)]

AfterNack(c) ==
  IF Careless(c) /\ c.phase # "kick" THEN [c EXCEPT !.todo = Tail(@), !.failed = TRUE]
  ELSE [c EXCEPT !.todo = << >>, !.failed = TRUE]

(***************************************************************************)
(* adv7513_int_handler.                                                    *)
(***************************************************************************)
read_flags ==
  <<[op |-> "read", reg |-> \h93], [op |-> "read", reg |-> \h96], [op |-> "read", reg |-> \h97]>>

EnterHandler ==
  /\ handler = Idle /\ Interrupting
  /\ handler' = Phase("status", read_flags)
  /\ sense_retries' = SENSES /\ pwron_retries' = POWERONS /\ dvi_mode' = FALSE
  /\ UNCHANGED <<regs, monitor, sense, main, irq, status, troubles>>

(* The failures that the handler makes good: it comes again when it could  *)
(* not read or clear a flag, and takes DVI for what it cannot read of EDID.*)
Forgiving == handler.phase \in {"status", "disable", "edid"}

HandlerTransaction ==
  /\ handler.todo # << >>
  /\ LET t == Head(handler.todo) IN
     \/ /\ Acknowledged(handler, t) /\ handler' = After(handler, t)
        /\ status' = IF handler.phase # "status" THEN status
                     ELSE IF t.reg = \h93 THEN {<<t.reg, b>> : b \in regs[t.reg]}
                     ELSE status \cup {<<t.reg, b>> : b \in regs[t.reg]}
     \/ /\ MoreTrouble /\ nacks' = nacks + 1 /\ news' = (news /\ Forgiving)
        /\ handler' = AfterNack(handler)
        /\ UNCHANGED <<regs, status>>
  /\ UNCHANGED <<monitor, sense, main, irq, dvi_mode, sense_retries, pwron_retries, given>>

Clear(reg) == IF \E s \in status : s[1] = reg THEN reg_write(reg, \hff) ELSE << >>
DisableAndClear == Masks(0, 0, 0) \o Clear(\h93) \o Clear(\h96) \o Clear(\h97)
HotPlug == \E b \in {6, 7} : <<\h96, b>> \in status

(* Slips that the properties must notice (suffix _...): flags cleared      *)
(* again before the handler returns; the wrong one of the two interrupts   *)
(* masked; the flags cleared when they could not be read.                  *)
Unplugged_ClearsAgain == Phase("unplugged", reg_write(\h96, \hff) \o Masks(0, \hc0, 0))
Plugged_WrongBit == Phase("plugged", Masks(0, \h40, 0))

NoStatus_Cleared == Phase("unplugged", reg_write(\h96, \hff))

Unplugged == Phase("unplugged", Masks(0, \hc0, 0))

Plugged == Phase("plugged", Masks(0, \h80, 0))

(* The flags stay as they are, and the interrupt with them.                *)
NoStatus == Idle

SenseAgain == sense_retries > 1

PowerState == Phase("power", reg_read(\h41))

(* What follows a phase; an error, or no monitor, ends in Unplugged.       *)
Follow ==
  CASE handler.phase = "status" ->
         handler' = IF handler.failed THEN NoStatus ELSE Phase("disable", DisableAndClear)
    [] handler.phase = "disable" ->
         handler' = IF HotPlug THEN Phase("sense", reg_read(\h42)) ELSE Unplugged
    [] handler.phase = "sense" /\ ~handler.failed ->
         handler' = IF {5, 6} \subseteq handler.regv THEN Phase("powerup", adv7513_do_hpd_powerup)
                    ELSE IF SenseAgain THEN Phase("sense", reg_read(\h42))
                    ELSE Unplugged
    [] handler.phase = "powerup" /\ ~handler.failed ->
         handler' = Phase("edid", adv7513_edid_read)
    [] handler.phase = "edid" -> handler' = Phase("init", adv7513_chip_init(dvi_mode'))
    [] handler.phase = "init" /\ ~handler.failed -> handler' = PowerState
    [] handler.phase = "power" /\ ~handler.failed ->
         handler' = IF power_state(handler.regv) = 1 THEN Phase("check", reg_read(\h41))
                    ELSE IF pwron_retries > 1 THEN Phase("init", adv7513_chip_init(dvi_mode))
                    ELSE Phase("check", reg_read(\h41))
    [] handler.phase = "check" /\ ~handler.failed ->
         handler' = IF power_state(handler.regv) = 0 THEN Unplugged ELSE Plugged
    [] handler.phase \in {"unplugged", "plugged"} -> handler' = Idle
    [] OTHER -> handler' = Unplugged

(* The monitor has an extension block or not (edid[0x7e]).                 *)
HandlerPhase ==
  /\ handler # Idle /\ handler.todo = << >>
  /\ dvi_mode' \in IF handler.phase # "edid" THEN {dvi_mode}
                   ELSE IF handler.failed THEN {TRUE} ELSE {TRUE, FALSE}
  /\ sense_retries' = sense_retries - (IF handler.phase = "sense" THEN 1 ELSE 0)
  /\ pwron_retries' =
       pwron_retries - (IF handler.phase = "power" /\ power_state(handler.regv) = 0 THEN 1 ELSE 0)
  /\ Follow
  /\ UNCHANGED <<regs, monitor, sense, main, irq, status, troubles>>

(***************************************************************************)
(* main.                                                                   *)
(***************************************************************************)
MainRuns == handler = Idle /\ ~Interrupting

MainTransaction ==
  /\ MainRuns /\ main.todo # << >>
  /\ LET t == Head(main.todo) IN
     \/ Acknowledged(main, t) /\ main' = After(main, t)
     \/ /\ MoreTrouble /\ nacks' = nacks + 1 /\ news' = FALSE
        /\ main' = AfterNack(main)
        /\ UNCHANGED regs
  /\ UNCHANGED <<monitor, sense, handler, program, given>>

(* adv7513_int_setup; the interrupt is unmasked at its end.                *)
adv7513_int_setup ==
  Masks(0, 0, 0) \o reg_write(\h93, \hff) \o reg_write(\h96, \hff) \o reg_write(\h97, \hff)
    \o Masks(0, \hc0, 0)

MainPhase ==
  /\ MainRuns /\ main.todo = << >> /\ main.phase \notin {"prompt", "exit"}
  /\ irq' = (irq \/ (main.phase = "setup" /\ ~main.failed))
  /\ main' = CASE main.phase \in {"identify", "setup"} /\ main.failed -> Phase("exit", << >>)
               [] main.phase = "identify" /\ ~main.failed -> Phase("setup", adv7513_int_setup)
               [] main.phase = "setup" /\ ~main.failed -> Phase("kick", adv7513_kick_up)
               [] main.phase = "i" -> Phase("initialize", adv7513_chip_init(FALSE))
               [] main.phase = "v" -> Phase("initialize", adv7513_chip_init(TRUE))
               [] OTHER -> Phase("prompt", << >>)
  /\ UNCHANGED <<regs, monitor, sense, handler, status, dvi_mode, sense_retries,
                 pwron_retries, troubles>>

Command(cmd) ==
  /\ MainRuns /\ main.phase = "prompt"
  /\ MoreTrouble /\ given' = given + 1 /\ news' = FALSE
  /\ main' = Phase(cmd, IF cmd = "o" THEN adv7513_do_hpd_powerdown ELSE adv7513_do_hpd_powerup)
  /\ UNCHANGED <<regs, monitor, sense, handler, program, nacks>>

Program ==
  EnterHandler \/ HandlerTransaction \/ HandlerPhase \/ MainTransaction \/ MainPhase

Next ==
  \/ Program \/ Sense
  \/ PlugOrUnplug \/ ReceiverOnOrOff
  \/ \E cmd \in Commands : Command(cmd)

Spec == Init /\ [][Next]_vars /\ WF_vars(Program) /\ WF_vars(Sense)

(***************************************************************************)
(* Properties.                                                             *)
(***************************************************************************)
TypeOK ==
  /\ \A r \in RegisterNumbers : regs[r] \subseteq 0 .. 7
  /\ sense_retries \in 0 .. SENSES /\ pwron_retries \in 0 .. POWERONS
  /\ main.phase = "exit" => ~irq

(* The transmitter is up, as adv7513_do_hpd_powerup and adv7513_chip_init  *)
(* leave it, in one of the two modes: the mode bit (0xaf bit 1) and the    *)
(* general control packet (0x40 bit 7) go together.                        *)
ModesAgree == 1 \in regs[\haf] <=> 7 \in regs[\h40]
Configured ==
  /\ 6 \notin regs[\h41] /\ regs[\he0] = Bits(\hd0)
  /\ 4 \in regs[\h44] /\ 7 \in regs[\h4a] /\ 6 \notin regs[\h4a]
  /\ ModesAgree

(* Unless a transaction fails, a monitor that is there is configured, or   *)
(* an interrupt that will lead to that is on its way: no order of events,  *)
(* register accesses and commands to switch off loses the news.            *)
NoEventLost ==
  nacks = 0 /\ irq /\ MainRuns /\ main.phase = "prompt" /\ hpd /\ sense /\ 6 \notin regs[\h41]
    => Configured

(* "the pattern will be auto sent out to your monitor": a monitor that     *)
(* stays in the end gets its picture in the end, if no command is given    *)
(* and no transaction fails but those that the handler makes good; and if  *)
(* some did, it gets it once the plug has moved after the last of them,    *)
(* provided that they have left the driver watching.  Without that move it *)
(* may stay dark: after one failure in chip_init the flags are cleared and *)
(* nothing tries again.                                                    *)
PictureAppears == <>[](hpd /\ receiver /\ news) => <>[](Configured /\ handler = Idle)

(* Whichever two transactions are not acknowledged, the monitor-sense      *)
(* interrupt stays masked only after the transmitter has been configured   *)
(* from the first register to the last.  Three can do it: one of chip_init *)
(* and, of the writes that nothing checks, the one that masks every        *)
(* interrupt and the one that enables both again.                          *)
MaskedOnceConfigured ==
  nacks < 3 /\ given = 0 /\ irq /\ handler = Idle /\ regs[\h94] = {7} => Configured

(* The types hold, and the hot-plug interrupt is always enabled again,     *)
(* unless a transaction fails: nothing checks the writes that enable it.   *)
InterruptsReenabled ==
  /\ TypeOK
  /\ nacks = 0 /\ irq /\ handler = Idle => 7 \in regs[\h94]
=============================================================================
