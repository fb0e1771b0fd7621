------------------------------ MODULE JtagUart ------------------------------
(***************************************************************************)
(* The driver of the JTAG UART, through which printf and scanf of both     *)
(* programs reach the terminal on the host: two ring buffers between the   *)
(* calls of the program, the interrupt handler and the FIFOs of the        *)
(* device.  read and write copy without a lock, each step here is one      *)
(* access that the handler may come before; the handler itself stops the   *)
(* program, but not the host.  An alarm rings every second and counts for  *)
(* how long the host has been silent.                                      *)
(***************************************************************************)
EXTENDS Integers, Sequences

CONSTANTS
  BUF_LEN,                          \* slots of a ring, one always unused
  DEPTH,                            \* characters in a FIFO of the device
  WRITE_THRESHOLD, READ_THRESHOLD,  \* the levels at which it interrupts
  TIMEOUT, INT_MAX,                 \* seconds of silence; where counting ends
  ReadSizes, WriteSizes,            \* bounds: what the program asks for
  CHARACTERS                        \* bound: those typed and printed

ASSUME JtagUartAssumption ==
  /\ BUF_LEN \in Nat /\ BUF_LEN > 1 /\ DEPTH \in Nat \ {0}
  /\ WRITE_THRESHOLD \in 0 .. DEPTH - 1 /\ READ_THRESHOLD \in 0 .. DEPTH - 1
  /\ TIMEOUT \in Nat \ {0} /\ INT_MAX \in Nat /\ INT_MAX - 2 >= TIMEOUT
  /\ ReadSizes \subseteq Nat \ {0} /\ WriteSizes \subseteq Nat \ {0}
  /\ CHARACTERS \in Nat

VARIABLES
  rx, tx,          \* the rings: [buf, in, out]
  irq_enable,      \* subset of {"RE", "WE"}, the same in driver and device
  host_inactive,   \* seconds without activity of the host
  rfifo, wfifo,    \* the FIFOs, the oldest character first
  pause_irq, ac,   \* flags that activity of the host sets
  connected,       \* the host has its terminal open
  pc,              \* where the program is in read, write or close
  call,            \* its local variables: [n, left, in, out, moved, got, early]
  isr,             \* the interrupt handler: [at, wi, data, space]
  typed, printed,  \* characters that entered, in each direction
  taken,           \* history: the character that the host took last
  quiet, longest   \* history: seconds of silence, and the most of them since a call
                   \* stopped waiting

device == <<rfifo, wfifo, pause_irq, ac>>
host == <<connected, typed, taken>>
history == <<quiet, longest>>
vars == <<rx, tx, irq_enable, host_inactive, device, host, pc, call, isr, printed, history>>

(* Slips that the properties must notice (suffix _...): an index that is   *)
(* not wrapped; a look that fills the unused slot; a kick only when the    *)
(* ring is full; a write that waits for room, whoever is gone; a handler   *)
(* that believes in an empty FIFO, that overwrites, or stops sending when  *)
(* the FIFO is full; and an alarm that keeps its count.                    *)
After_NoWrap(i) == i + 1

After(i) == (i + 1) % BUF_LEN

Full(ring) == After(ring.in) = ring.out
Contents(ring) ==
  [k \in 1 .. (ring.in + BUF_LEN - ring.out) % BUF_LEN |-> ring.buf[(ring.out + k - 1) % BUF_LEN]]
Least(a, b) == IF a < b THEN a ELSE b

NoCall == [n |-> 0, left |-> 0, in |-> 0, out |-> 0, moved |-> FALSE, got |-> <<>>,
           early |-> FALSE]
ReadPcs == {"read", "read_copy", "read_advance", "read_enable", "read_wait", "read_check"}
WritePcs ==
  {"write", "write_copy", "write_advance", "write_enable", "write_wait", "write_check"}
Entered == typed + printed + (IF pc \in WritePcs THEN call.left ELSE 0)
NoIsr == [at |-> "off", wi |-> FALSE, data |-> FALSE, space |-> 0]

Init ==
  /\ rx = [buf |-> [i \in 0 .. BUF_LEN - 1 |-> 0], in |-> 0, out |-> 0] /\ tx = rx
  /\ irq_enable = {"RE"} /\ host_inactive = 0
  /\ rfifo = <<>> /\ wfifo = <<>> /\ pause_irq = FALSE /\ ac = FALSE
  /\ connected \in BOOLEAN
  /\ pc = "idle" /\ call = NoCall /\ isr = NoIsr
  /\ typed = 0 /\ printed = 0 /\ taken = <<>>
  /\ quiet = 0 /\ longest = 0

(***************************************************************************)
(* The device.                                                             *)
(***************************************************************************)
ReadIrq == "RE" \in irq_enable /\ (pause_irq \/ DEPTH - Len(rfifo) <= READ_THRESHOLD)
WriteIrq == "WE" \in irq_enable /\ Len(wfifo) <= WRITE_THRESHOLD

(***************************************************************************)
(* The host: types a character, takes one, polls the device.  It may leave *)
(* and come back.                                                          *)
(***************************************************************************)
HostTypes ==
  /\ connected /\ Entered < CHARACTERS /\ Len(rfifo) < DEPTH
  /\ typed' = typed + 1 /\ rfifo' = Append(rfifo, typed + 1) /\ ac' = TRUE
  /\ UNCHANGED <<rx, tx, irq_enable, host_inactive, wfifo, pause_irq, connected, taken, pc, call,
                 isr, printed, history>>

HostTakes ==
  /\ connected /\ wfifo # <<>>
  /\ taken' = <<Head(wfifo)>> /\ wfifo' = Tail(wfifo)
  /\ UNCHANGED <<rx, tx, irq_enable, host_inactive, rfifo, pause_irq, ac, connected, typed, pc, call,
                 isr, printed, history>>

HostPolls ==
  /\ connected
  /\ ac' = TRUE /\ pause_irq' = (pause_irq \/ rfifo # <<>>)
  /\ UNCHANGED <<rx, tx, irq_enable, host_inactive, rfifo, wfifo, host, pc, call, isr, printed,
                 history>>

HostComesOrGoes ==
  /\ connected' = ~connected
  /\ UNCHANGED <<rx, tx, irq_enable, host_inactive, device, typed, taken, pc, call, isr, printed,
                 history>>

(***************************************************************************)
(* The program, where isr.at = "off": it stands still while the handler    *)
(* runs.                                                                   *)
(***************************************************************************)
driver == <<rx, tx, irq_enable, host_inactive>>
Running(at) == pc = at /\ isr.at = "off"
Program == <<host_inactive, device, host, isr>>

Call ==
  /\ Running("idle")
  /\ \/ \E space \in ReadSizes : pc' = "read" /\ call' = [NoCall EXCEPT !.left = space]
     \/ /\ pc' = "write"
        /\ \E count \in WriteSizes, early \in BOOLEAN :
             /\ Entered + count <= CHARACTERS
             /\ call' = [NoCall EXCEPT !.left = count, !.early = early]
     \/ pc' = "close" /\ call' = NoCall
  /\ UNCHANGED <<Program, rx, tx, irq_enable, printed, history>>

Return == pc' = "idle" /\ call' = NoCall

(* -EIO, or from a write less than it was asked for.                       *)
GiveUp == pc' = "failed" /\ UNCHANGED call
ReturnFailed ==
  /\ Running("failed") /\ Return
  /\ longest' = 0
  /\ UNCHANGED <<Program, rx, tx, irq_enable, printed, quiet>>

(***************************************************************************)
(* read                                                                    *)
(***************************************************************************)
ReadLooks ==
  /\ Running("read")
  /\ LET available == IF rx.in >= rx.out THEN rx.in - rx.out ELSE BUF_LEN - rx.out
     IN  /\ call' = [call EXCEPT !.in = rx.in, !.out = rx.out, !.n = Least(available, call.left)]
         /\ pc' = CASE available > 0 -> "read_copy"
                    [] available = 0 /\ call.moved -> "read_enable"
                    [] OTHER -> "read_wait"
  /\ UNCHANGED <<Program, rx, tx, irq_enable, printed, history>>

ReadCopies ==
  /\ Running("read_copy")
  /\ call' = [call EXCEPT !.got = [k \in 1 .. call.n |-> rx.buf[call.out + k - 1]]]
  /\ pc' = "read_advance"
  /\ UNCHANGED <<Program, rx, tx, irq_enable, printed, history>>

ReadAdvances ==
  /\ Running("read_advance")
  /\ rx' = [rx EXCEPT !.out = (call.out + call.n) % BUF_LEN]
  /\ call' = [call EXCEPT !.left = @ - call.n, !.n = 0, !.moved = TRUE, !.got = <<>>]
  /\ pc' = IF call.left > call.n THEN "read" ELSE "read_enable"
  /\ UNCHANGED <<Program, tx, irq_enable, printed, history>>

ReadEnables ==
  /\ Running("read_enable")
  /\ irq_enable' = irq_enable \cup {"RE"}
  /\ Return
  /\ UNCHANGED <<Program, rx, tx, printed, history>>

(* The loop around an empty ring: nothing happens in it.  Whether there is *)
(* a character is read once more after it.                                 *)
Silent == host_inactive >= TIMEOUT

ReadStopsWaiting ==
  /\ Running("read_wait") /\ (call.in # rx.in \/ Silent)
  /\ pc' = "read_check" /\ longest' = quiet
  /\ UNCHANGED <<Program, rx, tx, irq_enable, call, printed, quiet>>

ReadChecks ==
  /\ Running("read_check")
  /\ IF call.in = rx.in THEN GiveUp ELSE pc' = "read" /\ UNCHANGED call
  /\ longest' = IF pc' = "failed" THEN longest ELSE 0
  /\ UNCHANGED <<Program, rx, tx, irq_enable, printed, quiet>>

(***************************************************************************)
(* write                                                                   *)
(***************************************************************************)
WriteLooks_LastSlot ==
  /\ Running("write")
  /\ LET room == CASE tx.in < tx.out -> tx.out - 1 - tx.in
                   [] tx.in >= tx.out /\ tx.out > 0 -> BUF_LEN - tx.in
                   [] OTHER -> BUF_LEN - tx.in
         n == Least(room, call.left)
     IN  IF call.left = 0
         THEN pc' = "write_enable" /\ UNCHANGED call
         ELSE /\ call' = [call EXCEPT !.in = tx.in, !.out = tx.out, !.n = n]
              /\ pc' = IF n = 0 THEN "write_enable" ELSE "write_copy"
  /\ UNCHANGED <<Program, rx, tx, irq_enable, printed, history>>

WriteLooks ==
  /\ Running("write")
  /\ LET room == CASE tx.in < tx.out -> tx.out - 1 - tx.in
                   [] tx.in >= tx.out /\ tx.out > 0 -> BUF_LEN - tx.in
                   [] OTHER -> BUF_LEN - 1 - tx.in
         n == Least(room, call.left)
     IN  IF call.left = 0
         THEN pc' = "write_enable" /\ UNCHANGED call
         ELSE /\ call' = [call EXCEPT !.in = tx.in, !.out = tx.out, !.n = n]
              /\ pc' = IF n = 0 THEN "write_enable" ELSE "write_copy"
  /\ UNCHANGED <<Program, rx, tx, irq_enable, printed, history>>

WriteCopies ==
  /\ Running("write_copy")
  /\ tx' = [tx EXCEPT !.buf = [i \in DOMAIN @ |-> IF i - call.in \in 0 .. call.n - 1
                                                   THEN printed + 1 + i - call.in ELSE @[i]]]
  /\ pc' = "write_advance"
  /\ UNCHANGED <<Program, rx, irq_enable, call, printed, history>>

WriteAdvances ==
  /\ Running("write_advance")
  /\ tx' = [tx EXCEPT !.in = (call.in + call.n) % BUF_LEN]
  /\ printed' = printed + call.n
  /\ call' = [call EXCEPT !.left = @ - call.n, !.n = 0, !.moved = TRUE]
  /\ pc' = "write"
  /\ UNCHANGED <<Program, rx, irq_enable, history>>

WriteEnables_WhenFull ==
  /\ Running("write_enable")
  /\ irq_enable' = irq_enable \cup (IF call.left > 0 THEN {"WE"} ELSE {})
  /\ IF call.left > 0 THEN pc' = "write_wait" /\ UNCHANGED call ELSE Return
  /\ UNCHANGED <<Program, rx, tx, printed, history>>

WriteEnables ==
  /\ Running("write_enable")
  /\ irq_enable' = irq_enable \cup {"WE"}
  /\ IF call.left > 0 THEN pc' = "write_wait" /\ UNCHANGED call ELSE Return
  /\ UNCHANGED <<Program, rx, tx, printed, history>>

WriteStopsWaiting_Patient ==
  /\ Running("write_wait") /\ call.out # tx.out
  /\ pc' = "write_check" /\ longest' = quiet
  /\ UNCHANGED <<Program, rx, tx, irq_enable, call, printed, quiet>>

WriteStopsWaiting ==
  /\ Running("write_wait") /\ (call.out # tx.out \/ Silent)
  /\ pc' = "write_check" /\ longest' = quiet
  /\ UNCHANGED <<Program, rx, tx, irq_enable, call, printed, quiet>>

(* The two copies of the driver differ in what they ask here.              *)
WriteChecks ==
  /\ Running("write_check")
  /\ IF IF call.early THEN host_inactive > 0 ELSE call.out = tx.out
     THEN GiveUp ELSE pc' = "write" /\ UNCHANGED call
  /\ longest' = IF pc' = "failed" THEN longest ELSE 0
  /\ UNCHANGED <<Program, rx, tx, irq_enable, printed, quiet>>

(* close, after which no call follows.                                     *)
Close ==
  /\ Running("close") /\ (tx.out = tx.in \/ Silent)
  /\ pc' = "closed" /\ longest' = quiet
  /\ UNCHANGED <<Program, rx, tx, irq_enable, call, printed, quiet>>

(***************************************************************************)
(* The interrupt handler.  data stands for the flag RAVAIL of the last     *)
(* read of the device.                                                     *)
(***************************************************************************)
Stopped == <<host, pc, call, printed, history>>

Interrupt ==
  /\ isr.at = "off" /\ (ReadIrq \/ WriteIrq)
  /\ isr' = [NoIsr EXCEPT !.at = "control"]
  /\ UNCHANGED <<Stopped, driver, device>>

IrqControl_AllFree ==
  /\ isr.at = "control"
  /\ isr' = IF ~ReadIrq /\ ~WriteIrq THEN NoIsr
            ELSE [at    |-> IF ReadIrq THEN "receive" ELSE "transmit",
                  wi    |-> WriteIrq,
                  data  |-> ReadIrq,
                  space |-> IF WriteIrq THEN DEPTH ELSE 0]
  /\ UNCHANGED <<Stopped, driver, device>>

IrqControl ==
  /\ isr.at = "control"
  /\ isr' = IF ~ReadIrq /\ ~WriteIrq THEN NoIsr
            ELSE [at    |-> IF ReadIrq THEN "receive" ELSE "transmit",
                  wi    |-> WriteIrq,
                  data  |-> ReadIrq,
                  space |-> IF WriteIrq THEN DEPTH - Len(wfifo) ELSE 0]
  /\ UNCHANGED <<Stopped, driver, device>>

IrqReceives_Overwrites ==
  /\ isr.at = "receive" /\ rfifo # <<>>
  /\ rx' = [rx EXCEPT !.buf[rx.in] = Head(rfifo), !.in = After(@)]
  /\ rfifo' = Tail(rfifo) /\ pause_irq' = FALSE
  /\ isr' = [isr EXCEPT !.data = Len(rfifo) > 1]
  /\ UNCHANGED <<Stopped, tx, irq_enable, host_inactive, wfifo, ac>>

IrqReceives ==
  /\ isr.at = "receive" /\ ~Full(rx) /\ rfifo # <<>>
  /\ rx' = [rx EXCEPT !.buf[rx.in] = Head(rfifo), !.in = After(@)]
  /\ rfifo' = Tail(rfifo) /\ pause_irq' = FALSE
  /\ isr' = [isr EXCEPT !.data = Len(rfifo) > 1]
  /\ UNCHANGED <<Stopped, tx, irq_enable, host_inactive, wfifo, ac>>

(* The ring is full, or the FIFO empty.  A read of an empty FIFO clears    *)
(* the flag of the host's polls, too.                                      *)
IrqEndsReceiving ==
  /\ isr.at = "receive" /\ (Full(rx) \/ rfifo = <<>>)
  /\ pause_irq' = (pause_irq /\ Full(rx))
  /\ irq_enable' = irq_enable \ (IF Full(rx) /\ isr.data THEN {"RE"} ELSE {})
  /\ isr' = [isr EXCEPT !.at = IF isr.wi THEN "transmit" ELSE "control", !.data = FALSE]
  /\ UNCHANGED <<Stopped, rx, tx, host_inactive, rfifo, wfifo, ac>>

(* The device drops a character for which it has no room.                  *)
IrqTransmits ==
  /\ isr.at = "transmit" /\ isr.space > 0 /\ tx.out # tx.in
  /\ wfifo' = IF Len(wfifo) < DEPTH THEN Append(wfifo, tx.buf[tx.out]) ELSE wfifo
  /\ tx' = [tx EXCEPT !.out = After(@)]
  /\ isr' = [isr EXCEPT !.space = @ - 1]
  /\ UNCHANGED <<Stopped, rx, irq_enable, host_inactive, rfifo, pause_irq, ac>>

IrqEndsTransmitting_Always ==
  /\ isr.at = "transmit" /\ (isr.space = 0 \/ tx.out = tx.in)
  /\ irq_enable' = irq_enable \ {"WE"}
  /\ isr' = [NoIsr EXCEPT !.at = "control"]
  /\ UNCHANGED <<Stopped, rx, tx, host_inactive, device>>

IrqEndsTransmitting ==
  /\ isr.at = "transmit" /\ (isr.space = 0 \/ tx.out = tx.in)
  /\ irq_enable' = irq_enable \ (IF isr.space > 0 THEN {"WE"} ELSE {})
  /\ isr' = [NoIsr EXCEPT !.at = "control"]
  /\ UNCHANGED <<Stopped, rx, tx, host_inactive, device>>

(* The alarm of every second, from the handler of the timer.               *)
Timeout_KeepsCount ==
  /\ isr.at = "off"
  /\ ac' = FALSE
  /\ host_inactive' = IF ac THEN host_inactive
                      ELSE IF host_inactive < INT_MAX - 2 THEN host_inactive + 1 ELSE host_inactive
  /\ quiet' = IF ac THEN 0 ELSE Least(quiet + 1, TIMEOUT)
  /\ longest' = IF pc \in {"read_check", "write_check"} /\ longest < quiet' THEN quiet' ELSE longest
  /\ UNCHANGED <<rx, tx, irq_enable, rfifo, wfifo, pause_irq, host, pc, call, isr, printed>>

Timeout ==
  /\ isr.at = "off"
  /\ ac' = FALSE
  /\ host_inactive' = IF ac THEN 0
                      ELSE IF host_inactive < INT_MAX - 2 THEN host_inactive + 1 ELSE host_inactive
  /\ quiet' = IF ac THEN 0 ELSE Least(quiet + 1, TIMEOUT)
  /\ longest' = IF pc \in {"read_check", "write_check"} /\ longest < quiet' THEN quiet' ELSE longest
  /\ UNCHANGED <<rx, tx, irq_enable, rfifo, wfifo, pause_irq, host, pc, call, isr, printed>>

Reading == ReadLooks \/ ReadCopies \/ ReadAdvances \/ ReadEnables \/ ReadStopsWaiting \/ ReadChecks
Writing == \/ WriteLooks \/ WriteCopies \/ WriteAdvances \/ WriteEnables
           \/ WriteStopsWaiting \/ WriteChecks
Handling == \/ Interrupt \/ IrqControl \/ IrqReceives \/ IrqEndsReceiving
            \/ IrqTransmits \/ IrqEndsTransmitting
Host == HostTypes \/ HostTakes \/ HostPolls \/ HostComesOrGoes
Next == Call \/ Reading \/ Writing \/ ReturnFailed \/ Close \/ Handling \/ Timeout \/ Host

(***************************************************************************)
(* The processor goes on and the alarm rings; a host that is there often   *)
(* enough polls the device and takes what it holds.                        *)
(***************************************************************************)
Fairness == /\ WF_vars(Reading \/ Writing \/ ReturnFailed \/ Close) /\ WF_vars(Handling)
            /\ WF_vars(Timeout) /\ SF_vars(HostTakes) /\ SF_vars(HostPolls)
Spec == Init /\ [][Next]_vars /\ Fairness

Slot == 0 .. BUF_LEN - 1
Char == 0 .. CHARACTERS          \* 0: a slot that was never written
Ring == [buf : [Slot -> Char], in : Slot, out : Slot]
Calls == [n : Nat, left : Nat, in : Slot, out : Slot, moved : BOOLEAN, got : Seq(Char), early : BOOLEAN]
Handlers == [at : {"off", "control", "receive", "transmit"}, wi : BOOLEAN, data : BOOLEAN,
             space : 0 .. DEPTH]

TypeOK ==
  /\ rx \in Ring /\ tx \in Ring
  /\ irq_enable \subseteq {"RE", "WE"}
  /\ host_inactive \in 0 .. INT_MAX - 2
  /\ rfifo \in Seq(Char) /\ Len(rfifo) <= DEPTH
  /\ wfifo \in Seq(Char) /\ Len(wfifo) <= DEPTH
  /\ pause_irq \in BOOLEAN /\ ac \in BOOLEAN /\ connected \in BOOLEAN
  /\ pc \in {"idle", "failed", "close", "closed"} \cup ReadPcs \cup WritePcs
  /\ call \in Calls /\ isr \in Handlers
  /\ typed \in Nat /\ printed \in Nat /\ Entered <= CHARACTERS
  /\ quiet \in 0 .. TIMEOUT /\ longest \in 0 .. TIMEOUT

(* What memcpy is told to copy lies inside the ring, and is no more than   *)
(* the caller asked for, although the other index moves between the look   *)
(* and the copy.                                                           *)
CopiesInside ==
  /\ pc \in {"read_copy", "read_advance"} => call.out + call.n <= BUF_LEN
  /\ pc \in {"write_copy", "write_advance"} => call.in + call.n <= BUF_LEN
  /\ call.n <= call.left

(* The handler never sends more than the FIFO holds.                       *)
RoomIsReal == isr.space <= DEPTH - Len(wfifo)

(* What was read of the other side before - the far index of a ring, the   *)
(* free space of the FIFO - is still good when it is used: nothing is      *)
(* copied past the end of a ring, nor sent into a FIFO that is full.       *)
LooksStayGood == CopiesInside /\ RoomIsReal

(* Reception is switched off only while the ring is full, or while a read  *)
(* that has made room is on its way to switch it on: it cannot stay off    *)
(* with room in the ring and nobody to switch it on.                       *)
ReceptionResumes ==
  \/ "RE" \in irq_enable \/ Full(rx)
  \/ call.moved /\ pc \in {"read", "read_copy", "read_advance", "read_enable"}

(* Characters in the ring of write are being sent, or the write that put   *)
(* them there is on its way to start the handler.                          *)
TransmissionResumes ==
  \/ "WE" \in irq_enable \/ tx.in = tx.out
  \/ pc \in {"write", "write_copy", "write_advance", "write_enable"}

(* Neither direction stays switched off, although the handler and the      *)
(* calls switch the interrupts on and off behind each other's backs.       *)
NeitherStaysOff == ReceptionResumes /\ TransmissionResumes

(* Neither read nor write gives up, nor close a character, before the host *)
(* has been silent for the whole timeout; of the copy that gives up early, *)
(* a second.                                                               *)
GivesUpOnSilence ==
  pc = "failed" \/ (pc = "closed" /\ tx.in # tx.out)
    => longest >= IF call.early THEN 1 ELSE TIMEOUT

(* What was printed reaches the host, what was typed reaches the program:  *)
(* every character once and in order.                                      *)
Outgoing == wfifo \o Contents(tx)
Incoming == Contents(rx) \o rfifo
ToHost == INSTANCE Stream WITH count <- printed, pipe <- Outgoing, last <- taken
FromHost == INSTANCE Stream WITH
  count <- typed, last <- call.got,
  pipe <- SubSeq(Incoming, IF pc = "read_advance" THEN call.n + 1 ELSE 1, Len(Incoming))
OutputInOrder == ToHost!Spec
InputInOrder == FromHost!Spec

(* A write and the close of the program return, whatever the host does.    *)
WritesReturn ==
  pc \in WritePcs \cup {"close"} ~> pc \in {"idle", "failed", "closed"}

(* A read returns when there is a character anywhere on its way to it.     *)
ReadsReturn ==
  (pc \in ReadPcs /\ Incoming # <<>>) ~> pc \in {"idle", "failed"}

(* No call waits for ever, neither for a host that is gone nor for the     *)
(* handler.                                                                *)
CallsReturn == WritesReturn /\ ReadsReturn

(* What was printed reaches a host that does not stay away.                *)
OutputArrives == <>[]~connected \/ (Outgoing # <<>> ~> Outgoing = <<>>)
=============================================================================
