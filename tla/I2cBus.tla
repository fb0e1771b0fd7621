------------------------------- MODULE I2cBus -------------------------------
(***************************************************************************)
(* i2c.c of the HDMI demo: transactions made of START, STOP and bytes, and *)
(* these of single changes of two ports, with a device on the other side   *)
(* of the wires that may leave any byte without an acknowledge.  A second  *)
(* transaction, of an interrupt handler, may begin between any two         *)
(* accesses of the first if Interruptible.                                 *)
(***************************************************************************)
EXTENDS Integers, Sequences, SequencesExt

CONSTANTS
  DEVICE,          \* the address of the device, a byte whose bit 0 is 0
  Registers,       \* the registers that are told apart, and what they hold
  Values,
  Widths,          \* TRUE: the device may have addresses of two bytes (I2CL_...)
  LENGTH,          \* the registers read by I2C_MultipleRead
  Interruptible,
  RESETS,          \* how often the processor may be reset
  AfterReset       \* the registers asked for after that

Byte == 0 .. 255
Word == {x \in Nat : x < 65536}
ASSUME I2cAssumption ==
  /\ DEVICE \in Byte /\ DEVICE % 2 = 0 /\ Widths \subseteq BOOLEAN /\ Interruptible \in BOOLEAN
  /\ Registers \subseteq Word /\ Values \subseteq Byte /\ LENGTH \in Nat /\ RESETS \in Nat

VARIABLES
  scl, sda, dir,   \* the ports: clock, data, and whether data is driven
  wide, device,    \* the other side of the wires
  regs,
  stack,           \* the calls under way, the interrupting one on top
  answer,          \* what the last transaction returned
  taken,           \* history: the device has taken a value since the last Invoke
  resets, since    \* resets so far; transactions completed after the last one

ports == <<scl, sda, dir, wide, device, regs>>
faults == <<resets, since>>
vars == <<ports, stack, answer, taken, faults>>

(***************************************************************************)
(* The functions that change the ports, as sequences of accesses.          *)
(***************************************************************************)
Scl(v) == <<"scl", v>>
Sda(v) == <<"sda", v>>
Dir(v) == <<"dir", v>>
Mask == <<128, 64, 32, 16, 8, 4, 2, 1>>       \* from 0x80, shifted right
BitOf(b, i) == (b \div Mask[i]) % 2
Eight(ops(_)) == ops(1) \o ops(2) \o ops(3) \o ops(4) \o ops(5) \o ops(6) \o ops(7) \o ops(8)

(* Slips that the properties must notice (suffix _...): a byte read        *)
(* acknowledged also when it is the last; and, below, going on after a     *)
(* missing acknowledge.                                                    *)
i2c_read_Acknowledged(ack) ==
  <<Dir(0), Scl(0)>> \o Eight(LAMBDA i : <<Scl(1), <<"sample", 0>>, Scl(0)>>)
    \o <<Scl(0), Dir(1), Sda(0), Scl(1), Scl(0), Sda(0), <<"store", 0>> >>

i2c_start == <<Dir(1), Sda(1), Scl(1), Sda(0), Scl(0)>>

i2c_stop == <<Dir(1), Sda(0), Scl(1), Sda(1)>>

i2c_write(b) ==
  <<Dir(1)>> \o Eight(LAMBDA i : <<Scl(0), Sda(BitOf(b, i)), Scl(1), Scl(0)>>)
    \o <<Dir(0), Scl(1), <<"ack", 0>>, Scl(0)>>

i2c_read(ack) ==
  <<Dir(0), Scl(0)>> \o Eight(LAMBDA i : <<Scl(1), <<"sample", 0>>, Scl(0)>>)
    \o <<Scl(0), Dir(1), Sda(IF ack THEN 0 ELSE 1), Scl(1), Scl(0), Sda(0), <<"store", 0>> >>

(***************************************************************************)
(* The transactions, as sequences of calls.  A call is skipped once a byte *)
(* was not acknowledged, unless it is made in any case.                    *)
(***************************************************************************)
Call(f, ops, always) == [f |-> f, ops |-> ops, always |-> always]
Start == Call("start", i2c_start, TRUE)
Restart == Call("start", i2c_start, FALSE)
Stop == Call("stop", i2c_stop, TRUE)
Send(b) == Call("write", i2c_write(b), FALSE)
Receive(ack) == Call("read", i2c_read(ack), FALSE)

SendAll(bytes) == [i \in DOMAIN bytes |-> Send(bytes[i])]
ReceiveAll(n) == [i \in 1 .. n |-> Receive(i # n)]
High(reg) == reg \div 256
Low(reg) == reg % 256

I2C_Write(reg, value) ==
  <<Start>> \o SendAll(<<DEVICE, reg, value>>) \o <<Stop>>

I2C_Read(reg) ==
  <<Start>> \o SendAll(<<DEVICE, reg>>)
    \o <<Start, Send(DEVICE + 1), Receive(FALSE), Stop>>

I2C_MultipleRead(reg, len) ==
  <<Start>> \o SendAll(<<DEVICE, reg>>)
    \o <<Restart, Send(DEVICE + 1)>> \o ReceiveAll(len) \o <<Stop>>

I2CL_Write(reg, value) ==
  <<Start>> \o SendAll(<<DEVICE, High(reg), Low(reg), value>>) \o <<Stop>>

I2CL_Read(reg) ==
  <<Start>> \o SendAll(<<DEVICE, High(reg), Low(reg)>>)
    \o <<Start, Send(DEVICE + 1), Receive(FALSE), Stop>>

I2CL_MultipleRead(len) ==
  <<Start>> \o SendAll(<<DEVICE, 0, 0>>)
    \o <<Restart, Send(DEVICE + 1)>> \o ReceiveAll(len) \o <<Stop>>

Requests ==
  [kind : {"write"}, reg : Registers, value : Values]
    \cup [kind : {"read"}, reg : Registers, n : {1}]
    \cup [kind : {"read"}, reg : {r \in Registers : r .. (r + LENGTH - 1) \subseteq Registers},
          n : {LENGTH}]

(* Registers that a byte numbers, or any; I2CL_MultipleRead starts at 0.   *)
Possible(r) == IF wide THEN r.kind = "read" /\ r.n > 1 => r.reg = 0 ELSE r.reg \in Byte

Calls(r) ==
  CASE r.kind = "write" -> IF wide THEN I2CL_Write(r.reg, r.value) ELSE I2C_Write(r.reg, r.value)
    [] r.kind = "read" /\ r.n = 1 -> IF wide THEN I2CL_Read(r.reg) ELSE I2C_Read(r.reg)
    [] OTHER -> IF wide THEN I2CL_MultipleRead(r.n) ELSE I2C_MultipleRead(r.reg, r.n)

(***************************************************************************)
(* The device: it takes a bit when the clock rises, and answers when it    *)
(* falls.  pull: it holds the data wire low.                               *)
(***************************************************************************)
Idle == [phase |-> "idle", want |-> "device", bits |-> 0, count |-> 0,
         pull |-> FALSE, pointer |-> 0]
Wire(s, d, dev) == IF (d = 1 /\ s = 0) \/ dev.pull THEN 0 ELSE 1
sda_wire == Wire(sda, dir, device)

Holds(a) == IF a \in Registers THEN regs[a] ELSE 0
SendBit(dev, i) ==
  [dev EXCEPT !.phase = "send", !.count = i, !.pull = BitOf(Holds(dev.pointer), i) = 0]

(* What an acknowledged byte means.                                        *)
Heard ==
  LET b == device.bits IN
  CASE device.want = "device" ->
         [device EXCEPT !.want = IF b = DEVICE + 1 THEN "send"
                                 ELSE IF wide THEN "high" ELSE "low"]
    [] device.want = "high" -> [device EXCEPT !.want = "low", !.pointer = 256 * b]
    [] device.want = "low" ->
         [device EXCEPT !.want = "value", !.pointer = IF wide THEN @ + b ELSE b]
    [] device.want = "value" -> [device EXCEPT !.pointer = @ + 1]

MayAcknowledge ==
  device.want = "device" => device.bits \in {DEVICE, DEVICE + 1}

ClockRises(bit) ==
  /\ device' =
       CASE device.phase = "receive" /\ device.count < 8 ->
              [device EXCEPT !.bits = 2 * @ + bit, !.count = @ + 1]
         [] device.phase = "master" -> [device EXCEPT !.bits = bit]
         [] OTHER -> device
  /\ UNCHANGED <<regs, taken>>

EndOfByte ==
  \/ /\ MayAcknowledge
     /\ device' = [Heard EXCEPT !.phase = "ack", !.pull = TRUE]
     /\ regs' = IF device.want = "value" /\ device.pointer \in Registers
                THEN [regs EXCEPT ![device.pointer] = device.bits] ELSE regs
     /\ taken' = (taken \/ device.want = "value")
  \/ /\ device' = [device EXCEPT !.phase = "ignore"]
     /\ UNCHANGED <<regs, taken>>

ClockFalls ==
  IF device.phase = "receive" /\ device.count = 8 THEN EndOfByte
  ELSE
    /\ device' =
         CASE device.phase = "ack" /\ device.want # "send" ->
                [device EXCEPT !.phase = "receive", !.bits = 0, !.count = 0, !.pull = FALSE]
           [] device.phase = "ack" /\ device.want = "send" -> SendBit(device, 1)
           [] device.phase = "send" /\ device.count < 8 -> SendBit(device, device.count + 1)
           [] device.phase = "send" /\ device.count = 8 ->
                [device EXCEPT !.phase = "master", !.pull = FALSE]
           [] device.phase = "master" /\ device.bits = 0 ->
                SendBit([device EXCEPT !.pointer = @ + 1], 1)
           [] device.phase = "master" /\ device.bits = 1 -> [device EXCEPT !.phase = "ignore"]
           [] OTHER -> device
    /\ UNCHANGED <<regs, taken>>

(* The ports change, and the device sees the wires change.                 *)
Drive(c, s, d) ==
  LET before == sda_wire  after == Wire(s, d, device) IN
  /\ scl' = c /\ sda' = s /\ dir' = d /\ UNCHANGED wide
  /\ CASE scl = 0 /\ c = 1 -> ClockRises(after)
       [] scl = 1 /\ c = 0 -> ClockFalls
       [] scl = 1 /\ c = 1 /\ before = 1 /\ after = 0 ->       \* START
            device' = [Idle EXCEPT !.phase = "receive", !.pointer = device.pointer]
            /\ UNCHANGED <<regs, taken>>
       [] scl = 1 /\ c = 1 /\ before = 0 /\ after = 1 ->       \* STOP
            device' = [Idle EXCEPT !.pointer = device.pointer] /\ UNCHANGED <<regs, taken>>
       [] OTHER -> UNCHANGED <<device, regs, taken>>

(***************************************************************************)
(* The processor.                                                          *)
(***************************************************************************)
SINCE == 3                 \* since counts no further
Recovered == since = SINCE

(* A bound: what is asked for after a reset; once the bus has recovered,   *)
(* only a read.                                                            *)
Asked(r) == resets > 0 => r.reg \in AfterReset /\ (Recovered => r.kind = "read")

NoRequest == [kind |-> "none"]
NoAnswer == [ok |-> FALSE, data |-> << >>]

Init ==
  /\ scl = 1 /\ sda = 1 /\ dir = 0
  /\ wide \in Widths /\ device = Idle /\ regs \in [Registers -> Values]
  /\ stack = << >> /\ answer = NoAnswer /\ taken = FALSE /\ resets = 0 /\ since = SINCE

Top == stack[Len(stack)]
SetTop(c) == stack' = [stack EXCEPT ![Len(stack)] = c]

Invoke(r) ==
  /\ Possible(r) /\ Asked(r) /\ (stack = << >> \/ (Interruptible /\ Len(stack) = 1))
  /\ stack' = Append(stack, [request |-> r, calls |-> Calls(r), ops |-> << >>,
                             bSuccess |-> TRUE, byte |-> 0, data |-> << >>])
  /\ answer' = NoAnswer /\ taken' = FALSE
  /\ UNCHANGED <<ports, faults>>

Made_Always(call) == TRUE
Made(call) == Top.bSuccess \/ call.always

Running == stack # << >> /\ (Top.ops # << >> \/ Top.calls # << >>)

NextCall ==
  /\ Running /\ Top.ops = << >>
  /\ LET call == Head(Top.calls) IN
     SetTop([Top EXCEPT !.calls = Tail(@), !.byte = 0,
                        !.ops = IF Made(call) THEN call.ops ELSE << >>])
  /\ UNCHANGED <<ports, answer, taken, faults>>

Access ==
  /\ Running /\ Top.ops # << >>
  /\ LET op == Head(Top.ops)  rest == [Top EXCEPT !.ops = Tail(@)] IN
     \/ /\ op[1] \in {"scl", "sda", "dir"} /\ SetTop(rest)
        /\ Drive(IF op[1] = "scl" THEN op[2] ELSE scl, IF op[1] = "sda" THEN op[2] ELSE sda,
                 IF op[1] = "dir" THEN op[2] ELSE dir)
     \/ /\ op[1] \in {"ack", "sample", "store"}
        /\ SetTop(CASE op[1] = "ack" -> [rest EXCEPT !.bSuccess = sda_wire = 0]
                    [] op[1] = "sample" -> [rest EXCEPT !.byte = 2 * @ + sda_wire]
                    [] op[1] = "store" -> [rest EXCEPT !.data = Append(@, Top.byte)])
        /\ UNCHANGED <<ports, taken>>
  /\ UNCHANGED <<answer, faults>>

Return ==
  /\ stack # << >> /\ ~Running
  /\ stack' = Front(stack)
  /\ answer' = [ok |-> Top.bSuccess, data |-> Top.data]
  /\ since' = IF Top.request # NoRequest /\ since < SINCE THEN since + 1 ELSE since
  /\ UNCHANGED <<ports, taken, resets>>

(* The reset of the processor resets the two ports, one before the other,  *)
(* in the middle of whatever is under way; the device is not reset.        *)
ResetPorts == {<<Scl(1), Dir(0), Sda(1)>>, <<Dir(0), Sda(1), Scl(1)>>}
Reset ==
  /\ resets < RESETS /\ resets' = resets + 1 /\ since' = 0
  /\ \E ops \in ResetPorts :
       stack' = <<[request |-> NoRequest, calls |-> << >>, ops |-> ops,
                   bSuccess |-> FALSE, byte |-> 0, data |-> << >>]>>
  /\ UNCHANGED <<ports, answer, taken>>

Step == NextCall \/ Access \/ Return
Next == Step \/ Reset \/ \E r \in Requests : Invoke(r)

Spec == Init /\ [][Next]_vars /\ WF_vars(Step)

(***************************************************************************)
(* Properties.                                                             *)
(***************************************************************************)
TypeOK ==
  /\ {scl, sda, dir} \subseteq {0, 1}
  /\ regs \in [Registers -> Byte]
  /\ device.bits \in Byte /\ device.count \in 0 .. 8
  /\ Len(stack) \in 0 .. 2 /\ \A i \in DOMAIN stack : stack[i].byte \in Byte

(* The types hold, and between transactions the wires are free and the     *)
(* device waits for a START, also after a byte that was not acknowledged.  *)
(* A reset may leave the device in the middle of a byte that it sends,     *)
(* holding the data wire; "make sure it is in normal state" (i2c.c 176).   *)
(* The third transaction after it at the latest finds the bus free again.  *)
BusReleased ==
  /\ TypeOK
  /\ stack = << >> /\ Recovered => scl = 1 /\ sda_wire = 1 /\ device.phase = "idle"

(* "assume SCL = 0" (i2c.c 194, 213, 251): so i2c_stop, i2c_write and      *)
(* i2c_read expect to find the clock.                                      *)
EntryClockLow ==
  stack # << >> /\ Running /\ Top.ops = << >> =>
    LET call == Head(Top.calls) IN Made(call) /\ call.f # "start" => scl = 0

(* The bits on the wires do what a register file promises: a request       *)
(* succeeds as a whole or changes nothing.  Not until the bus has          *)
(* recovered from a reset.                                                 *)
pending == {stack[i].request : i \in DOMAIN stack}
Registered == INSTANCE RegisterFile WITH applied <- taken
ActsAsRegisters ==
  /\ Registered!Init
  /\ [][Recovered /\ Recovered' => Registered!Next]_(Registered!vars)
  /\ []<>(stack = << >>)
=============================================================================
