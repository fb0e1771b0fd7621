-------------------------- MODULE HdmiDriverProofs --------------------------
(***************************************************************************)
(* What the interrupt handler of the HDMI demo guarantees, for every number *)
(* of retries, of failing transactions and of EDID bytes: the interrupts are *)
(* enabled again, they are masked over a configured transmitter only, and no *)
(* news of a monitor is lost.                                              *)
(*                                                                         *)
(* First, what each program of transactions changes and leaves (Changed,   *)
(* Ends); then, what is left of a program while it runs (TypeInv, Fresh,   *)
(* Programs: Typed) and that it ends as it would alone, because the main   *)
(* program and the handler do not touch each other's registers (Configures); *)
(* then the three guarantees, each with its own invariant of the handler's *)
(* phases: Reenabled, Masked and, of what is noticed when, Looking with    *)
(* Noticed.                                                                *)
(***************************************************************************)
EXTENDS HdmiDriver, SequenceTheorems, TLAPS

(***************************************************************************)
(* Programs: sequences of transactions of which each that changes a        *)
(* register comes right after the one that reads it.                       *)
(***************************************************************************)
Octet == SUBSET (0 .. 7)
Flags == {\h93, \h96, \h97}        \* cleared by ones
Plain == RegisterNumbers \ (Flags \cup {\h42})

Reads == [op : {"read"}, reg : RegisterNumbers] \cup [op : {"read edid"}, reg : Int]
Writes == [op : {"write"}, reg : RegisterNumbers, data : Octet]
Modifies == {t \in [op : {"modify"}, reg : Plain, mask : Octet, data : Octet] : t.data \subseteq t.mask}
Transactions == Reads \cup Writes \cup Modifies

LEMMA TransactionFacts ==
  ASSUME NEW t \in Transactions
  PROVE  /\ t.op \in {"read", "read edid", "write", "modify"}
         /\ t.op = "read" => t.reg \in RegisterNumbers
         /\ t.op = "write" => t.reg \in RegisterNumbers /\ t.data \in Octet
         /\ t.op = "modify" => /\ t.reg \in Plain /\ t.mask \in Octet /\ t.data \in Octet
                               /\ t.data \subseteq t.mask
BY DEF Transactions, Reads, Writes, Modifies

Paired(s) ==
  \A i \in 1 .. Len(s) :
    s[i].op = "modify" => i > 1 /\ s[i - 1].op = "read" /\ s[i - 1].reg = s[i].reg
Routine(s) == s \in Seq(Transactions) /\ Paired(s)

(* The registers that a program changes.                                   *)
Changes(t) == t.op \in {"write", "modify"}
Changed(s) == {s[i].reg : i \in {j \in 1 .. Len(s) : Changes(s[j])}}

(* A program leaves the bits in m of register r as those in d; or it does  *)
(* not touch them.                                                         *)
Sets(t, r, m) == Changes(t) /\ t.reg = r /\ (t.op = "modify" => m \subseteq t.mask)
Touches(t, r, m) == Changes(t) /\ t.reg = r /\ (t.op = "modify" => m \cap t.mask # {})
Ends(s, r, m, d) ==
  \E i \in 1 .. Len(s) :
    /\ Sets(s[i], r, m) /\ s[i].data \cap m = d
    /\ \A j \in 1 .. Len(s) : j > i => ~Touches(s[j], r, m)
Leaves(s, r, m) == \A i \in 1 .. Len(s) : ~Touches(s[i], r, m)

LEMMA ReadIs ==
  ASSUME NEW r \in RegisterNumbers
  PROVE  Routine(reg_read(r)) /\ Changed(reg_read(r)) = {}
<1> DEFINE s == reg_read(r)
<1>1. s = <<[op |-> "read", reg |-> r]>> /\ [op |-> "read", reg |-> r] \in Transactions
  BY DEF reg_read, Transactions, Reads
<1>2. Len(s) = 1 /\ s \in Seq(Transactions) /\ s[1].op = "read"
  BY <1>1
<1> HIDE DEF s
<1>3. Routine(s) /\ Changed(s) = {}
  BY <1>2 DEF Routine, Paired, Changed, Changes
<1> QED BY <1>3 DEF s

LEMMA WriteIs ==
  ASSUME NEW r \in RegisterNumbers, NEW data
  PROVE  /\ Routine(reg_write(r, data)) /\ Changed(reg_write(r, data)) = {r}
         /\ \A m \in Octet : Ends(reg_write(r, data), r, m, Bits(data) \cap m)
<1> DEFINE s == reg_write(r, data)
           t == [op |-> "write", reg |-> r, data |-> Bits(data)]
<1>1. s = <<t>> /\ t \in Transactions
  <2>1. Bits(data) \in Octet
    BY DEF Bits, Octet
  <2> QED BY <2>1 DEF reg_write, Transactions, Writes
<1>2. t.op = "write" /\ t.reg = r /\ t.data = Bits(data)
  OBVIOUS
<1> HIDE DEF t
<1>3. Len(s) = 1 /\ s \in Seq(Transactions) /\ s[1] = t
  BY <1>1
<1> HIDE DEF s
<1>4. Routine(s)
  BY <1>2, <1>3 DEF Routine, Paired
<1>5. Changed(s) = {r}
  <2>1. \A j \in 1 .. Len(s) : Changes(s[j]) /\ s[j].reg = r
    BY <1>2, <1>3 DEF Changes
  <2>2. 1 \in 1 .. Len(s)
    BY <1>3
  <2> QED BY <2>1, <2>2 DEF Changed
<1>6. ASSUME NEW m \in Octet PROVE Ends(s, r, m, Bits(data) \cap m)
  BY <1>2, <1>3 DEF Ends, Sets, Changes
<1> QED BY <1>4, <1>5, <1>6 DEF s

LEMMA UpdateIs ==
  ASSUME NEW r \in Plain, NEW mask, NEW data
  PROVE  /\ Routine(reg_update_bits(r, mask, data)) /\ Changed(reg_update_bits(r, mask, data)) = {r}
         /\ \A m \in SUBSET Bits(mask) : Ends(reg_update_bits(r, mask, data), r, m, Bits(data) \cap m)
         /\ \A m \in Octet : m \cap Bits(mask) = {} => Leaves(reg_update_bits(r, mask, data), r, m)
<1> DEFINE s == reg_update_bits(r, mask, data)
           a == [op |-> "read", reg |-> r]
           t == [op |-> "modify", reg |-> r, mask |-> Bits(mask), data |-> Bits(data) \cap Bits(mask)]
<1>1. a \in Transactions
  BY DEF Transactions, Reads, Plain
<1>2. t \in Transactions
  <2>1. Bits(data) \in Octet /\ Bits(mask) \in Octet
    BY DEF Bits, Octet
  <2>2. Bits(data) \cap Bits(mask) \in Octet
    BY <2>1 DEF Octet
  <2> QED BY <2>1, <2>2 DEF Transactions, Modifies
<1>3. t.op = "modify" /\ t.reg = r /\ t.mask = Bits(mask) /\ t.data = Bits(data) \cap Bits(mask)
      /\ a.op = "read" /\ a.reg = r
  OBVIOUS
<1>4. s = <<a, t>>
  BY DEF reg_update_bits
<1> HIDE DEF t, a
<1>5. Len(s) = 2 /\ s \in Seq(Transactions) /\ s[1] = a /\ s[2] = t
  BY <1>1, <1>2, <1>4
<1> HIDE DEF s
<1>6. \A i \in 1 .. Len(s) : i = 1 \/ i = 2
  BY <1>5
<1>7. Routine(s)
  BY <1>3, <1>5, <1>6 DEF Routine, Paired
<1>8. Changed(s) = {r}
  <2>1. \A j \in 1 .. Len(s) : s[j].reg = r
    BY <1>3, <1>5, <1>6
  <2>2. 2 \in 1 .. Len(s) /\ Changes(s[2])
    BY <1>3, <1>5 DEF Changes
  <2> QED BY <2>1, <2>2 DEF Changed
<1>9. ASSUME NEW m \in SUBSET Bits(mask) PROVE Ends(s, r, m, Bits(data) \cap m)
  <2>1. 2 \in 1 .. Len(s) /\ Sets(s[2], r, m)
    BY <1>3, <1>5 DEF Sets, Changes
  <2>2. s[2].data \cap m = Bits(data) \cap m
    BY <1>3, <1>5
  <2>3. \A j \in 1 .. Len(s) : ~(j > 2)
    BY <1>5
  <2> QED BY <2>1, <2>2, <2>3 DEF Ends
<1>10. ASSUME NEW m \in Octet, m \cap Bits(mask) = {} PROVE Leaves(s, r, m)
  BY <1>3, <1>5, <1>6, <1>10 DEF Leaves, Touches, Changes
<1> QED BY <1>7, <1>8, <1>9, <1>10 DEF s

LEMMA JoinIs ==
  ASSUME NEW s, NEW t, Routine(s), Routine(t)
  PROVE  Routine(s \o t) /\ Changed(s \o t) = Changed(s) \cup Changed(t)
<1> DEFINE u == s \o t
<1>1. s \in Seq(Transactions) /\ t \in Seq(Transactions) /\ Len(s) \in Nat /\ Len(t) \in Nat
  BY DEF Routine
<1>0. u \in Seq(Transactions)
  BY <1>1
<1>2. /\ Len(u) = Len(s) + Len(t)
      /\ \A i \in 1 .. Len(u) : u[i] = IF i <= Len(s) THEN s[i] ELSE t[i - Len(s)]
  BY <1>1
<1> HIDE DEF u
<1>3. /\ \A i \in 1 .. Len(s) : i \in 1 .. Len(u) /\ u[i] = s[i]
      /\ \A i \in 1 .. Len(t) : i + Len(s) \in 1 .. Len(u) /\ u[i + Len(s)] = t[i]
      /\ \A i \in 1 .. Len(u) :
           i \in 1 .. Len(s) \/ (i - Len(s) \in 1 .. Len(t) /\ u[i] = t[i - Len(s)])
  BY <1>1, <1>2
<1>4. Paired(u)
  <2> SUFFICES ASSUME NEW i \in 1 .. Len(u), u[i].op = "modify"
               PROVE  i > 1 /\ u[i - 1].op = "read" /\ u[i - 1].reg = u[i].reg
    BY DEF Paired
  <2>1. CASE i \in 1 .. Len(s)
    <3>1. i > 1 /\ s[i - 1].op = "read" /\ s[i - 1].reg = s[i].reg
      BY <1>3, <2>1 DEF Routine, Paired
    <3>2. i - 1 \in 1 .. Len(s)
      BY <2>1, <3>1
    <3> QED BY <1>3, <2>1, <3>1, <3>2
  <2>2. CASE i \notin 1 .. Len(s)
    <3> DEFINE k == i - Len(s)
    <3>1. k \in 1 .. Len(t) /\ u[i] = t[k]
      BY <1>3, <2>2
    <3>2. k > 1 /\ t[k - 1].op = "read" /\ t[k - 1].reg = t[k].reg
      BY <3>1 DEF Routine, Paired
    <3>3. k - 1 \in 1 .. Len(t) /\ (k - 1) + Len(s) = i - 1
      BY <1>1, <3>1, <3>2
    <3>4. u[i - 1] = t[k - 1]
      BY <1>3, <3>3
    <3> QED BY <1>1, <3>1, <3>2, <3>4
  <2> QED BY <2>1, <2>2
<1>5. Changed(u) = Changed(s) \cup Changed(t)
  <2>1. \A i \in 1 .. Len(s) : Changes(s[i]) => s[i].reg \in Changed(u)
    BY <1>3 DEF Changed
  <2>2. \A i \in 1 .. Len(t) : Changes(t[i]) => t[i].reg \in Changed(u)
    BY <1>3 DEF Changed
  <2>3. \A i \in 1 .. Len(u) : Changes(u[i]) => u[i].reg \in Changed(s) \cup Changed(t)
    BY <1>3 DEF Changed
  <2> QED BY <2>1, <2>2, <2>3 DEF Changed
<1> QED BY <1>0, <1>4, <1>5 DEF u, Routine

(* What the end of a joined program leaves, and what its beginning leaves  *)
(* if the end does not touch it.                                           *)
LEMMA JoinLeaves ==
  ASSUME NEW s, NEW t, Routine(s), Routine(t), NEW r, NEW m, NEW d
  PROVE  /\ Ends(t, r, m, d) => Ends(s \o t, r, m, d)
         /\ Ends(s, r, m, d) /\ Leaves(t, r, m) => Ends(s \o t, r, m, d)
         /\ Leaves(s, r, m) /\ Leaves(t, r, m) => Leaves(s \o t, r, m)
<1> DEFINE u == s \o t
<1>1. s \in Seq(Transactions) /\ t \in Seq(Transactions) /\ Len(s) \in Nat /\ Len(t) \in Nat
  BY DEF Routine
<1>2. /\ Len(u) = Len(s) + Len(t)
      /\ \A i \in 1 .. Len(u) : u[i] = IF i <= Len(s) THEN s[i] ELSE t[i - Len(s)]
  BY <1>1
<1> HIDE DEF u
<1>3. /\ \A i \in 1 .. Len(s) : i \in 1 .. Len(u) /\ u[i] = s[i]
      /\ \A i \in 1 .. Len(t) : i + Len(s) \in 1 .. Len(u) /\ u[i + Len(s)] = t[i]
      /\ \A i \in 1 .. Len(u) :
           i \in 1 .. Len(s) \/ (i - Len(s) \in 1 .. Len(t) /\ u[i] = t[i - Len(s)])
  BY <1>1, <1>2
<1>4. ASSUME Ends(t, r, m, d) PROVE Ends(u, r, m, d)
  <2>1. PICK k \in 1 .. Len(t) : /\ Sets(t[k], r, m) /\ t[k].data \cap m = d
                                 /\ \A j \in 1 .. Len(t) : j > k => ~Touches(t[j], r, m)
    BY <1>4 DEF Ends
  <2> DEFINE i == k + Len(s)
  <2>2. i \in 1 .. Len(u) /\ u[i] = t[k]
    BY <1>3
  <2>3. ASSUME NEW j \in 1 .. Len(u), j > i PROVE ~Touches(u[j], r, m)
    <3>1. j - Len(s) \in 1 .. Len(t) /\ j - Len(s) > k /\ u[j] = t[j - Len(s)]
      BY <1>1, <1>3, <2>3
    <3> QED BY <2>1, <3>1
  <2> HIDE DEF i
  <2> QED BY <2>1, <2>2, <2>3 DEF Ends
<1>5. ASSUME Ends(s, r, m, d), Leaves(t, r, m) PROVE Ends(u, r, m, d)
  <2>1. PICK k \in 1 .. Len(s) : /\ Sets(s[k], r, m) /\ s[k].data \cap m = d
                                 /\ \A j \in 1 .. Len(s) : j > k => ~Touches(s[j], r, m)
    BY <1>5 DEF Ends
  <2>2. k \in 1 .. Len(u) /\ u[k] = s[k]
    BY <1>3
  <2>3. ASSUME NEW j \in 1 .. Len(u), j > k PROVE ~Touches(u[j], r, m)
    <3>1. CASE j \in 1 .. Len(s)
      BY <1>3, <2>1, <2>3, <3>1
    <3>2. CASE j \notin 1 .. Len(s)
      BY <1>3, <1>5, <3>2 DEF Leaves
    <3> QED BY <3>1, <3>2
  <2> QED BY <2>1, <2>2, <2>3 DEF Ends
<1>6. ASSUME Leaves(s, r, m), Leaves(t, r, m) PROVE Leaves(u, r, m)
  BY <1>3, <1>6 DEF Leaves
<1> QED BY <1>4, <1>5, <1>6 DEF u

LEMMA Unchanged == ASSUME NEW s, NEW m, NEW r, r \notin Changed(s) PROVE Leaves(s, r, m)
BY DEF Leaves, Touches, Changed

(***************************************************************************)
(* The invariant.                                                          *)
(***************************************************************************)
MainPhases == {"identify", "setup", "kick", "prompt", "i", "v", "o", "initialize", "exit"}
HandlerPhases ==
  {"idle", "status", "disable", "sense", "powerup", "edid", "init", "power", "check",
   "unplugged", "plugged"}
Process(phases) == [phase : phases, todo : Seq(Transactions), regv : Octet, failed : BOOLEAN]

(* What is left of a program.                                              *)
PairedRest(s) ==
  \A i \in 2 .. Len(s) :
    s[i].op = "modify" => s[i - 1].op = "read" /\ s[i - 1].reg = s[i].reg

TypeInv ==
  /\ regs \in [RegisterNumbers -> Octet]
  /\ hpd \in BOOLEAN /\ receiver \in BOOLEAN /\ sense \in BOOLEAN /\ irq \in BOOLEAN
  /\ main \in Process(MainPhases) /\ handler \in Process(HandlerPhases)
  /\ dvi_mode \in BOOLEAN /\ sense_retries \in 0 .. SENSES /\ pwron_retries = POWERONS
  /\ nacks \in Nat /\ given \in Nat
  /\ handler.phase = "idle" => handler = Idle
  /\ handler.phase = "sense" => sense_retries >= 1
  /\ handler.phase \in {"status", "disable"} => sense_retries = SENSES

(* The handler changes a register right after it has read it.              *)
Fresh ==
  /\ PairedRest(handler.todo)
  /\ handler.todo # << >> /\ Head(handler.todo).op = "modify"
       => handler.regv = regs[Head(handler.todo).reg]

InitRegs == {\h15, \h16, \h17, \h18, \h40, \h44, \h4a, \h4c, \h55, \h56, \h57, \haf} \cup \h59 .. \h61
PowerupRegs == {\h41, \h98, \h9a, \h9c, \h9d, \ha2, \ha3, \he0, \h96}
MaskRegs == {\h92, \h94, \h95}
SetupRegs == \h92 .. \h97

MayChange(phase) ==
  CASE phase \in {"kick", "o"} -> {\h41}
    [] phase = "setup" -> SetupRegs
    [] phase \in {"i", "v", "powerup"} -> PowerupRegs
    [] phase \in {"initialize", "init"} -> InitRegs
    [] phase = "disable" -> MaskRegs \cup Flags
    [] phase \in {"unplugged", "plugged"} -> MaskRegs
    [] OTHER -> {}

OnlyWrites(s) == \A i \in 1 .. Len(s) : s[i].op = "write"
Puts(s, r, v) ==
  \A i \in 1 .. Len(s) :
    Changes(s[i]) /\ s[i].reg = r => s[i].op = "write" /\ s[i].data = v
Clears41(s) ==
  \A i \in 1 .. Len(s) :
    Changes(s[i]) => s[i].op = "modify" /\ 6 \in s[i].mask /\ 6 \notin s[i].data

Will(s, r, m, d) == Ends(s, r, m, d) \/ (Leaves(s, r, m) /\ regs[r] \cap m = d)

Within ==
  /\ Changed(main.todo) \subseteq MayChange(main.phase)
  /\ Changed(handler.todo) \subseteq MayChange(handler.phase)
HandlerWrites ==
  /\ handler.phase \in {"disable", "unplugged", "plugged"} => OnlyWrites(handler.todo)
  /\ handler.phase = "disable" => Puts(handler.todo, \h94, {})
  /\ handler.phase = "unplugged" => Puts(handler.todo, \h94, {6, 7})
  /\ handler.phase = "plugged" => Puts(handler.todo, \h94, {7})
MainWrites ==
  /\ main.phase = "kick" => Clears41(main.todo)
  /\ main.phase = "setup" => OnlyWrites(main.todo)
  /\ main.phase = "setup" /\ ~main.failed => Will(main.todo, \h94, 0 .. 7, {6, 7})
Failures == main.failed \/ handler.failed => nacks > 0
Obeys ==
  /\ given = 0 => main.phase \notin {"i", "v", "o", "initialize"}
  /\ Commands \subseteq {"o"} => main.phase \notin {"i", "v", "initialize"}
Starting ==
  /\ irq => main.phase \notin {"identify", "setup", "exit"}
  /\ ~irq => /\ main.phase \in {"identify", "setup", "exit"} /\ handler = Idle
             /\ ~sense /\ 6 \in regs[\h41]
Programs == Within /\ HandlerWrites /\ MainWrites /\ Failures /\ Obeys /\ Starting

(* adv7513_chip_init leaves these bits.                                    *)
Mode(bit) == IF dvi_mode THEN {} ELSE {bit}
Up == 6 \notin regs[\h41] /\ regs[\he0] = Bits(\hd0)
Configures ==
  /\ handler.phase = "powerup" /\ ~handler.failed =>
       Will(handler.todo, \h41, {6}, {}) /\ Will(handler.todo, \he0, 0 .. 7, Bits(\hd0))
  /\ handler.phase \in {"edid", "init"} => Up
  /\ handler.phase = "init" /\ ~handler.failed =>
       /\ Will(handler.todo, \haf, {1}, Mode(1)) /\ Will(handler.todo, \h40, {7}, Mode(7))
       /\ Will(handler.todo, \h44, {4}, {4})
       /\ Will(handler.todo, \h4a, {7}, {7}) /\ Will(handler.todo, \h4a, {6}, {})
  /\ handler.phase \in {"power", "check", "plugged"} => Configured

Reenabled ==
  nacks = 0 /\ irq =>
    /\ handler.phase \in {"idle", "status"} => 7 \in regs[\h94]
    /\ handler.phase \in {"unplugged", "plugged"} => 7 \in regs[\h94] \/ \h94 \in Changed(handler.todo)

Hidden == regs[\h94] = {7}       \* the monitor-sense interrupt is masked
Masked ==
  given = 0 /\ irq /\ Hidden =>
    /\ handler.phase \in {"idle", "status", "disable", "sense"} => Configured \/ nacks >= 3
    /\ handler.phase = "disable" => nacks >= 1 \/ \h94 \in Changed(handler.todo)
    /\ handler.phase \in {"sense", "powerup", "edid", "init"} => nacks >= 1
    /\ handler.phase \in {"powerup", "init"} /\ handler.failed => nacks >= 2
    /\ handler.phase = "unplugged" =>
         Configured \/ nacks >= 3 \/ (nacks >= 2 /\ \h94 \in Changed(handler.todo))

(* The flags are read in the order of their registers.                     *)
IsRead(t, r) == t.op = "read" /\ t.reg = r
ReadsFlags(s) ==
  \/ Len(s) = 3 /\ IsRead(s[1], \h93) /\ IsRead(s[2], \h96) /\ IsRead(s[3], \h97)
  \/ Len(s) = 2 /\ IsRead(s[1], \h96) /\ IsRead(s[2], \h97)
  \/ Len(s) = 1 /\ IsRead(s[1], \h97)
  \/ Len(s) = 0

(* Configured, if it is not powered down.                                  *)
Lit ==
  /\ regs[\he0] = Bits(\hd0) /\ 4 \in regs[\h44] /\ 7 \in regs[\h4a] /\ 6 \notin regs[\h4a]
  /\ ModesAgree
News == regs[\h96] \cap {6, 7} # {}
Known == Lit \/ ~(hpd /\ sense)
Seen == \E s \in status : s[1] = \h96
(* What the handler has seen of the flags.                                 *)
Looking ==
  /\ regs[\h96] \subseteq {6, 7}
  /\ handler.phase = "status" => ReadsFlags(handler.todo) /\ (Len(handler.todo) = 2 => ~Seen)
  /\ handler.phase = "sense" => \A i \in 1 .. Len(handler.todo) : IsRead(handler.todo[i], \h42)
  /\ Seen => HotPlug
  /\ handler.phase = "disable" /\ ~HotPlug => \h96 \notin Changed(handler.todo)

Pending == News \/ Known
Noticed ==
  nacks = 0 /\ irq =>
    /\ handler.phase = "idle" => Lit \/ ({6, 7} \subseteq regs[\h94] /\ Pending)
    /\ handler.phase = "status" => Pending \/ (Len(handler.todo) <= 1 /\ HotPlug)
    /\ handler.phase = "disable" => Pending \/ HotPlug
    /\ handler.phase = "sense" => handler.todo # << >> \/ {5, 6} \subseteq handler.regv \/ Pending
    /\ handler.phase = "unplugged" =>
         Lit \/ (({6, 7} \subseteq regs[\h94] \/ \h94 \in Changed(handler.todo)) /\ Pending)

(***************************************************************************)
(* The programs of adv7513.c and main.c.                                   *)
(***************************************************************************)
LEMMA Registers ==
  /\ InitRegs \subseteq Plain /\ {\h41, \h98, \h9a, \h9c, \h9d, \ha2, \ha3, \he0} \subseteq Plain
  /\ MaskRegs \subseteq Plain /\ SetupRegs \subseteq RegisterNumbers
  /\ {0, \hf5, \hf6, \h41, \h42} \subseteq RegisterNumbers
BY DEF InitRegs, MaskRegs, SetupRegs, Plain, Flags, RegisterNumbers

LEMMA BitsAre ==
  /\ Bits(\h40) = {6} /\ Bits(\h80) = {7} /\ Bits(\hc0) = {6, 7} /\ Bits(\h82) = {1, 7}
  /\ Bits(\h10) = {4} /\ Bits(0) = {} /\ Bits(2) = {1} /\ Bits(\hff) = 0 .. 7
BY DEF Bits, Power


(* A program of the driver: what it may change and what it does there.     *)
Built(s, S) == Routine(s) /\ Changed(s) \subseteq S

LEMMA JoinBuilt ==
  ASSUME NEW s, NEW t, NEW S, Built(s, S), Built(t, S)
  PROVE  Built(s \o t, S)
BY JoinIs DEF Built

LEMMA JoinWrites ==
  ASSUME NEW s, NEW t, Routine(s), Routine(t), NEW r, NEW v
  PROVE  /\ OnlyWrites(s) /\ OnlyWrites(t) => OnlyWrites(s \o t)
         /\ Puts(s, r, v) /\ Puts(t, r, v) => Puts(s \o t, r, v)
<1> DEFINE u == s \o t
<1>1. s \in Seq(Transactions) /\ t \in Seq(Transactions) /\ Len(s) \in Nat /\ Len(t) \in Nat
  BY DEF Routine
<1>2. /\ Len(u) = Len(s) + Len(t)
      /\ \A i \in 1 .. Len(u) : u[i] = IF i <= Len(s) THEN s[i] ELSE t[i - Len(s)]
  BY <1>1
<1> HIDE DEF u
<1>3. \A i \in 1 .. Len(u) : \/ i \in 1 .. Len(s) /\ u[i] = s[i]
                             \/ i - Len(s) \in 1 .. Len(t) /\ u[i] = t[i - Len(s)]
  BY <1>1, <1>2
<1>4. OnlyWrites(s) /\ OnlyWrites(t) => OnlyWrites(u)
  BY <1>3 DEF OnlyWrites
<1>5. Puts(s, r, v) /\ Puts(t, r, v) => Puts(u, r, v)
  BY <1>3 DEF Puts
<1> QED BY <1>4, <1>5 DEF u

LEMMA WritesOnly ==
  ASSUME NEW r \in RegisterNumbers, NEW data, NEW q
  PROVE  /\ OnlyWrites(reg_write(r, data))
         /\ Puts(reg_write(r, data), r, Bits(data))
         /\ r # q => \A v : Puts(reg_write(r, data), q, v)
<1> DEFINE s == reg_write(r, data)
           t == [op |-> "write", reg |-> r, data |-> Bits(data)]
<1>1. s = <<t>> /\ t.op = "write" /\ t.reg = r /\ t.data = Bits(data)
  BY DEF reg_write
<1> HIDE DEF t
<1>2. Len(s) = 1 /\ s[1] = t
  BY <1>1
<1> HIDE DEF s
<1>3. \A i \in 1 .. Len(s) : s[i] = t
  BY <1>2
<1>4. OnlyWrites(s) /\ Puts(s, r, Bits(data)) /\ (r # q => \A v : Puts(s, q, v))
  BY <1>1, <1>3 DEF OnlyWrites, Puts
<1> QED BY <1>4 DEF s

LEMMA IdentifyIs == Routine(adv7513_chip_identify) /\ Changed(adv7513_chip_identify) = {}
<1> DEFINE a == reg_read(\h00)  b == reg_read(\hf6)  c == reg_read(\hf5)
<1>1. /\ Routine(a) /\ Routine(b) /\ Routine(c)
      /\ Changed(a) = {} /\ Changed(b) = {} /\ Changed(c) = {}
  BY ReadIs, Registers
<1> HIDE DEF a, b, c
<1>2. Routine(a \o b) /\ Changed(a \o b) = {}
  BY <1>1, JoinIs
<1>3. Routine((a \o b) \o c) /\ Changed((a \o b) \o c) = {}
  BY <1>1, <1>2, JoinIs
<1> QED BY <1>3 DEF adv7513_chip_identify, a, b, c


LEMMA FlagsAre ==
  /\ Routine(read_flags) /\ Changed(read_flags) = {}
  /\ ReadsFlags(read_flags) /\ Len(read_flags) = 3
<1> DEFINE s == read_flags
           a == [op |-> "read", reg |-> \h93]
           b == [op |-> "read", reg |-> \h96]
           c == [op |-> "read", reg |-> \h97]
<1>1. s = <<a, b, c>>
  BY DEF read_flags
<1>2. /\ IsRead(a, \h93) /\ IsRead(b, \h96) /\ IsRead(c, \h97)
      /\ a \in Transactions /\ b \in Transactions /\ c \in Transactions
  BY DEF IsRead, Transactions, Reads, RegisterNumbers
<1> HIDE DEF a, b, c
<1>3. s \in Seq(Transactions) /\ Len(s) = 3 /\ s[1] = a /\ s[2] = b /\ s[3] = c
  BY <1>1, <1>2
<1> HIDE DEF s
<1>4. \A i \in 1 .. Len(s) : i = 1 \/ i = 2 \/ i = 3
  BY <1>3
<1>5. \A i \in 1 .. Len(s) : s[i].op = "read"
  BY <1>2, <1>3, <1>4 DEF IsRead
<1>6. Routine(s) /\ Changed(s) = {}
  BY <1>3, <1>5 DEF Routine, Paired, Changed, Changes
<1>7. ReadsFlags(s)
  BY <1>2, <1>3 DEF ReadsFlags
<1> QED BY <1>3, <1>6, <1>7 DEF s

LEMMA TableIs ==
  ASSUME NEW n \in Nat, NEW S, NEW s \in [1 .. n -> S]
  PROVE  s \in Seq(S) /\ Len(s) = n /\ \A i \in 1 .. n : s[i] \in S
<1>1. \E k \in Nat : s \in [1 .. k -> S]
  OBVIOUS
<1>2. s \in Seq(S)
  BY <1>1, SeqDef, Zenon
<1>3. DOMAIN s = 1 .. n /\ DOMAIN s = 1 .. Len(s) /\ Len(s) \in Nat
  BY <1>2, LenProperties
<1> QED BY <1>2, <1>3

LEMMA EdidReadIs == Routine(adv7513_edid_read) /\ Changed(adv7513_edid_read) = {}
<1> DEFINE s == adv7513_edid_read
<1>1. s \in [1 .. EDID_LENGTH -> Transactions] /\ \A i \in 1 .. EDID_LENGTH : s[i].op = "read edid"
  <2> DEFINE t(i) == [op |-> "read edid", reg |-> i - 1]
  <2>1. \A i \in 1 .. EDID_LENGTH : t(i) \in Transactions /\ t(i).op = "read edid"
    BY EdidAssumption DEF Transactions, Reads
  <2>2. s = [i \in 1 .. EDID_LENGTH |-> t(i)]
    BY DEF adv7513_edid_read
  <2> HIDE DEF s, t
  <2> QED BY <2>1, <2>2
<1> HIDE DEF s
<1>2. s \in Seq(Transactions) /\ Len(s) = EDID_LENGTH
  BY <1>1, EdidAssumption, TableIs
<1>3. Routine(s) /\ Changed(s) = {}
  BY <1>1, <1>2 DEF Routine, Paired, Changed, Changes
<1> QED BY <1>3 DEF s

LEMMA NoBarsIs == Built(no_bars, InitRegs) /\ Changed(no_bars) \subseteq \h59 .. \h61
<1> DEFINE s == no_bars
<1>1. /\ s \in [1 .. 8 -> Transactions]
      /\ \A i \in 1 .. 8 : s[i].op = "write" /\ s[i].reg \in \h59 .. \h61
  <2>1. \A i \in 1 .. 8 : \h59 + i \in \h59 .. \h61 /\ \h59 + i \in RegisterNumbers
    BY DEF RegisterNumbers
  <2>2. \A i \in 1 .. 8 : [op |-> "write", reg |-> \h59 + i, data |-> {}] \in Transactions
    BY <2>1 DEF Transactions, Writes, Octet
  <2> QED BY <2>1, <2>2 DEF no_bars
<1> HIDE DEF s
<1>2. s \in Seq(Transactions) /\ Len(s) = 8
  BY <1>1, TableIs
<1>3. Routine(s) /\ Changed(s) \subseteq \h59 .. \h61
  BY <1>1, <1>2 DEF Routine, Paired, Changed
<1>4. \h59 .. \h61 \subseteq InitRegs
  BY DEF InitRegs
<1> QED BY <1>3, <1>4 DEF s, Built

LEMMA MasksIs ==
  ASSUME NEW r94
  PROVE  LET s == Masks(0, r94, 0) IN
         /\ Routine(s) /\ Changed(s) = MaskRegs
         /\ OnlyWrites(s) /\ Puts(s, \h94, Bits(r94))
         /\ Ends(s, \h94, 0 .. 7, Bits(r94))
<1> DEFINE a == reg_write(\h92, 0)  b == reg_write(\h94, r94)  c == reg_write(\h95, 0)
<1>0. \A x : Bits(x) \cap 0 .. 7 = Bits(x)
  BY DEF Bits
<1>1. /\ Routine(a) /\ Routine(b) /\ Routine(c)
      /\ Changed(a) = {\h92} /\ Changed(b) = {\h94} /\ Changed(c) = {\h95}
      /\ Ends(b, \h94, 0 .. 7, Bits(r94))
  <2>1. \h92 \in RegisterNumbers /\ \h94 \in RegisterNumbers /\ \h95 \in RegisterNumbers
    BY DEF RegisterNumbers
  <2>2. 0 .. 7 \in Octet
    BY DEF Octet
  <2>3. Ends(b, \h94, 0 .. 7, Bits(r94) \cap 0 .. 7)
    BY <2>1, <2>2, WriteIs
  <2> QED BY <1>0, <2>1, <2>3, WriteIs
<1>5. /\ OnlyWrites(a) /\ OnlyWrites(b) /\ OnlyWrites(c)
      /\ Puts(a, \h94, Bits(r94)) /\ Puts(b, \h94, Bits(r94)) /\ Puts(c, \h94, Bits(r94))
  <2>1. \h92 \in RegisterNumbers /\ \h94 \in RegisterNumbers /\ \h95 \in RegisterNumbers
        /\ \h92 # \h94 /\ \h95 # \h94
    BY DEF RegisterNumbers
  <2> HIDE DEF a, b, c
  <2>2. OnlyWrites(a) /\ Puts(a, \h94, Bits(r94))
    BY <2>1, WritesOnly DEF a
  <2>3. OnlyWrites(b) /\ Puts(b, \h94, Bits(r94))
    BY <2>1, WritesOnly DEF b
  <2>4. OnlyWrites(c) /\ Puts(c, \h94, Bits(r94))
    BY <2>1, WritesOnly DEF c
  <2> QED BY <2>2, <2>3, <2>4
<1> HIDE DEF a, b, c
<1>2. Routine(a \o b) /\ Changed(a \o b) = {\h92, \h94} /\ Ends(a \o b, \h94, 0 .. 7, Bits(r94))
      /\ OnlyWrites(a \o b) /\ Puts(a \o b, \h94, Bits(r94))
  BY <1>1, <1>5, JoinIs, JoinLeaves, JoinWrites
<1>3. Routine((a \o b) \o c) /\ Changed((a \o b) \o c) = {\h92, \h94, \h95}
      /\ OnlyWrites((a \o b) \o c) /\ Puts((a \o b) \o c, \h94, Bits(r94))
  BY <1>1, <1>2, <1>5, JoinIs, JoinWrites
<1>4. Ends((a \o b) \o c, \h94, 0 .. 7, Bits(r94))
  <2>1. Leaves(c, \h94, 0 .. 7)
    BY <1>1, Unchanged
  <2> QED BY <1>1, <1>2, <2>1, JoinLeaves
<1> QED BY <1>3, <1>4 DEF Masks, a, b, c, MaskRegs

LEMMA DisableIs ==
  LET s == DisableAndClear IN
  /\ Built(s, MaskRegs \cup Flags) /\ \h94 \in Changed(s)
  /\ OnlyWrites(s) /\ Puts(s, \h94, {})
  /\ ~Seen => \h96 \notin Changed(s)
<1> DEFINE a == Masks(0, 0, 0)  b == Clear(\h93)  c == Clear(\h96)  d == Clear(\h97)
           S == MaskRegs \cup Flags
           Good(s) == Built(s, S) /\ OnlyWrites(s) /\ Puts(s, \h94, {})
<1>1. Good(a) /\ Changed(a) = MaskRegs
  BY MasksIs, BitsAre DEF Built
<1>2. ASSUME NEW r \in Flags
      PROVE  /\ Good(Clear(r)) /\ Changed(Clear(r)) \subseteq {r}
             /\ r = \h96 /\ ~Seen => Changed(Clear(r)) = {}
  <2>1. r \in RegisterNumbers /\ r # \h94 /\ r \in S
    BY DEF Flags, RegisterNumbers
  <2>2. CASE \E s \in status : s[1] = r
    <3>1. Clear(r) = reg_write(r, \hff)
      BY <2>2 DEF Clear
    <3>2. Routine(reg_write(r, \hff)) /\ Changed(reg_write(r, \hff)) = {r}
      BY <2>1, WriteIs
    <3>3. OnlyWrites(reg_write(r, \hff)) /\ Puts(reg_write(r, \hff), \h94, {})
      BY <2>1, WritesOnly
    <3>4. r = \h96 => Seen
      BY <2>2 DEF Seen
    <3> QED BY <2>1, <3>1, <3>2, <3>3, <3>4 DEF Built
  <2>3. CASE ~\E s \in status : s[1] = r
    <3>1. Clear(r) = << >>
      BY <2>3 DEF Clear
    <3>2. Routine(<< >>) /\ Changed(<< >>) = {} /\ OnlyWrites(<< >>) /\ Puts(<< >>, \h94, {})
      BY DEF Routine, Paired, Changed, OnlyWrites, Puts
    <3> QED BY <3>1, <3>2 DEF Built
  <2> QED BY <2>2, <2>3
<1>3. /\ Good(b) /\ Changed(b) \subseteq {\h93} /\ Good(c) /\ Changed(c) \subseteq {\h96}
      /\ Good(d) /\ Changed(d) \subseteq {\h97} /\ (~Seen => Changed(c) = {})
  BY <1>2 DEF Flags
<1>4. ASSUME NEW s, NEW t, Good(s), Good(t)
      PROVE  Good(s \o t) /\ Changed(s \o t) = Changed(s) \cup Changed(t)
  BY <1>4, JoinIs, JoinBuilt, JoinWrites DEF Built
<1>9. DisableAndClear = ((a \o b) \o c) \o d
  <2> HIDE DEF b, c, d
  <2> DEFINE f == reg_write(\h92, 0)  g == reg_write(\h94, 0)  h == reg_write(\h95, 0)
  <2>1. a = (f \o g) \o h
    BY DEF a, Masks
  <2>2. DisableAndClear = (((f \o g) \o h) \o b) \o c \o d
    BY DEF DisableAndClear, Masks, b, c, d
  <2> HIDE DEF f, g, h, a
  <2> QED BY <2>1, <2>2
<1> HIDE DEF a, b, c, d, S, Good
<1>5. Good(a \o b) /\ Changed(a \o b) = Changed(a) \cup Changed(b)
  BY <1>1, <1>3, <1>4
<1>6. Good((a \o b) \o c) /\ Changed((a \o b) \o c) = Changed(a) \cup Changed(b) \cup Changed(c)
  BY <1>3, <1>4, <1>5
<1>7. Good(((a \o b) \o c) \o d)
      /\ Changed(((a \o b) \o c) \o d) = Changed(a) \cup Changed(b) \cup Changed(c) \cup Changed(d)
  BY <1>3, <1>4, <1>6
<1>8. /\ \h94 \in Changed(a)
      /\ ~Seen => \h96 \notin Changed(a) \cup Changed(b) \cup Changed(c) \cup Changed(d)
  BY <1>1, <1>3 DEF MaskRegs
<1> HIDE DEF Seen
<1> DEFINE u == ((a \o b) \o c) \o d
<1>10. Good(u) /\ \h94 \in Changed(u) /\ (~Seen => \h96 \notin Changed(u))
  BY <1>7, <1>8
<1>11. u = DisableAndClear
  BY <1>9
<1> HIDE DEF u
<1> QED BY <1>10, <1>11 DEF Good, S

LEMMA SetupIs ==
  /\ Built(adv7513_int_setup, SetupRegs) /\ OnlyWrites(adv7513_int_setup)
  /\ Ends(adv7513_int_setup, \h94, 0 .. 7, {6, 7})
<1> DEFINE a == Masks(0, 0, 0)  b == reg_write(\h93, \hff)  c == reg_write(\h96, \hff)
           d == reg_write(\h97, \hff)  e == Masks(0, \hc0, 0)
           Good(s) == Built(s, SetupRegs) /\ OnlyWrites(s)
<1>1. Good(b) /\ Good(c) /\ Good(d)
  <2>1. {\h93, \h96, \h97} \subseteq RegisterNumbers /\ {\h93, \h96, \h97} \subseteq SetupRegs
    BY DEF RegisterNumbers, SetupRegs
  <2> QED BY <2>1, WriteIs, WritesOnly DEF Built
<1>2. Good(a) /\ Good(e) /\ Ends(e, \h94, 0 .. 7, {6, 7})
  BY MasksIs, BitsAre DEF MaskRegs, SetupRegs, Built
<1>8. adv7513_int_setup = (((a \o b) \o c) \o d) \o e
  <2> HIDE DEF a, b, c, d
  <2> DEFINE f == reg_write(\h92, 0)  g == reg_write(\h94, \hc0)  h == reg_write(\h95, 0)
             p == ((a \o b) \o c) \o d
  <2>1. e = (f \o g) \o h
    BY DEF e, Masks
  <2>2. adv7513_int_setup = p \o e
    BY DEF adv7513_int_setup, a, b, c, d, e
  <2> QED BY <2>2
<1>3. ASSUME NEW s, NEW t, Good(s), Good(t)
      PROVE  Good(s \o t) /\ \A r, m, v : Ends(t, r, m, v) => Ends(s \o t, r, m, v)
  BY <1>3, JoinIs, JoinBuilt, JoinWrites, JoinLeaves DEF Built
<1> HIDE DEF a, b, c, d, e, Good
<1>4. Good(a \o b)
  BY <1>1, <1>2, <1>3
<1>5. Good((a \o b) \o c)
  BY <1>1, <1>3, <1>4
<1>6. Good(((a \o b) \o c) \o d)
  BY <1>1, <1>3, <1>5
<1>7. Good((((a \o b) \o c) \o d) \o e)
      /\ Ends((((a \o b) \o c) \o d) \o e, \h94, 0 .. 7, {6, 7})
  BY <1>2, <1>3, <1>6
<1> QED BY <1>7, <1>8 DEF Good

LEMMA KickIs ==
  /\ Built(adv7513_kick_up, {\h41}) /\ Clears41(adv7513_kick_up)
  /\ Built(adv7513_do_hpd_powerdown, {\h41})
<1>1. \h41 \in Plain
  BY Registers
<1>2. Built(adv7513_kick_up, {\h41}) /\ Built(adv7513_do_hpd_powerdown, {\h41})
  BY <1>1, UpdateIs DEF Built, adv7513_kick_up, adv7513_do_hpd_powerdown
<1>3. Clears41(adv7513_kick_up)
  <2> DEFINE s == adv7513_kick_up
             a == [op |-> "read", reg |-> \h41]
             t == [op |-> "modify", reg |-> \h41, mask |-> Bits(\h40), data |-> Bits(0) \cap Bits(\h40)]
  <2>1. s = <<a, t>> /\ a.op = "read" /\ t.op = "modify" /\ 6 \in t.mask /\ 6 \notin t.data
    BY BitsAre DEF adv7513_kick_up, reg_update_bits
  <2> HIDE DEF a, t
  <2>2. Len(s) = 2 /\ s[1] = a /\ s[2] = t
    BY <2>1
  <2> HIDE DEF s
  <2>3. \A i \in 1 .. Len(s) : i = 1 \/ i = 2
    BY <2>2
  <2>4. Clears41(s)
    BY <2>1, <2>2, <2>3 DEF Clears41, Changes
  <2> QED BY <2>4 DEF s
<1> QED BY <1>2, <1>3

LEMMA BitsInByte == \A x : Bits(x) \cap 0 .. 7 = Bits(x) /\ Bits(x) \in Octet /\ 0 .. 7 \in Octet
BY DEF Bits, Octet

(* The last program leaves what it does; the first one, what the last one  *)
(* does not touch.                                                         *)
LEMMA JoinEnds ==
  ASSUME NEW s, NEW t, Routine(s), Routine(t), NEW r, NEW m, NEW d
  PROVE  /\ Ends(t, r, m, d) => Ends(s \o t, r, m, d)
         /\ Ends(s, r, m, d) /\ r \notin Changed(t) => Ends(s \o t, r, m, d)
BY JoinLeaves, Unchanged

LEMMA PowerupIs ==
  LET s == adv7513_do_hpd_powerup IN
  /\ Built(s, PowerupRegs)
  /\ Ends(s, \h41, {6}, {}) /\ Ends(s, \he0, 0 .. 7, Bits(\hd0))
<1> DEFINE a == reg_update_bits(\h41, \h40, 0)
           b == reg_write(\h98, \h03)
           c == reg_update_bits(\h9a, \he0, \he0)
           d == reg_write(\h9c, \h30)
           e == reg_update_bits(\h9d, \h03, \h01)
           f == reg_write(\ha2, \ha4)
           g == reg_write(\ha3, \ha4)
           h == reg_write(\he0, \hd0)
           i == reg_write(\h96, \hff)
           S == PowerupRegs
           F(s) == Built(s, S) /\ Ends(s, \h41, {6}, {})
<1>1. /\ PowerupRegs \subseteq RegisterNumbers
      /\ \h41 \in Plain /\ \h9a \in Plain /\ \h9d \in Plain
  BY DEF PowerupRegs, RegisterNumbers, Plain, Flags
<1>2. F(a) /\ Changed(a) = {\h41}
  <2>1. {6} \in SUBSET Bits(\h40) /\ Bits(0) \cap {6} = {}
    BY BitsAre
  <2>2. Routine(a) /\ Changed(a) = {\h41} /\ Ends(a, \h41, {6}, Bits(0) \cap {6})
    BY <1>1, <2>1, UpdateIs
  <2> HIDE DEF a
  <2> QED BY <2>1, <2>2 DEF Built, PowerupRegs
<1>3. Built(b, S) /\ Changed(b) = {\h98}
  BY <1>1, WriteIs DEF Built, PowerupRegs
<1>4. Built(c, S) /\ Changed(c) = {\h9a}
  BY <1>1, UpdateIs DEF Built, PowerupRegs
<1>5. Built(d, S) /\ Changed(d) = {\h9c}
  BY <1>1, WriteIs DEF Built, PowerupRegs
<1>6. Built(e, S) /\ Changed(e) = {\h9d}
  BY <1>1, UpdateIs DEF Built, PowerupRegs
<1>7. Built(f, S) /\ Changed(f) = {\ha2}
  BY <1>1, WriteIs DEF Built, PowerupRegs
<1>8. Built(g, S) /\ Changed(g) = {\ha3}
  BY <1>1, WriteIs DEF Built, PowerupRegs
<1>9. Built(h, S) /\ Changed(h) = {\he0} /\ Ends(h, \he0, 0 .. 7, Bits(\hd0))
  <2>1. \he0 \in RegisterNumbers
    BY <1>1 DEF PowerupRegs
  <2>2. Routine(h) /\ Changed(h) = {\he0} /\ Ends(h, \he0, 0 .. 7, Bits(\hd0) \cap 0 .. 7)
    BY <2>1, WriteIs, BitsInByte
  <2> QED BY <2>2, BitsInByte DEF Built, PowerupRegs
<1>10. Built(i, S) /\ Changed(i) = {\h96}
  BY <1>1, WriteIs DEF Built, PowerupRegs
<1>11. ASSUME NEW s, NEW t, F(s), Built(t, S), \h41 \notin Changed(t)
      PROVE  F(s \o t)
  BY <1>11, JoinBuilt, JoinEnds DEF Built
<1> HIDE DEF a, b, c, d, e, f, g, h, i, S, F
<1>12. F((a \o b))
  BY <1>2, <1>3, <1>11
<1>13. F(((a \o b) \o c))
  BY <1>12, <1>4, <1>11
<1>14. F((((a \o b) \o c) \o d))
  BY <1>13, <1>5, <1>11
<1>15. F(((((a \o b) \o c) \o d) \o e))
  BY <1>14, <1>6, <1>11
<1>16. F((((((a \o b) \o c) \o d) \o e) \o f))
  BY <1>15, <1>7, <1>11
<1>17. F(((((((a \o b) \o c) \o d) \o e) \o f) \o g))
  BY <1>16, <1>8, <1>11
<1>18. F((((((((a \o b) \o c) \o d) \o e) \o f) \o g) \o h))
      /\ Ends((((((((a \o b) \o c) \o d) \o e) \o f) \o g) \o h), \he0, 0 .. 7, Bits(\hd0))
  BY <1>17, <1>9, <1>11, JoinEnds DEF F, Built
<1>19. F((((((((a \o b) \o c) \o d) \o e) \o f) \o g) \o h) \o i)
      /\ Ends((((((((a \o b) \o c) \o d) \o e) \o f) \o g) \o h) \o i, \he0, 0 .. 7, Bits(\hd0))
  BY <1>18, <1>10, <1>11, JoinEnds DEF F, Built
<1>20. adv7513_do_hpd_powerup = (((((((a \o b) \o c) \o d) \o e) \o f) \o g) \o h) \o i
  BY DEF adv7513_do_hpd_powerup, a, b, c, d, e, f, g, h, i
<1> QED BY <1>19, <1>20 DEF F, S

LEMMA InitPlain == InitRegs \subseteq Plain /\ InitRegs \subseteq RegisterNumbers
BY DEF InitRegs, Plain, RegisterNumbers, Flags

LEMMA OneOf ==
  ASSUME NEW r \in Plain, NEW S, r \in S, NEW mask, NEW data
  PROVE  /\ Built(reg_update_bits(r, mask, data), S) /\ Changed(reg_update_bits(r, mask, data)) = {r}
         /\ Built(reg_write(r, data), S) /\ Changed(reg_write(r, data)) = {r}
<1>1. r \in RegisterNumbers
  BY DEF Plain
<1> QED BY <1>1, UpdateIs, WriteIs DEF Built

LEMMA InFormatIs == Built(adv7513_video_in_format, {\h15, \h16, \h17})
<1> DEFINE S == {\h15, \h16, \h17}
           a == reg_update_bits(\h15, \h0f, 0)  b == reg_update_bits(\h16, \h3d, \h30)
           c == reg_update_bits(\h17, \h02, 0)
<1>1. S \subseteq Plain
  BY DEF Plain, RegisterNumbers, Flags
<1>2. Built(a, S) /\ Built(b, S) /\ Built(c, S)
  BY <1>1, OneOf
<1> HIDE DEF a, b, c, S
<1>3. Built((a \o b) \o c, S)
  BY <1>2, JoinBuilt
<1> QED BY <1>3 DEF adv7513_video_in_format, a, b, c, S

LEMMA OutFormatIs ==
  ASSUME NEW hdmi
  PROVE  LET s == adv7513_video_out_format(hdmi) IN
         /\ Built(s, {\h16, \h18, \haf, \h40, \h4c})
         /\ Ends(s, \haf, {1}, IF hdmi THEN {1} ELSE {})
         /\ Ends(s, \h40, {7}, IF hdmi THEN {7} ELSE {})
<1> DEFINE S == {\h16, \h18, \haf, \h40, \h4c}
           a == reg_update_bits(\h16, \h80, 0)  b == adv7513_config_csc
           c == reg_update_bits(\haf, \h82, IF hdmi THEN 2 ELSE 0)
           d == IF hdmi THEN reg_update_bits(\h40, \h80, \h80) ELSE reg_clear_bits(\h40, \h80)
           e == reg_update_bits(\h4c, \h0f, 4)
           one == IF hdmi THEN {1} ELSE {}
           seven == IF hdmi THEN {7} ELSE {}
<1>1. S \subseteq Plain
  BY DEF Plain, RegisterNumbers, Flags
<1>0. /\ \h16 \in S /\ \h18 \in S /\ \haf \in S /\ \h40 \in S /\ \h4c \in S
      /\ \h16 \in Plain /\ \h18 \in Plain /\ \haf \in Plain /\ \h40 \in Plain /\ \h4c \in Plain
  BY <1>1
<1> HIDE DEF S
<1>2. Built(a, S) /\ Built(b, S) /\ Built(c, S) /\ Built(e, S) /\ Changed(e) = {\h4c}
  BY <1>0, OneOf DEF adv7513_config_csc
<1>3. Ends(c, \haf, {1}, one)
  <2>1. {1} \in SUBSET Bits(\h82) /\ Bits(IF hdmi THEN 2 ELSE 0) \cap {1} = one
    BY BitsAre
  <2>2. Ends(c, \haf, {1}, Bits(IF hdmi THEN 2 ELSE 0) \cap {1})
    BY <1>0, <2>1, UpdateIs
  <2> QED BY <2>1, <2>2
<1>4. Built(d, S) /\ Changed(d) = {\h40} /\ Ends(d, \h40, {7}, seven)
  <2> DEFINE x == IF hdmi THEN \h80 ELSE 0
  <2>1. d = reg_update_bits(\h40, \h80, x)
    BY DEF reg_clear_bits
  <2>2. {7} \in SUBSET Bits(\h80) /\ Bits(x) \cap {7} = seven
    BY BitsAre
  <2> HIDE DEF d, x
  <2>3. Ends(d, \h40, {7}, Bits(x) \cap {7})
    BY <1>0, <2>1, <2>2, UpdateIs
  <2>4. Built(d, S) /\ Changed(d) = {\h40}
    BY <1>0, <2>1, OneOf
  <2> QED BY <2>2, <2>3, <2>4
<1>9. adv7513_video_out_format(hdmi) = (((a \o b) \o c) \o d) \o e
  <2> HIDE DEF a, b, c, d, e
  <2>1. adv7513_video_out_format(hdmi) = a \o b \o c \o d \o e
    BY DEF adv7513_video_out_format, a, b, c, d, e
  <2> QED BY <2>1
<1> HIDE DEF a, b, c, d, e, S, one, seven
<1>5. Built((a \o b) \o c, S) /\ Ends((a \o b) \o c, \haf, {1}, one)
  <2>1. Built(a \o b, S)
    BY <1>2, JoinBuilt
  <2> QED BY <1>2, <1>3, <2>1, JoinBuilt, JoinEnds DEF Built
<1>6. /\ Built(((a \o b) \o c) \o d, S)
      /\ Ends(((a \o b) \o c) \o d, \haf, {1}, one) /\ Ends(((a \o b) \o c) \o d, \h40, {7}, seven)
  BY <1>4, <1>5, JoinBuilt, JoinEnds DEF Built
<1>7. /\ Built((((a \o b) \o c) \o d) \o e, S)
      /\ Ends((((a \o b) \o c) \o d) \o e, \haf, {1}, one)
      /\ Ends((((a \o b) \o c) \o d) \o e, \h40, {7}, seven)
  <2> DEFINE u == ((a \o b) \o c) \o d
  <2>1. Built(u, S) /\ Ends(u, \haf, {1}, one) /\ Ends(u, \h40, {7}, seven)
    BY <1>6
  <2> HIDE DEF u
  <2>2. Built(u \o e, S) /\ Ends(u \o e, \haf, {1}, one) /\ Ends(u \o e, \h40, {7}, seven)
    <3>1. Built(u \o e, S)
      BY <1>2, <2>1, JoinBuilt
    <3>2. Routine(u) /\ Routine(e) /\ \haf \notin Changed(e) /\ \h40 \notin Changed(e)
      BY <1>2, <2>1 DEF Built
    <3>3. Ends(u \o e, \haf, {1}, one)
      BY <2>1, <3>2, JoinEnds
    <3>4. Ends(u \o e, \h40, {7}, seven)
      BY <2>1, <3>2, JoinEnds
    <3> QED BY <3>1, <3>3, <3>4
  <2> QED BY <2>2 DEF u
<1> QED BY <1>7, <1>9 DEF S, one, seven

LEMMA AviIs ==
  LET s == adv7513_avi_infoframe IN
  /\ Built(s, InitRegs) /\ Changed(s) \subseteq {\h44, \h4a} \cup \h55 .. \h61
  /\ Ends(s, \h44, {4}, {4}) /\ Ends(s, \h4a, {7}, {7}) /\ Ends(s, \h4a, {6}, {})
<1> DEFINE a == reg_update_bits(\h44, \h10, \h10)
           b == reg_update_bits(\h4a, \hc0, \hc0)
           c == reg_update_bits(\h55, \h70, 0 * 32 + 1 * 16 + 1 * 4 + 2)
           d == reg_write(\h56, 0 * 64 + 1 * 16 + 8)
           e == reg_write(\h57, 0)
           f == reg_write(\h59, 0)
           g == no_bars
           h == reg_clear_bits(\h4a, \h40)
           S == {\h44, \h4a, \h55, \h56, \h57} \cup \h59 .. \h61
           F(s) == Built(s, S) /\ Ends(s, \h44, {4}, {4}) /\ Ends(s, \h4a, {7}, {7})
<1>1. S \subseteq Plain /\ S \subseteq InitRegs
  BY DEF Plain, RegisterNumbers, Flags, InitRegs
<1>0. /\ \h44 \in S /\ \h4a \in S /\ \h55 \in S /\ \h56 \in S /\ \h57 \in S /\ \h59 \in S
      /\ \h44 \in Plain /\ \h4a \in Plain /\ \h55 \in Plain /\ \h56 \in Plain /\ \h57 \in Plain
      /\ \h59 \in Plain
  BY <1>1
<1>21. S \subseteq {\h44, \h4a} \cup \h55 .. \h61 /\ \h59 .. \h61 \subseteq S
  OBVIOUS
<1> HIDE DEF S
<1>2. Built(a, S) /\ Ends(a, \h44, {4}, {4})
  <2>1. {4} \in SUBSET Bits(\h10) /\ Bits(\h10) \cap {4} = {4}
    BY BitsAre
  <2>2. Ends(a, \h44, {4}, Bits(\h10) \cap {4})
    BY <1>0, <2>1, UpdateIs
  <2> QED BY <1>0, <2>1, <2>2, OneOf
<1>3. Built(b, S) /\ Changed(b) = {\h4a} /\ Ends(b, \h4a, {7}, {7})
  <2>1. {7} \in SUBSET Bits(\hc0) /\ Bits(\hc0) \cap {7} = {7}
    BY BitsAre
  <2>2. Ends(b, \h4a, {7}, Bits(\hc0) \cap {7})
    BY <1>0, <2>1, UpdateIs
  <2>3. Built(b, S) /\ Changed(b) = {\h4a}
    BY <1>0, OneOf
  <2> QED BY <2>1, <2>2, <2>3
<1>4. Built(c, S) /\ Changed(c) = {\h55}
  BY <1>0, OneOf
<1>5. Built(d, S) /\ Changed(d) = {\h56}
  BY <1>0, OneOf
<1>6. Built(e, S) /\ Changed(e) = {\h57}
  BY <1>0, OneOf
<1>7. Built(f, S) /\ Changed(f) = {\h59}
  BY <1>0, OneOf
<1>8. Built(g, S) /\ Changed(g) \subseteq \h59 .. \h61
  BY <1>21, NoBarsIs DEF Built
<1>9. /\ Built(h, S) /\ Changed(h) = {\h4a} /\ Ends(h, \h4a, {6}, {}) /\ Leaves(h, \h4a, {7})
  <2>1. {6} \in SUBSET Bits(\h40) /\ Bits(0) \cap {6} = {} /\ {7} \cap Bits(\h40) = {} /\ {7} \in Octet
    BY BitsAre DEF Octet
  <2>2. h = reg_update_bits(\h4a, \h40, 0)
    BY DEF reg_clear_bits
  <2> HIDE DEF h
  <2>3. Built(h, S) /\ Changed(h) = {\h4a}
    BY <1>0, <2>2, OneOf
  <2>4. Ends(h, \h4a, {6}, Bits(0) \cap {6})
    BY <1>0, <2>1, <2>2, UpdateIs
  <2>5. Leaves(h, \h4a, {7})
    BY <1>0, <2>1, <2>2, UpdateIs
  <2> QED BY <2>1, <2>3, <2>4, <2>5
<1>10. ASSUME NEW s, NEW t, F(s), Built(t, S), \h44 \notin Changed(t), \h4a \notin Changed(t)
       PROVE  F(s \o t)
  BY <1>10, JoinBuilt, JoinEnds DEF Built
<1>11. adv7513_avi_infoframe = ((((((a \o b) \o c) \o d) \o e) \o f) \o g) \o h
  <2> HIDE DEF a, b, c, d, e, f, g, h
  <2>1. adv7513_avi_infoframe = a \o b \o c \o d \o e \o f \o g \o h
    BY DEF adv7513_avi_infoframe, a, b, c, d, e, f, g, h
  <2> QED BY <2>1
<1> HIDE DEF a, b, c, d, e, f, g, h
<1>12. F(a \o b)
  <2>1. Built(a \o b, S)
    BY <1>2, <1>3, JoinBuilt
  <2>2. Routine(a) /\ Routine(b) /\ \h44 \notin Changed(b)
    BY <1>2, <1>3 DEF Built
  <2>3. Ends(a \o b, \h44, {4}, {4}) /\ Ends(a \o b, \h4a, {7}, {7})
    BY <1>2, <1>3, <2>2, JoinEnds
  <2> QED BY <2>1, <2>3
<1> HIDE DEF F
<1>13. F((a \o b) \o c)
  BY <1>4, <1>10, <1>12
<1>14. F(((a \o b) \o c) \o d)
  BY <1>5, <1>10, <1>13
<1>15. F((((a \o b) \o c) \o d) \o e)
  BY <1>6, <1>10, <1>14
<1>16. F(((((a \o b) \o c) \o d) \o e) \o f)
  BY <1>7, <1>10, <1>15
<1>17. F((((((a \o b) \o c) \o d) \o e) \o f) \o g)
  <2>1. \h44 \notin \h59 .. \h61 /\ \h4a \notin \h59 .. \h61
    BY SMT
  <2> QED BY <1>8, <1>10, <1>16, <2>1
<1> DEFINE u == (((((a \o b) \o c) \o d) \o e) \o f) \o g
<1>18. F(u)
  BY <1>17
<1> HIDE DEF u
<1>19. Built(u \o h, S) /\ Ends(u \o h, \h44, {4}, {4})
       /\ Ends(u \o h, \h4a, {7}, {7}) /\ Ends(u \o h, \h4a, {6}, {})
  <2>1. Built(u, S) /\ Ends(u, \h44, {4}, {4}) /\ Ends(u, \h4a, {7}, {7})
    BY <1>18 DEF F
  <2>2. Routine(u) /\ Routine(h) /\ \h44 \notin Changed(h)
    BY <1>9, <2>1 DEF Built
  <2>3. Built(u \o h, S)
    BY <1>9, <2>1, JoinBuilt
  <2>4. Ends(u \o h, \h44, {4}, {4}) /\ Ends(u \o h, \h4a, {6}, {})
    BY <1>9, <2>1, <2>2, JoinEnds
  <2>5. Ends(u \o h, \h4a, {7}, {7})
    BY <1>9, <2>1, <2>2, JoinLeaves
  <2> QED BY <2>3, <2>4, <2>5
<1>20. adv7513_avi_infoframe = u \o h
  BY <1>11 DEF u
<1> QED BY <1>1, <1>19, <1>20, <1>21 DEF Built

LEMMA InitIs ==
  ASSUME NEW dvi \in BOOLEAN
  PROVE  LET s == adv7513_chip_init(dvi) IN
         /\ Built(s, InitRegs)
         /\ Ends(s, \haf, {1}, IF dvi THEN {} ELSE {1})
         /\ Ends(s, \h40, {7}, IF dvi THEN {} ELSE {7})
         /\ Ends(s, \h44, {4}, {4}) /\ Ends(s, \h4a, {7}, {7}) /\ Ends(s, \h4a, {6}, {})
<1> DEFINE a == adv7513_video_in_format  b == adv7513_video_out_format(~dvi)
           c == adv7513_avi_infoframe
           one == IF dvi THEN {} ELSE {1}
           seven == IF dvi THEN {} ELSE {7}
<1>1. Built(a, InitRegs)
  BY InFormatIs DEF Built, InitRegs
<1>2. Built(b, InitRegs) /\ Ends(b, \haf, {1}, one) /\ Ends(b, \h40, {7}, seven)
  <2>2. /\ Built(b, {\h16, \h18, \haf, \h40, \h4c})
        /\ Ends(b, \haf, {1}, IF ~dvi THEN {1} ELSE {})
        /\ Ends(b, \h40, {7}, IF ~dvi THEN {7} ELSE {})
    BY OutFormatIs
  <2>3. (IF ~dvi THEN {1} ELSE {}) = one /\ (IF ~dvi THEN {7} ELSE {}) = seven
    <3>1. dvi = TRUE \/ dvi = FALSE
      OBVIOUS
    <3> QED BY <3>1, Zenon
  <2>4. {\h16, \h18, \haf, \h40, \h4c} \subseteq InitRegs
    BY DEF InitRegs
  <2> QED BY <2>2, <2>3, <2>4 DEF Built
<1>3. /\ Built(c, InitRegs) /\ \haf \notin Changed(c) /\ \h40 \notin Changed(c)
      /\ Ends(c, \h44, {4}, {4}) /\ Ends(c, \h4a, {7}, {7}) /\ Ends(c, \h4a, {6}, {})
  BY AviIs
<1>4. adv7513_chip_init(dvi) = (a \o b) \o c
  BY DEF adv7513_chip_init, adv7513_video_init
<1> HIDE DEF a, b, c, one, seven
<1>5. Built(a \o b, InitRegs) /\ Ends(a \o b, \haf, {1}, one) /\ Ends(a \o b, \h40, {7}, seven)
  BY <1>1, <1>2, JoinBuilt, JoinEnds DEF Built
<1>6. /\ Built((a \o b) \o c, InitRegs)
      /\ Ends((a \o b) \o c, \haf, {1}, one) /\ Ends((a \o b) \o c, \h40, {7}, seven)
      /\ Ends((a \o b) \o c, \h44, {4}, {4}) /\ Ends((a \o b) \o c, \h4a, {7}, {7})
      /\ Ends((a \o b) \o c, \h4a, {6}, {})
  BY <1>3, <1>5, JoinBuilt, JoinEnds DEF Built
<1> QED BY <1>4, <1>6 DEF one, seven

(***************************************************************************)
(* One transaction.                                                        *)
(***************************************************************************)
LEMMA RestIs ==
  ASSUME NEW s \in Seq(Transactions), s # << >>
  PROVE  /\ Tail(s) \in Seq(Transactions) /\ Head(s) \in Transactions /\ Head(s) = s[1]
         /\ Len(s) \in Nat /\ Len(s) > 0 /\ Len(Tail(s)) = Len(s) - 1
         /\ \A i \in 1 .. Len(Tail(s)) : Tail(s)[i] = s[i + 1] /\ i + 1 \in 1 .. Len(s)
         /\ \A i \in 2 .. Len(s) : i - 1 \in 1 .. Len(Tail(s)) /\ s[i] = Tail(s)[i - 1]
OBVIOUS

LEMMA RestKeeps ==
  ASSUME NEW s \in Seq(Transactions), s # << >>
  PROVE  /\ Changed(Tail(s)) \subseteq Changed(s)
         /\ Changes(Head(s)) => Head(s).reg \in Changed(s)
         /\ \A r \in Changed(s) : r \in Changed(Tail(s)) \/ (Changes(Head(s)) /\ Head(s).reg = r)
         /\ PairedRest(s) => PairedRest(Tail(s))
         /\ OnlyWrites(s) => OnlyWrites(Tail(s)) /\ Head(s).op = "write"
         /\ \A r, v : Puts(s, r, v) =>
              /\ Puts(Tail(s), r, v)
              /\ Changes(Head(s)) /\ Head(s).reg = r => Head(s).op = "write" /\ Head(s).data = v
         /\ Clears41(s) =>
              /\ Clears41(Tail(s))
              /\ Changes(Head(s)) =>
                   Head(s).op = "modify" /\ 6 \in Head(s).mask /\ 6 \notin Head(s).data
<1> DEFINE u == Tail(s)  t == Head(s)
<1>1. /\ u \in Seq(Transactions) /\ t = s[1] /\ Len(s) \in Nat /\ Len(s) > 0 /\ Len(u) = Len(s) - 1
      /\ \A i \in 1 .. Len(u) : u[i] = s[i + 1] /\ i + 1 \in 1 .. Len(s)
      /\ \A i \in 2 .. Len(s) : i - 1 \in 1 .. Len(u) /\ s[i] = u[i - 1]
  BY RestIs
<1> HIDE DEF u, t
<1>2. 1 \in 1 .. Len(s) /\ \A i \in 1 .. Len(s) : i = 1 \/ i \in 2 .. Len(s)
  BY <1>1
<1>3. Changed(u) \subseteq Changed(s)
  BY <1>1 DEF Changed
<1>4. Changes(t) => t.reg \in Changed(s)
  BY <1>1, <1>2 DEF Changed
<1>5. \A r \in Changed(s) : r \in Changed(u) \/ (Changes(t) /\ t.reg = r)
  BY <1>1, <1>2 DEF Changed
<1>6. PairedRest(s) => PairedRest(u)
  <2> SUFFICES ASSUME PairedRest(s), NEW i \in 2 .. Len(u), u[i].op = "modify"
               PROVE  u[i - 1].op = "read" /\ u[i - 1].reg = u[i].reg
    BY DEF PairedRest
  <2>1. /\ i + 1 \in 2 .. Len(s) /\ i \in 1 .. Len(u) /\ i - 1 \in 1 .. Len(u)
        /\ (i + 1) - 1 = i /\ (i - 1) + 1 = i
    BY <1>1
  <2>2. u[i] = s[i + 1] /\ u[i - 1] = s[i]
    BY <1>1, <2>1
  <2>3. s[i].op = "read" /\ s[i].reg = s[i + 1].reg
    BY <2>1, <2>2 DEF PairedRest
  <2> QED BY <2>2, <2>3
<1>7. OnlyWrites(s) => OnlyWrites(u) /\ t.op = "write"
  BY <1>1, <1>2 DEF OnlyWrites
<1>8. ASSUME NEW r, NEW v, Puts(s, r, v)
      PROVE  Puts(u, r, v) /\ (Changes(t) /\ t.reg = r => t.op = "write" /\ t.data = v)
  BY <1>1, <1>2, <1>8 DEF Puts
<1>9. Clears41(s) => Clears41(u) /\ (Changes(t) => t.op = "modify" /\ 6 \in t.mask /\ 6 \notin t.data)
  BY <1>1, <1>2 DEF Clears41
<1> QED BY <1>3, <1>4, <1>5, <1>6, <1>7, <1>8, <1>9 DEF u, t

LEMMA StoreIs ==
  ASSUME regs \in [RegisterNumbers -> Octet], NEW c, c.regv \in Octet,
         NEW t \in Transactions, Acknowledged(c, t)
  PROVE  /\ regs' \in [RegisterNumbers -> Octet] /\ nacks' = nacks
         /\ \A r \in RegisterNumbers : ~(Changes(t) /\ t.reg = r) => regs'[r] = regs[r]
         /\ Changes(t) => t.reg \in RegisterNumbers
         /\ t.op = "write" /\ t.reg \notin Flags => regs'[t.reg] = t.data
         /\ t.op = "write" /\ t.reg \in Flags => regs'[t.reg] \subseteq regs[t.reg]
         /\ t.op = "modify" => regs'[t.reg] = (c.regv \ t.mask) \cup t.data
<1>1. CASE t.op = "write"
  <2>1. t.reg \in RegisterNumbers /\ t.data \in Octet /\ t.op # "modify"
    BY <1>1, TransactionFacts
  <2>2. Store(t.reg, t.data) /\ nacks' = nacks
    BY <1>1 DEF Acknowledged
  <2>3. CASE t.reg \in Flags
    <3>1. regs' = [regs EXCEPT ![t.reg] = regs[t.reg] \ t.data]
      BY <2>2, <2>3 DEF Store, Flags
    <3> QED BY <1>1, <2>1, <2>2, <2>3, <3>1 DEF Octet, Changes
  <2>4. CASE t.reg \notin Flags
    <3>1. regs' = [regs EXCEPT ![t.reg] = t.data]
      BY <2>2, <2>4 DEF Store, Flags
    <3> QED BY <1>1, <2>1, <2>2, <2>4, <3>1 DEF Changes
  <2> QED BY <2>3, <2>4
<1>2. CASE t.op = "modify"
  <2>1. t.reg \in RegisterNumbers /\ t.reg \notin Flags /\ t.data \in Octet /\ t.op # "write"
    BY <1>2, TransactionFacts DEF Plain
  <2>2. Store(t.reg, (c.regv \ t.mask) \cup t.data) /\ nacks' = nacks
    BY <1>2 DEF Acknowledged
  <2>3. regs' = [regs EXCEPT ![t.reg] = (c.regv \ t.mask) \cup t.data]
    BY <2>1, <2>2 DEF Store, Flags
  <2>4. (c.regv \ t.mask) \cup t.data \in Octet
    BY <2>1 DEF Octet
  <2> QED BY <1>2, <2>1, <2>2, <2>3, <2>4 DEF Changes
<1>3. CASE t.op \notin {"write", "modify"}
  BY <1>3 DEF Acknowledged, Changes
<1> QED BY <1>1, <1>2, <1>3

(* A program goes on to leave the bits that it would leave.                *)
LEMMA WillStep ==
  ASSUME regs \in [RegisterNumbers -> Octet], NEW c, c.regv \in Octet,
         NEW s \in Seq(Transactions), s # << >>, Acknowledged(c, Head(s)),
         Head(s).op = "modify" => c.regv = regs[Head(s).reg],
         NEW r \in Plain, NEW m \in Octet, NEW d, Will(s, r, m, d)
  PROVE  Ends(Tail(s), r, m, d) \/ (Leaves(Tail(s), r, m) /\ regs'[r] \cap m = d)
<1> DEFINE u == Tail(s)  t == Head(s)
<1>1. /\ t \in Transactions
      /\ u \in Seq(Transactions) /\ t = s[1] /\ Len(s) \in Nat /\ Len(s) > 0 /\ Len(u) = Len(s) - 1
      /\ \A i \in 1 .. Len(u) : u[i] = s[i + 1] /\ i + 1 \in 1 .. Len(s)
      /\ \A i \in 2 .. Len(s) : i - 1 \in 1 .. Len(u) /\ s[i] = u[i - 1]
  BY RestIs
<1>2. /\ ~(Changes(t) /\ t.reg = r) => regs'[r] = regs[r]
      /\ t.op = "write" /\ t.reg \notin Flags => regs'[t.reg] = t.data
      /\ t.op = "modify" => regs'[t.reg] = (c.regv \ t.mask) \cup t.data
  <2>1. r \in RegisterNumbers
    BY DEF Plain
  <2>2. Acknowledged(c, t)
    OBVIOUS
  <2> HIDE DEF t
  <2> QED BY <1>1, <2>1, <2>2, StoreIs
<1>3. t.op = "modify" => c.regv = regs[t.reg] /\ t.data \subseteq t.mask
  BY <1>1, TransactionFacts
<1>4. r \notin Flags
  BY DEF Plain
<1> HIDE DEF u, t
<1>5. 1 \in 1 .. Len(s) /\ \A i \in 1 .. Len(s) : i = 1 \/ i \in 2 .. Len(s)
  BY <1>1
<1>6. CASE Leaves(s, r, m) /\ regs[r] \cap m = d
  <2>1. Leaves(u, r, m) /\ ~Touches(t, r, m)
    BY <1>1, <1>5, <1>6 DEF Leaves
  <2>2. CASE ~(Changes(t) /\ t.reg = r)
    BY <1>2, <1>6, <2>1, <2>2 DEF u
  <2>3. CASE Changes(t) /\ t.reg = r
    <3>1. t.op = "modify" /\ m \cap t.mask = {}
      BY <2>1, <2>3 DEF Touches, Changes
    <3>2. regs'[r] = (regs[r] \ t.mask) \cup t.data /\ t.data \subseteq t.mask
      BY <1>2, <1>3, <2>3, <3>1
    <3>3. regs'[r] \cap m = regs[r] \cap m
      BY <3>1, <3>2
    <3> QED BY <1>6, <2>1, <3>3 DEF u
  <2> QED BY <2>2, <2>3
<1>7. CASE Ends(s, r, m, d)
  <2>1. PICK k \in 1 .. Len(s) : /\ Sets(s[k], r, m) /\ s[k].data \cap m = d
                                 /\ \A j \in 1 .. Len(s) : j > k => ~Touches(s[j], r, m)
    BY <1>7 DEF Ends
  <2>2. CASE k = 1
    <3>1. Sets(t, r, m) /\ t.data \cap m = d
      BY <1>1, <2>1, <2>2
    <3>2. regs'[r] \cap m = d
      <4>1. CASE t.op = "write"
        BY <1>2, <1>4, <3>1, <4>1 DEF Sets
      <4>2. CASE t.op = "modify"
        <5>1. regs'[r] = (c.regv \ t.mask) \cup t.data /\ m \subseteq t.mask
          BY <1>2, <3>1, <4>2 DEF Sets
        <5> QED BY <3>1, <5>1
      <4> QED BY <3>1, <4>1, <4>2 DEF Sets, Changes
    <3>3. Leaves(u, r, m)
      <4>1. \A i \in 1 .. Len(u) : i + 1 > k
        BY <2>2
      <4> QED BY <1>1, <2>1, <4>1 DEF Leaves
    <3> QED BY <3>2, <3>3 DEF u
  <2>3. CASE k # 1
    <3>1. k - 1 \in 1 .. Len(u) /\ u[k - 1] = s[k]
      BY <1>1, <1>5, <2>3
    <3>2. \A j \in 1 .. Len(u) : j > k - 1 => ~Touches(u[j], r, m)
      <4> TAKE j \in 1 .. Len(u)
      <4> HAVE j > k - 1
      <4>1. j + 1 \in 1 .. Len(s) /\ j + 1 > k /\ u[j] = s[j + 1]
        BY <1>1
      <4> QED BY <2>1, <4>1
    <3>3. Ends(u, r, m, d)
      BY <2>1, <3>1, <3>2 DEF Ends
    <3> QED BY <3>3 DEF u
  <2> QED BY <2>2, <2>3
<1> QED BY <1>6, <1>7 DEF Will

(***************************************************************************)
(* Phases.                                                                 *)
(***************************************************************************)
LEMMA PhaseIs ==
  ASSUME NEW p, NEW s
  PROVE  /\ Phase(p, s).phase = p /\ Phase(p, s).todo = s
         /\ Phase(p, s).regv = {} /\ Phase(p, s).failed = FALSE
BY DEF Phase

LEMMA NothingIs ==
  /\ Routine(<< >>) /\ Changed(<< >>) = {} /\ OnlyWrites(<< >>) /\ Clears41(<< >>)
  /\ PairedRest(<< >>) /\ << >> \in Seq(Transactions)
  /\ \A r, v : Puts(<< >>, r, v)
BY DEF Routine, Paired, Changed, OnlyWrites, Puts, Clears41, PairedRest

(* A phase begins.                                                         *)
Begun(c, phases) ==
  /\ c \in Process(phases) /\ PairedRest(c.todo)
  /\ c.todo # << >> => Head(c.todo).op # "modify"
  /\ Changed(c.todo) \subseteq MayChange(c.phase)
  /\ c.failed = FALSE /\ c.regv = {}

LEMMA Begins ==
  ASSUME NEW phases, NEW p \in phases, NEW s, Built(s, MayChange(p))
  PROVE  Begun(Phase(p, s), phases)
<1> DEFINE c == Phase(p, s)
<1>1. s \in Seq(Transactions) /\ Paired(s)
  BY DEF Built, Routine
<1>2. c \in Process(phases)
  BY <1>1 DEF Phase, Process, Octet
<1>3. PairedRest(s)
  BY <1>1 DEF Paired, PairedRest
<1>4. s # << >> => Head(s).op # "modify"
  <2> SUFFICES ASSUME s # << >> PROVE Head(s).op # "modify"
    OBVIOUS
  <2>1. Head(s) = s[1] /\ 1 \in 1 .. Len(s)
    BY <1>1, RestIs
  <2> QED BY <1>1, <2>1 DEF Paired
<1>5. c.phase = p /\ c.todo = s /\ c.regv = {} /\ c.failed = FALSE
  BY DEF Phase
<1> HIDE DEF c
<1>6. Begun(c, phases)
  BY <1>2, <1>3, <1>4, <1>5 DEF Begun, Built
<1> QED BY <1>6 DEF c

LEMMA PowerStateIs == \A regv : power_state(regv) = 1
BY DEF power_state

(* What may follow.                                                        *)
LEMMA FollowIs ==
  ASSUME HandlerPhase
  PROVE  /\ handler.phase = "status" =>
              handler' = IF handler.failed THEN Idle ELSE Phase("disable", DisableAndClear)
         /\ handler.phase = "disable" =>
              handler' = IF HotPlug THEN Phase("sense", reg_read(\h42)) ELSE Unplugged
         /\ handler.phase = "sense" =>
              handler' = IF handler.failed THEN Unplugged
                         ELSE IF {5, 6} \subseteq handler.regv
                              THEN Phase("powerup", adv7513_do_hpd_powerup)
                         ELSE IF SenseAgain THEN Phase("sense", reg_read(\h42)) ELSE Unplugged
         /\ handler.phase = "powerup" =>
              handler' = IF handler.failed THEN Unplugged ELSE Phase("edid", adv7513_edid_read)
         /\ handler.phase = "edid" => handler' = Phase("init", adv7513_chip_init(dvi_mode'))
         /\ handler.phase = "init" =>
              handler' = IF handler.failed THEN Unplugged ELSE Phase("power", reg_read(\h41))
         /\ handler.phase = "power" =>
              handler' = IF handler.failed THEN Unplugged ELSE Phase("check", reg_read(\h41))
         /\ handler.phase = "check" => handler' = IF handler.failed THEN Unplugged ELSE Plugged
         /\ handler.phase \in {"unplugged", "plugged"} => handler' = Idle
<1>1. Follow /\ power_state(handler.regv) = 1
  BY PowerStateIs DEF HandlerPhase
<1>2. CASE handler.phase = "status"
  BY <1>1, <1>2 DEF Follow, NoStatus
<1>3. CASE handler.phase = "disable"
  BY <1>1, <1>3 DEF Follow
<1>4. CASE handler.phase = "sense"
  BY <1>1, <1>4 DEF Follow
<1>5. CASE handler.phase = "powerup"
  BY <1>1, <1>5 DEF Follow
<1>6. CASE handler.phase = "edid"
  BY <1>1, <1>6 DEF Follow
<1>7. CASE handler.phase = "init"
  BY <1>1, <1>7 DEF Follow, PowerState
<1>8. CASE handler.phase = "power"
  BY <1>1, <1>8 DEF Follow
<1>9. CASE handler.phase = "check"
  BY <1>1, <1>9 DEF Follow
<1>10. CASE handler.phase \in {"unplugged", "plugged"}
  BY <1>1, <1>10 DEF Follow
<1> QED BY <1>2, <1>3, <1>4, <1>5, <1>6, <1>7, <1>8, <1>9, <1>10

LEMMA Beginnings ==
  /\ Built(read_flags, MayChange("status")) /\ Built(DisableAndClear, MayChange("disable"))
  /\ Built(reg_read(\h42), MayChange("sense")) /\ Built(adv7513_do_hpd_powerup, MayChange("powerup"))
  /\ Built(adv7513_edid_read, MayChange("edid"))
  /\ \A dvi \in BOOLEAN : Built(adv7513_chip_init(dvi), MayChange("init"))
  /\ Built(reg_read(\h41), MayChange("power")) /\ Built(reg_read(\h41), MayChange("check"))
  /\ Built(Masks(0, \hc0, 0), MayChange("unplugged")) /\ Built(Masks(0, \h80, 0), MayChange("plugged"))
  /\ Built(<< >>, MayChange("idle"))
<1>1. /\ MayChange("status") = {} /\ MayChange("sense") = {} /\ MayChange("edid") = {}
      /\ MayChange("power") = {} /\ MayChange("check") = {} /\ MayChange("idle") = {}
      /\ MayChange("disable") = MaskRegs \cup Flags /\ MayChange("powerup") = PowerupRegs
      /\ MayChange("init") = InitRegs
      /\ MayChange("unplugged") = MaskRegs /\ MayChange("plugged") = MaskRegs
  BY DEF MayChange
<1>2. \h42 \in RegisterNumbers /\ \h41 \in RegisterNumbers
  BY Registers
<1>3. Built(read_flags, {}) /\ Built(adv7513_edid_read, {}) /\ Built(<< >>, {})
  BY FlagsAre, EdidReadIs, NothingIs DEF Built
<1>4. Built(reg_read(\h42), {}) /\ Built(reg_read(\h41), {})
  BY <1>2, ReadIs DEF Built
<1>5. Built(DisableAndClear, MaskRegs \cup Flags) /\ Built(adv7513_do_hpd_powerup, PowerupRegs)
  BY DisableIs, PowerupIs
<1>6. \A dvi \in BOOLEAN : Built(adv7513_chip_init(dvi), InitRegs)
  BY InitIs
<1>7. Built(Masks(0, \hc0, 0), MaskRegs) /\ Built(Masks(0, \h80, 0), MaskRegs)
  BY MasksIs DEF Built
<1> QED BY <1>1, <1>3, <1>4, <1>5, <1>6, <1>7

LEMMA HandlerBegins ==
  ASSUME TypeInv, HandlerPhase
  PROVE  Begun(handler', HandlerPhases) /\ dvi_mode' \in BOOLEAN
<1>1. dvi_mode' \in BOOLEAN
  <2>1. dvi_mode' \in {dvi_mode} \/ dvi_mode' \in {TRUE} \/ dvi_mode' \in {TRUE, FALSE}
    BY DEF HandlerPhase
  <2> QED BY <2>1 DEF TypeInv
<1>2. /\ {"idle", "status", "disable", "sense", "powerup", "edid", "init", "power", "check",
          "unplugged", "plugged"} = HandlerPhases
  BY DEF HandlerPhases
<1>3. Idle = Phase("idle", << >>) /\ Unplugged = Phase("unplugged", Masks(0, \hc0, 0))
      /\ Plugged = Phase("plugged", Masks(0, \h80, 0))
  BY DEF Idle, Unplugged, Plugged
<1>4. /\ Begun(Idle, HandlerPhases) /\ Begun(Unplugged, HandlerPhases) /\ Begun(Plugged, HandlerPhases)
      /\ Begun(Phase("disable", DisableAndClear), HandlerPhases)
      /\ Begun(Phase("sense", reg_read(\h42)), HandlerPhases)
      /\ Begun(Phase("powerup", adv7513_do_hpd_powerup), HandlerPhases)
      /\ Begun(Phase("edid", adv7513_edid_read), HandlerPhases)
      /\ Begun(Phase("init", adv7513_chip_init(dvi_mode')), HandlerPhases)
      /\ Begun(Phase("power", reg_read(\h41)), HandlerPhases)
      /\ Begun(Phase("check", reg_read(\h41)), HandlerPhases)
  <2>1. Begun(Idle, HandlerPhases)
    BY <1>2, <1>3, Begins, Beginnings
  <2>2. Begun(Unplugged, HandlerPhases)
    BY <1>2, <1>3, Begins, Beginnings
  <2>3. Begun(Plugged, HandlerPhases)
    BY <1>2, <1>3, Begins, Beginnings
  <2>4. Begun(Phase("disable", DisableAndClear), HandlerPhases)
    BY <1>2, Begins, Beginnings
  <2>5. Begun(Phase("sense", reg_read(\h42)), HandlerPhases)
    BY <1>2, Begins, Beginnings
  <2>6. Begun(Phase("powerup", adv7513_do_hpd_powerup), HandlerPhases)
    BY <1>2, Begins, Beginnings
  <2>7. Begun(Phase("edid", adv7513_edid_read), HandlerPhases)
    BY <1>2, Begins, Beginnings
  <2>8. Begun(Phase("init", adv7513_chip_init(dvi_mode')), HandlerPhases)
    BY <1>1, <1>2, Begins, Beginnings
  <2>9. Begun(Phase("power", reg_read(\h41)), HandlerPhases)
    BY <1>2, Begins, Beginnings
  <2>10. Begun(Phase("check", reg_read(\h41)), HandlerPhases)
    BY <1>2, Begins, Beginnings
  <2> QED BY <2>1, <2>2, <2>3, <2>4, <2>5, <2>6, <2>7, <2>8, <2>9, <2>10
<1>5. handler.phase \in HandlerPhases /\ handler.phase # "idle"
  BY DEF TypeInv, Process, HandlerPhase
<1> QED
  <2>1. CASE handler.phase \in {"status", "disable", "check", "unplugged", "plugged"}
    BY <1>1, <1>4, <2>1, FollowIs
  <2>2. CASE handler.phase \in {"sense", "powerup", "edid", "init", "power"}
    BY <1>1, <1>4, <2>2, FollowIs
  <2> QED BY <1>2, <1>5, <2>1, <2>2

LEMMA MainBegins ==
  ASSUME NEW p \in MainPhases, NEW s,
         \/ p = "identify" /\ s = adv7513_chip_identify
         \/ p = "setup" /\ s = adv7513_int_setup
         \/ p = "kick" /\ s = adv7513_kick_up
         \/ p = "o" /\ s = adv7513_do_hpd_powerdown
         \/ p \in {"i", "v"} /\ s = adv7513_do_hpd_powerup
         \/ p = "initialize" /\ s \in {adv7513_chip_init(FALSE), adv7513_chip_init(TRUE)}
         \/ p \in {"prompt", "exit"} /\ s = << >>
  PROVE  Begun(Phase(p, s), MainPhases)
<1>1. /\ MayChange("identify") = {} /\ MayChange("prompt") = {} /\ MayChange("exit") = {}
      /\ MayChange("setup") = SetupRegs /\ MayChange("kick") = {\h41} /\ MayChange("o") = {\h41}
      /\ MayChange("i") = PowerupRegs /\ MayChange("v") = PowerupRegs
      /\ MayChange("initialize") = InitRegs
  BY DEF MayChange
<1>2. Built(s, MayChange(p))
  <2>1. CASE p = "identify" /\ s = adv7513_chip_identify
    BY <1>1, <2>1, IdentifyIs DEF Built
  <2>2. CASE p = "setup" /\ s = adv7513_int_setup
    BY <1>1, <2>2, SetupIs
  <2>3. CASE p = "kick" /\ s = adv7513_kick_up
    BY <1>1, <2>3, KickIs
  <2>4. CASE p = "o" /\ s = adv7513_do_hpd_powerdown
    BY <1>1, <2>4, KickIs
  <2>5. CASE p \in {"i", "v"} /\ s = adv7513_do_hpd_powerup
    BY <1>1, <2>5, PowerupIs
  <2>6. CASE p = "initialize" /\ s \in {adv7513_chip_init(FALSE), adv7513_chip_init(TRUE)}
    <3>1. Built(adv7513_chip_init(FALSE), InitRegs) /\ Built(adv7513_chip_init(TRUE), InitRegs)
      BY InitIs
    <3> QED BY <1>1, <2>6, <3>1
  <2>7. CASE p \in {"prompt", "exit"} /\ s = << >>
    BY <1>1, <2>7, NothingIs DEF Built
  <2> QED BY <2>1, <2>2, <2>3, <2>4, <2>5, <2>6, <2>7
<1> QED BY <1>2, Begins

(***************************************************************************)
(* One transaction of a process, and what it leaves of the process.        *)
(***************************************************************************)
LEMMA AfterIs ==
  ASSUME NEW phases, NEW c \in Process(phases), c.todo # << >>,
         regs \in [RegisterNumbers -> Octet], hpd \in BOOLEAN, sense \in BOOLEAN
  PROVE  LET t == Head(c.todo)  a == After(c, t) IN
         /\ a \in Process(phases) /\ a.phase = c.phase /\ a.todo = Tail(c.todo)
         /\ a.failed = c.failed
         /\ t.op = "read" => a.regv = IF t.reg = \h42 THEN Levels ELSE regs[t.reg]
         /\ t.op # "read" => a.regv = c.regv
<1> DEFINE t == Head(c.todo)
           v == CASE t.op = "read" -> IF t.reg = \h42 THEN Levels ELSE regs[t.reg]
                  [] OTHER -> c.regv
<1>1. t \in Transactions /\ Tail(c.todo) \in Seq(Transactions) /\ c.regv \in Octet
  BY RestIs DEF Process
<1>2. v \in Octet
  <2>1. Levels \in Octet
    BY DEF Levels, Octet
  <2>2. CASE t.op = "read"
    <3>1. t.reg \in RegisterNumbers
      BY <1>1, <2>2, TransactionFacts
    <3> QED BY <2>1, <2>2, <3>1
  <2>3. CASE t.op # "read"
    BY <1>1, <2>3
  <2> QED BY <2>2, <2>3
<1>3. After(c, t) = [c EXCEPT !.todo = Tail(c.todo), !.regv = v]
  BY DEF After
<1>4. /\ t.op = "read" => v = IF t.reg = \h42 THEN Levels ELSE regs[t.reg]
      /\ t.op # "read" => v = c.regv
  OBVIOUS
<1> HIDE DEF v, t
<1>5. LET a == After(c, t) IN
      /\ a \in Process(phases) /\ a.phase = c.phase /\ a.todo = Tail(c.todo)
      /\ a.failed = c.failed /\ a.regv = v
  BY <1>1, <1>2, <1>3 DEF Process
<1>6. LET a == After(c, t) IN
      /\ a \in Process(phases) /\ a.phase = c.phase /\ a.todo = Tail(c.todo)
      /\ a.failed = c.failed
      /\ t.op = "read" => a.regv = IF t.reg = \h42 THEN Levels ELSE regs[t.reg]
      /\ t.op # "read" => a.regv = c.regv
  BY <1>4, <1>5
<1> QED BY <1>6 DEF t

LEMMA AfterNackIs ==
  ASSUME NEW phases, NEW c \in Process(phases), c.todo # << >>
  PROVE  LET a == AfterNack(c) IN
         /\ a \in Process(phases) /\ a.phase = c.phase /\ a.failed = TRUE /\ a.regv = c.regv
         /\ a.todo = IF Careless(c) /\ c.phase # "kick" THEN Tail(c.todo) ELSE << >>
<1>1. Tail(c.todo) \in Seq(Transactions) /\ << >> \in Seq(Transactions)
  BY RestIs DEF Process
<1>2. CASE Careless(c) /\ c.phase # "kick"
  <2>1. AfterNack(c) = [c EXCEPT !.todo = Tail(c.todo), !.failed = TRUE]
    BY <1>2 DEF AfterNack
  <2> QED BY <1>1, <1>2, <2>1 DEF Process
<1>3. CASE ~(Careless(c) /\ c.phase # "kick")
  <2>1. AfterNack(c) = [c EXCEPT !.todo = << >>, !.failed = TRUE]
    BY <1>3 DEF AfterNack
  <2> QED BY <1>1, <1>3, <2>1 DEF Process
<1> QED BY <1>2, <1>3

(* A transaction of the handler.                                           *)
HandlerAck ==
  /\ handler.todo # << >> /\ Acknowledged(handler, Head(handler.todo))
  /\ handler' = After(handler, Head(handler.todo))
  /\ status' = IF handler.phase # "status" THEN status
               ELSE IF Head(handler.todo).reg = \h93
                    THEN {<<Head(handler.todo).reg, b>> : b \in regs[Head(handler.todo).reg]}
               ELSE status \cup {<<Head(handler.todo).reg, b>> : b \in regs[Head(handler.todo).reg]}
  /\ UNCHANGED <<monitor, sense, main, irq, dvi_mode, sense_retries, pwron_retries, given>>
HandlerNack ==
  /\ handler.todo # << >> /\ nacks' = nacks + 1 /\ handler' = AfterNack(handler)
  /\ UNCHANGED <<regs, status>>
  /\ UNCHANGED <<monitor, sense, main, irq, dvi_mode, sense_retries, pwron_retries, given>>

LEMMA HandlerTransactionIs == HandlerTransaction => HandlerAck \/ HandlerNack
BY DEF HandlerTransaction, HandlerAck, HandlerNack

MainAck ==
  /\ MainRuns /\ main.todo # << >> /\ Acknowledged(main, Head(main.todo))
  /\ main' = After(main, Head(main.todo))
  /\ UNCHANGED <<monitor, sense, handler, program, given>>
MainNack ==
  /\ MainRuns /\ main.todo # << >> /\ nacks' = nacks + 1 /\ main' = AfterNack(main)
  /\ UNCHANGED regs
  /\ UNCHANGED <<monitor, sense, handler, program, given>>

LEMMA MainTransactionIs == MainTransaction => MainAck \/ MainNack
BY DEF MainTransaction, MainAck, MainNack

(* What an acknowledged transaction of the handler does, and what remains. *)
LEMMA HandlerAckIs ==
  ASSUME TypeInv, Fresh, HandlerAck
  PROVE  LET t == Head(handler.todo) IN
         /\ t \in Transactions
         /\ handler' \in Process(HandlerPhases) /\ handler'.phase = handler.phase
         /\ handler'.todo = Tail(handler.todo) /\ handler'.failed = handler.failed
         /\ t.op = "read" => handler'.regv = IF t.reg = \h42 THEN Levels ELSE regs[t.reg]
         /\ regs' \in [RegisterNumbers -> Octet] /\ nacks' = nacks
         /\ \A r \in RegisterNumbers : ~(Changes(t) /\ t.reg = r) => regs'[r] = regs[r]
         /\ Changes(t) => t.reg \in RegisterNumbers
         /\ t.op = "write" /\ t.reg \notin Flags => regs'[t.reg] = t.data
         /\ t.op = "write" /\ t.reg \in Flags => regs'[t.reg] \subseteq regs[t.reg]
         /\ \A r \in RegisterNumbers : r \notin Changed(handler.todo) => regs'[r] = regs[r]
         /\ Fresh'
<1> DEFINE t == Head(handler.todo)
<1>1. /\ handler \in Process(HandlerPhases) /\ handler.todo # << >> /\ handler.regv \in Octet
      /\ handler.todo \in Seq(Transactions)
      /\ regs \in [RegisterNumbers -> Octet] /\ hpd \in BOOLEAN /\ sense \in BOOLEAN
  BY DEF TypeInv, HandlerAck, Process
<1>2. t \in Transactions /\ handler' = After(handler, t) /\ Acknowledged(handler, t)
  BY <1>1, RestIs DEF HandlerAck
<1>3. /\ handler' \in Process(HandlerPhases) /\ handler'.phase = handler.phase
      /\ handler'.todo = Tail(handler.todo) /\ handler'.failed = handler.failed
      /\ t.op = "read" => handler'.regv = IF t.reg = \h42 THEN Levels ELSE regs[t.reg]
      /\ t.op # "read" => handler'.regv = handler.regv
  BY <1>1, <1>2, AfterIs
<1> HIDE DEF t
<1>4. /\ regs' \in [RegisterNumbers -> Octet] /\ nacks' = nacks
      /\ \A r \in RegisterNumbers : ~(Changes(t) /\ t.reg = r) => regs'[r] = regs[r]
      /\ Changes(t) => t.reg \in RegisterNumbers
      /\ t.op = "write" /\ t.reg \notin Flags => regs'[t.reg] = t.data
      /\ t.op = "write" /\ t.reg \in Flags => regs'[t.reg] \subseteq regs[t.reg]
  BY <1>1, <1>2, StoreIs
<1>5. Changes(t) => t.reg \in Changed(handler.todo)
  BY <1>1, RestKeeps DEF t
<1>6. Fresh'
  <2> DEFINE s == handler.todo  u == Tail(handler.todo)
  <2>1. PairedRest(s) /\ PairedRest(u)
    BY <1>1, RestKeeps DEF Fresh
  <2>2. ASSUME u # << >>, Head(u).op = "modify" PROVE handler'.regv = regs'[Head(u).reg]
    <3>1. u \in Seq(Transactions) /\ t = s[1] /\ Len(s) \in Nat /\ Len(u) = Len(s) - 1
          /\ \A i \in 1 .. Len(u) : u[i] = s[i + 1]
      BY <1>1, RestIs DEF t
    <3>2. Head(u) = u[1] /\ Len(u) \in Nat /\ Len(u) > 0 /\ Head(u) \in Transactions
      BY <2>2, <3>1, RestIs
    <3> HIDE DEF u
    <3>3. 1 \in 1 .. Len(u) /\ 2 \in 2 .. Len(s)
      BY <3>1, <3>2
    <3>4. u[1] = s[2]
      BY <3>1, <3>3
    <3>5. s[1].op = "read" /\ s[1].reg = s[2].reg
      <4>1. s[2].op = "modify" => s[2 - 1].op = "read" /\ s[2 - 1].reg = s[2].reg
        BY <2>1, <3>3 DEF PairedRest
      <4> QED BY <2>2, <3>2, <3>4, <4>1
    <3>6. t.op = "read" /\ t.reg = Head(u).reg
      BY <3>1, <3>2, <3>4, <3>5
    <3>7. Head(u).reg \in Plain
      BY <2>2, <3>2, TransactionFacts
    <3>8. t.reg # \h42 /\ t.reg \in RegisterNumbers /\ ~Changes(t)
      BY <3>6, <3>7 DEF Plain, Changes
    <3> QED BY <1>3, <1>4, <3>6, <3>8
  <2> QED BY <1>3, <2>1, <2>2 DEF Fresh
<1>7. \A r \in RegisterNumbers : r \notin Changed(handler.todo) => regs'[r] = regs[r]
  BY <1>4, <1>5
<1>8. /\ t \in Transactions
      /\ handler' \in Process(HandlerPhases) /\ handler'.phase = handler.phase
      /\ handler'.todo = Tail(handler.todo) /\ handler'.failed = handler.failed
      /\ t.op = "read" => handler'.regv = IF t.reg = \h42 THEN Levels ELSE regs[t.reg]
      /\ regs' \in [RegisterNumbers -> Octet] /\ nacks' = nacks
      /\ \A r \in RegisterNumbers : ~(Changes(t) /\ t.reg = r) => regs'[r] = regs[r]
      /\ Changes(t) => t.reg \in RegisterNumbers
      /\ t.op = "write" /\ t.reg \notin Flags => regs'[t.reg] = t.data
      /\ t.op = "write" /\ t.reg \in Flags => regs'[t.reg] \subseteq regs[t.reg]
  BY <1>2, <1>3, <1>4
<1> QED BY <1>6, <1>7, <1>8 DEF t

(* What a process has left after a transaction, acknowledged or not.       *)
Left(s, u) ==
  /\ u \in Seq(Transactions) /\ Changed(u) \subseteq Changed(s)
  /\ OnlyWrites(s) => OnlyWrites(u)
  /\ Clears41(s) => Clears41(u)
  /\ \A r, v : Puts(s, r, v) => Puts(u, r, v)

LEMMA LeftIs ==
  ASSUME NEW s \in Seq(Transactions), s # << >>
  PROVE  Left(s, Tail(s)) /\ Left(s, << >>)
<1>1. Left(s, Tail(s))
  <2>1. Tail(s) \in Seq(Transactions)
    BY RestIs
  <2> QED BY <2>1, RestKeeps DEF Left
<1>2. Left(s, << >>)
  BY NothingIs DEF Left
<1> QED BY <1>1, <1>2

(* What a transaction of the handler that is not acknowledged does.        *)
LEMMA HandlerNackIs ==
  ASSUME TypeInv, Fresh, HandlerWrites, HandlerNack
  PROVE  /\ handler' \in Process(HandlerPhases) /\ handler'.phase = handler.phase
         /\ handler'.failed = TRUE /\ handler'.regv = handler.regv
         /\ handler'.todo = IF handler.phase \in {"disable", "unplugged", "plugged"}
                            THEN Tail(handler.todo) ELSE << >>
         /\ regs' = regs /\ nacks' = nacks + 1 /\ Left(handler.todo, handler'.todo)
         /\ Fresh'
<1>1. /\ handler \in Process(HandlerPhases) /\ handler.todo # << >>
      /\ handler.todo \in Seq(Transactions) /\ handler.phase \in HandlerPhases
      /\ handler.phase # "idle"
  <2>1. Idle.todo = << >>
    BY PhaseIs DEF Idle
  <2> QED BY <2>1 DEF TypeInv, HandlerNack, Process
<1>2. /\ handler' \in Process(HandlerPhases) /\ handler'.phase = handler.phase
      /\ handler'.failed = TRUE /\ handler'.regv = handler.regv
      /\ handler'.todo = IF Careless(handler) /\ handler.phase # "kick"
                         THEN Tail(handler.todo) ELSE << >>
  BY <1>1, AfterNackIs DEF HandlerNack
<1>3. handler'.todo = IF handler.phase \in {"disable", "unplugged", "plugged"}
                      THEN Tail(handler.todo) ELSE << >>
  BY <1>1, <1>2 DEF Careless, HandlerPhases
<1>4. Left(handler.todo, handler'.todo)
  BY <1>1, <1>3, LeftIs
<1>5. regs' = regs /\ nacks' = nacks + 1
  BY DEF HandlerNack
<1>6. Fresh'
  <2>1. CASE handler.phase \in {"disable", "unplugged", "plugged"}
    <3> DEFINE u == Tail(handler.todo)
    <3>1. handler'.todo = u /\ OnlyWrites(u) /\ u \in Seq(Transactions)
      BY <1>1, <1>3, <2>1, RestKeeps, RestIs DEF HandlerWrites
    <3>2. PairedRest(u)
      BY <1>1, RestKeeps DEF Fresh
    <3> HIDE DEF u
    <3>3. u # << >> => Head(u).op = "write"
      BY <3>1, RestKeeps
    <3> QED BY <3>1, <3>2, <3>3 DEF Fresh
  <2>2. CASE handler.phase \notin {"disable", "unplugged", "plugged"}
    BY <1>3, <2>2, NothingIs DEF Fresh
  <2> QED BY <2>1, <2>2
<1> QED BY <1>2, <1>3, <1>4, <1>5, <1>6

LEMMA MainAckIs ==
  ASSUME TypeInv, MainAck
  PROVE  LET t == Head(main.todo) IN
         /\ t \in Transactions
         /\ main' \in Process(MainPhases) /\ main'.phase = main.phase
         /\ main'.todo = Tail(main.todo) /\ main'.failed = main.failed
         /\ regs' \in [RegisterNumbers -> Octet] /\ nacks' = nacks
         /\ Changes(t) => t.reg \in RegisterNumbers
         /\ t.op = "modify" => regs'[t.reg] = (main.regv \ t.mask) \cup t.data
         /\ \A r \in RegisterNumbers : r \notin Changed(main.todo) => regs'[r] = regs[r]
         /\ \A r \in RegisterNumbers : ~(Changes(t) /\ t.reg = r) => regs'[r] = regs[r]
         /\ handler = Idle /\ ~Interrupting /\ Left(main.todo, main'.todo)
<1> DEFINE t == Head(main.todo)
<1>1. /\ main \in Process(MainPhases) /\ main.todo # << >> /\ main.regv \in Octet
      /\ main.todo \in Seq(Transactions)
      /\ regs \in [RegisterNumbers -> Octet] /\ hpd \in BOOLEAN /\ sense \in BOOLEAN
  BY DEF TypeInv, MainAck, Process
<1>2. t \in Transactions /\ main' = After(main, t) /\ Acknowledged(main, t)
  BY <1>1, RestIs DEF MainAck
<1>3. /\ main' \in Process(MainPhases) /\ main'.phase = main.phase
      /\ main'.todo = Tail(main.todo) /\ main'.failed = main.failed
  BY <1>1, <1>2, AfterIs
<1> HIDE DEF t
<1>4. /\ regs' \in [RegisterNumbers -> Octet] /\ nacks' = nacks
      /\ \A r \in RegisterNumbers : ~(Changes(t) /\ t.reg = r) => regs'[r] = regs[r]
      /\ Changes(t) => t.reg \in RegisterNumbers
      /\ t.op = "modify" => regs'[t.reg] = (main.regv \ t.mask) \cup t.data
  BY <1>1, <1>2, StoreIs
<1>5. Changes(t) => t.reg \in Changed(main.todo)
  BY <1>1, RestKeeps DEF t
<1>6. \A r \in RegisterNumbers : r \notin Changed(main.todo) => regs'[r] = regs[r]
  BY <1>4, <1>5
<1>7. handler = Idle /\ ~Interrupting
  BY DEF MainAck, MainRuns
<1>8. Left(main.todo, main'.todo)
  BY <1>1, <1>3, LeftIs
<1> QED BY <1>2, <1>3, <1>4, <1>6, <1>7, <1>8 DEF t

LEMMA MainNackIs ==
  ASSUME TypeInv, MainNack
  PROVE  /\ main' \in Process(MainPhases) /\ main'.phase = main.phase
         /\ main'.failed = TRUE /\ main'.todo = << >>
         /\ regs' = regs /\ nacks' = nacks + 1 /\ handler = Idle /\ ~Interrupting
         /\ Left(main.todo, main'.todo)
<1>1. /\ main \in Process(MainPhases) /\ main.todo # << >> /\ main.phase \in MainPhases
      /\ main.todo \in Seq(Transactions)
  BY DEF TypeInv, MainNack, Process
<1>2. /\ main' \in Process(MainPhases) /\ main'.phase = main.phase
      /\ main'.failed = TRUE
      /\ main'.todo = IF Careless(main) /\ main.phase # "kick" THEN Tail(main.todo) ELSE << >>
  BY <1>1, AfterNackIs DEF MainNack
<1>3. main'.todo = << >>
  BY <1>1, <1>2 DEF Careless, MainPhases
<1>4. Left(main.todo, main'.todo)
  BY <1>1, <1>3, LeftIs
<1> QED BY <1>2, <1>3, <1>4 DEF MainNack, MainRuns

(***************************************************************************)
(* What is left of the programs, while they run: Typed is inductive.       *)
(***************************************************************************)
Typed == TypeInv /\ Fresh /\ Programs

LEMMA TypedInit == ASSUME Init PROVE Typed
<1>0. {} \in Octet /\ {6} \in Octet /\ \h41 \in RegisterNumbers
  BY DEF Octet, RegisterNumbers
<1>1. /\ main = Phase("identify", adv7513_chip_identify) /\ handler = Idle
      /\ regs = [r \in RegisterNumbers |-> IF r = \h41 THEN {6} ELSE {}]
      /\ irq = FALSE /\ sense = FALSE
  BY DEF Init
<1>2. Begun(main, MainPhases)
  BY <1>1, MainBegins DEF MainPhases
<1>3. Begun(handler, HandlerPhases)
  <2>1. Idle = Phase("idle", << >>) /\ "idle" \in HandlerPhases
    BY DEF Idle, HandlerPhases
  <2> QED BY <1>1, <2>1, Begins, Beginnings
<1>4. main.phase = "identify" /\ main.failed = FALSE /\ handler.phase = "idle" /\ handler.failed = FALSE
  BY <1>1, PhaseIs DEF Idle
<1>5. regs \in [RegisterNumbers -> Octet] /\ regs[\h41] = {6}
  BY <1>0, <1>1
<1>6. TypeInv
  <2>1. SENSES \in 0 .. SENSES /\ SENSES >= 1 /\ FALSE \in BOOLEAN /\ 0 \in Nat
    BY DriverAssumption
  <2>2. main \in Process(MainPhases) /\ handler \in Process(HandlerPhases)
    BY <1>2, <1>3 DEF Begun
  <2>3. /\ hpd \in BOOLEAN /\ receiver \in BOOLEAN /\ dvi_mode = FALSE /\ sense_retries = SENSES
        /\ pwron_retries = POWERONS /\ nacks = 0 /\ given = 0
    BY DEF Init
  <2> QED BY <1>1, <1>4, <1>5, <2>1, <2>2, <2>3 DEF TypeInv
<1>7. Fresh
  BY <1>3 DEF Fresh, Begun
<1>8. Within /\ Failures /\ Obeys
  BY <1>2, <1>3, <1>4 DEF Within, Begun, Failures, Obeys
<1>9. HandlerWrites /\ MainWrites
  BY <1>4 DEF HandlerWrites, MainWrites
<1>10. Starting
  BY <1>1, <1>4, <1>5 DEF Starting
<1> QED BY <1>6, <1>7, <1>8, <1>9, <1>10 DEF Typed, Programs

LEMMA TypedEnter == ASSUME Typed, EnterHandler PROVE Typed'
<1>1. /\ handler' = Phase("status", read_flags) /\ sense_retries' = SENSES
      /\ pwron_retries' = POWERONS /\ dvi_mode' = FALSE
      /\ regs' = regs /\ hpd' = hpd /\ receiver' = receiver /\ sense' = sense /\ main' = main
      /\ irq' = irq /\ nacks' = nacks /\ given' = given /\ irq = TRUE
  BY DEF EnterHandler, monitor, troubles, Interrupting, Typed, TypeInv
<1>2. Begun(handler', HandlerPhases)
  <2>1. "status" \in HandlerPhases
    BY DEF HandlerPhases
  <2> QED BY <1>1, <2>1, Begins, Beginnings
<1>3. handler'.phase = "status" /\ handler'.failed = FALSE
  BY <1>1, PhaseIs
<1>4. TypeInv'
  <2>1. SENSES \in 0 .. SENSES /\ SENSES >= 1 /\ FALSE \in BOOLEAN
    BY DriverAssumption
  <2>2. handler' \in Process(HandlerPhases)
    BY <1>2 DEF Begun
  <2> QED BY <1>1, <1>3, <2>1, <2>2 DEF TypeInv, Typed
<1>5. Fresh'
  BY <1>2 DEF Fresh, Begun
<1>6. Within' /\ Failures' /\ Obeys'
  BY <1>1, <1>2, <1>3 DEF Typed, Programs, Within, Begun, Failures, Obeys
<1>7. HandlerWrites' /\ MainWrites'
  BY <1>1, <1>3 DEF Typed, Programs, HandlerWrites, MainWrites, Will
<1>8. Starting'
  BY <1>1 DEF Typed, Programs, Starting
<1> QED BY <1>4, <1>5, <1>6, <1>7, <1>8 DEF Typed, Programs

LEMMA TypedHandlerPhase == ASSUME Typed, HandlerPhase PROVE Typed'
<1>1. /\ regs' = regs /\ hpd' = hpd /\ receiver' = receiver /\ sense' = sense /\ main' = main
      /\ irq' = irq /\ nacks' = nacks /\ given' = given /\ handler # Idle
      /\ sense_retries' = sense_retries - (IF handler.phase = "sense" THEN 1 ELSE 0)
      /\ pwron_retries' =
           pwron_retries - (IF handler.phase = "power" /\ power_state(handler.regv) = 0 THEN 1 ELSE 0)
  BY DEF HandlerPhase, monitor, troubles
<1>2. Begun(handler', HandlerPhases) /\ dvi_mode' \in BOOLEAN
  BY HandlerBegins DEF Typed
<1>3. handler.phase \in HandlerPhases /\ handler.phase # "idle" /\ irq
  BY <1>1 DEF Typed, TypeInv, Process, Programs, Starting
<1>4. \/ handler'.phase = "idle" /\ handler' = Idle
      \/ handler'.phase = "unplugged" /\ handler' = Unplugged
      \/ handler'.phase = "plugged" /\ handler' = Plugged
      \/ handler'.phase = "disable" /\ handler' = Phase("disable", DisableAndClear)
           /\ handler.phase = "status"
      \/ /\ handler'.phase = "sense"
         /\ handler.phase = "disable" \/ (handler.phase = "sense" /\ SenseAgain)
      \/ handler'.phase \in {"powerup", "edid", "init", "power", "check"}
  <2>1. /\ Idle.phase = "idle" /\ Unplugged.phase = "unplugged" /\ Plugged.phase = "plugged"
        /\ \A p, s : Phase(p, s).phase = p
    BY PhaseIs DEF Idle, Unplugged, Plugged
  <2>2. CASE handler.phase \in {"status", "disable", "sense"}
    BY <2>1, <2>2, FollowIs
  <2>3. CASE handler.phase \in {"powerup", "edid", "init", "power"}
    BY <2>1, <2>3, FollowIs
  <2>4. CASE handler.phase \in {"check", "unplugged", "plugged"}
    BY <2>1, <2>4, FollowIs
  <2> QED BY <1>3, <2>2, <2>3, <2>4 DEF HandlerPhases
<1>5. TypeInv'
  <2>1. pwron_retries' = POWERONS
    BY <1>1, PowerStateIs, DriverAssumption DEF Typed, TypeInv
  <2>2. sense_retries' \in 0 .. SENSES
    BY <1>1, DriverAssumption DEF Typed, TypeInv
  <2>3. handler'.phase = "sense" => sense_retries' >= 1
    BY <1>1, <1>4, DriverAssumption DEF Typed, TypeInv, SenseAgain
  <2>4. handler'.phase \in {"status", "disable"} => sense_retries' = SENSES
    BY <1>1, <1>4, DriverAssumption DEF Typed, TypeInv
  <2>5. handler'.phase = "idle" => handler' = Idle
    BY <1>4
  <2> QED BY <1>1, <1>2, <2>1, <2>2, <2>3, <2>4, <2>5 DEF Typed, TypeInv, Begun
<1>6. Fresh'
  BY <1>2 DEF Fresh, Begun
<1>7. Within' /\ Failures' /\ Obeys'
  BY <1>1, <1>2 DEF Typed, Programs, Within, Begun, Failures, Obeys
<1>8. HandlerWrites'
  <2>1. /\ Phase("disable", DisableAndClear).todo = DisableAndClear
        /\ Unplugged.todo = Masks(0, \hc0, 0) /\ Plugged.todo = Masks(0, \h80, 0)
    BY DEF Unplugged, Plugged, Phase
  <2>2. OnlyWrites(DisableAndClear) /\ Puts(DisableAndClear, \h94, {})
    BY DisableIs
  <2>3. /\ OnlyWrites(Masks(0, \hc0, 0)) /\ Puts(Masks(0, \hc0, 0), \h94, {6, 7})
        /\ OnlyWrites(Masks(0, \h80, 0)) /\ Puts(Masks(0, \h80, 0), \h94, {7})
    BY MasksIs, BitsAre
  <2> QED BY <1>4, <2>1, <2>2, <2>3 DEF HandlerWrites
<1>9. MainWrites'
  BY <1>1 DEF Typed, Programs, MainWrites, Will
<1>10. Starting'
  BY <1>1, <1>3 DEF Typed, Programs, Starting
<1> QED BY <1>5, <1>6, <1>7, <1>8, <1>9, <1>10 DEF Typed, Programs

LEMMA TypedHandlerAck == ASSUME Typed, HandlerAck PROVE Typed'
<1>0. TypeInv /\ Fresh /\ Programs
  BY DEF Typed
<1>1. /\ handler' \in Process(HandlerPhases) /\ handler'.phase = handler.phase
      /\ handler'.todo = Tail(handler.todo) /\ handler'.failed = handler.failed
      /\ regs' \in [RegisterNumbers -> Octet] /\ nacks' = nacks
      /\ Fresh'
  BY <1>0, HandlerAckIs
<1>2. /\ hpd' = hpd /\ receiver' = receiver /\ sense' = sense /\ main' = main /\ irq' = irq
      /\ dvi_mode' = dvi_mode /\ sense_retries' = sense_retries /\ pwron_retries' = pwron_retries
      /\ given' = given
  BY DEF HandlerAck, monitor
<1>3. /\ handler.todo \in Seq(Transactions) /\ handler.todo # << >>
      /\ handler # Idle /\ handler.phase # "idle"
  <2>1. Idle.todo = << >>
    BY PhaseIs DEF Idle
  <2> QED BY <1>0, <2>1 DEF TypeInv, HandlerAck, Process
<1>4. Left(handler.todo, handler'.todo)
  BY <1>1, <1>3, LeftIs
<1>5. irq /\ main.phase # "setup"
  BY <1>0, <1>3 DEF Programs, Starting
<1>6. TypeInv'
  BY <1>0, <1>1, <1>2, <1>3 DEF TypeInv
<1>7. Within' /\ Failures' /\ Obeys'
  BY <1>0, <1>1, <1>2, <1>4 DEF Programs, Within, Left, Failures, Obeys
<1>8. HandlerWrites' /\ MainWrites'
  BY <1>0, <1>1, <1>2, <1>4, <1>5 DEF Programs, HandlerWrites, MainWrites, Left
<1>9. Starting'
  BY <1>0, <1>2, <1>5 DEF Programs, Starting
<1> QED BY <1>1, <1>6, <1>7, <1>8, <1>9 DEF Typed, Programs

LEMMA TypedHandlerNack == ASSUME Typed, HandlerNack PROVE Typed'
<1>0. TypeInv /\ Fresh /\ Programs /\ HandlerWrites
  BY DEF Typed, Programs
<1>1. /\ handler' \in Process(HandlerPhases) /\ handler'.phase = handler.phase
      /\ handler'.failed = TRUE /\ regs' = regs /\ nacks' = nacks + 1
      /\ Left(handler.todo, handler'.todo) /\ Fresh'
  BY <1>0, HandlerNackIs
<1>2. /\ hpd' = hpd /\ receiver' = receiver /\ sense' = sense /\ main' = main /\ irq' = irq
      /\ dvi_mode' = dvi_mode /\ sense_retries' = sense_retries /\ pwron_retries' = pwron_retries
      /\ given' = given
  BY DEF HandlerNack, monitor
<1>3. handler.todo # << >> /\ handler # Idle /\ handler.phase # "idle"
  <2>1. Idle.todo = << >>
    BY PhaseIs DEF Idle
  <2> QED BY <1>0, <2>1 DEF TypeInv, HandlerNack, Process
<1>5. irq /\ main.phase # "setup"
  BY <1>0, <1>3 DEF Programs, Starting
<1>6. TypeInv'
  BY <1>0, <1>1, <1>2, <1>3 DEF TypeInv
<1>7. Within' /\ Obeys'
  BY <1>0, <1>1, <1>2 DEF Programs, Within, Left, Obeys
<1>10. Failures'
  BY <1>0, <1>1 DEF TypeInv, Failures
<1>8. HandlerWrites' /\ MainWrites'
  BY <1>0, <1>1, <1>2, <1>5 DEF Programs, HandlerWrites, MainWrites, Left
<1>9. Starting'
  BY <1>0, <1>2, <1>5 DEF Programs, Starting
<1> QED BY <1>1, <1>6, <1>7, <1>8, <1>9, <1>10 DEF Typed, Programs

LEMMA TypedMainAck == ASSUME Typed, MainAck PROVE Typed'
<1>0. TypeInv /\ Fresh /\ Programs
  BY DEF Typed
<1>1. /\ main' \in Process(MainPhases) /\ main'.phase = main.phase
      /\ main'.todo = Tail(main.todo) /\ main'.failed = main.failed
      /\ regs' \in [RegisterNumbers -> Octet] /\ nacks' = nacks
      /\ \A r \in RegisterNumbers : r \notin Changed(main.todo) => regs'[r] = regs[r]
      /\ handler = Idle /\ Left(main.todo, main'.todo)
  BY <1>0, MainAckIs
<1>2. /\ hpd' = hpd /\ receiver' = receiver /\ sense' = sense /\ handler' = handler /\ irq' = irq
      /\ dvi_mode' = dvi_mode /\ sense_retries' = sense_retries /\ pwron_retries' = pwron_retries
      /\ given' = given
  BY DEF MainAck, monitor, program
<1>3. TypeInv'
  BY <1>0, <1>1, <1>2 DEF TypeInv
<1>4. handler.todo = << >> /\ handler.phase = "idle"
  BY <1>1 DEF Idle, Phase
<1>5. Fresh'
  BY <1>2, <1>4, NothingIs DEF Fresh
<1>6. Within' /\ Failures' /\ Obeys'
  BY <1>0, <1>1, <1>2 DEF Programs, Within, Left, Failures, Obeys
<1>7. HandlerWrites'
  BY <1>2, <1>4 DEF HandlerWrites
<1>8. MainWrites'
  <2>1. MainWrites
    BY <1>0 DEF Programs
  <2>2. ASSUME main.phase = "setup", ~main.failed PROVE Will(main.todo, \h94, 0 .. 7, {6, 7})'
    <3>1. Will(main.todo, \h94, 0 .. 7, {6, 7})
      BY <2>1, <2>2 DEF MainWrites
    <3>2. /\ regs \in [RegisterNumbers -> Octet] /\ main.regv \in Octet /\ main.todo \in Seq(Transactions)
          /\ main.todo # << >> /\ Acknowledged(main, Head(main.todo))
      BY <1>0 DEF TypeInv, Process, MainAck
    <3>3. Head(main.todo).op = "write"
      BY <2>1, <2>2, <3>2, RestKeeps DEF MainWrites
    <3>4. \h94 \in Plain /\ 0 .. 7 \in Octet
      BY DEF Plain, RegisterNumbers, Flags, Octet
    <3>5. \/ Ends(Tail(main.todo), \h94, 0 .. 7, {6, 7})
          \/ Leaves(Tail(main.todo), \h94, 0 .. 7) /\ regs'[\h94] \cap 0 .. 7 = {6, 7}
      BY <3>1, <3>2, <3>3, <3>4, WillStep
    <3> QED BY <1>1, <3>5 DEF Will
  <2> QED BY <1>1, <2>1, <2>2 DEF MainWrites, Left
<1>9. Starting'
  <2>1. main.phase \in {"identify", "setup", "exit"} => regs'[\h41] = regs[\h41]
    <3>1. main.phase \in {"identify", "setup", "exit"} => \h41 \notin MayChange(main.phase)
      BY DEF MayChange, SetupRegs
    <3>2. \h41 \in RegisterNumbers
      BY DEF RegisterNumbers
    <3> QED BY <1>0, <1>1, <3>1, <3>2 DEF Programs, Within
  <2> QED BY <1>0, <1>1, <1>2, <2>1 DEF Programs, Starting
<1> QED BY <1>3, <1>5, <1>6, <1>7, <1>8, <1>9 DEF Typed, Programs

LEMMA TypedMainNack == ASSUME Typed, MainNack PROVE Typed'
<1>0. TypeInv /\ Fresh /\ Programs
  BY DEF Typed
<1>1. /\ main' \in Process(MainPhases) /\ main'.phase = main.phase
      /\ main'.failed = TRUE /\ main'.todo = << >>
      /\ regs' = regs /\ nacks' = nacks + 1
      /\ handler = Idle /\ Left(main.todo, main'.todo)
  BY <1>0, MainNackIs
<1>2. /\ hpd' = hpd /\ receiver' = receiver /\ sense' = sense /\ handler' = handler /\ irq' = irq
      /\ dvi_mode' = dvi_mode /\ sense_retries' = sense_retries /\ pwron_retries' = pwron_retries
      /\ given' = given
  BY DEF MainNack, monitor, program
<1>3. TypeInv'
  BY <1>0, <1>1, <1>2 DEF TypeInv
<1>4. handler.todo = << >> /\ handler.phase = "idle"
  BY <1>1 DEF Idle, Phase
<1>5. Fresh'
  BY <1>2, <1>4, NothingIs DEF Fresh
<1>6. Within' /\ Obeys'
  BY <1>0, <1>1, <1>2 DEF Programs, Within, Left, Obeys
<1>10. Failures'
  BY <1>0, <1>1 DEF TypeInv, Failures
<1>7. HandlerWrites'
  BY <1>2, <1>4 DEF HandlerWrites
<1>8. MainWrites'
  BY <1>0, <1>1 DEF Programs, MainWrites, Left
<1>9. Starting'
  BY <1>0, <1>1, <1>2 DEF Programs, Starting
<1> QED BY <1>3, <1>5, <1>6, <1>7, <1>8, <1>9, <1>10 DEF Typed, Programs

LEMMA TypedMainPhase == ASSUME Typed, MainPhase PROVE Typed'
<1>0. TypeInv /\ Fresh /\ Programs
  BY DEF Typed
<1>1. /\ regs' = regs /\ hpd' = hpd /\ receiver' = receiver /\ sense' = sense /\ handler' = handler
      /\ dvi_mode' = dvi_mode /\ sense_retries' = sense_retries /\ pwron_retries' = pwron_retries
      /\ nacks' = nacks /\ given' = given /\ handler = Idle
      /\ irq' = (irq \/ (main.phase = "setup" /\ ~main.failed))
      /\ main.phase \notin {"prompt", "exit"} /\ main.todo = << >>
  BY DEF MainPhase, MainRuns, monitor, troubles
<1>2. \/ main.phase \in {"identify", "setup"} /\ main.failed /\ main' = Phase("exit", << >>)
      \/ main.phase = "identify" /\ ~main.failed /\ main' = Phase("setup", adv7513_int_setup)
      \/ main.phase = "setup" /\ ~main.failed /\ main' = Phase("kick", adv7513_kick_up)
      \/ main.phase = "i" /\ main' = Phase("initialize", adv7513_chip_init(FALSE))
      \/ main.phase = "v" /\ main' = Phase("initialize", adv7513_chip_init(TRUE))
      \/ main.phase \notin {"identify", "setup", "i", "v"} /\ main' = Phase("prompt", << >>)
  <2>1. main' = CASE main.phase \in {"identify", "setup"} /\ main.failed -> Phase("exit", << >>)
               [] main.phase = "identify" /\ ~main.failed -> Phase("setup", adv7513_int_setup)
               [] main.phase = "setup" /\ ~main.failed -> Phase("kick", adv7513_kick_up)
               [] main.phase = "i" -> Phase("initialize", adv7513_chip_init(FALSE))
               [] main.phase = "v" -> Phase("initialize", adv7513_chip_init(TRUE))
               [] OTHER -> Phase("prompt", << >>)
    BY DEF MainPhase
  <2>2. CASE main.phase \in {"identify", "setup"} /\ main.failed
    BY <2>1, <2>2
  <2>3. CASE main.phase = "identify" /\ ~main.failed
    BY <2>1, <2>3
  <2>4. CASE main.phase = "setup" /\ ~main.failed
    BY <2>1, <2>4
  <2>5. CASE main.phase = "i"
    BY <2>1, <2>5
  <2>6. CASE main.phase = "v"
    BY <2>1, <2>6
  <2>7. CASE main.phase \notin {"identify", "setup", "i", "v"}
    BY <2>1, <2>7
  <2> QED BY <2>2, <2>3, <2>4, <2>5, <2>6, <2>7
<1>3. Begun(main', MainPhases)
  <2>1. /\ "exit" \in MainPhases /\ "setup" \in MainPhases /\ "kick" \in MainPhases
        /\ "initialize" \in MainPhases /\ "prompt" \in MainPhases
    BY DEF MainPhases
  <2>2. /\ Begun(Phase("exit", << >>), MainPhases) /\ Begun(Phase("prompt", << >>), MainPhases)
    BY <2>1, MainBegins
  <2>3. /\ Begun(Phase("setup", adv7513_int_setup), MainPhases)
        /\ Begun(Phase("kick", adv7513_kick_up), MainPhases)
    BY <2>1, MainBegins
  <2>4. /\ Begun(Phase("initialize", adv7513_chip_init(FALSE)), MainPhases)
        /\ Begun(Phase("initialize", adv7513_chip_init(TRUE)), MainPhases)
    BY <2>1, MainBegins
  <2> QED BY <1>2, <2>2, <2>3, <2>4
<1>4. \/ main'.phase = "exit" /\ ~irq' /\ main.phase \in {"identify", "setup"}
      \/ /\ main'.phase = "setup" /\ main'.todo = adv7513_int_setup /\ ~irq'
         /\ main.phase = "identify"
      \/ /\ main'.phase = "kick" /\ main'.todo = adv7513_kick_up /\ irq'
         /\ main.phase = "setup"
      \/ main'.phase = "initialize" /\ main.phase \in {"i", "v"} /\ irq' /\ irq
      \/ main'.phase = "prompt" /\ main.phase \notin {"identify", "setup", "i", "v"} /\ irq' /\ irq
  <2>1. /\ main.phase \in {"identify", "setup"} => ~irq
        /\ main.phase \notin {"identify", "setup"} => irq
    BY <1>0, <1>1 DEF Programs, Starting
  <2>2. \A p, s : Phase(p, s).phase = p /\ Phase(p, s).todo = s
    BY PhaseIs
  <2>5. irq' <=> irq \/ (main.phase = "setup" /\ ~main.failed)
    BY <1>1
  <2>3. CASE main.phase \in {"identify", "setup"}
    <3>1. CASE main.failed
      <4>1. main' = Phase("exit", << >>) /\ ~irq /\ ~irq'
        BY <1>2, <2>1, <2>3, <2>5, <3>1
      <4> QED BY <2>2, <2>3, <4>1
    <3>2. CASE ~main.failed
      <4>1. CASE main.phase = "identify"
        <5>1. main' = Phase("setup", adv7513_int_setup) /\ ~irq'
          BY <1>2, <2>1, <2>5, <3>2, <4>1
        <5> QED BY <2>2, <4>1, <5>1
      <4>2. CASE main.phase = "setup"
        <5>1. main' = Phase("kick", adv7513_kick_up) /\ irq'
          BY <1>2, <2>5, <3>2, <4>2
        <5> QED BY <2>2, <4>2, <5>1
      <4> QED BY <2>3, <4>1, <4>2
    <3> QED BY <3>1, <3>2
  <2>4. CASE main.phase \notin {"identify", "setup"}
    BY <1>2, <2>1, <2>2, <2>4, <2>5
  <2> QED BY <2>3, <2>4
<1>5. TypeInv'
  <2>1. irq' \in BOOLEAN
    BY <1>1
  <2> QED BY <1>0, <1>1, <1>3, <2>1 DEF TypeInv, Begun
<1>6. Fresh'
  BY <1>0, <1>1 DEF Fresh
<1>7. Within' /\ Failures'
  BY <1>0, <1>1, <1>3 DEF Programs, Within, Begun, Failures
<1>8. Obeys'
  BY <1>0, <1>1, <1>4 DEF Programs, Obeys
<1>9. HandlerWrites'
  BY <1>0, <1>1 DEF Programs, HandlerWrites
<1>10. MainWrites'
  <2>1. Clears41(adv7513_kick_up) /\ OnlyWrites(adv7513_int_setup)
        /\ Ends(adv7513_int_setup, \h94, 0 .. 7, {6, 7})
    BY KickIs, SetupIs
  <2> QED BY <1>4, <2>1 DEF MainWrites, Will
<1>11. Starting'
  BY <1>0, <1>1, <1>4 DEF Programs, Starting
<1> QED BY <1>5, <1>6, <1>7, <1>8, <1>9, <1>10, <1>11 DEF Typed, Programs

LEMMA TypedCommand == ASSUME Typed, NEW cmd \in Commands, Command(cmd) PROVE Typed'
<1>0. TypeInv /\ Fresh /\ Programs
  BY DEF Typed
<1>1. /\ regs' = regs /\ hpd' = hpd /\ receiver' = receiver /\ sense' = sense /\ handler' = handler
      /\ dvi_mode' = dvi_mode /\ sense_retries' = sense_retries /\ pwron_retries' = pwron_retries
      /\ nacks' = nacks /\ given' = given + 1 /\ irq' = irq /\ main.phase = "prompt"
      /\ main' = Phase(cmd, IF cmd = "o" THEN adv7513_do_hpd_powerdown ELSE adv7513_do_hpd_powerup)
  BY DEF Command, monitor, program
<1>2. cmd \in {"i", "v", "o"}
  BY DriverAssumption
<1>3. Begun(main', MainPhases)
  <2>1. cmd \in MainPhases
    BY <1>2 DEF MainPhases
  <2>2. CASE cmd = "o"
    BY <1>1, <2>1, <2>2, MainBegins
  <2>3. CASE cmd \in {"i", "v"}
    BY <1>1, <2>1, <2>3, MainBegins
  <2> QED BY <1>2, <2>2, <2>3
<1>4. main'.phase = cmd
  BY <1>1, PhaseIs
<1>5. TypeInv'
  BY <1>0, <1>1, <1>3 DEF TypeInv, Begun
<1>6. Fresh'
  BY <1>0, <1>1 DEF Fresh
<1>7. Within' /\ Failures'
  BY <1>0, <1>1, <1>3 DEF Programs, Within, Begun, Failures
<1>8. Obeys'
  <2>1. given \in Nat
    BY <1>0 DEF TypeInv
  <2> QED BY <1>1, <1>2, <1>4, <2>1 DEF Obeys
<1>9. HandlerWrites'
  BY <1>0, <1>1 DEF Programs, HandlerWrites
<1>10. MainWrites'
  BY <1>2, <1>4 DEF MainWrites
<1>11. Starting'
  BY <1>0, <1>1, <1>2, <1>4 DEF Programs, Starting
<1> QED BY <1>5, <1>6, <1>7, <1>8, <1>9, <1>10, <1>11 DEF Typed, Programs

LEMMA FlagIs ==
  ASSUME regs \in [RegisterNumbers -> Octet], NEW bit \in {6, 7}, Flag(bit)
  PROVE  /\ regs' \in [RegisterNumbers -> Octet]
         /\ \A r \in RegisterNumbers : r # \h96 => regs'[r] = regs[r]
         /\ regs'[\h96] = regs[\h96] \cup {bit}
<1>1. \h96 \in RegisterNumbers
  BY DEF RegisterNumbers
<1>2. regs[\h96] \cup {bit} \in Octet
  BY <1>1 DEF Octet
<1> QED BY <1>1, <1>2 DEF Flag

(* The monitor.                                                            *)
LEMMA TypedFlag ==
  ASSUME Typed, NEW bit \in {6, 7}, Flag(bit),
         UNCHANGED <<main, handler, program, nacks, given>>, hpd' \in BOOLEAN, receiver' \in BOOLEAN,
         sense' \in BOOLEAN, ~irq => ~sense'
  PROVE  Typed'
<1>0. TypeInv /\ Fresh /\ Programs /\ regs \in [RegisterNumbers -> Octet]
  BY DEF Typed, TypeInv
<1>1. /\ regs' \in [RegisterNumbers -> Octet]
      /\ \A r \in RegisterNumbers : r # \h96 => regs'[r] = regs[r]
  BY <1>0, FlagIs
<1>2. /\ main' = main /\ handler' = handler /\ irq' = irq /\ dvi_mode' = dvi_mode
      /\ sense_retries' = sense_retries /\ pwron_retries' = pwron_retries
      /\ nacks' = nacks /\ given' = given
  BY DEF program, troubles
<1>3. TypeInv'
  BY <1>0, <1>1, <1>2 DEF TypeInv
<1>4. Fresh'
  <2>1. ASSUME handler.todo # << >>, Head(handler.todo).op = "modify"
        PROVE  handler.regv = regs'[Head(handler.todo).reg]
    <3>1. Head(handler.todo) \in Transactions
      BY <1>0, <2>1, RestIs DEF TypeInv, Process
    <3>2. Head(handler.todo).reg \in Plain
      BY <2>1, <3>1, TransactionFacts
    <3>3. Head(handler.todo).reg \in RegisterNumbers /\ Head(handler.todo).reg # \h96
      BY <3>2 DEF Plain, Flags
    <3> QED BY <1>0, <1>1, <2>1, <3>3 DEF Fresh
  <2> QED BY <1>0, <1>2, <2>1 DEF Fresh
<1>5. Within' /\ Failures' /\ Obeys' /\ HandlerWrites'
  BY <1>0, <1>2 DEF Programs, Within, Failures, Obeys, HandlerWrites
<1>6. \h94 \in RegisterNumbers /\ \h41 \in RegisterNumbers
  BY DEF RegisterNumbers
<1>7. MainWrites'
  BY <1>0, <1>1, <1>2, <1>6 DEF Programs, MainWrites, Will
<1>8. Starting'
  BY <1>0, <1>1, <1>2, <1>6 DEF Programs, Starting
<1> QED BY <1>3, <1>4, <1>5, <1>7, <1>8 DEF Typed, Programs

LEMMA TypedMonitor == ASSUME Typed, Sense \/ PlugOrUnplug PROVE Typed'
<1>0. TypeInv /\ Starting
  BY DEF Typed, Programs
<1>1. CASE Sense
  <2>1. sense' \in BOOLEAN /\ hpd' \in BOOLEAN /\ receiver' \in BOOLEAN
    BY <1>0, <1>1 DEF Sense, monitor, TypeInv
  <2>2. ~irq => ~sense'
    <3> SUFFICES ASSUME ~irq PROVE FALSE
      OBVIOUS
    <3>1. sense = FALSE
      BY <1>0 DEF Starting, TypeInv
    <3>2. ~(receiver /\ 6 \notin regs[\h41])
      BY <1>0 DEF Starting
    <3>3. sense # (receiver /\ 6 \notin regs[\h41])
      BY <1>1 DEF Sense, troubles
    <3> QED BY <3>1, <3>2, <3>3
  <2>3. Flag(6) /\ UNCHANGED <<main, handler, program, nacks, given>>
    BY <1>1 DEF Sense, troubles
  <2> QED BY <2>1, <2>2, <2>3, TypedFlag
<1>2. CASE PlugOrUnplug
  <2>1. sense' \in BOOLEAN /\ hpd' \in BOOLEAN /\ receiver' \in BOOLEAN
    BY <1>0, <1>2 DEF PlugOrUnplug, TypeInv
  <2>2. ~irq => ~sense'
    BY <1>0, <1>2 DEF PlugOrUnplug, Starting
  <2>3. Flag(7) /\ UNCHANGED <<main, handler, program, nacks, given>>
    BY <1>2 DEF PlugOrUnplug
  <2> QED BY <2>1, <2>2, <2>3, TypedFlag
<1> QED BY <1>1, <1>2

LEMMA TypedReceiver == ASSUME Typed, ReceiverOnOrOff PROVE Typed'
<1>1. /\ main' = main /\ handler' = handler /\ irq' = irq /\ dvi_mode' = dvi_mode
      /\ sense_retries' = sense_retries /\ pwron_retries' = pwron_retries
      /\ nacks' = nacks /\ given' = given /\ regs' = regs /\ hpd' = hpd /\ sense' = sense
      /\ receiver' \in BOOLEAN
  BY DEF ReceiverOnOrOff, program, troubles, Typed, TypeInv
<1>2. TypeInv'
  BY <1>1 DEF Typed, TypeInv
<1>3. Fresh'
  BY <1>1 DEF Typed, Fresh
<1>4. Within' /\ Failures' /\ Obeys' /\ HandlerWrites'
  BY <1>1 DEF Typed, Programs, Within, Failures, Obeys, HandlerWrites
<1>5. MainWrites' /\ Starting'
  BY <1>1 DEF Typed, Programs, MainWrites, Will, Starting
<1> QED BY <1>2, <1>3, <1>4, <1>5 DEF Typed, Programs

LEMMA TypedStutter == ASSUME Typed, UNCHANGED vars PROVE Typed'
<1>1. /\ main' = main /\ handler' = handler /\ irq' = irq /\ dvi_mode' = dvi_mode
      /\ sense_retries' = sense_retries /\ pwron_retries' = pwron_retries
      /\ nacks' = nacks /\ given' = given /\ regs' = regs /\ hpd' = hpd /\ sense' = sense
      /\ receiver' = receiver
  BY DEF vars, monitor, program, troubles
<1>2. TypeInv'
  BY <1>1 DEF Typed, TypeInv
<1>3. Fresh'
  BY <1>1 DEF Typed, Fresh
<1>4. Within' /\ Failures' /\ Obeys' /\ HandlerWrites'
  BY <1>1 DEF Typed, Programs, Within, Failures, Obeys, HandlerWrites
<1>5. MainWrites' /\ Starting'
  BY <1>1 DEF Typed, Programs, MainWrites, Will, Starting
<1> QED BY <1>2, <1>3, <1>4, <1>5 DEF Typed, Programs

LEMMA TypedStep == ASSUME Typed, [Next]_vars PROVE Typed'
<1>1. CASE EnterHandler
  BY <1>1, TypedEnter
<1>2. CASE HandlerTransaction
  BY <1>2, HandlerTransactionIs, TypedHandlerAck, TypedHandlerNack
<1>3. CASE HandlerPhase
  BY <1>3, TypedHandlerPhase
<1>4. CASE MainTransaction
  BY <1>4, MainTransactionIs, TypedMainAck, TypedMainNack
<1>5. CASE MainPhase
  BY <1>5, TypedMainPhase
<1>6. CASE \E cmd \in Commands : Command(cmd)
  BY <1>6, TypedCommand
<1>7. CASE Sense \/ PlugOrUnplug
  BY <1>7, TypedMonitor
<1>8. CASE ReceiverOnOrOff
  BY <1>8, TypedReceiver
<1>9. CASE UNCHANGED vars
  BY <1>9, TypedStutter
<1> QED BY <1>1, <1>2, <1>3, <1>4, <1>5, <1>6, <1>7, <1>8, <1>9 DEF Next, Program

LEMMA TypedAlways == Spec => []Typed
BY TypedInit, TypedStep, PTL DEF Spec

(***************************************************************************)
(* The registers that Configured is about.                                 *)
(***************************************************************************)
Lights == {\he0, \h44, \h4a, \haf, \h40}

LEMMA LightsPlain == Lights \subseteq Plain /\ \h41 \in Plain /\ \h94 \in Plain
                     /\ Lights \subseteq RegisterNumbers /\ \h41 \in RegisterNumbers
                     /\ \h94 \in RegisterNumbers /\ \h96 \in RegisterNumbers
BY DEF Lights, Plain, Flags, RegisterNumbers

LEMMA LightsApart ==
  /\ \A p \in {"status", "disable", "sense", "edid", "power", "check", "unplugged", "plugged", "idle",
               "kick", "o", "prompt", "identify", "exit"} : Lights \cap MayChange(p) = {}
  /\ \A p \in {"status", "disable", "sense", "edid", "init", "power", "check", "unplugged", "plugged",
               "idle"} : \h41 \notin MayChange(p)
  /\ \A p \in {"status", "sense", "powerup", "edid", "init", "power", "check", "idle", "kick", "o", "i",
               "v", "initialize", "prompt", "identify", "exit"} : \h94 \notin MayChange(p)
  /\ \h41 \notin MayChange("init") /\ \he0 \notin MayChange("init")
BY DEF MayChange, Lights, SetupRegs, PowerupRegs, InitRegs, MaskRegs, Flags

LEMMA ConfiguredKept ==
  ASSUME \A r \in Lights : regs'[r] = regs[r]
  PROVE  /\ regs'[\h41] = regs[\h41] /\ Configured => Configured'
         /\ Lit => Lit'
BY DEF Configured, Lit, ModesAgree, Lights

LEMMA WillNothing ==
  ASSUME NEW r, NEW m, NEW d, Will(<< >>, r, m, d)
  PROVE  regs[r] \cap m = d
<1>1. ~Ends(<< >>, r, m, d)
  BY DEF Ends
<1> QED BY <1>1 DEF Will

LEMMA ConfiguresKept ==
  ASSUME Configures, handler' = handler, dvi_mode' = dvi_mode,
         \A r \in Lights : regs'[r] = regs[r], regs'[\h41] = regs[\h41]
  PROVE  Configures'
<1>1. Configured => Configured'
  BY ConfiguredKept
<1>2. \A r \in Lights : regs'[r] = regs[r]
  OBVIOUS
<1>3. Up => Up'
  BY DEF Up, Lights
<1>4. /\ regs'[\haf] = regs[\haf] /\ regs'[\h40] = regs[\h40] /\ regs'[\h44] = regs[\h44]
      /\ regs'[\h4a] = regs[\h4a] /\ regs'[\he0] = regs[\he0] /\ regs'[\h41] = regs[\h41]
  BY DEF Lights
<1>5. (handler.phase = "powerup" /\ ~handler.failed =>
        Will(handler.todo, \h41, {6}, {}) /\ Will(handler.todo, \he0, 0 .. 7, Bits(\hd0)))'
  BY <1>4 DEF Configures, Will
<1>6. (handler.phase = "init" /\ ~handler.failed =>
       /\ Will(handler.todo, \haf, {1}, Mode(1)) /\ Will(handler.todo, \h40, {7}, Mode(7))
       /\ Will(handler.todo, \h44, {4}, {4})
       /\ Will(handler.todo, \h4a, {7}, {7}) /\ Will(handler.todo, \h4a, {6}, {}))'
  BY <1>4 DEF Configures, Will, Mode
<1> QED BY <1>1, <1>3, <1>5, <1>6 DEF Configures

LEMMA ConfiguresAck == ASSUME Typed, Configures, HandlerAck PROVE Configures'
<1>0. TypeInv /\ Fresh /\ Within
  BY DEF Typed, Programs
<1> DEFINE t == Head(handler.todo)
<1>1. /\ handler'.phase = handler.phase
      /\ handler'.todo = Tail(handler.todo) /\ handler'.failed = handler.failed
      /\ \A r \in RegisterNumbers : r \notin Changed(handler.todo) => regs'[r] = regs[r]
      /\ dvi_mode' = dvi_mode
  BY <1>0, HandlerAckIs DEF HandlerAck
<1>2. /\ regs \in [RegisterNumbers -> Octet] /\ handler.regv \in Octet
      /\ handler.todo \in Seq(Transactions) /\ handler.todo # << >> /\ Acknowledged(handler, t)
      /\ t.op = "modify" => handler.regv = regs[t.reg]
      /\ handler.phase \in HandlerPhases
  BY <1>0 DEF TypeInv, Process, HandlerAck, Fresh
<1>3. ASSUME NEW r \in Lights \cup {\h41}, NEW m \in Octet, NEW d, Will(handler.todo, r, m, d)
      PROVE  \/ Ends(Tail(handler.todo), r, m, d)
             \/ Leaves(Tail(handler.todo), r, m) /\ regs'[r] \cap m = d
  BY <1>2, <1>3, LightsPlain, WillStep
<1>4. /\ {6} \in Octet /\ {7} \in Octet /\ {1} \in Octet /\ {4} \in Octet /\ 0 .. 7 \in Octet
      /\ \h41 \in Lights \cup {\h41}
      /\ \he0 \in Lights /\ \haf \in Lights /\ \h40 \in Lights /\ \h44 \in Lights /\ \h4a \in Lights
  BY DEF Octet, Lights
<1>5. CASE handler.phase = "powerup"
  <2>1. CASE handler.failed
    BY <1>1, <1>5, <2>1 DEF Configures
  <2>2. CASE ~handler.failed
    <3>1. Will(handler.todo, \h41, {6}, {}) /\ Will(handler.todo, \he0, 0 .. 7, Bits(\hd0))
      BY <1>5, <2>2 DEF Configures
    <3>2. Will(handler.todo, \h41, {6}, {})'
      BY <1>1, <1>3, <1>4, <3>1 DEF Will
    <3>3. Will(handler.todo, \he0, 0 .. 7, Bits(\hd0))'
      <4>1. \/ Ends(Tail(handler.todo), \he0, 0 .. 7, Bits(\hd0))
            \/ Leaves(Tail(handler.todo), \he0, 0 .. 7) /\ regs'[\he0] \cap 0 .. 7 = Bits(\hd0)
        BY <1>3, <1>4, <3>1
      <4> QED BY <1>1, <4>1 DEF Will
    <3> QED BY <1>1, <1>5, <3>2, <3>3 DEF Configures
  <2> QED BY <2>1, <2>2
<1>6. CASE handler.phase = "init"
  <2>1. regs'[\h41] = regs[\h41] /\ regs'[\he0] = regs[\he0]
    BY <1>0, <1>1, <1>4, <1>6, LightsApart, LightsPlain DEF Within
  <2>2. Up'
    BY <1>6, <2>1 DEF Configures, Up
  <2>3. CASE handler.failed
    BY <1>1, <1>6, <2>2, <2>3 DEF Configures
  <2>4. CASE ~handler.failed
    <3>1. /\ Will(handler.todo, \haf, {1}, Mode(1)) /\ Will(handler.todo, \h40, {7}, Mode(7))
          /\ Will(handler.todo, \h44, {4}, {4})
          /\ Will(handler.todo, \h4a, {7}, {7}) /\ Will(handler.todo, \h4a, {6}, {})
      BY <1>6, <2>4 DEF Configures
    <3>2. Mode(1)' = Mode(1) /\ Mode(7)' = Mode(7)
      BY <1>1 DEF Mode
    <3>3. Will(handler.todo, \haf, {1}, Mode(1))'
      BY <1>1, <1>3, <1>4, <3>1, <3>2 DEF Will
    <3>4. Will(handler.todo, \h40, {7}, Mode(7))'
      BY <1>1, <1>3, <1>4, <3>1, <3>2 DEF Will
    <3>5. Will(handler.todo, \h44, {4}, {4})'
      BY <1>1, <1>3, <1>4, <3>1 DEF Will
    <3>6. Will(handler.todo, \h4a, {7}, {7})' /\ Will(handler.todo, \h4a, {6}, {})'
      BY <1>1, <1>3, <1>4, <3>1 DEF Will
    <3> QED BY <1>1, <1>6, <2>2, <3>3, <3>4, <3>5, <3>6 DEF Configures
  <2> QED BY <2>3, <2>4
<1>7. CASE handler.phase \in {"edid", "power", "check", "plugged"}
  <2>1. /\ \A r \in Lights : regs'[r] = regs[r]
        /\ regs'[\h41] = regs[\h41]
    BY <1>0, <1>1, <1>7, LightsApart, LightsPlain DEF Within
  <2>2. (Configured => Configured') /\ (Up => Up')
    BY <1>4, <2>1, ConfiguredKept DEF Up
  <2> QED BY <1>1, <1>7, <2>2 DEF Configures
<1>8. CASE handler.phase \in {"idle", "status", "disable", "sense", "unplugged"}
  BY <1>1, <1>8 DEF Configures
<1> QED BY <1>2, <1>5, <1>6, <1>7, <1>8 DEF HandlerPhases

LEMMA ConfiguresPhase == ASSUME Typed, Configures, HandlerPhase PROVE Configures'
<1>0. TypeInv /\ handler.todo = << >> /\ regs' = regs /\ handler.phase \in HandlerPhases
      /\ handler.phase # "idle" /\ dvi_mode' \in BOOLEAN
      /\ (handler.phase # "edid" => dvi_mode' = dvi_mode)
  <2>1. handler.phase # "edid" => dvi_mode' = dvi_mode
    BY DEF HandlerPhase
  <2> QED BY <2>1, HandlerBegins DEF Typed, TypeInv, Process, HandlerPhase
<1>1. \A p, s : Phase(p, s).phase = p /\ Phase(p, s).todo = s
  BY PhaseIs
<1>2. Idle.phase = "idle" /\ Unplugged.phase = "unplugged" /\ Plugged.phase = "plugged"
  BY DEF Idle, Unplugged, Plugged, Phase
<1>3. (Configured => Configured') /\ (Up => Up')
  BY <1>0 DEF Configured, ModesAgree, Up
<1>4. CASE handler.phase \in {"status", "disable", "unplugged", "plugged"}
  <2>1. handler'.phase \in {"idle", "disable", "sense", "unplugged"}
    BY <1>1, <1>2, <1>4, FollowIs
  <2> QED BY <2>1 DEF Configures
<1>5. CASE handler.phase = "sense"
  <2>1. \/ handler'.phase \in {"sense", "unplugged"}
        \/ handler'.phase = "powerup" /\ handler'.todo = adv7513_do_hpd_powerup
    BY <1>1, <1>2, <1>5, FollowIs
  <2>2. Ends(adv7513_do_hpd_powerup, \h41, {6}, {})
        /\ Ends(adv7513_do_hpd_powerup, \he0, 0 .. 7, Bits(\hd0))
    BY PowerupIs
  <2> QED BY <2>1, <2>2 DEF Configures, Will
<1>6. CASE handler.phase = "powerup"
  <2>1. handler'.phase = "unplugged" \/ (handler'.phase = "edid" /\ ~handler.failed)
    BY <1>1, <1>2, <1>6, FollowIs
  <2>2. ~handler.failed => Up
    <3> SUFFICES ASSUME ~handler.failed PROVE Up
      OBVIOUS
    <3>1. Will(<< >>, \h41, {6}, {}) /\ Will(<< >>, \he0, 0 .. 7, Bits(\hd0))
      BY <1>0, <1>6 DEF Configures
    <3>2. regs[\h41] \cap {6} = {} /\ regs[\he0] \cap 0 .. 7 = Bits(\hd0)
      BY <3>1, WillNothing
    <3>3. regs[\he0] \subseteq 0 .. 7
      BY <1>0, LightsPlain DEF TypeInv, Octet, Lights
    <3> QED BY <3>2, <3>3 DEF Up
  <2> QED BY <1>3, <2>1, <2>2 DEF Configures
<1>7. CASE handler.phase = "edid"
  <2> DEFINE s == adv7513_chip_init(dvi_mode')
  <2>1. handler'.phase = "init" /\ handler'.todo = s
    BY <1>1, <1>7, FollowIs
  <2>2. /\ Ends(s, \haf, {1}, IF dvi_mode' THEN {} ELSE {1})
        /\ Ends(s, \h40, {7}, IF dvi_mode' THEN {} ELSE {7})
        /\ Ends(s, \h44, {4}, {4}) /\ Ends(s, \h4a, {7}, {7}) /\ Ends(s, \h4a, {6}, {})
    BY <1>0, InitIs
  <2>3. Up'
    BY <1>3, <1>7 DEF Configures
  <2> HIDE DEF s
  <2>4. (/\ Will(handler.todo, \haf, {1}, Mode(1)) /\ Will(handler.todo, \h40, {7}, Mode(7))
         /\ Will(handler.todo, \h44, {4}, {4})
         /\ Will(handler.todo, \h4a, {7}, {7}) /\ Will(handler.todo, \h4a, {6}, {}))'
    BY <2>1, <2>2 DEF Will, Mode
  <2> QED BY <2>1, <2>3, <2>4 DEF Configures
<1>8. CASE handler.phase = "init"
  <2>1. handler'.phase = "unplugged" \/ (handler'.phase = "power" /\ ~handler.failed)
    BY <1>1, <1>2, <1>8, FollowIs
  <2>2. ~handler.failed => Configured
    <3> SUFFICES ASSUME ~handler.failed PROVE Configured
      OBVIOUS
    <3>1. /\ Will(<< >>, \haf, {1}, Mode(1)) /\ Will(<< >>, \h40, {7}, Mode(7))
          /\ Will(<< >>, \h44, {4}, {4})
          /\ Will(<< >>, \h4a, {7}, {7}) /\ Will(<< >>, \h4a, {6}, {})
      BY <1>0, <1>8 DEF Configures
    <3>2. /\ regs[\haf] \cap {1} = Mode(1) /\ regs[\h40] \cap {7} = Mode(7)
          /\ regs[\h44] \cap {4} = {4} /\ regs[\h4a] \cap {7} = {7} /\ regs[\h4a] \cap {6} = {}
      BY <3>1, WillNothing
    <3>3. 4 \in regs[\h44] /\ 7 \in regs[\h4a] /\ 6 \notin regs[\h4a]
      BY <3>2
    <3>4. ModesAgree
      <4>1. CASE dvi_mode
        BY <3>2, <4>1 DEF ModesAgree, Mode
      <4>2. CASE ~dvi_mode
        BY <3>2, <4>2 DEF ModesAgree, Mode
      <4> QED BY <4>1, <4>2
    <3>5. Up
      BY <1>8 DEF Configures
    <3> QED BY <3>3, <3>4, <3>5 DEF Configured, Up
  <2> QED BY <1>3, <2>1, <2>2 DEF Configures
<1>9. CASE handler.phase \in {"power", "check"}
  <2>1. handler'.phase \in {"unplugged", "check", "plugged"}
    BY <1>1, <1>2, <1>9, FollowIs
  <2>2. Configured'
    BY <1>3, <1>9 DEF Configures
  <2> QED BY <2>1, <2>2 DEF Configures
<1> QED BY <1>0, <1>4, <1>5, <1>6, <1>7, <1>8, <1>9 DEF HandlerPhases

LEMMA ConfiguresStep == ASSUME Typed, Configures, [Next]_vars PROVE Configures'
<1>0. TypeInv /\ Fresh /\ HandlerWrites
  BY DEF Typed, Programs
<1>1. CASE EnterHandler
  <2>1. handler'.phase = "status"
    BY <1>1, PhaseIs DEF EnterHandler
  <2> QED BY <2>1 DEF Configures
<1>2. CASE HandlerAck
  BY <1>2, ConfiguresAck
<1>3. CASE HandlerNack
  <2>1. handler'.phase = handler.phase /\ handler'.failed = TRUE /\ regs' = regs
    BY <1>0, <1>3, HandlerNackIs
  <2>2. (Configured => Configured') /\ (Up => Up')
    BY <2>1 DEF Configured, ModesAgree, Up
  <2> QED BY <2>1, <2>2 DEF Configures
<1>4. CASE HandlerPhase
  BY <1>4, ConfiguresPhase
<1>5. CASE MainAck \/ MainNack \/ MainPhase \/ \E cmd \in Commands : Command(cmd)
  <2>1. handler' = Idle
    BY <1>5 DEF MainAck, MainNack, MainPhase, Command, MainRuns
  <2>2. handler'.phase = "idle"
    BY <2>1 DEF Idle, Phase
  <2> QED BY <2>2 DEF Configures
<1>6. CASE Sense \/ PlugOrUnplug
  <2>1. PICK bit \in {6, 7} : Flag(bit)
    BY <1>6 DEF Sense, PlugOrUnplug
  <2>2. \A r \in RegisterNumbers : r # \h96 => regs'[r] = regs[r]
    BY <1>0, <2>1, FlagIs DEF TypeInv
  <2>3. \A r \in Lights \cup {\h41} : r \in RegisterNumbers /\ r # \h96
    BY LightsPlain DEF Lights
  <2>4. handler' = handler /\ dvi_mode' = dvi_mode
    BY <1>6 DEF Sense, PlugOrUnplug, program
  <2> QED BY <2>2, <2>3, <2>4, ConfiguresKept
<1>7. CASE ReceiverOnOrOff \/ UNCHANGED vars
  <2>1. handler' = handler /\ dvi_mode' = dvi_mode /\ regs' = regs
    BY <1>7 DEF ReceiverOnOrOff, vars, program
  <2> QED BY <2>1, ConfiguresKept
<1> QED BY <1>1, <1>2, <1>3, <1>4, <1>5, <1>6, <1>7, HandlerTransactionIs, MainTransactionIs
        DEF Next, Program

(***************************************************************************)
(* The main program, once the interrupt is unmasked, keeps away from the   *)
(* interrupt masks, and from the rest until a command is given.            *)
(***************************************************************************)
LEMMA MainFrame ==
  ASSUME Typed, irq, MainAck
  PROVE  /\ regs'[\h94] = regs[\h94]
         /\ given = 0 => (Configured => Configured')
<1>0. TypeInv /\ Within /\ MainWrites /\ Obeys /\ Starting
  BY DEF Typed, Programs
<1> DEFINE t == Head(main.todo)
<1>1. /\ t \in Transactions
      /\ \A r \in RegisterNumbers : r \notin Changed(main.todo) => regs'[r] = regs[r]
      /\ \A r \in RegisterNumbers : ~(Changes(t) /\ t.reg = r) => regs'[r] = regs[r]
      /\ t.op = "modify" => regs'[t.reg] = (main.regv \ t.mask) \cup t.data
  BY <1>0, MainAckIs
<1>2. main.phase \in {"kick", "prompt", "i", "v", "o", "initialize"}
      /\ main.todo \in Seq(Transactions) /\ main.todo # << >>
  BY <1>0 DEF Starting, TypeInv, Process, MainPhases, MainAck
<1>3. regs'[\h94] = regs[\h94]
  <2>1. \h94 \notin MayChange(main.phase)
    BY <1>2, LightsApart
  <2> QED BY <1>0, <1>1, <2>1, LightsPlain DEF Within
<1>4. ASSUME given = 0, Configured PROVE Configured'
  <2>1. main.phase \in {"kick", "prompt"}
    BY <1>0, <1>2, <1>4 DEF Obeys
  <2>2. \A r \in Lights : regs'[r] = regs[r]
    BY <1>0, <1>1, <2>1, LightsApart, LightsPlain DEF Within
  <2>3. 6 \notin regs'[\h41]
    <3>1. CASE Changes(t) /\ t.reg = \h41
      <4>1. main.phase = "kick"
        <5>1. \h41 \in Changed(main.todo)
          BY <1>2, <3>1, RestKeeps
        <5>2. MayChange("prompt") = {}
          BY DEF MayChange
        <5> QED BY <1>0, <2>1, <5>1, <5>2 DEF Within
      <4>2. t.op = "modify" /\ 6 \in t.mask /\ 6 \notin t.data
        BY <1>0, <1>2, <3>1, <4>1, RestKeeps DEF MainWrites
      <4> QED BY <1>1, <3>1, <4>2
    <3>2. CASE ~(Changes(t) /\ t.reg = \h41)
      BY <1>1, <1>4, <3>2, LightsPlain DEF Configured
    <3> QED BY <3>1, <3>2
  <2> QED BY <1>4, <2>2, <2>3 DEF Configured, ModesAgree, Lights
<1> QED BY <1>3, <1>4

(* The write of the interrupt mask, done or still to do.                   *)
LEMMA MaskAck ==
  ASSUME Typed, HandlerAck
  PROVE  /\ \A v : Puts(handler.todo, \h94, v) =>
              \/ regs'[\h94] = v
              \/ /\ regs'[\h94] = regs[\h94]
                 /\ \h94 \in Changed(handler.todo) => \h94 \in Changed(handler'.todo)
         /\ \h94 \notin MayChange(handler.phase) => regs'[\h94] = regs[\h94]
<1>0. TypeInv /\ Fresh /\ Within
  BY DEF Typed, Programs
<1> DEFINE t == Head(handler.todo)
<1>1. /\ t \in Transactions /\ handler'.todo = Tail(handler.todo)
      /\ \A r \in RegisterNumbers : ~(Changes(t) /\ t.reg = r) => regs'[r] = regs[r]
      /\ t.op = "write" /\ t.reg \notin Flags => regs'[t.reg] = t.data
      /\ \A r \in RegisterNumbers : r \notin Changed(handler.todo) => regs'[r] = regs[r]
  BY <1>0, HandlerAckIs
<1>2. handler.todo \in Seq(Transactions) /\ handler.todo # << >>
  BY <1>0 DEF TypeInv, Process, HandlerAck
<1>3. ASSUME NEW v, Puts(handler.todo, \h94, v)
      PROVE  \/ regs'[\h94] = v
             \/ /\ regs'[\h94] = regs[\h94]
                /\ (\h94 \in Changed(handler.todo) => \h94 \in Changed(handler'.todo))
  <2>1. CASE Changes(t) /\ t.reg = \h94
    <3>1. t.op = "write" /\ t.data = v
      BY <1>2, <1>3, <2>1, RestKeeps
    <3> QED BY <1>1, <2>1, <3>1 DEF Flags
  <2>2. CASE ~(Changes(t) /\ t.reg = \h94)
    BY <1>1, <1>2, <2>2, RestKeeps, LightsPlain
  <2> QED BY <2>1, <2>2
<1>4. ASSUME \h94 \notin MayChange(handler.phase) PROVE regs'[\h94] = regs[\h94]
  BY <1>0, <1>1, <1>4, LightsPlain DEF Within
<1> QED BY <1>3, <1>4

LEMMA SetupEnds ==
  ASSUME Typed, MainPhase, ~irq, irq'
  PROVE  /\ regs'[\h94] = {6, 7} /\ handler' = Idle /\ handler'.phase = "idle" /\ sense' = FALSE
         /\ regs' = regs
<1>1. main.phase = "setup" /\ ~main.failed /\ main.todo = << >> /\ regs' = regs /\ handler' = handler
      /\ sense' = sense
  BY DEF MainPhase
<1>2. Will(<< >>, \h94, 0 .. 7, {6, 7})
  BY <1>1 DEF Typed, Programs, MainWrites
<1>3. regs[\h94] \cap 0 .. 7 = {6, 7} /\ regs[\h94] \subseteq 0 .. 7
  BY <1>2, WillNothing, LightsPlain DEF Typed, TypeInv, Octet
<1>4. handler = Idle /\ ~sense /\ sense \in BOOLEAN
  BY DEF Typed, Programs, Starting, TypeInv
<1>5. Idle.phase = "idle"
  BY DEF Idle, Phase
<1> QED BY <1>1, <1>3, <1>4, <1>5

LEMMA IdleIs == Idle.phase = "idle" /\ Idle.todo = << >> /\ Idle.failed = FALSE
BY DEF Idle, Phase

LEMMA MasksAre ==
  /\ Unplugged.phase = "unplugged" /\ Plugged.phase = "plugged"
  /\ Unplugged.failed = FALSE /\ Plugged.failed = FALSE
  /\ \h94 \in Changed(Unplugged.todo) /\ \h94 \in Changed(Plugged.todo)
<1>1. /\ Unplugged.phase = "unplugged" /\ Plugged.phase = "plugged"
      /\ Unplugged.failed = FALSE /\ Plugged.failed = FALSE
      /\ Unplugged.todo = Masks(0, \hc0, 0) /\ Plugged.todo = Masks(0, \h80, 0)
  BY DEF Unplugged, Plugged, Phase
<1>2. Changed(Masks(0, \hc0, 0)) = MaskRegs /\ Changed(Masks(0, \h80, 0)) = MaskRegs
  BY MasksIs
<1>3. \h94 \in MaskRegs
  BY DEF MaskRegs
<1> QED BY <1>1, <1>2, <1>3

(***************************************************************************)
(* The hot-plug interrupt is enabled again.                                *)
(***************************************************************************)
LEMMA ReenabledStep == ASSUME Typed, Reenabled, [Next]_vars PROVE Reenabled'
<1>0. TypeInv /\ Fresh /\ HandlerWrites /\ Failures /\ Starting
  BY DEF Typed, Programs
<1>1. CASE EnterHandler
  <2>1. /\ handler'.phase = "status" /\ handler.phase = "idle"
        /\ regs' = regs /\ nacks' = nacks /\ irq' = irq
    BY <1>1, PhaseIs, IdleIs DEF EnterHandler, troubles
  <2> QED BY <2>1 DEF Reenabled
<1>2. CASE HandlerAck
  <2>1. handler'.phase = handler.phase /\ nacks' = nacks /\ irq' = irq
    BY <1>0, <1>2, HandlerAckIs DEF HandlerAck
  <2>2. CASE handler.phase \in {"idle", "status"}
    <3>1. regs'[\h94] = regs[\h94]
      BY <1>2, <2>2, MaskAck, LightsApart
    <3> QED BY <2>1, <2>2, <3>1 DEF Reenabled
  <2>3. CASE handler.phase = "unplugged"
    <3>1. Puts(handler.todo, \h94, {6, 7})
      BY <1>0, <2>3 DEF HandlerWrites
    <3>2. \/ regs'[\h94] = {6, 7}
          \/ /\ regs'[\h94] = regs[\h94]
             /\ (\h94 \in Changed(handler.todo) => \h94 \in Changed(handler'.todo))
      BY <1>2, <3>1, MaskAck
    <3> QED BY <2>1, <2>3, <3>2 DEF Reenabled
  <2>4. CASE handler.phase = "plugged"
    <3>1. Puts(handler.todo, \h94, {7})
      BY <1>0, <2>4 DEF HandlerWrites
    <3>2. \/ regs'[\h94] = {7}
          \/ /\ regs'[\h94] = regs[\h94]
             /\ (\h94 \in Changed(handler.todo) => \h94 \in Changed(handler'.todo))
      BY <1>2, <3>1, MaskAck
    <3> QED BY <2>1, <2>4, <3>2 DEF Reenabled
  <2>5. CASE handler.phase \notin {"idle", "status", "unplugged", "plugged"}
    BY <2>1, <2>5 DEF Reenabled
  <2> QED BY <2>2, <2>3, <2>4, <2>5
<1>3. CASE HandlerNack \/ MainNack
  <2>1. nacks' > 0
    BY <1>0, <1>3 DEF HandlerNack, MainNack, TypeInv
  <2> QED BY <2>1 DEF Reenabled
<1>4. CASE HandlerPhase
  <2>1. regs' = regs /\ nacks' = nacks /\ irq' = irq /\ handler.todo = << >>
        /\ handler.phase \in HandlerPhases /\ handler.phase # "idle"
    BY <1>0, <1>4 DEF HandlerPhase, troubles, TypeInv, Process
  <2>2. \A p, s : Phase(p, s).phase = p
    BY PhaseIs
  <2>3. /\ Unplugged.phase = "unplugged" /\ Plugged.phase = "plugged"
        /\ \h94 \in Changed(Unplugged.todo) /\ \h94 \in Changed(Plugged.todo)
    BY MasksAre
  <2>4. CASE handler.phase = "status"
    <3>1. \/ handler.failed \/ handler'.phase = "disable"
      BY <1>4, <2>2, <2>4, FollowIs
    <3> QED BY <1>0, <2>1, <3>1 DEF Reenabled, Failures, TypeInv
  <2>5. CASE handler.phase \in {"disable", "sense", "powerup", "edid"}
    <3>1. \/ handler'.phase \in {"sense", "powerup", "edid", "init"}
          \/ handler' = Unplugged
      BY <1>4, <2>2, <2>5, FollowIs
    <3> QED BY <2>3, <3>1 DEF Reenabled
  <2>6. CASE handler.phase \in {"init", "power", "check"}
    <3>1. handler'.phase \in {"power", "check"} \/ handler' = Unplugged \/ handler' = Plugged
      BY <1>4, <2>2, <2>6, FollowIs
    <3> QED BY <2>3, <3>1 DEF Reenabled
  <2>7. CASE handler.phase \in {"unplugged", "plugged"}
    <3>1. handler' = Idle /\ \h94 \notin Changed(handler.todo)
      BY <1>4, <2>1, <2>7, FollowIs, NothingIs
    <3> QED BY <2>1, <2>7, <3>1, IdleIs DEF Reenabled
  <2> QED BY <2>1, <2>4, <2>5, <2>6, <2>7 DEF HandlerPhases
<1>5. CASE MainAck
  <2>1. handler' = Idle /\ handler = Idle /\ nacks' = nacks /\ irq' = irq
    BY <1>0, <1>5, MainAckIs DEF MainAck, program
  <2>2. irq => regs'[\h94] = regs[\h94]
    BY <1>5, MainFrame
  <2> QED BY <2>1, <2>2, IdleIs DEF Reenabled
<1>6. CASE MainPhase
  <2>1. handler' = handler /\ regs' = regs /\ nacks' = nacks
    BY <1>6 DEF MainPhase, troubles
  <2>2. CASE irq
    BY <2>1, <2>2 DEF Reenabled
  <2>3. CASE ~irq /\ irq'
    BY <1>6, <2>3, SetupEnds DEF Reenabled
  <2>4. CASE ~irq'
    BY <2>4 DEF Reenabled
  <2> QED BY <2>2, <2>3, <2>4
<1>7. CASE \E cmd \in Commands : Command(cmd)
  <2>1. handler' = handler /\ regs' = regs /\ nacks' = nacks /\ irq' = irq
    BY <1>7 DEF Command, program
  <2> QED BY <2>1 DEF Reenabled
<1>8. CASE Sense \/ PlugOrUnplug
  <2>1. PICK bit \in {6, 7} : Flag(bit)
    BY <1>8 DEF Sense, PlugOrUnplug
  <2>2. \A r \in RegisterNumbers : r # \h96 => regs'[r] = regs[r]
    BY <1>0, <2>1, FlagIs DEF TypeInv
  <2>3. handler' = handler /\ nacks' = nacks /\ irq' = irq
    BY <1>8 DEF Sense, PlugOrUnplug, program, troubles
  <2>4. regs'[\h94] = regs[\h94]
    BY <2>2, LightsPlain
  <2> QED BY <2>3, <2>4 DEF Reenabled
<1>9. CASE ReceiverOnOrOff \/ UNCHANGED vars
  <2>1. handler' = handler /\ regs' = regs /\ nacks' = nacks /\ irq' = irq
    BY <1>9 DEF ReceiverOnOrOff, vars, program, troubles
  <2> QED BY <2>1 DEF Reenabled
<1> QED BY <1>1, <1>2, <1>3, <1>4, <1>5, <1>6, <1>7, <1>8, <1>9, HandlerTransactionIs,
           MainTransactionIs DEF Next, Program

(* With no failed transaction the handler returns with the hot-plug        *)
(* interrupt enabled: adv7513_int_handler masks every interrupt at its     *)
(* beginning, and each of its ways out enables this one again.             *)
THEOREM EnabledAgain == Spec => []InterruptsReenabled
<1>1. Init => Reenabled
  BY DEF Init, Reenabled
<1>2. Typed /\ Reenabled => InterruptsReenabled
  <2> SUFFICES ASSUME Typed, Reenabled PROVE InterruptsReenabled
    OBVIOUS
  <2>1. TypeOK
    <3>1. \A r \in RegisterNumbers : regs[r] \subseteq 0 .. 7
      BY DEF Typed, TypeInv, Octet
    <3>2. pwron_retries \in 0 .. POWERONS
      BY DriverAssumption DEF Typed, TypeInv
    <3>3. main.phase = "exit" => ~irq
      BY DEF Typed, Programs, Starting
    <3> QED BY <3>1, <3>2, <3>3 DEF TypeOK, Typed, TypeInv
  <2>2. handler = Idle => handler.phase = "idle"
    BY IdleIs
  <2> QED BY <2>1, <2>2 DEF InterruptsReenabled, Reenabled
<1> QED BY TypedAlways, ReenabledStep, <1>1, <1>2, PTL DEF Spec

(***************************************************************************)
(* The monitor-sense interrupt is masked over a configured transmitter.    *)
(***************************************************************************)
LEMMA MaskedAck == ASSUME Typed, Configures, Masked, HandlerAck PROVE Masked'
<1>0. TypeInv /\ Fresh /\ Within /\ HandlerWrites
  BY DEF Typed, Programs
<1>1. /\ handler'.phase = handler.phase /\ handler'.failed = handler.failed /\ nacks' = nacks
      /\ \A r \in RegisterNumbers : r \notin Changed(handler.todo) => regs'[r] = regs[r]
      /\ irq' = irq /\ given' = given
  BY <1>0, HandlerAckIs DEF HandlerAck
<1>2. handler.phase \in HandlerPhases
  BY <1>0 DEF TypeInv, Process
<1>3. \h94 \notin MayChange(handler.phase) => regs'[\h94] = regs[\h94]
  BY MaskAck
<1>4. Lights \cap MayChange(handler.phase) = {} /\ \h41 \notin MayChange(handler.phase)
        => (Configured => Configured')
  <2> SUFFICES ASSUME Lights \cap MayChange(handler.phase) = {}, \h41 \notin MayChange(handler.phase)
               PROVE  Configured => Configured'
    OBVIOUS
  <2>1. /\ \A r \in Lights : regs'[r] = regs[r]
        /\ regs'[\h41] = regs[\h41]
    BY <1>0, <1>1, LightsPlain DEF Within
  <2> QED BY <2>1, ConfiguredKept
<1>5. CASE handler.phase \in {"idle", "status", "sense"}
  <2>1. regs'[\h94] = regs[\h94] /\ (Configured => Configured')
    BY <1>3, <1>4, <1>5, LightsApart
  <2> QED BY <1>1, <1>5, <2>1 DEF Masked, Hidden
<1>6. CASE handler.phase \in {"powerup", "edid", "init"}
  <2>1. regs'[\h94] = regs[\h94]
    BY <1>3, <1>6, LightsApart
  <2> QED BY <1>1, <1>6, <2>1 DEF Masked, Hidden
<1>7. CASE handler.phase = "disable"
  <2>1. Configured => Configured'
    BY <1>4, <1>7, LightsApart
  <2>2. \/ regs'[\h94] = {}
        \/ /\ regs'[\h94] = regs[\h94]
           /\ (\h94 \in Changed(handler.todo) => \h94 \in Changed(handler'.todo))
    BY <1>0, <1>7, MaskAck DEF HandlerWrites
  <2> QED BY <1>1, <1>7, <2>1, <2>2 DEF Masked, Hidden
<1>8. CASE handler.phase = "unplugged"
  <2>1. Configured => Configured'
    BY <1>4, <1>8, LightsApart
  <2>2. \/ regs'[\h94] = {6, 7}
        \/ /\ regs'[\h94] = regs[\h94]
           /\ (\h94 \in Changed(handler.todo) => \h94 \in Changed(handler'.todo))
    BY <1>0, <1>8, MaskAck DEF HandlerWrites
  <2> QED BY <1>1, <1>8, <2>1, <2>2 DEF Masked, Hidden
<1>9. CASE handler.phase \in {"power", "check", "plugged"}
  BY <1>1, <1>9 DEF Masked
<1> QED BY <1>2, <1>5, <1>6, <1>7, <1>8, <1>9 DEF HandlerPhases

LEMMA MaskedNack == ASSUME Typed, Configures, Masked, HandlerNack PROVE Masked'
<1>0. TypeInv /\ Fresh /\ Within /\ HandlerWrites
  BY DEF Typed, Programs
<1>1. /\ handler'.phase = handler.phase /\ handler'.failed = TRUE /\ nacks' = nacks + 1
      /\ regs' = regs /\ irq' = irq /\ given' = given /\ nacks \in Nat
  BY <1>0, HandlerNackIs DEF HandlerNack, TypeInv
<1>2. handler.phase \in HandlerPhases
  BY <1>0 DEF TypeInv, Process
<1>3. Configured' = Configured /\ Hidden' = Hidden
  BY <1>1 DEF Configured, ModesAgree, Hidden
<1>4. CASE handler.phase \in {"idle", "status", "disable", "sense"}
  <2>1. given = 0 /\ irq /\ Hidden => Configured \/ nacks >= 3
    BY <1>4 DEF Masked
  <2> QED BY <1>1, <1>3, <1>4, <2>1 DEF Masked
<1>5. CASE handler.phase \in {"powerup", "edid", "init"}
  <2>1. given = 0 /\ irq /\ Hidden => nacks >= 1
    BY <1>5 DEF Masked
  <2> QED BY <1>1, <1>3, <1>5, <2>1 DEF Masked
<1>6. CASE handler.phase = "unplugged"
  <2>1. given = 0 /\ irq /\ Hidden => Configured \/ nacks >= 2
    BY <1>1, <1>6 DEF Masked
  <2> QED BY <1>1, <1>3, <1>6, <2>1 DEF Masked
<1>7. CASE handler.phase \in {"power", "check", "plugged"}
  BY <1>1, <1>7 DEF Masked
<1> QED BY <1>2, <1>4, <1>5, <1>6, <1>7 DEF HandlerPhases

LEMMA MaskedPhase == ASSUME Typed, Configures, Masked, HandlerPhase PROVE Masked'
<1>1. regs' = regs /\ nacks' = nacks /\ irq' = irq /\ given' = given /\ handler.todo = << >>
      /\ handler.phase \in HandlerPhases /\ handler.phase # "idle" /\ nacks \in Nat
  BY DEF HandlerPhase, troubles, Typed, TypeInv, Process
<1>2. Configured' = Configured /\ Hidden' = Hidden
  BY <1>1 DEF Configured, ModesAgree, Hidden
<1>3. /\ \A p, s : Phase(p, s).phase = p /\ Phase(p, s).todo = s /\ Phase(p, s).failed = FALSE
      /\ \h94 \notin Changed(handler.todo)
  <2>1. \h94 \notin Changed(<< >>)
    BY NothingIs
  <2>2. \A p, s : Phase(p, s).phase = p /\ Phase(p, s).todo = s /\ Phase(p, s).failed = FALSE
    BY DEF Phase
  <2> QED BY <1>1, <2>1, <2>2
<1>4. CASE handler.phase = "status"
  <2>1. handler' = Idle \/ (handler'.phase = "disable" /\ handler'.todo = DisableAndClear)
    BY <1>3, <1>4, FollowIs
  <2> QED BY <1>1, <1>2, <1>4, <2>1, IdleIs, DisableIs DEF Masked
<1>5. CASE handler.phase = "disable"
  <2>1. handler'.phase = "sense" \/ handler' = Unplugged
    BY <1>3, <1>5, FollowIs
  <2> QED BY <1>1, <1>2, <1>3, <1>5, <2>1, MasksAre DEF Masked
<1>6. CASE handler.phase = "sense"
  <2>1. (handler'.phase \in {"sense", "powerup"} /\ handler'.failed = FALSE) \/ handler' = Unplugged
    BY <1>3, <1>6, FollowIs
  <2> QED BY <1>1, <1>2, <1>6, <2>1, MasksAre DEF Masked
<1>7. CASE handler.phase = "powerup"
  <2>1. handler'.phase = "edid" \/ (handler' = Unplugged /\ handler.failed)
    BY <1>3, <1>7, FollowIs
  <2> QED BY <1>1, <1>2, <1>7, <2>1, MasksAre DEF Masked
<1>8. CASE handler.phase = "edid"
  <2>1. handler'.phase = "init" /\ handler'.failed = FALSE
    BY <1>3, <1>8, FollowIs
  <2> QED BY <1>1, <1>2, <1>8, <2>1 DEF Masked
<1>9. CASE handler.phase = "init"
  <2>1. handler'.phase = "power" \/ (handler' = Unplugged /\ handler.failed)
    BY <1>3, <1>9, FollowIs
  <2> QED BY <1>1, <1>2, <1>9, <2>1, MasksAre DEF Masked
<1>10. CASE handler.phase \in {"power", "check"}
  <2>1. handler'.phase \in {"check", "plugged", "unplugged"}
    BY <1>3, <1>10, FollowIs, MasksAre
  <2>2. Configured
    BY <1>10 DEF Configures
  <2> QED BY <1>1, <1>2, <2>1, <2>2 DEF Masked
<1>11. CASE handler.phase \in {"unplugged", "plugged"}
  <2>1. handler' = Idle
    BY <1>11, FollowIs
  <2>2. handler.phase = "plugged" => Configured
    BY DEF Configures
  <2> QED BY <1>1, <1>2, <1>3, <1>11, <2>1, <2>2, IdleIs DEF Masked
<1> QED BY <1>1, <1>4, <1>5, <1>6, <1>7, <1>8, <1>9, <1>10, <1>11 DEF HandlerPhases

LEMMA MaskedStep == ASSUME Typed, Configures, Masked, [Next]_vars PROVE Masked'
<1>0. TypeInv /\ Fresh /\ HandlerWrites /\ Failures /\ Starting
  BY DEF Typed, Programs
<1>1. CASE EnterHandler
  <2>1. /\ handler'.phase = "status" /\ handler.phase = "idle"
        /\ regs' = regs /\ nacks' = nacks /\ irq' = irq
        /\ given' = given
    BY <1>1, PhaseIs, IdleIs DEF EnterHandler, troubles
  <2>2. Configured' = Configured /\ Hidden' = Hidden
    BY <2>1 DEF Configured, ModesAgree, Hidden
  <2> QED BY <2>1, <2>2 DEF Masked
<1>2. CASE HandlerAck
  BY <1>2, MaskedAck
<1>3. CASE HandlerNack
  BY <1>3, MaskedNack
<1>4. CASE HandlerPhase
  BY <1>4, MaskedPhase
<1>5. CASE MainAck
  <2>1. handler' = Idle /\ handler = Idle /\ nacks' = nacks /\ irq' = irq /\ given' = given
    BY <1>0, <1>5, MainAckIs DEF MainAck, program
  <2>2. irq => regs'[\h94] = regs[\h94] /\ (given = 0 => (Configured => Configured'))
    BY <1>5, MainFrame
  <2> QED BY <2>1, <2>2, IdleIs DEF Masked, Hidden
<1>6. CASE MainNack
  <2>1. handler' = Idle /\ handler = Idle /\ nacks' = nacks + 1 /\ irq' = irq /\ given' = given
        /\ regs' = regs /\ nacks \in Nat
    BY <1>0, <1>6 DEF MainNack, MainRuns, program, TypeInv
  <2>2. Configured' = Configured /\ Hidden' = Hidden
    BY <2>1 DEF Configured, ModesAgree, Hidden
  <2> QED BY <2>1, <2>2, IdleIs DEF Masked
<1>7. CASE MainPhase
  <2>1. handler' = handler /\ regs' = regs /\ nacks' = nacks /\ given' = given
    BY <1>7 DEF MainPhase, troubles
  <2>2. CASE irq
    <3>1. Configured' = Configured /\ Hidden' = Hidden
      BY <2>1 DEF Configured, ModesAgree, Hidden
    <3> QED BY <2>1, <2>2, <3>1 DEF Masked
  <2>3. CASE ~irq /\ irq'
    <3>1. regs'[\h94] = {6, 7}
      BY <1>7, <2>3, SetupEnds
    <3> QED BY <3>1 DEF Masked, Hidden
  <2>4. CASE ~irq'
    BY <2>4 DEF Masked
  <2> QED BY <2>2, <2>3, <2>4
<1>8. CASE \E cmd \in Commands : Command(cmd)
  <2>1. given' # 0
    BY <1>0, <1>8 DEF Command, TypeInv
  <2> QED BY <2>1 DEF Masked
<1>9. CASE Sense \/ PlugOrUnplug
  <2>1. PICK bit \in {6, 7} : Flag(bit)
    BY <1>9 DEF Sense, PlugOrUnplug
  <2>2. \A r \in RegisterNumbers : r # \h96 => regs'[r] = regs[r]
    BY <1>0, <2>1, FlagIs DEF TypeInv
  <2>3. handler' = handler /\ nacks' = nacks /\ irq' = irq /\ given' = given
    BY <1>9 DEF Sense, PlugOrUnplug, program, troubles
  <2>4. regs'[\h94] = regs[\h94] /\ regs'[\h41] = regs[\h41] /\ \A r \in Lights : regs'[r] = regs[r]
    BY <2>2, LightsPlain DEF Lights
  <2>5. Configured => Configured'
    BY <2>4, ConfiguredKept
  <2> QED BY <2>3, <2>4, <2>5 DEF Masked, Hidden
<1>10. CASE ReceiverOnOrOff \/ UNCHANGED vars
  <2>1. handler' = handler /\ regs' = regs /\ nacks' = nacks /\ irq' = irq /\ given' = given
    BY <1>10 DEF ReceiverOnOrOff, vars, program, troubles
  <2>2. Configured' = Configured /\ Hidden' = Hidden
    BY <2>1 DEF Configured, ModesAgree, Hidden
  <2> QED BY <2>1, <2>2 DEF Masked
<1> QED BY <1>1, <1>2, <1>3, <1>4, <1>5, <1>6, <1>7, <1>8, <1>9, <1>10, HandlerTransactionIs,
           MainTransactionIs DEF Next, Program

(* As long as fewer than three transactions fail and no command was given, *)
(* adv7513_int_handler returns with the monitor-sense interrupt masked     *)
(* only over a transmitter that adv7513_chip_init has configured.          *)
THEOREM MaskedOverAPicture == Spec => []MaskedOnceConfigured
<1>1. Init => Configures /\ Masked
  BY IdleIs DEF Init, Configures, Masked
<1>2. Typed /\ Masked => MaskedOnceConfigured
  <2> SUFFICES ASSUME Typed, Masked, nacks < 3, given = 0, irq, handler = Idle, regs[\h94] = {7}
               PROVE  Configured
    BY DEF MaskedOnceConfigured
  <2>1. Configured \/ nacks >= 3
    BY IdleIs DEF Masked, Hidden
  <2> QED BY <2>1 DEF Typed, TypeInv
<1> QED BY TypedAlways, ConfiguresStep, MaskedStep, <1>1, <1>2, PTL DEF Spec

(***************************************************************************)
(* The flags of the monitor, and what the handler has seen of them.        *)
(***************************************************************************)
LEMMA FlagsOnlyCleared ==
  ASSUME TypeInv, NEW c, c.regv \in Octet, NEW t \in Transactions, Acknowledged(c, t)
  PROVE  regs'[\h96] \subseteq regs[\h96]
<1>1. \h96 \in Flags /\ \h96 \in RegisterNumbers
  BY LightsPlain DEF Flags
<1>2. regs \in [RegisterNumbers -> Octet]
  BY DEF TypeInv
<1>3. /\ \A r \in RegisterNumbers : ~(Changes(t) /\ t.reg = r) => regs'[r] = regs[r]
      /\ t.op = "write" /\ t.reg \in Flags => regs'[t.reg] \subseteq regs[t.reg]
  BY <1>2, StoreIs
<1>4. CASE Changes(t) /\ t.reg = \h96
  <2>1. t.op = "modify" => t.reg \notin Flags
    BY TransactionFacts DEF Plain
  <2> QED BY <1>1, <1>3, <1>4, <2>1 DEF Changes
<1>5. CASE ~(Changes(t) /\ t.reg = \h96)
  BY <1>1, <1>3, <1>5
<1> QED BY <1>4, <1>5

LEMMA FlagsRest ==
  ASSUME NEW s \in Seq(Transactions), s # << >>, ReadsFlags(s)
  PROVE  LET u == Tail(s)  t == Head(s) IN
         /\ ReadsFlags(u) /\ Len(s) \in {1, 2, 3} /\ Len(u) = Len(s) - 1
         /\ t.op = "read"
         /\ Len(s) = 3 => t.reg = \h93
         /\ Len(s) = 2 => t.reg = \h96
         /\ Len(s) = 1 => t.reg = \h97
<1> DEFINE u == Tail(s)  t == Head(s)
<1>1. /\ t = s[1] /\ Len(s) \in Nat /\ Len(s) > 0 /\ Len(u) = Len(s) - 1
      /\ \A i \in 1 .. Len(u) : u[i] = s[i + 1]
  BY RestIs
<1> HIDE DEF u, t
<1>2. CASE Len(s) = 3
  <2>1. u[1] = s[2] /\ u[2] = s[3] /\ Len(u) = 2
    BY <1>1, <1>2
  <2>2. IsRead(s[1], \h93) /\ IsRead(s[2], \h96) /\ IsRead(s[3], \h97)
    BY <1>2 DEF ReadsFlags
  <2>3. ReadsFlags(u)
    BY <2>1, <2>2 DEF ReadsFlags
  <2>4. t.op = "read" /\ t.reg = \h93
    BY <1>1, <2>2 DEF IsRead
  <2> QED BY <1>1, <1>2, <2>3, <2>4 DEF u, t
<1>3. CASE Len(s) = 2
  <2>1. u[1] = s[2] /\ Len(u) = 1
    BY <1>1, <1>3
  <2>2. IsRead(s[1], \h96) /\ IsRead(s[2], \h97)
    BY <1>3 DEF ReadsFlags
  <2>3. ReadsFlags(u)
    BY <2>1, <2>2 DEF ReadsFlags
  <2>4. t.op = "read" /\ t.reg = \h96
    BY <1>1, <2>2 DEF IsRead
  <2> QED BY <1>1, <1>3, <2>3, <2>4 DEF u, t
<1>4. CASE Len(s) = 1
  <2>1. IsRead(s[1], \h97) /\ Len(u) = 0
    BY <1>1, <1>4 DEF ReadsFlags
  <2>2. ReadsFlags(u)
    BY <2>1 DEF ReadsFlags
  <2>3. t.op = "read" /\ t.reg = \h97
    BY <1>1, <2>1 DEF IsRead
  <2> QED BY <1>1, <1>4, <2>2, <2>3 DEF u, t
<1> QED BY <1>1, <1>2, <1>3, <1>4 DEF ReadsFlags

(* The look at the flags of one more register.                             *)
LEMMA LooksOn ==
  ASSUME Typed, Looking, HandlerAck, handler.phase = "status"
  PROVE  /\ ReadsFlags(handler'.todo) /\ (Len(handler'.todo) = 2 => ~Seen')
         /\ Seen' => HotPlug'
         /\ regs' = regs
         /\ Len(handler'.todo) \in 0 .. 2 /\ Len(handler.todo) = Len(handler'.todo) + 1
         /\ Len(handler'.todo) = 1 /\ News => HotPlug'
         /\ Len(handler'.todo) = 0 /\ HotPlug => HotPlug'
<1> DEFINE s == handler.todo  t == Head(handler.todo)
<1>1. s \in Seq(Transactions) /\ s # << >> /\ ReadsFlags(s) /\ handler'.todo = Tail(s)
  BY HandlerAckIs DEF Typed, TypeInv, Process, HandlerAck, Looking
<1>2. /\ ReadsFlags(handler'.todo) /\ Len(s) \in {1, 2, 3} /\ Len(handler'.todo) = Len(s) - 1
      /\ t.op = "read"
      /\ Len(s) = 3 => t.reg = \h93
      /\ Len(s) = 2 => t.reg = \h96
      /\ Len(s) = 1 => t.reg = \h97
  BY <1>1, FlagsRest
<1>3. regs' = regs
  BY <1>2 DEF HandlerAck, Acknowledged
<1>4. status' = IF t.reg = \h93 THEN {<<t.reg, b>> : b \in regs[t.reg]}
                ELSE status \cup {<<t.reg, b>> : b \in regs[t.reg]}
  BY DEF HandlerAck
<1>5. (Seen => HotPlug) /\ (Len(s) = 2 => ~Seen) /\ regs[\h96] \subseteq {6, 7}
  BY DEF Looking
<1> HIDE DEF s, t
<1>6. CASE Len(s) = 3
  <2>1. status' = {<<\h93, b>> : b \in regs[\h93]}
    BY <1>2, <1>4, <1>6
  <2>2. ~Seen'
    BY <2>1 DEF Seen
  <2> QED BY <1>2, <1>3, <1>6, <2>2 DEF s
<1>7. CASE Len(s) = 2
  <2>1. status' = status \cup {<<\h96, b>> : b \in regs[\h96]} /\ ~Seen
    BY <1>2, <1>4, <1>5, <1>7
  <2>2. News => HotPlug'
    BY <2>1 DEF News, HotPlug
  <2>3. Seen' => HotPlug'
    <3> SUFFICES ASSUME Seen' PROVE HotPlug'
      OBVIOUS
    <3>1. PICK x \in status' : x[1] = \h96
      BY DEF Seen
    <3>2. x \notin status
      BY <2>1, <3>1 DEF Seen
    <3>3. PICK b \in regs[\h96] : x = <<\h96, b>>
      BY <2>1, <3>1, <3>2
    <3>4. b \in {6, 7} /\ <<\h96, b>> \in status'
      BY <1>5, <3>1, <3>3
    <3> QED BY <3>4 DEF HotPlug
  <2> QED BY <1>2, <1>3, <1>7, <2>2, <2>3 DEF s
<1>8. CASE Len(s) = 1
  <2>1. status' = status \cup {<<\h97, b>> : b \in regs[\h97]}
    BY <1>2, <1>4, <1>8
  <2>2. HotPlug => HotPlug'
    BY <2>1 DEF HotPlug
  <2>3. Seen' => Seen
    BY <2>1 DEF Seen
  <2> QED BY <1>2, <1>3, <1>5, <1>8, <2>2, <2>3 DEF s
<1> QED BY <1>2, <1>6, <1>7, <1>8

LEMMA LookingAck == ASSUME Typed, Looking, HandlerAck PROVE Looking'
<1>1. /\ handler'.phase = handler.phase /\ handler'.todo = Tail(handler.todo)
      /\ handler.todo \in Seq(Transactions) /\ handler.todo # << >>
  BY HandlerAckIs DEF Typed, TypeInv, Process, HandlerAck
<1>2. regs'[\h96] \subseteq {6, 7}
  <2>1. Head(handler.todo) \in Transactions /\ handler.regv \in Octet
    BY <1>1, RestIs DEF Typed, TypeInv, Process
  <2>2. regs'[\h96] \subseteq regs[\h96]
    BY <2>1, FlagsOnlyCleared DEF Typed, HandlerAck
  <2> QED BY <2>2 DEF Looking
<1>3. CASE handler.phase = "status"
  BY <1>1, <1>2, <1>3, LooksOn DEF Looking
<1>4. CASE handler.phase # "status"
  <2>1. status' = status
    BY <1>4 DEF HandlerAck
  <2>2. Seen' = Seen /\ HotPlug' = HotPlug
    BY <2>1 DEF Seen, HotPlug
  <2>3. \h96 \notin Changed(handler.todo) => \h96 \notin Changed(handler'.todo)
    BY <1>1, RestKeeps
  <2>4. \A r : (\A i \in 1 .. Len(handler.todo) : IsRead(handler.todo[i], r))
                 => \A i \in 1 .. Len(handler'.todo) : IsRead(handler'.todo[i], r)
    BY <1>1, RestIs
  <2> QED BY <1>1, <1>2, <1>4, <2>2, <2>3, <2>4 DEF Looking
<1> QED BY <1>3, <1>4

LEMMA LookingNack == ASSUME Typed, Looking, HandlerNack PROVE Looking'
<1>1. /\ handler'.phase = handler.phase /\ regs' = regs /\ status' = status
      /\ Changed(handler'.todo) \subseteq Changed(handler.todo)
      /\ handler.phase \in {"status", "sense"} => handler'.todo = << >>
  BY HandlerNackIs DEF Typed, Programs, HandlerNack, Left
<1>2. ReadsFlags(<< >>) /\ Len(<< >>) = 0 /\ \A i \in 1 .. Len(<< >>) : IsRead(<< >>[i], \h42)
  BY DEF ReadsFlags
<1>3. Seen' = Seen /\ HotPlug' = HotPlug
  BY <1>1 DEF Seen, HotPlug
<1>4. regs'[\h96] \subseteq {6, 7} /\ (Seen' => HotPlug')
      /\ (handler'.phase = "disable" /\ ~HotPlug' => \h96 \notin Changed(handler'.todo))
  BY <1>1, <1>3 DEF Looking
<1>5. handler'.phase = "status" => ReadsFlags(handler'.todo) /\ Len(handler'.todo) # 2
  <2> SUFFICES ASSUME handler'.phase = "status" PROVE ReadsFlags(handler'.todo) /\ Len(handler'.todo) # 2
    OBVIOUS
  <2>1. handler'.todo = << >>
    BY <1>1
  <2> QED BY <1>2, <2>1
<1>6. handler'.phase = "sense" => \A i \in 1 .. Len(handler'.todo) : IsRead(handler'.todo[i], \h42)
  BY <1>1, <1>2
<1> QED BY <1>4, <1>5, <1>6 DEF Looking

LEMMA SenseReads == \A i \in 1 .. Len(reg_read(\h42)) : IsRead(reg_read(\h42)[i], \h42)
BY DEF reg_read, IsRead

LEMMA LookingPhase == ASSUME Typed, Looking, HandlerPhase PROVE Looking'
<1>1. regs' = regs /\ status' = status /\ handler.phase \in HandlerPhases /\ handler.phase # "idle"
  BY DEF HandlerPhase, Typed, TypeInv, Process
<1>2. Seen' = Seen /\ HotPlug' = HotPlug
  BY <1>1 DEF Seen, HotPlug
<1>3. regs'[\h96] \subseteq {6, 7} /\ (Seen' => HotPlug')
  BY <1>1, <1>2 DEF Looking
<1>4. \A p, s : Phase(p, s).phase = p /\ Phase(p, s).todo = s
  BY PhaseIs
<1>5. Idle.phase = "idle" /\ Unplugged.phase = "unplugged" /\ Plugged.phase = "plugged"
  BY IdleIs, MasksAre
<1>6. \/ handler'.phase \notin {"status", "sense", "disable"}
      \/ handler'.phase = "disable" /\ handler'.todo = DisableAndClear
      \/ handler'.phase = "sense" /\ handler'.todo = reg_read(\h42)
  <2>1. CASE handler.phase \in {"status", "disable", "unplugged", "plugged"}
    BY <1>4, <1>5, <2>1, FollowIs
  <2>2. CASE handler.phase = "sense"
    BY <1>4, <1>5, <2>2, FollowIs
  <2>3. CASE handler.phase \in {"powerup", "edid", "init", "power", "check"}
    <3>1. handler'.phase \in {"unplugged", "edid", "init", "power", "check", "plugged"}
      BY <1>4, <1>5, <2>3, FollowIs
    <3> QED BY <3>1
  <2> QED BY <1>1, <2>1, <2>2, <2>3 DEF HandlerPhases
<1>7. CASE handler'.phase \notin {"status", "sense", "disable"}
  BY <1>3, <1>7 DEF Looking
<1>8. CASE handler'.phase = "disable" /\ handler'.todo = DisableAndClear
  <2>1. ~HotPlug => \h96 \notin Changed(DisableAndClear)
    BY DisableIs DEF Looking
  <2> QED BY <1>2, <1>3, <1>8, <2>1 DEF Looking
<1>9. CASE handler'.phase = "sense" /\ handler'.todo = reg_read(\h42)
  BY <1>3, <1>9, SenseReads DEF Looking
<1> QED BY <1>6, <1>7, <1>8, <1>9

LEMMA LookingStep == ASSUME Typed, Looking, [Next]_vars PROVE Looking'
<1>1. CASE EnterHandler
  <2>0. handler' = Phase("status", read_flags) /\ regs' = regs /\ status' = status
    BY <1>1 DEF EnterHandler
  <2>1. handler'.phase = "status" /\ handler'.todo = read_flags /\ regs' = regs /\ status' = status
    BY <2>0 DEF Phase
  <2>2. Seen' = Seen /\ HotPlug' = HotPlug
    BY <2>1 DEF Seen, HotPlug
  <2>3. ReadsFlags(read_flags) /\ Len(read_flags) # 2
    BY FlagsAre
  <2> QED BY <2>1, <2>2, <2>3 DEF Looking
<1>2. CASE HandlerAck
  BY <1>2, LookingAck
<1>3. CASE HandlerNack
  BY <1>3, LookingNack
<1>4. CASE HandlerPhase
  BY <1>4, LookingPhase
<1>5. CASE MainAck
  <2>1. Head(main.todo) \in Transactions /\ main.regv \in Octet /\ handler' = Idle
    BY <1>5, MainAckIs DEF Typed, TypeInv, Process, MainAck
  <2>2. regs'[\h96] \subseteq regs[\h96]
    BY <1>5, <2>1, FlagsOnlyCleared DEF Typed, MainAck
  <2>3. status' = status
    BY <1>5 DEF MainAck, program
  <2>4. Seen' = Seen /\ HotPlug' = HotPlug
    BY <2>3 DEF Seen, HotPlug
  <2> QED BY <2>1, <2>2, <2>4, IdleIs DEF Looking
<1>6. CASE MainNack \/ MainPhase \/ \E cmd \in Commands : Command(cmd)
  <2>1. handler' = Idle /\ regs' = regs /\ status' = status
    BY <1>6 DEF MainNack, MainPhase, Command, MainRuns, program
  <2>2. Seen' = Seen /\ HotPlug' = HotPlug
    BY <2>1 DEF Seen, HotPlug
  <2> QED BY <2>1, <2>2, IdleIs DEF Looking
<1>7. CASE Sense \/ PlugOrUnplug
  <2>1. PICK bit \in {6, 7} : Flag(bit)
    BY <1>7 DEF Sense, PlugOrUnplug
  <2>2. regs' = [regs EXCEPT ![\h96] = regs[\h96] \cup {bit}]
    BY <2>1 DEF Flag
  <2>3. regs'[\h96] \subseteq {6, 7}
    BY <2>2, LightsPlain DEF Typed, TypeInv, Looking
  <2>4. handler' = handler /\ status' = status
    BY <1>7 DEF Sense, PlugOrUnplug, program
  <2>5. Seen' = Seen /\ HotPlug' = HotPlug
    BY <2>4 DEF Seen, HotPlug
  <2> QED BY <2>3, <2>4, <2>5 DEF Looking
<1>8. CASE ReceiverOnOrOff \/ UNCHANGED vars
  <2>1. handler' = handler /\ status' = status /\ regs' = regs
    BY <1>8 DEF ReceiverOnOrOff, vars, program
  <2>2. Seen' = Seen /\ HotPlug' = HotPlug
    BY <2>1 DEF Seen, HotPlug
  <2> QED BY <2>1, <2>2 DEF Looking
<1> QED BY <1>1, <1>2, <1>3, <1>4, <1>5, <1>6, <1>7, <1>8, HandlerTransactionIs, MainTransactionIs
        DEF Next, Program

(***************************************************************************)
(* The news of a monitor is not lost.                                      *)
(***************************************************************************)
LEMMA NoticedKept ==
  ASSUME Noticed, handler' = handler, status' = status, nacks' = nacks, irq' = irq,
         \A r \in Lights : regs'[r] = regs[r], regs'[\h94] = regs[\h94],
         News' \/ (regs'[\h96] = regs[\h96] /\ hpd' = hpd /\ sense' = sense)
  PROVE  Noticed'
<1>1. Lit => Lit'
  BY ConfiguredKept
<1>2. Pending => Pending'
  BY <1>1 DEF Pending, News, Known
<1>3. HotPlug' = HotPlug
  BY DEF HotPlug
<1> QED BY <1>1, <1>2, <1>3 DEF Noticed

LEMMA NoticedAck == ASSUME Typed, Looking, Noticed, HandlerAck PROVE Noticed'
<1>0. TypeInv /\ Fresh /\ Within /\ HandlerWrites
  BY DEF Typed, Programs
<1>1. /\ handler'.phase = handler.phase /\ nacks' = nacks /\ irq' = irq /\ hpd' = hpd /\ sense' = sense
      /\ handler'.todo = Tail(handler.todo)
      /\ \A r \in RegisterNumbers : r \notin Changed(handler.todo) => regs'[r] = regs[r]
  BY <1>0, HandlerAckIs DEF HandlerAck, monitor
<1>2. handler.todo \in Seq(Transactions) /\ handler.todo # << >> /\ handler.phase \in HandlerPhases
  BY <1>0 DEF TypeInv, Process, HandlerAck
<1>3. handler.phase # "idle"
  BY <1>0, <1>2, IdleIs DEF TypeInv
<1>4. ASSUME Lights \cap MayChange(handler.phase) = {}, \h96 \notin Changed(handler.todo)
      PROVE  (Lit => Lit') /\ (Pending => Pending')
  <2>1. \A r \in Lights : regs'[r] = regs[r]
    BY <1>0, <1>1, <1>4, LightsPlain DEF Within
  <2>2. Lit => Lit'
    BY <2>1, ConfiguredKept
  <2>3. regs'[\h96] = regs[\h96]
    BY <1>1, <1>4, LightsPlain
  <2> QED BY <1>1, <2>2, <2>3 DEF Pending, News, Known
<1>5. CASE handler.phase = "status"
  <2>1. /\ regs' = regs /\ Len(handler'.todo) \in 0 .. 2 /\ Len(handler.todo) = Len(handler'.todo) + 1
        /\ Len(handler'.todo) = 1 /\ News => HotPlug'
        /\ Len(handler'.todo) = 0 /\ HotPlug => HotPlug'
    BY <1>5, LooksOn
  <2>2. Pending => Pending'
    BY <1>1, <2>1 DEF Pending, News, Known, Lit, ModesAgree
  <2>3. nacks = 0 /\ irq => Pending \/ (Len(handler.todo) <= 1 /\ HotPlug)
    BY <1>5 DEF Noticed
  <2>4. nacks = 0 /\ irq => Pending' \/ (Len(handler'.todo) <= 1 /\ HotPlug')
    BY <2>1, <2>2, <2>3
  <2> QED BY <1>1, <1>5, <2>4 DEF Noticed
<1>6. CASE handler.phase = "disable"
  <2>1. HotPlug' = HotPlug
    BY <1>6 DEF HandlerAck, HotPlug
  <2>2. ~HotPlug => (Pending => Pending')
    BY <1>4, <1>6, LightsApart DEF Looking
  <2>3. nacks = 0 /\ irq => Pending \/ HotPlug
    BY <1>6 DEF Noticed
  <2> QED BY <1>1, <1>6, <2>1, <2>2, <2>3 DEF Noticed
<1>7. CASE handler.phase = "sense"
  <2>1. IsRead(Head(handler.todo), \h42)
    BY <1>2, <1>7, RestIs DEF Looking
  <2>2. handler'.regv = Levels /\ regs' = regs
    BY <1>0, <2>1, HandlerAckIs DEF IsRead, HandlerAck, Acknowledged
  <2>3. hpd /\ sense => {5, 6} \subseteq handler'.regv
    BY <2>2 DEF Levels
  <2>4. {5, 6} \subseteq handler'.regv \/ Pending'
    BY <1>1, <2>3 DEF Pending, Known
  <2> QED BY <1>1, <1>7, <2>4 DEF Noticed
<1>8. CASE handler.phase = "unplugged"
  <2>1. \h96 \notin MayChange("unplugged")
    BY DEF MayChange, MaskRegs
  <2>2. (Lit => Lit') /\ (Pending => Pending')
    BY <1>0, <1>4, <1>8, <2>1, LightsApart DEF Within
  <2>3. \/ regs'[\h94] = {6, 7}
        \/ /\ regs'[\h94] = regs[\h94]
           /\ (\h94 \in Changed(handler.todo) => \h94 \in Changed(handler'.todo))
    BY <1>0, <1>8, MaskAck DEF HandlerWrites
  <2>4. ({6, 7} \subseteq regs[\h94] \/ \h94 \in Changed(handler.todo))
          => ({6, 7} \subseteq regs'[\h94] \/ \h94 \in Changed(handler'.todo))
    BY <2>3
  <2>5. nacks = 0 /\ irq =>
          Lit \/ (({6, 7} \subseteq regs[\h94] \/ \h94 \in Changed(handler.todo)) /\ Pending)
    BY <1>8 DEF Noticed
  <2>6. nacks = 0 /\ irq =>
          Lit' \/ (({6, 7} \subseteq regs'[\h94] \/ \h94 \in Changed(handler'.todo)) /\ Pending')
    BY <2>2, <2>4, <2>5
  <2> QED BY <1>1, <1>8, <2>6 DEF Noticed
<1>9. CASE handler.phase \in {"powerup", "edid", "init", "power", "check", "plugged"}
  BY <1>1, <1>9 DEF Noticed
<1> QED BY <1>2, <1>3, <1>5, <1>6, <1>7, <1>8, <1>9 DEF HandlerPhases

LEMMA NoticedPhase == ASSUME Typed, Configures, Looking, Noticed, HandlerPhase PROVE Noticed'
<1>1. /\ regs' = regs /\ nacks' = nacks /\ irq' = irq /\ hpd' = hpd /\ sense' = sense /\ status' = status
      /\ handler.todo = << >> /\ handler.phase \in HandlerPhases /\ handler.phase # "idle"
      /\ nacks \in Nat
  BY DEF HandlerPhase, troubles, monitor, Typed, TypeInv, Process
<1>2. Pending' = Pending /\ Lit' = Lit /\ HotPlug' = HotPlug
  BY <1>1 DEF Pending, News, Known, Lit, ModesAgree, HotPlug
<1>3. \A p, s : Phase(p, s).phase = p /\ Phase(p, s).todo = s
  BY PhaseIs
<1>4. handler.failed => nacks # 0
  BY <1>1 DEF Typed, Programs, Failures
<1>5. CASE handler.phase = "status"
  <2>1. handler.failed \/ handler'.phase = "disable"
    BY <1>3, <1>5, FollowIs
  <2>2. nacks = 0 /\ irq => Pending \/ HotPlug
    BY <1>5 DEF Noticed
  <2>3. nacks # 0 \/ handler'.phase = "disable"
    BY <1>4, <2>1
  <2> QED BY <1>1, <1>2, <2>2, <2>3 DEF Noticed
<1>6. CASE handler.phase = "disable"
  <2>1. \/ HotPlug /\ handler'.phase = "sense" /\ handler'.todo = reg_read(\h42)
        \/ ~HotPlug /\ handler' = Unplugged
    BY <1>3, <1>6, FollowIs
  <2>2. nacks = 0 /\ irq => Pending \/ HotPlug
    BY <1>6 DEF Noticed
  <2>3. reg_read(\h42) # << >>
    BY DEF reg_read
  <2>4. CASE handler'.phase = "sense" /\ handler'.todo = reg_read(\h42)
    BY <2>3, <2>4 DEF Noticed
  <2>5. CASE ~HotPlug /\ handler' = Unplugged
    BY <1>1, <1>2, <2>2, <2>5, MasksAre DEF Noticed
  <2> QED BY <2>1, <2>4, <2>5
<1>7. CASE handler.phase = "sense"
  <2>1. \/ handler.failed
        \/ handler'.phase = "powerup"
        \/ handler'.phase = "sense" /\ handler'.todo = reg_read(\h42)
        \/ handler' = Unplugged /\ ~({5, 6} \subseteq handler.regv)
    BY <1>3, <1>7, FollowIs
  <2>2. nacks = 0 /\ irq => {5, 6} \subseteq handler.regv \/ Pending
    BY <1>1, <1>7 DEF Noticed
  <2>3. reg_read(\h42) # << >>
    BY DEF reg_read
  <2>4. CASE handler.failed
    BY <1>1, <1>4, <2>4 DEF Noticed
  <2>5. CASE handler'.phase = "powerup"
    BY <2>5 DEF Noticed
  <2>6. CASE handler'.phase = "sense" /\ handler'.todo = reg_read(\h42)
    BY <2>3, <2>6 DEF Noticed
  <2>7. CASE handler' = Unplugged /\ ~({5, 6} \subseteq handler.regv)
    BY <1>1, <1>2, <2>2, <2>7, MasksAre DEF Noticed
  <2> QED BY <2>1, <2>4, <2>5, <2>6, <2>7
<1>8. CASE handler.phase \in {"powerup", "edid", "init", "power", "check"}
  <2>1. handler.failed \/ handler'.phase \in {"edid", "init", "power", "check"} \/ handler' = Plugged
    BY <1>3, <1>8, FollowIs
  <2>2. CASE handler.failed
    BY <1>1, <1>4, <2>2 DEF Noticed
  <2>3. CASE handler'.phase \in {"edid", "init", "power", "check"}
    BY <2>3 DEF Noticed
  <2>4. CASE handler' = Plugged
    BY <2>4, MasksAre DEF Noticed
  <2> QED BY <2>1, <2>2, <2>3, <2>4
<1>9. CASE handler.phase \in {"unplugged", "plugged"}
  <2>1. handler' = Idle /\ \h94 \notin Changed(handler.todo)
    BY <1>1, <1>9, FollowIs, NothingIs
  <2>2. handler.phase = "plugged" => Lit
    BY DEF Configures, Configured, Lit
  <2>3. nacks = 0 /\ irq => Lit \/ ({6, 7} \subseteq regs[\h94] /\ Pending)
    BY <1>9, <2>1, <2>2 DEF Noticed
  <2> QED BY <1>1, <1>2, <2>1, <2>3, IdleIs DEF Noticed
<1> QED BY <1>1, <1>5, <1>6, <1>7, <1>8, <1>9 DEF HandlerPhases

LEMMA NoticedStep ==
  ASSUME Commands \subseteq {"o"}, Typed, Configures, Looking, Noticed, [Next]_vars
  PROVE  Noticed'
<1>0. TypeInv /\ Fresh /\ Within /\ Failures /\ Starting /\ Obeys
  BY DEF Typed, Programs
<1>1. CASE EnterHandler
  <2>0. handler' = Phase("status", read_flags) /\ handler = Idle
        /\ regs' = regs /\ status' = status /\ nacks' = nacks /\ irq' = irq
        /\ hpd' = hpd /\ sense' = sense
    BY <1>1 DEF EnterHandler, troubles, monitor
  <2>1. handler'.phase = "status" /\ handler.phase = "idle"
    BY <2>0, IdleIs DEF Phase
  <2>2. nacks = 0 /\ irq => Pending
    BY <2>1 DEF Noticed, Pending, Known
  <2>3. Pending => Pending'
    BY <2>0 DEF Pending, News, Known, Lit, ModesAgree
  <2> QED BY <2>0, <2>1, <2>2, <2>3 DEF Noticed
<1>2. CASE HandlerAck
  BY <1>2, NoticedAck
<1>3. CASE HandlerNack \/ MainNack
  <2>1. nacks' > 0
    BY <1>0, <1>3 DEF HandlerNack, MainNack, TypeInv
  <2> QED BY <2>1 DEF Noticed
<1>4. CASE HandlerPhase
  BY <1>4, NoticedPhase
<1>5. CASE MainAck
  <2>1. /\ \A r \in RegisterNumbers : r \notin Changed(main.todo) => regs'[r] = regs[r]
        /\ handler' = handler /\ nacks' = nacks /\ irq' = irq /\ status' = status
        /\ hpd' = hpd /\ sense' = sense
        /\ main.phase \in MainPhases
    BY <1>0, <1>5, MainAckIs DEF MainAck, program, monitor, TypeInv, Process
  <2>2. CASE ~irq
    BY <2>1, <2>2 DEF Noticed
  <2>3. CASE irq
    <3>1. main.phase \in {"kick", "prompt", "o"}
      BY <1>0, <2>1, <2>3 DEF Obeys, Starting, MainPhases
    <3>2. Lights \cap MayChange(main.phase) = {} /\ \h94 \notin MayChange(main.phase)
          /\ \h96 \notin MayChange(main.phase)
      <4>1. \h96 \notin MayChange(main.phase)
        BY <3>1 DEF MayChange
      <4> QED BY <3>1, <4>1, LightsApart
    <3>3. /\ \A r \in Lights : regs'[r] = regs[r]
          /\ regs'[\h94] = regs[\h94] /\ regs'[\h96] = regs[\h96]
      BY <1>0, <2>1, <3>2, LightsPlain DEF Within
    <3> QED BY <2>1, <3>3, NoticedKept
  <2> QED BY <2>2, <2>3 DEF Typed, TypeInv
<1>6. CASE MainPhase
  <2>1. /\ handler' = handler /\ regs' = regs /\ nacks' = nacks /\ status' = status
        /\ hpd' = hpd /\ sense' = sense
    BY <1>6 DEF MainPhase, troubles, monitor
  <2>2. CASE irq
    <3>1. irq' = irq
      BY <1>6, <2>2 DEF MainPhase, Typed, TypeInv
    <3> QED BY <2>1, <3>1, NoticedKept
  <2>3. CASE ~irq /\ irq'
    <3>1. regs'[\h94] = {6, 7} /\ handler'.phase = "idle" /\ sense' = FALSE
      BY <1>6, <2>3, SetupEnds
    <3>2. Pending'
      BY <3>1 DEF Pending, Known
    <3> QED BY <3>1, <3>2 DEF Noticed
  <2>4. CASE ~irq'
    BY <2>4 DEF Noticed
  <2> QED BY <2>2, <2>3, <2>4
<1>7. CASE \E cmd \in Commands : Command(cmd)
  <2>1. handler' = handler /\ regs' = regs /\ nacks' = nacks /\ irq' = irq /\ status' = status
        /\ hpd' = hpd /\ sense' = sense
    BY <1>7 DEF Command, program, monitor
  <2> QED BY <2>1, NoticedKept
<1>8. CASE Sense \/ PlugOrUnplug
  <2>1. PICK bit \in {6, 7} : Flag(bit)
    BY <1>8 DEF Sense, PlugOrUnplug
  <2>2. regs' = [regs EXCEPT ![\h96] = regs[\h96] \cup {bit}]
    BY <2>1 DEF Flag
  <2>3. News'
    BY <1>0, <2>2, LightsPlain DEF TypeInv, News
  <2>4. \A r \in RegisterNumbers : r # \h96 => regs'[r] = regs[r]
    BY <1>0, <2>1, FlagIs DEF TypeInv
  <2>5. regs'[\h94] = regs[\h94] /\ \A r \in Lights : regs'[r] = regs[r]
    BY <2>4, LightsPlain DEF Lights
  <2>6. handler' = handler /\ status' = status /\ nacks' = nacks /\ irq' = irq
    BY <1>8 DEF Sense, PlugOrUnplug, program, troubles
  <2> QED BY <2>3, <2>5, <2>6, NoticedKept
<1>9. CASE ReceiverOnOrOff \/ UNCHANGED vars
  <2>1. handler' = handler /\ regs' = regs /\ nacks' = nacks /\ irq' = irq /\ status' = status
        /\ hpd' = hpd /\ sense' = sense
    BY <1>9 DEF ReceiverOnOrOff, vars, program, troubles, monitor
  <2> QED BY <2>1, NoticedKept
<1> QED BY <1>1, <1>2, <1>3, <1>4, <1>5, <1>6, <1>7, <1>8, <1>9, HandlerTransactionIs,
           MainTransactionIs DEF Next, Program

(* With no failed transaction and no command but the one to switch off,    *)
(* the main program waits beside a transmitter that is up and senses a     *)
(* monitor only when adv7513_int_handler has configured it: a flag raised  *)
(* after the handler read it stays for the next interrupt.                 *)
THEOREM NewsKept == ASSUME Commands \subseteq {"o"} PROVE Spec => []NoEventLost
<1>1. Init => Configures /\ Looking /\ Noticed
  <2> SUFFICES ASSUME Init PROVE Configures /\ Looking /\ Noticed
    OBVIOUS
  <2>1. handler = Idle /\ irq = FALSE /\ status = {} /\ regs[\h96] = {}
    BY LightsPlain DEF Init
  <2>2. Seen = FALSE
    BY <2>1 DEF Seen
  <2> QED BY <2>1, <2>2, IdleIs DEF Configures, Looking, Noticed
<1>2. Typed /\ Noticed => NoEventLost
  <2> SUFFICES ASSUME Typed, Noticed, nacks = 0, irq, MainRuns, hpd, sense, 6 \notin regs[\h41]
               PROVE  Configured
    BY DEF NoEventLost
  <2>1. Lit \/ ({6, 7} \subseteq regs[\h94] /\ Pending)
    BY IdleIs DEF MainRuns, Noticed
  <2>2. ~Interrupting
    BY DEF MainRuns
  <2>3. {6, 7} \subseteq regs[\h94] => ~News
    BY <2>2 DEF Interrupting, News
  <2>4. Lit
    BY <2>1, <2>3 DEF Pending, Known
  <2> QED BY <2>4 DEF Lit, Configured
<1> QED BY TypedAlways, ConfiguresStep, LookingStep, NoticedStep, <1>1, <1>2, PTL DEF Spec
=============================================================================
