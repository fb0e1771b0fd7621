---------------------------- MODULE RegisterFile ----------------------------
(***************************************************************************)
(* What the functions of i2c.c promise their callers: one request at a     *)
(* time on the registers of a device, which succeeds or fails as a whole.  *)
(***************************************************************************)
EXTENDS Integers, Sequences

CONSTANTS Requests,    \* [kind, reg, value] or [kind, reg, n] (n registers)
          Registers, Values

VARIABLES regs,        \* the registers of the device
          pending,     \* the requests under way, at most one
          applied,     \* its value has reached the register
          answer       \* what the last request answered

vars == <<regs, pending, applied, answer>>

NoAnswer == [ok |-> FALSE, data |-> << >>]

Init ==
  /\ regs \in [Registers -> Values]
  /\ pending = {} /\ applied = FALSE /\ answer = NoAnswer

Invoke(r) ==
  /\ pending = {} /\ pending' = {r}
  /\ applied' = FALSE /\ answer' = NoAnswer
  /\ UNCHANGED regs

Apply(r) ==
  /\ r \in pending /\ r.kind = "write" /\ ~applied
  /\ regs' = [regs EXCEPT ![r.reg] = r.value] /\ applied' = TRUE
  /\ UNCHANGED <<pending, answer>>

(* A write succeeds if and only if it was applied; a read that succeeds    *)
(* returns what the registers hold.                                        *)
Return(r) ==
  /\ r \in pending /\ pending' = {}
  /\ \/ r.kind = "write" /\ answer' = [ok |-> applied, data |-> << >>]
     \/ r.kind = "read"
        /\ answer' = [ok |-> TRUE, data |-> [i \in 1 .. r.n |-> regs[r.reg + i - 1]]]
     \/ r.kind = "read" /\ answer' = NoAnswer
  /\ UNCHANGED <<regs, applied>>

Next == \E r \in Requests : Invoke(r) \/ Apply(r) \/ Return(r)

Spec == Init /\ [][Next]_vars /\ WF_vars(\E r \in Requests : Return(r))
=============================================================================
