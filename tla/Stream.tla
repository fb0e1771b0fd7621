------------------------------- MODULE Stream -------------------------------
(***************************************************************************)
(* What each direction of the JTAG UART promises: the characters that went *)
(* in come out in the same order, each once, whatever buffers and FIFOs    *)
(* they pass on the way.  They are numbered as they go in.                 *)
(***************************************************************************)
EXTENDS Integers, Sequences

VARIABLES count,  \* how many characters went in so far
          pipe,   \* those that are under way, the oldest first
          last    \* those that the other side has taken last
vars == <<count, pipe, last>>

TypeOK == count \in Nat /\ pipe \in Seq(1 .. count) /\ last \in Seq(1 .. count)

Init == count = 0 /\ pipe = <<>> /\ last = <<>>

Put == /\ count' > count
       /\ pipe' = pipe \o [k \in 1 .. count' - count |-> count + k]
       /\ UNCHANGED last

Get == /\ \E n \in 1 .. Len(pipe) : /\ last' = SubSeq(pipe, 1, n)
                                  /\ pipe' = SubSeq(pipe, n + 1, Len(pipe))
       /\ UNCHANGED count

Forget == last' = <<>> /\ UNCHANGED <<count, pipe>>

Next == Put \/ Get \/ Forget
Spec == Init /\ [][Next]_vars
=============================================================================
