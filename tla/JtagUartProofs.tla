--------------------------- MODULE JtagUartProofs ---------------------------
(***************************************************************************)
(* The invariants of the JTAG UART driver, for rings and FIFOs of any      *)
(* size, any timeout and any bound on the characters; that it keeps the    *)
(* characters of both directions in order, and when it gives up a call.    *)
(***************************************************************************)
EXTENDS JtagUart, SequenceTheorems, TLAPS

(* An index into a ring, and one that wraps, is an index of a slot.        *)
LEMMA WrapsIntoSlot ==
  ASSUME NEW i \in Nat PROVE i % BUF_LEN \in Slot
  BY JtagUartAssumption DEF Slot

LEMMA AfterIsSlot == ASSUME NEW i \in Slot PROVE After(i) \in Slot
  <1>1. i + 1 \in Nat BY JtagUartAssumption DEF Slot
  <1> QED BY <1>1, WrapsIntoSlot DEF After

(* Where a call is in the program does not change what it may hold.        *)
Places == {"idle", "failed", "close", "closed"} \cup ReadPcs \cup WritePcs

LEMMA InitHolds == Init => TypeOK /\ CopiesInside
  <1> SUFFICES ASSUME Init PROVE TypeOK /\ CopiesInside OBVIOUS
  <1>1. 0 \in Slot /\ 0 \in Char BY JtagUartAssumption DEF Slot, Char
  <1>2. rx \in Ring /\ tx \in Ring BY <1>1 DEF Init, Ring, Slot
  <1>3. <<>> \in Seq(Char) /\ Len(<<>>) = 0 OBVIOUS
  <1>4. Entered <= CHARACTERS BY JtagUartAssumption DEF Init, Entered, WritePcs
  <1>5. call \in Calls /\ isr \in Handlers
    BY <1>1, <1>3, JtagUartAssumption DEF Init, Calls, Handlers, NoCall, NoIsr
  <1>6. 0 \in 0 .. INT_MAX - 2 /\ 0 \in 0 .. TIMEOUT /\ 0 <= DEPTH BY JtagUartAssumption
  <1>7. CopiesInside BY DEF Init, CopiesInside, NoCall
  <1> QED BY <1>2, <1>3, <1>4, <1>5, <1>6, <1>7 DEF Init, TypeOK


(* A record that is changed in its type stays in its type.                 *)
LEMMA RingChanged ==
  ASSUME NEW r \in Ring
  PROVE  /\ \A i \in Slot : [r EXCEPT !.in = i] \in Ring /\ [r EXCEPT !.out = i] \in Ring
         /\ \A b \in [Slot -> Char] : [r EXCEPT !.buf = b] \in Ring
         /\ \A i \in Slot, b \in [Slot -> Char] : [r EXCEPT !.buf = b, !.in = i] \in Ring
         /\ r.in \in Slot /\ r.out \in Slot /\ r.buf \in [Slot -> Char]
  BY DEF Ring

LEMMA HandlerChanged ==
  ASSUME NEW h \in Handlers
  PROVE  /\ \A at \in {"off", "control", "receive", "transmit"}, data \in BOOLEAN :
              [h EXCEPT !.at = at] \in Handlers /\ [h EXCEPT !.data = data] \in Handlers
              /\ [h EXCEPT !.at = at, !.data = data] \in Handlers
         /\ \A space \in 0 .. DEPTH : [h EXCEPT !.space = space] \in Handlers
         /\ h.wi \in BOOLEAN /\ h.data \in BOOLEAN /\ h.space \in 0 .. DEPTH
  BY DEF Handlers

(* The handler at its entry.                                               *)
LEMMA NoIsrChanged == NoIsr \in Handlers /\ [NoIsr EXCEPT !.at = "control"] \in Handlers
  <1>1. NoIsr \in Handlers BY JtagUartAssumption DEF NoIsr, Handlers
  <1> QED BY <1>1, HandlerChanged

LEMMA CallChanged ==
  ASSUME NEW c \in Calls
  PROVE  /\ c.n \in Nat /\ c.left \in Nat /\ c.in \in Slot /\ c.out \in Slot
         /\ c.moved \in BOOLEAN
         /\ \A i \in Slot, o \in Slot, n \in Nat : [c EXCEPT !.in = i, !.out = o, !.n = n] \in Calls
         /\ \A got \in Seq(Char) : [c EXCEPT !.got = got] \in Calls
         /\ \A left \in Nat : [c EXCEPT !.left = left, !.n = 0, !.moved = TRUE] \in Calls
         /\ \A left \in Nat :
              [c EXCEPT !.left = left, !.n = 0, !.moved = TRUE, !.got = <<>>] \in Calls
         /\ \A left \in Nat : [c EXCEPT !.left = left] \in Calls
         /\ \A left \in Nat, early \in BOOLEAN : [c EXCEPT !.left = left, !.early = early] \in Calls
  <1>1. <<>> \in Seq(Char) OBVIOUS
  <1>2. /\ c.n \in Nat /\ c.left \in Nat /\ c.in \in Slot /\ c.out \in Slot
        /\ c.moved \in BOOLEAN
    BY DEF Calls
  <1>3. \A i \in Slot, o \in Slot, n \in Nat : [c EXCEPT !.in = i, !.out = o, !.n = n] \in Calls
    BY DEF Calls
  <1>4. \A got \in Seq(Char) : [c EXCEPT !.got = got] \in Calls BY DEF Calls
  <1>5. \A left \in Nat : [c EXCEPT !.left = left, !.n = 0, !.moved = TRUE] \in Calls BY DEF Calls
  <1>6. \A left \in Nat : [c EXCEPT !.left = left, !.n = 0, !.moved = TRUE, !.got = <<>>] \in Calls
    BY <1>1 DEF Calls
  <1>7. \A left \in Nat : [c EXCEPT !.left = left] \in Calls BY DEF Calls
  <1>8. \A left \in Nat, early \in BOOLEAN : [c EXCEPT !.left = left, !.early = early] \in Calls
    BY DEF Calls
  <1> QED BY <1>2, <1>3, <1>4, <1>5, <1>6, <1>7, <1>8

(* The variables of the driver as numbers.                                 *)
LEMMA Fields ==
  ASSUME TypeOK
  PROVE  /\ rx \in Ring /\ tx \in Ring /\ call \in Calls /\ isr \in Handlers
         /\ rx.in \in 0 .. BUF_LEN - 1 /\ rx.out \in 0 .. BUF_LEN - 1 /\ rx.buf \in [Slot -> Char]
         /\ tx.in \in 0 .. BUF_LEN - 1 /\ tx.out \in 0 .. BUF_LEN - 1 /\ tx.buf \in [Slot -> Char]
         /\ call.n \in Nat /\ call.left \in Nat
         /\ call.in \in 0 .. BUF_LEN - 1 /\ call.out \in 0 .. BUF_LEN - 1
  <1>1. rx \in Ring /\ tx \in Ring /\ call \in Calls /\ isr \in Handlers BY DEF TypeOK
  <1> QED BY <1>1, RingChanged, CallChanged DEF Slot

(* The room in the FIFO is a number.                                       *)
LEMMA WriteFifo ==
  ASSUME TypeOK
  PROVE  /\ wfifo \in Seq(Char) /\ Len(wfifo) \in Nat /\ Len(wfifo) <= DEPTH
         /\ isr.space \in 0 .. DEPTH
  <1>1. wfifo \in Seq(Char) /\ Len(wfifo) <= DEPTH BY DEF TypeOK
  <1>2. Len(wfifo) \in Nat BY <1>1
  <1>3. isr.space \in 0 .. DEPTH BY Fields, HandlerChanged
  <1> QED BY <1>1, <1>2, <1>3

(* An index that a copy moves stays an index.                              *)
LEMMA NextSlot ==
  ASSUME NEW i \in Slot, NEW n \in Nat PROVE (i + n) % BUF_LEN \in Slot
  <1>1. i + n \in Nat BY DEF Slot
  <1> QED BY <1>1, WrapsIntoSlot

(* Every step keeps the rings.                                             *)
LEMMA RingsStep ==
  ASSUME TypeOK, CopiesInside, [Next]_vars PROVE rx' \in Ring /\ tx' \in Ring
  <1> USE JtagUartAssumption
  <1>1. CASE ReadAdvances
    <2>1. rx \in Ring /\ tx \in Ring BY DEF TypeOK
    <2>2. (call.out + call.n) % BUF_LEN \in Slot BY CallChanged, NextSlot DEF TypeOK
    <2> QED BY <1>1, <2>1, <2>2, RingChanged DEF ReadAdvances
  <1>2. CASE WriteCopies
    <2>1. rx \in Ring /\ tx \in Ring BY DEF TypeOK
    <2> DEFINE copied(i) == IF i - call.in \in 0 .. call.n - 1
                            THEN printed + 1 + i - call.in ELSE tx.buf[i]
    <2>2. call.n \in Nat /\ call.left \in Nat /\ call.n <= call.left /\ call.in \in Nat
      BY DEF TypeOK, CopiesInside, Calls, Slot
    <2>3. printed \in Nat /\ printed + call.n <= CHARACTERS
      <3>1. pc \in WritePcs BY <1>2 DEF WriteCopies, Running, WritePcs
      <3> QED BY <2>2, <3>1 DEF TypeOK, Entered
    <2>4. ASSUME NEW i \in Slot PROVE copied(i) \in Char
      <3>1. tx.buf[i] \in Char BY <2>1, RingChanged
      <3>2. i \in Nat BY DEF Slot
      <3> QED BY <2>2, <2>3, <3>1, <3>2 DEF Char
    <2>5. DOMAIN tx.buf = Slot BY <2>1, RingChanged
    <2>6. [i \in DOMAIN tx.buf |-> copied(i)] \in [Slot -> Char] BY <2>4, <2>5
    <2>7. [tx EXCEPT !.buf = [i \in DOMAIN tx.buf |-> copied(i)]] \in Ring
      BY <2>1, <2>6, RingChanged
    <2> HIDE DEF copied
    <2>8. tx' \in Ring /\ rx' = rx BY <1>2, <2>7 DEF WriteCopies, copied
    <2> QED BY <2>1, <2>8
  <1>3. CASE WriteAdvances
    <2>1. rx \in Ring /\ tx \in Ring BY DEF TypeOK
    <2>2. (call.in + call.n) % BUF_LEN \in Slot BY CallChanged, NextSlot DEF TypeOK
    <2> QED BY <1>3, <2>1, <2>2, RingChanged DEF WriteAdvances
  <1>4. CASE IrqReceives
    <2>1. rx \in Ring /\ tx \in Ring BY DEF TypeOK
    <2>2. Head(rfifo) \in Char BY <1>4 DEF IrqReceives, TypeOK
    <2>3. After(rx.in) \in Slot BY <2>1, RingChanged, AfterIsSlot
    <2>4. [rx.buf EXCEPT ![rx.in] = Head(rfifo)] \in [Slot -> Char] BY <2>1, <2>2, RingChanged
    <2>5. [rx EXCEPT !.buf = [rx.buf EXCEPT ![rx.in] = Head(rfifo)], !.in = After(rx.in)] \in Ring
      BY <2>1, <2>3, <2>4, RingChanged
    <2> QED BY <1>4, <2>1, <2>5 DEF IrqReceives
  <1>5. CASE IrqTransmits
    <2>1. rx \in Ring /\ tx \in Ring BY DEF TypeOK
    <2>2. After(tx.out) \in Slot BY <2>1, RingChanged, AfterIsSlot
    <2> QED BY <1>5, <2>1, <2>2, RingChanged DEF IrqTransmits
  <1>6. CASE UNCHANGED <<rx, tx>>
    BY <1>6 DEF TypeOK
  <1>7. ReadAdvances \/ WriteCopies \/ WriteAdvances \/ IrqReceives \/ IrqTransmits \/
    UNCHANGED <<rx, tx>>
    BY DEF Next, Reading, Writing, Handling, Host, vars, device, host, driver, Program,
      Stopped, Return, GiveUp, HostTypes, HostTakes, HostPolls, HostComesOrGoes, Call,
      ReturnFailed, ReadLooks, ReadCopies, ReadEnables, ReadStopsWaiting, ReadChecks,
      WriteLooks, WriteEnables, WriteStopsWaiting, WriteChecks, Close, Interrupt, IrqControl,
      IrqEndsReceiving, IrqEndsTransmitting, Timeout
  <1> QED BY <1>1, <1>2, <1>3, <1>4, <1>5, <1>6, <1>7

(* ... the FIFOs ...                                                       *)
LEMMA FifosStep ==
  ASSUME TypeOK, CopiesInside, [Next]_vars PROVE /\ rfifo' \in Seq(Char) /\ Len(rfifo') <= DEPTH
                                      /\ wfifo' \in Seq(Char) /\ Len(wfifo') <= DEPTH
  <1> USE JtagUartAssumption
  <1>1. CASE HostTypes
    BY <1>1 DEF HostTypes, TypeOK, Entered, Char, Calls
  <1>2. CASE HostTakes
    BY <1>2 DEF HostTakes, TypeOK
  <1>3. CASE IrqReceives
    BY <1>3 DEF IrqReceives, TypeOK, Stopped
  <1>4. CASE IrqTransmits
    BY <1>4 DEF IrqTransmits, TypeOK, Ring, Stopped
  <1>5. CASE UNCHANGED <<rfifo, wfifo>>
    BY <1>5 DEF TypeOK
  <1>6. HostTypes \/ HostTakes \/ IrqReceives \/ IrqTransmits \/ UNCHANGED <<rfifo, wfifo>>
    BY DEF Next, Reading, Writing, Handling, Host, vars, device, host, driver, Program,
      Stopped, Return, GiveUp, HostPolls, HostComesOrGoes, Call, ReturnFailed, ReadLooks,
      ReadCopies, ReadAdvances, ReadEnables, ReadStopsWaiting, ReadChecks, WriteLooks,
      WriteCopies, WriteAdvances, WriteEnables, WriteStopsWaiting, WriteChecks, Close,
      Interrupt, IrqControl, IrqEndsReceiving, IrqEndsTransmitting, Timeout
  <1> QED BY <1>1, <1>2, <1>3, <1>4, <1>5, <1>6

(* ... the variables of the handler ...                                    *)
LEMMA HandlerStep ==
  ASSUME TypeOK, CopiesInside, [Next]_vars PROVE isr' \in Handlers
  <1> USE JtagUartAssumption
  <1>1. CASE Interrupt
    BY <1>1, NoIsrChanged DEF Interrupt
  <1>2. CASE IrqControl
    <2>1. DEPTH - Len(wfifo) \in 0 .. DEPTH BY DEF TypeOK
    <2>2. NoIsr \in Handlers BY DEF NoIsr, Handlers
    <2>3. ReadIrq \in BOOLEAN /\ WriteIrq \in BOOLEAN BY DEF ReadIrq, WriteIrq, TypeOK
    <2> QED BY <1>2, <2>1, <2>2, <2>3 DEF IrqControl, Handlers
  <1>3. CASE IrqReceives
    <2>1. isr \in Handlers BY DEF TypeOK
    <2>2. (Len(rfifo) > 1) \in BOOLEAN OBVIOUS
    <2> QED BY <1>3, <2>1, <2>2, HandlerChanged DEF IrqReceives
  <1>4. CASE IrqEndsReceiving
    <2>1. isr \in Handlers BY DEF TypeOK
    <2> QED BY <1>4, <2>1, HandlerChanged DEF IrqEndsReceiving
  <1>5. CASE IrqTransmits
    <2>1. isr \in Handlers BY DEF TypeOK
    <2>2. isr.space \in 0 .. DEPTH /\ isr.space > 0 BY <1>5, <2>1, HandlerChanged DEF IrqTransmits
    <2>3. isr.space - 1 \in 0 .. DEPTH BY <2>2
    <2> QED BY <1>5, <2>1, <2>3, HandlerChanged DEF IrqTransmits
  <1>6. CASE IrqEndsTransmitting
    BY <1>6, NoIsrChanged DEF IrqEndsTransmitting
  <1>7. CASE UNCHANGED isr
    BY <1>7 DEF TypeOK
  <1>8. Interrupt \/ IrqControl \/ IrqReceives \/ IrqEndsReceiving \/ IrqTransmits \/
    IrqEndsTransmitting \/ UNCHANGED isr
    BY DEF Next, Reading, Writing, Handling, Host, vars, device, host, driver, Program,
      Stopped, Return, GiveUp, HostTypes, HostTakes, HostPolls, HostComesOrGoes, Call,
      ReturnFailed, ReadLooks, ReadCopies, ReadAdvances, ReadEnables, ReadStopsWaiting,
      ReadChecks, WriteLooks, WriteCopies, WriteAdvances, WriteEnables, WriteStopsWaiting,
      WriteChecks, Close, Timeout
  <1> QED BY <1>1, <1>2, <1>3, <1>4, <1>5, <1>6, <1>7, <1>8

(* No call, as a call.                                                     *)
LEMMA NoCallIsCall == NoCall \in Calls
  <1>1. 0 \in Slot /\ <<>> \in Seq(Char) BY JtagUartAssumption DEF Slot
  <1> QED BY <1>1 DEF NoCall, Calls

(* ... the variables of the call ...                                       *)
LEMMA CallStep ==
  ASSUME TypeOK, CopiesInside, [Next]_vars PROVE call' \in Calls
  <1> USE JtagUartAssumption
  <1>1. CASE Call
    <2>1. \A left \in Nat, early \in BOOLEAN :
             /\ [NoCall EXCEPT !.left = left] \in Calls
             /\ [NoCall EXCEPT !.left = left, !.early = early] \in Calls
      BY NoCallIsCall, CallChanged
    <2>2. ReadSizes \subseteq Nat /\ WriteSizes \subseteq Nat OBVIOUS
    <2>3. CASE \E space \in ReadSizes : call' = [NoCall EXCEPT !.left = space]
      BY <2>1, <2>2, <2>3
    <2>4. CASE \E count \in WriteSizes, early \in BOOLEAN :
                 call' = [NoCall EXCEPT !.left = count, !.early = early]
      <3>1. PICK count \in WriteSizes, early \in BOOLEAN :
                   call' = [NoCall EXCEPT !.left = count, !.early = early]
        BY <2>4
      <3> QED BY <2>1, <2>2, <3>1
    <2>5. CASE call' = NoCall BY <2>5, NoCallIsCall
    <2> QED BY <1>1, <2>3, <2>4, <2>5 DEF Call
  <1>2. CASE ReturnFailed
    BY <1>2, NoCallIsCall DEF ReturnFailed, Return
  <1>3. CASE ReadLooks
    <2>1. call \in Calls /\ rx \in Ring /\ tx \in Ring BY DEF TypeOK
    <2>2. /\ IF rx.in >= rx.out THEN rx.in - rx.out \in Nat ELSE BUF_LEN - rx.out \in Nat
          /\ call.left \in Nat
      BY Fields
    <2>3. Least(IF rx.in >= rx.out THEN rx.in - rx.out ELSE BUF_LEN - rx.out, call.left) \in Nat
      BY <2>2 DEF Least
    <2> QED BY <1>3, <2>1, <2>3, RingChanged, CallChanged DEF ReadLooks
  <1>4. CASE ReadCopies
    <2>1. call \in Calls /\ rx \in Ring /\ tx \in Ring BY DEF TypeOK
    <2>2. pc = "read_copy" BY <1>4 DEF ReadCopies, Running
    <2>3. \A k \in 1 .. call.n : call.out + k - 1 \in Slot
      BY <2>2, Fields DEF CopiesInside, Slot
    <2>4. \A k \in 1 .. call.n : rx.buf[call.out + k - 1] \in Char BY <2>1, <2>3, RingChanged
    <2>5. [k \in 1 .. call.n |-> rx.buf[call.out + k - 1]] \in Seq(Char)
      BY <2>4, Fields
    <2> QED BY <1>4, <2>1, <2>5, CallChanged DEF ReadCopies
  <1>5. CASE ReadAdvances
    <2>1. call \in Calls /\ rx \in Ring /\ tx \in Ring BY DEF TypeOK
    <2>2. call.left - call.n \in Nat BY Fields DEF CopiesInside
    <2> QED BY <1>5, <2>1, <2>2, CallChanged DEF ReadAdvances
  <1>6. CASE ReadEnables
    BY <1>6, NoCallIsCall DEF ReadEnables, Return
  <1>7. CASE ReadChecks
    BY <1>7 DEF ReadChecks, GiveUp, TypeOK
  <1>8. CASE WriteLooks
    <2>1. call \in Calls /\ rx \in Ring /\ tx \in Ring BY DEF TypeOK
    <2> DEFINE room == CASE tx.in < tx.out -> tx.out - 1 - tx.in
                         [] tx.in >= tx.out /\ tx.out > 0 -> BUF_LEN - tx.in
                         [] OTHER -> BUF_LEN - 1 - tx.in
    <2>2. room \in Nat /\ call.left \in Nat BY Fields
    <2>3. Least(room, call.left) \in Nat BY <2>2 DEF Least
    <2> HIDE DEF room
    <2>4. [call EXCEPT !.in = tx.in, !.out = tx.out, !.n = Least(room, call.left)] \in Calls
      BY <2>1, <2>3, RingChanged, CallChanged
    <2> QED BY <1>8, <2>1, <2>4 DEF WriteLooks, room
  <1>9. CASE WriteAdvances
    <2>1. call \in Calls /\ rx \in Ring /\ tx \in Ring BY DEF TypeOK
    <2>2. call.left - call.n \in Nat BY Fields DEF CopiesInside
    <2> QED BY <1>9, <2>1, <2>2, CallChanged DEF WriteAdvances
  <1>10. CASE WriteEnables
    BY <1>10, NoCallIsCall DEF WriteEnables, Return, TypeOK
  <1>11. CASE WriteChecks
    BY <1>11 DEF WriteChecks, GiveUp, TypeOK
  <1>12. CASE UNCHANGED call
    BY <1>12 DEF TypeOK
  <1>13. Call \/ ReturnFailed \/ ReadLooks \/ ReadCopies \/ ReadAdvances \/ ReadEnables \/
    ReadChecks \/ WriteLooks \/ WriteAdvances \/ WriteEnables \/ WriteChecks \/ UNCHANGED call
    BY DEF Next, Reading, Writing, Handling, Host, vars, device, host, driver, Program,
      Stopped, Return, GiveUp, HostTypes, HostTakes, HostPolls, HostComesOrGoes,
      ReadStopsWaiting, WriteCopies, WriteStopsWaiting, Close, Interrupt, IrqControl,
      IrqReceives, IrqEndsReceiving, IrqTransmits, IrqEndsTransmitting, Timeout
  <1> QED BY <1>1, <1>2, <1>3, <1>4, <1>5, <1>6, <1>7, <1>8, <1>9, <1>10, <1>11, <1>12, <1>13

(* ... the place in the program ...                                        *)
LEMMA PlaceStep ==
  ASSUME TypeOK, CopiesInside, [Next]_vars PROVE pc' \in Places
  <1> USE JtagUartAssumption
  <1>1. CASE Call
    BY <1>1 DEF Call, Return, GiveUp, Places, ReadPcs, WritePcs
  <1>2. CASE ReturnFailed
    BY <1>2 DEF ReturnFailed, Return, GiveUp, Places, ReadPcs, WritePcs
  <1>3. CASE ReadLooks
    BY <1>3 DEF ReadLooks, Places, ReadPcs, WritePcs
  <1>4. CASE ReadCopies
    BY <1>4 DEF ReadCopies, Return, GiveUp, Places, ReadPcs, WritePcs
  <1>5. CASE ReadAdvances
    BY <1>5 DEF ReadAdvances, Return, GiveUp, Places, ReadPcs, WritePcs
  <1>6. CASE ReadEnables
    BY <1>6 DEF ReadEnables, Return, GiveUp, Places, ReadPcs, WritePcs
  <1>7. CASE ReadStopsWaiting
    BY <1>7 DEF ReadStopsWaiting, Return, GiveUp, Places, ReadPcs, WritePcs
  <1>8. CASE ReadChecks
    BY <1>8 DEF ReadChecks, Return, GiveUp, Places, ReadPcs, WritePcs
  <1>9. CASE WriteLooks
    BY <1>9 DEF WriteLooks, Places, ReadPcs, WritePcs
  <1>10. CASE WriteCopies
    BY <1>10 DEF WriteCopies, Return, GiveUp, Places, ReadPcs, WritePcs
  <1>11. CASE WriteAdvances
    BY <1>11 DEF WriteAdvances, Return, GiveUp, Places, ReadPcs, WritePcs
  <1>12. CASE WriteEnables
    BY <1>12 DEF WriteEnables, Return, GiveUp, Places, ReadPcs, WritePcs
  <1>13. CASE WriteStopsWaiting
    BY <1>13 DEF WriteStopsWaiting, Return, GiveUp, Places, ReadPcs, WritePcs
  <1>14. CASE WriteChecks
    BY <1>14 DEF WriteChecks, Return, GiveUp, Places, ReadPcs, WritePcs
  <1>15. CASE Close
    BY <1>15 DEF Close, Return, GiveUp, Places, ReadPcs, WritePcs
  <1>16. CASE UNCHANGED pc
    BY <1>16 DEF TypeOK, Places
  <1>17. Call \/ ReturnFailed \/ ReadLooks \/ ReadCopies \/ ReadAdvances \/ ReadEnables \/
    ReadStopsWaiting \/ ReadChecks \/ WriteLooks \/ WriteCopies \/ WriteAdvances \/
    WriteEnables \/ WriteStopsWaiting \/ WriteChecks \/ Close \/ UNCHANGED pc
    BY DEF Next, Reading, Writing, Handling, Host, vars, device, host, driver, Program,
      Stopped, history, Return, GiveUp, HostTypes, HostTakes, HostPolls, HostComesOrGoes,
      Interrupt, IrqControl, IrqReceives, IrqEndsReceiving, IrqTransmits, IrqEndsTransmitting,
      Timeout
  <1> QED BY <1>1, <1>2, <1>3, <1>4, <1>5, <1>6, <1>7, <1>8, <1>9, <1>10, <1>11, <1>12, <1>13,
     <1>14, <1>15, <1>16, <1>17

(* ... and the number of characters within its bound.                      *)
LEMMA CountStep ==
  ASSUME TypeOK, CopiesInside, [Next]_vars
  PROVE  typed' \in Nat /\ printed' \in Nat /\ Entered' <= CHARACTERS
  <1> USE JtagUartAssumption
  <1>1. CASE HostTypes
    <2>1. typed \in Nat /\ printed \in Nat /\ Entered \in Nat /\ Entered <= CHARACTERS
      BY Fields DEF TypeOK, Entered
    <2>2. typed' = typed + 1 /\ printed' = printed /\ pc' = pc /\ call' = call /\ Entered < CHARACTERS
      BY <1>1 DEF HostTypes
    <2>3. CASE pc \in WritePcs BY <2>1, <2>2, <2>3, Fields DEF Entered
    <2>4. CASE pc \notin WritePcs BY <2>1, <2>2, <2>4, Fields DEF Entered
    <2> QED BY <2>3, <2>4
  <1>2. CASE Call
    <2>1. typed \in Nat /\ printed \in Nat /\ Entered \in Nat /\ Entered <= CHARACTERS
      BY Fields DEF TypeOK, Entered
    <2>2. pc = "idle" /\ typed' = typed /\ printed' = printed
      BY <1>2 DEF Call, Running, Program, host
    <2>3. CASE pc' # "write"
      <3>1. pc' \notin WritePcs BY <1>2, <2>3 DEF Call, WritePcs
      <3> QED BY <2>1, <2>2, <3>1, Fields DEF Entered
    <2>4. CASE pc' = "write"
      <3>1. PICK count \in WriteSizes, early \in BOOLEAN :
               /\ Entered + count <= CHARACTERS
               /\ call' = [NoCall EXCEPT !.left = count, !.early = early]
        BY <1>2, <2>4 DEF Call
      <3>2. call'.left = count BY <3>1 DEF NoCall
      <3>3. pc \notin WritePcs /\ pc' \in WritePcs BY <2>2, <2>4 DEF WritePcs
      <3>4. Entered = typed + printed /\ Entered' = typed' + printed' + call'.left
        BY <2>1, <3>3 DEF Entered
      <3> QED BY <2>1, <2>2, <3>1, <3>2, <3>4
    <2> QED BY <2>3, <2>4
  <1>3. CASE ReturnFailed
    BY <1>3, Fields DEF ReturnFailed, Running, Entered, WritePcs, Program, TypeOK, host,
       Return, NoCall, GiveUp
  <1>4. CASE ReadLooks
    BY <1>4, Fields DEF ReadLooks, Running, Entered, WritePcs, Program, TypeOK, host, Return,
       NoCall, GiveUp
  <1>5. CASE ReadCopies
    BY <1>5, Fields DEF ReadCopies, Running, Entered, WritePcs, Program, TypeOK, host, Return,
       NoCall, GiveUp
  <1>6. CASE ReadAdvances
    BY <1>6, Fields DEF ReadAdvances, Running, Entered, WritePcs, Program, TypeOK, host,
       Return, NoCall, GiveUp
  <1>7. CASE ReadEnables
    BY <1>7, Fields DEF ReadEnables, Running, Entered, WritePcs, Program, TypeOK, host, Return,
       NoCall, GiveUp
  <1>8. CASE ReadStopsWaiting
    BY <1>8, Fields DEF ReadStopsWaiting, Running, Entered, WritePcs, Program, TypeOK, host,
       Return, NoCall, GiveUp
  <1>9. CASE ReadChecks
    BY <1>9, Fields DEF ReadChecks, Running, Entered, WritePcs, Program, TypeOK, host, Return,
       NoCall, GiveUp
  <1>10. CASE WriteLooks
    <2>1. typed \in Nat /\ printed \in Nat /\ Entered \in Nat /\ Entered <= CHARACTERS
      BY Fields DEF TypeOK, Entered
    <2>2. pc \in WritePcs /\ pc' \in WritePcs /\ typed' = typed /\ printed' = printed
      BY <1>10 DEF WriteLooks, Running, Program, host, WritePcs
    <2>3. call'.left = call.left BY <1>10, Fields DEF WriteLooks, Calls
    <2> QED BY <2>1, <2>2, <2>3 DEF Entered
  <1>11. CASE WriteCopies
    BY <1>11, Fields DEF WriteCopies, Running, Entered, WritePcs, Program, TypeOK, host,
       Return, NoCall, GiveUp
  <1>12. CASE WriteAdvances
    <2>1. typed \in Nat /\ printed \in Nat /\ Entered \in Nat /\ Entered <= CHARACTERS
      BY Fields DEF TypeOK, Entered
    <2>2. pc \in WritePcs /\ pc' \in WritePcs /\ typed' = typed /\ printed' = printed + call.n
      BY <1>12 DEF WriteAdvances, Running, Program, host, WritePcs
    <2>3. call'.left = call.left - call.n BY <1>12, Fields DEF WriteAdvances, Calls
    <2> QED BY <2>1, <2>2, <2>3, Fields DEF Entered
  <1>13. CASE WriteEnables
    BY <1>13, Fields DEF WriteEnables, Running, Entered, WritePcs, Program, TypeOK, host,
       Return, NoCall, GiveUp
  <1>14. CASE WriteStopsWaiting
    BY <1>14, Fields DEF WriteStopsWaiting, Running, Entered, WritePcs, Program, TypeOK, host,
       Return, NoCall, GiveUp
  <1>15. CASE WriteChecks
    BY <1>15, Fields DEF WriteChecks, Running, Entered, WritePcs, Program, TypeOK, host,
       Return, NoCall, GiveUp
  <1>16. CASE Close
    BY <1>16, Fields DEF Close, Running, Entered, WritePcs, Program, TypeOK, host, Return,
       NoCall, GiveUp
  <1>17. CASE UNCHANGED <<typed, printed, pc, call>>
    BY <1>17 DEF TypeOK, Entered
  <1>18. HostTypes \/ Call \/ ReturnFailed \/ ReadLooks \/ ReadCopies \/ ReadAdvances \/
    ReadEnables \/ ReadStopsWaiting \/ ReadChecks \/ WriteLooks \/ WriteCopies \/ WriteAdvances
    \/ WriteEnables \/ WriteStopsWaiting \/ WriteChecks \/ Close \/ UNCHANGED <<typed, printed,
    pc, call>>
    BY DEF Next, Reading, Writing, Handling, Host, vars, device, host, driver, Program,
      Stopped, history, Return, GiveUp, HostTakes, HostPolls, HostComesOrGoes, Interrupt,
      IrqControl, IrqReceives, IrqEndsReceiving, IrqTransmits, IrqEndsTransmitting, Timeout
  <1> QED BY <1>1, <1>2, <1>3, <1>4, <1>5, <1>6, <1>7, <1>8, <1>9, <1>10, <1>11, <1>12, <1>13,
     <1>14, <1>15, <1>16, <1>17, <1>18

(* The flags of the device, and what is enabled.                           *)
LEMMA FlagsStep ==
  ASSUME TypeOK, [Next]_vars PROVE /\ irq_enable' \subseteq {"RE", "WE"}
                                /\ pause_irq' \in BOOLEAN /\ ac' \in BOOLEAN /\ connected' \in BOOLEAN
  <1> USE JtagUartAssumption
  <1>1. CASE HostTypes
    BY <1>1 DEF HostTypes, TypeOK
  <1>2. CASE HostPolls
    BY <1>2 DEF HostPolls, TypeOK, host
  <1>3. CASE HostComesOrGoes
    BY <1>3 DEF HostComesOrGoes, TypeOK, device
  <1>4. CASE ReadEnables
    BY <1>4 DEF ReadEnables, TypeOK, Program, device, host
  <1>5. CASE WriteEnables
    BY <1>5 DEF WriteEnables, TypeOK, Program, device, host
  <1>6. CASE IrqReceives
    BY <1>6 DEF IrqReceives, TypeOK, Stopped, host
  <1>7. CASE IrqEndsReceiving
    BY <1>7 DEF IrqEndsReceiving, TypeOK, Stopped, host
  <1>8. CASE IrqEndsTransmitting
    BY <1>8 DEF IrqEndsTransmitting, TypeOK, Stopped, host, device
  <1>9. CASE Timeout
    BY <1>9 DEF Timeout, TypeOK, host
  <1>10. CASE UNCHANGED <<irq_enable, pause_irq, ac, connected>>
    BY <1>10 DEF TypeOK
  <1>11. HostTypes \/ HostPolls \/ HostComesOrGoes \/ ReadEnables \/ WriteEnables \/
    IrqReceives \/ IrqEndsReceiving \/ IrqEndsTransmitting \/ Timeout \/ UNCHANGED
    <<irq_enable, pause_irq, ac, connected>>
    BY DEF Next, Reading, Writing, Handling, Host, vars, device, host, driver, Program,
      Stopped, history, Return, GiveUp, HostTakes, Call, ReturnFailed, ReadLooks, ReadCopies,
      ReadAdvances, ReadStopsWaiting, ReadChecks, WriteLooks, WriteCopies, WriteAdvances,
      WriteStopsWaiting, WriteChecks, Close, Interrupt, IrqControl, IrqTransmits
  <1> QED BY <1>1, <1>2, <1>3, <1>4, <1>5, <1>6, <1>7, <1>8, <1>9, <1>10, <1>11

(* The clocks.                                                             *)
LEMMA ClocksStep ==
  ASSUME TypeOK, [Next]_vars PROVE /\ host_inactive' \in 0 .. INT_MAX - 2
                                /\ quiet' \in 0 .. TIMEOUT /\ longest' \in 0 .. TIMEOUT
  <1> USE JtagUartAssumption
  <1>1. CASE ReturnFailed
    BY <1>1 DEF ReturnFailed, TypeOK, Program
  <1>2. CASE ReadStopsWaiting
    BY <1>2 DEF ReadStopsWaiting, TypeOK, Program
  <1>3. CASE ReadChecks
    BY <1>3 DEF ReadChecks, TypeOK, Program
  <1>4. CASE WriteStopsWaiting
    BY <1>4 DEF WriteStopsWaiting, TypeOK, Program
  <1>5. CASE WriteChecks
    BY <1>5 DEF WriteChecks, TypeOK, Program
  <1>6. CASE Close
    BY <1>6 DEF Close, TypeOK, Program
  <1>7. CASE Timeout
    BY <1>7 DEF Timeout, TypeOK, Least
  <1>8. CASE UNCHANGED <<host_inactive, quiet, longest>>
    BY <1>8 DEF TypeOK
  <1>9. ReturnFailed \/ ReadStopsWaiting \/ ReadChecks \/ WriteStopsWaiting \/ WriteChecks \/
    Close \/ Timeout \/ UNCHANGED <<host_inactive, quiet, longest>>
    BY DEF Next, Reading, Writing, Handling, Host, vars, device, host, driver, Program,
      Stopped, history, Return, GiveUp, HostTypes, HostTakes, HostPolls, HostComesOrGoes, Call,
      ReadLooks, ReadCopies, ReadAdvances, ReadEnables, WriteLooks, WriteCopies, WriteAdvances,
      WriteEnables, Interrupt, IrqControl, IrqReceives, IrqEndsReceiving, IrqTransmits,
      IrqEndsTransmitting
  <1> QED BY <1>1, <1>2, <1>3, <1>4, <1>5, <1>6, <1>7, <1>8, <1>9

(* All types together.                                                     *)
LEMMA TypeStep == ASSUME TypeOK, CopiesInside, [Next]_vars PROVE TypeOK'
  BY RingsStep, FifosStep, HandlerStep, CallStep, PlaceStep, CountStep, FlagsStep, ClocksStep
     DEF TypeOK, Places

(* The look of read and that of write find a run of slots that ends in the ring.*)
LEMMA CopiesStep ==
  ASSUME TypeOK, CopiesInside, [Next]_vars PROVE CopiesInside'
  <1> USE JtagUartAssumption
  <1>1. CASE Call
    <2>1. pc' \in {"read", "write", "close"} BY <1>1 DEF Call
    <2>2. call'.n = 0 /\ call'.left \in Nat
      <3>1. CASE pc' = "read"
        <4>1. PICK space \in ReadSizes : call' = [NoCall EXCEPT !.left = space] BY <1>1, <3>1 DEF Call
        <4> QED BY <4>1 DEF NoCall
      <3>2. CASE pc' = "write"
        <4>1. PICK count \in WriteSizes, early \in BOOLEAN :
                 call' = [NoCall EXCEPT !.left = count, !.early = early]
          BY <1>1, <3>2 DEF Call
        <4> QED BY <4>1 DEF NoCall
      <3>3. CASE pc' = "close" BY <1>1, <3>3 DEF Call, NoCall
      <3> QED BY <2>1, <3>1, <3>2, <3>3
    <2> QED BY <2>1, <2>2 DEF CopiesInside
  <1>2. CASE ReturnFailed
    BY <1>2, Fields DEF ReturnFailed, CopiesInside, Running, Return, NoCall, GiveUp
  <1>3. CASE ReadLooks
    <2> DEFINE available == IF rx.in >= rx.out THEN rx.in - rx.out ELSE BUF_LEN - rx.out
    <2>1. available \in Nat /\ rx.out + available <= BUF_LEN BY Fields
    <2> HIDE DEF available
    <2>2. /\ Least(available, call.left) <= available /\ Least(available, call.left) <= call.left
          /\ Least(available, call.left) \in Nat
      BY <2>1, Fields DEF Least
    <2>3. /\ call'.n = Least(available, call.left) /\ call'.left = call.left /\ call'.out = rx.out
          /\ pc' \in {"read_copy", "read_enable", "read_wait"}
      BY <1>3, Fields DEF ReadLooks, Calls, available
    <2> QED BY <2>1, <2>2, <2>3, Fields DEF CopiesInside
  <1>4. CASE ReadCopies
    BY <1>4, Fields DEF ReadCopies, CopiesInside, Running, Return, NoCall, GiveUp
  <1>5. CASE ReadAdvances
    BY <1>5, Fields DEF ReadAdvances, CopiesInside, Running, Return, NoCall, GiveUp
  <1>6. CASE ReadEnables
    BY <1>6, Fields DEF ReadEnables, CopiesInside, Running, Return, NoCall, GiveUp
  <1>7. CASE ReadStopsWaiting
    BY <1>7, Fields DEF ReadStopsWaiting, CopiesInside, Running, Return, NoCall, GiveUp
  <1>8. CASE ReadChecks
    BY <1>8, Fields DEF ReadChecks, CopiesInside, Running, Return, NoCall, GiveUp
  <1>9. CASE WriteLooks
    <2> DEFINE room == CASE tx.in < tx.out -> tx.out - 1 - tx.in
                         [] tx.in >= tx.out /\ tx.out > 0 -> BUF_LEN - tx.in
                         [] OTHER -> BUF_LEN - 1 - tx.in
    <2>1. room \in Nat /\ tx.in + room <= BUF_LEN BY Fields
    <2> HIDE DEF room
    <2>2. /\ Least(room, call.left) <= room /\ Least(room, call.left) <= call.left
          /\ Least(room, call.left) \in Nat
      BY <2>1, Fields DEF Least
    <2>3. CASE call.left = 0 BY <1>9, <2>3 DEF WriteLooks, CopiesInside
    <2>4. CASE call.left # 0
      <3>1. /\ call'.n = Least(room, call.left) /\ call'.left = call.left /\ call'.in = tx.in
            /\ pc' \in {"write_copy", "write_enable"}
        BY <1>9, <2>4, Fields DEF WriteLooks, Calls, room
      <3> QED BY <2>1, <2>2, <3>1, Fields DEF CopiesInside
    <2> QED BY <2>3, <2>4
  <1>10. CASE WriteCopies
    BY <1>10, Fields DEF WriteCopies, CopiesInside, Running, Return, NoCall, GiveUp
  <1>11. CASE WriteAdvances
    BY <1>11, Fields DEF WriteAdvances, CopiesInside, Running, Return, NoCall, GiveUp
  <1>12. CASE WriteEnables
    BY <1>12, Fields DEF WriteEnables, CopiesInside, Running, Return, NoCall, GiveUp
  <1>13. CASE WriteStopsWaiting
    BY <1>13, Fields DEF WriteStopsWaiting, CopiesInside, Running, Return, NoCall, GiveUp
  <1>14. CASE WriteChecks
    BY <1>14, Fields DEF WriteChecks, CopiesInside, Running, Return, NoCall, GiveUp
  <1>15. CASE Close
    BY <1>15, Fields DEF Close, CopiesInside, Running, Return, NoCall, GiveUp
  <1>16. CASE UNCHANGED <<pc, call>>
    BY <1>16 DEF CopiesInside
  <1>17. Call \/ ReturnFailed \/ ReadLooks \/ ReadCopies \/ ReadAdvances \/ ReadEnables \/
    ReadStopsWaiting \/ ReadChecks \/ WriteLooks \/ WriteCopies \/ WriteAdvances \/
    WriteEnables \/ WriteStopsWaiting \/ WriteChecks \/ Close \/ UNCHANGED <<pc, call>>
    BY DEF Next, Reading, Writing, Handling, Host, vars, device, host, driver, Program,
      Stopped, history, Return, GiveUp, HostTypes, HostTakes, HostPolls, HostComesOrGoes,
      Interrupt, IrqControl, IrqReceives, IrqEndsReceiving, IrqTransmits, IrqEndsTransmitting,
      Timeout
  <1> QED BY <1>1, <1>2, <1>3, <1>4, <1>5, <1>6, <1>7, <1>8, <1>9, <1>10, <1>11, <1>12, <1>13,
     <1>14, <1>15, <1>16, <1>17

(* No step switches reception off with room in the ring and no read under way. *)
LEMMA ReceptionStep ==
  ASSUME TypeOK, ReceptionResumes, [Next]_vars PROVE ReceptionResumes'
  <1>1. CASE Call
    BY <1>1 DEF Call, ReceptionResumes, Running, Return, NoCall, GiveUp, Full
  <1>2. CASE ReturnFailed
    BY <1>2 DEF ReturnFailed, ReceptionResumes, Running, Return, NoCall, GiveUp, Full
  <1>3. CASE ReadLooks
    <2>1. call'.moved = call.moved BY <1>3, Fields DEF ReadLooks, Calls
    <2>2. pc = "read" /\ pc' \in {"read_copy", "read_enable", "read_wait"} /\ UNCHANGED <<irq_enable, rx>>
          /\ (call.moved => pc' # "read_wait")
      <3> DEFINE available == IF rx.in >= rx.out THEN rx.in - rx.out ELSE BUF_LEN - rx.out
      <3>1. available \in Nat BY Fields, JtagUartAssumption
      <3> HIDE DEF available
      <3>2. pc' = CASE available > 0 -> "read_copy"
                    [] available = 0 /\ call.moved -> "read_enable"
                    [] OTHER -> "read_wait"
        BY <1>3 DEF ReadLooks, available
      <3>3. available > 0 \/ available = 0 BY <3>1
      <3>4. pc' \in {"read_copy", "read_enable", "read_wait"} /\ (call.moved => pc' # "read_wait")
        BY <3>1, <3>2, <3>3
      <3> QED BY <1>3, <3>4 DEF ReadLooks, Running
    <2> QED BY <2>1, <2>2 DEF ReceptionResumes, Full
  <1>4. CASE ReadCopies
    BY <1>4 DEF ReadCopies, ReceptionResumes, Running, Return, NoCall, GiveUp, Full
  <1>5. CASE ReadAdvances
    BY <1>5 DEF ReadAdvances, ReceptionResumes, Running, Return, NoCall, GiveUp, Full
  <1>6. CASE ReadEnables
    BY <1>6 DEF ReadEnables, ReceptionResumes, Running, Return, NoCall, GiveUp, Full
  <1>7. CASE ReadStopsWaiting
    BY <1>7 DEF ReadStopsWaiting, ReceptionResumes, Running, Return, NoCall, GiveUp, Full
  <1>8. CASE ReadChecks
    BY <1>8 DEF ReadChecks, ReceptionResumes, Running, Return, NoCall, GiveUp, Full
  <1>9. CASE WriteLooks
    BY <1>9 DEF WriteLooks, ReceptionResumes, Running, Return, NoCall, GiveUp, Full
  <1>10. CASE WriteCopies
    BY <1>10 DEF WriteCopies, ReceptionResumes, Running, Return, NoCall, GiveUp, Full
  <1>11. CASE WriteAdvances
    BY <1>11 DEF WriteAdvances, ReceptionResumes, Running, Return, NoCall, GiveUp, Full
  <1>12. CASE WriteEnables
    BY <1>12 DEF WriteEnables, ReceptionResumes, Running, Return, NoCall, GiveUp, Full
  <1>13. CASE WriteStopsWaiting
    BY <1>13 DEF WriteStopsWaiting, ReceptionResumes, Running, Return, NoCall, GiveUp, Full
  <1>14. CASE WriteChecks
    BY <1>14 DEF WriteChecks, ReceptionResumes, Running, Return, NoCall, GiveUp, Full
  <1>15. CASE Close
    BY <1>15 DEF Close, ReceptionResumes, Running, Return, NoCall, GiveUp, Full
  <1>16. CASE IrqReceives
    <2>1. ~Full(rx) /\ UNCHANGED <<irq_enable, pc, call>> BY <1>16 DEF IrqReceives, Stopped
    <2> QED BY <2>1 DEF ReceptionResumes
  <1>17. CASE IrqEndsReceiving
    <2>1. UNCHANGED <<rx, pc, call>> BY <1>17 DEF IrqEndsReceiving, Stopped
    <2>2. CASE Full(rx) BY <2>1, <2>2 DEF ReceptionResumes, Full
    <2>3. CASE ~Full(rx) BY <1>17, <2>1, <2>3 DEF IrqEndsReceiving, ReceptionResumes, Full
    <2> QED BY <2>2, <2>3
  <1>18. CASE IrqEndsTransmitting
    <2>1. /\ UNCHANGED <<rx, pc, call>>
          /\ "RE" \in irq_enable => "RE" \in irq_enable'
      BY <1>18 DEF IrqEndsTransmitting, Stopped
    <2> QED BY <2>1 DEF ReceptionResumes, Full
  <1>19. CASE UNCHANGED <<irq_enable, rx, pc, call>>
    BY <1>19 DEF ReceptionResumes, Full
  <1>20. Call \/ ReturnFailed \/ ReadLooks \/ ReadCopies \/ ReadAdvances \/ ReadEnables \/
    ReadStopsWaiting \/ ReadChecks \/ WriteLooks \/ WriteCopies \/ WriteAdvances \/
    WriteEnables \/ WriteStopsWaiting \/ WriteChecks \/ Close \/ IrqReceives \/
    IrqEndsReceiving \/ IrqEndsTransmitting \/ UNCHANGED <<irq_enable, rx, pc, call>>
    BY DEF Next, Reading, Writing, Handling, Host, vars, device, host, driver, Program,
      Stopped, history, Return, GiveUp, HostTypes, HostTakes, HostPolls, HostComesOrGoes,
      Interrupt, IrqControl, IrqTransmits, Timeout
  <1> QED BY <1>1, <1>2, <1>3, <1>4, <1>5, <1>6, <1>7, <1>8, <1>9, <1>10, <1>11, <1>12, <1>13,
     <1>14, <1>15, <1>16, <1>17, <1>18, <1>19, <1>20

(* No step switches transmission off before the ring is empty.             *)
LEMMA TransmissionStep ==
  ASSUME TypeOK, TransmissionResumes, [Next]_vars PROVE TransmissionResumes'
  <1>1. CASE Call
    BY <1>1 DEF Call, TransmissionResumes, Running, Return, GiveUp
  <1>2. CASE ReturnFailed
    BY <1>2 DEF ReturnFailed, TransmissionResumes, Running, Return, GiveUp
  <1>3. CASE ReadLooks
    BY <1>3 DEF ReadLooks, TransmissionResumes, Running, Return, GiveUp
  <1>4. CASE ReadCopies
    BY <1>4 DEF ReadCopies, TransmissionResumes, Running, Return, GiveUp
  <1>5. CASE ReadAdvances
    BY <1>5 DEF ReadAdvances, TransmissionResumes, Running, Return, GiveUp
  <1>6. CASE ReadEnables
    BY <1>6 DEF ReadEnables, TransmissionResumes, Running, Return, GiveUp
  <1>7. CASE ReadStopsWaiting
    BY <1>7 DEF ReadStopsWaiting, TransmissionResumes, Running, Return, GiveUp
  <1>8. CASE ReadChecks
    BY <1>8 DEF ReadChecks, TransmissionResumes, Running, Return, GiveUp
  <1>9. CASE WriteLooks
    BY <1>9 DEF WriteLooks, TransmissionResumes, Running, Return, GiveUp
  <1>10. CASE WriteCopies
    BY <1>10 DEF WriteCopies, TransmissionResumes, Running, Return, GiveUp
  <1>11. CASE WriteAdvances
    BY <1>11 DEF WriteAdvances, TransmissionResumes, Running, Return, GiveUp
  <1>12. CASE WriteEnables
    BY <1>12 DEF WriteEnables, TransmissionResumes, Running, Return, GiveUp
  <1>13. CASE WriteStopsWaiting
    BY <1>13 DEF WriteStopsWaiting, TransmissionResumes, Running, Return, GiveUp
  <1>14. CASE WriteChecks
    BY <1>14 DEF WriteChecks, TransmissionResumes, Running, Return, GiveUp
  <1>15. CASE Close
    BY <1>15 DEF Close, TransmissionResumes, Running, Return, GiveUp
  <1>16. CASE IrqEndsReceiving
    <2>1. /\ UNCHANGED <<tx, pc>>
          /\ "WE" \in irq_enable => "WE" \in irq_enable'
      BY <1>16 DEF IrqEndsReceiving, Stopped
    <2> QED BY <2>1 DEF TransmissionResumes
  <1>17. CASE IrqTransmits
    <2>1. tx.out # tx.in /\ UNCHANGED <<irq_enable, pc>> BY <1>17 DEF IrqTransmits, Stopped
    <2> QED BY <2>1 DEF TransmissionResumes
  <1>18. CASE IrqEndsTransmitting
    <2>1. UNCHANGED <<tx, pc>> BY <1>18 DEF IrqEndsTransmitting, Stopped
    <2>2. CASE tx.out = tx.in BY <2>1, <2>2 DEF TransmissionResumes
    <2>3. CASE tx.out # tx.in
      <3>1. isr.space = 0 BY <1>18, <2>3 DEF IrqEndsTransmitting
      <3> QED BY <1>18, <2>1, <3>1 DEF IrqEndsTransmitting, TransmissionResumes
    <2> QED BY <2>2, <2>3
  <1>19. CASE UNCHANGED <<irq_enable, tx, pc>>
    BY <1>19 DEF TransmissionResumes
  <1>20. Call \/ ReturnFailed \/ ReadLooks \/ ReadCopies \/ ReadAdvances \/ ReadEnables \/
    ReadStopsWaiting \/ ReadChecks \/ WriteLooks \/ WriteCopies \/ WriteAdvances \/
    WriteEnables \/ WriteStopsWaiting \/ WriteChecks \/ Close \/ IrqEndsReceiving \/
    IrqTransmits \/ IrqEndsTransmitting \/ UNCHANGED <<irq_enable, tx, pc>>
    BY DEF Next, Reading, Writing, Handling, Host, vars, device, host, driver, Program,
      Stopped, history, Return, GiveUp, HostTypes, HostTakes, HostPolls, HostComesOrGoes,
      Interrupt, IrqControl, IrqReceives, Timeout
  <1> QED BY <1>1, <1>2, <1>3, <1>4, <1>5, <1>6, <1>7, <1>8, <1>9, <1>10, <1>11, <1>12, <1>13,
     <1>14, <1>15, <1>16, <1>17, <1>18, <1>19, <1>20

(* Only the handler takes room from the FIFO.                              *)
LEMMA RoomStep ==
  ASSUME TypeOK, RoomIsReal, [Next]_vars PROVE RoomIsReal'
  <1> USE JtagUartAssumption
  <1>1. CASE HostTakes
    <2>1. Len(wfifo) \in Nat /\ Len(wfifo) <= DEPTH /\ isr.space \in 0 .. DEPTH BY WriteFifo
    <2>2. isr' = isr /\ Len(wfifo') = Len(wfifo) - 1 BY <1>1, WriteFifo DEF HostTakes
    <2> QED BY <2>1, <2>2 DEF RoomIsReal
  <1>2. CASE Interrupt
    <2>1. Len(wfifo) \in Nat /\ Len(wfifo) <= DEPTH /\ isr.space \in 0 .. DEPTH BY WriteFifo
    <2>2. isr'.space = 0 /\ wfifo' = wfifo BY <1>2 DEF Interrupt, NoIsr, device
    <2> QED BY <2>1, <2>2 DEF RoomIsReal
  <1>3. CASE IrqControl
    <2>1. Len(wfifo) \in Nat /\ Len(wfifo) <= DEPTH /\ isr.space \in 0 .. DEPTH BY WriteFifo
    <2>2. isr'.space \in {0, DEPTH - Len(wfifo)} /\ wfifo' = wfifo BY <1>3 DEF IrqControl, NoIsr, device
    <2> QED BY <2>1, <2>2 DEF RoomIsReal
  <1>4. CASE IrqReceives
    BY <1>4, Fields DEF IrqReceives, RoomIsReal, TypeOK
  <1>5. CASE IrqEndsReceiving
    BY <1>5, Fields DEF IrqEndsReceiving, RoomIsReal, TypeOK
  <1>6. CASE IrqTransmits
    <2>1. Len(wfifo) \in Nat /\ Len(wfifo) <= DEPTH /\ isr.space \in 0 .. DEPTH BY WriteFifo
    <2>2. isr'.space = isr.space - 1 BY <1>6, Fields DEF IrqTransmits, Handlers
    <2>3. CASE Len(wfifo) < DEPTH
      <3>1. wfifo' = Append(wfifo, tx.buf[tx.out]) BY <1>6, <2>3 DEF IrqTransmits
      <3>2. tx.buf[tx.out] \in Char BY Fields DEF Slot
      <3>3. Len(wfifo') = Len(wfifo) + 1 BY <3>1, <3>2, WriteFifo
      <3> QED BY <2>1, <2>2, <3>3 DEF RoomIsReal
    <2>4. CASE ~(Len(wfifo) < DEPTH)
      BY <1>6, <2>1, <2>2, <2>4 DEF IrqTransmits, RoomIsReal
    <2> QED BY <2>3, <2>4
  <1>7. CASE IrqEndsTransmitting
    <2>1. Len(wfifo) \in Nat /\ Len(wfifo) <= DEPTH /\ isr.space \in 0 .. DEPTH BY WriteFifo
    <2>2. isr'.space = 0 /\ wfifo' = wfifo BY <1>7 DEF IrqEndsTransmitting, NoIsr, device
    <2> QED BY <2>1, <2>2 DEF RoomIsReal
  <1>8. CASE UNCHANGED <<isr, wfifo>>
    BY <1>8 DEF RoomIsReal
  <1>9. HostTakes \/ Interrupt \/ IrqControl \/ IrqReceives \/ IrqEndsReceiving \/ IrqTransmits
    \/ IrqEndsTransmitting \/ UNCHANGED <<isr, wfifo>>
    BY DEF Next, Reading, Writing, Handling, Host, vars, device, host, driver, Program,
      Stopped, history, Return, GiveUp, HostTypes, HostPolls, HostComesOrGoes, Call,
      ReturnFailed, ReadLooks, ReadCopies, ReadAdvances, ReadEnables, ReadStopsWaiting,
      ReadChecks, WriteLooks, WriteCopies, WriteAdvances, WriteEnables, WriteStopsWaiting,
      WriteChecks, Close, Timeout
  <1> QED BY <1>1, <1>2, <1>3, <1>4, <1>5, <1>6, <1>7, <1>8, <1>9

(***************************************************************************)
(* Together they are inductive.                                            *)
(***************************************************************************)
DriverInv == TypeOK /\ CopiesInside /\ ReceptionResumes /\ TransmissionResumes /\ RoomIsReal

(* For all sizes of rings and FIFOs the driver keeps its indices, counts   *)
(* and flags in their types (init.c, read.c, write.c).                     *)
THEOREM Invariant == Spec => []DriverInv
  <1>1. Init => DriverInv
    BY InitHolds, JtagUartAssumption
    DEF DriverInv, Init, ReceptionResumes, TransmissionResumes, RoomIsReal, NoIsr
  <1>2. DriverInv /\ [Next]_vars => DriverInv'
    BY TypeStep, CopiesStep, ReceptionStep, TransmissionStep, RoomStep DEF DriverInv
  <1> QED BY <1>1, <1>2, PTL DEF Spec

THEOREM TypeCorrect == Spec => []TypeOK
  BY Invariant, PTL DEF DriverInv

(* What a call or the handler has read of the other side stays good until  *)
(* it is used: memcpy stays inside the rings and the caller's buffer, and  *)
(* the FIFO drops nothing.                                                 *)
THEOREM LooksAreGood == Spec => []LooksStayGood
  BY Invariant, PTL DEF DriverInv, LooksStayGood

(* Neither direction is left switched off with something to do: the        *)
(* handler in init.c against the ends of read and of write.                *)
THEOREM NeitherDirectionIsLost == Spec => []NeitherStaysOff
  BY Invariant, PTL DEF DriverInv, NeitherStaysOff

(***************************************************************************)
(* The rings as sequences.                                                 *)
(***************************************************************************)
Held(ring) == (ring.in + BUF_LEN - ring.out) % BUF_LEN

LEMMA WrapsOnce ==
  ASSUME NEW i \in 0 .. 2 * BUF_LEN - 1
  PROVE  i % BUF_LEN = IF i < BUF_LEN THEN i ELSE i - BUF_LEN
<1> USE JtagUartAssumption
<1>1. CASE i < BUF_LEN
  BY <1>1
<1>2. CASE i >= BUF_LEN
  BY <1>2
<1> QED BY <1>1, <1>2

(* An index that moves on by less than a round, and the distance of two.   *)
LEMMA MovesOn ==
  ASSUME NEW i \in 0 .. BUF_LEN - 1, NEW n \in 0 .. BUF_LEN
  PROVE  (i + n) % BUF_LEN = IF i + n < BUF_LEN THEN i + n ELSE (i + n) - BUF_LEN
<1> DEFINE m == i + n
<1>1. m \in 0 .. 2 * BUF_LEN - 1
  BY JtagUartAssumption
<1> HIDE DEF m
<1>2. m % BUF_LEN = IF m < BUF_LEN THEN m ELSE m - BUF_LEN
  BY <1>1, WrapsOnce
<1> QED BY <1>2, Zenon DEF m

LEMMA Distance ==
  ASSUME NEW i \in 0 .. BUF_LEN - 1, NEW j \in 0 .. BUF_LEN - 1
  PROVE  (i + BUF_LEN - j) % BUF_LEN = IF i >= j THEN i - j ELSE i + BUF_LEN - j
<1> DEFINE m == i + BUF_LEN - j
<1>1. m \in 0 .. 2 * BUF_LEN - 1
  BY JtagUartAssumption
<1>2. m < BUF_LEN <=> ~(i >= j)
  BY JtagUartAssumption
<1>3. m - BUF_LEN = i - j
  BY JtagUartAssumption
<1> HIDE DEF m
<1>4. m % BUF_LEN = IF m < BUF_LEN THEN m ELSE m - BUF_LEN
  BY <1>1, WrapsOnce
<1>5. m % BUF_LEN = IF i >= j THEN i - j ELSE m
  BY <1>2, <1>3, <1>4
<1> QED BY <1>5 DEF m

LEMMA HeldCases ==
  ASSUME NEW r \in Ring
  PROVE  /\ r.in \in 0 .. BUF_LEN - 1 /\ r.out \in 0 .. BUF_LEN - 1 /\ BUF_LEN \in Nat
         /\ Held(r) = IF r.in >= r.out THEN r.in - r.out ELSE r.in + BUF_LEN - r.out
         /\ Held(r) \in 0 .. BUF_LEN - 1
<1>1. r.in \in 0 .. BUF_LEN - 1 /\ r.out \in 0 .. BUF_LEN - 1 /\ BUF_LEN \in Nat
  BY RingChanged, JtagUartAssumption DEF Slot
<1>2. Held(r) = IF r.in >= r.out THEN r.in - r.out ELSE r.in + BUF_LEN - r.out
  BY <1>1, Distance DEF Held
<1>3. Held(r) \in 0 .. BUF_LEN - 1
  BY <1>1, <1>2
<1> QED BY <1>1, <1>2, <1>3

(* The k-th character of a ring is in the k-th slot from its out.          *)
SlotOf(ring, k) == IF ring.out + k - 1 < BUF_LEN THEN ring.out + k - 1
                   ELSE ring.out + k - 1 - BUF_LEN

LEMMA ContentsAre ==
  ASSUME NEW r \in Ring
  PROVE  /\ Contents(r) = [k \in 1 .. Held(r) |-> r.buf[SlotOf(r, k)]]
         /\ \A k \in 1 .. Held(r) : SlotOf(r, k) \in Slot
         /\ Contents(r) \in Seq(Char) /\ Len(Contents(r)) = Held(r)
<1>1. ASSUME NEW k \in 1 .. Held(r)
      PROVE  (r.out + k - 1) % BUF_LEN = SlotOf(r, k) /\ SlotOf(r, k) \in Slot
  <2>1. r.out + k - 1 \in 0 .. 2 * BUF_LEN - 1
    BY HeldCases
  <2> QED BY <2>1, HeldCases, WrapsOnce DEF SlotOf, Slot
<1>2. Contents(r) = [k \in 1 .. Held(r) |-> r.buf[SlotOf(r, k)]]
  BY <1>1 DEF Contents, Held
<1>3. \A k \in 1 .. Held(r) : r.buf[SlotOf(r, k)] \in Char
  BY <1>1, RingChanged
<1>4. Held(r) \in Nat
  BY HeldCases
<1>5. [k \in 1 .. Held(r) |-> r.buf[SlotOf(r, k)]] \in Seq(Char)
  BY <1>3, <1>4
<1>6. Len([k \in 1 .. Held(r) |-> r.buf[SlotOf(r, k)]]) = Held(r)
  BY <1>4
<1> QED BY <1>1, <1>2, <1>5, <1>6

(* n characters are taken from a ring without passing its end.             *)
LEMMA TakenFrom ==
  ASSUME NEW r \in Ring, NEW n \in 0 .. Held(r), NEW s \in Ring,
         s.buf = r.buf, s.in = r.in, s.out = (r.out + n) % BUF_LEN
  PROVE  /\ Held(s) = Held(r) - n
         /\ Contents(s) = SubSeq(Contents(r), n + 1, Held(r))
<1>1. s.out = IF r.out + n < BUF_LEN THEN r.out + n ELSE (r.out + n) - BUF_LEN
  <2>1. r.out \in 0 .. BUF_LEN - 1 /\ n \in 0 .. BUF_LEN
    BY HeldCases
  <2> QED BY <2>1, MovesOn
<1>2. Held(s) = Held(r) - n
  <2>1. /\ r.in \in Int /\ r.out \in Int /\ BUF_LEN \in Nat /\ n \in Int
        /\ r.in \in 0 .. BUF_LEN - 1 /\ r.out \in 0 .. BUF_LEN - 1
        /\ Held(r) = IF r.in >= r.out THEN r.in - r.out ELSE r.in + BUF_LEN - r.out
    BY HeldCases
  <2>2. Held(s) = IF s.in >= s.out THEN s.in - s.out ELSE s.in + BUF_LEN - s.out
    BY HeldCases
  <2>3. n <= Held(r) /\ n >= 0
    BY HeldCases
  <2> QED BY <1>1, <2>1, <2>2, <2>3
<1>3. ASSUME NEW k \in 1 .. Held(s)
      PROVE  SlotOf(s, k) = SlotOf(r, k + n) /\ k + n \in 1 .. Held(r)
  BY <1>1, <1>2, HeldCases DEF SlotOf
<1>4. Contents(s) = [k \in 1 .. Held(r) - n |-> Contents(r)[k + n]]
  BY <1>2, <1>3, ContentsAre
<1>5. SubSeq(Contents(r), n + 1, Held(r)) = [k \in 1 .. Held(r) - n |-> Contents(r)[k + n]]
  <2>1. Contents(r) \in Seq(Char) /\ Len(Contents(r)) = Held(r) /\ Held(r) \in Nat /\ n \in Nat
    BY ContentsAre, HeldCases
  <2> QED BY <2>1
<1> QED BY <1>2, <1>4, <1>5

(* n characters are put into a ring that has room for them.                *)
LEMMA PutInto ==
  ASSUME NEW r \in Ring, NEW n \in Nat, Held(r) + n < BUF_LEN, NEW s \in Ring,
         s.out = r.out, s.in = (r.in + n) % BUF_LEN,
         \A k \in 1 .. Held(r) : s.buf[SlotOf(r, k)] = r.buf[SlotOf(r, k)]
  PROVE  /\ Held(s) = Held(r) + n
         /\ Contents(s) = Contents(r) \o [k \in 1 .. n |-> s.buf[SlotOf(r, Held(r) + k)]]
<1>1. s.in = IF r.in + n < BUF_LEN THEN r.in + n ELSE (r.in + n) - BUF_LEN
  <2>1. r.in \in 0 .. BUF_LEN - 1 /\ n \in 0 .. BUF_LEN
    BY HeldCases
  <2> QED BY <2>1, MovesOn
<1>2. Held(s) = Held(r) + n
  <2>1. /\ r.in \in Int /\ r.out \in Int /\ BUF_LEN \in Nat /\ n \in Int
        /\ r.in \in 0 .. BUF_LEN - 1 /\ r.out \in 0 .. BUF_LEN - 1
        /\ Held(r) = IF r.in >= r.out THEN r.in - r.out ELSE r.in + BUF_LEN - r.out
    BY HeldCases
  <2>2. Held(s) = IF s.in >= s.out THEN s.in - s.out ELSE s.in + BUF_LEN - s.out
    BY HeldCases
  <2>3. s.in \in 0 .. BUF_LEN - 1 /\ s.out = r.out
    BY HeldCases
  <2>4. CASE r.in + n < BUF_LEN
    BY <1>1, <2>1, <2>2, <2>3, <2>4
  <2>5. CASE ~(r.in + n < BUF_LEN)
    BY <1>1, <2>1, <2>2, <2>3, <2>5
  <2> QED BY <2>4, <2>5
<1>3. \A k : SlotOf(s, k) = SlotOf(r, k)
  BY DEF SlotOf
<1> DEFINE new == [k \in 1 .. n |-> s.buf[SlotOf(r, Held(r) + k)]]
<1>4. Contents(s) \in Seq(Char) /\ Len(Contents(s)) = Held(r) + n /\ Held(r) \in Nat
  BY <1>2, ContentsAre, HeldCases
<1>5. \A k \in 1 .. Held(r) + n : Contents(s)[k] = s.buf[SlotOf(r, k)]
  BY <1>2, <1>3, ContentsAre
<1>6. Contents(r) \in Seq(Char) /\ Len(Contents(r)) = Held(r)
  BY ContentsAre
<1>7. new \in Seq(Char) /\ Len(new) = n
  <2>1. ASSUME NEW k \in 1 .. n PROVE s.buf[SlotOf(r, Held(r) + k)] \in Char
    <3>1. Held(r) + k \in 1 .. Held(s)
      BY <1>2, HeldCases
    <3> QED BY <1>3, <3>1, ContentsAre, RingChanged
  <2> QED BY <2>1
<1>8. \A k \in 1 .. Held(r) : Contents(r)[k] = s.buf[SlotOf(r, k)]
  BY ContentsAre
<1>9. \A k \in 1 .. n : new[k] = s.buf[SlotOf(r, Held(r) + k)]
  OBVIOUS
<1> HIDE DEF new
<1>10. /\ Contents(r) \o new \in Seq(Char) /\ Len(Contents(r) \o new) = Held(r) + n
       /\ \A k \in 1 .. Held(r) + n : (Contents(r) \o new)[k] =
            IF k <= Held(r) THEN Contents(r)[k] ELSE new[k - Held(r)]
  <2>1. /\ Contents(r) \o new \in Seq(Char)
        /\ Len(Contents(r) \o new) = Len(Contents(r)) + Len(new)
        /\ \A k \in 1 .. Len(Contents(r)) + Len(new) : (Contents(r) \o new)[k] =
             IF k <= Len(Contents(r)) THEN Contents(r)[k] ELSE new[k - Len(Contents(r))]
    BY <1>6, <1>7, ConcatProperties
  <2> QED BY <1>6, <1>7, <2>1
<1>11. ASSUME NEW k \in 1 .. Held(r) + n
       PROVE  (Contents(r) \o new)[k] = Contents(s)[k]
  <2>1. CASE k <= Held(r)
    <3>1. k \in 1 .. Held(r)
      BY <1>4, <2>1
    <3>2. Contents(r)[k] = Contents(s)[k]
      BY <1>5, <1>8, <3>1
    <3> QED BY <1>10, <2>1, <3>2
  <2>2. CASE ~(k <= Held(r))
    <3>1. k - Held(r) \in 1 .. n /\ Held(r) + (k - Held(r)) = k
      BY <1>4, <2>2
    <3>2. new[k - Held(r)] = s.buf[SlotOf(r, k)]
      BY <1>9, <3>1
    <3> QED BY <1>5, <1>10, <2>2, <3>2
  <2> QED BY <2>1, <2>2
<1>12. Contents(s) = Contents(r) \o new
  BY <1>4, <1>10, <1>11, SeqEqual
<1> QED BY <1>2, <1>12 DEF new

(* Sequences that are joined elsewhere.                                    *)
LEMMA MovedAcross ==
  ASSUME NEW S, NEW s \in Seq(S), NEW t \in Seq(S), t # <<>>
  PROVE  /\ Append(s, Head(t)) \o Tail(t) = s \o t
         /\ Head(t) \in S /\ Tail(t) \in Seq(S) /\ Head(t) = t[1]
         /\ Tail(t) = SubSeq(t, 2, Len(t)) /\ Len(t) \in Nat \ {0}
<1>1. Head(t) \in S /\ Tail(t) \in Seq(S) /\ Len(Tail(t)) = Len(t) - 1 /\ Head(t) = t[1]
      /\ \A i \in 1 .. Len(Tail(t)) : Tail(t)[i] = t[i + 1]
  BY HeadTailProperties
<1>2. Len(t) \in Nat \ {0} /\ Len(s) \in Nat /\ Tail(t) = SubSeq(t, 2, Len(t))
  BY EmptySeq, LenProperties, TailIsSubSeq
<1>3. /\ Append(s, Head(t)) \in Seq(S) /\ Len(Append(s, Head(t))) = Len(s) + 1
      /\ \A i \in 1 .. Len(s) : Append(s, Head(t))[i] = s[i]
      /\ Append(s, Head(t))[Len(s) + 1] = t[1]
  BY <1>1, AppendProperties
<1> DEFINE a == Append(s, Head(t))
           b == Tail(t)
<1> HIDE DEF a, b
<1>4. /\ a \o b \in Seq(S) /\ Len(a \o b) = Len(s) + Len(t)
      /\ \A i \in 1 .. Len(s) + Len(t) : (a \o b)[i] =
            IF i <= Len(s) + 1 THEN a[i] ELSE b[i - (Len(s) + 1)]
  <2>1. a \in Seq(S) /\ b \in Seq(S) /\ Len(a) = Len(s) + 1 /\ Len(b) = Len(t) - 1
    BY <1>1, <1>3 DEF a, b
  <2>2. Len(a) + Len(b) = Len(s) + Len(t)
    BY <1>2, <2>1
  <2>3. /\ a \o b \in Seq(S) /\ Len(a \o b) = Len(a) + Len(b)
        /\ \A i \in 1 .. Len(a) + Len(b) : (a \o b)[i] =
             IF i <= Len(a) THEN a[i] ELSE b[i - Len(a)]
    BY <2>1, ConcatProperties
  <2> QED BY <2>1, <2>2, <2>3
<1>5. /\ s \o t \in Seq(S) /\ Len(s \o t) = Len(s) + Len(t)
      /\ \A i \in 1 .. Len(s) + Len(t) : (s \o t)[i] = IF i <= Len(s) THEN s[i] ELSE t[i - Len(s)]
  BY ConcatProperties
<1>6. ASSUME NEW i \in 1 .. Len(s) + Len(t) PROVE (a \o b)[i] = (s \o t)[i]
  <2>1. CASE i <= Len(s)
    <3>1. i \in 1 .. Len(s) BY <1>2, <2>1
    <3>2. a[i] = s[i] BY <1>3, <3>1 DEF a
    <3> QED BY <1>2, <1>4, <1>5, <2>1, <3>2
  <2>2. CASE i = Len(s) + 1
    <3>1. a[i] = t[1] BY <1>3, <2>2 DEF a
    <3>2. ~(i <= Len(s)) /\ i - Len(s) = 1 BY <1>2, <2>2
    <3> QED BY <1>2, <1>4, <1>5, <2>2, <3>1, <3>2
  <2>3. CASE i > Len(s) + 1
    <3>1. i - (Len(s) + 1) \in 1 .. Len(t) - 1 /\ (i - (Len(s) + 1)) + 1 = i - Len(s)
      BY <1>2, <2>3
    <3>2. b[i - (Len(s) + 1)] = t[i - Len(s)] BY <1>1, <3>1 DEF b
    <3>3. ~(i <= Len(s)) /\ ~(i <= Len(s) + 1)
      BY <1>2, <2>3
    <3>4. (a \o b)[i] = b[i - (Len(s) + 1)]
      BY <1>4, <3>3
    <3>5. (s \o t)[i] = t[i - Len(s)]
      BY <1>5, <3>3
    <3> QED BY <3>2, <3>4, <3>5
  <2>4. i <= Len(s) \/ i = Len(s) + 1 \/ i > Len(s) + 1
    BY <1>2
  <2> QED BY <2>1, <2>2, <2>3, <2>4, Zenon
<1>7. a \o b = s \o t
  BY <1>4, <1>5, <1>6, SeqEqual
<1> QED BY <1>1, <1>2, <1>7 DEF a, b

(* What is left of a sequence behind its first n, and what follows it.     *)
LEMMA LeftBehind ==
  ASSUME NEW S, NEW s \in Seq(S), NEW t \in Seq(S), NEW n \in 0 .. Len(s)
  PROVE  SubSeq(s, n + 1, Len(s)) \o t = SubSeq(s \o t, n + 1, Len(s \o t))
<1>1. Len(s) \in Nat /\ Len(t) \in Nat /\ s \o t \in Seq(S) /\ Len(s \o t) = Len(s) + Len(t)
      /\ \A i \in 1 .. Len(s) + Len(t) : (s \o t)[i] = IF i <= Len(s) THEN s[i] ELSE t[i - Len(s)]
  BY ConcatProperties, LenProperties
<1> DEFINE a == SubSeq(s, n + 1, Len(s))
           b == SubSeq(s \o t, n + 1, Len(s) + Len(t))
<1>2. /\ a \in Seq(S) /\ Len(a) = Len(s) - n
      /\ \A i \in 1 .. Len(s) - n : a[i] = s[i + n]
  BY <1>1
<1>3. /\ b \in Seq(S) /\ Len(b) = (Len(s) - n) + Len(t)
      /\ \A i \in 1 .. (Len(s) - n) + Len(t) : b[i] = (s \o t)[i + n]
  <2> DEFINE st == s \o t
  <2>1. st \in Seq(S) /\ Len(st) = Len(s) + Len(t)
    BY <1>1
  <2> HIDE DEF st
  <2>2. /\ SubSeq(st, n + 1, Len(s) + Len(t)) \in Seq(S)
        /\ Len(SubSeq(st, n + 1, Len(s) + Len(t))) = (Len(s) - n) + Len(t)
        /\ \A i \in 1 .. (Len(s) - n) + Len(t) : SubSeq(st, n + 1, Len(s) + Len(t))[i] = st[i + n]
    BY <1>1, <2>1
  <2> QED BY <2>2 DEF st
<1> HIDE DEF a, b
<1>4. /\ a \o t \in Seq(S) /\ Len(a \o t) = (Len(s) - n) + Len(t)
      /\ \A i \in 1 .. (Len(s) - n) + Len(t) : (a \o t)[i] =
            IF i <= Len(s) - n THEN a[i] ELSE t[i - (Len(s) - n)]
  <2>1. Len(a) + Len(t) = (Len(s) - n) + Len(t)
    BY <1>2
  <2>2. /\ a \o t \in Seq(S) /\ Len(a \o t) = Len(a) + Len(t)
        /\ \A i \in 1 .. Len(a) + Len(t) : (a \o t)[i] = IF i <= Len(a) THEN a[i] ELSE t[i - Len(a)]
    BY <1>2, ConcatProperties
  <2> QED BY <1>2, <2>1, <2>2
<1>5. ASSUME NEW i \in 1 .. (Len(s) - n) + Len(t) PROVE (a \o t)[i] = b[i]
  <2>1. CASE i <= Len(s) - n
    <3>1. i \in 1 .. Len(s) - n /\ i + n \in 1 .. Len(s) + Len(t) /\ i + n <= Len(s)
      BY <1>1, <2>1
    <3> QED BY <1>1, <1>2, <1>3, <1>4, <2>1, <3>1
  <2>2. CASE ~(i <= Len(s) - n)
    <3>1. i + n \in 1 .. Len(s) + Len(t) /\ ~(i + n <= Len(s))
          /\ (i + n) - Len(s) = i - (Len(s) - n)
      BY <1>1, <2>2
    <3> QED BY <1>1, <1>3, <1>4, <2>2, <3>1
  <2> QED BY <2>1, <2>2
<1>6. a \o t = b
  BY <1>3, <1>4, <1>5, SeqEqual
<1> QED BY <1>1, <1>6 DEF a, b

(* A sequence that grows at its end.                                       *)
LEMMA GrowsBehind ==
  ASSUME NEW S, NEW s \in Seq(S), NEW e \in S, NEW n \in 0 .. Len(s)
  PROVE  SubSeq(Append(s, e), n + 1, Len(Append(s, e))) = Append(SubSeq(s, n + 1, Len(s)), e)
<1>1. <<e>> \in Seq(S) /\ Append(s, e) = s \o <<e>>
  BY AppendIsConcat
<1>2. SubSeq(s, n + 1, Len(s)) \o <<e>> = SubSeq(s \o <<e>>, n + 1, Len(s \o <<e>>))
  BY <1>1, LeftBehind
<1>3. SubSeq(s, n + 1, Len(s)) \in Seq(S)
  OBVIOUS
<1> QED BY <1>1, <1>2, <1>3, AppendIsConcat

(* The first n of a sequence that is continued.                            *)
LEMMA InFront ==
  ASSUME NEW S, NEW s \in Seq(S), NEW t \in Seq(S), NEW n \in 0 .. Len(s)
  PROVE  SubSeq(s \o t, 1, n) = [k \in 1 .. n |-> s[k]]
<1>1. Len(s) \in Nat /\ Len(t) \in Nat /\ s \o t \in Seq(S) /\ Len(s \o t) = Len(s) + Len(t)
      /\ \A i \in 1 .. Len(s) + Len(t) : (s \o t)[i] = IF i <= Len(s) THEN s[i] ELSE t[i - Len(s)]
  BY ConcatProperties, LenProperties
<1> DEFINE st == s \o t
<1>2. SubSeq(st, 1, n) = [k \in 1 .. n |-> st[k]]
  <2>1. st \in Seq(S) /\ n <= Len(st) /\ Len(st) \in Nat
    BY <1>1
  <2> HIDE DEF st
  <2> QED BY <2>1
<1>3. \A k \in 1 .. n : st[k] = s[k]
  BY <1>1
<1> HIDE DEF st
<1>4. SubSeq(st, 1, n) = [k \in 1 .. n |-> s[k]]
  BY <1>2, <1>3
<1> QED BY <1>4 DEF st

(***************************************************************************)
(* What the calls remember of the rings.                                   *)
(***************************************************************************)
LookInv ==
  /\ pc \in {"read_copy", "read_advance"} => call.out = rx.out /\ call.n <= Held(rx)
  /\ pc \in {"write_copy", "write_advance"} => call.in = tx.in /\ Held(tx) + call.n < BUF_LEN
  /\ pc = "write_advance" => \A i \in 0 .. call.n - 1 : tx.buf[call.in + i] = (printed + 1) + i

(* The n slots behind those in use, where a ring has room without wrapping.*)
LEMMA FreeSlots ==
  ASSUME NEW r \in Ring, NEW n \in Nat, Held(r) + n < BUF_LEN, r.in + n <= BUF_LEN
  PROVE  /\ \A k \in 1 .. n : SlotOf(r, Held(r) + k) = r.in + (k - 1)
         /\ \A k \in 1 .. Held(r) : SlotOf(r, k) - r.in \notin 0 .. n - 1
<1>1. /\ r.in \in 0 .. BUF_LEN - 1 /\ r.out \in 0 .. BUF_LEN - 1 /\ BUF_LEN \in Nat
      /\ Held(r) = IF r.in >= r.out THEN r.in - r.out ELSE r.in + BUF_LEN - r.out
  BY HeldCases
<1>2. CASE r.in >= r.out
  BY <1>1, <1>2 DEF SlotOf
<1>3. CASE ~(r.in >= r.out)
  BY <1>1, <1>3 DEF SlotOf
<1> QED BY <1>2, <1>3

(* A ring that is not full has room for one more character, after its in.  *)
LEMMA NotFull ==
  ASSUME NEW r \in Ring, ~Full(r)
  PROVE  Held(r) + 1 < BUF_LEN /\ After(r.in) = (r.in + 1) % BUF_LEN
<1>1. /\ r.in \in 0 .. BUF_LEN - 1 /\ r.out \in 0 .. BUF_LEN - 1 /\ BUF_LEN \in Nat
      /\ Held(r) = IF r.in >= r.out THEN r.in - r.out ELSE r.in + BUF_LEN - r.out
  BY HeldCases
<1>2. (r.in + 1) % BUF_LEN = IF r.in + 1 < BUF_LEN THEN r.in + 1 ELSE (r.in + 1) - BUF_LEN
  <2>1. 1 \in 0 .. BUF_LEN
    BY JtagUartAssumption
  <2> QED BY <1>1, <2>1, MovesOn
<1>3. (r.in + 1) % BUF_LEN # r.out /\ After(r.in) = (r.in + 1) % BUF_LEN
  BY DEF Full, After
<1> QED BY <1>1, <1>2, <1>3

(* The handler moves a character from the FIFO to the end of a ring, ...   *)
LEMMA Received ==
  ASSUME TypeOK, IrqReceives
  PROVE  /\ Held(rx') = Held(rx) + 1 /\ rx'.out = rx.out
         /\ Contents(rx') = Append(Contents(rx), Head(rfifo))
         /\ Incoming' = Incoming
<1>1. rx \in Ring /\ rfifo \in Seq(Char) /\ rfifo # <<>> /\ ~Full(rx)
      /\ rx.in \in Slot /\ rx.buf \in [Slot -> Char]
  BY RingChanged DEF TypeOK, IrqReceives
<1>2. rx' = [rx EXCEPT !.buf = [rx.buf EXCEPT ![rx.in] = Head(rfifo)], !.in = After(rx.in)]
      /\ rfifo' = Tail(rfifo)
  BY DEF IrqReceives
<1>3. Head(rfifo) \in Char /\ After(rx.in) \in Slot
  BY <1>1, AfterIsSlot, HeadTailProperties
<1>4. rx' \in Ring
  BY <1>1, <1>2, <1>3, RingChanged
<1>5. rx'.out = rx.out /\ rx'.in = After(rx.in) /\ rx'.buf = [rx.buf EXCEPT ![rx.in] = Head(rfifo)]
  BY <1>1, <1>2 DEF Ring
<1>6. Held(rx) + 1 < BUF_LEN /\ After(rx.in) = (rx.in + 1) % BUF_LEN /\ Held(rx) \in Nat
      /\ rx.in + 1 <= BUF_LEN
  BY <1>1, NotFull, HeldCases
<1>7. SlotOf(rx, Held(rx) + 1) = rx.in /\ \A k \in 1 .. Held(rx) : SlotOf(rx, k) # rx.in
  <2>1. 1 \in Nat /\ 1 \in 1 .. 1 /\ 0 \in 0 .. 1 - 1 /\ rx.in \in Int /\ rx.in + (1 - 1) = rx.in
    BY <1>1, HeldCases
  <2>2. /\ \A k \in 1 .. 1 : SlotOf(rx, Held(rx) + k) = rx.in + (k - 1)
        /\ \A k \in 1 .. Held(rx) : SlotOf(rx, k) - rx.in \notin 0 .. 1 - 1
    BY <1>1, <1>6, <2>1, FreeSlots
  <2>3. ASSUME NEW k \in 1 .. Held(rx), SlotOf(rx, k) = rx.in PROVE FALSE
    BY <2>1, <2>2, <2>3
  <2> QED BY <2>1, <2>2, <2>3
<1>8. \A k \in 1 .. Held(rx) : rx'.buf[SlotOf(rx, k)] = rx.buf[SlotOf(rx, k)]
  BY <1>1, <1>5, <1>7, ContentsAre
<1>9. rx'.buf[rx.in] = Head(rfifo)
  BY <1>1, <1>5
<1>10. /\ Held(rx') = Held(rx) + 1
       /\ Contents(rx') = Contents(rx) \o [k \in 1 .. 1 |-> rx'.buf[SlotOf(rx, Held(rx) + k)]]
  <2>1. 1 \in Nat /\ rx'.in = (rx.in + 1) % BUF_LEN /\ rx'.out = rx.out
    BY <1>5, <1>6
  <2> QED BY <1>1, <1>4, <1>6, <1>8, <2>1, PutInto, Zenon
<1>11. [k \in 1 .. 1 |-> rx'.buf[SlotOf(rx, Held(rx) + k)]] = <<Head(rfifo)>>
  BY <1>7, <1>9
<1>12. Contents(rx') = Append(Contents(rx), Head(rfifo))
  BY <1>1, <1>3, <1>10, <1>11, ContentsAre, AppendIsConcat
<1>13. Incoming' = Append(Contents(rx), Head(rfifo)) \o Tail(rfifo)
  BY <1>2, <1>12 DEF Incoming, Contents
<1>14. Append(Contents(rx), Head(rfifo)) \o Tail(rfifo) = Contents(rx) \o rfifo
  BY <1>1, ContentsAre, MovedAcross
<1> QED BY <1>5, <1>10, <1>12, <1>13, <1>14, Zenon DEF Incoming

(* ... and from the front of a ring to the FIFO.                           *)
LEMMA Transmitted ==
  ASSUME TypeOK, RoomIsReal, IrqTransmits
  PROVE  /\ Held(tx') = Held(tx) - 1 /\ tx'.in = tx.in /\ tx'.buf = tx.buf
         /\ Outgoing' = Outgoing
<1>1. tx \in Ring /\ tx.out \in Slot /\ tx.in # tx.out /\ wfifo \in Seq(Char)
  BY RingChanged DEF TypeOK, IrqTransmits
<1>2. Len(wfifo) < DEPTH
  BY WriteFifo, JtagUartAssumption DEF IrqTransmits, RoomIsReal
<1>3. tx' = [tx EXCEPT !.out = After(tx.out)] /\ wfifo' = Append(wfifo, tx.buf[tx.out])
  BY <1>2 DEF IrqTransmits
<1>4. tx' \in Ring /\ tx'.in = tx.in /\ tx'.buf = tx.buf /\ tx'.out = (tx.out + 1) % BUF_LEN
  <2>1. After(tx.out) \in Slot
    BY <1>1, AfterIsSlot
  <2>2. tx' \in Ring
    BY <1>1, <1>3, <2>1, RingChanged
  <2> QED BY <1>1, <1>3, <2>2 DEF Ring, After
<1>5. 1 \in 0 .. Held(tx) /\ Held(tx) \in Nat
  BY <1>1, HeldCases
<1>6. Held(tx') = Held(tx) - 1 /\ Contents(tx') = SubSeq(Contents(tx), 1 + 1, Held(tx))
  BY <1>1, <1>4, <1>5, TakenFrom
<1>7. /\ Contents(tx) \in Seq(Char) /\ Len(Contents(tx)) = Held(tx) /\ Contents(tx) # <<>>
      /\ Contents(tx)[1] = tx.buf[tx.out]
  <2>1. SlotOf(tx, 1) = tx.out
    BY <1>1, HeldCases DEF SlotOf
  <2>2. /\ Contents(tx) \in Seq(Char) /\ Len(Contents(tx)) = Held(tx)
        /\ Contents(tx)[1] = tx.buf[SlotOf(tx, 1)]
    BY <1>1, <1>5, ContentsAre
  <2>3. Contents(tx) # <<>>
    BY <1>5, <2>2, EmptySeq
  <2> QED BY <2>1, <2>2, <2>3
<1>8. wfifo' = Append(wfifo, Head(Contents(tx))) /\ Contents(tx') = Tail(Contents(tx))
  <2>1. Head(Contents(tx)) = Contents(tx)[1] /\ Tail(Contents(tx)) = SubSeq(Contents(tx), 2, Held(tx))
    BY <1>1, <1>7, MovedAcross
  <2>2. Contents(tx') = SubSeq(Contents(tx), 2, Held(tx))
    BY <1>6
  <2>3. Contents(tx') = Tail(Contents(tx))
    BY <2>1, <2>2, Zenon
  <2> QED BY <1>3, <1>7, <2>1, <2>3, Zenon
<1>9. Outgoing' = Append(wfifo, Head(Contents(tx))) \o Tail(Contents(tx))
  BY <1>8 DEF Outgoing, Contents
<1>10. Append(wfifo, Head(Contents(tx))) \o Tail(Contents(tx)) = wfifo \o Contents(tx)
  BY <1>1, <1>7, MovedAcross
<1> QED BY <1>4, <1>6, <1>9, <1>10, Zenon DEF Outgoing

LEMMA LookStep ==
  ASSUME TypeOK, CopiesInside, RoomIsReal, LookInv, [Next]_vars PROVE LookInv'
<1> DEFINE Copying == {"read_copy", "read_advance", "write_copy", "write_advance"}
<1>1. ASSUME pc' \notin Copying PROVE LookInv'
  BY <1>1 DEF LookInv
<1>2. CASE ReadLooks
  <2> DEFINE available == IF rx.in >= rx.out THEN rx.in - rx.out ELSE BUF_LEN - rx.out
  <2>1. available \in Nat /\ available <= Held(rx) /\ Held(rx) \in Nat
    BY HeldCases, Fields
  <2>2. rx' = rx /\ pc' \notin {"read_advance", "write_copy", "write_advance"}
        /\ call'.out = rx.out /\ call'.n = Least(available, call.left)
    BY <1>2, Fields DEF ReadLooks, Calls
  <2> HIDE DEF available
  <2>3. Least(available, call.left) <= Held(rx)
    BY <2>1, Fields DEF Least
  <2> QED BY <2>2, <2>3 DEF LookInv, Held
<1>3. CASE ReadCopies
  <2>1. /\ rx' = rx /\ pc = "read_copy" /\ pc' = "read_advance"
        /\ call'.out = call.out /\ call'.n = call.n
    BY <1>3, Fields DEF ReadCopies, Running, Calls
  <2> QED BY <2>1 DEF LookInv, Held
<1>4. CASE WriteLooks
  <2> DEFINE room == CASE tx.in < tx.out -> tx.out - 1 - tx.in
                       [] tx.in >= tx.out /\ tx.out > 0 -> BUF_LEN - tx.in
                       [] OTHER -> BUF_LEN - 1 - tx.in
  <2>1. room \in Nat /\ Held(tx) + room < BUF_LEN /\ Held(tx) \in Nat /\ BUF_LEN \in Nat
    BY HeldCases, Fields
  <2>2. tx' = tx /\ pc' \notin {"read_copy", "read_advance", "write_advance"}
    BY <1>4 DEF WriteLooks
  <2>3. CASE call.left = 0
    BY <1>1, <1>4, <2>3 DEF WriteLooks
  <2>4. CASE call.left # 0
    <3>1. call'.in = tx.in /\ call'.n = Least(room, call.left)
      BY <1>4, <2>4, Fields DEF WriteLooks, Calls
    <3> HIDE DEF room
    <3>2. Held(tx) + Least(room, call.left) < BUF_LEN
      BY <2>1, Fields DEF Least
    <3> QED BY <2>2, <3>1, <3>2 DEF LookInv, Held
  <2> QED BY <2>3, <2>4
<1>5. CASE WriteCopies
  <2>1. /\ pc = "write_copy" /\ pc' = "write_advance" /\ UNCHANGED <<call, printed>>
        /\ tx' = [tx EXCEPT !.buf = [i \in DOMAIN tx.buf |-> IF i - call.in \in 0 .. call.n - 1
                                               THEN printed + 1 + i - call.in ELSE tx.buf[i]]]
    BY <1>5 DEF WriteCopies, Running
  <2>2. /\ tx'.in = tx.in /\ tx'.out = tx.out
        /\ tx'.buf = [i \in Slot |-> IF i - call.in \in 0 .. call.n - 1
                                     THEN printed + 1 + i - call.in ELSE tx.buf[i]]
    BY <2>1, Fields DEF Ring
  <2>3. printed \in Nat /\ call.in \in Nat /\ call.n \in Nat /\ call.in + call.n <= BUF_LEN
    BY <2>1, Fields DEF TypeOK, CopiesInside
  <2>4. ASSUME NEW i \in 0 .. call.n - 1 PROVE tx'.buf[call.in + i] = (printed + 1) + i
    <3>1. call.in + i \in Slot /\ (call.in + i) - call.in = i
      BY <2>3, JtagUartAssumption DEF Slot
    <3>2. printed + 1 + (call.in + i) - call.in = (printed + 1) + i
      BY <2>3
    <3> QED BY <2>2, <3>1, <3>2
  <2> QED BY <2>1, <2>2, <2>4 DEF LookInv, Held
<1>6. CASE IrqReceives
  <2>1. UNCHANGED <<pc, call, tx, printed>>
    BY <1>6 DEF IrqReceives, Stopped
  <2>2. Held(rx') = Held(rx) + 1 /\ rx'.out = rx.out /\ Held(rx) \in Nat /\ call.n \in Nat
    BY <1>6, Received, Fields, HeldCases
  <2> QED BY <2>1, <2>2 DEF LookInv, Held
<1>7. CASE IrqTransmits
  <2>1. UNCHANGED <<pc, call, rx, printed>>
    BY <1>7 DEF IrqTransmits, Stopped
  <2>2. Held(tx') = Held(tx) - 1 /\ tx'.in = tx.in /\ tx'.buf = tx.buf
        /\ Held(tx) \in Nat /\ call.n \in Nat /\ BUF_LEN \in Nat
    BY <1>7, Transmitted, Fields, HeldCases
  <2> QED BY <2>1, <2>2 DEF LookInv, Held
<1>8. CASE UNCHANGED <<rx, tx, pc, call, printed>>
  BY <1>8 DEF LookInv, Held
<1>9. \/ ReadLooks \/ ReadCopies \/ WriteLooks \/ WriteCopies \/ IrqReceives \/ IrqTransmits
      \/ UNCHANGED <<rx, tx, pc, call, printed>> \/ pc' \notin Copying
  BY DEF Next, Reading, Writing, Handling, Host, vars, device, host, driver, Program,
    Stopped, history, Return, GiveUp, HostTypes, HostTakes, HostPolls, HostComesOrGoes, Call,
    ReturnFailed, ReadAdvances, ReadEnables, ReadStopsWaiting, ReadChecks, WriteAdvances,
    WriteEnables, WriteStopsWaiting, WriteChecks, Close, Interrupt, IrqControl,
    IrqEndsReceiving, IrqEndsTransmitting, Timeout
<1> QED BY <1>1, <1>2, <1>3, <1>4, <1>5, <1>6, <1>7, <1>8, <1>9

StreamInv == DriverInv /\ LookInv

LEMMA StreamInit == Init => StreamInv
<1>1. Init => DriverInv
  BY InitHolds, JtagUartAssumption
  DEF DriverInv, Init, ReceptionResumes, TransmissionResumes, RoomIsReal, NoIsr
<1> QED BY <1>1 DEF Init, LookInv, StreamInv

LEMMA StreamNext == StreamInv /\ [Next]_vars => StreamInv'
BY TypeStep, CopiesStep, ReceptionStep, TransmissionStep, RoomStep, LookStep
   DEF StreamInv, DriverInv

(* An empty ring.                                                          *)
LEMMA StartsEmpty == Init => Outgoing = <<>> /\ Incoming = <<>>
<1> SUFFICES ASSUME Init PROVE Outgoing = <<>> /\ Incoming = <<>>
  OBVIOUS
<1>1. rx \in Ring /\ tx \in Ring /\ rx.in = 0 /\ rx.out = 0 /\ tx.in = 0 /\ tx.out = 0
  BY InitHolds DEF Init, TypeOK
<1>2. Held(rx) = 0 /\ Held(tx) = 0
  BY <1>1, HeldCases
<1>3. Contents(rx) = <<>> /\ Contents(tx) = <<>>
  BY <1>1, <1>2, ContentsAre, EmptySeq
<1>4. <<>> \o <<>> = <<>>
  OBVIOUS
<1> QED BY <1>3, <1>4 DEF Init, Outgoing, Incoming

(* The program puts into the ring what it prints.                          *)
LEMMA Printed ==
  ASSUME StreamInv, WriteAdvances
  PROVE  /\ printed' = printed + call.n
         /\ Outgoing' = Outgoing \o [k \in 1 .. call.n |-> printed + k]
<1>1. tx \in Ring /\ call.n \in Nat /\ wfifo \in Seq(Char) /\ printed \in Nat
      /\ tx.in \in Nat /\ tx.buf \in [Slot -> Char] /\ Held(tx) \in Nat
  BY Fields, HeldCases DEF StreamInv, DriverInv, TypeOK
<1>2. call.in = tx.in /\ Held(tx) + call.n < BUF_LEN /\ tx.in + call.n <= BUF_LEN
      /\ \A i \in 0 .. call.n - 1 : tx.buf[tx.in + i] = (printed + 1) + i
  BY DEF StreamInv, DriverInv, LookInv, CopiesInside, WriteAdvances, Running
<1>3. /\ tx' = [tx EXCEPT !.in = (call.in + call.n) % BUF_LEN] /\ printed' = printed + call.n
      /\ wfifo' = wfifo
  BY DEF WriteAdvances, Program, device
<1>4. tx' \in Ring /\ tx'.out = tx.out /\ tx'.buf = tx.buf
      /\ tx'.in = (tx.in + call.n) % BUF_LEN
  <2>1. (call.in + call.n) % BUF_LEN \in Slot
    BY <1>1, <1>2, NextSlot, Fields DEF StreamInv, DriverInv, Slot
  <2>2. tx' \in Ring
    BY <1>1, <1>3, <2>1, RingChanged
  <2> QED BY <1>1, <1>2, <1>3, <2>2 DEF Ring
<1>5. Contents(tx') = Contents(tx) \o [k \in 1 .. call.n |-> tx'.buf[SlotOf(tx, Held(tx) + k)]]
  <2>1. \A k \in 1 .. Held(tx) : tx'.buf[SlotOf(tx, k)] = tx.buf[SlotOf(tx, k)]
    BY <1>4
  <2> QED BY <1>1, <1>2, <1>4, <2>1, PutInto
<1>6. ASSUME NEW k \in 1 .. call.n PROVE tx'.buf[SlotOf(tx, Held(tx) + k)] = printed + k
  <2>1. SlotOf(tx, Held(tx) + k) = tx.in + (k - 1)
    BY <1>1, <1>2, FreeSlots
  <2>2. k - 1 \in 0 .. call.n - 1 /\ (printed + 1) + (k - 1) = printed + k
    BY <1>1
  <2>3. tx.buf[tx.in + (k - 1)] = (printed + 1) + (k - 1)
    BY <1>2, <2>2
  <2> QED BY <1>4, <2>1, <2>2, <2>3
<1>7. [k \in 1 .. call.n |-> tx'.buf[SlotOf(tx, Held(tx) + k)]] = [k \in 1 .. call.n |-> printed + k]
  BY <1>6
<1> DEFINE new == [k \in 1 .. call.n |-> printed + k]
<1>8. new \in Seq(Nat) /\ wfifo \in Seq(Nat) /\ Contents(tx) \in Seq(Nat)
  <2>1. Char \subseteq Nat
    BY DEF Char
  <2>2. new \in Seq(Nat)
    BY <1>1
  <2> QED BY <1>1, <2>1, <2>2, ContentsAre, SeqMonotonic
<1> HIDE DEF new
<1>9. Outgoing' = wfifo \o (Contents(tx) \o new)
  BY <1>3, <1>5, <1>7 DEF Outgoing, Contents, new
<1>10. wfifo \o (Contents(tx) \o new) = (wfifo \o Contents(tx)) \o new
  BY <1>8, ConcatAssociative
<1> QED BY <1>3, <1>9, <1>10 DEF Outgoing, new

(* The steps of the driver are steps of the stream to the host.            *)
LEMMA StreamOut ==
  ASSUME StreamInv, [Next]_vars PROVE [ToHost!Next]_(ToHost!vars)
<1>0. TypeOK /\ RoomIsReal /\ CopiesInside /\ LookInv
  BY DEF StreamInv, DriverInv
<1> USE DEF ToHost!vars, ToHost!Next
<1>1. CASE HostTakes
  <2>1. /\ taken' = <<Head(wfifo)>> /\ wfifo' = Tail(wfifo) /\ wfifo # <<>>
        /\ UNCHANGED <<tx, printed>>
    BY <1>1 DEF HostTakes
  <2>2. wfifo \in Seq(Char) /\ Contents(tx) \in Seq(Char)
    BY <1>0, WriteFifo, Fields, ContentsAre
  <2>3. Tail(wfifo) = SubSeq(wfifo, 2, Len(wfifo)) /\ Head(wfifo) = wfifo[1] /\ 1 \in 0 .. Len(wfifo)
        /\ Len(wfifo) \in Nat
    <3>1. Tail(wfifo) = SubSeq(wfifo, 2, Len(wfifo)) /\ Head(wfifo) = wfifo[1] /\ Len(wfifo) \in Nat \ {0}
      BY <2>1, <2>2, MovedAcross
    <3> QED BY <3>1
  <2>4. Outgoing' = SubSeq(Outgoing, 1 + 1, Len(Outgoing))
    <3>1. Outgoing' = SubSeq(wfifo, 1 + 1, Len(wfifo)) \o Contents(tx)
      <4>1. Contents(tx') = Contents(tx) /\ wfifo' = SubSeq(wfifo, 1 + 1, Len(wfifo))
        BY <2>1, <2>3
      <4>2. Outgoing' = wfifo' \o Contents(tx')
        BY DEF Outgoing, Contents
      <4> QED BY <4>1, <4>2
    <3>2. SubSeq(wfifo, 1 + 1, Len(wfifo)) \o Contents(tx)
            = SubSeq(wfifo \o Contents(tx), 1 + 1, Len(wfifo \o Contents(tx)))
      BY <2>2, <2>3, LeftBehind
    <3> QED BY <3>1, <3>2, Zenon DEF Outgoing
  <2>5. taken' = SubSeq(Outgoing, 1, 1)
    <3>1. SubSeq(wfifo \o Contents(tx), 1, 1) = [k \in 1 .. 1 |-> wfifo[k]]
      BY <2>2, <2>3, InFront
    <3>2. [k \in 1 .. 1 |-> wfifo[k]] = <<wfifo[1]>>
      OBVIOUS
    <3> QED BY <2>1, <2>3, <3>1, <3>2 DEF Outgoing
  <2>6. 1 \in 1 .. Len(Outgoing)
    <3>1. Len(wfifo \o Contents(tx)) = Len(wfifo) + Len(Contents(tx)) /\ Len(Contents(tx)) \in Nat
      BY <2>2, ConcatProperties, LenProperties
    <3> QED BY <2>3, <3>1 DEF Outgoing
  <2>7. ToHost!Get
    BY <2>1, <2>4, <2>5, <2>6 DEF ToHost!Get
  <2> QED BY <2>7
<1>2. CASE WriteCopies
  <2>1. /\ UNCHANGED <<printed, wfifo, taken>> /\ pc = "write_copy"
        /\ tx' = [tx EXCEPT !.buf = [i \in DOMAIN tx.buf |-> IF i - call.in \in 0 .. call.n - 1
                                               THEN printed + 1 + i - call.in ELSE tx.buf[i]]]
    BY <1>2 DEF WriteCopies, Running, Program, device, host
  <2>2. /\ tx'.in = tx.in /\ tx'.out = tx.out /\ tx \in Ring
        /\ tx'.buf = [i \in Slot |-> IF i - call.in \in 0 .. call.n - 1
                                     THEN printed + 1 + i - call.in ELSE tx.buf[i]]
    BY <1>0, <2>1, Fields DEF Ring
  <2>3. call.in = tx.in /\ Held(tx) + call.n < BUF_LEN /\ tx.in + call.n <= BUF_LEN
        /\ call.n \in Nat
    BY <1>0, <2>1, Fields DEF LookInv, CopiesInside
  <2>4. ASSUME NEW k \in 1 .. Held(tx) PROVE tx'.buf[SlotOf(tx, k)] = tx.buf[SlotOf(tx, k)]
    <3>1. SlotOf(tx, k) - tx.in \notin 0 .. call.n - 1
      BY <2>2, <2>3, FreeSlots
    <3>2. SlotOf(tx, k) \in Slot
      BY <2>2, ContentsAre
    <3> QED BY <2>2, <2>3, <3>1, <3>2
  <2>5. tx' \in Ring
    BY <1>0, RingsStep
  <2>6. Held(tx') = Held(tx) /\ \A k : SlotOf(tx', k) = SlotOf(tx, k)
    BY <2>2 DEF Held, SlotOf
  <2>7. Contents(tx') = Contents(tx)
    <3>1. Contents(tx') = [k \in 1 .. Held(tx) |-> tx'.buf[SlotOf(tx, k)]]
      BY <2>5, <2>6, ContentsAre
    <3>2. Contents(tx) = [k \in 1 .. Held(tx) |-> tx.buf[SlotOf(tx, k)]]
      BY <2>2, ContentsAre
    <3> QED BY <2>4, <3>1, <3>2
  <2>8. Outgoing' = Outgoing
    BY <2>1, <2>7 DEF Outgoing, Contents
  <2> QED BY <2>1, <2>8
<1>3. CASE WriteAdvances
  <2>1. printed' = printed + call.n /\ Outgoing' = Outgoing \o [k \in 1 .. call.n |-> printed + k]
    BY <1>3, Printed
  <2>2. taken' = taken /\ wfifo' = wfifo /\ printed \in Nat /\ call.n \in Nat
    BY <1>0, <1>3, Fields DEF WriteAdvances, Program, device, host, TypeOK
  <2>3. CASE call.n = 0
    <3>1. printed' = printed
      BY <2>1, <2>2, <2>3
    <3>2. [k \in 1 .. call.n |-> printed + k] = <<>>
      BY <2>3
    <3>3. Outgoing \o <<>> = Outgoing
      <4>1. wfifo \in Seq(Char) /\ Contents(tx) \in Seq(Char)
        BY <1>0, WriteFifo, Fields, ContentsAre
      <4>2. wfifo \o Contents(tx) \in Seq(Char)
        BY <4>1, ConcatProperties
      <4> QED BY <4>2, ConcatEmptySeq DEF Outgoing
    <3> QED BY <2>1, <2>2, <3>1, <3>2, <3>3
  <2>4. CASE call.n # 0
    <3>1. printed' > printed /\ printed' - printed = call.n
      BY <2>1, <2>2, <2>4
    <3>2. ToHost!Put
      BY <2>1, <2>2, <3>1 DEF ToHost!Put
    <3> QED BY <3>2
  <2> QED BY <2>3, <2>4
<1>4. CASE IrqTransmits
  <2>1. Outgoing' = Outgoing
    BY <1>0, <1>4, Transmitted
  <2>2. UNCHANGED <<printed, taken>>
    BY <1>4 DEF IrqTransmits, Stopped, host
  <2> QED BY <2>1, <2>2
<1>5. CASE UNCHANGED <<printed, wfifo, tx, taken>>
  BY <1>5 DEF Outgoing, Contents
<1>6. \/ HostTakes \/ WriteCopies \/ WriteAdvances \/ IrqTransmits
      \/ UNCHANGED <<printed, wfifo, tx, taken>>
  BY DEF Next, Reading, Writing, Handling, Host, vars, device, host, driver, Program,
    Stopped, history, Return, GiveUp, HostTypes, HostPolls, HostComesOrGoes, Call,
    ReturnFailed, ReadLooks, ReadCopies, ReadAdvances, ReadEnables, ReadStopsWaiting, ReadChecks,
    WriteLooks, WriteEnables, WriteStopsWaiting, WriteChecks, Close, Interrupt, IrqControl,
    IrqReceives, IrqEndsReceiving, IrqEndsTransmitting, Timeout
<1> QED BY <1>1, <1>2, <1>3, <1>4, <1>5, <1>6

(* What is under way to the program: a read that has copied it has it.     *)
Copied == IF pc = "read_advance" THEN call.n ELSE 0
Coming == SubSeq(Incoming, Copied + 1, Len(Incoming))

LEMMA ComingIs ==
  ASSUME StreamInv
  PROVE  /\ Copied \in 0 .. Held(rx) /\ Copied \in 0 .. Len(Incoming)
         /\ Contents(rx) \in Seq(Char) /\ rfifo \in Seq(Char) /\ Incoming \in Seq(Char)
         /\ Len(Contents(rx)) = Held(rx) /\ Held(rx) \in Nat /\ typed \in Nat /\ rx \in Ring
         /\ (pc # "read_advance" => Coming = Incoming)
<1>1. /\ Contents(rx) \in Seq(Char) /\ rfifo \in Seq(Char) /\ Len(Contents(rx)) = Held(rx)
      /\ Held(rx) \in Nat /\ typed \in Nat /\ rx \in Ring
  BY ContentsAre, HeldCases DEF StreamInv, DriverInv, TypeOK
<1>2. Copied \in 0 .. Held(rx)
  BY <1>1, Fields DEF StreamInv, DriverInv, LookInv, Copied
<1>3. Incoming \in Seq(Char) /\ Len(Incoming) = Held(rx) + Len(rfifo) /\ Len(rfifo) \in Nat
  BY <1>1, ConcatProperties, LenProperties DEF Incoming
<1>4. Copied \in 0 .. Len(Incoming)
  BY <1>1, <1>2, <1>3
<1>5. ASSUME pc # "read_advance" PROVE Coming = Incoming
  <2>1. Coming = SubSeq(Incoming, 1, Len(Incoming))
    BY <1>5 DEF Coming, Copied
  <2> QED BY <1>3, <2>1, SubSeqFull
<1> QED BY <1>1, <1>2, <1>3, <1>4, <1>5

(* The characters of a ring that no copy of them wraps.                    *)
LEMMA CopyOf ==
  ASSUME NEW r \in Ring, NEW n \in 0 .. Held(r), r.out + n <= BUF_LEN
  PROVE  [k \in 1 .. n |-> r.buf[r.out + k - 1]] = [k \in 1 .. n |-> Contents(r)[k]]
<1>1. ASSUME NEW k \in 1 .. n PROVE r.buf[r.out + k - 1] = Contents(r)[k]
  <2>1. k \in 1 .. Held(r) /\ SlotOf(r, k) = r.out + k - 1
    BY HeldCases DEF SlotOf
  <2> QED BY <2>1, ContentsAre
<1> QED BY <1>1

(* The steps of the driver are steps of the stream from the host.          *)
LEMMA StreamIn ==
  ASSUME StreamInv, [Next]_vars
  PROVE  \/ /\ typed' = typed + 1 /\ Coming' = Coming \o <<typed + 1>>
            /\ call'.got = call.got
         \/ /\ typed' = typed
            /\ \E n \in 1 .. Len(Coming) : /\ call'.got = SubSeq(Coming, 1, n)
                                           /\ Coming' = SubSeq(Coming, n + 1, Len(Coming))
         \/ typed' = typed /\ Coming' = Coming /\ call'.got \in {<<>>, call.got}
<1>0. TypeOK /\ RoomIsReal /\ CopiesInside /\ LookInv /\ call \in Calls
  BY Fields DEF StreamInv, DriverInv
<1>1. CASE HostTypes
  <2>1. typed' = typed + 1 /\ rfifo' = Append(rfifo, typed + 1) /\ UNCHANGED <<rx, pc, call>>
    BY <1>1 DEF HostTypes
  <2>2. Char \subseteq Nat /\ typed + 1 \in Nat
    BY ComingIs DEF Char
  <2>3. /\ Contents(rx) \in Seq(Nat) /\ rfifo \in Seq(Nat) /\ Incoming \in Seq(Nat)
        /\ Copied \in 0 .. Len(Incoming)
    BY <2>2, ComingIs, SeqMonotonic
  <2>4. Incoming' = Append(Incoming, typed + 1)
    <3>1. Incoming' = Contents(rx) \o Append(rfifo, typed + 1)
      BY <2>1 DEF Incoming, Contents
    <3>2. Append(rfifo, typed + 1) = rfifo \o <<typed + 1>> /\ <<typed + 1>> \in Seq(Nat)
          /\ Append(Contents(rx) \o rfifo, typed + 1) = (Contents(rx) \o rfifo) \o <<typed + 1>>
      BY <2>2, <2>3, AppendIsConcat DEF Incoming
    <3>3. Contents(rx) \o (rfifo \o <<typed + 1>>) = (Contents(rx) \o rfifo) \o <<typed + 1>>
      <4> DEFINE c == Contents(rx)
                 one == <<typed + 1>>
      <4>1. c \in Seq(Nat) /\ rfifo \in Seq(Nat) /\ one \in Seq(Nat)
        BY <2>3, <3>2
      <4> HIDE DEF c, one
      <4>2. c \o (rfifo \o one) = (c \o rfifo) \o one
        BY <4>1, ConcatAssociative
      <4> QED BY <4>2 DEF c, one
    <3> QED BY <3>1, <3>2, <3>3 DEF Incoming
  <2>5. Coming' = Append(Coming, typed + 1)
    <3>1. Coming' = SubSeq(Append(Incoming, typed + 1), Copied + 1, Len(Append(Incoming, typed + 1)))
      BY <2>1, <2>4 DEF Coming, Copied
    <3>2. SubSeq(Append(Incoming, typed + 1), Copied + 1, Len(Append(Incoming, typed + 1)))
            = Append(SubSeq(Incoming, Copied + 1, Len(Incoming)), typed + 1)
      BY <2>2, <2>3, GrowsBehind
    <3> QED BY <3>1, <3>2 DEF Coming
  <2>6. Coming \in Seq(Nat)
    BY <2>3 DEF Coming
  <2> QED BY <2>1, <2>2, <2>5, <2>6, AppendIsConcat
<1>2. CASE ReadCopies
  <2>1. /\ UNCHANGED <<typed, rx, rfifo>> /\ pc = "read_copy" /\ pc' = "read_advance"
        /\ call' = [call EXCEPT !.got = [k \in 1 .. call.n |-> rx.buf[call.out + k - 1]]]
    BY <1>2 DEF ReadCopies, Running, Program, device, host
  <2>2. call'.n = call.n /\ call'.got = [k \in 1 .. call.n |-> rx.buf[call.out + k - 1]]
    BY <1>0, <2>1 DEF Calls
  <2>3. call.out = rx.out /\ call.n \in 0 .. Held(rx) /\ rx.out + call.n <= BUF_LEN
    BY <1>0, <2>1, Fields, ComingIs DEF LookInv, CopiesInside
  <2>4. Coming = Incoming /\ Incoming' = Incoming
        /\ Coming' = SubSeq(Incoming, call.n + 1, Len(Incoming))
    BY <2>1, <2>2, ComingIs DEF Coming, Copied, Incoming, Contents
  <2>5. call'.got = SubSeq(Coming, 1, call.n)
    <3>1. call'.got = [k \in 1 .. call.n |-> Contents(rx)[k]]
      BY <2>2, <2>3, CopyOf, ComingIs
    <3>2. SubSeq(Contents(rx) \o rfifo, 1, call.n) = [k \in 1 .. call.n |-> Contents(rx)[k]]
      BY <2>3, ComingIs, InFront
    <3> QED BY <2>4, <3>1, <3>2 DEF Incoming
  <2>6. CASE call.n = 0
    <3>1. call'.got = <<>>
      BY <2>2, <2>6
    <3>2. Coming' = Incoming
      <4>1. Coming' = SubSeq(Incoming, 1, Len(Incoming))
        BY <2>4, <2>6
      <4> QED BY <4>1, ComingIs, SubSeqFull
    <3> QED BY <2>1, <2>4, <3>1, <3>2
  <2>7. CASE call.n # 0
    <3>1. call.n \in 1 .. Len(Coming)
      BY <2>1, <2>3, <2>4, <2>7, ComingIs, ConcatProperties, LenProperties DEF Incoming
    <3> QED BY <2>1, <2>4, <2>5, <3>1
  <2> QED BY <2>6, <2>7
<1>3. CASE ReadAdvances
  <2>1. /\ UNCHANGED <<typed, rfifo>> /\ pc = "read_advance" /\ pc' # "read_advance"
        /\ rx' = [rx EXCEPT !.out = (call.out + call.n) % BUF_LEN]
        /\ call'.got = <<>>
    BY <1>0, <1>3 DEF ReadAdvances, Running, Program, device, host, Calls
  <2>2. call.out = rx.out /\ call.n \in 0 .. Held(rx) /\ Copied = call.n
    BY <1>0, <2>1, Fields, ComingIs DEF LookInv, Copied
  <2>3. rx' \in Ring /\ rx'.buf = rx.buf /\ rx'.in = rx.in /\ rx'.out = (rx.out + call.n) % BUF_LEN
    BY <1>0, <2>1, <2>2, RingsStep, ComingIs DEF Ring
  <2>4. Contents(rx') = SubSeq(Contents(rx), call.n + 1, Len(Contents(rx)))
    BY <2>2, <2>3, TakenFrom, ComingIs
  <2>5. Incoming' = Coming
    <3>1. Incoming' = SubSeq(Contents(rx), call.n + 1, Len(Contents(rx))) \o rfifo
      BY <2>1, <2>4 DEF Incoming, Contents
    <3>2. call.n \in 0 .. Len(Contents(rx))
      BY <2>2, ComingIs
    <3>3. SubSeq(Contents(rx), call.n + 1, Len(Contents(rx))) \o rfifo
            = SubSeq(Contents(rx) \o rfifo, call.n + 1, Len(Contents(rx) \o rfifo))
      BY <3>2, ComingIs, LeftBehind
    <3> QED BY <2>2, <3>1, <3>3 DEF Incoming, Coming
  <2>6. Coming' = Incoming'
    <3>1. StreamInv'
      BY StreamNext
    <3>2. Contents(rx') \in Seq(Char) /\ rfifo' \in Seq(Char)
      BY <2>3, <3>1, ContentsAre DEF StreamInv, DriverInv, TypeOK
    <3>3. Incoming' \in Seq(Char)
      <4>1. Incoming' = Contents(rx') \o rfifo'
        BY DEF Incoming, Contents
      <4> QED BY <3>2, <4>1, ConcatProperties
    <3>4. Coming' = SubSeq(Incoming', 1, Len(Incoming'))
      BY <2>1 DEF Coming, Copied
    <3> QED BY <3>3, <3>4, SubSeqFull
  <2> QED BY <2>1, <2>5, <2>6
<1>4. CASE IrqReceives
  <2>1. UNCHANGED <<typed, pc, call>>
    BY <1>4 DEF IrqReceives, Stopped, host
  <2>2. Incoming' = Incoming
    BY <1>0, <1>4, Received
  <2> QED BY <2>1, <2>2 DEF Coming, Copied
<1>5. CASE UNCHANGED <<typed, rx, rfifo, pc, call>>
  BY <1>5 DEF Coming, Copied, Incoming, Contents
<1>6. ASSUME UNCHANGED <<typed, rx, rfifo>>, pc # "read_advance", pc' # "read_advance",
             call'.got \in {<<>>, call.got}
      PROVE  typed' = typed /\ Coming' = Coming /\ call'.got \in {<<>>, call.got}
  BY <1>6 DEF Coming, Copied, Incoming, Contents
<1>7. \/ HostTypes \/ ReadCopies \/ ReadAdvances \/ IrqReceives
      \/ UNCHANGED <<typed, rx, rfifo, pc, call>>
      \/ UNCHANGED <<typed, rx, rfifo>> /\ pc # "read_advance" /\ pc' # "read_advance"
  BY DEF Next, Reading, Writing, Handling, Host, vars, device, host, driver, Program,
    Stopped, history, Running, Return, GiveUp, HostTakes, HostPolls, HostComesOrGoes, Call,
    ReturnFailed, ReadLooks, ReadEnables, ReadStopsWaiting, ReadChecks, WriteCopies,
    WriteLooks, WriteAdvances, WriteEnables, WriteStopsWaiting, WriteChecks, Close, Interrupt,
    IrqControl, IrqTransmits, IrqEndsReceiving, IrqEndsTransmitting, Timeout
<1>8. \/ HostTypes \/ ReadCopies \/ ReadAdvances \/ IrqReceives \/ call'.got \in {<<>>, call.got}
  <2>1. NoCall \in Calls /\ NoCall.got = <<>>
    BY NoCallIsCall DEF NoCall
  <2>2. Call \/ ReturnFailed => call'.got = <<>>
    BY <2>1 DEF Call, ReturnFailed, Return, NoCall
  <2>3. ReadLooks => call'.got = call.got
    BY <1>0 DEF ReadLooks, Calls
  <2>4. WriteLooks => call'.got = call.got
    BY <1>0 DEF WriteLooks, Calls
  <2>5. WriteAdvances => call'.got = call.got
    BY <1>0 DEF WriteAdvances, Calls
  <2>6. ReadEnables \/ WriteEnables => call' \in {NoCall, call}
    BY DEF ReadEnables, WriteEnables, Return
  <2>7. \/ HostTypes \/ ReadCopies \/ ReadAdvances \/ IrqReceives \/ Call \/ ReturnFailed
        \/ ReadLooks \/ WriteLooks \/ WriteAdvances \/ ReadEnables \/ WriteEnables \/ UNCHANGED call
    BY DEF Next, Reading, Writing, Handling, Host, vars, Program, Stopped, GiveUp, HostTakes,
      HostPolls, HostComesOrGoes, ReadStopsWaiting, ReadChecks, WriteCopies, WriteStopsWaiting,
      WriteChecks, Close, Interrupt, IrqControl, IrqTransmits, IrqEndsReceiving,
      IrqEndsTransmitting, Timeout
  <2> QED BY <2>1, <2>2, <2>3, <2>4, <2>5, <2>6, <2>7
<1> QED BY <1>1, <1>2, <1>3, <1>4, <1>5, <1>6, <1>7, <1>8, Zenon

(***************************************************************************)
(* The streams.                                                            *)
(***************************************************************************)

(* What was printed reaches the host, each character once and in order,    *)
(* for rings and FIFOs of any size and calls of any length: write and the  *)
(* handler's altera_avalon_jtag_uart_irq share the ring without a lock.    *)
THEOREM OutputKeepsOrder == Spec => OutputInOrder
<1>1. Init => ToHost!Init
  BY StartsEmpty DEF Init, ToHost!Init
<1>2. StreamInv /\ [Next]_vars => [ToHost!Next]_(ToHost!vars)
  BY StreamOut
<1> QED BY <1>1, <1>2, StreamInit, StreamNext, PTL DEF Spec, OutputInOrder, ToHost!Spec

(* What the host typed reaches the program, each character once and in     *)
(* order, past a handler that stores into the ring while read copies out.  *)
THEOREM InputKeepsOrder == Spec => InputInOrder
<1>1. Init => FromHost!Init
  <2>1. <<>> \in Seq(Char) /\ SubSeq(<<>>, 1, Len(<<>>)) = <<>>
    OBVIOUS
  <2> QED BY <2>1, StartsEmpty DEF Init, FromHost!Init, NoCall
<1> DEFINE pipe == SubSeq(Incoming, IF pc = "read_advance" THEN call.n + 1 ELSE 1, Len(Incoming))
<1>2. pipe = Coming /\ pipe' = Coming'
  <2>1. 0 + 1 = 1
    OBVIOUS
  <2>2. pipe = Coming
    BY <2>1, Zenon DEF Coming, Copied
  <2>3. pipe' = Coming'
    BY <2>1, Zenon DEF Coming, Copied
  <2> QED BY <2>2, <2>3
<1>3. StreamInv /\ [Next]_vars => [FromHost!Next]_(FromHost!vars)
  <2> SUFFICES ASSUME StreamInv, [Next]_vars PROVE [FromHost!Next]_(FromHost!vars)
    OBVIOUS
  <2> USE DEF FromHost!Next, FromHost!vars
  <2>1. CASE typed' = typed + 1 /\ Coming' = Coming \o <<typed + 1>> /\ call'.got = call.got
    <3>1. typed \in Nat BY ComingIs
    <3>2. typed' > typed /\ [k \in 1 .. typed' - typed |-> typed + k] = <<typed + 1>>
      BY <2>1, <3>1
    <3>3. FromHost!Put
      BY <1>2, <2>1, <3>2 DEF FromHost!Put
    <3> QED BY <3>3 DEF FromHost!Next
  <2>2. CASE /\ typed' = typed
             /\ \E n \in 1 .. Len(Coming) : /\ call'.got = SubSeq(Coming, 1, n)
                                            /\ Coming' = SubSeq(Coming, n + 1, Len(Coming))
    BY <1>2, <2>2 DEF FromHost!Next, FromHost!Get
  <2>3. CASE typed' = typed /\ Coming' = Coming /\ call'.got \in {<<>>, call.got}
    BY <1>2, <2>3 DEF FromHost!Next, FromHost!Forget, FromHost!vars
  <2> QED BY <2>1, <2>2, <2>3, StreamIn, Zenon
<1> QED BY <1>1, <1>3, StreamInit, StreamNext, PTL DEF Spec, InputInOrder, FromHost!Spec

(***************************************************************************)
(* The alarm.  A call that waits has left its ring empty, or full; the     *)
(* handler cannot bring it back to that state by going round, so an index  *)
(* that has not moved means that the whole timeout has passed.             *)
(***************************************************************************)
SilenceInv ==
  /\ quiet = Least(host_inactive, TIMEOUT)
  /\ pc \in {"read_wait", "read_check"} => call.in = rx.out
  /\ pc = "read_check" /\ call.in = rx.in => longest >= TIMEOUT
  /\ pc \in {"write_wait", "write_check"} \/ (pc = "write_enable" /\ call.left > 0)
       => call.in = tx.in /\ call.out = After(call.in)
  /\ pc = "write_check" => longest >= quiet /\ (call.out = tx.out => longest >= TIMEOUT)
  /\ GivesUpOnSilence

LEMMA AfterMoves ==
  ASSUME NEW i \in 0 .. BUF_LEN - 1, NEW j \in 0 .. BUF_LEN - 1
  PROVE  After(i) = (IF i + 1 < BUF_LEN THEN i + 1 ELSE 0) /\ (After(i) = After(j) => i = j)
<1>1. ASSUME NEW k \in 0 .. BUF_LEN - 1
      PROVE  After(k) = IF k + 1 < BUF_LEN THEN k + 1 ELSE 0
  <2>1. 1 \in 0 .. BUF_LEN /\ BUF_LEN \in Nat
    BY JtagUartAssumption
  <2>2. (k + 1) % BUF_LEN = IF k + 1 < BUF_LEN THEN k + 1 ELSE (k + 1) - BUF_LEN
    BY <2>1, MovesOn
  <2> QED BY <2>1, <2>2 DEF After
<1>2. /\ After(i) = IF i + 1 < BUF_LEN THEN i + 1 ELSE 0
      /\ After(j) = IF j + 1 < BUF_LEN THEN j + 1 ELSE 0
  BY <1>1
<1> QED BY <1>2, JtagUartAssumption

(* What the alarm counts.                                                  *)
LEMMA Counts ==
  ASSUME TypeOK
  PROVE  /\ host_inactive \in Nat /\ quiet \in Nat /\ longest \in Nat
         /\ TIMEOUT \in Nat /\ TIMEOUT >= 1 /\ INT_MAX - 2 >= TIMEOUT /\ INT_MAX \in Nat
         /\ quiet <= TIMEOUT /\ longest <= TIMEOUT
BY JtagUartAssumption DEF TypeOK

LEMMA SilenceInit == Init => SilenceInv
BY JtagUartAssumption DEF Init, SilenceInv, GivesUpOnSilence, Least, NoCall

LEMMA SilenceStep ==
  ASSUME TypeOK, SilenceInv, [Next]_vars PROVE SilenceInv'
<1> USE Fields, Counts
<1> DEFINE Waiting == {"read_wait", "read_check", "write_wait", "write_check", "write_enable",
                       "failed", "closed"}
<1>1. ASSUME UNCHANGED <<quiet, host_inactive>>, pc' \notin Waiting PROVE SilenceInv'
  BY <1>1 DEF SilenceInv, GivesUpOnSilence
<1>2. CASE ReadLooks
  <2>1. UNCHANGED <<quiet, host_inactive, rx>> /\ call'.in = rx.in
        /\ pc' \in {"read_copy", "read_enable", "read_wait"}
        /\ (pc' = "read_wait" => rx.in = rx.out)
    <3> DEFINE available == IF rx.in >= rx.out THEN rx.in - rx.out ELSE BUF_LEN - rx.out
    <3>1. available \in Nat /\ (available = 0 => rx.in = rx.out)
      BY JtagUartAssumption
    <3>2. UNCHANGED <<quiet, host_inactive, rx>> /\ call'.in = rx.in
      BY <1>2 DEF ReadLooks, Calls, Program, history
    <3>3. pc' = CASE available > 0 -> "read_copy"
                  [] available = 0 /\ call.moved -> "read_enable"
                  [] OTHER -> "read_wait"
      BY <1>2 DEF ReadLooks
    <3> HIDE DEF available
    <3>4. available > 0 \/ available = 0
      BY <3>1
    <3> QED BY <3>1, <3>2, <3>3, <3>4
  <2> QED BY <2>1 DEF SilenceInv, GivesUpOnSilence
<1>3. CASE ReadStopsWaiting
  <2>1. /\ UNCHANGED <<quiet, host_inactive, rx, call>> /\ pc = "read_wait" /\ pc' = "read_check"
        /\ longest' = quiet /\ (call.in = rx.in => host_inactive >= TIMEOUT)
    BY <1>3 DEF ReadStopsWaiting, Running, Program, Silent
  <2> QED BY <2>1 DEF SilenceInv, GivesUpOnSilence, Least
<1>4. CASE ReadChecks
  <2>1. UNCHANGED <<quiet, host_inactive, rx, call>> /\ pc = "read_check"
    BY <1>4 DEF ReadChecks, Running, Program, GiveUp
  <2>2. CASE call.in = rx.in
    <3>1. pc' = "failed" /\ longest' = longest
      BY <1>4, <2>2 DEF ReadChecks, GiveUp
    <3> QED BY <2>1, <2>2, <3>1 DEF SilenceInv, GivesUpOnSilence
  <2>3. CASE call.in # rx.in
    BY <1>1, <1>4, <2>1, <2>3 DEF ReadChecks
  <2> QED BY <2>2, <2>3
<1>5. CASE WriteLooks
  <2>1. UNCHANGED <<quiet, host_inactive, tx>> /\ pc' \in {"write_copy", "write_enable"}
    BY <1>5 DEF WriteLooks, Program, history
  <2>2. CASE call.left = 0
    <3>1. call' = call /\ pc' = "write_enable"
      BY <1>5, <2>2 DEF WriteLooks
    <3> QED BY <2>1, <2>2, <3>1 DEF SilenceInv, GivesUpOnSilence
  <2>3. CASE call.left # 0
    <3> DEFINE room == CASE tx.in < tx.out -> tx.out - 1 - tx.in
                         [] tx.in >= tx.out /\ tx.out > 0 -> BUF_LEN - tx.in
                         [] OTHER -> BUF_LEN - 1 - tx.in
    <3>1. room \in Nat /\ (room = 0 => tx.out = After(tx.in))
      <4>1. After(tx.in) = IF tx.in + 1 < BUF_LEN THEN tx.in + 1 ELSE 0
        BY AfterMoves
      <4>2. room \in Nat
        BY JtagUartAssumption
      <4>3. ASSUME room = 0 PROVE tx.out = After(tx.in)
        BY <4>1, <4>3, JtagUartAssumption
      <4> QED BY <4>2, <4>3
    <3>2. /\ call'.in = tx.in /\ call'.out = tx.out
          /\ pc' = IF Least(room, call.left) = 0 THEN "write_enable" ELSE "write_copy"
      BY <1>5, <2>3 DEF WriteLooks, Calls
    <3> HIDE DEF room
    <3>3. Least(room, call.left) = 0 => room = 0
      BY <2>3 DEF Least
    <3> QED BY <2>1, <3>1, <3>2, <3>3 DEF SilenceInv, GivesUpOnSilence
  <2> QED BY <2>2, <2>3
<1>6. CASE WriteEnables
  <2>1. UNCHANGED <<quiet, host_inactive, tx>> /\ pc = "write_enable"
    BY <1>6 DEF WriteEnables, Program, history, Running
  <2>2. CASE call.left > 0
    <3>1. call' = call /\ pc' = "write_wait"
      BY <1>6, <2>2 DEF WriteEnables
    <3> QED BY <2>1, <2>2, <3>1 DEF SilenceInv, GivesUpOnSilence
  <2>3. CASE ~(call.left > 0)
    BY <1>1, <1>6, <2>1, <2>3 DEF WriteEnables, Return
  <2> QED BY <2>2, <2>3
<1>7. CASE WriteStopsWaiting
  <2>1. /\ UNCHANGED <<quiet, host_inactive, tx, call>> /\ pc = "write_wait" /\ pc' = "write_check"
        /\ longest' = quiet /\ (call.out = tx.out => host_inactive >= TIMEOUT)
    BY <1>7 DEF WriteStopsWaiting, Running, Program, Silent
  <2> QED BY <2>1 DEF SilenceInv, GivesUpOnSilence, Least
<1>8. CASE WriteChecks
  <2>1. /\ UNCHANGED <<quiet, host_inactive, tx, call>> /\ pc = "write_check"
    BY <1>8 DEF WriteChecks, Running, Program, GiveUp
  <2>2. CASE IF call.early THEN host_inactive > 0 ELSE call.out = tx.out
    <3>1. pc' = "failed" /\ longest' = longest
      BY <1>8, <2>2 DEF WriteChecks, GiveUp
    <3>2. longest >= IF call.early THEN 1 ELSE TIMEOUT
      BY <2>1, <2>2 DEF SilenceInv, Least
    <3> QED BY <2>1, <3>1, <3>2 DEF SilenceInv, GivesUpOnSilence
  <2>3. CASE ~IF call.early THEN host_inactive > 0 ELSE call.out = tx.out
    BY <1>1, <1>8, <2>1, <2>3 DEF WriteChecks
  <2> QED BY <2>2, <2>3
<1>9. CASE Close
  <2>1. /\ UNCHANGED <<quiet, host_inactive, tx, call>> /\ pc' = "closed"
        /\ longest' = quiet /\ (tx.out = tx.in \/ host_inactive >= TIMEOUT)
    BY <1>9 DEF Close, Program, Silent
  <2> QED BY <2>1 DEF SilenceInv, GivesUpOnSilence, Least
<1>10. CASE IrqReceives
  <2>1. /\ UNCHANGED <<quiet, host_inactive, tx, pc, call, longest>> /\ ~Full(rx)
        /\ rx'.in = After(rx.in) /\ rx'.out = rx.out
    BY <1>10 DEF IrqReceives, Stopped, history, Ring
  <2>2. rx'.in # rx.out
    BY <2>1 DEF Full
  <2> QED BY <2>1, <2>2 DEF SilenceInv, GivesUpOnSilence
<1>11. CASE IrqTransmits
  <2>1. /\ UNCHANGED <<quiet, host_inactive, rx, pc, call, longest>> /\ tx.out # tx.in
        /\ tx'.out = After(tx.out) /\ tx'.in = tx.in
    BY <1>11 DEF IrqTransmits, Stopped, history, Ring
  <2>2. tx'.out # After(tx.in)
    BY <2>1, AfterMoves
  <2> QED BY <2>1, <2>2 DEF SilenceInv, GivesUpOnSilence
<1>12. CASE Timeout
  <2>1. UNCHANGED <<rx, tx, pc, call>>
    BY <1>12 DEF Timeout
  <2>2. /\ host_inactive' = IF ac THEN 0
                      ELSE IF host_inactive < INT_MAX - 2 THEN host_inactive + 1 ELSE host_inactive
        /\ quiet' = IF ac THEN 0 ELSE Least(quiet + 1, TIMEOUT)
        /\ longest' = IF pc \in {"read_check", "write_check"} /\ longest < quiet'
                      THEN quiet' ELSE longest
    BY <1>12 DEF Timeout
  <2>3. quiet' = Least(host_inactive, TIMEOUT)'
    BY <2>2 DEF SilenceInv, Least
  <2>4. quiet' \in Nat
    BY <2>2 DEF Least
  <2>5. longest' >= longest /\ (pc = "write_check" => longest' >= quiet') /\ longest' \in Nat
    BY <2>2, <2>4
  <2> QED BY <2>1, <2>3, <2>5 DEF SilenceInv, GivesUpOnSilence
<1>13. CASE UNCHANGED <<quiet, host_inactive, rx, tx, pc, call, longest>>
  BY <1>13 DEF SilenceInv, GivesUpOnSilence
<1>14. \/ ReadLooks \/ ReadStopsWaiting \/ ReadChecks \/ WriteLooks \/ WriteEnables
       \/ WriteStopsWaiting \/ WriteChecks \/ Close \/ IrqReceives \/ IrqTransmits \/ Timeout
       \/ UNCHANGED <<quiet, host_inactive, rx, tx, pc, call, longest>>
       \/ UNCHANGED <<quiet, host_inactive>> /\ pc' \notin Waiting
  BY DEF Next, Reading, Writing, Handling, Host, vars, device, host, driver, Program, Stopped,
    history, Return, HostTypes, HostTakes, HostPolls, HostComesOrGoes, Call, ReturnFailed,
    ReadCopies, ReadAdvances, ReadEnables, WriteCopies, WriteAdvances, Interrupt, IrqControl,
    IrqEndsReceiving, IrqEndsTransmitting
<1> QED BY <1>1, <1>2, <1>3, <1>4, <1>5, <1>6, <1>7, <1>8, <1>9, <1>10, <1>11, <1>12, <1>13,
   <1>14, Zenon

(* Neither copy of the driver gives a call up before the host has been     *)
(* silent for as long as it says, whatever the handler does between the    *)
(* end of the wait and the look that follows it (read.c, write.c).         *)
THEOREM PatienceKept == Spec => []GivesUpOnSilence
<1>1. TypeOK /\ SilenceInv /\ [Next]_vars => SilenceInv'
  BY SilenceStep
<1>2. SilenceInv => GivesUpOnSilence
  BY DEF SilenceInv
<1> QED BY <1>1, <1>2, SilenceInit, TypeCorrect, PTL DEF Spec
=============================================================================
