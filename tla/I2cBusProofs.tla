---------------------------- MODULE I2cBusProofs ----------------------------
(***************************************************************************)
(* i2c.c for every device, every register and every value: a transaction   *)
(* that no other one cuts into, and no reset hits, leaves the bus free and *)
(* does what a register file promises.  The invariant says for each access *)
(* of each call what the wires, the device and the caller hold.            *)
(***************************************************************************)
EXTENDS I2cBus, SequenceTheorems, TLAPS

Bit == 0 .. 1

(* i2c_write: the byte on the way.  Prefix(b, n) is what a receiver has    *)
(* after the first n bits of b, the highest first.                         *)
LEMMA MaskIs ==
  /\ Mask[1] = 128 /\ Mask[2] = 64 /\ Mask[3] = 32 /\ Mask[4] = 16
  /\ Mask[5] = 8 /\ Mask[6] = 4 /\ Mask[7] = 2 /\ Mask[8] = 1
BY DEF Mask

Prefix(b, n) == IF n = 0 THEN 0 ELSE b \div Mask[n]

(* Dividing a byte by two again and again.                                 *)
LEMMA Halved ==
  ASSUME NEW x \in Int
  PROVE  /\ x % 2 = x - 2 * (x \div 2)
         /\ x % 2 \in Bit
BY DEF Bit

LEMMA Halves ==
  ASSUME NEW b \in Byte
  PROVE  /\ (b \div 128) \div 2 = 0
         /\ (b \div 64) \div 2 = b \div 128
         /\ (b \div 32) \div 2 = b \div 64
         /\ (b \div 16) \div 2 = b \div 32
         /\ (b \div 8) \div 2 = b \div 16
         /\ (b \div 4) \div 2 = b \div 8
         /\ (b \div 2) \div 2 = b \div 4
         /\ b \div 1 = b
         /\ \A m \in {1, 2, 4, 8, 16, 32, 64, 128} : b \div m \in Byte
BY DEF Byte

LEMMA PrefixTypes ==
  ASSUME NEW b \in Byte, NEW i \in 0 .. 8
  PROVE  Prefix(b, i) \in Byte
BY Halves, MaskIs DEF Prefix, Byte

(* The bit that i2c_write sends next is the one that the receiver lacks.   *)
LEMMA PrefixStep ==
  ASSUME NEW b \in Byte, NEW i \in 1 .. 8
  PROVE  /\ BitOf(b, i) \in Bit
         /\ Prefix(b, i) = 2 * Prefix(b, i - 1) + BitOf(b, i)
<1>1. Prefix(b, i - 1) = Prefix(b, i) \div 2
  BY Halves, MaskIs DEF Prefix
<1>2. BitOf(b, i) = Prefix(b, i) % 2
  BY DEF Prefix, BitOf
<1>3. Prefix(b, i) \in Int
  <2>1. i \in 0 .. 8
    OBVIOUS
  <2>2. Prefix(b, i) \in Byte
    BY <2>1, PrefixTypes
  <2> QED BY <2>2 DEF Byte
<1> QED
  BY <1>1, <1>2, <1>3, Halved DEF Bit

LEMMA PrefixEnds ==
  ASSUME NEW b \in Byte
  PROVE  Prefix(b, 0) = 0 /\ Prefix(b, 8) = b
BY Halves, MaskIs DEF Prefix

(* i2c_write and i2c_read as sequences: the eight groups of accesses put   *)
(* side by side, and what stands before and after them.                    *)
Accesses == {"scl", "sda", "dir", "ack", "sample", "store"} \X Bit

LEMMA AccessIs ==
  ASSUME NEW v \in Bit
  PROVE  /\ Scl(v) \in Accesses /\ Sda(v) \in Accesses /\ Dir(v) \in Accesses
         /\ <<"ack", 0>> \in Accesses /\ <<"sample", 0>> \in Accesses /\ <<"store", 0>> \in Accesses
BY DEF Accesses, Scl, Sda, Dir, Bit

Equal(S, w, T) == \A i \in 1 .. 8 : T[i] \in Seq(S) /\ Len(T[i]) = w
Built(S, w, T, s, n) ==
  /\ s \in Seq(S) /\ Len(s) = w * n
  /\ \A i \in 1 .. n, j \in 1 .. w : s[w * (i - 1) + j] = T[i][j]

(* One more group.                                                         *)
LEMMA Joined ==
  ASSUME NEW S, NEW w \in {3, 4}, NEW n \in 1 .. 7, NEW T, NEW s, Equal(S, w, T), Built(S, w, T, s, n)
  PROVE  Built(S, w, T, s \o T[n + 1], n + 1)
<1> DEFINE t == T[n + 1]
<1>1. t \in Seq(S) /\ Len(t) = w
  <2>1. n + 1 \in 1 .. 8
    OBVIOUS
  <2> QED BY <2>1 DEF Equal
<1>2. s \in Seq(S) /\ Len(s) = w * n /\ \A i \in 1 .. n, j \in 1 .. w : s[w * (i - 1) + j] = T[i][j]
  BY DEF Built
<1> HIDE DEF t
<1>3. /\ s \o t \in Seq(S) /\ Len(s \o t) = w * n + w
      /\ \A k \in 1 .. w * n + w : (s \o t)[k] = IF k <= w * n THEN s[k] ELSE t[k - w * n]
  BY <1>1, <1>2, ConcatProperties, SMTT(20)
<1>4. w * n + w = w * (n + 1) /\ w * n \in Nat
  OBVIOUS
<1>5. ASSUME NEW i \in 1 .. n + 1, NEW j \in 1 .. w
      PROVE  (s \o t)[w * (i - 1) + j] = T[i][j]
  <2>1. CASE i <= n
    <3>1. w * (i - 1) + j \in 1 .. w * n
      <4>1. CASE w = 3 BY <4>1, <2>1
      <4>2. CASE w = 4 BY <4>2, <2>1
      <4> QED BY <4>1, <4>2
    <3> QED BY <3>1, <2>1, <1>2, <1>3, <1>4
  <2>2. CASE i = n + 1
    <3>1. w * (i - 1) + j \in 1 .. w * n + w /\ ~(w * (i - 1) + j <= w * n)
          /\ w * (i - 1) + j - w * n = j
      <4>1. CASE w = 3 BY <4>1, <2>2
      <4>2. CASE w = 4 BY <4>2, <2>2
      <4> QED BY <4>1, <4>2
    <3> QED BY <3>1, <2>2, <1>3 DEF t
  <2>3. i <= n \/ i = n + 1
    OBVIOUS
  <2> QED BY <2>1, <2>2, <2>3, Zenon
<1> QED BY <1>3, <1>4, <1>5 DEF Built, t

LEMMA EightIs ==
  ASSUME NEW S, NEW w \in {3, 4}, NEW T, Equal(S, w, T)
  PROVE  Built(S, w, T, T[1] \o T[2] \o T[3] \o T[4] \o T[5] \o T[6] \o T[7] \o T[8], 8)
<1>1. \A n \in 1 .. 7 : \A s : Built(S, w, T, s, n) => Built(S, w, T, s \o T[n + 1], n + 1)
  BY Joined
<1>2. Built(S, w, T, T[1], 1)
  BY DEF Built, Equal
<1>3. /\ 1 + 1 = 2 /\ 2 + 1 = 3 /\ 3 + 1 = 4 /\ 4 + 1 = 5 /\ 5 + 1 = 6 /\ 6 + 1 = 7 /\ 7 + 1 = 8
      /\ 1 \in 1 .. 7 /\ 2 \in 1 .. 7 /\ 3 \in 1 .. 7 /\ 4 \in 1 .. 7 /\ 5 \in 1 .. 7
      /\ 6 \in 1 .. 7 /\ 7 \in 1 .. 7
  OBVIOUS
<1>4. Built(S, w, T, T[1] \o T[2], 2)
  BY <1>1, <1>2, <1>3, Zenon
<1>5. Built(S, w, T, T[1] \o T[2] \o T[3], 3)
  BY <1>1, <1>4, <1>3, Zenon
<1>6. Built(S, w, T, T[1] \o T[2] \o T[3] \o T[4], 4)
  BY <1>1, <1>5, <1>3, Zenon
<1>7. Built(S, w, T, T[1] \o T[2] \o T[3] \o T[4] \o T[5], 5)
  BY <1>1, <1>6, <1>3, Zenon
<1>8. Built(S, w, T, T[1] \o T[2] \o T[3] \o T[4] \o T[5] \o T[6], 6)
  BY <1>1, <1>7, <1>3, Zenon
<1>9. Built(S, w, T, T[1] \o T[2] \o T[3] \o T[4] \o T[5] \o T[6] \o T[7], 7)
  BY <1>1, <1>8, <1>3, Zenon
<1> QED
  BY <1>1, <1>9, <1>3, Zenon

FramedBy(S, x, e, y, s) ==
  /\ s \in Seq(S) /\ Len(s) = Len(x) + Len(e) + Len(y)
  /\ \A k \in 1 .. Len(x) : s[k] = x[k]
  /\ \A k \in 1 .. Len(e) : s[Len(x) + k] = e[k]
  /\ \A k \in 1 .. Len(y) : s[Len(x) + Len(e) + k] = y[k]

(* What stands where when three sequences are put side by side.            *)
LEMMA Framed ==
  ASSUME NEW S, NEW x \in Seq(S), NEW e \in Seq(S), NEW y \in Seq(S)
  PROVE  FramedBy(S, x, e, y, (x \o e) \o y)
<1>1. Len(x) \in Nat /\ Len(e) \in Nat /\ Len(y) \in Nat
  BY LenProperties
<1> DEFINE u == x \o e
           s == u \o y
<1>2. /\ u \in Seq(S) /\ Len(u) = Len(x) + Len(e)
      /\ \A i \in 1 .. Len(x) + Len(e) : u[i] = IF i <= Len(x) THEN x[i] ELSE e[i - Len(x)]
  BY ConcatProperties
<1> HIDE DEF u
<1>3. /\ s \in Seq(S) /\ Len(s) = Len(u) + Len(y)
      /\ \A i \in 1 .. Len(u) + Len(y) : s[i] = IF i <= Len(u) THEN u[i] ELSE y[i - Len(u)]
  <2>1. u \in Seq(S)
    BY <1>2
  <2> QED BY <2>1, ConcatProperties
<1> HIDE DEF s
<1>4. ASSUME NEW k \in 1 .. Len(x) PROVE s[k] = x[k]
  BY <1>1, <1>2, <1>3
<1>5. ASSUME NEW k \in 1 .. Len(e) PROVE s[Len(x) + k] = e[k]
  <2>1. Len(x) + k \in 1 .. Len(x) + Len(e) /\ ~(Len(x) + k <= Len(x)) /\ Len(x) + k - Len(x) = k
        /\ Len(x) + k <= Len(u) /\ Len(x) + k \in 1 .. Len(u) + Len(y)
    BY <1>1, <1>2
  <2> QED BY <2>1, <1>2, <1>3
<1>6. ASSUME NEW k \in 1 .. Len(y) PROVE s[Len(x) + Len(e) + k] = y[k]
  <2>1. Len(u) + k \in 1 .. Len(u) + Len(y) /\ ~(Len(u) + k <= Len(u)) /\ Len(u) + k - Len(u) = k
        /\ Len(u) + k = Len(x) + Len(e) + k
    BY <1>1, <1>2
  <2> QED BY <2>1, <1>3
<1>7. Len(s) = Len(x) + Len(e) + Len(y)
  BY <1>1, <1>2, <1>3
<1>8. FramedBy(S, x, e, y, s)
  BY <1>3, <1>4, <1>5, <1>6, <1>7 DEF FramedBy
<1> QED BY <1>8 DEF s, u

(* Every access of i2c_write and of i2c_read, by its place.                *)
EndOfWrite(s) ==
  s[34] = Dir(0) /\ s[35] = Scl(1) /\ s[36] = <<"ack", 0>> /\ s[37] = Scl(0)

IsWrite(b, s) ==
  /\ s \in Seq(Accesses) /\ Len(s) = 37 /\ s[1] = Dir(1)
  /\ \A i \in 1 .. 8 : /\ s[4 * i - 2] = Scl(0) /\ s[4 * i - 1] = Sda(BitOf(b, i))
                       /\ s[4 * i] = Scl(1) /\ s[4 * i + 1] = Scl(0)
  /\ EndOfWrite(s)

LEMMA WriteIs ==
  ASSUME NEW b \in Byte, NEW s, s = i2c_write(b)
  PROVE  IsWrite(b, s)
<1> DEFINE T == [i \in 1 .. 8 |-> <<Scl(0), Sda(BitOf(b, i)), Scl(1), Scl(0)>>]
           e == T[1] \o T[2] \o T[3] \o T[4] \o T[5] \o T[6] \o T[7] \o T[8]
           x == <<Dir(1)>>
           y == <<Dir(0), Scl(1), <<"ack", 0>>, Scl(0)>>
<1>1. s = (x \o e) \o y
  BY DEF i2c_write, Eight
<1>2. \A i \in 1 .. 8 : /\ T[i] \in Seq(Accesses) /\ Len(T[i]) = 4
                        /\ T[i][1] = Scl(0) /\ T[i][2] = Sda(BitOf(b, i))
                        /\ T[i][3] = Scl(1) /\ T[i][4] = Scl(0)
  BY AccessIs, PrefixStep DEF Bit
<1>3. /\ x \in Seq(Accesses) /\ Len(x) = 1 /\ x[1] = Dir(1)
      /\ y \in Seq(Accesses) /\ Len(y) = 4 /\ y[1] = Dir(0) /\ y[2] = Scl(1)
      /\ y[3] = <<"ack", 0>> /\ y[4] = Scl(0)
  BY AccessIs DEF Bit
<1> HIDE DEF x, y, T
<1>4. /\ e \in Seq(Accesses) /\ Len(e) = 32
      /\ \A i \in 1 .. 8, j \in 1 .. 4 : e[4 * (i - 1) + j] = T[i][j]
  <2>1. Equal(Accesses, 4, T)
    BY <1>2 DEF Equal
  <2>2. 4 \in {3, 4}
    OBVIOUS
  <2>3. Built(Accesses, 4, T, e, 8)
    BY <2>1, <2>2, EightIs, Zenon
  <2> HIDE DEF e
  <2> QED BY <2>3 DEF Built
<1> HIDE DEF e
<1>5. /\ s \in Seq(Accesses) /\ Len(s) = Len(x) + Len(e) + Len(y)
      /\ \A k \in 1 .. Len(x) : s[k] = x[k]
      /\ \A k \in 1 .. Len(e) : s[Len(x) + k] = e[k]
      /\ \A k \in 1 .. Len(y) : s[Len(x) + Len(e) + k] = y[k]
  <2>1. x \in Seq(Accesses) /\ e \in Seq(Accesses) /\ y \in Seq(Accesses)
    BY <1>3, <1>4
  <2>2. FramedBy(Accesses, x, e, y, s)
    BY <2>1, <1>1, Framed, Zenon
  <2> QED BY <2>2 DEF FramedBy
<1>6. /\ s \in Seq(Accesses) /\ Len(s) = 37 /\ s[1] = x[1]
      /\ \A k \in 1 .. 32 : s[1 + k] = e[k]
      /\ \A k \in 1 .. 4 : s[33 + k] = y[k]
  BY <1>3, <1>4, <1>5
<1>7. \A i \in 1 .. 8, j \in 1 .. 4 : s[1 + (4 * (i - 1) + j)] = T[i][j]
  <2> TAKE i \in 1 .. 8, j \in 1 .. 4
  <2>1. 4 * (i - 1) + j \in 1 .. 32
    OBVIOUS
  <2>2. e[4 * (i - 1) + j] = T[i][j]
    BY <1>4
  <2> QED BY <2>1, <2>2, <1>6
<1>8. ASSUME NEW i \in 1 .. 8
      PROVE  /\ s[4 * i - 2] = Scl(0) /\ s[4 * i - 1] = Sda(BitOf(b, i))
             /\ s[4 * i] = Scl(1) /\ s[4 * i + 1] = Scl(0)
  <2>1. /\ 1 + (4 * (i - 1) + 1) = 4 * i - 2 /\ 1 + (4 * (i - 1) + 2) = 4 * i - 1
        /\ 1 + (4 * (i - 1) + 3) = 4 * i /\ 1 + (4 * (i - 1) + 4) = 4 * i + 1
    OBVIOUS
  <2>2. /\ s[1 + (4 * (i - 1) + 1)] = T[i][1] /\ s[1 + (4 * (i - 1) + 2)] = T[i][2]
        /\ s[1 + (4 * (i - 1) + 3)] = T[i][3] /\ s[1 + (4 * (i - 1) + 4)] = T[i][4]
    BY <1>7
  <2> QED BY <2>1, <2>2, <1>2
<1>9. s[33 + 1] = y[1] /\ s[33 + 2] = y[2] /\ s[33 + 3] = y[3] /\ s[33 + 4] = y[4]
  BY <1>6
<1>10. s[34] = y[1] /\ s[35] = y[2] /\ s[36] = y[3] /\ s[37] = y[4]
  BY <1>9
<1> QED BY <1>3, <1>6, <1>8, <1>10 DEF IsWrite, EndOfWrite

IsRead(ack, s) ==
  /\ s \in Seq(Accesses) /\ Len(s) = 33 /\ s[1] = Dir(0) /\ s[2] = Scl(0)
  /\ \A i \in 1 .. 8 : /\ s[3 * i] = Scl(1) /\ s[3 * i + 1] = <<"sample", 0>>
                       /\ s[3 * i + 2] = Scl(0)
  /\ s[27] = Scl(0) /\ s[28] = Dir(1) /\ s[29] = Sda(IF ack THEN 0 ELSE 1)
  /\ s[30] = Scl(1) /\ s[31] = Scl(0) /\ s[32] = Sda(0) /\ s[33] = <<"store", 0>>

LEMMA ReadIs ==
  ASSUME NEW ack \in BOOLEAN, NEW s, s = i2c_read(ack)
  PROVE  IsRead(ack, s)
<1> DEFINE T == [i \in 1 .. 8 |-> <<Scl(1), <<"sample", 0>>, Scl(0)>>]
           e == T[1] \o T[2] \o T[3] \o T[4] \o T[5] \o T[6] \o T[7] \o T[8]
           x == <<Dir(0), Scl(0)>>
           y == <<Scl(0), Dir(1), Sda(IF ack THEN 0 ELSE 1), Scl(1), Scl(0), Sda(0), <<"store", 0>> >>
<1>1. s = (x \o e) \o y
  BY DEF i2c_read, Eight
<1>2. \A i \in 1 .. 8 : /\ T[i] \in Seq(Accesses) /\ Len(T[i]) = 3
                        /\ T[i][1] = Scl(1) /\ T[i][2] = <<"sample", 0>> /\ T[i][3] = Scl(0)
  BY AccessIs DEF Bit
<1>3. /\ x \in Seq(Accesses) /\ Len(x) = 2 /\ x[1] = Dir(0) /\ x[2] = Scl(0)
      /\ y \in Seq(Accesses) /\ Len(y) = 7 /\ y[1] = Scl(0) /\ y[2] = Dir(1)
      /\ y[3] = Sda(IF ack THEN 0 ELSE 1) /\ y[4] = Scl(1) /\ y[5] = Scl(0) /\ y[6] = Sda(0)
      /\ y[7] = <<"store", 0>>
  BY AccessIs DEF Bit
<1> HIDE DEF x, y, T
<1>4. /\ e \in Seq(Accesses) /\ Len(e) = 24
      /\ \A i \in 1 .. 8, j \in 1 .. 3 : e[3 * (i - 1) + j] = T[i][j]
  <2>1. Equal(Accesses, 3, T)
    BY <1>2 DEF Equal
  <2>2. 3 \in {3, 4}
    OBVIOUS
  <2>3. Built(Accesses, 3, T, e, 8)
    BY <2>1, <2>2, EightIs, Zenon
  <2> HIDE DEF e
  <2> QED BY <2>3 DEF Built
<1> HIDE DEF e
<1>5. /\ s \in Seq(Accesses) /\ Len(s) = Len(x) + Len(e) + Len(y)
      /\ \A k \in 1 .. Len(x) : s[k] = x[k]
      /\ \A k \in 1 .. Len(e) : s[Len(x) + k] = e[k]
      /\ \A k \in 1 .. Len(y) : s[Len(x) + Len(e) + k] = y[k]
  <2>1. x \in Seq(Accesses) /\ e \in Seq(Accesses) /\ y \in Seq(Accesses)
    BY <1>3, <1>4
  <2>2. FramedBy(Accesses, x, e, y, s)
    BY <2>1, <1>1, Framed, Zenon
  <2> QED BY <2>2 DEF FramedBy
<1>6. /\ s \in Seq(Accesses) /\ Len(s) = 33 /\ s[1] = x[1] /\ s[2] = x[2]
      /\ \A k \in 1 .. 24 : s[2 + k] = e[k]
      /\ \A k \in 1 .. 7 : s[26 + k] = y[k]
  BY <1>3, <1>4, <1>5
<1>7. \A i \in 1 .. 8, j \in 1 .. 3 : s[2 + (3 * (i - 1) + j)] = T[i][j]
  <2> TAKE i \in 1 .. 8, j \in 1 .. 3
  <2>1. 3 * (i - 1) + j \in 1 .. 24
    OBVIOUS
  <2> QED BY <2>1, <1>4, <1>6
<1>8. ASSUME NEW i \in 1 .. 8
      PROVE  s[3 * i] = Scl(1) /\ s[3 * i + 1] = <<"sample", 0>> /\ s[3 * i + 2] = Scl(0)
  <2>1. /\ 2 + (3 * (i - 1) + 1) = 3 * i /\ 2 + (3 * (i - 1) + 2) = 3 * i + 1
        /\ 2 + (3 * (i - 1) + 3) = 3 * i + 2
    OBVIOUS
  <2>2. /\ s[2 + (3 * (i - 1) + 1)] = T[i][1] /\ s[2 + (3 * (i - 1) + 2)] = T[i][2]
        /\ s[2 + (3 * (i - 1) + 3)] = T[i][3]
    BY <1>7
  <2> QED BY <2>1, <2>2, <1>2
<1>9. /\ s[26 + 1] = y[1] /\ s[26 + 2] = y[2] /\ s[26 + 3] = y[3] /\ s[26 + 4] = y[4]
      /\ s[26 + 5] = y[5] /\ s[26 + 6] = y[6] /\ s[26 + 7] = y[7]
  BY <1>6
<1>10. /\ s[27] = y[1] /\ s[28] = y[2] /\ s[29] = y[3] /\ s[30] = y[4]
       /\ s[31] = y[5] /\ s[32] = y[6] /\ s[33] = y[7]
  BY <1>9
<1> QED BY <1>3, <1>6, <1>8, <1>10 DEF IsRead

(* What is left of a sequence of accesses or of calls once n of them are   *)
(* done.                                                                   *)
Drop(s, n) == SubSeq(s, n + 1, Len(s))

LEMMA DropIs ==
  ASSUME NEW S, NEW s \in Seq(S), NEW n \in Nat, n < Len(s)
  PROVE  /\ Drop(s, n) \in Seq(S) /\ Drop(s, n) # << >>
         /\ Head(Drop(s, n)) = s[n + 1] /\ Tail(Drop(s, n)) = Drop(s, n + 1)
<1>1. Len(s) \in Nat /\ n + 1 \in 1 .. Len(s) /\ Len(s) \in n + 1 .. Len(s)
  BY LenProperties
<1>2. Head(Drop(s, n)) = s[n + 1] /\ Tail(Drop(s, n)) = Drop(s, n + 1)
  BY <1>1, HeadTailOfSubSeq DEF Drop
<1>3. \A i \in n + 1 .. Len(s) : s[i] \in S
  BY <1>1, ElementOfSeq
<1>4. Drop(s, n) \in Seq(S) /\ Len(Drop(s, n)) = Len(s) - (n + 1) + 1
  <2>1. n + 1 \in Int /\ Len(s) \in Int /\ n + 1 <= Len(s)
    BY <1>1
  <2> QED BY <2>1, <1>3, SubSeqProperties DEF Drop
<1>5. Drop(s, n) # << >>
  BY <1>1, <1>4, EmptySeq
<1> QED BY <1>2, <1>4, <1>5

LEMMA DropEnds ==
  ASSUME NEW S, NEW s \in Seq(S)
  PROVE  Drop(s, 0) = s /\ Drop(s, Len(s)) = << >>
<1>1. Len(s) \in Nat
  BY LenProperties
<1>2. 0 + 1 = 1 /\ Len(s) < Len(s) + 1 /\ Len(s) + 1 \in Int /\ Len(s) \in Int
  BY <1>1
<1> QED BY <1>2, SubSeqFull, SubSeqEmpty DEF Drop

(* The transactions as sequences: where the calls of a request stand, for  *)
(* devices whose addresses have one byte and two.                          *)
AllCalls == {Start, Restart, Stop} \cup {Send(b) : b \in Byte} \cup {Receive(ack) : ack \in BOOLEAN}

Addresses == IF wide THEN 2 ELSE 1
Length(r) == IF r.kind = "write" THEN 4 + Addresses ELSE 5 + Addresses + r.n

(* The byte that the m-th call sends, if it sends one; and what call that  *)
(* is.                                                                     *)
SentAt(r, m) ==
  CASE m = 2 -> DEVICE
    [] m = 3 /\ wide -> High(r.reg)
    [] m = 2 + Addresses -> Low(r.reg)
    [] m = 3 + Addresses -> r.value
    [] m = 4 + Addresses -> DEVICE + 1

IsStart(r, m) == m = 1 \/ (r.kind = "read" /\ m = 3 + Addresses)
IsSend(r, m) ==
  \/ m \in 2 .. 2 + Addresses
  \/ r.kind = "write" /\ m = 3 + Addresses
  \/ r.kind = "read" /\ m = 4 + Addresses
IsReceive(r, m) == r.kind = "read" /\ m \in 5 + Addresses .. 4 + Addresses + r.n

CallIs(r, m, call) ==
  /\ IsStart(r, m) => call = (IF m > 1 /\ r.n > 1 THEN Restart ELSE Start)
  /\ IsSend(r, m) => call = Send(SentAt(r, m))
  /\ IsReceive(r, m) => call = Receive(m - 4 - Addresses # r.n)
  /\ m = Length(r) => call = Stop

RequestOK(r) ==
  /\ wide \in BOOLEAN /\ r \in Requests /\ Possible(r)

(* The two bytes of a register's number make it up again.                  *)
LEMMA WordIs ==
  ASSUME NEW x \in Word
  PROVE  /\ x \div 256 \in Byte /\ x % 256 \in Byte
         /\ x % 256 = x - 256 * (x \div 256) /\ x \div 256 \in Int
<1>1. x \in Int /\ 0 <= x /\ x < 65536
  BY DEF Word
<1>2. x % 256 \in 0 .. 255 /\ x % 256 = x - 256 * (x \div 256) /\ x \div 256 \in Int
  BY <1>1
<1>3. x \div 256 \in 0 .. 255
  <2>1. PICK q \in Int : q = x \div 256
    BY <1>2
  <2>2. PICK l \in 0 .. 255 : l = x % 256
    BY <1>2
  <2>3. l = x - 256 * q
    BY <2>1, <2>2, <1>2
  <2>4. q \in 0 .. 255
    BY <2>3, <1>1
  <2> QED BY <2>1, <2>4
<1> QED BY <1>2, <1>3 DEF Byte

LEMMA ByteIs ==
  ASSUME NEW x \in Byte
  PROVE  x % 256 = x
BY DEF Byte

(* What a request may ask for.  LENGTH > 0: I2C_MultipleRead of no byte at *)
(* all would leave the device driving the wire against the STOP.           *)
LEMMA RequestIs ==
  ASSUME NEW r, RequestOK(r), LENGTH > 0
  PROVE  /\ r.reg \in Registers /\ r.reg \in Word /\ r.reg \in Nat /\ High(r.reg) \in Byte /\ Low(r.reg) \in Byte
         /\ 256 * High(r.reg) + Low(r.reg) = r.reg
         /\ ~wide => Low(r.reg) = r.reg
         /\ r.kind \in {"write", "read"}
         /\ r.kind = "write" => r.value \in Byte /\ r.value \in Values
         /\ r.kind = "read" => r.n \in Nat \ {0} /\ \A i \in 1 .. r.n : r.reg + i - 1 \in Registers
<1>1. \/ r \in [kind : {"write"}, reg : Registers, value : Values]
      \/ r \in [kind : {"read"}, reg : Registers, n : {1}]
      \/ r \in [kind : {"read"}, reg : {x \in Registers : x .. (x + LENGTH - 1) \subseteq Registers},
                n : {LENGTH}]
  BY Zenon DEF RequestOK, Requests
<1>2. /\ r.reg \in Registers /\ r.kind \in {"write", "read"}
      /\ r.kind = "write" => r.value \in Values
      /\ r.kind = "read" => \/ r.n = 1
                            \/ r.n = LENGTH /\ r.reg .. (r.reg + LENGTH - 1) \subseteq Registers
  BY <1>1
<1>3. Registers \subseteq Word /\ Values \subseteq Byte /\ LENGTH \in Nat
  BY I2cAssumption
<1>4. r.reg \in Word /\ (r.kind = "write" => r.value \in Byte)
  BY <1>2, <1>3
<1>5. r.reg \in Nat
  <2>1. \A x \in Word : x \in Nat
    BY DEF Word
  <2> QED BY <2>1, <1>4
<1>7. /\ High(r.reg) \in Byte /\ Low(r.reg) \in Byte
      /\ 256 * High(r.reg) + Low(r.reg) = r.reg
      /\ ~wide => Low(r.reg) = r.reg
  <2>1. r.reg \div 256 \in Byte /\ r.reg % 256 \in Byte
    BY <1>4, WordIs
  <2>2. r.reg % 256 = r.reg - 256 * (r.reg \div 256) /\ r.reg \div 256 \in Int
    BY <1>4, WordIs
  <2>3. ~wide => r.reg % 256 = r.reg
    BY ByteIs DEF RequestOK, Possible
  <2>4. 256 * (r.reg \div 256) + (r.reg % 256) = r.reg
    <3>1. \A x, h \in Int : \A l : l = x - 256 * h => 256 * h + l = x
      OBVIOUS
    <3> QED BY <3>1, <2>2, <1>5
  <2> QED BY <2>1, <2>3, <2>4 DEF High, Low
<1>8. r.kind = "read" => r.n \in Nat \ {0} /\ \A i \in 1 .. r.n : r.reg + i - 1 \in Registers
  <2> SUFFICES ASSUME r.kind = "read" PROVE r.n \in Nat \ {0} /\ \A i \in 1 .. r.n : r.reg + i - 1 \in Registers
    OBVIOUS
  <2>1. CASE r.n = 1
    <3>1. \A x \in Nat : \A i \in 1 .. 1 : x + i - 1 = x
      OBVIOUS
    <3> QED BY <3>1, <2>1, <1>2, <1>5
  <2>2. CASE r.n = LENGTH /\ r.reg .. (r.reg + LENGTH - 1) \subseteq Registers
    <3>1. \A x, n \in Nat : \A i \in 1 .. n : x + i - 1 \in x .. (x + n - 1)
      OBVIOUS
    <3>2. \A i \in 1 .. LENGTH : r.reg + i - 1 \in r.reg .. (r.reg + LENGTH - 1)
      BY <3>1, <1>3, <1>5, Zenon
    <3> QED BY <3>2, <2>2, <1>3
  <2> QED BY <2>1, <2>2, <1>2
<1> QED BY <1>2, <1>4, <1>5, <1>7, <1>8

LEMMA CallTypes ==
  /\ Start \in AllCalls /\ Restart \in AllCalls /\ Stop \in AllCalls
  /\ \A b \in Byte : Send(b) \in AllCalls
  /\ \A ack \in BOOLEAN : Receive(ack) \in AllCalls
  /\ DEVICE \in Byte /\ DEVICE + 1 \in Byte /\ 0 \in Byte
<1>1. DEVICE \in Byte /\ DEVICE + 1 \in Byte /\ 0 \in Byte
  BY I2cAssumption DEF Byte
<1> QED BY <1>1, Zenon DEF AllCalls

(* The calls of the four kinds of transaction.                             *)
LEMMA SendAllIs ==
  /\ \A a, b \in Byte :
       /\ SendAll(<<a, b>>) \in Seq(AllCalls) /\ Len(SendAll(<<a, b>>)) = 2
       /\ SendAll(<<a, b>>)[1] = Send(a) /\ SendAll(<<a, b>>)[2] = Send(b)
  /\ \A a, b, c \in Byte :
       /\ SendAll(<<a, b, c>>) \in Seq(AllCalls) /\ Len(SendAll(<<a, b, c>>)) = 3
       /\ SendAll(<<a, b, c>>)[1] = Send(a) /\ SendAll(<<a, b, c>>)[2] = Send(b)
       /\ SendAll(<<a, b, c>>)[3] = Send(c)
  /\ \A a, b, c, d \in Byte :
       /\ SendAll(<<a, b, c, d>>) \in Seq(AllCalls) /\ Len(SendAll(<<a, b, c, d>>)) = 4
       /\ SendAll(<<a, b, c, d>>)[1] = Send(a) /\ SendAll(<<a, b, c, d>>)[2] = Send(b)
       /\ SendAll(<<a, b, c, d>>)[3] = Send(c) /\ SendAll(<<a, b, c, d>>)[4] = Send(d)
<1>1. ASSUME NEW n \in Nat, NEW x, DOMAIN x = 1 .. n, \A i \in 1 .. n : x[i] \in Byte
      PROVE  /\ SendAll(x) \in Seq(AllCalls) /\ Len(SendAll(x)) = n
             /\ \A i \in 1 .. n : SendAll(x)[i] = Send(x[i])
  <2>1. SendAll(x) = [i \in 1 .. n |-> Send(x[i])]
    BY <1>1 DEF SendAll
  <2>2. \A i \in 1 .. n : Send(x[i]) \in AllCalls
    BY <1>1, CallTypes
  <2> QED BY <2>1, <2>2, IsASeq
<1>2. ASSUME NEW a \in Byte, NEW b \in Byte
      PROVE  /\ SendAll(<<a, b>>) \in Seq(AllCalls) /\ Len(SendAll(<<a, b>>)) = 2
             /\ SendAll(<<a, b>>)[1] = Send(a) /\ SendAll(<<a, b>>)[2] = Send(b)
  <2> DEFINE x == <<a, b>>
  <2>1. DOMAIN x = 1 .. 2 /\ x[1] = a /\ x[2] = b /\ \A i \in 1 .. 2 : x[i] \in Byte
    OBVIOUS
  <2> HIDE DEF x
  <2>2. SendAll(x) \in Seq(AllCalls) /\ Len(SendAll(x)) = 2
        /\ \A i \in 1 .. 2 : SendAll(x)[i] = Send(x[i])
    BY <2>1, <1>1
  <2>3. SendAll(x)[1] = Send(x[1]) /\ SendAll(x)[2] = Send(x[2])
    BY <2>2
  <2> QED BY <2>1, <2>2, <2>3 DEF x
<1>3. ASSUME NEW a \in Byte, NEW b \in Byte, NEW c \in Byte
      PROVE  /\ SendAll(<<a, b, c>>) \in Seq(AllCalls) /\ Len(SendAll(<<a, b, c>>)) = 3
             /\ SendAll(<<a, b, c>>)[1] = Send(a) /\ SendAll(<<a, b, c>>)[2] = Send(b)
             /\ SendAll(<<a, b, c>>)[3] = Send(c)
  <2> DEFINE x == <<a, b, c>>
  <2>1. DOMAIN x = 1 .. 3 /\ x[1] = a /\ x[2] = b /\ x[3] = c /\ \A i \in 1 .. 3 : x[i] \in Byte
    OBVIOUS
  <2> HIDE DEF x
  <2>2. SendAll(x) \in Seq(AllCalls) /\ Len(SendAll(x)) = 3
        /\ \A i \in 1 .. 3 : SendAll(x)[i] = Send(x[i])
    BY <2>1, <1>1
  <2>3. SendAll(x)[1] = Send(x[1]) /\ SendAll(x)[2] = Send(x[2]) /\ SendAll(x)[3] = Send(x[3])
    BY <2>2
  <2> QED BY <2>1, <2>2, <2>3 DEF x
<1>4. ASSUME NEW a \in Byte, NEW b \in Byte, NEW c \in Byte, NEW d \in Byte
      PROVE  /\ SendAll(<<a, b, c, d>>) \in Seq(AllCalls) /\ Len(SendAll(<<a, b, c, d>>)) = 4
             /\ SendAll(<<a, b, c, d>>)[1] = Send(a) /\ SendAll(<<a, b, c, d>>)[2] = Send(b)
             /\ SendAll(<<a, b, c, d>>)[3] = Send(c) /\ SendAll(<<a, b, c, d>>)[4] = Send(d)
  <2> DEFINE x == <<a, b, c, d>>
  <2>1. DOMAIN x = 1 .. 4 /\ x[1] = a /\ x[2] = b /\ x[3] = c /\ x[4] = d
        /\ \A i \in 1 .. 4 : x[i] \in Byte
    OBVIOUS
  <2> HIDE DEF x
  <2>2. SendAll(x) \in Seq(AllCalls) /\ Len(SendAll(x)) = 4
        /\ \A i \in 1 .. 4 : SendAll(x)[i] = Send(x[i])
    BY <2>1, <1>1
  <2>3. SendAll(x)[1] = Send(x[1]) /\ SendAll(x)[2] = Send(x[2]) /\ SendAll(x)[3] = Send(x[3])
        /\ SendAll(x)[4] = Send(x[4])
    BY <2>2
  <2> QED BY <2>1, <2>2, <2>3 DEF x
<1> QED BY <1>2, <1>3, <1>4

LEMMA ReceiveAllIs ==
  ASSUME NEW n \in Nat
  PROVE  /\ ReceiveAll(n) \in Seq(AllCalls) /\ Len(ReceiveAll(n)) = n
         /\ \A i \in 1 .. n : ReceiveAll(n)[i] = Receive(i # n)
<1>1. \A i \in 1 .. n : Receive(i # n) \in AllCalls
  BY CallTypes
<1> QED BY <1>1, IsASeq DEF ReceiveAll

LEMMA StartsAreCalls ==
  ASSUME NEW c \in AllCalls, NEW d \in AllCalls, NEW e \in AllCalls, NEW f \in AllCalls
  PROVE  /\ <<c>> \in Seq(AllCalls) /\ Len(<<c>>) = 1 /\ <<c>>[1] = c
         /\ <<c, d>> \in Seq(AllCalls) /\ Len(<<c, d>>) = 2 /\ <<c, d>>[1] = c /\ <<c, d>>[2] = d
         /\ <<c, d, e, f>> \in Seq(AllCalls) /\ Len(<<c, d, e, f>>) = 4
         /\ <<c, d, e, f>>[1] = c /\ <<c, d, e, f>>[2] = d /\ <<c, d, e, f>>[3] = e /\ <<c, d, e, f>>[4] = f
OBVIOUS

LEMMA NarrowWrite ==
  ASSUME NEW r, RequestOK(r), LENGTH > 0, ~wide, r.kind = "write"
  PROVE  LET s == Calls(r) IN
         /\ s \in Seq(AllCalls) /\ Len(s) = 5 /\ s[1] = Start
         /\ s[2] = Send(DEVICE) /\ s[3] = Send(r.reg) /\ s[4] = Send(r.value)
         /\ s[5] = Stop
<1> DEFINE x == <<Start>>
           e == SendAll(<<DEVICE, r.reg, r.value>>)
           y == <<Stop>>
           s == (x \o e) \o y
<1>1. Calls(r) = s
  BY DEF Calls, I2C_Write, I2CL_Write
<1>2. DEVICE \in Byte /\ r.reg \in Byte /\ r.value \in Byte
  BY RequestIs, CallTypes DEF RequestOK, Possible
<1>3. e \in Seq(AllCalls) /\ Len(e) = 3
      /\ e[1] = Send(DEVICE) /\ e[2] = Send(r.reg) /\ e[3] = Send(r.value)
  BY <1>2, SendAllIs
<1>4. /\ x \in Seq(AllCalls) /\ Len(x) = 1 /\ x[1] = Start
      /\ y \in Seq(AllCalls) /\ Len(y) = 1 /\ y[1] = Stop
  BY CallTypes, StartsAreCalls
<1> HIDE DEF x, e, y
<1>5. /\ s \in Seq(AllCalls) /\ Len(s) = Len(x) + Len(e) + Len(y)
      /\ \A k \in 1 .. Len(x) : s[k] = x[k]
      /\ \A k \in 1 .. Len(e) : s[Len(x) + k] = e[k]
      /\ \A k \in 1 .. Len(y) : s[Len(x) + Len(e) + k] = y[k]
  <2>1. FramedBy(AllCalls, x, e, y, s)
    BY <1>3, <1>4, Framed, Zenon
  <2> HIDE DEF s
  <2> QED BY <2>1 DEF FramedBy
<1> HIDE DEF s
<1>6. /\ s[1] = x[1] /\ s[1 + 1] = e[1] /\ s[1 + 2] = e[2] /\ s[1 + 3] = e[3]
      /\ s[1 + 3 + 1] = y[1] /\ Len(s) = 5
  BY <1>3, <1>4, <1>5
<1>7. /\ s[2] = Send(DEVICE) /\ s[3] = Send(r.reg) /\ s[4] = Send(r.value)
      /\ s[1] = Start /\ s[5] = Stop /\ Len(s) = 5
  BY <1>3, <1>4, <1>6
<1> QED BY <1>1, <1>5, <1>7

LEMMA WideWrite ==
  ASSUME NEW r, RequestOK(r), LENGTH > 0, wide, r.kind = "write"
  PROVE  LET s == Calls(r) IN
         /\ s \in Seq(AllCalls) /\ Len(s) = 6 /\ s[1] = Start
         /\ s[2] = Send(DEVICE) /\ s[3] = Send(High(r.reg)) /\ s[4] = Send(Low(r.reg)) /\ s[5] = Send(r.value)
         /\ s[6] = Stop
<1> DEFINE x == <<Start>>
           e == SendAll(<<DEVICE, High(r.reg), Low(r.reg), r.value>>)
           y == <<Stop>>
           s == (x \o e) \o y
<1>1. Calls(r) = s
  BY DEF Calls, I2C_Write, I2CL_Write
<1>2. DEVICE \in Byte /\ High(r.reg) \in Byte /\ Low(r.reg) \in Byte /\ r.value \in Byte
  BY RequestIs, CallTypes
<1>3. e \in Seq(AllCalls) /\ Len(e) = 4
      /\ e[1] = Send(DEVICE) /\ e[2] = Send(High(r.reg)) /\ e[3] = Send(Low(r.reg)) /\ e[4] = Send(r.value)
  BY <1>2, SendAllIs
<1>4. /\ x \in Seq(AllCalls) /\ Len(x) = 1 /\ x[1] = Start
      /\ y \in Seq(AllCalls) /\ Len(y) = 1 /\ y[1] = Stop
  BY CallTypes, StartsAreCalls
<1> HIDE DEF x, e, y
<1>5. /\ s \in Seq(AllCalls) /\ Len(s) = Len(x) + Len(e) + Len(y)
      /\ \A k \in 1 .. Len(x) : s[k] = x[k]
      /\ \A k \in 1 .. Len(e) : s[Len(x) + k] = e[k]
      /\ \A k \in 1 .. Len(y) : s[Len(x) + Len(e) + k] = y[k]
  <2>1. FramedBy(AllCalls, x, e, y, s)
    BY <1>3, <1>4, Framed, Zenon
  <2> HIDE DEF s
  <2> QED BY <2>1 DEF FramedBy
<1> HIDE DEF s
<1>6. /\ s[1] = x[1] /\ s[1 + 1] = e[1] /\ s[1 + 2] = e[2] /\ s[1 + 3] = e[3] /\ s[1 + 4] = e[4]
      /\ s[1 + 4 + 1] = y[1] /\ Len(s) = 6
  BY <1>3, <1>4, <1>5
<1>7. /\ s[2] = Send(DEVICE) /\ s[3] = Send(High(r.reg)) /\ s[4] = Send(Low(r.reg)) /\ s[5] = Send(r.value)
      /\ s[1] = Start /\ s[6] = Stop /\ Len(s) = 6
  BY <1>3, <1>4, <1>6
<1> QED BY <1>1, <1>5, <1>7

LEMMA NarrowRead ==
  ASSUME NEW r, RequestOK(r), LENGTH > 0, ~wide, r.kind = "read"
  PROVE  LET s == Calls(r) IN
         /\ s \in Seq(AllCalls) /\ Len(s) = 6 + r.n /\ s[1] = Start
         /\ s[2] = Send(DEVICE) /\ s[3] = Send(r.reg)
         /\ s[4] = (IF r.n > 1 THEN Restart ELSE Start) /\ s[5] = Send(DEVICE + 1)
         /\ \A i \in 1 .. r.n : s[5 + i] = Receive(i # r.n)
         /\ s[6 + r.n] = Stop
<1>1. DEVICE \in Byte /\ r.reg \in Byte
  BY RequestIs, CallTypes DEF RequestOK, Possible
<1>2. r.n \in Nat \ {0}
  BY RequestIs
<1> DEFINE x == <<Start>>
           e == SendAll(<<DEVICE, r.reg>>)
<1>3. e \in Seq(AllCalls) /\ Len(e) = 2
      /\ e[1] = Send(DEVICE) /\ e[2] = Send(r.reg)
  BY <1>1, SendAllIs
<1>4. x \in Seq(AllCalls) /\ Len(x) = 1 /\ x[1] = Start
  BY CallTypes, StartsAreCalls
<1>5. CASE r.n = 1
  <2> DEFINE y == <<Start, Send(DEVICE + 1), Receive(FALSE), Stop>>
             s == (x \o e) \o y
  <2>1. Calls(r) = s
    BY <1>5 DEF Calls, I2C_Read, I2CL_Read
  <2>2. /\ y \in Seq(AllCalls) /\ Len(y) = 4 /\ y[1] = Start /\ y[2] = Send(DEVICE + 1)
        /\ y[3] = Receive(FALSE) /\ y[4] = Stop
    BY CallTypes, StartsAreCalls
  <2> HIDE DEF x, e, y
  <2>3. /\ s \in Seq(AllCalls) /\ Len(s) = Len(x) + Len(e) + Len(y)
        /\ \A k \in 1 .. Len(x) : s[k] = x[k]
        /\ \A k \in 1 .. Len(e) : s[Len(x) + k] = e[k]
        /\ \A k \in 1 .. Len(y) : s[Len(x) + Len(e) + k] = y[k]
    <3>1. FramedBy(AllCalls, x, e, y, s)
      BY <1>3, <1>4, <2>2, Framed, Zenon
    <3> HIDE DEF s
    <3> QED BY <3>1 DEF FramedBy
  <2> HIDE DEF s
  <2>4. /\ s[1] = x[1] /\ s[1 + 1] = e[1] /\ s[1 + 2] = e[2]
        /\ s[1 + 2 + 1] = y[1] /\ s[1 + 2 + 2] = y[2] /\ s[1 + 2 + 3] = y[3]
        /\ s[1 + 2 + 4] = y[4] /\ Len(s) = 7
    <3>1. /\ \A k \in 1 .. 1 : s[k] = x[k]
          /\ \A k \in 1 .. 2 : s[1 + k] = e[k]
          /\ \A k \in 1 .. 4 : s[1 + 2 + k] = y[k]
          /\ Len(s) = 1 + 2 + 4
      BY <1>3, <1>4, <2>2, <2>3
    <3>2. s[1 + 2 + 1] = y[1] /\ s[1 + 2 + 2] = y[2] /\ s[1 + 2 + 3] = y[3]
          /\ s[1 + 2 + 4] = y[4]
      BY <3>1
    <3>3. s[1] = x[1] /\ s[1 + 1] = e[1] /\ s[1 + 2] = e[2]
      BY <3>1
    <3> QED BY <3>1, <3>2, <3>3
  <2>5. /\ s[2] = Send(DEVICE) /\ s[3] = Send(r.reg)
        /\ s[1] = Start /\ s[4] = Start /\ s[5] = Send(DEVICE + 1)
        /\ s[6] = Receive(FALSE) /\ s[7] = Stop
    <3>1. 1 + 2 + 1 = 4 /\ 1 + 2 + 2 = 5 /\ 1 + 2 + 3 = 6 /\ 1 + 2 + 4 = 7
          /\ 1 + 1 = 2 /\ 1 + 2 = 3
      OBVIOUS
    <3> QED BY <3>1, <1>3, <1>4, <2>2, <2>4
  <2>6. \A i \in 1 .. r.n : s[5 + i] = Receive(i # r.n)
    <3>1. \A i \in 1 .. 1 : i = 1 /\ 5 + i = 6 /\ (i # 1) = FALSE
      OBVIOUS
    <3> QED BY <3>1, <1>5, <2>5
  <2>7. 6 + r.n = 7 /\ ~(r.n > 1)
    BY <1>5
  <2> QED BY <2>1, <2>3, <2>4, <2>5, <2>6, <2>7
<1>6. CASE r.n # 1
  <2> DEFINE y == <<Restart, Send(DEVICE + 1)>>
             h == (x \o e) \o y
             q == ReceiveAll(r.n)
             z == <<Stop>>
             s == (h \o q) \o z
  <2>1. Calls(r) = s
    <3>1. r.kind # "write" /\ ~(r.kind = "read" /\ r.n = 1)
      BY <1>6
    <3>2. Calls(r) = I2C_MultipleRead(r.reg, r.n)
      BY <3>1 DEF Calls
    <3> QED BY <3>2 DEF I2C_MultipleRead
  <2>2. /\ y \in Seq(AllCalls) /\ Len(y) = 2 /\ y[1] = Restart /\ y[2] = Send(DEVICE + 1)
        /\ z \in Seq(AllCalls) /\ Len(z) = 1 /\ z[1] = Stop
    BY CallTypes, StartsAreCalls
  <2>3. /\ q \in Seq(AllCalls) /\ Len(q) = r.n
        /\ \A i \in 1 .. r.n : q[i] = Receive(i # r.n)
    BY <1>2, ReceiveAllIs
  <2> HIDE DEF x, e, y, q, z
  <2>4. /\ h \in Seq(AllCalls) /\ Len(h) = Len(x) + Len(e) + Len(y)
        /\ \A k \in 1 .. Len(x) : h[k] = x[k]
        /\ \A k \in 1 .. Len(e) : h[Len(x) + k] = e[k]
        /\ \A k \in 1 .. Len(y) : h[Len(x) + Len(e) + k] = y[k]
    <3>1. FramedBy(AllCalls, x, e, y, h)
      BY <1>3, <1>4, <2>2, Framed, Zenon
    <3> HIDE DEF h
    <3> QED BY <3>1 DEF FramedBy
  <2> HIDE DEF h
  <2>5. /\ s \in Seq(AllCalls) /\ Len(s) = Len(h) + Len(q) + Len(z)
        /\ \A k \in 1 .. Len(h) : s[k] = h[k]
        /\ \A k \in 1 .. Len(q) : s[Len(h) + k] = q[k]
        /\ \A k \in 1 .. Len(z) : s[Len(h) + Len(q) + k] = z[k]
    <3>1. FramedBy(AllCalls, h, q, z, s)
      BY <2>2, <2>3, <2>4, Framed, Zenon
    <3> HIDE DEF s
    <3> QED BY <3>1 DEF FramedBy
  <2> HIDE DEF s
  <2>6. /\ h[1] = x[1] /\ h[1 + 1] = e[1] /\ h[1 + 2] = e[2]
        /\ h[1 + 2 + 1] = y[1] /\ h[1 + 2 + 2] = y[2] /\ Len(h) = 5
    BY <1>3, <1>4, <2>2, <2>4
  <2>7. /\ h[2] = Send(DEVICE) /\ h[3] = Send(r.reg)
        /\ h[1] = Start /\ h[4] = Restart /\ h[5] = Send(DEVICE + 1)
    BY <1>3, <1>4, <2>2, <2>6
  <2>8. \A k \in 1 .. 5 : s[k] = h[k]
    BY <2>5, <2>6
  <2>9. s[1] = h[1] /\ s[2] = h[2] /\ s[3] = h[3] /\ s[4] = h[4] /\ s[5] = h[5]
    BY <2>8
  <2>10. \A i \in 1 .. r.n : s[5 + i] = Receive(i # r.n)
    BY <2>3, <2>5, <2>6
  <2>11. s[6 + r.n] = Stop /\ Len(s) = 6 + r.n /\ r.n > 1
    <3>1. s[5 + r.n + 1] = z[1] /\ Len(s) = 5 + r.n + 1
      BY <1>2, <2>2, <2>3, <2>5, <2>6
    <3>2. 5 + r.n + 1 = 6 + r.n /\ r.n > 1
      BY <1>2, <1>6
    <3> QED BY <3>1, <3>2, <2>2
  <2> QED BY <2>1, <2>5, <2>7, <2>9, <2>10, <2>11
<1> QED BY <1>5, <1>6

LEMMA WideRead ==
  ASSUME NEW r, RequestOK(r), LENGTH > 0, wide, r.kind = "read"
  PROVE  LET s == Calls(r) IN
         /\ s \in Seq(AllCalls) /\ Len(s) = 7 + r.n /\ s[1] = Start
         /\ s[2] = Send(DEVICE) /\ s[3] = Send(High(r.reg)) /\ s[4] = Send(Low(r.reg))
         /\ s[5] = (IF r.n > 1 THEN Restart ELSE Start) /\ s[6] = Send(DEVICE + 1)
         /\ \A i \in 1 .. r.n : s[6 + i] = Receive(i # r.n)
         /\ s[7 + r.n] = Stop
<1>1. DEVICE \in Byte /\ High(r.reg) \in Byte /\ Low(r.reg) \in Byte
  BY RequestIs, CallTypes
<1>2. r.n \in Nat \ {0}
  BY RequestIs
<1> DEFINE x == <<Start>>
           e == SendAll(<<DEVICE, High(r.reg), Low(r.reg)>>)
<1>3. e \in Seq(AllCalls) /\ Len(e) = 3
      /\ e[1] = Send(DEVICE) /\ e[2] = Send(High(r.reg)) /\ e[3] = Send(Low(r.reg))
  BY <1>1, SendAllIs
<1>4. x \in Seq(AllCalls) /\ Len(x) = 1 /\ x[1] = Start
  BY CallTypes, StartsAreCalls
<1>5. CASE r.n = 1
  <2> DEFINE y == <<Start, Send(DEVICE + 1), Receive(FALSE), Stop>>
             s == (x \o e) \o y
  <2>1. Calls(r) = s
    BY <1>5 DEF Calls, I2C_Read, I2CL_Read
  <2>2. /\ y \in Seq(AllCalls) /\ Len(y) = 4 /\ y[1] = Start /\ y[2] = Send(DEVICE + 1)
        /\ y[3] = Receive(FALSE) /\ y[4] = Stop
    BY CallTypes, StartsAreCalls
  <2> HIDE DEF x, e, y
  <2>3. /\ s \in Seq(AllCalls) /\ Len(s) = Len(x) + Len(e) + Len(y)
        /\ \A k \in 1 .. Len(x) : s[k] = x[k]
        /\ \A k \in 1 .. Len(e) : s[Len(x) + k] = e[k]
        /\ \A k \in 1 .. Len(y) : s[Len(x) + Len(e) + k] = y[k]
    <3>1. FramedBy(AllCalls, x, e, y, s)
      BY <1>3, <1>4, <2>2, Framed, Zenon
    <3> HIDE DEF s
    <3> QED BY <3>1 DEF FramedBy
  <2> HIDE DEF s
  <2>4. /\ s[1] = x[1] /\ s[1 + 1] = e[1] /\ s[1 + 2] = e[2] /\ s[1 + 3] = e[3]
        /\ s[1 + 3 + 1] = y[1] /\ s[1 + 3 + 2] = y[2] /\ s[1 + 3 + 3] = y[3]
        /\ s[1 + 3 + 4] = y[4] /\ Len(s) = 8
    <3>1. /\ \A k \in 1 .. 1 : s[k] = x[k]
          /\ \A k \in 1 .. 3 : s[1 + k] = e[k]
          /\ \A k \in 1 .. 4 : s[1 + 3 + k] = y[k]
          /\ Len(s) = 1 + 3 + 4
      BY <1>3, <1>4, <2>2, <2>3
    <3>2. s[1 + 3 + 1] = y[1] /\ s[1 + 3 + 2] = y[2] /\ s[1 + 3 + 3] = y[3]
          /\ s[1 + 3 + 4] = y[4]
      BY <3>1
    <3>3. s[1] = x[1] /\ s[1 + 1] = e[1] /\ s[1 + 2] = e[2] /\ s[1 + 3] = e[3]
      BY <3>1
    <3> QED BY <3>1, <3>2, <3>3
  <2>5. /\ s[2] = Send(DEVICE) /\ s[3] = Send(High(r.reg)) /\ s[4] = Send(Low(r.reg))
        /\ s[1] = Start /\ s[5] = Start /\ s[6] = Send(DEVICE + 1)
        /\ s[7] = Receive(FALSE) /\ s[8] = Stop
    <3>1. 1 + 3 + 1 = 5 /\ 1 + 3 + 2 = 6 /\ 1 + 3 + 3 = 7 /\ 1 + 3 + 4 = 8
          /\ 1 + 1 = 2 /\ 1 + 2 = 3 /\ 1 + 3 = 4
      OBVIOUS
    <3> QED BY <3>1, <1>3, <1>4, <2>2, <2>4
  <2>6. \A i \in 1 .. r.n : s[6 + i] = Receive(i # r.n)
    <3>1. \A i \in 1 .. 1 : i = 1 /\ 6 + i = 7 /\ (i # 1) = FALSE
      OBVIOUS
    <3> QED BY <3>1, <1>5, <2>5
  <2>7. 7 + r.n = 8 /\ ~(r.n > 1)
    BY <1>5
  <2> QED BY <2>1, <2>3, <2>4, <2>5, <2>6, <2>7
<1>6. CASE r.n # 1
  <2> DEFINE y == <<Restart, Send(DEVICE + 1)>>
             h == (x \o e) \o y
             q == ReceiveAll(r.n)
             z == <<Stop>>
             s == (h \o q) \o z
  <2>1. Calls(r) = s
    <3>1. r.kind # "write" /\ ~(r.kind = "read" /\ r.n = 1)
      BY <1>6
    <3>2. Calls(r) = I2CL_MultipleRead(r.n)
      BY <3>1 DEF Calls
    <3>3. High(r.reg) = 0 /\ Low(r.reg) = 0
      <4>1. r.reg = 0
        BY <1>2, <1>6 DEF RequestOK, Possible
      <4>2. 0 \div 256 = 0 /\ 0 % 256 = 0
        OBVIOUS
      <4> QED BY <4>1, <4>2 DEF High, Low
    <3> QED BY <3>2, <3>3 DEF I2CL_MultipleRead
  <2>2. /\ y \in Seq(AllCalls) /\ Len(y) = 2 /\ y[1] = Restart /\ y[2] = Send(DEVICE + 1)
        /\ z \in Seq(AllCalls) /\ Len(z) = 1 /\ z[1] = Stop
    BY CallTypes, StartsAreCalls
  <2>3. /\ q \in Seq(AllCalls) /\ Len(q) = r.n
        /\ \A i \in 1 .. r.n : q[i] = Receive(i # r.n)
    BY <1>2, ReceiveAllIs
  <2> HIDE DEF x, e, y, q, z
  <2>4. /\ h \in Seq(AllCalls) /\ Len(h) = Len(x) + Len(e) + Len(y)
        /\ \A k \in 1 .. Len(x) : h[k] = x[k]
        /\ \A k \in 1 .. Len(e) : h[Len(x) + k] = e[k]
        /\ \A k \in 1 .. Len(y) : h[Len(x) + Len(e) + k] = y[k]
    <3>1. FramedBy(AllCalls, x, e, y, h)
      BY <1>3, <1>4, <2>2, Framed, Zenon
    <3> HIDE DEF h
    <3> QED BY <3>1 DEF FramedBy
  <2> HIDE DEF h
  <2>5. /\ s \in Seq(AllCalls) /\ Len(s) = Len(h) + Len(q) + Len(z)
        /\ \A k \in 1 .. Len(h) : s[k] = h[k]
        /\ \A k \in 1 .. Len(q) : s[Len(h) + k] = q[k]
        /\ \A k \in 1 .. Len(z) : s[Len(h) + Len(q) + k] = z[k]
    <3>1. FramedBy(AllCalls, h, q, z, s)
      BY <2>2, <2>3, <2>4, Framed, Zenon
    <3> HIDE DEF s
    <3> QED BY <3>1 DEF FramedBy
  <2> HIDE DEF s
  <2>6. /\ h[1] = x[1] /\ h[1 + 1] = e[1] /\ h[1 + 2] = e[2] /\ h[1 + 3] = e[3]
        /\ h[1 + 3 + 1] = y[1] /\ h[1 + 3 + 2] = y[2] /\ Len(h) = 6
    BY <1>3, <1>4, <2>2, <2>4
  <2>7. /\ h[2] = Send(DEVICE) /\ h[3] = Send(High(r.reg)) /\ h[4] = Send(Low(r.reg))
        /\ h[1] = Start /\ h[5] = Restart /\ h[6] = Send(DEVICE + 1)
    BY <1>3, <1>4, <2>2, <2>6
  <2>8. \A k \in 1 .. 6 : s[k] = h[k]
    BY <2>5, <2>6
  <2>9. s[1] = h[1] /\ s[2] = h[2] /\ s[3] = h[3] /\ s[4] = h[4] /\ s[5] = h[5] /\ s[6] = h[6]
    BY <2>8
  <2>10. \A i \in 1 .. r.n : s[6 + i] = Receive(i # r.n)
    BY <2>3, <2>5, <2>6
  <2>11. s[7 + r.n] = Stop /\ Len(s) = 7 + r.n /\ r.n > 1
    <3>1. s[6 + r.n + 1] = z[1] /\ Len(s) = 6 + r.n + 1
      BY <1>2, <2>2, <2>3, <2>5, <2>6
    <3>2. 6 + r.n + 1 = 7 + r.n /\ r.n > 1
      BY <1>2, <1>6
    <3> QED BY <3>1, <3>2, <2>2
  <2> QED BY <2>1, <2>5, <2>7, <2>9, <2>10, <2>11
<1> QED BY <1>5, <1>6

(* For every request the m-th call is the one that IsStart, IsSend,        *)
(* IsReceive and Length say.                                               *)
LEMMA CallsAre ==
  ASSUME NEW r, RequestOK(r), LENGTH > 0
  PROVE  /\ Calls(r) \in Seq(AllCalls) /\ Len(Calls(r)) = Length(r) /\ Length(r) \in Nat
         /\ \A m \in 1 .. Length(r) : CallIs(r, m, Calls(r)[m])
<1>1. /\ r.kind \in {"write", "read"} /\ wide \in BOOLEAN /\ (~wide => Low(r.reg) = r.reg)
      /\ r.kind = "read" => r.n \in Nat \ {0}
  BY RequestIs DEF RequestOK
<1> DEFINE s == Calls(r)
<1> SUFFICES /\ s \in Seq(AllCalls) /\ Len(s) = Length(r) /\ Length(r) \in Nat
             /\ \A m \in 1 .. Length(r) : CallIs(r, m, s[m])
  OBVIOUS
<1>2. CASE ~wide /\ r.kind = "write"
  <2>1. /\ s \in Seq(AllCalls) /\ Len(s) = 5 /\ s[1] = Start
        /\ s[2] = Send(DEVICE) /\ s[3] = Send(r.reg) /\ s[4] = Send(r.value) /\ s[5] = Stop
    BY <1>2, NarrowWrite
  <2> HIDE DEF s
  <2>2. Addresses = 1 /\ Length(r) = 5
    BY <1>2 DEF Addresses, Length
  <2> QED BY <2>1, <2>2, <1>1, <1>2 DEF CallIs, IsStart, IsSend, IsReceive, SentAt
<1>3. CASE wide /\ r.kind = "write"
  <2>1. /\ s \in Seq(AllCalls) /\ Len(s) = 6 /\ s[1] = Start
        /\ s[2] = Send(DEVICE) /\ s[3] = Send(High(r.reg)) /\ s[4] = Send(Low(r.reg))
        /\ s[5] = Send(r.value) /\ s[6] = Stop
    BY <1>3, WideWrite
  <2> HIDE DEF s
  <2>2. Addresses = 2 /\ Length(r) = 6
    BY <1>3 DEF Addresses, Length
  <2> QED BY <2>1, <2>2, <1>1, <1>3 DEF CallIs, IsStart, IsSend, IsReceive, SentAt
<1>4. CASE ~wide /\ r.kind = "read"
  <2>1. /\ s \in Seq(AllCalls) /\ Len(s) = 6 + r.n /\ s[1] = Start
        /\ s[2] = Send(DEVICE) /\ s[3] = Send(r.reg)
        /\ s[4] = (IF r.n > 1 THEN Restart ELSE Start) /\ s[5] = Send(DEVICE + 1)
        /\ \A i \in 1 .. r.n : s[5 + i] = Receive(i # r.n)
        /\ s[6 + r.n] = Stop
    BY <1>4, NarrowRead
  <2> HIDE DEF s
  <2>2. Addresses = 1 /\ Length(r) = 6 + r.n
    BY <1>4 DEF Addresses, Length
  <2>3. \A m \in 6 .. 5 + r.n : s[m] = Receive(m - 4 - 1 # r.n)
    <3> TAKE m \in 6 .. 5 + r.n
    <3>1. m - 5 \in 1 .. r.n /\ 5 + (m - 5) = m /\ m - 4 - 1 = m - 5
      BY <1>1, <1>4
    <3> QED BY <3>1, <2>1
  <2>4. ASSUME NEW m \in 1 .. Length(r) PROVE CallIs(r, m, s[m])
    <3>1. IsStart(r, m) => s[m] = (IF m > 1 /\ r.n > 1 THEN Restart ELSE Start)
      BY <2>1, <2>2, <1>4 DEF IsStart
    <3>2. IsSend(r, m) => s[m] = Send(SentAt(r, m))
      <4>1. IsSend(r, m) => m \in {2, 3, 5}
        BY <2>2, <1>4 DEF IsSend
      <4> QED BY <4>1, <2>1, <2>2, <1>1, <1>4 DEF SentAt
    <3>3. IsReceive(r, m) => s[m] = Receive(m - 4 - Addresses # r.n)
      BY <2>2, <2>3 DEF IsReceive
    <3>4. m = Length(r) => s[m] = Stop
      BY <2>1, <2>2
    <3> QED BY <3>1, <3>2, <3>3, <3>4 DEF CallIs
  <2> QED BY <2>1, <2>2, <2>4, <1>1, <1>4
<1>5. CASE wide /\ r.kind = "read"
  <2>1. /\ s \in Seq(AllCalls) /\ Len(s) = 7 + r.n /\ s[1] = Start
        /\ s[2] = Send(DEVICE) /\ s[3] = Send(High(r.reg)) /\ s[4] = Send(Low(r.reg))
        /\ s[5] = (IF r.n > 1 THEN Restart ELSE Start) /\ s[6] = Send(DEVICE + 1)
        /\ \A i \in 1 .. r.n : s[6 + i] = Receive(i # r.n)
        /\ s[7 + r.n] = Stop
    BY <1>5, WideRead
  <2> HIDE DEF s
  <2>2. Addresses = 2 /\ Length(r) = 7 + r.n
    BY <1>5 DEF Addresses, Length
  <2>3. \A m \in 7 .. 6 + r.n : s[m] = Receive(m - 4 - 2 # r.n)
    <3> TAKE m \in 7 .. 6 + r.n
    <3>1. m - 6 \in 1 .. r.n /\ 6 + (m - 6) = m /\ m - 4 - 2 = m - 6
      BY <1>1, <1>5
    <3> QED BY <3>1, <2>1
  <2>4. ASSUME NEW m \in 1 .. Length(r) PROVE CallIs(r, m, s[m])
    <3>1. IsStart(r, m) => s[m] = (IF m > 1 /\ r.n > 1 THEN Restart ELSE Start)
      BY <2>1, <2>2, <1>5 DEF IsStart
    <3>2. IsSend(r, m) => s[m] = Send(SentAt(r, m))
      <4>1. IsSend(r, m) => m \in {2, 3, 4, 6}
        BY <2>2, <1>5 DEF IsSend
      <4> QED BY <4>1, <2>1, <2>2, <1>1, <1>5 DEF SentAt
    <3>3. IsReceive(r, m) => s[m] = Receive(m - 4 - Addresses # r.n)
      BY <2>2, <2>3 DEF IsReceive
    <3>4. m = Length(r) => s[m] = Stop
      BY <2>1, <2>2
    <3> QED BY <3>1, <3>2, <3>3, <3>4 DEF CallIs
  <2> QED BY <2>1, <2>2, <2>4, <1>1, <1>5
<1> QED BY <1>1, <1>2, <1>3, <1>4, <1>5

(* The invariant: at every place of every call, what the ports, the device *)
(* and the call hold.                                                      *)
Phases == {"idle", "receive", "ack", "ignore", "send", "master"}
Wants == {"device", "high", "low", "value", "send"}
Device(phase, want, bits, count, pull, pointer) ==
  [phase |-> phase, want |-> want, bits |-> bits, count |-> count, pull |-> pull, pointer |-> pointer]

WireTypes ==
  /\ scl \in Bit /\ sda \in Bit /\ dir \in Bit /\ taken \in BOOLEAN
  /\ wide \in BOOLEAN /\ regs \in [Registers -> Byte]
  /\ device \in [phase : Phases, want : Wants, bits : Byte, count : 0 .. 8,
                 pull : BOOLEAN, pointer : Nat]

(* The bus between transactions; and a device that waits for a START.      *)
Free == scl = 1 /\ sda = 1 /\ device.phase = "idle" /\ ~device.pull

Rested ==
  /\ ~device.pull
  /\ \/ device.phase \in {"idle", "ignore"}
     \/ device.phase = "receive" /\ device.count = 0 /\ device.bits = 0

(* What a call leaves for the next: the bytes read so far, what the device *)
(* waits for, and the register that it points to.                          *)
Got(r, m) == IF r.kind = "write" \/ m <= 4 + Addresses THEN 0
             ELSE IF m > 4 + Addresses + r.n THEN r.n ELSE m - 4 - Addresses

WantAt(r, m) ==
  CASE m = 1 -> "device"
    [] m = 2 -> IF wide THEN "high" ELSE "low"
    [] m = 3 /\ wide -> "low"
    [] m = 2 + Addresses -> "value"
    [] m = 3 + Addresses -> IF r.kind = "write" THEN "value" ELSE "device"
    [] m > 3 + Addresses -> "send"

PointerOK(r, m, p) ==
  /\ m = 3 /\ wide => p = 256 * High(r.reg)
  /\ m = 2 + Addresses => p = r.reg
  /\ m = 3 + Addresses /\ r.kind = "write" => p = r.reg + 1
  /\ m >= 3 + Addresses /\ r.kind = "read" => p = r.reg + Got(r, m)

Sends(n) ==
  /\ device.phase = "send" /\ device.want = "send" /\ device.count = n
  /\ device.pull = (BitOf(regs[device.pointer], n) = 0)

(* The device before the next call, if every byte so far was acknowledged. *)
Ready(r, m) ==
  IF r.kind = "read" /\ m >= 4 + Addresses
  THEN IF Got(r, m) < r.n THEN Sends(1) /\ device.pointer = r.reg + Got(r, m)
       ELSE device.phase = "ignore" /\ ~device.pull
  ELSE /\ device = Device("receive", WantAt(r, m), 0, 0, FALSE, device.pointer)
       /\ PointerOK(r, m, device.pointer)

(* What the transaction has read, and whether the value has been taken.    *)
Result(r, m, ok, data) ==
  /\ data = IF ok /\ Got(r, m) > 0 THEN [i \in 1 .. Got(r, m) |-> regs[r.reg + i - 1]] ELSE << >>
  /\ taken = (ok /\ r.kind = "write" /\ m >= 3 + Addresses)

(* The places: between two calls, and at the k-th access of each kind of   *)
(* call.                                                                   *)
Frame(r, calls, ops, ok, byte, data) ==
  [request |-> r, calls |-> calls, ops |-> ops, bSuccess |-> ok, byte |-> byte, data |-> data]

Doing(r, m, ops, ok, byte, data) ==
  /\ stack = <<Frame(r, Drop(Calls(r), m), ops, ok, byte, data)>>
  /\ ok \in BOOLEAN /\ byte \in Byte

Between(r, m, ok, byte, data) ==
  /\ Doing(r, m, << >>, ok, byte, data) /\ Result(r, m, ok, data)
  /\ m = 0 => ok
  /\ IF m \in {0, Length(r)} THEN Free
     ELSE scl = 0 /\ (ok => Ready(r, m)) /\ (~ok => Rested)

Starting(r, m, k, ok, byte, data) ==
  /\ Doing(r, m, Drop(i2c_start, k), ok, byte, data) /\ Result(r, m, ok, data)
  /\ IsStart(r, m) /\ (ok => PointerOK(r, m, device.pointer))
  /\ k <= 2 => Rested /\ (scl = 0 \/ sda = 1)
  /\ k >= 1 => dir = 1
  /\ k \in {2, 3} => sda = 1
  /\ k = 3 => scl = 1 /\ ~device.pull
  /\ k = 4 => /\ scl = 1 /\ sda = 0
              /\ device = Device("receive", "device", 0, 0, FALSE, device.pointer)

Stopping(r, m, k, ok, byte, data) ==
  /\ Doing(r, m, Drop(i2c_stop, k), ok, byte, data) /\ Result(r, m, ok, data)
  /\ m = Length(r)
  /\ k <= 2 => Rested /\ scl = 0
  /\ k >= 1 => dir = 1
  /\ k >= 2 => sda = 0
  /\ k = 3 => scl = 1 /\ ~device.pull

(* i2c_write: n bits are sent, and j accesses of the next one are made;    *)
(* then the acknowledge.                                                   *)
Shifted(r, m, n) ==
  /\ device = Device("receive", WantAt(r, m - 1), Prefix(SentAt(r, m), n), n, FALSE, device.pointer)
  /\ PointerOK(r, m - 1, device.pointer)

WriteBit(r, m, n, j, ok, byte, data) ==
  /\ IsSend(r, m)
  /\ Doing(r, m, Drop(i2c_write(SentAt(r, m)), 4 * n + j), ok, byte, data)
  /\ ok /\ data = << >> /\ ~taken /\ Shifted(r, m, n)
  /\ scl = (IF j = 0 /\ n > 0 THEN 1 ELSE 0)
  /\ n > 0 \/ j > 0 => dir = 1
  /\ j = 3 => sda = BitOf(SentAt(r, m), n + 1)

Answered(r, m) ==
  IF device.phase = "ack"
  THEN /\ device.pull /\ device.want = WantAt(r, m) /\ PointerOK(r, m, device.pointer)
       /\ taken = (r.kind = "write" /\ m = 3 + Addresses)
  ELSE device.phase = "ignore" /\ ~device.pull /\ ~taken

WriteEnd(r, m, k, ok, byte, data) ==
  /\ IsSend(r, m)
  /\ Doing(r, m, Drop(i2c_write(SentAt(r, m)), k), ok, byte, data)
  /\ data = << >>
  /\ k = 32 => Shifted(r, m, 8) /\ ~taken
  /\ k > 32 => Answered(r, m)
  /\ k >= 34 => dir = 0
  /\ scl = (IF k \in {32, 35, 36} THEN 1 ELSE 0)
  /\ ok = (k = 36 => device.phase = "ack")

(* i2c_read: the byte of the register Source, acknowledged if it is not    *)
(* the last.                                                               *)
Acked(r, m) == m - 4 - Addresses # r.n
Source(r, m) == r.reg + (m - 5 - Addresses)

Reading(r, m, k, ok, byte, data) ==
  /\ IsReceive(r, m)
  /\ Doing(r, m, Drop(i2c_read(Acked(r, m)), k), ok, byte, data)
  /\ ok /\ Result(r, m - 1, TRUE, data)

ReadStart(r, m, k, ok, byte, data) ==
  /\ Reading(r, m, k, ok, byte, data)
  /\ Sends(1) /\ device.pointer = Source(r, m) /\ scl = 0 /\ byte = 0
  /\ k = 1 => dir = 0

ReadBit(r, m, n, j, ok, byte, data) ==
  /\ Reading(r, m, 3 * n + 2 + j, ok, byte, data)
  /\ Sends(n + 1) /\ device.pointer = Source(r, m)
  /\ dir = 0 /\ scl = (IF j = 0 THEN 0 ELSE 1)
  /\ byte = Prefix(regs[Source(r, m)], IF j = 2 THEN n + 1 ELSE n)

ReadEnd(r, m, k, ok, byte, data) ==
  /\ Reading(r, m, k, ok, byte, data)
  /\ k <= 30 => /\ device.phase = "master" /\ device.want = "send" /\ ~device.pull
                /\ device.pointer = Source(r, m)
  /\ k > 30 => Ready(r, m)
  /\ k >= 28 => dir = 1
  /\ k \in {29, 30} => sda = (IF Acked(r, m) THEN 0 ELSE 1)
  /\ k = 30 => device.bits = sda
  /\ scl = (IF k = 30 THEN 1 ELSE 0)
  /\ byte = regs[Source(r, m)]

(* The invariant of a bus that no reset has hit: it is free, or a request  *)
(* is at one of these places.                                              *)
At(r, m, ok, byte, data) ==
  \/ Between(r, m, ok, byte, data)
  \/ m > 0 /\ \/ \E k \in 0 .. 4 : Starting(r, m, k, ok, byte, data)
              \/ \E k \in 0 .. 3 : Stopping(r, m, k, ok, byte, data)
              \/ \E n \in 0 .. 7, j \in 0 .. 3 : WriteBit(r, m, n, j, ok, byte, data)
              \/ \E k \in 32 .. 36 : WriteEnd(r, m, k, ok, byte, data)
              \/ \E k \in 0 .. 1 : ReadStart(r, m, k, ok, byte, data)
              \/ \E n \in 0 .. 7, j \in 0 .. 2 : ReadBit(r, m, n, j, ok, byte, data)
              \/ \E k \in 26 .. 32 : ReadEnd(r, m, k, ok, byte, data)

Busy(r) ==
  /\ RequestOK(r)
  /\ \E m \in 0 .. Length(r) : \E ok, byte, data : At(r, m, ok, byte, data)

BusInv ==
  /\ resets \in Nat
  /\ resets = 0 =>
       /\ WireTypes /\ since = SINCE
       /\ \/ stack = << >> /\ Free
          \/ \E r : Busy(r)

(* What the state variables behind the places are: no step changes wide,   *)
(* and so none of these.                                                   *)
LEMMA Static ==
  ASSUME NEW r, NEW m, wide' = wide
  PROVE  /\ Addresses' = Addresses /\ Length(r)' = Length(r) /\ Calls(r)' = Calls(r)
         /\ SentAt(r, m)' = SentAt(r, m) /\ WantAt(r, m)' = WantAt(r, m) /\ Got(r, m)' = Got(r, m)
         /\ Acked(r, m)' = Acked(r, m) /\ Source(r, m)' = Source(r, m)
         /\ IsStart(r, m)' <=> IsStart(r, m)
         /\ IsSend(r, m)' <=> IsSend(r, m)
         /\ IsReceive(r, m)' <=> IsReceive(r, m)
         /\ RequestOK(r) => RequestOK(r)'
         /\ \A p : PointerOK(r, m, p)' <=> PointerOK(r, m, p)
<1>1. Addresses' = Addresses
  BY DEF Addresses
<1>2. Length(r)' = Length(r) /\ Got(r, m)' = Got(r, m)
  BY <1>1 DEF Length, Got
<1>3. Calls(r)' = Calls(r)
  BY DEF Calls
<1>4. SentAt(r, m)' = SentAt(r, m)
  BY <1>1 DEF SentAt
<1>5. WantAt(r, m)' = WantAt(r, m)
  BY <1>1 DEF WantAt
<1>6. Acked(r, m)' = Acked(r, m) /\ Source(r, m)' = Source(r, m)
  BY <1>1 DEF Acked, Source
<1>7. (IsStart(r, m)' <=> IsStart(r, m)) /\ (IsSend(r, m)' <=> IsSend(r, m))
      /\ (IsReceive(r, m)' <=> IsReceive(r, m))
  BY <1>1 DEF IsStart, IsSend, IsReceive
<1>8. RequestOK(r) => RequestOK(r)'
  BY DEF RequestOK, Possible
<1>9. \A p : PointerOK(r, m, p)' <=> PointerOK(r, m, p)
  BY <1>1, <1>2 DEF PointerOK
<1> QED BY <1>1, <1>2, <1>3, <1>4, <1>5, <1>6, <1>7, <1>8, <1>9

(* The one call on the stack.                                              *)
LEMMA StackIs ==
  ASSUME NEW t, stack = <<t>>
  PROVE  /\ stack # << >> /\ Len(stack) = 1 /\ Top = t /\ stack[1] = t /\ Front(stack) = << >>
         /\ \A c : SetTop(c) <=> stack' = <<c>>
<1>1. Len(stack) = 1 /\ stack # << >> /\ stack[1] = t
  OBVIOUS
<1>2. Front(stack) = << >>
  BY <1>1, SubSeqEmpty DEF Front
<1>3. \A c : [stack EXCEPT ![1] = c] = <<c>>
  OBVIOUS
<1> QED BY <1>1, <1>2, <1>3 DEF Top, SetTop

IsFrame(t, r, calls, ops, ok, byte, data) ==
  /\ t.request = r /\ t.calls = calls /\ t.ops = ops /\ t.bSuccess = ok /\ t.byte = byte
  /\ t.data = data
  /\ \A x : [t EXCEPT !.ops = x] = Frame(r, calls, x, ok, byte, data)
  /\ \A x : [t EXCEPT !.bSuccess = x] = Frame(r, calls, ops, x, byte, data)
  /\ \A x : [t EXCEPT !.byte = x] = Frame(r, calls, ops, ok, x, data)
  /\ \A x : [t EXCEPT !.data = x] = Frame(r, calls, ops, ok, byte, x)
  /\ \A x, y : [t EXCEPT !.calls = x, !.byte = 0, !.ops = y] = Frame(r, x, y, ok, 0, data)

LEMMA FrameIs ==
  ASSUME NEW r, NEW calls, NEW ops, NEW ok, NEW byte, NEW data
  PROVE  IsFrame(Frame(r, calls, ops, ok, byte, data), r, calls, ops, ok, byte, data)
<1> DEFINE t == Frame(r, calls, ops, ok, byte, data)
<1>1. /\ t.request = r /\ t.calls = calls /\ t.ops = ops /\ t.bSuccess = ok /\ t.byte = byte
      /\ t.data = data
  BY DEF Frame
<1>2. \A x : [t EXCEPT !.ops = x] = Frame(r, calls, x, ok, byte, data)
  BY DEF Frame
<1>3. \A x : [t EXCEPT !.bSuccess = x] = Frame(r, calls, ops, x, byte, data)
  BY DEF Frame
<1>4. \A x : [t EXCEPT !.byte = x] = Frame(r, calls, ops, ok, x, data)
  BY DEF Frame
<1>5. \A x : [t EXCEPT !.data = x] = Frame(r, calls, ops, ok, byte, x)
  BY DEF Frame
<1>6. \A x, y : [t EXCEPT !.calls = x, !.byte = 0, !.ops = y] = Frame(r, x, y, ok, 0, data)
  <2> TAKE x, y
  <2>1. [t EXCEPT !.calls = x] = Frame(r, x, ops, ok, byte, data)
    BY DEF Frame
  <2>2. [Frame(r, x, ops, ok, byte, data) EXCEPT !.byte = 0] = Frame(r, x, ops, ok, 0, data)
    BY DEF Frame
  <2>3. [Frame(r, x, ops, ok, 0, data) EXCEPT !.ops = y] = Frame(r, x, y, ok, 0, data)
    BY DEF Frame
  <2> HIDE DEF t
  <2>4. [t EXCEPT !.calls = x, !.byte = 0, !.ops = y]
          = [[[t EXCEPT !.calls = x] EXCEPT !.byte = 0] EXCEPT !.ops = y]
    OBVIOUS
  <2> QED BY <2>1, <2>2, <2>3, <2>4
<1>7. IsFrame(t, r, calls, ops, ok, byte, data)
  <2> HIDE DEF t
  <2> QED BY <1>1, <1>2, <1>3, <1>4, <1>5, <1>6, Zenon DEF IsFrame
<1> QED BY <1>7

(* What an access does, by its name; the frame that it leaves.             *)
LEMMA AccessNames ==
  ASSUME NEW v
  PROVE  /\ Scl(v)[1] = "scl" /\ Scl(v)[2] = v /\ Sda(v)[1] = "sda" /\ Sda(v)[2] = v
         /\ Dir(v)[1] = "dir" /\ Dir(v)[2] = v
         /\ <<"ack", v>>[1] = "ack" /\ <<"sample", v>>[1] = "sample" /\ <<"store", v>>[1] = "store"
BY DEF Scl, Sda, Dir

LEMMA Performed ==
  ASSUME NEW s \in Seq(Accesses), NEW k \in Nat, k < Len(s), NEW r, NEW m, NEW ok, NEW byte, NEW data,
         Doing(r, m, Drop(s, k), ok, byte, data), Access
  PROVE  LET calls == Drop(Calls(r), m)  rest == Drop(s, k + 1) IN
         /\ answer' = answer /\ resets' = resets /\ since' = since
         /\ \A v : s[k + 1] = Scl(v) =>
              Drive(v, sda, dir) /\ stack' = <<Frame(r, calls, rest, ok, byte, data)>>
         /\ \A v : s[k + 1] = Sda(v) =>
              Drive(scl, v, dir) /\ stack' = <<Frame(r, calls, rest, ok, byte, data)>>
         /\ \A v : s[k + 1] = Dir(v) =>
              Drive(scl, sda, v) /\ stack' = <<Frame(r, calls, rest, ok, byte, data)>>
         /\ s[k + 1] = <<"ack", 0>> =>
              UNCHANGED <<ports, taken>> /\ stack' = <<Frame(r, calls, rest, sda_wire = 0, byte, data)>>
         /\ s[k + 1] = <<"sample", 0>> =>
              /\ UNCHANGED <<ports, taken>>
              /\ stack' = <<Frame(r, calls, rest, ok, 2 * byte + sda_wire, data)>>
         /\ s[k + 1] = <<"store", 0>> =>
              /\ UNCHANGED <<ports, taken>>
              /\ stack' = <<Frame(r, calls, rest, ok, byte, Append(data, byte))>>
<1> DEFINE calls == Drop(Calls(r), m)
           ops == Drop(s, k)
           rest == Drop(s, k + 1)
           op == s[k + 1]
           t == Frame(r, calls, ops, ok, byte, data)
<1>1. /\ t.request = r /\ t.calls = calls /\ t.ops = ops /\ t.bSuccess = ok /\ t.byte = byte
      /\ t.data = data
      /\ \A x : [t EXCEPT !.ops = x] = Frame(r, calls, x, ok, byte, data)
  <2>1. IsFrame(t, r, calls, ops, ok, byte, data)
    BY FrameIs, Zenon
  <2> HIDE DEF t
  <2> QED BY <2>1, Zenon DEF IsFrame
<1>2. Head(ops) = op /\ Tail(ops) = rest /\ ops # << >>
  BY DropIs
<1>3. Top = t /\ \A c : SetTop(c) <=> stack' = <<c>>
  BY StackIs DEF Doing
<1> DEFINE u == Frame(r, calls, rest, ok, byte, data)
<1>4. [t EXCEPT !.ops = rest] = u
  BY <1>1
<1>5. /\ u.bSuccess = ok /\ u.byte = byte /\ u.data = data
      /\ \A x : [u EXCEPT !.bSuccess = x] = Frame(r, calls, rest, x, byte, data)
      /\ \A x : [u EXCEPT !.byte = x] = Frame(r, calls, rest, ok, x, data)
      /\ \A x : [u EXCEPT !.data = x] = Frame(r, calls, rest, ok, byte, x)
  <2>1. IsFrame(u, r, calls, rest, ok, byte, data)
    BY FrameIs, Zenon
  <2> HIDE DEF u
  <2> QED BY <2>1, Zenon DEF IsFrame
<1>6. [t EXCEPT !.ops = Tail(t.ops)] = u
  BY <1>1, <1>2, <1>4
<1>7. /\ UNCHANGED <<answer, faults>>
      /\ \/ /\ op[1] \in {"scl", "sda", "dir"} /\ stack' = <<u>>
            /\ Drive(IF op[1] = "scl" THEN op[2] ELSE scl, IF op[1] = "sda" THEN op[2] ELSE sda,
                     IF op[1] = "dir" THEN op[2] ELSE dir)
         \/ /\ op[1] \in {"ack", "sample", "store"}
            /\ stack' = <<CASE op[1] = "ack" -> [u EXCEPT !.bSuccess = sda_wire = 0]
                            [] op[1] = "sample" -> [u EXCEPT !.byte = 2 * u.byte + sda_wire]
                            [] op[1] = "store" -> [u EXCEPT !.data = Append(u.data, t.byte)]>>
            /\ UNCHANGED <<ports, taken>>
  <2> HIDE DEF t, u, op, ops, rest
  <2> QED BY <1>1, <1>2, <1>3, <1>6 DEF Access
<1> HIDE DEF u, t, ops
<1>8. answer' = answer /\ resets' = resets /\ since' = since
  BY <1>7 DEF faults
<1>9. \A v : op = Scl(v) => Drive(v, sda, dir) /\ stack' = <<u>>
  BY <1>7, AccessNames
<1>10. \A v : op = Sda(v) => Drive(scl, v, dir) /\ stack' = <<u>>
  BY <1>7, AccessNames
<1>11. \A v : op = Dir(v) => Drive(scl, sda, v) /\ stack' = <<u>>
  BY <1>7, AccessNames
<1>12. op = <<"ack", 0>> =>
         UNCHANGED <<ports, taken>> /\ stack' = <<Frame(r, calls, rest, sda_wire = 0, byte, data)>>
  BY <1>5, <1>7, AccessNames
<1>13. op = <<"sample", 0>> =>
         /\ UNCHANGED <<ports, taken>>
         /\ stack' = <<Frame(r, calls, rest, ok, 2 * byte + sda_wire, data)>>
  BY <1>5, <1>7, AccessNames
<1>14. op = <<"store", 0>> =>
         /\ UNCHANGED <<ports, taken>>
         /\ stack' = <<Frame(r, calls, rest, ok, byte, Append(data, byte))>>
  <2> SUFFICES ASSUME op = <<"store", 0>>
               PROVE  /\ UNCHANGED <<ports, taken>>
                      /\ stack' = <<Frame(r, calls, rest, ok, byte, Append(data, byte))>>
    OBVIOUS
  <2>1. op[1] = "store"
    BY AccessNames
  <2> HIDE DEF op
  <2>2. UNCHANGED <<ports, taken>> /\ stack' = <<[u EXCEPT !.data = Append(u.data, t.byte)]>>
    BY <2>1, <1>7
  <2> QED BY <2>2, <1>1, <1>5, Zenon
<1> QED BY <1>8, <1>9, <1>10, <1>11, <1>12, <1>13, <1>14 DEF u

(* The device: its record after each change that it undergoes.             *)
DeviceTypes == [phase : Phases, want : Wants, bits : Byte, count : 0 .. 8, pull : BOOLEAN, pointer : Nat]

LEMMA DeviceIs ==
  ASSUME NEW d \in DeviceTypes
  PROVE  /\ d = Device(d.phase, d.want, d.bits, d.count, d.pull, d.pointer)
         /\ d.phase \in Phases /\ d.want \in Wants /\ d.bits \in Byte /\ d.count \in 0 .. 8
         /\ d.pull \in BOOLEAN /\ d.pointer \in Nat
BY DEF DeviceTypes, Device

IsDevice(d, phase, want, bits, count, pull, pointer) ==
  /\ d.phase = phase /\ d.want = want /\ d.bits = bits /\ d.count = count /\ d.pull = pull
  /\ d.pointer = pointer
  /\ \A x : [d EXCEPT !.phase = x] = Device(x, want, bits, count, pull, pointer)
  /\ \A x : [d EXCEPT !.want = x] = Device(phase, x, bits, count, pull, pointer)
  /\ \A x : [d EXCEPT !.bits = x] = Device(phase, want, x, count, pull, pointer)
  /\ \A x : [d EXCEPT !.pointer = x] = Device(phase, want, bits, count, pull, x)
  /\ \A x, y : [d EXCEPT !.phase = x, !.pull = y] = Device(x, want, bits, count, y, pointer)
  /\ \A x, y : [d EXCEPT !.want = x, !.pointer = y] = Device(phase, x, bits, count, pull, y)
  /\ \A x, y : [d EXCEPT !.bits = x, !.count = y] = Device(phase, want, x, y, pull, pointer)
  /\ \A x, y, z : [d EXCEPT !.phase = x, !.count = y, !.pull = z]
                     = Device(x, want, bits, y, z, pointer)
  /\ \A x, y : [d EXCEPT !.phase = x, !.bits = 0, !.count = 0, !.pull = y]
                  = Device(x, want, 0, 0, y, pointer)

LEMMA DeviceKnown ==
  ASSUME NEW phase, NEW want, NEW bits, NEW count, NEW pull, NEW pointer
  PROVE  IsDevice(Device(phase, want, bits, count, pull, pointer), phase, want, bits, count, pull, pointer)
<1> DEFINE d == Device(phase, want, bits, count, pull, pointer)
<1>1. /\ d.phase = phase /\ d.want = want /\ d.bits = bits /\ d.count = count /\ d.pull = pull
      /\ d.pointer = pointer
  BY DEF Device
<1>2. /\ \A x : [d EXCEPT !.phase = x] = Device(x, want, bits, count, pull, pointer)
      /\ \A x : [d EXCEPT !.want = x] = Device(phase, x, bits, count, pull, pointer)
      /\ \A x : [d EXCEPT !.bits = x] = Device(phase, want, x, count, pull, pointer)
      /\ \A x : [d EXCEPT !.pointer = x] = Device(phase, want, bits, count, pull, x)
  <2>1. \A x : [d EXCEPT !.phase = x] = Device(x, want, bits, count, pull, pointer)
    BY DEF Device
  <2>2. \A x : [d EXCEPT !.want = x] = Device(phase, x, bits, count, pull, pointer)
    BY DEF Device
  <2>3. \A x : [d EXCEPT !.bits = x] = Device(phase, want, x, count, pull, pointer)
    BY DEF Device
  <2>4. \A x : [d EXCEPT !.pointer = x] = Device(phase, want, bits, count, pull, x)
    BY DEF Device
  <2> QED BY <2>1, <2>2, <2>3, <2>4
<1>3. ASSUME NEW x, NEW y
      PROVE  [d EXCEPT !.phase = x, !.pull = y] = Device(x, want, bits, count, y, pointer)
  <2>1. [Device(x, want, bits, count, pull, pointer) EXCEPT !.pull = y]
          = Device(x, want, bits, count, y, pointer)
    BY DEF Device
  <2> HIDE DEF d
  <2>2. [d EXCEPT !.phase = x, !.pull = y] = [[d EXCEPT !.phase = x] EXCEPT !.pull = y]
    OBVIOUS
  <2> QED BY <1>2, <2>1, <2>2
<1>4. ASSUME NEW x, NEW y
      PROVE  [d EXCEPT !.want = x, !.pointer = y] = Device(phase, x, bits, count, pull, y)
  <2>1. [Device(phase, x, bits, count, pull, pointer) EXCEPT !.pointer = y]
          = Device(phase, x, bits, count, pull, y)
    BY DEF Device
  <2> HIDE DEF d
  <2>2. [d EXCEPT !.want = x, !.pointer = y] = [[d EXCEPT !.want = x] EXCEPT !.pointer = y]
    OBVIOUS
  <2> QED BY <1>2, <2>1, <2>2
<1>5. ASSUME NEW x, NEW y
      PROVE  [d EXCEPT !.bits = x, !.count = y] = Device(phase, want, x, y, pull, pointer)
  <2>1. [Device(phase, want, x, count, pull, pointer) EXCEPT !.count = y]
          = Device(phase, want, x, y, pull, pointer)
    BY DEF Device
  <2> HIDE DEF d
  <2>2. [d EXCEPT !.bits = x, !.count = y] = [[d EXCEPT !.bits = x] EXCEPT !.count = y]
    OBVIOUS
  <2> QED BY <1>2, <2>1, <2>2
<1>6. ASSUME NEW x, NEW y, NEW z
      PROVE  [d EXCEPT !.phase = x, !.count = y, !.pull = z] = Device(x, want, bits, y, z, pointer)
  <2>1. [Device(x, want, bits, count, pull, pointer) EXCEPT !.count = y]
          = Device(x, want, bits, y, pull, pointer)
    BY DEF Device
  <2>2. [Device(x, want, bits, y, pull, pointer) EXCEPT !.pull = z]
          = Device(x, want, bits, y, z, pointer)
    BY DEF Device
  <2> HIDE DEF d
  <2>3. [d EXCEPT !.phase = x, !.count = y, !.pull = z]
          = [[[d EXCEPT !.phase = x] EXCEPT !.count = y] EXCEPT !.pull = z]
    OBVIOUS
  <2> QED BY <1>2, <2>1, <2>2, <2>3
<1>7. ASSUME NEW x, NEW y
      PROVE  [d EXCEPT !.phase = x, !.bits = 0, !.count = 0, !.pull = y]
               = Device(x, want, 0, 0, y, pointer)
  <2>1. [Device(x, want, bits, count, pull, pointer) EXCEPT !.bits = 0]
          = Device(x, want, 0, count, pull, pointer)
    BY DEF Device
  <2>2. [Device(x, want, 0, count, pull, pointer) EXCEPT !.count = 0]
          = Device(x, want, 0, 0, pull, pointer)
    BY DEF Device
  <2>3. [Device(x, want, 0, 0, pull, pointer) EXCEPT !.pull = y] = Device(x, want, 0, 0, y, pointer)
    BY DEF Device
  <2> HIDE DEF d
  <2>4. [d EXCEPT !.phase = x, !.bits = 0, !.count = 0, !.pull = y]
          = [[[[d EXCEPT !.phase = x] EXCEPT !.bits = 0] EXCEPT !.count = 0] EXCEPT !.pull = y]
    OBVIOUS
  <2> QED BY <1>2, <2>1, <2>2, <2>3, <2>4
<1>8. IsDevice(d, phase, want, bits, count, pull, pointer)
  <2> HIDE DEF d
  <2> QED BY <1>1, <1>2, <1>3, <1>4, <1>5, <1>6, <1>7, Zenon DEF IsDevice
<1> QED BY <1>8

LEMMA WiredDevice ==
  ASSUME WireTypes
  PROVE  /\ IsDevice(device, device.phase, device.want, device.bits, device.count, device.pull,
                     device.pointer)
         /\ device.phase \in Phases /\ device.want \in Wants /\ device.bits \in Byte
         /\ device.count \in 0 .. 8 /\ device.pull \in BOOLEAN /\ device.pointer \in Nat
<1>1. device = Device(device.phase, device.want, device.bits, device.count, device.pull, device.pointer)
  BY DeviceIs DEF WireTypes, DeviceTypes
<1>2. IsDevice(device, device.phase, device.want, device.bits, device.count, device.pull, device.pointer)
  BY <1>1, DeviceKnown, Zenon
<1> QED BY <1>2, DeviceIs DEF WireTypes, DeviceTypes

LEMMA DeviceTyped ==
  ASSUME NEW phase \in Phases, NEW want \in Wants, NEW bits \in Byte, NEW count \in 0 .. 8,
         NEW pull \in BOOLEAN, NEW pointer \in Nat
  PROVE  Device(phase, want, bits, count, pull, pointer) \in DeviceTypes
BY DEF DeviceTypes, Device

(* How the device sees a change of the ports: nothing, a START, a STOP,    *)
(* the clock going up or down.                                             *)
Wires(c, s, d) == scl' = c /\ sda' = s /\ dir' = d /\ wide' = wide
Untouched == regs' = regs /\ taken' = taken

LEMMA Quiet ==
  ASSUME scl = 0, NEW s, NEW d, Drive(0, s, d)
  PROVE  Wires(0, s, d) /\ device' = device /\ Untouched
BY DEF Drive, Wires, Untouched

LEMMA WireIs ==
  ASSUME NEW s \in Bit, NEW d \in Bit, NEW x, x.pull \in BOOLEAN
  PROVE  /\ Wire(s, d, x) \in Bit
         /\ d = 1 /\ ~x.pull => Wire(s, d, x) = s
         /\ d = 0 => Wire(s, d, x) = (IF x.pull THEN 0 ELSE 1)
         /\ s = 1 => Wire(s, d, x) = (IF x.pull THEN 0 ELSE 1)
BY DEF Wire, Bit

LEMMA QuietHigh ==
  ASSUME WireTypes, scl = 1, NEW s \in Bit, NEW d \in Bit, Drive(1, s, d),
         Wire(s, d, device) = Wire(sda, dir, device)
  PROVE  Wires(1, s, d) /\ device' = device /\ Untouched
<1>1. Wire(s, d, device) = sda_wire
  BY DEF sda_wire
<1> QED BY <1>1 DEF Drive, Wires, Untouched

LEMMA StartSeen ==
  ASSUME scl = 1, NEW s, NEW d, Drive(1, s, d), sda_wire = 1, Wire(s, d, device) = 0
  PROVE  /\ Wires(1, s, d) /\ Untouched
         /\ device' = Device("receive", "device", 0, 0, FALSE, device.pointer)
<1>1. /\ Wires(1, s, d) /\ Untouched
      /\ device' = [Idle EXCEPT !.phase = "receive", !.pointer = device.pointer]
  BY DEF Drive, Wires, Untouched
<1> QED BY <1>1 DEF Idle, Device

LEMMA StopSeen ==
  ASSUME scl = 1, NEW s, NEW d, Drive(1, s, d), sda_wire = 0, Wire(s, d, device) = 1
  PROVE  /\ Wires(1, s, d) /\ Untouched
         /\ device' = Device("idle", "device", 0, 0, FALSE, device.pointer)
<1>1. Wires(1, s, d) /\ Untouched /\ device' = [Idle EXCEPT !.pointer = device.pointer]
  BY DEF Drive, Wires, Untouched
<1> QED BY <1>1 DEF Idle, Device

(* The clock goes up.                                                      *)
LEMMA Raised ==
  ASSUME scl = 0, NEW s, NEW d, Drive(1, s, d)
  PROVE  Wires(1, s, d) /\ ClockRises(Wire(s, d, device))
BY DEF Drive, Wires

LEMMA Lowered ==
  ASSUME scl = 1, NEW s, NEW d, Drive(0, s, d)
  PROVE  Wires(0, s, d) /\ ClockFalls
BY DEF Drive, Wires

LEMMA RisesReceiving ==
  ASSUME NEW w, NEW b, NEW c, NEW p, device = Device("receive", w, b, c, FALSE, p), c < 8,
         NEW bit, ClockRises(bit)
  PROVE  device' = Device("receive", w, 2 * b + bit, c + 1, FALSE, p) /\ Untouched
<1>1. device.phase = "receive" /\ device.count < 8
  BY DEF Device
<1>2. device' = [device EXCEPT !.bits = 2 * @ + bit, !.count = @ + 1] /\ Untouched
  BY <1>1 DEF ClockRises, Untouched
<1> QED BY <1>2 DEF Device

LEMMA RisesUnseen ==
  ASSUME device.phase \in {"idle", "ignore", "ack", "send"}, NEW bit, ClockRises(bit)
  PROVE  device' = device /\ Untouched
BY DEF ClockRises, Untouched

LEMMA RisesMaster ==
  ASSUME WireTypes, device.phase = "master", NEW bit, ClockRises(bit)
  PROVE  /\ device' = Device("master", device.want, bit, device.count, device.pull, device.pointer)
         /\ Untouched
<1>1. device' = [device EXCEPT !.bits = bit] /\ Untouched
  BY DEF ClockRises, Untouched
<1>2. device = Device("master", device.want, device.bits, device.count, device.pull, device.pointer)
  BY DeviceIs DEF WireTypes, DeviceTypes
<1> QED BY <1>1, <1>2 DEF Device

(* The clock goes down.                                                    *)
LEMMA FallsUnseen ==
  ASSUME ClockFalls,
         \/ device.phase \in {"idle", "ignore"}
         \/ device.phase = "receive" /\ device.count # 8
  PROVE  device' = device /\ Untouched
BY DEF ClockFalls, Untouched

LEMMA FallsAcknowledged ==
  ASSUME WireTypes, ClockFalls, device.phase = "ack"
  PROVE  /\ Untouched
         /\ device.want # "send" => device' = Device("receive", device.want, 0, 0, FALSE, device.pointer)
         /\ device.want = "send" => device' = SendBit(device, 1)
<1>1. [device EXCEPT !.phase = "receive", !.bits = 0, !.count = 0, !.pull = FALSE]
        = Device("receive", device.want, 0, 0, FALSE, device.pointer)
  BY WiredDevice, Zenon DEF IsDevice
<1>2. /\ Untouched
      /\ device.want # "send" => device' = [device EXCEPT !.phase = "receive", !.bits = 0, !.count = 0,
                                                          !.pull = FALSE]
      /\ device.want = "send" => device' = SendBit(device, 1)
  BY DEF ClockFalls, Untouched
<1> QED BY <1>1, <1>2

LEMMA FallsSending ==
  ASSUME WireTypes, ClockFalls, device.phase = "send"
  PROVE  /\ Untouched
         /\ device.count < 8 => device' = SendBit(device, device.count + 1)
         /\ device.count = 8 =>
              device' = Device("master", device.want, device.bits, 8, FALSE, device.pointer)
<1>1. [device EXCEPT !.phase = "master", !.pull = FALSE]
        = Device("master", device.want, device.bits, device.count, FALSE, device.pointer)
  BY WiredDevice, Zenon DEF IsDevice
<1>2. /\ Untouched
      /\ device.count < 8 => device' = SendBit(device, device.count + 1)
      /\ device.count = 8 => device' = [device EXCEPT !.phase = "master", !.pull = FALSE]
  BY DEF ClockFalls, Untouched
<1> QED BY <1>1, <1>2

LEMMA FallsMaster ==
  ASSUME WireTypes, ClockFalls, device.phase = "master"
  PROVE  /\ Untouched
         /\ device.bits = 0 =>
              device' = SendBit(Device("master", device.want, 0, device.count, device.pull,
                                       device.pointer + 1), 1)
         /\ device.bits = 1 =>
              device' = Device("ignore", device.want, 1, device.count, device.pull, device.pointer)
<1>1. /\ [device EXCEPT !.phase = "ignore"]
           = Device("ignore", device.want, device.bits, device.count, device.pull, device.pointer)
      /\ [device EXCEPT !.pointer = device.pointer + 1]
           = Device(device.phase, device.want, device.bits, device.count, device.pull, device.pointer + 1)
  BY WiredDevice, Zenon DEF IsDevice
<1>2. /\ Untouched
      /\ device.bits = 0 => device' = SendBit([device EXCEPT !.pointer = @ + 1], 1)
      /\ device.bits = 1 => device' = [device EXCEPT !.phase = "ignore"]
  BY DEF ClockFalls, Untouched
<1> QED BY <1>1, <1>2

LEMMA SendBitIs ==
  ASSUME NEW d, NEW phase, NEW want, NEW bits, NEW count, NEW pull, NEW pointer,
         d = Device(phase, want, bits, count, pull, pointer), pointer \in Registers, NEW n
  PROVE  SendBit(d, n) = Device("send", want, bits, n, BitOf(regs[pointer], n) = 0, pointer)
<1>1. d.pointer = pointer
  BY DEF Device
<1>2. SendBit(d, n) = [d EXCEPT !.phase = "send", !.count = n, !.pull = BitOf(regs[pointer], n) = 0]
  BY <1>1 DEF SendBit, Holds
<1> QED BY <1>2 DEF Device

(* One access of a call: what it does to the ports and to the call.        *)
Kept == answer' = answer /\ resets' = resets /\ since' = since
NextOps(r, m, ops, ok, byte, data) ==
  stack' = <<Frame(r, Drop(Calls(r), m), ops, ok, byte, data)>> /\ Kept

Making(s, k, r, m, ok, byte, data) ==
  /\ s \in Seq(Accesses) /\ k \in Nat /\ k < Len(s)
  /\ Doing(r, m, Drop(s, k), ok, byte, data) /\ Access

LEMMA DoScl ==
  ASSUME NEW s, NEW k, NEW r, NEW m, NEW ok, NEW byte, NEW data, Making(s, k, r, m, ok, byte, data),
         NEW n, n = k + 1, NEW v, s[n] = Scl(v)
  PROVE  Drive(v, sda, dir) /\ NextOps(r, m, Drop(s, n), ok, byte, data)
BY Performed DEF Making, NextOps, Kept

LEMMA DoSda ==
  ASSUME NEW s, NEW k, NEW r, NEW m, NEW ok, NEW byte, NEW data, Making(s, k, r, m, ok, byte, data),
         NEW n, n = k + 1, NEW v, s[n] = Sda(v)
  PROVE  Drive(scl, v, dir) /\ NextOps(r, m, Drop(s, n), ok, byte, data)
BY Performed DEF Making, NextOps, Kept

LEMMA DoDir ==
  ASSUME NEW s, NEW k, NEW r, NEW m, NEW ok, NEW byte, NEW data, Making(s, k, r, m, ok, byte, data),
         NEW n, n = k + 1, NEW v, s[n] = Dir(v)
  PROVE  Drive(scl, sda, v) /\ NextOps(r, m, Drop(s, n), ok, byte, data)
BY Performed DEF Making, NextOps, Kept

StillPorts == Wires(scl, sda, dir) /\ device' = device /\ Untouched

LEMMA DoAck ==
  ASSUME NEW s, NEW k, NEW r, NEW m, NEW ok, NEW byte, NEW data, Making(s, k, r, m, ok, byte, data),
         NEW n, n = k + 1, s[n] = <<"ack", 0>>
  PROVE  StillPorts /\ NextOps(r, m, Drop(s, n), sda_wire = 0, byte, data)
BY Performed DEF Making, NextOps, Kept, StillPorts, Wires, Untouched, ports

LEMMA DoSample ==
  ASSUME NEW s, NEW k, NEW r, NEW m, NEW ok, NEW byte, NEW data, Making(s, k, r, m, ok, byte, data),
         NEW n, n = k + 1, s[n] = <<"sample", 0>>
  PROVE  StillPorts /\ NextOps(r, m, Drop(s, n), ok, 2 * byte + sda_wire, data)
BY Performed DEF Making, NextOps, Kept, StillPorts, Wires, Untouched, ports

LEMMA DoStore ==
  ASSUME NEW s, NEW k, NEW r, NEW m, NEW ok, NEW byte, NEW data, Making(s, k, r, m, ok, byte, data),
         NEW n, n = k + 1, s[n] = <<"store", 0>>
  PROVE  StillPorts /\ NextOps(r, m, Drop(s, n), ok, byte, Append(data, byte))
BY Performed DEF Making, NextOps, Kept, StillPorts, Wires, Untouched, ports

(* What one step of a request may do: nothing to the register file, or     *)
(* write the value once.                                                   *)
Applied(r) ==
  /\ r.kind = "write" /\ taken = FALSE /\ taken' = TRUE
  /\ regs' = [regs EXCEPT ![r.reg] = r.value]

Progress(r) ==
  /\ WireTypes' /\ Kept /\ Busy(r)'
  /\ Untouched \/ Applied(r)

LEMMA Progresses ==
  ASSUME WireTypes, NEW r, RequestOK(r), NEW c \in Bit, NEW s \in Bit, NEW d \in Bit,
         Wires(c, s, d), Untouched, device' \in DeviceTypes, Kept,
         NEW m \in 0 .. Length(r), NEW ok, NEW byte, NEW data, At(r, m, ok, byte, data)'
  PROVE  Progress(r)
<1>1. WireTypes'
  BY DEF WireTypes, Wires, Untouched, DeviceTypes
<1>2. wide' = wide
  BY DEF Wires
<1>3. m \in 0 .. Length(r)' /\ RequestOK(r)'
  BY <1>2, Static
<1>4. Busy(r)'
  BY <1>3 DEF Busy
<1> QED BY <1>1, <1>4 DEF Progress

LEMMA ResultStill ==
  ASSUME Untouched, wide' = wide, NEW r, NEW m, NEW ok, NEW data, Result(r, m, ok, data)
  PROVE  Result(r, m, ok, data)'
BY Static DEF Result, Untouched, Addresses

LEMMA DoingNext ==
  ASSUME wide' = wide, NEW r, NEW m, NEW ops, NEW ok \in BOOLEAN, NEW byte \in Byte, NEW data,
         NextOps(r, m, ops, ok, byte, data)
  PROVE  Doing(r, m, ops, ok, byte, data)'
BY Static DEF Doing, NextOps

(* i2c_start and i2c_stop, access by access.                               *)
LEMMA StartIs ==
  /\ i2c_start \in Seq(Accesses) /\ Len(i2c_start) = 5
  /\ i2c_start[1] = Dir(1) /\ i2c_start[2] = Sda(1) /\ i2c_start[3] = Scl(1)
  /\ i2c_start[4] = Sda(0) /\ i2c_start[5] = Scl(0)
BY AccessIs DEF i2c_start, Bit

LEMMA StopIs ==
  /\ i2c_stop \in Seq(Accesses) /\ Len(i2c_stop) = 4
  /\ i2c_stop[1] = Dir(1) /\ i2c_stop[2] = Sda(0) /\ i2c_stop[3] = Scl(1)
  /\ i2c_stop[4] = Sda(1)
BY AccessIs DEF i2c_stop, Bit

LEMMA LengthIs ==
  ASSUME NEW r, RequestOK(r), LENGTH > 0
  PROVE  /\ Addresses \in {1, 2} /\ Length(r) \in Nat /\ r.kind \in {"write", "read"}
         /\ wide => Addresses = 2
         /\ ~wide => Addresses = 1
         /\ r.kind = "write" => Length(r) = 4 + Addresses
         /\ r.kind = "read" => r.n \in Nat \ {0} /\ Length(r) = 5 + Addresses + r.n
BY RequestIs DEF RequestOK, Addresses, Length

LEMMA ReadyStill ==
  ASSUME Untouched, wide' = wide, device' = device, NEW r, NEW m, Ready(r, m)
  PROVE  Ready(r, m)'
<1>1. Addresses' = Addresses /\ Got(r, m)' = Got(r, m) /\ WantAt(r, m)' = WantAt(r, m)
      /\ \A p : PointerOK(r, m, p)' <=> PointerOK(r, m, p)
  BY Static
<1>2. regs' = regs
  BY DEF Untouched
<1> QED BY <1>1, <1>2 DEF Ready, Sends

(* From each place of i2c_start to the next; the START as the device sees  *)
(* it.                                                                     *)
LEMMA StartingStep ==
  ASSUME WireTypes, NEW r, RequestOK(r), LENGTH > 0, Access,
         NEW m \in 1 .. Length(r), NEW k \in 0 .. 4, NEW ok, NEW byte, NEW data,
         Starting(r, m, k, ok, byte, data)
  PROVE  Progress(r)
<1>1. /\ Doing(r, m, Drop(i2c_start, k), ok, byte, data) /\ Result(r, m, ok, data) /\ IsStart(r, m)
      /\ ok \in BOOLEAN /\ byte \in Byte /\ (ok => PointerOK(r, m, device.pointer))
      /\ scl \in Bit /\ sda \in Bit /\ dir \in Bit /\ 0 \in Bit /\ 1 \in Bit
      /\ device \in DeviceTypes /\ m \in 0 .. Length(r) /\ m > 0
  BY DEF Starting, Doing, WireTypes, DeviceTypes, Bit
<1>2. /\ device.phase \in Phases /\ device.want \in Wants /\ device.bits \in Byte
      /\ device.count \in 0 .. 8 /\ device.pull \in BOOLEAN /\ device.pointer \in Nat
  BY WiredDevice
<1>3. ASSUME NEW n \in 1 .. 4, NEW c \in Bit, NEW s \in Bit, NEW d \in Bit, Wires(c, s, d), Untouched,
             NextOps(r, m, Drop(i2c_start, n), ok, byte, data),
             device' \in DeviceTypes, device'.pointer = device.pointer,
             /\ n <= 2 => Rested' /\ (c = 0 \/ s = 1)
             /\ n >= 1 => d = 1
             /\ n \in {2, 3} => s = 1
             /\ n = 3 => c = 1 /\ ~device'.pull
             /\ n = 4 => /\ c = 1 /\ s = 0
                         /\ device' = Device("receive", "device", 0, 0, FALSE, device.pointer)
      PROVE  Progress(r)
  <2>1. wide' = wide /\ scl' = c /\ sda' = s /\ dir' = d
    BY <1>3 DEF Wires
  <2>2. Doing(r, m, Drop(i2c_start, n), ok, byte, data)'
    BY <2>1, <1>1, <1>3, DoingNext
  <2>3. Result(r, m, ok, data)'
    BY <2>1, <1>1, <1>3, ResultStill
  <2>4. IsStart(r, m)' /\ (ok => PointerOK(r, m, device.pointer)')
    BY <2>1, <1>1, <1>3, Static
  <2>5. Starting(r, m, n, ok, byte, data)'
    BY <2>1, <2>2, <2>3, <2>4, <1>3 DEF Starting
  <2>6. At(r, m, ok, byte, data)'
    BY <2>5, <1>1 DEF At
  <2> QED BY <2>6, <1>1, <1>3, Progresses DEF NextOps
<1>4. k < Len(i2c_start) /\ i2c_start \in Seq(Accesses)
  BY StartIs
<1>d. Making(i2c_start, k, r, m, ok, byte, data)
  BY <1>1, <1>4 DEF Making
<1>5. CASE k = 0
  <2>1. Drive(scl, sda, 1) /\ NextOps(r, m, Drop(i2c_start, 1), ok, byte, data)
    BY <1>5, StartIs, <1>d, DoDir
  <2>2. Rested /\ (scl = 0 \/ sda = 1)
    BY <1>5 DEF Starting
  <2>3. Wires(scl, sda, 1) /\ device' = device /\ Untouched
    <3>1. CASE scl = 0
      BY <3>1, <2>1, Quiet
    <3>2. CASE scl = 1
      <4>1. Wire(sda, 1, device) = Wire(sda, dir, device)
        BY <3>2, <2>2, <1>1, <1>2, WireIs
      <4> QED BY <4>1, <3>2, <2>1, <1>1, QuietHigh
    <3> QED BY <3>1, <3>2, <1>1 DEF Bit
  <2>4. Rested'
    BY <2>2, <2>3 DEF Rested
  <2> QED BY <2>1, <2>2, <2>3, <2>4, <1>1, <1>3
<1>6. CASE k = 1
  <2>1. Drive(scl, 1, dir) /\ NextOps(r, m, Drop(i2c_start, 2), ok, byte, data)
    BY <1>6, StartIs, <1>d, DoSda
  <2>2. Rested /\ (scl = 0 \/ sda = 1) /\ dir = 1
    BY <1>6 DEF Starting
  <2>3. Wires(scl, 1, dir) /\ device' = device /\ Untouched
    <3>1. CASE scl = 0
      BY <3>1, <2>1, Quiet
    <3>2. CASE scl = 1
      BY <3>2, <2>1, <2>2, <1>1, QuietHigh
    <3> QED BY <3>1, <3>2, <1>1 DEF Bit
  <2>4. Rested'
    BY <2>2, <2>3 DEF Rested
  <2> QED BY <2>1, <2>2, <2>3, <2>4, <1>1, <1>3
<1>7. CASE k = 2
  <2>1. Drive(1, sda, dir) /\ NextOps(r, m, Drop(i2c_start, 3), ok, byte, data)
    BY <1>7, StartIs, <1>d, DoScl
  <2>2. Rested /\ sda = 1 /\ dir = 1
    BY <1>7 DEF Starting
  <2>3. /\ Wires(1, 1, 1) /\ Untouched /\ device' \in DeviceTypes
        /\ device'.pointer = device.pointer /\ ~device'.pull
    <3>1. CASE scl = 0
      <4>1. Wires(1, 1, 1) /\ ClockRises(Wire(1, 1, device))
        BY <3>1, <2>1, <2>2, Raised
      <4>2. Wire(1, 1, device) = 1
        BY <2>2, <1>1, <1>2, WireIs DEF Rested
      <4>3. CASE device.phase \in {"idle", "ignore"}
        BY <4>1, <4>3, <2>2, <1>1, RisesUnseen DEF Rested
      <4>4. CASE device.phase = "receive" /\ device.count = 0 /\ device.bits = 0
        <5>1. device = Device("receive", device.want, 0, 0, FALSE, device.pointer)
          BY <4>4, <2>2, <1>1, DeviceIs DEF Rested
        <5>2. device' = Device("receive", device.want, 2 * 0 + 1, 0 + 1, FALSE, device.pointer) /\ Untouched
          <6>1. 0 < 8
            OBVIOUS
          <6> QED BY <6>1, <5>1, <4>1, <4>2, RisesReceiving, Zenon
        <5>3. /\ "receive" \in Phases /\ 2 * 0 + 1 \in Byte /\ 0 + 1 \in 0 .. 8 /\ FALSE \in BOOLEAN
          BY DEF Phases, Byte
        <5>4. device' \in DeviceTypes
          BY <5>2, <5>3, <1>2, DeviceTyped
        <5>5. device'.pointer = device.pointer /\ ~device'.pull
          BY <5>2 DEF Device
        <5> QED BY <4>1, <5>2, <5>4, <5>5
      <4> QED BY <4>3, <4>4, <2>2 DEF Rested
    <3>2. CASE scl = 1
      BY <3>2, <2>1, <2>2, <1>1, QuietHigh DEF Rested
    <3> QED BY <3>1, <3>2, <1>1 DEF Bit
  <2> QED BY <2>1, <2>2, <2>3, <1>1, <1>3
<1>8. CASE k = 3
  <2>1. Drive(scl, 0, dir) /\ NextOps(r, m, Drop(i2c_start, 4), ok, byte, data)
    BY <1>8, StartIs, <1>d, DoSda
  <2>2. scl = 1 /\ sda = 1 /\ dir = 1 /\ ~device.pull
    BY <1>8 DEF Starting
  <2>3. sda_wire = 1 /\ Wire(0, 1, device) = 0
    BY <2>2, <1>1, <1>2, WireIs DEF sda_wire
  <2>4. /\ Wires(1, 0, 1) /\ Untouched
        /\ device' = Device("receive", "device", 0, 0, FALSE, device.pointer)
    BY <2>1, <2>2, <2>3, StartSeen
  <2>5. device' \in DeviceTypes /\ device'.pointer = device.pointer
    <3>1. "receive" \in Phases /\ "device" \in Wants /\ 0 \in Byte /\ 0 \in 0 .. 8 /\ FALSE \in BOOLEAN
      BY DEF Phases, Wants, Byte
    <3>2. device' \in DeviceTypes
      BY <2>4, <3>1, <1>2, DeviceTyped
    <3> QED BY <2>4, <3>2 DEF Device
  <2>6. 4 \in 1 .. 4 /\ ~(4 <= 2) /\ 4 \notin {2, 3} /\ 4 # 3
    OBVIOUS
  <2> QED BY <2>1, <2>4, <2>5, <2>6, <1>1, <1>3, Zenon
<1>9. CASE k = 4
  <2>1. Drive(0, sda, dir) /\ NextOps(r, m, Drop(i2c_start, 5), ok, byte, data)
    <3>1. 5 = 4 + 1 /\ 4 \in Nat /\ 4 < Len(i2c_start) /\ i2c_start[5] = Scl(0)
      BY StartIs
    <3> QED BY <3>1, <1>9, <1>d, DoScl
  <2>2. scl = 1 /\ device = Device("receive", "device", 0, 0, FALSE, device.pointer)
    BY <1>9 DEF Starting
  <2>3. device.phase = "receive" /\ device.count = 0
    BY <2>2 DEF Device
  <2>4. Wires(0, sda, dir) /\ device' = device /\ Untouched
    BY <2>1, <2>2, <2>3, Lowered, FallsUnseen
  <2>5. wide' = wide /\ scl' = 0
    BY <2>4 DEF Wires
  <2>6. Drop(i2c_start, 5) = << >>
    BY StartIs, DropEnds
  <2>7. Doing(r, m, << >>, ok, byte, data)' /\ Result(r, m, ok, data)'
    BY <2>1, <2>4, <2>5, <2>6, <1>1, DoingNext, ResultStill
  <2>8. m # 0 /\ m # Length(r)
    BY <1>1, LengthIs DEF IsStart
  <2>9. WantAt(r, m) = "device" /\ ~(r.kind = "read" /\ m >= 4 + Addresses)
    BY <1>1, LengthIs DEF IsStart, WantAt
  <2>10. ok => Ready(r, m)
    BY <2>2, <2>9, <1>1 DEF Ready
  <2>11. ~ok => Rested
    BY <2>2 DEF Rested, Device
  <2>12. (ok => Ready(r, m)') /\ (~ok => Rested')
    BY <2>4, <2>5, <2>10, <2>11, ReadyStill DEF Rested
  <2>13. Between(r, m, ok, byte, data)'
    BY <2>5, <2>7, <2>8, <2>12, Static DEF Between
  <2>14. At(r, m, ok, byte, data)'
    BY <2>13 DEF At
  <2> QED BY <2>1, <2>4, <2>14, <1>1, Progresses DEF NextOps
<1> QED BY <1>5, <1>6, <1>7, <1>8, <1>9

(* From each place of i2c_stop to the next: the STOP makes the bus free.   *)
LEMMA StoppingStep ==
  ASSUME WireTypes, NEW r, RequestOK(r), LENGTH > 0, Access,
         NEW m \in 1 .. Length(r), NEW k \in 0 .. 3, NEW ok, NEW byte, NEW data,
         Stopping(r, m, k, ok, byte, data)
  PROVE  Progress(r)
<1>1. /\ Doing(r, m, Drop(i2c_stop, k), ok, byte, data) /\ Result(r, m, ok, data) /\ m = Length(r)
      /\ ok \in BOOLEAN /\ byte \in Byte
      /\ scl \in Bit /\ sda \in Bit /\ dir \in Bit /\ 0 \in Bit /\ 1 \in Bit
      /\ device \in DeviceTypes /\ m \in 0 .. Length(r) /\ m > 0
  BY DEF Stopping, Doing, WireTypes, DeviceTypes, Bit
<1>2. /\ device.phase \in Phases /\ device.want \in Wants /\ device.bits \in Byte
      /\ device.count \in 0 .. 8 /\ device.pull \in BOOLEAN /\ device.pointer \in Nat
  BY WiredDevice
<1>3. ASSUME NEW n \in 1 .. 3, NEW c \in Bit, NEW s \in Bit, NEW d \in Bit, Wires(c, s, d), Untouched,
             NextOps(r, m, Drop(i2c_stop, n), ok, byte, data),
             device' \in DeviceTypes,
             /\ n <= 2 => Rested' /\ c = 0
             /\ d = 1
             /\ n >= 2 => s = 0
             /\ n = 3 => c = 1 /\ ~device'.pull
      PROVE  Progress(r)
  <2>1. wide' = wide /\ scl' = c /\ sda' = s /\ dir' = d
    BY <1>3 DEF Wires
  <2>2. Doing(r, m, Drop(i2c_stop, n), ok, byte, data)'
    BY <2>1, <1>1, <1>3, DoingNext
  <2>3. Result(r, m, ok, data)'
    BY <2>1, <1>1, <1>3, ResultStill
  <2>4. m = Length(r)'
    BY <2>1, <1>1, Static
  <2>5. Stopping(r, m, n, ok, byte, data)'
    BY <2>1, <2>2, <2>3, <2>4, <1>3 DEF Stopping
  <2>6. At(r, m, ok, byte, data)'
    BY <2>5, <1>1 DEF At
  <2> QED BY <2>6, <1>1, <1>3, Progresses DEF NextOps
<1>4. k < Len(i2c_stop) /\ i2c_stop \in Seq(Accesses)
  BY StopIs
<1>d. Making(i2c_stop, k, r, m, ok, byte, data)
  BY <1>1, <1>4 DEF Making
<1>5. CASE k = 0
  <2>1. Drive(scl, sda, 1) /\ NextOps(r, m, Drop(i2c_stop, 1), ok, byte, data)
    BY <1>5, StopIs, <1>d, DoDir
  <2>2. Rested /\ scl = 0
    BY <1>5 DEF Stopping
  <2>3. Wires(scl, sda, 1) /\ device' = device /\ Untouched
    BY <2>1, <2>2, Quiet
  <2>4. Rested'
    BY <2>2, <2>3 DEF Rested
  <2> QED BY <2>1, <2>2, <2>3, <2>4, <1>1, <1>3
<1>6. CASE k = 1
  <2>1. Drive(scl, 0, dir) /\ NextOps(r, m, Drop(i2c_stop, 2), ok, byte, data)
    <3>1. 2 = 1 + 1 /\ 1 \in Nat /\ 1 < Len(i2c_stop) /\ i2c_stop[2] = Sda(0)
      BY StopIs
    <3> QED BY <3>1, <1>6, <1>d, DoSda
  <2>2. Rested /\ scl = 0 /\ dir = 1
    BY <1>6 DEF Stopping
  <2>3. Wires(scl, 0, dir) /\ device' = device /\ Untouched
    BY <2>1, <2>2, Quiet
  <2>4. Rested'
    BY <2>2, <2>3 DEF Rested
  <2> QED BY <2>1, <2>2, <2>3, <2>4, <1>1, <1>3
<1>7. CASE k = 2
  <2>1. Drive(1, sda, dir) /\ NextOps(r, m, Drop(i2c_stop, 3), ok, byte, data)
    BY <1>7, StopIs, <1>d, DoScl
  <2>2. Rested /\ scl = 0 /\ sda = 0 /\ dir = 1
    BY <1>7 DEF Stopping
  <2>3. Wires(1, 0, 1) /\ ClockRises(Wire(0, 1, device))
    BY <2>1, <2>2, Raised
  <2>4. Wire(0, 1, device) = 0
    BY <2>2, <1>1, <1>2, WireIs DEF Rested
  <2>5. Untouched /\ device' \in DeviceTypes /\ ~device'.pull
    <3>1. CASE device.phase \in {"idle", "ignore"}
      BY <3>1, <2>2, <2>3, <1>1, RisesUnseen DEF Rested
    <3>2. CASE device.phase = "receive" /\ device.count = 0 /\ device.bits = 0
      <4>1. device = Device("receive", device.want, 0, 0, FALSE, device.pointer)
        BY <3>2, <2>2, <1>1, DeviceIs DEF Rested
      <4>2. device' = Device("receive", device.want, 2 * 0 + 0, 0 + 1, FALSE, device.pointer) /\ Untouched
        <5>1. 0 < 8
          OBVIOUS
        <5> QED BY <5>1, <4>1, <2>3, <2>4, RisesReceiving, Zenon
      <4>3. "receive" \in Phases /\ 2 * 0 + 0 \in Byte /\ 0 + 1 \in 0 .. 8 /\ FALSE \in BOOLEAN
        BY DEF Phases, Byte
      <4>4. device' \in DeviceTypes
        BY <4>2, <4>3, <1>2, DeviceTyped
      <4>5. ~device'.pull
        BY <4>2 DEF Device
      <4> QED BY <4>2, <4>4, <4>5
    <3> QED BY <3>1, <3>2, <2>2 DEF Rested
  <2> QED BY <2>1, <2>2, <2>3, <2>5, <1>1, <1>3
<1>8. CASE k = 3
  <2>1. Drive(scl, 1, dir) /\ NextOps(r, m, Drop(i2c_stop, 4), ok, byte, data)
    <3>1. 4 = 3 + 1 /\ 3 \in Nat /\ 3 < Len(i2c_stop) /\ i2c_stop[4] = Sda(1)
      BY StopIs
    <3> QED BY <3>1, <1>8, <1>d, DoSda
  <2>2. scl = 1 /\ sda = 0 /\ dir = 1 /\ ~device.pull
    BY <1>8 DEF Stopping
  <2>3. sda_wire = 0 /\ Wire(1, 1, device) = 1
    BY <2>2, <1>1, <1>2, WireIs DEF sda_wire
  <2>4. /\ Wires(1, 1, 1) /\ Untouched
        /\ device' = Device("idle", "device", 0, 0, FALSE, device.pointer)
    BY <2>1, <2>2, <2>3, StopSeen
  <2>5. device' \in DeviceTypes
    <3>1. "idle" \in Phases /\ "device" \in Wants /\ 0 \in Byte /\ 0 \in 0 .. 8 /\ FALSE \in BOOLEAN
      BY DEF Phases, Wants, Byte
    <3> QED BY <2>4, <3>1, <1>2, DeviceTyped
  <2>6. wide' = wide /\ scl' = 1 /\ sda' = 1
    BY <2>4 DEF Wires
  <2>7. Free'
    BY <2>4, <2>6 DEF Free, Device
  <2>8. Drop(i2c_stop, 4) = << >>
    BY StopIs, DropEnds
  <2>9. Doing(r, m, << >>, ok, byte, data)' /\ Result(r, m, ok, data)'
    BY <2>1, <2>4, <2>6, <2>8, <1>1, DoingNext, ResultStill
  <2>10. m = Length(r)' /\ m # 0
    BY <2>6, <1>1, Static
  <2>11. Between(r, m, ok, byte, data)'
    BY <2>7, <2>9, <2>10 DEF Between
  <2>12. At(r, m, ok, byte, data)'
    BY <2>11 DEF At
  <2> QED BY <2>1, <2>4, <2>5, <2>12, <1>1, Progresses DEF NextOps
<1> QED BY <1>5, <1>6, <1>7, <1>8

(* i2c_write, bit by bit: the device has one more bit of the byte after    *)
(* each fall of the clock.                                                 *)
LEMMA SentIs ==
  ASSUME NEW r, RequestOK(r), LENGTH > 0, NEW m \in 1 .. Length(r), IsSend(r, m)
  PROVE  /\ SentAt(r, m) \in Byte /\ m >= 2 /\ m # Length(r)
         /\ r.kind = "write" => m <= 3 + Addresses
         /\ r.kind = "read" => m <= 2 + Addresses \/ m = 4 + Addresses
<1>1. /\ High(r.reg) \in Byte /\ Low(r.reg) \in Byte /\ DEVICE \in Byte /\ DEVICE + 1 \in Byte
      /\ r.kind = "write" => r.value \in Byte
  BY RequestIs, CallTypes
<1>2. /\ Addresses \in {1, 2} /\ r.kind \in {"write", "read"} /\ (wide <=> Addresses = 2)
      /\ r.kind = "write" => Length(r) = 4 + Addresses
      /\ r.kind = "read" => r.n \in Nat \ {0} /\ Length(r) = 5 + Addresses + r.n
  BY LengthIs
<1>3. /\ m >= 2 /\ m # Length(r)
      /\ r.kind = "write" => m <= 3 + Addresses
      /\ r.kind = "read" => m <= 2 + Addresses \/ m = 4 + Addresses
  BY <1>2 DEF IsSend
<1>4. SentAt(r, m) \in Byte
  BY <1>1, <1>2, <1>3 DEF IsSend, SentAt
<1> QED BY <1>3, <1>4

LEMMA WantIs ==
  ASSUME NEW r, RequestOK(r), LENGTH > 0, NEW m \in 1 .. Length(r)
  PROVE  WantAt(r, m) \in Wants
<1>1. /\ Addresses \in {1, 2} /\ (wide <=> Addresses = 2)
  BY LengthIs
<1> QED BY <1>1, LengthIs DEF WantAt, Wants

LEMMA WriteBitStep ==
  ASSUME WireTypes, NEW r, RequestOK(r), LENGTH > 0, Access,
         NEW m \in 1 .. Length(r), NEW n \in 0 .. 7, NEW j \in 0 .. 3,
         NEW ok, NEW byte, NEW data, WriteBit(r, m, n, j, ok, byte, data)
  PROVE  Progress(r)
<1>a. PICK w : w = WantAt(r, m - 1)
  OBVIOUS
<1>b. PICK p : p = device.pointer
  OBVIOUS
<1>1. PICK b \in Byte : b = SentAt(r, m)
  BY SentIs DEF WriteBit
<1>2. PICK s : s = i2c_write(b)
  OBVIOUS
<1>3. /\ s \in Seq(Accesses) /\ Len(s) = 37 /\ s[1] = Dir(1)
      /\ \A i \in 1 .. 8 : /\ s[4 * i - 2] = Scl(0) /\ s[4 * i - 1] = Sda(BitOf(b, i))
                           /\ s[4 * i] = Scl(1) /\ s[4 * i + 1] = Scl(0)
  <2>1. IsWrite(b, s)
    BY <1>2, WriteIs
  <2> QED BY <2>1 DEF IsWrite
<1>4. /\ IsSend(r, m) /\ Doing(r, m, Drop(s, 4 * n + j), ok, byte, data)
      /\ ok = TRUE /\ byte \in Byte /\ data = << >> /\ taken = FALSE
      /\ device = Device("receive", w, Prefix(b, n), n, FALSE, p) /\ PointerOK(r, m - 1, p)
  BY <1>a, <1>b, <1>1, <1>2 DEF WriteBit, Doing, Shifted, WireTypes
<1>c. /\ scl = (IF j = 0 /\ n > 0 THEN 1 ELSE 0)
      /\ n > 0 \/ j > 0 => dir = 1
      /\ j = 3 => sda = BitOf(b, n + 1)
  BY <1>1 DEF WriteBit
<1>5. /\ scl \in Bit /\ sda \in Bit /\ dir \in Bit /\ 0 \in Bit /\ 1 \in Bit
      /\ device \in DeviceTypes /\ m \in 0 .. Length(r) /\ m > 0 /\ m - 1 \in 1 .. Length(r)
      /\ p \in Nat /\ w \in Wants
  <2>1. scl \in Bit /\ sda \in Bit /\ dir \in Bit /\ 0 \in Bit /\ 1 \in Bit /\ device \in DeviceTypes
    BY DEF WireTypes, DeviceTypes, Bit
  <2>2. m \in 0 .. Length(r) /\ m > 0 /\ m - 1 \in 1 .. Length(r)
    BY <1>4, SentIs, LengthIs
  <2> QED BY <2>1, <2>2, <1>a, <1>b, WiredDevice, WantIs
<1>6. device.phase = "receive" /\ device.count = n /\ device.pull = FALSE /\ device.count # 8
  <2>1. device.phase = "receive" /\ device.count = n /\ device.pull = FALSE
    BY <1>4 DEF Device
  <2> QED BY <2>1
<1>7. 4 * n + j \in Nat /\ 4 * n + j < Len(s)
  <2>1. 4 * n + j \in Nat /\ 4 * n + j < 37
    OBVIOUS
  <2> QED BY <2>1, <1>3
<1>8. BitOf(b, n + 1) \in Bit
  BY PrefixStep
<1>d. Making(s, 4 * n + j, r, m, ok, byte, data)
  BY <1>3, <1>4, <1>7 DEF Making
<1>9. ASSUME NEW n2 \in 0 .. 8, NEW j2 \in 0 .. 3, n2 < 8 \/ j2 = 0,
             NEW c \in Bit, NEW e \in Bit, NEW d \in Bit, Wires(c, e, d), Untouched,
             NextOps(r, m, Drop(s, 4 * n2 + j2), ok, byte, data),
             device' = Device("receive", w, Prefix(b, n2), n2, FALSE, p),
             /\ c = (IF j2 = 0 /\ n2 > 0 THEN 1 ELSE 0)
             /\ d = 1
             /\ j2 = 3 => e = BitOf(b, n2 + 1)
      PROVE  Progress(r)
  <2>1. wide' = wide /\ scl' = c /\ sda' = e /\ dir' = d /\ taken' = FALSE
    BY <1>4, <1>9 DEF Wires, Untouched
  <2>2. Doing(r, m, Drop(s, 4 * n2 + j2), ok, byte, data)'
    BY <2>1, <1>4, <1>9, DoingNext
  <2>3. b = SentAt(r, m)' /\ IsSend(r, m)' /\ w = WantAt(r, m - 1)'
        /\ PointerOK(r, m - 1, p)'
    <3>1. SentAt(r, m)' = SentAt(r, m) /\ (IsSend(r, m)' <=> IsSend(r, m))
      BY <2>1, Static
    <3>2. WantAt(r, m - 1)' = WantAt(r, m - 1) /\ \A q : PointerOK(r, m - 1, q)' <=> PointerOK(r, m - 1, q)
      BY <2>1, Static
    <3> QED BY <3>1, <3>2, <1>a, <1>1, <1>4
  <2>4. p = device'.pointer
    BY <1>9 DEF Device
  <2>5. Shifted(r, m, n2)'
    BY <2>3, <2>4, <1>9 DEF Shifted
  <2>6. At(r, m, ok, byte, data)'
    <3>1. CASE n2 < 8
      <4>1. WriteBit(r, m, n2, j2, ok, byte, data)'
        BY <2>1, <2>2, <2>3, <2>5, <1>2, <1>4, <1>9 DEF WriteBit
      <4>2. n2 \in 0 .. 7
        BY <3>1
      <4> QED BY <4>1, <4>2, <1>5 DEF At
    <3>2. CASE n2 = 8
      <4>1. j2 = 0 /\ 4 * n2 + j2 = 32
        BY <3>2, <1>9
      <4>2. Doing(r, m, Drop(s, 32), ok, byte, data)'
        BY <2>2, <4>1
      <4>3. WriteEnd(r, m, 32, ok, byte, data)'
        <5>1. Shifted(r, m, 8)' /\ scl' = 1 /\ n2 > 0
          BY <2>1, <2>5, <3>2, <4>1, <1>9
        <5>2. 32 = 32 /\ ~(32 > 32) /\ ~(32 >= 34) /\ 32 \in {32, 35, 36} /\ 32 # 36
          OBVIOUS
        <5>3. s = i2c_write(SentAt(r, m)')
          BY <2>3, <1>2
        <5> QED BY <5>1, <5>2, <5>3, <2>1, <4>2, <2>3, <1>4 DEF WriteEnd
      <4>4. 32 \in 32 .. 36
        OBVIOUS
      <4> QED BY <4>3, <4>4, <1>5 DEF At
    <3> QED BY <3>1, <3>2
  <2>7. device' \in DeviceTypes
    <3>1. "receive" \in Phases /\ Prefix(b, n2) \in Byte /\ FALSE \in BOOLEAN
      BY PrefixTypes DEF Phases
    <3> QED BY <3>1, <1>5, <1>9, DeviceTyped
  <2> QED BY <2>6, <2>7, <1>5, <1>9, Progresses DEF NextOps
<1>10. CASE j = 0 /\ n = 0
  <2>0. scl = 0
    BY <1>c, <1>10
  <2>1. 4 * n + j = 0 /\ 1 = (4 * n + j) + 1 /\ 4 * 0 + 1 = 1
    BY <1>10
  <2>2. Drive(scl, sda, 1) /\ NextOps(r, m, Drop(s, 1), ok, byte, data)
    <3>1. s[1] = Dir(1)
      BY <1>3
    <3> QED BY <2>1, <3>1, <1>d, DoDir
  <2>3. Wires(0, sda, 1) /\ device' = device /\ Untouched
    BY <2>0, <2>2, Quiet
  <2>4. NextOps(r, m, Drop(s, 4 * 0 + 1), ok, byte, data)
    BY <2>1, <2>2
  <2>5. device' = Device("receive", w, Prefix(b, 0), 0, FALSE, p)
    BY <2>3, <1>4, <1>10
  <2>6. /\ 0 \in 0 .. 8 /\ 1 \in 0 .. 3 /\ 0 < 8 /\ 1 # 3 /\ ~(1 = 0 /\ 0 > 0)
    OBVIOUS
  <2> QED BY <2>3, <2>4, <2>5, <2>6, <1>5, <1>9, Zenon
<1>11. CASE j = 0 /\ n > 0
  <2>0. scl = 1 /\ dir = 1
    BY <1>c, <1>11
  <2>1. 4 * n + 1 = (4 * n + j) + 1 /\ n \in 1 .. 8
    BY <1>11
  <2>2. s[4 * n + 1] = Scl(0)
    BY <2>1, <1>3
  <2>3. Drive(0, sda, dir) /\ NextOps(r, m, Drop(s, 4 * n + 1), ok, byte, data)
    BY <2>1, <2>2, <1>d, DoScl
  <2>4. Wires(0, sda, dir) /\ device' = device /\ Untouched
    BY <2>0, <2>3, <1>6, Lowered, FallsUnseen
  <2>5. device' = Device("receive", w, Prefix(b, n), n, FALSE, p)
    BY <2>4, <1>4
  <2>6. /\ n \in 0 .. 8 /\ 1 \in 0 .. 3 /\ n < 8 /\ 1 # 3 /\ 1 # 0
    OBVIOUS
  <2> QED BY <2>0, <2>3, <2>4, <2>5, <2>6, <1>5, <1>9, Zenon
<1>12. CASE j = 1
  <2>0. scl = 0 /\ dir = 1
    BY <1>c, <1>12
  <2>1. 4 * n + 2 = (4 * n + j) + 1 /\ n + 1 \in 1 .. 8 /\ 4 * (n + 1) - 2 = 4 * n + 2
    BY <1>12
  <2>2. s[4 * n + 2] = Scl(0)
    BY <2>1, <1>3
  <2>3. Drive(0, sda, dir) /\ NextOps(r, m, Drop(s, 4 * n + 2), ok, byte, data)
    BY <2>1, <2>2, <1>d, DoScl
  <2>4. Wires(0, sda, dir) /\ device' = device /\ Untouched
    BY <2>0, <2>3, Quiet
  <2>5. device' = Device("receive", w, Prefix(b, n), n, FALSE, p)
    BY <2>4, <1>4
  <2>6. /\ n \in 0 .. 8 /\ 2 \in 0 .. 3 /\ n < 8 /\ 2 # 0 /\ 2 # 3
    OBVIOUS
  <2> QED BY <2>0, <2>3, <2>4, <2>5, <2>6, <1>5, <1>9, Zenon
<1>13. CASE j = 2
  <2>0. scl = 0 /\ dir = 1
    BY <1>c, <1>13
  <2>1. 4 * n + 3 = (4 * n + j) + 1 /\ n + 1 \in 1 .. 8 /\ 4 * (n + 1) - 1 = 4 * n + 3
    BY <1>13
  <2>2. s[4 * n + 3] = Sda(BitOf(b, n + 1))
    BY <2>1, <1>3
  <2>3. Drive(scl, BitOf(b, n + 1), dir) /\ NextOps(r, m, Drop(s, 4 * n + 3), ok, byte, data)
    BY <2>1, <2>2, <1>d, DoSda
  <2>4. Wires(0, BitOf(b, n + 1), dir) /\ device' = device /\ Untouched
    BY <2>0, <2>3, Quiet
  <2>5. device' = Device("receive", w, Prefix(b, n), n, FALSE, p)
    BY <2>4, <1>4
  <2>6. /\ n \in 0 .. 8 /\ 3 \in 0 .. 3 /\ n < 8 /\ 3 # 0
    OBVIOUS
  <2> QED BY <2>0, <2>3, <2>4, <2>5, <2>6, <1>5, <1>8, <1>9, Zenon
<1>14. CASE j = 3
  <2>1. 4 * (n + 1) = (4 * n + j) + 1 /\ n + 1 \in 1 .. 8 /\ n < 8 /\ 4 * (n + 1) + 0 = 4 * (n + 1)
    BY <1>14
  <2>2. s[4 * (n + 1)] = Scl(1)
    BY <2>1, <1>3
  <2>3. Drive(1, sda, dir) /\ NextOps(r, m, Drop(s, 4 * (n + 1)), ok, byte, data)
    BY <2>1, <2>2, <1>d, DoScl
  <2>4. scl = 0 /\ dir = 1 /\ sda = BitOf(b, n + 1)
    BY <1>c, <1>14
  <2>5. Wires(1, sda, dir) /\ ClockRises(Wire(sda, dir, device))
    BY <2>3, <2>4, Raised
  <2>6. Wire(sda, dir, device) = BitOf(b, n + 1)
    <3>1. device.pull \in BOOLEAN /\ ~device.pull
      BY <1>6
    <3> QED BY <3>1, <2>4, <1>5, WireIs
  <2>7. device' = Device("receive", w, 2 * Prefix(b, n) + BitOf(b, n + 1), n + 1, FALSE, p) /\ Untouched
    BY <2>1, <2>5, <2>6, <1>4, RisesReceiving
  <2>8. 2 * Prefix(b, n) + BitOf(b, n + 1) = Prefix(b, n + 1)
    <3>1. n + 1 - 1 = n
      OBVIOUS
    <3> QED BY <3>1, <2>1, PrefixStep
  <2>9. NextOps(r, m, Drop(s, 4 * (n + 1) + 0), ok, byte, data)
    BY <2>1, <2>3
  <2>10. device' = Device("receive", w, Prefix(b, n + 1), n + 1, FALSE, p)
    BY <2>7, <2>8
  <2>11. n + 1 \in 0 .. 8 /\ 0 \in 0 .. 3 /\ 0 # 3 /\ 0 = 0 /\ n + 1 > 0
    OBVIOUS
  <2> QED BY <2>4, <2>5, <2>7, <2>9, <2>10, <2>11, <1>5, <1>9, Zenon
<1> QED BY <1>10, <1>11, <1>12, <1>13, <1>14

(* i2c_read, bit by bit.                                                   *)
LEMMA ReceiveIs ==
  ASSUME WireTypes, NEW r, RequestOK(r), LENGTH > 0, NEW m \in 1 .. Length(r), IsReceive(r, m)
  PROVE  /\ r.kind = "read" /\ m - 1 \in 1 .. Length(r) /\ m # Length(r)
         /\ m >= 5 + Addresses /\ m - 1 >= 4 + Addresses
         /\ Got(r, m) = m - 4 - Addresses /\ Got(r, m - 1) = m - 5 - Addresses
         /\ Got(r, m) \in 1 .. r.n /\ Got(r, m - 1) \in Nat /\ Got(r, m) = Got(r, m - 1) + 1
         /\ r.n \in Nat /\ r.reg \in Nat
         /\ Source(r, m) \in Registers /\ Source(r, m) \in Nat /\ Source(r, m) = r.reg + Got(r, m - 1)
         /\ regs[Source(r, m)] \in Byte
         /\ Acked(r, m) \in BOOLEAN /\ (Acked(r, m) <=> Got(r, m) # r.n)
<1>1. r.kind = "read" /\ m \in 5 + Addresses .. 4 + Addresses + r.n
  BY DEF IsReceive
<1>2. Addresses \in {1, 2} /\ r.n \in Nat \ {0} /\ Length(r) = 5 + Addresses + r.n
  BY <1>1, LengthIs
<1>3. r.reg \in Registers /\ r.reg \in Word /\ \A i \in 1 .. r.n : r.reg + i - 1 \in Registers
  BY <1>1, RequestIs
<1>4. r.reg \in Nat
  BY RequestIs
<1> DEFINE g == m - 4 - Addresses
<1>5. g \in 1 .. r.n /\ g - 1 \in Nat /\ g - 1 = m - 5 - Addresses /\ g = (g - 1) + 1
  BY <1>1, <1>2
<1>6. Got(r, m) = g /\ Got(r, m - 1) = g - 1
  BY <1>1, <1>2 DEF Got
<1>7. /\ m - 1 \in 1 .. Length(r) /\ m # Length(r)
      /\ m >= 5 + Addresses /\ m - 1 >= 4 + Addresses
  BY <1>1, <1>2
<1> HIDE DEF g
<1>8. Source(r, m) = r.reg + (g - 1)
  BY <1>5 DEF Source
<1>9. Source(r, m) \in Registers /\ Source(r, m) \in Nat
  <2>1. \A x \in Nat : x + g - 1 = x + (g - 1)
    BY <1>5
  <2>2. r.reg + g - 1 \in Registers
    BY <1>3, <1>5
  <2>3. r.reg + g - 1 = r.reg + (g - 1)
    BY <2>1, <1>4
  <2>4. Source(r, m) \in Registers
    BY <2>2, <2>3, <1>8
  <2> QED BY <2>4, <1>4, <1>5, <1>8
<1>10. regs[Source(r, m)] \in Byte
  BY <1>9 DEF WireTypes
<1>11. Acked(r, m) \in BOOLEAN /\ (Acked(r, m) <=> g # r.n)
  BY <1>5 DEF Acked, g
<1> QED BY <1>1, <1>2, <1>4, <1>5, <1>6, <1>7, <1>8, <1>9, <1>10, <1>11

LEMMA ReadingNext ==
  ASSUME NEW r, NEW m, NEW s, NEW k, NEW q, s = i2c_read(Acked(r, m)),
         NEW ok, NEW byte, NEW data, NEW byte2 \in Byte,
         Reading(r, m, k, ok, byte, data), wide' = wide, Untouched,
         NextOps(r, m, Drop(s, q), ok, byte2, data)
  PROVE  Reading(r, m, q, ok, byte2, data)'
<1>1. ok = TRUE /\ IsReceive(r, m) /\ Result(r, m - 1, TRUE, data)
  BY DEF Reading, Doing
<1>2. Doing(r, m, Drop(s, q), ok, byte2, data)'
  BY <1>1, DoingNext
<1>3. IsReceive(r, m)' /\ Acked(r, m)' = Acked(r, m)
  BY <1>1, Static
<1>4. Result(r, m - 1, TRUE, data)'
  BY <1>1, ResultStill
<1> QED BY <1>1, <1>2, <1>3, <1>4 DEF Reading

LEMMA ReadStartStep ==
  ASSUME WireTypes, NEW r, RequestOK(r), LENGTH > 0, Access,
         NEW m \in 1 .. Length(r), NEW k \in 0 .. 1,
         NEW ok, NEW byte, NEW data, ReadStart(r, m, k, ok, byte, data)
  PROVE  Progress(r)
<1>1. PICK s : s = i2c_read(Acked(r, m))
  OBVIOUS
<1>2. /\ Reading(r, m, k, ok, byte, data) /\ IsReceive(r, m)
      /\ Doing(r, m, Drop(s, k), ok, byte, data) /\ byte = 0 /\ byte \in Byte
      /\ Sends(1) /\ device.pointer = Source(r, m) /\ scl = 0 /\ (k = 1 => dir = 0)
  BY <1>1 DEF ReadStart, Reading, Doing
<1>3. /\ s \in Seq(Accesses) /\ Len(s) = 33 /\ s[1] = Dir(0) /\ s[2] = Scl(0)
  <2>1. Acked(r, m) \in BOOLEAN
    BY <1>2, ReceiveIs
  <2> QED
    <3>1. IsRead(Acked(r, m), s)
      BY <2>1, <1>1, ReadIs
    <3> QED BY <3>1, <2>1, <1>1 DEF IsRead
<1>4. /\ scl \in Bit /\ sda \in Bit /\ dir \in Bit /\ 0 \in Bit /\ 1 \in Bit
      /\ device \in DeviceTypes /\ m \in 0 .. Length(r) /\ m > 0
  BY DEF WireTypes, DeviceTypes, Bit
<1>d. Making(s, k, r, m, ok, byte, data)
  BY <1>2, <1>3 DEF Making
<1>5. CASE k = 0
  <2>1. 1 = k + 1
    BY <1>5
  <2>2. Drive(scl, sda, 0) /\ NextOps(r, m, Drop(s, 1), ok, byte, data)
    BY <2>1, <1>3, <1>d, DoDir
  <2>3. Wires(0, sda, 0) /\ device' = device /\ Untouched
    BY <2>2, <1>2, Quiet
  <2>4. wide' = wide /\ scl' = 0 /\ dir' = 0
    BY <2>3 DEF Wires
  <2>5. Reading(r, m, 1, ok, byte, data)'
    BY <2>2, <2>3, <2>4, <1>1, <1>2, ReadingNext
  <2>6. Sends(1)' /\ device'.pointer = Source(r, m)'
    <3>1. Source(r, m)' = Source(r, m)
      BY <2>4, Static
    <3> QED BY <3>1, <2>3, <1>2 DEF Sends, Untouched
  <2>7. ReadStart(r, m, 1, ok, byte, data)'
    BY <2>4, <2>5, <2>6, <1>2 DEF ReadStart
  <2>8. At(r, m, ok, byte, data)'
    BY <2>7, <1>4 DEF At
  <2> QED BY <2>2, <2>3, <2>8, <1>4, Progresses DEF NextOps
<1>6. CASE k = 1
  <2>1. 2 = k + 1
    BY <1>6
  <2>2. Drive(0, sda, dir) /\ NextOps(r, m, Drop(s, 2), ok, byte, data)
    BY <2>1, <1>3, <1>d, DoScl
  <2>3. Wires(0, sda, 0) /\ device' = device /\ Untouched
    BY <2>2, <1>2, <1>6, Quiet
  <2>4. wide' = wide /\ scl' = 0 /\ dir' = 0
    BY <2>3 DEF Wires
  <2>5. Reading(r, m, 2, ok, byte, data)'
    BY <2>2, <2>3, <2>4, <1>1, <1>2, ReadingNext
  <2>6. Sends(1)' /\ device'.pointer = Source(r, m)' /\ Prefix(regs'[Source(r, m)'], 0) = 0
    <3>1. Source(r, m)' = Source(r, m)
      BY <2>4, Static
    <3>2. Prefix(regs'[Source(r, m)'], 0) = 0
      BY DEF Prefix
    <3> QED BY <3>1, <3>2, <2>3, <1>2 DEF Sends, Untouched
  <2>7. ReadBit(r, m, 0, 0, ok, byte, data)'
    <3>1. 3 * 0 + 2 + 0 = 2 /\ 0 + 1 = 1 /\ 0 # 2
      OBVIOUS
    <3> QED BY <3>1, <2>4, <2>5, <2>6, <1>2 DEF ReadBit
  <2>8. At(r, m, ok, byte, data)'
    BY <2>7, <1>4 DEF At
  <2> QED BY <2>2, <2>3, <2>8, <1>4, Progresses DEF NextOps
<1> QED BY <1>5, <1>6

LEMMA ReadBitStep ==
  ASSUME WireTypes, NEW r, RequestOK(r), LENGTH > 0, Access,
         NEW m \in 1 .. Length(r), NEW n \in 0 .. 7, NEW j \in 0 .. 2,
         NEW ok, NEW byte, NEW data, ReadBit(r, m, n, j, ok, byte, data)
  PROVE  Progress(r)
<1>1. PICK s : s = i2c_read(Acked(r, m))
  OBVIOUS
<1>2. PICK p : p = Source(r, m)
  OBVIOUS
<1>3. PICK b : b = regs[p]
  OBVIOUS
<1>4. /\ Reading(r, m, 3 * n + 2 + j, ok, byte, data) /\ IsReceive(r, m)
      /\ Doing(r, m, Drop(s, 3 * n + 2 + j), ok, byte, data) /\ byte \in Byte
      /\ device.phase = "send" /\ device.want = "send" /\ device.count = n + 1
      /\ device.pull = (BitOf(b, n + 1) = 0) /\ device.pointer = p /\ dir = 0
  BY <1>1, <1>2, <1>3 DEF ReadBit, Reading, Doing, Sends
<1>5. scl = (IF j = 0 THEN 0 ELSE 1) /\ byte = Prefix(b, IF j = 2 THEN n + 1 ELSE n)
  BY <1>2, <1>3 DEF ReadBit
<1>6. p \in Registers /\ p \in Nat /\ b \in Byte
  BY <1>2, <1>3, <1>4, ReceiveIs
<1>7. /\ s \in Seq(Accesses) /\ Len(s) = 33
      /\ \A i \in 1 .. 8 : /\ s[3 * i] = Scl(1) /\ s[3 * i + 1] = <<"sample", 0>>
                           /\ s[3 * i + 2] = Scl(0)
  <2>1. Acked(r, m) \in BOOLEAN
    BY <1>4, ReceiveIs
  <2> QED
    <3>1. IsRead(Acked(r, m), s)
      BY <2>1, <1>1, ReadIs
    <3> QED BY <3>1, <2>1, <1>1 DEF IsRead
<1>8. /\ scl \in Bit /\ sda \in Bit /\ dir \in Bit /\ 0 \in Bit /\ 1 \in Bit
      /\ device \in DeviceTypes /\ m \in 0 .. Length(r) /\ m > 0
  BY DEF WireTypes, DeviceTypes, Bit
<1>9. 3 * n + 2 + j \in Nat /\ 3 * n + 2 + j < Len(s)
  <2>1. 3 * n + 2 + j \in Nat /\ 3 * n + 2 + j < 33
    OBVIOUS
  <2> QED BY <2>1, <1>7
<1>d. Making(s, 3 * n + 2 + j, r, m, ok, byte, data)
  BY <1>4, <1>7, <1>9 DEF Making
<1>10. ASSUME NEW n2 \in 0 .. 7, NEW j2 \in 0 .. 2, NEW c \in Bit, Wires(c, sda, 0), Untouched,
              NEW byte2 \in Byte, NextOps(r, m, Drop(s, 3 * n2 + 2 + j2), ok, byte2, data),
              device' \in DeviceTypes, device'.phase = "send", device'.want = "send",
              device'.count = n2 + 1, device'.pull = (BitOf(b, n2 + 1) = 0), device'.pointer = p,
              c = (IF j2 = 0 THEN 0 ELSE 1), byte2 = Prefix(b, IF j2 = 2 THEN n2 + 1 ELSE n2)
       PROVE  Progress(r)
  <2>1. wide' = wide /\ scl' = c /\ dir' = 0 /\ regs' = regs
    BY <1>10 DEF Wires, Untouched
  <2>2. Reading(r, m, 3 * n2 + 2 + j2, ok, byte2, data)'
    BY <2>1, <1>1, <1>4, <1>10, ReadingNext
  <2>3. Source(r, m)' = p
    BY <2>1, <1>2, Static
  <2>4. Sends(n2 + 1)'
    BY <2>1, <1>3, <1>10 DEF Sends
  <2>5. ReadBit(r, m, n2, j2, ok, byte2, data)'
    BY <2>1, <2>2, <2>3, <2>4, <1>3, <1>10 DEF ReadBit
  <2>6. At(r, m, ok, byte2, data)'
    BY <2>5, <1>8 DEF At
  <2> QED BY <2>6, <1>8, <1>10, Progresses DEF NextOps
<1>11. CASE j = 0
  <2>1. /\ 3 * (n + 1) = (3 * n + 2 + j) + 1 /\ n + 1 \in 1 .. 8 /\ 3 * (n + 1) = 3 * n + 2 + 1
        /\ 1 \in 0 .. 2 /\ 1 # 2 /\ 1 # 0 /\ 0 # 2
    BY <1>11
  <2>2. scl = 0 /\ byte = Prefix(b, n)
    BY <1>5, <1>11
  <2>3. Drive(1, sda, dir) /\ NextOps(r, m, Drop(s, 3 * (n + 1)), ok, byte, data)
    <3>1. s[3 * (n + 1)] = Scl(1)
      BY <2>1, <1>7
    <3> QED BY <2>1, <3>1, <1>d, DoScl
  <2>4. Wires(1, sda, 0) /\ device' = device /\ Untouched
    BY <2>2, <2>3, <1>4, Raised, RisesUnseen
  <2>5. NextOps(r, m, Drop(s, 3 * n + 2 + 1), ok, byte, data)
    BY <2>1, <2>3
  <2> QED BY <2>1, <2>2, <2>4, <2>5, <1>4, <1>8, <1>10, Zenon
<1>12. CASE j = 1
  <2>1. /\ 3 * (n + 1) + 1 = (3 * n + 2 + j) + 1 /\ n + 1 \in 1 .. 8 /\ 3 * (n + 1) + 1 = 3 * n + 2 + 2
        /\ 2 \in 0 .. 2 /\ 2 # 0 /\ 1 # 2 /\ 1 # 0
    BY <1>12
  <2>2. scl = 1 /\ byte = Prefix(b, n)
    BY <1>5, <1>12
  <2>3. StillPorts /\ NextOps(r, m, Drop(s, 3 * (n + 1) + 1), ok, 2 * byte + sda_wire, data)
    <3>1. s[3 * (n + 1) + 1] = <<"sample", 0>>
      BY <2>1, <1>7
    <3> QED BY <2>1, <3>1, <1>d, DoSample
  <2>4. sda_wire = BitOf(b, n + 1)
    <3>1. device.pull \in BOOLEAN
      BY WiredDevice
    <3>2. sda_wire = IF device.pull THEN 0 ELSE 1
      <4>1. dir = 0 => Wire(sda, dir, device) = (IF device.pull THEN 0 ELSE 1)
        BY <3>1, <1>8, WireIs
      <4> QED BY <4>1, <1>4 DEF sda_wire
    <3>3. BitOf(b, n + 1) = 0 \/ BitOf(b, n + 1) = 1
      BY <2>1, <1>6, PrefixStep DEF Bit
    <3>4. device.pull = (BitOf(b, n + 1) = 0)
      BY <1>4
    <3>5. CASE BitOf(b, n + 1) = 0
      <4>1. device.pull
        BY <3>4, <3>5
      <4> QED BY <4>1, <3>2, <3>5
    <3>6. CASE BitOf(b, n + 1) = 1
      <4>1. ~device.pull
        <5>1. ~(BitOf(b, n + 1) = 0)
          BY <3>6
        <5> QED BY <5>1, <3>4, Zenon
      <4> QED BY <4>1, <3>2, <3>6
    <3> QED BY <3>3, <3>5, <3>6
  <2>5. 2 * byte + sda_wire = Prefix(b, n + 1) /\ Prefix(b, n + 1) \in Byte
    <3>1. n + 1 - 1 = n /\ n + 1 \in 0 .. 8
      OBVIOUS
    <3>2. Prefix(b, n + 1) \in Byte
      BY <3>1, <1>6, PrefixTypes
    <3>3. Prefix(b, n + 1) = 2 * Prefix(b, (n + 1) - 1) + BitOf(b, n + 1)
      BY <2>1, <1>6, PrefixStep, Zenon
    <3> QED BY <3>1, <3>2, <3>3, <2>2, <2>4
  <2>6. NextOps(r, m, Drop(s, 3 * n + 2 + 2), ok, Prefix(b, n + 1), data)
    BY <2>1, <2>3, <2>5
  <2>7. Wires(1, sda, 0) /\ device' = device /\ Untouched
    BY <2>2, <2>3, <1>4 DEF StillPorts
  <2> QED BY <2>1, <2>5, <2>6, <2>7, <1>4, <1>8, <1>10, Zenon
<1>13. CASE j = 2
  <2>1. /\ 3 * (n + 1) + 2 = (3 * n + 2 + j) + 1 /\ n + 1 \in 1 .. 8
        /\ 3 * (n + 1) + 2 = 3 * (n + 1) + 2 + 0 /\ 0 \in 0 .. 2 /\ 0 # 2
    BY <1>13
  <2>2. scl = 1 /\ byte = Prefix(b, n + 1)
    BY <1>5, <1>13
  <2>3. Drive(0, sda, dir) /\ NextOps(r, m, Drop(s, 3 * (n + 1) + 2), ok, byte, data)
    <3>1. s[3 * (n + 1) + 2] = Scl(0)
      BY <2>1, <1>7
    <3> QED BY <2>1, <3>1, <1>d, DoScl
  <2>4. Wires(0, sda, 0) /\ ClockFalls
    BY <2>2, <2>3, <1>4, Lowered
  <2>5. CASE n < 7
    <3>1. Untouched /\ device' = SendBit(device, (n + 1) + 1)
      <4>1. device.count < 8 /\ device.count + 1 = (n + 1) + 1
        BY <2>5, <1>4
      <4> QED BY <4>1, <2>4, <1>4, FallsSending
    <3>2. device = Device("send", "send", device.bits, n + 1, device.pull, p)
      BY <1>4, <1>8, DeviceIs
    <3>3. device' = Device("send", "send", device.bits, (n + 1) + 1, BitOf(b, (n + 1) + 1) = 0, p)
      BY <3>1, <3>2, <1>3, <1>6, SendBitIs
    <3>4. device' \in DeviceTypes
      <4>1. /\ "send" \in Phases /\ "send" \in Wants /\ (n + 1) + 1 \in 0 .. 8
            /\ (BitOf(b, (n + 1) + 1) = 0) \in BOOLEAN /\ device.bits \in Byte
        BY <2>5, WiredDevice DEF Phases, Wants
      <4> QED BY <4>1, <3>3, <1>6, DeviceTyped
    <3>5. /\ device'.phase = "send" /\ device'.want = "send" /\ device'.count = (n + 1) + 1
          /\ device'.pull = (BitOf(b, (n + 1) + 1) = 0) /\ device'.pointer = p
      BY <3>3 DEF Device
    <3>6. NextOps(r, m, Drop(s, 3 * (n + 1) + 2 + 0), ok, byte, data)
      BY <2>1, <2>3
    <3>7. n + 1 \in 0 .. 7
      BY <2>5
    <3> QED BY <2>1, <2>2, <2>4, <3>1, <3>4, <3>5, <3>6, <3>7, <1>4, <1>8, <1>10, Zenon
  <2>6. CASE n = 7
    <3>1. 3 * (n + 1) + 2 = 26 /\ n + 1 = 8
      BY <2>6
    <3>2. Untouched /\ device' = Device("master", "send", device.bits, 8, FALSE, p)
      BY <3>1, <2>4, <1>4, FallsSending
    <3>3. device' \in DeviceTypes
      <4>1. /\ "master" \in Phases /\ "send" \in Wants /\ 8 \in 0 .. 8
            /\ FALSE \in BOOLEAN /\ device.bits \in Byte
        BY WiredDevice DEF Phases, Wants
      <4> QED BY <4>1, <3>2, <1>6, DeviceTyped
    <3>4. /\ device'.phase = "master" /\ device'.want = "send" /\ ~device'.pull /\ device'.pointer = p
      BY <3>2 DEF Device
    <3>5. wide' = wide /\ scl' = 0 /\ regs' = regs
      BY <2>4, <3>2 DEF Wires, Untouched
    <3>6. NextOps(r, m, Drop(s, 26), ok, byte, data)
      BY <3>1, <2>3
    <3>7. Reading(r, m, 26, ok, byte, data)'
      BY <3>2, <3>5, <3>6, <1>1, <1>4, ReadingNext
    <3>8. byte = regs'[Source(r, m)'] /\ Source(r, m)' = p
      <4>1. Source(r, m)' = p
        BY <3>5, <1>2, Static
      <4>2. byte = b
        BY <3>1, <2>2, <1>6, PrefixEnds
      <4> QED BY <4>1, <4>2, <3>5, <1>3
    <3>9. 26 <= 30 /\ ~(26 > 30) /\ ~(26 >= 28) /\ 26 \notin {29, 30} /\ 26 # 30 /\ 26 \in 26 .. 32
      OBVIOUS
    <3>10. ReadEnd(r, m, 26, ok, byte, data)'
      BY <3>4, <3>5, <3>7, <3>8, <3>9 DEF ReadEnd
    <3>11. At(r, m, ok, byte, data)'
      BY <3>9, <3>10, <1>8 DEF At
    <3> QED BY <2>3, <2>4, <3>2, <3>3, <3>11, <1>8, Progresses DEF NextOps
  <2> QED BY <2>5, <2>6
<1> QED BY <1>11, <1>12, <1>13

(* One more register behind those that were read.                          *)
LEMMA Appended ==
  ASSUME NEW S, NEW f \in [S -> Byte], NEW x \in Nat, NEW g \in Nat, NEW data,
         \A i \in 1 .. g + 1 : x + i - 1 \in S,
         data = IF g > 0 THEN [i \in 1 .. g |-> f[x + i - 1]] ELSE << >>
  PROVE  Append(data, f[x + g]) = [i \in 1 .. g + 1 |-> f[x + i - 1]]
<1>1. data = [i \in 1 .. g |-> f[x + i - 1]]
  <2>1. CASE g > 0
    BY <2>1
  <2>2. CASE g = 0
    <3>1. \A i : i \notin 1 .. 0
      OBVIOUS
    <3>2. [i \in 1 .. 0 |-> f[x + i - 1]] = << >>
      BY <3>1
    <3> QED BY <3>2, <2>2
  <2> QED BY <2>1, <2>2
<1>2. \A i \in 1 .. g + 1 : f[x + i - 1] \in Byte
  OBVIOUS
<1>3. data \in Seq(Byte) /\ Len(data) = g
  <2>1. \A i \in 1 .. g : i \in 1 .. g + 1
    OBVIOUS
  <2>2. \A i \in 1 .. g : f[x + i - 1] \in Byte
    BY <2>1, <1>2
  <2>3. [i \in 1 .. g |-> f[x + i - 1]] \in Seq(Byte) /\ Len([i \in 1 .. g |-> f[x + i - 1]]) = g
    BY <2>2
  <2> QED BY <2>3, <1>1
<1>4. x + (g + 1) - 1 = x + g /\ g + 1 \in 1 .. g + 1
  OBVIOUS
<1>5. f[x + g] \in Byte
  BY <1>2, <1>4
<1> DEFINE t == Append(data, f[x + g])
           u == [i \in 1 .. g + 1 |-> f[x + i - 1]]
<1>6. /\ t \in Seq(Byte) /\ Len(t) = g + 1 /\ \A i \in 1 .. g : t[i] = data[i]
      /\ t[g + 1] = f[x + g]
  BY <1>3, <1>5, AppendProperties
<1>7. u \in Seq(Byte) /\ Len(u) = g + 1
  BY <1>2
<1>8. ASSUME NEW i \in 1 .. g + 1
      PROVE  t[i] = u[i]
  <2>1. CASE i \in 1 .. g
    BY <2>1, <1>1, <1>6
  <2>2. CASE i = g + 1
    BY <2>2, <1>4, <1>6
  <2> QED BY <2>1, <2>2
<1> HIDE DEF t, u
<1>9. t = u
  BY <1>6, <1>7, <1>8, SeqEqual
<1> QED BY <1>9 DEF t, u

(* The end of i2c_read: an acknowledge makes the device send the next      *)
(* register, its absence makes it leave the wire alone.                    *)
LEMMA ReadEndStep ==
  ASSUME WireTypes, NEW r, RequestOK(r), LENGTH > 0, Access,
         NEW m \in 1 .. Length(r), NEW k \in 26 .. 32,
         NEW ok, NEW byte, NEW data, ReadEnd(r, m, k, ok, byte, data)
  PROVE  Progress(r)
<1>1. PICK s : s = i2c_read(Acked(r, m))
  OBVIOUS
<1>2. PICK p : p = Source(r, m)
  OBVIOUS
<1>3. PICK b : b = regs[p]
  OBVIOUS
<1>a. PICK y : y = IF Acked(r, m) THEN 0 ELSE 1
  OBVIOUS
<1>4. /\ Reading(r, m, k, ok, byte, data) /\ IsReceive(r, m)
      /\ Doing(r, m, Drop(s, k), ok, byte, data) /\ byte \in Byte /\ ok = TRUE
      /\ Result(r, m - 1, TRUE, data) /\ byte = b
  BY <1>1, <1>2, <1>3 DEF ReadEnd, Reading, Doing
<1>5. /\ k <= 30 => /\ device.phase = "master" /\ device.want = "send" /\ ~device.pull
                    /\ device.pointer = p
      /\ k > 30 => Ready(r, m)
      /\ k >= 28 => dir = 1
      /\ k \in {29, 30} => sda = y
      /\ k = 30 => device.bits = sda
      /\ scl = (IF k = 30 THEN 1 ELSE 0)
  BY <1>2, <1>a DEF ReadEnd
<1>6. p \in Registers /\ p \in Nat /\ b \in Byte
  BY <1>2, <1>3, <1>4, ReceiveIs
<1>7. /\ s \in Seq(Accesses) /\ Len(s) = 33 /\ s[27] = Scl(0) /\ s[28] = Dir(1) /\ s[29] = Sda(y)
      /\ s[30] = Scl(1) /\ s[31] = Scl(0) /\ s[32] = Sda(0) /\ s[33] = <<"store", 0>>
  <2>1. Acked(r, m) \in BOOLEAN
    BY <1>4, ReceiveIs
  <2> QED
    <3>1. IsRead(Acked(r, m), s)
      BY <2>1, <1>1, <1>a, ReadIs
    <3> QED BY <3>1, <2>1, <1>1, <1>a DEF IsRead
<1>8. /\ scl \in Bit /\ sda \in Bit /\ dir \in Bit /\ 0 \in Bit /\ 1 \in Bit /\ y \in Bit
      /\ device \in DeviceTypes /\ m \in 0 .. Length(r) /\ m > 0
  BY <1>a DEF WireTypes, DeviceTypes, Bit
<1>9. k \in Nat /\ k < Len(s)
  BY <1>7
<1>d. Making(s, k, r, m, ok, byte, data)
  BY <1>4, <1>7, <1>9 DEF Making
<1>10. ASSUME NEW q \in 27 .. 32, NEW c \in Bit, NEW e \in Bit, NEW d \in Bit,
              Wires(c, e, d), Untouched, NextOps(r, m, Drop(s, q), ok, byte, data),
              device' \in DeviceTypes,
              q <= 30 => /\ device'.phase = "master" /\ device'.want = "send" /\ ~device'.pull
                         /\ device'.pointer = p,
              q > 30 => Ready(r, m)',
              q >= 28 => d = 1,
              q \in {29, 30} => e = y,
              q = 30 => device'.bits = e,
              c = (IF q = 30 THEN 1 ELSE 0)
       PROVE  Progress(r)
  <2>1. wide' = wide /\ scl' = c /\ sda' = e /\ dir' = d /\ regs' = regs
    BY <1>10 DEF Wires, Untouched
  <2>2. Reading(r, m, q, ok, byte, data)'
    BY <2>1, <1>1, <1>4, <1>10, ReadingNext
  <2>3. Source(r, m)' = p /\ y = IF Acked(r, m)' THEN 0 ELSE 1
    BY <2>1, <1>2, <1>a, Static
  <2>4. byte = regs'[Source(r, m)']
    BY <2>1, <2>3, <1>3, <1>4
  <2>5. ReadEnd(r, m, q, ok, byte, data)'
    BY <2>1, <2>2, <2>3, <2>4, <1>10 DEF ReadEnd
  <2>6. At(r, m, ok, byte, data)'
    BY <2>5, <1>8 DEF At
  <2> QED BY <2>6, <1>8, <1>10, Progresses DEF NextOps
<1>11. CASE k = 26
  <2>1. /\ 27 = k + 1 /\ 27 \in 27 .. 32 /\ 27 <= 30 /\ ~(27 > 30) /\ ~(27 >= 28)
        /\ 27 \notin {29, 30} /\ 27 # 30
    BY <1>11
  <2>2. /\ scl = 0 /\ device.phase = "master" /\ device.want = "send" /\ ~device.pull
        /\ device.pointer = p
    BY <1>5, <1>11
  <2>3. Drive(0, sda, dir) /\ NextOps(r, m, Drop(s, 27), ok, byte, data)
    BY <2>1, <1>7, <1>d, DoScl
  <2>4. Wires(0, sda, dir) /\ device' = device /\ Untouched
    BY <2>2, <2>3, Quiet
  <2> QED BY <2>1, <2>2, <2>3, <2>4, <1>8, <1>10, Zenon
<1>12. CASE k = 27
  <2>1. /\ 28 = k + 1 /\ 28 \in 27 .. 32 /\ 28 <= 30 /\ ~(28 > 30) /\ 28 \notin {29, 30} /\ 28 # 30
    BY <1>12
  <2>2. /\ scl = 0 /\ device.phase = "master" /\ device.want = "send" /\ ~device.pull
        /\ device.pointer = p
    BY <1>5, <1>12
  <2>3. Drive(scl, sda, 1) /\ NextOps(r, m, Drop(s, 28), ok, byte, data)
    BY <2>1, <1>7, <1>d, DoDir
  <2>4. Wires(0, sda, 1) /\ device' = device /\ Untouched
    BY <2>2, <2>3, Quiet
  <2> QED BY <2>1, <2>2, <2>3, <2>4, <1>8, <1>10, Zenon
<1>13. CASE k = 28
  <2>1. /\ 29 = k + 1 /\ 29 \in 27 .. 32 /\ 29 <= 30 /\ ~(29 > 30) /\ 29 # 30
    BY <1>13
  <2>2. /\ scl = 0 /\ device.phase = "master" /\ device.want = "send" /\ ~device.pull
        /\ device.pointer = p /\ dir = 1
    BY <1>5, <1>13
  <2>3. Drive(scl, y, dir) /\ NextOps(r, m, Drop(s, 29), ok, byte, data)
    BY <2>1, <1>7, <1>d, DoSda
  <2>4. Wires(0, y, 1) /\ device' = device /\ Untouched
    BY <2>2, <2>3, Quiet
  <2> QED BY <2>1, <2>2, <2>3, <2>4, <1>8, <1>10, Zenon
<1>14. CASE k = 29
  <2>1. 30 = k + 1 /\ 30 \in 27 .. 32 /\ 30 <= 30 /\ ~(30 > 30)
    BY <1>14
  <2>2. /\ scl = 0 /\ device.phase = "master" /\ device.want = "send" /\ ~device.pull
        /\ device.pointer = p /\ dir = 1 /\ sda = y
    BY <1>5, <1>14
  <2>3. Drive(1, sda, dir) /\ NextOps(r, m, Drop(s, 30), ok, byte, data)
    BY <2>1, <1>7, <1>d, DoScl
  <2>4. Wires(1, y, 1) /\ ClockRises(Wire(y, 1, device))
    BY <2>2, <2>3, Raised
  <2>5. Wire(y, 1, device) = y
    <3>1. device.pull \in BOOLEAN
      BY WiredDevice
    <3> QED BY <3>1, <2>2, <1>8, WireIs
  <2>6. device' = Device("master", "send", y, device.count, device.pull, p) /\ Untouched
    BY <2>2, <2>4, <2>5, RisesMaster
  <2>7. device' \in DeviceTypes
    <3>1. /\ "master" \in Phases /\ "send" \in Wants /\ y \in Byte /\ device.count \in 0 .. 8
          /\ device.pull \in BOOLEAN
      BY <1>8, WiredDevice DEF Phases, Wants, Bit, Byte
    <3> QED BY <3>1, <2>6, <1>6, DeviceTyped
  <2>8. /\ device'.phase = "master" /\ device'.want = "send" /\ ~device'.pull /\ device'.pointer = p
        /\ device'.bits = y
    BY <2>2, <2>6 DEF Device
  <2> QED BY <2>1, <2>3, <2>4, <2>6, <2>7, <2>8, <1>8, <1>10, Zenon
<1>15. CASE k = 30
  <2>1. 31 = k + 1 /\ 31 \in 27 .. 32 /\ 31 > 30 /\ ~(31 <= 30) /\ 31 \notin {29, 30} /\ 31 # 30
    BY <1>15
  <2>2. /\ scl = 1 /\ device.phase = "master" /\ device.want = "send" /\ ~device.pull
        /\ device.pointer = p /\ dir = 1 /\ sda = y /\ device.bits = y
    BY <1>5, <1>15
  <2>3. Drive(0, sda, dir) /\ NextOps(r, m, Drop(s, 31), ok, byte, data)
    BY <2>1, <1>7, <1>d, DoScl
  <2>4. Wires(0, y, 1) /\ ClockFalls
    BY <2>2, <2>3, Lowered
  <2>5. /\ r.kind = "read" /\ m >= 4 + Addresses /\ Got(r, m) \in 1 .. r.n /\ r.n \in Nat
        /\ (Acked(r, m) <=> Got(r, m) # r.n) /\ p + 1 = r.reg + Got(r, m)
    <3>1. /\ r.kind = "read" /\ m >= 5 + Addresses /\ Got(r, m) \in 1 .. r.n /\ r.n \in Nat
          /\ (Acked(r, m) <=> Got(r, m) # r.n) /\ p = r.reg + Got(r, m - 1)
          /\ Got(r, m) = Got(r, m - 1) + 1 /\ Got(r, m - 1) \in Nat /\ r.reg \in Nat
      BY <1>2, <1>4, ReceiveIs
    <3>2. m >= 4 + Addresses
      BY <3>1, LengthIs
    <3>3. p + 1 = r.reg + Got(r, m)
      BY <3>1
    <3> QED BY <3>1, <3>2, <3>3
  <2>6. Untouched /\ wide' = wide
    BY <2>2, <2>4, FallsMaster DEF Wires
  <2>7. /\ Addresses' = Addresses /\ Got(r, m)' = Got(r, m) /\ regs' = regs
    BY <2>6, Static DEF Untouched
  <2>8. CASE Acked(r, m)
    <3>1. y = 0 /\ Got(r, m) < r.n
      BY <2>5, <2>8, <1>a
    <3>2. p + 1 \in Registers /\ p + 1 \in Nat
      <4>1. \A i \in 1 .. r.n : r.reg + i - 1 \in Registers
        BY <2>5, RequestIs
      <4>2. Got(r, m) + 1 \in 1 .. r.n
        BY <3>1, <2>5
      <4>3. r.reg + (Got(r, m) + 1) - 1 \in Registers
        BY <4>1, <4>2
      <4>4. r.reg \in Nat
        BY <1>4, ReceiveIs
      <4>5. \A x, g \in Nat : x + (g + 1) - 1 = x + g
        OBVIOUS
      <4>6. r.reg + (Got(r, m) + 1) - 1 = p + 1
        BY <4>4, <4>5, <2>5
      <4> QED BY <4>3, <4>6, <1>6
    <3>3. device' = SendBit(Device("master", "send", 0, device.count, device.pull, p + 1), 1)
      <4>1. device.bits = 0
        BY <3>1, <2>2
      <4> QED BY <4>1, <2>2, <2>4, FallsMaster
    <3>4. device' = Device("send", "send", 0, 1, BitOf(regs[p + 1], 1) = 0, p + 1)
      BY <3>2, <3>3, SendBitIs
    <3>5. device' \in DeviceTypes
      <4>1. /\ "send" \in Phases /\ "send" \in Wants /\ 1 \in 0 .. 8 /\ 0 \in Byte
            /\ (BitOf(regs[p + 1], 1) = 0) \in BOOLEAN
        BY DEF Phases, Wants, Byte
      <4> QED BY <4>1, <3>2, <3>4, DeviceTyped
    <3>6. /\ device'.phase = "send" /\ device'.want = "send" /\ device'.count = 1
          /\ device'.pull = (BitOf(regs[p + 1], 1) = 0) /\ device'.pointer = p + 1
      BY <3>4 DEF Device
    <3>7. Sends(1)'
      BY <3>6, <2>7 DEF Sends
    <3>8. Ready(r, m)'
      BY <3>1, <3>6, <3>7, <2>5, <2>7 DEF Ready
    <3> QED BY <2>1, <2>2, <2>3, <2>4, <2>6, <3>5, <3>8, <1>8, <1>10, Zenon
  <2>9. CASE ~Acked(r, m)
    <3>1. y = 1 /\ ~(Got(r, m) < r.n)
      BY <2>5, <2>9, <1>a
    <3>2. device' = Device("ignore", "send", 1, device.count, device.pull, p)
      <4>1. device.bits = 1
        BY <3>1, <2>2
      <4> QED BY <4>1, <2>2, <2>4, FallsMaster
    <3>3. device' \in DeviceTypes
      <4>1. /\ "ignore" \in Phases /\ "send" \in Wants /\ device.count \in 0 .. 8 /\ 1 \in Byte
            /\ device.pull \in BOOLEAN
        BY WiredDevice DEF Phases, Wants, Byte
      <4> QED BY <4>1, <3>2, <1>6, DeviceTyped
    <3>4. device'.phase = "ignore" /\ ~device'.pull
      BY <3>2, <2>2 DEF Device
    <3>5. Ready(r, m)'
      BY <3>1, <3>4, <2>5, <2>7 DEF Ready
    <3> QED BY <2>1, <2>2, <2>3, <2>4, <2>6, <3>3, <3>5, <1>8, <1>10, Zenon
  <2> QED BY <2>8, <2>9
<1>16. CASE k = 31
  <2>1. /\ 32 = k + 1 /\ 32 \in 27 .. 32 /\ ~(32 <= 30) /\ 32 \notin {29, 30} /\ 32 # 30
    BY <1>16
  <2>2. scl = 0 /\ dir = 1 /\ Ready(r, m)
    BY <1>5, <1>16
  <2>3. Drive(scl, 0, dir) /\ NextOps(r, m, Drop(s, 32), ok, byte, data)
    BY <2>1, <1>7, <1>d, DoSda
  <2>4. Wires(0, 0, 1) /\ device' = device /\ Untouched
    BY <2>2, <2>3, Quiet
  <2>5. Ready(r, m)'
    <3>1. wide' = wide
      BY <2>4 DEF Wires
    <3> QED BY <3>1, <2>2, <2>4, ReadyStill
  <2> QED BY <2>1, <2>3, <2>4, <2>5, <1>8, <1>10, Zenon
<1>17. CASE k = 32
  <2>1. 33 = k + 1
    BY <1>17
  <2>2. scl = 0 /\ Ready(r, m)
    BY <1>5, <1>17
  <2>3. StillPorts /\ NextOps(r, m, Drop(s, 33), ok, byte, Append(data, byte))
    BY <2>1, <1>7, <1>d, DoStore
  <2>4. Wires(scl, sda, dir) /\ device' = device /\ Untouched /\ wide' = wide /\ scl' = 0
    BY <2>2, <2>3 DEF StillPorts, Wires
  <2>5. Drop(s, 33) = << >>
    <3>1. Drop(s, Len(s)) = << >>
      BY <1>7, DropEnds
    <3> QED BY <3>1, <1>7
  <2>6. PICK data2 : data2 = Append(data, byte)
    OBVIOUS
  <2>7. Doing(r, m, << >>, ok, byte, data2)'
    BY <2>3, <2>4, <2>5, <2>6, <1>4, DoingNext
  <2>8. Result(r, m, ok, data2)
    <3> DEFINE g == Got(r, m - 1)
    <3>1. /\ r.kind = "read" /\ Got(r, m) \in 1 .. r.n /\ r.n \in Nat /\ r.reg \in Nat
          /\ Got(r, m) = g + 1 /\ g \in Nat /\ p = r.reg + g
      BY <1>2, <1>4, ReceiveIs
    <3>2. /\ data = IF g > 0 THEN [i \in 1 .. g |-> regs[r.reg + i - 1]] ELSE << >>
          /\ taken = FALSE
      BY <3>1, <1>4 DEF Result
    <3> HIDE DEF g
    <3>3. \A i \in 1 .. g + 1 : r.reg + i - 1 \in Registers
      <4>1. \A i \in 1 .. r.n : r.reg + i - 1 \in Registers
        BY <3>1, RequestIs
      <4>2. \A i \in 1 .. g + 1 : i \in 1 .. r.n
        BY <3>1
      <4> QED BY <4>1, <4>2
    <3>4. data2 = [i \in 1 .. g + 1 |-> regs[r.reg + i - 1]]
      <4>1. regs \in [Registers -> Byte]
        BY DEF WireTypes
      <4>2. byte = regs[r.reg + g]
        BY <3>1, <1>3, <1>4
      <4> QED BY <4>1, <4>2, <3>1, <3>2, <3>3, <2>6, Appended
    <3>5. Got(r, m) > 0
      BY <3>1
    <3>6. data2 = [i \in 1 .. Got(r, m) |-> regs[r.reg + i - 1]]
      BY <3>1, <3>4
    <3> QED BY <3>1, <3>2, <3>5, <3>6, <1>4 DEF Result
  <2>9. Result(r, m, ok, data2)' /\ Ready(r, m)'
    BY <2>2, <2>4, <2>8, ResultStill, ReadyStill
  <2>10. m # 0 /\ m # Length(r)'
    <3>1. m # Length(r) /\ Length(r)' = Length(r)
      BY <2>4, <1>4, ReceiveIs, Static
    <3> QED BY <3>1, <1>8
  <2>11. Between(r, m, ok, byte, data2)'
    BY <2>4, <2>7, <2>9, <2>10, <1>4 DEF Between
  <2>12. At(r, m, ok, byte, data2)'
    BY <2>11 DEF At
  <2> QED BY <2>3, <2>4, <2>12, <1>8, Progresses DEF NextOps
<1> QED BY <1>11, <1>12, <1>13, <1>14, <1>15, <1>16, <1>17

(* The end of i2c_write: the device acknowledges the byte or not, and what *)
(* an acknowledged byte means to it.                                       *)
LEMMA SendCases ==
  ASSUME NEW r, RequestOK(r), LENGTH > 0, NEW m \in 1 .. Length(r), IsSend(r, m)
  PROVE  \/ m = 2
         \/ m = 3 /\ wide
         \/ m = 2 + Addresses
         \/ m = 3 + Addresses /\ r.kind = "write"
         \/ m = 4 + Addresses /\ r.kind = "read"
BY LengthIs DEF IsSend

LEMMA WantCases ==
  ASSUME wide \in BOOLEAN, NEW r, NEW m \in Int
  PROVE  /\ m = 1 => WantAt(r, m) = "device"
         /\ m = 2 => WantAt(r, m) = (IF wide THEN "high" ELSE "low")
         /\ m = 3 /\ wide => WantAt(r, m) = "low"
         /\ m = 2 + Addresses => WantAt(r, m) = "value"
         /\ m = 3 + Addresses => WantAt(r, m) = (IF r.kind = "write" THEN "value" ELSE "device")
         /\ m > 3 + Addresses => WantAt(r, m) = "send"
<1>1. /\ Addresses \in {1, 2} /\ (wide => Addresses = 2) /\ (~wide => Addresses = 1)
  BY DEF Addresses
<1>2. m = 1 => WantAt(r, m) = "device"
  BY <1>1 DEF WantAt
<1>3. m = 2 => WantAt(r, m) = (IF wide THEN "high" ELSE "low")
  BY <1>1 DEF WantAt
<1>4. m = 3 /\ wide => WantAt(r, m) = "low"
  BY <1>1 DEF WantAt
<1>5. m = 2 + Addresses => WantAt(r, m) = "value"
  BY <1>1 DEF WantAt
<1>6. m = 3 + Addresses => WantAt(r, m) = (IF r.kind = "write" THEN "value" ELSE "device")
  BY <1>1 DEF WantAt
<1>7. m > 3 + Addresses => WantAt(r, m) = "send"
  BY <1>1 DEF WantAt
<1> QED BY <1>2, <1>3, <1>4, <1>5, <1>6, <1>7

LEMMA SentCases ==
  ASSUME wide \in BOOLEAN, NEW r, NEW m \in Int
  PROVE  /\ m = 2 => SentAt(r, m) = DEVICE
         /\ m = 3 /\ wide => SentAt(r, m) = High(r.reg)
         /\ m = 2 + Addresses => SentAt(r, m) = Low(r.reg)
         /\ m = 3 + Addresses => SentAt(r, m) = r.value
         /\ m = 4 + Addresses => SentAt(r, m) = DEVICE + 1
<1>1. /\ Addresses \in {1, 2} /\ (wide => Addresses = 2) /\ (~wide => Addresses = 1)
  BY DEF Addresses
<1>2. m = 2 => SentAt(r, m) = DEVICE
  BY <1>1 DEF SentAt
<1>3. m = 3 /\ wide => SentAt(r, m) = High(r.reg)
  BY <1>1 DEF SentAt
<1>4. m = 2 + Addresses => SentAt(r, m) = Low(r.reg)
  BY <1>1 DEF SentAt
<1>5. m = 3 + Addresses => SentAt(r, m) = r.value
  BY <1>1 DEF SentAt
<1>6. m = 4 + Addresses => SentAt(r, m) = DEVICE + 1
  BY <1>1 DEF SentAt
<1> QED BY <1>2, <1>3, <1>4, <1>5, <1>6

Hears(r, m, q) ==
  /\ q \in Nat /\ PointerOK(r, m, q)
  /\ Heard = Device("receive", WantAt(r, m), SentAt(r, m), 8, FALSE, q)

LEMMA HeardIs ==
  ASSUME NEW r, RequestOK(r), LENGTH > 0, NEW m \in 1 .. Length(r), IsSend(r, m), NEW p \in Nat,
         device = Device("receive", WantAt(r, m - 1), SentAt(r, m), 8, FALSE, p),
         PointerOK(r, m - 1, p)
  PROVE  /\ \E q : Hears(r, m, q)
         /\ device.want = "value" <=> (r.kind = "write" /\ m = 3 + Addresses)
         /\ r.kind = "write" /\ m = 3 + Addresses => p = r.reg /\ SentAt(r, m) = r.value
<1>1. /\ Addresses \in {1, 2} /\ r.kind \in {"write", "read"} /\ (wide <=> Addresses = 2)
      /\ wide \in BOOLEAN
  BY LengthIs DEF RequestOK
<1>2. PICK b, w : b = SentAt(r, m) /\ w = WantAt(r, m - 1)
  OBVIOUS
<1>3. /\ device.want = w /\ device.bits = b /\ device.pointer = p
      /\ \A x : [device EXCEPT !.want = x] = Device("receive", x, b, 8, FALSE, p)
      /\ \A x : [device EXCEPT !.pointer = x] = Device("receive", w, b, 8, FALSE, x)
      /\ \A x, y : [device EXCEPT !.want = x, !.pointer = y] = Device("receive", x, b, 8, FALSE, y)
  <2>1. IsDevice(device, "receive", w, b, 8, FALSE, p)
    BY <1>2, DeviceKnown, Zenon
  <2> QED BY <2>1, Zenon DEF IsDevice
<1>4. b \in Byte /\ b \in Nat /\ DEVICE + 1 # DEVICE
  <2>1. b \in Byte
    BY <1>2, SentIs
  <2>2. DEVICE \in Nat
    BY I2cAssumption DEF Byte
  <2> QED BY <2>1, <2>2 DEF Byte
<1>5. /\ r.reg \in Nat /\ 256 * High(r.reg) + Low(r.reg) = r.reg /\ (~wide => Low(r.reg) = r.reg)
  BY RequestIs
<1>6. CASE m = 2
  <2>1. m - 1 = 1 /\ m # 1 /\ m # 3 /\ m # 2 + Addresses /\ m # 3 + Addresses /\ ~(m >= 3 + Addresses)
    BY <1>1, <1>6
  <2>2. w = "device" /\ WantAt(r, m) = (IF wide THEN "high" ELSE "low") /\ b = DEVICE
    BY <2>1, <1>1, <1>2, <1>6, WantCases, SentCases
  <2>3. Heard = [device EXCEPT !.want = WantAt(r, m)]
    BY <2>2, <1>3, <1>4 DEF Heard
  <2>4. Heard = Device("receive", WantAt(r, m), b, 8, FALSE, p)
    BY <2>3, <1>3
  <2>5. PointerOK(r, m, p)
    BY <2>1 DEF PointerOK
  <2> QED BY <2>1, <2>2, <2>4, <2>5, <1>2, <1>3 DEF Hears
<1>7. CASE m = 3 /\ wide
  <2>1. Addresses = 2 /\ m - 1 = 2 /\ m # 1 /\ m # 2 /\ m # 2 + Addresses /\ m # 3 + Addresses
        /\ ~(m >= 3 + Addresses)
    BY <1>1, <1>7
  <2>2. w = "high" /\ WantAt(r, m) = "low" /\ b = High(r.reg)
    BY <2>1, <1>1, <1>2, <1>7, WantCases, SentCases
  <2>3. Heard = [device EXCEPT !.want = "low", !.pointer = 256 * b]
    BY <2>2, <1>3 DEF Heard
  <2>4. Heard = Device("receive", WantAt(r, m), b, 8, FALSE, 256 * b)
    <3>0. PICK q : q = 256 * b
      OBVIOUS
    <3>1. [device EXCEPT !.want = "low", !.pointer = q] = Device("receive", "low", b, 8, FALSE, q)
      <4>1. \A x, y : [device EXCEPT !.want = x, !.pointer = y] = Device("receive", x, b, 8, FALSE, y)
        BY <1>3
      <4> QED BY <4>1, Zenon
    <3> QED BY <3>0, <3>1, <2>2, <2>3
  <2>5. PointerOK(r, m, 256 * b) /\ 256 * b \in Nat
    BY <2>1, <2>2, <1>4 DEF PointerOK
  <2> QED BY <2>1, <2>2, <2>4, <2>5, <1>2, <1>3 DEF Hears
<1>8. CASE m = 2 + Addresses
  <2>1. /\ m # 1 /\ m # 2 /\ m # 3 + Addresses /\ ~(m = 3 /\ wide) /\ ~(m >= 3 + Addresses)
        /\ wide => m - 1 = 3
        /\ ~wide => m - 1 = 2
    BY <1>1, <1>8
  <2>2. WantAt(r, m) = "value" /\ b = Low(r.reg)
    BY <2>1, <1>1, <1>2, <1>8, WantCases, SentCases
  <2>3. w = "low"
    <3>1. CASE wide
      BY <3>1, <2>1, <1>1, <1>2, WantCases
    <3>2. CASE ~wide
      BY <3>2, <2>1, <1>1, <1>2, WantCases
    <3> QED BY <3>1, <3>2
  <2> DEFINE q == IF wide THEN p + b ELSE b
  <2>4. q = r.reg
    <3>1. CASE wide
      <4>1. p = 256 * High(r.reg)
        BY <3>1, <2>1 DEF PointerOK
      <4> QED BY <4>1, <3>1, <2>2, <1>5
    <3>2. CASE ~wide
      BY <3>2, <2>2, <1>5
    <3> QED BY <3>1, <3>2
  <2>5. Heard = [device EXCEPT !.want = "value", !.pointer = q]
    BY <2>3, <1>3 DEF Heard
  <2> HIDE DEF q
  <2>6. Heard = Device("receive", WantAt(r, m), b, 8, FALSE, q)
    <3>1. [device EXCEPT !.want = "value", !.pointer = q] = Device("receive", "value", b, 8, FALSE, q)
      <4>1. \A x, y : [device EXCEPT !.want = x, !.pointer = y] = Device("receive", x, b, 8, FALSE, y)
        BY <1>3
      <4> QED BY <4>1, Zenon
    <3> QED BY <3>1, <2>2, <2>5
  <2>7. PointerOK(r, m, q) /\ q \in Nat
    BY <2>1, <2>4, <1>5 DEF PointerOK
  <2> QED BY <2>1, <2>3, <2>6, <2>7, <1>2, <1>3 DEF Hears
<1>9. CASE m = 3 + Addresses /\ r.kind = "write"
  <2>1. /\ m # 1 /\ m # 2 /\ ~(m = 3 /\ wide) /\ m # 2 + Addresses /\ m - 1 = 2 + Addresses
        /\ m - 1 # 1 /\ m - 1 # 2 /\ ~(m - 1 = 3 /\ wide) /\ m - 1 # 3 + Addresses
    BY <1>1, <1>9
  <2>2. w = "value" /\ WantAt(r, m) = "value" /\ b = r.value /\ p = r.reg
    BY <2>1, <1>1, <1>2, <1>9, WantCases, SentCases DEF PointerOK
  <2>3. Heard = [device EXCEPT !.pointer = p + 1]
    BY <2>2, <1>3 DEF Heard
  <2>4. Heard = Device("receive", WantAt(r, m), b, 8, FALSE, p + 1)
    <3>1. [device EXCEPT !.pointer = p + 1] = Device("receive", w, b, 8, FALSE, p + 1)
      BY <1>3, Zenon
    <3> QED BY <3>1, <2>2, <2>3
  <2>5. PointerOK(r, m, p + 1) /\ p + 1 \in Nat
    BY <2>1, <2>2, <1>9 DEF PointerOK
  <2> QED BY <2>2, <2>4, <2>5, <1>2, <1>3, <1>9 DEF Hears
<1>10. CASE m = 4 + Addresses /\ r.kind = "read"
  <2>1. /\ m # 1 /\ m # 2 /\ ~(m = 3 /\ wide) /\ m # 2 + Addresses /\ m # 3 + Addresses
        /\ m > 3 + Addresses /\ m - 1 = 3 + Addresses /\ m >= 3 + Addresses /\ m - 1 >= 3 + Addresses
        /\ m - 1 # 1 /\ m - 1 # 2 /\ ~(m - 1 = 3 /\ wide) /\ m - 1 # 2 + Addresses
        /\ m <= 4 + Addresses /\ m - 1 <= 4 + Addresses
    BY <1>1, <1>10
  <2>2. w = "device" /\ WantAt(r, m) = "send" /\ b = DEVICE + 1
    BY <2>1, <1>1, <1>2, <1>10, WantCases, SentCases
  <2>3. Got(r, m - 1) = 0 /\ Got(r, m) = 0
    BY <2>1 DEF Got
  <2>4. Heard = [device EXCEPT !.want = "send"]
    BY <2>2, <1>3 DEF Heard
  <2>5. Heard = Device("receive", WantAt(r, m), b, 8, FALSE, p)
    BY <2>2, <2>4, <1>3
  <2>6. p = r.reg + 0
    BY <2>1, <2>3, <1>10 DEF PointerOK
  <2>7. PointerOK(r, m, p)
    BY <2>1, <2>3, <2>6, <1>10 DEF PointerOK
  <2> QED BY <2>1, <2>2, <2>5, <2>7, <1>2, <1>3 DEF Hears
<1> QED BY <1>6, <1>7, <1>8, <1>9, <1>10, SendCases

LEMMA AppliedProgresses ==
  ASSUME WireTypes, NEW r, RequestOK(r), LENGTH > 0, NEW c \in Bit, NEW s \in Bit, NEW d \in Bit,
         Wires(c, s, d), Applied(r), device' \in DeviceTypes, Kept,
         NEW m \in 0 .. Length(r), NEW ok, NEW byte, NEW data, At(r, m, ok, byte, data)'
  PROVE  Progress(r)
<1>1. r.reg \in Registers /\ r.value \in Byte
  BY RequestIs DEF Applied
<1>2. regs' \in [Registers -> Byte] /\ taken' \in BOOLEAN
  BY <1>1 DEF WireTypes, Applied
<1>3. WireTypes'
  BY <1>2 DEF WireTypes, Wires, DeviceTypes
<1>4. wide' = wide
  BY DEF Wires
<1>5. m \in 0 .. Length(r)' /\ RequestOK(r)'
  BY <1>4, Static
<1>6. Busy(r)'
  BY <1>5 DEF Busy
<1> QED BY <1>3, <1>6 DEF Progress

(* The fall of the clock after the eighth bit: the only access that may    *)
(* write a register, and only the one of the request.                      *)
LEMMA WriteHeardStep ==
  ASSUME WireTypes, NEW r, RequestOK(r), LENGTH > 0, Access,
         NEW m \in 1 .. Length(r), NEW ok, NEW byte, NEW data, WriteEnd(r, m, 32, ok, byte, data)
  PROVE  Progress(r)
<1>a. PICK w : w = WantAt(r, m - 1)
  OBVIOUS
<1>b. PICK p : p = device.pointer
  OBVIOUS
<1>1. PICK b \in Byte : b = SentAt(r, m)
  BY SentIs DEF WriteEnd
<1>2. PICK s : s = i2c_write(b)
  OBVIOUS
<1>3. s \in Seq(Accesses) /\ Len(s) = 37 /\ s[33] = Scl(0)
  <2>1. \A i \in 1 .. 8 : s[4 * i + 1] = Scl(0)
    <3>1. IsWrite(b, s)
      BY <1>2, WriteIs
    <3> QED BY <3>1 DEF IsWrite
  <2>2. 8 \in 1 .. 8 /\ 4 * 8 + 1 = 33
    OBVIOUS
  <2>3. s[4 * 8 + 1] = Scl(0)
    BY <2>1, <2>2
  <2> QED
    <3>1. IsWrite(b, s)
      BY <1>2, WriteIs
    <3> QED BY <3>1, <2>2, <2>3 DEF IsWrite
<1>4. /\ IsSend(r, m) /\ Doing(r, m, Drop(s, 32), ok, byte, data)
      /\ byte \in Byte /\ data = << >>
  BY <1>1, <1>2 DEF WriteEnd, Doing
<1>5. ok = TRUE /\ scl = 1
  <2>1. 32 # 36 /\ 32 \in {32, 35, 36}
    OBVIOUS
  <2> QED BY <2>1 DEF WriteEnd
<1>6. /\ taken = FALSE /\ PointerOK(r, m - 1, p)
      /\ device = Device("receive", WantAt(r, m - 1), SentAt(r, m), 8, FALSE, p)
  <2>1. Shifted(r, m, 8) /\ taken = FALSE
    BY DEF WriteEnd, WireTypes
  <2>2. Prefix(SentAt(r, m), 8) = SentAt(r, m)
    BY <1>1, PrefixEnds
  <2> QED BY <2>1, <2>2, <1>b DEF Shifted
<1>7. /\ scl \in Bit /\ sda \in Bit /\ dir \in Bit /\ 0 \in Bit /\ 1 \in Bit
      /\ device \in DeviceTypes /\ m \in 0 .. Length(r) /\ m > 0 /\ p \in Nat
      /\ WantAt(r, m) \in Wants
  <2>1. p \in Nat
    BY <1>b, WiredDevice
  <2> QED BY <2>1, WantIs DEF WireTypes, DeviceTypes, Bit
<1>8. Drive(0, sda, dir) /\ NextOps(r, m, Drop(s, 33), ok, byte, data)
  <2>1. 33 = 32 + 1 /\ 32 \in Nat /\ 32 < Len(s)
    BY <1>3
  <2>2. Making(s, 32, r, m, ok, byte, data)
    BY <2>1, <1>3, <1>4 DEF Making
  <2> QED BY <2>1, <2>2, <1>3, DoScl
<1>9. Wires(0, sda, dir) /\ ClockFalls
  BY <1>5, <1>8, Lowered
<1>10. wide' = wide /\ scl' = 0
  BY <1>9 DEF Wires
<1>11. device.phase = "receive" /\ device.count = 8 /\ device.bits = b
  BY <1>1, <1>6 DEF Device
<1>12. EndOfByte
  BY <1>9, <1>11 DEF ClockFalls
<1>13. /\ \E q : Hears(r, m, q)
       /\ device.want = "value" <=> (r.kind = "write" /\ m = 3 + Addresses)
       /\ r.kind = "write" /\ m = 3 + Addresses => p = r.reg /\ SentAt(r, m) = r.value
  BY <1>4, <1>6, <1>7, HeardIs
<1>14. ASSUME Answered(r, m)'
       PROVE  At(r, m, ok, byte, data)'
  <2>1. Doing(r, m, Drop(s, 33), ok, byte, data)'
    BY <1>4, <1>5, <1>8, <1>10, DoingNext
  <2>2. s = i2c_write(SentAt(r, m)') /\ IsSend(r, m)'
    BY <1>1, <1>2, <1>4, <1>10, Static
  <2>3. 33 # 32 /\ 33 > 32 /\ ~(33 >= 34) /\ 33 \notin {32, 35, 36} /\ 33 # 36 /\ 33 \in 32 .. 36
    OBVIOUS
  <2>4. WriteEnd(r, m, 33, ok, byte, data)'
    BY <2>1, <2>2, <2>3, <1>4, <1>5, <1>10, <1>14 DEF WriteEnd
  <2> QED BY <2>3, <2>4, <1>7 DEF At
<1>15. CASE device' = [device EXCEPT !.phase = "ignore"] /\ UNCHANGED <<regs, taken>>
  <2>1. device' = Device("ignore", WantAt(r, m - 1), b, 8, FALSE, p)
    <3>1. IsDevice(device, "receive", WantAt(r, m - 1), SentAt(r, m), 8, FALSE, p)
      BY <1>6, DeviceKnown, Zenon
    <3>2. [device EXCEPT !.phase = "ignore"] = Device("ignore", WantAt(r, m - 1), SentAt(r, m), 8, FALSE, p)
      BY <3>1, Zenon DEF IsDevice
    <3> QED BY <3>2, <1>1, <1>15
  <2>2. device'.phase = "ignore" /\ ~device'.pull
    BY <2>1 DEF Device
  <2>3. Untouched /\ taken' = FALSE
    BY <1>6, <1>15 DEF Untouched
  <2>4. Answered(r, m)'
    BY <2>2, <2>3 DEF Answered
  <2>5. device' \in DeviceTypes
    <3>1. m - 1 \in 1 .. Length(r)
      BY <1>4, SentIs, LengthIs
    <3>2. WantAt(r, m - 1) \in Wants
      BY <3>1, WantIs
    <3>3. "ignore" \in Phases /\ 8 \in 0 .. 8 /\ FALSE \in BOOLEAN
      BY DEF Phases
    <3> QED BY <3>2, <3>3, <2>1, <1>7, DeviceTyped
  <2> QED BY <2>3, <2>4, <2>5, <1>7, <1>8, <1>9, <1>14, Progresses DEF NextOps
<1>16. CASE /\ MayAcknowledge
            /\ device' = [Heard EXCEPT !.phase = "ack", !.pull = TRUE]
            /\ regs' = IF device.want = "value" /\ device.pointer \in Registers
                       THEN [regs EXCEPT ![device.pointer] = device.bits] ELSE regs
            /\ taken' = (taken \/ device.want = "value")
  <2>1. PICK q : Hears(r, m, q)
    BY <1>13
  <2>2. device' = Device("ack", WantAt(r, m), b, 8, TRUE, q)
    <3>1. Heard = Device("receive", WantAt(r, m), SentAt(r, m), 8, FALSE, q)
      BY <2>1 DEF Hears
    <3>2. IsDevice(Heard, "receive", WantAt(r, m), SentAt(r, m), 8, FALSE, q)
      BY <3>1, DeviceKnown, Zenon
    <3>3. [Heard EXCEPT !.phase = "ack", !.pull = TRUE]
            = Device("ack", WantAt(r, m), SentAt(r, m), 8, TRUE, q)
      BY <3>2, Zenon DEF IsDevice
    <3> QED BY <3>3, <1>1, <1>16
  <2>3. q \in Nat /\ PointerOK(r, m, q)
    BY <2>1 DEF Hears
  <2>4. device' \in DeviceTypes
    <3>1. "ack" \in Phases /\ 8 \in 0 .. 8 /\ TRUE \in BOOLEAN
      BY DEF Phases
    <3> QED BY <3>1, <2>2, <2>3, <1>7, DeviceTyped
  <2>5. device'.phase = "ack" /\ device'.pull /\ device'.want = WantAt(r, m) /\ device'.pointer = q
    BY <2>2 DEF Device
  <2>6. taken' <=> (r.kind = "write" /\ m = 3 + Addresses)
    BY <1>6, <1>13, <1>16
  <2>7. Answered(r, m)'
    <3>1. /\ WantAt(r, m)' = WantAt(r, m) /\ Addresses' = Addresses
          /\ PointerOK(r, m, q)' <=> PointerOK(r, m, q)
      BY <1>10, Static
    <3>2. taken' \in BOOLEAN
      BY <1>16
    <3>3. taken' = (r.kind = "write" /\ m = 3 + Addresses)
      BY <2>6, <3>2
    <3> QED BY <2>3, <2>5, <3>1, <3>3 DEF Answered
  <2>8. CASE ~(r.kind = "write" /\ m = 3 + Addresses)
    <3>1. device.want # "value"
      BY <2>8, <1>13
    <3>2. Untouched
      BY <3>1, <1>6, <1>16 DEF Untouched
    <3> QED BY <3>2, <2>4, <2>7, <1>7, <1>8, <1>9, <1>14, Progresses DEF NextOps
  <2>9. CASE r.kind = "write" /\ m = 3 + Addresses
    <3>1. device.want = "value" /\ device.pointer = r.reg /\ device.bits = r.value
      BY <2>9, <1>b, <1>1, <1>11, <1>13
    <3>2. r.reg \in Registers
      BY RequestIs
    <3>3. Applied(r)
      BY <3>1, <3>2, <2>9, <1>6, <1>16 DEF Applied
    <3> QED BY <3>3, <2>4, <2>7, <1>7, <1>8, <1>9, <1>14, AppliedProgresses DEF NextOps
  <2> QED BY <2>8, <2>9
<1> QED BY <1>12, <1>15, <1>16 DEF EndOfByte

(* From the acknowledge of the device to the end of the call, which notes  *)
(* it.                                                                     *)
LEMMA AnsweredStill ==
  ASSUME wide' = wide, Untouched, device' = device, NEW r, NEW m, Answered(r, m)
  PROVE  Answered(r, m)'
<1>1. /\ WantAt(r, m)' = WantAt(r, m) /\ Addresses' = Addresses
      /\ \A q : PointerOK(r, m, q)' <=> PointerOK(r, m, q)
  BY Static
<1> QED BY <1>1 DEF Answered, Untouched

LEMMA WriteEndStep ==
  ASSUME WireTypes, NEW r, RequestOK(r), LENGTH > 0, Access,
         NEW m \in 1 .. Length(r), NEW k \in 33 .. 36,
         NEW ok, NEW byte, NEW data, WriteEnd(r, m, k, ok, byte, data)
  PROVE  Progress(r)
<1>1. PICK b \in Byte : b = SentAt(r, m)
  BY SentIs DEF WriteEnd
<1>2. PICK s : s = i2c_write(b)
  OBVIOUS
<1>3. /\ s \in Seq(Accesses) /\ Len(s) = 37 /\ s[34] = Dir(0) /\ s[35] = Scl(1)
      /\ s[36] = <<"ack", 0>> /\ s[37] = Scl(0)
  <2>1. s \in Seq(Accesses) /\ Len(s) = 37
    <3>1. IsWrite(b, s)
      BY <1>2, WriteIs
    <3> QED BY <3>1 DEF IsWrite
  <2>2. EndOfWrite(s)
    <3>1. IsWrite(b, s)
      BY <1>2, WriteIs
    <3> QED BY <3>1 DEF IsWrite
  <2> QED BY <2>1, <2>2 DEF EndOfWrite
<1>4. /\ IsSend(r, m) /\ Doing(r, m, Drop(s, k), ok, byte, data)
      /\ ok \in BOOLEAN /\ byte \in Byte /\ data = << >>
  BY <1>1, <1>2 DEF WriteEnd, Doing
<1>5. /\ Answered(r, m)
      /\ k >= 34 => dir = 0
      /\ scl = (IF k \in {32, 35, 36} THEN 1 ELSE 0)
  BY DEF WriteEnd
<1>6. ok = (k = 36 => device.phase = "ack")
  BY DEF WriteEnd
<1>7. /\ scl \in Bit /\ sda \in Bit /\ dir \in Bit /\ 0 \in Bit /\ 1 \in Bit
      /\ device \in DeviceTypes /\ m \in 0 .. Length(r) /\ m > 0
      /\ device.pull \in BOOLEAN /\ device.pointer \in Nat
  <2>1. device.pull \in BOOLEAN /\ device.pointer \in Nat
    BY WiredDevice
  <2> QED BY <2>1 DEF WireTypes, DeviceTypes, Bit
<1>8. k \in Nat /\ k < Len(s)
  BY <1>3
<1>d. Making(s, k, r, m, ok, byte, data)
  BY <1>3, <1>4, <1>8 DEF Making
<1>9. \/ device.phase = "ack" /\ device.pull
      \/ device.phase = "ignore" /\ ~device.pull
  BY <1>5 DEF Answered
<1>10. ASSUME NEW q \in 34 .. 36, NEW c \in Bit, NEW e \in Bit, NEW ok2 \in BOOLEAN,
              Wires(c, e, 0), Untouched, device' = device,
              NextOps(r, m, Drop(s, q), ok2, byte, data),
              c = (IF q \in {32, 35, 36} THEN 1 ELSE 0),
              ok2 = (q = 36 => device.phase = "ack")
       PROVE  Progress(r)
  <2>1. wide' = wide /\ scl' = c /\ dir' = 0
    BY <1>10 DEF Wires
  <2>2. Doing(r, m, Drop(s, q), ok2, byte, data)'
    BY <2>1, <1>4, <1>10, DoingNext
  <2>3. s = i2c_write(SentAt(r, m)') /\ IsSend(r, m)'
    BY <2>1, <1>1, <1>2, <1>4, Static
  <2>4. Answered(r, m)'
    BY <2>1, <1>5, <1>10, AnsweredStill
  <2>5. q # 32 /\ q > 32 /\ q \in 32 .. 36
    OBVIOUS
  <2>6. ok2 = (q = 36 => device'.phase = "ack")
    BY <1>10
  <2>7. scl' = (IF q \in {32, 35, 36} THEN 1 ELSE 0)
    BY <2>1, <1>10
  <2>8. WriteEnd(r, m, q, ok2, byte, data)'
    BY <2>1, <2>2, <2>3, <2>4, <2>5, <2>6, <2>7, <1>4, Zenon DEF WriteEnd
  <2>9. At(r, m, ok2, byte, data)'
    BY <2>5, <2>8, <1>7 DEF At
  <2> QED BY <2>9, <1>7, <1>10, Progresses DEF NextOps
<1>11. CASE k = 33
  <2>1. 34 = k + 1 /\ 34 \in 34 .. 36 /\ 34 \notin {32, 35, 36} /\ 34 # 36 /\ 33 # 36
    BY <1>11
  <2>2. scl = 0
    BY <1>5, <1>11
  <2>3. Drive(scl, sda, 0) /\ NextOps(r, m, Drop(s, 34), ok, byte, data)
    BY <2>1, <1>3, <1>d, DoDir
  <2>4. Wires(0, sda, 0) /\ device' = device /\ Untouched
    BY <2>2, <2>3, Quiet
  <2>5. ok = (34 = 36 => device.phase = "ack")
    BY <2>1, <1>6, <1>11
  <2> QED BY <2>1, <2>3, <2>4, <2>5, <1>4, <1>7, <1>10, Zenon
<1>12. CASE k = 34
  <2>1. 35 = k + 1 /\ 35 \in 34 .. 36 /\ 35 \in {32, 35, 36} /\ 35 # 36 /\ 34 # 36
    BY <1>12
  <2>2. scl = 0 /\ dir = 0
    BY <1>5, <1>12
  <2>3. Drive(1, sda, dir) /\ NextOps(r, m, Drop(s, 35), ok, byte, data)
    BY <2>1, <1>3, <1>d, DoScl
  <2>4. Wires(1, sda, 0) /\ device' = device /\ Untouched
    BY <2>2, <2>3, <1>9, Raised, RisesUnseen
  <2>5. ok = (35 = 36 => device.phase = "ack")
    BY <2>1, <1>6, <1>12
  <2> QED BY <2>1, <2>3, <2>4, <2>5, <1>4, <1>7, <1>10, Zenon
<1>13. CASE k = 35
  <2>1. 36 = k + 1 /\ 36 \in 34 .. 36 /\ 36 \in {32, 35, 36}
    BY <1>13
  <2>2. scl = 1 /\ dir = 0
    <3>1. 35 \in {32, 35, 36} /\ 35 >= 34
      OBVIOUS
    <3> QED BY <3>1, <1>5, <1>13
  <2>3. StillPorts /\ NextOps(r, m, Drop(s, 36), sda_wire = 0, byte, data)
    BY <2>1, <1>3, <1>d, DoAck
  <2>4. Wires(1, sda, 0) /\ device' = device /\ Untouched
    BY <2>2, <2>3 DEF StillPorts
  <2>5. sda_wire = IF device.pull THEN 0 ELSE 1
    <3>1. dir = 0 => Wire(sda, dir, device) = (IF device.pull THEN 0 ELSE 1)
      BY <1>7, WireIs
    <3> QED BY <3>1, <2>2 DEF sda_wire
  <2>6. PICK ok2 \in BOOLEAN : ok2 = (sda_wire = 0)
    OBVIOUS
  <2>7. ok2 = (36 = 36 => device.phase = "ack")
    BY <2>5, <2>6, <1>9
  <2> QED BY <2>1, <2>3, <2>4, <2>6, <2>7, <1>7, <1>10, Zenon
<1>14. CASE k = 36
  <2>1. 37 = k + 1
    BY <1>14
  <2>2. scl = 1 /\ dir = 0
    <3>1. 36 \in {32, 35, 36} /\ 36 >= 34
      OBVIOUS
    <3> QED BY <3>1, <1>5, <1>14
  <2>3. Drive(0, sda, dir) /\ NextOps(r, m, Drop(s, 37), ok, byte, data)
    BY <2>1, <1>3, <1>d, DoScl
  <2>4. Wires(0, sda, dir) /\ ClockFalls
    BY <2>2, <2>3, Lowered
  <2>5. wide' = wide /\ scl' = 0
    BY <2>4 DEF Wires
  <2>6. Drop(s, 37) = << >>
    <3>1. Drop(s, Len(s)) = << >>
      BY <1>3, DropEnds
    <3> QED BY <3>1, <1>3
  <2>7. Doing(r, m, << >>, ok, byte, data)'
    BY <2>3, <2>5, <2>6, <1>4, DoingNext
  <2>8. /\ Addresses \in {1, 2} /\ m >= 2 /\ m # Length(r) /\ m # Length(r)'
        /\ r.kind \in {"write", "read"}
        /\ r.kind = "write" => m <= 3 + Addresses
        /\ r.kind = "read" => m <= 2 + Addresses \/ m = 4 + Addresses
        /\ r.kind = "read" => r.n \in Nat \ {0}
        /\ m <= 4 + Addresses /\ m \in Nat
    <3>1. Length(r)' = Length(r)
      BY <2>5, Static
    <3> QED BY <3>1, <1>4, SentIs, LengthIs
  <2>9. Got(r, m) = 0
    BY <2>8 DEF Got
  <2>10. CASE device.phase = "ignore"
    <3>1. device' = device /\ Untouched
      BY <2>4, <2>10, FallsUnseen
    <3>2. ok = FALSE /\ taken = FALSE
      <4>1. "ignore" # "ack"
        OBVIOUS
      <4>2. ok <=> device.phase = "ack"
        BY <1>4, <1>6, <1>14
      <4>3. ~taken
        BY <4>1, <2>10, <1>5 DEF Answered
      <4> QED BY <4>1, <4>2, <4>3, <2>10, <1>4 DEF WireTypes
    <3>3. Result(r, m, ok, data)
      BY <3>2, <1>4 DEF Result
    <3>4. Result(r, m, ok, data)'
      BY <3>1, <3>3, <2>5, ResultStill
    <3>5. Rested'
      BY <3>1, <2>10, <1>9 DEF Rested
    <3>6. Between(r, m, ok, byte, data)'
      BY <3>2, <3>4, <3>5, <2>5, <2>7, <2>8, <1>7 DEF Between
    <3>7. At(r, m, ok, byte, data)'
      BY <3>6 DEF At
    <3> QED BY <3>1, <3>7, <2>3, <2>4, <1>7, Progresses DEF NextOps
  <2>11. CASE device.phase = "ack"
    <3>1. /\ device.want = WantAt(r, m) /\ PointerOK(r, m, device.pointer)
          /\ taken = (r.kind = "write" /\ m = 3 + Addresses)
      BY <2>11, <1>5 DEF Answered
    <3>2. ok = TRUE
      BY <2>11, <1>4, <1>6, <1>14
    <3>3. Untouched
      BY <2>4, <2>11, FallsAcknowledged
    <3>4. Result(r, m, ok, data)'
      <4>1. taken = (ok /\ r.kind = "write" /\ m >= 3 + Addresses)
        <5>1. CASE r.kind = "write"
          <6>1. m = 3 + Addresses <=> m >= 3 + Addresses
            BY <5>1, <2>8
          <6> QED BY <6>1, <5>1, <3>1, <3>2, Zenon
        <5>2. CASE r.kind # "write"
          BY <5>2, <3>1, <3>2, Zenon
        <5> QED BY <5>1, <5>2
      <4>2. Result(r, m, ok, data)
        BY <4>1, <2>9, <1>4 DEF Result
      <4> QED BY <4>2, <3>3, <2>5, ResultStill
    <3>5. /\ Addresses' = Addresses /\ Got(r, m)' = 0 /\ regs' = regs
          /\ WantAt(r, m)' = WantAt(r, m) /\ \A q : PointerOK(r, m, q)' <=> PointerOK(r, m, q)
      BY <2>5, <2>9, <3>3, Static DEF Untouched
    <3>6. ASSUME device' \in DeviceTypes, Ready(r, m)'
          PROVE  Progress(r)
      <4>1. Between(r, m, ok, byte, data)'
        <5>1. m # 0 /\ m \notin {0, Length(r)'}
          BY <2>8
        <5>2. ok /\ (m = 0 => ok)
          BY <3>2
        <5> QED BY <5>1, <5>2, <3>4, <3>6, <2>5, <2>7, Zenon DEF Between
      <4>2. At(r, m, ok, byte, data)'
        BY <4>1 DEF At
      <4> QED BY <4>2, <3>3, <3>6, <2>3, <2>4, <1>7, Progresses DEF NextOps
    <3>7. CASE r.kind = "read" /\ m = 4 + Addresses
      <4>1. device.want = "send"
        <5>1. m > 3 + Addresses /\ m \in Int /\ wide \in BOOLEAN
          BY <3>7, <2>8 DEF RequestOK
        <5> QED BY <5>1, <3>1, WantCases
      <4>2. device.pointer = r.reg + 0
        <5>1. m >= 3 + Addresses
          BY <3>7, <2>8
        <5> QED BY <5>1, <3>1, <3>7, <2>9 DEF PointerOK
      <4>3. r.reg + 0 \in Registers /\ r.reg + 0 = r.reg
        <5>1. r.reg \in Registers /\ r.reg \in Nat
          BY RequestIs
        <5> QED BY <5>1
      <4>4. device' = SendBit(device, 1)
        BY <4>1, <2>4, <2>11, FallsAcknowledged
      <4>5. device = Device("ack", "send", device.bits, device.count, device.pull, device.pointer)
        BY <4>1, <2>11, <1>7, DeviceIs
      <4>6. device' = Device("send", "send", device.bits, 1, BitOf(regs[device.pointer], 1) = 0,
                             device.pointer)
        BY <4>2, <4>3, <4>4, <4>5, SendBitIs
      <4>7. device' \in DeviceTypes
        <5>1. /\ "send" \in Phases /\ "send" \in Wants /\ 1 \in 0 .. 8 /\ device.bits \in Byte
              /\ (BitOf(regs[device.pointer], 1) = 0) \in BOOLEAN
          BY WiredDevice DEF Phases, Wants
        <5> QED BY <5>1, <4>6, <1>7, DeviceTyped
      <4>8. /\ device'.phase = "send" /\ device'.want = "send" /\ device'.count = 1
            /\ device'.pull = (BitOf(regs[device.pointer], 1) = 0)
            /\ device'.pointer = device.pointer
        BY <4>6 DEF Device
      <4>9. Sends(1)'
        BY <4>8, <3>5 DEF Sends
      <4>10. Ready(r, m)'
        <5>1. m >= 4 + Addresses /\ 0 < r.n
          BY <3>7, <2>8
        <5> QED BY <5>1, <4>2, <4>8, <4>9, <3>5, <3>7 DEF Ready
      <4> QED BY <4>7, <4>10, <3>6
    <3>8. CASE ~(r.kind = "read" /\ m = 4 + Addresses)
      <4>1. device.want # "send" /\ ~(r.kind = "read" /\ m >= 4 + Addresses)
        <5>1. ~(r.kind = "read" /\ m >= 4 + Addresses)
          BY <3>8, <2>8
        <5>2. /\ m = 2 \/ (m = 3 /\ wide) \/ m = 2 + Addresses \/ (m = 3 + Addresses /\ r.kind = "write")
              /\ m \in Int /\ wide \in BOOLEAN
          BY <3>8, <2>8, <1>4, SendCases DEF RequestOK
        <5>3. WantAt(r, m) # "send"
          BY <5>2, WantCases
        <5> QED BY <5>1, <5>3, <3>1
      <4>2. device' = Device("receive", device.want, 0, 0, FALSE, device.pointer)
        BY <4>1, <2>4, <2>11, FallsAcknowledged
      <4>3. device' \in DeviceTypes
        <5>1. /\ "receive" \in Phases /\ device.want \in Wants /\ 0 \in 0 .. 8 /\ 0 \in Byte
              /\ FALSE \in BOOLEAN
          BY WiredDevice DEF Phases, Byte
        <5> QED BY <5>1, <4>2, <1>7, DeviceTyped
      <4>4. device'.pointer = device.pointer
        BY <4>2 DEF Device
      <4>5. Ready(r, m)'
        BY <4>1, <4>2, <4>4, <3>1, <3>5 DEF Ready
      <4> QED BY <4>3, <4>5, <3>6
    <3> QED BY <3>7, <3>8
  <2> QED BY <2>10, <2>11, <1>9
<1> QED BY <1>11, <1>12, <1>13, <1>14

(* From one call to the next, made or skipped.                             *)
LEMMA CallFields ==
  /\ Start.ops = i2c_start /\ Start.always = TRUE /\ Start.f = "start"
  /\ Restart.ops = i2c_start /\ Restart.always = FALSE /\ Restart.f = "start"
  /\ Stop.ops = i2c_stop /\ Stop.always = TRUE
  /\ \A b : Send(b).ops = i2c_write(b) /\ Send(b).always = FALSE
  /\ \A ack : Receive(ack).ops = i2c_read(ack) /\ Receive(ack).always = FALSE
BY DEF Start, Restart, Stop, Send, Receive, Call

LEMMA CallCases ==
  ASSUME NEW r, RequestOK(r), LENGTH > 0, NEW m \in 1 .. Length(r)
  PROVE  \/ IsStart(r, m) /\ m # Length(r)
         \/ IsSend(r, m) /\ m # Length(r)
         \/ IsReceive(r, m) /\ m # Length(r)
         \/ m = Length(r)
BY LengthIs DEF IsStart, IsSend, IsReceive

LEMMA CallTaken ==
  ASSUME NEW r, NEW m, NEW ok, NEW byte, NEW data, RequestOK(r), LENGTH > 0, m \in 0 .. Length(r),
         Between(r, m, ok, byte, data), NextCall
  PROVE  LET call == Calls(r)[m + 1] IN
         /\ m + 1 \in 1 .. Length(r) /\ CallIs(r, m + 1, call)
         /\ Kept /\ StillPorts
         /\ stack' = <<Frame(r, Drop(Calls(r), m + 1), IF ok \/ call.always THEN call.ops ELSE << >>,
                             ok, 0, data)>>
<1> DEFINE calls == Drop(Calls(r), m)
           t == Frame(r, calls, << >>, ok, byte, data)
           call == Calls(r)[m + 1]
<1>1. /\ Calls(r) \in Seq(AllCalls) /\ Len(Calls(r)) = Length(r) /\ Length(r) \in Nat
      /\ \A n \in 1 .. Length(r) : CallIs(r, n, Calls(r)[n])
  BY CallsAre
<1>2. stack = <<t>> /\ ok \in BOOLEAN
  BY DEF Between, Doing
<1>3. Top = t /\ \A c : SetTop(c) <=> stack' = <<c>>
  BY <1>2, StackIs
<1>4. /\ t.calls = calls /\ t.ops = << >> /\ t.bSuccess = ok
      /\ \A x, y : [t EXCEPT !.calls = x, !.byte = 0, !.ops = y] = Frame(r, x, y, ok, 0, data)
  <2>1. IsFrame(t, r, calls, << >>, ok, byte, data)
    BY FrameIs, Zenon
  <2> HIDE DEF t
  <2> QED BY <2>1, Zenon DEF IsFrame
<1> HIDE DEF t, calls
<1>5. /\ calls # << >>
      /\ UNCHANGED <<ports, answer, taken, faults>>
      /\ SetTop([t EXCEPT !.calls = Tail(t.calls), !.byte = 0,
                          !.ops = IF Made(Head(t.calls)) THEN Head(t.calls).ops ELSE << >>])
  BY <1>3, <1>4 DEF NextCall, Running
<1>6. m < Length(r) /\ m \in Nat
  <2>1. m # Length(r)
    BY <1>1, <1>5, DropEnds DEF calls
  <2> QED BY <2>1, <1>1
<1>7. Head(calls) = call /\ Tail(calls) = Drop(Calls(r), m + 1)
  BY <1>1, <1>6, DropIs DEF calls
<1>8. m + 1 \in 1 .. Length(r)
  BY <1>1, <1>6
<1>9. CallIs(r, m + 1, call)
  BY <1>1, <1>8
<1>10. Made(call) <=> ok \/ call.always
  BY <1>3, <1>4 DEF Made
<1>11. Kept /\ StillPorts
  BY <1>5 DEF Kept, StillPorts, Wires, Untouched, ports, faults
<1> HIDE DEF call
<1>12. stack' = <<Frame(r, Drop(Calls(r), m + 1), IF ok \/ call.always THEN call.ops ELSE << >>,
                        ok, 0, data)>>
  <2>1. PICK x, y : x = Tail(calls) /\ y = IF Made(call) THEN call.ops ELSE << >>
    OBVIOUS
  <2>2. SetTop([t EXCEPT !.calls = x, !.byte = 0, !.ops = y])
    BY <2>1, <1>4, <1>5, <1>7
  <2>3. [t EXCEPT !.calls = x, !.byte = 0, !.ops = y] = Frame(r, x, y, ok, 0, data)
    BY <1>4, Zenon
  <2>4. stack' = <<Frame(r, x, y, ok, 0, data)>>
    BY <2>2, <2>3, <1>3, Zenon
  <2>5. y = IF ok \/ call.always THEN call.ops ELSE << >>
    BY <2>1, <1>10
  <2> QED BY <2>1, <2>4, <2>5, <1>7
<1> QED BY <1>8, <1>9, <1>11, <1>12 DEF call

LEMMA BetweenRests ==
  ASSUME WireTypes, NEW r, RequestOK(r), LENGTH > 0, NEW m \in 0 .. Length(r), m < Length(r),
         NEW ok \in BOOLEAN, NEW byte, NEW data, Between(r, m, ok, byte, data),
         ~IsReceive(r, m + 1)
  PROVE  Rested /\ (scl = 0 \/ sda = 1) /\ (m > 0 => scl = 0)
<1>1. CASE m = 0
  BY <1>1 DEF Between, Free, Rested
<1>2. CASE m # 0
  <2>1. scl = 0 /\ (ok => Ready(r, m)) /\ (~ok => Rested)
    BY <1>2 DEF Between
  <2>2. ASSUME ok PROVE Rested
    <3>1. CASE r.kind = "read" /\ m >= 4 + Addresses
      <4>1. Got(r, m) = r.n
        BY <3>1, LengthIs DEF IsReceive, Got
      <4>2. ~(Got(r, m) < r.n)
        BY <4>1, <3>1, LengthIs
      <4> QED BY <4>2, <3>1, <2>1, <2>2 DEF Ready, Rested
    <3>2. CASE ~(r.kind = "read" /\ m >= 4 + Addresses)
      <4>1. device = Device("receive", WantAt(r, m), 0, 0, FALSE, device.pointer)
        BY <3>2, <2>1, <2>2 DEF Ready
      <4> QED BY <4>1 DEF Rested, Device
    <3> QED BY <3>1, <3>2
  <2> QED BY <2>1, <2>2
<1> QED BY <1>1, <1>2

Calling(r, m, ops, ok, data) ==
  /\ Kept /\ StillPorts /\ ok \in BOOLEAN
  /\ stack' = <<Frame(r, Drop(Calls(r), m), ops, ok, 0, data)>>

(* A call that is not made after a missing acknowledge.                    *)
LEMMA CallSkipped ==
  ASSUME WireTypes, NEW r, RequestOK(r), LENGTH > 0, NEW m \in 0 .. Length(r), m < Length(r),
         NEW ok, NEW byte, NEW data, Between(r, m, ok, byte, data), ok = FALSE,
         m + 1 # Length(r), Calling(r, m + 1, << >>, ok, data)
  PROVE  At(r, m + 1, ok, 0, data)'
<1>1. Wires(scl, sda, dir) /\ device' = device /\ Untouched /\ wide' = wide /\ scl' = scl /\ 0 \in Byte
  BY DEF Calling, StillPorts, Wires, Byte
<1>2. m # 0 /\ scl = 0 /\ Rested
  BY DEF Between
<1>3. Result(r, m + 1, ok, data)'
  <2>1. Result(r, m + 1, ok, data)
    BY DEF Between, Result
  <2> QED BY <2>1, <1>1, ResultStill
<1>4. Doing(r, m + 1, << >>, ok, 0, data)'
  <2>1. NextOps(r, m + 1, << >>, ok, 0, data) /\ ok \in BOOLEAN
    BY DEF Calling, NextOps
  <2> QED BY <2>1, <1>1, DoingNext
<1>5. Rested' /\ scl' = 0 /\ Length(r)' = Length(r)
  BY <1>1, <1>2, Static DEF Rested
<1>6. m + 1 # 0 /\ m + 1 \notin {0, Length(r)'}
  BY <1>5, LengthIs
<1>7. Between(r, m + 1, ok, 0, data)'
  BY <1>3, <1>4, <1>5, <1>6 DEF Between
<1> QED BY <1>7 DEF At

LEMMA StartBegins ==
  ASSUME WireTypes, NEW r, RequestOK(r), LENGTH > 0, NEW m \in 0 .. Length(r), m < Length(r),
         NEW ok, NEW byte, NEW data, Between(r, m, ok, byte, data),
         IsStart(r, m + 1), Calling(r, m + 1, i2c_start, ok, data)
  PROVE  At(r, m + 1, ok, 0, data)'
<1>1. Wires(scl, sda, dir) /\ device' = device /\ Untouched /\ wide' = wide /\ scl' = scl
      /\ sda' = sda /\ 0 \in Byte /\ ok \in BOOLEAN
  BY DEF Calling, StillPorts, Wires, Byte
<1>2. /\ Addresses \in {1, 2} /\ m \in Nat /\ r.kind \in {"write", "read"}
      /\ m = 0 \/ (r.kind = "read" /\ m = 2 + Addresses)
      /\ r.kind = "write" => m + 1 < 3 + Addresses /\ m < 3 + Addresses
      /\ m <= 4 + Addresses /\ m + 1 <= 4 + Addresses
  BY LengthIs DEF IsStart
<1>3. Got(r, m) = 0 /\ Got(r, m + 1) = 0
  BY <1>2 DEF Got
<1>4. Result(r, m, ok, data)
  BY DEF Between
<1>5. Result(r, m + 1, ok, data)'
  <2>1. data = << >>
    BY <1>3, <1>4 DEF Result
  <2>2. (m + 1 >= 3 + Addresses /\ r.kind = "write") <=> (m >= 3 + Addresses /\ r.kind = "write")
    BY <1>2
  <2>3. taken = (ok /\ r.kind = "write" /\ m + 1 >= 3 + Addresses)
    <3>1. taken = (ok /\ r.kind = "write" /\ m >= 3 + Addresses)
      BY <1>4 DEF Result
    <3> QED BY <2>2, <3>1, Zenon
  <2>4. Result(r, m + 1, ok, data)
    BY <2>1, <2>3, <1>3 DEF Result
  <2> QED BY <2>4, <1>1, ResultStill
<1>6. Doing(r, m + 1, Drop(i2c_start, 0), ok, 0, data)'
  <2>1. NextOps(r, m + 1, Drop(i2c_start, 0), ok, 0, data)
    BY StartIs, DropEnds DEF Calling, NextOps
  <2> QED BY <2>1, <1>1, DoingNext
<1>7. Rested /\ (scl = 0 \/ sda = 1)
  <2>1. ~IsReceive(r, m + 1)
    BY <1>2 DEF IsReceive
  <2> QED BY <2>1, <1>1, BetweenRests
<1>8. ok => PointerOK(r, m + 1, device.pointer)
  <2>1. CASE m = 0
    <3>1. m + 1 = 1 /\ 1 # 3 /\ 1 # 2 + Addresses /\ 1 # 3 + Addresses /\ ~(1 >= 3 + Addresses)
      BY <2>1, <1>2
    <3> QED BY <3>1 DEF PointerOK
  <2>2. CASE r.kind = "read" /\ m = 2 + Addresses
    <3>1. m \notin {0, Length(r)} /\ ~(m >= 4 + Addresses)
      BY <2>2, <1>2
    <3>2. ok => PointerOK(r, m, device.pointer)
      BY <3>1 DEF Between, Ready
    <3>3. ok => device.pointer = r.reg
      BY <3>2, <2>2 DEF PointerOK
    <3>4. r.reg = r.reg + 0
      <4>1. r.reg \in Nat
        BY RequestIs
      <4> QED BY <4>1
    <3>5. m + 1 # 2 + Addresses /\ ~(m + 1 = 3 /\ wide) /\ r.kind # "write"
      BY <2>2, <1>2, LengthIs
    <3> QED BY <3>3, <3>4, <3>5, <1>3 DEF PointerOK
  <2> QED BY <2>1, <2>2, <1>2
<1>9. Starting(r, m + 1, 0, ok, 0, data)'
  <2>1. IsStart(r, m + 1)' /\ (ok => PointerOK(r, m + 1, device.pointer)') /\ Rested'
    BY <1>1, <1>7, <1>8, Static DEF Rested
  <2>2. 0 <= 2 /\ ~(0 >= 1) /\ 0 \notin {2, 3} /\ 0 # 3 /\ 0 # 4
    OBVIOUS
  <2> QED BY <2>1, <2>2, <1>1, <1>5, <1>6, <1>7 DEF Starting
<1> QED BY <1>2, <1>9 DEF At

LEMMA StopBegins ==
  ASSUME WireTypes, NEW r, RequestOK(r), LENGTH > 0, NEW m \in 0 .. Length(r), m < Length(r),
         NEW ok, NEW byte, NEW data, Between(r, m, ok, byte, data),
         m + 1 = Length(r), Calling(r, m + 1, i2c_stop, ok, data)
  PROVE  At(r, m + 1, ok, 0, data)'
<1>1. Wires(scl, sda, dir) /\ device' = device /\ Untouched /\ wide' = wide /\ scl' = scl
      /\ sda' = sda /\ 0 \in Byte /\ ok \in BOOLEAN
  BY DEF Calling, StillPorts, Wires, Byte
<1>2. /\ Addresses \in {1, 2} /\ m \in Nat /\ r.kind \in {"write", "read"} /\ m > 0
      /\ r.kind = "write" => m + 1 >= 3 + Addresses /\ m >= 3 + Addresses
      /\ r.kind = "read" => r.n \in Nat \ {0} /\ m = 4 + Addresses + r.n
  BY LengthIs
<1>3. Got(r, m) = Got(r, m + 1)
  BY <1>2 DEF Got
<1>4. Result(r, m, ok, data)
  BY DEF Between
<1>5. Result(r, m + 1, ok, data)'
  <2>1. (m + 1 >= 3 + Addresses /\ r.kind = "write") <=> (m >= 3 + Addresses /\ r.kind = "write")
    BY <1>2
  <2>2. taken = (ok /\ r.kind = "write" /\ m + 1 >= 3 + Addresses)
    <3>1. taken = (ok /\ r.kind = "write" /\ m >= 3 + Addresses)
      BY <1>4 DEF Result
    <3> QED BY <2>1, <3>1, Zenon
  <2>3. Result(r, m + 1, ok, data)
    BY <2>2, <1>3, <1>4 DEF Result
  <2> QED BY <2>3, <1>1, ResultStill
<1>6. Doing(r, m + 1, Drop(i2c_stop, 0), ok, 0, data)'
  <2>1. NextOps(r, m + 1, Drop(i2c_stop, 0), ok, 0, data)
    BY StopIs, DropEnds DEF Calling, NextOps
  <2> QED BY <2>1, <1>1, DoingNext
<1>7. Rested /\ scl = 0
  <2>1. ~IsReceive(r, m + 1)
    BY <1>2 DEF IsReceive
  <2> QED BY <2>1, <1>1, <1>2, BetweenRests
<1>8. Stopping(r, m + 1, 0, ok, 0, data)'
  <2>1. m + 1 = Length(r)' /\ Rested'
    BY <1>1, <1>7, Static DEF Rested
  <2>2. 0 <= 2 /\ ~(0 >= 1) /\ ~(0 >= 2) /\ 0 # 3
    OBVIOUS
  <2> QED BY <2>1, <2>2, <1>1, <1>5, <1>6, <1>7 DEF Stopping
<1> QED BY <1>2, <1>8 DEF At

LEMMA WriteBegins ==
  ASSUME WireTypes, NEW r, RequestOK(r), LENGTH > 0, NEW m \in 0 .. Length(r), m < Length(r),
         NEW ok, NEW byte, NEW data, Between(r, m, ok, byte, data), ok = TRUE,
         IsSend(r, m + 1), NEW b \in Byte, b = SentAt(r, m + 1),
         Calling(r, m + 1, i2c_write(b), ok, data)
  PROVE  At(r, m + 1, ok, 0, data)'
<1>1. Wires(scl, sda, dir) /\ device' = device /\ Untouched /\ wide' = wide /\ scl' = scl
      /\ sda' = sda /\ 0 \in Byte /\ ok \in BOOLEAN
  BY DEF Calling, StillPorts, Wires, Byte
<1>2. /\ Addresses \in {1, 2} /\ m \in Nat /\ r.kind \in {"write", "read"} /\ m > 0
      /\ r.kind = "write" => ~(m >= 3 + Addresses)
      /\ ~(r.kind = "read" /\ m >= 4 + Addresses)
      /\ m <= 4 + Addresses /\ m \notin {0, Length(r)} /\ (m + 1) - 1 = m
  BY LengthIs DEF IsSend
<1>3. Got(r, m) = 0
  BY <1>2 DEF Got
<1>4. Result(r, m, ok, data)
  BY DEF Between
<1>5. data = << >> /\ ~taken
  <2>1. data = << >>
    BY <1>3, <1>4 DEF Result
  <2>2. taken = (ok /\ r.kind = "write" /\ m >= 3 + Addresses)
    BY <1>4 DEF Result
  <2> QED BY <2>1, <2>2, <1>2, Zenon
<1>6. PICK s : s = i2c_write(b)
  OBVIOUS
<1>7. Doing(r, m + 1, Drop(s, 0), ok, 0, data)'
  <2>1. NextOps(r, m + 1, Drop(s, 0), ok, 0, data)
    <3>1. s \in Seq(Accesses)
      <4>1. IsWrite(b, s)
        BY <1>6, WriteIs
      <4> QED BY <4>1 DEF IsWrite
    <3>2. Drop(s, 0) = s
      BY <3>1, DropEnds
    <3> QED BY <3>2, <1>6 DEF Calling, NextOps
  <2> QED BY <2>1, <1>1, DoingNext
<1>8. scl = 0 /\ Ready(r, m)
  BY <1>2 DEF Between
<1>9. /\ device = Device("receive", WantAt(r, m), 0, 0, FALSE, device.pointer)
      /\ PointerOK(r, m, device.pointer)
  BY <1>2, <1>8 DEF Ready
<1>10. Shifted(r, m + 1, 0)'
  <2>1. /\ WantAt(r, m)' = WantAt(r, m) /\ SentAt(r, m + 1)' = SentAt(r, m + 1)
        /\ \A q : PointerOK(r, m, q)' <=> PointerOK(r, m, q)
    BY <1>1, Static
  <2>2. Prefix(SentAt(r, m + 1)', 0) = 0
    BY DEF Prefix
  <2>3. /\ device' = Device("receive", WantAt(r, m)', 0, 0, FALSE, device'.pointer)
        /\ PointerOK(r, m, device.pointer)'
    BY <2>1, <1>1, <1>9
  <2> QED BY <2>2, <2>3, <1>2 DEF Shifted
<1>11. WriteBit(r, m + 1, 0, 0, ok, 0, data)'
  <2>1. IsSend(r, m + 1)' /\ b = SentAt(r, m + 1)'
    BY <1>1, Static
  <2>2. 4 * 0 + 0 = 0 /\ ~(0 > 0) /\ 0 # 3
    OBVIOUS
  <2>3. scl' = 0 /\ ~taken'
    BY <1>1, <1>5, <1>8 DEF Untouched
  <2> QED BY <2>1, <2>2, <2>3, <1>5, <1>6, <1>7, <1>10 DEF WriteBit
<1>12. m + 1 > 0 /\ 0 \in 0 .. 7 /\ 0 \in 0 .. 3
  BY <1>2
<1> QED BY <1>11, <1>12 DEF At

LEMMA ReadBegins ==
  ASSUME WireTypes, NEW r, RequestOK(r), LENGTH > 0, NEW m \in 0 .. Length(r), m < Length(r),
         NEW ok, NEW byte, NEW data, Between(r, m, ok, byte, data), ok = TRUE,
         IsReceive(r, m + 1), NEW ack \in BOOLEAN, ack = Acked(r, m + 1),
         Calling(r, m + 1, i2c_read(ack), ok, data)
  PROVE  At(r, m + 1, ok, 0, data)'
<1>1. Wires(scl, sda, dir) /\ device' = device /\ Untouched /\ wide' = wide /\ scl' = scl
      /\ sda' = sda /\ 0 \in Byte /\ ok \in BOOLEAN
  BY DEF Calling, StillPorts, Wires, Byte
<1>2. /\ Addresses \in {1, 2} /\ m \in Nat /\ r.kind = "read" /\ r.n \in Nat
      /\ m >= 4 + Addresses /\ m \notin {0, Length(r)} /\ (m + 1) - 1 = m
      /\ m + 1 \in 1 .. Length(r)
  BY LengthIs DEF IsReceive
<1>3. /\ Got(r, m) < r.n /\ Source(r, m + 1) = r.reg + Got(r, m)
  <2>1. /\ Got(r, m + 1) \in 1 .. r.n /\ Got(r, (m + 1) - 1) \in Nat
        /\ Got(r, m + 1) = Got(r, (m + 1) - 1) + 1
        /\ Source(r, m + 1) = r.reg + Got(r, (m + 1) - 1)
    BY <1>2, ReceiveIs
  <2> QED BY <2>1, <1>2
<1>4. Result(r, m, ok, data)'
  <2>1. Result(r, m, ok, data)
    BY DEF Between
  <2> QED BY <2>1, <1>1, ResultStill
<1>5. PICK s : s = i2c_read(ack)
  OBVIOUS
<1>6. Doing(r, m + 1, Drop(s, 0), ok, 0, data)'
  <2>1. NextOps(r, m + 1, Drop(s, 0), ok, 0, data)
    <3>1. s \in Seq(Accesses)
      <4>1. IsRead(ack, s)
        BY <1>5, ReadIs
      <4> QED BY <4>1 DEF IsRead
    <3>2. Drop(s, 0) = s
      BY <3>1, DropEnds
    <3> QED BY <3>2, <1>5 DEF Calling, NextOps
  <2> QED BY <2>1, <1>1, DoingNext
<1>7. scl = 0 /\ Sends(1) /\ device.pointer = Source(r, m + 1)
  BY <1>2, <1>3 DEF Between, Ready
<1>8. ReadStart(r, m + 1, 0, ok, 0, data)'
  <2>1. IsReceive(r, m + 1)' /\ ack = Acked(r, m + 1)' /\ Source(r, m + 1)' = Source(r, m + 1)
    BY <1>1, Static
  <2>2. Sends(1)' /\ device'.pointer = Source(r, m + 1)' /\ scl' = 0
    BY <2>1, <1>1, <1>7 DEF Sends, Untouched
  <2>3. Result(r, (m + 1) - 1, TRUE, data)'
    BY <1>2, <1>4
  <2>4. Reading(r, m + 1, 0, ok, 0, data)'
    BY <2>1, <2>3, <1>5, <1>6 DEF Reading
  <2>5. 0 # 1
    OBVIOUS
  <2> QED BY <2>2, <2>4, <2>5 DEF ReadStart
<1>9. m + 1 > 0 /\ 0 \in 0 .. 1
  BY <1>2
<1> QED BY <1>8, <1>9 DEF At

(* Whatever call is next, its first place follows.                         *)
LEMMA NextCallStep ==
  ASSUME WireTypes, NEW r, RequestOK(r), LENGTH > 0, NEW m \in 0 .. Length(r),
         NEW ok, NEW byte, NEW data, Between(r, m, ok, byte, data), NextCall
  PROVE  Progress(r)
<1>1. PICK call : call = Calls(r)[m + 1]
  OBVIOUS
<1>2. /\ m + 1 \in 1 .. Length(r) /\ CallIs(r, m + 1, call) /\ Kept /\ StillPorts
      /\ stack' = <<Frame(r, Drop(Calls(r), m + 1), IF ok \/ call.always THEN call.ops ELSE << >>,
                          ok, 0, data)>>
  BY <1>1, CallTaken
<1>3. ok \in BOOLEAN /\ m < Length(r) /\ Length(r) \in Nat
  BY <1>2, LengthIs DEF Between, Doing
<1>4. ASSUME NEW ops, ops = IF ok \/ call.always THEN call.ops ELSE << >>
      PROVE  Calling(r, m + 1, ops, ok, data)
  BY <1>2, <1>3, <1>4 DEF Calling
<1>5. ASSUME ~(ok \/ call.always), m + 1 # Length(r)
      PROVE  At(r, m + 1, ok, 0, data)'
  <2>1. ok = FALSE /\ Calling(r, m + 1, << >>, ok, data)
    BY <1>3, <1>4, <1>5
  <2> QED BY <2>1, <1>3, <1>5, CallSkipped
<1>6. At(r, m + 1, ok, 0, data)'
  <2>1. CASE IsStart(r, m + 1) /\ m + 1 # Length(r)
    <3>1. call = Start \/ call = Restart
      BY <2>1, <1>2 DEF CallIs
    <3>2. call.ops = i2c_start
      BY <3>1, CallFields
    <3>3. CASE ok \/ call.always
      BY <3>2, <3>3, <2>1, <1>3, <1>4, StartBegins
    <3> QED BY <3>3, <2>1, <1>5
  <2>2. CASE IsSend(r, m + 1) /\ m + 1 # Length(r)
    <3>1. PICK b \in Byte : b = SentAt(r, m + 1)
      BY <2>2, <1>2, SentIs
    <3>2. call = Send(b)
      BY <2>2, <3>1, <1>2 DEF CallIs
    <3>3. call.ops = i2c_write(b) /\ call.always = FALSE
      BY <3>2, CallFields
    <3>4. CASE ok
      <4>1. ok = TRUE /\ Calling(r, m + 1, i2c_write(b), ok, data)
        BY <3>3, <3>4, <1>3, <1>4
      <4> QED BY <4>1, <3>1, <2>2, <1>3, WriteBegins
    <3> QED BY <3>3, <3>4, <2>2, <1>5
  <2>3. CASE IsReceive(r, m + 1) /\ m + 1 # Length(r)
    <3>1. PICK ack \in BOOLEAN : ack = Acked(r, m + 1)
      BY <2>3, <1>2, ReceiveIs
    <3>2. call = Receive(ack)
      BY <2>3, <3>1, <1>2 DEF CallIs, Acked
    <3>3. call.ops = i2c_read(ack) /\ call.always = FALSE
      BY <3>2, CallFields
    <3>4. CASE ok
      <4>1. ok = TRUE /\ Calling(r, m + 1, i2c_read(ack), ok, data)
        BY <3>3, <3>4, <1>3, <1>4
      <4> QED BY <4>1, <3>1, <2>3, <1>3, ReadBegins
    <3> QED BY <3>3, <3>4, <2>3, <1>5
  <2>4. CASE m + 1 = Length(r)
    <3>1. call = Stop
      BY <2>4, <1>2 DEF CallIs
    <3>2. Calling(r, m + 1, i2c_stop, ok, data)
      BY <3>1, <1>4, CallFields
    <3> QED BY <3>2, <2>4, <1>3, StopBegins
  <2> QED BY <2>1, <2>2, <2>3, <2>4, <1>2, CallCases
<1>7. /\ scl \in Bit /\ sda \in Bit /\ dir \in Bit /\ device' \in DeviceTypes
      /\ Wires(scl, sda, dir) /\ Untouched /\ m + 1 \in 0 .. Length(r)
  BY <1>2 DEF WireTypes, DeviceTypes, StillPorts
<1> QED BY <1>2, <1>6, <1>7, Progresses

(* Which actions may be taken at which places.                             *)
InCall(r, m, ok, byte, data) ==
  /\ m \in 1 .. Length(r)
  /\ \E s \in Seq(Accesses), k \in Nat : k < Len(s) /\ Doing(r, m, Drop(s, k), ok, byte, data)

LEMMA AtIs ==
  ASSUME WireTypes, NEW r, RequestOK(r), LENGTH > 0, NEW m \in 0 .. Length(r),
         NEW ok, NEW byte, NEW data, At(r, m, ok, byte, data)
  PROVE  Between(r, m, ok, byte, data) \/ InCall(r, m, ok, byte, data)
<1>1. m > 0 => m \in 1 .. Length(r)
  BY LengthIs
<1>2. ASSUME NEW k \in 0 .. 4, Starting(r, m, k, ok, byte, data), m > 0
      PROVE  InCall(r, m, ok, byte, data)
  <2>1. i2c_start \in Seq(Accesses) /\ k \in Nat /\ k < Len(i2c_start)
    BY StartIs
  <2> QED BY <2>1, <1>1, <1>2 DEF InCall, Starting
<1>3. ASSUME NEW k \in 0 .. 3, Stopping(r, m, k, ok, byte, data), m > 0
      PROVE  InCall(r, m, ok, byte, data)
  <2>1. i2c_stop \in Seq(Accesses) /\ k \in Nat /\ k < Len(i2c_stop)
    BY StopIs
  <2> QED BY <2>1, <1>1, <1>3 DEF InCall, Stopping
<1>4. ASSUME NEW k \in 0 .. 36, IsSend(r, m), m > 0,
             Doing(r, m, Drop(i2c_write(SentAt(r, m)), k), ok, byte, data)
      PROVE  InCall(r, m, ok, byte, data)
  <2>1. PICK b \in Byte : b = SentAt(r, m)
    BY <1>1, <1>4, SentIs
  <2>2. PICK s : s = i2c_write(b)
    OBVIOUS
  <2>3. s \in Seq(Accesses) /\ Len(s) = 37
    <3>1. IsWrite(b, s)
      BY <2>1, <2>2, WriteIs
    <3> QED BY <3>1 DEF IsWrite
  <2>4. k \in Nat /\ k < Len(s)
    BY <2>3
  <2> QED BY <2>1, <2>2, <2>3, <2>4, <1>1, <1>4 DEF InCall
<1>5. ASSUME NEW k \in 0 .. 32, Reading(r, m, k, ok, byte, data), m > 0
      PROVE  InCall(r, m, ok, byte, data)
  <2>1. PICK ack \in BOOLEAN : ack = Acked(r, m)
    BY <1>1, <1>5, ReceiveIs DEF Reading
  <2>2. PICK s : s = i2c_read(ack)
    OBVIOUS
  <2>3. s \in Seq(Accesses) /\ Len(s) = 33
    <3>1. IsRead(ack, s)
      BY <2>1, <2>2, ReadIs
    <3> QED BY <3>1 DEF IsRead
  <2>4. k \in Nat /\ k < Len(s)
    BY <2>3
  <2> QED BY <2>1, <2>2, <2>3, <2>4, <1>1, <1>5 DEF InCall, Reading
<1>6. ASSUME NEW n \in 0 .. 7, NEW j \in 0 .. 3, WriteBit(r, m, n, j, ok, byte, data), m > 0
      PROVE  InCall(r, m, ok, byte, data)
  <2>1. 4 * n + j \in 0 .. 36
    OBVIOUS
  <2> QED BY <2>1, <1>4, <1>6 DEF WriteBit
<1>7. ASSUME NEW k \in 32 .. 36, WriteEnd(r, m, k, ok, byte, data), m > 0
      PROVE  InCall(r, m, ok, byte, data)
  <2>1. k \in 0 .. 36
    OBVIOUS
  <2> QED BY <2>1, <1>4, <1>7 DEF WriteEnd
<1>8. ASSUME NEW k \in 0 .. 1, ReadStart(r, m, k, ok, byte, data), m > 0
      PROVE  InCall(r, m, ok, byte, data)
  <2>1. k \in 0 .. 32
    OBVIOUS
  <2> QED BY <2>1, <1>5, <1>8 DEF ReadStart
<1>9. ASSUME NEW n \in 0 .. 7, NEW j \in 0 .. 2, ReadBit(r, m, n, j, ok, byte, data), m > 0
      PROVE  InCall(r, m, ok, byte, data)
  <2>1. 3 * n + 2 + j \in 0 .. 32
    OBVIOUS
  <2> QED BY <2>1, <1>5, <1>9 DEF ReadBit
<1>10. ASSUME NEW k \in 26 .. 32, ReadEnd(r, m, k, ok, byte, data), m > 0
       PROVE  InCall(r, m, ok, byte, data)
  <2>1. k \in 0 .. 32
    OBVIOUS
  <2> QED BY <2>1, <1>5, <1>10 DEF ReadEnd
<1> QED BY <1>2, <1>3, <1>6, <1>7, <1>8, <1>9, <1>10, Zenon DEF At

LEMMA DoingIs ==
  ASSUME NEW r, NEW m, NEW ops, NEW ok, NEW byte, NEW data, Doing(r, m, ops, ok, byte, data)
  PROVE  /\ stack # << >> /\ Len(stack) = 1 /\ stack[1] = Top /\ Front(stack) = << >>
         /\ Top.request = r /\ Top.calls = Drop(Calls(r), m) /\ Top.ops = ops
         /\ Top.bSuccess = ok /\ Top.byte = byte /\ Top.data = data
         /\ ok \in BOOLEAN /\ byte \in Byte
<1> DEFINE t == Frame(r, Drop(Calls(r), m), ops, ok, byte, data)
<1>1. stack = <<t>> /\ ok \in BOOLEAN /\ byte \in Byte
  BY DEF Doing
<1>2. IsFrame(t, r, Drop(Calls(r), m), ops, ok, byte, data)
  BY FrameIs, Zenon
<1> HIDE DEF t
<1>3. Top = t /\ stack # << >> /\ Len(stack) = 1 /\ stack[1] = t /\ Front(stack) = << >>
  BY <1>1, StackIs
<1> QED BY <1>1, <1>2, <1>3, Zenon DEF IsFrame

LEMMA InCallIs ==
  ASSUME NEW r, NEW m, NEW ok, NEW byte, NEW data, InCall(r, m, ok, byte, data)
  PROVE  Top.ops # << >> /\ ~NextCall /\ ~Return
<1>1. PICK s \in Seq(Accesses), k \in Nat : k < Len(s) /\ Doing(r, m, Drop(s, k), ok, byte, data)
  BY DEF InCall
<1>2. Drop(s, k) # << >>
  BY <1>1, DropIs
<1>3. stack # << >> /\ Top.ops = Drop(s, k)
  BY <1>1, DoingIs
<1> QED BY <1>2, <1>3 DEF NextCall, Return, Running

(* Every access keeps a request at one of the places.                      *)
LEMMA AccessStep ==
  ASSUME WireTypes, LENGTH > 0, NEW r, Busy(r), Access
  PROVE  Progress(r)
<1>1. RequestOK(r)
  BY DEF Busy
<1>2. PICK m \in 0 .. Length(r) : \E ok, byte, data : At(r, m, ok, byte, data)
  BY DEF Busy
<1>3. PICK ok, byte, data : At(r, m, ok, byte, data)
  BY <1>2
<1>4. ~Between(r, m, ok, byte, data)
  BY DoingIs DEF Between, Access
<1>5. m > 0 /\ m \in 1 .. Length(r)
  BY <1>1, <1>3, <1>4, LengthIs DEF At
<1>6. ASSUME NEW k \in 0 .. 4, Starting(r, m, k, ok, byte, data) PROVE Progress(r)
  BY <1>1, <1>5, <1>6, StartingStep
<1>7. ASSUME NEW k \in 0 .. 3, Stopping(r, m, k, ok, byte, data) PROVE Progress(r)
  BY <1>1, <1>5, <1>7, StoppingStep
<1>8. ASSUME NEW n \in 0 .. 7, NEW j \in 0 .. 3, WriteBit(r, m, n, j, ok, byte, data)
      PROVE  Progress(r)
  BY <1>1, <1>5, <1>8, WriteBitStep
<1>9. ASSUME NEW k \in 32 .. 36, WriteEnd(r, m, k, ok, byte, data) PROVE Progress(r)
  <2>1. CASE k = 32
    BY <2>1, <1>1, <1>5, <1>9, WriteHeardStep
  <2>2. CASE k \in 33 .. 36
    BY <2>2, <1>1, <1>5, <1>9, WriteEndStep
  <2>3. k = 32 \/ k \in 33 .. 36
    OBVIOUS
  <2> QED BY <2>1, <2>2, <2>3
<1>10. ASSUME NEW k \in 0 .. 1, ReadStart(r, m, k, ok, byte, data) PROVE Progress(r)
  BY <1>1, <1>5, <1>10, ReadStartStep
<1>11. ASSUME NEW n \in 0 .. 7, NEW j \in 0 .. 2, ReadBit(r, m, n, j, ok, byte, data)
       PROVE  Progress(r)
  BY <1>1, <1>5, <1>11, ReadBitStep
<1>12. ASSUME NEW k \in 26 .. 32, ReadEnd(r, m, k, ok, byte, data) PROVE Progress(r)
  BY <1>1, <1>5, <1>12, ReadEndStep
<1> QED BY <1>3, <1>4, <1>6, <1>7, <1>8, <1>9, <1>10, <1>11, <1>12, Zenon DEF At

LEMMA CallStep ==
  ASSUME WireTypes, LENGTH > 0, NEW r, Busy(r), NextCall
  PROVE  Progress(r)
<1>1. RequestOK(r)
  BY DEF Busy
<1>2. PICK m \in 0 .. Length(r) : \E ok, byte, data : At(r, m, ok, byte, data)
  BY DEF Busy
<1>3. PICK ok, byte, data : At(r, m, ok, byte, data)
  BY <1>2
<1>4. Between(r, m, ok, byte, data)
  BY <1>1, <1>3, AtIs, InCallIs
<1> QED BY <1>1, <1>4, NextCallStep

(* A transaction that has nothing left to do is at its end.                *)
LEMMA AtEnd ==
  ASSUME WireTypes, LENGTH > 0, NEW r, Busy(r), ~Running
  PROVE  \E ok, byte, data : Between(r, Length(r), ok, byte, data)
<1>1. RequestOK(r)
  BY DEF Busy
<1>2. PICK m \in 0 .. Length(r) : \E ok, byte, data : At(r, m, ok, byte, data)
  BY DEF Busy
<1>3. PICK ok, byte, data : At(r, m, ok, byte, data)
  BY <1>2
<1>4. Between(r, m, ok, byte, data)
  <2>1. CASE InCall(r, m, ok, byte, data)
    <3>1. PICK s \in Seq(Accesses), k \in Nat : k < Len(s) /\ Doing(r, m, Drop(s, k), ok, byte, data)
      BY <2>1 DEF InCall
    <3> QED BY <2>1, <3>1, DoingIs, InCallIs DEF Running
  <2> QED BY <2>1, <1>1, <1>3, AtIs
<1>5. stack # << >> /\ Top.calls = Drop(Calls(r), m)
  BY <1>4, DoingIs DEF Between
<1>6. Calls(r) \in Seq(AllCalls) /\ Len(Calls(r)) = Length(r) /\ Length(r) \in Nat
  BY <1>1, CallsAre
<1>7. ~(m < Length(r))
  <2>1. ASSUME m < Length(r) PROVE FALSE
    <3>1. m \in Nat /\ m < Len(Calls(r))
      BY <2>1, <1>6
    <3>2. Drop(Calls(r), m) # << >>
      BY <3>1, <1>6, DropIs
    <3> QED BY <3>2, <1>5 DEF Running
  <2> QED BY <2>1
<1>8. m = Length(r)
  BY <1>6, <1>7
<1> QED BY <1>4, <1>8

(* What the caller gets: a write succeeds if and only if the device has    *)
(* taken the value; a read that succeeds has the registers.                *)
Finished(r) ==
  /\ stack' = << >> /\ Free' /\ WireTypes' /\ resets' = resets /\ since' = since
  /\ regs' = regs /\ taken' = taken
  /\ \/ r.kind = "write" /\ answer' = [ok |-> taken, data |-> << >>]
     \/ /\ r.kind = "read"
        /\ answer' = [ok |-> TRUE, data |-> [i \in 1 .. r.n |-> regs[r.reg + i - 1]]]
     \/ r.kind = "read" /\ answer' = NoAnswer

LEMMA ReturnStep ==
  ASSUME WireTypes, LENGTH > 0, since = SINCE, NEW r, Busy(r), Return
  PROVE  Finished(r)
<1>1. RequestOK(r)
  BY DEF Busy
<1>2. PICK ok, byte, data : Between(r, Length(r), ok, byte, data)
  BY AtEnd DEF Return
<1>3. /\ Top.bSuccess = ok /\ Top.data = data /\ ok \in BOOLEAN /\ Front(stack) = << >>
  BY <1>2, DoingIs DEF Between
<1>4. /\ stack' = << >> /\ answer' = [ok |-> ok, data |-> data] /\ resets' = resets /\ since' = since
      /\ UNCHANGED <<ports, taken>>
  BY <1>3 DEF Return, SINCE
<1>5. Free /\ Result(r, Length(r), ok, data)
  BY <1>2 DEF Between
<1>6. Free' /\ WireTypes' /\ regs' = regs /\ taken' = taken
  BY <1>4, <1>5 DEF Free, WireTypes, ports
<1>7. /\ Addresses \in {1, 2} /\ Length(r) \in Nat /\ r.kind \in {"write", "read"}
      /\ r.kind = "write" => Length(r) = 4 + Addresses
      /\ r.kind = "read" => r.n \in Nat \ {0} /\ Length(r) = 5 + Addresses + r.n
  BY <1>1, LengthIs
<1>8. CASE r.kind = "write"
  <2>1. data = << >> /\ taken = ok
    <3>1. Got(r, Length(r)) = 0 /\ Length(r) >= 3 + Addresses
      BY <1>7, <1>8 DEF Got
    <3>2. taken = (ok /\ r.kind = "write" /\ Length(r) >= 3 + Addresses)
      BY <1>5, Zenon DEF Result
    <3>3. data = << >>
      BY <3>1, <1>5 DEF Result
    <3>4. taken = ok
      <4>1. (ok /\ r.kind = "write" /\ Length(r) >= 3 + Addresses) = ok
        BY <1>3, <1>8, <3>1, Zenon
      <4> QED BY <4>1, <3>2
    <3> QED BY <3>3, <3>4
  <2> QED BY <2>1, <1>4, <1>6, <1>8 DEF Finished
<1>9. CASE r.kind = "read"
  <2>1. Got(r, Length(r)) = r.n /\ r.n > 0
    BY <1>7, <1>9 DEF Got
  <2>2. data = IF ok THEN [i \in 1 .. r.n |-> regs[r.reg + i - 1]] ELSE << >>
    BY <2>1, <1>5 DEF Result
  <2>3. CASE ok
    <3>1. ok = TRUE
      BY <2>3, <1>3
    <3> QED BY <3>1, <2>2, <1>4, <1>6, <1>9 DEF Finished
  <2>4. CASE ~ok
    <3>1. ok = FALSE
      BY <2>4, <1>3
    <3> QED BY <3>1, <2>2, <1>4, <1>6, <1>9 DEF Finished, NoAnswer
  <2> QED BY <2>3, <2>4
<1> QED BY <1>7, <1>8, <1>9

(* A request finds the bus free and begins.                                *)
LEMMA InvokeStep ==
  ASSUME WireTypes, LENGTH > 0, Free, stack = << >>, NEW r \in Requests, Invoke(r)
  PROVE  /\ WireTypes' /\ Busy(r)' /\ resets' = resets /\ since' = since
         /\ regs' = regs /\ taken' = FALSE /\ answer' = NoAnswer
<1>1. RequestOK(r)
  BY DEF RequestOK, WireTypes, Invoke
<1>2. /\ Calls(r) \in Seq(AllCalls) /\ Length(r) \in Nat
  BY <1>1, CallsAre
<1>3. Drop(Calls(r), 0) = Calls(r)
  BY <1>2, DropEnds
<1>4. /\ UNCHANGED ports /\ taken' = FALSE /\ answer' = NoAnswer /\ resets' = resets /\ since' = since
      /\ stack' = Append(<< >>, Frame(r, Calls(r), << >>, TRUE, 0, << >>))
  BY DEF Invoke, Frame, faults
<1>5. \A t : Append(<< >>, t) = <<t>>
  OBVIOUS
<1>6. stack' = <<Frame(r, Drop(Calls(r), 0), << >>, TRUE, 0, << >>)>>
  BY <1>3, <1>4, <1>5
<1>7. wide' = wide /\ regs' = regs /\ Free' /\ WireTypes'
  BY <1>4 DEF ports, Free, WireTypes
<1>8. /\ Calls(r)' = Calls(r) /\ RequestOK(r)' /\ Length(r)' = Length(r) /\ Addresses' = Addresses
  BY <1>1, <1>7, Static
<1>9. Between(r, 0, TRUE, 0, << >>)'
  <2>1. Doing(r, 0, << >>, TRUE, 0, << >>)'
    BY <1>6, <1>8 DEF Doing, Byte
  <2>2. Result(r, 0, TRUE, << >>)'
    <3>1. Addresses \in {1, 2}
      BY <1>1, LengthIs
    <3>2. Got(r, 0)' = 0 /\ ~(0 >= 3 + Addresses)
      BY <3>1, <1>8 DEF Got
    <3>3. taken' = (TRUE /\ r.kind = "write" /\ 0 >= 3 + Addresses')
      BY <3>2, <1>4, <1>8, Zenon
    <3>4. << >> = IF TRUE /\ Got(r, 0)' > 0 THEN [i \in 1 .. Got(r, 0)' |-> regs'[r.reg + i - 1]] ELSE << >>
      BY <3>2
    <3> QED BY <3>3, <3>4, Zenon DEF Result
  <2> QED BY <2>1, <2>2, <1>7 DEF Between
<1>10. Busy(r)'
  <2>1. 0 \in 0 .. Length(r)'
    BY <1>2, <1>8
  <2> QED BY <2>1, <1>8, <1>9 DEF Busy, At
<1> QED BY <1>4, <1>7, <1>10

(***************************************************************************)
(* Every step, and the invariant.                                          *)
(***************************************************************************)
LEMMA BusyIs ==
  ASSUME WireTypes, LENGTH > 0, NEW r, Busy(r)
  PROVE  /\ stack # << >> /\ Len(stack) = 1 /\ DOMAIN stack = {1} /\ stack[1] = Top
         /\ Top.request = r /\ Top.byte \in Byte
         /\ pending = {r} /\ r \in Requests
<1>1. RequestOK(r)
  BY DEF Busy
<1>2. PICK m \in 0 .. Length(r) : \E ok, byte, data : At(r, m, ok, byte, data)
  BY DEF Busy
<1>3. PICK ok, byte, data : At(r, m, ok, byte, data)
  BY <1>2
<1>4. \E ops : Doing(r, m, ops, ok, byte, data)
  BY <1>1, <1>3, AtIs DEF Between, InCall
<1>5. /\ stack # << >> /\ Len(stack) = 1 /\ stack[1] = Top /\ Top.request = r /\ Top.byte \in Byte
  BY <1>4, DoingIs
<1>6. DOMAIN stack = {1}
  BY <1>4 DEF Doing
<1>7. pending = {r}
  BY <1>5, <1>6 DEF pending
<1> QED BY <1>1, <1>5, <1>6, <1>7 DEF RequestOK

LEMMA BusyStays ==
  ASSUME LENGTH > 0, NEW r
  PROVE  WireTypes' /\ Busy(r)' => pending' = {r}
<1>1. WireTypes /\ Busy(r) => pending = {r}
  BY BusyIs
<1>2. (WireTypes /\ Busy(r) => pending = {r})'
  BY <1>1, PTL
<1> QED BY <1>2

Begins(r) ==
  /\ stack = << >> /\ WireTypes' /\ Busy(r)' /\ resets' = resets /\ since' = since
  /\ regs' = regs /\ taken' = FALSE /\ answer' = NoAnswer

LEMMA StepCases ==
  ASSUME BusInv, ~Interruptible, LENGTH > 0, resets = 0, Next, resets' = 0
  PROVE  \/ \E r \in Requests : Begins(r)
         \/ \E r \in Requests : Busy(r) /\ (Progress(r) \/ Finished(r))
<1>1. WireTypes /\ since = SINCE /\ ((stack = << >> /\ Free) \/ \E r : Busy(r))
  BY DEF BusInv
<1>2. CASE stack = << >>
  <2>1. Free
    BY <1>1, <1>2, BusyIs
  <2>2. ~Step
    BY <1>2 DEF Step, NextCall, Access, Return, Running
  <2>3. ~Reset
    BY DEF Reset
  <2>4. PICK r \in Requests : Invoke(r)
    BY <2>2, <2>3 DEF Next
  <2> QED BY <2>1, <2>4, <1>1, <1>2, InvokeStep DEF Begins
<1>3. CASE stack # << >>
  <2>1. PICK r : Busy(r)
    BY <1>1, <1>3
  <2>2. r \in Requests
    BY <2>1, <1>1, BusyIs
  <2>3. Step
    <3>1. ~Reset
      BY DEF Reset
    <3>2. \A q \in Requests : ~Invoke(q)
      BY <1>3 DEF Invoke
    <3> QED BY <3>1, <3>2, Zenon DEF Next
  <2>4. CASE NextCall
    BY <2>1, <2>2, <2>4, <1>1, CallStep
  <2>5. CASE Access
    BY <2>1, <2>2, <2>5, <1>1, AccessStep
  <2>6. CASE Return
    BY <2>1, <2>2, <2>6, <1>1, ReturnStep
  <2> QED BY <2>3, <2>4, <2>5, <2>6 DEF Step
<1> QED BY <1>2, <1>3

LEMMA InitBusInv == Init => BusInv
<1> SUFFICES ASSUME Init PROVE BusInv
  OBVIOUS
<1>1. /\ scl = 1 /\ sda = 1 /\ dir = 0 /\ wide \in Widths /\ device = Idle
      /\ regs \in [Registers -> Values] /\ taken = FALSE /\ stack = << >> /\ resets = 0 /\ since = SINCE
  BY DEF Init
<1>2. Idle = Device("idle", "device", 0, 0, FALSE, 0)
  BY DEF Idle, Device
<1>3. Idle \in DeviceTypes
  <2>1. "idle" \in Phases /\ "device" \in Wants /\ 0 \in Byte /\ 0 \in 0 .. 8 /\ FALSE \in BOOLEAN /\ 0 \in Nat
    BY DEF Phases, Wants, Byte
  <2> QED BY <2>1, <1>2, DeviceTyped, Zenon
<1>4. wide \in BOOLEAN /\ regs \in [Registers -> Byte]
  BY <1>1, I2cAssumption
<1>5. WireTypes
  <2>1. scl \in Bit /\ sda \in Bit /\ dir \in Bit
    BY <1>1 DEF Bit
  <2>2. device \in DeviceTypes /\ taken \in BOOLEAN
    BY <1>1, <1>3, Zenon
  <2> QED BY <2>1, <2>2, <1>4 DEF WireTypes, DeviceTypes
<1>6. Free
  BY <1>1, <1>2 DEF Free, Device
<1> QED BY <1>1, <1>5, <1>6 DEF BusInv

LEMMA ResetsCounted ==
  ASSUME resets \in Nat, [Next]_vars
  PROVE  resets' \in Nat /\ (resets' = 0 => resets = 0)
<1>1. CASE Reset
  BY <1>1 DEF Reset
<1>2. CASE Step
  BY <1>2 DEF Step, NextCall, Access, Return, faults
<1>3. ASSUME NEW r \in Requests, Invoke(r) PROVE resets' = resets
  BY <1>3 DEF Invoke, faults
<1>4. CASE UNCHANGED vars
  BY <1>4 DEF vars, faults
<1> QED BY <1>1, <1>2, <1>3, <1>4 DEF Next

(* What is not in the invariant may change.                                *)
LEMMA PositionStill ==
  ASSUME UNCHANGED <<ports, stack, taken>>, NEW r, NEW m, NEW ok, NEW byte, NEW data,
         At(r, m, ok, byte, data)
  PROVE  At(r, m, ok, byte, data)'
<1>1. /\ scl' = scl /\ sda' = sda /\ dir' = dir /\ wide' = wide /\ device' = device /\ regs' = regs
      /\ stack' = stack /\ taken' = taken /\ Untouched
  BY DEF ports, Untouched
<1>2. /\ Addresses' = Addresses /\ Length(r)' = Length(r) /\ Calls(r)' = Calls(r)
      /\ Acked(r, m)' = Acked(r, m) /\ Source(r, m)' = Source(r, m)
      /\ (IsStart(r, m)' <=> IsStart(r, m)) /\ (IsSend(r, m)' <=> IsSend(r, m))
      /\ (IsReceive(r, m)' <=> IsReceive(r, m))
  BY <1>1, Static
<1>3. /\ SentAt(r, m)' = SentAt(r, m) /\ WantAt(r, m)' = WantAt(r, m)
      /\ WantAt(r, m - 1)' = WantAt(r, m - 1)
      /\ \A p : (PointerOK(r, m, p)' <=> PointerOK(r, m, p))
                /\ (PointerOK(r, m - 1, p)' <=> PointerOK(r, m - 1, p))
  BY <1>1, Static
<1>4. ASSUME NEW ops, Doing(r, m, ops, ok, byte, data) PROVE Doing(r, m, ops, ok, byte, data)'
  BY <1>1, <1>2, <1>4 DEF Doing
<1>5. Result(r, m, ok, data) => Result(r, m, ok, data)'
  BY <1>1, ResultStill
<1>6. Ready(r, m) => Ready(r, m)'
  BY <1>1, ReadyStill
<1>7. (Rested => Rested') /\ (Free => Free')
  BY <1>1 DEF Rested, Free
<1>8. Between(r, m, ok, byte, data) => Between(r, m, ok, byte, data)'
  BY <1>1, <1>2, <1>4, <1>5, <1>6, <1>7 DEF Between
<1>9. ASSUME NEW k \in 0 .. 4, Starting(r, m, k, ok, byte, data)
      PROVE  Starting(r, m, k, ok, byte, data)'
  BY <1>1, <1>2, <1>3, <1>4, <1>5, <1>7, <1>9 DEF Starting
<1>10. ASSUME NEW k \in 0 .. 3, Stopping(r, m, k, ok, byte, data)
       PROVE  Stopping(r, m, k, ok, byte, data)'
  BY <1>1, <1>2, <1>4, <1>5, <1>7, <1>10 DEF Stopping
<1>11. ASSUME NEW n, Shifted(r, m, n) PROVE Shifted(r, m, n)'
  BY <1>1, <1>3, <1>11 DEF Shifted
<1>12. ASSUME NEW n \in 0 .. 7, NEW j \in 0 .. 3, WriteBit(r, m, n, j, ok, byte, data)
       PROVE  WriteBit(r, m, n, j, ok, byte, data)'
  <2>1. PICK b : b = SentAt(r, m)
    OBVIOUS
  <2>2. b = SentAt(r, m)'
    BY <2>1, <1>3
  <2>3. Doing(r, m, Drop(i2c_write(b), 4 * n + j), ok, byte, data)' /\ Shifted(r, m, n)'
    BY <2>1, <1>4, <1>11, <1>12 DEF WriteBit
  <2>4. /\ IsSend(r, m) /\ ok /\ data = << >> /\ ~taken
        /\ scl = (IF j = 0 /\ n > 0 THEN 1 ELSE 0)
        /\ n > 0 \/ j > 0 => dir = 1
        /\ j = 3 => sda = BitOf(b, n + 1)
    BY <2>1, <1>12 DEF WriteBit
  <2>5. /\ IsSend(r, m)' /\ ~taken' /\ scl' = (IF j = 0 /\ n > 0 THEN 1 ELSE 0)
        /\ n > 0 \/ j > 0 => dir' = 1
        /\ j = 3 => sda' = BitOf(b, n + 1)
    BY <2>4, <1>1, <1>2
  <2> QED BY <2>2, <2>3, <2>4, <2>5, Zenon DEF WriteBit
<1>13. Answered(r, m) => Answered(r, m)'
  BY <1>1, AnsweredStill
<1>14. ASSUME NEW k \in 32 .. 36, WriteEnd(r, m, k, ok, byte, data)
       PROVE  WriteEnd(r, m, k, ok, byte, data)'
  BY <1>1, <1>2, <1>3, <1>4, <1>11, <1>13, <1>14 DEF WriteEnd
<1>15. ASSUME NEW k, Reading(r, m, k, ok, byte, data) PROVE Reading(r, m, k, ok, byte, data)'
  <2>1. Result(r, m - 1, TRUE, data) => Result(r, m - 1, TRUE, data)'
    BY <1>1, ResultStill
  <2> QED BY <2>1, <1>2, <1>4, <1>15 DEF Reading
<1>16. ASSUME NEW n, Sends(n) PROVE Sends(n)'
  BY <1>1, <1>16 DEF Sends
<1>17. ASSUME NEW k \in 0 .. 1, ReadStart(r, m, k, ok, byte, data)
       PROVE  ReadStart(r, m, k, ok, byte, data)'
  BY <1>1, <1>2, <1>15, <1>16, <1>17 DEF ReadStart
<1>18. ASSUME NEW n \in 0 .. 7, NEW j \in 0 .. 2, ReadBit(r, m, n, j, ok, byte, data)
       PROVE  ReadBit(r, m, n, j, ok, byte, data)'
  BY <1>1, <1>2, <1>15, <1>16, <1>18 DEF ReadBit
<1>19. ASSUME NEW k \in 26 .. 32, ReadEnd(r, m, k, ok, byte, data)
       PROVE  ReadEnd(r, m, k, ok, byte, data)'
  BY <1>1, <1>2, <1>6, <1>15, <1>19 DEF ReadEnd
<1> QED
  BY <1>8, <1>9, <1>10, <1>12, <1>14, <1>17, <1>18, <1>19, Zenon DEF At

LEMMA BusyStill ==
  ASSUME UNCHANGED <<ports, stack, taken>>, NEW r, Busy(r)
  PROVE  Busy(r)'
<1>1. RequestOK(r)' /\ Length(r)' = Length(r)
  BY Static DEF Busy, ports
<1>2. PICK m \in 0 .. Length(r) : \E ok, byte, data : At(r, m, ok, byte, data)
  BY DEF Busy
<1>3. PICK ok, byte, data : At(r, m, ok, byte, data)
  BY <1>2
<1>4. At(r, m, ok, byte, data)'
  BY <1>3, PositionStill
<1> QED BY <1>1, <1>2, <1>4 DEF Busy

LEMMA NextBusInv ==
  ASSUME ~Interruptible, LENGTH > 0
  PROVE  BusInv /\ [Next]_vars => BusInv'
<1> SUFFICES ASSUME BusInv, [Next]_vars PROVE BusInv'
  OBVIOUS
<1>1. resets' \in Nat /\ (resets' = 0 => resets = 0)
  BY ResetsCounted DEF BusInv
<1> SUFFICES ASSUME resets' = 0
             PROVE  WireTypes' /\ since' = SINCE /\ ((stack' = << >> /\ Free') \/ \E r : Busy(r)')
  BY <1>1 DEF BusInv, SINCE
<1>2. resets = 0 /\ since = SINCE
  BY <1>1 DEF BusInv
<1>3. CASE Next
  BY <1>2, <1>3, StepCases DEF Begins, Progress, Finished, Kept
<1>4. CASE UNCHANGED vars
  <2>1. WireTypes /\ ((stack = << >> /\ Free) \/ \E r : Busy(r))
    BY <1>2 DEF BusInv
  <2>2. UNCHANGED <<ports, stack, taken>> /\ since' = since
    BY <1>4 DEF vars, faults
  <2>3. WireTypes' /\ (stack = << >> /\ Free => stack' = << >> /\ Free')
    BY <2>1, <2>2 DEF ports, WireTypes, Free
  <2> QED BY <2>1, <2>2, <2>3, <1>2, BusyStill
<1> QED BY <1>3, <1>4

(* As long as no reset has hit the bus and no handler cuts in, every state *)
(* of every transaction of i2c.c is one of the places above, whatever the  *)
(* device acknowledges: for any device address, any registers, any values, *)
(* both widths and any number of registers read.                           *)
THEOREM BusInvariant ==
  ASSUME ~Interruptible, LENGTH > 0
  PROVE  Spec => []BusInv
<1>1. Init => BusInv
  BY InitBusInv
<1>2. BusInv /\ [Next]_vars => BusInv'
  BY NextBusInv
<1> QED BY <1>1, <1>2, PTL DEF Spec

(* Until the first reset the bus is free whenever no transaction is under  *)
(* way, also after a byte that was not acknowledged: each function of      *)
(* i2c.c (17-171) ends in an i2c_stop that the device sees.                *)
THEOREM BusIsReleased ==
  ASSUME ~Interruptible, LENGTH > 0
  PROVE  Spec => [](resets = 0 => BusReleased)
<1>1. BusInv => (resets = 0 => BusReleased)
  <2> SUFFICES ASSUME BusInv, resets = 0 PROVE BusReleased
    OBVIOUS
  <2>1. WireTypes /\ ((stack = << >> /\ Free) \/ \E r : Busy(r))
    BY DEF BusInv
  <2>2. /\ device.bits \in Byte /\ device.count \in 0 .. 8 /\ device.pull \in BOOLEAN
    BY <2>1, WiredDevice
  <2>3. Len(stack) \in 0 .. 2 /\ \A i \in DOMAIN stack : stack[i].byte \in Byte
    <3>1. CASE stack = << >>
      BY <3>1
    <3>2. ASSUME NEW r, Busy(r)
          PROVE  Len(stack) \in 0 .. 2 /\ \A i \in DOMAIN stack : stack[i].byte \in Byte
      <4>1. stack[1].byte \in Byte /\ Len(stack) = 1 /\ DOMAIN stack = {1}
        BY <3>2, <2>1, BusyIs
      <4> QED BY <4>1
    <3> QED BY <3>1, <3>2, <2>1
  <2>4. TypeOK
    BY <2>1, <2>2, <2>3 DEF TypeOK, WireTypes, Bit
  <2>5. stack = << >> => scl = 1 /\ sda_wire = 1 /\ device.phase = "idle"
    <3>1. stack = << >> => Free
      BY <2>1, BusyIs
    <3>2. Free => sda_wire = 1
      BY DEF Free, sda_wire, Wire
    <3> QED BY <3>1, <3>2 DEF Free
  <2> QED BY <2>4, <2>5 DEF BusReleased
<1>2. Spec => []BusInv
  BY BusInvariant
<1> QED BY <1>1, <1>2, PTL

(* "assume SCL = 0" (i2c.c 194, 213, 251): without an interrupting         *)
(* transaction, and until the first reset, every call but a START finds    *)
(* the clock low.  With one it does not: the run i2c_interrupted.          *)
THEOREM ClockIsLow ==
  ASSUME ~Interruptible, LENGTH > 0
  PROVE  Spec => [](resets = 0 => EntryClockLow)
<1>1. BusInv => (resets = 0 => EntryClockLow)
  <2> SUFFICES ASSUME BusInv, resets = 0, stack # << >>, Running, Top.ops = << >>, NEW call,
                      call = Head(Top.calls), call.f # "start"
               PROVE  scl = 0
    BY DEF EntryClockLow
  <2>1. PICK r : Busy(r)
    BY DEF BusInv
  <2>2. WireTypes /\ RequestOK(r)
    BY <2>1 DEF BusInv, Busy
  <2>3. PICK m \in 0 .. Length(r) : \E ok, byte, data : At(r, m, ok, byte, data)
    BY <2>1 DEF Busy
  <2>4. PICK ok, byte, data : At(r, m, ok, byte, data)
    BY <2>3
  <2>5. Between(r, m, ok, byte, data)
    BY <2>2, <2>4, AtIs, InCallIs
  <2>6. Top.calls = Drop(Calls(r), m)
    BY <2>5, DoingIs DEF Between
  <2>7. /\ Calls(r) \in Seq(AllCalls) /\ Len(Calls(r)) = Length(r) /\ Length(r) \in Nat
        /\ \A n \in 1 .. Length(r) : CallIs(r, n, Calls(r)[n])
    BY <2>2, CallsAre
  <2>8. m # Length(r)
    <3>1. Drop(Calls(r), Length(r)) = << >>
      BY <2>7, DropEnds
    <3> QED BY <3>1, <2>6 DEF Running
  <2>9. m # 0
    <3>1. ASSUME m = 0 PROVE FALSE
      <4>1. 1 \in 1 .. Length(r) /\ 0 < Length(r) /\ 0 \in Nat /\ 0 + 1 = 1
        BY <3>1, <2>7, <2>8
      <4>2. Head(Drop(Calls(r), 0)) = Calls(r)[0 + 1]
        BY <4>1, <2>7, DropIs
      <4>3. CallIs(r, 1, Calls(r)[1])
        BY <4>1, <2>7
      <4>4. Calls(r)[1] = Start
        BY <4>3, <4>1 DEF CallIs, IsStart
      <4> QED BY <4>1, <4>2, <4>4, <3>1, <2>6, CallFields
    <3> QED BY <3>1
  <2> QED BY <2>5, <2>8, <2>9 DEF Between
<1>2. Spec => []BusInv
  BY BusInvariant
<1> QED BY <1>1, <1>2, PTL

(* Until the first reset the transactions of i2c.c implement a register    *)
(* file: each begins alone, writes its register at most once, and returns  *)
(* what was written or read, all of it or nothing.                         *)
THEOREM ActsAsRegisterFile ==
  ASSUME ~Interruptible, LENGTH > 0
  PROVE  Spec => Registered!Init /\ [][resets' = 0 => Registered!Next]_(Registered!vars)
<1>1. Init => Registered!Init
  <2> SUFFICES ASSUME Init PROVE Registered!Init
    OBVIOUS
  <2>1. pending = {}
    BY DEF Init, pending
  <2>2. NoAnswer = Registered!NoAnswer
    BY DEF NoAnswer, Registered!NoAnswer
  <2> QED BY <2>1, <2>2 DEF Init, Registered!Init
<1>2. BusInv /\ [Next]_vars => [resets' = 0 => Registered!Next]_(Registered!vars)
  <2> SUFFICES ASSUME BusInv, [Next]_vars, resets' = 0, Registered!vars' # Registered!vars
               PROVE  Registered!Next
    OBVIOUS
  <2>1. Next
    BY DEF vars, ports, pending, Registered!vars
  <2>2. resets = 0 /\ WireTypes
    <3> QED BY ResetsCounted DEF BusInv
  <2>3. ASSUME NEW r \in Requests, Begins(r) PROVE Registered!Invoke(r)
    <3>1. pending = {}
      BY <2>3 DEF Begins, pending
    <3>2. pending' = {r}
      BY <2>3, BusyStays DEF Begins
    <3> QED BY <3>1, <3>2, <2>3 DEF Begins, Registered!Invoke, NoAnswer, Registered!NoAnswer
  <2>4. ASSUME NEW r \in Requests, Busy(r), Finished(r) PROVE Registered!Return(r)
    <3>1. pending = {r}
      BY <2>4, <2>2, BusyIs
    <3>2. pending' = {}
      BY <2>4 DEF Finished, pending
    <3> QED BY <3>1, <3>2, <2>4 DEF Finished, Registered!Return, NoAnswer, Registered!NoAnswer
  <2>5. ASSUME NEW r \in Requests, Busy(r), Progress(r) PROVE Registered!Apply(r)
    <3>1. pending = {r}
      BY <2>5, <2>2, BusyIs
    <3>2. pending' = {r}
      BY <2>5, BusyStays DEF Progress
    <3>3. ~Untouched
      BY <3>1, <3>2, <2>5 DEF Registered!vars, Progress, Kept, Untouched
    <3> QED BY <3>1, <3>2, <3>3, <2>5 DEF Progress, Applied, Kept, Registered!Apply
  <2> QED BY <2>1, <2>2, <2>3, <2>4, <2>5, StepCases DEF Registered!Next
<1>3. Spec => []BusInv
  BY BusInvariant
<1> QED BY <1>1, <1>2, <1>3, PTL DEF Spec
=============================================================================
