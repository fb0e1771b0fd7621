---------------------------- MODULE EdidProofs ----------------------------
(***************************************************************************)
(* edid.c for every list of valid monitors.  A monitor is written in 256   *)
(* bytes (EdidMonitor), adv7513_edid_read brings them, perhaps of two      *)
(* monitors and perhaps not all, edid_decode_v14 reads them into a struct  *)
(* that still has what an earlier call left, and edid_print_v14 prints it. *)
(* Proved: which mixed buffers pass the checksum, that a monitor is        *)
(* printed as it was meant, that the struct stays in its bounds, and that  *)
(* nothing of an older EDID is printed.                                    *)
(***************************************************************************)
EXTENDS EdidShapes, SequenceTheorems, WellFoundedInduction, TLAPS

(***************************************************************************)
(* Recursion.                                                              *)
(***************************************************************************)
LEMMA Least ==
  ASSUME NEW T, T \subseteq Nat, T # {}
  PROVE  \E n \in T : \A k \in T : n <= k
<1> DEFINE R == {ss \in Nat \X Nat : ss[1] < ss[2]}
<1>1. OpToRel(<, Nat) = R
  BY DEF OpToRel
<1>2. IsWellFoundedOn(R, Nat)
  BY <1>1, NatLessThanWellFounded
<1>3. PICK n \in T : \A k \in T : ~ (<<k, n>> \in R)
  <2> HIDE DEF R
  <2> QED BY <1>2, WFMin, Zenon
<1>4. ASSUME NEW k \in T PROVE n <= k
  <2>1. n \in Nat /\ k \in Nat /\ ~(<<k, n>> \in R)
    BY <1>3
  <2> QED BY <2>1
<1> QED BY <1>4

(* A set that has 0 and the successors of its elements has all the numbers *)
(* up to N.                                                                *)
LEMMA Induction ==
  ASSUME NEW N \in Nat, NEW T, 0 \in T, \A n \in 0 .. N - 1 : n \in T => n + 1 \in T
  PROVE  0 .. N \subseteq T
<1> DEFINE U == (0 .. N) \ T
<1> SUFFICES ASSUME U # {} PROVE FALSE
  OBVIOUS
<1>1. PICK n \in U : \A k \in U : n <= k
  <2>1. U \subseteq Nat
    OBVIOUS
  <2> HIDE DEF U
  <2> QED BY <2>1, Least
<1>2. n # 0 /\ n - 1 \in 0 .. N - 1 /\ n - 1 \notin U
  BY <1>1
<1> QED BY <1>2

(* A function that is defined from its value one before exists, and is in  *)
(* S if no step leaves S.                                                  *)
Steps(f, N, a, g) == f = [k \in 0 .. N |-> IF k = 0 THEN a ELSE g[k][f[k - 1]]]

(* The values that steps over S take stay in S.                            *)
LEMMA StepsStay ==
  ASSUME NEW S, NEW a \in S, NEW N \in Nat, NEW g \in [1 .. N -> [S -> S]], NEW f, Steps(f, N, a, g)
  PROVE  /\ f \in [0 .. N -> S] /\ f[0] = a
         /\ \A k \in 1 .. N : f[k] = g[k][f[k - 1]] /\ f[k - 1] \in S
<1>1. f[0] = a /\ \A k \in 1 .. N : f[k] = g[k][f[k - 1]]
  BY DEF Steps
<1> DEFINE T == {k \in 0 .. N : f[k] \in S}
<1>2. 0 \in T
  BY <1>1
<1>3. ASSUME NEW n \in 0 .. N - 1, n \in T PROVE n + 1 \in T
  <2>1. n + 1 \in 1 .. N /\ n + 1 - 1 = n /\ f[n] \in S
    BY <1>3
  <2>2. f[n + 1] = g[n + 1][f[n]]
    BY <1>1, <2>1
  <2> QED BY <2>1, <2>2
<1> HIDE DEF T
<1>4. 0 .. N \subseteq T
  BY <1>2, <1>3, Induction
<1>5. \A k \in 0 .. N : f[k] \in S
  BY <1>4 DEF T
<1>6. f = [k \in 0 .. N |-> f[k]]
  BY DEF Steps
<1>7. [k \in 0 .. N |-> f[k]] \in [0 .. N -> S]
  BY <1>5
<1>8. f \in [0 .. N -> S]
  BY <1>6, <1>7, Zenon
<1>9. ASSUME NEW k \in 1 .. N PROVE f[k] = g[k][f[k - 1]] /\ f[k - 1] \in S
  <2>1. k - 1 \in 0 .. N
    OBVIOUS
  <2> QED BY <2>1, <1>1, <1>5, Zenon
<1> QED BY <1>1, <1>8, <1>9, Zenon

(* There is such a function for every number of steps.                     *)
LEMMA StepsExist ==
  ASSUME NEW S, NEW a \in S, NEW N \in Nat, NEW g \in [1 .. N -> [S -> S]]
  PROVE  \E f \in [0 .. N -> S] : Steps(f, N, a, g)
<1> DEFINE Is(f, n) == f = [k \in 0 .. n |-> IF k = 0 THEN a ELSE g[k][f[k - 1]]]
           T == {n \in 0 .. N : \E f : Is(f, n)}
<1>1. 0 \in T
  <2>1. Is([k \in 0 .. 0 |-> a], 0)
    OBVIOUS
  <2>2. 0 \in 0 .. N
    OBVIOUS
  <2> HIDE DEF Is
  <2> QED BY <2>1, <2>2
<1>2. ASSUME NEW n \in 0 .. N - 1, n \in T PROVE n + 1 \in T
  <2>1. PICK f : Is(f, n)
    BY <1>2
  <2> DEFINE h == [k \in 0 .. n + 1 |-> IF k <= n THEN f[k] ELSE g[k][f[k - 1]]]
  <2>2. ASSUME NEW k \in 0 .. n + 1 PROVE h[k] = IF k = 0 THEN a ELSE g[k][h[k - 1]]
    <3>1. CASE k <= n
      <4>1. k \in 0 .. n /\ f[k] = (IF k = 0 THEN a ELSE g[k][f[k - 1]])
        BY <2>1, <3>1
      <4>2. k # 0 => k - 1 \in 0 .. n + 1 /\ k - 1 <= n
        BY <3>1
      <4> QED BY <4>1, <4>2, <3>1
    <3>2. CASE k = n + 1
      <4>1. k # 0 /\ ~(k <= n) /\ k - 1 \in 0 .. n + 1 /\ k - 1 <= n
        BY <3>2
      <4> QED BY <4>1
    <3> QED BY <3>1, <3>2
  <2>3. Is(h, n + 1) /\ n + 1 \in 0 .. N
    BY <2>2
  <2> HIDE DEF Is, h
  <2> QED BY <2>3
<1> HIDE DEF T
<1>3. N \in T
  <2>1. 0 .. N \subseteq T
    BY <1>1, <1>2, Induction
  <2> QED BY <2>1
<1>4. PICK f : Steps(f, N, a, g)
  BY <1>3 DEF T, Steps
<1> QED BY <1>4, StepsStay

(* Total adds up.                                                          *)
LEMMA LenIs ==
  ASSUME NEW S, NEW n \in Nat, NEW s \in [1 .. n -> S]
  PROVE  s \in Seq(S) /\ Len(s) = n /\ DOMAIN s = 1 .. n
BY LenProperties, SeqDef

IsSum(f, n, s) == f \in [0 .. n -> Int] /\ f[0] = 0 /\ \A k \in 1 .. n : f[k] = f[k - 1] + s[k]

(* The checksum's sum is the last of the sums of the first elements.       *)
LEMMA TotalIs ==
  ASSUME NEW n \in Nat, NEW s \in [1 .. n -> Int]
  PROVE  \E f : IsSum(f, n, s) /\ Total(s) = f[n]
<1> DEFINE sum[k \in 0 .. Len(s)] == IF k = 0 THEN 0 ELSE sum[k - 1] + s[k]
           g == [k \in 1 .. n |-> [x \in Int |-> x + s[k]]]
<1>1. Len(s) = n
  BY LenIs
<1>2. g \in [1 .. n -> [Int -> Int]]
  OBVIOUS
<1>3. PICK f \in [0 .. n -> Int] : Steps(f, n, 0, g)
  <2>1. 0 \in Int
    OBVIOUS
  <2> HIDE DEF g
  <2> QED BY <1>2, <2>1, StepsExist, Zenon
<1>4. f = [k \in 0 .. Len(s) |-> IF k = 0 THEN 0 ELSE f[k - 1] + s[k]]
  <2>1. \A k \in 0 .. n : k # 0 => g[k][f[k - 1]] = f[k - 1] + s[k]
    OBVIOUS
  <2> QED BY <1>3, <2>1, <1>1 DEF Steps
<1>5. sum = [k \in 0 .. Len(s) |-> IF k = 0 THEN 0 ELSE sum[k - 1] + s[k]]
  BY <1>4
<1>6. Total(s) = sum[n]
  BY <1>1 DEF Total
<1> HIDE DEF sum
<1>7. sum[0] = 0 /\ \A k \in 1 .. n : sum[k] = sum[k - 1] + s[k]
  BY <1>5, <1>1
<1> DEFINE T == {k \in 0 .. n : sum[k] \in Int}
<1>8. 0 .. n \subseteq T
  <2>1. 0 \in T
    BY <1>7
  <2>2. ASSUME NEW k \in 0 .. n - 1, k \in T PROVE k + 1 \in T
    <3>1. k + 1 \in 1 .. n /\ k + 1 - 1 = k
      OBVIOUS
    <3> QED BY <3>1, <2>2, <1>7
  <2> HIDE DEF T
  <2> QED BY <2>1, <2>2, Induction
<1>9. IsSum(sum, n, s)
  <2>1. sum = [k \in 0 .. n |-> sum[k]]
    BY <1>5, <1>1
  <2> QED BY <2>1, <1>7, <1>8 DEF IsSum
<1> QED BY <1>6, <1>9

(* One element more adds that element.                                     *)
LEMMA TotalStep ==
  ASSUME NEW n \in Nat, NEW s \in [1 .. n + 1 -> Int], NEW t \in [1 .. n -> Int],
         \A k \in 1 .. n : t[k] = s[k]
  PROVE  Total(s) = Total(t) + s[n + 1] /\ Total(t) \in Int
<1>1. PICK f : IsSum(f, n + 1, s) /\ Total(s) = f[n + 1]
  BY TotalIs
<1>2. PICK h : IsSum(h, n, t) /\ Total(t) = h[n]
  BY TotalIs
<1> DEFINE T == {k \in 0 .. n : f[k] = h[k]}
<1>3. 0 .. n \subseteq T
  <2>1. 0 \in T
    BY <1>1, <1>2 DEF IsSum
  <2>2. ASSUME NEW k \in 0 .. n - 1, k \in T PROVE k + 1 \in T
    <3>1. k + 1 \in 1 .. n /\ k + 1 \in 1 .. n + 1 /\ k + 1 - 1 = k
      OBVIOUS
    <3> QED BY <3>1, <2>2, <1>1, <1>2 DEF IsSum
  <2> HIDE DEF T
  <2> QED BY <2>1, <2>2, Induction
<1>4. n + 1 \in 1 .. n + 1 /\ n + 1 - 1 = n /\ n \in T
  BY <1>3
<1> QED BY <1>4, <1>1, <1>2 DEF IsSum

(* The sum of the differences is the difference of the sums.               *)
LEMMA TotalDiffers ==
  ASSUME NEW n \in Nat, NEW s \in [1 .. n -> Int], NEW t \in [1 .. n -> Int]
  PROVE  Total([k \in 1 .. n |-> s[k] - t[k]]) = Total(s) - Total(t)
<1> DEFINE d == [k \in 1 .. n |-> s[k] - t[k]]
<1>1. PICK f : IsSum(f, n, s) /\ Total(s) = f[n]
  BY TotalIs
<1>2. PICK h : IsSum(h, n, t) /\ Total(t) = h[n]
  BY TotalIs
<1>3. PICK e : IsSum(e, n, d) /\ Total(d) = e[n]
  <2>1. d \in [1 .. n -> Int]
    OBVIOUS
  <2> HIDE DEF d
  <2> QED BY <2>1, TotalIs
<1> DEFINE T == {k \in 0 .. n : e[k] = f[k] - h[k]}
<1>4. 0 .. n \subseteq T
  <2>1. 0 \in T
    BY <1>1, <1>2, <1>3 DEF IsSum
  <2>2. ASSUME NEW k \in 0 .. n - 1, k \in T PROVE k + 1 \in T
    <3>1. k + 1 \in 1 .. n /\ k + 1 - 1 = k /\ d[k + 1] = s[k + 1] - t[k + 1]
      OBVIOUS
    <3>2. e[k + 1] = e[k] + d[k + 1]
      BY <3>1, <1>3 DEF IsSum
    <3>3. f[k + 1] = f[k] + s[k + 1] /\ f[k] \in Int
      BY <3>1, <1>1 DEF IsSum
    <3>4. h[k + 1] = h[k] + t[k + 1] /\ h[k] \in Int
      BY <3>1, <1>2 DEF IsSum
    <3>5. e[k] = f[k] - h[k] /\ s[k + 1] \in Int /\ t[k + 1] \in Int
      BY <3>1, <2>2
    <3> QED BY <3>1, <3>2, <3>3, <3>4, <3>5
  <2> HIDE DEF T
  <2> QED BY <2>1, <2>2, Induction
<1>5. n \in T
  BY <1>4
<1> QED BY <1>5, <1>1, <1>2, <1>3

(***************************************************************************)
(* The bytes of a monitor are bytes.                                       *)
(***************************************************************************)
LEMMA Parts ==
  /\ \A x \in Nat : LowByte(x) \in Byte /\ HighPart(x) \in Nat /\ x = 256 * HighPart(x) + LowByte(x)
  /\ \A x \in Nat : x < 65536 => HighPart(x) \in Byte
  /\ \A x \in Nat : x < 4096 => HighPart(x) \in Nibble
  /\ \A x \in Nat : x < 1024 => HighPart(x) \in 0 .. 3
  /\ \A x, y \in Nibble : Nibbles(x, y) \in Byte
BY DEF LowByte, HighPart, Nibbles, Byte, Nibble

Field(t) ==
  /\ t.pixel_clock \in Nat /\ t.pixel_clock < 10000 * 65536 /\ t.pixel_clock % 10000 = 0 /\ t.pixel_clock > 0
  /\ t.width \in Nat /\ t.width < 4096 /\ t.h_blank \in Nat /\ t.h_blank < 4096
  /\ t.height \in Nat /\ t.height < 4096 /\ t.v_blank \in Nat /\ t.v_blank < 4096
  /\ t.h_fp \in Nat /\ t.h_fp < 1024 /\ t.h_sync \in Nat /\ t.h_sync < 1024
  /\ t.v_fp \in 0 .. 63 /\ t.v_sync \in 0 .. 63
  /\ t.h_size \in Nat /\ t.h_size < 4096 /\ t.v_size \in Nat /\ t.v_size < 4096
  /\ t.border_lr \in Byte /\ t.border_tb \in Byte /\ t.interlaced \in BOOLEAN /\ t.stereo = "none"
  /\ \E v \in {"vsync_p", "vsync_n"}, h \in {"hsync_p", "hsync_n"} : t.sync = {"separate", v, h}

(* The fields of a timing that an EDID can hold, each in the range of its  *)
(* bits.                                                                   *)
LEMMA TimingFields ==
  ASSUME NEW t, IsTiming(t)
  PROVE  /\ Field(t)
         /\ t = [pixel_clock |-> t.pixel_clock, width |-> t.width, h_blank |-> t.h_blank,
                 height |-> t.height, v_blank |-> t.v_blank, h_fp |-> t.h_fp, h_sync |-> t.h_sync,
                 v_fp |-> t.v_fp, v_sync |-> t.v_sync, h_size |-> t.h_size, v_size |-> t.v_size,
                 border_lr |-> t.border_lr, border_tb |-> t.border_tb, interlaced |-> t.interlaced,
                 stereo |-> t.stereo, sync |-> t.sync]
<1>1. t \in [pixel_clock : Nat, width : Below(4096), h_blank : Below(4096), height : Below(4096),
             v_blank : Below(4096), h_fp : Below(1024), h_sync : Below(1024), v_fp : 0 .. 63,
             v_sync : 0 .. 63, h_size : Below(4096), v_size : Below(4096), border_lr : Byte,
             border_tb : Byte, interlaced : BOOLEAN, stereo : {"none"},
             sync : {{"separate", v, h} : v \in {"vsync_p", "vsync_n"}, h \in {"hsync_p", "hsync_n"}}]
  BY DEF IsTiming
<1>2. /\ t.pixel_clock \in Nat /\ t.width \in Below(4096) /\ t.h_blank \in Below(4096)
      /\ t.height \in Below(4096) /\ t.v_blank \in Below(4096) /\ t.h_fp \in Below(1024)
      /\ t.h_sync \in Below(1024) /\ t.v_fp \in 0 .. 63 /\ t.v_sync \in 0 .. 63
      /\ t.h_size \in Below(4096) /\ t.v_size \in Below(4096) /\ t.border_lr \in Byte
      /\ t.border_tb \in Byte /\ t.interlaced \in BOOLEAN /\ t.stereo \in {"none"}
      /\ t.sync \in {{"separate", v, h} : v \in {"vsync_p", "vsync_n"}, h \in {"hsync_p", "hsync_n"}}
  BY <1>1
<1>3. t = [pixel_clock |-> t.pixel_clock, width |-> t.width, h_blank |-> t.h_blank,
           height |-> t.height, v_blank |-> t.v_blank, h_fp |-> t.h_fp, h_sync |-> t.h_sync,
           v_fp |-> t.v_fp, v_sync |-> t.v_sync, h_size |-> t.h_size, v_size |-> t.v_size,
           border_lr |-> t.border_lr, border_tb |-> t.border_tb, interlaced |-> t.interlaced,
           stereo |-> t.stereo, sync |-> t.sync]
  BY <1>1
<1>4. \E v \in {"vsync_p", "vsync_n"}, h \in {"hsync_p", "hsync_n"} : t.sync = {"separate", v, h}
  BY <1>2
<1>5. Field(t)
  BY <1>2, <1>4 DEF Field, Below, IsTiming
<1> QED BY <1>3, <1>5

(* A timing is written in 18 bytes.                                        *)
LEMMA TimingBytesAre ==
  ASSUME NEW t, IsTiming(t)
  PROVE  TimingBytes(t) \in [1 .. 18 -> Byte]
<1>1. Field(t)
  BY TimingFields
<1> DEFINE clock == t.pixel_clock \div 10000
<1>2. clock \in Nat /\ clock < 65536
  BY <1>1 DEF Field
<1>3. LowByte(clock) \in Byte /\ HighPart(clock) \in Byte
  BY <1>2, Parts
<1>4. /\ LowByte(t.width) \in Byte /\ LowByte(t.h_blank) \in Byte /\ Nibbles(HighPart(t.width), HighPart(t.h_blank)) \in Byte
      /\ LowByte(t.height) \in Byte /\ LowByte(t.v_blank) \in Byte /\ Nibbles(HighPart(t.height), HighPart(t.v_blank)) \in Byte
  BY <1>1, Parts DEF Field
<1>5. /\ LowByte(t.h_fp) \in Byte /\ LowByte(t.h_sync) \in Byte
      /\ LowByte(t.h_size) \in Byte /\ LowByte(t.v_size) \in Byte /\ Nibbles(HighPart(t.h_size), HighPart(t.v_size)) \in Byte
  BY <1>1, Parts DEF Field
<1>6. Nibbles(t.v_fp % 16, t.v_sync % 16) \in Byte
  <2>1. t.v_fp % 16 \in Nibble /\ t.v_sync % 16 \in Nibble
    BY <1>1 DEF Field, Nibble
  <2> QED BY <2>1, Parts
<1>7. 64 * HighPart(t.h_fp) + 16 * HighPart(t.h_sync) + 4 * (t.v_fp \div 16) + t.v_sync \div 16 \in Byte
  <2>1. HighPart(t.h_fp) \in 0 .. 3 /\ HighPart(t.h_sync) \in 0 .. 3
    BY <1>1, Parts DEF Field
  <2>2. t.v_fp \div 16 \in 0 .. 3 /\ t.v_sync \div 16 \in 0 .. 3
    BY <1>1 DEF Field
  <2> QED BY <2>1, <2>2 DEF Byte
<1>8. Flag(t.interlaced, 128) + 24 + Flag("vsync_p" \in t.sync, 4) + Flag("hsync_p" \in t.sync, 2) \in Byte
  BY DEF Flag, Byte
<1>9. t.border_lr \in Byte /\ t.border_tb \in Byte
  BY <1>1 DEF Field
<1> QED BY <1>3, <1>4, <1>5, <1>6, <1>7, <1>8, <1>9 DEF TimingBytes

(* c is s, of n elements, and then t, of k elements.                       *)
IsConcat(c, S, n, s, k, t) ==
  /\ c \in [1 .. n + k -> S]
  /\ \A j \in 1 .. n : c[j] = s[j]
  /\ \A j \in 1 .. k : c[n + j] = t[j]

(* Putting one sequence after another.                                     *)
LEMMA Concat ==
  ASSUME NEW S, NEW n \in Nat, NEW k \in Nat, NEW s \in [1 .. n -> S], NEW t \in [1 .. k -> S]
  PROVE  IsConcat(s \o t, S, n, s, k, t)
<1>1. s \in Seq(S) /\ t \in Seq(S) /\ Len(s) = n /\ Len(t) = k
  BY LenIs
<1>2. /\ Len(s \o t) = n + k /\ s \o t \in Seq(S)
      /\ \A j \in 1 .. n + k : (s \o t)[j] = IF j <= n THEN s[j] ELSE t[j - n]
  BY <1>1, ConcatProperties
<1>3. s \o t \in [1 .. n + k -> S]
  BY <1>2, LenProperties
<1> QED BY <1>2, <1>3 DEF IsConcat

(* Padding with zeros keeps what was there.                                *)
LEMMA PadBytes ==
  ASSUME NEW n \in Nat, NEW l \in 0 .. n, NEW s \in [1 .. l -> Byte]
  PROVE  /\ PadTo(n, s) \in [1 .. n -> Byte]
         /\ \A j \in 1 .. l : PadTo(n, s)[j] = s[j]
         /\ \A j \in l + 1 .. n : PadTo(n, s)[j] = 0
<1> DEFINE zeros == [j \in 1 .. n - l |-> 0]
<1>1. Len(s) = l /\ n - l \in Nat /\ l + (n - l) = n
  BY LenIs
<1>2. zeros \in [1 .. n - l -> Byte]
  BY DEF Byte
<1>3. PadTo(n, s) = s \o zeros
  BY <1>1 DEF PadTo
<1> HIDE DEF zeros
<1>4. /\ s \o zeros \in [1 .. l + (n - l) -> Byte] /\ \A j \in 1 .. l : (s \o zeros)[j] = s[j]
      /\ \A j \in 1 .. n - l : (s \o zeros)[l + j] = zeros[j]
  <2>1. l \in Nat
    OBVIOUS
  <2>2. IsConcat(s \o zeros, Byte, l, s, n - l, zeros)
    BY <2>1, <1>1, <1>2, Concat, Zenon
  <2> QED BY <2>2 DEF IsConcat
<1>5. ASSUME NEW j \in l + 1 .. n PROVE (s \o zeros)[j] = 0
  <2>1. j - l \in 1 .. n - l /\ l + (j - l) = j
    OBVIOUS
  <2>2. zeros[j - l] = 0
    BY <2>1 DEF zeros
  <2> QED BY <2>1, <2>2, <1>4
<1> QED BY <1>1, <1>3, <1>4, <1>5

(* What the 18 bytes of a text are.                                        *)
Line(x, u) ==
  \A k \in 1 .. 13 : x[5 + k] = IF k <= Len(u) THEN u[k] ELSE IF k = Len(u) + 1 THEN 10 ELSE 32

(* A text is written with its tag, ended by a line feed if it is short.    *)
LEMMA TextBytesAre ==
  ASSUME NEW tag \in Byte, NEW u, IsText(u)
  PROVE  /\ Len(u) \in 0 .. 13 /\ u \in [1 .. Len(u) -> Byte \ {0, 10}]
         /\ TextBytes(tag, u) \in [1 .. 18 -> Byte]
         /\ TextBytes(tag, u)[1] = 0 /\ TextBytes(tag, u)[2] = 0 /\ TextBytes(tag, u)[4] = tag
         /\ Line(TextBytes(tag, u), u)
<1> DEFINE n == Len(u)  spaces == [k \in 1 .. 13 |-> 32]  line == u \o <<10>> \o spaces
           head == <<0, 0, 0, tag, 0>>
<1>1. n \in 0 .. 13 /\ u \in [1 .. n -> Byte \ {0, 10}] /\ n \in Nat
  <2>1. u \in Seq(Byte \ {0, 10}) /\ Len(u) <= 13
    BY DEF IsText
  <2>2. Len(u) \in Nat /\ u \in [1 .. Len(u) -> Byte \ {0, 10}]
    BY <2>1, LenProperties, Zenon
  <2>3. \A x \in Nat : x <= 13 => x \in 0 .. 13
    OBVIOUS
  <2>4. Len(u) \in 0 .. 13
    BY <2>1, <2>2, <2>3, Zenon
  <2> QED BY <2>2, <2>4, Zenon
<1>2. u \in [1 .. n -> Byte] /\ <<10>> \in [1 .. 1 -> Byte] /\ spaces \in [1 .. 13 -> Byte] /\ head \in [1 .. 5 -> Byte]
  <2>1. <<10>> \in [1 .. 1 -> Byte] /\ spaces \in [1 .. 13 -> Byte]
    BY DEF Byte
  <2>2. head \in [1 .. 5 -> Byte]
    BY DEF Byte
  <2>3. u \in [1 .. n -> Byte]
    BY <1>1
  <2> QED BY <2>1, <2>2, <2>3
<1> HIDE DEF n
<1>3. /\ u \o <<10>> \in [1 .. n + 1 -> Byte]
      /\ \A k \in 1 .. n : (u \o <<10>>)[k] = u[k]
      /\ \A k \in 1 .. 1 : (u \o <<10>>)[n + k] = <<10>>[k]
  <2>1. IsConcat(u \o <<10>>, Byte, n, u, 1, <<10>>)
    BY <1>1, <1>2, Concat
  <2> QED BY <2>1 DEF IsConcat
<1>4. /\ line \in [1 .. (n + 1) + 13 -> Byte]
      /\ \A k \in 1 .. n + 1 : line[k] = (u \o <<10>>)[k]
      /\ \A k \in 1 .. 13 : line[n + 1 + k] = spaces[k]
  <2> HIDE DEF spaces
  <2>1. n + 1 \in Nat /\ 13 \in Nat
    BY <1>1
  <2>2. u \o <<10>> \in [1 .. n + 1 -> Byte]
    BY <1>3
  <2>3. IsConcat(line, Byte, n + 1, u \o <<10>>, 13, spaces)
    BY <2>1, <2>2, <1>2, Concat, Zenon
  <2> HIDE DEF line
  <2> QED BY <2>3 DEF IsConcat
<1>5. ASSUME NEW k \in 1 .. 13
      PROVE  line[k] = IF k <= n THEN u[k] ELSE IF k = n + 1 THEN 10 ELSE 32
  <2>1. CASE k <= n
    <3>1. k \in 1 .. n /\ k \in 1 .. n + 1
      BY <1>1, <2>1
    <3> HIDE DEF line
    <3> QED BY <3>1, <2>1, <1>3, <1>4
  <2>2. CASE k = n + 1
    <3>1. k \in 1 .. n + 1 /\ ~(k <= n) /\ (u \o <<10>>)[n + 1] = 10
      BY <1>1, <2>2, <1>3
    <3> HIDE DEF line
    <3> QED BY <3>1, <2>2, <1>4
  <2>3. CASE k > n + 1
    <3>1. k - (n + 1) \in 1 .. 13 /\ (n + 1) + (k - (n + 1)) = k
      BY <1>1, <2>3
    <3>2. spaces[k - (n + 1)] = 32
      BY <3>1
    <3>3. line[(n + 1) + (k - (n + 1))] = spaces[k - (n + 1)]
      <4> HIDE DEF line, spaces
      <4> QED BY <1>4, <3>1
    <3>4. line[k] = 32 /\ ~(k <= n) /\ k # n + 1
      <4> HIDE DEF line, spaces
      <4> QED BY <3>1, <3>2, <3>3, <2>3, <1>1
    <3> QED BY <3>4
  <2>4. k <= n \/ k = n + 1 \/ k > n + 1
    BY <1>1
  <2> QED BY <2>1, <2>2, <2>3, <2>4, Zenon
<1> HIDE DEF line
<1>6. /\ SubSeq(line, 1, 13) \in [1 .. 13 -> Byte]
      /\ \A k \in 1 .. 13 : SubSeq(line, 1, 13)[k] = line[k]
  <2>1. line \in Seq(Byte) /\ Len(line) = n + 1 + 13
    BY <1>1, <1>4, LenIs
  <2>2. /\ Len(SubSeq(line, 1, 13)) = 13 /\ SubSeq(line, 1, 13) \in Seq(Byte)
        /\ \A k \in 1 .. 13 : SubSeq(line, 1, 13)[k] = line[1 + k - 1]
    BY <2>1, <1>1, SubSeqProperties
  <2>3. SubSeq(line, 1, 13) \in [1 .. 13 -> Byte]
    BY <2>2, LenProperties
  <2> QED BY <2>2, <2>3
<1> DEFINE text == SubSeq(line, 1, 13)
<1>7. TextBytes(tag, u) = head \o text
  BY DEF TextBytes, line
<1>8. head[1] = 0 /\ head[2] = 0 /\ head[4] = tag
  OBVIOUS
<1> HIDE DEF head, text
<1>9. /\ head \o text \in [1 .. 5 + 13 -> Byte]
      /\ \A k \in 1 .. 5 : (head \o text)[k] = head[k]
      /\ \A k \in 1 .. 13 : (head \o text)[5 + k] = text[k]
  <2>1. 5 \in Nat /\ 13 \in Nat /\ text \in [1 .. 13 -> Byte]
    BY <1>6 DEF text
  <2>2. IsConcat(head \o text, Byte, 5, head, 13, text)
    BY <2>1, <1>2, Concat, Zenon
  <2> QED BY <2>2 DEF IsConcat
<1>10. head \o text \in [1 .. 18 -> Byte]
  <2>1. 5 + 13 = 18
    OBVIOUS
  <2> QED BY <2>1, <1>9, Zenon
<1>11. ASSUME NEW k \in 1 .. 13
       PROVE  (head \o text)[5 + k] = IF k <= n THEN u[k] ELSE IF k = n + 1 THEN 10 ELSE 32
  <2>1. text[k] = line[k]
    BY <1>6 DEF text
  <2> QED BY <2>1, <1>5, <1>9, Zenon
<1>12. (head \o text)[1] = 0 /\ (head \o text)[2] = 0 /\ (head \o text)[4] = tag
  <2>1. 1 \in 1 .. 5 /\ 2 \in 1 .. 5 /\ 4 \in 1 .. 5
    OBVIOUS
  <2> QED BY <2>1, <1>8, <1>9, Zenon
<1>13. Line(head \o text, u)
  BY <1>11, Zenon DEF Line, n
<1> QED BY <1>1, <1>7, <1>10, <1>12, <1>13, Zenon DEF n

IsConcat3(x, S, a, h, b, m, c, t) ==
  /\ x \in [1 .. a + b + c -> S]
  /\ \A j \in 1 .. a : x[j] = h[j]
  /\ \A j \in 1 .. b : x[a + j] = m[j]
  /\ \A j \in 1 .. c : x[a + b + j] = t[j]

(* Three sequences, one after another.                                     *)
LEMMA Concat3 ==
  ASSUME NEW S, NEW a \in Nat, NEW b \in Nat, NEW c \in Nat,
         NEW h \in [1 .. a -> S], NEW m \in [1 .. b -> S], NEW t \in [1 .. c -> S]
  PROVE  IsConcat3(h \o m \o t, S, a, h, b, m, c, t)
<1>1. IsConcat(h \o m, S, a, h, b, m)
  BY Concat
<1>2. h \o m \in [1 .. a + b -> S] /\ a + b \in Nat
  BY <1>1 DEF IsConcat
<1>3. IsConcat((h \o m) \o t, S, a + b, h \o m, c, t)
  BY <1>2, Concat, Zenon
<1> DEFINE x == h \o m \o t
<1>4. x \in [1 .. a + b + c -> S] /\ \A j \in 1 .. c : x[a + b + j] = t[j]
  BY <1>3 DEF IsConcat
<1>5. \A j \in 1 .. a + b : x[j] = (h \o m)[j]
  BY <1>3 DEF IsConcat
<1> HIDE DEF x
<1>6. ASSUME NEW j \in 1 .. a PROVE x[j] = h[j]
  <2>1. j \in 1 .. a + b
    OBVIOUS
  <2>2. (h \o m)[j] = h[j]
    BY <1>1 DEF IsConcat
  <2> QED BY <2>1, <2>2, <1>5
<1>7. ASSUME NEW j \in 1 .. b PROVE x[a + j] = m[j]
  <2>1. a + j \in 1 .. a + b
    OBVIOUS
  <2>2. (h \o m)[a + j] = m[j]
    BY <1>1 DEF IsConcat
  <2> QED BY <2>1, <2>2, <1>5
<1> QED BY <1>4, <1>6, <1>7 DEF IsConcat3, x

Cut(x) == IF Above(x) THEN x - 255 ELSE x
(* The bytes of a range limits descriptor, its offsets in the fifth.       *)
LEMMA LimitBytesAre ==
  ASSUME NEW l, IsLimits(l)
  PROVE  /\ LimitBytes(l) \in [1 .. 18 -> Byte]
         /\ LimitBytes(l)[1] = 0 /\ LimitBytes(l)[2] = 0 /\ LimitBytes(l)[4] = \hfd
         /\ LimitBytes(l)[5] = Flag(Above(l.v_max), 2) + Flag(Above(l.v_min), 1)
                                 + Flag(Above(l.h_max), 8) + Flag(Above(l.h_min), 4)
         /\ LimitBytes(l)[6] = Cut(l.v_min) /\ LimitBytes(l)[7] = Cut(l.v_max)
         /\ LimitBytes(l)[8] = Cut(l.h_min) /\ LimitBytes(l)[9] = Cut(l.h_max)
         /\ LimitBytes(l)[10] = l.p_max \div 10 /\ LimitBytes(l)[11] = 1
         /\ Cut(l.v_min) \in Byte /\ Cut(l.v_max) \in Byte /\ Cut(l.h_min) \in Byte /\ Cut(l.h_max) \in Byte
<1> DEFINE flags == Flag(Above(l.v_max), 2) + Flag(Above(l.v_min), 1) + Flag(Above(l.h_max), 8) + Flag(Above(l.h_min), 4)
           head == <<0, 0, 0, \hfd, flags>>
           rates == [k \in 1 .. 4 |-> LET x == <<l.v_min, l.v_max, l.h_min, l.h_max>>[k] IN
                                      IF Above(x) THEN x - 255 ELSE x]
           tail == <<l.p_max \div 10, 1, 10, 32, 32, 32, 32, 32, 32>>
<1>1. /\ l.v_min \in Nat /\ l.v_min < 511 /\ l.v_max \in Nat /\ l.v_max < 511
      /\ l.h_min \in Nat /\ l.h_min < 511 /\ l.h_max \in Nat /\ l.h_max < 511
      /\ l.p_max \in Nat /\ l.p_max < 2551
  BY DEF IsLimits, Below
<1>2. flags \in Byte
  BY DEF Flag, Byte
<1>3. head \in [1 .. 5 -> Byte] /\ head[1] = 0 /\ head[2] = 0 /\ head[4] = \hfd /\ head[5] = flags
  <2> HIDE DEF flags
  <2>1. 0 \in Byte /\ \hfd \in Byte
    BY DEF Byte
  <2> QED BY <1>2, <2>1
<1>4. rates[1] = Cut(l.v_min) /\ rates[2] = Cut(l.v_max) /\ rates[3] = Cut(l.h_min) /\ rates[4] = Cut(l.h_max)
  BY DEF Cut
<1>5. Cut(l.v_min) \in Byte /\ Cut(l.v_max) \in Byte /\ Cut(l.h_min) \in Byte /\ Cut(l.h_max) \in Byte
  <2>1. \A x \in Nat : x < 511 => Cut(x) \in Byte
    BY DEF Cut, Byte, Above
  <2> QED BY <1>1, <2>1
<1>6. rates \in [1 .. 4 -> Byte]
  <2>1. rates = [k \in 1 .. 4 |-> rates[k]]
    OBVIOUS
  <2>2. \A k \in 1 .. 4 : rates[k] \in Byte
    <3> HIDE DEF rates
    <3> QED BY <1>4, <1>5
  <2> HIDE DEF rates
  <2> QED BY <2>1, <2>2
<1>7. tail \in [1 .. 9 -> Byte] /\ tail[1] = l.p_max \div 10 /\ tail[2] = 1
  <2>1. l.p_max \div 10 \in Byte /\ 1 \in Byte /\ 10 \in Byte /\ 32 \in Byte
    BY <1>1 DEF Byte
  <2> QED BY <2>1
<1>8. LimitBytes(l) = head \o rates \o tail
  BY DEF LimitBytes
<1> HIDE DEF head, rates, tail, flags
<1>9. IsConcat3(LimitBytes(l), Byte, 5, head, 4, rates, 9, tail)
  <2>1. 5 \in Nat /\ 4 \in Nat /\ 9 \in Nat
    OBVIOUS
  <2>2. IsConcat3(head \o rates \o tail, Byte, 5, head, 4, rates, 9, tail)
    <3>1. head \in [1 .. 5 -> Byte] /\ rates \in [1 .. 4 -> Byte] /\ tail \in [1 .. 9 -> Byte]
      BY <1>3, <1>6, <1>7
    <3> QED BY <2>1, <3>1, Concat3, Zenon
  <2> QED BY <2>2, <1>8, Zenon
<1>10. LimitBytes(l) \in [1 .. 18 -> Byte]
  BY <1>9 DEF IsConcat3
<1>11. \A k \in 1 .. 5 : LimitBytes(l)[k] = head[k]
  BY <1>9 DEF IsConcat3
<1>12. \A k \in 1 .. 4 : LimitBytes(l)[5 + k] = rates[k]
  BY <1>9 DEF IsConcat3
<1>13. \A k \in 1 .. 9 : LimitBytes(l)[9 + k] = tail[k]
  BY <1>9 DEF IsConcat3
<1>14. LimitBytes(l)[1] = 0 /\ LimitBytes(l)[2] = 0 /\ LimitBytes(l)[4] = \hfd /\ LimitBytes(l)[5] = flags
  BY <1>3, <1>11
<1>15. /\ LimitBytes(l)[6] = Cut(l.v_min) /\ LimitBytes(l)[7] = Cut(l.v_max)
       /\ LimitBytes(l)[8] = Cut(l.h_min) /\ LimitBytes(l)[9] = Cut(l.h_max)
  BY <1>4, <1>12
<1>16. LimitBytes(l)[10] = l.p_max \div 10 /\ LimitBytes(l)[11] = 1
  BY <1>7, <1>13
<1> QED BY <1>5, <1>10, <1>14, <1>15, <1>16 DEF flags

(* A set of bits is written eight to a byte.                               *)
LEMMA BitBytesAre ==
  ASSUME NEW set, NEW n \in Nat
  PROVE  BitBytes(n, set) \in [1 .. n -> Byte] /\ \A k \in 1 .. n : BitBytes(n, set)[k] = BitByte(set, 8 * (k - 1))
<1>1. \A k : BitByte(set, k) \in Byte
  BY DEF BitByte, Flag, Byte
<1> QED BY <1>1 DEF BitBytes

(* A table of n modes, of two bytes each.                                  *)
Code(modes, k) ==
  IF k > Len(modes) THEN <<1, 1>>
  ELSE <<modes[k].horizontal \div 8 - 31, 64 * modes[k].aspect_ratio + modes[k].refresh_rate - 60>>

(* Standard timings are written two bytes each, and their fields are in    *)
(* range.                                                                  *)
LEMMA ModeBytesAre ==
  ASSUME NEW n \in Nat, NEW modes, AreModes(n, modes)
  PROVE  /\ ModeBytes(n, modes) \in [1 .. n * 2 -> Byte]
         /\ \A k \in 1 .. n : /\ ModeBytes(n, modes)[2 * k - 1] = Code(modes, k)[1]
                              /\ ModeBytes(n, modes)[2 * k] = Code(modes, k)[2]
         /\ Len(modes) \in 0 .. n
         /\ \A k \in 1 .. n : k <= Len(modes) =>
              /\ modes[k].horizontal \in {8 * h : h \in 32 .. 286} /\ modes[k].aspect_ratio \in 0 .. 3
              /\ modes[k].refresh_rate \in 60 .. 123
              /\ modes[k] = [horizontal |-> modes[k].horizontal, aspect_ratio |-> modes[k].aspect_ratio,
                             refresh_rate |-> modes[k].refresh_rate]
<1> DEFINE Modes == [horizontal : {8 * h : h \in 32 .. 286}, aspect_ratio : 0 .. 3, refresh_rate : 60 .. 123]
<1>1. modes \in Seq(Modes) /\ Len(modes) <= n
  BY DEF AreModes
<1>2. Len(modes) \in Nat /\ modes \in [1 .. Len(modes) -> Modes]
  <2> HIDE DEF Modes
  <2> QED BY <1>1, LenProperties
<1>3. ASSUME NEW k \in 1 .. n, k <= Len(modes)
      PROVE  /\ modes[k].horizontal \in {8 * h : h \in 32 .. 286} /\ modes[k].aspect_ratio \in 0 .. 3
             /\ modes[k].refresh_rate \in 60 .. 123
             /\ modes[k] = [horizontal |-> modes[k].horizontal, aspect_ratio |-> modes[k].aspect_ratio,
                            refresh_rate |-> modes[k].refresh_rate]
  <2>1. modes[k] \in Modes
    <3> HIDE DEF Modes
    <3> QED BY <1>2, <1>3
  <2> QED BY <2>1
<1>4. ASSUME NEW k \in 1 .. n PROVE Code(modes, k)[1] \in Byte /\ Code(modes, k)[2] \in Byte
  <2>1. CASE k > Len(modes)
    BY <2>1 DEF Code, Byte
  <2>2. CASE ~(k > Len(modes))
    <3>1. k <= Len(modes)
      BY <1>2, <2>2
    <3>2. PICK h \in 32 .. 286 : modes[k].horizontal = 8 * h
      BY <1>3, <3>1
    <3>3. modes[k].horizontal \div 8 - 31 \in Byte
      BY <3>2 DEF Byte
    <3>4. 64 * modes[k].aspect_ratio + modes[k].refresh_rate - 60 \in Byte
      <4>1. \A x \in 0 .. 3, y \in 60 .. 123 : 64 * x + y - 60 \in Byte
        BY DEF Byte
      <4> QED BY <1>3, <3>1, <4>1, Zenon
    <3> QED BY <2>2, <3>3, <3>4 DEF Code
  <2> QED BY <2>1, <2>2
<1> HIDE DEF Modes
<1>5. ModeBytes(n, modes) = [k \in 1 .. n * 2 |-> Code(modes, (k - 1) \div 2 + 1)[((k - 1) % 2) + 1]]
  BY DEF ModeBytes, Rows, Code
<1>6. ASSUME NEW k \in 1 .. n
      PROVE  /\ ModeBytes(n, modes)[2 * k - 1] = Code(modes, k)[1]
             /\ ModeBytes(n, modes)[2 * k] = Code(modes, k)[2]
  <2>1. 2 * k - 1 \in 1 .. n * 2 /\ (2 * k - 1 - 1) \div 2 + 1 = k /\ ((2 * k - 1 - 1) % 2) + 1 = 1
    OBVIOUS
  <2>2. 2 * k \in 1 .. n * 2 /\ (2 * k - 1) \div 2 + 1 = k /\ ((2 * k - 1) % 2) + 1 = 2
    OBVIOUS
  <2> QED BY <2>1, <2>2, <1>5
<1>7. ModeBytes(n, modes) \in [1 .. n * 2 -> Byte]
  <2>1. ASSUME NEW k \in 1 .. n * 2
        PROVE  Code(modes, (k - 1) \div 2 + 1)[((k - 1) % 2) + 1] \in Byte
    <3>1. (k - 1) \div 2 + 1 \in 1 .. n /\ ((k - 1) % 2) + 1 \in 1 .. 2
      OBVIOUS
    <3> QED BY <3>1, <1>4
  <2> QED BY <2>1, <1>5
<1> QED BY <1>1, <1>2, <1>3, <1>6, <1>7

(* A white point is written in five bytes.                                 *)
LEMMA PointBytesAre ==
  ASSUME NEW q \in Points
  PROVE  /\ PointBytes(q) \in [1 .. 5 -> Byte]
         /\ q.index \in Byte /\ q.x \in Nat /\ q.x < 1024 /\ q.y \in Nat /\ q.y < 1024
         /\ q.gamma \in Nat /\ q.gamma < 355 /\ q.gamma >= 100
         /\ q = [index |-> q.index, x |-> q.x, y |-> q.y, gamma |-> q.gamma]
<1>1. /\ q.index \in Byte /\ q.x \in Nat /\ q.x < 1024 /\ q.y \in Nat /\ q.y < 1024
      /\ q.gamma \in Nat /\ q.gamma < 355 /\ q.gamma >= 100
  BY DEF Points, Below
<1>2. q = [index |-> q.index, x |-> q.x, y |-> q.y, gamma |-> q.gamma]
  BY DEF Points
<1>3. Nibbles(0, 4 * (q.x % 4) + (q.y % 4)) \in Byte
  BY <1>1 DEF Nibbles, Byte
<1>4. q.x \div 4 \in Byte /\ q.y \div 4 \in Byte /\ q.gamma - 100 \in Byte
  BY <1>1 DEF Byte
<1> QED BY <1>1, <1>2, <1>3, <1>4 DEF PointBytes

(* A colour point descriptor has two white points.                         *)
LEMMA ColorBytesAre ==
  ASSUME NEW d, d.kind = "color", d.u \in [1 .. 2 -> Points]
  PROVE  /\ DescriptorBytes(d) \in [1 .. 18 -> Byte]
         /\ DescriptorBytes(d)[1] = 0 /\ DescriptorBytes(d)[2] = 0 /\ DescriptorBytes(d)[4] = \hfb
         /\ \A k \in 1 .. 5 : /\ DescriptorBytes(d)[5 + k] = PointBytes(d.u[1])[k]
                              /\ DescriptorBytes(d)[10 + k] = PointBytes(d.u[2])[k]
<1> DEFINE head == <<0, 0, 0, \hfb, 0>>  tail == <<10, 32, 32>>
           one == PointBytes(d.u[1])  two == PointBytes(d.u[2])
           bytes == head \o one \o two \o tail
<1>1. DescriptorBytes(d) = bytes
  BY DEF DescriptorBytes
<1>2. head \in [1 .. 5 -> Byte] /\ tail \in [1 .. 3 -> Byte] /\ head[1] = 0 /\ head[2] = 0 /\ head[4] = \hfb
  BY DEF Byte
<1>3. one \in [1 .. 5 -> Byte] /\ two \in [1 .. 5 -> Byte]
  BY PointBytesAre
<1> HIDE DEF head, tail, one, two
<1>4. IsConcat3(head \o one \o two, Byte, 5, head, 5, one, 5, two)
  <2>1. head \in [1 .. 5 -> Byte] /\ 5 \in Nat
    BY <1>2
  <2> QED BY <2>1, <1>3, Concat3, Zenon
<1>5. IsConcat(bytes, Byte, 15, head \o one \o two, 3, tail)
  <2>1. head \o one \o two \in [1 .. 15 -> Byte] /\ tail \in [1 .. 3 -> Byte] /\ 3 \in Nat /\ 15 \in Nat
    BY <1>2, <1>4 DEF IsConcat3
  <2> QED BY <2>1, Concat, Zenon
<1> HIDE DEF bytes
<1>6. bytes \in [1 .. 18 -> Byte]
  BY <1>5 DEF IsConcat
<1>7. \A k \in 1 .. 15 : bytes[k] = (head \o one \o two)[k]
  BY <1>5 DEF IsConcat
<1>8. ASSUME NEW k \in 1 .. 5
      PROVE  bytes[k] = head[k] /\ bytes[5 + k] = one[k] /\ bytes[10 + k] = two[k]
  <2>1. k \in 1 .. 15 /\ 5 + k \in 1 .. 15 /\ 10 + k \in 1 .. 15 /\ 5 + 5 + k = 10 + k
    OBVIOUS
  <2>2. /\ (head \o one \o two)[k] = head[k] /\ (head \o one \o two)[5 + k] = one[k]
        /\ (head \o one \o two)[5 + 5 + k] = two[k]
    BY <1>4 DEF IsConcat3
  <2> QED BY <2>1, <2>2, <1>7
<1>9. bytes[1] = 0 /\ bytes[2] = 0 /\ bytes[4] = \hfb
  BY <1>2, <1>8
<1>10. DescriptorBytes(d) \in [1 .. 18 -> Byte]
  BY <1>1, <1>6
<1> QED BY <1>1, <1>10, <1>8, <1>9 DEF one, two

(* A standard timing descriptor has six modes.                             *)
LEMMA StandardBytesAre ==
  ASSUME NEW d, d.kind = "standard", AreModes(6, d.u)
  PROVE  /\ DescriptorBytes(d) \in [1 .. 18 -> Byte]
         /\ DescriptorBytes(d)[1] = 0 /\ DescriptorBytes(d)[2] = 0 /\ DescriptorBytes(d)[4] = \hfa
         /\ \A k \in 1 .. 12 : DescriptorBytes(d)[5 + k] = ModeBytes(6, d.u)[k]
<1> DEFINE head == <<0, 0, 0, \hfa, 0>>  tail == <<10>>  modes == ModeBytes(6, d.u)
           bytes == head \o modes \o tail
<1>1. DescriptorBytes(d) = bytes
  BY DEF DescriptorBytes
<1>2. head \in [1 .. 5 -> Byte] /\ tail \in [1 .. 1 -> Byte] /\ head[1] = 0 /\ head[2] = 0 /\ head[4] = \hfa
  BY DEF Byte
<1>3. modes \in [1 .. 6 * 2 -> Byte]
  BY ModeBytesAre
<1> HIDE DEF head, tail, modes
<1>4. IsConcat3(bytes, Byte, 5, head, 12, modes, 1, tail)
  <2>1. head \in [1 .. 5 -> Byte] /\ tail \in [1 .. 1 -> Byte] /\ modes \in [1 .. 12 -> Byte] /\ 5 \in Nat /\ 12 \in Nat /\ 1 \in Nat
    BY <1>2, <1>3
  <2> QED BY <2>1, Concat3, Zenon
<1> HIDE DEF bytes
<1>5. DescriptorBytes(d) \in [1 .. 18 -> Byte]
  BY <1>1, <1>4 DEF IsConcat3
<1>6. \A k \in 1 .. 5 : DescriptorBytes(d)[k] = head[k]
  BY <1>1, <1>4 DEF IsConcat3
<1>7. \A k \in 1 .. 12 : DescriptorBytes(d)[5 + k] = modes[k]
  BY <1>1, <1>4 DEF IsConcat3
<1>8. DescriptorBytes(d)[1] = 0 /\ DescriptorBytes(d)[2] = 0 /\ DescriptorBytes(d)[4] = \hfa
  BY <1>2, <1>6
<1> QED BY <1>5, <1>7, <1>8 DEF modes

(* An established timings III descriptor has its bits in six bytes.        *)
LEMMA EstablishedBytesAre ==
  ASSUME NEW d, d.kind = "established"
  PROVE  /\ DescriptorBytes(d) \in [1 .. 18 -> Byte]
         /\ DescriptorBytes(d)[1] = 0 /\ DescriptorBytes(d)[2] = 0 /\ DescriptorBytes(d)[4] = \hf7
         /\ \A k \in 1 .. 6 : DescriptorBytes(d)[6 + k] = BitByte(d.u, 8 * (k - 1))
<1> DEFINE head == <<0, 0, 0, \hf7, 0, 10>>  bits == BitBytes(6, d.u)  body == PadTo(12, bits)
           bytes == head \o body
<1>1. DescriptorBytes(d) = bytes
  BY DEF DescriptorBytes
<1>2. head \in [1 .. 6 -> Byte] /\ head[1] = 0 /\ head[2] = 0 /\ head[4] = \hf7
  BY DEF Byte
<1>3. bits \in [1 .. 6 -> Byte] /\ \A k \in 1 .. 6 : bits[k] = BitByte(d.u, 8 * (k - 1))
  BY BitBytesAre
<1> HIDE DEF head, bits
<1>4. body \in [1 .. 12 -> Byte] /\ \A k \in 1 .. 6 : body[k] = bits[k]
  <2>1. bits \in [1 .. 6 -> Byte] /\ 12 \in Nat /\ 6 \in 0 .. 12
    BY <1>3
  <2> QED BY <2>1, PadBytes, Zenon
<1> HIDE DEF body
<1>5. IsConcat(bytes, Byte, 6, head, 12, body)
  <2>1. head \in [1 .. 6 -> Byte] /\ body \in [1 .. 12 -> Byte] /\ 6 \in Nat /\ 12 \in Nat
    BY <1>2, <1>4
  <2> QED BY <2>1, Concat, Zenon
<1> HIDE DEF bytes
<1>6. DescriptorBytes(d) \in [1 .. 18 -> Byte]
  BY <1>1, <1>5 DEF IsConcat
<1>7. \A k \in 1 .. 6 : DescriptorBytes(d)[k] = head[k]
  BY <1>1, <1>5 DEF IsConcat
<1>8. \A k \in 1 .. 12 : DescriptorBytes(d)[6 + k] = body[k]
  BY <1>1, <1>5 DEF IsConcat
<1>9. DescriptorBytes(d)[1] = 0 /\ DescriptorBytes(d)[2] = 0 /\ DescriptorBytes(d)[4] = \hf7
  BY <1>2, <1>7
<1>10. \A k \in 1 .. 6 : DescriptorBytes(d)[6 + k] = BitByte(d.u, 8 * (k - 1))
  BY <1>3, <1>4, <1>8
<1> QED BY <1>6, <1>9, <1>10

(* Every descriptor is written in 18 bytes.                                *)
LEMMA DescriptorBytesAre ==
  ASSUME NEW d, IsDescription(d)
  PROVE  DescriptorBytes(d) \in [1 .. 18 -> Byte]
<1>1. CASE d.kind = "timing" /\ IsTiming(d.u)
  <2>1. DescriptorBytes(d) = TimingBytes(d.u)
    BY <1>1 DEF DescriptorBytes
  <2> QED BY <2>1, <1>1, TimingBytesAre
<1>2. CASE d.kind \in {"name", "serial"} /\ IsText(d.u)
  <2>1. PICK tag \in {\hfc, \hff} : DescriptorBytes(d) = TextBytes(tag, d.u)
    BY <1>2 DEF DescriptorBytes
  <2>2. tag \in Byte
    BY DEF Byte
  <2> QED BY <2>1, <2>2, <1>2, TextBytesAre
<1>3. CASE d.kind = "limits" /\ IsLimits(d.u)
  <2>1. DescriptorBytes(d) = LimitBytes(d.u)
    BY <1>3 DEF DescriptorBytes
  <2> QED BY <2>1, <1>3, LimitBytesAre
<1>4. CASE d.kind = "color" /\ d.u \in [1 .. 2 -> Points]
  BY <1>4, ColorBytesAre
<1>5. CASE d.kind = "standard" /\ AreModes(6, d.u)
  BY <1>5, StandardBytesAre
<1>6. CASE d.kind = "established"
  BY <1>6, EstablishedBytesAre
<1>7. CASE d.kind = "bytes" /\ d.u \in [1 .. 18 -> Byte]
  <2>1. DescriptorBytes(d) = d.u
    BY <1>7 DEF DescriptorBytes
  <2> QED BY <2>1, <1>7
<1> QED BY <1>1, <1>2, <1>3, <1>4, <1>5, <1>6, <1>7 DEF IsDescription

(* BaseByte, a case at a time.                                             *)
Branches(m, k) ==
  /\ k \in 0 .. 7 => BaseByte(m, k) = <<0, 255, 255, 255, 255, 255, 255, 0>>[k + 1]
  /\ k \in 8 .. 15 => BaseByte(m, k) = m.id[k - 7]
  /\ k \in 16 .. 24 => BaseByte(m, k) =
              <<m.week, m.year - 1990, 1, 4, 128 + 16 * m.depth + 5, m.size[1], m.size[2], m.gamma - 100, 7>>[k - 15]
  /\ k \in 25 .. 34 => BaseByte(m, k) = 66 + k
  /\ k \in 35 .. 37 => BaseByte(m, k) = BitBytes(3, m.established)[k - 34]
  /\ k \in 38 .. 53 => BaseByte(m, k) = ModeBytes(8, m.standard)[k - 37]
  /\ k \in 54 .. 125 => BaseByte(m, k) =
              DescriptorBytes(m.descriptors[(k - 54) \div 18 + 1])[((k - 54) % 18) + 1]
  /\ k = 126 => BaseByte(m, k) = (IF HasExtension(m) THEN 1 ELSE 0)

(* The byte k of the base block, by where k is.                            *)
LEMMA BaseCases ==
  ASSUME NEW m, NEW k \in 0 .. 126
  PROVE  Branches(m, k)
BY DEF BaseByte, Branches

(* Every byte of the base block is a byte.                                 *)
LEMMA BaseByteIs ==
  ASSUME NEW m, IsMonitor(m), NEW k \in 0 .. 126
  PROVE  BaseByte(m, k) \in Byte
<1>0. Branches(m, k)
  BY BaseCases, Zenon
<1>1. CASE k \in 0 .. 7
  <2>1. BaseByte(m, k) = <<0, 255, 255, 255, 255, 255, 255, 0>>[k + 1]
    BY <1>1, <1>0 DEF Branches
  <2> QED BY <2>1, <1>1 DEF Byte
<1>2. CASE k \in 8 .. 15
  <2>0. k - 7 \in 1 .. 8
    BY <1>2
  <2>1. BaseByte(m, k) = m.id[k - 7]
    BY <1>2, <1>0 DEF Branches
  <2> QED BY <2>0, <2>1 DEF IsMonitor
<1>3. CASE k \in 16 .. 24
  <2>1. BaseByte(m, k) = <<m.week, m.year - 1990, 1, 4, 128 + 16 * m.depth + 5, m.size[1], m.size[2], m.gamma - 100, 7>>[k - 15]
    BY <1>3, <1>0 DEF Branches
  <2>2. m.week \in Byte /\ m.year - 1990 \in Byte /\ 128 + 16 * m.depth + 5 \in Byte
    <3>1. m.week \in 0 .. 54 /\ m.depth \in 0 .. 6
      BY DEF IsMonitor
    <3>2. PICK y \in Byte : m.year = 1990 + y
      BY DEF IsMonitor
    <3> QED BY <3>1, <3>2 DEF Byte
  <2>3. m.size[1] \in Byte /\ m.size[2] \in Byte /\ m.gamma - 100 \in Byte
    <3>1. m.size \in [1 .. 2 -> 1 .. 255] /\ m.gamma \in Below(355) /\ m.gamma >= 100
      BY DEF IsMonitor
    <3> QED BY <3>1 DEF Below, Byte
  <2>4. 1 \in Byte /\ 4 \in Byte /\ 7 \in Byte /\ k - 15 \in 1 .. 9
    BY <1>3 DEF Byte
  <2> QED BY <2>1, <2>2, <2>3, <2>4
<1>4. CASE k \in 25 .. 34
  <2>1. BaseByte(m, k) = 66 + k
    BY <1>4, <1>0 DEF Branches
  <2> QED BY <2>1, <1>4 DEF Byte
<1>5. CASE k \in 35 .. 37
  <2>0. k - 34 \in 1 .. 3
    BY <1>5
  <2>1. BaseByte(m, k) = BitBytes(3, m.established)[k - 34]
    BY <1>5, <1>0 DEF Branches
  <2>2. BitBytes(3, m.established) \in [1 .. 3 -> Byte]
    BY BitBytesAre
  <2> QED BY <2>0, <2>1, <2>2
<1>6. CASE k \in 38 .. 53
  <2>0. k - 37 \in 1 .. 8 * 2
    BY <1>6
  <2>1. BaseByte(m, k) = ModeBytes(8, m.standard)[k - 37]
    BY <1>6, <1>0 DEF Branches
  <2>2. ModeBytes(8, m.standard) \in [1 .. 8 * 2 -> Byte]
    BY ModeBytesAre, Zenon DEF IsMonitor
  <2> QED BY <2>0, <2>1, <2>2
<1>7. CASE k \in 54 .. 125
  <2>1. BaseByte(m, k) = DescriptorBytes(m.descriptors[(k - 54) \div 18 + 1])[((k - 54) % 18) + 1]
    BY <1>7, <1>0 DEF Branches
  <2>2. (k - 54) \div 18 + 1 \in 1 .. 4 /\ ((k - 54) % 18) + 1 \in 1 .. 18
    BY <1>7
  <2>3. IsDescription(m.descriptors[(k - 54) \div 18 + 1])
    BY <2>2 DEF IsMonitor
  <2>4. DescriptorBytes(m.descriptors[(k - 54) \div 18 + 1]) \in [1 .. 18 -> Byte]
    BY <2>3, DescriptorBytesAre
  <2> QED BY <2>1, <2>2, <2>4
<1>8. CASE k = 126
  <2>1. BaseByte(m, k) = IF HasExtension(m) THEN 1 ELSE 0
    BY <1>8, <1>0 DEF Branches
  <2> QED BY <2>1 DEF Byte
<1> QED BY <1>1, <1>2, <1>3, <1>4, <1>5, <1>6, <1>7, <1>8

(***************************************************************************)
(* FlattenSeq: f[k] are the first k of the n sequences, one after another. *)
(***************************************************************************)
IsFlat(f, S, n, s) ==
  /\ f \in [0 .. n -> Seq(S)] /\ f[0] = << >>
  /\ \A k \in 1 .. n : f[k] = f[k - 1] \o s[k]

(* FlattenSeq goes through the sequences from the first to the last.       *)
LEMMA FlattenIs ==
  ASSUME NEW S, NEW n \in Nat, NEW s \in [1 .. n -> Seq(S)]
  PROVE  \E f : IsFlat(f, S, n, s) /\ FlattenSeq(s) = f[n]
<1> DEFINE g == [k \in 1 .. n |-> [x \in Seq(S) |-> x \o s[k]]]
           flatten[k \in 1 .. Len(s)] == IF k = 1 THEN s[k] ELSE flatten[k - 1] \o s[k]
<1>1. Len(s) = n
  BY LenIs
<1>2. << >> \in Seq(S)
  OBVIOUS
<1>3. g \in [1 .. n -> [Seq(S) -> Seq(S)]]
  <2>1. \A k \in 1 .. n, x \in Seq(S) : x \o s[k] \in Seq(S)
    BY ConcatProperties
  <2> QED BY <2>1
<1>4. PICK f \in [0 .. n -> Seq(S)] : Steps(f, n, << >>, g)
  <2> HIDE DEF g
  <2> QED BY <1>2, <1>3, StepsExist, Zenon
<1>9. \A k \in 1 .. n : f[k] = g[k][f[k - 1]] /\ f[k - 1] \in Seq(S)
  <2> HIDE DEF g
  <2> QED BY <1>2, <1>3, <1>4, StepsStay, Zenon
<1>5. IsFlat(f, S, n, s)
  <2>1. f[0] = << >>
    BY <1>4 DEF Steps
  <2>2. ASSUME NEW k \in 1 .. n PROVE f[k] = f[k - 1] \o s[k]
    <3>1. f[k] = g[k][f[k - 1]] /\ f[k - 1] \in Seq(S)
      <4> HIDE DEF g
      <4> QED BY <1>9, Zenon
    <3> QED BY <3>1
  <2> QED BY <2>1, <2>2, <1>4 DEF IsFlat
<1>6. CASE n = 0
  <2>1. FlattenSeq(s) = s
    BY <1>1, <1>6 DEF FlattenSeq
  <2>2. s \in [1 .. 0 -> Seq(S)] /\ << >> \in [1 .. 0 -> Seq(S)]
    BY <1>6
  <2>3. s = << >>
    BY <2>2
  <2> QED BY <2>1, <2>3, <1>5, <1>6 DEF IsFlat
<1>7. CASE n # 0
  <2> DEFINE h == [k \in 1 .. n |-> f[k]]
  <2>1. ASSUME NEW k \in 1 .. n PROVE f[k] = IF k = 1 THEN s[k] ELSE h[k - 1] \o s[k]
    <3>1. f[k] = f[k - 1] \o s[k] /\ s[k] \in Seq(S)
      BY <1>5 DEF IsFlat
    <3>2. CASE k = 1
      <4>1. f[k - 1] = << >>
        BY <3>2, <1>5 DEF IsFlat
      <4> QED BY <4>1, <3>1, <3>2, ConcatEmptySeq
    <3>3. CASE k # 1
      <4>1. k - 1 \in 1 .. n
        BY <3>3
      <4> QED BY <4>1, <3>1, <3>3
    <3> QED BY <3>2, <3>3
  <2>2. h = [k \in 1 .. Len(s) |-> IF k = 1 THEN s[k] ELSE h[k - 1] \o s[k]]
    BY <2>1, <1>1
  <2>3. flatten = [k \in 1 .. Len(s) |-> IF k = 1 THEN s[k] ELSE flatten[k - 1] \o s[k]]
    BY <2>2, Zenon
  <2>4. FlattenSeq(s) = flatten[n]
    BY <1>1, <1>7 DEF FlattenSeq
  <2> HIDE DEF flatten
  <2>9. \A k \in 1 .. n : flatten[k] = IF k = 1 THEN s[k] ELSE flatten[k - 1] \o s[k]
    BY <2>3, <1>1
  <2> DEFINE T == {k \in 0 .. n : k # 0 => flatten[k] = f[k]}
  <2>5. 0 \in T
    OBVIOUS
  <2>6. ASSUME NEW k \in 0 .. n - 1, k \in T PROVE k + 1 \in T
    <3>1. k + 1 \in 1 .. n /\ k + 1 - 1 = k
      OBVIOUS
    <3>2. flatten[k + 1] = IF k + 1 = 1 THEN s[k + 1] ELSE flatten[k] \o s[k + 1]
      <4>1. flatten[k + 1] = IF k + 1 = 1 THEN s[k + 1] ELSE flatten[k + 1 - 1] \o s[k + 1]
        BY <2>9, <3>1
      <4> QED BY <4>1, <3>1
    <3>3. f[k + 1] = IF k + 1 = 1 THEN s[k + 1] ELSE h[k] \o s[k + 1]
      BY <2>1, <3>1
    <3>4. k # 0 => h[k] = f[k]
      OBVIOUS
    <3> HIDE DEF h
    <3> QED BY <3>1, <3>2, <3>3, <3>4, <2>6
  <2> HIDE DEF T
  <2>7. 0 .. n \subseteq T
    BY <2>5, <2>6, Induction
  <2>8. flatten[n] = f[n]
    <3>1. n \in 0 .. n
      OBVIOUS
    <3> QED BY <3>1, <2>7, <1>7 DEF T
  <2> QED BY <2>4, <2>8, <1>5
<1> QED BY <1>6, <1>7

Adds(f, s, k) ==
  /\ Len(s[k]) \in Nat /\ Len(f[k]) = Len(f[k - 1]) + Len(s[k])
  /\ \A j \in 1 .. Len(f[k - 1]) : f[k][j] = f[k - 1][j]
  /\ \A j \in 1 .. Len(s[k]) : f[k][Len(f[k - 1]) + j] = s[k][j]

(* What is in a sequence is in the flattened one, after those before it.   *)
LEMMA FlatPlaces ==
  ASSUME NEW S, NEW n \in Nat, NEW s \in [1 .. n -> Seq(S)], NEW f, IsFlat(f, S, n, s)
  PROVE  FlatAt(f, S, n, s)
<1>1. \A k \in 0 .. n : f[k] \in Seq(S) /\ Len(f[k]) \in Nat
  <2>1. \A k \in 0 .. n : f[k] \in Seq(S)
    BY DEF IsFlat
  <2> QED BY <2>1, LenProperties
<1>2. ASSUME NEW k \in 1 .. n
      PROVE  Adds(f, s, k)
  <2>0. s[k] \in Seq(S) /\ k - 1 \in 0 .. n
    OBVIOUS
  <2>1. s[k] \in Seq(S) /\ f[k] = f[k - 1] \o s[k] /\ k - 1 \in 0 .. n
    BY <2>0, Zenon DEF IsFlat
  <2>2. f[k - 1] \in Seq(S) /\ Len(f[k - 1]) \in Nat /\ Len(s[k]) \in Nat
    BY <2>1, <1>1, LenProperties
  <2>3. f[k - 1] \in [1 .. Len(f[k - 1]) -> S] /\ s[k] \in [1 .. Len(s[k]) -> S]
    BY <2>1, <2>2, LenProperties
  <2>4. IsConcat(f[k - 1] \o s[k], S, Len(f[k - 1]), f[k - 1], Len(s[k]), s[k])
    BY <2>2, <2>3, Concat, Zenon
  <2>5. f[k] \in [1 .. Len(f[k - 1]) + Len(s[k]) -> S]
    BY <2>1, <2>4 DEF IsConcat
  <2>6. Len(f[k]) = Len(f[k - 1]) + Len(s[k])
    <3> DEFINE N == Len(f[k - 1]) + Len(s[k])  t == f[k]
    <3>1. N \in Nat /\ t \in [1 .. N -> S]
      BY <2>2, <2>5
    <3> HIDE DEF N, t
    <3>2. Len(t) = N
      BY <3>1, LenIs, Zenon
    <3> QED BY <3>2, Zenon DEF N, t
  <2>7. /\ \A j \in 1 .. Len(f[k - 1]) : f[k][j] = f[k - 1][j]
        /\ \A j \in 1 .. Len(s[k]) : f[k][Len(f[k - 1]) + j] = s[k][j]
    BY <2>1, <2>4 DEF IsConcat
  <2> QED BY <2>2, <2>6, <2>7 DEF Adds
<1> DEFINE Begins(k, l) == Len(f[k]) <= Len(f[l]) /\ \A j \in 1 .. Len(f[k]) : f[l][j] = f[k][j]
           T == {l \in 0 .. n : \A k \in 0 .. l : Begins(k, l)}
<1>3. 0 \in T
  <2>1. Begins(0, 0)
    BY <1>1
  <2> HIDE DEF Begins
  <2> QED BY <2>1
<1>4. ASSUME NEW l \in 0 .. n - 1, l \in T PROVE l + 1 \in T
  <2>1. l + 1 \in 1 .. n /\ l + 1 - 1 = l /\ l \in 0 .. n /\ l + 1 \in 0 .. n
    OBVIOUS
  <2>3. Adds(f, s, l + 1)
    BY <2>1, <1>2
  <2>2. ASSUME NEW k \in 0 .. l + 1 PROVE Begins(k, l + 1)
    <3>1. CASE k = l + 1
      BY <3>1, <2>1, <1>1
    <3>2. CASE k # l + 1
      <4>1. k \in 0 .. l /\ k \in 0 .. n
        BY <3>2
      <4>2. Begins(k, l)
        BY <4>1, <1>4
      <4>3. Len(f[l + 1]) = Len(f[l]) + Len(s[l + 1]) /\ Len(s[l + 1]) \in Nat
        BY <2>3, <2>1 DEF Adds
      <4>4. \A j \in 1 .. Len(f[l]) : f[l + 1][j] = f[l][j]
        BY <2>3, <2>1 DEF Adds
      <4>5. Len(f[k]) \in Nat /\ Len(f[l]) \in Nat
        BY <1>1, <4>1, <2>1
      <4>6. Len(f[k]) <= Len(f[l + 1])
        <5>1. Len(f[k]) <= Len(f[l])
          BY <4>2
        <5> HIDE DEF Begins
        <5>2. \A x, y, z, w \in Nat : x <= y /\ z = y + w => x <= z
          OBVIOUS
        <5>3. Len(f[l + 1]) \in Nat
          BY <1>1, <2>1
        <5> QED BY <5>1, <5>2, <5>3, <4>3, <4>5, Zenon
      <4>7. ASSUME NEW j \in 1 .. Len(f[k]) PROVE f[l + 1][j] = f[k][j]
        <5>1. j \in 1 .. Len(f[l])
          BY <4>2, <4>5
        <5> QED BY <5>1, <4>2, <4>4
      <4> QED BY <4>6, <4>7
    <3> QED BY <3>1, <3>2
  <2> HIDE DEF Begins
  <2> QED BY <2>1, <2>2
<1> HIDE DEF T
<1>5. \A k \in 0 .. n : Begins(k, n)
  <2>1. n \in T
    <3>1. 0 .. n \subseteq T
      BY <1>3, <1>4, Induction
    <3> QED BY <3>1
  <2> QED BY <2>1 DEF T
<1>6. ASSUME NEW k \in 1 .. n, NEW j \in 1 .. Len(s[k])
      PROVE  f[n][Len(f[k - 1]) + j] = s[k][j]
  <2>1. k \in 0 .. n /\ k - 1 \in 0 .. n
    OBVIOUS
  <2>2. Len(f[k - 1]) \in Nat /\ Len(f[k]) = Len(f[k - 1]) + Len(s[k]) /\ Len(s[k]) \in Nat
    BY <1>1, <1>2, <2>1 DEF Adds
  <2>3. Len(f[k - 1]) + j \in 1 .. Len(f[k])
    BY <2>2
  <2>4. f[n][Len(f[k - 1]) + j] = f[k][Len(f[k - 1]) + j]
    BY <1>5, <2>1, <2>3
  <2> QED BY <2>4, <1>2 DEF Adds
<1>7. Len(f[0]) = 0
  BY EmptySeq DEF IsFlat
<1>8. \A k \in 0 .. n : Len(f[k]) \in 0 .. Len(f[n])
  BY <1>1, <1>5
<1>9. n \in 0 .. n
  OBVIOUS
<1>10. \A k \in 1 .. n : Placed(f, n, s, k)
  BY <1>2, <1>6 DEF Adds, Placed
<1> HIDE DEF Begins
<1> QED BY <1>1, <1>7, <1>8, <1>9, <1>10 DEF FlatAt

(* The flattened sequences with their places.                              *)
LEMMA Flattened ==
  ASSUME NEW S, NEW n \in Nat, NEW s \in [1 .. n -> Seq(S)]
  PROVE  \E f : FlatAt(f, S, n, s) /\ FlattenSeq(s) = f[n]
<1>1. PICK f : IsFlat(f, S, n, s) /\ FlattenSeq(s) = f[n]
  BY FlattenIs
<1> QED BY <1>1, FlatPlaces

(* If each of them has w elements.                                         *)
IsTable(x, S, n, w, s) ==
  /\ x \in [1 .. w * n -> S]
  /\ \A k \in 1 .. n, j \in 1 .. w : x[w * (k - 1) + j] = s[k][j]

(* A table of rows of one width is indexed by row and column.              *)
LEMMA FlattenFixed ==
  ASSUME NEW S, NEW n \in Nat, NEW w \in {2, 3}, NEW s \in [1 .. n -> [1 .. w -> S]]
  PROVE  IsTable(FlattenSeq(s), S, n, w, s)
<1>1. \A k \in 1 .. n : s[k] \in Seq(S) /\ Len(s[k]) = w
  BY LenIs
<1>2. s \in [1 .. n -> Seq(S)]
  BY <1>1
<1>3. PICK f : FlatAt(f, S, n, s) /\ FlattenSeq(s) = f[n]
  BY <1>2, Flattened
<1> DEFINE T == {k \in 0 .. n : Len(f[k]) = w * k}
<1>4. 0 \in T
  BY <1>3 DEF FlatAt
<1>5. ASSUME NEW k \in 0 .. n - 1, k \in T PROVE k + 1 \in T
  <2> DEFINE q == k + 1
  <2>1. q \in 1 .. n /\ q - 1 = k
    OBVIOUS
  <2> HIDE DEF q
  <2>2. Placed(f, n, s, q)
    BY <2>1, <1>3 DEF FlatAt
  <2>3. Len(f[q]) = w * k + w
    <3>1. Len(f[q]) = Len(f[q - 1]) + Len(s[q])
      BY <2>2 DEF Placed
    <3>2. Len(f[k]) = w * k /\ Len(s[q]) = w
      BY <2>1, <1>1, <1>5
    <3> QED BY <2>1, <3>1, <3>2, Zenon
  <2>4. w * k + w = w * (k + 1)
    OBVIOUS
  <2> QED BY <2>1, <2>3, <2>4 DEF q
<1> HIDE DEF T
<1>6. \A k \in 0 .. n : Len(f[k]) = w * k
  BY <1>4, <1>5, Induction DEF T
<1>7. FlattenSeq(s) \in [1 .. w * n -> S]
  <2>1. f[n] \in Seq(S) /\ Len(f[n]) = w * n
    BY <1>3, <1>6 DEF FlatAt
  <2> QED BY <2>1, <1>3, LenProperties
<1>8. ASSUME NEW k \in 1 .. n, NEW j \in 1 .. w PROVE FlattenSeq(s)[w * (k - 1) + j] = s[k][j]
  <2>1. Len(f[k - 1]) = w * (k - 1) /\ Len(s[k]) = w
    BY <1>1, <1>6
  <2>2. f[n][Len(f[k - 1]) + j] = s[k][j]
    <3>1. Placed(f, n, s, k)
      BY <1>3 DEF FlatAt
    <3> QED BY <2>1, <3>1 DEF Placed
  <2> QED BY <2>1, <2>2, <1>3
<1> QED BY <1>7, <1>8 DEF IsTable

(***************************************************************************)
(* The bytes of the data blocks.                                           *)
(***************************************************************************)
Svd(x) == [native |-> x.native, vic |-> x.vic]
(* A video data block has a byte for each of its modes.                    *)
LEMMA VideoBytesAre ==
  ASSUME NEW u, u \in Seq([native : BOOLEAN, vic : 0 .. 127])
  PROVE  /\ Len(u) \in Nat /\ DOMAIN u = 1 .. Len(u) /\ u \in [1 .. Len(u) -> [native : BOOLEAN, vic : 0 .. 127]]
         /\ VideoBytes(u) \in [1 .. Len(u) -> Byte]
         /\ \A k \in 1 .. Len(u) : VideoBytes(u)[k] = Flag(u[k].native, 128) + u[k].vic
<1>1. Len(u) \in Nat /\ DOMAIN u = 1 .. Len(u) /\ u \in [1 .. Len(u) -> [native : BOOLEAN, vic : 0 .. 127]]
  BY LenProperties
<1>2. ASSUME NEW k \in 1 .. Len(u) PROVE Flag(u[k].native, 128) + u[k].vic \in Byte
  <2>1. u[k].native \in BOOLEAN /\ u[k].vic \in 0 .. 127
    BY <1>1
  <2>2. Flag(u[k].native, 128) \in {0, 128}
    BY <2>1 DEF Flag
  <2> DEFINE x == Flag(u[k].native, 128)  y == u[k].vic
  <2>3. x \in {0, 128} /\ y \in 0 .. 127
    BY <2>1, <2>2
  <2> HIDE DEF x, y
  <2>4. x + y \in Byte
    BY <2>3 DEF Byte
  <2> QED BY <2>4 DEF x, y
<1> QED BY <1>1, <1>2 DEF VideoBytes

Triple(s) ==
  <<8 * s.format + s.channels - 1, s.freq, IF s.format = 1 THEN s.last ELSE s.last \div 8>>
(* An audio data block has three bytes for each of its formats.            *)
LEMMA AudioBytesAre ==
  ASSUME NEW u, u \in Seq(AudioFormats), \A k \in DOMAIN u : IsSad(u[k])
  PROVE  /\ Len(u) \in Nat /\ DOMAIN u = 1 .. Len(u) /\ u \in [1 .. Len(u) -> AudioFormats]
         /\ \A k \in 1 .. Len(u) : Triple(u[k]) \in [1 .. 3 -> Byte] /\ IsSad(u[k])
         /\ AudioBytes(u) \in [1 .. 3 * Len(u) -> Byte]
         /\ \A k \in 1 .. Len(u), j \in 1 .. 3 : AudioBytes(u)[3 * (k - 1) + j] = Triple(u[k])[j]
<1>1. Len(u) \in Nat /\ DOMAIN u = 1 .. Len(u) /\ u \in [1 .. Len(u) -> AudioFormats]
  BY LenProperties
<1>2. ASSUME NEW k \in 1 .. Len(u) PROVE Triple(u[k]) \in [1 .. 3 -> Byte] /\ IsSad(u[k])
  <2>1. /\ u[k].format \in Nibble /\ u[k].channels \in 1 .. 8 /\ u[k].freq \in 0 .. 127
        /\ u[k].last \in Below(2041) /\ u[k].last \in Nat /\ IsSad(u[k])
    <3>1. u[k] \in AudioFormats /\ IsSad(u[k])
      BY <1>1
    <3> QED BY <3>1 DEF AudioFormats, Below
  <2>4. u[k].format \in Nibble /\ u[k].channels \in 1 .. 8 /\ u[k].freq \in 0 .. 127
    BY <2>1
  <2>2. 8 * u[k].format + u[k].channels - 1 \in Byte /\ u[k].freq \in Byte /\ u[k].last \div 8 \in Byte
    <3>1. \A x \in Nibble, y \in 1 .. 8 : 8 * x + y - 1 \in Byte
      BY DEF Nibble, Byte
    <3>2. \A x \in 0 .. 127 : x \in Byte
      BY DEF Byte
    <3>3. \A x \in Below(2041) : x \div 8 \in Byte
      BY DEF Below, Byte
    <3> HIDE DEF Below
    <3>4. 8 * u[k].format + u[k].channels - 1 \in Byte
      BY <2>4, <3>1, Zenon
    <3>5. u[k].freq \in Byte
      BY <2>4, <3>2, Zenon
    <3>6. u[k].last \div 8 \in Byte
      BY <2>1, <3>3
    <3> QED BY <3>4, <3>5, <3>6
  <2>3. u[k].format = 1 => u[k].last \in Byte
    <3>1. u[k].format = 1 => u[k].last < 8
      BY <2>1 DEF IsSad
    <3>2. \A x \in Nat : x < 8 => x \in Byte
      BY DEF Byte
    <3> QED BY <2>1, <3>1, <3>2
  <2> QED BY <2>1, <2>2, <2>3 DEF Triple
<1> DEFINE rows == [k \in 1 .. Len(u) |-> Triple(u[k])]
<1>3. AudioBytes(u) = FlattenSeq(rows)
  BY <1>1 DEF AudioBytes, Triple
<1>4. rows \in [1 .. Len(u) -> [1 .. 3 -> Byte]] /\ \A k \in 1 .. Len(u) : rows[k] = Triple(u[k])
  BY <1>2
<1> HIDE DEF rows
<1>5. /\ FlattenSeq(rows) \in [1 .. 3 * Len(u) -> Byte]
      /\ \A k \in 1 .. Len(u), j \in 1 .. 3 : FlattenSeq(rows)[3 * (k - 1) + j] = rows[k][j]
  <2>1. 3 \in {2, 3} /\ rows \in [1 .. Len(u) -> [1 .. 3 -> Byte]]
    BY <1>4
  <2>2. IsTable(FlattenSeq(rows), Byte, Len(u), 3, rows)
    BY <2>1, <1>1, FlattenFixed, Zenon
  <2> QED BY <2>2 DEF IsTable
<1>6. ASSUME NEW k \in 1 .. Len(u), NEW j \in 1 .. 3 PROVE AudioBytes(u)[3 * (k - 1) + j] = Triple(u[k])[j]
  BY <1>3, <1>4, <1>5, Zenon
<1>7. AudioBytes(u) \in [1 .. 3 * Len(u) -> Byte]
  BY <1>3, <1>5, Zenon
<1> QED BY <1>1, <1>2, <1>6, <1>7

(* Latencies are two bytes, or none.                                       *)
LEMMA LatencyBytesAre ==
  ASSUME NEW l, IsLatency(l)
  PROVE  /\ l = << >> => LatencyBytes(l) = << >>
         /\ l # << >> => /\ LatencyBytes(l) \in [1 .. 2 -> Byte] /\ l \in [1 .. 2 -> Nat]
                         /\ l[1] = 2 * (LatencyBytes(l)[1] - 1) /\ l[2] = 2 * (LatencyBytes(l)[2] - 1)
<1>1. CASE l = << >>
  <2>1. LatencyBytes(l) \in [1 .. 0 -> Byte] /\ << >> \in [1 .. 0 -> Byte]
    BY <1>1 DEF LatencyBytes
  <2> QED BY <2>1, <1>1
<1>2. CASE l \in [1 .. 2 -> {2 * n : n \in 0 .. 254}]
  <2>1. LatencyBytes(l) = [k \in 1 .. 2 |-> l[k] \div 2 + 1]
    BY <1>2 DEF LatencyBytes
  <2>2. ASSUME NEW k \in 1 .. 2 PROVE l[k] \in Nat /\ l[k] \div 2 + 1 \in Byte /\ l[k] = 2 * (l[k] \div 2 + 1 - 1)
    <3>1. PICK x \in 0 .. 254 : l[k] = 2 * x
      BY <1>2
    <3> QED BY <3>1 DEF Byte
  <2>3. l \in [1 .. 2 -> Nat] /\ LatencyBytes(l) \in [1 .. 2 -> Byte]
    BY <2>1, <2>2, <1>2
  <2>4. l # << >>
    <3>1. 1 \in DOMAIN l
      BY <1>2
    <3> QED BY <3>1
  <2>5. \A k \in 1 .. 2 : l[k] = 2 * (LatencyBytes(l)[k] - 1)
    BY <2>1, <2>2
  <2> QED BY <2>3, <2>4, <2>5
<1> QED BY <1>1, <1>2 DEF IsLatency

VicSet == [vic_2d : Nibble, struct_3d : Nibble, detail_3d : Nibble]
(* A 3D format is two bytes when its structure has a detail, else one.     *)
LEMMA VicBytesAre ==
  ASSUME NEW v \in VicSet
  PROVE  /\ VicBytes(v) \in Seq(Byte) /\ Len(VicBytes(v)) = (IF v.struct_3d >= 8 THEN 2 ELSE 1)
         /\ VicBytes(v)[1] = Nibbles(v.vic_2d, v.struct_3d)
         /\ v.struct_3d >= 8 => VicBytes(v)[2] = 16 * v.detail_3d
         /\ v.vic_2d \in Nibble /\ v.struct_3d \in Nibble /\ v.detail_3d \in Nibble
         /\ v = [vic_2d |-> v.vic_2d, struct_3d |-> v.struct_3d, detail_3d |-> v.detail_3d]
<1>1. /\ v.vic_2d \in Nibble /\ v.struct_3d \in Nibble /\ v.detail_3d \in Nibble
      /\ v = [vic_2d |-> v.vic_2d, struct_3d |-> v.struct_3d, detail_3d |-> v.detail_3d]
  BY DEF VicSet
<1>2. Nibbles(v.vic_2d, v.struct_3d) \in Byte /\ 16 * v.detail_3d \in Byte
  <2>1. \A x \in Nibble : 16 * x \in Byte
    BY DEF Nibble, Byte
  <2> QED BY <1>1, <2>1, Parts
<1> DEFINE one == <<Nibbles(v.vic_2d, v.struct_3d)>>  two == <<16 * v.detail_3d>>
<1>3. one \in [1 .. 1 -> Byte] /\ one[1] = Nibbles(v.vic_2d, v.struct_3d)
  BY <1>2
<1>4. two \in [1 .. 1 -> Byte] /\ two[1] = 16 * v.detail_3d
  BY <1>2
<1>5. VicBytes(v) = one \o IF v.struct_3d >= 8 THEN two ELSE << >>
  BY DEF VicBytes
<1> HIDE DEF one, two
<1>6. CASE v.struct_3d >= 8
  <2>1. VicBytes(v) = one \o two
    BY <1>5, <1>6
  <2>2. IsConcat(one \o two, Byte, 1, one, 1, two)
    <3>1. 1 \in Nat
      OBVIOUS
    <3> QED BY <1>3, <1>4, <3>1, Concat, Zenon
  <2>3. VicBytes(v) \in [1 .. 2 -> Byte] /\ VicBytes(v)[1] = one[1] /\ VicBytes(v)[2] = two[1]
    <3> DEFINE x == one \o two
    <3> HIDE DEF x
    <3>1. x \in [1 .. 2 -> Byte] /\ x[1] = one[1] /\ x[2] = two[1]
      BY <2>2 DEF IsConcat, x
    <3> QED BY <3>1, <2>1 DEF x
  <2>4. VicBytes(v) \in Seq(Byte) /\ Len(VicBytes(v)) = 2
    <3>1. 2 \in Nat
      OBVIOUS
    <3> QED BY <2>3, <3>1, LenIs, Zenon
  <2> QED BY <2>3, <2>4, <1>1, <1>3, <1>4, <1>6
<1>7. CASE ~(v.struct_3d >= 8)
  <2>1. one \in Seq(Byte) /\ Len(one) = 1
    <3>1. 1 \in Nat
      OBVIOUS
    <3> QED BY <1>3, <3>1, LenIs, Zenon
  <2>2. VicBytes(v) = one
    <3>1. VicBytes(v) = one \o << >>
      BY <1>5, <1>7
    <3> QED BY <3>1, <2>1, ConcatEmptySeq
  <2> QED BY <2>1, <2>2, <1>1, <1>3, <1>7
<1> QED BY <1>6, <1>7

(* The masks of the video fields, and the rows of their 3D formats.        *)
MasksOf(v) == [k \in 1 .. v.multi_3d |-> IF k = 1 THEN v.struct_all_3d ELSE v.mask_3d]
Pairs(v) == [k \in 1 .. v.multi_3d |-> <<HighPart(MasksOf(v)[k]), LowByte(MasksOf(v)[k])>>]
VicRows(v) == [k \in 1 .. Len(v.vic_3d) |-> VicBytes(v.vic_3d[k])]

(* The fields of the 3D part of a vendor block, each in its range.         *)
LEMMA VideoFieldsHave ==
  ASSUME NEW v, IsVideoFields(v)
  PROVE  /\ v.present_3d \in BOOLEAN /\ v.multi_3d \in 0 .. 2 /\ v.image_size \in 0 .. 3
         /\ v.struct_all_3d \in Nat /\ v.struct_all_3d < 65536 /\ v.mask_3d \in Nat /\ v.mask_3d < 65536
         /\ v.vic_3d \in Seq(VicSet) /\ Len(v.vic_3d) \in Nat /\ DOMAIN v.vic_3d = 1 .. Len(v.vic_3d)
         /\ v.vic_3d \in [1 .. Len(v.vic_3d) -> VicSet]
         /\ v = [present_3d |-> v.present_3d, multi_3d |-> v.multi_3d, image_size |-> v.image_size,
                 struct_all_3d |-> v.struct_all_3d, mask_3d |-> v.mask_3d, vic_3d |-> v.vic_3d]
<1>1. v \in [present_3d : BOOLEAN, multi_3d : 0 .. 2, image_size : 0 .. 3, struct_all_3d : Below(65536),
             mask_3d : Below(65536), vic_3d : Seq(VicSet)]
  BY DEF IsVideoFields, VicSet
<1>2. /\ v.present_3d \in BOOLEAN /\ v.multi_3d \in 0 .. 2 /\ v.image_size \in 0 .. 3
      /\ v.struct_all_3d \in Below(65536) /\ v.mask_3d \in Below(65536) /\ v.vic_3d \in Seq(VicSet)
  BY <1>1
<1>3. v = [present_3d |-> v.present_3d, multi_3d |-> v.multi_3d, image_size |-> v.image_size,
           struct_all_3d |-> v.struct_all_3d, mask_3d |-> v.mask_3d, vic_3d |-> v.vic_3d]
  BY <1>1
<1>4. /\ v.struct_all_3d \in Nat /\ v.struct_all_3d < 65536 /\ v.mask_3d \in Nat /\ v.mask_3d < 65536
  BY <1>2 DEF Below
<1>5. /\ Len(v.vic_3d) \in Nat /\ DOMAIN v.vic_3d = 1 .. Len(v.vic_3d)
      /\ v.vic_3d \in [1 .. Len(v.vic_3d) -> VicSet]
  BY <1>2, LenProperties
<1> QED BY <1>2, <1>3, <1>4, <1>5

(* The formats: f are the rows of the 3D formats, one after another.       *)
IsFormats(x, v, f) ==
  /\ FlatAt(f, Byte, Len(v.vic_3d), VicRows(v))
  /\ IsConcat(x, Byte, 2 * v.multi_3d, FlattenSeq(Pairs(v)), Len(f[Len(v.vic_3d)]), f[Len(v.vic_3d)])
  /\ IsTable(FlattenSeq(Pairs(v)), Byte, v.multi_3d, 2, Pairs(v))

FormatBytes(v) == FlattenSeq(Pairs(v)) \o FlattenSeq(VicRows(v))

(* The 3D masks and formats, as they are written one after another.        *)
LEMMA FormatsAre ==
  ASSUME NEW v, IsVideoFields(v)
  PROVE  /\ \E f : IsFormats(FormatBytes(v), v, f)
         /\ VideoFieldBytes(v) =
              <<Flag(v.present_3d, 128) + 32 * v.multi_3d + 8 * v.image_size, Len(FormatBytes(v))>> \o FormatBytes(v)
<1>0. /\ v.multi_3d \in 0 .. 2 /\ v.struct_all_3d \in Nat /\ v.struct_all_3d < 65536
      /\ v.mask_3d \in Nat /\ v.mask_3d < 65536
      /\ Len(v.vic_3d) \in Nat /\ DOMAIN v.vic_3d = 1 .. Len(v.vic_3d)
      /\ v.vic_3d \in [1 .. Len(v.vic_3d) -> VicSet]
  BY VideoFieldsHave
<1>1. Pairs(v) \in [1 .. v.multi_3d -> [1 .. 2 -> Byte]]
  <2>1. ASSUME NEW k \in 1 .. v.multi_3d
        PROVE  <<HighPart(MasksOf(v)[k]), LowByte(MasksOf(v)[k])>> \in [1 .. 2 -> Byte]
    <3>1. MasksOf(v)[k] \in Nat /\ MasksOf(v)[k] < 65536
      BY <1>0 DEF MasksOf
    <3>2. HighPart(MasksOf(v)[k]) \in Byte /\ LowByte(MasksOf(v)[k]) \in Byte
      BY <3>1, Parts
    <3> QED BY <3>2
  <2> QED BY <2>1 DEF Pairs
<1>2. IsTable(FlattenSeq(Pairs(v)), Byte, v.multi_3d, 2, Pairs(v))
  <2>1. 2 \in {2, 3} /\ v.multi_3d \in Nat
    BY <1>0
  <2> QED BY <2>1, <1>1, FlattenFixed, Zenon
<1>3. VicRows(v) \in [1 .. Len(v.vic_3d) -> Seq(Byte)]
  <2>1. ASSUME NEW k \in 1 .. Len(v.vic_3d) PROVE VicBytes(v.vic_3d[k]) \in Seq(Byte)
    BY <1>0, VicBytesAre
  <2> QED BY <2>1 DEF VicRows
<1>4. PICK f : FlatAt(f, Byte, Len(v.vic_3d), VicRows(v)) /\ FlattenSeq(VicRows(v)) = f[Len(v.vic_3d)]
  <2>1. Len(v.vic_3d) \in Nat
    BY <1>0
  <2> QED BY <2>1, <1>3, Flattened, Zenon
<1> DEFINE n == Len(v.vic_3d)
<1>5. f[n] \in [1 .. Len(f[n]) -> Byte] /\ Len(f[n]) \in Nat
  <2>1. f[n] \in Seq(Byte)
    BY <1>4 DEF FlatAt
  <2> QED BY <2>1, LenProperties
<1>6. IsConcat(FormatBytes(v), Byte, 2 * v.multi_3d, FlattenSeq(Pairs(v)), Len(f[n]), f[n])
  <2>1. 2 * v.multi_3d \in Nat /\ FlattenSeq(Pairs(v)) \in [1 .. 2 * v.multi_3d -> Byte]
    BY <1>0, <1>2 DEF IsTable
  <2>2. FormatBytes(v) = FlattenSeq(Pairs(v)) \o f[n]
    BY <1>4 DEF FormatBytes
  <2>3. IsConcat(FlattenSeq(Pairs(v)) \o f[n], Byte, 2 * v.multi_3d, FlattenSeq(Pairs(v)), Len(f[n]), f[n])
    <3> HIDE DEF n
    <3> QED BY <2>1, <1>5, Concat, Zenon
  <2> QED BY <2>2, <2>3
<1>7. IsFormats(FormatBytes(v), v, f)
  BY <1>2, <1>4, <1>6 DEF IsFormats
<1> DEFINE masks == CASE v.multi_3d = 1 -> <<v.struct_all_3d>>
                      [] v.multi_3d = 2 -> <<v.struct_all_3d, v.mask_3d>> [] OTHER -> << >>
           pairs == [k \in DOMAIN masks |-> <<HighPart(masks[k]), LowByte(masks[k])>>]
<1>8. pairs = Pairs(v)
  <2>1. DOMAIN masks = 1 .. v.multi_3d
    <3>1. CASE v.multi_3d = 0
      BY <3>1
    <3>2. CASE v.multi_3d = 1
      BY <3>2
    <3>3. CASE v.multi_3d = 2
      BY <3>3
    <3> QED BY <3>1, <3>2, <3>3, <1>0
  <2>2. \A k \in 1 .. v.multi_3d : masks[k] = MasksOf(v)[k]
    <3>1. CASE v.multi_3d = 0
      BY <3>1
    <3>2. CASE v.multi_3d = 1
      BY <3>2 DEF MasksOf
    <3>3. CASE v.multi_3d = 2
      BY <3>3 DEF MasksOf
    <3> QED BY <3>1, <3>2, <3>3, <1>0
  <2> QED BY <2>1, <2>2 DEF Pairs
<1>9. [k \in DOMAIN v.vic_3d |-> VicBytes(v.vic_3d[k])] = VicRows(v)
  BY <1>0 DEF VicRows
<1>10. FormatBytes(v) = FlattenSeq(pairs) \o FlattenSeq([k \in DOMAIN v.vic_3d |-> VicBytes(v.vic_3d[k])])
  BY <1>8, <1>9, Zenon DEF FormatBytes
<1>11. VideoFieldBytes(v) =
         <<Flag(v.present_3d, 128) + 32 * v.multi_3d + 8 * v.image_size, Len(FormatBytes(v))>> \o FormatBytes(v)
  BY <1>10 DEF VideoFieldBytes
<1> QED BY <1>7, <1>11

(* The bytes x of the video fields v.                                      *)
IsVideoBytes(x, v, f) ==
  LET n == Len(FormatBytes(v)) IN
  /\ n \in Nat /\ x \in [1 .. 2 + n -> Nat]
  /\ n \in Byte => x \in [1 .. 2 + n -> Byte]
  /\ x[1] = Flag(v.present_3d, 128) + 32 * v.multi_3d + 8 * v.image_size /\ x[2] = n
  /\ \A j \in 1 .. n : x[2 + j] = FormatBytes(v)[j]
  /\ IsFormats(FormatBytes(v), v, f)
  /\ n = 2 * v.multi_3d + Len(f[Len(v.vic_3d)])

(* The 3D part of a vendor block in bytes, its length in the second.       *)
LEMMA VideoFieldBytesAre ==
  ASSUME NEW v, IsVideoFields(v)
  PROVE  \E f : IsVideoBytes(VideoFieldBytes(v), v, f)
<1> DEFINE formats == FormatBytes(v)  n == Len(formats)
           first == Flag(v.present_3d, 128) + 32 * v.multi_3d + 8 * v.image_size
           head == <<first, n>>
<1>1. PICK f : IsFormats(formats, v, f)
  BY FormatsAre
<1>2. VideoFieldBytes(v) = head \o formats
  BY FormatsAre
<1> HIDE DEF formats
<1>3. formats \in [1 .. n -> Byte] /\ n \in Nat /\ n = 2 * v.multi_3d + Len(f[Len(v.vic_3d)])
  <2> DEFINE l == 2 * v.multi_3d + Len(f[Len(v.vic_3d)])
  <2>1. formats \in [1 .. l -> Byte]
    BY <1>1 DEF IsFormats, IsConcat
  <2>2. l \in Nat
    <3>1. v.multi_3d \in 0 .. 2
      BY VideoFieldsHave
    <3>2. Len(f[Len(v.vic_3d)]) \in Nat
      BY <1>1 DEF IsFormats, FlatAt
    <3> QED BY <3>1, <3>2
  <2> HIDE DEF l
  <2>3. Len(formats) = l
    BY <2>1, <2>2, LenIs, Zenon
  <2> QED BY <2>1, <2>2, <2>3 DEF l
<1>4. first \in Byte
  <2>1. v.multi_3d \in 0 .. 2 /\ v.image_size \in 0 .. 3
    BY VideoFieldsHave
  <2>2. Flag(v.present_3d, 128) \in {0, 128}
    BY DEF Flag
  <2> QED BY <2>1, <2>2 DEF Byte
<1> HIDE DEF first, n
<1>5. head \in [1 .. 2 -> Nat] /\ formats \in [1 .. n -> Nat] /\ (n \in Byte => head \in [1 .. 2 -> Byte])
  <2>1. \A x \in Byte : x \in Nat
    BY DEF Byte
  <2>2. head \in [1 .. 2 -> Nat] /\ (n \in Byte => head \in [1 .. 2 -> Byte])
    BY <2>1, <1>3, <1>4
  <2>3. formats \in [1 .. n -> Nat]
    BY <2>1, <1>3
  <2> QED BY <2>2, <2>3
<1>6. head[1] = first /\ head[2] = n
  OBVIOUS
<1> HIDE DEF head
<1>7. 2 \in Nat
  OBVIOUS
<1>8. IsConcat(head \o formats, Nat, 2, head, n, formats)
  BY <1>3, <1>5, <1>7, Concat, Zenon
<1>9. n \in Byte => IsConcat(head \o formats, Byte, 2, head, n, formats)
  BY <1>3, <1>5, <1>7, Concat, Zenon
<1> DEFINE x == head \o formats
<1> HIDE DEF x
<1>10. /\ x \in [1 .. 2 + n -> Nat] /\ (n \in Byte => x \in [1 .. 2 + n -> Byte])
       /\ x[1] = first /\ x[2] = n /\ \A j \in 1 .. n : x[2 + j] = formats[j]
  <2>1. x \in [1 .. 2 + n -> Nat] /\ \A j \in 1 .. n : x[2 + j] = formats[j]
    BY <1>8 DEF IsConcat, x
  <2>2. n \in Byte => x \in [1 .. 2 + n -> Byte]
    BY <1>9 DEF IsConcat, x
  <2>3. \A j \in 1 .. 2 : x[j] = head[j]
    BY <1>8 DEF IsConcat, x
  <2> QED BY <2>1, <2>2, <2>3, <1>6
<1>11. IsVideoBytes(x, v, f)
  BY <1>1, <1>3, <1>10 DEF IsVideoBytes, formats, n, first
<1> QED BY <1>2, <1>11 DEF x

(* The bytes of the vendor block v: a and l are the lengths of the two     *)
(* latencies.                                                              *)
LatencyLength(l) == IF l = << >> THEN 0 ELSE 2
VideoOf(v) == IF v.hdmi_video THEN VideoFieldBytes(v.video) ELSE << >>
VendorHead(v) ==
  <<3, 12, 0, Nibbles(v.addr[1], v.addr[2]), Nibbles(v.addr[3], v.addr[4]),
    Flag("bpp36" \in v.flags, 32) + Flag("bpp30" \in v.flags, 16), v.max_tmds_clk \div 5,
    Flag(v.p_latency # << >>, 128) + Flag(v.i_latency # << >>, 64) + Flag(v.hdmi_video, 32)>>
IsVendorBytes(x, v) ==
  LET a == LatencyLength(v.p_latency)  l == LatencyLength(v.i_latency)  n == Len(VideoOf(v)) IN
  /\ n \in Nat /\ x \in [1 .. 8 + a + l + n -> Nat]
  /\ n <= 31 => x \in [1 .. 8 + a + l + n -> Byte]
  /\ \A j \in 1 .. 8 : x[j] = VendorHead(v)[j]
  /\ \A j \in 1 .. a : x[8 + j] = LatencyBytes(v.p_latency)[j]
  /\ \A j \in 1 .. l : x[8 + a + j] = LatencyBytes(v.i_latency)[j]
  /\ \A j \in 1 .. n : x[8 + a + l + j] = VideoOf(v)[j]

(* Latencies are as many bytes as their length says.                       *)
LEMMA LatencyHas ==
  ASSUME NEW l, IsLatency(l)
  PROVE  LatencyBytes(l) \in [1 .. LatencyLength(l) -> Byte] /\ LatencyLength(l) \in Nat
<1>1. CASE l = << >>
  <2>1. << >> \in [1 .. 0 -> Byte]
    OBVIOUS
  <2> QED BY <1>1, <2>1, LatencyBytesAre DEF LatencyLength
<1>2. CASE l # << >>
  BY <1>2, LatencyBytesAre DEF LatencyLength
<1> QED BY <1>1, <1>2

(* The first eight bytes of a vendor block are bytes.                      *)
LEMMA VendorHeadIs ==
  ASSUME NEW v, IsVendor(v)
  PROVE  VendorHead(v) \in [1 .. 8 -> Byte]
<1>1. Nibbles(v.addr[1], v.addr[2]) \in Byte /\ Nibbles(v.addr[3], v.addr[4]) \in Byte
  <2>1. v.addr[1] \in Nibble /\ v.addr[2] \in Nibble /\ v.addr[3] \in Nibble /\ v.addr[4] \in Nibble
    BY DEF IsVendor
  <2> QED BY <2>1, Parts
<1>2. v.max_tmds_clk \div 5 \in Byte
  <2>1. PICK n \in Byte : v.max_tmds_clk = 5 * n
    BY DEF IsVendor
  <2> QED BY <2>1 DEF Byte
<1>3. Flag("bpp36" \in v.flags, 32) + Flag("bpp30" \in v.flags, 16) \in Byte
  BY DEF Flag, Byte
<1>4. Flag(v.p_latency # << >>, 128) + Flag(v.i_latency # << >>, 64) + Flag(v.hdmi_video, 32) \in Byte
  BY DEF Flag, Byte
<1>5. 3 \in Byte /\ 12 \in Byte /\ 0 \in Byte
  BY DEF Byte
<1> QED BY <1>1, <1>2, <1>3, <1>4, <1>5 DEF VendorHead

(* A vendor block is its head, the latencies and the 3D part.              *)
LEMMA VendorBytesAre ==
  ASSUME NEW v, IsVendor(v)
  PROVE  IsVendorBytes(VendorBytes(v), v)
<1> DEFINE a == LatencyLength(v.p_latency)  l == LatencyLength(v.i_latency)
           head == VendorHead(v)  first == LatencyBytes(v.p_latency)  second == LatencyBytes(v.i_latency)
           video == VideoOf(v)  n == Len(video)  front == head \o first \o second  x == front \o video
<1>1. VendorBytes(v) = x
  BY DEF VendorBytes, VendorHead, VideoOf
<1>2. head \in [1 .. 8 -> Byte]
  BY VendorHeadIs
<1>3. first \in [1 .. a -> Byte] /\ second \in [1 .. l -> Byte] /\ a \in Nat /\ l \in Nat
  <2>1. IsLatency(v.p_latency) /\ IsLatency(v.i_latency)
    BY DEF IsVendor
  <2> QED BY <2>1, LatencyHas
<1>4. video \in [1 .. n -> Nat] /\ n \in Nat /\ (n <= 31 => video \in [1 .. n -> Byte])
  <2>1. CASE v.hdmi_video
    <3>1. IsVideoFields(v.video)
      BY <2>1 DEF IsVendor
    <3>2. PICK f : IsVideoBytes(VideoFieldBytes(v.video), v.video, f)
      BY <3>1, VideoFieldBytesAre
    <3> DEFINE k == Len(FormatBytes(v.video))
    <3>3. k \in Nat /\ video \in [1 .. 2 + k -> Nat] /\ (k \in Byte => video \in [1 .. 2 + k -> Byte])
      BY <3>2, <2>1 DEF IsVideoBytes, VideoOf
    <3> HIDE DEF k, video
    <3>4. 2 + k \in Nat
      BY <3>3
    <3>5. n = 2 + k
      <4> DEFINE N == 2 + k
      <4>1. N \in Nat /\ video \in [1 .. N -> Nat]
        BY <3>3, <3>4
      <4> HIDE DEF N
      <4>2. Len(video) = N
        BY <4>1, LenIs, Zenon
      <4> QED BY <4>2 DEF N
    <3>6. n <= 31 => k \in Byte
      BY <3>3, <3>5 DEF Byte
    <3> QED BY <3>3, <3>4, <3>5, <3>6
  <2>2. CASE ~v.hdmi_video
    <3>1. video = << >> /\ n = 0
      BY <2>2 DEF VideoOf
    <3>2. << >> \in [1 .. 0 -> Nat] /\ << >> \in [1 .. 0 -> Byte]
      OBVIOUS
    <3> HIDE DEF video
    <3> QED BY <3>1, <3>2
  <2> QED BY <2>1, <2>2
<1> HIDE DEF a, l, head, first, second, video, n
<1>5. \A y \in Byte : y \in Nat
  BY DEF Byte
<1>6. head \in [1 .. 8 -> Nat] /\ first \in [1 .. a -> Nat] /\ second \in [1 .. l -> Nat] /\ 8 \in Nat
  BY <1>2, <1>3, <1>5
<1>7. IsConcat3(front, Byte, 8, head, a, first, l, second)
  BY <1>2, <1>3, <1>6, Concat3, Zenon
<1>8. front \in [1 .. 8 + a + l -> Byte] /\ 8 + a + l \in Nat
  BY <1>7, <1>3 DEF IsConcat3
<1> HIDE DEF front
<1>9. front \in [1 .. 8 + a + l -> Nat]
  BY <1>8, <1>5
<1>10. IsConcat(x, Nat, 8 + a + l, front, n, video)
  BY <1>4, <1>8, <1>9, Concat, Zenon
<1>11. n <= 31 => IsConcat(x, Byte, 8 + a + l, front, n, video)
  BY <1>4, <1>8, Concat, Zenon
<1> HIDE DEF x
<1>12. x \in [1 .. 8 + a + l + n -> Nat] /\ (n <= 31 => x \in [1 .. 8 + a + l + n -> Byte])
  BY <1>10, <1>11 DEF IsConcat
<1>13. (\A j \in 1 .. 8 + a + l : x[j] = front[j]) /\ \A j \in 1 .. n : x[8 + a + l + j] = video[j]
  BY <1>10 DEF IsConcat
<1>14. ASSUME NEW j \in 1 .. 8 PROVE x[j] = head[j]
  <2>1. j \in 1 .. 8 + a + l
    BY <1>3
  <2>2. front[j] = head[j]
    BY <1>7 DEF IsConcat3
  <2> QED BY <2>1, <2>2, <1>13
<1>15. ASSUME NEW j \in 1 .. a PROVE x[8 + j] = first[j]
  <2>1. 8 + j \in 1 .. 8 + a + l
    BY <1>3
  <2>2. front[8 + j] = first[j]
    BY <1>7 DEF IsConcat3
  <2> QED BY <2>1, <2>2, <1>13
<1>16. ASSUME NEW j \in 1 .. l PROVE x[8 + a + j] = second[j]
  <2>1. 8 + a + j \in 1 .. 8 + a + l
    BY <1>3
  <2>2. front[8 + a + j] = second[j]
    BY <1>7 DEF IsConcat3
  <2> QED BY <2>1, <2>2, <1>13
<1>17. IsVendorBytes(x, v)
  <2> USE DEF a, l, head, first, second, video, n
  <2> QED BY <1>4, <1>12, <1>13, <1>14, <1>15, <1>16, Zenon DEF IsVendorBytes
<1> QED BY <1>1, <1>17

IsBodyBytes(k) ==
  LET n == Len(BodyBytes(k)) IN
  /\ k.tag \in {1, 2, 3, 4, 5, 7} /\ n \in 0 .. 31 /\ BodyBytes(k) \in [1 .. n -> Byte]

(* The body of every kind of data block is bytes, 31 at most.              *)
LEMMA BodyBytesAre ==
  ASSUME NEW k, IsBlock(k)
  PROVE  IsBodyBytes(k)
<1> DEFINE n == Len(BodyBytes(k))
<1>1. n <= 31
  BY DEF IsBlock
<1>2. ASSUME NEW x \in Nat, BodyBytes(k) \in [1 .. x -> Byte] PROVE n = x /\ n \in 0 .. 31 /\ BodyBytes(k) \in [1 .. n -> Byte]
  <2>1. n = x
    BY <1>2, LenIs, Zenon
  <2> HIDE DEF n
  <2> QED BY <2>1, <1>1, <1>2
<1> HIDE DEF n
<1>3. CASE k.tag = 1 /\ k.kind = "audio" /\ k.u \in Seq(AudioFormats) /\ \A i_1 \in DOMAIN k.u : IsSad(k.u[i_1])
  <2>1. BodyBytes(k) = AudioBytes(k.u)
    BY <1>3 DEF BodyBytes
  <2>2. AudioBytes(k.u) \in [1 .. 3 * Len(k.u) -> Byte] /\ Len(k.u) \in Nat
    BY <1>3, AudioBytesAre
  <2>3. 3 * Len(k.u) \in Nat
    BY <2>2
  <2>4. n \in 0 .. 31 /\ BodyBytes(k) \in [1 .. n -> Byte]
    BY <1>2, <2>1, <2>2, <2>3, Zenon
  <2> QED BY <2>4, <1>3 DEF IsBodyBytes, n
<1>4. CASE k.tag = 2 /\ k.kind = "video" /\ k.u \in Seq([native : BOOLEAN, vic : 0 .. 127])
  <2>1. BodyBytes(k) = VideoBytes(k.u)
    BY <1>4 DEF BodyBytes
  <2>2. VideoBytes(k.u) \in [1 .. Len(k.u) -> Byte] /\ Len(k.u) \in Nat
    BY <1>4, VideoBytesAre
  <2>4. n \in 0 .. 31 /\ BodyBytes(k) \in [1 .. n -> Byte]
    BY <1>2, <2>1, <2>2, Zenon
  <2> QED BY <2>4, <1>4 DEF IsBodyBytes, n
<1>5. CASE k.tag = 3 /\ k.kind = "vendor" /\ IsVendor(k.u)
  <2>1. BodyBytes(k) = VendorBytes(k.u)
    BY <1>5 DEF BodyBytes
  <2> DEFINE q == LatencyLength(k.u.p_latency)  l == LatencyLength(k.u.i_latency)  w == Len(VideoOf(k.u))
  <2>2. /\ w \in Nat /\ BodyBytes(k) \in [1 .. 8 + q + l + w -> Nat]
        /\ w <= 31 => BodyBytes(k) \in [1 .. 8 + q + l + w -> Byte]
    BY <1>5, <2>1, VendorBytesAre DEF IsVendorBytes
  <2>3. q \in 0 .. 2 /\ l \in 0 .. 2
    BY DEF LatencyLength
  <2> HIDE DEF q, l, w
  <2>4. 8 + q + l + w \in Nat
    BY <2>2, <2>3
  <2>5. n = 8 + q + l + w
    <3>1. BodyBytes(k) \in [1 .. 8 + q + l + w -> Nat]
      BY <2>2
    <3>2. Len(BodyBytes(k)) = 8 + q + l + w
      <4> DEFINE N == 8 + q + l + w  y == BodyBytes(k)
      <4>1. N \in Nat /\ y \in [1 .. N -> Nat]
        BY <3>1, <2>4
      <4> HIDE DEF N, y
      <4>2. Len(y) = N
        BY <4>1, LenIs, Zenon
      <4> QED BY <4>2 DEF N, y
    <3> QED BY <3>2 DEF n
  <2>6. w <= 31
    BY <2>2, <2>3, <2>5, <1>1
  <2>7. n \in 0 .. 31 /\ BodyBytes(k) \in [1 .. n -> Byte]
    BY <1>2, <2>2, <2>4, <2>6, Zenon
  <2> QED BY <2>7, <1>5 DEF IsBodyBytes, n
<1>6. CASE k.tag = 4 /\ k.kind = "speaker" /\ k.u \in 0 .. 127
  <2>1. BodyBytes(k) = <<k.u, 0, 0>>
    BY <1>6 DEF BodyBytes
  <2>2. <<k.u, 0, 0>> \in [1 .. 3 -> Byte] /\ 3 \in Nat
    <3>1. k.u \in Byte /\ 0 \in Byte
      BY <1>6 DEF Byte
    <3> QED BY <3>1
  <2>4. n \in 0 .. 31 /\ BodyBytes(k) \in [1 .. n -> Byte]
    BY <1>2, <2>1, <2>2, Zenon
  <2> QED BY <2>4, <1>6 DEF IsBodyBytes, n
<1>7. CASE k.tag \in {3, 5, 7} /\ k.kind = "bytes" /\ k.u \in Seq(Byte)
  <2>1. BodyBytes(k) = k.u
    BY <1>7 DEF BodyBytes
  <2>2. k.u \in [1 .. Len(k.u) -> Byte] /\ Len(k.u) \in Nat
    BY <1>7, LenProperties
  <2>4. n \in 0 .. 31 /\ BodyBytes(k) \in [1 .. n -> Byte]
    BY <1>2, <2>1, <2>2, Zenon
  <2> QED BY <2>4, <1>7 DEF IsBodyBytes, n
<1> QED BY <1>3, <1>4, <1>5, <1>6, <1>7 DEF IsBlock

IsBlockBytes(x, k) ==
  LET n == Len(BodyBytes(k)) IN
  /\ x \in [1 .. n + 1 -> Byte] /\ x \in Seq(Byte) /\ Len(x) = n + 1
  /\ x[1] = 32 * k.tag + n /\ \A j \in 1 .. n : x[1 + j] = BodyBytes(k)[j]

(* A data block is its tag and length, and then its body.                  *)
LEMMA BlockBytesAre ==
  ASSUME NEW k, IsBlock(k)
  PROVE  IsBlockBytes(BlockBytes(k), k)
<1> DEFINE n == Len(BodyBytes(k))  first == 32 * k.tag + n  head == <<first>>  body == BodyBytes(k)
           x == head \o body
<1>1. k.tag \in {1, 2, 3, 4, 5, 7} /\ n \in 0 .. 31 /\ body \in [1 .. n -> Byte]
  BY BodyBytesAre DEF IsBodyBytes
<1>2. BlockBytes(k) = x
  BY DEF BlockBytes
<1> HIDE DEF n, body
<1>3. first \in Byte
  <2>1. \A a \in {1, 2, 3, 4, 5, 7}, b \in 0 .. 31 : 32 * a + b \in Byte
    BY DEF Byte
  <2> QED BY <1>1, <2>1
<1> HIDE DEF first
<1>4. head \in [1 .. 1 -> Byte] /\ head[1] = first /\ 1 \in Nat /\ n \in Nat
  BY <1>1, <1>3
<1> HIDE DEF head
<1>5. IsConcat(x, Byte, 1, head, n, body)
  BY <1>1, <1>4, Concat, Zenon
<1> HIDE DEF x
<1>6. x \in [1 .. n + 1 -> Byte] /\ n + 1 \in Nat
  BY <1>4, <1>5 DEF IsConcat
<1>7. x \in Seq(Byte) /\ Len(x) = n + 1
  BY <1>6, LenIs, Zenon
<1>8. x[1] = first /\ \A j \in 1 .. n : x[1 + j] = body[j]
  BY <1>4, <1>5 DEF IsConcat
<1>9. IsBlockBytes(x, k)
  BY <1>6, <1>7, <1>8 DEF IsBlockBytes, n, body, first
<1> QED BY <1>2, <1>9

(* The bytes x of the extension of m: f are those of its blocks.           *)
IsExtension(x, m, f) ==
  LET n == Len(m.blocks)  l == Len(f[n])  t == Len(m.timings) IN
  /\ FlatAt(f, Byte, n, BlockRows(m)) /\ l \in Nat /\ t \in 0 .. 6 /\ l + 18 * t <= 123
  /\ x \in [1 .. 127 -> Byte]
  /\ x[1] = 2 /\ x[2] = 3 /\ x[3] = 4 + l /\ x[4] = 64 + m.native /\ m.native \in 0 .. t
  /\ \A j \in 1 .. l : x[4 + j] = f[n][j]
  /\ \A j \in 1 .. t * 18 : x[4 + l + j] = TimingRow(m, j)

(* The extension of a monitor: header, data blocks, timings, padding.      *)
LEMMA ExtensionIs ==
  ASSUME NEW m, IsMonitor(m)
  PROVE  \E f : IsExtension(Extension(m), m, f)
<1> DEFINE n == Len(m.blocks)  t == Len(m.timings)
<1>1. n \in Nat /\ DOMAIN m.blocks = 1 .. n /\ t \in 0 .. 6 /\ DOMAIN m.timings = 1 .. t
  BY DEF IsMonitor
<1>1a. m.native \in 0 .. t
  BY DEF IsMonitor
<1>2. BlockRows(m) \in [1 .. n -> Seq(Byte)]
  <2>1. ASSUME NEW k \in 1 .. n PROVE BlockBytes(m.blocks[k]) \in Seq(Byte)
    <3>1. IsBlock(m.blocks[k])
      <4>1. k \in DOMAIN m.blocks
        BY <1>1
      <4> QED BY <4>1, Zenon DEF IsMonitor
    <3> QED BY <3>1, BlockBytesAre DEF IsBlockBytes
  <2> QED BY <2>1 DEF BlockRows
<1>3. AllBlockBytes(m) = FlattenSeq(BlockRows(m))
  BY <1>1 DEF AllBlockBytes, BlockRows
<1> HIDE DEF n
<1>4. PICK f : FlatAt(f, Byte, n, BlockRows(m)) /\ FlattenSeq(BlockRows(m)) = f[n]
  BY <1>1, <1>2, Flattened
<1> DEFINE l == Len(f[n])  blocks == AllBlockBytes(m)  timings == AllTimingBytes(m)
           head == <<2, 3, 4 + l, 64 + m.native>>  s == head \o blocks \o timings
<1>5. blocks = f[n] /\ blocks \in [1 .. l -> Byte] /\ l \in Nat
  <2>1. f[n] \in Seq(Byte)
    BY <1>4 DEF FlatAt
  <2> QED BY <2>1, <1>3, <1>4, LenProperties
<1>6. l + 18 * t <= 123
  BY <1>5, Zenon DEF IsMonitor
<1>7. timings \in [1 .. t * 18 -> Byte] /\ \A j \in 1 .. t * 18 : timings[j] = TimingRow(m, j)
  <2>1. timings = [j \in 1 .. t * 18 |-> TimingRow(m, j)]
    BY DEF AllTimingBytes, Rows, TimingRow
  <2>2. ASSUME NEW j \in 1 .. t * 18 PROVE TimingRow(m, j) \in Byte
    <3>1. (j - 1) \div 18 + 1 \in 1 .. t /\ ((j - 1) % 18) + 1 \in 1 .. 18
      <4>1. t \in 0 .. 6
        BY <1>1
      <4> HIDE DEF t
      <4>2. ((j - 1) % 18) + 1 \in 1 .. 18
        OBVIOUS
      <4>3. (j - 1) \div 18 >= 0 /\ (j - 1) \div 18 < t
        BY <4>1
      <4>4. (j - 1) \div 18 \in Int
        OBVIOUS
      <4> QED BY <4>1, <4>2, <4>3, <4>4
    <3>2. IsTiming(m.timings[(j - 1) \div 18 + 1])
      <4>1. (j - 1) \div 18 + 1 \in DOMAIN m.timings
        BY <3>1, <1>1
      <4> QED BY <4>1, Zenon DEF IsMonitor
    <3>3. TimingBytes(m.timings[(j - 1) \div 18 + 1]) \in [1 .. 18 -> Byte]
      BY <3>2, TimingBytesAre
    <3> QED BY <3>1, <3>3 DEF TimingRow
  <2> HIDE DEF timings
  <2> QED BY <2>1, <2>2
<1>8. head \in [1 .. 4 -> Byte] /\ head[1] = 2 /\ head[2] = 3 /\ head[3] = 4 + l /\ head[4] = 64 + m.native
  <2>1. 2 \in Byte /\ 3 \in Byte /\ 4 + l \in Byte /\ 64 + m.native \in Byte
    <3> HIDE DEF l, t, blocks, timings
    <3>1. t \in 0 .. 6 /\ m.native \in 0 .. t /\ l \in Nat /\ l + 18 * t <= 123
      BY <1>1, <1>1a, <1>5, <1>6
    <3> QED BY <3>1 DEF Byte
  <2> HIDE DEF l, t
  <2> QED BY <2>1
<1>9. Extension(m) = PadTo(127, s)
  BY <1>5 DEF Extension
<1> HIDE DEF head, blocks, timings, l, t
<1>10. IsConcat3(s, Byte, 4, head, l, blocks, t * 18, timings)
  <2>1. head \in [1 .. 4 -> Byte] /\ 4 \in Nat /\ t * 18 \in Nat
    BY <1>1, <1>8
  <2> QED BY <2>1, <1>5, <1>7, Concat3, Zenon
<1> HIDE DEF s
<1> DEFINE len == 4 + l + t * 18
<1>11. len \in 0 .. 127 /\ s \in [1 .. len -> Byte]
  BY <1>1, <1>5, <1>6, <1>10 DEF IsConcat3
<1> HIDE DEF len
<1>12. PadTo(127, s) \in [1 .. 127 -> Byte] /\ \A j \in 1 .. len : PadTo(127, s)[j] = s[j]
  <2> DEFINE N == 127
  <2>1. N \in Nat /\ len \in 0 .. N /\ s \in [1 .. len -> Byte]
    BY <1>11
  <2> HIDE DEF N
  <2>2. PadTo(N, s) \in [1 .. N -> Byte] /\ \A j \in 1 .. len : PadTo(N, s)[j] = s[j]
    BY <2>1, PadBytes, Zenon
  <2> QED BY <2>2 DEF N
<1> DEFINE x == PadTo(127, s)
<1> HIDE DEF x
<1>13. \A j \in 1 .. len : x[j] = s[j]
  BY <1>12 DEF x
<1>14. x[1] = 2 /\ x[2] = 3 /\ x[3] = 4 + l /\ x[4] = 64 + m.native
  <2>1. \A j \in 1 .. 4 : s[j] = head[j]
    BY <1>10 DEF IsConcat3
  <2>2. \A j \in 1 .. 4 : j \in 1 .. len
    BY <1>1, <1>5 DEF len
  <2>3. \A j \in 1 .. 4 : x[j] = head[j]
    BY <2>1, <2>2, <1>13
  <2> QED BY <2>3, <1>8
<1>15. ASSUME NEW j \in 1 .. l PROVE x[4 + j] = f[n][j]
  <2>1. 4 + j \in 1 .. len
    BY <1>1, <1>5 DEF len
  <2>2. s[4 + j] = blocks[j]
    BY <1>10 DEF IsConcat3
  <2> QED BY <2>1, <2>2, <1>5, <1>13
<1>16. ASSUME NEW j \in 1 .. t * 18 PROVE x[4 + l + j] = TimingRow(m, j)
  <2>1. 4 + l + j \in 1 .. len
    BY <1>1, <1>5 DEF len
  <2>2. s[4 + l + j] = timings[j]
    BY <1>10 DEF IsConcat3
  <2> QED BY <2>1, <2>2, <1>7, <1>13
<1>17. x \in [1 .. 127 -> Byte]
  BY <1>12 DEF x
<1>18. IsExtension(x, m, f)
  <2> USE DEF l, t, n
  <2> QED BY <1>1, <1>1a, <1>4, <1>5, <1>6, <1>14, <1>15, <1>16, <1>17, Zenon DEF IsExtension
<1> QED BY <1>9, <1>18 DEF x

(* The checksum byte closes the sum of its block.                          *)
LEMMA SumCloses ==
  ASSUME NEW n \in Nat, NEW s \in [1 .. n -> Int]
  PROVE  Sum(s) \in Byte /\ (Total(s) + Sum(s)) % 256 = 0
<1>1. PICK f : IsSum(f, n, s) /\ Total(s) = f[n]
  BY TotalIs
<1>2. Total(s) \in Int
  BY <1>1 DEF IsSum
<1> DEFINE x == Total(s)  y == (256 - (x % 256)) % 256
<1>3. y = Sum(s) /\ x = Total(s)
  BY DEF Sum
<1> HIDE DEF x
<1>4. x \in Int
  BY <1>2, <1>3
<1>5. y \in 0 .. 255 /\ (x + y) % 256 = 0
  BY <1>4
<1> HIDE DEF y
<1>6. y \in Byte
  BY <1>5 DEF Byte
<1> QED BY <1>3, <1>5, <1>6

(* A monitor is written in 256 bytes: base block, extension, and the       *)
(* checksum of each.                                                       *)
LEMMA EncodeIs ==
  ASSUME NEW m, IsMonitor(m)
  PROVE  IsEdid(Encode(m), m)
<1> DEFINE base == [k \in 1 .. 127 |-> BaseByte(m, k - 1)]  x == Extension(m)  e == Encode(m)
           whole == [n \in 1 .. 128 |-> e[n - 1]]
<1>1. base \in [1 .. 127 -> Byte] /\ \A k \in 1 .. 127 : base[k] = BaseByte(m, k - 1)
  <2>1. ASSUME NEW k \in 1 .. 127 PROVE BaseByte(m, k - 1) \in Byte
    <3>1. k - 1 \in 0 .. 126
      OBVIOUS
    <3> QED BY <3>1, BaseByteIs
  <2> QED BY <2>1
<1>2. x \in [1 .. 127 -> Byte]
  BY ExtensionIs DEF IsExtension
<1>3. e = [k \in 0 .. 255 |->
             CASE k < 127 -> base[k + 1] [] k = 127 -> Sum(base)
               [] k > 127 /\ ~HasExtension(m) -> 0
               [] k \in 128 .. 254 /\ HasExtension(m) -> x[k - 127]
               [] k = 255 /\ HasExtension(m) -> Sum(x)]
  BY DEF Encode
<1> HIDE DEF base, x, e
<1>4. \A y \in Byte : y \in Int
  BY DEF Byte
<1>5. base \in [1 .. 127 -> Int] /\ x \in [1 .. 127 -> Int] /\ 127 \in Nat
  BY <1>1, <1>2, <1>4
<1>6. Sum(base) \in Byte /\ Sum(x) \in Byte /\ (Total(base) + Sum(base)) % 256 = 0
  BY <1>5, SumCloses
<1>7. /\ \A k \in 0 .. 126 : e[k] = base[k + 1]
      /\ e[127] = Sum(base)
  BY <1>3
<1>8. ~HasExtension(m) => \A k \in 128 .. 255 : e[k] = 0
  BY <1>3
<1>9. HasExtension(m) => e[255] = Sum(x) /\ \A k \in 128 .. 254 : e[k] = x[k - 127]
  BY <1>3
<1>10. ASSUME NEW k \in 0 .. 255 PROVE e[k] \in Byte
  <2>1. CASE k \in 0 .. 126
    <3>1. k + 1 \in 1 .. 127
      BY <2>1
    <3> QED BY <3>1, <2>1, <1>1, <1>7
  <2>2. CASE k = 127
    BY <2>2, <1>6, <1>7
  <2>3. CASE k \in 128 .. 255 /\ ~HasExtension(m)
    BY <2>3, <1>8 DEF Byte
  <2>4. CASE k \in 128 .. 254 /\ HasExtension(m)
    <3>1. k - 127 \in 1 .. 127
      BY <2>4
    <3> QED BY <3>1, <2>4, <1>2, <1>9
  <2>5. CASE k = 255 /\ HasExtension(m)
    BY <2>5, <1>6, <1>9
  <2> QED BY <2>1, <2>2, <2>3, <2>4, <2>5
<1>11. e \in [0 .. 255 -> Byte]
  <2>1. e = [k \in 0 .. 255 |-> e[k]]
    BY <1>3
  <2> QED BY <2>1, <1>10
<1>12. \A k \in 0 .. 126 : e[k] = BaseByte(m, k)
  <2>1. ASSUME NEW k \in 0 .. 126 PROVE e[k] = BaseByte(m, k)
    <3>1. k + 1 \in 1 .. 127 /\ k + 1 - 1 = k
      OBVIOUS
    <3>2. base[k + 1] = BaseByte(m, k + 1 - 1)
      BY <3>1, <1>1
    <3> QED BY <3>1, <3>2, <1>7
  <2> QED BY <2>1
<1>13. Total(whole) % 256 = 0
  <2>1. whole \in [1 .. 127 + 1 -> Int] /\ whole[127 + 1] = Sum(base)
    <3>1. ASSUME NEW n \in 1 .. 128 PROVE e[n - 1] \in Int
      <4>1. n - 1 \in 0 .. 255
        OBVIOUS
      <4> QED BY <4>1, <1>4, <1>10
    <3>2. whole \in [1 .. 128 -> Int]
      BY <3>1
    <3> QED BY <3>2, <1>7
  <2>2. \A k \in 1 .. 127 : base[k] = whole[k]
    <3>1. ASSUME NEW k \in 1 .. 127 PROVE base[k] = whole[k]
      <4>1. k - 1 \in 0 .. 126 /\ k - 1 + 1 = k /\ k \in 1 .. 128
        OBVIOUS
      <4>2. e[k - 1] = base[k - 1 + 1]
        BY <4>1, <1>7
      <4> QED BY <4>1, <4>2
    <3> QED BY <3>1
  <2> HIDE DEF whole
  <2> DEFINE N == 127
  <2> HIDE DEF N
  <2>3. Total(whole) = Total(base) + whole[N + 1]
    <3>1. /\ N \in Nat /\ base \in [1 .. N -> Int] /\ whole \in [1 .. N + 1 -> Int]
          /\ \A k \in 1 .. N : base[k] = whole[k]
      BY <2>1, <2>2, <1>5 DEF N
    <3> QED BY <3>1, TotalStep, Zenon
  <2> USE DEF N
  <2> QED BY <2>1, <2>3, <1>6
<1> HIDE DEF whole
<1>14. IsEdid(e, m)
  <2> USE DEF whole, x
  <2> QED BY <1>8, <1>9, <1>11, <1>12, <1>13 DEF IsEdid
<1> QED BY <1>14 DEF e

(* The sum of zeros, for the line on which no monitor answers.             *)
LEMMA TotalOfZeros ==
  ASSUME NEW n \in Nat
  PROVE  Total([k \in 1 .. n |-> 0]) = 0
<1> DEFINE s == [k \in 1 .. n |-> 0]  d == [k \in 1 .. n |-> s[k] - s[k]]
<1>1. d = s /\ s \in [1 .. n -> Int]
  OBVIOUS
<1>2. s = [k \in 1 .. n |-> 0]
  OBVIOUS
<1> HIDE DEF s
<1>3. Total(d) = Total(s) - Total(s)
  BY <1>1, TotalDiffers
<1>4. PICK f : IsSum(f, n, s) /\ Total(s) = f[n]
  BY <1>1, TotalIs
<1>5. Total(s) \in Int
  BY <1>4 DEF IsSum
<1>6. \A x \in Int : x - x = 0
  OBVIOUS
<1> HIDE DEF d
<1>7. Total(s) = 0
  BY <1>1, <1>3, <1>5, <1>6
<1> QED BY <1>2, <1>7

(* What any monitor, or none, sends is bytes, and its base block sums to   *)
(* zero.                                                                   *)
LEMMA EdidOfIs ==
  ASSUME NEW m \in 0 .. Len(Monitors)
  PROVE  /\ EdidOf[m] \in [0 .. 255 -> Byte]
         /\ Total([n \in 1 .. 128 |-> EdidOf[m][n - 1]]) % 256 = 0
         /\ m # 0 => IsMonitor(Monitors[m]) /\ IsEdid(EdidOf[m], Monitors[m])
         /\ m = 0 => \A k \in 0 .. 255 : EdidOf[m][k] = 0
<1>1. CASE m = 0
  <2>1. EdidOf[m] = [k \in 0 .. 255 |-> 0]
    BY <1>1 DEF EdidOf
  <2>2. \A k \in 0 .. 255 : EdidOf[m][k] = 0
    BY <2>1
  <2>3. [n \in 1 .. 128 |-> EdidOf[m][n - 1]] = [n \in 1 .. 128 |-> 0]
    <3>1. \A n \in 1 .. 128 : n - 1 \in 0 .. 255
      OBVIOUS
    <3>2. \A n \in 1 .. 128 : EdidOf[m][n - 1] = 0
      BY <3>1, <2>2, Zenon
    <3> QED BY <3>2, Zenon
  <2>4. Total([n \in 1 .. 128 |-> EdidOf[m][n - 1]]) = 0
    <3>1. 128 \in Nat
      OBVIOUS
    <3>2. Total([n \in 1 .. 128 |-> 0]) = 0
      BY <3>1, TotalOfZeros, Zenon
    <3> QED BY <2>3, <3>2, Zenon
  <2>5. EdidOf[m] \in [0 .. 255 -> Byte]
    BY <2>1 DEF Byte
  <2>6. 0 % 256 = 0
    OBVIOUS
  <2>7. Total([n \in 1 .. 128 |-> EdidOf[m][n - 1]]) % 256 = 0
    BY <2>4, <2>6, Zenon
  <2> QED BY <2>2, <2>5, <2>7, <1>1, Zenon
<1>2. CASE m # 0
  <2>1. EdidOf[m] = Encode(Monitors[m])
    BY <1>2 DEF EdidOf
  <2>2. IsMonitor(Monitors[m])
    <3>1. m \in 1 .. Len(Monitors)
      BY <1>2, EdidAssumption
    <3> QED BY <3>1, EdidAssumption
  <2>3. IsEdid(EdidOf[m], Monitors[m])
    BY <2>1, <2>2, EncodeIs
  <2> QED BY <2>2, <2>3, <1>2, Zenon DEF IsEdid
<1> QED BY <1>1, <1>2

(* A read goes on to the next cut, or to the end.                          *)
LEMMA UpToIs ==
  ASSUME NEW k \in Cuts \cup {IDLE}, k < IDLE
  PROVE  UpTo(k) \in Cuts \cup {IDLE} /\ UpTo(k) > k /\ UpTo(k) \in 0 .. 256 /\ k \in 0 .. 255
<1> DEFINE later == {c \in Cuts \cup {IDLE} : c > k}
<1>1. \A c \in Cuts \cup {IDLE} : c \in 0 .. 256
  BY EdidAssumption DEF IDLE
<1>2. later \subseteq Nat /\ IDLE \in later /\ k \in 0 .. 255
  BY <1>1 DEF IDLE
<1>3. \E c \in later : \A d \in later : c <= d
  <2> HIDE DEF later
  <2>1. later # {}
    BY <1>2
  <2> QED BY <1>2, <2>1, Least, Zenon
<1>4. UpTo(k) = CHOOSE c \in later : \A d \in later : c <= d
  BY DEF UpTo
<1> HIDE DEF later
<1>5. UpTo(k) \in later
  BY <1>3, <1>4, Zenon
<1> QED BY <1>1, <1>2, <1>5 DEF later

(***************************************************************************)
(* Each byte of the buffer is one of the monitor it was read of, and what  *)
(* is printed was checked.                                                 *)
(***************************************************************************)

(* No byte was read and nothing is printed at first.                       *)
LEMMA ReadInit == ASSUME Init PROVE Read /\ Verified
<1>1. EdidOf[0] = [k \in 0 .. 255 |-> 0]
  BY EdidAssumption DEF EdidOf
<1>2. source \in [0 .. 255 -> 0 .. Len(Monitors)] /\ \A k \in 0 .. 255 : source[k] = 0
  BY EdidAssumption DEF Init
<1>3. edid = [k \in 0 .. 255 |-> EdidOf[source[k]][k]]
  BY <1>1, <1>2, Zenon DEF Init
<1> QED BY <1>2, <1>3, Zenon DEF Init, Read, Verified, Shown

(* Every step keeps where each byte of the buffer comes from, and prints   *)
(* checked bytes only.                                                     *)
LEMMA ReadNext == ASSUME Read, Verified, [Next]_vars PROVE Read' /\ Verified'
<1>1. CASE \E with_p \in BOOLEAN : Command(with_p)
  <2>1. i' = 0 /\ printed' = << >> /\ UNCHANGED <<monitor, edid, source>>
    BY <1>1 DEF Command
  <2>2. 0 \in Cuts \cup {IDLE}
    BY EdidAssumption
  <2>3. Read'
    <3>1. monitor' \in 0 .. Len(Monitors) /\ i' \in Cuts \cup {IDLE}
      BY <2>1, <2>2, Zenon DEF Read
    <3>2. source' \in [0 .. 255 -> 0 .. Len(Monitors)]
      BY <2>1, Zenon DEF Read
    <3>3. edid' = [k \in 0 .. 255 |-> EdidOf[source'[k]][k]]
      BY <2>1, Zenon DEF Read
    <3> QED BY <3>1, <3>2, <3>3, Zenon DEF Read
  <2>4. ~Shown'
    BY <2>1 DEF Shown
  <2> QED BY <2>3, <2>4, Zenon DEF Verified
<1>2. CASE adv7513_edid_read
  <2>1. i \in Cuts \cup {IDLE} /\ i < IDLE /\ i' = UpTo(i) /\ UNCHANGED <<monitor, printed>>
    BY <1>2, Zenon DEF adv7513_edid_read, Read
  <2>2. i' \in Cuts \cup {IDLE}
    BY <2>1, UpToIs
  <2>3. /\ edid' = [k \in 0 .. 255 |-> IF k \in i .. i' - 1 THEN EdidOf[monitor][k] ELSE edid[k]]
        /\ source' = [k \in 0 .. 255 |-> IF k \in i .. i' - 1 THEN monitor ELSE source[k]]
    BY <1>2, Zenon DEF adv7513_edid_read
  <2>4. source' \in [0 .. 255 -> 0 .. Len(Monitors)]
    BY <2>3, Zenon DEF Read
  <2>5. ASSUME NEW k \in 0 .. 255 PROVE edid'[k] = EdidOf[source'[k]][k]
    BY <2>3, Zenon DEF Read
  <2>6. edid' = [k \in 0 .. 255 |-> EdidOf[source'[k]][k]]
    BY <2>3, <2>5, Zenon
  <2>7. ~Shown'
    <3>1. i < IDLE => i # IDLE
      BY <2>1, UpToIs DEF IDLE
    <3> QED BY <2>1, <3>1 DEF Verified, Shown
  <2> QED BY <2>1, <2>2, <2>4, <2>6, <2>7, Zenon DEF Read, Verified
<1>3. CASE NotAcknowledged
  BY <1>3, Zenon DEF NotAcknowledged, Read, Verified, Shown, IDLE
<1>4. CASE DecodeAndPrint
  <2>1. Read'
    BY <1>4, Zenon DEF DecodeAndPrint, Read
  <2>2. i = IDLE /\ UNCHANGED <<i, edid>>
    BY <1>4 DEF DecodeAndPrint
  <2>3. Shown' => Checked(edid)
    <3>1. PICK d : d = edid_decode_v14(edid, edid_info) /\ printed' = (IF d.r = 0 THEN edid_print_v14(d.info) ELSE << >>)
      BY <1>4 DEF DecodeAndPrint
    <3>2. ~Checked(edid) => d.r # 0
      BY <3>1 DEF edid_decode_v14
    <3> QED BY <3>1, <3>2 DEF Shown
  <2> QED BY <2>1, <2>2, <2>3 DEF Verified, Checked
<1>5. CASE Replug
  BY <1>5, Zenon DEF Replug, Read, Verified, Shown
<1>6. CASE UNCHANGED vars
  BY <1>6, Zenon DEF vars, Read, Verified, Shown
<1> QED BY <1>1, <1>2, <1>3, <1>4, <1>5, <1>6 DEF Next

(* The two together, in every state.                                       *)
LEMMA ReadAlways == Spec => [](Read /\ Verified)
<1>1. Init => Read /\ Verified
  BY ReadInit
<1>2. Read /\ Verified /\ [Next]_vars => (Read /\ Verified)'
  BY ReadNext
<1> QED BY <1>1, <1>2, PTL DEF Spec

Balanced(s) == Total(s) % 256 = 0

(* Two blocks that sum to zero differ by what sums to zero.                *)
LEMMA SumsDiffer ==
  ASSUME NEW n \in Nat, NEW s \in [1 .. n -> Int], NEW t \in [1 .. n -> Int],
         Balanced(s), Balanced(t)
  PROVE  Balanced([k \in 1 .. n |-> s[k] - t[k]])
<1> DEFINE d == [k \in 1 .. n |-> s[k] - t[k]]
<1>1. PICK f : IsSum(f, n, s) /\ Total(s) = f[n]
  BY TotalIs
<1>2. PICK h : IsSum(h, n, t) /\ Total(t) = h[n]
  BY TotalIs
<1>3. Total(s) \in Int /\ Total(t) \in Int
  BY <1>1, <1>2 DEF IsSum
<1>4. Total(d) = Total(s) - Total(t)
  BY TotalDiffers
<1> HIDE DEF d
<1>5. Total(d) % 256 = 0
  <2> DEFINE x == Total(s)  y == Total(t)
  <2>1. x \in Int /\ y \in Int /\ x % 256 = 0 /\ y % 256 = 0
    BY <1>3 DEF Balanced
  <2> HIDE DEF x, y
  <2>2. (x - y) % 256 = 0
    BY <2>1
  <2> QED BY <1>4, <2>2 DEF x, y
<1> QED BY <1>5 DEF d, Balanced

(* The bytes that passed the check have the sum of every monitor they were *)
(* read of.                                                                *)
LEMMA EqualSums == ASSUME Read, Verified PROVE OnlyEqualSumsPass
<1> SUFFICES ASSUME Shown, NEW k \in 0 .. 127
             PROVE  Total([n \in 1 .. 128 |-> edid[n - 1] - EdidOf[source[k]][n - 1]]) % 256 = 0
  BY Zenon DEF OnlyEqualSumsPass
<1> DEFINE own == EdidOf[source[k]]
           s == [n \in 1 .. 128 |-> edid[n - 1]]  t == [n \in 1 .. 128 |-> own[n - 1]]
           d == [n \in 1 .. 128 |-> s[n] - t[n]]
<1>1. \A m \in 0 .. Len(Monitors) : EdidOf[m] \in [0 .. 255 -> Byte] /\ Total([n \in 1 .. 128 |-> EdidOf[m][n - 1]]) % 256 = 0
  BY EdidOfIs
<1>2. \A x \in 0 .. 255 : source[x] \in 0 .. Len(Monitors)
  BY Zenon DEF Read
<1>3. own \in [0 .. 255 -> Byte] /\ Total(t) % 256 = 0
  <2>1. k \in 0 .. 255
    OBVIOUS
  <2> QED BY <2>1, <1>1, <1>2
<1>4. \A x \in 0 .. 255 : edid[x] \in Byte
  <2>1. \A x \in 0 .. 255 : edid[x] = EdidOf[source[x]][x]
    BY Zenon DEF Read
  <2>2. ASSUME NEW x \in 0 .. 255 PROVE edid[x] \in Byte
    <3>1. EdidOf[source[x]] \in [0 .. 255 -> Byte]
      BY <1>1, <1>2, Zenon
    <3>2. EdidOf[source[x]][x] \in Byte
      BY <3>1
    <3>3. edid[x] = EdidOf[source[x]][x]
      BY <2>1, Zenon
    <3> QED BY <3>2, <3>3, Zenon
  <2> QED BY <2>2, Zenon
<1>5. \A n \in 1 .. 128 : n - 1 \in 0 .. 255
  OBVIOUS
<1>6. \A x \in Byte : x \in Int
  BY DEF Byte
<1>7. s \in [1 .. 128 -> Int] /\ t \in [1 .. 128 -> Int]
  BY <1>3, <1>4, <1>5, <1>6
<1>8. Total(s) % 256 = 0
  <2>1. Total(Little(edid, 0, 128)) % 256 = 0
    BY DEF Verified, Checked
  <2>2. Little(edid, 0, 128) = [n \in 1 .. 128 |-> edid[0 + n - 1]]
    BY DEF Little
  <2>3. [n \in 1 .. 128 |-> edid[0 + n - 1]] = s
    OBVIOUS
  <2> QED BY <2>1, <2>2, <2>3
<1>9. d = [n \in 1 .. 128 |-> edid[n - 1] - own[n - 1]]
  OBVIOUS
<1> HIDE DEF s, t, own
<1>10. Total(d) % 256 = 0
  <2> DEFINE N == 128
  <2>1. /\ N \in Nat /\ s \in [1 .. N -> Int] /\ t \in [1 .. N -> Int]
        /\ Balanced(s) /\ Balanced(t) /\ d = [n \in 1 .. N |-> s[n] - t[n]]
    BY <1>3, <1>7, <1>8 DEF Balanced
  <2> HIDE DEF N, d
  <2>2. Balanced([n \in 1 .. N |-> s[n] - t[n]])
    BY <2>1, SumsDiffer, Zenon
  <2> QED BY <2>1, <2>2 DEF Balanced
<1> HIDE DEF d
<1> QED BY <1>9, <1>10, Zenon DEF own

(* A buffer of bytes of two monitors passes the checksum of                *)
(* edid_decode_v14 only if the bytes it has of each differ from the bytes  *)
(* it lacks by a multiple of 256: a monitor changed in the middle of       *)
(* adv7513_edid_read is found out by the sum alone.                        *)
THEOREM OnlyEqualSums == Spec => []OnlyEqualSumsPass
<1>1. Read /\ Verified => OnlyEqualSumsPass
  BY EqualSums
<1> QED BY <1>1, ReadAlways, PTL

(***************************************************************************)
(* The decoder reads what the monitor means: the base block.               *)
(***************************************************************************)
LEMMA TwoIs ==
  /\ Two(0) = 1 /\ Two(1) = 2 /\ Two(2) = 4 /\ Two(3) = 8 /\ Two(4) = 16 /\ Two(5) = 32
  /\ Two(6) = 64 /\ Two(7) = 128 /\ Two(8) = 256
BY DEF Two

(* The bit fields that the decoder cuts out of a byte.                     *)
LEMMA BitsAre ==
  ASSUME NEW x \in Nat
  PROVE  /\ Bits(x, 0, 2) = x % 4 /\ Bits(x, 0, 3) = x % 8 /\ Bits(x, 0, 4) = x % 16
         /\ Bits(x, 0, 5) = x % 32 /\ Bits(x, 0, 6) = x % 64 /\ Bits(x, 0, 7) = x % 128
         /\ Bits(x, 2, 2) = (x \div 4) % 4 /\ Bits(x, 3, 2) = (x \div 8) % 4
         /\ Bits(x, 4, 2) = (x \div 16) % 4 /\ Bits(x, 5, 2) = (x \div 32) % 4
         /\ Bits(x, 6, 2) = (x \div 64) % 4 /\ Bits(x, 3, 4) = (x \div 8) % 16
         /\ Bits(x, 4, 3) = (x \div 16) % 8 /\ Bits(x, 4, 4) = (x \div 16) % 16
         /\ Bits(x, 5, 3) = (x \div 32) % 8
BY TwoIs DEF Bits

(* A byte and the half of another one.                                     *)
LEMMA Joined ==
  /\ \A x, y \in Nat : x < 4096 /\ y < 4096 =>
       LET z == Nibbles(HighPart(x), HighPart(y)) IN
       256 * Bits(z, 4, 4) + LowByte(x) = x /\ 256 * Bits(z, 0, 4) + LowByte(y) = y
<1> SUFFICES ASSUME NEW x \in Nat, NEW y \in Nat, x < 4096, y < 4096
             PROVE  LET z == Nibbles(HighPart(x), HighPart(y)) IN
                    256 * Bits(z, 4, 4) + LowByte(x) = x /\ 256 * Bits(z, 0, 4) + LowByte(y) = y
  OBVIOUS
<1> DEFINE h == HighPart(x)  l == HighPart(y)  z == 16 * h + l
<1>1. h \in 0 .. 15 /\ l \in 0 .. 15 /\ x = 256 * h + LowByte(x) /\ y = 256 * l + LowByte(y)
  BY DEF HighPart, LowByte
<1>2. z \in Nat /\ (z \div 16) % 16 = h /\ z % 16 = l
  <2> HIDE DEF h, l
  <2> QED BY <1>1
<1>3. z = Nibbles(HighPart(x), HighPart(y))
  BY DEF Nibbles
<1> HIDE DEF z
<1>4. Bits(z, 4, 4) = h /\ Bits(z, 0, 4) = l
  <2>1. Bits(z, 4, 4) = (z \div 16) % 16 /\ Bits(z, 0, 4) = z % 16
    BY <1>2, TwoIs DEF Bits
  <2> QED BY <2>1, <1>2
<1> QED BY <1>1, <1>3, <1>4

Separate(t, hsync) ==
  {"separate", IF "vsync_p" \in t.sync THEN "vsync_p" ELSE "vsync_n"}
    \cup (IF ~hsync THEN {} ELSE {IF "hsync_p" \in t.sync THEN "hsync_p" ELSE "hsync_n"})

(* The bits of the last byte of a timing.                                  *)
LEMMA TimingFlags ==
  ASSUME NEW t, IsTiming(t), NEW hsync \in BOOLEAN,
         NEW x, x = Flag(t.interlaced, 128) + 24 + Flag("vsync_p" \in t.sync, 4) + Flag("hsync_p" \in t.sync, 2)
  PROVE  Has(x, 128) = t.interlaced /\ Stereo(x) = "none" /\ Sync(x, hsync) = Separate(t, hsync)
<1> DEFINE y == t.interlaced  v == "vsync_p" \in t.sync  h == "hsync_p" \in t.sync
<1>1. y \in BOOLEAN
  BY TimingFields DEF Field
<1> DEFINE a == Flag(y, 128)  c == Flag(v, 4)  d == Flag(h, 2)
<1>2. /\ a \in {0, 128} /\ (a = 128 <=> y) /\ c \in {0, 4} /\ (c = 4 <=> v) /\ d \in {0, 2} /\ (d = 2 <=> h)
      /\ x = a + 24 + c + d
  <2>1. a \in {0, 128} /\ (a = 128 <=> y)
    BY <1>1 DEF Flag
  <2>2. c \in {0, 4} /\ (c = 4 <=> v)
    BY DEF Flag
  <2>3. d \in {0, 2} /\ (d = 2 <=> h)
    BY DEF Flag
  <2> QED BY <2>1, <2>2, <2>3
<1> HIDE DEF y, v, h, a, c, d
<1>3. /\ x \in Nat /\ ((x \div 128) % 2 = 1 <=> a = 128) /\ ((x \div 4) % 2 = 1 <=> c = 4)
      /\ ((x \div 2) % 2 = 1 <=> d = 2) /\ (x \div 16) % 2 = 1 /\ (x \div 8) % 2 = 1 /\ (x \div 32) % 4 = 0
  <2>1. a \in {0, 128} /\ c \in {0, 4} /\ d \in {0, 2} /\ x = a + 24 + c + d
    BY <1>2
  <2> QED BY <2>1
<1>4. (Has(x, 128) <=> y) /\ (Has(x, 4) <=> v) /\ (Has(x, 2) <=> h) /\ Has(x, 16) /\ Has(x, 8)
  BY <1>2, <1>3, Zenon DEF Has
<1>5. Bits(x, 5, 2) = 0
  BY <1>3, BitsAre
<1> USE DEF y, v, h
<1>6. Stereo(x) = "none"
  BY <1>5 DEF Stereo
<1>7. Sync(x, hsync) =
        {"separate", IF Has(x, 4) THEN "vsync_p" ELSE "vsync_n"}
           \cup (IF ~hsync THEN {} ELSE {IF Has(x, 2) THEN "hsync_p" ELSE "hsync_n"})
  BY <1>4, Zenon DEF Sync
<1>8. Sync(x, hsync) = Separate(t, hsync)
  <2> DEFINE vs == IF v THEN "vsync_p" ELSE "vsync_n"  hs == IF h THEN "hsync_p" ELSE "hsync_n"
  <2>1. (IF Has(x, 4) THEN "vsync_p" ELSE "vsync_n") = vs /\ (IF Has(x, 2) THEN "hsync_p" ELSE "hsync_n") = hs
    BY <1>4
  <2>2. Separate(t, hsync) = {"separate", vs} \cup (IF ~hsync THEN {} ELSE {hs})
    BY DEF Separate
  <2> HIDE DEF vs, hs
  <2> QED BY <1>7, <2>1, <2>2
<1>9. Has(x, 128) = y
  BY <1>1, <1>4 DEF Has
<1> QED BY <1>6, <1>8, <1>9

(* x is at o of the bytes b.                                               *)
Holds(b, o, x) == \A j \in 0 .. 17 : b[o + j] = x[j + 1]
Window(b, o, x) ==
  /\ b[o] = x[1] /\ b[o + 1] = x[2] /\ b[o + 2] = x[3] /\ b[o + 3] = x[4] /\ b[o + 4] = x[5] /\ b[o + 5] = x[6]
  /\ b[o + 6] = x[7] /\ b[o + 7] = x[8] /\ b[o + 8] = x[9] /\ b[o + 9] = x[10] /\ b[o + 10] = x[11]
  /\ b[o + 11] = x[12] /\ b[o + 12] = x[13] /\ b[o + 13] = x[14] /\ b[o + 14] = x[15] /\ b[o + 15] = x[16]
  /\ b[o + 16] = x[17] /\ b[o + 17] = x[18]

(* The 18 bytes of a descriptor, one by one.                               *)
LEMMA WindowIs ==
  ASSUME NEW b, NEW x, NEW o \in Nat, Holds(b, o, x)
  PROVE  Window(b, o, x)
<1>1. b[o + 0] = x[0 + 1] /\ o + 0 = o /\ 0 + 1 = 1
  BY DEF Holds
<1> QED BY <1>1 DEF Window, Holds

FineParts(t) ==
  64 * HighPart(t.h_fp) + 16 * HighPart(t.h_sync) + 4 * (t.v_fp \div 16) + t.v_sync \div 16

(* The high bits of the porches and pulses, four fields in a byte.         *)
LEMMA FinePartsAre ==
  ASSUME NEW t, IsTiming(t)
  PROVE  LET x == FineParts(t)  y == Nibbles(t.v_fp % 16, t.v_sync % 16) IN
         /\ 256 * Bits(x, 6, 2) + LowByte(t.h_fp) = t.h_fp
         /\ 256 * Bits(x, 4, 2) + LowByte(t.h_sync) = t.h_sync
         /\ 16 * Bits(x, 2, 2) + Bits(y, 4, 4) = t.v_fp
         /\ 16 * Bits(x, 0, 2) + Bits(y, 0, 4) = t.v_sync
<1> DEFINE a == HighPart(t.h_fp)  q == HighPart(t.h_sync)  u == t.v_fp \div 16  w == t.v_sync \div 16
           f == t.v_fp % 16  g == t.v_sync % 16
           x == 64 * a + 16 * q + 4 * u + w  y == 16 * f + g
<1>1. t.h_fp \in Nat /\ t.h_fp < 1024 /\ t.h_sync \in Nat /\ t.h_sync < 1024 /\ t.v_fp \in 0 .. 63 /\ t.v_sync \in 0 .. 63
  BY TimingFields DEF Field
<1>2. a \in 0 .. 3 /\ q \in 0 .. 3 /\ t.h_fp = 256 * a + LowByte(t.h_fp) /\ t.h_sync = 256 * q + LowByte(t.h_sync)
  BY <1>1 DEF HighPart, LowByte
<1>3. /\ u \in 0 .. 3 /\ w \in 0 .. 3 /\ f \in 0 .. 15 /\ g \in 0 .. 15
      /\ t.v_fp = 16 * u + f /\ t.v_sync = 16 * w + g
  BY <1>1
<1>4. x = FineParts(t) /\ y = Nibbles(t.v_fp % 16, t.v_sync % 16)
  BY DEF FineParts, Nibbles
<1> HIDE DEF a, q, u, w, f, g
<1>5. x \in Nat /\ (x \div 64) % 4 = a /\ (x \div 16) % 4 = q /\ (x \div 4) % 4 = u /\ x % 4 = w
  <2>1. a \in 0 .. 3 /\ q \in 0 .. 3 /\ u \in 0 .. 3 /\ w \in 0 .. 3
    BY <1>2, <1>3
  <2>2. x \in Nat /\ x \div 64 = a
    BY <2>1
  <2>3. x \div 16 = 4 * a + q
    BY <2>1
  <2>4. x \div 4 = 16 * a + 4 * q + u
    BY <2>1
  <2>5. x % 4 = w
    BY <2>1
  <2>6. a % 4 = a /\ (4 * a + q) % 4 = q
    BY <2>1
  <2>7. (16 * a + 4 * q + u) % 4 = u
    BY <2>1
  <2> HIDE DEF x
  <2> QED BY <2>2, <2>3, <2>4, <2>5, <2>6, <2>7
<1>6. y \in Nat /\ (y \div 16) % 16 = f /\ y % 16 = g
  <2>1. f \in 0 .. 15 /\ g \in 0 .. 15
    BY <1>3
  <2> QED BY <2>1
<1> HIDE DEF x, y
<1>7. Bits(x, 6, 2) = a /\ Bits(x, 4, 2) = q /\ Bits(x, 2, 2) = u /\ Bits(x, 0, 2) = w
  BY <1>5, TwoIs DEF Bits
<1>8. Bits(y, 4, 4) = f /\ Bits(y, 0, 4) = g
  BY <1>6, TwoIs DEF Bits
<1> QED BY <1>2, <1>3, <1>4, <1>7, <1>8

(* DetailedTiming reads the timing that TimingBytes wrote.                 *)
LEMMA TimingDecoded ==
  ASSUME NEW t, IsTiming(t), NEW b, NEW o \in Nat, Window(b, o, TimingBytes(t)), NEW hsync \in BOOLEAN
  PROVE  DetailedTiming(b, o, hsync) = [t EXCEPT !.sync = Separate(t, hsync)]
<1> DEFINE d == DetailedTiming(b, o, hsync)  clock == t.pixel_clock \div 10000
<1>1. /\ b[o] = LowByte(clock) /\ b[o + 1] = HighPart(clock)
      /\ b[o + 2] = LowByte(t.width) /\ b[o + 3] = LowByte(t.h_blank)
      /\ b[o + 4] = Nibbles(HighPart(t.width), HighPart(t.h_blank))
      /\ b[o + 5] = LowByte(t.height) /\ b[o + 6] = LowByte(t.v_blank)
      /\ b[o + 7] = Nibbles(HighPart(t.height), HighPart(t.v_blank))
      /\ b[o + 8] = LowByte(t.h_fp) /\ b[o + 9] = LowByte(t.h_sync)
      /\ b[o + 10] = Nibbles(t.v_fp % 16, t.v_sync % 16) /\ b[o + 11] = FineParts(t)
      /\ b[o + 12] = LowByte(t.h_size) /\ b[o + 13] = LowByte(t.v_size)
      /\ b[o + 14] = Nibbles(HighPart(t.h_size), HighPart(t.v_size))
      /\ b[o + 15] = t.border_lr /\ b[o + 16] = t.border_tb
      /\ b[o + 17] = Flag(t.interlaced, 128) + 24 + Flag("vsync_p" \in t.sync, 4) + Flag("hsync_p" \in t.sync, 2)
  BY DEF Window, TimingBytes, FineParts
<1>2. Field(t)
  BY TimingFields
<1>3. Word(b, o) * 10000 = t.pixel_clock
  <2>1. clock \in Nat /\ t.pixel_clock = 10000 * clock
    BY <1>2 DEF Field
  <2> HIDE DEF clock
  <2>2. clock = 256 * HighPart(clock) + LowByte(clock) /\ HighPart(clock) \in Nat /\ LowByte(clock) \in Nat
    BY <2>1 DEF HighPart, LowByte
  <2>3. Word(b, o) = clock
    BY <2>2, <1>1 DEF Word
  <2> QED BY <2>1, <2>3
<1>4. /\ 256 * Bits(b[o + 4], 4, 4) + b[o + 2] = t.width /\ 256 * Bits(b[o + 4], 0, 4) + b[o + 3] = t.h_blank
      /\ 256 * Bits(b[o + 7], 4, 4) + b[o + 5] = t.height /\ 256 * Bits(b[o + 7], 0, 4) + b[o + 6] = t.v_blank
      /\ 256 * Bits(b[o + 14], 4, 4) + b[o + 12] = t.h_size /\ 256 * Bits(b[o + 14], 0, 4) + b[o + 13] = t.v_size
  BY <1>1, <1>2, Joined DEF Field
<1>5. /\ 256 * Bits(b[o + 11], 6, 2) + b[o + 8] = t.h_fp /\ 256 * Bits(b[o + 11], 4, 2) + b[o + 9] = t.h_sync
      /\ 16 * Bits(b[o + 11], 2, 2) + Bits(b[o + 10], 4, 4) = t.v_fp
      /\ 16 * Bits(b[o + 11], 0, 2) + Bits(b[o + 10], 0, 4) = t.v_sync
  BY <1>1, FinePartsAre
<1>6. Has(b[o + 17], 128) = t.interlaced /\ Stereo(b[o + 17]) = "none" /\ Sync(b[o + 17], hsync) = Separate(t, hsync)
  BY <1>1, TimingFlags
<1>7. d = [pixel_clock |-> t.pixel_clock, width |-> t.width, h_blank |-> t.h_blank,
           height |-> t.height, v_blank |-> t.v_blank, h_fp |-> t.h_fp, h_sync |-> t.h_sync,
           v_fp |-> t.v_fp, v_sync |-> t.v_sync, h_size |-> t.h_size, v_size |-> t.v_size,
           border_lr |-> t.border_lr, border_tb |-> t.border_tb, interlaced |-> t.interlaced,
           stereo |-> "none", sync |-> Separate(t, hsync)]
  BY <1>1, <1>3, <1>4, <1>5, <1>6 DEF DetailedTiming
<1>8. t.stereo = "none" /\
      t = [pixel_clock |-> t.pixel_clock, width |-> t.width, h_blank |-> t.h_blank,
           height |-> t.height, v_blank |-> t.v_blank, h_fp |-> t.h_fp, h_sync |-> t.h_sync,
           v_fp |-> t.v_fp, v_sync |-> t.v_sync, h_size |-> t.h_size, v_size |-> t.v_size,
           border_lr |-> t.border_lr, border_tb |-> t.border_tb, interlaced |-> t.interlaced,
           stereo |-> t.stereo, sync |-> t.sync]
  BY TimingFields DEF Field
<1>9. [t EXCEPT !.sync = Separate(t, hsync)] =
          [pixel_clock |-> t.pixel_clock, width |-> t.width, h_blank |-> t.h_blank,
           height |-> t.height, v_blank |-> t.v_blank, h_fp |-> t.h_fp, h_sync |-> t.h_sync,
           v_fp |-> t.v_fp, v_sync |-> t.v_sync, h_size |-> t.h_size, v_size |-> t.v_size,
           border_lr |-> t.border_lr, border_tb |-> t.border_tb, interlaced |-> t.interlaced,
           stereo |-> "none", sync |-> Separate(t, hsync)]
  BY <1>8
<1> QED BY <1>7, <1>9

(* What is printed of a timing with a polarity, and of one without.        *)
LEMMA TimingShown ==
  ASSUME NEW t, IsTiming(t)
  PROVE  /\ ShownTiming([t EXCEPT !.sync = Separate(t, TRUE)]) = t
         /\ ShownTiming([t EXCEPT !.sync = Separate(t, FALSE)]) = Meant(t)
<1>1. PICK v \in {"vsync_p", "vsync_n"}, h \in {"hsync_p", "hsync_n"} : t.sync = {"separate", v, h}
  BY TimingFields DEF Field
<1>2. /\ "vsync_p" \in t.sync <=> v = "vsync_p"
      /\ "hsync_p" \in t.sync <=> h = "hsync_p"
      /\ "hsync_n" \in t.sync <=> h = "hsync_n"
  BY <1>1
<1>3. Separate(t, TRUE) = {"separate", v, h} /\ Separate(t, FALSE) = {"separate", v}
  BY <1>1, <1>2 DEF Separate
<1>4. ShownSync({"separate", v, h}) = {"separate", v, h} /\ ShownSync({"separate", v}) = {"separate", v, "hsync_p"}
  BY <1>1 DEF ShownSync
<1>5. DOMAIN t = {"pixel_clock", "width", "h_blank", "height", "v_blank", "h_fp", "h_sync", "v_fp", "v_sync",
                  "h_size", "v_size", "border_lr", "border_tb", "interlaced", "stereo", "sync"}
      /\ t = [x \in DOMAIN t |-> t[x]]
  BY TimingFields
<1>6. ASSUME NEW s, NEW y PROVE ShownTiming([t EXCEPT !.sync = s]) = [t EXCEPT !.sync = ShownSync(s)]
  BY <1>5 DEF ShownTiming
<1>7. [t EXCEPT !.sync = {"separate", v, h}] = t
  BY <1>1, <1>5
<1>8. Meant(t) = [t EXCEPT !.sync = {"separate", v, "hsync_p"}]
  <2>1. CASE h = "hsync_n"
    <3>1. (t.sync \ {"hsync_n"}) \cup {"hsync_p"} = {"separate", v, "hsync_p"}
      BY <1>1, <2>1
    <3> QED BY <2>1, <1>2, <3>1 DEF Meant
  <2>2. CASE h = "hsync_p"
    BY <2>2, <1>1, <1>2, <1>7 DEF Meant
  <2> QED BY <2>1, <2>2
<1> QED BY <1>3, <1>4, <1>6, <1>7, <1>8

(* Which function decodes a descriptor, and what is printed of it.         *)
LEMMA Displayed ==
  ASSUME NEW b, NEW o, NEW continuous, NEW old, DOMAIN old = DescriptorFields, b[o] = 0, b[o + 1] = 0
  PROVE  LET d == ShownDescriptor(Descriptor(b, o, continuous, old)) IN
         /\ b[o + 3] = \hfc => d = <<"name", Text(b, o, old.tail)>>
         /\ b[o + 3] = \hff => d = <<"serial", Text(b, o, old.tail)>>
         /\ b[o + 3] = \hfd => d = <<"limits", [RangeLimits(b, o, continuous) EXCEPT !.more = << >>]>>
         /\ b[o + 3] = \hfb => d = <<"color", <<WhitePoint(b, o + 5), WhitePoint(b, o + 10)>> >>
         /\ b[o + 3] = \hfa => d = <<"standard", Used(6, StandardTimings(b, o + 5, 6, old.extra))>>
         /\ b[o + 3] = \hf7 => d = <<"established", Established(b, o + 6, 44) \cap (0 .. 16)>>
<1> DEFINE D == Descriptor(b, o, continuous, old)
<1>1. D = DisplayDescriptor(b, o, continuous, old)
  BY DEF Descriptor
<1>0. [old EXCEPT !.type = "display"].tail = old.tail
  BY DEF DescriptorFields
<1> HIDE DEF D
<1>2. CASE b[o + 3] = \hfc
  <2>1. D = [[old EXCEPT !.type = "display"] EXCEPT !.tag = "name", !.u = Text(b, o, old.tail)]
    BY <1>0, <1>1, <1>2 DEF DisplayDescriptor
  <2>2. D.type = "display" /\ D.tag = "name" /\ D.u = Text(b, o, old.tail)
    BY <2>1 DEF DescriptorFields
  <2>3. ShownDescriptor(D) = <<"name", Text(b, o, old.tail)>>
    BY <2>2 DEF ShownDescriptor
  <2> QED BY <1>2, <2>3 DEF D
<1>3. CASE b[o + 3] = \hff
  <2>1. D = [[old EXCEPT !.type = "display"] EXCEPT !.tag = "serial", !.u = Text(b, o, old.tail)]
    BY <1>0, <1>1, <1>3 DEF DisplayDescriptor
  <2>2. D.type = "display" /\ D.tag = "serial" /\ D.u = Text(b, o, old.tail)
    BY <2>1 DEF DescriptorFields
  <2>3. ShownDescriptor(D) = <<"serial", Text(b, o, old.tail)>>
    BY <2>2 DEF ShownDescriptor
  <2> QED BY <1>3, <2>3 DEF D
<1>4. CASE b[o + 3] = \hfd
  <2>1. D = Fill([[old EXCEPT !.type = "display"] EXCEPT !.tag = "limits"], RangeLimits(b, o, continuous))
    BY <1>1, <1>4 DEF DisplayDescriptor
  <2>2. D.type = "display" /\ D.tag = "limits" /\ D.u = RangeLimits(b, o, continuous)
    BY <2>1 DEF DescriptorFields, Fill
  <2>3. ShownDescriptor(D) = <<"limits", [RangeLimits(b, o, continuous) EXCEPT !.more = << >>]>>
    BY <2>2 DEF ShownDescriptor
  <2> QED BY <1>4, <2>3 DEF D
<1>5. CASE b[o + 3] = \hfb
  <2>1. D = Fill([[old EXCEPT !.type = "display"] EXCEPT !.tag = "color"], <<WhitePoint(b, o + 5), WhitePoint(b, o + 10)>>)
    BY <1>1, <1>5 DEF DisplayDescriptor
  <2>2. D.type = "display" /\ D.tag = "color" /\ D.u = <<WhitePoint(b, o + 5), WhitePoint(b, o + 10)>>
    BY <2>1 DEF DescriptorFields, Fill
  <2>3. ShownDescriptor(D) = <<"color", <<WhitePoint(b, o + 5), WhitePoint(b, o + 10)>>>>
    BY <2>2 DEF ShownDescriptor
  <2> QED BY <1>5, <2>3 DEF D
<1>6. CASE b[o + 3] = \hfa
  <2>1. D = [[old EXCEPT !.type = "display"] EXCEPT !.tag = "standard", !.extra = StandardTimings(b, o + 5, 6, @)]
    BY <1>1, <1>6 DEF DisplayDescriptor
  <2>2. D.type = "display" /\ D.tag = "standard" /\ D.extra = StandardTimings(b, o + 5, 6, old.extra)
    BY <2>1 DEF DescriptorFields
  <2>3. ShownDescriptor(D) = <<"standard", Used(6, StandardTimings(b, o + 5, 6, old.extra))>>
    BY <2>2 DEF ShownDescriptor
  <2> QED BY <1>6, <2>3 DEF D
<1>7. CASE b[o + 3] = \hf7
  <2>1. D = [[old EXCEPT !.type = "display"] EXCEPT !.tag = "established", !.timing_3 = Established(b, o + 6, 44)]
    BY <1>1, <1>7 DEF DisplayDescriptor
  <2>2. D.type = "display" /\ D.tag = "established" /\ D.timing_3 = Established(b, o + 6, 44)
    BY <2>1 DEF DescriptorFields
  <2>3. ShownDescriptor(D) = <<"established", Established(b, o + 6, 44) \cap (0 .. 16)>>
    BY <2>2 DEF ShownDescriptor
  <2> QED BY <1>7, <2>3 DEF D
<1> QED BY <1>2, <1>3, <1>4, <1>5, <1>6, <1>7 DEF D

(* What Text makes of a text: the older bytes follow one of 13 characters. *)
ReadText(u, tail) == [text |-> u, behind |-> IF Len(u) < 13 THEN "end" ELSE tail]

(* Text reads the text up to its line feed.                                *)
LEMMA TextDecoded ==
  ASSUME NEW b, NEW o \in Nat, NEW tag \in Byte, NEW u, NEW tail, IsText(u), Holds(b, o, TextBytes(tag, u))
  PROVE  Text(b, o, tail) = ReadText(u, tail)
<1> DEFINE c == Little(b, o + 5, 13)  ends == {x \in 1 .. 13 : c[x] \in {0, 10}}  n == Len(u)
           first == CHOOSE x \in ends : \A y \in ends : x <= y
<1>1. n \in 0 .. 13 /\ u \in [1 .. n -> Byte \ {0, 10}]
  BY TextBytesAre
<1>2. \A k \in 1 .. 13 : TextBytes(tag, u)[5 + k] = IF k <= n THEN u[k] ELSE IF k = n + 1 THEN 10 ELSE 32
  <2>1. Line(TextBytes(tag, u), u)
    BY TextBytesAre
  <2> QED BY <2>1 DEF Line
<1>3. \A k \in 1 .. 13 : c[k] = IF k <= n THEN u[k] ELSE IF k = n + 1 THEN 10 ELSE 32
  <2>1. ASSUME NEW k \in 1 .. 13 PROVE c[k] = IF k <= n THEN u[k] ELSE IF k = n + 1 THEN 10 ELSE 32
    <3>1. c[k] = b[o + 5 + k - 1]
      BY DEF Little
    <3>2. o + 5 + k - 1 = o + (k + 4) /\ k + 4 \in 0 .. 17 /\ k + 4 + 1 = 5 + k
      OBVIOUS
    <3>3. b[o + (k + 4)] = TextBytes(tag, u)[k + 4 + 1]
      BY <3>2 DEF Holds
    <3> HIDE DEF c, n
    <3>4. c[k] = TextBytes(tag, u)[5 + k]
      BY <3>1, <3>2, <3>3
    <3> QED BY <1>2, <3>4, Zenon
  <2> QED BY <2>1
<1>4. c = [k \in 1 .. 13 |-> c[k]]
  BY DEF Little
<1>5. Text(b, o, tail) = IF ends = {} THEN [text |-> c, behind |-> tail]
                   ELSE [text |-> SubSeq(c, 1, first - 1), behind |-> "end"]
  BY DEF Text
<1>6. ends = {x \in 1 .. 13 : c[x] \in {0, 10}}
  OBVIOUS
<1>7. n = Len(u)
  OBVIOUS
<1> HIDE DEF c, n, ends, first
<1>7a. n \in Nat /\ \A k \in 1 .. n : u[k] # 0 /\ u[k] # 10
  <2>1. \A k \in 1 .. n : u[k] \in Byte \ {0, 10}
    BY <1>1
  <2>2. \A k \in 1 .. n : u[k] # 0 /\ u[k] # 10
    BY <2>1
  <2> QED BY <1>1, <2>2
<1>7b. u = [k \in 1 .. n |-> u[k]]
  BY <1>1
<1>8. \A k \in 1 .. 13 : k \in ends <=> k = n + 1
  BY <1>3, <1>6, <1>7a
<1>9. CASE n = 13
  <2>1. ends = {}
    BY <1>6, <1>8, <1>9
  <2>2. c = u
    <3>1. \A k \in 1 .. 13 : c[k] = u[k]
      BY <1>3, <1>9
    <3> QED BY <3>1, <1>4, <1>9, <1>7b
  <2> QED BY <1>5, <1>7, <1>9, <2>1, <2>2 DEF ReadText
<1>10. CASE n < 13
  <2>1. n + 1 \in ends /\ \A k \in ends : k = n + 1
    BY <1>6, <1>8, <1>10, <1>7a
  <2>2. ends = {n + 1}
    BY <2>1
  <2>3. first = n + 1
    BY <1>7a, <2>2 DEF first
  <2>4. SubSeq(c, 1, n) = [k \in 1 .. n |-> u[k]]
    <3>1. SubSeq(c, 1, n) = [k \in 1 .. n |-> c[k]]
      BY <1>4, <1>10, <1>7a
    <3>2. \A k \in 1 .. n : c[k] = u[k]
      BY <1>3, <1>10, <1>7a
    <3> QED BY <3>1, <3>2, Zenon
  <2>5. n + 1 - 1 = n /\ ends # {}
    BY <2>1, <1>7a
  <2>6. SubSeq(c, 1, n) = u
    BY <2>4, <1>7b
  <2>7. Text(b, o, tail) = [text |-> SubSeq(c, 1, n), behind |-> "end"]
    <3>1. first - 1 = n
      BY <2>3, <1>7a
    <3> QED BY <1>5, <2>5, <3>1, Zenon
  <2> QED BY <1>7, <1>10, <2>6, <2>7 DEF ReadText
<1>13. n = 13 \/ n < 13
  BY <1>1
<1> QED BY <1>13, <1>9, <1>10

(* With the tag of its descriptor.                                         *)
LEMMA TextShown ==
  ASSUME NEW b, NEW o \in Nat, NEW tag \in Byte, NEW u, NEW tail, IsText(u), Holds(b, o, TextBytes(tag, u))
  PROVE  /\ b[o] = 0 /\ b[o + 1] = 0 /\ b[o + 3] = tag
         /\ Text(b, o, tail) = ReadText(u, tail)
<1>1. Window(b, o, TextBytes(tag, u))
  BY WindowIs, Zenon
<1>2. TextBytes(tag, u)[1] = 0 /\ TextBytes(tag, u)[2] = 0 /\ TextBytes(tag, u)[4] = tag
  BY TextBytesAre, Zenon
<1>3. b[o] = 0 /\ b[o + 1] = 0 /\ b[o + 3] = tag
  BY <1>1, <1>2, Zenon DEF Window
<1>4. Text(b, o, tail) = ReadText(u, tail)
  BY TextDecoded, SMTT(30)
<1> QED BY <1>3, <1>4, Zenon

(* A bit of a byte that is made of eight.                                  *)
LEMMA EightBits ==
  ASSUME NEW q0 \in {0, 1}, NEW q1 \in {0, 1}, NEW q2 \in {0, 1}, NEW q3 \in {0, 1},
         NEW q4 \in {0, 1}, NEW q5 \in {0, 1}, NEW q6 \in {0, 1}, NEW q7 \in {0, 1}
  PROVE  LET x == 128 * q0 + 64 * q1 + 32 * q2 + 16 * q3 + 8 * q4 + 4 * q5 + 2 * q6 + q7 IN
         /\ x \in Nat /\ (x \div 128) % 2 = q0 /\ (x \div 64) % 2 = q1 /\ (x \div 32) % 2 = q2
         /\ (x \div 16) % 2 = q3 /\ (x \div 8) % 2 = q4 /\ (x \div 4) % 2 = q5
         /\ (x \div 2) % 2 = q6 /\ (x \div 1) % 2 = q7
<1> DEFINE x == 128 * q0 + 64 * q1 + 32 * q2 + 16 * q3 + 8 * q4 + 4 * q5 + 2 * q6 + q7
<1>0. x \in Nat
  OBVIOUS
<1>1. (x \div 128) % 2 = q0
  <2>1. x \div 128 = q0
    OBVIOUS
  <2>2. (q0) % 2 = q0
    OBVIOUS
  <2> HIDE DEF x
  <2> QED BY <2>1, <2>2
<1>2. (x \div 64) % 2 = q1
  <2>1. x \div 64 = 2 * q0 + q1
    OBVIOUS
  <2>2. (2 * q0 + q1) % 2 = q1
    OBVIOUS
  <2> HIDE DEF x
  <2> QED BY <2>1, <2>2
<1>3. (x \div 32) % 2 = q2
  <2>1. x \div 32 = 4 * q0 + 2 * q1 + q2
    OBVIOUS
  <2>2. (4 * q0 + 2 * q1 + q2) % 2 = q2
    OBVIOUS
  <2> HIDE DEF x
  <2> QED BY <2>1, <2>2
<1>4. (x \div 16) % 2 = q3
  <2>1. x \div 16 = 8 * q0 + 4 * q1 + 2 * q2 + q3
    OBVIOUS
  <2>2. (8 * q0 + 4 * q1 + 2 * q2 + q3) % 2 = q3
    OBVIOUS
  <2> HIDE DEF x
  <2> QED BY <2>1, <2>2
<1>5. (x \div 8) % 2 = q4
  <2>1. x \div 8 = 16 * q0 + 8 * q1 + 4 * q2 + 2 * q3 + q4
    OBVIOUS
  <2>2. (16 * q0 + 8 * q1 + 4 * q2 + 2 * q3 + q4) % 2 = q4
    OBVIOUS
  <2> HIDE DEF x
  <2> QED BY <2>1, <2>2
<1>6. (x \div 4) % 2 = q5
  <2>1. x \div 4 = 32 * q0 + 16 * q1 + 8 * q2 + 4 * q3 + 2 * q4 + q5
    OBVIOUS
  <2>2. (32 * q0 + 16 * q1 + 8 * q2 + 4 * q3 + 2 * q4 + q5) % 2 = q5
    OBVIOUS
  <2> HIDE DEF x
  <2> QED BY <2>1, <2>2
<1>7. (x \div 2) % 2 = q6
  <2>1. x \div 2 = 64 * q0 + 32 * q1 + 16 * q2 + 8 * q3 + 4 * q4 + 2 * q5 + q6
    OBVIOUS
  <2>2. (64 * q0 + 32 * q1 + 16 * q2 + 8 * q3 + 4 * q4 + 2 * q5 + q6) % 2 = q6
    OBVIOUS
  <2> HIDE DEF x
  <2> QED BY <2>1, <2>2
<1>8. (x \div 1) % 2 = q7
  <2>1. x \div 1 = 128 * q0 + 64 * q1 + 32 * q2 + 16 * q3 + 8 * q4 + 4 * q5 + 2 * q6 + q7
    OBVIOUS
  <2>2. (128 * q0 + 64 * q1 + 32 * q2 + 16 * q3 + 8 * q4 + 4 * q5 + 2 * q6 + q7) % 2 = q7
    OBVIOUS
  <2> HIDE DEF x
  <2> QED BY <2>1, <2>2
<1> HIDE DEF x
<1> QED BY <1>0, <1>1, <1>2, <1>3, <1>4, <1>5, <1>6, <1>7, <1>8 DEF x

Bit(yes) == IF yes THEN 1 ELSE 0

(* One bit of the byte that BitByte writes.                                *)
LEMMA BitOfByte ==
  ASSUME NEW set, NEW k \in Nat, NEW j \in 0 .. 7
  PROVE  Has(BitByte(set, k), Two(7 - j)) <=> k + j \in set
<1> DEFINE q0 == Bit(k \in set)  q1 == Bit(k + 1 \in set)  q2 == Bit(k + 2 \in set)  q3 == Bit(k + 3 \in set)
           q4 == Bit(k + 4 \in set)  q5 == Bit(k + 5 \in set)  q6 == Bit(k + 6 \in set)  q7 == Bit(k + 7 \in set)
           x == 128 * q0 + 64 * q1 + 32 * q2 + 16 * q3 + 8 * q4 + 4 * q5 + 2 * q6 + q7
<1>1. /\ q0 \in {0, 1} /\ q1 \in {0, 1} /\ q2 \in {0, 1} /\ q3 \in {0, 1}
      /\ q4 \in {0, 1} /\ q5 \in {0, 1} /\ q6 \in {0, 1} /\ q7 \in {0, 1}
  BY DEF Bit
<1>2. /\ Flag(k \in set, 128) = 128 * q0 /\ Flag(k + 1 \in set, 64) = 64 * q1 /\ Flag(k + 2 \in set, 32) = 32 * q2
      /\ Flag(k + 3 \in set, 16) = 16 * q3 /\ Flag(k + 4 \in set, 8) = 8 * q4 /\ Flag(k + 5 \in set, 4) = 4 * q5
      /\ Flag(k + 6 \in set, 2) = 2 * q6 /\ Flag(k + 7 \in set, 1) = q7
  BY DEF Bit, Flag
<1>3. /\ (q0 = 1 <=> k \in set) /\ (q1 = 1 <=> k + 1 \in set)
      /\ (q2 = 1 <=> k + 2 \in set) /\ (q3 = 1 <=> k + 3 \in set)
      /\ (q4 = 1 <=> k + 4 \in set) /\ (q5 = 1 <=> k + 5 \in set)
      /\ (q6 = 1 <=> k + 6 \in set) /\ (q7 = 1 <=> k + 7 \in set)
  BY DEF Bit
<1> HIDE DEF q0, q1, q2, q3, q4, q5, q6, q7
<1>4. x = BitByte(set, k)
  BY <1>1, <1>2 DEF BitByte
<1>5. /\ x \in Nat /\ (x \div 128) % 2 = q0 /\ (x \div 64) % 2 = q1 /\ (x \div 32) % 2 = q2
      /\ (x \div 16) % 2 = q3 /\ (x \div 8) % 2 = q4 /\ (x \div 4) % 2 = q5
      /\ (x \div 2) % 2 = q6 /\ (x \div 1) % 2 = q7
  BY <1>1, EightBits
<1> HIDE DEF x
<1>6. /\ (Has(x, 128) <=> k \in set) /\ (Has(x, 64) <=> k + 1 \in set) /\ (Has(x, 32) <=> k + 2 \in set)
      /\ (Has(x, 16) <=> k + 3 \in set) /\ (Has(x, 8) <=> k + 4 \in set) /\ (Has(x, 4) <=> k + 5 \in set)
      /\ (Has(x, 2) <=> k + 6 \in set) /\ (Has(x, 1) <=> k + 7 \in set)
  BY <1>3, <1>5, Zenon DEF Has
<1>7. k + 0 = k
  OBVIOUS
<1>8. /\ Two(7 - 0) = 128 /\ Two(7 - 1) = 64 /\ Two(7 - 2) = 32 /\ Two(7 - 3) = 16
      /\ Two(7 - 4) = 8 /\ Two(7 - 5) = 4 /\ Two(7 - 6) = 2 /\ Two(7 - 7) = 1
  BY TwoIs
<1>9. j = 0 \/ j = 1 \/ j = 2 \/ j = 3 \/ j = 4 \/ j = 5 \/ j = 6 \/ j = 7
  OBVIOUS
<1>10. Has(x, Two(7 - j)) <=> k + j \in set
  <2>1. CASE j = 0
    <3> DEFINE e == Two(7 - j)  g == k + j
    <3>1. Two(7 - j) = 128 /\ k + j = k
      BY <1>7, <1>8, <2>1
    <3>2. Has(x, 128) <=> k \in set
      BY <1>6
    <3>3. Has(x, e) <=> g \in set
      <4>1. e = 128 /\ g = k
        BY <3>1
      <4> HIDE DEF e, g
      <4> QED BY <3>2, <4>1
    <3> QED BY <3>3
  <2>2. CASE j = 1
    <3> DEFINE e == Two(7 - j)  g == k + j
    <3>1. Has(x, 64) <=> k + 1 \in set
      BY <1>6
    <3>2. e = 64 /\ g = k + 1
      BY <1>8, <2>2
    <3> HIDE DEF e, g
    <3>3. Has(x, e) <=> g \in set
      BY <3>1, <3>2
    <3> QED BY <3>3 DEF e, g
  <2>3. CASE j = 2
    <3> DEFINE e == Two(7 - j)  g == k + j
    <3>1. Has(x, 32) <=> k + 2 \in set
      BY <1>6
    <3>2. e = 32 /\ g = k + 2
      BY <1>8, <2>3
    <3> HIDE DEF e, g
    <3>3. Has(x, e) <=> g \in set
      BY <3>1, <3>2
    <3> QED BY <3>3 DEF e, g
  <2>4. CASE j = 3
    <3> DEFINE e == Two(7 - j)  g == k + j
    <3>1. Has(x, 16) <=> k + 3 \in set
      BY <1>6
    <3>2. e = 16 /\ g = k + 3
      BY <1>8, <2>4
    <3> HIDE DEF e, g
    <3>3. Has(x, e) <=> g \in set
      BY <3>1, <3>2
    <3> QED BY <3>3 DEF e, g
  <2>5. CASE j = 4
    BY <1>6, <1>7, <1>8, <2>5, Zenon
  <2>6. CASE j = 5
    BY <1>6, <1>7, <1>8, <2>6, Zenon
  <2>7. CASE j = 6
    BY <1>6, <1>7, <1>8, <2>7, Zenon
  <2>8. CASE j = 7
    BY <1>6, <1>7, <1>8, <2>8, Zenon
  <2> QED BY <1>9, <2>1, <2>2, <2>3, <2>4, <2>5, <2>6, <2>7, <2>8
<1> QED BY <1>4, <1>10

BitsAt(b, o, w, set) == \A k \in 0 .. w - 1 : b[o + k] = BitByte(set, 8 * k)

(* Established reads the set that BitBytes wrote.                          *)
LEMMA EstablishedDecoded ==
  ASSUME NEW b, NEW o \in Nat, NEW w \in Nat, NEW n \in Nat, n <= 8 * w, NEW set,
         BitsAt(b, o, w, set)
  PROVE  Established(b, o, n) = set \cap (0 .. n - 1)
<1>1. ASSUME NEW x \in 0 .. n - 1
      PROVE  Has(b[o + (x \div 8)], Two(7 - (x % 8))) <=> x \in set
  <2> DEFINE k == x \div 8  j == x % 8
  <2>1. k \in 0 .. w - 1 /\ j \in 0 .. 7 /\ 8 * k + j = x /\ 8 * k \in Nat
    OBVIOUS
  <2> HIDE DEF k, j
  <2>2. b[o + k] = BitByte(set, 8 * k)
    BY <2>1 DEF BitsAt
  <2>3. Has(BitByte(set, 8 * k), Two(7 - j)) <=> 8 * k + j \in set
    BY <2>1, BitOfByte
  <2> QED BY <2>1, <2>2, <2>3 DEF k, j
<1>2. Established(b, o, n) = {x \in 0 .. n - 1 : Has(b[o + (x \div 8)], Two(7 - (x % 8)))}
  BY DEF Established
<1> QED BY <1>1, <1>2, Zenon

(***************************************************************************)
(* Standard timings.                                                       *)
(***************************************************************************)
Mode(modes, k) == IF k <= Len(modes) THEN modes[k] ELSE UnusedMode

(* StandardTiming reads the mode that its two bytes stand for.             *)
LEMMA ModeDecoded ==
  ASSUME NEW n \in Nat, NEW modes, AreModes(n, modes), NEW k \in 1 .. n, NEW b, NEW o \in Nat, NEW old,
         b[o] = Code(modes, k)[1], b[o + 1] = Code(modes, k)[2]
  PROVE  StandardTiming(b, o, old) = Mode(modes, k) /\ Mode(modes, k).refresh_rate # 0
<1>1. Len(modes) \in 0 .. n
  BY ModeBytesAre
<1>2. CASE k > Len(modes)
  <2>1. b[o] = 1 /\ b[o + 1] = 1 /\ ~(k <= Len(modes))
    BY <1>1, <1>2 DEF Code
  <2>2. Bits(1, 6, 2) = 0 /\ Bits(1, 0, 6) = 1
    BY TwoIs DEF Bits
  <2>3. StandardTiming(b, o, old) = UnusedMode /\ UnusedMode.refresh_rate # 0
    BY <2>1, <2>2 DEF StandardTiming, UnusedMode
  <2> QED BY <2>1, <2>3 DEF Mode
<1>3. CASE k <= Len(modes)
  <2> DEFINE h == modes[k].horizontal  a == modes[k].aspect_ratio  v == modes[k].refresh_rate
  <2>1. /\ h \in {8 * x : x \in 32 .. 286} /\ a \in 0 .. 3 /\ v \in 60 .. 123
        /\ modes[k] = [horizontal |-> h, aspect_ratio |-> a, refresh_rate |-> v]
    BY <1>3, ModeBytesAre
  <2>2. b[o] = h \div 8 - 31 /\ b[o + 1] = 64 * a + v - 60
    BY <1>1, <1>3 DEF Code
  <2> HIDE DEF h, a, v
  <2>3. PICK x \in 32 .. 286 : h = 8 * x
    BY <2>1
  <2>4. b[o] # 0 /\ (b[o] + 31) * 8 = h
    BY <2>2, <2>3
  <2>5. /\ 64 * a + v - 60 \in Nat /\ ((64 * a + v - 60) \div 64) % 4 = a
        /\ ((64 * a + v - 60) % 64) + 60 = v
    BY <2>1
  <2>6. Bits(b[o + 1], 6, 2) = a /\ Bits(b[o + 1], 0, 6) + 60 = v
    BY <2>2, <2>5, TwoIs DEF Bits
  <2>7. StandardTiming(b, o, old) = modes[k] /\ modes[k].refresh_rate # 0
    BY <2>1, <2>4, <2>6 DEF StandardTiming
  <2> QED BY <2>7, <1>3 DEF Mode
<1> QED BY <1>1, <1>2, <1>3

(* All the modes of a table that are used, whatever was there before.      *)
LEMMA ModesDecoded ==
  ASSUME NEW n \in Nat, NEW modes, AreModes(n, modes), NEW b, NEW o \in Nat, NEW old,
         \A k \in 1 .. n * 2 : b[o + k - 1] = ModeBytes(n, modes)[k]
  PROVE  Used(n, StandardTimings(b, o, n, old)) = Listed(n, modes)
<1> DEFINE s == StandardTimings(b, o, n, old)
<1>1. ASSUME NEW k \in 1 .. n PROVE s[k] = Mode(modes, k) /\ s[k].refresh_rate # 0
  <2> DEFINE w == o + 2 * (k - 1)
  <2>1. 2 * k - 1 \in 1 .. n * 2 /\ 2 * k \in 1 .. n * 2
    OBVIOUS
  <2>2. o + (2 * k - 1) - 1 = w /\ o + 2 * k - 1 = w + 1 /\ w \in Nat
    OBVIOUS
  <2>3. ModeBytes(n, modes)[2 * k - 1] = Code(modes, k)[1] /\ ModeBytes(n, modes)[2 * k] = Code(modes, k)[2]
    BY ModeBytesAre
  <2> HIDE DEF w
  <2>4. b[w] = Code(modes, k)[1] /\ b[w + 1] = Code(modes, k)[2]
    BY <2>1, <2>2, <2>3
  <2>5. StandardTiming(b, w, old[k]) = Mode(modes, k) /\ Mode(modes, k).refresh_rate # 0
    BY <2>2, <2>4, ModeDecoded
  <2>6. s[k] = StandardTiming(b, w, old[k])
    BY DEF StandardTimings, w
  <2> QED BY <2>5, <2>6
<1> HIDE DEF s
<1>2. Used(n, s) = {<<x, s[x]>> : x \in {j \in 1 .. n : s[j].refresh_rate # 0}}
  BY DEF Used
<1>3. {j \in 1 .. n : s[j].refresh_rate # 0} = 1 .. n
  BY <1>1
<1>4. Listed(n, modes) = {<<x, Mode(modes, x)>> : x \in 1 .. n}
  BY DEF Listed, Mode
<1>5. {<<x, s[x]>> : x \in 1 .. n} = {<<x, Mode(modes, x)>> : x \in 1 .. n}
  BY <1>1
<1>6. Used(n, s) = Listed(n, modes)
  BY <1>2, <1>3, <1>4, <1>5, Zenon
<1> QED BY <1>6 DEF s

(***************************************************************************)
(* Descriptors.                                                            *)
(***************************************************************************)
(* Two of the bits, and what they say of a range from a to c, a <= c.      *)
Marks(x, a, c) == x = 2 * Bit(Above(c)) + Bit(Above(a))

(* A rate above 255 is cut for its byte, and the offset puts it back.      *)
LEMMA Stretched ==
  ASSUME NEW a \in Nat, NEW c \in Nat, a <= c, a < 511, c < 511, NEW x, Marks(x, a, c)
  PROVE  /\ Offset(x) = Stretch(a, c) /\ (x = 3 <=> Above(a)) /\ (x \in {2, 3} <=> Above(c))
         /\ Rate(Cut(a), x = 3) = a /\ Rate(Cut(c), x \in {2, 3}) = c
<1>0. /\ Rate(Cut(a), x = 3) = IF Cut(a) # 0 /\ x = 3 THEN Cut(a) + 255 ELSE Cut(a)
      /\ Rate(Cut(c), x \in {2, 3}) = IF Cut(c) # 0 /\ x \in {2, 3} THEN Cut(c) + 255 ELSE Cut(c)
  BY Zenon DEF Rate
<1>1. CASE a > 255
  <2>1. Above(a) /\ Above(c) /\ x = 3
    BY <1>1 DEF Above, Bit, Marks
  <2>2. Cut(a) = a - 255 /\ Cut(c) = c - 255 /\ a - 255 # 0 /\ c - 255 # 0 /\ a - 255 + 255 = a /\ c - 255 + 255 = c
    BY <1>1, <2>1 DEF Cut
  <2>3. Offset(x) = Stretch(a, c)
    <3>1. Offset(x) = "max and min"
      BY <2>1 DEF Offset
    <3>2. Stretch(a, c) = "max and min"
      BY <1>1 DEF Stretch, Above
    <3> QED BY <3>1, <3>2
  <2>4. x = 3 /\ x \in {2, 3}
    BY <2>1
  <2>5. Rate(Cut(a), x = 3) = Cut(a) + 255 /\ Rate(Cut(c), x \in {2, 3}) = Cut(c) + 255
    <3>1. Cut(a) # 0 /\ Cut(c) # 0
      BY <2>2
    <3> QED BY <1>0, <2>4, <3>1, Zenon
  <2> QED BY <2>1, <2>2, <2>3, <2>4, <2>5
<1>2. CASE ~(a > 255) /\ c > 255
  <2>1. ~Above(a) /\ Above(c) /\ x = 2
    BY <1>2 DEF Above, Bit, Marks
  <2>2. Cut(a) = a /\ Cut(c) = c - 255 /\ c - 255 # 0 /\ c - 255 + 255 = c
    BY <1>2, <2>1 DEF Cut
  <2>3. Offset(x) = Stretch(a, c)
    <3>1. Offset(x) = "max"
      BY <2>1 DEF Offset
    <3>2. Stretch(a, c) = "max"
      BY <1>2 DEF Stretch, Above
    <3> QED BY <3>1, <3>2
  <2>4. x # 3 /\ x \in {2, 3}
    BY <2>1
  <2>5. Rate(Cut(a), x = 3) = Cut(a) /\ Rate(Cut(c), x \in {2, 3}) = Cut(c) + 255
    <3>1. Cut(c) # 0
      BY <2>2
    <3> QED BY <1>0, <2>4, <3>1, Zenon
  <2> QED BY <2>1, <2>2, <2>3, <2>4, <2>5
<1>3. CASE ~(a > 255) /\ ~(c > 255)
  <2>1. ~Above(a) /\ ~Above(c) /\ x = 0
    BY <1>3 DEF Above, Bit, Marks
  <2>2. Cut(a) = a /\ Cut(c) = c
    BY <2>1 DEF Cut
  <2> QED BY <2>1, <2>2 DEF Offset, Stretch, Rate
<1> QED BY <1>1, <1>2, <1>3

(* RangeLimits reads the limits that LimitBytes wrote.                     *)
LEMMA LimitsDecoded ==
  ASSUME NEW l, IsLimits(l), NEW b, NEW o \in Nat, NEW continuous,
         Holds(b, o, LimitBytes(l))
  PROVE  [RangeLimits(b, o, continuous) EXCEPT !.more = << >>] =
           [h_offset |-> Stretch(l.h_min, l.h_max), v_offset |-> Stretch(l.v_min, l.v_max),
            v_min |-> l.v_min, v_max |-> l.v_max, h_min |-> l.h_min, h_max |-> l.h_max,
            p_max |-> l.p_max, timing_flags |-> "limits", more |-> << >>]
<1>1. /\ l.v_min \in Nat /\ l.v_max \in Nat /\ l.h_min \in Nat /\ l.h_max \in Nat /\ l.p_max \in Nat
      /\ l.v_min < 511 /\ l.v_max < 511 /\ l.h_min < 511 /\ l.h_max < 511
      /\ l.v_min <= l.v_max /\ l.h_min <= l.h_max /\ (l.p_max \div 10) * 10 = l.p_max
  <2>1. /\ l.v_min \in Below(511) /\ l.v_max \in Below(511) /\ l.h_min \in Below(511) /\ l.h_max \in Below(511)
        /\ l.p_max \in Below(2551) /\ l.v_min <= l.v_max /\ l.h_min <= l.h_max /\ l.p_max % 10 = 0
    BY DEF IsLimits
  <2>2. \A y \in Nat : y % 10 = 0 => (y \div 10) * 10 = y
    OBVIOUS
  <2> QED BY <2>1, <2>2 DEF Below
<1> DEFINE h == 2 * Bit(Above(l.h_max)) + Bit(Above(l.h_min))
           v == 2 * Bit(Above(l.v_max)) + Bit(Above(l.v_min))
           x == 4 * h + v
<1>2. Window(b, o, LimitBytes(l))
  BY WindowIs
<1>3. /\ b[o + 4] = Flag(Above(l.v_max), 2) + Flag(Above(l.v_min), 1) + Flag(Above(l.h_max), 8) + Flag(Above(l.h_min), 4)
      /\ b[o + 5] = Cut(l.v_min) /\ b[o + 6] = Cut(l.v_max) /\ b[o + 7] = Cut(l.h_min) /\ b[o + 8] = Cut(l.h_max)
      /\ b[o + 9] = l.p_max \div 10 /\ b[o + 10] = 1
  BY <1>2, LimitBytesAre DEF Window
<1>4. b[o + 4] = x
  BY <1>3 DEF Flag, Bit
<1>5. h \in 0 .. 3 /\ v \in 0 .. 3 /\ (h \in {2, 3} <=> (h \div 2) % 2 = 1) /\ (v \in {2, 3} <=> (v \div 2) % 2 = 1)
  BY DEF Bit
<1>6. Marks(h, l.h_min, l.h_max) /\ Marks(v, l.v_min, l.v_max)
  BY DEF Marks
<1> HIDE DEF h, v
<1>7. /\ x \in Nat /\ (x \div 16) % 16 = 0 /\ (x \div 4) % 4 = h /\ x % 4 = v
      /\ (x \div 8) % 2 = (h \div 2) % 2 /\ (x \div 2) % 2 = (v \div 2) % 2
  BY <1>5
<1> HIDE DEF x
<1>8. Bits(x, 4, 4) = 0 /\ Bits(x, 2, 2) = h /\ Bits(x, 0, 2) = v
  BY <1>7, TwoIs DEF Bits
<1>9. (Has(x, 8) <=> h \in {2, 3}) /\ (Has(x, 2) <=> v \in {2, 3})
  BY <1>5, <1>7 DEF Has
<1>10. /\ Offset(h) = Stretch(l.h_min, l.h_max)
       /\ Rate(Cut(l.h_min), h = 3) = l.h_min /\ Rate(Cut(l.h_max), h \in {2, 3}) = l.h_max
  BY <1>1, <1>6, Stretched
<1>11. /\ Offset(v) = Stretch(l.v_min, l.v_max)
       /\ Rate(Cut(l.v_min), v = 3) = l.v_min /\ Rate(Cut(l.v_max), v \in {2, 3}) = l.v_max
  BY <1>1, <1>6, Stretched
<1>12. Rate(Cut(l.h_max), Has(x, 8)) = l.h_max /\ Rate(Cut(l.v_max), Has(x, 2)) = l.v_max
  BY <1>9, <1>10, <1>11 DEF Rate
<1> DEFINE f == b[o + 10]  e == << >>
<1>12a. (CASE f = 1 -> "limits" [] f = 2 -> "second gtf" [] f = 4 /\ continuous -> "cvt" [] OTHER -> "gtf") = "limits"
  <2>1. f = 1
    BY <1>3
  <2> HIDE DEF f
  <2> QED BY <2>1
<1>12b. (CASE f = 2 -> Gtf(b, o) [] f = 4 /\ continuous -> Cvt(b, o) [] OTHER -> e) = e
  <2>1. f = 1
    BY <1>3
  <2> HIDE DEF f, e
  <2> QED BY <2>1
<1>13. RangeLimits(b, o, continuous) =
         [h_offset |-> IF Bits(x, 4, 4) = 0 THEN Offset(Bits(x, 2, 2)) ELSE "none",
          v_offset |-> IF Bits(x, 4, 4) = 0 THEN Offset(Bits(x, 0, 2)) ELSE "none",
          v_min |-> Rate(b[o + 5], Bits(x, 0, 2) = 3), v_max |-> Rate(b[o + 6], Has(x, 2)),
          h_min |-> Rate(b[o + 7], Bits(x, 2, 2) = 3), h_max |-> Rate(b[o + 8], Has(x, 8)),
          p_max |-> b[o + 9] * 10, timing_flags |-> "limits", more |-> e]
  BY <1>4, <1>12a, <1>12b, Zenon DEF RangeLimits
<1> HIDE DEF e
<1>14. RangeLimits(b, o, continuous) =
         [h_offset |-> Stretch(l.h_min, l.h_max), v_offset |-> Stretch(l.v_min, l.v_max),
          v_min |-> l.v_min, v_max |-> l.v_max, h_min |-> l.h_min, h_max |-> l.h_max,
          p_max |-> l.p_max, timing_flags |-> "limits", more |-> e]
  BY <1>1, <1>3, <1>8, <1>10, <1>11, <1>12, <1>13
<1>15. [RangeLimits(b, o, continuous) EXCEPT !.more = e] = RangeLimits(b, o, continuous)
  BY <1>14
<1> QED BY <1>14, <1>15, Zenon DEF e

(* WhitePoint reads the point that PointBytes wrote.                       *)
LEMMA PointDecoded ==
  ASSUME NEW q \in Points, NEW b, NEW o \in Nat,
         b[o] = PointBytes(q)[1], b[o + 1] = PointBytes(q)[2], b[o + 2] = PointBytes(q)[3],
         b[o + 3] = PointBytes(q)[4], b[o + 4] = PointBytes(q)[5]
  PROVE  WhitePoint(b, o) = q
<1>1. /\ q.index \in Byte /\ q.x \in Nat /\ q.x < 1024 /\ q.y \in Nat /\ q.y < 1024
      /\ q.gamma \in Nat /\ q.gamma < 355 /\ q.gamma >= 100
      /\ q = [index |-> q.index, x |-> q.x, y |-> q.y, gamma |-> q.gamma]
  BY PointBytesAre
<1> DEFINE f == q.x % 4  g == q.y % 4  z == 4 * f + g
<1>2. f \in 0 .. 3 /\ g \in 0 .. 3 /\ 4 * (q.x \div 4) + f = q.x /\ 4 * (q.y \div 4) + g = q.y
  BY <1>1
<1>3. b[o] = q.index /\ b[o + 1] = z /\ b[o + 2] = q.x \div 4 /\ b[o + 3] = q.y \div 4 /\ b[o + 4] = q.gamma - 100
  BY <1>2 DEF PointBytes, Nibbles
<1> HIDE DEF f, g
<1>4. z \in Nat /\ (z \div 4) % 4 = f /\ z % 4 = g
  BY <1>2
<1> HIDE DEF z
<1>5. Bits(z, 2, 2) = f /\ Bits(z, 0, 2) = g
  BY <1>4, TwoIs DEF Bits
<1>6. q.gamma - 100 < 255 /\ q.gamma - 100 + 100 = q.gamma
  BY <1>1
<1> QED BY <1>1, <1>2, <1>3, <1>5, <1>6 DEF WhitePoint

(* One of the 18 bytes, by its offset.                                     *)
LEMMA HeldAt ==
  ASSUME NEW b, NEW o \in Nat, NEW x, Holds(b, o, x), NEW k \in 1 .. 18, NEW j, o + k - 1 = j
  PROVE  b[j] = x[k]
<1>1. k - 1 \in 0 .. 17 /\ o + (k - 1) = j /\ k - 1 + 1 = k
  OBVIOUS
<1>2. b[o + (k - 1)] = x[k - 1 + 1]
  BY <1>1 DEF Holds
<1> QED BY <1>1, <1>2

(* Without those bytes, a text is what it says.                            *)
LEMMA TextsOwn ==
  ASSUME NEW tag \in {"serial", "string", "name"}, NEW u, IsText(u), NEW tail
  PROVE  Own(<<tag, ReadText(u, tail)>>) = Own(<<tag, [text |-> u, behind |-> "end"]>>)
<1> DEFINE S == Byte \ {0, 10}
<1>0. u \in Seq(S) /\ Len(u) <= 13
  BY DEF IsText
<1> HIDE DEF S
<1>3. Len(u) \in Nat /\ Len(u) <= 13
  BY <1>0
<1>1. CASE Len(u) = 13
  BY <1>1 DEF Own, IsText13, ReadText
<1>2. CASE Len(u) < 13
  <2>1. ReadText(u, tail) = [text |-> u, behind |-> "end"]
    BY <1>2 DEF ReadText
  <2> QED BY <2>1
<1>4. Len(u) = 13 \/ Len(u) < 13
  <2> DEFINE n == Len(u)
  <2>1. n \in Nat /\ n <= 13
    BY <1>3
  <2> HIDE DEF n
  <2>2. n = 13 \/ n < 13
    BY <2>1
  <2> QED BY <2>2 DEF n
<1> QED BY <1>4, <1>1, <1>2, Zenon

(* What is printed of a descriptor is what the monitor means by it.        *)
LEMMA DescriptorShown ==
  ASSUME NEW d, IsDescription(d), d.kind # "bytes", NEW b, NEW o \in Nat, Holds(b, o, DescriptorBytes(d)),
         NEW continuous, NEW old, DOMAIN old = DescriptorFields
  PROVE  Own(ShownDescriptor(Descriptor(b, o, continuous, old))) = Own(Printed(d))
<1> DEFINE D == Descriptor(b, o, continuous, old)
<1>1. Window(b, o, DescriptorBytes(d))
  BY WindowIs
<1>2. CASE d.kind = "timing" /\ IsTiming(d.u)
  <2> DEFINE t == d.u  clock == t.pixel_clock \div 10000
  <2>1. DescriptorBytes(d) = TimingBytes(t)
    BY <1>2 DEF DescriptorBytes
  <2>2. b[o] = LowByte(clock) /\ b[o + 1] = HighPart(clock)
    BY <1>1, <2>1 DEF Window, TimingBytes
  <2>3. t.pixel_clock \in Nat /\ t.pixel_clock > 0 /\ t.pixel_clock % 10000 = 0
    BY <1>2, TimingFields DEF Field
  <2>4. clock \in Nat /\ clock # 0
    BY <2>3
  <2> HIDE DEF clock
  <2>5. b[o] # 0 \/ b[o + 1] # 0
    BY <2>2, <2>4 DEF LowByte, HighPart
  <2>6. DetailedTiming(b, o, TRUE) = [t EXCEPT !.sync = Separate(t, TRUE)]
    <3>1. Window(b, o, TimingBytes(t))
      BY <1>1, <2>1, Zenon
    <3>2. IsTiming(t)
      BY <1>2
    <3> HIDE DEF t
    <3> QED BY <3>1, <3>2, TimingDecoded, ZenonT(60)
  <2>7. D.type = "timing" /\ D.u = DetailedTiming(b, o, TRUE)
    BY <2>5 DEF Descriptor, DescriptorFields, Fill
  <2>8. ShownDescriptor(D) = <<"timing", ShownTiming(D.u)>>
    BY <2>7 DEF ShownDescriptor
  <2>9. ShownTiming(D.u) = t
    BY <1>2, <2>6, <2>7, TimingShown
  <2>10. Printed(d) = <<"timing", t>>
    BY <1>2 DEF Printed
  <2> QED BY <2>8, <2>9, <2>10
<1>3. CASE d.kind = "name" /\ IsText(d.u)
  <2>1. PICK tag \in Byte : tag = \hfc
    BY DEF Byte
  <2>2. Holds(b, o, TextBytes(tag, d.u))
    BY <1>3, <2>1 DEF DescriptorBytes
  <2>4. /\ b[o] = 0 /\ b[o + 1] = 0 /\ b[o + 3] = tag
        /\ Text(b, o, old.tail) = ReadText(d.u, old.tail)
    BY <1>3, <2>2, TextShown
  <2>3. ShownDescriptor(D) = <<"name", Text(b, o, old.tail)>>
    BY <2>1, <2>4, Displayed
  <2>5. Printed(d) = <<"name", [text |-> d.u, behind |-> "end"]>>
    BY <1>3 DEF Printed
  <2>6. Own(<<"name", ReadText(d.u, old.tail)>>) = Own(<<"name", [text |-> d.u, behind |-> "end"]>>)
    BY <1>3, TextsOwn
  <2> QED BY <2>3, <2>4, <2>5, <2>6
<1>4. CASE d.kind = "serial" /\ IsText(d.u)
  <2>1. PICK tag \in Byte : tag = \hff
    BY DEF Byte
  <2>2. Holds(b, o, TextBytes(tag, d.u))
    BY <1>4, <2>1 DEF DescriptorBytes
  <2>4. /\ b[o] = 0 /\ b[o + 1] = 0 /\ b[o + 3] = tag
        /\ Text(b, o, old.tail) = ReadText(d.u, old.tail)
    BY <1>4, <2>2, TextShown
  <2>3. ShownDescriptor(D) = <<"serial", Text(b, o, old.tail)>>
    BY <2>1, <2>4, Displayed
  <2>5. Printed(d) = <<"serial", [text |-> d.u, behind |-> "end"]>>
    BY <1>4 DEF Printed
  <2>6. Own(<<"serial", ReadText(d.u, old.tail)>>) = Own(<<"serial", [text |-> d.u, behind |-> "end"]>>)
    BY <1>4, TextsOwn
  <2> QED BY <2>3, <2>4, <2>5, <2>6
<1>5. CASE d.kind = "limits" /\ IsLimits(d.u)
  <2>1. DescriptorBytes(d) = LimitBytes(d.u)
    BY <1>5 DEF DescriptorBytes
  <2>2. b[o] = 0 /\ b[o + 1] = 0 /\ b[o + 3] = \hfd
    BY <1>1, <1>5, <2>1, LimitBytesAre DEF Window
  <2>3. ShownDescriptor(D) = <<"limits", [RangeLimits(b, o, continuous) EXCEPT !.more = << >>]>>
    BY <2>2, Displayed
  <2>4. [RangeLimits(b, o, continuous) EXCEPT !.more = << >>] =
           [h_offset |-> Stretch(d.u.h_min, d.u.h_max), v_offset |-> Stretch(d.u.v_min, d.u.v_max),
            v_min |-> d.u.v_min, v_max |-> d.u.v_max, h_min |-> d.u.h_min, h_max |-> d.u.h_max,
            p_max |-> d.u.p_max, timing_flags |-> "limits", more |-> << >>]
    <3>1. Holds(b, o, LimitBytes(d.u))
      BY <2>1, Zenon
    <3> QED BY <1>5, <3>1, LimitsDecoded
  <2>5. Printed(d) =
           <<"limits", [h_offset |-> Stretch(d.u.h_min, d.u.h_max), v_offset |-> Stretch(d.u.v_min, d.u.v_max),
                        v_min |-> d.u.v_min, v_max |-> d.u.v_max, h_min |-> d.u.h_min, h_max |-> d.u.h_max,
                        p_max |-> d.u.p_max, timing_flags |-> "limits", more |-> << >>]>>
    BY <1>5 DEF Printed
  <2> QED BY <2>3, <2>4, <2>5, Zenon
<1>6. CASE d.kind = "color" /\ d.u \in [1 .. 2 -> Points]
  <2>1. /\ DescriptorBytes(d)[1] = 0 /\ DescriptorBytes(d)[2] = 0 /\ DescriptorBytes(d)[4] = \hfb
        /\ \A k \in 1 .. 5 : /\ DescriptorBytes(d)[5 + k] = PointBytes(d.u[1])[k]
                             /\ DescriptorBytes(d)[10 + k] = PointBytes(d.u[2])[k]
    BY <1>6, ColorBytesAre
  <2>2. b[o] = 0 /\ b[o + 1] = 0 /\ b[o + 3] = \hfb
    BY <1>1, <2>1 DEF Window
  <2>3. ShownDescriptor(D) = <<"color", <<WhitePoint(b, o + 5), WhitePoint(b, o + 10)>> >>
    BY <2>2, Displayed
  <2>4. WhitePoint(b, o + 5) = d.u[1] /\ WhitePoint(b, o + 10) = d.u[2]
    <3>1. d.u[1] \in Points /\ d.u[2] \in Points
      BY <1>6
    <3>2. /\ b[o + 5] = PointBytes(d.u[1])[1] /\ b[o + 5 + 1] = PointBytes(d.u[1])[2]
          /\ b[o + 5 + 2] = PointBytes(d.u[1])[3] /\ b[o + 5 + 3] = PointBytes(d.u[1])[4]
          /\ b[o + 5 + 4] = PointBytes(d.u[1])[5]
      BY <1>1, <2>1 DEF Window
    <3>3. /\ b[o + 10] = PointBytes(d.u[2])[1] /\ b[o + 10 + 1] = PointBytes(d.u[2])[2]
          /\ b[o + 10 + 2] = PointBytes(d.u[2])[3] /\ b[o + 10 + 3] = PointBytes(d.u[2])[4]
          /\ b[o + 10 + 4] = PointBytes(d.u[2])[5]
      BY <1>1, <2>1 DEF Window
    <3>4. o + 5 \in Nat /\ o + 10 \in Nat
      OBVIOUS
    <3> QED BY <3>1, <3>2, <3>3, <3>4, PointDecoded
  <2>5. Printed(d) = <<"color", d.u>>
    BY <1>6 DEF Printed
  <2>6. d.u = <<d.u[1], d.u[2]>>
    BY <1>6
  <2> QED BY <2>3, <2>4, <2>5, <2>6
<1>7. CASE d.kind = "standard" /\ AreModes(6, d.u)
  <2>1. /\ DescriptorBytes(d)[1] = 0 /\ DescriptorBytes(d)[2] = 0 /\ DescriptorBytes(d)[4] = \hfa
        /\ \A k \in 1 .. 12 : DescriptorBytes(d)[5 + k] = ModeBytes(6, d.u)[k]
    BY <1>7, StandardBytesAre
  <2>2. b[o] = 0 /\ b[o + 1] = 0 /\ b[o + 3] = \hfa
    BY <1>1, <2>1 DEF Window
  <2>3. ShownDescriptor(D) = <<"standard", Used(6, StandardTimings(b, o + 5, 6, old.extra))>>
    BY <2>2, Displayed
  <2>4. Used(6, StandardTimings(b, o + 5, 6, old.extra)) = Listed(6, d.u)
    <3>1. ASSUME NEW k \in 1 .. 12 PROVE b[o + 5 + k - 1] = ModeBytes(6, d.u)[k]
      <4>1. 5 + k \in 1 .. 18 /\ o + (5 + k) - 1 = o + 5 + k - 1
        OBVIOUS
      <4>2. b[o + 5 + k - 1] = DescriptorBytes(d)[5 + k]
        BY <4>1, HeldAt
      <4> QED BY <4>2, <2>1
    <3>2. o + 5 \in Nat /\ 6 \in Nat /\ 6 * 2 = 12
      OBVIOUS
    <3> QED BY <1>7, <3>1, <3>2, ModesDecoded
  <2>5. Printed(d) = <<"standard", Listed(6, d.u)>>
    BY <1>7 DEF Printed
  <2> QED BY <2>3, <2>4, <2>5
<1>8. CASE d.kind = "established" /\ d.u \subseteq 0 .. 16
  <2>1. /\ DescriptorBytes(d)[1] = 0 /\ DescriptorBytes(d)[2] = 0 /\ DescriptorBytes(d)[4] = \hf7
        /\ \A k \in 1 .. 6 : DescriptorBytes(d)[6 + k] = BitByte(d.u, 8 * (k - 1))
    BY <1>8, EstablishedBytesAre
  <2>2. b[o] = 0 /\ b[o + 1] = 0 /\ b[o + 3] = \hf7
    BY <1>1, <2>1 DEF Window
  <2>3. ShownDescriptor(D) = <<"established", Established(b, o + 6, 44) \cap (0 .. 16)>>
    BY <2>2, Displayed
  <2>4. Established(b, o + 6, 44) = d.u \cap (0 .. 44 - 1)
    <3>1. ASSUME NEW k \in 0 .. 6 - 1 PROVE b[o + 6 + k] = BitByte(d.u, 8 * k)
      <4>1. k + 1 \in 1 .. 6 /\ 6 + (k + 1) \in 1 .. 18 /\ o + (6 + (k + 1)) - 1 = o + 6 + k /\ k + 1 - 1 = k
        OBVIOUS
      <4>2. b[o + 6 + k] = DescriptorBytes(d)[6 + (k + 1)]
        BY <4>1, HeldAt
      <4> QED BY <4>1, <4>2, <2>1
    <3>2. o + 6 \in Nat /\ 6 \in Nat /\ 44 \in Nat /\ 44 <= 8 * 6
      OBVIOUS
    <3>3. BitsAt(b, o + 6, 6, d.u)
      BY <3>1 DEF BitsAt
    <3> QED BY <3>2, <3>3, EstablishedDecoded
  <2>5. (d.u \cap (0 .. 44 - 1)) \cap (0 .. 16) = d.u
    BY <1>8
  <2>6. Printed(d) = <<"established", d.u>>
    BY <1>8 DEF Printed
  <2> QED BY <2>3, <2>4, <2>5, <2>6
<1> QED BY <1>2, <1>3, <1>4, <1>5, <1>6, <1>7, <1>8 DEF IsDescription

InfoFields ==
  {"checksum", "id_mfg", "id_prod", "id_sn", "mfg_week", "mfg_year", "model_year", "ver", "input", "screen",
   "gamma", "feature", "chromaticity", "timing_1_2", "standard_timings", "descriptors", "extensions",
   "ext_tag", "cea_ext", "others"}

(* The fields of the base block, from the bytes.                           *)
LEMMA BaseHas ==
  ASSUME NEW b, NEW old
  PROVE  LET base == Base(b, old) IN
         /\ base.mfg_week = (IF b[16] \in 1 .. 54 THEN b[16] ELSE 0)
         /\ base.mfg_year = (IF b[16] = 255 THEN 0 ELSE 1990 + b[17])
         /\ base.model_year = (IF b[16] = 255 THEN 1990 + b[17] ELSE 0)
         /\ base.input = Input(b[20]) /\ base.screen = Screen(b[21], b[22])
         /\ base.gamma = (IF b[23] < 255 THEN b[23] + 100 ELSE 0)
         /\ base.timing_1_2 = Established(b, 35, 17)
         /\ base.standard_timings = StandardTimings(b, 38, 8, old.standard_timings)
         /\ base.descriptors = [k \in 1 .. 4 |-> Descriptor(b, 36 + 18 * k, Continuous(b), old.descriptors[k])]
         /\ base.ext_tag = old.ext_tag /\ base.cea_ext = old.cea_ext
BY DEF Base, InfoFields, Continuous

Ext(b, info) == [info EXCEPT !.ext_tag = 2, !.cea_ext = edid_decode_cea(b, 128, @)]

(* The decoded struct: the base block, and the extension if there is one.  *)
LEMMA DecodedHas ==
  ASSUME NEW b, NEW old, Checked(b)
  PROVE  LET base == Base(b, old)  info == edid_decode_v14(b, old).info IN
         /\ \A f \in InfoFields \ {"ext_tag", "cea_ext"} : info[f] = base[f]
         /\ DOMAIN info = InfoFields
         /\ Extends(b) => info.ext_tag = 2 /\ info.cea_ext = edid_decode_cea(b, 128, old.cea_ext)
         /\ ~Extends(b) => info = base
<1> DEFINE base == Base(b, old)  info == edid_decode_v14(b, old).info
<1>1. info = IF Extends(b) THEN Ext(b, base) ELSE base
  BY Zenon DEF edid_decode_v14, edid_decode_extensions, Extends, Ext
<1>2. DOMAIN base = InfoFields /\ base.cea_ext = old.cea_ext
  BY DEF Base, InfoFields
<1> HIDE DEF base, info
<1>3. CASE Extends(b)
  <2>1. info = [base EXCEPT !.ext_tag = 2, !.cea_ext = edid_decode_cea(b, 128, base.cea_ext)]
    BY <1>1, <1>3 DEF Ext
  <2> QED BY <2>1, <1>2, <1>3 DEF InfoFields, info, base
<1>4. CASE ~Extends(b)
  BY <1>1, <1>2, <1>4 DEF info, base
<1> QED BY <1>3, <1>4

(* What is printed, from the bytes.                                        *)
LEMMA PrintHas ==
  ASSUME NEW b, NEW old, Checked(b)
  PROVE  LET x == Printout(b, old) IN
         /\ x.date = <<IF b[16] \in 1 .. 54 THEN b[16] ELSE 0, IF b[16] = 255 THEN 0 ELSE 1990 + b[17],
                       IF b[16] = 255 THEN 1990 + b[17] ELSE 0>>
         /\ x.input = Input(b[20]) /\ x.screen = Screen(b[21], b[22])
         /\ x.gamma = (IF b[23] < 255 THEN b[23] + 100 ELSE 0)
         /\ x.timing_1_2 = Established(b, 35, 17)
         /\ x.standard_timings = Used(8, StandardTimings(b, 38, 8, old.standard_timings))
         /\ x.descriptors = [k \in 1 .. 4 |-> ShownDescriptor(Descriptor(b, 36 + 18 * k, Continuous(b), old.descriptors[k]))]
         /\ Extends(b) => x.cea = edid_print_cea(edid_decode_cea(b, 128, old.cea_ext))
<1> DEFINE base == Base(b, old)  info == edid_decode_v14(b, old).info  x == Printout(b, old)
<1>1. /\ base.mfg_week = (IF b[16] \in 1 .. 54 THEN b[16] ELSE 0)
      /\ base.mfg_year = (IF b[16] = 255 THEN 0 ELSE 1990 + b[17])
      /\ base.model_year = (IF b[16] = 255 THEN 1990 + b[17] ELSE 0)
      /\ base.input = Input(b[20]) /\ base.screen = Screen(b[21], b[22])
      /\ base.gamma = (IF b[23] < 255 THEN b[23] + 100 ELSE 0)
      /\ base.timing_1_2 = Established(b, 35, 17)
      /\ base.standard_timings = StandardTimings(b, 38, 8, old.standard_timings)
      /\ base.descriptors = [k \in 1 .. 4 |-> Descriptor(b, 36 + 18 * k, Continuous(b), old.descriptors[k])]
  BY BaseHas
<1>2. \A f \in InfoFields \ {"ext_tag", "cea_ext"} : info[f] = base[f]
  BY DecodedHas
<1>3. Extends(b) => info.ext_tag = 2 /\ info.cea_ext = edid_decode_cea(b, 128, old.cea_ext)
  BY DecodedHas
<1>4. x = edid_print_v14(info)
  BY DEF Printout
<1> HIDE DEF base, info, x
<1>5. /\ info.mfg_week = base.mfg_week /\ info.mfg_year = base.mfg_year /\ info.model_year = base.model_year
      /\ info.input = base.input /\ info.screen = base.screen /\ info.gamma = base.gamma
      /\ info.timing_1_2 = base.timing_1_2 /\ info.standard_timings = base.standard_timings
      /\ info.descriptors = base.descriptors
  BY <1>2 DEF InfoFields
<1>6. /\ x.date = <<info.mfg_week, info.mfg_year, info.model_year>>
      /\ x.input = info.input /\ x.screen = info.screen /\ x.gamma = info.gamma
      /\ x.timing_1_2 = info.timing_1_2 /\ x.standard_timings = Used(8, info.standard_timings)
      /\ x.descriptors = [k \in 1 .. 4 |-> ShownDescriptor(info.descriptors[k])]
      /\ x.cea = (IF info.ext_tag = 2 THEN edid_print_cea(info.cea_ext) ELSE << >>)
  BY <1>4 DEF edid_print_v14
<1>7. x.descriptors = [k \in 1 .. 4 |-> ShownDescriptor(Descriptor(b, 36 + 18 * k, Continuous(b), old.descriptors[k]))]
  <2>1. \A k \in 1 .. 4 : info.descriptors[k] = Descriptor(b, 36 + 18 * k, Continuous(b), old.descriptors[k])
    BY <1>1, <1>5
  <2> QED BY <2>1, <1>6
<1>8. Extends(b) => x.cea = edid_print_cea(edid_decode_cea(b, 128, old.cea_ext))
  BY <1>3, <1>6
<1>9. x.standard_timings = Used(8, StandardTimings(b, 38, 8, old.standard_timings))
  BY <1>1, <1>5, <1>6
<1>10. /\ x.date = <<IF b[16] \in 1 .. 54 THEN b[16] ELSE 0, IF b[16] = 255 THEN 0 ELSE 1990 + b[17],
                     IF b[16] = 255 THEN 1990 + b[17] ELSE 0>>
       /\ x.input = Input(b[20]) /\ x.screen = Screen(b[21], b[22])
       /\ x.gamma = (IF b[23] < 255 THEN b[23] + 100 ELSE 0)
       /\ x.timing_1_2 = Established(b, 35, 17)
  BY <1>1, <1>5, <1>6
<1> QED BY <1>7, <1>8, <1>9, <1>10 DEF x

(* Where the base block has the parts of the monitor.                      *)
LEMMA BaseBytes ==
  ASSUME NEW m, NEW e, IsEdid(e, m)
  PROVE  /\ e[16] = m.week /\ e[17] = m.year - 1990 /\ e[20] = 128 + 16 * m.depth + 5
         /\ e[21] = m.size[1] /\ e[22] = m.size[2] /\ e[23] = m.gamma - 100
         /\ e[126] = (IF HasExtension(m) THEN 1 ELSE 0)
         /\ \A k \in 35 .. 37 : e[k] = BitBytes(3, m.established)[k - 34]
         /\ \A k \in 38 .. 53 : e[k] = ModeBytes(8, m.standard)[k - 37]
         /\ \A k \in 54 .. 125 : e[k] = DescriptorBytes(m.descriptors[(k - 54) \div 18 + 1])[((k - 54) % 18) + 1]
<1>1. \A k \in 0 .. 126 : e[k] = BaseByte(m, k)
  BY DEF IsEdid
<1> DEFINE line == <<m.week, m.year - 1990, 1, 4, 128 + 16 * m.depth + 5, m.size[1], m.size[2], m.gamma - 100, 7>>
<1>2. \A k \in 16 .. 24 : e[k] = line[k - 15]
  <2>1. ASSUME NEW k \in 16 .. 24 PROVE e[k] = line[k - 15]
    <3>1. k \in 0 .. 126
      OBVIOUS
    <3>2. Branches(m, k)
      BY <3>1, BaseCases
    <3>3. BaseByte(m, k) = line[k - 15]
      BY <3>2 DEF Branches
    <3> QED BY <3>1, <3>3, <1>1
  <2> QED BY <2>1
<1>3. line[16 - 15] = m.week /\ line[17 - 15] = m.year - 1990 /\ line[20 - 15] = 128 + 16 * m.depth + 5
      /\ line[21 - 15] = m.size[1] /\ line[22 - 15] = m.size[2] /\ line[23 - 15] = m.gamma - 100
  OBVIOUS
<1> HIDE DEF line
<1>4. /\ e[16] = m.week /\ e[17] = m.year - 1990 /\ e[20] = 128 + 16 * m.depth + 5
      /\ e[21] = m.size[1] /\ e[22] = m.size[2] /\ e[23] = m.gamma - 100
  BY <1>2, <1>3
<1>5. e[126] = (IF HasExtension(m) THEN 1 ELSE 0)
  <2>1. 126 \in 0 .. 126
    OBVIOUS
  <2>2. Branches(m, 126)
    BY <2>1, BaseCases
  <2>3. BaseByte(m, 126) = (IF HasExtension(m) THEN 1 ELSE 0)
    BY <2>2 DEF Branches
  <2> QED BY <2>1, <2>3, <1>1
<1>6. ASSUME NEW k \in 35 .. 37 PROVE e[k] = BitBytes(3, m.established)[k - 34]
  <2>1. k \in 0 .. 126
    OBVIOUS
  <2>2. Branches(m, k)
    BY <2>1, BaseCases
  <2>3. BaseByte(m, k) = BitBytes(3, m.established)[k - 34]
    BY <2>2 DEF Branches
  <2> QED BY <2>1, <2>3, <1>1
<1>7. ASSUME NEW k \in 38 .. 53 PROVE e[k] = ModeBytes(8, m.standard)[k - 37]
  <2>1. k \in 0 .. 126
    OBVIOUS
  <2>2. Branches(m, k)
    BY <2>1, BaseCases
  <2>3. BaseByte(m, k) = ModeBytes(8, m.standard)[k - 37]
    BY <2>2 DEF Branches
  <2> QED BY <2>1, <2>3, <1>1
<1>8. ASSUME NEW k \in 54 .. 125
      PROVE  e[k] = DescriptorBytes(m.descriptors[(k - 54) \div 18 + 1])[((k - 54) % 18) + 1]
  <2>1. k \in 0 .. 126
    OBVIOUS
  <2>2. Branches(m, k)
    BY <2>1, BaseCases
  <2>3. BaseByte(m, k) = DescriptorBytes(m.descriptors[(k - 54) \div 18 + 1])[((k - 54) % 18) + 1]
    BY <2>2 DEF Branches
  <2> QED BY <2>1, <2>3, <1>1
<1> QED BY <1>4, <1>5, <1>6, <1>7, <1>8

(* The byte of the digital input.                                          *)
LEMMA InputDecoded ==
  ASSUME NEW d \in 0 .. 6
  PROVE  Input(128 + 16 * d + 5) = [digital_if |-> TRUE, depth |-> d, interface |-> 5]
<1> DEFINE x == 128 + 16 * d + 5
<1>1. x \in Nat /\ (x \div 128) % 2 = 1 /\ (x \div 16) % 8 = d /\ x % 16 = 5
  OBVIOUS
<1> HIDE DEF x
<1>2. Has(x, 128)
  BY <1>1 DEF Has
<1>3. Bits(x, 4, 3) = d /\ Bits(x, 0, 4) = 5 /\ d # 7
  BY <1>1, TwoIs DEF Bits
<1>4. Input(x) = [digital_if |-> TRUE, depth |-> IF Bits(x, 4, 3) = 7 THEN 0 ELSE Bits(x, 4, 3),
                  interface |-> IF Bits(x, 0, 4) > 5 THEN 0 ELSE Bits(x, 0, 4)]
  BY <1>2, Zenon DEF Input
<1>5. ~(5 > 5) /\ ~(Bits(x, 4, 3) = 7)
  BY <1>3
<1>6. (IF Bits(x, 4, 3) = 7 THEN 0 ELSE Bits(x, 4, 3)) = d /\ (IF Bits(x, 0, 4) > 5 THEN 0 ELSE Bits(x, 0, 4)) = 5
  BY <1>3, <1>5
<1>7. Input(x) = [digital_if |-> TRUE, depth |-> d, interface |-> 5]
  BY <1>4, <1>6
<1> QED BY <1>7 DEF x

(* The codes of the n modes are at o.                                      *)
ModesAt(b, o, n, modes) == \A k \in 1 .. n * 2 : b[o + k - 1] = ModeBytes(n, modes)[k]

(* The standard timings at their place.                                    *)
LEMMA ModesShown ==
  ASSUME NEW n \in Nat, NEW modes, AreModes(n, modes), NEW b, NEW o \in Nat, NEW old, ModesAt(b, o, n, modes)
  PROVE  Used(n, StandardTimings(b, o, n, old)) = Listed(n, modes)
BY ModesDecoded DEF ModesAt

(* What is printed of the base block is what the monitor means by it.      *)
LEMMA BaseShown ==
  ASSUME NEW m, IsMonitor(m), NEW e, IsEdid(e, m), Checked(e), NEW old, Shaped(old)
  PROVE  LET x == Printout(e, old) IN
         /\ x.date = <<m.week, m.year, 0>> /\ x.gamma = m.gamma
         /\ x.input = [digital_if |-> TRUE, depth |-> m.depth, interface |-> 5]
         /\ x.screen = [defined |-> "size", horizontal |-> m.size[1], vertical |-> m.size[2]]
         /\ x.timing_1_2 = m.established /\ x.standard_timings = Listed(8, m.standard)
         /\ \A k \in 1 .. 4 : m.descriptors[k].kind # "bytes" => Own(x.descriptors[k]) = Own(Printed(m.descriptors[k]))
<1> DEFINE x == Printout(e, old)
<1>0. /\ m.week \in 0 .. 54 /\ m.year \in {1990 + y : y \in Byte}
      /\ m.depth \in 0 .. 6 /\ m.size \in [1 .. 2 -> 1 .. 255] /\ m.gamma \in {g \in Below(355) : g >= 100}
      /\ m.established \subseteq 0 .. 16 /\ AreModes(8, m.standard)
      /\ \A k \in 1 .. 4 : IsDescription(m.descriptors[k])
  BY Zenon DEF IsMonitor
<1>1. /\ x.date = <<IF e[16] \in 1 .. 54 THEN e[16] ELSE 0, IF e[16] = 255 THEN 0 ELSE 1990 + e[17],
                    IF e[16] = 255 THEN 1990 + e[17] ELSE 0>>
      /\ x.input = Input(e[20]) /\ x.screen = Screen(e[21], e[22])
      /\ x.gamma = (IF e[23] < 255 THEN e[23] + 100 ELSE 0)
      /\ x.timing_1_2 = Established(e, 35, 17)
      /\ x.standard_timings = Used(8, StandardTimings(e, 38, 8, old.standard_timings))
      /\ x.descriptors = [k \in 1 .. 4 |-> ShownDescriptor(Descriptor(e, 36 + 18 * k, Continuous(e), old.descriptors[k]))]
  BY PrintHas
<1> HIDE DEF x
<1>2. /\ e[16] = m.week /\ e[17] = m.year - 1990 /\ e[20] = 128 + 16 * m.depth + 5
      /\ e[21] = m.size[1] /\ e[22] = m.size[2] /\ e[23] = m.gamma - 100
  BY BaseBytes
<1>3. x.date = <<m.week, m.year, 0>>
  <2>1. m.week # 255 /\ (m.week \in 1 .. 54 \/ m.week = 0) /\ 1990 + (m.year - 1990) = m.year
    <3>1. PICK y \in Byte : m.year = 1990 + y
      BY <1>0
    <3>2. y \in Nat
      BY DEF Byte
    <3>3. 1990 + (m.year - 1990) = m.year
      BY <3>1, <3>2
    <3> QED BY <1>0, <3>3
  <2> QED BY <1>1, <1>2, <2>1
<1>4. x.gamma = m.gamma
  <2>1. m.gamma \in Nat /\ m.gamma < 355
    BY <1>0 DEF Below
  <2> QED BY <1>1, <1>2, <2>1
<1>5. x.input = [digital_if |-> TRUE, depth |-> m.depth, interface |-> 5]
  <2>1. Input(128 + 16 * m.depth + 5) = [digital_if |-> TRUE, depth |-> m.depth, interface |-> 5]
    BY <1>0, InputDecoded, Zenon
  <2> QED BY <1>1, <1>2, <2>1
<1>6. x.screen = [defined |-> "size", horizontal |-> m.size[1], vertical |-> m.size[2]]
  <2>1. m.size[1] # 0 /\ m.size[2] # 0
    BY <1>0
  <2> QED BY <1>1, <1>2, <2>1 DEF Screen
<1>7. x.timing_1_2 = m.established
  <2>1. \A k \in 35 .. 37 : e[k] = BitBytes(3, m.established)[k - 34]
    BY BaseBytes
  <2>2. ASSUME NEW k \in 0 .. 3 - 1 PROVE e[35 + k] = BitByte(m.established, 8 * k)
    <3>1. 35 + k \in 35 .. 37 /\ 35 + k - 34 = k + 1 /\ k + 1 \in 1 .. 3 /\ k + 1 - 1 = k
      OBVIOUS
    <3>2. \A j \in 1 .. 3 : BitBytes(3, m.established)[j] = BitByte(m.established, 8 * (j - 1))
      BY BitBytesAre
    <3>3. BitBytes(3, m.established)[k + 1] = BitByte(m.established, 8 * (k + 1 - 1))
      BY <3>1, <3>2
    <3> QED BY <3>1, <3>3, <2>1
  <2>3. BitsAt(e, 35, 3, m.established)
    BY <2>2 DEF BitsAt
  <2>4. 35 \in Nat /\ 3 \in Nat /\ 17 \in Nat /\ 17 <= 8 * 3
    OBVIOUS
  <2>5. Established(e, 35, 17) = m.established \cap (0 .. 17 - 1)
    BY <2>3, <2>4, EstablishedDecoded
  <2>6. m.established \cap (0 .. 17 - 1) = m.established
    BY <1>0
  <2>7. x.timing_1_2 = Established(e, 35, 17)
    BY <1>1
  <2> QED BY <2>5, <2>6, <2>7, Zenon
<1>8. x.standard_timings = Listed(8, m.standard)
  <2>1. \A k \in 38 .. 53 : e[k] = ModeBytes(8, m.standard)[k - 37]
    BY BaseBytes
  <2>2. ASSUME NEW k \in 1 .. 8 * 2 PROVE e[38 + k - 1] = ModeBytes(8, m.standard)[k]
    <3>1. 38 + k - 1 \in 38 .. 53 /\ 38 + k - 1 - 37 = k
      OBVIOUS
    <3>2. e[38 + k - 1] = ModeBytes(8, m.standard)[38 + k - 1 - 37]
      BY <3>1, <2>1
    <3> QED BY <3>1, <3>2
  <2>3. ModesAt(e, 38, 8, m.standard)
    BY <2>2 DEF ModesAt
  <2>4. 38 \in Nat /\ 8 \in Nat
    OBVIOUS
  <2>5. Used(8, StandardTimings(e, 38, 8, old.standard_timings)) = Listed(8, m.standard)
    BY <1>0, <2>3, <2>4, ModesShown
  <2> QED BY <1>1, <2>5
<1>9. ASSUME NEW k \in 1 .. 4, m.descriptors[k].kind # "bytes"
      PROVE  Own(x.descriptors[k]) = Own(Printed(m.descriptors[k]))
  <2> DEFINE o == 36 + 18 * k
  <2>1. x.descriptors[k] = ShownDescriptor(Descriptor(e, o, Continuous(e), old.descriptors[k]))
    BY <1>1
  <2>2. \A n \in 54 .. 125 : e[n] = DescriptorBytes(m.descriptors[(n - 54) \div 18 + 1])[((n - 54) % 18) + 1]
    BY BaseBytes
  <2>3. ASSUME NEW j \in 0 .. 17 PROVE e[o + j] = DescriptorBytes(m.descriptors[k])[j + 1]
    <3>1. o + j \in 54 .. 125 /\ (o + j - 54) \div 18 + 1 = k /\ (o + j - 54) % 18 = j
      OBVIOUS
    <3>2. PICK n \in 54 .. 125 : n = o + j
      BY <3>1
    <3>4. (n - 54) \div 18 + 1 = k /\ (n - 54) % 18 = j
      BY <3>2
    <3> HIDE DEF o
    <3>3. e[n] = DescriptorBytes(m.descriptors[(n - 54) \div 18 + 1])[((n - 54) % 18) + 1]
      BY <2>2
    <3> QED BY <3>2, <3>3, <3>4
  <2>4. o \in Nat /\ Holds(e, o, DescriptorBytes(m.descriptors[k]))
    BY <2>3 DEF Holds
  <2>5. IsDescription(m.descriptors[k]) /\ DOMAIN old.descriptors[k] = DescriptorFields
    BY <1>0 DEF Shaped
  <2> HIDE DEF o
  <2> QED BY <1>9, <2>1, <2>4, <2>5, DescriptorShown
<1> QED BY <1>3, <1>4, <1>5, <1>6, <1>7, <1>8, <1>9 DEF x

(***************************************************************************)
(* The extension: the walk over the data blocks.                           *)
(***************************************************************************)
IsWalk(g, b, dtd, n, w) ==
  g[0] = w /\ \A k \in 1 .. n : g[k] = NextBlock(b, dtd, g[k - 1])

(* The loop over the data blocks, a step for each one.                     *)
LEMMA WalkIs ==
  ASSUME NEW b, NEW o \in Nat, NEW dtd \in Nat, o < dtd, NEW cea
  PROVE  \E g : IsWalk(g, b, dtd, dtd - o, [c |-> o, cea |-> cea]) /\ Walk(b, o, dtd, cea) = g[dtd - o].cea
<1> DEFINE N == dtd - o  a == [c |-> o, cea |-> cea]
           after[k \in 0 .. N] == IF k = 0 THEN a ELSE NextBlock(b, dtd, after[k - 1])
           Is(f, n) == f = [k \in 0 .. n |-> IF k = 0 THEN a ELSE NextBlock(b, dtd, f[k - 1])]
           T == {n \in 0 .. N : \E f : Is(f, n)}
<1>1. N \in Nat /\ N # 0
  OBVIOUS
<1>2. Walk(b, o, dtd, cea) = after[N].cea
  BY <1>1 DEF Walk, Repeat
<1> HIDE DEF N, a
<1>3. 0 \in T
  <2>1. Is([k \in 0 .. 0 |-> a], 0)
    OBVIOUS
  <2>2. 0 \in 0 .. N
    BY <1>1
  <2> HIDE DEF Is
  <2> QED BY <2>1, <2>2
<1>4. ASSUME NEW n \in 0 .. N - 1, n \in T PROVE n + 1 \in T
  <2>1. PICK f : Is(f, n)
    BY <1>4
  <2> DEFINE h == [k \in 0 .. n + 1 |-> IF k <= n THEN f[k] ELSE NextBlock(b, dtd, f[k - 1])]
  <2>2. ASSUME NEW k \in 0 .. n + 1 PROVE h[k] = IF k = 0 THEN a ELSE NextBlock(b, dtd, h[k - 1])
    <3>1. CASE k <= n
      <4>1. k \in 0 .. n /\ f[k] = (IF k = 0 THEN a ELSE NextBlock(b, dtd, f[k - 1]))
        BY <2>1, <3>1, <1>1
      <4>2. k # 0 => k - 1 \in 0 .. n + 1 /\ k - 1 <= n
        BY <3>1, <1>1
      <4> QED BY <4>1, <4>2, <3>1, <1>1
    <3>2. CASE k = n + 1
      <4>1. k # 0 /\ ~(k <= n) /\ k - 1 \in 0 .. n + 1 /\ k - 1 <= n
        BY <3>2, <1>1
      <4> QED BY <4>1
    <3> QED BY <3>1, <3>2, <1>1
  <2>3. Is(h, n + 1) /\ n + 1 \in 0 .. N
    BY <2>2, <1>1
  <2> HIDE DEF Is, h
  <2> QED BY <2>3
<1> HIDE DEF T
<1>5. N \in T
  <2>1. 0 .. N \subseteq T
    BY <1>1, <1>3, <1>4, Induction
  <2> QED BY <2>1, <1>1
<1>6. PICK f : Is(f, N)
  BY <1>5 DEF T
<1>7. after = [k \in 0 .. N |-> IF k = 0 THEN a ELSE NextBlock(b, dtd, after[k - 1])]
  BY <1>6
<1> HIDE DEF after
<1>8. IsWalk(after, b, dtd, N, a)
  <2>1. after[0] = a
    BY <1>7, <1>1
  <2>2. \A k \in 1 .. N : after[k] = NextBlock(b, dtd, after[k - 1])
    BY <1>7, <1>1
  <2> QED BY <2>1, <2>2 DEF IsWalk
<1> QED BY <1>2, <1>8 DEF N, a

LEMMA OverrunIs ==
  ASSUME NEW list, NEW cea, DOMAIN cea = CeaFields
  PROVE  LET x == Overrun(list, cea) IN
         /\ DOMAIN x = CeaFields
         /\ \A f \in CeaFields \ {"db_colorimetry", "db_vcdb", "detailed_timing"} : x[f] = cea[f]
         /\ x.db_colorimetry = OverColors(list, cea.db_colorimetry)
         /\ x.db_vcdb = OverVcdb(list, cea.db_vcdb)
         /\ x.detailed_timing = OverTimings(list, cea.detailed_timing)
<1> DEFINE n == Len(list) - ROOM  x == Overrun(list, cea)
           first == list[ROOM + 1]  second == list[ROOM + 2]  third == list[ROOM + 3]
<1>1. CASE n <= 0
  BY <1>1 DEF Overrun, OverColors, OverVcdb, OverTimings
<1>2. CASE ~(n <= 0)
  <2> DEFINE colors == <<first.vic_2d, first.struct_3d>>
             vcdb == [quant_range_sel |-> first.detail_3d, pt |-> IF n > 1 THEN second.vic_2d ELSE cea.db_vcdb.pt,
                      it |-> IF n > 1 THEN second.struct_3d ELSE cea.db_vcdb.it,
                      ce |-> IF n > 1 THEN second.detail_3d ELSE cea.db_vcdb.ce]
             times == [cea.detailed_timing EXCEPT ![1] = IF n <= 2 THEN @ ELSE
                         [@ EXCEPT !.pixel_clock = third.vic_2d, !.width = third.struct_3d, !.height = third.detail_3d]]
  <2>1. OverColors(list, cea.db_colorimetry) = colors /\ OverVcdb(list, cea.db_vcdb) = vcdb
        /\ OverTimings(list, cea.detailed_timing) = times
    BY <1>2, Zenon DEF OverColors, OverVcdb, OverTimings
  <2>2. x = [cea EXCEPT !.db_colorimetry = colors, !.db_vcdb = vcdb, !.detailed_timing = times]
    BY <1>2 DEF Overrun, CeaFields
  <2> HIDE DEF x, colors, vcdb, times
  <2> QED BY <2>1, <2>2 DEF CeaFields, x
<1> QED BY <1>1, <1>2

(* A data block changes the field of its tag and no other.                 *)
LEMMA DataBlockIs ==
  ASSUME NEW b, NEW c, NEW cea, DOMAIN cea = CeaFields, BlockTag(b, c) \in {1, 2, 3, 4, 5, 7}
  PROVE  BlockStep(DataBlock(b, c, cea), b, c, cea)
<1> DEFINE t == BlockTag(b, c)
<1> HIDE DEF t
<1>1. t \in {1, 2, 3, 4, 5, 7}
  BY DEF t
<1>8. Tags.audio = 1 /\ Tags.video = 2 /\ Tags.vendor = 3 /\ Tags.speaker = 4 /\ Tags.dtc = 5 /\ Tags.extended = 7
  BY DEF Tags
<1> DEFINE A == [cea EXCEPT !.db_audio = Audio(b, c, @)]  V == [cea EXCEPT !.db_video = Video(b, c)]
           X == [cea EXCEPT !.db_vsdb_hdmi = Vendor(b, c, @)]
           W == Overrun(Written(b, c), X)
           S == [cea EXCEPT !.db_speaker = Bits(b[c + 1], 0, 7)]
           E == Extended(b, c, cea)
           new == CASE t = 1 -> A [] t = 2 -> V [] t = 3 -> W [] t = 4 -> S [] t = 5 -> cea [] t = 7 -> E
<1>9. DataBlock(b, c, cea) = [new EXCEPT !.dbc_tags = Append(@, t)]
  BY <1>8 DEF DataBlock, t
<1>10. /\ t = 1 => new = A
       /\ t = 2 => new = V
       /\ t = 3 => new = W
       /\ t = 4 => new = S
       /\ t = 5 => new = cea
       /\ t = 7 => new = E
  <2> HIDE DEF A, V, W, S, E
  <2> QED OBVIOUS
<1> HIDE DEF new
<1>2. CASE t = 1
  <2>1. DataBlock(b, c, cea) = [[cea EXCEPT !.db_audio = Audio(b, c, @)] EXCEPT !.dbc_tags = Append(@, t)]
    BY <1>2, <1>9, <1>10
  <2> QED BY <2>1, <1>2 DEF BlockStep, CeaFields, t
<1>3. CASE t = 2
  <2>1. DataBlock(b, c, cea) = [[cea EXCEPT !.db_video = Video(b, c)] EXCEPT !.dbc_tags = Append(@, t)]
    BY <1>3, <1>9, <1>10
  <2> QED BY <2>1, <1>3 DEF BlockStep, CeaFields, t
<1>4. CASE t = 3
  <2>1. DataBlock(b, c, cea) = [W EXCEPT !.dbc_tags = Append(@, t)]
    BY <1>4, <1>9, <1>10
  <2>2. /\ DOMAIN X = CeaFields /\ X.db_vsdb_hdmi = Vendor(b, c, cea.db_vsdb_hdmi)
        /\ \A f \in CeaFields \ {"db_vsdb_hdmi"} : X[f] = cea[f]
    BY DEF CeaFields
  <2> HIDE DEF X
  <2>3. /\ DOMAIN W = CeaFields
        /\ \A f \in CeaFields \ {"db_colorimetry", "db_vcdb", "detailed_timing"} : W[f] = X[f]
        /\ W.db_colorimetry = OverColors(Written(b, c), X.db_colorimetry)
        /\ W.db_vcdb = OverVcdb(Written(b, c), X.db_vcdb)
        /\ W.detailed_timing = OverTimings(Written(b, c), X.detailed_timing)
    BY <2>2, OverrunIs
  <2> HIDE DEF W
  <2>4. /\ W.dbc_tags = cea.dbc_tags /\ W.rev = cea.rev /\ W.off_dtd = cea.off_dtd /\ W.nr_dtd = cea.nr_dtd
        /\ W.flags = cea.flags /\ W.db_audio = cea.db_audio /\ W.db_video = cea.db_video
        /\ W.db_speaker = cea.db_speaker /\ W.dbe_tags = cea.dbe_tags
        /\ W.db_vsdb_hdmi = Vendor(b, c, cea.db_vsdb_hdmi)
        /\ W.db_colorimetry = OverColors(Written(b, c), cea.db_colorimetry)
        /\ W.db_vcdb = OverVcdb(Written(b, c), cea.db_vcdb)
        /\ W.detailed_timing = OverTimings(Written(b, c), cea.detailed_timing)
    BY <2>2, <2>3 DEF CeaFields
  <2> QED BY <2>1, <2>3, <2>4, <1>4 DEF BlockStep, CeaFields, t
<1>5. CASE t = 4
  <2>1. DataBlock(b, c, cea) = [[cea EXCEPT !.db_speaker = Bits(b[c + 1], 0, 7)] EXCEPT !.dbc_tags = Append(@, t)]
    BY <1>5, <1>9, <1>10
  <2> QED BY <2>1, <1>5 DEF BlockStep, CeaFields, t
<1>6. CASE t = 5
  <2>1. DataBlock(b, c, cea) = [cea EXCEPT !.dbc_tags = Append(@, t)]
    BY <1>6, <1>9, <1>10
  <2> QED BY <2>1, <1>6 DEF BlockStep, CeaFields, t
<1>7. CASE t = 7
  <2> DEFINE x == Extended(b, c, cea)
  <2>1. DataBlock(b, c, cea) = [x EXCEPT !.dbc_tags = Append(@, t)]
    BY <1>7, <1>9, <1>10
  <2>2. /\ DOMAIN x = CeaFields /\ x.dbc_tags = cea.dbc_tags
        /\ x.rev = cea.rev /\ x.off_dtd = cea.off_dtd /\ x.nr_dtd = cea.nr_dtd /\ x.flags = cea.flags
        /\ x.detailed_timing = cea.detailed_timing /\ x.db_audio = cea.db_audio /\ x.db_video = cea.db_video
        /\ x.db_vsdb_hdmi = cea.db_vsdb_hdmi /\ x.db_speaker = cea.db_speaker
    BY DEF Extended, CeaFields
  <2> HIDE DEF x
  <2> QED BY <2>1, <2>2, <1>7 DEF BlockStep, CeaFields, t, x
<1> QED BY <1>1, <1>2, <1>3, <1>4, <1>5, <1>6, <1>7

(***************************************************************************)
(* The struct keeps its shape.                                             *)
(***************************************************************************)
LEMMA DescriptorShape ==
  ASSUME NEW b, NEW o, NEW continuous, NEW old, DOMAIN old = DescriptorFields
  PROVE  DOMAIN Descriptor(b, o, continuous, old) = DescriptorFields
<1>1. DOMAIN DisplayDescriptor(b, o, continuous, old) = DescriptorFields
  <2> DEFINE d == [old EXCEPT !.type = "display"]
  <2>1. DOMAIN d = DescriptorFields
    OBVIOUS
  <2> HIDE DEF d
  <2>2. DisplayDescriptor(b, o, continuous, old) =
          CASE b[o + 3] = \hff -> [d EXCEPT !.tag = "serial", !.u = Text(b, o, d.tail)]
            [] b[o + 3] = \hfe -> [d EXCEPT !.tag = "string", !.u = Text(b, o, d.tail)]
            [] b[o + 3] = \hfd -> Fill([d EXCEPT !.tag = "limits"], RangeLimits(b, o, continuous))
            [] b[o + 3] = \hfc -> [d EXCEPT !.tag = "name", !.u = Text(b, o, d.tail)]
            [] b[o + 3] = \hfb -> Fill([d EXCEPT !.tag = "color"], <<WhitePoint(b, o + 5), WhitePoint(b, o + 10)>>)
            [] b[o + 3] = \hfa -> [d EXCEPT !.tag = "standard", !.extra = StandardTimings(b, o + 5, 6, @)]
            [] b[o + 3] = \hf9 -> [d EXCEPT !.tag = "dcm", !.dcm = <<b[o + 5]>> \o [n \in 1 .. 6 |-> Word(b, o + 4 + 2 * n)]]
            [] b[o + 3] = \hf8 -> [d EXCEPT !.tag = "cvt", !.cvt = [n \in 0 .. 3 |-> CvtTiming(b, o + 6 + 3 * n, @[n])]]
            [] b[o + 3] = \hf7 -> [d EXCEPT !.tag = "established", !.timing_3 = Established(b, o + 6, 44)]
            [] b[o + 3] = \h10 -> [d EXCEPT !.tag = "dummy"]
            [] OTHER -> d
    BY DEF DisplayDescriptor, d
  <2>3. \A x, y : DOMAIN x = DescriptorFields => DOMAIN Fill(x, y) = DescriptorFields
    BY DEF Fill
  <2> QED BY <2>1, <2>2, <2>3
<1>2. DOMAIN Fill([old EXCEPT !.type = "timing"], DetailedTiming(b, o, TRUE)) = DescriptorFields
  BY DEF Fill
<1> QED BY <1>1, <1>2 DEF Descriptor

(* A byte is a number.                                                     *)
LEMMA ByteIsNat == \A x \in Byte : x \in Nat
BY DEF Byte

(* The tag and the length of a data block.                                 *)
LEMMA BytesAre ==
  ASSUME NEW x \in Byte
  PROVE  /\ Bits(x, 5, 3) = x \div 32 /\ Bits(x, 5, 3) \in 0 .. 7
         /\ Bits(x, 0, 5) = x % 32 /\ Bits(x, 0, 5) \in 0 .. 31
<1>1. x \in 0 .. 255
  BY DEF Byte
<1>2. x \div 32 \in 0 .. 7 /\ (x \div 32) % 8 = x \div 32 /\ x % 32 \in 0 .. 31 /\ x \div 1 = x
  BY <1>1
<1>3. Two(5) = 32 /\ Two(3) = 8 /\ Two(0) = 1
  BY TwoIs
<1> QED BY <1>2, <1>3 DEF Bits

(* The first timing keeps its fields, the others all they have.            *)
LEMMA OverTimed ==
  ASSUME NEW x, 1 \in DOMAIN x, NEW list
  PROVE  LET y == OverTimings(list, x) IN
         /\ DOMAIN y = DOMAIN x /\ DOMAIN y[1] = DOMAIN x[1]
         /\ \A k \in DOMAIN x \ {1} : y[k] = x[k]
<1> DEFINE n == Len(list) - ROOM  third == list[ROOM + 3]  y == OverTimings(list, x)
           z == [x[1] EXCEPT !.pixel_clock = third.vic_2d, !.width = third.struct_3d, !.height = third.detail_3d]
<1>1. DOMAIN z = DOMAIN x[1]
  OBVIOUS
<1> HIDE DEF z
<1>2. y = (IF n <= 0 THEN x ELSE [x EXCEPT ![1] = IF n <= 2 THEN x[1] ELSE z])
  BY DEF OverTimings, z
<1> HIDE DEF y, n
<1> QED BY <1>1, <1>2 DEF y

(* A data block leaves the struct its fields.                              *)
LEMMA StepShape ==
  ASSUME NEW b, NEW c, NEW cea, ShapedCea(cea), BlockTag(b, c) \in {1, 2, 3, 4, 5, 7}
  PROVE  ShapedCea(DataBlock(b, c, cea))
<1> DEFINE d == DataBlock(b, c, cea)  t == BlockTag(b, c)
<1>1. DOMAIN cea = CeaFields /\ DOMAIN cea.dbe_tags = 1 .. 62
      /\ "ieee_reg_id" \in DOMAIN cea.db_vsdb_hdmi /\ "video" \in DOMAIN cea.db_vsdb_hdmi
      /\ 1 \in DOMAIN cea.detailed_timing /\ DOMAIN cea.detailed_timing[1] = TimingParts
  BY DEF ShapedCea
<1>2. BlockStep(d, b, c, cea)
  BY <1>1, DataBlockIs
<1> HIDE DEF d
<1>3. DOMAIN d.dbe_tags = 1 .. 62
  <2>1. DOMAIN Extended(b, c, cea).dbe_tags = 1 .. 62
    <3>1. DOMAIN (IF b[c + 1] \in ExtendedTags THEN [cea.dbe_tags EXCEPT ![Len(cea.dbc_tags) + 1] = b[c + 1]]
                  ELSE cea.dbe_tags) = 1 .. 62
      BY <1>1
    <3> QED BY <1>1, <3>1 DEF Extended, CeaFields
  <2> QED BY <1>1, <1>2, <2>1 DEF BlockStep
<1>4. "ieee_reg_id" \in DOMAIN d.db_vsdb_hdmi /\ "video" \in DOMAIN d.db_vsdb_hdmi
  <2>1. "ieee_reg_id" \in DOMAIN Vendor(b, c, cea.db_vsdb_hdmi) /\ "video" \in DOMAIN Vendor(b, c, cea.db_vsdb_hdmi)
    <3> DEFINE x == cea.db_vsdb_hdmi
    <3>1. CASE <<b[c + 1], b[c + 2], b[c + 3]>> # <<3, 12, 0>>
      <4>1. Vendor(b, c, x) = [x EXCEPT !.ieee_reg_id = 0]
        BY <3>1 DEF Vendor
      <4> QED BY <4>1, <1>1
    <3>2. CASE ~(<<b[c + 1], b[c + 2], b[c + 3]>> # <<3, 12, 0>>)
      BY <3>2 DEF Vendor
    <3> QED BY <3>1, <3>2
  <2> QED BY <1>1, <1>2, <2>1 DEF BlockStep
<1>5. 1 \in DOMAIN d.detailed_timing /\ DOMAIN d.detailed_timing[1] = TimingParts
  <2>1. d.detailed_timing = cea.detailed_timing \/ d.detailed_timing = OverTimings(Written(b, c), cea.detailed_timing)
    BY <1>2 DEF BlockStep
  <2>2. \A list : LET x == OverTimings(list, cea.detailed_timing) IN 1 \in DOMAIN x /\ DOMAIN x[1] = TimingParts
    BY <1>1, OverTimed
  <2> QED BY <1>1, <2>1, <2>2
<1> QED BY <1>2, <1>3, <1>4, <1>5 DEF ShapedCea, BlockStep, d

(* And so does the loop.                                                   *)
LEMMA WalkShape ==
  ASSUME NEW b \in [0 .. 255 -> Byte], NEW o \in Nat, NEW dtd \in 0 .. 255, NEW cea, ShapedCea(cea)
  PROVE  ShapedCea(Walk(b, o, dtd, cea))
<1>1. CASE dtd <= o
  BY <1>1 DEF Walk
<1>2. CASE o < dtd
  <2>1. PICK g : IsWalk(g, b, dtd, dtd - o, [c |-> o, cea |-> cea]) /\ Walk(b, o, dtd, cea) = g[dtd - o].cea
    <3>1. dtd \in Nat
      OBVIOUS
    <3> QED BY <3>1, <1>2, WalkIs, Zenon
  <2> DEFINE N == dtd - o  T == {k \in 0 .. N : g[k].c \in Nat /\ ShapedCea(g[k].cea)}
  <2>2. N \in Nat
    BY <1>2
  <2>3. g[0] = [c |-> o, cea |-> cea] /\ \A k \in 1 .. N : g[k] = NextBlock(b, dtd, g[k - 1])
    BY <2>1 DEF IsWalk
  <2> HIDE DEF N
  <2>4. 0 \in T
    BY <2>2, <2>3
  <2>5. ASSUME NEW k \in 0 .. N - 1, k \in T PROVE k + 1 \in T
    <3>1. k + 1 \in 1 .. N /\ k + 1 - 1 = k /\ k + 1 \in 0 .. N
      BY <2>2
    <3> DEFINE w == g[k]  x == NextBlock(b, dtd, w)
    <3>2. g[k + 1] = x
      <4>1. g[k + 1] = NextBlock(b, dtd, g[k + 1 - 1])
        BY <2>3, <3>1
      <4> QED BY <4>1, <3>1
    <3>3. w.c \in Nat /\ ShapedCea(w.cea)
      BY <2>5
    <3> HIDE DEF w
    <3>4. CASE w.c >= dtd \/ BlockTag(b, w.c) \in {0, 6}
      <4>1. x = w
        BY <3>4 DEF NextBlock
      <4> QED BY <4>1, <3>1, <3>2, <3>3
    <3>5. CASE ~(w.c >= dtd \/ BlockTag(b, w.c) \in {0, 6})
      <4>1. x = [c |-> w.c + BlockLength(b, w.c) + 1, cea |-> DataBlock(b, w.c, w.cea)]
        BY <3>5 DEF NextBlock
      <4>2. w.c \in 0 .. 255 /\ b[w.c] \in Byte
        <5>1. w.c \in 0 .. 255
          BY <3>3, <3>5
        <5> QED BY <5>1
      <4>3. BlockTag(b, w.c) \in 0 .. 7 /\ BlockLength(b, w.c) \in 0 .. 31
        BY <4>2, BytesAre DEF BlockTag, BlockLength
      <4>4. BlockTag(b, w.c) \in {1, 2, 3, 4, 5, 7}
        BY <4>3, <3>5
      <4>5. ShapedCea(DataBlock(b, w.c, w.cea))
        BY <3>3, <4>4, StepShape
      <4>6. x.c \in Nat /\ ShapedCea(x.cea)
        BY <4>1, <4>3, <4>5, <3>3
      <4> QED BY <4>6, <3>1, <3>2
    <3> QED BY <3>4, <3>5
  <2> HIDE DEF T
  <2>6. N \in T
    <3>1. 0 .. N \subseteq T
      BY <2>2, <2>4, <2>5, Induction
    <3> QED BY <2>2, <3>1
  <2> QED BY <2>1, <2>6 DEF T, N
<1> QED BY <1>1, <1>2

(* The extension: the walk, and then the timings.                          *)
LEMMA CeaIs ==
  ASSUME NEW b, NEW old
  PROVE  edid_decode_cea(b, 128, old) =
           IF Dtd(b) = 0 THEN CeaWalked(b, old)
           ELSE [CeaWalked(b, old) EXCEPT !.detailed_timing = CeaTimes(b, old)]
<1>1. 128 + 1 = 129 /\ 128 + 2 = 130 /\ 128 + 3 = 131 /\ 128 + 4 = 132
  OBVIOUS
<1> QED BY <1>1 DEF edid_decode_cea, CeaWalked, CeaHead, CeaTimes, Dtd

(* The header of the extension.                                            *)
LEMMA HeadIs ==
  ASSUME NEW b, NEW old, ShapedCea(old)
  PROVE  LET h == CeaHead(b, old) IN
         /\ ShapedCea(h) /\ h.dbc_tags = << >> /\ h.nr_dtd = Bits(b[131], 0, 4)
         /\ h.rev = b[129] /\ h.off_dtd = b[130]
         /\ h.flags = Flags(b[131], [underscan |-> 128, audio |-> 64, ycbcr444 |-> 32, ycbcr422 |-> 16])
BY DEF CeaHead, ShapedCea, CeaFields

(* The decoded extension has its fields.                                   *)
LEMMA CeaShape ==
  ASSUME NEW b \in [0 .. 255 -> Byte], b[130] <= 127, NEW old, ShapedCea(old)
  PROVE  ShapedCea(edid_decode_cea(b, 128, old))
<1>1. ShapedCea(CeaHead(b, old))
  BY HeadIs
<1>2. Dtd(b) \in 0 .. 255 /\ 132 \in Nat
  <2>0. 130 \in 0 .. 255
    OBVIOUS
  <2>3. b[130] \in Byte
    BY <2>0
  <2>1. b[130] \in Nat
    BY <2>3, ByteIsNat
  <2> QED BY <2>1 DEF Dtd
<1>3. ShapedCea(CeaWalked(b, old))
  BY <1>1, <1>2, WalkShape DEF CeaWalked
<1> DEFINE x == CeaWalked(b, old)  y == CeaTimes(b, old)
<1>4. 1 \in DOMAIN y /\ DOMAIN y[1] = TimingParts
  <2>1. DOMAIN DetailedTiming(b, Dtd(b) + 18 * (1 - 1), FALSE) = TimingParts
    BY DEF DetailedTiming, TimingParts
  <2> DEFINE times == x.detailed_timing  nr == x.nr_dtd
             first == DetailedTiming(b, Dtd(b) + 18 * (1 - 1), FALSE)
  <2>2. 1 \in DOMAIN times /\ DOMAIN times[1] = TimingParts
    BY <1>3 DEF ShapedCea
  <2>3. 1 \in DOMAIN y /\ y[1] = (IF 1 <= nr THEN first ELSE times[1])
    BY <2>2 DEF CeaTimes
  <2> HIDE DEF times, nr, first, y
  <2>4. DOMAIN first = TimingParts
    BY <2>1 DEF first
  <2> QED BY <2>2, <2>3, <2>4
<1>5. ShapedCea([x EXCEPT !.detailed_timing = y])
  <2> HIDE DEF x, y
  <2>1. ShapedCea(x)
    BY <1>3 DEF x
  <2> QED BY <2>1, <1>4 DEF ShapedCea, CeaFields
<1>6. edid_decode_cea(b, 128, old) = x \/ edid_decode_cea(b, 128, old) = [x EXCEPT !.detailed_timing = y]
  BY CeaIs
<1> QED BY <1>3, <1>5, <1>6

(* The decoded struct has its fields.                                      *)
LEMMA DecodedShape ==
  ASSUME NEW b \in [0 .. 255 -> Byte], b[130] <= 127, NEW old, Shaped(old)
  PROVE  Shaped(edid_decode_v14(b, old).info)
<1> DEFINE x == edid_decode_v14(b, old).info  base == Base(b, old)
<1>1. CASE ~Checked(b)
  BY <1>1 DEF edid_decode_v14
<1>2. CASE Checked(b)
  <2>1. \A f \in InfoFields \ {"ext_tag", "cea_ext"} : x[f] = base[f]
    BY <1>2, DecodedHas
  <2>2. (Extends(b) => x.cea_ext = edid_decode_cea(b, 128, old.cea_ext)) /\ (~Extends(b) => x = base)
    BY <1>2, DecodedHas
  <2>3. base.descriptors = [k \in 1 .. 4 |-> Descriptor(b, 36 + 18 * k, Continuous(b), old.descriptors[k])]
        /\ base.cea_ext = old.cea_ext
    BY BaseHas
  <2> HIDE DEF x, base
  <2>4. x.descriptors = base.descriptors
    BY <2>1 DEF InfoFields
  <2>5. ASSUME NEW k \in 1 .. 4 PROVE DOMAIN x.descriptors[k] = DescriptorFields
    <3>1. DOMAIN Descriptor(b, 36 + 18 * k, Continuous(b), old.descriptors[k]) = DescriptorFields
      BY DescriptorShape DEF Shaped
    <3> QED BY <3>1, <2>3, <2>4
  <2>6. ShapedCea(old.cea_ext)
    BY DEF Shaped
  <2>7. ShapedCea(x.cea_ext)
    BY <2>2, <2>3, <2>6, CeaShape
  <2> QED BY <2>5, <2>7 DEF Shaped, x
<1> QED BY <1>1, <1>2

(***************************************************************************)
(* What is printed is decoded into a struct of that shape.                 *)
(***************************************************************************)
LEMMA UntouchedShape ==
  ASSUME NEW x
  PROVE  Shaped(Untouched(x))
<1> DEFINE u == Untouched(x)
<1>1. DOMAIN u.cea_ext = CeaFields /\ DOMAIN u.cea_ext.dbe_tags = 1 .. 62
  BY DEF Untouched, CeaFields
<1>2. "ieee_reg_id" \in DOMAIN u.cea_ext.db_vsdb_hdmi /\ "video" \in DOMAIN u.cea_ext.db_vsdb_hdmi
  BY DEF Untouched
<1>3. \A k \in 1 .. 4 : DOMAIN u.descriptors[k] = DescriptorFields
  BY DEF Untouched, DescriptorFields
<1>4. 1 \in DOMAIN u.cea_ext.detailed_timing /\ DOMAIN u.cea_ext.detailed_timing[1] = TimingParts
  <2> DEFINE timing == [DetailedTiming([k \in 0 .. 17 |-> x], 0, FALSE) EXCEPT !.sync = {}]
  <2>1. DOMAIN timing = TimingParts
    BY DEF DetailedTiming, TimingParts
  <2>2. u.cea_ext.detailed_timing = [k \in 1 .. 8 |-> timing]
    BY DEF Untouched
  <2> HIDE DEF u, timing
  <2> QED BY <2>1, <2>2
<1> QED BY <1>1, <1>2, <1>3, <1>4 DEF Shaped, ShapedCea

(* The offset of the timings stays in the extension.                       *)
LEMMA OffsetIs ==
  ASSUME NEW m, IsMonitor(m), NEW e, IsEdid(e, m)
  PROVE  e[130] <= 127
<1>1. CASE ~HasExtension(m)
  <2>1. 130 \in 128 .. 255
    OBVIOUS
  <2>2. e[130] = 0
    BY <1>1, <2>1 DEF IsEdid
  <2> QED BY <2>2
<1>2. CASE HasExtension(m)
  <2>1. 130 \in 128 .. 254 /\ 130 - 127 = 3
    OBVIOUS
  <2>2. e[130] = Extension(m)[130 - 127]
    BY <1>2, <2>1 DEF IsEdid
  <2>3. PICK f : IsExtension(Extension(m), m, f)
    BY ExtensionIs
  <2> DEFINE l == Len(f[Len(m.blocks)])  t == Len(m.timings)
  <2>4. Extension(m)[3] = 4 + l /\ l \in Nat /\ t \in 0 .. 6 /\ l + 18 * t <= 123
    BY <2>3, Zenon DEF IsExtension
  <2> HIDE DEF l, t
  <2> QED BY <2>1, <2>2, <2>4
<1> QED BY <1>1, <1>2

(* The buffer holds bytes, and an offset of the timings in the extension.  *)
LEMMA ReadBytes ==
  ASSUME Read
  PROVE  edid \in [0 .. 255 -> Byte] /\ edid[130] <= 127
<1>1. source \in [0 .. 255 -> 0 .. Len(Monitors)] /\ edid = [k \in 0 .. 255 |-> EdidOf[source[k]][k]]
  BY Zenon DEF Read
<1>2. ASSUME NEW k \in 0 .. 255 PROVE edid[k] \in Byte
  <2>1. EdidOf[source[k]] \in [0 .. 255 -> Byte]
    BY <1>1, EdidOfIs, Zenon
  <2> QED BY <1>1, <2>1, Zenon
<1>3. edid[130] <= 127
  <2> DEFINE n == source[130]
  <2>4. ASSUME NEW k \in 0 .. 255 PROVE source[k] \in 0 .. Len(Monitors) /\ edid[k] = EdidOf[source[k]][k]
    BY <1>1, Zenon
  <2>5. 130 \in 0 .. 255
    OBVIOUS
  <2>1. n \in 0 .. Len(Monitors) /\ edid[130] = EdidOf[n][130]
    BY <2>4, <2>5, Zenon
  <2> HIDE DEF n
  <2>2. CASE n = 0
    <3>1. EdidOf[0] = [k \in 0 .. 255 |-> 0]
      BY EdidAssumption DEF EdidOf
    <3> QED BY <2>1, <2>2, <3>1
  <2>3. CASE n # 0
    <3>1. n \in 1 .. Len(Monitors)
      BY <2>1, <2>3, EdidAssumption
    <3>2. IsMonitor(Monitors[n]) /\ IsEdid(EdidOf[n], Monitors[n])
      <4>1. IsMonitor(Monitors[n])
        BY <3>1, EdidAssumption
      <4>2. EdidOf[n] = Encode(Monitors[n])
        BY <2>1, <2>3 DEF EdidOf
      <4> QED BY <4>1, <4>2, EncodeIs
    <3> QED BY <3>2, <2>1, OffsetIs
  <2> QED BY <2>2, <2>3
<1>4. edid = [k \in 0 .. 255 |-> edid[k]]
  BY <1>1, Zenon
<1>5. [k \in 0 .. 255 |-> edid[k]] \in [0 .. 255 -> Byte]
  BY <1>2
<1>6. edid \in [0 .. 255 -> Byte]
  BY <1>4, <1>5, Zenon
<1> QED BY <1>3, <1>6

(* Nothing is printed at first.                                            *)
LEMMA DecodedInit == ASSUME Init PROVE Decoded
<1>1. Shaped(Zeros) /\ Shaped(Rest)
  BY UntouchedShape DEF Zeros, Rest
<1> QED BY <1>1 DEF Init, Decoded, Shown

(* What is printed is always decoded of the buffer, into a struct of the   *)
(* right shape.                                                            *)
LEMMA DecodedNext == ASSUME Read, Verified, Decoded, [Next]_vars PROVE Decoded'
<1>1. CASE \E with_p \in BOOLEAN : Command(with_p)
  <2>1. edid_info' = edid_info /\ ~Shown'
    BY <1>1 DEF Command, Shown
  <2> QED BY <2>1 DEF Decoded
<1>2. CASE adv7513_edid_read
  <2>1. i < IDLE /\ i \in Cuts \cup {IDLE} /\ edid_info' = edid_info /\ printed' = printed
    BY <1>2, Zenon DEF adv7513_edid_read, Read
  <2>2. i # IDLE
    BY <2>1, UpToIs DEF IDLE
  <2>3. ~Shown'
    BY <2>1, <2>2 DEF Verified, Shown
  <2> QED BY <2>1, <2>3 DEF Decoded
<1>3. CASE NotAcknowledged
  BY <1>3 DEF NotAcknowledged, Decoded, Shown, Printout
<1>4. CASE DecodeAndPrint
  <2>1. PICK d : d = edid_decode_v14(edid, edid_info) /\ edid_info' = d.info
                 /\ printed' = (IF d.r = 0 THEN edid_print_v14(d.info) ELSE << >>)
    BY <1>4 DEF DecodeAndPrint
  <2>2. edid' = edid
    BY <1>4 DEF DecodeAndPrint
  <2>3. Shaped(edid_info)
    BY DEF Decoded
  <2>4. Shaped(edid_info')
    BY <2>1, <2>3, ReadBytes, DecodedShape
  <2>5. Shown' => printed' = Printout(edid, edid_info)
    BY <2>1 DEF Shown, Printout
  <2> QED BY <2>2, <2>3, <2>4, <2>5 DEF Decoded, Printout
<1>5. CASE Replug
  BY <1>5 DEF Replug, Decoded, Shown, Printout
<1>6. CASE UNCHANGED vars
  BY <1>6 DEF vars, Decoded, Shown, Printout
<1> QED BY <1>1, <1>2, <1>3, <1>4, <1>5, <1>6 DEF Next

(* The invariant of the reads and the decoder.                             *)
LEMMA DecodedAlways == Spec => [](Read /\ Verified /\ Decoded)
<1>1. Init => Decoded
  BY DecodedInit
<1>2. Read /\ Verified /\ Decoded /\ [Next]_vars => Decoded'
  BY DecodedNext
<1> QED BY <1>1, <1>2, ReadAlways, PTL DEF Spec

(***************************************************************************)
(* The extension of the monitor m in its EDID e: f are the blocks up to    *)
(* one.                                                                    *)
(***************************************************************************)

(* The extension of a monitor that is read whole.                          *)
LEMMA ExtendedIs ==
  ASSUME NEW m, IsMonitor(m), NEW e, IsEdid(e, m), HasExtension(m)
  PROVE  \E f : Extended128(e, m, f)
<1>1. PICK f : IsExtension(Extension(m), m, f)
  BY ExtensionIs
<1> DEFINE n == Len(m.blocks)  l == Len(f[n])  t == Len(m.timings)  x == Extension(m)
<1>2. /\ FlatAt(f, Byte, n, BlockRows(m)) /\ l \in Nat /\ t \in 0 .. 6 /\ l + 18 * t <= 123
      /\ x[1] = 2 /\ x[2] = 3 /\ x[3] = 4 + l /\ x[4] = 64 + m.native /\ m.native \in 0 .. t
      /\ \A j \in 1 .. l : x[4 + j] = f[n][j]
      /\ \A j \in 1 .. t * 18 : x[4 + l + j] = TimingRow(m, j)
  BY <1>1 DEF IsExtension
<1>3. n \in 1 .. 62 /\ DOMAIN m.blocks = 1 .. n
  BY DEF IsMonitor, HasExtension
<1>4. e \in [0 .. 255 -> Byte] /\ \A k \in 128 .. 254 : e[k] = x[k - 127]
  BY DEF IsEdid
<1> HIDE DEF n, l, t, x
<1>5. ASSUME NEW j \in 1 .. 127 PROVE e[127 + j] = x[j]
  <2>1. 127 + j \in 128 .. 254 /\ 127 + j - 127 = j
    OBVIOUS
  <2>2. PICK k \in 128 .. 254 : k = 127 + j
    BY <2>1
  <2>3. k - 127 = j
    BY <2>2
  <2> QED BY <2>2, <2>3, <1>4
<1>6. e[128] = 2 /\ e[129] = 3 /\ e[130] = 4 + l /\ e[131] = 64 + m.native /\ m.native \in 0 .. t
  <2>1. e[127 + 1] = x[1] /\ e[127 + 2] = x[2] /\ e[127 + 3] = x[3] /\ e[127 + 4] = x[4]
    BY <1>5
  <2>2. 127 + 1 = 128 /\ 127 + 2 = 129 /\ 127 + 3 = 130 /\ 127 + 4 = 131
    OBVIOUS
  <2> QED BY <2>1, <2>2, <1>2
<1>7. ASSUME NEW j \in 1 .. l PROVE e[131 + j] = f[n][j]
  <2>1. PICK k \in 1 .. 127 : k = 4 + j
    BY <1>2
  <2>2. e[127 + k] = x[k] /\ 127 + k = 131 + j
    BY <2>1, <1>5
  <2> QED BY <2>1, <2>2, <1>2
<1>8. ASSUME NEW j \in 1 .. t * 18 PROVE e[131 + l + j] = TimingRow(m, j)
  <2> DEFINE k == 4 + l + j
  <2>1. k \in 1 .. 127 /\ 127 + k = 131 + l + j
    BY <1>2
  <2>2. x[k] = TimingRow(m, j)
    BY <1>2
  <2> HIDE DEF k
  <2>3. k \in 1 .. 127
    BY <2>1
  <2>4. e[127 + k] = x[k]
    BY <2>3, <1>5, Zenon
  <2> QED BY <2>1, <2>2, <2>4
<1>9. Extended128(e, m, f)
  BY <1>2, <1>3, <1>4, <1>6, <1>7, <1>8, Zenon DEF Extended128, n, l, t
<1> QED BY <1>9

(* The block k is at c.                                                    *)
BlockAt(e, c, k) ==
  /\ BlockTag(e, c) = k.tag /\ BlockLength(e, c) = Len(BodyBytes(k))
  /\ \A j \in 1 .. Len(BodyBytes(k)) : e[c + j] = BodyBytes(k)[j]

(* Where one is and where the next one starts.                             *)
Lies(e, m, f, k) ==
  /\ BlockAt(e, Place(f, k - 1), m.blocks[k]) /\ Place(f, k - 1) \in 132 .. 255 /\ Len(BodyBytes(m.blocks[k])) \in 0 .. 31
  /\ Place(f, k) = Place(f, k - 1) + Len(BodyBytes(m.blocks[k])) + 1
  /\ IsBlock(m.blocks[k]) /\ m.blocks[k].tag \in {1, 2, 3, 4, 5, 7}

(* Each data block is at its place.                                        *)
LEMMA BlockLies ==
  ASSUME NEW m, IsMonitor(m), NEW e, NEW f, Extended128(e, m, f), NEW k \in 1 .. Len(m.blocks)
  PROVE  Lies(e, m, f, k)
<1> DEFINE n == Len(m.blocks)  l == Len(f[n])  block == m.blocks[k]  s == BlockRows(m)  c == Place(f, k - 1)
           w == Len(BodyBytes(block))
<1>0. n \in 1 .. 62 /\ l \in Nat /\ Len(m.timings) \in 0 .. 6 /\ l + 18 * Len(m.timings) <= 123
  BY DEF Extended128
<1>1. /\ FlatAt(f, Byte, n, s) /\ e \in [0 .. 255 -> Byte]
      /\ \A j \in 1 .. l : e[131 + j] = f[n][j]
  BY DEF Extended128
<1>2. IsBlock(block)
  BY Zenon DEF IsMonitor
<1>3. s[k] = BlockBytes(block)
  BY DEF BlockRows
<1>4. block.tag \in {1, 2, 3, 4, 5, 7} /\ w \in 0 .. 31
  BY <1>2, BodyBytesAre DEF IsBodyBytes
<1>5. /\ Len(s[k]) = w + 1 /\ s[k][1] = 32 * block.tag + w
      /\ \A j \in 1 .. w : s[k][1 + j] = BodyBytes(block)[j]
  BY <1>2, <1>3, BlockBytesAre DEF IsBlockBytes
<1>6. Placed(f, n, s, k)
  BY <1>1 DEF FlatAt
<1>7. Len(f[k - 1]) \in 0 .. l /\ Len(f[k]) \in 0 .. l
  <2>1. k - 1 \in 0 .. n /\ k \in 0 .. n
    OBVIOUS
  <2> QED BY <2>1, <1>1 DEF FlatAt
<1> DEFINE a == Len(f[k - 1])  z == Len(f[k])
<1>8. z = a + (w + 1) /\ \A j \in 1 .. w + 1 : f[n][a + j] = s[k][j]
  BY <1>5, <1>6 DEF Placed
<1>18. a \in 0 .. l /\ z \in 0 .. l /\ l \in 0 .. 123
  <2>1. \A x \in Nat, y \in 0 .. 6 : x + 18 * y <= 123 => x \in 0 .. 123
    OBVIOUS
  <2>2. l \in 0 .. 123
    <3> HIDE DEF l
    <3> QED BY <2>1, <1>0
  <2> HIDE DEF l
  <2> QED BY <2>2, <1>7
<1> HIDE DEF n, l, s, w, block, a, z
<1>9. a + w + 1 <= l /\ a \in Nat /\ w \in Nat /\ l \in 0 .. 123
  BY <1>4, <1>8, <1>18
<1>10. ASSUME NEW j \in 1 .. w + 1 PROVE e[131 + a + j] = s[k][j]
  <2>1. PICK q \in 1 .. l : q = a + j
    BY <1>9
  <2>2. e[131 + q] = f[n][q]
    BY <1>1
  <2>3. 131 + q = 131 + a + j
    BY <2>1, <1>9
  <2> QED BY <2>1, <2>2, <2>3, <1>8, <1>9
<1>11. c = 132 + a /\ Place(f, k) = 132 + z
  BY DEF Place, a, z
<1> HIDE DEF c
<1>12. e[c] = 32 * block.tag + w
  <2>1. e[131 + a + 1] = s[k][1] /\ 131 + a + 1 = c
    BY <1>9, <1>10, <1>11
  <2> QED BY <2>1, <1>5
<1>13. ASSUME NEW j \in 1 .. w PROVE e[c + j] = BodyBytes(block)[j]
  <2>1. 1 + j \in 1 .. w + 1 /\ 131 + a + (1 + j) = c + j
    BY <1>9, <1>11
  <2>2. e[131 + a + (1 + j)] = s[k][1 + j]
    BY <2>1, <1>10
  <2> QED BY <2>1, <2>2, <1>5
<1>14. c \in 132 .. 255
  BY <1>9, <1>11
<1>15. BlockTag(e, c) = block.tag /\ BlockLength(e, c) = w
  <2> DEFINE x == 32 * block.tag + w
  <2>0. \A t \in 0 .. 7, y \in 0 .. 31 :
          LET v == 32 * t + y IN v \in Nat /\ v \div 32 = t /\ v % 32 = y /\ v \div 1 = v
    OBVIOUS
  <2>1. x \in Nat /\ x \div 32 = block.tag /\ x % 32 = w /\ x \div 1 = x
    <3>1. block.tag \in 0 .. 7
      BY <1>4
    <3> QED BY <3>1, <1>4, <2>0
  <2>2. block.tag % 8 = block.tag
    BY <1>4
  <2> HIDE DEF x
  <2>3. Bits(x, 5, 3) = block.tag /\ Bits(x, 0, 5) = w
    BY <2>1, <2>2, TwoIs DEF Bits
  <2> QED BY <2>3, <1>12 DEF BlockTag, BlockLength, x
<1>16. BlockAt(e, c, block)
  BY <1>13, <1>15 DEF BlockAt, w
<1>17. Place(f, k) = c + w + 1
  BY <1>8, <1>9, <1>11
<1> QED BY <1>2, <1>4, <1>14, <1>16, <1>17 DEF Lies, c, block, w

(* The walk goes from block to block.                                      *)
WalksBlocks(u, e, m, f, cea) ==
  u[0] = cea /\ \A k \in 1 .. Len(m.blocks) : u[k] = DataBlock(e, Place(f, k - 1), u[k - 1])

(* The places grow from 132 to the timings.                                *)
LEMMA PlacesAre ==
  ASSUME NEW m, IsMonitor(m), NEW e, NEW f, Extended128(e, m, f)
  PROVE  /\ Place(f, 0) = 132 /\ Dtd(e) = Place(f, Len(m.blocks)) /\ Dtd(e) \in 133 .. 255
         /\ Len(m.blocks) \in 1 .. 62 /\ Len(m.blocks) <= Dtd(e) - 132
         /\ \A k \in 0 .. Len(m.blocks) : Place(f, k) \in 132 .. Dtd(e)
<1> DEFINE n == Len(m.blocks)  l == Len(f[n])
<1>1. /\ n \in 1 .. 62 /\ l \in Nat /\ Len(m.timings) \in 0 .. 6 /\ l + 18 * Len(m.timings) <= 123
      /\ e[130] = 4 + l /\ FlatAt(f, Byte, n, BlockRows(m))
  BY DEF Extended128
<1>2. Len(f[0]) = 0 /\ \A k \in 0 .. n : Len(f[k]) \in 0 .. l
  BY <1>1 DEF FlatAt
<1>3. l \in 0 .. 123
  <2>1. \A x \in Nat, y \in 0 .. 6 : x + 18 * y <= 123 => x \in 0 .. 123
    OBVIOUS
  <2> HIDE DEF l
  <2> QED BY <2>1, <1>1
<1>4. Place(f, 0) = 132 /\ Place(f, n) = 132 + l
  BY <1>2 DEF Place
<1>5. \A k \in 0 .. n : Place(f, k) \in 132 .. 132 + l
  <2> HIDE DEF l
  <2> QED BY <1>2, <1>3 DEF Place
<1> HIDE DEF n, l
<1> DEFINE T == {k \in 0 .. n : Place(f, k) >= 132 + k}
<1>6. 0 \in T
  BY <1>1, <1>4
<1>7. ASSUME NEW k \in 0 .. n - 1, k \in T PROVE k + 1 \in T
  <2> DEFINE q == k + 1
  <2>1. q \in 1 .. n /\ q - 1 = k
    BY <1>1
  <2> HIDE DEF q
  <2>2. Lies(e, m, f, q)
    BY <2>1, BlockLies DEF n
  <2> DEFINE w == Len(BodyBytes(m.blocks[q]))
  <2>3. Place(f, q) = Place(f, k) + w + 1 /\ w \in 0 .. 31 /\ Place(f, k) \in 132 .. 255
    BY <2>1, <2>2 DEF Lies
  <2> HIDE DEF w
  <2>4. Place(f, q) >= 132 + q
    BY <2>1, <2>3, <1>7
  <2> QED BY <2>1, <2>4, <1>1 DEF q
<1> HIDE DEF T
<1>8. n \in T
  <2>1. 0 .. n \subseteq T /\ n \in 0 .. n
    BY <1>1, <1>6, <1>7, Induction
  <2> QED BY <2>1
<1>9. n <= l
  BY <1>1, <1>3, <1>4, <1>8 DEF T
<1>10. Dtd(e) = 132 + l
  BY <1>1, <1>3, <1>9 DEF Dtd
<1>11. Dtd(e) \in 133 .. 255 /\ n <= Dtd(e) - 132
  BY <1>1, <1>3, <1>9, <1>10
<1> QED BY <1>1, <1>4, <1>5, <1>10, <1>11 DEF n

(* The walk over the blocks of a monitor meets each of them once.          *)
LEMMA MonitorWalk ==
  ASSUME NEW m, IsMonitor(m), NEW e, NEW f, Extended128(e, m, f), NEW old
  PROVE  \E u : WalksBlocks(u, e, m, f, CeaHead(e, old)) /\ CeaWalked(e, old) = u[Len(m.blocks)]
<1> DEFINE n == Len(m.blocks)  cea == CeaHead(e, old)  dtd == Dtd(e)  l == dtd - 132
<1>1. /\ Place(f, 0) = 132 /\ dtd = Place(f, n) /\ dtd \in 133 .. 255 /\ n \in 1 .. 62 /\ n <= dtd - 132
      /\ \A k \in 0 .. n : Place(f, k) \in 132 .. dtd
  BY PlacesAre
<1>2. CeaWalked(e, old) = Walk(e, 132, dtd, cea)
  BY DEF CeaWalked
<1> HIDE DEF cea, dtd
<1>3. PICK g : IsWalk(g, e, dtd, dtd - 132, [c |-> 132, cea |-> cea]) /\ Walk(e, 132, dtd, cea) = g[dtd - 132].cea
  <2>1. dtd \in 133 .. 255
    BY <1>1
  <2>2. \A x \in 133 .. 255 : x \in Nat /\ 132 < x
    OBVIOUS
  <2>3. 132 \in Nat /\ dtd \in Nat /\ 132 < dtd
    BY <2>1, <2>2
  <2> QED BY <2>3, WalkIs
<1>4. g[0] = [c |-> 132, cea |-> cea] /\ \A k \in 1 .. l : g[k] = NextBlock(e, dtd, g[k - 1])
  BY <1>3 DEF IsWalk
<1>5. l \in Nat /\ n <= l /\ n \in Nat
  BY <1>1
<1>6. CeaWalked(e, old) = g[l].cea
  BY <1>2, <1>3
<1> HIDE DEF n, l
<1>7. ASSUME NEW k \in 1 .. n, g[k - 1].c = Place(f, k - 1)
      PROVE  g[k].c = Place(f, k) /\ g[k].cea = DataBlock(e, Place(f, k - 1), g[k - 1].cea)
  <2> DEFINE w == g[k - 1]  c == Place(f, k - 1)  x == Len(BodyBytes(m.blocks[k]))
  <2>1. Lies(e, m, f, k)
    BY BlockLies DEF n
  <2>2. /\ BlockTag(e, c) \in {1, 2, 3, 4, 5, 7} /\ BlockLength(e, c) = x
        /\ c \in 132 .. 255 /\ x \in 0 .. 31 /\ Place(f, k) = c + x + 1
    BY <2>1 DEF Lies, BlockAt
  <2>3. k \in 0 .. n /\ k \in 1 .. l
    BY <1>5
  <2>4. Place(f, k) \in 132 .. dtd /\ dtd \in 133 .. 255
    BY <2>3, <1>1
  <2>5. g[k] = NextBlock(e, dtd, w) /\ w.c = c
    BY <2>3, <1>4, <1>7
  <2> HIDE DEF w, c, x
  <2>6. ~(w.c >= dtd \/ BlockTag(e, w.c) \in {0, 6})
    BY <2>2, <2>4, <2>5
  <2>7. g[k] = [c |-> w.c + BlockLength(e, w.c) + 1, cea |-> DataBlock(e, w.c, w.cea)]
    BY <2>5, <2>6 DEF NextBlock
  <2>8. g[k].c = Place(f, k) /\ g[k].cea = DataBlock(e, c, w.cea)
    BY <2>2, <2>5, <2>7
  <2> QED BY <2>8 DEF w, c
<1> DEFINE T == {k \in 0 .. n : g[k].c = Place(f, k)}
<1>8. 0 \in T
  BY <1>1, <1>4, <1>5
<1>9. ASSUME NEW k \in 0 .. n - 1, k \in T PROVE k + 1 \in T
  <2> DEFINE q == k + 1
  <2>1. q \in 1 .. n /\ q - 1 = k /\ q \in 0 .. n
    BY <1>5
  <2> HIDE DEF q
  <2>2. g[q].c = Place(f, q)
    BY <2>1, <1>7, <1>9
  <2> QED BY <2>1, <2>2 DEF q
<1> HIDE DEF T
<1>10. \A k \in 0 .. n : g[k].c = Place(f, k)
  BY <1>5, <1>8, <1>9, Induction DEF T
<1> DEFINE U == {k \in 0 .. l : k >= n => g[k] = g[n]}
<1>11. 0 \in U
  BY <1>5
<1>12. ASSUME NEW k \in 0 .. l - 1, k \in U PROVE k + 1 \in U
  <2> DEFINE q == k + 1
  <2>1. q \in 1 .. l /\ q - 1 = k /\ q \in 0 .. l
    BY <1>5
  <2> HIDE DEF q
  <2>2. ASSUME q > n PROVE g[q] = g[n]
    <3>1. g[k] = g[n]
      BY <2>1, <2>2, <1>5, <1>12
    <3>2. g[q] = NextBlock(e, dtd, g[n])
      BY <2>1, <3>1, <1>4
    <3>3. g[n].c >= dtd
      <4>1. n \in 0 .. n
        BY <1>5
      <4>2. g[n].c = dtd
        BY <4>1, <1>1, <1>10 DEF n
      <4> QED BY <4>2, <1>1
    <3>4. NextBlock(e, dtd, g[n]) = g[n]
      BY <3>3 DEF NextBlock
    <3> QED BY <3>2, <3>4
  <2>3. q >= n => g[q] = g[n]
    BY <2>1, <2>2, <1>5
  <2> QED BY <2>1, <2>3 DEF q
<1> HIDE DEF U
<1>13. g[l] = g[n]
  <2>1. 0 .. l \subseteq U /\ l \in 0 .. l
    BY <1>5, <1>11, <1>12, Induction
  <2> QED BY <2>1, <1>5 DEF U
<1> DEFINE u == [k \in 0 .. n |-> g[k].cea]
<1>14. WalksBlocks(u, e, m, f, cea)
  <2>1. u[0] = cea
    BY <1>4, <1>5
  <2>2. ASSUME NEW k \in 1 .. n PROVE u[k] = DataBlock(e, Place(f, k - 1), u[k - 1])
    <3>1. k \in 0 .. n /\ k - 1 \in 0 .. n
      BY <1>5
    <3>2. g[k - 1].c = Place(f, k - 1)
      BY <3>1, <1>10
    <3>3. g[k].cea = DataBlock(e, Place(f, k - 1), g[k - 1].cea)
      BY <3>2, <1>7
    <3> QED BY <3>1, <3>3
  <2> HIDE DEF u
  <2> QED BY <2>1, <2>2 DEF WalksBlocks, n
<1>15. CeaWalked(e, old) = u[n]
  <2>1. n \in 0 .. n
    BY <1>5
  <2> QED BY <2>1, <1>6, <1>13
<1> HIDE DEF u
<1> QED BY <1>14, <1>15 DEF n, cea

(* One step of it.                                                         *)
LEMMA WalkSteps ==
  ASSUME NEW m, IsMonitor(m), NEW e, NEW f, Extended128(e, m, f), NEW cea, ShapedCea(cea),
         NEW u, WalksBlocks(u, e, m, f, cea)
  PROVE  /\ \A k \in 0 .. Len(m.blocks) : ShapedCea(u[k])
         /\ \A k \in 1 .. Len(m.blocks) : BlockStep(u[k], e, Place(f, k - 1), u[k - 1])
                                           /\ BlockTag(e, Place(f, k - 1)) = m.blocks[k].tag
<1> DEFINE n == Len(m.blocks)
<1>1. n \in 1 .. 62
  BY PlacesAre
<1>2. u[0] = cea /\ \A k \in 1 .. n : u[k] = DataBlock(e, Place(f, k - 1), u[k - 1])
  BY DEF WalksBlocks
<1>3. ASSUME NEW k \in 1 .. n
      PROVE  BlockTag(e, Place(f, k - 1)) = m.blocks[k].tag /\ BlockTag(e, Place(f, k - 1)) \in {1, 2, 3, 4, 5, 7}
  <2>1. Lies(e, m, f, k)
    BY BlockLies
  <2> QED BY <2>1 DEF Lies, BlockAt
<1> HIDE DEF n
<1> DEFINE T == {k \in 0 .. n : ShapedCea(u[k])}
<1>4. 0 \in T
  BY <1>1, <1>2
<1>5. ASSUME NEW k \in 0 .. n - 1, k \in T PROVE k + 1 \in T
  <2> DEFINE q == k + 1
  <2>1. q \in 1 .. n /\ q - 1 = k /\ q \in 0 .. n
    BY <1>1
  <2> HIDE DEF q
  <2>2. u[q] = DataBlock(e, Place(f, k), u[k]) /\ BlockTag(e, Place(f, k)) \in {1, 2, 3, 4, 5, 7}
    BY <2>1, <1>2, <1>3
  <2>3. ShapedCea(u[q])
    BY <2>2, <1>5, StepShape
  <2> QED BY <2>1, <2>3 DEF q
<1> HIDE DEF T
<1>6. \A k \in 0 .. n : ShapedCea(u[k])
  BY <1>1, <1>4, <1>5, Induction DEF T
<1>7. ASSUME NEW k \in 1 .. n PROVE BlockStep(u[k], e, Place(f, k - 1), u[k - 1])
  <2>1. k - 1 \in 0 .. n
    BY <1>1
  <2>2. DOMAIN u[k - 1] = CeaFields
    BY <2>1, <1>6 DEF ShapedCea
  <2> DEFINE c == Place(f, k - 1)  w == u[k - 1]
  <2>3. u[k] = DataBlock(e, c, w) /\ BlockTag(e, c) \in {1, 2, 3, 4, 5, 7}
    BY <1>2, <1>3
  <2>4. DOMAIN w = CeaFields
    BY <2>2
  <2> HIDE DEF c, w
  <2>5. BlockStep(u[k], e, c, w)
    BY <2>3, <2>4, DataBlockIs
  <2> QED BY <2>5 DEF c, w
<1> QED BY <1>3, <1>6, <1>7 DEF n

Same(x, y, tag) ==
  /\ tag = 1 => x.db_audio = y.db_audio
  /\ tag = 2 => x.db_video = y.db_video
  /\ tag = 3 => x.db_vsdb_hdmi = y.db_vsdb_hdmi
  /\ tag = 4 => x.db_speaker = y.db_speaker

(* The last block of a tag sets the field that is printed.                 *)
LEMMA FieldsHold ==
  ASSUME NEW m, IsMonitor(m), NEW e, NEW f, Extended128(e, m, f), NEW cea, ShapedCea(cea),
         NEW u, WalksBlocks(u, e, m, f, cea), NEW k \in 1 .. Len(m.blocks)
  PROVE  Holding(u[Len(m.blocks)], e, Place(f, k - 1), m.blocks[k].tag)
<1> DEFINE n == Len(m.blocks)  tag == m.blocks[k].tag
<1>1. n \in 1 .. 62
  BY PlacesAre
<1>2. ASSUME NEW j \in 1 .. n
      PROVE  BlockStep(u[j], e, Place(f, j - 1), u[j - 1]) /\ BlockTag(e, Place(f, j - 1)) = m.blocks[j].tag
  BY WalkSteps
<1>3. ASSUME NEW j \in 1 .. n, j # k PROVE m.blocks[j].tag # tag \/ tag \in {5, 7}
  <2>1. j \in DOMAIN m.blocks /\ k \in DOMAIN m.blocks
    BY DEF IsMonitor
  <2> QED BY <2>1, <1>3, Zenon DEF IsMonitor
<1> HIDE DEF n, tag
<1>4. Holding(u[k], e, Place(f, k - 1), tag)
  <2>1. k \in 1 .. n
    BY DEF n
  <2>2. BlockStep(u[k], e, Place(f, k - 1), u[k - 1]) /\ BlockTag(e, Place(f, k - 1)) = tag
    BY <2>1, <1>2 DEF tag
  <2> DEFINE c == Place(f, k - 1)  w == u[k - 1]  x == u[k]
  <2> HIDE DEF c, w, x
  <2>3. BlockStep(x, e, c, w) /\ BlockTag(e, c) = tag
    BY <2>2 DEF c, w, x
  <2>4. Holding(x, e, c, tag)
    BY <2>3 DEF BlockStep, Holding
  <2> QED BY <2>4 DEF c, x
<1> DEFINE T == {d \in 0 .. n - k : Same(u[k + d], u[k], tag)}
<1>5. n - k \in Nat /\ k \in 1 .. n
  BY <1>1 DEF n
<1>6. 0 \in T
  <2>1. k + 0 = k /\ 0 \in 0 .. n - k
    BY <1>5
  <2> QED BY <2>1 DEF Same
<1>7. ASSUME NEW d \in 0 .. (n - k) - 1, d \in T PROVE d + 1 \in T
  <2> DEFINE q == k + (d + 1)  g == q - 1
  <2>1. q \in 1 .. n /\ g = k + d /\ q # k /\ d + 1 \in 0 .. n - k
    BY <1>1, <1>5
  <2>2. BlockStep(u[q], e, Place(f, q - 1), u[q - 1]) /\ BlockTag(e, Place(f, q - 1)) = m.blocks[q].tag
    <3> HIDE DEF q
    <3> QED BY <2>1, <1>2
  <2>3. m.blocks[q].tag # tag \/ tag \in {5, 7}
    <3> HIDE DEF q
    <3> QED BY <2>1, <1>3
  <2>4. Same(u[g], u[k], tag)
    <3> HIDE DEF g, q
    <3> QED BY <2>1, <1>7
  <2> DEFINE x == u[q]  w == u[g]  c == Place(f, g)  new == m.blocks[q].tag
  <2>5. BlockStep(x, e, c, w) /\ BlockTag(e, c) = new
    BY <2>2
  <2> HIDE DEF x, w, c, new
  <2>6. new # tag \/ tag \in {5, 7}
    BY <2>3 DEF new
  <2>7. Same(x, w, tag)
    BY <2>5, <2>6 DEF BlockStep, Same
  <2>8. Same(w, u[k], tag)
    BY <2>4 DEF w
  <2>9. Same(x, u[k], tag)
    BY <2>7, <2>8 DEF Same
  <2>10. x = u[k + (d + 1)]
    BY DEF x
  <2> QED BY <2>1, <2>9, <2>10
<1> HIDE DEF T
<1>8. Same(u[n], u[k], tag)
  <2> DEFINE D == n - k
  <2>4. D \in Nat /\ 0 \in T /\ \A d \in 0 .. D - 1 : d \in T => d + 1 \in T
    BY <1>5, <1>6, <1>7
  <2> HIDE DEF D
  <2>5. 0 .. D \subseteq T
    BY <2>4, Induction
  <2>6. D \in 0 .. D
    BY <2>4
  <2>1. 0 .. n - k \subseteq T /\ n - k \in 0 .. n - k
    BY <2>5, <2>6 DEF D
  <2>2. k + (n - k) = n
    BY <1>5, <1>1
  <2>3. Same(u[k + (n - k)], u[k], tag)
    BY <2>1 DEF T
  <2> QED BY <2>2, <2>3
<1>9. Holding(u[n], e, Place(f, k - 1), tag)
  <2> DEFINE x == u[n]  w == u[k]
  <2> HIDE DEF x, w
  <2>1. Same(x, w, tag) /\ Holding(w, e, Place(f, k - 1), tag)
    BY <1>4, <1>8 DEF x, w
  <2>2. Holding(x, e, Place(f, k - 1), tag)
    BY <2>1 DEF Same, Holding
  <2> QED BY <2>2 DEF x
<1> QED BY <1>9 DEF n, tag

(* The tags are counted in their order.                                    *)
LEMMA TagsHold ==
  ASSUME NEW m, IsMonitor(m), NEW e, NEW f, Extended128(e, m, f), NEW cea, ShapedCea(cea),
         NEW u, WalksBlocks(u, e, m, f, cea), cea.dbc_tags = << >>
  PROVE  \A k \in 0 .. Len(m.blocks) : TagsAre(u[k], m, k) /\ u[k].nr_dtd = cea.nr_dtd
<1> DEFINE n == Len(m.blocks)
<1>1. n \in 1 .. 62
  BY PlacesAre
<1>2. u[0] = cea
  BY DEF WalksBlocks
<1>3. ASSUME NEW k \in 1 .. n
      PROVE  BlockStep(u[k], e, Place(f, k - 1), u[k - 1]) /\ BlockTag(e, Place(f, k - 1)) = m.blocks[k].tag
             /\ m.blocks[k].tag \in Nat
  <2>1. Lies(e, m, f, k)
    BY BlockLies
  <2>2. m.blocks[k].tag \in Nat
    BY <2>1 DEF Lies
  <2> QED BY <2>2, WalkSteps
<1> HIDE DEF n
<1> DEFINE T == {k \in 0 .. n : TagsAre(u[k], m, k) /\ u[k].nr_dtd = cea.nr_dtd}
<1>4. 0 \in T
  <2>1. cea.dbc_tags \in Seq(Nat) /\ Len(cea.dbc_tags) = 0
    OBVIOUS
  <2>2. TagsAre(cea, m, 0)
    BY <2>1 DEF TagsAre
  <2> QED BY <2>2, <1>1, <1>2
<1>5. ASSUME NEW k \in 0 .. n - 1, k \in T PROVE k + 1 \in T
  <2> DEFINE q == k + 1
  <2>1. q \in 1 .. n /\ q - 1 = k /\ q \in 0 .. n
    BY <1>1
  <2> HIDE DEF q
  <2> DEFINE c == Place(f, k)  w == u[k]  x == u[q]  tag == m.blocks[q].tag
  <2>2. BlockStep(x, e, c, w) /\ BlockTag(e, c) = tag /\ tag \in Nat
    BY <2>1, <1>3
  <2>3. TagsAre(w, m, k) /\ w.nr_dtd = cea.nr_dtd
    BY <1>5
  <2> HIDE DEF c, w, x
  <2>4. x.dbc_tags = Append(w.dbc_tags, tag) /\ x.nr_dtd = w.nr_dtd
    BY <2>2 DEF BlockStep
  <2> DEFINE s == w.dbc_tags
  <2>5. s \in Seq(Nat) /\ Len(s) = k /\ \A j \in 1 .. k : s[j] = m.blocks[j].tag
    BY <2>3 DEF TagsAre
  <2> HIDE DEF s, tag
  <2>6. /\ Append(s, tag) \in Seq(Nat) /\ Len(Append(s, tag)) = k + 1
        /\ \A j \in 1 .. k : Append(s, tag)[j] = s[j]
        /\ Append(s, tag)[k + 1] = tag
    BY <2>2, <2>5, AppendProperties
  <2>7. x.dbc_tags \in Seq(Nat) /\ Len(x.dbc_tags) = q
    BY <2>4, <2>6 DEF s, q
  <2>8. ASSUME NEW j \in 1 .. q PROVE x.dbc_tags[j] = m.blocks[j].tag
    <3>1. CASE j \in 1 .. k
      BY <3>1, <2>4, <2>5, <2>6 DEF s
    <3>2. CASE j = q
      BY <3>2, <2>4, <2>6 DEF s, q, tag
    <3>3. j \in 1 .. k \/ j = q
      BY <2>1
    <3> QED BY <3>1, <3>2, <3>3
  <2>9. TagsAre(x, m, q) /\ x.nr_dtd = cea.nr_dtd
    BY <2>3, <2>4, <2>7, <2>8 DEF TagsAre
  <2> QED BY <2>1, <2>9 DEF q, x
<1> HIDE DEF T
<1>6. 0 .. n \subseteq T
  BY <1>1, <1>4, <1>5, Induction
<1> QED BY <1>6 DEF T, n

(* The decoded extension of a monitor, whatever the struct held before.    *)
LEMMA CeaDecoded ==
  ASSUME NEW m, IsMonitor(m), NEW e, NEW f, Extended128(e, m, f), NEW old, ShapedCea(old)
  PROVE  FinalCea(edid_decode_cea(e, 128, old), e, m, f)
<1> DEFINE n == Len(m.blocks)  t == m.native  cea == CeaHead(e, old)  w == CeaWalked(e, old)
           x == edid_decode_cea(e, 128, old)
           times == [j \in DOMAIN w.detailed_timing \cup (1 .. w.nr_dtd) |->
                       IF j <= w.nr_dtd THEN DetailedTiming(e, Dtd(e) + 18 * (j - 1), FALSE) ELSE w.detailed_timing[j]]
<1>1. PICK u : WalksBlocks(u, e, m, f, cea) /\ w = u[n]
  BY MonitorWalk
<1>2. ShapedCea(cea) /\ cea.dbc_tags = << >> /\ cea.nr_dtd = Bits(e[131], 0, 4)
  BY HeadIs
<1>3. x = [w EXCEPT !.detailed_timing = times]
  <2>1. times = CeaTimes(e, old)
    BY Zenon DEF CeaTimes
  <2>3. Dtd(e) # 0
    BY PlacesAre
  <2>2. x = [w EXCEPT !.detailed_timing = CeaTimes(e, old)]
    BY <2>3, CeaIs
  <2> HIDE DEF x, w, times
  <2> QED BY <2>1, <2>2
<1>4. t \in 0 .. 6 /\ e[131] = 64 + t
  <2>1. Len(m.timings) \in 0 .. 6 /\ t \in 0 .. Len(m.timings) /\ e[131] = 64 + t
    BY DEF Extended128
  <2> HIDE DEF t
  <2>2. \A q \in 0 .. 6 : \A y \in 0 .. q : y \in 0 .. 6
    OBVIOUS
  <2> QED BY <2>1, <2>2
<1>5. Bits(e[131], 0, 4) = t
  <2>1. \A y \in 0 .. 6 : (64 + y) \div 1 = 64 + y /\ (64 + y) % 16 = y
    OBVIOUS
  <2>2. t \in 0 .. 6
    BY <1>4
  <2> HIDE DEF t
  <2>3. (64 + t) \div 1 = 64 + t /\ (64 + t) % 16 = t
    BY <2>1, <2>2
  <2> QED BY <2>3, <1>4, TwoIs DEF Bits
<1>6. Dtd(e) \in 133 .. 255 /\ n \in 1 .. 62
  BY PlacesAre
<1> HIDE DEF cea, w, x, times
<1>7. TagsAre(w, m, n) /\ w.nr_dtd = t
  <2>1. n \in 0 .. n
    BY <1>6
  <2> QED BY <2>1, <1>1, <1>2, <1>5, TagsHold
<1>8. \A k \in 1 .. n : Holding(w, e, Place(f, k - 1), m.blocks[k].tag)
  BY <1>1, <1>2, FieldsHold
<1>9. ShapedCea(w)
  <2>1. n \in 0 .. n
    BY <1>6
  <2> QED BY <2>1, <1>1, <1>2, WalkSteps
<1>10. /\ x.dbc_tags = w.dbc_tags /\ x.nr_dtd = w.nr_dtd /\ x.db_audio = w.db_audio /\ x.db_video = w.db_video
       /\ x.db_vsdb_hdmi = w.db_vsdb_hdmi /\ x.db_speaker = w.db_speaker /\ x.detailed_timing = times
  BY <1>3, <1>9 DEF ShapedCea, CeaFields
<1>11. TagsAre(x, m, n) /\ x.nr_dtd = t
  BY <1>7, <1>10 DEF TagsAre
<1>12. DOMAIN x.dbc_tags = 1 .. n
  BY <1>11, LenProperties DEF TagsAre
<1>13. \A k \in 1 .. n : Holding(x, e, Place(f, k - 1), m.blocks[k].tag)
  BY <1>8, <1>10 DEF Holding
<1>14. ASSUME NEW j \in 1 .. t PROVE times[j] = DetailedTiming(e, Dtd(e) + 18 * (j - 1), FALSE)
  <2>0. t \in 0 .. 6 /\ w.nr_dtd = t /\ j \in 1 .. t
    BY <1>4, <1>7
  <2> HIDE DEF t
  <2>1. j \in 1 .. w.nr_dtd /\ j <= w.nr_dtd
    BY <2>0
  <2> QED BY <2>1, Zenon DEF times
<1>15. \A j \in 1 .. t : x.detailed_timing[j] = DetailedTiming(e, Dtd(e) + 18 * (j - 1), FALSE)
  BY <1>10, <1>14
<1> QED BY <1>11, <1>12, <1>13, <1>15 DEF FinalCea, x, n, t

(***************************************************************************)
(* What is printed of the data blocks.                                     *)
(***************************************************************************)
SadAt(b, o, s) == b[o] = Triple(s)[1] /\ b[o + 1] = Triple(s)[2] /\ b[o + 2] = Triple(s)[3]

(* Sad reads the audio format that Triple wrote.                           *)
LEMMA SadShown ==
  ASSUME NEW s \in AudioFormats, IsSad(s), NEW b, NEW o, SadAt(b, o, s), NEW old
  PROVE  ShownSad(Sad(b, o, old)) = s
<1> DEFINE g == s.format  h == s.channels  q == s.freq  l == s.last  x == 8 * g + h - 1
<1>1. /\ s = [format |-> g, channels |-> h, freq |-> q, last |-> l]
      /\ g \in 0 .. 15 /\ h \in 1 .. 8 /\ q \in 0 .. 127 /\ l \in Nat
  BY DEF AudioFormats, Below, Nibble
<1>2. /\ g = 1 => l < 8
      /\ g \in 2 .. 8 => l % 8 = 0
      /\ g # 1 /\ g \notin 2 .. 8 => l = 0
  BY DEF IsSad
<1>3. b[o] = x /\ b[o + 1] = q /\ b[o + 2] = IF g = 1 THEN l ELSE l \div 8
  BY DEF SadAt, Triple
<1> HIDE DEF g, h, q, l
<1>4. x \in Nat /\ (x \div 8) % 16 = g /\ (x % 8) + 1 = h
  <2>1. \A y \in 0 .. 15, z \in 1 .. 8 :
          8 * y + z - 1 \in Nat /\ ((8 * y + z - 1) \div 8) % 16 = y /\ ((8 * y + z - 1) % 8) + 1 = z
    OBVIOUS
  <2> QED BY <2>1, <1>1
<1> HIDE DEF x
<1>5. Bits(b[o], 3, 4) = g /\ Bits(b[o], 0, 3) + 1 = h
  BY <1>3, <1>4, BitsAre
<1>6. Bits(b[o + 1], 0, 7) = q
  <2>1. q \in Nat /\ q % 128 = q
    BY <1>1
  <2> QED BY <2>1, <1>3, BitsAre
<1> DEFINE d == Sad(b, o, old)
<1>7. /\ d.format = g /\ d.channels = h /\ d.freq = q
      /\ g = 1 => d.resolution = Bits(b[o + 2], 0, 3)
      /\ g \in 2 .. 8 => d.bitrate = 8 * b[o + 2]
  BY <1>5, <1>6 DEF Sad
<1> HIDE DEF d
<1>8. g = 1 => d.resolution = l
  <2>1. ASSUME g = 1 PROVE Bits(l, 0, 3) = l
    <3>1. l % 8 = l
      BY <1>1, <1>2, <2>1
    <3> QED BY <3>1, <1>1, BitsAre
  <2> QED BY <2>1, <1>3, <1>7
<1>9. g \in 2 .. 8 => d.bitrate = l
  <2>1. ASSUME g \in 2 .. 8 PROVE 8 * (l \div 8) = l /\ g # 1
    <3>1. l % 8 = 0
      BY <1>2, <2>1
    <3> QED BY <3>1, <2>1, <1>1
  <2> QED BY <2>1, <1>3, <1>7
<1>10. (CASE g = 1 -> d.resolution [] g \in 2 .. 8 -> d.bitrate [] OTHER -> 0) = l
  <2>1. CASE g = 1
    <3>1. g \notin 2 .. 8
      BY <2>1
    <3> QED BY <2>1, <3>1, <1>8
  <2>2. CASE g \in 2 .. 8
    <3>1. g # 1
      BY <2>2
    <3> QED BY <2>2, <3>1, <1>9
  <2>3. CASE g # 1 /\ g \notin 2 .. 8
    BY <2>3, <1>2
  <2> QED BY <2>1, <2>2, <2>3
<1>11. ShownSad(d) = [format |-> g, channels |-> h, freq |-> q, last |-> l]
  BY <1>7, <1>10 DEF ShownSad
<1> QED BY <1>1, <1>11 DEF d

(* All the formats of an audio block.                                      *)
LEMMA AudioShown ==
  ASSUME NEW k, k.kind = "audio", k.u \in Seq(AudioFormats), \A j \in DOMAIN k.u : IsSad(k.u[j]),
         Len(BodyBytes(k)) \in 0 .. 31, NEW b, NEW c \in Nat, BlockAt(b, c, k), NEW old
  PROVE  LET d == Audio(b, c, old) IN [j \in 1 .. d.nr_sad |-> ShownSad(d.sad[j])] = k.u
<1> DEFINE u == k.u  n == Len(u)  d == Audio(b, c, old)
<1>1. /\ n \in Nat /\ u \in [1 .. n -> AudioFormats]
      /\ \A j \in 1 .. n : Triple(u[j]) \in [1 .. 3 -> Byte] /\ IsSad(u[j])
      /\ AudioBytes(u) \in [1 .. 3 * n -> Byte]
      /\ \A j \in 1 .. n, l \in 1 .. 3 : AudioBytes(u)[3 * (j - 1) + l] = Triple(u[j])[l]
  BY AudioBytesAre
<1>2. BodyBytes(k) = AudioBytes(u)
  BY DEF BodyBytes
<1> HIDE DEF u, n
<1>3. Len(AudioBytes(u)) = 3 * n /\ n \in 0 .. 10
  <2>1. 3 * n \in Nat
    BY <1>1
  <2>2. Len(AudioBytes(u)) = 3 * n
    <3> DEFINE w == 3 * n
    <3>1. w \in Nat /\ AudioBytes(u) \in [1 .. w -> Byte]
      BY <1>1
    <3> HIDE DEF w
    <3>2. Len(AudioBytes(u)) = w
      BY <3>1, LenIs, Zenon
    <3> QED BY <3>2 DEF w
  <2>3. 3 * n \in 0 .. 31
    BY <1>2, <2>2
  <2> QED BY <2>2, <2>3, <1>1
<1>4. BlockLength(b, c) = 3 * n /\ \A j \in 1 .. 3 * n : b[c + j] = AudioBytes(u)[j]
  BY <1>2, <1>3 DEF BlockAt
<1>5. (3 * n) \div 3 = n
  BY <1>3
<1>6. d = [nr_sad |-> n, sad |-> [j \in 1 .. 10 |-> IF j <= n THEN Sad(b, c + 3 * j - 2, old.sad[j]) ELSE old.sad[j]]]
  BY <1>4, <1>5 DEF Audio
<1> HIDE DEF d
<1>7. ASSUME NEW j \in 1 .. n PROVE ShownSad(d.sad[j]) = u[j]
  <2> DEFINE o == c + 3 * j - 2
  <2>1. o = c + (3 * (j - 1) + 1) /\ o + 1 = c + (3 * (j - 1) + 2) /\ o + 2 = c + (3 * (j - 1) + 3)
    BY <1>1
  <2>2. 3 * (j - 1) + 1 \in 1 .. 3 * n /\ 3 * (j - 1) + 2 \in 1 .. 3 * n /\ 3 * (j - 1) + 3 \in 1 .. 3 * n
    BY <1>1
  <2> DEFINE x == 3 * (j - 1) + 1  y == 3 * (j - 1) + 2  z == 3 * (j - 1) + 3
  <2>3. AudioBytes(u)[x] = Triple(u[j])[1] /\ AudioBytes(u)[y] = Triple(u[j])[2] /\ AudioBytes(u)[z] = Triple(u[j])[3]
    BY <1>1
  <2>4. x \in 1 .. 3 * n /\ y \in 1 .. 3 * n /\ z \in 1 .. 3 * n /\ o = c + x /\ o + 1 = c + y /\ o + 2 = c + z
    BY <2>1, <2>2
  <2>5. j \in 1 .. 10 /\ j <= n
    BY <1>3
  <2>6. d.sad[j] = Sad(b, o, old.sad[j])
    BY <1>6, <2>5
  <2> HIDE DEF x, y, z, o
  <2>7. SadAt(b, o, u[j])
    BY <2>3, <2>4, <1>4 DEF SadAt
  <2>8. u[j] \in AudioFormats /\ IsSad(u[j])
    BY <1>1
  <2> QED BY <2>6, <2>7, <2>8, SadShown
<1>8. d.nr_sad = n
  BY <1>6
<1>9. [j \in 1 .. d.nr_sad |-> ShownSad(d.sad[j])] = u
  BY <1>1, <1>7, <1>8
<1> QED BY <1>9 DEF d, u

(* All the modes of a video block.                                         *)
LEMMA VideoShown ==
  ASSUME NEW k, k.kind = "video", k.u \in Seq([native : BOOLEAN, vic : 0 .. 127]),
         NEW b, NEW c \in Nat, BlockAt(b, c, k)
  PROVE  Video(b, c) = k.u
<1> DEFINE u == k.u  n == Len(u)
<1>1. /\ n \in Nat /\ u \in [1 .. n -> [native : BOOLEAN, vic : 0 .. 127]]
      /\ VideoBytes(u) \in [1 .. n -> Byte]
      /\ \A j \in 1 .. n : VideoBytes(u)[j] = Flag(u[j].native, 128) + u[j].vic
  BY VideoBytesAre
<1>2. BodyBytes(k) = VideoBytes(u)
  BY DEF BodyBytes
<1> HIDE DEF u, n
<1>3. Len(VideoBytes(u)) = n
  BY <1>1, LenIs, Zenon
<1>4. BlockLength(b, c) = n /\ \A j \in 1 .. n : b[c + j] = VideoBytes(u)[j]
  BY <1>2, <1>3 DEF BlockAt
<1>5. ASSUME NEW j \in 1 .. n PROVE [native |-> Has(b[c + j], 128), vic |-> Bits(b[c + j], 0, 7)] = u[j]
  <2> DEFINE y == u[j].native  v == u[j].vic  a == Flag(y, 128)
  <2>1. y \in BOOLEAN /\ v \in 0 .. 127 /\ u[j] = [native |-> y, vic |-> v]
    BY <1>1
  <2>2. b[c + j] = a + v
    BY <1>1, <1>4
  <2> HIDE DEF y, v
  <2>3. a \in {0, 128} /\ (a = 128 <=> y)
    BY <2>1 DEF Flag
  <2> HIDE DEF a
  <2>4. a + v \in Nat /\ (a + v) % 128 = v /\ (((a + v) \div 128) % 2 = 1 <=> a = 128)
    <3>1. \A w \in {0, 128}, x \in 0 .. 127 :
            w + x \in Nat /\ (w + x) % 128 = x /\ (((w + x) \div 128) % 2 = 1 <=> w = 128)
      OBVIOUS
    <3> QED BY <3>1, <2>1, <2>3
  <2>5. Has(a + v, 128) = y
    <3>1. Has(a + v, 128) <=> y
      BY <2>3, <2>4 DEF Has
    <3> QED BY <3>1, <2>1 DEF Has
  <2>6. Bits(a + v, 0, 7) = v
    BY <2>4, BitsAre
  <2> QED BY <2>1, <2>2, <2>5, <2>6
<1>6. Video(b, c) = [j \in 1 .. n |-> [native |-> Has(b[c + j], 128), vic |-> Bits(b[c + j], 0, 7)]]
  BY <1>4 DEF Video
<1>7. Video(b, c) = u
  BY <1>1, <1>5, <1>6
<1> QED BY <1>7 DEF u

(* The speakers of a speaker block.                                        *)
LEMMA SpeakerShown ==
  ASSUME NEW k, k.kind = "speaker", k.u \in 0 .. 127, NEW b, NEW c \in Nat, BlockAt(b, c, k)
  PROVE  Bits(b[c + 1], 0, 7) = k.u
<1> DEFINE u == k.u
<1>1. BodyBytes(k) = <<u, 0, 0>>
  BY DEF BodyBytes
<1>2. Len(BodyBytes(k)) = 3 /\ BodyBytes(k)[1] = u
  BY <1>1
<1>3. b[c + 1] = u
  BY <1>2 DEF BlockAt
<1>4. u \in Nat /\ u % 128 = u
  OBVIOUS
<1> HIDE DEF u
<1>5. Bits(u, 0, 7) = u
  BY <1>4, BitsAre
<1> QED BY <1>3, <1>5 DEF u

(***************************************************************************)
(* The 3D formats of the vendor block.                                     *)
(***************************************************************************)
IsVics(g, b, end, n, a) ==
  g[0] = a /\ \A k \in 1 .. n : g[k] = NextVic(b, end, g[k - 1])

(* The loop over the 3D formats.                                           *)
LEMMA VicsIs ==
  ASSUME NEW b, NEW o, NEW N \in Nat, N # 0
  PROVE  \E g : IsVics(g, b, o + N, N, [at |-> o, vics |-> << >>]) /\ Vics(b, o, N) = g[N].vics
<1> DEFINE a == [at |-> o, vics |-> << >>]  end == o + N
           after[k \in 0 .. N] == IF k = 0 THEN a ELSE NextVic(b, end, after[k - 1])
           Is(f, n) == f = [k \in 0 .. n |-> IF k = 0 THEN a ELSE NextVic(b, end, f[k - 1])]
           T == {n \in 0 .. N : \E f : Is(f, n)}
<1>1. N \in Nat /\ N # 0
  OBVIOUS
<1>2. Vics(b, o, N) = after[N].vics
  BY <1>1 DEF Vics, Repeat
<1> HIDE DEF a, end
<1>3. 0 \in T
  <2>1. Is([k \in 0 .. 0 |-> a], 0)
    OBVIOUS
  <2>2. 0 \in 0 .. N
    BY <1>1
  <2> HIDE DEF Is
  <2> QED BY <2>1, <2>2
<1>4. ASSUME NEW n \in 0 .. N - 1, n \in T PROVE n + 1 \in T
  <2>1. PICK f : Is(f, n)
    BY <1>4
  <2> DEFINE h == [k \in 0 .. n + 1 |-> IF k <= n THEN f[k] ELSE NextVic(b, end, f[k - 1])]
  <2>2. ASSUME NEW k \in 0 .. n + 1 PROVE h[k] = IF k = 0 THEN a ELSE NextVic(b, end, h[k - 1])
    <3>1. CASE k <= n
      <4>1. k \in 0 .. n /\ f[k] = (IF k = 0 THEN a ELSE NextVic(b, end, f[k - 1]))
        BY <2>1, <3>1, <1>1
      <4>2. k # 0 => k - 1 \in 0 .. n + 1 /\ k - 1 <= n
        BY <3>1, <1>1
      <4> QED BY <4>1, <4>2, <3>1, <1>1
    <3>2. CASE k = n + 1
      <4>1. k # 0 /\ ~(k <= n) /\ k - 1 \in 0 .. n + 1 /\ k - 1 <= n
        BY <3>2, <1>1
      <4> QED BY <4>1
    <3> QED BY <3>1, <3>2, <1>1
  <2>3. Is(h, n + 1) /\ n + 1 \in 0 .. N
    BY <2>2, <1>1
  <2> HIDE DEF Is, h
  <2> QED BY <2>3
<1> HIDE DEF T
<1>5. N \in T
  <2>1. 0 .. N \subseteq T
    BY <1>1, <1>3, <1>4, Induction
  <2> QED BY <2>1, <1>1
<1>6. PICK f : Is(f, N)
  BY <1>5 DEF T
<1>7. after = [k \in 0 .. N |-> IF k = 0 THEN a ELSE NextVic(b, end, after[k - 1])]
  BY <1>6
<1> HIDE DEF after
<1>8. IsVics(after, b, end, N, a)
  <2>1. after[0] = a
    BY <1>7, <1>1
  <2>2. \A k \in 1 .. N : after[k] = NextVic(b, end, after[k - 1])
    BY <1>7, <1>1
  <2> QED BY <2>1, <2>2 DEF IsVics
<1> QED BY <1>2, <1>8 DEF a, end

(* One of them: w bytes at at.                                             *)
VicWidth(x) == IF x.struct_3d >= 8 THEN 2 ELSE 1
VicAt(b, at, x) == \A j \in 1 .. VicWidth(x) : b[at + j - 1] = VicBytes(x)[j]

(* Vic reads the format that VicBytes wrote.                               *)
LEMMA VicDecoded ==
  ASSUME NEW x \in VicSet, x.struct_3d < 8 => x.detail_3d = 0, NEW b, NEW at \in Nat, VicAt(b, at, x)
  PROVE  Vic(b, at) = x /\ (IF Bits(b[at], 0, 4) >= 8 THEN 2 ELSE 1) = VicWidth(x)
<1> DEFINE g == x.vic_2d  s == x.struct_3d  d == x.detail_3d
<1>1. /\ VicBytes(x)[1] = 16 * g + s /\ (s >= 8 => VicBytes(x)[2] = 16 * d)
      /\ g \in 0 .. 15 /\ s \in 0 .. 15 /\ d \in 0 .. 15
      /\ x = [vic_2d |-> g, struct_3d |-> s, detail_3d |-> d]
  BY VicBytesAre DEF Nibbles, Nibble
<1>2. s < 8 => d = 0
  OBVIOUS
<1>3. VicWidth(x) = IF s >= 8 THEN 2 ELSE 1
  BY DEF VicWidth
<1> HIDE DEF g, s, d
<1>4. b[at] = 16 * g + s
  <2>1. 1 \in 1 .. VicWidth(x) /\ at + 1 - 1 = at
    BY <1>3
  <2>2. PICK j \in 1 .. VicWidth(x) : j = 1
    BY <2>1
  <2>3. b[at + j - 1] = VicBytes(x)[j]
    BY DEF VicAt
  <2> QED BY <2>1, <2>2, <2>3, <1>1
<1>5. s >= 8 => b[at + 1] = 16 * d
  <2>1. ASSUME s >= 8 PROVE b[at + 1] = 16 * d
    <3>1. 2 \in 1 .. VicWidth(x) /\ at + 2 - 1 = at + 1
      BY <1>3, <2>1
    <3>2. PICK j \in 1 .. VicWidth(x) : j = 2
      BY <3>1
    <3>3. b[at + j - 1] = VicBytes(x)[j]
      BY DEF VicAt
    <3> QED BY <3>1, <3>2, <3>3, <1>1, <2>1
  <2> QED BY <2>1
<1>6. \A y \in 0 .. 15, z \in 0 .. 15 :
        16 * y + z \in Nat /\ ((16 * y + z) \div 16) % 16 = y /\ (16 * y + z) % 16 = z
  OBVIOUS
<1>7. Bits(b[at], 4, 4) = g /\ Bits(b[at], 0, 4) = s
  <2> DEFINE y == 16 * g + s
  <2>1. y \in Nat /\ (y \div 16) % 16 = g /\ y % 16 = s
    BY <1>1, <1>6
  <2> HIDE DEF y
  <2>2. Bits(y, 4, 4) = g /\ Bits(y, 0, 4) = s
    BY <2>1, BitsAre
  <2> QED BY <2>2, <1>4 DEF y
<1>8. s >= 8 => Bits(b[at + 1], 4, 4) = d
  <2> DEFINE y == 16 * d
  <2>1. y \in Nat /\ (y \div 16) % 16 = d
    BY <1>1
  <2> HIDE DEF y
  <2>2. Bits(y, 4, 4) = d
    BY <2>1, BitsAre
  <2> QED BY <2>2, <1>5 DEF y
<1>9. Vic(b, at) = [vic_2d |-> g, struct_3d |-> s, detail_3d |-> IF s >= 8 THEN Bits(b[at + 1], 4, 4) ELSE 0]
  BY <1>7 DEF Vic
<1>10. (IF s >= 8 THEN Bits(b[at + 1], 4, 4) ELSE 0) = d
  BY <1>1, <1>2, <1>8
<1>11. Vic(b, at) = x
  BY <1>1, <1>9, <1>10
<1> QED BY <1>3, <1>7, <1>11

(* The formats up to k.                                                    *)
VicsTo(s, u, k) == s \in Seq(VicSet) /\ Len(s) = k /\ \A j \in 1 .. k : s[j] = u[j]

(* Appending an element.                                                   *)
LEMMA OneMore ==
  ASSUME NEW S, NEW s \in Seq(S), NEW k \in Nat, Len(s) = k, NEW x \in S
  PROVE  /\ Append(s, x) \in Seq(S) /\ Len(Append(s, x)) = k + 1
         /\ \A j \in 1 .. k : Append(s, x)[j] = s[j]
         /\ Append(s, x)[k + 1] = x
BY AppendProperties

(* Vics reads all the formats.                                             *)
LEMMA VicsDecoded ==
  ASSUME NEW v, IsVideoFields(v), NEW f, FlatAt(f, Byte, Len(v.vic_3d), VicRows(v)),
         NEW b, NEW o \in Nat, Len(f[Len(v.vic_3d)]) # 0,
         \A j \in 1 .. Len(f[Len(v.vic_3d)]) : b[o + j - 1] = f[Len(v.vic_3d)][j]
  PROVE  Vics(b, o, Len(f[Len(v.vic_3d)])) = v.vic_3d
<1> DEFINE u == v.vic_3d  n == Len(u)  N == Len(f[n])  end == o + N  Length(k) == Len(f[k])
<1>1. /\ n \in Nat /\ u \in [1 .. n -> VicSet] /\ DOMAIN u = 1 .. n
      /\ \A k \in 1 .. n : u[k].struct_3d < 8 => u[k].detail_3d = 0
  <2>1. n \in Nat /\ u \in [1 .. n -> VicSet] /\ DOMAIN u = 1 .. n
    BY VideoFieldsHave
  <2> QED BY <2>1 DEF IsVideoFields
<1>2. /\ N \in Nat /\ N # 0 /\ Length(0) = 0 /\ \A k \in 0 .. n : Length(k) \in 0 .. N
      /\ \A k \in 1 .. n : Placed(f, n, VicRows(v), k)
  BY DEF FlatAt
<1>3. \A j \in 1 .. N : b[o + j - 1] = f[n][j]
  OBVIOUS
<1>4. PICK g : IsVics(g, b, end, N, [at |-> o, vics |-> << >>]) /\ Vics(b, o, N) = g[N].vics
  <2> HIDE DEF N
  <2> QED BY <1>2, VicsIs
<1>5. g[0] = [at |-> o, vics |-> << >>] /\ \A k \in 1 .. N : g[k] = NextVic(b, end, g[k - 1])
  BY <1>4 DEF IsVics
<1>6. ASSUME NEW k \in 1 .. n
      PROVE  /\ Length(k) = Length(k - 1) + VicWidth(u[k]) /\ VicWidth(u[k]) \in 1 .. 2
             /\ Length(k - 1) \in Nat /\ Length(k) \in 0 .. N /\ VicAt(b, o + Length(k - 1), u[k])
  <2>1. u[k] \in VicSet
    BY <1>1
  <2>2. VicRows(v)[k] = VicBytes(u[k])
    BY DEF VicRows
  <2>3. Len(VicBytes(u[k])) = VicWidth(u[k]) /\ VicWidth(u[k]) \in 1 .. 2
    <3> DEFINE x == u[k]
    <3>1. x \in VicSet
      BY <2>1
    <3> HIDE DEF x
    <3>2. Len(VicBytes(x)) = VicWidth(x) /\ VicWidth(x) \in 1 .. 2
      BY <3>1, VicBytesAre DEF VicWidth
    <3> QED BY <3>2 DEF x
  <2>4. Placed(f, n, VicRows(v), k)
    BY <1>2
  <2> DEFINE a == Length(k - 1)  w == VicWidth(u[k])
  <2>5. Length(k) = a + w /\ \A j \in 1 .. w : f[n][a + j] = VicBytes(u[k])[j]
    BY <2>2, <2>3, <2>4 DEF Placed
  <2>6. a \in Nat /\ Length(k) \in 0 .. N
    <3>1. k - 1 \in 0 .. n /\ k \in 0 .. n
      BY <1>1
    <3>2. Length(k - 1) \in 0 .. N /\ Length(k) \in 0 .. N
      BY <3>1, <1>2
    <3> QED BY <3>2
  <2> HIDE DEF a, w, Length, N, u, n
  <2>7. ASSUME NEW j \in 1 .. w PROVE b[o + a + j - 1] = VicBytes(u[k])[j]
    <3>1. w \in 1 .. 2
      BY <2>3 DEF w
    <3>2. PICK q \in 1 .. N : q = a + j
      BY <2>5, <2>6, <3>1, <1>2
    <3>3. b[o + q - 1] = f[n][q]
      BY <1>3
    <3>4. o + q - 1 = o + a + j - 1
      BY <2>6, <3>1, <3>2
    <3> QED BY <2>5, <3>2, <3>3, <3>4
  <2>8. VicAt(b, o + a, u[k])
    BY <2>7 DEF VicAt, w
  <2> QED BY <2>3, <2>5, <2>6, <2>8 DEF a, w
<1> HIDE DEF u, n, N, Length
<1> DEFINE T == {k \in 0 .. n : k <= Length(k)}
<1>7. n <= N
  <2>1. 0 \in T
    BY <1>1, <1>2
  <2>2. ASSUME NEW k \in 0 .. n - 1, k \in T PROVE k + 1 \in T
    <3> DEFINE q == k + 1
    <3>1. q \in 1 .. n /\ q - 1 = k /\ q \in 0 .. n
      BY <1>1
    <3> HIDE DEF q
    <3>2. Length(q) = Length(k) + VicWidth(u[q]) /\ VicWidth(u[q]) \in 1 .. 2 /\ Length(k) \in Nat
      BY <3>1, <1>6
    <3>3. q <= Length(q)
      BY <2>2, <3>1, <3>2
    <3> QED BY <3>1, <3>3 DEF q
  <2> HIDE DEF T
  <2>3. 0 .. n \subseteq T /\ n \in 0 .. n
    <3>1. \A k \in 0 .. n - 1 : k \in T => k + 1 \in T
      BY <2>2
    <3>2. 0 .. n \subseteq T
      BY <3>1, <1>1, <2>1, Induction
    <3>3. n \in 0 .. n
      BY <1>1
    <3> QED BY <3>2, <3>3
  <2>4. n <= Length(n) /\ n \in 0 .. n
    BY <2>3 DEF T
  <2> QED BY <2>4 DEF Length, N
<1> DEFINE Good(k) == g[k].at = o + Length(k) /\ VicsTo(g[k].vics, u, k)
           G == {k \in 0 .. n : Good(k)}
<1>8. 0 \in G
  <2>1. << >> \in Seq(VicSet) /\ Len(<< >>) = 0
    OBVIOUS
  <2>2. VicsTo(<< >>, u, 0)
    BY <2>1 DEF VicsTo
  <2> QED BY <2>2, <1>1, <1>2, <1>5
<1>9. ASSUME NEW k \in 0 .. n - 1, k \in G PROVE k + 1 \in G
  <2> DEFINE q == k + 1
  <2>1. q \in 1 .. n /\ q - 1 = k /\ q \in 0 .. n /\ q \in 1 .. N
    BY <1>1, <1>2, <1>7
  <2>9. k \in Nat /\ q = k + 1
    OBVIOUS
  <2> HIDE DEF q
  <2> DEFINE w == g[k]  x == u[q]  y == g[q]  d == VicWidth(x)  at == o + Length(k)
  <2>2. /\ Length(q) = Length(k) + d /\ d \in 1 .. 2 /\ Length(k) \in Nat /\ Length(q) \in 0 .. N
        /\ VicAt(b, at, x)
    BY <2>1, <1>6
  <2>3. x \in VicSet /\ (x.struct_3d < 8 => x.detail_3d = 0)
    BY <2>1, <1>1
  <2>4. y = NextVic(b, end, w) /\ w.at = at /\ VicsTo(w.vics, u, k)
    BY <2>1, <1>5, <1>9
  <2>5. at \in Nat /\ ~(at >= end) /\ at + d = o + Length(q)
    BY <2>2, <1>2
  <2> HIDE DEF w, x, y, d, at
  <2>6. Vic(b, at) = x /\ (IF Bits(b[at], 0, 4) >= 8 THEN 2 ELSE 1) = d
    BY <2>2, <2>3, <2>5, VicDecoded DEF d
  <2>7. y = [at |-> at + d, vics |-> Append(w.vics, x)]
    BY <2>4, <2>5, <2>6 DEF NextVic
  <2> DEFINE s == w.vics
  <2>8. VicsTo(Append(s, x), u, q)
    <3>1. s \in Seq(VicSet) /\ Len(s) = k /\ \A j \in 1 .. k : s[j] = u[j]
      BY <2>4 DEF VicsTo
    <3> HIDE DEF s
    <3>2. /\ Append(s, x) \in Seq(VicSet) /\ Len(Append(s, x)) = k + 1
          /\ \A j \in 1 .. k : Append(s, x)[j] = s[j]
          /\ Append(s, x)[k + 1] = x
      BY <3>1, <2>3, <2>9, OneMore
    <3> DEFINE t == Append(s, x)
    <3> HIDE DEF t
    <3>3. t \in Seq(VicSet) /\ Len(t) = q /\ (\A j \in 1 .. k : t[j] = u[j]) /\ t[q] = u[q]
      BY <3>1, <3>2, <2>9 DEF t, x
    <3>4. \A j \in 1 .. q : j \in 1 .. k \/ j = q
      BY <2>9
    <3>5. VicsTo(t, u, q)
      BY <3>3, <3>4 DEF VicsTo
    <3> QED BY <3>5 DEF t
  <2>10. Good(q)
    BY <2>5, <2>7, <2>8 DEF y
  <2> QED BY <2>1, <2>9, <2>10
<1> HIDE DEF G
<1>10. Good(n)
  <2>1. 0 .. n \subseteq G /\ n \in 0 .. n
    <3>1. \A k \in 0 .. n - 1 : k \in G => k + 1 \in G
      BY <1>9
    <3>2. 0 .. n \subseteq G
      BY <3>1, <1>1, <1>8, Induction
    <3>3. n \in 0 .. n
      BY <1>1
    <3> QED BY <3>2, <3>3
  <2>2. n \in G
    BY <2>1
  <2> QED BY <2>2 DEF G
<1> DEFINE U == {k \in 0 .. N : k >= n => g[k] = g[n]}
<1>11. 0 \in U
  BY <1>1, <1>2
<1>12. ASSUME NEW k \in 0 .. N - 1, k \in U PROVE k + 1 \in U
  <2> DEFINE q == k + 1
  <2>1. q \in 1 .. N /\ q - 1 = k /\ q \in 0 .. N
    BY <1>2
  <2> HIDE DEF q
  <2>2. ASSUME q > n PROVE g[q] = g[n]
    <3>1. g[k] = g[n]
      BY <2>1, <2>2, <1>1, <1>12
    <3>2. g[q] = NextVic(b, end, g[n])
      BY <2>1, <3>1, <1>5
    <3>3. g[n].at = end
      BY <1>10 DEF Length, N
    <3>4. g[n].at >= end
      BY <3>3, <1>2
    <3>5. NextVic(b, end, g[n]) = g[n]
      BY <3>4 DEF NextVic
    <3> QED BY <3>2, <3>5
  <2>3. q >= n => g[q] = g[n]
    BY <2>1, <2>2, <1>1
  <2> QED BY <2>1, <2>3 DEF q
<1> HIDE DEF U
<1>13. g[N] = g[n]
  <2>1. 0 .. N \subseteq U /\ N \in 0 .. N
    <3>1. \A k \in 0 .. N - 1 : k \in U => k + 1 \in U
      BY <1>12
    <3>2. 0 .. N \subseteq U
      BY <3>1, <1>2, <1>11, Induction
    <3>3. N \in 0 .. N
      BY <1>2
    <3> QED BY <3>2, <3>3
  <2> QED BY <2>1, <1>7 DEF U
<1>14. g[n].vics = u
  <2> DEFINE s == g[n].vics
  <2>1. s \in Seq(VicSet) /\ Len(s) = n /\ \A j \in 1 .. n : s[j] = u[j]
    BY <1>10 DEF VicsTo
  <2> HIDE DEF s
  <2>2. s \in [1 .. n -> VicSet]
    BY <2>1, LenProperties
  <2>3. s = u
    BY <2>1, <2>2, <1>1
  <2> QED BY <2>3 DEF s
<1>15. Vics(b, o, N) = u
  BY <1>4, <1>13, <1>14
<1> QED BY <1>15 DEF N, u, n

(* The first byte of the 3D part.                                          *)
LEMMA FirstVideoByte ==
  ASSUME NEW y \in BOOLEAN, NEW g \in 0 .. 2, NEW h \in 0 .. 3, NEW x, x = Flag(y, 128) + 32 * g + 8 * h
  PROVE  Has(x, 128) = y /\ Bits(x, 5, 2) = g /\ Bits(x, 3, 2) = h
<1> DEFINE a == Flag(y, 128)
<1>1. a \in {0, 128} /\ (a = 128 <=> y)
  BY DEF Flag
<1> HIDE DEF a
<1>2. x \in Nat /\ ((x \div 128) % 2 = 1 <=> a = 128) /\ (x \div 32) % 4 = g /\ (x \div 8) % 4 = h
  <2>1. \A s \in {0, 128}, t \in 0 .. 2, u \in 0 .. 3 :
          LET z == s + 32 * t + 8 * u IN
          z \in Nat /\ ((z \div 128) % 2 = 1 <=> s = 128) /\ (z \div 32) % 4 = t /\ (z \div 8) % 4 = u
    OBVIOUS
  <2>2. x = a + 32 * g + 8 * h
    BY DEF a
  <2> QED BY <2>1, <2>2, <1>1
<1>3. Has(x, 128) <=> y
  BY <1>1, <1>2 DEF Has
<1>4. Bits(x, 5, 2) = g /\ Bits(x, 3, 2) = h
  BY <1>2, BitsAre
<1> QED BY <1>3, <1>4 DEF Has

(* A 16 bit mask is put together of its bytes.                             *)
LEMMA Rejoined ==
  ASSUME NEW x \in Nat, x < 65536
  PROVE  256 * HighPart(x) + LowByte(x) = x
BY Parts

(* The video fields start at hv.                                           *)
VideoAt(b, hv, v) ==
  \A j \in 1 .. 2 + Len(FormatBytes(v)) : b[hv + j - 1] = VideoFieldBytes(v)[j]

(* Fields3d reads the 3D part that VideoFieldBytes wrote.                  *)
LEMMA Fields3dDecoded ==
  ASSUME NEW v, IsVideoFields(v), v.vic_3d # << >>, Len(FormatBytes(v)) <= 31,
         NEW b, NEW hv \in Nat, VideoAt(b, hv, v), NEW old
  PROVE  Fields3d(b, hv, TRUE, old) = v
<1>1. PICK f : IsVideoBytes(VideoFieldBytes(v), v, f)
  BY VideoFieldBytesAre
<1> DEFINE n == Len(FormatBytes(v))  u == v.vic_3d  l == Len(u)  L == Len(f[l])  g == v.multi_3d
           x == VideoFieldBytes(v)  z == FormatBytes(v)  d == hv + 2
<1>2. /\ v.present_3d \in BOOLEAN /\ g \in 0 .. 2 /\ v.image_size \in 0 .. 3
      /\ v.struct_all_3d \in Nat /\ v.struct_all_3d < 65536 /\ v.mask_3d \in Nat /\ v.mask_3d < 65536
      /\ l \in Nat /\ u \in [1 .. l -> VicSet] /\ u \in Seq(VicSet)
      /\ v = [present_3d |-> v.present_3d, multi_3d |-> g, image_size |-> v.image_size,
              struct_all_3d |-> v.struct_all_3d, mask_3d |-> v.mask_3d, vic_3d |-> u]
  BY VideoFieldsHave
<1>3. g \in 1 .. 2 /\ (g # 2 => v.mask_3d = 0)
  <2>1. g # 0 /\ (g # 2 => v.mask_3d = 0)
    BY DEF IsVideoFields
  <2> QED BY <2>1, <1>2
<1>4. l # 0
  BY <1>2, EmptySeq
<1>5. /\ n \in Nat /\ x[1] = Flag(v.present_3d, 128) + 32 * g + 8 * v.image_size /\ x[2] = n
      /\ \A j \in 1 .. n : x[2 + j] = z[j]
      /\ IsFormats(z, v, f) /\ n = 2 * g + L
  BY <1>1 DEF IsVideoBytes
<1>6. /\ FlatAt(f, Byte, l, VicRows(v))
      /\ \A j \in 1 .. 2 * g : z[j] = FlattenSeq(Pairs(v))[j]
      /\ \A j \in 1 .. L : z[2 * g + j] = f[l][j]
      /\ \A k \in 1 .. g, j \in 1 .. 2 : FlattenSeq(Pairs(v))[2 * (k - 1) + j] = Pairs(v)[k][j]
  BY <1>5 DEF IsFormats, IsConcat, IsTable
<1>7. L \in Nat /\ L # 0
  <2>1. u[1] \in VicSet /\ VicRows(v)[1] = VicBytes(u[1]) /\ 1 \in 1 .. l /\ 1 - 1 = 0 /\ 1 \in 0 .. l
    BY <1>2, <1>4 DEF VicRows
  <2> DEFINE w == u[1]
  <2>2. w \in VicSet
    BY <2>1
  <2> HIDE DEF w
  <2>3. Len(VicBytes(w)) \in 1 .. 2
    BY <2>2, VicBytesAre
  <2>4. Placed(f, l, VicRows(v), 1)
    BY <2>1, <1>6 DEF FlatAt
  <2>5. Len(f[0]) = 0 /\ Len(f[1]) \in 0 .. L /\ L \in Nat
    BY <2>1, <1>6 DEF FlatAt
  <2>6. Len(f[1]) = Len(f[0]) + Len(VicBytes(w))
    BY <2>1, <2>4 DEF Placed, w
  <2>7. /\ Len(VicBytes(w)) \in Nat /\ Len(VicBytes(w)) >= 1
    BY <2>3
  <2> DEFINE first == Len(f[1])  added == Len(VicBytes(w))
  <2>8. first = 0 + added
    BY <2>5, <2>6
  <2>9. first \in 0 .. L /\ L \in Nat /\ added \in Nat /\ added >= 1
    BY <2>5, <2>7
  <2> HIDE DEF L, first, added
  <2> QED BY <2>8, <2>9
<1>8. \A j \in 1 .. 2 + n : b[hv + j - 1] = x[j]
  BY DEF VideoAt
<1>9. n <= 31
  OBVIOUS
<1> HIDE DEF n, u, l, L, g, x, z
<1>10. n \in 3 .. 31 /\ n - 2 * g = L
  BY <1>3, <1>5, <1>7, <1>9
<1>11. b[hv] = x[1] /\ b[hv + 1] = n
  <2>1. 1 \in 1 .. 2 + n /\ 2 \in 1 .. 2 + n /\ hv + 1 - 1 = hv /\ hv + 2 - 1 = hv + 1
    BY <1>10
  <2> QED BY <2>1, <1>5, <1>8
<1>12. Has(b[hv], 128) = v.present_3d /\ Bits(b[hv], 5, 2) = g /\ Bits(b[hv], 3, 2) = v.image_size
  BY <1>2, <1>5, <1>11, FirstVideoByte
<1>13. Bits(b[hv + 1], 0, 5) = n /\ Bits(b[hv + 1], 5, 3) = 0
  <2>1. n \in Nat /\ n % 32 = n /\ (n \div 32) % 8 = 0
    <3>1. \A y \in 3 .. 31 : y \in Nat /\ y % 32 = y /\ (y \div 32) % 8 = 0
      OBVIOUS
    <3> QED BY <3>1, <1>10
  <2> QED BY <2>1, <1>11, BitsAre
<1>14. ASSUME NEW j \in 1 .. n PROVE b[d + j - 1] = z[j]
  <2>1. PICK q \in 1 .. 2 + n : q = 2 + j
    BY <1>10
  <2>2. b[hv + q - 1] = x[q] /\ hv + q - 1 = d + j - 1
    BY <2>1, <1>8
  <2>3. x[2 + j] = z[j]
    BY <1>5
  <2> QED BY <2>1, <2>2, <2>3
<1> HIDE DEF d
<1>15. d \in Nat /\ d = hv + 2 + 0
  BY DEF d
<1>16. ASSUME NEW k \in 1 .. g
       PROVE  b[d + 2 * (k - 1)] = HighPart(MasksOf(v)[k]) /\ b[d + 2 * (k - 1) + 1] = LowByte(MasksOf(v)[k])
  <2>1. Pairs(v)[k] = <<HighPart(MasksOf(v)[k]), LowByte(MasksOf(v)[k])>>
    BY DEF Pairs, g
  <2>2. PICK s \in 1 .. n : s = 2 * (k - 1) + 1
    BY <1>3, <1>10, <1>7
  <2>3. PICK t \in 1 .. n : t = 2 * (k - 1) + 2
    BY <1>3, <1>10, <1>7
  <2>4. s \in 1 .. 2 * g /\ t \in 1 .. 2 * g
    BY <2>2, <2>3, <1>3
  <2>5. z[s] = Pairs(v)[k][1] /\ z[t] = Pairs(v)[k][2]
    BY <2>2, <2>3, <2>4, <1>6
  <2>6. b[d + s - 1] = z[s] /\ b[d + t - 1] = z[t]
    BY <1>14
  <2>7. d + s - 1 = d + 2 * (k - 1) /\ d + t - 1 = d + 2 * (k - 1) + 1
    BY <2>2, <2>3, <1>15, <1>3
  <2> QED BY <2>1, <2>5, <2>6, <2>7
<1>17. 256 * b[d] + b[d + 1] = v.struct_all_3d
  <2>1. MasksOf(v)[1] = v.struct_all_3d
    BY <1>3 DEF MasksOf, g
  <2>2. 1 \in 1 .. g /\ d + 2 * (1 - 1) = d /\ d + 2 * (1 - 1) + 1 = d + 1
    BY <1>3, <1>15
  <2>3. b[d] = HighPart(v.struct_all_3d) /\ b[d + 1] = LowByte(v.struct_all_3d)
    BY <2>1, <2>2, <1>16
  <2> QED BY <2>3, <1>2, Rejoined
<1>18. g = 2 => 256 * b[d + 2] + b[d + 3] = v.mask_3d
  <2>1. ASSUME g = 2 PROVE 256 * b[d + 2] + b[d + 3] = v.mask_3d
    <3>1. MasksOf(v)[2] = v.mask_3d
      BY <2>1 DEF MasksOf, g
    <3>2. 2 \in 1 .. g /\ d + 2 * (2 - 1) = d + 2 /\ d + 2 * (2 - 1) + 1 = d + 3
      BY <2>1, <1>15
    <3>3. b[d + 2] = HighPart(v.mask_3d) /\ b[d + 3] = LowByte(v.mask_3d)
      BY <3>1, <3>2, <1>16
    <3> QED BY <3>3, <1>2, Rejoined
  <2> QED BY <2>1
<1>19. Vics(b, d + 2 * g, n - 2 * g) = u
  <2> DEFINE o == d + 2 * g
  <2>1. o \in Nat
    BY <1>15, <1>3
  <2>2. ASSUME NEW j \in 1 .. L PROVE b[o + j - 1] = f[l][j]
    <3>1. PICK q \in 1 .. n : q = 2 * g + j
      BY <1>3, <1>10, <1>7
    <3>2. b[d + q - 1] = z[q]
      BY <1>14
    <3>3. d + q - 1 = o + j - 1
      BY <3>1, <1>15, <1>3
    <3> QED BY <3>1, <3>2, <3>3, <1>6
  <2> HIDE DEF o
  <2>3. Vics(b, o, L) = u
    BY <2>1, <2>2, <1>6, <1>7, VicsDecoded DEF L, l, u
  <2> QED BY <2>3, <1>10 DEF o
<1> DEFINE masks == CASE g = 2 -> 4 [] g = 1 -> 2 [] OTHER -> 0
<1>20. masks = 2 * g /\ masks \in {2, 4} /\ (masks = 4 <=> g = 2)
  <2>1. CASE g = 1
    BY <2>1
  <2>2. CASE g = 2
    BY <2>2
  <2> QED BY <2>1, <2>2, <1>3
<1> DEFINE D == hv + 2 + Bits(b[hv + 1], 5, 3)  size == Bits(b[hv + 1], 0, 5)  multi == Bits(b[hv], 5, 2)
           many == IF size > 0 THEN multi ELSE 0
           M == CASE many = 2 -> 4 [] many = 1 -> 2 [] OTHER -> 0
           P == TRUE /\ Has(b[hv], 128)  I == Bits(b[hv], 3, 2)
           S == IF M > 0 THEN 256 * b[D] + b[D + 1] ELSE 0
           W == IF M = 4 THEN 256 * b[D + 2] + b[D + 3] ELSE 0
           Q == IF size = 0 THEN old ELSE IF M = 0 THEN << >> ELSE Vics(b, D + M, size - M)
<1>21. Fields3d(b, hv, TRUE, old) =
         [present_3d |-> P, multi_3d |-> multi, image_size |-> I, struct_all_3d |-> S, mask_3d |-> W, vic_3d |-> Q]
  BY DEF Fields3d
<1>22. D = d /\ size = n /\ multi = g /\ I = v.image_size
  BY <1>12, <1>13, <1>15
<1> HIDE DEF D, size, multi, I
<1>23. M = masks
  <2>1. many = g
    BY <1>10, <1>22
  <2> QED BY <2>1
<1> HIDE DEF M, masks
<1>24. M > 0 /\ M # 0 /\ size # 0
  BY <1>10, <1>20, <1>22, <1>23
<1>25. S = v.struct_all_3d
  BY <1>17, <1>22, <1>24
<1>26. W = v.mask_3d
  <2>1. CASE g = 2
    BY <2>1, <1>18, <1>20, <1>22, <1>23
  <2>2. CASE g # 2
    <3>1. M # 4
      BY <2>2, <1>20, <1>23
    <3> QED BY <3>1, <2>2, <1>3
  <2> QED BY <2>1, <2>2
<1>27. Q = u
  <2>1. Vics(b, D + M, size - M) = u
    BY <1>19, <1>20, <1>22, <1>23
  <2> QED BY <2>1, <1>24
<1>28. P = v.present_3d
  <2>1. P = Has(b[hv], 128)
    BY DEF Has
  <2> QED BY <2>1, <1>12
<1> HIDE DEF P, S, W, Q
<1>29. Fields3d(b, hv, TRUE, old) =
         [present_3d |-> v.present_3d, multi_3d |-> g, image_size |-> v.image_size,
          struct_all_3d |-> v.struct_all_3d, mask_3d |-> v.mask_3d, vic_3d |-> u]
  BY <1>21, <1>22, <1>25, <1>26, <1>27, <1>28
<1> DEFINE R == [present_3d |-> v.present_3d, multi_3d |-> g, image_size |-> v.image_size,
                 struct_all_3d |-> v.struct_all_3d, mask_3d |-> v.mask_3d, vic_3d |-> u]
<1>30. Fields3d(b, hv, TRUE, old) = R
  BY <1>29
<1>31. v = R
  BY <1>2
<1> HIDE DEF R
<1> QED BY <1>30, <1>31

(* Latency reads the latencies that are there.                             *)
LEMMA LatencyShown ==
  ASSUME NEW l, IsLatency(l), NEW b, NEW o \in Nat,
         \A j \in 1 .. LatencyLength(l) : b[o + j - 1] = LatencyBytes(l)[j]
  PROVE  /\ l # << >> => Latency(b, o, TRUE) = l
         /\ l = << >> => Latency(b, o, FALSE) = l
<1>1. CASE l = << >>
  BY <1>1 DEF Latency
<1>2. CASE l # << >>
  <2>1. /\ LatencyBytes(l) \in [1 .. 2 -> Byte] /\ l \in [1 .. 2 -> Nat]
        /\ l[1] = 2 * (LatencyBytes(l)[1] - 1) /\ l[2] = 2 * (LatencyBytes(l)[2] - 1)
    BY <1>2, LatencyBytesAre
  <2>2. LatencyLength(l) = 2
    BY <1>2 DEF LatencyLength
  <2>3. b[o] = LatencyBytes(l)[1] /\ b[o + 1] = LatencyBytes(l)[2]
    <3>1. 1 \in 1 .. 2 /\ 2 \in 1 .. 2 /\ o + 1 - 1 = o /\ o + 2 - 1 = o + 1
      OBVIOUS
    <3> QED BY <3>1, <2>2
  <2>4. b[o] \in Nat /\ b[o + 1] \in Nat
    <3>1. LatencyBytes(l)[1] \in Byte /\ LatencyBytes(l)[2] \in Byte
      BY <2>1
    <3> QED BY <3>1, <2>3, ByteIsNat
  <2>5. (b[o] - 1) * 2 = l[1] /\ (b[o + 1] - 1) * 2 = l[2]
    <3> DEFINE y == b[o]  z == b[o + 1]
    <3>1. l[1] = 2 * (y - 1) /\ l[2] = 2 * (z - 1) /\ y \in Nat /\ z \in Nat
      BY <2>1, <2>3, <2>4
    <3> HIDE DEF y, z
    <3>2. (y - 1) * 2 = 2 * (y - 1) /\ (z - 1) * 2 = 2 * (z - 1)
      BY <3>1
    <3>3. (y - 1) * 2 = l[1] /\ (z - 1) * 2 = l[2]
      BY <3>1, <3>2
    <3> QED BY <3>3 DEF y, z
  <2>6. l = <<l[1], l[2]>>
    BY <2>1
  <2>7. Latency(b, o, TRUE) = <<l[1], l[2]>>
    BY <1>2, <2>5 DEF Latency
  <2> QED BY <2>6, <2>7, <1>2
<1> QED BY <1>1, <1>2

(* The byte that says which fields of the vendor block are there.          *)
LEMMA FieldBits ==
  ASSUME NEW v, v.hdmi_video \in BOOLEAN,
         NEW x, x = Flag(v.p_latency # << >>, 128) + Flag(v.i_latency # << >>, 64) + Flag(v.hdmi_video, 32)
  PROVE  (Has(x, 128) <=> v.p_latency # << >>) /\ (Has(x, 64) <=> v.i_latency # << >>) /\ (Has(x, 32) <=> v.hdmi_video)
<1> DEFINE P == v.p_latency # << >>  Q == v.i_latency # << >>  R == v.hdmi_video
           a == Flag(P, 128)  d == Flag(Q, 64)  g == Flag(R, 32)
<1>1. a \in {0, 128} /\ (a = 128 <=> P) /\ d \in {0, 64} /\ (d = 64 <=> Q) /\ g \in {0, 32} /\ (g = 32 <=> R)
  BY DEF Flag
<1> HIDE DEF a, d, g
<1>2. x = a + d + g
  BY DEF a, d, g
<1>3. /\ (x \div 128) % 2 = 1 <=> a = 128
      /\ (x \div 64) % 2 = 1 <=> d = 64
      /\ (x \div 32) % 2 = 1 <=> g = 32
  <2>1. \A s \in {0, 128}, t \in {0, 64}, u \in {0, 32} :
          LET z == s + t + u IN
          /\ (z \div 128) % 2 = 1 <=> s = 128
          /\ (z \div 64) % 2 = 1 <=> t = 64
          /\ (z \div 32) % 2 = 1 <=> u = 32
    OBVIOUS
  <2> QED BY <2>1, <1>1, <1>2
<1> QED BY <1>1, <1>3 DEF Has

(* The byte of the colour depths.                                          *)
LEMMA DepthBits ==
  ASSUME NEW s, s \subseteq {"bpp36", "bpp30"},
         NEW x, x = Flag("bpp36" \in s, 32) + Flag("bpp30" \in s, 16)
  PROVE  Flags(x, [ai |-> 128, bpp48 |-> 64, bpp36 |-> 32, bpp30 |-> 16, ycbcr444 |-> 8, dvi_dual |-> 1]) = s
<1> DEFINE a == Flag("bpp36" \in s, 32)  d == Flag("bpp30" \in s, 16)
           masks == [ai |-> 128, bpp48 |-> 64, bpp36 |-> 32, bpp30 |-> 16, ycbcr444 |-> 8, dvi_dual |-> 1]
<1>1. a \in {0, 32} /\ (a = 32 <=> "bpp36" \in s) /\ d \in {0, 16} /\ (d = 16 <=> "bpp30" \in s)
  BY DEF Flag
<1> HIDE DEF a, d
<1>2. x = a + d
  BY DEF a, d
<1>3. /\ (x \div 32) % 2 = 1 <=> a = 32
      /\ (x \div 16) % 2 = 1 <=> d = 16
      /\ (x \div 128) % 2 # 1 /\ (x \div 64) % 2 # 1 /\ (x \div 8) % 2 # 1 /\ (x \div 1) % 2 # 1
  <2>1. \A t \in {0, 32}, u \in {0, 16} :
          LET z == t + u IN
          /\ (z \div 32) % 2 = 1 <=> t = 32
          /\ (z \div 16) % 2 = 1 <=> u = 16
          /\ (z \div 128) % 2 # 1 /\ (z \div 64) % 2 # 1 /\ (z \div 8) % 2 # 1 /\ (z \div 1) % 2 # 1
    OBVIOUS
  <2> QED BY <2>1, <1>1, <1>2
<1>4. /\ Has(x, 32) <=> "bpp36" \in s
      /\ Has(x, 16) <=> "bpp30" \in s
      /\ ~Has(x, 128) /\ ~Has(x, 64) /\ ~Has(x, 8) /\ ~Has(x, 1)
  BY <1>1, <1>3 DEF Has
<1>5. /\ DOMAIN masks = {"ai", "bpp48", "bpp36", "bpp30", "ycbcr444", "dvi_dual"}
      /\ masks["ai"] = 128 /\ masks["bpp48"] = 64 /\ masks["bpp36"] = 32 /\ masks["bpp30"] = 16
      /\ masks["ycbcr444"] = 8 /\ masks["dvi_dual"] = 1
  OBVIOUS
<1>6. Flags(x, masks) = {f \in DOMAIN masks : Has(x, masks[f])}
  BY DEF Flags
<1> HIDE DEF masks
<1>7. ASSUME NEW f PROVE f \in Flags(x, masks) <=> f \in s
  <2>1. f \in Flags(x, masks) <=> f \in DOMAIN masks /\ Has(x, masks[f])
    BY <1>6
  <2>2. CASE f \in DOMAIN masks
    <3>1. f \in {"ai", "bpp48", "bpp36", "bpp30", "ycbcr444", "dvi_dual"}
      BY <2>2, <1>5
    <3>2. CASE f = "bpp36"
      BY <3>2, <2>1, <2>2, <1>4, <1>5
    <3>3. CASE f = "bpp30"
      BY <3>3, <2>1, <2>2, <1>4, <1>5
    <3>4. CASE f \in {"ai", "bpp48", "ycbcr444", "dvi_dual"}
      <4>1. ~Has(x, masks[f])
        BY <3>4, <1>4, <1>5
      <4>2. f \notin s
        BY <3>4
      <4> QED BY <4>1, <4>2, <2>1
    <3> QED BY <3>1, <3>2, <3>3, <3>4
  <2>3. CASE f \notin DOMAIN masks
    <3>1. f \notin s
      BY <2>3, <1>5
    <3> QED BY <3>1, <2>1, <2>3
  <2> QED BY <2>2, <2>3
<1>8. Flags(x, masks) = s
  BY <1>7
<1> QED BY <1>8 DEF masks

(* The bytes of the vendor block v after the one at c.                     *)
VendorAt(b, c, v) ==
  LET a == LatencyLength(v.p_latency)  l == LatencyLength(v.i_latency) IN
  /\ BlockLength(b, c) = Len(VendorBytes(v)) /\ BlockLength(b, c) \in 8 .. 31
  /\ BlockLength(b, c) = 8 + a + l + Len(VideoOf(v)) /\ Len(VideoOf(v)) \in Nat
  /\ \A j \in 1 .. 8 : b[c + j] = VendorHead(v)[j]
  /\ \A j \in 1 .. a : b[c + 9 + j - 1] = LatencyBytes(v.p_latency)[j]
  /\ \A j \in 1 .. l : b[c + 9 + a + j - 1] = LatencyBytes(v.i_latency)[j]
  /\ \A j \in 1 .. Len(VideoOf(v)) : b[c + 9 + a + l + j - 1] = VideoOf(v)[j]

(* A vendor block at its place.                                            *)
LEMMA VendorLies ==
  ASSUME NEW k, k.kind = "vendor", IsVendor(k.u), Len(BodyBytes(k)) \in 0 .. 31,
         NEW b, NEW c \in Nat, BlockAt(b, c, k)
  PROVE  VendorAt(b, c, k.u) /\ IsLatency(k.u.p_latency) /\ IsLatency(k.u.i_latency)
<1> DEFINE v == k.u  x == VendorBytes(v)  a == LatencyLength(v.p_latency)  l == LatencyLength(v.i_latency)
           n == Len(VideoOf(v))  N == 8 + a + l + n
<1>1. IsVendorBytes(x, v)
  BY VendorBytesAre
<1>2. IsLatency(v.p_latency) /\ IsLatency(v.i_latency)
  BY DEF IsVendor
<1>3. a \in {0, 2} /\ l \in {0, 2}
  BY DEF LatencyLength
<1>4. /\ n \in Nat /\ x \in [1 .. N -> Nat]
      /\ \A j \in 1 .. 8 : x[j] = VendorHead(v)[j]
      /\ \A j \in 1 .. a : x[8 + j] = LatencyBytes(v.p_latency)[j]
      /\ \A j \in 1 .. l : x[8 + a + j] = LatencyBytes(v.i_latency)[j]
      /\ \A j \in 1 .. n : x[8 + a + l + j] = VideoOf(v)[j]
  BY <1>1 DEF IsVendorBytes
<1>5. BodyBytes(k) = x
  BY DEF BodyBytes
<1> HIDE DEF v, x, a, l, n
<1>6. N \in Nat
  BY <1>3, <1>4
<1>7. Len(x) = N
  <2> HIDE DEF N
  <2> QED BY <1>4, <1>6, LenIs, Zenon
<1>8. N \in 8 .. 31
  BY <1>3, <1>4, <1>5, <1>7
<1>9. BlockLength(b, c) = N /\ \A j \in 1 .. N : b[c + j] = x[j]
  BY <1>5, <1>7 DEF BlockAt
<1>10. \A j \in 1 .. 8 : b[c + j] = VendorHead(v)[j]
  <2> HIDE DEF N
  <2>1. \A j \in 1 .. 8 : j \in 1 .. N
    BY <1>8
  <2> QED BY <2>1, <1>4, <1>9
<1>11. ASSUME NEW s \in Nat, NEW j \in Nat, j # 0, 8 + s + j <= N PROVE b[c + 9 + s + j - 1] = x[8 + s + j]
  <2>1. PICK q \in 1 .. N : q = 8 + s + j
    BY <1>11, <1>8
  <2>2. b[c + q] = x[q] /\ c + q = c + 9 + s + j - 1
    BY <2>1, <1>9
  <2> QED BY <2>1, <2>2
<1>12. ASSUME NEW j \in 1 .. a PROVE b[c + 9 + j - 1] = LatencyBytes(v.p_latency)[j]
  <2>1. 0 \in Nat /\ j \in Nat /\ j # 0 /\ 8 + 0 + j <= N /\ c + 9 + 0 + j - 1 = c + 9 + j - 1 /\ 8 + 0 + j = 8 + j
    BY <1>3, <1>4
  <2>2. b[c + 9 + 0 + j - 1] = x[8 + 0 + j]
    BY <2>1, <1>11
  <2> QED BY <2>1, <2>2, <1>4
<1>13. ASSUME NEW j \in 1 .. l PROVE b[c + 9 + a + j - 1] = LatencyBytes(v.i_latency)[j]
  <2>1. a \in Nat /\ j \in Nat /\ j # 0 /\ 8 + a + j <= N
    BY <1>3, <1>4
  <2>2. b[c + 9 + a + j - 1] = x[8 + a + j]
    BY <2>1, <1>11
  <2> QED BY <2>2, <1>4
<1>14. ASSUME NEW j \in 1 .. n PROVE b[c + 9 + a + l + j - 1] = VideoOf(v)[j]
  <2> DEFINE s == a + l
  <2>1. s \in Nat /\ j \in Nat /\ j # 0 /\ 8 + s + j <= N /\ c + 9 + s + j - 1 = c + 9 + a + l + j - 1
        /\ 8 + s + j = 8 + a + l + j
    <3>1. a \in Nat /\ l \in Nat /\ n \in Nat /\ j \in 1 .. n
      BY <1>3, <1>4
    <3>2. s \in Nat /\ j \in Nat /\ j # 0 /\ j <= n
      BY <3>1
    <3>3. 8 + s + j <= N
      BY <3>1, <3>2
    <3>4. 8 + s + j = 8 + a + l + j
      BY <3>1, <3>2
    <3>5. c + 9 + s + j - 1 = c + 9 + a + l + j - 1
      BY <3>1, <3>2
    <3> QED BY <3>2, <3>3, <3>4, <3>5
  <2> HIDE DEF s, N
  <2>2. b[c + 9 + s + j - 1] = x[8 + s + j]
    BY <2>1, <1>11
  <2> QED BY <2>1, <2>2, <1>4
<1>15. BlockLength(b, c) = Len(x) /\ BlockLength(b, c) \in 8 .. 31
  BY <1>7, <1>8, <1>9
<1> HIDE DEF N
<1>16. VendorAt(b, c, v)
  BY <1>4, <1>9, <1>10, <1>12, <1>13, <1>14, <1>15 DEF VendorAt, x, a, l, n, N
<1> QED BY <1>2, <1>16 DEF v

NoVideo(v) == v.hdmi_video => v.video.vic_3d # << >>

Plain(v, hd, video) ==
  [ieee_reg_id |-> 3075, ext_len |-> Len(VendorBytes(v)), addr |-> v.addr, flags |-> v.flags,
   max_tmds_clk |-> v.max_tmds_clk, p_latency |-> v.p_latency, i_latency |-> v.i_latency,
   hdmi_video |-> hd, video |-> video]
DecodedAs(x, v, video) ==
  /\ x = Plain(v, v.hdmi_video, video)
  /\ v.hdmi_video => video = v.video
  /\ ~v.hdmi_video => video.present_3d = FALSE

(* Vendor reads the vendor block, but for 3D fields it does not have.      *)
LEMMA VendorDecoded ==
  ASSUME NEW v, IsVendor(v), NoVideo(v), NEW b, NEW c \in Nat, VendorAt(b, c, v), NEW old
  PROVE  \E video : DecodedAs(Vendor(b, c, old), v, video)
<1> DEFINE a == LatencyLength(v.p_latency)  l == LatencyLength(v.i_latency)  n == BlockLength(b, c)
           P == v.p_latency # << >>  Q == v.i_latency # << >>
<1>1. /\ n = Len(VendorBytes(v)) /\ n \in 8 .. 31 /\ n = 8 + a + l + Len(VideoOf(v)) /\ Len(VideoOf(v)) \in Nat
      /\ \A j \in 1 .. 8 : b[c + j] = VendorHead(v)[j]
      /\ \A j \in 1 .. a : b[c + 9 + j - 1] = LatencyBytes(v.p_latency)[j]
      /\ \A j \in 1 .. l : b[c + 9 + a + j - 1] = LatencyBytes(v.i_latency)[j]
      /\ \A j \in 1 .. Len(VideoOf(v)) : b[c + 9 + a + l + j - 1] = VideoOf(v)[j]
  BY DEF VendorAt
<1>2. /\ v.addr \in [1 .. 4 -> Nibble] /\ v.flags \subseteq {"bpp36", "bpp30"}
      /\ v.max_tmds_clk \in {5 * y : y \in Byte} /\ IsLatency(v.p_latency) /\ IsLatency(v.i_latency)
      /\ v.hdmi_video \in BOOLEAN /\ (v.hdmi_video => IsVideoFields(v.video))
  BY DEF IsVendor
<1>3. a = (IF P THEN 2 ELSE 0) /\ l = (IF Q THEN 2 ELSE 0)
  BY DEF LatencyLength
<1>4. /\ b[c + 1] = 3 /\ b[c + 2] = 12 /\ b[c + 3] = 0
      /\ b[c + 4] = Nibbles(v.addr[1], v.addr[2]) /\ b[c + 5] = Nibbles(v.addr[3], v.addr[4])
      /\ b[c + 6] = Flag("bpp36" \in v.flags, 32) + Flag("bpp30" \in v.flags, 16)
      /\ b[c + 7] = v.max_tmds_clk \div 5
      /\ b[c + 8] = Flag(v.p_latency # << >>, 128) + Flag(v.i_latency # << >>, 64) + Flag(v.hdmi_video, 32)
  <2>1. \A j \in 1 .. 8 : b[c + j] = VendorHead(v)[j]
    BY <1>1
  <2>2. /\ b[c + 1] = VendorHead(v)[1] /\ b[c + 2] = VendorHead(v)[2] /\ b[c + 3] = VendorHead(v)[3]
        /\ b[c + 4] = VendorHead(v)[4] /\ b[c + 5] = VendorHead(v)[5] /\ b[c + 6] = VendorHead(v)[6]
        /\ b[c + 7] = VendorHead(v)[7] /\ b[c + 8] = VendorHead(v)[8]
    BY <2>1
  <2> QED BY <2>2 DEF VendorHead
<1> DEFINE fields == IF n >= 8 THEN b[c + 8] ELSE 0
           pr == Has(fields, 128)  il == Has(fields, 64)  hd == Has(fields, 32)
           second == c + 9 + IF pr THEN 2 ELSE 0
           hv == second + IF il THEN 2 ELSE 0
           addr == <<Bits(b[c + 4], 4, 4), Bits(b[c + 4], 0, 4), Bits(b[c + 5], 4, 4), Bits(b[c + 5], 0, 4)>>
           flags == IF n < 6 THEN {} ELSE
                      Flags(b[c + 6], [ai |-> 128, bpp48 |-> 64, bpp36 |-> 32, bpp30 |-> 16,
                                       ycbcr444 |-> 8, dvi_dual |-> 1])
           clock == IF n >= 7 THEN 5 * b[c + 7] ELSE 0
           pl == Latency(b, c + 9, pr)  sl == Latency(b, second, il)
           video == Fields3d(b, hv, hd, old.video.vic_3d)
<1>5. Vendor(b, c, old) =
        IF <<b[c + 1], b[c + 2], b[c + 3]>> # <<3, 12, 0>> THEN [old EXCEPT !.ieee_reg_id = 0]
        ELSE [ieee_reg_id |-> 3075, ext_len |-> n, addr |-> addr, flags |-> flags, max_tmds_clk |-> clock,
              p_latency |-> pl, i_latency |-> sl, hdmi_video |-> hd, video |-> video]
  BY DEF Vendor
<1>20. n \in Nat /\ n >= 8 /\ ~(n < 6) /\ n >= 7
  <2>1. n \in 8 .. 31
    BY <1>1
  <2> HIDE DEF n
  <2> QED BY <2>1
<1>6. fields = b[c + 8]
  BY <1>20
<1>7. /\ pr \in BOOLEAN /\ il \in BOOLEAN /\ hd \in BOOLEAN
      /\ (pr <=> P) /\ (il <=> Q) /\ (hd <=> v.hdmi_video)
  <2> DEFINE y == b[c + 8]
  <2>1. y = Flag(v.p_latency # << >>, 128) + Flag(v.i_latency # << >>, 64) + Flag(v.hdmi_video, 32)
    BY <1>4
  <2>2. v.hdmi_video \in BOOLEAN
    BY <1>2
  <2> HIDE DEF y
  <2>3. (Has(y, 128) <=> P) /\ (Has(y, 64) <=> Q) /\ (Has(y, 32) <=> v.hdmi_video)
    BY <2>1, <2>2, FieldBits
  <2>4. Has(y, 128) \in BOOLEAN /\ Has(y, 64) \in BOOLEAN /\ Has(y, 32) \in BOOLEAN
    BY DEF Has
  <2> QED BY <2>3, <2>4, <1>6 DEF y
<1>8. addr = v.addr
  <2>1. \A y, z \in Nibble : Bits(Nibbles(y, z), 4, 4) = y /\ Bits(Nibbles(y, z), 0, 4) = z
    <3> SUFFICES ASSUME NEW y \in Nibble, NEW z \in Nibble
                 PROVE  Bits(Nibbles(y, z), 4, 4) = y /\ Bits(Nibbles(y, z), 0, 4) = z
      OBVIOUS
    <3> DEFINE w == 16 * y + z
    <3>1. w \in Nat /\ (w \div 16) % 16 = y /\ w % 16 = z
      BY DEF Nibble
    <3>2. Nibbles(y, z) = w
      BY DEF Nibbles
    <3> HIDE DEF w
    <3> QED BY <3>1, <3>2, BitsAre
  <2>2. /\ Bits(b[c + 4], 4, 4) = v.addr[1] /\ Bits(b[c + 4], 0, 4) = v.addr[2]
        /\ Bits(b[c + 5], 4, 4) = v.addr[3] /\ Bits(b[c + 5], 0, 4) = v.addr[4]
    BY <2>1, <1>2, <1>4
  <2>3. v.addr = <<v.addr[1], v.addr[2], v.addr[3], v.addr[4]>>
    BY <1>2
  <2>4. addr = <<v.addr[1], v.addr[2], v.addr[3], v.addr[4]>>
    BY <2>2
  <2> QED BY <2>3, <2>4
<1>9. flags = v.flags
  <2> QED BY <1>20, <1>2, <1>4, DepthBits
<1>10. clock = v.max_tmds_clk
  <2>1. PICK y \in Byte : v.max_tmds_clk = 5 * y
    BY <1>2
  <2>2. y \in Nat
    BY ByteIsNat
  <2>3. 5 * ((5 * y) \div 5) = 5 * y
    BY <2>2
  <2>4. clock = 5 * (v.max_tmds_clk \div 5)
    BY <1>4, <1>20
  <2> QED BY <2>1, <2>3, <2>4
<1> HIDE DEF n, fields, pr, il, hd, addr, flags, clock
<1>11. second = c + 9 + a /\ hv = c + 9 + a + l /\ a \in {0, 2} /\ l \in {0, 2}
  BY <1>3, <1>7
<1> HIDE DEF a, l, second, hv
<1>21. IsLatency(v.p_latency) /\ IsLatency(v.i_latency)
  BY <1>2
<1>12. pl = v.p_latency
  <2> DEFINE o == c + 9
  <2>1. o \in Nat
    OBVIOUS
  <2>2. \A j \in 1 .. LatencyLength(v.p_latency) : b[o + j - 1] = LatencyBytes(v.p_latency)[j]
    BY <1>1 DEF a
  <2> HIDE DEF o
  <2> DEFINE lat == v.p_latency
  <2>6. /\ \A j \in 1 .. LatencyLength(lat) : b[o + j - 1] = LatencyBytes(lat)[j]
        /\ IsLatency(lat)
    BY <2>2, <1>21
  <2> HIDE DEF lat
  <2>7. /\ lat # << >> => Latency(b, o, TRUE) = lat
        /\ lat = << >> => Latency(b, o, FALSE) = lat
    BY <2>1, <2>6, LatencyShown
  <2>4. /\ P => Latency(b, o, TRUE) = v.p_latency
        /\ ~P => Latency(b, o, FALSE) = v.p_latency
    BY <2>7, Zenon DEF lat
  <2>5. (P => pr = TRUE) /\ (~P => pr = FALSE)
    BY <1>7
  <2>3. Latency(b, o, pr) = v.p_latency
    BY <2>4, <2>5
  <2> QED BY <2>3 DEF o
<1>13. sl = v.i_latency
  <2>1. second \in Nat
    BY <1>11
  <2>2. \A j \in 1 .. LatencyLength(v.i_latency) : b[second + j - 1] = LatencyBytes(v.i_latency)[j]
    BY <1>1, <1>11 DEF l
  <2> DEFINE lat == v.i_latency
  <2>6. /\ \A j \in 1 .. LatencyLength(lat) : b[second + j - 1] = LatencyBytes(lat)[j]
        /\ IsLatency(lat)
    BY <2>2, <1>21
  <2> HIDE DEF lat
  <2>7. /\ lat # << >> => Latency(b, second, TRUE) = lat
        /\ lat = << >> => Latency(b, second, FALSE) = lat
    BY <2>1, <2>6, LatencyShown
  <2>4. /\ Q => Latency(b, second, TRUE) = v.i_latency
        /\ ~Q => Latency(b, second, FALSE) = v.i_latency
    BY <2>7, Zenon DEF lat
  <2>5. (Q => il = TRUE) /\ (~Q => il = FALSE)
    BY <1>7
  <2> QED BY <2>4, <2>5
<1>14. v.hdmi_video => video = v.video
  <2> SUFFICES ASSUME v.hdmi_video PROVE video = v.video
    OBVIOUS
  <2> DEFINE w == v.video  N == Len(VideoOf(v))  M == Len(FormatBytes(w))
  <2>1. IsVideoFields(w) /\ w.vic_3d # << >>
    BY <1>2 DEF NoVideo
  <2>2. VideoOf(v) = VideoFieldBytes(w)
    BY DEF VideoOf
  <2> HIDE DEF w
  <2>3. PICK f : IsVideoBytes(VideoFieldBytes(w), w, f)
    BY <2>1, VideoFieldBytesAre
  <2>4. M \in Nat /\ VideoFieldBytes(w) \in [1 .. 2 + M -> Nat]
    BY <2>3 DEF IsVideoBytes
  <2>5. N = 2 + M
    <3> DEFINE y == 2 + M
    <3>1. y \in Nat /\ VideoFieldBytes(w) \in [1 .. y -> Nat]
      BY <2>4
    <3> HIDE DEF y, M
    <3>2. Len(VideoFieldBytes(w)) = y
      BY <3>1, LenIs, Zenon
    <3> QED BY <3>2, <2>2 DEF y
  <2>6. M <= 31
    <3> HIDE DEF M, N
    <3>1. N \in Nat /\ n = 8 + a + l + N /\ n \in 8 .. 31
      BY <1>1 DEF N
    <3>2. \A A \in {0, 2}, B \in {0, 2}, X \in Nat : 8 + A + B + (2 + X) <= 31 => X <= 31
      OBVIOUS
    <3>3. a \in {0, 2} /\ l \in {0, 2} /\ M \in Nat /\ n = 8 + a + l + (2 + M) /\ n <= 31
      BY <3>1, <2>4, <2>5, <1>11
    <3> QED BY <3>2, <3>3
  <2>7. \A j \in 1 .. 2 + M : b[hv + j - 1] = VideoFieldBytes(w)[j]
    BY <2>2, <2>5, <1>1, <1>11
  <2>8. VideoAt(b, hv, w)
    BY <2>7 DEF VideoAt
  <2>9. hv \in Nat
    BY <1>11
  <2>10. hd = TRUE
    BY <1>7
  <2>11. Fields3d(b, hv, TRUE, old.video.vic_3d) = w
    BY <2>1, <2>6, <2>8, <2>9, Fields3dDecoded
  <2> QED BY <2>10, <2>11 DEF w
<1>15. ~v.hdmi_video => video.present_3d = FALSE
  <2>1. ASSUME ~v.hdmi_video PROVE video.present_3d = FALSE
    <3>1. hd = FALSE
      BY <1>7, <2>1
    <3> QED BY <3>1 DEF Fields3d
  <2> QED BY <2>1
<1>16. hd = v.hdmi_video
  BY <1>2, <1>7
<1> HIDE DEF pl, sl, video
<1>17. Vendor(b, c, old) =
         [ieee_reg_id |-> 3075, ext_len |-> n, addr |-> addr, flags |-> flags, max_tmds_clk |-> clock,
          p_latency |-> pl, i_latency |-> sl, hdmi_video |-> hd, video |-> video]
  BY <1>4, <1>5
<1>18. Vendor(b, c, old) = Plain(v, v.hdmi_video, video)
  BY <1>1, <1>8, <1>9, <1>10, <1>12, <1>13, <1>16, <1>17 DEF Plain
<1>22. DecodedAs(Vendor(b, c, old), v, video)
  BY <1>14, <1>15, <1>18, Zenon DEF DecodedAs
<1> QED BY <1>22

(* What is printed of a vendor block is what the monitor means by it.      *)
LEMMA VendorShown ==
  ASSUME NEW k, k.kind = "vendor", IsVendor(k.u), Len(BodyBytes(k)) \in 0 .. 31, NoVideo(k.u), ~IsFull(k),
         NEW b, NEW c \in Nat, BlockAt(b, c, k), NEW old, NEW behind
  PROVE  ShownVendor(Vendor(b, c, old), behind) = PrintedVendor(k.u)
<1> DEFINE v == k.u  x == Vendor(b, c, old)
<1>1. VendorAt(b, c, v)
  BY VendorLies
<1>2. IsVendor(v) /\ NoVideo(v)
  OBVIOUS
<1>3. v.hdmi_video \in BOOLEAN
  BY DEF IsVendor
<1> HIDE DEF v
<1>10. PICK video : DecodedAs(x, v, video)
  BY <1>1, <1>2, VendorDecoded
<1> HIDE DEF x
<1>4. /\ x = Plain(v, v.hdmi_video, video)
      /\ v.hdmi_video => video = v.video
      /\ ~v.hdmi_video => video.present_3d = FALSE
  BY <1>10, Zenon DEF DecodedAs
<1>12. v.hdmi_video => Shown3d(video, behind) = video
  <2>1. v.hdmi_video => Len(v.video.vic_3d) \in Nat /\ ~(Len(v.video.vic_3d) > 16)
    BY DEF v, IsFull, IsVendor, IsVideoFields
  <2> DEFINE len == Len(v.video.vic_3d)
  <2>2. v.hdmi_video => len <= ROOM
    <3> HIDE DEF len
    <3>1. v.hdmi_video => len \in Nat /\ ~(len > 16)
      BY <2>1 DEF len
    <3> QED BY <3>1 DEF ROOM
  <2> QED BY <2>2, <1>4, Zenon DEF Shown3d
<1> DEFINE d == IF v.hdmi_video THEN v.video ELSE [present_3d |-> FALSE]
<1>11. ASSUME NEW hd, NEW w, NEW y
       PROVE  /\ [Plain(v, hd, w) EXCEPT !.video = y] = Plain(v, hd, y)
              /\ Plain(v, hd, w).video = w /\ Plain(v, hd, w).hdmi_video = hd /\ Plain(v, hd, w).ieee_reg_id # 0
  BY DEF Plain
<1>5. ASSUME NEW hd \in BOOLEAN, hd => Shown3d(video, behind) = video
      PROVE  ShownVendor(Plain(v, hd, video), behind) = Plain(v, hd, IF hd THEN video ELSE [present_3d |-> video.present_3d])
  <2> DEFINE w == Plain(v, hd, video)
  <2>1. w.video = video /\ w.hdmi_video = hd /\ w.ieee_reg_id # 0
    BY <1>11
  <2>2. \A y : [w EXCEPT !.video = y] = Plain(v, hd, y)
    BY <1>11
  <2> HIDE DEF w
  <2> DEFINE y == IF w.hdmi_video THEN Shown3d(w.video, behind) ELSE [present_3d |-> w.video.present_3d]
  <2>3. ShownVendor(w, behind) = [w EXCEPT !.video = y]
    BY <2>1, Zenon DEF ShownVendor
  <2>4. y = IF hd THEN video ELSE [present_3d |-> video.present_3d]
    BY <2>1, <1>5, Zenon
  <2> HIDE DEF y
  <2>5. ShownVendor(w, behind) = Plain(v, hd, y)
    BY <2>2, <2>3, Zenon
  <2> QED BY <2>4, <2>5, Zenon DEF w
<1>6. ShownVendor(x, behind) = Plain(v, v.hdmi_video, IF v.hdmi_video THEN video ELSE [present_3d |-> video.present_3d])
  BY <1>3, <1>4, <1>5, <1>12, Zenon
<1>7. (IF v.hdmi_video THEN video ELSE [present_3d |-> video.present_3d]) = d
  <2>1. CASE v.hdmi_video
    BY <2>1, <1>4, Zenon
  <2>2. CASE ~v.hdmi_video
    <3>1. video.present_3d = FALSE
      BY <2>2, <1>4, Zenon
    <3> QED BY <2>2, <3>1, Zenon
  <2> QED BY <2>1, <2>2, Zenon
<1>8. PrintedVendor(v) = Plain(v, v.hdmi_video, d)
  BY Zenon DEF PrintedVendor, Plain
<1>9. ShownVendor(x, behind) = PrintedVendor(v)
  BY <1>6, <1>7, <1>8, Zenon
<1> QED BY <1>9 DEF v, x

(* The kinds of data blocks and their tags.                                *)
LEMMA BlockKinds ==
  ASSUME NEW k, IsBlock(k), k.kind # "bytes"
  PROVE  \/ k.tag = 1 /\ k.kind = "audio" /\ k.u \in Seq(AudioFormats) /\ \A j \in DOMAIN k.u : IsSad(k.u[j])
         \/ k.tag = 2 /\ k.kind = "video" /\ k.u \in Seq([native : BOOLEAN, vic : 0 .. 127])
         \/ k.tag = 3 /\ k.kind = "vendor" /\ IsVendor(k.u)
         \/ k.tag = 4 /\ k.kind = "speaker" /\ k.u \in 0 .. 127
BY Zenon DEF IsBlock

(* A block whose 3D formats are written has some if it has video fields.   *)
LEMMA SettledVendor ==
  ASSUME NEW k, k.tag = 3, k.kind = "vendor", IsVendor(k.u), Settled(PrintedBlock(k))
  PROVE  NoVideo(k.u)
<1> DEFINE v == k.u  x == PrintedVendor(v)  y == PrintedBlock(k)
<1>1. y = <<3, x>>
  BY DEF PrintedBlock
<1>2. y[1] = 3 /\ y[2] = x
  <2> HIDE DEF x
  <2> QED BY <1>1
<1> HIDE DEF y, v
<1>3. Settled(y)
  BY DEF y
<1>4. Tags.vendor = 3
  BY DEF Tags
<1>5. x.ieee_reg_id # 0 /\ x.hdmi_video => x.video.vic_3d # << >>
  <2> HIDE DEF x
  <2> QED BY <1>2, <1>3, <1>4, Zenon DEF Settled
<1> DEFINE w == IF v.hdmi_video THEN v.video ELSE [present_3d |-> FALSE]
<1>6. x = Plain(v, v.hdmi_video, w)
  BY Zenon DEF PrintedVendor, Plain
<1>7. ASSUME NEW hd, NEW z
      PROVE  /\ Plain(v, hd, z).video = z /\ Plain(v, hd, z).hdmi_video = hd /\ Plain(v, hd, z).ieee_reg_id # 0
  BY DEF Plain
<1>8. x.video = w /\ x.hdmi_video = v.hdmi_video /\ x.ieee_reg_id # 0
  <2> DEFINE h == v.hdmi_video
  <2>1. x = Plain(v, h, w)
    BY <1>6, Zenon
  <2> HIDE DEF x, w, h
  <2>2. x.video = w /\ x.hdmi_video = h /\ x.ieee_reg_id # 0
    BY <2>1, <1>7
  <2> QED BY <2>2 DEF h
<1>9. v.hdmi_video => v.video.vic_3d # << >>
  <2> HIDE DEF x
  <2> QED BY <1>5, <1>8, Zenon
<1> QED BY <1>9 DEF NoVideo, v

(* What is printed of a data block is what the monitor means by it.        *)
LEMMA BlockShown ==
  ASSUME NEW m, IsMonitor(m), NEW e, NEW f, Extended128(e, m, f), NEW x, FinalCea(x, e, m, f),
         NEW k \in 1 .. Len(m.blocks), m.blocks[k].kind # "bytes", Settled(PrintedBlock(m.blocks[k])), ~IsFull(m.blocks[k])
  PROVE  ShownBlock(x, k) = PrintedBlock(m.blocks[k])
<1> DEFINE b == m.blocks[k]  c == Place(f, k - 1)  tag == x.dbc_tags[k]
<1>1. Lies(e, m, f, k)
  BY BlockLies
<1>2. BlockAt(e, c, b) /\ c \in 132 .. 255 /\ IsBlock(b) /\ Len(BodyBytes(b)) \in 0 .. 31
  BY <1>1 DEF Lies
<1>3. Holding(x, e, c, b.tag) /\ tag = b.tag
  BY DEF FinalCea, TagsAre
<1>4. b.kind # "bytes" /\ Settled(PrintedBlock(b)) /\ ~IsFull(b)
  OBVIOUS
<1>5. Tags.audio = 1 /\ Tags.video = 2 /\ Tags.vendor = 3 /\ Tags.speaker = 4 /\ Tags.extended = 7
  BY DEF Tags
<1> HIDE DEF b, c, tag
<1>6. c \in Nat
  BY <1>2
<1> DEFINE A == <<tag, [j \in 1 .. x.db_audio.nr_sad |-> ShownSad(x.db_audio.sad[j])]>>
           V == <<tag, x.db_video>>  W == <<tag, ShownVendor(x.db_vsdb_hdmi, Behind(x))>>  S == <<tag, x.db_speaker>>
           E == <<tag, 0, x.db_vcdb>>  F == <<tag, x.dbe_tags[k]>>  O == <<tag>>
<1>7. ShownBlock(x, k) =
        CASE tag = 1 -> A [] tag = 2 -> V [] tag = 3 -> W [] tag = 4 -> S
          [] tag = 7 /\ x.dbe_tags[k] = 0 -> E [] tag = 7 /\ x.dbe_tags[k] # 0 -> F [] OTHER -> O
  BY <1>5 DEF ShownBlock, tag
<1>8. /\ tag = 1 => ShownBlock(x, k) = A
      /\ tag = 2 => ShownBlock(x, k) = V
      /\ tag = 3 => ShownBlock(x, k) = W
      /\ tag = 4 => ShownBlock(x, k) = S
  <2> HIDE DEF A, V, W, S, E, F, O
  <2> QED BY <1>7
<1>9. PrintedBlock(b) = <<tag, IF b.kind = "vendor" THEN PrintedVendor(b.u) ELSE b.u>>
  BY <1>3 DEF PrintedBlock
<1>10. CASE b.tag = 1 /\ b.kind = "audio" /\ b.u \in Seq(AudioFormats) /\ \A j \in DOMAIN b.u : IsSad(b.u[j])
  <2>1. PICK y : x.db_audio = Audio(e, c, y)
    BY <1>3, <1>10 DEF Holding
  <2> DEFINE d == Audio(e, c, y)
  <2>2. [j \in 1 .. d.nr_sad |-> ShownSad(d.sad[j])] = b.u
    BY <1>2, <1>6, <1>10, AudioShown
  <2>3. A = <<tag, b.u>>
    BY <2>1, <2>2
  <2>4. PrintedBlock(b) = <<tag, b.u>>
    BY <1>9, <1>10
  <2> HIDE DEF A
  <2>5. tag = 1
    BY <1>3, <1>10
  <2>6. ShownBlock(x, k) = A
    BY <2>5, <1>8
  <2> QED BY <2>3, <2>4, <2>6, Zenon DEF b
<1>11. CASE b.tag = 2 /\ b.kind = "video" /\ b.u \in Seq([native : BOOLEAN, vic : 0 .. 127])
  <2>1. x.db_video = Video(e, c)
    BY <1>3, <1>11 DEF Holding
  <2>2. Video(e, c) = b.u
    BY <1>2, <1>6, <1>11, VideoShown
  <2>3. V = <<tag, b.u>>
    BY <2>1, <2>2
  <2>4. PrintedBlock(b) = <<tag, b.u>>
    BY <1>9, <1>11
  <2> HIDE DEF V
  <2>5. tag = 2
    BY <1>3, <1>11
  <2>6. ShownBlock(x, k) = V
    BY <2>5, <1>8
  <2> QED BY <2>3, <2>4, <2>6, Zenon DEF b
<1>12. CASE b.tag = 3 /\ b.kind = "vendor" /\ IsVendor(b.u)
  <2>1. PICK y : x.db_vsdb_hdmi = Vendor(e, c, y)
    BY <1>3, <1>12 DEF Holding
  <2>2. NoVideo(b.u)
    BY <1>4, <1>12, SettledVendor
  <2>3. ShownVendor(Vendor(e, c, y), Behind(x)) = PrintedVendor(b.u)
    BY <2>2, <1>2, <1>4, <1>6, <1>12, VendorShown
  <2>4. W = <<tag, PrintedVendor(b.u)>>
    BY <2>1, <2>3
  <2>5. PrintedBlock(b) = <<tag, PrintedVendor(b.u)>>
    BY <1>9, <1>12
  <2> HIDE DEF W
  <2>6. tag = 3
    BY <1>3, <1>12
  <2>7. ShownBlock(x, k) = W
    BY <2>6, <1>8
  <2> QED BY <2>4, <2>5, <2>7, Zenon DEF b
<1>13. CASE b.tag = 4 /\ b.kind = "speaker" /\ b.u \in 0 .. 127
  <2>1. x.db_speaker = Bits(e[c + 1], 0, 7)
    BY <1>3, <1>13 DEF Holding
  <2>2. Bits(e[c + 1], 0, 7) = b.u
    BY <1>2, <1>6, <1>13, SpeakerShown
  <2>3. S = <<tag, b.u>>
    BY <2>1, <2>2
  <2>4. PrintedBlock(b) = <<tag, b.u>>
    BY <1>9, <1>13
  <2> HIDE DEF S
  <2>5. tag = 4
    BY <1>3, <1>13
  <2>6. ShownBlock(x, k) = S
    BY <2>5, <1>8
  <2> QED BY <2>3, <2>4, <2>6, Zenon DEF b
<1>14. ShownBlock(x, k) = PrintedBlock(b)
  <2>1. IsBlock(b) /\ b.kind # "bytes"
    BY <1>2, <1>4
  <2>2. \/ b.tag = 1 /\ b.kind = "audio" /\ b.u \in Seq(AudioFormats) /\ \A j \in DOMAIN b.u : IsSad(b.u[j])
        \/ b.tag = 2 /\ b.kind = "video" /\ b.u \in Seq([native : BOOLEAN, vic : 0 .. 127])
        \/ b.tag = 3 /\ b.kind = "vendor" /\ IsVendor(b.u)
        \/ b.tag = 4 /\ b.kind = "speaker" /\ b.u \in 0 .. 127
    BY <2>1, BlockKinds
  <2> QED BY <2>2, <1>10, <1>11, <1>12, <1>13, Zenon DEF b
<1> QED BY <1>14 DEF b

(* Each detailed timing of the extension is at its place.                  *)
LEMMA TimingLies ==
  ASSUME NEW m, IsMonitor(m), NEW e, NEW f, Extended128(e, m, f), NEW j \in 1 .. Len(m.timings)
  PROVE  Holds(e, Dtd(e) + 18 * (j - 1), TimingBytes(m.timings[j]))
<1> DEFINE n == Len(m.blocks)  l == Len(f[n])  t == Len(m.timings)  o == Dtd(e) + 18 * (j - 1)
           x == TimingBytes(m.timings[j])
<1>1. /\ l \in Nat /\ t \in 0 .. 6 /\ \A k \in 1 .. t * 18 : e[131 + l + k] = TimingRow(m, k)
  BY DEF Extended128
<1>2. Dtd(e) = Place(f, n)
  BY PlacesAre
<1>3. Dtd(e) = 132 + l
  BY <1>2 DEF Place
<1>4. j \in 1 .. t
  OBVIOUS
<1> HIDE DEF n, l, t
<1>5. ASSUME NEW q \in 0 .. 17 PROVE e[o + q] = x[q + 1]
  <2> DEFINE s == 18 * (j - 1) + q + 1
  <2>1. /\ s \in 1 .. t * 18 /\ (s - 1) \div 18 + 1 = j /\ ((s - 1) % 18) + 1 = q + 1 /\ 131 + l + s = o + q
    BY <1>1, <1>3, <1>4
  <2> HIDE DEF s, o
  <2>2. e[131 + l + s] = TimingRow(m, s)
    BY <2>1, <1>1
  <2> QED BY <2>1, <2>2 DEF TimingRow
<1> QED BY <1>5 DEF Holds

(* What is printed of it is what the monitor means by it, but for the      *)
(* polarity that is not decoded there.                                     *)
LEMMA ExtendedTiming ==
  ASSUME NEW m, IsMonitor(m), NEW e, NEW f, Extended128(e, m, f), NEW x, FinalCea(x, e, m, f),
         NEW j \in 1 .. m.native
  PROVE  ShownTiming(x.detailed_timing[j]) = Meant(m.timings[j])
<1> DEFINE t == m.timings[j]  o == Dtd(e) + 18 * (j - 1)
<1>0. j \in 1 .. Len(m.timings)
  BY DEF IsMonitor
<1>1. Holds(e, o, TimingBytes(t))
  BY <1>0, TimingLies
<1>2. Dtd(e) \in 133 .. 255
  BY PlacesAre
<1>3. j \in Nat /\ j >= 1
  <2>1. Len(m.timings) \in Nat
    BY DEF IsMonitor
  <2> QED BY <2>1, <1>0
<1>4. o \in Nat
  <2>1. \A d \in 133 .. 255, k \in Nat : k >= 1 => d + 18 * (k - 1) \in Nat
    OBVIOUS
  <2> QED BY <2>1, <1>2, <1>3
<1>5. IsTiming(t)
  BY <1>0, SMTT(30) DEF IsMonitor
<1>6. x.detailed_timing[j] = DetailedTiming(e, o, FALSE)
  BY DEF FinalCea
<1> HIDE DEF t, o
<1>7. Window(e, o, TimingBytes(t))
  BY <1>1, <1>4, WindowIs
<1>8. DetailedTiming(e, o, FALSE) = [t EXCEPT !.sync = Separate(t, FALSE)]
  BY <1>4, <1>5, <1>7, TimingDecoded
<1>9. ShownTiming(x.detailed_timing[j]) = Meant(t)
  BY <1>5, <1>6, <1>8, TimingShown
<1> QED BY <1>9 DEF t

(* What is printed of the extension is what the monitor means by it.       *)
LEMMA CeaShown ==
  ASSUME NEW m, IsMonitor(m), NEW e, NEW f, Extended128(e, m, f), NEW x, FinalCea(x, e, m, f)
  PROVE  CeaShows(edid_print_cea(x), m)
<1> DEFINE n == Len(m.blocks)  t == m.native  c == edid_print_cea(x)
<1>1. n \in Nat /\ DOMAIN m.blocks = 1 .. n
  BY DEF IsMonitor
<1>2. DOMAIN x.dbc_tags = 1 .. n /\ x.nr_dtd = t
  BY DEF FinalCea
<1>3. /\ c.blocks = [k \in DOMAIN x.dbc_tags |-> ShownBlock(x, k)]
      /\ c.timings = [k \in 1 .. x.nr_dtd |-> ShownTiming(x.detailed_timing[k])]
  BY DEF edid_print_cea
<1>4. ASSUME NEW k \in 1 .. n, m.blocks[k].kind # "bytes", Settled(PrintedBlock(m.blocks[k])), ~IsFull(m.blocks[k])
      PROVE  ShownBlock(x, k) = PrintedBlock(m.blocks[k])
  BY <1>4, BlockShown
<1>5. ASSUME NEW k \in 1 .. t PROVE ShownTiming(x.detailed_timing[k]) = Meant(m.timings[k])
  BY ExtendedTiming
<1> HIDE DEF n, t, c
<1>6. c.blocks = [k \in 1 .. n |-> ShownBlock(x, k)]
  BY <1>2, <1>3
<1>7. Len(c.blocks) = n
  BY <1>1, <1>6, LenIs
<1>8. c.timings = [k \in 1 .. t |-> Meant(m.timings[k])]
  BY <1>2, <1>3, <1>5
<1>9. ASSUME NEW k \in DOMAIN m.blocks, m.blocks[k].kind # "bytes", Settled(PrintedBlock(m.blocks[k])), ~IsFull(m.blocks[k])
      PROVE  c.blocks[k] = PrintedBlock(m.blocks[k])
  <2>1. k \in 1 .. n
    BY <1>1
  <2>2. c.blocks[k] = ShownBlock(x, k)
    BY <1>6, <2>1
  <2> QED BY <2>1, <2>2, <1>4, <1>9
<1>10. c.timings = [k \in 1 .. m.native |-> Meant(m.timings[k])]
  BY <1>8 DEF t
<1> QED BY <1>7, <1>9, <1>10 DEF CeaShows, n, c

(* With the bytes of the monitor and the struct of an earlier one.         *)
LEMMA ExtensionShown ==
  ASSUME NEW m, IsMonitor(m), NEW e, IsEdid(e, m), Checked(e), NEW old, Shaped(old), HasExtension(m)
  PROVE  CeaShows(Printout(e, old).cea, m)
<1>1. PICK f : Extended128(e, m, f)
  BY ExtendedIs
<1>2. e[126] = 1 /\ e[128] = 2 /\ e[129] = 3
  <2>1. e[126] = 1
    BY BaseBytes
  <2> QED BY <2>1, <1>1 DEF Extended128
<1>3. Extends(e)
  BY <1>2 DEF Extends
<1>4. Printout(e, old).cea = edid_print_cea(edid_decode_cea(e, 128, old.cea_ext))
  <2> DEFINE info == edid_decode_v14(e, old).info
  <2>1. Extends(e) => info.ext_tag = 2 /\ info.cea_ext = edid_decode_cea(e, 128, old.cea_ext)
    BY DecodedHas
  <2>2. Printout(e, old) = edid_print_v14(info)
    BY DEF Printout
  <2> HIDE DEF info
  <2>3. Printout(e, old).cea = (IF info.ext_tag = 2 THEN edid_print_cea(info.cea_ext) ELSE << >>)
    BY <2>2 DEF edid_print_v14
  <2> QED BY <2>1, <2>3, <1>3
<1>5. ShapedCea(old.cea_ext)
  BY DEF Shaped
<1>6. FinalCea(edid_decode_cea(e, 128, old.cea_ext), e, m, f)
  BY <1>1, <1>5, CeaDecoded
<1>7. CeaShows(edid_print_cea(edid_decode_cea(e, 128, old.cea_ext)), m)
  BY <1>1, <1>6, CeaShown
<1> QED BY <1>4, <1>7

(* With the base block.                                                    *)
LEMMA ReadsMonitor ==
  ASSUME Read, NEW n \in 1 .. Len(Monitors), Reads(n)
  PROVE  IsEdid(edid, Monitors[n])
<1>1. IsEdid(EdidOf[n], Monitors[n])
  <2>1. IsMonitor(Monitors[n])
    BY EdidAssumption
  <2>2. n # 0 /\ n \in 0 .. Len(Monitors)
    BY EdidAssumption
  <2>3. EdidOf[n] = Encode(Monitors[n])
    BY <2>2 DEF EdidOf
  <2> QED BY <2>1, <2>3, EncodeIs
<1> DEFINE e == EdidOf[n]
<1>2. e \in [0 .. 255 -> Byte]
  BY <1>1 DEF IsEdid
<1>3. edid = [k \in 0 .. 255 |-> e[k]]
  BY Zenon DEF Read, Reads
<1> HIDE DEF e
<1>4. edid = e
  BY <1>2, <1>3
<1> QED BY <1>1, <1>4 DEF e

(* Buffers read whole of one monitor are printed as that monitor.          *)
LEMMA MonitorDecoded == ASSUME Read, Verified, Decoded PROVE DecodesTheMonitor
<1> SUFFICES ASSUME Shown, NEW n \in DOMAIN Monitors, Reads(n)
             PROVE  LET m == Monitors[n] IN
    /\ printed.date = <<m.week, m.year, 0>> /\ printed.gamma = m.gamma
    /\ printed.input = [digital_if |-> TRUE, depth |-> m.depth, interface |-> 5]
    /\ printed.screen = [defined |-> "size", horizontal |-> m.size[1], vertical |-> m.size[2]]
    /\ printed.timing_1_2 = m.established /\ printed.standard_timings = Listed(8, m.standard)
    /\ \A k \in 1 .. 4 : m.descriptors[k].kind # "bytes" =>
         Own(printed.descriptors[k]) = Own(Printed(m.descriptors[k]))
    /\ HasExtension(m) =>
         /\ Len(printed.cea.blocks) = Len(m.blocks)
         /\ \A k \in DOMAIN m.blocks :
              m.blocks[k].kind # "bytes" /\ Settled(PrintedBlock(m.blocks[k])) /\ ~IsFull(m.blocks[k]) =>
                printed.cea.blocks[k] = PrintedBlock(m.blocks[k])
         /\ printed.cea.timings = [k \in 1 .. m.native |-> Meant(m.timings[k])]
  BY Zenon DEF DecodesTheMonitor
<1> DEFINE m == Monitors[n]
<1>1. n \in 1 .. Len(Monitors) /\ IsMonitor(m)
  BY EdidAssumption
<1>2. IsEdid(edid, m)
  BY <1>1, ReadsMonitor
<1>3. Checked(edid)
  BY DEF Verified
<1>4. PICK old : Shaped(old) /\ printed = Printout(edid, old)
  BY DEF Decoded
<1> HIDE DEF m
<1>5. /\ printed.date = <<m.week, m.year, 0>> /\ printed.gamma = m.gamma
      /\ printed.input = [digital_if |-> TRUE, depth |-> m.depth, interface |-> 5]
      /\ printed.screen = [defined |-> "size", horizontal |-> m.size[1], vertical |-> m.size[2]]
      /\ printed.timing_1_2 = m.established /\ printed.standard_timings = Listed(8, m.standard)
      /\ \A k \in 1 .. 4 : m.descriptors[k].kind # "bytes" => Own(printed.descriptors[k]) = Own(Printed(m.descriptors[k]))
  BY <1>1, <1>2, <1>3, <1>4, BaseShown
<1>6. HasExtension(m) => CeaShows(printed.cea, m)
  BY <1>1, <1>2, <1>3, <1>4, ExtensionShown
<1> QED BY <1>5, <1>6 DEF CeaShows, m

(* For every list of valid monitors, every earlier content of the struct   *)
(* and every cut: when the bytes that are printed were all read of one     *)
(* monitor, edid_decode_v14 and edid_print_v14 print what that monitor     *)
(* means, base block and extension, but for the differences that are named *)
(* with the property.                                                      *)
THEOREM DecodesEveryMonitor == Spec => []DecodesTheMonitor
<1>1. Read /\ Verified /\ Decoded => DecodesTheMonitor
  BY MonitorDecoded
<1> QED BY <1>1, DecodedAlways, PTL

(* Each format takes a byte or two.                                        *)
LEMMA FormatsTakeBytes ==
  ASSUME NEW v, IsVideoFields(v), NEW f, FlatAt(f, Byte, Len(v.vic_3d), VicRows(v))
  PROVE  Len(v.vic_3d) <= Len(f[Len(v.vic_3d)])
<1> DEFINE u == v.vic_3d  n == Len(u)  N == Len(f[n])  Length(k) == Len(f[k])
<1>1. n \in Nat /\ u \in [1 .. n -> VicSet]
  BY VideoFieldsHave
<1>2. /\ N \in Nat /\ Length(0) = 0 /\ \A k \in 0 .. n : Length(k) \in 0 .. N
      /\ \A k \in 1 .. n : Placed(f, n, VicRows(v), k)
  BY DEF FlatAt
<1>3. ASSUME NEW k \in 1 .. n
      PROVE  \E w \in 1 .. 2 : Length(k) = Length(k - 1) + w
  <2> DEFINE x == u[k]
  <2>1. x \in VicSet
    BY <1>1
  <2>2. VicRows(v)[k] = VicBytes(x)
    BY DEF VicRows
  <2> HIDE DEF x
  <2>3. Len(VicBytes(x)) \in 1 .. 2
    BY <2>1, VicBytesAre
  <2>4. Placed(f, n, VicRows(v), k)
    BY <1>2
  <2>5. Length(k) = Length(k - 1) + Len(VicBytes(x))
    BY <2>2, <2>4 DEF Placed
  <2> QED BY <2>3, <2>5
<1> HIDE DEF u, n, N, Length
<1> DEFINE T == {k \in 0 .. n : k <= Length(k)}
<1>4. 0 \in T
  BY <1>1, <1>2
<1>5. ASSUME NEW k \in 0 .. n - 1, k \in T PROVE k + 1 \in T
  <2> DEFINE q == k + 1
  <2>1. q \in 1 .. n /\ q - 1 = k /\ q \in 0 .. n /\ k \in 0 .. n
    BY <1>1
  <2> HIDE DEF q
  <2>2. PICK w \in 1 .. 2 : Length(q) = Length(k) + w
    BY <2>1, <1>3
  <2>3. Length(k) \in 0 .. N
    BY <2>1, <1>2
  <2>4. q <= Length(q)
    BY <1>5, <2>1, <2>2, <2>3, <1>2
  <2> QED BY <2>1, <2>4 DEF q
<1> HIDE DEF T
<1>6. n \in T
  <2>1. 0 .. n \subseteq T /\ n \in 0 .. n
    BY <1>1, <1>4, <1>5, Induction
  <2> QED BY <2>1
<1>7. n <= Length(n)
  BY <1>6 DEF T
<1> QED BY <1>7 DEF n, u, Length

(* So a data block has room for 19 of them.                                *)
LEMMA FormatsFit ==
  ASSUME NEW v, IsVendor(v), v.hdmi_video, NEW b, NEW c, VendorAt(b, c, v)
  PROVE  Len(v.video.vic_3d) <= 19 /\ Len(FormatBytes(v.video)) <= 21
<1> DEFINE w == v.video  a == LatencyLength(v.p_latency)  s == LatencyLength(v.i_latency)
           l == Len(w.vic_3d)  M == Len(FormatBytes(w))  N == Len(VideoOf(v))  n == BlockLength(b, c)
<1>1. n \in 8 .. 31 /\ n = 8 + a + s + N /\ N \in Nat /\ a \in {0, 2} /\ s \in {0, 2}
  BY DEF VendorAt, LatencyLength
<1>2. IsVideoFields(w)
  BY DEF IsVendor
<1>3. VideoOf(v) = VideoFieldBytes(w)
  BY DEF VideoOf
<1> HIDE DEF n, a, s
<1>4. PICK f : IsVideoBytes(VideoFieldBytes(w), w, f)
  BY <1>2, VideoFieldBytesAre
<1> DEFINE L == Len(f[l])  g == w.multi_3d
<1>5. M \in Nat /\ VideoFieldBytes(w) \in [1 .. 2 + M -> Nat] /\ M = 2 * g + L
      /\ FlatAt(f, Byte, l, VicRows(w))
  BY <1>4 DEF IsVideoBytes, IsFormats
<1>6. N = 2 + M
  <2> DEFINE y == 2 + M
  <2>1. y \in Nat /\ VideoFieldBytes(w) \in [1 .. y -> Nat]
    BY <1>5
  <2> HIDE DEF y, M
  <2>2. Len(VideoFieldBytes(w)) = y
    BY <2>1, LenIs, Zenon
  <2> QED BY <2>2, <1>3 DEF y
<1>7. l \in Nat /\ g \in 0 .. 2 /\ (g = 0 => l = 0)
  <2>1. w.multi_3d = 0 => w.vic_3d = << >>
    BY <1>2 DEF IsVideoFields
  <2>2. l \in Nat /\ g \in 0 .. 2
    BY <1>2, VideoFieldsHave
  <2> QED BY <2>1, <2>2
<1>8. l <= L
  BY <1>2, <1>5, FormatsTakeBytes
<1>9. L \in Nat
  BY <1>5 DEF FlatAt
<1>10. M \in Nat /\ M = 2 * g + L
  BY <1>5
<1> HIDE DEF l, L, g, M, N
<1>11. M <= 21
  <2>1. a >= 0 /\ s >= 0 /\ a \in Nat /\ s \in Nat /\ n <= 31 /\ n \in Nat
    BY <1>1
  <2> QED BY <2>1, <1>1, <1>6, <1>10
<1>12. l <= 19
  <2>1. CASE g = 0
    BY <2>1, <1>7
  <2>2. CASE g # 0
    <3>1. g \in 1 .. 2
      BY <2>2, <1>7
    <3> QED BY <3>1, <1>7, <1>8, <1>9, <1>10, <1>11
  <2> QED BY <2>1, <2>2
<1> QED BY <1>11, <1>12 DEF l, M

(* No format, no list.                                                     *)
LEMMA NoVics ==
  ASSUME NEW b, NEW hv \in Nat, NEW v, IsVideoFields(v), v.vic_3d = << >>, Len(FormatBytes(v)) <= 31,
         VideoAt(b, hv, v), NEW old
  PROVE  Fields3d(b, hv, TRUE, old).vic_3d = IF v.multi_3d = 0 THEN old ELSE << >>
<1>1. PICK f : IsVideoBytes(VideoFieldBytes(v), v, f)
  BY VideoFieldBytesAre
<1> DEFINE n == Len(FormatBytes(v))  g == v.multi_3d  x == VideoFieldBytes(v)  h == v.image_size  y == v.present_3d
<1>2. /\ n \in Nat /\ x[1] = Flag(y, 128) + 32 * g + 8 * h /\ x[2] = n
      /\ n = 2 * g + Len(f[Len(v.vic_3d)]) /\ FlatAt(f, Byte, Len(v.vic_3d), VicRows(v))
  BY <1>1 DEF IsVideoBytes, IsFormats
<1>3. y \in BOOLEAN /\ g \in 0 .. 2 /\ h \in 0 .. 3
  BY VideoFieldsHave
<1>4. Len(f[Len(v.vic_3d)]) = 0
  <2>1. Len(v.vic_3d) = 0
    OBVIOUS
  <2> QED BY <2>1, <1>2 DEF FlatAt
<1>5. \A j \in 1 .. 2 + n : b[hv + j - 1] = x[j]
  BY DEF VideoAt
<1> HIDE DEF n, g, x, h, y
<1>6. n = 2 * g /\ n \in 0 .. 4
  BY <1>2, <1>3, <1>4
<1>7. b[hv] = x[1] /\ b[hv + 1] = n
  <2>1. 1 \in 1 .. 2 + n /\ 2 \in 1 .. 2 + n /\ hv + 1 - 1 = hv /\ hv + 2 - 1 = hv + 1
    BY <1>6
  <2> QED BY <2>1, <1>2, <1>5
<1>8. Bits(b[hv], 5, 2) = g
  BY <1>2, <1>3, <1>7, FirstVideoByte
<1>9. Bits(b[hv + 1], 0, 5) = n
  <2>1. n \in Nat /\ n % 32 = n
    <3>1. \A z \in 0 .. 4 : z \in Nat /\ z % 32 = z
      OBVIOUS
    <3> QED BY <3>1, <1>6
  <2> QED BY <2>1, <1>7, BitsAre
<1> DEFINE size == Bits(b[hv + 1], 0, 5)  multi == Bits(b[hv], 5, 2)  d == hv + 2 + Bits(b[hv + 1], 5, 3)
           many == IF size > 0 THEN multi ELSE 0
           M == CASE many = 2 -> 4 [] many = 1 -> 2 [] OTHER -> 0
           Q == IF size = 0 THEN old ELSE IF M = 0 THEN << >> ELSE Vics(b, d + M, size - M)
<1>10. Fields3d(b, hv, TRUE, old).vic_3d = Q
  BY DEF Fields3d
<1>11. CASE g = 0
  <2>1. size = 0
    BY <1>6, <1>9, <1>11
  <2> QED BY <2>1, <1>10, <1>11 DEF g
<1>12. CASE g # 0
  <2>1. size > 0 /\ size = 2 * g /\ multi = g /\ g \in 1 .. 2
    BY <1>3, <1>6, <1>8, <1>9, <1>12
  <2>2. many = g
    BY <2>1
  <2> HIDE DEF many, size, d
  <2>3. M = 2 * g
    <3>1. CASE g = 1
      BY <3>1, <2>2
    <3>2. CASE g = 2
      BY <3>2, <2>2
    <3> QED BY <3>1, <3>2, <2>1
  <2> HIDE DEF M
  <2>4. size # 0 /\ M # 0 /\ size - M <= 0
    BY <2>1, <2>3
  <2>5. Vics(b, d + M, size - M) = << >>
    BY <2>4 DEF Vics
  <2>6. Q = << >>
    BY <2>4, <2>5
  <2> QED BY <2>6, <1>10, <1>12 DEF g
<1> QED BY <1>11, <1>12

(* Whatever the struct held before, the block makes its list of formats    *)
(* this one; or it leaves the list as it was.                              *)
TakesList(b, c, list) == \A old : "video" \in DOMAIN old => Vendor(b, c, old).video.vic_3d = list
KeepsList(b, c) == \A old : "video" \in DOMAIN old => Vendor(b, c, old).video.vic_3d = old.video.vic_3d

(* A block of another vendor writes one field.                             *)
LEMMA OtherVendor ==
  ASSUME NEW b, NEW c, <<b[c + 1], b[c + 2], b[c + 3]>> # <<3, 12, 0>>, NEW old, "video" \in DOMAIN old
  PROVE  Vendor(b, c, old).video = old.video
<1>1. Vendor(b, c, old) = [old EXCEPT !.ieee_reg_id = 0]
  BY DEF Vendor
<1>2. [old EXCEPT !.ieee_reg_id = 0].video = old.video
  OBVIOUS
<1> QED BY <1>1, <1>2

(* The video fields of an HDMI vendor block, and the place of them.        *)
LEMMA VendorVideo ==
  ASSUME NEW v, IsVendor(v), NEW b, NEW c \in Nat, VendorAt(b, c, v), NEW old
  PROVE  LET hv == c + 9 + LatencyLength(v.p_latency) + LatencyLength(v.i_latency) IN
         Vendor(b, c, old).video = Fields3d(b, hv, v.hdmi_video, old.video.vic_3d)
<1> DEFINE a == LatencyLength(v.p_latency)  l == LatencyLength(v.i_latency)  n == BlockLength(b, c)
           P == v.p_latency # << >>  Q == v.i_latency # << >>
<1>1. /\ n \in 8 .. 31 /\ \A j \in 1 .. 8 : b[c + j] = VendorHead(v)[j]
  BY DEF VendorAt
<1>2. v.hdmi_video \in BOOLEAN
  BY DEF IsVendor
<1>3. a = (IF P THEN 2 ELSE 0) /\ l = (IF Q THEN 2 ELSE 0)
  BY DEF LatencyLength
<1>4. /\ b[c + 1] = 3 /\ b[c + 2] = 12 /\ b[c + 3] = 0
      /\ b[c + 8] = Flag(v.p_latency # << >>, 128) + Flag(v.i_latency # << >>, 64) + Flag(v.hdmi_video, 32)
  <2>1. \A j \in 1 .. 8 : b[c + j] = VendorHead(v)[j]
    BY <1>1
  <2>2. /\ b[c + 1] = VendorHead(v)[1] /\ b[c + 2] = VendorHead(v)[2] /\ b[c + 3] = VendorHead(v)[3]
        /\ b[c + 8] = VendorHead(v)[8]
    BY <2>1
  <2> QED BY <2>2 DEF VendorHead
<1> DEFINE fields == IF n >= 8 THEN b[c + 8] ELSE 0
           pr == Has(fields, 128)  il == Has(fields, 64)  hd == Has(fields, 32)
           second == c + 9 + IF pr THEN 2 ELSE 0
           hv == second + IF il THEN 2 ELSE 0
           addr == <<Bits(b[c + 4], 4, 4), Bits(b[c + 4], 0, 4), Bits(b[c + 5], 4, 4), Bits(b[c + 5], 0, 4)>>
           flags == IF n < 6 THEN {} ELSE
                      Flags(b[c + 6], [ai |-> 128, bpp48 |-> 64, bpp36 |-> 32, bpp30 |-> 16,
                                       ycbcr444 |-> 8, dvi_dual |-> 1])
           clock == IF n >= 7 THEN 5 * b[c + 7] ELSE 0
           pl == Latency(b, c + 9, pr)  sl == Latency(b, second, il)
           video == Fields3d(b, hv, hd, old.video.vic_3d)
<1>5. Vendor(b, c, old) =
        IF <<b[c + 1], b[c + 2], b[c + 3]>> # <<3, 12, 0>> THEN [old EXCEPT !.ieee_reg_id = 0]
        ELSE [ieee_reg_id |-> 3075, ext_len |-> n, addr |-> addr, flags |-> flags, max_tmds_clk |-> clock,
              p_latency |-> pl, i_latency |-> sl, hdmi_video |-> hd, video |-> video]
  BY DEF Vendor
<1>6. fields = b[c + 8]
  <2>1. n \in 8 .. 31
    BY <1>1
  <2> HIDE DEF n
  <2> QED BY <2>1
<1>7. /\ pr \in BOOLEAN /\ il \in BOOLEAN /\ hd \in BOOLEAN
      /\ (pr <=> P) /\ (il <=> Q) /\ (hd <=> v.hdmi_video)
  <2> DEFINE y == b[c + 8]
  <2>1. y = Flag(v.p_latency # << >>, 128) + Flag(v.i_latency # << >>, 64) + Flag(v.hdmi_video, 32)
    BY <1>4
  <2> HIDE DEF y
  <2>3. (Has(y, 128) <=> P) /\ (Has(y, 64) <=> Q) /\ (Has(y, 32) <=> v.hdmi_video)
    BY <2>1, <1>2, FieldBits
  <2>4. Has(y, 128) \in BOOLEAN /\ Has(y, 64) \in BOOLEAN /\ Has(y, 32) \in BOOLEAN
    BY DEF Has
  <2> QED BY <2>3, <2>4, <1>6 DEF y
<1> HIDE DEF n, fields, pr, il, hd, addr, flags, clock
<1>11. hv = c + 9 + a + l
  BY <1>3, <1>7
<1>12. hd = v.hdmi_video
  BY <1>2, <1>7
<1> HIDE DEF pl, sl, video, hv, second
<1>13. Vendor(b, c, old) =
         [ieee_reg_id |-> 3075, ext_len |-> n, addr |-> addr, flags |-> flags, max_tmds_clk |-> clock,
          p_latency |-> pl, i_latency |-> sl, hdmi_video |-> hd, video |-> video]
  BY <1>4, <1>5
<1>14. Vendor(b, c, old).video = video
  BY <1>13
<1>15. video = Fields3d(b, hv, v.hdmi_video, old.video.vic_3d)
  BY <1>12, Zenon DEF video
<1>16. video = Fields3d(b, c + 9 + a + l, v.hdmi_video, old.video.vic_3d)
  BY <1>11, <1>15, Zenon
<1> QED BY <1>14, <1>16, Zenon

(* The list that a vendor block makes: what an array of 16, or 19, holds.  *)
LEMMA VendorList ==
  ASSUME NEW k, IsBlock(k), k.tag = 3, NEW b, NEW c \in Nat, BlockAt(b, c, k)
  PROVE  KeepsList(b, c) \/ \E list \in Seq(VicSet) : TakesList(b, c, list) /\ Len(list) <= 19 /\ (Len(list) > 16 => IsFull(k))
<1>1. CASE k.kind = "bytes"
  <2>1. k.u \in Seq(Byte) /\ OfAnother(k.u) /\ BodyBytes(k) = k.u
    <3>1. k.u \in Seq(Byte) /\ OfAnother(k.u)
      BY <1>1 DEF IsBlock
    <3>2. BodyBytes(k) = k.u
      BY <1>1 DEF BodyBytes
    <3> QED BY <3>1, <3>2
  <2>2. <<b[c + 1], b[c + 2], b[c + 3]>> # <<3, 12, 0>>
    <3> DEFINE u == k.u  n == Len(u)
    <3>1. n >= 3 /\ <<u[1], u[2], u[3]>> # <<3, 12, 0>> /\ n \in Nat
      BY <2>1 DEF OfAnother
    <3>2. \A j \in 1 .. n : b[c + j] = u[j]
      BY <2>1 DEF BlockAt
    <3> HIDE DEF n, u
    <3>3. 1 \in 1 .. n /\ 2 \in 1 .. n /\ 3 \in 1 .. n
      BY <3>1
    <3>4. b[c + 1] = u[1] /\ b[c + 2] = u[2] /\ b[c + 3] = u[3]
      BY <3>2, <3>3
    <3> QED BY <3>1, <3>4
  <2>3. KeepsList(b, c)
    BY <2>2, OtherVendor DEF KeepsList
  <2> QED BY <2>3
<1>2. CASE k.kind # "bytes"
  <2> DEFINE v == k.u
  <2>1. k.kind = "vendor" /\ IsVendor(v) /\ Len(BodyBytes(k)) \in 0 .. 31
    <3>1. k.kind = "vendor" /\ IsVendor(v)
      BY <1>2, BlockKinds
    <3>2. Len(BodyBytes(k)) \in 0 .. 31
      BY BodyBytesAre DEF IsBodyBytes
    <3> QED BY <3>1, <3>2
  <2>2. VendorAt(b, c, v)
    BY <2>1, VendorLies
  <2>3. v.hdmi_video \in BOOLEAN /\ (v.hdmi_video => IsVideoFields(v.video))
    BY <2>1 DEF IsVendor
  <2>4. IsFull(k) <=> v.hdmi_video /\ Len(v.video.vic_3d) > 16
    BY <2>1 DEF IsFull
  <2> HIDE DEF v
  <2> DEFINE hv == c + 9 + LatencyLength(v.p_latency) + LatencyLength(v.i_latency)
  <2>5. \A old : Vendor(b, c, old).video = Fields3d(b, hv, v.hdmi_video, old.video.vic_3d)
    BY <2>1, <2>2, VendorVideo DEF v
  <2>6. CASE ~v.hdmi_video
    <3>1. \A old : Fields3d(b, hv, FALSE, old).vic_3d = old
      BY DEF Fields3d
    <3>2. v.hdmi_video = FALSE
      BY <2>3, <2>6
    <3>3. KeepsList(b, c)
      BY <2>5, <3>1, <3>2, Zenon DEF KeepsList
    <3> QED BY <3>3
  <2>7. CASE v.hdmi_video /\ v.video.vic_3d # << >>
    <3>1. NoVideo(v) /\ IsVendor(v)
      BY <2>1, <2>7, Zenon DEF NoVideo, v
    <3> DEFINE list == v.video.vic_3d
    <3>2. list \in Seq(VicSet)
      BY <2>3, <2>7 DEF IsVideoFields, VicSet
    <3>3. ASSUME NEW old PROVE Vendor(b, c, old).video.vic_3d = list
      <4>1. PICK video : DecodedAs(Vendor(b, c, old), v, video)
        BY <2>2, <3>1, VendorDecoded
      <4>2. Vendor(b, c, old) = Plain(v, v.hdmi_video, video) /\ video = v.video
        BY <4>1, <2>7, Zenon DEF DecodedAs
      <4>3. \A h : Plain(v, h, video).video = video
        BY DEF Plain
      <4> QED BY <4>2, <4>3, Zenon
    <3>4. TakesList(b, c, list)
      BY <3>3, Zenon DEF TakesList
    <3>5. Len(list) <= 19
      BY <3>1, <2>2, <2>7, FormatsFit
    <3>6. Len(list) > 16 => IsFull(k)
      BY <2>4, <2>7
    <3> QED BY <3>2, <3>4, <3>5, <3>6
  <2>8. CASE v.hdmi_video /\ v.video.vic_3d = << >>
    <3> DEFINE w == v.video  N == Len(VideoOf(v))
    <3>1. IsVideoFields(w) /\ w.vic_3d = << >>
      BY <2>3, <2>8
    <3>2. IsVendor(v)
      BY <2>1 DEF v
    <3>3. Len(FormatBytes(w)) <= 21 /\ Len(FormatBytes(w)) \in Nat
      <4>1. PICK f : IsVideoBytes(VideoFieldBytes(w), w, f)
        BY <3>1, VideoFieldBytesAre
      <4> QED BY <4>1, <3>2, <2>2, <2>8, FormatsFit DEF IsVideoBytes
    <3>4. VideoAt(b, hv, w)
      <4> DEFINE M == Len(FormatBytes(w))
      <4>1. PICK f : IsVideoBytes(VideoFieldBytes(w), w, f)
        BY <3>1, VideoFieldBytesAre
      <4>2. M \in Nat /\ VideoFieldBytes(w) \in [1 .. 2 + M -> Nat]
        BY <4>1 DEF IsVideoBytes
      <4>3. VideoOf(v) = VideoFieldBytes(w)
        BY <2>8 DEF VideoOf
      <4>4. N = 2 + M
        <5> DEFINE y == 2 + M
        <5>1. y \in Nat /\ VideoFieldBytes(w) \in [1 .. y -> Nat]
          BY <4>2
        <5> HIDE DEF y, M
        <5>2. Len(VideoFieldBytes(w)) = y
          BY <5>1, LenIs, Zenon
        <5> QED BY <5>2, <4>3 DEF y
      <4>5. \A j \in 1 .. N : b[hv + j - 1] = VideoOf(v)[j]
        BY <2>2 DEF VendorAt
      <4> QED BY <4>3, <4>4, <4>5 DEF VideoAt
    <3>5. hv \in Nat
      BY DEF LatencyLength
    <3>6. v.hdmi_video = TRUE
      BY <2>3, <2>8
    <3> HIDE DEF hv, w
    <3>7. \A old : Fields3d(b, hv, TRUE, old).vic_3d = IF w.multi_3d = 0 THEN old ELSE << >>
      <4> DEFINE M == Len(FormatBytes(w))
      <4>1. M \in Nat /\ M <= 21
        BY <3>3
      <4> HIDE DEF M
      <4>2. M <= 31
        BY <4>1
      <4>3. Len(FormatBytes(w)) <= 31
        BY <4>2 DEF M
      <4> QED BY <3>1, <3>4, <3>5, <4>3, NoVics
    <3>10. \A old : Vendor(b, c, old).video = Fields3d(b, hv, TRUE, old.video.vic_3d)
      BY <2>5, <3>6, Zenon DEF hv
    <3>8. CASE w.multi_3d = 0
      <4>1. ASSUME NEW old PROVE Vendor(b, c, old).video.vic_3d = old.video.vic_3d
        <5>1. Fields3d(b, hv, TRUE, old.video.vic_3d).vic_3d = old.video.vic_3d
          BY <3>7, <3>8
        <5> QED BY <3>10, <5>1, Zenon
      <4>2. KeepsList(b, c)
        BY <4>1, Zenon DEF KeepsList
      <4> QED BY <4>2
    <3>9. CASE w.multi_3d # 0
      <4>1. ASSUME NEW old PROVE Vendor(b, c, old).video.vic_3d = << >>
        <5>1. Fields3d(b, hv, TRUE, old.video.vic_3d).vic_3d = << >>
          BY <3>7, <3>9
        <5> QED BY <3>10, <5>1, Zenon
      <4> DEFINE list == << >>
      <4>2. TakesList(b, c, list)
        BY <4>1, Zenon DEF TakesList
      <4>3. list \in Seq(VicSet) /\ Len(list) <= 19 /\ ~(Len(list) > 16)
        OBVIOUS
      <4> HIDE DEF list
      <4> QED BY <4>2, <4>3, Zenon
    <3> QED BY <3>8, <3>9
  <2> QED BY <2>6, <2>7, <2>8
<1> QED BY <1>1, <1>2

(***************************************************************************)
(* An extension that is read without a cut is that of one monitor.         *)
(***************************************************************************)

(* No byte has a source at first.                                          *)
LEMMA OneSourceInit == ASSUME Init PROVE OneSource
BY DEF Init, OneSource

(* No cut after the byte 128: the extension is read in one go.             *)
LEMMA OneSourceNext ==
  ASSUME Cuts \subseteq 0 .. 128, Read, OneSource, [Next]_vars
  PROVE  OneSource'
<1>1. CASE adv7513_edid_read
  <2>1. /\ i \in Cuts \cup {IDLE} /\ i < IDLE /\ i' = UpTo(i)
        /\ source' = [k \in 0 .. 255 |-> IF k \in i .. i' - 1 THEN monitor ELSE source[k]]
    BY <1>1, Zenon DEF adv7513_edid_read, Read
  <2>2. i' \in Cuts \cup {IDLE} /\ i' > i
    BY <2>1, UpToIs
  <2>3. i \in 0 .. 128
    BY <2>1 DEF IDLE
  <2>4. CASE i' = IDLE
    <3>1. \A k \in 128 .. 255 : k \in i .. i' - 1 /\ k \in 0 .. 255
      BY <2>3, <2>4 DEF IDLE
    <3>2. \A k \in 128 .. 255 : source'[k] = monitor
      BY <3>1, <2>1
    <3> QED BY <3>2 DEF OneSource
  <2>5. CASE i' # IDLE
    <3>1. i' \in 0 .. 128
      BY <2>2, <2>5
    <3>2. \A k \in 128 .. 255 : k \notin i .. i' - 1 /\ k \in 0 .. 255
      <4> SUFFICES ASSUME NEW k \in 128 .. 255 PROVE k \notin i .. i' - 1 /\ k \in 0 .. 255
        OBVIOUS
      <4> DEFINE x == i  y == i'
      <4>1. x \in Int /\ y \in Int /\ y <= 128
        BY <2>3, <3>1
      <4> HIDE DEF x, y
      <4>2. k \notin x .. y - 1 /\ k \in 0 .. 255
        BY <4>1
      <4> QED BY <4>2 DEF x, y
    <3>3. \A k \in 128 .. 255 : source'[k] = source[k]
      BY <3>2, <2>1
    <3> QED BY <3>3 DEF OneSource
  <2> QED BY <2>4, <2>5
<1>2. CASE UNCHANGED source
  BY <1>2 DEF OneSource
<1>3. adv7513_edid_read \/ UNCHANGED source
  BY DEF Next, vars, Command, NotAcknowledged, DecodeAndPrint, Replug
<1> QED BY <1>1, <1>2, <1>3

(* So it has the blocks and timings of one monitor.                        *)
LEMMA OneMonitor ==
  ASSUME Read, OneSource, Extends(edid)
  PROVE  \E n \in DOMAIN Monitors : \E f : IsMonitor(Monitors[n]) /\ Extended128(edid, Monitors[n], f)
<1> DEFINE n == source[128]  e == EdidOf[n]  m == Monitors[n]
<1>0. source \in [0 .. 255 -> 0 .. Len(Monitors)] /\ edid = [k \in 0 .. 255 |-> EdidOf[source[k]][k]]
  BY Zenon DEF Read
<1>1. n \in 0 .. Len(Monitors)
  <2>1. 128 \in 0 .. 255
    OBVIOUS
  <2> QED BY <2>1, <1>0, Zenon
<1>2. \A k \in 128 .. 255 : edid[k] = e[k]
  <2>1. ASSUME NEW k \in 128 .. 255 PROVE edid[k] = e[k]
    <3>1. k \in 0 .. 255
      OBVIOUS
    <3>2. edid[k] = EdidOf[source[k]][k]
      BY <3>1, <1>0, Zenon
    <3>3. source[k] = n
      BY DEF OneSource
    <3> QED BY <3>2, <3>3
  <2> QED BY <2>1
<1>3. edid[128] = 2
  BY DEF Extends
<1>4. n # 0
  <2>1. ASSUME n = 0 PROVE edid[128] = 0
    <3>1. e = [k \in 0 .. 255 |-> 0]
      BY <2>1, EdidAssumption DEF EdidOf
    <3> HIDE DEF e
    <3>2. e[128] = 0
      BY <3>1
    <3> QED BY <3>2, <1>2
  <2> QED BY <2>1, <1>3
<1>5. IsMonitor(m) /\ IsEdid(e, m) /\ n \in DOMAIN Monitors
  <2>1. n \in 1 .. Len(Monitors)
    BY <1>1, <1>4, EdidAssumption
  <2>2. IsMonitor(Monitors[n])
    BY <2>1, EdidAssumption
  <2>3. EdidOf[n] = Encode(Monitors[n])
    BY <1>1, <1>4 DEF EdidOf
  <2>4. n \in DOMAIN Monitors
    BY <2>1, EdidAssumption
  <2> QED BY <2>2, <2>3, <2>4, EncodeIs
<1> HIDE DEF n, e, m
<1>6. HasExtension(m)
  <2>1. ASSUME ~HasExtension(m) PROVE e[128] = 0
    BY <2>1, <1>5 DEF IsEdid
  <2> QED BY <2>1, <1>2, <1>3
<1>7. PICK f : Extended128(e, m, f)
  BY <1>5, <1>6, ExtendedIs
<1>8. edid \in [0 .. 255 -> Byte]
  BY ReadBytes
<1> DEFINE l == Len(f[Len(m.blocks)])  t == Len(m.timings)
<1>9. /\ Len(m.blocks) \in 1 .. 62 /\ DOMAIN m.blocks = 1 .. Len(m.blocks)
      /\ l \in Nat /\ t \in 0 .. 6 /\ l + 18 * t <= 123
      /\ FlatAt(f, Byte, Len(m.blocks), BlockRows(m))
      /\ e[128] = 2 /\ e[129] = 3 /\ e[130] = 4 + l /\ e[131] = 64 + m.native /\ m.native \in 0 .. t
      /\ \A j \in 1 .. l : e[131 + j] = f[Len(m.blocks)][j]
      /\ \A j \in 1 .. t * 18 : e[131 + l + j] = TimingRow(m, j)
  BY <1>7 DEF Extended128
<1> HIDE DEF l, t
<1>10. edid[128] = e[128] /\ edid[129] = e[129] /\ edid[130] = e[130] /\ edid[131] = e[131]
  BY <1>2
<1>11. ASSUME NEW j \in 1 .. l PROVE edid[131 + j] = f[Len(m.blocks)][j]
  <2>1. PICK q \in 128 .. 255 : q = 131 + j
    BY <1>9
  <2>2. edid[q] = e[q]
    BY <1>2
  <2> QED BY <2>1, <2>2, <1>9
<1>12. ASSUME NEW j \in 1 .. t * 18 PROVE edid[131 + l + j] = TimingRow(m, j)
  <2>0. l \in Nat /\ t \in 0 .. 6 /\ l + 18 * t <= 123
    BY <1>9
  <2>1. PICK q \in 128 .. 255 : q = 131 + l + j
    BY <2>0
  <2>2. edid[q] = e[q]
    BY <1>2, Zenon
  <2> QED BY <2>1, <2>2, <1>9
<1>13. Extended128(edid, m, f)
  BY <1>8, <1>9, <1>10, <1>11, <1>12, Zenon DEF Extended128, l, t
<1> QED BY <1>5, <1>13, Zenon DEF m

(***************************************************************************)
(* The bounds of the struct.                                               *)
(***************************************************************************)
Within(x, n) == x \in 0 .. n

InTiming(t) ==
  /\ Within(t.width, 4095) /\ Within(t.h_blank, 4095) /\ Within(t.height, 4095) /\ Within(t.v_blank, 4095)
  /\ Within(t.h_size, 4095) /\ Within(t.v_size, 4095) /\ Within(t.h_fp, 1023) /\ Within(t.h_sync, 1023)
  /\ Within(t.v_fp, 63) /\ Within(t.v_sync, 63)

(* The bounds of a timing, as the type invariant names them.               *)
LEMMA TimingIn ==
  ASSUME NEW t, InTiming(t)
  PROVE  TimingOK(t)
<1>1. ASSUME NEW w, NEW hb, NEW h, NEW vb, NEW hs, NEW vs, NEW hf, NEW hy, NEW vf, NEW vy,
             t.width = w, t.h_blank = hb, t.height = h, t.v_blank = vb, t.h_size = hs, t.v_size = vs,
             t.h_fp = hf, t.h_sync = hy, t.v_fp = vf, t.v_sync = vy,
             Within(w, 4095), Within(hb, 4095), Within(h, 4095), Within(vb, 4095), Within(hs, 4095),
             Within(vs, 4095), Within(hf, 1023), Within(hy, 1023), Within(vf, 63), Within(vy, 63)
      PROVE  TimingOK(t)
  BY <1>1, SMT DEF Within, TimingOK
<1> QED BY <1>1 DEF InTiming

(* Two bytes with bits in common stay in the field they make.              *)
LEMMA PartsBound ==
  ASSUME NEW x \in Byte, NEW y \in Byte
  PROVE  /\ Within(256 * Bits(x, 4, 4) + y, 4095) /\ Within(256 * Bits(x, 0, 4) + y, 4095)
         /\ Within(256 * Bits(x, 6, 2) + y, 1023) /\ Within(256 * Bits(x, 4, 2) + y, 1023)
         /\ Within(16 * Bits(x, 2, 2) + Bits(y, 4, 4), 63) /\ Within(16 * Bits(x, 0, 2) + Bits(y, 0, 4), 63)
<1>1. x \in 0 .. 255 /\ y \in 0 .. 255 /\ x \in Nat /\ y \in Nat
  BY DEF Byte
<1>2. /\ Bits(x, 4, 4) = (x \div 16) % 16 /\ Bits(x, 0, 4) = x % 16 /\ Bits(x, 6, 2) = (x \div 64) % 4
      /\ Bits(x, 4, 2) = (x \div 16) % 4 /\ Bits(x, 2, 2) = (x \div 4) % 4 /\ Bits(x, 0, 2) = x % 4
      /\ Bits(y, 4, 4) = (y \div 16) % 16 /\ Bits(y, 0, 4) = y % 16
  BY <1>1, BitsAre
<1> DEFINE a == Bits(x, 4, 4)  c == Bits(x, 0, 4)  d == Bits(x, 6, 2)  f == Bits(x, 4, 2)  g == Bits(x, 2, 2)
           h == Bits(x, 0, 2)  q == Bits(y, 4, 4)  w == Bits(y, 0, 4)
<1>3. /\ a \in 0 .. 15 /\ c \in 0 .. 15 /\ d \in 0 .. 3 /\ f \in 0 .. 3 /\ g \in 0 .. 3 /\ h \in 0 .. 3
      /\ q \in 0 .. 15 /\ w \in 0 .. 15
  BY <1>1, <1>2
<1> HIDE DEF a, c, d, f, g, h, q, w
<1>4. Within(256 * a + y, 4095) /\ Within(256 * c + y, 4095)
  BY <1>1, <1>3 DEF Within
<1>5. Within(256 * d + y, 1023) /\ Within(256 * f + y, 1023)
  BY <1>1, <1>3 DEF Within
<1>6. Within(16 * g + q, 63) /\ Within(16 * h + w, 63)
  BY <1>3 DEF Within
<1> QED BY <1>4, <1>5, <1>6 DEF a, c, d, f, g, h, q, w

(* DetailedTiming stays in its bit fields, whatever the bytes.             *)
LEMMA TimingBounds ==
  ASSUME NEW b, NEW o, NEW hsync, \A j \in 2 .. 14 : b[o + j] \in Byte
  PROVE  InTiming(DetailedTiming(b, o, hsync))
<1>1. /\ b[o + 2] \in Byte /\ b[o + 3] \in Byte /\ b[o + 4] \in Byte /\ b[o + 5] \in Byte /\ b[o + 6] \in Byte
      /\ b[o + 7] \in Byte /\ b[o + 8] \in Byte /\ b[o + 9] \in Byte /\ b[o + 10] \in Byte /\ b[o + 11] \in Byte
      /\ b[o + 12] \in Byte /\ b[o + 13] \in Byte /\ b[o + 14] \in Byte
  OBVIOUS
<1> DEFINE w == 256 * Bits(b[o + 4], 4, 4) + b[o + 2]  hb == 256 * Bits(b[o + 4], 0, 4) + b[o + 3]
           h == 256 * Bits(b[o + 7], 4, 4) + b[o + 5]  vb == 256 * Bits(b[o + 7], 0, 4) + b[o + 6]
           hf == 256 * Bits(b[o + 11], 6, 2) + b[o + 8]  hy == 256 * Bits(b[o + 11], 4, 2) + b[o + 9]
           vf == 16 * Bits(b[o + 11], 2, 2) + Bits(b[o + 10], 4, 4)
           vy == 16 * Bits(b[o + 11], 0, 2) + Bits(b[o + 10], 0, 4)
           hs == 256 * Bits(b[o + 14], 4, 4) + b[o + 12]  vs == 256 * Bits(b[o + 14], 0, 4) + b[o + 13]
           t == DetailedTiming(b, o, hsync)
<1>2. /\ t.width = w /\ t.h_blank = hb /\ t.height = h /\ t.v_blank = vb /\ t.h_size = hs /\ t.v_size = vs
      /\ t.h_fp = hf /\ t.h_sync = hy /\ t.v_fp = vf /\ t.v_sync = vy
  BY DEF DetailedTiming
<1>3. Within(w, 4095) /\ Within(hb, 4095)
  BY <1>1, PartsBound
<1>4. Within(h, 4095) /\ Within(vb, 4095)
  BY <1>1, PartsBound
<1>5. Within(hs, 4095) /\ Within(vs, 4095)
  BY <1>1, PartsBound
<1>6. Within(hf, 1023) /\ Within(hy, 1023)
  BY <1>1, PartsBound
<1>7. Within(vf, 63) /\ Within(vy, 63)
  BY <1>1, PartsBound
<1> HIDE DEF w, hb, h, vb, hs, vs, hf, hy, vf, vy, t
<1>8. InTiming(t)
  BY <1>2, <1>3, <1>4, <1>5, <1>6, <1>7 DEF InTiming
<1> QED BY <1>8 DEF t

(* A struct of zeros, or of any byte, is in its bounds.                    *)
LEMMA UntouchedBounded ==
  ASSUME NEW x \in Byte
  PROVE  Bounded(Untouched(x))
<1> DEFINE z == [k \in 0 .. 17 |-> x]  t == DetailedTiming(z, 0, FALSE)  y == [t EXCEPT !.sync = {}]
<1>1. InTiming(t)
  <2>1. ASSUME NEW j \in 2 .. 14 PROVE z[0 + j] \in Byte
    <3>1. 0 + j \in 0 .. 17
      OBVIOUS
    <3> QED BY <3>1
  <2> HIDE DEF z
  <2> QED BY <2>1, TimingBounds
<1>2. DOMAIN t = {"pixel_clock", "width", "h_blank", "height", "v_blank", "h_fp", "h_sync", "v_fp", "v_sync",
                  "h_size", "v_size", "border_lr", "border_tb", "interlaced", "stereo", "sync"}
  BY DEF DetailedTiming
<1>3. TimingOK(y)
  <2> HIDE DEF t
  <2>1. /\ y.width = t.width /\ y.h_blank = t.h_blank /\ y.height = t.height /\ y.v_blank = t.v_blank
        /\ y.h_size = t.h_size /\ y.v_size = t.v_size /\ y.h_fp = t.h_fp /\ y.h_sync = t.h_sync
        /\ y.v_fp = t.v_fp /\ y.v_sync = t.v_sync
    BY <1>2
  <2> HIDE DEF y
  <2>2. InTiming(y)
    BY <1>1, <2>1 DEF InTiming
  <2> QED BY <2>2, TimingIn
<1>4. /\ Untouched(x).cea_ext.nr_dtd = 0 /\ Untouched(x).cea_ext.db_audio.nr_sad = 0
      /\ Untouched(x).cea_ext.dbc_tags = << >>
      /\ Untouched(x).cea_ext.detailed_timing = [k \in 1 .. 8 |-> y]
      /\ Untouched(x).cea_ext.db_vsdb_hdmi.video.vic_3d = << >>
  BY DEF Untouched
<1>8. InArray(<< >>)
  BY DEF InArray, ROOM
<1>5. \A k \in 1 .. 4 : Untouched(x).descriptors[k].type = "none"
  BY DEF Untouched
<1> DEFINE info == Untouched(x)
<1> HIDE DEF info, y
<1>6. BoundedCea(info.cea_ext)
  BY <1>3, <1>4, <1>8 DEF BoundedCea, info
<1>7. \A k \in 1 .. 4 : BoundedDescriptor(info.descriptors[k])
  BY <1>5 DEF BoundedDescriptor, info
<1> QED BY <1>6, <1>7 DEF Bounded, info

(* A decoded descriptor is in its bounds.                                  *)
LEMMA DescriptorBounded ==
  ASSUME NEW b, NEW o, NEW continuous, NEW old, DOMAIN old = DescriptorFields, \A j \in 2 .. 14 : b[o + j] \in Byte
  PROVE  BoundedDescriptor(Descriptor(b, o, continuous, old))
<1>1. CASE b[o] # 0 \/ b[o + 1] # 0
  <2> DEFINE y == DetailedTiming(b, o, TRUE)
  <2>1. Descriptor(b, o, continuous, old) = Fill([old EXCEPT !.type = "timing"], y)
    BY <1>1 DEF Descriptor
  <2> HIDE DEF y
  <2>2. Descriptor(b, o, continuous, old).u = y
    BY <2>1 DEF DescriptorFields, Fill
  <2>3. TimingOK(y)
    BY TimingBounds, TimingIn DEF y
  <2> QED BY <2>2, <2>3 DEF BoundedDescriptor
<1>2. CASE ~(b[o] # 0 \/ b[o + 1] # 0)
  <2>1. Descriptor(b, o, continuous, old) = DisplayDescriptor(b, o, continuous, old)
    BY <1>2 DEF Descriptor
  <2> DEFINE d == [old EXCEPT !.type = "display"]
  <2>2. DOMAIN d = DescriptorFields /\ d.type = "display"
    BY DEF DescriptorFields
  <2>3. DisplayDescriptor(b, o, continuous, old) =
          CASE b[o + 3] = \hff -> [d EXCEPT !.tag = "serial", !.u = Text(b, o, d.tail)]
            [] b[o + 3] = \hfe -> [d EXCEPT !.tag = "string", !.u = Text(b, o, d.tail)]
            [] b[o + 3] = \hfd -> Fill([d EXCEPT !.tag = "limits"], RangeLimits(b, o, continuous))
            [] b[o + 3] = \hfc -> [d EXCEPT !.tag = "name", !.u = Text(b, o, d.tail)]
            [] b[o + 3] = \hfb -> Fill([d EXCEPT !.tag = "color"], <<WhitePoint(b, o + 5), WhitePoint(b, o + 10)>>)
            [] b[o + 3] = \hfa -> [d EXCEPT !.tag = "standard", !.extra = StandardTimings(b, o + 5, 6, @)]
            [] b[o + 3] = \hf9 -> [d EXCEPT !.tag = "dcm", !.dcm = <<b[o + 5]>> \o [n \in 1 .. 6 |-> Word(b, o + 4 + 2 * n)]]
            [] b[o + 3] = \hf8 -> [d EXCEPT !.tag = "cvt", !.cvt = [n \in 0 .. 3 |-> CvtTiming(b, o + 6 + 3 * n, @[n])]]
            [] b[o + 3] = \hf7 -> [d EXCEPT !.tag = "established", !.timing_3 = Established(b, o + 6, 44)]
            [] b[o + 3] = \h10 -> [d EXCEPT !.tag = "dummy"]
            [] OTHER -> d
    BY DEF DisplayDescriptor, d
  <2> HIDE DEF d
  <2>5. \A x, y : DOMAIN x = DescriptorFields /\ x.type = "display" => Fill(x, y).type = "display"
    BY DEF Fill, DescriptorFields
  <2>4. DisplayDescriptor(b, o, continuous, old).type = "display"
    BY <2>2, <2>3, <2>5 DEF DescriptorFields
  <2> QED BY <2>1, <2>4 DEF BoundedDescriptor
<1> QED BY <1>1, <1>2

(***************************************************************************)
(* The list of 3D formats, and what it is written over.                    *)
(***************************************************************************)
SomeFull == \E n \in DOMAIN Monitors : HasFull(Monitors[n])

(* A list of 16, or of 19 if there is a monitor with more than 16.         *)
LEMMA ListInArray ==
  ASSUME NEW list, Len(list) \in Nat, Len(list) <= 19, Len(list) > 16 => SomeFull
  PROVE  InArray(list)
<1> DEFINE l == Len(list)
<1>1. l \in Nat /\ l <= 19 /\ (l > 16 => SomeFull)
  OBVIOUS
<1>2. InArray(list) <=> l <= IF SomeFull THEN 19 ELSE 16
  BY DEF InArray, SomeFull, ROOM
<1> HIDE DEF l
<1> QED BY <1>1, <1>2

(* The formats that a vendor block writes, over an empty list, are those   *)
(* that it writes over any.                                                *)
WritesList(b, c, k) ==
  /\ Written(b, c) \in Seq(VicSet) /\ Len(Written(b, c)) <= 19 /\ (Len(Written(b, c)) > 16 => IsFull(k))
  /\ \/ KeepsList(b, c) /\ Written(b, c) = << >>
     \/ TakesList(b, c, Written(b, c))

LEMMA VendorWrites ==
  ASSUME NEW k, IsBlock(k), k.tag = 3, NEW b, NEW c \in Nat, BlockAt(b, c, k)
  PROVE  WritesList(b, c, k)
<1> DEFINE none == [ieee_reg_id |-> 0, video |-> [vic_3d |-> << >>]]  w == Written(b, c)
<1>1. w = Vendor(b, c, none).video.vic_3d /\ "video" \in DOMAIN none /\ none.video.vic_3d = << >>
  BY DEF Written
<1> HIDE DEF none, w
<1>2. CASE KeepsList(b, c)
  <2>1. w = << >>
    BY <1>1, <1>2 DEF KeepsList
  <2>2. w \in Seq(VicSet) /\ Len(w) <= 19 /\ ~(Len(w) > 16)
    BY <2>1
  <2> QED BY <1>2, <2>1, <2>2, Zenon DEF WritesList, w
<1>3. CASE ~KeepsList(b, c)
  <2>1. PICK list \in Seq(VicSet) : TakesList(b, c, list) /\ Len(list) <= 19 /\ (Len(list) > 16 => IsFull(k))
    BY <1>3, VendorList, Zenon
  <2>2. w = list
    BY <1>1, <2>1, Zenon DEF TakesList
  <2> QED BY <2>1, <2>2, Zenon DEF WritesList, w
<1> QED BY <1>2, <1>3

TimesOK(x) == DOMAIN x = 1 .. 8 /\ \A j \in 1 .. 8 : TimingOK(x[j])

Sized(t) == t.width \in 0 .. 4095 /\ t.height \in 0 .. 4095

(* A timing stays in its bit fields when its sizes are replaced.           *)
LEMMA TimingSized ==
  ASSUME NEW t, TimingOK(t), NEW z, Sized(z),
         z.h_blank = t.h_blank, z.v_blank = t.v_blank, z.h_size = t.h_size, z.v_size = t.v_size,
         z.h_fp = t.h_fp, z.h_sync = t.h_sync, z.v_fp = t.v_fp, z.v_sync = t.v_sync
  PROVE  TimingOK(z)
<1>1. ASSUME NEW w, NEW v, NEW hb, NEW h, NEW g, NEW vb, NEW hs, NEW vs, NEW hf, NEW hy, NEW vf, NEW vy,
             t.width = v, t.h_blank = hb, t.height = g, t.v_blank = vb, t.h_size = hs, t.v_size = vs,
             t.h_fp = hf, t.h_sync = hy, t.v_fp = vf, t.v_sync = vy, z.width = w, z.height = h,
             z.h_blank = hb, z.v_blank = vb, z.h_size = hs, z.v_size = vs,
             z.h_fp = hf, z.h_sync = hy, z.v_fp = vf, z.v_sync = vy, w \in 0 .. 4095, h \in 0 .. 4095
      PROVE  TimingOK(z)
  <2>1. {v, g, hb, vb, hs, vs} \subseteq 0 .. 4095 /\ {hf, hy} \subseteq 0 .. 1023 /\ {vf, vy} \subseteq 0 .. 63
    BY <1>1, SMT DEF TimingOK
  <2>2. /\ Within(w, 4095) /\ Within(hb, 4095) /\ Within(h, 4095) /\ Within(vb, 4095)
        /\ Within(hs, 4095) /\ Within(vs, 4095) /\ Within(hf, 1023) /\ Within(hy, 1023)
        /\ Within(vf, 63) /\ Within(vy, 63)
    BY <1>1, <2>1, SMT DEF Within
  <2>3. InTiming(z)
    BY <1>1, <2>2 DEF InTiming
  <2> QED BY <2>3, TimingIn
<1>2. z.width \in 0 .. 4095 /\ z.height \in 0 .. 4095
  BY DEF Sized
<1> QED BY <1>1, <1>2, SMTT(30)

(* A format that is written over a timing leaves it in its bit fields.     *)
LEMMA OverBounded ==
  ASSUME NEW list \in Seq(VicSet), NEW x, TimesOK(x), DOMAIN x[1] = TimingParts
  PROVE  TimesOK(OverTimings(list, x))
<1> DEFINE n == Len(list) - ROOM  third == list[ROOM + 3]  y == OverTimings(list, x)  l == Len(list)
           z == [x[1] EXCEPT !.pixel_clock = third.vic_2d, !.width = third.struct_3d, !.height = third.detail_3d]
<1>1. y = (IF n <= 0 THEN x ELSE [x EXCEPT ![1] = IF n <= 2 THEN x[1] ELSE z])
  BY DEF OverTimings
<1>2. ~(n <= 2) => third \in VicSet
  <2>1. list \in [1 .. l -> VicSet] /\ l \in Nat
    OBVIOUS
  <2>2. n = l - 16 /\ ROOM + 3 = 19
    BY DEF ROOM
  <2> HIDE DEF l, n
  <2>3. ~(n <= 2) => 19 \in 1 .. l
    BY <2>1, <2>2
  <2> QED BY <2>1, <2>2, <2>3
<1>3. ~(n <= 2) => TimingOK(z)
  <2> SUFFICES ASSUME ~(n <= 2) PROVE TimingOK(z)
    OBVIOUS
  <2> DEFINE t == x[1]  w == third.struct_3d  h == third.detail_3d
  <2>1. w \in 0 .. 15 /\ h \in 0 .. 15
    BY <1>2 DEF VicSet, Nibble
  <2>2. TimingOK(t) /\ DOMAIN t = TimingParts
    BY DEF TimesOK
  <2> HIDE DEF n, third, t, w, h
  <2>3. /\ z.width = w /\ z.height = h /\ z.h_blank = t.h_blank /\ z.v_blank = t.v_blank /\ z.h_size = t.h_size
        /\ z.v_size = t.v_size /\ z.h_fp = t.h_fp /\ z.h_sync = t.h_sync /\ z.v_fp = t.v_fp /\ z.v_sync = t.v_sync
    BY <2>2 DEF TimingParts, t, w, h
  <2> HIDE DEF z
  <2>4. w \in 0 .. 4095 /\ h \in 0 .. 4095
    BY <2>1
  <2>5. Sized(z)
    BY <2>3, <2>4 DEF Sized
  <2> QED BY <2>2, <2>3, <2>5, TimingSized, Zenon
<1> HIDE DEF n, y, z
<1>4. TimesOK(y)
  BY <1>1, <1>3 DEF TimesOK
<1> QED BY <1>4 DEF y

InBounds(x) == x.db_audio.nr_sad \in 0 .. 10 /\ TimesOK(x.detailed_timing) /\ InArray(x.db_vsdb_hdmi.video.vic_3d)

(* A data block keeps the bounds.                                          *)
LEMMA StepBounded ==
  ASSUME NEW k, IsBlock(k), IsFull(k) => SomeFull, NEW e \in [0 .. 255 -> Byte], NEW c \in 132 .. 255, BlockAt(e, c, k),
         NEW v, ShapedCea(v), InBounds(v), NEW z, BlockStep(z, e, c, v)
  PROVE  InBounds(z)
<1>1. e[c] \in Byte /\ c \in Nat
  OBVIOUS
<1>2. BlockLength(e, c) \in 0 .. 31
  BY <1>1, BytesAre DEF BlockLength
<1>3. Audio(e, c, v.db_audio).nr_sad \in 0 .. 10
  <2> DEFINE a == BlockLength(e, c)
  <2>1. Audio(e, c, v.db_audio).nr_sad = a \div 3
    BY DEF Audio
  <2>2. a \in 0 .. 31
    BY <1>2
  <2> HIDE DEF a
  <2>3. a \div 3 \in 0 .. 10
    BY <2>2
  <2> QED BY <2>1, <2>3
<1> DEFINE t == BlockTag(e, c)  L == Written(e, c)
<1>4. t = k.tag
  BY DEF BlockAt
<1>5. t = 3 => WritesList(e, c, k)
  BY <1>1, <1>4, VendorWrites
<1>6. t = 3 => L \in Seq(VicSet) /\ Len(L) <= 19 /\ (Len(L) > 16 => IsFull(k)) /\ (KeepsList(e, c) \/ TakesList(e, c, L))
  BY <1>5, Zenon DEF WritesList
<1>7. TimesOK(v.detailed_timing) /\ DOMAIN v.detailed_timing[1] = TimingParts /\ InArray(v.db_vsdb_hdmi.video.vic_3d)
      /\ v.db_audio.nr_sad \in 0 .. 10 /\ "video" \in DOMAIN v.db_vsdb_hdmi
  BY DEF InBounds, ShapedCea
<1>8. /\ z.db_audio = (IF t = 1 THEN Audio(e, c, v.db_audio) ELSE v.db_audio)
      /\ z.detailed_timing = (IF t = 3 THEN OverTimings(L, v.detailed_timing) ELSE v.detailed_timing)
      /\ z.db_vsdb_hdmi = (IF t = 3 THEN Vendor(e, c, v.db_vsdb_hdmi) ELSE v.db_vsdb_hdmi)
  BY Zenon DEF BlockStep
<1> HIDE DEF t, L
<1>9. z.db_audio.nr_sad \in 0 .. 10
  BY <1>3, <1>7, <1>8
<1>10. TimesOK(z.detailed_timing)
  <2>1. CASE t = 3
    <3>1. TimesOK(OverTimings(L, v.detailed_timing))
      BY <2>1, <1>6, <1>7, OverBounded
    <3> QED BY <3>1, <2>1, <1>8
  <2>2. CASE t # 3
    BY <2>2, <1>7, <1>8
  <2> QED BY <2>1, <2>2
<1>11. InArray(z.db_vsdb_hdmi.video.vic_3d)
  <2>1. CASE t = 3
    <3>1. z.db_vsdb_hdmi = Vendor(e, c, v.db_vsdb_hdmi)
      BY <2>1, <1>8
    <3>2. CASE KeepsList(e, c)
      <4>1. Vendor(e, c, v.db_vsdb_hdmi).video.vic_3d = v.db_vsdb_hdmi.video.vic_3d
        BY <3>2, <1>7, Zenon DEF KeepsList
      <4> QED BY <4>1, <3>1, <1>7
    <3>3. CASE TakesList(e, c, L)
      <4>1. Vendor(e, c, v.db_vsdb_hdmi).video.vic_3d = L
        BY <3>3, <1>7, Zenon DEF TakesList
      <4>2. Len(L) \in Nat /\ Len(L) <= 19 /\ (Len(L) > 16 => SomeFull)
        <5>1. L \in Seq(VicSet) /\ Len(L) <= 19 /\ (Len(L) > 16 => SomeFull)
          BY <2>1, <1>6, Zenon
        <5>2. Len(L) \in Nat
          BY <5>1
        <5> QED BY <5>1, <5>2, Zenon
      <4>3. InArray(L)
        BY <4>2, ListInArray
      <4> QED BY <4>1, <4>3, <3>1
    <3> QED BY <2>1, <3>2, <3>3, <1>6
  <2>2. CASE t # 3
    BY <2>2, <1>7, <1>8
  <2> QED BY <2>1, <2>2
<1> QED BY <1>9, <1>10, <1>11 DEF InBounds

(* The decoded extension of a monitor is in its bounds: no array of the    *)
(* struct is written past its end, but for the one of the 3D formats.      *)
LEMMA CeaBounded ==
  ASSUME NEW m, IsMonitor(m), HasFull(m) => SomeFull,
         NEW e, NEW f, Extended128(e, m, f), NEW old, ShapedCea(old), BoundedCea(old)
  PROVE  BoundedCea(edid_decode_cea(e, 128, old))
<1> DEFINE n == Len(m.blocks)  t == m.native  cea == CeaHead(e, old)  w == CeaWalked(e, old)
           x == edid_decode_cea(e, 128, old)
           times == [j \in DOMAIN w.detailed_timing \cup (1 .. w.nr_dtd) |->
                       IF j <= w.nr_dtd THEN DetailedTiming(e, Dtd(e) + 18 * (j - 1), FALSE) ELSE w.detailed_timing[j]]
<1>1. PICK u : WalksBlocks(u, e, m, f, cea) /\ w = u[n]
  BY MonitorWalk
<1>2. ShapedCea(cea) /\ cea.dbc_tags = << >>
  BY HeadIs
<1>3. cea.db_audio = old.db_audio /\ cea.detailed_timing = old.detailed_timing /\ cea.db_vsdb_hdmi = old.db_vsdb_hdmi
  BY DEF CeaHead, ShapedCea, CeaFields
<1>4. x = [w EXCEPT !.detailed_timing = times]
  <2>1. times = CeaTimes(e, old)
    BY Zenon DEF CeaTimes
  <2>3. Dtd(e) # 0
    BY PlacesAre
  <2>2. x = [w EXCEPT !.detailed_timing = CeaTimes(e, old)]
    BY <2>3, CeaIs
  <2> HIDE DEF x, w, times
  <2> QED BY <2>1, <2>2
<1>5. FinalCea(x, e, m, f)
  BY CeaDecoded
<1>6. n \in 1 .. 62 /\ e \in [0 .. 255 -> Byte] /\ Len(m.timings) \in 0 .. 6 /\ t \in 0 .. Len(m.timings)
  BY DEF Extended128
<1>20. DOMAIN m.blocks = 1 .. n
  BY DEF IsMonitor
<1> HIDE DEF cea, w, x, times
<1>7. x.nr_dtd = t /\ Len(x.dbc_tags) = n
  BY <1>5 DEF FinalCea, TagsAre
<1>8. ASSUME NEW k \in 1 .. n
      PROVE  /\ BlockStep(u[k], e, Place(f, k - 1), u[k - 1]) /\ Place(f, k - 1) \in 132 .. 255
             /\ IsBlock(m.blocks[k]) /\ BlockAt(e, Place(f, k - 1), m.blocks[k]) /\ (IsFull(m.blocks[k]) => SomeFull)
  <2>1. Lies(e, m, f, k)
    BY BlockLies
  <2>2. Place(f, k - 1) \in 132 .. 255 /\ IsBlock(m.blocks[k]) /\ BlockAt(e, Place(f, k - 1), m.blocks[k])
    BY <2>1 DEF Lies
  <2>3. IsFull(m.blocks[k]) => SomeFull
    BY <1>20, Zenon DEF HasFull
  <2> QED BY <2>2, <2>3, <1>1, <1>2, WalkSteps
<1>21. \A k \in 0 .. n : ShapedCea(u[k])
  BY <1>1, <1>2, WalkSteps
<1> HIDE DEF n, t
<1> DEFINE T == {k \in 0 .. n : InBounds(u[k])}
<1>9. 0 \in T
  <2>1. u[0] = cea
    BY <1>1 DEF WalksBlocks
  <2>2. old.db_audio.nr_sad \in 0 .. 10 /\ TimesOK(old.detailed_timing) /\ InArray(old.db_vsdb_hdmi.video.vic_3d)
    BY DEF BoundedCea, TimesOK
  <2>3. InBounds(cea)
    BY <2>2, <1>3 DEF InBounds
  <2>4. 0 \in 0 .. n
    BY <1>6
  <2> QED BY <2>1, <2>3, <2>4
<1>10. ASSUME NEW k \in 0 .. n - 1, k \in T PROVE k + 1 \in T
  <2> DEFINE q == k + 1
  <2>1. q \in 1 .. n /\ q - 1 = k /\ q \in 0 .. n /\ k \in 0 .. n
    BY <1>6
  <2> HIDE DEF q
  <2> DEFINE c == Place(f, k)  v == u[k]  z == u[q]  block == m.blocks[q]
  <2>2. BlockStep(z, e, c, v) /\ c \in 132 .. 255 /\ IsBlock(block) /\ BlockAt(e, c, block) /\ (IsFull(block) => SomeFull)
    BY <2>1, <1>8
  <2>3. InBounds(v) /\ ShapedCea(v)
    BY <2>1, <1>10, <1>21
  <2> HIDE DEF c, v, z, block
  <2>4. InBounds(z)
    BY <2>2, <2>3, <1>6, StepBounded
  <2> QED BY <2>1, <2>4 DEF q, z
<1> HIDE DEF T
<1>11. n \in T
  <2>1. 0 .. n \subseteq T /\ n \in 0 .. n
    <3>1. n \in Nat /\ n \in 0 .. n
      BY <1>6
    <3>2. \A k \in 0 .. n - 1 : k \in T => k + 1 \in T
      BY <1>10
    <3>3. 0 .. n \subseteq T
      BY <3>1, <3>2, <1>9, Induction
    <3> QED BY <3>1, <3>3
  <2> QED BY <2>1
<1>12. w.db_audio.nr_sad \in 0 .. 10 /\ TimesOK(w.detailed_timing) /\ InArray(w.db_vsdb_hdmi.video.vic_3d)
  BY <1>1, <1>11 DEF T, InBounds
<1>13. ShapedCea(w)
  <2>1. n \in 0 .. n
    BY <1>6
  <2> QED BY <2>1, <1>1, <1>21
<1>14. x.db_audio = w.db_audio /\ x.detailed_timing = times /\ x.nr_dtd = w.nr_dtd /\ x.db_vsdb_hdmi = w.db_vsdb_hdmi
  BY <1>4, <1>13 DEF ShapedCea, CeaFields
<1>22. t \in 0 .. 6 /\ w.nr_dtd = t
  <2> DEFINE l == Len(m.timings)
  <2>1. l \in 0 .. 6 /\ t \in 0 .. l
    BY <1>6
  <2> HIDE DEF l
  <2>2. t \in 0 .. 6
    BY <2>1
  <2> QED BY <2>2, <1>7, <1>14
<1>16. DOMAIN times = 1 .. 8
  <2>1. DOMAIN times = DOMAIN w.detailed_timing \cup (1 .. w.nr_dtd)
    BY DEF times
  <2>2. DOMAIN times = (1 .. 8) \cup (1 .. t)
    BY <2>1, <1>12, <1>22 DEF TimesOK
  <2> QED BY <2>2, <1>22
<1>15. ASSUME NEW j \in 1 .. 8 PROVE TimingOK(times[j])
  <2> DEFINE o == Dtd(e) + 18 * (j - 1)
  <2>0. times[j] = IF j <= w.nr_dtd THEN DetailedTiming(e, o, FALSE) ELSE w.detailed_timing[j]
    <3>1. j \in DOMAIN times
      BY <1>16
    <3>2. j \in DOMAIN w.detailed_timing \cup (1 .. w.nr_dtd)
      BY <3>1, Zenon DEF times
    <3> QED BY <3>2, Zenon DEF times
  <2>1. CASE j <= w.nr_dtd
    <3>1. times[j] = DetailedTiming(e, o, FALSE)
      BY <2>0, <2>1
    <3>2. j <= t /\ t \in 0 .. Len(m.timings) /\ Len(m.timings) \in 0 .. 6
      BY <2>1, <1>6, <1>22
    <3> DEFINE l == Len(f[n])  s == Len(m.timings)
    <3>3. l \in Nat /\ l + 18 * s <= 123
      BY DEF Extended128, n
    <3>4. Dtd(e) = 132 + l
      BY PlacesAre DEF Place, n
    <3>7. j <= s /\ s \in 0 .. 6
      <4>1. j <= t /\ t \in 0 .. s /\ s \in 0 .. 6
        BY <3>2
      <4> HIDE DEF s
      <4> QED BY <4>1
    <3> HIDE DEF l, s
    <3>5. ASSUME NEW q \in 2 .. 14 PROVE e[o + q] \in Byte
      <4>1. o + q \in 0 .. 255
        BY <3>7, <3>3, <3>4
      <4> QED BY <4>1, <1>6
    <3> HIDE DEF o
    <3>6. TimingOK(DetailedTiming(e, o, FALSE))
      BY <3>5, TimingBounds, TimingIn
    <3> QED BY <3>1, <3>6
  <2>2. CASE ~(j <= w.nr_dtd)
    <3>1. times[j] = w.detailed_timing[j]
      BY <2>0, <2>2
    <3> QED BY <3>1, <1>12 DEF TimesOK
  <2> QED BY <2>1, <2>2
<1>17. /\ x.nr_dtd \in 0 .. 15 /\ x.db_audio.nr_sad \in 0 .. 10 /\ Len(x.dbc_tags) <= 62
       /\ DOMAIN x.detailed_timing = 1 .. 8 /\ InArray(x.db_vsdb_hdmi.video.vic_3d)
  <2>1. t \in 0 .. 15
    BY <1>22
  <2>3. n <= 62
    BY <1>6
  <2>4. x.nr_dtd = t
    BY <1>7
  <2>5. Len(x.dbc_tags) = n
    BY <1>7
  <2>6. x.nr_dtd \in 0 .. 15
    BY <2>1, <2>4, Zenon
  <2>7. Len(x.dbc_tags) <= 62
    BY <2>3, <2>5, Zenon
  <2>2. x.db_audio.nr_sad \in 0 .. 10 /\ DOMAIN x.detailed_timing = 1 .. 8 /\ InArray(x.db_vsdb_hdmi.video.vic_3d)
    BY <1>12, <1>14, <1>16
  <2> QED BY <2>2, <2>6, <2>7
<1>18. \A j \in 1 .. 8 : TimingOK(x.detailed_timing[j])
  BY <1>14, <1>15
<1>19. BoundedCea(x)
  BY <1>17, <1>18 DEF BoundedCea
<1> QED BY <1>19 DEF x

(* The decoded struct is in its bounds.                                    *)
LEMMA DecodedBounded ==
  ASSUME Read, OneSource, NEW old, Shaped(old), Bounded(old)
  PROVE  Bounded(edid_decode_v14(edid, old).info)
<1> DEFINE b == edid  x == edid_decode_v14(b, old).info  base == Base(b, old)
<1>1. CASE ~Checked(b)
  BY <1>1 DEF edid_decode_v14
<1>2. CASE Checked(b)
  <2>1. \A f \in InfoFields \ {"ext_tag", "cea_ext"} : x[f] = base[f]
    BY <1>2, DecodedHas
  <2>2. (Extends(b) => x.cea_ext = edid_decode_cea(b, 128, old.cea_ext)) /\ (~Extends(b) => x = base)
    BY <1>2, DecodedHas
  <2>3. base.descriptors = [k \in 1 .. 4 |-> Descriptor(b, 36 + 18 * k, Continuous(b), old.descriptors[k])]
        /\ base.cea_ext = old.cea_ext
    BY BaseHas
  <2>4. b \in [0 .. 255 -> Byte]
    BY ReadBytes
  <2>5. ShapedCea(old.cea_ext) /\ \A k \in 1 .. 4 : DOMAIN old.descriptors[k] = DescriptorFields
    BY DEF Shaped
  <2>6. BoundedCea(old.cea_ext)
    BY DEF Bounded
  <2>7. Extends(b) => BoundedCea(edid_decode_cea(b, 128, old.cea_ext))
    <3> SUFFICES ASSUME Extends(b) PROVE BoundedCea(edid_decode_cea(b, 128, old.cea_ext))
      OBVIOUS
    <3>1. PICK n \in DOMAIN Monitors : \E f : IsMonitor(Monitors[n]) /\ Extended128(b, Monitors[n], f)
      BY OneMonitor
    <3>4. PICK f : IsMonitor(Monitors[n]) /\ Extended128(b, Monitors[n], f)
      BY <3>1
    <3> DEFINE m == Monitors[n]
    <3>2. IsMonitor(m) /\ Extended128(b, m, f)
      BY <3>4
    <3>3. HasFull(m) => SomeFull
      BY DEF SomeFull
    <3> HIDE DEF b, m
    <3> QED BY <3>2, <3>3, <2>5, <2>6, CeaBounded
  <2> HIDE DEF x, base, b
  <2>8. x.descriptors = base.descriptors
    BY <2>1 DEF InfoFields
  <2>9. ASSUME NEW k \in 1 .. 4 PROVE BoundedDescriptor(x.descriptors[k])
    <3> DEFINE o == 36 + 18 * k
    <3>1. ASSUME NEW j \in 2 .. 14 PROVE b[o + j] \in Byte
      <4>1. o + j \in 0 .. 255
        OBVIOUS
      <4> QED BY <4>1, <2>4
    <3> HIDE DEF o
    <3>2. BoundedDescriptor(Descriptor(b, o, Continuous(b), old.descriptors[k]))
      BY <3>1, <2>5, DescriptorBounded
    <3> QED BY <3>2, <2>3, <2>8 DEF o
  <2>10. BoundedCea(x.cea_ext)
    BY <2>2, <2>3, <2>6, <2>7
  <2>11. Bounded(x)
    BY <2>9, <2>10 DEF Bounded
  <2> QED BY <2>11 DEF x, b
<1> QED BY <1>1, <1>2

(***************************************************************************)
(* With the variables of the read.                                         *)
(***************************************************************************)

(* The struct is in its bounds at first.                                   *)
LEMMA TypedInit == ASSUME Init PROVE Typed
<1>1. Bounded(Zeros) /\ Bounded(Rest)
  <2>1. 0 \in Byte /\ 2 \in Byte
    BY DEF Byte
  <2> QED BY <2>1, UntouchedBounded DEF Zeros, Rest
<1> QED BY <1>1, OneSourceInit DEF Init, Typed

(* And stays there.                                                        *)
LEMMA TypedNext ==
  ASSUME Cuts \subseteq 0 .. 128, Read, Decoded, Typed, [Next]_vars
  PROVE  Typed'
<1>1. OneSource'
  BY OneSourceNext DEF Typed
<1>2. Bounded(edid_info)'
  <2>1. CASE DecodeAndPrint
    <3>1. PICK d : d = edid_decode_v14(edid, edid_info) /\ edid_info' = d.info
      BY <2>1 DEF DecodeAndPrint
    <3>2. Shaped(edid_info) /\ OneSource /\ Bounded(edid_info)
      BY DEF Decoded, Typed
    <3>3. Bounded(edid_decode_v14(edid, edid_info).info)
      BY <3>2, DecodedBounded
    <3> QED BY <3>1, <3>3
  <2>2. CASE UNCHANGED edid_info
    BY <2>2 DEF Typed
  <2>3. DecodeAndPrint \/ UNCHANGED edid_info
    BY DEF Next, vars, Command, NotAcknowledged, adv7513_edid_read, Replug
  <2> QED BY <2>1, <2>2, <2>3
<1>3. r' \in {-1, 0} /\ p' \in BOOLEAN
  <2>1. r \in {-1, 0} /\ p \in BOOLEAN
    BY DEF Typed
  <2>2. CASE \E with_p \in BOOLEAN : Command(with_p)
    BY <2>2 DEF Command
  <2>3. CASE NotAcknowledged
    BY <2>1, <2>3 DEF NotAcknowledged
  <2>4. CASE UNCHANGED <<r, p>>
    BY <2>1, <2>4
  <2>5. CASE DecodeAndPrint
    <3>1. r' = r /\ p' = FALSE
      BY <2>5 DEF DecodeAndPrint
    <3> QED BY <2>1, <3>1
  <2>6. adv7513_edid_read => UNCHANGED <<r, p>>
    BY DEF adv7513_edid_read
  <2>7. Replug => UNCHANGED <<r, p>>
    BY DEF Replug
  <2>8. UNCHANGED vars => UNCHANGED <<r, p>>
    BY DEF vars
  <2> QED BY <2>2, <2>3, <2>4, <2>5, <2>6, <2>7, <2>8, Zenon DEF Next
<1> QED BY <1>1, <1>2, <1>3 DEF Typed

(* Which is the type invariant of the run.                                 *)
LEMMA TypesHold == ASSUME Read, Decoded, Typed PROVE TypeOK
<1>1. \A k \in 0 .. 255 : edid[k] \in 0 .. 255
  <2>1. edid \in [0 .. 255 -> Byte]
    BY ReadBytes
  <2> QED BY <2>1, Zenon DEF Byte
<1>2. i \in Cuts \cup {IDLE} /\ monitor \in 0 .. Len(Monitors)
  BY Zenon DEF Read
<1>3. r \in {-1, 0} /\ p \in BOOLEAN
  BY DEF Typed
<1> DEFINE cea == edid_info.cea_ext
<1>4. /\ cea.nr_dtd \in 0 .. 15 /\ cea.db_audio.nr_sad \in 0 .. 10 /\ Len(cea.dbc_tags) <= 62
      /\ InArray(cea.db_vsdb_hdmi.video.vic_3d) /\ DOMAIN cea.detailed_timing = 1 .. 8
      /\ \A k \in 1 .. 8 : TimingOK(cea.detailed_timing[k])
      /\ \A k \in 1 .. 4 : edid_info.descriptors[k].type = "timing" => TimingOK(edid_info.descriptors[k].u)
  <2>1. BoundedCea(cea) /\ \A k \in 1 .. 4 : BoundedDescriptor(edid_info.descriptors[k])
    BY DEF Typed, Bounded
  <2> HIDE DEF cea
  <2> QED BY <2>1 DEF BoundedCea, BoundedDescriptor
<1> HIDE DEF cea
<1> QED BY <1>1, <1>2, <1>3, <1>4, Zenon DEF TypeOK, cea

(* The invariant with the bounds.                                          *)
LEMMA TypedAlways ==
  ASSUME Cuts \subseteq 0 .. 128
  PROVE  Spec => [](Read /\ Verified /\ Decoded /\ Typed)
<1>1. Init => Typed
  BY TypedInit
<1>2. Read /\ Verified /\ Decoded /\ Typed /\ [Next]_vars => Typed'
  BY TypedNext
<1> QED BY <1>1, <1>2, DecodedAlways, PTL DEF Spec

(* When the monitor does not change while the extension is read, the       *)
(* arrays of the EDID struct are not written past their ends (8 timings,   *)
(* 10 audio formats, 62 data blocks, 16 3D formats), but for the list of   *)
(* 3D formats of a monitor that sends more than 16, of which it then holds *)
(* 19 at most; and the timings stay in the range of their bit fields, also *)
(* when that list is written over one.  The extension's own checksum is    *)
(* not verified by the code: of an extension of two monitors nothing       *)
(* bounds the number of blocks, timings or formats.                        *)
THEOREM StructStaysInBounds ==
  ASSUME Cuts \subseteq 0 .. 128
  PROVE  Spec => []TypeOK
<1>1. Read /\ Verified /\ Decoded /\ Typed => TypeOK
  BY TypesHold
<1> QED BY <1>1, TypedAlways, PTL

(***************************************************************************)
(* Two runs of the decoder over one extension: the older structs show      *)
(* where nothing is written.                                               *)
(***************************************************************************)
ExtendedTo(x, b, c, cea, k) ==
  /\ x.dbe_tags = (IF b[c + 1] \in ExtendedTags THEN [cea.dbe_tags EXCEPT ![k] = b[c + 1]] ELSE cea.dbe_tags)
  /\ x.db_vcdb = (IF b[c + 1] = 0 THEN VideoCapability(b[c + 2]) ELSE cea.db_vcdb)
  /\ x.db_colorimetry =
       (IF b[c + 1] = 5 THEN <<Bits(b[c + 2], 0, 2), Bits(b[c + 3], 0, 3)>> ELSE cea.db_colorimetry)

(* What an extended block writes.                                          *)
LEMMA ExtendedHas ==
  ASSUME NEW b, NEW c, NEW cea, DOMAIN cea = CeaFields, NEW k, Len(cea.dbc_tags) + 1 = k
  PROVE  ExtendedTo(Extended(b, c, cea), b, c, cea, k)
<1> DEFINE tag == b[c + 1]
           D == IF tag \in ExtendedTags THEN [cea.dbe_tags EXCEPT ![k] = tag] ELSE cea.dbe_tags
           V == IF tag = 0 THEN VideoCapability(b[c + 2]) ELSE cea.db_vcdb
           C == IF tag = 5 THEN <<Bits(b[c + 2], 0, 2), Bits(b[c + 3], 0, 3)>> ELSE cea.db_colorimetry
<1>1. Extended(b, c, cea) = [cea EXCEPT !.dbe_tags = D, !.db_vcdb = V, !.db_colorimetry = C]
  BY Zenon DEF Extended
<1> HIDE DEF D, V, C
<1>2. Extended(b, c, cea).dbe_tags = D /\ Extended(b, c, cea).db_vcdb = V /\ Extended(b, c, cea).db_colorimetry = C
  BY <1>1 DEF CeaFields
<1> QED BY <1>2, Zenon DEF ExtendedTo, D, V, C

(* What a block at c does to the fields that are not always written.       *)
Tells(x, w, e, c, tag, k) ==
  /\ x.dbe_tags = (IF tag = 7 /\ e[c + 1] \in ExtendedTags THEN [w.dbe_tags EXCEPT ![k] = e[c + 1]] ELSE w.dbe_tags)
  /\ x.db_vcdb = (IF tag = 7 /\ e[c + 1] = 0 THEN VideoCapability(e[c + 2])
                  ELSE IF tag = 3 THEN OverVcdb(Written(e, c), w.db_vcdb) ELSE w.db_vcdb)
  /\ x.db_vsdb_hdmi = (IF tag = 3 THEN Vendor(e, c, w.db_vsdb_hdmi) ELSE w.db_vsdb_hdmi)

(* So does one step over a block with any tag.                             *)
LEMMA BlockWrites ==
  ASSUME NEW x, NEW e, NEW c, NEW w, BlockStep(x, e, c, w), NEW tag, BlockTag(e, c) = tag,
         DOMAIN w = CeaFields, NEW k, Len(w.dbc_tags) + 1 = k
  PROVE  Tells(x, w, e, c, tag, k)
<1>1. /\ x.dbe_tags = (IF tag = 7 THEN Extended(e, c, w).dbe_tags ELSE w.dbe_tags)
      /\ x.db_vcdb = (IF tag = 7 THEN Extended(e, c, w).db_vcdb
                      ELSE IF tag = 3 THEN OverVcdb(Written(e, c), w.db_vcdb) ELSE w.db_vcdb)
      /\ x.db_vsdb_hdmi = (IF tag = 3 THEN Vendor(e, c, w.db_vsdb_hdmi) ELSE w.db_vsdb_hdmi)
  BY Zenon DEF BlockStep
<1>2. ExtendedTo(Extended(e, c, w), e, c, w, k)
  BY ExtendedHas
<1>3. CASE tag = 7
  <2>1. tag # 3
    BY <1>3
  <2> QED BY <1>1, <1>2, <1>3, <2>1, Zenon DEF Tells, ExtendedTo
<1>4. CASE tag # 7
  BY <1>1, <1>4, Zenon DEF Tells
<1> QED BY <1>3, <1>4

(* And the k-th step of the walk.                                          *)
LEMMA WalkWrites ==
  ASSUME NEW m, IsMonitor(m), NEW e, NEW f, Extended128(e, m, f), NEW cea, ShapedCea(cea),
         NEW u, WalksBlocks(u, e, m, f, cea), cea.dbc_tags = << >>, NEW k \in 1 .. Len(m.blocks)
  PROVE  Tells(u[k], u[k - 1], e, Place(f, k - 1), m.blocks[k].tag, k) /\ ShapedCea(u[k - 1])
<1> DEFINE n == Len(m.blocks)
<1>1. n \in 1 .. 62
  BY PlacesAre
<1>2. k \in 1 .. n
  OBVIOUS
<1>3. BlockStep(u[k], e, Place(f, k - 1), u[k - 1]) /\ BlockTag(e, Place(f, k - 1)) = m.blocks[k].tag
  BY <1>2, WalkSteps
<1> DEFINE q == k - 1
<1>4. q \in 0 .. n /\ q + 1 = k
  BY <1>1, <1>2
<1> HIDE DEF n, q
<1>5. ShapedCea(u[q])
  BY <1>4, WalkSteps DEF n
<1>6. TagsAre(u[q], m, q)
  BY <1>4, TagsHold DEF n
<1>7. DOMAIN u[q] = CeaFields /\ Len(u[q].dbc_tags) = q
  BY <1>5, <1>6 DEF ShapedCea, TagsAre
<1>8. BlockStep(u[k], e, Place(f, q), u[q]) /\ BlockTag(e, Place(f, q)) = m.blocks[k].tag
  BY <1>3 DEF q
<1>9. Tells(u[k], u[q], e, Place(f, q), m.blocks[k].tag, k)
  <2> DEFINE x == u[k]  w == u[q]  c == Place(f, q)  tag == m.blocks[k].tag
  <2>1. BlockStep(x, e, c, w) /\ BlockTag(e, c) = tag /\ DOMAIN w = CeaFields
    BY <1>7, <1>8
  <2>2. Len(w.dbc_tags) + 1 = k
    BY <1>4, <1>7
  <2> HIDE DEF x, w, c, tag
  <2>3. Tells(x, w, e, c, tag, k)
    BY <2>1, <2>2, BlockWrites
  <2> QED BY <2>3 DEF x, w, c, tag
<1> QED BY <1>5, <1>9 DEF q

AllWritten(u, e, m, f, n) ==
  \A q \in 1 .. n : \A j : q - 1 = j =>
    Tells(u[q], u[j], e, Place(f, j), m.blocks[q].tag, q) /\ DOMAIN u[j].dbe_tags = 1 .. 62

(* All the steps of the walk.                                              *)
LEMMA StepWrites ==
  ASSUME NEW m, IsMonitor(m), NEW e, NEW f, Extended128(e, m, f), NEW cea, ShapedCea(cea),
         NEW u, WalksBlocks(u, e, m, f, cea), cea.dbc_tags = << >>
  PROVE  /\ Len(m.blocks) \in 1 .. 62 /\ u[0] = cea /\ DOMAIN m.blocks = 1 .. Len(m.blocks)
         /\ AllWritten(u, e, m, f, Len(m.blocks))
<1> DEFINE n == Len(m.blocks)
<1>1. n \in 1 .. 62
  BY PlacesAre
<1>2. u[0] = cea
  BY DEF WalksBlocks
<1>3. DOMAIN m.blocks = 1 .. n
  BY DEF IsMonitor
<1>4. ASSUME NEW q \in 1 .. n, NEW j, q - 1 = j
      PROVE  Tells(u[q], u[j], e, Place(f, j), m.blocks[q].tag, q) /\ DOMAIN u[j].dbe_tags = 1 .. 62
  <2>1. Tells(u[q], u[q - 1], e, Place(f, q - 1), m.blocks[q].tag, q) /\ ShapedCea(u[q - 1])
    BY WalkWrites
  <2>2. DOMAIN u[q - 1].dbe_tags = 1 .. 62
    BY <2>1 DEF ShapedCea
  <2> QED BY <2>1, <2>2, <1>4
<1>5. AllWritten(u, e, m, f, n)
  BY <1>4 DEF AllWritten
<1> QED BY <1>1, <1>2, <1>3, <1>5

(* A monitor has one vendor block at most, and the others leave what it    *)
(* has written.                                                            *)
LEMMA VendorOnce ==
  ASSUME NEW m, IsMonitor(m), NEW e, NEW f, Extended128(e, m, f), NEW cea, ShapedCea(cea),
         NEW u, WalksBlocks(u, e, m, f, cea), cea.dbc_tags = << >>,
         NEW k \in 1 .. Len(m.blocks), m.blocks[k].tag = 3
  PROVE  u[Len(m.blocks)].db_vsdb_hdmi = Vendor(e, Place(f, k - 1), cea.db_vsdb_hdmi)
<1> DEFINE n == Len(m.blocks)  Z == cea.db_vsdb_hdmi  Y == Vendor(e, Place(f, k - 1), Z)
<1>1. n \in 1 .. 62 /\ u[0] = cea
  BY StepWrites
<1>0. AllWritten(u, e, m, f, n)
  BY StepWrites
<1>2. ASSUME NEW q \in 1 .. n, q # k PROVE m.blocks[q].tag # 3
  <2>1. DOMAIN m.blocks = 1 .. n
    BY StepWrites
  <2>2. \A a, c \in DOMAIN m.blocks : a # c /\ m.blocks[a].tag = m.blocks[c].tag => m.blocks[a].tag \in {5, 7}
    BY DEF IsMonitor
  <2>3. k \in DOMAIN m.blocks /\ q \in DOMAIN m.blocks
    BY <2>1
  <2>4. SUFFICES ASSUME m.blocks[q].tag = 3 PROVE FALSE
    OBVIOUS
  <2>5. m.blocks[k].tag \in {5, 7}
    BY <2>2, <2>3, <2>4, <1>2, Zenon
  <2> QED BY <2>5
<1>3. k \in 1 .. n
  OBVIOUS
<1> DEFINE T == {j \in 0 .. n : u[j].db_vsdb_hdmi = IF j < k THEN Z ELSE Y}
<1> HIDE DEF n, Z
<1>4. 0 \in T
  <2>1. 0 \in 0 .. n /\ 0 < k
    BY <1>1, <1>3
  <2> QED BY <2>1, <1>1 DEF Z
<1>5. ASSUME NEW j \in 0 .. n - 1, j \in T PROVE j + 1 \in T
  <2> DEFINE q == j + 1
  <2>1. q \in 1 .. n /\ q - 1 = j /\ q \in 0 .. n
    BY <1>1
  <2>2. (q < k => j < k) /\ (q = k => j < k /\ ~(q < k) /\ k - 1 = j) /\ (q > k => ~(j < k) /\ ~(q < k)) /\ (q < k \/ q = k \/ q > k)
    BY <1>1, <1>3
  <2> HIDE DEF q
  <2>3. u[q].db_vsdb_hdmi = (IF m.blocks[q].tag = 3 THEN Vendor(e, Place(f, j), u[j].db_vsdb_hdmi) ELSE u[j].db_vsdb_hdmi)
    <3>1. Tells(u[q], u[j], e, Place(f, j), m.blocks[q].tag, q)
      BY <2>1, <1>0 DEF AllWritten
    <3> QED BY <3>1, Zenon DEF Tells
  <2>4. u[j].db_vsdb_hdmi = IF j < k THEN Z ELSE Y
    BY <1>5
  <2>5. CASE q = k
    <3>1. u[q].db_vsdb_hdmi = Vendor(e, Place(f, j), Z)
      BY <2>2, <2>3, <2>4, <2>5
    <3>2. Y = Vendor(e, Place(f, j), Z)
      BY <2>2, <2>5
    <3> HIDE DEF Y
    <3> QED BY <2>1, <2>2, <2>5, <3>1, <3>2 DEF q
  <2>6. CASE q # k
    <3>1. m.blocks[q].tag # 3
      BY <2>1, <2>6, <1>2
    <3>2. u[q].db_vsdb_hdmi = u[j].db_vsdb_hdmi
      BY <3>1, <2>3
    <3> HIDE DEF Y
    <3>3. u[q].db_vsdb_hdmi = IF q < k THEN Z ELSE Y
      BY <2>2, <2>4, <2>6, <3>2
    <3> QED BY <2>1, <3>3 DEF q
  <2> QED BY <2>5, <2>6
<1> HIDE DEF T
<1>6. n \in T
  <2>1. n \in Nat /\ n \in 0 .. n
    BY <1>1
  <2>2. \A j \in 0 .. n - 1 : j \in T => j + 1 \in T
    BY <1>5
  <2>3. 0 .. n \subseteq T
    BY <2>1, <2>2, <1>4, Induction
  <2> QED BY <2>1, <2>3
<1>7. ~(n < k)
  BY <1>1, <1>3
<1> HIDE DEF Y
<1>8. u[n].db_vsdb_hdmi = Y
  BY <1>6, <1>7 DEF T
<1> QED BY <1>8 DEF n, Y, Z

(* Each extended block has an entry of its own.                            *)
LEMMA DbeOnce ==
  ASSUME NEW m, IsMonitor(m), NEW e, NEW f, Extended128(e, m, f), NEW cea, ShapedCea(cea),
         NEW u, WalksBlocks(u, e, m, f, cea), cea.dbc_tags = << >>,
         NEW k \in 1 .. Len(m.blocks), m.blocks[k].tag = 7
  PROVE  u[Len(m.blocks)].dbe_tags[k] =
           IF e[Place(f, k - 1) + 1] \in ExtendedTags THEN e[Place(f, k - 1) + 1] ELSE cea.dbe_tags[k]
<1> DEFINE n == Len(m.blocks)  Z == cea.dbe_tags[k]  t == e[Place(f, k - 1) + 1]
           Y == IF t \in ExtendedTags THEN t ELSE Z
<1>1. n \in 1 .. 62 /\ u[0] = cea
  BY StepWrites
<1>0. AllWritten(u, e, m, f, n)
  BY StepWrites
<1>3. k \in 1 .. n
  OBVIOUS
<1> DEFINE T == {j \in 0 .. n : u[j].dbe_tags[k] = IF j < k THEN Z ELSE Y}
<1> HIDE DEF n, Z
<1>4. 0 \in T
  <2>1. 0 \in 0 .. n /\ 0 < k
    BY <1>1, <1>3
  <2> QED BY <2>1, <1>1 DEF Z
<1>5. ASSUME NEW j \in 0 .. n - 1, j \in T PROVE j + 1 \in T
  <2> DEFINE q == j + 1
  <2>1. q \in 1 .. n /\ q - 1 = j /\ q \in 0 .. n
    BY <1>1
  <2>2. (q < k => j < k) /\ (q = k => j < k /\ ~(q < k) /\ k - 1 = j) /\ (q > k => ~(j < k) /\ ~(q < k)) /\ (q < k \/ q = k \/ q > k)
    BY <1>1, <1>3
  <2>0. k \in 1 .. 62
    BY <1>1, <1>3
  <2> HIDE DEF q
  <2> DEFINE s == e[Place(f, j) + 1]  D == u[j].dbe_tags
  <2>3. u[q].dbe_tags = (IF m.blocks[q].tag = 7 /\ s \in ExtendedTags THEN [D EXCEPT ![q] = s] ELSE D)
        /\ DOMAIN D = 1 .. 62
    <3>1. Tells(u[q], u[j], e, Place(f, j), m.blocks[q].tag, q) /\ DOMAIN u[j].dbe_tags = 1 .. 62
      BY <2>1, <1>0 DEF AllWritten
    <3> QED BY <3>1, Zenon DEF Tells
  <2>4. D[k] = IF j < k THEN Z ELSE Y
    BY <1>5
  <2>5. CASE q = k
    <3>1. t = s
      BY <2>2, <2>5
    <3> HIDE DEF s, D, t
    <3>2. u[q].dbe_tags[k] = IF s \in ExtendedTags THEN s ELSE D[k]
      BY <2>0, <2>3, <2>5
    <3>3. D[k] = Z
      BY <2>2, <2>4, <2>5
    <3>4. u[q].dbe_tags[k] = Y
      BY <3>1, <3>2, <3>3
    <3> HIDE DEF Y
    <3>5. u[q].dbe_tags[k] = IF q < k THEN Z ELSE Y
      BY <2>2, <2>5, <3>4
    <3> QED BY <2>1, <3>5 DEF q
  <2>6. CASE q # k
    <3> HIDE DEF s, D
    <3>2. u[q].dbe_tags[k] = D[k]
      BY <2>0, <2>3, <2>6
    <3> HIDE DEF Y
    <3>3. u[q].dbe_tags[k] = IF q < k THEN Z ELSE Y
      BY <2>2, <2>4, <2>6, <3>2
    <3> QED BY <2>1, <3>3 DEF q
  <2> QED BY <2>5, <2>6
<1> HIDE DEF T
<1>6. n \in T
  <2>1. n \in Nat /\ n \in 0 .. n
    BY <1>1
  <2>2. \A j \in 0 .. n - 1 : j \in T => j + 1 \in T
    BY <1>5
  <2>3. 0 .. n \subseteq T
    BY <2>1, <2>2, <1>4, Induction
  <2> QED BY <2>1, <2>3
<1>7. ~(n < k)
  BY <1>1, <1>3
<1> HIDE DEF Y
<1>8. u[n].dbe_tags[k] = Y
  BY <1>6, <1>7 DEF T
<1> QED BY <1>8 DEF n, Y, Z

(* After a block with the extended tag 0 the capabilities are of this      *)
(* EDID: the last such block has written them, whatever they were.         *)
LEMMA VcdbAgree ==
  ASSUME NEW m, IsMonitor(m), NEW e, NEW f, Extended128(e, m, f),
         NEW cea, ShapedCea(cea), cea.dbc_tags = << >>, NEW u, WalksBlocks(u, e, m, f, cea),
         NEW cfa, ShapedCea(cfa), cfa.dbc_tags = << >>, NEW v, WalksBlocks(v, e, m, f, cfa),
         NEW k \in 1 .. Len(m.blocks), m.blocks[k].tag = 7, e[Place(f, k - 1) + 1] = 0
  PROVE  u[Len(m.blocks)].db_vcdb = v[Len(m.blocks)].db_vcdb
<1> DEFINE n == Len(m.blocks)
<1>1. n \in 1 .. 62
  BY StepWrites
<1>0. AllWritten(u, e, m, f, n)
  BY StepWrites
<1>2. AllWritten(v, e, m, f, n)
  BY StepWrites
<1>3. k \in 1 .. n
  OBVIOUS
<1> DEFINE T == {j \in 0 .. n : j >= k => u[j].db_vcdb = v[j].db_vcdb}
<1> HIDE DEF n
<1>4. 0 \in T
  <2>1. 0 \in 0 .. n /\ ~(0 >= k)
    BY <1>1, <1>3
  <2> QED BY <2>1
<1>5. ASSUME NEW j \in 0 .. n - 1, j \in T PROVE j + 1 \in T
  <2> DEFINE q == j + 1
  <2>1. q \in 1 .. n /\ q - 1 = j /\ q \in 0 .. n
    BY <1>1
  <2>2. (q = k => k - 1 = j) /\ (q # k /\ q >= k => j >= k)
    BY <1>1, <1>3
  <2> HIDE DEF q
  <2> DEFINE tag == m.blocks[q].tag  s == e[Place(f, j) + 1]  V == VideoCapability(e[Place(f, j) + 2])
             L == Written(e, Place(f, j))
  <2>3. /\ u[q].db_vcdb = (IF tag = 7 /\ s = 0 THEN V ELSE IF tag = 3 THEN OverVcdb(L, u[j].db_vcdb) ELSE u[j].db_vcdb)
        /\ v[q].db_vcdb = (IF tag = 7 /\ s = 0 THEN V ELSE IF tag = 3 THEN OverVcdb(L, v[j].db_vcdb) ELSE v[j].db_vcdb)
    <3>1. Tells(u[q], u[j], e, Place(f, j), m.blocks[q].tag, q) /\ Tells(v[q], v[j], e, Place(f, j), m.blocks[q].tag, q)
      BY <2>1, <1>0, <1>2 DEF AllWritten
    <3> QED BY <3>1, Zenon DEF Tells
  <2>4. q = k => tag = 7 /\ s = 0
    BY <2>2
  <2>5. j >= k => u[j].db_vcdb = v[j].db_vcdb
    BY <1>5
  <2> HIDE DEF tag, s, V, L
  <2>6. q >= k => u[q].db_vcdb = v[q].db_vcdb
    BY <2>2, <2>3, <2>4, <2>5
  <2> QED BY <2>1, <2>6 DEF q
<1> HIDE DEF T
<1>6. n \in T
  <2>1. n \in Nat /\ n \in 0 .. n
    BY <1>1
  <2>2. \A j \in 0 .. n - 1 : j \in T => j + 1 \in T
    BY <1>5
  <2>3. 0 .. n \subseteq T
    BY <2>1, <2>2, <1>4, Induction
  <2> QED BY <2>1, <2>3
<1>7. n >= k
  BY <1>1, <1>3
<1>8. u[n].db_vcdb = v[n].db_vcdb
  BY <1>6, <1>7 DEF T
<1> QED BY <1>8 DEF n

(* The fields that formats are written over are the same afterwards: those *)
(* that they are written over, and those that were.                        *)
LEMMA OverAlike ==
  ASSUME NEW list \in Seq(VicSet), NEW n \in Nat,
         NEW c, NEW v, NEW t, 1 \in DOMAIN t, DOMAIN t[1] = TimingParts,
         NEW d, NEW w, NEW s, 1 \in DOMAIN s, DOMAIN s[1] = TimingParts,
         AlikeParts(c, v, t[1], d, w, s[1], n) \/ n <= Len(list) - ROOM
  PROVE  AlikeParts(OverColors(list, c), OverVcdb(list, v), OverTimings(list, t)[1],
                    OverColors(list, d), OverVcdb(list, w), OverTimings(list, s)[1], n)
<1> DEFINE N == Len(list) - ROOM  a == list[ROOM + 1]  b == list[ROOM + 2]  x == list[ROOM + 3]
<1>1. N \in Int
  <2> DEFINE l == Len(list)
  <2>1. l \in Nat /\ ROOM = 16
    BY DEF ROOM
  <2> HIDE DEF l
  <2> QED BY <2>1
<1>2. \A y : /\ OverColors(list, y) = IF N <= 0 THEN y ELSE <<a.vic_2d, a.struct_3d>>
             /\ OverVcdb(list, y) = IF N <= 0 THEN y
                  ELSE [quant_range_sel |-> a.detail_3d, pt |-> IF N > 1 THEN b.vic_2d ELSE y.pt,
                        it |-> IF N > 1 THEN b.struct_3d ELSE y.it, ce |-> IF N > 1 THEN b.detail_3d ELSE y.ce]
             /\ OverTimings(list, y) = IF N <= 0 THEN y
                  ELSE [y EXCEPT ![1] = IF N <= 2 THEN y[1] ELSE
                          [y[1] EXCEPT !.pixel_clock = x.vic_2d, !.width = x.struct_3d, !.height = x.detail_3d]]
  BY Zenon DEF OverColors, OverVcdb, OverTimings
<1> HIDE DEF N, a, b, x
<1>3. ASSUME NEW y, 1 \in DOMAIN y, DOMAIN y[1] = TimingParts
      PROVE  /\ N <= 2 => OverTimings(list, y)[1] = y[1]
             /\ ~(N <= 2) => /\ OverTimings(list, y)[1].pixel_clock = x.vic_2d
                             /\ OverTimings(list, y)[1].width = x.struct_3d
                             /\ OverTimings(list, y)[1].height = x.detail_3d
  <2> DEFINE e == [y[1] EXCEPT !.pixel_clock = x.vic_2d, !.width = x.struct_3d, !.height = x.detail_3d]
             h == IF N <= 2 THEN y[1] ELSE e
  <2>1. e.pixel_clock = x.vic_2d /\ e.width = x.struct_3d /\ e.height = x.detail_3d
    BY <1>3 DEF TimingParts
  <2>2. OverTimings(list, y) = IF N <= 0 THEN y ELSE [y EXCEPT ![1] = h]
    BY <1>2, Zenon
  <2> HIDE DEF e, h
  <2>3. N <= 0 => N <= 2
    BY <1>1
  <2>4. OverTimings(list, y)[1] = IF N <= 0 THEN y[1] ELSE h
    BY <2>2, <1>3
  <2> QED BY <2>1, <2>3, <2>4, Zenon DEF h
<1>4. CASE N <= 0
  <2>1. OverColors(list, c) = c /\ OverColors(list, d) = d /\ OverVcdb(list, v) = v /\ OverVcdb(list, w) = w
    BY <1>2, <1>4, Zenon
  <2>2. N <= 2
    BY <1>1, <1>4
  <2>3. OverTimings(list, t)[1] = t[1] /\ OverTimings(list, s)[1] = s[1]
    BY <1>3, <2>2, Zenon
  <2>4. CASE AlikeParts(c, v, t[1], d, w, s[1], n)
    BY <2>1, <2>3, <2>4, Zenon
  <2>5. CASE n <= N
    <3>1. n = 0
      BY <2>5, <1>1, <1>4
    <3>2. ~(n >= 1) /\ ~(n >= 2) /\ ~(n >= 3)
      BY <3>1
    <3> QED BY <3>2, Zenon DEF AlikeParts
  <2> QED BY <2>4, <2>5 DEF N
<1>5. CASE ~(N <= 0)
  <2> DEFINE V == OverVcdb(list, v)  W == OverVcdb(list, w)  T == OverTimings(list, t)[1]  S == OverTimings(list, s)[1]
  <2>1. OverColors(list, c) = OverColors(list, d)
    BY <1>2, <1>5, Zenon
  <2>2. ASSUME NEW y
        PROVE  /\ OverVcdb(list, y).quant_range_sel = a.detail_3d
               /\ OverVcdb(list, y).pt = IF N > 1 THEN b.vic_2d ELSE y.pt
               /\ OverVcdb(list, y).it = IF N > 1 THEN b.struct_3d ELSE y.it
               /\ OverVcdb(list, y).ce = IF N > 1 THEN b.detail_3d ELSE y.ce
    <3> DEFINE f == IF N > 1 THEN b.vic_2d ELSE y.pt  g == IF N > 1 THEN b.struct_3d ELSE y.it
               h == IF N > 1 THEN b.detail_3d ELSE y.ce
    <3>1. OverVcdb(list, y) = [quant_range_sel |-> a.detail_3d, pt |-> f, it |-> g, ce |-> h]
      BY <1>2, <1>5, Zenon
    <3> HIDE DEF f, g, h
    <3>2. /\ OverVcdb(list, y).quant_range_sel = a.detail_3d /\ OverVcdb(list, y).pt = f
          /\ OverVcdb(list, y).it = g /\ OverVcdb(list, y).ce = h
      BY <3>1
    <3> QED BY <3>2, Zenon DEF f, g, h
  <2>3. V.quant_range_sel = W.quant_range_sel
    BY <2>2, Zenon
  <2>4. n >= 2 => V.pt = W.pt /\ V.it = W.it /\ V.ce = W.ce
    <3>1. CASE N > 1
      BY <2>2, <3>1, Zenon
    <3>2. CASE ~(N > 1)
      <4>1. V.pt = v.pt /\ V.it = v.it /\ V.ce = v.ce /\ W.pt = w.pt /\ W.it = w.it /\ W.ce = w.ce
        BY <2>2, <3>2, Zenon
      <4>2. n <= N => ~(n >= 2)
        BY <1>1, <3>2
      <4>3. n >= 2 => AlikeParts(c, v, t[1], d, w, s[1], n)
        BY <4>2, Zenon DEF N
      <4> QED BY <4>1, <4>3, Zenon DEF AlikeParts
    <3> QED BY <3>1, <3>2
  <2>5. n >= 3 => T.pixel_clock = S.pixel_clock /\ T.width = S.width /\ T.height = S.height
    <3>1. CASE ~(N <= 2)
      BY <1>3, <3>1, Zenon
    <3>2. CASE N <= 2
      <4>1. T = t[1] /\ S = s[1]
        BY <1>3, <3>2, Zenon
      <4>2. n <= N => ~(n >= 3)
        BY <1>1, <3>2
      <4>3. n >= 3 => AlikeParts(c, v, t[1], d, w, s[1], n)
        BY <4>2, Zenon DEF N
      <4> QED BY <4>1, <4>3, Zenon DEF AlikeParts
    <3> QED BY <3>1, <3>2
  <2> QED BY <2>1, <2>3, <2>4, <2>5, Zenon DEF AlikeParts
<1> QED BY <1>4, <1>5

(* A data block keeps what agrees, and a vendor block makes it agree.      *)
LEMMA BlockAlike ==
  ASSUME NEW e, NEW c, NEW w, ShapedCea(w), NEW z, ShapedCea(z),
         NEW x, BlockStep(x, e, c, w), NEW y, BlockStep(y, e, c, z), NEW n \in Nat,
         BlockTag(e, c) = 3 => Written(e, c) \in Seq(VicSet),
         Alike(w, z, n) \/ (BlockTag(e, c) = 3 /\ n <= Len(Written(e, c)) - ROOM)
  PROVE  Alike(x, y, n)
<1> DEFINE t == BlockTag(e, c)  L == Written(e, c)
           Pieces(a, b) == AlikeParts(a.db_colorimetry, a.db_vcdb, a.detailed_timing[1],
                                     b.db_colorimetry, b.db_vcdb, b.detailed_timing[1], n)
<1>1. \A a, b : Alike(a, b, n) <=> Pieces(a, b)
  BY Zenon DEF Alike, AlikeParts
<1>2. ASSUME NEW d, NEW a, BlockStep(d, e, c, a)
      PROVE  /\ t = 3 => /\ d.db_colorimetry = OverColors(L, a.db_colorimetry)
                         /\ d.db_vcdb = OverVcdb(L, a.db_vcdb)
                         /\ d.detailed_timing = OverTimings(L, a.detailed_timing)
             /\ t # 3 => d.detailed_timing = a.detailed_timing
             /\ t = 7 => d.db_colorimetry = Extended(e, c, a).db_colorimetry /\ d.db_vcdb = Extended(e, c, a).db_vcdb
             /\ t # 3 /\ t # 7 => d.db_colorimetry = a.db_colorimetry /\ d.db_vcdb = a.db_vcdb
  <2>1. 3 # 7
    OBVIOUS
  <2> QED BY <1>2, <2>1, Zenon DEF BlockStep
<1> HIDE DEF t, L
<1>3. CASE t = 3
  <2> DEFINE C1 == w.db_colorimetry  V1 == w.db_vcdb  T1 == w.detailed_timing
             C2 == z.db_colorimetry  V2 == z.db_vcdb  T2 == z.detailed_timing
  <2>1. L \in Seq(VicSet)
    BY <1>3 DEF t, L
  <2>2. Pieces(w, z) \/ n <= Len(L) - ROOM
    BY <1>1 DEF t, L
  <2>3. AlikeParts(C1, V1, T1[1], C2, V2, T2[1], n) \/ n <= Len(L) - ROOM
    BY <2>2, Zenon
  <2>4. /\ 1 \in DOMAIN T1 /\ DOMAIN T1[1] = TimingParts
        /\ 1 \in DOMAIN T2 /\ DOMAIN T2[1] = TimingParts
    BY DEF ShapedCea
  <2>5. /\ x.db_colorimetry = OverColors(L, C1) /\ x.db_vcdb = OverVcdb(L, V1) /\ x.detailed_timing = OverTimings(L, T1)
        /\ y.db_colorimetry = OverColors(L, C2) /\ y.db_vcdb = OverVcdb(L, V2) /\ y.detailed_timing = OverTimings(L, T2)
    BY <1>2, <1>3, Zenon
  <2> HIDE DEF C1, V1, T1, C2, V2, T2
  <2>6. AlikeParts(OverColors(L, C1), OverVcdb(L, V1), OverTimings(L, T1)[1],
                   OverColors(L, C2), OverVcdb(L, V2), OverTimings(L, T2)[1], n)
    BY <2>1, <2>3, <2>4, OverAlike
  <2>7. Pieces(x, y)
    BY <2>5, <2>6, Zenon
  <2> QED BY <2>7, <1>1
<1>4. CASE t # 3
  <2>1. Pieces(w, z)
    BY <1>1, <1>4 DEF t
  <2>2. x.detailed_timing = w.detailed_timing /\ y.detailed_timing = z.detailed_timing
    BY <1>2, <1>4, Zenon
  <2>3. CASE t = 7
    <3>1. /\ x.db_colorimetry = Extended(e, c, w).db_colorimetry /\ x.db_vcdb = Extended(e, c, w).db_vcdb
          /\ y.db_colorimetry = Extended(e, c, z).db_colorimetry /\ y.db_vcdb = Extended(e, c, z).db_vcdb
      BY <1>2, <2>3, Zenon
    <3>2. DOMAIN w = CeaFields /\ DOMAIN z = CeaFields
      BY DEF ShapedCea
    <3>3. \E k : ExtendedTo(Extended(e, c, w), e, c, w, k)
      BY <3>2, ExtendedHas
    <3>4. \E k : ExtendedTo(Extended(e, c, z), e, c, z, k)
      BY <3>2, ExtendedHas
    <3> DEFINE V == VideoCapability(e[c + 2])  C == <<Bits(e[c + 2], 0, 2), Bits(e[c + 3], 0, 3)>>  s == e[c + 1]
    <3>5. /\ x.db_vcdb = (IF s = 0 THEN V ELSE w.db_vcdb) /\ x.db_colorimetry = (IF s = 5 THEN C ELSE w.db_colorimetry)
          /\ y.db_vcdb = (IF s = 0 THEN V ELSE z.db_vcdb) /\ y.db_colorimetry = (IF s = 5 THEN C ELSE z.db_colorimetry)
      BY <3>1, <3>3, <3>4, Zenon DEF ExtendedTo
    <3> HIDE DEF V, C, s
    <3>6. Alike(w, z, n)
      BY <2>1, <1>1
    <3>7. n >= 1 => x.db_colorimetry = y.db_colorimetry /\ x.db_vcdb.quant_range_sel = y.db_vcdb.quant_range_sel
      BY <3>5, <3>6, Zenon DEF Alike
    <3>8. n >= 2 => x.db_vcdb.pt = y.db_vcdb.pt /\ x.db_vcdb.it = y.db_vcdb.it /\ x.db_vcdb.ce = y.db_vcdb.ce
      BY <3>5, <3>6, Zenon DEF Alike
    <3>9. n >= 3 => /\ x.detailed_timing[1].pixel_clock = y.detailed_timing[1].pixel_clock
                    /\ x.detailed_timing[1].width = y.detailed_timing[1].width
                    /\ x.detailed_timing[1].height = y.detailed_timing[1].height
      BY <2>2, <3>6, Zenon DEF Alike
    <3> QED BY <3>7, <3>8, <3>9, Zenon DEF Alike
  <2>4. CASE t # 7
    <3>1. /\ x.db_colorimetry = w.db_colorimetry /\ x.db_vcdb = w.db_vcdb
          /\ y.db_colorimetry = z.db_colorimetry /\ y.db_vcdb = z.db_vcdb
      BY <1>2, <1>4, <2>4, Zenon
    <3>2. Pieces(x, y)
      BY <2>1, <2>2, <3>1, Zenon
    <3> QED BY <3>2, <1>1
  <2> QED BY <2>3, <2>4
<1> QED BY <1>3, <1>4

(* After the vendor block of a monitor it agrees as far as formats are     *)
(* written there.                                                          *)
LEMMA VendorAlike ==
  ASSUME NEW m, IsMonitor(m), NEW e, NEW f, Extended128(e, m, f),
         NEW cea, ShapedCea(cea), NEW u, WalksBlocks(u, e, m, f, cea),
         NEW cfa, ShapedCea(cfa), NEW v, WalksBlocks(v, e, m, f, cfa),
         NEW k \in 1 .. Len(m.blocks), m.blocks[k].tag = 3,
         NEW n \in Nat, n <= Len(Written(e, Place(f, k - 1))) - ROOM
  PROVE  Alike(u[Len(m.blocks)], v[Len(m.blocks)], n)
<1> DEFINE N == Len(m.blocks)
<1>1. N \in 1 .. 62
  BY PlacesAre
<1>2. ASSUME NEW q \in 1 .. N, NEW j, q - 1 = j
      PROVE  /\ BlockStep(u[q], e, Place(f, j), u[j]) /\ BlockStep(v[q], e, Place(f, j), v[j])
             /\ BlockTag(e, Place(f, j)) = m.blocks[q].tag
             /\ BlockTag(e, Place(f, j)) = 3 => Written(e, Place(f, j)) \in Seq(VicSet)
  <2>1. /\ BlockStep(u[q], e, Place(f, q - 1), u[q - 1]) /\ BlockStep(v[q], e, Place(f, q - 1), v[q - 1])
        /\ BlockTag(e, Place(f, q - 1)) = m.blocks[q].tag
    BY WalkSteps
  <2>2. Lies(e, m, f, q)
    BY BlockLies
  <2>3. Place(f, j) \in 132 .. 255 /\ IsBlock(m.blocks[q]) /\ BlockAt(e, Place(f, j), m.blocks[q])
    BY <2>2, <1>2 DEF Lies
  <2> DEFINE c == Place(f, j)  block == m.blocks[q]
  <2>4. c \in Nat /\ IsBlock(block) /\ BlockAt(e, c, block) /\ BlockTag(e, c) = block.tag
    <3>1. \A a \in 132 .. 255 : a \in Nat
      OBVIOUS
    <3>2. c \in Nat
      BY <3>1, <2>3
    <3>3. BlockTag(e, c) = block.tag
      BY <2>1, <1>2
    <3> QED BY <2>3, <3>2, <3>3, Zenon
  <2> HIDE DEF c, block
  <2>5. BlockTag(e, c) = 3 => WritesList(e, c, block)
    BY <2>4, VendorWrites
  <2>6. BlockTag(e, c) = 3 => Written(e, c) \in Seq(VicSet)
    BY <2>5, Zenon DEF WritesList
  <2> QED BY <2>1, <2>6, <1>2 DEF c
<1>3. k \in 1 .. N
  OBVIOUS
<1>4. (\A j \in 0 .. N : ShapedCea(u[j])) /\ (\A j \in 0 .. N : ShapedCea(v[j]))
  BY WalkSteps
<1> DEFINE T == {j \in 0 .. N : j >= k => Alike(u[j], v[j], n)}
<1> HIDE DEF N
<1>5. 0 \in T
  <2>1. 0 \in 0 .. N /\ ~(0 >= k)
    BY <1>1, <1>3
  <2> QED BY <2>1
<1>6. ASSUME NEW j \in 0 .. N - 1, j \in T PROVE j + 1 \in T
  <2> DEFINE q == j + 1
  <2>1. q \in 1 .. N /\ q - 1 = j /\ q \in 0 .. N /\ j \in 0 .. N
    BY <1>1
  <2>2. (q = k => k - 1 = j) /\ (q # k /\ q >= k => j >= k)
    BY <1>1, <1>3
  <2> HIDE DEF q
  <2> DEFINE c == Place(f, j)  x == u[q]  y == v[q]  w == u[j]  z == v[j]
  <2>3. /\ BlockStep(x, e, c, w) /\ BlockStep(y, e, c, z) /\ BlockTag(e, c) = m.blocks[q].tag
        /\ BlockTag(e, c) = 3 => Written(e, c) \in Seq(VicSet)
    BY <2>1, <1>2
  <2>4. ShapedCea(w) /\ ShapedCea(z)
    BY <2>1, <1>4
  <2>5. q = k => BlockTag(e, c) = 3 /\ n <= Len(Written(e, c)) - ROOM
    BY <2>2, <2>3
  <2>6. j >= k => Alike(w, z, n)
    BY <1>6
  <2> HIDE DEF c, x, y, w, z
  <2>7. q >= k => Alike(w, z, n) \/ (BlockTag(e, c) = 3 /\ n <= Len(Written(e, c)) - ROOM)
    <3>1. q >= k /\ q # k => Alike(w, z, n)
      BY <2>2, <2>6, Zenon
    <3> QED BY <3>1, <2>5, Zenon
  <2>8. q >= k => Alike(x, y, n)
    BY <2>3, <2>4, <2>7, BlockAlike
  <2> QED BY <2>1, <2>8 DEF q, x, y
<1> HIDE DEF T
<1>7. N \in T
  <2>1. N \in Nat /\ N \in 0 .. N
    BY <1>1
  <2>2. \A j \in 0 .. N - 1 : j \in T => j + 1 \in T
    BY <1>6
  <2>3. 0 .. N \subseteq T
    BY <2>1, <2>2, <1>5, Induction
  <2> QED BY <2>1, <2>3
<1>8. N >= k
  BY <1>1, <1>3
<1>9. Alike(u[N], v[N], n)
  BY <1>7, <1>8 DEF T
<1> QED BY <1>9 DEF N

(* What is printed of an audio format does not depend on the old one: the  *)
(* field that is not written is not printed.                               *)
LEMMA SadSame ==
  ASSUME NEW b, NEW o, NEW y, NEW z
  PROVE  ShownSad(Sad(b, o, y)) = ShownSad(Sad(b, o, z))
<1> DEFINE g == Bits(b[o], 3, 4)  h == Bits(b[o], 0, 3) + 1  q == Bits(b[o + 1], 0, 7)
           s == Bits(b[o + 2], 0, 3)  t == 8 * b[o + 2]
           l == CASE g = 1 -> s [] g \in 2 .. 8 -> t [] OTHER -> 0
<1>1. ASSUME NEW old PROVE ShownSad(Sad(b, o, old)) = [format |-> g, channels |-> h, freq |-> q, last |-> l]
  <2> DEFINE d == Sad(b, o, old)
             A == IF g = 1 THEN s ELSE old.resolution  B == IF g \in 2 .. 8 THEN t ELSE old.bitrate
  <2>1. d = [format |-> g, channels |-> h, freq |-> q, resolution |-> A, bitrate |-> B]
    BY Zenon DEF Sad
  <2> HIDE DEF g, h, q, s, t, A, B, d
  <2>2. d.format = g /\ d.channels = h /\ d.freq = q /\ d.resolution = A /\ d.bitrate = B
    BY <2>1
  <2>3. (CASE g = 1 -> A [] g \in 2 .. 8 -> B [] OTHER -> 0) = l
    <3>1. CASE g = 1
      <4>1. g \notin 2 .. 8
        BY <3>1
      <4> QED BY <3>1, <4>1, Zenon DEF A
    <3>2. CASE g \in 2 .. 8
      <4>1. g # 1
        BY <3>2
      <4> QED BY <3>2, <4>1, Zenon DEF B
    <3>3. CASE g # 1 /\ g \notin 2 .. 8
      BY <3>3, Zenon
    <3> QED BY <3>1, <3>2, <3>3
  <2>4. ShownSad(d) = [format |-> g, channels |-> h, freq |-> q,
                       last |-> CASE g = 1 -> A [] g \in 2 .. 8 -> B [] OTHER -> 0]
    BY <2>2 DEF ShownSad
  <2> HIDE DEF l
  <2>5. ShownSad(d) = [format |-> g, channels |-> h, freq |-> q, last |-> l]
    BY <2>3, <2>4, Zenon
  <2> QED BY <2>5, Zenon DEF d
<1> HIDE DEF g, h, q, s, t, l
<1> QED BY <1>1

ShownAudio(d) == [j \in 1 .. d.nr_sad |-> ShownSad(d.sad[j])]

(* Nor does what is printed of all of them.                                *)
LEMMA AudioSame ==
  ASSUME NEW b, NEW c, BlockLength(b, c) \in 0 .. 31, NEW y, NEW z
  PROVE  ShownAudio(Audio(b, c, y)) = ShownAudio(Audio(b, c, z))
<1> DEFINE n == BlockLength(b, c) \div 3
<1>1. n \in 0 .. 10
  <2> DEFINE l == BlockLength(b, c)
  <2>1. l \in 0 .. 31
    OBVIOUS
  <2> HIDE DEF l
  <2>2. l \div 3 \in 0 .. 10
    BY <2>1
  <2> QED BY <2>2 DEF l
<1>2. ASSUME NEW old
      PROVE  ShownAudio(Audio(b, c, old)) = [j \in 1 .. n |-> ShownSad(Sad(b, c + 3 * j - 2, y.sad[j]))]
  <2> DEFINE d == Audio(b, c, old)
  <2>1. d.nr_sad = n /\ d.sad = [j \in 1 .. 10 |-> IF j <= n THEN Sad(b, c + 3 * j - 2, old.sad[j]) ELSE old.sad[j]]
    BY DEF Audio
  <2> HIDE DEF n, d
  <2>2. ASSUME NEW j \in 1 .. n PROVE ShownSad(d.sad[j]) = ShownSad(Sad(b, c + 3 * j - 2, y.sad[j]))
    <3>1. j \in 1 .. 10 /\ j <= n
      BY <1>1
    <3> DEFINE s == Sad(b, c + 3 * j - 2, old.sad[j])
    <3>2. d.sad[j] = s
      BY <2>1, <3>1
    <3>3. ShownSad(s) = ShownSad(Sad(b, c + 3 * j - 2, y.sad[j]))
      BY SadSame
    <3> QED BY <3>2, <3>3
  <2>3. ShownAudio(d) = [j \in 1 .. n |-> ShownSad(d.sad[j])]
    BY <2>1 DEF ShownAudio
  <2>4. ShownAudio(d) = [j \in 1 .. n |-> ShownSad(Sad(b, c + 3 * j - 2, y.sad[j]))]
    BY <2>2, <2>3, Zenon
  <2> QED BY <2>4 DEF d, n
<1> HIDE DEF n
<1> DEFINE Z == [j \in 1 .. n |-> ShownSad(Sad(b, c + 3 * j - 2, y.sad[j]))]
<1> HIDE DEF Z
<1>3. ShownAudio(Audio(b, c, y)) = Z /\ ShownAudio(Audio(b, c, z)) = Z
  BY <1>2, Zenon DEF Z
<1> QED BY <1>3

SameOrOld(v, w, z) == v = w \/ w.vic_3d = z

(* The 3D formats are the old ones only if their length is 0.              *)
LEMMA FieldsSame ==
  ASSUME NEW b, NEW hv, NEW y, NEW z
  PROVE  /\ SameOrOld(Fields3d(b, hv, TRUE, y), Fields3d(b, hv, TRUE, z), z)
         /\ Fields3d(b, hv, FALSE, y).present_3d = FALSE
<1>1. Fields3d(b, hv, FALSE, y).present_3d = FALSE
  BY DEF Fields3d
<1>2. CASE Bits(b[hv + 1], 0, 5) = 0
  <2>1. Fields3d(b, hv, TRUE, z).vic_3d = z
    BY <1>2 DEF Fields3d
  <2> QED BY <2>1, <1>1, Zenon DEF SameOrOld
<1>3. CASE Bits(b[hv + 1], 0, 5) # 0
  <2>1. Fields3d(b, hv, TRUE, y) = Fields3d(b, hv, TRUE, z)
    BY <1>3 DEF Fields3d
  <2> QED BY <2>1, <1>1, Zenon DEF SameOrOld
<1> QED BY <1>2, <1>3

(* The formats behind the array are the same if what is found there is.    *)
LEMMA FormatsSame ==
  ASSUME NEW w, w.vic_3d \in Seq(VicSet), NEW s, DOMAIN s = 1 .. 3, NEW t, DOMAIN t = 1 .. 3,
         \A j \in 1 .. 3 : j <= Len(w.vic_3d) - ROOM => s[j] = t[j]
  PROVE  Shown3d(w, s) = Shown3d(w, t)
<1> DEFINE l == Len(w.vic_3d)  d == w.vic_3d
           F(x) == [q \in DOMAIN d |-> IF q - ROOM \in DOMAIN x THEN x[q - ROOM] ELSE d[q]]
<1>1. l \in Nat /\ DOMAIN d = 1 .. l
  BY LenProperties
<1>2. \A x : Shown3d(w, x) = IF l <= ROOM THEN w ELSE [w EXCEPT !.vic_3d = F(x)]
  BY Zenon DEF Shown3d
<1>3. \A j \in 1 .. 3 : j <= l - ROOM => s[j] = t[j]
  OBVIOUS
<1> HIDE DEF l, d
<1>4. ASSUME NEW q \in DOMAIN d
      PROVE  (IF q - ROOM \in DOMAIN s THEN s[q - ROOM] ELSE d[q]) = (IF q - ROOM \in DOMAIN t THEN t[q - ROOM] ELSE d[q])
  <2>1. q \in 1 .. l
    BY <1>1
  <2>2. ASSUME q - ROOM \in 1 .. 3 PROVE s[q - ROOM] = t[q - ROOM]
    <3> DEFINE j == q - ROOM
    <3>1. j \in 1 .. 3 /\ j <= l - ROOM
      BY <2>1, <2>2, <1>1 DEF ROOM
    <3> HIDE DEF j
    <3>2. s[j] = t[j]
      BY <3>1, <1>3
    <3> QED BY <3>2 DEF j
  <2> QED BY <2>2, Zenon
<1>5. F(s) = F(t)
  BY <1>4, Zenon
<1> HIDE DEF F
<1> QED BY <1>2, <1>5, Zenon

(* What is printed of a vendor block is not of the old one, unless the 3D  *)
(* formats were not written: s and t are what is found behind their array. *)
LEMMA VendorSame ==
  ASSUME NEW b, NEW c, NEW y, "ieee_reg_id" \in DOMAIN y, NEW z, "ieee_reg_id" \in DOMAIN z,
         z.video.vic_3d = << >>, NEW list \in Seq(VicSet), Vendor(b, c, z).video.vic_3d = list,
         NEW s, DOMAIN s = 1 .. 3, NEW t, DOMAIN t = 1 .. 3, \A j \in 1 .. 3 : j <= Len(list) - ROOM => s[j] = t[j],
         Settled(<<3, ShownVendor(Vendor(b, c, z), t)>>)
  PROVE  ShownVendor(Vendor(b, c, y), s) = ShownVendor(Vendor(b, c, z), t)
<1> DEFINE n == BlockLength(b, c)
           fields == IF n >= 8 THEN b[c + 8] ELSE 0
           pr == Has(fields, 128)  il == Has(fields, 64)  hd == Has(fields, 32)
           second == c + 9 + IF pr THEN 2 ELSE 0
           hv == second + IF il THEN 2 ELSE 0
           addr == <<Bits(b[c + 4], 4, 4), Bits(b[c + 4], 0, 4), Bits(b[c + 5], 4, 4), Bits(b[c + 5], 0, 4)>>
           flags == IF n < 6 THEN {} ELSE
                      Flags(b[c + 6], [ai |-> 128, bpp48 |-> 64, bpp36 |-> 32, bpp30 |-> 16,
                                       ycbcr444 |-> 8, dvi_dual |-> 1])
           clock == IF n >= 7 THEN 5 * b[c + 7] ELSE 0
           pl == Latency(b, c + 9, pr)  sl == Latency(b, second, il)
           other == <<b[c + 1], b[c + 2], b[c + 3]>> # <<3, 12, 0>>
           R(video) == [ieee_reg_id |-> 3075, ext_len |-> n, addr |-> addr, flags |-> flags, max_tmds_clk |-> clock,
                        p_latency |-> pl, i_latency |-> sl, hdmi_video |-> hd, video |-> video]
<1>1. ASSUME NEW old
      PROVE  /\ other => Vendor(b, c, old) = [old EXCEPT !.ieee_reg_id = 0]
             /\ ~other => Vendor(b, c, old) = R(Fields3d(b, hv, hd, old.video.vic_3d))
  <2>1. Vendor(b, c, old) = IF other THEN [old EXCEPT !.ieee_reg_id = 0] ELSE R(Fields3d(b, hv, hd, old.video.vic_3d))
    BY DEF Vendor
  <2> HIDE DEF other, R
  <2> QED BY <2>1, Zenon
<1>2. hd \in BOOLEAN
  BY DEF Has
<1> HIDE DEF n, fields, pr, il, hd, addr, flags, clock, pl, sl, hv, second, other
<1>3. CASE other
  <2>1. ASSUME NEW old, "ieee_reg_id" \in DOMAIN old, NEW g
        PROVE  ShownVendor(Vendor(b, c, old), g) = [ieee_reg_id |-> 0]
    <3> DEFINE v == Vendor(b, c, old)
    <3>1. v = [old EXCEPT !.ieee_reg_id = 0]
      BY <1>1, <1>3
    <3> HIDE DEF v
    <3>2. v.ieee_reg_id = 0
      BY <3>1, <2>1
    <3>3. ShownVendor(v, g) = [ieee_reg_id |-> 0]
      BY <3>2, Zenon DEF ShownVendor
    <3> QED BY <3>3 DEF v
  <2> QED BY <2>1
<1>4. CASE ~other
  <2>2. ASSUME NEW w
        PROVE  /\ R(w).ieee_reg_id # 0 /\ R(w).hdmi_video = hd /\ R(w).video = w
               /\ \A v : [R(w) EXCEPT !.video = v] = R(v)
    OBVIOUS
  <2> HIDE DEF R
  <2>1. Vendor(b, c, y) = R(Fields3d(b, hv, hd, y.video.vic_3d)) /\ Vendor(b, c, z) = R(Fields3d(b, hv, hd, z.video.vic_3d))
    BY <1>1, <1>4, Zenon
  <2>3. ASSUME NEW w, NEW g PROVE ShownVendor(R(w), g) = R(IF hd THEN Shown3d(w, g) ELSE [present_3d |-> w.present_3d])
    <3> DEFINE q == R(w)
    <3>1. q.ieee_reg_id # 0 /\ q.hdmi_video = hd /\ q.video = w /\ \A v : [q EXCEPT !.video = v] = R(v)
      BY <2>2
    <3> HIDE DEF q
    <3> DEFINE v == IF q.hdmi_video THEN Shown3d(q.video, g) ELSE [present_3d |-> q.video.present_3d]
    <3>2. ShownVendor(q, g) = [q EXCEPT !.video = v]
      BY <3>1, Zenon DEF ShownVendor
    <3>3. v = IF hd THEN Shown3d(w, g) ELSE [present_3d |-> w.present_3d]
      BY <3>1, Zenon
    <3> HIDE DEF v
    <3>4. ShownVendor(q, g) = R(v)
      BY <3>1, <3>2, Zenon
    <3> QED BY <3>3, <3>4, Zenon DEF q
  <2> DEFINE v == Fields3d(b, hv, hd, y.video.vic_3d)  w == Fields3d(b, hv, hd, z.video.vic_3d)
  <2>4. CASE hd = TRUE
    <3> DEFINE o == ShownVendor(R(w), t)  x == Shown3d(w, t)
    <3>1. v = w \/ w.vic_3d = z.video.vic_3d
      <4> DEFINE Y == y.video.vic_3d  Z == z.video.vic_3d
      <4> HIDE DEF Y, Z
      <4>1. SameOrOld(Fields3d(b, hv, TRUE, Y), Fields3d(b, hv, TRUE, Z), Z)
        BY FieldsSame, Zenon
      <4>2. SameOrOld(Fields3d(b, hv, hd, Y), Fields3d(b, hv, hd, Z), Z)
        BY <2>4, <4>1, Zenon
      <4> QED BY <4>2, Zenon DEF Y, Z, SameOrOld
    <3> HIDE DEF v, w
    <3>2. o = R(x)
      BY <2>3, <2>4, Zenon
    <3>7. w.vic_3d = list
      BY <2>1, <2>2 DEF w
    <3>8. w.vic_3d = << >> => x = w
      <4>1. Len(<< >>) <= ROOM
        BY DEF ROOM
      <4> QED BY <4>1, Zenon DEF Shown3d
    <3> HIDE DEF x
    <3>3. o.ieee_reg_id # 0 /\ o.hdmi_video = TRUE /\ o.video = x
      BY <2>2, <2>4, <3>2
    <3>4. Settled(<<3, o>>)
      BY <2>1 DEF w
    <3> HIDE DEF o
    <3>5. x.vic_3d # << >>
      <4> DEFINE d == <<3, o>>
      <4>1. d[1] = 3 /\ d[2] = o /\ Settled(d)
        BY <3>4
      <4> HIDE DEF d
      <4>2. Tags.vendor = 3
        BY DEF Tags
      <4>3. d[1] = Tags.vendor /\ d[2].ieee_reg_id # 0 /\ d[2].hdmi_video => d[2].video.vic_3d # << >>
        BY <4>1, Zenon DEF Settled
      <4> QED BY <3>3, <4>1, <4>2, <4>3, Zenon
    <3>6. v = w
      <4>1. w.vic_3d # << >>
        BY <3>5, <3>8
      <4> QED BY <4>1, <3>1
    <3>9. Shown3d(w, s) = Shown3d(w, t)
      <4>1. w.vic_3d \in Seq(VicSet) /\ \A j \in 1 .. 3 : j <= Len(w.vic_3d) - ROOM => s[j] = t[j]
        BY <3>7
      <4> QED BY <4>1, FormatsSame
    <3>10. ShownVendor(R(v), s) = R(Shown3d(w, s)) /\ ShownVendor(R(w), t) = R(Shown3d(w, t))
      BY <2>3, <2>4, <3>6, Zenon
    <3>11. ShownVendor(R(v), s) = ShownVendor(R(w), t)
      BY <3>9, <3>10, Zenon
    <3>12. Vendor(b, c, y) = R(v) /\ Vendor(b, c, z) = R(w)
      BY <2>1, Zenon DEF v, w
    <3> QED BY <3>11, <3>12, Zenon
  <2>5. CASE hd = FALSE
    <3>1. v.present_3d = FALSE /\ w.present_3d = FALSE
      <4>1. ASSUME NEW x PROVE Fields3d(b, hv, hd, x).present_3d = FALSE
        <5>1. Fields3d(b, hv, FALSE, x).present_3d = FALSE
          BY FieldsSame, Zenon
        <5> QED BY <2>5, <5>1, Zenon
      <4> QED BY <4>1, Zenon
    <3> HIDE DEF v, w
    <3>2. ShownVendor(R(v), s) = R([present_3d |-> v.present_3d]) /\ ShownVendor(R(w), t) = R([present_3d |-> w.present_3d])
      BY <2>3, <2>5, Zenon
    <3>3. ShownVendor(R(v), s) = ShownVendor(R(w), t)
      BY <3>1, <3>2
    <3> QED BY <2>1, <3>3 DEF v, w
  <2> QED BY <1>2, <2>4, <2>5
<1> QED BY <1>3, <1>4

ShownIs(x, k, tag) ==
  /\ tag = 1 => ShownBlock(x, k) = <<1, ShownAudio(x.db_audio)>>
  /\ tag = 2 => ShownBlock(x, k) = <<2, x.db_video>>
  /\ tag = 3 => ShownBlock(x, k) = <<3, ShownVendor(x.db_vsdb_hdmi, Behind(x))>>
  /\ tag = 4 => ShownBlock(x, k) = <<4, x.db_speaker>>
  /\ tag = 5 => ShownBlock(x, k) = <<5>>
  /\ tag = 7 /\ x.dbe_tags[k] = 0 => ShownBlock(x, k) = <<7, 0, x.db_vcdb>>
  /\ tag = 7 /\ x.dbe_tags[k] # 0 => ShownBlock(x, k) = <<7, x.dbe_tags[k]>>

(* What edid_print_cea prints of a block with a tag.                       *)
LEMMA ShownBlocks ==
  ASSUME NEW x, NEW k, NEW tag, x.dbc_tags[k] = tag
  PROVE  ShownIs(x, k, tag)
<1>1. Tags.audio = 1 /\ Tags.video = 2 /\ Tags.vendor = 3 /\ Tags.speaker = 4 /\ Tags.extended = 7
  BY DEF Tags
<1> DEFINE A == <<tag, [j \in 1 .. x.db_audio.nr_sad |-> ShownSad(x.db_audio.sad[j])]>>
           V == <<tag, x.db_video>>  W == <<tag, ShownVendor(x.db_vsdb_hdmi, Behind(x))>>  S == <<tag, x.db_speaker>>
           E == <<tag, 0, x.db_vcdb>>  F == <<tag, x.dbe_tags[k]>>  O == <<tag>>
<1>2. ShownBlock(x, k) =
        CASE tag = 1 -> A [] tag = 2 -> V [] tag = 3 -> W [] tag = 4 -> S
          [] tag = 7 /\ x.dbe_tags[k] = 0 -> E [] tag = 7 /\ x.dbe_tags[k] # 0 -> F [] OTHER -> O
  BY <1>1 DEF ShownBlock
<1>3. A = <<tag, ShownAudio(x.db_audio)>>
  BY DEF ShownAudio
<1>4. V = <<tag, x.db_video>> /\ W = <<tag, ShownVendor(x.db_vsdb_hdmi, Behind(x))>> /\ S = <<tag, x.db_speaker>>
      /\ E = <<tag, 0, x.db_vcdb>> /\ F = <<tag, x.dbe_tags[k]>> /\ O = <<tag>>
  OBVIOUS
<1> HIDE DEF A, V, W, S, E, F, O
<1>5. /\ tag = 1 => ShownBlock(x, k) = A
      /\ tag = 2 => ShownBlock(x, k) = V
      /\ tag = 3 => ShownBlock(x, k) = W
      /\ tag = 4 => ShownBlock(x, k) = S
      /\ tag = 5 => ShownBlock(x, k) = O
      /\ tag = 7 /\ x.dbe_tags[k] = 0 => ShownBlock(x, k) = E
      /\ tag = 7 /\ x.dbe_tags[k] # 0 => ShownBlock(x, k) = F
  BY <1>2
<1> QED BY <1>3, <1>4, <1>5, Zenon DEF ShownIs

(* What the decoder leaves of the struct.                                  *)
Leaves(x, w) == x.dbe_tags = w.dbe_tags /\ x.db_vcdb = w.db_vcdb /\ x.db_vsdb_hdmi = w.db_vsdb_hdmi

FirstIs(x, w, e, n) ==
  /\ x.db_colorimetry = w.db_colorimetry
  /\ x.detailed_timing[1] = IF 1 <= n THEN DetailedTiming(e, Dtd(e) + 18 * (1 - 1), FALSE) ELSE w.detailed_timing[1]

(* The head and the timings of the extension leave what the walk has       *)
(* written, but for the first timings.                                     *)
LEMMA CeaLeaves ==
  ASSUME NEW m, IsMonitor(m), NEW e, NEW f, Extended128(e, m, f), NEW old, ShapedCea(old)
  PROVE  /\ \E u : /\ WalksBlocks(u, e, m, f, CeaHead(e, old)) /\ Leaves(edid_decode_cea(e, 128, old), u[Len(m.blocks)])
                   /\ FirstIs(edid_decode_cea(e, 128, old), u[Len(m.blocks)], e, m.native)
         /\ Leaves(CeaHead(e, old), old)
<1> DEFINE n == Len(m.blocks)  cea == CeaHead(e, old)  w == CeaWalked(e, old)  x == edid_decode_cea(e, 128, old)
           times == [j \in DOMAIN w.detailed_timing \cup (1 .. w.nr_dtd) |->
                       IF j <= w.nr_dtd THEN DetailedTiming(e, Dtd(e) + 18 * (j - 1), FALSE) ELSE w.detailed_timing[j]]
<1>1. PICK u : WalksBlocks(u, e, m, f, cea) /\ w = u[n]
  BY MonitorWalk
<1>2. ShapedCea(cea)
  BY HeadIs
<1>3. Leaves(cea, old)
  BY DEF CeaHead, ShapedCea, CeaFields, Leaves
<1>4. x = [w EXCEPT !.detailed_timing = times]
  <2>1. times = CeaTimes(e, old)
    BY Zenon DEF CeaTimes
  <2>3. Dtd(e) # 0
    BY PlacesAre
  <2>2. x = [w EXCEPT !.detailed_timing = CeaTimes(e, old)]
    BY <2>3, CeaIs
  <2> HIDE DEF x, w, times
  <2> QED BY <2>1, <2>2
<1>5. n \in 1 .. 62
  BY PlacesAre
<1>9. FinalCea(x, e, m, f)
  BY CeaDecoded
<1> HIDE DEF cea, w, x, times
<1>6. ShapedCea(w)
  <2>1. n \in 0 .. n
    BY <1>5
  <2> QED BY <2>1, <1>1, <1>2, WalkSteps
<1>7. Leaves(x, w)
  BY <1>4, <1>6 DEF ShapedCea, CeaFields, Leaves
<1>10. x.db_colorimetry = w.db_colorimetry /\ x.detailed_timing = times /\ x.nr_dtd = w.nr_dtd
  BY <1>4, <1>6 DEF ShapedCea, CeaFields
<1>11. w.nr_dtd = m.native
  BY <1>9, <1>10 DEF FinalCea
<1>12. times[1] = IF 1 <= w.nr_dtd THEN DetailedTiming(e, Dtd(e) + 18 * (1 - 1), FALSE) ELSE w.detailed_timing[1]
  <2>1. 1 \in DOMAIN w.detailed_timing
    BY <1>6 DEF ShapedCea
  <2>2. 1 \in DOMAIN w.detailed_timing \cup (1 .. w.nr_dtd)
    BY <2>1, Zenon
  <2> QED BY <2>2, Zenon DEF times
<1>13. FirstIs(x, w, e, m.native)
  BY <1>10, <1>11, <1>12, Zenon DEF FirstIs
<1>8. Leaves(x, u[n]) /\ FirstIs(x, u[n], e, m.native)
  BY <1>1, <1>7, <1>13
<1> QED BY <1>1, <1>3, <1>8 DEF cea, x

(* A struct that nothing has been written to.                              *)
FreshCea(cea) ==
  /\ ShapedCea(cea) /\ cea.db_vsdb_hdmi.video.vic_3d = << >>
  /\ \A k \in 1 .. 62 : cea.dbe_tags[k] \notin ExtendedTags

(* What is found behind the array: as many formats as have been written.   *)
LEMMA BehindSame ==
  ASSUME NEW m, IsMonitor(m), NEW e, NEW f, Extended128(e, m, f), NEW old, ShapedCea(old), NEW new, ShapedCea(new),
         NEW k \in 1 .. Len(m.blocks), m.blocks[k].tag = 3,
         NEW j \in 1 .. 3, j <= Len(Written(e, Place(f, k - 1))) - ROOM
  PROVE  Behind(edid_decode_cea(e, 128, old))[j] = Behind(edid_decode_cea(e, 128, new))[j]
<1> DEFINE x == edid_decode_cea(e, 128, old)  y == edid_decode_cea(e, 128, new)
           g == CeaHead(e, old)  h == CeaHead(e, new)  n == Len(m.blocks)
<1>1. PICK u : WalksBlocks(u, e, m, f, g) /\ Leaves(x, u[n]) /\ FirstIs(x, u[n], e, m.native)
  BY CeaLeaves
<1>2. PICK v : WalksBlocks(v, e, m, f, h) /\ Leaves(y, v[n]) /\ FirstIs(y, v[n], e, m.native)
  BY CeaLeaves
<1>3. ShapedCea(g) /\ ShapedCea(h)
  BY HeadIs
<1> HIDE DEF x, y, g, h
<1>4. j \in Nat
  OBVIOUS
<1>5. Alike(u[n], v[n], j)
  BY <1>1, <1>2, <1>3, <1>4, VendorAlike
<1> DEFINE w == u[n]  z == v[n]
<1>6. /\ x.db_vcdb = w.db_vcdb /\ y.db_vcdb = z.db_vcdb
      /\ x.db_colorimetry = w.db_colorimetry /\ y.db_colorimetry = z.db_colorimetry
  BY <1>1, <1>2, Zenon DEF Leaves, FirstIs
<1> DEFINE T == DetailedTiming(e, Dtd(e) + 18 * (1 - 1), FALSE)
<1>7. /\ x.detailed_timing[1] = IF 1 <= m.native THEN T ELSE w.detailed_timing[1]
      /\ y.detailed_timing[1] = IF 1 <= m.native THEN T ELSE z.detailed_timing[1]
  BY <1>1, <1>2, Zenon DEF FirstIs
<1>8. /\ j >= 1 => w.db_colorimetry = z.db_colorimetry /\ w.db_vcdb.quant_range_sel = z.db_vcdb.quant_range_sel
      /\ j >= 2 => w.db_vcdb.pt = z.db_vcdb.pt /\ w.db_vcdb.it = z.db_vcdb.it /\ w.db_vcdb.ce = z.db_vcdb.ce
      /\ j >= 3 => /\ w.detailed_timing[1].pixel_clock = z.detailed_timing[1].pixel_clock
                   /\ w.detailed_timing[1].width = z.detailed_timing[1].width
                   /\ w.detailed_timing[1].height = z.detailed_timing[1].height
  BY <1>5, Zenon DEF Alike
<1> HIDE DEF w, z, T, n
<1> DEFINE S(a) == a.detailed_timing[1]
           F1(a) == [vic_2d |-> a.db_colorimetry[1], struct_3d |-> a.db_colorimetry[2], detail_3d |-> a.db_vcdb.quant_range_sel]
           F2(a) == [vic_2d |-> a.db_vcdb.pt, struct_3d |-> a.db_vcdb.it, detail_3d |-> a.db_vcdb.ce]
           F3(a) == [vic_2d |-> S(a).pixel_clock, struct_3d |-> S(a).width, detail_3d |-> S(a).height]
<1>9. \A a : Behind(a) = <<F1(a), F2(a), F3(a)>>
  BY Zenon DEF Behind
<1>10. j >= 1 => F1(x) = F1(y)
  BY <1>6, <1>8, Zenon
<1>11. j >= 2 => F2(x) = F2(y)
  BY <1>6, <1>8, Zenon
<1>12. j >= 3 => F3(x) = F3(y)
  <2>1. j >= 3 => S(x).pixel_clock = S(y).pixel_clock /\ S(x).width = S(y).width /\ S(x).height = S(y).height
    <3>1. CASE 1 <= m.native
      BY <1>7, <3>1, Zenon
    <3>2. CASE ~(1 <= m.native)
      BY <1>7, <1>8, <3>2, Zenon
    <3> QED BY <3>1, <3>2
  <2> QED BY <2>1, Zenon
<1> HIDE DEF F1, F2, F3
<1>13. Behind(x)[j] = Behind(y)[j]
  <2>1. \A a : Behind(a)[1] = F1(a) /\ Behind(a)[2] = F2(a) /\ Behind(a)[3] = F3(a)
    BY <1>9
  <2>2. CASE j = 1
    <3>1. F1(x) = F1(y)
      BY <2>2, <1>10
    <3> QED BY <2>1, <2>2, <3>1
  <2>3. CASE j = 2
    <3>1. F2(x) = F2(y)
      BY <2>3, <1>11
    <3> QED BY <2>1, <2>3, <3>1
  <2>4. CASE j = 3
    <3>1. F3(x) = F3(y)
      BY <2>4, <1>12
    <3> QED BY <2>1, <2>4, <3>1
  <2> QED BY <2>2, <2>3, <2>4
<1> QED BY <1>13 DEF x, y

(* The decoded vendor blocks of two structs are printed the same.          *)
LEMMA VendorsSame ==
  ASSUME NEW m, IsMonitor(m), NEW e, NEW f, Extended128(e, m, f), NEW old, ShapedCea(old),
         NEW new, FreshCea(new), NEW k \in 1 .. Len(m.blocks), m.blocks[k].tag = 3,
         NEW x, x = edid_decode_cea(e, 128, old), NEW d, d = edid_decode_cea(e, 128, new),
         Settled(<<3, ShownVendor(d.db_vsdb_hdmi, Behind(d))>>)
  PROVE  ShownVendor(x.db_vsdb_hdmi, Behind(x)) = ShownVendor(d.db_vsdb_hdmi, Behind(d))
<1> DEFINE n == Len(m.blocks)  c == Place(f, k - 1)
<1>1. ASSUME NEW cea, ShapedCea(cea)
      PROVE  edid_decode_cea(e, 128, cea).db_vsdb_hdmi = Vendor(e, c, cea.db_vsdb_hdmi)
  <2> DEFINE h == CeaHead(e, cea)  g == edid_decode_cea(e, 128, cea)
  <2>1. PICK u : WalksBlocks(u, e, m, f, h) /\ Leaves(g, u[n])
    BY <1>1, CeaLeaves
  <2>2. Leaves(h, cea)
    BY <1>1, CeaLeaves
  <2>3. ShapedCea(h) /\ h.dbc_tags = << >>
    BY <1>1, HeadIs
  <2> HIDE DEF h, g
  <2>4. u[n].db_vsdb_hdmi = Vendor(e, c, h.db_vsdb_hdmi)
    BY <2>1, <2>3, VendorOnce
  <2>5. g.db_vsdb_hdmi = Vendor(e, c, cea.db_vsdb_hdmi)
    BY <2>1, <2>2, <2>4 DEF Leaves
  <2> QED BY <2>5 DEF g
<1> DEFINE y == old.db_vsdb_hdmi  z == new.db_vsdb_hdmi  list == Written(e, c)  s == Behind(x)  t == Behind(d)
           block == m.blocks[k]
<1>2. /\ "ieee_reg_id" \in DOMAIN y /\ "ieee_reg_id" \in DOMAIN z /\ z.video.vic_3d = << >> /\ ShapedCea(new)
      /\ "video" \in DOMAIN z
  BY DEF FreshCea, ShapedCea
<1>3. x.db_vsdb_hdmi = Vendor(e, c, y)
  BY <1>1
<1>4. d.db_vsdb_hdmi = Vendor(e, c, z)
  BY <1>1, <1>2
<1>5. Settled(<<3, ShownVendor(Vendor(e, c, z), t)>>)
  BY <1>4
<1>7. DOMAIN s = 1 .. 3 /\ DOMAIN t = 1 .. 3
  BY DEF Behind
<1>8. ASSUME NEW j \in 1 .. 3, j <= Len(list) - ROOM PROVE s[j] = t[j]
  BY <1>2, <1>8, BehindSame
<1>9. WritesList(e, c, block)
  <2>1. Lies(e, m, f, k)
    BY BlockLies
  <2>2. c \in 132 .. 255 /\ IsBlock(block) /\ BlockAt(e, c, block) /\ block.tag = 3
    BY <2>1 DEF Lies
  <2> HIDE DEF c, block
  <2>4. \A a \in 132 .. 255 : a \in Nat
    OBVIOUS
  <2>3. c \in Nat
    BY <2>2, <2>4, Zenon
  <2> QED BY <2>2, <2>3, VendorWrites
<1>10. list \in Seq(VicSet) /\ Vendor(e, c, z).video.vic_3d = list
  <2>1. list \in Seq(VicSet) /\ ((KeepsList(e, c) /\ list = << >>) \/ TakesList(e, c, list))
    BY <1>9, Zenon DEF WritesList
  <2>2. CASE KeepsList(e, c) /\ list = << >>
    <3>1. Vendor(e, c, z).video.vic_3d = z.video.vic_3d
      BY <2>2, <1>2, Zenon DEF KeepsList
    <3> QED BY <3>1, <2>1, <2>2, <1>2, Zenon
  <2>3. CASE TakesList(e, c, list)
    BY <2>1, <2>3, <1>2, Zenon DEF TakesList
  <2> QED BY <2>1, <2>2, <2>3
<1> HIDE DEF c, y, z, list, s, t
<1>6. ShownVendor(Vendor(e, c, y), s) = ShownVendor(Vendor(e, c, z), t)
  BY <1>2, <1>5, <1>7, <1>8, <1>10, VendorSame
<1> QED BY <1>3, <1>4, <1>6 DEF s, t

(* The extended blocks of two structs have the same tags and, with the tag *)
(* 0, the same capabilities.                                               *)
LEMMA ExtendedSame ==
  ASSUME NEW m, IsMonitor(m), NEW e, NEW f, Extended128(e, m, f), NEW old, ShapedCea(old),
         NEW new, FreshCea(new), NEW k \in 1 .. Len(m.blocks), m.blocks[k].tag = 7,
         edid_decode_cea(e, 128, new).dbe_tags[k] \in ExtendedTags
  PROVE  LET x == edid_decode_cea(e, 128, old)  y == edid_decode_cea(e, 128, new) IN
         x.dbe_tags[k] = y.dbe_tags[k] /\ (y.dbe_tags[k] = 0 => x.db_vcdb = y.db_vcdb)
<1> DEFINE n == Len(m.blocks)  c == Place(f, k - 1)  s == e[c + 1]
           x == edid_decode_cea(e, 128, old)  y == edid_decode_cea(e, 128, new)
           g == CeaHead(e, old)  h == CeaHead(e, new)
<1>1. PICK u : WalksBlocks(u, e, m, f, g) /\ Leaves(x, u[n])
  BY CeaLeaves
<1>2. ShapedCea(new)
  BY DEF FreshCea
<1>3. PICK v : WalksBlocks(v, e, m, f, h) /\ Leaves(y, v[n])
  BY <1>2, CeaLeaves
<1>4. Leaves(h, new)
  BY <1>2, CeaLeaves
<1>5. ShapedCea(g) /\ g.dbc_tags = << >> /\ ShapedCea(h) /\ h.dbc_tags = << >>
  BY <1>2, HeadIs
<1>6. n \in 1 .. 62
  BY PlacesAre
<1>7. y.dbe_tags[k] \in ExtendedTags
  OBVIOUS
<1> HIDE DEF x, y, g, h
<1>8. u[n].dbe_tags[k] = IF s \in ExtendedTags THEN s ELSE g.dbe_tags[k]
  BY <1>1, <1>5, DbeOnce
<1>9. v[n].dbe_tags[k] = IF s \in ExtendedTags THEN s ELSE h.dbe_tags[k]
  BY <1>3, <1>5, DbeOnce
<1>10. h.dbe_tags[k] \notin ExtendedTags
  <2>1. k \in 1 .. n
    OBVIOUS
  <2> HIDE DEF n
  <2>2. k \in 1 .. 62
    BY <1>6, <2>1
  <2> QED BY <2>2, <1>4 DEF FreshCea, Leaves
<1> HIDE DEF s
<1>11. s \in ExtendedTags
  BY <1>3, <1>7, <1>9, <1>10 DEF Leaves
<1>12. x.dbe_tags[k] = s /\ y.dbe_tags[k] = s
  BY <1>1, <1>3, <1>8, <1>9, <1>11 DEF Leaves
<1>13. s = 0 => u[n].db_vcdb = v[n].db_vcdb
  <2> SUFFICES ASSUME s = 0 PROVE u[n].db_vcdb = v[n].db_vcdb
    OBVIOUS
  <2>1. e[Place(f, k - 1) + 1] = 0
    BY DEF s
  <2> QED BY <2>1, <1>1, <1>3, <1>5, VcdbAgree
<1>14. s = 0 => x.db_vcdb = y.db_vcdb
  BY <1>1, <1>3, <1>13 DEF Leaves
<1>15. x.dbe_tags[k] = y.dbe_tags[k] /\ (y.dbe_tags[k] = 0 => x.db_vcdb = y.db_vcdb)
  BY <1>12, <1>14
<1> QED BY <1>15 DEF x, y

(* Each data block is printed the same, whatever the struct has held.      *)
LEMMA BlockSame ==
  ASSUME NEW m, IsMonitor(m), NEW e, NEW f, Extended128(e, m, f), NEW old, ShapedCea(old),
         NEW new, FreshCea(new), NEW k \in 1 .. Len(m.blocks),
         Settled(ShownBlock(edid_decode_cea(e, 128, new), k))
  PROVE  ShownBlock(edid_decode_cea(e, 128, old), k) = ShownBlock(edid_decode_cea(e, 128, new), k)
<1> DEFINE x == edid_decode_cea(e, 128, old)  y == edid_decode_cea(e, 128, new)
           tag == m.blocks[k].tag  c == Place(f, k - 1)
<1>1. ShapedCea(new)
  BY DEF FreshCea
<1>2. FinalCea(x, e, m, f) /\ FinalCea(y, e, m, f)
  BY <1>1, CeaDecoded
<1>3. Lies(e, m, f, k)
  BY BlockLies
<1>4. tag \in {1, 2, 3, 4, 5, 7} /\ BlockLength(e, c) \in 0 .. 31
  BY <1>3, Zenon DEF Lies, BlockAt
<1>5. Settled(ShownBlock(y, k))
  OBVIOUS
<1> DEFINE V == ShownVendor(x.db_vsdb_hdmi, Behind(x)) = ShownVendor(y.db_vsdb_hdmi, Behind(y))
           E == x.dbe_tags[k] = y.dbe_tags[k] /\ (y.dbe_tags[k] = 0 => x.db_vcdb = y.db_vcdb)
<1>6. tag = 3 /\ Settled(<<3, ShownVendor(y.db_vsdb_hdmi, Behind(y))>>) => V
  BY VendorsSame
<1>7. tag = 7 /\ y.dbe_tags[k] \in ExtendedTags => E
  BY ExtendedSame
<1> SUFFICES ShownBlock(x, k) = ShownBlock(y, k)
  OBVIOUS
<1> HIDE DEF x, y, tag, c
<1>8. x.dbc_tags[k] = tag /\ y.dbc_tags[k] = tag /\ Holding(x, e, c, tag) /\ Holding(y, e, c, tag)
  BY <1>2 DEF FinalCea, TagsAre, tag, c
<1>9. ShownIs(x, k, tag) /\ ShownIs(y, k, tag)
  BY <1>8, ShownBlocks
<1>10. CASE tag = 1
  <2>1. PICK p1 : x.db_audio = Audio(e, c, p1)
    BY <1>8, <1>10 DEF Holding
  <2>2. PICK p2 : y.db_audio = Audio(e, c, p2)
    BY <1>8, <1>10 DEF Holding
  <2>3. ShownAudio(Audio(e, c, p1)) = ShownAudio(Audio(e, c, p2))
    BY <1>4, AudioSame
  <2>4. ShownBlock(x, k) = <<1, ShownAudio(x.db_audio)>> /\ ShownBlock(y, k) = <<1, ShownAudio(y.db_audio)>>
    BY <1>9, <1>10, Zenon DEF ShownIs
  <2> QED BY <2>1, <2>2, <2>3, <2>4, Zenon
<1>11. CASE tag = 2
  <2>1. x.db_video = y.db_video
    BY <1>8, <1>11 DEF Holding
  <2>2. ShownBlock(x, k) = <<2, x.db_video>> /\ ShownBlock(y, k) = <<2, y.db_video>>
    BY <1>9, <1>11, Zenon DEF ShownIs
  <2> QED BY <2>1, <2>2, Zenon
<1>12. CASE tag = 3
  <2>1. /\ ShownBlock(y, k) = <<3, ShownVendor(y.db_vsdb_hdmi, Behind(y))>>
        /\ ShownBlock(x, k) = <<3, ShownVendor(x.db_vsdb_hdmi, Behind(x))>>
    BY <1>9, <1>12 DEF ShownIs
  <2>2. V
    BY <2>1, <1>5, <1>6, <1>12, Zenon
  <2> QED BY <2>1, <2>2, Zenon DEF V
<1>13. CASE tag = 4
  <2>1. x.db_speaker = y.db_speaker
    BY <1>8, <1>13 DEF Holding
  <2>2. ShownBlock(x, k) = <<4, x.db_speaker>> /\ ShownBlock(y, k) = <<4, y.db_speaker>>
    BY <1>9, <1>13, Zenon DEF ShownIs
  <2> QED BY <2>1, <2>2, Zenon
<1>14. CASE tag = 5
  <2>1. ShownBlock(x, k) = <<5>> /\ ShownBlock(y, k) = <<5>>
    BY <1>9, <1>14, Zenon DEF ShownIs
  <2> QED BY <2>1, Zenon
<1>15. CASE tag = 7
  <2> DEFINE s == y.dbe_tags[k]  z == ShownBlock(y, k)
  <2>1. (s = 0 => z = <<7, 0, y.db_vcdb>>) /\ (s # 0 => z = <<7, s>>)
    BY <1>9, <1>15 DEF ShownIs
  <2>2. (x.dbe_tags[k] = 0 => ShownBlock(x, k) = <<7, 0, x.db_vcdb>>)
        /\ (x.dbe_tags[k] # 0 => ShownBlock(x, k) = <<7, x.dbe_tags[k]>>)
    BY <1>9, <1>15 DEF ShownIs
  <2>3. Settled(z)
    BY <1>5
  <2> HIDE DEF s, z
  <2>4. z[1] = 7 /\ z[2] = s
    BY <2>1
  <2>5. Tags.extended = 7
    BY DEF Tags
  <2>6. s \in ExtendedTags
    <3>1. z[1] = Tags.extended => z[2] \in ExtendedTags
      BY <2>3, Zenon DEF Settled
    <3> QED BY <3>1, <2>4, <2>5
  <2>7. E
    BY <2>6, <1>7, <1>15 DEF s
  <2>8. ShownBlock(x, k) = z
    <3>1. x.dbe_tags[k] = s /\ (s = 0 => x.db_vcdb = y.db_vcdb)
      BY <2>7, Zenon DEF E, s
    <3> QED BY <2>1, <2>2, <3>1, Zenon
  <2> QED BY <2>8 DEF z
<1> HIDE DEF V, E
<1>16. ShownBlock(x, k) = ShownBlock(y, k)
  <2>1. tag = 1 \/ tag = 2 \/ tag = 3 \/ tag = 4 \/ tag = 5 \/ tag = 7
    BY <1>4
  <2> QED BY <2>1, <1>10, <1>11, <1>12, <1>13, <1>14, <1>15, Zenon
<1> QED BY <1>16

(* What of the extension is printed the same.                              *)
CeaAgrees(c, d) ==
  /\ c.timings = d.timings
  /\ Len(c.blocks) = Len(d.blocks)
  /\ \A k \in DOMAIN d.blocks : Settled(d.blocks[k]) => c.blocks[k] = d.blocks[k]

(* And all of the extension.                                               *)
LEMMA CeaSame ==
  ASSUME NEW m, IsMonitor(m), NEW e, NEW f, Extended128(e, m, f), NEW old, ShapedCea(old),
         NEW new, FreshCea(new)
  PROVE  CeaAgrees(edid_print_cea(edid_decode_cea(e, 128, old)), edid_print_cea(edid_decode_cea(e, 128, new)))
<1> DEFINE n == Len(m.blocks)  t == m.native
           x == edid_decode_cea(e, 128, old)  y == edid_decode_cea(e, 128, new)
           c == edid_print_cea(x)  d == edid_print_cea(y)
<1>1. ShapedCea(new)
  BY DEF FreshCea
<1>2. FinalCea(x, e, m, f) /\ FinalCea(y, e, m, f)
  BY <1>1, CeaDecoded
<1>3. n \in Nat /\ t \in Nat
  <2> DEFINE l == Len(m.timings)
  <2>1. n \in 1 .. 62 /\ l \in 0 .. 6 /\ t \in 0 .. l
    BY DEF Extended128
  <2> HIDE DEF n, l, t
  <2> QED BY <2>1
<1>4. ASSUME NEW k \in 1 .. n, Settled(ShownBlock(y, k)) PROVE ShownBlock(x, k) = ShownBlock(y, k)
  BY <1>4, BlockSame
<1> HIDE DEF x, y
<1>5. /\ DOMAIN x.dbc_tags = 1 .. n /\ x.nr_dtd = t /\ DOMAIN y.dbc_tags = 1 .. n /\ y.nr_dtd = t
      /\ \A j \in 1 .. t : x.detailed_timing[j] = y.detailed_timing[j]
  BY <1>2 DEF FinalCea
<1>6. /\ c.blocks = [k \in DOMAIN x.dbc_tags |-> ShownBlock(x, k)]
      /\ c.timings = [k \in 1 .. x.nr_dtd |-> ShownTiming(x.detailed_timing[k])]
      /\ d.blocks = [k \in DOMAIN y.dbc_tags |-> ShownBlock(y, k)]
      /\ d.timings = [k \in 1 .. y.nr_dtd |-> ShownTiming(y.detailed_timing[k])]
  BY DEF edid_print_cea
<1> HIDE DEF n, t, c, d
<1>7. c.blocks = [k \in 1 .. n |-> ShownBlock(x, k)] /\ d.blocks = [k \in 1 .. n |-> ShownBlock(y, k)]
  BY <1>5, <1>6
<1>8. Len(c.blocks) = n /\ Len(d.blocks) = n /\ DOMAIN d.blocks = 1 .. n
  BY <1>3, <1>7, LenIs
<1>9. c.timings = d.timings
  <2>1. c.timings = [k \in 1 .. t |-> ShownTiming(x.detailed_timing[k])]
    BY <1>5, <1>6
  <2>2. d.timings = [k \in 1 .. t |-> ShownTiming(y.detailed_timing[k])]
    BY <1>5, <1>6
  <2> QED BY <2>1, <2>2, <1>5
<1>10. ASSUME NEW k \in DOMAIN d.blocks, Settled(d.blocks[k]) PROVE c.blocks[k] = d.blocks[k]
  <2>1. k \in 1 .. n
    BY <1>8
  <2>2. d.blocks[k] = ShownBlock(y, k) /\ c.blocks[k] = ShownBlock(x, k)
    BY <1>7, <2>1
  <2>3. Settled(ShownBlock(y, k))
    BY <1>10, <2>2
  <2> QED BY <2>1, <2>2, <2>3, <1>4
<1>11. CeaAgrees(c, d)
  BY <1>8, <1>9, <1>10 DEF CeaAgrees
<1> QED BY <1>11 DEF c, d, x, y

(***************************************************************************)
(* The base block.                                                         *)
(***************************************************************************)
Printable == {"id", "date", "ver", "input", "screen", "gamma", "feature", "timing_1_2", "extensions"}
PrintFields == Printable \cup {"standard_timings", "descriptors", "cea", "others"}

(* The fields of the base block that are always written.                   *)
LEMMA BaseSame ==
  ASSUME NEW b, Checked(b), NEW old, NEW new
  PROVE  LET x == Printout(b, old)  y == Printout(b, new) IN
         /\ DOMAIN y = PrintFields
         /\ \A f \in Printable : x[f] = y[f]
<1>1. /\ Base(b, old).id_mfg = Base(b, new).id_mfg /\ Base(b, old).id_prod = Base(b, new).id_prod
      /\ Base(b, old).id_sn = Base(b, new).id_sn /\ Base(b, old).mfg_week = Base(b, new).mfg_week
      /\ Base(b, old).mfg_year = Base(b, new).mfg_year /\ Base(b, old).model_year = Base(b, new).model_year
      /\ Base(b, old).ver = Base(b, new).ver /\ Base(b, old).input = Base(b, new).input
      /\ Base(b, old).screen = Base(b, new).screen /\ Base(b, old).gamma = Base(b, new).gamma
      /\ Base(b, old).feature = Base(b, new).feature /\ Base(b, old).timing_1_2 = Base(b, new).timing_1_2
      /\ Base(b, old).extensions = Base(b, new).extensions
  BY DEF Base
<1> DEFINE v == Base(b, old)  w == Base(b, new)
           i1 == edid_decode_v14(b, old).info  i2 == edid_decode_v14(b, new).info
<1>2. \A f \in InfoFields \ {"ext_tag", "cea_ext"} : i1[f] = v[f]
  BY DecodedHas
<1>3. \A f \in InfoFields \ {"ext_tag", "cea_ext"} : i2[f] = w[f]
  BY DecodedHas
<1> DEFINE x == Printout(b, old)  y == Printout(b, new)
<1>4. x = edid_print_v14(i1) /\ y = edid_print_v14(i2)
  BY DEF Printout
<1> HIDE DEF v, w, i1, i2, x, y
<1>5. /\ i1.id_mfg = i2.id_mfg /\ i1.id_prod = i2.id_prod /\ i1.id_sn = i2.id_sn /\ i1.mfg_week = i2.mfg_week
      /\ i1.mfg_year = i2.mfg_year /\ i1.model_year = i2.model_year /\ i1.ver = i2.ver /\ i1.input = i2.input
      /\ i1.screen = i2.screen /\ i1.gamma = i2.gamma /\ i1.feature = i2.feature
      /\ i1.timing_1_2 = i2.timing_1_2 /\ i1.extensions = i2.extensions
  BY <1>1, <1>2, <1>3 DEF InfoFields, v, w
<1>6. DOMAIN y = PrintFields
  BY <1>4 DEF edid_print_v14, PrintFields, Printable
<1>7. /\ x.id = <<i1.id_mfg, i1.id_prod, i1.id_sn>> /\ x.date = <<i1.mfg_week, i1.mfg_year, i1.model_year>>
      /\ x.ver = i1.ver /\ x.input = i1.input /\ x.screen = i1.screen /\ x.gamma = i1.gamma
      /\ x.feature = i1.feature /\ x.timing_1_2 = i1.timing_1_2 /\ x.extensions = i1.extensions
  BY <1>4 DEF edid_print_v14
<1>8. /\ x.id = y.id /\ x.date = y.date /\ x.ver = y.ver /\ x.input = y.input /\ x.screen = y.screen
      /\ x.gamma = y.gamma /\ x.feature = y.feature /\ x.timing_1_2 = y.timing_1_2 /\ x.extensions = y.extensions
  <2>1. /\ y.id = <<i2.id_mfg, i2.id_prod, i2.id_sn>> /\ y.date = <<i2.mfg_week, i2.mfg_year, i2.model_year>>
        /\ y.ver = i2.ver /\ y.input = i2.input /\ y.screen = i2.screen /\ y.gamma = i2.gamma
        /\ y.feature = i2.feature /\ y.timing_1_2 = i2.timing_1_2 /\ y.extensions = i2.extensions
    BY <1>4 DEF edid_print_v14
  <2> QED BY <1>5, <1>7, <2>1
<1>9. \A f \in Printable : x[f] = y[f]
  BY <1>8 DEF Printable
<1> QED BY <1>6, <1>9, SMTT(30) DEF x, y

(* The modes are all written if none of them begins with 0.                *)
LEMMA ModesSame ==
  ASSUME NEW b, NEW o \in Nat, NEW n \in Nat, ~ZeroMode(b, o, n), NEW y, NEW z
  PROVE  StandardTimings(b, o, n, y) = StandardTimings(b, o, n, z)
<1>1. ASSUME NEW k \in 1 .. n
      PROVE  StandardTiming(b, o + 2 * (k - 1), y[k]) = StandardTiming(b, o + 2 * (k - 1), z[k])
  <2> DEFINE j == k - 1  a == o + 2 * j
  <2>1. j \in 0 .. n - 1
    OBVIOUS
  <2> HIDE DEF j
  <2>2. b[a] # 0
    BY <2>1 DEF ZeroMode
  <2> HIDE DEF a
  <2>3. \A q : StandardTiming(b, a, q) =
                 [horizontal |-> (b[a] + 31) * 8, aspect_ratio |-> Bits(b[a + 1], 6, 2),
                  refresh_rate |-> Bits(b[a + 1], 0, 6) + 60]
    BY <2>2, Zenon DEF StandardTiming
  <2>4. StandardTiming(b, a, y[k]) = StandardTiming(b, a, z[k])
    BY <2>3, Zenon
  <2> QED BY <2>4 DEF a, j
<1> QED BY <1>1, Zenon DEF StandardTimings

(* The other descriptors that are printed by their tag.                    *)
LEMMA DisplayedToo ==
  ASSUME NEW b, NEW o, NEW continuous, NEW old, DOMAIN old = DescriptorFields, b[o] = 0, b[o + 1] = 0
  PROVE  LET d == ShownDescriptor(Descriptor(b, o, continuous, old)) IN
         /\ b[o + 3] = \hfe => d = <<"string", Text(b, o, old.tail)>>
         /\ b[o + 3] = \hf9 => d = <<"dcm">>
         /\ b[o + 3] = \hf8 => d = <<"cvt">>
         /\ b[o + 3] = \h10 => d = <<"dummy">>
<1> DEFINE D == Descriptor(b, o, continuous, old)
<1>1. D = DisplayDescriptor(b, o, continuous, old)
  BY DEF Descriptor
<1> HIDE DEF D
<1>0. [old EXCEPT !.type = "display"].tail = old.tail
  BY DEF DescriptorFields
<1>2. CASE b[o + 3] = \hfe
  <2>1. D = [[old EXCEPT !.type = "display"] EXCEPT !.tag = "string", !.u = Text(b, o, old.tail)]
    BY <1>0, <1>1, <1>2 DEF DisplayDescriptor
  <2>2. D.type = "display" /\ D.tag = "string" /\ D.u = Text(b, o, old.tail)
    BY <2>1 DEF DescriptorFields
  <2>3. ShownDescriptor(D) = <<"string", Text(b, o, old.tail)>>
    BY <2>2 DEF ShownDescriptor
  <2> QED BY <1>2, <2>3 DEF D
<1>3. CASE b[o + 3] = \hf9
  <2> DEFINE X == <<b[o + 5]>> \o [n \in 1 .. 6 |-> Word(b, o + 4 + 2 * n)]
  <2>1. D = [[old EXCEPT !.type = "display"] EXCEPT !.tag = "dcm", !.dcm = X]
    BY <1>1, <1>3 DEF DisplayDescriptor
  <2> HIDE DEF X
  <2>2. D.type = "display" /\ D.tag = "dcm"
    BY <2>1 DEF DescriptorFields
  <2>3. ShownDescriptor(D) = <<"dcm">>
    BY <2>2 DEF ShownDescriptor
  <2> QED BY <1>3, <2>3 DEF D
<1>4. CASE b[o + 3] = \hf8
  <2> DEFINE e == [old EXCEPT !.type = "display"]
             X == [n \in 0 .. 3 |-> CvtTiming(b, o + 6 + 3 * n, e.cvt[n])]
  <2>1. D = [e EXCEPT !.tag = "cvt", !.cvt = X]
    BY <1>1, <1>4 DEF DisplayDescriptor
  <2> HIDE DEF X
  <2>2. D.type = "display" /\ D.tag = "cvt"
    BY <2>1 DEF DescriptorFields
  <2>3. ShownDescriptor(D) = <<"cvt">>
    BY <2>2 DEF ShownDescriptor
  <2> QED BY <1>4, <2>3 DEF D
<1>5. CASE b[o + 3] = \h10
  <2>1. D = [[old EXCEPT !.type = "display"] EXCEPT !.tag = "dummy"]
    BY <1>1, <1>5 DEF DisplayDescriptor
  <2>2. D.type = "display" /\ D.tag = "dummy"
    BY <2>1 DEF DescriptorFields
  <2>3. ShownDescriptor(D) = <<"dummy">>
    BY <2>2 DEF ShownDescriptor
  <2> QED BY <1>5, <2>3 DEF D
<1> QED BY <1>2, <1>3, <1>4, <1>5 DEF D

(* Its own characters are the same with any bytes behind them.             *)
LEMMA TextSame ==
  ASSUME NEW b, NEW o, NEW g, g \in {"serial", "string", "name"}, NEW s, NEW t
  PROVE  Own(<<g, Text(b, o, s)>>) = Own(<<g, Text(b, o, t)>>)
<1> DEFINE c == Little(b, o + 5, 13)  ends == {j \in 1 .. 13 : c[j] \in {0, 10}}
           part == SubSeq(c, 1, (CHOOSE j \in ends : \A h \in ends : j <= h) - 1)
<1>1. ASSUME NEW x
      PROVE  Text(b, o, x) = IF ends = {} THEN [text |-> c, behind |-> x] ELSE [text |-> part, behind |-> "end"]
  BY Zenon DEF Text
<1>2. Len(c) = 13
  <2> DEFINE S == {b[o + 5 + j - 1] : j \in 1 .. 13}  n == 13
  <2>1. c = [j \in 1 .. n |-> b[o + 5 + j - 1]]
    BY DEF Little
  <2>2. \A j \in 1 .. n : b[o + 5 + j - 1] \in S
    OBVIOUS
  <2>4. n \in Nat
    OBVIOUS
  <2> HIDE DEF S, n, c
  <2>3. c \in [1 .. n -> S]
    BY <2>1, <2>2
  <2>5. Len(c) = n
    BY <2>3, <2>4, LenIs
  <2> QED BY <2>5 DEF n
<1> HIDE DEF c, ends, part
<1>3. CASE ends = {}
  <2>1. ASSUME NEW x PROVE Own(<<g, Text(b, o, x)>>) = <<g, c>>
    <3> DEFINE y == Text(b, o, x)  d == <<g, y>>
    <3>1. y.text = c
      BY <1>1, <1>3
    <3> HIDE DEF y
    <3>2. d[1] = g /\ d[2] = y
      OBVIOUS
    <3> HIDE DEF d
    <3>3. IsText13(d)
      BY <1>2, <3>1, <3>2, Zenon DEF IsText13
    <3>4. Own(d) = <<g, c>>
      BY <3>1, <3>2, <3>3, Zenon DEF Own
    <3> QED BY <3>4 DEF d, y
  <2> QED BY <2>1, Zenon
<1>4. CASE ends # {}
  <2>1. Text(b, o, s) = Text(b, o, t)
    BY <1>1, <1>4, Zenon
  <2> QED BY <2>1, Zenon
<1> QED BY <1>3, <1>4

(* A descriptor with a known tag is printed the same, but for modes that   *)
(* are not written.                                                        *)
LEMMA DescriptorSame ==
  ASSUME NEW b, NEW o \in Nat, NEW continuous, NEW old, DOMAIN old = DescriptorFields,
         NEW new, DOMAIN new = DescriptorFields,
         KnownTag(b, o), ~(b[o + 3] = \hfa /\ ZeroMode(b, o + 5, 6))
  PROVE  Own(ShownDescriptor(Descriptor(b, o, continuous, old))) = Own(ShownDescriptor(Descriptor(b, o, continuous, new)))
<1> DEFINE x == ShownDescriptor(Descriptor(b, o, continuous, old))
           y == ShownDescriptor(Descriptor(b, o, continuous, new))
<1>1. CASE b[o] # 0 \/ b[o + 1] # 0
  <2>1. ASSUME NEW d, DOMAIN d = DescriptorFields
        PROVE  ShownDescriptor(Descriptor(b, o, continuous, d)) = <<"timing", ShownTiming(DetailedTiming(b, o, TRUE))>>
    <3> DEFINE D == Descriptor(b, o, continuous, d)  T == DetailedTiming(b, o, TRUE)
    <3>1. D = Fill([d EXCEPT !.type = "timing"], T)
      BY <1>1 DEF Descriptor
    <3> HIDE DEF T, D
    <3>2. D.type = "timing" /\ D.u = T
      BY <3>1, <2>1 DEF DescriptorFields, Fill
    <3>3. ShownDescriptor(D) = <<"timing", ShownTiming(T)>>
      BY <3>2 DEF ShownDescriptor
    <3> QED BY <3>3 DEF D, T
  <2> QED BY <2>1
<1>2. CASE b[o] = 0 /\ b[o + 1] = 0
  <2> DEFINE t == b[o + 3]
  <2>1. t \in (\hf7 .. \hff) \cup {\h10}
    BY <1>2 DEF KnownTag
  <2>2. \/ t = \hf7 \/ t = \hf8 \/ t = \hf9 \/ t = \hfa \/ t = \hfb \/ t = \hfc \/ t = \hfd \/ t = \hfe
        \/ t = \hff \/ t = \h10
    <3> HIDE DEF t
    <3> QED BY <2>1
  <2> DEFINE L == [RangeLimits(b, o, continuous) EXCEPT !.more = << >>]
             P == <<WhitePoint(b, o + 5), WhitePoint(b, o + 10)>>
             E == Established(b, o + 6, 44) \cap (0 .. 16)
             S == Used(6, StandardTimings(b, o + 5, 6, old.extra))
  <2>3. t = \hfa => StandardTimings(b, o + 5, 6, old.extra) = StandardTimings(b, o + 5, 6, new.extra)
    <3> SUFFICES ASSUME t = \hfa
                 PROVE  StandardTimings(b, o + 5, 6, old.extra) = StandardTimings(b, o + 5, 6, new.extra)
      OBVIOUS
    <3>1. ~ZeroMode(b, o + 5, 6) /\ o + 5 \in Nat /\ 6 \in Nat
      OBVIOUS
    <3> QED BY <3>1, ModesSame
  <2>4. /\ t = \hfc => x = <<"name", Text(b, o, old.tail)>>
        /\ t = \hff => x = <<"serial", Text(b, o, old.tail)>>
        /\ t = \hfd => x = <<"limits", L>>
        /\ t = \hfb => x = <<"color", P>>
        /\ t = \hfa => x = <<"standard", S>>
        /\ t = \hf7 => x = <<"established", E>>
    BY <1>2, Displayed
  <2>5. /\ t = \hfe => x = <<"string", Text(b, o, old.tail)>>
        /\ t = \hf9 => x = <<"dcm">>
        /\ t = \hf8 => x = <<"cvt">>
        /\ t = \h10 => x = <<"dummy">>
    BY <1>2, DisplayedToo
  <2>6. /\ t = \hfc => y = <<"name", Text(b, o, new.tail)>>
        /\ t = \hff => y = <<"serial", Text(b, o, new.tail)>>
        /\ t = \hfd => y = <<"limits", L>>
        /\ t = \hfb => y = <<"color", P>>
        /\ t = \hfa => y = <<"standard", Used(6, StandardTimings(b, o + 5, 6, new.extra))>>
        /\ t = \hf7 => y = <<"established", E>>
    BY <1>2, Displayed
  <2>7. /\ t = \hfe => y = <<"string", Text(b, o, new.tail)>>
        /\ t = \hf9 => y = <<"dcm">>
        /\ t = \hf8 => y = <<"cvt">>
        /\ t = \h10 => y = <<"dummy">>
    BY <1>2, DisplayedToo
  <2>8. t = \hfa => y = <<"standard", S>>
    BY <2>3, <2>6
  <2> SUFFICES Own(x) = Own(y)
    OBVIOUS
  <2> HIDE DEF t, x, y, L, P, E, S
  <2>9. ASSUME NEW g \in {"serial", "string", "name"}, x = <<g, Text(b, o, old.tail)>>, y = <<g, Text(b, o, new.tail)>>
        PROVE  Own(x) = Own(y)
    BY <2>9, TextSame
  <2>10. CASE t = \hfc
    <3>1. "name" \in {"serial", "string", "name"}
      OBVIOUS
    <3> QED BY <3>1, <2>4, <2>6, <2>9, <2>10
  <2>11. CASE t = \hff
    <3>1. "serial" \in {"serial", "string", "name"}
      OBVIOUS
    <3> QED BY <3>1, <2>4, <2>6, <2>9, <2>11
  <2>12. CASE t = \hfe
    <3>1. "string" \in {"serial", "string", "name"}
      OBVIOUS
    <3> QED BY <3>1, <2>5, <2>7, <2>9, <2>12
  <2>13. CASE t # \hfc /\ t # \hff /\ t # \hfe
    <3>1. x = y
      BY <2>2, <2>4, <2>5, <2>6, <2>7, <2>8, <2>13
    <3> QED BY <3>1
  <2> QED BY <2>10, <2>11, <2>12, <2>13
<1> QED BY <1>1, <1>2

(* A struct filled with 9 holds no extended tag.                           *)
LEMMA UntouchedFresh == FreshCea(Untouched(9).cea_ext) /\ Shaped(Untouched(9))
<1> DEFINE cea == Untouched(9).cea_ext
<1>1. Shaped(Untouched(9))
  BY UntouchedShape
<1>2. ShapedCea(cea)
  BY <1>1 DEF Shaped
<1>3. cea.db_vsdb_hdmi.video.vic_3d = << >> /\ cea.dbe_tags = [k \in 1 .. 62 |-> 9]
  BY DEF Untouched
<1>4. 9 \notin ExtendedTags
  BY DEF ExtendedTags
<1> HIDE DEF cea
<1>5. \A k \in 1 .. 62 : cea.dbe_tags[k] \notin ExtendedTags
  BY <1>3, <1>4
<1>6. FreshCea(cea)
  BY <1>2, <1>3, <1>5 DEF FreshCea
<1> QED BY <1>1, <1>6 DEF cea

(* The base block is printed the same.                                     *)
LEMMA BaseAgrees ==
  ASSUME NEW b, Checked(b), NEW old, Shaped(old), NEW new, Shaped(new)
  PROVE  Agree(Printout(b, old), Printout(b, new), b)
<1> DEFINE x == Printout(b, old)  y == Printout(b, new)
           S == StandardTimings(b, 38, 8, old.standard_timings)  T == StandardTimings(b, 38, 8, new.standard_timings)
           D(k) == ShownDescriptor(Descriptor(b, 36 + 18 * k, Continuous(b), old.descriptors[k]))
           E(k) == ShownDescriptor(Descriptor(b, 36 + 18 * k, Continuous(b), new.descriptors[k]))
<1>1. DOMAIN y = PrintFields /\ \A f \in Printable : x[f] = y[f]
  BY BaseSame
<1>2. x.standard_timings = Used(8, S) /\ x.descriptors = [k \in 1 .. 4 |-> D(k)]
  BY PrintHas
<1>3. y.standard_timings = Used(8, T) /\ y.descriptors = [k \in 1 .. 4 |-> E(k)]
  BY PrintHas
<1>4. ~ZeroMode(b, 38, 8) => S = T
  <2>1. 38 \in Nat /\ 8 \in Nat
    OBVIOUS
  <2> QED BY <2>1, ModesSame
<1>5. ASSUME NEW k \in 1 .. 4, NEW o, o = 36 + 18 * k,
             KnownTag(b, o) /\ ~(b[o + 3] = \hfa /\ ZeroMode(b, o + 5, 6))
      PROVE  Own(D(k)) = Own(E(k))
  <2> DEFINE g == old.descriptors[k]  h == new.descriptors[k]  con == Continuous(b)
  <2>1. DOMAIN g = DescriptorFields /\ DOMAIN h = DescriptorFields
    BY DEF Shaped
  <2>2. o \in Nat
    BY <1>5
  <2> HIDE DEF g, h, con
  <2>3. Own(ShownDescriptor(Descriptor(b, o, con, g))) = Own(ShownDescriptor(Descriptor(b, o, con, h)))
    BY <1>5, <2>1, <2>2, DescriptorSame
  <2> QED BY <1>5, <2>3, Zenon DEF g, h, con
<1> HIDE DEF x, y, S, T, D, E
<1>6. ASSUME NEW f \in DOMAIN y \ {"standard_timings", "descriptors", "cea", "others"} PROVE x[f] = y[f]
  <2>1. f \in Printable
    BY <1>1 DEF PrintFields
  <2> QED BY <2>1, <1>1
<1>7. ~ZeroMode(b, 38, 8) => x.standard_timings = y.standard_timings
  BY <1>2, <1>3, <1>4
<1>8. ASSUME NEW k \in 1 .. 4
      PROVE  LET o == 36 + 18 * k IN
             KnownTag(b, o) /\ ~(b[o + 3] = \hfa /\ ZeroMode(b, o + 5, 6)) => Own(x.descriptors[k]) = Own(y.descriptors[k])
  <2> DEFINE o == 36 + 18 * k
  <2> SUFFICES ASSUME KnownTag(b, o) /\ ~(b[o + 3] = \hfa /\ ZeroMode(b, o + 5, 6))
               PROVE  Own(x.descriptors[k]) = Own(y.descriptors[k])
    BY Zenon
  <2>1. o = 36 + 18 * k
    OBVIOUS
  <2> HIDE DEF o
  <2>2. Own(D(k)) = Own(E(k))
    BY <1>5, <2>1
  <2> QED BY <2>2, <1>2, <1>3
<1>9. Agree(x, y, b)
  BY <1>6, <1>7, <1>8, Zenon DEF Agree
<1> QED BY <1>9 DEF x, y

(* The extension is printed of the struct it has been decoded into.        *)
LEMMA CeaPrinted ==
  ASSUME NEW b, NEW old, Checked(b), Extends(b)
  PROVE  Printout(b, old).cea = edid_print_cea(edid_decode_cea(b, 128, old.cea_ext))
<1> DEFINE info == edid_decode_v14(b, old).info  x == Printout(b, old)  c == edid_decode_cea(b, 128, old.cea_ext)
<1>1. Extends(b) => info.ext_tag = 2 /\ info.cea_ext = c
  BY DecodedHas
<1>2. x = edid_print_v14(info)
  BY DEF Printout
<1> SUFFICES x.cea = edid_print_cea(c)
  OBVIOUS
<1> HIDE DEF info, x, c
<1>3. info.ext_tag = 2 /\ info.cea_ext = c
  BY <1>1, Zenon
<1>4. x.cea = IF info.ext_tag = 2 THEN edid_print_cea(info.cea_ext) ELSE << >>
  BY <1>2 DEF edid_print_v14
<1> QED BY <1>3, <1>4

(* Together they are the property of the run.                              *)
LEMMA NoneStale == ASSUME Read, Verified, Decoded, Typed PROVE NothingStale
<1> DEFINE fresh == Printout(edid, Untouched(9))
<1> SUFFICES ASSUME Shown
             PROVE  /\ Agree(printed, fresh, edid)
                    /\ Extends(edid) => CeaAgrees(printed.cea, fresh.cea)
  BY Zenon DEF NothingStale, Agree, CeaAgrees, Printout
<1>1. Checked(edid)
  BY DEF Verified
<1>2. PICK old : Shaped(old) /\ printed = Printout(edid, old)
  BY DEF Decoded
<1> DEFINE new == Untouched(9)
<1>3. FreshCea(new.cea_ext) /\ Shaped(new)
  BY UntouchedFresh
<1> HIDE DEF new
<1>4. Agree(printed, fresh, edid)
  BY <1>1, <1>2, <1>3, BaseAgrees DEF new
<1>5. ASSUME Extends(edid) PROVE CeaAgrees(printed.cea, fresh.cea)
  <2>6. PICK n \in DOMAIN Monitors : \E f : IsMonitor(Monitors[n]) /\ Extended128(edid, Monitors[n], f)
    BY <1>5, OneMonitor DEF Typed
  <2>1. PICK m, f : IsMonitor(m) /\ Extended128(edid, m, f)
    BY <2>6
  <2>2. printed.cea = edid_print_cea(edid_decode_cea(edid, 128, old.cea_ext))
    BY <1>1, <1>2, <1>5, CeaPrinted, Zenon
  <2>3. fresh.cea = edid_print_cea(edid_decode_cea(edid, 128, new.cea_ext))
    BY <1>1, <1>5, CeaPrinted, Zenon DEF new
  <2> DEFINE g == old.cea_ext  h == new.cea_ext
  <2>4. ShapedCea(g) /\ FreshCea(h)
    BY <1>2, <1>3 DEF Shaped
  <2> HIDE DEF g, h
  <2>5. CeaAgrees(edid_print_cea(edid_decode_cea(edid, 128, g)), edid_print_cea(edid_decode_cea(edid, 128, h)))
    BY <2>1, <2>4, CeaSame
  <2> QED BY <2>2, <2>3, <2>5 DEF g, h
<1> QED BY <1>4, <1>5

(* For every list of valid monitors that do not change while their         *)
(* extension is read: what edid_print_v14 prints of the EDID is what it    *)
(* would print had edid_decode_v14 decoded it into a struct filled with 9, *)
(* but for the fields that the code does not write, which NothingStale     *)
(* names.                                                                  *)
THEOREM NothingOldIsPrinted ==
  ASSUME Cuts \subseteq 0 .. 128
  PROVE  Spec => []NothingStale
<1>1. Read /\ Verified /\ Decoded /\ Typed => NothingStale
  BY NoneStale
<1> QED BY <1>1, TypedAlways, PTL
=============================================================================
