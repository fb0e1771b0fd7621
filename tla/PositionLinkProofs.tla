------------------------- MODULE PositionLinkProofs -------------------------
(***************************************************************************)
(* Proofs about PositionLink, for any number of ghosts that the ids allow. *)
(***************************************************************************)
EXTENDS PositionLink, TLAPS

(* Guarding can only turn bits of an id on: what a change between an id    *)
(* and the guard may be mistaken for is an id at least as large.           *)
LEMMA GuardRaisesIds ==
  ASSUME NEW a \in 0 .. 7, NEW m \in 0 .. 7,
         m \in MixedIds(a, GUARD) \/ m \in MixedIds(GUARD, a)
  PROVE  m >= a
<1>1. \A w \in {1, 2, 4} : Bit(m, w) = Bit(a, w) \/ Bit(m, w) = Bit(7, w)
  BY DEF MixedIds, GUARD
<1>2. /\ m % 2 = a % 2 \/ m % 2 = 1
      /\ (m \div 2) % 2 = (a \div 2) % 2 \/ (m \div 2) % 2 = 1
      /\ (m \div 4) % 2 = (a \div 4) % 2 \/ (m \div 4) % 2 = 1
  BY <1>1 DEF Bit
<1>3. \A k \in 0 .. 7 : k = 4 * ((k \div 4) % 2) + 2 * ((k \div 2) % 2) + (k % 2)
  OBVIOUS
<1>4. /\ m % 2 >= a % 2
      /\ (m \div 2) % 2 >= (a \div 2) % 2
      /\ (m \div 4) % 2 >= (a \div 4) % 2
  BY <1>2
<1> QED BY <1>3, <1>4

(* The words of the handler.                                               *)
LEMMA HandlerWords ==
  ASSUME TypeOK, NEW n \in 1 .. LastWrite
  PROVE  LET c == (n - 1) \div 3 IN
         /\ c \in Chars /\ HandlerWord(n) \in Words
         /\ HandlerWord(n).owner = c /\ HandlerWord(n).position = packet[c]
         /\ HandlerWord(n).id = IF n % 3 = 2 THEN c ELSE GUARD
<1> DEFINE c == (n - 1) \div 3
<1>1. NGhosts \in 0 .. 6 /\ n <= 3 * NGhosts + 3
  BY IdsAssumption DEF LastWrite
<1>2. c \in 0 .. NGhosts
  BY <1>1
<1>3. c \in Chars /\ c \in 0 .. 7 /\ packet[c] \in Positions
  BY <1>1, <1>2 DEF Chars, TypeOK
<1> HIDE DEF c
<1>4. HandlerWord(n) = [id |-> IF n % 3 = 2 THEN c ELSE GUARD, owner |-> c, position |-> packet[c]]
  BY DEF HandlerWord, c
<1>5. HandlerWord(n) \in Words
  BY <1>3, <1>4 DEF Words, GUARD
<1> QED BY <1>3, <1>4, <1>5 DEF c

(* What a write leaves in the decoders.                                    *)
LEMMA WriteEffect ==
  ASSUME TypeOK, NEW word, Write(word)
  PROVE  /\ ~fresh /\ fresh' = TRUE /\ port' = word
         /\ held' \in [Chars -> Positions \cup {MIXED}]
         /\ \A c \in Chars : MIXED \notin Torn(c, word) => held'[c] = held[c]
BY DEF Write, TypeOK

LEMMA TypeInit == Init => TypeOK
<1> SUFFICES ASSUME Init PROVE TypeOK
  OBVIOUS
<1>1. 0 \in Chars /\ 0 \in 0 .. NGhosts + 1 /\ 0 \in 0 .. LastWrite + 1
  BY IdsAssumption DEF Chars, LastWrite
<1>2. port \in Words
  <2>1. [id : {0}, owner : {0}, position : Positions] \subseteq Words
    BY <1>1 DEF Words
  <2> QED BY <2>1 DEF Init
<1>3. held \in [Chars -> Positions \cup {MIXED}]
  BY DEF Init
<1> QED BY <1>1, <1>2, <1>3 DEF Init, TypeOK

LEMMA TypeNext == TypeOK /\ [Next]_vars => TypeOK'
<1> SUFFICES ASSUME TypeOK, [Next]_vars PROVE TypeOK'
  OBVIOUS
<1>1. CASE Sample
  <2>1. held' \in [Chars -> Positions \cup {MIXED}]
    BY <1>1 DEF Sample, TypeOK, Words
  <2> QED BY <1>1, <2>1 DEF Sample, TypeOK
<1>2. CASE Refresh
  BY <1>2, IdsAssumption DEF Refresh, TypeOK, LastWrite
<1>3. CASE HandlerWrite
  <2>1. isr \in 1 .. LastWrite /\ isr' \in 0 .. LastWrite + 1
    BY <1>3, IdsAssumption DEF HandlerWrite, LastWrite
  <2>2. port' \in Words /\ fresh' \in BOOLEAN /\ held' \in [Chars -> Positions \cup {MIXED}]
    BY <1>3, <2>1, WriteEffect, HandlerWords DEF HandlerWrite
  <2> QED BY <1>3, <2>1, <2>2 DEF HandlerWrite, TypeOK
<1>4. CASE HandlerReturn
  BY <1>4, IdsAssumption DEF HandlerReturn, TypeOK, LastWrite
<1>5. Sender \in Chars
  BY IdsAssumption DEF Sender, TypeOK, Chars
<1>6. CASE PlaceCharacter
  <2>1. packet' \in [Chars -> Positions]
    BY <1>6 DEF PlaceCharacter, TypeOK
  <2> QED BY <1>6, <2>1 DEF PlaceCharacter, TypeOK
<1>7. CASE LoadPacket
  BY <1>5, <1>7 DEF LoadPacket, TypeOK
<1>8. CASE StorePacket
  <2> DEFINE word == [id |-> Sender, owner |-> Sender, position |-> loaded]
  <2>1. word \in Words
    BY <1>5, IdsAssumption DEF Words, Chars, TypeOK
  <2>2. Write(word)
    BY <1>8 DEF StorePacket
  <2>3. port' \in Words /\ fresh' \in BOOLEAN /\ held' \in [Chars -> Positions \cup {MIXED}]
    BY <2>1, <2>2, WriteEffect
  <2>4. sent' \in 0 .. NGhosts + 1 /\ main' \in {"place", "idle"}
    BY <1>8, IdsAssumption DEF StorePacket, TypeOK
  <2> QED BY <1>8, <2>3, <2>4 DEF StorePacket, TypeOK
<1>9. CASE RegisterRefresh \/ NewGame
  BY <1>9 DEF RegisterRefresh, NewGame, TypeOK
<1>10. CASE UNCHANGED vars
  BY <1>10 DEF vars, TypeOK
<1> QED BY <1>1, <1>2, <1>3, <1>4, <1>6, <1>7, <1>8, <1>9, <1>10 DEF Next, Handler, InitGame

(* The port carries the handler's last word, and a decoder holds its       *)
(* packet as soon as that has been sampled whole.                          *)
PortHolds(n) ==
  /\ port.id = IF n % 3 = 2 THEN (n - 1) \div 3 ELSE GUARD
  /\ port.owner = (n - 1) \div 3
  /\ port.position = packet[(n - 1) \div 3]

LinkInv ==
  /\ \A n \in 1 .. LastWrite : isr = n + 1 => PortHolds(n)
  /\ \A c \in Chars :
       isr > 3 * c + 3 \/ (isr = 3 * c + 3 /\ ~fresh) => held[c] = packet[c]

LEMMA LinkNext == TypeOK /\ LinkInv /\ [Next]_vars => LinkInv'
<1> SUFFICES ASSUME TypeOK, LinkInv, [Next]_vars PROVE LinkInv'
  OBVIOUS
<1>0. isr \in 0 .. LastWrite + 1 /\ LastWrite \in Nat /\ Chars \subseteq 0 .. 6
  BY IdsAssumption DEF TypeOK, LastWrite, Chars
<1>1. CASE Sample
  <2>1. UNCHANGED <<packet, port, isr>>
    BY <1>1 DEF Sample
  <2>2. ASSUME NEW n \in 1 .. LastWrite, isr = n + 1 PROVE PortHolds(n)'
    BY <2>1, <2>2 DEF LinkInv, PortHolds, GUARD
  <2>3. ASSUME NEW c \in Chars, isr > 3 * c + 3 \/ isr = 3 * c + 3
        PROVE  held'[c] = packet[c]
    <3>1. isr - 1 \in 1 .. LastWrite /\ PortHolds(isr - 1)
      BY <1>0, <2>3 DEF LinkInv
    <3>2. held'[c] = IF port.id = c THEN port.position ELSE held[c]
      BY <1>1 DEF Sample
    <3>3. CASE isr = 3 * c + 3
      <4>1. (isr - 1 - 1) \div 3 = c /\ (isr - 1) % 3 = 2
        BY <1>0, <3>3
      <4> QED BY <3>1, <3>2, <4>1 DEF PortHolds
    <3>4. CASE isr > 3 * c + 3
      <4>1. (isr - 1 - 1) \div 3 # c \/ (isr - 1) % 3 # 2
        BY <1>0, <3>4
      <4>2. port.id # c
        BY <1>0, <3>1, <4>1 DEF GUARD, PortHolds
      <4> QED BY <3>2, <3>4, <4>2 DEF LinkInv
    <3> QED BY <2>3, <3>3, <3>4
  <2>4. fresh' = FALSE
    BY <1>1 DEF Sample
  <2> QED BY <2>1, <2>2, <2>3, <2>4 DEF LinkInv
<1>2. CASE HandlerWrite
  <2> DEFINE n == isr
             word == HandlerWord(n)
  <2>1. /\ n \in 1 .. LastWrite /\ isr' = n + 1 /\ packet' = packet /\ Write(word)
    BY <1>2 DEF HandlerWrite
  <2>2. /\ ~fresh /\ fresh' /\ port' = word
        /\ \A c \in Chars : MIXED \notin Torn(c, word) => held'[c] = held[c]
    BY <2>1, WriteEffect
  <2>3. ASSUME NEW k \in 1 .. LastWrite, isr' = k + 1 PROVE PortHolds(k)'
    <3>1. k = n
      BY <2>1, <2>3
    <3>2. /\ port'.id = IF k % 3 = 2 THEN (k - 1) \div 3 ELSE GUARD
          /\ port'.owner = (k - 1) \div 3
          /\ port'.position = packet'[(k - 1) \div 3]
      BY <2>1, <2>2, <3>1, HandlerWords
    <3> QED BY <3>2 DEF PortHolds, GUARD
  <2>4. ASSUME NEW c \in Chars, n + 1 > 3 * c + 3
        PROVE  held'[c] = packet[c]
    <3>1. c \in 0 .. 6 /\ n >= 3 * c + 3 /\ n - 1 \in 1 .. LastWrite /\ n \in 1 .. LastWrite
      BY <1>0, <2>1, <2>4
    <3>2. held[c] = packet[c] /\ PortHolds(n - 1)
      BY <2>2, <3>1 DEF LinkInv
    <3>3. MIXED \notin {held[c]}
      BY <3>2, MixedAssumption DEF TypeOK
    <3>4. CASE n = 3 * c + 3
      <4>1. (n - 1) \div 3 = c /\ (n - 1 - 1) \div 3 = c
        BY <3>1, <3>4
      <4>2. Same(c, word) /\ Same(c, port)
        BY <3>1, <3>2, <4>1, HandlerWords DEF Same, PortHolds
      <4> QED BY <2>2, <3>2, <3>3, <4>2 DEF Torn
    <3>5. CASE n > 3 * c + 3
      <4>1. /\ n % 3 = 2 => (n - 1) \div 3 > c
            /\ (n - 1) % 3 = 2 => (n - 1 - 1) \div 3 > c
            /\ ~(n % 3 = 2 /\ (n - 1) % 3 = 2)
        BY <3>1, <3>5
      <4>2. /\ word.id \in 0 .. 7 /\ port.id \in 0 .. 7
            /\ word.id > c /\ port.id > c /\ (word.id = GUARD \/ port.id = GUARD)
        BY <3>1, <3>2, <4>1, HandlerWords DEF GUARD, PortHolds, TypeOK, Words
      <4>3. c \notin MixedIds(port.id, word.id)
        BY <3>1, <4>2, GuardRaisesIds
      <4> QED BY <2>2, <3>2, <3>3, <4>3 DEF Torn
    <3> QED BY <3>1, <3>4, <3>5
  <2>5. ASSUME NEW c \in Chars, isr' > 3 * c + 3 \/ (isr' = 3 * c + 3 /\ ~fresh')
        PROVE  held'[c] = packet'[c]
    BY <2>1, <2>2, <2>4, <2>5
  <2>6. \A k \in 1 .. LastWrite' : isr' = k + 1 => PortHolds(k)'
    BY <2>3 DEF LastWrite
  <2> QED BY <2>5, <2>6 DEF LinkInv
<1>3. ASSUME isr' \in {0, 1} PROVE LinkInv'
  BY <1>0, <1>3 DEF LinkInv
<1>4. CASE Refresh \/ HandlerReturn
  BY <1>3, <1>4 DEF Refresh, HandlerReturn
<1>5. CASE InitGame \/ RegisterRefresh \/ NewGame
  BY <1>3, <1>5 DEF InitGame, PlaceCharacter, LoadPacket, StorePacket, RegisterRefresh, NewGame
<1>6. CASE UNCHANGED vars
  BY <1>6 DEF vars, LinkInv, PortHolds, GUARD
<1> QED BY <1>1, <1>2, <1>4, <1>5, <1>6 DEF Next, Handler

(* Every variable keeps its type in every reachable state.                 *)
THEOREM LinkTypeCorrect == Spec => []TypeOK
<1> QED BY TypeInit, TypeNext, PTL DEF Spec

(* The order of the handler's words and their guards protect each decoder  *)
(* from the torn samples of the words that follow its own.                 *)
THEOREM DecodersStayRight == Spec => []SentStaysRight
<1>1. Init => LinkInv
  <2>1. Chars \subseteq 0 .. 6
    BY IdsAssumption DEF Chars
  <2> QED BY <2>1 DEF Init, LinkInv
<1>2. LinkInv => SentStaysRight
  BY DEF LinkInv, SentStaysRight
<1> QED BY <1>1, <1>2, TypeInit, TypeNext, LinkNext, PTL DEF Spec
=============================================================================
