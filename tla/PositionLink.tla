---------------------------- MODULE PositionLink ----------------------------
(***************************************************************************)
(* The link between the processor and the decoders of the video side.  All *)
(* characters share one 32-bit port: three bits of id and the packed       *)
(* position.  One decoder per character takes the word whenever the id is  *)
(* its own, on the pixel clock, without any synchronisation: a word that   *)
(* is sampled while it changes may be a mixture of the old and the new.    *)
(*                                                                         *)
(* The refresh handler therefore brackets each word by the same word with  *)
(* id 7, which is nobody's.  init_game writes its words bare, and the      *)
(* handler may run between any two of its accesses.                        *)
(***************************************************************************)
EXTENDS Integers

CONSTANTS
  NGhosts,      \* the characters are 0 .. NGhosts (3 ghosts in the code)
  Positions,    \* the packed positions told apart
  MIXED         \* bits of several words, left by a torn sample

(* The ids are three bits wide and 7 is the guard. *)
ASSUME IdsAssumption == NGhosts \in 0 .. 6
ASSUME MixedAssumption == MIXED \notin Positions

Chars == 0 .. NGhosts
GUARD == 7
Words == [id : 0 .. 7, owner : Chars, position : Positions]

VARIABLES
  packet,       \* bytePacket of each character, in memory
  port,         \* the word on the port
  fresh,        \* the word on the port has not been sampled whole yet
  held,         \* what each decoder holds
  main, sent,   \* main(): next access of init_game, words it has written
  loaded,       \* the packet main() has read and not yet written
  isr,          \* 0: no handler runs; otherwise its next write of the port
  enabled       \* the refresh handler is registered

vars == <<packet, port, fresh, held, main, sent, loaded, isr, enabled>>

Init ==
  /\ packet \in [Chars -> Positions]
  /\ port \in [id : {0}, owner : {0}, position : Positions] /\ fresh = TRUE
  /\ held = [c \in Chars |-> MIXED]
  /\ main = "place" /\ sent = 0 /\ loaded \in Positions
  /\ isr = 0 /\ enabled = FALSE

(***************************************************************************)
(* The port and the decoders.                                              *)
(***************************************************************************)

(* The ids that may be read while the id bits change from a to b. *)
Bit(n, weight) == (n \div weight) % 2
MixedIds(a, b) ==
  {m \in 0 .. 7 : \A w \in {1, 2, 4} : Bit(m, w) \in {Bit(a, w), Bit(b, w)}}

(* What decoder c may hold after a sample of the port changing to word:    *)
(* each of its bits is kept or taken, from the old word or the new.  Bits  *)
(* that all agree come out right.                                          *)
Same(c, word) == word.owner = c /\ word.position = held[c]
Torn(c, word) ==
  IF c \in MixedIds(port.id, word.id) /\ ~(Same(c, port) /\ Same(c, word))
  THEN {held[c], MIXED}
  ELSE {held[c]}

(* A write of the port, and the sample of each decoder that falls into the *)
(* change of its bits.  Between two writes the processor runs several      *)
(* instructions: the pixel clock has sampled the first word whole.         *)
Write(word) ==
  /\ ~fresh
  /\ port' = word /\ fresh' = TRUE
  /\ \E torn \in SUBSET Chars :
       held' = [c \in Chars |-> IF c \in torn /\ MIXED \in Torn(c, word)
                                THEN MIXED ELSE held[c]]

(* The next sample sees the word whole. *)
Sample ==
  /\ fresh
  /\ fresh' = FALSE
  /\ held' = [c \in Chars |-> IF port.id = c THEN port.position ELSE held[c]]
  /\ UNCHANGED <<packet, port, main, sent, loaded, isr, enabled>>

(***************************************************************************)
(* The refresh handler: new positions, then three writes per character.    *)
(***************************************************************************)
Refresh ==
  /\ enabled /\ isr = 0
  /\ packet' \in [Chars -> Positions]
  /\ isr' = 1
  /\ UNCHANGED <<port, fresh, held, main, sent, loaded, enabled>>

LastWrite == 3 * (NGhosts + 1)

(* Slips that the properties must notice (suffix _...): the characters     *)
(* sent in the other order; the guard never lifted; init_game sending one  *)
(* word too many.                                                          *)
HandlerWord_Descending(n) ==
  LET c == NGhosts - (n - 1) \div 3
  IN  [id |-> IF n % 3 = 2 THEN c ELSE GUARD, owner |-> c, position |-> packet[c]]
HandlerWord_NeverReleased(n) ==
  LET c == (n - 1) \div 3
  IN  [id |-> GUARD, owner |-> c, position |-> packet[c]]

HandlerWord(n) ==
  LET c == (n - 1) \div 3
  IN  [id |-> IF n % 3 = 2 THEN c ELSE GUARD, owner |-> c, position |-> packet[c]]

HandlerWrite ==
  /\ isr \in 1 .. LastWrite
  /\ Write(HandlerWord(isr))
  /\ isr' = isr + 1
  /\ UNCHANGED <<packet, main, sent, loaded, enabled>>

HandlerReturn ==
  /\ isr = LastWrite + 1
  /\ isr' = 0
  /\ UNCHANGED <<packet, port, fresh, held, main, sent, loaded, enabled>>

(***************************************************************************)
(* init_game: the words of the characters, each read from memory and then  *)
(* written, and that of the last one twice (the second time in the place   *)
(* of the fifth character, which no decoder shows).                        *)
(***************************************************************************)
Sender == IF sent <= NGhosts THEN sent ELSE NGhosts

PlaceCharacter ==
  /\ isr = 0 /\ main = "place"
  /\ IF sent <= NGhosts
     THEN \E p \in Positions : packet' = [packet EXCEPT ![sent] = p]
     ELSE UNCHANGED packet
  /\ main' = "load"
  /\ UNCHANGED <<port, fresh, held, sent, loaded, isr, enabled>>

LoadPacket ==
  /\ isr = 0 /\ main = "load"
  /\ loaded' = packet[Sender]
  /\ main' = "store"
  /\ UNCHANGED <<packet, port, fresh, held, sent, isr, enabled>>

StorePacket_OnceMore ==
  /\ isr = 0 /\ main = "store"
  /\ Write([id |-> Sender, owner |-> Sender, position |-> loaded])
  /\ IF sent <= NGhosts + 1 THEN sent' = sent + 1 /\ main' = "place"
                            ELSE sent' = 0 /\ main' = "idle"
  /\ UNCHANGED <<packet, loaded, isr, enabled>>

StorePacket ==
  /\ isr = 0 /\ main = "store"
  /\ Write([id |-> Sender, owner |-> Sender, position |-> loaded])
  /\ IF sent <= NGhosts THEN sent' = sent + 1 /\ main' = "place"
                        ELSE sent' = 0 /\ main' = "idle"
  /\ UNCHANGED <<packet, loaded, isr, enabled>>

(* After the first init_game the handler is registered; a later init_game  *)
(* runs with it.                                                           *)
RegisterRefresh ==
  /\ isr = 0 /\ main = "idle" /\ ~enabled
  /\ enabled' = TRUE
  /\ UNCHANGED <<packet, port, fresh, held, main, sent, loaded, isr>>

NewGame ==
  /\ isr = 0 /\ main = "idle" /\ enabled
  /\ main' = "place"
  /\ UNCHANGED <<packet, port, fresh, held, sent, loaded, isr, enabled>>

InitGame == PlaceCharacter \/ LoadPacket \/ StorePacket
Handler == HandlerWrite \/ HandlerReturn

Next == Sample \/ Refresh \/ Handler \/ InitGame \/ RegisterRefresh \/ NewGame

(* The clocks run, and with them the processor; games need not end. *)
Fairness ==
  /\ WF_vars(Sample)
  /\ WF_vars(Refresh) /\ WF_vars(Handler)
  /\ WF_vars(InitGame \/ RegisterRefresh)

Spec == Init /\ [][Next]_vars
FairSpec == Spec /\ Fairness

(***************************************************************************)
(* Properties.                                                             *)
(***************************************************************************)
TypeOK ==
  /\ packet \in [Chars -> Positions]
  /\ port \in Words /\ fresh \in BOOLEAN
  /\ held \in [Chars -> Positions \cup {MIXED}]
  /\ main \in {"place", "load", "store", "idle"} /\ sent \in 0 .. NGhosts + 1
  /\ loaded \in Positions
  /\ isr \in 0 .. LastWrite + 1 /\ enabled \in BOOLEAN

(* Once the handler has moved on from a character its decoder holds the    *)
(* new position until the handler returns: what the torn samples of the    *)
(* later words do to other decoders they do only to those still to come.   *)
SentStaysRight ==
  \A c \in Chars : isr > 3 * c + 3 => held[c] = packet[c]

(* Whatever init_game and torn samples leave in the decoders, again and    *)
(* again they all show the positions in memory.                            *)
CatchesUp == []<>(\A c \in Chars : held[c] = packet[c])
=============================================================================
