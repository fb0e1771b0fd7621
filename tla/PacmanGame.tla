----------------------------- MODULE PacmanGame -----------------------------
(***************************************************************************)
(* pacman_soft_1 running on the Nios II: main() and the five interrupt     *)
(* handlers.  main() builds a game (init_game), registers the handlers and *)
(* then loops for ever: it shows the score and, every SCAN_PERIOD rounds,  *)
(* looks for food; when there is none it calls init_game again, with the   *)
(* interrupts enabled.  The handlers therefore run between any two stores  *)
(* of init_game.  One action of main() is one access to memory shared with *)
(* a handler; a handler is one action, because handlers do not nest and    *)
(* main() does not run meanwhile.                                          *)
(*                                                                         *)
(* The writes to the POSITION port (one per init_position, twelve per      *)
(* refresh) reach only the video decoders, nothing here reads them: they   *)
(* are the subject of module PositionLink.  The fifth character that       *)
(* init_game prepares is never refreshed nor read again, and the collision *)
(* that init_game computes last is recomputed before its first use.        *)
(***************************************************************************)
EXTENDS Movement, FiniteSets, Sequences

CONSTANTS
  NGhosts,           \* ghosts 1 .. NGhosts move by themselves (3 in the code)
  CharBackground,    \* walls of Pac-Man, and the blocks without food
  GhostBackground,   \* walls of the ghosts, and the walls shown
  Start,             \* the block where init_game puts each character
  StartFacing,       \* the orientation it gives it
  SCAN_PERIOD,       \* rounds of the main loop between two looks for food
  StackGarbage,      \* directions the uninitialised charPosition may hold
  OutOfBounds,       \* words an access one past a layer array may yield
  Pressed,           \* the buttons the player uses
  FRAMES_PER_INIT    \* frames that can begin while init_game runs once

Chars == 0 .. NGhosts
Background(c) == IF c = 0 THEN CharBackground ELSE GhostBackground
Dots == Blocks \ CharBackground

(* IRQ numbers of system.h: the lowest pending number is served first. *)
IRQ == [REFRESH |-> 3, LEFT |-> 4, UP |-> 5, DOWN |-> 6, RIGHT |-> 7]
Interrupts == {"REFRESH", "LEFT", "UP", "DOWN", "RIGHT"}
Buttons == Interrupts \ {"REFRESH"}

(* The direction each button handler asks for: the handler of the up       *)
(* button asks for DOWN and that of the down button for UP.                *)
Request == [LEFT |-> "LEFT", UP |-> "DOWN", DOWN |-> "UP", RIGHT |-> "RIGHT"]

ASSUME GhostsAssumption == NGhosts \in Nat
ASSUME WallsAssumption ==
  /\ CharBackground \subseteq Blocks /\ SolidBorder(CharBackground)
  /\ GhostBackground \subseteq Blocks /\ SolidBorder(GhostBackground)
(* No block open to the ghosts is enclosed by walls on its four sides.      *)
ASSUME RoomAssumption ==
  \A b \in Blocks \ GhostBackground :
    \E n \in {<<b[1], b[2] - 1>>, <<b[1] + 1, b[2]>>, <<b[1], b[2] + 1>>, <<b[1] - 1, b[2]>>} :
      n \notin GhostBackground
ASSUME StartAssumption ==
  /\ Start \in [Chars -> Blocks]
  /\ \A c \in Chars : Start[c] \notin Background(c)
  /\ StartFacing \in [Chars -> Orientations]
(* The three digits of the display can show every score of one game. *)
ASSUME DotsAssumption == IsFiniteSet(Dots) /\ Cardinality(Dots) \in 1 .. 999
ASSUME PeriodAssumption == SCAN_PERIOD \in Nat /\ FRAMES_PER_INIT \in Nat
ASSUME OutsideAssumption ==
  /\ StackGarbage \subseteq Directions
  /\ OutOfBounds \subseteq SUBSET Columns
  /\ Pressed \subseteq Buttons

VARIABLES
  chars, food, score,                      \* memory shared with the handlers
  pending, enabled,                        \* edge captures; registered IRQs
  main, ch, line, word, number, whileCounter,  \* main(): next access, locals
  foodData, foodWr, foodMemory,            \* food PIOs and the video memory
  backgroundMemory, display,               \* other outputs
  frames,                                  \* frames begun in this init_game
  torn, stale                              \* history, read by properties only

ram == <<chars, food, score>>
irqs == <<pending, enabled, frames>>
locals == <<ch, line, word, number, whileCounter>>
foodPort == <<foodData, foodWr, foodMemory>>
outputs == <<backgroundMemory, display>>
history == <<torn, stale>>
vars == <<ram, irqs, main, locals, foodPort, outputs, history>>

(* Where main() stands: in init_game, registering handlers, in its loop. *)
Placing == {"posX", "posY", "facing"}
Sending == {"fetch", "data", "address", "strobe", "release"}
InitGame == {"score", "background", "fill"} \cup Placing \cup Sending
Labels == InitGame \cup {"clear", "register", "loop", "show", "scan"}

Booting == "REFRESH" \notin enabled

Init ==
  /\ \E garbage \in [Chars -> StackGarbage] :
       chars = [c \in Chars |-> [x |-> 0, y |-> 0, orientation |-> "WEST",
                                 directionControl |-> garbage[c]]]
  /\ food = {} /\ score = 0
  /\ pending = {} /\ enabled = {}
  /\ main = "score" /\ ch = 0 /\ line = 0 /\ word = {} /\ number = 0
  /\ whileCounter = 0
  /\ foodData = {} /\ foodWr = [line |-> 0, enable |-> FALSE] /\ foodMemory = {}
  /\ backgroundMemory = {} /\ display = <<8, 8, 8>>
  /\ frames = 0 /\ torn = {} /\ stale = {}

(***************************************************************************)
(* The food memory of the video side.  It stores the word of the data PIO  *)
(* at the line of the WR PIO at every clock while the enable bit is set,   *)
(* whichever of the two PIOs was written last.                             *)
(***************************************************************************)
Latch(memory, data, wr) ==
  IF wr.enable THEN Store(memory, wr.line, data) ELSE memory

(***************************************************************************)
(* Hardware edges and interrupt dispatch.                                  *)
(***************************************************************************)

(* A rising edge of the frame signal or a falling edge of a button sets    *)
(* the edge capture bit of its PIO, once until it is cleared.              *)
Edge(i) ==
  /\ i \notin pending
  /\ pending' = pending \cup {i}
  /\ IF i = "REFRESH" /\ main \in InitGame
     THEN frames < FRAMES_PER_INIT /\ frames' = frames + 1
     ELSE UNCHANGED frames
  /\ UNCHANGED <<ram, enabled, main, locals, foodPort, outputs, history>>

(* alt_irq_handler: the registered pending interrupt of lowest number.  The *)
(* handler clears its own capture bit last.                                 *)
Serving(i) ==
  /\ i \in pending \cap enabled
  /\ \A j \in pending \cap enabled : IRQ[i] <= IRQ[j]
  /\ pending' = pending \ {i}

ButtonHandler(b) ==
  /\ Serving(b)
  /\ chars' = [chars EXCEPT ![0].directionControl = Request[b]]
  /\ UNCHANGED <<food, score, enabled, frames, main, locals, foodPort, outputs, history>>

(* A dot is eaten: the word of its line goes to the food memory. *)
EatDot(block, sent, points) ==
  /\ food' = food \ {block}
  /\ foodData' = sent
  /\ foodWr' = [line |-> block[2], enable |-> FALSE]
  /\ foodMemory' = Store(Latch(foodMemory, sent, foodWr), block[2], sent)
  /\ score' = points

(* Slips that the properties must notice, here and below (suffix _...):    *)
(* the word sent before its bit is cleared; the score reset too early.     *)
refresh_food_layer_SentTooEarly(p) ==
  LET block == BlockAt(p.x + 30, p.y + 30)
  IN  IF get_block_with_coordinates(p.x + 30, p.y + 30, food) = 1
      THEN EatDot(block, LineOf(food, block[2]), (score + 1) % 65536)
      ELSE UNCHANGED <<food, score, foodPort>>
refresh_food_layer_ResetsAtEnd(p) ==
  LET block == BlockAt(p.x + 30, p.y + 30)
  IN  IF get_block_with_coordinates(p.x + 30, p.y + 30, food) = 1
      THEN EatDot(block, LineOf(food \ {block}, block[2]),
                  IF food = {block} THEN 0 ELSE score + 1)
      ELSE UNCHANGED <<food, score, foodPort>>

(* The dot, if any, of the block under the middle of Pac-Man's box. *)
refresh_food_layer(p) ==
  LET block == BlockAt(p.x + 30, p.y + 30)
  IN  IF get_block_with_coordinates(p.x + 30, p.y + 30, food) = 1
      THEN EatDot(block, LineOf(food \ {block}, block[2]), (score + 1) % 65536)
      ELSE UNCHANGED <<food, score, foodPort>>

(* The line that main() is sending gets a wrong word when a dot is eaten   *)
(* after main() fetched the word or between the stores of its pulse.       *)
Disturbed(l) ==
  IF main = "data" THEN line = l
  ELSE main \in {"address", "strobe", "release"} /\ line # l

refresh_position_interrupt_handler ==
  /\ Serving("REFRESH")
  /\ chars' = [c \in Chars |-> refresh_position(chars[c], Background(c), c # 0)]
  /\ refresh_food_layer(chars'[0])
  /\ torn' = torn \cup IF main = "posY" THEN {ch} ELSE {}
  /\ LET eaten == {b[2] : b \in food \ food'}
     IN  stale' = (stale \ eaten) \cup {line : l \in {k \in eaten : Disturbed(k)}}
  /\ UNCHANGED <<enabled, frames, main, locals, outputs>>

(***************************************************************************)
(* main().  The CPU takes a registered pending interrupt before the next   *)
(* access of main(); At(l) is main() about to make access l.               *)
(***************************************************************************)
At(l) == main = l /\ pending \cap enabled = {}

(* The score of the last game kept; a request dropped by init_position;    *)
(* one line too many filled; the look for food given up after one line.    *)
ResetScore_Kept ==
  /\ At("score")
  /\ main' = "posX" /\ ch' = 0
  /\ UNCHANGED <<ram, irqs, line, word, number, whileCounter, foodPort,
                 outputs, history>>
InitPositionFacing_DropsRequest ==
  /\ At("facing")
  /\ chars' = [chars EXCEPT ![ch].orientation = StartFacing[ch],
                            ![ch].directionControl = "NONE"]
  /\ IF ch < NGhosts THEN ch' = ch + 1 /\ main' = "posX"
                     ELSE ch' = 0 /\ main' = "background"
  /\ UNCHANGED <<food, score, irqs, line, word, number, whileCounter, foodPort,
                 outputs, history>>
init_foodLayer_OneLineMore ==
  /\ At("fill")
  /\ food' = Store(food, line, Columns \ LineOf(CharBackground, line))
  /\ IF line < Lines THEN line' = line + 1 /\ UNCHANGED main
                     ELSE line' = 0 /\ main' = "fetch"
  /\ UNCHANGED <<chars, score, irqs, ch, word, number, whileCounter, foodPort,
                 outputs, history>>
food_layer_empty_FirstLineOnly ==
  /\ At("scan")
  /\ line' = 0
  /\ main' = IF LineOf(food, line) # {} THEN "loop" ELSE "score"
  /\ UNCHANGED <<ram, irqs, ch, word, number, whileCounter, foodPort, outputs, history>>

ResetScore ==
  /\ At("score")
  /\ score' = 0
  /\ main' = "posX" /\ ch' = 0
  /\ UNCHANGED <<chars, food, irqs, line, word, number, whileCounter, foodPort,
                 outputs, history>>

(* init_position stores x, then y, then the orientation; directionControl  *)
(* keeps what it held.                                                     *)
InitPositionX ==
  /\ At("posX")
  /\ chars' = [chars EXCEPT ![ch].x = BLOCK * Start[ch][1]]
  /\ torn' = torn \ {ch}
  /\ main' = "posY"
  /\ UNCHANGED <<food, score, irqs, locals, foodPort, outputs, stale>>

InitPositionY ==
  /\ At("posY")
  /\ chars' = [chars EXCEPT ![ch].y = BLOCK * Start[ch][2]]
  /\ main' = "facing"
  /\ UNCHANGED <<food, score, irqs, locals, foodPort, outputs, history>>

InitPositionFacing ==
  /\ At("facing")
  /\ chars' = [chars EXCEPT ![ch].orientation = StartFacing[ch]]
  /\ IF ch < NGhosts THEN ch' = ch + 1 /\ main' = "posX"
                     ELSE ch' = 0 /\ main' = "background"
  /\ UNCHANGED <<food, score, irqs, line, word, number, whileCounter, foodPort,
                 outputs, history>>

(* No handler touches the background PIOs: the loop is one action.  It     *)
(* sends one word more than the array has.                                 *)
set_background_in_memory ==
  /\ At("background")
  /\ \E w \in OutOfBounds : backgroundMemory' = GhostBackground \cup Word(w, Lines)
  /\ main' = "fill" /\ line' = 0
  /\ UNCHANGED <<ram, irqs, ch, word, number, whileCounter, foodPort, display,
                 history>>

(* One line of food per action: the complement of the walls. *)
init_foodLayer ==
  /\ At("fill")
  /\ food' = Store(food, line, Columns \ LineOf(CharBackground, line))
  /\ IF line < Lines - 1 THEN line' = line + 1 /\ UNCHANGED main
                         ELSE line' = 0 /\ main' = "fetch"
  /\ UNCHANGED <<chars, score, irqs, ch, word, number, whileCounter, foodPort,
                 outputs, history>>

(* set_foodLayer_in_memory, from line 0 to line Lines, the last one out of *)
(* bounds: fetch the word, put it on the data PIO, pulse the write enable. *)
FetchLine ==
  /\ At("fetch")
  /\ IF line < Lines THEN word' = LineOf(food, line) ELSE word' \in OutOfBounds
  /\ main' = "data"
  /\ stale' = stale \ {line}
  /\ UNCHANGED <<ram, irqs, ch, line, number, whileCounter, foodPort, outputs, torn>>

SendData ==
  /\ At("data")
  /\ foodData' = word
  /\ foodMemory' = Latch(foodMemory, word, foodWr)
  /\ word' = {}
  /\ main' = "address"
  /\ UNCHANGED <<ram, irqs, ch, line, number, whileCounter, foodWr, outputs, history>>

WritePulse(label, next, enable) ==
  /\ At(label)
  /\ foodWr' = [line |-> line, enable |-> enable]
  /\ foodMemory' = Latch(foodMemory, foodData, foodWr')
  /\ main' = next
  /\ UNCHANGED <<ram, pending, enabled, ch, word, number, whileCounter, foodData,
                 outputs, history>>

SendAddress == WritePulse("address", "strobe", FALSE) /\ UNCHANGED <<line, frames>>
SendStrobe == WritePulse("strobe", "release", TRUE) /\ UNCHANGED <<line, frames>>

(* After the last line init_game returns: at boot main() registers the     *)
(* handlers, later it is back in its loop.                                 *)
SendRelease ==
  IF line < Lines
  THEN WritePulse("release", "fetch", FALSE) /\ line' = line + 1 /\ UNCHANGED frames
  ELSE /\ WritePulse("release", IF Booting THEN "clear" ELSE "loop", FALSE)
       /\ line' = 0 /\ frames' = 0

set_foodLayer_in_memory ==
  FetchLine \/ SendData \/ SendAddress \/ SendStrobe \/ SendRelease

(* The handlers are registered one by one, by increasing IRQ number, after *)
(* the edges captured so far are dropped.                                  *)
Unregistered(i) ==
  i \notin enabled /\ \A j \in Interrupts \ enabled : IRQ[i] <= IRQ[j]

ClearEdges ==
  /\ At("clear")
  /\ \E i \in Interrupts : Unregistered(i) /\ pending' = pending \ {i}
  /\ main' = "register"
  /\ UNCHANGED <<ram, enabled, frames, locals, foodPort, outputs, history>>

RegisterHandler ==
  /\ At("register")
  /\ \E i \in Interrupts : Unregistered(i) /\ enabled' = enabled \cup {i}
  /\ main' = IF enabled' = Interrupts THEN "loop" ELSE "clear"
  /\ UNCHANGED <<ram, pending, frames, locals, foodPort, outputs, history>>

(* The loop: read the score, show it, count; the count runs to SCAN_PERIOD.*)
ReadScore ==
  /\ At("loop")
  /\ number' = score
  /\ main' = "show"
  /\ UNCHANGED <<ram, irqs, ch, line, word, whileCounter, foodPort, outputs, history>>

(* The digits that are lit, without leading zeros.  Each is looked up in a  *)
(* table of ten.  A segment is lit by a zero: at first all of them are.    *)
Digits(n) ==
  CASE n \div 100 # 0 -> <<n \div 100, (n % 100) \div 10, n % 10>>
    [] n \div 100 = 0 /\ n \div 10 # 0 -> <<(n % 100) \div 10, n % 10>>
    [] OTHER -> <<n % 10>>

display_number ==
  /\ At("show")
  /\ display' = Digits(number)
  /\ IF whileCounter + 1 > SCAN_PERIOD
     THEN whileCounter' = 0 /\ main' = "scan"
     ELSE whileCounter' = whileCounter + 1 /\ main' = "loop"
  /\ UNCHANGED <<ram, irqs, ch, line, word, number, foodPort, backgroundMemory, history>>

(* One line per action, up to the first line that still has food.          *)
food_layer_empty ==
  /\ At("scan")
  /\ IF LineOf(food, line) # {} THEN line' = 0 /\ main' = "loop"
     ELSE IF line < Lines - 1    THEN line' = line + 1 /\ UNCHANGED main
     ELSE line' = 0 /\ main' = "score"
  /\ UNCHANGED <<ram, irqs, ch, word, number, whileCounter, foodPort, outputs, history>>

init_position == InitPositionX \/ InitPositionY \/ InitPositionFacing

MainStep ==
  \/ ResetScore \/ init_position \/ set_background_in_memory
  \/ init_foodLayer \/ set_foodLayer_in_memory
  \/ ClearEdges \/ RegisterHandler
  \/ ReadScore \/ display_number \/ food_layer_empty

Handler == refresh_position_interrupt_handler \/ \E b \in Buttons : ButtonHandler(b)

Next ==
  \/ \E i \in {"REFRESH"} \cup Pressed : Edge(i)
  \/ Handler
  \/ MainStep

(* The video clock never stops.  Frames and presses come milliseconds      *)
(* apart and a handler takes microseconds: no handler is starved by those  *)
(* of lower number, and main() always gets on.                             *)
FramesGoOn ==
  /\ WF_vars(Edge("REFRESH"))
  /\ SF_vars(refresh_position_interrupt_handler)
Fairness ==
  /\ FramesGoOn
  /\ \A b \in Buttons : SF_vars(ButtonHandler(b))
  /\ SF_vars(MainStep)

Spec == Init /\ [][Next]_vars
FairSpec == Spec /\ Fairness
FramesSpec == Spec /\ FramesGoOn

(***************************************************************************)
(* Properties.                                                             *)
(***************************************************************************)

TypeOK ==
  /\ chars \in [Chars -> Characters]
  /\ food \subseteq Dots
  /\ score \in Nat
  /\ pending \subseteq Interrupts /\ enabled \subseteq Interrupts
  /\ main \in Labels
  /\ ch \in Chars /\ line \in 0 .. Lines
  /\ word \subseteq Columns /\ number \in Nat /\ whileCounter \in 0 .. SCAN_PERIOD
  /\ foodData \subseteq Columns
  /\ foodWr \in [line : 0 .. Lines, enable : BOOLEAN]
  /\ foodMemory \subseteq Columns \X (0 .. Lines)
  /\ backgroundMemory \subseteq Columns \X (0 .. Lines)
  /\ display \in Seq(Nat)
  /\ frames \in 0 .. FRAMES_PER_INIT
  /\ torn \subseteq Chars /\ stale \subseteq 0 .. Lines

(* The dots the current game has put on the board so far: init_game counts *)
(* them as placed from the moment it resets the score until init_foodLayer *)
(* has reached their line, although the array does not hold them yet.      *)
Unplaced ==
  CASE main \in Placing \cup {"background"} -> Dots
    [] main = "fill"  -> {b \in Dots : b[2] >= line}
    [] main = "score" -> IF Booting THEN Dots ELSE {}
    [] OTHER -> {}

(* The score and the food array are updated by the refresh handler while   *)
(* main() resets one and refills the other: at every moment each dot of    *)
(* the game is unplaced, on the board or counted in the score, once.       *)
DotsOfGame == food \cup Unplaced
ScoreConservation ==
  /\ food \cap Unplaced = {}
  /\ score + Cardinality(DotsOfGame) = Cardinality(Dots)

(* main.c:18-20: the refresh handler "ensures the char doesn't go out of   *)
(* the frame" - also when it runs between the stores of init_position,     *)
(* with the x of the new game and the y of the old one.                    *)
NeverOutOfFrame ==
  ~Booting => \A c \in Chars : Aligned(chars[c]) /\ InFrame(chars[c])

(* No character is on a wall, except one whose position main() is half way *)
(* through rewriting, or that a refresh moved exactly then.                *)
WallSafety ==
  ~Booting => \A c \in Chars :
    (c \in torn \/ (main = "posY" /\ ch = c)) \/ ClearOfWalls(chars[c], Background(c))

(* A line of the video's food memory is up to date once init_game has sent *)
(* it (or, later, before it refills the line), unless a dot was eaten just *)
(* while that line was being sent.                                         *)
Sent(l) ==
  CASE main \in Sending -> l < line \/ (l = line /\ main = "release")
    [] main = "fill" -> l >= line /\ ~Booting
    [] OTHER -> main = "clear" \/ main = "register" \/ ~Booting
FoodMemoryInSync ==
  \A l \in 0 .. Lines - 1 :
    (Sent(l) /\ l \notin stale) => LineOf(foodMemory, l) = LineOf(food, l)

(* What somebody reads who looks at the display.                           *)
Reading(digits) ==
  CASE Len(digits) = 3 -> 100 * digits[1] + 10 * digits[2] + digits[3]
    [] Len(digits) = 2 -> 10 * digits[1] + digits[2]
    [] OTHER -> digits[1]

(* Within a game the display is behind the score or equal to it, and no    *)
(* digit is looked up behind the end of its table (segments_display.c 13). *)
DisplayNeverAhead ==
  /\ \A k \in DOMAIN display : display[k] \in 0 .. 9
  /\ main \in {"show", "scan"} => number <= score
  /\ main = "scan" => Reading(display) <= score

(* A request for a direction disappears only when Pac-Man turns to it or a *)
(* button asks for another: a restart of the game does not drop it.        *)
RequestsAreKept ==
  [][\A c \in Chars :
       \/ chars'[c].directionControl = chars[c].directionControl
       \/ /\ chars'[c].directionControl = "NONE"
          /\ chars'[c].orientation = Heading[chars[c].directionControl]
          /\ <<chars'[c].x, chars'[c].y>> # <<chars[c].x, chars[c].y>>
       \/ /\ c = 0
          /\ \E b \in pending \ pending' : chars'[0].directionControl = Request[b]]_vars

(* Every refresh moves every ghost that is on no wall by one step, onto no *)
(* wall: a blocked ghost always finds another way.                         *)
GhostsKeepMoving ==
  [][refresh_position_interrupt_handler =>
       \A c \in Chars \ {0} :
         (~Booting /\ ClearOfWalls(chars[c], Background(c))) =>
           /\ <<chars'[c].x, chars'[c].y>> # <<chars[c].x, chars[c].y>>
           /\ ClearOfWalls(chars'[c], Background(c))]_vars

(* The game the player sees obeys the rules: the dots on the board or not  *)
(* yet placed, and the score.                                              *)
Game == INSTANCE GameRules
          WITH Board <- Dots, dots <- DotsOfGame, points <- score
PlaysByTheRules == Game!Spec

(* A character that a refresh caught half way through a restart and left   *)
(* on a wall gets off the walls again by the frames alone, without waiting *)
(* for the next restart.                                                   *)
GetsOffTheWalls ==
  (~Booting /\ main \notin InitGame)
    ~> (main \in InitGame \/ \A c \in Chars : ClearOfWalls(chars[c], Background(c)))
=============================================================================
