--------------------------- MODULE PixelPipeline ---------------------------
(***************************************************************************)
(* The layers of the picture: background_generator.vhd,                    *)
(* food_layer_generator.vhd and character_generator.vhd read one pixel per *)
(* clock of a memory that answers a clock later, for the coordinates and   *)
(* the data enable of VideoTiming; sync_signals_buffer.vhd delays the data *)
(* enable by as much.  ghost_generator.vhd is character_generator.vhd with *)
(* the address of orientation 0 and a memory for each orientation.         *)
(***************************************************************************)
EXTENDS VideoTiming, Sequences

CONSTANTS
  BLOCK, MARGIN_COLUMNS,   \* side of a block (60); bits of a word before column 0 (8)
  WORD,                    \* bits of a word (32)
  WORDS, ADDRESSES,        \* what a block memory has, of one bit (480), and what its
                           \* address lines tell apart (512)
  DOT,                     \* a dot fills the pixels between these two (25, 35)
  BORDER, SPRITE,          \* a character starts at 6 and has 24 cells of 2 pixels
  Positions,               \* <<x, y, orientation>> of the character
  Maps,                    \* memories of background and food: the bits that are set
  Shape                    \* memory of the character, likewise

(* A dot has two pixels at least and three between it and the next; of a   *)
(* dot or a character that the right edge of the picture cuts, more is     *)
(* left than the pipelines need to start (characters stand at multiples of *)
(* 5, and no mode has a width that is 1 or 2 beyond one).                  *)
ASSUME PipelineAssumption ==
  /\ {BLOCK, DOT[1], DOT[2]} \subseteq Nat
  /\ DOT[1] + 3 <= DOT[2] /\ DOT[2] - DOT[1] + 2 <= BLOCK /\ DOT[2] <= BLOCK
  /\ {MARGIN_COLUMNS, WORD, WORDS} \subseteq Nat
  /\ ADDRESSES \in Nat \ {0} /\ WORDS <= ADDRESSES
  /\ BORDER \in Nat \ {0} /\ SPRITE \in Nat /\ SPRITE >= 2
  /\ Positions \subseteq Nat \X Nat \X (0 .. 3)
  /\ \A m \in Modes :
       LET width == LastPixel(m)[1] IN
       /\ width >= 2 /\ width % BLOCK # DOT[1] + 1
       /\ \A p \in Positions : width \notin {p[1] + BORDER, p[1] + BORDER + 1}

VARIABLES
  position,                \* of the character, as its decoder gives it
  blockMap,                \* what both block memories hold
  layer,                   \* the generators: state, s_rdaddress, s_memory_out, vga_r
  vga_de,                  \* the two registers of the buffer of the data enable
  asked, calm              \* history, of settled frames: the last pixels the generators
                           \* were given, and the clocks since the last disturbance

pipeline == <<layer, vga_de, asked, calm>>
pvars == <<vars, position, blockMap, pipeline>>

Layers == {"background", "food", "character"}

(* The clocks that a disturbance of the pipeline lasts.                    *)
CALM == 6

(***************************************************************************)
(* What a generator looks for at a pixel: whether it draws there, and the  *)
(* address of the bit to draw.                                             *)
(***************************************************************************)
(* de: the data enable; x, y: the coordinates; at: the character.          *)
Pixel(de, x, y, at) == [de |-> de, x |-> x, y |-> y, at |-> at]
Given == Pixel(pre_vga_de, pixel_x, pixel_y, position)

InDot(z) == z % BLOCK > DOT[1] /\ z % BLOCK < DOT[2]
InSprite(d) == d >= BORDER /\ d < BORDER + 2 * SPRITE

Wanted(l, p) ==
  CASE l = "background" -> p.de = 1
    [] l = "food" -> p.de = 1 /\ InDot(p.x) /\ InDot(p.y)
    [] l = "character" -> InSprite(p.x - p.at[1]) /\ InSprite(p.y - p.at[2])

(* The place of a block, and what of it fits in the register.  Coordinates *)
(* count from 1: the last line, 900 of 1440x900, is in a row of its own,   *)
(* whose blocks are behind the memory, the last at address 0 again.        *)
Place(p) == MARGIN_COLUMNS + p.x \div BLOCK + (p.y \div BLOCK) * WORD
BlockAddress(p) == Place(p) % ADDRESSES

(* Towards zero, as VHDL divides.                                          *)
Half(d) == IF d >= 0 THEN d \div 2 ELSE -((-d) \div 2)

compute_char_address(p) ==
  LET dx == Half(p.x - p.at[1] - BORDER)  dy == Half(p.y - p.at[2] - BORDER) IN
  CASE p.at[3] = 0 -> dx + dy * SPRITE
    [] p.at[3] = 1 -> dx * SPRITE + dy
    [] p.at[3] = 2 -> (SPRITE - 1 - dx) + dy * SPRITE
    [] p.at[3] = 3 -> dx * SPRITE + (SPRITE - 1 - dy)

Address(l, p) == IF l = "character" THEN compute_char_address(p) ELSE BlockAddress(p)

(* What a memory may answer: behind its last word, anything.               *)
Answers(l, a) ==
  IF l = "character" THEN IF a \in 0 .. SPRITE * SPRITE - 1 THEN {Bit(a \in Shape)} ELSE {0, 1}
  ELSE IF a \in 0 .. WORDS - 1 THEN {Bit(a \in blockMap)} ELSE {0, 1}

(***************************************************************************)
(* One pixel clock of a generator.                                         *)
(***************************************************************************)
(* Slips that the properties must notice: the last state, which draws the  *)
(* last pixel of a line, is left out; the enable is buffered once.         *)
NextState_NoLast(g, wanted) ==
  CASE g.state = 0 -> IF wanted THEN 1 ELSE 0
    [] g.state = 1 -> 2
    [] g.state = 2 -> IF wanted THEN 2 ELSE 0
    [] OTHER -> 0
Buffer_Once == vga_de' = <<vga_de_in, vga_de_in>>

NextState(g, wanted) ==
  CASE g.state = 0 -> IF wanted THEN 1 ELSE 0
    [] g.state = 1 -> 2
    [] g.state = 2 -> IF wanted THEN 2 ELSE 3
    [] OTHER -> 0

(* The colour is left as it is while the first two addresses are sent.     *)
Colour(g, wanted) ==
  CASE g.state = 0 -> IF wanted THEN g.colour ELSE 0
    [] g.state = 1 -> g.colour
    [] OTHER -> g.memory_out

Sends(g, wanted) == g.state = 1 \/ (g.state \in {0, 2} /\ wanted)

Generate(l, g) ==
  LET wanted == Wanted(l, Given) IN
  {[state |-> NextState(g, wanted),
    rdaddress |-> IF Sends(g, wanted) THEN Address(l, Given) ELSE g.rdaddress,
    memory_out |-> bit,
    colour |-> Colour(g, wanted)] : bit \in Answers(l, g.rdaddress)}

Buffer == vga_de' = <<vga_de_in, vga_de[1]>>

PixelInit ==
  /\ Init
  /\ position \in Positions /\ blockMap \in Maps
  /\ layer = [l \in Layers |-> [state |-> 0, rdaddress |-> 0, memory_out |-> 0, colour |-> 0]]
  /\ vga_de = <<0, 0>>
  /\ asked = << >> /\ calm = 0

Generators ==
  /\ \E b \in Generate("background", layer["background"]),
        f \in Generate("food", layer["food"]),
        c \in Generate("character", layer["character"]) :
       layer' = [layer EXCEPT !["background"] = b, !["food"] = f, !["character"] = c]
  /\ Buffer
  /\ asked' = IF settled < 2 THEN << >>
              ELSE SubSeq(<<Given>> \o asked, 1, IF Len(asked) < 3 THEN Len(asked) + 1 ELSE 3)
  /\ calm' = IF settled < 2 THEN 0 ELSE IF calm < CALM THEN calm + 1 ELSE calm

PixelClock == Clock /\ Generators /\ UNCHANGED <<position, blockMap>>

(* The processor writes the position or a memory, at any clock of the      *)
(* picture.  It needs more than CALM clocks from one write to the next;    *)
(* that it does not write in frames that are not settled is a bound.       *)
Rewrite ==
  /\ calm = CALM
  /\ \/ position' \in Positions \ {position} /\ UNCHANGED blockMap
     \/ blockMap' \in Maps \ {blockMap} /\ UNCHANGED position
  /\ calm' = 0
  /\ UNCHANGED <<vars, layer, vga_de, asked>>

(* Nobody moves the switch twice within two frames.                        *)
PixelChangeMode ==
  /\ settled = 2
  /\ ChangeMode
  /\ asked' = << >> /\ calm' = 0
  /\ UNCHANGED <<position, blockMap, layer, vga_de>>

(* The generators and the buffer have no reset.                            *)
PixelLoseLock ==
  /\ LoseLock
  /\ asked' = << >> /\ calm' = 0
  /\ UNCHANGED <<position, blockMap, layer, vga_de>>

PixelNext == PixelClock \/ Rewrite \/ PixelChangeMode \/ PixelLoseLock

PixelSpec == PixelInit /\ [][PixelNext]_pvars /\ WF_pvars(PixelClock)

(***************************************************************************)
(* Properties.                                                             *)
(***************************************************************************)
(* What a layer has to show at a pixel: the bit of its block or its cell,  *)
(* and of a block that its memory has no word for, either colour.          *)
Content(l, p) ==
  IF ~Wanted(l, p) THEN {0}
  ELSE IF l = "character" THEN {Bit(compute_char_address(p) \in Shape)}
  ELSE IF Place(p) < WORDS THEN {Bit(Place(p) \in blockMap)} ELSE {0, 1}

(* While the monitor is told that there is a pixel, it gets the colours of *)
(* that pixel: the pipelines and the buffer have the same delay, the first *)
(* and the last pixels of a dot or of a character included, and nothing is *)
(* left over for the pixels behind them.  A write by the processor spoils  *)
(* a few pixels at most.  Excepted are the blocks that the two memories do *)
(* not have: there the picture is undefined, and where the address has     *)
(* wrapped around it is that of a wrong block.  A character has no pixel   *)
(* behind its memory.                                                      *)
PictureAligned ==
  settled = 2 /\ calm = CALM =>
    /\ vga_de[2] = asked[3].de
    /\ \A l \in Layers : layer[l].colour \in Content(l, asked[3])
=============================================================================
