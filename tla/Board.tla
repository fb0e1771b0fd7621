------------------------------- MODULE Board -------------------------------
(***************************************************************************)
(* The playing field of pacman_soft_1: a grid of square blocks of 60       *)
(* pixels (1440 x 900 pixels make 24 x 15 blocks).  In the program a layer *)
(* (the walls of Pac-Man, the walls of the ghosts, the food) is an array   *)
(* of one 32-bit word per line of blocks; bit 8 + column of the word is    *)
(* the block.  Here a layer is the set of the blocks <<column, line>>      *)
(* whose bit is 1.  Bits 0..7 of a word lie left of the first column; they *)
(* are 1 in both wall layers of background.h, so 0 in the food layer, and  *)
(* no operation reads or changes them.                                     *)
(***************************************************************************)
EXTENDS Integers

CONSTANTS
  Cols,    \* number of block columns
  Lines    \* number of block lines: the length of a layer array

ASSUME BoardAssumption == Cols \in Nat \ {0} /\ Lines \in Nat \ {0}

(* The side of a block, in pixels. *)
BLOCK == 60

Columns == 0 .. Cols - 1
Blocks == Columns \X (0 .. Lines - 1)

(* The block under a pixel. *)
BlockAt(x, y) == <<x \div BLOCK, y \div BLOCK>>

(* The bit of the layer under the pixel (x, y). *)
get_block_with_coordinates(x, y, layer) ==
  IF BlockAt(x, y) \in layer THEN 1 ELSE 0

(* The word of one line of a layer: the columns whose bit is 1. *)
LineOf(layer, line) == {c \in Columns : <<c, line>> \in layer}

(* The blocks a word stands for when it is stored at that line. *)
Word(columns, line) == {<<c, line>> : c \in columns}

(* The layer after a store of a whole word. *)
Store(layer, line, columns) ==
  {b \in layer : b[2] # line} \cup Word(columns, line)

(* Both wall layers of background.h close the board on its four sides. *)
SolidBorder(walls) ==
  \A b \in Blocks :
    (b[1] \in {0, Cols - 1} \/ b[2] \in {0, Lines - 1}) => b \in walls

=============================================================================
