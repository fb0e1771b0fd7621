---------------------------- MODULE MCPacmanGame ----------------------------
(***************************************************************************)
(* Instances of PacmanGame for TLC.                                        *)
(***************************************************************************)
EXTENDS PacmanGame, TLC

(* A wall layer from the open columns of its lines 1, 2, ...               *)
Walls(open) == {b \in Blocks : ~(b[2] \in DOMAIN open /\ b[1] \in open[b[2]])}

(* Three blocks around a corner.  A game starts at the end of one arm, so  *)
(* a restart from the other arm passes through a wall when it is torn.     *)
CornerWalls == Walls(<<{1, 2}, {1}>>)
CornerStart == 0 :> <<2, 1>>
CornerFacing == 0 :> "WEST"

(* A corridor of two blocks. *)
CorridorWalls == Walls(<<{1, 2}>>)
CorridorStart == 0 :> <<1, 1>>
CorridorFacing == 0 :> "EAST"

(* Pac-Man in a single block: a game of one dot, that can be over at any   *)
(* moment of the ghosts' rounds.                                           *)
CellWalls == Walls(<<{1}>>)

(* The ghosts' maze of background.h with the starts of game_manager.c.     *)
GhostMaze == Walls(<<
  1 .. 22,
  {1, 6, 14, 20, 22},
  (3 .. 22) \cup {1},
  {1, 6, 8, 12, 14, 16, 20, 22},
  (1 .. 4) \cup (10 .. 12) \cup (14 .. 18) \cup {6, 8, 20, 22},
  (10 .. 12) \cup {4, 6, 8, 14, 16, 18, 20, 22},
  (8 .. 14) \cup {4, 6, 16, 18, 20, 22},
  (1 .. 4) \cup (18 .. 22) \cup {6, 8, 10, 12, 14, 16},
  {1, 6, 8, 10, 12, 14, 16, 18, 20, 22},
  (3 .. 6) \cup (12 .. 14) \cup {1, 8, 10, 16, 18, 20, 22},
  {1, 3, 8, 10, 12, 16, 18, 20, 22},
  (1 .. 16) \cup (18 .. 22)>>)
GhostsStart == (0 :> <<1, 1>>) @@ (1 :> <<12, 6>>)
GhostsFacing == (0 :> "SOUTH") @@ (1 :> "NORTH")
=============================================================================
