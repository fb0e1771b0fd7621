------------------------------ MODULE Movement ------------------------------
(***************************************************************************)
(* refresh_position.c: how one character moves at each frame.  A character *)
(* is the record of its top left pixel, the orientation it faces and the   *)
(* direction asked for by the player and not yet taken.  Its box is        *)
(* 60 x 60 pixels, it moves 5 pixels per frame.  The collision field of    *)
(* the C structure is computed and consumed within one refresh, so it is   *)
(* a value here and not a field.  randomOrientation is computed by the C   *)
(* function and never used; it is left out.                                *)
(***************************************************************************)
EXTENDS Board

MOVEMENT_STEP == 5

Orientations == {"WEST", "NORTH", "EAST", "SOUTH"}
Directions == {"NONE", "UP", "RIGHT", "DOWN", "LEFT"}

Characters == [x : Int, y : Int, orientation : Orientations,
               directionControl : Directions]

(* The orientation a requested direction turns the character to. *)
Heading == [UP |-> "NORTH", RIGHT |-> "EAST", DOWN |-> "SOUTH", LEFT |-> "WEST"]

(* The two pixels that each side of the box would touch first: the ends of *)
(* the row or column of pixels just outside that side.                     *)
Probes(p) ==
  [NORTH |-> {<<p.x, p.y - 1>>, <<p.x + 59, p.y - 1>>},
   EAST  |-> {<<p.x + 60, p.y>>, <<p.x + 60, p.y + 59>>},
   SOUTH |-> {<<p.x, p.y + 60>>, <<p.x + 59, p.y + 60>>},
   WEST  |-> {<<p.x - 1, p.y>>, <<p.x - 1, p.y + 59>>}]

(* Slips that the properties must notice, here and below (suffix _...):    *)
(* the box taken one pixel too low; the whole box tried one pixel further  *)
(* instead of its front; || for &&; no other way when blocked.             *)
compute_collision_BoxTooLow(p, walls) ==
  [side \in Orientations |->
     \E q \in Probes([p EXCEPT !.y = p.y + 1])[side] :
       get_block_with_coordinates(q[1], q[2], walls) = 1]
compute_collision_WholeBox(p, walls) ==
  [side \in Orientations |->
     \E dx \in {0, 59}, dy \in {0, 59} :
       LET x == p.x + dx + (CASE side = "EAST" -> 1 [] side = "WEST" -> -1 [] OTHER -> 0)
           y == p.y + dy + (CASE side = "SOUTH" -> 1 [] side = "NORTH" -> -1 [] OTHER -> 0)
       IN  get_block_with_coordinates(x, y, walls) = 1]
compute_collision_BothCorners(p, walls) ==
  [side \in Orientations |->
     \A q \in Probes(p)[side] : get_block_with_coordinates(q[1], q[2], walls) = 1]

compute_collision(p, walls) ==
  [side \in Orientations |->
     \E q \in Probes(p)[side] : get_block_with_coordinates(q[1], q[2], walls) = 1]

(* One step towards o, turning to it. *)
StepX == [NORTH |-> 0, EAST |-> MOVEMENT_STEP, SOUTH |-> 0, WEST |-> -MOVEMENT_STEP]
StepY == [NORTH |-> -MOVEMENT_STEP, EAST |-> 0, SOUTH |-> MOVEMENT_STEP, WEST |-> 0]
Step(p, o) ==
  [x |-> p.x + StepX[o], y |-> p.y + StepY[o], orientation |-> o,
   directionControl |-> p.directionControl]

(* The first free side in the order the code tries them. *)
randomDirection(p, collision) ==
  IF ~collision["NORTH"] THEN Step(p, "NORTH")
  ELSE IF ~collision["EAST"] THEN Step(p, "EAST")
  ELSE IF ~collision["SOUTH"] THEN Step(p, "SOUTH")
  ELSE IF ~collision["WEST"] THEN Step(p, "WEST")
  ELSE p

refresh_position_keepGoing_Manual(p, collision, autoMode) ==
  IF ~collision[p.orientation] THEN Step(p, p.orientation) ELSE p

refresh_position_keepGoing(p, collision, autoMode) ==
  IF ~collision[p.orientation] THEN Step(p, p.orientation)
  ELSE IF autoMode THEN randomDirection(p, collision)
  ELSE p

(* A requested turn is taken, and consumed, as soon as that side is free;  *)
(* until then the character keeps going and the request stays.             *)
refresh_position(p, walls, autoMode) ==
  LET collision == compute_collision(p, walls)
      turns == p.directionControl # "NONE" /\ ~collision[Heading[p.directionControl]]
  IN  IF turns
      THEN [Step(p, Heading[p.directionControl]) EXCEPT !.directionControl = "NONE"]
      ELSE refresh_position_keepGoing(p, collision, autoMode)

(***************************************************************************)
(* What a position should satisfy.                                         *)
(***************************************************************************)

(* Every coordinate is a multiple of the step. *)
Aligned(p) == p.x % MOVEMENT_STEP = 0 /\ p.y % MOVEMENT_STEP = 0

(* The whole box lies inside the ring of border blocks. *)
InFrame(p) ==
  /\ BLOCK <= p.x /\ p.x + 2 * BLOCK <= BLOCK * Cols
  /\ BLOCK <= p.y /\ p.y + 2 * BLOCK <= BLOCK * Lines

(* No corner pixel of the box lies on a wall (for a box of one block this  *)
(* is every pixel of it: lemma WholeBoxClear of PacmanGameProofs).         *)
ClearOfWalls(p, walls) ==
  \A dx \in {0, 59}, dy \in {0, 59} : BlockAt(p.x + dx, p.y + dy) \notin walls

=============================================================================
