-------------------------- MODULE PacmanGameProofs --------------------------
(***************************************************************************)
(* Proofs about PacmanGame, for every board, every wall layers, any number *)
(* of ghosts and any number of frames during init_game: first that no      *)
(* character enters a wall, then the score and the food.                   *)
(***************************************************************************)
EXTENDS PacmanGame, FiniteSetTheorems, TLAPS

(***************************************************************************)
(* What one call of refresh_position preserves.                            *)
(***************************************************************************)
(* Integer division by the side of a block. *)
LEMMA BlockBounds ==
  ASSUME NEW x \in Int
  PROVE  /\ x \div BLOCK \in Int
         /\ BLOCK * (x \div BLOCK) <= x
         /\ x < BLOCK * (x \div BLOCK) + BLOCK
BY DEF BLOCK

(* A coordinate that is a multiple of 5 is at one of twelve offsets in its *)
(* block, so the block under a pixel near either end of the box is decided *)
(* by the offset alone: a step onto a column of pixels whose ends are free *)
(* stays over blocks the box already covered or has just probed.           *)
LEMMA StepForward ==
  ASSUME NEW x \in Int, x % MOVEMENT_STEP = 0
  PROVE  /\ (x + 5) \div BLOCK \in {x \div BLOCK, (x + 60) \div BLOCK}
         /\ (x + 64) \div BLOCK = (x + 60) \div BLOCK
BY DEF BLOCK, MOVEMENT_STEP

LEMMA StepBackward ==
  ASSUME NEW x \in Int, x % MOVEMENT_STEP = 0
  PROVE  /\ (x - 5) \div BLOCK = (x - 1) \div BLOCK
         /\ (x + 54) \div BLOCK \in {x \div BLOCK, (x + 59) \div BLOCK}
BY DEF BLOCK, MOVEMENT_STEP

LEMMA StepAligned ==
  ASSUME NEW x \in Int, x % MOVEMENT_STEP = 0
  PROVE  (x + 5) % MOVEMENT_STEP = 0 /\ (x - 5) % MOVEMENT_STEP = 0
BY DEF MOVEMENT_STEP

(* A multiple of 5 that is below a multiple of 5 is below it by 5.         *)
LEMMA RoomAhead ==
  ASSUME NEW x \in Int, NEW n \in Int, x % MOVEMENT_STEP = 0, x + 60 < 60 * n - 60
  PROVE  x + 5 + 2 * BLOCK <= BLOCK * n
BY DEF BLOCK, MOVEMENT_STEP

(* What compute_collision says of each side, as a fact about two blocks.   *)
LEMMA FreeSides ==
  ASSUME NEW walls, NEW p \in Characters
  PROVE  /\ ~compute_collision(p, walls)["NORTH"] <=>
              BlockAt(p.x, p.y - 1) \notin walls /\ BlockAt(p.x + 59, p.y - 1) \notin walls
         /\ ~compute_collision(p, walls)["EAST"] <=>
              BlockAt(p.x + 60, p.y) \notin walls /\ BlockAt(p.x + 60, p.y + 59) \notin walls
         /\ ~compute_collision(p, walls)["SOUTH"] <=>
              BlockAt(p.x, p.y + 60) \notin walls /\ BlockAt(p.x + 59, p.y + 60) \notin walls
         /\ ~compute_collision(p, walls)["WEST"] <=>
              BlockAt(p.x - 1, p.y) \notin walls /\ BlockAt(p.x - 1, p.y + 59) \notin walls
<1>1. \A x, y : get_block_with_coordinates(x, y, walls) = 1 <=> BlockAt(x, y) \in walls
  BY DEF get_block_with_coordinates
<1>2. \A o \in Orientations : compute_collision(p, walls)[o] =
        \E q \in Probes(p)[o] : BlockAt(q[1], q[2]) \in walls
  BY <1>1 DEF compute_collision
<1>3. compute_collision(p, walls)["NORTH"] =
        \E q \in {<<p.x, p.y - 1>>, <<p.x + 59, p.y - 1>>} : BlockAt(q[1], q[2]) \in walls
  BY <1>2 DEF Probes, Orientations
<1>4. compute_collision(p, walls)["EAST"] =
        \E q \in {<<p.x + 60, p.y>>, <<p.x + 60, p.y + 59>>} : BlockAt(q[1], q[2]) \in walls
  BY <1>2 DEF Probes, Orientations
<1>5. compute_collision(p, walls)["SOUTH"] =
        \E q \in {<<p.x, p.y + 60>>, <<p.x + 59, p.y + 60>>} : BlockAt(q[1], q[2]) \in walls
  BY <1>2 DEF Probes, Orientations
<1>6. compute_collision(p, walls)["WEST"] =
        \E q \in {<<p.x - 1, p.y>>, <<p.x - 1, p.y + 59>>} : BlockAt(q[1], q[2]) \in walls
  BY <1>2 DEF Probes, Orientations
<1> QED BY <1>3, <1>4, <1>5, <1>6

(* Where one step leads. *)
LEMMA StepCoordinates ==
  ASSUME NEW p \in Characters
  PROVE  /\ \A o \in Orientations :
              /\ Step(p, o) \in Characters
              /\ Step(p, o).orientation = o
              /\ Step(p, o).directionControl = p.directionControl
         /\ Step(p, "NORTH").x = p.x /\ Step(p, "NORTH").y = p.y - 5
         /\ Step(p, "EAST").x = p.x + 5 /\ Step(p, "EAST").y = p.y
         /\ Step(p, "SOUTH").x = p.x /\ Step(p, "SOUTH").y = p.y + 5
         /\ Step(p, "WEST").x = p.x - 5 /\ Step(p, "WEST").y = p.y
<1>1. \A o \in Orientations : StepX[o] \in Int /\ StepY[o] \in Int
  BY DEF Orientations, StepX, StepY, MOVEMENT_STEP
<1>2. \A o \in Orientations :
        /\ Step(p, o) \in Characters
        /\ Step(p, o).x = p.x + StepX[o] /\ Step(p, o).y = p.y + StepY[o]
        /\ Step(p, o).orientation = o
        /\ Step(p, o).directionControl = p.directionControl
  BY <1>1 DEF Characters, Step
<1>3. /\ StepX["NORTH"] = 0 /\ StepY["NORTH"] = -5
      /\ StepX["EAST"] = 5 /\ StepY["EAST"] = 0
      /\ StepX["SOUTH"] = 0 /\ StepY["SOUTH"] = 5
      /\ StepX["WEST"] = -5 /\ StepY["WEST"] = 0
  BY DEF StepX, StepY, MOVEMENT_STEP
<1>4. p.x \in Int /\ p.y \in Int
  BY DEF Characters
<1> QED BY <1>2, <1>3, <1>4 DEF Orientations

(* A character whose box is on no wall stays so when it steps through a    *)
(* side whose two probes are free.                                         *)
LEMMA UnblockedStepClear ==
  ASSUME NEW walls, NEW p \in Characters, NEW o \in Orientations,
         Aligned(p), ClearOfWalls(p, walls),
         ~compute_collision(p, walls)[o]
  PROVE  Aligned(Step(p, o)) /\ ClearOfWalls(Step(p, o), walls)
<1>2. p.x \in Int /\ p.y \in Int /\ p.x % MOVEMENT_STEP = 0 /\ p.y % MOVEMENT_STEP = 0
  BY DEF Characters, Aligned
<1>3. \A dx \in {0, 59}, dy \in {0, 59} : <<(p.x + dx) \div BLOCK, (p.y + dy) \div BLOCK>> \notin walls
  BY DEF ClearOfWalls, BlockAt
<1> DEFINE s == Step(p, o)
<1>4. CASE o = "EAST"
  <2>1. s.x = p.x + 5 /\ s.y = p.y
    BY <1>4, StepCoordinates
  <2>2. /\ <<(p.x + 60) \div BLOCK, p.y \div BLOCK>> \notin walls
        /\ <<(p.x + 60) \div BLOCK, (p.y + 59) \div BLOCK>> \notin walls
    BY <1>4, FreeSides DEF BlockAt
  <2>3. \A dx \in {0, 59}, dy \in {0, 59} : <<(s.x + dx) \div BLOCK, (s.y + dy) \div BLOCK>> \notin walls
    BY <2>1, <2>2, <1>2, <1>3, StepForward
  <2> QED BY <2>1, <2>3, <1>2, StepAligned DEF ClearOfWalls, BlockAt, Aligned
<1>5. CASE o = "WEST"
  <2>1. s.x = p.x - 5 /\ s.y = p.y
    BY <1>5, StepCoordinates
  <2>2. /\ <<(p.x - 1) \div BLOCK, p.y \div BLOCK>> \notin walls
        /\ <<(p.x - 1) \div BLOCK, (p.y + 59) \div BLOCK>> \notin walls
    BY <1>5, FreeSides DEF BlockAt
  <2>3. \A dx \in {0, 59}, dy \in {0, 59} : <<(s.x + dx) \div BLOCK, (s.y + dy) \div BLOCK>> \notin walls
    BY <2>1, <2>2, <1>2, <1>3, StepBackward
  <2> QED BY <2>1, <2>3, <1>2, StepAligned DEF ClearOfWalls, BlockAt, Aligned
<1>6. CASE o = "SOUTH"
  <2>1. s.x = p.x /\ s.y = p.y + 5
    BY <1>6, StepCoordinates
  <2>2. /\ <<p.x \div BLOCK, (p.y + 60) \div BLOCK>> \notin walls
        /\ <<(p.x + 59) \div BLOCK, (p.y + 60) \div BLOCK>> \notin walls
    BY <1>6, FreeSides DEF BlockAt
  <2>3. \A dx \in {0, 59}, dy \in {0, 59} : <<(s.x + dx) \div BLOCK, (s.y + dy) \div BLOCK>> \notin walls
    BY <2>1, <2>2, <1>2, <1>3, StepForward
  <2> QED BY <2>1, <2>3, <1>2, StepAligned DEF ClearOfWalls, BlockAt, Aligned
<1>7. CASE o = "NORTH"
  <2>1. s.x = p.x /\ s.y = p.y - 5
    BY <1>7, StepCoordinates
  <2>2. /\ <<p.x \div BLOCK, (p.y - 1) \div BLOCK>> \notin walls
        /\ <<(p.x + 59) \div BLOCK, (p.y - 1) \div BLOCK>> \notin walls
    BY <1>7, FreeSides DEF BlockAt
  <2>3. \A dx \in {0, 59}, dy \in {0, 59} : <<(s.x + dx) \div BLOCK, (s.y + dy) \div BLOCK>> \notin walls
    BY <2>1, <2>2, <1>2, <1>3, StepBackward
  <2> QED BY <2>1, <2>3, <1>2, StepAligned DEF ClearOfWalls, BlockAt, Aligned
<1> QED BY <1>4, <1>5, <1>6, <1>7 DEF Orientations

(* A step through a free side stays inside the ring of border blocks, even *)
(* from a position that is itself on a wall: the probed block is not on    *)
(* the border, so there is room for the step.                              *)
LEMMA UnblockedStepInFrame ==
  ASSUME NEW walls, SolidBorder(walls), NEW p \in Characters, NEW o \in Orientations,
         Aligned(p), InFrame(p), ~compute_collision(p, walls)[o]
  PROVE  InFrame(Step(p, o)) /\ Aligned(Step(p, o))
<1>1. /\ p.x \in Int /\ p.y \in Int /\ p.x % 5 = 0 /\ p.y % 5 = 0
      /\ 60 <= p.x /\ p.x + 120 <= 60 * Cols /\ 60 <= p.y /\ p.y + 120 <= 60 * Lines
  BY DEF Characters, Aligned, InFrame, BLOCK, MOVEMENT_STEP
<1>2. \A x, y \in Int : (0 <= x /\ x < 60 * Cols /\ 0 <= y /\ y < 60 * Lines
                          /\ BlockAt(x, y) \notin walls)
        => 60 <= x /\ x < 60 * Cols - 60 /\ 60 <= y /\ y < 60 * Lines - 60
  <2> SUFFICES ASSUME NEW x \in Int, NEW y \in Int, 0 <= x, x < 60 * Cols,
                      0 <= y, y < 60 * Lines, BlockAt(x, y) \notin walls
               PROVE  60 <= x /\ x < 60 * Cols - 60 /\ 60 <= y /\ y < 60 * Lines - 60
    OBVIOUS
  <2> DEFINE c == x \div 60
             l == y \div 60
  <2>1. c \in 0 .. Cols - 1 /\ l \in 0 .. Lines - 1
    BY BoardAssumption
  <2>2. BlockAt(x, y) = <<c, l>>
    BY DEF BlockAt, BLOCK
  <2>3. <<c, l>> \in Blocks
    BY <2>1 DEF Blocks, Columns
  <2>4. c # 0 /\ c # Cols - 1 /\ l # 0 /\ l # Lines - 1
    BY <2>2, <2>3 DEF SolidBorder
  <2> QED BY <2>1, <2>4, BoardAssumption
<1> USE BoardAssumption
<1>3. CASE o = "NORTH"
  <2>1. BlockAt(p.x, p.y - 1) \notin walls
    BY <1>3, FreeSides
  <2>2. 60 <= p.y - 1
    BY <2>1, <1>1, <1>2
  <2> QED BY <2>2, <1>1, <1>3, StepCoordinates, StepAligned DEF InFrame, Aligned, BLOCK, MOVEMENT_STEP
<1>4. CASE o = "EAST"
  <2>1. BlockAt(p.x + 60, p.y) \notin walls
    BY <1>4, FreeSides
  <2>2. p.x + 60 < 60 * Cols - 60
    BY <2>1, <1>1, <1>2
  <2>3. p.x + 5 + 120 <= 60 * Cols
    BY <2>2, <1>1, RoomAhead DEF BLOCK, MOVEMENT_STEP
  <2> QED BY <2>3, <1>1, <1>4, StepCoordinates, StepAligned DEF InFrame, Aligned, BLOCK, MOVEMENT_STEP
<1>5. CASE o = "SOUTH"
  <2>1. BlockAt(p.x, p.y + 60) \notin walls
    BY <1>5, FreeSides
  <2>2. p.y + 60 < 60 * Lines - 60
    BY <2>1, <1>1, <1>2
  <2>3. p.y + 5 + 120 <= 60 * Lines
    BY <2>2, <1>1, RoomAhead DEF BLOCK, MOVEMENT_STEP
  <2> QED BY <2>3, <1>1, <1>5, StepCoordinates, StepAligned DEF InFrame, Aligned, BLOCK, MOVEMENT_STEP
<1>6. CASE o = "WEST"
  <2>1. BlockAt(p.x - 1, p.y) \notin walls
    BY <1>6, FreeSides
  <2>2. 60 <= p.x - 1
    BY <2>1, <1>1, <1>2
  <2> QED BY <2>2, <1>1, <1>6, StepCoordinates, StepAligned DEF InFrame, Aligned, BLOCK, MOVEMENT_STEP
<1> QED BY <1>3, <1>4, <1>5, <1>6 DEF Orientations

(* A refresh leaves the character where it is or takes one step through a  *)
(* free side; a request is consumed only by turning to it.                 *)
LEMMA RefreshSteps ==
  ASSUME NEW walls, NEW p \in Characters, NEW autoMode \in BOOLEAN
  PROVE  LET r == refresh_position(p, walls, autoMode) IN
         /\ r \in Characters
         /\ \/ r = p
            \/ \E o \in Orientations :
                 /\ ~compute_collision(p, walls)[o]
                 /\ r.x = Step(p, o).x /\ r.y = Step(p, o).y /\ r.orientation = o
                 /\ \/ r.directionControl = p.directionControl
                    \/ /\ p.directionControl # "NONE" /\ o = Heading[p.directionControl]
                       /\ r.directionControl = "NONE"
<1> DEFINE r == refresh_position(p, walls, autoMode)
           hit == compute_collision(p, walls)
           want == Heading[p.directionControl]
<1>1. CASE p.directionControl # "NONE" /\ ~hit[want]
  <2>1. want \in Orientations
    BY <1>1 DEF Characters, Directions, Heading, Orientations
  <2>2. r = [Step(p, want) EXCEPT !.directionControl = "NONE"]
    BY <1>1 DEF refresh_position
  <2>3. Step(p, want) \in Characters /\ Step(p, want).orientation = want
    BY <2>1, StepCoordinates
  <2>4. r \in Characters /\ r.x = Step(p, want).x /\ r.y = Step(p, want).y
        /\ r.orientation = want /\ r.directionControl = "NONE"
    BY <2>2, <2>3 DEF Characters, Directions
  <2> QED BY <2>1, <2>4, <1>1
<1>2. CASE ~(p.directionControl # "NONE" /\ ~hit[want])
  <2>1. r = refresh_position_keepGoing(p, hit, autoMode)
    BY <1>2 DEF refresh_position
  <2>2. r = p \/ \E o \in Orientations : ~hit[o] /\ r = Step(p, o)
    BY <2>1 DEF refresh_position_keepGoing, randomDirection, Orientations, Characters
  <2> QED BY <2>2, StepCoordinates
<1> QED BY <1>1, <1>2

(* The four corners decide for all 3600 pixels of the box.                 *)
LEMMA WholeBoxClear ==
  ASSUME NEW walls, NEW p \in Characters, ClearOfWalls(p, walls)
  PROVE  \A dx, dy \in 0 .. 59 : BlockAt(p.x + dx, p.y + dy) \notin walls
<1> SUFFICES ASSUME NEW dx \in 0 .. 59, NEW dy \in 0 .. 59
             PROVE  BlockAt(p.x + dx, p.y + dy) \notin walls
  OBVIOUS
<1>1. p.x \in Int /\ p.y \in Int
  BY DEF Characters
<1>2. \A z \in Int, d \in 0 .. 59 : \E e \in {0, 59} : (z + d) \div 60 = (z + e) \div 60
  OBVIOUS
<1>3. PICK ex \in {0, 59} : (p.x + dx) \div 60 = (p.x + ex) \div 60
  BY <1>1, <1>2
<1>4. PICK ey \in {0, 59} : (p.y + dy) \div 60 = (p.y + ey) \div 60
  BY <1>1, <1>2
<1>5. BlockAt(p.x + dx, p.y + dy) = BlockAt(p.x + ex, p.y + ey)
  BY <1>3, <1>4 DEF BlockAt, BLOCK
<1> QED BY <1>5 DEF ClearOfWalls

(* What a refresh preserves.                                               *)
LEMMA RefreshStaysInFrame ==
  ASSUME NEW walls, SolidBorder(walls), NEW p \in Characters, NEW autoMode \in BOOLEAN,
         Aligned(p), InFrame(p)
  PROVE  LET r == refresh_position(p, walls, autoMode) IN Aligned(r) /\ InFrame(r)
<1> DEFINE r == refresh_position(p, walls, autoMode)
<1>1. CASE r = p
  BY <1>1
<1>2. CASE \E o \in Orientations : ~compute_collision(p, walls)[o]
                                   /\ r.x = Step(p, o).x /\ r.y = Step(p, o).y
  BY <1>2, UnblockedStepInFrame DEF Aligned, InFrame
<1> QED BY <1>1, <1>2, RefreshSteps

LEMMA RefreshStaysClear ==
  ASSUME NEW walls, NEW p \in Characters, NEW autoMode \in BOOLEAN,
         Aligned(p), ClearOfWalls(p, walls)
  PROVE  ClearOfWalls(refresh_position(p, walls, autoMode), walls)
<1> DEFINE r == refresh_position(p, walls, autoMode)
<1>1. CASE r = p
  BY <1>1
<1>2. CASE \E o \in Orientations : ~compute_collision(p, walls)[o]
                                   /\ r.x = Step(p, o).x /\ r.y = Step(p, o).y
  BY <1>2, UnblockedStepClear DEF ClearOfWalls
<1> QED BY <1>1, <1>2, RefreshSteps
(* Between two blocks a character can always go on along its line; in the  *)
(* middle of one it can go to an open neighbour, so it is never stuck on a *)
(* board without enclosed blocks.                                          *)
LEMMA SomeSideFree ==
  ASSUME NEW walls,
         \A b \in Blocks \ walls :
           \E n \in {<<b[1], b[2] - 1>>, <<b[1] + 1, b[2]>>, <<b[1], b[2] + 1>>, <<b[1] - 1, b[2]>>} :
             n \notin walls,
         NEW p \in Characters, Aligned(p), InFrame(p), ClearOfWalls(p, walls)
  PROVE  \E o \in Orientations : ~compute_collision(p, walls)[o]
<1> DEFINE i == p.x \div 60
           j == p.y \div 60
<1>1. /\ p.x \in Int /\ p.y \in Int /\ p.x % 5 = 0 /\ p.y % 5 = 0
      /\ 60 <= p.x /\ p.x + 120 <= 60 * Cols /\ 60 <= p.y /\ p.y + 120 <= 60 * Lines
  BY DEF Characters, Aligned, InFrame, BLOCK, MOVEMENT_STEP
<1>2. /\ BlockAt(p.x, p.y) \notin walls
      /\ BlockAt(p.x + 59, p.y) \notin walls
      /\ BlockAt(p.x, p.y + 59) \notin walls
      /\ BlockAt(p.x + 59, p.y + 59) \notin walls
  <2>1. /\ BlockAt(p.x + 0, p.y + 0) \notin walls
        /\ BlockAt(p.x + 59, p.y + 0) \notin walls
        /\ BlockAt(p.x + 0, p.y + 59) \notin walls
        /\ BlockAt(p.x + 59, p.y + 59) \notin walls
    BY DEF ClearOfWalls
  <2>2. \A z \in Int : z + 0 = z
    OBVIOUS
  <2>3. p.x + 0 = p.x /\ p.y + 0 = p.y
    BY <1>1, <2>2
  <2> QED BY <2>1, <2>3
<1>3. CASE p.x % 60 # 0
  <2>1. (p.x + 60) \div 60 = (p.x + 59) \div 60
    BY <1>1, <1>3
  <2>2. BlockAt(p.x + 60, p.y) \notin walls /\ BlockAt(p.x + 60, p.y + 59) \notin walls
    BY <1>2, <2>1 DEF BlockAt, BLOCK
  <2> QED BY <2>2, FreeSides DEF Orientations
<1>4. CASE p.y % 60 # 0
  <2>1. (p.y + 60) \div 60 = (p.y + 59) \div 60
    BY <1>1, <1>4
  <2>2. BlockAt(p.x, p.y + 60) \notin walls /\ BlockAt(p.x + 59, p.y + 60) \notin walls
    BY <1>2, <2>1 DEF BlockAt, BLOCK
  <2> QED BY <2>2, FreeSides DEF Orientations
<1>5. CASE p.x % 60 = 0 /\ p.y % 60 = 0
  <2>1. /\ (p.x + 59) \div 60 = i /\ (p.x + 60) \div 60 = i + 1 /\ (p.x - 1) \div 60 = i - 1
        /\ (p.y + 59) \div 60 = j /\ (p.y + 60) \div 60 = j + 1 /\ (p.y - 1) \div 60 = j - 1
    BY <1>1, <1>5
  <2>2. i \in 0 .. Cols - 1 /\ j \in 0 .. Lines - 1
    BY <1>1, BoardAssumption
  <2>3. <<i, j>> \in Blocks \ walls
    BY <1>2, <2>2 DEF BlockAt, BLOCK, Blocks, Columns
  <2>4. PICK n \in {<<i, j - 1>>, <<i + 1, j>>, <<i, j + 1>>, <<i - 1, j>>} : n \notin walls
    BY <2>3
  <2>5. CASE n = <<i, j - 1>>
    <3>1. BlockAt(p.x, p.y - 1) = n /\ BlockAt(p.x + 59, p.y - 1) = n
      BY <2>1, <2>5 DEF BlockAt, BLOCK
    <3> QED BY <2>4, <3>1, FreeSides DEF Orientations
  <2>6. CASE n = <<i + 1, j>>
    <3>1. BlockAt(p.x + 60, p.y) = n /\ BlockAt(p.x + 60, p.y + 59) = n
      BY <2>1, <2>6 DEF BlockAt, BLOCK
    <3> QED BY <2>4, <3>1, FreeSides DEF Orientations
  <2>7. CASE n = <<i, j + 1>>
    <3>1. BlockAt(p.x, p.y + 60) = n /\ BlockAt(p.x + 59, p.y + 60) = n
      BY <2>1, <2>7 DEF BlockAt, BLOCK
    <3> QED BY <2>4, <3>1, FreeSides DEF Orientations
  <2>8. CASE n = <<i - 1, j>>
    <3>1. BlockAt(p.x - 1, p.y) = n /\ BlockAt(p.x - 1, p.y + 59) = n
      BY <2>1, <2>8 DEF BlockAt, BLOCK
    <3> QED BY <2>4, <3>1, FreeSides DEF Orientations
  <2> QED BY <2>4, <2>5, <2>6, <2>7, <2>8
<1> QED BY <1>3, <1>4, <1>5

(* In automatic mode a free side is always taken.                          *)
LEMMA AutoModeMoves ==
  ASSUME NEW walls, NEW p \in Characters,
         \E o \in Orientations : ~compute_collision(p, walls)[o]
  PROVE  LET r == refresh_position(p, walls, TRUE) IN <<r.x, r.y>> # <<p.x, p.y>>
<1> DEFINE r == refresh_position(p, walls, TRUE)
           hit == compute_collision(p, walls)
           want == Heading[p.directionControl]
<1>1. p.x \in Int /\ p.y \in Int
  BY DEF Characters
<1>2. \A o \in Orientations : <<Step(p, o).x, Step(p, o).y>> # <<p.x, p.y>>
  BY <1>1, StepCoordinates DEF Orientations
<1>3. CASE p.directionControl # "NONE" /\ ~hit[want]
  <2>1. want \in Orientations
    BY <1>3 DEF Characters, Directions, Heading, Orientations
  <2>2. r = [Step(p, want) EXCEPT !.directionControl = "NONE"]
    BY <1>3 DEF refresh_position
  <2>3. Step(p, want) \in Characters
    BY <2>1, StepCoordinates
  <2>4. r.x = Step(p, want).x /\ r.y = Step(p, want).y
    BY <2>2, <2>3 DEF Characters
  <2> QED BY <1>2, <2>1, <2>4
<1>4. CASE ~(p.directionControl # "NONE" /\ ~hit[want])
  <2>1. r = refresh_position_keepGoing(p, hit, TRUE)
    BY <1>4 DEF refresh_position
  <2>2. \E o \in Orientations : r = Step(p, o)
    BY <2>1 DEF refresh_position_keepGoing, randomDirection, Orientations, Characters
  <2> QED BY <1>2, <2>2
<1> QED BY <1>3, <1>4

(***************************************************************************)
(* Type correctness.  The walks over the lines of the array stop in time.  *)
(***************************************************************************)
Loop == {"clear", "register", "loop", "show"}
LinesInRange ==
  /\ main \in {"fill", "scan"} => line < Lines
  /\ main \in Loop => line = 0
TypeInv == TypeOK /\ LinesInRange

LEMMA StoreType ==
  ASSUME NEW layer \in SUBSET (Columns \X (0 .. Lines)), NEW l \in 0 .. Lines,
         NEW columns \in SUBSET Columns
  PROVE  Store(layer, l, columns) \in SUBSET (Columns \X (0 .. Lines))
BY DEF Store, Word

LEMMA LatchType ==
  ASSUME NEW memory \in SUBSET (Columns \X (0 .. Lines)), NEW data \in SUBSET Columns,
         NEW wr \in [line : 0 .. Lines, enable : BOOLEAN]
  PROVE  Latch(memory, data, wr) \in SUBSET (Columns \X (0 .. Lines))
BY StoreType DEF Latch

LEMMA TypeInit == Init => TypeInv
<1> SUFFICES ASSUME Init PROVE TypeInv
  OBVIOUS
<1>1. chars \in [Chars -> Characters]
  BY OutsideAssumption DEF Init, Characters, Orientations
<1> QED BY <1>1, GhostsAssumption, BoardAssumption, PeriodAssumption
        DEF Init, TypeInv, TypeOK, LinesInRange, Loop, Labels, InitGame, Chars

LEMMA DigitsType ==
  ASSUME NEW n \in Nat
  PROVE  Digits(n) \in Seq(Nat)
<1>1. n % 10 \in Nat /\ (n % 100) \div 10 \in Nat /\ n \div 100 \in Nat
  OBVIOUS
<1> QED BY <1>1 DEF Digits

LEMMA TypeNext == TypeInv /\ [Next]_vars => TypeInv'
<1> SUFFICES ASSUME TypeInv, [Next]_vars PROVE TypeInv'
  OBVIOUS
<1> USE GhostsAssumption, BoardAssumption, PeriodAssumption
<1> USE DEF ram, irqs, locals, foodPort, outputs, history
<1>1. ASSUME NEW i \in {"REFRESH"} \cup Pressed, Edge(i)
      PROVE  TypeInv'
  BY <1>1, OutsideAssumption DEF TypeInv, TypeOK, LinesInRange, Loop, Edge, Buttons, Interrupts
<1>2. CASE refresh_position_interrupt_handler
  <2>1. chars' \in [Chars -> Characters]
    BY <1>2, RefreshSteps DEF TypeInv, TypeOK, LinesInRange, Loop, refresh_position_interrupt_handler
  <2>2. refresh_food_layer(chars'[0])
    BY <1>2 DEF refresh_position_interrupt_handler
  <2>3. /\ food' \subseteq Dots /\ score' \in Nat /\ foodData' \subseteq Columns
        /\ foodWr' \in [line : 0 .. Lines, enable : BOOLEAN]
        /\ foodMemory' \subseteq Columns \X (0 .. Lines)
    <3> DEFINE block == BlockAt(chars'[0].x + 30, chars'[0].y + 30)
               left == LineOf(food \ {block}, block[2])
    <3>1. CASE block \in food
      <4>1. food' = food \ {block} /\ foodData' = left
            /\ foodWr' = [line |-> block[2], enable |-> FALSE]
            /\ foodMemory' = Store(Latch(foodMemory, left, foodWr), block[2], left)
            /\ score' = (score + 1) % 65536
        BY <2>2, <3>1 DEF refresh_food_layer, EatDot, get_block_with_coordinates
      <4>2. block[2] \in 0 .. Lines - 1
        BY <3>1 DEF TypeInv, TypeOK, LinesInRange, Loop, Dots, Blocks
      <4>3. left \subseteq Columns
        BY DEF LineOf
      <4> HIDE DEF block, left
      <4>4. foodMemory' \subseteq Columns \X (0 .. Lines)
        <5>1. Latch(foodMemory, left, foodWr) \in SUBSET (Columns \X (0 .. Lines))
          BY <4>3, LatchType DEF TypeInv, TypeOK, LinesInRange, Loop
        <5>2. block[2] \in 0 .. Lines /\ left \in SUBSET Columns
          BY <4>2, <4>3
        <5>3. Store(Latch(foodMemory, left, foodWr), block[2], left)
                \in SUBSET (Columns \X (0 .. Lines))
          BY <5>1, <5>2, StoreType
        <5> QED BY <4>1, <5>3
      <4>5. food' \subseteq Dots /\ score' \in Nat
        <5>1. food \subseteq Dots /\ score \in Nat
          BY DEF TypeInv, TypeOK
        <5> QED BY <4>1, <5>1
      <4>6. foodWr' \in [line : 0 .. Lines, enable : BOOLEAN]
        BY <4>1, <4>2
      <4> QED BY <4>1, <4>3, <4>4, <4>5, <4>6
    <3>2. CASE block \notin food
      BY <2>2, <3>2 DEF TypeInv, TypeOK, LinesInRange, Loop, refresh_food_layer, get_block_with_coordinates
    <3> QED BY <3>1, <3>2
  <2>4. pending' \subseteq Interrupts
    BY <1>2 DEF TypeInv, TypeOK, LinesInRange, Loop, refresh_position_interrupt_handler, Serving
  <2>5. torn' \subseteq Chars /\ stale' \subseteq 0 .. Lines
    BY <1>2, <2>3 DEF TypeInv, TypeOK, LinesInRange, Loop, refresh_position_interrupt_handler, Dots, Blocks
  <2>6. UNCHANGED <<enabled, frames, main, locals, outputs>>
    BY <1>2 DEF refresh_position_interrupt_handler
  <2> QED BY <2>1, <2>3, <2>4, <2>5, <2>6 DEF TypeInv, TypeOK, LinesInRange, Loop
<1>3. ASSUME NEW b \in Buttons, ButtonHandler(b)
      PROVE  TypeInv'
  <2>1. Request[b] \in Directions
    BY DEF Buttons, Interrupts, Request, Directions
  <2>2. chars' \in [Chars -> Characters]
    BY <1>3, <2>1 DEF ButtonHandler, TypeInv, TypeOK, LinesInRange, Loop, Characters, Chars
  <2> QED BY <1>3, <2>2 DEF ButtonHandler, Serving, TypeInv, TypeOK, LinesInRange, Loop
<1>4. CASE ResetScore
  BY <1>4 DEF ResetScore, TypeInv, TypeOK, LinesInRange, Loop, Labels, InitGame, Placing, Chars
<1>5. CASE InitPositionX
  <2>1. BLOCK * Start[ch][1] \in Int
    BY StartAssumption DEF TypeInv, TypeOK, LinesInRange, Loop, BLOCK, Blocks, Columns
  <2>2. chars' \in [Chars -> Characters]
    BY <1>5, <2>1 DEF InitPositionX, TypeInv, TypeOK, LinesInRange, Loop, Characters
  <2> QED BY <1>5, <2>2 DEF InitPositionX, TypeInv, TypeOK, LinesInRange, Loop, Labels, InitGame, Placing
<1>6. CASE InitPositionY
  <2>1. BLOCK * Start[ch][2] \in Int
    BY StartAssumption DEF TypeInv, TypeOK, LinesInRange, Loop, BLOCK, Blocks
  <2>2. chars' \in [Chars -> Characters]
    BY <1>6, <2>1 DEF InitPositionY, TypeInv, TypeOK, LinesInRange, Loop, Characters
  <2> QED BY <1>6, <2>2 DEF InitPositionY, TypeInv, TypeOK, LinesInRange, Loop, Labels, InitGame, Placing
<1>7. CASE InitPositionFacing
  <2>1. chars' \in [Chars -> Characters]
    BY <1>7, StartAssumption DEF InitPositionFacing, TypeInv, TypeOK, Characters
  <2>2. ch' \in Chars
    <3>1. ch \in Chars /\ NGhosts \in Nat
      BY GhostsAssumption DEF TypeInv, TypeOK
    <3>2. (ch' = ch + 1 /\ ch < NGhosts) \/ ch' = 0
      BY <1>7 DEF InitPositionFacing
    <3> QED BY <3>1, <3>2 DEF Chars
  <2>3. main' \in Labels /\ main' \notin {"fill", "scan"} \cup Loop
    BY <1>7 DEF InitPositionFacing, Labels, InitGame, Placing, Loop
  <2> QED BY <1>7, <2>1, <2>2, <2>3 DEF InitPositionFacing, TypeInv, TypeOK, LinesInRange, Loop
<1>8. CASE set_background_in_memory
  <2>1. backgroundMemory' \subseteq Columns \X (0 .. Lines)
    BY <1>8, OutsideAssumption, WallsAssumption DEF set_background_in_memory, Word, Blocks
  <2> QED BY <1>8, <2>1 DEF set_background_in_memory, TypeInv, TypeOK, LinesInRange, Loop, Labels, InitGame
<1>9. CASE init_foodLayer
  <2>1. Columns \ LineOf(CharBackground, line) = {c \in Columns : <<c, line>> \notin CharBackground}
    BY DEF LineOf
  <2>2. food' \subseteq Dots
    BY <1>9, <2>1 DEF init_foodLayer, At, TypeInv, TypeOK, LinesInRange, Loop, Store, Word, Dots, Blocks
  <2>3. /\ line' \in 0 .. Lines /\ main' \in Labels /\ main' \notin Loop \cup {"scan"}
        /\ main' = "fill" => line' < Lines
    BY <1>9 DEF init_foodLayer, At, TypeInv, TypeOK, LinesInRange, Loop, Labels, InitGame, Sending
  <2>4. UNCHANGED <<chars, score, irqs, ch, word, number, whileCounter, foodPort, outputs, history>>
    BY <1>9 DEF init_foodLayer
  <2> QED BY <2>2, <2>3, <2>4 DEF TypeInv, TypeOK, LinesInRange, Loop
<1>10. CASE set_foodLayer_in_memory
  <2> USE DEF Labels, InitGame, Sending
  <2>1. CASE FetchLine
    BY <2>1, OutsideAssumption DEF FetchLine, TypeInv, TypeOK, LinesInRange, Loop, LineOf
  <2>2. CASE SendData
    BY <2>2, LatchType DEF SendData, TypeInv, TypeOK, LinesInRange, Loop
  <2>3. ASSUME NEW l, NEW next \in Labels \ {"fill", "scan"}, NEW enable \in BOOLEAN,
               WritePulse(l, next, enable), line' \in 0 .. Lines, frames' \in 0 .. FRAMES_PER_INIT,
               next \in Loop => line' = 0
        PROVE  TypeInv'
    <3>1. foodWr' \in [line : 0 .. Lines, enable : BOOLEAN]
      BY <2>3 DEF WritePulse, TypeInv, TypeOK, LinesInRange, Loop
    <3>2. foodMemory' \subseteq Columns \X (0 .. Lines)
      BY <2>3, <3>1, LatchType DEF WritePulse, TypeInv, TypeOK, LinesInRange, Loop
    <3>3. /\ main' = next
          /\ UNCHANGED <<ram, pending, enabled, ch, word, number, whileCounter, foodData,
                        outputs, history>>
      BY <2>3 DEF WritePulse
    <3> QED BY <2>3, <3>1, <3>2, <3>3 DEF TypeInv, TypeOK, LinesInRange, Loop
  <2>4. CASE SendAddress
    <3>1. WritePulse("address", "strobe", FALSE) /\ line' = line /\ frames' = frames
      BY <2>4 DEF SendAddress
    <3> QED BY <2>3, <3>1 DEF TypeInv, TypeOK, LinesInRange, Loop
  <2>5. CASE SendStrobe
    <3>1. WritePulse("strobe", "release", TRUE) /\ line' = line /\ frames' = frames
      BY <2>5 DEF SendStrobe
    <3> QED BY <2>3, <3>1 DEF TypeInv, TypeOK, LinesInRange, Loop
  <2>6. CASE SendRelease
    <3>1. CASE line < Lines
      <4>1. WritePulse("release", "fetch", FALSE) /\ line' = line + 1 /\ frames' = frames
        BY <2>6, <3>1 DEF SendRelease
      <4>2. line' \in 0 .. Lines /\ frames' \in 0 .. FRAMES_PER_INIT
        BY <3>1, <4>1 DEF TypeInv, TypeOK
      <4>3. "fetch" \in Labels \ {"fill", "scan"} /\ "fetch" \notin Loop
        BY DEF Loop
      <4> QED BY <2>3, <4>1, <4>2, <4>3
    <3>2. CASE ~(line < Lines)
      <4>1. /\ WritePulse("release", IF Booting THEN "clear" ELSE "loop", FALSE)
            /\ line' = 0 /\ frames' = 0
        BY <2>6, <3>2 DEF SendRelease
      <4>2. (IF Booting THEN "clear" ELSE "loop") \in Labels \ {"fill", "scan"}
        OBVIOUS
      <4>3. line' \in 0 .. Lines /\ frames' \in 0 .. FRAMES_PER_INIT /\ line' = 0
        BY <4>1
      <4> QED BY <2>3, <4>1, <4>2, <4>3
    <3> QED BY <3>1, <3>2
  <2> QED BY <1>10, <2>1, <2>2, <2>4, <2>5, <2>6 DEF set_foodLayer_in_memory
<1>11. CASE ClearEdges
  BY <1>11 DEF ClearEdges, At, TypeInv, TypeOK, LinesInRange, Loop, Labels
<1>12. CASE RegisterHandler
  BY <1>12 DEF RegisterHandler, At, TypeInv, TypeOK, LinesInRange, Loop, Labels
<1>13. CASE ReadScore
  BY <1>13 DEF ReadScore, At, TypeInv, TypeOK, LinesInRange, Loop, Labels
<1>14. CASE display_number
  <2>1. whileCounter' \in 0 .. SCAN_PERIOD
    BY <1>14 DEF display_number, TypeInv, TypeOK, LinesInRange, Loop
  <2>2. main' \in Labels /\ line = 0
    BY <1>14 DEF display_number, At, Labels, InitGame, TypeInv, LinesInRange, Loop
  <2>3. display' \in Seq(Nat)
    <3>1. number \in Nat
      BY DEF TypeInv, TypeOK
    <3> QED BY <1>14, <3>1, DigitsType DEF display_number
  <2> QED BY <1>14, <2>1, <2>2, <2>3 DEF display_number, TypeInv, TypeOK, LinesInRange, Loop
<1>15. CASE food_layer_empty
  BY <1>15 DEF food_layer_empty, At, TypeInv, TypeOK, LinesInRange, Loop, Labels, InitGame
<1>16. CASE UNCHANGED vars
  BY <1>16 DEF vars, TypeInv, TypeOK, LinesInRange, Loop
<1> QED BY <1>1, <1>2, <1>3, <1>4, <1>5, <1>6, <1>7, <1>8, <1>9, <1>10, <1>11, <1>12,
           <1>13, <1>14, <1>15, <1>16 DEF Next, Handler, MainStep, init_position

(* Every variable keeps its type in every reachable state.                 *)
THEOREM TypeCorrect == Spec => []TypeOK
<1>1. Spec => []TypeInv
  BY TypeInit, TypeNext, PTL DEF Spec
<1> QED BY <1>1, PTL DEF TypeInv

(***************************************************************************)
(* Where the characters can be: inside the frame at every refresh, and off *)
(* the walls except when a refresh fell between the two stores of          *)
(* init_position.  The difficulty is init_game, which runs with the        *)
(* refresh interrupt off at boot and on at every later game.               *)
(***************************************************************************)

(* What init_game has stored by now: at boot nothing before it comes to a  *)
(* character, later always something, at worst that of the last game.      *)
XPlaced(c) ==
  Booting => /\ main # "score"
             /\ main \in Placing => c < ch \/ (c = ch /\ main # "posX")
YPlaced(c) ==
  Booting => /\ main # "score"
             /\ main \in Placing => c < ch \/ (c = ch /\ main = "facing")

Across(p) == p.x % MOVEMENT_STEP = 0 /\ BLOCK <= p.x /\ p.x + 2 * BLOCK <= BLOCK * Cols
Down(p) == p.y % MOVEMENT_STEP = 0 /\ BLOCK <= p.y /\ p.y + 2 * BLOCK <= BLOCK * Lines

HalfPlaced(c) == main = "posY" /\ ch = c

(* The inductive invariant. *)
FrameInv(c) ==
  /\ XPlaced(c) => Across(chars[c])
  /\ YPlaced(c) => Down(chars[c])
WallInv(c) ==
  /\ YPlaced(c) => c \in torn \/ HalfPlaced(c) \/ ClearOfWalls(chars[c], Background(c))
  /\ HalfPlaced(c) /\ c \notin torn => chars[c].x = BLOCK * Start[c][1]
PlaceInv == \A c \in Chars : FrameInv(c) /\ WallInv(c)

(* A starting block is inside the ring of border blocks, and a character   *)
(* placed on it covers that block only.                                    *)
LEMMA StartInside ==
  ASSUME NEW c \in Chars
  PROVE  LET x == BLOCK * Start[c][1]
             y == BLOCK * Start[c][2]
         IN  /\ x \in Int /\ x % MOVEMENT_STEP = 0 /\ BLOCK <= x /\ x + 2 * BLOCK <= BLOCK * Cols
             /\ y \in Int /\ y % MOVEMENT_STEP = 0 /\ BLOCK <= y /\ y + 2 * BLOCK <= BLOCK * Lines
             /\ \A dx \in {0, 59}, dy \in {0, 59} : BlockAt(x + dx, y + dy) = Start[c]
<1> DEFINE i == Start[c][1]
           j == Start[c][2]
<1>1. /\ Start[c] \in Blocks /\ Start[c] = <<i, j>>
      /\ i \in 0 .. Cols - 1 /\ j \in 0 .. Lines - 1
  BY StartAssumption DEF Blocks, Columns
<1>2. Start[c] \notin Background(c) /\ SolidBorder(Background(c))
  BY StartAssumption, WallsAssumption DEF Background
<1>3. i # 0 /\ i # Cols - 1 /\ j # 0 /\ j # Lines - 1
  BY <1>1, <1>2 DEF SolidBorder
<1> HIDE DEF i, j
<1>4. /\ 60 * i \in Int /\ (60 * i) % 5 = 0 /\ 60 <= 60 * i /\ 60 * i + 120 <= 60 * Cols
      /\ 60 * j \in Int /\ (60 * j) % 5 = 0 /\ 60 <= 60 * j /\ 60 * j + 120 <= 60 * Lines
  BY <1>1, <1>3, BoardAssumption
<1>5. \A d \in {0, 59} : (60 * i + d) \div 60 = i /\ (60 * j + d) \div 60 = j
  BY <1>1
<1>6. \A dx \in {0, 59}, dy \in {0, 59} : BlockAt(60 * i + dx, 60 * j + dy) = Start[c]
  BY <1>1, <1>5 DEF BlockAt, BLOCK
<1> QED BY <1>4, <1>6 DEF BLOCK, MOVEMENT_STEP, i, j

LEMMA PlaceInit == Init => PlaceInv
BY DEF Init, PlaceInv, FrameInv, WallInv, XPlaced, YPlaced, HalfPlaced, Booting

(* A step that moves nobody, stores no position and places nobody keeps    *)
(* the invariant.                                                          *)
LEMMA PlaceUnmoved ==
  ASSUME PlaceInv,
         \A c \in Chars : chars'[c].x = chars[c].x /\ chars'[c].y = chars[c].y,
         torn' = torn,
         \A c \in Chars : XPlaced(c)' => XPlaced(c),
         \A c \in Chars : YPlaced(c)' => YPlaced(c),
         \A c \in Chars : HalfPlaced(c)' <=> HalfPlaced(c)
  PROVE  PlaceInv'
BY DEF PlaceInv, FrameInv, WallInv, Across, Down, ClearOfWalls

LEMMA PlaceNext == TypeInv /\ PlaceInv /\ [Next]_vars => PlaceInv'
<1> SUFFICES ASSUME TypeInv, PlaceInv, [Next]_vars PROVE PlaceInv'
  OBVIOUS
<1> USE DEF ram, irqs, locals, foodPort, outputs, history
<1>0. /\ chars \in [Chars -> Characters] /\ ch \in Chars
      /\ \A c \in Chars : chars[c] \in Characters
  BY DEF TypeInv, TypeOK
<1>1. ASSUME UNCHANGED <<chars, torn, enabled, main, ch>> PROVE PlaceInv'
  BY <1>1 DEF PlaceInv, FrameInv, WallInv, XPlaced, YPlaced, HalfPlaced, Booting
<1>2. CASE refresh_position_interrupt_handler
  <2>1. /\ \A c \in Chars : chars'[c] = refresh_position(chars[c], Background(c), c # 0)
        /\ ~Booting /\ UNCHANGED <<enabled, main, ch>>
        /\ torn' = torn \cup IF main = "posY" THEN {ch} ELSE {}
    BY <1>2 DEF refresh_position_interrupt_handler, Serving, Booting
  <2>2. ~Booting' /\ \A c \in Chars : HalfPlaced(c)' <=> HalfPlaced(c)
    BY <2>1 DEF Booting, HalfPlaced
  <2> SUFFICES ASSUME NEW c \in Chars PROVE FrameInv(c)' /\ WallInv(c)'
    BY DEF PlaceInv
  <2>3. Aligned(chars[c]) /\ InFrame(chars[c])
    BY <2>1 DEF PlaceInv, FrameInv, XPlaced, YPlaced, Across, Down, Aligned, InFrame
  <2>4. SolidBorder(Background(c))
    BY WallsAssumption DEF Background
  <2>5. Aligned(chars'[c]) /\ InFrame(chars'[c])
    BY <1>0, <2>1, <2>3, <2>4, RefreshStaysInFrame
  <2>6. FrameInv(c)'
    BY <2>5 DEF FrameInv, Across, Down, Aligned, InFrame
  <2>7. CASE HalfPlaced(c)
    BY <2>1, <2>2, <2>6, <2>7 DEF WallInv, HalfPlaced
  <2>8. CASE ~HalfPlaced(c)
    <3>1. c \in torn \/ ClearOfWalls(chars[c], Background(c))
      BY <2>1, <2>8 DEF PlaceInv, WallInv, YPlaced
    <3>2. c \in torn' \/ ClearOfWalls(chars'[c], Background(c))
      BY <1>0, <2>1, <2>3, <3>1, RefreshStaysClear
    <3> QED BY <2>2, <2>6, <2>8, <3>2 DEF WallInv
  <2> QED BY <2>6, <2>7, <2>8
<1>3. ASSUME NEW b \in Buttons, ButtonHandler(b) PROVE PlaceInv'
  <2>1. \A c \in Chars : chars'[c].x = chars[c].x /\ chars'[c].y = chars[c].y
    BY <1>0, <1>3 DEF ButtonHandler, Characters
  <2>2. UNCHANGED <<torn, enabled, main, ch>>
    BY <1>3 DEF ButtonHandler
  <2> QED BY <2>1, <2>2, PlaceUnmoved DEF XPlaced, YPlaced, HalfPlaced, Booting
<1>4. CASE ResetScore
  BY <1>0, <1>4, PlaceUnmoved, GhostsAssumption
     DEF ResetScore, At, XPlaced, YPlaced, HalfPlaced, Booting, Placing, Chars
<1>5. CASE InitPositionX
  <2>1. /\ main = "posX" /\ main' = "posY" /\ UNCHANGED <<ch, enabled>>
        /\ torn' = torn \ {ch}
        /\ chars'[ch].x = BLOCK * Start[ch][1] /\ chars'[ch].y = chars[ch].y
        /\ \A c \in Chars \ {ch} : chars'[c] = chars[c]
    BY <1>0, <1>5 DEF InitPositionX, At, Characters
  <2> SUFFICES ASSUME NEW c \in Chars PROVE FrameInv(c)' /\ WallInv(c)'
    BY DEF PlaceInv
  <2>2. /\ XPlaced(c)' => XPlaced(c) \/ c = ch
        /\ YPlaced(c)' => YPlaced(c)
        /\ HalfPlaced(c)' <=> c = ch
        /\ ~HalfPlaced(c)
    BY <2>1 DEF XPlaced, YPlaced, HalfPlaced, Booting, Placing
  <2>3. CASE c = ch
    BY <2>1, <2>2, <2>3, StartInside DEF PlaceInv, FrameInv, WallInv, Across, Down
  <2>4. CASE c # ch
    BY <2>1, <2>2, <2>4 DEF PlaceInv, FrameInv, WallInv, Across, Down, ClearOfWalls
  <2> QED BY <2>3, <2>4
<1>6. CASE InitPositionY
  <2>1. /\ main = "posY" /\ main' = "facing" /\ UNCHANGED <<ch, enabled, torn>>
        /\ chars'[ch].y = BLOCK * Start[ch][2] /\ chars'[ch].x = chars[ch].x
        /\ \A c \in Chars \ {ch} : chars'[c] = chars[c]
    BY <1>0, <1>6 DEF InitPositionY, At, Characters
  <2> SUFFICES ASSUME NEW c \in Chars PROVE FrameInv(c)' /\ WallInv(c)'
    BY DEF PlaceInv
  <2>2. /\ XPlaced(c)' => XPlaced(c)
        /\ YPlaced(c)' => YPlaced(c) \/ c = ch
        /\ ~HalfPlaced(c)'
        /\ HalfPlaced(c) <=> c = ch
    BY <2>1 DEF XPlaced, YPlaced, HalfPlaced, Booting, Placing
  <2>3. CASE c = ch
    <3>1. FrameInv(c)'
      BY <2>1, <2>2, <2>3, StartInside DEF PlaceInv, FrameInv, Across, Down
    <3>2. c \in torn \/ ClearOfWalls(chars'[c], Background(c))
      BY <2>1, <2>2, <2>3, StartInside, StartAssumption DEF PlaceInv, WallInv, ClearOfWalls
    <3> QED BY <2>1, <2>2, <3>1, <3>2 DEF WallInv, Background
  <2>4. CASE c # ch
    BY <2>1, <2>2, <2>4 DEF PlaceInv, FrameInv, WallInv, Across, Down, ClearOfWalls
  <2> QED BY <2>3, <2>4
<1>7. CASE InitPositionFacing
  <2>1. /\ main = "facing" /\ UNCHANGED <<enabled, torn>>
        /\ \/ ch < NGhosts /\ ch' = ch + 1 /\ main' = "posX"
           \/ ~(ch < NGhosts) /\ ch' = 0 /\ main' = "background"
        /\ \A c \in Chars : chars'[c].x = chars[c].x /\ chars'[c].y = chars[c].y
    BY <1>0, <1>7 DEF InitPositionFacing, At, Characters
  <2>2. \A c \in Chars : c < ch + 1 => c < ch \/ c = ch
    BY <1>0 DEF Chars
  <2>3. ~(ch < NGhosts) => \A c \in Chars : c < ch \/ c = ch
    BY <1>0, GhostsAssumption DEF Chars
  <2>4. \A c \in Chars : /\ XPlaced(c)' => XPlaced(c)
                         /\ YPlaced(c)' => YPlaced(c)
                         /\ HalfPlaced(c)' <=> HalfPlaced(c)
    BY <2>1, <2>2, <2>3 DEF XPlaced, YPlaced, HalfPlaced, Booting, Placing
  <2> QED BY <2>1, <2>4, PlaceUnmoved
<1>8. ASSUME UNCHANGED <<chars, torn, enabled>>,
             main \notin {"score"} \cup Placing, main' \notin Placing
      PROVE  PlaceInv'
  BY <1>8, PlaceUnmoved DEF XPlaced, YPlaced, HalfPlaced, Booting, Placing
<1>9. CASE set_background_in_memory
  BY <1>8, <1>9 DEF set_background_in_memory, At, Placing
<1>10. CASE init_foodLayer
  BY <1>8, <1>10 DEF init_foodLayer, At, Placing
<1>11. CASE set_foodLayer_in_memory
  <2>1. CASE FetchLine
    BY <1>8, <2>1 DEF FetchLine, At, Placing
  <2>2. CASE SendData
    BY <1>8, <2>2 DEF SendData, At, Placing
  <2>3. CASE SendAddress \/ SendStrobe \/ SendRelease
    BY <1>8, <2>3 DEF SendAddress, SendStrobe, SendRelease, WritePulse, At, Placing
  <2> QED BY <1>11, <2>1, <2>2, <2>3 DEF set_foodLayer_in_memory
<1>12. CASE ClearEdges
  BY <1>8, <1>12 DEF ClearEdges, At, Placing
<1>13. CASE RegisterHandler
  BY <1>13, PlaceUnmoved DEF RegisterHandler, At, XPlaced, YPlaced, HalfPlaced, Booting, Placing
<1>14. CASE ReadScore \/ display_number
  BY <1>8, <1>14 DEF ReadScore, display_number, At, Placing
<1>15. CASE food_layer_empty
  BY <1>15, PlaceUnmoved DEF food_layer_empty, At, XPlaced, YPlaced, HalfPlaced, Booting, Placing
<1>16. ASSUME NEW i \in {"REFRESH"} \cup Pressed, Edge(i) PROVE PlaceInv'
  BY <1>1, <1>16 DEF Edge
<1>17. CASE UNCHANGED vars
  BY <1>1, <1>17 DEF vars
<1> QED BY <1>2, <1>3, <1>4, <1>5, <1>6, <1>7, <1>9, <1>10, <1>11, <1>12, <1>13, <1>14,
           <1>15, <1>16, <1>17 DEF Next, Handler, MainStep, init_position

LEMMA PlaceAlways == Spec => [](TypeInv /\ PlaceInv)
<1>1. Init => TypeInv /\ PlaceInv
  BY TypeInit, PlaceInit
<1>2. TypeInv /\ PlaceInv /\ [Next]_vars => (TypeInv /\ PlaceInv)'
  BY TypeNext, PlaceNext
<1> QED BY <1>1, <1>2, PTL DEF Spec

(* main.c:18-20: no refresh finds or leaves a character out of the frame,  *)
(* not even one that runs between the stores of init_position.             *)
THEOREM FrameSafe == Spec => []NeverOutOfFrame
<1>1. PlaceInv => NeverOutOfFrame
  BY DEF PlaceInv, FrameInv, XPlaced, YPlaced, Across, Down, NeverOutOfFrame, Aligned, InFrame
<1> QED BY <1>1, PlaceAlways, PTL

(* A character is on a wall only after a refresh between the stores of its *)
(* init_position: init_position alone and refreshes alone never put it     *)
(* there.                                                                  *)
THEOREM WallsSafe == Spec => []WallSafety
<1>1. PlaceInv => WallSafety
  BY DEF PlaceInv, WallInv, YPlaced, HalfPlaced, WallSafety
<1> QED BY <1>1, PlaceAlways, PTL

(* A ghost that is on no wall is never stuck, whatever direction request   *)
(* the uninitialised structure left it: every refresh moves it, onto no    *)
(* wall.  This needs a maze without enclosed blocks.                       *)
THEOREM GhostsMove == Spec => GhostsKeepMoving
<1> DEFINE Moves ==
      refresh_position_interrupt_handler =>
        \A c \in Chars \ {0} :
          (~Booting /\ ClearOfWalls(chars[c], Background(c))) =>
            /\ <<chars'[c].x, chars'[c].y>> # <<chars[c].x, chars[c].y>>
            /\ ClearOfWalls(chars'[c], Background(c))
<1>1. TypeInv /\ PlaceInv => [Moves]_vars
  <2> SUFFICES ASSUME TypeInv, PlaceInv, refresh_position_interrupt_handler,
                      NEW c \in Chars \ {0}, ~Booting,
                      ClearOfWalls(chars[c], Background(c))
               PROVE  /\ <<chars'[c].x, chars'[c].y>> # <<chars[c].x, chars[c].y>>
                      /\ ClearOfWalls(chars'[c], Background(c))
    BY DEF Moves
  <2>1. chars[c] \in Characters
    BY DEF TypeInv, TypeOK
  <2>2. chars'[c] = refresh_position(chars[c], GhostBackground, TRUE) /\ Background(c) = GhostBackground
    BY DEF refresh_position_interrupt_handler, Background
  <2>3. Aligned(chars[c]) /\ InFrame(chars[c])
    BY DEF PlaceInv, FrameInv, XPlaced, YPlaced, Across, Down, Aligned, InFrame
  <2>4. \E o \in Orientations : ~compute_collision(chars[c], GhostBackground)[o]
    BY <2>1, <2>2, <2>3, SomeSideFree, RoomAssumption
  <2>5. <<chars'[c].x, chars'[c].y>> # <<chars[c].x, chars[c].y>>
    BY <2>1, <2>2, <2>4, AutoModeMoves
  <2>6. ClearOfWalls(chars'[c], Background(c))
    BY <2>1, <2>2, <2>3, RefreshStaysClear
  <2> QED BY <2>5, <2>6
<1>2. [](TypeInv /\ PlaceInv) => [][Moves]_vars
  BY <1>1, PTL
<1> QED BY <1>2, PlaceAlways, PTL DEF GhostsKeepMoving

(* Nothing but a turn to the requested direction, or another request,      *)
(* removes a request: not a refresh that cannot take it, not a restart.    *)
THEOREM RequestsKept == Spec => RequestsAreKept
<1> DEFINE Keeps(c) ==
      \/ chars'[c].directionControl = chars[c].directionControl
      \/ /\ chars'[c].directionControl = "NONE"
         /\ chars'[c].orientation = Heading[chars[c].directionControl]
         /\ <<chars'[c].x, chars'[c].y>> # <<chars[c].x, chars[c].y>>
      \/ /\ c = 0
         /\ \E b \in pending \ pending' : chars'[0].directionControl = Request[b]
    Kept == \A c \in Chars : Keeps(c)
<1>1. TypeInv /\ [Next]_vars => [Kept]_vars
  <2> SUFFICES ASSUME TypeInv, [Next]_vars, NEW c \in Chars PROVE Keeps(c)
    BY DEF Kept
  <2> USE DEF ram, irqs, locals, foodPort, outputs, history
  <2>1. /\ chars[c] \in Characters /\ chars \in [Chars -> Characters] /\ ch \in Chars
        /\ chars[ch] \in Characters
    BY DEF TypeInv, TypeOK
  <2>2. CASE refresh_position_interrupt_handler
    <3>1. chars'[c] = refresh_position(chars[c], Background(c), c # 0)
      BY <2>2 DEF refresh_position_interrupt_handler
    <3>2. CASE chars'[c] = chars[c]
      BY <3>2
    <3>3. CASE \E o \in Orientations :
                 /\ chars'[c].x = Step(chars[c], o).x /\ chars'[c].y = Step(chars[c], o).y
                 /\ chars'[c].orientation = o
                 /\ \/ chars'[c].directionControl = chars[c].directionControl
                    \/ /\ o = Heading[chars[c].directionControl]
                       /\ chars'[c].directionControl = "NONE"
      <4>1. \A o \in Orientations :
              <<Step(chars[c], o).x, Step(chars[c], o).y>> # <<chars[c].x, chars[c].y>>
        <5>1. chars[c].x \in Int /\ chars[c].y \in Int
          BY <2>1 DEF Characters
        <5> QED BY <2>1, <5>1, StepCoordinates DEF Orientations
      <4> QED BY <3>3, <4>1
    <3>4. chars'[c] = chars[c] \/
            \E o \in Orientations :
              /\ chars'[c].x = Step(chars[c], o).x /\ chars'[c].y = Step(chars[c], o).y
              /\ chars'[c].orientation = o
              /\ \/ chars'[c].directionControl = chars[c].directionControl
                 \/ /\ o = Heading[chars[c].directionControl]
                    /\ chars'[c].directionControl = "NONE"
      <4> HIDE DEF Keeps
      <4> DEFINE auto == c # 0
                 r == refresh_position(chars[c], Background(c), auto)
      <4>1. auto \in BOOLEAN
        OBVIOUS
      <4> HIDE DEF auto
      <4>2. \/ r = chars[c]
            \/ \E o \in Orientations :
                 /\ ~compute_collision(chars[c], Background(c))[o]
                 /\ r.x = Step(chars[c], o).x /\ r.y = Step(chars[c], o).y /\ r.orientation = o
                 /\ \/ r.directionControl = chars[c].directionControl
                    \/ /\ chars[c].directionControl # "NONE"
                       /\ o = Heading[chars[c].directionControl]
                       /\ r.directionControl = "NONE"
        BY <2>1, <4>1, RefreshSteps
      <4>3. chars'[c] = r
        BY <3>1 DEF auto
      <4> HIDE DEF r
      <4> QED BY <4>2, <4>3
    <3> QED BY <3>2, <3>3, <3>4
  <2>3. ASSUME NEW b \in Buttons, ButtonHandler(b) PROVE Keeps(c)
    <3>1. b \in pending \ pending'
      BY <2>3 DEF ButtonHandler, Serving
    <3>2. CASE c = 0
      <4>1. chars'[0].directionControl = Request[b]
        BY <2>1, <2>3, <3>2 DEF ButtonHandler, Characters
      <4> QED BY <3>1, <3>2, <4>1
    <3>3. CASE c # 0
      <4>1. chars'[c] = chars[c]
        BY <2>1, <2>3, <3>3 DEF ButtonHandler
      <4> QED BY <4>1
    <3> QED BY <3>2, <3>3
  <2>4. CASE init_position
    <3>1. chars'[c].directionControl = chars[c].directionControl
      BY <2>1, <2>4 DEF init_position, InitPositionX, InitPositionY, InitPositionFacing, Characters
    <3> QED BY <3>1
  <2>5. ASSUME chars' = chars PROVE Keeps(c)
    BY <2>5
  <2>6. CASE ResetScore \/ set_background_in_memory \/ init_foodLayer
    BY <2>5, <2>6 DEF ResetScore, set_background_in_memory, init_foodLayer
  <2>7. CASE set_foodLayer_in_memory
    BY <2>5, <2>7 DEF set_foodLayer_in_memory, FetchLine, SendData, SendAddress, SendStrobe,
                      SendRelease, WritePulse
  <2>8. CASE ClearEdges \/ RegisterHandler
    BY <2>5, <2>8 DEF ClearEdges, RegisterHandler
  <2>9. CASE ReadScore \/ display_number \/ food_layer_empty
    BY <2>5, <2>9 DEF ReadScore, display_number, food_layer_empty
  <2>10. ASSUME NEW i \in {"REFRESH"} \cup Pressed, Edge(i) PROVE Keeps(c)
    BY <2>5, <2>10 DEF Edge
  <2>11. CASE UNCHANGED vars
    BY <2>5, <2>11 DEF vars
  <2> HIDE DEF Keeps
  <2> QED BY <2>2, <2>3, <2>4, <2>6, <2>7, <2>8, <2>9, <2>10, <2>11 DEF Next, Handler, MainStep
<1>2. []TypeInv /\ [][Next]_vars => [][Kept]_vars
  BY <1>1, PTL
<1> QED BY <1>2, PlaceAlways, PTL DEF Spec, RequestsAreKept

(***************************************************************************)
(* The score, the food array and the rules of the game, although main()    *)
(* resets the one and refills the other line by line while the refresh     *)
(* handler, once registered, eats dots and counts them; and the copies of  *)
(* both that are shown, the display and the food memory of the video.      *)
(***************************************************************************)
(* What main() has emptied or not yet filled: nothing is left when a game  *)
(* starts over, the lines from the current one on are empty while it       *)
(* refills them, and those before it when it looks for food.               *)
FoodInv ==
  /\ main \in {"score", "background"} \cup Placing => food = {}
  /\ main = "fill" => \A b \in food : b[2] < line
  /\ main = "scan" => \A b \in food : b[2] >= line
  /\ main \in {"loop", "show", "scan"} => ~Booting
  /\ main = "score" /\ Booting => score = 0

ScoreInv == score + Cardinality(DotsOfGame) = Cardinality(Dots)

LEMMA FoodInit == Init => FoodInv
BY DEF Init, FoodInv, Placing

(* What the refresh handler does to the food.                              *)
LEMMA EatsAtMostOne ==
  ASSUME refresh_position_interrupt_handler
  PROVE  \/ UNCHANGED <<food, score>>
         \/ \E b \in food : food' = food \ {b} /\ score' = (score + 1) % 65536
<1> DEFINE block == BlockAt(chars'[0].x + 30, chars'[0].y + 30)
<1>1. refresh_food_layer(chars'[0])
  BY DEF refresh_position_interrupt_handler
<1>2. CASE block \in food
  BY <1>1, <1>2 DEF refresh_food_layer, EatDot, get_block_with_coordinates
<1>3. CASE block \notin food
  BY <1>1, <1>3 DEF refresh_food_layer, get_block_with_coordinates, foodPort
<1> QED BY <1>2, <1>3

(* Blocks are pairs with a line of the board.                              *)
LEMMA DotsHaveLines ==
  ASSUME TypeInv
  PROVE  \A b \in food \cup Dots : b \in Columns \X (0 .. Lines - 1) /\ b = <<b[1], b[2]>>
                                   /\ b[2] \in 0 .. Lines - 1
BY DEF TypeInv, TypeOK, Dots, Blocks

(* The line that init_foodLayer stores: the dots of that line.             *)
LEMMA FillsOneLine ==
  ASSUME TypeInv, FoodInv, init_foodLayer
  PROVE  food' = food \cup {b \in Dots : b[2] = line}
<1>1. food' = {b \in food : b[2] # line} \cup Word(Columns \ LineOf(CharBackground, line), line)
  BY DEF init_foodLayer, Store
<1>2. {b \in food : b[2] # line} = food
  <2>1. \A b \in food : b[2] < line /\ b[2] \in Int
    BY DotsHaveLines DEF FoodInv, init_foodLayer, At
  <2> QED BY <2>1 DEF TypeInv, TypeOK
<1>3. line \in 0 .. Lines - 1
  BY BoardAssumption DEF init_foodLayer, At, TypeInv, TypeOK, LinesInRange
<1>4. Word(Columns \ LineOf(CharBackground, line), line) = {b \in Dots : b[2] = line}
  <2>1. ASSUME NEW b \in Word(Columns \ LineOf(CharBackground, line), line)
        PROVE  b \in Dots /\ b[2] = line
    <3>1. PICK c \in Columns \ LineOf(CharBackground, line) : b = <<c, line>>
      BY <2>1 DEF Word
    <3>2. <<c, line>> \in Blocks /\ <<c, line>> \notin CharBackground
      BY <1>3, <3>1 DEF LineOf, Blocks
    <3> QED BY <3>1, <3>2 DEF Dots
  <2>2. ASSUME NEW b \in Dots, b[2] = line
        PROVE  b \in Word(Columns \ LineOf(CharBackground, line), line)
    <3>1. b = <<b[1], line>> /\ b[1] \in Columns /\ b \notin CharBackground
      BY <2>2, DotsHaveLines DEF Dots
    <3> QED BY <3>1 DEF Word, LineOf
  <2> QED BY <2>1, <2>2
<1> QED BY <1>1, <1>2, <1>4

(* food_layer_empty moves past a line only when it has no food.            *)
LEMMA ScansOneLine ==
  ASSUME TypeInv, FoodInv, food_layer_empty, LineOf(food, line) = {}
  PROVE  \A b \in food : b[2] >= line + 1
<1>1. line \in Int /\ \A b \in food : b[2] >= line
  BY DEF food_layer_empty, At, FoodInv, TypeInv, TypeOK
<1>2. \A b \in food : b[2] # line
  BY DotsHaveLines DEF LineOf
<1> QED BY <1>1, <1>2, DotsHaveLines

LEMMA FoodNext == TypeInv /\ FoodInv /\ [Next]_vars => FoodInv'
<1> SUFFICES ASSUME TypeInv, FoodInv, [Next]_vars PROVE FoodInv'
  OBVIOUS
<1> USE DEF ram, irqs, locals, foodPort, outputs, history
<1>1. ASSUME UNCHANGED <<food, score, enabled, main, line>> PROVE FoodInv'
  BY <1>1 DEF FoodInv, Placing, Booting
<1>2. CASE refresh_position_interrupt_handler
  <2>1. ~Booting /\ UNCHANGED <<enabled, main, line>>
    BY <1>2 DEF refresh_position_interrupt_handler, Serving, Booting
  <2>2. food' \subseteq food
    BY <1>2, EatsAtMostOne
  <2> QED BY <2>1, <2>2 DEF FoodInv, Placing, Booting
<1>3. ASSUME NEW b \in Buttons, ButtonHandler(b) PROVE FoodInv'
  BY <1>1, <1>3 DEF ButtonHandler
<1>4. CASE ResetScore
  BY <1>4 DEF ResetScore, At, FoodInv, Placing, Booting
<1>5. CASE init_position
  BY <1>5 DEF init_position, InitPositionX, InitPositionY, InitPositionFacing, At, FoodInv,
              Placing, Booting
<1>6. CASE set_background_in_memory
  BY <1>6 DEF set_background_in_memory, At, FoodInv, Placing
<1>7. CASE init_foodLayer
  <2>1. \A b \in food' : b[2] < line + 1
    <3>1. \A b \in food : b[2] < line /\ b[2] \in Int
      BY <1>7, DotsHaveLines DEF FoodInv, init_foodLayer, At
    <3>2. line \in Int
      BY DEF TypeInv, TypeOK
    <3> QED BY <1>7, <3>1, <3>2, FillsOneLine
  <2>2. \/ main' = "fill" /\ line' = line + 1
        \/ main' = "fetch"
    BY <1>7 DEF init_foodLayer, At
  <2> QED BY <2>1, <2>2 DEF FoodInv, Placing
<1>8. CASE set_foodLayer_in_memory
  <2>1. ASSUME UNCHANGED <<food, enabled>>, main' \in {"data", "address", "strobe", "release", "fetch", "clear"}
        PROVE  FoodInv'
    BY <2>1 DEF FoodInv, Placing
  <2>2. CASE FetchLine
    BY <2>1, <2>2 DEF FetchLine
  <2>3. CASE SendData
    BY <2>1, <2>3 DEF SendData
  <2>4. CASE SendAddress
    BY <2>1, <2>4 DEF SendAddress, WritePulse
  <2>5. CASE SendStrobe
    BY <2>1, <2>5 DEF SendStrobe, WritePulse
  <2>6. CASE SendRelease
    <3>1. UNCHANGED <<food, enabled>>
      BY <2>6 DEF SendRelease, WritePulse
    <3>2. CASE main' = "loop" /\ ~Booting
      BY <3>1, <3>2 DEF FoodInv, Placing, Booting
    <3>3. main' = "fetch" \/ main' = "clear" \/ (main' = "loop" /\ ~Booting)
      BY <2>6, Zenon DEF SendRelease, WritePulse
    <3> QED BY <2>1, <3>1, <3>2, <3>3
  <2> QED BY <1>8, <2>2, <2>3, <2>4, <2>5, <2>6 DEF set_foodLayer_in_memory
<1>9. CASE ClearEdges
  BY <1>9 DEF ClearEdges, FoodInv, Placing
<1>10. CASE RegisterHandler
  BY <1>10 DEF RegisterHandler, FoodInv, Placing, Booting, Interrupts
<1>11. CASE ReadScore \/ display_number
  <2>1. UNCHANGED <<food, score, enabled, line>> /\ ~Booting
    BY <1>11 DEF ReadScore, display_number, At, FoodInv
  <2>2. main' \in {"show", "loop", "scan"} /\ (main' = "scan" => main \in Loop)
    BY <1>11 DEF ReadScore, display_number, At, Loop
  <2>3. main' = "scan" => \A b \in food : b[2] >= line
    BY <2>2, DotsHaveLines DEF TypeInv, LinesInRange
  <2> QED BY <2>1, <2>2, <2>3 DEF FoodInv, Placing, Booting
<1>12. CASE food_layer_empty
  <2>1. UNCHANGED <<food, score, enabled>> /\ ~Booting
    BY <1>12 DEF food_layer_empty, At, FoodInv
  <2>2. CASE LineOf(food, line) # {}
    BY <1>12, <2>1, <2>2 DEF food_layer_empty, FoodInv, Placing, Booting
  <2>3. CASE LineOf(food, line) = {}
    <3>1. \A b \in food : b[2] >= line + 1
      BY <1>12, <2>3, ScansOneLine
    <3>2. CASE line < Lines - 1
      <4>1. main' = "scan" /\ line' = line + 1
        BY <1>12, <2>3, <3>2 DEF food_layer_empty, At
      <4> QED BY <2>1, <3>1, <4>1 DEF FoodInv, Placing, Booting
    <3>3. CASE ~(line < Lines - 1)
      <4>1. main' = "score"
        BY <1>12, <2>3, <3>3 DEF food_layer_empty, At
      <4>2. line \in Int /\ Lines \in Int
        BY BoardAssumption DEF TypeInv, TypeOK
      <4>3. food = {}
        BY <3>1, <3>3, <4>2, DotsHaveLines
      <4> QED BY <2>1, <4>1, <4>3 DEF FoodInv, Placing, Booting
    <3> QED BY <3>2, <3>3
  <2> QED BY <2>2, <2>3
<1>13. ASSUME NEW i \in {"REFRESH"} \cup Pressed, Edge(i) PROVE FoodInv'
  BY <1>1, <1>13 DEF Edge
<1>14. CASE UNCHANGED vars
  BY <1>1, <1>14 DEF vars
<1> QED BY <1>2, <1>3, <1>4, <1>5, <1>6, <1>7, <1>8, <1>9, <1>10, <1>11, <1>12, <1>13,
           <1>14 DEF Next, Handler, MainStep

(* The dots of a game are some of the Dots, so no score wraps.             *)
LEMMA GameDots ==
  ASSUME TypeInv, ScoreInv
  PROVE  /\ DotsOfGame \subseteq Dots /\ IsFiniteSet(DotsOfGame)
         /\ Cardinality(DotsOfGame) \in Nat
         /\ score \in Nat /\ score + Cardinality(DotsOfGame) = Cardinality(Dots)
         /\ score <= 999
<1>1. DotsOfGame \subseteq Dots
  BY DEF DotsOfGame, Unplaced, TypeInv, TypeOK
<1>2. IsFiniteSet(DotsOfGame) /\ Cardinality(DotsOfGame) \in Nat
  BY <1>1, DotsAssumption, FS_Subset, FS_CardinalityType
<1>3. score \in Nat
  BY DEF TypeInv, TypeOK
<1> QED BY <1>1, <1>2, <1>3, DotsAssumption DEF ScoreInv

(* What is on the board is no longer unplaced.                             *)
LEMMA FoodIsPlaced == TypeInv /\ FoodInv => food \cap Unplaced = {}
<1> SUFFICES ASSUME TypeInv, FoodInv PROVE food \cap Unplaced = {}
  OBVIOUS
<1>1. CASE main = "fill"
  <2>1. line \in Int /\ \A b \in food : b[2] < line /\ b[2] \in Int
    BY <1>1, DotsHaveLines DEF FoodInv, TypeInv, TypeOK
  <2>2. Unplaced = {b \in Dots : b[2] >= line}
    BY <1>1 DEF Unplaced, Placing
  <2> QED BY <2>1, <2>2
<1>2. CASE main \in {"score", "background"} \cup Placing
  BY <1>2 DEF FoodInv
<1>3. CASE main \notin {"score", "background", "fill"} \cup Placing
  BY <1>3 DEF Unplaced
<1> QED BY <1>1, <1>2, <1>3

(* Every step of the program is a step of the rules, or changes neither    *)
(* the dots of the game nor the score.                                     *)
LEMMA GameStep ==
  TypeInv /\ FoodInv /\ ScoreInv /\ [Next]_vars => [Game!Next]_<<DotsOfGame, score>>
<1> SUFFICES ASSUME TypeInv, FoodInv, ScoreInv, [Next]_vars
             PROVE  Game!Eat \/ Game!NewGame \/ (DotsOfGame' = DotsOfGame /\ score' = score)
  BY DEF Game!Next
<1> USE DEF ram, irqs, locals, foodPort, outputs, history
<1>1. ASSUME UNCHANGED <<food, score, enabled, main, line>>
      PROVE  DotsOfGame' = DotsOfGame /\ score' = score
  BY <1>1 DEF DotsOfGame, Unplaced, Booting
<1>2. CASE refresh_position_interrupt_handler
  <2>1. Unplaced' = Unplaced
    BY <1>2 DEF refresh_position_interrupt_handler, Unplaced, Booting
  <2>2. CASE UNCHANGED <<food, score>>
    BY <2>1, <2>2 DEF DotsOfGame
  <2>3. CASE \E b \in food : food' = food \ {b} /\ score' = (score + 1) % 65536
    <3>1. PICK b \in food : food' = food \ {b} /\ score' = (score + 1) % 65536
      BY <2>3
    <3>2. score' = score + 1
      BY <3>1, GameDots
    <3>3. DotsOfGame' = DotsOfGame \ {b} /\ b \in DotsOfGame
      BY <2>1, <3>1, FoodIsPlaced DEF DotsOfGame
    <3> QED BY <3>2, <3>3 DEF Game!Eat
  <2> QED BY <1>2, <2>2, <2>3, EatsAtMostOne
<1>3. ASSUME NEW b \in Buttons, ButtonHandler(b)
      PROVE  DotsOfGame' = DotsOfGame /\ score' = score
  BY <1>1, <1>3 DEF ButtonHandler
<1>4. CASE ResetScore
  <2>1. /\ main = "score" /\ food = {} /\ food' = {} /\ score' = 0 /\ main' = "posX"
        /\ UNCHANGED enabled
    BY <1>4 DEF ResetScore, At, FoodInv
  <2>2. DotsOfGame' = Dots
    BY <2>1 DEF DotsOfGame, Unplaced, Placing
  <2>3. CASE Booting
    <3>1. DotsOfGame = Dots /\ score = 0
      BY <2>1, <2>3 DEF DotsOfGame, Unplaced, Placing, FoodInv
    <3> QED BY <2>1, <2>2, <3>1
  <2>4. CASE ~Booting
    <3>1. DotsOfGame = {}
      BY <2>1, <2>4 DEF DotsOfGame, Unplaced, Placing
    <3> QED BY <2>1, <2>2, <3>1 DEF Game!NewGame
  <2> QED BY <2>3, <2>4
<1>5. CASE init_position
  <2>1. UNCHANGED <<food, score>> /\ main \in Placing /\ main' \in Placing \cup {"background"}
    BY <1>5 DEF init_position, InitPositionX, InitPositionY, InitPositionFacing, At, Placing
  <2>2. Unplaced = Dots /\ Unplaced' = Dots
    BY <2>1 DEF Unplaced, Placing
  <2> QED BY <2>1, <2>2 DEF DotsOfGame
<1>6. CASE set_background_in_memory
  <2>1. UNCHANGED <<food, score>> /\ main = "background" /\ main' = "fill" /\ line' = 0
    BY <1>6 DEF set_background_in_memory, At
  <2>2. Unplaced = Dots /\ Unplaced' = {b \in Dots : b[2] >= 0}
    BY <2>1 DEF Unplaced, Placing
  <2>3. {b \in Dots : b[2] >= 0} = Dots
    BY DotsHaveLines
  <2> QED BY <2>1, <2>2, <2>3 DEF DotsOfGame
<1>7. CASE init_foodLayer
  <2>1. food' = food \cup {b \in Dots : b[2] = line} /\ score' = score
    BY <1>7, FillsOneLine DEF init_foodLayer
  <2>2. Unplaced = {b \in Dots : b[2] >= line} /\ line \in 0 .. Lines - 1
    BY <1>7, BoardAssumption
       DEF init_foodLayer, At, Unplaced, Placing, TypeInv, TypeOK, LinesInRange
  <2>3. CASE line < Lines - 1
    <3>1. Unplaced' = {b \in Dots : b[2] >= line + 1}
      BY <1>7, <2>3 DEF init_foodLayer, At, Unplaced, Placing
    <3>2. {b \in Dots : b[2] >= line} =
            {b \in Dots : b[2] = line} \cup {b \in Dots : b[2] >= line + 1}
      BY <2>2, DotsHaveLines
    <3> QED BY <2>1, <2>2, <3>1, <3>2 DEF DotsOfGame
  <2>4. CASE ~(line < Lines - 1)
    <3>1. Unplaced' = {}
      BY <1>7, <2>4 DEF init_foodLayer, At, Unplaced, Placing
    <3>2. {b \in Dots : b[2] >= line} = {b \in Dots : b[2] = line}
      BY <2>2, <2>4, BoardAssumption, DotsHaveLines
    <3> QED BY <2>1, <2>2, <3>1, <3>2 DEF DotsOfGame
  <2> QED BY <2>3, <2>4
<1>8. ASSUME UNCHANGED <<food, score>>,
             main \notin {"score", "background", "fill"} \cup Placing,
             main' \notin {"score", "background", "fill"} \cup Placing
      PROVE  DotsOfGame' = DotsOfGame /\ score' = score
  BY <1>8 DEF DotsOfGame, Unplaced
<1>9. CASE set_foodLayer_in_memory
  <2>1. CASE FetchLine
    BY <1>8, <2>1 DEF FetchLine, At, Placing
  <2>2. CASE SendData
    BY <1>8, <2>2 DEF SendData, At, Placing
  <2>3. CASE SendAddress \/ SendStrobe \/ SendRelease
    BY <1>8, <2>3 DEF SendAddress, SendStrobe, SendRelease, WritePulse, At, Placing
  <2> QED BY <1>9, <2>1, <2>2, <2>3 DEF set_foodLayer_in_memory
<1>10. CASE ClearEdges
  BY <1>8, <1>10 DEF ClearEdges, At, Placing
<1>11. CASE RegisterHandler
  BY <1>8, <1>11 DEF RegisterHandler, At, Placing
<1>12. CASE ReadScore \/ display_number
  BY <1>8, <1>12 DEF ReadScore, display_number, At, Placing
<1>13. CASE food_layer_empty
  <2>1. UNCHANGED <<food, score, enabled>> /\ main = "scan" /\ main' \in {"loop", "scan", "score"}
    BY <1>13 DEF food_layer_empty, At
  <2>2. Unplaced = {} /\ Unplaced' = {}
    BY <2>1 DEF Unplaced, Placing, FoodInv, Booting
  <2> QED BY <2>1, <2>2 DEF DotsOfGame
<1>14. ASSUME NEW i \in {"REFRESH"} \cup Pressed, Edge(i)
       PROVE  DotsOfGame' = DotsOfGame /\ score' = score
  BY <1>1, <1>14 DEF Edge
<1>15. CASE UNCHANGED vars
  BY <1>1, <1>15 DEF vars
<1> QED BY <1>2, <1>3, <1>4, <1>5, <1>6, <1>7, <1>9, <1>10, <1>11, <1>12, <1>13, <1>14,
           <1>15 DEF Next, Handler, MainStep

LEMMA ScoreInit == Init => ScoreInv
<1> SUFFICES ASSUME Init PROVE ScoreInv
  OBVIOUS
<1>1. DotsOfGame = Dots /\ score = 0
  BY DEF Init, DotsOfGame, Unplaced, Placing, Booting
<1> QED BY <1>1, DotsAssumption DEF ScoreInv

LEMMA ScoreNext == TypeInv /\ FoodInv /\ ScoreInv /\ [Next]_vars => ScoreInv'
<1> SUFFICES ASSUME TypeInv, FoodInv, ScoreInv,
                    Game!Eat \/ Game!NewGame \/ (DotsOfGame' = DotsOfGame /\ score' = score)
             PROVE  ScoreInv'
  BY GameStep DEF Game!Next
<1>1. CASE Game!Eat
  <2>1. PICK d \in DotsOfGame : DotsOfGame' = DotsOfGame \ {d} /\ score' = score + 1
    BY <1>1 DEF Game!Eat
  <2>2. Cardinality(DotsOfGame \ {d}) = Cardinality(DotsOfGame) - 1
    BY GameDots, FS_RemoveElement
  <2> QED BY <2>1, <2>2, GameDots DEF ScoreInv
<1>2. CASE Game!NewGame
  BY <1>2, DotsAssumption DEF Game!NewGame, ScoreInv
<1>3. CASE DotsOfGame' = DotsOfGame /\ score' = score
  BY <1>3 DEF ScoreInv
<1> QED BY <1>1, <1>2, <1>3

LEMMA ScoreAlways == Spec => [](TypeInv /\ FoodInv /\ ScoreInv)
<1>1. Init => TypeInv /\ FoodInv /\ ScoreInv
  BY TypeInit, FoodInit, ScoreInit
<1>2. TypeInv /\ FoodInv /\ ScoreInv /\ [Next]_vars => (TypeInv /\ FoodInv /\ ScoreInv)'
  BY TypeNext, FoodNext, ScoreNext
<1> QED BY <1>1, <1>2, PTL DEF Spec

(* At every moment, also while init_game runs with the refresh handler on, *)
(* each dot of the game is unplaced, on the board or in the score, once.   *)
THEOREM ScoreConserved == Spec => []ScoreConservation
<1>1. TypeInv /\ FoodInv /\ ScoreInv => ScoreConservation
  BY FoodIsPlaced DEF ScoreInv, ScoreConservation
<1> QED BY <1>1, ScoreAlways, PTL

(* The program implements the rules of the game, apart from the promise    *)
(* that a new game does start, which is model-checked.                     *)
THEOREM ImplementsTheRules == Spec => Game!Rules
<1>1. Init => Game!Init
  BY DEF Init, Game!Init, DotsOfGame, Unplaced, Placing, Booting
<1>2. TypeInv /\ FoodInv /\ ScoreInv /\ [Next]_vars => [Game!Next]_<<DotsOfGame, score>>
  BY GameStep
<1> QED BY <1>1, <1>2, ScoreAlways, PTL DEF Spec, Game!Rules

(* Only a restart lowers the score, and main() does not show a score it    *)
(* read before the restart.                                                *)
DisplayInv ==
  /\ number <= 999 /\ \A k \in DOMAIN display : display[k] \in 0 .. 9
  /\ main \in {"show", "scan"} => number <= score
  /\ main = "scan" => display = Digits(number)

(* No score of a game needs a digit that the tables do not have.           *)
LEMMA DigitsInTable ==
  ASSUME NEW n \in Nat, n <= 999
  PROVE  \A k \in DOMAIN Digits(n) : Digits(n)[k] \in 0 .. 9
<1>1. n % 10 \in 0 .. 9 /\ (n % 100) \div 10 \in 0 .. 9 /\ n \div 100 \in 0 .. 9
  OBVIOUS
<1>2. CASE n \div 100 # 0
  BY <1>1, <1>2 DEF Digits
<1>3. CASE n \div 100 = 0 /\ n \div 10 # 0
  BY <1>1, <1>3 DEF Digits
<1>4. CASE n \div 100 = 0 /\ n \div 10 = 0
  BY <1>1, <1>4 DEF Digits
<1> QED BY <1>2, <1>3, <1>4

(* What is shown of a number reads as that number.                         *)
LEMMA ReadsAsWritten ==
  ASSUME NEW n \in 0 .. 999
  PROVE  Reading(Digits(n)) = n
<1>1. CASE n \div 100 # 0
  <2>1. Digits(n) = <<n \div 100, (n % 100) \div 10, n % 10>>
    BY <1>1 DEF Digits
  <2>2. 100 * (n \div 100) + 10 * ((n % 100) \div 10) + (n % 10) = n
    OBVIOUS
  <2> QED BY <2>1, <2>2 DEF Reading
<1>2. CASE n \div 100 = 0 /\ n \div 10 # 0
  <2>1. Digits(n) = <<(n % 100) \div 10, n % 10>>
    BY <1>2 DEF Digits
  <2>2. 10 * ((n % 100) \div 10) + (n % 10) = n
    BY <1>2
  <2> QED BY <2>1, <2>2 DEF Reading
<1>3. CASE n \div 100 = 0 /\ n \div 10 = 0
  <2>1. Digits(n) = <<n>>
    BY <1>3 DEF Digits
  <2> QED BY <2>1 DEF Reading
<1> QED BY <1>1, <1>2, <1>3

LEMMA DisplayNext ==
  TypeInv /\ FoodInv /\ ScoreInv /\ DisplayInv /\ [Next]_vars => DisplayInv'
<1> SUFFICES ASSUME TypeInv, FoodInv, ScoreInv, DisplayInv, [Next]_vars PROVE DisplayInv'
  OBVIOUS
<1> USE DEF ram, irqs, locals, foodPort, outputs, history
<1>0. score \in Nat /\ number \in Nat /\ score <= 999
  BY GameDots DEF TypeInv, TypeOK
<1>1. ASSUME UNCHANGED <<score, number, display>>,
             main' \in {"show", "scan"} => main' = main
      PROVE  DisplayInv'
  BY <1>1 DEF DisplayInv
<1>2. CASE refresh_position_interrupt_handler
  <2>1. UNCHANGED <<main, number, display>>
    BY <1>2 DEF refresh_position_interrupt_handler
  <2>2. score' >= score
    BY <1>0, <1>2, EatsAtMostOne
  <2>3. score' \in Nat
    BY <1>0, <1>2, EatsAtMostOne
  <2> QED BY <1>0, <2>1, <2>2, <2>3 DEF DisplayInv
<1>3. ASSUME NEW b \in Buttons, ButtonHandler(b) PROVE DisplayInv'
  BY <1>1, <1>3 DEF ButtonHandler
<1>4. CASE ResetScore
  BY <1>4 DEF ResetScore, DisplayInv
<1>5. CASE init_position
  BY <1>1, <1>5 DEF init_position, InitPositionX, InitPositionY, InitPositionFacing
<1>6. CASE set_background_in_memory
  BY <1>1, <1>6 DEF set_background_in_memory
<1>7. CASE init_foodLayer
  BY <1>1, <1>7 DEF init_foodLayer
<1>8. CASE set_foodLayer_in_memory
  <2>1. CASE FetchLine
    BY <1>1, <2>1 DEF FetchLine
  <2>2. CASE SendData
    BY <1>1, <2>2 DEF SendData
  <2>3. CASE SendAddress
    BY <1>1, <2>3 DEF SendAddress, WritePulse
  <2>4. CASE SendStrobe
    BY <1>1, <2>4 DEF SendStrobe, WritePulse
  <2>5. CASE SendRelease
    BY <1>1, <2>5 DEF SendRelease, WritePulse
  <2> QED BY <1>8, <2>1, <2>2, <2>3, <2>4, <2>5 DEF set_foodLayer_in_memory
<1>9. CASE ClearEdges \/ RegisterHandler
  BY <1>1, <1>9 DEF ClearEdges, RegisterHandler
<1>10. CASE ReadScore
  BY <1>0, <1>10 DEF ReadScore, DisplayInv
<1>11. CASE display_number
  <2>1. number <= 999
    BY DEF DisplayInv
  <2>2. \A k \in DOMAIN Digits(number) : Digits(number)[k] \in 0 .. 9
    BY <1>0, <2>1, DigitsInTable
  <2> QED BY <1>0, <1>11, <2>1, <2>2 DEF display_number, At, DisplayInv
<1>12. CASE food_layer_empty
  BY <1>1, <1>12 DEF food_layer_empty, At
<1>13. ASSUME NEW i \in {"REFRESH"} \cup Pressed, Edge(i) PROVE DisplayInv'
  BY <1>1, <1>13 DEF Edge
<1>14. CASE UNCHANGED vars
  BY <1>1, <1>14 DEF vars
<1> QED BY <1>2, <1>3, <1>4, <1>5, <1>6, <1>7, <1>8, <1>9, <1>10, <1>11, <1>12, <1>13,
           <1>14 DEF Next, Handler, MainStep

(* The display never runs ahead of the score it follows, and its three     *)
(* digits are enough for every score of a game.                            *)
THEOREM DisplayBehind == Spec => []DisplayNeverAhead
<1>1. Init => DisplayInv
  BY DEF Init, DisplayInv
<1>2. TypeInv /\ FoodInv /\ ScoreInv /\ DisplayInv /\ [Next]_vars => DisplayInv'
  BY DisplayNext
<1>3. TypeInv /\ DisplayInv => DisplayNeverAhead
  <2> SUFFICES ASSUME TypeInv, DisplayInv PROVE DisplayNeverAhead
    OBVIOUS
  <2>1. number \in 0 .. 999
    BY DEF TypeInv, TypeOK, DisplayInv
  <2>2. Reading(Digits(number)) = number
    BY <2>1, ReadsAsWritten
  <2> QED BY <2>2 DEF DisplayInv, DisplayNeverAhead
<1> QED BY <1>1, <1>2, <1>3, ScoreAlways, PTL DEF Spec

(***************************************************************************)
(* The food memory of the video.  Two writers share its two ports: main()  *)
(* while it sends the array line by line, and the refresh handler between  *)
(* any two of its stores.  Where main() was not disturbed, what it is      *)
(* about to send is what the array holds; and the write enable is set for  *)
(* the line main() sends, or not at all.                                   *)
(***************************************************************************)
SyncInv ==
  /\ foodWr.enable => main = "release" /\ foodWr.line = line
  /\ (main = "data" /\ line < Lines /\ line \notin stale) => word = LineOf(food, line)
  /\ (main \in {"address", "strobe"} /\ line < Lines /\ line \notin stale) =>
       foodData = LineOf(food, line)
  /\ FoodMemoryInSync

(* A line read back after a store: the word if it is that line, else what  *)
(* it was.                                                                 *)
LEMMA LineAfterStore ==
  ASSUME NEW layer, NEW l, NEW k, NEW columns \in SUBSET Columns
  PROVE  LineOf(Store(layer, l, columns), k) = IF k = l THEN columns ELSE LineOf(layer, k)
BY DEF LineOf, Store, Word

LEMMA LineAfterLatch ==
  ASSUME NEW memory, NEW k, NEW data \in SUBSET Columns, NEW wr
  PROVE  LineOf(Latch(memory, data, wr), k) =
           IF wr.enable /\ k = wr.line THEN data ELSE LineOf(memory, k)
BY LineAfterStore DEF Latch

(* Only the line of a block changes when the block is taken away.          *)
LEMMA LineWithoutDot ==
  ASSUME NEW layer, NEW b \in Blocks, NEW k, k # b[2]
  PROVE  LineOf(layer \ {b}, k) = LineOf(layer, k)
BY DEF LineOf, Blocks

(* What a dot eaten by the handler does to every line of the memory.       *)
LEMMA EatDotSends ==
  ASSUME TypeInv, SyncInv, NEW b \in food, NEW points,
         EatDot(b, LineOf(food \ {b}, b[2]), points), NEW k
  PROVE  /\ k = b[2] => LineOf(foodMemory', k) = LineOf(food', k)
         /\ (k # b[2] /\ ~(foodWr.enable /\ k = line)) => LineOf(foodMemory', k) = LineOf(foodMemory, k)
<1> DEFINE sent == LineOf(food \ {b}, b[2])
<1>1. sent \in SUBSET Columns
  BY DEF LineOf
<1>2. /\ foodMemory' = Store(Latch(foodMemory, sent, foodWr), b[2], sent)
      /\ food' = food \ {b}
  BY DEF EatDot
<1>3. foodWr.enable => foodWr.line = line
  BY DEF SyncInv
<1> HIDE DEF sent
<1>4. LineOf(foodMemory', k) = IF k = b[2] THEN sent
                               ELSE LineOf(Latch(foodMemory, sent, foodWr), k)
  BY <1>1, <1>2, LineAfterStore
<1>5. LineOf(Latch(foodMemory, sent, foodWr), k) =
        IF foodWr.enable /\ k = foodWr.line THEN sent ELSE LineOf(foodMemory, k)
  BY <1>1, LineAfterLatch
<1> QED BY <1>2, <1>3, <1>4, <1>5 DEF sent

LEMMA SyncInit == Init => SyncInv
BY DEF Init, SyncInv, FoodMemoryInSync, Sent, Sending, Booting

(* The refresh handler.                                                    *)
LEMMA SyncHandler ==
  ASSUME TypeInv, SyncInv, refresh_position_interrupt_handler
  PROVE  SyncInv'
<1> DEFINE b == BlockAt(chars'[0].x + 30, chars'[0].y + 30)
<1> USE DEF locals
<1>1. UNCHANGED <<main, line, word, enabled>>
  BY DEF refresh_position_interrupt_handler
<1>2. refresh_food_layer(chars'[0])
  BY DEF refresh_position_interrupt_handler
<1>3. stale' = (stale \ {d[2] : d \in food \ food'})
                 \cup {line : l \in {k \in {d[2] : d \in food \ food'} : Disturbed(k)}}
  BY DEF refresh_position_interrupt_handler
<1>4. CASE b \notin food
  <2>1. UNCHANGED <<food, foodData, foodWr, foodMemory>>
    BY <1>2, <1>4 DEF refresh_food_layer, get_block_with_coordinates, foodPort
  <2>2. stale' = stale
    BY <1>3, <2>1
  <2> QED BY <1>1, <2>1, <2>2 DEF SyncInv, FoodMemoryInSync, Sent, Booting
<1>5. CASE b \in food
  <2> HIDE DEF b
  <2>1. EatDot(b, LineOf(food \ {b}, b[2]), (score + 1) % 65536)
    BY <1>2, <1>5 DEF refresh_food_layer, get_block_with_coordinates, b
  <2>2. /\ food' = food \ {b} /\ foodData' = LineOf(food', b[2])
        /\ foodWr' = [line |-> b[2], enable |-> FALSE]
    BY <2>1 DEF EatDot
  <2>3. b \in Blocks
    BY <1>5 DEF TypeInv, TypeOK, Dots
  <2>4. \A k : k # b[2] => LineOf(food', k) = LineOf(food, k)
    BY <2>2, <2>3, LineWithoutDot
  <2>5. {d[2] : d \in food \ food'} = {b[2]}
    BY <1>5, <2>2
  <2>6. /\ \A k : k \notin stale' => k = b[2] \/ k \notin stale
        /\ Disturbed(b[2]) => line \in stale'
    BY <1>3, <2>5
  <2>7. (main' = "data" /\ line' < Lines /\ line' \notin stale') =>
           word' = LineOf(food', line')
    BY <1>1, <2>4, <2>6 DEF SyncInv, Disturbed
  <2>8. (main' \in {"address", "strobe"} /\ line' \notin stale') =>
           foodData' = LineOf(food', line')
    BY <1>1, <2>2, <2>6 DEF Disturbed
  <2>9. ASSUME NEW k \in 0 .. Lines - 1, Sent(k), k \notin stale'
        PROVE  LineOf(foodMemory', k) = LineOf(food', k)
    <3>1. foodWr.enable => main = "release"
      BY DEF SyncInv
    <3>2. (foodWr.enable /\ k = line) => k = b[2]
      BY <2>6, <2>9, <3>1 DEF Disturbed
    <3>3. /\ k = b[2] => LineOf(foodMemory', k) = LineOf(food', k)
          /\ (k # b[2] /\ ~(foodWr.enable /\ k = line)) => LineOf(foodMemory', k) = LineOf(foodMemory, k)
      <4> DEFINE points == (score + 1) % 65536
      <4>1. EatDot(b, LineOf(food \ {b}, b[2]), points)
        BY <2>1
      <4> HIDE DEF points
      <4> QED BY <1>5, <4>1, EatDotSends
    <3>4. CASE k # b[2]
      <4>1. LineOf(foodMemory', k) = LineOf(foodMemory, k)
        BY <3>2, <3>3, <3>4
      <4>2. LineOf(foodMemory, k) = LineOf(food, k)
        BY <2>6, <2>9, <3>4 DEF SyncInv, FoodMemoryInSync
      <4> QED BY <2>4, <3>4, <4>1, <4>2
    <3> QED BY <3>3, <3>4
  <2>10. FoodMemoryInSync'
    BY <1>1, <2>9 DEF FoodMemoryInSync, Sent, Booting
  <2> QED BY <2>2, <2>7, <2>8, <2>10 DEF SyncInv
<1> QED BY <1>4, <1>5

(* main() sends one line.                                                  *)
LEMMA SyncSending == TypeInv /\ SyncInv /\ set_foodLayer_in_memory => SyncInv'
<1> SUFFICES ASSUME TypeInv, SyncInv, set_foodLayer_in_memory PROVE SyncInv'
  OBVIOUS
<1> USE DEF ram, irqs, locals, foodPort, outputs, history
<1>0. line \in 0 .. Lines /\ word \in SUBSET Columns /\ foodData \in SUBSET Columns
      /\ Lines \in Nat
  BY BoardAssumption DEF TypeInv, TypeOK
<1>1. CASE FetchLine
  <2>1. /\ main = "fetch" /\ main' = "data" /\ UNCHANGED <<food, line, foodData, foodWr, foodMemory>>
        /\ line < Lines => word' = LineOf(food, line)
        /\ stale' = stale \ {line}
    BY <1>1 DEF FetchLine, At
  <2>2. ~foodWr.enable
    BY <2>1 DEF SyncInv
  <2>3. FoodMemoryInSync'
    BY <1>0, <2>1 DEF SyncInv, FoodMemoryInSync, Sent, Sending
  <2> QED BY <2>1, <2>2, <2>3 DEF SyncInv
<1>2. CASE SendData
  <2>1. /\ main = "data" /\ main' = "address" /\ UNCHANGED <<food, line, foodWr, stale>>
        /\ foodData' = word /\ foodMemory' = Latch(foodMemory, word, foodWr)
    BY <1>2 DEF SendData, At
  <2>2. ~foodWr.enable
    BY <2>1 DEF SyncInv
  <2>3. foodMemory' = foodMemory
    BY <2>1, <2>2 DEF Latch
  <2>4. FoodMemoryInSync'
    BY <2>1, <2>3 DEF SyncInv, FoodMemoryInSync, Sent, Sending
  <2> QED BY <2>1, <2>2, <2>4 DEF SyncInv
<1>3. CASE SendAddress
  <2>1. /\ main = "address" /\ main' = "strobe" /\ UNCHANGED <<food, line, foodData, stale>>
        /\ foodWr' = [line |-> line, enable |-> FALSE]
        /\ foodMemory' = Latch(foodMemory, foodData, foodWr')
    BY <1>3 DEF SendAddress, WritePulse, At
  <2>2. foodMemory' = foodMemory
    BY <2>1 DEF Latch
  <2>3. FoodMemoryInSync'
    BY <2>1, <2>2 DEF SyncInv, FoodMemoryInSync, Sent, Sending
  <2> QED BY <2>1, <2>3 DEF SyncInv
<1>4. CASE SendStrobe
  <2>1. /\ main = "strobe" /\ main' = "release" /\ UNCHANGED <<food, line, foodData, stale>>
        /\ foodWr' = [line |-> line, enable |-> TRUE]
        /\ foodMemory' = Latch(foodMemory, foodData, foodWr')
    BY <1>4 DEF SendStrobe, WritePulse, At
  <2>2. \A k : LineOf(foodMemory', k) = IF k = line THEN foodData ELSE LineOf(foodMemory, k)
    BY <1>0, <2>1, LineAfterLatch
  <2>3. ASSUME NEW k \in 0 .. Lines - 1, Sent(k)', k \notin stale
        PROVE  LineOf(foodMemory', k) = LineOf(food', k)
    <3>1. CASE k = line
      <4>1. line < Lines /\ line \notin stale
        BY <1>0, <2>3, <3>1
      <4>2. foodData = LineOf(food, line)
        BY <2>1, <4>1 DEF SyncInv
      <4> QED BY <2>1, <2>2, <3>1, <4>2
    <3>2. CASE k # line
      <4>1. Sent(k)
        BY <2>1, <2>3, <3>2 DEF Sent, Sending
      <4> QED BY <2>1, <2>2, <2>3, <3>2, <4>1 DEF SyncInv, FoodMemoryInSync
    <3> QED BY <3>1, <3>2
  <2>4. FoodMemoryInSync'
    BY <2>1, <2>3 DEF FoodMemoryInSync
  <2> QED BY <2>1, <2>4 DEF SyncInv
<1>5. CASE SendRelease
  <2>1. /\ main = "release" /\ UNCHANGED <<food, stale>>
        /\ foodWr' = [line |-> line, enable |-> FALSE]
        /\ foodMemory' = Latch(foodMemory, foodData, foodWr')
    BY <1>5 DEF SendRelease, WritePulse, At
  <2>2. \/ line < Lines /\ main' = "fetch" /\ line' = line + 1
        \/ line = Lines /\ main' \in {"clear", "loop"}
    <3>1. CASE line < Lines
      BY <1>5, <3>1 DEF SendRelease, WritePulse
    <3>2. CASE ~(line < Lines)
      BY <1>0, <1>5, <3>2 DEF SendRelease, WritePulse
    <3> QED BY <3>1, <3>2
  <2>3. foodMemory' = foodMemory
    BY <2>1 DEF Latch
  <2>4. \A k \in 0 .. Lines - 1 : Sent(k)' => Sent(k)
    BY <1>0, <2>1, <2>2 DEF Sent, Sending
  <2>5. FoodMemoryInSync'
    BY <2>1, <2>3, <2>4 DEF SyncInv, FoodMemoryInSync
  <2> QED BY <2>1, <2>2, <2>5 DEF SyncInv
<1> QED BY <1>1, <1>2, <1>3, <1>4, <1>5 DEF set_foodLayer_in_memory

LEMMA SyncNext == TypeInv /\ SyncInv /\ [Next]_vars => SyncInv'
<1> SUFFICES ASSUME TypeInv, SyncInv, [Next]_vars PROVE SyncInv'
  OBVIOUS
<1> USE DEF ram, irqs, locals, foodPort, outputs, history
<1>1. ASSUME UNCHANGED <<food, foodData, foodWr, foodMemory, stale>>,
             main \notin {"fill"} \cup Sending, main' \notin {"data", "address", "strobe", "release"},
             \A k \in 0 .. Lines - 1 : Sent(k)' => Sent(k)
      PROVE  SyncInv'
  BY <1>1 DEF SyncInv, FoodMemoryInSync, Sending
<1>2. ASSUME UNCHANGED <<food, foodPort, stale, main, line, word, enabled>>
      PROVE  SyncInv'
  BY <1>2 DEF SyncInv, FoodMemoryInSync, Sent, Booting
<1>3. ASSUME NEW i \in {"REFRESH"} \cup Pressed, Edge(i) PROVE SyncInv'
  BY <1>2, <1>3 DEF Edge
<1>4. ASSUME NEW i \in Buttons, ButtonHandler(i) PROVE SyncInv'
  BY <1>2, <1>4 DEF ButtonHandler
<1>5. CASE ResetScore
  BY <1>1, <1>5 DEF ResetScore, At, Sending, Sent, Booting
<1>6. CASE init_position
  BY <1>1, <1>6 DEF init_position, InitPositionX, InitPositionY, InitPositionFacing, At,
                    Sending, Sent, Booting
<1>7. CASE set_background_in_memory
  BY <1>1, <1>7 DEF set_background_in_memory, At, Sending, Sent, Booting
<1>8. CASE init_foodLayer
  <2>1. /\ main = "fill" /\ UNCHANGED <<enabled, foodData, foodWr, foodMemory, stale>>
        /\ food' = Store(food, line, Columns \ LineOf(CharBackground, line))
        /\ \/ main' = "fill" /\ line' = line + 1
           \/ main' = "fetch" /\ line' = 0
    BY <1>8 DEF init_foodLayer, At
  <2>2. \A k : k # line => LineOf(food', k) = LineOf(food, k)
    BY <2>1, LineAfterStore
  <2>3. \A k \in 0 .. Lines - 1 : Sent(k)' => Sent(k) /\ k # line
    BY <2>1, BoardAssumption DEF Sent, Sending, Booting, TypeInv, TypeOK
  <2>4. FoodMemoryInSync'
    BY <2>1, <2>2, <2>3 DEF SyncInv, FoodMemoryInSync
  <2> QED BY <2>1, <2>4 DEF SyncInv
<1>9. CASE set_foodLayer_in_memory
  BY <1>9, SyncSending
<1>10. CASE ClearEdges
  BY <1>1, <1>10 DEF ClearEdges, At, Sending, Sent
<1>11. CASE RegisterHandler
  BY <1>1, <1>11 DEF RegisterHandler, At, Sending, Sent
<1>12. CASE ReadScore \/ display_number
  BY <1>1, <1>12 DEF ReadScore, display_number, At, Sending, Sent, Booting
<1>13. CASE food_layer_empty
  BY <1>1, <1>13 DEF food_layer_empty, At, Sending, Sent, Booting
<1>14. CASE UNCHANGED vars
  BY <1>2, <1>14 DEF vars
<1> QED BY <1>3, <1>4, <1>5, <1>6, <1>7, <1>8, <1>9, <1>10, <1>11, <1>12, <1>13,
           <1>14, SyncHandler DEF Next, Handler, MainStep

(* Every line of the video's food memory that init_game has sent agrees    *)
(* with the array, unless a dot was eaten just while it was being sent.    *)
THEOREM MemoryInSync == Spec => []FoodMemoryInSync
<1>1. Init => TypeInv /\ SyncInv
  BY TypeInit, SyncInit
<1>2. TypeInv /\ SyncInv /\ [Next]_vars => (TypeInv /\ SyncInv)'
  BY TypeNext, SyncNext
<1>3. SyncInv => FoodMemoryInSync
  BY DEF SyncInv
<1> QED BY <1>1, <1>2, <1>3, PTL DEF Spec
=============================================================================
