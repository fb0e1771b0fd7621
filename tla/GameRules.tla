----------------------------- MODULE GameRules -----------------------------
(***************************************************************************)
(* What a player sees of pacman_soft_1: dots are eaten one at a time, each *)
(* is worth a point, and a new game, full of dots and with no points,      *)
(* starts only when none is left, and then does start.                     *)
(***************************************************************************)
EXTENDS Integers, FiniteSets

CONSTANT Board    \* the blocks that have a dot when a game starts

VARIABLES dots, points

Init == dots = Board /\ points = 0

Eat ==
  \E d \in dots : dots' = dots \ {d} /\ points' = points + 1

NewGame ==
  /\ dots = {}
  /\ dots' = Board /\ points' = 0

Next == Eat \/ NewGame

Rules == Init /\ [][Next]_<<dots, points>>
Spec == Rules /\ WF_<<dots, points>>(NewGame)
=============================================================================
