----------------------------- MODULE GameLoopMC -----------------------------
(***************************************************************************)
(* GameLoop on a small torus.                                              *)
(***************************************************************************)
EXTENDS GameLoop

CONSTANT MaxLen   \* bound: the longest snake TLC explores

\* Far from the start, and near it.
MCFarFruit  == {[x |-> Grid - 1, y |-> Grid - 1]}
MCNearFruit == {[x |-> 3, y |-> 0]}

LengthBound == Len(body) <= MaxLen
=============================================================================
