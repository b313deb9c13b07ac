---------------------------- MODULE CartridgeMC -----------------------------
(***************************************************************************)
(* Cartridge on a small torus, with fruit where a short snake finds it.    *)
(***************************************************************************)
EXTENDS Cartridge

CONSTANT MaxLen   \* bound: the longest snake TLC explores

MCFruitCells == {[x |-> 3, y |-> 0], [x |-> 3, y |-> 1]}

LengthBound == Len(body) <= MaxLen
=============================================================================
