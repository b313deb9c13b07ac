------------------------------ MODULE Headings ------------------------------
(***************************************************************************)
(* The four directions of travel and the gamepad byte that carries them    *)
(* from the firmware (components/game_app/control.c) to the cartridge      *)
(* (snake-mbt).  A heading is the point (dx, dy) both sides keep, in       *)
(* screen coordinates: y grows downwards.                                  *)
(***************************************************************************)
EXTENDS Integers

Right == [x |-> 1, y |-> 0]
Left  == [x |-> -1, y |-> 0]
Down  == [x |-> 0, y |-> 1]
Up    == [x |-> 0, y |-> -1]

Heading == {Right, Left, Down, Up}

\* A quarter turn, by turn() of control.c: (x, y) -> (-y, x) clockwise.
Clockwise(h)        == [x |-> -h.y, y |-> h.x]
CounterClockwise(h) == [x |-> h.y, y |-> -h.x]
Opposite(h)         == [x |-> -h.x, y |-> -h.y]

\* The gamepad byte is the set of its direction bits that are set.
Direction == {"down", "left", "right", "up"}
Gamepad   == SUBSET Direction

\* The bit turn() answers for a heading.
ButtonOf(h) == CASE h.x > 0 -> "right"
                 [] h.x < 0 -> "left"
                 [] h.y > 0 -> "down"
                 [] OTHER   -> "up"

\* The heading a bit asks the cartridge for.
HeadingOf(b) == CASE b = "down"  -> Down
                  [] b = "left"  -> Left
                  [] b = "right" -> Right
                  [] b = "up"    -> Up
=============================================================================
