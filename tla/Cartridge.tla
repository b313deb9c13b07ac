----------------------------- MODULE Cartridge ------------------------------
(***************************************************************************)
(* The cartridge alone, under every sequence of gamepad bytes, several     *)
(* bits at once included: what the game promises to any host.              *)
(***************************************************************************)
EXTENDS Snake

VARIABLES
  bends,     \* history: turns accepted since the last move, counted up to 2
  waited,    \* history: frames since the last move
  reversed   \* history: the snake has moved onto its own neck

vars == <<snakeVars, bends, waited, reversed>>

TypeOK ==
  /\ SnakeTypeOK
  /\ bends \in 0..2
  /\ waited \in 0..MovePeriod
  /\ reversed \in BOOLEAN

Init ==
  /\ SnakeInit
  /\ bends = 0
  /\ waited = 0
  /\ reversed = FALSE

-----------------------------------------------------------------------------
\* The turns input() accepts in one frame: each one changes the heading.
Accepted(pad) ==
  IF pad = prev_gamepad THEN {}
  ELSE {b \in pad : \/ b = "down"  /\ AfterDown(pad)  # direction
                    \/ b = "left"  /\ AfterLeft(pad)  # AfterDown(pad)
                    \/ b = "right" /\ AfterRight(pad) # AfterLeft(pad)
                    \/ b = "up"    /\ AfterUp(pad)    # AfterRight(pad)}

BendsNow(pad) ==
  CASE Accepted(pad) = {} -> bends
    [] bends = 0 /\ \E b \in pad : Accepted(pad) = {b} -> 1
    [] OTHER -> 2

Still(pad) ==
  /\ Wait(pad)
  /\ bends' = BendsNow(pad)
  /\ waited' = waited + 1
  /\ UNCHANGED reversed

Moves(pad) ==
  /\ Slide(pad) \/ Eat(pad)
  /\ bends' = 0
  /\ waited' = 0
  /\ reversed' = (reversed \/ body'[1] = body[2])

Next == \E pad \in Gamepad : Still(pad) \/ Moves(pad)

Spec == Init /\ [][Next]_vars

-----------------------------------------------------------------------------
\* The heading of the last move.
Travels(h) == body[1] = Step(body[2], h)

\* The snake is in one piece: every segment is the neighbour of the one before
\* it, on the torus, through every move, every bite and every turn.
Connected ==
  \A i \in 1..(Len(body) - 1) : \E h \in Heading : body[i] = Step(body[i + 1], h)

\* Without a turn since the last move the snake goes straight on, and a single
\* turn leaves it a right angle: the gates let it face its own neck only when
\* two turns were accepted between two moves.
OneBendIsNoReversal ==
  \A h \in Heading : Travels(h) =>
    /\ bends = 0 => direction = h
    /\ bends = 1 => direction \in {Clockwise(h), CounterClockwise(h)}

\* The first place a snake can bite itself in without having turned back: it
\* must have eaten twice.
ShortSnakeLives == IsDead => reversed \/ Len(body) >= 5

\* The snake never waits longer than MovePeriod frames, the wrap of the frame
\* counter included (there it may wait less).
KeepsPace == waited < MovePeriod
=============================================================================
