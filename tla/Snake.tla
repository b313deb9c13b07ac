------------------------------- MODULE Snake --------------------------------
(***************************************************************************)
(* The cartridge: snake-mbt/game.mbt and snake-mbt/snake.mbt.  Its one     *)
(* operation, CartUpdate(pad), is the exported `update' run with the       *)
(* gamepad byte pad in memory.                                             *)
(*                                                                         *)
(* The module has no specification of its own: Cartridge runs it with any  *)
(* gamepad byte and GameLoop with what the buttons produce.                *)
(***************************************************************************)
EXTENDS Headings, Sequences, SequencesExt

CONSTANTS
  Grid,         \* cells on a side of the torus: 20
  MovePeriod,   \* frames between two moves: 30
  FrameWrap,    \* frame_count is a UInt: 2^32
  FruitCells    \* the cells the random generator may choose

Cell == [x : 0..(Grid - 1), y : 0..(Grid - 1)]

\* Snake::new() needs three cells in a row.
ASSUME GridAssumption  == Grid \in Nat /\ Grid >= 3
ASSUME PaceAssumption  == MovePeriod \in Nat \ {0} /\ FrameWrap \in Nat \ {0}
ASSUME FruitAssumption == FruitCells \subseteq Cell /\ FruitCells # {}

VARIABLES
  body,          \* the deque of points, the head first
  direction,     \* the heading of the next move
  frame_count,
  prev_gamepad,  \* the gamepad byte of the last frame
  fruit

snakeVars == <<body, direction, frame_count, prev_gamepad, fruit>>

SnakeTypeOK ==
  /\ body \in Seq(Cell) /\ Len(body) >= 3
  /\ direction \in Heading
  /\ frame_count \in 0..(FrameWrap - 1)
  /\ prev_gamepad \in Gamepad
  /\ fruit \in FruitCells

NewBody == <<[x |-> 2, y |-> 0], [x |-> 1, y |-> 0], [x |-> 0, y |-> 0]>>

SnakeInit ==
  /\ body = NewBody
  /\ direction = Right
  /\ frame_count = 0
  /\ prev_gamepad = {}
  /\ fruit \in FruitCells

\* A new instance of the cartridge.
SnakeRestart ==
  /\ body' = NewBody
  /\ direction' = Right
  /\ frame_count' = 0
  /\ prev_gamepad' = {}
  /\ fruit' \in FruitCells

-----------------------------------------------------------------------------
\* Mistake: only the heading the snake already has is refused.
Accepts_AnyOther(d, b) == HeadingOf(b) # d

\* up() and down() are refused unless the pending direction is horizontal,
\* left() and right() unless it is vertical.
Accepts(d, b) == IF b \in {"up", "down"} THEN d.y = 0 ELSE d.x = 0

\* Direction d after the test of bit b of the gamepad.
Press(d, b, pad) == IF b \in pad /\ Accepts(d, b) THEN HeadingOf(b) ELSE d

\* The bits are tested in this order, each on what the one before it left.
AfterDown(pad)  == Press(direction, "down", pad)
AfterLeft(pad)  == Press(AfterDown(pad), "left", pad)
AfterRight(pad) == Press(AfterLeft(pad), "right", pad)
AfterUp(pad)    == Press(AfterRight(pad), "up", pad)

\* The heading input() leaves: a byte is looked at only in the frame it changes.
Steered(pad) == IF pad = prev_gamepad THEN direction ELSE AfterUp(pad)

\* Mistake: the head is compared with itself too.
IsDead_CountsHead == \E i \in 1..Len(body) : body[i] = body[1]

\* is_dead(): another segment lies where the head is.
IsDead == \E i \in 2..Len(body) : body[i] = body[1]

\* Mistake: no wrap at the far edges.
Step_NoTorus(c, h) == [x |-> c.x + h.x, y |-> c.y + h.y]

\* The neighbour of cell c towards h, across the edge of the torus if need be.
Step(c, h) == [x |-> (c.x + h.x + Grid) % Grid, y |-> (c.y + h.y + Grid) % Grid]

\* The body after Snake::update(), which returns the point it dropped.
Moved(h) == <<Step(body[1], h)>> \o Front(body)

\* Mistake: the wrong end of the deque.
Dropped_Front == Head(body)

Dropped == Last(body)

\* Mistake: a counter that never wraps.
NextFrame_Unbounded == frame_count + 1

NextFrame == (frame_count + 1) % FrameWrap

\* Mistake: one frame too many between two moves.
IsBeat_Late == NextFrame % (MovePeriod + 1) = 0

IsBeat == NextFrame % MovePeriod = 0

\* What every frame does, with or without a move: count and read the gamepad.
Begin(pad) ==
  /\ frame_count' = NextFrame
  /\ direction' = Steered(pad)
  /\ prev_gamepad' = pad

Wait(pad) ==
  /\ ~IsBeat
  /\ Begin(pad)
  /\ UNCHANGED <<body, fruit>>

Slide(pad) ==
  /\ IsBeat
  /\ Begin(pad)
  /\ body' = Moved(direction')
  /\ body'[1] # fruit
  /\ UNCHANGED fruit

\* The dropped point is put back, and the next fruit may lie anywhere: on the
\* snake too.
Eat(pad) ==
  /\ IsBeat
  /\ Begin(pad)
  /\ Step(body[1], direction') = fruit
  /\ body' = Append(Moved(direction'), Dropped)
  /\ fruit' \in FruitCells

\* Game::update().  A dead snake goes on moving.
CartUpdate(pad) == Wait(pad) \/ Slide(pad) \/ Eat(pad)
=============================================================================
