----------------------------- MODULE PlayLemmas -----------------------------
(***************************************************************************)
(* Facts about the headings, one poll of the buttons and one update of the *)
(* cartridge, used by the proofs of Debounce, Cartridge and GameLoop.      *)
(***************************************************************************)
EXTENDS Control, Snake, TLAPS

-----------------------------------------------------------------------------
(* The buttons. *)

\* A quarter turn of a heading is a heading, another one, and on the other
\* axis.
LEMMA QuarterTurns ==
  ASSUME NEW h \in Heading
  PROVE  /\ Clockwise(h) \in Heading
         /\ CounterClockwise(h) \in Heading
         /\ Clockwise(h) # h
         /\ CounterClockwise(h) # h
         /\ Clockwise(h) # CounterClockwise(h)
BY DEF Heading, Right, Left, Up, Down, Clockwise, CounterClockwise

\* Each heading has a bit of the gamepad of its own.
LEMMA ButtonsAreHeadings ==
  ASSUME NEW h \in Heading
  PROVE  /\ ButtonOf(h) \in Direction
         /\ HeadingOf(ButtonOf(h)) = h
BY DEF Heading, Right, Left, Up, Down, ButtonOf, HeadingOf, Direction

\* The state of a button stays in its type through a sample.
LEMMA SampleType ==
  ASSUME ControlTypeOK, NEW b \in Buttons, NEW lvl \in Levels
  PROVE  /\ Sampled(b, lvl) \in ButtonState
         /\ AfterSample(b, lvl) \in ButtonState
         /\ PressedOnce(b, lvl) \in BOOLEAN
<1>1. btn[b] \in ButtonState
  BY DEF ControlTypeOK
<1>2. Sampled(b, lvl) \in ButtonState
  BY <1>1, StableFramesAssumption DEF Sampled, ButtonState, Levels
<1> QED
  BY <1>2 DEF AfterSample, PressedOnce, ButtonState

\* What a sample leaves, field by field.
LEMMA SampleFields ==
  ASSUME ControlTypeOK, NEW b \in Buttons, NEW lvl \in Levels
  PROVE  /\ AfterSample(b, lvl).last = lvl
         /\ AfterSample(b, lvl).cnt =
              IF lvl # btn[b].last THEN 0
              ELSE IF btn[b].cnt < StableFrames THEN btn[b].cnt + 1 ELSE btn[b].cnt
         /\ AfterSample(b, lvl).fired <=>
              PressedOnce(b, lvl) \/ (lvl = btn[b].last /\ btn[b].fired)
         /\ PressedOnce(b, lvl) <=>
              /\ lvl = 0
              /\ AfterSample(b, lvl).cnt >= StableFrames
              /\ ~(lvl = btn[b].last /\ btn[b].fired)
<1>1. btn[b] \in ButtonState
  BY DEF ControlTypeOK
<1>2. CASE lvl = btn[b].last
  BY <1>1, <1>2 DEF AfterSample, PressedOnce, Sampled, ButtonState
<1>3. CASE lvl # btn[b].last
  BY <1>1, <1>3 DEF AfterSample, PressedOnce, Sampled, ButtonState
<1> QED
  BY <1>2, <1>3

\* One poll keeps the types, answers one bit at most, and turns the shadow
\* exactly when it answers one.
LEMMA PollType ==
  ASSUME ControlTypeOK, NEW lvl \in PinLevels, NEW pad, GetPlayerState(lvl, pad)
  PROVE  /\ ControlTypeOK'
         /\ pad \in Pulses
<1>1. \A b \in Buttons : AfterSample(b, lvl[b]) \in ButtonState
  BY SampleType DEF PinLevels
<1>2. 0 \in Buttons /\ 1 \in Buttons
  BY DEF Buttons
<1>3. CASE TurnLeft(lvl, pad)
  <2>1. btn' \in [Buttons -> ButtonState]
    BY <1>1, <1>2, <1>3 DEF TurnLeft, ControlTypeOK
  <2> QED
    BY <1>3, <2>1, QuarterTurns, ButtonsAreHeadings
       DEF TurnLeft, ControlTypeOK, Pulses
<1>4. CASE TurnRight(lvl, pad)
  <2>1. btn' \in [Buttons -> ButtonState]
    BY <1>1, <1>4 DEF TurnRight
  <2> QED
    BY <1>4, <2>1, QuarterTurns, ButtonsAreHeadings
       DEF TurnRight, ControlTypeOK, Pulses
<1>5. CASE NoTurn(lvl, pad)
  BY <1>1, <1>5 DEF NoTurn, ControlTypeOK, Pulses
<1> QED
  BY <1>3, <1>4, <1>5 DEF GetPlayerState

\* Only a button that reads low remembers having fired.
FiredIsLow == \A b \in Buttons : btn[b].fired => btn[b].last = 0

LEMMA PollFired ==
  ASSUME ControlTypeOK, FiredIsLow,
         NEW lvl \in PinLevels, NEW pad, GetPlayerState(lvl, pad)
  PROVE  FiredIsLow'
<1>1. \A b \in Buttons : AfterSample(b, lvl[b]).fired => AfterSample(b, lvl[b]).last = 0
  BY SampleFields DEF FiredIsLow, PinLevels
<1>2. CASE TurnLeft(lvl, pad)
  BY <1>1, <1>2 DEF TurnLeft, FiredIsLow, ControlTypeOK
<1>3. CASE TurnRight(lvl, pad)
  BY <1>1, <1>3 DEF TurnRight, FiredIsLow
<1>4. CASE NoTurn(lvl, pad)
  BY <1>1, <1>4 DEF NoTurn, FiredIsLow
<1> QED
  BY <1>2, <1>3, <1>4 DEF GetPlayerState

\* The buttons start well typed.
LEMMA ControlInitType == ControlInit => ControlTypeOK
BY StableFramesAssumption
   DEF ControlInit, ControlTypeOK, Untouched, ButtonState, Levels, Heading
-----------------------------------------------------------------------------
(* The cartridge. *)

\* A step from a cell leads to a cell.
LEMMA StepType ==
  ASSUME NEW c \in Cell, NEW h \in Heading
  PROVE  Step(c, h) \in Cell
<1>1. c.x + h.x + Grid \in Int /\ c.y + h.y + Grid \in Int
  BY GridAssumption DEF Cell, Heading, Right, Left, Up, Down
<1>2. \A n \in Int : n % Grid \in 0..(Grid - 1)
  BY GridAssumption
<1> QED
  BY <1>1, <1>2 DEF Step, Cell

\* The three ways a coordinate changes in a step, the edges of the torus
\* included.
LEMMA Wrap ==
  ASSUME NEW n \in 0..(Grid - 1)
  PROVE  /\ (n + 0 + Grid) % Grid = n
         /\ (n + 1 + Grid) % Grid = IF n = Grid - 1 THEN 0 ELSE n + 1
         /\ (n + (-1) + Grid) % Grid = IF n = 0 THEN Grid - 1 ELSE n - 1
BY GridAssumption

\* The four neighbours of a cell.
LEMMA StepValue ==
  ASSUME NEW c \in Cell
  PROVE  /\ Step(c, Right) = [x |-> IF c.x = Grid - 1 THEN 0 ELSE c.x + 1, y |-> c.y]
         /\ Step(c, Left)  = [x |-> IF c.x = 0 THEN Grid - 1 ELSE c.x - 1, y |-> c.y]
         /\ Step(c, Down)  = [x |-> c.x, y |-> IF c.y = Grid - 1 THEN 0 ELSE c.y + 1]
         /\ Step(c, Up)    = [x |-> c.x, y |-> IF c.y = 0 THEN Grid - 1 ELSE c.y - 1]
<1>1. c.x \in 0..(Grid - 1) /\ c.y \in 0..(Grid - 1)
  BY DEF Cell
<1> QED
  BY <1>1, Wrap DEF Step, Right, Left, Down, Up

\* The neighbours of a cell are four different cells, and none of them is the
\* cell itself.
LEMMA StepInjective ==
  ASSUME NEW c \in Cell, NEW h \in Heading, NEW g \in Heading
  PROVE  /\ Step(c, h) # c
         /\ Step(c, h) = Step(c, g) => h = g
<1>1. c.x \in 0..(Grid - 1) /\ c.y \in 0..(Grid - 1) /\ c = [x |-> c.x, y |-> c.y]
  BY DEF Cell
<1> QED
  BY <1>1, StepValue, GridAssumption DEF Heading

\* The only way back is the opposite step.
LEMMA StepBack ==
  ASSUME NEW c \in Cell, NEW h \in Heading, NEW g \in Heading,
         Step(Step(c, h), g) = c
  PROVE  g = Opposite(h)
<1>1. /\ c.x \in 0..(Grid - 1) /\ c.y \in 0..(Grid - 1)
      /\ Step(c, h) \in Cell
  BY StepType DEF Cell
<1>2. /\ Opposite(Right) = Left /\ Opposite(Left) = Right
      /\ Opposite(Down) = Up    /\ Opposite(Up) = Down
  BY DEF Opposite, Right, Left, Up, Down
<1> QED
  BY <1>1, <1>2, StepValue, GridAssumption DEF Heading

\* Nor do three steps lead back, but on a torus of three cells a side.
LEMMA NoTriangle ==
  ASSUME Grid >= 4, NEW c \in Cell,
         NEW h \in Heading, NEW g \in Heading, NEW k \in Heading
  PROVE  Step(Step(Step(c, h), g), k) # c
<1>1. /\ c.x \in 0..(Grid - 1) /\ c.y \in 0..(Grid - 1)
      /\ Step(c, h) \in Cell
      /\ Step(Step(c, h), g) \in Cell
  BY StepType DEF Cell
<1> QED
  BY <1>1, StepValue, GridAssumption DEF Heading

\* The bits of the gamepad leave a heading that is a heading.
LEMMA SteeredType ==
  ASSUME direction \in Heading, NEW pad
  PROVE  /\ AfterDown(pad) \in Heading
         /\ AfterLeft(pad) \in Heading
         /\ AfterRight(pad) \in Heading
         /\ AfterUp(pad) \in Heading
         /\ Steered(pad) \in Heading
<1>1. \A b \in Direction : HeadingOf(b) \in Heading
  BY DEF HeadingOf, Direction, Heading
<1>2. "down" \in Direction /\ "left" \in Direction /\ "right" \in Direction /\ "up" \in Direction
  BY DEF Direction
<1>3. AfterDown(pad) \in Heading
  BY <1>1, <1>2 DEF AfterDown, Press
<1>4. AfterLeft(pad) \in Heading
  BY <1>1, <1>2, <1>3 DEF AfterLeft, Press
<1>5. AfterRight(pad) \in Heading
  BY <1>1, <1>2, <1>4 DEF AfterRight, Press
<1>6. AfterUp(pad) \in Heading
  BY <1>1, <1>2, <1>5 DEF AfterUp, Press
<1> QED
  BY <1>3, <1>4, <1>5, <1>6 DEF Steered

\* A bit that is accepted turns the heading by a right angle.
LEMMA PressTurns ==
  ASSUME NEW d \in Heading, NEW b \in Direction, NEW pad, Press(d, b, pad) # d
  PROVE  b \in pad /\ Press(d, b, pad) \in {Clockwise(d), CounterClockwise(d)}
BY DEF Press, Accepts, HeadingOf, Direction, Clockwise, CounterClockwise,
       Heading, Right, Left, Up, Down

\* What a move makes of the body: a new head, and every segment where the one
\* before it was.
LEMMA MovedBody ==
  ASSUME body \in Seq(Cell), Len(body) >= 3, NEW h \in Heading
  PROVE  /\ Moved(h) \in Seq(Cell)
         /\ Len(Moved(h)) = Len(body)
         /\ Moved(h)[1] = Step(body[1], h)
         /\ \A i \in 2..Len(body) : Moved(h)[i] = body[i - 1]
<1> DEFINE head == Step(body[1], h)
<1>1. head \in Cell
  BY StepType
<1>2. Front(body) \in Seq(Cell) /\ Len(Front(body)) = Len(body) - 1
  BY DEF Front
<1>3. \A i \in 1..(Len(body) - 1) : Front(body)[i] = body[i]
  BY DEF Front
<1>4. <<head>> \in Seq(Cell) /\ Len(<<head>>) = 1 /\ <<head>>[1] = head
  BY <1>1
<1> HIDE DEF head
<1>5. Moved(h) = <<head>> \o Front(body)
  BY DEF Moved, head
<1>6. /\ Moved(h) \in Seq(Cell)
      /\ Len(Moved(h)) = Len(body)
      /\ Moved(h)[1] = head
  BY <1>2, <1>4, <1>5
<1>7. ASSUME NEW i \in 2..Len(body) PROVE Moved(h)[i] = body[i - 1]
  <2>1. Moved(h)[i] = Front(body)[i - 1]
    BY <1>2, <1>4, <1>5
  <2> QED
    BY <1>3, <2>1
<1> QED
  BY <1>6, <1>7 DEF head

\* The body after a move that ate: the dropped point is back at the end.
LEMMA GrownBody ==
  ASSUME body \in Seq(Cell), Len(body) >= 3, NEW h \in Heading
  PROVE  LET grown == Append(Moved(h), Dropped)
         IN  /\ grown \in Seq(Cell)
             /\ Len(grown) = Len(body) + 1
             /\ grown[1] = Step(body[1], h)
             /\ \A i \in 2..(Len(body) + 1) : grown[i] = body[i - 1]
<1>1. Dropped \in Cell /\ Dropped = body[Len(body)]
  BY DEF Dropped, Last
<1> QED
  BY <1>1, MovedBody

\* One update keeps the types.
LEMMA UpdateType ==
  ASSUME SnakeTypeOK, NEW pad \in Gamepad, CartUpdate(pad)
  PROVE  SnakeTypeOK'
<1>1. CartUpdate(pad) => Begin(pad)
  BY DEF CartUpdate, Wait, Slide, Eat
<1>2. /\ direction' \in Heading
      /\ prev_gamepad' \in Gamepad
  BY <1>1, SteeredType DEF Begin, SnakeTypeOK
<1>3. frame_count' \in 0..(FrameWrap - 1)
  BY <1>1, PaceAssumption DEF Begin, SnakeTypeOK, NextFrame
<1>4. CASE Wait(pad)
  BY <1>2, <1>3, <1>4 DEF Wait, SnakeTypeOK
<1>5. CASE Slide(pad)
  BY <1>2, <1>3, <1>5, MovedBody DEF Slide, SnakeTypeOK
<1>6. CASE Eat(pad)
  BY <1>2, <1>3, <1>6, GrownBody DEF Eat, SnakeTypeOK
<1> QED
  BY <1>4, <1>5, <1>6 DEF CartUpdate

\* A new cartridge is well typed.
LEMMA NewBodyType == NewBody \in Seq(Cell) /\ Len(NewBody) = 3
<1>1. 0 \in 0..(Grid - 1) /\ 1 \in 0..(Grid - 1) /\ 2 \in 0..(Grid - 1)
  BY GridAssumption
<1>2. [x |-> 2, y |-> 0] \in Cell /\ [x |-> 1, y |-> 0] \in Cell /\ [x |-> 0, y |-> 0] \in Cell
  BY <1>1 DEF Cell
<1> QED
  BY <1>2 DEF NewBody

LEMMA SnakeInitType == SnakeInit => SnakeTypeOK
<1>1. 0 \in 0..(FrameWrap - 1)
  BY PaceAssumption
<1> QED
  BY <1>1, NewBodyType DEF SnakeInit, SnakeTypeOK, Heading, Gamepad

LEMMA SnakeRestartType == SnakeRestart => SnakeTypeOK'
<1>1. 0 \in 0..(FrameWrap - 1)
  BY PaceAssumption
<1> QED
  BY <1>1, NewBodyType DEF SnakeRestart, SnakeTypeOK, Heading, Gamepad
=============================================================================
