-------------------------- MODULE CartridgeProofs ---------------------------
(***************************************************************************)
(* What the cartridge keeps true on every torus, at every pace and under   *)
(* every gamepad byte.                                                     *)
(***************************************************************************)
EXTENDS Cartridge, PlayLemmas

\* The snake has never folded back on itself.
Unfolded == \A i \in 1..(Len(body) - 2) : body[i] # body[i + 2]

IInv ==
  /\ TypeOK
  /\ Connected
  /\ OneBendIsNoReversal
  /\ waited = frame_count % MovePeriod
  /\ ~reversed => Unfolded

-----------------------------------------------------------------------------
LEMMA InitInv == Init => IInv
<1> SUFFICES ASSUME Init PROVE IInv
  OBVIOUS
<1>1. TypeOK
  <2>1. SnakeTypeOK
    BY SnakeInitType DEF Init
  <2>2. bends \in 0..2 /\ waited \in 0..MovePeriod
    BY PaceAssumption DEF Init
  <2>3. reversed \in BOOLEAN
    BY DEF Init
  <2> QED
    BY <2>1, <2>2, <2>3 DEF TypeOK
<1>2. /\ body[1] = [x |-> 2, y |-> 0]
      /\ body[2] = [x |-> 1, y |-> 0]
      /\ body[3] = [x |-> 0, y |-> 0]
      /\ Len(body) = 3
      /\ direction = Right /\ bends = 0
  BY DEF Init, SnakeInit, NewBody
<1>3. body[2] \in Cell /\ body[3] \in Cell
  <2>1. body \in Seq(Cell) /\ Len(body) \in Nat /\ Len(body) >= 3
    BY <1>1, <1>2 DEF TypeOK, SnakeTypeOK
  <2> QED
    BY <2>1
<1>4. body[1] = Step(body[2], Right) /\ body[2] = Step(body[3], Right)
  BY <1>2, <1>3, StepValue, GridAssumption
<1>5. Connected
  <2>1. \A i \in 1..(Len(body) - 1) : i = 1 \/ i = 2
    BY <1>2
  <2>2. Right \in Heading
    BY DEF Heading
  <2> QED
    BY <1>4, <2>1, <2>2 DEF Connected
<1>6. OneBendIsNoReversal
  BY <1>2, <1>3, <1>4, StepInjective DEF OneBendIsNoReversal, Travels, Heading
<1>7. waited = frame_count % MovePeriod
  BY PaceAssumption DEF Init, SnakeInit
<1>8. Unfolded
  BY <1>2 DEF Unfolded
<1> QED
  BY <1>1, <1>5, <1>6, <1>7, <1>8 DEF IInv

-----------------------------------------------------------------------------
\* The turns of one frame: none leaves the heading, a single one is a right
\* angle.
LEMMA AcceptedTurns ==
  ASSUME direction \in Heading, NEW pad \in Gamepad
  PROVE  /\ Accepted(pad) = {} => Steered(pad) = direction
         /\ \A b : Accepted(pad) = {b} =>
              Steered(pad) \in {Clockwise(direction), CounterClockwise(direction)}
<1>1. CASE pad = prev_gamepad
  BY <1>1 DEF Accepted, Steered
<1>2. CASE pad # prev_gamepad
  <2> DEFINE d1 == AfterDown(pad)
             d2 == AfterLeft(pad)
             d3 == AfterRight(pad)
             d4 == AfterUp(pad)
             Turned(d, e) == e \in {Clockwise(d), CounterClockwise(d)}
  <2>1. d1 \in Heading /\ d2 \in Heading /\ d3 \in Heading /\ d4 \in Heading
    BY SteeredType
  <2>2. /\ d1 # direction => Turned(direction, d1) /\ "down" \in pad
        /\ d2 # d1 => Turned(d1, d2) /\ "left" \in pad
        /\ d3 # d2 => Turned(d2, d3) /\ "right" \in pad
        /\ d4 # d3 => Turned(d3, d4) /\ "up" \in pad
    BY <2>1, PressTurns
       DEF AfterDown, AfterLeft, AfterRight, AfterUp, Direction
  <2>3. /\ d1 # direction => "down" \in Accepted(pad)
        /\ d2 # d1 => "left" \in Accepted(pad)
        /\ d3 # d2 => "right" \in Accepted(pad)
        /\ d4 # d3 => "up" \in Accepted(pad)
    BY <1>2, <2>2 DEF Accepted
  <2>4. Steered(pad) = d4
    BY <1>2 DEF Steered
  <2>5. Accepted(pad) = {} => Steered(pad) = direction
    BY <2>3, <2>4
  <2>6. ASSUME NEW b, Accepted(pad) = {b}
        PROVE  Turned(direction, Steered(pad))
    <3> HIDE DEF d1, d2, d3, d4, Turned
    <3>1. CASE d1 # direction
      <4>1. b = "down" /\ d2 = d1 /\ d3 = d2 /\ d4 = d3
        BY <2>3, <2>6, <3>1
      <4> QED
        BY <2>2, <2>4, <3>1, <4>1
    <3>2. CASE d1 = direction /\ d2 # d1
      <4>1. b = "left" /\ d3 = d2 /\ d4 = d3
        BY <2>3, <2>6, <3>2
      <4> QED
        BY <2>2, <2>4, <3>2, <4>1
    <3>3. CASE d1 = direction /\ d2 = d1 /\ d3 # d2
      <4>1. b = "right" /\ d4 = d3
        BY <2>3, <2>6, <3>3
      <4> QED
        BY <2>2, <2>4, <3>3, <4>1
    <3>4. CASE d1 = direction /\ d2 = d1 /\ d3 = d2
      <4>1. d4 # d3
        <5> SUFFICES ASSUME d4 = d3 PROVE FALSE
          OBVIOUS
        <5>1. b \in Accepted(pad)
          BY <2>6
        <5> QED
          BY <3>4, <5>1 DEF Accepted, d1, d2, d3, d4
      <4> QED
        BY <2>2, <2>4, <3>4, <4>1
    <3> QED
      BY <3>1, <3>2, <3>3, <3>4
  <2> QED
    BY <2>5, <2>6
<1> QED
  BY <1>1, <1>2

LEMMA ModSucc ==
  ASSUME NEW n \in Nat, NEW p \in Nat \ {0}
  PROVE  /\ n % p < p
         /\ (n + 1) % p # 0 => (n + 1) % p = (n % p) + 1
OBVIOUS

\* The frame counter and the frames waited for go together.
LEMMA WaitedCounts ==
  ASSUME frame_count \in 0..(FrameWrap - 1), waited = frame_count % MovePeriod
  PROVE  /\ ~IsBeat => waited + 1 = NextFrame % MovePeriod
         /\ IsBeat => 0 = NextFrame % MovePeriod
         /\ waited < MovePeriod
<1>1. NextFrame = IF frame_count = FrameWrap - 1 THEN 0 ELSE frame_count + 1
  BY PaceAssumption DEF NextFrame
<1>2. 0 % MovePeriod = 0
  BY PaceAssumption
<1>3. frame_count \in Nat
  BY PaceAssumption
<1>4. /\ (frame_count + 1) % MovePeriod # 0 =>
           (frame_count + 1) % MovePeriod = (frame_count % MovePeriod) + 1
      /\ frame_count % MovePeriod < MovePeriod
  BY <1>3, ModSucc, PaceAssumption
<1> QED
  BY <1>1, <1>2, <1>4 DEF IsBeat

-----------------------------------------------------------------------------
LEMMA StillInv ==
  ASSUME IInv, NEW pad \in Gamepad, Still(pad)
  PROVE  IInv'
<1>1. TypeOK /\ Wait(pad) /\ body' = body /\ reversed' = reversed
  BY DEF IInv, Still, Wait
<1>2. waited' = frame_count' % MovePeriod
  BY <1>1, WaitedCounts DEF IInv, TypeOK, SnakeTypeOK, Still, Wait, Begin
<1>3. TypeOK'
  <2>1. SnakeTypeOK'
    BY <1>1, UpdateType DEF TypeOK, CartUpdate
  <2>2. waited' \in 0..MovePeriod
    BY WaitedCounts, PaceAssumption DEF IInv, TypeOK, SnakeTypeOK, Still
  <2>3. bends' \in 0..2
    BY <1>1 DEF TypeOK, Still, BendsNow
  <2> QED
    BY <1>1, <2>1, <2>2, <2>3 DEF TypeOK
<1>4. Connected' /\ (~reversed => Unfolded)'
  BY <1>1 DEF IInv, Connected, Unfolded
<1>5. OneBendIsNoReversal'
  <2> SUFFICES ASSUME NEW h \in Heading, Travels(h)
               PROVE  /\ bends' = 0 => direction' = h
                      /\ bends' = 1 =>
                           direction' \in {Clockwise(h), CounterClockwise(h)}
    BY <1>1 DEF OneBendIsNoReversal, Travels
  <2>1. /\ bends = 0 => direction = h
        /\ bends = 1 => direction \in {Clockwise(h), CounterClockwise(h)}
    BY DEF IInv, OneBendIsNoReversal
  <2>2. direction' = Steered(pad) /\ bends' = BendsNow(pad)
    BY DEF Still, Wait, Begin
  <2>3. direction \in Heading /\ bends \in 0..2
    BY <1>1 DEF TypeOK, SnakeTypeOK
  <2>4. CASE Accepted(pad) = {}
    BY <2>1, <2>2, <2>3, <2>4, AcceptedTurns DEF BendsNow
  <2>5. CASE Accepted(pad) # {} /\ bends = 0 /\ \E b \in pad : Accepted(pad) = {b}
    BY <2>1, <2>2, <2>3, <2>5, AcceptedTurns DEF BendsNow
  <2>6. CASE Accepted(pad) # {} /\ ~(bends = 0 /\ \E b \in pad : Accepted(pad) = {b})
    BY <2>2, <2>6 DEF BendsNow
  <2> QED
    BY <2>4, <2>5, <2>6
<1> QED
  BY <1>2, <1>3, <1>4, <1>5 DEF IInv

\* Either kind of move: the body one step on, with or without its last cell.
LEMMA MoveShape ==
  ASSUME TypeOK, NEW pad \in Gamepad, Moves(pad)
  PROVE  /\ SnakeTypeOK'
         /\ Len(body') \in {Len(body), Len(body) + 1}
         /\ body'[1] = Step(body[1], direction')
         /\ \A i \in 2..Len(body') : body'[i] = body[i - 1]
<1>1. SnakeTypeOK /\ direction' \in Heading
  BY SteeredType DEF TypeOK, SnakeTypeOK, Moves, Slide, Eat, Begin
<1>2. SnakeTypeOK'
  BY <1>1, UpdateType DEF Moves, CartUpdate
<1>3. CASE Slide(pad)
  BY <1>1, <1>2, <1>3, MovedBody DEF Slide, SnakeTypeOK
<1>4. CASE Eat(pad)
  BY <1>1, <1>2, <1>4, GrownBody DEF Eat, SnakeTypeOK
<1> QED
  BY <1>3, <1>4 DEF Moves

LEMMA MovesInv ==
  ASSUME IInv, NEW pad \in Gamepad, Moves(pad)
  PROVE  IInv'
<1>1. TypeOK /\ Connected
  BY DEF IInv
<1>2. /\ SnakeTypeOK'
      /\ Len(body') \in {Len(body), Len(body) + 1}
      /\ body'[1] = Step(body[1], direction')
      /\ \A i \in 2..Len(body') : body'[i] = body[i - 1]
  BY <1>1, MoveShape
<1>3. /\ direction' \in Heading
      /\ body \in Seq(Cell) /\ Len(body) >= 3 /\ Len(body) \in Nat
      /\ body' \in Seq(Cell) /\ Len(body') >= 3 /\ Len(body') \in Nat
      /\ body'[2] = body[1]
  BY <1>1, <1>2 DEF TypeOK, SnakeTypeOK
<1>4. TypeOK'
  BY <1>1, <1>2, PaceAssumption DEF TypeOK, Moves
<1>5. Connected'
  <2> SUFFICES ASSUME NEW i \in 1..(Len(body') - 1)
               PROVE  \E h \in Heading : body'[i] = Step(body'[i + 1], h)
    BY DEF Connected
  <2>1. CASE i = 1
    BY <1>2, <1>3, <2>1
  <2>2. CASE i > 1
    <3>1. /\ body'[i] = body[i - 1] /\ body'[i + 1] = body[i]
          /\ i - 1 \in 1..(Len(body) - 1)
          /\ (i - 1) + 1 = i
      BY <1>2, <1>3, <2>2
    <3> QED
      BY <1>1, <3>1 DEF Connected
  <2> QED
    BY <2>1, <2>2
<1>6. OneBendIsNoReversal'
  <2>1. \A h \in Heading : Step(body[1], direction') = Step(body[1], h) => h = direction'
    BY <1>3, StepInjective
  <2> QED
    BY <1>2, <1>3, <2>1 DEF OneBendIsNoReversal, Travels, Moves
<1>7. waited' = frame_count' % MovePeriod
  BY DEF Moves, Slide, Eat, Begin, IsBeat
<1>8. (~reversed => Unfolded)'
  <2> SUFFICES ASSUME ~reversed', NEW i \in 1..(Len(body') - 2)
               PROVE  body'[i] # body'[i + 2]
    BY DEF Unfolded
  <2>1. ~reversed /\ body'[1] # body[2]
    BY DEF Moves
  <2>2. CASE i = 1
    BY <1>2, <1>3, <2>1, <2>2
  <2>3. CASE i > 1
    <3>1. /\ body'[i] = body[i - 1] /\ body'[i + 2] = body[i + 1]
          /\ i - 1 \in 1..(Len(body) - 2)
          /\ (i - 1) + 2 = i + 1
      BY <1>2, <1>3, <2>3
    <3> QED
      BY <2>1, <3>1 DEF IInv, Unfolded
  <2> QED
    BY <2>2, <2>3
<1> QED
  BY <1>4, <1>5, <1>6, <1>7, <1>8 DEF IInv

LEMMA StepInv == IInv /\ [Next]_vars => IInv'
<1>1. IInv /\ Next => IInv'
  BY StillInv, MovesInv DEF Next
<1>2. IInv /\ UNCHANGED vars => IInv'
  BY DEF vars, snakeVars, IInv, TypeOK, SnakeTypeOK, Connected,
         OneBendIsNoReversal, Travels, Unfolded
<1> QED
  BY <1>1, <1>2

-----------------------------------------------------------------------------
\* The inductive invariant of the cartridge.
THEOREM Invariance == Spec => []IInv
BY InitInv, StepInv, PTL DEF Spec

\* The variables keep their types: the snake never leaves the torus.
THEOREM TypeCorrect == Spec => []TypeOK
<1>1. IInv => TypeOK
  BY DEF IInv
<1> QED
  BY <1>1, Invariance, PTL

\* The snake is always in one piece.
THEOREM OnePiece == Spec => []Connected
<1>1. IInv => Connected
  BY DEF IInv
<1> QED
  BY <1>1, Invariance, PTL

\* One accepted turn between two moves never faces the snake to its neck.
THEOREM OneBend == Spec => []OneBendIsNoReversal
<1>1. IInv => OneBendIsNoReversal
  BY DEF IInv
<1> QED
  BY <1>1, Invariance, PTL

\* The snake moves at least every MovePeriod frames, whatever the width of the
\* frame counter.
THEOREM Pace == Spec => []KeepsPace
<1>1. IInv => KeepsPace
  BY WaitedCounts DEF IInv, TypeOK, SnakeTypeOK, KeepsPace
<1> QED
  BY <1>1, Invariance, PTL

\* On a torus of four cells a side or more, a snake that has never turned back
\* has eaten twice before it can bite itself.
THEOREM ShortSnake == ASSUME Grid >= 4 PROVE Spec => []ShortSnakeLives
<1>1. IInv => ShortSnakeLives
  <2> SUFFICES ASSUME IInv, ~reversed, Len(body) < 5, NEW i \in 2..Len(body)
               PROVE  body[i] # body[1]
    BY DEF ShortSnakeLives, IsDead, IInv, TypeOK, SnakeTypeOK
  <2>1. /\ body \in Seq(Cell) /\ Len(body) \in Nat /\ Len(body) >= 3
        /\ Connected /\ Unfolded
    BY DEF IInv, TypeOK, SnakeTypeOK
  <2>2. body[1] \in Cell /\ body[2] \in Cell /\ body[3] \in Cell
    BY <2>1
  <2>3. PICK h \in Heading : body[1] = Step(body[2], h)
    BY <2>1 DEF Connected
  <2>4. PICK g \in Heading : body[2] = Step(body[3], g)
    BY <2>1 DEF Connected
  <2>5. CASE i = 2
    BY <2>2, <2>3, <2>5, StepInjective
  <2>6. CASE i = 3
    BY <2>1, <2>6 DEF Unfolded
  <2>7. CASE i = 4
    <3>1. body[4] \in Cell
      BY <2>1, <2>7
    <3>2. PICK k \in Heading : body[3] = Step(body[4], k)
      BY <2>1, <2>7 DEF Connected
    <3> QED
      BY <2>3, <2>4, <2>7, <3>1, <3>2, NoTriangle
  <2> QED
    BY <2>1, <2>5, <2>6, <2>7
<1> QED
  BY <1>1, Invariance, PTL
=============================================================================
