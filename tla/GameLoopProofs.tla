--------------------------- MODULE GameLoopProofs ---------------------------
(***************************************************************************)
(* The firmware's shadow and the game's direction: they never disagree     *)
(* when no frame is lost, and agree again after two turns when one was.    *)
(* With or without lost frames the loop implements Steering.               *)
(***************************************************************************)
EXTENDS GameLoop, PlayLemmas

\* Both headings lie on the same axis: equal or opposite.
SameAxis(h, g) == (h.x = 0) <=> (g.x = 0)

\* The byte the game saw last is the pulse of the last turn, or nothing.
LastPulse == prev_gamepad \in {{}, {ButtonOf(shadow)}}

IInv ==
  /\ TypeOK
  /\ FiredIsLow
  /\ LastPulse
  /\ ~env2 => prev_gamepad = {} /\ caught # 1
  /\ caught = 1 => SameAxis(shadow, direction)
  /\ caught = 2 => ShadowInSync

-----------------------------------------------------------------------------
\* The game takes a pulse when the turn starts on the axis it is on itself,
\* and refuses it otherwise; a frame without a pulse turns nothing.
LEMMA PulseSteers ==
  ASSUME direction \in Heading, shadow \in Heading, LastPulse,
         NEW t \in {Clockwise(shadow), CounterClockwise(shadow)}
  PROVE  /\ Steered({}) = direction
         /\ Steered({ButtonOf(t)}) =
              IF SameAxis(shadow, direction) THEN t ELSE direction
         /\ ~SameAxis(shadow, direction) => SameAxis(t, direction)
<1> DEFINE pad == {ButtonOf(t)}
<1>1. t \in Heading /\ t # shadow
  BY QuarterTurns
<1>2. ButtonOf(t) \in Direction /\ HeadingOf(ButtonOf(t)) = t
      /\ HeadingOf(ButtonOf(shadow)) = shadow
  BY <1>1, ButtonsAreHeadings
<1>3. pad # prev_gamepad
  BY <1>1, <1>2 DEF LastPulse
<1>4. Steered({}) = direction
  BY DEF Steered, AfterUp, AfterRight, AfterLeft, AfterDown, Press
<1>5. AfterUp(pad) = IF Accepts(direction, ButtonOf(t)) THEN t ELSE direction
  BY <1>2 DEF AfterUp, AfterRight, AfterLeft, AfterDown, Press, Direction
<1>6. Accepts(direction, ButtonOf(t)) <=> SameAxis(shadow, direction)
  BY <1>1 DEF Accepts, SameAxis, ButtonOf, Heading, Right, Left, Up, Down,
              Clockwise, CounterClockwise
<1>7. ~SameAxis(shadow, direction) => SameAxis(t, direction)
  BY <1>1 DEF SameAxis, Heading, Right, Left, Up, Down,
              Clockwise, CounterClockwise
<1> QED
  BY <1>3, <1>4, <1>5, <1>6, <1>7 DEF Steered

\* What a poll does to the shadow and to the byte, whichever button it was.
LEMMA PollCases ==
  ASSUME ControlTypeOK, NEW lvl \in PinLevels, NEW pad, GetPlayerState(lvl, pad)
  PROVE  \/ pad = {} /\ shadow' = shadow
         \/ /\ pad = {ButtonOf(shadow')}
            /\ shadow' \in {Clockwise(shadow), CounterClockwise(shadow)}
            /\ pad # {}
BY DEF GetPlayerState, TurnLeft, TurnRight, NoTurn

\* Equal headings share their axis.
LEMMA SyncSharesAxis == ASSUME NEW h PROVE SameAxis(h, h)
BY DEF SameAxis

-----------------------------------------------------------------------------
LEMMA InitInv == Init => IInv
<1> SUFFICES ASSUME Init PROVE IInv
  OBVIOUS
<1>1. env2 \in BOOLEAN
  BY DEF Init
<1>2. TypeOK
  BY <1>1, ControlInitType, SnakeInitType DEF Init, TypeOK
<1>3. prev_gamepad = {} /\ caught = 2
  BY DEF Init, SnakeInit
<1>4. FiredIsLow
  BY DEF Init, ControlInit, Untouched, FiredIsLow
<1>5. ShadowInSync
  BY DEF Init, ControlInit, SnakeInit, ShadowInSync
<1> QED
  BY <1>2, <1>3, <1>4, <1>5 DEF IInv, LastPulse

LEMMA FaultInv == ASSUME Fault PROVE IInv'
<1>1. ControlTypeOK'
  BY StableFramesAssumption
     DEF Fault, ControlRestart, ControlTypeOK, Untouched, ButtonState, Levels, Heading
<1>2. SnakeTypeOK'
  BY SnakeRestartType DEF Fault
<1>3. env2' \in BOOLEAN
  BY DEF Fault
<1>4. caught' = 2 /\ prev_gamepad' = {}
  BY DEF Fault, SnakeRestart
<1>5. FiredIsLow'
  BY DEF Fault, ControlRestart, Untouched, FiredIsLow
<1>6. ShadowInSync'
  BY DEF Fault, ControlRestart, SnakeRestart, ShadowInSync
<1> QED
  BY <1>1, <1>2, <1>3, <1>4, <1>5, <1>6 DEF IInv, TypeOK, LastPulse

LEMMA FrameInv ==
  ASSUME IInv, NEW lvl \in PinLevels, Frame(lvl)
  PROVE  IInv'
<1>1. PICK pad \in Pulses : GetPlayerState(lvl, pad) /\ Play(pad)
  BY DEF Frame
<1>2. ControlTypeOK /\ SnakeTypeOK /\ caught \in 0..2 /\ LastPulse
  BY DEF IInv, TypeOK
<1>3. shadow \in Heading /\ direction \in Heading /\ pad \in Gamepad
  BY <1>2 DEF ControlTypeOK, SnakeTypeOK, Pulses, Gamepad
<1>4. ControlTypeOK'
  BY <1>1, <1>2, PollType
<1>5. SnakeTypeOK'
  BY <1>1, <1>2, <1>3, UpdateType DEF Play
<1>6. prev_gamepad' = pad /\ direction' = Steered(pad)
  BY <1>1 DEF Play, CartUpdate, Wait, Slide, Eat, Begin
<1>7. env2' = TRUE /\ caught' = IF pad = {} \/ caught = 2 THEN caught ELSE caught + 1
  BY <1>1 DEF Play
<1>8. TypeOK'
  <2>1. caught' \in 0..2
    BY <1>2, <1>7
  <2>2. env2' \in BOOLEAN
    BY <1>7
  <2> QED
    BY <1>4, <1>5, <2>1, <2>2 DEF TypeOK
<1>9. FiredIsLow'
  BY <1>1, PollFired DEF IInv, TypeOK
<1>10. CASE pad = {} /\ shadow' = shadow
  <2>1. direction' = direction /\ caught' = caught
    BY <1>2, <1>3, <1>6, <1>7, <1>10, PulseSteers
  <2> QED
    BY <1>6, <1>7, <1>8, <1>10, <1>9, <2>1 DEF IInv, LastPulse, ShadowInSync
<1>11. CASE /\ pad = {ButtonOf(shadow')}
            /\ shadow' \in {Clockwise(shadow), CounterClockwise(shadow)}
            /\ pad # {}
  <2>1. LastPulse'
    BY <1>6, <1>11 DEF LastPulse
  <2>2. /\ direction' = IF SameAxis(shadow, direction) THEN shadow' ELSE direction
        /\ ~SameAxis(shadow, direction) => SameAxis(shadow', direction)
    BY <1>2, <1>3, <1>6, <1>11, PulseSteers
  <2>3. caught' = 1 => SameAxis(shadow', direction')
    BY <2>2, SyncSharesAxis
  <2>4. caught' = 2 => SameAxis(shadow, direction)
    BY <1>2, <1>7, <1>11, SyncSharesAxis DEF IInv, ShadowInSync
  <2> QED
    BY <1>7, <1>8, <1>9, <2>1, <2>2, <2>3, <2>4 DEF IInv, ShadowInSync
<1> QED
  BY <1>1, <1>2, <1>10, <1>11, PollCases

LEMMA LostFrameInv ==
  ASSUME IInv, NEW lvl \in PinLevels, LostFrame(lvl)
  PROVE  IInv'
<1>1. PICK pad \in Pulses :
        /\ GetPlayerState(lvl, pad)
        /\ caught' = IF pad = {} THEN caught ELSE 0
  BY DEF LostFrame
<1>2. ControlTypeOK'
  BY <1>1, PollType DEF IInv, TypeOK
<1>3. caught' \in 0..2 /\ caught' # 1
  BY <1>1 DEF IInv, TypeOK, LostFrame
<1>4. TypeOK'
  BY <1>2, <1>3 DEF IInv, TypeOK, SnakeTypeOK, LostFrame, snakeVars
<1>5. prev_gamepad' = {} /\ direction' = direction
  BY DEF IInv, LostFrame, snakeVars
<1>6. FiredIsLow'
  BY <1>1, PollFired DEF IInv, TypeOK
<1>7. ASSUME caught' = 2 PROVE ShadowInSync'
  <2>1. pad = {} /\ caught = 2
    BY <1>1, <1>7
  <2>2. shadow' = shadow
    BY <1>1, <2>1, PollCases DEF IInv, TypeOK
  <2> QED
    BY <1>5, <2>1, <2>2 DEF IInv, ShadowInSync
<1> QED
  BY <1>3, <1>4, <1>5, <1>6, <1>7 DEF IInv, LastPulse

LEMMA StepInv == IInv /\ [Next]_vars => IInv'
<1>1. IInv /\ Next => IInv'
  BY FrameInv, LostFrameInv, FaultInv DEF Next
<1>2. IInv /\ UNCHANGED vars => IInv'
  BY DEF vars, controlVars, snakeVars, IInv, TypeOK, ControlTypeOK, SnakeTypeOK,
         FiredIsLow, LastPulse, ShadowInSync
<1> QED
  BY <1>1, <1>2

-----------------------------------------------------------------------------
\* The inductive invariant of the game loop, lost frames included.
THEOREM Invariance == Spec => []IInv
BY InitInv, StepInv, PTL DEF Spec

\* The variables of both sides keep their types.
THEOREM TypeCorrect == Spec => []TypeOK
<1>1. IInv => TypeOK
  BY DEF IInv
<1> QED
  BY <1>1, Invariance, PTL

\* Whatever frames are lost at the start of a game, the second turn that
\* reaches the game puts it in step with the buttons.
THEOREM Resyncs == Spec => []ResyncsInTwoTurns
<1>1. IInv => ResyncsInTwoTurns
  BY DEF IInv, ResyncsInTwoTurns
<1> QED
  BY <1>1, Invariance, PTL

-----------------------------------------------------------------------------
\* Without lost frames no turn is lost.
LEMMA NoneLost == ~EnvMayFail /\ IInv /\ caught = 2 /\ [Next]_vars => caught' = 2
BY DEF Next, LostFrame, Frame, Play, Fault, vars

\* The claim at the head of control.c holds of a loop that loses no frame.
THEOREM Sync == ASSUME ~EnvMayFail PROVE Spec => []ShadowInSync
<1>1. Init => caught = 2
  BY DEF Init
<1>2. ~EnvMayFail /\ IInv /\ caught = 2 /\ [Next]_vars => (caught = 2)'
  BY NoneLost
<1>3. IInv /\ caught = 2 => ShadowInSync
  BY DEF IInv
<1> QED
  BY <1>1, <1>2, <1>3, Invariance, PTL DEF Spec

-----------------------------------------------------------------------------
\* A button that was sampled and did not fire is armed if it was armed before.
LEMMA StaysArmed ==
  ASSUME ControlTypeOK, NEW b \in Buttons, NEW lvl \in Levels,
         ~PressedOnce(b, lvl), ~btn[b].fired
  PROVE  ~AfterSample(b, lvl).fired
BY SampleFields

\* What a poll does to the two `fired' flags, in the terms of Steering.
LEMMA PollArms ==
  ASSUME ControlTypeOK, FiredIsLow,
         NEW lvl \in PinLevels, NEW pad, GetPlayerState(lvl, pad)
  PROVE  \/ /\ shadow' = CounterClockwise(shadow)
            /\ pad = {ButtonOf(shadow')}
            /\ ~btn[0].fired /\ btn'[0].fired
            /\ ~btn[1].fired => ~btn'[1].fired
         \/ /\ shadow' = Clockwise(shadow)
            /\ pad = {ButtonOf(shadow')}
            /\ ~btn[1].fired /\ btn'[1].fired
            /\ ~btn[0].fired => ~btn'[0].fired
         \/ /\ shadow' = shadow
            /\ pad = {}
            /\ ~btn[0].fired => ~btn'[0].fired
            /\ ~btn[1].fired => ~btn'[1].fired
<1>1. 0 \in Buttons /\ 1 \in Buttons /\ lvl[0] \in Levels /\ lvl[1] \in Levels
  BY DEF Buttons, PinLevels
<1>2. \A b \in Buttons : PressedOnce(b, lvl[b]) => ~btn[b].fired /\ AfterSample(b, lvl[b]).fired
  <2> SUFFICES ASSUME NEW b \in Buttons, PressedOnce(b, lvl[b])
               PROVE  ~btn[b].fired /\ AfterSample(b, lvl[b]).fired
    OBVIOUS
  <2>1. lvl[b] \in Levels /\ btn[b] \in ButtonState
    BY DEF PinLevels, ControlTypeOK
  <2>2. AfterSample(b, lvl[b]).fired /\ ~(lvl[b] = btn[b].last /\ btn[b].fired)
    BY <2>1, SampleFields
  <2>3. btn[b].fired => lvl[b] = btn[b].last
    BY DEF FiredIsLow, PressedOnce
  <2> QED
    BY <2>2, <2>3
<1>3. CASE TurnLeft(lvl, pad)
  <2>1. btn'[0] = AfterSample(0, lvl[0]) /\ btn'[1] = btn[1]
    BY <1>1, <1>3 DEF TurnLeft, ControlTypeOK
  <2> QED
    BY <1>1, <1>2, <1>3, <2>1 DEF TurnLeft
<1>4. CASE TurnRight(lvl, pad)
  <2>1. btn'[0] = AfterSample(0, lvl[0]) /\ btn'[1] = AfterSample(1, lvl[1])
    BY <1>1, <1>4 DEF TurnRight
  <2> QED
    BY <1>1, <1>2, <1>4, <2>1, StaysArmed DEF TurnRight
<1>5. CASE NoTurn(lvl, pad)
  <2>1. btn'[0] = AfterSample(0, lvl[0]) /\ btn'[1] = AfterSample(1, lvl[1])
    BY <1>1, <1>5 DEF NoTurn
  <2> QED
    BY <1>1, <1>5, <2>1, StaysArmed DEF NoTurn
<1> QED
  BY <1>3, <1>4, <1>5 DEF GetPlayerState

\* The buttons of Steering in the state and in the next one.
Armed == [side \in {"left", "right"} |-> ~btn[ButtonAt(side)].fired]

\* One poll, in the terms of Steering: it fires one button, or none.
LEMMA PollFires ==
  ASSUME ControlTypeOK, FiredIsLow,
         NEW lvl \in PinLevels, NEW pad, GetPlayerState(lvl, pad)
  PROVE  \/ \E side \in {"left", "right"} :
              /\ Steers!Fires(side)
              /\ shadow' = Steers!QuarterTurn(side, shadow)
              /\ pad = {ButtonOf(shadow')} /\ pad # {}
         \/ /\ shadow' = shadow /\ pad = {}
            /\ \E released \in SUBSET {"left", "right"} :
                 Armed' = [s \in {"left", "right"} |-> Armed[s] \/ s \in released]
<1>1. /\ Armed["left"] <=> ~btn[0].fired
      /\ Armed["right"] <=> ~btn[1].fired
  BY DEF Armed, ButtonAt
<1>2. CASE /\ shadow' = CounterClockwise(shadow)
           /\ pad = {ButtonOf(shadow')}
           /\ ~btn[0].fired /\ btn'[0].fired
           /\ ~btn[1].fired => ~btn'[1].fired
  <2>1. \E released \in SUBSET ({"left", "right"} \ {"left"}) :
          Armed' = [s \in {"left", "right"} |->
                      s # "left" /\ (Armed[s] \/ s \in released)]
    <3> DEFINE R == IF btn[1].fired /\ ~btn'[1].fired THEN {"right"} ELSE {}
    <3> WITNESS R \in SUBSET ({"left", "right"} \ {"left"})
    <3> SUFFICES ASSUME NEW s \in {"left", "right"}
                 PROVE  ~btn'[ButtonAt(s)].fired
                          <=> s # "left" /\ (Armed[s] \/ s \in R)
      BY DEF Armed
    <3> QED
      BY <1>1, <1>2 DEF ButtonAt
  <2>2. Steers!Fires("left")
    BY <1>1, <1>2, <2>1 DEF Steers!Fires, Steers!Sides, Armed
  <2>3. shadow' = Steers!QuarterTurn("left", shadow)
    BY <1>2 DEF Steers!QuarterTurn, Steers!CounterClockwise, CounterClockwise
  <2> QED
    BY <1>2, <2>2, <2>3
<1>3. CASE /\ shadow' = Clockwise(shadow)
           /\ pad = {ButtonOf(shadow')}
           /\ ~btn[1].fired /\ btn'[1].fired
           /\ ~btn[0].fired => ~btn'[0].fired
  <2>1. \E released \in SUBSET ({"left", "right"} \ {"right"}) :
          Armed' = [s \in {"left", "right"} |->
                      s # "right" /\ (Armed[s] \/ s \in released)]
    <3> DEFINE R == IF btn[0].fired /\ ~btn'[0].fired THEN {"left"} ELSE {}
    <3> WITNESS R \in SUBSET ({"left", "right"} \ {"right"})
    <3> SUFFICES ASSUME NEW s \in {"left", "right"}
                 PROVE  ~btn'[ButtonAt(s)].fired
                          <=> s # "right" /\ (Armed[s] \/ s \in R)
      BY DEF Armed
    <3> QED
      BY <1>1, <1>3 DEF ButtonAt
  <2>2. Steers!Fires("right")
    BY <1>1, <1>3, <2>1 DEF Steers!Fires, Steers!Sides, Armed
  <2>3. shadow' = Steers!QuarterTurn("right", shadow)
    BY <1>3 DEF Steers!QuarterTurn, Steers!Clockwise, Clockwise
  <2> QED
    BY <1>3, <2>2, <2>3
<1>4. CASE /\ shadow' = shadow
           /\ pad = {}
           /\ ~btn[0].fired => ~btn'[0].fired
           /\ ~btn[1].fired => ~btn'[1].fired
  <2>1. \E released \in SUBSET {"left", "right"} :
          Armed' = [s \in {"left", "right"} |-> Armed[s] \/ s \in released]
    <3> DEFINE R == {s \in {"left", "right"} :
                       btn[ButtonAt(s)].fired /\ ~btn'[ButtonAt(s)].fired}
    <3> WITNESS R \in SUBSET {"left", "right"}
    <3> SUFFICES ASSUME NEW s \in {"left", "right"}
                 PROVE  ~btn'[ButtonAt(s)].fired <=> Armed[s] \/ s \in R
      BY DEF Armed
    <3> QED
      BY <1>1, <1>4 DEF ButtonAt
  <2> QED
    BY <1>4, <2>1
<1> QED
  BY <1>2, <1>3, <1>4, PollArms

\* A frame without a pulse releases buttons at most.
LEMMA QuietFrameSteers ==
  ASSUME UNCHANGED <<direction, caught>>,
         \E released \in SUBSET {"left", "right"} :
           Armed' = [s \in {"left", "right"} |-> Armed[s] \/ s \in released]
  PROVE  Steers!Next
BY DEF Steers!Next, Steers!Release, Steers!Sides, Armed

\* The quarter turns of Steering are those of control.c, and change the axis.
LEMMA TurnsOfSteering ==
  ASSUME NEW h \in Heading, NEW side \in {"left", "right"}
  PROVE  /\ Steers!QuarterTurn(side, h) \in {Clockwise(h), CounterClockwise(h)}
         /\ \A g \in Heading : SameAxis(h, g) => Steers!QuarterTurn(side, h) \in Steers!Turns(g)
BY DEF Steers!QuarterTurn, Steers!Turns, Steers!Sides, Steers!Clockwise,
       Steers!CounterClockwise, Clockwise, CounterClockwise, Heading, Right, Left,
       Up, Down, SameAxis

\* One frame that reaches the game is one step of Steering.
LEMMA FrameSteers ==
  ASSUME IInv, NEW lvl \in PinLevels, Frame(lvl)
  PROVE  Steers!Next
<1>1. PICK pad \in Pulses : GetPlayerState(lvl, pad) /\ Play(pad)
  BY DEF Frame
<1>2. /\ ControlTypeOK /\ LastPulse /\ FiredIsLow
      /\ shadow \in Heading /\ direction \in Heading /\ caught \in {0, 1, 2}
  BY DEF IInv, TypeOK, ControlTypeOK, SnakeTypeOK
<1>3. direction' = Steered(pad)
  BY <1>1 DEF Play, CartUpdate, Wait, Slide, Eat, Begin
<1>4. caught' = IF pad = {} \/ caught = 2 THEN caught ELSE caught + 1
  BY <1>1 DEF Play
<1>5. ASSUME NEW side \in {"left", "right"},
             Steers!Fires(side),
             shadow' = Steers!QuarterTurn(side, shadow),
             pad = {ButtonOf(shadow')}, pad # {}
      PROVE  Steers!Next
  <2>1. shadow' \in {Clockwise(shadow), CounterClockwise(shadow)}
    BY <1>2, <1>5, TurnsOfSteering
  <2>2. direction' = IF SameAxis(shadow, direction) THEN shadow' ELSE direction
    BY <1>2, <1>3, <1>5, <2>1, PulseSteers
  <2>3. SameAxis(shadow, direction) => shadow' \in Steers!Turns(direction)
    BY <1>2, <1>5, TurnsOfSteering
  <2>4. CASE caught = 2
    <3>1. direction' = Steers!QuarterTurn(side, direction)
      BY <1>5, <2>2, <2>4, SyncSharesAxis DEF IInv, ShadowInSync
    <3> QED
      BY <1>4, <1>5, <2>4, <3>1 DEF Steers!Next, Steers!Press, Steers!Sides
  <2>5. CASE caught = 1
    <3>1. direction' \in Steers!Turns(direction)
      BY <2>2, <2>3, <2>5 DEF IInv
    <3>2. caught' = 2
      BY <1>4, <1>5, <2>5
    <3> QED
      BY <1>5, <2>5, <3>1, <3>2 DEF Steers!Next, Steers!SecondAfterLoss, Steers!Sides
  <2>6. CASE caught = 0
    <3>1. direction' \in Steers!Turns(direction) \cup {direction}
      BY <2>2, <2>3
    <3>2. caught' = 1
      BY <1>4, <1>5, <2>6
    <3> QED
      BY <1>5, <2>6, <3>1, <3>2 DEF Steers!Next, Steers!FirstAfterLoss, Steers!Sides
  <2> QED
    BY <1>2, <2>4, <2>5, <2>6
<1>6. ASSUME pad = {},
             \E released \in SUBSET {"left", "right"} :
               Armed' = [s \in {"left", "right"} |-> Armed[s] \/ s \in released]
      PROVE  Steers!Next
  <2>1. direction' = direction
    BY <1>2, <1>3, <1>6, PulseSteers, QuarterTurns
  <2>2. caught' = caught
    BY <1>4, <1>6
  <2> QED
    BY <1>6, <2>1, <2>2, QuietFrameSteers
<1> QED
  BY <1>1, <1>2, <1>5, <1>6, PollFires

\* So is one that does not.
LEMMA LostFrameSteers ==
  ASSUME IInv, NEW lvl \in PinLevels, LostFrame(lvl)
  PROVE  Steers!Next
<1>1. PICK pad \in Pulses :
        /\ GetPlayerState(lvl, pad)
        /\ caught' = IF pad = {} THEN caught ELSE 0
  BY DEF LostFrame
<1>2. direction' = direction
  BY DEF LostFrame, snakeVars
<1>3. ControlTypeOK /\ FiredIsLow
  BY DEF IInv, TypeOK
<1>4. ASSUME NEW side \in {"left", "right"}, Steers!Fires(side), pad # {}
      PROVE  Steers!Next
  BY <1>1, <1>2, <1>4 DEF Steers!Next, Steers!Lost, Steers!Sides
<1>5. ASSUME pad = {},
             \E released \in SUBSET {"left", "right"} :
               Armed' = [s \in {"left", "right"} |-> Armed[s] \/ s \in released]
      PROVE  Steers!Next
  BY <1>1, <1>2, <1>5, QuietFrameSteers
<1> QED
  BY <1>1, <1>3, <1>4, <1>5, PollFires

LEMMA FaultSteers == Fault => Steers!Next
<1> SUFFICES ASSUME Fault PROVE Steers!Restart
  BY DEF Steers!Next
<1>1. direction' = Steers!Right
  BY DEF Fault, SnakeRestart, Right, Steers!Right
<1>2. \A side \in {"left", "right"} : ~btn'[ButtonAt(side)].fired
  BY DEF Fault, ControlRestart, Untouched, Buttons, ButtonAt
<1>3. caught' = 2
  BY DEF Fault
<1> QED
  BY <1>1, <1>2, <1>3 DEF Steers!Restart, Steers!Sides

LEMMA InitSteers == Init => Steers!Init
<1> SUFFICES ASSUME Init PROVE Steers!Init
  OBVIOUS
<1>1. direction = Steers!Right
  BY DEF Init, SnakeInit, Right, Steers!Right
<1>2. \A side \in {"left", "right"} : ~btn[ButtonAt(side)].fired
  BY DEF Init, ControlInit, Untouched, Buttons, ButtonAt
<1>3. caught = 2
  BY DEF Init
<1> QED
  BY <1>1, <1>2, <1>3 DEF Steers!Init, Steers!Sides

\* The loop implements Steering, lost frames included: every press of an armed
\* button turns the snake once, to its side, but for a press that is lost and
\* the two that follow it, and nothing else turns it.
THEOREM Refinement == Spec => ImplementsSteering
<1>1. IInv /\ [Next]_vars => [Steers!Next]_(Steers!steeringVars)
  <2> SUFFICES ASSUME IInv, [Next]_vars
               PROVE  Steers!Next \/ UNCHANGED Steers!steeringVars
    OBVIOUS
  <2>1. UNCHANGED vars => UNCHANGED Steers!steeringVars
    BY DEF vars, controlVars, snakeVars, Steers!steeringVars, ButtonAt
  <2> QED
    BY <2>1, FrameSteers, LostFrameSteers, FaultSteers DEF Next
<1> QED
  BY <1>1, InitSteers, Invariance, PTL
     DEF Spec, ImplementsSteering, Steers!Spec
=============================================================================
