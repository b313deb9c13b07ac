------------------------------ MODULE Control -------------------------------
(***************************************************************************)
(* components/game_app/control.c: two push buttons, polled once a frame,   *)
(* become relative turns of a shadow of the snake's heading.               *)
(*                                                                         *)
(* The module has no specification of its own: Debounce runs it alone and  *)
(* GameLoop runs it against the cartridge.  An operator named X_Something  *)
(* is a plausible mistake in X, never used by the specification: it is     *)
(* there to show that a property would notice.                             *)
(***************************************************************************)
EXTENDS Headings

CONSTANT StableFrames    \* BTN_STABLE_FRAMES

\* The counter it is compared with is a uint8_t.
ASSUME StableFramesAssumption == StableFrames \in 0..255

VARIABLES
  btn,      \* button -> s_last, s_cnt and s_fired
  shadow    \* <<s_dx, s_dy>>: the heading the firmware believes in

controlVars == <<btn, shadow>>

Buttons == {0, 1}        \* GPIO7 turns left, GPIO8 turns right
Levels  == {0, 1}        \* the pin is pulled up: 0 is pressed

ButtonState == [last : Levels, cnt : 0..StableFrames, fired : BOOLEAN]

ControlTypeOK ==
  /\ btn \in [Buttons -> ButtonState]
  /\ shadow \in Heading

\* The statics as the loader leaves them.
Untouched == [b \in Buttons |-> [last |-> 1, cnt |-> 0, fired |-> FALSE]]

ControlInit    == btn = Untouched /\ shadow = Right
ControlRestart == btn' = Untouched /\ shadow' = Right

-----------------------------------------------------------------------------
\* Mistake: the counter runs one past its limit.
Sampled_OnePast(b, lvl) ==
  IF lvl = btn[b].last
    THEN [btn[b] EXCEPT !.cnt = IF @ <= StableFrames THEN @ + 1 ELSE @]
    ELSE [last |-> lvl, cnt |-> 0, fired |-> FALSE]

\* Mistake: a change of level does not restart the count.
Sampled_NoRestart(b, lvl) ==
  IF lvl = btn[b].last
    THEN [btn[b] EXCEPT !.cnt = IF @ < StableFrames THEN @ + 1 ELSE @]
    ELSE [btn[b] EXCEPT !.last = lvl, !.fired = FALSE]

\* Mistake: a change of level does not re-arm the button.
Sampled_NoRearm(b, lvl) ==
  IF lvl = btn[b].last
    THEN [btn[b] EXCEPT !.cnt = IF @ < StableFrames THEN @ + 1 ELSE @]
    ELSE [btn[b] EXCEPT !.last = lvl, !.cnt = 0]

\* Button b once its level has been counted, before it may fire: a change of
\* level re-arms it.
Sampled(b, lvl) ==
  IF lvl = btn[b].last
    THEN [btn[b] EXCEPT !.cnt = IF @ < StableFrames THEN @ + 1 ELSE @]
    ELSE [last |-> lvl, cnt |-> 0, fired |-> FALSE]

\* Mistake: one frame too many is asked for.
PressedOnce_Strict(b, lvl) ==
  /\ lvl = 0
  /\ Sampled(b, lvl).cnt > StableFrames
  /\ ~Sampled(b, lvl).fired

\* The answer of pressed_once().
PressedOnce(b, lvl) ==
  /\ lvl = 0
  /\ Sampled(b, lvl).cnt >= StableFrames
  /\ ~Sampled(b, lvl).fired

\* Mistake: the button does not remember that it fired.
AfterSample_NoLatch(b, lvl) == Sampled(b, lvl)

\* What pressed_once() leaves of button b.
AfterSample(b, lvl) ==
  [Sampled(b, lvl) EXCEPT !.fired = @ \/ PressedOnce(b, lvl)]

\* Mistake: both buttons are sampled, and the press of the right one is lost.
TurnLeft_SamplesBoth(lvl, pad) ==
  /\ PressedOnce(0, lvl[0])
  /\ btn' = [b \in Buttons |-> AfterSample(b, lvl[b])]
  /\ shadow' = CounterClockwise(shadow)
  /\ pad = {ButtonOf(shadow')}

\* Mistake: the bit is taken before the shadow is turned.
TurnLeft_OldHeading(lvl, pad) ==
  /\ PressedOnce(0, lvl[0])
  /\ btn' = [btn EXCEPT ![0] = AfterSample(0, lvl[0])]
  /\ shadow' = CounterClockwise(shadow)
  /\ pad = {ButtonOf(shadow)}

\* The left button fired: the right one is not even sampled in this frame.
TurnLeft(lvl, pad) ==
  /\ PressedOnce(0, lvl[0])
  /\ btn' = [btn EXCEPT ![0] = AfterSample(0, lvl[0])]
  /\ shadow' = CounterClockwise(shadow)
  /\ pad = {ButtonOf(shadow')}

TurnRight(lvl, pad) ==
  /\ ~PressedOnce(0, lvl[0])
  /\ PressedOnce(1, lvl[1])
  /\ btn' = [b \in Buttons |-> AfterSample(b, lvl[b])]
  /\ shadow' = Clockwise(shadow)
  /\ pad = {ButtonOf(shadow')}

NoTurn(lvl, pad) ==
  /\ \A b \in Buttons : ~PressedOnce(b, lvl[b])
  /\ btn' = [b \in Buttons |-> AfterSample(b, lvl[b])]
  /\ UNCHANGED shadow
  /\ pad = {}

\* get_player_state(0) with the pins at levels lvl answers pad: the bit of the
\* new heading in the one frame in which a press is recognised, else nothing.
GetPlayerState(lvl, pad) ==
  TurnLeft(lvl, pad) \/ TurnRight(lvl, pad) \/ NoTurn(lvl, pad)

PinLevels == [Buttons -> Levels]
Pulses    == {{}} \cup {{d} : d \in Direction}
=============================================================================
