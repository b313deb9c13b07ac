--------------------------- MODULE DebounceProofs ---------------------------
(***************************************************************************)
(* The safety of the debouncer, for every BTN_STABLE_FRAMES.               *)
(***************************************************************************)
EXTENDS Debounce, PlayLemmas

\* What the three statics of a button mean: s_last and s_cnt measure the
\* present run of low samples, and s_fired remembers that it has been answered.
ButtonInv(b) ==
  /\ btn[b].fired <=> answered[b]
  /\ btn[b].last = 1 => low[b] = 0 /\ ~answered[b]
  /\ btn[b].last = 0 =>
       /\ low[b] > 0
       /\ low[b] <= StableFrames => btn[b].cnt = low[b] - 1
       /\ low[b] > StableFrames => btn[b].cnt = StableFrames /\ answered[b]

IInv == TypeOK /\ \A b \in Buttons : ButtonInv(b)

-----------------------------------------------------------------------------
\* In one poll, a button turns the shadow exactly when pressed_once() says so
\* for it and it was sampled.
LEMMA WhoFires ==
  ASSUME ControlTypeOK, NEW lvl \in PinLevels, NEW pad, GetPlayerState(lvl, pad)
  PROVE  /\ Fires(0) <=> PressedOnce(0, lvl[0])
         /\ Fires(1) <=> ~Fires(0) /\ PressedOnce(1, lvl[1])
         /\ \A b \in Buttons :
              btn'[b] = IF Skipped(b) THEN btn[b] ELSE AfterSample(b, lvl[b])
<1>1. shadow \in Heading /\ 0 \in Buttons /\ 1 \in Buttons
  BY DEF ControlTypeOK, Buttons
<1>2. CASE TurnLeft(lvl, pad)
  BY <1>1, <1>2, QuarterTurns
     DEF TurnLeft, Fires, Skipped, Buttons, ControlTypeOK
<1>3. CASE TurnRight(lvl, pad)
  BY <1>1, <1>3, QuarterTurns DEF TurnRight, Fires, Skipped, Buttons
<1>4. CASE NoTurn(lvl, pad)
  BY <1>1, <1>4, QuarterTurns DEF NoTurn, Fires, Skipped, Buttons
<1> QED
  BY <1>2, <1>3, <1>4 DEF GetPlayerState

\* A sampled button fires exactly when its pressed_once() does.
LEMMA SampledFires ==
  ASSUME ControlTypeOK, NEW lvl \in PinLevels, NEW pad, GetPlayerState(lvl, pad),
         NEW b \in Buttons, ~Skipped(b)
  PROVE  Fires(b) <=> PressedOnce(b, lvl[b])
<1>1. CASE b = 0
  BY <1>1, WhoFires
<1>2. CASE b = 1
  BY <1>2, WhoFires DEF Skipped
<1> QED
  BY <1>1, <1>2 DEF Buttons

\* A skipped button does not fire.
LEMMA SkippedIsSilent ==
  ASSUME ControlTypeOK, NEW lvl \in PinLevels, NEW pad, GetPlayerState(lvl, pad),
         NEW b \in Buttons, Skipped(b)
  PROVE  ~Fires(b)
BY WhoFires DEF Skipped

-----------------------------------------------------------------------------
LEMMA InitInv == Init => IInv
<1> SUFFICES ASSUME Init PROVE IInv
  OBVIOUS
<1>1. TypeOK
  BY ControlInitType, StableFramesAssumption DEF Init, TypeOK, LowCap
<1>2. ASSUME NEW b \in Buttons PROVE ButtonInv(b)
  BY DEF Init, ControlInit, Untouched, ButtonInv
<1> QED
  BY <1>1, <1>2 DEF IInv

LEMMA StepTypes == IInv /\ [Next]_vars => TypeOK'
<1> SUFFICES ASSUME TypeOK, [Next]_vars PROVE TypeOK'
  BY DEF IInv
<1>1. CASE UNCHANGED vars
  BY <1>1 DEF vars, TypeOK, ControlTypeOK
<1>2. ASSUME NEW lvl \in PinLevels, Poll(lvl) PROVE TypeOK'
  <2>1. ControlTypeOK'
    BY <1>2, PollType DEF Poll, TypeOK
  <2>2. low' \in [Buttons -> 0..LowCap]
    BY <1>2, StableFramesAssumption DEF Poll, TypeOK, LowAfter, LowCap
  <2>3. answered' \in [Buttons -> BOOLEAN]
    BY <1>2 DEF Poll, TypeOK, AnsweredAfter, Fires
  <2> QED
    BY <2>1, <2>2, <2>3 DEF TypeOK
<1> QED
  BY <1>1, <1>2 DEF Next

LEMMA StepButton ==
  ASSUME IInv, NEW lvl \in PinLevels, Poll(lvl), NEW b \in Buttons
  PROVE  ButtonInv(b)'
<1>1. PICK pad \in Pulses : GetPlayerState(lvl, pad)
  BY DEF Poll
<1>2. /\ ControlTypeOK
      /\ btn[b] \in ButtonState
      /\ low[b] \in 0..LowCap
      /\ answered[b] \in BOOLEAN
      /\ lvl[b] \in Levels
      /\ ButtonInv(b)
  BY DEF IInv, TypeOK, ControlTypeOK, PinLevels
<1>3. /\ low'[b] = LowAfter(b, lvl)
      /\ answered'[b] <=> AnsweredAfter(b, lvl)
  BY DEF Poll
<1>4. CASE Skipped(b)
  <2>1. btn'[b] = btn[b]
    BY <1>1, <1>2, <1>4, WhoFires
  <2> QED
    BY <1>2, <1>3, <1>4, <2>1 DEF LowAfter, AnsweredAfter, ButtonInv
<1>5. CASE ~Skipped(b)
  <2>1. btn'[b] = AfterSample(b, lvl[b])
    BY <1>1, <1>2, <1>5, WhoFires
  <2>2. Fires(b) <=> PressedOnce(b, lvl[b])
    BY <1>1, <1>2, <1>5, SampledFires
  <2>3. CASE lvl[b] = 1
    <3>1. btn'[b].last = 1 /\ ~btn'[b].fired
      <4>1. btn[b].last = 1 => ~btn[b].fired
        BY <1>2 DEF ButtonInv
      <4>2. ~PressedOnce(b, lvl[b])
        BY <2>3 DEF PressedOnce
      <4> QED
        BY <1>2, <2>1, <2>3, <4>1, <4>2, SampleFields
    <3>2. low'[b] = 0 /\ ~answered'[b]
      BY <1>3, <1>5, <2>3 DEF LowAfter, AnsweredAfter
    <3> QED
      BY <3>1, <3>2 DEF ButtonInv
  <2>4. CASE lvl[b] = 0
    <3>1. /\ btn'[b].last = 0
          /\ btn'[b].cnt = IF btn[b].last # 0 THEN 0
                           ELSE IF btn[b].cnt < StableFrames THEN btn[b].cnt + 1
                           ELSE btn[b].cnt
          /\ btn'[b].fired <=> Fires(b) \/ (btn[b].last = 0 /\ btn[b].fired)
          /\ Fires(b) <=> /\ btn'[b].cnt >= StableFrames
                          /\ ~(btn[b].last = 0 /\ btn[b].fired)
      BY <1>2, <2>1, <2>2, <2>4, SampleFields
    <3>2. /\ low'[b] = IF low[b] < LowCap THEN low[b] + 1 ELSE low[b]
          /\ answered'[b] <=> answered[b] \/ Fires(b)
      BY <1>3, <1>5, <2>4 DEF LowAfter, AnsweredAfter
    <3>3. btn[b].last \in {0, 1}
      BY <1>2 DEF ButtonState, Levels
    <3>4. btn'[b].fired <=> answered'[b]
      BY <1>2, <3>1, <3>2, <3>3 DEF ButtonInv
    <3>5. /\ low'[b] > 0
          /\ low'[b] <= StableFrames => btn'[b].cnt = low'[b] - 1
          /\ low'[b] > StableFrames =>
               btn'[b].cnt = StableFrames /\ answered'[b]
      BY <1>2, <3>1, <3>2, <3>3, StableFramesAssumption
         DEF ButtonInv, ButtonState, LowCap
    <3> QED
      BY <3>1, <3>4, <3>5 DEF ButtonInv
  <2> QED
    BY <1>2, <2>3, <2>4 DEF Levels
<1> QED
  BY <1>4, <1>5

LEMMA StepInv == IInv /\ [Next]_vars => IInv'
<1> SUFFICES ASSUME IInv, [Next]_vars PROVE IInv'
  OBVIOUS
<1>1. TypeOK'
  BY StepTypes
<1>2. CASE UNCHANGED vars
  BY <1>1, <1>2 DEF vars, IInv, ButtonInv
<1>3. CASE Next
  BY <1>1, <1>3, StepButton DEF Next, IInv
<1> QED
  BY <1>2, <1>3

-----------------------------------------------------------------------------
\* The statics of control.c always measure the press in progress.
THEOREM Invariance == Spec => []IInv
BY InitInv, StepInv, PTL DEF Spec

\* The variables keep their types.
THEOREM TypeCorrect == Spec => []TypeOK
<1>1. IInv => TypeOK
  BY DEF IInv
<1> QED
  BY <1>1, Invariance, PTL

\* A stable press is answered at once, whatever the other button does.
THEOREM Prompt == Spec => []PromptTurn
<1>1. IInv => PromptTurn
  BY StableFramesAssumption
     DEF IInv, ButtonInv, TypeOK, ControlTypeOK, PromptTurn, ButtonState,
         Levels, LowCap
<1> QED
  BY <1>1, Invariance, PTL

\* A button that turns the snake in a step had not been answered and had been
\* low long enough.
LEMMA StepFires ==
  ASSUME IInv, NEW lvl \in PinLevels, Poll(lvl), NEW b \in Buttons, Fires(b)
  PROVE  ~answered[b] /\ low[b] >= StableFrames
<1>1. PICK pad \in Pulses : GetPlayerState(lvl, pad)
  BY DEF Poll
<1>2. /\ ControlTypeOK
      /\ btn[b] \in ButtonState
      /\ low[b] \in 0..LowCap
      /\ ButtonInv(b)
  BY DEF IInv, TypeOK, ControlTypeOK
<1>3. PressedOnce(b, lvl[b])
  BY <1>1, <1>2, SampledFires, SkippedIsSilent
<1> QED
  BY <1>2, <1>3, StableFramesAssumption
     DEF PressedOnce, Sampled, ButtonInv, ButtonState, Levels, LowCap

\* A held button never turns the snake twice.
THEOREM OneTurn == Spec => OneTurnPerPress
<1>1. IInv /\ [Next]_vars => [\A b \in Buttons : Fires(b) => ~answered[b]]_vars
  BY StepFires DEF Next
<1> QED
  BY <1>1, Invariance, PTL DEF Spec, OneTurnPerPress

\* A bounce of fewer samples than BTN_STABLE_FRAMES never turns it.
THEOREM StableLow == Spec => TurnNeedsStableLow
<1>1. IInv /\ [Next]_vars => [\A b \in Buttons : Fires(b) => low[b] >= StableFrames]_vars
  BY StepFires DEF Next
<1> QED
  BY <1>1, Invariance, PTL DEF Spec, TurnNeedsStableLow
=============================================================================
