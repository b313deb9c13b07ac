------------------------------ MODULE Debounce ------------------------------
(***************************************************************************)
(* The buttons alone: Control polled once a frame by a thread that never   *)
(* stops, while the two pins take any level they like between samples      *)
(* (contacts bounce, players press both).                                  *)
(***************************************************************************)
EXTENDS Control

VARIABLES
  low,      \* history: samples of the button since it last read high (capped)
  answered  \* history: it has turned the snake since it last read high

vars == <<btn, shadow, low, answered>>

\* The most a low count has to tell apart.
LowCap == StableFrames + 2

TypeOK ==
  /\ ControlTypeOK
  /\ low \in [Buttons -> 0..LowCap]
  /\ answered \in [Buttons -> BOOLEAN]

Init ==
  /\ ControlInit
  /\ low = [b \in Buttons |-> 0]
  /\ answered = [b \in Buttons |-> FALSE]

-----------------------------------------------------------------------------
\* The press of button b is recognised in this step, which turns the shadow.
Fires(b) == shadow' = IF b = 0 THEN CounterClockwise(shadow) ELSE Clockwise(shadow)

\* The right button is not sampled in a frame in which the left one fires.
Skipped(b) == b = 1 /\ Fires(0)

LowAfter(b, lvl) ==
  IF Skipped(b) THEN low[b]
  ELSE IF lvl[b] = 1 THEN 0
  ELSE IF low[b] < LowCap THEN low[b] + 1 ELSE low[b]

AnsweredAfter(b, lvl) ==
  IF Skipped(b) THEN answered[b]
  ELSE lvl[b] = 0 /\ (answered[b] \/ Fires(b))

Poll(lvl) ==
  /\ \E pad \in Pulses : GetPlayerState(lvl, pad)
  /\ low' = [b \in Buttons |-> LowAfter(b, lvl)]
  /\ answered' = [b \in Buttons |-> AnsweredAfter(b, lvl)]

Next == \E lvl \in PinLevels : Poll(lvl)

\* The game thread polls for ever (w4_windowBoot).
Spec == Init /\ [][Next]_vars /\ WF_vars(Next)

-----------------------------------------------------------------------------
\* One turn per press: however long a button is held and whatever the other
\* one does, it turns the snake again only after it has been read high.
OneTurnPerPress == [][\A b \in Buttons : Fires(b) => ~answered[b]]_vars

\* A bounce turns nothing: the sample that turns the snake is preceded by at
\* least StableFrames samples of the same button that were all low, with no
\* high one between them.
TurnNeedsStableLow == [][\A b \in Buttons : Fires(b) => low[b] >= StableFrames]_vars

\* A press is recognised as soon as it is stable: no button has been low for
\* more than StableFrames + 1 of its samples and is still without its turn.
PromptTurn == \A b \in Buttons : low[b] > StableFrames => answered[b]

\* No press is starved: a button that has been read low turns the snake,
\* unless it is let go.  Both may be held at once, and the left one goes first.
HeldButtonTurns == \A b \in Buttons : (low[b] > 0) ~> (answered[b] \/ low[b] = 0)
=============================================================================
