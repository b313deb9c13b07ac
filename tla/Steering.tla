------------------------------ MODULE Steering ------------------------------
(***************************************************************************)
(* What the two buttons promise the player (the head of control.c): a      *)
(* press turns the snake a quarter turn to its side, once, and the button  *)
(* does nothing more until it is let go.  A press may be lost while the    *)
(* game is coming up; of the two that follow, the first may be refused and *)
(* both may turn to the wrong side, and then the promise holds again.      *)
(* GameLoop is shown to implement this module.                             *)
(***************************************************************************)
EXTENDS Headings

VARIABLES
  heading,   \* where the snake will go next
  armed,     \* button -> a press of it would turn the snake
  steady     \* presses since the last one that was lost (2 and more: 2)

steeringVars == <<heading, armed, steady>>

Sides == {"left", "right"}

QuarterTurn(side, h) ==
  IF side = "left" THEN CounterClockwise(h) ELSE Clockwise(h)

Turns(h) == {QuarterTurn(side, h) : side \in Sides}

Init ==
  /\ heading = Right
  /\ armed = [side \in Sides |-> TRUE]
  /\ steady = 2

\* A press uses up its button; the other one may be let go at the same time.
Fires(side) ==
  /\ armed[side]
  /\ \E released \in SUBSET (Sides \ {side}) :
       armed' = [s \in Sides |-> s # side /\ (armed[s] \/ s \in released)]

Press(side) ==
  /\ Fires(side)
  /\ steady = 2
  /\ heading' = QuarterTurn(side, heading)
  /\ UNCHANGED steady

Lost(side) ==
  /\ Fires(side)
  /\ steady' = 0
  /\ UNCHANGED heading

FirstAfterLoss(side) ==
  /\ Fires(side)
  /\ steady = 0 /\ steady' = 1
  /\ heading' \in Turns(heading) \cup {heading}

SecondAfterLoss(side) ==
  /\ Fires(side)
  /\ steady = 1 /\ steady' = 2
  /\ heading' \in Turns(heading)

Release ==
  /\ UNCHANGED <<heading, steady>>
  /\ \E released \in SUBSET Sides :
       armed' = [s \in Sides |-> armed[s] \/ s \in released]

\* The board restarts: a new game.
Restart ==
  /\ heading' = Right
  /\ armed' = [side \in Sides |-> TRUE]
  /\ steady' = 2

Next ==
  \/ \E side \in Sides : \/ Press(side) \/ Lost(side)
                         \/ FirstAfterLoss(side) \/ SecondAfterLoss(side)
  \/ Release
  \/ Restart

Spec == Init /\ [][Next]_steeringVars
=============================================================================
