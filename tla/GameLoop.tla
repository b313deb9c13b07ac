------------------------------ MODULE GameLoop ------------------------------
(***************************************************************************)
(* The game thread, w4_windowBoot of components/game_app/display.c: each   *)
(* frame polls the buttons, hands the cartridge the byte they give and     *)
(* calls its `update' (runtime.c, wamr.c).  Control and Snake share no     *)
(* state but that byte, and each keeps its own idea of the heading.        *)
(*                                                                         *)
(* Two things can go wrong between them.  The second execution environment *)
(* is created by the first frame that calls `update': when the allocation  *)
(* fails the call is skipped, the frame is lost, and the next one tries    *)
(* again.  And a dead snake calls `trace', whose string argument is        *)
(* registered as a plain integer, so that the host dereferences an offset  *)
(* of the WASM memory as if it were an address: it prints garbage, or the  *)
(* processor faults and the board restarts.                                *)
(***************************************************************************)
EXTENDS Control, Snake

CONSTANT
  EnvMayFail   \* the 10 KB execution environment may not fit in the heap

ASSUME EnvAssumption == EnvMayFail \in BOOLEAN

VARIABLES
  env2,        \* exec_env2 has been created
  caught       \* history: turns since the last one that was lost (2 and more: 2)

vars == <<controlVars, snakeVars, env2, caught>>

TypeOK ==
  /\ ControlTypeOK
  /\ SnakeTypeOK
  /\ env2 \in BOOLEAN
  /\ caught \in 0..2

Init ==
  /\ ControlInit
  /\ SnakeInit
  /\ env2 = FALSE
  /\ caught = 2

-----------------------------------------------------------------------------
\* w4_wasmCallUpdate reaches the cartridge with the byte of this frame.
Play(pad) ==
  /\ env2' = TRUE
  /\ CartUpdate(pad)
  /\ caught' = IF pad = {} \/ caught = 2 THEN caught ELSE caught + 1

Frame(lvl) ==
  \E pad \in Pulses : GetPlayerState(lvl, pad) /\ Play(pad)

\* exec_env2 could not be created: the buttons have been polled all the same,
\* and the pulse of this frame is gone.
LostFrame(lvl) ==
  /\ EnvMayFail
  /\ ~env2
  /\ \E pad \in Pulses :
       /\ GetPlayerState(lvl, pad)
       /\ caught' = IF pad = {} THEN caught ELSE 0
  /\ UNCHANGED <<snakeVars, env2>>

\* The dead snake's trace faults: everything starts again from app_main.
Fault ==
  /\ IsDead
  /\ ControlRestart
  /\ SnakeRestart
  /\ env2' = FALSE
  /\ caught' = 2

Next == (\E lvl \in PinLevels : Frame(lvl) \/ LostFrame(lvl)) \/ Fault

Spec == Init /\ [][Next]_vars

-----------------------------------------------------------------------------
\* The firmware's shadow of the heading never loses step with the game's own
\* direction (control.c says so at its head): relative turns go where the
\* player means them.
ShadowInSync == shadow = direction

\* They disagree only after a turn was lost with its frame, and for two turns at
\* most: whatever they had become, the second turn that reaches the game puts
\* them in step again.
ResyncsInTwoTurns == caught = 2 => ShadowInSync

\* The heading of the last move.
Travels(h) == body[1] = Step(body[2], h)

\* The gates follow the snake's motion (control.c and snake-mbt/README.md: only
\* while it moves horizontally is a vertical turn accepted, and conversely),
\* so that it can never be sent back over its own neck.
GateFollowsMotion == \A h \in Heading : Travels(h) => direction # Opposite(h)

-----------------------------------------------------------------------------
\* The loop implements Steering: the direction of the game turns a quarter turn
\* at each press of an armed button and at no other time, but for the two turns
\* after one that was lost.
ButtonAt(side) == IF side = "left" THEN 0 ELSE 1

Steers == INSTANCE Steering WITH
  heading <- direction,
  armed   <- [side \in {"left", "right"} |-> ~btn[ButtonAt(side)].fired],
  steady  <- caught

ImplementsSteering == Steers!Spec
=============================================================================
