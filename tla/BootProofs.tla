----------------------------- MODULE BootProofs -----------------------------
(***************************************************************************)
(* The safety properties of Boot, whatever steps may fail.                 *)
(***************************************************************************)
EXTENDS Boot, TLAPS

\* Past lcd_init the panel is there; past the test of s_game_running no game
\* is running; and an instance exists only of a card that has been loaded.
Stage ==
  /\ pc \in {"game_app_start", "init_wamr", "joined"} => panel
  /\ pc \in {"init_wamr", "joined"} => ~running
  /\ inst => card = "spoiled"
  /\ panel => bus

IInv == TypeOK /\ FlagTellsThread /\ ThreadHasItsWorld /\ Stage

LEMMA UpdateKeepsType ==
  ASSUME NEW r \in Registers, NEW m \in SUBSET Bit, NEW c \in Format,
         NEW a \in BOOLEAN, NEW i \in BOOLEAN, NEW s \in BOOLEAN
  PROVE  [r EXCEPT !.awake = a, !.madctl = m, !.colmod = c,
                   !.inverted = i, !.shows = s] \in Registers
BY DEF Registers

\* What the first k commands of the initialisation leave.
LEMMA InitialisedResult ==
  ASSUME NEW k \in 0..InitCommands
  PROVE  /\ Initialised(NewPanel, k) \in Registers
         /\ Initialised(NewPanel, k).madctl_val = {}
         /\ k = 7 => /\ Initialised(NewPanel, k).awake
                     /\ Initialised(NewPanel, k).inverted
                     /\ Initialised(NewPanel, k).shows
                     /\ Initialised(NewPanel, k).colmod = "0x05"
<1> DEFINE r == Initialised(NewPanel, k)
<1>1. k \in Nat
  BY DEF InitCommands
<1>2. /\ r.madctl = {}
      /\ r.madctl_val = {}
      /\ r.colmod = IF k >= 5 THEN "0x05" ELSE IF k >= 3 THEN "0x55" ELSE "0x66"
      /\ r.colmod_val = "0x55"
  BY <1>1 DEF Initialised, NewPanel
<1>3. r.awake = (k >= 1) /\ r.inverted = (k >= 6) /\ r.shows = (k >= 7)
  BY <1>1 DEF Initialised, NewPanel
<1>4. r \in Registers
  <2> DEFINE a == NewPanel.awake \/ k >= 1
             i == NewPanel.inverted \/ k >= 6
             s == NewPanel.shows \/ k >= 7
             m == IF k >= 4 THEN {}
                  ELSE IF k >= 2 THEN NewPanel.madctl_val ELSE NewPanel.madctl
             c == IF k >= 5 THEN "0x05"
                  ELSE IF k >= 3 THEN NewPanel.colmod_val ELSE NewPanel.colmod
  <2>1. NewPanel \in Registers
    BY DEF NewPanel, Registers, Format
  <2>2. r = [NewPanel EXCEPT !.awake = a, !.madctl = m, !.colmod = c,
                             !.inverted = i, !.shows = s]
    BY Zenon DEF Initialised
  <2>3. a \in BOOLEAN /\ i \in BOOLEAN /\ s \in BOOLEAN
    OBVIOUS
  <2>4. m \in SUBSET Bit
    BY DEF NewPanel
  <2>5. c \in Format
    BY DEF NewPanel, Format
  <2> HIDE DEF r, a, i, s, m, c
  <2> QED
    BY <2>1, <2>2, <2>3, <2>4, <2>5, UpdateKeepsType
<1>5. ASSUME k = 7
      PROVE  r.awake /\ r.inverted /\ r.shows /\ r.colmod = "0x05"
  <2>1. k >= 1 /\ k >= 5 /\ k >= 6 /\ k >= 7
    BY <1>5
  <2> HIDE DEF r
  <2> QED
    BY <1>2, <1>3, <2>1, Zenon
<1> QED
  BY <1>2, <1>4, <1>5

\* What one more call leaves.
LEMMA InvertedResult ==
  ASSUME NEW r \in Registers, NEW sent \in BOOLEAN
  PROVE  /\ Inverted(r, sent) \in Registers
         /\ r.inverted => Inverted(r, sent).inverted
         /\ \A f \in {"madctl", "madctl_val", "colmod", "awake", "shows"} :
              Inverted(r, sent)[f] = r[f]
BY DEF Inverted, Registers

LEMMA OrientedResult ==
  ASSUME NEW r \in Registers, NEW bits \in SUBSET Bit, NEW sent \in BOOLEAN
  PROVE  /\ Oriented(r, bits, sent) \in Registers
         /\ Oriented(r, bits, sent).madctl_val = bits
         /\ sent => Oriented(r, bits, sent).madctl = bits
         /\ \A f \in {"inverted", "colmod", "awake", "shows"} :
              Oriented(r, bits, sent)[f] = r[f]
BY DEF Oriented, Registers

LEMMA SwitchedResult ==
  ASSUME NEW r \in Registers, NEW sent \in BOOLEAN
  PROVE  /\ Switched(r, sent) \in Registers
         /\ r.shows => Switched(r, sent).shows
         /\ \A f \in {"madctl", "madctl_val", "colmod", "awake", "inverted"} :
              Switched(r, sent)[f] = r[f]
BY DEF Switched, Registers

\* What a set-up leaves in the panel, whatever is lost of it.
LEMMA SetUpResult ==
  ASSUME NEW k \in 0..InitCommands, NEW failed \in SUBSET Call,
         "init" \in failed <=> k < InitCommands
  PROVE  /\ SetUp(k, failed) \in Registers
         /\ "mirror" \notin failed =>
              /\ SetUp(k, failed).madctl = SetUp(k, failed).madctl_val
              /\ SetUp(k, failed).madctl = Landscape
         /\ failed \cap {"init", "mirror"} = {} =>
              /\ SetUp(k, failed).awake
              /\ SetUp(k, failed).shows
              /\ SetUp(k, failed).inverted
              /\ SetUp(k, failed).colmod \in Sixteen
<1> DEFINE arrives(c) == c \notin failed
           r0 == Initialised(NewPanel, k)
           r1 == Inverted(r0, arrives("invert"))
           r2 == Swapped(r1, arrives("swap_xy"))
           r3 == Mirrored(r2, arrives("mirror"))
           r4 == Switched(r3, arrives("disp_on"))
<1>0. \A c : arrives(c) \in BOOLEAN
  OBVIOUS
<1>1. SetUp(k, failed) = r4
  BY Zenon DEF SetUp
<1> HIDE DEF arrives
<1>2. /\ r0 \in Registers
      /\ r0.madctl_val = {}
      /\ k = 7 => r0.awake /\ r0.inverted /\ r0.shows /\ r0.colmod = "0x05"
  BY InitialisedResult
<1> HIDE DEF r0
<1>3. /\ r1 \in Registers
      /\ r1.madctl_val = {}
      /\ r0.inverted => r1.inverted
      /\ r1.awake = r0.awake /\ r1.shows = r0.shows /\ r1.colmod = r0.colmod
  BY <1>0, <1>2, InvertedResult
<1> HIDE DEF r1
<1>4. /\ r2 \in Registers
      /\ r2.madctl_val = {"MV"}
      /\ r2.inverted = r1.inverted
      /\ r2.awake = r1.awake /\ r2.shows = r1.shows /\ r2.colmod = r1.colmod
  <2>1. r1.madctl_val \cup {"MV"} = {"MV"} /\ {"MV"} \in SUBSET Bit
    BY <1>3 DEF Bit
  <2>2. r2 = Oriented(r1, {"MV"}, arrives("swap_xy"))
    BY <2>1, Zenon DEF Swapped
  <2> QED
    BY <1>0, <1>3, <2>1, <2>2, OrientedResult
<1> HIDE DEF r2
<1>5. /\ r3 \in Registers
      /\ r3.madctl_val = Landscape
      /\ arrives("mirror") => r3.madctl = Landscape
      /\ r3.inverted = r2.inverted
      /\ r3.awake = r2.awake /\ r3.shows = r2.shows /\ r3.colmod = r2.colmod
  <2>1. /\ (r2.madctl_val \cup {"MX"}) \ {"MY"} = Landscape
        /\ Landscape \in SUBSET Bit
    BY <1>4 DEF Bit, Landscape
  <2>2. r3 = Oriented(r2, Landscape, arrives("mirror"))
    BY <2>1, Zenon DEF Mirrored
  <2> QED
    BY <1>0, <1>4, <2>1, <2>2, OrientedResult
<1> HIDE DEF r3
<1>6. /\ r4 \in Registers
      /\ r4.madctl_val = r3.madctl_val /\ r4.madctl = r3.madctl
      /\ r4.inverted = r3.inverted
      /\ r3.shows => r4.shows
      /\ r4.awake = r3.awake /\ r4.colmod = r3.colmod
  BY <1>0, <1>5, SwitchedResult
<1> HIDE DEF r4
<1>7. ASSUME failed \cap {"init", "mirror"} = {}
      PROVE  r4.awake /\ r4.shows /\ r4.inverted /\ r4.colmod \in Sixteen
  <2>1. k = 7
    BY <1>7 DEF InitCommands
  <2>2. r0.awake /\ r0.inverted /\ r0.shows /\ r0.colmod = "0x05"
    BY <1>2, <2>1
  <2>3. r4.awake /\ r4.shows /\ r4.inverted
    BY <1>3, <1>4, <1>5, <1>6, <2>2, Zenon
  <2> QED
    BY <1>3, <1>4, <1>5, <1>6, <2>2, <2>3 DEF Sixteen
<1>8. "mirror" \notin failed => arrives("mirror")
  BY DEF arrives
<1> QED
  BY <1>1, <1>5, <1>6, <1>7, <1>8

LEMMA InitInv == Init => IInv
<1> SUFFICES ASSUME Init PROVE IInv
  OBVIOUS
<1>1. TypeOK
  BY DEF Init, TypeOK, NewPanel, Registers, Format
<1>2. ~running /\ threads = 0 /\ ~inst /\ ~panel /\ pc = "lcd_init"
  BY DEF Init
<1>3. threads # 1
  BY <1>2
<1> QED
  BY <1>1, <1>2, <1>3 DEF IInv, FlagTellsThread, ThreadHasItsWorld, Stage

\* The steps of lcd_init.
LEMMA LcdStep ==
  ASSUME IInv, Lcd
  PROVE  IInv' /\ (panel => UNCHANGED lcdVars)
<1> USE DEF IInv, TypeOK, FlagTellsThread, ThreadHasItsWorld, Stage, lcdVars,
            wamrVars, gameVars, LcdReady, LcdFailed
<1>1. CASE LcdAlready
  BY <1>1 DEF LcdAlready
<1>2. CASE BusFails
  BY <1>2 DEF BusFails
<1>3. CASE HandlesFail
  BY <1>3 DEF HandlesFail
<1>4. CASE LcdUp
  <2>1. st7789' \in Registers /\ lost' \subseteq Call
    BY <1>4, SetUpResult DEF LcdUp
  <2> QED
    BY <1>4, <2>1 DEF LcdUp
<1> QED
  BY <1>1, <1>2, <1>3, <1>4 DEF Lcd

\* The steps of init_wamr: none is taken while a game is running.
LEMMA WamrStep ==
  ASSUME IInv, Wamr
  PROVE  IInv' /\ threads = 0
<1> USE DEF IInv, TypeOK, FlagTellsThread, ThreadHasItsWorld, Stage, lcdVars,
            wamrVars, gameVars
<1>1. CASE RuntimeFails
  BY <1>1 DEF RuntimeFails
<1>2. CASE LoadFails
  BY <1>2 DEF LoadFails
<1>3. CASE InstantiateFails
  BY <1>3 DEF InstantiateFails
<1>4. CASE Instantiated
  <2>1. exec_env' \in BOOLEAN
    BY <1>4 DEF Instantiated
  <2> QED
    BY <1>4, <2>1 DEF Instantiated
<1> QED
  BY <1>1, <1>2, <1>3, <1>4 DEF Wamr

\* The steps of game_app_start itself.
LEMMA GameStep ==
  ASSUME IInv, Game
  PROVE  IInv' /\ UNCHANGED <<lcdVars, wamrVars>>
<1>0. GameThread => threads' = 1
  <2>1. GameThread => threads \in {0, 1} /\ threads # 1 /\ threads' = threads + 1
    BY Zenon DEF GameThread, IInv, TypeOK, Stage, FlagTellsThread
  <2> QED
    BY <2>1
<1> USE DEF IInv, TypeOK, FlagTellsThread, ThreadHasItsWorld, Stage, lcdVars,
            wamrVars, gameVars, Return
<1>1. CASE AlreadyRunning
  BY <1>1 DEF AlreadyRunning
<1>2. CASE NoInitThread
  BY <1>2 DEF NoInitThread
<1>3. CASE InitThread
  BY <1>3 DEF InitThread
<1>4. CASE NoInstance
  BY <1>4 DEF NoInstance
<1>5. CASE NoGameThread
  BY <1>5 DEF NoGameThread
<1>6. CASE GameThread
  <2> QED
    BY <1>0, <1>6 DEF GameThread
<1> QED
  BY <1>1, <1>2, <1>3, <1>4, <1>5, <1>6 DEF Game

\* The invariant is kept, and no step but a restart touches what a game thread
\* works with.
LEMMA NextInv ==
  ASSUME IInv, [Next]_vars
  PROVE  /\ IInv'
         /\ threads # 0 /\ threads' # 0 => UNCHANGED <<lcdVars, wamrVars>>
<1>1. CASE Lcd
  <2>1. UNCHANGED wamrVars
    BY <1>1, Zenon DEF Lcd, LcdAlready, BusFails, HandlesFail, LcdUp
  <2> QED
    BY <1>1, <2>1, LcdStep DEF IInv, ThreadHasItsWorld
<1>2. CASE Wamr
  BY <1>2, WamrStep
<1>3. CASE Game
  BY <1>3, GameStep
<1>4. ASSUME NEW cmd \in {"lcd", "game"}, Type(cmd)
      PROVE  IInv' /\ UNCHANGED <<lcdVars, wamrVars>>
  BY <1>4 DEF Type, IInv, TypeOK, FlagTellsThread, ThreadHasItsWorld, Stage,
              lcdVars, wamrVars, gameVars
<1>5. CASE Restart
  <2>1. TypeOK'
    BY <1>5 DEF Restart, TypeOK, NewPanel, Registers, Format
  <2>2. /\ ~running' /\ threads' = 0
        /\ ~inst' /\ ~panel' /\ pc' = "lcd_init"
    BY <1>5 DEF Restart
  <2>3. threads' # 1
    BY <2>2
  <2> QED
    BY <2>1, <2>2, <2>3 DEF IInv, FlagTellsThread, ThreadHasItsWorld, Stage
<1>6. CASE UNCHANGED vars
  <2>1. UNCHANGED <<lcdVars, wamrVars>>
    BY <1>6, Zenon DEF vars, lcdVars, wamrVars
  <2>2. TypeOK'
    <3>1. /\ bus' \in BOOLEAN /\ panel' \in BOOLEAN /\ runtime' \in BOOLEAN
          /\ inst' \in BOOLEAN /\ exec_env' \in BOOLEAN /\ running' \in BOOLEAN
      BY <1>6, Zenon DEF IInv, vars, lcdVars, wamrVars, gameVars, TypeOK
    <3> QED
      BY <1>6, <3>1 DEF IInv, vars, lcdVars, wamrVars, gameVars, TypeOK
  <2>4. FlagTellsThread'
    BY <1>6 DEF IInv, vars, gameVars, FlagTellsThread
  <2>3. ThreadHasItsWorld' /\ Stage'
    BY <1>6 DEF IInv, vars, lcdVars, wamrVars, gameVars, ThreadHasItsWorld, Stage
  <2> QED
    BY <2>1, <2>2, <2>3, <2>4 DEF IInv
<1> QED
  BY <1>1, <1>2, <1>3, <1>4, <1>5, <1>6 DEF Next

-----------------------------------------------------------------------------
LEMMA Invariant == Spec => []IInv
<1>1. IInv /\ [Next]_vars => IInv'
  BY NextInv
<1> QED
  BY InitInv, <1>1, PTL DEF Spec

\* The variables of the start-up keep their types: there is never a second
\* game thread.
THEOREM TypeCorrect == Spec => []TypeOK
<1>1. IInv => TypeOK
  BY DEF IInv
<1> QED
  BY Invariant, <1>1, PTL

\* s_game_running tells whether there is a game thread (display.c).
THEOREM Flag == Spec => []FlagTellsThread
<1>1. IInv => FlagTellsThread
  BY DEF IInv
<1> QED
  BY Invariant, <1>1, PTL

\* No game thread starts without an instance or without a panel.
THEOREM World == Spec => []ThreadHasItsWorld
<1>1. IInv => ThreadHasItsWorld
  BY DEF IInv
<1> QED
  BY Invariant, <1>1, PTL

\* No command touches what a running game works with.
THEOREM LeftAlone == Spec => GameIsLeftAlone
<1>1. IInv /\ [Next]_vars =>
        [threads # 0 /\ threads' # 0 => UNCHANGED <<lcdVars, wamrVars>>]_vars
  BY NextInv
<1> QED
  BY Invariant, <1>1, PTL DEF Spec, GameIsLeftAlone

-----------------------------------------------------------------------------
\* The panel is set up once, and keeps what it was set to.
LEMMA PanelStep ==
  ASSUME IInv, CopyTellsOrientation, PictureShows, [Next]_vars
  PROVE  CopyTellsOrientation' /\ PictureShows'
<1>1. CASE LcdUp
  BY <1>1, SetUpResult DEF LcdUp, CopyTellsOrientation, PictureShows
<1>2. CASE Restart
  BY <1>2 DEF Restart, CopyTellsOrientation, PictureShows
<1>3. ASSUME UNCHANGED <<panel, st7789, lost>>
      PROVE  CopyTellsOrientation' /\ PictureShows'
  BY <1>3 DEF CopyTellsOrientation, PictureShows
<1>4. CASE Lcd
  BY <1>1, <1>3, <1>4, Zenon DEF Lcd, LcdAlready, BusFails, HandlesFail, lcdVars
<1>5. CASE Wamr \/ Game
  BY <1>3, <1>5, Zenon
     DEF Wamr, RuntimeFails, LoadFails, InstantiateFails, Instantiated,
         Game, AlreadyRunning, NoInitThread, InitThread, NoInstance,
         NoGameThread, GameThread, lcdVars
<1>6. CASE Type("lcd") \/ Type("game") \/ UNCHANGED vars
  BY <1>3, <1>6, Zenon DEF Type, vars, lcdVars
<1> QED
  BY <1>2, <1>4, <1>5, <1>6 DEF Next

LEMMA PanelInvariant == Spec => [](CopyTellsOrientation /\ PictureShows)
<1>1. Init => CopyTellsOrientation /\ PictureShows
  BY DEF Init, CopyTellsOrientation, PictureShows
<1>2. IInv /\ CopyTellsOrientation /\ PictureShows /\ [Next]_vars
        => (CopyTellsOrientation /\ PictureShows)'
  BY PanelStep
<1> QED
  BY <1>1, <1>2, Invariant, PTL DEF Spec

\* The driver's copy of MADCTL is right unless its last transaction was lost.
THEOREM Orientation == Spec => []CopyTellsOrientation
BY PanelInvariant, PTL

\* No loss shows but that of the initialisation and of the orientation.
THEOREM Picture == Spec => []PictureShows
BY PanelInvariant, PTL
=============================================================================
