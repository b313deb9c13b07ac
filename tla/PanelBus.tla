------------------------------ MODULE PanelBus ------------------------------
(***************************************************************************)
(* Two tasks draw on one panel: the game thread streams its frame block by *)
(* block (w4_windowComposite, display.c) while the console task runs the   *)
(* `lcd' command (cmd_lcd, cli.c): clear the glass, then show a test card. *)
(* A draw is three transactions on the bus (panel_st7789_draw_bitmap):     *)
(* column window, row window, pixels.  Nothing holds the bus or the panel  *)
(* across the three, and lcd_clear changes the software gap of the panel   *)
(* under whoever is drawing.  Any of the three may fail: the draw ends     *)
(* there, and its caller goes on, for no result is looked at.              *)
(*                                                                         *)
(* One transaction is atomic: the SPI panel driver of ESP-IDF, which is    *)
(* external, takes the bus for it.  It returns from the pixels while they  *)
(* may still be read out of the caller's buffer, and begins no other       *)
(* transaction, not even one that fails, before they are.                  *)
(*                                                                         *)
(* The glass is cut into the bands of rows the game draws one at a time,   *)
(* and each band into three zones: what a block covers with the gap of 24  *)
(* is "inner" and "right", with no gap it is "left" and "inner".           *)
(* lcd_clear fills the glass line by line; here the eight lines of a band  *)
(* are one, and so are the lines above the bands and those below.          *)
(* An operator named X_Something is a plausible mistake in X.              *)
(***************************************************************************)
EXTENDS Integers

CONSTANTS
  Bands,       \* blocks in a frame: 160 rows / W4_BLIT_ROWS = 20
  BusMayFail   \* a transaction may fail

ASSUME BandsAssumption == Bands \in Nat \ {0} /\ Bands % 2 = 0
ASSUME BusAssumption == BusMayFail \in BOOLEAN

VARIABLES
  gap,      \* x_gap of the panel
  cols,     \* the panel's column window: a set of zones
  rows,     \* the panel's row window: a set of bands
  glass,    \* what is seen at each place of the viewport
  draw,     \* task -> the draw_bitmap call it is in
  block,    \* the game's next block
  job,      \* what the console does
  line,     \* the next line lcd_clear fills
  reading,  \* the buffers the driver still reads pixels from
  quiet,    \* history: no `lcd' command since the draw began that the game is in
  shown     \* history: the bands drawn in full since the last `lcd' command

vars == <<gap, cols, rows, glass, draw, block, job, line, reading, quiet, shown>>

Band == 0..(Bands - 1)
LastLine == Bands + 1
Zone == {"left", "inner", "right"}
Task == {"game", "console"}

\* Where the game is seen, and the card; what is left of it nobody looks at.
Viewport == {"inner", "right"} \X Band

\* "noise" is any picture drawn at a place that is not its own, or cut off.
Content == {"black", "game", "card", "noise"}

\* The columns from x_start on, and those before x_end, of a whole line and of
\* a 160 pixel wide picture at x = 68, with gap g.
From(what, g)  == IF what # "black" /\ g = 24 THEN {"inner", "right"} ELSE Zone
Until(what, g) == IF what # "black" /\ g = 0 THEN {"left", "inner"} ELSE Zone

\* Where the caller means a picture to be: at its logical coordinates.
Meant(what) == From(what, 24) \cap Until(what, 24)

\* The two of s_fb, the row of lcd_clear, and the picture of cmd_lcd.
Buffer == {"even", "odd", "row", "card"}

\* Mistake: every block is composed in the first.
BlockBuffer_Single == "even"

\* The one the game composes its next block in.
BlockBuffer == IF block % 2 = 0 THEN "even" ELSE "odd"

NoDraw == [phase |-> "none", what |-> "black", x |-> {}, y |-> {}]

Draw == [phase : {"none", "gap", "caset", "raset", "ramwr"},
         what : Content \ {"noise"}, x : SUBSET Zone, y : SUBSET Band]

TypeOK ==
  /\ gap \in {0, 24}
  /\ cols \in SUBSET Zone /\ rows \in SUBSET Band
  /\ glass \in [Viewport -> Content]
  /\ draw \in [Task -> Draw]
  /\ block \in Band
  /\ job \in {"idle", "clear", "card"}
  /\ line \in 0..LastLine + 1
  /\ reading \in SUBSET Buffer
  /\ quiet \in BOOLEAN
  /\ shown \in SUBSET Band

\* app_main has cleared the panel before it starts the game and the console, or
\* nothing of that has arrived.
Init ==
  /\ gap = 24
  /\ cols = Zone /\ rows = {}
  /\ \E seen \in IF BusMayFail THEN {"black", "noise"} ELSE {"black"} :
       glass = [c \in Viewport |-> seen]
  /\ draw = [t \in Task |-> NoDraw]
  /\ block = 0
  /\ job = "idle"
  /\ line = 0
  /\ reading = {}
  /\ quiet = FALSE
  /\ shown = {}

-----------------------------------------------------------------------------
\* draw_bitmap: the gap is read for x_start, and again for x_end.
Enter(t, what, bands) ==
  /\ draw[t].phase = "none"
  /\ draw' = [draw EXCEPT ![t] =
       [phase |-> "gap", what |-> what, x |-> From(what, gap), y |-> bands]]

Measures(t) ==
  /\ draw[t].phase = "gap"
  /\ draw' = [draw EXCEPT ![t].phase = "caset", ![t].x = @ \cap Until(draw[t].what, gap)]
  /\ UNCHANGED <<gap, cols, rows, glass, block, job, line, reading, quiet, shown>>

\* The driver waits until the last pixels have been read.
BusIsFree == reading = {}

DmaEnds ==
  /\ reading # {}
  /\ reading' = {}
  /\ UNCHANGED <<gap, cols, rows, glass, draw, block, job, line, quiet, shown>>

\* Mistake: the row window is taken to be still the one of the last draw.
Caset_SkipsRows(t) ==
  /\ draw[t].phase = "caset" /\ BusIsFree
  /\ cols' = draw[t].x
  /\ draw' = [draw EXCEPT ![t].phase = "ramwr"]
  /\ UNCHANGED <<gap, rows, glass, block, job, line, reading, quiet, shown>>

Caset(t) ==
  /\ draw[t].phase = "caset" /\ BusIsFree
  /\ cols' = draw[t].x
  /\ draw' = [draw EXCEPT ![t].phase = "raset"]
  /\ UNCHANGED <<gap, rows, glass, block, job, line, reading, quiet, shown>>

Raset(t) ==
  /\ draw[t].phase = "raset" /\ BusIsFree
  /\ rows' = draw[t].y
  /\ draw' = [draw EXCEPT ![t].phase = "ramwr"]
  /\ UNCHANGED <<gap, cols, glass, block, job, line, reading, quiet, shown>>

\* A picture between a start and an end of different gaps has lines of another
\* length than its pixels.
Torn(t) == draw[t].what # "black" /\ draw[t].x \in {{"inner"}, Zone}

\* The pixels go to whatever window the panel has now.
InPlace(t) == cols = Meant(draw[t].what) /\ rows = draw[t].y /\ ~Torn(t)

Picture(t) == IF InPlace(t) THEN draw[t].what ELSE "noise"

InWindow(c) == c[1] \in cols /\ c[2] \in rows

\* What tx_color reads: as many pixels as the window has that draw_bitmap meant.
\* From x_start without the gap to x_end with it they are more than the block,
\* which the second half of s_fb follows.
Source(t) ==
  IF t = "console" THEN {IF job = "clear" THEN "row" ELSE "card"}
  ELSE {BlockBuffer} \cup IF draw[t].x = Zone THEN {"odd"} ELSE {}

-----------------------------------------------------------------------------
\* Mistake: the last block is followed by one more.
NextBlock_OneMore == (block + 1) % (Bands + 1)

NextBlock == (block + 1) % Bands

\* draw_bitmap is over and its caller goes on, whatever has come of it.
Returns(t) ==
  /\ draw' = [draw EXCEPT ![t] = NoDraw]
  /\ block' = IF t = "game" THEN NextBlock ELSE block
  /\ line' = IF t = "console" /\ job = "clear" THEN line + 1 ELSE line
  /\ job' = IF t = "console" /\ job = "card" THEN "idle" ELSE job
  /\ quiet' = (quiet /\ t # "game")
  /\ UNCHANGED gap

Pixels(t) ==
  /\ draw[t].phase = "ramwr" /\ BusIsFree
  /\ glass' = [c \in Viewport |-> IF InWindow(c) THEN Picture(t) ELSE glass[c]]
  /\ reading' = Source(t)
  /\ shown' = IF t = "game" /\ quiet THEN shown \cup {block} ELSE shown
  /\ Returns(t)
  /\ UNCHANGED <<cols, rows>>

\* A window command that fails has reached the panel or not.
CasetFails(t) ==
  /\ BusMayFail
  /\ draw[t].phase = "caset" /\ BusIsFree
  /\ cols' \in {cols, draw[t].x}
  /\ Returns(t)
  /\ UNCHANGED <<rows, glass, reading, shown>>

\* Mistake: the result is not looked at, and the pixels are sent all the same.
RasetFails_GoesOn(t) ==
  /\ BusMayFail
  /\ draw[t].phase = "raset" /\ BusIsFree
  /\ draw' = [draw EXCEPT ![t].phase = "ramwr"]
  /\ UNCHANGED <<gap, cols, rows, glass, block, job, line, reading, quiet, shown>>

RasetFails(t) ==
  /\ BusMayFail
  /\ draw[t].phase = "raset" /\ BusIsFree
  /\ rows' \in {rows, draw[t].y}
  /\ Returns(t)
  /\ UNCHANGED <<cols, glass, reading, shown>>

\* Of the pixels none is sent, or a part.
PixelsFail(t) ==
  /\ BusMayFail
  /\ draw[t].phase = "ramwr" /\ BusIsFree
  /\ \/ UNCHANGED <<glass, reading>>
     \/ /\ glass' = [c \in Viewport |->
                       IF InWindow(c) /\ glass[c] # Picture(t) THEN "noise" ELSE glass[c]]
        /\ reading' = Source(t)
  /\ Returns(t)
  /\ UNCHANGED <<cols, rows, shown>>

DrawStep(t) ==
  \/ Measures(t) \/ Caset(t) \/ Raset(t) \/ Pixels(t)
  \/ CasetFails(t) \/ RasetFails(t) \/ PixelsFail(t)

-----------------------------------------------------------------------------
\* The game thread: block after block, frame after frame.
GameEnters ==
  /\ Enter("game", "game", {block})
  /\ quiet' = (job = "idle")
  /\ UNCHANGED <<gap, cols, rows, glass, block, job, line, reading, shown>>

\* lcd_clear: no gap, every line, the gap again.
ClearBegins ==
  /\ job = "idle"
  /\ job' = "clear"
  /\ gap' = 0
  /\ line' = 0
  /\ quiet' = FALSE /\ shown' = {}
  /\ UNCHANGED <<cols, rows, glass, draw, block, reading>>

ClearEnters ==
  /\ job = "clear" /\ line <= LastLine
  /\ Enter("console", "black", {line - 1} \cap Band)
  /\ UNCHANGED <<gap, cols, rows, glass, block, job, line, reading, quiet, shown>>

\* Mistake: the gap is not put back.
ClearEnds_NoGap ==
  /\ job = "clear" /\ line > LastLine
  /\ job' = "card"
  /\ UNCHANGED <<gap, cols, rows, glass, draw, block, line, reading, quiet, shown>>

ClearEnds ==
  /\ job = "clear" /\ line > LastLine
  /\ gap' = 24
  /\ job' = "card"
  /\ UNCHANGED <<cols, rows, glass, draw, block, line, reading, quiet, shown>>

\* The test card, in one draw; or there was no memory for it.
CardEnters ==
  /\ job = "card"
  /\ Enter("console", "card", Band)
  /\ UNCHANGED <<gap, cols, rows, glass, block, job, line, reading, quiet, shown>>

NoCard ==
  /\ job = "card"
  /\ draw["console"].phase = "none"
  /\ job' = "idle"
  /\ UNCHANGED <<gap, cols, rows, glass, draw, block, line, reading, quiet, shown>>

-----------------------------------------------------------------------------
Game == GameEnters \/ DrawStep("game")

\* The command once it has been typed.
Console ==
  \/ ClearEnters \/ ClearEnds
  \/ CardEnters \/ NoCard
  \/ DrawStep("console")

Next == Game \/ Console \/ ClearBegins \/ DmaEnds

\* Both tasks are scheduled by FreeRTOS, and the driver goes on with what it is
\* given, to the end or to an error; nobody has to type `lcd'.
Spec ==
  /\ Init /\ [][Next]_vars
  /\ WF_vars(Game) /\ WF_vars(Console) /\ WF_vars(DmaEnds)

-----------------------------------------------------------------------------
\* A block whose three transactions have arrived is seen until the next `lcd'
\* command, whatever an earlier command has left in the windows, and whichever
\* transactions of other blocks or of its own next draw fail: a draw that is
\* cut off anywhere spoils nobody else's band (panel_st7789_draw_bitmap returns
\* at the first error, lcd_draw_img drops it).
DrawnBlocksStay == \A c \in Viewport : c[2] \in shown => glass[c] = "game"

\* Once the console is quiet for good and no block fails for ever, the viewport
\* is the game's for good, though transactions go on failing in between.
Arrives(b) == block = b /\ Pixels("game")

ViewportRecovers ==
  <>[](job = "idle") /\ (\A b \in Band : []<><<Arrives(b)>>_vars)
    => <>[](\A c \in Viewport : glass[c] = "game")

\* The game composes a block while the driver may still read the last one,
\* from the other half of s_fb, whatever the console sends in between and
\* whatever fails.  Only a block whose gap lcd_clear changed between the two
\* readings is read past its end, into the half that comes next.
BlockIsNotOverwritten ==
  draw["game"].phase = "none" /\ BlockBuffer \in reading => reading = {"even", "odd"}

\* lcd.h says of lcd_draw_img, and of the coordinates it is given, that the
\* picture is put at the logical coordinates (x, y): the window the pixels go
\* to is the one the caller asked for.
DrawsInPlace == \A t \in Task : draw[t].phase = "ramwr" => InPlace(t)
=============================================================================
