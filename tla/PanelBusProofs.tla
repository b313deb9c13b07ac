--------------------------- MODULE PanelBusProofs ---------------------------
(***************************************************************************)
(* A block drawn since the last `lcd' command stays on the glass whatever  *)
(* fails, and no block is composed in a buffer that is still read, for any *)
(* even number of blocks.                                                  *)
(***************************************************************************)
EXTENDS PanelBus, TLAPS

\* The console leaves the panel as it found it: outside lcd_clear the gap is
\* back, and outside the command nothing of it is under way.
ConsoleInv ==
  /\ job # "clear" => gap = 24
  /\ job = "idle" => draw["console"].phase = "none"
  /\ job = "clear" /\ draw["console"].phase # "none" => line <= LastLine

\* What the history is about: while it lasts no command runs, and once it has
\* begun every draw of the game belongs to it.
QuietInv ==
  /\ quiet => job = "idle" /\ draw["game"].phase # "none"
  /\ shown # {} => job = "idle" /\ (quiet \/ draw["game"].phase = "none")

\* The game's draw of the present block, as far as it has come.
Block(phase) ==
  [phase |-> phase, what |-> "game", x |-> {"inner", "right"}, y |-> {block}]

GameInv ==
  quiet => \/ draw["game"] = Block("gap")
           \/ draw["game"] = Block("caset")
           \/ draw["game"] = Block("raset") /\ cols = {"inner", "right"}
           \/ draw["game"] = Block("ramwr") /\ cols = {"inner", "right"} /\ rows = {block}

IInv == TypeOK /\ ConsoleInv /\ QuietInv /\ GameInv /\ DrawnBlocksStay

\* A draw that has not begun, or has ended.
LEMMA NoDrawType == NoDraw \in Draw /\ NoDraw.phase = "none"
BY DEF NoDraw, Draw, Content

LEMMA InitInv == Init => IInv
<1> SUFFICES ASSUME Init PROVE IInv
  OBVIOUS
<1>1. TypeOK
  <2>1. draw \in [Task -> Draw]
    BY NoDrawType DEF Init
  <2>2. glass \in [Viewport -> Content]
    BY DEF Init, Content
  <2>3. block \in Band /\ line \in 0..LastLine + 1
    BY BandsAssumption DEF Init, Band, LastLine
  <2>4. /\ reading \in SUBSET Buffer /\ shown \in SUBSET Band
        /\ gap \in {0, 24} /\ cols \in SUBSET Zone /\ rows \in SUBSET Band
        /\ job \in {"idle", "clear", "card"} /\ quiet \in BOOLEAN
    BY DEF Init
  <2> QED BY <2>1, <2>2, <2>3, <2>4 DEF TypeOK
<1>2. draw["console"].phase = "none" /\ draw["game"].phase = "none"
  BY NoDrawType DEF Init, Task
<1> QED
  BY <1>1, <1>2 DEF Init, IInv, ConsoleInv, QuietInv, GameInv, DrawnBlocksStay

-----------------------------------------------------------------------------
\* A draw that is entered is well formed, and only its task's entry changes.
LEMMA EnterType ==
  ASSUME TypeOK, NEW t \in Task, NEW what \in Content \ {"noise"},
         NEW bands \in SUBSET Band, Enter(t, what, bands)
  PROVE  /\ draw' \in [Task -> Draw]
         /\ draw'[t] = [phase |-> "gap", what |-> what, x |-> From(what, gap), y |-> bands]
         /\ \A u \in Task \ {t} : draw'[u] = draw[u]
<1>1. From(what, gap) \in SUBSET Zone
  BY DEF From, Zone
<1>2. [phase |-> "gap", what |-> what, x |-> From(what, gap), y |-> bands] \in Draw
  BY <1>1 DEF Draw
<1> QED BY <1>2 DEF Enter, TypeOK

\* The next block is another one, in the other half of s_fb.
LEMMA NextBlockType ==
  ASSUME TypeOK
  PROVE  NextBlock \in Band /\ (block % 2 = 0 <=> NextBlock % 2 # 0)
<1>1. block \in 0..(Bands - 1) /\ Bands \in Nat \ {0} /\ Bands % 2 = 0
  BY BandsAssumption DEF TypeOK, Band
<1>2. NextBlock = IF block = Bands - 1 THEN 0 ELSE block + 1
  BY <1>1 DEF NextBlock
<1> QED BY <1>1, <1>2 DEF Band

\* What a call of draw_bitmap leaves when it returns, with or without an error.
LEMMA ReturnsFacts ==
  ASSUME IInv, NEW t \in Task, draw[t].phase # "none", Returns(t)
  PROVE  /\ draw' \in [Task -> Draw]
         /\ draw'[t].phase = "none"
         /\ \A u \in Task \ {t} : draw'[u] = draw[u]
         /\ block' \in Band /\ line' \in 0..LastLine + 1
         /\ job' \in {"idle", "clear", "card"} /\ quiet' \in BOOLEAN
         /\ ConsoleInv'
         /\ t = "console" => job # "idle" /\ shown = {} /\ ~quiet
<1>1. TypeOK /\ ConsoleInv /\ QuietInv
  BY DEF IInv
<1>2. /\ draw' \in [Task -> Draw]
      /\ draw'[t].phase = "none"
      /\ \A u \in Task \ {t} : draw'[u] = draw[u]
  BY <1>1, NoDrawType DEF TypeOK, Returns
<1>3. block' \in Band
  BY <1>1, NextBlockType DEF Returns, TypeOK
<1>4. line' \in 0..LastLine + 1
  <2>1. CASE t = "console" /\ job = "clear"
    <3>1. line' = line + 1 /\ line <= LastLine /\ line \in 0..LastLine + 1
      BY <1>1, <2>1 DEF Returns, ConsoleInv, TypeOK
    <3> QED BY <3>1, BandsAssumption DEF LastLine
  <2>2. CASE ~(t = "console" /\ job = "clear")
    BY <1>1, <2>2 DEF Returns, TypeOK
  <2> QED BY <2>1, <2>2
<1>5. job' \in {"idle", "clear", "card"} /\ quiet' \in BOOLEAN
  BY <1>1 DEF Returns, TypeOK
<1>6. t = "console" => job # "idle" /\ shown = {} /\ ~quiet
  BY <1>1 DEF ConsoleInv, QuietInv
<1>7. ConsoleInv'
  <2>1. CASE t = "console"
    <3>1. draw'["console"].phase = "none" /\ gap' = gap
      BY <1>2, <2>1 DEF Returns
    <3>2. job' # "clear" => job # "clear"
      BY <2>1 DEF Returns
    <3> QED BY <1>1, <3>1, <3>2 DEF ConsoleInv
  <2>2. CASE t = "game"
    <3>1. draw'["console"] = draw["console"] /\ UNCHANGED <<gap, job, line>>
      BY <1>2, <2>2 DEF Returns, Task
    <3> QED BY <1>1, <3>1 DEF ConsoleInv, LastLine
  <2> QED BY <2>1, <2>2 DEF Task
<1> QED BY <1>2, <1>3, <1>4, <1>5, <1>6, <1>7

-----------------------------------------------------------------------------
\* draw_bitmap returns: what has become of the windows and of the glass is known
\* only of the game's own draw, when no command has come between.
LEMMA ReturnsInv ==
  ASSUME IInv, NEW t \in Task,
         Pixels(t) \/ CasetFails(t) \/ RasetFails(t) \/ PixelsFail(t)
  PROVE  IInv'
<1>1. TypeOK /\ ConsoleInv /\ QuietInv /\ GameInv /\ DrawnBlocksStay
  BY DEF IInv
<1>2. Returns(t) /\ draw[t].phase \in {"caset", "raset", "ramwr"}
  BY DEF Pixels, CasetFails, RasetFails, PixelsFail
<1>3. /\ draw' \in [Task -> Draw]
      /\ draw'[t].phase = "none"
      /\ \A u \in Task \ {t} : draw'[u] = draw[u]
      /\ block' \in Band /\ line' \in 0..LastLine + 1
      /\ job' \in {"idle", "clear", "card"} /\ quiet' \in BOOLEAN
      /\ ConsoleInv'
      /\ t = "console" => job # "idle" /\ shown = {} /\ ~quiet
  BY <1>2, ReturnsFacts
<1>4. draw[t].x \in SUBSET Zone /\ draw[t].y \in SUBSET Band /\ draw[t].what \in Content
  BY <1>1 DEF TypeOK, Draw
<1>5. cols' \in SUBSET Zone /\ rows' \in SUBSET Band
  BY <1>1, <1>4 DEF TypeOK, Pixels, CasetFails, RasetFails, PixelsFail
<1>6. glass' \in [Viewport -> Content]
  <2>1. Picture(t) \in Content /\ "noise" \in Content
    BY <1>4 DEF Picture, Content
  <2>2. CASE Pixels(t)
    BY <1>1, <2>1, <2>2 DEF Pixels, TypeOK
  <2>3. CASE PixelsFail(t)
    BY <1>1, <2>1, <2>3 DEF PixelsFail, TypeOK
  <2>4. CASE CasetFails(t) \/ RasetFails(t)
    BY <1>1, <2>4 DEF CasetFails, RasetFails, TypeOK
  <2> QED BY <2>2, <2>3, <2>4
<1>7. reading' \in SUBSET Buffer
  <2>1. Source(t) \in SUBSET Buffer
    BY DEF Source, Buffer, BlockBuffer
  <2> QED BY <1>1, <2>1 DEF TypeOK, Pixels, CasetFails, RasetFails, PixelsFail
<1>8. shown' \in SUBSET Band
  BY <1>1 DEF TypeOK, Pixels, CasetFails, RasetFails, PixelsFail
<1>9. TypeOK'
  <2>1. gap' \in {0, 24}
    BY <1>1, <1>2 DEF TypeOK, Returns
  <2> QED BY <1>3, <1>5, <1>6, <1>7, <1>8, <2>1 DEF TypeOK
<1>10. CASE t = "console"
  <2>1. ~quiet' /\ shown' = {}
    BY <1>2, <1>3, <1>10 DEF Returns, Pixels, CasetFails, RasetFails, PixelsFail
  <2> QED BY <1>3, <1>9, <2>1 DEF IInv, QuietInv, GameInv, DrawnBlocksStay
<1>11. CASE t = "game"
  <2>1. ~quiet' /\ job' = job /\ draw'["game"].phase = "none"
    BY <1>2, <1>3, <1>11 DEF Returns
  <2>2. QuietInv'
    <3>1. \/ shown' = shown
          \/ shown' = shown \cup {block} /\ quiet
      <4>1. CASE Pixels(t)
        BY <4>1 DEF Pixels
      <4>2. CASE CasetFails(t) \/ RasetFails(t) \/ PixelsFail(t)
        BY <4>2 DEF CasetFails, RasetFails, PixelsFail
      <4> QED BY <4>1, <4>2
    <3> QED BY <1>1, <2>1, <3>1 DEF QuietInv
  <2>3. GameInv'
    BY <2>1 DEF GameInv
  <2>4. DrawnBlocksStay'
    <3> SUFFICES ASSUME NEW c \in Viewport, c[2] \in shown'
                 PROVE  glass'[c] = "game"
      BY DEF DrawnBlocksStay
    <3>1. quiet
      BY <1>1, <1>2, <1>11, NoDrawType
         DEF QuietInv, Pixels, CasetFails, RasetFails, PixelsFail
    <3>2. CASE Pixels("game") \/ PixelsFail("game")
      <4>1. draw["game"].phase = "ramwr"
        BY <3>2 DEF Pixels, PixelsFail
      <4>2. /\ draw["game"] = Block("ramwr")
            /\ cols = {"inner", "right"} /\ rows = {block}
        BY <1>1, <3>1, <4>1 DEF GameInv, Block
      <4>3. Picture("game") = "game"
        <5>1. draw["game"].what = "game" /\ draw["game"].y = {block}
              /\ draw["game"].x = {"inner", "right"}
          BY <4>2 DEF Block
        <5>2. Meant("game") = {"inner", "right"}
          BY DEF Meant, From, Until, Zone
        <5>3. ~Torn("game")
          BY <5>1 DEF Torn, Zone
        <5> QED BY <4>2, <5>1, <5>2, <5>3 DEF Picture, InPlace
      <4>4. InWindow(c) <=> c[2] = block
        BY <4>2 DEF InWindow, Viewport
      <4>5. CASE Pixels("game")
        <5>1. glass'[c] = IF InWindow(c) THEN "game" ELSE glass[c]
          BY <4>3, <4>5 DEF Pixels
        <5>2. shown' = shown \cup {block}
          BY <3>1, <4>5 DEF Pixels
        <5> QED BY <1>1, <4>4, <5>1, <5>2 DEF DrawnBlocksStay
      <4>6. CASE PixelsFail("game")
        <5>1. c[2] \in shown
          BY <4>6 DEF PixelsFail
        <5>2. glass[c] = "game"
          BY <1>1, <5>1 DEF DrawnBlocksStay
        <5>3. glass' = glass \/ glass'[c] = IF InWindow(c) /\ glass[c] # "game"
                                             THEN "noise" ELSE glass[c]
          BY <4>3, <4>6 DEF PixelsFail
        <5> QED BY <5>2, <5>3
      <4> QED BY <3>2, <4>5, <4>6
    <3>3. CASE CasetFails("game") \/ RasetFails("game")
      BY <1>1, <3>3 DEF CasetFails, RasetFails, DrawnBlocksStay
    <3> QED BY <1>11, <3>2, <3>3
  <2> QED BY <1>3, <1>9, <2>2, <2>3, <2>4 DEF IInv
<1> QED BY <1>10, <1>11 DEF Task

-----------------------------------------------------------------------------
\* The steps of a draw before its pixels, of either task.  While it is quiet
\* they are the game's, and both readings find the gap of the viewport.
LEMMA WindowInv ==
  ASSUME IInv, NEW t \in Task, Measures(t) \/ Caset(t) \/ Raset(t)
  PROVE  IInv'
<1>1. TypeOK /\ ConsoleInv /\ QuietInv /\ GameInv /\ DrawnBlocksStay
  BY DEF IInv
<1>2. draw[t] \in Draw /\ draw[t].x \in SUBSET Zone /\ draw[t].y \in SUBSET Band
  BY <1>1 DEF TypeOK, Draw
<1>3. /\ draw' \in [Task -> Draw]
      /\ draw'[t].phase \in {"caset", "raset", "ramwr"}
      /\ \A u \in Task \ {t} : draw'[u] = draw[u]
  <2>1. CASE Measures(t)
    BY <1>1, <1>2, <2>1 DEF Measures, TypeOK, Draw
  <2>2. CASE Caset(t)
    BY <1>1, <1>2, <2>2 DEF Caset, TypeOK, Draw
  <2>3. CASE Raset(t)
    BY <1>1, <1>2, <2>3 DEF Raset, TypeOK, Draw
  <2> QED BY <2>1, <2>2, <2>3
<1>4. UNCHANGED <<gap, glass, block, job, line, reading, quiet, shown>>
  BY DEF Measures, Caset, Raset
<1>5. TypeOK'
  <2>1. cols' \in SUBSET Zone /\ rows' \in SUBSET Band
    BY <1>1, <1>2 DEF Measures, Caset, Raset, TypeOK
  <2> QED BY <1>1, <1>3, <1>4, <2>1 DEF TypeOK
<1>6. draw[t].phase \in {"gap", "caset", "raset"}
  BY DEF Measures, Caset, Raset
<1>7. t = "console" => job # "idle" /\ ~quiet /\ shown = {}
  BY <1>1, <1>6 DEF ConsoleInv, QuietInv
<1>8. ConsoleInv'
  <2>1. CASE t = "console"
    BY <1>1, <1>3, <1>4, <1>6, <1>7, <2>1 DEF ConsoleInv, LastLine
  <2>2. CASE t = "game"
    BY <1>1, <1>3, <1>4, <2>2 DEF ConsoleInv, Task, LastLine
  <2> QED BY <2>1, <2>2 DEF Task
<1>9. QuietInv'
  BY <1>1, <1>3, <1>4, <1>6, <1>7 DEF QuietInv, Task
<1>10. GameInv'
  <2> SUFFICES ASSUME quiet PROVE GameInv'
    BY <1>4 DEF GameInv
  <2>1. t = "game" /\ gap = 24
    BY <1>1, <1>7 DEF Task, QuietInv, ConsoleInv
  <2>2. CASE Measures("game")
    <3>1. draw["game"] = Block("gap")
      BY <1>1, <2>2 DEF Measures, GameInv, Block
    <3>2. draw'["game"] = [draw["game"] EXCEPT !.phase = "caset",
                             !.x = draw["game"].x \cap Until(draw["game"].what, gap)]
      BY <1>1, <2>2 DEF Measures, TypeOK, Task
    <3>3. {"inner", "right"} \cap Until("game", gap) = {"inner", "right"}
      BY <2>1 DEF Until, Zone
    <3>4. draw["game"].x = {"inner", "right"} /\ draw["game"].what = "game"
      BY <3>1 DEF Block
    <3>5. draw'["game"] = [Block("gap") EXCEPT !.phase = "caset", !.x = {"inner", "right"}]
      BY <3>1, <3>2, <3>3, <3>4
    <3>6. draw'["game"] = Block("caset")
      BY <3>5 DEF Block
    <3> QED BY <1>4, <3>6 DEF GameInv, Block
  <2>3. CASE Caset("game")
    <3>1. draw["game"] = Block("caset")
      BY <1>1, <2>3 DEF Caset, GameInv, Block
    <3>2. draw'["game"] = [draw["game"] EXCEPT !.phase = "raset"]
      BY <1>1, <2>3 DEF Caset, TypeOK, Task
    <3>3. draw'["game"] = Block("raset") /\ cols' = {"inner", "right"}
      BY <2>3, <3>1, <3>2 DEF Block, Caset
    <3> QED BY <1>4, <3>3 DEF GameInv, Block
  <2>4. CASE Raset("game")
    <3>1. draw["game"] = Block("raset") /\ cols = {"inner", "right"}
      BY <1>1, <2>4 DEF Raset, GameInv, Block
    <3>2. draw'["game"] = [draw["game"] EXCEPT !.phase = "ramwr"]
      BY <1>1, <2>4 DEF Raset, TypeOK, Task
    <3>3. draw'["game"] = Block("ramwr") /\ rows' = {block} /\ cols' = cols
      BY <2>4, <3>1, <3>2 DEF Block, Raset
    <3> QED BY <1>4, <3>1, <3>3 DEF GameInv, Block
  <2> QED BY <2>1, <2>2, <2>3, <2>4
<1>11. DrawnBlocksStay'
  BY <1>1, <1>4 DEF DrawnBlocksStay
<1> QED BY <1>5, <1>8, <1>9, <1>10, <1>11 DEF IInv

LEMMA GameEntersInv ==
  ASSUME IInv, GameEnters
  PROVE  IInv'
<1>1. TypeOK /\ ConsoleInv /\ QuietInv /\ DrawnBlocksStay
  BY DEF IInv
<1>2. "game" \in Content \ {"noise"} /\ {block} \in SUBSET Band /\ "game" \in Task
  BY <1>1 DEF TypeOK, Content, Task
<1>3. Enter("game", "game", {block})
  BY DEF GameEnters
<1>4. /\ draw' \in [Task -> Draw]
      /\ draw'["game"] = [phase |-> "gap", what |-> "game", x |-> From("game", gap),
                          y |-> {block}]
      /\ draw'["console"] = draw["console"]
  BY <1>1, <1>2, <1>3, EnterType DEF Task
<1>5. /\ UNCHANGED <<gap, cols, rows, glass, block, job, line, reading, shown>>
      /\ quiet' = (job = "idle")
  BY DEF GameEnters
<1>6. TypeOK'
  BY <1>1, <1>4, <1>5 DEF TypeOK
<1>7. ConsoleInv' /\ DrawnBlocksStay'
  BY <1>1, <1>4, <1>5 DEF ConsoleInv, DrawnBlocksStay, LastLine
<1>8. QuietInv'
  <2>1. draw'["game"].phase # "none"
    BY <1>4
  <2>2. quiet' <=> job' = "idle"
    BY <1>5
  <2>3. shown' # {} => job' = "idle"
    BY <1>1, <1>5 DEF QuietInv
  <2> QED BY <2>1, <2>2, <2>3 DEF QuietInv
<1>9. GameInv'
  <2> SUFFICES ASSUME quiet' PROVE GameInv'
    BY DEF GameInv
  <2>1. From("game", gap) = {"inner", "right"}
    BY <1>1, <1>5 DEF ConsoleInv, From
  <2> QED BY <1>4, <1>5, <2>1 DEF GameInv, Block
<1> QED BY <1>6, <1>7, <1>8, <1>9 DEF IInv

\* A step of the command itself: nothing is quiet or shown while it runs.
LEMMA CommandInv ==
  ASSUME IInv, ClearBegins \/ ClearEnters \/ ClearEnds \/ CardEnters \/ NoCard
  PROVE  IInv'
<1>1. TypeOK /\ ConsoleInv /\ QuietInv /\ "console" \in Task /\ "game" \in Task
  BY DEF IInv, Task
<1>2. ~quiet' /\ shown' = {}
  BY <1>1 DEF QuietInv, ClearBegins, ClearEnters, ClearEnds, CardEnters, NoCard
<1>3. QuietInv' /\ GameInv' /\ DrawnBlocksStay'
  BY <1>2 DEF QuietInv, GameInv, DrawnBlocksStay
<1>4. draw' \in [Task -> Draw]
  <2>1. CASE ClearEnters
    <3>1. "black" \in Content \ {"noise"} /\ {line - 1} \cap Band \in SUBSET Band
      BY DEF Content
    <3> QED BY <1>1, <2>1, <3>1, EnterType DEF ClearEnters
  <2>2. CASE CardEnters
    <3>1. "card" \in Content \ {"noise"} /\ Band \in SUBSET Band
      BY DEF Content
    <3> QED BY <1>1, <2>2, <3>1, EnterType DEF CardEnters
  <2>3. CASE ClearBegins \/ ClearEnds \/ NoCard
    BY <1>1, <2>3 DEF TypeOK, ClearBegins, ClearEnds, NoCard
  <2> QED BY <2>1, <2>2, <2>3
<1>5. /\ gap' \in {0, 24} /\ job' \in {"idle", "clear", "card"} /\ quiet' \in BOOLEAN
      /\ UNCHANGED <<cols, rows, glass, block, reading>>
  BY <1>1 DEF TypeOK, ClearBegins, ClearEnters, ClearEnds, CardEnters, NoCard
<1>6. line' \in 0..LastLine + 1
  BY <1>1, BandsAssumption
     DEF TypeOK, LastLine, ClearBegins, ClearEnters, ClearEnds, CardEnters, NoCard
<1>7. TypeOK'
  BY <1>1, <1>2, <1>4, <1>5, <1>6 DEF TypeOK
<1>8. ConsoleInv'
  <2>1. job' # "clear" => gap' = 24
    BY <1>1 DEF ConsoleInv, ClearBegins, ClearEnters, ClearEnds, CardEnters, NoCard
  <2>2. job' = "idle" => draw'["console"].phase = "none"
    BY DEF ClearBegins, ClearEnters, ClearEnds, CardEnters, NoCard
  <2>3. job' = "clear" /\ draw'["console"].phase # "none" => line' <= LastLine
    <3>1. CASE ClearBegins
      BY <1>1, <3>1 DEF ConsoleInv, ClearBegins
    <3>2. CASE ClearEnters
      BY <3>2 DEF ClearEnters
    <3>3. CASE ClearEnds \/ CardEnters \/ NoCard
      BY <3>3 DEF ClearEnds, CardEnters, NoCard
    <3> QED BY <3>1, <3>2, <3>3
  <2> QED BY <2>1, <2>2, <2>3 DEF ConsoleInv, LastLine
<1> QED BY <1>3, <1>7, <1>8 DEF IInv

LEMMA NextInv == IInv /\ [Next]_vars => IInv'
<1> SUFFICES ASSUME IInv, [Next]_vars PROVE IInv'
  OBVIOUS
<1>1. ASSUME NEW t \in Task, DrawStep(t) PROVE IInv'
  BY <1>1, WindowInv, ReturnsInv DEF DrawStep
<1>2. CASE Game
  BY <1>1, <1>2, GameEntersInv DEF Game, Task
<1>3. CASE Console \/ ClearBegins
  BY <1>1, <1>3, CommandInv DEF Console, Task
<1>4. CASE DmaEnds
  <2>1. UNCHANGED <<gap, cols, rows, glass, draw, block, job, line, quiet, shown>>
    BY <1>4 DEF DmaEnds
  <2>2. TypeOK'
    BY <1>4, <2>1 DEF DmaEnds, IInv, TypeOK
  <2> QED
    BY <2>1, <2>2 DEF IInv, ConsoleInv, QuietInv, GameInv, DrawnBlocksStay, Block, LastLine
<1>5. CASE UNCHANGED vars
  BY <1>5 DEF vars, IInv, TypeOK, ConsoleInv, QuietInv, GameInv, DrawnBlocksStay,
              Block, LastLine
<1> QED BY <1>2, <1>3, <1>4, <1>5 DEF Next

-----------------------------------------------------------------------------
\* Only the game's own pixels put a block's buffer into the driver's hands, and
\* the next block has the other one.
LEMMA BufferStep ==
  ASSUME IInv, BlockIsNotOverwritten, [Next]_vars
  PROVE  BlockIsNotOverwritten'
<1>1. TypeOK /\ "game" \in Task /\ "console" \in Task
  BY DEF IInv, Task
<1>2. ASSUME reading' = reading \/ reading' = {}, block' = block,
             draw'["game"].phase = "none" => draw["game"].phase = "none"
      PROVE  BlockIsNotOverwritten'
  BY <1>2 DEF BlockIsNotOverwritten, BlockBuffer
<1>3. CASE GameEnters
  <2>1. draw'["game"].phase = "gap"
    BY <1>1, <1>3 DEF GameEnters, Enter, TypeOK
  <2> QED BY <2>1 DEF BlockIsNotOverwritten
<1>4. ASSUME NEW t \in Task, Measures(t) \/ Caset(t) \/ Raset(t)
      PROVE  BlockIsNotOverwritten'
  <2>1. UNCHANGED <<reading, block>>
    BY <1>4 DEF Measures, Caset, Raset
  <2>2. draw'["game"].phase = "none" => draw["game"].phase = "none"
    BY <1>1, <1>4 DEF Measures, Caset, Raset, TypeOK, Draw, Task
  <2> QED BY <1>2, <2>1, <2>2
<1>5. CASE CasetFails("game") \/ RasetFails("game")
  <2>1. reading' = {}
    BY <1>5 DEF CasetFails, RasetFails, BusIsFree
  <2> QED BY <2>1 DEF BlockIsNotOverwritten
<1>6. CASE Pixels("game") \/ PixelsFail("game")
  <2>1. reading' = Source("game") \/ reading' = {}
    BY <1>6 DEF Pixels, PixelsFail, BusIsFree
  <2>2. Source("game") = {BlockBuffer} \/ Source("game") = {BlockBuffer, "odd"}
    BY DEF Source
  <2>3. block' = NextBlock
    BY <1>6 DEF Pixels, PixelsFail, Returns
  <2>4. BlockBuffer = "even" <=> BlockBuffer' = "odd"
    BY <1>1, <2>3, NextBlockType DEF BlockBuffer
  <2>5. BlockBuffer \in {"even", "odd"} /\ BlockBuffer' \in {"even", "odd"}
    BY DEF BlockBuffer
  <2> QED BY <2>1, <2>2, <2>4, <2>5 DEF BlockIsNotOverwritten
<1>7. CASE Pixels("console") \/ CasetFails("console") \/ RasetFails("console")
           \/ PixelsFail("console")
  <2>1. reading' = {} \/ reading' = {"row"} \/ reading' = {"card"}
    BY <1>7 DEF Pixels, CasetFails, RasetFails, PixelsFail, BusIsFree, Source
  <2> QED BY <2>1 DEF BlockIsNotOverwritten, BlockBuffer
<1>8. CASE ClearEnters \/ CardEnters
  <2>1. UNCHANGED <<reading, block>> /\ draw'["game"] = draw["game"]
    BY <1>1, <1>8 DEF ClearEnters, CardEnters, Enter, TypeOK
  <2> QED BY <1>2, <2>1
<1>9. CASE ClearBegins \/ ClearEnds \/ NoCard \/ DmaEnds \/ UNCHANGED vars
  BY <1>2, <1>9 DEF ClearBegins, ClearEnds, NoCard, DmaEnds, vars
<1>10. ASSUME NEW t \in Task, DrawStep(t) PROVE BlockIsNotOverwritten'
  BY <1>4, <1>5, <1>6, <1>7, <1>10 DEF DrawStep, Task
<1> QED BY <1>1, <1>3, <1>8, <1>9, <1>10 DEF Next, Game, Console

-----------------------------------------------------------------------------
LEMMA Invariant == Spec => []IInv
BY InitInv, NextInv, PTL DEF Spec

\* The windows, the glass and the draws keep their types.
THEOREM TypeCorrect == Spec => []TypeOK
<1>1. IInv => TypeOK
  BY DEF IInv
<1> QED BY Invariant, <1>1, PTL

\* A block that has been drawn since the last `lcd' command is seen until the
\* next one (w4_windowComposite), whatever the windows and the glass were before
\* and whichever transactions fail.
THEOREM BlocksStay == Spec => []DrawnBlocksStay
<1>1. IInv => DrawnBlocksStay
  BY DEF IInv
<1> QED BY Invariant, <1>1, PTL

\* No block of the game is composed in the buffer the driver still reads (s_fb
\* of w4_windowComposite), whatever the console sends in between and whatever
\* fails, but where a changing gap has made the block before too long.
THEOREM NotOverwritten == Spec => []BlockIsNotOverwritten
<1>1. Init => BlockIsNotOverwritten
  BY DEF Init, BlockIsNotOverwritten, BlockBuffer
<1>2. IInv /\ BlockIsNotOverwritten /\ [Next]_vars => BlockIsNotOverwritten'
  BY BufferStep
<1> QED BY <1>1, <1>2, Invariant, PTL DEF Spec
=============================================================================
