---------------------------- MODULE Framebuffer -----------------------------
(***************************************************************************)
(* components/game_app/framebuffer.c: the drawing calls, on a framebuffer  *)
(* that packs four pixels into a byte, and the way w4_windowComposite      *)
(* (display.c) reads it.  Every call clips its shape to the screen.        *)
(*                                                                         *)
(* A write goes to its place in memory whether or not the framebuffer has  *)
(* one there.  A sprite sheet is a function from the index of a pixel to   *)
(* its colour index, which the code takes out of one or two bits.          *)
(* An operator named X_Something is a plausible mistake in X.              *)
(***************************************************************************)
EXTENDS Curves, Sequences

CONSTANTS
  Width, Height,   \* 160 and 160
  Glyph, Font,     \* 8, and the sprite sheet of the characters
  Calls,           \* the drawing calls to consider, with their arguments
  Colors           \* what the cartridge puts into its draw colours

VARIABLES
  framebuffer,   \* <<byte, pixel of it>> -> colour
  drawColors,    \* the four nibbles of drawColors[0] and drawColors[1]
  call           \* history: the last call

vars == <<framebuffer, drawColors, call>>

Place  == (0..((Width * Height) \div 4 - 1)) \X (0..3)
Colour == 0..3
Nibble == 0..15

ClearCall == [op |-> "clear"]

\* A byte holds four pixels of one row.
ASSUME SizeAssumption == Width \in Nat \ {0} /\ Height \in Nat \ {0} /\ Width % 4 = 0

\* Rectangles and ovals of no width or height are left out: the code draws some
\* points of them, and the cartridge has none.
Box == [op : {"rect", "oval"}, x : Int, y : Int, width : Nat \ {0}, height : Nat \ {0}]

Straight ==
  [op : {"hline", "vline"}, x : Int, y : Int, len : Int]
    \cup [op : {"line"}, x1 : Int, y1 : Int, x2 : Int, y2 : Int]

\* The pixels of a picture are in its sheet.
IsPicture(c) ==
  /\ c.x \in Int /\ c.y \in Int /\ c.width \in Nat /\ c.height \in Nat
  /\ c.srcX \in Nat /\ c.srcY \in Nat /\ c.stride \in Nat
  /\ c.flipX \in BOOLEAN /\ c.flipY \in BOOLEAN /\ c.rotate \in BOOLEAN
  /\ \A u \in 0..(c.width - 1), v \in 0..(c.height - 1) :
       c.sprite[(c.srcY + v) * c.stride + c.srcX + u] \in 0..3

IsText(c) == c.x \in Int /\ c.y \in Int /\ c.str \in Seq(Nat)

ASSUME CallsAssumption ==
  \A c \in Calls :
    \/ c \in Box \cup Straight
    \/ c.op = "blit" /\ IsPicture(c)
    \/ c.op = "text" /\ IsText(c)

\* There are 224 characters, from the blank on.
ASSUME FontAssumption ==
  /\ Glyph \in Nat \ {0}
  /\ \A i \in 0..(224 * Glyph * Glyph - 1) : Font[i] \in 0..3

ASSUME ColorsAssumption == Colors \subseteq [0..3 -> Nibble]

TypeOK ==
  /\ framebuffer \in [Place -> Colour]
  /\ drawColors \in [0..3 -> Nibble]
  /\ call \in Calls \cup {ClearCall}

\* w4_runtimeInit.
Init ==
  /\ framebuffer = [s \in Place |-> 0]
  /\ drawColors = [k \in 0..3 |-> <<3, 0, 2, 1>>[k + 1]]
  /\ call = ClearCall

Smaller(a, b) == IF a < b THEN a ELSE b
Larger(a, b)  == IF a > b THEN a ELSE b

\* The colour that nibble k selects.
Colored(k) == (drawColors[k] - 1) % 4

-----------------------------------------------------------------------------
\* drawPoint: the byte and the pixel of it that point <<x, y>> is in.
At(x, y) == <<(Width * y + x) \div 4, x % 4>>

\* Memory m once the places at have colour c.
Written(m, at, c) ==
  [s \in DOMAIN m \cup at |-> IF s \in at THEN c ELSE m[s]]

Column(x, startY, endY) == {At(x, y) : y \in startY..(endY - 1)}

\* Mistake: the aligned part begins at the byte the line starts in.
Row_FromByte(startX, y, endX) ==
  LET fillEnd   == endX - (endX % 4)
      fillStart == Smaller(startX - (startX % 4), fillEnd)
  IN  IF fillEnd - fillStart > 3
        THEN (((Width * y + fillStart) \div 4) .. ((Width * y + fillEnd) \div 4 - 1)) \X (0..3)
             \cup {At(x, y) : x \in fillEnd..(endX - 1)}
        ELSE {At(x, y) : x \in startX..(endX - 1)}

\* drawHLine: whole bytes at once where there are some, the rest point by
\* point.
Row(startX, y, endX) ==
  LET fillEnd   == endX - (endX % 4)
      fillStart == Smaller(startX + 3 - ((startX + 3) % 4), fillEnd)
  IN  IF fillEnd - fillStart > 3
        THEN {At(x, y) : x \in startX..(fillStart - 1)}
             \cup (((Width * y + fillStart) \div 4) .. ((Width * y + fillEnd) \div 4 - 1)) \X (0..3)
             \cup {At(x, y) : x \in fillEnd..(endX - 1)}
        ELSE {At(x, y) : x \in startX..(endX - 1)}

\* drawHLineUnclipped.
UnclippedRow(startX, y, endX) ==
  IF y \in 0..(Height - 1) /\ Larger(0, startX) < Smaller(Width, endX)
    THEN Row(Larger(0, startX), y, Smaller(Width, endX)) ELSE {}

Rows(startX, startY, endX, endY) == UNION {Row(startX, y, endX) : y \in startY..(endY - 1)}

-----------------------------------------------------------------------------
Clear == framebuffer' = [s \in Place |-> 0]

HLine(c) ==
  IF drawColors[0] = 0 THEN UNCHANGED framebuffer
  ELSE framebuffer' = Written(framebuffer, UnclippedRow(c.x, c.y, c.x + c.len), Colored(0))

VLine(c) ==
  IF drawColors[0] = 0 \/ c.y + c.len <= 0 \/ c.x < 0 \/ c.x >= Width
    THEN UNCHANGED framebuffer
    ELSE framebuffer' =
           Written(framebuffer,
                   Column(c.x, Larger(0, c.y), Smaller(Height, c.y + c.len)), Colored(0))

\* The outline of a rectangle, of which an edge off the screen is left out.
Edges(c, startX, startY, endX, endY) ==
  UNION {
    IF c.x >= 0 /\ c.x < Width THEN Column(c.x, startY, endY) ELSE {},
    IF c.x + c.width > 0 /\ c.x + c.width <= Width
      THEN Column(c.x + c.width - 1, startY, endY) ELSE {},
    IF c.y >= 0 /\ c.y < Height THEN Row(startX, c.y, endX) ELSE {},
    IF c.y + c.height > 0 /\ c.y + c.height <= Height
      THEN Row(startX, c.y + c.height - 1, endX) ELSE {}}

Rect(c) ==
  LET startX == Larger(0, c.x)
      startY == Larger(0, c.y)
      endX   == Larger(0, Smaller(c.x + c.width, Width))
      endY   == Larger(0, Smaller(c.y + c.height, Height))
      filled == IF drawColors[0] = 0 THEN framebuffer
                ELSE Written(framebuffer, Rows(startX, startY, endX, endY), Colored(0))
  IN  framebuffer' =
        IF drawColors[1] = 0 THEN filled
        ELSE Written(filled, Edges(c, startX, startY, endX, endY), Colored(1))

\* drawPointUnclipped: the places of those points that are on the screen.
OnScreen(points) ==
  {At(p[1], p[2]) : p \in {q \in points : q[1] \in 0..(Width - 1) /\ q[2] \in 0..(Height - 1)}}

Line(c) ==
  IF drawColors[0] = 0 THEN UNCHANGED framebuffer
  ELSE framebuffer' = Written(framebuffer, OnScreen(LinePoints(c)), Colored(0))

\* Memory m after an iteration of an oval's loops: the filling, where there is
\* any, goes on top.
OvalIteration(c, s, m) ==
  LET outlined == Written(m, OnScreen(OutlineOf(c, s)), Colored(1))
      rows     == UNION {UnclippedRow(s.west + 1, y, s.east) : y \in {s.north, s.south}}
  IN  IF Scanning(s) /\ drawColors[0] # 0 /\ s.east - (s.west + 1) > 0
        THEN Written(outlined, rows, Colored(0)) ELSE outlined

Oval(c) ==
  LET loop == OvalLoop(c)
      after[n \in Nat] ==
        IF n = 0 THEN framebuffer ELSE OvalIteration(c, loop[n - 1], after[n - 1])
  IN  framebuffer' = IF drawColors[1] = 15 THEN framebuffer
                     ELSE after[c.width + c.height + 1]

\* Mistake: a rotated picture is clipped like one that is not.
Clipped_Unturned(c) ==
  ((Larger(0, c.x) - c.x) .. (Smaller(c.width, Width - c.x) - 1))
    \X ((Larger(0, c.y) - c.y) .. (Smaller(c.height, Height - c.y) - 1))

\* The pixels of a blit that are on the screen: with `rotate', x runs down the
\* screen.
Clipped(c) ==
  LET acrossX == IF c.rotate THEN c.y ELSE c.x
      acrossY == IF c.rotate THEN c.x ELSE c.y
      limitX  == IF c.rotate THEN Height ELSE Width
      limitY  == IF c.rotate THEN Width ELSE Height
  IN  ((Larger(0, acrossX) - acrossX) .. (Smaller(c.width, limitX - acrossX) - 1))
        \X ((Larger(0, acrossY) - acrossY) .. (Smaller(c.height, limitY - acrossY) - 1))

Target(c, q) == IF c.rotate THEN <<c.x + q[2], c.y + q[1]>> ELSE <<c.x + q[1], c.y + q[2]>>

Sample(c, q) ==
  LET sx == c.srcX + (IF c.flipX # c.rotate THEN c.width - q[1] - 1 ELSE q[1])
      sy == c.srcY + (IF c.flipY THEN c.height - q[2] - 1 ELSE q[2])
  IN  c.sprite[sy * c.stride + sx]

\* Memory m after a blit.
Blitted(m, c) ==
  LET drawn      == {q \in Clipped(c) : drawColors[Sample(c, q)] # 0}
      PlaceOf(q) == At(Target(c, q)[1], Target(c, q)[2])
      at         == {PlaceOf(q) : q \in drawn}
  IN  [s \in DOMAIN m \cup at |->
         IF s \in at THEN Colored(Sample(c, CHOOSE q \in drawn : PlaceOf(q) = s)) ELSE m[s]]

Blit(c) == framebuffer' = Blitted(framebuffer, c)

\* The picture of a character.
Character(ch, x, y) ==
  [x |-> x, y |-> y, width |-> Glyph, height |-> Glyph, srcX |-> 0,
   srcY |-> (ch - 32) * Glyph, stride |-> Glyph, sprite |-> Font,
   flipX |-> FALSE, flipY |-> FALSE, rotate |-> FALSE]

\* Where the next character goes after ch at `at'.
Advance(c, ch, at) ==
  IF ch = 10 THEN <<c.x, at[2] + Glyph>> ELSE <<at[1] + Glyph, at[2]>>

\* The three encodings of a string differ in how a character is read, and only
\* UTF-16 has one above 255.
Text(c) ==
  LET at[n \in 0..Len(c.str)] ==
        IF n = 0 THEN <<c.x, c.y>> ELSE Advance(c, c.str[n], at[n - 1])
      after[n \in 0..Len(c.str)] ==
        IF n = 0 THEN framebuffer
        ELSE IF c.str[n] \notin 32..255 THEN after[n - 1]
        ELSE Blitted(after[n - 1], Character(c.str[n], at[n - 1][1], at[n - 1][2]))
  IN  framebuffer' = after[Len(c.str)]

-----------------------------------------------------------------------------
Draw(c) ==
  /\ call' = c
  /\ UNCHANGED drawColors
  /\ \/ c.op = "clear" /\ Clear
     \/ c.op = "hline" /\ HLine(c)
     \/ c.op = "vline" /\ VLine(c)
     \/ c.op = "rect"  /\ Rect(c)
     \/ c.op = "line"  /\ Line(c)
     \/ c.op = "oval"  /\ Oval(c)
     \/ c.op = "blit"  /\ Blit(c)
     \/ c.op = "text"  /\ Text(c)

\* The cartridge writes the draw colours.
SetColors(colors) ==
  /\ drawColors' = colors
  /\ UNCHANGED <<framebuffer, call>>

Next ==
  \/ \E c \in Calls \cup {ClearCall} : Draw(c)
  \/ \E colors \in Colors : SetColors(colors)

Spec == Init /\ [][Next]_vars

-----------------------------------------------------------------------------
\* w4_windowComposite: the colour shown at point <<x, y>>.
Shown(x, y) ==
  LET i == y * Width + x
  IN  framebuffer[<<i \div 4, i % 4>>]

Glass == INSTANCE Canvas WITH
  screen <- [p \in (0..(Width - 1)) \X (0..(Height - 1)) |-> Shown(p[1], p[2])],
  pens   <- drawColors

\* A drawing call changes what is shown exactly as its shape, cut to the screen,
\* says, wherever the shape lies and however its bytes are filled; and it writes
\* nowhere else, for every place of memory is a point of the screen.
ImplementsCanvas == Glass!Spec

\* The loops of lines and ovals draw what their callers mean by a line and an
\* oval; see Curves.
LinesAreStraight == call.op = "line" => IsStraight(call)
LinesAreThinAndWhole == call.op = "line" => IsThinAndWhole(call)
OvalsAreRound == call.op = "oval" => IsRound(call)
OvalsAreWhole == call.op = "oval" => IsWhole(call)
=============================================================================
