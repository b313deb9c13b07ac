------------------------------- MODULE Canvas -------------------------------
(***************************************************************************)
(* What the drawing calls of the console promise the cartridge: a screen   *)
(* of points, of which each call colours those of its shape that lie on    *)
(* the screen, and no other.  Framebuffer is shown to implement this.      *)
(***************************************************************************)
EXTENDS Integers, Sequences, FiniteSets

CONSTANTS
  Width, Height,
  Glyph,        \* characters are Glyph by Glyph points
  Font,         \* the sprite sheet of the characters, one below the other
  LinePoints(_),           \* the points of a line
  Outline(_), Fill(_)      \* and those of an oval

VARIABLES
  screen,   \* <<x, y>> -> colour
  pens,     \* the four draw colours: 0 draws nothing
  call      \* the last call, with its arguments

canvasVars == <<screen, pens, call>>

Point == (0..(Width - 1)) \X (0..(Height - 1))

\* The colour of pen k.
Ink(k) == (pens[k] - 1) % 4

Init ==
  /\ screen = [p \in Point |-> 0]
  /\ pens \in [0..3 -> 0..15]
  /\ call = [op |-> "clear"]

-----------------------------------------------------------------------------
Clear == screen' = [p \in Point |-> 0]

\* The points of a shape are coloured with pen 0.
Stroke(shape) ==
  screen' = [p \in Point |-> IF pens[0] # 0 /\ p \in shape THEN Ink(0) ELSE screen[p]]

HLine(c) == Stroke({p \in Point : p[2] = c.y /\ p[1] >= c.x /\ p[1] < c.x + c.len})

VLine(c) == Stroke({p \in Point : p[1] = c.x /\ p[2] >= c.y /\ p[2] < c.y + c.len})

\* Pen 0 fills the rectangle, pen 1 draws its outline over it.
Rect(c) ==
  LET Inside == {p \in Point : /\ p[1] >= c.x /\ p[1] < c.x + c.width
                               /\ p[2] >= c.y /\ p[2] < c.y + c.height}
      Edge   == {p \in Inside : \/ p[1] \in {c.x, c.x + c.width - 1}
                                \/ p[2] \in {c.y, c.y + c.height - 1}}
  IN  screen' = [p \in Point |->
                   IF pens[1] # 0 /\ p \in Edge THEN Ink(1)
                   ELSE IF pens[0] # 0 /\ p \in Inside THEN Ink(0)
                   ELSE screen[p]]

Line(c) == Stroke(LinePoints(c))

\* Pen 1 draws the outline over the filling of pen 0.  There is always an outline,
\* and pen 15 there stands for no oval at all.
Oval(c) ==
  LET outline == Outline(c)
      fill    == Fill(c)
  IN  screen' = [p \in Point |->
                   IF pens[1] = 15 THEN screen[p]
                   ELSE IF p \in outline THEN Ink(1)
                   ELSE IF pens[0] # 0 /\ p \in fill THEN Ink(0)
                   ELSE screen[p]]

\* Where pixel q of a picture is put: it is flipped first, and then turned a
\* quarter turn counter-clockwise.
Placed(c, q) ==
  LET u == IF c.flipX THEN c.width - 1 - q[1] ELSE q[1]
      v == IF c.flipY THEN c.height - 1 - q[2] ELSE q[2]
  IN  IF c.rotate THEN <<c.x + v, c.y + c.width - 1 - u>> ELSE <<c.x + u, c.y + v>>

\* The pen of pixel q of the picture, which is cut out of a sprite sheet.
PenOf(c, q) == c.sprite[(c.srcY + q[2]) * c.stride + c.srcX + q[1]]

Blit(c) ==
  LET Pixel == (0..(c.width - 1)) \X (0..(c.height - 1))
      Under(p) == {q \in Pixel : Placed(c, q) = p /\ pens[PenOf(c, q)] # 0}
  IN  screen' = [p \in Point |->
                   IF Under(p) = {} THEN screen[p]
                   ELSE Ink(PenOf(c, CHOOSE q \in Under(p) : TRUE))]

\* Characters stand in a grid of Glyph by Glyph cells; character 10 begins a new
\* line of it, and one outside 32..255 is blank.
Breaks(c, n) == {m \in 1..(n - 1) : c.str[m] = 10}

LastBreak(c, n) == CHOOSE m \in {0} \cup Breaks(c, n) : \A l \in Breaks(c, n) : l <= m

Left(c, n)  == c.x + (n - 1 - LastBreak(c, n)) * Glyph
Upper(c, n) == c.y + Cardinality(Breaks(c, n)) * Glyph

Cell(c, n) ==
  (Left(c, n)..(Left(c, n) + Glyph - 1)) \X (Upper(c, n)..(Upper(c, n) + Glyph - 1))

\* The pen of the point p of character n.
PenIn(c, n, p) ==
  Font[((c.str[n] - 32) * Glyph + p[2] - Upper(c, n)) * Glyph + p[1] - Left(c, n)]

Text(c) ==
  LET Under(p) == {n \in 1..Len(c.str) : c.str[n] \in 32..255 /\ p \in Cell(c, n)}
  IN  screen' = [p \in Point |->
                   LET n == CHOOSE n \in Under(p) : TRUE
                   IN  IF Under(p) # {} /\ pens[PenIn(c, n, p)] # 0 THEN Ink(PenIn(c, n, p))
                       ELSE screen[p]]

-----------------------------------------------------------------------------
Draws(c) ==
  /\ UNCHANGED pens
  /\ \/ c.op = "clear" /\ Clear
     \/ c.op = "hline" /\ HLine(c)
     \/ c.op = "vline" /\ VLine(c)
     \/ c.op = "rect"  /\ Rect(c)
     \/ c.op = "line"  /\ Line(c)
     \/ c.op = "oval"  /\ Oval(c)
     \/ c.op = "blit"  /\ Blit(c)
     \/ c.op = "text"  /\ Text(c)

SetPens == pens' \in [0..3 -> 0..15] /\ UNCHANGED <<screen, call>>

Next == SetPens \/ Draws(call')

Spec == Init /\ [][Next]_canvasVars
=============================================================================
