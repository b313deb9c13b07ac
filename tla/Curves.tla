------------------------------- MODULE Curves -------------------------------
(***************************************************************************)
(* components/game_app/framebuffer.c: the loops of w4_framebufferLine and  *)
(* w4_framebufferOval.  A loop is a function from the number of iterations *)
(* to the values its variables then have, which a loop that has been left  *)
(* keeps; it is followed for no more iterations than there are rows and    *)
(* columns.  Clipping and colours are left to Framebuffer.                 *)
(*                                                                         *)
(* An operator named X_Something is a plausible mistake in X.              *)
(***************************************************************************)
EXTENDS Integers

Abs(n) == IF n < 0 THEN -n ELSE n

-----------------------------------------------------------------------------
(* Lines: [x1, y1, x2, y2]. *)

\* A line that goes up is drawn from its other end.
Downward(c) ==
  IF c.y1 > c.y2 THEN [x1 |-> c.x2, y1 |-> c.y2, x2 |-> c.x1, y2 |-> c.y1]
                 ELSE [x1 |-> c.x1, y1 |-> c.y1, x2 |-> c.x2, y2 |-> c.y2]

Dx(l) == Abs(l.x2 - l.x1)
Dy(l) == l.y2 - l.y1
Sx(l) == IF l.x1 < l.x2 THEN 1 ELSE -1

\* C rounds towards zero.
Half(n) == IF n < 0 THEN -((-n) \div 2) ELSE n \div 2

\* Mistake: the end is looked for in one coordinate.
AtEnd_AnyAxis(l, s) == s.x = l.x2 \/ s.y = l.y2

AtEnd(l, s) == s.x = l.x2 /\ s.y = l.y2

StepsAcross(l, s) == s.err > -Dx(l)

\* Mistake: the second test looks at the error as the first has left it.
StepsDown_NewError(l, s) == (IF StepsAcross(l, s) THEN s.err - Dy(l) ELSE s.err) < Dy(l)

StepsDown(l, s) == s.err < Dy(l)

LineStep(l, s) ==
  [x   |-> IF StepsAcross(l, s) THEN s.x + Sx(l) ELSE s.x,
   y   |-> IF StepsDown(l, s) THEN s.y + 1 ELSE s.y,
   err |-> s.err - (IF StepsAcross(l, s) THEN Dy(l) ELSE 0)
                 + (IF StepsDown(l, s) THEN Dx(l) ELSE 0)]

LineStart(l) ==
  [x |-> l.x1, y |-> l.y1, err |-> Half(IF Dx(l) > Dy(l) THEN Dx(l) ELSE -Dy(l))]

LineAfter(l, s) == IF AtEnd(l, s) THEN s ELSE LineStep(l, s)

LineLoop(l) ==
  LET s[n \in Nat] == IF n = 0 THEN LineStart(l) ELSE LineAfter(l, s[n - 1])
  IN  s

Iterations(l) == 0..(Dx(l) + Dy(l))

LinePoints(c) ==
  LET l == Downward(c)
  IN  {<<LineLoop(l)[n].x, LineLoop(l)[n].y>> : n \in Iterations(l)}

-----------------------------------------------------------------------------
(* Ovals: [x, y, width, height]. *)

A(c)  == c.width - 1
B(c)  == c.height - 1
B1(c) == B(c) % 2

\* Mistake: the loss of precision is made up for twice.
South_Twice(c) == c.y + B(c) \div 2 - B1(c)

South(c) == c.y + c.height \div 2 - B1(c)

ScansDown(s) == 2 * s.err <= s.dy

\* The tests look at the error before it has moved, but the last one sees the
\* new dy.
DyAfter(c, s) == IF ScansDown(s) THEN s.dy + 8 * A(c) * A(c) ELSE s.dy

ScansAcross(c, s) == 2 * s.err >= s.dx \/ 2 * s.err > DyAfter(c, s)

\* The first loop.
Scanning(s) == s.west <= s.east

Scan(c, s) ==
  LET dx == IF ScansAcross(c, s) THEN s.dx + 8 * B(c) * B(c) ELSE s.dx
      dy == DyAfter(c, s)
      down   == IF ScansDown(s) THEN 1 ELSE 0
      across == IF ScansAcross(c, s) THEN 1 ELSE 0
  IN  [north |-> s.north + down, south |-> s.south - down,
       west |-> s.west + across, east |-> s.east - across,
       dx |-> dx, dy |-> dy, err |-> s.err + down * dy + across * dx]

\* Mistake: the second loop stops a row early.
TipsMissing_Early(c, s) == s.north - s.south < c.height - 1

\* The second loop, which completes the tips of a narrow oval.
TipsMissing(c, s) == s.north - s.south < c.height

Tip(s) == [s EXCEPT !.north = @ + 1, !.south = @ - 1]

OvalStart(c) ==
  LET dx == 4 * (1 - A(c)) * B(c) * B(c)
      dy == 4 * (B1(c) + 1) * A(c) * A(c)
  IN  [north |-> c.y + c.height \div 2, south |-> South(c),
       west |-> c.x, east |-> c.x + A(c),
       dx |-> dx, dy |-> dy, err |-> dx + dy + B1(c) * A(c) * A(c)]

OvalAfter(c, s) ==
  IF Scanning(s) THEN Scan(c, s) ELSE IF TipsMissing(c, s) THEN Tip(s) ELSE s

OvalLoop(c) ==
  LET s[n \in Nat] == IF n = 0 THEN OvalStart(c) ELSE OvalAfter(c, s[n - 1])
  IN  s

\* What an iteration draws with either pen.
OutlineOf(c, s) ==
  IF Scanning(s) THEN {s.west, s.east} \X {s.north, s.south}
  ELSE IF TipsMissing(c, s) THEN {s.west - 1, s.east + 1} \X {s.north, s.south}
  ELSE {}

FillOf(s) ==
  IF Scanning(s) THEN ((s.west + 1)..(s.east - 1)) \X {s.north, s.south} ELSE {}

Laps(c) == 0..(c.width + c.height)

Outline(c) == UNION {OutlineOf(c, OvalLoop(c)[n]) : n \in Laps(c)}
Fill(c)    == UNION {FillOf(OvalLoop(c)[n]) : n \in Laps(c)}

-----------------------------------------------------------------------------
(* What the loops are for. *)

Reach(l) == IF Dx(l) > Dy(l) THEN Dx(l) ELSE Dy(l)

\* A line leads straight from one end to the other: every point is half a pixel
\* or less from it, measured along the shorter axis.
IsStraight(c) ==
  LET l == Downward(c)
  IN  \A p \in LinePoints(c) :
        2 * Abs((p[1] - l.x1) * Sx(l) * Dy(l) - (p[2] - l.y1) * Dx(l)) <= Reach(l)

\* The loop, which is left only where both coordinates meet the end, does not run
\* past it; and it draws one point in each row or column of the longer axis, so
\* the line has no gap and is nowhere thick.
IsThinAndWhole(c) ==
  LET l == Downward(c)
      points == LinePoints(c)
      Along(p) == IF Dx(l) > Dy(l) THEN Abs(p[1] - l.x1) ELSE p[2] - l.y1
  IN  /\ AtEnd(l, LineLoop(l)[Dx(l) + Dy(l)])
      /\ {Along(p) : p \in points} = 0..Reach(l)
      /\ \A p, q \in points : Along(p) = Along(q) => p = q

Inward(n) == IF Abs(n) <= 2 THEN 0 ELSE Abs(n) - 2

\* Negative inside the ellipse inscribed in the box, zero on it, positive
\* outside; u and v are twice the distances from its centre.
Beyond(c, u, v) ==
  u * u * B(c) * B(c) + v * v * A(c) * A(c) - A(c) * A(c) * B(c) * B(c)

\* An oval stays in the box the caller gave, and the ellipse passes within a pixel
\* of every point of its outline, measured along one of the axes.
IsRound(c) ==
  /\ Outline(c) \cup Fill(c) \subseteq (c.x..(c.x + A(c))) \X (c.y..(c.y + B(c)))
  /\ \A p \in Outline(c) :
       LET u == 2 * (p[1] - c.x) - A(c)
           v == 2 * (p[2] - c.y) - B(c)
       IN  \/ Beyond(c, Inward(u), v) <= 0 /\ Beyond(c, Abs(u) + 2, v) >= 0
           \/ Beyond(c, u, Inward(v)) <= 0 /\ Beyond(c, u, Abs(v) + 2) >= 0

\* Both loops end; the oval reaches all four sides of its box, its halves mirror
\* each other although north and south do not always start on one row, and there
\* is no hole between its outline and its filling.
IsWhole(c) ==
  LET outline == Outline(c)
      all     == outline \cup Fill(c)
      last    == OvalLoop(c)[c.width + c.height]
  IN  /\ ~Scanning(last) /\ ~TipsMissing(c, last)
      /\ {p[1] : p \in all} = c.x..(c.x + A(c))
      /\ {p[2] : p \in outline} = c.y..(c.y + B(c))
      /\ \A p \in outline : /\ <<2 * c.x + A(c) - p[1], p[2]>> \in outline
                            /\ <<p[1], 2 * c.y + B(c) - p[2]>> \in outline
      /\ \A p, q \in outline : p[2] = q[2] => (p[1]..q[1]) \X {p[2]} \subseteq all
=============================================================================
