--------------------------- MODULE FramebufferMC ----------------------------
(***************************************************************************)
(* Framebuffer with every call around the edges of a small screen.         *)
(***************************************************************************)
EXTENDS Framebuffer, TLC

\* Left of the screen, at its edges, at both ends of its bytes, right of it.
Xs == {-3, -1, 0, 1, 3, 4, 5, 8, 10, 11, 12, 14}
Ys == {-2, -1, 0, 1, 2, 3}

Lines == [op : {"hline", "vline"}, x : Xs, y : Ys, len : {-1, 0, 1, 2, 4, 5, 9, 16}]

Rects == [op : {"rect"}, x : Xs, y : Ys, width : {1, 2, 3, 5, 8, 16}, height : {1, 2, 5}]

\* Pictures of 3 by 2 points, cut out of a sheet of 4 by 3.
Sheet == [i \in 0..11 |-> (i * 3 + i \div 4) % 4]

Blits ==
  [op : {"blit"}, x : Xs, y : Ys, width : {3}, height : {2}, srcX : {1}, srcY : {1},
   stride : {4}, sprite : {Sheet}, flipX : BOOLEAN, flipY : BOOLEAN, rotate : BOOLEAN]

\* Two characters of 2 by 2 points, in one bit, again and again.
TwoGlyphs == [i \in 0..(224 * 4 - 1) |-> <<0, 1, 1, 1, 1, 0, 0, 1>>[(i % 8) + 1]]

Texts ==
  [op : {"text"}, x : Xs, y : Ys,
   str : {<<32, 33>>, <<33, 10, 32>>, <<32, 9, 33, 10, 10, 33>>, <<10, 300, 32, 33>>}]

\* Lines of every slope, from and to points on and off the screen.
Slants == [op : {"line"}, x1 : {-2, 3, 11}, y1 : {-5, 0, 1, 6}, x2 : {-3, 0, 4, 12}, y2 : {-2, 0, 1, 5}]

Ovals == [op : {"oval"}, x : {0}, y : {0}, width : 1..9, height : 1..9]
           \cup [op : {"oval"}, x : {-2, 7}, y : {-3, -1}, width : {3, 8}, height : {2, 5, 6}]

AllCalls == Slants \cup Ovals \cup Lines \cup Rects \cup Blits \cup Texts

\* Each of the four pens drawing nothing, or drawing colour 0.
SomeColors ==
  {0 :> 0 @@ 1 :> 4 @@ 2 :> 0 @@ 3 :> 2, 0 :> 5 @@ 1 :> 3 @@ 2 :> 4 @@ 3 :> 0,
   0 :> 2 @@ 1 :> 0 @@ 2 :> 5 @@ 3 :> 3, 0 :> 4 @@ 1 :> 15 @@ 2 :> 2 @@ 3 :> 13}

\* A state constraint: draw only on a screen that has just been cleared, or
\* painted over, or of which the first row has.
Painted ==
  \/ call = ClearCall
  \/ call = [op |-> "rect", x |-> -3, y |-> -2, width |-> 16, height |-> 5]
  \/ call = [op |-> "hline", x |-> -3, y |-> 0, len |-> 16]
=============================================================================
