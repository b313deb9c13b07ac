------------------------- MODULE FramebufferProofs --------------------------
(***************************************************************************)
(* Proofs about Framebuffer, for every screen of whole bytes, every font   *)
(* and every drawing call: that it implements Canvas, that the loop of the *)
(* lines draws them straight, thin and whole, and that those of the ovals  *)
(* draw them round and whole.                                              *)
(***************************************************************************)
EXTENDS Framebuffer, FiniteSetTheorems, WellFoundedInduction, TLAPS

\* A set of natural numbers that is not empty has a least one.
LEMMA Least ==
  ASSUME NEW T \in SUBSET Nat, T # {}
  PROVE  \E n \in T : \A m \in T : ~(m < n)
<1> DEFINE R == OpToRel(<, Nat)
<1>1. IsWellFoundedOn(R, Nat)   BY NatLessThanWellFounded
<1>2. \A a, b \in Nat : <<a, b>> \in R <=> a < b   BY DEF OpToRel
<1> HIDE DEF R
<1>3. \E n \in T : \A m \in T : ~(<<m, n>> \in R)   BY <1>1, WFMin
<1> QED BY <1>2, <1>3

\* Induction over the natural numbers, for a set instead of a predicate.
LEMMA SetInduction ==
  ASSUME NEW S, 0 \in S, \A n \in Nat : n \in S => n + 1 \in S
  PROVE  Nat \subseteq S
<1> SUFFICES ASSUME Nat \ S # {} PROVE FALSE  OBVIOUS
<1>1. PICK n \in Nat \ S : \A m \in Nat \ S : ~(m < n)  BY Least
<1>2. n - 1 \in Nat /\ n - 1 \in S  BY <1>1
<1> QED BY <1>1, <1>2


Follows(f, start, F) ==
  \A n \in Nat : f[n] = IF n = 0 THEN start ELSE F[n - 1][f[n - 1]]

\* A function can be defined by recursion over the natural numbers: there is one
\* that begins with start and takes its n-th step with F[n].
LEMMA Recursion ==
  ASSUME NEW S, NEW start \in S, NEW F \in [Nat -> [S -> S]]
  PROVE  \E f \in [Nat -> S] : Follows(f, start, F)
<1> DEFINE IsUpto(g, n) == /\ g \in [0..n -> S]
                           /\ g[0] = start
                           /\ \A k \in 0..(n - 1) : g[k + 1] = F[k][g[k]]
           Reached == {n \in Nat : \E g : IsUpto(g, n)}
<1>1. 0 \in Reached
  <2>1. IsUpto([k \in 0..0 |-> start], 0)
    OBVIOUS
  <2> QED BY <2>1
<1>2. ASSUME NEW n \in Nat, n \in Reached PROVE n + 1 \in Reached
  <2>1. PICK g : IsUpto(g, n)
    BY <1>2
  <2> DEFINE h == [k \in 0..(n + 1) |-> IF k = n + 1 THEN F[n][g[n]] ELSE g[k]]
  <2>2. g[n] \in S /\ F[n] \in [S -> S]
    BY <2>1
  <2>3. h \in [0..(n + 1) -> S]
    BY <2>1, <2>2
  <2>4. h[0] = start
    BY <2>1
  <2>5. ASSUME NEW k \in 0..((n + 1) - 1) PROVE h[k + 1] = F[k][h[k]]
    <3>1. CASE k = n
      BY <3>1
    <3>2. CASE k # n
      <4>1. k \in 0..(n - 1) /\ k + 1 \in 0..n /\ k \in 0..n /\ k + 1 # n + 1 /\ k # n + 1
        BY <3>2
      <4> QED BY <2>1, <4>1
    <3> QED BY <3>1, <3>2
  <2> HIDE DEF h
  <2>6. IsUpto(h, n + 1)
    BY <2>3, <2>4, <2>5
  <2> HIDE DEF IsUpto
  <2> QED BY <2>6
<1>3. Nat \subseteq Reached
  <2> HIDE DEF Reached
  <2> QED BY <1>1, <1>2, SetInduction
<1> DEFINE U(n) == CHOOSE g : IsUpto(g, n)
           f == [n \in Nat |-> U(n)[n]]
<1>4. ASSUME NEW n \in Nat PROVE IsUpto(U(n), n)
  <2> HIDE DEF IsUpto
  <2>1. \E g : IsUpto(g, n)
    BY <1>3
  <2> QED BY <2>1
<1> HIDE DEF U
<1>5. f \in [Nat -> S]
  <2>1. \A n \in Nat : U(n) \in [0..n -> S] /\ n \in 0..n
    BY <1>4
  <2> QED BY <2>1
<1>6. f[0] = start
  BY <1>4
<1>7. ASSUME NEW n \in Nat PROVE f[n + 1] = F[n][f[n]]
  <2> DEFINE Same == {k \in Nat : k <= n => U(n + 1)[k] = U(n)[k]}
  <2>1. IsUpto(U(n), n) /\ IsUpto(U(n + 1), n + 1)
    BY <1>4
  <2>2. 0 \in Same
    BY <2>1
  <2>3. ASSUME NEW k \in Nat, k \in Same PROVE k + 1 \in Same
    <3>1. SUFFICES ASSUME k + 1 <= n PROVE U(n + 1)[k + 1] = U(n)[k + 1]
      OBVIOUS
    <3>2. k \in 0..(n - 1) /\ k \in 0..((n + 1) - 1) /\ U(n + 1)[k] = U(n)[k]
      BY <2>3, <3>1
    <3> QED BY <2>1, <3>2
  <2>4. Nat \subseteq Same
    <3> HIDE DEF Same
    <3> QED BY <2>2, <2>3, SetInduction
  <2>5. U(n + 1)[n] = U(n)[n]
    BY <2>4
  <2>6. n \in 0..((n + 1) - 1)
    OBVIOUS
  <2> QED BY <2>1, <2>5, <2>6 DEF f
<1> HIDE DEF f
<1>8. ASSUME NEW n \in Nat PROVE f[n] = IF n = 0 THEN start ELSE F[n - 1][f[n - 1]]
  <2>1. CASE n = 0
    BY <1>6, <2>1
  <2>2. CASE n # 0
    <3>1. n - 1 \in Nat /\ (n - 1) + 1 = n
      BY <2>2
    <3>2. f[(n - 1) + 1] = F[n - 1][f[n - 1]]
      BY <1>7, <3>1
    <3> QED BY <2>2, <3>1, <3>2
  <2> QED BY <2>1, <2>2
<1> QED BY <1>5, <1>8 DEF Follows

-----------------------------------------------------------------------------
(* The loop of the lines. *)

\* Lines drawn downwards, and the states of their loop.
Slope == {l \in [x1 : Int, y1 : Int, x2 : Int, y2 : Int] : l.y1 <= l.y2}

LinePos == [x : Int, y : Int, err : Int]

\* What a line is made of has its type, and so has every state of its loop.
LEMMA SlopeFacts ==
  ASSUME NEW l \in Slope
  PROVE  /\ l.x1 \in Int /\ l.y1 \in Int /\ l.x2 \in Int /\ l.y2 \in Int
         /\ Dx(l) \in Nat /\ Dy(l) \in Nat /\ Sx(l) \in {1, -1}
         /\ l.x2 = l.x1 + Sx(l) * Dx(l)
         /\ l.y2 = l.y1 + Dy(l)
         /\ Reach(l) \in Nat /\ Reach(l) <= Dx(l) + Dy(l)
         /\ LineStart(l) \in LinePos
         /\ \A s \in LinePos : LineAfter(l, s) \in LinePos
<1>1. /\ l.x1 \in Int /\ l.y1 \in Int /\ l.x2 \in Int /\ l.y2 \in Int /\ l.y1 <= l.y2
  BY DEF Slope
<1>2. /\ Dx(l) \in Nat /\ Dy(l) \in Nat /\ Sx(l) \in {1, -1}
      /\ l.x2 = l.x1 + Sx(l) * Dx(l)
      /\ l.y2 = l.y1 + Dy(l)
  BY <1>1 DEF Dx, Dy, Sx, Abs
<1>3. Reach(l) \in Nat /\ Reach(l) <= Dx(l) + Dy(l)
  BY <1>2 DEF Reach
<1>4. LineStart(l) \in LinePos
  BY <1>1, <1>2 DEF LineStart, LinePos, Half
<1>5. ASSUME NEW s \in LinePos PROVE LineAfter(l, s) \in LinePos
  <2>1. LineStep(l, s) \in LinePos
    BY <1>2 DEF LineStep, LinePos
  <2> QED BY <2>1 DEF LineAfter
<1> QED BY <1>1, <1>2, <1>3, <1>4, <1>5

\* The loop is the function its recursion describes.
LEMMA LineLoopValue ==
  ASSUME NEW l \in Slope
  PROVE  /\ LineLoop(l) \in [Nat -> LinePos]
         /\ LineLoop(l)[0] = LineStart(l)
         /\ \A n \in Nat : LineLoop(l)[n + 1] = LineAfter(l, LineLoop(l)[n])
<1> DEFINE Is(f) ==
      f = [n \in Nat |-> IF n = 0 THEN LineStart(l) ELSE LineAfter(l, f[n - 1])]
    F == [n \in Nat |-> [s \in LinePos |-> LineAfter(l, s)]]
<1>1. F \in [Nat -> [LinePos -> LinePos]] /\ LineStart(l) \in LinePos
  BY SlopeFacts
<1>2. PICK f \in [Nat -> LinePos] : Follows(f, LineStart(l), F)
  <2> HIDE DEF F
  <2> QED BY <1>1, Recursion
<1>3. \A n \in Nat : n # 0 => F[n - 1][f[n - 1]] = LineAfter(l, f[n - 1])
  OBVIOUS
<1>4. f = [n \in Nat |-> IF n = 0 THEN LineStart(l) ELSE LineAfter(l, f[n - 1])]
  <2> HIDE DEF F
  <2> QED BY <1>2, <1>3 DEF Follows
<1>5. Is(f)
  BY <1>4
<1>6. LineLoop(l) = CHOOSE g : Is(g)
  BY DEF LineLoop
<1>7. Is(LineLoop(l))
  BY <1>5, <1>6
<1>8. \A n \in Nat : LineLoop(l)[n + 1] = LineAfter(l, LineLoop(l)[n])
  <2>1. \A n \in Nat : n + 1 \in Nat /\ n + 1 # 0 /\ (n + 1) - 1 = n
    OBVIOUS
  <2> QED BY <1>7, <2>1
<1>9. LineLoop(l)[0] = LineStart(l)
  BY <1>7
<1> DEFINE T == {n \in Nat : LineLoop(l)[n] \in LinePos}
<1>10. Nat \subseteq T
  <2>1. 0 \in T
    BY <1>1, <1>9
  <2>2. \A n \in Nat : n \in T => n + 1 \in T
    BY <1>8, SlopeFacts
  <2> HIDE DEF T
  <2> QED BY <2>1, <2>2, SetInduction
<1> QED BY <1>7, <1>8, <1>9, <1>10

\* How far the loop is after n iterations, i steps across and j down: it is on
\* the longer axis at every iteration, and the error keeps it near the line.
\* It never leaves these bounds, and meets the end when the longer axis does.
Along(l, n) == IF n < Reach(l) THEN n ELSE Reach(l)

NearAcross(l, n, s) ==
  /\ s.x = l.x1 + Sx(l) * n
  /\ s.err = Dx(l) \div 2 - n * Dy(l) + (s.y - l.y1) * Dx(l)
  /\ s.err >= 0 /\ s.err < Dx(l)

NearDown(l, n, s) ==
  /\ s.y = l.y1 + n
  /\ \E i \in Int : /\ s.x = l.x1 + Sx(l) * i
                    /\ s.err = n * Dx(l) - i * Dy(l) - Dy(l) \div 2
                    /\ Dy(l) = 0 => i = 0
  /\ s.err <= 0 /\ (s.err > -Dy(l) \/ Dy(l) = 0)

Near(l, n, s) == IF Dx(l) > Dy(l) THEN NearAcross(l, n, s) ELSE NearDown(l, n, s)

\* A multiple of a number is zero or at least as far from zero.
LEMMA Multiples ==
  ASSUME NEW a \in Nat, NEW k \in Int
  PROVE  /\ a * k \in Int
         /\ k >= 1 => a * k >= a
         /\ k <= -1 => a * k <= -a
         /\ k = 0 => a * k = 0
OBVIOUS

\* Arithmetic with the sign of a direction.
LEMMA Signs ==
  ASSUME NEW g \in {1, -1}, NEW a \in Int, NEW b \in Int
  PROVE  /\ g * a \in Int
         /\ g * a = g * b <=> a = b
         /\ (g * a) * g = a
         /\ g * (a + 1) = g * a + g
         /\ a < 0 \/ Abs(g * a) = a
<1>1. CASE g = 1
  BY <1>1 DEF Abs
<1>2. CASE g = -1
  BY <1>2 DEF Abs
<1> QED BY <1>1, <1>2

\* Near the line, the loop is at its end once it has made Reach iterations, and no
\* sooner.
LEMMA NearEnd ==
  ASSUME NEW l \in Slope, NEW s \in LinePos, NEW n \in 0..Reach(l), Near(l, n, s)
  PROVE  AtEnd(l, s) <=> n = Reach(l)
<1> DEFINE dx == Dx(l)
           dy == Dy(l)
<1>0. /\ dx \in Nat /\ dy \in Nat /\ Sx(l) \in {1, -1}
      /\ l.x1 \in Int /\ l.y1 \in Int /\ s.x \in Int /\ s.y \in Int /\ s.err \in Int
      /\ l.x2 = l.x1 + Sx(l) * dx /\ l.y2 = l.y1 + dy
  BY SlopeFacts DEF LinePos
<1>1. CASE dx > dy
  <2>1. /\ s.x = l.x1 + Sx(l) * n
        /\ s.err = dx \div 2 - n * dy + (s.y - l.y1) * dx
        /\ s.err >= 0 /\ s.err < dx
        /\ Reach(l) = dx
    BY <1>1 DEF Near, NearAcross, Reach
  <2> DEFINE k == dy - (s.y - l.y1)
  <2>2. n = dx => s.err = dx \div 2 - dx * k
    BY <1>0, <2>1
  <2>3. n = dx => k = 0
    <3>1. k \in Int
      BY <1>0
    <3>2. dx \div 2 \in Nat /\ dx \div 2 < dx
      BY <1>0, <1>1
    <3> HIDE DEF k, dx, dy
    <3> QED BY <1>0, <2>1, <2>2, <3>1, <3>2, Multiples
  <2>4. n # dx => s.x # l.x2
    <3>1. /\ Sx(l) * n \in Int /\ Sx(l) * dx \in Int
          /\ Sx(l) * n = Sx(l) * dx <=> n = dx
      BY <1>0, Signs
    <3>2. s.x = l.x1 + Sx(l) * n /\ l.x2 = l.x1 + Sx(l) * dx /\ l.x1 \in Int
      BY <1>0, <2>1
    <3>3. ASSUME NEW a \in Int, NEW b \in Int, NEW p \in Int, p + a = p + b PROVE a = b
      BY <3>3
    <3> QED BY <3>1, <3>2, <3>3
  <2>5. k = 0 => s.y = l.y2
    BY <1>0
  <2> HIDE DEF k, dx, dy
  <2> QED BY <1>0, <2>1, <2>3, <2>4, <2>5 DEF AtEnd
<1>2. CASE ~(dx > dy)
  <2>1. /\ s.y = l.y1 + n
        /\ s.err <= 0 /\ (s.err > -dy \/ dy = 0)
        /\ Reach(l) = dy
    BY <1>2 DEF Near, NearDown, Reach
  <2>2. PICK i \in Int : /\ s.x = l.x1 + Sx(l) * i
                         /\ s.err = n * dx - i * dy - dy \div 2
                         /\ dy = 0 => i = 0
    BY <1>2 DEF Near, NearDown
  <2> DEFINE k == dx - i
  <2>3. n = dy => s.err = dy * k - dy \div 2
    BY <1>0, <2>1, <2>2
  <2>4. n = dy /\ dy # 0 => k = 0
    <3>1. k \in Int
      BY <1>0
    <3>2. dy # 0 => dy \div 2 \in Nat /\ dy \div 2 < dy
      BY <1>0
    <3> HIDE DEF k, dx, dy
    <3> QED BY <1>0, <2>1, <2>3, <3>1, <3>2, Multiples
  <2>5. n # dy => s.y # l.y2
    BY <1>0, <2>1
  <2>6. n = dy => s.y = l.y2
    BY <1>0, <2>1
  <2>7. dx = i => s.x = l.x2
    BY <1>0, <2>2
  <2>8. n = dy => dx = i
    <3>1. CASE dy = 0
      <4>1. dy = 0 => i = 0
        BY <2>2
      <4>2. dx = 0
        BY <1>0, <1>2, <3>1
      <4> QED BY <3>1, <4>1, <4>2
    <3>2. CASE dy # 0
      <4>0. dx \in Int
        BY <1>0
      <4>1. k = 0 => dx = i
        BY <4>0
      <4> QED BY <2>4, <3>2, <4>1
    <3> QED BY <3>1, <3>2
  <2> HIDE DEF k, dx, dy
  <2> QED BY <2>1, <2>5, <2>6, <2>7, <2>8 DEF AtEnd
<1> QED BY <1>1, <1>2

\* The loop starts near the line.
LEMMA NearStart == ASSUME NEW l \in Slope PROVE Near(l, 0, LineStart(l))
<1>1. /\ Dx(l) \in Nat /\ Dy(l) \in Nat /\ Sx(l) \in {1, -1}
      /\ l.x1 \in Int /\ l.y1 \in Int
  BY SlopeFacts
<1>2. /\ LineStart(l).x = l.x1 /\ LineStart(l).y = l.y1
      /\ LineStart(l).err = Half(IF Dx(l) > Dy(l) THEN Dx(l) ELSE -Dy(l))
  BY DEF LineStart
<1>3. CASE Dx(l) > Dy(l)
  <2>1. LineStart(l).err = Dx(l) \div 2
    BY <1>1, <1>2, <1>3 DEF Half
  <2>2. Dx(l) \div 2 >= 0 /\ Dx(l) \div 2 < Dx(l)
    BY <1>1, <1>3
  <2>3. l.x1 = l.x1 + Sx(l) * 0
    BY <1>1
  <2>4. Dx(l) \div 2 = Dx(l) \div 2 - 0 * Dy(l) + (l.y1 - l.y1) * Dx(l)
    BY <1>1
  <2> QED BY <1>2, <1>3, <2>1, <2>2, <2>3, <2>4 DEF Near, NearAcross
<1>4. CASE ~(Dx(l) > Dy(l))
  <2>1. LineStart(l).err = -(Dy(l) \div 2)
    BY <1>1, <1>2, <1>4 DEF Half
  <2>2. -(Dy(l) \div 2) <= 0 /\ (-(Dy(l) \div 2) > -Dy(l) \/ Dy(l) = 0)
    BY <1>1
  <2>3. l.x1 = l.x1 + Sx(l) * 0 /\ l.y1 = l.y1 + 0
    BY <1>1
  <2>4. -(Dy(l) \div 2) = 0 * Dx(l) - 0 * Dy(l) - Dy(l) \div 2
    BY <1>1
  <2> QED BY <1>2, <1>4, <2>1, <2>2, <2>3, <2>4 DEF Near, NearDown
<1> QED BY <1>3, <1>4

\* Before the end, every iteration steps along the longer axis.
LEMMA NearStep ==
  ASSUME NEW l \in Slope, NEW s \in LinePos, NEW n \in 0..Reach(l), Near(l, n, s),
         n < Reach(l)
  PROVE  Near(l, n + 1, LineAfter(l, s))
<1> DEFINE dx == Dx(l)
           dy == Dy(l)
           g  == Sx(l)
           t  == LineStep(l, s)
<1>0. /\ dx \in Nat /\ dy \in Nat /\ g \in {1, -1} /\ g \in Int
      /\ l.x1 \in Int /\ l.y1 \in Int /\ s.x \in Int /\ s.y \in Int /\ s.err \in Int
  BY SlopeFacts DEF LinePos
<1>1. LineAfter(l, s) = t
  BY NearEnd DEF LineAfter
<1>2. /\ t.x = IF s.err > -dx THEN s.x + g ELSE s.x
      /\ t.y = IF s.err < dy THEN s.y + 1 ELSE s.y
      /\ t.err = s.err - (IF s.err > -dx THEN dy ELSE 0) + (IF s.err < dy THEN dx ELSE 0)
  BY DEF LineStep, StepsAcross, StepsDown
<1> HIDE DEF t
<1>3. CASE dx > dy
  <2>1. /\ s.x = l.x1 + g * n
        /\ s.err = dx \div 2 - n * dy + (s.y - l.y1) * dx
        /\ s.err >= 0 /\ s.err < dx
    BY <1>3 DEF Near, NearAcross
  <2> HIDE DEF dx, dy, g
  <2>2. s.err > -dx
    BY <1>0, <2>1
  <2>3. g * (n + 1) = g * n + g /\ g * n \in Int
    BY <1>0, Signs
  <2>4. t.x = l.x1 + g * (n + 1)
    BY <1>0, <1>2, <2>1, <2>2, <2>3
  <2>5. t.err >= 0 /\ t.err < dx
    BY <1>0, <1>2, <1>3, <2>1, <2>2
  <2>6. t.err = dx \div 2 - (n + 1) * dy + (t.y - l.y1) * dx
    <3>1. CASE s.err < dy
      <4>1. t.err = s.err - dy + dx /\ t.y = s.y + 1
        BY <1>0, <1>2, <2>2, <3>1
      <4> QED BY <1>0, <2>1, <4>1
    <3>2. CASE ~(s.err < dy)
      <4>1. t.err = s.err - dy /\ t.y = s.y
        BY <1>0, <1>2, <2>2, <3>2
      <4> QED BY <1>0, <2>1, <4>1
    <3> QED BY <3>1, <3>2
  <2> QED BY <1>1, <1>3, <2>4, <2>5, <2>6 DEF Near, NearAcross, dx, dy, g
<1>4. CASE ~(dx > dy)
  <2>0. Reach(l) = dy /\ dy > 0
    BY <1>0, <1>4 DEF Reach
  <2>1. s.y = l.y1 + n /\ s.err <= 0 /\ s.err > -dy
    BY <1>4, <2>0 DEF Near, NearDown
  <2>2. PICK i \in Int : s.x = l.x1 + g * i /\ s.err = n * dx - i * dy - dy \div 2
    BY <1>4 DEF Near, NearDown
  <2> HIDE DEF dx, dy, g
  <2>3. s.err < dy
    BY <1>0, <2>0, <2>1
  <2>4. t.y = l.y1 + (n + 1)
    BY <1>0, <1>2, <2>1, <2>3
  <2>5. t.err <= 0 /\ t.err > -dy
    BY <1>0, <1>2, <1>4, <2>1, <2>3
  <2>6. \E k \in Int : t.x = l.x1 + g * k /\ t.err = (n + 1) * dx - k * dy - dy \div 2
    <3>1. CASE s.err > -dx
      <4>1. t.err = s.err - dy + dx /\ t.x = s.x + g
        BY <1>0, <1>2, <2>3, <3>1
      <4>2. t.x = l.x1 + g * (i + 1)
        <5>1. g * (i + 1) = g * i + g /\ g * i \in Int
          BY <1>0, Signs
        <5> QED BY <1>0, <2>2, <4>1, <5>1
      <4>3. t.err = (n + 1) * dx - (i + 1) * dy - dy \div 2
        <5>1. dy \div 2 \in Int /\ n * dx \in Int /\ i * dy \in Int
          BY <1>0
        <5>2. (n + 1) * dx = n * dx + dx /\ (i + 1) * dy = i * dy + dy
          BY <1>0
        <5> QED BY <1>0, <2>2, <4>1, <5>1, <5>2
      <4> QED BY <4>2, <4>3
    <3>2. CASE ~(s.err > -dx)
      <4>1. t.err = s.err + dx /\ t.x = s.x
        BY <1>0, <1>2, <2>3, <3>2
      <4>2. t.err = (n + 1) * dx - i * dy - dy \div 2
        <5>1. dy \div 2 \in Int /\ n * dx \in Int /\ i * dy \in Int
          BY <1>0
        <5>2. (n + 1) * dx = n * dx + dx
          BY <1>0
        <5> QED BY <1>0, <2>2, <4>1, <5>1, <5>2
      <4> QED BY <2>2, <4>1, <4>2
    <3> QED BY <3>1, <3>2
  <2>7. dy # 0
    BY <2>0
  <2> QED BY <1>1, <1>4, <2>4, <2>5, <2>6, <2>7 DEF Near, NearDown, dx, dy, g
<1> QED BY <1>3, <1>4

\* A line is near its ends' connection all along, and stays at its end.
LEMMA LineNear ==
  ASSUME NEW l \in Slope
  PROVE  \A n \in Nat : /\ LineLoop(l)[n] \in LinePos
                        /\ Near(l, Along(l, n), LineLoop(l)[n])
                        /\ LineLoop(l)[n] = LineLoop(l)[Along(l, n)]
<1> DEFINE S(n) == LineLoop(l)[n]
           Good == {n \in Nat : Near(l, Along(l, n), S(n)) /\ S(n) = S(Along(l, n))}
<1>1. Reach(l) \in Nat /\ \A n \in Nat : S(n) \in LinePos
  BY SlopeFacts, LineLoopValue
<1>2. Along(l, 0) = 0
  BY <1>1 DEF Along
<1>3. 0 \in Good
  BY <1>2, NearStart, LineLoopValue
<1>4. ASSUME NEW n \in Nat, n \in Good PROVE n + 1 \in Good
  <2>1. S(n + 1) = LineAfter(l, S(n)) /\ S(n) \in LinePos /\ Along(l, n) \in 0..Reach(l)
    BY <1>1, LineLoopValue DEF Along
  <2>2. Near(l, Along(l, n), S(n))
    BY <1>4
  <2> HIDE DEF S
  <2>3. CASE n < Reach(l)
    <3>1. Along(l, n) = n /\ Along(l, n + 1) = n + 1
      BY <1>1, <2>3 DEF Along
    <3> QED BY <2>1, <2>2, <2>3, <3>1, NearStep
  <2>4. CASE ~(n < Reach(l))
    <3>1. Along(l, n) = Reach(l) /\ Along(l, n + 1) = Reach(l)
      BY <1>1, <2>4 DEF Along
    <3>2. AtEnd(l, S(n))
      BY <2>1, <2>2, <3>1, NearEnd
    <3>3. S(n + 1) = S(n)
      BY <2>1, <3>2 DEF LineAfter
    <3> QED BY <1>4, <3>1, <3>3
  <2> QED BY <2>3, <2>4
<1>5. Nat \subseteq Good
  <2> HIDE DEF Good
  <2> QED BY <1>3, <1>4, SetInduction
<1> QED BY <1>1, <1>5

\* Near the line is within half a pixel of it.
LEMMA NearDistance ==
  ASSUME NEW l \in Slope, NEW s \in LinePos, NEW n \in 0..Reach(l), Near(l, n, s)
  PROVE  /\ 2 * Abs((s.x - l.x1) * Sx(l) * Dy(l) - (s.y - l.y1) * Dx(l)) <= Reach(l)
         /\ (IF Dx(l) > Dy(l) THEN Abs(s.x - l.x1) ELSE s.y - l.y1) = n
<1> DEFINE dx == Dx(l)
           dy == Dy(l)
           g  == Sx(l)
           D  == (s.x - l.x1) * g * dy - (s.y - l.y1) * dx
<1>0. /\ dx \in Nat /\ dy \in Nat /\ g \in {1, -1} /\ g \in Int /\ n \in Nat
      /\ l.x1 \in Int /\ l.y1 \in Int /\ s.x \in Int /\ s.y \in Int /\ s.err \in Int
  BY SlopeFacts DEF LinePos
<1>1. ASSUME NEW i \in Int, s.x = l.x1 + g * i
      PROVE  /\ (s.x - l.x1) * g = i
             /\ i >= 0 => Abs(s.x - l.x1) = i
  <2>1. s.x - l.x1 = g * i
    BY <1>0, <1>1, Signs
  <2>2. (g * i) * g = i /\ (i >= 0 => Abs(g * i) = i)
    <3>1. (g * i) * g = i /\ (i < 0 \/ Abs(g * i) = i)
      BY <1>0, Signs
    <3> QED BY <3>1
  <2> QED BY <2>1, <2>2
<1>2. CASE dx > dy
  <2>1. /\ s.x = l.x1 + g * n
        /\ s.err = dx \div 2 - n * dy + (s.y - l.y1) * dx
        /\ s.err >= 0 /\ s.err < dx
        /\ Reach(l) = dx
    BY <1>2 DEF Near, NearAcross, Reach
  <2>2. (s.x - l.x1) * g = n /\ Abs(s.x - l.x1) = n
    BY <1>0, <1>1, <2>1
  <2>3. D = dx \div 2 - s.err
    <3>1. D = n * dy - (s.y - l.y1) * dx
      BY <2>2
    <3>2. dx \div 2 \in Int /\ n * dy \in Int /\ (s.y - l.y1) * dx \in Int
      BY <1>0
    <3> HIDE DEF D, dx, dy, g
    <3> QED BY <1>0, <2>1, <3>1, <3>2
  <2>4. 2 * Abs(D) <= dx
    <3> HIDE DEF D, dx, dy, g
    <3>1. 2 * (dx \div 2) <= dx /\ 2 * (dx \div 2) >= dx - 1 /\ dx \div 2 \in Int
      BY <1>0
    <3> QED BY <1>0, <2>1, <2>3, <3>1 DEF Abs
  <2> QED BY <1>2, <2>1, <2>2, <2>4
<1>3. CASE ~(dx > dy)
  <2>1. /\ s.y = l.y1 + n /\ s.err <= 0 /\ (s.err > -dy \/ dy = 0)
        /\ Reach(l) = dy
    BY <1>3 DEF Near, NearDown, Reach
  <2>2. PICK i \in Int : /\ s.x = l.x1 + g * i
                         /\ s.err = n * dx - i * dy - dy \div 2
                         /\ dy = 0 => i = 0
    BY <1>3 DEF Near, NearDown
  <2>3. (s.x - l.x1) * g = i /\ s.y - l.y1 = n
    BY <1>0, <1>1, <2>1, <2>2
  <2>4. D = -s.err - dy \div 2
    <3>1. D = i * dy - n * dx
      BY <2>3
    <3>2. dy \div 2 \in Int /\ n * dx \in Int /\ i * dy \in Int
      BY <1>0
    <3>3. s.err = n * dx - i * dy - dy \div 2
      BY <2>2
    <3> HIDE DEF D, dx, dy, g
    <3> QED BY <1>0, <3>1, <3>2, <3>3
  <2>5. 2 * Abs(D) <= dy
    <3>1. dy = 0 => D = 0
      <4>1. ASSUME dy = 0 PROVE i * dy = 0 /\ n * dx = 0
        <5>1. dx = 0
          BY <1>0, <1>3, <4>1
        <5> QED BY <1>0, <4>1, <5>1
      <4> QED BY <2>3, <4>1
    <3> HIDE DEF D, dx, dy, g
    <3>2. 2 * (dy \div 2) <= dy /\ 2 * (dy \div 2) >= dy - 1 /\ dy \div 2 \in Int
      BY <1>0
    <3>3. CASE dy = 0
      BY <3>1, <3>3 DEF Abs
    <3>4. CASE dy # 0
      BY <1>0, <2>1, <2>4, <3>2, <3>4 DEF Abs
    <3> QED BY <3>3, <3>4
  <2> QED BY <1>3, <2>1, <2>3, <2>5
<1> QED BY <1>2, <1>3

\* A call for a line, turned downward.
IsLine(c) == c \in [op : {"line"}, x1 : Int, y1 : Int, x2 : Int, y2 : Int]

\* A line is drawn from its upper end.
LEMMA DownwardSlope == ASSUME NEW c, IsLine(c) PROVE Downward(c) \in Slope
BY DEF IsLine, Downward, Slope

\* Every line is straight.
LEMMA LineIsStraight == ASSUME NEW c, IsLine(c) PROVE IsStraight(c)
<1> DEFINE l == Downward(c)
           S(n) == LineLoop(l)[n]
<1>1. l \in Slope /\ Reach(l) \in Nat
  BY DownwardSlope, SlopeFacts
<1> SUFFICES ASSUME NEW p \in LinePoints(c)
             PROVE  2 * Abs((p[1] - l.x1) * Sx(l) * Dy(l) - (p[2] - l.y1) * Dx(l)) <= Reach(l)
  BY DEF IsStraight
<1>2. Iterations(l) \subseteq Nat
  BY DEF Iterations
<1>3. PICK n \in Nat : p = <<S(n).x, S(n).y>>
  BY <1>2 DEF LinePoints
<1>4. S(n) \in LinePos /\ Near(l, Along(l, n), S(n)) /\ Along(l, n) \in 0..Reach(l)
  BY <1>1, LineNear DEF Along
<1>5. p[1] = S(n).x /\ p[2] = S(n).y
  BY <1>3
<1> HIDE DEF l, S
<1> QED BY <1>1, <1>4, <1>5, NearDistance

\* Every line ends where it should, without a gap and nowhere thick.
LEMMA LineIsThinAndWhole == ASSUME NEW c, IsLine(c) PROVE IsThinAndWhole(c)
<1> DEFINE l == Downward(c)
           S(n) == LineLoop(l)[n]
           points == LinePoints(c)
           Coordinate(p) == IF Dx(l) > Dy(l) THEN Abs(p[1] - l.x1) ELSE p[2] - l.y1
<1>1. l \in Slope /\ Reach(l) \in Nat /\ Dx(l) \in Nat /\ Dy(l) \in Nat /\ Reach(l) <= Dx(l) + Dy(l)
  BY DownwardSlope, SlopeFacts
<1>2. \A n \in Iterations(l) : n \in Nat /\ Along(l, n) \in 0..Reach(l)
  BY <1>1 DEF Iterations, Along
<1>3. \A k \in 0..Reach(l) : k \in Iterations(l) /\ Along(l, k) = k
  BY <1>1 DEF Iterations, Along
<1>4. points = {<<S(n).x, S(n).y>> : n \in Iterations(l)}
  BY DEF LinePoints
<1> HIDE DEF points
<1>5. ASSUME NEW n \in Iterations(l)
      PROVE  /\ S(n) \in LinePos
             /\ S(n) = S(Along(l, n))
             /\ Coordinate(<<S(n).x, S(n).y>>) = Along(l, n)
  <2>1. /\ S(n) \in LinePos /\ Near(l, Along(l, n), S(n)) /\ S(n) = S(Along(l, n))
        /\ Along(l, n) \in 0..Reach(l)
    BY <1>1, <1>2, LineNear
  <2> HIDE DEF l, S
  <2> QED BY <1>1, <2>1, NearDistance
<1>6. AtEnd(l, S(Dx(l) + Dy(l)))
  <2>1. Dx(l) + Dy(l) \in Nat /\ Along(l, Dx(l) + Dy(l)) = Reach(l)
    BY <1>1 DEF Along
  <2>2. S(Dx(l) + Dy(l)) \in LinePos /\ Near(l, Reach(l), S(Dx(l) + Dy(l)))
    BY <1>1, <2>1, LineNear
  <2>3. Reach(l) \in 0..Reach(l)
    BY <1>1
  <2> HIDE DEF l, S
  <2> QED BY <1>1, <2>2, <2>3, NearEnd
<1> HIDE DEF S
<1>7. {Coordinate(p) : p \in points} = 0..Reach(l)
  <2>1. \A p \in points : Coordinate(p) \in 0..Reach(l)
    BY <1>2, <1>4, <1>5
  <2>2. \A k \in 0..Reach(l) : \E p \in points : Coordinate(p) = k
    BY <1>3, <1>4, <1>5
  <2> HIDE DEF Coordinate, l
  <2> QED BY <2>1, <2>2
<1>8. \A p, q \in points : Coordinate(p) = Coordinate(q) => p = q
  BY <1>4, <1>5
<1> QED BY <1>6, <1>7, <1>8 DEF IsThinAndWhole, points, S

-----------------------------------------------------------------------------
(* The loops of the ovals. *)

\* What they are given.
IsOval(c) == c \in [op : {"oval"}, x : Int, y : Int, width : Nat \ {0}, height : Nat \ {0}]

\* The states of its loops.
OvalPos == [north : Int, south : Int, west : Int, east : Int, dx : Int, dy : Int, err : Int]

\* Both loops of an oval keep the type of their variables.
LEMMA OvalType ==
  ASSUME NEW c, IsOval(c)
  PROVE  /\ OvalStart(c) \in OvalPos
         /\ \A s \in OvalPos : OvalAfter(c, s) \in OvalPos
<1>1. /\ c.x \in Int /\ c.y \in Int /\ c.width \in Nat \ {0} /\ c.height \in Nat \ {0}
      /\ A(c) \in Int /\ B(c) \in Int /\ B1(c) \in Int
  BY DEF IsOval, A, B, B1
<1>2. OvalStart(c) \in OvalPos
  <2>1. South(c) \in Int /\ c.y + c.height \div 2 \in Int /\ c.x + A(c) \in Int
    BY <1>1 DEF South
  <2>2. /\ 4 * (1 - A(c)) * B(c) * B(c) \in Int
        /\ 4 * (B1(c) + 1) * A(c) * A(c) \in Int
        /\ B1(c) * A(c) * A(c) \in Int
    BY <1>1
  <2> QED BY <1>1, <2>1, <2>2 DEF OvalStart, OvalPos
<1>3. ASSUME NEW s \in OvalPos PROVE OvalAfter(c, s) \in OvalPos
  <2>1. /\ s.north \in Int /\ s.south \in Int /\ s.west \in Int /\ s.east \in Int
        /\ s.dx \in Int /\ s.dy \in Int /\ s.err \in Int
    BY DEF OvalPos
  <2>2. 8 * A(c) * A(c) \in Int /\ 8 * B(c) * B(c) \in Int
    BY <1>1
  <2>3. DyAfter(c, s) \in Int
    BY <2>1, <2>2 DEF DyAfter
  <2>4. Scan(c, s) \in OvalPos
    <3> DEFINE dx == IF ScansAcross(c, s) THEN s.dx + 8 * B(c) * B(c) ELSE s.dx
               dy == DyAfter(c, s)
               down == IF ScansDown(s) THEN 1 ELSE 0
               across == IF ScansAcross(c, s) THEN 1 ELSE 0
    <3>1. dx \in Int /\ dy \in Int /\ down \in {0, 1} /\ across \in {0, 1}
      BY <2>1, <2>2, <2>3
    <3>2. Scan(c, s) =
            [north |-> s.north + down, south |-> s.south - down,
             west |-> s.west + across, east |-> s.east - across,
             dx |-> dx, dy |-> dy, err |-> s.err + down * dy + across * dx]
      BY DEF Scan
    <3> HIDE DEF dx, dy, down, across
    <3>3. s.err + down * dy + across * dx \in Int
      BY <2>1, <3>1
    <3> QED BY <2>1, <3>1, <3>2, <3>3 DEF OvalPos
  <2>5. Tip(s) \in OvalPos
    <3>1. /\ s.north + 1 \in Int /\ s.south - 1 \in Int
          /\ Tip(s) = [s EXCEPT !.north = s.north + 1, !.south = s.south - 1]
      BY <2>1 DEF Tip
    <3> QED BY <3>1 DEF OvalPos
  <2> QED BY <2>4, <2>5 DEF OvalAfter
<1> QED BY <1>2, <1>3

\* The loops of an oval are the function their recursion describes.
LEMMA OvalLoopValue ==
  ASSUME NEW c, IsOval(c)
  PROVE  /\ OvalLoop(c) \in [Nat -> OvalPos]
         /\ OvalLoop(c)[0] = OvalStart(c)
         /\ \A n \in Nat : OvalLoop(c)[n + 1] = OvalAfter(c, OvalLoop(c)[n])
<1> DEFINE Is(f) ==
      f = [n \in Nat |-> IF n = 0 THEN OvalStart(c) ELSE OvalAfter(c, f[n - 1])]
    F == [n \in Nat |-> [s \in OvalPos |-> OvalAfter(c, s)]]
<1>1. F \in [Nat -> [OvalPos -> OvalPos]] /\ OvalStart(c) \in OvalPos
  BY OvalType
<1>2. PICK f \in [Nat -> OvalPos] : Follows(f, OvalStart(c), F)
  <2> HIDE DEF F
  <2> QED BY <1>1, Recursion
<1>3. \A n \in Nat : n # 0 => F[n - 1][f[n - 1]] = OvalAfter(c, f[n - 1])
  OBVIOUS
<1>4. f = [n \in Nat |-> IF n = 0 THEN OvalStart(c) ELSE OvalAfter(c, f[n - 1])]
  <2> HIDE DEF F
  <2> QED BY <1>2, <1>3 DEF Follows
<1>5. Is(f)
  BY <1>4
<1>6. OvalLoop(c) = CHOOSE g : Is(g)
  BY DEF OvalLoop
<1>7. Is(OvalLoop(c))
  BY <1>5, <1>6
<1>8. \A n \in Nat : OvalLoop(c)[n + 1] = OvalAfter(c, OvalLoop(c)[n])
  <2>1. \A n \in Nat : n + 1 \in Nat /\ n + 1 # 0 /\ (n + 1) - 1 = n
    OBVIOUS
  <2> QED BY <1>7, <2>1
<1>9. OvalLoop(c)[0] = OvalStart(c)
  BY <1>7
<1> DEFINE T == {n \in Nat : OvalLoop(c)[n] \in OvalPos}
<1>10. Nat \subseteq T
  <2>1. 0 \in T
    BY <1>1, <1>9
  <2>2. \A n \in Nat : n \in T => n + 1 \in T
    BY <1>8, OvalType
  <2> HIDE DEF T
  <2> QED BY <2>1, <2>2, SetInduction
<1> QED BY <1>7, <1>8, <1>9, <1>10

\* The first loop closes in on the middle, and once left is not entered again.
LEMMA OvalCloses ==
  ASSUME NEW c, IsOval(c), NEW n \in Nat, Scanning(OvalLoop(c)[n]), NEW k \in 0..n
  PROVE  /\ Scanning(OvalLoop(c)[k])
         /\ OvalLoop(c)[k].west <= OvalLoop(c)[n].west
         /\ OvalLoop(c)[k].east >= OvalLoop(c)[n].east
<1> DEFINE S(i) == OvalLoop(c)[i]
           Closed(i, j) == Scanning(S(i)) /\ S(i).west <= S(j).west /\ S(i).east >= S(j).east
           T == {j \in Nat : Scanning(S(j)) => \A i \in 0..j : Closed(i, j)}
<1>1. \A i \in Nat : S(i).west \in Int /\ S(i).east \in Int
  BY OvalLoopValue DEF OvalPos
<1>2. 0 \in T
  <2>1. \A i \in 0..0 : i = 0
    OBVIOUS
  <2> QED BY <1>1, <2>1
<1>3. ASSUME NEW j \in Nat, j \in T, Scanning(S(j + 1))
      PROVE  \A i \in 0..(j + 1) : Closed(i, j + 1)
  <2>1. S(j + 1) = OvalAfter(c, S(j))
    BY OvalLoopValue
  <2> HIDE DEF S
  <2>2. Scanning(S(j))
    <3>1. ASSUME ~Scanning(S(j)) PROVE FALSE
      <4>1. S(j + 1).west = S(j).west /\ S(j + 1).east = S(j).east
        <5>1. CASE TipsMissing(c, S(j))
          <6>1. S(j + 1) = Tip(S(j))
            BY <2>1, <3>1, <5>1 DEF OvalAfter
          <6>2. S(j) \in OvalPos
            BY OvalLoopValue DEF S
          <6> QED BY <6>1, <6>2 DEF Tip, OvalPos
        <5>2. CASE ~TipsMissing(c, S(j))
          BY <2>1, <3>1, <5>2 DEF OvalAfter
        <5> QED BY <5>1, <5>2
      <4> QED BY <1>3, <3>1, <4>1 DEF Scanning
    <3> QED BY <3>1
  <2>3. S(j + 1) = Scan(c, S(j))
    BY <2>1, <2>2 DEF OvalAfter
  <2>4. S(j).west <= S(j + 1).west /\ S(j).east >= S(j + 1).east
    BY <1>1, <2>3 DEF Scan
  <2>5. \A i \in 0..j : Closed(i, j)
    BY <1>3, <2>2
  <2>6. ASSUME NEW i \in 0..(j + 1) PROVE Closed(i, j + 1)
    <3>1. CASE i = j + 1
      BY <1>1, <1>3, <3>1
    <3>2. CASE i # j + 1
      <4>1. i \in 0..j /\ i \in Nat /\ j + 1 \in Nat
        BY <3>2
      <4>2. /\ S(i).west \in Int /\ S(j).west \in Int /\ S(j + 1).west \in Int
            /\ S(i).east \in Int /\ S(j).east \in Int /\ S(j + 1).east \in Int
        BY <1>1, <4>1
      <4> QED BY <2>4, <2>5, <4>1, <4>2
    <3> QED BY <3>1, <3>2
  <2> QED BY <2>6
<1>4. Nat \subseteq T
  <2>1. \A j \in Nat : j \in T => j + 1 \in T
    BY <1>3
  <2> HIDE DEF T
  <2> QED BY <1>2, <2>1, SetInduction
<1> QED BY <1>4

-----------------------------------------------------------------------------
(* What the error term of an oval measures. *)

\* A square grows with the number squared, and a product with its factor.
LEMMA Squares ==
  ASSUME NEW u \in Nat, NEW w \in Nat, u <= w, NEW k \in Nat
  PROVE  u * u * k <= w * w * k
<1>1. u * u <= w * w
  OBVIOUS
<1>2. u * u \in Nat /\ w * w \in Nat /\ w * w - u * u \in Nat
  BY <1>1
<1>3. (w * w - u * u) * k \in Nat
  BY <1>2
<1>4. (w * w - u * u) * k = w * w * k - u * u * k
  BY <1>2
<1>5. u * u * k \in Int /\ w * w * k \in Int
  BY <1>2
<1> QED BY <1>3, <1>4, <1>5

\* The size of an oval: an even height has two rows in the middle.
LEMMA OvalSize ==
  ASSUME NEW c, IsOval(c)
  PROVE  /\ c.x \in Int /\ c.y \in Int /\ c.width = A(c) + 1 /\ c.height = B(c) + 1
         /\ A(c) \in Nat /\ B(c) \in Nat /\ B1(c) \in {0, 1} /\ B1(c) <= B(c)
         /\ c.height \div 2 \in Nat /\ 2 * (c.height \div 2) = B(c) + B1(c)
         /\ South(c) = c.y + c.height \div 2 - B1(c)
         /\ \A j \in Int : 2 * j + B1(c) # B(c) + 1
<1>1. /\ c.x \in Int /\ c.y \in Int /\ c.width \in Nat \ {0} /\ c.height \in Nat \ {0}
  BY DEF IsOval
<1> QED BY <1>1 DEF A, B, B1, South

\* Beyond is the same on both sides of the centre, and grows away from it.
LEMMA BeyondFacts ==
  ASSUME NEW c, IsOval(c), NEW u \in Int, NEW v \in Int
  PROVE  /\ Beyond(c, u, v) \in Int
         /\ Beyond(c, -u, v) = Beyond(c, u, v) /\ Beyond(c, u, -v) = Beyond(c, u, v)
         /\ Beyond(c, u + 2, v) = Beyond(c, u, v) + 4 * B(c) * B(c) * (u + 1)
         /\ Beyond(c, u, v + 2) = Beyond(c, u, v) + 4 * A(c) * A(c) * (v + 1)
<1> DEFINE a == A(c)
           b == B(c)
<1>1. a \in Int /\ b \in Int
  BY OvalSize
<1>2. \A s, t \in Int : Beyond(c, s, t) = s * s * b * b + t * t * a * a - a * a * b * b
  BY DEF Beyond
<1> HIDE DEF a, b
<1>3. \A k, s \in Int : /\ s * s * k * k \in Int
                        /\ (-s) * (-s) * k * k = s * s * k * k
                        /\ (s + 2) * (s + 2) * k * k = s * s * k * k + 4 * k * k * (s + 1)
                        /\ 4 * k * k * (s + 1) \in Int
  OBVIOUS
<1>4. a * a * b * b \in Int
  BY <1>1
<1>5. /\ u * u * b * b \in Int /\ v * v * a * a \in Int
      /\ 4 * b * b * (u + 1) \in Int /\ 4 * a * a * (v + 1) \in Int
      /\ -u \in Int /\ -v \in Int /\ u + 2 \in Int /\ v + 2 \in Int
  BY <1>1, <1>3
<1>6. Beyond(c, u, v) = u * u * b * b + v * v * a * a - a * a * b * b
  BY <1>2
<1>7. Beyond(c, -u, v) = u * u * b * b + v * v * a * a - a * a * b * b
  BY <1>1, <1>2, <1>3, <1>5
<1>8. Beyond(c, u, -v) = u * u * b * b + v * v * a * a - a * a * b * b
  BY <1>1, <1>2, <1>3, <1>5
<1>9. Beyond(c, u + 2, v) = u * u * b * b + 4 * b * b * (u + 1) + v * v * a * a - a * a * b * b
  BY <1>1, <1>2, <1>3, <1>5
<1>10. Beyond(c, u, v + 2) = u * u * b * b + (v * v * a * a + 4 * a * a * (v + 1)) - a * a * b * b
  BY <1>1, <1>2, <1>3, <1>5
<1> HIDE DEF a, b
<1>11. Beyond(c, u, v) \in Int
  BY <1>4, <1>5, <1>6
<1>12. Beyond(c, u + 2, v) = Beyond(c, u, v) + 4 * b * b * (u + 1)
  BY <1>4, <1>5, <1>6, <1>9
<1>13. Beyond(c, u, v + 2) = Beyond(c, u, v) + 4 * a * a * (v + 1)
  BY <1>4, <1>5, <1>6, <1>10
<1> QED BY <1>6, <1>7, <1>8, <1>11, <1>12, <1>13 DEF a, b

\* It grows with the distance along either axis.
LEMMA BeyondGrows ==
  ASSUME NEW c, IsOval(c), NEW u \in Nat, NEW w \in Nat, u <= w, NEW v \in Int
  PROVE  Beyond(c, u, v) <= Beyond(c, w, v) /\ Beyond(c, v, u) <= Beyond(c, v, w)
<1>1. A(c) \in Nat /\ B(c) \in Nat /\ A(c) * A(c) \in Nat /\ B(c) * B(c) \in Nat
  BY OvalSize
<1>2. \A s \in Int, k \in Int : s * s * k * k = s * s * (k * k) /\ s * s * k * k \in Int
  OBVIOUS
<1>3. u * u * B(c) * B(c) <= w * w * B(c) * B(c)
  BY <1>1, <1>2, Squares
<1>4. u * u * A(c) * A(c) <= w * w * A(c) * A(c)
  BY <1>1, <1>2, Squares
<1>5. /\ u * u * B(c) * B(c) \in Int /\ w * w * B(c) * B(c) \in Int /\ v * v * A(c) * A(c) \in Int
      /\ u * u * A(c) * A(c) \in Int /\ w * w * A(c) * A(c) \in Int /\ v * v * B(c) * B(c) \in Int
      /\ A(c) * A(c) * B(c) * B(c) \in Int
  BY <1>1
<1> QED BY <1>3, <1>4, <1>5 DEF Beyond

\* An ellipse passes through the middles of the sides of its box.
LEMMA BeyondSides ==
  ASSUME NEW c, IsOval(c)
  PROVE  /\ Beyond(c, A(c), 0) = 0 /\ Beyond(c, 0, B(c)) = 0
<1>1. A(c) \in Int /\ B(c) \in Int
  BY OvalSize
<1>2. \A a, b \in Int : /\ a * a * b * b + 0 * 0 * a * a - a * a * b * b = 0
                        /\ 0 * 0 * b * b + b * b * a * a - a * a * b * b = 0
  OBVIOUS
<1> QED BY <1>1, <1>2 DEF Beyond

\* So it keeps its sign towards the centre, or away from it.
LEMMA BeyondSigns ==
  ASSUME NEW c, IsOval(c), NEW u \in Nat, NEW w \in Nat, u <= w, NEW v \in Int
  PROVE  /\ Beyond(c, w, v) <= 0 => Beyond(c, u, v) <= 0
         /\ Beyond(c, u, v) >= 0 => Beyond(c, w, v) >= 0
         /\ Beyond(c, v, w) <= 0 => Beyond(c, v, u) <= 0
         /\ Beyond(c, v, u) >= 0 => Beyond(c, v, w) >= 0
<1>1. /\ Beyond(c, u, v) \in Int /\ Beyond(c, w, v) \in Int
      /\ Beyond(c, v, u) \in Int /\ Beyond(c, v, w) \in Int
  BY BeyondFacts
<1>2. Beyond(c, u, v) <= Beyond(c, w, v) /\ Beyond(c, v, u) <= Beyond(c, v, w)
  BY BeyondGrows
<1> QED BY <1>1, <1>2

\* How often the loop has stepped across and down, and twice the distances of its
\* point from the axes.
Across(c, s) == s.west - c.x
Down(c, s)   == s.north - (c.y + c.height \div 2)
Wide(c, s)   == A(c) - 2 * Across(c, s)
High(c, s)   == 2 * Down(c, s) + B1(c)

\* The four points of an iteration mirror each other.
Mirrored(c, s) ==
  /\ s \in OvalPos
  /\ Across(c, s) \in Nat /\ Down(c, s) \in Nat
  /\ s.east = c.x + A(c) - Across(c, s)
  /\ s.south = South(c) - Down(c, s)

\* The error term measures the point one step across and one step down, and dx and
\* dy what these steps add to it.
Measured(c, s) ==
  /\ s.dx = 4 * B(c) * B(c) * (1 - Wide(c, s))
  /\ s.dy = 4 * A(c) * A(c) * (High(c, s) + 1)
  /\ s.err = Beyond(c, Wide(c, s) - 2, High(c, s) + 2)

\* What a mirrored state's parts are.
LEMMA MirroredFacts ==
  ASSUME NEW c, IsOval(c), NEW s, Mirrored(c, s)
  PROVE  /\ s.west = c.x + Across(c, s) /\ s.north = c.y + c.height \div 2 + Down(c, s)
         /\ s.west \in Int /\ s.east \in Int /\ s.north \in Int /\ s.south \in Int
         /\ s.dx \in Int /\ s.dy \in Int /\ s.err \in Int
         /\ Wide(c, s) \in Int /\ High(c, s) \in Nat
         /\ Scanning(s) <=> Wide(c, s) >= 0
         /\ TipsMissing(c, s) <=> High(c, s) <= B(c)
<1>1. /\ s.west \in Int /\ s.east \in Int /\ s.north \in Int /\ s.south \in Int
      /\ s.dx \in Int /\ s.dy \in Int /\ s.err \in Int
  BY DEF Mirrored, OvalPos
<1>2. /\ c.x \in Int /\ c.y \in Int /\ A(c) \in Nat /\ B(c) \in Nat /\ B1(c) \in {0, 1}
      /\ c.height \div 2 \in Nat /\ South(c) = c.y + c.height \div 2 - B1(c)
      /\ c.height = B(c) + 1
  BY OvalSize
<1>3. /\ s.west = c.x + Across(c, s) /\ s.north = c.y + c.height \div 2 + Down(c, s)
      /\ Across(c, s) \in Nat /\ Down(c, s) \in Nat
  BY <1>1, <1>2 DEF Across, Down, Mirrored
<1>4. Wide(c, s) \in Int /\ High(c, s) \in Nat
  BY <1>2, <1>3 DEF Wide, High
<1>5. Scanning(s) <=> Wide(c, s) >= 0
  BY <1>2, <1>3 DEF Scanning, Wide, Mirrored
<1>6. TipsMissing(c, s) <=> High(c, s) <= B(c)
  BY <1>2, <1>3 DEF TipsMissing, High, Mirrored
<1> QED BY <1>1, <1>3, <1>4, <1>5, <1>6

\* The loop starts at the left end of the middle row, mirrored and measured.
LEMMA OvalStarts ==
  ASSUME NEW c, IsOval(c)
  PROVE  LET s == OvalStart(c)
         IN  /\ Mirrored(c, s) /\ Measured(c, s)
             /\ Across(c, s) = 0 /\ Down(c, s) = 0
<1> DEFINE s == OvalStart(c)
           a == A(c)
           b == B(c)
           b1 == B1(c)
<1>1. /\ c.x \in Int /\ c.y \in Int /\ a \in Nat /\ b \in Nat /\ b1 \in {0, 1}
      /\ c.height \div 2 \in Nat /\ South(c) \in Int
  BY OvalSize
<1>2. /\ s.north = c.y + c.height \div 2 /\ s.south = South(c)
      /\ s.west = c.x /\ s.east = c.x + a
      /\ s.dx = 4 * (1 - a) * b * b /\ s.dy = 4 * (b1 + 1) * a * a
      /\ s.err = 4 * (1 - a) * b * b + 4 * (b1 + 1) * a * a + b1 * a * a
  BY DEF OvalStart
<1>3. s \in OvalPos
  BY OvalLoopValue
<1>4. Across(c, s) = 0 /\ Down(c, s) = 0 /\ Wide(c, s) = a /\ High(c, s) = b1
  BY <1>1, <1>2 DEF Across, Down, Wide, High
<1>5. Mirrored(c, s)
  BY <1>1, <1>2, <1>3, <1>4 DEF Mirrored
<1>6. /\ 4 * (1 - a) * b * b = 4 * b * b * (1 - a) /\ 4 * b * b * (1 - a) \in Int
      /\ 4 * (b1 + 1) * a * a = 4 * a * a * (b1 + 1) /\ 4 * a * a * (b1 + 1) \in Int
      /\ 4 * b * b * ((a - 2) + 1) = -(4 * b * b * (1 - a))
      /\ b1 * a * a \in Int
  <2>1. \A k, l \in Int : /\ 4 * l * k * k = 4 * k * k * l /\ 4 * k * k * l \in Int
                          /\ l * k * k \in Int
    OBVIOUS
  <2>2. 1 - a \in Int /\ b1 + 1 \in Int
    BY <1>1
  <2>3. \A k, l \in Int : 4 * k * k * ((l - 2) + 1) = -(4 * k * k * (1 - l))
    OBVIOUS
  <2> HIDE DEF a, b, b1
  <2> QED BY <1>1, <2>1, <2>2, <2>3
<1>7. Beyond(c, a, b1) = b1 * a * a
  <2>1. \A k, l \in Int : /\ k * k * l * l + 0 * 0 * k * k - k * k * l * l = 0 * k * k
                          /\ k * k * l * l + 1 * 1 * k * k - k * k * l * l = 1 * k * k
    OBVIOUS
  <2> QED BY <1>1, <2>1 DEF Beyond
<1>8. Beyond(c, a, b1 + 2) = Beyond(c, a, b1) + 4 * a * a * (b1 + 1)
  BY <1>1, BeyondFacts
<1>9. /\ Beyond(c, (a - 2) + 2, b1 + 2) = Beyond(c, a - 2, b1 + 2) + 4 * b * b * ((a - 2) + 1)
      /\ (a - 2) + 2 = a /\ Beyond(c, a - 2, b1 + 2) \in Int
  BY <1>1, BeyondFacts
<1> HIDE DEF a, b, b1, s
<1>10. s.err = Beyond(c, a - 2, b1 + 2)
  BY <1>2, <1>6, <1>7, <1>8, <1>9
<1>11. Measured(c, s)
  BY <1>2, <1>4, <1>6, <1>10 DEF Measured, a, b, b1
<1> QED BY <1>4, <1>5, <1>11 DEF s

\* The loop steps down where the ellipse passes above the middle of the two rows,
\* and across where it passes left of the middle of the two columns; it always
\* does one or the other.
LEMMA ScanChooses ==
  ASSUME NEW c, IsOval(c), NEW s, Mirrored(c, s), Measured(c, s)
  PROVE  LET p == Wide(c, s)
             v == High(c, s)
         IN  /\ ScansDown(s) <=> Beyond(c, p - 2, v + 2) + Beyond(c, p - 2, v) <= 0
             /\ ScansAcross(c, s) <=>
                  \/ ~ScansDown(s)
                  \/ Beyond(c, p - 2, v + 2) + Beyond(c, p, v + 2) >= 0
<1> DEFINE p == Wide(c, s)
           v == High(c, s)
           a == A(c)
           b == B(c)
<1>1. /\ p \in Int /\ v \in Nat /\ a \in Nat /\ b \in Nat
      /\ s.dx \in Int /\ s.dy \in Int /\ s.err \in Int
  BY MirroredFacts, OvalSize
<1>2. /\ s.dx = 4 * b * b * (1 - p) /\ s.dy = 4 * a * a * (v + 1)
      /\ s.err = Beyond(c, p - 2, v + 2)
  BY DEF Measured
<1>3. /\ Beyond(c, p - 2, v + 2) = Beyond(c, p - 2, v) + 4 * a * a * (v + 1)
      /\ Beyond(c, p - 2, v) \in Int
  BY <1>1, BeyondFacts
<1>4. /\ Beyond(c, (p - 2) + 2, v + 2) = Beyond(c, p - 2, v + 2) + 4 * b * b * ((p - 2) + 1)
      /\ (p - 2) + 2 = p /\ Beyond(c, p, v + 2) \in Int
  BY <1>1, BeyondFacts
<1>5. 4 * b * b * ((p - 2) + 1) = -(4 * b * b * (1 - p)) /\ 8 * a * a \in Nat
  BY <1>1
<1> HIDE DEF p, v, a, b
<1>6. s.err = Beyond(c, p - 2, v) + s.dy /\ Beyond(c, p, v + 2) = s.err - s.dx
  BY <1>1, <1>2, <1>3, <1>4, <1>5
<1>7. ScansDown(s) <=> Beyond(c, p - 2, v + 2) + Beyond(c, p - 2, v) <= 0
  BY <1>1, <1>2, <1>3, <1>6 DEF ScansDown
<1>8. DyAfter(c, s) = (IF ScansDown(s) THEN s.dy + 8 * a * a ELSE s.dy)
  BY DEF DyAfter, a
<1>9. 2 * s.err > DyAfter(c, s) <=> ~ScansDown(s)
  BY <1>1, <1>5, <1>8 DEF ScansDown
<1>10. 2 * s.err >= s.dx <=> Beyond(c, p - 2, v + 2) + Beyond(c, p, v + 2) >= 0
  BY <1>1, <1>2, <1>4, <1>6
<1> QED BY <1>7, <1>9, <1>10 DEF ScansAcross, p, v

\* A scan steps as it chooses to, and leaves everything mirrored and measured.
LEMMA ScanSteps ==
  ASSUME NEW c, IsOval(c), NEW s, Mirrored(c, s), Measured(c, s)
  PROVE  LET t == Scan(c, s)
         IN  /\ Mirrored(c, t) /\ Measured(c, t)
             /\ Across(c, t) = Across(c, s) + (IF ScansAcross(c, s) THEN 1 ELSE 0)
             /\ Down(c, t) = Down(c, s) + (IF ScansDown(s) THEN 1 ELSE 0)
<1> DEFINE t == Scan(c, s)
           p == Wide(c, s)
           v == High(c, s)
           a == A(c)
           b == B(c)
           down   == IF ScansDown(s) THEN 1 ELSE 0
           across == IF ScansAcross(c, s) THEN 1 ELSE 0
           aa == 4 * a * a
           bb == 4 * b * b
           dx == s.dx + across * (2 * bb)
           dy == s.dy + down * (2 * aa)
<1>1. /\ p \in Int /\ v \in Nat /\ a \in Nat /\ b \in Nat
      /\ s.west \in Int /\ s.east \in Int /\ s.north \in Int /\ s.south \in Int
      /\ s.dx \in Int /\ s.dy \in Int /\ s.err \in Int
      /\ c.x \in Int /\ c.y \in Int /\ c.height \div 2 \in Nat
      /\ South(c) \in Int /\ B1(c) \in {0, 1}
  BY MirroredFacts, OvalSize
<1>2. down \in {0, 1} /\ across \in {0, 1} /\ aa \in Int /\ bb \in Int
  BY <1>1
<1>3. DyAfter(c, s) = dy
  BY <1>1 DEF DyAfter
<1>4. (IF ScansAcross(c, s) THEN s.dx + 8 * b * b ELSE s.dx) = dx
  BY <1>1
<1>5. t = [north |-> s.north + down, south |-> s.south - down,
           west |-> s.west + across, east |-> s.east - across,
           dx |-> dx, dy |-> dy, err |-> s.err + down * dy + across * dx]
  BY <1>3, <1>4 DEF Scan
<1>6. dx \in Int /\ dy \in Int /\ s.err + down * dy + across * dx \in Int
  BY <1>1, <1>2
<1>7. t \in OvalPos
  BY <1>1, <1>2, <1>5, <1>6 DEF OvalPos
<1>8. Across(c, t) = Across(c, s) + across /\ Down(c, t) = Down(c, s) + down
  BY <1>1, <1>2, <1>5 DEF Across, Down
<1>9. Wide(c, t) = p - 2 * across /\ High(c, t) = v + 2 * down
  <2>1. Across(c, s) \in Nat /\ Down(c, s) \in Nat
    BY DEF Mirrored
  <2> QED BY <1>1, <1>2, <1>8, <2>1 DEF Wide, High
<1>10. Mirrored(c, t)
  <2>1. /\ Across(c, s) \in Nat /\ Down(c, s) \in Nat
        /\ s.east = c.x + A(c) - Across(c, s) /\ s.south = South(c) - Down(c, s)
    BY DEF Mirrored
  <2>2. /\ t.east = s.east - across /\ t.south = s.south - down
    BY <1>5
  <2> QED BY <1>1, <1>2, <1>7, <1>8, <2>1, <2>2 DEF Mirrored
<1>11. s.dx = bb * (1 - p) /\ s.dy = aa * (v + 1) /\ s.err = Beyond(c, p - 2, v + 2)
  BY DEF Measured
<1>12. \A u, w \in Int : /\ Beyond(c, u, w) \in Int
                         /\ Beyond(c, u + 2, w) = Beyond(c, u, w) + bb * (u + 1)
                         /\ Beyond(c, u, w + 2) = Beyond(c, u, w) + aa * (w + 1)
  BY BeyondFacts
<1> DEFINE q == p - 2 * across
           w == v + 2 * down
<1> HIDE DEF t, p, v, a, b, down, across, aa, bb
<1>13. q \in Int /\ w \in Int
  BY <1>1, <1>2
<1>14. dx = bb * (1 - q)
  <2>1. CASE across = 0
    BY <1>1, <1>2, <1>11, <2>1
  <2>2. CASE across = 1
    <3>1. bb * (1 - p) + 2 * bb = bb * (1 - (p - 2))
      BY <1>1, <1>2
    <3> QED BY <1>1, <1>2, <1>11, <2>2, <3>1
  <2> QED BY <1>2, <2>1, <2>2
<1>15. dy = aa * (w + 1)
  <2>1. CASE down = 0
    BY <1>1, <1>2, <1>11, <2>1
  <2>2. CASE down = 1
    <3>1. aa * (v + 1) + 2 * aa = aa * ((v + 2) + 1)
      BY <1>1, <1>2
    <3> QED BY <1>1, <1>2, <1>11, <2>2, <3>1
  <2> QED BY <1>2, <2>1, <2>2
<1>16. Beyond(c, p - 2, w + 2) = s.err + down * dy
  <2>1. CASE down = 0
    BY <1>1, <1>2, <1>6, <1>11, <2>1
  <2>2. CASE down = 1
    <3>1. w = v + 2 /\ down * dy = dy /\ p - 2 \in Int /\ w \in Int
      BY <1>1, <1>6, <2>2
    <3>2. Beyond(c, p - 2, w + 2) = Beyond(c, p - 2, w) + aa * (w + 1)
      BY <1>12, <3>1
    <3> QED BY <1>11, <1>15, <3>1, <3>2
  <2> QED BY <1>2, <2>1, <2>2
<1>17. Beyond(c, q - 2, w + 2) = Beyond(c, p - 2, w + 2) + across * dx
  <2>1. CASE across = 0
    <3>1. q = p /\ across * dx = 0 /\ Beyond(c, p - 2, w + 2) \in Int
      BY <1>1, <1>6, <1>12, <1>13, <2>1
    <3> QED BY <3>1
  <2>2. CASE across = 1
    <3>1. q = p - 2 /\ across * dx = dx /\ q - 2 \in Int /\ w + 2 \in Int /\ (q - 2) + 2 = p - 2
      BY <1>1, <1>6, <1>13, <2>2
    <3>2. Beyond(c, p - 2, w + 2) = Beyond(c, q - 2, w + 2) + bb * ((q - 2) + 1)
      BY <1>12, <3>1
    <3>3. bb * ((q - 2) + 1) = -(bb * (1 - q)) /\ bb * (1 - q) \in Int
      BY <1>2, <1>13
    <3>4. Beyond(c, q - 2, w + 2) \in Int /\ Beyond(c, p - 2, w + 2) \in Int
      BY <1>1, <1>12, <3>1
    <3> HIDE DEF q, w, dx
    <3> QED BY <1>14, <3>1, <3>2, <3>3, <3>4
  <2> QED BY <1>2, <2>1, <2>2
<1>18. Measured(c, t)
  <2>1. t.dx = dx /\ t.dy = dy /\ t.err = s.err + down * dy + across * dx
    BY <1>5
  <2>2. t.err = Beyond(c, q - 2, w + 2)
    BY <1>16, <1>17, <2>1
  <2> QED BY <1>9, <1>14, <1>15, <2>1, <2>2 DEF Measured, aa, bb, a, b
<1> QED BY <1>8, <1>10, <1>18 DEF t, down, across

-----------------------------------------------------------------------------
(* An oval is round. *)

\* The ellipse passes within a pixel of a point.
NearEllipse(c, u, v) ==
  \/ Beyond(c, Inward(u), v) <= 0 /\ Beyond(c, Abs(u) + 2, v) >= 0
  \/ Beyond(c, u, Inward(v)) <= 0 /\ Beyond(c, u, Abs(v) + 2) >= 0

\* What Abs and Inward do to a distance.
LEMMA InwardFacts ==
  ASSUME NEW u \in Nat
  PROVE  /\ Abs(u) = u /\ Abs(-u) = u /\ Inward(-u) = Inward(u)
         /\ Inward(u) \in Nat /\ Inward(u) <= u /\ Inward(u) <= Abs(u - 2)
         /\ Abs(u - 2) \in Nat /\ Inward(u + 2) = u
         /\ u <= 2 => Inward(u) = 0
         /\ u >= 2 => Inward(u) = u - 2
BY DEF Abs, Inward

\* It does so on all four sides alike.
LEMMA NearMirrors ==
  ASSUME NEW c, IsOval(c), NEW u \in Nat, NEW v \in Nat, NearEllipse(c, u, v),
         NEW s \in {u, -u}, NEW t \in {v, -v}
  PROVE  NearEllipse(c, s, t)
<1>1. /\ Abs(s) = Abs(u) /\ Inward(s) = Inward(u) /\ Abs(t) = Abs(v) /\ Inward(t) = Inward(v)
      /\ Inward(u) \in Int /\ Inward(v) \in Int /\ Abs(u) + 2 \in Int /\ Abs(v) + 2 \in Int
  BY InwardFacts
<1>2. ASSUME NEW w \in Int
      PROVE  Beyond(c, w, t) = Beyond(c, w, v) /\ Beyond(c, s, w) = Beyond(c, u, w)
  <2>1. Beyond(c, w, -v) = Beyond(c, w, v)
    BY BeyondFacts
  <2>2. Beyond(c, -u, w) = Beyond(c, u, w)
    BY BeyondFacts
  <2>3. t = v \/ t = -v
    OBVIOUS
  <2>4. s = u \/ s = -u
    OBVIOUS
  <2>5. Beyond(c, w, t) = Beyond(c, w, v)
    BY <2>1, <2>3, Zenon
  <2>6. Beyond(c, s, w) = Beyond(c, u, w)
    BY <2>2, <2>4, Zenon
  <2> QED BY <2>5, <2>6
<1>3. /\ Beyond(c, Inward(u), t) = Beyond(c, Inward(u), v)
      /\ Beyond(c, Abs(u) + 2, t) = Beyond(c, Abs(u) + 2, v)
      /\ Beyond(c, s, Inward(v)) = Beyond(c, u, Inward(v))
      /\ Beyond(c, s, Abs(v) + 2) = Beyond(c, u, Abs(v) + 2)
  BY <1>1, <1>2
<1> QED BY <1>1, <1>3 DEF NearEllipse

\* The first point is in the middle of the left side, or next to it.
LEMMA NearFirst ==
  ASSUME NEW c, IsOval(c)
  PROVE  NearEllipse(c, A(c), B1(c))
<1>1. A(c) \in Nat /\ B1(c) \in {0, 1}
  BY OvalSize
<1>2. Inward(B1(c)) = 0 /\ Abs(B1(c)) = B1(c) /\ B1(c) + 2 \in Nat
  BY <1>1, InwardFacts
<1>3. Beyond(c, A(c), 0) = 0 /\ Beyond(c, A(c), 0) <= Beyond(c, A(c), B1(c) + 2)
  BY <1>1, <1>2, BeyondSides, BeyondGrows
<1>4. Beyond(c, A(c), B1(c) + 2) \in Int
  BY <1>1, <1>2, BeyondFacts
<1> QED BY <1>2, <1>3, <1>4 DEF NearEllipse

\* A step across from a point near the ellipse.
LEMMA NearAfterAcross ==
  ASSUME NEW c, IsOval(c), NEW p \in Nat, NEW v \in Nat, p >= 2, NearEllipse(c, p, v),
         Beyond(c, p - 2, v + 2) + Beyond(c, p - 2, v) > 0
  PROVE  NearEllipse(c, p - 2, v)
<1>1. /\ p - 2 \in Nat /\ p - 2 <= p /\ v + 2 \in Nat /\ v <= v + 2
      /\ Inward(v) \in Nat /\ Inward(v) <= v /\ Inward(p) = p - 2 /\ Abs(v) = v
  BY InwardFacts
<1>2. Beyond(c, p - 2, v + 2) >= 0
  <2>1. Beyond(c, p - 2, v) <= Beyond(c, p - 2, v + 2)
    BY <1>1, BeyondGrows
  <2>2. Beyond(c, p - 2, v) \in Int /\ Beyond(c, p - 2, v + 2) \in Int
    BY <1>1, BeyondFacts
  <2> QED BY <2>1, <2>2
<1>3. Beyond(c, p - 2, Inward(v)) <= 0
  <2>1. CASE Beyond(c, Inward(p), v) <= 0
    <3>1. Beyond(c, p - 2, v) <= 0
      BY <1>1, <2>1
    <3> QED BY <1>1, <3>1, BeyondSigns
  <2>2. CASE Beyond(c, p, Inward(v)) <= 0
    BY <1>1, <2>2, BeyondSigns
  <2> QED BY <2>1, <2>2 DEF NearEllipse
<1> QED BY <1>1, <1>2, <1>3 DEF NearEllipse

\* A step down.
LEMMA NearAfterDown ==
  ASSUME NEW c, IsOval(c), NEW p \in Nat, NEW v \in Nat, NearEllipse(c, p, v),
         Beyond(c, p - 2, v + 2) + Beyond(c, p, v + 2) < 0
  PROVE  NearEllipse(c, p, v + 2)
<1>1. /\ v + 2 \in Nat /\ v <= v + 2 /\ p + 2 \in Nat /\ p <= p + 2
      /\ Inward(p) \in Nat /\ Inward(p) <= p
      /\ Abs(p - 2) \in Nat /\ Inward(p) <= Abs(p - 2) /\ Abs(p) = p /\ Abs(v) = v
  BY InwardFacts
<1>2. Beyond(c, Abs(p - 2), v + 2) = Beyond(c, p - 2, v + 2)
  <2>1. p - 2 \in Int /\ Abs(p - 2) \in {p - 2, -(p - 2)}
    BY DEF Abs
  <2> QED BY <1>1, <2>1, BeyondFacts
<1>3. Beyond(c, Inward(p), v + 2) <= 0
  <2>1. /\ Beyond(c, Inward(p), v + 2) <= Beyond(c, p, v + 2)
        /\ Beyond(c, Inward(p), v + 2) <= Beyond(c, Abs(p - 2), v + 2)
    BY <1>1, BeyondGrows
  <2>2. /\ Beyond(c, Inward(p), v + 2) \in Int /\ Beyond(c, p, v + 2) \in Int
        /\ Beyond(c, p - 2, v + 2) \in Int
    BY <1>1, BeyondFacts
  <2> QED BY <1>2, <2>1, <2>2
<1>4. Beyond(c, p + 2, v + 2) >= 0
  <2>1. CASE Beyond(c, Abs(p) + 2, v) >= 0
    <3>1. Beyond(c, p + 2, v) >= 0
      BY <1>1, <2>1
    <3> QED BY <1>1, <3>1, BeyondSigns
  <2>2. CASE Beyond(c, p, Abs(v) + 2) >= 0
    <3>1. Beyond(c, p, v + 2) >= 0
      BY <1>1, <2>2
    <3> QED BY <1>1, <3>1, BeyondSigns
  <2> QED BY <2>1, <2>2 DEF NearEllipse
<1> QED BY <1>1, <1>3, <1>4 DEF NearEllipse

\* A step across and down.
LEMMA NearAfterBoth ==
  ASSUME NEW c, IsOval(c), NEW p \in Nat, NEW v \in Nat, p >= 2,
         Beyond(c, p - 2, v + 2) + Beyond(c, p - 2, v) <= 0,
         Beyond(c, p - 2, v + 2) + Beyond(c, p, v + 2) >= 0
  PROVE  NearEllipse(c, p - 2, v + 2)
<1>1. /\ p - 2 \in Nat /\ v + 2 \in Nat /\ v + 4 \in Nat /\ Inward(v + 2) = v
      /\ Inward(p - 2) \in Nat /\ Inward(p - 2) <= p - 2
      /\ Abs(p - 2) + 2 = p /\ Abs(v + 2) + 2 = v + 4
  BY InwardFacts DEF Abs
<1>2. \A s, t \in Int : Beyond(c, s, t) \in Int
  BY BeyondFacts
<1>3. /\ Beyond(c, p - 2, v) <= Beyond(c, p - 2, v + 2)
      /\ Beyond(c, p - 2, v + 2) <= Beyond(c, p, v + 2)
      /\ Beyond(c, p - 2, v + 2) <= Beyond(c, p - 2, v + 4)
      /\ Beyond(c, Inward(p - 2), v + 2) <= Beyond(c, p - 2, v + 2)
  BY <1>1, BeyondGrows
<1>4. /\ Beyond(c, p - 2, v) \in Int /\ Beyond(c, p - 2, v + 2) \in Int
      /\ Beyond(c, p, v + 2) \in Int /\ Beyond(c, p - 2, v + 4) \in Int
      /\ Beyond(c, Inward(p - 2), v + 2) \in Int
  BY <1>1, <1>2
<1>5. Beyond(c, p - 2, v) <= 0 /\ Beyond(c, p, v + 2) >= 0
  BY <1>3, <1>4
<1>6. CASE Beyond(c, p - 2, v + 2) <= 0
  <2>1. Beyond(c, Inward(p - 2), v + 2) <= 0
    BY <1>3, <1>4, <1>6
  <2> QED BY <1>1, <1>5, <2>1 DEF NearEllipse
<1>7. CASE Beyond(c, p - 2, v + 2) > 0
  <2>1. Beyond(c, p - 2, v + 4) >= 0
    BY <1>3, <1>4, <1>7
  <2> QED BY <1>1, <1>5, <2>1 DEF NearEllipse
<1> QED BY <1>4, <1>6, <1>7

\* A step down in the middle of the oval, as the second loop makes them.
LEMMA NearAfterTip ==
  ASSUME NEW c, IsOval(c), NEW p \in {0, 1}, NEW v \in Nat, v + 2 <= B(c),
         NearEllipse(c, p, v)
  PROVE  NearEllipse(c, p, v + 2)
<1>1. /\ v + 2 \in Nat /\ v <= v + 2 /\ p \in Nat /\ p + 2 \in Nat /\ p <= p + 2
      /\ Inward(p) = 0 /\ Abs(p) = p /\ Abs(v) = v /\ B(c) \in Nat
  BY InwardFacts, OvalSize
<1>2. Beyond(c, Inward(p), v + 2) <= 0
  <2>1. Beyond(c, 0, B(c)) <= 0
    BY BeyondSides
  <2> QED BY <1>1, <2>1, BeyondSigns
<1>3. Beyond(c, p + 2, v + 2) >= 0
  <2>1. CASE Beyond(c, Abs(p) + 2, v) >= 0
    <3>1. Beyond(c, p + 2, v) >= 0
      BY <1>1, <2>1
    <3> QED BY <1>1, <3>1, BeyondSigns
  <2>2. CASE Beyond(c, p, Abs(v) + 2) >= 0
    <3>1. Beyond(c, p, v + 2) >= 0
      BY <1>1, <2>2
    <3> QED BY <1>1, <3>1, BeyondSigns
  <2> QED BY <2>1, <2>2 DEF NearEllipse
<1> QED BY <1>1, <1>2, <1>3 DEF NearEllipse

\* A scan that goes on stays in the box, for below its last row even the middle of
\* the oval is beyond the ellipse.
LEMMA ScanStaysInBox ==
  ASSUME NEW c, IsOval(c), NEW s, Mirrored(c, s), Measured(c, s),
         Scanning(s), High(c, s) <= B(c), ScansDown(s),
         ScansAcross(c, s) => Wide(c, s) >= 2
  PROVE  High(c, s) + 2 <= B(c)
<1> DEFINE p == Wide(c, s)
           v == High(c, s)
           aa == 4 * A(c) * A(c) * (v + 1)
<1>1. /\ p \in Nat /\ v \in Nat /\ v + 2 \in Nat /\ v <= v + 2
      /\ A(c) \in Nat /\ B(c) \in Nat /\ p <= A(c)
  BY MirroredFacts, OvalSize DEF Wide, Mirrored
<1>2. /\ Beyond(c, p - 2, v + 2) \in Int /\ Beyond(c, p - 2, v) \in Int
      /\ Beyond(c, p, v + 2) \in Int
  BY <1>1, BeyondFacts
<1>3. Beyond(c, p - 2, v + 2) + Beyond(c, p - 2, v) <= 0
  BY ScanChooses
<1>4. ASSUME v = B(c) PROVE FALSE
  <2>1. Beyond(c, p - 2, v) >= 0
    <3>1. p - 2 \in Int /\ Abs(p - 2) \in {p - 2, -(p - 2)} /\ Abs(p - 2) \in Nat
      BY <1>1 DEF Abs
    <3>2. Beyond(c, p - 2, v) = Beyond(c, Abs(p - 2), v)
      <4>1. Beyond(c, -(p - 2), v) = Beyond(c, p - 2, v)
        BY <1>1, <3>1, BeyondFacts
      <4> HIDE DEF p, v
      <4> QED BY <3>1, <4>1
    <3>3. Beyond(c, 0, v) >= 0
      BY <1>4, BeyondSides
    <3>4. 0 \in Nat /\ 0 <= Abs(p - 2)
      BY <3>1
    <3>5. Beyond(c, Abs(p - 2), v) >= 0
      BY <1>1, <3>1, <3>3, <3>4, BeyondSigns
    <3> QED BY <3>2, <3>5
  <2>2. Beyond(c, p - 2, v + 2) = Beyond(c, p - 2, v) + aa
    BY <1>1, BeyondFacts
  <2>3. aa \in Nat /\ (A(c) >= 2 => aa > 0)
    <3>1. \A a, k \in Nat : /\ 4 * a * a * (k + 1) \in Nat
                            /\ a >= 2 => 4 * a * a * (k + 1) > 0
      OBVIOUS
    <3> QED BY <1>1, <3>1
  <2> HIDE DEF aa
  <2>4. Beyond(c, p - 2, v + 2) >= 0 /\ ~(aa > 0)
    BY <1>2, <1>3, <2>1, <2>2, <2>3
  <2>5. ~(p >= 2)
    BY <1>1, <2>3, <2>4
  <2>6. Beyond(c, p, v + 2) >= 0
    <3>1. Beyond(c, 0, v) >= 0 /\ 0 \in Nat /\ 0 <= p
      BY <1>1, <1>4, BeyondSides
    <3>2. Beyond(c, p, v) >= 0
      BY <1>1, <3>1, BeyondSigns
    <3> QED BY <1>1, <3>2, BeyondSigns
  <2>7. ScansAcross(c, s)
    <3>1. Beyond(c, p - 2, v + 2) + Beyond(c, p, v + 2) >= 0
      BY <1>2, <2>4, <2>6
    <3> QED BY <3>1, ScanChooses
  <2> QED BY <2>5, <2>7
<1>5. v # B(c) - 1
  <2>1. Down(c, s) + 1 \in Int /\ 2 * (Down(c, s) + 1) + B1(c) = v + 2
    BY OvalSize DEF Mirrored, High
  <2> QED BY <1>1, <2>1, OvalSize
<1> QED BY <1>1, <1>4, <1>5

\* An oval's loops on their way: while there are points to draw, every iteration
\* takes a step towards the end, and the ellipse passes near the point it draws,
\* which is in the box.  The second loop draws where the first has stopped.
OnTrack(c, s, n) ==
  /\ Mirrored(c, s)
  /\ Scanning(s) => /\ Measured(c, s) /\ High(c, s) <= B(c)
                    /\ NearEllipse(c, Wide(c, s), High(c, s))
  /\ ~Scanning(s) => /\ Wide(c, s) + 2 \in {0, 1}
                     /\ High(c, s) <= B(c) => NearEllipse(c, Wide(c, s) + 2, High(c, s))
  /\ Scanning(s) \/ TipsMissing(c, s) => Across(c, s) + Down(c, s) >= n

\* The loops start on their way.
LEMMA OnTrackStarts ==
  ASSUME NEW c, IsOval(c)
  PROVE  OnTrack(c, OvalStart(c), 0)
<1> DEFINE s == OvalStart(c)
<1>1. Mirrored(c, s) /\ Measured(c, s) /\ Across(c, s) = 0 /\ Down(c, s) = 0
  BY OvalStarts
<1>2. A(c) \in Nat /\ B1(c) \in {0, 1} /\ B1(c) <= B(c)
  BY OvalSize
<1> HIDE DEF s
<1>3. Wide(c, s) = A(c) /\ High(c, s) = B1(c)
  BY <1>1, <1>2 DEF Wide, High
<1>4. Scanning(s)
  BY <1>1, <1>2, <1>3, MirroredFacts
<1>5. NearEllipse(c, Wide(c, s), High(c, s))
  BY <1>3, NearFirst
<1>6. High(c, s) <= B(c) /\ Across(c, s) + Down(c, s) >= 0
  BY <1>1, <1>2, <1>3
<1>7. OnTrack(c, s, 0)
  BY <1>1, <1>4, <1>5, <1>6 DEF OnTrack
<1> QED BY <1>7 DEF s

\* A scan leaves them on their way.
LEMMA OnTrackScans ==
  ASSUME NEW c, IsOval(c), NEW n \in Nat, NEW s, OnTrack(c, s, n), Scanning(s)
  PROVE  OnTrack(c, Scan(c, s), n + 1)
<1> DEFINE t == Scan(c, s)
           p == Wide(c, s)
           v == High(c, s)
<1>1. /\ Mirrored(c, s) /\ Measured(c, s) /\ v <= B(c) /\ NearEllipse(c, p, v)
      /\ Across(c, s) + Down(c, s) >= n
  BY DEF OnTrack
<1>2. /\ Mirrored(c, t) /\ Measured(c, t)
      /\ Across(c, t) = Across(c, s) + (IF ScansAcross(c, s) THEN 1 ELSE 0)
      /\ Down(c, t) = Down(c, s) + (IF ScansDown(s) THEN 1 ELSE 0)
  BY <1>1, ScanSteps
<1>3. /\ p \in Nat /\ v \in Nat /\ A(c) \in Nat /\ B(c) \in Nat /\ B1(c) \in {0, 1}
      /\ Across(c, s) \in Nat /\ Down(c, s) \in Nat
  BY <1>1, MirroredFacts, OvalSize DEF Mirrored
<1>4. /\ ScansDown(s) <=> Beyond(c, p - 2, v + 2) + Beyond(c, p - 2, v) <= 0
      /\ ScansAcross(c, s) <=> \/ ~ScansDown(s)
                               \/ Beyond(c, p - 2, v + 2) + Beyond(c, p, v + 2) >= 0
  BY <1>1, ScanChooses
<1>5. /\ Beyond(c, p - 2, v + 2) \in Int /\ Beyond(c, p - 2, v) \in Int
      /\ Beyond(c, p, v + 2) \in Int
  BY <1>3, BeyondFacts
<1>6. ScansDown(s) \/ ScansAcross(c, s)
  BY <1>4
<1>7. /\ Wide(c, t) = p - (IF ScansAcross(c, s) THEN 2 ELSE 0)
      /\ High(c, t) = v + (IF ScansDown(s) THEN 2 ELSE 0)
  BY <1>2, <1>3 DEF Wide, High
<1>8. Across(c, t) + Down(c, t) >= n + 1
  BY <1>1, <1>2, <1>3, <1>6
<1>9. Scanning(t) <=> Wide(c, t) >= 0
  BY <1>2, MirroredFacts
<1> HIDE DEF t, p, v
<1>10. ASSUME Scanning(t)
       PROVE  High(c, t) <= B(c) /\ NearEllipse(c, Wide(c, t), High(c, t))
  <2>1. ScansAcross(c, s) => p >= 2
    BY <1>3, <1>7, <1>9, <1>10
  <2>2. CASE ~ScansDown(s)
    <3>1. /\ ScansAcross(c, s) /\ p >= 2 /\ Wide(c, t) = p - 2 /\ High(c, t) = v
          /\ Beyond(c, p - 2, v + 2) + Beyond(c, p - 2, v) > 0
      BY <1>3, <1>4, <1>5, <1>7, <2>1, <2>2
    <3> QED BY <1>1, <1>3, <3>1, NearAfterAcross
  <2>3. CASE ScansDown(s)
    <3>1. High(c, t) = v + 2
      BY <1>7, <2>3
    <3>2. v + 2 <= B(c)
      BY <1>1, <2>1, <2>3, ScanStaysInBox DEF p, v
    <3>3. CASE ~ScansAcross(c, s)
      <4>1. /\ Wide(c, t) = p
            /\ Beyond(c, p - 2, v + 2) + Beyond(c, p, v + 2) < 0
        BY <1>3, <1>4, <1>5, <1>7, <3>3
      <4> QED BY <1>1, <1>3, <3>1, <3>2, <4>1, NearAfterDown
    <3>4. CASE ScansAcross(c, s)
      <4>1. /\ Wide(c, t) = p - 2 /\ p >= 2
            /\ Beyond(c, p - 2, v + 2) + Beyond(c, p - 2, v) <= 0
            /\ Beyond(c, p - 2, v + 2) + Beyond(c, p, v + 2) >= 0
        BY <1>4, <1>7, <2>1, <2>3, <3>4
      <4> QED BY <1>3, <3>1, <3>2, <4>1, NearAfterBoth
    <3> QED BY <3>3, <3>4
  <2> QED BY <2>2, <2>3
<1>11. ASSUME ~Scanning(t)
       PROVE  /\ Wide(c, t) + 2 \in {0, 1}
              /\ High(c, t) <= B(c) => NearEllipse(c, Wide(c, t) + 2, High(c, t))
  <2>1. p \in {0, 1} /\ Wide(c, t) + 2 = p
    BY <1>3, <1>7, <1>9, <1>11
  <2>2. CASE ~ScansDown(s)
    <3>1. High(c, t) = v
      BY <1>3, <1>7, <2>2
    <3> QED BY <1>1, <2>1, <3>1
  <2>3. CASE ScansDown(s)
    <3>1. High(c, t) = v + 2
      BY <1>7, <2>3
    <3> QED BY <1>1, <1>3, <2>1, <3>1, NearAfterTip
  <2> QED BY <2>2, <2>3
<1>12. OnTrack(c, t, n + 1)
  BY <1>2, <1>8, <1>10, <1>11 DEF OnTrack
<1> QED BY <1>12 DEF t

\* So does a row of the tips.
LEMMA OnTrackTips ==
  ASSUME NEW c, IsOval(c), NEW n \in Nat, NEW s, OnTrack(c, s, n),
         ~Scanning(s), TipsMissing(c, s)
  PROVE  OnTrack(c, Tip(s), n + 1) /\ Down(c, Tip(s)) = Down(c, s) + 1
<1> DEFINE t == Tip(s)
           p == Wide(c, s) + 2
           v == High(c, s)
<1>1. /\ Mirrored(c, s) /\ s \in OvalPos /\ Across(c, s) + Down(c, s) >= n
      /\ p \in {0, 1} /\ (v <= B(c) => NearEllipse(c, p, v))
  BY DEF OnTrack, Mirrored
<1>2. /\ v \in Nat /\ v <= B(c) /\ Wide(c, s) \in Int /\ B(c) \in Nat /\ B1(c) \in {0, 1}
      /\ s.north \in Int /\ s.south \in Int /\ South(c) \in Int
      /\ c.y \in Int /\ c.height \div 2 \in Nat
  BY <1>1, MirroredFacts, OvalSize
<1>3. /\ t = [s EXCEPT !.north = s.north + 1, !.south = s.south - 1]
      /\ s.north + 1 \in Int /\ s.south - 1 \in Int
  BY <1>2 DEF Tip
<1>4. /\ t.north = s.north + 1 /\ t.south = s.south - 1
      /\ t.west = s.west /\ t.east = s.east /\ t \in OvalPos
  BY <1>1, <1>3 DEF OvalPos
<1> HIDE DEF t
<1>5. Across(c, t) = Across(c, s) /\ Down(c, t) = Down(c, s) + 1
  BY <1>2, <1>4 DEF Across, Down
<1>6. /\ Across(c, s) \in Nat /\ Down(c, s) \in Nat
      /\ s.east = c.x + A(c) - Across(c, s) /\ s.south = South(c) - Down(c, s)
  BY <1>1 DEF Mirrored
<1>7. Mirrored(c, t)
  BY <1>2, <1>4, <1>5, <1>6 DEF Mirrored
<1>8. Wide(c, t) = Wide(c, s) /\ High(c, t) = v + 2
  BY <1>2, <1>5, <1>6 DEF Wide, High
<1>9. ~Scanning(t)
  BY <1>1, <1>2, <1>7, <1>8, MirroredFacts
<1>10. High(c, t) <= B(c) => NearEllipse(c, Wide(c, t) + 2, High(c, t))
  BY <1>1, <1>2, <1>8, NearAfterTip
<1>11. Across(c, t) + Down(c, t) >= n + 1
  BY <1>1, <1>5, <1>6
<1>12. OnTrack(c, t, n + 1)
  BY <1>1, <1>7, <1>8, <1>9, <1>10, <1>11 DEF OnTrack
<1> QED BY <1>5, <1>12 DEF t

\* So the loops are on their way all along; and a row is never left out.
LEMMA OvalOnTrack ==
  ASSUME NEW c, IsOval(c), NEW n \in Nat
  PROVE  /\ OnTrack(c, OvalLoop(c)[n], n)
         /\ Down(c, OvalLoop(c)[n + 1]) <= Down(c, OvalLoop(c)[n]) + 1
<1> DEFINE S(k) == OvalLoop(c)[k]
           T == {k \in Nat : OnTrack(c, S(k), k)}
<1>1. ASSUME NEW k \in Nat, OnTrack(c, S(k), k)
      PROVE  OnTrack(c, S(k + 1), k + 1) /\ Down(c, S(k + 1)) <= Down(c, S(k)) + 1
  <2>1. S(k + 1) = OvalAfter(c, S(k))
    BY OvalLoopValue
  <2> HIDE DEF S
  <2>2. Mirrored(c, S(k)) /\ Down(c, S(k)) \in Nat
    BY <1>1 DEF OnTrack, Mirrored
  <2>3. CASE Scanning(S(k))
    <3>1. S(k + 1) = Scan(c, S(k))
      BY <2>1, <2>3 DEF OvalAfter
    <3>2. Measured(c, S(k))
      BY <1>1, <2>3 DEF OnTrack
    <3>3. Down(c, S(k + 1)) = Down(c, S(k)) + (IF ScansDown(S(k)) THEN 1 ELSE 0)
      BY <2>2, <3>1, <3>2, ScanSteps
    <3> QED BY <1>1, <2>2, <2>3, <3>1, <3>3, OnTrackScans
  <2>4. CASE ~Scanning(S(k)) /\ TipsMissing(c, S(k))
    <3>1. S(k + 1) = Tip(S(k))
      BY <2>1, <2>4 DEF OvalAfter
    <3> QED BY <1>1, <2>2, <2>4, <3>1, OnTrackTips
  <2>5. CASE ~Scanning(S(k)) /\ ~TipsMissing(c, S(k))
    <3>1. S(k + 1) = S(k)
      BY <2>1, <2>5 DEF OvalAfter
    <3> QED BY <1>1, <2>2, <2>5, <3>1 DEF OnTrack
  <2> QED BY <2>3, <2>4, <2>5
<1>2. 0 \in T
  BY OnTrackStarts, OvalLoopValue
<1>3. \A k \in Nat : k \in T => k + 1 \in T
  BY <1>1
<1>4. Nat \subseteq T
  <2> HIDE DEF T
  <2> QED BY <1>2, <1>3, SetInduction
<1> QED BY <1>1, <1>4

\* An iteration draws while either loop runs: the four points Outer columns in from
\* the sides of the box.
Draws(c, s) == Scanning(s) \/ TipsMissing(c, s)

Outer(c, s) == IF Scanning(s) THEN Across(c, s) ELSE Across(c, s) - 1

\* Where these points are.
LEMMA OutlinePoints ==
  ASSUME NEW c, IsOval(c), NEW n \in Nat, NEW s, OnTrack(c, s, n)
  PROVE  /\ OutlineOf(c, s) =
              IF Draws(c, s)
              THEN {c.x + Outer(c, s), c.x + A(c) - Outer(c, s)} \X {s.north, s.south} ELSE {}
         /\ Outer(c, s) \in Nat /\ 2 * Outer(c, s) <= A(c)
         /\ ~Scanning(s) => 2 * Outer(c, s) + 1 >= A(c)
         /\ s.north \in Int /\ s.south \in Int
         /\ 2 * (s.north - c.y) - B(c) = High(c, s)
         /\ 2 * (s.south - c.y) - B(c) = -High(c, s)
         /\ Draws(c, s) => /\ High(c, s) <= B(c)
                           /\ NearEllipse(c, A(c) - 2 * Outer(c, s), High(c, s))
<1>1. /\ Mirrored(c, s) /\ Across(c, s) \in Nat /\ Down(c, s) \in Nat
      /\ s.east = c.x + A(c) - Across(c, s) /\ s.south = South(c) - Down(c, s)
  BY DEF OnTrack, Mirrored
<1>2. /\ s.west = c.x + Across(c, s) /\ s.north = c.y + c.height \div 2 + Down(c, s)
      /\ s.north \in Int /\ s.south \in Int
      /\ Wide(c, s) \in Int /\ High(c, s) \in Nat
      /\ Scanning(s) <=> Wide(c, s) >= 0
      /\ TipsMissing(c, s) <=> High(c, s) <= B(c)
  BY <1>1, MirroredFacts
<1>3. /\ c.x \in Int /\ c.y \in Int /\ A(c) \in Nat /\ B(c) \in Nat /\ B1(c) \in {0, 1}
      /\ c.height \div 2 \in Nat /\ 2 * (c.height \div 2) = B(c) + B1(c)
      /\ South(c) = c.y + c.height \div 2 - B1(c)
  BY OvalSize
<1>4. /\ 2 * (s.north - c.y) - B(c) = High(c, s)
      /\ 2 * (s.south - c.y) - B(c) = -High(c, s)
  BY <1>1, <1>2, <1>3 DEF High
<1>5. CASE Scanning(s)
  <2>1. Outer(c, s) = Across(c, s) /\ Draws(c, s) /\ A(c) - 2 * Outer(c, s) = Wide(c, s)
    BY <1>5 DEF Outer, Draws, Wide
  <2>2. High(c, s) <= B(c) /\ NearEllipse(c, A(c) - 2 * Outer(c, s), High(c, s))
    BY <1>5, <2>1 DEF OnTrack
  <2>3. OutlineOf(c, s) = {c.x + Outer(c, s), c.x + A(c) - Outer(c, s)} \X {s.north, s.south}
    BY <1>1, <1>2, <1>5, <2>1 DEF OutlineOf
  <2>4. 2 * Outer(c, s) <= A(c)
    BY <1>1, <1>2, <1>3, <1>5, <2>1
  <2> QED BY <1>1, <1>2, <1>4, <1>5, <2>1, <2>2, <2>3, <2>4
<1>6. CASE ~Scanning(s)
  <2>1. Outer(c, s) = Across(c, s) - 1 /\ (Draws(c, s) <=> High(c, s) <= B(c))
    BY <1>2, <1>6 DEF Outer, Draws
  <2>2. /\ Wide(c, s) + 2 \in {0, 1} /\ Wide(c, s) + 2 = A(c) - 2 * Outer(c, s)
        /\ High(c, s) <= B(c) => NearEllipse(c, Wide(c, s) + 2, High(c, s))
    BY <1>1, <1>3, <1>6, <2>1 DEF OnTrack, Wide
  <2>3. /\ s.west - 1 = c.x + Outer(c, s) /\ s.east + 1 = c.x + A(c) - Outer(c, s)
    BY <1>1, <1>2, <1>3, <2>1
  <2>4. OutlineOf(c, s) =
          IF Draws(c, s)
          THEN {c.x + Outer(c, s), c.x + A(c) - Outer(c, s)} \X {s.north, s.south} ELSE {}
    BY <1>6, <2>3 DEF OutlineOf, Draws
  <2>5. Outer(c, s) \in Nat /\ 2 * Outer(c, s) <= A(c) /\ 2 * Outer(c, s) + 1 >= A(c)
    BY <1>1, <1>2, <1>3, <2>1, <2>2 DEF Wide
  <2> QED BY <1>2, <1>4, <1>6, <2>1, <2>2, <2>4, <2>5
<1> QED BY <1>5, <1>6

\* The filling of an iteration lies between its points.
LEMMA FillPoints ==
  ASSUME NEW c, IsOval(c), NEW n \in Nat, NEW s, OnTrack(c, s, n)
  PROVE  FillOf(s) =
           IF Scanning(s)
           THEN ((c.x + Outer(c, s) + 1)..(c.x + A(c) - Outer(c, s) - 1)) \X {s.north, s.south}
           ELSE {}
<1>1. /\ s.east - 1 = c.x + A(c) - Across(c, s) - 1
      /\ s.west + 1 = c.x + Across(c, s) + 1
  <2>1. Mirrored(c, s)
    BY DEF OnTrack
  <2>2. s.west = c.x + Across(c, s)
    BY <2>1, MirroredFacts
  <2>3. s.east = c.x + A(c) - Across(c, s) /\ Across(c, s) \in Nat
    BY <2>1 DEF Mirrored
  <2> QED BY <2>2, <2>3, OvalSize
<1>2. CASE Scanning(s)
  <2>1. Outer(c, s) = Across(c, s)
    BY <1>2 DEF Outer
  <2> QED BY <1>1, <1>2, <2>1 DEF FillOf
<1>3. CASE ~Scanning(s)
  BY <1>3 DEF FillOf
<1> QED BY <1>2, <1>3

\* The points of an oval are those of its iterations.
LEMMA OvalPoints ==
  ASSUME NEW c, IsOval(c)
  PROVE  /\ \A p : p \in Outline(c) <=> \E n \in Laps(c) : p \in OutlineOf(c, OvalLoop(c)[n])
         /\ \A p : p \in Fill(c) <=> \E n \in Laps(c) : p \in FillOf(OvalLoop(c)[n])
         /\ \A n \in Laps(c) : n \in Nat /\ OnTrack(c, OvalLoop(c)[n], n)
         /\ 0 \in Laps(c) /\ c.width + c.height \in Laps(c)
<1>1. c.width \in Nat /\ c.height \in Nat
  BY DEF IsOval
<1>2. \A n \in Laps(c) : n \in Nat
  BY <1>1 DEF Laps
<1>3. 0 \in Laps(c) /\ c.width + c.height \in Laps(c)
  BY <1>1 DEF Laps
<1>4. \A n \in Laps(c) : OnTrack(c, OvalLoop(c)[n], n)
  BY <1>2, OvalOnTrack
<1>5. \A p : p \in Outline(c) <=> \E n \in Laps(c) : p \in OutlineOf(c, OvalLoop(c)[n])
  BY DEF Outline
<1>6. \A p : p \in Fill(c) <=> \E n \in Laps(c) : p \in FillOf(OvalLoop(c)[n])
  BY DEF Fill
<1> QED BY <1>2, <1>3, <1>4, <1>5, <1>6

\* Every oval lies in its box and follows the ellipse.
LEMMA OvalIsRound == ASSUME NEW c, IsOval(c) PROVE IsRound(c)
<1> DEFINE box == (c.x..(c.x + A(c))) \X (c.y..(c.y + B(c)))
<1>1. /\ c.x \in Int /\ c.y \in Int /\ A(c) \in Nat /\ B(c) \in Nat
  BY OvalSize
<1>2. ASSUME NEW n \in Nat, NEW s, OnTrack(c, s, n), Draws(c, s)
      PROVE  /\ OutlineOf(c, s) \subseteq box /\ FillOf(s) \subseteq box
             /\ \A p \in OutlineOf(c, s) :
                  NearEllipse(c, 2 * (p[1] - c.x) - A(c), 2 * (p[2] - c.y) - B(c))
  <2> DEFINE e == Outer(c, s)
             v == High(c, s)
  <2>1. /\ OutlineOf(c, s) = {c.x + e, c.x + A(c) - e} \X {s.north, s.south}
        /\ e \in Nat /\ 2 * e <= A(c) /\ s.north \in Int /\ s.south \in Int
        /\ 2 * (s.north - c.y) - B(c) = v /\ 2 * (s.south - c.y) - B(c) = -v
        /\ v <= B(c) /\ NearEllipse(c, A(c) - 2 * e, v)
    BY <1>2, OutlinePoints
  <2>2. v \in Nat
    BY <1>2, MirroredFacts DEF OnTrack
  <2> HIDE DEF e, v
  <2>3. s.north \in c.y..(c.y + B(c)) /\ s.south \in c.y..(c.y + B(c))
    BY <1>1, <2>1, <2>2
  <2>4. OutlineOf(c, s) \subseteq box
    BY <1>1, <2>1, <2>3
  <2>5. FillOf(s) \subseteq box
    <3>1. FillOf(s) \subseteq ((c.x + e + 1)..(c.x + A(c) - e - 1)) \X {s.north, s.south}
      BY <1>2, FillPoints DEF e
    <3> QED BY <1>1, <2>1, <2>3, <3>1
  <2>6. ASSUME NEW p \in OutlineOf(c, s)
        PROVE  NearEllipse(c, 2 * (p[1] - c.x) - A(c), 2 * (p[2] - c.y) - B(c))
    <3>1. /\ 2 * (p[1] - c.x) - A(c) \in {A(c) - 2 * e, -(A(c) - 2 * e)}
          /\ 2 * (p[2] - c.y) - B(c) \in {v, -v}
      <4>1. p[1] \in {c.x + e, c.x + A(c) - e} /\ p[2] \in {s.north, s.south}
        BY <2>1
      <4> QED BY <1>1, <2>1, <2>2, <4>1
    <3>2. A(c) - 2 * e \in Nat
      BY <1>1, <2>1
    <3> QED BY <2>1, <2>2, <3>1, <3>2, NearMirrors
  <2> QED BY <2>4, <2>5, <2>6
<1>3. ASSUME NEW n \in Laps(c), NEW p, p \in OutlineOf(c, OvalLoop(c)[n])
      PROVE  p \in box /\ NearEllipse(c, 2 * (p[1] - c.x) - A(c), 2 * (p[2] - c.y) - B(c))
  <2>1. n \in Nat /\ OnTrack(c, OvalLoop(c)[n], n)
    BY OvalPoints
  <2>2. Draws(c, OvalLoop(c)[n])
    BY <1>3 DEF OutlineOf, Draws
  <2> HIDE DEF box
  <2> QED BY <1>2, <1>3, <2>1, <2>2
<1>4. ASSUME NEW n \in Laps(c), NEW p, p \in FillOf(OvalLoop(c)[n])
      PROVE  p \in box
  <2>1. n \in Nat /\ OnTrack(c, OvalLoop(c)[n], n)
    BY OvalPoints
  <2>2. Draws(c, OvalLoop(c)[n])
    BY <1>4 DEF FillOf, Draws
  <2> HIDE DEF box
  <2> QED BY <1>2, <1>4, <2>1, <2>2
<1> HIDE DEF box
<1>5. Outline(c) \cup Fill(c) \subseteq box
  BY <1>3, <1>4, OvalPoints
<1>6. ASSUME NEW p \in Outline(c)
      PROVE  NearEllipse(c, 2 * (p[1] - c.x) - A(c), 2 * (p[2] - c.y) - B(c))
  BY <1>3, OvalPoints
<1> QED BY <1>5, <1>6 DEF IsRound, NearEllipse, box

-----------------------------------------------------------------------------
(* An oval is whole. *)

\* Both loops end.
LEMMA OvalEnds ==
  ASSUME NEW c, IsOval(c)
  PROVE  ~Draws(c, OvalLoop(c)[c.width + c.height])
<1> DEFINE n == c.width + c.height
           s == OvalLoop(c)[n]
<1>1. n \in Nat /\ OnTrack(c, s, n)
  BY OvalPoints
<1>2. /\ A(c) \in Nat /\ B(c) \in Nat /\ B1(c) \in {0, 1} /\ n = A(c) + B(c) + 2
  BY OvalSize
<1>3. Across(c, s) \in Nat /\ Down(c, s) \in Nat
  BY <1>1 DEF OnTrack, Mirrored
<1> HIDE DEF n, s
<1>4. ASSUME Draws(c, s) PROVE FALSE
  <2>1. Across(c, s) + Down(c, s) >= n
    BY <1>1, <1>4 DEF OnTrack, Draws
  <2>2. High(c, s) <= B(c) /\ 2 * Outer(c, s) <= A(c)
    BY <1>1, <1>4, OutlinePoints
  <2>3. Across(c, s) <= Outer(c, s) + 1 /\ Outer(c, s) \in Int
    BY <1>3 DEF Outer
  <2>4. 2 * Down(c, s) <= B(c)
    BY <1>2, <1>3, <2>2 DEF High
  <2> QED BY <1>2, <1>3, <2>1, <2>2, <2>3, <2>4
<1> QED BY <1>4 DEF s, n

\* On its way to the tips the loop draws in every row.
LEMMA EveryRow ==
  ASSUME NEW c, IsOval(c), NEW j \in Nat, 2 * j + B1(c) <= B(c)
  PROVE  \E n \in Laps(c) : Draws(c, OvalLoop(c)[n]) /\ Down(c, OvalLoop(c)[n]) = j
<1> DEFINE S(k) == OvalLoop(c)[k]
           T == {k \in Nat : Down(c, S(k)) > j}
           last == c.width + c.height
<1>1. /\ last \in Nat /\ B(c) \in Nat /\ B1(c) \in {0, 1}
  BY OvalSize, OvalPoints
<1>2. \A k \in Nat : /\ Down(c, S(k)) \in Nat /\ Mirrored(c, S(k))
                     /\ Down(c, S(k + 1)) <= Down(c, S(k)) + 1
  BY OvalOnTrack DEF OnTrack, Mirrored
<1>3. last \in T
  <2>1. ~TipsMissing(c, S(last))
    BY OvalEnds DEF Draws
  <2>2. High(c, S(last)) > B(c)
    <3>1. /\ TipsMissing(c, S(last)) <=> High(c, S(last)) <= B(c)
          /\ High(c, S(last)) \in Nat
      BY <1>1, <1>2, MirroredFacts
    <3> HIDE DEF S, last
    <3> QED BY <1>1, <2>1, <3>1
  <2>3. 2 * Down(c, S(last)) + B1(c) > B(c) /\ Down(c, S(last)) \in Nat
    BY <1>1, <1>2, <2>2 DEF High
  <2> HIDE DEF S, last
  <2>4. Down(c, S(last)) > j
    BY <1>1, <2>3
  <2> QED BY <1>1, <2>4
<1>4. PICK n \in T : \A m \in T : ~(m < n)
  <2>1. T \in SUBSET Nat /\ T # {}
    BY <1>3
  <2> HIDE DEF T
  <2> QED BY <2>1, Least
<1>5. n \in Nat /\ n # 0
  <2>1. Down(c, S(0)) = 0
    BY OvalStarts, OvalLoopValue
  <2> HIDE DEF S
  <2> QED BY <1>4, <2>1
<1>6. n - 1 \in Nat /\ (n - 1) + 1 = n /\ n - 1 \in Laps(c)
  <2>1. n <= last
    BY <1>1, <1>3, <1>4, <1>5
  <2> QED BY <1>1, <1>5, <2>1 DEF Laps
<1>7. Down(c, S(n - 1)) = j
  <2> HIDE DEF S
  <2>1. Down(c, S(n - 1)) <= j
    BY <1>2, <1>4, <1>5, <1>6
  <2>2. Down(c, S(n)) > j /\ Down(c, S(n)) <= Down(c, S(n - 1)) + 1 /\ Down(c, S(n)) \in Nat
    BY <1>2, <1>4, <1>6
  <2>3. Down(c, S(n - 1)) \in Nat
    BY <1>2, <1>6
  <2> QED BY <2>1, <2>2, <2>3
<1>8. Draws(c, S(n - 1))
  <2>1. S((n - 1) + 1) = OvalAfter(c, S(n - 1))
    BY <1>6, OvalLoopValue
  <2>2. S(n) # S(n - 1)
    BY <1>4, <1>7
  <2> HIDE DEF S
  <2> QED BY <1>6, <2>1, <2>2 DEF OvalAfter, Draws
<1> QED BY <1>6, <1>7, <1>8

\* Whatever lies between two points of one row is drawn too: by the iteration whose
\* point is further out.
LEMMA BetweenPoints ==
  ASSUME NEW c, IsOval(c), NEW m \in Laps(c), NEW n \in Laps(c),
         NEW p \in OutlineOf(c, OvalLoop(c)[m]), NEW q \in OutlineOf(c, OvalLoop(c)[n]),
         p[2] = q[2], NEW x \in Int, (p[1] <= x /\ x <= q[1]) \/ (q[1] <= x /\ x <= p[1]),
         Outer(c, OvalLoop(c)[m]) <= Outer(c, OvalLoop(c)[n])
  PROVE  <<x, p[2]>> \in Outline(c) \cup Fill(c)
<1> DEFINE s == OvalLoop(c)[m]
           t == OvalLoop(c)[n]
           d == Outer(c, s)
           e == Outer(c, t)
<1>1. m \in Nat /\ OnTrack(c, s, m) /\ n \in Nat /\ OnTrack(c, t, n)
  BY OvalPoints
<1>2. c.x \in Int /\ A(c) \in Nat
  BY OvalSize
<1>3. Draws(c, s) /\ Draws(c, t)
  BY DEF OutlineOf, Draws
<1>4. /\ OutlineOf(c, s) = {c.x + d, c.x + A(c) - d} \X {s.north, s.south}
      /\ d \in Nat /\ 2 * d <= A(c)
      /\ ~Scanning(s) => 2 * d + 1 >= A(c)
  BY <1>1, <1>3, OutlinePoints
<1>5. /\ OutlineOf(c, t) = {c.x + e, c.x + A(c) - e} \X {t.north, t.south}
      /\ e \in Nat /\ 2 * e <= A(c)
  BY <1>1, <1>3, OutlinePoints
<1>6. FillOf(s) = IF Scanning(s)
                  THEN ((c.x + d + 1)..(c.x + A(c) - d - 1)) \X {s.north, s.south} ELSE {}
  BY <1>1, FillPoints
<1>7. /\ p[1] \in {c.x + d, c.x + A(c) - d} /\ p[2] \in {s.north, s.south}
      /\ q[1] \in {c.x + e, c.x + A(c) - e} /\ d <= e
  BY <1>4, <1>5
<1>8. Outline(c) \cup Fill(c) = {r \in Outline(c) \cup Fill(c) : TRUE}
      /\ OutlineOf(c, s) \subseteq Outline(c) /\ FillOf(s) \subseteq Fill(c)
  BY OvalPoints
<1> HIDE DEF s, t, d, e
<1>9. c.x + d <= x /\ x <= c.x + A(c) - d
  BY <1>2, <1>4, <1>5, <1>7
<1>10. CASE x \in {c.x + d, c.x + A(c) - d}
  BY <1>4, <1>7, <1>8, <1>10
<1>11. CASE x \notin {c.x + d, c.x + A(c) - d}
  <2>1. x \in (c.x + d + 1)..(c.x + A(c) - d - 1)
    BY <1>2, <1>4, <1>9, <1>11
  <2>2. Scanning(s)
    BY <1>2, <1>4, <1>9, <1>11
  <2> QED BY <1>6, <1>7, <1>8, <2>1, <2>2
<1> QED BY <1>10, <1>11

\* Every oval is whole.
LEMMA OvalIsWhole == ASSUME NEW c, IsOval(c) PROVE IsWhole(c)
<1> DEFINE outline == Outline(c)
           all     == outline \cup Fill(c)
           last    == OvalLoop(c)[c.width + c.height]
<1>1. /\ c.x \in Int /\ c.y \in Int /\ A(c) \in Nat /\ B(c) \in Nat /\ B1(c) \in {0, 1}
      /\ B1(c) <= B(c) /\ 2 * (c.height \div 2) = B(c) + B1(c) /\ c.height \div 2 \in Nat
      /\ South(c) = c.y + c.height \div 2 - B1(c)
  BY OvalSize
<1>2. all \subseteq (c.x..(c.x + A(c))) \X (c.y..(c.y + B(c)))
  BY OvalIsRound DEF IsRound
<1>3. ~Scanning(last) /\ ~TipsMissing(c, last)
  BY OvalEnds DEF Draws
<1>4. {p[1] : p \in all} = c.x..(c.x + A(c))
  <2> DEFINE s == OvalStart(c)
  <2>1. /\ Mirrored(c, s) /\ Across(c, s) = 0 /\ OnTrack(c, s, 0) /\ 0 \in Nat
    BY OvalStarts, OnTrackStarts
  <2>2. Scanning(s)
    BY <1>1, <2>1, MirroredFacts DEF Wide
  <2>3. /\ Outer(c, s) = 0 /\ Draws(c, s)
        /\ OutlineOf(c, s) = {c.x + Outer(c, s), c.x + A(c) - Outer(c, s)} \X {s.north, s.south}
        /\ FillOf(s) = ((c.x + Outer(c, s) + 1)..(c.x + A(c) - Outer(c, s) - 1)) \X {s.north, s.south}
    BY <2>1, <2>2, OutlinePoints, FillPoints DEF Outer, Draws
  <2>4. OutlineOf(c, s) \subseteq all /\ FillOf(s) \subseteq all
    BY OvalPoints, OvalLoopValue
  <2> HIDE DEF s, all
  <2>5. ASSUME NEW x \in c.x..(c.x + A(c)) PROVE <<x, s.north>> \in all
    <3>1. x \in {c.x, c.x + A(c)} \/ x \in (c.x + 1)..(c.x + A(c) - 1)
      BY <1>1
    <3>2. /\ c.x + Outer(c, s) = c.x /\ c.x + A(c) - Outer(c, s) = c.x + A(c)
          /\ c.x + Outer(c, s) + 1 = c.x + 1 /\ c.x + A(c) - Outer(c, s) - 1 = c.x + A(c) - 1
      BY <1>1, <2>3
    <3> QED BY <2>3, <2>4, <3>1, <3>2
  <2>6. \A x \in c.x..(c.x + A(c)) : \E p \in all : p[1] = x
    BY <2>5
  <2> QED BY <1>2, <2>6
<1>5. {p[2] : p \in outline} = c.y..(c.y + B(c))
  <2>1. ASSUME NEW y \in c.y..(c.y + B(c)) PROVE \E p \in outline : p[2] = y
    <3> DEFINE j == IF y >= c.y + c.height \div 2 THEN y - (c.y + c.height \div 2)
                    ELSE South(c) - y
    <3>1. j \in Nat /\ 2 * j + B1(c) <= B(c)
      BY <1>1
    <3>2. PICK n \in Laps(c) : Draws(c, OvalLoop(c)[n]) /\ Down(c, OvalLoop(c)[n]) = j
      <4> HIDE DEF j
      <4> QED BY <3>1, EveryRow
    <3> DEFINE s == OvalLoop(c)[n]
    <3>3. /\ n \in Nat /\ OnTrack(c, s, n) /\ Mirrored(c, s)
      BY OvalPoints DEF OnTrack
    <3>4. /\ OutlineOf(c, s) = {c.x + Outer(c, s), c.x + A(c) - Outer(c, s)} \X {s.north, s.south}
      BY <3>2, <3>3, OutlinePoints
    <3>5. s.north = c.y + c.height \div 2 + j /\ s.south = South(c) - j
      BY <3>2, <3>3, MirroredFacts DEF Mirrored
    <3>6. y \in {s.north, s.south}
      BY <1>1, <3>5
    <3>7. <<c.x + Outer(c, s), y>> \in OutlineOf(c, s)
      BY <3>4, <3>6
    <3>8. <<c.x + Outer(c, s), y>> \in outline
      BY <3>2, <3>7, OvalPoints
    <3> QED BY <3>8
  <2> QED BY <1>2, <2>1
<1>6. ASSUME NEW p \in outline
      PROVE  /\ <<2 * c.x + A(c) - p[1], p[2]>> \in outline
             /\ <<p[1], 2 * c.y + B(c) - p[2]>> \in outline
  <2>1. PICK n \in Laps(c) : p \in OutlineOf(c, OvalLoop(c)[n])
    BY OvalPoints
  <2> DEFINE s == OvalLoop(c)[n]
             e == Outer(c, s)
  <2>2. n \in Nat /\ OnTrack(c, s, n) /\ Draws(c, s)
    BY <2>1, OvalPoints DEF OutlineOf, Draws
  <2>3. /\ OutlineOf(c, s) = {c.x + e, c.x + A(c) - e} \X {s.north, s.south}
        /\ e \in Nat /\ s.north \in Int /\ s.south \in Int
        /\ 2 * (s.north - c.y) - B(c) = High(c, s) /\ 2 * (s.south - c.y) - B(c) = -High(c, s)
    BY <2>2, OutlinePoints
  <2>4. High(c, s) \in Nat
    BY <2>2, MirroredFacts DEF OnTrack
  <2>5. OutlineOf(c, s) \subseteq outline
    BY OvalPoints
  <2>6. p \in OutlineOf(c, s)
    BY <2>1
  <2> HIDE DEF s, e
  <2>7. p[1] \in {c.x + e, c.x + A(c) - e} /\ p[2] \in {s.north, s.south}
    BY <2>3, <2>6
  <2>8. /\ 2 * c.x + A(c) - p[1] \in {c.x + e, c.x + A(c) - e}
        /\ 2 * c.y + B(c) - p[2] \in {s.north, s.south}
    <3>1. 2 * c.x + A(c) - p[1] \in {c.x + e, c.x + A(c) - e}
      BY <1>1, <2>3, <2>7
    <3>2. s.south = 2 * c.y + B(c) - s.north /\ s.north = 2 * c.y + B(c) - s.south
      BY <1>1, <2>3, <2>4
    <3> QED BY <2>7, <3>1, <3>2
  <2> QED BY <2>3, <2>5, <2>7, <2>8
<1>7. ASSUME NEW p \in outline, NEW q \in outline, p[2] = q[2]
      PROVE  (p[1]..q[1]) \X {p[2]} \subseteq all
  <2>1. PICK m \in Laps(c) : p \in OutlineOf(c, OvalLoop(c)[m])
    BY OvalPoints
  <2>2. PICK n \in Laps(c) : q \in OutlineOf(c, OvalLoop(c)[n])
    BY OvalPoints
  <2>3. /\ Outer(c, OvalLoop(c)[m]) \in Nat /\ Outer(c, OvalLoop(c)[n]) \in Nat
    BY OvalPoints, OutlinePoints
  <2>4. p[1] \in Int /\ q[1] \in Int
    BY <1>1, <1>2
  <2>5. ASSUME NEW x \in p[1]..q[1] PROVE <<x, p[2]>> \in all
    <3>1. x \in Int /\ p[1] <= x /\ x <= q[1]
      BY <2>4
    <3>2. CASE Outer(c, OvalLoop(c)[m]) <= Outer(c, OvalLoop(c)[n])
      <4>1. <<x, p[2]>> \in Outline(c) \cup Fill(c)
        BY <1>7, <2>1, <2>2, <3>1, <3>2, BetweenPoints
      <4> QED BY <4>1
    <3>3. CASE Outer(c, OvalLoop(c)[n]) <= Outer(c, OvalLoop(c)[m])
      <4>1. <<x, q[2]>> \in all
        BY <1>7, <2>1, <2>2, <3>1, <3>3, BetweenPoints
      <4> QED BY <1>7, <4>1
    <3> QED BY <2>3, <3>2, <3>3
  <2> HIDE DEF all
  <2> QED BY <2>5
<1> QED BY <1>3, <1>4, <1>5, <1>6, <1>7 DEF IsWhole

-----------------------------------------------------------------------------
(* The places of points. *)

Point == (0..(Width - 1)) \X (0..(Height - 1))

RowBytes == Width \div 4

\* A number is four times its quarter and a remainder of 0 to 3.
LEMMA Quartered ==
  ASSUME NEW k \in Int, NEW r \in Int
  PROVE  (4 * k + r) \div 4 = k + r \div 4 /\ (4 * k + r) % 4 = r % 4
OBVIOUS

\* The framebuffer has RowBytes bytes for each row of the screen.
LEMMA SizeFacts ==
  /\ Width \in Nat \ {0} /\ Height \in Nat \ {0} /\ RowBytes \in Nat \ {0}
  /\ Width = 4 * RowBytes
  /\ (Width * Height) \div 4 = RowBytes * Height
<1>1. Width \in Nat \ {0} /\ Height \in Nat \ {0} /\ Width % 4 = 0
  BY SizeAssumption
<1>2. RowBytes \in Nat \ {0} /\ Width = 4 * RowBytes
  BY <1>1 DEF RowBytes
<1>3. RowBytes * Height \in Int
  BY <1>1, <1>2
<1>4. Width * Height = 4 * (RowBytes * Height) + 0
  BY <1>1, <1>2, <1>3
<1>5. (4 * (RowBytes * Height) + 0) \div 4 = RowBytes * Height
  BY <1>3
<1> QED BY <1>1, <1>2, <1>4, <1>5

\* A row of the screen is RowBytes bytes, one after the other.
LEMMA AtValue ==
  ASSUME NEW x \in Int, NEW y \in Int
  PROVE  /\ At(x, y) = <<RowBytes * y + x \div 4, x % 4>>
         /\ (Width * y + x) \div 4 = RowBytes * y + x \div 4
         /\ (Width * y + x) % 4 = x % 4
<1>1. RowBytes * y \in Int /\ Width * y = 4 * (RowBytes * y)
  BY SizeFacts
<1>2. /\ (4 * (RowBytes * y) + x) \div 4 = RowBytes * y + x \div 4
      /\ (4 * (RowBytes * y) + x) % 4 = x % 4
  BY <1>1, Quartered
<1> QED BY <1>1, <1>2 DEF At

\* A row ends before the next begins.
LEMMA RowBounds ==
  ASSUME NEW K \in Nat, NEW y \in Int, NEW z \in Int, y < z
  PROVE  K * y \in Int /\ K * z \in Int /\ K * y + K <= K * z
<1>1. z - y \in Int /\ z - y >= 1
  OBVIOUS
<1>2. K * (z - y) >= K
  BY <1>1, Multiples
<1>3. K * (z - y) = K * z - K * y /\ K * y \in Int /\ K * z \in Int
  OBVIOUS
<1> QED BY <1>2, <1>3

\* Each point of the screen has a place in the framebuffer, and its own.
LEMMA AtType ==
  ASSUME NEW p \in Point
  PROVE  At(p[1], p[2]) \in Place
<1>1. p[1] \in 0..(4 * RowBytes - 1) /\ p[2] \in 0..(Height - 1)
  BY SizeFacts DEF Point
<1>2. p[1] \div 4 \in 0..(RowBytes - 1) /\ p[1] % 4 \in 0..3
  BY <1>1, SizeFacts
<1>3. /\ RowBytes * p[2] \in Int /\ RowBytes * Height \in Int
      /\ RowBytes * p[2] + RowBytes <= RowBytes * Height
  BY <1>1, SizeFacts, RowBounds
<1>4. RowBytes * p[2] >= 0
  <2>1. CASE p[2] = 0
    BY <2>1, SizeFacts
  <2>2. CASE p[2] # 0
    <3>1. p[2] \in Int /\ p[2] >= 1
      BY <1>1, <2>2
    <3> QED BY <3>1, SizeFacts, Multiples
  <2> QED BY <2>1, <2>2
<1>5. RowBytes * p[2] + p[1] \div 4 \in 0..(RowBytes * Height - 1)
  BY <1>2, <1>3, <1>4, SizeFacts
<1>6. At(p[1], p[2]) = <<RowBytes * p[2] + p[1] \div 4, p[1] % 4>>
  <2>1. p[1] \in Int /\ p[2] \in Int
    BY <1>1, SizeFacts
  <2> QED BY <2>1, AtValue
<1>7. Place = (0..(RowBytes * Height - 1)) \X (0..3)
  BY SizeFacts DEF Place
<1> QED BY <1>2, <1>5, <1>6, <1>7

\* Two points of the screen have different places.
LEMMA AtInjective ==
  ASSUME NEW p \in Point, NEW q \in Point, At(p[1], p[2]) = At(q[1], q[2])
  PROVE  p = q
<1>1. /\ p[1] \in 0..(4 * RowBytes - 1) /\ p[2] \in Int
      /\ q[1] \in 0..(4 * RowBytes - 1) /\ q[2] \in Int
      /\ p = <<p[1], p[2]>> /\ q = <<q[1], q[2]>>
  BY SizeFacts DEF Point
<1>2. /\ p[1] \div 4 \in 0..(RowBytes - 1) /\ q[1] \div 4 \in 0..(RowBytes - 1)
  BY <1>1, SizeFacts
<1>3. /\ RowBytes * p[2] + p[1] \div 4 = RowBytes * q[2] + q[1] \div 4
      /\ p[1] % 4 = q[1] % 4
  BY <1>1, SizeFacts, AtValue
<1>4. p[2] = q[2]
  <2>1. ~(p[2] < q[2])
    <3>1. SUFFICES ASSUME p[2] < q[2] PROVE FALSE
      OBVIOUS
    <3>2. /\ RowBytes * p[2] \in Int /\ RowBytes * q[2] \in Int
          /\ RowBytes * p[2] + RowBytes <= RowBytes * q[2]
      BY <1>1, <3>1, SizeFacts, RowBounds
    <3> QED BY <1>2, <1>3, <3>2, SizeFacts
  <2>2. ~(q[2] < p[2])
    <3>1. SUFFICES ASSUME q[2] < p[2] PROVE FALSE
      OBVIOUS
    <3>2. /\ RowBytes * p[2] \in Int /\ RowBytes * q[2] \in Int
          /\ RowBytes * q[2] + RowBytes <= RowBytes * p[2]
      BY <1>1, <3>1, SizeFacts, RowBounds
    <3> QED BY <1>2, <1>3, <3>2, SizeFacts
  <2> QED BY <1>1, <2>1, <2>2
<1>5. p[1] \div 4 = q[1] \div 4
  <2>1. RowBytes * p[2] = RowBytes * q[2] /\ RowBytes * p[2] \in Int
    BY <1>1, <1>4, SizeFacts
  <2> QED BY <1>2, <1>3, <2>1
<1>6. p[1] = q[1]
  BY <1>1, <1>3, <1>5
<1> QED BY <1>1, <1>4, <1>6

\* The places of a shape that lies on the screen.
Places(shape) == {At(p[1], p[2]) : p \in shape}

\* The places of the points of a shape on the screen are places of the framebuffer,
\* and those of no other point.
LEMMA PlacesOfShape ==
  ASSUME NEW shape \in SUBSET Point
  PROVE  /\ Places(shape) \subseteq Place
         /\ \A p \in Point : At(p[1], p[2]) \in Places(shape) <=> p \in shape
<1>1. Places(shape) \subseteq Place
  BY AtType DEF Places
<1>2. ASSUME NEW p \in Point, At(p[1], p[2]) \in Places(shape) PROVE p \in shape
  <2>1. PICK q \in shape : At(p[1], p[2]) = At(q[1], q[2])
    BY <1>2 DEF Places
  <2> QED BY <2>1, AtInjective
<1>3. \A p \in shape : At(p[1], p[2]) \in Places(shape)
  BY DEF Places
<1> QED BY <1>1, <1>2, <1>3

\* What the framebuffer holds while nothing is written outside it.
Memory == [Place -> Colour]

\* What memory shows once a shape is written to it.
LEMMA WrittenShows ==
  ASSUME NEW m \in Memory, NEW shape \in SUBSET Point, NEW c \in Colour
  PROVE  /\ Written(m, Places(shape), c) \in Memory
         /\ \A p \in Point : Written(m, Places(shape), c)[At(p[1], p[2])] =
                               IF p \in shape THEN c ELSE m[At(p[1], p[2])]
<1>1. DOMAIN m \cup Places(shape) = Place
  BY PlacesOfShape DEF Memory
<1>2. Written(m, Places(shape), c) = [s \in Place |-> IF s \in Places(shape) THEN c ELSE m[s]]
  BY <1>1 DEF Written
<1>3. Written(m, Places(shape), c) \in Memory
  BY <1>2 DEF Memory
<1> QED BY <1>2, <1>3, AtType, PlacesOfShape

-----------------------------------------------------------------------------
(* The strokes of the calls are the places of their shapes. *)

RowShape(a, y, b)    == {p \in Point : p[2] = y /\ p[1] >= a /\ p[1] < b}
ColumnShape(x, a, b) == {p \in Point : p[1] = x /\ p[2] >= a /\ p[2] < b}

Dots(a, y, b) == {At(x, y) : x \in a..(b - 1)}

\* Whole bytes are the places of the points in them.
LEMMA ByteDots ==
  ASSUME NEW i \in Int, NEW j \in Int, NEW y \in Int
  PROVE  (((Width * y + 4 * i) \div 4) .. ((Width * y + 4 * j) \div 4 - 1)) \X (0..3)
           = Dots(4 * i, y, 4 * j)
<1> DEFINE r  == RowBytes * y
           lo == (Width * y + 4 * i) \div 4
           hi == (Width * y + 4 * j) \div 4
<1>1. r \in Int
  BY SizeFacts
<1>2. (4 * i) \div 4 = i /\ (4 * j) \div 4 = j /\ 4 * i \in Int /\ 4 * j \in Int
  OBVIOUS
<1>3. lo = r + i /\ hi = r + j
  BY <1>2, AtValue
<1>4. ASSUME NEW x \in Int PROVE At(x, y) = <<r + x \div 4, x % 4>>
  BY AtValue
<1> DEFINE bytes == ((r + i)..(r + j - 1)) \X (0..3)
<1> HIDE DEF r
<1>5. ASSUME NEW x \in (4 * i)..(4 * j - 1) PROVE At(x, y) \in bytes
  <2>1. x \in Int /\ x \div 4 \in i..(j - 1) /\ x % 4 \in 0..3
    BY <1>2
  <2>2. r + x \div 4 \in (r + i)..(r + j - 1)
    BY <1>1, <2>1
  <2>3. At(x, y) = <<r + x \div 4, x % 4>>
    BY <1>4, <2>1
  <2> QED BY <2>1, <2>2, <2>3
<1>6. ASSUME NEW p \in bytes PROVE p \in Dots(4 * i, y, 4 * j)
  <2>1. p[1] \in (r + i)..(r + j - 1) /\ p[2] \in 0..3 /\ p = <<p[1], p[2]>>
    OBVIOUS
  <2> DEFINE x == 4 * (p[1] - r) + p[2]
  <2>2. x \in Int /\ x \in (4 * i)..(4 * j - 1) /\ x \div 4 = p[1] - r /\ x % 4 = p[2]
    BY <1>1, <2>1
  <2>3. r + (p[1] - r) = p[1]
    BY <1>1, <2>1
  <2> HIDE DEF x
  <2>4. At(x, y) = <<r + x \div 4, x % 4>>
    BY <1>4, <2>2
  <2>5. At(x, y) = p
    BY <2>1, <2>2, <2>3, <2>4
  <2> QED BY <2>2, <2>5 DEF Dots
<1>7. (lo..(hi - 1)) \X (0..3) = bytes
  <2> HIDE DEF lo, hi
  <2>1. lo..(hi - 1) = (r + i)..(r + j - 1)
    BY <1>1, <1>3
  <2> HIDE DEF r
  <2> QED BY <2>1
<1> HIDE DEF bytes
<1>8. Dots(4 * i, y, 4 * j) \subseteq bytes
  BY <1>5 DEF Dots
<1> QED BY <1>6, <1>7, <1>8

\* The dots of a row, and those of a column, are the points of a shape.
LEMMA DotsShape ==
  ASSUME NEW a \in Nat, NEW b \in Int, b <= Width, NEW y \in 0..(Height - 1)
  PROVE  Dots(a, y, b) = Places(RowShape(a, y, b))
<1>1. ASSUME NEW x \in a..(b - 1) PROVE At(x, y) \in Places(RowShape(a, y, b))
  <2>1. <<x, y>> \in RowShape(a, y, b)
    BY SizeFacts DEF RowShape, Point
  <2> QED BY <2>1 DEF Places
<1>2. ASSUME NEW p \in RowShape(a, y, b) PROVE At(p[1], p[2]) \in Dots(a, y, b)
  BY SizeFacts DEF RowShape, Point, Dots
<1> QED BY <1>1, <1>2 DEF Places, Dots

\* drawPoint, row after row, writes the points of a column.
LEMMA ColumnPlaces ==
  ASSUME NEW a \in Nat, NEW b \in Int, b <= Height, NEW x \in 0..(Width - 1)
  PROVE  Column(x, a, b) = Places(ColumnShape(x, a, b))
<1>1. ASSUME NEW y \in a..(b - 1) PROVE At(x, y) \in Places(ColumnShape(x, a, b))
  <2>1. <<x, y>> \in ColumnShape(x, a, b)
    BY SizeFacts DEF ColumnShape, Point
  <2> QED BY <2>1 DEF Places
<1>2. ASSUME NEW p \in ColumnShape(x, a, b) PROVE At(p[1], p[2]) \in Column(x, a, b)
  BY SizeFacts DEF ColumnShape, Point, Column
<1> QED BY <1>1, <1>2 DEF Places, Column

\* However many of its bytes are filled at once, a row is its points.
LEMMA RowPlaces ==
  ASSUME NEW a \in Nat, NEW b \in 0..Width, NEW y \in 0..(Height - 1)
  PROVE  Row(a, y, b) = Places(RowShape(a, y, b))
<1> DEFINE fillEnd   == b - (b % 4)
           fillStart == Smaller(a + 3 - ((a + 3) % 4), fillEnd)
<1>0. b \in Int /\ b >= 0 /\ b <= Width /\ y \in Int
  BY SizeFacts
<1>1. CASE fillEnd - fillStart > 3
  <2>1. fillStart = a + 3 - ((a + 3) % 4) /\ fillStart < fillEnd
    BY <1>0, <1>1 DEF Smaller
  <2>2. PICK i \in Int : fillStart = 4 * i
    <3>1. (a + 3) \div 4 \in Int /\ a + 3 - ((a + 3) % 4) = 4 * ((a + 3) \div 4)
      OBVIOUS
    <3> QED BY <2>1, <3>1
  <2>3. PICK j \in Int : fillEnd = 4 * j
    <3>1. b \div 4 \in Int /\ b - (b % 4) = 4 * (b \div 4)
      BY <1>0
    <3> QED BY <3>1
  <2>4. a <= fillStart /\ fillEnd <= b
    BY <1>0, <2>1
  <2>5. Row(a, y, b) = Dots(a, y, 4 * i) \cup Dots(4 * i, y, 4 * j) \cup Dots(4 * j, y, b)
    <3>1. Row(a, y, b) =
            Dots(a, y, fillStart)
              \cup (((Width * y + fillStart) \div 4) .. ((Width * y + fillEnd) \div 4 - 1)) \X (0..3)
              \cup Dots(fillEnd, y, b)
      BY <1>1 DEF Row, Dots
    <3> HIDE DEF fillStart, fillEnd
    <3> QED BY <1>0, <2>2, <2>3, <3>1, ByteDots
  <2>6. a <= 4 * i /\ 4 * i < 4 * j /\ 4 * j <= b
    BY <2>1, <2>2, <2>3, <2>4
  <2>7. a..(b - 1) = (a..(4 * i - 1)) \cup ((4 * i)..(4 * j - 1)) \cup ((4 * j)..(b - 1))
    BY <1>0, <2>6
  <2>8. Row(a, y, b) = Dots(a, y, b)
    BY <2>5, <2>7 DEF Dots
  <2> QED BY <1>0, <2>8, DotsShape
<1>2. CASE ~(fillEnd - fillStart > 3)
  <2>1. Row(a, y, b) = Dots(a, y, b)
    BY <1>2 DEF Row, Dots
  <2> QED BY <1>0, <2>1, DotsShape
<1> QED BY <1>1, <1>2

\* drawHLineUnclipped writes the points of a row that are on the screen.
LEMMA UnclippedRowPlaces ==
  ASSUME NEW a \in Int, NEW b \in Int, NEW y \in Int
  PROVE  UnclippedRow(a, y, b) = Places(RowShape(a, y, b))
<1> DEFINE s == Larger(0, a)
           e == Smaller(Width, b)
<1>1. s \in Nat /\ e \in Int /\ e <= Width
  BY SizeFacts DEF Larger, Smaller
<1>2. RowShape(a, y, b) = RowShape(s, y, e)
  BY SizeFacts DEF RowShape, Point, Larger, Smaller
<1>3. CASE y \in 0..(Height - 1) /\ s < e
  <2>1. e \in 0..Width
    BY <1>1, <1>3, SizeFacts
  <2>2. UnclippedRow(a, y, b) = Row(s, y, e)
    BY <1>3 DEF UnclippedRow
  <2> HIDE DEF s, e
  <2> QED BY <1>1, <1>2, <1>3, <2>1, <2>2, RowPlaces
<1>4. CASE ~(y \in 0..(Height - 1) /\ s < e)
  <2>1. RowShape(s, y, e) = {}
    BY <1>1, <1>4, SizeFacts DEF RowShape, Point
  <2>2. UnclippedRow(a, y, b) = {}
    BY <1>4 DEF UnclippedRow
  <2>3. Places({}) = {}
    BY DEF Places
  <2> QED BY <1>2, <2>1, <2>2, <2>3
<1> QED BY <1>3, <1>4

\* drawPointUnclipped writes those points that are on the screen.
LEMMA OnScreenPlaces ==
  ASSUME NEW points, \A q \in points : q = <<q[1], q[2]>>
  PROVE  OnScreen(points) = Places(points \cap Point)
<1>1. {q \in points : q[1] \in 0..(Width - 1) /\ q[2] \in 0..(Height - 1)} = points \cap Point
  BY DEF Point
<1> QED BY <1>1 DEF OnScreen, Places

-----------------------------------------------------------------------------
(* Each call, on memory and on the glass. *)

\* What the display shows of memory m.
Picture(m) == [p \in Point |-> m[At(p[1], p[2])]]

\* What the canvas shows is what memory holds at the places of the points.
LEMMA GlassShows ==
  /\ Glass!Point = Point
  /\ [p \in (0..(Width - 1)) \X (0..(Height - 1)) |-> Shown(p[1], p[2])] = Picture(framebuffer)
  /\ [p \in (0..(Width - 1)) \X (0..(Height - 1)) |-> Shown(p[1], p[2])]' = Picture(framebuffer')
<1>1. ASSUME NEW p \in Point
      PROVE  <<(p[2] * Width + p[1]) \div 4, (p[2] * Width + p[1]) % 4>> = At(p[1], p[2])
  <2>1. p[1] \in Int /\ p[2] \in Int /\ p[2] * Width = Width * p[2]
    BY SizeFacts DEF Point
  <2> QED BY <2>1, AtValue DEF At
<1>2. \A p \in Point : Shown(p[1], p[2]) = framebuffer[At(p[1], p[2])]
  BY <1>1 DEF Shown
<1>3. \A p \in Point : Shown(p[1], p[2])' = framebuffer'[At(p[1], p[2])]
  BY <1>1 DEF Shown
<1> QED BY <1>2, <1>3 DEF Picture, Point, Glass!Point

\* A draw colour selects one of the four colours.
LEMMA ColoredType ==
  ASSUME drawColors \in [0..3 -> Nibble], NEW k \in 0..3
  PROVE  Colored(k) \in Colour /\ Glass!Ink(k) = Colored(k)
BY DEF Colored, Colour, Nibble, Glass!Ink

\* Pen 0 draws a shape.
LEMMA StrokeShows ==
  ASSUME TypeOK, NEW shape, NEW points, shape = points \cap Point,
         framebuffer' = IF drawColors[0] = 0 THEN framebuffer
                        ELSE Written(framebuffer, Places(shape), Colored(0))
  PROVE  framebuffer' \in Memory /\ Glass!Stroke(points)
<1>1. framebuffer \in Memory /\ drawColors \in [0..3 -> Nibble]
  BY DEF TypeOK, Memory
<1>2. Colored(0) \in Colour /\ Glass!Ink(0) = Colored(0)
  BY <1>1, ColoredType
<1>3. framebuffer' \in Memory
      /\ \A p \in Point : framebuffer'[At(p[1], p[2])] =
           IF drawColors[0] # 0 /\ p \in points THEN Colored(0) ELSE framebuffer[At(p[1], p[2])]
  <2>1. CASE drawColors[0] = 0
    BY <1>1, <2>1
  <2>2. CASE drawColors[0] # 0
    <3>1. /\ framebuffer' = Written(framebuffer, Places(shape), Colored(0))
          /\ shape \in SUBSET Point
      BY <2>2
    <3>2. /\ Written(framebuffer, Places(shape), Colored(0)) \in Memory
          /\ \A p \in Point : Written(framebuffer, Places(shape), Colored(0))[At(p[1], p[2])] =
                IF p \in shape THEN Colored(0) ELSE framebuffer[At(p[1], p[2])]
      BY <1>1, <1>2, <3>1, WrittenShows
    <3> QED BY <2>2, <3>1, <3>2
  <2> QED BY <2>1, <2>2
<1>4. Picture(framebuffer') =
        [p \in Point |-> IF drawColors[0] # 0 /\ p \in points THEN Colored(0)
                         ELSE Picture(framebuffer)[p]]
  BY <1>3 DEF Picture
<1> QED BY <1>2, <1>3, <1>4, GlassShows DEF Glass!Stroke

\* w4_framebufferHLine draws the canvas's horizontal line.
LEMMA HLineShows ==
  ASSUME TypeOK, NEW c, c.x \in Int, c.y \in Int, c.len \in Int, HLine(c)
  PROVE  framebuffer' \in Memory /\ Glass!HLine(c)
<1> DEFINE shape == RowShape(c.x, c.y, c.x + c.len)
<1>1. UnclippedRow(c.x, c.y, c.x + c.len) = Places(shape)
  BY UnclippedRowPlaces
<1>2. shape = shape \cap Point
  BY DEF RowShape
<1>3. framebuffer' = IF drawColors[0] = 0 THEN framebuffer
                     ELSE Written(framebuffer, Places(shape), Colored(0))
  BY <1>1 DEF HLine
<1>4. shape = {p \in Glass!Point : p[2] = c.y /\ p[1] >= c.x /\ p[1] < c.x + c.len}
  BY GlassShows DEF RowShape
<1> HIDE DEF shape
<1> QED BY <1>2, <1>3, <1>4, StrokeShows DEF Glass!HLine

\* w4_framebufferVLine draws the canvas's vertical line.
LEMMA VLineShows ==
  ASSUME TypeOK, NEW c, c.x \in Int, c.y \in Int, c.len \in Int, VLine(c)
  PROVE  framebuffer' \in Memory /\ Glass!VLine(c)
<1> DEFINE shape == ColumnShape(c.x, c.y, c.y + c.len)
           a == Larger(0, c.y)
           b == Smaller(Height, c.y + c.len)
<1>1. a \in Nat /\ b \in Int /\ b <= Height
  BY SizeFacts DEF Larger, Smaller
<1>2. shape = ColumnShape(c.x, a, b)
  BY SizeFacts DEF ColumnShape, Point, Larger, Smaller
<1>3. shape = shape \cap Point
  BY DEF ColumnShape
<1>4. shape = {p \in Glass!Point : p[1] = c.x /\ p[2] >= c.y /\ p[2] < c.y + c.len}
  BY GlassShows DEF ColumnShape
<1>5. framebuffer' = IF drawColors[0] = 0 THEN framebuffer
                     ELSE Written(framebuffer, Places(shape), Colored(0))
  <2>1. CASE c.y + c.len <= 0 \/ c.x < 0 \/ c.x >= Width
    <3>1. shape = {}
      BY <2>1, SizeFacts DEF ColumnShape, Point
    <3>2. Places(shape) = {}
      BY <3>1 DEF Places
    <3>3. Written(framebuffer, {}, Colored(0)) = framebuffer
      BY DEF Written, TypeOK
    <3> QED BY <2>1, <3>2, <3>3 DEF VLine
  <2>2. CASE ~(c.y + c.len <= 0 \/ c.x < 0 \/ c.x >= Width)
    <3>1. c.x \in 0..(Width - 1)
      BY <2>2, SizeFacts
    <3>2. Column(c.x, a, b) = Places(shape)
      <4> HIDE DEF a, b
      <4> QED BY <1>1, <1>2, <3>1, ColumnPlaces
    <3> QED BY <2>2, <3>2 DEF VLine
  <2> QED BY <2>1, <2>2
<1> HIDE DEF shape
<1> QED BY <1>3, <1>4, <1>5, StrokeShows DEF Glass!VLine

\* w4_framebufferLine draws the canvas's line.
LEMMA LineShows ==
  ASSUME TypeOK, NEW c, Line(c)
  PROVE  framebuffer' \in Memory /\ Glass!Line(c)
<1> DEFINE shape == LinePoints(c) \cap Point
<1>1. OnScreen(LinePoints(c)) = Places(shape)
  <2>1. \A q \in LinePoints(c) : q = <<q[1], q[2]>>
    BY DEF LinePoints
  <2> QED BY <2>1, OnScreenPlaces
<1>2. framebuffer' = IF drawColors[0] = 0 THEN framebuffer
                     ELSE Written(framebuffer, Places(shape), Colored(0))
  BY <1>1 DEF Line
<1> QED BY <1>2, StrokeShows DEF Glass!Line

\* w4_framebufferClear clears the canvas.
LEMMA ClearShows ==
  ASSUME Clear
  PROVE  framebuffer' \in Memory /\ Glass!Clear
<1>1. framebuffer' \in Memory
  BY DEF Clear, Memory, Colour
<1>2. Picture(framebuffer') = [p \in Point |-> 0]
  BY AtType DEF Clear, Picture
<1> QED BY <1>1, <1>2, GlassShows DEF Glass!Clear

\* w4_framebufferRect draws the canvas's rectangle: the outline that it clips edge
\* by edge is the part of the outline that is on the screen.
LEMMA RectShows ==
  ASSUME TypeOK, NEW c, c.x \in Int, c.y \in Int, c.width \in Nat \ {0}, c.height \in Nat \ {0},
         Rect(c)
  PROVE  framebuffer' \in Memory /\ Glass!Rect(c)
<1> DEFINE startX == Larger(0, c.x)
           startY == Larger(0, c.y)
           endX   == Larger(0, Smaller(c.x + c.width, Width))
           endY   == Larger(0, Smaller(c.y + c.height, Height))
           inside == {p \in Point : /\ p[1] >= c.x /\ p[1] < c.x + c.width
                                    /\ p[2] >= c.y /\ p[2] < c.y + c.height}
           edge   == {p \in inside : \/ p[1] \in {c.x, c.x + c.width - 1}
                                     \/ p[2] \in {c.y, c.y + c.height - 1}}
<1>1. /\ startX \in Nat /\ startY \in Nat /\ endX \in 0..Width /\ endY \in 0..Height
      /\ endX \in Int /\ endY \in Int /\ endX <= Width /\ endY <= Height
  BY SizeFacts DEF Larger, Smaller
<1>2. inside = {p \in Point : /\ p[1] >= startX /\ p[1] < endX
                              /\ p[2] >= startY /\ p[2] < endY}
  BY SizeFacts DEF Point, Larger, Smaller
<1>3. Rows(startX, startY, endX, endY) = Places(inside)
  <2>1. \A y \in startY..(endY - 1) : Row(startX, y, endX) = Places(RowShape(startX, y, endX))
    <3> HIDE DEF startX, startY, endX, endY
    <3>1. \A y \in startY..(endY - 1) : y \in 0..(Height - 1)
      BY <1>1, SizeFacts
    <3> QED BY <1>1, <3>1, RowPlaces
  <2>2. inside = UNION {RowShape(startX, y, endX) : y \in startY..(endY - 1)}
    <3> HIDE DEF startX, startY, endX, endY, inside
    <3>1. \A p \in Point : p[2] \in Int
      BY SizeFacts DEF Point
    <3>2. \A p \in inside : p[2] \in startY..(endY - 1) /\ p \in RowShape(startX, p[2], endX)
      BY <1>1, <1>2, <3>1 DEF RowShape
    <3>3. \A y \in startY..(endY - 1) : RowShape(startX, y, endX) \subseteq inside
      BY <1>1, <1>2 DEF RowShape
    <3> QED BY <3>2, <3>3
  <2>3. Rows(startX, startY, endX, endY)
          = UNION {Places(RowShape(startX, y, endX)) : y \in startY..(endY - 1)}
    <3> HIDE DEF startX, startY, endX, endY
    <3> QED BY <2>1 DEF Rows
  <2> HIDE DEF startX, startY, endX, endY, inside
  <2> QED BY <2>2, <2>3 DEF Places
<1>4. Edges(c, startX, startY, endX, endY) = Places(edge)
  <2> DEFINE west  == {p \in inside : p[1] = c.x}
             east  == {p \in inside : p[1] = c.x + c.width - 1}
             north == {p \in inside : p[2] = c.y}
             south == {p \in inside : p[2] = c.y + c.height - 1}
             E1 == IF c.x >= 0 /\ c.x < Width THEN Column(c.x, startY, endY) ELSE {}
             E2 == IF c.x + c.width > 0 /\ c.x + c.width <= Width
                     THEN Column(c.x + c.width - 1, startY, endY) ELSE {}
             E3 == IF c.y >= 0 /\ c.y < Height THEN Row(startX, c.y, endX) ELSE {}
             E4 == IF c.y + c.height > 0 /\ c.y + c.height <= Height
                     THEN Row(startX, c.y + c.height - 1, endX) ELSE {}
  <2>0. Places({}) = {}
    BY DEF Places
  <2>1. E1 = Places(west)
    <3>1. CASE c.x >= 0 /\ c.x < Width
      <4>1. west = ColumnShape(c.x, startY, endY)
        BY <3>1, SizeFacts DEF Point, ColumnShape, Larger, Smaller
      <4>2. c.x \in 0..(Width - 1)
        BY <3>1, SizeFacts
      <4> HIDE DEF startY, endY, west
      <4> QED BY <1>1, <3>1, <4>1, <4>2, ColumnPlaces
    <3>2. CASE ~(c.x >= 0 /\ c.x < Width)
      <4>1. west = {}
        BY <3>2, SizeFacts DEF Point
      <4> QED BY <2>0, <3>2, <4>1
    <3> QED BY <3>1, <3>2
  <2>2. E2 = Places(east)
    <3> DEFINE x == c.x + c.width - 1
    <3>1. CASE c.x + c.width > 0 /\ c.x + c.width <= Width
      <4>1. east = ColumnShape(x, startY, endY)
        BY <3>1, SizeFacts DEF Point, ColumnShape, Larger, Smaller
      <4>2. x \in 0..(Width - 1)
        BY <3>1, SizeFacts
      <4> HIDE DEF startY, endY, east
      <4> QED BY <1>1, <3>1, <4>1, <4>2, ColumnPlaces
    <3>2. CASE ~(c.x + c.width > 0 /\ c.x + c.width <= Width)
      <4>1. east = {}
        BY <3>2, SizeFacts DEF Point
      <4> QED BY <2>0, <3>2, <4>1
    <3> QED BY <3>1, <3>2
  <2>3. E3 = Places(north)
    <3>1. CASE c.y >= 0 /\ c.y < Height
      <4>1. north = RowShape(startX, c.y, endX)
        BY <3>1, SizeFacts DEF Point, RowShape, Larger, Smaller
      <4>2. c.y \in 0..(Height - 1)
        BY <3>1, SizeFacts
      <4> HIDE DEF startX, endX, north
      <4> QED BY <1>1, <3>1, <4>1, <4>2, RowPlaces
    <3>2. CASE ~(c.y >= 0 /\ c.y < Height)
      <4>1. north = {}
        BY <3>2, SizeFacts DEF Point
      <4> QED BY <2>0, <3>2, <4>1
    <3> QED BY <3>1, <3>2
  <2>4. E4 = Places(south)
    <3> DEFINE y == c.y + c.height - 1
    <3>1. CASE c.y + c.height > 0 /\ c.y + c.height <= Height
      <4>1. south = RowShape(startX, y, endX)
        BY <3>1, SizeFacts DEF Point, RowShape, Larger, Smaller
      <4>2. y \in 0..(Height - 1)
        BY <3>1, SizeFacts
      <4> HIDE DEF startX, endX, south
      <4> QED BY <1>1, <3>1, <4>1, <4>2, RowPlaces
    <3>2. CASE ~(c.y + c.height > 0 /\ c.y + c.height <= Height)
      <4>1. south = {}
        BY <3>2, SizeFacts DEF Point
      <4> QED BY <2>0, <3>2, <4>1
    <3> QED BY <3>1, <3>2
  <2>5. edge = (west \cup east) \cup (north \cup south)
    OBVIOUS
  <2>6. Edges(c, startX, startY, endX, endY) = (E1 \cup E2) \cup (E3 \cup E4)
    BY DEF Edges
  <2> HIDE DEF E1, E2, E3, E4, edge, west, east, north, south
  <2>7. Places(edge) = (Places(west) \cup Places(east)) \cup (Places(north) \cup Places(south))
    BY <2>5 DEF Places
  <2> QED BY <2>1, <2>2, <2>3, <2>4, <2>6, <2>7
<1> DEFINE filled == IF drawColors[0] = 0 THEN framebuffer
                     ELSE Written(framebuffer, Places(inside), Colored(0))
<1>5. framebuffer' = IF drawColors[1] = 0 THEN filled
                     ELSE Written(filled, Places(edge), Colored(1))
  BY <1>3, <1>4 DEF Rect
<1>6. inside \in SUBSET Point /\ edge \in SUBSET Point
  OBVIOUS
<1>7. /\ framebuffer \in Memory
      /\ Colored(0) \in Colour /\ Glass!Ink(0) = Colored(0)
      /\ Colored(1) \in Colour /\ Glass!Ink(1) = Colored(1)
  BY ColoredType DEF TypeOK, Memory
<1>8. /\ Glass!Point = Point
      /\ edge = {p \in inside : \/ p[1] \in {c.x, c.x + c.width - 1}
                                \/ p[2] \in {c.y, c.y + c.height - 1}}
      /\ inside = {p \in Glass!Point : /\ p[1] >= c.x /\ p[1] < c.x + c.width
                                       /\ p[2] >= c.y /\ p[2] < c.y + c.height}
  BY GlassShows
<1> HIDE DEF inside, edge
<1>9. /\ filled \in Memory
      /\ \A p \in Point : filled[At(p[1], p[2])] =
           IF drawColors[0] # 0 /\ p \in inside THEN Colored(0) ELSE framebuffer[At(p[1], p[2])]
  BY <1>6, <1>7, WrittenShows
<1> HIDE DEF filled
<1>10. /\ framebuffer' \in Memory
       /\ \A p \in Point : framebuffer'[At(p[1], p[2])] =
            IF drawColors[1] # 0 /\ p \in edge THEN Colored(1) ELSE filled[At(p[1], p[2])]
  BY <1>5, <1>6, <1>7, <1>9, WrittenShows
<1>11. Picture(framebuffer') =
         [p \in Point |-> IF drawColors[1] # 0 /\ p \in edge THEN Colored(1)
                          ELSE IF drawColors[0] # 0 /\ p \in inside THEN Colored(0)
                          ELSE Picture(framebuffer)[p]]
  BY <1>9, <1>10 DEF Picture
<1> QED BY <1>7, <1>8, <1>10, <1>11, GlassShows DEF Glass!Rect

-----------------------------------------------------------------------------
(* Ovals. *)

\* An iteration draws its outline and then, over it, its filling.
IterationOf(c, s, m, drawn) ==
  /\ drawn \in Memory
  /\ \A p \in Point : drawn[At(p[1], p[2])] =
       IF drawColors[0] # 0 /\ p \in FillOf(s) THEN Colored(0)
       ELSE IF p \in OutlineOf(c, s) THEN Colored(1)
       ELSE m[At(p[1], p[2])]

\* What memory shows after an iteration of an oval's loops.
LEMMA OvalIterationShows ==
  ASSUME NEW c, NEW s \in OvalPos, NEW m \in Memory, drawColors \in [0..3 -> Nibble]
  PROVE  IterationOf(c, s, m, OvalIteration(c, s, m))
<1> DEFINE shape    == OutlineOf(c, s) \cap Point
           filling  == FillOf(s) \cap Point
           outlined == Written(m, OnScreen(OutlineOf(c, s)), Colored(1))
           rows == UNION {UnclippedRow(s.west + 1, y, s.east) : y \in {s.north, s.south}}
           fills == Scanning(s) /\ drawColors[0] # 0 /\ s.east - (s.west + 1) > 0
<1>0. /\ s.north \in Int /\ s.south \in Int /\ s.west \in Int /\ s.east \in Int
      /\ Colored(0) \in Colour /\ Colored(1) \in Colour
  BY ColoredType DEF OvalPos
<1>1. OnScreen(OutlineOf(c, s)) = Places(shape)
  <2>1. \A q \in OutlineOf(c, s) : q = <<q[1], q[2]>>
    BY DEF OutlineOf
  <2> QED BY <2>1, OnScreenPlaces
<1>2. OvalIteration(c, s, m) = IF fills THEN Written(outlined, rows, Colored(0)) ELSE outlined
  BY DEF OvalIteration
<1>3. /\ outlined \in Memory
      /\ \A p \in Point : outlined[At(p[1], p[2])] =
           IF p \in OutlineOf(c, s) THEN Colored(1) ELSE m[At(p[1], p[2])]
  <2>1. shape \in SUBSET Point /\ \A p \in Point : p \in shape <=> p \in OutlineOf(c, s)
    OBVIOUS
  <2> HIDE DEF shape
  <2> QED BY <1>0, <1>1, <2>1, WrittenShows
<1>4. CASE fills
  <2>1. FillOf(s) = ((s.west + 1)..(s.east - 1)) \X {s.north, s.south}
    BY <1>4 DEF FillOf
  <2>2. rows = Places(filling)
    <3> DEFINE up   == RowShape(s.west + 1, s.north, s.east)
               down == RowShape(s.west + 1, s.south, s.east)
    <3>1. /\ UnclippedRow(s.west + 1, s.north, s.east) = Places(up)
          /\ UnclippedRow(s.west + 1, s.south, s.east) = Places(down)
      BY <1>0, UnclippedRowPlaces
    <3>2. filling = up \cup down
      <4>1. ASSUME NEW p \in Point PROVE p \in filling <=> p \in up \cup down
        <5>1. p[1] \in Int /\ p[2] \in Int /\ p = <<p[1], p[2]>>
          BY SizeFacts DEF Point
        <5>2. p \in filling <=> /\ p[1] \in (s.west + 1)..(s.east - 1)
                                /\ p[2] \in {s.north, s.south}
          BY <2>1, <5>1
        <5>3. p[1] \in (s.west + 1)..(s.east - 1) <=> p[1] >= s.west + 1 /\ p[1] < s.east
          BY <1>0, <5>1
        <5> QED BY <5>2, <5>3 DEF RowShape
      <4>2. up \cup down \subseteq Point
        BY DEF RowShape
      <4> HIDE DEF filling, up, down
      <4>3. filling \subseteq Point
        BY DEF filling
      <4> QED BY <4>1, <4>2, <4>3
    <3>3. rows = UnclippedRow(s.west + 1, s.north, s.east) \cup UnclippedRow(s.west + 1, s.south, s.east)
      OBVIOUS
    <3> HIDE DEF rows, filling, up, down
    <3> QED BY <3>1, <3>2, <3>3 DEF Places
  <2>3. filling \in SUBSET Point /\ \A p \in Point : p \in filling <=> p \in FillOf(s)
    OBVIOUS
  <2>4. drawColors[0] # 0
    BY <1>4
  <2>5. OvalIteration(c, s, m) = Written(outlined, Places(filling), Colored(0))
    BY <1>2, <1>4, <2>2
  <2> HIDE DEF filling, outlined, rows, fills
  <2> QED BY <1>0, <1>3, <2>3, <2>4, <2>5, WrittenShows DEF IterationOf
<1>5. CASE ~fills
  <2>1. drawColors[0] # 0 => FillOf(s) = {}
    <3>1. CASE ~Scanning(s)
      BY <3>1 DEF FillOf
    <3>2. CASE drawColors[0] # 0 /\ Scanning(s)
      <4>1. ~(s.east - (s.west + 1) > 0)
        BY <1>5, <3>2
      <4>2. (s.west + 1)..(s.east - 1) = {}
        BY <1>0, <4>1
      <4> QED BY <3>2, <4>2 DEF FillOf
    <3> QED BY <3>1, <3>2
  <2>2. OvalIteration(c, s, m) = outlined
    BY <1>2, <1>5
  <2> HIDE DEF outlined, rows, fills
  <2> QED BY <1>3, <2>1, <2>2 DEF IterationOf
<1> QED BY <1>4, <1>5

\* The filling of an iteration lies inside every outline drawn so far, its own
\* included.
LEMMA FillInside ==
  ASSUME NEW c, IsOval(c), NEW n \in Nat, NEW k \in 0..n
  PROVE  FillOf(OvalLoop(c)[n]) \cap OutlineOf(c, OvalLoop(c)[k]) = {}
<1> DEFINE s == OvalLoop(c)[n]
           t == OvalLoop(c)[k]
<1>1. CASE ~Scanning(s)
  BY <1>1 DEF FillOf
<1>2. CASE Scanning(s)
  <2>1. Scanning(t) /\ t.west <= s.west /\ t.east >= s.east
    BY <1>2, OvalCloses
  <2>2. s.west \in Int /\ s.east \in Int /\ t.west \in Int /\ t.east \in Int
    BY OvalLoopValue DEF OvalPos
  <2>3. OutlineOf(c, t) = {t.west, t.east} \X {t.north, t.south}
    BY <2>1 DEF OutlineOf
  <2>4. FillOf(s) = ((s.west + 1)..(s.east - 1)) \X {s.north, s.south}
    BY <1>2 DEF FillOf
  <2> HIDE DEF s, t
  <2>5. \A p \in FillOf(s) : p[1] > s.west /\ p[1] < s.east /\ p[1] \in Int
    BY <2>2, <2>4
  <2>6. \A p \in OutlineOf(c, t) : p[1] = t.west \/ p[1] = t.east
    BY <2>3
  <2> QED BY <2>1, <2>2, <2>5, <2>6 DEF s, t
<1> QED BY <1>1, <1>2

\* w4_framebufferOval draws the canvas's oval: although each iteration fills over
\* what the ones before it have outlined, no point of an outline is filled over.
LEMMA OvalShows ==
  ASSUME TypeOK, NEW c, IsOval(c), Oval(c)
  PROVE  framebuffer' \in Memory /\ Glass!Oval(c)
<1> DEFINE loop == OvalLoop(c)
           Is(f) == f = [n \in Nat |-> IF n = 0 THEN framebuffer
                                       ELSE OvalIteration(c, loop[n - 1], f[n - 1])]
           after == CHOOSE f : Is(f)
           F == [n \in Nat |-> [m \in Memory |-> OvalIteration(c, loop[n], m)]]
           laps == c.width + c.height + 1
<1>0. /\ framebuffer \in Memory /\ drawColors \in [0..3 -> Nibble]
      /\ Colored(0) \in Colour /\ Glass!Ink(0) = Colored(0)
      /\ Colored(1) \in Colour /\ Glass!Ink(1) = Colored(1)
      /\ \A n \in Nat : loop[n] \in OvalPos
  BY ColoredType, OvalLoopValue DEF TypeOK, Memory
<1>1. \A n \in Nat, m \in Memory : OvalIteration(c, loop[n], m) \in Memory
  BY <1>0, OvalIterationShows DEF IterationOf
<1>2. PICK f \in [Nat -> Memory] : Follows(f, framebuffer, F)
  <2>1. F \in [Nat -> [Memory -> Memory]]
    BY <1>1
  <2>2. framebuffer \in Memory
    BY <1>0
  <2> HIDE DEF F, loop
  <2> QED BY <2>1, <2>2, Recursion
<1>3. Is(f)
  <2>1. \A n \in Nat : n # 0 => F[n - 1][f[n - 1]] = OvalIteration(c, loop[n - 1], f[n - 1])
    OBVIOUS
  <2> HIDE DEF F, loop
  <2> QED BY <1>2, <2>1 DEF Follows
<1>4. Is(after)
  BY <1>3
<1> HIDE DEF after
<1>5. after[0] = framebuffer
  BY <1>4
<1>6. ASSUME NEW n \in Nat PROVE after[n + 1] = OvalIteration(c, loop[n], after[n])
  <2>1. n + 1 \in Nat /\ n + 1 # 0 /\ (n + 1) - 1 = n
    OBVIOUS
  <2> QED BY <1>4, <2>1
<1> DEFINE OutlineBy(n) == UNION {OutlineOf(c, loop[k]) : k \in 0..(n - 1)}
           FillBy(n)    == UNION {FillOf(loop[k]) : k \in 0..(n - 1)}
           Shows(n) == \A p \in Point : after[n][At(p[1], p[2])] =
                         IF p \in OutlineBy(n) THEN Colored(1)
                         ELSE IF drawColors[0] # 0 /\ p \in FillBy(n) THEN Colored(0)
                         ELSE framebuffer[At(p[1], p[2])]
           T == {n \in Nat : after[n] \in Memory /\ Shows(n)}
<1>7. 0 \in T
  <2>1. OutlineBy(0) = {} /\ FillBy(0) = {}
    OBVIOUS
  <2> QED BY <1>0, <1>5, <2>1
<1>8. ASSUME NEW n \in Nat, n \in T PROVE n + 1 \in T
  <2>1. 0..((n + 1) - 1) = (0..(n - 1)) \cup {n}
    OBVIOUS
  <2>2. /\ OutlineBy(n + 1) = OutlineBy(n) \cup OutlineOf(c, loop[n])
        /\ FillBy(n + 1) = FillBy(n) \cup FillOf(loop[n])
    BY <2>1
  <2>3. FillOf(loop[n]) \cap OutlineBy(n + 1) = {}
    <3>1. \A k \in 0..n : FillOf(loop[n]) \cap OutlineOf(c, loop[k]) = {}
      BY FillInside
    <3>2. 0..((n + 1) - 1) = 0..n
      OBVIOUS
    <3> HIDE DEF loop
    <3> QED BY <3>1, <3>2
  <2>4. after[n] \in Memory /\ Shows(n)
    BY <1>8
  <2>5. /\ after[n + 1] \in Memory
        /\ \A p \in Point : after[n + 1][At(p[1], p[2])] =
             IF drawColors[0] # 0 /\ p \in FillOf(loop[n]) THEN Colored(0)
             ELSE IF p \in OutlineOf(c, loop[n]) THEN Colored(1)
             ELSE after[n][At(p[1], p[2])]
    <3>1. loop[n] \in OvalPos /\ after[n] \in Memory /\ drawColors \in [0..3 -> Nibble]
      BY <1>0, <2>4
    <3>2. after[n + 1] = OvalIteration(c, loop[n], after[n])
      BY <1>6
    <3> HIDE DEF loop
    <3>3. IterationOf(c, loop[n], after[n], OvalIteration(c, loop[n], after[n]))
      BY <3>1, OvalIterationShows
    <3> QED BY <3>2, <3>3 DEF IterationOf
  <2> HIDE DEF loop, OutlineBy, FillBy
  <2>6. Shows(n + 1)
    BY <2>2, <2>3, <2>4, <2>5
  <2> QED BY <2>5, <2>6
<1>9. laps \in T
  <2>1. Nat \subseteq T
    <3> HIDE DEF T
    <3> QED BY <1>7, <1>8, SetInduction
  <2>2. laps \in Nat
    BY DEF IsOval
  <2> HIDE DEF T, laps
  <2> QED BY <2>1, <2>2
<1>10. OutlineBy(laps) = Outline(c) /\ FillBy(laps) = Fill(c)
  <2>1. Laps(c) = 0..(laps - 1)
    BY DEF Laps, IsOval
  <2> HIDE DEF laps
  <2> QED BY <2>1 DEF Outline, Fill
<1>11. framebuffer' = IF drawColors[1] = 15 THEN framebuffer ELSE after[laps]
  BY DEF Oval, after
<1> HIDE DEF laps, loop, OutlineBy, FillBy
<1>12. framebuffer' \in Memory
  BY <1>0, <1>9, <1>11
<1>13. Picture(framebuffer') =
         [p \in Point |-> IF drawColors[1] = 15 THEN Picture(framebuffer)[p]
                          ELSE IF p \in Outline(c) THEN Colored(1)
                          ELSE IF drawColors[0] # 0 /\ p \in Fill(c) THEN Colored(0)
                          ELSE Picture(framebuffer)[p]]
  BY <1>9, <1>10, <1>11 DEF Picture
<1> QED BY <1>0, <1>12, <1>13, GlassShows DEF Glass!Oval

-----------------------------------------------------------------------------
(* Pictures. *)

Pixels(c) == (0..(c.width - 1)) \X (0..(c.height - 1))

\* A picture's variables have their type, and so has every pixel sampled from it.
LEMMA PictureFacts ==
  ASSUME NEW c, IsPicture(c), NEW q \in Pixels(c)
  PROVE  /\ q[1] \in Int /\ q[2] \in Int /\ q = <<q[1], q[2]>>
         /\ q[1] >= 0 /\ q[1] < c.width /\ q[2] >= 0 /\ q[2] < c.height
         /\ Target(c, q)[1] \in Int /\ Target(c, q)[2] \in Int
         /\ Target(c, q) = <<Target(c, q)[1], Target(c, q)[2]>>
         /\ Sample(c, q) \in 0..3
<1>1. /\ c.x \in Int /\ c.y \in Int /\ c.width \in Nat /\ c.height \in Nat
      /\ c.srcX \in Nat /\ c.srcY \in Nat /\ c.stride \in Nat
  BY DEF IsPicture
<1>2. /\ q[1] \in Int /\ q[2] \in Int /\ q = <<q[1], q[2]>>
      /\ q[1] >= 0 /\ q[1] < c.width /\ q[2] >= 0 /\ q[2] < c.height
  BY <1>1 DEF Pixels
<1>3. /\ Target(c, q)[1] \in Int /\ Target(c, q)[2] \in Int
      /\ Target(c, q) = <<Target(c, q)[1], Target(c, q)[2]>>
  BY <1>1, <1>2 DEF Target
<1> DEFINE u == IF c.flipX # c.rotate THEN c.width - q[1] - 1 ELSE q[1]
           v == IF c.flipY THEN c.height - q[2] - 1 ELSE q[2]
<1>4. u \in 0..(c.width - 1) /\ v \in 0..(c.height - 1)
  BY <1>1, <1>2
<1>5. Sample(c, q) = c.sprite[(c.srcY + v) * c.stride + (c.srcX + u)]
  BY DEF Sample
<1> HIDE DEF u, v
<1>6. (c.srcY + v) * c.stride + (c.srcX + u) = (c.srcY + v) * c.stride + c.srcX + u
  <2>1. (c.srcY + v) * c.stride \in Int /\ u \in Int
    BY <1>1, <1>4
  <2> QED BY <1>1, <2>1
<1>7. Sample(c, q) \in 0..3
  BY <1>4, <1>5, <1>6 DEF IsPicture
<1> QED BY <1>2, <1>3, <1>7

\* The pixels of a picture go to different points.
LEMMA TargetInjective ==
  ASSUME NEW c, IsPicture(c), NEW q \in Pixels(c), NEW r \in Pixels(c), Target(c, q) = Target(c, r)
  PROVE  q = r
<1>1. /\ q[1] \in Int /\ q[2] \in Int /\ q = <<q[1], q[2]>>
      /\ r[1] \in Int /\ r[2] \in Int /\ r = <<r[1], r[2]>>
      /\ c.x \in Int /\ c.y \in Int
  BY PictureFacts DEF IsPicture
<1>2. q[1] = r[1] /\ q[2] = r[2]
  BY <1>1 DEF Target
<1> QED BY <1>1, <1>2

\* Clipping keeps the pixels that go to the screen, and only those.
LEMMA ClippedPixels ==
  ASSUME NEW c, IsPicture(c)
  PROVE  Clipped(c) = {q \in Pixels(c) : Target(c, q) \in Point}
<1>1. /\ c.x \in Int /\ c.y \in Int /\ c.width \in Nat /\ c.height \in Nat /\ c.rotate \in BOOLEAN
  BY DEF IsPicture
<1> DEFINE acrossX == IF c.rotate THEN c.y ELSE c.x
           acrossY == IF c.rotate THEN c.x ELSE c.y
           limitX  == IF c.rotate THEN Height ELSE Width
           limitY  == IF c.rotate THEN Width ELSE Height
           lowX    == Larger(0, acrossX) - acrossX
           lowY    == Larger(0, acrossY) - acrossY
           highX   == Smaller(c.width, limitX - acrossX) - 1
           highY   == Smaller(c.height, limitY - acrossY) - 1
<1>2. Clipped(c) = (lowX..highX) \X (lowY..highY)
  BY DEF Clipped
<1>3. ASSUME NEW i \in Int, NEW j \in Int
      PROVE  <<i, j>> \in Clipped(c) <=> <<i, j>> \in Pixels(c) /\ Target(c, <<i, j>>) \in Point
  <2>1. /\ i \in lowX..highX <=> /\ i \in 0..(c.width - 1)
                                 /\ acrossX + i \in 0..(limitX - 1)
        /\ j \in lowY..highY <=> /\ j \in 0..(c.height - 1)
                                 /\ acrossY + j \in 0..(limitY - 1)
    BY <1>1, SizeFacts DEF Larger, Smaller
  <2>2. Target(c, <<i, j>>) =
          IF c.rotate THEN <<c.x + j, c.y + i>> ELSE <<c.x + i, c.y + j>>
    BY DEF Target
  <2>3. Target(c, <<i, j>>) \in Point <=> /\ acrossX + i \in 0..(limitX - 1)
                                          /\ acrossY + j \in 0..(limitY - 1)
    <3>1. CASE c.rotate
      BY <2>2, <3>1 DEF Point
    <3>2. CASE ~c.rotate
      BY <2>2, <3>2 DEF Point
    <3> QED BY <3>1, <3>2
  <2> HIDE DEF acrossX, acrossY, limitX, limitY, lowX, lowY, highX, highY
  <2> QED BY <1>2, <2>1, <2>3 DEF Pixels
<1>4. lowX \in Int /\ lowY \in Int
  BY <1>1 DEF Larger
<1> HIDE DEF lowX, lowY, highX, highY
<1>5. \A q \in Clipped(c) : q[1] \in Int /\ q[2] \in Int /\ q = <<q[1], q[2]>>
  BY <1>2, <1>4
<1>6. \A q \in Pixels(c) : q[1] \in Int /\ q[2] \in Int /\ q = <<q[1], q[2]>>
  BY PictureFacts
<1> QED BY <1>3, <1>5, <1>6

\* What a picture makes of memory m.
PictureOn(m, c, drawn) ==
  /\ drawn \in Memory
  /\ \A q \in Pixels(c) :
       LET p == Target(c, q)
       IN  p \in Point => drawn[At(p[1], p[2])] =
             IF drawColors[Sample(c, q)] # 0 THEN Colored(Sample(c, q)) ELSE m[At(p[1], p[2])]
  /\ \A p \in Point : (\A q \in Pixels(c) : Target(c, q) # p) =>
                        drawn[At(p[1], p[2])] = m[At(p[1], p[2])]

\* What memory shows after a blit.
LEMMA BlittedShows ==
  ASSUME NEW m \in Memory, NEW c, IsPicture(c), drawColors \in [0..3 -> Nibble]
  PROVE  PictureOn(m, c, Blitted(m, c))
<1> DEFINE drawn == {q \in Clipped(c) : drawColors[Sample(c, q)] # 0}
           PlaceOf(q) == At(Target(c, q)[1], Target(c, q)[2])
           at == {PlaceOf(q) : q \in drawn}
           result == Blitted(m, c)
<1>1. \A q \in drawn : q \in Pixels(c) /\ Target(c, q) \in Point /\ drawColors[Sample(c, q)] # 0
  BY ClippedPixels
<1>2. \A q \in Pixels(c) : Target(c, q) \in Point /\ drawColors[Sample(c, q)] # 0 => q \in drawn
  BY ClippedPixels
<1>3. \A q \in Pixels(c) : Sample(c, q) \in 0..3 /\ Colored(Sample(c, q)) \in Colour
  BY PictureFacts, ColoredType
<1> HIDE DEF drawn
<1>4. at \subseteq Place
  BY <1>1, AtType
<1>5. DOMAIN m \cup at = Place
  BY <1>4 DEF Memory
<1>6. result = [s \in Place |-> IF s \in at
                  THEN Colored(Sample(c, CHOOSE q \in drawn : PlaceOf(q) = s)) ELSE m[s]]
  BY <1>5 DEF Blitted, drawn
<1>7. ASSUME NEW q \in drawn, NEW r \in Pixels(c), Target(c, r) \in Point, PlaceOf(q) = PlaceOf(r)
      PROVE  q = r
  <2>1. q \in Pixels(c) /\ Target(c, q) \in Point
    BY <1>1
  <2>2. Target(c, q) = Target(c, r)
    BY <1>7, <2>1, AtInjective
  <2> QED BY <2>1, <2>2, TargetInjective
<1>8. ASSUME NEW q \in drawn
      PROVE  PlaceOf(q) \in Place /\ result[PlaceOf(q)] = Colored(Sample(c, q))
  <2> DEFINE r == CHOOSE r \in drawn : PlaceOf(r) = PlaceOf(q)
  <2>1. r \in drawn /\ PlaceOf(r) = PlaceOf(q)
    OBVIOUS
  <2>2. q \in Pixels(c) /\ Target(c, q) \in Point
    BY <1>1
  <2>3. r = q
    BY <1>7, <2>1, <2>2
  <2>4. PlaceOf(q) \in at /\ PlaceOf(q) \in Place
    BY <1>4
  <2>5. result[PlaceOf(q)] = Colored(Sample(c, r))
    BY <1>6, <2>4
  <2> QED BY <2>3, <2>4, <2>5
<1>9. \A s \in Place : s \notin at => result[s] = m[s]
  BY <1>6
<1>10. result \in Memory
  <2>1. \A s \in at : result[s] \in Colour
    BY <1>1, <1>3, <1>8
  <2>2. \A s \in Place : s \notin at => result[s] \in Colour
    BY <1>9 DEF Memory
  <2>3. DOMAIN result = Place /\ result = [s \in Place |-> result[s]]
    BY <1>6
  <2> HIDE DEF result, at
  <2> QED BY <2>1, <2>2, <2>3 DEF Memory
<1> HIDE DEF result
<1>11. ASSUME NEW q \in Pixels(c), Target(c, q) \in Point
       PROVE  result[PlaceOf(q)] =
                IF drawColors[Sample(c, q)] # 0 THEN Colored(Sample(c, q)) ELSE m[PlaceOf(q)]
  <2>1. CASE drawColors[Sample(c, q)] # 0
    BY <1>2, <1>8, <1>11, <2>1
  <2>2. CASE drawColors[Sample(c, q)] = 0
    <3>1. PlaceOf(q) \notin at
      BY <1>1, <1>7, <1>11, <2>2
    <3>2. PlaceOf(q) \in Place
      BY <1>11, AtType
    <3> QED BY <1>9, <2>2, <3>1, <3>2
  <2> QED BY <2>1, <2>2
<1>12. ASSUME NEW p \in Point, \A q \in Pixels(c) : Target(c, q) # p
       PROVE  result[At(p[1], p[2])] = m[At(p[1], p[2])]
  <2>1. At(p[1], p[2]) \notin at
    BY <1>1, <1>12, AtInjective
  <2> HIDE DEF at
  <2> QED BY <1>9, <2>1, AtType
<1> QED BY <1>10, <1>11, <1>12 DEF PictureOn, result

\* The pixel of the picture that the canvas names for pixel q of the loop: the
\* loop flips and turns what it reads, the canvas where it puts it.
Turned(c, q) ==
  <<IF c.flipX # c.rotate THEN c.width - 1 - q[1] ELSE q[1],
    IF c.flipY THEN c.height - 1 - q[2] ELSE q[2]>>

\* The code samples the pixel that a point of the screen shows; the canvas puts each
\* pixel of the picture on a point.  Flipped and turned, these are the same.
LEMMA TurnedPixel ==
  ASSUME NEW c, IsPicture(c), NEW q \in Pixels(c)
  PROVE  /\ Turned(c, q) \in Pixels(c)
         /\ Turned(c, Turned(c, q)) = q
         /\ Glass!Placed(c, Turned(c, q)) = Target(c, q)
         /\ Glass!PenOf(c, Turned(c, q)) = Sample(c, q)
<1>1. /\ c.x \in Int /\ c.y \in Int /\ c.width \in Nat /\ c.height \in Nat
      /\ c.srcX \in Nat /\ c.srcY \in Nat /\ c.stride \in Nat
      /\ c.flipX \in BOOLEAN /\ c.flipY \in BOOLEAN /\ c.rotate \in BOOLEAN
  BY DEF IsPicture
<1>2. /\ q[1] \in Int /\ q[2] \in Int /\ q = <<q[1], q[2]>>
      /\ q[1] >= 0 /\ q[1] < c.width /\ q[2] >= 0 /\ q[2] < c.height
  BY PictureFacts
<1> DEFINE u == IF c.flipX # c.rotate THEN c.width - 1 - q[1] ELSE q[1]
           v == IF c.flipY THEN c.height - 1 - q[2] ELSE q[2]
<1>3. Turned(c, q)[1] = u /\ Turned(c, q)[2] = v /\ Turned(c, q) = <<u, v>>
  BY DEF Turned
<1>4. u \in 0..(c.width - 1) /\ v \in 0..(c.height - 1)
  BY <1>1, <1>2
<1>5. Turned(c, q) \in Pixels(c)
  <2> HIDE DEF u, v
  <2> QED BY <1>3, <1>4 DEF Pixels
<1>6. Turned(c, Turned(c, q)) = q
  <2>1. Turned(c, Turned(c, q)) = <<IF c.flipX # c.rotate THEN c.width - 1 - u ELSE u,
                                    IF c.flipY THEN c.height - 1 - v ELSE v>>
    <3> HIDE DEF u, v
    <3> QED BY <1>3 DEF Turned
  <2>2. (IF c.flipX # c.rotate THEN c.width - 1 - u ELSE u) = q[1]
    BY <1>1, <1>2
  <2>3. (IF c.flipY THEN c.height - 1 - v ELSE v) = q[2]
    BY <1>1, <1>2
  <2> QED BY <1>2, <2>1, <2>2, <2>3
<1>7. Glass!Placed(c, Turned(c, q)) = Target(c, q)
  <2> DEFINE a == IF c.flipX THEN c.width - 1 - u ELSE u
             b == IF c.flipY THEN c.height - 1 - v ELSE v
  <2>1. Glass!Placed(c, Turned(c, q)) =
          IF c.rotate THEN <<c.x + b, c.y + c.width - 1 - a>> ELSE <<c.x + a, c.y + b>>
    <3> HIDE DEF u, v
    <3> QED BY <1>3 DEF Glass!Placed
  <2>2. b = q[2]
    BY <1>1, <1>2
  <2>3. CASE c.rotate
    <3>0. a = c.width - 1 - q[1]
      <4>1. CASE c.flipX
        <5>1. u = q[1]
          BY <1>1, <2>3, <4>1
        <5> HIDE DEF u
        <5> QED BY <4>1, <5>1
      <4>2. CASE ~c.flipX
        <5>1. u = c.width - 1 - q[1]
          BY <1>1, <2>3, <4>2
        <5> HIDE DEF u
        <5> QED BY <4>2, <5>1
      <4> QED BY <4>1, <4>2
    <3>1. c.y + c.width - 1 - a = c.y + q[1]
      <4> HIDE DEF a
      <4> QED BY <1>1, <1>2, <3>0
    <3> QED BY <2>1, <2>2, <2>3, <3>1 DEF Target
  <2>4. CASE ~c.rotate
    <3>1. a = q[1]
      BY <1>1, <1>2, <2>4
    <3> QED BY <2>1, <2>2, <2>4, <3>1 DEF Target
  <2> QED BY <2>3, <2>4
<1>8. Glass!PenOf(c, Turned(c, q)) = Sample(c, q)
  <2>1. Glass!PenOf(c, Turned(c, q)) = c.sprite[(c.srcY + v) * c.stride + c.srcX + u]
    <3> HIDE DEF u, v
    <3> QED BY <1>3 DEF Glass!PenOf
  <2> DEFINE sx == c.srcX + (IF c.flipX # c.rotate THEN c.width - q[1] - 1 ELSE q[1])
             sy == c.srcY + (IF c.flipY THEN c.height - q[2] - 1 ELSE q[2])
  <2>2. Sample(c, q) = c.sprite[sy * c.stride + sx]
    BY DEF Sample
  <2>3. sx = c.srcX + u /\ sy = c.srcY + v
    BY <1>1, <1>2
  <2>4. u \in Int /\ v \in Int
    BY <1>1, <1>4
  <2> HIDE DEF u, v, sx, sy
  <2>5. (c.srcY + v) * c.stride + c.srcX + u = (c.srcY + v) * c.stride + (c.srcX + u)
    <3>1. (c.srcY + v) * c.stride \in Int
      BY <1>1, <2>4
    <3> QED BY <1>1, <2>4, <3>1
  <2> QED BY <2>1, <2>2, <2>3, <2>5
<1> QED BY <1>5, <1>6, <1>7, <1>8

\* w4_framebufferBlit draws the canvas's picture.
LEMMA BlitShows ==
  ASSUME TypeOK, NEW c, IsPicture(c), Blit(c)
  PROVE  framebuffer' \in Memory /\ Glass!Blit(c)
<1> DEFINE Under(p) == {q \in Pixels(c) : Glass!Placed(c, q) = p /\ drawColors[Glass!PenOf(c, q)] # 0}
           Seen(p) == IF Under(p) = {} THEN Picture(framebuffer)[p]
                      ELSE Glass!Ink(Glass!PenOf(c, CHOOSE q \in Under(p) : TRUE))
<1>0. framebuffer \in Memory /\ drawColors \in [0..3 -> Nibble]
  BY DEF TypeOK, Memory
<1>1. PictureOn(framebuffer, c, framebuffer')
  BY <1>0, BlittedShows DEF Blit
<1>2. ASSUME NEW q \in Pixels(c)
      PROVE  Glass!Placed(c, q) = Target(c, Turned(c, q)) /\ Glass!PenOf(c, q) = Sample(c, Turned(c, q))
  <2>1. Turned(c, q) \in Pixels(c) /\ Turned(c, Turned(c, q)) = q
    BY TurnedPixel
  <2>2. /\ Glass!Placed(c, Turned(c, Turned(c, q))) = Target(c, Turned(c, q))
        /\ Glass!PenOf(c, Turned(c, Turned(c, q))) = Sample(c, Turned(c, q))
    BY <2>1, TurnedPixel
  <2> QED BY <2>1, <2>2
<1>3. ASSUME NEW p \in Point
      PROVE  framebuffer'[At(p[1], p[2])] = Seen(p)
  <2>0. Picture(framebuffer)[p] = framebuffer[At(p[1], p[2])]
    BY DEF Picture
  <2>1. CASE \E q \in Pixels(c) : Target(c, q) = p
    <3>1. PICK q \in Pixels(c) : Target(c, q) = p
      BY <2>1
    <3>2. framebuffer'[At(p[1], p[2])] =
            IF drawColors[Sample(c, q)] # 0 THEN Colored(Sample(c, q)) ELSE framebuffer[At(p[1], p[2])]
      BY <1>1, <3>1 DEF PictureOn
    <3>3. ASSUME NEW r \in Under(p) PROVE Glass!PenOf(c, r) = Sample(c, q) /\ drawColors[Sample(c, q)] # 0
      <4>1. r \in Pixels(c) /\ Target(c, Turned(c, r)) = p /\ Turned(c, r) \in Pixels(c)
        BY <1>2, TurnedPixel
      <4>2. Turned(c, r) = q
        BY <3>1, <4>1, TargetInjective
      <4> QED BY <1>2, <4>1, <4>2
    <3>4. drawColors[Sample(c, q)] # 0 => Turned(c, q) \in Under(p)
      BY <3>1, TurnedPixel
    <3>5. Sample(c, q) \in 0..3 /\ Glass!Ink(Sample(c, q)) = Colored(Sample(c, q))
      BY <1>0, PictureFacts, ColoredType
    <3> HIDE DEF Under
    <3>6. CASE drawColors[Sample(c, q)] # 0
      <4>1. (CHOOSE r \in Under(p) : TRUE) \in Under(p) /\ Under(p) # {}
        BY <3>4, <3>6
      <4> QED BY <3>2, <3>3, <3>5, <3>6, <4>1
    <3>7. CASE drawColors[Sample(c, q)] = 0
      <4>1. Under(p) = {}
        BY <3>3, <3>7
      <4> QED BY <2>0, <3>2, <3>7, <4>1
    <3> QED BY <3>6, <3>7
  <2>2. CASE \A q \in Pixels(c) : Target(c, q) # p
    <3>1. Under(p) = {}
      BY <1>2, <2>2, TurnedPixel
    <3>2. framebuffer'[At(p[1], p[2])] = framebuffer[At(p[1], p[2])]
      BY <1>1, <2>2 DEF PictureOn
    <3> QED BY <2>0, <3>1, <3>2
  <2> QED BY <2>1, <2>2
<1>4. Picture(framebuffer') = [p \in Point |-> Seen(p)]
  BY <1>3 DEF Picture
<1>5. framebuffer' \in Memory
  BY <1>1 DEF PictureOn
<1> QED BY <1>4, <1>5, GlassShows DEF Glass!Blit, Pixels

-----------------------------------------------------------------------------
(* Texts. *)

\* The same for a function on the first n numbers.
FollowsUpto(f, start, F, N) ==
  \A n \in 0..N : f[n] = IF n = 0 THEN start ELSE F[n][f[n - 1]]

\* As Recursion, for a function on the numbers up to N.
LEMMA RecursionUpto ==
  ASSUME NEW S, NEW start \in S, NEW N \in Nat, NEW F \in [1..N -> [S -> S]]
  PROVE  \E f \in [0..N -> S] : FollowsUpto(f, start, F, N)
<1> DEFINE G == [k \in Nat |-> IF k + 1 \in 1..N THEN F[k + 1] ELSE [s \in S |-> s]]
<1>1. G \in [Nat -> [S -> S]]
  OBVIOUS
<1>2. PICK g \in [Nat -> S] : Follows(g, start, G)
  <2> HIDE DEF G
  <2> QED BY <1>1, Recursion
<1> DEFINE f == [n \in 0..N |-> g[n]]
<1>3. f \in [0..N -> S]
  OBVIOUS
<1>4. ASSUME NEW n \in 0..N PROVE f[n] = IF n = 0 THEN start ELSE F[n][f[n - 1]]
  <2>1. CASE n = 0
    BY <1>2, <2>1 DEF Follows
  <2>2. CASE n # 0
    <3>1. n - 1 \in Nat /\ n - 1 \in 0..N /\ (n - 1) + 1 = n /\ n \in 1..N
      BY <2>2
    <3>2. G[n - 1] = F[n]
      BY <3>1
    <3> HIDE DEF G
    <3>3. g[n] = G[n - 1][g[n - 1]]
      <4>1. n \in Nat
        OBVIOUS
      <4> QED BY <1>2, <2>2, <4>1 DEF Follows
    <3> QED BY <2>2, <3>1, <3>2, <3>3
  <2> QED BY <2>1, <2>2
<1> HIDE DEF f
<1> QED BY <1>3, <1>4 DEF FollowsUpto

\* Where the loop of a text is after each character.
IsPath(c, at) ==
  at = [n \in 0..Len(c.str) |->
          IF n = 0 THEN <<c.x, c.y>> ELSE Advance(c, c.str[n], at[n - 1])]

Path(c) == CHOOSE at : IsPath(c, at)

\* The loop over the characters of a text is the function its recursion describes.
LEMMA PathValue ==
  ASSUME NEW c, IsText(c)
  PROVE  /\ Path(c) \in [0..Len(c.str) -> Int \X Int]
         /\ Path(c)[0] = <<c.x, c.y>>
         /\ \A n \in 1..Len(c.str) : Path(c)[n] = Advance(c, c.str[n], Path(c)[n - 1])
<1> DEFINE N == Len(c.str)
           F == [n \in 1..N |-> [p \in Int \X Int |-> Advance(c, c.str[n], p)]]
<1>1. c.x \in Int /\ c.y \in Int /\ N \in Nat /\ Glyph \in Nat /\ <<c.x, c.y>> \in Int \X Int
  BY FontAssumption DEF IsText
<1>2. \A ch, p : p \in Int \X Int => Advance(c, ch, p) \in Int \X Int
  BY <1>1 DEF Advance
<1>3. F \in [1..N -> [Int \X Int -> Int \X Int]]
  BY <1>2
<1>4. PICK f \in [0..N -> Int \X Int] : FollowsUpto(f, <<c.x, c.y>>, F, N)
  <2> HIDE DEF F, N
  <2> QED BY <1>1, <1>3, RecursionUpto
<1>5. \A n \in 0..N : n # 0 => F[n][f[n - 1]] = Advance(c, c.str[n], f[n - 1])
  <2>1. \A n \in 0..N : n # 0 => n \in 1..N /\ n - 1 \in 0..N
    BY <1>1
  <2> HIDE DEF N
  <2> QED BY <2>1
<1>6. IsPath(c, f)
  <2> HIDE DEF F
  <2> QED BY <1>4, <1>5 DEF IsPath, FollowsUpto
<1>7. IsPath(c, Path(c))
  BY <1>6 DEF Path
<1>8. Path(c)[0] = <<c.x, c.y>>
  BY <1>1, <1>7 DEF IsPath
<1>9. \A n \in 1..N : Path(c)[n] = Advance(c, c.str[n], Path(c)[n - 1])
  <2>1. \A n \in 1..N : n \in 0..N /\ n # 0
    BY <1>1
  <2> QED BY <1>7, <2>1 DEF IsPath
<1> DEFINE T == {n \in Nat : n <= N => Path(c)[n] \in Int \X Int}
<1>10. 0 \in T
  BY <1>1, <1>8
<1>11. ASSUME NEW n \in Nat, n \in T PROVE n + 1 \in T
  <2>1. n + 1 <= N => n + 1 \in 1..N /\ (n + 1) - 1 = n /\ n <= N
    BY <1>1
  <2> HIDE DEF N
  <2> QED BY <1>2, <1>9, <1>11, <2>1
<1>12. Nat \subseteq T
  <2> HIDE DEF T
  <2> QED BY <1>10, <1>11, SetInduction
<1>13. \A n \in 0..N : Path(c)[n] \in Int \X Int
  BY <1>1, <1>12
<1>14. Path(c) \in [0..N -> Int \X Int]
  <2>1. Path(c) = [n \in 0..N |-> Path(c)[n]]
    BY <1>7 DEF IsPath
  <2> HIDE DEF N
  <2> QED BY <1>13, <2>1
<1> QED BY <1>8, <1>9, <1>14

\* What the canvas says of a line break.
LEMMA BreakFacts ==
  ASSUME NEW c, IsText(c), NEW n \in Nat \ {0}
  PROVE  /\ IsFiniteSet(Glass!Breaks(c, n)) /\ Cardinality(Glass!Breaks(c, n)) \in Nat
         /\ Glass!LastBreak(c, n) \in {0} \cup Glass!Breaks(c, n)
         /\ \A l \in Glass!Breaks(c, n) : l <= Glass!LastBreak(c, n)
         /\ Glass!Breaks(c, n) \subseteq 1..(n - 1)
<1> DEFINE T == {k \in Nat : k # 0 =>
                   \E m \in {0} \cup Glass!Breaks(c, k) : \A l \in Glass!Breaks(c, k) : l <= m}
<1>1. Glass!Breaks(c, n) \subseteq 1..(n - 1)
  BY DEF Glass!Breaks
<1>2. IsFiniteSet(Glass!Breaks(c, n)) /\ Cardinality(Glass!Breaks(c, n)) \in Nat
  <2>1. IsFiniteSet(1..(n - 1))
    BY FS_Interval
  <2>2. IsFiniteSet(Glass!Breaks(c, n))
    BY <1>1, <2>1, FS_Subset
  <2> QED BY <2>2, FS_CardinalityType
<1>3. 0 \in T
  OBVIOUS
<1>4. ASSUME NEW k \in Nat, k \in T PROVE k + 1 \in T
  <2>1. CASE k = 0
    <3>1. Glass!Breaks(c, k + 1) = {}
      BY <2>1 DEF Glass!Breaks
    <3> QED BY <3>1
  <2>2. CASE k # 0
    <3>1. PICK m \in {0} \cup Glass!Breaks(c, k) : \A l \in Glass!Breaks(c, k) : l <= m
      BY <1>4, <2>2
    <3>2. 1..((k + 1) - 1) = (1..(k - 1)) \cup {k}
      BY <2>2
    <3>3. CASE c.str[k] = 10
      <4>1. k \in Glass!Breaks(c, k + 1) /\ \A l \in Glass!Breaks(c, k + 1) : l <= k
        BY <2>2, <3>3 DEF Glass!Breaks
      <4> QED BY <4>1
    <3>4. CASE c.str[k] # 10
      <4>1. Glass!Breaks(c, k + 1) = Glass!Breaks(c, k)
        BY <3>2, <3>4 DEF Glass!Breaks
      <4> QED BY <3>1, <4>1
    <3> QED BY <3>3, <3>4
  <2> QED BY <2>1, <2>2
<1>5. \E m \in {0} \cup Glass!Breaks(c, n) : \A l \in Glass!Breaks(c, n) : l <= m
  <2>1. Nat \subseteq T
    <3> HIDE DEF T
    <3> QED BY <1>3, <1>4, SetInduction
  <2> QED BY <2>1
<1>6. /\ Glass!LastBreak(c, n) \in {0} \cup Glass!Breaks(c, n)
      /\ \A l \in Glass!Breaks(c, n) : l <= Glass!LastBreak(c, n)
  BY <1>5 DEF Glass!LastBreak
<1> QED BY <1>1, <1>2, <1>6

\* The canvas counts as the proofs do.
LEMMA GlassCardinality == ASSUME NEW S PROVE Glass!Cardinality(S) = Cardinality(S)
BY DEF Glass!Cardinality, Cardinality

\* The upper edge of a cell, in the words of the proofs.
LEMMA UpperValue == ASSUME NEW c, NEW n PROVE Glass!Upper(c, n) = c.y + Cardinality(Glass!Breaks(c, n)) * Glyph
BY GlassCardinality DEF Glass!Upper

\* The loop is where the canvas puts the next character.
LEMMA PathCorner ==
  ASSUME NEW c, IsText(c), NEW n \in 1..Len(c.str)
  PROVE  /\ Path(c)[n - 1] = <<Glass!Left(c, n), Glass!Upper(c, n)>>
         /\ Glass!Left(c, n) \in Int /\ Glass!Upper(c, n) \in Int
<1> DEFINE N == Len(c.str)
           Here(k) == Path(c)[k] = <<Glass!Left(c, k + 1), Glass!Upper(c, k + 1)>>
           T == {k \in Nat : k <= N => Here(k)}
<1>1. c.x \in Int /\ c.y \in Int /\ N \in Nat /\ Glyph \in Nat
  BY FontAssumption DEF IsText
<1>2. 0 \in T
  <2>1. Glass!Breaks(c, 1) = {}
    BY DEF Glass!Breaks
  <2>2. Glass!LastBreak(c, 1) = 0
    BY <2>1, BreakFacts
  <2>3. Cardinality(Glass!Breaks(c, 1)) = 0
    BY <2>1, FS_EmptySet
  <2>4. Glass!Left(c, 1) = c.x /\ Glass!Upper(c, 1) = c.y
    <3>1. Glass!Left(c, 1) = c.x + (1 - 1 - 0) * Glyph
      BY <2>2 DEF Glass!Left
    <3>2. Glass!Upper(c, 1) = c.y + 0 * Glyph
      BY <2>3, UpperValue
    <3> QED BY <1>1, <3>1, <3>2
  <2> QED BY <2>4, PathValue
<1>3. ASSUME NEW k \in Nat, k \in T, k + 1 <= N PROVE Here(k + 1)
  <2> DEFINE m == k + 1
             last == Glass!LastBreak(c, m)
             count == Cardinality(Glass!Breaks(c, m))
  <2>1. m \in 1..N /\ m - 1 = k /\ k <= N
    BY <1>1, <1>3
  <2>2. Path(c)[m] = Advance(c, c.str[m], Path(c)[k])
    BY <2>1, PathValue
  <2>3. Path(c)[k] = <<Glass!Left(c, m), Glass!Upper(c, m)>>
    BY <1>3, <2>1
  <2>4. /\ IsFiniteSet(Glass!Breaks(c, m)) /\ count \in Nat
        /\ last \in {0} \cup Glass!Breaks(c, m)
        /\ \A l \in Glass!Breaks(c, m) : l <= last
        /\ Glass!Breaks(c, m) \subseteq 1..(m - 1)
    BY <2>1, BreakFacts
  <2>5. last \in Nat /\ last < m
    BY <2>1, <2>4
  <2>6. /\ Glass!LastBreak(c, m + 1) \in {0} \cup Glass!Breaks(c, m + 1)
        /\ \A l \in Glass!Breaks(c, m + 1) : l <= Glass!LastBreak(c, m + 1)
        /\ Glass!Breaks(c, m + 1) \subseteq 1..m
    <3>1. m + 1 \in Nat \ {0} /\ (m + 1) - 1 = m
      BY <2>1
    <3> QED BY <3>1, BreakFacts
  <2>7. 1..((m + 1) - 1) = (1..(m - 1)) \cup {m} /\ m \notin 1..(m - 1)
    BY <2>1
  <2>8. CASE c.str[m] = 10
    <3>1. Glass!Breaks(c, m + 1) = Glass!Breaks(c, m) \cup {m}
      BY <2>7, <2>8 DEF Glass!Breaks
    <3>2. Glass!LastBreak(c, m + 1) = m
      BY <2>1, <2>6, <3>1
    <3>3. Cardinality(Glass!Breaks(c, m + 1)) = count + 1
      <4>1. m \notin Glass!Breaks(c, m)
        BY <2>4, <2>7
      <4> QED BY <2>4, <3>1, <4>1, FS_AddElement
    <3>4. Glass!Left(c, m + 1) = c.x
      <4>1. Glass!Left(c, m + 1) = c.x + ((m + 1) - 1 - m) * Glyph
        BY <3>2 DEF Glass!Left
      <4> QED BY <1>1, <2>1, <4>1
    <3>5. Glass!Upper(c, m + 1) = Glass!Upper(c, m) + Glyph
      <4>1. Glass!Upper(c, m + 1) = c.y + Cardinality(Glass!Breaks(c, m + 1)) * Glyph
        BY UpperValue
      <4>2. Glass!Upper(c, m) = c.y + count * Glyph
        BY UpperValue
      <4> HIDE DEF count
      <4>3. (count + 1) * Glyph = count * Glyph + Glyph /\ count * Glyph \in Int
        BY <1>1, <2>4
      <4> QED BY <1>1, <3>3, <4>1, <4>2, <4>3
    <3> QED BY <2>2, <2>3, <2>8, <3>4, <3>5 DEF Advance
  <2>9. CASE c.str[m] # 10
    <3>1. Glass!Breaks(c, m + 1) = Glass!Breaks(c, m)
      BY <2>7, <2>9 DEF Glass!Breaks
    <3>2. Glass!LastBreak(c, m + 1) = last
      BY <3>1 DEF Glass!LastBreak
    <3>3. Glass!Upper(c, m + 1) = Glass!Upper(c, m)
      BY <3>1 DEF Glass!Upper
    <3>4. Glass!Left(c, m + 1) = Glass!Left(c, m) + Glyph
      <4>1. /\ Glass!Left(c, m + 1) = c.x + ((m + 1) - 1 - last) * Glyph
            /\ Glass!Left(c, m) = c.x + (m - 1 - last) * Glyph
        BY <3>2 DEF Glass!Left
      <4> HIDE DEF m, last
      <4>2. ((m + 1) - 1 - last) * Glyph = (m - 1 - last) * Glyph + Glyph
        BY <1>1, <2>1, <2>5
      <4>3. (m - 1 - last) * Glyph \in Int
        BY <1>1, <2>1, <2>5
      <4> QED BY <1>1, <4>1, <4>2, <4>3
    <3> QED BY <2>2, <2>3, <2>9, <3>3, <3>4 DEF Advance
  <2> QED BY <2>8, <2>9
<1>4. Nat \subseteq T
  <2>1. \A k \in Nat : k \in T => k + 1 \in T
    BY <1>3
  <2> HIDE DEF T
  <2> QED BY <1>2, <2>1, SetInduction
<1>5. n - 1 \in Nat /\ n - 1 <= N /\ (n - 1) + 1 = n /\ n - 1 \in 0..N
  BY <1>1
<1>6. Path(c)[n - 1] = <<Glass!Left(c, n), Glass!Upper(c, n)>>
  BY <1>4, <1>5
<1>7. Path(c)[n - 1] \in Int \X Int
  BY <1>5, PathValue
<1> QED BY <1>6, <1>7

\* The cells of two characters do not overlap: the later one stands further to
\* the right in the same row, or in a row further down.
LEMMA CellsDisjoint ==
  ASSUME NEW c, IsText(c), NEW j \in 1..Len(c.str), NEW k \in 1..Len(c.str),
         j < k, c.str[j] # 10
  PROVE  Glass!Cell(c, j) \cap Glass!Cell(c, k) = {}
<1> DEFINE N == Len(c.str)
           P(i) == Path(c)[i]
           Past(i) == \/ P(i)[2] >= P(j - 1)[2] + Glyph
                      \/ P(i)[2] = P(j - 1)[2] /\ P(i)[1] >= P(j - 1)[1] + Glyph
           T == {i \in Nat : i >= j /\ i <= N => Past(i)}
<1>1. c.x \in Int /\ c.y \in Int /\ N \in Nat /\ Glyph \in Nat \ {0} /\ j \in 1..N /\ k \in 1..N
  BY FontAssumption DEF IsText
<1>2. \A i \in 0..N : P(i)[1] \in Int /\ P(i)[2] \in Int
  BY PathValue
<1>3. \A i \in 1..N : P(i) = Advance(c, c.str[i], P(i - 1))
  BY PathValue
<1> HIDE DEF P
<1>4. j - 1 \in 0..N /\ P(j - 1)[1] \in Int /\ P(j - 1)[2] \in Int
  BY <1>1, <1>2
<1>5. Past(j)
  <2>1. P(j) = Advance(c, c.str[j], P(j - 1))
    BY <1>1, <1>3
  <2>2. P(j) = <<P(j - 1)[1] + Glyph, P(j - 1)[2]>>
    BY <2>1, c.str[j] # 10 DEF Advance
  <2>3. P(j)[2] = P(j - 1)[2] /\ P(j)[1] = P(j - 1)[1] + Glyph
    BY <2>2
  <2> QED BY <1>1, <1>4, <2>3
<1>6. ASSUME NEW i \in Nat, i \in T, i + 1 >= j, i + 1 <= N PROVE Past(i + 1)
  <2>1. CASE i + 1 = j
    BY <1>5, <2>1
  <2>2. CASE i + 1 # j
    <3>1. i >= j /\ i <= N /\ i + 1 \in 1..N /\ i \in 0..N /\ (i + 1) - 1 = i
      BY <1>1, <1>6, <2>2
    <3>2. Past(i)
      BY <1>6, <3>1
    <3>3. P(i + 1) = Advance(c, c.str[i + 1], P(i)) /\ P(i)[1] \in Int /\ P(i)[2] \in Int
      BY <1>2, <1>3, <3>1
    <3>4. CASE c.str[i + 1] = 10
      <4>1. P(i + 1)[2] = P(i)[2] + Glyph
        BY <3>3, <3>4 DEF Advance
      <4>2. Glyph \in Nat
        BY <1>1
      <4>3. P(i)[2] >= P(j - 1)[2]
        BY <1>4, <3>2, <3>3, <4>2
      <4> QED BY <1>4, <3>3, <4>1, <4>2, <4>3
    <3>5. CASE c.str[i + 1] # 10
      <4>1. P(i + 1)[2] = P(i)[2] /\ P(i + 1)[1] = P(i)[1] + Glyph
        BY <3>3, <3>5 DEF Advance
      <4>2. CASE P(i)[2] >= P(j - 1)[2] + Glyph
        BY <4>1, <4>2
      <4>3. CASE P(i)[2] = P(j - 1)[2] /\ P(i)[1] >= P(j - 1)[1] + Glyph
        <5>1. Glyph \in Nat
          BY <1>1
        <5>2. P(i + 1)[1] >= P(j - 1)[1] + Glyph
          BY <1>4, <3>3, <4>1, <4>3, <5>1
        <5> QED BY <4>1, <4>3, <5>2
      <4> QED BY <3>2, <4>2, <4>3
    <3> QED BY <3>4, <3>5
  <2> QED BY <2>1, <2>2
<1>7. Nat \subseteq T
  <2>1. 0 \in T
    BY <1>1
  <2>2. \A i \in Nat : i \in T => i + 1 \in T
    BY <1>6
  <2> HIDE DEF T
  <2> QED BY <2>1, <2>2, SetInduction
<1>8. Past(k - 1)
  <2>1. k - 1 \in Nat /\ k - 1 >= j /\ k - 1 <= N
    BY <1>1
  <2> HIDE DEF N
  <2> QED BY <1>7, <2>1
<1>9. /\ P(j - 1)[1] = Glass!Left(c, j) /\ P(j - 1)[2] = Glass!Upper(c, j)
      /\ P(k - 1)[1] = Glass!Left(c, k) /\ P(k - 1)[2] = Glass!Upper(c, k)
      /\ Glass!Left(c, j) \in Int /\ Glass!Upper(c, j) \in Int
      /\ Glass!Left(c, k) \in Int /\ Glass!Upper(c, k) \in Int
  BY PathCorner DEF P
<1>10. SUFFICES ASSUME NEW p \in Glass!Cell(c, j), p \in Glass!Cell(c, k) PROVE FALSE
  OBVIOUS
<1>11. /\ p[1] \in Glass!Left(c, j)..(Glass!Left(c, j) + Glyph - 1)
       /\ p[2] \in Glass!Upper(c, j)..(Glass!Upper(c, j) + Glyph - 1)
       /\ p[1] \in Glass!Left(c, k)..(Glass!Left(c, k) + Glyph - 1)
       /\ p[2] \in Glass!Upper(c, k)..(Glass!Upper(c, k) + Glyph - 1)
  BY <1>10 DEF Glass!Cell
<1>12. ASSUME NEW a \in Int, NEW b \in Int, NEW q \in a..(a + Glyph - 1), q \in b..(b + Glyph - 1)
       PROVE  ~(b >= a + Glyph)
  BY <1>1, <1>12
<1>13. ~(P(k - 1)[2] >= P(j - 1)[2] + Glyph)
  BY <1>9, <1>11, <1>12
<1>14. ~(P(k - 1)[1] >= P(j - 1)[1] + Glyph)
  BY <1>9, <1>11, <1>12
<1> QED BY <1>8, <1>13, <1>14

\* A character is a picture, and its pixels are the points of its cell.
LEMMA CharacterPicture ==
  ASSUME NEW ch \in 32..255, NEW x \in Int, NEW y \in Int
  PROVE  IsPicture(Character(ch, x, y))
<1> DEFINE g == Character(ch, x, y)
           row == (ch - 32) * Glyph
<1>1. Glyph \in Nat \ {0} /\ ch - 32 \in 0..223 /\ Glyph * Glyph \in Nat
  BY FontAssumption
<1>2. row \in Nat /\ row <= 223 * Glyph
  BY <1>1
<1>3. ASSUME NEW u \in 0..(Glyph - 1), NEW v \in 0..(Glyph - 1)
      PROVE  Font[(row + v) * Glyph + 0 + u] \in 0..3
  <2>1. row + v \in Nat /\ row + v + 1 <= 224 * Glyph
    BY <1>1, <1>2
  <2>2. (row + v + 1) * Glyph <= (224 * Glyph) * Glyph
    <3> DEFINE k == 224 * Glyph - (row + v + 1)
    <3>1. k \in Nat
      BY <1>1, <2>1
    <3>2. k * Glyph >= 0 /\ k * Glyph \in Int
      BY <1>1, <3>1
    <3>3. (224 * Glyph) * Glyph = (row + v + 1) * Glyph + k * Glyph
      BY <1>1, <1>2
    <3>4. (row + v + 1) * Glyph \in Int
      BY <1>1, <2>1
    <3> HIDE DEF k
    <3> QED BY <3>2, <3>3, <3>4
  <2>3. (row + v + 1) * Glyph = (row + v) * Glyph + Glyph /\ (row + v) * Glyph \in Nat
    BY <1>1, <2>1
  <2>4. (224 * Glyph) * Glyph = 224 * Glyph * Glyph /\ 224 * Glyph * Glyph \in Int
    BY <1>1
  <2> HIDE DEF row
  <2>5. (row + v) * Glyph + 0 + u \in 0..(224 * Glyph * Glyph - 1)
    BY <1>1, <2>2, <2>3, <2>4
  <2> QED BY <2>5, FontAssumption
<1>4. /\ g.x = x /\ g.y = y /\ g.width = Glyph /\ g.height = Glyph /\ g.srcX = 0
      /\ g.srcY = row /\ g.stride = Glyph /\ g.sprite = Font
      /\ g.flipX = FALSE /\ g.flipY = FALSE /\ g.rotate = FALSE
  BY DEF Character
<1> HIDE DEF g, row
<1>5. \A u \in 0..(g.width - 1), v \in 0..(g.height - 1) :
        g.sprite[(g.srcY + v) * g.stride + g.srcX + u] \in 0..3
  BY <1>3, <1>4
<1>6. IsPicture(g)
  <2>1. /\ g.x \in Int /\ g.y \in Int /\ g.width \in Nat /\ g.height \in Nat
        /\ g.srcX \in Nat /\ g.srcY \in Nat /\ g.stride \in Nat
    BY <1>1, <1>2, <1>4
  <2>2. g.flipX \in BOOLEAN /\ g.flipY \in BOOLEAN /\ g.rotate \in BOOLEAN
    BY <1>4
  <2> QED BY <1>5, <2>1, <2>2 DEF IsPicture
<1> QED BY <1>6 DEF g

FillsCell(g, c, n) ==
  /\ IsPicture(g)
  /\ \A q \in Pixels(g) : Target(g, q) \in Glass!Cell(c, n)
  /\ \A p \in Glass!Cell(c, n) :
       \E q \in Pixels(g) : Target(g, q) = p /\ Sample(g, q) = Glass!PenIn(c, n, p)

\* Where a character of the text is drawn, and what every point of it shows.
LEMMA CharacterCell ==
  ASSUME NEW c, IsText(c), NEW n \in 1..Len(c.str), c.str[n] \in 32..255,
         NEW g, g = Character(c.str[n], Path(c)[n - 1][1], Path(c)[n - 1][2])
  PROVE  FillsCell(g, c, n)
<1> DEFINE left  == Glass!Left(c, n)
           upper == Glass!Upper(c, n)
           ch == c.str[n]
<1>1. left \in Int /\ upper \in Int /\ Path(c)[n - 1] = <<left, upper>>
  BY PathCorner
<1>2. Path(c)[n - 1][1] = left /\ Path(c)[n - 1][2] = upper
  BY <1>1
<1>3. Glyph \in Nat \ {0} /\ ch \in Int /\ (ch - 32) * Glyph \in Int
  <2>1. Glyph \in Nat \ {0} /\ ch \in Int
    <3>1. ch \in 32..255
      OBVIOUS
    <3> HIDE DEF ch
    <3>2. ch \in Int
      BY <3>1
    <3> QED BY <3>2, FontAssumption
  <2> HIDE DEF ch
  <2> QED BY <2>1
<1>4. Glass!Cell(c, n) = (left..(left + Glyph - 1)) \X (upper..(upper + Glyph - 1))
  BY DEF Glass!Cell
<1>5. \A p : Glass!PenIn(c, n, p) =
               Font[((ch - 32) * Glyph + p[2] - upper) * Glyph + p[1] - left]
  BY DEF Glass!PenIn
<1> HIDE DEF left, upper, ch
<1>6. g = Character(ch, left, upper)
  BY <1>2 DEF ch
<1>7. IsPicture(g)
  BY <1>1, <1>6, CharacterPicture DEF ch
<1>8. /\ g.x = left /\ g.y = upper /\ g.width = Glyph /\ g.height = Glyph /\ g.srcX = 0
      /\ g.srcY = (ch - 32) * Glyph /\ g.stride = Glyph /\ g.sprite = Font
      /\ g.flipX = FALSE /\ g.flipY = FALSE /\ g.rotate = FALSE
  BY <1>6 DEF Character
<1>9. Pixels(g) = (0..(Glyph - 1)) \X (0..(Glyph - 1))
  BY <1>8 DEF Pixels
<1>10. \A q : Target(g, q) = <<left + q[1], upper + q[2]>>
  BY <1>8 DEF Target
<1>11. \A q : Sample(g, q) = Font[((ch - 32) * Glyph + q[2]) * Glyph + (0 + q[1])]
  BY <1>8 DEF Sample
<1>12. ASSUME NEW q \in Pixels(g) PROVE Target(g, q) \in Glass!Cell(c, n)
  <2>1. q[1] \in 0..(Glyph - 1) /\ q[2] \in 0..(Glyph - 1)
    BY <1>9
  <2>2. /\ left + q[1] \in left..(left + Glyph - 1)
        /\ upper + q[2] \in upper..(upper + Glyph - 1)
    <3>0. Glyph \in Nat
      BY <1>3
    <3>1. ASSUME NEW a \in Int, NEW k \in 0..(Glyph - 1)
          PROVE  a + k \in a..(a + Glyph - 1)
      BY <3>0
    <3> QED BY <1>1, <2>1, <3>1
  <2> QED BY <1>4, <1>10, <2>2
<1>13. ASSUME NEW p \in Glass!Cell(c, n)
       PROVE  \E q \in Pixels(g) : Target(g, q) = p /\ Sample(g, q) = Glass!PenIn(c, n, p)
  <2> DEFINE q == <<p[1] - left, p[2] - upper>>
  <2>1. /\ p[1] \in left..(left + Glyph - 1) /\ p[2] \in upper..(upper + Glyph - 1)
        /\ p = <<p[1], p[2]>>
    BY <1>4
  <2>2. /\ p[1] - left \in 0..(Glyph - 1) /\ p[2] - upper \in 0..(Glyph - 1)
        /\ left + (p[1] - left) = p[1] /\ upper + (p[2] - upper) = p[2]
        /\ p[1] \in Int /\ p[2] \in Int
    <3>1. ASSUME NEW a \in Int, NEW k \in a..(a + Glyph - 1)
          PROVE  k - a \in 0..(Glyph - 1) /\ a + (k - a) = k /\ k \in Int
      <4>1. Glyph \in Nat
        BY <1>3
      <4> QED BY <4>1
    <3>2. /\ p[1] - left \in 0..(Glyph - 1) /\ left + (p[1] - left) = p[1]
          /\ p[1] \in Int
      BY <1>1, <2>1, <3>1
    <3>3. /\ p[2] - upper \in 0..(Glyph - 1) /\ upper + (p[2] - upper) = p[2]
          /\ p[2] \in Int
      BY <1>1, <2>1, <3>1
    <3> QED BY <3>2, <3>3
  <2>3. q \in Pixels(g)
    BY <1>9, <2>2
  <2>4. Target(g, q) = p
    <3>1. Target(g, q) = <<left + (p[1] - left), upper + (p[2] - upper)>>
      BY <1>10
    <3> QED BY <2>1, <2>2, <3>1
  <2>5. Sample(g, q) = Font[((ch - 32) * Glyph + (p[2] - upper)) * Glyph + (0 + (p[1] - left))]
    BY <1>11
  <2>6. ((ch - 32) * Glyph + (p[2] - upper)) * Glyph + (0 + (p[1] - left))
          = ((ch - 32) * Glyph + p[2] - upper) * Glyph + p[1] - left
    <3> DEFINE row == (ch - 32) * Glyph
    <3>0. row \in Int /\ Glyph \in Int
      BY <1>3
    <3> HIDE DEF row
    <3>1. row + (p[2] - upper) = row + p[2] - upper /\ row + p[2] - upper \in Int
      BY <1>1, <2>2, <3>0
    <3>2. ASSUME NEW j \in Int PROVE j * Glyph \in Int
      BY <3>0
    <3>3. ASSUME NEW k \in Int PROVE k + (0 + (p[1] - left)) = k + p[1] - left
      BY <1>1, <2>2
    <3>4. (row + (p[2] - upper)) * Glyph = (row + p[2] - upper) * Glyph
      BY <3>1
    <3>5. (row + p[2] - upper) * Glyph \in Int
      BY <3>1, <3>2
    <3>6. (row + (p[2] - upper)) * Glyph + (0 + (p[1] - left))
            = (row + p[2] - upper) * Glyph + p[1] - left
      BY <3>3, <3>4, <3>5
    <3> QED BY <3>6 DEF row
  <2> QED BY <1>5, <2>3, <2>4, <2>5, <2>6
<1> QED BY <1>7, <1>12, <1>13 DEF FillsCell

\* w4_framebufferText draws the canvas's text.
LEMMA TextShows ==
  ASSUME TypeOK, NEW c, IsText(c), Text(c)
  PROVE  framebuffer' \in Memory /\ Glass!Text(c)
<1> DEFINE N == Len(c.str)
           Blank(n) == c.str[n] \notin 32..255
           g(n) == Character(c.str[n], Path(c)[n - 1][1], Path(c)[n - 1][2])
           Is(f) == f = [n \in 0..N |->
                           IF n = 0 THEN framebuffer
                           ELSE IF Blank(n) THEN f[n - 1] ELSE Blitted(f[n - 1], g(n))]
           after == CHOOSE f : Is(f)
           F == [n \in 1..N |-> [m \in Memory |-> IF Blank(n) THEN m ELSE Blitted(m, g(n))]]
<1>0. /\ framebuffer \in Memory /\ drawColors \in [0..3 -> Nibble] /\ N \in Nat
      /\ \A k \in 0..3 : Colored(k) \in Colour /\ Glass!Ink(k) = Colored(k)
  BY ColoredType DEF TypeOK, Memory, IsText
<1>1. framebuffer' = after[N]
  BY DEF Text, Path, IsPath
<1>2. ASSUME NEW n \in 1..N, ~Blank(n)
      PROVE  FillsCell(g(n), c, n)
  <2>1. c.str[n] \in 32..255 /\ n \in 1..Len(c.str)
    BY <1>2
  <2> QED BY <2>1, CharacterCell
<1> HIDE DEF g
<1>3. \A n \in 1..N, m \in Memory : ~Blank(n) => PictureOn(m, g(n), Blitted(m, g(n)))
  BY <1>0, <1>2, BlittedShows DEF FillsCell
<1>4. F \in [1..N -> [Memory -> Memory]]
  <2>1. \A n \in 1..N, m \in Memory : ~Blank(n) => Blitted(m, g(n)) \in Memory
    BY <1>3 DEF PictureOn
  <2> HIDE DEF N
  <2> QED BY <2>1
<1>5. PICK f \in [0..N -> Memory] : FollowsUpto(f, framebuffer, F, N)
  <2>1. framebuffer \in Memory /\ N \in Nat
    BY <1>0
  <2> HIDE DEF F, N
  <2> QED BY <1>4, <2>1, RecursionUpto
<1>6. Is(f)
  <2>1. \A n \in 0..N : n # 0 => /\ n \in 1..N /\ n - 1 \in 0..N
                                 /\ F[n][f[n - 1]] = IF Blank(n) THEN f[n - 1]
                                                     ELSE Blitted(f[n - 1], g(n))
    <3>1. \A n \in 0..N : n # 0 => n \in 1..N /\ n - 1 \in 0..N
      BY <1>0
    <3> HIDE DEF N
    <3> QED BY <3>1
  <2> HIDE DEF F, N
  <2> QED BY <1>5, <2>1 DEF FollowsUpto
<1>7. Is(after)
  BY <1>6
<1> HIDE DEF after, F
<1>8. after[0] = framebuffer
  BY <1>0, <1>7
<1>9. \A n \in 1..N : after[n] = IF Blank(n) THEN after[n - 1] ELSE Blitted(after[n - 1], g(n))
  <2>1. \A n \in 1..N : n \in 0..N /\ n # 0
    BY <1>0
  <2> QED BY <1>7, <2>1
<1> DEFINE Has(k, p) == ~Blank(k) /\ p \in Glass!Cell(c, k)
           Shows(n) ==
             \A p \in Point :
               /\ \A k \in 1..n : Has(k, p) =>
                    after[n][At(p[1], p[2])] =
                      IF drawColors[Glass!PenIn(c, k, p)] # 0 THEN Colored(Glass!PenIn(c, k, p))
                      ELSE framebuffer[At(p[1], p[2])]
               /\ (\A k \in 1..n : ~Has(k, p)) =>
                    after[n][At(p[1], p[2])] = framebuffer[At(p[1], p[2])]
           T == {n \in Nat : n <= N => after[n] \in Memory /\ Shows(n)}
<1>10. 0 \in T
  BY <1>0, <1>8
<1>11. ASSUME NEW j \in Nat, j \in T, j + 1 <= N PROVE after[j + 1] \in Memory /\ Shows(j + 1)
  <2> DEFINE n == j + 1
  <2>1. n \in 1..N /\ n - 1 = j /\ j <= N /\ 1..n = (1..j) \cup {n} /\ \A k \in 1..j : k < n /\ k \in 1..N
    BY <1>0, <1>11
  <2>2. after[j] \in Memory /\ Shows(j)
    BY <1>11, <2>1
  <2>3. after[n] = IF Blank(n) THEN after[j] ELSE Blitted(after[j], g(n))
    BY <1>9, <2>1
  <2> HIDE DEF n, N
  <2>4. CASE Blank(n)
    <3>1. \A p : ~Has(n, p)
      BY <2>4
    <3>2. after[n] = after[j]
      BY <2>3, <2>4
    <3> HIDE DEF Has
    <3> QED BY <2>1, <2>2, <3>1, <3>2 DEF n
  <2>5. CASE ~Blank(n)
    <3>1. PictureOn(after[j], g(n), after[n])
      BY <1>3, <2>1, <2>2, <2>3, <2>5
    <3>2. \A p : Has(n, p) <=> p \in Glass!Cell(c, n)
      BY <2>5
    <3>3. ASSUME NEW p, NEW k \in 1..j, Has(k, p) PROVE p \notin Glass!Cell(c, n)
      <4>1. c.str[k] # 10 /\ k < n /\ k \in 1..Len(c.str) /\ n \in 1..Len(c.str)
        <5>1. c.str[k] \in 32..255
          BY <3>3
        <5>2. \A ch \in 32..255 : ch # 10
          OBVIOUS
        <5> QED BY <2>1, <5>1, <5>2 DEF N
      <4> QED BY <3>3, <4>1, CellsDisjoint
    <3>4. ASSUME NEW p \in Point, p \in Glass!Cell(c, n)
          PROVE  after[n][At(p[1], p[2])] =
                   IF drawColors[Glass!PenIn(c, n, p)] # 0 THEN Colored(Glass!PenIn(c, n, p))
                   ELSE framebuffer[At(p[1], p[2])]
      <4>1. PICK q \in Pixels(g(n)) : Target(g(n), q) = p /\ Sample(g(n), q) = Glass!PenIn(c, n, p)
        BY <1>2, <2>1, <2>5, <3>4 DEF FillsCell
      <4>2. after[n][At(p[1], p[2])] =
              IF drawColors[Glass!PenIn(c, n, p)] # 0 THEN Colored(Glass!PenIn(c, n, p))
              ELSE after[j][At(p[1], p[2])]
        BY <3>1, <4>1 DEF PictureOn
      <4>3. \A k \in 1..j : ~Has(k, p)
        BY <3>3, <3>4
      <4> HIDE DEF Has
      <4>4. after[j][At(p[1], p[2])] = framebuffer[At(p[1], p[2])]
        BY <2>2, <4>3
      <4> QED BY <4>2, <4>4
    <3>5. ASSUME NEW p \in Point, p \notin Glass!Cell(c, n)
          PROVE  after[n][At(p[1], p[2])] = after[j][At(p[1], p[2])]
      <4>1. \A q \in Pixels(g(n)) : Target(g(n), q) # p
        BY <1>2, <2>1, <2>5, <3>5 DEF FillsCell
      <4> QED BY <3>1, <4>1 DEF PictureOn
    <3>6. after[n] \in Memory
      BY <3>1 DEF PictureOn
    <3> HIDE DEF Has
    <3>7. Shows(n)
      <4>1. ASSUME NEW p \in Point, NEW k \in 1..n, Has(k, p)
            PROVE  after[n][At(p[1], p[2])] =
                     IF drawColors[Glass!PenIn(c, k, p)] # 0 THEN Colored(Glass!PenIn(c, k, p))
                     ELSE framebuffer[At(p[1], p[2])]
        <5>1. CASE k = n
          BY <3>2, <3>4, <4>1, <5>1
        <5>2. CASE k # n
          <6>1. k \in 1..j
            BY <2>1, <5>2
          <6>2. after[n][At(p[1], p[2])] = after[j][At(p[1], p[2])]
            BY <3>3, <3>5, <4>1, <6>1
          <6> QED BY <2>2, <4>1, <6>1, <6>2
        <5> QED BY <5>1, <5>2
      <4>2. ASSUME NEW p \in Point, \A k \in 1..n : ~Has(k, p)
            PROVE  after[n][At(p[1], p[2])] = framebuffer[At(p[1], p[2])]
        <5>1. p \notin Glass!Cell(c, n) /\ \A k \in 1..j : ~Has(k, p)
          BY <2>1, <3>2, <4>2
        <5> QED BY <2>2, <3>5, <5>1
      <4> QED BY <4>1, <4>2
    <3> QED BY <3>6, <3>7 DEF n
  <2> QED BY <2>4, <2>5
<1>12. framebuffer' \in Memory /\ Shows(N)
  <2>1. \A j \in Nat : j \in T => j + 1 \in T
    <3> HIDE DEF Shows, N
    <3> QED BY <1>11
  <2>2. Nat \subseteq T
    <3> HIDE DEF T
    <3> QED BY <1>10, <2>1, SetInduction
  <2>3. N \in Nat /\ N <= N
    BY <1>0
  <2> HIDE DEF Shows, N
  <2> QED BY <1>1, <2>2, <2>3
<1> DEFINE Under(p) == {n \in 1..Len(c.str) : c.str[n] \in 32..255 /\ p \in Glass!Cell(c, n)}
           Seen(p) == LET n == CHOOSE n \in Under(p) : TRUE
                      IN  IF Under(p) # {} /\ drawColors[Glass!PenIn(c, n, p)] # 0
                            THEN Glass!Ink(Glass!PenIn(c, n, p)) ELSE Picture(framebuffer)[p]
<1>13. ASSUME NEW p \in Point PROVE framebuffer'[At(p[1], p[2])] = Seen(p)
  <2>0. Picture(framebuffer)[p] = framebuffer[At(p[1], p[2])]
    BY DEF Picture
  <2>1. \A n : n \in Under(p) <=> n \in 1..N /\ Has(n, p)
    OBVIOUS
  <2>2. CASE Under(p) = {}
    <3>1. \A k \in 1..N : ~Has(k, p)
      BY <2>1, <2>2
    <3> QED BY <1>1, <1>12, <2>0, <2>2, <3>1
  <2>3. CASE Under(p) # {}
    <3> DEFINE n == CHOOSE n \in Under(p) : TRUE
    <3>1. n \in Under(p)
      BY <2>3
    <3>2. n \in 1..N /\ Has(n, p)
      BY <2>1, <3>1
    <3> HIDE DEF n
    <3>3. Glass!PenIn(c, n, p) \in 0..3
      <4>1. PICK q \in Pixels(g(n)) : Sample(g(n), q) = Glass!PenIn(c, n, p)
        BY <1>2, <3>2 DEF FillsCell
      <4>2. IsPicture(g(n))
        BY <1>2, <3>2 DEF FillsCell
      <4> QED BY <4>1, <4>2, PictureFacts
    <3>4. Glass!Ink(Glass!PenIn(c, n, p)) = Colored(Glass!PenIn(c, n, p))
      BY <1>0, <3>3
    <3>5. framebuffer'[At(p[1], p[2])] =
            IF drawColors[Glass!PenIn(c, n, p)] # 0 THEN Colored(Glass!PenIn(c, n, p))
            ELSE framebuffer[At(p[1], p[2])]
      BY <1>1, <1>12, <3>2
    <3>6. framebuffer'[At(p[1], p[2])] =
            IF drawColors[Glass!PenIn(c, n, p)] # 0 THEN Glass!Ink(Glass!PenIn(c, n, p))
            ELSE Picture(framebuffer)[p]
      BY <2>0, <3>4, <3>5
    <3>7. Seen(p) = IF Under(p) # {} /\ drawColors[Glass!PenIn(c, n, p)] # 0
                      THEN Glass!Ink(Glass!PenIn(c, n, p)) ELSE Picture(framebuffer)[p]
      BY DEF n
    <3> HIDE DEF Under, Seen
    <3> QED BY <2>3, <3>6, <3>7
  <2> QED BY <2>2, <2>3
<1>14. Picture(framebuffer') = [p \in Point |-> Seen(p)]
  <2> HIDE DEF Seen
  <2> QED BY <1>13 DEF Picture
<1>15. Glass!Text(c)
  <2> DEFINE screen == [p \in (0..(Width - 1)) \X (0..(Height - 1)) |-> Shown(p[1], p[2])]
             Lit(p) == LET n == CHOOSE n \in Under(p) : TRUE
                       IN  IF Under(p) # {} /\ drawColors[Glass!PenIn(c, n, p)] # 0
                             THEN Glass!Ink(Glass!PenIn(c, n, p)) ELSE screen[p]
  <2>1. screen = Picture(framebuffer) /\ screen' = Picture(framebuffer')
    BY GlassShows
  <2>2. ASSUME NEW p \in Point PROVE Seen(p) = Lit(p)
    <3>1. screen[p] = Picture(framebuffer)[p]
      <4> HIDE DEF screen
      <4> QED BY <2>1
    <3> HIDE DEF Under, screen
    <3> QED BY <3>1
  <2>3. screen' = [p \in Glass!Point |-> Lit(p)]
    <3> HIDE DEF Seen, Lit, screen
    <3> QED BY <1>14, <2>1, <2>2, GlassShows
  <2> QED BY <2>3 DEF Glass!Text
<1> QED BY <1>12, <1>15

-----------------------------------------------------------------------------
(* The specification. *)

\* Every call draws on the glass what the canvas draws, and stays in memory.
LEMMA DrawShows ==
  ASSUME TypeOK, NEW c \in Calls \cup {ClearCall}, Draw(c)
  PROVE  framebuffer' \in Memory /\ Glass!Draws(c)
<1>1. CASE c.op = "clear" /\ Clear
  BY <1>1, ClearShows DEF Draw, Glass!Draws
<1>2. CASE c.op # "clear"
  <2>1. c \in Calls
    BY <1>2 DEF ClearCall
  <2>2. \/ c \in Box \cup Straight
        \/ c.op = "blit" /\ IsPicture(c)
        \/ c.op = "text" /\ IsText(c)
    BY <2>1, CallsAssumption
  <2>3. CASE c.op \in {"hline", "vline"}
    <3>1. c.x \in Int /\ c.y \in Int /\ c.len \in Int
      BY <2>2, <2>3 DEF Box, Straight
    <3>2. CASE c.op = "hline" /\ HLine(c)
      BY <3>1, <3>2, HLineShows DEF Draw, Glass!Draws
    <3>3. CASE c.op = "vline" /\ VLine(c)
      BY <3>1, <3>3, VLineShows DEF Draw, Glass!Draws
    <3> QED BY <2>3, <3>2, <3>3 DEF Draw
  <2>4. CASE c.op = "rect"
    <3>1. c.x \in Int /\ c.y \in Int /\ c.width \in Nat \ {0} /\ c.height \in Nat \ {0}
      BY <2>2, <2>4 DEF Box, Straight
    <3>2. Rect(c)
      BY <2>4 DEF Draw
    <3> QED BY <2>4, <3>1, <3>2, RectShows DEF Draw, Glass!Draws
  <2>5. CASE c.op = "line"
    <3>1. Line(c)
      BY <2>5 DEF Draw
    <3> QED BY <2>5, <3>1, LineShows DEF Draw, Glass!Draws
  <2>6. CASE c.op = "oval"
    <3>1. IsOval(c)
      BY <2>2, <2>6 DEF Box, Straight, IsOval
    <3>2. Oval(c)
      BY <2>6 DEF Draw
    <3> QED BY <2>6, <3>1, <3>2, OvalShows DEF Draw, Glass!Draws
  <2>7. CASE c.op = "blit"
    <3>1. IsPicture(c)
      BY <2>2, <2>7 DEF Box, Straight
    <3>2. Blit(c)
      BY <2>7 DEF Draw
    <3> QED BY <2>7, <3>1, <3>2, BlitShows DEF Draw, Glass!Draws
  <2>8. CASE c.op = "text"
    <3>1. IsText(c)
      BY <2>2, <2>8 DEF Box, Straight
    <3>2. Text(c)
      BY <2>8 DEF Draw
    <3> QED BY <2>8, <3>1, <3>2, TextShows DEF Draw, Glass!Draws
  <2> QED BY <1>2, <2>3, <2>4, <2>5, <2>6, <2>7, <2>8 DEF Draw
<1> QED BY <1>1, <1>2 DEF Draw

\* The initial state has its type.
LEMMA InitType == Init => TypeOK
<1>1. [k \in 0..3 |-> <<3, 0, 2, 1>>[k + 1]] \in [0..3 -> Nibble]
  BY DEF Nibble
<1> QED BY <1>1 DEF Init, TypeOK, Colour

\* Every step keeps the type of the variables.
LEMMA NextType == TypeOK /\ [Next]_vars => TypeOK'
<1> SUFFICES ASSUME TypeOK, [Next]_vars PROVE TypeOK'
  OBVIOUS
<1>1. CASE \E c \in Calls \cup {ClearCall} : Draw(c)
  <2>1. PICK c \in Calls \cup {ClearCall} : Draw(c)
    BY <1>1
  <2>2. framebuffer' \in Memory
    BY <2>1, DrawShows
  <2> QED BY <2>1, <2>2 DEF Draw, TypeOK, Memory
<1>2. CASE \E colors \in Colors : SetColors(colors)
  BY <1>2, ColorsAssumption DEF SetColors, TypeOK
<1>3. CASE UNCHANGED vars
  BY <1>3 DEF vars, TypeOK
<1> QED BY <1>1, <1>2, <1>3 DEF Next

\* No call writes outside the framebuffer, or a colour that is none: the clipping
\* of framebuffer.c is right for every shape, wherever it lies.
THEOREM TypeCorrect == Spec => []TypeOK
BY InitType, NextType, PTL DEF Spec

\* The initial screen is blank.
LEMMA GlassInit == Init => Glass!Init
<1> SUFFICES ASSUME Init PROVE Glass!Init
  OBVIOUS
<1>1. Picture(framebuffer) = [p \in Point |-> 0]
  BY AtType DEF Init, Picture
<1>2. drawColors \in [0..3 -> 0..15]
  BY InitType DEF TypeOK, Nibble
<1> QED BY <1>1, <1>2, GlassShows DEF Init, ClearCall, Glass!Init

\* A step that changes anything is a call that draws its shape, or a change of the
\* draw colours.
LEMMA GlassStep == TypeOK /\ [Next]_vars => [Glass!Next]_(Glass!canvasVars)
<1> SUFFICES ASSUME TypeOK, [Next]_vars PROVE [Glass!Next]_(Glass!canvasVars)
  OBVIOUS
<1>1. CASE \E c \in Calls \cup {ClearCall} : Draw(c)
  <2>1. PICK c \in Calls \cup {ClearCall} : Draw(c)
    BY <1>1
  <2>2. Glass!Draws(c) /\ call' = c
    BY <2>1, DrawShows DEF Draw
  <2> QED BY <2>2 DEF Glass!Next
<1>2. CASE \E colors \in Colors : SetColors(colors)
  <2>1. /\ drawColors' \in [0..3 -> 0..15]
        /\ framebuffer' = framebuffer /\ call' = call
    BY <1>2, ColorsAssumption DEF SetColors, Nibble
  <2>2. Glass!SetPens
    BY <2>1, GlassShows DEF Glass!SetPens
  <2> QED BY <2>2 DEF Glass!Next
<1>3. CASE UNCHANGED vars
  BY <1>3, GlassShows DEF vars, Glass!canvasVars
<1> QED BY <1>1, <1>2, <1>3 DEF Next

\* The packed framebuffer shows what the canvas shows, after every call with any
\* arguments: an unaligned row, a shape half off the screen, a turned picture or a
\* text of several lines among them.
THEOREM Refinement == Spec => ImplementsCanvas
<1>1. Init => Glass!Init
  BY GlassInit
<1>2. TypeOK /\ [Next]_vars => [Glass!Next]_(Glass!canvasVars)
  BY GlassStep
<1>3. Spec => []TypeOK
  BY TypeCorrect
<1> QED BY <1>1, <1>2, <1>3, PTL DEF Spec, ImplementsCanvas, Glass!Spec

\* A line that has been drawn is one of the calls, and has its type.
LEMMA LineCalls ==
  ASSUME TypeOK, call.op = "line"
  PROVE  IsLine(call)
<1>1. call \in Calls
  BY DEF TypeOK, ClearCall
<1> QED BY <1>1, CallsAssumption DEF Box, Straight, IsLine

\* The error term keeps every line within half a pixel of the straight one.
THEOREM Straightness == Spec => []LinesAreStraight
<1>1. TypeOK => LinesAreStraight
  BY LineCalls, LineIsStraight DEF LinesAreStraight
<1> QED BY <1>1, TypeCorrect, PTL

\* The loop, which has no other way out, meets the end of the line; it leaves no
\* gap on the way and draws nothing twice as thick.
THEOREM Thinness == Spec => []LinesAreThinAndWhole
<1>1. TypeOK => LinesAreThinAndWhole
  BY LineCalls, LineIsThinAndWhole DEF LinesAreThinAndWhole
<1> QED BY <1>1, TypeCorrect, PTL

\* An oval that has been drawn is one of the calls, and has its type.
LEMMA OvalCalls ==
  ASSUME TypeOK, call.op = "oval"
  PROVE  IsOval(call)
<1>1. call \in Calls
  BY DEF TypeOK, ClearCall
<1> QED BY <1>1, CallsAssumption DEF Box, Straight, IsOval

\* The error term keeps every oval in its box and within a pixel of the ellipse.
THEOREM Roundness == Spec => []OvalsAreRound
<1>1. TypeOK => OvalsAreRound
  BY OvalCalls, OvalIsRound DEF OvalsAreRound
<1> QED BY <1>1, TypeCorrect, PTL

\* Both loops of an oval end, and they leave out no row, no column and no point
\* between the two halves.
THEOREM Wholeness == Spec => []OvalsAreWhole
<1>1. TypeOK => OvalsAreWhole
  BY OvalCalls, OvalIsWhole DEF OvalsAreWhole
<1> QED BY <1>1, TypeCorrect, PTL
=============================================================================
