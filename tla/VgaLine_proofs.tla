-------------------------- MODULE VgaLine_proofs --------------------------
(***************************************************************************)
(* Bresenham's loop is right on a screen of any size, for any ends.        *)
(***************************************************************************)
EXTENDS VgaLine, TLAPS

\* The pixel a steps along the line's long side and m along its short one.
Point(a, m) ==
  <<x1 + s1 * (IF Steep THEN m ELSE a), y1 + s2 * (IF Steep THEN a ELSE m)>>

\* It is within half a pixel of the line, and no further than the end.
Close(a, m) == m <= a /\ 2 * (dx * m - dy * a) \in -dx .. dx

\* After j passes with m turns, e is twice the error, half a pixel off.
LoopInv ==
  /\ TypeOK /\ Len(drawn) = j
  /\ \E m \in Nat : /\ Close(j, m) /\ <<x, y>> = Point(j, m)
                    /\ e = 2 * (dy * (j + 1) - dx * m) - dx
  /\ \A i \in DOMAIN drawn : \E m \in Nat : Close(i - 1, m) /\ drawn[i] = Point(i - 1, m)

----------------------------------------------------------------------------
\* The lengths of the sides, and which one is the longer.
LEMMA Sides ==
  ASSUME TypeOK
  PROVE  /\ x1 \in Int /\ x2 \in Int /\ y1 \in Int /\ y2 \in Int
         /\ dx \in Nat /\ dy \in Nat /\ dy <= dx /\ s1 \in -1 .. 1 /\ s2 \in -1 .. 1
         /\ Steep => dx = Abs(y2 - y1) /\ dy = Abs(x2 - x1)
         /\ ~Steep => dx = Abs(x2 - x1) /\ dy = Abs(y2 - y1)
BY ScreenAssumption DEF TypeOK, Column, Line, dx, dy, Steep, Abs, Sign, s1, s2

\* Going from u towards v by a.
LEMMA Towards ==
  ASSUME NEW u \in Int, NEW v \in Int, NEW a \in 0 .. Abs(v - u)
  PROVE  /\ Abs((u + Sign(v - u) * a) - u) = a
         /\ a = Abs(v - u) => u + Sign(v - u) * a = v
         /\ \/ u <= u + Sign(v - u) * a /\ u + Sign(v - u) * a <= v
            \/ v <= u + Sign(v - u) * a /\ u + Sign(v - u) * a <= u
         /\ u + Sign(v - u) * a \in Int
<1>1. CASE v < u
  BY <1>1 DEF Abs, Sign
<1>2. CASE v = u
  BY <1>2 DEF Abs, Sign
<1>3. CASE v > u
  BY <1>3 DEF Abs, Sign
<1>. QED
  BY <1>1, <1>2, <1>3

\* Half a pixel from the line is never past the end of the short side.
LEMMA ShortSide ==
  ASSUME NEW d \in Nat, NEW h \in Nat, NEW a \in 0 .. d, NEW m \in Nat, m <= a,
         2 * (d * m - h * a) <= d
  PROVE  m <= h
<1>. SUFFICES ASSUME m >= h + 1
              PROVE  FALSE
  OBVIOUS
<1>1. d >= 1
  OBVIOUS
<1>2. d * m >= d * (h + 1)
  OBVIOUS
<1>3. h * a <= h * d
  OBVIOUS
<1>4. d * (h + 1) = h * d + d /\ d * m \in Int /\ h * a \in Int /\ h * d \in Int
  OBVIOUS
<1>. QED
  BY <1>1, <1>2, <1>3, <1>4

\* At the end of the long side it is the end of the short one.
LEMMA LastPixel ==
  ASSUME NEW d \in Nat, NEW h \in Nat, NEW m \in Nat, m <= d, h <= d,
         2 * (d * m - h * d) \in -d .. d
  PROVE  m = h
<1>1. CASE d = 0
  BY <1>1
<1>2. CASE d > 0 /\ m <= h - 1
  <2>1. d * m <= d * (h - 1)
    BY <1>2
  <2>2. d * (h - 1) = h * d - d /\ d * m \in Int /\ h * d \in Int
    OBVIOUS
  <2>. QED
    BY <1>2, <2>1, <2>2
<1>3. CASE d > 0 /\ m >= h + 1
  <2>1. d * m >= d * (h + 1)
    BY <1>3
  <2>2. d * (h + 1) = h * d + d /\ d * m \in Int /\ h * d \in Int
    OBVIOUS
  <2>. QED
    BY <1>3, <2>1, <2>2
<1>. QED
  BY <1>1, <1>2, <1>3

\* The ends fix the shape of the line.
LEMMA SameShape ==
  ASSUME UNCHANGED ends
  PROVE  /\ s1' = s1 /\ s2' = s2 /\ dx' = dx /\ dy' = dy /\ (Steep' <=> Steep)
         /\ \A a, m : Point(a, m)' = Point(a, m) /\ (Close(a, m)' <=> Close(a, m))
BY DEF ends, s1, s2, dx, dy, Steep, Point, Close

LEMMA LoopInit == Init => LoopInv
<1>. SUFFICES ASSUME Init
              PROVE  LoopInv
  OBVIOUS
<1>1. \A c \in Int, n \in Nat \ {0} : Clamp(c, n - 1) \in 0 .. n - 1
  BY DEF Clamp
<1>2. x1 \in Column /\ x2 \in Column /\ y1 \in Line /\ y2 \in Line
  BY <1>1, ScreenAssumption DEF Init, Column, Line
<1>3. /\ x1 \in Int /\ x2 \in Int /\ y1 \in Int /\ y2 \in Int
      /\ dx \in Nat /\ dy \in Nat /\ dy <= dx /\ s1 \in -1 .. 1 /\ s2 \in -1 .. 1
  BY <1>2, ScreenAssumption DEF Column, Line, dx, dy, Steep, Abs, Sign, s1, s2
<1>4. TypeOK
  BY <1>2, <1>3 DEF Init, TypeOK, FirstError
<1>5. Close(0, 0) /\ <<x, y>> = Point(0, 0) /\ e = 2 * (dy * (0 + 1) - dx * 0) - dx
  BY <1>3 DEF Init, Close, Point, FirstError
<1>6. j = 0 /\ drawn = <<>>
  BY DEF Init
<1>. QED
  BY <1>4, <1>5, <1>6 DEF LoopInv

LEMMA LoopStep == LoopInv /\ [Next]_vars => LoopInv'
<1>. SUFFICES ASSUME LoopInv, [Next]_vars
              PROVE  LoopInv'
  OBVIOUS
<1>1. CASE UNCHANGED vars
  <2>1. UNCHANGED <<ends, x, y, e, j, drawn>>
    BY <1>1 DEF vars
  <2>2. TypeOK'
    BY <2>1, SameShape DEF LoopInv, TypeOK, ends
  <2>. QED
    BY <2>1, <2>2, SameShape DEF LoopInv
<1>2. CASE SetPixel
  <2>1. TypeOK /\ UNCHANGED ends /\ j' = j + 1 /\ j \in Nat /\ j <= dx
    BY <1>2 DEF LoopInv, SetPixel, Pass, TypeOK
  <2>2. /\ x1 \in Int /\ x2 \in Int /\ y1 \in Int /\ y2 \in Int /\ x \in Int /\ y \in Int
        /\ dx \in Nat /\ dy \in Nat /\ dy <= dx /\ s1 \in -1 .. 1 /\ s2 \in -1 .. 1
        /\ e \in 2 * (dy - dx) .. 2 * dy
    BY <2>1, Sides DEF TypeOK
  <2>3. PICK m \in Nat : /\ Close(j, m) /\ <<x, y>> = Point(j, m)
                         /\ e = 2 * (dy * (j + 1) - dx * m) - dx
    BY DEF LoopInv
  <2>. DEFINE n == IF Turns THEN m + 1 ELSE m
  <2>4. x' \in Int /\ y' \in Int /\ e' \in 2 * (dy - dx) .. 2 * dy
    BY <1>2, <2>2 DEF SetPixel, Turns
  <2>5. drawn' = Append(drawn, <<x, y>>) /\ drawn \in Seq(Int \X Int) /\ Len(drawn) = j
    BY <1>2, <2>1 DEF SetPixel, LoopInv, TypeOK
  <2>6. TypeOK'
    <3>1. drawn' \in Seq(Int \X Int) /\ j + 1 \in 0 .. dx + 1
      BY <2>1, <2>2, <2>5
    <3>. QED
      BY <2>1, <2>4, <3>1, SameShape DEF TypeOK, ends
  <2>7. Len(drawn') = j'
    BY <2>1, <2>2, <2>5
  <2>8. e' = 2 * (dy * (j' + 1) - dx * n) - dx
    <3>1. dy * (j' + 1) = dy * (j + 1) + dy /\ dx * (m + 1) = dx * m + dx
      BY <2>1, <2>2
    <3>2. dy * (j + 1) \in Int /\ dx * m \in Int
      BY <2>1, <2>2
    <3>. HIDE DEF Turns
    <3>3. CASE Turns
      <4>1. e' = e - 2 * dx + 2 * dy
        BY <1>2, <3>3 DEF SetPixel
      <4>. QED
        BY <2>2, <2>3, <3>1, <3>2, <3>3, <4>1
    <3>4. CASE ~Turns
      <4>1. e' = e + 2 * dy
        BY <1>2, <3>4 DEF SetPixel
      <4>. QED
        BY <2>2, <2>3, <3>1, <3>2, <3>4, <4>1
    <3>. QED
      BY <3>3, <3>4
  <2>9. Close(j', n)
    <3>1. dy * (j' + 1) = dy * j' + dy /\ dy * j' \in Int /\ dx * n \in Int
      BY <2>1, <2>2
    <3>2. 2 * (dx * n - dy * j') \in -dx .. dx
      BY <2>2, <2>4, <2>8, <3>1
    <3>. QED
      BY <2>1, <2>3, <3>2 DEF Close
  <2>10. <<x', y'>> = Point(j', n)
    <3>1. /\ s1 * (m + 1) = s1 * m + s1 /\ s1 * (j + 1) = s1 * j + s1
          /\ s2 * (m + 1) = s2 * m + s2 /\ s2 * (j + 1) = s2 * j + s2
          /\ s1 * m \in Int /\ s1 * j \in Int /\ s2 * m \in Int /\ s2 * j \in Int
      BY <2>1, <2>2
    <3>2. /\ x = x1 + s1 * (IF Steep THEN m ELSE j)
          /\ y = y1 + s2 * (IF Steep THEN j ELSE m)
      BY <2>3 DEF Point
    <3>3. /\ x' = IF ~Steep \/ Turns THEN x + s1 ELSE x
          /\ y' = IF Steep \/ Turns THEN y + s2 ELSE y
      BY <1>2 DEF SetPixel
    <3>. HIDE DEF Turns
    <3>4. x' = x1 + s1 * (IF Steep THEN n ELSE j')
      BY <2>1, <2>2, <3>1, <3>2, <3>3
    <3>5. y' = y1 + s2 * (IF Steep THEN j' ELSE n)
      BY <2>1, <2>2, <3>1, <3>2, <3>3
    <3>. QED
      BY <3>4, <3>5 DEF Point
  <2>11. ASSUME NEW i \in DOMAIN drawn'
         PROVE  \E k \in Nat : Close(i - 1, k) /\ drawn'[i] = Point(i - 1, k)
    <3>1. CASE i = j + 1
      <4>1. drawn'[i] = <<x, y>> /\ i - 1 = j
        BY <2>1, <2>5, <3>1
      <4>. QED
        BY <2>3, <4>1
    <3>2. CASE i # j + 1
      <4>1. i \in DOMAIN drawn /\ drawn'[i] = drawn[i]
        BY <2>1, <2>5, <2>11, <3>2
      <4>. QED
        BY <4>1 DEF LoopInv
    <3>. QED
      BY <3>1, <3>2
  <2>12. n \in Nat
    OBVIOUS
  <2>. QED
    BY <2>1, <2>6, <2>7, <2>8, <2>9, <2>10, <2>11, <2>12, SameShape DEF LoopInv
<1>. QED
  BY <1>1, <1>2 DEF Next

LEMMA LoopInvariance == Spec => []LoopInv
BY LoopInit, LoopStep, PTL DEF Spec

(* On a screen of any size the error stays within one turn of the line.    *)
THEOREM LineTypeCorrect == Spec => []TypeOK
<1>1. LoopInv => TypeOK
  BY DEF LoopInv
<1>. QED
  BY <1>1, LoopInvariance, PTL

\* Where the i-th pixel is.
LEMMA Pixel ==
  ASSUME LoopInv, NEW i \in DOMAIN drawn
  PROVE  \E m \in Nat :
           /\ 2 * (dx * m - dy * (i - 1)) \in -dx .. dx /\ m <= dy /\ m <= i - 1
           /\ IF Steep THEN Across(i) = m /\ Down(i) = i - 1
                       ELSE Across(i) = i - 1 /\ Down(i) = m
           /\ drawn[i] \in Column \X Line /\ drawn[i] = Point(i - 1, m)
<1>1. TypeOK /\ j <= dx + 1 /\ j \in Nat /\ Len(drawn) = j /\ drawn \in Seq(Int \X Int)
  BY Sides DEF LoopInv, TypeOK
<1>2. /\ x1 \in Int /\ x2 \in Int /\ y1 \in Int /\ y2 \in Int
      /\ dx \in Nat /\ dy \in Nat
      /\ Steep => dx = Abs(y2 - y1) /\ dy = Abs(x2 - x1)
      /\ ~Steep => dx = Abs(x2 - x1) /\ dy = Abs(y2 - y1)
  BY <1>1, Sides
<1>3. i - 1 \in 0 .. dx /\ i \in 1 .. Len(drawn)
  BY <1>1, <1>2
<1>4. PICK m \in Nat : Close(i - 1, m) /\ drawn[i] = Point(i - 1, m)
  BY DEF LoopInv
<1>5. m <= i - 1 /\ 2 * (dx * m - dy * (i - 1)) \in -dx .. dx
  BY <1>4 DEF Close
<1>6. m <= dy
  <2>1. 2 * (dx * m - dy * (i - 1)) <= dx
    BY <1>5
  <2>. QED
    BY <1>2, <1>3, <1>5, <2>1, ShortSide
<1>. DEFINE a == IF Steep THEN m ELSE i - 1
            b == IF Steep THEN i - 1 ELSE m
<1>7. a \in 0 .. Abs(x2 - x1) /\ b \in 0 .. Abs(y2 - y1)
  <2>1. m \in 0 .. dy /\ i - 1 \in 0 .. dx
    BY <1>2, <1>3, <1>6
  <2>. QED
    BY <1>2, <2>1
<1>8. drawn[i] = <<x1 + s1 * a, y1 + s2 * b>>
  BY <1>4 DEF Point
<1>. HIDE DEF a, b
<1>9. /\ Abs((x1 + s1 * a) - x1) = a /\ x1 + s1 * a \in Int
      /\ \/ x1 <= x1 + s1 * a /\ x1 + s1 * a <= x2
         \/ x2 <= x1 + s1 * a /\ x1 + s1 * a <= x1
  BY <1>2, <1>7, Towards DEF s1
<1>10. /\ Abs((y1 + s2 * b) - y1) = b /\ y1 + s2 * b \in Int
       /\ \/ y1 <= y1 + s2 * b /\ y1 + s2 * b <= y2
          \/ y2 <= y1 + s2 * b /\ y1 + s2 * b <= y1
  BY <1>2, <1>7, Towards DEF s2
<1>11. drawn[i] \in Column \X Line
  <2>1. /\ x1 \in 0 .. VGA_WIDTH - 1 /\ x2 \in 0 .. VGA_WIDTH - 1
        /\ y1 \in 0 .. VGA_HEIGHT - 1 /\ y2 \in 0 .. VGA_HEIGHT - 1
    BY <1>1 DEF TypeOK, Column, Line
  <2>2. x1 + s1 * a \in 0 .. VGA_WIDTH - 1 /\ y1 + s2 * b \in 0 .. VGA_HEIGHT - 1
    BY <1>9, <1>10, <2>1, ScreenAssumption
  <2>. QED
    BY <1>8, <2>2 DEF Column, Line
<1>12. Across(i) = a /\ Down(i) = b
  <2>1. drawn[i][1] = x1 + s1 * a /\ drawn[i][2] = y1 + s2 * b
    BY <1>8
  <2>2. Across(i) = Abs((x1 + s1 * a) - x1)
    BY ONLY <2>1 DEF Across
  <2>3. Down(i) = Abs((y1 + s2 * b) - y1)
    BY ONLY <2>1 DEF Down
  <2>. QED
    BY ONLY <1>9, <1>10, <2>2, <2>3
<1>. QED
  BY <1>4, <1>5, <1>6, <1>11, <1>12 DEF a, b

(* Every pixel is within half a pixel of the true line, in every direction *)
(* and for lines of any length: the loop's error never drifts.             *)
THEOREM WithinHalfCorrect == Spec => []WithinHalf
<1>1. ASSUME LoopInv, NEW i \in DOMAIN drawn
      PROVE  Abs(2 * (IF Steep THEN dx * Across(i) - dy * Down(i)
                                ELSE dx * Down(i) - dy * Across(i))) <= dx
  <2>1. dx \in Nat /\ dy \in Nat
    BY <1>1, Sides DEF LoopInv
  <2>2. PICK m \in Nat :
           /\ 2 * (dx * m - dy * (i - 1)) \in -dx .. dx
           /\ IF Steep THEN Across(i) = m /\ Down(i) = i - 1
                       ELSE Across(i) = i - 1 /\ Down(i) = m
    BY <1>1, Pixel
  <2>3. ASSUME NEW v \in -dx .. dx
        PROVE  Abs(v) <= dx
    BY <2>1 DEF Abs
  <2>4. (IF Steep THEN dx * Across(i) - dy * Down(i) ELSE dx * Down(i) - dy * Across(i))
          = dx * m - dy * (i - 1)
    BY <2>2
  <2>. QED
    BY <2>2, <2>3, <2>4
<1>2. LoopInv => WithinHalf
  BY <1>1 DEF WithinHalf
<1>. QED
  BY <1>2, LoopInvariance, PTL

(* No line writes off the screen, whatever the caller's coordinates: once  *)
(* both ends are clamped, everything between them is on the screen too.    *)
THEOREM OnScreenCorrect == Spec => []OnScreen
<1>1. LoopInv => OnScreen
  BY Pixel DEF OnScreen
<1>. QED
  BY <1>1, LoopInvariance, PTL

(* A finished line joins its two ends.                                     *)
THEOREM EndsMeetCorrect == Spec => []EndsMeet
<1>1. ASSUME LoopInv, j > dx
      PROVE  drawn[1] = <<x1, y1>> /\ drawn[Len(drawn)] = <<x2, y2>>
  <2>1. TypeOK /\ Len(drawn) = j /\ drawn \in Seq(Int \X Int)
    BY <1>1 DEF LoopInv, TypeOK
  <2>2. /\ x1 \in Int /\ x2 \in Int /\ y1 \in Int /\ y2 \in Int
        /\ dx \in Nat /\ dy \in Nat /\ dy <= dx /\ j = dx + 1 /\ s1 \in Int /\ s2 \in Int
        /\ Steep => dx = Abs(y2 - y1) /\ dy = Abs(x2 - x1)
        /\ ~Steep => dx = Abs(x2 - x1) /\ dy = Abs(y2 - y1)
    <3>1. j \in 0 .. dx + 1
      BY <2>1 DEF TypeOK
    <3>2. dx \in Nat
      BY <2>1, Sides
    <3>3. j = dx + 1
      BY <1>1, <3>1, <3>2
    <3>. QED
      BY <2>1, <3>3, Sides
  <2>3. 1 \in DOMAIN drawn /\ dx + 1 \in DOMAIN drawn
    BY <2>1, <2>2
  <2>4. PICK f \in Nat : f <= 1 - 1 /\ drawn[1] = Point(1 - 1, f)
    BY <1>1, <2>3, Pixel
  <2>5. drawn[1] = <<x1, y1>>
    <3>1. f = 0
      BY <2>4
    <3>. QED
      BY <2>2, <2>4, <3>1 DEF Point
  <2>6. PICK m \in Nat : /\ 2 * (dx * m - dy * ((dx + 1) - 1)) \in -dx .. dx
                         /\ m <= (dx + 1) - 1 /\ drawn[dx + 1] = Point((dx + 1) - 1, m)
    <3>. DEFINE k == dx + 1
    <3>1. k \in DOMAIN drawn
      BY <2>3
    <3>. HIDE DEF k
    <3>2. \E m \in Nat : /\ 2 * (dx * m - dy * (k - 1)) \in -dx .. dx
                         /\ m <= k - 1 /\ drawn[k] = Point(k - 1, m)
      BY <1>1, <3>1, Pixel
    <3>. QED
      BY <3>2 DEF k
  <2>7. m = dy
    <3>1. (dx + 1) - 1 = dx
      BY <2>2
    <3>2. 2 * (dx * m - dy * dx) \in -dx .. dx /\ m <= dx
      BY <2>6, <3>1
    <3>. QED
      BY <2>2, <3>2, LastPixel
  <2>8. Point(dx, dy) = <<x2, y2>>
    <3>1. Abs(x2 - x1) \in 0 .. Abs(x2 - x1) /\ Abs(y2 - y1) \in 0 .. Abs(y2 - y1)
      BY <2>2 DEF Abs
    <3>2. x1 + s1 * Abs(x2 - x1) = x2 /\ y1 + s2 * Abs(y2 - y1) = y2
      BY <2>2, <3>1, Towards DEF s1, s2
    <3>. QED
      BY <2>2, <3>2 DEF Point
  <2>9. drawn[Len(drawn)] = <<x2, y2>>
    BY <2>1, <2>2, <2>6, <2>7, <2>8
  <2>. QED
    BY <2>5, <2>9
<1>2. LoopInv => EndsMeet
  BY <1>1 DEF EndsMeet
<1>. QED
  BY <1>2, LoopInvariance, PTL
=============================================================================
