------------------------- MODULE PaintBoard_proofs -------------------------
(***************************************************************************)
(* What the user of the paint program sees is what the program means, for  *)
(* every screen, every size and base of the displays, and whatever the     *)
(* mouse reports: the cursor on the screen, on the digits and in the       *)
(* registers, and the greeting on the panel.                               *)
(***************************************************************************)
EXTENDS PaintBoard, FiniteSets, SequenceTheorems, WellFoundedInduction, TLAPS

----------------------------------------------------------------------------
(* Induction over the naturals *)

\* Every set of naturals that is not empty has a least element.
LEMMA NatMin ==
  ASSUME NEW T \in SUBSET Nat, T # {}
  PROVE  \E m \in T : \A k \in T : m <= k
<1>. DEFINE Below == {p \in Nat \X Nat : p[1] < p[2]}
<1>1. IsWellFoundedOn(Below, Nat)
  BY NatLessThanWellFounded DEF OpToRel
<1>2. PICK m \in T : \A k \in T : ~(<<k, m>> \in Below)
  BY <1>1, WFMin
<1>3. ASSUME NEW k \in T
      PROVE  m <= k
  <2>1. k \in Nat /\ m \in Nat /\ ~(<<k, m>> \in Below)
    BY <1>2, <1>3
  <2>2. <<k, m>> \in Nat \X Nat /\ <<k, m>>[1] = k /\ <<k, m>>[2] = m
    BY <2>1
  <2>3. ~(k < m)
    BY <2>1, <2>2
  <2>. QED
    BY <2>1, <2>3
<1>. QED
  BY <1>3

\* A set that holds 0, and n + 1 with each n below m, holds all up to m.
LEMMA Induction ==
  ASSUME NEW m \in Nat, NEW T, 0 \in T,
         \A n \in Nat : n < m /\ n \in T => n + 1 \in T
  PROVE  \A n \in 0 .. m : n \in T
<1>. DEFINE Missing == {n \in 0 .. m : n \notin T}
<1>. SUFFICES ASSUME Missing # {}
              PROVE  FALSE
  OBVIOUS
<1>1. PICK n \in Missing : \A k \in Missing : n <= k
  <2>1. Missing \in SUBSET Nat
    OBVIOUS
  <2>. HIDE DEF Missing
  <2>. QED
    BY <2>1, NatMin
<1>2. n \in Nat /\ n # 0 /\ n <= m
  BY <1>1
<1>3. n - 1 \in Nat /\ n - 1 < m /\ (n - 1) + 1 = n /\ ~(n <= n - 1)
  BY <1>2
<1>4. n - 1 \in T
  BY <1>1, <1>3
<1>. QED
  BY <1>1, <1>3, <1>4

----------------------------------------------------------------------------
(* The paint loop *)

\* The sixteen bits of a coordinate: what lies below zero comes out far
\* beyond the screen.
LEMMA Wraps ==
  ASSUME NEW v \in Int, NEW max \in Nat, max + 128 < 65536,
         -128 <= v, v <= max + 127
  PROVE  maxmin(Word(v), max) = IF v \in 0 .. max THEN v ELSE max
<1>1. v >= 0 => v % 65536 = v
  OBVIOUS
<1>2. v < 0 => v % 65536 = v + 65536
  OBVIOUS
<1>. QED
  BY <1>1, <1>2 DEF maxmin, Word

\* A byte read as a signed number is zero only if the byte is.
LEMMA Signs ==
  ASSUME NEW b \in 0 .. 255
  PROVE  Signed(b) \in -128 .. 127 /\ (Signed(b) = 0 <=> b = 0)
BY DEF Signed

\* The same movement again cancels the one in force; another replaces it.
LEMMA Deltas ==
  ASSUME NEW old \in -128 .. 127, NEW b \in 0 .. 255
  PROVE  /\ Delta(old, b) \in -128 .. 127
         /\ Signed(b) # 0 => Delta(old, b) \in {0, Signed(b)}
         /\ Signed(b) # 0 /\ old \in {0, Signed(b)} => {old, Delta(old, b)} = {0, Signed(b)}
<1>1. Signed(b) \in -128 .. 127 /\ (Signed(b) = 0 <=> b = 0)
  BY Signs
<1>2. Delta(old, b) = IF b = 0 THEN old ELSE IF Signed(b) = old THEN 0 ELSE Signed(b)
  BY DEF Delta
<1>3. 0 \in -128 .. 127
  OBVIOUS
<1>. DEFINE s == Signed(b)
            d == Delta(old, b)
<1>4. s \in -128 .. 127 /\ (s = 0 <=> b = 0) /\ d = IF b = 0 THEN old ELSE IF s = old THEN 0 ELSE s
  BY <1>1, <1>2
<1>. HIDE DEF s, d
<1>5. /\ d \in -128 .. 127 /\ (s # 0 => d \in {0, s})
      /\ s # 0 /\ old \in {0, s} => {old, d} = {0, s}
  BY <1>3, <1>4
<1>. QED
  BY <1>5 DEF s, d

\* The address of a pixel is one of the screen's.
LEMMA Addresses ==
  ASSUME NEW x \in 0 .. XMax, NEW y \in 0 .. YMax
  PROVE  y * (XMax + 1) + x \in 0 .. (XMax + 1) * (YMax + 1) - 1
<1>1. XMax \in Nat /\ YMax \in Nat
  BY PaintAssumption
<1>2. y * (XMax + 1) \in Nat /\ y * (XMax + 1) <= YMax * (XMax + 1)
  BY <1>1
<1>3. (XMax + 1) * (YMax + 1) = YMax * (XMax + 1) + (XMax + 1)
  BY <1>1
<1>. QED
  BY <1>1, <1>2, <1>3

\* What the movement in force owes to the last report.
Moved == last.ok => /\ last.x # 0 => dx \in {0, last.x}
                    /\ last.y # 0 => dy \in {0, last.y}

PaintInv == TypeOK /\ Moved

LEMMA PaintInit == Init => PaintInv
<1>. SUFFICES ASSUME Init
              PROVE  PaintInv
  OBVIOUS
<1>1. XMax \in Nat /\ YMax \in Nat
  BY PaintAssumption
<1>2. (XMax + 1) \div 2 \in 0 .. XMax /\ (YMax + 1) \div 2 \in 0 .. YMax
  BY <1>1
<1>3. Silent \in [x : -128 .. 127, y : -128 .. 127, ok : BOOLEAN] /\ Silent.ok = FALSE
  BY DEF Silent
<1>. QED
  BY <1>1, <1>2, <1>3 DEF Init, PaintInv, TypeOK, Moved

\* A report leaves a movement of zero or of what it says.
LEMMA PaintReport ==
  ASSUME PaintInv, Report
  PROVE  PaintInv'
<1>1. PICK b \in Buttons, x \in Bytes, y \in Bytes :
        /\ pbutton' = Button(b)
        /\ dx' = Delta(dx, x) /\ dy' = Delta(dy, y)
        /\ last' = [x |-> Signed(x), y |-> Signed(y), ok |-> TRUE]
  BY DEF Report
<1>2. x \in 0 .. 255 /\ y \in 0 .. 255
  BY PaintAssumption
<1>3. dx \in -128 .. 127 /\ dy \in -128 .. 127
  BY DEF PaintInv, TypeOK
<1>4. Button(b) \in 0 .. 2
  BY DEF Button
<1>5. /\ Signed(x) \in -128 .. 127 /\ Signed(y) \in -128 .. 127
      /\ dx' \in -128 .. 127 /\ dy' \in -128 .. 127
      /\ Signed(x) # 0 => dx' \in {0, Signed(x)}
      /\ Signed(y) # 0 => dy' \in {0, Signed(y)}
  <2>1. /\ Signed(x) \in -128 .. 127 /\ Delta(dx, x) \in -128 .. 127
        /\ Signed(x) # 0 => Delta(dx, x) \in {0, Signed(x)}
    <3>1. x \in 0 .. 255 /\ dx \in -128 .. 127
      BY <1>2, <1>3
    <3>2. Signed(x) \in -128 .. 127
      BY <3>1, Signs
    <3>. QED
      BY <3>1, <3>2, Deltas
  <2>2. /\ Signed(y) \in -128 .. 127 /\ Delta(dy, y) \in -128 .. 127
        /\ Signed(y) # 0 => Delta(dy, y) \in {0, Signed(y)}
    <3>1. y \in 0 .. 255 /\ dy \in -128 .. 127
      BY <1>2, <1>3
    <3>2. Signed(y) \in -128 .. 127
      BY <3>1, Signs
    <3>. QED
      BY <3>1, <3>2, Deltas
  <2>. QED
    BY <1>1, <2>1, <2>2, Zenon
<1>6. last' \in [x : -128 .. 127, y : -128 .. 127, ok : BOOLEAN]
      /\ last'.x = Signed(x) /\ last'.y = Signed(y)
  BY <1>1, <1>5
<1>7. Moved'
  BY <1>5, <1>6 DEF Moved
<1>8. TypeOK'
  BY <1>1, <1>4, <1>5, <1>6 DEF PaintInv, TypeOK, Report, position, registers
<1>. QED
  BY <1>7, <1>8 DEF PaintInv

\* A move that leaves the screen ends on the far edge.
LEMMA MoveOnScreen ==
  ASSUME PaintInv, Move
  PROVE  /\ px' = IF px + dx \in 0 .. XMax THEN px + dx ELSE XMax
         /\ py' = IF py + dy \in 0 .. YMax THEN py + dy ELSE YMax
<1>1. /\ XMax \in Nat /\ YMax \in Nat /\ XMax + 128 < 65536 /\ YMax + 128 < 65536
      /\ px \in 0 .. XMax /\ py \in 0 .. YMax /\ dx \in -128 .. 127 /\ dy \in -128 .. 127
  BY PaintAssumption DEF PaintInv, TypeOK
<1>2. /\ px + dx \in Int /\ -128 <= px + dx /\ px + dx <= XMax + 127
      /\ py + dy \in Int /\ -128 <= py + dy /\ py + dy <= YMax + 127
  BY <1>1
<1>3. px' = maxmin(Word(px + dx), XMax) /\ py' = maxmin(Word(py + dy), YMax)
  BY DEF Move
<1>. QED
  BY <1>1, <1>2, <1>3, Wraps

LEMMA PaintStep == PaintInv /\ [Next]_vars => PaintInv'
<1>. SUFFICES ASSUME PaintInv, [Next]_vars
              PROVE  PaintInv'
  OBVIOUS
<1>1. CASE Report
  BY <1>1, PaintReport
<1>2. CASE Failed
  <2>1. Silent \in [x : -128 .. 127, y : -128 .. 127, ok : BOOLEAN] /\ Silent.ok = FALSE
    BY DEF Silent
  <2>. QED
    BY <1>2, <2>1 DEF PaintInv, TypeOK, Moved, Failed, position, registers
<1>3. CASE Move
  <2>1. px' \in 0 .. XMax /\ py' \in 0 .. YMax
    BY <1>3, MoveOnScreen, PaintAssumption
  <2>. QED
    BY <1>3, <2>1 DEF PaintInv, TypeOK, Moved, Move, report, registers
<1>4. CASE CursorX
  BY <1>4 DEF PaintInv, TypeOK, Moved, CursorX, position, report
<1>5. CASE CursorY
  BY <1>5 DEF PaintInv, TypeOK, Moved, CursorY, position, report
<1>6. CASE Paint
  <2>1. py * (XMax + 1) + px \in 0 .. (XMax + 1) * (YMax + 1) - 1
    BY Addresses DEF PaintInv, TypeOK
  <2>2. written' = written \/ written' \in [address : 0 .. (XMax + 1) * (YMax + 1) - 1, bit : {0, 1}]
    BY <1>6, <2>1 DEF Paint, Address
  <2>3. UNCHANGED <<position, report, cursor_x, cursor_y, last>> /\ pc' = "poll"
    BY <1>6 DEF Paint
  <2>. QED
    BY <2>2, <2>3 DEF PaintInv, TypeOK, Moved, position, report
<1>7. CASE UNCHANGED vars
  BY <1>7 DEF PaintInv, TypeOK, Moved, vars, position, report, registers
<1>. QED
  BY <1>1, <1>2, <1>3, <1>4, <1>5, <1>6, <1>7 DEF Next

\* Position, registers and movement in force, throughout.
LEMMA PaintInvariance == Spec => []PaintInv
BY PaintInit, PaintStep, PTL DEF Spec

\* The board's mouse is the paint loop's.
LEMMA BoardPaints == BoardSpec => Spec
<1>1. BoardInit => Init
  BY DEF BoardInit
<1>2. [BoardNext]_boardVars => [Next]_vars
  BY DEF BoardNext, Greet, Poll, MoveAndShow, ShowDigit, RestOfPass, Next, boardVars
<1>. QED
  BY <1>1, <1>2, PTL DEF BoardSpec, Spec

(* Cursor, registers and pixel addresses stay on the screen.               *)
THEOREM PaintTypeCorrect == Spec => []TypeOK
<1>1. PaintInv => TypeOK
  BY DEF PaintInv
<1>. QED
  BY <1>1, PaintInvariance, PTL

(* Of two equal reports in a row exactly one moves the cursor.             *)
THEOREM EqualReportsCorrect == BoardSpec => EqualReportsMoveOnce
<1>1. ASSUME PaintInv, Report, last' = last
      PROVE  /\ last.x # 0 => {dx, dx'} = {0, last.x}
             /\ last.y # 0 => {dy, dy'} = {0, last.y}
  <2>1. PICK b \in Buttons, x \in Bytes, y \in Bytes :
          /\ dx' = Delta(dx, x) /\ dy' = Delta(dy, y)
          /\ last' = [x |-> Signed(x), y |-> Signed(y), ok |-> TRUE]
    BY <1>1 DEF Report
  <2>2. x \in 0 .. 255 /\ y \in 0 .. 255 /\ dx \in -128 .. 127 /\ dy \in -128 .. 127
    BY <1>1, PaintAssumption DEF PaintInv, TypeOK
  <2>3. last.x = Signed(x) /\ last.y = Signed(y) /\ last.ok
    BY <1>1, <2>1
  <2>4. /\ Signed(x) # 0 => dx \in {0, Signed(x)}
        /\ Signed(y) # 0 => dy \in {0, Signed(y)}
    BY <1>1, <2>3 DEF PaintInv, Moved
  <2>5. Signed(x) # 0 /\ dx \in {0, Signed(x)} => {dx, Delta(dx, x)} = {0, Signed(x)}
    BY <2>2, Deltas
  <2>6. Signed(y) # 0 /\ dy \in {0, Signed(y)} => {dy, Delta(dy, y)} = {0, Signed(y)}
    BY <2>2, Deltas
  <2>. QED
    BY <2>1, <2>3, <2>4, <2>5, <2>6, Zenon
<1>2. PaintInv /\ [Next]_vars =>
        [ Report /\ last' = last => /\ last.x # 0 => {dx, dx'} = {0, last.x}
                                    /\ last.y # 0 => {dy, dy'} = {0, last.y} ]_vars
  BY <1>1
<1>. QED
  BY <1>2, BoardPaints, PaintInvariance, PTL DEF EqualReportsMoveOnce, Spec

(* A move that would leave the screen, at any edge, ends on the right or   *)
(* the lower one.                                                          *)
THEOREM FarEdgeCorrect == BoardSpec => EndsOnFarEdge
<1>1. PaintInv /\ [Next]_vars =>
        [ Move => /\ px' = IF px + dx \in 0 .. XMax THEN px + dx ELSE XMax
                  /\ py' = IF py + dy \in 0 .. YMax THEN py + dy ELSE YMax ]_vars
  BY MoveOnScreen
<1>. QED
  BY <1>1, BoardPaints, PaintInvariance, PTL DEF EndsOnFarEdge, Spec

----------------------------------------------------------------------------
(* The digits *)

IsIteration(h, m, S, a, F) ==
  h \in [0 .. m -> S] /\ h[0] = a /\ \A k \in 1 .. m : h[k] = F[k][h[k - 1]]

\* What is computed step by step from a start exists.
LEMMA IterationExists ==
  ASSUME NEW m \in Nat, NEW S, NEW a \in S, NEW F \in [1 .. m -> [S -> S]]
  PROVE  \E h : IsIteration(h, m, S, a, F)
<1>. DEFINE Up(n, h) == h[0] = a /\ \A k \in 1 .. n : h[k] = F[k][h[k - 1]]
            T == {n \in 0 .. m : \E h \in [0 .. n -> S] : Up(n, h)}
<1>1. 0 \in T
  <2>1. [k \in 0 .. 0 |-> a] \in [0 .. 0 -> S] /\ Up(0, [k \in 0 .. 0 |-> a])
    OBVIOUS
  <2>2. 0 \in 0 .. m
    OBVIOUS
  <2>. HIDE DEF Up
  <2>. QED
    BY <2>1, <2>2
<1>2. ASSUME NEW n \in Nat, n < m, n \in T
      PROVE  n + 1 \in T
  <2>1. PICK h \in [0 .. n -> S] : Up(n, h)
    BY <1>2
  <2>. DEFINE g == [k \in 0 .. n + 1 |-> IF k = n + 1 THEN F[n + 1][h[n]] ELSE h[k]]
  <2>2. n + 1 \in 1 .. m /\ n \in 0 .. n /\ h[n] \in S
    BY <1>2, <2>1
  <2>3. F[n + 1] \in [S -> S]
    BY <2>2
  <2>4. F[n + 1][h[n]] \in S
    BY <2>2, <2>3
  <2>5. g \in [0 .. n + 1 -> S]
    BY <2>1, <2>4
  <2>6. \A k \in 0 .. n : g[k] = h[k]
    OBVIOUS
  <2>7. g[n + 1] = F[n + 1][h[n]] /\ (n + 1) - 1 = n
    OBVIOUS
  <2>. HIDE DEF g
  <2>8. ASSUME NEW k \in 1 .. n + 1
        PROVE  g[k] = F[k][g[k - 1]]
    <3>1. CASE k = n + 1
      BY <2>6, <2>7, <3>1, <2>2
    <3>2. CASE k # n + 1
      <4>1. k \in 1 .. n /\ k \in 0 .. n /\ k - 1 \in 0 .. n
        BY <3>2
      <4>. QED
        BY <2>1, <2>6, <4>1
    <3>. QED
      BY <3>1, <3>2
  <2>9. g[0] = a
    BY <2>1, <2>6
  <2>10. Up(n + 1, g) /\ n + 1 \in 0 .. m
    BY <2>2, <2>8, <2>9
  <2>. HIDE DEF Up
  <2>. QED
    BY <2>5, <2>10
<1>3. \A n \in Nat : n < m /\ n \in T => n + 1 \in T
  BY <1>2
<1>4. m \in T
  <2>1. m \in 0 .. m
    OBVIOUS
  <2>. HIDE DEF T
  <2>. QED
    BY <1>1, <1>3, <2>1, Induction
<1>. QED
  BY <1>4 DEF IsIteration

IsPlaces(h) == h = [n \in 0 .. 2 * Half |-> IF n = 0 THEN 1 ELSE Base * h[n - 1]]

\* The place of a digit is Base times that of the digit before.
LEMMA Places ==
  /\ Panel!Place[0] = 1
  /\ \A n \in 0 .. 2 * Half : Panel!Place[n] \in Nat \ {0}
  /\ \A n \in 0 .. 2 * Half - 1 : Panel!Place[n + 1] = Base * Panel!Place[n]
<1>. DEFINE S == Nat \ {0}
            m == 2 * Half
            F == [k \in 1 .. m |-> [s \in S |-> Base * s]]
<1>1. m \in Nat /\ m > 0 /\ 1 \in S /\ Base \in Nat /\ Base > 1
  BY PanelAssumption
<1>2. F \in [1 .. m -> [S -> S]]
  <2>1. \A s \in S : Base * s \in S
    BY <1>1
  <2>. QED
    BY <2>1
<1>3. \A k \in 1 .. m : \A s \in S : F[k][s] = Base * s
  OBVIOUS
<1>. HIDE DEF F
<1>4. PICK h \in [0 .. m -> S] : h[0] = 1 /\ \A k \in 1 .. m : h[k] = F[k][h[k - 1]]
  <2>. HIDE DEF m
  <2>1. \E h : IsIteration(h, m, S, 1, F)
    BY <1>1, <1>2, IterationExists
  <2>. QED
    BY <2>1 DEF IsIteration
<1>5. \A k \in 1 .. m : k - 1 \in 0 .. m
  BY <1>1
<1>6. \A k \in 1 .. m : h[k] = Base * h[k - 1]
  BY <1>3, <1>4, <1>5
<1>7. IsPlaces(h)
  <2>1. \A n \in 0 .. m : h[n] = IF n = 0 THEN 1 ELSE Base * h[n - 1]
    BY <1>4, <1>6
  <2>. QED
    BY <1>4, <2>1 DEF IsPlaces
<1>8. Panel!Place = CHOOSE g : IsPlaces(g)
  BY Zenon DEF Panel!Place, IsPlaces
<1>9. IsPlaces(Panel!Place)
  BY <1>7, <1>8
<1>. DEFINE P == Panel!Place
<1>10. P = [n \in 0 .. m |-> IF n = 0 THEN 1 ELSE Base * P[n - 1]]
  BY <1>9 DEF IsPlaces
<1>. HIDE DEF P
<1>11. P[0] = 1 /\ \A n \in 0 .. m : n # 0 => P[n] = Base * P[n - 1]
  <2>1. \A n \in 0 .. m : P[n] = IF n = 0 THEN 1 ELSE Base * P[n - 1]
    BY <1>10
  <2>2. 0 \in 0 .. m
    BY <1>1
  <2>. QED
    BY <2>1, <2>2
<1>12. \A n \in 0 .. m : P[n] \in S
  <2>. DEFINE T == {n \in 0 .. m : P[n] \in S}
  <2>1. 0 \in T
    BY <1>1, <1>11
  <2>2. ASSUME NEW n \in Nat, n < m, n \in T
        PROVE  n + 1 \in T
    <3>1. n + 1 \in 0 .. m /\ n + 1 # 0 /\ (n + 1) - 1 = n
      BY <1>1, <2>2
    <3>2. P[n + 1] = Base * P[n]
      BY <1>11, <3>1
    <3>3. \A s \in S : Base * s \in S
      BY <1>1
    <3>. QED
      BY <2>2, <3>1, <3>2, <3>3
  <2>. HIDE DEF T, m
  <2>3. \A n \in 0 .. m : n \in T
    BY <1>1, <2>1, <2>2, Induction
  <2>. QED
    BY <2>3 DEF T
<1>13. \A n \in 0 .. m - 1 : P[n + 1] = Base * P[n]
  <2>1. \A n \in 0 .. m - 1 : n + 1 \in 0 .. m /\ n + 1 # 0 /\ (n + 1) - 1 = n
    BY <1>1
  <2>. QED
    BY <1>11, <2>1
<1>. QED
  BY <1>11, <1>12, <1>13 DEF P

\* q holds what is left of v after each digit.
IsQuotients(q, v) ==
  /\ q \in [0 .. 2 * Half -> Nat] /\ q[0] = v
  /\ \A k \in 0 .. 2 * Half - 1 : q[k + 1] = q[k] \div Base

\* The quotients that the loop of SEG7_Hex goes through exist.
LEMMA QuotientsExist ==
  ASSUME NEW v \in Nat
  PROVE  \E q : IsQuotients(q, v)
<1>. DEFINE m == 2 * Half
            F == [k \in 1 .. m |-> [s \in Nat |-> s \div Base]]
<1>1. m \in Nat /\ m > 0 /\ Base \in Nat /\ Base > 1
  BY PanelAssumption
<1>2. F \in [1 .. m -> [Nat -> Nat]]
  <2>1. \A s \in Nat : s \div Base \in Nat
    BY <1>1
  <2>. QED
    BY <2>1
<1>3. \A k \in 1 .. m : \A s \in Nat : F[k][s] = s \div Base
  OBVIOUS
<1>. HIDE DEF F
<1>4. PICK h \in [0 .. m -> Nat] : h[0] = v /\ \A k \in 1 .. m : h[k] = F[k][h[k - 1]]
  <2>. HIDE DEF m
  <2>1. \E h : IsIteration(h, m, Nat, v, F)
    BY <1>1, <1>2, IterationExists
  <2>. QED
    BY <2>1 DEF IsIteration
<1>5. ASSUME NEW k \in 0 .. m - 1
      PROVE  h[k + 1] = h[k] \div Base
  <2>1. k + 1 \in 1 .. m /\ (k + 1) - 1 = k /\ k \in 0 .. m
    BY <1>1
  <2>. QED
    BY <1>3, <1>4, <2>1
<1>. QED
  BY <1>4, <1>5 DEF IsQuotients

\* Division by the base leaves a digit.
LEMMA Divides ==
  ASSUME NEW n \in Nat
  PROVE  /\ n \div Base \in Nat /\ n % Base \in 0 .. Base - 1
         /\ n = Base * (n \div Base) + (n % Base)
BY PanelAssumption

\* After k digits as much is left as the place of k goes into the number.
LEMMA QuotientBound ==
  ASSUME NEW q, NEW v, IsQuotients(q, v), NEW j \in {0, Half}
  PROVE  /\ q[j + Half] * Panel!Place[Half] <= q[j]
         /\ q[j] < (q[j + Half] + 1) * Panel!Place[Half]
<1>. DEFINE P == Panel!Place
            m == Half
            T == {k \in 0 .. m : q[j + k] * P[k] <= q[j] /\ q[j] < (q[j + k] + 1) * P[k]}
<1>1. m \in Nat /\ m > 0 /\ Half = m /\ j \in Nat /\ Base \in Nat /\ Base > 1
  BY PanelAssumption
<1>2. \A k \in 0 .. m : j + k \in 0 .. 2 * Half /\ q[j + k] \in Nat
  <2>1. \A k \in 0 .. m : j + k \in 0 .. 2 * Half
    BY <1>1
  <2>. QED
    BY <2>1 DEF IsQuotients
<1>3. P[0] = 1 /\ \A k \in 0 .. m : P[k] \in Nat
  <2>1. \A k \in 0 .. m : k \in 0 .. 2 * Half
    BY <1>1
  <2>. QED
    BY <2>1, Places
<1>4. 0 \in T
  <2>1. j + 0 = j /\ 0 \in 0 .. m
    BY <1>1
  <2>2. q[j] \in Nat
    BY <1>2, <2>1
  <2>. HIDE DEF P, m
  <2>. QED
    BY <1>3, <2>1, <2>2
<1>5. ASSUME NEW k \in Nat, k < m, k \in T
      PROVE  k + 1 \in T
  <2>1. k \in 0 .. m /\ k + 1 \in 0 .. m /\ j + (k + 1) = (j + k) + 1
        /\ j + k \in 0 .. 2 * Half - 1 /\ k \in 0 .. 2 * Half - 1
    BY <1>1, <1>5
  <2>2. P[k + 1] = Base * P[k]
    BY <2>1, Places
  <2>3. q[j + (k + 1)] = q[j + k] \div Base
    BY <2>1 DEF IsQuotients
  <2>. DEFINE x == q[j + k]
              r == x % Base
              y == q[j + (k + 1)]
              p == P[k]
              w == q[j]
  <2>4. x \in Nat /\ y \in Nat /\ p \in Nat /\ w \in Nat
    <3>1. j + 0 = j /\ 0 \in 0 .. m
      BY <1>1
    <3>. QED
      BY <1>2, <1>3, <2>1, <3>1
  <2>5. r \in 0 .. Base - 1 /\ x = Base * y + r
    BY <2>3, <2>4, Divides
  <2>6. x * p <= w /\ w < (x + 1) * p
    BY <1>5
  <2>. HIDE DEF x, r, y, p, w
  <2>7. \A a, b, c, d \in Nat : d * (a * b) + c * b = (a * d + c) * b
    OBVIOUS
  <2>8. \A a, b, c \in Nat : a <= b => a * c <= b * c
    OBVIOUS
  <2>9. y * (Base * p) <= w
    <3>1. y * (Base * p) = (Base * y) * p /\ Base * y \in Nat
      BY <1>1, <2>4
    <3>2. Base * y <= x
      BY <2>4, <2>5, <3>1, <1>1
    <3>3. (Base * y) * p <= x * p
      BY <2>4, <2>8, <3>1, <3>2
    <3>4. (Base * y) * p \in Nat /\ x * p \in Nat
      BY <2>4, <3>1
    <3>. HIDE DEF P
    <3>. QED
      BY <2>4, <2>6, <3>1, <3>3, <3>4
  <2>10. w < (y + 1) * (Base * p)
    <3>1. (y + 1) * (Base * p) = (Base * y + Base) * p /\ Base * y \in Nat
      BY <1>1, <2>4
    <3>2. x + 1 <= Base * y + Base /\ x + 1 \in Nat /\ Base * y + Base \in Nat
      BY <2>4, <2>5, <3>1, <1>1
    <3>3. (x + 1) * p <= (Base * y + Base) * p
      BY <2>4, <2>8, <3>2
    <3>4. (x + 1) * p \in Nat /\ (Base * y + Base) * p \in Nat
      BY <2>4, <3>2
    <3>. QED
      BY <2>4, <2>6, <3>1, <3>3, <3>4
  <2>11. y * P[k + 1] <= w /\ w < (y + 1) * P[k + 1]
    BY <2>2, <2>9, <2>10 DEF p
  <2>. QED
    BY <2>1, <2>11 DEF y, w
<1>6. m \in T
  <2>. HIDE DEF T, m
  <2>. QED
    BY <1>1, <1>4, <1>5, Induction
<1>. QED
  BY <1>6

\* The digits from first on show what is left there, less what is left
\* behind them.
LEMMA NumberMeans ==
  ASSUME NEW q, NEW v, IsQuotients(q, v), NEW first \in {0, Half},
         \A d \in 0 .. 2 * Half - 1 : seg[d] = q[d] % Base
  PROVE  Panel!Number(first) = q[first] - Panel!Place[Half] * q[first + Half]
<1>. DEFINE P == Panel!Place
            IsValue(h) == h = [n \in 0 .. Half |-> IF n = 0 THEN 0 ELSE seg[first + Half - n] + Base * h[n - 1]]
            F == [k \in 1 .. Half |-> [s \in Nat |-> seg[first + Half - k] + Base * s]]
<1>1. Half \in Nat /\ Half > 0 /\ first \in Nat /\ Base \in Nat /\ Base > 1
  BY PanelAssumption
<1>2. \A k \in 1 .. Half : first + Half - k \in 0 .. 2 * Half - 1
                           /\ first + Half - k + 1 \in 0 .. 2 * Half
  BY <1>1
<1>3. ASSUME NEW k \in 1 .. Half
      PROVE  /\ seg[first + Half - k] \in Nat
             /\ q[first + Half - k] = Base * q[first + Half - k + 1] + seg[first + Half - k]
             /\ q[first + Half - k] \in Nat /\ q[first + Half - k + 1] \in Nat
  <2>. DEFINE d == first + Half - k
  <2>1. d \in 0 .. 2 * Half - 1 /\ d \in 0 .. 2 * Half /\ d + 1 \in 0 .. 2 * Half
    BY <1>1, <1>2
  <2>. HIDE DEF d
  <2>2. q[d] \in Nat /\ q[d + 1] \in Nat /\ q[d + 1] = q[d] \div Base /\ seg[d] = q[d] % Base
    BY <2>1 DEF IsQuotients
  <2>. DEFINE n == q[d]
  <2>3. n \in Nat
    BY <2>2
  <2>. HIDE DEF n
  <2>4. n % Base \in 0 .. Base - 1 /\ n = Base * (n \div Base) + (n % Base)
    BY <2>3, Divides
  <2>5. n % Base \in Nat
    BY <1>1, <2>4
  <2>. QED
    BY <2>2, <2>4, <2>5, Zenon DEF n, d
<1>4. F \in [1 .. Half -> [Nat -> Nat]]
  <2>1. \A k \in 1 .. Half : \A s \in Nat : seg[first + Half - k] + Base * s \in Nat
    <3>1. \A a, s \in Nat : a + Base * s \in Nat
      BY <1>1
    <3>. QED
      BY <1>3, <3>1
  <2>. QED
    BY <2>1
<1>5. \A k \in 1 .. Half : \A s \in Nat : F[k][s] = seg[first + Half - k] + Base * s
  OBVIOUS
<1>. HIDE DEF F
<1>6. PICK h \in [0 .. Half -> Nat] : h[0] = 0 /\ \A k \in 1 .. Half : h[k] = F[k][h[k - 1]]
  <2>1. \E h : IsIteration(h, Half, Nat, 0, F)
    BY <1>1, <1>4, IterationExists
  <2>. QED
    BY <2>1 DEF IsIteration
<1>7. \A k \in 1 .. Half : h[k] = seg[first + Half - k] + Base * h[k - 1]
  <2>1. \A k \in 1 .. Half : k - 1 \in 0 .. Half
    BY <1>1
  <2>. QED
    BY <1>5, <1>6, <2>1
<1>8. IsValue(h)
  <2>1. \A n \in 0 .. Half : h[n] = IF n = 0 THEN 0 ELSE seg[first + Half - n] + Base * h[n - 1]
    BY <1>6, <1>7, <1>1
  <2>. QED
    BY <1>6, <2>1
<1>9. Panel!Number(first) = (CHOOSE g : IsValue(g))[Half]
  BY Zenon DEF Panel!Number
<1>10. PICK g : IsValue(g) /\ Panel!Number(first) = g[Half]
  BY <1>8, <1>9
<1>11. g[0] = 0 /\ \A n \in 1 .. Half : g[n] = seg[first + Half - n] + Base * g[n - 1]
  <2>1. \A n \in 0 .. Half : g[n] = IF n = 0 THEN 0 ELSE seg[first + Half - n] + Base * g[n - 1]
    BY <1>10
  <2>. QED
    BY <1>1, <2>1
<1>. HIDE DEF IsValue
<1>. DEFINE T == {n \in 0 .. Half : g[n] = q[first + Half - n] - P[n] * q[first + Half]}
            e == q[first + Half]
<1>12. e \in Nat
  <2>1. first + Half \in 0 .. 2 * Half
    BY <1>1
  <2>. QED
    BY <2>1 DEF IsQuotients
<1>. HIDE DEF e
<1>13. 0 \in T
  <2>1. first + Half - 0 = first + Half /\ 0 \in 0 .. Half
    BY <1>1
  <2>2. P[0] = 1
    BY Places
  <2>3. e - 1 * e = 0
    BY <1>12
  <2>. QED
    BY <1>11, <2>1, <2>2, <2>3 DEF e
<1>14. ASSUME NEW n \in Nat, n < Half, n \in T
       PROVE  n + 1 \in T
  <2>1. n + 1 \in 1 .. Half /\ n + 1 \in 0 .. Half /\ (n + 1) - 1 = n
        /\ first + Half - (n + 1) + 1 = first + Half - n /\ n \in 0 .. 2 * Half - 1
        /\ n \in 0 .. 2 * Half
    BY <1>1, <1>14
  <2>. DEFINE x == q[first + Half - n]
              y == q[first + Half - (n + 1)]
              s == seg[first + Half - (n + 1)]
              p == P[n]
  <2>2. x \in Nat /\ y \in Nat /\ s \in Nat /\ y = Base * x + s
    BY <1>3, <2>1
  <2>3. p \in Nat /\ P[n + 1] = Base * p
    BY <2>1, Places
  <2>4. g[n + 1] = s + Base * (x - p * e)
    BY <1>11, <1>14, <2>1 DEF e
  <2>. HIDE DEF x, y, s, p
  <2>5. s + Base * (x - p * e) = (Base * x + s) - (Base * p) * e
    <3>1. \A a, b, c, d, f \in Nat : a + f * (b - c * d) = (f * b + a) - (f * c) * d
      OBVIOUS
    <3>. QED
      BY <1>1, <1>12, <2>2, <2>3, <3>1
  <2>6. g[n + 1] = y - P[n + 1] * e
    BY <2>2, <2>3, <2>4, <2>5
  <2>. QED
    BY <2>1, <2>6 DEF y, e
<1>15. Half \in T
  <2>1. Half \in 0 .. Half /\ Half \in Nat
    BY <1>1
  <2>2. \A n \in Nat : n < Half /\ n \in T => n + 1 \in T
    BY <1>14
  <2>. HIDE DEF T
  <2>. QED
    BY <1>13, <2>1, <2>2, Induction
<1>16. first + Half - Half = first
  BY <1>1
<1>. QED
  BY <1>10, <1>15, <1>16

\* The upper digits show the column, the lower ones the row.
LEMMA DigitsShow ==
  ASSUME NEW q, px \in 0 .. XMax, py \in 0 .. YMax, IsQuotients(q, Panel!Hex(px, py)),
         \A d \in 0 .. 2 * Half - 1 : seg[d] = q[d] % Base
  PROVE  Panel!Number(Half) = px /\ Panel!Number(0) = py
<1>. DEFINE p == Panel!Place[Half]
            a == q[Half]
            b == q[2 * Half]
<1>1. /\ XMax \in Nat /\ YMax \in Nat /\ Half \in Nat /\ 0 + Half = Half /\ Half + Half = 2 * Half
      /\ Half \in 0 .. 2 * Half /\ 2 * Half \in 0 .. 2 * Half
  BY PaintAssumption, PanelAssumption
<1>2. p \in Nat /\ XMax < p /\ YMax < p
  BY <1>1, Places, PanelAssumption
<1>3. a \in Nat /\ b \in Nat /\ q[0] = px * p + py
  BY <1>1 DEF IsQuotients, Panel!Hex
<1>4. a * p <= q[0] /\ q[0] < (a + 1) * p
  BY <1>1, QuotientBound
<1>5. b * p <= a /\ a < (b + 1) * p
  BY <1>1, QuotientBound
<1>6. Panel!Number(0) = q[0] - p * a /\ Panel!Number(Half) = a - p * b
  BY <1>1, NumberMeans
<1>. HIDE DEF p, a, b
<1>7. px \in Nat /\ py \in Nat /\ px < p /\ py < p
  BY <1>1, <1>2
<1>8. a = px
  <2>1. \A i, j, k \in Nat : i < j => (i + 1) * k <= j * k
    <3>1. \A i, j, k \in Nat : i <= j => i * k <= j * k
      OBVIOUS
    <3>2. \A i, j \in Nat : i < j => i + 1 <= j /\ i + 1 \in Nat
      OBVIOUS
    <3>. QED
      BY <3>1, <3>2
  <2>2. (px + 1) * p = px * p + p /\ px * p \in Nat /\ a * p \in Nat /\ (a + 1) * p \in Nat
    BY <1>2, <1>3, <1>7
  <2>3. ~(px < a)
    <3>. SUFFICES ASSUME px < a
                  PROVE  FALSE
      OBVIOUS
    <3>1. (px + 1) * p <= a * p
      BY <1>2, <1>3, <1>7, <2>1
    <3>. QED
      BY <1>2, <1>3, <1>4, <1>7, <2>2, <3>1
  <2>4. ~(a < px)
    <3>. SUFFICES ASSUME a < px
                  PROVE  FALSE
      OBVIOUS
    <3>1. (a + 1) * p <= px * p
      BY <1>2, <1>3, <1>7, <2>1
    <3>. QED
      BY <1>2, <1>3, <1>4, <1>7, <2>2, <3>1
  <2>. QED
    BY <1>3, <1>7, <2>3, <2>4
<1>9. b = 0
  <2>. SUFFICES ASSUME b # 0
                PROVE  FALSE
    OBVIOUS
  <2>1. \A i, j \in Nat : i # 0 => j <= i * j
    OBVIOUS
  <2>2. p <= b * p /\ b * p \in Nat
    BY <1>2, <1>3, <2>1
  <2>. QED
    BY <1>2, <1>3, <1>5, <1>7, <1>8, <2>2
<1>10. q[0] - p * a = py /\ a - p * b = px
  <2>1. p * a = px * p /\ p * b = 0 /\ px * p \in Nat
    BY <1>2, <1>3, <1>7, <1>8, <1>9
  <2>. QED
    BY <1>3, <1>7, <1>8, <2>1
<1>. QED
  BY <1>6, <1>10


----------------------------------------------------------------------------
(* The pass of the paint loop on the displays *)

Busy == pc \in {"cursor_x", "cursor_y", "paint"}

\* A first pass has begun, and the position still is the one it showed.
Shown == seg[0] # Panel!AllLit

Showing ==
  Busy \/ Shown =>
    \E q : /\ IsQuotients(q, Panel!Hex(px, py)) /\ data = q[digit]
           /\ \A d \in 0 .. digit - 1 : seg[d] = q[d] % Base

Registers ==
  /\ pc \in {"cursor_y", "paint"} \/ (pc \in {"poll", "move"} /\ Shown) => cursor_x = px
  /\ pc = "paint" \/ (pc \in {"poll", "move"} /\ Shown) => cursor_y = py

Painted ==
  pc = "poll" /\ Shown /\ pbutton # 0 =>
    written = [address |-> cursor_y * (XMax + 1) + cursor_x, bit |-> 2 - pbutton]

Counting ==
  /\ digit \in 0 .. 2 * Half /\ (digit < 2 * Half => pc = "cursor_x")
  /\ seg \in [Panel!Digit -> {Panel!AllLit} \cup (0 .. Base - 1)] /\ data \in Nat

PassInv == PaintInv /\ Counting /\ Showing /\ Registers /\ Painted

LEMMA PassInit == BoardInit => PassInv
<1>. SUFFICES ASSUME BoardInit
              PROVE  PassInv
  OBVIOUS
<1>1. PaintInv
  BY PaintInit DEF BoardInit
<1>2. Half \in Nat /\ Half > 0 /\ 0 \in Panel!Digit
  BY PanelAssumption DEF Panel!Digit
<1>3. pc = "poll" /\ seg = [d \in Panel!Digit |-> Panel!AllLit] /\ digit = 2 * Half
  BY DEF BoardInit, Init, Panel!Init
<1>4. ~Busy /\ ~Shown
  BY <1>2, <1>3 DEF Busy, Shown
<1>5. Counting
  <2>1. seg \in [Panel!Digit -> {Panel!AllLit}]
    BY <1>3
  <2>2. seg \in [Panel!Digit -> {Panel!AllLit} \cup (0 .. Base - 1)]
    BY <2>1
  <2>. data \in Nat
    BY DEF BoardInit, Panel!Init
  <2>3. digit \in 0 .. 2 * Half /\ ~(digit < 2 * Half)
    BY <1>2, <1>3
  <2>. QED
    BY <2>2, <2>3, Zenon DEF Counting
<1>. QED
  BY <1>1, <1>3, <1>4, <1>5 DEF PassInv, Showing, Registers, Painted

\* Greeting and polling leave digits, position and registers alone.
LEMMA PassKeeps ==
  ASSUME PassInv, UNCHANGED <<seg, data, digit, position, registers>>, PaintInv',
         \/ UNCHANGED <<pc, pbutton>>
         \/ pc = "poll" /\ pc' = "move"
  PROVE  PassInv'
<1>1. /\ px' = px /\ py' = py /\ seg' = seg /\ data' = data /\ digit' = digit
      /\ cursor_x' = cursor_x /\ cursor_y' = cursor_y /\ written' = written
  BY DEF position, registers
<1>2. Shown' = Shown /\ (Busy' => Busy)
  BY <1>1 DEF Shown, Busy
<1>3. Counting'
  BY <1>1 DEF PassInv, Counting
<1>4. Showing'
  <2>. SUFFICES ASSUME Busy' \/ Shown'
                PROVE  \E q : /\ IsQuotients(q, Panel!Hex(px, py)) /\ data = q[digit]
                              /\ \A d \in 0 .. digit - 1 : seg[d] = q[d] % Base
    BY <1>1 DEF Showing
  <2>. QED
    BY <1>2 DEF PassInv, Showing
<1>5. Registers'
  BY <1>1, <1>2 DEF PassInv, Registers
<1>6. Painted'
  BY <1>1, <1>2 DEF PassInv, Painted
<1>. QED
  BY <1>3, <1>4, <1>5, <1>6 DEF PassInv

\* A move begins to show the new position.
LEMMA PassMoves ==
  ASSUME PassInv, MoveAndShow, PaintInv'
  PROVE  PassInv'
<1>1. /\ pc' = "cursor_x" /\ data' = Panel!Hex(px', py') /\ digit' = 0 /\ seg' = seg
  BY DEF MoveAndShow, Move, Panel!ShowPosition
<1>2. Half \in Nat /\ Half > 0 /\ XMax \in Nat /\ YMax \in Nat
  BY PanelAssumption, PaintAssumption
<1>3. px' \in Nat /\ py' \in Nat
  BY <1>2 DEF PaintInv, TypeOK
<1>4. data' \in Nat
  <2>1. Panel!Place[Half] \in Nat
    <3>1. Half \in 0 .. 2 * Half
      BY <1>2
    <3>. QED
      BY <3>1, Places
  <2>2. \A a, b, c \in Nat : a * b + c \in Nat
    OBVIOUS
  <2>3. data' = px' * Panel!Place[Half] + py'
    BY <1>1 DEF Panel!Hex
  <2>. QED
    BY <1>3, <2>1, <2>2, <2>3
<1>5. Showing'
  <2>1. PICK q : IsQuotients(q, data')
    BY <1>4, QuotientsExist
  <2>2. IsQuotients(q, Panel!Hex(px', py')) /\ data' = q[digit']
    BY <1>1, <2>1 DEF IsQuotients
  <2>3. \A d \in 0 .. digit' - 1 : FALSE
    BY <1>1
  <2>. QED
    BY <2>2, <2>3 DEF Showing
<1>6. Counting'
  BY <1>1, <1>2, <1>4 DEF PassInv, Counting
<1>. QED
  BY <1>1, <1>5, <1>6 DEF PassInv, Registers, Painted

\* One more digit shows what the number has there.
LEMMA PassShows ==
  ASSUME PassInv, ShowDigit, PaintInv'
  PROVE  PassInv'
<1>1. /\ digit < 2 * Half /\ seg' = [seg EXCEPT ![digit] = data % Base]
      /\ data' = data \div Base /\ digit' = digit + 1
  BY DEF ShowDigit, Panel!SEG7_Hex
<1>2. pc = "cursor_x" /\ pc' = pc /\ px' = px /\ py' = py
  BY <1>1 DEF PassInv, Counting, ShowDigit, vars, position
<1>3. Half \in Nat /\ digit \in 0 .. 2 * Half - 1 /\ digit \in Panel!Digit /\ digit' \in 0 .. 2 * Half
      /\ digit' - 1 = digit
  BY <1>1, PanelAssumption DEF PassInv, Counting, Panel!Digit
<1>4. seg \in [Panel!Digit -> {Panel!AllLit} \cup (0 .. Base - 1)] /\ data \in Nat
  BY DEF PassInv, Counting
<1>5. Counting'
  <2>1. data' \in Nat /\ data % Base \in 0 .. Base - 1
    BY <1>1, <1>4, Divides
  <2>2. seg' \in [Panel!Digit -> {Panel!AllLit} \cup (0 .. Base - 1)]
    BY <1>1, <1>4, <2>1
  <2>. QED
    BY <1>2, <1>3, <2>1, <2>2, Zenon DEF Counting
<1>6. PICK q : /\ IsQuotients(q, Panel!Hex(px, py)) /\ data = q[digit]
               /\ \A d \in 0 .. digit - 1 : seg[d] = q[d] % Base
  BY <1>2 DEF PassInv, Showing, Busy
<1>7. data' = q[digit']
  BY <1>1, <1>3, <1>6 DEF IsQuotients
<1>8. \A d \in 0 .. digit : seg'[d] = q[d] % Base
  <2>1. ASSUME NEW d \in 0 .. digit, d # digit
        PROVE  seg'[d] = q[d] % Base
    <3>1. d \in 0 .. digit - 1 /\ d \in Panel!Digit
      BY <1>3, <2>1 DEF Panel!Digit
    <3>. QED
      BY <1>1, <1>4, <1>6, <2>1, <3>1
  <2>2. seg'[digit] = q[digit] % Base
    BY <1>1, <1>3, <1>4, <1>6
  <2>. QED
    BY <2>1, <2>2
<1>9. Showing'
  BY <1>2, <1>3, <1>6, <1>7, <1>8 DEF Showing
<1>. QED
  BY <1>2, <1>5, <1>9 DEF PassInv, Registers, Painted

\* With all digits written, the registers and the pixel follow.
LEMMA PassEnds ==
  ASSUME PassInv, RestOfPass, PaintInv'
  PROVE  PassInv'
<1>1. UNCHANGED <<px, py, seg, data, digit>> /\ digit = 2 * Half
  BY DEF RestOfPass, CursorX, CursorY, Paint, position, panelVars
<1>2. Busy
  BY DEF RestOfPass, CursorX, CursorY, Paint, Busy
<1>3. Showing'
  BY <1>1, <1>2 DEF PassInv, Showing
<1>4. Half \in Nat
  BY PanelAssumption
<1>5. Counting'
  BY <1>1, <1>4 DEF PassInv, Counting
<1>6. CASE CursorX
  BY <1>1, <1>3, <1>5, <1>6 DEF PassInv, CursorX, Registers, Painted
<1>7. CASE CursorY
  <2>1. cursor_x' = px' /\ cursor_y' = py' /\ pc' = "paint"
    BY <1>1, <1>7 DEF PassInv, Registers, CursorY
  <2>. QED
    BY <1>3, <1>5, <2>1 DEF PassInv, Registers, Painted
<1>8. CASE Paint
  <2>1. cursor_x' = px' /\ cursor_y' = py' /\ pc' = "poll" /\ pbutton' = pbutton
    BY <1>1, <1>8 DEF PassInv, Registers, Paint, report
  <2>2. pbutton # 0 =>
          written' = [address |-> cursor_y' * (XMax + 1) + cursor_x', bit |-> 2 - pbutton]
    <3>. SUFFICES ASSUME pbutton # 0
                  PROVE  written' = [address |-> cursor_y' * (XMax + 1) + cursor_x', bit |-> 2 - pbutton]
      OBVIOUS
    <3>1. written' = [address |-> py * (XMax + 1) + px, bit |-> IF pbutton = 1 THEN 1 ELSE 0]
      BY <1>8 DEF Paint, Address
    <3>2. (IF pbutton = 1 THEN 1 ELSE 0) = 2 - pbutton
      BY DEF PassInv, PaintInv, TypeOK
    <3>. QED
      BY <1>1, <2>1, <3>1, <3>2, Zenon
  <2>. QED
    BY <1>3, <1>5, <2>1, <2>2 DEF PassInv, Registers, Painted
<1>. QED
  BY <1>6, <1>7, <1>8 DEF RestOfPass

LEMMA PassStep == PassInv /\ [BoardNext]_boardVars => PassInv'
<1>. SUFFICES ASSUME PassInv, [BoardNext]_boardVars
              PROVE  PassInv'
  OBVIOUS
<1>1. PaintInv'
  <2>1. [Next]_vars
    BY DEF BoardNext, Greet, Poll, MoveAndShow, ShowDigit, RestOfPass, Next, boardVars
  <2>. QED
    BY <2>1, PaintStep DEF PassInv
<1>2. CASE Greet
  BY <1>1, <1>2, PassKeeps DEF Greet, Panel!LcdStep, Panel!hex, vars, report
<1>3. CASE Poll
  <2>1. UNCHANGED <<seg, data, digit, position, registers>> /\ pc = "poll" /\ pc' = "move"
    BY <1>3 DEF Poll, Report, Failed, panelVars
  <2>. QED
    BY <1>1, <2>1, PassKeeps
<1>4. CASE MoveAndShow
  BY <1>1, <1>4, PassMoves
<1>5. CASE ShowDigit
  BY <1>1, <1>5, PassShows
<1>6. CASE RestOfPass
  BY <1>1, <1>6, PassEnds
<1>7. CASE UNCHANGED boardVars
  BY <1>1, <1>7, PassKeeps DEF boardVars, panelVars, vars, report
<1>. QED
  BY <1>2, <1>3, <1>4, <1>5, <1>6, <1>7 DEF BoardNext

(* At the end of every pass, the digits, the registers of the cross and    *)
(* the position agree, and the pixel painted is the one under the cross.   *)
THEOREM PositionCorrect == BoardSpec => []PositionShown
<1>1. PassInv => PositionShown
  <2>. SUFFICES ASSUME PassInv, pc = "poll", Shown
                PROVE  /\ Panel!Number(Half) = px /\ Panel!Number(0) = py
                       /\ cursor_x = px /\ cursor_y = py
    BY DEF PassInv, PaintInv, Painted, Shown, PositionShown
  <2>1. Half \in Nat /\ digit = 2 * Half
    BY PanelAssumption DEF PassInv, Counting
  <2>2. PICK q : /\ IsQuotients(q, Panel!Hex(px, py))
                 /\ \A d \in 0 .. 2 * Half - 1 : seg[d] = q[d] % Base
    BY <2>1 DEF PassInv, Showing
  <2>3. px \in 0 .. XMax /\ py \in 0 .. YMax
    BY DEF PassInv, PaintInv, TypeOK
  <2>4. Panel!Number(Half) = px /\ Panel!Number(0) = py
    BY <2>2, <2>3, DigitsShow
  <2>. QED
    BY <2>4 DEF PassInv, Registers
<1>. QED
  BY <1>1, PassInit, PassStep, PTL DEF BoardSpec


----------------------------------------------------------------------------
(* The greeting *)

\* Character c of text n, or what follows the text.
Chr(n, c) == IF c < Columns THEN Panel!Letter(n, c) ELSE Panel!Junk

\* Which character of a text that begins at o reaches cell a first.
Turn(o, a) == IF o <= a THEN a - o ELSE a - o + 2 * Row

\* The memory after c characters of text n over old, from cell o on.
Laid(old, n, o, c) ==
  [a \in Panel!Cell |-> IF c <= Turn(o, a) THEN old[a]
                        ELSE IF c <= Turn(o, a) + 2 * Row THEN Chr(n, Turn(o, a))
                        ELSE Panel!Junk]

\* What the assumption says of the memory of the panel.
LEMMA Cells ==
  /\ Row \in Nat /\ Row > 0 /\ Columns \in Nat /\ Columns > 0 /\ Columns <= Row
  /\ Panel!Cell = 0 .. 2 * Row - 1
BY PanelAssumption DEF Panel!Cell

\* There is one remainder.
LEMMA Remainder ==
  ASSUME NEW w \in Nat \ {0}, NEW i \in Nat, NEW r \in 0 .. w - 1
  PROVE  (w * i + r) % w = r
<1>. DEFINE n == w * i + r
            k == (n \div w) - i
<1>1. n \in Nat
  <2>1. w * i \in Nat
    OBVIOUS
  <2>. QED
    BY <2>1
<1>2. n \div w \in Int /\ n % w \in 0 .. w - 1 /\ n = w * (n \div w) + (n % w)
  BY <1>1
<1>3. n = w * i + r
  OBVIOUS
<1>. HIDE DEF n
<1>4. w * k = r - (n % w) /\ k \in Int
  BY <1>2, <1>3
<1>5. k = 0
  <2>1. - w < w * k /\ w * k < w
    BY <1>2, <1>4
  <2>2. \A j \in Int : (j >= 1 => w * j >= w) /\ (j <= -1 => w * j <= - w)
    OBVIOUS
  <2>. HIDE DEF k
  <2>. QED
    BY <1>4, <2>1, <2>2
<1>6. n % w = r
  <2>. DEFINE m == n % w
  <2>1. w * 0 = 0 /\ m \in 0 .. w - 1
    BY <1>2
  <2>2. w * k = r - m
    BY <1>4
  <2>. HIDE DEF k, m
  <2>3. 0 = r - m
    BY <1>5, <2>1, <2>2
  <2>4. m = r
    BY <2>1, <2>3
  <2>. QED
    BY <2>4 DEF m
<1>. QED
  BY <1>6 DEF n

\* Numbers below w are their own remainder, and w leaves none.
LEMMA Remainders ==
  ASSUME NEW w \in Nat \ {0}
  PROVE  \A r \in 0 .. w - 1 : r % w = r /\ (r + w) % w = r /\ ((r + w) + w) % w = r
<1>. SUFFICES ASSUME NEW r \in 0 .. w - 1
              PROVE  r % w = r /\ (r + w) % w = r /\ ((r + w) + w) % w = r
  OBVIOUS
<1>1. w * 0 + r = r /\ w * 1 + r = r + w /\ w * 2 + r = (r + w) + w
  OBVIOUS
<1>2. (w * 0 + r) % w = r /\ (w * 1 + r) % w = r /\ (w * 2 + r) % w = r
  <2>1. 0 \in Nat /\ 1 \in Nat /\ 2 \in Nat
    OBVIOUS
  <2>. QED
    BY <2>1, Remainder, Zenon
<1>. QED
  BY <1>1, <1>2, Zenon

\* The address counts on.
LEMMA Successor ==
  ASSUME NEW w \in Nat \ {0}, NEW s \in Nat
  PROVE  ((s % w) + 1) % w = (s + 1) % w
<1>. DEFINE a == s % w
            q == s \div w
            wq == w * q
<1>1. a \in 0 .. w - 1 /\ q \in Nat /\ s = wq + a
  OBVIOUS
<1>. HIDE DEF a
<1>2. CASE a + 1 < w
  <2>1. a + 1 \in 0 .. w - 1 /\ s + 1 = w * q + (a + 1)
    BY <1>1, <1>2
  <2>. HIDE DEF q
  <2>2. (w * q + (a + 1)) % w = a + 1
    BY <1>1, <2>1, Remainder, Zenon
  <2>3. (a + 1) % w = a + 1
    BY <2>1, Remainders, Zenon
  <2>. QED
    BY <2>1, <2>2, <2>3, Zenon DEF a
<1>3. CASE ~(a + 1 < w)
  <2>1. a + 1 = 0 + w /\ q + 1 \in Nat /\ 0 \in 0 .. w - 1
    BY <1>1, <1>3
  <2>2. s + 1 = w * (q + 1) + 0
    <3>1. w * (q + 1) = w * q + w
      BY <1>1
    <3>2. wq \in Nat
      BY <1>1
    <3>. HIDE DEF wq
    <3>3. s + 1 = wq + w
      BY <1>1, <2>1, <3>2
    <3>4. w * (q + 1) = wq + w
      BY <3>1 DEF wq
    <3>. QED
      BY <3>2, <3>3, <3>4
  <2>. HIDE DEF q
  <2>3. (w * (q + 1) + 0) % w = 0 /\ (0 + w) % w = 0
    BY <2>1, Remainder, Remainders, Zenon
  <2>. QED
    BY <2>1, <2>2, <2>3, Zenon DEF a
<1>. QED
  BY <1>2, <1>3

\* A character reaches a cell exactly when it is the turn of the cell.
LEMMA Turns ==
  ASSUME NEW o \in Panel!Cell, NEW c \in Nat
  PROVE  /\ (o + c) % (2 * Row) \in Panel!Cell
         /\ c < 2 * Row => Turn(o, (o + c) % (2 * Row)) = c
         /\ c >= 2 * Row => c >= Turn(o, (o + c) % (2 * Row)) + 2 * Row
         /\ \A b \in Panel!Cell :
              c = Turn(o, b) \/ c = Turn(o, b) + 2 * Row => b = (o + c) % (2 * Row)
         /\ \A b \in Panel!Cell : Turn(o, b) \in 0 .. 2 * Row - 1
<1>. DEFINE w == 2 * Row
            s == o + c
            a == s % w
            q == s \div w
<1>1. w \in Nat /\ w > 0 /\ Panel!Cell = 0 .. w - 1 /\ o \in 0 .. w - 1
  BY Cells
<1>2. s \in Nat
  BY <1>1
<1>. HIDE DEF w
<1>3. \A t \in Nat : t % w \in 0 .. w - 1 /\ t = w * (t \div w) + (t % w) /\ t \div w \in Nat
  BY <1>1
<1>4. a \in 0 .. w - 1 /\ s = w * q + a /\ q \in Nat
  BY <1>2, <1>3
<1>. DEFINE wq == w * q
<1>7. wq \in Nat /\ (q # 0 => wq >= w) /\ (q = 0 => wq = 0) /\ (q # 0 /\ q # 1 => wq >= 2 * w)
      /\ (q = 1 => wq = w)
  <2>1. \A i \in Nat : w * i \in Nat /\ (i # 0 => w * i >= w) /\ (i # 0 /\ i # 1 => w * i >= 2 * w)
    BY <1>1
  <2>2. w * 0 = 0 /\ w * 1 = w
    BY <1>1
  <2>. QED
    BY <1>4, <2>1, <2>2
<1>8. s = wq + a
  BY <1>4
<1>9. \A b \in 0 .. w - 1 : Turn(o, b) = IF o <= b THEN b - o ELSE b - o + w
  BY DEF Turn, w
<1>10. ASSUME NEW b \in 0 .. w - 1, c = Turn(o, b) \/ c = Turn(o, b) + w
       PROVE  b = a
  <2>1. b \in Nat /\ b + w \in Nat /\ b % w = b /\ (b + w) % w = b /\ ((b + w) + w) % w = b
    BY <1>1, Remainders
  <2>2. s = b \/ s = b + w \/ s = (b + w) + w
    BY <1>1, <1>9, <1>10
  <2>. QED
    BY <2>1, <2>2
<1>. DEFINE t == Turn(o, a)
<1>11. t = IF o <= a THEN a - o ELSE a - o + w
  BY <1>4, <1>9
<1>. HIDE DEF s, a, q, wq, t
<1>12. s = o + c
  BY DEF s
<1>13. c < w => t = c
  BY <1>1, <1>4, <1>7, <1>8, <1>11, <1>12
<1>14. c >= w => c >= t + w
  BY <1>1, <1>4, <1>7, <1>8, <1>11, <1>12
<1>15. \A b \in 0 .. w - 1 : Turn(o, b) \in 0 .. w - 1
  BY <1>1, <1>9
<1>. QED
  BY <1>1, <1>4, <1>10, <1>13, <1>14, <1>15 DEF t, a, s, w

Changed(m, at, ch) == [m EXCEPT ![at] = ch]

\* The next character of a text goes to the next cell.
LEMMA OneMore ==
  ASSUME NEW old, NEW n, NEW o \in Panel!Cell, NEW c \in Nat
  PROVE  Changed(Laid(old, n, o, c), (o + c) % (2 * Row), Chr(n, c)) = Laid(old, n, o, c + 1)
<1>. DEFINE at == (o + c) % (2 * Row)
            w == 2 * Row
            m == [Laid(old, n, o, c) EXCEPT ![at] = Chr(n, c)]
<1>1. w \in Nat /\ w >= Columns /\ w > 0 /\ Columns \in Nat
  BY Cells
<1>2. /\ at \in Panel!Cell
      /\ c < w => Turn(o, at) = c
      /\ c >= w => c >= Turn(o, at) + w
      /\ \A b \in Panel!Cell : c = Turn(o, b) \/ c = Turn(o, b) + w => b = at
      /\ \A b \in Panel!Cell : Turn(o, b) \in 0 .. w - 1
  BY Turns
<1>. HIDE DEF at, w
<1>3. ASSUME NEW a \in Panel!Cell
      PROVE  m[a] = Laid(old, n, o, c + 1)[a]
  <2>. DEFINE t == Turn(o, a)
  <2>1. t \in Nat /\ t < w
    BY <1>1, <1>2
  <2>2. Laid(old, n, o, c + 1)[a] = IF c + 1 <= t THEN old[a] ELSE IF c + 1 <= t + w THEN Chr(n, t) ELSE Panel!Junk
    BY DEF Laid, w
  <2>3. Laid(old, n, o, c)[a] = IF c <= t THEN old[a] ELSE IF c <= t + w THEN Chr(n, t) ELSE Panel!Junk
    BY DEF Laid, w
  <2>4. m[a] = IF a = at THEN Chr(n, c) ELSE Laid(old, n, o, c)[a]
    BY DEF Laid
  <2>5. CASE a = at
    <3>1. CASE c < w
      <4>1. t = c
        BY <1>2, <2>5, <3>1
      <4>2. ~(c + 1 <= t) /\ c + 1 <= t + w
        BY <1>1, <4>1
      <4>. QED
        BY <2>2, <2>4, <2>5, <4>1, <4>2
    <3>2. CASE ~(c < w)
      <4>1. c >= t + w
        BY <1>1, <1>2, <2>5, <3>2
      <4>2. ~(c + 1 <= t) /\ ~(c + 1 <= t + w) /\ ~(c < Columns)
        BY <1>1, <2>1, <4>1
      <4>. QED
        BY <2>2, <2>4, <2>5, <4>2 DEF Chr
    <3>. QED
      BY <3>1, <3>2
  <2>6. CASE a # at
    <3>1. c # t /\ c # t + w
      BY <1>2, <2>6
    <3>. HIDE DEF t
    <3>2. (c + 1 <= t <=> c <= t) /\ (c + 1 <= t + w <=> c <= t + w)
      BY <1>1, <2>1, <3>1
    <3>. QED
      BY <2>2, <2>3, <2>4, <2>6, <3>2
  <2>. QED
    BY <2>5, <2>6
<1>4. DOMAIN m = Panel!Cell /\ m = [a \in Panel!Cell |-> m[a]]
      /\ Laid(old, n, o, c + 1) = [a \in Panel!Cell |-> Laid(old, n, o, c + 1)[a]]
  BY DEF Laid
<1>5. m = Laid(old, n, o, c + 1)
  <2>. HIDE DEF m
  <2>. QED
    BY <1>3, <1>4, Zenon
<1>. QED
  BY <1>5 DEF at, Changed

Joins(w, u, k, v, l, S) ==
  /\ w \in Seq(S) /\ Len(w) = k + l
  /\ \A i \in 1 .. k + l : w[i] = IF i <= k THEN u[i] ELSE v[i - k]

\* What concatenation yields, in terms of the lengths.
LEMMA Joined ==
  ASSUME NEW S, NEW u \in Seq(S), NEW v \in Seq(S), NEW k \in Nat, NEW l \in Nat,
         Len(u) = k, Len(v) = l
  PROVE  Joins(u \o v, u, k, v, l, S)
BY ConcatProperties DEF Joins

\* What LCD_Test sends, one by one.
Item(t, i) ==
  IF i <= 5 THEN Panel!LCD_Init[i]
  ELSE IF i <= 5 + Columns + t[1] THEN Panel!Write(Chr(1, i - 6))
  ELSE IF i = 6 + Columns + t[1] THEN Panel!Command("line 2")
  ELSE Panel!Write(Chr(2, i - (7 + Columns + t[1])))

Total(t) == 6 + (Columns + t[1]) + (Columns + t[2])

\* The set of them
Items(t) == {Item(t, i) : i \in 1 .. Total(t)}

\* LCD_Show_Text sends the characters in order.
LEMMA Sends ==
  ASSUME NEW n \in {1, 2}, tail[n] \in Nat
  PROVE  /\ Panel!LCD_Show_Text(n) = [c \in 1 .. Columns + tail[n] |-> Panel!Write(Chr(n, c - 1))]
         /\ Columns + tail[n] \in Nat
<1>1. Columns \in Nat
  BY Cells
<1>2. \A c \in 1 .. Columns + tail[n] : c <= Columns <=> c - 1 < Columns
  BY <1>1
<1>. QED
  BY <1>1, <1>2 DEF Panel!LCD_Show_Text, Chr

\* LCD_Test sends the items in order.
LEMMA Greets ==
  ASSUME tail[1] \in Nat, tail[2] \in Nat
  PROVE  /\ Total(tail) \in Nat /\ Total(tail) >= 6
         /\ Panel!LCD_Test \in Seq(Items(tail)) /\ Len(Panel!LCD_Test) = Total(tail)
         /\ \A i \in 1 .. Total(tail) : Panel!LCD_Test[i] = Item(tail, i)
<1>. DEFINE a == Panel!LCD_Init
            b == Panel!LCD_Show_Text(1)
            c == Panel!LCD_Line2
            d == Panel!LCD_Show_Text(2)
            m == Columns + tail[1]
            n == Columns + tail[2]
            B == {Panel!Write(Chr(1, i - 1)) : i \in 1 .. m}
            D == {Panel!Write(Chr(2, i - 1)) : i \in 1 .. n}
            A == {a[i] : i \in 1 .. 5}
            C == {Panel!Command("line 2")}
            U == A \cup B \cup C \cup D
<1>1. Columns \in Nat /\ m \in Nat /\ n \in Nat
  BY Cells
<1>2. b = [i \in 1 .. m |-> Panel!Write(Chr(1, i - 1))] /\ d = [i \in 1 .. n |-> Panel!Write(Chr(2, i - 1))]
  BY Sends
<1>3. b \in Seq(U) /\ Len(b) = m /\ \A i \in 1 .. m : b[i] = Panel!Write(Chr(1, i - 1))
  <2>1. b \in [1 .. m -> U]
    BY <1>2
  <2>. HIDE DEF b, U, m
  <2>. QED
    BY <1>1, <1>2, <2>1
<1>4. d \in Seq(U) /\ Len(d) = n /\ \A i \in 1 .. n : d[i] = Panel!Write(Chr(2, i - 1))
  <2>1. d \in [1 .. n -> U]
    BY <1>2
  <2>. HIDE DEF d, U, n
  <2>. QED
    BY <1>1, <1>2, <2>1
<1>5. a \in Seq(U) /\ Len(a) = 5
  <2>1. Len(a) = 5 /\ a = <<a[1], a[2], a[3], a[4], a[5]>>
    BY DEF Panel!LCD_Init
  <2>2. a[1] \in U /\ a[2] \in U /\ a[3] \in U /\ a[4] \in U /\ a[5] \in U
    OBVIOUS
  <2>. HIDE DEF a, U
  <2>3. \A x1, x2, x3, x4, x5 \in U : <<x1, x2, x3, x4, x5>> \in Seq(U)
    OBVIOUS
  <2>4. <<a[1], a[2], a[3], a[4], a[5]>> \in Seq(U)
    BY <2>2, <2>3, Zenon
  <2>. QED
    BY <2>1, <2>4, Zenon
<1>6. c \in Seq(U) /\ Len(c) = 1 /\ c[1] = Panel!Command("line 2")
  <2>1. c = <<Panel!Command("line 2")>> /\ Panel!Command("line 2") \in U
    BY DEF Panel!LCD_Line2
  <2>. HIDE DEF U, c
  <2>2. \A x \in U : <<x>> \in Seq(U) /\ Len(<<x>>) = 1 /\ <<x>>[1] = x
    OBVIOUS
  <2>. QED
    BY <2>1, <2>2, Zenon
<1>. HIDE DEF a, b, c, d, m, n, U
<1>7. /\ a \o b \in Seq(U) /\ Len(a \o b) = 5 + m
      /\ \A i \in 1 .. 5 + m : (a \o b)[i] = IF i <= 5 THEN a[i] ELSE b[i - 5]
  <2>1. 5 \in Nat /\ m \in Nat /\ a \in Seq(U) /\ b \in Seq(U) /\ Len(a) = 5 /\ Len(b) = m
    BY <1>1, <1>3, <1>5
  <2>2. Joins(a \o b, a, 5, b, m, U)
    BY <2>1, Joined
  <2>. QED
    BY <2>2, Zenon DEF Joins
<1>8. /\ a \o b \o c \in Seq(U) /\ Len(a \o b \o c) = 6 + m
      /\ \A i \in 1 .. 6 + m : (a \o b \o c)[i] = IF i <= 5 + m THEN (a \o b)[i] ELSE c[i - (5 + m)]
  <2>. DEFINE ab == a \o b
  <2>. HIDE DEF ab
  <2>1. ab \in Seq(U) /\ Len(ab) = 5 + m
    BY <1>7 DEF ab
  <2>2. 5 + m \in Nat /\ 1 \in Nat /\ (5 + m) + 1 = 6 + m
    BY <1>1
  <2>3. /\ ab \o c \in Seq(U) /\ Len(ab \o c) = (5 + m) + 1
        /\ \A i \in 1 .. (5 + m) + 1 : (ab \o c)[i] = IF i <= 5 + m THEN ab[i] ELSE c[i - (5 + m)]
    <3>1. Joins(ab \o c, ab, 5 + m, c, 1, U)
      BY <1>6, <2>1, <2>2, Joined
    <3>. QED
      BY <3>1, Zenon DEF Joins
  <2>. QED
    BY <2>2, <2>3, Zenon DEF ab
<1>9. /\ a \o b \o c \o d \in Seq(U) /\ Len(a \o b \o c \o d) = 6 + m + n
      /\ \A i \in 1 .. 6 + m + n :
           (a \o b \o c \o d)[i] = IF i <= 6 + m THEN (a \o b \o c)[i] ELSE d[i - (6 + m)]
  <2>. DEFINE abc == a \o b \o c
  <2>. HIDE DEF abc
  <2>1. abc \in Seq(U) /\ Len(abc) = 6 + m
    BY <1>8 DEF abc
  <2>2. /\ abc \o d \in Seq(U) /\ Len(abc \o d) = 6 + m + n
        /\ \A i \in 1 .. 6 + m + n : (abc \o d)[i] = IF i <= 6 + m THEN abc[i] ELSE d[i - (6 + m)]
    <3>1. 6 + m \in Nat /\ n \in Nat /\ d \in Seq(U) /\ Len(d) = n
      BY <1>1, <1>4
    <3>2. Joins(abc \o d, abc, 6 + m, d, n, U)
      BY <2>1, <3>1, Joined
    <3>. QED
      BY <3>2, Zenon DEF Joins
  <2>. QED
    BY <2>2 DEF abc
<1>. DEFINE s == Panel!LCD_Test
<1>10. s = a \o b \o c \o d
  BY DEF Panel!LCD_Test, a, b, c, d
<1>11. Total(tail) = 6 + m + n
  BY <1>1 DEF Total, m, n
<1>12. ASSUME NEW i \in 1 .. 6 + m + n
       PROVE  s[i] = Item(tail, i)
  <2>. DEFINE ab == a \o b
              abc == a \o b \o c
              abcd == a \o b \o c \o d
  <2>. HIDE DEF ab, abc, abcd
  <2>1. s[i] = IF i <= 6 + m THEN abc[i] ELSE d[i - (6 + m)]
    BY <1>9, <1>10 DEF abc, abcd
  <2>2. i <= 6 + m => abc[i] = IF i <= 5 + m THEN ab[i] ELSE c[i - (5 + m)]
    <3>1. \A j \in 1 .. 6 + m : abc[j] = IF j <= 5 + m THEN ab[j] ELSE c[j - (5 + m)]
      BY <1>8 DEF ab, abc
    <3>. QED
      BY <1>1, <3>1
  <2>3. i <= 5 + m => ab[i] = IF i <= 5 THEN a[i] ELSE b[i - 5]
    <3>1. \A j \in 1 .. 5 + m : ab[j] = IF j <= 5 THEN a[j] ELSE b[j - 5]
      BY <1>7 DEF ab
    <3>. QED
      BY <1>1, <3>1
  <2>4. /\ 5 + Columns + tail[1] = 5 + m /\ 6 + Columns + tail[1] = 6 + m
        /\ i - (7 + Columns + tail[1]) = i - (6 + m) - 1 /\ i - 6 = i - 5 - 1
    BY <1>1 DEF m
  <2>5. Item(tail, i) = IF i <= 5 THEN a[i]
                        ELSE IF i <= 5 + m THEN Panel!Write(Chr(1, i - 5 - 1))
                        ELSE IF i = 6 + m THEN Panel!Command("line 2")
                        ELSE Panel!Write(Chr(2, i - (6 + m) - 1))
    BY <2>4, Zenon DEF Item, a
  <2>6. CASE i <= 5
    <3>1. i <= 6 + m /\ i <= 5 + m
      BY <1>1, <2>6
    <3>. QED
      BY <2>1, <2>2, <2>3, <2>5, <2>6, <3>1, Zenon
  <2>7. CASE ~(i <= 5) /\ i <= 5 + m
    <3>1. i - 5 \in 1 .. m /\ i <= 6 + m
      BY <1>1, <2>7
    <3>2. b[i - 5] = Panel!Write(Chr(1, i - 5 - 1))
      BY <1>3, <3>1
    <3>. QED
      BY <2>1, <2>2, <2>3, <2>5, <2>7, <3>1, <3>2
  <2>8. CASE i = 6 + m
    <3>1. ~(i <= 5) /\ ~(i <= 5 + m) /\ i <= 6 + m /\ i - (5 + m) = 1
      BY <1>1, <2>8
    <3>. QED
      BY <1>6, <2>1, <2>2, <2>5, <2>8, <3>1
  <2>9. CASE ~(i <= 6 + m)
    <3>1. i - (6 + m) \in 1 .. n /\ ~(i <= 5) /\ ~(i <= 5 + m) /\ i # 6 + m
      BY <1>1, <2>9
    <3>2. d[i - (6 + m)] = Panel!Write(Chr(2, i - (6 + m) - 1))
      BY <1>4, <3>1
    <3>. QED
      BY <2>1, <2>5, <2>9, <3>1, <3>2
  <2>. QED
    BY <1>1, <2>6, <2>7, <2>8, <2>9
<1>. HIDE DEF s
<1>13. s \in Seq(Items(tail))
  <2>1. s \in Seq(U) /\ Len(s) = 6 + m + n
    BY <1>9, <1>10
  <2>2. s \in [1 .. 6 + m + n -> Items(tail)]
    <3>1. s = [i \in 1 .. 6 + m + n |-> s[i]]
      BY <2>1
    <3>2. \A i \in 1 .. 6 + m + n : s[i] \in Items(tail)
      BY <1>11, <1>12 DEF Items
    <3>. QED
      BY <3>1, <3>2
  <2>. QED
    BY <1>1, <2>2
<1>14. 6 + m + n \in Nat /\ 6 + m + n >= 6
  BY <1>1
<1>15. Len(s) = 6 + m + n
  BY <1>9, <1>10, Zenon
<1>. QED
  BY <1>11, <1>12, <1>13, <1>14, <1>15, Zenon DEF s

Clear == [a \in Panel!Cell |-> Panel!Blank]

\* The panel after k of the items.
Memory(t, k) ==
  IF k <= 5 THEN Clear
  ELSE IF k <= 5 + Columns + t[1] THEN Laid(Clear, 1, 0, k - 5)
  ELSE Laid(Laid(Clear, 1, 0, Columns + t[1]), 2, Row, k - (6 + Columns + t[1]))

Pointer(t, k) ==
  IF k <= 5 THEN 0
  ELSE IF k <= 5 + Columns + t[1] THEN (0 + (k - 5)) % (2 * Row)
  ELSE (Row + (k - (6 + Columns + t[1]))) % (2 * Row)

\* A text of which nothing has been sent changes nothing.
LEMMA LaidNone ==
  ASSUME NEW old, NEW n, NEW o \in Panel!Cell, old = [a \in Panel!Cell |-> old[a]]
  PROVE  Laid(old, n, o, 0) = old
<1>1. \A a \in Panel!Cell : Turn(o, a) \in 0 .. 2 * Row - 1
  BY Turns
<1>2. \A a \in Panel!Cell : 0 <= Turn(o, a)
  BY <1>1, Cells
<1>. QED
  BY <1>2, Zenon DEF Laid

\* One character and the address after it.
LEMMA Advance ==
  ASSUME NEW n \in {1, 2}, NEW o \in Panel!Cell, NEW c \in Nat, NEW old,
         ddram = Laid(old, n, o, c), address = (o + c) % (2 * Row),
         ddram' = [ddram EXCEPT ![address] = Chr(n, c)],
         address' = (address + 1) % (2 * Row)
  PROVE  ddram' = Laid(old, n, o, c + 1) /\ address' = (o + (c + 1)) % (2 * Row)
<1>1. ddram' = Laid(old, n, o, c + 1)
  <2>1. ddram' = Changed(Laid(old, n, o, c), (o + c) % (2 * Row), Chr(n, c))
    BY Zenon DEF Changed
  <2>2. Changed(Laid(old, n, o, c), (o + c) % (2 * Row), Chr(n, c)) = Laid(old, n, o, c + 1)
    BY OneMore
  <2>. QED
    BY <2>1, <2>2, Zenon
<1>. DEFINE w == 2 * Row
            s == o + c
<1>2. w \in Nat \ {0} /\ s \in Nat /\ s + 1 = o + (c + 1)
  BY Cells
<1>3. address' = ((s % w) + 1) % w
  BY Zenon
<1>. HIDE DEF w, s
<1>4. ((s % w) + 1) % w = (s + 1) % w
  BY <1>2, Successor, Zenon
<1>5. address' = (o + (c + 1)) % w
  BY <1>2, <1>3, <1>4, Zenon
<1>. QED
  BY <1>1, <1>5 DEF w

\* Commands and characters are told apart by their field.
LEMMA Writes ==
  ASSUME NEW ch, NEW name
  PROVE  /\ "cmd" \notin DOMAIN Panel!Write(ch) /\ Panel!Write(ch).char = ch
         /\ "cmd" \in DOMAIN Panel!Command(name) /\ Panel!Command(name).cmd = name
BY DEF Panel!Write, Panel!Command

\* The first five items are commands that leave an empty panel.
LEMMA Starts ==
  ASSUME NEW i \in 1 .. 5
  PROVE  \E name \in {"function", "on", "clear", "mode", "line 1"} :
           Panel!LCD_Init[i] = Panel!Command(name)
<1>1. i = 1 \/ i = 2 \/ i = 3 \/ i = 4 \/ i = 5
  OBVIOUS
<1>2. /\ Panel!LCD_Init[1] = Panel!Command("function") /\ Panel!LCD_Init[2] = Panel!Command("on")
      /\ Panel!LCD_Init[3] = Panel!Command("clear") /\ Panel!LCD_Init[4] = Panel!Command("mode")
      /\ Panel!LCD_Init[5] = Panel!Command("line 1")
  BY DEF Panel!LCD_Init
<1>. QED
  BY <1>1, <1>2, Zenon

\* Sending the next item takes the panel to its next state.
LEMMA SendStep ==
  ASSUME Panel!LcdStep, tail[1] \in Nat, tail[2] \in Nat, NEW k \in Nat, k < Total(tail),
         Head(todo) = Item(tail, k + 1), ddram = Memory(tail, k), address = Pointer(tail, k)
  PROVE  ddram' = Memory(tail, k + 1) /\ address' = Pointer(tail, k + 1)
<1>. DEFINE m == Columns + tail[1]
            w == 2 * Row
            e == Head(todo)
<1>1. /\ m \in Nat /\ m > 0 /\ 5 + Columns + tail[1] = 5 + m /\ 6 + Columns + tail[1] = 6 + m
      /\ 7 + Columns + tail[1] = 7 + m /\ (k + 1) - (7 + m) = k - (6 + m) /\ (k + 1) - 6 = k - 5
      /\ (k + 1) - (6 + m) = (k - (6 + m)) + 1 /\ (k + 1) - 5 = (k - 5) + 1
  <2>1. \A a, b \in Nat : a > 0 =>
          /\ a + b \in Nat /\ a + b > 0 /\ 5 + a + b = 5 + (a + b) /\ 6 + a + b = 6 + (a + b)
          /\ 7 + a + b = 7 + (a + b) /\ (k + 1) - (7 + (a + b)) = k - (6 + (a + b)) /\ (k + 1) - 6 = k - 5
          /\ (k + 1) - (6 + (a + b)) = (k - (6 + (a + b))) + 1 /\ (k + 1) - 5 = (k - 5) + 1
    OBVIOUS
  <2>. QED
    BY <2>1, Cells, Zenon
<1>2. w \in Nat \ {0} /\ Row \in 0 .. w - 1 /\ 0 \in Panel!Cell /\ Row \in Panel!Cell
  BY Cells
<1>3. /\ "cmd" \in DOMAIN e => Panel!Obey(e.cmd)
      /\ "cmd" \notin DOMAIN e => /\ ddram' = [ddram EXCEPT ![address] = e.char]
                                  /\ address' = (address + 1) % w
  BY Zenon DEF Panel!LcdStep
<1>. DEFINE mem(i) == IF i <= 5 THEN Clear ELSE IF i <= 5 + m THEN Laid(Clear, 1, 0, i - 5)
                      ELSE Laid(Laid(Clear, 1, 0, m), 2, Row, i - (6 + m))
            ptr(i) == IF i <= 5 THEN 0 ELSE IF i <= 5 + m THEN (0 + (i - 5)) % w
                      ELSE (Row + (i - (6 + m))) % w
            itm(i) == IF i <= 5 THEN Panel!LCD_Init[i]
                      ELSE IF i <= 5 + m THEN Panel!Write(Chr(1, i - 6))
                      ELSE IF i = 6 + m THEN Panel!Command("line 2")
                      ELSE Panel!Write(Chr(2, i - (7 + m)))
<1>4. \A i : Memory(tail, i) = mem(i) /\ Pointer(tail, i) = ptr(i) /\ Item(tail, i) = itm(i)
  BY <1>1, Zenon DEF Memory, Pointer, Item
<1>5. e = itm(k + 1) /\ ddram = mem(k) /\ address = ptr(k)
  BY <1>4, Zenon
<1>. SUFFICES ddram' = mem(k + 1) /\ address' = ptr(k + 1)
  BY <1>4, Zenon
<1>6. CASE k + 1 <= 5
  <2>1. k <= 5 /\ k + 1 \in 1 .. 5
    BY <1>6
  <2>2. ddram = Clear /\ address = 0 /\ mem(k + 1) = Clear /\ ptr(k + 1) = 0
        /\ e = Panel!LCD_Init[k + 1]
    BY <1>5, <1>6, <2>1, Zenon
  <2>3. PICK name \in {"function", "on", "clear", "mode", "line 1"} : e = Panel!Command(name)
    BY <2>1, <2>2, Starts
  <2>4. Panel!Obey(name)
    BY <1>3, <2>3, Writes, Zenon
  <2>5. ddram' = Clear /\ address' = 0
    BY <2>2, <2>4 DEF Panel!Obey, Clear
  <2>. QED
    BY <2>2, <2>5
<1>7. CASE ~(k + 1 <= 5) /\ k + 1 <= 5 + m
  <2>1. k - 5 \in Nat /\ k <= 5 + m
    BY <1>1, <1>7
  <2>2. e = Panel!Write(Chr(1, k - 5))
    <3>1. e = Panel!Write(Chr(1, (k + 1) - 6))
      <4>1. itm(k + 1) = Panel!Write(Chr(1, (k + 1) - 6))
        BY <1>7
      <4>. HIDE DEF itm
      <4>. QED
        BY <1>5, <4>1
    <3>2. (k + 1) - 6 = k - 5
      OBVIOUS
    <3>. QED
      BY <3>1, <3>2, Zenon
  <2>3. mem(k + 1) = Laid(Clear, 1, 0, (k - 5) + 1) /\ ptr(k + 1) = (0 + ((k - 5) + 1)) % w
    BY <1>1, <1>7, Zenon
  <2>4. ddram = Laid(Clear, 1, 0, k - 5) /\ address = (0 + (k - 5)) % w
    <3>1. CASE k <= 5
      <4>1. k - 5 = 0
        BY <2>1, <3>1
      <4>2. Laid(Clear, 1, 0, 0) = Clear
        <5>1. Clear = [a \in Panel!Cell |-> Clear[a]]
          BY DEF Clear
        <5>. QED
          BY <1>2, <5>1, LaidNone
      <4>3. (0 + 0) % w = 0
        <5>1. 0 \in 0 .. w - 1 /\ 0 + 0 = 0
          BY <1>2
        <5>. HIDE DEF w
        <5>. QED
          BY <1>2, <5>1, Remainders, Zenon
      <4>4. ddram = Clear /\ address = 0
        BY <1>5, <3>1, Zenon
      <4>. QED
        BY <4>1, <4>2, <4>3, <4>4, Zenon
    <3>2. CASE ~(k <= 5)
      BY <1>5, <2>1, <3>2, Zenon
    <3>. QED
      BY <3>1, <3>2
  <2>5. ddram' = [ddram EXCEPT ![address] = Chr(1, k - 5)] /\ address' = (address + 1) % w
    BY <1>3, <2>2, Writes, Zenon
  <2>6. ddram' = Laid(Clear, 1, 0, (k - 5) + 1) /\ address' = (0 + ((k - 5) + 1)) % w
    <3>. DEFINE c == k - 5
    <3>1. c \in Nat /\ ddram = Laid(Clear, 1, 0, c) /\ address = (0 + c) % w
          /\ ddram' = [ddram EXCEPT ![address] = Chr(1, c)] /\ address' = (address + 1) % w
      BY <2>1, <2>4, <2>5
    <3>. HIDE DEF c
    <3>2. ddram' = Laid(Clear, 1, 0, c + 1) /\ address' = (0 + (c + 1)) % w
      BY <1>2, <3>1, Advance
    <3>. QED
      BY <3>2 DEF c
  <2>. QED
    BY <2>3, <2>6, Zenon
<1>8. CASE k = 5 + m
  <2>1. /\ k <= 5 + m /\ ~(k <= 5) /\ k - 5 = m /\ k + 1 = 6 + m /\ ~(k + 1 <= 5)
        /\ ~(k + 1 <= 5 + m) /\ (k + 1) - (6 + m) = 0
    BY <1>1, <1>8
  <2>2. e = Panel!Command("line 2") /\ ddram = Laid(Clear, 1, 0, m)
    BY <1>5, <2>1, Zenon
  <2>3. mem(k + 1) = Laid(Laid(Clear, 1, 0, m), 2, Row, 0) /\ ptr(k + 1) = (Row + 0) % w
    BY <2>1, Zenon
  <2>4. Panel!Obey("line 2")
    BY <1>3, <2>2, Writes, Zenon
  <2>5. ddram' = ddram /\ address' = Row
    BY <2>4 DEF Panel!Obey
  <2>6. Laid(Laid(Clear, 1, 0, m), 2, Row, 0) = Laid(Clear, 1, 0, m)
    <3>. DEFINE old == Laid(Clear, 1, 0, m)
    <3>1. old = [a \in Panel!Cell |-> old[a]]
      BY DEF Laid
    <3>. HIDE DEF old
    <3>2. Laid(old, 2, Row, 0) = old
      BY <1>2, <3>1, LaidNone
    <3>. QED
      BY <3>2 DEF old
  <2>7. (Row + 0) % w = Row
    <3>1. Row + 0 = Row
      BY <1>2
    <3>. HIDE DEF w
    <3>. QED
      BY <1>2, <3>1, Remainders, Zenon
  <2>. QED
    BY <2>2, <2>3, <2>5, <2>6, <2>7, Zenon
<1>9. CASE ~(k <= 5 + m)
  <2>1. /\ ~(k <= 5) /\ ~(k + 1 <= 5) /\ ~(k + 1 <= 5 + m) /\ k + 1 # 6 + m /\ k - (6 + m) \in Nat
    BY <1>1, <1>9
  <2>. DEFINE old == Laid(Clear, 1, 0, m)
              c == k - (6 + m)
  <2>2. e = Panel!Write(Chr(2, c)) /\ ddram = Laid(old, 2, Row, c) /\ address = (Row + c) % w
    <3>1. e = Panel!Write(Chr(2, (k + 1) - (7 + m)))
      <4>1. itm(k + 1) = Panel!Write(Chr(2, (k + 1) - (7 + m)))
        BY <2>1
      <4>. HIDE DEF itm
      <4>. QED
        BY <1>5, <4>1
    <3>2. (k + 1) - (7 + m) = c
      BY <1>1, Zenon
    <3>3. e = Panel!Write(Chr(2, c))
      BY <3>1, <3>2, Zenon
    <3>. QED
      BY <1>5, <1>9, <2>1, <3>3, Zenon
  <2>3. mem(k + 1) = Laid(old, 2, Row, c + 1) /\ ptr(k + 1) = (Row + (c + 1)) % w
    BY <1>1, <2>1, Zenon
  <2>4. ddram' = [ddram EXCEPT ![address] = Chr(2, c)] /\ address' = (address + 1) % w
    BY <1>3, <2>2, Writes, Zenon
  <2>. HIDE DEF old, c, mem, ptr, itm
  <2>5. c \in Nat
    BY <2>1 DEF c
  <2>6. ddram' = Laid(old, 2, Row, c + 1) /\ address' = (Row + (c + 1)) % w
    BY <1>2, <2>2, <2>4, <2>5, Advance
  <2>. QED
    BY <2>3, <2>6, Zenon
<1>10. k + 1 <= 5 + m \/ k = 5 + m \/ ~(k <= 5 + m)
  BY <1>1
<1>. QED
  BY <1>6, <1>7, <1>8, <1>9, <1>10, Zenon

\* What is still to be sent, and what the panel holds.
Sent ==
  /\ tail[1] \in Nat /\ tail[2] \in Nat
  /\ \E k \in 0 .. Total(tail) :
       /\ todo \in Seq(Items(tail)) /\ Len(todo) = Total(tail) - k
       /\ \A j \in 1 .. Total(tail) - k : todo[j] = Item(tail, k + j)
       /\ ddram = Memory(tail, k) /\ address = Pointer(tail, k)

LEMMA SentInit == Panel!Init => Sent
<1>. SUFFICES ASSUME Panel!Init
              PROVE  Sent
  OBVIOUS
<1>1. tail[1] \in Nat /\ tail[2] \in Nat
  BY PanelAssumption DEF Panel!Init
<1>2. todo = Panel!LCD_Test /\ ddram = Clear /\ address = 0
  BY DEF Panel!Init, Clear
<1>3. /\ Total(tail) \in Nat /\ todo \in Seq(Items(tail)) /\ Len(todo) = Total(tail)
      /\ \A i \in 1 .. Total(tail) : todo[i] = Item(tail, i)
  BY <1>1, <1>2, Greets
<1>4. 0 \in 0 .. Total(tail) /\ Total(tail) - 0 = Total(tail)
      /\ \A i \in 1 .. Total(tail) : 0 + i = i
  BY <1>3
<1>5. Memory(tail, 0) = Clear /\ Pointer(tail, 0) = 0
  BY DEF Memory, Pointer
<1>. QED
  BY <1>1, <1>2, <1>3, <1>4, <1>5, Zenon DEF Sent

LEMMA SentStep == Sent /\ [BoardNext]_boardVars => Sent'
<1>. SUFFICES ASSUME Sent, [BoardNext]_boardVars
              PROVE  Sent'
  OBVIOUS
<1>1. CASE Panel!LcdStep
  <2>1. PICK k \in 0 .. Total(tail) :
          /\ todo \in Seq(Items(tail)) /\ Len(todo) = Total(tail) - k
          /\ \A j \in 1 .. Total(tail) - k : todo[j] = Item(tail, k + j)
          /\ ddram = Memory(tail, k) /\ address = Pointer(tail, k)
    BY DEF Sent
  <2>2. todo # <<>> /\ todo' = Tail(todo) /\ tail' = tail
    BY <1>1 DEF Panel!LcdStep
  <2>3. tail[1] \in Nat /\ tail[2] \in Nat
    BY DEF Sent
  <2>4. Total(tail) \in Nat
    BY <2>3, Greets
  <2>. DEFINE n == Total(tail)
              S == Items(tail)
  <2>5. todo \in Seq(S) /\ Len(todo) = n - k /\ n \in Nat /\ k \in 0 .. n
    BY <2>1, <2>4
  <2>. HIDE DEF n, S
  <2>6. /\ Len(todo) \in Nat /\ Len(todo) > 0 /\ Tail(todo) \in Seq(S) /\ Len(Tail(todo)) = Len(todo) - 1
        /\ Head(todo) = todo[1] /\ \A j \in 1 .. Len(todo) - 1 : Tail(todo)[j] = todo[j + 1]
    BY <2>2, <2>5
  <2>7. k \in Nat /\ k < n /\ k + 1 \in 0 .. n /\ n - k \in Nat /\ 1 \in 1 .. n - k
        /\ n - (k + 1) = (n - k) - 1
    BY <2>5, <2>6
  <2>8. Head(todo) = Item(tail, k + 1)
    BY <2>1, <2>6, <2>7 DEF n
  <2>9. ddram' = Memory(tail, k + 1) /\ address' = Pointer(tail, k + 1)
    BY <1>1, <2>1, <2>3, <2>7, <2>8, SendStep DEF n
  <2>10. ASSUME NEW j \in 1 .. n - (k + 1)
         PROVE  Tail(todo)[j] = Item(tail, (k + 1) + j)
    <3>1. j + 1 \in 1 .. n - k /\ j \in 1 .. Len(todo) - 1 /\ k + (j + 1) = (k + 1) + j
      BY <2>5, <2>7
    <3>2. todo[j + 1] = Item(tail, k + (j + 1))
      BY <2>1, <3>1 DEF n
    <3>. QED
      BY <2>6, <3>1, <3>2
  <2>11. Tail(todo) \in Seq(Items(tail)) /\ Len(Tail(todo)) = n - (k + 1)
    BY <2>5, <2>6, <2>7 DEF S
  <2>. QED
    BY <2>2, <2>3, <2>7, <2>9, <2>10, <2>11, Zenon DEF Sent, n
<1>2. CASE ~Panel!LcdStep
  <2>1. UNCHANGED <<tail, todo, ddram, address>>
    BY <1>2 DEF BoardNext, Greet, Poll, MoveAndShow, ShowDigit, RestOfPass, Panel!ShowPosition,
                Panel!SEG7_Hex, Panel!lcd, boardVars, panelVars
  <2>. QED
    BY <2>1, Zenon DEF Sent
<1>. QED
  BY <1>1, <1>2

\* Laying a text over a memory keeps its type.
LEMMA LaidTyped ==
  ASSUME NEW old, NEW n \in {1, 2}, NEW o \in Panel!Cell, NEW c \in Nat,
         NEW V, \A a \in Panel!Cell : old[a] \in V, Panel!Junk \in V, Columns .. 3 * Columns - 1 \subseteq V
  PROVE  \A a \in Panel!Cell : Laid(old, n, o, c)[a] \in V
<1>. SUFFICES ASSUME NEW a \in Panel!Cell
              PROVE  Laid(old, n, o, c)[a] \in V
  OBVIOUS
<1>. DEFINE t == Turn(o, a)
<1>1. t \in Nat
  <2>1. t \in 0 .. 2 * Row - 1
    BY Turns
  <2>. QED
    BY <2>1, Cells
<1>2. Laid(old, n, o, c)[a] = IF c <= t THEN old[a] ELSE IF c <= t + 2 * Row THEN Chr(n, t) ELSE Panel!Junk
  BY DEF Laid
<1>. HIDE DEF t
<1>3. Chr(n, t) \in V
  <2>1. CASE t < Columns
    <3>1. \A w \in Nat : t < w => 1 * w + t \in w .. 3 * w - 1 /\ 2 * w + t \in w .. 3 * w - 1
      BY <1>1
    <3>2. 1 * Columns + t \in Columns .. 3 * Columns - 1 /\ 2 * Columns + t \in Columns .. 3 * Columns - 1
      BY <2>1, <3>1, Cells
    <3>3. Panel!Letter(n, t) = n * Columns + t
      BY DEF Panel!Letter
    <3>4. Panel!Letter(n, t) \in Columns .. 3 * Columns - 1
      BY <3>2, <3>3
    <3>. QED
      BY <2>1, <3>4, Zenon DEF Chr
  <2>. QED
    BY <2>1 DEF Chr
<1>. QED
  BY <1>2, <1>3

\* The panel and the digits hold values of their types.
LEMMA PanelTyped ==
  ASSUME Sent, Counting
  PROVE  Panel!TypeOK
<1>1. PICK k \in 0 .. Total(tail) : ddram = Memory(tail, k) /\ address = Pointer(tail, k)
  BY DEF Sent
<1>2. tail[1] \in Nat /\ tail[2] \in Nat /\ Columns \in Nat /\ Row \in Nat /\ Row > 0
  BY Cells DEF Sent
<1>3. k \in Nat
  BY <1>2, Greets
<1>. DEFINE m == Columns + tail[1]
            w == 2 * Row
            V == {Panel!Blank, Panel!Junk} \cup (Columns .. 3 * Columns - 1)
<1>4. m \in Nat /\ 5 + Columns + tail[1] = 5 + m /\ 6 + Columns + tail[1] = 6 + m
  BY <1>2
<1>5. 0 \in Panel!Cell /\ Row \in Panel!Cell /\ Panel!Cell = 0 .. w - 1 /\ w \in Nat \ {0}
  BY <1>2, Cells
<1>6. /\ k <= 5 => ddram = Clear /\ address = 0
      /\ ~(k <= 5) /\ k <= 5 + m => ddram = Laid(Clear, 1, 0, k - 5) /\ address = (0 + (k - 5)) % w
      /\ ~(k <= 5) /\ ~(k <= 5 + m) =>
           /\ ddram = Laid(Laid(Clear, 1, 0, m), 2, Row, k - (6 + m))
           /\ address = (Row + (k - (6 + m))) % w
  BY <1>1, <1>4, Zenon DEF Memory, Pointer
<1>. HIDE DEF m
<1>7. (~(k <= 5) => k - 5 \in Nat) /\ (~(k <= 5 + m) => k - (6 + m) \in Nat)
  BY <1>3, <1>4
<1>8. \A i \in Nat : (0 + i) % w \in Panel!Cell /\ (Row + i) % w \in Panel!Cell
  BY <1>5, Turns
<1>9. address \in Panel!Cell
  BY <1>5, <1>6, <1>7, <1>8, Zenon
<1>10. Panel!Junk \in V /\ Columns .. 3 * Columns - 1 \subseteq V
  OBVIOUS
<1>11. \A a \in Panel!Cell : Clear[a] \in V
  BY DEF Clear
<1>. HIDE DEF V
<1>12. \A c \in Nat : \A a \in Panel!Cell : Laid(Clear, 1, 0, c)[a] \in V
  BY <1>5, <1>10, <1>11, LaidTyped
<1>13. \A c \in Nat : \A a \in Panel!Cell : Laid(Laid(Clear, 1, 0, m), 2, Row, c)[a] \in V
  <2>. DEFINE old == Laid(Clear, 1, 0, m)
  <2>1. \A a \in Panel!Cell : old[a] \in V
    BY <1>4, <1>12
  <2>. HIDE DEF old
  <2>2. \A c \in Nat : \A a \in Panel!Cell : Laid(old, 2, Row, c)[a] \in V
    BY <1>5, <1>10, <2>1, LaidTyped
  <2>. QED
    BY <2>2 DEF old
<1>14. \A a \in Panel!Cell : ddram[a] \in V
  <2>1. CASE k <= 5
    BY <1>6, <1>11, <2>1
  <2>2. CASE ~(k <= 5) /\ k <= 5 + m
    BY <1>6, <1>7, <1>12, <2>2
  <2>3. CASE ~(k <= 5) /\ ~(k <= 5 + m)
    BY <1>6, <1>7, <1>13, <2>3
  <2>. QED
    BY <2>1, <2>2, <2>3
<1>. QED
  BY <1>9, <1>14 DEF Panel!TypeOK, Counting, V

\* What became of the two texts, once both have been sent.
LEMMA RowsHold ==
  ASSUME Sent, todo = <<>>, NEW c \in 0 .. Columns - 1
  PROVE  /\ Panel!Visible(1)[c] = IF tail[2] + Columns <= c + Row /\ tail[1] + Columns <= c + 2 * Row
                                  THEN Panel!Letter(1, c) ELSE Panel!Junk
         /\ Panel!Visible(2)[c] = IF tail[2] + Columns <= c + 2 * Row
                                  THEN Panel!Letter(2, c) ELSE Panel!Junk
<1>. DEFINE m == Columns + tail[1]
            n == Columns + tail[2]
            w == 2 * Row
<1>1. /\ tail[1] \in Nat /\ tail[2] \in Nat /\ Columns \in Nat /\ Row \in Nat /\ Row > 0
      /\ Columns <= Row /\ Columns > 0
  BY Cells DEF Sent
<1>2. PICK k \in 0 .. Total(tail) : Len(todo) = Total(tail) - k /\ ddram = Memory(tail, k)
  BY DEF Sent
<1>3. Total(tail) \in Nat /\ Total(tail) = (6 + m) + n
  BY <1>1, Greets DEF Total
<1>4. k = (6 + m) + n
  <2>1. Len(todo) = 0
    OBVIOUS
  <2>. DEFINE N == Total(tail)
  <2>2. N \in Nat /\ k \in 0 .. N /\ 0 = N - k
    BY <1>2, <1>3, <2>1
  <2>. HIDE DEF N
  <2>3. k = N
    BY <2>2
  <2>. QED
    BY <1>3, <2>3, Zenon DEF N
<1>5. m \in Nat /\ n \in Nat /\ m >= Columns /\ n >= Columns /\ m > 0
      /\ 5 + Columns + tail[1] = 5 + m /\ 6 + Columns + tail[1] = 6 + m
      /\ m = tail[1] + Columns /\ n = tail[2] + Columns
  <2>1. \A a, b \in Nat : a > 0 =>
          /\ a + b \in Nat /\ a + b >= a /\ a + b > 0 /\ a + b = b + a
          /\ 5 + a + b = 5 + (a + b) /\ 6 + a + b = 6 + (a + b)
    OBVIOUS
  <2>. QED
    BY <1>1, <2>1, Zenon
<1>. DEFINE old == Laid(Clear, 1, 0, m)
<1>6. ddram = Laid(old, 2, Row, n)
  <2>1. ~(k <= 5) /\ ~(k <= 5 + m) /\ k - (6 + m) = n
    BY <1>4, <1>5
  <2>. QED
    BY <1>2, <1>5, <2>1, Zenon DEF Memory
<1>7. c \in Panel!Cell /\ Row + c \in Panel!Cell /\ c \in Nat /\ c < Columns
  BY <1>1, Cells
<1>8. Turn(Row, c) = c + Row /\ Turn(Row, Row + c) = c /\ Turn(0, c) = c
  <2>1. \A a, b \in Nat : b < a =>
          ~(a <= b) /\ b - a + 2 * a = b + a /\ a <= a + b /\ (a + b) - a = b /\ 0 <= b /\ b - 0 = b
    OBVIOUS
  <2>2. ~(Row <= c) /\ c - Row + 2 * Row = c + Row /\ Row <= Row + c /\ (Row + c) - Row = c
        /\ 0 <= c /\ c - 0 = c
    <3>1. c < Row /\ c \in Nat
      BY <1>1, <1>7
    <3>. QED
      BY <1>1, <2>1, <3>1
  <2>. QED
    BY <2>2, Zenon DEF Turn
<1>9. old[c] = IF m <= c THEN Clear[c] ELSE IF m <= c + w THEN Chr(1, c) ELSE Panel!Junk
  BY <1>7, <1>8 DEF Laid
<1>10. ddram[c] = IF n <= c + Row THEN old[c] ELSE IF n <= c + Row + w THEN Chr(2, c + Row) ELSE Panel!Junk
  <2>. HIDE DEF old
  <2>. QED
    BY <1>6, <1>7, <1>8 DEF Laid
<1>11. ddram[Row + c] = IF n <= c THEN old[Row + c] ELSE IF n <= c + w THEN Chr(2, c) ELSE Panel!Junk
  <2>. HIDE DEF old
  <2>. QED
    BY <1>6, <1>7, <1>8 DEF Laid
<1>12. Chr(1, c) = Panel!Letter(1, c) /\ Chr(2, c) = Panel!Letter(2, c) /\ Chr(2, c + Row) = Panel!Junk
  <2>1. c < Columns /\ ~(c + Row < Columns)
    BY <1>1, <1>7
  <2>. QED
    BY <2>1, Zenon DEF Chr
<1>13. ~(m <= c) /\ ~(n <= c)
  <2>. HIDE DEF m, n
  <2>1. \A a, b, d \in Nat : a < b /\ d >= b => ~(d <= a)
    OBVIOUS
  <2>. QED
    BY <1>1, <1>5, <1>7, <2>1
<1>14. Panel!Visible(1)[c] = ddram[c] /\ Panel!Visible(2)[c] = ddram[Row + c]
  <2>1. (1 - 1) * Row + c = c /\ (2 - 1) * Row + c = Row + c
    BY <1>1, <1>7
  <2>2. Panel!Visible(1)[c] = ddram[(1 - 1) * Row + c] /\ Panel!Visible(2)[c] = ddram[(2 - 1) * Row + c]
    BY DEF Panel!Visible
  <2>. QED
    BY <2>1, <2>2, Zenon
<1>. HIDE DEF m, n, w, old
<1>15. ddram[c] = IF n <= c + Row /\ m <= c + w THEN Panel!Letter(1, c) ELSE Panel!Junk
  BY <1>9, <1>10, <1>12, <1>13, Zenon
<1>16. ddram[Row + c] = IF n <= c + w THEN Panel!Letter(2, c) ELSE Panel!Junk
  BY <1>11, <1>12, <1>13, Zenon
<1>. QED
  BY <1>5, <1>14, <1>15, <1>16, Zenon DEF w

(* The greeting stays as it was sent exactly when the characters found     *)
(* behind the texts do not reach a visible cell.                           *)
THEOREM GreetingCorrect == BoardSpec => []GreetingSurvives
<1>1. ASSUME Sent, Counting
      PROVE  GreetingSurvives
  <2>1. Panel!TypeOK
    BY <1>1, PanelTyped
  <2>2. ASSUME todo = <<>>
        PROVE  (\A n \in 1 .. 2 : Panel!Visible(n) = Panel!Greeting(n))
                 <=> tail[1] + Columns <= 2 * Row /\ tail[2] + Columns <= Row
    <3>1. /\ tail[1] \in Nat /\ tail[2] \in Nat /\ Columns \in Nat /\ Row \in Nat /\ Columns > 0
          /\ 0 \in 0 .. Columns - 1 /\ tail[1] + Columns \in Nat /\ tail[2] + Columns \in Nat
      BY <1>1, Cells DEF Sent
    <3>2. ASSUME tail[1] + Columns <= 2 * Row, tail[2] + Columns <= Row
          PROVE  \A n \in 1 .. 2 : Panel!Visible(n) = Panel!Greeting(n)
      <4>1. ASSUME NEW c \in 0 .. Columns - 1
            PROVE  Panel!Visible(1)[c] = Panel!Letter(1, c) /\ Panel!Visible(2)[c] = Panel!Letter(2, c)
        <5>1. tail[2] + Columns <= c + Row /\ tail[1] + Columns <= c + 2 * Row
              /\ tail[2] + Columns <= c + 2 * Row
          BY <3>1, <3>2
        <5>. QED
          BY <1>1, <2>2, <5>1, RowsHold
      <4>2. \A n \in 1 .. 2 : Panel!Visible(n) = [c \in 0 .. Columns - 1 |-> Panel!Visible(n)[c]]
        BY DEF Panel!Visible
      <4>3. \A n \in 1 .. 2 : Panel!Greeting(n) = [c \in 0 .. Columns - 1 |-> Panel!Letter(n, c)]
        BY DEF Panel!Greeting
      <4>4. \A n \in 1 .. 2 : n = 1 \/ n = 2
        OBVIOUS
      <4>5. Panel!Visible(1) = Panel!Greeting(1) /\ Panel!Visible(2) = Panel!Greeting(2)
        <5>1. [c \in 0 .. Columns - 1 |-> Panel!Visible(1)[c]] = [c \in 0 .. Columns - 1 |-> Panel!Letter(1, c)]
          BY <4>1, Zenon
        <5>2. [c \in 0 .. Columns - 1 |-> Panel!Visible(2)[c]] = [c \in 0 .. Columns - 1 |-> Panel!Letter(2, c)]
          BY <4>1, Zenon
        <5>3. 1 \in 1 .. 2 /\ 2 \in 1 .. 2
          OBVIOUS
        <5>. QED
          BY <4>2, <4>3, <5>1, <5>2, <5>3, Zenon
      <4>. QED
        BY <4>4, <4>5
    <3>3. ASSUME \A n \in 1 .. 2 : Panel!Visible(n) = Panel!Greeting(n)
          PROVE  tail[1] + Columns <= 2 * Row /\ tail[2] + Columns <= Row
      <4>1. Panel!Visible(1)[0] = Panel!Letter(1, 0)
        <5>1. Panel!Greeting(1)[0] = Panel!Letter(1, 0)
          BY <3>1 DEF Panel!Greeting
        <5>2. 1 \in 1 .. 2
          OBVIOUS
        <5>. QED
          BY <3>3, <5>1, <5>2, Zenon
      <4>2. Panel!Letter(1, 0) # Panel!Junk
        BY <3>1 DEF Panel!Letter, Panel!Junk
      <4>3. Panel!Visible(1)[0] = IF tail[2] + Columns <= 0 + Row /\ tail[1] + Columns <= 0 + 2 * Row
                                  THEN Panel!Letter(1, 0) ELSE Panel!Junk
        BY <1>1, <2>2, <3>1, RowsHold
      <4>4. 0 + Row = Row /\ 0 + 2 * Row = 2 * Row
        BY <3>1
      <4>. QED
        BY <4>1, <4>2, <4>3, <4>4, Zenon
    <3>. QED
      BY <3>2, <3>3
  <2>. QED
    BY <2>1, <2>2 DEF GreetingSurvives
<1>2. PassInv => Counting
  BY DEF PassInv
<1>3. BoardInit => Sent
  BY SentInit DEF BoardInit
<1>. QED
  BY <1>1, <1>2, <1>3, PassInit, PassStep, SentStep, PTL DEF BoardSpec

=============================================================================
