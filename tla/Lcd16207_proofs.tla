-------------------------- MODULE Lcd16207_proofs --------------------------
(***************************************************************************)
(* The panel shows the text, for every size of panel and lines, whatever   *)
(* the program writes and whenever the alarm interrupts it or the panel    *)
(* stops answering.                                                        *)
(***************************************************************************)
EXTENDS Lcd16207, WellFoundedInduction, TLAPS

----------------------------------------------------------------------------
(* Induction over the naturals *)

\* Every set of naturals that is not empty has a least element.
LEMMA NatMin ==
  ASSUME NEW T \in SUBSET Nat, T # {}
  PROVE  \E m \in T : \A k \in T : m <= k
<1>. DEFINE Below == {p \in Nat \X Nat : p[1] < p[2]}
<1>1. IsWellFoundedOn(Below, Nat)
  BY NatLessThanWellFounded DEF OpToRel
<1>2. PICK m \in T : \A k \in T : ~(<<k, m>> \in Below)
  BY <1>1, WFMin
<1>3. ASSUME NEW k \in T
      PROVE  m <= k
  <2>1. k \in Nat /\ m \in Nat /\ ~(<<k, m>> \in Below)
    BY <1>2, <1>3
  <2>2. <<k, m>> \in Nat \X Nat /\ <<k, m>>[1] = k /\ <<k, m>>[2] = m
    BY <2>1
  <2>3. ~(k < m)
    BY <2>1, <2>2
  <2>. QED
    BY <2>1, <2>3
<1>. QED
  BY <1>3

\* A set that holds 0, and n + 1 with each n below m, holds all up to m.
LEMMA Induction ==
  ASSUME NEW m \in Nat, NEW T, 0 \in T,
         \A n \in Nat : n < m /\ n \in T => n + 1 \in T
  PROVE  \A n \in 0 .. m : n \in T
<1>. DEFINE Missing == {n \in 0 .. m : n \notin T}
<1>. SUFFICES ASSUME Missing # {}
              PROVE  FALSE
  OBVIOUS
<1>1. PICK n \in Missing : \A k \in Missing : n <= k
  <2>1. Missing \in SUBSET Nat
    OBVIOUS
  <2>. HIDE DEF Missing
  <2>. QED
    BY <2>1, NatMin
<1>2. n \in Nat /\ n # 0 /\ n <= m
  BY <1>1
<1>3. n - 1 \in Nat /\ n - 1 < m /\ (n - 1) + 1 = n /\ ~(n <= n - 1)
  BY <1>2
<1>4. n - 1 \in T
  BY <1>1, <1>3
<1>. QED
  BY <1>1, <1>3, <1>4

IsIteration(h, m, S, a, F) ==
  h \in [0 .. m -> S] /\ h[0] = a /\ \A k \in 1 .. m : h[k] = F[k][h[k - 1]]

\* What is computed step by step from a start exists.
LEMMA IterationExists ==
  ASSUME NEW m \in Nat, NEW S, NEW a \in S, NEW F \in [1 .. m -> [S -> S]]
  PROVE  \E h : IsIteration(h, m, S, a, F)
<1>. DEFINE Up(n, h) == h[0] = a /\ \A k \in 1 .. n : h[k] = F[k][h[k - 1]]
            T == {n \in 0 .. m : \E h \in [0 .. n -> S] : Up(n, h)}
<1>1. 0 \in T
  <2>1. [k \in 0 .. 0 |-> a] \in [0 .. 0 -> S] /\ Up(0, [k \in 0 .. 0 |-> a])
    OBVIOUS
  <2>2. 0 \in 0 .. m
    OBVIOUS
  <2>. HIDE DEF Up
  <2>. QED
    BY <2>1, <2>2
<1>2. ASSUME NEW n \in Nat, n < m, n \in T
      PROVE  n + 1 \in T
  <2>1. PICK h \in [0 .. n -> S] : Up(n, h)
    BY <1>2
  <2>. DEFINE g == [k \in 0 .. n + 1 |-> IF k = n + 1 THEN F[n + 1][h[n]] ELSE h[k]]
  <2>2. n + 1 \in 1 .. m /\ n \in 0 .. n /\ h[n] \in S
    BY <1>2, <2>1
  <2>3. F[n + 1] \in [S -> S]
    BY <2>2
  <2>4. F[n + 1][h[n]] \in S
    BY <2>2, <2>3
  <2>5. g \in [0 .. n + 1 -> S]
    BY <2>1, <2>4
  <2>6. \A k \in 0 .. n : g[k] = h[k]
    OBVIOUS
  <2>7. g[n + 1] = F[n + 1][h[n]] /\ (n + 1) - 1 = n
    OBVIOUS
  <2>. HIDE DEF g
  <2>8. ASSUME NEW k \in 1 .. n + 1
        PROVE  g[k] = F[k][g[k - 1]]
    <3>1. CASE k = n + 1
      BY <2>6, <2>7, <3>1, <2>2
    <3>2. CASE k # n + 1
      <4>1. k \in 1 .. n /\ k \in 0 .. n /\ k - 1 \in 0 .. n
        BY <3>2
      <4>. QED
        BY <2>1, <2>6, <4>1
    <3>. QED
      BY <3>1, <3>2
  <2>9. g[0] = a
    BY <2>1, <2>6
  <2>10. Up(n + 1, g) /\ n + 1 \in 0 .. m
    BY <2>2, <2>8, <2>9
  <2>. HIDE DEF Up
  <2>. QED
    BY <2>5, <2>10
<1>3. \A n \in Nat : n < m /\ n \in T => n + 1 \in T
  BY <1>2
<1>4. m \in T
  <2>1. m \in 0 .. m
    OBVIOUS
  <2>. HIDE DEF T
  <2>. QED
    BY <1>1, <1>3, <2>1, Induction
<1>. QED
  BY <1>4 DEF IsIteration


----------------------------------------------------------------------------
(* Arithmetic *)

\* There is one remainder.
LEMMA Remainder ==
  ASSUME NEW w \in Nat \ {0}, NEW i \in Nat, NEW r \in 0 .. w - 1
  PROVE  (w * i + r) % w = r
<1>. DEFINE n == w * i + r
            k == (n \div w) - i
<1>1. n \in Nat
  <2>1. w * i \in Nat
    OBVIOUS
  <2>. QED
    BY <2>1
<1>2. n \div w \in Int /\ n % w \in 0 .. w - 1 /\ n = w * (n \div w) + (n % w)
  BY <1>1
<1>3. n = w * i + r
  OBVIOUS
<1>. HIDE DEF n
<1>4. w * k = r - (n % w) /\ k \in Int
  BY <1>2, <1>3
<1>5. k = 0
  <2>1. - w < w * k /\ w * k < w
    BY <1>2, <1>4
  <2>2. \A j \in Int : (j >= 1 => w * j >= w) /\ (j <= -1 => w * j <= - w)
    OBVIOUS
  <2>. HIDE DEF k
  <2>. QED
    BY <1>4, <2>1, <2>2
<1>6. n % w = r
  <2>. DEFINE m == n % w
  <2>1. w * 0 = 0 /\ m \in 0 .. w - 1
    BY <1>2
  <2>2. w * k = r - m
    BY <1>4
  <2>. HIDE DEF k, m
  <2>3. 0 = r - m
    BY <1>5, <2>1, <2>2
  <2>4. m = r
    BY <2>1, <2>3
  <2>. QED
    BY <2>4 DEF m
<1>. QED
  BY <1>6 DEF n

\* A division by w leaves a quotient and a remainder.
LEMMA Division ==
  ASSUME NEW w \in Nat \ {0}, NEW a \in Nat
  PROVE  a \div w \in Nat /\ a % w \in 0 .. w - 1 /\ a = w * (a \div w) + (a % w)
OBVIOUS

\* Products keep the order.
LEMMA Products ==
  \A a, b, c \in Nat : a <= b => a * c <= b * c
OBVIOUS

\* There is one quotient, too.
LEMMA Quotient ==
  ASSUME NEW w \in Nat \ {0}, NEW i \in Nat, NEW r \in 0 .. w - 1
  PROVE  (w * i + r) \div w = i
<1>. DEFINE n == w * i + r
            q == n \div w
<1>1. n \in Nat /\ w * i \in Nat
  OBVIOUS
<1>2. n = w * i + r
  OBVIOUS
<1>3. n % w = r
  BY Remainder, Zenon
<1>. HIDE DEF n
<1>4. q \in Nat /\ n = w * q + (n % w)
  BY <1>1, Division
<1>. HIDE DEF q
<1>5. w * q = w * i
  <2>1. w * q \in Nat
    BY <1>4
  <2>. QED
    BY <1>1, <1>2, <1>3, <1>4, <2>1
<1>6. \A j, k \in Nat : w * j = w * k => j = k
  OBVIOUS
<1>. QED
  BY <1>4, <1>5, <1>6 DEF n, q
\* A set of numbers from 1 to n that is not empty has a largest one.
LEMMA Largest ==
  ASSUME NEW n \in Nat, NEW S \in SUBSET (0 .. n), S # {}
  PROVE  Max(S) \in S /\ \A k \in S : Max(S) >= k
<1>. DEFINE T == {d \in 0 .. n : n - d \in S}
<1>1. T \in SUBSET Nat
  OBVIOUS
<1>2. T # {}
  <2>1. PICK k \in S : TRUE
    OBVIOUS
  <2>2. n - k \in 0 .. n /\ n - (n - k) = k
    OBVIOUS
  <2>. QED
    BY <2>1, <2>2
<1>3. PICK d \in T : \A k \in T : d <= k
  <2>. HIDE DEF T
  <2>. QED
    BY <1>1, <1>2, NatMin
<1>4. n - d \in S /\ d \in 0 .. n
  BY <1>3
<1>5. ASSUME NEW k \in S
      PROVE  n - d >= k
  <2>1. k \in 0 .. n /\ n - k \in 0 .. n /\ n - (n - k) = k
    OBVIOUS
  <2>2. d <= n - k
    BY <1>3, <2>1
  <2>. QED
    BY <1>4, <2>1, <2>2
<1>6. \E m \in S : \A k \in S : m >= k
  BY <1>4, <1>5
<1>. QED
  BY <1>6 DEF Max

----------------------------------------------------------------------------
(* Sizes, cells and addresses *)

LEMMA Sizes ==
  /\ Height \in Nat /\ Width \in Nat /\ VirtualWidth \in Nat /\ RowGap \in Nat
  /\ Byte \in Nat /\ Half \in Nat /\ MaxTokens \in Nat
  /\ Byte = 2 * Half /\ Height > 0 /\ Height < Half /\ Width > 0 /\ Width <= VirtualWidth
  /\ VirtualWidth + 1 < Half /\ RowGap > Width
BY LcdAssumption DEF Half

\* The cells are counted row by row.
LEMMA CellOf ==
  ASSUME NEW r \in Rows, NEW i \in 0 .. Width - 1
  PROVE  /\ r * Width + i + 1 \in 1 .. Height * Width
         /\ ((r * Width + i + 1) - 1) \div Width = r
         /\ ((r * Width + i + 1) - 1) % Width = i
<1>1. /\ Width \in Nat \ {0} /\ Height \in Nat /\ r \in Nat /\ r + 1 <= Height
      /\ i \in Nat /\ i + 1 <= Width
  BY Sizes DEF Rows
<1>2. (r + 1) * Width <= Height * Width
  <2>1. r + 1 \in Nat /\ Width \in Nat
    BY <1>1
  <2>. QED
    BY <1>1, <2>1, Products, Zenon
<1>3. (r + 1) * Width = r * Width + Width /\ r * Width \in Nat /\ Height * Width \in Nat
  BY <1>1
<1>4. r * Width + i + 1 \in 1 .. Height * Width
  BY <1>1, <1>2, <1>3
<1>5. (r * Width + i + 1) - 1 = Width * r + i
  BY <1>1, <1>3
<1>6. (Width * r + i) \div Width = r /\ (Width * r + i) % Width = i
  BY <1>1, Quotient, Remainder, Zenon
<1>. QED
  BY <1>4, <1>5, <1>6

\* Each number counts one cell.
LEMMA CellAt ==
  ASSUME NEW k \in 1 .. Height * Width
  PROVE  /\ (k - 1) \div Width \in Rows /\ (k - 1) % Width \in 0 .. Width - 1
         /\ ((k - 1) \div Width) * Width + ((k - 1) % Width) + 1 = k
<1>. DEFINE q == (k - 1) \div Width
            m == (k - 1) % Width
<1>1. Width \in Nat \ {0} /\ Height \in Nat /\ Height * Width \in Nat
  BY Sizes
<1>2. k - 1 \in Nat /\ k - 1 < Height * Width
  BY <1>1
<1>3. q \in Nat /\ m \in 0 .. Width - 1 /\ k - 1 = Width * q + m
  BY <1>1, <1>2, Division, Zenon
<1>. HIDE DEF q, m
<1>4. q * Width = Width * q /\ q * Width \in Nat
  BY <1>1, <1>3
<1>5. q * Width + m + 1 = k
  BY <1>2, <1>3, <1>4
<1>6. q < Height
  <2>1. SUFFICES ASSUME Height <= q
                 PROVE  FALSE
    BY <1>1, <1>3
  <2>2. Height * Width <= q * Width
    BY <1>1, <1>3, <2>1, Products, Zenon
  <2>. QED
    BY <1>1, <1>2, <1>3, <1>4, <2>2
<1>7. q \in Rows
  BY <1>1, <1>3, <1>6 DEF Rows
<1>. QED
  BY <1>3, <1>5, <1>7 DEF q, m

\* Two cells have two addresses, and one more is still an address.
LEMMA Addresses ==
  /\ \A r \in Rows, i \in 0 .. Width - 1 : i + r * RowGap \in Cell /\ (i + r * RowGap) + 1 \in Cell
  /\ \A r1, r2 \in Rows, i1, i2 \in 0 .. Width - 1 :
        i1 + r1 * RowGap = i2 + r2 * RowGap => r1 = r2 /\ i1 = i2
<1>1. /\ RowGap \in Nat /\ Width \in Nat /\ Height \in Nat /\ Height - 1 \in Nat /\ Width < RowGap
      /\ (Height - 1) * RowGap \in Nat
  BY Sizes
<1>2. ASSUME NEW r \in Rows, NEW i \in 0 .. Width - 1
      PROVE  i + r * RowGap \in Cell /\ (i + r * RowGap) + 1 \in Cell
  <2>1. r \in Nat /\ r <= Height - 1
    BY <1>1 DEF Rows
  <2>2. r * RowGap <= (Height - 1) * RowGap
    BY <1>1, <2>1, Products, Zenon
  <2>3. r * RowGap \in Nat
    BY <1>1, <2>1
  <2>. QED
    BY <1>1, <2>2, <2>3 DEF Cell
<1>3. ASSUME NEW r1 \in Rows, NEW r2 \in Rows, NEW i1 \in 0 .. Width - 1, NEW i2 \in 0 .. Width - 1,
             r1 < r2
      PROVE  i1 + r1 * RowGap < i2 + r2 * RowGap
  <2>1. r1 \in Nat /\ r2 \in Nat /\ r1 + 1 \in Nat /\ r1 + 1 <= r2
    BY <1>1, <1>3 DEF Rows
  <2>2. (r1 + 1) * RowGap <= r2 * RowGap
    BY <1>1, <2>1, Products, Zenon
  <2>3. (r1 + 1) * RowGap = r1 * RowGap + RowGap /\ r1 * RowGap \in Nat /\ r2 * RowGap \in Nat
    BY <1>1, <2>1
  <2>. QED
    BY <1>1, <2>2, <2>3
<1>4. ASSUME NEW r1 \in Rows, NEW r2 \in Rows, NEW i1 \in 0 .. Width - 1, NEW i2 \in 0 .. Width - 1,
             i1 + r1 * RowGap = i2 + r2 * RowGap
      PROVE  r1 = r2 /\ i1 = i2
  <2>1. r1 \in Nat /\ r2 \in Nat /\ r1 * RowGap \in Nat /\ r2 * RowGap \in Nat
    BY <1>1 DEF Rows
  <2>2. ~(r1 < r2)
    <3>1. SUFFICES ASSUME r1 < r2
                   PROVE  FALSE
      OBVIOUS
    <3>2. i1 + r1 * RowGap < i2 + r2 * RowGap
      BY <1>3, <3>1
    <3>. QED
      BY <1>1, <1>4, <2>1, <3>2
  <2>3. ~(r2 < r1)
    <3>1. SUFFICES ASSUME r2 < r1
                   PROVE  FALSE
      OBVIOUS
    <3>2. i2 + r2 * RowGap < i1 + r1 * RowGap
      BY <1>3, <3>1
    <3>. QED
      BY <1>1, <1>4, <2>1, <3>2
  <2>4. r1 = r2
    BY <2>1, <2>2, <2>3
  <2>. QED
    BY <1>4, <2>1, <2>4
<1>. QED
  BY <1>2, <1>4
----------------------------------------------------------------------------
(* Painting *)

\* The lines can be painted.
LinesTyped ==
  /\ data \in [Rows -> [0 .. VirtualWidth -> Printable]]
  /\ width \in [Rows -> 0 .. VirtualWidth + 1] /\ speed \in [Rows -> 0 .. Half]

WorkedOut == \A r \in Rows : width[r] >= Width

\* A driver's picture and a panel that fits it.
Sound == {l \in Lcd : Believed(l)}

LEMMA ShownTyped ==
  ASSUME LinesTyped, WorkedOut, NEW r \in Rows, NEW i \in 0 .. Width - 1, NEW pos \in Position
  PROVE  Shown(r, i, pos) \in Printable
<1>1. /\ width[r] \in 0 .. VirtualWidth + 1 /\ speed[r] \in 0 .. Half /\ width[r] >= Width
      /\ data[r] \in [0 .. VirtualWidth -> Printable]
  BY DEF LinesTyped, WorkedOut
<1>2. width[r] \in Nat \ {0} /\ speed[r] \in Nat /\ pos \in Nat /\ Byte \in Nat \ {0} /\ i \in Nat
      /\ width[r] - 1 <= VirtualWidth /\ VirtualWidth \in Nat
  BY <1>1, Sizes DEF Position
<1>3. Offset(r, pos) \in Nat
  <2>1. pos * speed[r] \in Nat
    BY <1>2
  <2>2. (pos * speed[r]) \div Byte \in Nat
    BY <1>2, <2>1, Division, Zenon
  <2>. QED
    BY <2>2 DEF Offset
<1>4. i + Offset(r, pos) \in Nat
  BY <1>2, <1>3
<1>5. (i + Offset(r, pos)) % width[r] \in 0 .. width[r] - 1
  BY <1>2, <1>4, Division, Zenon
<1>6. (i + Offset(r, pos)) % width[r] \in 0 .. VirtualWidth
  BY <1>2, <1>5
<1>. QED
  BY <1>1, <1>6 DEF Shown

\* g is the picture f with one cell painted.
Changed(f, g, r, i, c) ==
  /\ g \in Picture
  /\ \A r2 \in Rows, i2 \in 0 .. Width - 1 : g[r2][i2] = IF r2 = r /\ i2 = i THEN c ELSE f[r2][i2]

LEMMA OneCell ==
  ASSUME NEW f \in Picture, NEW r \in Rows, NEW i \in 0 .. Width - 1, NEW c \in Printable,
         NEW g, g = [f EXCEPT ![r][i] = c]
  PROVE  Changed(f, g, r, i, c)
<1>1. f \in [Rows -> [0 .. Width - 1 -> Printable]]
  BY DEF Picture
<1>2. g[r] = [f[r] EXCEPT ![i] = c]
  BY <1>1
<1>3. \A r2 \in Rows : r2 # r => g[r2] = f[r2]
  BY <1>1
<1>4. g \in [Rows -> [0 .. Width - 1 -> Printable]]
  BY <1>1
<1>5. f[r] \in [0 .. Width - 1 -> Printable]
  BY <1>1
<1>6. \A i2 \in 0 .. Width - 1 : g[r][i2] = IF i2 = i THEN c ELSE f[r][i2]
  BY <1>2, <1>5
<1>7. \A r2 \in Rows, i2 \in 0 .. Width - 1 : g[r2][i2] = IF r2 = r /\ i2 = i THEN c ELSE f[r2][i2]
  BY <1>3, <1>6
<1>. QED
  BY <1>4, <1>7 DEF Picture, Changed

\* What is sent to one cell leaves the picture true, and the cell in it.
LEMMA WriteCell ==
  ASSUME NEW l \in Sound, NEW r \in Rows, NEW i \in 0 .. Width - 1, NEW c \in Printable,
         NEW a, a = i + r * RowGap,
         NEW there, there = IF l.address # a THEN lcd_write_command_address(l, a) ELSE l,
         NEW n, n = [lcd_write_data(there, c) EXCEPT !.visible[r][i] = c]
  PROVE  n \in Sound /\ Changed(l.visible, n.visible, r, i, c)
<1>1. /\ a \in Cell /\ a + 1 \in Cell
      /\ \A r2 \in Rows, i2 \in 0 .. Width - 1 : i2 + r2 * RowGap = a => r2 = r /\ i2 = i
      /\ \A r2 \in Rows, i2 \in 0 .. Width - 1 : i2 + r2 * RowGap \in Cell
  BY Addresses
<1>2. l \in Lcd /\ Believed(l)
  BY DEF Sound
<1>3. /\ there \in Lcd /\ Believed(there) /\ there.visible = l.visible
      /\ there.address = a /\ (~there.broken => there.cursor = a)
  <2>1. CASE l.address = a
    BY <1>2, <2>1 DEF Believed
  <2>2. CASE l.address # a
    <3>1. there = [Send(l, [l EXCEPT !.cursor = a]) EXCEPT !.address = a]
      BY <2>2 DEF lcd_write_command_address
    <3>2. CASE l.broken
      <4>1. there = [l EXCEPT !.address = a]
        BY <3>1, <3>2 DEF Send
      <4>. QED
        BY <1>1, <1>2, <3>2, <4>1 DEF Lcd, Believed
    <3>3. CASE ~l.broken /\ l.fitted
      <4>1. there = [[l EXCEPT !.cursor = a] EXCEPT !.address = a]
        BY <3>1, <3>3 DEF Send
      <4>2. /\ there \in Lcd /\ there.cursor = a /\ there.address = a
            /\ there.ram = l.ram /\ there.visible = l.visible /\ there.broken = l.broken
        BY <1>1, <1>2, <4>1 DEF Lcd
      <4>. QED
        BY <1>2, <3>3, <4>2 DEF Believed
    <3>4. CASE ~l.broken /\ ~l.fitted
      <4>1. there = [[l EXCEPT !.broken = TRUE] EXCEPT !.address = a]
        BY <3>1, <3>4 DEF Send
      <4>. QED
        BY <1>1, <1>2, <3>4, <4>1 DEF Lcd, Believed
    <3>. QED
      BY <3>2, <3>3, <3>4
  <2>. QED
    BY <2>1, <2>2
<1>4. there.visible \in [Rows -> [0 .. Width - 1 -> Printable]]
  BY <1>3 DEF Lcd, Picture
<1>5. [there.visible EXCEPT ![r][i] = c] \in Picture
  BY <1>4 DEF Picture
<1>. SUFFICES n \in Sound /\ n.visible = [there.visible EXCEPT ![r][i] = c]
  BY <1>3, <1>4, OneCell DEF Picture
<1>6. CASE there.broken
  <2>1. n = [there EXCEPT !.visible[r][i] = c]
    BY <1>6 DEF lcd_write_data, Send
  <2>2. n = [there EXCEPT !.visible = [there.visible EXCEPT ![r][i] = c]]
    BY <2>1
  <2>. QED
    BY <1>3, <1>5, <1>6, <2>2 DEF Lcd, Believed, Sound
<1>7. CASE ~there.broken /\ ~there.fitted
  <2>1. n = [[there EXCEPT !.broken = TRUE] EXCEPT !.visible = [there.visible EXCEPT ![r][i] = c]]
    BY <1>3, <1>7 DEF lcd_write_data, Send, Lcd
  <2>2. n \in Lcd /\ n.broken /\ n.visible = [there.visible EXCEPT ![r][i] = c]
    BY <1>3, <1>5, <2>1 DEF Lcd
  <2>. QED
    BY <1>3, <2>2 DEF Believed, Sound
<1>8. CASE ~there.broken /\ there.fitted
  <2>1. n = [there EXCEPT !.ram = [there.ram EXCEPT ![a] = c], !.cursor = a + 1, !.address = a + 1,
                          !.visible = [there.visible EXCEPT ![r][i] = c]]
    BY <1>3, <1>8 DEF lcd_write_data, Send, Lcd
  <2>2. /\ n.ram = [there.ram EXCEPT ![a] = c] /\ n.cursor = a + 1 /\ n.address = a + 1
        /\ n.visible = [there.visible EXCEPT ![r][i] = c]
    BY <1>3, <2>1 DEF Lcd
  <2>3. n \in Lcd
    <3>. DEFINE ram == [there.ram EXCEPT ![a] = c]
                visible == [there.visible EXCEPT ![r][i] = c]
    <3>1. ram \in [Cell -> Printable]
      BY <1>3 DEF Lcd
    <3>2. n = [there EXCEPT !.ram = ram, !.cursor = a + 1, !.address = a + 1, !.visible = visible]
      BY <2>1
    <3>3. visible \in Picture
      BY <1>5
    <3>. HIDE DEF ram, visible
    <3>. QED
      BY <1>1, <1>3, <3>1, <3>2, <3>3 DEF Lcd
  <2>4. ASSUME NEW r2 \in Rows, NEW i2 \in 0 .. Width - 1
        PROVE  n.ram[i2 + r2 * RowGap] = n.visible[r2][i2]
    <3>. DEFINE b == i2 + r2 * RowGap
    <3>1. b \in Cell /\ (b = a => r2 = r /\ i2 = i) /\ (r2 = r /\ i2 = i => b = a)
      BY <1>1
    <3>2. there.ram[b] = there.visible[r2][i2]
      BY <1>3, <1>8 DEF Believed
    <3>3. there.ram \in [Cell -> Printable]
      BY <1>3 DEF Lcd
    <3>. HIDE DEF b
    <3>4. n.ram[b] = IF b = a THEN c ELSE there.ram[b]
      BY <1>1, <2>2, <3>1, <3>3
    <3>5. n.visible[r2][i2] = IF r2 = r /\ i2 = i THEN c ELSE there.visible[r2][i2]
      <4>1. there.visible \in Picture
        BY <1>3 DEF Lcd
      <4>2. Changed(there.visible, n.visible, r, i, c)
        BY <2>2, <4>1, OneCell
      <4>. QED
        BY <4>2 DEF Changed
    <3>6. n.ram[b] = n.visible[r2][i2]
      BY <3>1, <3>2, <3>4, <3>5
    <3>. QED
      BY <3>6 DEF b
  <2>. QED
    BY <1>3, <2>2, <2>3, <2>4 DEF Believed, Sound
<1>. QED
  BY <1>6, <1>7, <1>8
\* Painting the k-th cell.
LEMMA PaintOne ==
  ASSUME LinesTyped, WorkedOut, NEW l \in Sound, NEW pos \in Position, NEW k \in 1 .. Height * Width
  PROVE  /\ Paint(l, k, pos) \in Sound
         /\ \A r \in Rows, i \in 0 .. Width - 1 :
               Paint(l, k, pos).visible[r][i]
                 = IF r * Width + i + 1 = k THEN Shown(r, i, pos) ELSE l.visible[r][i]
<1>. DEFINE r0 == (k - 1) \div Width
            i0 == (k - 1) % Width
            c == Shown(r0, i0, pos)
            a == i0 + r0 * RowGap
            there == IF l.address # a THEN lcd_write_command_address(l, a) ELSE l
            n == [lcd_write_data(there, c) EXCEPT !.visible[r0][i0] = c]
<1>1. r0 \in Rows /\ i0 \in 0 .. Width - 1 /\ r0 * Width + i0 + 1 = k
  BY CellAt, Zenon
<1>2. ASSUME NEW r \in Rows, NEW i \in 0 .. Width - 1
      PROVE  r * Width + i + 1 = k <=> (r = r0 /\ i = i0)
  <2>1. ((r * Width + i + 1) - 1) \div Width = r /\ ((r * Width + i + 1) - 1) % Width = i
    BY CellOf, Zenon
  <2>. HIDE DEF r0, i0
  <2>2. r * Width + i + 1 = k => r = r0 /\ i = i0
    BY <2>1, Zenon DEF r0, i0
  <2>. QED
    BY <1>1, <2>2
<1>3. Paint(l, k, pos) = IF l.visible[r0][i0] = c THEN l ELSE n
  BY Zenon DEF Paint
<1>4. c \in Printable
  <2>. HIDE DEF r0, i0
  <2>. QED
    BY <1>1, ShownTyped
<1>. DEFINE p == Paint(l, k, pos)
<1>5. n \in Sound /\ Changed(l.visible, n.visible, r0, i0, c)
  <2>1. /\ a = i0 + r0 * RowGap
        /\ there = IF l.address # a THEN lcd_write_command_address(l, a) ELSE l
        /\ n = [lcd_write_data(there, c) EXCEPT !.visible[r0][i0] = c]
    OBVIOUS
  <2>. HIDE DEF r0, i0, c, a, there, n
  <2>. QED
    BY <1>1, <1>4, <2>1, WriteCell, Zenon
<1>6. /\ p \in Sound
      /\ \A r \in Rows, i \in 0 .. Width - 1 :
            p.visible[r][i] = IF r = r0 /\ i = i0 THEN c ELSE l.visible[r][i]
  <2>. HIDE DEF p, n, r0, i0, c
  <2>1. p = IF l.visible[r0][i0] = c THEN l ELSE n
    BY <1>3 DEF p, n, r0, i0, c
  <2>2. CASE l.visible[r0][i0] = c
    BY <2>1, <2>2
  <2>3. CASE l.visible[r0][i0] # c
    BY <1>5, <2>1, <2>3 DEF Changed
  <2>. QED
    BY <2>2, <2>3
<1>7. ASSUME NEW r \in Rows, NEW i \in 0 .. Width - 1
      PROVE  p.visible[r][i] = IF r * Width + i + 1 = k THEN Shown(r, i, pos) ELSE l.visible[r][i]
  <2>. HIDE DEF p, r0, i0
  <2>1. r = r0 /\ i = i0 => c = Shown(r, i, pos)
    OBVIOUS
  <2>. HIDE DEF c
  <2>. QED
    BY <1>2, <1>6, <2>1
<1>. QED
  BY <1>6, <1>7 DEF p

\* Clearing the panel and the picture of it.
LEMMA ClearedSound ==
  ASSUME NEW l \in Sound
  PROVE  Cleared(l) \in Sound
<1>. DEFINE blank == [r \in Rows |-> [i \in 0 .. Width - 1 |-> Blank]]
            n == Cleared(l)
<1>1. l \in Lcd /\ Blank \in Printable
  BY LcdAssumption DEF Sound
<1>2. 0 \in Cell /\ blank \in Picture
  BY <1>1, Sizes DEF Cell, Picture
<1>3. \A r \in Rows, i \in 0 .. Width - 1 : i + r * RowGap \in Cell
  BY Addresses
<1>4. n = [Send(l, [l EXCEPT !.ram = [a \in DOMAIN l.ram |-> Blank], !.cursor = 0])
             EXCEPT !.address = 0, !.visible = blank]
  BY DEF Cleared
<1>. HIDE DEF n
<1>5. CASE l.broken
  <2>1. n \in Lcd /\ n.broken
    BY <1>1, <1>2, <1>4, <1>5 DEF Send, Lcd
  <2>. QED
    BY <2>1 DEF Sound, Believed, n
<1>6. CASE ~l.broken /\ ~l.fitted
  <2>1. n \in Lcd /\ n.broken
    BY <1>1, <1>2, <1>4, <1>6 DEF Send, Lcd
  <2>. QED
    BY <2>1 DEF Sound, Believed, n
<1>7. CASE ~l.broken /\ l.fitted
  <2>. DEFINE ram == [a \in Cell |-> Blank]
  <2>1. n = [l EXCEPT !.ram = ram, !.cursor = 0, !.address = 0, !.visible = blank]
    BY <1>1, <1>4, <1>7 DEF Send, Lcd
  <2>2. ram \in [Cell -> Printable]
    BY <1>1
  <2>3. n \in Lcd /\ n.cursor = 0 /\ n.address = 0 /\ n.ram = ram /\ n.visible = blank
    <3>. HIDE DEF ram, blank
    <3>. QED
      BY <1>1, <1>2, <2>1, <2>2 DEF Lcd
  <2>4. Believed(n)
    BY <1>3, <2>3 DEF Believed
  <2>. QED
    BY <2>3, <2>4 DEF Sound, n
<1>. QED
  BY <1>5, <1>6, <1>7

\* What the alarm does to the panel, cell by cell.
IsRepaint(h, l, pos) ==
  h = [k \in 0 .. Height * Width |-> IF k = 0 THEN l ELSE Paint(h[k - 1], k, pos)]

LEMMA RepaintAll ==
  ASSUME LinesTyped, WorkedOut, NEW l \in Sound, NEW pos \in Position
  PROVE  /\ lcd_repaint_screen(l, pos) \in Sound
         /\ \A r \in Rows, i \in 0 .. Width - 1 :
               lcd_repaint_screen(l, pos).visible[r][i] = Shown(r, i, pos)
<1>. DEFINE m == Height * Width
            F == [k \in 1 .. m |-> [n \in Sound |-> Paint(n, k, pos)]]
<1>1. m \in Nat
  BY Sizes
<1>. HIDE DEF m
<1>2. F \in [1 .. m -> [Sound -> Sound]]
  <2>1. \A k \in 1 .. m, n \in Sound : Paint(n, k, pos) \in Sound
    BY PaintOne DEF m
  <2>. QED
    BY <2>1
<1>3. \A k \in 1 .. m : \A n \in Sound : F[k][n] = Paint(n, k, pos)
  OBVIOUS
<1>. HIDE DEF F
<1>4. PICK h \in [0 .. m -> Sound] : h[0] = l /\ \A k \in 1 .. m : h[k] = F[k][h[k - 1]]
  <2>1. \E h : IsIteration(h, m, Sound, l, F)
    BY <1>1, <1>2, IterationExists
  <2>. QED
    BY <2>1 DEF IsIteration
<1>5. \A k \in 1 .. m : k - 1 \in 0 .. m
  BY <1>1
<1>6. \A k \in 1 .. m : h[k] = Paint(h[k - 1], k, pos)
  BY <1>3, <1>4, <1>5
<1>7. IsRepaint(h, l, pos)
  <2>1. \A k \in 0 .. m : h[k] = IF k = 0 THEN l ELSE Paint(h[k - 1], k, pos)
    <3>1. \A k \in 0 .. m : k = 0 \/ k \in 1 .. m
      BY <1>1
    <3>. QED
      BY <1>4, <1>6, <3>1
  <2>. QED
    BY <1>4, <2>1 DEF IsRepaint, m
<1>. DEFINE g == CHOOSE f : IsRepaint(f, l, pos)
<1>8. lcd_repaint_screen(l, pos) = g[m]
  BY Zenon DEF lcd_repaint_screen, IsRepaint, m
<1>9. IsRepaint(g, l, pos)
  BY <1>7, Zenon
<1>. HIDE DEF g
<1>10. g[0] = l /\ \A k \in 1 .. m : g[k] = Paint(g[k - 1], k, pos)
  <2>1. \A k \in 0 .. m : g[k] = IF k = 0 THEN l ELSE Paint(g[k - 1], k, pos)
    BY <1>9 DEF IsRepaint, m
  <2>2. 0 \in 0 .. m /\ \A k \in 1 .. m : k \in 0 .. m /\ k # 0
    BY <1>1
  <2>. QED
    BY <2>1, <2>2
<1>. DEFINE Up(k) == /\ g[k] \in Sound
                     /\ \A r \in Rows, i \in 0 .. Width - 1 :
                           r * Width + i + 1 <= k => g[k].visible[r][i] = Shown(r, i, pos)
            T == {k \in 0 .. m : Up(k)}
<1>11. ASSUME NEW r \in Rows, NEW i \in 0 .. Width - 1
       PROVE  r * Width + i + 1 \in 1 .. m
  BY CellOf DEF m
<1>12. 0 \in T
  <2>1. \A r \in Rows, i \in 0 .. Width - 1 : ~(r * Width + i + 1 <= 0)
    BY <1>1, <1>11
  <2>. QED
    BY <1>1, <1>10, <2>1
<1>13. ASSUME NEW k \in Nat, k < m, k \in T
       PROVE  k + 1 \in T
  <2>1. k + 1 \in 1 .. m /\ k + 1 \in 0 .. m /\ (k + 1) - 1 = k
    BY <1>1, <1>13
  <2>2. g[k + 1] = Paint(g[k], k + 1, pos)
    BY <1>10, <2>1
  <2>3. Up(k)
    BY <1>13
  <2>4. k + 1 \in 1 .. Height * Width
    BY <2>1 DEF m
  <2>5. /\ g[k + 1] \in Sound
        /\ \A r \in Rows, i \in 0 .. Width - 1 :
              g[k + 1].visible[r][i]
                = IF r * Width + i + 1 = k + 1 THEN Shown(r, i, pos) ELSE g[k].visible[r][i]
    BY <2>2, <2>3, <2>4, PaintOne
  <2>6. ASSUME NEW r \in Rows, NEW i \in 0 .. Width - 1, r * Width + i + 1 <= k + 1
        PROVE  g[k + 1].visible[r][i] = Shown(r, i, pos)
    <3>. DEFINE j == r * Width + i + 1
    <3>1. j \in 1 .. m
      BY <1>11
    <3>. HIDE DEF j
    <3>2. j <= k + 1 => j = k + 1 \/ j <= k
      BY <3>1
    <3>3. r * Width + i + 1 = k + 1 \/ r * Width + i + 1 <= k
      BY <2>6, <3>2 DEF j
    <3>. QED
      BY <2>3, <2>5, <3>3
  <2>. QED
    BY <2>1, <2>5, <2>6
<1>. HIDE DEF Up
<1>14. Up(m)
  <2>. HIDE DEF T
  <2>1. \A k \in 0 .. m : k \in T
    BY <1>1, <1>12, <1>13, Induction
  <2>2. m \in 0 .. m
    BY <1>1
  <2>. QED
    BY <2>1, <2>2 DEF T
<1>15. \A r \in Rows, i \in 0 .. Width - 1 : r * Width + i + 1 <= m
  BY <1>1, <1>11
<1>. QED
  BY <1>8, <1>14, <1>15 DEF Up
----------------------------------------------------------------------------
(* Widths and speeds *)

LEMMA TextWidths ==
  ASSUME LinesTyped, NEW r \in Rows
  PROVE  TextWidth(r) \in Width .. VirtualWidth + 1
<1>. DEFINE used == {i \in 1 .. VirtualWidth : data[r][i - 1] # Blank}
            w == IF used = {} THEN 0 ELSE Max(used)
<1>1. used \in SUBSET (0 .. VirtualWidth) /\ VirtualWidth \in Nat /\ Width \in Nat /\ Width <= VirtualWidth
  BY Sizes
<1>2. w \in 0 .. VirtualWidth
  <2>1. CASE used = {}
    BY <1>1, <2>1
  <2>2. CASE used # {}
    <3>. HIDE DEF used
    <3>1. Max(used) \in used
      BY <1>1, <2>2, Largest
    <3>. QED
      BY <1>1, <2>2, <3>1
  <2>. QED
    BY <2>1, <2>2
<1>3. TextWidth(r) = IF w <= Width THEN Width ELSE w + 1
  BY Zenon DEF TextWidth
<1>. HIDE DEF w
<1>. QED
  BY <1>1, <1>2, <1>3

\* A line gets at most half of the scale, and nothing if no line is long; the
\* unsigned character it is kept in loses nothing.
LEMMA Speeds ==
  ASSUME LinesTyped, NEW m, m = 2 * Max({TextWidth(r) : r \in Rows})
  PROVE  /\ m \in 1 .. Byte - 1
         /\ \A r \in Rows : Speed(r, m) \in 0 .. Half /\ (m <= 2 * Width => Speed(r, m) = 0)
         /\ \A r \in Rows : TextWidth(r) > Width => Speed(r, m) = (Byte * TextWidth(r)) \div m
<1>. DEFINE W == {TextWidth(r) : r \in Rows}
            top == Max(W)
<1>1. /\ VirtualWidth \in Nat /\ Width \in Nat /\ Width > 0 /\ Height > 0 /\ Half \in Nat /\ Byte \in Nat
      /\ Byte = 2 * Half /\ VirtualWidth + 1 < Half /\ Height \in Nat
  BY Sizes
<1>2. W \in SUBSET (0 .. VirtualWidth + 1) /\ \A w \in W : w >= Width
  BY <1>1, TextWidths
<1>3. W # {}
  <2>1. 0 \in Rows
    BY <1>1 DEF Rows
  <2>. QED
    BY <2>1
<1>4. \A r \in Rows : TextWidth(r) \in W
  OBVIOUS
<1>5. m = 2 * top
  OBVIOUS
<1>6. top \in W /\ \A w \in W : top >= w
  <2>1. VirtualWidth + 1 \in Nat
    BY <1>1
  <2>. HIDE DEF W
  <2>. QED
    BY <1>2, <1>3, <2>1, Largest, Zenon
<1>. HIDE DEF W, top
<1>7. top \in Nat /\ top >= Width /\ top <= VirtualWidth + 1
  BY <1>1, <1>2, <1>6
<1>8. m \in 1 .. Byte - 1 /\ m \in Nat \ {0}
  BY <1>1, <1>5, <1>7
<1>9. ASSUME NEW r \in Rows
      PROVE  /\ Speed(r, m) \in 0 .. Half /\ (m <= 2 * Width => Speed(r, m) = 0)
             /\ TextWidth(r) > Width => Speed(r, m) = (Byte * TextWidth(r)) \div m
  <2>. DEFINE w == TextWidth(r)
              q == (Byte * w) \div m
  <2>1. w \in Nat /\ w <= top
    <3>1. w \in W
      BY <1>4
    <3>. HIDE DEF w
    <3>2. w \in 0 .. VirtualWidth + 1 /\ top >= w
      BY <1>2, <1>6, <3>1
    <3>. QED
      BY <1>1, <1>7, <3>2
  <2>2. Speed(r, m) = IF w > Width THEN q % Byte ELSE 0
    BY Zenon DEF Speed, UChar
  <2>. HIDE DEF w
  <2>3. m <= 2 * Width => w <= Width
    BY <1>1, <1>5, <1>7, <2>1
  <2>4. Byte * w \in Nat /\ Byte * w <= Half * m
    <3>1. w * Byte <= top * Byte
      BY <1>1, <1>7, <2>1, Products, Zenon
    <3>2. \A a, b, h \in Nat : a * (2 * h) <= b * (2 * h) => (2 * h) * a <= h * (2 * b)
      OBVIOUS
    <3>3. (2 * Half) * w <= Half * (2 * top)
      BY <1>1, <1>7, <2>1, <3>1, <3>2
    <3>4. Byte * w \in Nat
      BY <1>1, <2>1
    <3>. QED
      BY <1>1, <1>5, <3>3, <3>4
  <2>5. q \in Nat /\ m * q <= Byte * w
    <3>. DEFINE a == Byte * w
    <3>1. a \in Nat /\ q = a \div m
      BY <2>4
    <3>. HIDE DEF a, q
    <3>2. q \in Nat /\ a % m \in 0 .. m - 1 /\ a = m * q + (a % m)
      BY <1>8, <3>1, Division
    <3>3. m * q \in Nat
      BY <1>8, <3>2
    <3>4. m * q <= a
      BY <1>8, <3>1, <3>2, <3>3
    <3>. QED
      BY <3>2, <3>4 DEF a
  <2>. HIDE DEF q
  <2>6. q <= Half
    <3>1. \A a, b, n \in Nat : n > 0 /\ a > b => n * a > b * n
      OBVIOUS
    <3>2. SUFFICES ASSUME q > Half
                   PROVE  FALSE
      BY <1>1, <2>5
    <3>3. m * q > Half * m
      BY <1>1, <1>8, <2>5, <3>1, <3>2
    <3>4. m * q \in Nat /\ Half * m \in Nat
      BY <1>1, <1>8, <2>5
    <3>. QED
      BY <2>4, <2>5, <3>3, <3>4
  <2>7. q % Byte = q
    <3>1. q \in 0 .. Byte - 1 /\ Byte \in Nat \ {0} /\ 0 \in Nat /\ Byte * 0 + q = q
      BY <1>1, <2>5, <2>6
    <3>2. (Byte * 0 + q) % Byte = q
      BY <3>1, Remainder, Zenon
    <3>. QED
      BY <3>1, <3>2
  <2>. QED
    BY <1>1, <2>1, <2>2, <2>3, <2>5, <2>6, <2>7 DEF w, q
<1>. QED
  BY <1>8, <1>9

\* A number that fits a character stays what it is or becomes negative.
LEMMA Signed ==
  ASSUME NEW v \in 1 .. Byte - 1
  PROVE  /\ Char(v) \in -Half .. Half - 1 /\ Char(v) # 0
         /\ Char(v) > 0 => v < Half /\ Char(v) = v
<1>1. Byte \in Nat \ {0} /\ Half \in Nat /\ Byte = 2 * Half /\ v \in Nat /\ v < Byte
  BY Sizes
<1>2. CASE v + Half < Byte
  <2>1. Byte * 0 + (v + Half) = v + Half /\ v + Half \in 0 .. Byte - 1 /\ 0 \in Nat
    BY <1>1, <1>2
  <2>2. (Byte * 0 + (v + Half)) % Byte = v + Half
    BY <1>1, <2>1, Remainder, Zenon
  <2>3. Char(v) = (v + Half) - Half
    BY <2>1, <2>2 DEF Char
  <2>. QED
    BY <1>1, <1>2, <2>3
<1>3. CASE v + Half >= Byte
  <2>. DEFINE u == (v + Half) - Byte
  <2>1. Byte * 1 + u = v + Half /\ u \in 0 .. Byte - 1 /\ 1 \in Nat /\ u < Half
    BY <1>1, <1>3
  <2>. HIDE DEF u
  <2>2. (Byte * 1 + u) % Byte = u
    BY <1>1, <2>1, Remainder, Zenon
  <2>3. Char(v) = u - Half
    BY <2>1, <2>2 DEF Char
  <2>. QED
    BY <1>1, <2>1, <2>3
<1>. QED
  BY <1>1, <1>2, <1>3

\* An unsigned character.
LEMMA Unsigned ==
  ASSUME NEW v \in Nat
  PROVE  UChar(v) \in 0 .. Byte - 1
<1>1. Byte \in Nat \ {0}
  BY Sizes
<1>. QED
  BY <1>1, Division, Zenon DEF UChar
----------------------------------------------------------------------------
(* The invariant *)

(* What holds at each line of a write, whenever the alarm comes: who may   *)
(* paint, with which widths, and what the panel shows so far.  At the last *)
(* comparison the panel shows what was just painted, unless the alarm has  *)
(* painted it since.  A line that is too long to scroll stays at the       *)
(* position it was painted at.                                             *)
LcdInv ==
  /\ TypeOK /\ PanelAsBelieved
  /\ active <=> pc \in {"chars", "repaint", "cells"}
  /\ scrollmax = 0 => \A r \in Rows : speed[r] = 0
  /\ pc \in {"repaint", "cells", "check"} => WorkedOut
  /\ pc = "idle" => WorkedOut \/ (scrollmax = 0 /\ \A r \in Rows : width[r] = 0)
  /\ pc = "cells" =>
        /\ cell >= 1
        /\ \A r \in Rows, i \in 0 .. Width - 1 :
              r * Width + i + 1 < cell => lcd.visible[r][i] = Shown(r, i, painted)
  /\ pc = "check" => Shows(painted) \/ (scrollmax > 0 /\ Shows(scrollpos))
  /\ pc = "idle" /\ WorkedOut =>
        \E pos \in Position : (scrollmax >= 0 => pos = scrollpos) /\ Shows(pos)

\* What was painted stays painted.
LEMMA SameShown ==
  ASSUME UNCHANGED <<data, width, speed>>
  PROVE  /\ \A r, i, pos : Shown(r, i, pos)' = Shown(r, i, pos)
         /\ WorkedOut' = WorkedOut
BY DEF Shown, Offset, WorkedOut

LEMMA InitInv == Init => LcdInv
<1>. SUFFICES ASSUME Init
              PROVE  LcdInv
  OBVIOUS
<1>1. /\ Height - 1 \in Nat /\ 0 \in Rows /\ 0 \in Cell /\ 0 \in Position /\ VirtualWidth + 1 \in Nat
      /\ Byte > 0 /\ Byte \in Nat /\ Half \in Nat /\ Half > 0 /\ Height * Width \in Nat
      /\ MaxTokens \in Nat
  BY Sizes DEF Rows, Cell, Position
<1>2. Blank \in Printable
  BY LcdAssumption
<1>3. lcd \in Sound
  <2>1. PICK fitted \in BOOLEAN :
          lcd = [visible |-> [r \in Rows |-> [i \in 0 .. Width - 1 |-> Blank]], address |-> 0,
                 broken |-> ~fitted, fitted |-> fitted, cursor |-> 0,
                 ram |-> [a \in 0 .. (Height - 1) * RowGap + Width |-> Blank]]
    BY DEF Init
  <2>2. lcd \in Lcd
    BY <1>1, <1>2, <2>1 DEF Lcd, Picture, Cell
  <2>3. Believed(lcd)
    <3>1. /\ lcd.cursor = lcd.address /\ lcd.visible = [r \in Rows |-> [i \in 0 .. Width - 1 |-> Blank]]
          /\ lcd.ram = [a \in Cell |-> Blank]
      BY <2>1 DEF Cell
    <3>2. \A r \in Rows, i \in 0 .. Width - 1 : i + r * RowGap \in Cell
      BY Addresses
    <3>. QED
      BY <3>1, <3>2 DEF Believed
  <2>. QED
    BY <2>2, <2>3 DEF Sound
<1>4. data \in [Rows -> [0 .. VirtualWidth -> Printable]]
  BY <1>2 DEF Init, BlankLine
<1>5. TypeOK
  <2>1. /\ x \in 0 .. Byte - 1 /\ y \in 0 .. Height /\ left \in 0 .. MaxTokens
        /\ cell \in 0 .. Height * Width + 1 /\ scrollmax \in -Half .. Half - 1
    <3>1. 0 \in 0 .. Height * Width + 1
      BY <1>1
    <3>2. 0 \in -Half .. Half - 1 /\ 0 \in 0 .. Byte - 1 /\ 0 \in 0 .. Height /\ MaxTokens \in 0 .. MaxTokens
      BY <1>1, Sizes
    <3>. QED
      BY <3>1, <3>2 DEF Init
  <2>2. width \in [Rows -> 0 .. VirtualWidth + 1] /\ speed \in [Rows -> 0 .. Half]
    BY <1>1 DEF Init
  <2>. QED
    BY <1>1, <1>3, <1>4, <2>1, <2>2 DEF Init, TypeOK, Sound
<1>6. ~WorkedOut
  BY <1>1, Sizes DEF Init, WorkedOut
<1>. QED
  BY <1>3, <1>5, <1>6 DEF Init, LcdInv, Sound, PanelAsBelieved

----------------------------------------------------------------------------
(* The steps *)

LEMMA TokenStep ==
  ASSUME LcdInv, Token
  PROVE  LcdInv'
<1>1. pc = "chars" /\ TypeOK /\ PanelAsBelieved
  BY DEF Token, LcdInv
<1>2. PICK t \in Tokens : Interpret(t)
  BY DEF Token
<1>3. /\ left' = left - 1 /\ left > 0
      /\ UNCHANGED <<scrollpos, scrollmax, active, pc, painted, cell>>
  BY DEF Token
<1>4. t \in Written
  <2>1. Tokens \subseteq Written
    BY LcdAssumption
  <2>. QED
    BY <1>2, <2>1
<1>5. Blank \in Printable /\ BlankLine \in [0 .. VirtualWidth -> Printable]
  BY LcdAssumption DEF BlankLine
<1>6. lcd \in Sound /\ data \in [Rows -> [0 .. VirtualWidth -> Printable]]
  BY <1>1 DEF TypeOK, PanelAsBelieved, Sound
<1>7. /\ x \in Nat /\ x < Byte /\ y \in Nat /\ y <= Height /\ Height \in Nat /\ Height > 0
      /\ Byte \in Nat /\ Byte > 0 /\ Height < Byte
  BY <1>1, Sizes DEF TypeOK
<1>8. ASSUME NEW k \in Nat
      PROVE  Scrolled(data, k) \in [Rows -> [0 .. VirtualWidth -> Printable]]
  <2>1. \A r \in Rows : r + k < Height => r + k \in Rows
    BY <1>7 DEF Rows
  <2>. QED
    BY <1>5, <1>6, <2>1 DEF Scrolled
<1>. DEFINE Typed == /\ x' \in 0 .. Byte - 1 /\ y' \in 0 .. Height
                     /\ data' \in [Rows -> [0 .. VirtualWidth -> Printable]]
                     /\ width' \in [Rows -> 0 .. VirtualWidth + 1] /\ UNCHANGED speed
                     /\ lcd' \in Sound
<1>9. ASSUME NEW nx, NEW ny, NEW d, Move(nx, ny, d), nx \in 0 .. Byte - 1, ny \in 0 .. Height,
             d \in [Rows -> [0 .. VirtualWidth -> Printable]]
      PROVE  Typed
  BY <1>1, <1>6, <1>9 DEF Move, TypeOK
<1>10. Typed
  <2>1. CASE t.op = "print" /\ Put(t.char)
    <3>. DEFINE k == IF y >= Height THEN 1 ELSE 0
                d == Scrolled(data, k)
                e == IF x < VirtualWidth THEN [d EXCEPT ![y - k][x] = t.char] ELSE d
    <3>1. Move(UChar(x + 1), y - k, e)
      BY <2>1, Zenon DEF Put
    <3>2. k \in Nat /\ y - k \in 0 .. Height /\ y - k \in Rows
      BY <1>7 DEF Rows
    <3>3. d \in [Rows -> [0 .. VirtualWidth -> Printable]]
      BY <1>8, <3>2
    <3>4. UChar(x + 1) \in 0 .. Byte - 1
      BY <1>7, Unsigned
    <3>5. t.char \in Printable
      BY <1>4, <2>1 DEF Written
    <3>. HIDE DEF d
    <3>6. e \in [Rows -> [0 .. VirtualWidth -> Printable]]
      BY <3>2, <3>3, <3>5
    <3>. HIDE DEF e, Typed
    <3>. QED
      BY <1>9, <3>1, <3>2, <3>4, <3>6
  <2>2. CASE t.op = "CR" /\ Move(0, y, data)
    BY <1>6, <1>7, <1>9, <2>2
  <2>3. CASE t.op = "LF" /\ LineFeed
    <3>. DEFINE k == IF y + 1 > Height THEN 1 ELSE 0
    <3>1. Move(0, y + 1 - k, Scrolled(data, k))
      BY <2>3, Zenon DEF LineFeed
    <3>2. k \in Nat /\ y + 1 - k \in 0 .. Height /\ 0 \in 0 .. Byte - 1
      BY <1>7
    <3>3. Scrolled(data, k) \in [Rows -> [0 .. VirtualWidth -> Printable]]
      BY <1>8, <3>2
    <3>. HIDE DEF k, Typed
    <3>. QED
      BY <1>9, <3>1, <3>2, <3>3
  <2>4. CASE t.op = "BS" /\ Move(Larger(x - 1, 0), y, data)
    <3>1. Larger(x - 1, 0) \in 0 .. Byte - 1 /\ y \in 0 .. Height
      BY <1>7 DEF Larger
    <3>. HIDE DEF Typed
    <3>. QED
      BY <1>6, <1>9, <2>4, <3>1
  <2>5. CASE t.op = "H" /\ Goto(t.row, t.col)
    <3>. DEFINE to == IF t.row > 0 THEN Min({UChar(t.row - 1), 2 * Height}) ELSE y
                k == IF t.row > 0 THEN Larger(to - Height, 0) ELSE 0
                nx == IF t.col > 0 THEN UChar(t.col - 1) ELSE x
    <3>1. Move(nx, to - k, Scrolled(data, k))
      BY <2>5, Zenon DEF Goto
    <3>2. t.row \in Nat /\ t.col \in Nat
      BY <1>4, <2>5 DEF Written
    <3>3. nx \in 0 .. Byte - 1
      <4>1. t.col > 0 => t.col - 1 \in Nat
        BY <3>2
      <4>. QED
        BY <1>7, <4>1, Unsigned
    <3>4. k \in Nat /\ to - k \in 0 .. Height
      <4>1. CASE t.row > 0
        <5>. DEFINE u == UChar(t.row - 1)
        <5>1. u \in Nat
          <6>1. t.row - 1 \in Nat
            BY <3>2, <4>1
          <6>. QED
            BY <1>7, <6>1, Unsigned
        <5>. HIDE DEF u
        <5>2. Min({u, 2 * Height}) \in {u, 2 * Height}
          <6>1. u <= 2 * Height \/ 2 * Height <= u
            BY <1>7, <5>1
          <6>2. \E m \in {u, 2 * Height} : \A n \in {u, 2 * Height} : m <= n
            BY <1>7, <5>1, <6>1
          <6>. QED
            BY <6>2 DEF Min
        <5>3. to = Min({u, 2 * Height}) /\ k = Larger(to - Height, 0)
          BY <4>1 DEF u
        <5>4. to \in Nat
          BY <1>7, <5>1, <5>2, <5>3
        <5>. HIDE DEF to, k
        <5>. QED
          BY <1>7, <5>3, <5>4 DEF Larger
      <4>2. CASE ~(t.row > 0)
        BY <1>7, <4>2
      <4>. QED
        BY <4>1, <4>2
    <3>5. Scrolled(data, k) \in [Rows -> [0 .. VirtualWidth -> Printable]]
      BY <1>8, <3>4
    <3>. HIDE DEF to, k, nx, Typed
    <3>. QED
      BY <1>9, <3>1, <3>3, <3>4, <3>5
  <2>6. CASE t.op = "K" /\ EraseLine
    <3>1. \A r \in Rows : [i \in 0 .. VirtualWidth |->
                             IF i \in x .. VirtualWidth - 1 THEN Blank ELSE data[r][i]]
                           \in [0 .. VirtualWidth -> Printable]
      BY <1>5, <1>6
    <3>2. data' \in [Rows -> [0 .. VirtualWidth -> Printable]]
      BY <1>6, <2>6, <3>1 DEF EraseLine
    <3>. QED
      BY <1>1, <1>6, <2>6, <3>2 DEF EraseLine, TypeOK
  <2>7. CASE t.op = "2J" /\ ClearScreen
    <3>1. Cleared(lcd) \in Sound
      BY <1>6, ClearedSound
    <3>2. 0 \in 0 .. VirtualWidth + 1
      BY Sizes
    <3>. QED
      BY <1>1, <1>5, <1>7, <2>7, <3>1, <3>2 DEF ClearScreen, TypeOK
  <2>. QED
    BY <1>2, <2>1, <2>2, <2>3, <2>4, <2>5, <2>6, <2>7 DEF Interpret
<1>11. left' \in 0 .. MaxTokens
  BY <1>1, <1>3, Sizes DEF TypeOK
<1>12. TypeOK'
  BY <1>1, <1>3, <1>10, <1>11 DEF TypeOK, Sound
<1>13. PanelAsBelieved'
  BY <1>10 DEF Sound, PanelAsBelieved, Believed
<1>. QED
  BY <1>1, <1>3, <1>10, <1>12, <1>13 DEF LcdInv
LEMMA WriteStep ==
  ASSUME LcdInv, Write
  PROVE  LcdInv'
<1>1. /\ UNCHANGED <<x, y, data, width, speed, scrollpos, scrollmax, lcd, left, painted, cell>>
      /\ active' = TRUE /\ pc' = "chars"
  BY DEF Write, terminal
<1>2. TypeOK'
  BY <1>1 DEF LcdInv, TypeOK
<1>3. PanelAsBelieved'
  BY <1>1 DEF LcdInv, PanelAsBelieved
<1>. QED
  BY <1>1, <1>2, <1>3 DEF LcdInv

\* A line that does not scroll gets no speed.
LEMMA RecalculateStep ==
  ASSUME LcdInv, Recalculate
  PROVE  LcdInv'
<1>. DEFINE m == 2 * Max({TextWidth(r) : r \in Rows})
<1>1. /\ TypeOK /\ PanelAsBelieved /\ active = TRUE /\ LinesTyped
      /\ pc' = "repaint" /\ UNCHANGED <<x, y, data, scrollpos, active, lcd, left, painted, cell>>
  BY DEF LcdInv, Recalculate, TypeOK, LinesTyped
<1>2. /\ width' = [r \in Rows |-> TextWidth(r)]
      /\ speed' = [r \in Rows |-> Speed(r, m)]
      /\ scrollmax' = IF m <= 2 * Width THEN 0 ELSE Char(m)
  BY Zenon DEF Recalculate
<1>3. /\ m \in 1 .. Byte - 1
      /\ \A r \in Rows : Speed(r, m) \in 0 .. Half /\ (m <= 2 * Width => Speed(r, m) = 0)
  BY <1>1, Speeds
<1>. HIDE DEF m
<1>4. Char(m) \in -Half .. Half - 1 /\ Char(m) # 0
  BY <1>3, Signed
<1>5. \A r \in Rows : TextWidth(r) \in Width .. VirtualWidth + 1
  BY <1>1, TextWidths
<1>6. /\ width' \in [Rows -> 0 .. VirtualWidth + 1] /\ \A r \in Rows : width'[r] >= Width
  BY <1>2, <1>5, Sizes
<1>7. speed' \in [Rows -> 0 .. Half] /\ scrollmax' \in -Half .. Half - 1
  <2>1. 0 \in -Half .. Half - 1
    BY Sizes
  <2>. QED
    BY <1>2, <1>3, <1>4, <2>1
<1>8. scrollmax' = 0 => \A r \in Rows : speed'[r] = 0
  BY <1>2, <1>3, <1>4
<1>9. TypeOK'
  BY <1>1, <1>6, <1>7 DEF TypeOK
<1>10. PanelAsBelieved'
  BY <1>1 DEF PanelAsBelieved
<1>. QED
  BY <1>1, <1>6, <1>8, <1>9, <1>10 DEF LcdInv, WorkedOut

LEMMA RepaintStep ==
  ASSUME LcdInv, Repaint
  PROVE  LcdInv'
<1>1. /\ UNCHANGED <<x, y, data, width, speed, scrollpos, scrollmax, active, lcd, left>>
      /\ pc = "repaint" /\ pc' = "cells" /\ painted' = scrollpos /\ cell' = 1
  BY DEF Repaint, terminal
<1>2. TypeOK'
  <2>1. 1 \in 0 .. Height * Width + 1
    <3>1. Height * Width \in Nat
      BY Sizes
    <3>. QED
      BY <3>1
  <2>. QED
    BY <1>1, <2>1 DEF LcdInv, TypeOK
<1>3. PanelAsBelieved' /\ WorkedOut'
  BY <1>1, SameShown DEF LcdInv, PanelAsBelieved
<1>4. \A r \in Rows, i \in 0 .. Width - 1 : ~(r * Width + i + 1 < 1)
  <2>1. \A r \in Rows, i \in 0 .. Width - 1 : r * Width + i + 1 \in 1 .. Height * Width
    BY CellOf
  <2>2. Height * Width \in Nat
    BY Sizes
  <2>. QED
    BY <2>1, <2>2
<1>. QED
  BY <1>1, <1>2, <1>3, <1>4 DEF LcdInv

LEMMA PaintCellStep ==
  ASSUME LcdInv, PaintCell
  PROVE  LcdInv'
<1>1. /\ UNCHANGED <<x, y, data, width, speed, scrollpos, scrollmax, active, pc, left, painted>>
      /\ pc = "cells" /\ cell <= Height * Width /\ lcd' = Paint(lcd, cell, painted) /\ cell' = cell + 1
  BY DEF PaintCell, terminal
<1>2. /\ TypeOK /\ PanelAsBelieved /\ WorkedOut /\ LinesTyped /\ lcd \in Sound /\ painted \in Position
      /\ cell \in 1 .. Height * Width /\ cell + 1 \in 0 .. Height * Width + 1 /\ cell \in Nat
  <2>1. TypeOK /\ PanelAsBelieved /\ WorkedOut /\ cell >= 1
    BY <1>1 DEF LcdInv
  <2>2. Height * Width \in Nat
    BY Sizes
  <2>. QED
    BY <1>1, <2>1, <2>2 DEF TypeOK, LinesTyped, Sound, PanelAsBelieved
<1>3. /\ lcd' \in Sound
      /\ \A r \in Rows, i \in 0 .. Width - 1 :
            lcd'.visible[r][i] = IF r * Width + i + 1 = cell THEN Shown(r, i, painted) ELSE lcd.visible[r][i]
  BY <1>1, <1>2, PaintOne
<1>4. TypeOK'
  BY <1>1, <1>2, <1>3 DEF TypeOK, Sound
<1>5. PanelAsBelieved' /\ WorkedOut'
  BY <1>1, <1>2, <1>3, SameShown DEF Sound, PanelAsBelieved, Believed
<1>6. ASSUME NEW r \in Rows, NEW i \in 0 .. Width - 1, r * Width + i + 1 < cell'
      PROVE  lcd'.visible[r][i] = Shown(r, i, painted)'
  <2>. DEFINE j == r * Width + i + 1
  <2>1. j \in 1 .. Height * Width
    BY CellOf
  <2>. HIDE DEF j
  <2>2. j < cell + 1 => j = cell \/ j < cell
    BY <1>2, <2>1
  <2>3. r * Width + i + 1 = cell \/ r * Width + i + 1 < cell
    BY <1>1, <1>6, <2>2 DEF j
  <2>4. r * Width + i + 1 < cell => lcd.visible[r][i] = Shown(r, i, painted)
    BY <1>1 DEF LcdInv
  <2>5. lcd'.visible[r][i] = Shown(r, i, painted)
    BY <1>3, <2>3, <2>4
  <2>6. Shown(r, i, painted)' = Shown(r, i, painted)
    BY <1>1 DEF Shown, Offset
  <2>. QED
    BY <2>5, <2>6
<1>7. cell' >= 1
  BY <1>1, <1>2
<1>. QED
  BY <1>1, <1>4, <1>5, <1>6, <1>7 DEF LcdInv

LEMMA PaintEndStep ==
  ASSUME LcdInv, PaintEnd
  PROVE  LcdInv'
<1>1. /\ UNCHANGED <<x, y, data, width, speed, scrollpos, scrollmax, lcd, left, painted>>
      /\ pc = "cells" /\ cell > Height * Width /\ active' = FALSE /\ cell' = 0 /\ pc' = "check"
  BY DEF PaintEnd, terminal
<1>2. TypeOK'
  <2>1. 0 \in 0 .. Height * Width + 1
    <3>1. Height * Width \in Nat
      BY Sizes
    <3>. QED
      BY <3>1
  <2>. QED
    BY <1>1, <2>1 DEF LcdInv, TypeOK
<1>3. PanelAsBelieved' /\ WorkedOut'
  BY <1>1, SameShown DEF LcdInv, PanelAsBelieved
<1>4. \A r \in Rows, i \in 0 .. Width - 1 : r * Width + i + 1 < cell
  <2>1. \A r \in Rows, i \in 0 .. Width - 1 : r * Width + i + 1 \in 1 .. Height * Width
    BY CellOf
  <2>2. Height * Width \in Nat /\ cell \in Nat
    <3>1. Height * Width \in Nat
      BY Sizes
    <3>. QED
      BY <3>1 DEF LcdInv, TypeOK
  <2>. QED
    BY <1>1, <2>1, <2>2
<1>5. Shows(painted)
  BY <1>1, <1>4 DEF LcdInv, Shows
<1>6. Shows(painted)'
  <2>1. \A r, i : Shown(r, i, painted)' = Shown(r, i, painted)
    BY <1>1 DEF Shown, Offset
  <2>. QED
    BY <1>1, <1>5, <2>1 DEF Shows
<1>. QED
  BY <1>1, <1>2, <1>3, <1>6 DEF LcdInv

LEMMA CheckStep ==
  ASSUME LcdInv, Check
  PROVE  LcdInv'
<1>1. /\ UNCHANGED <<x, y, data, width, speed, scrollpos, scrollmax, lcd, left, cell>> /\ pc = "check"
  BY DEF Check, terminal
<1>2. \A pos : Shows(pos)' <=> Shows(pos)
  <2>1. \A pos, r, i : Shown(r, i, pos)' = Shown(r, i, pos)
    BY <1>1 DEF Shown, Offset
  <2>. QED
    BY <1>1, <2>1 DEF Shows
<1>3. PanelAsBelieved' /\ WorkedOut' /\ (scrollmax' = 0 => \A r \in Rows : speed'[r] = 0)
  BY <1>1, SameShown DEF LcdInv, PanelAsBelieved
<1>4. scrollpos \in Position /\ 0 \in Position
  BY Sizes DEF LcdInv, TypeOK, Position
<1>5. CASE scrollpos = painted
  <2>1. pc' = "idle" /\ painted' = 0 /\ active' = active /\ active = FALSE
    BY <1>1, <1>5 DEF Check, LcdInv, TypeOK
  <2>2. Shows(scrollpos)
    BY <1>1, <1>5 DEF LcdInv
  <2>3. TypeOK'
    BY <1>1, <1>4, <2>1 DEF LcdInv, TypeOK
  <2>4. scrollpos' \in Position /\ Shows(scrollpos)'
    BY <1>1, <1>2, <1>4, <2>2
  <2>5. \E pos \in Position : (scrollmax' >= 0 => pos = scrollpos') /\ Shows(pos)'
    BY <1>1, <1>2, <1>4, <2>2
  <2>. QED
    BY <1>1, <1>3, <2>1, <2>3, <2>5 DEF LcdInv
<1>6. CASE scrollpos # painted
  <2>1. pc' = "repaint" /\ active' = TRUE /\ painted' = painted
    BY <1>6 DEF Check
  <2>2. TypeOK'
    BY <1>1, <2>1 DEF LcdInv, TypeOK
  <2>. QED
    BY <1>1, <1>3, <2>1, <2>2 DEF LcdInv
<1>. QED
  BY <1>5, <1>6

LEMMA UnplugStep ==
  ASSUME LcdInv, Unplug
  PROVE  LcdInv'
<1>1. /\ UNCHANGED <<x, y, data, width, speed, scrollpos, scrollmax, active, pc, left, painted, cell>>
      /\ lcd' = [lcd EXCEPT !.fitted = FALSE]
  BY DEF Unplug, terminal
<1>2. lcd \in Sound
  BY DEF LcdInv, TypeOK, PanelAsBelieved, Sound
<1>3. lcd' \in Lcd /\ lcd'.visible = lcd.visible /\ lcd'.ram = lcd.ram
      /\ lcd'.broken = lcd.broken /\ lcd'.cursor = lcd.cursor /\ lcd'.address = lcd.address
  BY <1>1, <1>2 DEF Sound, Lcd
<1>4. TypeOK' /\ PanelAsBelieved'
  BY <1>1, <1>2, <1>3 DEF LcdInv, TypeOK, PanelAsBelieved, Believed, Sound
<1>5. \A pos : Shows(pos)' <=> Shows(pos)
  <2>1. \A pos, r, i : Shown(r, i, pos)' = Shown(r, i, pos)
    BY <1>1 DEF Shown, Offset
  <2>. QED
    BY <1>1, <1>3, <2>1 DEF Shows
<1>6. WorkedOut' <=> WorkedOut
  BY <1>1 DEF WorkedOut
<1>. QED
  BY <1>1, <1>3, <1>4, <1>5, <1>6, SameShown DEF LcdInv, Shows
\* The alarm paints at the position it moves to, or nothing is to be moved.
LEMMA TimeoutStep ==
  ASSUME LcdInv, Timeout
  PROVE  LcdInv'
<1>1. /\ UNCHANGED <<x, y, data, width, speed, scrollmax, active, pc, left, painted, cell>>
      /\ scrollpos' = IF scrollpos + 1 >= scrollmax THEN 0 ELSE scrollpos + 1
      /\ lcd' = IF scrollmax > 0 /\ ~active THEN lcd_repaint_screen(lcd, scrollpos') ELSE lcd
  BY DEF Timeout, Advance, terminal
<1>2. /\ TypeOK /\ PanelAsBelieved /\ LinesTyped /\ lcd \in Sound
      /\ scrollpos \in Position /\ scrollmax \in -Half .. Half - 1 /\ active \in BOOLEAN
  BY DEF LcdInv, TypeOK, LinesTyped, Sound, PanelAsBelieved
<1>3. scrollpos' \in Position
  BY <1>1, <1>2, Sizes DEF Position
<1>4. \A r, i, pos : Shown(r, i, pos)' = Shown(r, i, pos)
  BY <1>1 DEF Shown, Offset
<1>5. WorkedOut' <=> WorkedOut
  BY <1>1 DEF WorkedOut
<1>6. CASE scrollmax > 0 /\ ~active
  <2>1. pc \in {"idle", "check"}
    BY <1>2, <1>6 DEF LcdInv, TypeOK
  <2>2. WorkedOut
    BY <1>2, <1>6, <2>1 DEF LcdInv
  <2>3. /\ lcd' \in Sound
        /\ \A r \in Rows, i \in 0 .. Width - 1 : lcd'.visible[r][i] = Shown(r, i, scrollpos')
    BY <1>1, <1>2, <1>3, <1>6, <2>2, RepaintAll
  <2>4. \A r \in Rows, i \in 0 .. Width - 1 : lcd'.visible[r][i] = Shown(r, i, scrollpos)'
    BY <1>1, <2>3 DEF Shown, Offset
  <2>5. Shows(scrollpos)'
    BY <2>4 DEF Shows
  <2>6. TypeOK' /\ PanelAsBelieved'
    BY <1>1, <1>2, <1>3, <2>3 DEF TypeOK, Sound, PanelAsBelieved, Believed
  <2>7. \E pos \in Position : (scrollmax' >= 0 => pos = scrollpos') /\ Shows(pos)'
    <3>1. PICK p \in Position : p = scrollpos'
      BY <1>3
    <3>2. Shows(p)'
      BY <1>4, <2>3, <3>1 DEF Shows
    <3>. QED
      BY <3>1, <3>2
  <2>. QED
    BY <1>1, <1>5, <1>6, <2>1, <2>2, <2>5, <2>6, <2>7 DEF LcdInv
<1>7. CASE ~(scrollmax > 0 /\ ~active)
  <2>1. lcd' = lcd
    BY <1>1, <1>7
  <2>2. TypeOK' /\ PanelAsBelieved'
    BY <1>1, <1>2, <1>3, <2>1 DEF TypeOK, PanelAsBelieved
  <2>3. \A pos : Shows(pos)' <=> Shows(pos)
    BY <1>4, <2>1 DEF Shows
  <2>4. Shows(painted)' <=> Shows(painted)
    BY <1>1, <1>4, <2>1 DEF Shows
  <2>5. pc = "cells" => \A r \in Rows, i \in 0 .. Width - 1 :
                          r * Width + i + 1 < cell' => lcd'.visible[r][i] = Shown(r, i, painted)'
    <3>1. \A r, i : Shown(r, i, painted)' = Shown(r, i, painted)
      BY <1>1 DEF Shown, Offset
    <3>. QED
      BY <1>1, <2>1, <3>1 DEF LcdInv
  <2>6. pc = "check" => Shows(painted)'
    BY <1>2, <1>7, <2>4 DEF LcdInv
  <2>7. ASSUME pc = "idle", WorkedOut
        PROVE  \E pos \in Position : (scrollmax' >= 0 => pos = scrollpos') /\ Shows(pos)'
    <3>1. ~active /\ ~(scrollmax > 0)
      BY <1>7, <2>7 DEF LcdInv
    <3>2. PICK pos \in Position : Shows(pos)
      BY <2>7 DEF LcdInv
    <3>3. CASE scrollmax = 0
      <4>1. \A r \in Rows : speed[r] = 0
        BY <3>3 DEF LcdInv
      <4>2. PICK p \in Position : p = scrollpos'
        BY <1>3
      <4>3. \A r \in Rows : Offset(r, pos) = Offset(r, p)
        BY <4>1 DEF Offset, Position
      <4>4. Shows(p)
        BY <3>2, <4>3 DEF Shows, Shown
      <4>. QED
        BY <2>3, <4>2, <4>4
    <3>4. CASE scrollmax < 0
      BY <1>1, <1>2, <2>3, <3>2, <3>4
    <3>. QED
      BY <1>2, <3>1, <3>3, <3>4
  <2>. QED
    BY <1>1, <1>5, <2>2, <2>5, <2>6, <2>7 DEF LcdInv
<1>. QED
  BY <1>6, <1>7

LEMMA StepInv == LcdInv /\ [Next]_vars => LcdInv'
<1>. SUFFICES ASSUME LcdInv, [Next]_vars
              PROVE  LcdInv'
  OBVIOUS
<1>1. CASE Next
  BY <1>1, WriteStep, TokenStep, RecalculateStep, RepaintStep, PaintCellStep, PaintEndStep, CheckStep,
     TimeoutStep, UnplugStep DEF Next, Foreground
<1>2. CASE UNCHANGED vars
  <2>1. UNCHANGED <<x, y, data, width, speed, scrollpos, scrollmax, active, lcd, pc, left, painted, cell>>
    BY <1>2 DEF vars, terminal
  <2>2. TypeOK' /\ PanelAsBelieved' /\ (WorkedOut' <=> WorkedOut)
    BY <2>1 DEF LcdInv, TypeOK, PanelAsBelieved, WorkedOut
  <2>3. \A r, i, pos : Shown(r, i, pos)' = Shown(r, i, pos)
    BY <2>1 DEF Shown, Offset
  <2>4. /\ \A pos : Shows(pos)' <=> Shows(pos)
        /\ (Shows(painted)' <=> Shows(painted)) /\ (Shows(scrollpos)' <=> Shows(scrollpos))
    BY <2>1, <2>3 DEF Shows
  <2>5. \A r, i : Shown(r, i, painted)' = Shown(r, i, painted)
    BY <2>1 DEF Shown, Offset
  <2>. QED
    BY <2>1, <2>2, <2>4, <2>5 DEF LcdInv
<1>. QED
  BY <1>1, <1>2

LEMMA LcdInvariance == Spec => []LcdInv
<1>. QED
  BY InitInv, StepInv, PTL DEF Spec

----------------------------------------------------------------------------
(* What follows *)

\* Every variable of the driver and of the panel keeps its type; no write to
\* the panel's memory goes outside it.
THEOREM LcdTypeCorrect == Spec => []TypeOK
<1>1. LcdInv => TypeOK
  BY DEF LcdInv
<1>. QED
  BY <1>1, LcdInvariance, PTL

\* Between writes the panel shows the text at the present scroll position,
\* whenever the alarm went off during the write, and the driver knows what the
\* panel holds (altera_avalon_lcd_16207_write, alt_lcd_16207_timeout).
THEOREM TextCorrect == Spec => []ShowsText
<1>1. LcdInv => ShowsText
  <2>. SUFFICES ASSUME LcdInv
                PROVE  ShowsText
    OBVIOUS
  <2>1. TypeOK /\ PanelAsBelieved
    BY DEF LcdInv
  <2>2. WidthsWhenPainting
    <3>1. active \in BOOLEAN /\ pc \in {"idle", "chars", "repaint", "cells", "check"}
      BY <2>1 DEF TypeOK
    <3>2. scrollmax > 0 => scrollmax # 0
      BY <2>1, Sizes DEF TypeOK
    <3>3. scrollmax > 0 /\ ~active => WorkedOut
      BY <3>1, <3>2 DEF LcdInv
    <3>4. pc = "cells" => WorkedOut
      BY DEF LcdInv
    <3>. QED
      BY <3>3, <3>4 DEF WidthsWhenPainting, WorkedOut
  <2>3. ASSUME pc = "idle", \A r \in Rows : width[r] > 0
        PROVE  \E pos \in Position : (scrollmax >= 0 => pos = scrollpos) /\ Shows(pos)
    <3>1. 0 \in Rows
      BY Sizes DEF Rows
    <3>2. WorkedOut
      BY <2>3, <3>1 DEF LcdInv
    <3>. QED
      BY <2>3, <3>2 DEF LcdInv
  <2>. QED
    BY <2>1, <2>2, <2>3 DEF ShowsText
<1>. QED
  BY <1>1, LcdInvariance, PTL

----------------------------------------------------------------------------
(* The speeds *)

\* A line of w characters, in m positions of which the longest line needs two
\* for each character: at the speed the driver works out, every character has
\* a position, and the last position is the last character's.
LEMMA Gear ==
  ASSUME NEW w \in Nat, w > 0, NEW m \in Nat, 2 * w <= m, m < Half,
         NEW s, s = (Byte * w) \div m
  PROVE  /\ \A k \in 0 .. w - 1 : \E pos \in 0 .. m - 1 : (pos * s) \div Byte = k
         /\ ((m - 1) * s) \div Byte = w - 1
<1>1. Byte \in Nat /\ Half \in Nat /\ Byte = 2 * Half /\ Byte > 0 /\ m > 0
  BY Sizes
<1>2. s \in Nat /\ m * s <= Byte * w /\ Byte * w < m * s + m /\ m * s \in Nat /\ Byte * w \in Nat
  <2>. DEFINE a == Byte * w
  <2>1. a \in Nat /\ s = a \div m /\ m \in Nat \ {0}
    BY <1>1
  <2>. HIDE DEF a
  <2>2. s \in Nat /\ a % m \in 0 .. m - 1 /\ a = m * s + (a % m)
    BY <2>1, Division
  <2>3. m * s \in Nat
    BY <2>2
  <2>4. m * s <= a /\ a < m * s + m
    BY <2>1, <2>2, <2>3
  <2>. QED
    BY <2>1, <2>2, <2>3, <2>4 DEF a
<1>3. Byte * (w - 1) = Byte * w - Byte /\ Byte * w >= Byte /\ Byte * (w - 1) \in Nat
  BY <1>1
<1>4. s > 0
  <2>1. s = 0 => m * s = 0
    OBVIOUS
  <2>. QED
    BY <1>1, <1>2, <1>3, <2>1
<1>5. s <= Half
  <2>1. \A b, h \in Nat : 2 * b <= m => (2 * h) * b <= h * m
    BY Products
  <2>2. Byte * w <= Half * m
    BY <1>1, <2>1
  <2>3. \A a, b, n \in Nat : n > 0 /\ a > b => n * a > b * n
    OBVIOUS
  <2>4. s > Half => m * s > Half * m
    BY <1>1, <1>2, <2>3
  <2>5. Half * m \in Nat
    BY <1>1
  <2>. QED
    BY <1>1, <1>2, <2>2, <2>4, <2>5
<1>6. (m - 1) * s = m * s - s
  BY <1>2
<1>7. (m - 1) * s >= Byte * (w - 1) /\ (m - 1) * s < Byte * w
  BY <1>1, <1>2, <1>3, <1>4, <1>5, <1>6
<1>8. ASSUME NEW n \in Nat, NEW k \in Nat, Byte * k <= n, n < Byte * k + Byte
      PROVE  n \div Byte = k
  <2>1. n - Byte * k \in 0 .. Byte - 1 /\ Byte \in Nat \ {0} /\ Byte * k \in Nat
    BY <1>1, <1>8
  <2>2. Byte * k + (n - Byte * k) = n
    BY <2>1
  <2>3. (Byte * k + (n - Byte * k)) \div Byte = k
    BY <2>1, Quotient, Zenon
  <2>. QED
    BY <2>2, <2>3
<1>9. ((m - 1) * s) \div Byte = w - 1
  <2>1. (m - 1) * s \in Nat /\ w - 1 \in Nat
    BY <1>1, <1>2, <1>6, <1>7, <1>3
  <2>2. (m - 1) * s < Byte * (w - 1) + Byte
    BY <1>1, <1>2, <1>3, <1>7
  <2>. QED
    BY <1>7, <1>8, <2>1, <2>2
<1>10. ASSUME NEW k \in 0 .. w - 1
       PROVE  \E pos \in 0 .. m - 1 : (pos * s) \div Byte = k
  <2>. DEFINE b == Byte * k
              a == b + (s - 1)
              pos == a \div s
  <2>1. k \in Nat /\ b \in Nat /\ b <= Byte * (w - 1)
    <3>1. \A x1, y1 \in Nat : x1 <= y1 => Byte * x1 <= Byte * y1
      BY <1>1
    <3>2. k \in Nat /\ w - 1 \in Nat /\ k <= w - 1
      OBVIOUS
    <3>. QED
      BY <1>1, <3>1, <3>2
  <2>. HIDE DEF b
  <2>2. a \in Nat /\ s \in Nat \ {0}
    BY <1>2, <1>4, <2>1
  <2>3. pos \in Nat /\ a % s \in 0 .. s - 1 /\ a = s * pos + (a % s)
    BY <2>2, Division
  <2>4. a = b + (s - 1)
    OBVIOUS
  <2>. HIDE DEF pos, a
  <2>5. s * pos \in Nat /\ pos * s = s * pos
    BY <2>2, <2>3
  <2>6. b <= s * pos /\ s * pos < b + s
    BY <2>1, <2>2, <2>3, <2>4, <2>5
  <2>7. pos <= m - 1
    <3>1. \A p \in Nat : p >= m => s * p >= m * s
      BY <1>2
    <3>2. SUFFICES ASSUME pos >= m
                   PROVE  FALSE
      BY <1>1, <2>3
    <3>3. s * pos >= m * s
      BY <2>3, <3>1, <3>2
    <3>4. m * s - s >= b
      BY <1>2, <1>3, <1>6, <1>7, <2>1
    <3>. QED
      BY <1>2, <2>1, <2>5, <2>6, <3>3, <3>4
  <2>8. b <= pos * s /\ pos * s < b + Byte /\ pos * s \in Nat
    BY <1>1, <1>5, <2>1, <2>2, <2>5, <2>6
  <2>9. (pos * s) \div Byte = k
    BY <1>8, <2>1, <2>8 DEF b
  <2>10. pos \in 0 .. m - 1
    BY <1>1, <2>3, <2>7
  <2>. QED
    BY <2>9, <2>10
<1>. QED
  BY <1>9, <1>10

\* What the last write worked out: twice the longest width, and from it the
\* speed of each line.
Geared ==
  pc # "chars" /\ scrollmax > 0 =>
    \A r \in Rows : width[r] > Width =>
      2 * width[r] <= scrollmax /\ scrollmax < Half
      /\ speed[r] = (Byte * width[r]) \div scrollmax

\* The end of a write works the speeds out together.
LEMMA RecalculateGears ==
  ASSUME LcdInv, Recalculate
  PROVE  Geared'
<1>. DEFINE W == {TextWidth(r) : r \in Rows}
            top == Max(W)
            m == 2 * top
<1>1. LinesTyped
  BY DEF LcdInv, TypeOK, LinesTyped
<1>2. /\ width' = [r \in Rows |-> TextWidth(r)]
      /\ speed' = [r \in Rows |-> Speed(r, m)]
      /\ scrollmax' = IF m <= 2 * Width THEN 0 ELSE Char(m)
  BY Zenon DEF Recalculate
<1>3. /\ m \in 1 .. Byte - 1
      /\ \A r \in Rows : TextWidth(r) > Width => Speed(r, m) = (Byte * TextWidth(r)) \div m
  BY <1>1, Speeds
<1>4. top \in W /\ \A v \in W : top >= v
  <2>1. VirtualWidth + 1 \in Nat /\ 0 \in Rows
    BY Sizes DEF Rows
  <2>2. W \in SUBSET (0 .. VirtualWidth + 1) /\ W # {}
    BY <1>1, <2>1, TextWidths, Sizes
  <2>. HIDE DEF W
  <2>. QED
    BY <2>1, <2>2, Largest, Zenon
<1>5. \A r \in Rows : TextWidth(r) \in W /\ TextWidth(r) \in Nat /\ top >= TextWidth(r)
  BY <1>1, <1>4, TextWidths, Sizes
<1>6. m = 2 * top /\ top \in Nat
  BY <1>1, <1>4, <1>5
<1>. HIDE DEF m, top, W
<1>7. ASSUME scrollmax' > 0, NEW r \in Rows, width'[r] > Width
      PROVE  2 * width'[r] <= scrollmax' /\ scrollmax' < Half
             /\ speed'[r] = (Byte * width'[r]) \div scrollmax'
  <2>1. width'[r] = TextWidth(r) /\ speed'[r] = Speed(r, m) /\ TextWidth(r) > Width
    BY <1>2, <1>7
  <2>2. scrollmax' = Char(m)
    BY <1>2, <1>7
  <2>3. m < Half /\ scrollmax' = m
    BY <1>3, <1>7, <2>2, Signed
  <2>4. 2 * TextWidth(r) <= m
    BY <1>5, <1>6
  <2>. QED
    BY <1>3, <2>1, <2>3, <2>4
<1>. QED
  BY <1>7 DEF Geared

LEMMA GearedInvariance == Spec => []Geared
<1>1. Init => Geared
  BY DEF Init, Geared
<1>2. LcdInv /\ Geared /\ [Next]_vars => Geared'
  <2>. SUFFICES ASSUME LcdInv, Geared, [Next]_vars
                PROVE  Geared'
    OBVIOUS
  <2>1. CASE Write \/ Token
    <3>1. pc' = "chars"
      BY <2>1 DEF Write, Token
    <3>. QED
      BY <3>1 DEF Geared
  <2>2. CASE Recalculate
    BY <2>2, RecalculateGears
  <2>3. CASE Repaint \/ PaintCell \/ PaintEnd \/ Check \/ Timeout \/ Unplug \/ UNCHANGED vars
    <3>1. UNCHANGED <<width, speed, scrollmax>> /\ (pc' # "chars" => pc # "chars")
      BY <2>3 DEF Repaint, PaintCell, PaintEnd, Check, Timeout, Unplug, vars, terminal
    <3>. QED
      BY <3>1 DEF Geared
  <2>. QED
    BY <2>1, <2>2, <2>3 DEF Next, Foreground
<1>. QED
  BY <1>1, <1>2, LcdInvariance, PTL DEF Spec

\* All lines that scroll go round in the same number of positions, whatever
\* their lengths, and stand at their last characters together
\* (altera_avalon_lcd_16207_write, "so that all the scrolls finish at the same
\* time").
THEOREM LinesGoRoundCorrect == Spec => []LinesGoRound
<1>1. LcdInv /\ Geared => LinesGoRound
  <2>. SUFFICES ASSUME LcdInv, Geared, pc # "chars", scrollmax > 0,
                       NEW r \in Rows, width[r] > Width
                PROVE  /\ \A k \in 0 .. width[r] - 1 :
                            \E pos \in 0 .. scrollmax - 1 : Offset(r, pos) = k
                       /\ Offset(r, scrollmax - 1) = width[r] - 1
    BY DEF LinesGoRound
  <2>. DEFINE w == width[r]
              m == scrollmax
              s == speed[r]
  <2>1. w \in Nat /\ w > 0 /\ m \in Nat /\ m > 0
    <3>1. width \in [Rows -> 0 .. VirtualWidth + 1] /\ scrollmax \in -Half .. Half - 1
      BY DEF LcdInv, TypeOK
    <3>. QED
      BY <3>1, Sizes
  <2>2. 2 * w <= m /\ m < Half /\ s = (Byte * w) \div m
    BY DEF Geared
  <2>3. \A pos : Offset(r, pos) = IF (pos * s) \div Byte >= w THEN 0 ELSE (pos * s) \div Byte
    BY DEF Offset
  <2>. HIDE DEF w, m, s
  <2>4. /\ \A k \in 0 .. w - 1 : \E pos \in 0 .. m - 1 : (pos * s) \div Byte = k
        /\ ((m - 1) * s) \div Byte = w - 1
    BY <2>1, <2>2, Gear
  <2>5. ASSUME NEW k \in 0 .. w - 1
        PROVE  \E pos \in 0 .. m - 1 : Offset(r, pos) = k
    <3>1. PICK pos \in 0 .. m - 1 : (pos * s) \div Byte = k
      BY <2>4
    <3>2. Offset(r, pos) = k
      BY <2>1, <2>3, <3>1
    <3>. QED
      BY <3>2
  <2>6. Offset(r, m - 1) = w - 1
    BY <2>1, <2>3, <2>4
  <2>. QED
    BY <2>5, <2>6 DEF w, m
<1>. QED
  BY <1>1, LcdInvariance, GearedInvariance, PTL
=============================================================================
