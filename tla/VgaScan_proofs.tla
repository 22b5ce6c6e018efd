--------------------------- MODULE VgaScan_proofs ---------------------------
(***************************************************************************)
(* Proofs about VgaScan, for every timing of the picture, every sequence   *)
(* of writes to the cursor registers and any number of resets.             *)
(*                                                                         *)
(* That the right pixel is shown depends on what each register of the two  *)
(* pipelines was given some edges ago.  The invariant says for each one of *)
(* which count of the line it holds the address, as soon as it can hold    *)
(* one: Due is the address the generator has at a count.                   *)
(***************************************************************************)
EXTENDS VgaScan, TLAPS

----------------------------------------------------------------------------
(* Pixels and addresses. *)

\* The widths of the address registers.
LEMMA Widths ==
  /\ Pixels \in Nat /\ Bytes \in Nat /\ oAddressRange \in Nat
  /\ Bytes > 0 /\ Pixels = 8 * Bytes /\ oAddressRange = 2 * Pixels
  BY SMT DEF Pixels, Bytes, oAddressRange

\* A place of the picture has an address within the pixel memory, and no two places of
\* a row have the same one.
LEMMA PixelRange ==
  ASSUME NEW column \in 0 .. H_SYNC_ACT - 1, NEW row \in 0 .. V_SYNC_ACT - 1
  PROVE  PixelIn(column, row) \in 0 .. Pixels - 1
<1>1. H_SYNC_ACT \in Nat /\ V_SYNC_ACT \in Nat /\ H_SYNC_ACT * V_SYNC_ACT <= Pixels
  BY TimingAssumption
<1>2. row * H_SYNC_ACT \in Nat /\ H_SYNC_ACT * V_SYNC_ACT \in Nat
  BY <1>1
<1>3. row * H_SYNC_ACT <= (V_SYNC_ACT - 1) * H_SYNC_ACT
  BY <1>1
<1>4. (V_SYNC_ACT - 1) * H_SYNC_ACT = H_SYNC_ACT * V_SYNC_ACT - H_SYNC_ACT
  BY <1>1
<1>5. QED
  BY <1>1, <1>2, <1>3, <1>4, Widths DEF PixelIn

LEMMA PixelsDiffer ==
  ASSUME NEW c \in 0 .. H_SYNC_ACT - 1, NEW d \in 0 .. H_SYNC_ACT - 1,
         NEW row \in 0 .. V_SYNC_ACT - 1, PixelIn(c, row) = PixelIn(d, row)
  PROVE  c = d
<1>1. row * H_SYNC_ACT \in Nat
  BY TimingAssumption
<1>2. QED
  BY <1>1 DEF PixelIn

\* The cell of a pixel determines the pixel, and is one of the memory.
LEMMA CellRange ==
  ASSUME NEW p \in 0 .. Pixels - 1
  PROVE  /\ p \div 8 \in 0 .. Bytes - 1 /\ p % 8 \in 0 .. 7
         /\ p = 8 * (p \div 8) + (p % 8)
  BY Widths

LEMMA CellsDiffer ==
  ASSUME NEW p \in 0 .. Pixels - 1, NEW r \in 0 .. Pixels - 1, Cell(p) = Cell(r)
  PROVE  p = r
<1>1. /\ p \div 8 \in 0 .. Bytes - 1 /\ p % 8 \in 0 .. 7
      /\ p = 8 * (p \div 8) + (p % 8)
  BY CellRange
<1>2. /\ r \div 8 \in 0 .. Bytes - 1 /\ r % 8 \in 0 .. 7
      /\ r = 8 * (r \div 8) + (r % 8)
  BY CellRange
<1>3. QED
  BY <1>1, <1>2, Widths DEF Cell

\* What Address computes from coordinates that are three columns ahead.
LEMMA AddressRange ==
  ASSUME NEW x \in 0 .. H_SYNC_ACT - 1, NEW y \in 0 .. V_SYNC_ACT - 1
  PROVE  /\ (y * H_SYNC_ACT + x - 3) % oAddressRange \in 0 .. oAddressRange - 1
         /\ x >= 3 => (y * H_SYNC_ACT + x - 3) % oAddressRange = PixelIn(x - 3, y)
<1>1. H_SYNC_ACT \in Nat /\ y * H_SYNC_ACT \in Nat
  BY TimingAssumption
<1>2. x >= 3 => PixelIn(x - 3, y) \in 0 .. Pixels - 1
  <2>1. HAVE x >= 3
  <2>2. x - 3 \in 0 .. H_SYNC_ACT - 1
    BY <2>1, <1>1
  <2>3. QED
    BY <2>2, PixelRange
<1>3. x >= 3 => y * H_SYNC_ACT + x - 3 = PixelIn(x - 3, y)
  BY <1>1 DEF PixelIn
<1>4. y * H_SYNC_ACT + x - 3 \in Int
  BY <1>1
<1>5. QED
  BY <1>2, <1>3, <1>4, Widths

----------------------------------------------------------------------------
(* The invariant. *)

\* The address the generator has at a count of the line of a row: five pixels behind, and staying
\* at the last one of the row.
Due(h, row) ==
  PixelIn(IF h < X_START + H_SYNC_ACT THEN h - X_START - 5 ELSE H_SYNC_ACT - 5, row)

\* The line is one of the picture, and the address of k counts ago was a pixel of it.
Since(k) == ActiveLine /\ H_Cont - k >= X_START + 5

\* One more for what changes at falling edges, as long as the next one has not come.
Late(k) == IF low THEN k + 1 ELSE k

Coordinates ==
  ActiveLine /\ H_Cont > X_START =>
    /\ oCoord_Y = Row
    /\ oCoord_X = IF H_Cont <= X_START + H_SYNC_ACT THEN H_Cont - 1 - X_START
                  ELSE H_SYNC_ACT - 1

AddressFollows == Since(0) => oAddress = Due(H_Cont, Row)

OsdFollows ==
  /\ Since(Late(0)) => LET p == Due(H_Cont - Late(0), Row) IN rdaddress = p \div 8 /\ ADDR_d = p % 8
  /\ Since(Late(1)) => LET p == Due(H_Cont - Late(1), Row) IN q = p \div 8 /\ ADDR_dd = 7 - (p % 8)
  /\ Since(Late(2)) => cell = Cell(Due(H_Cont - Late(2), Row))

GroundFollows ==
  /\ Since(1) => index = Due(H_Cont - 1, Row)
  /\ Since(Late(1)) => bgr_raw = Due(H_Cont - Late(1), Row)
  /\ Since(2) => bgr = Due(H_Cont - 2, Row)

ShownFollows ==
  Since(3) => shown.cell = Cell(Due(H_Cont - 3, Row)) /\ shown.back = Due(H_Cont - 3, Row)

ScanInv ==
  TypeOK /\ Coordinates /\ AddressFollows /\ OsdFollows /\ GroundFollows /\ ShownFollows

----------------------------------------------------------------------------
(* Facts about the timing. *)

LEMMA Timing ==
  /\ X_START \in Nat /\ Y_START \in Nat /\ X_START >= 4
  /\ H_SYNC_ACT \in Nat /\ H_SYNC_ACT >= 6 /\ V_SYNC_ACT \in Nat /\ V_SYNC_ACT >= 1
  /\ FirstShown = X_START + 9
  /\ X_START + 9 + H_SYNC_ACT <= H_SYNC_TOTAL /\ Y_START + V_SYNC_ACT <= V_SYNC_TOTAL
  /\ H_SYNC_TOTAL \in Nat /\ V_SYNC_TOTAL \in Nat /\ MaxResets \in Nat
  BY TimingAssumption DEF X_START, Y_START, FirstShown

LEMMA DueRange ==
  ASSUME V_Cont \in Nat, ActiveLine, NEW h \in Nat, h >= X_START + 5
  PROVE  Due(h, Row) \in 0 .. Pixels - 1
<1> DEFINE column == IF h < X_START + H_SYNC_ACT THEN h - X_START - 5 ELSE H_SYNC_ACT - 5
<1>1. column \in 0 .. H_SYNC_ACT - 1
  BY Timing
<1>2. Row \in 0 .. V_SYNC_ACT - 1
  BY Timing DEF ActiveLine, Row
<1>3. PixelIn(column, Row) \in 0 .. Pixels - 1
  BY <1>1, <1>2, PixelRange
<1>4. QED
  BY <1>3 DEF Due

----------------------------------------------------------------------------
(* Types. *)

LEMMA OsdTypes ==
  ASSUME TypeOK
  PROVE  8 * q + ADDR_dd \in 0 .. Pixels - 1
  BY Widths DEF TypeOK

LEMMA AddressTypes ==
  ASSUME TypeOK
  PROVE  /\ mVGA_ADDR \in 0 .. Pixels - 1
         /\ mVGA_ADDR \div 8 \in 0 .. Bytes - 1 /\ mVGA_ADDR % 8 \in 0 .. 7
         /\ oAddress < Pixels => mVGA_ADDR = oAddress
<1>1. oAddress \in Nat
  BY Widths DEF TypeOK
<1>2. mVGA_ADDR \in 0 .. Pixels - 1 /\ (oAddress < Pixels => mVGA_ADDR = oAddress)
  BY <1>1, Widths DEF mVGA_ADDR
<1>3. QED
  BY <1>2, CellRange

LEMMA TypeInit == Init => TypeOK
<1>1. SUFFICES ASSUME Init PROVE TypeOK
  OBVIOUS
<1>2. /\ low \in BOOLEAN /\ resets \in 0 .. MaxResets
      /\ H_Cont \in 0 .. H_SYNC_TOTAL /\ V_Cont \in 0 .. V_SYNC_TOTAL
      /\ H_SYNC \in {0, 1} /\ V_SYNC \in {0, 1}
      /\ oCoord_X \in 0 .. H_SYNC_ACT - 1 /\ oCoord_Y \in 0 .. V_SYNC_ACT - 1
  <2>1. /\ low = FALSE /\ resets = 0 /\ H_Cont = 0 /\ V_Cont = 0 /\ H_SYNC = 0 /\ V_SYNC = 0
        /\ oCoord_X = 0 /\ oCoord_Y = 0
    BY <1>1 DEF Init
  <2>2. /\ 0 \in 0 .. MaxResets /\ 0 \in 0 .. H_SYNC_TOTAL /\ 0 \in 0 .. V_SYNC_TOTAL
        /\ 0 \in 0 .. H_SYNC_ACT - 1 /\ 0 \in 0 .. V_SYNC_ACT - 1
    BY Timing
  <2>3. QED
    BY <2>1, <2>2
<1>3. /\ oAddress \in 0 .. oAddressRange - 1
      /\ rdaddress \in 0 .. Bytes - 1 /\ q \in 0 .. Bytes - 1
      /\ ADDR_d \in 0 .. 7 /\ ADDR_dd \in 0 .. 7
      /\ {cell, index, bgr_raw, bgr} \subseteq 0 .. Pixels - 1
  BY <1>1, Widths DEF Init
<1>4. /\ shown \in [cross : BOOLEAN, cell : 0 .. Pixels - 1, back : 0 .. Pixels - 1]
      /\ cursor \in [x : CursorXs \cup {0}, y : CursorYs \cup {0}, on : BOOLEAN]
  BY <1>1, Widths DEF Init, Black, Cleared
<1>5. QED
  BY <1>2, <1>3, <1>4 DEF TypeOK

LEMMA TypeStep ==
  ASSUME TypeOK, [Next]_vars
  PROVE  TypeOK'
<1>1. CASE Rise
  <2>1. /\ low' \in BOOLEAN /\ resets' \in 0 .. MaxResets
        /\ H_Cont' \in 0 .. H_SYNC_TOTAL /\ V_Cont' \in 0 .. V_SYNC_TOTAL
        /\ H_SYNC' \in {0, 1} /\ V_SYNC' \in {0, 1}
    BY <1>1, Timing DEF TypeOK, Rise, H_Sync, V_Sync, Pulse, NextLine
  <2>2. oCoord_X' \in 0 .. H_SYNC_ACT - 1 /\ oCoord_Y' \in 0 .. V_SYNC_ACT - 1
    BY <1>1, Timing DEF TypeOK, Rise, AddressGenerator, Within, ActiveLine
  <2>3. oAddress' \in 0 .. oAddressRange - 1
    <3>1. Address \in 0 .. oAddressRange - 1
      BY AddressRange DEF TypeOK, Address
    <3>2. QED
      BY <1>1, <3>1 DEF TypeOK, Rise, AddressGenerator
  <2>4. /\ rdaddress' \in 0 .. Bytes - 1 /\ q' \in 0 .. Bytes - 1
        /\ ADDR_d' \in 0 .. 7 /\ ADDR_dd' \in 0 .. 7
        /\ {cell', index', bgr_raw', bgr'} \subseteq 0 .. Pixels - 1
    BY <1>1, AddressTypes DEF TypeOK, Rise, osd, LatchBackground
  <2>5. /\ shown' \in [cross : BOOLEAN, cell : 0 .. Pixels - 1, back : 0 .. Pixels - 1]
        /\ cursor' \in [x : CursorXs \cup {0}, y : CursorYs \cup {0}, on : BOOLEAN]
    <3>1. (Within(X_START + 8) /\ ActiveLine /\ OnCross /\ cursor.on) \in BOOLEAN
      OBVIOUS
    <3>2. QED
      BY <1>1, <3>1 DEF TypeOK, Rise, CursorGenerator
  <2>6. QED
    BY <2>1, <2>2, <2>3, <2>4, <2>5 DEF TypeOK
<1>2. CASE Fall
  <2>1. UNCHANGED <<scan, index, bgr, cursor, resets>> /\ low' \in BOOLEAN
    BY <1>2 DEF Fall
  <2>2. /\ rdaddress' \in 0 .. Bytes - 1 /\ q' \in 0 .. Bytes - 1
        /\ ADDR_d' \in 0 .. 7 /\ ADDR_dd' \in 0 .. 7
    BY <1>2, AddressTypes DEF TypeOK, Fall, SelectBit
  <2>3. {cell', index', bgr_raw', bgr'} \subseteq 0 .. Pixels - 1
    BY <1>2, <2>1, OsdTypes DEF TypeOK, Fall
  <2>4. QED
    BY <2>1, <2>2, <2>3 DEF TypeOK, scan
<1>3. CASE WriteCursor
  <2>1. cursor' \in [x : CursorXs \cup {0}, y : CursorYs \cup {0}, on : BOOLEAN]
    BY <1>3 DEF TypeOK, WriteCursor
  <2>2. QED
    BY <1>3, <2>1 DEF TypeOK, WriteCursor, scan, osd, ground
<1>4. CASE Reset
  <2>1. /\ resets' \in 0 .. MaxResets
        /\ H_Cont' \in 0 .. H_SYNC_TOTAL /\ V_Cont' \in 0 .. V_SYNC_TOTAL
        /\ oCoord_X' \in 0 .. H_SYNC_ACT - 1 /\ oCoord_Y' \in 0 .. V_SYNC_ACT - 1
    BY <1>4, Timing DEF TypeOK, Reset
  <2>2. oAddress' \in 0 .. oAddressRange - 1 /\ cell' \in 0 .. Pixels - 1
    BY <1>4, Widths DEF Reset
  <2>3. /\ shown' \in [cross : BOOLEAN, cell : 0 .. Pixels - 1, back : 0 .. Pixels - 1]
        /\ cursor' \in [x : CursorXs \cup {0}, y : CursorYs \cup {0}, on : BOOLEAN]
    BY <1>4, Widths DEF Reset, Black, Cleared
  <2>4. QED
    BY <1>4, <2>1, <2>2, <2>3 DEF TypeOK, Reset, ground
<1>5. CASE UNCHANGED vars
  BY <1>5 DEF TypeOK, vars, scan, osd, ground
<1>6. QED
  BY <1>1, <1>2, <1>3, <1>4, <1>5 DEF Next, Tick

----------------------------------------------------------------------------
(* Steps. *)

\* Within a line, and up to its end, a rising edge only advances the count.
LEMMA RiseAdvances ==
  ASSUME TypeOK, Rise, H_Cont' > X_START
  PROVE  /\ H_Cont \in Nat /\ V_Cont \in Nat
         /\ H_Cont' = H_Cont + 1 /\ V_Cont' = V_Cont /\ ~low /\ low'
         /\ ActiveLine' <=> ActiveLine
         /\ Row' = Row
<1>1. H_Cont \in Nat /\ V_Cont \in Nat
  BY Timing DEF TypeOK
<1>2. H_Cont' = H_Cont + 1 /\ V_Cont' = V_Cont /\ ~low /\ low'
  BY <1>1, Timing DEF Rise, H_Sync, V_Sync
<1>3. QED
  BY <1>1, <1>2 DEF ActiveLine, Row

\* At the beginning of a line nothing is required of the pipelines.
LEMMA NothingSince ==
  ASSUME ScanInv, Next, ~(H_Cont' > X_START)
  PROVE  /\ ~Since(0)' /\ ~Since(1)' /\ ~Since(2)' /\ ~Since(3)'
<1>1. H_Cont' \in Nat
  BY TypeStep, Timing DEF ScanInv, TypeOK
<1>2. H_Cont' <= X_START
  BY <1>1, Timing
<1>3. \A h, x \in Nat : \A k \in 0 .. 3 : h <= x => ~(h - k >= x + 5)
  OBVIOUS
<1>4. \A k \in 0 .. 3 : ~(H_Cont' - k >= X_START + 5)
  BY <1>1, <1>2, <1>3, Timing
<1>5. /\ ~(H_Cont' - 0 >= X_START + 5) /\ ~(H_Cont' - 1 >= X_START + 5)
      /\ ~(H_Cont' - 2 >= X_START + 5) /\ ~(H_Cont' - 3 >= X_START + 5)
  BY <1>4
<1>6. QED
  BY <1>5 DEF Since

LEMMA CoordinatesStep ==
  ASSUME ScanInv, Rise
  PROVE  Coordinates'
<1>1. SUFFICES ASSUME ActiveLine', H_Cont' > X_START
               PROVE  /\ oCoord_Y' = Row'
                      /\ oCoord_X' = IF H_Cont' <= X_START + H_SYNC_ACT
                                     THEN H_Cont' - 1 - X_START ELSE H_SYNC_ACT - 1
  BY DEF Coordinates
<1>2. /\ H_Cont \in Nat /\ V_Cont \in Nat /\ H_Cont' = H_Cont + 1
      /\ ActiveLine /\ Row' = Row
  BY <1>1, RiseAdvances DEF ScanInv
<1>3. CASE Within(X_START)
  <2>1. oCoord_X' = H_Cont - X_START /\ oCoord_Y' = Row
    BY <1>2, <1>3 DEF Rise, AddressGenerator, Row
  <2>2. QED
    BY <1>2, <1>3, <2>1, Timing DEF Within
<1>4. CASE ~Within(X_START)
  <2>1. oCoord_X' = oCoord_X /\ oCoord_Y' = oCoord_Y
    BY <1>4 DEF Rise, AddressGenerator
  <2>2. H_Cont >= X_START + H_SYNC_ACT
    BY <1>1, <1>2, <1>4, Timing DEF Within
  <2>3. oCoord_Y = Row /\ oCoord_X = H_SYNC_ACT - 1
    BY <1>2, <2>2, Timing DEF ScanInv, Coordinates
  <2>4. QED
    BY <1>2, <2>1, <2>2, <2>3, Timing
<1>5. QED
  BY <1>3, <1>4

LEMMA AddressStep ==
  ASSUME ScanInv, Rise
  PROVE  AddressFollows'
<1>0. H_Cont' \in Nat
  BY Timing DEF ScanInv, TypeOK, Rise, H_Sync
<1>1. SUFFICES ASSUME ActiveLine', H_Cont' >= X_START + 5
               PROVE  oAddress' = Due(H_Cont', Row')
  BY <1>0 DEF AddressFollows, Since
<1>2. H_Cont' > X_START
  BY <1>0, <1>1, Timing
<1>3. /\ H_Cont \in Nat /\ V_Cont \in Nat /\ H_Cont' = H_Cont + 1
      /\ ActiveLine /\ Row' = Row
  BY <1>1, <1>2, RiseAdvances DEF ScanInv
<1>4. H_Cont >= X_START + 4
  BY <1>1, <1>3, Timing
<1>5. CASE Within(X_START)
  <2>1. oAddress' = Address
    BY <1>3, <1>5 DEF Rise, AddressGenerator
  <2>2. oCoord_Y = Row /\ oCoord_X = H_Cont - 1 - X_START
    BY <1>3, <1>4, <1>5, Timing DEF ScanInv, Coordinates, Within
  <2>3. oCoord_X \in 0 .. H_SYNC_ACT - 1 /\ oCoord_Y \in 0 .. V_SYNC_ACT - 1
    BY DEF ScanInv, TypeOK
  <2>4. Address = PixelIn(oCoord_X - 3, oCoord_Y)
    <3>1. oCoord_X >= 3
      BY <1>3, <1>4, <2>2, Timing
    <3>2. QED
      BY <2>3, <3>1, AddressRange DEF Address
  <2>5. Due(H_Cont + 1, Row) = PixelIn(H_Cont - X_START - 4, Row)
    <3> DEFINE column == IF H_Cont + 1 < X_START + H_SYNC_ACT
                         THEN (H_Cont + 1) - X_START - 5 ELSE H_SYNC_ACT - 5
    <3>1. column = H_Cont - X_START - 4
      BY <1>3, <1>5, Timing DEF Within
    <3>2. Due(H_Cont + 1, Row) = PixelIn(column, Row)
      BY DEF Due
    <3>3. QED
      BY <3>1, <3>2
  <2>6. oCoord_X - 3 = H_Cont - X_START - 4
    BY <1>3, <2>2, Timing
  <2>7. QED
    BY <1>3, <2>1, <2>2, <2>4, <2>5, <2>6
<1>6. CASE ~Within(X_START)
  <2>1. oAddress' = oAddress
    BY <1>6 DEF Rise, AddressGenerator
  <2>2. H_Cont >= X_START + H_SYNC_ACT
    BY <1>3, <1>4, <1>6, Timing DEF Within
  <2>3. oAddress = Due(H_Cont, Row)
    BY <1>3, <2>2, Timing DEF ScanInv, AddressFollows, Since
  <2>4. Due(H_Cont, Row) = Due(H_Cont + 1, Row)
    <3>1. ~(H_Cont < X_START + H_SYNC_ACT) /\ ~(H_Cont + 1 < X_START + H_SYNC_ACT)
      BY <1>3, <2>2, Timing
    <3>2. QED
      BY <3>1 DEF Due
  <2>5. QED
    BY <1>3, <2>1, <2>3, <2>4
<1>7. QED
  BY <1>5, <1>6

LEMMA RisePipelines ==
  ASSUME ScanInv, Rise
  PROVE  OsdFollows' /\ GroundFollows' /\ ShownFollows'
<1>1. CASE H_Cont' > X_START
  <2>1. /\ H_Cont \in Nat /\ H_Cont' = H_Cont + 1 /\ ~low /\ low'
        /\ ActiveLine' <=> ActiveLine
        /\ Row' = Row
    BY <1>1, RiseAdvances DEF ScanInv
  <2>2. /\ Late(0) = 0 /\ Late(1) = 1 /\ Late(2) = 2
        /\ Late(0)' = 1 /\ Late(1)' = 2 /\ Late(2)' = 3
    BY <2>1 DEF Late
  <2>3. ASSUME NEW k \in 1 .. 3, ActiveLine', H_Cont' - k >= X_START + 5
        PROVE  /\ ActiveLine /\ H_Cont - (k - 1) >= X_START + 5
               /\ H_Cont' - k = H_Cont - (k - 1)
    BY <2>1, <2>3, Timing
  <2>4. OsdFollows'
    <3>1. UNCHANGED osd
      BY DEF Rise
    <3>2. ASSUME Since(Late(0))'
          PROVE  rdaddress' = Due(H_Cont' - Late(0)', Row') \div 8
                 /\ ADDR_d' = Due(H_Cont' - Late(0)', Row') % 8
      BY <2>1, <2>2, <2>3, <3>1, <3>2 DEF ScanInv, OsdFollows, Since, osd
    <3>3. ASSUME Since(Late(1))'
          PROVE  q' = Due(H_Cont' - Late(1)', Row') \div 8
                 /\ ADDR_dd' = 7 - (Due(H_Cont' - Late(1)', Row') % 8)
      BY <2>1, <2>2, <2>3, <3>1, <3>3 DEF ScanInv, OsdFollows, Since, osd
    <3>4. ASSUME Since(Late(2))'
          PROVE  cell' = Cell(Due(H_Cont' - Late(2)', Row'))
      BY <2>1, <2>2, <2>3, <3>1, <3>4 DEF ScanInv, OsdFollows, Since, osd
    <3>5. QED
      BY <3>2, <3>3, <3>4 DEF OsdFollows
  <2>5. GroundFollows'
    <3>1. index' = mVGA_ADDR /\ bgr' = bgr_raw /\ bgr_raw' = bgr_raw
      BY DEF Rise, LatchBackground
    <3>2. ASSUME ActiveLine', H_Cont' - 1 >= X_START + 5
          PROVE  index' = Due(H_Cont' - 1, Row')
      <4>1. ActiveLine /\ H_Cont - 0 >= X_START + 5 /\ H_Cont' - 1 = H_Cont
        BY <2>1, <3>2, Timing
      <4>2. oAddress = Due(H_Cont, Row)
        BY <4>1 DEF ScanInv, AddressFollows, Since
      <4>3. Due(H_Cont, Row) \in 0 .. Pixels - 1
        BY <2>1, <4>1, DueRange, Timing DEF ScanInv, TypeOK
      <4>4. mVGA_ADDR = oAddress
        BY <4>2, <4>3, AddressTypes, Widths DEF ScanInv
      <4>5. QED
        BY <2>1, <3>1, <4>1, <4>2, <4>4
    <3>3. ASSUME Since(Late(1))'
          PROVE  bgr_raw' = Due(H_Cont' - Late(1)', Row')
      BY <2>1, <2>2, <2>3, <3>1, <3>3 DEF ScanInv, GroundFollows, Since
    <3>4. ASSUME Since(2)'
          PROVE  bgr' = Due(H_Cont' - 2, Row')
      BY <2>1, <2>2, <2>3, <3>1, <3>4 DEF ScanInv, GroundFollows, Since
    <3>5. QED
      BY <3>2, <3>3, <3>4 DEF GroundFollows, Since
  <2>6. ShownFollows'
    <3>1. shown'.cell = cell /\ shown'.back = bgr
      BY DEF Rise, CursorGenerator
    <3>2. ASSUME Since(3)'
          PROVE  shown'.cell = Cell(Due(H_Cont' - 3, Row')) /\ shown'.back = Due(H_Cont' - 3, Row')
      BY <2>1, <2>2, <2>3, <3>1, <3>2 DEF ScanInv, OsdFollows, GroundFollows, Since
    <3>3. QED
      BY <3>2 DEF ShownFollows
  <2>7. QED
    BY <2>4, <2>5, <2>6
<1>2. CASE ~(H_Cont' > X_START)
  <2>1. ~Since(0)' /\ ~Since(1)' /\ ~Since(2)' /\ ~Since(3)'
    BY <1>2, NothingSince DEF Next, Tick
  <2>2. ~Since(Late(0))' /\ ~Since(Late(1))' /\ ~Since(Late(2))'
    BY <2>1 DEF Late
  <2>3. QED
    BY <2>1, <2>2 DEF OsdFollows, GroundFollows, ShownFollows
<1>3. QED
  BY <1>1, <1>2

LEMMA FallPipelines ==
  ASSUME ScanInv, Fall
  PROVE  OsdFollows' /\ GroundFollows' /\ ShownFollows'
<1>1. /\ low /\ ~low' /\ H_Cont' = H_Cont /\ V_Cont' = V_Cont /\ shown' = shown
      /\ index' = index /\ bgr' = bgr
  BY DEF Fall, scan
<1>2. /\ H_Cont \in Nat /\ V_Cont \in Nat
  BY Timing DEF ScanInv, TypeOK
<1>3. /\ Row' = Row
      /\ \A k \in 0 .. 3 : Since(k)' <=> Since(k)
      /\ Late(0)' = 0 /\ Late(1)' = 1 /\ Late(2)' = 2
      /\ Late(0) = 1 /\ Late(1) = 2 /\ Late(2) = 3
  BY <1>1 DEF Row, Since, ActiveLine, Late
<1>4. ASSUME Since(0)
      PROVE  rdaddress' = Due(H_Cont - 0, Row) \div 8 /\ ADDR_d' = Due(H_Cont - 0, Row) % 8
  <2>1. oAddress = Due(H_Cont, Row) /\ H_Cont - 0 = H_Cont
    BY <1>2, <1>4 DEF ScanInv, AddressFollows
  <2>2. Due(H_Cont, Row) \in 0 .. Pixels - 1
    BY <1>2, <1>4, <2>1, DueRange DEF Since
  <2>3. mVGA_ADDR = oAddress
    BY <2>1, <2>2, AddressTypes, Widths DEF ScanInv
  <2>4. QED
    BY <2>1, <2>3 DEF Fall, SelectBit
<1>5. ASSUME Since(1)
      PROVE  /\ q' = Due(H_Cont - 1, Row) \div 8 /\ ADDR_dd' = 7 - (Due(H_Cont - 1, Row) % 8)
             /\ bgr_raw' = Due(H_Cont - 1, Row)
  BY <1>1, <1>3, <1>5 DEF ScanInv, OsdFollows, GroundFollows, Fall, SelectBit
<1>6. ASSUME Since(2)
      PROVE  cell' = Cell(Due(H_Cont - 2, Row))
  BY <1>1, <1>3, <1>6 DEF ScanInv, OsdFollows, Fall, Cell
<1>7. OsdFollows'
  BY <1>1, <1>3, <1>4, <1>5, <1>6 DEF OsdFollows
<1>8. GroundFollows'
  BY <1>1, <1>3, <1>5 DEF ScanInv, GroundFollows
<1>9. ShownFollows'
  BY <1>1, <1>3 DEF ScanInv, ShownFollows
<1>10. QED
  BY <1>7, <1>8, <1>9

LEMMA ScanInit == Init => ScanInv
<1>1. SUFFICES ASSUME Init PROVE ScanInv
  OBVIOUS
<1>2. H_Cont = 0 /\ low = FALSE
  BY <1>1 DEF Init
<1>3. ASSUME NEW k \in 0 .. 3
      PROVE  ~(H_Cont - k >= X_START + 5)
  BY <1>2, <1>3, Timing
<1>4. ~Since(0) /\ ~Since(1) /\ ~Since(2) /\ ~Since(3)
  BY <1>3 DEF Since
<1>5. ~(H_Cont > X_START)
  BY <1>2, Timing
<1>6. QED
  BY <1>1, <1>2, <1>4, <1>5, TypeInit
     DEF ScanInv, Coordinates, AddressFollows, OsdFollows, GroundFollows, ShownFollows, Late

LEMMA ScanStep ==
  ASSUME ScanInv, [Next]_vars
  PROVE  ScanInv'
<1>1. TypeOK'
  BY TypeStep DEF ScanInv
<1>2. CASE Rise
  BY <1>1, <1>2, CoordinatesStep, AddressStep, RisePipelines DEF ScanInv
<1>3. CASE Fall
  <2>1. UNCHANGED scan
    BY <1>3 DEF Fall
  <2>2. Coordinates' /\ AddressFollows'
    BY <2>1 DEF ScanInv, scan, Coordinates, AddressFollows, Since, ActiveLine, Row
  <2>3. QED
    BY <1>1, <1>3, <2>2, FallPipelines DEF ScanInv
<1>4. CASE Reset
  <2>1. H_Cont' = 0
    BY <1>4 DEF Reset
  <2>2. ~(H_Cont' > X_START)
    BY <2>1, Timing
  <2>3. ~Since(0)' /\ ~Since(1)' /\ ~Since(2)' /\ ~Since(3)'
    BY <1>4, <2>2, NothingSince DEF Next
  <2>4. ~Since(Late(0))' /\ ~Since(Late(1))' /\ ~Since(Late(2))'
    BY <2>3 DEF Late
  <2>5. QED
    BY <1>1, <2>2, <2>3, <2>4
       DEF ScanInv, Coordinates, AddressFollows, OsdFollows, GroundFollows, ShownFollows
<1>5. CASE WriteCursor \/ UNCHANGED vars
  <2>1. UNCHANGED <<low, scan, osd, ground>>
    BY <1>5 DEF WriteCursor, vars
  <2>2. QED
    BY <1>1, <2>1
       DEF ScanInv, Coordinates, AddressFollows, OsdFollows, GroundFollows, ShownFollows,
           Since, Late, ActiveLine, Row, scan, osd, ground
<1>6. QED
  BY <1>2, <1>3, <1>4, <1>5 DEF Next, Tick

----------------------------------------------------------------------------
(* Theorems. *)

\* Counters, addresses and registers stay within their widths.
THEOREM ScanTypeCorrect == Spec => []TypeOK
<1>1. TypeOK /\ [Next]_vars => TypeOK'
  BY TypeStep
<1>2. QED
  BY TypeInit, <1>1, PTL DEF Spec

\* Every register of the two pipelines holds the address it was given the right number of
\* edges ago, whatever was reset or written before.
THEOREM ScanInvariance == Spec => []ScanInv
<1>1. ScanInv /\ [Next]_vars => ScanInv'
  BY ScanStep
<1>2. QED
  BY ScanInit, <1>1, PTL DEF Spec

\* Where a visible column takes its pixel from.
Source == IF Col < H_SYNC_ACT - 5 THEN Col + 1 ELSE H_SYNC_ACT - 5

SourceIsDue ==
  /\ H_Cont \in Nat /\ V_Cont \in Nat /\ Col \in 0 .. H_SYNC_ACT - 1
  /\ Row \in 0 .. V_SYNC_ACT - 1 /\ Source \in 1 .. H_SYNC_ACT - 5
  /\ Since(3) /\ Due(H_Cont - 3, Row) = PixelIn(Source, Row)

LEMMA SourceDue == TypeOK /\ Visible => SourceIsDue
<1> SUFFICES ASSUME TypeOK, Visible PROVE SourceIsDue
  OBVIOUS
<1>1. H_Cont \in Nat /\ V_Cont \in Nat
  BY Timing DEF TypeOK
<1>2. H_Cont >= X_START + 9 /\ H_Cont < X_START + 9 + H_SYNC_ACT /\ ActiveLine
  BY <1>1, Timing DEF Visible, Within
<1>3. Col \in 0 .. H_SYNC_ACT - 1 /\ Row \in 0 .. V_SYNC_ACT - 1
  BY <1>1, <1>2, Timing DEF Col, Row, ActiveLine
<1>4. Source \in 1 .. H_SYNC_ACT - 5
  BY <1>3, Timing DEF Source
<1>5. Since(3)
  BY <1>1, <1>2, Timing DEF Since
<1> DEFINE column == IF H_Cont - 3 < X_START + H_SYNC_ACT
                     THEN (H_Cont - 3) - X_START - 5 ELSE H_SYNC_ACT - 5
<1>6. column = Source
  BY <1>1, <1>2, Timing DEF Source, Col
<1>7. Due(H_Cont - 3, Row) = PixelIn(column, Row)
  BY DEF Due
<1>8. QED
  BY <1>1, <1>3, <1>4, <1>5, <1>6, <1>7 DEF SourceIsDue

\* A visible column shows the pixel one to the right of it in its own row, of the drawing
\* and of the background alike, and the last five columns the fifth from the right: what
\* VGA_Controller, VGA_OSD_RAM and the background ROMs make together of any timing.
THEOREM RightPixel == Spec => []ShowsPixel
<1>1. ScanInv => ShowsPixel
  <2>1. SUFFICES ASSUME ScanInv, Visible
                 PROVE  shown.cell = Cell(PixelIn(Source, Row)) /\ shown.back = PixelIn(Source, Row)
    BY DEF ShowsPixel, ScanInv, Source
  <2>2. Since(3) /\ Due(H_Cont - 3, Row) = PixelIn(Source, Row)
    BY <2>1, SourceDue DEF ScanInv, SourceIsDue
  <2>3. QED
    BY <2>1, <2>2 DEF ScanInv, ShownFollows
<1>2. QED
  BY <1>1, ScanInvariance, PTL

\* The vertical bar of the cross covers the drawn pixel of the cursor's own column: the
\* eight columns the controller adds to the bar are the delay of the pixel memory.
THEOREM CrossMeetsPixel == Spec => CrossOverPixel
<1>1. ASSUME ScanInv, ScanInv', Rise, Visible', cursor.on,
             cursor.x \in 1 .. H_SYNC_ACT - 6,
             shown'.cell = Cell(PixelIn(cursor.x, Row'))
      PROVE  shown'.cross
  <2>1. /\ H_Cont' \in Nat /\ Col' \in Nat /\ Row' \in 0 .. V_SYNC_ACT - 1
        /\ Source' \in 1 .. H_SYNC_ACT - 5
        /\ shown'.cell = Cell(PixelIn(Source', Row'))
    <3>1. TypeOK' /\ Visible' => SourceIsDue'
      BY SourceDue, PTL
    <3>2. SourceIsDue'
      BY <1>1, <3>1 DEF ScanInv
    <3>3. QED
      BY <1>1, <3>2 DEF ScanInv, ShownFollows, SourceIsDue
  <2>2. Source' = cursor.x
    <3>1. Source' \in 0 .. H_SYNC_ACT - 1 /\ cursor.x \in 0 .. H_SYNC_ACT - 1
      BY <1>1, <2>1, Timing
    <3>2. /\ PixelIn(Source', Row') \in 0 .. Pixels - 1
          /\ PixelIn(cursor.x, Row') \in 0 .. Pixels - 1
      BY <2>1, <3>1, PixelRange
    <3>3. PixelIn(Source', Row') = PixelIn(cursor.x, Row')
      BY <1>1, <2>1, <3>2, CellsDiffer
    <3>4. QED
      BY <2>1, <3>1, <3>3, PixelsDiffer
  <2>3. H_Cont' > X_START /\ H_Cont' = X_START + 8 + cursor.x
    <3>1. Col' + 1 = cursor.x
      BY <1>1, <2>1, <2>2, Timing DEF Source
    <3>2. QED
      BY <1>1, <2>1, <3>1, Timing DEF Col
  <2>4. H_Cont \in Nat /\ H_Cont' = H_Cont + 1 /\ ActiveLine
    BY <1>1, <2>3, RiseAdvances DEF ScanInv, Visible
  <2>5. H_Cont - (X_START + 8 + cursor.x) = -1 /\ Within(X_START + 8)
    BY <1>1, <2>3, <2>4, Timing DEF Within
  <2>6. QED
    BY <1>1, <2>4, <2>5 DEF Rise, CursorGenerator, OnCross
<1>2. ScanInv /\ ScanInv' /\ [Next]_vars =>
        [ LET column == cursor.x
          IN  Rise /\ Visible' /\ cursor.on /\ column \in 1 .. H_SYNC_ACT - 6
                /\ shown'.cell = Cell(PixelIn(column, Row'))
              => shown'.cross ]_vars
  BY <1>1
<1>3. QED
  BY <1>2, ScanInvariance, PTL DEF Spec, CrossOverPixel

=============================================================================
