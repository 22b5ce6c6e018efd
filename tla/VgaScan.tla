------------------------------ MODULE VgaScan ------------------------------
(***************************************************************************)
(* How a picture gets from the pixel memory to the monitor: the counters,  *)
(* addresses and cursor of VGA_Controller, the read pipeline of            *)
(* VGA_OSD_RAM, the background ROMs of VGA_NIOS_CTRL, and the program's    *)
(* writes to the cursor registers at any time.                             *)
(*                                                                         *)
(* VGA_Controller and the first background ROM work on rising edges of     *)
(* iCLK_25, VGA_OSD_RAM and the second one on falling edges.  A colour is  *)
(* represented by where it comes from: the cell of the pixel memory and    *)
(* the address in the background picture, or the cursor.                   *)
(***************************************************************************)
EXTENDS Naturals, Integers

CONSTANTS
  H_SYNC_CYC, H_SYNC_BACK, H_SYNC_ACT, H_SYNC_TOTAL,
  V_SYNC_CYC, V_SYNC_BACK, V_SYNC_ACT, V_SYNC_TOTAL,
  CursorXs, CursorYs,  \* what the program writes to the cursor registers
  MaxResets            \* bound on the number of resets

\* X_START and Y_START, and the first visible column.
X_START == H_SYNC_CYC + H_SYNC_BACK + 4
Y_START == V_SYNC_CYC + V_SYNC_BACK
FirstShown == X_START + 9

\* 2^20 values of oAddress, of which mVGA_ADDR keeps 19 bits; 2^16 bytes of Img_RAM.
oAddressRange == 1048576
Pixels == 524288
Bytes  == 65536

ASSUME TimingAssumption ==
  /\ {H_SYNC_CYC, H_SYNC_BACK, V_SYNC_CYC, V_SYNC_BACK, V_SYNC_ACT, H_SYNC_TOTAL,
      V_SYNC_TOTAL, MaxResets} \subseteq Nat
  /\ H_SYNC_ACT \in Nat /\ H_SYNC_ACT >= 6 /\ V_SYNC_ACT >= 1
  /\ FirstShown + H_SYNC_ACT <= H_SYNC_TOTAL /\ Y_START + V_SYNC_ACT <= V_SYNC_TOTAL
  /\ H_SYNC_ACT * V_SYNC_ACT <= Pixels

ASSUME CursorAssumption == CursorXs \subseteq Nat /\ CursorYs \subseteq Nat

VARIABLES
  low,                              \* the next edge of iCLK_25 is a falling one
  H_Cont, V_Cont, H_SYNC, V_SYNC,   \* counters and sync outputs
  oCoord_X, oCoord_Y, oAddress,     \* the address generator
  shown,                            \* Cur_Color
  rdaddress, q,                     \* Img_RAM: address and output registers
  ADDR_d, ADDR_dd, cell,            \* VGA_OSD_RAM; cell stands for oRed
  index, bgr_raw, bgr,              \* addresses whose background is in the ROMs
  cursor, resets                    \* registers of the program; the bound

scan   == <<H_Cont, V_Cont, H_SYNC, V_SYNC, oCoord_X, oCoord_Y, oAddress, shown>>
osd    == <<rdaddress, q, ADDR_d, ADDR_dd, cell>>
ground == <<index, bgr_raw, bgr>>
vars   == <<low, scan, osd, ground, cursor, resets>>

\* Registers at zero; nothing visible is taken from them.
Cleared == [x |-> 0, y |-> 0, on |-> FALSE]
Black   == [cross |-> FALSE, cell |-> 0, back |-> 0]

Init ==
  /\ low = FALSE
  /\ H_Cont = 0 /\ V_Cont = 0 /\ H_SYNC = 0 /\ V_SYNC = 0
  /\ oCoord_X = 0 /\ oCoord_Y = 0 /\ oAddress = 0 /\ shown = Black
  /\ rdaddress = 0 /\ q = 0 /\ ADDR_d = 0 /\ ADDR_dd = 0 /\ cell = 0
  /\ index = 0 /\ bgr_raw = 0 /\ bgr = 0
  /\ cursor = Cleared /\ resets = 0

----------------------------------------------------------------------------
(* Rising edges: VGA_Controller and the background. *)

ActiveLine == V_Cont >= Y_START /\ V_Cont < Y_START + V_SYNC_ACT
Within(first) == H_Cont >= first /\ H_Cont < first + H_SYNC_ACT

\* Mutant: without the correction for the pipeline.
Address_Plain == (oCoord_Y * H_SYNC_ACT + oCoord_X) % oAddressRange

Address == (oCoord_Y * H_SYNC_ACT + oCoord_X - 3) % oAddressRange

\* The coordinates used are those of the clock before.
AddressGenerator ==
  IF Within(X_START) /\ ActiveLine
  THEN /\ oCoord_X' = H_Cont - X_START
       /\ oCoord_Y' = V_Cont - Y_START
       /\ oAddress' = Address
  ELSE UNCHANGED <<oCoord_X, oCoord_Y, oAddress>>

\* Mutant: the cross is drawn where the address generator is.
OnCross_Early ==
  \/ H_Cont - (X_START + cursor.x) \in {-1, 0, 1}
  \/ V_Cont - (Y_START + cursor.y) \in {-1, 0, 1}

OnCross ==
  \/ H_Cont - (X_START + 8 + cursor.x) \in {-1, 0, 1}
  \/ V_Cont - (Y_START + cursor.y) \in {-1, 0, 1}

CursorGenerator ==
  shown' = [cross |-> Within(X_START + 8) /\ ActiveLine /\ OnCross /\ cursor.on,
            cell  |-> cell, back |-> bgr]

Pulse == IF H_Cont < H_SYNC_CYC THEN 0 ELSE 1

H_Sync ==
  /\ H_Cont' = IF H_Cont < H_SYNC_TOTAL THEN H_Cont + 1 ELSE 0
  /\ H_SYNC' = Pulse

\* Mutant: the frame ends before its last lines.
NextLine_Short == IF V_Cont < V_SYNC_ACT THEN V_Cont + 1 ELSE 0

NextLine == IF V_Cont < V_SYNC_TOTAL THEN V_Cont + 1 ELSE 0

V_Sync ==
  IF H_Cont = 0
  THEN /\ V_Cont' = NextLine
       /\ V_SYNC' = IF V_Cont < V_SYNC_CYC THEN 0 ELSE 1
  ELSE UNCHANGED <<V_Cont, V_SYNC>>

mVGA_ADDR == oAddress % Pixels

LatchBackground == index' = mVGA_ADDR /\ bgr' = bgr_raw

Rise ==
  /\ ~low /\ low' = TRUE
  /\ AddressGenerator /\ CursorGenerator /\ H_Sync /\ V_Sync /\ LatchBackground
  /\ UNCHANGED <<osd, bgr_raw, cursor, resets>>

----------------------------------------------------------------------------
(* Falling edges: VGA_OSD_RAM, Img_RAM and the second ROM. *)

\* The one-bit cell of the pixel memory that a write to pixel p sets.
Cell(p) == 8 * (p \div 8) + (7 - (p % 8))

SelectBit == ADDR_d' = mVGA_ADDR % 8 /\ ADDR_dd' = 7 - ADDR_d

Fall ==
  /\ low /\ low' = FALSE
  /\ rdaddress' = mVGA_ADDR \div 8 /\ q' = rdaddress
  /\ SelectBit
  /\ cell' = 8 * q + ADDR_dd
  /\ bgr_raw' = index
  /\ UNCHANGED <<scan, index, bgr, cursor, resets>>

\* Set_Cursor_XY is two writes, so the two registers may be of two moves.
WriteCursor ==
  /\ \/ \E v \in CursorXs : cursor' = [cursor EXCEPT !.x = v]
     \/ \E v \in CursorYs : cursor' = [cursor EXCEPT !.y = v]
     \/ cursor' = [cursor EXCEPT !.on = TRUE]
  /\ UNCHANGED <<low, scan, osd, ground, resets>>

\* The memories have no reset.
Reset ==
  /\ resets < MaxResets /\ resets' = resets + 1
  /\ H_Cont' = 0 /\ V_Cont' = 0 /\ H_SYNC' = 0 /\ V_SYNC' = 0
  /\ oCoord_X' = 0 /\ oCoord_Y' = 0 /\ oAddress' = 0 /\ shown' = Black
  /\ ADDR_d' = 0 /\ ADDR_dd' = 0 /\ cell' = 0 /\ cursor' = Cleared
  /\ UNCHANGED <<low, rdaddress, q, ground>>

Tick == Rise \/ Fall
Next == Tick \/ WriteCursor \/ Reset

\* The pixel clock never stops.
Spec == Init /\ [][Next]_vars /\ WF_vars(Tick)

----------------------------------------------------------------------------
TypeOK ==
  /\ low \in BOOLEAN /\ resets \in 0 .. MaxResets
  /\ H_Cont \in 0 .. H_SYNC_TOTAL /\ V_Cont \in 0 .. V_SYNC_TOTAL
  /\ H_SYNC \in {0, 1} /\ V_SYNC \in {0, 1}
  /\ oCoord_X \in 0 .. H_SYNC_ACT - 1 /\ oCoord_Y \in 0 .. V_SYNC_ACT - 1
  /\ oAddress \in 0 .. oAddressRange - 1
  /\ rdaddress \in 0 .. Bytes - 1 /\ q \in 0 .. Bytes - 1
  /\ ADDR_d \in 0 .. 7 /\ ADDR_dd \in 0 .. 7
  /\ {cell, index, bgr_raw, bgr} \subseteq 0 .. Pixels - 1
  /\ shown \in [cross : BOOLEAN, cell : 0 .. Pixels - 1, back : 0 .. Pixels - 1]
  /\ cursor \in [x : CursorXs \cup {0}, y : CursorYs \cup {0}, on : BOOLEAN]

\* The DAC takes the colours at falling edges of iCLK_25; this is a pixel on
\* the screen, at the column and the row below.
Visible == low /\ Within(FirstShown) /\ ActiveLine
Col == H_Cont - FirstShown
Row == V_Cont - Y_START

PixelIn(column, row) == row * H_SYNC_ACT + column

(* A visible column shows the pixel of its own row that is one to the      *)
(* right, down to the bit within the byte, on the same place of the        *)
(* background picture, whatever was reset or written before: the two       *)
(* pipelines of three edges, on different edges and with different ROMs,   *)
(* meet at one address.  The correction by three leaves the address        *)
(* generator five pixels short, so the last five columns repeat the pixel  *)
(* in the fifth column from the right.                                     *)
ShowsPixel ==
  /\ TypeOK
  /\ Visible =>
       LET column == IF Col < H_SYNC_ACT - 5 THEN Col + 1 ELSE H_SYNC_ACT - 5
           pixel  == PixelIn(column, Row)
       IN  shown.cell = Cell(pixel) /\ shown.back = pixel

(* A painted pixel of the cursor's column appears under the vertical bar   *)
(* of the cross, although the bar does not go through the pixel memory.    *)
CrossOverPixel ==
  [][ LET column == cursor.x
      IN  Rise /\ Visible' /\ cursor.on /\ column \in 1 .. H_SYNC_ACT - 6
            /\ shown'.cell = Cell(PixelIn(column, Row'))
          => shown'.cross ]_vars

(* Every place of the screen is shown over and over, after a reset too.    *)
EveryPlaceShown ==
  \A row \in 0 .. V_SYNC_ACT - 1, column \in 0 .. H_SYNC_ACT - 1 :
    []<>(Visible /\ Row = row /\ Col = column)

=============================================================================
