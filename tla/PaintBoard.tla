---------------------------- MODULE PaintBoard ----------------------------
(***************************************************************************)
(* What the user of the paint program sees: the greeting of LCD_Test, then *)
(* passes of the paint loop, in which main moves the cursor, writes the    *)
(* eight digits one by one, writes the two registers of the cross and sets *)
(* or clears the pixel, in this order.                                     *)
(***************************************************************************)
EXTENDS MousePaint, Sequences

CONSTANTS Columns, Row, Tails1, Tails2, Base, Half    \* of FrontPanel

VARIABLES tail, todo, ddram, address, seg, data, digit

Panel == INSTANCE FrontPanel

ASSUME PanelAssumption ==
  /\ Columns \in Nat \ {0} /\ Row \in Nat /\ Columns <= Row
  /\ Tails1 \subseteq Nat /\ Tails2 \subseteq Nat
  /\ Base \in Nat /\ Base > 1 /\ Half \in Nat \ {0}
  /\ XMax < Panel!Place[Half] /\ YMax < Panel!Place[Half]

panelVars == <<tail, todo, ddram, address, seg, data, digit>>
boardVars == <<vars, panelVars>>

BoardInit == Init /\ Panel!Init

\* LCD_Test is over before the mouse is enumerated.
Greet == Panel!LcdStep /\ UNCHANGED vars

Poll == todo = <<>> /\ (Report \/ Failed) /\ UNCHANGED panelVars

MoveAndShow == Move /\ Panel!ShowPosition(px', py')

ShowDigit == Panel!SEG7_Hex /\ UNCHANGED vars

\* SEG7_Hex has returned.
RestOfPass == digit = 2 * Half /\ (CursorX \/ CursorY \/ Paint) /\ UNCHANGED panelVars

BoardNext == Greet \/ Poll \/ MoveAndShow \/ ShowDigit \/ RestOfPass

BoardSpec == BoardInit /\ [][BoardNext]_boardVars

----------------------------------------------------------------------------
(* LCD.c: "Show Text to LCD", twice, from arrays without room for the zero *)
(* that strlen looks for.  The greeting survives exactly when the          *)
(* characters found behind the first text do not come round to its own row *)
(* and those behind the second do not leave the second row, and nothing    *)
(* the paint loop does disturbs it.                                        *)
GreetingSurvives ==
  /\ Panel!TypeOK
  /\ todo = <<>> =>
       ((\A n \in 1 .. 2 : Panel!Visible(n) = Panel!Greeting(n))
          <=> tail[1] + Columns <= 2 * Row /\ tail[2] + Columns <= Row)

(* Whenever a pass is over, the digits, the registers of the cross and the *)
(* position agree: the upper digits show the column and the lower ones the *)
(* row, with nothing left of an earlier position, and a pixel painted in   *)
(* this pass is the one under the cross, though every register is written  *)
(* on its own.                                                             *)
PositionShown ==
  /\ TypeOK
  /\ pc = "poll" /\ seg[0] # Panel!AllLit =>
       /\ Panel!Number(Half) = px /\ Panel!Number(0) = py
       /\ cursor_x = px /\ cursor_y = py
       /\ pbutton # 0 =>
            written = [address |-> cursor_y * (XMax + 1) + cursor_x, bit |-> 2 - pbutton]
=============================================================================
