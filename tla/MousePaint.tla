---------------------------- MODULE MousePaint ----------------------------
(***************************************************************************)
(* The paint loop of the C program: one pass polls the mouse, turns its    *)
(* report into a move of the cursor, writes the cursor's registers and     *)
(* sets or clears the pixel under it.  The two layouts a report can have   *)
(* (data_size 8 or not) carry the same three bytes.  A mouse that has been *)
(* unplugged and enumerated again finds the locals as they were.           *)
(***************************************************************************)
EXTENDS Integers

CONSTANTS
  XMax, YMax,   \* 639 and 479
  Bytes,        \* bytes of movement the mouse may report
  Buttons       \* bytes of buttons the mouse may report

ASSUME PaintAssumption ==
  /\ XMax \in Nat /\ YMax \in Nat /\ XMax + 128 < 65536 /\ YMax + 128 < 65536
  /\ Bytes \subseteq 0 .. 255 /\ Buttons \subseteq 0 .. 255

VARIABLES
  pc,
  px, py, dx, dy, pbutton,  \* locals of main
  cursor_x, cursor_y,       \* registers of the cursor
  written,                  \* the last write to the pixel memory
  last                      \* history: the movement of the last poll, if any

position  == <<px, py>>
report    == <<dx, dy, pbutton>>
registers == <<cursor_x, cursor_y, written>>
vars      == <<pc, position, report, registers, last>>

NoWrite == [address |-> -1, bit |-> 0]
Silent  == [x |-> 0, y |-> 0, ok |-> FALSE]

Init ==
  /\ pc = "poll" /\ px = (XMax + 1) \div 2 /\ py = (YMax + 1) \div 2
  /\ dx = 0 /\ dy = 0 /\ pbutton = 0
  /\ cursor_x = 0 /\ cursor_y = 0 /\ written = NoWrite /\ last = Silent

----------------------------------------------------------------------------
\* (signed char) b
Signed(b) == IF b < 128 THEN b ELSE b - 256

Button(b) == IF b \in {1, 2} THEN b ELSE 0

\* Mutant: a repeated movement counts again.
Delta_Repeated(old, b) == IF b = 0 THEN old ELSE Signed(b)

\* A movement of zero leaves the old one in force; the same one cancels it.
Delta(old, b) == IF b = 0 THEN old ELSE IF Signed(b) = old THEN 0 ELSE Signed(b)

Report ==
  /\ pc = "poll" /\ pc' = "move"
  /\ \E b \in Buttons, x \in Bytes, y \in Bytes :
       /\ pbutton' = Button(b)
       /\ dx' = Delta(dx, x) /\ dy' = Delta(dy, y)
       /\ last' = [x |-> Signed(x), y |-> Signed(y), ok |-> TRUE]
  /\ UNCHANGED <<position, registers>>

\* The transfer did not succeed, for instance because nothing has moved.
Failed ==
  /\ pc = "poll" /\ pc' = "move"
  /\ pbutton' = 0 /\ dx' = 0 /\ dy' = 0 /\ last' = Silent
  /\ UNCHANGED <<position, registers>>

\* px and py are of sixteen bits.
Word(v) == v % 65536

\* Mutant: the word is taken for a number with a sign.
maxmin_Signed(no, max) == IF no >= 32768 THEN 0 ELSE IF no > max THEN max ELSE no

\* maxmin; no is a word, so it is never below 0.
maxmin(no, max) == IF no > max THEN max ELSE no

Move ==
  /\ pc = "move" /\ pc' = "cursor_x"
  /\ px' = maxmin(Word(px + dx), XMax)
  /\ py' = maxmin(Word(py + dy), YMax)
  /\ UNCHANGED <<report, registers, last>>

CursorX ==
  /\ pc = "cursor_x" /\ pc' = "cursor_y" /\ cursor_x' = px
  /\ UNCHANGED <<position, report, cursor_y, written, last>>

CursorY ==
  /\ pc = "cursor_y" /\ pc' = "paint" /\ cursor_y' = py
  /\ UNCHANGED <<position, report, cursor_x, written, last>>

Address == py * (XMax + 1) + px

\* Vga_Set_Pixel or Vga_Clr_Pixel, or neither; then the pass is over, or the
\* mouse is found unplugged and enumerated again, which spares these locals.
Paint ==
  /\ pc = "paint" /\ pc' = "poll"
  /\ written' = IF pbutton = 0 THEN written
                ELSE [address |-> Address, bit |-> IF pbutton = 1 THEN 1 ELSE 0]
  /\ UNCHANGED <<position, report, cursor_x, cursor_y, last>>

Next == Report \/ Failed \/ Move \/ CursorX \/ CursorY \/ Paint

Spec == Init /\ [][Next]_vars

----------------------------------------------------------------------------
\* The cursor and its registers never leave the screen.
TypeOK ==
  /\ pc \in {"poll", "move", "cursor_x", "cursor_y", "paint"}
  /\ px \in 0 .. XMax /\ py \in 0 .. YMax
  /\ dx \in -128 .. 127 /\ dy \in -128 .. 127 /\ pbutton \in 0 .. 2
  /\ cursor_x \in 0 .. XMax /\ cursor_y \in 0 .. YMax
  /\ last \in [x : -128 .. 127, y : -128 .. 127, ok : BOOLEAN]
  /\ written = NoWrite
     \/ written \in [address : 0 .. (XMax + 1) * (YMax + 1) - 1, bit : {0, 1}]

(* Of two equal reports in a row only one moves the cursor, which makes a  *)
(* report that is read twice harmless.                                     *)
EqualReportsMoveOnce ==
  [][ Report /\ last' = last =>
        /\ last.x # 0 => {dx, dx'} = {0, last.x}
        /\ last.y # 0 => {dy, dy'} = {0, last.y} ]_vars

(* A move that would leave the screen ends on the right or lower edge: the *)
(* sixteen bits of px and py wrap below zero before maxmin sees them, so   *)
(* crossing the left or upper edge leads to the opposite one.              *)
EndsOnFarEdge ==
  [][ Move => /\ px' = IF px + dx \in 0 .. XMax THEN px + dx ELSE XMax
              /\ py' = IF py + dy \in 0 .. YMax THEN py + dy ELSE YMax ]_vars
=============================================================================
