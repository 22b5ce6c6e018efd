------------------------------ MODULE VgaLine ------------------------------
(***************************************************************************)
(* VGA_line of the C program: Bresenham's line between two points, in any  *)
(* direction and with points that may lie off the screen.  One step is one *)
(* pass of the loop.                                                       *)
(***************************************************************************)
EXTENDS Integers, Sequences

CONSTANTS
  VGA_WIDTH, VGA_HEIGHT,  \* 640 and 480
  Coords                  \* what callers may pass as a coordinate

ASSUME ScreenAssumption ==
  VGA_WIDTH \in Nat \ {0} /\ VGA_HEIGHT \in Nat \ {0} /\ Coords \subseteq Int

VARIABLES
  x1, y1, x2, y2,  \* the ends, clamped to the screen
  x, y, e, j,      \* the locals of the loop
  drawn            \* the pixels set so far, in order

ends == <<x1, y1, x2, y2>>
vars == <<ends, x, y, e, j, drawn>>

Column == 0 .. VGA_WIDTH - 1
Line   == 0 .. VGA_HEIGHT - 1

\* Mutant: one comparison for both sides.
Clamp_OneSided(v, top) == IF v > top THEN top ELSE v

Clamp(v, top) == IF v > top THEN top ELSE IF v < 0 THEN 0 ELSE v

Abs(v)  == IF v < 0 THEN -v ELSE v
Sign(v) == IF v < 0 THEN -1 ELSE IF v = 0 THEN 0 ELSE 1

s1 == Sign(x2 - x1)
s2 == Sign(y2 - y1)

\* Mutant: the width is compared with its sign.
Steep_Signed == Abs(y2 - y1) > x2 - x1

\* xchange: the line is steeper than a diagonal, so y advances every pass.
Steep == Abs(y2 - y1) > Abs(x2 - x1)

\* dx and dy after the exchange.
dx == IF Steep THEN Abs(y2 - y1) ELSE Abs(x2 - x1)
dy == IF Steep THEN Abs(x2 - x1) ELSE Abs(y2 - y1)

\* Mutant: the error starts at 0 instead of half a pixel below.
FirstError_Zero == 2 * dy

FirstError == 2 * dy - dx

Init ==
  /\ \E c \in Coords : x1 = Clamp(c, VGA_WIDTH - 1)
  /\ \E c \in Coords : y1 = Clamp(c, VGA_HEIGHT - 1)
  /\ \E c \in Coords : x2 = Clamp(c, VGA_WIDTH - 1)
  /\ \E c \in Coords : y2 = Clamp(c, VGA_HEIGHT - 1)
  /\ x = x1 /\ y = y1 /\ e = FirstError /\ j = 0 /\ drawn = <<>>

Turns == e >= 0

Pass == j <= dx

SetPixel ==
  /\ Pass
  /\ drawn' = Append(drawn, <<x, y>>)
  /\ x' = IF ~Steep \/ Turns THEN x + s1 ELSE x
  /\ y' = IF Steep \/ Turns THEN y + s2 ELSE y
  /\ e' = (IF Turns THEN e - 2 * dx ELSE e) + 2 * dy
  /\ j' = j + 1
  /\ UNCHANGED ends

Next == SetPixel

Spec == Init /\ [][Next]_vars /\ WF_vars(Next)

----------------------------------------------------------------------------
\* The error stays within one turn, so no integer grows with the line.
TypeOK ==
  /\ x1 \in Column /\ x2 \in Column /\ y1 \in Line /\ y2 \in Line
  /\ x \in Int /\ y \in Int /\ j \in 0 .. dx + 1
  /\ e \in 2 * (dy - dx) .. 2 * dy
  /\ drawn \in Seq(Int \X Int)

\* How far the i-th pixel is from the first, along x and y.
Across(i) == Abs(drawn[i][1] - x1)
Down(i)   == Abs(drawn[i][2] - y1)

(* Every pixel set is within half a pixel of the true line between the     *)
(* clamped ends: the error that Bresenham's loop carries along is right in *)
(* all eight directions.                                                   *)
WithinHalf ==
  \A i \in DOMAIN drawn :
    Abs(2 * (IF Steep THEN dx * Across(i) - dy * Down(i)
                      ELSE dx * Down(i) - dy * Across(i))) <= dx

(* Whatever the coordinates passed in, no pixel is written off the screen, *)
(* where y * VGA_WIDTH + x would be another line's pixel or a register.    *)
OnScreen == \A i \in DOMAIN drawn : drawn[i] \in Column \X Line

(* The finished line begins at the one end and ends at the other, so the   *)
(* roads of a path meet at the towns.                                      *)
EndsMeet ==
  j > dx => drawn[1] = <<x1, y1>> /\ drawn[Len(drawn)] = <<x2, y2>>
=============================================================================
