----------------------------- MODULE FrontPanel -----------------------------
(***************************************************************************)
(* The two displays as the program uses them: LCD_Test greets on the panel *)
(* before the paint loop, and every pass of the loop shows the cursor on   *)
(* the seven-segment digits.                                               *)
(*                                                                         *)
(* LCD_Test writes two arrays that have no room for a terminating zero and *)
(* LCD_Show_Text sends characters up to the zero it finds: how many follow *)
(* the text is whatever the stack holds.  The panel is external: a memory  *)
(* of two rows, of which the first columns are visible, and an address     *)
(* that counts through both rows and starts over.                          *)
(***************************************************************************)
EXTENDS Integers, Sequences

CONSTANTS
    Columns,    \* visible characters of a row, 16
    Row,        \* characters of a row in the panel's memory, 40
    Tails1, Tails2, \* how many characters may be found behind a text
    Base,       \* values of a digit, 16
    Half        \* digits of a coordinate, 4

VARIABLES
    tail,       \* characters behind Text1 and Text2
    todo,       \* what LCD_Test has yet to send
    ddram, address,     \* the panel
    seg,        \* reg_file of SEG7_IF, as the digits shown
    data, digit         \* Data and i of SEG7_Hex

lcd == <<tail, todo, ddram, address>>
hex == <<seg, data, digit>>

Cell == 0 .. 2 * Row - 1
Digit == 0 .. 2 * Half - 1
Blank == -1
Junk == -2
AllLit == -1     \* a digit with every segment on, as SEG7_IF resets

(* Character c of text n *)
Letter(n, c) == n * Columns + c

Command(name) == [cmd |-> name]
Write(ch) == [char |-> ch]

(* LCD_Show_Text: the text and what follows it *)
LCD_Show_Text(n) ==
    [c \in 1 .. Columns + tail[n] |-> Write(IF c <= Columns THEN Letter(n, c - 1) ELSE Junk)]

LCD_Init == <<Command("function"), Command("on"), Command("clear"), Command("mode"), Command("line 1")>>

(* Mistake: the second line begins where the first one does. *)
LCD_Line2_First == <<Command("line 1")>>

LCD_Line2 == <<Command("line 2")>>

LCD_Test == LCD_Init \o LCD_Show_Text(1) \o LCD_Line2 \o LCD_Show_Text(2)

Init ==
    /\ tail \in Tails1 \X Tails2
    /\ todo = LCD_Test
    /\ ddram = [a \in Cell |-> Blank] /\ address = 0
    /\ seg = [d \in Digit |-> AllLit]
    /\ data = 0 /\ digit = 2 * Half

Obey(cmd) ==
    CASE cmd = "clear" -> /\ ddram' = [a \in Cell |-> Blank] /\ address' = 0
      [] cmd = "line 1" -> address' = 0 /\ UNCHANGED ddram
      [] cmd = "line 2" -> address' = Row /\ UNCHANGED ddram
      [] OTHER -> UNCHANGED <<ddram, address>>

(* One write of LCD_Test and its wait of 2 ms, which is longer than the    *)
(* panel is ever busy.                                                     *)
LcdStep ==
    /\ todo # <<>>
    /\ IF "cmd" \in DOMAIN Head(todo)
       THEN Obey(Head(todo).cmd)
       ELSE /\ ddram' = [ddram EXCEPT ![address] = Head(todo).char]
            /\ address' = (address + 1) % (2 * Row)
    /\ todo' = Tail(todo)
    /\ UNCHANGED <<tail, hex>>

(* What digit n counts for; a shift by n digits multiplies by it. *)
Place[n \in 0 .. 2 * Half] == IF n = 0 THEN 1 ELSE Base * Place[n - 1]

(* Mistake: the column is shifted one digit too little. *)
Hex_Narrow(px, py) == px * Place[Half - 1] + py

Hex(px, py) == px * Place[Half] + py

(* SEG7_Hex((px << 16) + py, 0) is called. *)
ShowPosition(px, py) ==
    /\ todo = <<>> /\ digit = 2 * Half
    /\ data' = Hex(px, py) /\ digit' = 0
    /\ UNCHANGED <<lcd, seg>>

(* One turn of its loop *)
SEG7_Hex ==
    /\ digit < 2 * Half
    /\ seg' = [seg EXCEPT ![digit] = data % Base]
    /\ data' = data \div Base
    /\ digit' = digit + 1
    /\ UNCHANGED lcd

-----------------------------------------------------------------------------
(* Everything in range. *)
TypeOK ==
    /\ address \in Cell
    /\ \A a \in Cell : ddram[a] \in {Blank, Junk} \cup (Columns .. 3 * Columns - 1)
    /\ seg \in [Digit -> {AllLit} \cup (0 .. Base - 1)]
    /\ data \in Nat /\ digit \in 0 .. 2 * Half

(* What a row of the panel shows, and what it should *)
Visible(n) == [c \in 0 .. Columns - 1 |-> ddram[(n - 1) * Row + c]]
Greeting(n) == [c \in 0 .. Columns - 1 |-> Letter(n, c)]

(* The number that the digits from first on show *)
Number(first) ==
    LET value[n \in 0 .. Half] == IF n = 0 THEN 0 ELSE seg[first + Half - n] + Base * value[n - 1]
    IN  value[Half]
=============================================================================
