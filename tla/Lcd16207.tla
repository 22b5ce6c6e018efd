------------------------------ MODULE Lcd16207 ------------------------------
(***************************************************************************)
(* The driver of the character display behind /dev/lcd: a very small       *)
(* terminal.  A write interprets its characters, works out how the lines   *)
(* must scroll and repaints the panel; an alarm scrolls the lines ten      *)
(* times a second and repaints the panel itself unless a write is active.  *)
(* The alarm interrupts the write between any two of its steps, never the  *)
(* other way round.  One token stands for a character or for a complete    *)
(* escape sequence; the panel's memory and cursor are the hardware's.      *)
(***************************************************************************)
EXTENDS Integers, FiniteSetsExt

CONSTANTS
    Height, Width, VirtualWidth,   \* ALT_LCD_HEIGHT (2), _WIDTH (16), _VIRTUAL_WIDTH (80)
    RowGap,                 \* distance of the rows in the panel's memory (0x40)
    Byte,                   \* values of a char (256); also the scale of a speed
    Printable, Blank,       \* the characters isprint accepts, and the blank among them
    Tokens,                 \* the characters and sequences the program writes
    MaxTokens               \* bound: tokens written in all

Half == Byte \div 2

Written == [op : {"print"}, char : Printable] \cup [op : {"H"}, row : Nat, col : Nat]
              \cup [op : {"CR", "LF", "BS", "K", "2J"}]

(* A line's width and the panel's addresses are signed characters of the   *)
(* driver, the cursor's row is an unsigned one.                            *)
ASSUME LcdAssumption ==
    /\ {Height, Width, VirtualWidth, RowGap, Byte, MaxTokens} \subseteq Nat
    /\ Byte = 2 * Half
    /\ Height \in 1 .. Half - 1
    /\ Width \in 1 .. VirtualWidth /\ VirtualWidth + 1 < Half
    /\ RowGap > Width /\ (Height - 1) * RowGap + Width < Half
    /\ Blank \in Printable /\ Tokens \subseteq Written

VARIABLES
    x, y, data, width, speed,     \* the terminal: cursor and lines
    scrollpos, scrollmax, active, \* shared by the write and the alarm
    lcd,                          \* visible, address, broken; the panel: ram, cursor, fitted
    pc, left, painted, cell       \* the write: its place, the tokens left, the
                                  \* scroll position and cell it paints

terminal == <<x, y, data, width, speed>>
vars == <<terminal, scrollpos, scrollmax, active, lcd, pc, left, painted, cell>>

Rows == 0 .. Height - 1
BlankLine == [i \in 0 .. VirtualWidth |-> Blank]
UChar(v) == v % Byte
Char(v) == ((v + Half) % Byte) - Half    \* char is signed on Nios II
Larger(a, b) == IF a > b THEN a ELSE b

-----------------------------------------------------------------------------
(* The panel.  A command or a datum that finds the panel busy for too long *)
(* marks it broken, and nothing is sent any more.                          *)

Send(l, done) ==
    IF l.broken THEN l ELSE IF l.fitted THEN done ELSE [l EXCEPT !.broken = TRUE]

lcd_write_command_address(l, a) ==
    [Send(l, [l EXCEPT !.cursor = a]) EXCEPT !.address = a]

lcd_write_data(l, c) ==
    Send(l, [l EXCEPT !.ram[l.cursor] = c, !.cursor = @ + 1, !.address = @ + 1])

Cleared(l) ==
    [Send(l, [l EXCEPT !.ram = [a \in DOMAIN @ |-> Blank], !.cursor = 0])
        EXCEPT !.address = 0, !.visible = [r \in Rows |-> [i \in 0 .. Width - 1 |-> Blank]]]

Offset(r, pos) ==
    LET offset == (pos * speed[r]) \div Byte IN IF offset >= width[r] THEN 0 ELSE offset

Shown(r, i, pos) == data[r][(i + Offset(r, pos)) % width[r]]

(* The k-th cell painted, row by row *)
Paint(l, k, pos) ==
    LET r == (k - 1) \div Width
        i == (k - 1) % Width
        c == Shown(r, i, pos)
        a == i + r * RowGap
        there == IF l.address # a THEN lcd_write_command_address(l, a) ELSE l
    IN IF l.visible[r][i] = c THEN l ELSE [lcd_write_data(there, c) EXCEPT !.visible[r][i] = c]

(* All of them, as the alarm does it: between two steps of a write. *)
lcd_repaint_screen(l, pos) ==
    LET after[k \in 0 .. Height * Width] == IF k = 0 THEN l ELSE Paint(after[k - 1], k, pos)
    IN after[Height * Width]

-----------------------------------------------------------------------------
Init ==
    /\ x = 0 /\ y = 0 /\ data = [r \in Rows |-> BlankLine]
    /\ width = [r \in Rows |-> 0] /\ speed = [r \in Rows |-> 0]
    /\ scrollpos = 0 /\ scrollmax = 0 /\ active = FALSE
    /\ \E fitted \in BOOLEAN :
          lcd = [visible |-> [r \in Rows |-> [i \in 0 .. Width - 1 |-> Blank]], address |-> 0,
                 broken |-> ~fitted, fitted |-> fitted, cursor |-> 0,
                 ram |-> [a \in 0 .. (Height - 1) * RowGap + Width |-> Blank]]
    /\ pc = "idle" /\ left = MaxTokens /\ painted = 0 /\ cell = 0

(* altera_avalon_lcd_16207_write begins; it ends when the tokens that the  *)
(* caller passed are used up.                                              *)
Write ==
    /\ pc = "idle" /\ left > 0
    /\ active' = TRUE
    /\ pc' = "chars"
    /\ UNCHANGED <<terminal, scrollpos, scrollmax, lcd, left, painted, cell>>

(* Lines move up by k; the cursor with them. *)
Scrolled(d, k) == [r \in Rows |-> IF r + k < Height THEN d[r + k] ELSE BlankLine]

Move(nx, ny, d) == x' = nx /\ y' = ny /\ data' = d /\ UNCHANGED <<width, speed, lcd>>

LineFeed ==
    LET k == IF y + 1 > Height THEN 1 ELSE 0 IN Move(0, y + 1 - k, Scrolled(data, k))

Put(c) ==
    LET k == IF y >= Height THEN 1 ELSE 0
        d == Scrolled(data, k)
    IN Move(UChar(x + 1), y - k, IF x < VirtualWidth THEN [d EXCEPT ![y - k][x] = c] ELSE d)

(* ESC [ row ; col H: a zero stands for a parameter left out. *)
Goto(row, col) ==
    LET to == IF row > 0 THEN Min({UChar(row - 1), 2 * Height}) ELSE y
        k == IF row > 0 THEN Larger(to - Height, 0) ELSE 0
    IN Move(IF col > 0 THEN UChar(col - 1) ELSE x, to - k, Scrolled(data, k))

(* ESC [ K.  With the cursor below the lines the memset goes outside them,  *)
(* into memory that is not modelled.                                       *)
EraseLine ==
    /\ data' = [r \in Rows |->
                   IF r # y THEN data[r]
                   ELSE [i \in 0 .. VirtualWidth |-> IF i \in x .. VirtualWidth - 1 THEN Blank ELSE data[r][i]]]
    /\ UNCHANGED <<x, y, width, speed, lcd>>

ClearScreen ==
    /\ x' = 0 /\ y' = 0 /\ data' = [r \in Rows |-> BlankLine] /\ width' = [r \in Rows |-> 0]
    /\ lcd' = Cleared(lcd)
    /\ UNCHANGED speed

Interpret(t) ==
    \/ t.op = "print" /\ Put(t.char)
    \/ t.op = "CR" /\ Move(0, y, data)
    \/ t.op = "LF" /\ LineFeed
    \/ t.op = "BS" /\ Move(Larger(x - 1, 0), y, data)
    \/ t.op = "H" /\ Goto(t.row, t.col)
    \/ t.op = "K" /\ EraseLine
    \/ t.op = "2J" /\ ClearScreen

Token ==
    /\ pc = "chars" /\ left > 0
    /\ \E t \in Tokens : Interpret(t)
    /\ left' = left - 1
    /\ UNCHANGED <<scrollpos, scrollmax, active, pc, painted, cell>>

(* The last token has been read: the scrolling parameters.  width and      *)
(* scrollmax are signed characters, speed an unsigned one.                 *)
TextWidth(r) ==
    LET used == {i \in 1 .. VirtualWidth : data[r][i - 1] # Blank}
        w == IF used = {} THEN 0 ELSE Max(used)
    IN IF w <= Width THEN Width ELSE w + 1

(* Mistake: all lines get the speed of the longest one. *)
Speed_Alike(r, widthmax) == IF TextWidth(r) > Width THEN Half ELSE 0

Speed(r, widthmax) == IF TextWidth(r) > Width THEN UChar((Byte * TextWidth(r)) \div widthmax) ELSE 0

Recalculate ==
    /\ pc = "chars"
    /\ LET widthmax == 2 * Max({TextWidth(r) : r \in Rows})
       IN /\ width' = [r \in Rows |-> TextWidth(r)]
          /\ speed' = [r \in Rows |-> Speed(r, widthmax)]
          /\ scrollmax' = IF widthmax <= 2 * Width THEN 0 ELSE Char(widthmax)
    /\ pc' = "repaint"
    /\ UNCHANGED <<x, y, data, scrollpos, active, lcd, left, painted, cell>>

(* The position is read twice, once for the comparison to come and once to *)
(* paint: one reading here, since an alarm between them would only make    *)
(* the comparison fail and the panel be painted again.                     *)
Repaint ==
    /\ pc = "repaint"
    /\ painted' = scrollpos /\ cell' = 1 /\ pc' = "cells"
    /\ UNCHANGED <<terminal, scrollpos, scrollmax, active, lcd, left>>

PaintCell ==
    /\ pc = "cells" /\ cell <= Height * Width
    /\ lcd' = Paint(lcd, cell, painted)
    /\ cell' = cell + 1
    /\ UNCHANGED <<terminal, scrollpos, scrollmax, active, pc, left, painted>>

PaintEnd ==
    /\ pc = "cells" /\ cell > Height * Width
    /\ active' = FALSE /\ cell' = 0 /\ pc' = "check"
    /\ UNCHANGED <<terminal, scrollpos, scrollmax, lcd, left, painted>>

(* Mistake: one repaint is taken to be enough. *)
Check_Once ==
    /\ pc = "check" /\ active' = FALSE /\ painted' = 0 /\ pc' = "idle"
    /\ UNCHANGED <<terminal, scrollpos, scrollmax, lcd, left, cell>>

(* Has the alarm moved the lines meanwhile?  Then they are painted again.  *)
Check ==
    /\ pc = "check"
    /\ IF scrollpos = painted
       THEN pc' = "idle" /\ painted' = 0 /\ UNCHANGED active
       ELSE pc' = "repaint" /\ active' = TRUE /\ UNCHANGED painted
    /\ UNCHANGED <<terminal, scrollpos, scrollmax, lcd, left, cell>>

-----------------------------------------------------------------------------
(* alt_lcd_16207_timeout, off the timer interrupt. *)
Advance == scrollpos' = IF scrollpos + 1 >= scrollmax THEN 0 ELSE scrollpos + 1

Timeout ==
    /\ Advance
    /\ lcd' = IF scrollmax > 0 /\ ~active THEN lcd_repaint_screen(lcd, scrollpos') ELSE lcd
    /\ UNCHANGED <<terminal, scrollmax, active, pc, left, painted, cell>>

(* The panel stops answering. *)
Unplug ==
    /\ lcd.fitted
    /\ lcd' = [lcd EXCEPT !.fitted = FALSE]
    /\ UNCHANGED <<terminal, scrollpos, scrollmax, active, pc, left, painted, cell>>

Foreground == Token \/ Recalculate \/ Repaint \/ PaintCell \/ PaintEnd \/ Check
Next == Write \/ Foreground \/ Timeout \/ Unplug

Spec == Init /\ [][Next]_vars
(* The alarm goes off again and again; only Timeout moves the position.    *)
(* Nothing is asked of the write.                                          *)
FairSpec == Spec /\ WF_scrollpos(Advance)

-----------------------------------------------------------------------------
Position == 0 .. Half - 2
Cell == 0 .. (Height - 1) * RowGap + Width
Picture == [Rows -> [0 .. Width - 1 -> Printable]]
Lcd == [visible : Picture, address : Cell, broken : BOOLEAN, fitted : BOOLEAN, cursor : Cell,
        ram : [Cell -> Printable]]

(* Every variable keeps its type; the cursor sits on a line or on the one  *)
(* below the last, and the panel is written within its memory.             *)
TypeOK ==
    /\ x \in 0 .. Byte - 1 /\ y \in 0 .. Height
    /\ data \in [Rows -> [0 .. VirtualWidth -> Printable]]
    /\ width \in [Rows -> 0 .. VirtualWidth + 1] /\ speed \in [Rows -> 0 .. Half]
    /\ scrollpos \in Position /\ scrollmax \in -Half .. Half - 1 /\ active \in BOOLEAN
    /\ lcd \in Lcd
    /\ pc \in {"idle", "chars", "repaint", "cells", "check"} /\ left \in 0 .. MaxTokens
    /\ painted \in Position /\ cell \in 0 .. Height * Width + 1

(* What the driver believes of the panel is true: its picture of the       *)
(* characters and of the address counter, on which it relies to send only  *)
(* what changed, whoever painted last.                                     *)
Believed(l) ==
    ~l.broken =>
        /\ l.cursor = l.address
        /\ \A r \in Rows, i \in 0 .. Width - 1 : l.ram[i + r * RowGap] = l.visible[r][i]

PanelAsBelieved == Believed(lcd)

(* Nobody paints while the widths are being worked out (a cleared line has *)
(* width 0, and the repaint divides by it).                                *)
WidthsWhenPainting ==
    pc = "cells" \/ (scrollmax > 0 /\ ~active) => \A r \in Rows : width[r] >= Width

Shows(pos) == \A r \in Rows, i \in 0 .. Width - 1 : lcd.visible[r][i] = Shown(r, i, pos)

(* Between writes the panel shows the text at the present scroll position: *)
(* no repaint is missed because the alarm went off during a write, and     *)
(* whoever paints finds the widths worked out and the panel as the driver  *)
(* believes it is.  A line whose doubled width is no signed character      *)
(* stays where it was when it was painted.                                 *)
ShowsText ==
    /\ TypeOK /\ PanelAsBelieved /\ WidthsWhenPainting
    /\ pc = "idle" /\ (\A r \in Rows : width[r] > 0) =>
          \E pos \in Position : (scrollmax >= 0 => pos = scrollpos) /\ Shows(pos)

(* Every line that scrolls goes round once while the position runs through *)
(* the values all lines share, whatever their lengths: it stands at each   *)
(* of its characters at some position, and at its last one at the last.    *)
LinesGoRound ==
    pc # "chars" /\ scrollmax > 0 =>
        \A r \in Rows : width[r] > Width =>
            /\ \A k \in 0 .. width[r] - 1 : \E pos \in 0 .. scrollmax - 1 : Offset(r, pos) = k
            /\ Offset(r, scrollmax - 1) = width[r] - 1

AtEnd(r) == Offset(r, scrollpos) = width[r] - 1

(* Once the program has nothing more to write, all lines that scroll reach *)
(* their ends together, again and again, however their lengths differ and  *)
(* whenever the alarm interrupts the write ("so that all the scrolls       *)
(* finish at the same time"), as long as twice the longest width is a      *)
(* signed character.                                                       *)
LinesEndTogether ==
    []<>(left = 0 /\ pc # "chars" /\ scrollmax > 0 =>
            \A r \in Rows : width[r] > Width => AtEnd(r))
=============================================================================
