------------------------------- MODULE MCLcd -------------------------------
(***************************************************************************)
(* Instances of the display driver: what the program may write.            *)
(***************************************************************************)
EXTENDS Lcd16207

Op(name) == [op |-> name]
Typed(c) == [op |-> "print", char |-> c]
To(r, c) == [op |-> "H", row |-> r, col |-> c]

SmallPrintable == {"a", Blank}
\* To(2, 3) and To(3, 4) begin long texts of two lengths, the second after
\* scrolling up.
SmallTokens == {Typed("a"), Op("CR"), Op("LF"), Op("BS"), Op("K"), Op("2J"), To(2, 3), To(3, 4)}
=============================================================================
