----------------------------- MODULE MCVgaLine -----------------------------
(***************************************************************************)
(* Every line on a small screen, its ends on it or off it.                 *)
(***************************************************************************)
EXTENDS VgaLine

OnAndOff == -2 .. VGA_WIDTH + 1
=============================================================================
