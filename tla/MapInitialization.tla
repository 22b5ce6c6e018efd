------------------------- MODULE MapInitialization -------------------------
(***************************************************************************)
(* map_initialization_vhdl: the constant function from (row, column) to    *)
(* the weight that is loaded into the RAM of column i at address row.      *)
(***************************************************************************)
EXTENDS Integers

TOWN_CNT == 16

\* The elsif branches, one road each; every branch names both directions.
Roads == {
  << 0,  1, 247>>, << 0,  2, 258>>, << 1,  2, 289>>, << 1,  5, 245>>,
  << 2,  3, 132>>, << 2,  4, 258>>, << 3,  6, 217>>, << 3,  7, 290>>,
  << 4,  5, 178>>, << 4,  7,  94>>, << 5, 14, 187>>, << 5, 13, 341>>,
  << 6,  9, 309>>, << 7,  8, 119>>, << 7, 11, 180>>, << 8,  9, 165>>,
  << 8, 10, 312>>, << 8, 12, 145>>, << 9, 10, 176>>, <<10, 15, 465>>,
  <<11, 12,  45>>, <<11, 13,  75>>, <<12, 15, 352>>, <<13, 15, 286>>,
  <<14, 15, 231>> }

RoadsOf(row, column) == {r \in Roads : {r[1], r[2]} = {row, column}}

map_init_value(row, column) ==
  CASE row = column                  -> 0
    [] RoadsOf(row, column) # {}     -> (CHOOSE r \in RoadsOf(row, column) : TRUE)[3]
    [] OTHER                         -> 10000

TownMap == [row \in 0 .. TOWN_CNT - 1 |->
             [column \in 0 .. TOWN_CNT - 1 |-> map_init_value(row, column)]]
=============================================================================
