------------------------------ MODULE MCSystem ------------------------------
(***************************************************************************)
(* Instances of ShortestPathSystem for TLC.                                *)
(***************************************************************************)
EXTENDS ShortestPathSystem, MapInitialization

ShippedMap == {TownMap}

\* A ring with one costly road, and a star with shortcuts: unequal hops.
Ring == [i \in Node |-> [j \in Node |->
          IF i = j THEN 0 ELSE IF {i, j} = {0, NODE_CNT - 1} THEN 2000
          ELSE IF (i - j) \in {1, -1} THEN 500 + i + j ELSE INF]]
Star == [i \in Node |-> [j \in Node |->
          IF i = j THEN 0 ELSE IF 0 \in {i, j} THEN 100 * (i + j) ELSE 90 * (i + j)]]
SmallMaps == {Ring, Star}

\* Typed numbers: every node and one on each side of the range.
SmallInputs   == {-1, 0, 1, 2, 3, 4}
ShippedInputs == -1 .. 16
=============================================================================
