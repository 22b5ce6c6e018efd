---------------------------- MODULE MCSmallMaps ----------------------------
(***************************************************************************)
(* Every small map over three weights.                                      *)
(***************************************************************************)
EXTENDS MCDijkstra

\* Every symmetric 4-node map over the given weights that IsRoadMap admits.
MapsOver(W) ==
  LET pairs == {p \in Node \X Node : p[1] < p[2]}
      sym(w) == [i \in Node |-> [j \in Node |->
                  IF i = j THEN 0 ELSE IF i < j THEN w[<<i, j>>] ELSE w[<<j, i>>]]]
  IN  {g \in {sym(w) : w \in [pairs -> W]} : IsRoadMap(g)}

\* 700 * 3 < 2127, so detours pay; 3 * 2127 + INF is one below 2^14.
AllSmallMaps == MapsOver({700, 2127, INF})
=============================================================================
