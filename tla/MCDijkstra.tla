----------------------------- MODULE MCDijkstra -----------------------------
(***************************************************************************)
(* Instances of DijkstraCore for TLC.                                      *)
(***************************************************************************)
EXTENDS GreedyRefinement

\* A chain against the scan order; a one-way ring with costly shortcuts.
Chain  == [i \in Node |-> [j \in Node |->
            IF i = j THEN 0 ELSE IF (i - j) \in {1, -1} THEN 400 + 50 * i ELSE INF]]
OneWay == [i \in Node |-> [j \in Node |->
            IF i = j THEN 0
            ELSE IF j = (i + 1) % NODE_CNT THEN 400 ELSE 900 * ((j - i) % NODE_CNT)]]
FewMaps == {Chain, OneWay}

\* Which host writes are explored: at any time, or between searches only.
HostQuiet == reset = 0 \/ state = done

QuietNext ==
  \/ Posedge
  \/ HostQuiet /\ \E b \in {0, 1} : WriteReset(b)
  \/ HostQuiet /\ \E s \in Starts : WriteStart(s)

QuietSpec == Init /\ [][QuietNext]_vars /\ WF_vars(Posedge)
=============================================================================
