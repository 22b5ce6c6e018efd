---------------------------- MODULE GreedySearch ----------------------------
(***************************************************************************)
(* What the core promises, without clocks, pipelines or 14-bit words: from *)
(* a start node, repeatedly expand a nearest node that is not settled yet. *)
(* A search may be abandoned at any moment and another one begun.          *)
(***************************************************************************)
EXTENDS RoadMap

VARIABLES
  graph,     \* the map, which never changes
  phase,     \* "idle", "search" or "done"
  source,    \* the node the search began at
  dist,      \* the length of the best path found so far
  pred,      \* the last node before each node on that path
  settled    \* the nodes whose roads have been tried

vars == <<graph, phase, source, dist, pred, settled>>

\* What the labels are worth while no search is under way.
Blank ==
  /\ source = 0 /\ settled = {}
  /\ dist = [i \in Node |-> 0] /\ pred = [i \in Node |-> 0]

Init == graph \in Maps /\ phase = "idle" /\ Blank

Begin(s) ==
  /\ phase = "idle"
  /\ phase' = "search" /\ source' = s /\ settled' = {s}
  /\ dist' = graph[s] /\ pred' = [i \in Node |-> s]
  /\ UNCHANGED graph

Nearest(u) == u \notin settled /\ \A i \in Node \ settled : dist[u] <= dist[i]

Shortens(u, i) == i \notin settled \cup {u} /\ dist[u] + graph[u][i] < dist[i]

Expand(u) ==
  /\ phase = "search" /\ Nearest(u)
  /\ settled' = settled \cup {u}
  /\ dist' = [i \in Node |-> IF Shortens(u, i) THEN dist[u] + graph[u][i]
                                               ELSE dist[i]]
  /\ pred' = [i \in Node |-> IF Shortens(u, i) THEN u ELSE pred[i]]
  /\ phase' = IF settled' = Node THEN "done" ELSE "search"
  /\ UNCHANGED <<graph, source>>

Abandon ==
  /\ phase' = "idle" /\ Blank'
  /\ UNCHANGED graph

Next ==
  \/ \E s \in Node : Begin(s)
  \/ \E u \in Node : Expand(u)
  \/ Abandon

\* A search under way is not left alone.
Spec == Init /\ [][Next]_vars /\ WF_vars(\E u \in Node : Expand(u))
=============================================================================
