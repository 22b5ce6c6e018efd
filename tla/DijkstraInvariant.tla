------------------------- MODULE DijkstraInvariant -------------------------
(***************************************************************************)
(* Why DijkstraCore is correct: the inductive invariant behind its safety  *)
(* properties.  It has three parts: what the controller's states of three  *)
(* consecutive clocks can be, what is in the memories and on their ports,  *)
(* and, once distances are loaded, the invariant of Dijkstra's algorithm   *)
(* with one relaxation under way.                                          *)
(***************************************************************************)
EXTENDS DijkstraCore, FiniteSets

\* The states of this clock, the last one and the one before it.
Window(now, last, earlier) ==
  state = now /\ state_reg = last /\ state_reg_reg = earlier

Windows ==
  \/ Window(map_init,  map_init,  map_init)
  \/ Window(dsn_init,  map_init,  map_init)
  \/ Window(min_cost2, dsn_init,  map_init)  /\ counter = 0
  \/ Window(min_cost1, min_cost2, dsn_init)  /\ counter = 0
  \/ Window(min_cost,  min_cost1, min_cost2)
  \/ Window(min_cost,  min_cost,  min_cost1)
  \/ Window(min_cost,  min_cost,  min_cost)
  \/ Window(upd_minc,  min_cost,  min_cost1)
  \/ Window(upd_minc,  min_cost,  min_cost)
  \/ Window(upd_dist,  upd_minc,  min_cost)
  \/ Window(min_cost2, upd_dist,  upd_minc)
  \/ Window(min_cost1, min_cost2, upd_dist)
  \/ Window(done,      min_cost2, upd_dist)
  \/ Window(done,      done,      min_cost2)
  \/ Window(done,      done,      done)

Rounds ==
  /\ state \in {min_cost1, min_cost, upd_minc, upd_dist} => counter # LastNode
  /\ state = done => counter = LastNode
  /\ state # min_cost => sub_counter = 0

\* The rows written so far are those of the map.
RowsLoaded ==
  \A a \in Node : state # map_init \/ a < counter => mem[a] = graph[a]

\* The address that is needed travels with the state that needs it.
AddressesFollow ==
  startHeld =>
    /\ state = dsn_init => counter = start
    /\ state_reg = dsn_init => read_address_reg = start
    /\ state_reg = upd_dist => read_address_reg = New_reg

PipelineInv ==
  TypeOK /\ graph \in Maps /\ Windows /\ Rounds /\ RowsLoaded
  /\ AddressesFollow /\ PipelineAligned

----------------------------------------------------------------------------
\* Every round adds one node to shortest; the node just taken is in it.
Counted ==
  /\ Cardinality(shortest) = IF state = upd_dist THEN counter + 2 ELSE counter + 1
  /\ Pending => New_reg \in shortest
  /\ start \in Expanded

\* Labels are the lengths of paths that stay within the expanded nodes.
Tight ==
  /\ distance[start] = 0
  /\ \A v \in Node : /\ neighbor[v] \in Expanded
                     /\ distance[v] = distance[neighbor[v]] + graph[neighbor[v]][v]
                     /\ neighbor[v] = v => v = start

\* Every road from an expanded node has been tried.
Relaxed == \A u \in Expanded, v \in Node : distance[v] <= distance[u] + graph[u][v]

\* Nodes are taken by increasing distance, the pending one included.
Ordered ==
  /\ \A u \in Expanded, v \in Node \ Expanded : distance[u] <= distance[v]
  /\ Pending => \A v \in Node \ shortest : distance[New_reg] <= distance[v]

\* No taken node is farther than one short road per round.
Bounded ==
  \A u \in shortest :
    distance[u] <= (IF state = upd_dist THEN counter + 1 ELSE counter) * MaxHop

\* Node number k of lane q.
NodeOf(q, k) == q * Quarter + k

\* A lane holds the least distance of the candidates it has seen.
LanesScanned ==
  state \in {min_cost, upd_minc} =>
    \A q \in Lane :
      /\ min_distance[q] <= INF
      /\ min_distance[q] # INF =>
           /\ NodeOf(q, new_index[q]) \notin shortest
           /\ distance[NodeOf(q, new_index[q])] = min_distance[q]
      /\ \A k \in 0 .. Quarter - 1 :
           (state = upd_minc \/ k < sub_counter) /\ NodeOf(q, k) \notin shortest
             => min_distance[q] <= distance[NodeOf(q, k)]

SearchInv ==
  Loaded => Counted /\ Tight /\ Relaxed /\ Ordered /\ Bounded /\ LanesScanned

IInv == PipelineInv /\ SearchInv

----------------------------------------------------------------------------
(* How long a search takes.  Nothing the circuit decides depends on the    *)
(* map, so the edges it still needs follow from the controller's state.    *)

\* The clocks of a round: two to fetch the distances, one for each node of a
\* lane, two to take the nearest node.
RoundClocks == Quarter + 4

\* The clocks of the rounds that are left when the counter is c.
RoundsFrom(c) == (LastNode - c) * RoundClocks

\* From the first row of the map to state 7.
Latency == NODE_CNT + 2 + RoundsFrom(0)

\* The edges out of reset that the circuit still needs to reach state 7.
Remaining ==
  CASE state = map_init  -> Latency - counter
    [] state = dsn_init  -> 2 + RoundsFrom(0)
    [] state = min_cost2 -> 1 + RoundsFrom(counter)
    [] state = min_cost1 -> RoundsFrom(counter)
    [] state = min_cost  -> RoundsFrom(counter) - 1 - sub_counter
    [] state = upd_minc  -> RoundsFrom(counter) - 1 - Quarter
    [] state = upd_dist  -> RoundsFrom(counter) - 2 - Quarter
    [] state = done      -> 0

\* The countdown ends with the search, and not before it.
CountdownEnds ==
  Remaining \in 0 .. Latency /\ (Remaining = 0 <=> state = done)

\* Every edge out of reset brings the end one edge nearer, an edge in reset
\* starts over, and no write of the host changes anything.
CountsDown ==
  Remaining' = IF ~Posedge THEN Remaining
               ELSE IF reset = 0 THEN Latency
               ELSE IF state = done THEN 0
               ELSE Remaining - 1
=============================================================================
