------------------------------ MODULE RoadMap ------------------------------
(***************************************************************************)
(* The data the shortest-path core works on: node indices, 14-bit words,   *)
(* and the weight matrices it may be synthesised with.                     *)
(***************************************************************************)
EXTENDS Integers

CONSTANTS
  NODE_CNT,  \* the generic of Dijkstra_vhdl: number of nodes of the graph
  Maps,      \* the road maps under consideration (the source ships one)
  MaxHop     \* a weight below which the roads of every map connect it

INF     == 10000            \* map_initialization_vhdl's "no road"
WordMod == 16384            \* 2^14: std_logic_vector(13 downto 0)
Word    == 0 .. WordMod - 1

Node    == 0 .. NODE_CNT - 1
Quarter == NODE_CNT \div 4  \* NODE_CNT*1/4: the nodes one comparator scans
Lane    == 0 .. 3           \* the four comparators

\* distance(New_reg) + r_data(i) on 14-bit vectors: the carry is dropped.
Add14(a, b) == (a + b) % WordMod

Row     == [Node -> Word]
Weights == [Node -> [Node -> 0 .. INF]]

(***************************************************************************)
(* What every map the core is built with satisfies: a zero diagonal, other *)
(* entries positive, and every proper set of nodes left by a road of at    *)
(* most MaxHop (so the map is connected).                                  *)
(***************************************************************************)
ZeroDiagonal(g) == \A i, j \in Node : g[i][j] = 0 <=> i = j
Crossed(g, S)   == \E u \in S, v \in Node \ S : g[u][v] <= MaxHop
Connected(g)    == \A S \in SUBSET Node : S = {} \/ S = Node \/ Crossed(g, S)
IsRoadMap(g)    == g \in Weights /\ ZeroDiagonal(g) /\ Connected(g)

\* Four equal comparators; node indices fit the 9-bit index vectors.
ASSUME NodeCntAssumption ==
  /\ NODE_CNT \in Nat
  /\ Quarter \in 1 .. 128
  /\ NODE_CNT = 4 * Quarter

\* The longest chain of short roads plus one "no road" entry fits in 14 bits.
ASSUME MaxHopAssumption ==
  /\ MaxHop \in Nat
  /\ (NODE_CNT - 1) * MaxHop + INF < WordMod

ASSUME MapsAssumption == \A g \in Maps : IsRoadMap(g)

----------------------------------------------------------------------------
(***************************************************************************)
(* What "shortest" means, twice: as a certificate that needs no path, and  *)
(* as the Bellman-Ford recurrence.                                         *)
(***************************************************************************)

\* No road shortens d, and d is 0 at s.
Feasible(g, s, d) ==
  /\ d[s] = 0
  /\ \A u, v \in Node : d[v] <= d[u] + g[u][v]

\* Each node's distance is reached over a road from the neighbour it names.
TightTree(g, s, d, nbr) ==
  \A v \in Node : d[v] = d[nbr[v]] + g[nbr[v]][v] /\ (nbr[v] = v => v = s)

Certificate(g, s, d, nbr) == Feasible(g, s, d) /\ TightTree(g, s, d, nbr)

\* Bellman-Ford: each node v with its least distance from s over at most
\* NODE_CNT - 1 roads, as a set of pairs <<v, distance>>.
Labels(g, s) ==
  LET Least(S) == CHOOSE x \in S : \A y \in S : x <= y
      within[k \in 0 .. NODE_CNT - 1] ==
        IF k = 0
        THEN {<<v, IF v = s THEN 0 ELSE INF>> : v \in Node}
        ELSE LET shorter == within[k - 1]
             IN  {<<v, Least({l[2] + g[l[1]][v] : l \in shorter})>> : v \in Node}
  IN  within[NODE_CNT - 1]
=============================================================================
