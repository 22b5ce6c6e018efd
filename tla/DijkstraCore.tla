---------------------------- MODULE DijkstraCore ----------------------------
(***************************************************************************)
(* Dijkstra_vhdl.vhd with its RAMs, comparators and map: the synchronous   *)
(* circuit that finds shortest paths.  One Posedge step is one rising edge *)
(* of clk: every clocked process reads the old values of all registers.    *)
(* The host (VGA_NIOS_CTRL and the program behind it) writes the reset and *)
(* start inputs between edges, whenever it likes.                          *)
(*                                                                         *)
(* The RAM blocks of all columns share their addresses, so the NODE_CNT    *)
(* one-word memories are one memory of rows.  An address the source drives *)
(* with 'X' is Unknown; what a read of it yields is chosen where it is     *)
(* used, among the rows of the memory.                                     *)
(***************************************************************************)
EXTENDS RoadMap

CONSTANTS
  Unknown,   \* an 'X' on the read address, or the word read with it
  Starts     \* the start nodes the host may write

ASSUME UnknownAssumption == Unknown \notin Node /\ Unknown \notin Row
ASSUME StartsAssumption  == Starts \subseteq Node /\ Starts # {}

VARIABLES
  graph,             \* map_init_value, as synthesised; never changes
  reset, start,      \* the input ports (reset is active low)
  state, counter, sub_counter,                   \* Controller
  state_reg, state_reg_reg,                      \* state, 1 and 2 clocks late
  mem, read_address_reg, r_data,                 \* RAM_vhdl, all columns
  distance, neighbor, shortest,                  \* shortest: the nodes at '1'
  min_distance, new_index,                       \* comparator_vhdl, 4 lanes
  New_reg,
  startHeld  \* history: start has not changed since the last reset edge

control == <<state, counter, sub_counter, state_reg, state_reg_reg>>
ram     == <<mem, read_address_reg, r_data>>
arrays  == <<distance, neighbor, shortest>>
search  == <<min_distance, new_index, New_reg>>
vars    == <<graph, reset, start, control, ram, arrays, search, startHeld>>

map_init  == 0
dsn_init  == 1
min_cost2 == 2
min_cost1 == 3
min_cost  == 4
upd_minc  == 5
upd_dist  == 6
done      == 7
State     == 0 .. 7

LastNode == NODE_CNT - 1

----------------------------------------------------------------------------
\* The FPGA powers its registers and memories up to 0; reset is asserted.
Init ==
  /\ graph \in Maps
  /\ reset = 0 /\ start = 0 /\ startHeld = FALSE
  /\ state = map_init /\ counter = 0 /\ sub_counter = 0
  /\ state_reg = map_init /\ state_reg_reg = map_init
  /\ mem = [a \in Node |-> [i \in Node |-> 0]]
  /\ read_address_reg = 0 /\ r_data = [i \in Node |-> 0]
  /\ distance = [i \in Node |-> 0] /\ neighbor = [i \in Node |-> 0]
  /\ shortest = {}
  /\ min_distance = [q \in Lane |-> 0] /\ new_index = [q \in Lane |-> 0]
  /\ New_reg = 0

----------------------------------------------------------------------------
(* The Controller process: one action per branch of its elsif chain.       *)

ResetController ==
  /\ reset = 0
  /\ state' = map_init /\ counter' = 0 /\ sub_counter' = 0

LoadRow ==
  /\ reset = 1 /\ state = map_init /\ counter # LastNode
  /\ counter' = counter + 1
  /\ UNCHANGED <<state, sub_counter>>

LoadLastRow ==
  /\ reset = 1 /\ state = map_init /\ counter = LastNode
  /\ state' = dsn_init /\ counter' = start
  /\ UNCHANGED sub_counter

InitDistances ==
  /\ reset = 1 /\ state = dsn_init
  /\ state' = min_cost2 /\ counter' = 0
  /\ UNCHANGED sub_counter

BeginRound ==
  /\ reset = 1 /\ state = min_cost2 /\ counter # LastNode
  /\ state' = min_cost1
  /\ UNCHANGED <<counter, sub_counter>>

BeginScan ==
  /\ reset = 1 /\ state = min_cost1
  /\ state' = min_cost
  /\ UNCHANGED <<counter, sub_counter>>

Scan ==
  /\ reset = 1 /\ state = min_cost /\ counter # LastNode
  /\ sub_counter # Quarter - 1
  /\ sub_counter' = sub_counter + 1
  /\ UNCHANGED <<state, counter>>

EndScan ==
  /\ reset = 1 /\ state = min_cost /\ counter # LastNode
  /\ sub_counter = Quarter - 1
  /\ state' = upd_minc /\ sub_counter' = 0
  /\ UNCHANGED counter

TakeMinimum ==
  /\ reset = 1 /\ state = upd_minc /\ counter # LastNode
  /\ state' = upd_dist
  /\ UNCHANGED <<counter, sub_counter>>

\* Mutant: no wait for the RAM before the next scan.
EndRound_NoWait ==
  /\ reset = 1 /\ state = upd_dist /\ counter # LastNode
  /\ state' = min_cost1 /\ counter' = counter + 1
  /\ UNCHANGED sub_counter

\* Mutant: the round is not counted.
EndRound_Uncounted ==
  /\ reset = 1 /\ state = upd_dist /\ counter # LastNode
  /\ state' = min_cost2
  /\ UNCHANGED <<counter, sub_counter>>

EndRound ==
  /\ reset = 1 /\ state = upd_dist /\ counter # LastNode
  /\ state' = min_cost2 /\ counter' = counter + 1
  /\ UNCHANGED sub_counter

\* Mutant: the search may stop as soon as the last round has begun.
Finish_Early ==
  /\ reset = 1
  /\ state = done \/ (state \in {min_cost2, min_cost} /\ counter >= LastNode - 1)
  /\ state' = done
  /\ UNCHANGED <<counter, sub_counter>>

\* The final else.
Finish ==
  /\ reset = 1
  /\ \/ state = done
     \/ state \in {min_cost2, min_cost, upd_minc, upd_dist} /\ counter = LastNode
  /\ state' = done
  /\ UNCHANGED <<counter, sub_counter>>

Controller ==
  \/ ResetController \/ LoadRow \/ LoadLastRow \/ InitDistances
  \/ BeginRound \/ BeginScan \/ Scan \/ EndScan \/ TakeMinimum \/ EndRound
  \/ Finish

Delay ==
  IF reset = 0
  THEN state_reg' = map_init /\ state_reg_reg' = map_init
  ELSE state_reg' = state    /\ state_reg_reg' = state_reg

----------------------------------------------------------------------------
(* The RAM blocks and the prefetch process that drives their ports.        *)

read_address ==
  CASE state = dsn_init -> counter
    [] state = upd_dist -> New_reg
    [] OTHER            -> Unknown

\* Mutant: a RAM without the address register.
Ram_OneClock ==
  /\ mem' = IF state = map_init THEN [mem EXCEPT ![counter] = graph[counter]]
                                ELSE mem
  /\ read_address_reg' = read_address
  /\ r_data' = IF read_address = Unknown THEN Unknown ELSE mem[read_address]

\* Two clocks from read_address to r_data; a write lands after the read.
Ram ==
  /\ mem' = IF state = map_init THEN [mem EXCEPT ![counter] = graph[counter]]
                                ELSE mem
  /\ read_address_reg' = read_address
  /\ r_data' = IF read_address_reg = Unknown THEN Unknown
                                             ELSE mem[read_address_reg]

\* What the words on r_data may be.
Readout == IF r_data = Unknown THEN {mem[a] : a \in Node} ELSE {r_data}

----------------------------------------------------------------------------
(* distance, neighbor and shortest, all columns of the generate loop.      *)

Through(row, i) == Add14(distance[New_reg], row[i])

Improves(row, i) == i \notin shortest /\ Through(row, i) < distance[i]

LoadDistances ==
  /\ state_reg_reg = dsn_init
  /\ distance' \in Readout
  /\ neighbor' = [i \in Node |-> start]

\* Mutant: the neighbour is taken from the comparators, reset by then.
Relax_LateNode ==
  /\ state_reg_reg = upd_dist
  /\ \E row \in Readout :
       distance' = [i \in Node |-> IF Improves(row, i) THEN Through(row, i)
                                                       ELSE distance[i]]
  /\ neighbor' = [i \in Node |-> IF distance'[i] # distance[i]
                                  THEN new_index[0] ELSE neighbor[i]]

Relax ==
  /\ state_reg_reg = upd_dist
  /\ \E row \in Readout :
       /\ distance' = [i \in Node |-> IF Improves(row, i) THEN Through(row, i)
                                                          ELSE distance[i]]
       /\ neighbor' = [i \in Node |-> IF Improves(row, i) THEN New_reg
                                                          ELSE neighbor[i]]

HoldDistances ==
  /\ state_reg_reg \notin {dsn_init, upd_dist}
  /\ UNCHANGED <<distance, neighbor>>

----------------------------------------------------------------------------
(* The four comparators, the 4-to-1 comparator and the node it selects.    *)

Scanned(q) == q * Quarter + sub_counter

Closer(q) == Scanned(q) \notin shortest /\ min_distance[q] > distance[Scanned(q)]

Comparators ==
  IF reset = 0 \/ state # min_cost
  THEN /\ min_distance' = [q \in Lane |-> INF]
       /\ new_index' = [q \in Lane |-> 0]
  ELSE /\ min_distance' = [q \in Lane |-> IF Closer(q) THEN distance[Scanned(q)]
                                                       ELSE min_distance[q]]
       /\ new_index' = [q \in Lane |-> IF Closer(q) THEN sub_counter
                                                    ELSE new_index[q]]

\* Mutant: the lane that holds the maximum.
Winner_Farthest == CHOOSE q \in Lane :
                     \A r \in Lane : min_distance[q] >= min_distance[r]

\* The first lane, in the order of the elsif chain, that holds the minimum.
Winner == CHOOSE q \in Lane :
            /\ \A r \in Lane : min_distance[q] <= min_distance[r]
            /\ \A r \in Lane : r < q => min_distance[q] < min_distance[r]

new_node == new_index[Winner] + Winner * Quarter

\* Mutant: New_reg is loaded one state late.
KeepMinimum_Late == New_reg' = IF state = upd_dist THEN new_node ELSE New_reg

KeepMinimum == New_reg' = IF state = upd_minc THEN new_node ELSE New_reg

MarkShortest ==
  shortest' = IF state_reg_reg = dsn_init THEN {start}
              ELSE IF state = upd_minc THEN shortest \cup {new_node}
              ELSE shortest

----------------------------------------------------------------------------
Posedge ==
  /\ Controller /\ Delay /\ Ram
  /\ LoadDistances \/ Relax \/ HoldDistances
  /\ Comparators /\ KeepMinimum /\ MarkShortest
  /\ startHeld' = (startHeld \/ reset = 0)
  /\ UNCHANGED <<graph, reset, start>>

WriteReset(b) ==
  /\ reset' = b
  /\ UNCHANGED <<graph, start, control, ram, arrays, search, startHeld>>

WriteStart(s) ==
  /\ start' = s
  /\ startHeld' = (startHeld /\ s = start)
  /\ UNCHANGED <<graph, reset, control, ram, arrays, search>>

Next ==
  \/ Posedge
  \/ \E b \in {0, 1} : WriteReset(b)
  \/ \E s \in Starts : WriteStart(s)

\* The clock never stops; the host need not do anything.
Spec == Init /\ [][Next]_vars /\ WF_vars(Posedge)

----------------------------------------------------------------------------
(* Properties *)

\* Every register holds a value of its width; addresses stay in the arrays.
TypeOK ==
  /\ graph \in Weights
  /\ reset \in {0, 1} /\ start \in Node /\ startHeld \in BOOLEAN
  /\ state \in State /\ counter \in Node /\ sub_counter \in 0 .. Quarter - 1
  /\ state_reg \in State /\ state_reg_reg \in State
  /\ mem \in [Node -> Row]
  /\ read_address_reg \in Node \cup {Unknown} /\ r_data \in Row \cup {Unknown}
  /\ distance \in Row /\ neighbor \in [Node -> Node] /\ shortest \subseteq Node
  /\ min_distance \in [Lane -> Word]
  /\ new_index \in [Lane -> 0 .. Quarter - 1] /\ New_reg \in Node

\* A search of the present start is under way (or over): its distances have
\* been loaded and start has been the same since before they were.
Loaded ==
  /\ startHeld
  /\ state \in {min_cost1, min_cost, upd_minc, upd_dist, min_cost2, done}
  /\ dsn_init \notin {state, state_reg, state_reg_reg}

\* The newest member of shortest, while its roads are still to be tried.
Pending == upd_dist \in {state, state_reg, state_reg_reg}

\* The nodes whose distance is final and whose roads have been tried.
Expanded == IF Pending THEN shortest \ {New_reg} ELSE shortest

(* The latency of the RAMs matches that of state_reg_reg: when distances   *)
(* are loaded the words on r_data are the roads of start, and when they    *)
(* are relaxed the roads of the node just taken, whenever the search was   *)
(* reset and restarted.                                                    *)
PipelineAligned ==
  startHeld =>
    /\ state_reg_reg = dsn_init => r_data = graph[start]
    /\ state_reg_reg = upd_dist => r_data = graph[New_reg]

(* No 14-bit addition that can set a distance ever drops a carry.          *)
NoCarryLost ==
  Loaded /\ state_reg_reg = upd_dist =>
    \A i \in Node \ shortest : distance[New_reg] + graph[New_reg][i] < WordMod

(* The parallel scan is right: the node taken is not in shortest yet and   *)
(* no other such node is nearer to start.                                  *)
TakesNearest ==
  Loaded /\ state = upd_minc =>
    /\ new_node \notin shortest
    /\ \A i \in Node \ shortest : distance[new_node] <= distance[i]

(* When the host can see state 7, distance is feasible and every neighbour *)
(* is the last hop of a shortest path from start, although the last        *)
(* relaxation has yet to reach the registers.                              *)
DoneCertified ==
  Loaded /\ state = done => Certificate(graph, start, distance, neighbor)

(* A label never changes once its node's roads have been tried; what it is *)
(* derived from is final, too.                                             *)
FinalLabels ==
  [][Loaded /\ Loaded' =>
       \A i \in Expanded : /\ i \in Expanded'
                           /\ distance'[i] = distance[i]
                           /\ neighbor'[i] = neighbor[i]
                           /\ neighbor[i] \in Expanded]_vars

(* What the host reads after it has seen state 7 does not move, although   *)
(* the pipeline still runs for two clocks.                                 *)
ResultsHold ==
  [][Loaded /\ Loaded' /\ state = done => UNCHANGED arrays]_vars

(* A search that is not reset reaches state 7, however often start is      *)
(* written meanwhile.                                                      *)
Terminates == (reset = 1) ~> (state = done \/ reset = 0)

=============================================================================
