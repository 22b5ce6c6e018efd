--------------------- MODULE ShortestPathSystem_proofs ---------------------
(***************************************************************************)
(* Proofs about the core and about the system built of it.  First the core *)
(* DijkstraCore, for every NODE_CNT, set of maps, set of start nodes and   *)
(* host behaviour that the named assumptions admit: its lemmas, its types, *)
(* the inductive invariant of DijkstraInvariant, the properties that       *)
(* follow from it, and the refinement of the greedy search.  Then the      *)
(* composed system: how the program, through registers without a           *)
(* handshake, gets the answer of its own search and all of it, for every   *)
(* map, every typed input and any number of processor resets.              *)
(***************************************************************************)
EXTENDS ShortestPathSystem, DijkstraInvariant, GreedyRefinement, FiniteSetTheorems,
        WellFoundedInduction, TLAPS

----------------------------------------------------------------------------
(* Indices *)

\* The indices the circuit computes address a node: the first and the last
\* one, and every one a comparator scans.
LEMMA Indices ==
  /\ Quarter \in Nat /\ Quarter >= 1 /\ NODE_CNT \in Nat
  /\ 0 \in Node /\ LastNode \in Node
  /\ \A q \in Lane, k \in 0 .. Quarter - 1 : q * Quarter + k \in Node
<1>1. Quarter \in Nat /\ Quarter >= 1 /\ NODE_CNT \in Nat /\ NODE_CNT = 4 * Quarter
  BY NodeCntAssumption
<1>2. 0 \in Node /\ LastNode \in Node
  BY <1>1 DEF Node, LastNode
<1>3. ASSUME NEW q \in Lane, NEW k \in 0 .. Quarter - 1
      PROVE  q * Quarter + k \in Node
  <2>1. q = 0 \/ q = 1 \/ q = 2 \/ q = 3
    BY DEF Lane
  <2>. QED
    BY <1>1, <2>1 DEF Node
<1>. QED
  BY <1>1, <1>2, <1>3

\* Words are the naturals below 2^14, and so are 14-bit sums.
LEMMA Words ==
  /\ \A n \in Int : n \in Word <=> 0 <= n /\ n <= 16383
  /\ \A w \in Word : w \in Int /\ 0 <= w /\ w <= 16383
  /\ \A a, b \in Word : Add14(a, b) \in Word
  /\ \A a, b \in Word : a + b <= 16383 => Add14(a, b) = a + b
  /\ 0 \in Word /\ INF \in Word
<1>1. \A n \in Int : n \in Word <=> 0 <= n /\ n <= 16383
  BY DEF Word, WordMod
<1>2. \A w \in Word : w \in Int /\ 0 <= w /\ w <= 16383
  BY DEF Word, WordMod
<1>3. ASSUME NEW a \in Word, NEW b \in Word
      PROVE  Add14(a, b) \in Word
  BY <1>1, <1>2 DEF Add14, WordMod
<1>4. ASSUME NEW a \in Word, NEW b \in Word, a + b <= 16383
      PROVE  Add14(a, b) = a + b
  BY <1>2, <1>4 DEF Add14, WordMod
<1>5. 0 \in Word /\ INF \in Word
  BY <1>1 DEF INF
<1>. QED
  BY <1>1, <1>2, <1>3, <1>4, <1>5

\* The 4-to-1 comparator always selects a lane: the first of those that hold
\* the least of the four minima.
LEMMA WinnerIsLeast ==
  ASSUME min_distance \in [Lane -> Word]
  PROVE  /\ Winner \in Lane
         /\ \A r \in Lane : min_distance[Winner] <= min_distance[r]
<1>1. \A q \in Lane : min_distance[q] \in Int
  BY Words
<1>2. Lane = {0, 1, 2, 3}
  BY DEF Lane
<1>. DEFINE P(q) == /\ \A r \in Lane : min_distance[q] <= min_distance[r]
                    /\ \A r \in Lane : r < q => min_distance[q] < min_distance[r]
<1>3. \E q \in Lane : P(q)
  <2>1. CASE /\ min_distance[0] <= min_distance[1] /\ min_distance[0] <= min_distance[2]
             /\ min_distance[0] <= min_distance[3]
    <3>1. P(0)
      BY <1>1, <1>2, <2>1
    <3>. QED
      BY <1>2, <3>1
  <2>2. CASE /\ min_distance[1] < min_distance[0] /\ min_distance[1] <= min_distance[2]
             /\ min_distance[1] <= min_distance[3]
    <3>1. P(1)
      BY <1>1, <1>2, <2>2
    <3>. QED
      BY <1>2, <3>1
  <2>3. CASE /\ min_distance[2] < min_distance[0] /\ min_distance[2] < min_distance[1]
             /\ min_distance[2] <= min_distance[3]
    <3>1. P(2)
      BY <1>1, <1>2, <2>3
    <3>. QED
      BY <1>2, <3>1
  <2>4. CASE /\ min_distance[3] < min_distance[0] /\ min_distance[3] < min_distance[1]
             /\ min_distance[3] < min_distance[2]
    <3>1. P(3)
      BY <1>1, <1>2, <2>4
    <3>. QED
      BY <1>2, <3>1
  <2>. QED
    BY <1>1, <1>2, <2>1, <2>2, <2>3, <2>4
<1>4. Winner = CHOOSE q \in Lane : P(q)
  BY DEF Winner
<1>. QED
  BY <1>3, <1>4

----------------------------------------------------------------------------
(* Types *)

\* The node the comparators select is a node.
LEMMA NewNodeIsNode ==
  ASSUME TypeOK
  PROVE  new_node \in Node
<1>1. min_distance \in [Lane -> Word] /\ new_index \in [Lane -> 0 .. Quarter - 1]
  BY DEF TypeOK
<1>2. Winner \in Lane
  BY <1>1, WinnerIsLeast
<1>3. new_index[Winner] \in 0 .. Quarter - 1
  BY <1>1, <1>2
<1>4. Winner * Quarter + new_index[Winner] \in Node
  BY <1>2, <1>3, Indices
<1>5. Winner \in Int /\ new_index[Winner] \in Int /\ Quarter \in Int
  BY <1>2, <1>3, Indices DEF Lane
<1>6. Winner * Quarter + new_index[Winner] = new_index[Winner] + Winner * Quarter
  BY <1>5
<1>. QED
  BY <1>4, <1>6 DEF new_node

\* Maps consist of rows of words.
LEMMA MapRows ==
  ASSUME NEW g \in Weights
  PROVE  g \in [Node -> Row]
<1>1. \A n \in 0 .. INF : n \in Int /\ 0 <= n /\ n <= 10000 /\ n \in Word
  BY Words DEF INF
<1>2. ASSUME NEW u \in Node
      PROVE  g[u] \in Row
  BY <1>1 DEF Weights, Row
<1>. QED
  BY <1>2 DEF Weights

LEMMA TypeInit == Init => TypeOK
<1>. SUFFICES ASSUME Init
              PROVE  TypeOK
  OBVIOUS
<1>1. graph \in Weights
  BY MapsAssumption DEF Init, IsRoadMap
<1>2. [i \in Node |-> 0] \in Row /\ [i \in Node |-> 0] \in [Node -> Node]
  BY Words, Indices DEF Row
<1>3. mem \in [Node -> Row] /\ r_data \in Row /\ distance \in Row
      /\ neighbor \in [Node -> Node]
  BY <1>2 DEF Init
<1>4. 0 \in 0 .. Quarter - 1
  BY Indices
<1>5. min_distance \in [Lane -> Word] /\ new_index \in [Lane -> 0 .. Quarter - 1]
  BY <1>4, Words DEF Init
<1>6. /\ reset \in {0, 1} /\ start \in Node /\ startHeld \in BOOLEAN
      /\ counter \in Node /\ sub_counter \in 0 .. Quarter - 1
      /\ read_address_reg \in Node \cup {Unknown} /\ shortest \subseteq Node
      /\ New_reg \in Node
  BY <1>4, Indices DEF Init
<1>7. state \in State /\ state_reg \in State /\ state_reg_reg \in State
  BY DEF Init, State, map_init
<1>. QED
  BY <1>1, <1>3, <1>5, <1>6, <1>7 DEF TypeOK

\* The controller stays among its states and its counters in their ranges.
LEMMA TypeController ==
  ASSUME TypeOK, Controller
  PROVE  state' \in State /\ counter' \in Node /\ sub_counter' \in 0 .. Quarter - 1
<1>1. /\ state \in State /\ counter \in Node /\ sub_counter \in 0 .. Quarter - 1
      /\ start \in Node
  BY DEF TypeOK
<1>2. \A k \in Node : k # LastNode => k + 1 \in Node
  BY Indices DEF Node, LastNode
<1>3. \A k \in 0 .. Quarter - 1 : k # Quarter - 1 => k + 1 \in 0 .. Quarter - 1
  BY Indices
<1>4. /\ map_init \in State /\ dsn_init \in State /\ min_cost2 \in State
      /\ min_cost1 \in State /\ min_cost \in State /\ upd_minc \in State
      /\ upd_dist \in State /\ done \in State
  BY DEF State, map_init, dsn_init, min_cost2, min_cost1, min_cost, upd_minc,
         upd_dist, done
<1>5. 0 \in Node /\ 0 \in 0 .. Quarter - 1
  BY Indices
<1>6. CASE ResetController
  BY <1>4, <1>5, <1>6 DEF ResetController
<1>7. CASE LoadRow
  BY <1>1, <1>2, <1>7 DEF LoadRow
<1>8. CASE LoadLastRow
  BY <1>1, <1>4, <1>8 DEF LoadLastRow
<1>9. CASE InitDistances
  BY <1>1, <1>4, <1>5, <1>9 DEF InitDistances
<1>10. CASE BeginRound
  BY <1>1, <1>4, <1>10 DEF BeginRound
<1>11. CASE BeginScan
  BY <1>1, <1>4, <1>11 DEF BeginScan
<1>12. CASE Scan
  BY <1>1, <1>3, <1>12 DEF Scan
<1>13. CASE EndScan
  BY <1>1, <1>4, <1>5, <1>13 DEF EndScan
<1>14. CASE TakeMinimum
  BY <1>1, <1>4, <1>14 DEF TakeMinimum
<1>15. CASE EndRound
  BY <1>1, <1>2, <1>4, <1>15 DEF EndRound
<1>16. CASE Finish
  BY <1>1, <1>4, <1>16 DEF Finish
<1>. QED
  BY <1>6, <1>7, <1>8, <1>9, <1>10, <1>11, <1>12, <1>13, <1>14, <1>15, <1>16
     DEF Controller

\* The memories hold words and are addressed with nodes.
LEMMA TypeRam ==
  ASSUME TypeOK, Ram
  PROVE  /\ mem' \in [Node -> Row]
         /\ read_address_reg' \in Node \cup {Unknown}
         /\ r_data' \in Row \cup {Unknown}
<1>1. /\ graph \in [Node -> Row] /\ mem \in [Node -> Row] /\ counter \in Node
      /\ New_reg \in Node /\ read_address_reg \in Node \cup {Unknown}
  BY MapRows DEF TypeOK
<1>2. mem' \in [Node -> Row]
  <2>1. [mem EXCEPT ![counter] = graph[counter]] \in [Node -> Row]
    BY <1>1
  <2>. QED
    BY <1>1, <2>1 DEF Ram
<1>3. read_address_reg' \in Node \cup {Unknown}
  BY <1>1 DEF Ram, read_address
<1>4. r_data' \in Row \cup {Unknown}
  BY <1>1 DEF Ram
<1>. QED
  BY <1>2, <1>3, <1>4

\* Whatever is read, it is a row.
LEMMA ReadoutRows ==
  ASSUME TypeOK
  PROVE  Readout \subseteq Row
<1>1. mem \in [Node -> Row] /\ r_data \in Row \cup {Unknown}
  BY DEF TypeOK
<1>. QED
  BY <1>1 DEF Readout

\* Distances stay words and neighbours nodes.
LEMMA TypeArrays ==
  ASSUME TypeOK, LoadDistances \/ Relax \/ HoldDistances
  PROVE  distance' \in Row /\ neighbor' \in [Node -> Node]
<1>1. /\ start \in Node /\ New_reg \in Node
      /\ distance \in Row /\ neighbor \in [Node -> Node]
  BY DEF TypeOK
<1>2. CASE LoadDistances
  BY <1>1, <1>2, ReadoutRows DEF LoadDistances
<1>3. CASE Relax
  <2>1. PICK row \in Readout :
          /\ distance' = [i \in Node |-> IF Improves(row, i) THEN Through(row, i)
                                                             ELSE distance[i]]
          /\ neighbor' = [i \in Node |-> IF Improves(row, i) THEN New_reg
                                                             ELSE neighbor[i]]
    BY <1>3 DEF Relax
  <2>2. row \in Row
    BY ReadoutRows
  <2>3. \A i \in Node : Through(row, i) \in Word
    BY <1>1, <2>2, Words DEF Through, Row
  <2>. QED
    BY <1>1, <2>1, <2>3 DEF Row
<1>4. CASE HoldDistances
  BY <1>1, <1>4 DEF HoldDistances
<1>. QED
  BY <1>2, <1>3, <1>4

\* The comparators hold words and offsets within their quarter.
LEMMA TypeSearch ==
  ASSUME TypeOK, Comparators, KeepMinimum, MarkShortest
  PROVE  /\ min_distance' \in [Lane -> Word]
         /\ new_index' \in [Lane -> 0 .. Quarter - 1]
         /\ New_reg' \in Node /\ shortest' \subseteq Node
<1>1. /\ min_distance \in [Lane -> Word] /\ new_index \in [Lane -> 0 .. Quarter - 1]
      /\ sub_counter \in 0 .. Quarter - 1 /\ distance \in [Node -> Word]
      /\ New_reg \in Node /\ start \in Node /\ shortest \subseteq Node
  BY DEF TypeOK, Row
<1>2. 0 \in 0 .. Quarter - 1 /\ INF \in Word
  BY Indices, Words
<1>3. \A q \in Lane : Scanned(q) \in Node
  BY <1>1, Indices DEF Scanned
<1>4. min_distance' \in [Lane -> Word]
  BY <1>1, <1>2, <1>3 DEF Comparators
<1>5. new_index' \in [Lane -> 0 .. Quarter - 1]
  BY <1>1, <1>2 DEF Comparators
<1>6. New_reg' \in Node /\ shortest' \subseteq Node
  BY <1>1, NewNodeIsNode DEF KeepMinimum, MarkShortest
<1>. QED
  BY <1>4, <1>5, <1>6

LEMMA TypeNext == TypeOK /\ [Next]_vars => TypeOK'
<1>. SUFFICES ASSUME TypeOK, [Next]_vars
              PROVE  TypeOK'
  OBVIOUS
<1>1. CASE Posedge
  <2>1. state' \in State /\ counter' \in Node /\ sub_counter' \in 0 .. Quarter - 1
    BY <1>1, TypeController DEF Posedge
  <2>2. state_reg' \in State /\ state_reg_reg' \in State
    BY <1>1 DEF Posedge, Delay, TypeOK, State, map_init
  <2>3. /\ mem' \in [Node -> Row]
        /\ read_address_reg' \in Node \cup {Unknown}
        /\ r_data' \in Row \cup {Unknown}
    BY <1>1, TypeRam DEF Posedge
  <2>4. distance' \in Row /\ neighbor' \in [Node -> Node]
    BY <1>1, TypeArrays DEF Posedge
  <2>5. /\ min_distance' \in [Lane -> Word]
        /\ new_index' \in [Lane -> 0 .. Quarter - 1]
        /\ New_reg' \in Node /\ shortest' \subseteq Node
    BY <1>1, TypeSearch DEF Posedge
  <2>6. graph' \in Weights /\ reset' \in {0, 1} /\ start' \in Node
    BY <1>1 DEF Posedge, TypeOK
  <2>7. startHeld' \in BOOLEAN
    BY <1>1, Zenon DEF Posedge, TypeOK
  <2>. QED
    BY <2>1, <2>2, <2>3, <2>4, <2>5, <2>6, <2>7 DEF TypeOK
<1>2. ASSUME NEW b \in {0, 1}, WriteReset(b)
      PROVE  TypeOK'
  BY <1>2 DEF WriteReset, TypeOK, control, ram, arrays, search
<1>3. ASSUME NEW s \in Starts, WriteStart(s)
      PROVE  TypeOK'
  <2>1. start' \in Node
    BY <1>3, StartsAssumption DEF WriteStart
  <2>2. startHeld' \in BOOLEAN
    BY <1>3, Zenon DEF WriteStart
  <2>. QED
    BY <1>3, <2>1, <2>2 DEF WriteStart, TypeOK, control, ram, arrays, search
<1>4. CASE UNCHANGED vars
  BY <1>4 DEF TypeOK, vars, control, ram, arrays, search
<1>. QED
  BY <1>1, <1>2, <1>3, <1>4 DEF Next

(* Every register keeps to its width and every address to its array, for   *)
(* every number of nodes: no counter, comparator index or selected node    *)
(* ever leaves 0 .. NODE_CNT - 1.                                          *)
THEOREM TypeCorrect == Spec => []TypeOK
<1>. QED
  BY TypeInit, TypeNext, PTL DEF Spec

USE DEF map_init, dsn_init, min_cost2, min_cost1, min_cost, upd_minc, upd_dist, done

----------------------------------------------------------------------------
(* The pipeline *)

\* An edge in reset empties the pipeline.
LEMMA ResetEdge ==
  ASSUME Posedge, reset = 0
  PROVE  state' = map_init /\ counter' = 0 /\ sub_counter' = 0
         /\ state_reg' = map_init /\ state_reg_reg' = map_init
BY DEF Posedge, Controller, Delay, ResetController, LoadRow, LoadLastRow,
       InitDistances, BeginRound, BeginScan, Scan, EndScan, TakeMinimum, EndRound,
       Finish

LEMMA PipelineInit == Init => PipelineInv
<1>. SUFFICES ASSUME Init
              PROVE  PipelineInv
  OBVIOUS
<1>1. TypeOK
  BY TypeInit
<1>2. graph \in Maps /\ Windows /\ Rounds
  BY DEF Init, Windows, Window, Rounds
<1>3. RowsLoaded
  BY DEF Init, RowsLoaded, Node
<1>4. AddressesFollow /\ PipelineAligned
  BY DEF Init, AddressesFollow, PipelineAligned
<1>. QED
  BY <1>1, <1>2, <1>3, <1>4 DEF PipelineInv

\* The windows are closed under a clock edge.
LEMMA WindowsStep ==
  ASSUME PipelineInv, Posedge
  PROVE  Windows' /\ Rounds'
<1>1. Windows /\ Rounds /\ Controller /\ Delay
  BY DEF PipelineInv, Posedge
<1>2. Quarter \in Nat /\ Quarter >= 1 /\ LastNode >= 3 /\ LastNode \in Int
  BY NodeCntAssumption DEF LastNode
<1>3. sub_counter \in Int /\ counter \in Int /\ reset \in {0, 1}
  BY DEF PipelineInv, TypeOK, Node
<1>4. CASE reset = 0
  BY <1>4, ResetEdge DEF Windows, Window, Rounds
<1>5. CASE reset = 1
  <2>. DEFINE Shift == state_reg' = state /\ state_reg_reg' = state_reg
  <2>1. Shift
    BY <1>1, <1>5 DEF Delay
  <2>2. CASE LoadRow
    BY <1>1, <1>2, <2>1, <2>2 DEF LoadRow, Windows, Window, Rounds
  <2>3. CASE LoadLastRow
    BY <1>1, <1>2, <2>1, <2>3 DEF LoadLastRow, Windows, Window, Rounds
  <2>4. CASE InitDistances
    BY <1>1, <1>2, <2>1, <2>4 DEF InitDistances, Windows, Window, Rounds
  <2>5. CASE BeginRound
    BY <1>1, <1>2, <2>1, <2>5 DEF BeginRound, Windows, Window, Rounds
  <2>6. CASE BeginScan
    BY <1>1, <1>2, <2>1, <2>6 DEF BeginScan, Windows, Window, Rounds
  <2>7. CASE Scan
    BY <1>1, <1>2, <2>1, <2>7 DEF Scan, Windows, Window, Rounds
  <2>8. CASE EndScan
    BY <1>1, <1>2, <2>1, <2>8 DEF EndScan, Windows, Window, Rounds
  <2>9. CASE TakeMinimum
    BY <1>1, <1>2, <2>1, <2>9 DEF TakeMinimum, Windows, Window, Rounds
  <2>10. CASE EndRound
    BY <1>1, <1>2, <2>1, <2>10 DEF EndRound, Windows, Window, Rounds
  <2>11. CASE Finish
    BY <1>1, <1>2, <2>1, <2>11 DEF Finish, Windows, Window, Rounds
  <2>. QED
    BY <1>1, <1>5, <2>2, <2>3, <2>4, <2>5, <2>6, <2>7, <2>8, <2>9, <2>10, <2>11
       DEF Controller, ResetController
<1>. QED
  BY <1>3, <1>4, <1>5

\* Rows are written one after another, and never with anything else.
LEMMA RowsStep ==
  ASSUME PipelineInv, Posedge
  PROVE  RowsLoaded'
<1>1. /\ mem \in [Node -> Row] /\ counter \in Node /\ RowsLoaded /\ graph' = graph
      /\ reset \in {0, 1} /\ Ram /\ Windows
  BY DEF PipelineInv, TypeOK, Posedge
<1>2. \A a \in Node : a \in Int /\ 0 <= a /\ a <= LastNode
  BY Indices DEF Node, LastNode
<1>3. /\ state = map_init => mem' = [mem EXCEPT ![counter] = graph[counter]]
      /\ state # map_init => mem' = mem
  BY <1>1 DEF Ram
<1>4. \A a \in Node : (mem[a] = graph[a] \/ (state = map_init /\ a = counter))
                        => mem'[a] = graph'[a]
  BY <1>1, <1>3
<1>5. CASE reset = 0
  BY <1>2, <1>5, ResetEdge DEF RowsLoaded
<1>6. CASE reset = 1 /\ state = map_init
  <2>1. \/ state' = map_init /\ counter' = counter + 1
        \/ counter = LastNode
    BY <1>6 DEF Posedge, Controller, ResetController, LoadRow, LoadLastRow,
       InitDistances, BeginRound, BeginScan, Scan, EndScan, TakeMinimum, EndRound,
       Finish
  <2>2. ASSUME NEW a \in Node, state' # map_init \/ a < counter'
        PROVE  a < counter \/ a = counter
    BY <1>1, <1>2, <2>1, <2>2
  <2>3. \A a \in Node : a < counter => mem[a] = graph[a]
    BY <1>1, <1>6 DEF RowsLoaded
  <2>. QED
    BY <1>4, <1>6, <2>2, <2>3 DEF RowsLoaded
<1>7. CASE state # map_init
  BY <1>1, <1>4, <1>7 DEF RowsLoaded
<1>. QED
  BY <1>1, <1>5, <1>6, <1>7

\* Addresses and data keep pace with the states.
LEMMA PortsStep ==
  ASSUME PipelineInv, Posedge
  PROVE  AddressesFollow' /\ PipelineAligned'
<1>1. /\ Windows /\ AddressesFollow /\ RowsLoaded /\ Ram /\ Delay /\ KeepMinimum
      /\ graph' = graph /\ start' = start /\ reset \in {0, 1}
  BY DEF PipelineInv, TypeOK, Posedge
<1>2. /\ New_reg \in Node /\ start \in Node /\ Unknown \notin Node
  BY UnknownAssumption DEF PipelineInv, TypeOK
<1>3. CASE reset = 0
  BY <1>3, ResetEdge DEF AddressesFollow, PipelineAligned
<1>4. CASE reset = 1 /\ ~startHeld'
  BY <1>4 DEF AddressesFollow, PipelineAligned
<1>5. CASE reset = 1 /\ startHeld
  <2>1. state_reg' = state /\ state_reg_reg' = state_reg
    BY <1>1, <1>5 DEF Delay
  <2>2. state' = dsn_init => counter' = start
    BY <1>5 DEF Posedge, Controller, ResetController, LoadRow, LoadLastRow,
       InitDistances, BeginRound, BeginScan, Scan, EndScan, TakeMinimum, EndRound,
       Finish
  <2>3. state = dsn_init => read_address_reg' = start
    BY <1>1, <1>5 DEF Ram, read_address, AddressesFollow
  <2>4. state = upd_dist => read_address_reg' = New_reg /\ New_reg' = New_reg
    BY <1>1 DEF Ram, read_address, KeepMinimum
  <2>5. state_reg = dsn_init => r_data' = graph[start]
    BY <1>1, <1>2, <1>5 DEF Ram, AddressesFollow, RowsLoaded, Windows, Window
  <2>6. state_reg = upd_dist => r_data' = graph[New_reg] /\ New_reg' = New_reg
    BY <1>1, <1>2, <1>5 DEF Ram, AddressesFollow, RowsLoaded, Windows, Window,
       KeepMinimum
  <2>. QED
    BY <1>1, <2>1, <2>2, <2>3, <2>4, <2>5, <2>6 DEF AddressesFollow, PipelineAligned
<1>. QED
  BY <1>1, <1>3, <1>4, <1>5 DEF Posedge

LEMMA PipelineStep == PipelineInv /\ [Next]_vars => PipelineInv'
<1>. SUFFICES ASSUME PipelineInv, [Next]_vars
              PROVE  PipelineInv'
  OBVIOUS
<1>1. TypeOK'
  BY TypeNext DEF PipelineInv
<1>2. CASE Posedge
  <2>1. graph' \in Maps
    BY <1>2 DEF Posedge, PipelineInv
  <2>. QED
    BY <1>1, <1>2, <2>1, WindowsStep, RowsStep, PortsStep DEF PipelineInv
<1>3. ASSUME NEW b \in {0, 1}, WriteReset(b)
      PROVE  PipelineInv'
  BY <1>1, <1>3 DEF WriteReset, PipelineInv, control, ram, arrays, search, Windows,
     Window, Rounds, RowsLoaded, AddressesFollow, PipelineAligned
<1>4. ASSUME NEW s \in Starts, WriteStart(s)
      PROVE  PipelineInv'
  <2>1. UNCHANGED <<graph, reset, control, ram, arrays, search>>
        /\ (startHeld' => startHeld) /\ (startHeld' => start' = start)
    BY <1>4 DEF WriteStart
  <2>2. Windows' /\ Rounds'
    BY <2>1 DEF PipelineInv, control, ram, arrays, search, Windows, Window, Rounds
  <2>3. RowsLoaded' /\ AddressesFollow' /\ PipelineAligned'
    BY <2>1 DEF PipelineInv, control, ram, arrays, search, RowsLoaded, AddressesFollow,
       PipelineAligned
  <2>. QED
    BY <1>1, <2>1, <2>2, <2>3 DEF PipelineInv
<1>5. CASE UNCHANGED vars
  BY <1>1, <1>5 DEF vars, PipelineInv, control, ram, arrays, search, Windows,
     Window, Rounds, RowsLoaded, AddressesFollow, PipelineAligned
<1>. QED
  BY <1>2, <1>3, <1>4, <1>5 DEF Next

(* However resets and restarts fall, the words on the RAM ports are the    *)
(* roads of start when distances are loaded and those of the node just     *)
(* taken when they are relaxed.                                            *)
THEOREM PipelineCorrect == Spec => []PipelineAligned
<1>1. PipelineInv => PipelineAligned
  BY DEF PipelineInv
<1>. QED
  BY <1>1, PipelineInit, PipelineStep, PTL DEF Spec

----------------------------------------------------------------------------
(* Arithmetic and counting *)

\* Roads are at most INF long and only those from a node to itself are empty.
LEMMA Roads ==
  ASSUME PipelineInv
  PROVE  /\ \A u, v \in Node : /\ graph[u][v] \in Int
                               /\ 0 <= graph[u][v] /\ graph[u][v] <= 10000
                               /\ graph[u][v] \in Word
                               /\ graph[u][v] = 0 <=> u = v
         /\ \A S \in SUBSET Node : S = {} \/ S = Node \/ Crossed(graph, S)
<1>1. graph \in Weights /\ ZeroDiagonal(graph) /\ Connected(graph)
  BY MapsAssumption DEF PipelineInv, IsRoadMap
<1>2. ASSUME NEW u \in Node, NEW v \in Node
      PROVE  graph[u][v] \in 0 .. INF
  BY <1>1 DEF Weights
<1>3. \A n \in 0 .. INF : n \in Int /\ 0 <= n /\ n <= 10000 /\ n \in Word
  BY Words DEF INF
<1>. QED
  BY <1>1, <1>2, <1>3 DEF ZeroDiagonal, Connected

\* Distances are integers that fit a word.
LEMMA Lengths ==
  ASSUME TypeOK
  PROVE  \A v \in Node : distance[v] \in Word /\ distance[v] \in Int
                         /\ 0 <= distance[v] /\ distance[v] <= 16383
BY Words DEF TypeOK, Row

\* A chain of short roads and one more entry of the map fit a word.
LEMMA Hops ==
  /\ MaxHop \in Nat
  /\ \A c \in Nat : /\ c * MaxHop \in Nat
                    /\ (c + 1) * MaxHop = c * MaxHop + MaxHop
                    /\ (c + 2) * MaxHop = (c + 1) * MaxHop + MaxHop
                    /\ c <= LastNode => c * MaxHop + 10000 <= 16383
<1>1. MaxHop \in Nat /\ LastNode \in Nat /\ LastNode * MaxHop + 10000 < 16384
  BY MaxHopAssumption, Indices DEF LastNode, Node, INF, WordMod
<1>2. ASSUME NEW c \in Nat
      PROVE  /\ c * MaxHop \in Nat
             /\ (c + 1) * MaxHop = c * MaxHop + MaxHop
             /\ (c + 2) * MaxHop = (c + 1) * MaxHop + MaxHop
  BY <1>1
<1>3. ASSUME NEW c \in Nat, c <= LastNode
      PROVE  c * MaxHop <= LastNode * MaxHop
  <2>1. LastNode - c \in Nat
    BY <1>1, <1>3
  <2>2. (LastNode - c) * MaxHop \in Nat
    BY <1>1, <2>1
  <2>3. LastNode * MaxHop = c * MaxHop + (LastNode - c) * MaxHop
    BY <1>1
  <2>. QED
    BY <1>1, <1>2, <2>2, <2>3
<1>. QED
  BY <1>1, <1>2, <1>3

\* Only the set of all nodes has NODE_CNT members.
LEMMA Counting ==
  ASSUME NEW S \in SUBSET Node
  PROVE  /\ IsFiniteSet(S) /\ Cardinality(S) \in Nat
         /\ Cardinality(S) = NODE_CNT <=> S = Node
         /\ Cardinality(S) <= NODE_CNT
         /\ \A x \in Node \ S : Cardinality(S \cup {x}) = Cardinality(S) + 1
<1>1. IsFiniteSet(Node) /\ Cardinality(Node) = NODE_CNT
  BY Indices, FS_Interval DEF Node
<1>2. IsFiniteSet(S) /\ Cardinality(S) <= Cardinality(Node)
      /\ (Cardinality(Node) = Cardinality(S) => Node = S)
  BY <1>1, FS_Subset
<1>. QED
  BY <1>1, <1>2, FS_CardinalityType, FS_AddElement

\* Every node is the k-th node of some lane.
LEMMA Lanes ==
  /\ \A q \in Lane, k \in 0 .. Quarter - 1 : NodeOf(q, k) \in Node
  /\ \A i \in Node : \E q \in Lane, k \in 0 .. Quarter - 1 : i = NodeOf(q, k)
<1>1. \A q \in Lane, k \in 0 .. Quarter - 1 : NodeOf(q, k) \in Node
  BY Indices DEF NodeOf
<1>2. ASSUME NEW i \in Node
      PROVE  \E q \in Lane, k \in 0 .. Quarter - 1 : i = NodeOf(q, k)
  <2>1. Quarter \in Nat /\ i \in Int /\ 0 <= i /\ i < 4 * Quarter
    BY NodeCntAssumption DEF Node
  <2>2. CASE i < Quarter
    <3>1. i = NodeOf(0, i) /\ i \in 0 .. Quarter - 1
      BY <2>1, <2>2 DEF NodeOf
    <3>. QED
      BY <3>1 DEF Lane
  <2>3. CASE Quarter <= i /\ i < 2 * Quarter
    <3>1. i = NodeOf(1, i - Quarter) /\ i - Quarter \in 0 .. Quarter - 1
      BY <2>1, <2>3 DEF NodeOf
    <3>. QED
      BY <3>1 DEF Lane
  <2>4. CASE 2 * Quarter <= i /\ i < 3 * Quarter
    <3>1. i = NodeOf(2, i - 2 * Quarter) /\ i - 2 * Quarter \in 0 .. Quarter - 1
      BY <2>1, <2>4 DEF NodeOf
    <3>. QED
      BY <3>1 DEF Lane
  <2>5. CASE 3 * Quarter <= i
    <3>1. i = NodeOf(3, i - 3 * Quarter) /\ i - 3 * Quarter \in 0 .. Quarter - 1
      BY <2>1, <2>5 DEF NodeOf
    <3>. QED
      BY <3>1 DEF Lane
  <2>. QED
    BY <2>1, <2>2, <2>3, <2>4, <2>5
<1>. QED
  BY <1>1, <1>2

----------------------------------------------------------------------------
(* The parallel scan *)

\* Until the last round is over there is a node left, one short road away.
LEMMA NodeLeft ==
  ASSUME PipelineInv, SearchInv, Loaded, state = upd_minc
  PROVE  \E v \in Node \ shortest : distance[v] <= (counter + 1) * MaxHop
<1>1. shortest \in SUBSET Node /\ counter \in Node
  BY DEF PipelineInv, TypeOK
<1>2. counter # LastNode /\ counter \in Nat /\ counter < LastNode
  BY <1>1, Indices DEF PipelineInv, Rounds, Node, LastNode
<1>3. ~Pending
  BY DEF PipelineInv, Windows, Window, Pending
<1>4. Cardinality(shortest) = counter + 1 /\ start \in shortest
  BY <1>3 DEF SearchInv, Counted, Expanded
<1>5. shortest # Node /\ shortest # {}
  BY <1>1, <1>2, <1>4, Indices, Counting DEF LastNode
<1>6. PICK u \in shortest, v \in Node \ shortest : graph[u][v] <= MaxHop
  BY <1>1, <1>5, Roads DEF Crossed
<1>7. distance[u] <= counter * MaxHop
  BY DEF SearchInv, Bounded
<1>8. distance[v] <= distance[u] + graph[u][v]
  BY <1>1, <1>3, <1>6 DEF SearchInv, Relaxed, Expanded
<1>9. distance[u] \in Int /\ distance[v] \in Int /\ graph[u][v] \in Int
  BY <1>1, Lengths, Roads DEF PipelineInv
<1>. QED
  BY <1>2, <1>6, <1>7, <1>8, <1>9, Hops

\* The winner of the four lanes is a nearest node that is not taken yet.
LEMMA NearestTaken ==
  ASSUME PipelineInv, SearchInv, Loaded, state = upd_minc
  PROVE  /\ new_node \in Node \ shortest
         /\ \A i \in Node \ shortest : distance[new_node] <= distance[i]
         /\ distance[new_node] <= (counter + 1) * MaxHop
<1>1. TypeOK /\ min_distance \in [Lane -> Word]
      /\ new_index \in [Lane -> 0 .. Quarter - 1] /\ counter \in Node
  BY DEF PipelineInv, TypeOK
<1>2. Winner \in Lane /\ \A r \in Lane : min_distance[Winner] <= min_distance[r]
  BY <1>1, WinnerIsLeast
<1>3. new_node \in Node /\ new_node = NodeOf(Winner, new_index[Winner])
  <2>1. Winner \in Int /\ new_index[Winner] \in Int /\ Quarter \in Int
    BY <1>1, <1>2, Indices DEF Lane
  <2>. QED
    BY <1>1, <2>1, NewNodeIsNode DEF new_node, NodeOf
<1>4. \A q \in Lane : min_distance[q] \in Int
  BY <1>1, Words
<1>5. LanesScanned
  BY DEF SearchInv
<1>6. ASSUME NEW i \in Node \ shortest
      PROVE  min_distance[Winner] <= distance[i]
  <2>1. PICK q \in Lane, k \in 0 .. Quarter - 1 : i = NodeOf(q, k)
    BY Lanes
  <2>2. min_distance[q] <= distance[i]
    BY <1>5, <2>1 DEF LanesScanned
  <2>. QED
    BY <1>1, <1>2, <1>4, <2>2, Lengths
<1>7. PICK v \in Node \ shortest : distance[v] <= (counter + 1) * MaxHop
  BY NodeLeft
<1>8. min_distance[Winner] <= (counter + 1) * MaxHop /\ min_distance[Winner] # INF
  <2>1. counter \in Nat /\ counter + 1 <= LastNode
    BY <1>1, Indices DEF PipelineInv, Rounds, Node, LastNode
  <2>2. (counter + 1) * MaxHop \in Int /\ (counter + 1) * MaxHop <= 6383
    BY <2>1, Hops
  <2>. QED
    BY <1>1, <1>2, <1>4, <1>6, <1>7, <2>2, Lengths DEF INF
<1>9. new_node \notin shortest /\ distance[new_node] = min_distance[Winner]
  BY <1>2, <1>3, <1>5, <1>8 DEF LanesScanned
<1>. QED
  BY <1>3, <1>6, <1>8, <1>9

----------------------------------------------------------------------------
(* The steps of a search *)

\* The clock edges that matter to a search under way, by what they change.
Quiet == state_reg_reg \notin {dsn_init, upd_dist} /\ state # upd_minc

\* What loading the distances does: the row on r_data is that of start.
LEMMA Loading ==
  ASSUME PipelineInv, Posedge, reset = 1, startHeld, state_reg_reg = dsn_init
  PROVE  /\ start \in Node /\ graph' = graph /\ start' = start
         /\ state' = min_cost /\ counter = 0 /\ counter' = 0
         /\ distance' = graph[start] /\ neighbor' = [i \in Node |-> start]
         /\ shortest' = {start} /\ ~Pending' /\ Expanded' = {start}
<1>1. state = min_cost1 /\ state_reg = min_cost2 /\ counter = 0
  BY DEF PipelineInv, Windows, Window
<1>2. state' = min_cost /\ counter' = counter
  BY <1>1 DEF Posedge, Controller, ResetController, LoadRow, LoadLastRow,
     InitDistances, BeginRound, BeginScan, Scan, EndScan, TakeMinimum, EndRound, Finish
<1>3. state_reg' = min_cost1 /\ state_reg_reg' = min_cost2
  BY <1>1 DEF Posedge, Delay
<1>4. graph' = graph /\ start' = start /\ start \in Node /\ shortest' = {start}
  BY DEF Posedge, MarkShortest, PipelineInv, TypeOK
<1>5. ~Pending' /\ Expanded' = {start}
  BY <1>2, <1>3, <1>4 DEF Pending, Expanded
<1>6. r_data = graph[start] /\ graph[start] \in Row /\ Unknown \notin Row
  BY <1>4, MapRows, UnknownAssumption DEF PipelineInv, TypeOK, PipelineAligned
<1>7. distance' = graph[start] /\ neighbor' = [i \in Node |-> start]
  BY <1>6 DEF Posedge, LoadDistances, Relax, HoldDistances, Readout
<1>. QED
  BY <1>1, <1>2, <1>4, <1>5, <1>7

\* Loading the distances begins the search with start expanded.
LEMMA LoadStep ==
  ASSUME PipelineInv, Posedge, reset = 1, startHeld, state_reg_reg = dsn_init
  PROVE  Counted' /\ Tight' /\ Relaxed' /\ Ordered' /\ Bounded'
<1>1. /\ start \in Node /\ graph' = graph /\ start' = start
      /\ state' = min_cost /\ counter = 0 /\ counter' = 0
      /\ distance' = graph[start] /\ neighbor' = [i \in Node |-> start]
      /\ shortest' = {start} /\ ~Pending' /\ Expanded' = {start}
  BY Loading
<1>2. graph[start][start] = 0 /\ \A v \in Node : 0 <= graph[start][v]
                                               /\ graph[start][v] \in Int
  BY <1>1, Roads
<1>3. Counted'
  <2>1. Cardinality({start}) = 1
    BY FS_Singleton
  <2>2. Cardinality(shortest') = 1 /\ start' \in Expanded'
    BY <1>1, <2>1
  <2>. QED
    BY <1>1, <2>2 DEF Counted
<1>4. Tight' /\ Relaxed' /\ Ordered'
  BY <1>1, <1>2 DEF Tight, Relaxed, Ordered
<1>5. Bounded'
  BY <1>1, <1>2, Hops DEF Bounded
<1>. QED
  BY <1>3, <1>4, <1>5

\* The pending node is near enough to add any entry of the map.
LEMMA PendingBound ==
  ASSUME PipelineInv, SearchInv, Loaded, state_reg_reg = upd_dist
  PROVE  New_reg \in shortest /\ distance[New_reg] + 10000 <= 16383
<1>1. New_reg \in Node /\ counter \in Node
  BY DEF PipelineInv, TypeOK
<1>2. state # upd_dist
  BY DEF PipelineInv, Windows, Window
<1>3. New_reg \in shortest
  BY DEF SearchInv, Counted, Pending
<1>4. distance[New_reg] <= counter * MaxHop
  BY <1>2, <1>3 DEF SearchInv, Bounded
<1>5. counter \in Nat /\ counter <= LastNode
  BY <1>1, Indices DEF Node, LastNode
<1>. QED
  BY <1>1, <1>3, <1>4, <1>5, Hops, Lengths DEF PipelineInv

\* What a relaxation does to the arrays: the node it relaxes is the pending
\* one, the row is its roads, and no carry is lost.
LEMMA Relaxation ==
  ASSUME PipelineInv, SearchInv, Posedge, Loaded, state_reg_reg = upd_dist
  PROVE  /\ New_reg \in shortest /\ New_reg \in Node
         /\ distance[New_reg] + 10000 <= 16383
         /\ \A i \in Node :
              LET through == distance[New_reg] + graph[New_reg][i]
                  better  == i \notin shortest /\ through < distance[i]
              IN  /\ distance'[i] = IF better THEN through ELSE distance[i]
                  /\ neighbor'[i] = IF better THEN New_reg ELSE neighbor[i]
<1>1. /\ New_reg \in Node /\ counter \in Node /\ distance \in Row
      /\ neighbor \in [Node -> Node] /\ shortest \subseteq Node
  BY DEF PipelineInv, TypeOK
<1>2. state # upd_dist /\ startHeld
  BY DEF PipelineInv, Windows, Window, Loaded
<1>3. New_reg \in shortest
  BY PendingBound
<1>4. distance[New_reg] + 10000 <= 16383
  BY PendingBound
<1>5. Readout = {graph[New_reg]}
  BY <1>1, <1>2, MapRows, UnknownAssumption
     DEF Readout, PipelineInv, TypeOK, PipelineAligned
<1>6. \A i \in Node : Through(graph[New_reg], i)
                        = distance[New_reg] + graph[New_reg][i]
  BY <1>1, <1>4, Roads, Lengths, Words DEF Through, PipelineInv
<1>7. Relax
  BY DEF Posedge, LoadDistances, HoldDistances
<1>8. /\ distance' = [i \in Node |-> IF Improves(graph[New_reg], i)
                                     THEN Through(graph[New_reg], i) ELSE distance[i]]
      /\ neighbor' = [i \in Node |-> IF Improves(graph[New_reg], i) THEN New_reg
                                                                  ELSE neighbor[i]]
  BY <1>5, <1>7 DEF Relax
<1>. QED
  BY <1>1, <1>3, <1>4, <1>6, <1>8 DEF Improves

\* The relaxation of the pending node makes it an expanded one.
LEMMA RelaxStep ==
  ASSUME PipelineInv, SearchInv, Posedge, reset = 1, Loaded, state_reg_reg = upd_dist
  PROVE  Counted' /\ Tight' /\ Relaxed' /\ Ordered' /\ Bounded'
<1>1. /\ Counted /\ Tight /\ Relaxed /\ Ordered /\ Bounded
      /\ New_reg \in Node /\ shortest \subseteq Node /\ start \in Node
      /\ neighbor \in [Node -> Node]
  BY DEF SearchInv, PipelineInv, TypeOK
<1>2. state \in {min_cost1, done} /\ state_reg = min_cost2
  BY DEF PipelineInv, Windows, Window
<1>3. state' \in {min_cost, done} /\ counter' = counter
  BY <1>2 DEF Posedge, Controller, ResetController, LoadRow, LoadLastRow,
     InitDistances, BeginRound, BeginScan, Scan, EndScan, TakeMinimum, EndRound, Finish
<1>4. state_reg' = state /\ state_reg_reg' = min_cost2
  BY <1>2 DEF Posedge, Delay
<1>5. graph' = graph /\ start' = start /\ shortest' = shortest
  BY <1>2 DEF Posedge, MarkShortest
<1>6. Pending /\ Expanded = shortest \ {New_reg} /\ ~Pending' /\ Expanded' = shortest
  BY <1>2, <1>3, <1>4, <1>5 DEF Pending, Expanded
<1>7. /\ New_reg \in shortest
      /\ \A i \in Node :
           LET through == distance[New_reg] + graph[New_reg][i]
               better  == i \notin shortest /\ through < distance[i]
           IN  /\ distance'[i] = IF better THEN through ELSE distance[i]
               /\ neighbor'[i] = IF better THEN New_reg ELSE neighbor[i]
  BY Relaxation
<1>8. /\ \A v \in Node : distance[v] \in Int
      /\ \A u, v \in Node : graph[u][v] \in Int /\ 0 <= graph[u][v]
  BY Lengths, Roads DEF PipelineInv
<1>9. \A i \in Node : i \in shortest => distance'[i] = distance[i]
                                     /\ neighbor'[i] = neighbor[i]
  BY <1>7
<1>10. Counted'
  BY <1>1, <1>2, <1>3, <1>5, <1>6 DEF Counted
<1>11. Tight'
  <2>1. distance'[start] = 0
    BY <1>1, <1>6, <1>9 DEF Tight, Counted
  <2>2. ASSUME NEW v \in Node
        PROVE  /\ neighbor'[v] \in shortest
               /\ distance'[v] = distance'[neighbor'[v]] + graph[neighbor'[v]][v]
               /\ neighbor'[v] = v => v = start
    <3>1. /\ neighbor[v] \in shortest
          /\ distance[v] = distance[neighbor[v]] + graph[neighbor[v]][v]
          /\ neighbor[v] = v => v = start
      BY <1>1, <1>6 DEF Tight
    <3>2. distance'[neighbor[v]] = distance[neighbor[v]]
          /\ distance'[New_reg] = distance[New_reg]
      BY <1>1, <1>7, <1>9, <3>1
    <3>. QED
      BY <1>1, <1>7, <3>1, <3>2
  <2>. QED
    BY <1>5, <1>6, <2>1, <2>2 DEF Tight
<1>12. Relaxed'
  <2>1. ASSUME NEW u \in shortest, NEW v \in Node
        PROVE  distance'[v] <= distance'[u] + graph[u][v]
    <3>1. distance'[v] <= distance[v] /\ distance'[u] = distance[u]
          /\ distance'[v] \in Int
      BY <1>1, <1>7, <1>8, <1>9
    <3>2. CASE u # New_reg
      BY <1>1, <1>6, <1>8, <3>1, <3>2 DEF Relaxed
    <3>3. CASE u = New_reg /\ v \notin shortest
      BY <1>1, <1>7, <1>8, <3>1, <3>3
    <3>4. CASE u = New_reg /\ v \in shortest
      <4>1. v = New_reg \/ distance[v] <= distance[New_reg]
        BY <1>1, <1>6, <1>7, <3>4 DEF Ordered
      <4>. QED
        BY <1>1, <1>8, <3>1, <3>4, <4>1
    <3>. QED
      BY <3>2, <3>3, <3>4
  <2>. QED
    BY <1>5, <1>6, <2>1 DEF Relaxed
<1>13. Ordered'
  <2>1. ASSUME NEW u \in shortest, NEW v \in Node \ shortest
        PROVE  distance'[u] <= distance'[v]
    <3>1. distance[u] <= distance[New_reg] /\ distance[New_reg] <= distance[v]
      BY <1>1, <1>6, <1>7, <1>8 DEF Ordered
    <3>. QED
      BY <1>1, <1>7, <1>8, <1>9, <3>1
  <2>. QED
    BY <1>5, <1>6, <2>1 DEF Ordered
<1>14. Bounded'
  BY <1>1, <1>2, <1>3, <1>5, <1>9 DEF Bounded
<1>. QED
  BY <1>10, <1>11, <1>12, <1>13, <1>14

\* Taking the nearest node leaves the expanded ones as they are.
LEMMA TakeStep ==
  ASSUME PipelineInv, SearchInv, Posedge, reset = 1, Loaded, state = upd_minc
  PROVE  Counted' /\ Tight' /\ Relaxed' /\ Ordered' /\ Bounded'
<1>1. /\ Counted /\ Tight /\ Relaxed /\ Ordered /\ Bounded
      /\ shortest \in SUBSET Node /\ start \in Node /\ counter \in Nat
  BY Indices DEF SearchInv, PipelineInv, TypeOK, Node
<1>2. state_reg = min_cost /\ state_reg_reg \in {min_cost1, min_cost}
  BY DEF PipelineInv, Windows, Window
<1>3. state' = upd_dist /\ counter' = counter
  BY DEF Posedge, Controller, ResetController, LoadRow, LoadLastRow, InitDistances,
     BeginRound, BeginScan, Scan, EndScan, TakeMinimum, EndRound, Finish, PipelineInv, Rounds
<1>4. /\ graph' = graph /\ start' = start /\ New_reg' = new_node
      /\ shortest' = shortest \cup {new_node}
      /\ distance' = distance /\ neighbor' = neighbor
  BY <1>2 DEF Posedge, MarkShortest, KeepMinimum, LoadDistances, Relax, HoldDistances
<1>5. /\ new_node \in Node \ shortest
      /\ \A i \in Node \ shortest : distance[new_node] <= distance[i]
      /\ distance[new_node] <= (counter + 1) * MaxHop
  BY NearestTaken
<1>6. ~Pending /\ Expanded = shortest /\ Pending' /\ Expanded' = shortest
  BY <1>2, <1>3, <1>4, <1>5 DEF Pending, Expanded
<1>7. \A v \in Node : distance[v] \in Int
  BY Lengths DEF PipelineInv
<1>8. Counted'
  <2>1. Cardinality(shortest) = counter + 1 /\ start \in shortest
    BY <1>1, <1>6 DEF Counted
  <2>2. Cardinality(shortest \cup {new_node}) = counter + 2
    BY <1>1, <1>5, <2>1, Counting
  <2>. QED
    BY <1>3, <1>4, <1>6, <2>1, <2>2 DEF Counted
<1>9. Tight' /\ Relaxed'
  BY <1>1, <1>4, <1>6 DEF Tight, Relaxed
<1>10. Ordered'
  BY <1>1, <1>4, <1>5, <1>6 DEF Ordered
<1>11. Bounded'
  <2>1. \A u \in shortest : distance[u] <= (counter + 1) * MaxHop
    BY <1>1, <1>7, Hops DEF Bounded
  <2>. QED
    BY <1>3, <1>4, <1>5, <2>1 DEF Bounded
<1>. QED
  BY <1>8, <1>9, <1>10, <1>11

\* Between those edges nothing the search is about changes.
LEMMA QuietStep ==
  ASSUME PipelineInv, Posedge, reset = 1, Loaded, Quiet
  PROVE  /\ distance' = distance /\ neighbor' = neighbor /\ shortest' = shortest
         /\ New_reg' = New_reg /\ (Pending' <=> Pending) /\ Expanded' = Expanded
<1>1. /\ distance' = distance /\ neighbor' = neighbor /\ shortest' = shortest
      /\ New_reg' = New_reg
  BY DEF Quiet, Posedge, LoadDistances, Relax, HoldDistances, MarkShortest, KeepMinimum
<1>2. state_reg' = state /\ state_reg_reg' = state_reg
  BY DEF Posedge, Delay
<1>3. Windows /\ Windows'
  BY WindowsStep DEF PipelineInv
<1>4. Pending' <=> Pending
  BY <1>2, <1>3 DEF Windows, Window, Pending, Quiet, Loaded
<1>. QED
  BY <1>1, <1>4 DEF Expanded

LEMMA QuietKeeps ==
  ASSUME PipelineInv, SearchInv, Posedge, reset = 1, Loaded, Quiet
  PROVE  Counted' /\ Tight' /\ Relaxed' /\ Ordered' /\ Bounded'
<1>1. Counted /\ Tight /\ Relaxed /\ Ordered /\ Bounded /\ counter \in Int
  BY DEF SearchInv, PipelineInv, TypeOK, Node
<1>2. /\ distance' = distance /\ neighbor' = neighbor /\ shortest' = shortest
      /\ New_reg' = New_reg /\ (Pending' <=> Pending) /\ Expanded' = Expanded
  BY QuietStep
<1>3. graph' = graph /\ start' = start
  BY DEF Posedge
<1>4. \/ state = upd_dist /\ state' # upd_dist /\ counter' = counter + 1
      \/ state # upd_dist /\ state' # upd_dist /\ counter' = counter
  BY DEF Quiet, Posedge, Controller, ResetController, LoadRow, LoadLastRow,
     InitDistances, BeginRound, BeginScan, Scan, EndScan, TakeMinimum, EndRound, Finish,
     Loaded, PipelineInv, Rounds
<1>5. Counted'
  <2>1. Cardinality(shortest') = IF state' = upd_dist THEN counter' + 2 ELSE counter' + 1
    BY <1>1, <1>2, <1>4 DEF Counted
  <2>2. (Pending' => New_reg' \in shortest') /\ start' \in Expanded'
    BY <1>1, <1>2, <1>3 DEF Counted
  <2>. QED
    BY <2>1, <2>2 DEF Counted
<1>6. Tight' /\ Relaxed' /\ Ordered'
  BY <1>1, <1>2, <1>3 DEF Tight, Relaxed, Ordered
<1>7. Bounded'
  BY <1>1, <1>2, <1>4 DEF Bounded
<1>. QED
  BY <1>5, <1>6, <1>7

\* The comparators scan their lanes node by node, over distances that hold
\* still.
LEMMA LanesStep ==
  ASSUME PipelineInv, Posedge, reset = 1, startHeld, Loaded => LanesScanned
  PROVE  LanesScanned'
<1>1. CASE state = min_cost1
  <2>1. sub_counter' = 0 /\ state' = min_cost
    BY <1>1 DEF Posedge, Controller, ResetController, LoadRow, LoadLastRow,
       InitDistances, BeginRound, BeginScan, Scan, EndScan, TakeMinimum, EndRound,
       Finish, PipelineInv, Rounds
  <2>2. \A q \in Lane : min_distance'[q] = INF
    BY <1>1 DEF Posedge, Comparators
  <2>. QED
    BY <2>1, <2>2 DEF LanesScanned, INF
<1>2. CASE state = min_cost
  <2>1. Loaded /\ Quiet /\ LanesScanned
    BY <1>2 DEF PipelineInv, Windows, Window, Loaded, Quiet
  <2>2. distance' = distance /\ shortest' = shortest
    BY <2>1, QuietStep
  <2>3. sub_counter \in 0 .. Quarter - 1 /\ Quarter \in Nat /\ new_index \in [Lane -> 0 .. Quarter - 1]
    BY Indices DEF PipelineInv, TypeOK
  <2>4. ASSUME NEW k \in 0 .. Quarter - 1, state' = upd_minc \/ k < sub_counter'
        PROVE  k < sub_counter \/ k = sub_counter
    BY <1>2, <2>3, <2>4 DEF Posedge, Controller, ResetController, LoadRow, LoadLastRow,
       InitDistances, BeginRound, BeginScan, Scan, EndScan, TakeMinimum, EndRound,
       Finish, PipelineInv, Rounds
  <2>5. ASSUME NEW q \in Lane
        PROVE  /\ min_distance'[q] <= INF
               /\ min_distance'[q] # INF =>
                    /\ NodeOf(q, new_index'[q]) \notin shortest
                    /\ distance[NodeOf(q, new_index'[q])] = min_distance'[q]
               /\ \A k \in 0 .. Quarter - 1 :
                    (k < sub_counter \/ k = sub_counter) /\ NodeOf(q, k) \notin shortest
                      => min_distance'[q] <= distance[NodeOf(q, k)]
    <3>1. /\ min_distance'[q] = IF Closer(q) THEN distance[Scanned(q)]
                                             ELSE min_distance[q]
          /\ new_index'[q] = IF Closer(q) THEN sub_counter ELSE new_index[q]
      BY <1>2 DEF Posedge, Comparators
    <3>2. Scanned(q) = NodeOf(q, sub_counter)
      BY DEF Scanned, NodeOf
    <3>3. /\ min_distance[q] \in Int /\ INF \in Int
          /\ \A k \in 0 .. Quarter - 1 : distance[NodeOf(q, k)] \in Int
      <4>1. TypeOK /\ min_distance \in [Lane -> Word]
        BY DEF PipelineInv, TypeOK
      <4>. QED
        BY <4>1, Words, Lengths, Lanes
    <3>4. /\ min_distance[q] <= INF
          /\ min_distance[q] # INF =>
               /\ NodeOf(q, new_index[q]) \notin shortest
               /\ distance[NodeOf(q, new_index[q])] = min_distance[q]
          /\ \A k \in 0 .. Quarter - 1 :
               k < sub_counter /\ NodeOf(q, k) \notin shortest
                 => min_distance[q] <= distance[NodeOf(q, k)]
      BY <1>2, <2>1 DEF LanesScanned
    <3>5. CASE Closer(q)
      BY <2>3, <3>1, <3>2, <3>3, <3>4, <3>5 DEF Closer
    <3>6. CASE ~Closer(q)
      BY <2>3, <3>1, <3>2, <3>3, <3>4, <3>6 DEF Closer
    <3>. QED
      BY <3>5, <3>6
  <2>. QED
    BY <2>2, <2>4, <2>5 DEF LanesScanned
<1>3. CASE state \notin {min_cost1, min_cost}
  <2>1. state' \notin {min_cost, upd_minc}
    BY <1>3 DEF Posedge, Controller, ResetController, LoadRow, LoadLastRow,
       InitDistances, BeginRound, BeginScan, Scan, EndScan, TakeMinimum, EndRound,
       Finish, PipelineInv, Rounds
  <2>. QED
    BY <2>1 DEF LanesScanned
<1>. QED
  BY <1>1, <1>2, <1>3

----------------------------------------------------------------------------
(* The inductive invariant *)

\* A search under way after an edge was so before, or has just been loaded.
LEMMA Underway ==
  ASSUME PipelineInv, Posedge, Loaded'
  PROVE  /\ reset = 1 /\ startHeld
         /\ Loaded \/ state_reg_reg = dsn_init
<1>1. reset \in {0, 1} /\ Windows
  BY DEF PipelineInv, TypeOK
<1>2. reset = 1
  BY <1>1, ResetEdge DEF Loaded
<1>3. startHeld /\ state_reg' = state /\ state_reg_reg' = state_reg
  BY <1>2 DEF Posedge, Delay, Loaded
<1>4. Windows'
  BY WindowsStep
<1>. QED
  BY <1>1, <1>2, <1>3, <1>4 DEF Loaded, Windows, Window

\* A write of start that leaves a search under way writes what was there.
LEMMA HeldWrite ==
  ASSUME TypeOK, NEW s \in Starts, WriteStart(s), Loaded'
  PROVE  start' = start /\ startHeld' = startHeld
<1>1. startHeld' = (startHeld /\ s = start) /\ start' = s
  BY DEF WriteStart
<1>2. startHeld'
  BY DEF Loaded
<1>3. startHeld /\ s = start
  BY <1>1, <1>2
<1>4. startHeld \in BOOLEAN
  BY DEF TypeOK
<1>. QED
  BY <1>1, <1>3, <1>4, Zenon

LEMMA SearchStep == IInv /\ [Next]_vars => SearchInv'
<1>. SUFFICES ASSUME IInv, [Next]_vars, Loaded'
              PROVE  (Counted /\ Tight /\ Relaxed /\ Ordered /\ Bounded /\ LanesScanned)'
  BY DEF SearchInv
<1>1. PipelineInv /\ SearchInv
  BY DEF IInv
<1>2. CASE Posedge
  <2>1. reset = 1 /\ startHeld /\ (Loaded \/ state_reg_reg = dsn_init)
    BY <1>1, <1>2, Underway
  <2>2. LanesScanned'
    BY <1>1, <1>2, <2>1, LanesStep DEF SearchInv
  <2>3. CASE state_reg_reg = dsn_init
    BY <1>1, <1>2, <2>1, <2>2, <2>3, LoadStep
  <2>4. CASE Loaded /\ state_reg_reg = upd_dist
    BY <1>1, <1>2, <2>1, <2>2, <2>4, RelaxStep
  <2>5. CASE Loaded /\ state = upd_minc
    BY <1>1, <1>2, <2>1, <2>2, <2>5, TakeStep
  <2>6. CASE Loaded /\ Quiet
    BY <1>1, <1>2, <2>1, <2>2, <2>6, QuietKeeps
  <2>. QED
    BY <2>1, <2>3, <2>4, <2>5, <2>6 DEF Quiet
<1>3. CASE UNCHANGED <<graph, start, control, arrays, search, startHeld>>
  BY <1>1, <1>3 DEF SearchInv, Loaded, Pending, Expanded, Counted, Tight, Relaxed,
     Ordered, Bounded, LanesScanned, control, arrays, search
<1>4. ASSUME NEW b \in {0, 1}, WriteReset(b)
      PROVE  UNCHANGED <<graph, start, control, arrays, search, startHeld>>
  BY <1>4 DEF WriteReset
<1>5. ASSUME NEW s \in Starts, WriteStart(s)
      PROVE  UNCHANGED <<graph, start, control, arrays, search, startHeld>>
  BY <1>1, <1>5, HeldWrite DEF WriteStart, PipelineInv
<1>6. CASE UNCHANGED vars
  BY <1>3, <1>6 DEF vars
<1>. QED
  BY <1>2, <1>3, <1>4, <1>5, <1>6 DEF Next

\* The same without the fairness of Spec, for use in a larger system.
LEMMA SafeInvariance == Init /\ [][Next]_vars => []IInv
<1>1. Init => IInv
  <2>1. Init => ~Loaded
    BY DEF Init, Loaded
  <2>. QED
    BY <2>1, PipelineInit DEF IInv, SearchInv
<1>2. IInv /\ [Next]_vars => IInv'
  BY PipelineStep, SearchStep DEF IInv
<1>. QED
  BY <1>1, <1>2, PTL

(* The inductive invariant: the pipeline is aligned, and what the circuit  *)
(* holds in the middle of a search is a partial run of Dijkstra's          *)
(* algorithm with at most one relaxation under way.                        *)
THEOREM Invariance == Spec => []IInv
<1>. QED
  BY SafeInvariance, PTL DEF Spec

----------------------------------------------------------------------------
(* The properties that follow from the invariant *)

(* No 14-bit sum that can set a distance drops a carry: the node relaxed   *)
(* is at most one short road per round away.                               *)
THEOREM NoCarryCorrect == Spec => []NoCarryLost
<1>1. ASSUME IInv, Loaded, state_reg_reg = upd_dist, NEW i \in Node \ shortest
      PROVE  distance[New_reg] + graph[New_reg][i] < WordMod
  <2>1. New_reg \in Node /\ TypeOK
    BY <1>1 DEF IInv, PipelineInv, TypeOK
  <2>2. distance[New_reg] + 10000 <= 16383
    BY <1>1, PendingBound DEF IInv
  <2>3. graph[New_reg][i] <= 10000 /\ graph[New_reg][i] \in Int /\ distance[New_reg] \in Int
    BY <1>1, <2>1, Roads, Lengths DEF IInv
  <2>. QED
    BY <2>2, <2>3 DEF WordMod
<1>2. IInv => NoCarryLost
  BY <1>1 DEF NoCarryLost
<1>. QED
  BY <1>2, Invariance, PTL

(* The node the comparators hand to the controller is new, and no other    *)
(* new node is nearer to start.                                            *)
THEOREM NearestCorrect == Spec => []TakesNearest
<1>1. IInv => TakesNearest
  BY NearestTaken DEF IInv, TakesNearest
<1>. QED
  BY <1>1, Invariance, PTL

----------------------------------------------------------------------------
\* When state 7 shows every node has been taken.
LEMMA AllTaken ==
  ASSUME IInv, Loaded, state = done
  PROVE  shortest = Node
<1>1. shortest \in SUBSET Node /\ counter = LastNode
  BY DEF IInv, PipelineInv, TypeOK, Rounds
<1>2. Cardinality(shortest) = counter + 1
  BY DEF IInv, SearchInv, Counted
<1>. QED
  BY <1>1, <1>2, Indices, Counting DEF LastNode

\* One relaxation is still in the pipeline, but the certificate is complete.
LEMMA CertifiedWhenDone ==
  ASSUME IInv, Loaded, state = done
  PROVE  Certificate(graph, start, distance, neighbor)
<1>1. PipelineInv /\ Tight /\ Relaxed /\ Ordered /\ Counted
  BY DEF IInv, SearchInv
<1>2. shortest = Node
  BY AllTaken
<1>3. /\ \A v \in Node : distance[v] \in Int
      /\ \A u, v \in Node : graph[u][v] \in Int /\ 0 <= graph[u][v]
  BY <1>1, Lengths, Roads DEF PipelineInv
<1>4. ASSUME NEW u \in Node, NEW v \in Node
      PROVE  distance[v] <= distance[u] + graph[u][v]
  <2>1. CASE u \in Expanded
    BY <1>1, <2>1 DEF Relaxed
  <2>2. CASE u \notin Expanded
    <3>1. Pending /\ u = New_reg
      BY <1>2, <2>2 DEF Expanded
    <3>2. v = u \/ v \in Expanded
      BY <1>2, <3>1 DEF Expanded
    <3>3. distance[v] <= distance[u]
      BY <1>1, <1>3, <2>2, <3>2 DEF Ordered
    <3>. QED
      BY <1>3, <3>3
  <2>. QED
    BY <2>1, <2>2
<1>. QED
  BY <1>1, <1>4 DEF Certificate, Feasible, TightTree, Tight

(* When state 7 shows, distance is feasible and the neighbours form a tree *)
(* of tight roads, although one relaxation is still in the pipeline.       *)
THEOREM DoneCorrect == Spec => []DoneCertified
<1>1. IInv => DoneCertified
  BY CertifiedWhenDone DEF DoneCertified
<1>. QED
  BY <1>1, Invariance, PTL

----------------------------------------------------------------------------
(* Labels never fall below a feasible potential.  A feasible potential is  *)
(* what bounds the length of every path from start from below, so together *)
(* with DoneCertified this makes the labels the shortest distances.        *)
NeverTooShort ==
  Loaded => \A p \in [Node -> Nat] :
              Feasible(graph, start, p) => \A v \in Node : p[v] <= distance[v]

(* At no moment of a search is a label shorter than the shortest distance, *)
(* and at state 7 no feasible potential exceeds the labels, which are      *)
(* feasible themselves.                                                    *)
THEOREM NeverTooShortCorrect == Spec => []NeverTooShort
<1>1. Init => NeverTooShort
  BY DEF Init, Loaded, NeverTooShort
<1>2. IInv /\ NeverTooShort /\ [Next]_vars => NeverTooShort'
  <2>. SUFFICES ASSUME IInv, NeverTooShort, [Next]_vars, Loaded',
                       NEW p \in [Node -> Nat], Feasible(graph', start', p),
                       NEW v \in Node
                PROVE  p[v] <= distance'[v]
    BY DEF NeverTooShort
  <2>1. PipelineInv /\ SearchInv /\ TypeOK /\ start \in Node /\ New_reg \in Node
    BY DEF IInv, PipelineInv, TypeOK
  <2>2. \A u \in Node : p[u] \in Int
    OBVIOUS
  <2>3. CASE Posedge
    <3>1. reset = 1 /\ startHeld /\ (Loaded \/ state_reg_reg = dsn_init)
      BY <2>1, <2>3, Underway
    <3>2. graph' = graph /\ start' = start
      BY <2>3 DEF Posedge
    <3>3. p[start] = 0 /\ \A u \in Node : p[v] <= p[u] + graph[u][v]
      BY <3>2 DEF Feasible
    <3>4. CASE state_reg_reg = dsn_init
      <4>1. distance'[v] = graph[start][v] /\ graph[start][v] \in Int
        BY <2>1, <2>3, <3>1, <3>4, Loading, Roads
      <4>. QED
        BY <2>1, <2>2, <3>3, <4>1
    <3>5. CASE Loaded /\ state_reg_reg # dsn_init
      <4>1. p[v] <= distance[v] /\ p[New_reg] <= distance[New_reg]
        BY <2>1, <3>2, <3>5 DEF NeverTooShort
      <4>2. \/ distance'[v] = distance[v]
            \/ distance'[v] = distance[New_reg] + graph[New_reg][v]
        <5>1. CASE state_reg_reg = upd_dist
          BY <2>1, <2>3, <3>5, <5>1, Relaxation
        <5>2. CASE state_reg_reg # upd_dist
          BY <2>3, <3>5, <5>2 DEF Posedge, LoadDistances, Relax, HoldDistances
        <5>. QED
          BY <5>1, <5>2
      <4>3. distance[New_reg] \in Int /\ graph[New_reg][v] \in Int
        BY <2>1, Lengths, Roads
      <4>. QED
        BY <2>1, <2>2, <3>3, <4>1, <4>2, <4>3
    <3>. QED
      BY <3>1, <3>4, <3>5
  <2>4. CASE UNCHANGED <<graph, start, control, distance, startHeld>>
    BY <2>4 DEF NeverTooShort, Loaded, control
  <2>5. ASSUME NEW b \in {0, 1}, WriteReset(b)
        PROVE  UNCHANGED <<graph, start, control, distance, startHeld>>
    BY <2>5 DEF WriteReset, arrays
  <2>6. ASSUME NEW s \in Starts, WriteStart(s)
        PROVE  UNCHANGED <<graph, start, control, distance, startHeld>>
    BY <2>1, <2>6, HeldWrite DEF WriteStart, arrays
  <2>7. CASE UNCHANGED vars
    BY <2>4, <2>7 DEF vars, arrays
  <2>. QED
    BY <2>3, <2>4, <2>5, <2>6, <2>7 DEF Next
<1>. QED
  BY <1>1, <1>2, Invariance, PTL DEF Spec

----------------------------------------------------------------------------
(* What a step may not do *)

\* The three kinds of edge a search under way can see.
LEMMA SearchEdges ==
  ASSUME IInv, Posedge, Loaded, Loaded'
  PROVE  /\ reset = 1 /\ PipelineInv /\ SearchInv /\ TypeOK
         /\ state_reg_reg = upd_dist \/ state = upd_minc \/ Quiet
<1>1. PipelineInv /\ SearchInv /\ TypeOK
  BY DEF IInv, PipelineInv
<1>2. reset = 1
  BY <1>1, Underway
<1>. QED
  BY <1>1, <1>2 DEF Loaded, Quiet

\* Expanded nodes, edge by edge.
LEMMA ExpandedStep ==
  ASSUME IInv, Posedge, Loaded, Loaded', NEW i \in Expanded
  PROVE  i \in Expanded' /\ distance'[i] = distance[i] /\ neighbor'[i] = neighbor[i]
<1>1. /\ reset = 1 /\ PipelineInv /\ SearchInv /\ TypeOK
      /\ state_reg_reg = upd_dist \/ state = upd_minc \/ Quiet
  BY SearchEdges
<1>2. i \in shortest /\ i \in Node
  BY <1>1 DEF Expanded, TypeOK
<1>3. Windows /\ Windows' /\ state_reg' = state /\ state_reg_reg' = state_reg
  BY <1>1, WindowsStep DEF PipelineInv, Posedge, Delay
<1>4. CASE state_reg_reg = upd_dist
  <2>1. distance'[i] = distance[i] /\ neighbor'[i] = neighbor[i]
    BY <1>1, <1>2, <1>4, Relaxation
  <2>2. shortest' = shortest /\ ~Pending'
    BY <1>3, <1>4 DEF Windows, Window, Posedge, MarkShortest, Pending
  <2>. QED
    BY <1>2, <2>1, <2>2 DEF Expanded
<1>5. CASE state = upd_minc
  <2>1. /\ distance' = distance /\ neighbor' = neighbor
        /\ shortest' = shortest \cup {new_node} /\ New_reg' = new_node
    BY <1>3, <1>5 DEF Windows, Window, Posedge, LoadDistances, Relax, HoldDistances,
       MarkShortest, KeepMinimum
  <2>2. new_node \notin shortest
    BY <1>1, <1>5, NearestTaken
  <2>. QED
    BY <1>2, <2>1, <2>2 DEF Expanded
<1>6. CASE Quiet
  BY <1>1, <1>6, QuietStep
<1>. QED
  BY <1>1, <1>4, <1>5, <1>6

(* A node's label is final as soon as its roads have been tried, and so is *)
(* the label of the node it is derived from: later rounds, overlapping in  *)
(* the pipeline, do not touch it.                                          *)
THEOREM FinalLabelsCorrect == Spec => FinalLabels
<1>1. ASSUME IInv, [Next]_vars, Loaded, Loaded', NEW i \in Expanded
      PROVE  /\ i \in Expanded' /\ distance'[i] = distance[i]
             /\ neighbor'[i] = neighbor[i] /\ neighbor[i] \in Expanded
  <2>1. neighbor[i] \in Expanded
    BY <1>1 DEF IInv, PipelineInv, TypeOK, SearchInv, Tight, Expanded
  <2>2. CASE Posedge
    BY <1>1, <2>1, <2>2, ExpandedStep
  <2>3. CASE UNCHANGED <<control, arrays, search>>
    BY <1>1, <2>1, <2>3 DEF control, arrays, search, Expanded, Pending
  <2>. QED
    BY <1>1, <2>2, <2>3 DEF Next, WriteReset, WriteStart, vars
<1>2. IInv /\ [Next]_vars =>
        [Loaded /\ Loaded' =>
           \A i \in Expanded : /\ i \in Expanded'
                               /\ distance'[i] = distance[i]
                               /\ neighbor'[i] = neighbor[i]
                               /\ neighbor[i] \in Expanded]_vars
  BY <1>1
<1>. QED
  BY <1>2, Invariance, PTL DEF Spec, FinalLabels

\* Nothing is left for the last relaxation to change.
LEMMA DoneHolds ==
  ASSUME IInv, [Next]_vars, Loaded, Loaded', state = done
  PROVE  UNCHANGED arrays
<1>1. shortest = Node /\ distance \in Row /\ neighbor \in [Node -> Node]
  BY AllTaken DEF IInv, PipelineInv, TypeOK
<1>2. CASE Posedge
  <2>1. shortest' = shortest
    BY <1>2 DEF Posedge, MarkShortest, Loaded
  <2>2. distance' = distance /\ neighbor' = neighbor
    <3>1. CASE Relax
      <4>1. PICK row \in Readout :
              /\ distance' = [i \in Node |-> IF Improves(row, i) THEN Through(row, i)
                                                                 ELSE distance[i]]
              /\ neighbor' = [i \in Node |-> IF Improves(row, i) THEN New_reg
                                                                 ELSE neighbor[i]]
        BY <3>1 DEF Relax
      <4>2. \A i \in Node : ~Improves(row, i)
        BY <1>1 DEF Improves
      <4>. QED
        BY <1>1, <4>1, <4>2 DEF Row
    <3>2. CASE HoldDistances
      BY <3>2 DEF HoldDistances
    <3>. QED
      BY <1>2, <3>1, <3>2 DEF Posedge, LoadDistances, Loaded
  <2>. QED
    BY <2>1, <2>2 DEF arrays
<1>3. CASE UNCHANGED arrays
  BY <1>3
<1>. QED
  BY <1>2, <1>3 DEF Next, WriteReset, WriteStart, vars

(* After the host has seen state 7 the result stands, although the last    *)
(* relaxation reaches the registers only then: it finds nothing to change. *)
THEOREM ResultsHoldCorrect == Spec => ResultsHold
<1>1. IInv /\ [Next]_vars =>
        [Loaded /\ Loaded' /\ state = done => UNCHANGED arrays]_vars
  BY DoneHolds
<1>. QED
  BY <1>1, Invariance, PTL DEF Spec, ResultsHold

----------------------------------------------------------------------------
(* The refinement: every step of the circuit is a step of the greedy search *)
(* or leaves it alone.                                                     *)

\* The greedy search's steps, its fairness left aside.
GreedySafety == Greedy!Init /\ [][Greedy!Next]_Greedy!vars

\* The phase of the greedy search while there is one.
Phase == IF state = done /\ ~Pending THEN "done" ELSE "search"

\* Both searches have the same nodes.
LEMMA SameNodes == Greedy!Node = Node
BY DEF Greedy!Node, Node

LEMMA RefineInit == Init => Greedy!Init
BY SameNodes DEF Init, Loaded, Greedy!Init, Greedy!Blank

\* Loading distances is Begin.
LEMMA RefineBegin ==
  ASSUME IInv, Posedge, ~Loaded, Loaded'
  PROVE  Greedy!Begin(start) /\ start \in Node
<1>1. PipelineInv
  BY DEF IInv
<1>2. reset = 1 /\ startHeld /\ state_reg_reg = dsn_init
  BY <1>1, Underway
<1>3. /\ start \in Node /\ graph' = graph /\ start' = start /\ state' = min_cost
      /\ distance' = graph[start] /\ neighbor' = [i \in Node |-> start]
      /\ Expanded' = {start}
  BY <1>1, <1>2, Loading
<1>. QED
  BY <1>3, SameNodes DEF Greedy!Begin

\* A relaxation that reaches the registers is Expand.
LEMMA RefineExpand ==
  ASSUME IInv, Posedge, Loaded, Loaded', state_reg_reg = upd_dist
  PROVE  Greedy!Expand(New_reg) /\ New_reg \in Node
<1>1. /\ reset = 1 /\ PipelineInv /\ SearchInv /\ TypeOK
  BY SearchEdges
<1>2. /\ Windows /\ Windows' /\ Rounds' /\ state_reg' = state /\ state_reg_reg' = state_reg
  BY <1>1, WindowsStep DEF PipelineInv, Posedge, Delay
<1>3. /\ New_reg \in Node /\ shortest \subseteq Node /\ New_reg \in shortest
      /\ distance \in [Node -> Word] /\ neighbor \in [Node -> Node]
      /\ distance' \in [Node -> Word] /\ neighbor' \in [Node -> Node]
  <2>1. TypeOK'
    BY <1>1, TypeNext DEF Next
  <2>. QED
    BY <1>1, <2>1, PendingBound DEF TypeOK, Row
<1>4. /\ graph' = graph /\ start' = start /\ shortest' = shortest
  BY <1>2 DEF Windows, Window, Posedge, MarkShortest
<1>5. /\ Pending /\ Expanded = shortest \ {New_reg}
      /\ ~Pending' /\ Expanded' = shortest
  BY <1>2, <1>4 DEF Windows, Window, Pending, Expanded
<1>6. Phase = "search" /\ Phase' = IF state' = done THEN "done" ELSE "search"
  BY <1>5 DEF Phase
<1>7. state' = done <=> shortest = Node
  <2>1. state' = done => state = done
    BY <1>2 DEF Windows, Window
  <2>2. CASE state = done
    <3>1. state' = done
      BY <2>2 DEF Posedge, Controller, ResetController, LoadRow, LoadLastRow,
         InitDistances, BeginRound, BeginScan, Scan, EndScan, TakeMinimum, EndRound,
         Finish, Loaded
    <3>. QED
      BY <2>2, <3>1, AllTaken
  <2>3. CASE state # done
    <3>1. state # upd_dist /\ counter # LastNode
      BY <1>1, <1>2, <2>3 DEF Windows, Window, PipelineInv, Rounds
    <3>2. Cardinality(shortest) = counter + 1 /\ counter \in Nat
      BY <1>1, <3>1 DEF SearchInv, Counted, TypeOK, Node
    <3>. QED
      BY <1>3, <2>1, <2>3, <3>1, <3>2, Counting, Indices DEF LastNode
  <2>. QED
    BY <2>2, <2>3
<1>8. Greedy!Nearest(New_reg)
  <2>1. New_reg \notin Expanded
    BY <1>5
  <2>2. ASSUME NEW i \in Node \ Expanded
        PROVE  distance[New_reg] <= distance[i]
    <3>1. i = New_reg \/ i \in Node \ shortest
      BY <1>5
    <3>. QED
      BY <1>1, <1>3, <1>5, <3>1, Lengths DEF SearchInv, Ordered
  <2>. QED
    BY <2>1, <2>2, SameNodes DEF Greedy!Nearest
<1>9. \A i \in Node : Greedy!Shortens(New_reg, i) <=>
        i \notin shortest /\ distance[New_reg] + graph[New_reg][i] < distance[i]
  BY <1>3, <1>5 DEF Greedy!Shortens
<1>10. /\ distance' = [i \in Node |-> IF Greedy!Shortens(New_reg, i)
                                      THEN distance[New_reg] + graph[New_reg][i]
                                      ELSE distance[i]]
       /\ neighbor' = [i \in Node |-> IF Greedy!Shortens(New_reg, i) THEN New_reg
                                                                   ELSE neighbor[i]]
  BY <1>1, <1>3, <1>9, Relaxation
<1>11. Expanded' = Expanded \cup {New_reg}
  BY <1>3, <1>5
<1>. QED
  BY <1>3, <1>4, <1>5, <1>6, <1>7, <1>8, <1>10, <1>11, SameNodes
     DEF Greedy!Expand, Phase

\* Every other edge of a search shows nothing.
LEMMA RefineStutter ==
  ASSUME IInv, Posedge, Loaded, Loaded', state_reg_reg # upd_dist
  PROVE  UNCHANGED Greedy!vars
<1>1. /\ reset = 1 /\ PipelineInv /\ SearchInv /\ TypeOK
      /\ state = upd_minc \/ Quiet
  BY SearchEdges
<1>2. /\ Windows /\ Windows' /\ state_reg' = state /\ state_reg_reg' = state_reg
  BY <1>1, WindowsStep DEF PipelineInv, Posedge, Delay
<1>3. graph' = graph /\ start' = start
  BY DEF Posedge
<1>4. distance' = distance /\ neighbor' = neighbor
  BY DEF Posedge, LoadDistances, Relax, HoldDistances, Loaded
<1>5. Expanded' = Expanded /\ (state = done /\ ~Pending <=> state' = done /\ ~Pending')
  <2>1. CASE state = upd_minc
    <3>1. shortest' = shortest \cup {new_node} /\ New_reg' = new_node
      BY <1>2, <2>1 DEF Windows, Window, Posedge, MarkShortest, KeepMinimum
    <3>2. new_node \notin shortest
      BY <1>1, <2>1, NearestTaken
    <3>3. ~Pending /\ Pending'
      BY <1>2, <2>1 DEF Windows, Window, Pending
    <3>. QED
      BY <2>1, <3>1, <3>2, <3>3 DEF Expanded
  <2>2. CASE Quiet
    <3>1. (Pending' <=> Pending) /\ Expanded' = Expanded
      BY <1>1, <2>2, QuietStep
    <3>2. state = done => state' = done
      BY <1>1 DEF Posedge, Controller, ResetController, LoadRow, LoadLastRow,
         InitDistances, BeginRound, BeginScan, Scan, EndScan, TakeMinimum, EndRound,
         Finish
    <3>3. state' = done /\ ~Pending' => state = done
      BY <1>2 DEF Windows, Window, Pending
    <3>. QED
      BY <3>1, <3>2, <3>3
  <2>. QED
    BY <1>1, <2>1, <2>2
<1>. QED
  BY <1>3, <1>4, <1>5 DEF Greedy!vars

LEMMA RefineNext == IInv /\ [Next]_vars => [Greedy!Next]_Greedy!vars
<1>. SUFFICES ASSUME IInv, [Next]_vars
              PROVE  Greedy!Next \/ UNCHANGED Greedy!vars
  OBVIOUS
<1>1. graph' = graph
  BY DEF Next, Posedge, WriteReset, WriteStart, vars
<1>2. CASE ~Loaded /\ ~Loaded'
  BY <1>1, <1>2 DEF Greedy!vars
<1>3. CASE Loaded /\ ~Loaded'
  BY <1>1, <1>3, SameNodes DEF Greedy!Next, Greedy!Abandon, Greedy!Blank
<1>4. CASE Loaded' /\ Posedge
  BY <1>4, RefineBegin, RefineExpand, RefineStutter, SameNodes DEF Greedy!Next
<1>5. CASE Loaded' /\ UNCHANGED <<graph, start, control, arrays, search, startHeld>>
  BY <1>5 DEF Greedy!vars, Loaded, Expanded, Pending, control, arrays, search
<1>6. ASSUME Loaded', NEW b \in {0, 1}, WriteReset(b)
      PROVE  UNCHANGED <<graph, start, control, arrays, search, startHeld>>
  BY <1>6 DEF WriteReset
<1>7. ASSUME Loaded', NEW s \in Starts, WriteStart(s)
      PROVE  UNCHANGED <<graph, start, control, arrays, search, startHeld>>
  BY <1>7, HeldWrite DEF WriteStart, IInv, PipelineInv
<1>8. CASE Loaded' /\ UNCHANGED vars
  BY <1>5, <1>8 DEF vars
<1>. QED
  BY <1>2, <1>3, <1>4, <1>5, <1>6, <1>7, <1>8 DEF Next

(* The circuit implements the greedy search, step for step: whatever the   *)
(* host writes and whenever it does, each clock edge begins a search,      *)
(* expands a nearest node, abandons the search or changes nothing.         *)
THEOREM RefinementSafety == Spec => GreedySafety
<1>. QED
  BY Invariance, RefineInit, RefineNext, PTL DEF Spec, GreedySafety

----------------------------------------------------------------------------
(* The length of a search *)

\* Rounds take the same time each, the last one included.
LEMMA RoundTimes ==
  /\ Quarter \in Int /\ Quarter >= 1 /\ NODE_CNT \in Int /\ LastNode \in Int
  /\ NODE_CNT = LastNode + 1 /\ LastNode >= 3
  /\ \A c \in Node : RoundsFrom(c) \in Int /\ 0 <= RoundsFrom(c)
                     /\ RoundsFrom(c) <= RoundsFrom(0)
  /\ \A c \in Node : c # LastNode => /\ RoundsFrom(c) >= Quarter + 4
                                     /\ RoundsFrom(c + 1) = RoundsFrom(c) - (Quarter + 4)
  /\ RoundsFrom(LastNode) = 0
<1>1. /\ Quarter \in Int /\ Quarter >= 1 /\ NODE_CNT \in Int /\ LastNode \in Int
      /\ NODE_CNT = LastNode + 1 /\ LastNode >= 3
  BY NodeCntAssumption DEF LastNode
<1>2. \A c \in Node : c \in Int /\ 0 <= c /\ c <= LastNode
  BY <1>1 DEF Node
<1>3. ASSUME NEW c \in Node
      PROVE  RoundsFrom(c) \in Int /\ 0 <= RoundsFrom(c)
             /\ RoundsFrom(c) <= RoundsFrom(0)
  <2>1. \A a, b \in Nat, k \in Nat : a <= b => a * k \in Int /\ 0 <= a * k /\ a * k <= b * k
    OBVIOUS
  <2>2. LastNode - c \in Nat /\ LastNode - 0 \in Nat /\ LastNode - c <= LastNode - 0
        /\ RoundClocks \in Nat
    BY <1>1, <1>2 DEF RoundClocks
  <2>. QED
    BY <2>1, <2>2 DEF RoundsFrom
<1>4. ASSUME NEW c \in Node, c # LastNode
      PROVE  /\ RoundsFrom(c) >= Quarter + 4
             /\ RoundsFrom(c + 1) = RoundsFrom(c) - (Quarter + 4)
  <2>1. \A a \in Nat, k \in Nat : a >= 1 => a * k >= k /\ (a - 1) * k = a * k - k
    OBVIOUS
  <2>2. LastNode - c \in Nat /\ LastNode - c >= 1 /\ RoundClocks \in Nat
        /\ LastNode - (c + 1) = (LastNode - c) - 1
    BY <1>1, <1>2, <1>4 DEF RoundClocks
  <2>. QED
    BY <1>1, <2>1, <2>2 DEF RoundsFrom, RoundClocks
<1>5. RoundsFrom(LastNode) = 0
  BY <1>1 DEF RoundsFrom, RoundClocks
<1>. QED
  BY <1>1, <1>3, <1>4, <1>5

\* The countdown is a number of clocks that only the end of the search ends.
LEMMA CountdownState ==
  ASSUME PipelineInv
  PROVE  CountdownEnds
<1>1. /\ counter \in Node /\ sub_counter \in 0 .. Quarter - 1 /\ state \in State
      /\ Rounds
  BY DEF PipelineInv, TypeOK
<1>2. counter \in Int /\ 0 <= counter /\ counter <= LastNode /\ 0 \in Node
  BY <1>1, RoundTimes DEF Node
<1>3. /\ RoundsFrom(counter) \in Int /\ 0 <= RoundsFrom(counter)
      /\ RoundsFrom(counter) <= RoundsFrom(0) /\ RoundsFrom(0) \in Int
      /\ counter # LastNode => RoundsFrom(counter) >= Quarter + 4
  BY <1>1, <1>2, RoundTimes
<1>4. state \in {min_cost1, min_cost, upd_minc, upd_dist} => counter # LastNode
  BY <1>1 DEF Rounds
<1>5. Quarter \in Int /\ Quarter >= 1 /\ NODE_CNT = LastNode + 1 /\ LastNode \in Int
      /\ LastNode >= 3 /\ NODE_CNT \in Int
  BY RoundTimes
<1>. QED
  BY ONLY <1>1, <1>2, <1>3, <1>4, <1>5
     DEF CountdownEnds, Remaining, Latency, State, map_init, dsn_init, min_cost2,
         min_cost1, min_cost, upd_minc, upd_dist, done

\* Each branch of the controller takes one off the countdown.
LEMMA CountdownEdge ==
  ASSUME PipelineInv, Posedge
  PROVE  Remaining' = IF reset = 0 THEN Latency
                      ELSE IF state = done THEN 0 ELSE Remaining - 1
<1>1. Rounds /\ Controller /\ counter \in Node /\ sub_counter \in 0 .. Quarter - 1
      /\ reset \in {0, 1} /\ start \in Node
  BY DEF PipelineInv, TypeOK, Posedge
<1>2. counter \in Int /\ sub_counter \in Int /\ 0 \in Node
  BY <1>1, RoundTimes DEF Node
<1>3. /\ RoundsFrom(counter) \in Int /\ RoundsFrom(0) \in Int
      /\ RoundsFrom(LastNode) = 0 /\ Latency \in Int
      /\ counter # LastNode =>
           RoundsFrom(counter + 1) = RoundsFrom(counter) - (Quarter + 4)
  BY <1>1, <1>2, RoundTimes DEF Latency
<1>4. Latency = NODE_CNT + 2 + RoundsFrom(0) /\ NODE_CNT = LastNode + 1
      /\ LastNode \in Int /\ Quarter \in Int
  BY RoundTimes DEF Latency
<1>5. /\ state = min_cost2 => sub_counter = 0
      /\ state \in {min_cost1, upd_minc, upd_dist} => sub_counter = 0
      /\ state = done => counter = LastNode
  BY <1>1 DEF Rounds, min_cost, min_cost2, min_cost1, upd_minc, upd_dist
<1>6. CASE reset = 0
  <2>1. state' = map_init /\ counter' = 0
    BY <1>6, ResetEdge
  <2>. QED
    BY ONLY <1>3, <1>6, <2>1
      DEF Remaining, map_init, dsn_init, min_cost2, min_cost1, min_cost, upd_minc,
          upd_dist, done
<1>7. CASE reset = 1
  <2>. USE DEF map_init, dsn_init, min_cost2, min_cost1, min_cost, upd_minc,
               upd_dist, done
  <2>2. CASE LoadRow
    BY ONLY <1>2, <1>4, <1>7, <2>2, <1>3 DEF LoadRow, Remaining
  <2>3. CASE LoadLastRow
    BY ONLY <1>2, <1>3, <1>4, <1>7, <2>3 DEF LoadLastRow, Remaining
  <2>4. CASE InitDistances
    BY ONLY <1>3, <1>7, <2>4 DEF InitDistances, Remaining
  <2>5. CASE BeginRound
    BY ONLY <1>3, <1>7, <2>5 DEF BeginRound, Remaining
  <2>6. CASE BeginScan
    BY ONLY <1>3, <1>5, <1>7, <2>6 DEF BeginScan, Remaining
  <2>7. CASE Scan
    BY ONLY <1>2, <1>3, <1>7, <2>7 DEF Scan, Remaining
  <2>8. CASE EndScan
    BY ONLY <1>2, <1>3, <1>4, <1>7, <2>8 DEF EndScan, Remaining
  <2>9. CASE TakeMinimum
    BY ONLY <1>3, <1>4, <1>7, <2>9 DEF TakeMinimum, Remaining
  <2>10. CASE EndRound
    BY ONLY <1>2, <1>3, <1>4, <1>7, <2>10 DEF EndRound, Remaining
  <2>11. CASE Finish
    <3>1. state = done \/ state = min_cost2
      BY <1>1, <2>11 DEF Finish, Rounds
    <3>. QED
      BY ONLY <1>3, <1>7, <2>11, <3>1 DEF Finish, Remaining
  <2>. QED
    BY <1>1, <1>7, <2>2, <2>3, <2>4, <2>5, <2>6, <2>7, <2>8, <2>9, <2>10, <2>11
       DEF Controller, ResetController
<1>. QED
  BY <1>1, <1>6, <1>7

(* A search takes the same number of clocks for every map and start node:  *)
(* an edge in reset sets the countdown to Latency, each edge out of reset  *)
(* takes one off it, nothing else changes it, and it reads 0 exactly when  *)
(* the host can see state 7.  So Latency edges out of reset always end in  *)
(* state 7, none before the last, and the program's polling loop depends   *)
(* on nothing but the clock.                                               *)
THEOREM LatencyCorrect == Spec => []CountdownEnds /\ [][CountsDown]_vars
<1>1. IInv => CountdownEnds
  BY CountdownState DEF IInv
<1>2. IInv /\ [Next]_vars => [CountsDown]_vars
  <2>. SUFFICES ASSUME IInv, Next
                PROVE  CountsDown
    BY DEF vars
  <2>1. CASE Posedge
    BY <2>1, CountdownEdge DEF IInv, CountsDown
  <2>2. CASE ~Posedge
    <3>1. UNCHANGED control
      BY <2>2 DEF Next, WriteReset, WriteStart
    <3>2. Remaining' = Remaining
      BY <3>1 DEF control, Remaining
    <3>. QED
      BY <2>2, <3>2 DEF CountsDown
  <2>. QED
    BY <2>1, <2>2
<1>. QED
  BY <1>1, <1>2, Invariance, PTL DEF Spec

----------------------------------------------------------------------------
(* The program: what holds at its lines *)

\* The program counters from the first poll on.
Answered == Reading \cup {"min_path", "finished"}

(* What the program has arranged by the time it gets to a line: the start  *)
(* register holds its start node, the registers of the readout are at 0,   *)
(* and the core has seen an edge in reset before reset is raised.          *)
HandShake ==
  /\ pc = "set_start" => source \in Starts
  /\ pc \notin {"ask_start", "set_start"} => source = start
  /\ pc \in {"zero_count", "reset_low", "reset_high", "poll"} => clk_NIOS = 0
  /\ pc \in {"reset_low", "reset_high", "poll"} => trans_count = 0
  /\ pc = "reset_high" => reset = 0 /\ (~busUsed => startHeld)
  /\ pc \in Answered \cup {"poll"} => reset = 1 /\ startHeld
  /\ pc \in Answered => state = done

(* The readout loop: which element the output registers hold, and which    *)
(* ones have been copied.                                                  *)
Readback ==
  /\ pc \in {"clk_high", "read_neighbor", "read_distance"} => index \in Node
  /\ pc = "clk_high" => clk_NIOS = 0 /\ trans_count = index
  /\ pc = "clk_fall" => trans_count = index
  /\ pc \in {"read_neighbor", "read_distance"} =>
       neighbor_out = neighbor[index] /\ distance_out = distance[index]
  /\ pc = "read_distance" => neighbor_of[index] = neighbor[index]
  /\ pc \in {"min_path", "finished"} => index = NODE_CNT

SysInv == SysTypeOK /\ IInv /\ HandShake /\ Readback /\ CopiesCore

----------------------------------------------------------------------------
LEMMA SysInvInit == SysInit => SysInv
<1>. SUFFICES ASSUME SysInit
              PROVE  SysInv
  OBVIOUS
<1>1. IInv
  <2>1. Init => ~Loaded
    BY DEF Init, Loaded
  <2>. QED
    BY <2>1, PipelineInit DEF SysInit, IInv, SearchInv
<1>2. Zeroes \in [Node -> Node] /\ Zeroes \in Row /\ 0 \in 0 .. NODE_CNT
      /\ 0 \in Node /\ 0 \in Word
  BY Indices, Words DEF Zeroes, Row
<1>3. SysTypeOK
  BY <1>2, MaxBootsAssumption DEF SysInit, SysTypeOK, Pcs
<1>4. HandShake /\ Readback /\ CopiesCore
  BY DEF SysInit, HandShake, Readback, CopiesCore, Answered, Reading
<1>. QED
  BY <1>1, <1>3, <1>4 DEF SysInv

\* Every step of the system is one the core's specification allows.
LEMMA CoreStep == HandShake /\ [SysNext]_sysVars => [Next]_vars
<1>. SUFFICES ASSUME HandShake, [SysNext]_sysVars
              PROVE  [Next]_vars
  OBVIOUS
<1>1. CASE ClockStep
  BY <1>1 DEF ClockStep, Next
<1>2. CASE Reboot
  BY <1>2 DEF Reboot
<1>3. CASE UNCHANGED sysVars
  BY <1>3 DEF sysVars
<1>4. CASE SetStart
  BY <1>4 DEF SetStart, At, Next, HandShake
<1>5. CASE LowerReset \/ RaiseReset
  BY <1>5 DEF LowerReset, RaiseReset, Next
<1>6. CASE HostStep /\ ~(SetStart \/ LowerReset \/ RaiseReset)
  BY <1>6 DEF HostStep, Program, AskStart, AskDest, LowerClk, ZeroCount, Poll, RaiseClk,
     ReadNeighbor, ReadDistance, SetCount, NextIndex, Descend, Arrive
<1>. QED
  BY <1>1, <1>2, <1>3, <1>4, <1>5, <1>6 DEF SysNext

\* State 7 stays while the core is not reset, and so do its results.
LEMMA DoneStays ==
  ASSUME IInv, Posedge, reset = 1, startHeld, state = done
  PROVE  state' = done /\ startHeld' = startHeld /\ neighbor' = neighbor /\ distance' = distance
<1>1. Windows /\ Windows' /\ state_reg' = state /\ TypeOK
  BY WindowsStep DEF IInv, PipelineInv, Posedge, Delay
<1>2. state' = done
  BY DEF Posedge, Controller, ResetController, LoadRow, LoadLastRow, InitDistances,
     BeginRound, BeginScan, Scan, EndScan, TakeMinimum, EndRound, Finish
<1>3. startHeld' = startHeld
  <2>1. startHeld \in BOOLEAN
    BY <1>1 DEF TypeOK
  <2>2. startHeld' = (startHeld \/ reset = 0)
    BY DEF Posedge
  <2>. QED
    BY <2>1, <2>2
<1>4. Loaded /\ Loaded'
  BY <1>1, <1>2, <1>3 DEF Windows, Window, Loaded
<1>5. neighbor' = neighbor /\ distance' = distance
  BY <1>4, DoneHolds DEF Next, arrays
<1>. QED
  BY <1>2, <1>3, <1>5

----------------------------------------------------------------------------
(* The program's steps *)

\* A line of the program that touches neither the core nor the readout.
LEMMA PlainSteps ==
  ASSUME SysInv, HostStep,
         AskStart \/ SetStart \/ AskDest \/ LowerClk("clk_low", "zero_count")
           \/ ZeroCount \/ LowerReset \/ RaiseReset
  PROVE  SysTypeOK' /\ HandShake' /\ Readback' /\ CopiesCore'
<1>1. SysTypeOK /\ HandShake /\ busUsed' = TRUE /\ boots' = boots
  BY DEF SysInv, HostStep
<1>2. pc' \in {"ask_start", "set_start", "ask_dest", "clk_low", "zero_count",
               "reset_low", "reset_high", "poll"} /\ pc' \in Pcs
  BY DEF AskStart, SetStart, AskDest, LowerClk, ZeroCount, LowerReset, RaiseReset, At, Pcs
<1>3. Readback' /\ CopiesCore'
  BY <1>2 DEF Readback, CopiesCore, Reading
<1>4. SysTypeOK'
  <2>1. 0 \in 0 .. NODE_CNT
    BY Indices
  <2>2. CASE AskStart
    BY <1>1, <1>2, <2>2 DEF AskStart, SysTypeOK, InRange, registers
  <2>3. CASE SetStart
    BY <1>1, <1>2, <2>3 DEF SetStart, At, SysTypeOK, registers, locals
  <2>4. CASE AskDest
    BY <1>1, <1>2, <2>4 DEF AskDest, SysTypeOK, InRange, registers
  <2>5. CASE LowerClk("clk_low", "zero_count")
    BY <1>1, <1>2, <2>5 DEF LowerClk, At, SysTypeOK, locals
  <2>6. CASE ZeroCount
    BY <1>1, <1>2, <2>1, <2>6 DEF ZeroCount, At, SysTypeOK, locals
  <2>7. CASE LowerReset \/ RaiseReset
    BY <1>1, <1>2, <2>7 DEF LowerReset, RaiseReset, At, SysTypeOK, registers, locals
  <2>. QED
    BY <2>2, <2>3, <2>4, <2>5, <2>6, <2>7
<1>5. HandShake'
  <2>1. CASE AskStart
    BY <1>1, <2>1, InputsAssumption DEF AskStart, InRange, HandShake, Answered, Reading
  <2>2. CASE SetStart
    BY <1>1, <2>2 DEF SetStart, At, WriteStart, HandShake, Answered, Reading, locals
  <2>3. CASE AskDest
    BY <1>1, <2>3 DEF AskDest, HandShake, Answered, Reading, vars, registers
  <2>4. CASE LowerClk("clk_low", "zero_count") \/ ZeroCount
    BY <1>1, <2>4 DEF LowerClk, ZeroCount, At, HandShake, Answered, Reading, vars, locals
  <2>5. CASE LowerReset
    BY <1>1, <2>5 DEF LowerReset, At, WriteReset, HandShake, Answered, Reading,
       registers, locals
  <2>6. CASE RaiseReset
    <3>1. startHeld' /\ reset' = 1 /\ source' = start'
      BY <1>1, <2>6 DEF RaiseReset, At, WriteReset, HandShake, HostStep, locals
    <3>. QED
      BY <1>1, <2>6, <3>1 DEF RaiseReset, At, HandShake, Answered, Reading, registers
  <2>. QED
    BY <2>1, <2>2, <2>3, <2>4, <2>5, <2>6
<1>. QED
  BY <1>3, <1>4, <1>5

\* The lines from the first poll on leave the core alone.
LEMMA ReadoutHandShake ==
  ASSUME HandShake, UNCHANGED vars, UNCHANGED source, pc \in Answered \cup {"poll"},
         pc' \in Answered \cup {"poll"}, pc' = "poll" => UNCHANGED registers,
         pc = "poll" /\ pc' # "poll" => state = done,
         pc' = "poll" => pc = "poll"
  PROVE  HandShake'
BY DEF HandShake, Answered, Reading, vars, control, registers

LEMMA PollStep ==
  ASSUME SysInv, HostStep, Poll
  PROVE  SysTypeOK' /\ HandShake' /\ Readback' /\ CopiesCore'
<1>1. SysTypeOK /\ HandShake /\ busUsed' = TRUE /\ boots' = boots
  BY DEF SysInv, HostStep
<1>2. 0 \in Node /\ 0 \in 0 .. NODE_CNT
  BY Indices
<1>3. pc' \in {"poll", "clk_high"} /\ pc' \in Pcs
  BY DEF Poll, Pcs
<1>4. SysTypeOK'
  BY <1>1, <1>2, <1>3 DEF Poll, SysTypeOK, registers
<1>5. HandShake'
  BY <1>1, <1>3, ReadoutHandShake DEF Poll, Answered, Reading
<1>6. Readback' /\ CopiesCore'
  <2>1. pc' = "clk_high" => index' = 0 /\ clk_NIOS' = 0 /\ trans_count' = 0
    BY <1>1 DEF Poll, HandShake, registers
  <2>. QED
    BY <1>2, <1>3, <2>1 DEF Readback, CopiesCore, Reading
<1>. QED
  BY <1>4, <1>5, <1>6

\* One round of the readout loop copies one more element.
LEMMA ReadoutSteps ==
  ASSUME SysInv, HostStep, RaiseClk \/ ReadNeighbor \/ ReadDistance \/ SetCount \/ NextIndex
  PROVE  SysTypeOK' /\ HandShake' /\ Readback' /\ CopiesCore'
<1>1. SysTypeOK /\ HandShake /\ Readback /\ CopiesCore /\ busUsed' = TRUE /\ boots' = boots
  BY DEF SysInv, HostStep
<1>2. /\ UNCHANGED vars /\ UNCHANGED source /\ pc \in Reading
      /\ pc' \in Reading \cup {"min_path"} /\ pc' \in Pcs
  BY DEF RaiseClk, ReadNeighbor, ReadDistance, SetCount, NextIndex, LowerClk, At, Reading,
     Pcs, locals
<1>3. HandShake'
  BY <1>1, <1>2, ReadoutHandShake DEF Answered, Reading
<1>4. /\ distance \in [Node -> Word] /\ neighbor \in [Node -> Node]
      /\ distance' = distance /\ neighbor' = neighbor
  BY <1>2 DEF SysInv, IInv, PipelineInv, TypeOK, Row, vars, arrays
<1>5. /\ neighbor_of \in [Node -> Node] /\ distance_of \in [Node -> Word]
      /\ index \in 0 .. NODE_CNT /\ NODE_CNT \in Nat
      /\ \A k \in 0 .. NODE_CNT : k < NODE_CNT => k \in Node
      /\ \A k \in Node : k \in Int /\ k + 1 \in 0 .. NODE_CNT /\ k \in 0 .. NODE_CNT
  <2>1. /\ neighbor_of \in [Node -> Node] /\ distance_of \in [Node -> Word]
        /\ index \in 0 .. NODE_CNT
    BY <1>1 DEF SysTypeOK, Row
  <2>2. NODE_CNT \in Nat
    BY NodeCntAssumption
  <2>. QED
    BY <2>1, <2>2 DEF Node
<1>6. CASE RaiseClk
  <2>1. index \in Node /\ clk_NIOS = 0 /\ trans_count = index
    BY <1>1, <1>6 DEF RaiseClk, At, Readback
  <2>2. /\ neighbor_out' = neighbor[index] /\ distance_out' = distance[index]
        /\ clk_NIOS' = 1 /\ pc' = "read_neighbor" /\ pc = "clk_high"
        /\ UNCHANGED <<trans_count, locals>>
    BY <1>6, <2>1 DEF RaiseClk, At, Selected
  <2>3. Readback' /\ CopiesCore'
    BY <1>1, <1>4, <2>1, <2>2 DEF Readback, CopiesCore, Reading, locals
  <2>4. SysTypeOK'
    BY <1>1, <1>2, <1>4, <2>1, <2>2 DEF SysTypeOK, locals
  <2>. QED
    BY <1>3, <2>3, <2>4
<1>7. CASE ReadNeighbor
  <2>1. /\ index \in Node /\ neighbor_out = neighbor[index]
        /\ distance_out = distance[index] /\ neighbor_out \in Node
    BY <1>1, <1>7 DEF ReadNeighbor, At, Readback, SysTypeOK
  <2>2. /\ neighbor_of' = [neighbor_of EXCEPT ![index] = neighbor_out]
        /\ pc' = "read_distance" /\ pc = "read_neighbor"
        /\ UNCHANGED <<registers, source, dest, index, distance_of, path>>
    BY <1>7 DEF ReadNeighbor, At
  <2>3. /\ neighbor_of' \in [Node -> Node] /\ neighbor_of'[index] = neighbor[index]
        /\ \A i \in 0 .. index - 1 : neighbor_of'[i] = neighbor_of[i]
    BY <1>5, <2>1, <2>2 DEF Node
  <2>4. Readback' /\ CopiesCore'
    BY <1>1, <1>4, <2>1, <2>2, <2>3 DEF Readback, CopiesCore, Reading, registers
  <2>5. SysTypeOK'
    BY <1>1, <1>2, <2>2, <2>3 DEF SysTypeOK, registers
  <2>. QED
    BY <1>3, <2>4, <2>5
<1>8. CASE ReadDistance
  <2>1. /\ index \in Node /\ neighbor_of[index] = neighbor[index]
        /\ distance_out = distance[index] /\ distance_out \in Word
    BY <1>1, <1>8 DEF ReadDistance, At, Readback, SysTypeOK
  <2>2. /\ distance_of' = [distance_of EXCEPT ![index] = distance_out]
        /\ index' = index + 1
        /\ pc' = "set_count" /\ pc = "read_distance"
        /\ UNCHANGED <<registers, source, dest, neighbor_of, path>>
    BY <1>8 DEF ReadDistance, At
  <2>3. /\ distance_of' \in [Node -> Word] /\ distance_of'[index] = distance[index]
        /\ \A i \in 0 .. index - 1 : distance_of'[i] = distance_of[i]
    BY <1>5, <2>1, <2>2 DEF Node
  <2>4. \A i \in 0 .. index' - 1 : i \in 0 .. index - 1 \/ i = index
    BY <1>5, <2>1, <2>2
  <2>5. Readback' /\ CopiesCore'
    BY <1>1, <1>4, <2>1, <2>2, <2>3, <2>4 DEF Readback, CopiesCore, Reading
  <2>6. SysTypeOK'
    BY <1>1, <1>2, <1>5, <2>1, <2>2, <2>3 DEF SysTypeOK, Row, registers
  <2>. QED
    BY <1>3, <2>5, <2>6
<1>9. CASE SetCount
  <2>1. /\ trans_count' = index /\ pc' = "clk_fall" /\ pc = "set_count"
        /\ UNCHANGED <<clk_NIOS, neighbor_out, distance_out, locals>>
    BY <1>9 DEF SetCount, At
  <2>2. Readback' /\ CopiesCore'
    BY <1>1, <1>4, <2>1 DEF Readback, CopiesCore, Reading, locals
  <2>3. SysTypeOK'
    BY <1>1, <1>2, <1>5, <2>1 DEF SysTypeOK, locals
  <2>. QED
    BY <1>3, <2>2, <2>3
<1>10. CASE NextIndex
  <2>1. /\ clk_NIOS' = 0 /\ pc' = IF index < NODE_CNT THEN "clk_high" ELSE "min_path"
        /\ pc = "clk_fall"
        /\ UNCHANGED <<trans_count, neighbor_out, distance_out, locals>>
    BY <1>10 DEF NextIndex, LowerClk, At
  <2>2. Readback' /\ CopiesCore'
    BY <1>1, <1>4, <1>5, <2>1 DEF Readback, CopiesCore, Reading, locals
  <2>3. SysTypeOK'
    BY <1>1, <1>2, <2>1 DEF SysTypeOK, locals
  <2>. QED
    BY <1>3, <2>2, <2>3
<1>. QED
  BY <1>6, <1>7, <1>8, <1>9, <1>10

\* Printing reads the program's own arrays only.
LEMMA PrintSteps ==
  ASSUME SysInv, HostStep, Descend \/ Arrive
  PROVE  SysTypeOK' /\ HandShake' /\ Readback' /\ CopiesCore'
<1>1. SysTypeOK /\ HandShake /\ Readback /\ CopiesCore /\ busUsed' = TRUE /\ boots' = boots
  BY DEF SysInv, HostStep
<1>2. /\ UNCHANGED <<vars, registers, source, index, neighbor_of, distance_of>>
      /\ pc = "min_path" /\ pc' \in {"min_path", "finished"} /\ pc' \in Pcs
  BY DEF Descend, Arrive, At, Pcs
<1>3. HandShake'
  BY <1>1, <1>2, ReadoutHandShake DEF Answered
<1>4. Readback' /\ CopiesCore'
  BY <1>1, <1>2 DEF Readback, CopiesCore, Reading, vars, arrays
<1>5. /\ dest \in Node /\ source \in Node /\ Hop \in Node /\ path \in Seq(Node)
  BY <1>1, <1>2 DEF SysTypeOK, Hop
<1>6. dest' \in Node /\ path' \in Seq(Node)
  <2>1. <<dest>> \in Seq(Node) /\ <<source, dest>> \in Seq(Node)
    BY <1>5
  <2>2. \A p, r \in Seq(Node) : p \o r \in Seq(Node)
    OBVIOUS
  <2>. QED
    BY <1>5, <2>1, <2>2 DEF Descend, Arrive
<1>7. SysTypeOK'
  BY <1>1, <1>2, <1>6 DEF SysTypeOK, registers
<1>. QED
  BY <1>3, <1>4, <1>7

----------------------------------------------------------------------------
(* The other steps *)

\* Clock edges do not disturb what the program has arranged.
LEMMA EdgeStep ==
  ASSUME SysInv, ClockStep
  PROVE  SysTypeOK' /\ HandShake' /\ Readback' /\ CopiesCore'
<1>1. /\ SysTypeOK /\ HandShake /\ Readback /\ CopiesCore /\ IInv /\ Posedge
      /\ busUsed' = FALSE /\ UNCHANGED <<registers, pc, locals, boots>>
  BY DEF SysInv, ClockStep
<1>2. start' = start /\ reset' = reset /\ startHeld' = (startHeld \/ reset = 0)
      /\ startHeld \in BOOLEAN
  BY <1>1 DEF Posedge, IInv, PipelineInv, TypeOK
<1>3. pc \in Answered => /\ state' = done
                         /\ neighbor' = neighbor /\ distance' = distance
  BY <1>1, DoneStays DEF HandShake
<1>4. SysTypeOK'
  BY <1>1 DEF SysTypeOK, registers, locals
<1>5. HandShake'
  <2>1. startHeld \/ reset = 0 => startHeld'
    BY <1>2
  <2>. QED
    BY <1>1, <1>2, <1>3, <2>1 DEF HandShake, registers, locals, Answered, Reading
<1>6. Readback' /\ CopiesCore'
  BY <1>1, <1>3 DEF Readback, CopiesCore, Answered, Reading, registers, locals
<1>. QED
  BY <1>4, <1>5, <1>6

\* A processor reset leaves registers and core alone; the program has
\* arranged nothing yet.
LEMMA RebootStep ==
  ASSUME SysInv, Reboot
  PROVE  SysTypeOK' /\ HandShake' /\ Readback' /\ CopiesCore'
<1>1. /\ SysTypeOK /\ pc' = "ask_start" /\ UNCHANGED <<busUsed, registers>>
      /\ source' = -1 /\ dest' = -1 /\ index' = 0 /\ path' = <<>>
      /\ neighbor_of' = Zeroes /\ distance_of' = Zeroes
      /\ boots < MaxBoots /\ boots' = boots + 1
  BY DEF SysInv, Reboot
<1>2. Zeroes \in [Node -> Node] /\ Zeroes \in Row /\ 0 \in 0 .. NODE_CNT
  BY Indices, Words DEF Zeroes, Row
<1>3. boots' \in 0 .. MaxBoots
  BY <1>1, MaxBootsAssumption DEF SysTypeOK
<1>4. SysTypeOK'
  BY <1>1, <1>2, <1>3 DEF SysTypeOK, Pcs, registers
<1>5. HandShake' /\ Readback' /\ CopiesCore'
  BY <1>1 DEF HandShake, Readback, CopiesCore, Answered, Reading
<1>. QED
  BY <1>4, <1>5

LEMMA SysStep == SysInv /\ [SysNext]_sysVars => SysInv'
<1>. SUFFICES ASSUME SysInv, [SysNext]_sysVars
              PROVE  SysInv'
  OBVIOUS
<1>1. IInv'
  <2>1. [Next]_vars
    BY CoreStep DEF SysInv
  <2>. QED
    BY <2>1, PipelineStep, SearchStep DEF SysInv, IInv
<1>2. CASE HostStep
  BY <1>1, <1>2, PlainSteps, PollStep, ReadoutSteps, PrintSteps
     DEF HostStep, Program, SysInv
<1>3. CASE ClockStep
  BY <1>1, <1>3, EdgeStep DEF SysInv
<1>4. CASE Reboot
  BY <1>1, <1>4, RebootStep DEF SysInv
<1>5. CASE UNCHANGED sysVars
  BY <1>1, <1>5 DEF SysInv, SysTypeOK, HandShake, Readback, CopiesCore, sysVars, vars,
     registers, locals, control, arrays
<1>. QED
  BY <1>2, <1>3, <1>4, <1>5 DEF SysNext

LEMMA SysInvariance == SysSpec => []SysInv
<1>. QED
  BY SysInvInit, SysStep, PTL DEF SysSpec

----------------------------------------------------------------------------
(* The program's variables, the registers and what the user may type stay  *)
(* in range; every index the program passes on is one of its arrays.       *)
THEOREM SysTypeCorrect == SysSpec => []SysTypeOK
<1>1. SysInv => SysTypeOK
  BY DEF SysInv
<1>. QED
  BY <1>1, SysInvariance, PTL

(* A state 7 the program polls is that of the search it has just started,  *)
(* however often the processor was reset in the middle of another one: the *)
(* core has seen an edge in reset between the two writes of the register.  *)
THEOREM NoStaleDoneCorrect == SysSpec => []NoStaleDone
<1>1. SysInv => NoStaleDone
  BY DEF SysInv, HandShake, IInv, PipelineInv, Windows, Window, Loaded, NoStaleDone
<1>. QED
  BY <1>1, SysInvariance, PTL

(* The program copies every element of the core's arrays once, through an  *)
(* output register clocked by its own bus writes.                          *)
THEOREM CopiesCoreCorrect == SysSpec => []CopiesCore
<1>1. SysInv => CopiesCore
  BY DEF SysInv
<1>. QED
  BY <1>1, SysInvariance, PTL

\* The certificate of the core, read through the program's copies.
LEMMA CertifiedAtPrint ==
  ASSUME SysInv, pc \in {"min_path", "finished"}
  PROVE  Certificate(graph, source, distance_of, neighbor_of)
<1>1. index = NODE_CNT /\ source = start /\ start \in Node /\ startHeld
      /\ state = done /\ Windows
  BY DEF SysInv, Readback, HandShake, Answered, IInv, PipelineInv, TypeOK
<1>2. Certificate(graph, start, distance, neighbor)
  BY <1>1, CertifiedWhenDone DEF SysInv, Windows, Window, Loaded
<1>3. \A i \in Node : neighbor_of[i] = neighbor[i] /\ distance_of[i] = distance[i]
  BY <1>1 DEF SysInv, CopiesCore, Node
<1>4. neighbor \in [Node -> Node]
  BY DEF SysInv, IInv, PipelineInv, TypeOK
<1>. QED
  BY <1>1, <1>2, <1>3, <1>4 DEF Certificate, Feasible, TightTree

(* When the program begins to print, its own arrays hold feasible          *)
(* distances from the node the user named, and a tree of tight roads.      *)
CertifiedCopy ==
  pc \in {"min_path", "finished"} =>
    Certificate(graph, source, distance_of, neighbor_of)

(* The certificate reaches the program: from the pipeline through output   *)
(* registers, over bus reads, past processor resets, into its arrays.      *)
THEOREM CertifiedCopyCorrect == SysSpec => []CertifiedCopy
<1>1. SysInv => CertifiedCopy
  BY CertifiedAtPrint DEF CertifiedCopy
<1>. QED
  BY <1>1, SysInvariance, PTL

(* What the system does to the core is what DijkstraCore allows, so every  *)
(* safety property proved of the core holds in the system.                 *)
THEOREM UsesCoreSafely == SysSpec => Init /\ [][Next]_vars
<1>1. SysInit => Init
  BY DEF SysInit
<1>2. SysInv /\ [SysNext]_sysVars => [Next]_vars
  BY CoreStep DEF SysInv
<1>. QED
  BY <1>1, <1>2, SysInvariance, PTL DEF SysSpec

----------------------------------------------------------------------------
(* The printed path *)

\* Consecutive nodes of p are joined by a tight road.
TightChain(p) ==
  \A i \in 1 .. Len(p) - 1 :
    distance_of[p[i + 1]] = distance_of[p[i]] + graph[p[i]][p[i + 1]]

\* Distances grow along p.
Climbs(p) ==
  \A i, j \in 1 .. Len(p) : i < j => distance_of[p[i]] < distance_of[p[j]]

\* The calls of min_path descend from the user's node by tight roads.
Trail ==
  /\ pc \notin {"min_path", "finished"} => path = <<>>
  /\ pc = "min_path" => /\ TightChain(<<dest>> \o path) /\ Climbs(<<dest>> \o path)
                        /\ dest = source => path = <<>>
  /\ pc = "finished" => /\ path[1] = source /\ TightChain(path)
                        /\ Len(path) >= 2 /\ Len(path) <= NODE_CNT

\* What the certificate says of the program's copies.
LEMMA CertifiedNow ==
  ASSUME SysInv, pc \in {"min_path", "finished"}
  PROVE  /\ \A v \in Node : /\ neighbor_of[v] \in Node
                            /\ distance_of[v] = distance_of[neighbor_of[v]]
                                                  + graph[neighbor_of[v]][v]
                            /\ neighbor_of[v] = v => v = source
                            /\ distance_of[v] \in Int
         /\ \A u, v \in Node : graph[u][v] \in Int
                               /\ (u # v => 0 < graph[u][v])
         /\ graph[source][source] = 0 /\ source \in Node /\ dest \in Node
         /\ distance_of[source] = 0 /\ path \in Seq(Node)
<1>1. Certificate(graph, source, distance_of, neighbor_of)
  BY CertifiedAtPrint
<1>2. /\ neighbor_of \in [Node -> Node] /\ distance_of \in [Node -> Word]
      /\ source \in Node /\ dest \in Node /\ path \in Seq(Node)
  BY DEF SysInv, SysTypeOK, Row
<1>3. \A v \in Node : distance_of[v] \in Int
  BY <1>2, Words
<1>4. \A u, v \in Node : graph[u][v] \in Int /\ 0 <= graph[u][v]
                         /\ (graph[u][v] = 0 <=> u = v)
  BY Roads DEF SysInv, IInv
<1>5. \A u, v \in Node : u # v => 0 < graph[u][v]
  BY <1>4
<1>. QED
  BY <1>1, <1>2, <1>3, <1>4, <1>5 DEF Certificate, Feasible, TightTree

\* Putting a node in front of a sequence.
LEMMA Front ==
  ASSUME NEW S, NEW x \in S, NEW p \in Seq(S)
  PROVE  /\ <<x>> \o p \in Seq(S) /\ Len(<<x>> \o p) = Len(p) + 1
         /\ (<<x>> \o p)[1] = x
         /\ \A i \in 1 .. Len(p) : (<<x>> \o p)[i + 1] = p[i]
<1>1. <<x>> \in Seq(S) /\ Len(<<x>>) = 1 /\ <<x>>[1] = x
  OBVIOUS
<1>2. \A q, r \in Seq(S) : /\ q \o r \in Seq(S) /\ Len(q \o r) = Len(q) + Len(r)
                           /\ \A i \in 1 .. Len(q) + Len(r) :
                                (q \o r)[i] = IF i <= Len(q) THEN q[i] ELSE r[i - Len(q)]
  OBVIOUS
<1>3. Len(p) \in Nat
  OBVIOUS
<1>4. <<x>> \o p \in Seq(S) /\ Len(<<x>> \o p) = Len(p) + 1
  BY <1>1, <1>2, <1>3
<1>5. \A i \in 1 .. Len(p) + 1 : (<<x>> \o p)[i] = IF i <= 1 THEN <<x>>[i] ELSE p[i - 1]
  BY <1>1, <1>2, <1>3
<1>. QED
  BY <1>1, <1>3, <1>4, <1>5

\* Two nodes in front are one in front of another.
LEMMA FrontTwice ==
  ASSUME NEW S, NEW x \in S, NEW y \in S, NEW p \in Seq(S)
  PROVE  <<x, y>> \o p = <<x>> \o (<<y>> \o p)
<1>. DEFINE q == <<y>> \o p
            l == <<x, y>> \o p
            r == <<x>> \o q
<1>1. /\ q \in Seq(S) /\ Len(q) = Len(p) + 1 /\ q[1] = y /\ Len(p) \in Nat
      /\ \A i \in 1 .. Len(p) : q[i + 1] = p[i]
  BY Front
<1>2. /\ l \in Seq(S) /\ Len(l) = Len(p) + 2
      /\ \A i \in 1 .. Len(p) + 2 : l[i] = IF i <= 2 THEN <<x, y>>[i] ELSE p[i - 2]
  OBVIOUS
<1>. HIDE DEF q, l
<1>3. /\ r \in Seq(S) /\ Len(r) = Len(q) + 1 /\ r[1] = x
      /\ \A i \in 1 .. Len(q) : r[i + 1] = q[i]
  BY <1>1, Front
<1>. HIDE DEF r
<1>4. ASSUME NEW i \in 1 .. Len(p) + 2
      PROVE  l[i] = r[i]
  <2>1. CASE i = 1
    BY <1>2, <1>3, <2>1
  <2>2. CASE i = 2
    <3>1. r[1 + 1] = q[1] /\ l[2] = y
      BY <1>1, <1>2, <1>3
    <3>. QED
      BY <1>1, <2>2, <3>1
  <2>3. CASE i > 2
    <3>1. i - 2 \in 1 .. Len(p) /\ (i - 2) + 1 = i - 1
      BY <1>1, <2>3
    <3>2. i - 1 \in 1 .. Len(q) /\ (i - 1) + 1 = i
      BY <1>1, <2>3
    <3>3. r[i] = q[i - 1] /\ q[i - 1] = p[i - 2]
      BY <1>1, <1>3, <3>1, <3>2
    <3>. QED
      BY <1>2, <2>3, <3>3
  <2>. QED
    BY <1>1, <2>1, <2>2, <2>3
<1>5. l = r
  BY <1>1, <1>2, <1>3, <1>4
<1>. QED
  BY <1>5 DEF l, r, q

\* A chain grows at the front by a tight road.
LEMMA ChainFront ==
  ASSUME NEW x \in Node, NEW p \in Seq(Node), Len(p) >= 1, TightChain(p),
         distance_of[p[1]] = distance_of[x] + graph[x][p[1]]
  PROVE  TightChain(<<x>> \o p)
<1>. DEFINE r == <<x>> \o p
<1>1. /\ Len(r) = Len(p) + 1 /\ r[1] = x /\ Len(p) \in Nat
      /\ \A i \in 1 .. Len(p) : r[i + 1] = p[i]
  BY Front
<1>. HIDE DEF r
<1>2. ASSUME NEW i \in 1 .. Len(p)
      PROVE  distance_of[r[i + 1]] = distance_of[r[i]] + graph[r[i]][r[i + 1]]
  <2>1. CASE i = 1
    BY <1>1, <2>1
  <2>2. CASE i # 1
    <3>1. i - 1 \in 1 .. Len(p) - 1 /\ r[i + 1] = p[i] /\ i \in 1 .. Len(p)
      BY <1>1, <2>2
    <3>2. r[(i - 1) + 1] = p[i - 1] /\ (i - 1) + 1 = i
      BY <1>1, <3>1
    <3>3. distance_of[p[(i - 1) + 1]] = distance_of[p[i - 1]]
                                          + graph[p[i - 1]][p[(i - 1) + 1]]
      BY <3>1 DEF TightChain
    <3>. QED
      BY <3>1, <3>2, <3>3
  <2>. QED
    BY <2>1, <2>2
<1>3. TightChain(r)
  BY <1>1, <1>2 DEF TightChain
<1>. QED
  BY <1>3 DEF r

\* So does a climb, by a nearer node.
LEMMA ClimbFront ==
  ASSUME NEW x \in Node, NEW p \in Seq(Node), Len(p) >= 1, Climbs(p),
         distance_of[x] < distance_of[p[1]],
         \A v \in Node : distance_of[v] \in Int
  PROVE  Climbs(<<x>> \o p)
<1>. DEFINE r == <<x>> \o p
<1>1. /\ Len(r) = Len(p) + 1 /\ r[1] = x /\ Len(p) \in Nat
      /\ \A i \in 1 .. Len(p) : r[i + 1] = p[i]
  BY Front
<1>2. \A i \in 1 .. Len(p) : p[i] \in Node
  OBVIOUS
<1>. HIDE DEF r
<1>3. ASSUME NEW i \in 1 .. Len(r), NEW j \in 1 .. Len(r), i < j
      PROVE  distance_of[r[i]] < distance_of[r[j]]
  <2>1. j - 1 \in 1 .. Len(p) /\ r[j] = p[j - 1]
    <3>1. j - 1 \in 1 .. Len(p) /\ (j - 1) + 1 = j
      BY <1>1, <1>3
    <3>. QED
      BY <1>1, <3>1
  <2>2. CASE i = 1
    <3>1. j - 1 = 1 \/ distance_of[p[1]] < distance_of[p[j - 1]]
      BY <1>1, <2>1 DEF Climbs
    <3>. QED
      BY <1>1, <1>2, <2>1, <2>2, <3>1
  <2>3. CASE i # 1
    <3>1. i - 1 \in 1 .. Len(p) /\ (i - 1) + 1 = i /\ i - 1 < j - 1
      BY <1>1, <1>3, <2>3
    <3>2. r[i] = p[i - 1]
      BY <1>1, <3>1
    <3>. QED
      BY <2>1, <3>1, <3>2 DEF Climbs
  <2>. QED
    BY <2>2, <2>3
<1>4. Climbs(r)
  BY <1>3 DEF Climbs
<1>. QED
  BY <1>4 DEF r

\* A list without repetitions has at most as many members as there are nodes.
LEMMA NoRepeats ==
  ASSUME NEW n \in Nat, NEW f \in Injection(1 .. n, Node)
  PROVE  n <= NODE_CNT
<1>1. IsFiniteSet(Node) /\ Cardinality(Node) = NODE_CNT
  BY Indices, Counting
<1>2. Cardinality(1 .. n) <= Cardinality(Node)
  BY <1>1, FS_Injection
<1>3. Cardinality(1 .. n) = n
  BY FS_Interval
<1>. QED
  BY <1>1, <1>2, <1>3

\* Distances grow along a climb, so no node comes up twice.
LEMMA ClimbShort ==
  ASSUME NEW p \in Seq(Node), Climbs(p), \A v \in Node : distance_of[v] \in Int
  PROVE  Len(p) <= NODE_CNT
<1>. DEFINE f == [i \in 1 .. Len(p) |-> p[i]]
<1>1. Len(p) \in Nat /\ \A i \in 1 .. Len(p) : p[i] \in Node
  OBVIOUS
<1>2. f \in [1 .. Len(p) -> Node]
  BY <1>1
<1>3. ASSUME NEW i \in 1 .. Len(p), NEW j \in 1 .. Len(p), f[i] = f[j]
      PROVE  i = j
  BY <1>1, <1>2, <1>3 DEF Climbs
<1>. HIDE DEF f
<1>4. f \in Injection(1 .. Len(p), Node)
  BY <1>2, <1>3 DEF Injection, IsInjective
<1>. QED
  BY <1>1, <1>4, NoRepeats

\* min_path is called with an empty printout and descends tight roads.
LEMMA TrailStep ==
  ASSUME SysInv, SysInv', Trail, [SysNext]_sysVars
  PROVE  Trail'
<1>1. CASE pc' \notin {"min_path", "finished"}
  <2>1. path' = path \/ path' = <<>>
    BY <1>1 DEF SysNext, HostStep, Program, ClockStep, Reboot, AskStart, SetStart, AskDest,
       LowerClk, ZeroCount, LowerReset, RaiseReset, Poll, RaiseClk, ReadNeighbor,
       ReadDistance, SetCount, NextIndex, Descend, Arrive, At, locals, sysVars
  <2>2. pc' = "ask_start" \/ pc \notin {"min_path", "finished"} \/ path' = <<>>
    BY <1>1 DEF SysNext, HostStep, Program, ClockStep, Reboot, AskStart, SetStart, AskDest,
       LowerClk, ZeroCount, LowerReset, RaiseReset, Poll, RaiseClk, ReadNeighbor,
       ReadDistance, SetCount, NextIndex, Descend, Arrive, At, locals, sysVars
  <2>3. pc \in {"min_path", "finished"} => path' = <<>>
    BY <1>1 DEF SysNext, HostStep, Program, ClockStep, Reboot, AskStart, SetStart, AskDest,
       LowerClk, ZeroCount, LowerReset, RaiseReset, Poll, RaiseClk, ReadNeighbor,
       ReadDistance, SetCount, NextIndex, Descend, Arrive, At, locals, sysVars
  <2>. QED
    BY <1>1, <2>1, <2>3 DEF Trail
<1>2. CASE pc' = "min_path" /\ pc # "min_path"
  <2>1. path' = path /\ pc = "clk_fall"
    BY <1>2 DEF SysNext, HostStep, Program, ClockStep, Reboot, AskStart, SetStart, AskDest,
       LowerClk, ZeroCount, LowerReset, RaiseReset, Poll, RaiseClk, ReadNeighbor,
       ReadDistance, SetCount, NextIndex, Descend, Arrive, At, locals, sysVars
  <2>2. path' = <<>> /\ dest' \in Node
    BY <1>2, <2>1 DEF Trail, SysInv, SysTypeOK
  <2>3. Len(<<dest'>> \o path') = 1
    BY <2>2
  <2>. QED
    BY <1>2, <2>3 DEF Trail, TightChain, Climbs
<1>3. CASE pc = "min_path" /\ HostStep
  <2>1. Descend \/ Arrive
    BY <1>3 DEF HostStep, Program, AskStart, SetStart, AskDest, LowerClk, ZeroCount,
       LowerReset, RaiseReset, Poll, RaiseClk, ReadNeighbor, ReadDistance, SetCount,
       NextIndex, At
  <2>2. /\ graph' = graph /\ distance_of' = distance_of /\ source' = source
    BY <2>1 DEF Descend, Arrive, vars
  <2>3. /\ Hop \in Node /\ dest \in Node /\ path \in Seq(Node)
        /\ distance_of[dest] = distance_of[Hop] + graph[Hop][dest]
        /\ Hop # dest => distance_of[Hop] < distance_of[dest]
        /\ Hop = dest => dest = source
        /\ \A v \in Node : distance_of[v] \in Int
    BY <1>3, CertifiedNow DEF Hop
  <2>. DEFINE p == <<dest>> \o path
  <2>4. p \in Seq(Node) /\ Len(p) >= 1 /\ p[1] = dest /\ TightChain(p) /\ Climbs(p)
    BY <1>3, <2>3, Front DEF Trail
  <2>5. TightChain(<<Hop>> \o p)
    BY <2>3, <2>4, ChainFront
  <2>6. CASE Descend
    <3>1. Climbs(<<Hop>> \o p)
      BY <2>3, <2>4, <2>6, ClimbFront DEF Descend
    <3>2. dest' = Hop /\ path' = p /\ pc' = "min_path"
      BY <1>3, <2>6 DEF Descend
    <3>3. dest' # source'
      BY <2>2, <2>6, <3>2 DEF Descend
    <3>. QED
      BY <2>2, <2>5, <3>1, <3>2, <3>3 DEF Trail, TightChain, Climbs
  <2>7. CASE Arrive
    <3>1. pc' = "finished" /\ path' = <<source, dest>> \o path /\ Hop = source
      BY <2>7 DEF Arrive, At
    <3>2. <<source, dest>> \o path = <<Hop>> \o p
      <4>1. Hop \in Node /\ dest \in Node /\ path \in Seq(Node)
        BY <2>3
      <4>2. <<Hop, dest>> \o path = <<Hop>> \o (<<dest>> \o path)
        BY <4>1, FrontTwice
      <4>. QED
        BY <3>1, <4>2
    <3>3. path' = <<Hop>> \o p /\ path'[1] = Hop /\ Len(path') >= 2
          /\ Len(path') = Len(p) + 1
      BY <2>3, <2>4, <3>1, <3>2, Front
    <3>4. Len(path') <= NODE_CNT
      <4>1. CASE dest = source
        <5>1. path = <<>> /\ Len(p) = 1
          BY <1>3, <2>3, <4>1, Front DEF Trail
        <5>. QED
          BY <3>3, <5>1, NodeCntAssumption
      <4>2. CASE dest # source
        <5>1. Hop # dest
          BY <2>3, <4>2
        <5>2. Climbs(<<Hop>> \o p) /\ <<Hop>> \o p \in Seq(Node)
          BY <2>3, <2>4, <5>1, ClimbFront, Front
        <5>. QED
          BY <2>3, <3>3, <5>2, ClimbShort
      <4>. QED
        BY <4>1, <4>2
    <3>. QED
      BY <2>2, <2>5, <3>1, <3>3, <3>4 DEF Trail, TightChain
  <2>. QED
    BY <2>1, <2>6, <2>7
<1>4. CASE pc' = "min_path" /\ pc = "min_path" /\ ~HostStep
  <2>1. UNCHANGED <<source, dest, path, distance_of, graph>>
    BY <1>4 DEF SysNext, ClockStep, Posedge, Reboot, sysVars, locals, vars
  <2>. QED
    BY <1>4, <2>1 DEF Trail, TightChain, Climbs
<1>5. CASE pc' = "finished" /\ pc # "min_path"
  <2>1. pc = "finished" /\ UNCHANGED <<source, path, distance_of, graph>>
    BY <1>5 DEF SysNext, HostStep, Program, ClockStep, Posedge, Reboot, AskStart, SetStart,
       AskDest, LowerClk, ZeroCount, LowerReset, RaiseReset, Poll, RaiseClk, ReadNeighbor,
       ReadDistance, SetCount, NextIndex, Descend, Arrive, At, locals, vars, sysVars
  <2>. QED
    BY <1>5, <2>1 DEF Trail, TightChain
<1>6. pc' = "finished" /\ pc = "min_path" => HostStep
  BY DEF SysNext, ClockStep, Reboot, sysVars
<1>. QED
  BY <1>1, <1>2, <1>3, <1>4, <1>5, <1>6

LEMMA TrailInvariance == SysSpec => []Trail
<1>1. SysInit => Trail
  BY DEF SysInit, Trail
<1>2. SysInv /\ SysInv' /\ Trail /\ [SysNext]_sysVars => Trail'
  BY TrailStep
<1>. QED
  BY <1>1, <1>2, SysInvariance, PTL DEF SysSpec

(* min_path never calls itself NODE_CNT times: distances fall from call to *)
(* call, so no node comes up twice.                                        *)
THEOREM RecursionBoundedCorrect == SysSpec => []RecursionBounded
<1>1. ASSUME SysInv, Trail, pc = "min_path"
      PROVE  Len(path) < NODE_CNT
  <2>. DEFINE p == <<dest>> \o path
  <2>1. /\ p \in Seq(Node) /\ Len(p) = Len(path) + 1 /\ Len(path) \in Nat
        /\ Climbs(p) /\ \A v \in Node : distance_of[v] \in Int
    BY <1>1, CertifiedNow, Front DEF Trail
  <2>. HIDE DEF p
  <2>2. Len(p) <= NODE_CNT
    BY <2>1, ClimbShort
  <2>. QED
    BY <2>1, <2>2, Indices
<1>2. SysInv /\ Trail => RecursionBounded
  BY <1>1 DEF RecursionBounded
<1>. QED
  BY <1>2, SysInvariance, TrailInvariance, PTL

(* What is printed begins at the node the user named and follows roads     *)
(* that are tight for certified distances, so it is a shortest path.       *)
PrintsTightPath ==
  pc = "finished" => /\ path[1] = source /\ Len(path) >= 2 /\ TightChain(path)
                     /\ Certificate(graph, source, distance_of, neighbor_of)

(* The printed list is a chain of tight roads from the user's start node,  *)
(* whatever was searched, interrupted or printed before.                   *)
THEOREM PrintsTightPathCorrect == SysSpec => []PrintsTightPath
<1>1. SysInv /\ Trail => PrintsTightPath
  BY CertifiedAtPrint DEF PrintsTightPath, Trail
<1>. QED
  BY <1>1, SysInvariance, TrailInvariance, PTL

----------------------------------------------------------------------------
(* Induction over the naturals *)

\* Every set of naturals that is not empty has a least element.
LEMMA NatMin ==
  ASSUME NEW T \in SUBSET Nat, T # {}
  PROVE  \E m \in T : \A k \in T : m <= k
<1>. DEFINE Below == {p \in Nat \X Nat : p[1] < p[2]}
<1>1. IsWellFoundedOn(Below, Nat)
  BY NatLessThanWellFounded DEF OpToRel
<1>2. PICK m \in T : \A k \in T : ~(<<k, m>> \in Below)
  BY <1>1, WFMin
<1>3. ASSUME NEW k \in T
      PROVE  m <= k
  <2>1. k \in Nat /\ m \in Nat /\ ~(<<k, m>> \in Below)
    BY <1>2, <1>3
  <2>2. <<k, m>> \in Nat \X Nat /\ <<k, m>>[1] = k /\ <<k, m>>[2] = m
    BY <2>1
  <2>3. ~(k < m)
    BY <2>1, <2>2
  <2>. QED
    BY <2>1, <2>3
<1>. QED
  BY <1>3

\* A set that holds 0, and n + 1 with each n below m, holds all up to m.
LEMMA Induction ==
  ASSUME NEW m \in Nat, NEW T, 0 \in T,
         \A n \in Nat : n < m /\ n \in T => n + 1 \in T
  PROVE  \A n \in 0 .. m : n \in T
<1>. DEFINE Missing == {n \in 0 .. m : n \notin T}
<1>. SUFFICES ASSUME Missing # {}
              PROVE  FALSE
  OBVIOUS
<1>1. PICK n \in Missing : \A k \in Missing : n <= k
  <2>1. Missing \in SUBSET Nat
    OBVIOUS
  <2>. HIDE DEF Missing
  <2>. QED
    BY <2>1, NatMin
<1>2. n \in Nat /\ n # 0 /\ n <= m
  BY <1>1
<1>3. n - 1 \in Nat /\ n - 1 < m /\ (n - 1) + 1 = n /\ ~(n <= n - 1)
  BY <1>2
<1>4. n - 1 \in T
  BY <1>1, <1>3
<1>. QED
  BY <1>1, <1>3, <1>4

----------------------------------------------------------------------------
(* The Bellman-Ford recurrence *)

\* Labels names its least element, its tables and their recurrence in a LET;
\* here they are top-level definitions.
LeastOf(S) == CHOOSE x \in S : \A y \in S : x <= y

FirstTable(s)    == {<<v, IF v = s THEN 0 ELSE INF>> : v \in Node}
NextTable(g, T)  == {<<v, LeastOf({l[2] + g[l[1]][v] : l \in T})>> : v \in Node}
IsWithin(g, s, m, h) ==
  h = [k \in 0 .. m |-> IF k = 0 THEN FirstTable(s) ELSE NextTable(g, h[k - 1])]

LEMMA LeastIsLeast ==
  ASSUME NEW S \in SUBSET Nat, S # {}
  PROVE  LeastOf(S) \in S /\ \A y \in S : LeastOf(S) <= y
BY NatMin DEF LeastOf

\* The tables of the recurrence exist, however many are asked for.
LEMMA WithinExists ==
  ASSUME NEW g, NEW s, NEW m \in Nat
  PROVE  \E h : IsWithin(g, s, m, h)
<1>. DEFINE T == {n \in 0 .. m : \E h : IsWithin(g, s, n, h)}
<1>1. 0 \in T
  <2>. DEFINE h == [k \in 0 .. 0 |-> FirstTable(s)]
  <2>1. IsWithin(g, s, 0, h)
    BY DEF IsWithin
  <2>. QED
    BY <2>1
<1>2. ASSUME NEW n \in Nat, n < m, n \in T
      PROVE  n + 1 \in T
  <2>1. PICK h : IsWithin(g, s, n, h)
    BY <1>2
  <2>. DEFINE e == [k \in 0 .. n + 1 |-> IF k <= n THEN h[k] ELSE NextTable(g, h[n])]
  <2>2. ASSUME NEW k \in 0 .. n + 1
        PROVE  e[k] = IF k = 0 THEN FirstTable(s) ELSE NextTable(g, e[k - 1])
    <3>1. CASE k = 0
      BY <2>1, <3>1 DEF IsWithin
    <3>2. CASE k # 0 /\ k <= n
      <4>1. k \in 0 .. n /\ k - 1 \in 0 .. n
        BY <3>2
      <4>2. h[k] = NextTable(g, h[k - 1])
        BY <2>1, <3>2, <4>1 DEF IsWithin
      <4>. QED
        BY <3>2, <4>1, <4>2
    <3>3. CASE k = n + 1
      BY <3>3
    <3>. QED
      BY <2>2, <3>1, <3>2, <3>3
  <2>3. IsWithin(g, s, n + 1, e)
    BY <2>2 DEF IsWithin
  <2>. QED
    BY <1>2, <2>3
<1>3. \A n \in 0 .. m : n \in T
  <2>. HIDE DEF T
  <2>. QED
    BY <1>1, <1>2, Induction
<1>. QED
  BY <1>3

LEMMA LabelsWithin ==
  ASSUME NEW g, NEW s
  PROVE  \E h : IsWithin(g, s, NODE_CNT - 1, h) /\ Labels(g, s) = h[NODE_CNT - 1]
<1>1. Labels(g, s) = (CHOOSE h : IsWithin(g, s, NODE_CNT - 1, h))[NODE_CNT - 1]
  BY Zenon DEF Labels, IsWithin, FirstTable, NextTable, LeastOf
<1>2. NODE_CNT - 1 \in Nat
  BY NodeCntAssumption
<1>3. \E h : IsWithin(g, s, NODE_CNT - 1, h)
  BY <1>2, WithinExists
<1>4. IsWithin(g, s, NODE_CNT - 1, CHOOSE h : IsWithin(g, s, NODE_CNT - 1, h))
  BY <1>3
<1>. QED
  BY <1>1, <1>4

\* The table that gives every node v the distance D[v].
Pairs(D) == {<<v, D[v]>> : v \in Node}

\* One round of the recurrence, on distances instead of tables.
Shorten(g, D) == [v \in Node |-> LeastOf({D[u] + g[u][v] : u \in Node})]

LEMMA ShortenPairs ==
  ASSUME NEW g, NEW D
  PROVE  NextTable(g, Pairs(D)) = Pairs(Shorten(g, D))
<1>1. \A v \in Node : {l[2] + g[l[1]][v] : l \in Pairs(D)} = {D[u] + g[u][v] : u \in Node}
  <2>1. \A u \in Node : <<u, D[u]>>[1] = u /\ <<u, D[u]>>[2] = D[u]
    OBVIOUS
  <2>2. ASSUME NEW v \in Node
        PROVE  {l[2] + g[l[1]][v] : l \in Pairs(D)} = {D[u] + g[u][v] : u \in Node}
    <3>1. \A l \in Pairs(D) : \E u \in Node : l = <<u, D[u]>>
      BY DEF Pairs
    <3>2. \A u \in Node : <<u, D[u]>> \in Pairs(D)
      BY DEF Pairs
    <3>3. \A l \in Pairs(D) : l[2] + g[l[1]][v] \in {D[u] + g[u][v] : u \in Node}
      BY <2>1, <3>1
    <3>4. \A u \in Node : D[u] + g[u][v] \in {l[2] + g[l[1]][v] : l \in Pairs(D)}
      BY <2>1, <3>2
    <3>. QED
      BY <3>3, <3>4
  <2>. QED
    BY <2>2
<1>2. \A v \in Node : LeastOf({l[2] + g[l[1]][v] : l \in Pairs(D)}) = Shorten(g, D)[v]
  BY <1>1 DEF Shorten
<1>. QED
  BY <1>2 DEF NextTable, Pairs

\* Roads are naturals up to INF.
LEMMA WeightsTyped ==
  ASSUME NEW g \in Weights
  PROVE  \A u, v \in Node : g[u][v] \in Nat /\ g[u][v] <= INF
<1>1. ASSUME NEW u \in Node, NEW v \in Node
      PROVE  g[u][v] \in 0 .. INF
  BY DEF Weights
<1>2. INF \in Nat
  BY DEF INF
<1>. QED
  BY <1>1, <1>2

\* A round takes the least sum into each node.
LEMMA ShortenLeast ==
  ASSUME NEW g \in Weights, NEW D \in [Node -> Nat]
  PROVE  /\ Shorten(g, D) \in [Node -> Nat]
         /\ \A v \in Node : \E u \in Node : Shorten(g, D)[v] = D[u] + g[u][v]
         /\ \A u, v \in Node : Shorten(g, D)[v] <= D[u] + g[u][v]
<1>1. \A u, v \in Node : g[u][v] \in Nat
  BY WeightsTyped
<1>2. 0 \in Node
  BY NodeCntAssumption DEF Node
<1>3. ASSUME NEW v \in Node
      PROVE  /\ Shorten(g, D)[v] \in Nat
             /\ \E u \in Node : Shorten(g, D)[v] = D[u] + g[u][v]
             /\ \A u \in Node : Shorten(g, D)[v] <= D[u] + g[u][v]
  <2>. DEFINE S == {D[u] + g[u][v] : u \in Node}
  <2>1. S \in SUBSET Nat /\ S # {}
    BY <1>1, <1>2
  <2>2. LeastOf(S) \in S /\ \A y \in S : LeastOf(S) <= y
    <3>. HIDE DEF S
    <3>. QED
      BY <2>1, LeastIsLeast
  <2>3. Shorten(g, D)[v] = LeastOf(S)
    BY <1>3 DEF Shorten
  <2>. QED
    BY <2>1, <2>2, <2>3
<1>. QED
  BY <1>3 DEF Shorten

(* Distances no road shortens are Bellman-Ford's, at the end of a chain of *)
(* at most NODE_CNT nodes that reaches them from s.                        *)
LEMMA BellmanFord ==
  ASSUME NEW g, IsRoadMap(g), NEW s \in Node, NEW d \in [Node -> Nat], Feasible(g, s, d),
         NEW p \in Seq(Node), 1 <= Len(p), Len(p) <= NODE_CNT, p[1] = s,
         \A i \in 1 .. Len(p) - 1 : d[p[i + 1]] = d[p[i]] + g[p[i]][p[i + 1]]
  PROVE  <<p[Len(p)], d[p[Len(p)]]>> \in Labels(g, s)
<1>. DEFINE Good(D, k) ==
       /\ \A v \in Node : d[v] <= D[v]
       /\ \A i \in 1 .. Len(p) : i <= k + 1 => D[p[i]] = d[p[i]]
<1>0. NODE_CNT \in Nat /\ Len(p) \in Nat /\ \A i \in 1 .. Len(p) : p[i] \in Node
  BY NodeCntAssumption
<1>1. g \in Weights /\ (\A v \in Node : g[v][v] = 0)
      /\ (\A u, v \in Node : g[u][v] \in Nat /\ g[u][v] <= INF)
      /\ d[s] = 0 /\ (\A u, v \in Node : d[v] <= d[u] + g[u][v])
  BY WeightsTyped DEF IsRoadMap, ZeroDiagonal, Feasible
<1>2. PICK h : IsWithin(g, s, NODE_CNT - 1, h) /\ Labels(g, s) = h[NODE_CNT - 1]
  BY LabelsWithin
<1>. DEFINE T == {k \in 0 .. NODE_CNT - 1 :
                    \E D \in [Node -> Nat] : h[k] = Pairs(D) /\ Good(D, k)}
<1>3. 0 \in T
  <2>. DEFINE D == [v \in Node |-> IF v = s THEN 0 ELSE INF]
  <2>1. D \in [Node -> Nat]
    BY DEF INF
  <2>2. h[0] = Pairs(D)
    <3>1. 0 \in 0 .. NODE_CNT - 1
      BY NodeCntAssumption
    <3>2. h[0] = FirstTable(s)
      BY <1>2, <3>1 DEF IsWithin
    <3>. QED
      BY <3>2 DEF FirstTable, Pairs
  <2>3. ASSUME NEW v \in Node
        PROVE  d[v] <= D[v]
    <3>1. d[v] <= d[s] + g[s][v] /\ g[s][v] <= INF /\ g[s][v] \in Nat
      BY <1>1
    <3>2. d[v] \in Nat /\ INF \in Nat
      BY DEF INF
    <3>. QED
      BY <1>1, <3>1, <3>2
  <2>4. \A i \in 1 .. Len(p) : i <= 0 + 1 => D[p[i]] = d[p[i]]
    <3>1. \A i \in 1 .. Len(p) : i <= 0 + 1 => i = 1
      BY <1>0
    <3>. QED
      BY <1>1, <3>1
  <2>5. 0 \in 0 .. NODE_CNT - 1
    BY NodeCntAssumption
  <2>. QED
    BY <2>1, <2>2, <2>3, <2>4, <2>5
<1>4. ASSUME NEW k \in Nat, k < NODE_CNT - 1, k \in T
      PROVE  k + 1 \in T
  <2>1. PICK D \in [Node -> Nat] : h[k] = Pairs(D) /\ Good(D, k)
    BY <1>4
  <2>. DEFINE E == Shorten(g, D)
  <2>2. /\ E \in [Node -> Nat]
        /\ \A v \in Node : \E u \in Node : E[v] = D[u] + g[u][v]
        /\ \A u, v \in Node : E[v] <= D[u] + g[u][v]
    BY <1>1, ShortenLeast
  <2>. HIDE DEF E
  <2>3. h[k + 1] = Pairs(E)
    <3>1. k + 1 \in 0 .. NODE_CNT - 1 /\ k + 1 # 0 /\ (k + 1) - 1 = k
      BY <1>0, <1>4
    <3>2. h[k + 1] = NextTable(g, h[k])
      BY <1>2, <3>1 DEF IsWithin
    <3>. QED
      BY <2>1, <3>2, ShortenPairs DEF E
  <2>4. ASSUME NEW v \in Node
        PROVE  d[v] <= E[v]
    <3>1. PICK u \in Node : E[v] = D[u] + g[u][v]
      BY <2>2
    <3>2. d[u] <= D[u] /\ d[v] <= d[u] + g[u][v]
      BY <1>1, <2>1
    <3>3. d[u] \in Nat /\ d[v] \in Nat /\ D[u] \in Nat /\ g[u][v] \in Nat /\ E[v] \in Nat
      BY <1>1, <2>2
    <3>4. \A a, b, x, w \in Nat : a <= b /\ x <= a + w => x <= b + w
      OBVIOUS
    <3>. QED
      BY <3>1, <3>2, <3>3, <3>4
  <2>5. ASSUME NEW i \in 1 .. Len(p), i <= k + 2
        PROVE  E[p[i]] = d[p[i]]
    <3>1. p[i] \in Node /\ d[p[i]] <= E[p[i]] /\ d[p[i]] \in Nat /\ E[p[i]] \in Nat
      BY <1>0, <2>2, <2>4
    <3>2. CASE i <= k + 1
      <4>1. E[p[i]] <= D[p[i]] + g[p[i]][p[i]] /\ g[p[i]][p[i]] = 0
        BY <1>1, <2>2, <3>1
      <4>2. D[p[i]] = d[p[i]] /\ D[p[i]] \in Nat
        BY <2>1, <3>1, <3>2
      <4>. QED
        BY <3>1, <4>1, <4>2
    <3>3. CASE i = k + 2
      <4>1. i - 1 \in 1 .. Len(p) /\ i - 1 \in 1 .. Len(p) - 1
            /\ i - 1 <= k + 1 /\ (i - 1) + 1 = i
        BY <1>0, <2>5, <3>3
      <4>2. p[i - 1] \in Node /\ D[p[i - 1]] = d[p[i - 1]]
        BY <1>0, <2>1, <4>1
      <4>3. d[p[i]] = d[p[i - 1]] + g[p[i - 1]][p[i]]
        BY <4>1
      <4>4. E[p[i]] <= D[p[i - 1]] + g[p[i - 1]][p[i]]
        BY <2>2, <3>1, <4>2
      <4>5. E[p[i]] <= d[p[i]]
        BY <4>2, <4>3, <4>4
      <4>. QED
        BY <3>1, <4>5
    <3>. QED
      BY <1>4, <2>5, <3>2, <3>3
  <2>6. Good(E, k + 1)
    <3>1. (k + 1) + 1 = k + 2
      BY <1>4
    <3>. QED
      BY <2>4, <2>5, <3>1
  <2>7. k + 1 \in 0 .. NODE_CNT - 1
    BY <1>0, <1>4
  <2>. QED
    BY <2>2, <2>3, <2>6, <2>7
<1>5. NODE_CNT - 1 \in Nat /\ NODE_CNT - 1 \in 0 .. NODE_CNT - 1
  BY NodeCntAssumption
<1>6. NODE_CNT - 1 \in T
  <2>. HIDE DEF T
  <2>. QED
    BY <1>3, <1>4, <1>5, Induction
<1>7. PICK D \in [Node -> Nat] : h[NODE_CNT - 1] = Pairs(D) /\ Good(D, NODE_CNT - 1)
  BY <1>6
<1>8. Len(p) \in 1 .. Len(p) /\ Len(p) <= (NODE_CNT - 1) + 1
  BY <1>0
<1>9. D[p[Len(p)]] = d[p[Len(p)]] /\ p[Len(p)] \in Node
  BY <1>0, <1>7, <1>8
<1>. QED
  BY <1>2, <1>7, <1>9 DEF Pairs

----------------------------------------------------------------------------
(* The length of what is printed *)

\* PrintsShortestPath adds up the roads of the path in a LET; here it is a
\* top-level definition.
IsOdometer(h) ==
  h = [k \in 1 .. Len(path) |->
         IF k = 1 THEN 0 ELSE h[k - 1] + graph[path[k - 1]][path[k]]]

\* Along a tight chain from the start the roads add up to the distances.
LEMMA OdometerReads ==
  ASSUME SysInv, Trail, pc = "finished", NEW h, IsOdometer(h)
  PROVE  h[Len(path)] = distance_of[path[Len(path)]]
<1>1. /\ Len(path) \in Nat /\ Len(path) >= 2
      /\ path[1] = source /\ TightChain(path)
      /\ \A i \in 1 .. Len(path) : path[i] \in Node
      /\ distance_of[source] = 0
  BY CertifiedNow DEF Trail
<1>. DEFINE T == {n \in Nat : n < Len(path) => h[n + 1] = distance_of[path[n + 1]]}
<1>2. 0 \in T
  BY <1>1 DEF IsOdometer
<1>3. ASSUME NEW n \in Nat, n < Len(path) - 1, n \in T
      PROVE  n + 1 \in T
  <2>1. n + 1 \in 1 .. Len(path) - 1 /\ (n + 1) + 1 \in 1 .. Len(path)
        /\ (n + 1) + 1 # 1 /\ ((n + 1) + 1) - 1 = n + 1 /\ n < Len(path)
    BY <1>1, <1>3
  <2>2. h[(n + 1) + 1] = h[n + 1] + graph[path[n + 1]][path[(n + 1) + 1]]
    BY <2>1 DEF IsOdometer
  <2>3. distance_of[path[(n + 1) + 1]]
          = distance_of[path[n + 1]] + graph[path[n + 1]][path[(n + 1) + 1]]
    BY <1>1, <2>1 DEF TightChain
  <2>4. h[n + 1] = distance_of[path[n + 1]]
    BY <1>3, <2>1
  <2>. QED
    BY <2>2, <2>3, <2>4
<1>4. Len(path) - 1 \in Nat /\ Len(path) - 1 \in 0 .. Len(path) - 1
      /\ (Len(path) - 1) + 1 = Len(path) /\ Len(path) - 1 < Len(path)
  BY <1>1
<1>5. Len(path) - 1 \in T
  <2>. HIDE DEF T
  <2>. QED
    BY <1>2, <1>3, <1>4, Induction
<1>. QED
  BY <1>4, <1>5

\* There is such a sum: the distances themselves.
LEMMA OdometerExists ==
  ASSUME SysInv, Trail, pc = "finished"
  PROVE  \E h : IsOdometer(h)
<1>. DEFINE h == [k \in 1 .. Len(path) |-> distance_of[path[k]]]
<1>1. /\ Len(path) \in Nat /\ Len(path) >= 2
      /\ path[1] = source /\ TightChain(path)
      /\ distance_of[source] = 0
  BY CertifiedNow DEF Trail
<1>2. ASSUME NEW k \in 1 .. Len(path)
      PROVE  h[k] = IF k = 1 THEN 0 ELSE h[k - 1] + graph[path[k - 1]][path[k]]
  <2>1. CASE k = 1
    BY <1>1, <2>1
  <2>2. CASE k # 1
    <3>1. k - 1 \in 1 .. Len(path) - 1 /\ (k - 1) + 1 = k /\ k - 1 \in 1 .. Len(path)
      BY <1>1, <2>2
    <3>2. distance_of[path[k]] = distance_of[path[k - 1]] + graph[path[k - 1]][path[k]]
      BY <1>1, <3>1 DEF TightChain
    <3>. QED
      BY <2>2, <3>1, <3>2
  <2>. QED
    BY <2>1, <2>2
<1>3. IsOdometer(h)
  BY <1>2 DEF IsOdometer
<1>. QED
  BY <1>3

(* What is printed is a path from the node the user named, its roads add   *)
(* up to the distance the program read, and that is the least by the       *)
(* Bellman-Ford recurrence: for every map, NODE_CNT and reset.             *)
THEOREM PrintsShortestPathCorrect == SysSpec => []PrintsShortestPath
<1>1. ASSUME SysInv, Trail, pc = "finished"
      PROVE  PrintsShortestPath
  <2>. DEFINE n == Len(path)
              length == CHOOSE h : IsOdometer(h)
  <2>1. path[1] = source /\ n >= 2 /\ n <= NODE_CNT /\ n \in Nat /\ TightChain(path)
    BY <1>1, CertifiedNow DEF Trail
  <2>2. length[n] = distance_of[path[n]]
    <3>1. IsOdometer(length)
      BY <1>1, OdometerExists
    <3>. HIDE DEF length
    <3>. QED
      BY <1>1, <3>1, OdometerReads
  <2>3. <<path[n], distance_of[path[n]]>> \in Labels(graph, source)
    <3>1. IsRoadMap(graph) /\ Feasible(graph, source, distance_of) /\ source \in Node
          /\ path \in Seq(Node)
      BY <1>1, CertifiedAtPrint, CertifiedNow, MapsAssumption
         DEF Certificate, SysInv, IInv, PipelineInv
    <3>2. distance_of \in [Node -> Nat]
      BY <1>1, Words DEF SysInv, SysTypeOK, Row
    <3>3. \A i \in 1 .. n - 1 :
            distance_of[path[i + 1]] = distance_of[path[i]] + graph[path[i]][path[i + 1]]
      BY <2>1 DEF TightChain
    <3>4. 1 <= n
      BY <2>1
    <3>. QED
      BY <2>1, <3>1, <3>2, <3>3, <3>4, BellmanFord
  <2>4. PrintsShortestPath <=>
          (pc = "finished" => /\ path[1] = source
                              /\ length[n] = distance_of[path[n]]
                              /\ <<path[n], length[n]>> \in Labels(graph, source))
    BY Zenon DEF PrintsShortestPath, IsOdometer
  <2>. QED
    BY <2>1, <2>2, <2>3, <2>4
<1>2. SysInv /\ Trail => PrintsShortestPath
  <2>1. pc # "finished" => PrintsShortestPath
    BY Zenon DEF PrintsShortestPath
  <2>. QED
    BY <1>1, <2>1
<1>. QED
  BY <1>2, SysInvariance, TrailInvariance, PTL
=============================================================================
