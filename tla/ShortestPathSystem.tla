------------------------- MODULE ShortestPathSystem -------------------------
(***************************************************************************)
(* The whole search: the C program's shortestPathFind and min_path, the    *)
(* registers of VGA_NIOS_CTRL they go through, and the core.               *)
(*                                                                         *)
(* The register file works on falling edges and the core on rising edges   *)
(* of the same clock, so between two bus accesses there is at least one    *)
(* Posedge; the processor may let any number of them pass.  A reset of the *)
(* processor restarts the program and spares the core and its registers:   *)
(* the reset branch of the register file does not mention them.            *)
(***************************************************************************)
EXTENDS DijkstraCore, Sequences

CONSTANTS
  Inputs,    \* numbers the user may type
  MaxBoots   \* bound on the number of processor resets

ASSUME InputsAssumption == Inputs \subseteq Int /\ Inputs \cap Node \subseteq Starts
ASSUME MaxBootsAssumption == MaxBoots \in Nat

VARIABLES
  busUsed,                     \* a bus access since the last rising edge
  clk_NIOS, trans_count,       \* registers (start and reset are the core's)
  neighbor_out, distance_out,  \* latched by a rising edge of clk_NIOS
  pc, source, dest, index,     \* start, dest and trans_count of the program
  neighbor_of, distance_of,    \* its arrays neighbor and distance
  path,                        \* what min_path and its caller have printed
  boots

registers == <<clk_NIOS, trans_count, neighbor_out, distance_out>>
locals    == <<source, dest, index, neighbor_of, distance_of, path>>
sysVars   == <<vars, busUsed, registers, pc, locals, boots>>

Zeroes == [i \in Node |-> 0]

SysInit ==
  /\ Init
  /\ pc = "ask_start" /\ source = -1 /\ dest = -1 /\ index = 0
  /\ neighbor_of = Zeroes /\ distance_of = Zeroes /\ path = <<>>
  /\ busUsed = FALSE /\ boots = 0
  /\ clk_NIOS = 0 /\ trans_count = 0 /\ neighbor_out = 0 /\ distance_out = 0

----------------------------------------------------------------------------
(* The steps of shortestPathFind, each at a falling edge of the clock.     *)

At(here, next) == pc = here /\ pc' = next

InRange(n) == n \in Node

AskStart ==
  /\ pc = "ask_start"
  /\ source' \in Inputs
  /\ pc' = IF InRange(source') THEN "set_start" ELSE "ask_start"
  /\ UNCHANGED <<vars, registers, dest, index, neighbor_of, distance_of, path>>

\* Mutant: one bus write reaches two registers.
SetStart_AndReset ==
  /\ At("set_start", "ask_dest")
  /\ start' = source /\ reset' = 0 /\ startHeld' = (startHeld /\ source = start)
  /\ UNCHANGED <<graph, control, ram, arrays, search, registers, locals>>

SetStart ==
  /\ At("set_start", "ask_dest") /\ WriteStart(source)
  /\ UNCHANGED <<registers, locals>>

AskDest ==
  /\ pc = "ask_dest"
  /\ dest' \in Inputs
  /\ pc' = IF InRange(dest') THEN "clk_low" ELSE "ask_dest"
  /\ UNCHANGED <<vars, registers, source, index, neighbor_of, distance_of, path>>

\* Writing 0 makes no rising edge, whatever the register held.
LowerClk(here, next) ==
  /\ At(here, next) /\ clk_NIOS' = 0
  /\ UNCHANGED <<vars, trans_count, neighbor_out, distance_out, locals>>

ZeroCount ==
  /\ At("zero_count", "reset_low") /\ trans_count' = 0
  /\ UNCHANGED <<vars, clk_NIOS, neighbor_out, distance_out, locals>>

\* Mutant: the core is not reset before a search.
LowerReset_Skipped == At("reset_low", "reset_high") /\ UNCHANGED <<vars, registers, locals>>

LowerReset ==
  /\ At("reset_low", "reset_high") /\ WriteReset(0)
  /\ UNCHANGED <<registers, locals>>

\* Mutant: the core is left in reset.
RaiseReset_Skipped == At("reset_high", "poll") /\ UNCHANGED <<vars, registers, locals>>

RaiseReset ==
  /\ At("reset_high", "poll") /\ WriteReset(1)
  /\ UNCHANGED <<registers, locals>>

\* Mutant: the program waits for the last rounds only.
Poll_Early ==
  /\ pc = "poll" /\ pc' = IF state >= upd_minc THEN "clk_high" ELSE "poll"
  /\ index' = IF state >= upd_minc THEN 0 ELSE index
  /\ UNCHANGED <<vars, registers, source, dest, neighbor_of, distance_of, path>>

Poll ==
  /\ pc = "poll"
  /\ pc' = IF state = done THEN "clk_high" ELSE "poll"
  /\ index' = IF state = done THEN 0 ELSE index
  /\ UNCHANGED <<vars, registers, source, dest, neighbor_of, distance_of, path>>

\* An index outside the arrays selects some element.
Selected == IF trans_count \in Node THEN {trans_count} ELSE Node

RaiseClk ==
  /\ At("clk_high", "read_neighbor")
  /\ clk_NIOS' = 1
  /\ IF clk_NIOS = 0
     THEN \E i \in Selected :
            neighbor_out' = neighbor[i] /\ distance_out' = distance[i]
     ELSE UNCHANGED <<neighbor_out, distance_out>>
  /\ UNCHANGED <<vars, trans_count, locals>>

ReadNeighbor ==
  /\ At("read_neighbor", "read_distance")
  /\ neighbor_of' = [neighbor_of EXCEPT ![index] = neighbor_out]
  /\ UNCHANGED <<vars, registers, source, dest, index, distance_of, path>>

ReadDistance ==
  /\ At("read_distance", "set_count")
  /\ distance_of' = [distance_of EXCEPT ![index] = distance_out]
  /\ index' = index + 1
  /\ UNCHANGED <<vars, registers, source, dest, neighbor_of, path>>

\* Mutant: trans_count is written before it is incremented.
SetCount_Stale ==
  /\ At("set_count", "clk_fall") /\ trans_count' = index - 1
  /\ UNCHANGED <<vars, clk_NIOS, neighbor_out, distance_out, locals>>

SetCount ==
  /\ At("set_count", "clk_fall") /\ trans_count' = index
  /\ UNCHANGED <<vars, clk_NIOS, neighbor_out, distance_out, locals>>

\* The last write of the loop body, and the loop test after it.
NextIndex ==
  LowerClk("clk_fall", IF index < NODE_CNT THEN "clk_high" ELSE "min_path")

(* min_path(start, dest): the calls descend to the start node; the nodes   *)
(* are printed on the way back, and the caller prints dest at the end.     *)
(* The printed list is therefore built back to front.                      *)
Hop == neighbor_of[dest]

\* Mutant: the recursive call is made with the same node.
Descend_SameNode ==
  /\ pc = "min_path" /\ Hop # source
  /\ path' = <<dest>> \o path
  /\ UNCHANGED <<pc, vars, registers, source, dest, index, neighbor_of, distance_of>>

Descend ==
  /\ pc = "min_path" /\ Hop # source
  /\ dest' = Hop /\ path' = <<dest>> \o path
  /\ UNCHANGED <<pc, vars, registers, source, index, neighbor_of, distance_of>>

Arrive ==
  /\ At("min_path", "finished") /\ Hop = source
  /\ path' = <<source, dest>> \o path
  /\ UNCHANGED <<vars, registers, source, dest, index, neighbor_of, distance_of>>

Program ==
  \/ AskStart \/ SetStart \/ AskDest \/ LowerClk("clk_low", "zero_count")
  \/ ZeroCount \/ LowerReset \/ RaiseReset \/ Poll \/ RaiseClk
  \/ ReadNeighbor \/ ReadDistance \/ SetCount \/ NextIndex
  \/ Descend \/ Arrive

HostStep ==
  /\ ~busUsed /\ Program
  /\ busUsed' = TRUE
  /\ UNCHANGED boots

ClockStep ==
  /\ Posedge
  /\ busUsed' = FALSE
  /\ UNCHANGED <<registers, pc, locals, boots>>

Reboot ==
  /\ boots < MaxBoots /\ boots' = boots + 1
  /\ pc' = "ask_start" /\ source' = -1 /\ dest' = -1 /\ index' = 0
  /\ neighbor_of' = Zeroes /\ distance_of' = Zeroes /\ path' = <<>>
  /\ UNCHANGED <<vars, busUsed, registers>>

SysNext == HostStep \/ ClockStep \/ Reboot

\* The clock runs, and the processor keeps executing; nobody needs to reset it.
SysSpec == SysInit /\ [][SysNext]_sysVars /\ WF_sysVars(ClockStep) /\ WF_sysVars(HostStep)

----------------------------------------------------------------------------
(* Properties *)

Pcs == {"ask_start", "set_start", "ask_dest", "clk_low", "zero_count",
        "reset_low", "reset_high", "poll", "clk_high", "read_neighbor",
        "read_distance", "set_count", "clk_fall", "min_path", "finished"}

\* Registers and program variables hold values of their types; the node
\* indices the program passes on are in range from the moment it does so.
SysTypeOK ==
  /\ busUsed \in BOOLEAN /\ boots \in 0 .. MaxBoots /\ pc \in Pcs
  /\ clk_NIOS \in {0, 1} /\ trans_count \in 0 .. NODE_CNT
  /\ neighbor_out \in Node /\ distance_out \in Word
  /\ source \in Inputs \cup {-1} /\ (pc # "ask_start" => source \in Node)
  /\ dest \in Inputs \cup {-1} \cup Node
  /\ (pc \notin {"ask_start", "set_start", "ask_dest"} => dest \in Node)
  /\ index \in 0 .. NODE_CNT
  /\ neighbor_of \in [Node -> Node] /\ distance_of \in Row
  /\ path \in Seq(Node)

(* State 7 as the program polls it always belongs to the search it has     *)
(* just started, never to an earlier one, also when the processor was      *)
(* reset while the core was at work.                                       *)
NoStaleDone == pc = "poll" /\ state = done => Loaded /\ start = source

\* The program counters between the end of polling and the end of printing.
Reading == {"clk_high", "read_neighbor", "read_distance", "set_count", "clk_fall"}

(* The two arrays of the program agree with the core's registers on every  *)
(* index read so far: no clk_NIOS edge is missed and none comes before     *)
(* trans_count is set, although the core's pipeline is still draining.     *)
CopiesCore ==
  pc \in Reading \cup {"min_path", "finished"} =>
    \A i \in 0 .. index - 1 :
      neighbor_of[i] = neighbor[i] /\ distance_of[i] = distance[i]

(* What is printed is a path of the map from the node the user named, its  *)
(* roads add up to the distance the program read for its last node, and    *)
(* that is the shortest distance by the Bellman-Ford recurrence.           *)
PrintsShortestPath ==
  pc = "finished" =>
    LET n == Len(path)
        length[k \in 1 .. n] ==
          IF k = 1 THEN 0 ELSE length[k - 1] + graph[path[k - 1]][path[k]]
    IN  /\ path[1] = source
        /\ length[n] = distance_of[path[n]]
        /\ <<path[n], length[n]>> \in Labels(graph, source)

(* min_path calls itself less than NODE_CNT times, whatever the stack and  *)
(* the neighbour array held before.                                        *)
RecursionBounded == pc = "min_path" => Len(path) < NODE_CNT

(* Once both nodes are named the path is printed, unless the processor is  *)
(* reset meanwhile.                                                        *)
PathIsPrinted == (pc = "clk_low") ~> (pc = "finished" \/ pc = "ask_start")

(* The program uses the core as the core's own specification allows.       *)
UsesCore == Spec
=============================================================================
