-------------------------- MODULE GreedyRefinement --------------------------
(***************************************************************************)
(* DijkstraCore implements GreedySearch.  A node is expanded when its      *)
(* relaxation reaches the registers, which for the last one is a clock     *)
(* after state 7 shows; until distances are loaded, and from the moment    *)
(* start changes or a reset lands, there is no search.                     *)
(***************************************************************************)
EXTENDS DijkstraCore

Greedy == INSTANCE GreedySearch WITH
  phase   <- IF ~Loaded THEN "idle"
             ELSE IF state = done /\ ~Pending THEN "done" ELSE "search",
  source  <- IF Loaded THEN start ELSE 0,
  dist    <- IF Loaded THEN distance ELSE [i \in Node |-> 0],
  pred    <- IF Loaded THEN neighbor ELSE [i \in Node |-> 0],
  settled <- IF Loaded THEN Expanded ELSE {}

(* Every behaviour of the circuit, host writes at any moment included, is  *)
(* one of the greedy search on the same map, its fairness included.        *)
ImplementsGreedySearch == Greedy!Spec
=============================================================================
