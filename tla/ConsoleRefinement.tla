-------------------------- MODULE ConsoleRefinement --------------------------
(***************************************************************************)
(* JtagUart implements ConsoleQueues.  What a call has found and concluded *)
(* is in its place and in the offsets it loaded: while it waits, the other *)
(* end of the ring is where it was, and it differs from the place loaded   *)
(* as soon as a byte has moved.                                            *)
(***************************************************************************)
EXTENDS JtagUart

Outq == Ring(tx_buf, tx_out, tx_in)
Inq == Ring(rx_buf, rx_out, rx_in)

Op == IF pc \in {"write", "copy", "publish", "kick", "write_wait", "write_test"} THEN "write"
      ELSE IF pc = "idle" THEN "none" ELSE IF pc = "close" THEN "close" ELSE "read"

(* The call found its buffer full or empty and returns what it has; or it  *)
(* waits; or it is about to see whether the host or the time-out ended     *)
(* the wait.                                                               *)
Short == call.left > 0 /\ (pc = "rearm" \/ (pc = "kick" /\ call.nonblock))
Waits == pc \in {"write_wait", "read_wait"} \/ (pc = "kick" /\ call.left > 0 /\ ~call.nonblock)
Tests == pc \in {"write_test", "read_test"}
Unmoved == IF Op = "write" THEN out = tx_out ELSE in = rx_in

Phase == IF Short THEN "short"
         ELSE IF Waits /\ Unmoved THEN "waiting"
         ELSE IF Tests /\ Unmoved THEN "hopeless" ELSE "working"

Silent == ~Active

Queues == INSTANCE ConsoleQueues WITH
    Capacity <- BufLen - 1,
    outq <- Outq, wireOut <- wfifo, inq <- Inq, wireIn <- rfifo,
    op <- Op, left <- call.left, done <- call.done, nonblock <- call.nonblock,
    phase <- Phase, silent <- Silent

(* Calls that race with the interrupt routine, with bytes at any place of  *)
(* the rings and offsets loaded before the last interrupts, behave as on   *)
(* two plain queues: no call comes back short without having found its     *)
(* buffer full or empty, and a blocking one only when the host was silent  *)
(* and no byte has moved since.                                            *)
ImplementsQueues == Queues!Spec
=============================================================================
