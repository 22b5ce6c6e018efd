---------------------------- MODULE ConsoleQueues ----------------------------
(***************************************************************************)
(* What the console promises its two sides, without offsets, interrupts    *)
(* and the places of a program: two buffers between the program and the    *)
(* FIFOs of the device, and when a call may come back with less than it    *)
(* was asked for.                                                          *)
(***************************************************************************)
EXTENDS Integers, Sequences

CONSTANTS
    Capacity,         \* of each buffer
    ReadDepth, WriteDepth,    \* of the FIFOs of the device
    MaxRequest        \* bytes of one call

VARIABLES
    outq, wireOut, hostGot,   \* bytes to the host: in the buffer, in the FIFO, taken
    wireIn, inq, got,         \* bytes from the host: in the FIFO, in the buffer, returned
    written, sent,            \* how many the program and the host have put in
    op, left, done, nonblock, \* the call in progress, "none" between two
    phase,            \* "working", or what it does about a buffer it found full or empty
    silent            \* nothing has been seen of the host for the time-out

bytes == <<outq, wireOut, hostGot, wireIn, inq, got, written, sent>>
call == <<op, left, done, nonblock, phase>>
vars == <<bytes, call, silent>>

Init ==
    /\ outq = <<>> /\ wireOut = <<>> /\ hostGot = <<>>
    /\ wireIn = <<>> /\ inq = <<>> /\ got = <<>>
    /\ written = 0 /\ sent = 0
    /\ op = "none" /\ left = 0 /\ done = 0 /\ nonblock = FALSE /\ phase = "working"
    /\ silent = FALSE

-----------------------------------------------------------------------------
(* The calls of the program. *)

Begin(what, k) ==
    /\ op = "none"
    /\ op' = what /\ left' = k /\ done' = 0 /\ nonblock' \in BOOLEAN
    /\ UNCHANGED <<bytes, phase, silent>>

Write == \E k \in 1 .. MaxRequest : Begin("write", k)
Read == \E k \in 1 .. MaxRequest : Begin("read", k)
Close == Begin("close", 0)

(* A write puts its next m bytes behind those of the buffer, all at once. *)
Accept(m) ==
    /\ op = "write" /\ phase = "working"
    /\ m <= left /\ Len(outq) + m <= Capacity
    /\ outq' = outq \o [i \in 1 .. m |-> written + i]
    /\ written' = written + m /\ left' = left - m /\ done' = done + m
    /\ UNCHANGED <<wireOut, hostGot, wireIn, inq, got, sent, op, nonblock, phase, silent>>

(* A read takes the first m bytes of the buffer. *)
Deliver(m) ==
    /\ op = "read" /\ phase = "working"
    /\ m <= left /\ m <= Len(inq)
    /\ got' = got \o SubSeq(inq, 1, m) /\ inq' = SubSeq(inq, m + 1, Len(inq))
    /\ left' = left - m /\ done' = done + m
    /\ UNCHANGED <<outq, wireOut, hostGot, wireIn, written, sent, op, nonblock, phase, silent>>

(* More is asked for, and there is no room at all, or no byte at all. *)
Stuck == \/ op = "write" /\ left > 0 /\ Len(outq) = Capacity
         \/ op = "read" /\ left > 0 /\ inq = <<>>

(* A read that has some bytes does not wait for the others. *)
MayBeShort == nonblock \/ (op = "read" /\ done > 0)

Block ==
    /\ phase = "working" /\ Stuck
    /\ phase' = IF MayBeShort THEN "short" ELSE "waiting"
    /\ UNCHANGED <<bytes, op, left, done, nonblock, silent>>

GiveUp ==
    /\ phase = "waiting" /\ silent
    /\ phase' = "hopeless"
    /\ UNCHANGED <<bytes, op, left, done, nonblock, silent>>

(* A call comes back complete, or short because its buffer was full or     *)
(* empty when it last looked; if it had to wait then, the host was silent  *)
(* and not a byte has moved since.  A close waits for the buffer to drain. *)
Return ==
    /\ \/ op \in {"write", "read"} /\ (left = 0 \/ phase \in {"short", "hopeless"})
       \/ Stuck /\ MayBeShort
       \/ op = "close" /\ (outq = <<>> \/ silent \/ nonblock)
    /\ op' = "none" /\ left' = 0 /\ done' = 0 /\ nonblock' = FALSE /\ phase' = "working"
    /\ UNCHANGED <<bytes, silent>>

-----------------------------------------------------------------------------
(* The bytes on their way, and the host. *)

(* A byte that moves wakes the call that waits for it, even one that has given up. *)
Woken(what) == IF op = what /\ phase \in {"waiting", "hopeless"} THEN "working" ELSE phase

Transmit ==
    /\ outq # <<>> /\ Len(wireOut) < WriteDepth
    /\ wireOut' = Append(wireOut, Head(outq)) /\ outq' = Tail(outq)
    /\ phase' = Woken("write")
    /\ UNCHANGED <<hostGot, wireIn, inq, got, written, sent, op, left, done, nonblock, silent>>

Receive ==
    /\ wireIn # <<>> /\ Len(inq) < Capacity
    /\ inq' = Append(inq, Head(wireIn)) /\ wireIn' = Tail(wireIn)
    /\ phase' = Woken("read")
    /\ UNCHANGED <<outq, wireOut, hostGot, got, written, sent, op, left, done, nonblock, silent>>

HostSend ==
    /\ Len(wireIn) < ReadDepth
    /\ sent' = sent + 1 /\ wireIn' = Append(wireIn, sent + 1)
    /\ UNCHANGED <<outq, wireOut, hostGot, inq, got, written, call, silent>>

HostTake ==
    /\ wireOut # <<>>
    /\ hostGot' = Append(hostGot, Head(wireOut)) /\ wireOut' = Tail(wireOut)
    /\ UNCHANGED <<outq, wireIn, inq, got, written, sent, call, silent>>

(* When the host counts as silent is the alarm's affair. *)
Silence == silent' = ~silent /\ UNCHANGED <<bytes, call>>

Next ==
    \/ Write \/ Read \/ Close
    \/ \E m \in 1 .. MaxRequest : Accept(m) \/ Deliver(m)
    \/ Block \/ GiveUp \/ Return
    \/ Transmit \/ Receive \/ HostSend \/ HostTake \/ Silence

Spec == Init /\ [][Next]_vars
=============================================================================
