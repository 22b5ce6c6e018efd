------------------------------ MODULE JtagUart ------------------------------
(***************************************************************************)
(* The console: the interrupt-driven driver of the JTAG UART behind        *)
(* printf and scanf.  One program thread calls read, write and close; the  *)
(* interrupt routine moves bytes between the two rings of the driver and   *)
(* the two FIFOs of the device; an alarm watches for the host.  The thread *)
(* takes no lock: an interrupt may come between any two of its steps.  The *)
(* routine itself is interrupted by nobody, but the host reads and fills   *)
(* the FIFOs between two of its register accesses.                         *)
(*                                                                         *)
(* Bytes are numbered in the order the program writes them, and in the     *)
(* order the host sends them.                                              *)
(***************************************************************************)
EXTENDS Integers, Sequences

CONSTANTS
    BufLen,           \* ALTERA_AVALON_JTAG_UART_BUF_LEN (2048)
    ReadDepth, WriteDepth,           \* of the FIFOs of the device (64)
    ReadThreshold, WriteThreshold,   \* of their interrupts (8)
    Timeout,          \* seconds without a sign of the host (10)
    MaxRequest,       \* bound: bytes of one call
    MaxBytes,         \* bound: bytes of both directions together
    MaxPlugs          \* bound: times the host comes or goes

ASSUME ConstantsAssumption ==
    /\ BufLen \in Nat /\ BufLen > 1
    /\ ReadDepth \in Nat \ {0} /\ WriteDepth \in Nat \ {0}
    /\ ReadThreshold \in Nat /\ ReadThreshold < ReadDepth
    /\ WriteThreshold \in Nat /\ WriteThreshold < WriteDepth
    /\ Timeout \in Nat \ {0} /\ MaxRequest \in Nat \ {0}
    /\ MaxBytes \in Nat /\ MaxPlugs \in Nat

VARIABLES
    rx_in, rx_out, rx_buf, tx_in, tx_out, tx_buf,     \* the rings
    irq_enable,       \* the interrupts enabled, a subset of {"RE", "WE"}
    host_inactive,    \* seconds, counted up to Timeout
    isr, control, data,     \* the interrupt routine: its place and its locals
    pc, call, in, out, n,   \* the program thread: its place, call and locals
    chunk,            \* what memcpy put into the caller's buffer
    rfifo, wfifo, pause_irq, ac,    \* the device
    connected, plugs, \* the host
    written, sent, got, hostGot     \* history: bytes put in and taken out

ring == <<rx_in, rx_out, rx_buf, tx_in, tx_out, tx_buf>>
routine == <<isr, control, data>>
thread == <<pc, call, in, out, n, chunk>>
device == <<rfifo, wfifo, pause_irq, ac>>
host == <<connected, plugs, sent, hostGot>>
vars == <<ring, irq_enable, host_inactive, routine, thread, device, host, written, got>>

Index == 0 .. BufLen - 1
Next1(i) == (i + 1) % BufLen
RxFull == Next1(rx_in) = rx_out
TxEmpty == tx_in = tx_out

(* The two interrupt conditions of the device. *)
RI == "RE" \in irq_enable /\ (pause_irq \/ ReadDepth - Len(rfifo) <= ReadThreshold)
WI == "WE" \in irq_enable /\ Len(wfifo) <= WriteThreshold

NoCall == [left |-> 0, done |-> 0, nonblock |-> FALSE]
NoControl == [RI |-> FALSE, WI |-> FALSE, space |-> 0]

Init ==
    /\ rx_in = 0 /\ rx_out = 0 /\ tx_in = 0 /\ tx_out = 0
    /\ rx_buf = [i \in Index |-> 0] /\ tx_buf = [i \in Index |-> 0]
    /\ irq_enable = {"RE"} /\ host_inactive = 0
    /\ isr = "idle" /\ control = NoControl /\ data = FALSE
    /\ pc = "idle" /\ call = NoCall /\ in = 0 /\ out = 0 /\ n = 0 /\ chunk = <<>>
    /\ rfifo = <<>> /\ wfifo = <<>> /\ pause_irq = FALSE /\ ac = FALSE
    /\ connected \in BOOLEAN /\ plugs = 0
    /\ written = 0 /\ sent = 0 /\ got = <<>> /\ hostGot = <<>>

-----------------------------------------------------------------------------
(* altera_avalon_jtag_uart_irq.  "data" stands for the RAVAIL bits read    *)
(* last: whether more bytes wait in the receive FIFO.                      *)

Interrupt ==
    /\ isr = "idle" /\ (RI \/ WI)
    /\ isr' = "control"
    /\ UNCHANGED <<ring, irq_enable, host_inactive, control, data, thread, device, host, written, got>>

ReadControl ==
    /\ isr = "control"
    /\ control' = IF RI \/ WI THEN [RI |-> RI, WI |-> WI, space |-> WriteDepth - Len(wfifo)] ELSE NoControl
    /\ isr' = IF RI THEN "rx" ELSE IF WI THEN "tx" ELSE "idle"
    /\ data' = RI
    /\ UNCHANGED <<ring, irq_enable, host_inactive, thread, device, host, written, got>>

RxByte ==
    /\ isr = "rx" /\ ~RxFull
    /\ pause_irq' = FALSE
    /\ IF rfifo = <<>>
       THEN /\ data' = FALSE /\ isr' = "rx_end"
            /\ UNCHANGED <<rx_buf, rx_in, rfifo>>
       ELSE /\ rx_buf' = [rx_buf EXCEPT ![rx_in] = Head(rfifo)]
            /\ rx_in' = Next1(rx_in)
            /\ rfifo' = Tail(rfifo)
            /\ data' = (Len(rfifo) > 1)
            /\ UNCHANGED isr
    /\ UNCHANGED <<rx_out, tx_in, tx_out, tx_buf, irq_enable, host_inactive, control, thread,
                   wfifo, ac, host, written, got>>

RxStop ==
    /\ isr = "rx" /\ RxFull
    /\ isr' = "rx_end"
    /\ UNCHANGED <<ring, irq_enable, host_inactive, control, data, thread, device, host, written, got>>

RxEnd ==
    /\ isr = "rx_end"
    /\ irq_enable' = IF data THEN irq_enable \ {"RE"} ELSE irq_enable
    /\ isr' = IF control.WI THEN "tx" ELSE "control"
    /\ UNCHANGED <<ring, host_inactive, control, data, thread, device, host, written, got>>

TxByte ==
    /\ isr = "tx" /\ control.space > 0 /\ ~TxEmpty
    /\ wfifo' = Append(wfifo, tx_buf[tx_out])
    /\ tx_out' = Next1(tx_out)
    /\ control' = [control EXCEPT !.space = @ - 1]
    /\ UNCHANGED <<rx_in, rx_out, rx_buf, tx_in, tx_buf, irq_enable, host_inactive, isr, data, thread,
                   rfifo, pause_irq, ac, host, written, got>>

TxEnd ==
    /\ isr = "tx" /\ (control.space = 0 \/ TxEmpty)
    /\ irq_enable' = IF control.space > 0 THEN irq_enable \ {"WE"} ELSE irq_enable
    /\ isr' = "control"
    /\ UNCHANGED <<ring, host_inactive, control, data, thread, device, host, written, got>>

(* altera_avalon_jtag_uart_timeout: the alarm of every second. *)
Alarm ==
    /\ isr = "idle"
    /\ ac' = FALSE
    /\ host_inactive' = IF ac THEN 0 ELSE IF host_inactive < Timeout THEN host_inactive + 1 ELSE Timeout
    /\ UNCHANGED <<ring, irq_enable, routine, thread, rfifo, wfifo, pause_irq, host, written, got>>

-----------------------------------------------------------------------------
(* The program thread.  It runs while no interrupt is being served. *)

At(from) == isr = "idle" /\ pc = from
Active == host_inactive < Timeout
(* The call returns: its locals are gone. *)
Leave == pc' = "idle" /\ call' = NoCall /\ in' = 0 /\ out' = 0 /\ n' = 0
Go(to) == pc' = to /\ UNCHANGED <<call, in, out, n>>

Least(a, b) == IF a < b THEN a ELSE b

Call(op, left) ==
    /\ At("idle")
    /\ pc' = op
    /\ \E nonblock \in BOOLEAN : call' = [left |-> left, done |-> 0, nonblock |-> nonblock]
    /\ UNCHANGED <<ring, irq_enable, host_inactive, routine, in, out, n, chunk, device, host, written, got>>

Write == \E k \in 1 .. MaxRequest : written + sent + k <= MaxBytes /\ Call("write", k)
Read == \E k \in 1 .. MaxRequest : Call("read", k)
Close == Call("close", 0)

(* Mistake: the ring may be filled up to the place of tx_out. *)
WriteSpace_OneMore ==
    IF tx_in < tx_out THEN tx_out - 1 - tx_in ELSE BufLen - tx_in

WriteSpace ==
    IF tx_in < tx_out THEN tx_out - 1 - tx_in
    ELSE IF tx_out > 0 THEN BufLen - tx_in
    ELSE BufLen - 1 - tx_in

WriteLoad ==
    /\ At("write")
    /\ IF call.left = 0
       THEN pc' = "kick" /\ UNCHANGED <<in, out, n>>
       ELSE /\ in' = tx_in /\ out' = tx_out
            /\ n' = Least(WriteSpace, call.left)
            /\ pc' = IF WriteSpace = 0 THEN "kick" ELSE "copy"
    /\ UNCHANGED <<ring, irq_enable, host_inactive, routine, call, chunk, device, host, written, got>>

WriteCopy ==
    /\ At("copy")
    /\ tx_buf' = [i \in Index |-> IF i \in in .. in + n - 1 THEN written + 1 + i - in ELSE tx_buf[i]]
    /\ pc' = "publish"
    /\ UNCHANGED <<rx_in, rx_out, rx_buf, tx_in, tx_out, irq_enable, host_inactive, routine, call, in, out, n,
                   chunk, device, host, written, got>>

WritePublish ==
    /\ At("publish")
    /\ tx_in' = (in + n) % BufLen
    /\ written' = written + n
    /\ call' = [call EXCEPT !.left = @ - n, !.done = @ + n]
    /\ pc' = "write"
    /\ UNCHANGED <<rx_in, rx_out, rx_buf, tx_out, tx_buf, irq_enable, host_inactive, routine, in, out, n, chunk,
                   device, host, got>>

WriteKick ==
    /\ At("kick")
    /\ irq_enable' = irq_enable \cup {"WE"}
    /\ IF call.left = 0 \/ call.nonblock THEN Leave ELSE Go("write_wait")
    /\ UNCHANGED <<ring, host_inactive, routine, chunk, device, host, written, got>>

(* Mistake: the wait does not look at host_inactive (it is not declared volatile).  *)
WriteWait_ForRoom ==
    /\ At("write_wait") /\ out # tx_out
    /\ pc' = "write_test"
    /\ UNCHANGED <<ring, irq_enable, host_inactive, routine, call, in, out, n, chunk, device, host, written, got>>

WriteWait ==
    /\ At("write_wait") /\ (out # tx_out \/ ~Active)
    /\ pc' = "write_test"
    /\ UNCHANGED <<ring, irq_enable, host_inactive, routine, call, in, out, n, chunk, device, host, written, got>>

(* Mistake: a write gives up because the host was silent, although there is room again. *)
WriteTest_Impatient ==
    /\ At("write_test")
    /\ IF out = tx_out \/ ~Active THEN Leave ELSE Go("write")
    /\ UNCHANGED <<ring, irq_enable, host_inactive, routine, chunk, device, host, written, got>>

WriteTest ==
    /\ At("write_test")
    /\ IF out = tx_out THEN Leave ELSE Go("write")
    /\ UNCHANGED <<ring, irq_enable, host_inactive, routine, chunk, device, host, written, got>>

ReadLoad ==
    /\ At("read")
    /\ LET there == IF rx_in >= rx_out THEN rx_in - rx_out ELSE BufLen - rx_out
       IN \/ /\ there > 0
             /\ in' = rx_in /\ out' = rx_out /\ n' = Least(there, call.left)
             /\ pc' = "read_copy" /\ UNCHANGED call
          \/ /\ there = 0 /\ call.done > 0
             /\ Go("rearm")
          \/ /\ there = 0 /\ call.done = 0 /\ call.nonblock
             /\ Leave
          \/ /\ there = 0 /\ call.done = 0 /\ ~call.nonblock
             /\ in' = rx_in /\ out' = rx_out /\ n' = 0
             /\ pc' = "read_wait" /\ UNCHANGED call
    /\ UNCHANGED <<ring, irq_enable, host_inactive, routine, chunk, device, host, written, got>>

ReadCopy ==
    /\ At("read_copy")
    /\ chunk' = [i \in 1 .. n |-> rx_buf[out + i - 1]]
    /\ pc' = "read_publish"
    /\ UNCHANGED <<ring, irq_enable, host_inactive, routine, call, in, out, n, device, host, written, got>>

ReadPublish ==
    /\ At("read_publish")
    /\ rx_out' = (out + n) % BufLen
    /\ got' = got \o chunk
    /\ chunk' = <<>>
    /\ call' = [call EXCEPT !.left = @ - n, !.done = @ + n]
    /\ pc' = IF call.left = n THEN "rearm" ELSE "read"
    /\ UNCHANGED <<rx_in, rx_buf, tx_in, tx_out, tx_buf, irq_enable, host_inactive, routine, in, out, n, device,
                   host, written>>

ReadWait ==
    /\ At("read_wait") /\ (in # rx_in \/ ~Active)
    /\ pc' = "read_test"
    /\ UNCHANGED <<ring, irq_enable, host_inactive, routine, call, in, out, n, chunk, device, host, written, got>>

ReadTest ==
    /\ At("read_test")
    /\ IF in = rx_in THEN Leave ELSE Go("read")
    /\ UNCHANGED <<ring, irq_enable, host_inactive, routine, chunk, device, host, written, got>>

(* Mistake: the interrupt is enabled only by a read that came back short. *)
ReadRearm_Skipped ==
    /\ At("rearm")
    /\ irq_enable' = IF call.left = 0 THEN irq_enable ELSE irq_enable \cup {"RE"}
    /\ Leave
    /\ UNCHANGED <<ring, host_inactive, routine, chunk, device, host, written, got>>

(* The interrupt is enabled again, with the interrupts disabled meanwhile. *)
ReadRearm ==
    /\ At("rearm")
    /\ irq_enable' = irq_enable \cup {"RE"}
    /\ Leave
    /\ UNCHANGED <<ring, host_inactive, routine, chunk, device, host, written, got>>

CloseWait ==
    /\ At("close") /\ (TxEmpty \/ ~Active \/ call.nonblock)
    /\ Leave
    /\ UNCHANGED <<ring, irq_enable, host_inactive, routine, chunk, device, host, written, got>>

Return == WriteKick \/ WriteTest \/ ReadLoad \/ ReadTest \/ ReadRearm \/ CloseWait

ThreadStep ==
    \/ WriteLoad \/ WriteCopy \/ WritePublish \/ WriteWait
    \/ ReadCopy \/ ReadPublish \/ ReadWait \/ Return

-----------------------------------------------------------------------------
(* The host: a terminal on the other end of the JTAG cable. *)

(* What the write in progress may still add, for the bound *)
Pending == IF pc \in {"write", "copy", "publish", "kick", "write_wait", "write_test"} THEN call.left ELSE 0

HostSend ==
    /\ connected /\ written + Pending + sent < MaxBytes /\ Len(rfifo) < ReadDepth
    /\ sent' = sent + 1
    /\ rfifo' = Append(rfifo, sent')
    /\ ac' = TRUE
    /\ UNCHANGED <<ring, irq_enable, host_inactive, routine, thread, wfifo, pause_irq, connected, plugs, hostGot,
                   written, got>>

HostPause ==
    /\ connected
    /\ pause_irq' = (pause_irq \/ rfifo # <<>>)
    /\ ac' = TRUE
    /\ UNCHANGED <<ring, irq_enable, host_inactive, routine, thread, rfifo, wfifo, host, written, got>>

HostTake ==
    /\ connected /\ wfifo # <<>>
    /\ hostGot' = Append(hostGot, Head(wfifo))
    /\ wfifo' = Tail(wfifo)
    /\ UNCHANGED <<ring, irq_enable, host_inactive, routine, thread, rfifo, pause_irq, ac, connected, plugs, sent,
                   written, got>>

Plug ==
    /\ plugs < MaxPlugs
    /\ plugs' = plugs + 1 /\ connected' = ~connected
    /\ UNCHANGED <<ring, irq_enable, host_inactive, routine, thread, device, sent, hostGot, written, got>>

Routine == Interrupt \/ ReadControl \/ RxByte \/ RxStop \/ RxEnd \/ TxByte \/ TxEnd
Host == HostSend \/ HostPause \/ HostTake \/ Plug

Next == Routine \/ Alarm \/ Write \/ Read \/ Close \/ ThreadStep \/ Host

Spec == Init /\ [][Next]_vars

(* The processor runs the routine when it is interrupted and the thread    *)
(* otherwise, the timer ticks, and a connected host empties its side and   *)
(* shows a pause again and again; whether it sends is its own choice.      *)
Fairness ==
    /\ WF_vars(Routine) /\ SF_vars(ThreadStep) /\ SF_vars(Alarm)
    /\ WF_vars(HostTake) /\ WF_vars(HostPause)

FairSpec == Spec /\ Fairness

-----------------------------------------------------------------------------
Places == {"idle", "write", "copy", "publish", "kick", "write_wait", "write_test",
           "read", "read_copy", "read_publish", "read_wait", "read_test", "rearm", "close"}

(* Every variable keeps its type; the offsets stay inside the rings and    *)
(* neither FIFO of the device is ever overrun by the driver.               *)
TypeOK ==
    /\ rx_in \in Index /\ rx_out \in Index /\ tx_in \in Index /\ tx_out \in Index
    /\ rx_buf \in [Index -> Nat] /\ tx_buf \in [Index -> Nat]
    /\ irq_enable \subseteq {"RE", "WE"} /\ host_inactive \in 0 .. Timeout
    /\ isr \in {"idle", "control", "rx", "rx_end", "tx"}
    /\ control \in [RI : BOOLEAN, WI : BOOLEAN, space : 0 .. WriteDepth] /\ data \in BOOLEAN
    /\ pc \in Places
    /\ call \in [left : 0 .. MaxRequest, done : 0 .. MaxRequest, nonblock : BOOLEAN]
    /\ in \in Index /\ out \in Index /\ n \in 0 .. BufLen
    /\ chunk \in Seq(Nat)
    /\ rfifo \in Seq(Nat) /\ Len(rfifo) <= ReadDepth
    /\ wfifo \in Seq(Nat) /\ Len(wfifo) <= WriteDepth
    /\ pause_irq \in BOOLEAN /\ ac \in BOOLEAN /\ connected \in BOOLEAN /\ plugs \in 0 .. MaxPlugs
    /\ written \in 0 .. MaxBytes /\ sent \in 0 .. MaxBytes
    /\ got \in Seq(Nat) /\ hostGot \in Seq(Nat)

Bytes(k) == [i \in 1 .. k |-> i]
Ring(buf, from, to) == [i \in 1 .. (to - from) % BufLen |-> buf[(from + i - 1) % BufLen]]

(* What either side writes reaches the other once, in order and complete.  *)
(* At every moment the bytes accepted by write are those the host has,     *)
(* followed by those of the device's FIFO, followed by those between       *)
(* tx_out and tx_in; the bytes the host has sent are those read has        *)
(* returned, followed by the receive ring, followed by the FIFO, where     *)
(* they wait and hold the host up while the ring is full.                  *)
BytesInOrder ==
    /\ TypeOK
    /\ hostGot \o wfifo \o Ring(tx_buf, tx_out, tx_in) = Bytes(written)
    /\ got \o Ring(rx_buf, rx_out, rx_in) \o rfifo = Bytes(sent)

(* No lost wake-up: bytes in the transmit ring are never left without an   *)
(* enabled interrupt, and the receive interrupt is off only while the ring *)
(* is full; except while the thread that has put bytes into the one ring,  *)
(* or taken some out of the other, has yet to enable the interrupt.        *)
Armed ==
    /\ ~TxEmpty => "WE" \in irq_enable \/ pc \in {"write", "copy", "publish", "kick"}
    /\ "RE" \notin irq_enable =>
          RxFull \/ (pc \in {"read", "read_copy", "read_publish", "rearm"} /\ call.done > 0)

(* Every call returns, whether the host is there or not: the thread that   *)
(* waits for room, for bytes or for the ring to drain is woken by the      *)
(* routine or by the alarm, and only a host that is there and sends        *)
(* nothing keeps a read waiting.  Every byte accepted by write reaches a   *)
(* host that stays connected, even when nobody writes again.               *)
NobodyWaits ==
    LET Served == connected /\ Len(got) = sent
    IN  /\ []<>(pc = "idle" \/ (pc \in {"read", "read_wait", "read_test"} /\ Served))
        /\ []<>(Len(hostGot) = written \/ ~connected)

=============================================================================
