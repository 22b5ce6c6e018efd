----------------------------- MODULE UsbMouse -----------------------------
(***************************************************************************)
(* The USB half of main: the restart at USB_HOT_PLUG, the enumeration of   *)
(* the mouse in nine transfers and the polling loop, against the           *)
(* CY7C67200 and the mouse.  Every transfer has the same course: write the *)
(* list of TDs and hand it over; write and hand it over again every 10 ms  *)
(* until a message is there; read messages until TDListDone; look at the   *)
(* control byte of the first TD.  The messages share one cell, which the   *)
(* program reads and then writes to 0.  A list is one value here: what     *)
(* happens inside one is in TransferLists.  Controller and mouse are       *)
(* external.                                                               *)
(***************************************************************************)
EXTENDS Integers, Sequences, FiniteSets

CONSTANTS
  Sizes,       \* wMaxPacketSize of the mice at hand
  MaxReports,  \* bound: reports a mouse sends
  MaxFaults    \* bound: commands refused, transfers failed, mice unplugged

ASSUME UsbAssumption ==
  /\ Sizes # {} /\ Sizes \subseteq 1 .. 255 /\ MaxReports \in Nat /\ MaxFaults \in Nat

VARIABLES
  pc, step, got,            \* where main is, the list it sends, what it read last
  toggle, data_size,        \* locals of main: toggle % 2
  list, control,            \* controller's memory: the list, the byte at 0x508
  size_cell, report,        \* the bytes at 0x57b and 0x51c
  msg, flag,                \* HPI_SIE1_MSG_ADR, and its bit in HPI_STATUS
  mailbox, command,         \* last answer to a command, command not yet carried out
  run,                      \* how far the controller is in the list
  mouse,                    \* the device
  decoded, skewed, spoilt,  \* history: reports decoded; a poll found no report, or a
  faults                    \* mouse was exchanged; what the program cannot notice

main       == <<pc, step, got, toggle, data_size, decoded>>
memory     == <<list, control, size_cell, report>>
messages   == <<msg, flag>>
commands   == <<mailbox, command>>
history    == <<skewed, spoilt, faults>>
vars       == <<main, memory, messages, commands, run, mouse, history>>

\* The transfers, in the order of the enumeration; the last one is the poll.
ADDRESS == 1
CONFIG2 == 5
SET_CONFIG == 6
POLL    == 10

None == 0
Unplugged == [on |-> FALSE, did |-> {}, size |-> None, sequence |-> 0, sent |-> 0]
Plugged(size, sent) ==
  [on |-> TRUE, did |-> {}, size |-> size, sequence |-> 0, sent |-> sent]

Init ==
  /\ pc = "reset" /\ step = ADDRESS /\ got = "none" /\ toggle = 0 /\ data_size = None
  /\ list = None /\ control = "failed" /\ size_cell = None /\ report = None
  /\ msg = "none" /\ flag = FALSE /\ mailbox = "other" /\ command = "none"
  /\ run = "idle" /\ mouse \in {Unplugged} \cup {Plugged(s, 0) : s \in Sizes}
  /\ decoded = <<>> /\ skewed = FALSE /\ spoilt = {} /\ faults = 0

----------------------------------------------------------------------------
(* Restart and presence. *)

Goto(label) == pc' = label /\ UNCHANGED <<step, got, toggle, data_size, decoded>>

\* UsbSoftReset, and HPI_SIE1_MSG_ADR cleared.
SoftReset == msg' = "none" /\ flag' = FALSE /\ run' = "idle"

\* USB_HOT_PLUG: soft reset, then HUSB_SIE1_INIT_INT is sent.
\* COMM_RESET is answered in the mailbox as well.
HotPlug ==
  /\ pc = "reset"
  /\ pc' = "ack1" /\ step' = ADDRESS
  /\ SoftReset
  /\ mailbox' \in {"ack", "other"} /\ command' = "init"
  /\ spoilt' = {}
  /\ UNCHANGED <<got, toggle, data_size, decoded, memory, mouse, skewed, faults>>

\* HPI_STATUS is not 0: an answer, or a message.  Then HUSB_RESET_INT is sent.
FirstAck ==
  /\ pc = "ack1" /\ (command = "none" \/ flag)
  /\ IF mailbox = "ack"
     THEN /\ Goto("ack2") /\ command' = "reset"
          /\ spoilt' = spoilt \cup IF command = "none" THEN {} ELSE {"overrun"}
     ELSE Goto("reset") /\ UNCHANGED <<command, spoilt>>
  /\ UNCHANGED <<mailbox, memory, messages, run, mouse, skewed, faults>>

\* The second answer is not waited for: the first one may still be in the mailbox.
SecondAck ==
  /\ pc = "ack2"
  /\ Goto(IF mailbox = "ack" THEN "probe" ELSE "reset")
  /\ UNCHANGED <<memory, messages, commands, run, mouse, history>>

Probe ==
  /\ pc = "probe"
  /\ Goto(IF mouse.on THEN "write" ELSE "absent")
  /\ UNCHANGED <<memory, messages, commands, run, mouse, history>>

\* No device at the start, or none any more after a poll.
AwaitDevice ==
  /\ pc = "absent" /\ mouse.on
  /\ Goto("reset")
  /\ UNCHANGED <<memory, messages, commands, run, mouse, history>>

----------------------------------------------------------------------------
(* The course of a transfer. *)

\* A running controller starts again, or overwrites the pointer and goes on.
HandOver(l) ==
  /\ list' = l /\ control' = "active"
  /\ run' \in IF run = "middle" THEN {"start", "middle"} ELSE {"start"}
  /\ spoilt' = spoilt \cup (IF msg = "done" THEN {"raced"} ELSE {})
                      \cup (IF run' = "middle" THEN {"lost"} ELSE {})
  /\ UNCHANGED <<size_cell, report, messages, commands, mouse, skewed, faults>>

WriteList ==
  /\ pc = "write"
  /\ Goto("wait")
  /\ HandOver(step)

AwaitFlag ==
  /\ pc = "wait"
  /\ Goto(IF flag THEN "read" ELSE "resend")
  /\ UNCHANGED <<memory, messages, commands, run, mouse, history>>

Resend ==
  /\ pc = "resend"
  /\ Goto("wait")
  /\ HandOver(step)

\* Reading the message takes its bit out of HPI_STATUS.
ReadMessage ==
  /\ pc = "read"
  /\ pc' = "clear" /\ got' = msg /\ flag' = FALSE
  /\ UNCHANGED <<step, toggle, data_size, decoded, msg, memory, commands, run, mouse, history>>

\* UsbWrite(HPI_SIE1_MSG_ADR, 0), whatever is there by now.
ClearMessage ==
  /\ pc = "clear"
  /\ Goto(IF got = "done" THEN "check" ELSE "read")
  /\ msg' = "none"
  /\ spoilt' = spoilt \cup IF msg = "done" /\ got # "done" THEN {"erased"} ELSE {}
  /\ UNCHANGED <<flag, memory, commands, run, mouse, skewed, faults>>

\* Mutant: the message is taken for success.
Check_MessageOnly ==
  /\ pc = "check" /\ step # POLL
  /\ pc' = IF step = CONFIG2 THEN "extract" ELSE IF step + 1 = POLL THEN "poll" ELSE "write"
  /\ step' = step + 1
  /\ UNCHANGED <<got, toggle, data_size, decoded, memory, messages, commands, run, mouse, history>>

\* Only the control byte of the first TD counts; any other value is read again.
Check ==
  /\ pc = "check" /\ step # POLL
  /\ IF control = "passed"
     THEN /\ pc' = IF step = CONFIG2 THEN "extract" ELSE IF step + 1 = POLL THEN "poll" ELSE "write"
          /\ step' = step + 1
     ELSE pc' = "again" /\ UNCHANGED step
  /\ UNCHANGED <<got, toggle, data_size, decoded, memory, messages, commands, run, mouse, history>>

\* Mutant: the next message is waited for in any case.
CheckMessage_Waits ==
  /\ pc = "again"
  /\ flag' = FALSE /\ msg' = "none" /\ Goto("renew")
  /\ UNCHANGED <<memory, commands, run, mouse, history>>

\* Mutant: SET ADDRESS waits for its control byte like the other transfers.
CheckMessage_NoRestart ==
  /\ pc = "again"
  /\ flag' = FALSE
  /\ IF msg = "done" THEN msg' = "none" /\ Goto("renew") ELSE Goto("check") /\ UNCHANGED msg
  /\ UNCHANGED <<memory, commands, run, mouse, history>>

\* After a failure: a TDListDone is cleared and the next message waited for.
CheckMessage ==
  /\ pc = "again"
  /\ flag' = FALSE
  /\ IF msg = "done" THEN msg' = "none" /\ Goto("renew")
     ELSE Goto(IF step = ADDRESS THEN "reset" ELSE "check") /\ UNCHANGED msg
  /\ UNCHANGED <<memory, commands, run, mouse, history>>

\* SET ADDRESS alone starts all over.
AwaitAnother ==
  /\ pc = "renew" /\ flag
  /\ Goto(IF step = ADDRESS THEN "reset" ELSE "check")
  /\ UNCHANGED <<memory, messages, commands, run, mouse, history>>

Transfer(n) ==
  /\ step = n
  /\ \/ WriteList \/ AwaitFlag \/ Resend \/ ReadMessage \/ ClearMessage
     \/ Check \/ CheckMessage \/ AwaitAnother

SetAddress           == Transfer(ADDRESS)
GetDeviceDescriptor1 == Transfer(2)
GetDeviceDescriptor2 == Transfer(3)
GetConfigDescriptor1 == Transfer(4)
GetConfigDescriptor2 == Transfer(CONFIG2)
SetConfiguration     == Transfer(SET_CONFIG)
ClassRequestOut      == Transfer(7)
GetClassDescriptor21 == Transfer(8)
GetClassDescriptor22 == Transfer(9)

\* Mutant: the size is taken from the first mouse only.
ExtractData_Once ==
  /\ pc = "extract"
  /\ data_size' = (IF data_size = None THEN size_cell ELSE data_size) /\ pc' = "write"
  /\ UNCHANGED <<step, got, toggle, decoded, memory, messages, commands, run, mouse, history>>

\* data_size is read from where the configuration descriptor should be.
ExtractData ==
  /\ pc = "extract"
  /\ data_size' = size_cell /\ pc' = "write"
  /\ UNCHANGED <<step, got, toggle, decoded, memory, messages, commands, run, mouse, history>>

----------------------------------------------------------------------------
(* The polling loop. *)

\* Mutant: every poll expects the same toggle.
Poll_NoToggle ==
  /\ pc = "poll"
  /\ toggle' = 1 /\ pc' = "wait"
  /\ UNCHANGED <<step, got, data_size, decoded>>
  /\ HandOver(POLL)

\* toggle++ on every pass.
Poll ==
  /\ pc = "poll"
  /\ toggle' = 1 - toggle /\ pc' = "wait"
  /\ UNCHANGED <<step, got, data_size, decoded>>
  /\ HandOver(POLL)

PollTransfer ==
  /\ step = POLL
  /\ AwaitFlag \/ Resend \/ ReadMessage \/ ClearMessage

Decode ==
  /\ pc = "check" /\ step = POLL
  /\ decoded' = IF control = "passed" THEN Append(decoded, report) ELSE decoded
  /\ pc' = "present"
  /\ UNCHANGED <<step, got, toggle, data_size, memory, messages, commands, run, mouse, history>>

\* Of several readings of USB1_CTL_REG the last one decides.
CheckPresence ==
  /\ pc = "present"
  /\ Goto(IF mouse.on THEN "poll" ELSE "absent")
  /\ UNCHANGED <<memory, messages, commands, run, mouse, history>>

Main ==
  \/ HotPlug \/ FirstAck \/ SecondAck \/ Probe \/ AwaitDevice
  \/ SetAddress \/ GetDeviceDescriptor1 \/ GetDeviceDescriptor2 \/ GetConfigDescriptor1
  \/ GetConfigDescriptor2 \/ ExtractData \/ SetConfiguration \/ ClassRequestOut
  \/ GetClassDescriptor21 \/ GetClassDescriptor22
  \/ Poll \/ PollTransfer \/ Decode \/ CheckPresence

----------------------------------------------------------------------------
(* The controller and the mouse. *)

\* A message overwrites one that was not read yet.
Post(m) ==
  /\ msg' = m /\ flag' = TRUE
  /\ spoilt' = spoilt \cup IF flag /\ msg = "done" /\ m # "done" THEN {"erased"} ELSE {}

Fault == faults < MaxFaults /\ faults' = faults + 1

\* A bus reset takes the mouse's address and configuration away.
CarryOut ==
  /\ command # "none" /\ command' = "none"
  /\ \/ /\ mailbox' = "ack" /\ UNCHANGED faults
        /\ mouse' = IF command = "reset" THEN [mouse EXCEPT !.did = {}, !.sequence = 0] ELSE mouse
     \/ mailbox' = "other" /\ Fault /\ UNCHANGED mouse
  /\ UNCHANGED <<main, memory, messages, run, skewed, spoilt>>

Answers(l) == mouse.on /\ (l = ADDRESS) = (ADDRESS \notin mouse.did)

\* The SETUP transfer of a list.
SetupTransfer ==
  /\ run = "start" /\ command = "none" /\ list # POLL
  /\ run' = "middle"
  /\ \/ Answers(list) /\ control' = "passed" /\ UNCHANGED faults
     \/ ~Answers(list) /\ control' = "failed" /\ UNCHANGED faults
     \/ Answers(list) /\ control' = "failed" /\ Fault
  /\ spoilt' = spoilt \cup IF control' = "failed" /\ list # ADDRESS THEN {"failed"} ELSE {}
  /\ UNCHANGED <<main, list, size_cell, report, messages, commands, mouse, skewed>>

\* The data and status stages; they may fail without a trace at 0x508.
FinishTransfer ==
  /\ run = "middle" /\ run' = "idle"
  /\ msg' = "done" /\ flag' = TRUE
  /\ \/ /\ mouse.on /\ control = "passed"
        /\ mouse' = [mouse EXCEPT !.did = @ \cup {list}]
        /\ size_cell' = IF list = CONFIG2 THEN mouse.size ELSE size_cell
        /\ UNCHANGED <<spoilt, faults>>
     \/ ~(mouse.on /\ control = "passed") /\ UNCHANGED <<mouse, size_cell, spoilt, faults>>
     \/ Fault /\ spoilt' = spoilt \cup {"data"} /\ UNCHANGED <<mouse, size_cell>>
  /\ UNCHANGED <<main, list, control, report, commands, skewed>>

\* What a poll brings: nothing; a report; or one with the other toggle, which the
\* mouse takes for delivered and the controller may have thrown away.
Nothing == control' = "failed" /\ skewed' = TRUE /\ UNCHANGED <<mouse, report>>

Delivered ==
  /\ SET_CONFIG \in mouse.did /\ mouse.sent < MaxReports
  /\ mouse' = [mouse EXCEPT !.sent = @ + 1, !.sequence = 1 - @]
  /\ \/ control' = "passed" /\ report' = mouse.sent + 1
     \/ toggle = mouse.sequence /\ control' = "failed" /\ UNCHANGED report
  /\ UNCHANGED skewed

PollMouse ==
  /\ run = "start" /\ command = "none" /\ list = POLL
  /\ Nothing \/ Delivered
  /\ run' = "idle" /\ Post("done")
  /\ UNCHANGED <<main, list, size_cell, commands, faults>>

Notice == Post("other") \/ UNCHANGED <<messages, spoilt>>

\* In the middle of an enumeration the program does not see it.
Enumerating ==
  /\ pc \notin {"reset", "ack1", "ack2", "probe", "absent"} /\ step # POLL
  /\ step = ADDRESS => control = "passed"

Unplug ==
  /\ mouse.on /\ Fault
  /\ mouse' = [Unplugged EXCEPT !.sent = mouse.sent] /\ skewed' = TRUE
  /\ \/ Enumerating /\ spoilt' = spoilt \cup {"unplugged"} /\ UNCHANGED messages
     \/ ~Enumerating /\ Notice
  /\ UNCHANGED <<main, memory, commands, run>>

\* A hand is slower than a pass of the polling loop.
Plug ==
  /\ ~mouse.on /\ (step = POLL => pc = "absent")
  /\ \E s \in Sizes : mouse' = Plugged(s, mouse.sent)
  /\ Notice
  /\ UNCHANGED <<main, memory, commands, run, skewed, faults>>

Next == Main \/ CarryOut \/ SetupTransfer \/ FinishTransfer \/ PollMouse \/ Unplug \/ Plug

Spec == Init /\ [][Next]_vars

\* The processor runs, and so does the controller: a list is done in less than the
\* 10 ms after which it is handed over again.
FairSpec ==
  /\ Spec /\ WF_vars(Main) /\ WF_vars(CarryOut) /\ WF_vars(SetupTransfer)
  /\ SF_vars(FinishTransfer) /\ SF_vars(PollMouse)

----------------------------------------------------------------------------
\* Bound: what happens after two of the causes is not explored.
OneCause == Cardinality(spoilt) <= 1

TypeOK ==
  /\ pc \in {"reset", "ack1", "ack2", "probe", "absent", "write", "wait", "resend", "read",
             "clear", "check", "again", "renew", "extract", "poll", "present"}
  /\ step \in 1 .. POLL /\ got \in {"none", "done", "other"} /\ toggle \in {0, 1}
  /\ data_size \in Sizes \cup {None} /\ size_cell \in Sizes \cup {None}
  /\ list \in 0 .. POLL /\ control \in {"active", "passed", "failed"}
  /\ report \in 0 .. MaxReports /\ decoded \in Seq(0 .. MaxReports)
  /\ msg \in {"none", "done", "other"} /\ flag \in BOOLEAN
  /\ mailbox \in {"ack", "other"} /\ command \in {"none", "init", "reset"}
  /\ run \in {"idle", "start", "middle"} /\ faults \in 0 .. MaxFaults
  /\ mouse \in [on : BOOLEAN, did : SUBSET (1 .. POLL), size : Sizes \cup {None},
                sequence : {0, 1}, sent : 0 .. MaxReports]
  /\ skewed \in BOOLEAN
  /\ spoilt \subseteq {"overrun", "raced", "lost", "erased", "failed", "data", "unplugged"}

Polling == step = POLL /\ pc \notin {"reset", "ack1", "ack2", "probe", "absent"}

\* A transfer that is said to have passed has been carried out by the mouse that is
\* there, since its last reset: messages of another kind, refused commands, a list
\* started again or a SET ADDRESS without an answer do not fake one.
EnumeratedInOrder ==
  /\ TypeOK
  /\ /\ spoilt = {} /\ mouse.on
     /\ pc \notin {"reset", "ack1", "ack2", "probe", "absent"}
     => 1 .. step - 1 \ {POLL} \subseteq mouse.did

\* The length of a poll is the packet size of the mouse being polled, not that of the
\* one it replaced.
SizeOfThisMouse == Polling /\ spoilt = {} /\ mouse.on => data_size = mouse.size

\* Whatever goes wrong, no report is decoded twice or after a later one, and as long as
\* every poll of the first mouse finds a report, none is lost.
ReportsComplete ==
  /\ \A i, j \in DOMAIN decoded : i < j => decoded[i] < decoded[j]
  /\ ~skewed /\ spoilt = {} /\ pc = "present" => decoded = [i \in 1 .. mouse.sent |-> i]

Stuck ==
  /\ run = "idle" /\ msg # "done"
  /\ \/ pc = "read"
     \/ pc = "clear" /\ got # "done"
     \/ pc = "renew" /\ ~flag
     \/ pc \in {"check", "again"} /\ step \in 2 .. POLL - 1 /\ control # "passed"

\* The program waits for something that cannot come only after one of the named causes.
NeverStuck == Stuck => spoilt # {}

\* A mouse that stays is enumerated and polled for ever, after refused commands, a
\* failed SET ADDRESS or the exchange of the mouse while it was polled, unless one of
\* the causes the program does not notice occurs.
MouseServed ==
  [](spoilt = {}) /\ <>[](mouse.on) =>
    <>[](step = POLL /\ SET_CONFIG \in mouse.did) /\ []<>(pc = "poll")
============================================================================
