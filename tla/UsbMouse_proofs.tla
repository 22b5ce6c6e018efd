-------------------------- MODULE UsbMouse_proofs --------------------------
(***************************************************************************)
(* Proofs about UsbMouse, for mice of any packet sizes, any number of      *)
(* reports and any number of faults, and without the bound on the causes   *)
(* under which the run explores it.                                        *)
(*                                                                         *)
(* The properties speak of what the program believes; the invariant says   *)
(* what is then true of the controller and the mouse.  Most of its parts   *)
(* are about a clean session, one in which none of the named causes has    *)
(* occurred since the program last restarted.                              *)
(***************************************************************************)
EXTENDS UsbMouse, TransferLists, SequenceTheorems, TLAPS

----------------------------------------------------------------------------
(* The invariant. *)

\* A device was found, and none of the causes has occurred.
Served == pc \notin {"reset", "ack1", "ack2", "probe", "absent"}
Clean  == Served /\ spoilt = {}

\* A list has been handed over and its message not been taken yet.
Waiting == pc \in {"wait", "resend", "read", "clear"}

\* Which list main works on at its labels.
Labels ==
  /\ pc \in {"ack1", "ack2", "probe"} => step = ADDRESS /\ run = "idle" /\ msg # "done"
  /\ pc \in {"write", "again", "renew"} => step < POLL
  /\ pc = "extract" => step = SET_CONFIG
  /\ pc \in {"poll", "present"} => step = POLL
  /\ Waiting \/ pc \in {"check", "again", "renew"} => list = step
  /\ run # "idle" => list # None

\* The message of a list is on its way, there, or in got, and never more than one of these.
MessageDue ==
  /\ run = "idle" <=> msg = "done" \/ (pc = "clear" /\ got = "done")
  /\ msg = "done" /\ ~flag => pc = "clear" /\ got = "done"

Course ==
  Clean =>
    /\ pc # "renew"
    /\ step = POLL => run # "middle"
    /\ IF Waiting THEN MessageDue ELSE run = "idle" /\ msg # "done"

\* The byte at 0x508 is that of the list handed over last; only SET ADDRESS may have failed.
ControlByte ==
  Clean =>
    /\ pc # "write" => (control = "active" <=> run = "start")
    /\ step \in 2 .. POLL - 1 => control # "failed"
    /\ pc = "again" => step = ADDRESS

\* A mouse that is enumerated stays, and no command of the restart reaches it any more.
Undisturbed ==
  /\ Clean /\ step < POLL /\ (step > ADDRESS \/ control = "passed") => mouse.on
  /\ Clean /\ command # "none" => step = ADDRESS /\ (pc = "write" \/ run = "start")

Carried ==
  Clean /\ mouse.on =>
    /\ 1 .. step - 1 \subseteq mouse.did
    /\ (Waiting \/ pc = "check") /\ step < POLL /\ run = "idle" /\ control = "passed"
       => step \in mouse.did

SizeRead ==
  /\ CONFIG2 \in mouse.did => size_cell = mouse.size
  /\ Clean /\ mouse.on /\ step > CONFIG2 /\ pc # "extract" => data_size = mouse.size

\* A report at 0x51c whose list is said to have passed was not decoded before.
Fresh == step = POLL /\ control = "passed" /\ (Waiting \/ pc = "check")

ReportOrder ==
  /\ report <= mouse.sent
  /\ \A i \in DOMAIN decoded : decoded[i] <= report /\ (Fresh => decoded[i] < report)
  /\ \A i, j \in DOMAIN decoded : i < j => decoded[i] < decoded[j]

\* Before the first poll nothing was sent; after it the mouse has stayed.
FirstMouse ==
  ~skewed =>
    /\ Served => mouse.on
    /\ IF step = POLL
       THEN Waiting \/ pc \in {"poll", "check", "present"}
       ELSE /\ mouse.sent = 0 /\ decoded = <<>> /\ list # POLL
            /\ toggle = 0 /\ mouse.sequence = 0

\* The reports up to n.
UpTo(n) == [i \in 1 .. n |-> i]

\* The toggles of program and mouse differ exactly while a poll is under way.
Lockstep ==
  Clean /\ ~skewed /\ step = POLL =>
    IF run = "start" THEN toggle # mouse.sequence /\ decoded = UpTo(mouse.sent)
    ELSE IF Waiting \/ pc = "check"
    THEN /\ toggle = mouse.sequence /\ control = "passed"
         /\ mouse.sent > 0 /\ report = mouse.sent /\ decoded = UpTo(mouse.sent - 1)
    ELSE toggle = mouse.sequence /\ decoded = UpTo(mouse.sent)

MouseInv ==
  /\ TypeOK /\ Labels /\ Course /\ ControlByte /\ Undisturbed /\ Carried /\ SizeRead
  /\ ReportOrder /\ FirstMouse /\ Lockstep

----------------------------------------------------------------------------
(* Types, in parts. *)

PlaceTypes ==
  /\ pc \in {"reset", "ack1", "ack2", "probe", "absent", "write", "wait", "resend", "read",
             "clear", "check", "again", "renew", "extract", "poll", "present"}
  /\ step \in 1 .. POLL

LocalTypes ==
  /\ got \in {"none", "done", "other"} /\ toggle \in {0, 1}
  /\ data_size \in Sizes \cup {None} /\ decoded \in Seq(0 .. MaxReports)

MemoryTypes ==
  /\ size_cell \in Sizes \cup {None}
  /\ list \in 0 .. POLL /\ control \in {"active", "passed", "failed"}
  /\ report \in 0 .. MaxReports

ControllerTypes ==
  /\ msg \in {"none", "done", "other"} /\ flag \in BOOLEAN
  /\ mailbox \in {"ack", "other"} /\ command \in {"none", "init", "reset"}
  /\ run \in {"idle", "start", "middle"}

MouseTypes ==
  mouse \in [on : BOOLEAN, did : SUBSET (1 .. POLL), size : Sizes \cup {None},
             sequence : {0, 1}, sent : 0 .. MaxReports]

HistoryTypes ==
  /\ skewed \in BOOLEAN /\ faults \in 0 .. MaxFaults
  /\ spoilt \subseteq {"overrun", "raced", "lost", "erased", "failed", "data", "unplugged"}

LEMMA TypeParts ==
  /\ TypeOK <=> /\ PlaceTypes /\ LocalTypes /\ MemoryTypes /\ ControllerTypes
                /\ MouseTypes /\ HistoryTypes
  /\ TypeOK' <=> /\ PlaceTypes' /\ LocalTypes' /\ MemoryTypes' /\ ControllerTypes'
                 /\ MouseTypes' /\ HistoryTypes'
  BY DEF TypeOK, PlaceTypes, LocalTypes, MemoryTypes, ControllerTypes, MouseTypes, HistoryTypes

LEMMA DecodedTypes ==
  ASSUME TypeOK
  PROVE  /\ report \in 0 .. MaxReports /\ mouse.sent \in 0 .. MaxReports
         /\ report \in Int /\ mouse.sent \in Int
         /\ decoded \in Seq(0 .. MaxReports)
         /\ Len(decoded) \in Nat /\ DOMAIN decoded = 1 .. Len(decoded)
         /\ \A i \in DOMAIN decoded : decoded[i] \in Int
<1>1. report \in 0 .. MaxReports /\ decoded \in Seq(0 .. MaxReports)
  BY DEF TypeOK
<1>2. mouse.sent \in 0 .. MaxReports
  BY DEF TypeOK
<1>3. Len(decoded) \in Nat /\ DOMAIN decoded = 1 .. Len(decoded)
  BY <1>1, LenProperties
<1>4. \A i \in DOMAIN decoded : decoded[i] \in 0 .. MaxReports
  BY <1>1, <1>3, ElementOfSeq
<1>5. QED
  BY <1>1, <1>2, <1>3, <1>4, UsbAssumption

----------------------------------------------------------------------------
(* The sequence of the first n reports. *)

LEMMA UpToZero == UpTo(0) = <<>>
  BY DEF UpTo

LEMMA UpToAppend ==
  ASSUME NEW n \in Nat, n > 0
  PROVE  Append(UpTo(n - 1), n) = UpTo(n)
<1>1. UpTo(n - 1) \in Seq(Nat) /\ Len(UpTo(n - 1)) = n - 1
  BY DEF UpTo
<1>2. UpTo(n) \in Seq(Nat) /\ Len(UpTo(n)) = n
  BY DEF UpTo
<1>3. Append(UpTo(n - 1), n) \in Seq(Nat) /\ Len(Append(UpTo(n - 1), n)) = n
  BY <1>1
<1>4. ASSUME NEW i \in 1 .. n
      PROVE  Append(UpTo(n - 1), n)[i] = UpTo(n)[i]
  <2>1. UpTo(n)[i] = i
    BY DEF UpTo
  <2>2. CASE i = n
    BY <1>1, <2>1, <2>2
  <2>3. CASE i < n
    <3>1. UpTo(n - 1)[i] = i
      BY <2>3 DEF UpTo
    <3>2. QED
      BY <1>1, <2>1, <2>3, <3>1
  <2>4. i = n \/ i < n
    BY <1>4
  <2>5. QED
    BY <2>2, <2>3, <2>4
<1>5. QED
  BY <1>2, <1>3, <1>4, SeqEqual

----------------------------------------------------------------------------
(* The actions of Next, those that occur in several transfers once. *)

LEMMA Actions ==
  ASSUME Next
  PROVE  \/ HotPlug \/ FirstAck \/ SecondAck \/ Probe \/ AwaitDevice
         \/ WriteList \/ AwaitFlag \/ Resend \/ ReadMessage \/ ClearMessage
         \/ Check \/ CheckMessage \/ AwaitAnother \/ ExtractData
         \/ Poll \/ Decode \/ CheckPresence
         \/ CarryOut \/ SetupTransfer \/ FinishTransfer \/ PollMouse \/ Unplug \/ Plug
  BY DEF Next, Main, Transfer, SetAddress, GetDeviceDescriptor1, GetDeviceDescriptor2,
         GetConfigDescriptor1, GetConfigDescriptor2, SetConfiguration, ClassRequestOut,
         GetClassDescriptor21, GetClassDescriptor22, PollTransfer

LEMMA PlaceTypesStep ==
  ASSUME MouseInv, Next
  PROVE  PlaceTypes'
<1>1. PlaceTypes
  BY TypeParts DEF MouseInv
<1> USE DEF PlaceTypes, main, memory, messages, commands, history, ADDRESS, CONFIG2,
            SET_CONFIG, POLL, None
<1>2. CASE HotPlug
  BY <1>1, <1>2 DEF HotPlug, SoftReset
<1>3. CASE FirstAck
  BY <1>1, <1>3 DEF FirstAck, Goto
<1>4. CASE SecondAck
  BY <1>1, <1>4 DEF SecondAck, Goto
<1>5. CASE Probe
  BY <1>1, <1>5 DEF Probe, Goto
<1>6. CASE AwaitDevice
  BY <1>1, <1>6 DEF AwaitDevice, Goto
<1>7. CASE WriteList
  BY <1>1, <1>7 DEF WriteList, Goto, HandOver
<1>8. CASE AwaitFlag
  BY <1>1, <1>8 DEF AwaitFlag, Goto
<1>9. CASE Resend
  BY <1>1, <1>9 DEF Resend, Goto, HandOver
<1>10. CASE ReadMessage
  BY <1>1, <1>10 DEF ReadMessage
<1>11. CASE ClearMessage
  BY <1>1, <1>11 DEF ClearMessage, Goto
<1>12. CASE Check
  BY <1>1, <1>12 DEF Check
<1>13. CASE CheckMessage
  BY <1>1, <1>13 DEF CheckMessage, Goto
<1>14. CASE AwaitAnother
  BY <1>1, <1>14 DEF AwaitAnother, Goto
<1>15. CASE ExtractData
  BY <1>1, <1>15 DEF ExtractData
<1>16. CASE Poll
  BY <1>1, <1>16 DEF Poll, HandOver
<1>17. CASE Decode
  BY <1>1, <1>17 DEF Decode
<1>18. CASE CheckPresence
  BY <1>1, <1>18 DEF CheckPresence, Goto
<1>19. CASE CarryOut \/ SetupTransfer \/ FinishTransfer \/ PollMouse \/ Unplug \/ Plug
  <2>1. UNCHANGED <<pc, step>>
    BY <1>19 DEF CarryOut, Fault, SetupTransfer, Answers, FinishTransfer, PollMouse,
                 Nothing, Delivered, Post, Unplug, Unplugged, Enumerating, Notice, Plug,
                 Plugged
  <2>2. QED
    BY <1>1, <2>1
<1>20. QED
  BY <1>2, <1>3, <1>4, <1>5, <1>6, <1>7, <1>8, <1>9, <1>10, <1>11, <1>12, <1>13, <1>14,
     <1>15, <1>16, <1>17, <1>18, <1>19, Actions

LEMMA LocalTypesStep ==
  ASSUME MouseInv, Next
  PROVE  LocalTypes'
<1>1. LocalTypes /\ MemoryTypes /\ ControllerTypes
  BY TypeParts DEF MouseInv
<1>2. CASE Decode
  <2>1. report \in 0 .. MaxReports /\ decoded \in Seq(0 .. MaxReports)
    BY <1>1 DEF LocalTypes, MemoryTypes
  <2>2. Append(decoded, report) \in Seq(0 .. MaxReports)
    BY <2>1, AppendProperties
  <2>3. decoded' \in Seq(0 .. MaxReports)
    BY <1>2, <2>1, <2>2 DEF Decode
  <2>4. QED
    BY <1>1, <1>2, <2>3 DEF LocalTypes, Decode
<1> USE DEF LocalTypes, MemoryTypes, ControllerTypes, main, memory, messages, commands,
            history, ADDRESS, CONFIG2, SET_CONFIG, POLL, None
<1>3. CASE ReadMessage
  BY <1>1, <1>3 DEF ReadMessage
<1>4. CASE ExtractData
  BY <1>1, <1>4 DEF ExtractData
<1>5. CASE Poll
  BY <1>1, <1>5 DEF Poll, HandOver
<1>6. CASE \/ HotPlug \/ FirstAck \/ SecondAck \/ Probe \/ AwaitDevice \/ WriteList
           \/ AwaitFlag \/ Resend \/ ClearMessage \/ Check \/ CheckMessage \/ AwaitAnother
           \/ CheckPresence \/ CarryOut \/ SetupTransfer \/ FinishTransfer \/ PollMouse
           \/ Unplug \/ Plug
  <2>1. UNCHANGED <<got, toggle, data_size, decoded>>
    BY <1>6 DEF HotPlug, SoftReset, FirstAck, Goto, SecondAck, Probe, AwaitDevice,
                WriteList, HandOver, AwaitFlag, Resend, ClearMessage, Check, CheckMessage,
                AwaitAnother, CheckPresence, CarryOut, Fault, SetupTransfer, Answers,
                FinishTransfer, PollMouse, Nothing, Delivered, Post, Unplug, Unplugged,
                Enumerating, Notice, Plug, Plugged
  <2>2. QED
    BY <1>1, <2>1
<1>7. QED
  BY <1>2, <1>3, <1>4, <1>5, <1>6, Actions

LEMMA MemoryTypesStep ==
  ASSUME MouseInv, Next
  PROVE  MemoryTypes'
<1>1. MemoryTypes /\ MouseTypes /\ PlaceTypes
  BY TypeParts DEF MouseInv
<1> USE DEF MemoryTypes, MouseTypes, PlaceTypes, main, memory, messages, commands, history,
            ADDRESS, CONFIG2, SET_CONFIG, POLL, None
<1>2. CASE WriteList
  BY <1>1, <1>2 DEF WriteList, Goto, HandOver
<1>3. CASE Resend
  BY <1>1, <1>3 DEF Resend, Goto, HandOver
<1>4. CASE Poll
  BY <1>1, <1>4 DEF Poll, HandOver
<1>5. CASE SetupTransfer
  BY <1>1, <1>5 DEF SetupTransfer, Answers, Fault
<1>6. CASE FinishTransfer
  BY <1>1, <1>6 DEF FinishTransfer, Fault
<1>7. CASE PollMouse
  BY <1>1, <1>7, UsbAssumption DEF PollMouse, Nothing, Delivered, Post
<1>8. CASE \/ HotPlug \/ FirstAck \/ SecondAck \/ Probe \/ AwaitDevice \/ AwaitFlag
           \/ ReadMessage \/ ClearMessage \/ Check \/ CheckMessage \/ AwaitAnother
           \/ ExtractData \/ Decode \/ CheckPresence \/ CarryOut \/ Unplug \/ Plug
  <2>1. UNCHANGED <<size_cell, list, control, report>>
    BY <1>8 DEF HotPlug, SoftReset, FirstAck, Goto, SecondAck, Probe, AwaitDevice,
                AwaitFlag, ReadMessage, ClearMessage, Check, CheckMessage, AwaitAnother,
                ExtractData, Decode, CheckPresence, CarryOut, Fault, Unplug, Unplugged,
                Enumerating, Notice, Post, Plug, Plugged
  <2>2. QED
    BY <1>1, <2>1
<1>9. QED
  BY <1>2, <1>3, <1>4, <1>5, <1>6, <1>7, <1>8, Actions

LEMMA ControllerTypesStep ==
  ASSUME MouseInv, Next
  PROVE  ControllerTypes'
<1>1. ControllerTypes
  BY TypeParts DEF MouseInv
<1> USE DEF ControllerTypes, main, memory, messages, commands, history, ADDRESS, CONFIG2,
            SET_CONFIG, POLL, None
<1>2. CASE HotPlug
  BY <1>1, <1>2 DEF HotPlug, SoftReset
<1>3. CASE FirstAck
  BY <1>1, <1>3 DEF FirstAck, Goto
<1>4. CASE WriteList
  BY <1>1, <1>4 DEF WriteList, Goto, HandOver
<1>5. CASE Resend
  BY <1>1, <1>5 DEF Resend, Goto, HandOver
<1>6. CASE ReadMessage
  BY <1>1, <1>6 DEF ReadMessage
<1>7. CASE ClearMessage
  BY <1>1, <1>7 DEF ClearMessage, Goto
<1>8. CASE CheckMessage
  BY <1>1, <1>8 DEF CheckMessage, Goto
<1>9. CASE Poll
  BY <1>1, <1>9 DEF Poll, HandOver
<1>10. CASE CarryOut
  BY <1>1, <1>10 DEF CarryOut, Fault
<1>11. CASE SetupTransfer
  BY <1>1, <1>11 DEF SetupTransfer, Answers, Fault
<1>12. CASE FinishTransfer
  BY <1>1, <1>12 DEF FinishTransfer, Fault
<1>13. CASE PollMouse
  BY <1>1, <1>13 DEF PollMouse, Nothing, Delivered, Post
<1>14. CASE Unplug
  BY <1>1, <1>14 DEF Unplug, Unplugged, Fault, Enumerating, Notice, Post
<1>15. CASE Plug
  BY <1>1, <1>15 DEF Plug, Plugged, Notice, Post
<1>16. CASE \/ SecondAck \/ Probe \/ AwaitDevice \/ AwaitFlag \/ Check \/ AwaitAnother
            \/ ExtractData \/ Decode \/ CheckPresence
  <2>1. UNCHANGED <<msg, flag, mailbox, command, run>>
    BY <1>16 DEF SecondAck, Goto, Probe, AwaitDevice, AwaitFlag, Check, AwaitAnother,
                 ExtractData, Decode, CheckPresence
  <2>2. QED
    BY <1>1, <2>1
<1>17. QED
  BY <1>2, <1>3, <1>4, <1>5, <1>6, <1>7, <1>8, <1>9, <1>10, <1>11, <1>12, <1>13, <1>14,
     <1>15, <1>16, Actions

LEMMA MouseTypesStep ==
  ASSUME MouseInv, Next
  PROVE  MouseTypes'
<1>1. MouseTypes /\ MemoryTypes /\ Labels
  BY TypeParts DEF MouseInv
<1>2. CASE PollMouse
  <2>1. CASE Nothing
    BY <1>1, <2>1 DEF MouseTypes, Nothing
  <2>2. CASE Delivered
    <3>1. mouse.sent + 1 \in 0 .. MaxReports /\ 1 - mouse.sequence \in {0, 1}
      BY <1>1, <2>2, UsbAssumption DEF MouseTypes, Delivered
    <3>2. QED
      BY <1>1, <2>2, <3>1 DEF MouseTypes, Delivered
  <2>3. QED
    BY <1>2, <2>1, <2>2 DEF PollMouse
<1> USE DEF MouseTypes, MemoryTypes, Labels, main, memory, messages, commands, history,
            ADDRESS, CONFIG2, SET_CONFIG, POLL, None
<1>3. CASE CarryOut
  BY <1>1, <1>3 DEF CarryOut, Fault
<1>4. CASE FinishTransfer
  BY <1>1, <1>4 DEF FinishTransfer, Fault
<1>5. CASE Unplug
  BY <1>1, <1>5 DEF Unplug, Unplugged, Fault, Enumerating, Notice, Post
<1>6. CASE Plug
  BY <1>1, <1>6 DEF Plug, Plugged, Notice, Post
<1>7. CASE \/ HotPlug \/ FirstAck \/ SecondAck \/ Probe \/ AwaitDevice \/ WriteList
           \/ AwaitFlag \/ Resend \/ ReadMessage \/ ClearMessage \/ Check \/ CheckMessage
           \/ AwaitAnother \/ ExtractData \/ Poll \/ Decode \/ CheckPresence
           \/ SetupTransfer
  <2>1. UNCHANGED <<mouse>>
    BY <1>7 DEF HotPlug, SoftReset, FirstAck, Goto, SecondAck, Probe, AwaitDevice,
                WriteList, HandOver, AwaitFlag, Resend, ReadMessage, ClearMessage, Check,
                CheckMessage, AwaitAnother, ExtractData, Poll, Decode, CheckPresence,
                SetupTransfer, Answers, Fault
  <2>2. QED
    BY <1>1, <2>1
<1>8. QED
  BY <1>2, <1>3, <1>4, <1>5, <1>6, <1>7, Actions

LEMMA HistoryTypesStep ==
  ASSUME MouseInv, Next
  PROVE  HistoryTypes'
<1>1. HistoryTypes
  BY TypeParts DEF MouseInv
<1> USE DEF HistoryTypes, main, memory, messages, commands, history, ADDRESS, CONFIG2,
            SET_CONFIG, POLL, None
<1>2. CASE HotPlug
  BY <1>1, <1>2 DEF HotPlug, SoftReset
<1>3. CASE FirstAck
  BY <1>1, <1>3 DEF FirstAck, Goto
<1>4. CASE WriteList
  BY <1>1, <1>4 DEF WriteList, Goto, HandOver
<1>5. CASE Resend
  BY <1>1, <1>5 DEF Resend, Goto, HandOver
<1>6. CASE ClearMessage
  BY <1>1, <1>6 DEF ClearMessage, Goto
<1>7. CASE Poll
  BY <1>1, <1>7 DEF Poll, HandOver
<1>8. CASE CarryOut
  BY <1>1, <1>8, UsbAssumption DEF CarryOut, Fault
<1>9. CASE SetupTransfer
  BY <1>1, <1>9, UsbAssumption DEF SetupTransfer, Answers, Fault
<1>10. CASE FinishTransfer
  BY <1>1, <1>10, UsbAssumption DEF FinishTransfer, Fault
<1>11. CASE PollMouse
  BY <1>1, <1>11 DEF PollMouse, Nothing, Delivered, Post
<1>12. CASE Unplug
  BY <1>1, <1>12, UsbAssumption DEF Unplug, Unplugged, Fault, Enumerating, Notice, Post
<1>13. CASE Plug
  BY <1>1, <1>13 DEF Plug, Plugged, Notice, Post
<1>14. CASE \/ SecondAck \/ Probe \/ AwaitDevice \/ AwaitFlag \/ ReadMessage \/ Check
            \/ CheckMessage \/ AwaitAnother \/ ExtractData \/ Decode \/ CheckPresence
  <2>1. UNCHANGED <<skewed, spoilt, faults>>
    BY <1>14 DEF SecondAck, Goto, Probe, AwaitDevice, AwaitFlag, ReadMessage, Check,
                 CheckMessage, AwaitAnother, ExtractData, Decode, CheckPresence
  <2>2. QED
    BY <1>1, <2>1
<1>15. QED
  BY <1>2, <1>3, <1>4, <1>5, <1>6, <1>7, <1>8, <1>9, <1>10, <1>11, <1>12, <1>13, <1>14,
     Actions

LEMMA TypeStep ==
  ASSUME MouseInv, Next
  PROVE  TypeOK'
  BY PlaceTypesStep, LocalTypesStep, MemoryTypesStep, ControllerTypesStep, MouseTypesStep,
     HistoryTypesStep, TypeParts

\* Only HandOver writes a list, and it writes the one of the step.
LEMMA LabelsStep ==
  ASSUME MouseInv, Next
  PROVE  Labels'
<1>1. TypeOK /\ Labels
  BY DEF MouseInv
<1> USE DEF TypeOK, Labels, Waiting, main, memory, messages, commands, history, ADDRESS,
            CONFIG2, SET_CONFIG, POLL, None
<1>2. CASE HotPlug
  BY <1>1, <1>2 DEF HotPlug, SoftReset
<1>3. CASE FirstAck
  BY <1>1, <1>3 DEF FirstAck, Goto
<1>4. CASE SecondAck
  BY <1>1, <1>4 DEF SecondAck, Goto
<1>5. CASE Probe
  BY <1>1, <1>5 DEF Probe, Goto
<1>6. CASE AwaitDevice
  BY <1>1, <1>6 DEF AwaitDevice, Goto
<1>7. CASE WriteList
  BY <1>1, <1>7 DEF WriteList, Goto, HandOver
<1>8. CASE AwaitFlag
  BY <1>1, <1>8 DEF AwaitFlag, Goto
<1>9. CASE Resend
  BY <1>1, <1>9 DEF Resend, Goto, HandOver
<1>10. CASE ReadMessage
  BY <1>1, <1>10 DEF ReadMessage
<1>11. CASE ClearMessage
  BY <1>1, <1>11 DEF ClearMessage, Goto
<1>12. CASE Check
  BY <1>1, <1>12 DEF Check
<1>13. CASE CheckMessage
  BY <1>1, <1>13 DEF CheckMessage, Goto
<1>14. CASE AwaitAnother
  BY <1>1, <1>14 DEF AwaitAnother, Goto
<1>15. CASE ExtractData
  BY <1>1, <1>15 DEF ExtractData
<1>16. CASE Poll
  BY <1>1, <1>16 DEF Poll, HandOver
<1>17. CASE Decode
  BY <1>1, <1>17 DEF Decode
<1>18. CASE CheckPresence
  BY <1>1, <1>18 DEF CheckPresence, Goto
<1>19. CASE CarryOut
  BY <1>1, <1>19 DEF CarryOut, Fault
<1>20. CASE SetupTransfer
  BY <1>1, <1>20 DEF SetupTransfer, Answers, Fault
<1>21. CASE FinishTransfer
  BY <1>1, <1>21 DEF FinishTransfer, Fault
<1>22. CASE PollMouse
  BY <1>1, <1>22 DEF PollMouse, Nothing, Delivered, Post
<1>23. CASE Unplug
  BY <1>1, <1>23 DEF Unplug, Unplugged, Fault, Enumerating, Notice, Post
<1>24. CASE Plug
  BY <1>1, <1>24 DEF Plug, Plugged, Notice, Post
<1>25. QED
  BY <1>2, <1>3, <1>4, <1>5, <1>6, <1>7, <1>8, <1>9, <1>10, <1>11, <1>12, <1>13, <1>14,
     <1>15, <1>16, <1>17, <1>18, <1>19, <1>20, <1>21, <1>22, <1>23, <1>24, Actions

\* A list starts when it is handed over and ends with its message; a second message, or one
\* taken for another, would need one of the causes.
LEMMA CourseStep ==
  ASSUME MouseInv, Next
  PROVE  Course'
<1>1. TypeOK /\ Labels /\ Course /\ ControlByte /\ Undisturbed
  BY DEF MouseInv
<1> USE DEF TypeOK, Labels, Course, ControlByte, Undisturbed, Clean, Served, Waiting,
            MessageDue, main, memory, messages, commands, history, ADDRESS, CONFIG2,
            SET_CONFIG, POLL, None
<1>2. CASE HotPlug
  BY <1>1, <1>2 DEF HotPlug, SoftReset
<1>3. CASE FirstAck
  BY <1>1, <1>3 DEF FirstAck, Goto
<1>4. CASE SecondAck
  BY <1>1, <1>4 DEF SecondAck, Goto
<1>5. CASE Probe
  BY <1>1, <1>5 DEF Probe, Goto
<1>6. CASE AwaitDevice
  BY <1>1, <1>6 DEF AwaitDevice, Goto
<1>7. CASE WriteList
  BY <1>1, <1>7 DEF WriteList, Goto, HandOver
<1>8. CASE AwaitFlag
  BY <1>1, <1>8 DEF AwaitFlag, Goto
<1>9. CASE Resend
  BY <1>1, <1>9 DEF Resend, Goto, HandOver
<1>10. CASE ReadMessage
  BY <1>1, <1>10 DEF ReadMessage
<1>11. CASE ClearMessage
  BY <1>1, <1>11 DEF ClearMessage, Goto
<1>12. CASE Check
  BY <1>1, <1>12 DEF Check
<1>13. CASE CheckMessage
  BY <1>1, <1>13 DEF CheckMessage, Goto
<1>14. CASE AwaitAnother
  BY <1>1, <1>14 DEF AwaitAnother, Goto
<1>15. CASE ExtractData
  BY <1>1, <1>15 DEF ExtractData
<1>16. CASE Poll
  BY <1>1, <1>16 DEF Poll, HandOver
<1>17. CASE Decode
  BY <1>1, <1>17 DEF Decode
<1>18. CASE CheckPresence
  BY <1>1, <1>18 DEF CheckPresence, Goto
<1>19. CASE CarryOut
  BY <1>1, <1>19 DEF CarryOut, Fault
<1>20. CASE SetupTransfer
  BY <1>1, <1>20 DEF SetupTransfer, Answers, Fault
<1>21. CASE FinishTransfer
  BY <1>1, <1>21 DEF FinishTransfer, Fault
<1>22. CASE PollMouse
  BY <1>1, <1>22 DEF PollMouse, Nothing, Delivered, Post
<1>23. CASE Unplug
  BY <1>1, <1>23 DEF Unplug, Unplugged, Fault, Enumerating, Notice, Post
<1>24. CASE Plug
  BY <1>1, <1>24 DEF Plug, Plugged, Notice, Post
<1>25. QED
  BY <1>2, <1>3, <1>4, <1>5, <1>6, <1>7, <1>8, <1>9, <1>10, <1>11, <1>12, <1>13, <1>14,
     <1>15, <1>16, <1>17, <1>18, <1>19, <1>20, <1>21, <1>22, <1>23, <1>24, Actions

\* HandOver marks the list active, the controller overwrites the mark.
LEMMA ControlByteStep ==
  ASSUME MouseInv, Next
  PROVE  ControlByte'
<1>1. TypeOK /\ Labels /\ Course /\ ControlByte
  BY DEF MouseInv
<1> USE DEF TypeOK, Labels, Course, ControlByte, Clean, Served, Waiting, MessageDue, main,
            memory, messages, commands, history, ADDRESS, CONFIG2, SET_CONFIG, POLL, None
<1>2. CASE HotPlug
  BY <1>1, <1>2 DEF HotPlug, SoftReset
<1>3. CASE FirstAck
  BY <1>1, <1>3 DEF FirstAck, Goto
<1>4. CASE SecondAck
  BY <1>1, <1>4 DEF SecondAck, Goto
<1>5. CASE Probe
  BY <1>1, <1>5 DEF Probe, Goto
<1>6. CASE AwaitDevice
  BY <1>1, <1>6 DEF AwaitDevice, Goto
<1>7. CASE WriteList
  BY <1>1, <1>7 DEF WriteList, Goto, HandOver
<1>8. CASE AwaitFlag
  BY <1>1, <1>8 DEF AwaitFlag, Goto
<1>9. CASE Resend
  BY <1>1, <1>9 DEF Resend, Goto, HandOver
<1>10. CASE ReadMessage
  BY <1>1, <1>10 DEF ReadMessage
<1>11. CASE ClearMessage
  BY <1>1, <1>11 DEF ClearMessage, Goto
<1>12. CASE Check
  BY <1>1, <1>12 DEF Check
<1>13. CASE CheckMessage
  BY <1>1, <1>13 DEF CheckMessage, Goto
<1>14. CASE AwaitAnother
  BY <1>1, <1>14 DEF AwaitAnother, Goto
<1>15. CASE ExtractData
  BY <1>1, <1>15 DEF ExtractData
<1>16. CASE Poll
  BY <1>1, <1>16 DEF Poll, HandOver
<1>17. CASE Decode
  BY <1>1, <1>17 DEF Decode
<1>18. CASE CheckPresence
  BY <1>1, <1>18 DEF CheckPresence, Goto
<1>19. CASE CarryOut
  BY <1>1, <1>19 DEF CarryOut, Fault
<1>20. CASE SetupTransfer
  BY <1>1, <1>20 DEF SetupTransfer, Answers, Fault
<1>21. CASE FinishTransfer
  BY <1>1, <1>21 DEF FinishTransfer, Fault
<1>22. CASE PollMouse
  BY <1>1, <1>22 DEF PollMouse, Nothing, Delivered, Post
<1>23. CASE Unplug
  BY <1>1, <1>23 DEF Unplug, Unplugged, Fault, Enumerating, Notice, Post
<1>24. CASE Plug
  BY <1>1, <1>24 DEF Plug, Plugged, Notice, Post
<1>25. QED
  BY <1>2, <1>3, <1>4, <1>5, <1>6, <1>7, <1>8, <1>9, <1>10, <1>11, <1>12, <1>13, <1>14,
     <1>15, <1>16, <1>17, <1>18, <1>19, <1>20, <1>21, <1>22, <1>23, <1>24, Actions

\* Unplugging an enumerated mouse is a cause; the reset command is carried out before the
\* first SETUP, which waits for it.
LEMMA UndisturbedStep ==
  ASSUME MouseInv, Next
  PROVE  Undisturbed'
<1>1. TypeOK /\ Labels /\ Course /\ ControlByte /\ Undisturbed
  BY DEF MouseInv
<1>2. CASE Unplug
  <2>1. CASE Enumerating
    <3>1. "unplugged" \in spoilt'
      BY <1>2, <2>1 DEF Unplug
    <3>2. ~Clean'
      BY <3>1 DEF Clean
    <3>3. QED
      BY <3>2 DEF Undisturbed
  <2>2. CASE ~Enumerating
    <3>1. UNCHANGED <<pc, step, control, command, run>> /\ (spoilt' = {} => spoilt = {})
      BY <1>2, <2>2 DEF Unplug, Notice, Post, main, memory, commands, messages
    <3>2. QED
      BY <1>1, <2>2, <3>1 DEF Undisturbed, Enumerating, Clean, Served, TypeOK, ADDRESS, POLL
  <2>3. QED
    BY <2>1, <2>2
<1> USE DEF TypeOK, Labels, Course, ControlByte, Undisturbed, Clean, Served, Waiting,
            MessageDue, main, memory, messages, commands, history, ADDRESS, CONFIG2,
            SET_CONFIG, POLL, None
<1>3. CASE HotPlug
  BY <1>1, <1>3 DEF HotPlug, SoftReset
<1>4. CASE FirstAck
  BY <1>1, <1>4 DEF FirstAck, Goto
<1>5. CASE SecondAck
  BY <1>1, <1>5 DEF SecondAck, Goto
<1>6. CASE Probe
  BY <1>1, <1>6 DEF Probe, Goto
<1>7. CASE AwaitDevice
  BY <1>1, <1>7 DEF AwaitDevice, Goto
<1>8. CASE WriteList
  BY <1>1, <1>8 DEF WriteList, Goto, HandOver
<1>9. CASE AwaitFlag
  BY <1>1, <1>9 DEF AwaitFlag, Goto
<1>10. CASE Resend
  BY <1>1, <1>10 DEF Resend, Goto, HandOver
<1>11. CASE ReadMessage
  BY <1>1, <1>11 DEF ReadMessage
<1>12. CASE ClearMessage
  BY <1>1, <1>12 DEF ClearMessage, Goto
<1>13. CASE Check
  BY <1>1, <1>13 DEF Check
<1>14. CASE CheckMessage
  BY <1>1, <1>14 DEF CheckMessage, Goto
<1>15. CASE AwaitAnother
  BY <1>1, <1>15 DEF AwaitAnother, Goto
<1>16. CASE ExtractData
  BY <1>1, <1>16 DEF ExtractData
<1>17. CASE Poll
  BY <1>1, <1>17 DEF Poll, HandOver
<1>18. CASE Decode
  BY <1>1, <1>18 DEF Decode
<1>19. CASE CheckPresence
  BY <1>1, <1>19 DEF CheckPresence, Goto
<1>20. CASE CarryOut
  BY <1>1, <1>20 DEF CarryOut, Fault
<1>21. CASE SetupTransfer
  BY <1>1, <1>21 DEF SetupTransfer, Answers, Fault
<1>22. CASE FinishTransfer
  BY <1>1, <1>22 DEF FinishTransfer, Fault
<1>23. CASE PollMouse
  BY <1>1, <1>23 DEF PollMouse, Nothing, Delivered, Post
<1>24. CASE Plug
  BY <1>1, <1>24 DEF Plug, Plugged, Notice, Post
<1>25. QED
  BY <1>2, <1>3, <1>4, <1>5, <1>6, <1>7, <1>8, <1>9, <1>10, <1>11, <1>12, <1>13, <1>14,
     <1>15, <1>16, <1>17, <1>18, <1>19, <1>20, <1>21, <1>22, <1>23, <1>24, Actions

\* A step goes up only after its list has passed, and then the mouse has carried it out.
LEMMA CarriedStep ==
  ASSUME MouseInv, Next
  PROVE  Carried'
<1>1. TypeOK /\ Labels /\ Course /\ ControlByte /\ Undisturbed /\ Carried
  BY DEF MouseInv
<1>2. CASE PollMouse
  <2>1. /\ UNCHANGED <<pc, step>> /\ list = POLL /\ run = "start"
        /\ mouse'.did = mouse.did /\ mouse'.on = mouse.on /\ (spoilt' = {} => spoilt = {})
    BY <1>1, <1>2 DEF TypeOK, PollMouse, Nothing, Delivered, Post, main
  <2>2. Clean' => Clean /\ step = POLL
    BY <1>1, <2>1 DEF Clean, Served, Labels, Course, MessageDue
  <2>3. QED
    BY <1>1, <2>1, <2>2 DEF Carried, POLL
<1> USE DEF TypeOK, Labels, Course, ControlByte, Undisturbed, Carried, Clean, Served,
            Waiting, MessageDue, main, memory, messages, commands, history, ADDRESS,
            CONFIG2, SET_CONFIG, POLL, None
<1>3. CASE HotPlug
  BY <1>1, <1>3 DEF HotPlug, SoftReset
<1>4. CASE FirstAck
  BY <1>1, <1>4 DEF FirstAck, Goto
<1>5. CASE SecondAck
  BY <1>1, <1>5 DEF SecondAck, Goto
<1>6. CASE Probe
  BY <1>1, <1>6 DEF Probe, Goto
<1>7. CASE AwaitDevice
  BY <1>1, <1>7 DEF AwaitDevice, Goto
<1>8. CASE WriteList
  BY <1>1, <1>8 DEF WriteList, Goto, HandOver
<1>9. CASE AwaitFlag
  BY <1>1, <1>9 DEF AwaitFlag, Goto
<1>10. CASE Resend
  BY <1>1, <1>10 DEF Resend, Goto, HandOver
<1>11. CASE ReadMessage
  BY <1>1, <1>11 DEF ReadMessage
<1>12. CASE ClearMessage
  BY <1>1, <1>12 DEF ClearMessage, Goto
<1>13. CASE Check
  BY <1>1, <1>13 DEF Check
<1>14. CASE CheckMessage
  BY <1>1, <1>14 DEF CheckMessage, Goto
<1>15. CASE AwaitAnother
  BY <1>1, <1>15 DEF AwaitAnother, Goto
<1>16. CASE ExtractData
  BY <1>1, <1>16 DEF ExtractData
<1>17. CASE Poll
  BY <1>1, <1>17 DEF Poll, HandOver
<1>18. CASE Decode
  BY <1>1, <1>18 DEF Decode
<1>19. CASE CheckPresence
  BY <1>1, <1>19 DEF CheckPresence, Goto
<1>20. CASE CarryOut
  BY <1>1, <1>20 DEF CarryOut, Fault
<1>21. CASE SetupTransfer
  BY <1>1, <1>21 DEF SetupTransfer, Answers, Fault
<1>22. CASE FinishTransfer
  BY <1>1, <1>22 DEF FinishTransfer, Fault
<1>23. CASE Unplug
  BY <1>1, <1>23 DEF Unplug, Unplugged, Fault, Enumerating, Notice, Post
<1>24. CASE Plug
  BY <1>1, <1>24 DEF Plug, Plugged, Notice, Post
<1>25. QED
  BY <1>2, <1>3, <1>4, <1>5, <1>6, <1>7, <1>8, <1>9, <1>10, <1>11, <1>12, <1>13, <1>14,
     <1>15, <1>16, <1>17, <1>18, <1>19, <1>20, <1>21, <1>22, <1>23, <1>24, Actions

\* The descriptor is read once per session, from the mouse that stays until the next one.
LEMMA SizeReadStep ==
  ASSUME MouseInv, Next
  PROVE  SizeRead'
<1>1. TypeOK /\ Labels /\ Course /\ Undisturbed /\ Carried /\ SizeRead
  BY DEF MouseInv
<1> USE DEF TypeOK, Labels, Course, Undisturbed, Carried, SizeRead, Clean, Served, Waiting,
            MessageDue, main, memory, messages, commands, history, ADDRESS, CONFIG2,
            SET_CONFIG, POLL, None
<1>2. CASE HotPlug
  BY <1>1, <1>2 DEF HotPlug, SoftReset
<1>3. CASE FirstAck
  BY <1>1, <1>3 DEF FirstAck, Goto
<1>4. CASE SecondAck
  BY <1>1, <1>4 DEF SecondAck, Goto
<1>5. CASE Probe
  BY <1>1, <1>5 DEF Probe, Goto
<1>6. CASE AwaitDevice
  BY <1>1, <1>6 DEF AwaitDevice, Goto
<1>7. CASE WriteList
  BY <1>1, <1>7 DEF WriteList, Goto, HandOver
<1>8. CASE AwaitFlag
  BY <1>1, <1>8 DEF AwaitFlag, Goto
<1>9. CASE Resend
  BY <1>1, <1>9 DEF Resend, Goto, HandOver
<1>10. CASE ReadMessage
  BY <1>1, <1>10 DEF ReadMessage
<1>11. CASE ClearMessage
  BY <1>1, <1>11 DEF ClearMessage, Goto
<1>12. CASE Check
  BY <1>1, <1>12 DEF Check
<1>13. CASE CheckMessage
  BY <1>1, <1>13 DEF CheckMessage, Goto
<1>14. CASE AwaitAnother
  BY <1>1, <1>14 DEF AwaitAnother, Goto
<1>15. CASE ExtractData
  BY <1>1, <1>15 DEF ExtractData
<1>16. CASE Poll
  BY <1>1, <1>16 DEF Poll, HandOver
<1>17. CASE Decode
  BY <1>1, <1>17 DEF Decode
<1>18. CASE CheckPresence
  BY <1>1, <1>18 DEF CheckPresence, Goto
<1>19. CASE CarryOut
  BY <1>1, <1>19 DEF CarryOut, Fault
<1>20. CASE SetupTransfer
  BY <1>1, <1>20 DEF SetupTransfer, Answers, Fault
<1>21. CASE FinishTransfer
  BY <1>1, <1>21 DEF FinishTransfer, Fault
<1>22. CASE PollMouse
  BY <1>1, <1>22 DEF PollMouse, Nothing, Delivered, Post
<1>23. CASE Unplug
  BY <1>1, <1>23 DEF Unplug, Unplugged, Fault, Enumerating, Notice, Post
<1>24. CASE Plug
  BY <1>1, <1>24 DEF Plug, Plugged, Notice, Post
<1>25. QED
  BY <1>2, <1>3, <1>4, <1>5, <1>6, <1>7, <1>8, <1>9, <1>10, <1>11, <1>12, <1>13, <1>14,
     <1>15, <1>16, <1>17, <1>18, <1>19, <1>20, <1>21, <1>22, <1>23, <1>24, Actions

\* Nothing is polled before the first enumeration has ended, and then the mouse stays.
LEMMA FirstMouseStep ==
  ASSUME MouseInv, Next
  PROVE  FirstMouse'
<1>1. TypeOK /\ Labels /\ FirstMouse
  BY DEF MouseInv
<1> USE DEF TypeOK, Labels, FirstMouse, Waiting, Served, main, memory, messages, commands,
            history, ADDRESS, CONFIG2, SET_CONFIG, POLL, None
<1>2. CASE HotPlug
  BY <1>1, <1>2 DEF HotPlug, SoftReset
<1>3. CASE FirstAck
  BY <1>1, <1>3 DEF FirstAck, Goto
<1>4. CASE SecondAck
  BY <1>1, <1>4 DEF SecondAck, Goto
<1>5. CASE Probe
  BY <1>1, <1>5 DEF Probe, Goto
<1>6. CASE AwaitDevice
  BY <1>1, <1>6 DEF AwaitDevice, Goto
<1>7. CASE WriteList
  BY <1>1, <1>7 DEF WriteList, Goto, HandOver
<1>8. CASE AwaitFlag
  BY <1>1, <1>8 DEF AwaitFlag, Goto
<1>9. CASE Resend
  BY <1>1, <1>9 DEF Resend, Goto, HandOver
<1>10. CASE ReadMessage
  BY <1>1, <1>10 DEF ReadMessage
<1>11. CASE ClearMessage
  BY <1>1, <1>11 DEF ClearMessage, Goto
<1>12. CASE Check
  BY <1>1, <1>12 DEF Check
<1>13. CASE CheckMessage
  BY <1>1, <1>13 DEF CheckMessage, Goto
<1>14. CASE AwaitAnother
  BY <1>1, <1>14 DEF AwaitAnother, Goto
<1>15. CASE ExtractData
  BY <1>1, <1>15 DEF ExtractData
<1>16. CASE Poll
  BY <1>1, <1>16 DEF Poll, HandOver
<1>17. CASE Decode
  BY <1>1, <1>17 DEF Decode
<1>18. CASE CheckPresence
  BY <1>1, <1>18 DEF CheckPresence, Goto
<1>19. CASE CarryOut
  BY <1>1, <1>19 DEF CarryOut, Fault
<1>20. CASE SetupTransfer
  BY <1>1, <1>20 DEF SetupTransfer, Answers, Fault
<1>21. CASE FinishTransfer
  BY <1>1, <1>21 DEF FinishTransfer, Fault
<1>22. CASE PollMouse
  BY <1>1, <1>22 DEF PollMouse, Nothing, Delivered, Post
<1>23. CASE Unplug
  BY <1>1, <1>23 DEF Unplug, Unplugged, Fault, Enumerating, Notice, Post
<1>24. CASE Plug
  BY <1>1, <1>24 DEF Plug, Plugged, Notice, Post
<1>25. QED
  BY <1>2, <1>3, <1>4, <1>5, <1>6, <1>7, <1>8, <1>9, <1>10, <1>11, <1>12, <1>13, <1>14,
     <1>15, <1>16, <1>17, <1>18, <1>19, <1>20, <1>21, <1>22, <1>23, <1>24, Actions

\* Poll flips the program's toggle, Delivered the mouse's, and they alternate.
LEMMA LockstepStep ==
  ASSUME MouseInv, Next
  PROVE  Lockstep'
<1>1. TypeOK /\ Labels /\ Course /\ ControlByte /\ Undisturbed /\ FirstMouse /\ Lockstep
  BY DEF MouseInv
<1>2. CASE Check
  <2>1. CASE step' = POLL
    <3>1. step # POLL /\ UNCHANGED <<mouse, decoded, toggle, run, spoilt, skewed>>
          /\ pc' = "poll"
      BY <1>1, <1>2, <2>1 DEF Check, TypeOK, history, commands, CONFIG2, POLL
    <3>2. Clean' => run = "idle"
      BY <1>1, <1>2, <3>1 DEF Check, Course, Clean, Served, Waiting
    <3>3. ~skewed => mouse.sent = 0 /\ decoded = UpTo(0) /\ toggle = mouse.sequence
      BY <1>1, <3>1, UpToZero DEF FirstMouse
    <3>4. QED
      BY <3>1, <3>2, <3>3 DEF Lockstep, Waiting
  <2>2. CASE step' # POLL
    BY <2>2 DEF Lockstep
  <2>3. QED
    BY <2>1, <2>2
<1>3. CASE Decode
  <2>1. SUFFICES ASSUME Clean', ~skewed', step' = POLL
                 PROVE  run' # "start" /\ toggle' = mouse'.sequence /\ decoded' = UpTo(mouse'.sent)
                        /\ ~Waiting' /\ pc' # "check"
    BY DEF Lockstep
  <2>2. /\ pc = "check" /\ step = POLL /\ ~skewed /\ Clean
        /\ UNCHANGED <<mouse, toggle, run>> /\ pc' = "present"
        /\ decoded' = IF control = "passed" THEN Append(decoded, report) ELSE decoded
    BY <1>3, <2>1 DEF Decode, Clean, Served, history
  <2>3. run = "idle"
    BY <1>1, <2>2 DEF Course, Waiting
  <2>4. /\ toggle = mouse.sequence /\ control = "passed"
        /\ mouse.sent > 0 /\ report = mouse.sent /\ decoded = UpTo(mouse.sent - 1)
    BY <1>1, <2>2, <2>3 DEF Lockstep
  <2>5. mouse.sent \in Nat
    BY <1>1 DEF TypeOK
  <2>6. decoded' = UpTo(mouse.sent)
    BY <2>2, <2>4, <2>5, UpToAppend
  <2>7. QED
    BY <2>2, <2>3, <2>4, <2>6 DEF Waiting
<1>4. CASE PollMouse
  <2>1. SUFFICES ASSUME Clean', ~skewed', step' = POLL
                 PROVE  /\ run' # "start" /\ Waiting'
                        /\ toggle' = mouse'.sequence /\ control' = "passed"
                        /\ mouse'.sent > 0 /\ report' = mouse'.sent
                        /\ decoded' = UpTo(mouse'.sent - 1)
    BY DEF Lockstep
  <2>2. /\ Delivered /\ run = "start" /\ run' = "idle" /\ step = POLL /\ ~skewed
        /\ UNCHANGED <<pc, toggle, decoded>> /\ Clean
    BY <1>4, <2>1 DEF PollMouse, Nothing, Delivered, Post, Clean, Served, main
  <2>3. Waiting
    BY <1>1, <2>2 DEF Course
  <2>4. toggle # mouse.sequence /\ decoded = UpTo(mouse.sent)
    BY <1>1, <2>2 DEF Lockstep
  <2>5. /\ mouse.sent \in Nat /\ mouse.sequence \in {0, 1} /\ toggle \in {0, 1}
        /\ mouse = [on |-> mouse.on, did |-> mouse.did, size |-> mouse.size,
                    sequence |-> mouse.sequence, sent |-> mouse.sent]
    BY <1>1 DEF TypeOK
  <2>6. /\ mouse'.sent = mouse.sent + 1 /\ mouse'.sequence = 1 - mouse.sequence
        /\ control' = "passed" /\ report' = mouse.sent + 1
    BY <2>2, <2>4, <2>5 DEF Delivered
  <2>7. mouse'.sent - 1 = mouse.sent
    BY <2>5, <2>6
  <2>8. QED
    BY <2>2, <2>3, <2>4, <2>5, <2>6, <2>7 DEF Waiting
<1> USE DEF TypeOK, Labels, Course, ControlByte, Undisturbed, FirstMouse, Lockstep, Clean,
            Served, Waiting, MessageDue, main, memory, messages, commands, history, ADDRESS,
            CONFIG2, SET_CONFIG, POLL, None
<1>5. CASE HotPlug
  BY <1>1, <1>5 DEF HotPlug, SoftReset
<1>6. CASE FirstAck
  BY <1>1, <1>6 DEF FirstAck, Goto
<1>7. CASE SecondAck
  BY <1>1, <1>7 DEF SecondAck, Goto
<1>8. CASE Probe
  BY <1>1, <1>8 DEF Probe, Goto
<1>9. CASE AwaitDevice
  BY <1>1, <1>9 DEF AwaitDevice, Goto
<1>10. CASE WriteList
  BY <1>1, <1>10 DEF WriteList, Goto, HandOver
<1>11. CASE AwaitFlag
  BY <1>1, <1>11 DEF AwaitFlag, Goto
<1>12. CASE Resend
  BY <1>1, <1>12 DEF Resend, Goto, HandOver
<1>13. CASE ReadMessage
  BY <1>1, <1>13 DEF ReadMessage
<1>14. CASE ClearMessage
  BY <1>1, <1>14 DEF ClearMessage, Goto
<1>15. CASE CheckMessage
  BY <1>1, <1>15 DEF CheckMessage, Goto
<1>16. CASE AwaitAnother
  BY <1>1, <1>16 DEF AwaitAnother, Goto
<1>17. CASE ExtractData
  BY <1>1, <1>17 DEF ExtractData
<1>18. CASE Poll
  BY <1>1, <1>18 DEF Poll, HandOver
<1>19. CASE CheckPresence
  BY <1>1, <1>19 DEF CheckPresence, Goto
<1>20. CASE CarryOut
  BY <1>1, <1>20 DEF CarryOut, Fault
<1>21. CASE SetupTransfer
  BY <1>1, <1>21 DEF SetupTransfer, Answers, Fault
<1>22. CASE FinishTransfer
  BY <1>1, <1>22 DEF FinishTransfer, Fault
<1>23. CASE Unplug
  BY <1>1, <1>23 DEF Unplug, Unplugged, Fault, Enumerating, Notice, Post
<1>24. CASE Plug
  BY <1>1, <1>24 DEF Plug, Plugged, Notice, Post
<1>25. QED
  BY <1>2, <1>3, <1>4, <1>5, <1>6, <1>7, <1>8, <1>9, <1>10, <1>11, <1>12, <1>13, <1>14,
     <1>15, <1>16, <1>17, <1>18, <1>19, <1>20, <1>21, <1>22, <1>23, <1>24, Actions

\* A poll that passes brings a report newer than all decoded ones, and is decoded once.
LEMMA ReportOrderStep ==
  ASSUME MouseInv, Next
  PROVE  ReportOrder'
<1>1. TypeOK /\ Labels /\ ReportOrder
  BY DEF MouseInv
<1>2. CASE Decode
  <2>1. /\ pc = "check" /\ step = POLL /\ UNCHANGED <<mouse, report>> /\ pc' = "present"
        /\ decoded' = IF control = "passed" THEN Append(decoded, report) ELSE decoded
    BY <1>2 DEF Decode, memory
  <2>2. ~Fresh'
    BY <2>1 DEF Fresh, Waiting
  <2>3. CASE control # "passed"
    BY <1>1, <2>1, <2>2, <2>3 DEF ReportOrder
  <2>4. CASE control = "passed"
    <3>1. /\ report \in Int /\ Len(decoded) \in Nat /\ DOMAIN decoded = 1 .. Len(decoded)
          /\ \A i \in DOMAIN decoded : decoded[i] \in Int
          /\ decoded \in Seq(0 .. MaxReports) /\ report \in 0 .. MaxReports
      BY <1>1, DecodedTypes
    <3>2. \A i \in 1 .. Len(decoded) : decoded[i] < report /\ decoded[i] \in Int
      BY <1>1, <2>1, <2>4, <3>1 DEF ReportOrder, Fresh
    <3>3. \A i, j \in 1 .. Len(decoded) : i < j => decoded[i] < decoded[j]
      BY <1>1, <3>1 DEF ReportOrder
    <3>4. /\ DOMAIN decoded' = 1 .. Len(decoded) + 1
          /\ \A i \in 1 .. Len(decoded) : decoded'[i] = decoded[i]
          /\ decoded'[Len(decoded) + 1] = report
      BY <2>1, <2>4, <3>1, AppendProperties
    <3>5. \A i \in DOMAIN decoded' : decoded'[i] <= report
      BY <3>1, <3>2, <3>4
    <3>6. \A i, j \in DOMAIN decoded' : i < j => decoded'[i] < decoded'[j]
      BY <3>1, <3>2, <3>3, <3>4
    <3>7. QED
      BY <1>1, <2>1, <2>2, <3>5, <3>6 DEF ReportOrder
  <2>5. QED
    BY <2>3, <2>4
<1>3. CASE PollMouse
  <2>1. /\ mouse.sent \in Int /\ report \in Int /\ UNCHANGED decoded
        /\ DOMAIN decoded = 1 .. Len(decoded) /\ \A i \in DOMAIN decoded : decoded[i] \in Int
    BY <1>1, <1>3, DecodedTypes DEF PollMouse, main
  <2>2. CASE report' = mouse.sent + 1 /\ mouse'.sent = mouse.sent + 1
    BY <1>1, <2>1, <2>2 DEF ReportOrder
  <2>3. CASE UNCHANGED report /\ control' # "passed" /\ mouse'.sent >= mouse.sent
    <3>1. mouse'.sent \in Int
      BY TypeStep, <2>1 DEF TypeOK
    <3>2. QED
      BY <1>1, <2>1, <2>3, <3>1 DEF ReportOrder, Fresh
  <2>4. CASE Nothing
    BY <1>3, <2>1, <2>3, <2>4 DEF Nothing
  <2>5. CASE Delivered
    <3>1. mouse'.sent = mouse.sent + 1
      BY <1>1, <2>5 DEF TypeOK, Delivered
    <3>2. QED
      BY <1>3, <2>1, <2>2, <2>3, <2>5, <3>1 DEF Delivered
  <2>6. QED
    BY <1>3, <2>4, <2>5 DEF PollMouse
<1> USE DEF TypeOK, Labels, ReportOrder, Fresh, Waiting, main, memory, messages, commands,
            history, ADDRESS, CONFIG2, SET_CONFIG, POLL, None
<1>4. CASE HotPlug
  BY <1>1, <1>4 DEF HotPlug, SoftReset
<1>5. CASE FirstAck
  BY <1>1, <1>5 DEF FirstAck, Goto
<1>6. CASE SecondAck
  BY <1>1, <1>6 DEF SecondAck, Goto
<1>7. CASE Probe
  BY <1>1, <1>7 DEF Probe, Goto
<1>8. CASE AwaitDevice
  BY <1>1, <1>8 DEF AwaitDevice, Goto
<1>9. CASE WriteList
  BY <1>1, <1>9 DEF WriteList, Goto, HandOver
<1>10. CASE AwaitFlag
  BY <1>1, <1>10 DEF AwaitFlag, Goto
<1>11. CASE Resend
  BY <1>1, <1>11 DEF Resend, Goto, HandOver
<1>12. CASE ReadMessage
  BY <1>1, <1>12 DEF ReadMessage
<1>13. CASE ClearMessage
  BY <1>1, <1>13 DEF ClearMessage, Goto
<1>14. CASE Check
  BY <1>1, <1>14 DEF Check
<1>15. CASE CheckMessage
  BY <1>1, <1>15 DEF CheckMessage, Goto
<1>16. CASE AwaitAnother
  BY <1>1, <1>16 DEF AwaitAnother, Goto
<1>17. CASE ExtractData
  BY <1>1, <1>17 DEF ExtractData
<1>18. CASE Poll
  BY <1>1, <1>18 DEF Poll, HandOver
<1>19. CASE CheckPresence
  BY <1>1, <1>19 DEF CheckPresence, Goto
<1>20. CASE CarryOut
  BY <1>1, <1>20 DEF CarryOut, Fault
<1>21. CASE SetupTransfer
  BY <1>1, <1>21 DEF SetupTransfer, Answers, Fault
<1>22. CASE FinishTransfer
  BY <1>1, <1>22 DEF FinishTransfer, Fault
<1>23. CASE Unplug
  BY <1>1, <1>23 DEF Unplug, Unplugged, Fault, Enumerating, Notice, Post
<1>24. CASE Plug
  BY <1>1, <1>24 DEF Plug, Plugged, Notice, Post
<1>25. QED
  BY <1>2, <1>3, <1>4, <1>5, <1>6, <1>7, <1>8, <1>9, <1>10, <1>11, <1>12, <1>13, <1>14,
     <1>15, <1>16, <1>17, <1>18, <1>19, <1>20, <1>21, <1>22, <1>23, <1>24, Actions

LEMMA MouseInit == Init => MouseInv
<1>1. SUFFICES ASSUME Init PROVE MouseInv
  OBVIOUS
<1>2. TypeOK
  <2>1. PlaceTypes
    BY <1>1 DEF Init, PlaceTypes, ADDRESS, POLL
  <2>2. LocalTypes
    BY <1>1 DEF Init, LocalTypes, None
  <2>3. 0 \in 0 .. MaxReports /\ 0 \in 0 .. MaxFaults
    BY UsbAssumption
  <2>4. MemoryTypes /\ ControllerTypes /\ HistoryTypes
    <3>1. MemoryTypes
      BY <1>1, <2>3 DEF Init, MemoryTypes, POLL, None
    <3>2. ControllerTypes
      BY <1>1 DEF Init, ControllerTypes
    <3>3. HistoryTypes
      BY <1>1, <2>3 DEF Init, HistoryTypes
    <3>4. QED
      BY <3>1, <3>2, <3>3
  <2>5. MouseTypes
    <3>1. CASE mouse = Unplugged
      BY <2>3, <3>1 DEF MouseTypes, Unplugged, None
    <3>2. CASE \E s \in Sizes : mouse = Plugged(s, 0)
      BY <2>3, <3>2 DEF MouseTypes, Plugged, None
    <3>3. QED
      BY <1>1, <3>1, <3>2 DEF Init
  <2>6. QED
    BY <2>1, <2>2, <2>4, <2>5, TypeParts
<1>3. ~Served /\ ~Clean /\ ~Waiting /\ pc = "reset" /\ step = ADDRESS /\ run = "idle"
  BY <1>1 DEF Init, Served, Clean, Waiting
<1>4. Labels /\ Course /\ ControlByte /\ Undisturbed /\ Carried /\ Lockstep
  BY <1>3 DEF Labels, Course, ControlByte, Undisturbed, Carried, Lockstep
<1>5. mouse.did = {} /\ mouse.sent = 0 /\ mouse.sequence = 0
  BY <1>1 DEF Init, Unplugged, Plugged
<1>6. SizeRead
  BY <1>3, <1>5 DEF SizeRead
<1>7. ReportOrder
  BY <1>1, <1>5 DEF Init, ReportOrder, None
<1>8. FirstMouse
  BY <1>1, <1>3, <1>5 DEF Init, FirstMouse, ADDRESS, POLL, None
<1>9. QED
  BY <1>2, <1>4, <1>6, <1>7, <1>8 DEF MouseInv

LEMMA MouseStep == MouseInv /\ [Next]_vars => MouseInv'
<1>1. SUFFICES ASSUME MouseInv, [Next]_vars PROVE MouseInv'
  OBVIOUS
<1>2. CASE Next
  BY <1>1, <1>2, TypeStep, LabelsStep, CourseStep, ControlByteStep, UndisturbedStep, CarriedStep,
     SizeReadStep, ReportOrderStep, FirstMouseStep, LockstepStep
     DEF MouseInv
<1>3. CASE UNCHANGED vars
  BY <1>1, <1>3
     DEF vars, main, memory, messages, commands, history, MouseInv, TypeOK, Labels, Course,
         ControlByte, Undisturbed, Carried, SizeRead, ReportOrder, FirstMouse, Lockstep,
         Clean, Served, Waiting, MessageDue, Fresh
<1>4. QED
  BY <1>1, <1>2, <1>3

----------------------------------------------------------------------------
(* Theorems. *)

\* What main believes of controller and mouse between any two of their steps.
THEOREM MouseInvariance == Spec => []MouseInv
  BY MouseInit, MouseStep, PTL DEF Spec

\* Locals, memory of the controller and device stay what they are.
THEOREM MouseTypeCorrect == Spec => []TypeOK
<1>1. MouseInv => TypeOK
  BY DEF MouseInv
<1>2. QED
  BY <1>1, MouseInvariance, PTL

\* In a session without one of the named causes, each transfer of main's enumeration that
\* counts as passed was carried out by the mouse that is there, after its last reset.
THEOREM EnumerationCorrect == Spec => []EnumeratedInOrder
<1>1. MouseInv => EnumeratedInOrder
  <2>1. SUFFICES ASSUME MouseInv, spoilt = {}, mouse.on,
                        pc \notin {"reset", "ack1", "ack2", "probe", "absent"}
                 PROVE  1 .. step - 1 \ {POLL} \subseteq mouse.did
    BY DEF MouseInv, EnumeratedInOrder
  <2>2. 1 .. step - 1 \subseteq mouse.did
    BY <2>1 DEF MouseInv, Carried, Clean, Served
  <2>3. QED
    BY <2>2
<1>2. QED
  BY <1>1, MouseInvariance, PTL

\* data_size is the packet size of the mouse main polls, also after an exchange.
THEOREM SizeCorrect == Spec => []SizeOfThisMouse
<1>1. MouseInv => SizeOfThisMouse
  BY DEF MouseInv, SizeOfThisMouse, Polling, SizeRead, Clean, Served, Labels,
         CONFIG2, SET_CONFIG, POLL
<1>2. QED
  BY <1>1, MouseInvariance, PTL

\* main decodes no report twice or late, whatever has gone wrong, and with the first mouse
\* and a report for every poll it decodes them all: its toggle and the mouse's keep step.
THEOREM ReportsCorrect == Spec => []ReportsComplete
<1>1. MouseInv => ReportsComplete
  <2>1. SUFFICES ASSUME MouseInv, ~skewed, spoilt = {}, pc = "present"
                 PROVE  decoded = UpTo(mouse.sent)
    BY DEF MouseInv, ReportOrder, ReportsComplete, UpTo
  <2>2. Clean /\ ~Waiting /\ step = POLL
    BY <2>1 DEF MouseInv, Labels, Clean, Served, Waiting
  <2>3. run = "idle"
    BY <2>1, <2>2 DEF MouseInv, Course
  <2>4. QED
    BY <2>1, <2>2, <2>3 DEF MouseInv, Lockstep
<1>2. QED
  BY <1>1, MouseInvariance, PTL

\* Unless one of the named causes occurred, every wait of main is for something that
\* the controller still has to do.
THEOREM StuckOnlyAfterCause == Spec => []NeverStuck
<1>1. MouseInv => NeverStuck
  <2>1. SUFFICES ASSUME MouseInv, Stuck, spoilt = {}
                 PROVE  FALSE
    BY DEF NeverStuck
  <2>2. Clean
    BY <2>1 DEF Stuck, Clean, Served
  <2>3. ~(pc = "read" \/ (pc = "clear" /\ got # "done"))
    BY <2>1, <2>2 DEF MouseInv, Stuck, Course, Waiting, MessageDue
  <2>4. pc # "renew"
    BY <2>1, <2>2 DEF MouseInv, Course
  <2>5. ~(pc \in {"check", "again"} /\ step \in 2 .. POLL - 1 /\ control # "passed")
    <3>1. control \in {"active", "passed", "failed"}
      BY <2>1 DEF MouseInv, TypeOK
    <3>2. QED
      BY <2>1, <2>2, <3>1 DEF Stuck, MouseInv, ControlByte
  <2>6. QED
    BY <2>1, <2>3, <2>4, <2>5 DEF Stuck
<1>2. QED
  BY <1>1, MouseInvariance, PTL

----------------------------------------------------------------------------
(***************************************************************************)
(* The transfer lists the program of UsbMouse sends, at every number of    *)
(* restarts of the controller and every point of rewriting a list.         *)
(*                                                                         *)
(* The invariant follows the controller to the TD it is at.  That a list   *)
(* survives what is stored into the memory rests on the words of the nine  *)
(* lists: each TD but the last points at the one behind it, and each       *)
(* buffer lies behind the last word of its list.                           *)
(***************************************************************************)
\* The words of the lists, and far from the ends of a 16-bit word.
Cell == 0 .. 9000

\* The word a TD begins at: the one of SETUP at the first, the others behind its packet.
TDWord(j) == IF j = 0 THEN 1 ELSE 5 + 6 * j

Toggle(j, n) == IF j = n \/ j % 2 = 1 THEN DATA1 ELSE DATA0

\* What the program means by the TDs of a list, the j-th of n.
GoodTD(tds, j) ==
  LET n == Len(tds) IN
  /\ \A k \in 1 .. 6 : tds[j][k] \in Cell
  /\ tds[j][5] = Active
  /\ \A k \in {1, 2, 3, 4, 6} : tds[j][k] # Active
  /\ tds[j][6] = IF j = n THEN 0 ELSE Address(TDWord(j + 1))
  /\ tds[j][3] % 256 # SETUP_PID
  /\ tds[j][3] % 256 = IN_PID /\ tds[j][2] # 0 =>
       tds[j][1] >= Address(11 + 6 * n) /\ tds[j][1] + tds[j][2] <= Base + 192
  /\ tds[j][4] = Toggle(j, n)

Good(tds) == Len(tds) \in 1 .. 9 /\ \A j \in 1 .. Len(tds) : GoodTD(tds, j)

\* The same of the words of a list, the TD of SETUP included.
IsTD(L, n, j) ==
  LET p == TDWord(j) IN
  /\ L[p + 4] = Active
  /\ \A k \in {0, 1, 2, 3, 5} : L[p + k] # Active
  /\ L[p + 5] = IF j = n THEN 0 ELSE Address(TDWord(j + 1))
  /\ L[p + 2] % 256 = SETUP_PID <=> j = 0
  /\ L[p + 2] % 256 = IN_PID /\ L[p + 1] # 0 =>
       L[p] >= Address(Len(L) + 1) /\ L[p] + L[p + 1] <= Base + 192
  /\ j # 0 => L[p + 3] = Toggle(j, n)

IsList(L) ==
  /\ L \in Seq(Cell)
  /\ \E n \in 1 .. 9 : Len(L) = 10 + 6 * n /\ \A j \in 0 .. n : IsTD(L, n, j)

USE DEF Address, Base, DATA0, DATA1, Active, SETUP_PID, OUT_PID,
        IN_PID, Device, GET_DESCRIPTOR, SET_ADDRESS, SET_CONFIGURATION, SET_IDLE

\* The ten words of a SETUP TD and its packet.
LEMMA SetupWords ==
  ASSUME NEW d \in Cell, NEW r \in Cell, NEW v \in Cell, NEW l \in Cell
  PROVE  LET S == Setup(d, r, v, l) IN
         /\ S[1] = 1292 /\ S[2] = 8 /\ S[3] = d /\ S[4] = 1 /\ S[5] = Active /\ S[6] = 1300
         /\ S[7] = r /\ S[8] = v /\ S[9] = 0 /\ S[10] = l
  BY DEF Setup, TD

LEMMA SetupConstants ==
  1292 \in Cell /\ 8 \in Cell /\ 1 \in Cell /\ 19 \in Cell /\ 1300 \in Cell /\ 0 \in Cell
  BY DEF Cell

\* A list of TDs the program means is, word for word, a list the controller can walk.
LEMMA ChainWords ==
  ASSUME NEW tds, Good(tds), NEW d \in Cell, NEW r \in Cell, NEW v \in Cell, NEW l \in Cell,
         d % 256 = SETUP_PID
  PROVE  IsList(Chain(Setup(d, r, v, l), tds))
<1> DEFINE S == Setup(d, r, v, l)
           L == Chain(S, tds)
           n == Len(tds)
<1>n. n \in 1 .. 9
  BY DEF Good
<1>0. /\ S[1] = 1292 /\ S[2] = 8 /\ S[3] = d /\ S[4] = 1 /\ S[5] = Active /\ S[6] = 1300
      /\ S[7] = r /\ S[8] = v /\ S[9] = 0 /\ S[10] = l
  BY SetupWords
<1> HIDE DEF S
<1>1. \A i \in 1 .. 10 : S[i] \in Cell
  <2>1. 1292 \in Cell /\ 8 \in Cell /\ 1 \in Cell /\ 19 \in Cell /\ 1300 \in Cell /\ 0 \in Cell
    BY SetupConstants
  <2>3. S[1] \in Cell /\ S[2] \in Cell /\ S[3] \in Cell /\ S[4] \in Cell /\ S[5] \in Cell
    <3>1. Active \in Cell
      BY <2>1
    <3> HIDE DEF Active
    <3> QED BY ONLY <1>0, <2>1, <3>1, d \in Cell
  <2>4. S[6] \in Cell /\ S[7] \in Cell /\ S[8] \in Cell /\ S[9] \in Cell /\ S[10] \in Cell
    BY ONLY <1>0, <2>1, r \in Cell, v \in Cell, l \in Cell
  <2>2. \A i \in 1 .. 10 : i \in {1, 2, 3, 4, 5, 6, 7, 8, 9, 10}
    OBVIOUS
  <2> QED BY <2>2, <2>3, <2>4
<1>2. \A j \in 1 .. n : \A k \in 1 .. 6 : tds[j][k] \in Cell
  BY DEF Good, GoodTD
<1>3. L = [i \in 1 .. 10 + 6 * n |->
             IF i <= 10 THEN S[i] ELSE tds[1 + ((i - 11) \div 6)][1 + ((i - 11) % 6)]]
  BY DEF Chain
<1> HIDE DEF L, n
<1>4. ASSUME NEW i \in 1 .. 10 + 6 * n PROVE L[i] \in Cell
  <2>1. CASE i <= 10
    BY <1>n, <1>1, <1>3, <2>1
  <2>2. CASE i > 10
    <3>1. 1 + ((i - 11) \div 6) \in 1 .. n /\ 1 + ((i - 11) % 6) \in 1 .. 6
      BY <1>n, <2>2
    <3>2. L[i] = tds[1 + ((i - 11) \div 6)][1 + ((i - 11) % 6)]
      BY <1>n, <1>3, <2>2
    <3> QED BY <1>2, <3>1, <3>2
  <2> QED BY <1>n, <2>1, <2>2
<1>5. L \in Seq(Cell) /\ Len(L) = 10 + 6 * n
  BY <1>n, <1>3, <1>4
<1>6. ASSUME NEW i \in 1 .. 10 PROVE L[i] = S[i]
  <2>1. i \in 1 .. 10 + 6 * n /\ i <= 10
    BY <1>n
  <2> QED BY ONLY <1>3, <2>1
<1>7. ASSUME NEW j \in 1 .. n, NEW k \in 0 .. 5 PROVE L[5 + 6 * j + k] = tds[j][k + 1]
  <2>1. 5 + 6 * j + k \in 11 .. 10 + 6 * n
    BY <1>n
  <2>2. 1 + ((5 + 6 * j + k - 11) \div 6) = j /\ 1 + ((5 + 6 * j + k - 11) % 6) = k + 1
    BY <1>n
  <2>3. L[5 + 6 * j + k] = tds[1 + ((5 + 6 * j + k - 11) \div 6)][1 + ((5 + 6 * j + k - 11) % 6)]
    BY <1>n, <1>3, <2>1
  <2> QED BY <2>2, <2>3
<1>8. IsTD(L, n, 0)
  <2>1. /\ L[1] = 1292 /\ L[2] = 8 /\ L[3] = d /\ L[4] = 1 /\ L[5] = Active /\ L[6] = 1300
    BY <1>0, <1>6
  <2>2. d # Active
    OBVIOUS
  <2> QED BY <1>n, <2>1, <2>2 DEF IsTD, TDWord
<1>9. ASSUME NEW j \in 1 .. n PROVE IsTD(L, n, j)
  <2>1. GoodTD(tds, j)
    BY DEF Good, n
  <2>2. /\ L[TDWord(j)] = tds[j][1] /\ L[TDWord(j) + 1] = tds[j][2]
        /\ L[TDWord(j) + 2] = tds[j][3] /\ L[TDWord(j) + 3] = tds[j][4]
        /\ L[TDWord(j) + 4] = tds[j][5] /\ L[TDWord(j) + 5] = tds[j][6]
    <3>1. TDWord(j) = 5 + 6 * j
      BY <1>n DEF TDWord
    <3>2. /\ L[5 + 6 * j + 0] = tds[j][0 + 1] /\ L[5 + 6 * j + 1] = tds[j][1 + 1]
          /\ L[5 + 6 * j + 2] = tds[j][2 + 1] /\ L[5 + 6 * j + 3] = tds[j][3 + 1]
          /\ L[5 + 6 * j + 4] = tds[j][4 + 1] /\ L[5 + 6 * j + 5] = tds[j][5 + 1]
      BY <1>7
    <3> QED BY <1>n, <3>1, <3>2
  <2>3. \A k \in {0, 1, 2, 3, 5} : L[TDWord(j) + k] # Active
    <3>1. TDWord(j) + 0 = TDWord(j)
      BY DEF TDWord
    <3>2. \A k \in {1, 2, 3, 4, 6} : tds[j][k] # Active
      BY <2>1 DEF GoodTD
    <3> QED BY <2>2, <3>1, <3>2
  <2>4. Len(L) + 1 = 11 + 6 * n
    BY <1>n, <1>5
  <2>5. j # 0
    BY <1>n
  <2> QED BY <1>n, <2>1, <2>2, <2>3, <2>4, <2>5 DEF GoodTD, IsTD, n
<1> QED BY <1>n, <1>5, <1>8, <1>9 DEF IsList, L, S

\* The nine lists of the program, each one that the controller can walk.
LEMMA SetAddress_Good == IsList(SetAddressList)
<1> DEFINE tds == <<TD(0, 0, IN_PID, DATA1, 0)>>
<1>1. /\ Len(tds) = 1
      /\ tds[1] = <<0, 0, 144, 65, 19, 0>>
  BY DEF TD, Packet, StatusIn, StatusOut
<1> HIDE DEF tds
<1>2. GoodTD(tds, 1)
  BY <1>1 DEF GoodTD, Toggle, TDWord, Cell
<1>3. Good(tds)
  BY <1>1, <1>2 DEF Good
<1>4. SETUP_PID \in Cell /\ SET_ADDRESS \in Cell /\ 2 \in Cell /\ 0 \in Cell
  BY DEF Cell
<1>5. SetAddressList = Chain(Setup(SETUP_PID, SET_ADDRESS, 2, 0), tds)
  BY DEF SetAddressList, tds
<1>6. (SETUP_PID) % 256 = SETUP_PID
  OBVIOUS
<1> HIDE DEF Device
<1> QED BY ONLY <1>3, <1>4, <1>5, <1>6, ChainWords

LEMMA GetDeviceDescriptor1_Good == IsList(GetDeviceDescriptor1List)
<1> DEFINE tds == <<Packet(Address(23), 8, DATA1, Address(17)), StatusOut>>
<1>1. /\ Len(tds) = 2
      /\ tds[1] = <<1324, 8, 656, 65, 19, 1312>>
      /\ tds[2] = <<0, 0, 528, 65, 19, 0>>
  BY DEF TD, Packet, StatusIn, StatusOut
<1> HIDE DEF tds
<1>2. GoodTD(tds, 1) /\ GoodTD(tds, 2)
  BY <1>1 DEF GoodTD, Toggle, TDWord, Cell
<1>3. Good(tds)
  BY <1>1, <1>2 DEF Good
<1>4. /\ Device + SETUP_PID \in Cell /\ GET_DESCRIPTOR \in Cell
      /\ 256 \in Cell /\ 8 \in Cell
  BY DEF Cell
<1>5. GetDeviceDescriptor1List =
        Chain(Setup(Device + SETUP_PID, GET_DESCRIPTOR, 256, 8), tds)
  BY DEF GetDeviceDescriptor1List, tds
<1>6. (Device + SETUP_PID) % 256 = SETUP_PID
  OBVIOUS
<1> HIDE DEF Device
<1> QED BY ONLY <1>3, <1>4, <1>5, <1>6, ChainWords

LEMMA GetDeviceDescriptor2_Good == IsList(GetDeviceDescriptor2List)
<1> DEFINE tds == <<Packet(Address(35), 8, DATA1, Address(17)),
                   Packet(Address(39), 8, DATA0, Address(23)),
                   Packet(Address(43), 2, DATA1, Address(29)), StatusOut>>
<1>1. /\ Len(tds) = 4
      /\ tds[1] = <<1348, 8, 656, 65, 19, 1312>>
      /\ tds[2] = <<1356, 8, 656, 1, 19, 1324>>
      /\ tds[3] = <<1364, 2, 656, 65, 19, 1336>>
      /\ tds[4] = <<0, 0, 528, 65, 19, 0>>
  BY DEF TD, Packet, StatusIn, StatusOut
<1> HIDE DEF tds
<1>2. GoodTD(tds, 1) /\ GoodTD(tds, 2) /\ GoodTD(tds, 3) /\ GoodTD(tds, 4)
  BY <1>1 DEF GoodTD, Toggle, TDWord, Cell
<1>3. Good(tds)
  BY <1>1, <1>2 DEF Good
<1>4. /\ Device + SETUP_PID \in Cell /\ GET_DESCRIPTOR \in Cell
      /\ 256 \in Cell /\ 18 \in Cell
  BY DEF Cell
<1>5. GetDeviceDescriptor2List =
        Chain(Setup(Device + SETUP_PID, GET_DESCRIPTOR, 256, 18), tds)
  BY DEF GetDeviceDescriptor2List, tds
<1>6. (Device + SETUP_PID) % 256 = SETUP_PID
  OBVIOUS
<1> HIDE DEF Device
<1> QED BY ONLY <1>3, <1>4, <1>5, <1>6, ChainWords

LEMMA GetConfigDescriptor1_Good == IsList(GetConfigDescriptor1List)
<1> DEFINE tds == <<Packet(Address(35), 8, DATA1, Address(17)),
                   Packet(Address(39), 1, DATA0, Address(23)),
                   StatusOut>>
<1>1. /\ Len(tds) = 3
      /\ tds[1] = <<1348, 8, 656, 65, 19, 1312>>
      /\ tds[2] = <<1356, 1, 656, 1, 19, 1324>>
      /\ tds[3] = <<0, 0, 528, 65, 19, 0>>
  BY DEF TD, Packet, StatusIn, StatusOut
<1> HIDE DEF tds
<1>2. GoodTD(tds, 1) /\ GoodTD(tds, 2) /\ GoodTD(tds, 3)
  BY <1>1 DEF GoodTD, Toggle, TDWord, Cell
<1>3. Good(tds)
  BY <1>1, <1>2 DEF Good
<1>4. /\ Device + SETUP_PID \in Cell /\ GET_DESCRIPTOR \in Cell
      /\ 512 \in Cell /\ 9 \in Cell
  BY DEF Cell
<1>5. GetConfigDescriptor1List =
        Chain(Setup(Device + SETUP_PID, GET_DESCRIPTOR, 512, 9), tds)
  BY DEF GetConfigDescriptor1List, tds
<1>6. (Device + SETUP_PID) % 256 = SETUP_PID
  OBVIOUS
<1> HIDE DEF Device
<1> QED BY ONLY <1>3, <1>4, <1>5, <1>6, ChainWords

LEMMA GetConfigDescriptor2_Good == IsList(GetConfigDescriptor2List)
<1> DEFINE tds == <<Packet(Address(47), 8, DATA1, Address(17)),
                   Packet(Address(51), 8, DATA0, Address(23)),
                   Packet(Address(55), 8, DATA1, Address(29)),
                   Packet(Address(59), 8, DATA0, Address(35)),
                   Packet(Address(63), 2, DATA1, Address(41)), StatusOut>>
<1>1. /\ Len(tds) = 6
      /\ tds[1] = <<1372, 8, 656, 65, 19, 1312>>
      /\ tds[2] = <<1380, 8, 656, 1, 19, 1324>>
      /\ tds[3] = <<1388, 8, 656, 65, 19, 1336>>
      /\ tds[4] = <<1396, 8, 656, 1, 19, 1348>>
      /\ tds[5] = <<1404, 2, 656, 65, 19, 1360>>
      /\ tds[6] = <<0, 0, 528, 65, 19, 0>>
  BY DEF TD, Packet, StatusIn, StatusOut
<1> HIDE DEF tds
<1>2. /\ GoodTD(tds, 1) /\ GoodTD(tds, 2) /\ GoodTD(tds, 3)
      /\ GoodTD(tds, 4) /\ GoodTD(tds, 5) /\ GoodTD(tds, 6)
  BY <1>1 DEF GoodTD, Toggle, TDWord, Cell
<1>3. Good(tds)
  BY <1>1, <1>2 DEF Good
<1>4. /\ Device + SETUP_PID \in Cell /\ GET_DESCRIPTOR \in Cell
      /\ 512 \in Cell /\ 255 \in Cell
  BY DEF Cell
<1>5. GetConfigDescriptor2List =
        Chain(Setup(Device + SETUP_PID, GET_DESCRIPTOR, 512, 255), tds)
  BY DEF GetConfigDescriptor2List, tds
<1>6. (Device + SETUP_PID) % 256 = SETUP_PID
  OBVIOUS
<1> HIDE DEF Device
<1> QED BY ONLY <1>3, <1>4, <1>5, <1>6, ChainWords

LEMMA SetConfiguration_Good == IsList(SetConfigurationList)
<1> DEFINE tds == <<StatusIn>>
<1>1. /\ Len(tds) = 1
      /\ tds[1] = <<0, 0, 656, 65, 19, 0>>
  BY DEF TD, Packet, StatusIn, StatusOut
<1> HIDE DEF tds
<1>2. GoodTD(tds, 1)
  BY <1>1 DEF GoodTD, Toggle, TDWord, Cell
<1>3. Good(tds)
  BY <1>1, <1>2 DEF Good
<1>4. /\ Device + SETUP_PID \in Cell /\ SET_CONFIGURATION \in Cell
      /\ 1 \in Cell /\ 0 \in Cell
  BY DEF Cell
<1>5. SetConfigurationList =
        Chain(Setup(Device + SETUP_PID, SET_CONFIGURATION, 1, 0), tds)
  BY DEF SetConfigurationList, tds
<1>6. (Device + SETUP_PID) % 256 = SETUP_PID
  OBVIOUS
<1> HIDE DEF Device
<1> QED BY ONLY <1>3, <1>4, <1>5, <1>6, ChainWords

LEMMA ClassRequestOut_Good == IsList(ClassRequestOutList)
<1> DEFINE tds == <<StatusIn>>
<1>1. /\ Len(tds) = 1
      /\ tds[1] = <<0, 0, 656, 65, 19, 0>>
  BY DEF TD, Packet, StatusIn, StatusOut
<1> HIDE DEF tds
<1>2. GoodTD(tds, 1)
  BY <1>1 DEF GoodTD, Toggle, TDWord, Cell
<1>3. Good(tds)
  BY <1>1, <1>2 DEF Good
<1>4. Device + SETUP_PID \in Cell /\ SET_IDLE \in Cell /\ 0 \in Cell /\ 0 \in Cell
  BY DEF Cell
<1>5. ClassRequestOutList = Chain(Setup(Device + SETUP_PID, SET_IDLE, 0, 0), tds)
  BY DEF ClassRequestOutList, tds
<1>6. (Device + SETUP_PID) % 256 = SETUP_PID
  OBVIOUS
<1> HIDE DEF Device
<1> QED BY ONLY <1>3, <1>4, <1>5, <1>6, ChainWords

LEMMA GetClassDescriptor21_Good == IsList(GetClassDescriptor21List)
<1> DEFINE tds == <<Packet(Address(35), 8, DATA1, Address(17)), StatusOut>>
<1>1. /\ Len(tds) = 2
      /\ tds[1] = <<1348, 8, 656, 65, 19, 1312>>
      /\ tds[2] = <<0, 0, 528, 65, 19, 0>>
  BY DEF TD, Packet, StatusIn, StatusOut
<1> HIDE DEF tds
<1>2. GoodTD(tds, 1) /\ GoodTD(tds, 2)
  BY <1>1 DEF GoodTD, Toggle, TDWord, Cell
<1>3. Good(tds)
  BY <1>1, <1>2 DEF Good
<1>4. /\ Device + SETUP_PID \in Cell /\ GET_DESCRIPTOR + 1 \in Cell
      /\ 8448 \in Cell /\ 123 \in Cell
  BY DEF Cell
<1>5. GetClassDescriptor21List =
        Chain(Setup(Device + SETUP_PID, GET_DESCRIPTOR + 1, 8448, 123), tds)
  BY DEF GetClassDescriptor21List, tds
<1>6. (Device + SETUP_PID) % 256 = SETUP_PID
  OBVIOUS
<1> HIDE DEF Device
<1> QED BY ONLY <1>3, <1>4, <1>5, <1>6, ChainWords

LEMMA GetClassDescriptor22_Good == IsList(GetClassDescriptor22List)
<1> DEFINE tds == <<Packet(Address(65), 8, DATA1, Address(17)),
                   Packet(Address(69), 8, DATA0, Address(23)),
                   Packet(Address(73), 8, DATA1, Address(29)),
                   Packet(Address(77), 8, DATA0, Address(35)),
                   Packet(Address(81), 8, DATA1, Address(41)),
                   Packet(Address(85), 8, DATA0, Address(47)),
                   Packet(Address(89), 8, DATA1, Address(53)),
                   Packet(Address(93), 3, DATA0, Address(59)),
                   StatusOut>>
<1>1. /\ Len(tds) = 9
      /\ tds[1] = <<1408, 8, 656, 65, 19, 1312>>
      /\ tds[2] = <<1416, 8, 656, 1, 19, 1324>>
      /\ tds[3] = <<1424, 8, 656, 65, 19, 1336>>
      /\ tds[4] = <<1432, 8, 656, 1, 19, 1348>>
      /\ tds[5] = <<1440, 8, 656, 65, 19, 1360>>
      /\ tds[6] = <<1448, 8, 656, 1, 19, 1372>>
      /\ tds[7] = <<1456, 8, 656, 65, 19, 1384>>
      /\ tds[8] = <<1464, 3, 656, 1, 19, 1396>>
      /\ tds[9] = <<0, 0, 528, 65, 19, 0>>
  BY DEF TD, Packet, StatusIn, StatusOut
<1> HIDE DEF tds
<1>2. /\ GoodTD(tds, 1) /\ GoodTD(tds, 2) /\ GoodTD(tds, 3)
      /\ GoodTD(tds, 4) /\ GoodTD(tds, 5) /\ GoodTD(tds, 6)
      /\ GoodTD(tds, 7) /\ GoodTD(tds, 8) /\ GoodTD(tds, 9)
  BY <1>1 DEF GoodTD, Toggle, TDWord, Cell
<1>3. Good(tds)
  BY <1>1, <1>2 DEF Good
<1>4. /\ Device + SETUP_PID \in Cell /\ GET_DESCRIPTOR + 1 \in Cell
      /\ 8704 \in Cell /\ 123 \in Cell
  BY DEF Cell
<1>5. GetClassDescriptor22List =
        Chain(Setup(Device + SETUP_PID, GET_DESCRIPTOR + 1, 8704, 123), tds)
  BY DEF GetClassDescriptor22List, tds
<1>6. (Device + SETUP_PID) % 256 = SETUP_PID
  OBVIOUS
<1> HIDE DEF Device
<1> QED BY ONLY <1>3, <1>4, <1>5, <1>6, ChainWords

LEMMA Nine == Len(Lists) = 9
  BY DEF Lists

LEMMA ListsGood == \A s \in 1 .. 9 : IsList(Lists[s])
<1>1. /\ Lists[1] = SetAddressList /\ Lists[2] = GetDeviceDescriptor1List
      /\ Lists[3] = GetDeviceDescriptor2List /\ Lists[4] = GetConfigDescriptor1List
      /\ Lists[5] = GetConfigDescriptor2List /\ Lists[6] = SetConfigurationList
      /\ Lists[7] = ClassRequestOutList /\ Lists[8] = GetClassDescriptor21List
      /\ Lists[9] = GetClassDescriptor22List
  BY DEF Lists
<1>2. \A s \in 1 .. 9 : s \in {1, 2, 3, 4, 5, 6, 7, 8, 9}
  OBVIOUS
<1> QED BY <1>1, <1>2, SetAddress_Good, GetDeviceDescriptor1_Good, GetDeviceDescriptor2_Good,
           GetConfigDescriptor1_Good, GetConfigDescriptor2_Good, SetConfiguration_Good,
           ClassRequestOut_Good, GetClassDescriptor21_Good, GetClassDescriptor22_Good

----------------------------------------------------------------------------
(* The invariant. *)

Rest(L) == (Len(L) - 10) \div 6

\* Until the list is handed over there is no controller at work, and the words written are there.
Writing ==
  ~handed =>
    /\ td = 0 /\ ~done /\ written <= Size
    /\ \A i \in 1 .. written : mem[Address(i)] = List[i]

Intact ==
  handed => \A i \in 1 .. Size :
    \/ mem[Address(i)] = List[i]
    \/ List[i] = Active /\ mem[Address(i)] = Passed

\* The controller is at a TD of this list, and the mouse at the same one.
AtTD ==
  td # 0 => \E j \in 0 .. Rest(List) :
    /\ td = Address(TDWord(j))
    /\ j \notin {0, Rest(List)} => sequence = Toggle(j, Rest(List))

ListsInv == ListTypeOK /\ Writing /\ Intact /\ AtTD /\ (done /\ ~raced => td = 0)

\* What is known of the words of the list being sent.
LEMMA ListFacts ==
  ASSUME ListTypeOK
  PROVE  /\ List \in Seq(Cell) /\ Rest(List) \in 1 .. 9
         /\ Size = 10 + 6 * Rest(List)
         /\ \A j \in 0 .. Rest(List) : IsTD(List, Rest(List), j)
<1>0. current \in 1 .. Len(Lists)
  BY DEF ListTypeOK
<1>1. current \in 1 .. 9
  BY <1>0, Nine
<1>2. IsList(List)
  BY <1>1, ListsGood DEF List
<1>3. PICK n \in 1 .. 9 : Len(List) = 10 + 6 * n /\ \A j \in 0 .. n : IsTD(List, n, j)
  BY <1>2 DEF IsList
<1>4. Rest(List) = n
  BY <1>3 DEF Rest
<1> QED BY <1>2, <1>3, <1>4 DEF IsList, Size

\* What the controller reads of the TD it is at is what the program wrote.
LEMMA ReadsTD ==
  ASSUME ListTypeOK, Intact, handed, NEW j \in 0 .. Rest(List), td = Address(TDWord(j))
  PROVE  /\ Word(0) = List[TDWord(j)] /\ Word(1) = List[TDWord(j) + 1]
         /\ Word(2) = List[TDWord(j) + 2] /\ Word(3) = List[TDWord(j) + 3]
         /\ Word(5) = List[TDWord(j) + 5]
<1> DEFINE p == TDWord(j)
<1>1. p \in 1 .. Size - 5
  <2>1. Size = 10 + 6 * Rest(List) /\ Rest(List) \in 1 .. 9
    BY ListFacts
  <2> QED BY <2>1 DEF TDWord
<1>0. Size \in Nat /\ td = Address(p)
  <2>1. Size = 10 + 6 * Rest(List) /\ Rest(List) \in 1 .. 9
    BY ListFacts
  <2> QED BY <2>1
<1>2. ASSUME NEW k \in {0, 1, 2, 3, 5} PROVE Word(k) = List[p + k]
  <2>1. List[p + k] # Active
    BY ListFacts DEF IsTD
  <2>2. p + k \in 1 .. Size /\ td + 2 * k = Address(p + k)
    BY <1>0, <1>1
  <2> QED BY <2>1, <2>2 DEF Intact, Word
<1>3. p + 0 = p
  BY <1>1, ListFacts
<1> QED BY <1>2, <1>3

----------------------------------------------------------------------------
\* Whatever is stored is a word.
LEMMA CellWords == /\ \A c \in Cell : c \in Words
                   /\ Received \in Words /\ Passed \in Words /\ 0 \in Words
<1>2. \A c \in Int : -1 <= c /\ c <= 9000 => c \in Words
  <2>1. Highest \in Int /\ Highest >= 9000
    BY DEF Highest
  <2>2. Words = -1 .. Highest
    BY DEF Words, Received
  <2> QED BY <2>1, <2>2
<1>3. Received = -1 /\ Passed = 3
  BY DEF Received, Passed
<1>4. -1 \in Words /\ 3 \in Words /\ 0 \in Words
  BY <1>2
<1>5. \A c \in Cell : c \in Words
  <2>1. \A c \in Cell : c \in Int /\ -1 <= c /\ c <= 9000
    BY DEF Cell
  <2> QED BY <1>2, <2>1
<1> QED BY <1>3, <1>4, <1>5

\* A step that sends no other list leaves its words alone.
LEMMA SameList ==
  ASSUME ListTypeOK, current' = current
  PROVE  /\ List' = List /\ Size' = Size /\ Size \in 16 .. 64
         /\ Rest(List) \in 1 .. 9
<1>1. List' = List
  BY DEF List
<1>2. Size' = Size
  BY <1>1 DEF Size
<1>3. Size \in 16 .. 64 /\ Rest(List) \in 1 .. 9
  <2>1. Rest(List) \in 1 .. 9 /\ Size = 10 + 6 * Rest(List)
    BY ListFacts
  <2> QED BY <2>1
<1> QED BY <1>1, <1>2, <1>3

LEMMA ListsInit == ListInit => ListsInv
<1> SUFFICES ASSUME ListInit PROVE ListsInv
  OBVIOUS
<1>0. current \in 1 .. Len(Lists)
  BY Nine DEF ListInit
<1>1. Size \in 16 .. 64
  <2>1. IsList(List)
    BY ListsGood, Nine, <1>0 DEF List
  <2> QED BY <2>1 DEF IsList, Size
<1>2. ListTypeOK
  <2>1. mem \in [Addresses -> Words]
    BY CellWords DEF ListInit
  <2>2. place \in Seq(Base .. Base + 191)
    BY DEF ListInit
  <2>3. written \in 0 .. Size + 1
    BY <1>1 DEF ListInit
  <2>4. td = 0 /\ sequence = DATA0 /\ ~handed /\ ~done /\ ~raced
        /\ handed \in BOOLEAN /\ done \in BOOLEAN /\ raced \in BOOLEAN
    BY DEF ListInit
  <2> QED BY <1>0, <2>1, <2>2, <2>3, <2>4 DEF ListTypeOK
<1>3. Writing /\ Intact /\ AtTD /\ (done /\ ~raced => td = 0)
  BY <1>1 DEF ListInit, Writing, Intact, AtTD
<1> QED BY <1>2, <1>3 DEF ListsInv

\* Distinct words of a list are stored at distinct addresses.
LEMMA AddressIn ==
  /\ \A i \in 1 .. 96 : Address(i) \in Addresses
  /\ \A i, k \in 1 .. 96 : Address(i) = Address(k) => i = k
<1>1. ASSUME NEW i \in 1 .. 96 PROVE Address(i) \in Addresses
  <2>1. i - 1 \in 0 .. 95 /\ Address(i) = Base + 2 * (i - 1)
    OBVIOUS
  <2> QED BY <2>1 DEF Addresses
<1>2. ASSUME NEW i \in 1 .. 96, NEW k \in 1 .. 96, Address(i) = Address(k) PROVE i = k
  BY <1>2
<1> QED BY <1>1, <1>2

\* Each action keeps the invariant.
LEMMA WriteWordStep == ListsInv /\ WriteWord => ListsInv'
<1> SUFFICES ASSUME ListsInv, WriteWord PROVE ListsInv'
  OBVIOUS
<1> DEFINE w == written + 1
<1>0. /\ w \in 1 .. Size /\ Size \in 1 .. 64 /\ Size' = Size /\ List' = List
      /\ mem' = [mem EXCEPT ![Address(w)] = List[w]]
      /\ written' = w /\ mem \in [Addresses -> Words]
      /\ List[w] \in Cell
  <2>1. /\ current' = current /\ written \in 0 .. Size + 1 /\ written < Size
        /\ written' = w /\ mem' = [mem EXCEPT ![Address(w)] = List[w]]
        /\ mem \in [Addresses -> Words]
    BY DEF ListsInv, WriteWord, ListTypeOK
  <2>2. ListTypeOK
    BY DEF ListsInv
  <2>3. List \in Seq(Cell) /\ Len(List) = Size
    BY <2>2, ListFacts DEF Size
  <2>4. Size \in 16 .. 64 /\ w \in 1 .. Size
    BY <2>1, <2>2, SameList
  <2> QED BY <2>1, <2>2, <2>3, <2>4, SameList
<1> HIDE DEF w
<1>1. ASSUME NEW i \in 1 .. Size
      PROVE  mem'[Address(i)] = IF i = w THEN List[w] ELSE mem[Address(i)]
  <2>1. Address(i) \in Addresses /\ (i # w => Address(i) # Address(w))
    BY <1>0, AddressIn
  <2> QED BY <1>0, <2>1
<1>2. ListTypeOK'
  <2>1. mem' \in [Addresses -> Words]
    <3>1. List[w] \in Words
      BY <1>0, CellWords
    <3>2. /\ mem' = [mem EXCEPT ![Address(w)] = List[w]]
          /\ mem \in [Addresses -> Words]
      BY <1>0
    <3> HIDE DEF Address
    <3> QED BY ONLY <3>1, <3>2
  <2>2. written' \in 0 .. Size' + 1
    <3>1. written' = w /\ Size' = Size /\ w \in 1 .. Size /\ Size \in Nat
      BY <1>0
    <3> QED BY ONLY <3>1
  <2> QED BY <2>1, <2>2 DEF ListsInv, WriteWord, ListTypeOK
<1>3. Writing'
  <2> SUFFICES ASSUME ~handed
               PROVE  \A i \in 1 .. w : mem'[Address(i)] = List[i]
    BY <1>0 DEF ListsInv, Writing, WriteWord
  <2>1. \A i \in 1 .. written : mem[Address(i)] = List[i]
    BY DEF ListsInv, Writing
  <2>2. ASSUME NEW i \in 1 .. w PROVE i \in 1 .. Size /\ (i # w => i \in 1 .. written)
    BY <1>0 DEF ListsInv, ListTypeOK, w
  <2> QED BY <1>1, <2>1, <2>2
<1>5. Intact'
  BY <1>0, <1>1 DEF ListsInv, Intact, WriteWord
<1>4. AtTD' /\ (done /\ ~raced => td = 0)'
  BY <1>0 DEF ListsInv, AtTD, WriteWord
<1> QED BY <1>2, <1>3, <1>4, <1>5 DEF ListsInv

LEMMA HandOverStep == ListsInv /\ HandOverList => ListsInv'
<1> SUFFICES ASSUME ListsInv, HandOverList PROVE ListsInv'
  OBVIOUS
<1>0. /\ Size' = Size /\ List' = List /\ Size \in 16 .. 64 /\ Rest(List) \in 1 .. 9
  BY SameList DEF ListsInv, HandOverList
<1>1. ListTypeOK'
  <2>1. Base \in Addresses
    BY AddressIn, Address(1) = Base
  <2> QED BY <1>0, <2>1 DEF ListsInv, HandOverList, ListTypeOK
<1>2. Writing' /\ Intact'
  BY <1>0 DEF ListsInv, Writing, Intact, HandOverList
<1>3. AtTD'
  <2>1. CASE td' = td
    BY <1>0, <2>1 DEF ListsInv, AtTD, HandOverList
  <2>2. CASE td' = Base
    <3>1. Base = Address(TDWord(0)) /\ 0 \in 0 .. Rest(List)
      BY <1>0 DEF TDWord
    <3> QED BY <1>0, <2>2, <3>1 DEF AtTD
  <2> QED BY <2>1, <2>2 DEF HandOverList
<1>4. (done /\ ~raced => td = 0)'
  BY DEF ListsInv, HandOverList
<1> QED BY <1>1, <1>2, <1>3, <1>4 DEF ListsInv

LEMMA ResendStep == ListsInv /\ RewriteList => ListsInv'
<1> SUFFICES ASSUME ListsInv, RewriteList PROVE ListsInv'
  OBVIOUS
<1>0. /\ Size' = Size /\ List' = List /\ Size \in 16 .. 64
  BY SameList DEF ListsInv, RewriteList
<1>1. ListTypeOK'
  BY <1>0 DEF ListsInv, RewriteList, ListTypeOK
<1> QED BY <1>0, <1>1 DEF ListsInv, Writing, Intact, AtTD, RewriteList

LEMMA NextListStep == ListsInv /\ NextList => ListsInv'
<1> SUFFICES ASSUME ListsInv, NextList PROVE ListsInv'
  OBVIOUS
<1>0. current' \in 1 .. Len(Lists) /\ current' \in 1 .. 9
  <2>1. current \in 1 .. Len(Lists)
    BY DEF ListsInv, ListTypeOK
  <2> QED BY <2>1, Nine DEF NextList
<1>1. Size' \in 16 .. 64
  <2>1. IsList(Lists[current'])
    BY ListsGood, <1>0
  <2> QED BY <2>1 DEF IsList, Size, List
<1>2. ListTypeOK'
  <2>1. written' \in 0 .. Size' + 1
    <3>1. written' = 0
      BY DEF NextList
    <3>2. \A z \in 16 .. 64 : 0 \in 0 .. z + 1
      OBVIOUS
    <3> QED BY <1>1, <3>1, <3>2
  <2>2. /\ mem' = mem /\ td' = td /\ sequence' = sequence /\ place' = place
        /\ ~handed' /\ ~done' /\ raced' = raced /\ handed' \in BOOLEAN /\ done' \in BOOLEAN
    BY DEF NextList
  <2> QED BY <1>0, <2>1, <2>2 DEF ListsInv, ListTypeOK
<1> QED BY <1>1, <1>2 DEF ListsInv, Writing, Intact, AtTD, NextList

\* The TD the controller executes is one of the list, as the program wrote it.
LEMMA ExecuteFacts ==
  ASSUME ListsInv, Execute
  PROVE  \E j \in 0 .. Rest(List) :
           /\ handed /\ td = Address(TDWord(j))
           /\ IsTD(List, Rest(List), j) /\ TDWord(j) \in 1 .. Size - 5
           /\ j \notin {0, Rest(List)} => sequence = Toggle(j, Rest(List))
           /\ Word(0) = List[TDWord(j)] /\ Word(1) = List[TDWord(j) + 1]
           /\ Word(2) = List[TDWord(j) + 2] /\ Word(5) = List[TDWord(j) + 5]
           /\ Word(0) \in Cell /\ Word(1) \in Cell
<1>1. ListTypeOK /\ Intact /\ td # 0
  BY DEF ListsInv, Execute
<1>2. handed
  BY <1>1 DEF ListsInv, Writing
<1>3. PICK j \in 0 .. Rest(List) :
        /\ td = Address(TDWord(j))
        /\ j \notin {0, Rest(List)} => sequence = Toggle(j, Rest(List))
  BY <1>1 DEF ListsInv, AtTD
<1>4. IsTD(List, Rest(List), j)
  BY <1>1, ListFacts
<1>5. TDWord(j) \in 1 .. Size - 5 /\ TDWord(j) + 1 \in 1 .. Size
  <2>1. Rest(List) \in 1 .. 9 /\ Size = 10 + 6 * Rest(List)
    BY <1>1, ListFacts
  <2> QED BY <2>1 DEF TDWord
<1>6. List[TDWord(j)] \in Cell /\ List[TDWord(j) + 1] \in Cell
  <2>1. List \in Seq(Cell) /\ Len(List) = Size
    BY <1>1, ListFacts DEF Size
  <2>2. Size \in Nat
    BY <2>1
  <2> QED BY <1>5, <2>1, <2>2
<1>7. /\ Word(0) = List[TDWord(j)] /\ Word(1) = List[TDWord(j) + 1]
      /\ Word(2) = List[TDWord(j) + 2] /\ Word(5) = List[TDWord(j) + 5]
  BY <1>1, <1>2, <1>3, ReadsTD
<1> QED BY <1>2, <1>3, <1>4, <1>5, <1>6, <1>7

LEMMA ExecuteStep == ListsInv /\ Execute => ListsInv'
<1> SUFFICES ASSUME ListsInv, Execute PROVE ListsInv'
  OBVIOUS
<1> DEFINE L == List
           n == Rest(L)
           p(j) == TDWord(j)
<1>0. ListTypeOK /\ td # 0 /\ current' = current
  BY DEF ListsInv, Execute
<1>1. L' = L /\ Size' = Size /\ Size \in 16 .. 64 /\ n \in 1 .. 9 /\ Len(L) = Size
      /\ Size = 10 + 6 * n
  BY <1>0, SameList, ListFacts DEF Size
<1>2. PICK j \in 0 .. n :
        /\ handed /\ td = Address(TDWord(j))
        /\ IsTD(L, n, j) /\ TDWord(j) \in 1 .. Size - 5
        /\ j \notin {0, n} => sequence = Toggle(j, n)
        /\ Word(0) = L[TDWord(j)] /\ Word(1) = L[TDWord(j) + 1]
        /\ Word(2) = L[TDWord(j) + 2] /\ Word(5) = L[TDWord(j) + 5]
        /\ Word(0) \in Cell /\ Word(1) \in Cell
  BY ExecuteFacts
<1> HIDE DEF L, n
<1>a. Word(0) \in Nat /\ Word(1) \in Nat
  <2>1. \A c \in Cell : c \in Nat
    BY DEF Cell
  <2> QED BY <1>2, <2>1
<1>b. /\ TDWord(j) = (IF j = 0 THEN 1 ELSE 5 + 6 * j) /\ TDWord(j) \in 1 .. Size - 5
      /\ TDWord(j + 1) = 5 + 6 * (j + 1) /\ td = Address(TDWord(j))
  BY <1>2 DEF TDWord
<1>3. Word(5) = IF j = n THEN 0 ELSE Address(TDWord(j + 1))
  BY <1>2 DEF IsTD
<1>4. IsSetup <=> j = 0
  <2>1. L[TDWord(j) + 2] % 256 = SETUP_PID <=> j = 0
    BY <1>2 DEF IsTD
  <2>2. Word(2) = L[TDWord(j) + 2]
    BY <1>2
  <2> QED BY ONLY <2>1, <2>2 DEF IsSetup, Token
<1>5. Token = IN_PID /\ Word(1) # 0 =>
        Word(0) >= Address(Size + 1) /\ Word(0) + Word(1) <= Base + 192
  <2>1. /\ L[TDWord(j) + 2] % 256 = IN_PID /\ L[TDWord(j) + 1] # 0
        => L[TDWord(j)] >= Address(Len(L) + 1) /\ L[TDWord(j)] + L[TDWord(j) + 1] <= Base + 192
    BY <1>2 DEF IsTD
  <2>2. Len(L) = Size /\ Token = L[TDWord(j) + 2] % 256
    BY <1>1, <1>2 DEF Token
  <2>3. Word(0) = L[TDWord(j)] /\ Word(1) = L[TDWord(j) + 1]
    BY <1>2
  <2> QED BY <2>1, <2>2, <2>3
<1>6. ASSUME NEW a \in Store PROVE a >= Address(Size + 1) /\ a \in Addresses
  <2>1. Token = IN_PID /\ a \in Buffer(Word(0), Word(1))
    BY <1>6 DEF Store
  <2>2. a \in Addresses /\ Word(0) <= a /\ a < Word(0) + Word(1)
    BY <2>1 DEF Buffer
  <2>3. Word(0) \in Int /\ Word(1) \in Nat /\ a \in Int
    BY <1>a, <2>2 DEF Addresses
  <2> QED BY <1>1, <1>5, <2>1, <2>2, <2>3
<1>m. mem' = [a \in Addresses |->
                 IF a = td + 8 THEN Passed ELSE IF a \in Store THEN Received ELSE mem[a]]
  BY DEF Execute
<1>7. ListTypeOK'
  <2>1. mem' \in [Addresses -> Words]
    <3>1. mem \in [Addresses -> Words]
      BY <1>0 DEF ListTypeOK
    <3> QED BY <1>m, <3>1, CellWords
  <2>2. td' \in Addresses \cup {0}
    <3>1. CASE j = n
      BY <1>3, <3>1 DEF Execute
    <3>2. CASE j # n
      <4>1. TDWord(j + 1) \in 1 .. 96
        <5>1. j + 1 \in 1 .. n /\ n \in 1 .. 9
          BY <1>1, <3>2
        <5> QED BY <1>b, <5>1
      <4>2. td' = Address(TDWord(j + 1))
        BY <1>3, <3>2 DEF Execute
      <4> QED BY <4>1, <4>2, AddressIn
    <3> QED BY <3>1, <3>2
  <2>3. place' \in Seq(Base .. Base + 191)
    <3> DEFINE B == Base .. Base + 191
               more == [m \in 1 .. Word(1) |-> Word(0) + m - 1]
    <3>1. place \in Seq(B)
      BY <1>0 DEF ListTypeOK
    <3>2. place' \in {<<>>, place} \/ (Token = IN_PID /\ place' = place \o more)
      BY DEF Execute
    <3>3. ASSUME Token = IN_PID PROVE more \in Seq(B)
      <4>1. Word(0) \in Int /\ Word(1) \in Nat
        BY <1>a
      <4>2. ASSUME NEW m \in 1 .. Word(1) PROVE Word(0) + m - 1 \in B
        <5>1. /\ Word(0) >= Address(Size + 1)
              /\ Word(0) + Word(1) <= Base + 192
          BY <1>5, <3>3, <4>1
        <5>2. Size \in Nat
          BY <1>1
        <5> QED BY <4>1, <5>1, <5>2
      <4> HIDE DEF B
      <4> QED BY <4>1, <4>2
    <3>4. <<>> \in Seq(B)
      OBVIOUS
    <3> HIDE DEF B, more
    <3>5. place' \in Seq(B)
      BY <3>1, <3>2, <3>3, <3>4, ConcatProperties
    <3> QED BY <3>5 DEF B
  <2>4. sequence' \in {DATA0, DATA1} /\ done' \in BOOLEAN
    BY DEF Execute
  <2>5. current' = current /\ written' = written /\ handed' = handed /\ raced' = raced
    BY DEF Execute
  <2> QED BY <1>0, <1>1, <2>1, <2>2, <2>3, <2>4, <2>5 DEF ListTypeOK
<1>8. Intact'
  <2> SUFFICES ASSUME NEW i \in 1 .. Size
               PROVE  \/ mem'[Address(i)] = L[i]
                      \/ L[i] = Active /\ mem'[Address(i)] = Passed
    BY <1>1, <1>2 DEF Intact, L
  <2>1. Address(i) \in Addresses /\ i \in Int /\ Size \in Int
    <3>1. i \in 1 .. 96 /\ Size \in Int
      BY <1>1
    <3> QED BY <3>1, AddressIn
  <2>2. CASE Address(i) = td + 8
    <3>1. i = TDWord(j) + 4
      <4>1. TDWord(j) \in Int
        BY <1>1, <1>b
      <4>2. Base + 2 * (i - 1) = Base + 2 * (TDWord(j) - 1) + 8
        BY <1>b, <2>2
      <4> QED BY <2>1, <4>1, <4>2
    <3>2. L[TDWord(j) + 4] = Active
      BY <1>2 DEF IsTD
    <3>3. mem'[Address(i)] = Passed
      BY <1>m, <2>1, <2>2
    <3> QED BY <3>1, <3>2, <3>3
  <2>3. CASE Address(i) # td + 8
    <3>1. Address(i) \notin Store
      BY <1>6, <2>1
    <3>2. mem'[Address(i)] = mem[Address(i)]
      BY <1>m, <2>1, <2>3, <3>1
    <3> QED BY <1>2, <3>2 DEF ListsInv, Intact, L
  <2> QED BY <2>2, <2>3
<1>9. AtTD'
  <2> SUFFICES ASSUME j # n
               PROVE  \E k \in 0 .. n : /\ td' = Address(TDWord(k))
                                        /\ k \notin {0, n} => sequence' = Toggle(k, n)
    BY <1>1, <1>3 DEF AtTD, L, n, Execute
  <2>1. td' = Address(TDWord(j + 1)) /\ j + 1 \in 0 .. n
    BY <1>1, <1>3 DEF Execute
  <2>2. ASSUME j + 1 # n PROVE sequence' = Toggle(j + 1, n)
    <3>1. sequence' = IF j = 0 \/ sequence = DATA0 THEN DATA1 ELSE DATA0
      BY <1>4 DEF Execute
    <3>2. CASE j = 0
      BY <3>1, <3>2 DEF Toggle
    <3>3. CASE j # 0
      <4>1. sequence = Toggle(j, n)
        BY <1>2, <3>3
      <4>2. (j + 1) % 2 = 1 <=> j % 2 # 1
        OBVIOUS
      <4> QED BY <2>2, <3>1, <3>3, <4>1, <4>2 DEF Toggle
    <3> QED BY <3>2, <3>3
  <2> QED BY <2>1, <2>2
<1>10. Writing'
  <2>1. handed'
    BY <1>2 DEF Execute
  <2> QED BY <2>1 DEF Writing
<1>11. (done /\ ~raced => td = 0)'
  <2>1. raced' = raced /\ td' = Word(5) /\ done' = (done \/ Word(5) = 0)
    BY DEF Execute
  <2>2. done => raced
    BY <1>0 DEF ListsInv
  <2> QED BY <2>1, <2>2
<1> QED BY <1>7, <1>8, <1>9, <1>10, <1>11 DEF ListsInv

LEMMA ListsStep == ListsInv /\ [ListNext]_listVars => ListsInv'
<1>1. ListsInv /\ UNCHANGED listVars => ListsInv'
  BY DEF listVars, ListsInv, ListTypeOK, Writing, Intact, AtTD, Size, List
<1> QED BY <1>1, WriteWordStep, HandOverStep, ResendStep, NextListStep, ExecuteStep DEF ListNext

\* The invariant of the transfer lists: the memory holds what the program wrote, and the
\* controller is at a TD of this list, the mouse with it.
THEOREM ListsInvariance == ListSpec => []ListsInv
BY ListsInit, ListsStep, PTL DEF ListSpec

\* Nothing the mouse sends, and no rewriting of a list while the controller works on it,
\* changes a word of it but the control words of retired TDs: the list the controller
\* finishes is the one the program meant, however often it was resent.
THEOREM ListIntactCorrect == ListSpec => []ListIntact
<1>1. ListsInv => ListIntact
  BY DEF ListsInv, ListIntact, Intact, Writing
<1> QED BY <1>1, ListsInvariance, PTL

\* The toggle of the TD the controller is at is the one the mouse sends or expects, also
\* after a restart in the middle of a list, and the status stage has DATA1.
THEOREM TogglesCorrect == ListSpec => []TogglesAgree
<1>1. ListsInv => TogglesAgree
  <2> SUFFICES ASSUME ListsInv, td # 0, ~IsSetup
               PROVE  Word(3) = IF Word(5) = 0 THEN DATA1 ELSE sequence
    BY DEF TogglesAgree
  <2>1. handed /\ ListTypeOK /\ Intact
    BY DEF ListsInv, Writing
  <2> DEFINE n == Rest(List)
  <2>2. PICK j \in 0 .. n : /\ td = Address(TDWord(j))
                            /\ j \notin {0, n} => sequence = Toggle(j, n)
    BY DEF ListsInv, AtTD
  <2>3. IsTD(List, n, j) /\ n \in 1 .. 9
    BY <2>1, ListFacts
  <2>4. /\ Word(2) = List[TDWord(j) + 2] /\ Word(3) = List[TDWord(j) + 3]
        /\ Word(5) = List[TDWord(j) + 5]
    BY <2>1, <2>2, ReadsTD
  <2> HIDE DEF n
  <2>5. j # 0 /\ Word(3) = Toggle(j, n) /\ Word(5) = IF j = n THEN 0 ELSE Address(TDWord(j + 1))
    BY <2>3, <2>4 DEF IsTD, IsSetup, Token
  <2>6. j # n => Word(5) # 0
    BY <2>3, <2>5 DEF TDWord
  <2> QED BY <2>2, <2>5, <2>6 DEF Toggle
<1> QED BY <1>1, ListsInvariance, PTL

----------------------------------------------------------------------------
(* The configuration descriptor, the fifth list. *)

\* The bytes that have come when the mouse has answered the first k packets, and their places.
Bytes5(k) == IF k >= 5 THEN 34 ELSE 8 * k
Came(k) ==
  /\ Len(place) = Bytes5(k)
  /\ \A m \in 1 .. Bytes5(k) : place[m] = Address(47) + m - 1

Collected ==
  current = 5 =>
    /\ td \notin {0, Base} => \E j \in 1 .. 6 : td = Address(TDWord(j)) /\ Came(j - 1)
    /\ done /\ td = 0 => Came(6)

\* The TDs of the fifth list fill its buffers one behind the other, from word 47 on.
LEMMA FifthList ==
  ASSUME ListTypeOK, current = 5
  PROVE  /\ Rest(List) = 6
         /\ \A j \in 1 .. 5 : /\ List[TDWord(j)] = Address(47) + 8 * (j - 1)
                              /\ List[TDWord(j) + 1] = IF j = 5 THEN 2 ELSE 8
                              /\ List[TDWord(j) + 2] % 256 = IN_PID
         /\ List[TDWord(6) + 2] % 256 # IN_PID
<1>1. List = GetConfigDescriptor2List
  BY DEF List, Lists
<1> DEFINE L == GetConfigDescriptor2List
<1>2. /\ Len(L) = 46
      /\ L[11] = 1372 /\ L[12] = 8 /\ L[13] = 656
      /\ L[17] = 1380 /\ L[18] = 8 /\ L[19] = 656
      /\ L[23] = 1388 /\ L[24] = 8 /\ L[25] = 656
      /\ L[29] = 1396 /\ L[30] = 8 /\ L[31] = 656
      /\ L[35] = 1404 /\ L[36] = 2 /\ L[37] = 656
      /\ L[43] = 528
  BY DEF GetConfigDescriptor2List, Chain, Packet, StatusOut, TD
<1> HIDE DEF L
<1>3. \A j \in 1 .. 5 : j \in {1, 2, 3, 4, 5}
  OBVIOUS
<1>4. /\ TDWord(1) = 11 /\ TDWord(2) = 17 /\ TDWord(3) = 23
      /\ TDWord(4) = 29 /\ TDWord(5) = 35 /\ TDWord(6) = 41
  BY DEF TDWord
<1>5. List = L
  BY <1>1 DEF L
<1>6. Rest(List) = 6
  <2>1. Len(List) = 46 /\ (46 - 10) \div 6 = 6
    BY <1>2, <1>5
  <2> QED BY <2>1 DEF Rest
<1>7. ASSUME NEW j \in 1 .. 5
      PROVE  /\ L[TDWord(j)] = Address(47) + 8 * (j - 1)
             /\ L[TDWord(j) + 1] = IF j = 5 THEN 2 ELSE 8
             /\ L[TDWord(j) + 2] % 256 = IN_PID
  BY <1>2, <1>3, <1>4
<1>8. L[TDWord(6) + 2] % 256 # IN_PID
  BY <1>2, <1>4
<1> QED BY <1>5, <1>6, <1>7, <1>8

\* Each transfer of the fifth list appends its packet, and a SETUP starts over.
LEMMA CollectedStep == ListsInv /\ ListsInv' /\ Collected /\ [ListNext]_listVars => Collected'
<1> SUFFICES ASSUME ListsInv, ListsInv', Collected, [ListNext]_listVars, current' = 5
             PROVE  Collected'
  BY DEF Collected
<1>1. CASE Execute
  <2>0. current = 5 /\ ListTypeOK
    BY <1>1 DEF Execute, ListsInv
  <2>1. PICK j \in 0 .. Rest(List) :
          /\ td = Address(TDWord(j)) /\ IsTD(List, Rest(List), j)
          /\ Word(0) = List[TDWord(j)] /\ Word(1) = List[TDWord(j) + 1]
          /\ Word(2) = List[TDWord(j) + 2] /\ Word(5) = List[TDWord(j) + 5]
    BY <1>1, ExecuteFacts
  <2>2. j \in 0 .. 6 /\ Rest(List) = 6
    BY <2>0, <2>1, FifthList
  <2>3. td' = (IF j = 6 THEN 0 ELSE Address(TDWord(j + 1)))
    BY <1>1, <2>1, <2>2 DEF IsTD, Execute
  <2>4. Came(j)'
    <3>1. CASE j = 0
      <4>1. IsSetup
        BY <2>1, <3>1 DEF IsTD, IsSetup, Token
      <4>2. place' = <<>>
        BY <1>1, <4>1 DEF Execute
      <4> QED BY <3>1, <4>2 DEF Came, Bytes5
    <3>2. CASE j # 0
      <4>1. ~IsSetup
        BY <2>1, <3>2 DEF IsTD, IsSetup, Token
      <4>2. Came(j - 1)
        <5>1. td \notin {0, Base}
          BY <2>1, <2>2, <3>2 DEF TDWord
        <5>2. PICK k \in 1 .. 6 : td = Address(TDWord(k)) /\ Came(k - 1)
          BY <2>0, <5>1 DEF Collected
        <5>3. k = j
          BY <2>1, <2>2, <3>2, <5>2 DEF TDWord
        <5> QED BY <5>2, <5>3
      <4>3. CASE j = 6
        <5>1. place' = place
          BY <1>1, <2>0, <2>1, <4>1, <4>3, FifthList DEF Execute, Token
        <5> QED BY <4>2, <4>3, <5>1 DEF Came, Bytes5
      <4>4. CASE j # 6
        <5>1. j \in 1 .. 5
          BY <2>2, <3>2, <4>4
        <5> DEFINE len == IF j = 5 THEN 2 ELSE 8
                   more == [m \in 1 .. len |-> Address(47) + 8 * (j - 1) + m - 1]
        <5>2. /\ Word(0) = Address(47) + 8 * (j - 1) /\ Word(1) = len /\ Token = IN_PID
          <6>1. /\ List[TDWord(j)] = Address(47) + 8 * (j - 1)
                /\ List[TDWord(j) + 1] = len /\ List[TDWord(j) + 2] % 256 = IN_PID
            BY <2>0, <5>1, FifthList
          <6> QED BY <2>1, <6>1 DEF Token
        <5>3. place' = place \o more
          <6>1. place' = place \o [m \in 1 .. Word(1) |-> Word(0) + m - 1]
            BY <1>1, <4>1, <5>2 DEF Execute
          <6> QED BY ONLY <5>2, <6>1
        <5>4. place \in Seq(Int) /\ Len(place) = 8 * (j - 1)
          BY <2>0, <4>2, <5>1 DEF ListTypeOK, Came, Bytes5
        <5>5. more \in Seq(Int) /\ Len(more) = len
          BY <5>1
        <5>6. \A m \in 1 .. 8 * (j - 1) : place[m] = Address(47) + m - 1
          BY <4>2, <5>1 DEF Came, Bytes5
        <5> DEFINE front == 8 * (j - 1)
        <5>7. /\ Len(place') = front + len
              /\ \A m \in 1 .. front + len :
                   place'[m] = IF m <= front THEN place[m] ELSE more[m - front]
          <6>1. front \in Nat /\ len \in Nat
            BY <5>1
          <6>2. Len(place) = front
            BY <5>4
          <6> HIDE DEF front, more, len
          <6>3. Len(place') = front + len
            BY <5>3, <5>4, <5>5, <6>2, ConcatProperties
          <6> SUFFICES ASSUME NEW m \in 1 .. front + len
                       PROVE  place'[m] = IF m <= front THEN place[m] ELSE more[m - front]
            BY <6>3
          <6>4. m \in 1 .. Len(place) + Len(more)
            BY <5>5, <6>1, <6>2
          <6> QED BY <5>3, <5>4, <5>5, <6>2, <6>4, ConcatProperties
        <5>8. \A m \in 1 .. front + len : place'[m] = Address(47) + m - 1
          <6>1. front \in Nat /\ len \in Nat
            BY <5>1
          <6>2. \A k \in 1 .. len : more[k] = Address(47) + front + k - 1
            OBVIOUS
          <6> HIDE DEF front, more, len
          <6> SUFFICES ASSUME NEW m \in 1 .. front + len PROVE place'[m] = Address(47) + m - 1
            OBVIOUS
          <6>3. CASE m <= front
            BY <5>6, <5>7, <6>1, <6>3 DEF front
          <6>4. CASE m > front
            <7>1. m - front \in 1 .. len
              BY <6>1, <6>4
            <7>2. place'[m] = Address(47) + front + (m - front) - 1
              BY <5>7, <6>1, <6>2, <6>4, <7>1
            <7> QED BY <6>1, <7>2
          <6> QED BY <6>1, <6>3, <6>4
        <5>9. Bytes5(j) = 8 * (j - 1) + len
          BY <5>1 DEF Bytes5
        <5> QED BY <5>7, <5>8, <5>9 DEF Came
      <4> QED BY <4>3, <4>4
    <3> QED BY <3>1, <3>2
  <2>5. CASE j = 6
    BY <2>3, <2>4, <2>5 DEF Collected
  <2>6. CASE j # 6
    <3>1. j + 1 \in 1 .. 6 /\ td' = Address(TDWord(j + 1)) /\ td' # 0
      BY <2>2, <2>3, <2>6 DEF TDWord
    <3>2. Came((j + 1) - 1)'
      BY <2>2, <2>4
    <3> QED BY <3>1, <3>2 DEF Collected
  <2> QED BY <2>5, <2>6
<1>2. CASE WriteWord \/ RewriteList \/ UNCHANGED listVars
  BY <1>2 DEF WriteWord, RewriteList, listVars, Collected, Came
<1>3. CASE HandOverList
  BY <1>3 DEF HandOverList, Collected, Came
<1>4. CASE NextList
  BY <1>4 DEF NextList, ListsInv, Collected
<1> QED BY <1>1, <1>2, <1>3, <1>4 DEF ListNext

\* The two words data extraction reads of the configuration descriptor hold the bytes 16
\* and 31 of it: the five packets lie one behind the other.
THEOREM DescriptorCorrect == ListSpec => []ExtractsDescriptor
<1>1. ListInit => Collected
  BY DEF ListInit, Collected
<1>2. Collected => ExtractsDescriptor
  BY DEF Collected, Came, Bytes5, ExtractsDescriptor, ProtocolAt, DataSizeAt
<1> QED BY <1>1, <1>2, ListsInit, ListsStep, CollectedStep, PTL DEF ListSpec

=============================================================================
