--------------------------- MODULE TransferLists ---------------------------
(***************************************************************************)
(* The lists of transfer descriptors (TDs) the enumeration of the mouse    *)
(* leaves in the memory of the CY7C67200, word by word through the HPI     *)
(* port, and the walk the controller takes through them.  A TD is six      *)
(* words; the SETUP packet follows the first one.  The program writes the  *)
(* same list again, under the controller's feet, until a message arrives.  *)
(* The controller is external: it executes the active TDs of the chain,    *)
(* retires each one and stores what an IN transfer received.               *)
(***************************************************************************)
EXTENDS Integers, Sequences

VARIABLES
  current,   \* the list being sent: an index of Lists
  written,   \* how many of its words this writing of it has stored
  mem,       \* the words from Base on
  handed,    \* the controller has been given the list
  td,        \* address of the TD the controller is at, 0: idle
  done,      \* it has posted its message
  sequence,  \* external: the data toggle the mouse sends or expects next
  place,     \* history: where the bytes received since the SETUP were stored
  raced      \* history: a list was handed over again when it had just been done

listVars == <<current, written, mem, handed, td, done, sequence, place, raced>>

\* The word i of a list is stored at Address(i), from 0x0500 on.
Base == 1280
Address(i) == Base + 2 * (i - 1)

\* The control byte of a TD, before and after; 0x01 and 0x41: the data toggle.
Active == 19
Passed == 3
DATA0  == 1
DATA1  == 65

\* The PID in the high half of a byte, 0xD0, 0x90 and 0x10, and the device above it.
SETUP_PID == 208
IN_PID    == 144
OUT_PID   == 16
Device    == 512

\* The first word of a request, 0x0500 and so on.
SET_ADDRESS       == 1280
GET_DESCRIPTOR    == 1664
SET_CONFIGURATION == 2304
SET_IDLE          == 2593

TD(buffer, length, pid, toggle, next) == <<buffer, length, pid, toggle, Active, next>>
Setup(pid, request, value, length) ==
  TD(Address(7), 8, pid, DATA0, Address(11)) \o <<request, value, 0, length>>

\* The TDs of an IN transfer and of either status stage.
Packet(buffer, length, toggle, next) == TD(buffer, length, Device + IN_PID, toggle, next)
StatusIn  == TD(0, 0, Device + IN_PID, DATA1, 0)
StatusOut == TD(0, 0, Device + OUT_PID, DATA1, 0)

\* The SETUP TD and its packet, and behind them the other TDs.
Chain(setup, tds) ==
  [i \in 1 .. 10 + 6 * Len(tds) |->
     IF i <= 10 THEN setup[i] ELSE tds[1 + ((i - 11) \div 6)][1 + ((i - 11) % 6)]]

SetAddressList ==
  Chain(Setup(SETUP_PID, SET_ADDRESS, 2, 0),
    <<TD(0, 0, IN_PID, DATA1, 0)>>)

GetDeviceDescriptor1List ==
  Chain(Setup(Device + SETUP_PID, GET_DESCRIPTOR, 256, 8),
    <<Packet(Address(23), 8, DATA1, Address(17)), StatusOut>>)

GetDeviceDescriptor2List ==
  Chain(Setup(Device + SETUP_PID, GET_DESCRIPTOR, 256, 18),
    <<Packet(Address(35), 8, DATA1, Address(17)), Packet(Address(39), 8, DATA0, Address(23)),
      Packet(Address(43), 2, DATA1, Address(29)), StatusOut>>)

GetConfigDescriptor1List ==
  Chain(Setup(Device + SETUP_PID, GET_DESCRIPTOR, 512, 9),
    <<Packet(Address(35), 8, DATA1, Address(17)), Packet(Address(39), 1, DATA0, Address(23)),
      StatusOut>>)

\* Mutant: the buffer of the first packet lies on the last descriptor.
GetConfigDescriptor2List_Overlap ==
  Chain(Setup(Device + SETUP_PID, GET_DESCRIPTOR, 512, 255),
    <<Packet(Address(43), 8, DATA1, Address(17)), Packet(Address(51), 8, DATA0, Address(23)),
      Packet(Address(55), 8, DATA1, Address(29)), Packet(Address(59), 8, DATA0, Address(35)),
      Packet(Address(63), 2, DATA1, Address(41)), StatusOut>>)

\* Mutant: a gap between the buffers of the second and the third packet.
GetConfigDescriptor2List_Gap ==
  Chain(Setup(Device + SETUP_PID, GET_DESCRIPTOR, 512, 255),
    <<Packet(Address(47), 8, DATA1, Address(17)), Packet(Address(51), 8, DATA0, Address(23)),
      Packet(Address(57), 8, DATA1, Address(29)), Packet(Address(61), 8, DATA0, Address(35)),
      Packet(Address(65), 2, DATA1, Address(41)), StatusOut>>)

GetConfigDescriptor2List ==
  Chain(Setup(Device + SETUP_PID, GET_DESCRIPTOR, 512, 255),
    <<Packet(Address(47), 8, DATA1, Address(17)), Packet(Address(51), 8, DATA0, Address(23)),
      Packet(Address(55), 8, DATA1, Address(29)), Packet(Address(59), 8, DATA0, Address(35)),
      Packet(Address(63), 2, DATA1, Address(41)), StatusOut>>)

SetConfigurationList ==
  Chain(Setup(Device + SETUP_PID, SET_CONFIGURATION, 1, 0),
    <<StatusIn>>)

ClassRequestOutList ==
  Chain(Setup(Device + SETUP_PID, SET_IDLE, 0, 0),
    <<StatusIn>>)

GetClassDescriptor21List ==
  Chain(Setup(Device + SETUP_PID, GET_DESCRIPTOR + 1, 8448, 123),
    <<Packet(Address(35), 8, DATA1, Address(17)), StatusOut>>)

\* Mutant: two packets in a row expect the same toggle.
GetClassDescriptor22List_Toggle ==
  Chain(Setup(Device + SETUP_PID, GET_DESCRIPTOR + 1, 8704, 123),
    <<Packet(Address(65), 8, DATA1, Address(17)), Packet(Address(69), 8, DATA1, Address(23)),
      Packet(Address(73), 8, DATA1, Address(29)), Packet(Address(77), 8, DATA0, Address(35)),
      Packet(Address(81), 8, DATA1, Address(41)), Packet(Address(85), 8, DATA0, Address(47)),
      Packet(Address(89), 8, DATA1, Address(53)), Packet(Address(93), 3, DATA0, Address(59)),
      StatusOut>>)

GetClassDescriptor22List ==
  Chain(Setup(Device + SETUP_PID, GET_DESCRIPTOR + 1, 8704, 123),
    <<Packet(Address(65), 8, DATA1, Address(17)), Packet(Address(69), 8, DATA0, Address(23)),
      Packet(Address(73), 8, DATA1, Address(29)), Packet(Address(77), 8, DATA0, Address(35)),
      Packet(Address(81), 8, DATA1, Address(41)), Packet(Address(85), 8, DATA0, Address(47)),
      Packet(Address(89), 8, DATA1, Address(53)), Packet(Address(93), 3, DATA0, Address(59)),
      StatusOut>>)

Lists == <<SetAddressList, GetDeviceDescriptor1List, GetDeviceDescriptor2List,
           GetConfigDescriptor1List, GetConfigDescriptor2List, SetConfigurationList,
           ClassRequestOutList, GetClassDescriptor21List, GetClassDescriptor22List>>

List == Lists[current]
Size == Len(List)

\* Addresses are even; the word at address a of a memory m.
Addresses == {Base + 2 * i : i \in 0 .. 95}
Received == -1
Highest == 65535
Words == Received .. Highest

\* The bytes length says fill whole words, the last one by half.
Buffer(buffer, length) == {a \in Addresses : buffer <= a /\ a < buffer + length}

\* Where data extraction looks for bInterfaceProtocol and for the low byte of
\* wMaxPacketSize: the low byte of the word at 0x56c, the high byte of 0x57a.
ProtocolAt == Base + 108
DataSizeAt == Base + 122 + 1

ListInit ==
  /\ current = 1 /\ written = 0 /\ mem = [a \in Addresses |-> 0]
  /\ handed = FALSE /\ td = 0 /\ done = FALSE
  /\ sequence = DATA0 /\ place = <<>> /\ raced = FALSE

----------------------------------------------------------------------------
(* The program. *)

\* One IOWR of HPI_DATA; the address moves on by itself.
WriteWord ==
  /\ written < Size
  /\ mem' = [mem EXCEPT ![Address(written + 1)] = List[written + 1]]
  /\ written' = written + 1
  /\ UNCHANGED <<current, handed, td, done, sequence, place, raced>>

\* UsbWrite(HUSB_SIE1_pCurrentTDPtr, 0x0500).  A controller in the middle of the list
\* starts again, or advances the pointer itself and goes on.
HandOverList ==
  /\ written = Size
  /\ td' \in IF td = 0 THEN {Base} ELSE {Base, td}
  /\ handed' = TRUE /\ written' = Size + 1 /\ raced' = done
  /\ UNCHANGED <<current, mem, done, sequence, place>>

\* No message yet: HPI_ADDR goes back to 0x0500.
RewriteList ==
  /\ written = Size + 1 /\ ~done
  /\ written' = 0
  /\ UNCHANGED <<current, mem, handed, td, done, sequence, place, raced>>

\* The message has come, and the next list is written over this one.  What a list
\* that raced with its message does to the next one is left to UsbMouse.
NextList ==
  /\ done /\ ~raced /\ current < Len(Lists) /\ written = Size + 1
  /\ current' = current + 1 /\ written' = 0 /\ handed' = FALSE /\ done' = FALSE
  /\ UNCHANGED <<mem, td, sequence, place, raced>>

----------------------------------------------------------------------------
(* The controller. *)

Word(i) == mem[td + 2 * i]
Token == Word(2) % 256
IsSetup == Token = SETUP_PID
Store == IF Token = IN_PID THEN Buffer(Word(0), Word(1)) ELSE {}

\* The transfer of the TD it is at, which is retired; then the next TD, or the message.
\* A SETUP makes the mouse go on with DATA1.
Execute ==
  /\ td # 0 /\ Word(4) = Active
  /\ mem' = [a \in Addresses |->
               IF a = td + 8 THEN Passed ELSE IF a \in Store THEN Received ELSE mem[a]]
  /\ sequence' = IF IsSetup \/ sequence = DATA0 THEN DATA1 ELSE DATA0
  /\ place' = IF IsSetup THEN <<>>
              ELSE IF Token = IN_PID THEN place \o [n \in 1 .. Word(1) |-> Word(0) + n - 1] ELSE place
  /\ td' = Word(5) /\ done' = (done \/ Word(5) = 0)
  /\ UNCHANGED <<current, written, handed, raced>>

ListNext == WriteWord \/ HandOverList \/ RewriteList \/ NextList \/ Execute

ListSpec == ListInit /\ [][ListNext]_listVars

----------------------------------------------------------------------------
ListTypeOK ==
  /\ current \in 1 .. Len(Lists) /\ written \in 0 .. Size + 1
  /\ mem \in [Addresses -> Words]
  /\ td \in Addresses \cup {0} /\ sequence \in {DATA0, DATA1}
  /\ place \in Seq(Base .. Base + 191)
  /\ handed \in BOOLEAN /\ done \in BOOLEAN /\ raced \in BOOLEAN

\* Neither what the mouse sends nor the program, in the middle of writing the list once
\* more, ever changes a word of the list the controller works on, the control words of
\* the TDs it retired apart; and it works on none but the list of this step.
ListIntact ==
  /\ ListTypeOK
  /\ handed => \A i \in 1 .. Size :
       \/ mem[Address(i)] = List[i]
       \/ List[i] = Active /\ mem[Address(i)] = Passed
  /\ td # 0 => handed

\* However often the list is started again, the mouse and the TD the controller is at
\* agree on the data toggle, and the status stage uses DATA1.
TogglesAgree ==
  td # 0 /\ ~IsSetup => Word(3) = IF Word(5) = 0 THEN DATA1 ELSE sequence

\* The bytes the program extracts from the configuration descriptor of a mouse are those
\* it means: byte 16, bInterfaceProtocol, and byte 31, wMaxPacketSize of the endpoint.
ExtractsDescriptor ==
  done /\ td = 0 /\ current = 5 => place[17] = ProtocolAt /\ place[32] = DataSizeAt
============================================================================
