# A verification project for the FPGA shortest-path finder

The repository is a design for the Altera DE2-115 board. A VHDL circuit finds
shortest paths on a road map that is synthesised into it; a Nios II processor
runs a C program that asks for two towns, drives the circuit through memory
mapped registers, reads the answer back and draws it on a VGA screen; the same
program then turns into a mouse paint tool on a USB host controller. Here the
design is modelled in TLA+, checked with TLC and proved about with TLAPS.

Line numbers refer to `src/`. "main C" is
`software/DE2_115_NIOS_HOST_MOUSE_VGA/DE2_115_NIOS_HOST_MOUSE_VGA.c`, "register
file" is `DE2_115_SOPC/synthesis/submodules/VGA_NIOS_CTRL.v`.

## 1. Inventory

| Component | State | Operations | Talks to |
|---|---|---|---|
| Shortest-path core (`Dijkstra_vhdl.vhd`, `RAM_vhdl.vhd`, `comparator_vhdl.vhd`, `comparator_4_to_1_vhdl.vhd`) | controller state and two counters, their delayed copies, one RAM per column of the map, `distance`, `neighbor`, `shortest`, comparator minima, `New_reg` | one rising clock edge; a latch of one result per rising edge of `clk_NIOS` | register file (ports `reset`, `start`, `trans_count`, `clk_NIOS`, `state`, `neighbor_out`, `distance_out`) |
| Road map (`map_initialization_vhdl.vhd`) | none: 25 roads between 16 towns | -- | core, through its RAMs |
| Register file (`VGA_NIOS_CTRL.v`) | core registers, cursor position and colours, pixel write port | bus write, bus read, each on a falling edge of the core's clock | program, core, VGA controller |
| Search program (main C, `shortestPathFind`, `min_path`) | node numbers, copies of the arrays, the call stack | ask, write registers, poll, copy, print recursively | register file, user |
| Line drawing (main C, `VGA_line`) | none | Bresenham's line in eight directions | pixel memory |
| USB mouse enumeration (main C from line 450, `lcp_*.h`) | transfer lists in the controller's memory, one message cell, mailbox, `toggle`, `data_size` | reset the controller, write and rewrite lists, poll for messages, extract descriptor bytes, restart on unplugging | CY7C67200 through its HPI bridge |
| Mouse paint loop (main C from line 1700) | cursor, colour, data toggle | poll a report, move, draw, clear | USB, cursor registers |
| VGA timing and addressing (`VGA_Controller.v`) | line and frame counters, synchronisation, pixel address | one pixel clock | pixel memory, monitor |
| OSD pixel memory (`VGA_OSD_RAM.v`, `Img_RAM.v`) | one bit per pixel | write a pixel, read a pixel | VGA controller |
| HPI bridge (`CY7C67200_IF.v`) | one stage of registers | one clock | USB controller |
| Panel output (`LCD.c`, `SEG7.c`, `SEG7_IF.v`) | characters on the panel, eight digits | greet, show the cursor's position | panel, digits |
| Console driver (`altera_avalon_jtag_uart_*.c`) | two rings, interrupt enables, seconds without a host | read, write, close, interrupt routine, alarm | JTAG UART, program, system clock |
| Display driver (`altera_avalon_lcd_16207.c`) | text lines, their widths and speeds, a picture of the panel and its cursor | write, scroll from an alarm, repaint | panel, system clock |
| System clock and time of day (`alt_tick.c`, `alt_alarm_start.c`, `alt_gettod.c`, `alt_settod.c`) | tick counter, alarms, time at tick zero | tick, start and stop an alarm, set and get the time | timer interrupt, drivers, search program |
| Nios II system, interrupt service, file descriptors, other HAL and board IP, image ROMs | generated or vendored | -- | -- |

What is hard about it:

* *Pipelines.* RAM data arrives two clocks after its address and is used under
  a controller state delayed by two clocks. Rounds overlap: two wait states
  exist only so that the relaxation of the last round lands before the next
  scan. State 7 ("done") is visible before the last relaxation has landed.
* *Arithmetic.* Distances are 14 bits and 10000 means "no road";
  10000 + 10000 does not fit.
* *Partitioned search.* Four comparators scan a quarter of the nodes each, so
  an index is a lane, an offset and a multiplication.
* *Interleaving.* The processor writes `reset` and `start` at any moment of a
  search. The core has no handshake: the program polls `state` until it is 7,
  and the 7 of the search before must not be mistaken for the new one.
* *Restart.* A processor reset starts the program over and leaves the core and
  its registers as they were.
* *A clock made of bus writes.* Results are latched on rising edges the
  program makes with writes of 1 and 0 to a register.
* *Recursion on data from hardware.* `min_path` follows `neighbor[]` until it
  meets the start node.
* *Video.* The drawing and the background reach the screen through pipelines on
  different clock edges that have to take the same time, the cursor cross bypasses
  both, and its registers are written while the screen is scanned.
* *Mouse arithmetic.* Positions are 16-bit unsigned, movements are signed bytes
  that stay in force until a later report changes them.
* *USB.* A list of transfers is handed over again every 10 ms until a message
  comes, and the controller may be in the middle of it. Messages share one
  cell that the program reads and then clears. Data toggles, late answers,
  and mice that are unplugged at any moment.
* *Rings shared with an interrupt.* The console driver takes no lock: thread
  and interrupt routine each own one end of a ring, and switch interrupts off
  and on to wake each other.
* *A repaint from an alarm.* The display driver scrolls from the timer
  interrupt, between any two accesses of a write to the same panel.
* *Wrap-around.* The tick counter is 32 bits; alarms may lie beyond the wrap.

What makes each component correct: the core returns shortest distances and a
tree of last hops, on every map it could be built with, however it was reset
and restarted before; the program takes only results of the search it started,
copies all of them, and prints a shortest path; a line is connected and ends at
both ends; the enumeration is that of the mouse that is there, and polls resume
after a hot plug; no report is decoded twice; cursor, digits and painted pixel
agree; every visible pixel shows its own memory cell once per frame; the console
loses no byte and leaves nobody waiting; the panel shows the text, long lines scroll
round together and end together; alarms go off on time, and the clock is off by
nothing but what its 32 bits lose.

## 2. Modules

```
RoadMap ── GreedySearch (abstract)
   │            ▲ implements
   └─ DijkstraCore ── GreedyRefinement ── MCDijkstra ── MCSmallMaps
          ├─ DijkstraInvariant
          └─ ShortestPathSystem ─┬─ MCSystem
             MapInitialization ──┘

VgaLine ── MCVgaLine        VgaScan        MousePaint ─┐
                                           FrontPanel ─┴─ PaintBoard
TransferLists    UsbMouse                  AlarmTick ──┐
Lcd16207 ── MCLcd                          TimeOfDay ──┴─ SystemClock
JtagUart ── ConsoleRefinement ── implements ConsoleQueues (abstract)

proofs:  ShortestPathSystem_proofs (core, refinement, length of a search, system)
         VgaLine_proofs    VgaScan_proofs    PaintBoard_proofs    UsbMouse_proofs
         JtagUart_proofs   Lcd16207_proofs   SystemClock_proofs
```

The search, the lines, the paint loop and the screen meet only in the registers
and the pixel memory, one write at a time. No property relates a search
to a pixel, so they are separate modules, and `VgaScan` takes the program's
writes to the cursor registers as coming at any time. `UsbMouse` hands
`MousePaint` nothing but reports that come or fail; `MousePaint` takes them in
any order. The two drivers need of the clock that their alarm comes again and
again, which `AlarmTick` shows of any alarm.

**RoadMap** has the constants (`NODE_CNT`, the maps considered, `MaxHop`), the
14-bit words, and what "shortest" means: as a certificate (feasible distances
and a tight tree) and as the Bellman-Ford recurrence. Its assumptions say which
maps the core is meant for: zero diagonal, positive roads, connected by roads of
at most `MaxHop`, and `(NODE_CNT-1)*MaxHop + 10000 < 2^14`. The shipped map meets
them with `MaxHop = 258`; TLC evaluates them on every run.

**MapInitialization** is the weight function of `map_initialization_vhdl.vhd`,
road by road.

**DijkstraCore** is the circuit. One step `Posedge` is one rising edge; every
process of the VHDL is one conjunct of it, reading the old registers:

| VHDL process or instance | Definition |
|---|---|
| Controller, one branch per action | `ResetController`, `LoadRow`, `LoadLastRow`, `InitDistances`, `BeginRound`, `BeginScan`, `Scan`, `EndScan`, `TakeMinimum`, `EndRound`, `Finish` |
| state delay registers | `Delay` |
| prefetch process and `RAM_vhdl` | `read_address`, `Ram`, `Readout` |
| distance, neighbor, shortest | `LoadDistances`, `Relax`, `HoldDistances`, `MarkShortest` |
| four `comparator_vhdl` | `Comparators` |
| `comparator_4_to_1_vhdl` and lane offsets | `Winner`, `new_node` |
| `New_reg` | `KeepMinimum` |

`WriteReset` and `WriteStart` are the two register-file writes that concern the
core, allowed between any two edges. The per-column RAMs share their addresses,
so they are one memory of rows. The source drives unused read addresses with
`'X'`; here they are `Unknown`, and a word read with one may be that of any row.
`startHeld` is a history variable: the start node has not been written since the
last edge in reset. The code reads `start` in three different clocks of a
search, so only such searches have a defined meaning; the properties say so,
and `ShortestPathSystem` checks that the program keeps to it (`NoStaleDone`).

**GreedySearch** is what the core promises, without clocks: begin at a node,
repeatedly expand a nearest unsettled one. **GreedyRefinement** gives the
mapping: a node counts as settled when its relaxation has reached the
registers (`Expanded`), and until distances are loaded there is no search.

**ShortestPathSystem** composes the core, the registers and the program.
The program is one action per bus access or decision, in the order of the C
text; `HostStep` and `ClockStep` alternate so that at least one rising edge lies
between two bus accesses (both are driven by the same clock, the register file
on its falling edge), and any number may. `Reboot` is a processor reset at
any step; it leaves registers and core alone because the reset branch of the
register file (line 117) names only the cursor. A debugging read-back of a
register just written changes nothing and is time that passes; line drawing and
printed wording are left out of this module.

**VgaLine** is `VGA_line` (main C, lines 180-259), one step per pass of its loop.
The locals are the C ones; `Init` is everything before the loop (clamping, signs,
the exchange of the sides, the first error), `SetPixel` is one pass. `drawn` is a
history of the pixels set.

**VgaScan** is the way from the pixel memory to the monitor. `Rise` is a rising
edge of the pixel clock, its conjuncts being the processes of `VGA_Controller.v` and
of the background in `VGA_NIOS_CTRL.v`; `Fall` is a falling edge, on which
`VGA_OSD_RAM.v`, the memory and the second ROM work. Instead of a colour, a
register holds where its colour comes from (which cell of the pixel memory,
which address of the background), so "the right pixel is shown" can be stated.
`Visible`, `Row` and `Col` are the place on the screen that is sent at the
falling edge, where the DAC takes it.

**MousePaint** is one pass of the paint loop (main C, lines 1780-1973): `Report` or
`Failed` (the transfer's control byte is not 3), `Move`, `CursorX`, `CursorY`,
`Paint`. Both layouts of a report carry the same three bytes and are one action.
**FrontPanel** has `LCD_Test` and `SEG7_Hex`. The texts of `LCD_Test` have no
terminating zero, so what is sent is the text and a tail: as many characters as
the stack happens to hold, chosen in `Init`. **PaintBoard** composes the two: the
greeting first, then passes in which the position is moved, its eight digits are
written one after the other, and then the cross and the pixel.

**TransferLists** are the nine lists of the enumeration, with the addresses,
lengths, tokens and toggles of the source, written word by word (`WriteWord`),
handed over, and written again (`Resend`) while the controller walks the chain
(`Execute`). A list is a function of its words (`Chain`): the SETUP descriptor, its
packet and the descriptors behind it, at `Address`. A buffer is a range of addresses of which it only matters that it
was overwritten.

**UsbMouse** takes each list as one value and models the program around them:
from `USB_HOT_PLUG` (`HotPlug`, `FirstAck`, `SecondAck`, `Probe`, `AwaitDevice`)
through the common course of a transfer (write, wait, resend, read the message,
clear it, check the control byte, renew) to `ExtractData`, `Poll` and `Decode`.
Controller and mouse are external: a command is carried out some time after it
was sent; a list is set up, and later finished or refused; a handed-over list
starts again or only replaces the pointer; messages overwrite each other; a mouse
may be unplugged and another plugged in at any moment. `spoilt` is a history of
what happened that the program does not notice. Its seven causes name the
places where the protocol relies on luck: a command sent before the last was
carried out (`overrun`), a list handed over when it had just been done (`raced`)
or lost because another one took its place (`lost`), a message cleared unread
(`erased`), a transfer of the enumeration that failed (`failed`) or was
answered without data (`data`), a mouse removed in the middle (`unplugged`). The
properties say what holds without them, or that only they can spoil it.

**JtagUart** is the console driver with one step per access to shared state. The
interrupt routine reads the control register, then moves bytes one by one; the
thread computes its room, copies, publishes the new offset, enables the
interrupt, waits. The device is a pair of FIFOs with the interrupt conditions that
the driver's register definitions give it; the host fills, empties, pauses and comes or goes.
Bytes are numbers in the order they were written.

**ConsoleQueues** is what the console promises, without offsets, interrupts and places of
a program: two buffers between the program and the FIFOs, and calls that put in or take
out a whole chunk at once. A call that finds its buffer full or empty may be short if
it is non-blocking, or a read that has something; otherwise it waits. It comes back
unfinished only if the host was silent and not a byte has moved since, for a byte
that moves puts it back to work. **ConsoleRefinement** maps `JtagUart` to it: the buffers are
what lies between the offsets, and what a call has concluded is in its place and in
whether the offset it loaded is still the present one.

**Lcd16207** is the display driver: `Token` interprets one character or complete
escape sequence, `Recalculate` works out widths, speeds and `scrollmax`,
`Repaint` and `PaintCell` send what changed, `Check` starts over when the alarm
moved the text meanwhile, `Timeout` is the alarm. `Char` and `UChar` are the widths
of the C variables, whose range `Byte` is a constant. The driver reads the scroll
position twice before it paints, which is one reading here: were the alarm between
them, the comparison would fail and the panel be painted again. `Advance` is the part
of `Timeout` that moves the position.

**AlarmTick** is the tick counter with the alarms, **TimeOfDay** the wall clock and
the two readings a search takes of it, **SystemClock** the two over one counter.
The histories `set`, `at` and `passed` of `TimeOfDay` remember the time last set, the
counter then and the ticks since; `Clock` is the time they make.

## 3. Runs

| Run | Instance | Question |
|---|---|---|
| `core_anytime` | 8 nodes, two maps (a chain whose roads run against the scan order, a one-way ring with costly shortcuts), start nodes 0 and 5, writes at any clock | Is the pipeline aligned however resets and writes fall; are labels final; do results hold still; does every search end; does the circuit implement `GreedySearch`? |
| `core_maps` | all 624 symmetric connected four-node maps over {700, 2127, 10000} | Is no carry lost, is a nearest node taken, is the result certified? |
| `system_reboot` | 4 nodes, two maps, inputs -1 to 4, one processor reset anywhere | Does the program copy the whole result, never from a stale state 7, print a path with bounded recursion, and always in the end; does it use the core as `Spec` allows? |
| `system_shipped` | the shipped map, every pair of towns, inputs -1 to 16 | Is what is printed a shortest path, by the recurrence of Bellman and Ford? |
| `line` | a screen of 7 x 6, every pair of ends up to two pixels off it | Is every pixel within half a pixel of the true line and on the screen; does the line end at both ends? |
| `vga` | a screen of 16 x 3, three cursor columns, two rows, one reset anywhere, cursor writes at any time | Which pixel does each place show, on the background of the same place; is the cross over the pixel it points at; is every place shown over and over? |
| `paint` | a screen of 4 x 2, a panel of 3 columns, movements 0, 2 and -1, three button bytes, reports and failures in any order | When does the greeting survive; do digits, cross, position and painted pixel agree after a pass; what do equal reports and moves off the screen do? |
| `usb_lists` | the nine lists of the source | Does nothing overwrite a list in use; do the toggles agree however often a list is restarted; are the extracted bytes the right ones? |
| `usb_mouse` | packet sizes 4 and 8, two reports, one refusal, failure or unplugging at any moment | Is a transfer taken for done only when it was; is the packet size that of the mouse being polled; is no report decoded twice; is the program stuck only for a named cause; is a mouse that stays served? |
| `uart` | rings of 3, FIFOs of 2 and 1, requests of up to 2 bytes, four bytes in all, a host that comes or goes once | Does every byte arrive once and in order; is no interrupt left off; does every call return; do the calls behave as on two plain queues? |
| `lcd` | 2 x 2 characters over lines of 5, characters of 24 values, four tokens | Does the driver know what the panel holds, does the panel show the text; do long lines of different lengths reach their ends together, again and again? |
| `clock` | counter of 10 values, periods up to 8, two ticks a second, up to 21 ticks after each setting | Are alarms on time across every wrap; is the time read, and the time a search prints, off by nothing but what the code loses by design, after late settings and wraps as well? |

Bounds and why they are enough:

* `NODE_CNT` 4 gives each comparator one node, so a scan is a single step; 8
  gives two, so `Scan` and `EndScan` both happen and lanes interleave; 16 is
  what is shipped.
* 700, 2127, 10000: 3 * 2127 + 10000 is one below 2^14, so an addition that is
  off by one road loses its carry; 3 * 700 < 2127, so detours pay.
* `core_anytime` allows any number of writes at any clock. `core_maps` writes
  only in reset or at state 7 (`QuietSpec`), as the program does when it is
  not interrupted; only what happens there depends on the map.
* `line`: 7 and 6 are lines of all eight directions, flat, steep, diagonal and
  of a single point, with odd and even lengths, so that both roundings happen.
* `vga`: 16 columns are two bytes of the pixel memory, so bits of a
  following byte are shown; three rows are a first, an inner and a last one.
* `paint`: a step of 2 jumps over an edge from one pixel before it, -1 wraps below
  zero, 0 leaves a movement in force, button byte 3 is neither button. The tails
  {7, 8} and {2, 3} lie on both sides of the two limits in `GreetingSurvives`.
* `usb_mouse`: a fault in each phase, before and after it; with two reports a
  repeated one, a lost one and a swapped pair all differ. `OneCause` cuts a behaviour
  off after a second cause in `spoilt`: every property but the first conjunct of
  `ReportsComplete` speaks of states without any cause.
* `uart`: `MaxBytes` 4 fills ring and FIFO, so that a writer has to wait, and a full
  receive ring leaves bytes in the FIFO; the offsets go round the ring, so an offset
  loaded by a waiting call would be met again if anything let the other end pass.
* `lcd`: `SmallTokens` has characters and the sequences that move the cursor and
  clear. `To(2, 3)` and `To(3, 4)`, with one character after each, make texts of 3 and
  4 characters, widths 4 and 5, that scroll together at the speeds 9 and 12 in 24ths.
  With 24 values a character holds twice the width of a text of 4 and not of 5, as 256
  values do with texts of 62 and 63, so a line may become too long to scroll while the
  panel is scrolled.
* `clock`: 10 values hold five seconds of two ticks; the product of `settimeofday`
  overflows from half of the range on and 10 is no multiple of a second (4
  microseconds), so a late setting loses microseconds. `MaxTicks` 21 sees two turns of
  the counter after a setting at any of its values. One alarm: alarms do not influence
  each other, and the proof covers any number of them.
* `MaxBoots` 1: after a reset the program is in its first state and knows
  nothing, while the core may be in any state; a second reset meets the same.
  `PrintsShortestPath` is checked on the shipped map, and proved for any number of resets.
* Each run begins with registers and memories at zero, as the FPGA powers up.

Type invariants are proved of every module, and in the runs they are the
first conjunct of one of the checked invariants.

Fairness. `WF(Posedge)`: the clock oscillator does not stop. `WF(HostStep)`: the
processor keeps executing, and a user asked for a number eventually types one
(a number out of range is asked for again; liveness is only claimed from the
point where both are in range). No fairness is assumed of host writes in the
core's own specification, nor of resets. All actions of the core happen inside
`Posedge`, so weak fairness of it is enough. `VgaScan` says the same of the pixel
clock; cursor writes and resets get none. In `UsbMouse` the program and the
controller run (`WF`), and a list is done at some time although it is handed over
again and again (`SF` of `FinishTransfer` and `PollMouse`): it takes
less than the 10 ms between two writings. Reports, faults and plugging get none. In `JtagUart`
the routine runs when it is due (`WF`), the thread and the alarm in the gaps
between interrupts (`SF`, since the routine disables them), and a connected host takes
bytes and pauses (`WF`); it need not send. In `Lcd16207` only the alarm goes
on (`WF` of `Advance`, the timer does not stop); nothing is asked of the write. No liveness is claimed for `VgaLine`, `PaintBoard`,
`TransferLists` and `SystemClock`. The deadlock test is off where the modelled part
really may end: a line, the last list, a program stuck on the bus.

What the modelling showed:

* `H_Cont` counts up to and including `H_SYNC_TOTAL` (`VGA_Controller.v` line 174,
  and 200 for lines), so a line lasts 801 clocks and a frame 526 lines, where 800
  is the sum of the line's four parts (comment at line 27). The picture is stable
  all the same: `EveryPlaceShown`.
* `ShowsPixel`: column c shows the memory's pixel c + 1, because the address is
  corrected by three where the pipeline is longer, and the last five columns
  repeat one pixel. Pixel 0 and the last four pixels of a row are never visible.
  The cross is drawn with its own offset and agrees with the shown pixel
  (`CrossOverPixel`), so a user who paints with it sees nothing wrong.
* `EndsOnFarEdge`: a cursor moved beyond the left or upper edge appears at the
  opposite one. `maxmin(px,639,0)` cannot clamp at 0, since `px` is unsigned.
* `EqualReportsMoveOnce`: a movement of zero leaves the previous movement in
  force, and one equal to it cancels it. No comment says whether this is meant.
* `GreetingSurvives`: the two texts of `LCD_Test` fill their arrays of 16, so
  `strlen` reads on. Short tails are harmless since a row of the panel has 40 cells.
* The data toggle of a poll advances also when the poll found nothing (main C 1782).
  A report may be lost then, and the mouse sends it again or not;
  `ReportsComplete` claims completeness only while every poll found one.
* `settimeofday` multiplies the ticks in 32 bits, `gettimeofday` in 64. The comment at
  `alt_settod.c` 61 says that "an immediate call to gettimeofday() would return the
  value specified": from the 72nd minute on it is off by up to a second. `ReadsRight`
  has the exact loss (`Lost`), and that what is set is read back if nothing was lost.
  Each time the counter goes round, the clock falls back by the whole turn.
* The elapsed time (main C 367) is a difference of microseconds: it is short by a
  second for every second that begins during the search. `PrintsRight` says so exactly,
  and that for a search of less than a second a number that is not negative is right.
* `scrollmax` is a signed char: from a line of 63 characters on (width 64, with the space
  added), twice the width does not fit and no line scrolls. A panel that was scrolled
  when such a line was written stays where it was painted, while the alarm sets the
  position back to 0; hence the position of its own in `ShowsText`.
* ESC [ K with the cursor below the last line writes behind the array
  (`altera_avalon_lcd_16207.c` 341). No program here sends it there; in the model it
  changes nothing.
* An alarm callback that stops the alarm after it in the list leaves the walk in
  `alt_tick` on an unlinked entry. Neither driver does.

## 4. Proofs

Checked by TLAPS for every `NODE_CNT`, every set of maps and start nodes, every
set of typed numbers and any number of processor resets. What is assumed:

* `NodeCntAssumption`: the number of nodes is a positive multiple of the four
  lanes and fits the counters;
* `MapsAssumption`, `MaxHopAssumption`: zero diagonal, positive roads,
  connected by roads of at most `MaxHop`, and the bound on `MaxHop` above;
* `UnknownAssumption`, `StartsAssumption`, `InputsAssumption`,
  `MaxBootsAssumption`: the parameters have the types their use implies.

The other components have assumptions of their own, named below.

**Types** (`TypeCorrect`). `TypeOK` is inductive by itself; the step that is not
obvious is that `new_node` is a node, that is, lane times `Quarter` plus offset.

**Pipeline** (`PipelineCorrect`). That the right row arrives is not inductive: it
depends on what the controller did two clocks ago. `PipelineInv` adds which triples
of consecutive states occur (`Windows`), what the round counter is in each
(`Rounds`), that rows once written are the map's (`RowsLoaded`) and that the
right address precedes the right row by a clock (`AddressesFollow`).

**Search** (`Invariance`). `SearchInv` is the invariant of Dijkstra's algorithm with
one relaxation under way: `Expanded` leaves out the node taken last until its
relaxation has landed. `Counted` ties the round counter to the size of `shortest`;
`Tight`, `Relaxed` and `Ordered` are the classical parts; `Bounded` says that after
k rounds no settled node is farther than k short roads, which with the assumption
on `MaxHop` keeps every sum within 14 bits; `LanesScanned` says what the
comparators have seen so far. `NearestTaken` needs all of them: connectedness
gives an unsettled node nearer than 10000 (`NodeLeft`), so some lane holds a real
candidate instead of its initial 10000. From the invariant follow `NoCarryLost`,
`TakesNearest`, `DoneCertified`, `FinalLabels` and `ResultsHold`.
`NeverTooShort` compares the labels in every state with *any* feasible
assignment, and with `DoneCertified` makes the final ones optimal without
mentioning paths.

**Refinement** (`RefinementSafety`). Initial states map to initial states; a
`Posedge` that loads distances is `Begin`, one whose relaxation lands is `Expand`
of the node in `New_reg`, an edge in reset abandons the search, and the rest stutter.

**The length of a search** (`LatencyCorrect`). Nothing the controller decides depends on
the map, so the edges it still needs follow from its state: `Remaining` counts them. An edge
in reset sets it to `Latency` = NODE_CNT + 2 + (NODE_CNT - 1) * (Quarter + 4), every edge out
of reset takes one off, no write of the host changes it, and it is 0 exactly in state 7. A
search of 16 nodes takes 138 edges, for every map and start node. What `Terminates` adds is
the fairness only: that the edges come.

**System**. `SysInv` adds to the core's invariant what the program has arranged at
each of its lines: `HandShake` (the start register holds its node, the core has
seen an edge in reset before reset is raised again, hence a 7 seen while polling is
new), `Readback` (which element is in the output registers) and `CopiesCore`.
`UsesCoreSafely` shows that the core's theorems apply. `Trail` says that the calls
of `min_path` form a chain of tight roads along which distances fall, which
bounds the recursion (pigeonhole on the nodes).

**The printed path** (`PrintsShortestPathCorrect`) is where all of it meets: for every
map, every input and any resets, what is printed is a path from the node the user
named, its roads add up to the distance that was read, and that distance is the one of
the Bellman-Ford recurrence of `RoadMap`. The last part is an induction over the table's
rounds. The library's induction theorems cannot be instantiated here, but its `WFMin`
(a well-founded relation has minimal elements) takes no operator: `NatMin` and
`Induction` follow from it for sets, and the lemmas on the recurrence are proved by
least counterexample. A certificate (feasible and tight) bounds the table from below
in every round, and following `neighbor` back from a node reaches the start in fewer than
`NODE_CNT` tight roads, which bounds it from above.

**Lines** (`LineTypeCorrect`, `WithinHalfCorrect`, `OnScreenCorrect`,
`EndsMeetCorrect`), for every screen and every integer coordinates passed in
(`ScreenAssumption`). `LoopInv` says that after j passes of which m turned, the
current pixel is j steps along the long side and m along the short one, and `e` is
2(dy(j+1) - dx m) - dx, twice the error less half a pixel; `drawn` alone does not
determine `e`, hence the strengthening. `ShortSide` (half a pixel from the line is
never past the end of the short side) gives `OnScreen`, `LastPixel` gives
`EndsMeet`.

**Alarms** (`AlarmsOnTime`, `TimesTold`), for every set of alarms,
every width of the counter and all periods that leave it one value
(`WordAssumption`). `OnTime` is not inductive: the stored time and the rollover flag
decide when the callback comes, and `TimeOfAlarm` says that they are the sum
of the counter and the ticks still to wait, wrapped, and whether it wrapped.
`Start` and each tick keep this on both sides of the wrap, callbacks that ask for
a new period included.

**Wall clock** (`ClockCorrect`, `AlarmsBesideClock`), for every tick rate that divides a second
(`ClockAssumption`), every setting and any number of turns after it. `Agreement` is the
induction: the counter is the one at the setting and the ticks since, wrapped; the stored
time and the ticks at the setting are the time set and `Lost`; a search under way
holds a right reading. `Reading` is the division into seconds and microseconds of
`gettimeofday`, `Printing` the difference that a search prints, `LostTyped` bounds the loss.
`AlarmsBesideClock` carries `OnTime` over to the composition.

**Screen** (`ScanTypeCorrect`, `RightPixel`, `CrossMeetsPixel`), for every timing and picture
with room for both pipelines before the end of a line (`TimingAssumption`). `ShowsPixel` is not
inductive: seven registers lie between the counters and the DAC, one half on the other
clock edge. `ScanInv` says of each register which address (`Due`) was put in so many
counts ago; `Late` is one more for those that change on the falling edge while the
clock is high. A reset or a cursor write changes no address that is on its way.
`CellsDiffer` (a cell and a bit name one pixel) gives `CrossMeetsPixel`.

**Paint loop** (`PaintTypeCorrect`, `EqualReportsCorrect`, `FarEdgeCorrect`), for screens up to
65536 - 128 (`PaintAssumption`): 16-bit positions plus signed bytes, and where they wrap.

**Digits and greeting** (`PositionCorrect`, `GreetingCorrect`), for digits of any base and number
and panels of any size (`PanelAssumption`). The digits show a number through repeated
division; `IterationExists` makes sense of the recursive function `Place`, and
`NumberMeans` shows that the digits written are those of the two coordinates. `PassInv` ties
digits, registers and pixel to the step of the pass. For the greeting, `Sent` says that the
panel's memory is what the items sent so far leave in it, stated without
recursion: `Laid` says what a run of characters does to a memory that it may go round
several times.

**USB mouse** (`MouseTypeCorrect`, `EnumerationCorrect`, `SizeCorrect`, `ReportsCorrect`,
`StuckOnlyAfterCause`), for every set of packet sizes and any number of reports and faults
(`UsbAssumption`; no `OneCause`). `MouseInv` says what the program may believe at each of its
lines: that a message stands for its list (`Course`), the control byte for the list handed
over last (`ControlByte`), a passed list for a transfer the present mouse carried out
(`Carried`), the copied size for its packet size (`SizeRead`), and that the two toggles
differ exactly while a poll is under way (`Lockstep`). All but the order of reports hold
only while nothing has `spoilt` the session, and the proof has to show of each step
that spoils it that it names its cause.

**Transfer lists** (`ListIntactCorrect`, `TogglesCorrect`, `DescriptorCorrect`). The lists are
those of the source and the module has no constants; the run visits every state, and
the proof says why it holds. Of the words of a list only this is needed (`IsList`): each
descriptor but the last points at the one behind it, each buffer lies behind the last
word, and the toggles alternate up to a DATA1 status stage. `ListsInv` follows the
controller along the chain: it is at a descriptor of this list (`AtTD`), which reads as
it was written (`Intact`), so the next one is known too. `Collected` adds where the
bytes of the fifth list went. These proofs stand in `UsbMouse_proofs`, beside those of the
program that sends the lists: the two modules share no variable.

**Console** (`InOrder`, `ArmedCorrect`, `TypeCorrect`), for rings and FIFOs of any size,
any interrupt thresholds, requests and moves of the host (`ConstantsAssumption`; the
bounds on bytes and plugs are constants too, and any numbers will do). `BytesInOrder` is
not inductive, because the thread publishes an offset computed from one it loaded
before the interrupts of the meantime. `WriterHolds` says what is still true of the old
offsets: `in` is `tx_in`, the `n` places after it are free and do not wrap, and
after the copy hold the next `n` bytes; the routine moves only `tx_out`,
which frees more. `ReaderHolds` is the same for `chunk` and the front of the receive ring, to
which the routine only adds. The lemmas on rings (`RingExtend`, `RingTake`, `RingPut`,
`RingGet`) say what moving either end does to the contents, across the wrap.
`Counts` keeps a call from exceeding its request, and `RoutineHolds` ties
the space the routine has read once to a FIFO the host only empties, and the
disabling of the receive interrupt to a full ring, which gives `Armed`.

**Console as queues** (`QueuesImplemented`). Publishing an offset is `Accept` or `Deliver` of the
whole chunk, one byte of the routine is `Transmit` or `Receive`, and every other step of
the thread is what it concludes (`Block`, `GiveUp`, `Return`) or a stutter. The thread
recognises that a byte has moved only by comparing an offset with the one it loaded,
which would deceive it if the offset had come round the ring meanwhile. `WaitHolds` rules that out: while a
write waits, `tx_in` still lies one place before the `out` it loaded, and `tx_out`
would have to pass it; a read waits with `in` at `rx_out`, which `rx_in` never reaches.
That a call returns at all is liveness, and `NobodyWaits` stays with TLC.

**Display** (`LcdTypeCorrect`, `TextCorrect`, `LinesGoRoundCorrect`), for every size of panel and line that the driver's
characters can hold (`LcdAssumption`), all texts and a panel that may stop answering.
`LcdInv` says what holds at each line of a write whenever the alarm comes: only the write
paints while `active`, the widths are worked out whenever someone paints
(`WorkedOut`), the cells painted so far show the text at `painted`, and at the last
comparison the panel shows either that or, painted by the alarm, the present
position. `WriteCell` is one cell over the driver's picture and the panel's own memory and
cursor, answering or not; `RepaintAll` is the alarm's whole repaint, a recursive function,
by induction on its cells. `Speeds` and `Signed` show that a line that does not
scroll has speed 0 and that `scrollmax` is 0 for no other reason. `LinesGoRound` says
that in the positions all lines share, each line that scrolls comes to each of its
characters, and to its last one at the last position: `Gear` is the arithmetic of the speed,
rounded down, and `Geared` says that the speeds in use are of that form. That the last
position is reached again and again is `LinesEndTogether`, which stays with TLC.

Only model-checked:

* liveness (`Terminates`, `PathIsPrinted`, `EveryPlaceShown`, `MouseServed`, `NobodyWaits`,
  `LinesEndTogether`, the fairness parts of `ImplementsGreedySearch` and `UsesCore`), which is
  out of the prover's reach.

## 5. What is not modelled, and choices made

* `sub_counter_reg`, `sub_counter_reg_reg` and `min_distance_reg` are written
  and never read.
* The VHDL sensitivity lists omit some signals (`process(state)` in the prefetch
  logic); a simulator would then differ from the synthesised circuit. The
  model follows synthesis.
* `scanf` meeting something that is no number leaves it in the input, and the
  program then asks forever; typed numbers are integers here.
* Map weights are the integers of the source; nothing converts them.
* USB: a lost acknowledgement on the wire is the controller's affair (it repeats the
  packet); it shows here as a transfer that failed or a report delivered with
  the other toggle. What a list that raced with its message does word by word to
  the next list is not followed: `UsbMouse` marks the behaviour `raced`.
  The HPI bridge is one stage of registers, whose latency cannot be told from the
  controller's.
* The display driver's collecting of the digits of an escape sequence; a sequence is one
  token. The console driver's `ioctl`, which reads and sets the timeout.
* The variants of the vendored drivers for uC/OS and for small memories, which this
  build does not compile; logging and profiling, which it switches off.
* Interrupt service and file descriptors of the HAL: the models use that a
  routine runs to its end before the thread goes on, that a section with interrupts
  disabled is one step, and that the three standard descriptors never change.
* Colour registers of the cursor and the picture, and the saturating sum of
  drawing and background: data that no control depends on.
* Generated or vendored: the Nios II system, its interconnect and memories, the ROM
  contents, other board IP.

A large part of the repository's lines is outside any model: register
definitions (`cy7c67200.h` and `system.h` are lists of `#define`s), licence headers,
generated HDL, vendored start-up code and calls that return a constant. What is modelled
is the code that keeps state and decides something.

## 6. Plan

Modelled in this order: the map and the core, its abstract search and
refinement, the system, lines, screen, paint loop and panel, transfer lists and USB mouse,
console and display drivers, clocks, the console's queues. Every safety property is
proved, and every refinement as far as it is safety. Next:

1. The enumeration's lists and the program around them in one module: what a list that raced
   with its message does to the next one.
2. A larger instance of `UsbMouse`: two faults and an exchange of the mouse in one
   behaviour.
