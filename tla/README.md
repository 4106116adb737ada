# Verification of the FPGA core collection

The repository is a library of VHDL and Verilog cores for retro computers on
FPGAs: processors, video chips, sound, memory controllers, serial ports,
timers and codec interfaces.  Most of the large cores come from other projects.
What the library's author wrote, and what boards are built around, are the
small cores with a bus on one side and an external device or a second clock on
the other.  Their difficulty is not their size: it is ports that ask at the same time,
clocks that are not related, handshakes without a wait line and chips that
take a command only at certain times.  Beside the cores stands the software of
the ZipCPU: an assembler and disassembler, and a test bench that is a debugger,
written in C++.  The modules here model those cores and programs,
check them with TLC on small instances and prove some of their properties with
TLAPS for every instance.

Paths below are relative to `src/`.

## Inventory

| Part | State it keeps | Operations | Hard behaviour | What makes it correct |
|---|---|---|---|---|
| FIFO, `ram/fifo.vhd` | word array, head, tail, `looped_v`, counter, registered flags | read, write, both, reset, on one edge | the wrap-around flag; read and write in one edge; flags computed for the next edge | a bounded queue; counter = distance of pointers; flags true |
| SRAM controllers, `ram/spsram_*`, `ram/dpsram_*` | edge detectors, request latches, state, pins | accesses by one or two bus masters | no wait line; a request that comes between the two states | atomic accesses to one memory, in time |
| SDRAM controllers, `ram/dpsdram.vhd`, `ram/spsdram.vhd` | request/acknowledge flags, routine and step, refresh counters, pins | accesses by two masters, refresh | the chip's recovery times; refresh against accesses; no wait line | commands in time; atomic accesses; answered within a bus cycle |
| Timer, `i8253/counter.vhd` (three of them in `timer.vhd`) | command and count registers, byte state, counter, handshake bits | command, count byte, read, latch; counting edges of six modes | bus clock and counting clock; a reload while counting | the output's timing in each mode; no count forgotten |
| 8251 serial ports, `MSX/i8251/*`, `UART/i8251/*` | shift registers, bit counters, flags, error flags | write, read, status, reset errors; clock edges | flags set on one clock and cleared on another; a strobe against an edge | every byte once and in order; errors reported |
| Codec register loader, `audio/i2c_loader.vhd` | state, phase, bit/byte/burst counters, shift register | quarter cycles of the I2C bus | a refused byte; open-drain hand-over; retry | table written in order; no stray start or stop; truthful status |
| I2S interface, `audio/i2s_intf.vhd`, `i2s_transmitter.vhd` | three down-counters, clocks, shift register | clock edges | two integer divisions decide whether the bits fit | every slot carries its word both ways |
| Midi interface, `MSX/Midi3.vhd` | interrupt flip-flop | decoding, interrupt | the acknowledging write against the timer's edge | no tick lost |
| PS/2 host, `shared/ps2_iobase.vhd` | three processes' counters | receive, send, hold the clock | processes that reset each other | bytes whole; the line released |
| Assembler and disassembler, `zipcpu/trunk/sw/zasm` | symbol tables of the file and of all files, parser's and object file's counters, the file, the lines to revisit | a line of each kind, next file, second pass; a word to text, a word to the processor's fields | values known only at the end; symbols defined by symbols; fields of six widths; two tables that must agree | the file holds what the source says; the listing and the processor read it the same way |
| Debug port and test bench, `zipcpu/trunk/bench/cpp/zippy_tb.cpp`, `rtl/zipsystem.v`, `rtl/_aux/busdelay.v` | command register, delayed bus, halt and step, the processor's registers; the program's mode, view, errors | keys; read, write and poll through the port; ticks | reading while an instruction completes; a one-clock step; stalls and time limits | the view is true; edits arrive; one step is one instruction; no hang |
| ZipCPU, rest of `zipcpu/trunk` | pipelines, arbiters, DMA, interrupt controller, timers | pipelined Wishbone bus | several masters, stalls, errors in mid-burst | one owner; every request answered once |
| TMS9918A, `vdp18`, and V9958 | address and read-ahead registers, VRAM slots, sprites | CPU accesses, video slots | CPU accesses against the slots of the display | no write lost, none misplaced |
| Other UARTs | rings, bit counters | as the 8251 | a ring without a full test | as the 8251 |
| Processors (T65, T80, R6502, R65Cx2, `*_tc`, nextz80) | registers, microcode state | instructions | tables of semantics | functional tests |
| Sound, filters, video timing, small I/O | counters, samples | clocks | arithmetic | numeric tests |

Components meet only through ports: `Midi3` connects a timer's output 0 to the
8251's serial clock and output 2 to its interrupt flip-flop; `wm8731` places
the register loader and the I2S interface side by side; everything else is put
together by the boards, which are not in the repository.  That is why the bus
masters in the models are environments: how long a cycle lasts at least is a constant,
and when a cycle or a strobe begins is left open.  The ZipCPU's parts meet in
two places: what the assembler writes is what the processor decodes and the test
bench disassembles (`Isa`), and the test bench clocks the simulated system and
drives its debug port (`ZippyTb` over `DebugPort`).

`PROJECT.json` lists every component with its status and every hazard at its line.

## Modules

A step is normally one rising edge of a clock: VHDL processes compute the whole
next state at an edge, with variables (`_v`) read after and signals before the
assignments of the same edge.  Names follow the source.  Variables that the code
does not have are called history in the module's comments: they remember what was
asked for so that a property can compare it with what happened.

* `BoundedQueue` (abstract) and `Fifo`.  One edge reads first, then writes
  with the values the read has left, then computes the flags, in the order of
  the process.  `BoundedQueue` is a sequence with a limit, the refinement maps the
  ring buffer to it.
* `PortMemory` (abstract), `DpSram` and `DpSdram`.  `PortMemory`
  says what both promise: a port takes a request and later serves it, once,
  in one atomic access.  In `DpSram` the asynchronous chip is part of the step, because between two edges it sees
  the pins.  `DpSdram` models the two processes (request detection and command
  routines) and an SDRAM chip that counts its recovery times in clock edges.
* `Counter`: the bus process and the counting process with their two
  clocks, as two actions that interleave.  The history `owed` is the reads a latched count
  still waits for, from the bus accesses alone; `t` counts every counting edge since the load at
  which none is owed, whether the counter is enabled or not.
* `UartLine`: transmitter, receiver and bit clock, which both 8251 variants
  share; `UartMsx` and `Uart` add the two different bus sides.  In `UartMsx` the bus side is
  clocked, a strobe lasts from one bus edge to a later one.  In `Uart` it is not: a strobe is a
  level that goes up and down between edges (`access`, `WriteBegins` .. `ReadEnds`) and holds its flag
  down at every edge under it.  The histories `written`, `kept`, `lost`, `told` and `missed` say what is due.
* `I2cLoader`: a state per disjunct, with an I2C slave that may refuse bytes.
* `I2s`: an action per branch of the process, and the codec's shift register.
* `Isa`: an instruction as the source writes it, the words the assembler makes of
  it (`Assemble`, from `TLINE::eval` and `ZPARSER`), what the disassembler shows of
  a word (`zipi_to_string`) and what the processor executes (`Executed`, from
  `idecode.v` and `cpuops.v`).  A word is a natural number below
  2^31, because the assembler never sets the top bit.
* `Zasm`: an action for each kind of source line, in the order of the parser's
  and object file's calls; symbol tables are sequences, the newest definition of a name
  first.  How an expression is evaluated is a parameter (`Evaluate`, `AtLine`), so that the file
  can be reasoned about for any evaluation.  `placed` is history: where each line came to
  stand, and the value an instruction was made with.
  The length of a line is asked for twice, as in the code: by the object file before it evaluates
  the line (`first`), and by the parser afterwards (`CountedAgain`), of the tables that are left.
  `Says` is the processor's operation a row of the listing stands for, and `Misshown` the words whose row
  says another; `Intended` is what a statement asks of the processor, `Kept` whether its word has
  room for the operand, and `Unguarded` the operands without room that no error reports.
* `Symbols` is the code's evaluation: expressions are trees, and asking for a value changes the
  tables on the way.  `SourceMeaning` says what a source means, without tables and passes
  (`Meaning`), which some properties compare the file with.  Both are recursive, and only TLC uses them.
  `TLINE::eval(void)` ends without a `return`; the Makefile builds without
  optimisation, and the model returns the lines, as that build does.
* `DebugPort`: what one clock edge makes of the debug port and of the processor
  behind it.  An instruction is in execution until it is written back, at an open
  time and with an open result; loads and accesses to the peripherals may take
  for ever.  Counters count modulo the number of values.  The condition codes (addresses 14 and 30) are
  not a plain register: any instruction sets flags, some bits are read-only, and a write of one set shows
  in the other.  While the processor runs 0 stands for them, and from the halt until they have come to
  rest, an edge after it (`live`), and again after each write of them, they are any value (`Flagged`).
  What is executed may put the processor to sleep (`asleep`).
* `ZippyTb`: the program.  `todo` is what it has still to do before it listens
  to the keyboard again; `wb_write` and `wb_read` are three actions (`Ask`, `Await`,
  `Release`), a key is one.  The cursor keys are part of `KeyEnter`, which picks any
  field they can reach.  Editing a running processor pokes the simulation (`Poked`), the fields of
  the counters past the end of the register array, on what lies behind it.
  The order in which `read_raw_state` goes through the registers is the constant
  `InOrder`, an increasing sequence of all addresses of the instance.
* `RamProofs` (of `Fifo` and `DpSram`), `DpSdramProofs`, `CounterProofs`, `UartProofs`,
  `UartMsxProofs`, `CodecProofs` (of `I2s` and `I2cLoader`), `ZippyProofs` and `ZasmProofs` (of
  `Isa` and `Zasm`): the theorems and their proofs.  So that one module can speak of two
  components, some names tell them apart: the specification of `I2s` is `I2sSpec` and its
  shift register `i2s_shiftreg`, that of `Fifo` is `FifoSpec`, and its words are `FifoData`.
* `MC...` modules only define constants for TLC that a configuration file
  cannot write.

Operators whose names say what is wrong with them (`ClearedNone`,
`LoadedRight`, `cmd_read_at_once`) stand before the operator they are a faulty variant of.  They are
not used: putting one in place of its neighbour must break the property
`PROJECT.json` names for it, which shows that the property looks at that code.

## Runs

| Run | Instance | What it shows |
|---|---|---|
| `fifo` | depth 4, three words | The FIFO is a bounded queue, with consistent pointers, counter and flags, whatever the ports do, resets included. |
| `dpsram` | two addresses, two values, cycles of at least four edges that begin at any edge | Every request is served within the bus cycle; controller and chip never drive the data pins together; the accesses are atomic accesses to one memory in every step but one, an overtaking (port 0 begins in the edge in which port 1's access leaves the pins), and what that does is stated exactly. |
| `counter` | bytes of two bits (counts up to 16), three formats, one mode of each kind, three bytes per command | Which bytes every load takes, also a reload between two bytes of a rewritten count; the output's timing in all modes, where exactly the edges from a latch command to the second read are lost; the load handshake between the clocks: a count that was announced is taken. |
| `counter_reload` | word format, mode 2, up to four bytes | *Violation.* In the two-byte format only the first count is as written. |
| `uart_msx` | bit clock 4, bytes 55 and AA, up to three bytes, one to four bus edges per serial edge, either flag polled | Bytes go out once and in order, and every one does, with the flags set and cleared on different clocks and a write at any bus edge after a poll; the one byte that is never sent, handed over while the clear for the byte before lasts, is stated exactly. |
| `uart` | bit clock 4, up to four bytes due, strobes that begin and end anywhere with up to two edges under them | Bytes go out in order, and which go out twice or are written over; what is read is what was received, and which byte another replaces; drops are told by the overrun flag and nothing else, but for those at the edge of a reset or under a read strobe. |
| `dpsdram` | one word of two bytes, cycles of at least 25 edges that begin at any edge | Every command meets the chip's recovery times; an access is taken exactly if it is not port 2's, begun in the same edge as one of port 1; what is taken is answered in time, and the two ports see one memory. |
| `i2c_loader` | the real table of 22 bytes, one refused byte | The table goes out in order, the bus sees no stray start or stop, the status tells whether the codec is loaded, and the loader finishes. |
| `i2s` | ratio 26, one preamble bit, two data bits | Every slot carries its word in both directions; the bits fit; BCLK is back in step with LRCLK. |
| `zasm` | every source of up to three lines from a list that has all line kinds, in one file or two; every statement form at the edges of its fields and beyond | The file holds what the source means, forward references included, and the parser's and the file's counters agree; an accepted statement is executed as written exactly if its word keeps the operand, and shown by the disassembler as what is executed exactly if its word is not in a list of wrong rows; evaluation ends. |
| `zasm_ldi` | LDI of the edge values, up to 22 bits below zero | *Violation.* A two-word load loses the upper half of its value. |
| `zippy` | registers 0, 14 (codes) and 15, counters 40 and 44 (the same one of the two sets), two values, patience 6, one poll too many, all keys, edits of fields 8, 12, 26 and 27 (a counter, register 0, the codes, the program counter) | The halted view is one state of the processor; an edit takes effect, and where it is shown, of the counters the other set's; a step is one instruction; only an edited counter's write ever waits or is given up; the program always comes back. |

### Why these bounds are enough

* Depth 4 wraps both pointers many times, and pointer positions relative to
  each other all occur; three word values, one of them the reset value, tell
  any two positions' contents apart.  Depth is a parameter of the proofs.
* Memories: one byte beside the one accessed and two values show any misplaced,
  lost or duplicated write.  The ports' cycle lengths are lower bounds, longer
  cycles occur, and a cycle may begin at any edge of the other's.  `MinHold` = 4 and 25 are the
  worst cases found: with one edge less a request behind the other port (and, in the SDRAM, behind a
  refresh) is not answered in time.  A refresh period of two edges makes refreshes far more
  frequent than the real one, so that one can come before any access.
* Counter: a base of 4 keeps two bytes per count and the carry between them
  while a whole turn is 16 edges; the third byte is the one that changes the count of a running
  counter.  `MinGap` = 2 counting edges from one bus access to the next at least are needed:
  with 1 a load request can be lost.
* Serial: four clocks per bit instead of 16 or 64 keeps the half-bit sampling
  point and the detection of a start bit; the bytes are those of the test bench
  and alternate in opposite phase, so a shift by one bit turns one into the other.
  `MaxBusEdges` = 4 bus edges per serial edge have room for a poll, a whole strobe and an edge more
  while `start_s` is up.  `MaxHold` = 2 lets a strobe end after the edge that loads the transmitter
  and after the one behind it; the proofs hold for any length.
* Assembler: what goes wrong with symbols needs a use, a definition and a line
  between; three lines have them in every order.  `MaxDepth` = 10 is deeper than any
  chain of symbols these lines can build that is not a cycle.  Operand values are the last that
  fit and the first that do not, for each field.  `EvaluationAnswers` in `MCZasm` evaluates what the
  proofs assume of the evaluation, on all tables of up to two local symbols and one global.
* Test bench: an access that is not stalled takes at most three clocks in its second
  loop, so `Patience` 6 stands for 100 and is not reached by luck, but is by a counter's write that is
  kept waiting; `MaxErr` 1 instead of 10000 lets the give-up path happen.  The addresses stand for the
  kinds of registers: one that is only a register, the codes, the program counter, and a counter in both sets.
  `Kinds` leaves out multiplications, which the port cannot tell from a short load, and `Timers` leaves the
  labels at the master's; the proofs hold for both choices, all fields and all addresses.
* I2S: 26 is not a multiple of 3 x 4 nor of 4, so both divisions round; the
  proof covers every ratio.

### Fairness

Liveness is claimed for clocked processes and for the test bench.  There, `WorksOn`, the weak
fairness of `Work` with its enabling condition written out, says that a single-threaded program goes on with
what it has to do; nothing is assumed of the processor, whose loads may never end, nor of the
user.  For a clock, weak fairness of a clock's
action says that the clock does not stop, which is what a clock does.  `UartMsx`
also assumes that a processor does not hold a write strobe for ever (`Release`,
strong fairness, because the edges of the other clock disable it again and
again); any bus cycle ends.  Masters are never forced to begin an access.
`Uart` and `I2s` state no liveness and no fairness.

### What the violations say

* `counter_reload`: `i8253/counter.vhd:109` computes the byte state with `&`
  and `+`, which associate to the left; bit 0 stays set after the second byte,
  and later counts go to the high half only.
* `zasm_ldi`: `sw/zasm/zparser.cpp:63` defines `LONG_MPY`, so `op_ldihi`
  (line 139) emits a bit reversal; its immediate is masked with `0x0ffff` after the
  reversal has moved its bits above that mask.  The first word of a two-word LDI
  loads 0, the second the lower half.

Other behaviour met while modelling, which no run claims:

* `MSX/i8251/UART.vhd` raises `rx_ready_s` from the receiver's
  own `set_ready_o`, on a faster clock, before the receiver looks at it.  In
  `UartMsx` the receiver therefore takes its first byte for an overrun and never
  loads one, against the comment in `UART_receiver.vhd:123`.
* `ram/dpsdram.vhd:156`: the port-2 test is the `elsif` of the port-1 test and the
  pattern it looks for lasts one edge.  Of two cycles that begin at the same edge
  port 2's makes no request, and its data output keeps the byte of an earlier read (`Loses` in `DoneWhenReleased`).
* `ram/dpsram_*`: state 1 chooses the port again from the flags.  When port 0 begins in that
  edge, it is told that its access is done though port 1's was on the pins: a write of port 0 is lost, a read
  returns port 1's byte, and port 1's access is made a second time (`Overtakes`, `Overtaken`).
* `ram/spsram_*`, `ram/dpsram_*`: `sram_we_n_s` has no initial value.  The port
  is declared with `'1'`, which the signal overrides; the models power up inactive.
* `i8253/counter.vhd`: a latch command of the word format stops the counter until both bytes have
  been read (`OutputTiming`); a byte written to a running counter changes the count it is reloaded with at
  once, so that a reload between two bytes takes the new one with an old one (`CountTaken`); the high-byte-only
  format counts only after a second byte; the first of two reads returns the high byte; mode 2 gives one
  low pulse at its first load.
* `MSX/i8251/UART_transmitter.vhd`: with two stop bits and eight data bits the
  bit counter, declared `0 to 9`, counts to 11; with seven data bits bit 7 is
  sent in place of the stop bit.  A framing error raises `rx_ready_s` with the
  data of the byte before.  A control write while `clr_reserr_s` is up is lost.
* `MSX/i8251/UART.vhd:189-203`: `start_s` sets the empty flag at every bus edge while it is up.  A byte whose
  strobe ends under it, with a bus edge more before the serial edge, loses its flag and is never sent
  (`TakenBack`); a processor that polls "empty" and writes at once can do this.
* `UART/i8251/UART.vhd`: the strobes are levels that hold the flags down.  A byte that the transmitter takes
  under its own write strobe is sent once more; the ready flag does not know of a byte waiting, and a write
  after polling it can replace that byte; a byte whose end falls under the read strobe takes the place of
  the one being read, and nothing tells of it; nor of one that is lost at the edge that
  resets the errors (`missed` in `OverrunReported`).
* `audio/i2c_loader.vhd`: with `num_retries` above 0 a retry starts with
  `thisbyte` behind the table; `wm8731.vhd` uses 0, and so does the run.
* `ram/dpsdram.vhd`: the power-up state does not wait the chip's 200 us; refreshes
  not done by the end of their period are dropped.
* `sw/zasm`: a word list with a word that is not known yet becomes shorter than it
  was written; NEG of a value not known yet reserves one word where it may need
  two; references to labels of a file are resolved at the end of all
  files, when only the last file's labels are left; a label defined twice takes one
  of the values silently; `||` and `&&` evaluate to their left side.  NOT and CLRF of a number pass
  the grammar and act on register 0.
* `sw/zasm/asmdata.cpp`: an accepted statement may do something else than it says when its word has no room
  for the operand (`Unguarded` lists the ways): `fitsin` (line 216) takes negatives down to twice the field's least value; LOD, STO,
  ROL, MPY and TRAP are not checked; an absolute JMP is cut before it is checked; a JMP by more than
  a move holds becomes an addition to the program counter (line 413).
* The disassembler's rows catch words that mean something else (`Misshown` lists them all): a load of
  the program counter from the word behind the next one is shown as LJMP, an XOR of a
  register with itself and an offset of 4096 as CLRF, a branch on GT as one on GE and the other
  way round, a move of a user's register to the program counter as a jump to the supervisor's.  The listing
  is not a source: branches are shown with a relative offset where the assembler takes a target, and a jump
  with a register is not in the grammar; the properties therefore compare a row with the processor, not
  with a second assembly.
* `bench/cpp/zippy_tb.cpp`: the halted view shows the user's counters under the
  labels MTSK to MICT and the master's under UTSK to UICT (lines 863-872), against
  `doc/src/spec.tex:2409-2416`, and an edit there writes the other set; the view from inside the
  simulation gathers the sets the other way round (`Elsewhere` in `EditSeen` says when what was typed is not
  what is shown).  Editing a register whose
  number ends in 15 writes to a debug file that is not open (line 817, `Crash`);
  edits of the counters' fields of a running processor write past the
  register array (line 1595, `Poked`).  `read_raw_state` indexes `m_smem` by `m_imem`
  (line 190), which nothing shows.
* The counters (fields 0 to 11) of a processor that has just been halted cannot always be
  edited: when a load into the program counter completes while `cmd_write` polls, the
  control register says for one clock that the processor is at rest; the write
  to the peripheral that follows is stalled until the next instruction is fetched, and
  given up, which ends the program, if that takes more than the 100 clocks of `wb_write`.
  `OnlyCounterWaits` says that this is the only access that ever waits.
* `rtl/core/zipcpu.v:1692`: a divide does not hold up the debug port, although
  `zipsystem.v:702` says that the processor is completely halted when it answers.
* `sw/zipdbg/zipdbg.cpp`: the key `g` ends in a view that halts the processor again.
* `ram/fifo.vhd`: with a depth of 1 `empty_o` is not lowered by the first
  write, which is why the flag theorem asks for two.

## Proofs

`RamProofs`.  Of `Fifo`, for every depth and every set of words:

* `TypeCorrect`, `SizeCorrect` (counter = distance of the pointers),
  `FlagsCorrect` (the registered flags, for a depth of at least 2) and
  `QueueRefinement` (`Fifo` implements `BoundedQueue`).
* The types alone are not inductive: that the counter stays within the
  depth follows from guards that look at the pointers and `looped_v`, not at the
  counter.  `IInv` adds `SizeIsDistance`, which ties the two.  The read branch's
  values are named (`TailR`, `LoopR`, `SizeR`), so that the write branch is
  argued about as a second step on them.  For the refinement the queue
  is read off the ring by `(tail + k) mod Depth`, and a read and a write are shown to
  drop its head and to append to it.

Of `DpSram`, for any sets of addresses and data:

* `ContentionFree`: controller and chip never drive the data pins together, whatever the
  masters do.  `Quiet` makes it inductive: an edge without a request leaves three of
  the pins as they are, so they must already be at rest.
* `ServedInTime` (`DoneWhenReleased`), `OwnRequestServed` (`ServesOwnRequest`) and `MemoryRefinement`, the
  safety part of `ImplementsMemory`: every step is one of `PortMemory`, a stutter, or
  `Overtaken`.  They assume only `MinHold >= 4`; cycles begin at any edge.  `TimeInv` counts: a
  request of port 0 is served at once, one of port 1 waits behind it (`Behind`) or, overtaken or not, for its
  turn (`Turn`), in which port 0 cannot begin again because it has just begun; so no request is
  more than three edges old.

`CodecProofs`.  Of `I2s`, for every ratio, preamble and word length the entity elaborates with
(`GenericsAssumption`: the ranges of its integer types are not empty):

* `TypeCorrect` (no counter leaves its declared range), `BitsCorrect` (the
  preamble and the word fit into the slot) and `SyncCorrect` (BCLK is high at the
  end of the slot).
* "The bits fit" is not inductive: it speaks of the slot's end.  `SlotBudget`
  is the account that leads there: while bits are left, the clocks used so
  far are those of the finished half periods of BCLK and of the current one.
  With `HalvesFit`, that all halves together take at most the slot
  (both divisions round down), a slot cannot end with a bit left.
* Products of two unknowns appear in four lemmas about integers only
  (`ProductMonotone`, `OneMoreHalf`, `DivRoundsDown`, `HalvesFit`); the steps
  of the process use them as facts about one opaque product.
* `SentCorrect` (`WordSent`) and `ReceivedCorrect` (`WordReceived`).  That a finished slot
  carried its word says nothing of a slot half way through.  `WordInv` does: what has been
  sampled, followed by what stands in the shift register, is the preamble and the word, one
  place further down while BCLK is high; and each bit that has come in stands where the
  remaining shifts carry it home.

Of `I2cLoader`, for every table of an even number of bytes, device address and number of
bytes the codec may refuse, with `num_retries = 0`, the entity's default:

* `TableIsSentInOrder` (`TableInOrder`) and `StatusOutputsHold` (`DoneMeansLoaded`).  Neither
  property mentions the loader's counters, so `LoadInv` places the codec beside them:
  `Follows` says in which quarter cycles it listens, is in its ninth clock or holds the line,
  `ByteInv` that the bits it has sampled followed by those in the shift register are the
  byte the counters point to, `BurstInv` that its bytes so far are those of the burst.  What
  the codec makes of a rise, a fall, a start and a stop is proved once, and each quarter
  cycle of each state of the loader is one of these.
* `NoStrayConditions` (`NoSpuriousConditions`), an action property, from the same invariant.
  In an edge that leaves SCL high the loader moves SDA only in the three states that mean it,
  so a stray condition would be the codec's, letting go of its acknowledgement; when it may,
  the loader already holds the line at the level it has sampled, and after a refusal nobody does.

`DpSdramProofs`, for any sets of rows, columns and data (`SizeAssumption`: none is empty;
`NoneAssumption`: "nothing on the bus" is not a word):

* `CommandsOnTime` (`CommandsInTime`), for any masters and any refresh setting.  `TimingInv`
  places the chip beside the step counter: `BusyAtMost` gives for each step of each
  routine how long the chip may still be recovering, `RowOpen` the steps in which a row is
  open, `DataPath` the one step in which each word is on the bus.
* `AnsweredInTime` (`DoneWhenReleased`), for `MinHold >= 25` and cycles that begin at any edge.  `TakenInv`
  follows the pattern of the falling edge: two edges after it, the request is up exactly if it was not port 2's
  beside one of port 1.  That it is answered is bounded by two accounts in `TimeInv`: `Waits` adds to the
  edges a request has waited those until the running routine ends, and gives
  port 2 one routine more if port 1 may still go first; `Serves` adds the steps of the
  request's own routine.  The largest sum is 24.
* `SdramIsMemory`, the safety part of `ImplementsMemory`, for `MinHold >= 25` (an access that is lost is
  no request of `PortMemory`).  The
  refinement serves a request in the edge that acknowledges it, which for a write is the edge
  in which the chip stores the byte.  `WorksOn` says that the routine's address and
  direction are still those the port holds, `OnTheWay` which of row, column, byte and data is
  where at each step.

`UartProofs`: `OverrunTold` (`OverrunReported`), without assumptions; `SentOnceInOrder`
(`BytesOnceInOrder`) and `ReceivedAsKept` (`ReceivedIntact`) for `FullFrames` (eight
data bits, one stop bit), every bit clock, byte set, number of bytes and length of the strobes, which
begin and end between any two edges.  `TxInv` keeps an account: the bytes due are those on the line
before, the one in the shift register and the one in the data register; a byte loaded under
its strobe is due once more, and one that replaces another takes its place.  `RxInv` keeps the
receiver's counters in step with the line's, from the start bit's middle to the stop bit; under a read strobe
no byte is unread (`BeingRead`).  `ErrorsInv` shows that a request to clear the flags lasts until the first
edge that is not under a read strobe, and what is lost by then is told or counted as `missed`.

`UartMsxProofs`: `SentOnceInOrder` (`BytesOnceInOrder`) for `FullFrames`,
every bit clock, ratio of the two clocks, byte set and number of bytes.

* The account of `UartProofs` has to be kept across two clocks here: the byte is in the data
  register from the beginning of the strobe, before the flag falls, until the shift register
  takes it, before the flag rises (`Behind`).  `Handshake` says which of flag, strobe
  and permission to write exclude each other.
* A write may come at any bus edge after the poll.  `Settling` tells the serial edges at which the flag is still
  down for the byte in the shift register from those at which `start_s` takes it back from the next one
  (`TakenBack`), which is then no longer due.

`CounterProofs`, for any even number of values of a byte, all formats, modes and counts, and
any accesses of the bus clock between the edges of the counting clock:

* `TakesComposed` (`CountTaken`, an action property): `StateInv` gives for each format and byte state the halves of
  the count register as the bytes written since the command.  In the word format the low half
  is the first of them for ever, since the byte state does not go back, and the high half the last.
* `OutputExact` (`OutputTiming`) and `SquareWaveExact` (`SquareTiming`, an action
  property).  The properties speak of the output; `WaveInv` adds the value the counter has
  after `t` edges, which for the square wave counts by two from a start that depends on the half
  (`Span`).  `LatchInv` ties the
  reads that are owed, which the properties count, to `latched_q` and `rd_q`.  `Modulus`, the square of a byte's values, stays opaque but for being even (`ModulusEven`).
* `LoadsTaken` (`LoadTaken`), only for `MinGap >= 2` counting edges or more between two bus accesses: `HandshakeInv` places request and
  answer by the edges since the last access.  With 1 the answer to one request can
  still be up when the next is raised, and clears it; the run's `MinGap` is 2 for the same
  reason.

`ZippyProofs`, for every set of addresses, values and fields, any processor that takes any time over
an instruction, and any number of polls: `AccessesServed` (`OnlyCounterWaits`),
`ViewShowsOneState` (`ViewIsTrue`), `EditTakesEffect` (`EditSeen`) and `StepIsOneInstruction`
(`StepsOnce`).

* They assume only `EnoughPatience` (at least 5 clocks: an access that is not stalled takes four;
  the code allows 100).
* That an access is not kept waiting depends on what the processor was seen to do several
  operations before: a peripheral's address is asked for only when the port has shown the
  processor to stand still.  `Grammar` therefore says what the program still has to do, which
  operations stand before a read and what may follow it; it is local, so that it is kept when
  an operation is done or a key puts a new sequence there.
* `Bus` places the port and its delay in each of the four clocks of an access (`Asking`,
  `Taken`, `Served`, `Answered`), `Level` (`Commanding`, `Polling`, `Reading`, `Setting`) the
  processor: what an operation needs when its turn comes and has achieved in each of its clocks.
  A read finds the processor `Settled`, nothing under way and an instruction fetched; a write only `Steady`,
  which is enough for a register.  `Counting` is the write of a counter, whose `Taken` may
  last until the fetch, and `WriteInv` that such a write, and so a given-up one, comes from an edit of that counter.
  `Pulses` says that a step or a reset is over when the program listens.
* On top of these, `ViewInv`: while the view is being read the processor is at rest, its condition codes too
  (`Drained`: they come to rest an edge after the last instruction), and what has
  been read is still so; `EditInv`: the edit is still to be written, the processor
  halted and nothing in front of it that starts it again (`Pending`), or has arrived, the other set's counter
  is what it was (`OtherKept`), and it is read back or drawn later (`Arrived`); `StepInv`: before the clock
  without a halt nothing has been issued and something can be, after it one instruction has and the halt is back.

`ZasmProofs`, for every set of sources that the grammar lets pass (`SourcesAssumption`), and any
evaluation that does what `Given` says: it fills an address in and gives a tree, it answers
with a number or that the value is not known yet, asked again of the tables it has left it says the same,
a recursion without end stays one, and it leaves the global labels, which are
numbers, alone.  `Symbols` is one (`EvaluationAnswers` evaluates this on small tables); nothing is
assumed of which number it answers with.

* Words first.  A word is taken apart into its fields by division (`FieldsOf`), and a value that
  fits a field comes back from it with its sign.  `Decoded`: what the processor does for the word of a
  statement is what the statement says, for every operation, register and condition, exactly if the word keeps
  the value, and a value that is lost without an error is `Unguarded`.  `ListedWord`: of the words the assembler can
  produce (`Produced`) exactly those in `Misshown` are not shown as what is executed.  The direction that is hard to
  test is that no other word meets one of the disassembler's special rows.
* `Assembled` says what `TLINE::eval` makes of a statement: one word or, for LDI and NEG, two, which do
  not depend on the address, so that a pair made one address further on is the same pair.
* `FileHolds` is the inductive invariant, `ZasmInv`.  None of the properties is inductive, because the
  second pass writes to places chosen in the first.  `Layout` keeps the lines one behind the
  other and apart, `Held` says that each place has the words of its statement for the value in the
  history (`Resolved`), or NOOPs while that is not known (`Awaited`), `SavedLines` that a
  line to be looked at again is still awaited, at the address it was saved with and not
  twice, and `Globals` that a label is that of a line that was placed, `Counters` that
  the parser's counter is the file's: a line's length asked for before and after it was evaluated is the same
  (`SameLength`), unless the recursion has no end.  A step of the parser is shown to
  append (`Grown`), one of the second pass to change one awaited place (`Revised`).
* From it follow `LabelsHold` (`LayoutAgrees`), `RewritesHold` (`OnlyReservedRewritten`, an action
  property), `ExecutionHolds` (`ExecutedAsWritten`) and `ListingHolds` (`ListingTrue`).  A saved
  LDI has two words whatever its value is; one with a single word had a value that fits when it was
  added, and `Held` remembers that.

Only model-checked: `InstructionsAsWritten`, `DataAsWritten` and `EvaluationEnds`, which speak of the value
an expression has in the source.  That is a recursion over trees and tables, and to prove it is
induction over data; TLC evaluates it over bounded sources.  Liveness under fairness is
outside the prover's reach: `Memory!Live`, `EveryByteSent`, `EventuallyDone` and `ComesBack` stay with TLC.

## Not modelled

Clock-domain metastability; the level of the wires between two edges, except where
a chip is asynchronous; baud rates `00` and `01` of the MSX 8251, which use the
clock undivided; synchronous mode of the 8251, which the code does not have; MCLK.  Of the SRAM controllers the single-port ones and the byte lanes,
which add nothing to the sequence of `DpSram`.  Of the assembler the lexer, the
preprocessor, operators other than `+` and `-`, and the disassembler's rows for
half words; of the processor behind the test bench divides, interrupts during a halt and what the single
condition codes are; of the test bench the DMA controller, the data of the
memory and the traces written when a debug file is open.
The components with status `not_modelled` in `PROJECT.json` say why.

## Plan

1. `Dma` and `Arbiter`: `wbdmac.v` behind `wbdblpriarb.v` and against a second
   master on a pipelined Wishbone bus with stalls and errors.  Abstract
   specification: a copy of a block, word by word.  Properties: one owner; every
   request acknowledged once; after an error nothing more is written; the
   completion interrupt means that the copy is complete.
2. `Fetch`: `prefetch.v` and `pipefetch.v` as the other masters.
3. `VdpCpuIo`: `vdp18_cpuio.vhd`, CPU accesses against memory slots, refining a
   memory with an auto-incremented address.
4. `Midi3`: the interrupt flip-flop between a timer and the processor.
5. `Ps2`: the host's three processes against a device.
6. Proofs: the safety of the modules above; what `Memory!Live` needs of safety, a bound on the
   edges a request waits, is `AnsweredInTime` and `ServedInTime` already.
7. Then the interrupt controller and the timers of the ZipCPU.

The modules to be proved about use no recursive operators; constants carry the assumptions
the code's own ranges justify.
