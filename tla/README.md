# Selen: a verification development in TLA+

Selen is a small RISC-V system on chip. The Verilog under `src/rtl` is a
pipelined core, two L1 caches behind one memory access unit, a Wishbone
crossbar, ROM, RAM, an SPI controller and GPIO; beside it are a C++ simulator of
the instruction set (`src/sim`), firmware (`src/firmware`) and UVM testbenches
(`src/verif`). This directory holds models of the parts whose correctness
depends on what happens in which order, the runs that check them and the proofs
of what holds for every size.

## Inventory

| component | state | operations | what makes it correct |
|---|---|---|---|
| `lib/sync_fifo.v` | array, two wrapping pointers, an output register | push, pop, both at one edge | a bounded queue whose port shows the oldest word |
| `l1_cache/l1_mau.v` | three FIFOs, accepted flags, TR and ACK machines, shift register | accept a request, send beats, collect answers, acknowledge | an answer goes to the port that asked, with the line it asked for; nothing is lost or accepted twice |
| `l1_cache/l1d_top.v` | tag and data memories, S1 registers, delayed buffer | load, store, refill, non-cached access | the core sees memory in program order; one acknowledge for each request |
| `l1_cache/l1_lrum.v` | use bits of a set, bypass register | look-up, choice of a victim, cleaning after reset | the bits belong to the set that is looked up |
| `l1_cache/l1i_top.v` | tag and data memories, saved first address | fetch, refill | an acknowledge carries the word of the oldest fetch, also across the cleaning after reset |
| `l1_cache/l1_top.v`, `top/*.v` | wires | - | the parts meet each other's assumptions |
| `wb_com/*.v` | header, data and response FIFOs, one-hot position registers, time tags | accept, arbitrate by age, answer in order, report an address error | answers return to the master that asked, in order |
| `wb_mux/*` | a selected slave | route one beat | generated from a template |
| `ram/wb_ram.v`, `rom/wb_rom.v` | memory, acknowledge register | answer in the next cycle | - |
| `core/*.v` | pipeline registers, register file | issue, stall, kill, bypass, ALU | an instruction uses the newest value of its operands; the ALU computes what the ISA says |
| `spi/*.v` | control, divider, shift register | register access, transfer | a register is not changed under a running transfer; GO falls when it ends, and not before |
| `gpio/*`, `proto/*` | registers | - | - |
| `sim/model` | registers, pc, memory in pages, trace, status | load, step, read and write memory, trace | an instruction does what the ISA says or nothing; counts and trace agree with what was done |
| `sim/application.cpp`, `interactive.cpp`, `main.cpp` | parameters, the line being evaluated | simple and interactive regime, nine commands, Ctrl-C | a final dump is a state the program was in; errors leave the model usable |
| `sim/terminal.h`, `linenoise` | edit buffer, cursor, screen rows, history, history file, terminal mode | keys, refresh, recall, save and load | no byte outside the buffer, no character lost, a usable terminal afterwards |
| `sim/dpi` | return code | nine exported functions | a caller that gets `RC_FAIL` knows what has been done |
| `firmware/sandbox/spi.*` | driver's place, bytes received | configure, transfer, copy, jump | every transfer is waited for; the image is copied whole; the loader ends |
| `firmware/sandbox/blink.c` | pins, two readings of the counter | poll, wait, switch | a level lasts for the period |
| `verif` | testbenches | - | they state what the caches promise |

How they meet: the core drives the two caches over a request/acknowledge port
without names, so order is all that pairs an answer with a request. Each cache
asks the memory access unit (MAU) for lines (and, for the data cache, writes
single words); the MAU turns the requests into Wishbone beats, which the
crossbar routes to memory or to the peripheral bus. A write is acknowledged when
the MAU has buffered it; that the next read sees it depends on everything after
it staying in order.

The simulator is a library with two hosts: a program with a prompt, whose
signal handler may run inside any statement of the library, and a C interface
for a Verilog simulation, which keeps calling after an error. The boot loader
shares the SPI controller's registers with a shift register that runs at its own
pace.

What is hard in the hardware: all of this runs concurrently every cycle. Two requests are in
flight at different stages, writes overtake answers, a bus may stall or answer
late, a store waits for a memory port while younger requests miss and replace
lines. In the software: a step of the simulator is a sequence of effects (trace
record, register, memory bytes, pc) and may stop between any two, by an
exception of memory, decoder or trace, or by Ctrl-C; the line editor moves text
in a buffer with five hand-written memmoves and keeps the line being edited in
the history it recalls from; the polling driver acts on a register that changes
between two looks. `PROJECT.json` lists the hazards at their lines with the properties
that would catch each of them.

## Modules

One step of every model of the caches and the crossbar is one clock edge: the primed variables are the
registers after the edge, and operators without a prime are wires. They have the
names of the Verilog signals.

| module | models | uses |
|---|---|---|
| `FifoQueue` | the abstract queue a user of `sync_fifo.v` relies on | - |
| `SyncFifo` | `sync_fifo.v` with its pointers, array and look-ahead output | refines `FifoQueue` |
| `SyncFifoProofs` | theorems about `SyncFifo` | `SyncFifo` |
| `L1Mau` | `l1_mau.v` with a bus and the two caches as its environment | `FifoQueue` for its three buffers |
| `L1MauProofs` | theorems about `L1Mau`: registers, buffers, beats, and which word arrives where | `L1Mau` |
| `WbCom` | `wb_com/*.v`: both sides of the crossbar, with two masters and two slaves as its environment | - |
| `WbComProofs` | theorems about `WbCom` | `WbCom` |
| `L1D` | `l1d_top.v` with the MAU and the core as its environment | - |
| `L1DProofs` | theorems about `L1D` | `L1D` |
| `Isa` | `model/riscv`: every instruction as an operator on words of any width | - |
| `Model` | `model/src.cpp`, `core.h`, `memory.h`, `trace.h`: memory, trace and `step` as micro-steps | `Isa` |
| `Application` | `application.cpp`, `interactive.cpp`, `main.cpp` | `Model` |
| `Dpi` | `dpi/core_model_dpi.cpp` | `Model` |
| `IsaReference` | the instruction set, written for whole states and independently of `Isa` | `Isa` for widths only |
| `Simulator` | the library under one of its hosts, and the properties | the three above |
| `IsaProofs` | theorems about `Isa`: the arithmetic of the instructions against `IsaReference` | `IsaReference` |
| `SimulatorProofs` | theorems about `Simulator` | `Simulator`, `IsaProofs` |
| `LineEdit` | `terminal.h` and `linenoise.c` | refines `TextLine` |
| `TextLine` | what the keys promise: a text before and one after the cursor | - |
| `LineEditProofs` | theorems about `LineEdit` | `LineEdit` |
| `SpiBoot` | `spi.h`, `spi.c` on `spi_top.v` and a flash | - |
| `Blink` | `blink.c` | - |
| `Firmware` | boot loader, then test program | `SpiBoot`, `Blink` |
| `FirmwareProofs` | theorems about `SpiBoot` and `Blink` | `Firmware` |
| `MC*` | small instances | |

### SyncFifo

Pointers are a slot and a wrap bit, as in the circuit. `Output` is the register
that is loaded one edge ahead, from the array or from the word being written.
The array is not reset, so `Init` takes any contents. A read of an empty FIFO is
not allowed: `fifo_ra` would look one slot too far. `L1Mau` checks that its
buffers are never read when empty. `ImplementsQueue` maps the slots between the
pointers to a sequence and the output register to the queue's head.

### L1Mau

An address is the number of a word and the data of a word is its address: any
word that is delivered to the wrong port, at the wrong place in a line or for
the wrong request can be seen. `AcceptedFlags`, `Tr`, `AckMachine`, `Shift` and
`Buffers` are the always-blocks of the unit, one action per branch. The
environment is a bus that stalls or not and answers the oldest beat or not in
any cycle, and two caches that hold a request until its acknowledge and have
none in the cycle after the acknowledge of a read, as `l1d_top.v` and
`l1i_top.v` do. Byte enables are left out. `wb_err_i` has no effect in the code
and none here.

### L1D

Requests carry an operation, the location of a word, a byte lane, a size and
data per lane. `DelayedBuffer` is the one-entry store buffer with its forwarding
flags; `DmRead`, `DmFill` and `DmStore` are the three users of the data
memory's single port; `Ld`, `Lru`, `S1` and `MauAckRegs` are the other
registers. `dm_addr` keeps the address register of each data memory, so a load
that loses the port would read another line. `mau_req_ack` is the MAU's
acknowledge wire of the current cycle. The MAU takes a write in any cycle, and
a read in one cycle to answer it in a later one; memory is what the writes it
has taken make of it, which is what a later read finds because the MAU keeps
the order (`WriteMeetsItsData`, `AnswerIsWhatWasAsked`). The way replaced on a miss is any way. Two
history variables carry the specification: `latest`, the memory in program
order, and `owed`, the requests accepted and not acknowledged.

The model starts with clean tags: the cleaning after reset, during which the
core is held back by the instruction cache, is not in it.

### WbCom

`headers`, `data` and `answers` are the FIFOs (sequences without a bound, so
that a write to a full one shows in `NothingOverflows`); `m_dir_sel`,
`m_err_sel` and `s_dir_sel` are the direction registers and `m_dir_fst`,
`s_dir_fst` the one-hot marks of the oldest request, as the number of their
bit. `MarkAfter` keeps what the shifts do at the ends: a mark pushed over the
top is lost. `Older` compares the time tags as the code does, with its bits
split. `ShiftIn` keeps the eight
bits for which the shifts of the direction registers are written (`[6:0]`,
`wb_com_master.v:126`, `130`, `wb_com_slave.v:117`): with them `FIFO_ASIZE` is 1 or
2 (`SizeAssumption`), and `wb_com_defines.v:35` configures 2.

A master (external) holds a request until it is accepted. The slaves are those
`selen_top.v` connects: the RAM, which answers in the next cycle and never
stalls, and for `wb_cpu_xbar` a second crossbar, `wb_perif_xbar`
(`selen_top.v:155-164`, `203-217`), with the ROM and the peripherals behind it. That
one takes several requests before it answers the first, answers some cycles
later, drives its stall, and passes the error by which the ROM refuses a write
on without an acknowledge (`wb_com_master.v:140`). `held` and `age` are the
requests a slave has taken and how long ago; `Delay` is the time each slave has,
`ReadOnly` the slaves that refuse writes, `Stalling` those that may stall and
`ErrOnly` those whose errors may come alone. An answer says what was read or
written where, so one that goes to the wrong master or request is seen.

The code is made for neither of the last two. Header and data are popped
whatever the slave's stall says (`wb_com_slave.v:133-137`), while the direction
and the mark wait for it (`117`, `122`): a request offered to a slave that stalls is
lost, and its master waits for ever. The mark moves down with an acknowledge only
(`121`): after an error that comes alone it stays one too high, and later answers
go where an older direction points. From the first such event on nothing is promised of
the answers; `astray` counts the cycles since, and a run follows them for
`StrayCycles`, which is why it may stop (`CHECK_DEADLOCK FALSE`). What is left in
these cycles is checked too: the headers, their data and their order do not
depend on the slave. The stall does not occur in the chip, whose inner
crossbar has one master that is in use: it gets a request in a cycle at most, passes it on in the
next, and so never has two headers waiting nor eight requests in
flight as long as its slaves answer. A write to the ROM does, if a program makes one.
The marks of a slave have no limit of their own: `DelayAssumption` is that it
answers before it holds more requests than they can count, one for each cycle of
`Delay`. A request that the inner crossbar takes for a memory is answered three
cycles later.

History: `owed`, the requests accepted and not answered, until astray; `turns`,
the order in which a slave's requests were accepted; `waited`, the cycles since a
waiting master had an answer. In the SoC the second master of each crossbar is
tied off, so what is checked here is more than the chip uses today. With a second
master the ROM would do one thing more that no model here does: its error
register follows the write enable without the strobe (`wb_rom.v:95`).
`WordsOfWrites` is the relation of a data FIFO to its header
FIFO, as a map from words to headers, which a proof can follow through pushes and
pops; a filtered sequence would be a recursion. Powers of two are computed in
the module; `PowerAssumption` repeats what the proofs need of them and is a fact
of every index width, `RequestAssumption` is the type of a request.

### Isa, Model

A byte has `ByteBits` bits and a word four bytes, so every carry, sign extension
and shift of the code has its place in a word of eight bits that TLC can
enumerate. Instructions are decoded records; that a word decodes to the record
its bits name is left out (`Decode` is a parameter), that an unknown one is
`INVALID` and throws is not. The operators `&`, `|` and `^` are sums over bits;
`IsaReference` has them as operations on sets of bits. A load or store that reaches
the last address goes on at the first, in the code (`addr_t`) and in the reference.
The sums are a recursive function (`SumTo`), so that a proof can unfold them.
The offsets of branches and `jal` take their sign from
`xs(63, 1)` (`decode.h:74`, `84`), a shift whose outcome is undefined: the sign is kept
or lost. `OffsetSpan` is what the sign bit is worth, 2^12 and 2^20 in the code.

`Model.job` is a call of `step(n)` in progress. Its phases are the points between
two effects: fetch, operands, load, write of `rd`, the read of `rs1` by `jalr`
(which comes after the write of `rd`), each byte of a store, and the write of
`pc`. A record goes to the trace at the place the code writes it, and may throw
when the trace is a file and `exceptions()` has been set. The checks of
`memory.h` are as written: an access may start up to its size behind the end,
where `region_t`'s assertion stops it, except at the byte just behind the last
page: that read or write is undefined and is modelled as any of `StrayBytes`, no
effect, or the end of the process. The end of a memory that grows is computed in
`addr_t` and wraps: a write at the last address leaves it empty.

### Application, Dpi, Simulator

`Start` to `Disas` are the command line, the simple regime and the nine commands
of the table in `interactive.cpp`; a typed line is given by the patterns it
matches, so that `print reg s1`, which also contains the pattern of `step`, makes
a step (the first match in the table wins). `Interrupt` is SIGINT: the handler
dumps the state where it finds it, or waits for a lock the interrupted step
holds. `Dpi` has an action for every exported function: announce in the trace,
act, and on an exception write to the same trace, which may throw out of the C
function (`escaped`). `Simulator` runs one of them with the library.

### LineEdit

`buf`, `pos`, `len` and `history_index` are the fields of `linenoiseState`;
`history` and `file` are sequences of texts. Each key is an action with the
condition of its function, on the buffer as the function leaves it (`Move` is
memmove); `Refreshed` is what `refreshMultiLine` makes of the cursor's row and of
the rows with text on the screen, from the very computation of the code.
The terminal has as many rows as are needed and a character is one column wide:
the cursor is never stopped at the top or the bottom, and there are no tabs or
characters of several bytes. A line of the file that is longer than the
buffer of `fgets`, which would come back as several entries, is outside
`HistoryComesBack`. `SetRaw` and `BeginEdit`, `Restore` and `Unflag` are separate because the
terminal's mode and the flag `atexit` looks at change one after the other.
`Interrupt` is a signal at any moment, `Hangup` a terminal that goes away,
`Restart` the program started again with the file it left.

Behaviour worth knowing, found while writing it and modelled as it is: a
half-typed line is executed when the terminal goes away
(`linenoise.c:727-728` says it returns on enter or Ctrl-D); Ctrl-@ types a NUL
that cuts the line; a line as long as the buffer comes back from the file with
an empty entry behind it, and is cut by one when it is recalled; editing an old
entry rewrites it; a signal during the save leaves a prefix of the history.

### SpiBoot, Blink, Firmware

A step of the driver is one access to a register of the controller; a step of the
controller moves 32 bits. Writes to `CTRL`, `SS` and the data are not taken during a
transfer (`spi_top.v:216`, `240`, `spi_shift.v:130`). `Release` is the body of the
driver's polling loop (see the findings). The flash answers a command that starts
with its selection and goes on sending as long as it stays selected.

Sizes and addresses have the width of the code's: `received` and `size` are below
`SizeSpan`, 2^32 for the processor, and a flash address below `AddrSpan`, the 24 bits
of the mask in `spi.h`. `received` is a multiple of 4 and wraps, so a size above
`SizeSpan - 4` is never reached: the loader goes on for ever, and an erased flash
reads as such a size. `BootEnds` says which of the two happens. `ram` has a word for
each that a size can name; where the board's RAM ends, which the loader does not
check, is left out.

`Blink` reads
the counter in two halves, each at a moment of its own. In `Firmware` the test
program runs once the loader has jumped.

## Runs

| run | instance | states | shows |
|---|---|---|---|
| `sync_fifo` | depth 4, three words | 3294 | invariant and refinement of the FIFO |
| `mau` | lines of two words; two reads, a cached and a non-cached write, a non-cached read of the data cache, one fetch | 73049 | the safety properties of the MAU; data requests and accepted fetches are served, and every fetch when the data port is quiet |
| `l1d` | two ways, one set, two byte lanes, two cached and one non-cached address | 32218 (symmetric) | the safety properties of the data cache |
| `l1d_words` | two ways, two sets, two words in a line, one lane | 201300 (symmetric) | loads see the newest word also across sets and the words of a line |
| `l1d_live` | loads of one address, stores to two | 14170 | every accepted request is acknowledged |
| `l1d_byte_store` | stores of one byte at lane 1 | stops at the violation | the finding below |
| `simulator` | words of 8 bits, 3 registers, pages of 8 bytes, 42 instructions; up to 4 instructions, 5 commands or 4 DPI calls | 229587 | a step does what the ISA says, counts what it did and survives its failures; dumps and traces are at most one write away from the state; failed DPI calls change nothing |
| `line_editor` | a buffer of 3 characters and NUL, 3 history lines, a prompt of 1, a terminal 2 wide; 5 keys, 2 program starts | 505071 | the editor keeps to its buffers, edits the text, shows it, saves it, and ends |
| `firmware` | images of 0, 1½ and 2 words, one that announces the largest size that is reached and an erased flash; sizes below 32, flash addresses below 16; a counter of 8 × 8 values, a period of 5 | 319232 | the loader waits for every transfer, copies the image, and ends exactly if the size can be reached; a level lasts for its period |
| `wb_com` | FIFOs of two headers, four requests in flight for each master, tags of 3 bits; slave 0 answers at once, may stall and may report an error alone, slave 1 answers within two cycles and refuses writes; one cycle after going astray | 697392 | headers keep their order and do not overflow; until astray nothing overflows, marks count what is in flight, and each master gets its own answers, in order and after at most 5 cycles without one |
| `branches` | one `bne`, two registers set from outside | stops at the violation | the finding below |
| `spi_release` | as `firmware` | stops at the violation | the finding below |

Why the bounds are enough. A depth of four lets the pointers differ by every
amount in both laps. The MAU keeps its real buffer depths (4, 2, 4), so the
full conditions are reached; a line of two words has a first and a last beat,
and the proofs cover every length. In the data cache two ways and two tags give
hit, miss and replacement because any way may be replaced; two lanes give full,
partial and no overlap of a load with a buffered store. In the passing runs a
sub-word access is at lane 0, and the non-cached addresses are not cached ones:
the first because of the finding, the second because the documentation of the
cache requires it of the software. Ways and tags are symmetric in `l1d`, ways in
`l1d_words`; `l1d_live` uses no symmetry.

In `simulator` a page holds two words, so accesses at, over and behind the end
of memory, stores that straddle it and an address that wraps are all among the
42 instructions and the writes of the host; four instructions are enough to
prepare operands, fail, and step again. Images are little- and big-endian. In
`line_editor` five keys fill the buffer and leave two more to edit in it, lines
of 0 to 3 characters take one to three rows of a terminal of two columns, the
history overflows from the file or by typing, and the second start reads what
the first one left. In `wb_com` the smallest FIFOs with an index
are filled by two masters that ask one slave in every cycle, which holds up to
three of their requests; the tag takes all its values many times, and
`AnswerTime` is the smallest bound that holds for these sizes. An address of no slave is not in
this instance; `OwnAnswers` covers it. In `firmware` a size that is no
multiple of a word and one that is zero take the loop's ends; sizes and flash
addresses wrap, 28 is the largest size of the instance that is reached, and 31, all ones, is
an erased flash. The counter starts anywhere, so a carry falls between the halves and within a
wait, and its period is far from a wrap as on the board (`PeriodAssumption`).

Fairness. `L1Mau`: the clock runs (weak fairness of an edge that changes a
register of the unit, which does not oblige a cache to ask for anything), the
bus does not stall for ever and answers every beat it took; both memories answer
in the next cycle. Nothing is assumed about the data port leaving room for
fetches: stores back to back starve them in the code (`l1_mau.v:146`), so
`FetchServedWhenDataIsQuiet` has that premise. `L1D`: the clock runs while a
request is in the cache, and the MAU accepts and answers, which is what
`mau` shows of it. `WbCom` has no fairness: every step is a cycle, and
`AnswersComeInTime` counts them. `LineEdit`: the program itself goes on (weak fairness of
`Program`, what it does without a key); nothing is assumed of whoever types. A
read from a terminal that is gone returns at once, so `EndOfInputEnds` needs no
more. `Firmware`: the processor and the controller's clock do not stop (weak
fairness of `Boots` and of `Shift`, by the loader's state, so that polling a
register that does not change does not count). The simulator has no liveness
property: a `step` of a program that loops ends by its count, which
`StepsAreCounted` covers.

## Findings

`l1d_byte_store`: `mau_req_be` (`l1d_top.v:322-326`) is not shifted to the lane
of the address, the enables of the cached copy (`162-166`) are. A store of a byte
at lanes 1 to 3 writes lane 0 of memory and the addressed lane of the line.
`l1d_top.v:9` calls the cache write-through, and the testbench defines the
enables as shifted (`src/verif/common/core/sl_core_bus_item.sv:46`); its
comparison with the bus is commented out
(`src/verif/l1_cache/uvm/scrb/sl_cache_scrb.sv:138-140`).

`branches`: every branch compares `rs1` with itself (`instr_sb.h:34`, `46`, `58`,
`70`, `82`, `94`), while the disassembler prints both operands (`109-110`). In the
run a `bne` with 6 and 0 falls through. `bge` and `bgeu` are greater-than, which
the same comparison hides. `StepsFollowTheIsa` therefore covers the sections
that are neither jumps nor branches (`jal` and `jalr` link to their own address;
no text of the repository says otherwise, so it is no finding here).

`spi_release`: `while(spi->CTRL & CTR_GO_BSY)` (`spi.h:70`) has no semicolon, so
the release of the slave (`72`, "Select Slave inactive") is its body. The
controller ignores it during the transfer; when the transfer ends between that
write and the next look at `CTRL`, the slave stays selected and takes the next
command for a continuation of the last read. `ImageIsCopied` holds when that
has not happened (`missed` remembers it).

## Proofs

All theorems hold for every value of the constants that meets the named
assumptions (`DepthAssumption`, `LineAssumption` and so on), which TLC evaluates
in the runs.

`SyncFifoProofs`. `Invariance`: `IInv` is inductive. The type invariant alone
does not tell full from overrun; `PointersWithinOneLap` is what makes the number
of occupied slots lie between 0 and the depth, and `HeadShown` is the output
register's claim. `Refinement`: every clock edge is a step of the queue. The
argument follows the sequence of occupied slots through a pop, a push and both,
across the wrap of each pointer.

`L1MauProofs`. `Invariance`: `IInv` is inductive. It consists of the type
invariant, one owed answer per set accepted flag (`OneReadPerPort`), the balance
of beats (`BeatsAreConserved`), the words in the data buffer
(`DataPerWrite`) and `BuffersNeverUnderrun`. They need each other: the count in
the ACK machine cannot fall below zero only because no beat comes that is not
owed, which is the balance; the balance is kept only because neither machine
pops an empty buffer; and that follows from the balance again, with the
accepted flags ruling out that a port is counted twice. The buffers hold four
entries at most, so what they hold in sum is written as a sum of four terms and
needs no induction. `TypeCorrect`, `OneRead`, `Conservation` and `NoUnderrun`
follow.

`LineEditProofs`. `InBounds`: `EditorInBounds` is inductive as it stands, because
it says of every place that the byte at `len` is a NUL and that the history is
not longer than its array, and of the editing itself that the entry being edited
is in the history. The lemmas carry the argument: `StrLenIs`
(a buffer with a NUL holds a string that ends at the first one, by the least
element of a set of numbers), `MoveIsBuffer` (a memmove whose source is in the
buffer), `WordStartIs` (the search for a word's start ends), `AddedIs` (the oldest
entry gives way) and `CopiedIs` (what `strncpy` leaves ends in a NUL); `EditKeeps`
reduces every key to them. It holds for every `MaxLine` of 2 or more, every
`HistMax` of 1 or more and every number of keys and restarts, and all that follows
rests on it.

`TextIsEdited` is the refinement of `TextLine`: the text before the cursor is the
first `pos` bytes of the buffer (`LeftOf`), the text after it the bytes up to `len`
(`RightOf`). Lemmas about buffers alone say what a memmove does to these two
sequences (`InsertText`, `RemovedText` for any gap that closes, `MovedText`,
`SwappedText`, `CopiedText` for `strncpy`), so that each key is one of the steps
of `TextLine` (`InsertIs`, `RemovalIs`, `WordIs` and so on): `Ctrl-W` because
`WordStartIs` says what its two loops stop at, Enter because the first NUL of the
buffer is the first NUL of the text (`ReturnedText`).

`LineIsShown`: `ScreenInv` holds while a line is edited. `refreshMultiLine` keeps the
last cursor position and the largest number of rows so far, not the row the cursor
is in; from these it must come back to the first row, and erase down to the
last. `Ready` says that it will, `Shows` that it has, `RefreshedIs` that the first
leads to the second and `ShowsIsReady` that the second leads to the first, also
after the screen was cleared. Rows are quotients by the width: `DivPlus`, `DivMono`,
`DivRound` and `DivSmall` are all that is needed of division.

`HistoryIsLoaded`: `LoadInv` says that after `k` lines of a file the history holds
the newest of the lines that do not repeat the one before (`Holds`); a line read
moves every other one place away from the end, and the oldest out when the array
is full (`NewLine`). `TerminalIsRestored`: raw mode is known to the flag
`atexit` looks at (`RawInv`), but for the moment between the two assignments.

What arrives is in the second half of `L1MauProofs`. `WordsStayInOrder`: `OrderInv` is inductive together with
`IInv`. Its core, `InOrder`, says that the beats on the bus (`Sent`) followed by
the beats of the headers that wait (`ToCome`) are, word for word, what the ACK
machine expects (`Expected`: the rest of the open line, then what each entry of
the acknowledge buffer stands for; the answer to a write is `None`). A step moves a
word from the right of that equation to the left and takes words off the front
of both sides: `SentEdge`, `ToComeEdge` and `ExpectedEdge` show this for the
bus, the TR machine and the ACK machine by themselves, and `InOrderStep` puts
them together. Counting beats, as `BeatsAreConserved` does, is not enough: a swapped
pair of answers keeps every count. `Collected` follows the shift register, and
`Entries` says that an entry matches the request that is held at its port. The
addresses expected are those at the ports now, so the step also needs
`OneReadPerPort`: a port is asked anew only when nothing is owed to it.
`DataInOrder` is the same idea for the two-entry data buffer beside the
four-entry headers. Buffers hold four entries at most, so the words of a buffer
are a concatenation of four parts, without induction. `AnswersAreRight` and
`WritesMeetTheirData` follow.

`L1DProofs`. Three layers. `Control` is inductive without any hypothesis: what
the stall conditions of the pipeline make of its flags (`Pipeline`), the store
in S1 that is also the one in the buffer (`Buffer`), and that a load which waits
for its line has a victim chosen and no copy of the line in any way
(`VictimIsNoCopy`), without which a refill could make a second copy. `TypesHold`,
`AcknowledgesBelong`, `HitsAreUnique` and `DeferredStoresLand` follow, for every
number of ways, sets, words, lanes and tags and any choice of the victim.
`Memory` adds that memory lags behind program order by the store in S1 only, and
`Coherence` that the lines lag by the buffered store only; for that the invariant
has to know when the data memories' address register is at the load's index and
that a load which overlaps the buffer is told so (`Forwarding`). These two layers
rest on hypotheses about the requests, stated as definitions and in the theorems:

- `StoresAtLaneZero` (for `MemoryFollowsStores`): every store starts at lane 0. It
  is what the code is right for; without it the property is false, which is the
  finding `l1d_byte_store`.
- `KindsApart` (for `LinesFollowStores` and `ReadsReturnLatest` as well): no
  location is stored to around the cache while the cache may hold its line. A
  non-cached store does not look at the tags (`l1d_top.v:232`, `244`). The core
  decides by the address alone which kind a request is (`core_mem_s.v:85-86`), and
  the testbench draws the two kinds from ranges of their own
  (`sl_l1_core_bus_item.sv:28-31`).

`FirmwareProofs`. `LevelsAreHeld`: the counter is read in two halves, and
`BlinkInv` says for each place between the reads how far the counter may have
gone, as an existential over the time passed; `torn` excludes a carry between
the reads. The bounds below a turn of the counter come from `PeriodAssumption`.
`ImagesAreCopied`: `BootInv` relates the driver's place, the controller's transfer
and the flash's mode (`Selection`, `Transaction`), and says that the words in are the first of the image (`Copied`), whenever the flash holds the words its
size announces (`Whole`; the driver has no other check) and its addresses fit. It
holds until a slave was not released (`missed`), after which the next answer is
noise. `TransfersAreWaitedFor` needs no such premise: `BusyInv` says that GO, which the
driver looks at, and the controller's transfer rise and fall together, and that
the driver is in its loop meanwhile, so it writes no register that would not
take it and reads no answer that is not complete. Sizes and addresses wrap at any span that
is a multiple of a word (`SpanAssumption`).

`IsaProofs`. The code computes with sums, quotients and remainders; the reference
speaks of bits, carries and signs. `SameBits` joins them: two words with the same
bits are equal. It is shown without induction over a word, by a minimal
counterexample (`Least`: a set of numbers that is not empty has a least element), as
are the steps of the sum (`SumExists`, `SumSteps`) and `Digits`, which says that a sum
of digits times powers of a base has those digits; base 2 gives the bits of
`And`, `Or` and `Xor` (`OfBitsIs`), base `Span(1)` the bytes of a load (`UnitIs`). `AddIs`
and `SubIs` are the carry and the borrow, `SignOfWord` and `LessIs` the signed
comparison by the top bit, `SllIs`, `SrlIs` and `SraIs` the shifts place by place.
`AluFollowsIsa`, `ImmediateFollowsIsa`, `LoadFollowsIsa` and `StoredByte` follow for
every operand, every byte and every width. The provers know nothing of exponents:
`PowerAssumption` tells them that 2^0 is 1, 2^1 is 2 and 2^(m+n) is 2^m * 2^n for
exponents up to the width of a word, which is true of every width.

`SimulatorProofs` has four layers.

`SimInv` is inductive. It says who is in a call (`Hosted`: the
program only at two of its places, a DPI function only for one step), what every
phase of an instruction has already written (`Place`: nothing before the write of
`rd`, and `jalr` its link before its jump), and that a store in progress has its
record in the trace (`Recorded`). `StepsCounted` needs `Hosted`: a DPI step that
throws is not added to the total, and that is right only because such a call asks
for one step and has made none when it throws. `FailedStepsKeepPlace` is `Place` at
a throw; `TraceShowsWrites` is an action property that follows from `Recorded`.
`FailedCallsKeepState` adds that memory is a range of addresses from 0 (`MemInv`),
so that growing it to hold an address keeps every byte (`GrownKeeps`, with whole
pages and an end computed in `addr_t`). None of this looks at the value of a word.

`TypeInv` (for `TypesHold`) does: memory is whole pages, at most as many as `addr_t`
can address (`PagesFit`), whatever an image, a size or an address asks for; every
byte loaded or stored, every register, link, jump target and the pc is in range;
and an instruction that is past its decoding is a valid one of the section its
phase belongs to.

`IsaInv` says what an instruction has computed and written at each of its phases,
in the words of `IsaReference`: the address of a load or store, the value on its
way to `rd`, the next pc, and in the middle of a store that exactly the bytes
below the count have their new value (`BytesRight`). One lemma for each micro-step
keeps it; the arithmetic comes from `IsaProofs`, and `Distance` relates the bytes a
store visits, modulo the size of an address, to the bytes the reference
changes. `StepsFollow` is `IsaInv` at the write of the pc, and
`DumpsAreOneWriteAhead` is `IsaInv` at any phase, with `DumpInv`: a dump is the end
of the program, so one made in a call is made by the signal handler.

These theorems hold for every width, register file, page size, program, file
system and set of commands. The assumptions they rest on are types the code has:
`DecodeAssumption` (a decoded instruction has register numbers of the file and an
immediate of `sword_t`), `StrayAssumption` (what lies behind the last page is
bytes), `PageAssumption` (the address space is whole pages, as 2^32 is of the
code's), `FilesAssumption` (files are bytes), `OptionsAssumption`, `LinesAssumption`
and `DpiAssumption` (a size is a number, an address or value a word).

`WbComProofs` holds for both sizes of FIFOs the code's shifts have bits for, any
address map without overlaps, and slaves with any `Delay` up to `BScale`, any of
which may stall or report errors alone. The inductive invariant has two parts.
`Always` speaks of the headers and their data and holds whatever the slaves do;
`Sound` holds until the crossbar goes astray. `NothingLost` and `OwnAnswers` follow
from both. The response FIFOs do not look at full, so their bound has to come from the other
end: the only limit is the number of requests a master has in flight, and
`InFlight` says where these are. The requests owed to master `m` that are for
slave `s`, oldest first, are one by one the answers in the response FIFO, then
what the slave holds for `m`, then the headers in the header FIFO. `DirOwed` says
that the direction and error registers of the master side describe the requests
owed, so the FIFO that the mark points to is the one with the oldest answer.
`HeldInOrder` says the same of a slave: its mark is the number of requests it
holds, the bits up to it say whose each of them is, and the ages of the held
requests fall by one at least from each to the next. The oldest is `Delay` cycles old at
most, so there are `Delay` of them at most between two edges, and no direction is shifted out. "The requests for `s`,
in their order" is a selection from a sequence, which would be a recursion;
`Those` states it by the places chosen instead, and the lemmas `ThoseAppendIn`,
`ThoseAppendOut`, `ThoseTailIn` and `ThoseTailOut` follow it through a request
accepted and a request answered. What a slave holds for one of the masters is
such a selection too, and the data FIFO is one of the headers.
A header FIFO itself is bounded by `m_wb_stall_i`, a response FIFO because its
answers are all owed and the mark stops at its top.

`InOrder` needs `Always` only, and holds of a crossbar that is astray as well:
headers are popped without a look at the slave. It adds `Turns`: the requests
accepted in one cycle form a turn, each
header stands in one, and its tag is its age behind the clock of the tags,
modulo the clock's range. The comparison of wrapped tags is right as long as both ages
are at most half of the range (`OlderIs`, four cases by the upper bits), and the age
is bounded because the slave's side takes a header in every cycle in which there is one:
the age of a header, its place in its FIFO and the number of headers of the
other master that are not younger are `2 * Depth + 1` at most in sum. Accepting
makes everyone older by one, serving brings everyone nearer by one
(`TurnsServed`); a header that joins has age 1 and at most `Depth` before it in
each FIFO (`TurnsJoined`).

`InTime` turns the same order into a time. A header whose master first appears in
the n-th turn is served in the n-th cycle from now, or in the one after it when both
masters share that turn (`Rounds`); its answer comes within `Delay` of the slave. The
oldest request of a master that waits is in one of two places: in the slave, whose answer
is due at the age `Delay` (`DueFromSlave`), or among the headers (`DueToSlave`); both say
that what is left and the cycles waited already are within `AnswerTime`, and `Timely`
that one of them holds for the slave a master waits for. The turns before
a master's first hold headers of the other master only, one each, so the places of
the other FIFO bound their number; and when all headers belong to one master, one of
them is served in the very cycle in which a request of the other is accepted, which
leaves one place less to wait for. The bound is `Depth + 1` and the longest delay.

Only model-checked: liveness (`RequestsAreServed`, `FetchServedWhenDataIsQuiet`,
`RequestsAreAcknowledged`, `EndOfInputEnds`, `BootEnds`), which the proof system does
not support. Every invariant and every other action property of the passing runs
is a theorem.

## Not modelled

- L1 instruction cache, replacement and cleaning (`l1i_top.v`, `l1_lrum.v`): `L1D`
  allows any choice of a way, so its data properties rest on neither; the
  instruction cache appears as the second client of `L1Mau`. The composition of
  both caches with the MAU is larger than a run can explore.
- Of the crossbar: a slave that never answers, or acknowledges only every second
  cycle, as the SPI controller behind the multiplexer does; the ROM's error
  without a request; what comes later than `StrayCycles` after going astray; byte
  selects. The multiplexer itself (`wb_mux`). One crossbar behind the other is a slave of `WbCom`,
  not a composition. The crossbar is not composed with `L1Mau`, whose bus stands for
  it and never reports an error.
- Core pipeline: unfinished in this state of the code. `core_alu.v` computes AND
  as OR, shifts right by the wrong operand and compares in reverse for SLTU, so
  a statement about the programs it runs has no basis yet.
- SPI clock generation, bit order, divider and interrupt; GPIO (one assignment
  per register); RAM, ROM, board and wiring; the testbenches; the flash model
  and UVM library under `verif`, which are vendored; start-up assembly.
- Of the simulator: what commands print, decoding of bit fields, the wording of
  the regular expressions. Of the line editor: completion (no callback is ever
  set), the single-line refresh, `linenoiseHistorySetMaxLen` and the key code
  printer (never called), a newline typed by Ctrl-J, and control characters with
  no width other than NUL. A prompt is taken to be narrower than the terminal.
- A kill that no handler sees, and two signals at once.

## What the proofs leave open

The theorems about the data cache that speak of values hold under `StoresAtLaneZero`
and `KindsApart`; the first is what the finding `l1d_byte_store` breaks. Jumps and
branches are outside `StepsFollowTheIsa`: branches because of the finding, `jal` and
`jalr` because the link they write is not the one of the instruction set. That an
encoded word decodes to the instruction its bits name is not modelled, so
`StepsFollow` begins at the decoded instruction. The answers of `WbCom` are shown
to be right until a slave stalls an offered request or reports an error without an
acknowledge, and for slaves that answer within `BScale` cycles.
