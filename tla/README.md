# ZPUDemos: a verification project

ZPUDemos is a family of small FPGA systems. Each is a ZPU processor (ZPUFlex,
a submodule that is not in this repository), a toplevel in VHDL that maps
peripherals and SDRAM into its address space, and firmware in C that runs on
it. The demos share the peripherals under `src/RTL` and the firmware library
under `src/Common_Firmware`; each demo directory adds a toplevel and a program.

This directory holds TLA+ modules that model the hardware and firmware together
where they meet, TLC configurations that check them on small instances, and
proofs of theorems that hold for all instances.

## 1. Inventory

Each entry: what the part keeps, what it does, who it talks to, what is hard,
and what makes it correct. `PROJECT.json` lists the same parts with their
files, and under "hazards" the hazards with their lines.

### Hardware

**Interrupt controller** (`RTL/Peripherals/interrupt_controller.vhd`, the
`int_enabled` and `int_ack` registers of the toplevels, `interrupts.c`). State:
the request line, the status a handler reads, the bits held pending, a
redundant "any pending" bit. Inputs: one trigger bit per peripheral, the
acknowledge that a read of the register produces. Hard: a trigger in the cycle
of an acknowledge or of the promotion of pending bits; the acknowledge is one
cycle later than the read. Correct if no trigger is lost, no request is empty,
and the status does not change under a handler that is about to read it.

**PS/2 driver** (`RTL/Peripherals/io_ps2_com.vhd`). State: the two-state half
rate enable, a clock filter, a bit counter, a shift register, a parity bit, a
latched send request. Talks to a device over two open-collector wires, to the
toplevel by one-cycle pulses. Hard: both ends may begin a frame at the same
moment; three clocks (system, half rate, device) meet. Correct if every frame
is received or sent whole, once and in order.

**PS/2 registers and interrupt line** (toplevels). One receive flag per device,
cleared by a read and set by a byte; the pulses are ORed into one interrupt.

**DMA cache** (`RTL/DMA`). State: per channel an address, a count, two FIFO
pointers and a FIFO counter; one burst machine; a block RAM; one output port.
Hosts are the VGA and sprite fetchers, four sound channels and the TFT. Hard:
every stage is registered, so each decision is taken on numbers one or two
cycles old; hosts may reload a channel at any time; the lowest channel always
wins. Correct if nothing is overwritten before it is read, words are served in
order, and every word asked for arrives.

**SDRAM controllers** (`RTL/RAM/sdram_cached.vhd`; `sdram_simple.vhd` in the TFT
demo). State: a phase counter, two access slots with a bank each, one column
register for both, a one-word write buffer, a refresh request. Ports: video
bursts, CPU reads through the cache, CPU writes. Hard: the slots overlap and
may not use the same bank, a write is acknowledged before it reaches memory,
refresh needs both slots idle. Correct if no slot runs into an open row, reads
see earlier writes, every port is served and a refresh asked for happens.

**Two-way cache** (`RTL/RAM/TwoWayCache.v`). State: tags and data in block RAM,
with valid bits per halfword, a most-recently-used bit per line, an FSM that
clears the valid bits after reset. Hard: both ways may hold one line; the
reader of a missed word goes on while the rest of the line arrives. Correct if
a hit returns the word last written, also after a write that invalidates, and
a request is always answered.

**Sound controller** (`RTL/Sound/sound_controller.vhd`, `sound_wrapper.vhd`).
Per channel: data, length, volume and period registers; a counter; a state
machine that fetches two bytes per DMA word and reloads at the end of a sample,
raising an interrupt. Hard: registers are rewritten while a sample plays, the
fetched word may be late. Correct if a sample is played to its end and the
reload takes the registers as they then are.

**Video** (`RTL/Video`). Counters for a raster, a frame buffer fetcher that
asks the DMA cache for one line at a time, a sprite fetcher, a vertical blank
interrupt. Correct if a line is asked for in time and the sprite's words are
not taken for the frame buffer's.

**Timers, SPI, UART** (`RTL/Peripherals/timer_controller.vhd`, `spi.vhd`,
`simple_uart.vhd`). Small counters and shift registers. Hard: the UART has one
receive register and a flag that a read clears, SPI ignores a trigger while busy.

**TFT DMA** (`TFT/RTL/TFTTest_Virtual_Toplevel.vhd`). Streams a frame buffer
from the DMA cache into the SPI of the display and raises an interrupt when it
is finished. Hard: finished is decided from what was fetched, not what was sent.

### Firmware

**Interrupt and PS/2 firmware** (`interrupts.c`, `ps2.c`). A handler and a main
program share four ring indices per device. The writer runs the handler itself
with interrupts disabled. Hard: the handler decides from a snapshot of two
registers that change under it, and its read of the interrupt register
acknowledges whatever has been raised by then. Correct if bytes cross the rings
once and in order, and nothing is left waiting with nothing to wake it.

**Keyboard** (`keyboard.c`). Decodes scan codes to a bitmap of keys and a queue
of characters, and drives the LEDs.

**Allocator** (`malloc.c`). A list of all blocks in address order, threaded
through headers, and a chain of the free ones; split on allocation, merge with
both neighbours on free. Hard: long sequences of calls; sizes near the limits
of `int`. Correct if blocks never overlap, no memory is lost, and no two
neighbours are both free.

**System calls and files** (`syscalls.c`, `rafile.c`). A table of eight files,
each a sector buffer over a FAT file. Hard: opening fails half way, closing
leaves the slot, reads and seeks cross sectors. Correct if a read returns the
bytes at the file position, and a descriptor means the file it was opened for.

**FAT** (`fat.c`, `SDBootstrap/Firmware/minfat.c`). One global sector buffer,
one cached FAT sector; files as cluster chains; a table of eight directory
entries with an order, for a file browser. Hard: the cached sector must be the
one the index means; a creation writes the copies of the FAT and the directory
in several steps, any of which can fail; the browser moves its window by
reading the directory again, in the order of the disk, with room for one window.
Correct if a walk along a chain ends where the FAT says, no chain of another
file changes, and the window is a piece of the sorted directory.

**SD card** (`spi.c`). A flag for the way the card is addressed, counters of
retries. Commands are answered or not; every program initialises the card anew,
in the state in which the one before has left it. Hard: every wait is bounded,
an answer that is lost changes what the driver does next and not what the card
has done. Correct if initialisation returns, and a card that is used is
addressed as it expects.

**Boot loaders** (`SDBootstrap/Firmware/boot.c`,
`RS232Bootstrap/Firmware/rs232boot.c`). Byte-at-a-time S-record decoders that
write memory and jump; the SD one reads a manifest of files.

**Module player** (`Apps/Modplayer/replay.c`). Position, row, tick counter and
delays of a song, and four voices, advanced by a timer interrupt. Hard: four
voices write the same few counters in one row, and a function at its end
settles what they have asked for. Correct if every row is one of the song, lasts
as long as is written in it and is followed by the right one, and what the
voices send to the hardware stays in range.

**TFT program** (`TFT/Software`). Double-buffered drawing, a touch screen
polled and filtered into press and release events, sliders.

**Demos and the rest.** Hello, Dhrystone, PS2, VGA, SDRAM, Interrupt and Sound
demos are short programs over the above; JPEG-6b is vendored; the `*_ROM.vhd`
files are generated from firmware; `Board/` is pin assignments and PLLs.

### How the parts interact

Peripherals raise one-cycle pulses, which the toplevel ORs into the trigger
lines of the interrupt controller. The CPU takes an interrupt when the request
line is high and `int_enabled` is set, disables interrupts, and runs the one
handler that is installed; reading the interrupt register acknowledges. Device
registers are memory-mapped; some reads have a side effect (they clear the
receive flag, or acknowledge). Video, sound and TFT fetch memory through the
DMA cache, which shares the SDRAM with the CPU's cache.
The firmware layers call each other: `syscalls.c` mounts (`spi.c`, then
`FindDrive`), opens files (`fat.c` by way of `rafile.c`) and gives out memory
(`malloc.c`); the loader in the boot ROM does the first of these before, on the
same card.

## 2. The modules

A definition that models a function, process or register has its name. A
definition named `X_Y` is `X` with a plausible bug; nothing uses it, and
`PROJECT.json` ("mutants") says which property fails when it takes the place of
`X`. Variables commented "history" record what happened for the properties and
influence nothing. Constants commented "bound" limit the model, not the code.

| module | code | one step is |
|---|---|---|
| `InterruptController` | `interrupt_controller.vhd`, `int_ack` and `int_enabled` of the toplevel, `interrupts.c` | one clock edge |
| `InterruptLatch` | the same, abstract: what waits, what is raised | one event |
| `PS2Com` | `io_ps2_com.vhd`, an external device on the two wires | one clock edge of the driver, or one move of the device |
| `PS2System` | the PS/2 registers of the toplevel, `ps2.c`, `interrupts.c`, a main program | one bus or shared-memory access of the CPU, or one hardware event |
| `DMACache` | `DMACache.vhd`, `FIFO_Counter.vhd`, `DMACacheRAM.vhd`, hosts and SDRAM external | one clock edge |
| `TwoWayCache` | `TwoWayCache.v`, `DualPortRAM.vhd` | one clock edge |
| `SdramCached` | `sdram_cached.vhd`, the SDRAM state machine of the toplevel, the cache; the SDRAM chip external | one clock edge |
| `Memory` | what the CPU is promised of SDRAM, abstract | one request or answer |
| `Arena`, `Allocator` | what `malloc.c` promises, abstract | one call |
| `Malloc` | `malloc.c` | one call |
| `FatFile` | `FileSeek`, `FileNextSector`, `FileRead` and the FAT buffer of `fat.c` | (operators) |
| `Files` | `rafile.c`, `open`, `close`, `read`, `lseek` of `syscalls.c` | one call |
| `SongOrder` | the order in which the rows of a song are to be played, abstract | one row |
| `Replay` | `replay.c`: `mt_music` and the commands that move the song or a voice | one timer interrupt |
| `SDCard` | `spi_init` and all it calls, `FindDrive` as a search; the card external | one command |
| `Listing` | the window that `ScanDirectory` promises, abstract | one call |
| `DirScan` | `ScanDirectory` and `CompareDirEntries` | one call |
| `FatWrite` | `FileOpen`, `FileCreate`, `UpdateEntry` of `fat.c` | one call |
| `Storage` | the three above as one stack, program after program (`_init_sd`) | one command, or one call |

`MC_X` gives the constants of `X` the values that a .cfg cannot write,
`MC_Controllers` those of `InterruptController` and `PS2Com`; `X_proofs` holds
theorems about `X`, `Controllers_proofs` those about `InterruptController` and
`PS2Com`, and `Storage_proofs` also those about `SDCard`, `DirScan` and
`FatWrite`, the parts of `Storage`.

**Composition.** `PS2System` EXTENDS `InterruptLatch` and uses its operations
for the interrupt controller; `InterruptController` is shown, by TLC and by
proof, to implement that latch, so that what is checked of `PS2System` holds
over the real controller's registers and delays. In the same way `PS2System`
uses of the driver that it delivers bytes once and in order and pulses
`sendDone` once per byte taken, which is what `PS2Com` is checked for, and
that it may miss a trigger, which is disagreement 1.
`SdramCached` EXTENDS `TwoWayCache` and implements `Memory`: the refinement
mapping overlays the write buffer on the chip's contents, and a request is over
for the abstract memory in the cycle in which it is acknowledged.
`Malloc` implements `Allocator`. `Files` EXTENDS `FatFile`, and its objects are
what a correct `malloc` returns. `Replay` implements `SongOrder`, with the loop
variables of its voices. `Storage` EXTENDS `SDCard`, `DirScan` and `FatWrite`,
which share the card and the sector buffer; of a card that is mounted and
rightly addressed it uses what `SDCard` is checked for. `DirScan` implements
`Listing`, with the sorted directory as the list.

**InterruptController.** The VHDL process assigns the same registers in several
places, and later assignments win; `IntNext`, `StatusNext`, `PendingNext` and
`AnyPendingNext` give each register's value after the edge. A trigger may come
in any cycle. `cpu` is where the CPU is: in the main program, or at one of the
three bus accesses of a handler. `PolledReads` says whether the program also
runs handler code without having been interrupted, as `ps2_ringbuffer_write`
does; it is FALSE in the run and either in the proofs, and what polled reads do
to the PS/2 system is the subject of `PS2System`.

**PS2Com.** The state machine runs on every second clock (`ena`). Each state is
an action; registers not assigned in it are kept by the named frames
(`Release`, `KeepSend`, ...). The device reads and drives open-collector wires
and is written from the PS/2 protocol as the driver expects it; it changes the
clock only after the driver has seen the level before, because its half period
is at least 30 us and the driver's filter is 15 cycles. Either side may start
while the other does. The device keeps its own account of the frames it has
completed and of those it still owes, and knows nothing of what the driver has
made of them, so that a frame the driver drops is missing and not sent again.
The 100 us wait is one nondeterministic wait. `AlignedTriggers` says that the
CPU's writes fall only in cycles in which the driver samples them (see disagreement
1); it is TRUE in the passing run, so that the rest of the driver is checked.

**PS2System.** The handler is one step per register access. `hpc` and `mpc` are
the places of the handler and of the main program; the handler can interrupt
the main program anywhere that interrupts are enabled, and `WriteStore` calls
it as a function. Bytes are numbered, so that order, loss and repetition show.
`Clock(cleared)` is the edge of the toplevel's process; a register read clears
its receive flag at that edge, and a byte that comes at the same one sets it,
which wins. A byte written to a register starts to be sent, or its trigger falls
into a cycle in which the driver does not look: it is then `dropped`, with no
`sendDone` to come. A request is `late` for a device if it was raised when the
running handler had already read that device's register. When a handler that the
writer has called acknowledges such a request, and the device has a byte in its
register or is ready with something in its ring, the request was swallowed
(`swallowedRecv`, `swallowedSend`); the next read of that register is the end of
that. The handler stores into an input ring whether or not it has room.

**DMACache.** All processes take a step together and read the registers of the
cycle before; `Cycle` is the conjunction. A word is represented by its address,
so `data_out` says which word of memory comes out. Addresses count words. The
SDRAM controller takes a request when it likes, acknowledges one cycle later
and delivers a burst when it likes (`Sdram`). The hosts (`HostsMay`) set
addresses and lengths and ask for words in any cycle, an address and its length
in one cycle, as the sound controller does, or apart, as the VGA controller does.
`unseen` are the channels whose length was set when the alignment test saw an
aligned address, because the offset was half a burst or because the address
came in the same cycle; `Missing` is the words that such a stream may lack at its
end. `hosted` are the channels whose host has just set something. `sdram_nak` exists in the
interface and nothing in the repository drives it; it is left out. The counter
of a channel is cleared to one, not to zero (`FIFO_Counter.vhd`), so that an
empty FIFO does not say that it is empty; `early` marks a word that is served
before it has arrived, and `ServedInOrder` says nothing of it. A channel's
counter is zero before its first address; a request made to a channel that has
never been given one is excluded (`req \subseteq loaded`), as the words it would
get mean nothing.

**TwoWayCache, SdramCached.** Every edge moves all registers (`Edge`,
`CacheEdge`), reading those of the cycle before. What slot 2 does is what slot
1 does eight phases later, so each command is written once for both
(`At(s, p)`). One line of each bank is modelled, so a bank is also the index of
a line and a column is one of the eight halfwords of a burst. A write of less
than a word has its data in the second halfword, so its burst begins one
halfword early and may wrap. `Chip` is external: it holds the rows that are
open and the contents, and `fault` marks a command that it does not allow.
The refresh request of video is a pulse once per scanline; it may come before
either decision. The CPU may ask again in the cycle after an
answer, which is sooner than the processor can. The cache's tags are the same
in both ways at first, as block RAM is at power-up; valid bits are clear. A data
register that is dead until it is loaded again is reset, so that states
that differ in it alone are one. The model begins when initialisation is done.

**Malloc.** The heap is a record of functions from header addresses to header
fields, so that a list operation is an EXCEPT with the assignments of the code.
`Nil` in a field means that no list owns it, and `OnChain` is the nodes whose field
is not `Nil`, which are the nodes a search can meet. Sizes wrap at `SizeMax`; requests
are small enough not to reach it (`SizesAssumption`). `_sbrk` returns no memory, as in
the repository.

**FatFile, Files.** A sector of data is named by its cluster and its place in
it, a byte by its sector and place; the FAT is a constant function. In every
call some set of sectors may be unreadable. The FAT buffer keeps both the index
that the code believes and the sector that it holds. `open` takes a slot and
memory whether or not the name is found. The root directory is scanned as on
FAT16, linearly, and so does not touch the FAT buffer. `FileSize` is how many bytes
a file has. No call of the code looks at it: a read goes on past the end, where
a link past the end of the chain may lead anywhere (`LinkOf`), and reports
success; the properties claim of such a read only that it copies as many bytes as
it was asked for and that those within the file are right, and of a position past
the end nothing until the file comes back from there. A file that has met one
of the disagreements below, or an unreadable sector, has `strayed`: the
properties say nothing more of it and it is only followed to its close, while
its effect on the buffer that it shares with other files remains.

**Replay, SongOrder.** `mt` is the record of the static variables, so that a
function of the code is an operator from one such record to the next, and an
interrupt composes them in the order of the calls. A song is a function of
patterns, rows and voices to cells. Finetunes and volumes of samples are any
bytes, as the code neither masks nor clamps them (replay.c:890-891), and a cell
may name sample 32, which is read from the order list behind the 31 samples
(replay.c:879). A large finetune reads behind the table of periods:
`PeriodTable` goes on with arbitrary numbers there. Kept are all commands that
move the song and those that move the volume, the period and the finetune of a
voice; vibrato, tremolo, glissando, the inverted loop, retrigger and note delay
write only what goes to the hardware. What a row means that both delays and
loops is left open in `SongOrder`: the code obeys the loop again for each repeat
of the row. The test of `PosJumpFlag` between two rows (replay.c:1056) is
modelled and never true: a break command is obeyed on the first interrupt of a
row only.

**SDCard.** A command is one step, with its answer: 0xff if it was missed or if
the answer was lost, of which up to `MaxLost` are. `card` is external: a card of
one of four kinds, busy for some polls. Every argument of a command is shifted
unless `sd_is_sdhc` is set, and so what the flag holds at each command
matters to the card and not only what it ends as; the flag, like the card,
outlives the program. The loops have their real numbers as constants (6, 19, 48
and 19999; the code decrements before it tests). `sd_get_size` and the bytes of a
sector are left out.

**DirScan, Listing.** The table of rows, the order on it and the temporary table
are as in the code, with `MaxDirEntries` for 8. A name is a short sequence
of numbers. Long names are put together from their parts as the code does it,
with the buffer, the sequence number and the checksum that stay from one
slot to the next; the sorted list is defined from the directory alone.
`Listing` knows nothing of tables: a window on a list that moves by a row, by a
page, or to what was looked for. The limits on a directory are
`DirectoriesAssumption`, under which the refinement is also proved: its entries
differ in their names, the short ones and the long ones (`NamesDiffer`; a name is a
sequence of numbers here, on which the comparison is a total order, and the
checksum is the short name itself, free of collisions); a last part is followed
by the other parts and their entry, while other parts may be left over anywhere
(`PartsWhole`); and rows in order have their first letters in order, as they do when
the long and the short name of an entry begin alike (`LettersInOrder`: without it
a search keeps, of the rows after the one found, only those with a letter as high,
and the window has gaps). Besides, `SCAN_INIT_NEXT` comes right after
`SCAN_INIT_FIRST` has succeeded, which its comment asks for; the directory is
linear and can be read, and nobody writes to it meanwhile.

**FatWrite.** Every call may fail to read one sector. A write is refused (which
`sd_write_sector` reports), or done, or dropped by the card (which it does not
report); since the callers take the report the wrong way round (see below), a
call of `FileCreate` goes on after refused writes and stops after the first that
is not, and so a number and a truth value say which of its writes reached the
card. `misread` records that a directory sector that could not be read was used:
what happens to the entry at that place of another sector is then not claimed.

**Storage.** A program starts when the one before has ended or is abandoned
after any call; memory is new, the card and the volume are as they were. What is
browsed is not what is written, but the sector buffer is the same. A card that
was mounted with the wrong addressing, which an unpartitioned high-capacity card
can be when a last answer is lost, is not followed further.

## 3. What the runs check

Times are for two workers.

| run | bounds | size | shows |
|---|---|---|---|
| `Controllers` | three trigger lines; frames of two data bits, two bytes of different parity, two sends, two frames of the device | 19 thousand | interrupts: no trigger is lost, no request is empty, the latch is implemented (whose status does not change from the request to the read), every trigger is reported in the end; PS/2 driver: the frames the device has completed by its own account, and the bytes it was sent, cross whole, once, in order and none dropped, a host never cuts off a frame it has begun to accept, and a send completes |
| `PS2ComTrigger` | the driver alone, triggers in any cycle | | violated: disagreement 1 |
| `PS2System` | rings of four, four sets of event counts, any trigger missed | 2 min | both rings in order and without loss but for missed triggers, an overfilled ring never repeats or reorders, nothing stranded unless a wake-up was swallowed or a trigger missed, otherwise register bytes fetched and a blocked writer released |
| `DMACache` | one channel loaded three times, address and length together or apart; one channel with lengths of zero and below a burst, and half a burst into a burst; two channels with three bursts each; bursts of four, FIFO of eight | 807 thousand, 2 min | no overflow, words in order, and all words fetched but those whose offset the alignment test does not see |
| `DMAPriority` | two channels, one of them, either, reloaded without end between bursts; bursts of two, FIFO of four | 416 thousand, 2 min 30 | a request is served unless hosts of lower channels set something for ever |
| `DMAAlign` | a base half a burst into a burst, length after address | | violated: disagreement 2 |
| `Sdram` | two banks, three rows, two workloads | 331 thousand, 3 min | rows are open exactly while a slot uses them, no forbidden command, the cache agrees with memory, `Memory` is implemented, refresh is not starved, every request is answered |
| `Malloc` | header of two bytes, three regions, requests 0, 1, 4, 7 | 11 thousand | lists whole and ordered, blocks tile memory, free neighbours joined, `Allocator` implemented |
| `Files` | two files, 17 and 4 bytes long, two descriptors, positions up to 14, clusters of two sectors of three bytes, FAT sectors of two links | 178 thousand, 40 s | descriptors distinct, FAT buffer and cursors right through failures, reads copy the bytes of the file as far as it goes |
| `FilesDrain` | no failures | | violated: disagreement 3 |
| `Replay` | two patterns of three rows, four positions; up to three commands of two voices before an empty pattern, up to two before a pattern of up to two loops; slides of one voice over the code's table, samples in and out of format | 1 min 30 | every interrupt ends on a row of the song with nothing pending, rows last as long as is written, `SongOrder` is implemented, a song whose loops cannot come out of step leaves every pattern, voices stay in range |
| `Storage` | two programs; two answers lost; loops of two and three tries; a window of three rows on a list of six; two files, two copies of a FAT of two sectors, four calls | 200 thousand, 2 min 30 | the card is addressed as it expects, initialisation returns, `Listing` is implemented, chains and other files' entries stay |

The properties that the runs name are conjunctions where one question has several
parts; each part is a definition above it in the module. `IInv`, `BytesCross`,
`RingsRight`, `ListsRight`, `TableRight`, `PositionRight` and `CardRight` are of this kind.

**Why the bounds are enough.** The small sizes keep the relations the code
depends on. Three interrupts are one raised, one held behind it and one that
arrives at the same time. Frames of two bits pass through every state and every
comparison of the bit counter, with both parities. A ring of four has room for
three, and with five bytes the index wraps, the output ring is full and the
input ring overfull, with the reader in the middle of a read. Bursts of four and
a FIFO of eight make the FIFO two bursts, the least in which a burst can be
refused for lack of room, and the counter is twice that wide as in the code;
three cycles in which a host sets something let it reload during a burst and
again in its aftermath, with the length in the same cycle or in a later one. In
`DMAPriority` a load is two bursts, which fill the FIFO; the next load comes
before the first of them, between the two, in the last word cycle of either, or
later. Its variable `clk` changes in every cycle, so that fairness of the clock
forces no host to do anything. Of the two workloads of `Sdram`, one lets three
rows compete for a line of two ways while one of them is written by words and by
bytes, the other lets reads and writes of one bank, writes of the other, video
and refresh compete for the slots; a third bank would only add free slots. The
regions of `Malloc` touch or lie apart and are added in any order, the requests
give blocks of two, three and five headers, and remainders of zero, one and more
headers occur. The long file of `Files` has three clusters whose links lie in
two sectors of the FAT, out of order; the counts read less than a sector, more
than a sector and more than a cluster. The short file ends in its second sector,
so reads begin within it and end past its end, begin past it, and come back from
there. Three rows of a pattern are the least in which a loop has a row before
it, inside and after it, and three commands of two voices meet in one row or
follow each other; the songs are all of that shape. A loop that a break or a
jump cuts off in the first pattern leaves its count to the second, whose rows 1
and 2 end loops of one voice or of both. In `Storage` the three uses of the
card, and in `Controllers` the two controllers, are told apart by a variable
`job` that never changes, so that they add up instead of multiplying. Two lost
answers are one for each program or two in one initialisation, and `Polls` times
`Rounds` is more than the polls of the card. A window of three rows on a list of
six has rows above and below; the directories are orders on disk of short and
long names, a subdirectory, another extension, a hidden entry, and parts of long
names that have lost their entry or their first part. The volume has one free
cluster in the first sector of the FAT and two in the second, so that a search
runs from the one into the other, and the buffer is of the wrong one in between.

**Deadlock** is checked but in the runs over `PS2System`, `Files` and `Storage`,
where the events are bounded and the program may have nothing left to do.

**Fairness.** Weak fairness of the clock, everywhere: hardware does not stop.
Weak fairness of the CPU where it has taken an interrupt or entered a call: the
CPU is not shared. Not of the main program's choice to make a call, nor of a
device's choice to send. `SendDone` is fair because a device acknowledges what
it was sent within a time the protocol fixes. The SDRAM controller is assumed to
go on with a request in the end (`WF_vars(Step(TRUE))`), which the arbiter of
`sdram_cached.vhd` gives its highest port, video, which is the cache's. In
`Sdram`, `SF_vars(Quiet)` says that video again and again leaves slot 1 free in
a cycle without refresh: the DMA cache asks for bursts only while a FIFO has
room, and slot 1 comes round more often than a scanline needs bursts. Without it
a reader may wait for ever, as video goes first. In `DMAPriority` the clock and
the SDRAM controller go on and no host has to do anything; a lower channel that
is reloaded for ever does starve a higher one there, which `RequestServed` names
and no fairness excludes. The timer of `Replay` interrupts for ever.
`WF_vars(Mounting)` of `Storage` says that a program that has begun to
initialise the card goes on; nothing is assumed of the card. For each of these
properties the run with the plain specification fails.

## 4. Disagreements found

With a run:

1. The half-rate enable. `io_ps2_com.vhd` samples the one-cycle send trigger only
   when `ena` is high, so a write in the other cycle is lost. (`PS2ComTrigger`.)
2. `DMACache.vhd` tests three address bits to see whether a transfer starts inside
   a burst, which are four words of a burst of eight; a start exactly half way
   into a burst is taken for aligned and one burst too few is fetched.
   (`DMAAlign`.)
3. `RARead` drains the rest of a sector from the block offset to the length asked
   for, where it means to stop at their sum; a short read in the middle of a
   sector takes the rest of its bytes from the next sector and reports success.
   (`FilesDrain`.)

Without a run of their own, met while modelling; the models do what the code does:

- The alignment test of `DMACache.vhd` reads the address register, which takes a new
  address at the same edge (line 249). The sound controller sets address and length in
  one cycle (`sound_controller.vhd:93-97,115-119`), so a sample gets the extra burst of
  the sample before it, and its last words are missing if it starts within a burst and
  the one before did not. `EnoughWords` says how many words can be lost by this and
  by disagreement 2; `UnalignedGetsExtra` fails of such hosts too.
- A handler run by the writer of the PS/2 ring, with interrupts disabled, reads the
  device registers and then the interrupt register; an interrupt that comes
  between them is acknowledged without having been served, and a byte stays in
  the register or in the output ring until something else happens. Disagreement 1 is
  the other way: a byte whose trigger was missed gets no `sendDone`, the bytes after it
  wait, and a writer on a full ring spins (ps2.c:18) until something else
  interrupts. `StrandedOnlyIfSwallowed` and `WriterProceeds` show that there is no third
  way.
- A read past the end of a file returns the whole count (syscalls.c:289), with bytes
  from wherever the links past the end of the chain lead; nothing in `RARead` or `read`
  knows how long a file is.
- In the player, samples are taken with finetune and volume as they are, as its comments
  admit (replay.c:890-891), and number 32 is obeyed of a table of 31 (replay.c:879). A
  volume above 64 then stays until a command clamps it, and a finetune above 15
  takes its periods from behind the table.
- Loop counts of the player outlive their pattern. Two voices that end loops in one
  row with counts out of step, because a loop was broken off in an earlier
  pattern or their counts differ, send each other back for ever; so do two ends of
  loops of one voice in one pattern. `SongGoesOn` holds of songs without these
  (`LoopsClearly`).
- `close` does not give the slot of the table back, and `open` keeps it on
  failure, so after seven opens no file can be opened. `RASeek` passes bytes where
  `FileSeek` counts sectors; in `Files`, seeks beyond the first sector make a file
  stray. `FileSeek` knows one end mark of a chain, 0xFFFF, of the eight that FAT
  has (fat.c:1131).
- `FileCreate` and `UpdateEntry` take a nonzero result of `sd_write_sector` for
  success; it returns zero on success. A creation that works as it says is one in
  which every write was refused; with a card that works it stops after the first
  write, with a cluster marked in one copy of the FAT and no entry.
- `UpdateEntry` adds `cluster_size - 1`, which are sectors, to a number of bytes before
  it divides: it accepts a size one byte beyond a cluster boundary and refuses
  others that its comment (fat.c:1363) allows.
- A high-capacity card whose last answer of the initialisation is lost is asked
  again, never again answers "idle", and is taken for an old card. With a
  partition table nothing is found on it; without one, block 0 is the same in
  either addressing, and it is mounted. `CardRight` shows that only such an answer
  does this.
- The comparison of `ScanDirectory` uses the long name before its checksum has been
  compared, while the entry is stored after (fat.c:628 and 636); and `tolower` as
  `x|32` makes a blank of the end of a string, so that "foo" and "foo bar" compare
  as equal. The stated limits of `DirScan` keep clear of both.
- The table of periods ends with zeros "to prevent out-of-boundary reading when
  doing arpeggio with high notes on finetune +7" (replay.c:152). Note 113 of a sample
  with finetune 15, raised by one and followed by the arpeggio 0F0, reads index 606 of
  606 entries; only the hardware register gets the value.
- A row that delays and breaks skips one row more than one that only breaks, as
  the player goes on to the next row after the one it was sent to.
- In the TFT program (main.cpp:48), the flag that a transfer is under way is set
  after it is started; the interrupt of a short transfer comes before and the next
  wait does not end.
- In `keyboard.c`, a printable key leaves `HandlePS2RawCodes` before the LEDs are
  brought up to date; the device's acknowledge 0xFA is decoded as a key code; and a
  code of 128 or more after 0xE0 indexes beyond the table of keys.

## 5. What is proved

TLAPS checks these for every value of the constants that satisfies the named
assumptions (`XAssumption`), which say no more than that sizes are numbers of a
sensible range and that what is given (a song, a volume, a workload) is well formed.
Each module has an inductive invariant: it holds initially, each step keeps it
(a lemma for each action), and the properties of the runs follow. TLC
checked every invariant on the instance of its run before it was proved.

**`Controllers_proofs`, interrupts**, for any set of trigger lines. The
inductive invariant `IInv` (module `InterruptController`) adds two facts to the
invariants of the runs: the redundant top bit of `pending` tells the truth
(without it the promotion could be skipped while something waits), and, when
reads come from handlers only, a CPU about to read has a request that was not
yet acknowledged (without it the read could acknowledge what it has not seen).
`ControllerStep` reduces an edge to what it does to the pair of raised and
waiting bits, and each kind of CPU step has its step in `NextIInv`. From `IInv`
(`Invariance`) follow `TypeCorrect`, `TriggersKept` (assuming `~PolledReads`),
`RequestsExplained` and `LatchRefinement`: every edge maps to a step of the
latch or to a stutter.

**`Controllers_proofs`, PS/2 driver**, for any width of a byte, any set of
bytes, any filter and any number of frames. The two ends share no state but the
wires, and each acts on levels that the other set some cycles ago. `ComInv`
therefore says, for each state of the driver, what it drives and which level it
may already have seen (`Wires`: the filter is late but never wrong), what the
device drives (`DeviceRight`), and which bit of which frame each of them is at
(`InTurn`: the one that has moved waits for the other). Given that, the bits
that the device has sampled (`Sending`) and those in the shift register
(`Receiving`) are the first bits of the frame, with the parity so far. That no
frame is dropped is in the account of the device: what it has completed is what
was handed over, with at most the one that is just being handed over.
`ReceivedAlwaysSent` (`ReceivesWhatWasSent`, the receiving half of `BytesCross`)
holds whenever the CPU writes. `BytesAlwaysCross`, `HandshakeAlways` and
`AlignedTriggersTaken` have the hypothesis `AlignedTriggers`, without which a
request can be lost (disagreement 1); it is what makes `Requests` part of the
invariant: of what was requested, only the last can still be on its way.

**`PS2System_proofs`**, for any ring of more than one entry, any interrupts and
any numbers of events. `RingsRight` says that what is written comes out in
order, but for the bytes whose trigger the driver missed, and its history
variables alone do not give that. `RingsInv` numbers the bytes on their whole
way: what the device has, what the handler carries in its registers, each entry
of the ring, what the main program carries (`OutputRight`, `InputRight`). That
the handler and the writer do not spoil each other's indices needs `Masked`:
where interrupts are off, and that a writer that has seen room still has it, as
handlers only make more. `WakeInv` adds `AnsweredLater`: an event behind a
register that the running handler has already read makes a request that outlives
the handler's acknowledge, or the device is `late`; and `LateRight`: only in a
handler called by the writer can a request be late, as any other has the request
it was started by to acknowledge. From these follow `RingsAlwaysRight` and
`WakeUpsLostTwoWays`.

**`Malloc_proofs`**, for any size of a header, any regions that are disjoint and made of
whole headers, and any requests below the wrap. That a list is whole is a statement
about where walks end, which no step can be shown to keep. `Chain` says it node by
node: every node has a rank, the link from a node leads to the one of the next rank
above, and the link back undoes it. For the main list the rank is the address, which
is also why it is sorted; for the free chain, which has no order, the invariant says
only that some bounded ranks exist, and each step shows new ones (`ChainInsert`,
`ChainRemove`, `ChainReplace`, `ChainRerank`). `Tiled` says that blocks cover the pool
in the order of their addresses, `Owned` that nothing else points anywhere, `Apart` that
free blocks do not touch. `Shape` is all of these but for the marks FREE and USED, so
that the heap can be spoken of between the assignments of one call, when a block
that is being freed or added has a mark and no place in the free chain yet, or the
reverse; there is a lemma for what each list operation does to it (`SplitShape`,
`TakenShape`, `FreedShape`, `AbsorbedShape`, `JoinedShape`, `InsertedShape`), and
`FreeBlockRight` composes them over the four ways a free can go. `WalkGoes` turns ranks
into the existence of the walks, from which `FirstFitFinds` and `PredecessorFinds` say
what the two searches return. `MallocInv` is `Shape`, the marks, `Apart`, and that the
program holds different used blocks (`MallocInvariance`). From it follow `AlwaysTiled`;
`ListsAlwaysRight`, by counting the nodes of the tour from the head (`TourVisits`); and
`AllocatorImplemented`, where the hard step is the refusal: as free blocks never touch,
a run of free memory lies in one of them (`RefusalRight`), so if none is long enough
nothing fits. `BlockSizes` is where requests must be below the wrap.

**`DMACache_proofs`**, for any set of channels, any burst of even length, any
FIFO longer than a burst and a whole number of bursts, any behaviour of hosts
and SDRAM. That FIFOs do not overflow is not inductive: the burst is started on
the counter, which lags behind. `CounterRight` says by how much: it is one more
than the words held, but for a fill and a drain under way. `Room` says that a
burst that was started has room for its rest, and `DrainOnce` that a drain is
not followed by another at once, so the counter does not pass below zero. The
lemmas treat a channel that keeps its address and one that is given a new one.
From it follow `TypeCorrect` and `FIFOsNeverOverflow`. `OrderInv` follows a word
on: input process and controller agree on whether a burst is under way
(`InStep`), bursts begin at multiples of a burst in memory and in the FIFO
(`InputAligned`), the word received last is in the write registers and every
other one that has not been overwritten in its slot (`Writing`, `WordsPlaced`),
and the read pointer is on the next word (`OutputAligned`). That gives
`WordsInOrder`. `EnoughWordsFetched` adds the balance of words received, on
their way and still to ask for (`Covered`). It has no hypothesis on the hosts,
who may set addresses and lengths together or apart, and again at any time.
`AddressOffset` says that the alignment test always sees the offset of the
address set last, since the address register moves by whole bursts; what it does
not see, half a burst (disagreement 2) or an address of the same cycle, is
`Missing`, so that the theorem says how many words such a stream may lack: as
many as its first burst holds before it.

**`SdramCached_proofs`**, for any rows, banks and workloads and any behaviour of
video. That slots keep apart follows from the decisions alone; that the chip is
never given a forbidden command needs to know which rows are open, which is
`RowsOwned`: a row is open exactly while a slot is between its ACTIVE command
and the precharge or the end of its burst (`HasRow`). An open row in the bank of
a new slot would then be held by the other slot, which `SlotsApart` excludes,
and a refresh is decided only with slot 2 idle and slot 1 between accesses.
`Ranges` adds the ranges of the phase and the slots. The step is proved for the
edge as a whole, one lemma per part of the invariant. From it follow
`SlotsKeepApart`, `RowsAreOwned` and `ChipIsObeyed`. `CacheCoherent` speaks of
the cycles in which a request is looked up; `CoherenceInv` of every cycle. Which
words of the cache may differ from memory is `Unsettled`: the one being written,
and those of a line still to be filled; all others are the words of memory
overlaid with the write buffer (`SettledRight`). For the unsettled ones it says
what their data ports hold (`WriteRight`, `FillRight`), which ties the cache's
fill, beat by beat, to the burst of the slot that reads for it, and the buffer's
write to the slot that writes it (`SlotsRight`); `Handshake` says what of the
request is still on the bus, and `TagsRight` that both ways of a line are
written only where they may be. From it follow `TypesHold`,
`CoherenceInvariance` and `CacheStaysCoherent`, and `MemoryImplemented`: every
edge is an `Ask`, an `Answer` or a `Forget` of `Memory`, or a stutter.

**`Replay_proofs`**, for any song, with any bytes in its sample table, any
number of rows and positions, any table of periods and any numbers in the memory
behind it. `VoicesInRangeAlways` claims of a volume that it is at most 64 or at
most that of some sample, and of periods and finetunes something only for songs
whose finetunes are below 16 (`InTune`), which a lemma carries from step to
step, as the song never changes. `SettledAlways` and `VoicesInRangeAlways` are
stated of the state between interrupts; inside one, after some voices have been
played and not all, neither holds. `Playing` is what holds there: the record is
in `Midst`, and a row to go on at has been named only together with a loop, a
break or a jump. Each command has a lemma that it keeps `Midst`, or `Playing`
and the position; the lemma on `dskip` says that it takes any record of
`Playing` to a settled one; and four voices one after another compose.
`RowsKeepTimeAlways` needs how long a row has left: `InTime` says that it is the
speed less the counter, and a speed for each row of delay.
`SongOrderImplemented` is the refinement of `SongOrder`: `Orderly` says that the
voices hold the commands of the row that was fetched last, that a row is delayed
only if it says so, and that the player stands where the song goes on. Most
interrupts are stutters; the lemmas on the first interrupt of a row compose the
loops, breaks and jumps of four voices into the one place that `SongOrder`
names.

**`Files_proofs`**, for any table, directory and FAT, any sizes of sector and
cluster, any sectors failing in any call, any sizes of the files within their
chains. `FileSeek` and `RARead` are loops, written as recursive functions; what
each leaves is proved for any number of turns (`SeekIs`, `RAReadIs`), with the
least turn for which it would not hold (`Induct`, from the library's `WFMin`).
`FilesInv` says that every file that has not strayed is on the cluster and in
the sector of its position (`InPlace`), which only stays true because the
descriptors in use have distinct memory (or one file would move another),
because the FAT buffer is the sector of its index (or a link would be
another's), and because a slot is never opened again (or the last read would be
spoken of under another file). The proof needs `NULL` to be no object: a slot
that holds NULL is free, and no file can be there. The walk along a chain is
followed past the end of the file too, as far as `LinkOf` goes, because a file
may come back from there; `PositionsAlwaysRight` and `ReadsAlwaysRight` speak of
what lies within the file only. They and `TableAlwaysRight` follow.

**`Storage_proofs`**, for any numbers of tries, rounds and polls, any block size, any
start of a partition, any volume and any bounds. That a card is rightly addressed is known at
the end and is not inductive. `CardInv` adds, for each command that may be sent
next, what driver and card know of each other (`Known`: the flag is set until
is_sdhc has decided; a card is not ready when its initialisation begins; a card
that is ready while it is being polled has had an answer lost), that the counters of
the loops are not zero (`Counted`), and that as long as nothing was lost the polls
that a busy card still needs are fewer than those that the two nested loops have left
(`InTime`), a number that goes down by one with every poll, also from one round to
the next (`RoundKeeps`, `PollKeeps`). `WrongAddress` shows that a partition, which
begins after block 0, is not found with the wrong addressing, since no block
number but zero is its own product with, or quotient by, the size of a block. From it follow
`CardInvariant` and `CardAlwaysRight`.
For the volume, `FatInv` says what the one FAT buffer is worth: whichever call loaded or
changed it, it is the sector of its index but for free clusters marked as ends of a
chain (`BufferRight`), and so are the copies of the FAT among themselves
(`CopiesRight`). A creation that writes the buffer back, in whatever copies it
reaches, therefore changes no link of a chain. The searches are loops over sectors,
of which `SearchedIs` and `FindFreeIs` say what they leave, the second that a free
cluster was found in the sector that the index names. `StorageInv` is
both, through mounting, browsing, changing and restarts (`StorageInvariance`), and
gives `VolumeAlwaysKept` and `CardStaysRight`. `VolumesAssumption` says only that what is
on the card at first is a FAT and a directory.

For `ScanDirectory`, `WindowInv` says that whenever there are rows they are, by
`sort_table`, rows p, p+1, ... of the sorted list for some p, and the selected row is one of
them. It is inductive, and all the work is in what one call does, which is a scan of the
whole directory. Three facts are put together, for a directory and a table of any size.

- *The list.* `CompareDirEntries` is a strict total order on the rows (`BelowTotal`),
  so the sorted list, which is defined by counting the rows below, enumerates them in order
  (`RanksEnumerate`, `SortedIs`).
- *The long names.* `LfnRight` says after every slot what the buffer, the number and the
  checksum are worth: inside a name, the parts put together so far; elsewhere nothing
  that an entry would take for its name. So each entry is taken with the long name
  that the directory gives it (`LfnStep`), parts left over or not.
- *The scans.* If what a scan has found after the rows of a set V stays right
  when one more row is taken (`ScanKeeps`), it is right for all rows at the end
  (`ScannedIn`). "Right" is, by mode, that the rows kept are the first ones of those to be kept
  (`FirstOf`: sorted, of the set, and no other one of the set below them once the
  table is full), or the nearest neighbour so far (`NextFound`, `PrevFound`). Of a set that
  is the end of the list, the first rows are consecutive (`FirstAfter`,
  `FirstBefore`), and what a search wants is such a set (`WantsUp`, `UpFrom`).

Then one lemma per mode says which window its scan ends with (`InitScan` to
`InitFirstScan`), for the pages after the exchanges of indices (`ShiftUpIs`,
`ShiftDownIs`, `CopyTempIs`), and one per call that it is a step of `Listing`. Induction over
the slots is by the least slot after which the claim fails (`LeastOf`), so that no
induction theorem is needed. From it follow `WindowInvariance` and
`ListingImplemented`; the only assumption besides `DirectoriesAssumption` is a table
of two rows or more and letters that are numbers.

**Only model-checked**: liveness, which is out of the prover's reach.

## 6. Not modelled

The processor is external: it executes the program and takes an interrupt
between two instructions. Reset is the initial state only. Metastability, signal
timing and everything analog are not modelled, nor is the formatting of output.

Most of the lines of the repository are outside whatever is modelled: some 33
thousand of the 48 thousand are the vendored JPEG-6b, and much of the rest is
generated ROM images, board files and demo programs.

Of the project's own code these are left out: the sound channels, the video raster
and the TFT transfer, which are hosts of the DMA cache and are modelled there as
hosts that do anything; the timer, the SPI shifter and the UART; the keyboard decoder;
the S-record decoders; FAT32 and directories that are cluster chains, in the
functions of `DirScan` and `FatWrite`; `FileWrite`, which overwrites one sector
of data; the variants of the SDRAM controller without cache. `PROJECT.json` says
of each component what is missing.

## 7. Plan

Done, in this order, the most shared parts first: interrupts, PS/2 driver, PS/2
system, DMA cache, allocator, files, SDRAM with its cache, module player, storage
stack. What would come next:

1. Cluster chains and FAT32 in `DirScan` and `FatWrite`, with the FAT buffer shared
   between a directory that is browsed and a file that is created.
2. `SoundChannel` as a host of `DMACache`; `TFTTransfer`: DMA, SPI shifter,
   interrupt, drawing flag of `main.cpp`.
3. `Srec`: the decoder that both boot loaders use, against a reference decoding
   of a record. `Keyboard` over the ring of `PS2System`.
4. `sdram_simple` and the variant of `sdram_cached` without cache, over `Memory`;
   the DMA cache as the video port of `SdramCached`.

Hazards that these modules are for and that `PROJECT.json` does not list: a
refused read that leaves the card selected (`spi.c:375`); the end-of-transfer
interrupt that is raised when the words have been fetched and not when they have
been sent (`TFTTest_Virtual_Toplevel.vhd:524`); a sample that arrives after the next
tick (`sound_controller.vhd:86`); `TestKey`, which enables interrupts whatever they
were (`keyboard.c:152`); a lost character in a record (`rs232boot.c:64`); the drawing
flag that is set after the transfer it stands for has started (`main.cpp:49`).

A proof that is left: that what `PS2System` assumes of its driver is what
`Controllers_proofs` proves of it.
