# TLA+ models of the A1000 bare-metal verification firmware

The repository is a bare-metal test firmware for one SoC.  It is built three
times, for the eight A55 cores, for the R5 safety island and for the R5 secure
island; each image initialises its hardware, then reads commands from a serial
line (`cli_loop`) and runs the test the user names.  There is no operating
system: a command runs to its end on the main thread, and interrupt handlers
run between two of its instructions.

What carries logic of its own is, first, the GDMA driver, which keeps eight DMA
channels supplied from an interrupt handler, and the SoC performance test,
which loads the interconnect with these channels and samples bandwidth counters
at the same time.  Then come the parts where software meets something that may
fail to answer: the polled I2C master, the Xmodem receiver, the line editor, and
the exception entries of the R5 safety island.

## Inventory

| Part | Source | State | Operations | What is hard |
|---|---|---|---|---|
| GDMA linked-list driver | `module/gdma/dmac_llp.c`, `dmac.c`, `cmd/dmac.c` | per channel: two descriptors, what each is to carry, its status, which is next; finished flags; channel ids | `dma_init`, `dmac_start`, `dmac_run`, `dmac_ll_memcpy`, flag test and clear, handler `irq_dma_chx` | the engine runs during the handler; events are cleared unread; the controller is reset under a transfer |
| Performance test, traffic | `cmd/soc_perf.c` | finished flags, the test's clock | start, restart of all channels, leave | flags raised while they are counted and cleared; a second test after the first |
| Performance test, sampling | `cmd/soc_perf.c`, `module/soc_perf/soc_perf_test.c` | configuration, ring of samples, the two trigger bits of the counters | configuration commands, sample, clear, print | what is printed together was not measured together |
| Command line: history | `common/cli_readline.c` | ring of lines, place of the next, highest in use, place reached | enter, previous, next, ^C | a ring that is not yet full, full, and wrapped; state left by ^C |
| Command line: editor | `common/cli_readline.c` | buffer, cursor, length, mode, escape sequence so far | one per key | off-by-one at the end of the buffer, broken escape sequences, bytes of earlier lines |
| Command loop and parser | `common/cli_simple.c`, `common/command.c` | last command, return codes | read, repeat, break, cut, expand, call | which line an empty one repeats; two passes that must agree on escapes |
| Xmodem receiver | `arch/r5_secure/kernel/Xmodem.c` | packet number, retry counts, length | receive | lost bytes, duplicates, wrap of the packet number |
| Line synchronisation | `lib/uart_sync.c` | none | write and read a four-byte sum | a lost byte shifts all groups after it |
| I2C master, polled | `module/i2c/i2c-noirq.c` | FIFO, time-outs | transfer messages | time-outs, what an early return leaves |
| A55 interrupts | `arch/a55/kernel/interrupt.c` | handler table | register, mask, dispatch | unmasked before registered, EOI before the handler |
| R5 safety island | `init/main_r5_safety.c`, `arch/r5_safety/kernel` | handler tables, preemption flag, abort retry count | IRQ and FIQ entry, data abort | FIQ in IRQ, unsigned retry count |
| R5 secure island, IPC | `init/main_r5_secure.c`, `arch/r5_secure/kernel`, `module/ipc/ipc.c` | watchdog kicks, event and semaphore registers | events, semaphores, watchdog | three processors that take each other's semaphores |
| SMP start | `init/main_a55.c` | a baton that passes from core to core | one poll loop per core | no atomicity |
| Register tests | `module/{uart,qspi,gpio,pwm,wdt,...}` | a flag per test | program, wait, print | they wait for a device without limit |
| DDR set-up, caches, library | `module/ddr`, `arch/a55/kernel/cache.c`, `lib` | none | generated register sequences, formatting | little |

How they interact: the performance test calls the driver (`dma_init`,
`dma_run`, the flag functions); the driver and its handler share the descriptors
and flags with the main thread, and the descriptors and status registers with
the engine; the test and the sampling share one loop in `soc_perf_start_test`.
The processors of the SoC share only registers of `module/ipc`.

What makes each modelled part correct is stated with it below.  The hazards,
each at its line and with the properties that watch it, are listed in
`PROJECT.json`.

## Modules

| Module | What it is |
|---|---|
| `DmaCopy` | what a client of a channel is promised: accepted when idle, moved in whole blocks and one shorter one, reported when all is moved |
| `DmaLlp` | the driver, the handler and the engine, one action per entry point, exit of the handler and step of the engine |
| `DmaLlpProofs` | its theorems |
| `PerfRounds` | the performance test's rounds; extends `DmaLlp` and calls its actions |
| `PerfRoundsProofs` | its theorems, with those of the driver carried over |
| `PerfSampler` | configuration, sampling and sample buffers of the performance test |
| `PerfSamplerProofs` | its theorems |
| `RecentLines`, `LineHistory` | the promise of the command line's history, the ring |
| `CommandLoop` | the command loop, the parser and the command table over `LineHistory`, whose actions it calls |
| `CommandLoopProofs` | the theorems of the history and of the loop |
| `LineText`, `LineEdit`, `LineEditProofs` | the promise of the line editor, the editor on its buffer, its theorems |
| `I2cPolled`, `I2cProofs` | the polled I2C master with the bus controller and a slave; its theorems |
| `XmodemCopy` | what the receiver's caller is promised: the buffer is a growing beginning of the file |
| `XmodemReceive`, `XmodemProofs` | the receiver, a line that loses and damages, a sender that repeats; its theorems |
| `R5Safety`, `R5SafetyProofs` | IRQ, FIQ and data abort entries with the interrupt controller; its theorems |
| `MCDmaLlp`, `MCPerfRounds`, `MCPerfSampler`, `MCCommandLoop`, `MCLineEdit`, `MCI2cPolled`, `MCXmodemReceive`, `MCR5Safety` | values of the constants for TLC |

`PerfRounds` and `PerfSampler` model two halves of one loop.  They share no
state but the end of the test, which either may meet at any poll, so they are
composed with different things and checked apart.

### DmaLlp and the code

`stat`, `todo`, `lli` and `cur` are `lli_cpy.status`, `lli_cpy.src/dst/length`,
the descriptor memory and `lli_list[c]`; `finished` is `bDma_finished`, `chid`
the id `dmac_hw_init` writes into `dmac.cha`.  Addresses are offsets from the
start of a transfer in words; `src` and `dst` always advance together.

A length of zero is skipped by `dmac_run` and taken by `dmac_start`, whose `len - 1` then
wraps to the largest block (`Beats`).  No document says what it should do; `DmaCopy`
says what it does (`Due`): it moves one whole block and is reported like one.  `want`
is what an accepted call is going to move.

* `Start`, `RunBegin` and `RunStep`, `HwInit` and `HwInitTimeout`, and
  `FlagClear` are the entry points.  `Memcpy` is `dmac_ll_memcpy` with its
  early return (`Refuse`).  They are steps of the main thread and need
  `MainRuns`: on one CPU a handler that was entered runs to its end first.
  `dmac_run` is a step per channel, since handlers run between them.
* `IsrEnter` closes the interrupts and reads the status once.  `IsrDone`,
  `IsrError`, `IsrRefill` and `IsrNothing` are the handler's branches in the
  order in which the code tests them, each with the clear of all enabled
  bits with which it ends; `IsrExit` is the end of the loop on the channel's
  enable bit.
* `EngineFetch`, `EngineCopy`, `EngineEnd`, `EngineError` and `EngineStop` are
  the DMA engine, which is not in the repository.  What the code relies on is
  kept: it stops with an event on a descriptor that is not valid, goes on at the
  resume request, posts the end of a block before the end of the transfer, and
  clears the channel's enable bit by itself.  An engine step may fall between
  any two steps of the software.

Three constants choose the surroundings.  `PromptEngine` says that the event
that follows a block is posted before a handler gets to read the status;
without it the handler may read in between, and the clear may lose an event.
`BusErrors` allows decode errors, `ReinitBusy` a `dma_init` under a transfer.

### PerfRounds and the code

`pc` is where `soc_perf_start_test` stands.  `Enable` is `soc_perf_enable`,
`RunAll` and `RunOne` the call of `dma_run`, `RoundOver`, `ClearFlag` and
`ClearEnd` the function `soc_perf_transfer_ctrl`, whose counting of the flags is
one step: only the main thread lowers a flag, so a count that reaches all
channels is the count of the last moment too.  `Background` is what goes on
beside the main thread: handlers, the engines and bus errors.  The history
variable `faulty` remembers that a bus error or a failed reset occurred, after
which `RoundsRecur` promises nothing.

### PerfSampler and the code

A row of the sample buffers is kept as the number of the sample that wrote each
cell and, for the counters of the DDR monitors, the group they were counted
under: this is what tells a right line of output from a wrong one.  `SetGroup` is
`set_ddr_grp`, which tests an `int` and stores a `u64`: a group above 11 is refused, a
negative one is stored as a huge number (`AsU64`), with which `check_all_config`
(`ConfigValid`) lets no test start.  `ctl` holds
the two bits of the monitors' control register whose rising edge takes over and
clears the counters.  `Update`, `Save`, `ClearCounter` and `Reselect` are the four
calls of the sampling branch in their order.  The time between two samples is
left open: a sample may be taken at any poll.  Every configuration command may be
given between any two tests, `clear_data` or not; `grpSince` and `portSince` are history
variables and say since which sample the choice has stood.

### LineHistory, LineEdit and the code

`max`, `add` and `cur` are `hist_max`, `hist_add_idx` and `hist_cur`.  `Enter`
is the end of `cread_line` with `cread_add_to_hist`, `EnterOther` the same for a
line that is empty or begins with `!`, `Up` and `Down` are `hist_prev` and
`hist_next`.  A walk that only beeps is a stuttering step.

`LineEdit` has an action for the beginning and the end of a call of `cread_line`
and for each way a character can be taken: as text, as a key, or as a part of an
escape sequence that goes on, is complete, or is broken off (then all of it
becomes text, character by character).  Text is abstracted to one letter, the
characters that also occur in escape sequences, and one that stands for any
control character.  `Recall` may put any line of the history into the buffer, for
`LineHistory` shows which one.  What a completion adds is any of a few strings
that fit (`Completed`, the action `Complete` of `LineText`); which one it is, is up to the
command table.

### CommandLoop and the code

`pc` says whether `cli_simple_loop` waits for a line or `cli_simple_run_command`
works on one: `Scan` is its search for a separator with the expansion and the
words of what is cut off, `Process` is `cmd_process`, `Done` the return with
`lastcommand` kept or forgotten.  `Typed`, `Again` and `Interrupted` are a line, an empty
line and ^C; they call the actions of `LineHistory`, so that what is repeated can be compared
with what the history shows.  Lines are sequences of characters here, since
`Cut` (the separators), `Macros` (quotes, escapes and variables, none of which has a
value) and `Words` are conversions that properties are about.  `Expand` is one turn of
`cli_simple_process_macros`, for one character, and `Macros` the loop.  `Words` gives the first words by
where each begins and ends, where the code walks along the line.  A command is what
its table entry says of it, and may fail.  A tab is a blank.

The search for quotes looks at the character before each, at the first one of a
line at the byte before the buffer, which `before` leaves open; the
expansion starts with a NUL in its place.  A line that begins with a quote may so
be cut differently by the two.  Words beyond CONFIG_SYS_MAXARGS are dropped with a
message and the command is called with the first ones.  `Understood` speaks of
lines in which every separator, quote and dollar is escaped; a backslash cannot
be written before another escape, for both passes see only one character back, and a
blank ends a word even after a backslash.  So the words that can be meant (`Command`) hold
neither, and there are at most CONFIG_SYS_MAXARGS of them in a command.

### I2cPolled and the code

`pc` is where the driver stands, `left` the one of `time_bb`, `start_time_rx`,
`start_time_tx`, `start_stop` and `timeout` that is being counted, `alen` and `len`
what is still to be pushed or moved, `active` the local of the same name.  A
register access is a step, so that the controller may act between any two.

* `Read`, `Write`, `Probe` and `SetSpeed` are the calls.  `Disown` only keeps the
  history: what is still in the FIFOs now belongs to a call before.
* `WaitActive` and `WaitEmpty` are the two reads of `i2c_wait_for_bb`; `Disable`,
  `Disabled` and `Enable` are `dw_i2c_enable` with its hundred polls, in
  `i2c_setaddress`, `__dw_i2c_init` and the change of speed; `Address` is
  `i2c_xfer_init`; `ReadAsk` and `ReadPoll` are the two halves of the loop in
  `__dw_i2c_read`, `WriteByte` that of `__dw_i2c_write`; `Finish`, `WaitStop` and
  `Flush` are `i2c_xfer_finish`.  `Fail` is every return of an error, after which a
  probe initialises the controller anew.
* `Begin`, `Take`, `Answer`, `Refuse`, `GiveBus` and `Stop` are the controller and
  the slave, which are not in the repository: START on a free bus, one
  command after the other, a refusal that holds the transmit FIFO empty, the
  dropping of both FIFOs when the controller is disabled, and a STOP after the
  command that asks for it.  A slave that holds the clock is a controller that
  takes no step.

`Interrupted` says whether a handler may run between the two reads of
`i2c_wait_for_bb` for so long that a whole address is sent meanwhile.  Then a
transfer that begins passes for none: TLC finds `OwnBytes`,
`OneCallPerTransfer` and `CleanSuccess` violated.  The run and the theorems are
about the case that it may not, which is how the commands use the driver.

### XmodemReceive and the code

`packetno`, `retry`, `retrans` and `trychar` are the variables of
`xmodemReceive`; `count` and `dest` are `len` and the buffer, in bytes.  A packet has
128 or 1024 of them; `Upto` says how many of the file's there are up to each packet, and
`Store` keeps the part for which there is room.  The first NAK stands on the line when the call
begins.  Each
action of the receiver is one way through the outer loop: no header
(`HeaderTimeout`, `Junk`), `EndOfFile`, `Cancelled`, `CancelAlone`, and the end of a
packet (`Accept`, `Duplicate`, `Reject`, `FalseStart`), with all it sends.
`port_inbyte` returns a variable it has not set when its time runs out, so what
`Cancelled` sees after a lone CAN may be a second one.  `flushinput` does nothing, so
a packet that has lost its first byte is read on as header bytes: `Break` puts
one of a few byte sequences in its place, which may begin, end or cancel
something.  `check` is a sum of eight bits: `Damage` is what it shows, `Disguise` puts
other data with the same sum in the place of the file's, which are then stored like
them, and `passed` counts how often.

The sender and the line are external.  Answers carry no number, so the sender
takes any ACK for one of its last packet; the field `last` and the history
variable `crossed` remember when that was wrong.  `LoseItem`, `LoseAnswer`,
`Damage`, `Disguise` and `Unframe` are what the line does.

### R5Safety and the code

`stack` holds the exceptions that are open, the newest first, each with its place
in `irq_enter`, `fiq_enter` or `dabort_main`; `irqFlag`, `sLstLr` and `sRtyCnt`
are the variables of `init/main_r5_safety.c`.  Every access to one of them is a
step, since an FIQ, or a data abort within it, may fall between any two.  An
access to memory is known by its place in the program, which is what `lr` shows;
the main thread and both kinds of handlers make accesses that may abort.
Whether one does is left open: errors are injected by commands, may persist,
and may be repaired by the abort's own callback.

`line` and `active` are the interrupt controller as `isr_init` sets it up:
safety interrupts are FIQs and come before every IRQ, an interrupt that was
acknowledged stays active until it is ended, and an acknowledge that finds
nothing returns a number that ends nothing.  (The priorities the code gives are
0x10 or 0x80 for FIQs and 0x80 or more for IRQs, which leaves a tie the model
resolves in favour of the FIQ.)  The vectors are assembler outside the
repository, so whether `sp + 13` holds the `lr` of an abort is left open: `Found` are
the places for which it does.  At any other `dabort_main` only prints what it has
found instead, and the access is made again; `AccessEnds` is about the places in `Found`, everything
else about all.  `tries`,
`fresh` and `nothing` are history variables.  `Wrap` stands for 2^32: a place
that was given up before and aborts again wraps the count, so that some four
thousand million tries precede the next surrender, and `AccessEnds` says no more
than that it comes.

## Runs

| Run | Question | Bounds |
|---|---|---|
| `dma_driver` | is every block the next one of its transfer; is what is reported finished whole; is a free channel off and quiet; is a descriptor left alone while it is read; is `DmaCopy` implemented | 2 channels, blocks of 2, transfers of 5 words (three blocks), not prompt, bus errors, `dma_init` at any time |
| `dma_live` | is there always something that will bring a busy channel's handler; does every transfer and every handler end | 2 channels, transfers of exactly three blocks and of the length zero, prompt engine, no bus errors |
| `dma_chkseq` | does the copy pass the command's own check (it does not) | 1 channel, blocks of 1 |
| `dma_race` | is an ended transfer always reported (it is not) | 1 channel, engine not prompt |
| `perf_rounds` | is a round over only when all is moved; is every restart accepted; are the channels restarted again and again | 2 channels, 2 blocks, one test, prompt engine, bus errors, failing reset |
| `perf_second_test` | are they also in a second test (they are not) | 2 channels, two tests |
| `perf_rows` | are samples triggered, kept in order and shown with what belongs to them, whatever is configured between tests | 3 rows, 7 samples, groups 0, 5, one refused and one negative, 1 106 000 states |
| `command_loop` | does a walk show the last lines in order, does an empty line repeat the newest and only if it may be, is an escaped line executed as meant | ring of 4, buffer of 10, 6 lines, 163 440 states |
| `line_edit` | is the buffer always what a plain editor would show | 3 characters and the terminator, 6 letters |
| `i2c_polled` | does a read store only bytes it asked for; are the commands of two calls kept apart on the bus; does success leave nothing behind; does every call return, and a failed probe free the bus | FIFOs of 2, counts of 2, lengths 0, 1 and 3, address of 0 or 1 byte |
| `xmodem` | is `XmodemCopy` implemented whatever the line does; is a returned length that of the whole file; does the call return | 7 packets of one or two bytes, room for 6 of 10, which ends within the fifth packet, numbers modulo 6, 2 tries, 2 duplicates, 3 items on the line, 2 packets broken or, one of them, damaged unseen, 611 679 states |
| `r5_safety` | does the controller hold active what the stack is going to end; is a pre-emption reported when it is one; is an access tried three times; does it end | 1 IRQ, 2 FIQs of which one has no handler, 1 access each of IRQ and FIQ and 2 of the main thread, two of the four not found, counts modulo 4, 119 536 states |

Why the bounds suffice.  Channels interact only through the one handler, the
interrupt enable and the main thread's loops, so two show every interaction; and
two descriptors are used in turn, so three blocks go once round.  Two full blocks
and a short one make a first, a middle and a last block; the block boundary, a
last block that is exactly full, and the length of zero are in `dma_live`.  The safety
properties for these lengths are proved, as for every other.  Seven samples wrap three rows twice.  A ring of
four lines is empty, partly filled, full and wrapped, with two places between
its ends.  The lines of `command_loop` are one command, a list whose second command
may not be repeated, one with too many words, one that begins with a quote, one
that fills the buffer, and one that the history leaves out; and `Understood` is
evaluated for all lists of two commands of two words of two characters that fit.
Three characters leave one on each side of the cursor and are fewer
than a broken escape sequence has, so that it runs into the end of the buffer.

A transfer of three bytes overruns a FIFO of two, and two polls are fewer than a
byte may take, so that every time-out runs out both before and after the answer.
Seven packets wrap numbers modulo six and overrun a buffer of six bytes, the room ending
in the middle of one; a packet of number 0 is expected on the way.  `LineMax` is at most half of `Numbers` on purpose
(`WindowAssumption`): the answers under way may take the sender up to nearly two lines
past the receiver, and an old packet could then pass for a new one.  The code
has 256 numbers, and between the two ends are only the FIFOs of the UARTs, which hold
less than one packet, or a few tens of answers, where the assumption allows 128.

The two variables of the abort remember one place, so two accesses of the main thread
beside one of each kind of handler show every way to lose it.

State spaces are finite without further bounds but for `MaxSample`, `Tests`,
`LineMax`, `Unseen`, `Passes` and the cap of `tries` at four.  The `dma` and `perf`
runs do not check for deadlock: nothing has to happen while the user enters no
command, a channel whose event was lost stands still, and the sampler's history
ends at `MaxSample`.  Nor does `xmodem`, where the transfer ends.  The others do: a
key can always be typed, a call made, an interrupt raised.

### Fairness

The engine works (`WF` of its steps), a handler that was entered goes on, and
`dmac_run`'s loop and the steps of a test are executed: there is nothing else
for the CPU to do.  An interrupt is taken with strong fairness, because a
handler for one channel closes the interrupts of all while it runs and opens
them again, and the GIC holds the pending level meanwhile.  No fairness makes a
user start a test, end one, or clear a flag, and none makes the bus fail.

The I2C driver polls on (`WF` of its steps); the controller is given none, for a
slave may hold the clock, except as the premise of `Recovers`.  The Xmodem
receiver and sender go on (`WF`), and a packet that is sent again and again at
last arrives whole (`SF` of `Accept` and `Duplicate`); the line has no duty to
lose anything.  The R5 executes at every depth of its stack (`SF` per depth,
because an interrupt may come between any two steps of what it interrupts):
interrupts do not take all the time there is.

## What the violated runs show

* **Gaps in the destination** (`dma_chkseq`).  `src + len` steps a `u64`
  pointer by a count of 4-byte words: after each block the next one starts two
  blocks further on, in source and destination.  `dmac genseq`, `dmac xfer` and
  `dmac chkseq` show it as a sequence error.  The model keeps the step as
  `PtrStep`, and the other properties are stated relative to it.
* **A lost end of transfer** (`dma_race`).  The handler reads the status once
  and clears every enabled bit.  The end of the transfer posted in between is
  never seen, the finished flag never goes up and the channel stays busy.  The
  liveness runs assume the prompt engine for this reason.
* **A second test that moves nothing** (`perf_second_test`): nothing clears the
  flags or the descriptors' status when a test starts, so a test that ended in
  the middle of a round leaves channels the next one cannot start.

## What the conditions of the properties leave out

Some properties hold only with a condition, and what the condition leaves out is
something the code does.  The hazards of `PROJECT.json` that are of this kind name no property
that watches them, or say what of them is watched.

* *Flags of an earlier test.*  `RoundComplete` and `ReadyToRun` are stated for the first
  test since power-on (`Tests <= 1`): flags left by one test are counted in the
  first round of the next, which `soc_perf.c:304` takes for "all channels completed data
  transfer".
* *Stale values and new labels.*  The ring of samples outlives the configuration it was
  measured with.  `RowTogether` bounds this: the monitors' counters always stand beside the
  time of their own sample, a port's value may be older than the stamp beside it when the port
  is no longer measured, but never from before the last `clear_data`, and in what was
  sampled since the port was chosen and measured it is not.  `LabelsTrue` speaks of the samples taken
  since the group was set; older ones are printed under the new group's names.
* *A negative group.*  `set_ddr_grp` answers "success" for 4294967295 and the like
  (`soc_perf.c:335` tests an `int`); the test then refuses to start until a valid group is
  set, and `get_ddr_mdata` finds no names to print (`:642`).
* *The longest line.*  `include/cli.h:70-71` gives CONFIG_SYS_CBSIZE "including a \0
  terminator" as the longest line.  `cread_add_char` refuses a character only when there are that
  many already (`cli_readline.c:208`, with the length of `:517`), so a line may have
  CONFIG_SYS_CBSIZE characters and then the terminator.  `console_buffer` has a place
  more (`:18`), and `TypeOK` of `LineEdit` says that this is enough.
  `cli_simple_run_command` refuses such a line (`cli_simple.c:185`), as `cli.h:28` says; it is
  among the lines of `command_loop`, whose `LoopTypeOK` says that nothing longer
  gets into the parser's buffer.
* *Out of step.*  Refused packets are not counted, and number 255 is not recognised as the
  one before 0: two ends that are out of step (`OutOfStep`) refuse and repeat for
  ever.  `Ends` is about the rest.  `Whole` leaves out an answer taken for a later packet's
  and a packet that lost its first byte; the length may then be of
  a part of the file, and only `Refines` holds.
* *A write that is stuck.*  `start_time_tx` is never lowered: `CallsEnd` leaves out a write that
  finds the FIFO full for ever.
* *An interrupt handler within `i2c_wait_for_bb`* (`Interrupted`, above).
* *A flag left up.*  An IRQ that comes to nothing returns without lowering `irqFlag`: `Preempted`
  allows the false report of the next FIQ (`nothing`).
* *A place given up before.*  `ThreeTries` is about an access whose last abort was at
  another place and into which no other abort falls (`fresh`); `AccessEnds` is about all whose address is found (`Found`).

## Proofs

TLAPS checks, for every number of channels, block size, length set and switch:

* `DmaLlpProofs!TypeCorrect` - the type invariant.
* `DmaLlpProofs!Invariance` - the inductive invariant `IInv`.  That the block
  held by the engine is the due one (`BlockInPlace`) is not inductive: it depends on
  what stands in the descriptor the engine is going to read and on the record from
  which the handler will fill the other one.  `EngineInv` says this for each place
  where the engine can be: it awaits a refill and the record says where the
  transfer stands, or the next descriptor carries the next block and the record
  says what follows it, if something does (`Recorded`; after a length of zero the record
  is wrong and never used).  `EventInv` ties a pending event to the place the engine must
  be in (an invalid descriptor only while it stands, an end only after
  all words), `IsrInv` says that what a handler has read is still pending and its
  channel still busy until it acts, and `StatusInv` carries the conclusions for free
  channels.
* `InPlace`, `Whole` and `Quiet` - `BlockInPlace`, `WholeLength` and `FreeMeansOff` from
  `IInv`.
* `DmaLlpProofs!Implements` - `Spec => Refines`: initial states map to initial
  states, an accepted call to `Submit`, a block to `Move`, the handler's two ends to
  `Complete` and `Fail`, the flag function to `Acknowledge`, and everything else to a
  stutter.  `Undisturbed` is the action property `FetchUndisturbed` from the same
  invariant.
* `DmaLlpProofs!NoneOrphaned` - `NoOrphan`, for a prompt engine and no `dma_init`
  under a transfer.  `Alive` says for each channel what is pending for which
  state of the engine, and `ReadAll` that what a handler has read is all there is:
  with a prompt engine a handler runs only while the engine stands, and so its
  clear can lose nothing.
* `PerfRoundsProofs!Client` - every step of the performance test is a step of
  the driver's specification or leaves the driver alone, so that all of the above
  holds while the test runs.  `RoundsWhole` and `AlwaysReady` (`RoundComplete` and
  `ReadyToRun`) then follow from `IInv` with `Loops`, which says how far each loop over
  the channels has come: while channels are started, those the loop has not
  reached accept a transfer and have their flag down; while flags are cleared, every
  channel has finished one, and those the loop has passed have their flag down.
* `PerfSamplerProofs!TypeCorrect` (no row outside the buffer is written),
  `AlwaysArmed`, `RowsTogether` (`RowTogether`) and `LabelsAreTrue` (`LabelsTrue`), for
  any sequence of commands.  The last two are invariants as they stand but for what is known of the
  numbers in a row (`RowFits`: none is of a sample not yet taken).  `RingInOrder` and
  `LastAreKept` rest on `InTurn`: each row holds the sample of its turn, counted back
  round the ring (`Since`), unless that one was cleared or never taken.
* `I2cProofs!TypeCorrect`, with `Counting` for the one count that stops at zero.
  `OwnBytesOnly`, `NeverMixed` and `SuccessIsClean` follow from `Apart`: everything in
  the controller is of one origin (`OneOrigin`); while a call works it is of this
  call (`Worked`); when `i2c_wait_for_bb` reads the status for the second time the bus is
  free, or there is something left to send and the read sees it (`Quiet`);
  between the disabling and the enabling the bus is free and nothing is left
  (`Fresh`); and success is reported only with the bus free (`Over`).  None of the parts is inductive alone: a read's bytes are
  its own because the transfer before was over and its remains were dropped,
  whichever way that call ended.
* `R5SafetyProofs!TypeCorrect`; `AlwaysReported` (`Preempted`) from the shape of the
  stack (`Shape`: at most one FIQ, an IRQ only at the bottom), what the flag is at each
  place of an IRQ (`Flag`) and what an FIQ has noted (`Reports`); `ActiveIsOpen`
  (`ActiveOnStack`) from `Holds`; and `TriedThrice` (`ThreeTries`) from `Tried`, which
  ties the number of aborts of an access that is fresh to the place remembered and
  the count left, at each place of `dabort_main` (`Stage`), and `Placed`, by
  which no two aborts on the stack are of one access.
* `CommandLoopProofs!TypeCorrect` and `Implements` - the history, for a ring of any size.
  The mapping takes the place `k` behind the next one to be written, round the part
  in use, for the `k`-th newest line; `OneBack` and `EnterMoves` are what the index
  arithmetic of a walk and of an entry amount to under it.
* `LoopIsHistory` and `LoopImplements` - every step of the command loop is a step of
  the history or leaves it alone, so the promise of the history holds in the loop.
* `WithinBuffers` (`LoopTypeOK`) - for lines of any length and any characters, what is
  being executed is never longer than its buffer, and no command gets more words
  than its array holds.  The first rests on `Expanded`: the expansion of a command is
  never longer than the command, because a variable that has no value takes its
  name with it and nothing else adds a character (`ExpandStep` counts, in each of
  the four states of `cli_simple_process_macros`, what has been written and what a
  dollar or a backslash still owes).  That is why
  leaving out the count `outputcnt` loses nothing.
* `Repeats` (`RepeatsNewest`) - from `LoopInv`: `Newest` says that what would be repeated is
  the last line of the history, `Harmless` that nothing in it forbids the repetition,
  and `Noted` that a command that forbids it has, while the rest of its line still
  runs, left a mark in the return code or in `repeatable`.
* `WrittenIsRead` and `AlwaysUnderstood` (`Understood`) - for any list of commands, of any
  length.  Text that is put together from pieces is described by where each piece
  begins (`Flattens`, and `Spreads` for pieces with a character between them; `Veils`
  for the characters of a word and their escapes).  From that: before every special
  character of an escaped text stands a backslash, and none at its end (`Guards`), so
  that the search for a separator, which looks one character back, passes over the
  command and stops right behind it (`TakesCommand`); the expansion, which keeps the character
  before in `prev` and the escape in `escape`, copies what is plain and takes the
  backslash from what is not (`TakesPlain`, `TakesShielded`, and `Unescapes` along the command);
  and the words begin where `Words` looks for beginnings, each counted
  once (`Enumerated`, `Separates`).  `OneCommand` joins the three passes, and
  `Executed` goes along the line from its end, as `Parsed` does: with k commands left, the
  k last ones are executed.  What stands before the buffer does not matter, because the
  only place at which it is looked at, the first character of the line, is not
  a quote.
* `LineEditProofs!CountsStay` (`TypeOK`), `WholeString` (`StringIsLine`) and `Implements`
  - a buffer of any size.  `Inv` says that all characters before `eol_num` are text
  (no key and no NUL is ever stored), that an escape sequence begun has at most three
  characters, and that the buffer ends with NUL when it is handed over.  A text is taken
  apart and put together again by `Pieces` and `Glued`; one character at a time is put in
  (`OneChar`), and `OneMore` carries this to the four that a broken
  sequence can leave, so that a key is one `Insert` or `Overwrite` of `LineText` however many
  characters it makes.
* `XmodemProofs!TypeCorrect`, `WholeFile` (`Whole`) and `Implements` - a file and a buffer of
  any size, with packets of any lengths.  The inductive invariant names the packet `n` that the receiver expects,
  of which the code keeps only the remainder (`Expects`).  A packet on the line has behind it all that
  were sent after it (`LineInv`), so it is at most a line's length behind
  the sender; an acknowledgement is for a packet that was accepted, and those under way
  bring the sender at most two lines past `n` (`AnswerInv`).  With half the numbers
  for a line, a packet whose number is the expected one is the expected one
  (`SameNumber`), and one with the number before it is the packet before it.
  `Whole` follows from the part of `AnswerInv` on answers that were not taken for another's.

The proofs assume the constants' named assumptions.  Some of them are more than types:
`WindowAssumption` is justified with the bounds above; `TextAssumption` and
`LinesAssumption` say that lines are sequences of the characters there are,
`MeaningsAssumption` that the commands tried for `Understood` are of such words as can be
written, and
`CharsAssumption` that ESC is a character and the terminator is none;
`GroupsAssumption` that an `int` is narrower than a `u64`, and `UptoAssumption` that no packet is
empty.  The theorems on rounds assume `Tests <= 1`, those on the I2C
calls `~Interrupted`; TLC finds the properties violated without these.

Induction over data is beyond the library's theorems here, which take a predicate
as a parameter.  `CommandLoopProofs!Induction` states it for a set instead: a set that
holds zero and with each number the next holds all; it follows from `Least`, that
a set of naturals that is not empty has a least element.  `Expands`
uses it to show that the recursive function of the expansion exists, `Flattens` that
of a text put together, and `Unescapes` and `Executed` go along a command and a line with it.

Only model-checked: all liveness (`Completes`, `HandlerEnds`, `RoundsRecur`, `CallsEnd`,
`Recovers`, `Ends`, `AccessEnds`), which the prover does not reach.  Every safety
invariant and action property of a passing run, and every refinement, has a theorem.

## Not modelled

Of the modelled parts: burst lengths, widths, QoS and ECC registers of the DMA
controller, speed and pin registers of the I2C master, the words of messages: no
property tells them apart.  The sampling period, which
the code computes with truncating divisions (zero for a cycle time of one
second), because sampling instants are left open.  The arithmetic of the
bandwidth figures and its 32-bit overflow, which only reaches the printed text.
Damage to the number of an Xmodem packet that hits its complement alike.
The set-up of the NoC probes.  An I2C address length that is negative.
`bstdef_Receive`, which copies bytes from the line without protocol or
time-out.  The injection of errors and the text of the single handlers of the
safety island.  `run_command_list`, which no built command calls, and the listing of
completions.  What commands do is not the loop's: those of the driver and the
performance test are the actions of their modules.

Parts without a module, each with its reason in `PROJECT.json`: the four-byte line check
(one function each way, no state between calls), the secure island and the
mailboxes (register writes whose other side is hardware the repository does
not describe), the SMP baton (compiled under an option no configuration sets),
the drivers replaced by `dmac_llp.c` and `i2c-noirq.c`, directed tests of register
blocks, start-up code, and the C library.

About 145 000 of the repository's 224 000 lines are generated tables of DDR register
values (`module/ddr/*config*.c`), written once in order: there is no behaviour
in them to model, and the share of lines that can be modelled is bounded by
that.  Most of the rest is register headers, vendor libraries and directed
tests.

## Plan

Done: the GDMA driver with its abstract specification, the performance test over
it and its sampling, the command line with its loop, history and editor, the polled I2C
master, the Xmodem receiver with its abstract specification, the exceptions of
the safety island, and the theorems above.

Left, in the order of what they would add:

1. The bandwidth figures in 32 bits against exact values, over bounded inputs;
   worth the trouble when something depends on them.
2. The watchdog and mailbox handlers of the secure island, once the behaviour of
   the other side of each register is documented.
