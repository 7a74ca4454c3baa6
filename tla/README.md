# Formal models of the Silan DLNA port

The repository is Linux 3.0.8 with Silan's port to the C-SKY based DLNA audio
chips. Almost all of it is upstream code. The models here cover the part that is
the port's own logic and that is hard to test: the memory pool drivers take
their DMA areas from and the heap over it, the DMA controller driver, the PCM
driver that feeds it, the I2C master driver and the driver of the audio DSP.

The reference build is `arch/csky/configs/cksilan_dlna2_defconfig`: one CPU, no
kernel preemption, `SILAN_DLNA_DMA` (`drivers/dma/dlna_pl08x.c`), `SILAN_DSP`
(`drivers/char/dsp_new`), `CONFIG_SILAN_DMA_LLI_INT` and `CONFIG_ANDROID_PMEM`
and `CONFIG_I2C_DMA_MODE` off. All models are of this build, except that of the
sie heap, which no Makefile builds. With one CPU and no preemption a thread loses
the CPU only where it sleeps or takes an interrupt, so code under
`spin_lock_irqsave` is one step; what runs beside it are the interrupt handlers,
tasklets, work items and the hardware.

## Inventory

| Part | State | Operations | Interacts with |
|---|---|---|---|
| Memory pool, `arch/csky/silan_dlna/memory.c` | start and size of the rest of the pool | `prom_meminit`, `prom_phy_mem_malloc` | called by drivers at probe |
| DMA driver, `drivers/dma/dlna_pl08x.c` | per virtual channel: physical channel, state, hold count, pending list, active descriptor, cookies; per physical channel: owner | prep, submit, issue pending, control, status; `pl08x_irq` and `pl08x_tasklet` | clients call it from threads, tasklets and callbacks; it calls their callbacks in hard interrupt context |
| PCM driver, `sound/soc/silan/suv_pcm.c` | `prtd`: fragment counters, position, chain count, channel; start tasklet | the ALSA callbacks, `dma_tasklet`, `audio_dma_complete` | called by the ALSA core, calls the DMA driver, called back by it |
| DSP driver, `drivers/char/dsp_new` | open and init flags, firmware name, message slot, wait queue, two work items | open, close, write (load firmware), ioctl (command), work items, interrupt | DSP through mailbox, mutex and interrupt registers |
| sie heap, `arch/csky/silan_dlna/sie_malloc.c` | free list by size, list of blocks in use, spare descriptors | `silan_malloc_init`, `sie_malloc`, `sie_free` | takes its area from the memory pool |
| I2C, `drivers/i2c/busses/i2c-silan_new.c` | messages, write and read position, error bits, completion; FIFOs of the controller | `i2c_silan_xfer` with its waits, timeout and reset; `i2c_silan_isr` | called by the I2C core, interrupted by the controller |
| SPI, `drivers/spi/silan_spi.c` | none between calls: it polls inside the call | transfer | SPI core |
| older DSP drivers, clock, irq, timer, pm, board tables | | | not in the reference build, or tables and register writes |

What is hard in this code: `pl08x_irq` calls what upstream runs as a tasklet
directly, so callbacks call back into the driver in the middle of the loop over
a status word that was read once; the association of virtual and physical
channels is changed by prep, terminate, completion and hand-over; the PCM start
is deferred to a tasklet which later calls can overtake; the DSP driver tells
answers, timeouts and signals apart by one return value; the I2C handler refills
FIFOs that empty while it runs, and a transfer that was aborted, timed out or
interrupted leaves a controller behind that goes on by itself; the heap joins
neighbours in two lists with descriptors that can run out; LLIs are cut at the
boundaries of two buses at once, with widths that are lowered on the way. The `hazards` of
`PROJECT.json` list these places with their lines.

What makes each part correct: the pool never hands out a byte twice, and neither
does the heap; to a client a DMA channel is a queue; a physical
channel has one owner, never runs without one, and completes its descriptors
once, in order, without loss; the PCM engine runs only while the stream does,
the position it reports is where it is, and nothing runs after the buffer is
freed; an I2C call that succeeds has executed its messages, all of them, to the
right slave, and returns; a DSP command that succeeds was carried out and no
caller waits for ever.

## Modules

Mutants, marked in a comment, are deliberately wrong versions of the definition
that follows; no specification uses them. They show that the properties can fail.

**PromMem** - `prom_meminit` and `prom_phy_mem_malloc`, with `u32` arithmetic
modulo the constant `W`. `areas` is a history variable: what callers were given.
The pool test is made before the lock is taken, which does no harm on one CPU.

**SieHeap** - extends `PromMem`: the heap is set up over an area the pool hands
out, while other drivers take theirs. `free` is the list of free blocks in the
order the code keeps them in, `used` the other list, `spare` the number of
descriptors left. Links are abstracted to the order of the lists.

**BestFit** - what such a heap promises, abstractly: a set of blocks in use in an
arena, a request takes the start of a smallest gap it fits in, or fails. Free
space is not represented, so that joining neighbours is not visible: in `SieHeap`
it must therefore be complete. `SieHeap!ImplementsBestFit` is the refinement.
A request is refused only when no gap fits or when the descriptors may be used up:
with k blocks in use there are at most k + 1 gaps.

**DmaChannel** - what the DMA driver promises its clients: each channel is a
queue of descriptors with cookies; the oldest completes, and nothing else does;
`Discard` empties the queue (`DMA_TERMINATE_ALL`, and a slave whose prep finds no
physical channel, which frees its whole pending list). `Pl08x!ImplementsDmaChannel` is
the refinement: the queue is the active descriptor followed by `pend_list`.

**Pl08x** - virtual channels `Chan` (slave and memcpy) over physical channels
`Phy`. `phychan` and `serving` are the two sides of the association, `chan` the
rest of `struct pl08x_dma_chan`, `hw` and `tc` the controller. A descriptor is
its cookie and whether it carries the flow-control signal; addresses, LLIs and
bus widths are left to `Pl08xLlis`. One action per entry point; prep is split by what
`prep_phy_channel` finds, and the interrupt handler into entry, one step per
channel, callback return and exit, because hardware goes on in between and the
callback calls the driver. The environment is a parameter, `Env`:
`cross_call` lets a callback call for other channels, `terminate_prepared` lets a
client terminate between prep and submit, `fast_hw` lets a transfer that was started
on a channel the handler has just served end before the handler is done (transfers of
other channels may end during the handler in any case), `bus_error` lets a transfer end
with an error interrupt, which `pl08x_irq` clears and otherwise ignores. The platform's `get_signal` returns a constant
(`dev-amba.c:84`), so its failure path is not taken in this build. NULL pointer
accesses set `crashed`, which stops the system.

**Pl08xLlis**, **MCPl08xLlis** - `pl08x_fill_llis_for_desc`, one step per linked list
item, from every descriptor of the constant `Txds`, and `pl08x_getbytes_chan` over the
list it builds. Both buses start with the same width, as `dma_set_runtime_config`
sets it; the platform data of memcpy say 8 bits on this board, and the model also takes
the wider ones the driver accepts. Of the control word the transfer size, the widths,
the increments and the interrupt bit are kept. The transfer size counts units of the
source width (external, from the comment at line 303). Transfers of no bytes are
excluded: the driver does not test for them and would write in front of the table (line
856), but no client prepares one. `Pl08x` takes the list as given.

**SuvPcm** - one stream. The ALSA core is external and modelled from
`sound/core/pcm_native.c`: it calls the driver under the stream lock, so the
state change of the core and the driver's callback are one action. The DMA
channel is the sequence of fragments in it. The tasklet is two steps, because it
submits the first fragment and sets its counters with interrupts on. `Env`:
`pause`, `prep_fails`, `late_tasklet` (application calls come before a scheduled
tasklet has run, which happens when softirqs are left to ksoftirqd). The core suspends
a stream in every state, OPEN included; it is resumed only while it is suspended, as
alsa-lib does. `tc` is the interrupt of a finished fragment that has not been served;
it may stay pending for several calls, which is more than the code allows, since each
call turns interrupts on when it ends. A BUG, a NULL channel or a division by 0 sets
`bug`, which stops the system. The history `races` holds the orders of events that the
driver does not handle and that still matter: `overtaken` (prepare or hw_params came
before a scheduled tasklet), `stray` (a stop, pause or suspend did), `caught` (a
suspension found an interrupt pending), `released` (a pause was released) and `bare` (a
stream without a channel was suspended). Terminating the channel with no tasklet
scheduled empties it. The properties say which race is needed for which harm; that each
does it shows when it is taken out of the property (see the list under Runs).

**SilanDsp** - threads that share the open device. Loading sleeps in
`request_firmware`, commands in `schedule_timeout`; both are two steps. The DSP
is external: it takes a command from the mailbox, and answers or not. `Env`:
`timeout`, `signal`, `mutex_busy` (the command is dropped), `silent`,
`load_fails`. The histories `served`, `ok` and `failed` only serve the properties. A
thread that the answer has woken but that runs after its second is over still takes the
timeout path. When `mbox_tx_work` runs after the caller has returned it reads a dead
stack frame, and the mailbox may get any command. After a signal a wait-queue entry is left on a dead stack frame; a
wake-up that follows it may find it intact or crash, and both are modelled.

**SilanI2c**, **MCSilanI2c** - one caller at a time (`dev->lock`) that calls again
and again, the interrupt handler, one step per iteration of its loops, and the
controller, which is external and goes on between the steps of the handler by at
most `MaxLag` bytes. `ic` is the controller with its FIFOs, mask and latched
interrupts, `dev` the driver's structure. `Env`: `nack`, `timeout`, `signal`. The
histories `wire` and `got` record what was on the bus and what was stored, `quiet`
whether anything of an earlier call was left when this one began. An index past
the last message, which `i2c_silan_xfer_init` can meet after a stale interrupt,
gives an arbitrary address. The reset of the controller leaves any mask: only probe
writes `INTR_MASK`, and the controller is off. The MC module holds the message lists.

**SieHeap_proofs** (with those of `PromMem`), **BestFit_proofs**, **DmaChannel_proofs**,
**Pl08x_proofs**, **Pl08xLlis_proofs**, **SuvPcm_proofs**, **SilanDsp_proofs**,
**SilanI2c_proofs** - theorems, see below.

## Runs

| Run | Shows |
|---|---|
| `prom_mem` | pool and heap together: areas overlap neither each other nor the kernel, for sizes zero, unaligned, exact and too large; blocks of the heap lie in its area and in no other, with areas of other drivers before and after it; the heap is a best-fit allocator, also when its descriptors run out |
| `dma_any` | with arbitrary clients and hardware, bus errors included: exclusive ownership, no transfer without an owner, descriptors in order, no false success across a cookie wrap, and every step is one of the abstract queues (`DmaChannel`) |
| `dma_polite` | with one descriptor at a time, as `suv_pcm.c` uses the driver, and three clients over two physical channels, with transfers that end while the handler runs: no NULL access, the hold count is exact, no channel is leaked, each slave transfer has its signal, no completion is lost, nothing moves data after it was retired, every started transfer ends or is paused |
| `lli_build` | for every alignment of the two addresses, every width and length: the list copies exactly the bytes asked for, no item crosses a boundary or accesses a bus out of line, every transfer size fits its field, aligned audio buffers are sent in whole words, the table overflows only for transfers that are too long, the count of bytes left is right for byte-wide transfers, and the loops end |
| `pcm_play` | a running stream keeps moving |
| `pcm_any` | pauses, failing allocations, suspensions in every state and calls that overtake the tasklet: no transfer on a freed buffer; BUG, a NULL channel or a division by 0 only when the tasklet was overtaken or a stream without a channel suspended; the engine runs without the stream only after a stray tasklet or a pending interrupt; apart from these and the release of a pause the position reported is that of the DMA |
| `dsp_one` | a successful command was carried out, no wake-up is lost |
| `dsp_threads` | under every fault one loader at a time, and a failed call leaves no wait-queue entry; firmware name and image agree as long as no load has failed |
| `i2c_any` | messages longer than the FIFOs, messages that must be refused, missing acknowledges, timeouts, signals and a late handler: a call that starts on a quiet controller and succeeds has put every byte on the bus once, in order, and stored every byte read where it belongs; no byte goes to another slave; the handler uses the messages only while the call lasts; success and a reset leave a quiet controller; every such call returns |

Three runs end in a violation. Each shows a place where the code does not do what a
comment, an assertion or the interface it implements says; `findings` in
`PROJECT.json` quotes the line.

| Run | Shows |
|---|---|
| `dma_wait` | a memcpy waits for a physical channel while all of them are free: the channel was given up by a terminate, which wakes nobody |
| `i2c_stale_stop` | the STOP that follows an abort stays latched behind the mask; it completes the next call, which reports success before its messages were sent |
| `dsp_signal` | a signal counts as an answer (and leaves the wait entry of the returned call queued) |

The models show more of this kind, for which no run is kept:

- a second slave descriptor prepared while the first runs takes no hold, and the
  physical channel is given up under it (`suv_pcm.c` never has two, `OneInFlight`);
- `pl08x_control` does not terminate a memcpy that waits for a physical channel;
- a transfer that a callback starts on the channel just served, and that ends before
  `pl08x_irq` clears the terminal counts, loses its own and is never retired
  (`HardwareInStep` fails with `fast_hw`);
- a callback that terminates another channel whose bit is in the handler's copy of the
  status makes the handler follow a NULL pointer (`NoCrash` fails with `cross_call`);
- a transfer that ends with a bus error is neither retired nor started again, and its
  client waits for ever (`HardwareInStep` and `StartedRetires` fail with `bus_error`);
- `get_bytes_in_cctl` shifts the control word without masking it, never recognises a
  width, and counts 16 and 32 bit units as bytes: the residue of such transfers is too
  small (`ByteResidueExact` fails without `width = 1`; `suv_pcm.c` does not use it);
- with an unaligned peripheral address the transfer size would count units of the
  narrower bus, which the controller takes for units of the source
  (`LlisAssumption` excludes it);
- START, STOP and PREPARE before the tasklet has run make the `BUG_ON` of `dma_tasklet`
  fire (the race `overtaken` of `NoBug`);
- a stream that is suspended in state OPEN, then prepared and started, has no channel,
  and the tasklet follows a NULL pointer (the race `bare` of `NoBug`);
- a fragment that is finished when the stream is suspended has its interrupt served
  afterwards, and the callback starts the next one (the race `caught` of `EngineStopped`);
- a released pause restarts the engine at fragment 0 and the position reported stays
  where the pause left it (`released` of `PointerTracksDma`);
- dropping a paused PCM stream starts the engine, as does any stop that overtakes the
  tasklet (the race `stray` of `EngineStopped`);
- a stream that never had parameters, suspended and prepared, makes the core divide by
  its period size of 0 (`PrepareUnset`);
- after a signal, `mbox_tx_work` may read the buffer of a call that has returned;
- a refused I2C message leaves a STOP latched as an abort does, and a signal leaves
  the controller and its interrupts on, so that the handler touches the messages of a
  call that has returned (`LeavesQuiet` and `MessagesLive` exclude these returns);
- when the pool cannot back the heap, the heap manages memory from address 0
  (`HeapApart` is stated for a heap that is backed).

## Bounds

- `PromMem`, `SieHeap`: pages of 4, 23 units of memory, words of 64, areas of 0, 3, 10
  and 60; a heap of 10 units in blocks of 2, mallocs of 0, 3 and 5, five descriptors.
  Enough for exact fits, remainders, requests above the pool, areas of other drivers
  before and after a heap with blocks in use, a pool that cannot back the heap,
  joins on both sides and descriptors that run out before the memory does.
- `SilanI2c`: FIFOs of 3 and messages of up to 5 bytes, so that both FIFOs are
  filled, drained and refilled in the middle of a message; `MaxLag` 1. With
  `MaxLag` 2 `QuietCallExecuted` fails: the transmit FIFO drains before the handler
  refills it and the controller ends the transaction early (see `Prompt` under Proofs). The FIFO of the chip has
  32 entries, which at 100 kHz are about 2.8 ms of latency.
- `Pl08x`: `MaxQueue` (descriptors prepared or outstanding per channel) 1 in
  `dma_polite`, else 2; `MaxHold` bounds the hold count; cookies up to `MaxCookie`
  wrap. One slave and one or two memcpy channels over one or two physical ones:
  fewer physical channels than clients, so that channels wait and are handed over.
  `CookieFree` bounds a client to fewer than `MaxCookie` submissions between
  completions; the real bound is 2^31 - 1.
- `Pl08xLlis`: a boundary of 8, a largest transfer size of 9 and up to 20 bytes, that
  is two boundaries and rests; all alignments. As in the code (1024 and
  4095) the boundary is a multiple of the widths, below the largest size, and far below
  the bytes a wide LLI of that size has. 14 LLIs, so that the table fills up.
- `SuvPcm`: two and three periods; the counters are bounded by the code.
- `SilanDsp`: one or two threads, two firmware names, `MaxCalls` commands, enough for a
  command to be overtaken by two others.

`CHECK_DEADLOCK FALSE` is used where the system may stop: after a crash, and in
`dsp_one`, where a command to a DSP that was never loaded has no timeout.

## Fairness

- `Pl08x!Fairness`: the interrupt handler runs and finishes (weak fairness; it
  cannot be preempted by threads), and a transfer that is running ends. The
  latter is strong fairness because without `fast_hw` the model lets a transfer on a
  channel just served end only when the handler is through, and other channels, which
  interrupt again and again, must not starve it. A halted channel
  is excused, and `StartedRetires` says so.
- `SuvPcm!Fairness`: scheduled tasklets run, transfers end and interrupts are served.
- `SilanDsp!Fairness`: work items, interrupts and woken threads run, and a loaded
  DSP takes and answers commands. No fairness on timeouts, signals or callers.
- `Pl08xLlis!FairSpec`: the function, which runs alone, goes on.
- `SilanI2c!Fairness`: interrupts are served, and the caller continues when none is
  pending; its timeout belongs to it, since a second always passes. Nothing is
  assumed of the bus, so a slave that holds the clock for ever is included.

## Proofs

The proofs hold for every value of the constants that the module's assumption
allows; where a theorem needs more, it says so as a hypothesis. Each rests on an
inductive invariant, which TLC checked on the runs' instances before it was
proved. Most lemmas are about one action.

The proof system does not handle liveness under fairness. For each liveness property
a theorem states the part that is not fairness: an invariant that says that the thing
awaited is always under way, and an action property that says that the steps that
matter bring it nearer, by a measure in the natural numbers or stage by stage. What is
left of the property is that these steps are taken, which is what the fairness of the
run says. These invariants and measures, too, were checked with TLC before they were
proved.

### Memory pool and heap

`SieHeap_proofs!AreasNeverOverlap`: `Spec => [](TypeOK /\ AreasDisjoint)` for every
page size, memory size, word size above the memory, and set of requests whose
rounding does not overflow (`PromAssumption`). `AreasDisjoint` is not inductive:
it does not say where the next area will be. The strengthening is
`PoolAccounted`: start plus size is the top of memory, and every area lies below
start. The rest is arithmetic of rounding up to a page.

`SieHeap_proofs!HeapBlocksApart`: `HeapSpec => [](TypeOK /\ AreasDisjoint /\ HeapApart)`,
for every number of descriptors and every set of requests. The invariant `HeapInv`
says what the two lists are: they tile the heap's memory (`Tiling`), no two free
blocks are neighbours, no block is listed twice, the free list is sorted by size,
every descriptor is spare or in a list (`Lists`), and the memory is an area the pool
handed out (`Backed`), except for the heap at address 0 that a failed allocation
leaves behind. That free blocks are never neighbours is what the two joins of
`sie_free` keep up, and is why a block has at most one free neighbour on each side.

`SieHeap_proofs!HeapIsBestFit`: `HeapSpec => ImplementsBestFit`. The gaps of the
abstract heap are just the free blocks (`GapsAreFree`), because these are maximal;
the first block of a sorted list that is large enough is a smallest one; and with k
blocks in use there are at most k + 1 free ones (`FewFree`), so the code
refuses for want of a descriptor only when the abstract heap may.

`BestFit_proofs!BlocksNeverOverlap`: in the abstract heap blocks in use are disjoint
parts of the arena, for every arena and set of sizes.

### DMA driver

`Pl08x_proofs!PhysicalChannelsOwned`: `Spec => [](PhyExclusive /\ NoStrayDma)` for
every number of channels and every environment, the arbitrary client included.
The inductive invariant `IInv` adds the types of the variables involved. The
argument: every step either leaves owners alone, takes a free physical channel
for a virtual one that has none (`GetInv`), or releases one and stops it
(`ReleaseInv`); a hand-over is a release followed by a take; hardware is started
only on a channel with an owner.

`DmaChannel_proofs!CookiesInOrder`: in the abstract queues cookies are in order and
no outstanding one counts as complete, for every `MaxCookie` above 0. Order is not
inductive across the wrap. The invariant `Recent` says what the queue is: the last
cookies given out, position by position (`Back`), and no more of them than were
given out since the last completion (`Since`).

`Pl08x_proofs!DriverIsQueues`: `Spec => ImplementsDmaChannel`, for every number
of channels and every environment. The invariant `RInv` adds to `IInv` the types of
the rest of the state (hence `TypesHold`) and `ActiveHasPhy`: a channel with an active
descriptor has a physical channel. It is needed because a slave whose prep finds no
physical channel loses its pending list, which is an abstract `Discard` only
when nothing is active. Most steps change nothing a client sees (`View`).

`Pl08x_proofs!CookiesTellTheTruth`: `Spec => []CookiesTrue`, that is
`QueueInOrder` and `NoFalseSuccess`, from the refinement and the instance of
`DmaChannel_proofs` under the same mapping.

`Pl08x_proofs!PoliteClientsServed`: `NoCrash`, `HoldsExact`, `StartedWithSignal` and
`HardwareInStep`, under the hypothesis `Polite` (one descriptor per channel and
`Env = {}`: callbacks call for their own channel, nothing is terminated between prep
and submit, no bus errors, and no transfer on a channel just served ends before the
handler), for every number of channels. Without it they are false, see above; that all
other transfers may end while the handler runs is part of it.
The invariant `PInv` says that every channel is in one of four phases: unused, with a
descriptor prepared, submitted, or active; in each phase the physical channel, the
hold, the state and the waiting mark are determined. It ties the hardware to
the phases (a physical channel runs or has ended just for an active descriptor,
and not both) and the handler's status word to the terminal counts: what is left to
serve in the word has its terminal count, and the channel whose callback runs is not
among it (`InHandler`).

`Pl08x_proofs!TransfersGoForward`: the safety part of `StartedRetires`, under `Polite`.
A started transfer that is not paused moves data or has its terminal count (`Ongoing`,
by `HaltedIsPaused`: only a pause halts a transfer). As long as it is neither retired nor
terminated it is the same descriptor on the same physical channel and its terminal
count stays set, whatever the other clients and the hand-over do (`Carried`). The
handler, which serves the terminal counts it has copied and leaves later ones to its
next run, has at most 2 * `NPhy` + 2 steps to
take (`HandlerLeft`); each of its steps lowers that number, and a call of the driver
by a callback leaves it alone. When the handler is through no terminal count is left,
so every transfer that had one has been retired.

### Linked list items

`Pl08xLlis_proofs`, for every boundary that is a multiple of 4 and at most the largest
transfer size, every table size and every set of transfers with aligned peripherals
(`LlisAssumption`):

- `ListIsExecutable`: `NoBoundaryCrossed`, `BusesAligned` and `TsizeFits`. The
  invariant says that only the source is ever set down (`BusWidths`), so a transfer size
  in units of the narrower bus is one in units of the source, and that both buses are
  aligned between two large LLIs, or will be once the bytes across a boundary are sent
  (`StaysAligned`). `TsizeFits` then follows from the boundary, not from
  `max_bytes_per_lli`: one bus always counts up.
- `ListCopiesExactly`: `CopiesExactly`, which says item by item that each begins where
  the one before ended, the first at the start and, in a finished list, the last
  at the end. The invariant `Reached` ties the build data to the end of the last item.
- `PeripheralsGetWholeWords`: `WholeWords`, by `StaysWhole`: addresses, rest and
  lengths stay multiples of the width, since boundaries are.
- `TableHoldsTransfers`: `TableHolds`. The invariant `InBudget` bounds the length of
  the list by the boundaries passed on each bus; a boundary of the slave bus costs a
  short item, up to a word of single bytes across it and the item that follows. The
  proof attempt showed that the bound used before was too small by one item per
  boundary for memcpy, at lengths above those of the run.
- `ResidueIsExact`: `ByteResidueExact`. The code adds up the items that follow in a loop.
  The proof replaces the sum by a count: the sum of the sizes of some items is the number
  of byte positions they cover (`Covered`), and the positions that the items after the
  k-th cover are an interval, because the items join (`CopiesExactly`). That sum and
  count agree for every set of items is shown by a smallest counterexample
  (`LeastSubset`), since the induction theorems of the library cannot be used. Another
  invariant, `NarrowList`, says that every item of the list has the source width 1 or
  that of the transfer.
- `FunctionShrinksItsWork`: the safety part of `Finishes`. `Work`, eight times the bytes
  left plus a number for the place in the function, starts at 8 * len + 6, is never
  negative and falls with every step. The pass that matters is one that stands too
  close to a boundary to add an item: single bytes follow, so that it too
  makes progress (`ShortChunkCreeps`).

### PCM driver

`SuvPcm_proofs!TypesHold`, `StreamIsSafe` (`NoBug`, `OneInFlight`, `NoUseAfterFree`) and
`StreamInStep` (`EngineStopped`, `PointerTracksDma`): for every choice of period counts and
every environment, with no hypothesis. What the properties excuse, they name: the races.
`NoUseAfterFree` excuses nothing but the queued tasklet of a stream that hw_params
overtook. The invariant `IInv` says, in the order of its parts:

- `Configured`: a stream that is more than open has its channel unless it was suspended
  without one, and an open stream, suspended or not, has nothing under way;
- `Backed`: whoever divides by the number of fragments or uses the channel finds it set,
  and two descriptors are counted for the one in flight;
- `Marked`: a tasklet that prepare and hw_params have not overtaken finds the mark of its
  START, and one that is scheduled for a stream that does not run is stray;
- `Held`: a transfer that can still end or call back belongs to a stream that runs or is
  left over from a race;
- `InStep`: without a race the position is the fragment in flight and the next one to
  submit its successor, through a suspension too.

`SuvPcm_proofs!StreamPlaysOn`: the safety part of `PlaysOn`, under the hypotheses of that
run: no pause, no failing preparation, and no call before a scheduled tasklet has run. A
running stream has a tasklet that will start it or a fragment in an engine that is not
halted, through suspend and resume (`Fed`). Each step of a stream that goes on takes it
nearer to, or to, the next position, which is another one because there are at
least two periods; at most six steps lie between two (`Advances`).

### DSP driver

`SilanDsp_proofs!TypesHold` and `ThreadsKeepApart`: `OneLoader`, `NameIsImage` and
`FailedNotQueued`, for any number of threads and every fault.

`SilanDsp_proofs!OneThreadServed`: `ServedBeforeSuccess`, under the
hypothesis of one thread that gets no signal and no timeout; a silent or busy DSP and
loads that fail remain. The invariant `OnItsWay` says that the command is in
at most one place on its way through work item, mailbox, DSP, interrupt and back.

`SilanDsp_proofs!NoWakeUpIsLost`: the safety part of `Answered`, under the hypothesis
that, besides, the DSP answers and takes the message. `NotForgotten` adds to `OnItsWay`
that the command of a waiting thread is in at least one of those places, that the thread
is the one entry of the wait queue, and that no dead entry is ever woken. Every step
while the thread is in `dsp_send_cmd` brings its return nearer by one of at most six, or
leaves mailbox, device and callers alone (`BringsReturn`).

### I2C driver

`SilanI2c_proofs!TypesHold` and `QuietCallsSafe`: `RightSlave` and `MessagesLive`, for
every depth, latency, set of message lists and environment. The invariant adds
that a call that began quiet has disturbed nothing before it arms the controller
(`BegunQuiet`), that the message the handler goes on with is for the slave
addressed (`NextAddressed`, which the address test of `i2c_silan_xfer_msg` keeps up),
that an error masks the interrupts (`ErrorsMask`), and what is left after each kind of
return (`AfterReturn`); after a reset the FIFOs are empty and the controller is off,
whatever its mask.

`QuietCallsExecute`: `QuietCallExecuted` and `LeavesQuiet`, for every depth and every
list of messages, with whatever slaves, timeouts and signals, under the hypothesis
`Prompt` on the latency of the handler: `MaxLag` is at least 1, two latencies fit the
FIFO, and the first message of a list of several is refused or lasts a latency. Both
conditions are needed, as TLC shows: with depth 3 and `MaxLag` 2 the transmit FIFO
drains before the handler refills it; with a first message of one byte and `MaxLag` 2
the byte leaves, and the controller ends the transaction, before the handler has put
the second message into the FIFO, however deep that is. In the code only the
interrupt load of the system bounds the latency. At 100 kHz a byte takes 90
microseconds, and `i2c_silan_xfer_msg` goes from one message to the next in far less:
`MaxLag` 1 is the case of interest there.

The invariant `CInv` holds of a call that began quiet as long as it is `Clean`
(waiting, no error, no abort latched), and says what the two FIFOs hold at each point of
the handler:

- `FlowIsSent`: the bytes on the bus followed by those in the transmit FIFO are exactly
  the bytes that `msg_write_idx` and `tx_buf_len` say are written, in order;
- `FifoIsRead`, `GotIsStored`: the receive FIFO holds exactly the bytes read on the bus
  that `msg_read_idx` and `rx_buf_len` say are not yet stored, in order and without a
  gap in a message, so that the n-th byte the handler takes is the n-th it misses;
- `Supplied`, `Drained`: while messages are left, what is in the transmit FIFO lasts a
  latency, and the receive FIFO has room for one, so that no byte is lost, although
  `rx_limit` leaves out the read commands that wait in the transmit FIFO;
- `StopIsLast`: STOP_DET therefore comes only when all is written and sent, and the
  handler that reports it has emptied the receive FIFO first;
- `Listens`: the interrupts needed for this are not masked, and `AfterSuccess`: once
  the call has returned nothing changes until the next.

Two theorems are the safety part of `Returns`:

- `HandlerEnds`, for every depth, latency, list of messages and fault: the handler ends
  within 2 * `Len(msgs)` + 3 steps. Each of its steps lowers `StepsLeft`, the messages
  that its two loops have still to pass; the caller makes no step meanwhile.
- `NoInterruptStorm`, under `Prompt`: while a call that found the controller quiet
  sleeps, every step of handler and controller lowers `Distance`, a tuple of five natural
  numbers, in lexicographic order. As long as all goes well these are the
  messages left to pump, the bytes left of the current one, the steps the controller can
  make with what is in the FIFO, and what the handler has to do with what has been
  received; after an error or an abort, the steps of the handler and those of the
  controller. So there are finitely many interrupts before
  the caller is woken or runs into its timeout, although TX_EMPTY and RX_FULL are levels
  that the handler cannot clear. It needs `PumpsWhenAsked`: the handler pumps only when
  it was called for TX_EMPTY, and a message that is begun is not finished.

The reset after a timeout is not part of it: a call whose STOP never comes is ended by
the timeout, which the fairness of the caller sees to.

### Only model-checked

The five liveness properties themselves (`StartedRetires`, `PlaysOn`, `Answered`,
`Finishes`, `Returns`), since the proof system does not handle fairness; the theorems on
measures above are their safety parts. Every invariant, every action property and both
refinements that the passing runs check are proved.

## Not modelled

Bus and burst selection in the DMA driver (data, no control state);
the `CONFIG_SILAN_DMA_LLI_INT` and `CONFIG_I2C_DMA_MODE` variants; probe and
removal; `silan_spi.c`, which polls inside one call and keeps nothing between calls,
and `silan_spi_ctrl.c`, which no configuration builds; register-level drivers, board
tables and assembly; upstream Linux, except where a modelled driver calls it.
In `SilanDsp`, the answer to a command after a timeout, the read of a buffer whose
caller has returned, and the sharing of the one message slot by several threads, are
modelled, but no property is claimed of
them, since neither code nor comments say what is meant.

## Plan

Done: the components above, the two refinements and the theorems. Next:

1. `SuvPcm` over `DmaChannel` in place of its own queue: the composition of the two
   drivers.
2. Theorems: that composition, and the refinement it rests on.
