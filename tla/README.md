# TLA+ models and proofs of SimpleSSD

SimpleSSD simulates a solid-state drive: host interface, internal cache, flash
translation layer (FTL), flash and the firmware cores between them. This
directory holds a formal model of its control logic: which state each layer
keeps, what each operation does to it, and in which orders operations can
happen. TLC checks small instances; TLAPS proves the main safety properties of most
components, from the FTL to the host interfaces, for every value of their
constants. Times are left out except where they decide an order.

## 1. The system

Requests go down, completions come back up:

    host ── NVMe controller / SATA HBA / UFS host   (src/hil/nvme, sata, ufs)
             │   queues, doorbells, DMA, interrupts
             ├─ CPU: firmware jobs on cores          (src/cpu/cpu.cc)
             ▼
            HIL: jobs, completion event              (src/hil/hil.cc)
             ▼   synchronous calls from here on
            ICL: set-associative cache               (src/icl/generic_cache.cc)
             ▼
            FTL: page mapping, garbage collection    (src/ftl/page_mapping.cc)
             ▼
            PAL: channels, dies, planes              (src/pal)

Everything runs in one thread of a discrete-event simulation. Concurrency is
interleaving of events (`schedule(event, tick)`): DMA ends, jobs of a core,
completions, doorbell writes. A call inside one event is atomic. Below the HIL
everything is a call that returns the tick at which it will have ended: ticks
run ahead of the clock there, and requests come in any order of them.

| component | state | operations | hard part | what makes it correct |
|---|---|---|---|---|
| FTL (`ftl/page_mapping.cc`, `ftl/common/block.cc`) | mapping table, blocks in use with valid/erased bits and write pointers, list of free blocks with a hand-kept count, one open block per lane | initialize, read, write, trim, format, garbage collection | long sequences of overwrites, trims and collections; the last free block | a mapped unit is at exactly one place; no block is lost; a collection makes room and ends; wear is levelled |
| ICL (`icl/generic_cache.cc`) | lines of each set: valid, dirty, tag, times | read, write, flush, trim, format; eviction by line or superpage | which lines an eviction takes and when they are written | a unit is cached once; an eviction frees a way; dirty data reaches the flash |
| HIL (`hil/hil.cc`) | queue of completions by finishing time, one event | read, write, flush, trim, format; updateCompletion, completion | callbacks that issue requests while the queue is served | each request completes once, at its tick |
| CPU (`cpu/cpu.cc`) | job queue and busy flag of each core | execute, submitJob, jobDone | jobs queued while a core is busy | every job runs |
| NVMe controller (`hil/nvme/controller.cc`, `queue.cc`) | submission and completion queues, FIFO of fetched commands, completions to post, coalescing by vector, status register | doorbells, work loop, arbitration, queue creation and deletion, abort, coalescing, shutdown | queue commands against commands in flight; phases; shared vectors | no command is lost or done twice; the host hears of each end |
| NVMe subsystem (`subsystem.cc`, `namespace.cc`) | namespaces with their ranges of logical pages, an account of allocated pages | admin commands, I/O commands, each a chain of callbacks | format and delete against the account; error paths in every callback | ranges are disjoint; a request stays in its namespace; each command is answered once |
| NVMe PRP and SGL (`dma.cc`) | list of regions, counters of transfers | read, write, list walk | page boundaries, lists, bit buckets | every unit is moved to its place before the answer |
| Open-Channel SSD (`hil/nvme/ocssd.cc`) | chunk states and write pointers | vector and plain read, write, reset | the descriptor changes before the flash does | flash is programmed in order; descriptors tell what it holds |
| FIFO (`util/fifo.cc`) | wait and transfer queues by direction, usage | read, write | capacity, splitting, zero size | in order, once, all complete |
| SATA HBA and device (`hil/sata`) | port registers, request and response queues, chains of the commands | register writes, work loop, FISes | responses, interrupts and their acknowledgement | a slot is given back after its work, and always |
| UFS host and device (`hil/ufs`) | doorbell, requests under way, responses | doorbell, work loop, completion, UIC commands | doorbells rung while requests run | the same |
| PAL (`pal/`) | time line of each channel and die: free slots and a start of the free future | read, write, erase of superpages | reservation in gaps, out of order | reservations do not overlap; superpages share no physical page |
| DRAM (`dram/simple.cc`) | end of the last access | read, write, refresh | unscheduled accesses | one access at a time |
| disk images, bitset, configuration, logging, RISC-V emulator | see `PROJECT.json` | | | |

The list in `PROJECT.json` gives for each component its sources and what is and
is not modelled; its list of hazards gives, line by line, what is hard to test
in this code, with the property that covers it or the reason why none does.

## 2. The modules

| module | of | role |
|---|---|---|
| `PageMapping` | `page_mapping.cc`, `block.cc` | the FTL with its flash blocks |
| `LogicalSpace` | `abstract_ftl.hh` | what an FTL promises, implemented by `PageMapping` |
| `Icl` | `icl.cc` | requests cut into logical pages (operators) |
| `GenericCache` | `generic_cache.cc` | the cache and its traffic to the FTL |
| `HIL` | `hil.cc`, `cpu.cc` | requests as firmware jobs and completions |
| `NvmeController` | `controller.cc`, `queue.cc`, queue commands of `subsystem.cc` | the controller and a host that keeps the rules |
| `DataPointer` | `nvme/dma.cc` | PRP lists, SGLs and their transfers (operators) |
| `NvmeCommand` | callbacks of `nvme/*.cc` | what a command is: stages, pieces under way, the answer |
| `Subsystem` | `subsystem.cc`, `namespace.cc` | admin and I/O commands, namespaces |
| `OpenChannel` | `ocssd.cc` | the two Open-Channel subsystems |
| `NvmeDevice` | the choice in `controller.cc` | composes the last two |
| `DmaFifo` | `util/fifo.cc` | the FIFO between a bus and a DMA engine |
| `DmaPort` | `dma_interface.hh` | what a DMA interface promises, implemented by `DmaFifo` |
| `SlotRegister` | registers of 32 slots | the slots of SATA and UFS |
| `SataHBA` | `sata/hba.cc`, `sata/device.cc` | AHCI adapter, device and a driver |
| `UfsHost` | `ufs/host.cc`, `ufs/device.cc` | UFS controller, device and a driver |
| `CommandSlots` | | what an interface promises to a driver |
| `ControllerRegisters` | `writeRegister()` of `controller.cc` | the host brings the NVMe controller up |
| `HostInterface` | | one of the three; SATA and UFS implement `CommandSlots` |
| `Pal` | `pal.cc`, `pal_old.cc`, `PAL2.cc` | addresses and reservations of the flash |
| `Dram` | `dram/simple.cc` | reservations of the DRAM |
| `FlashBackend` | callers in `icl/`, `ftl/` | composes the two under the requests that reach them |
| `MC...` | | values of the constants for TLC |
| `DataLemmas` | | facts about numbers, queues and sets that several proofs need |
| `PageMapping_proofs`, `HIL_proofs`, `GenericCache_proofs`, `DmaFifo_proofs`, `HostInterface_proofs`, `NvmeController_proofs`, `NvmeDevice_proofs` | | theorems about the module of that name and those it composes |

**PageMapping.** `table` is `PageMapping::table`; `content`, `nextPage` and
`eraseCount` are the blocks' `validBits`, `erasedBits`, `pLPNs`,
`pNextWritePageIndex` and `eraseCount`; the other variables carry the names of
the members. The FTL is one call stack, so an operation is one step, except
that the collection a write or a format starts is a loop of steps (`pc` =
select, copy, erase) during which no other operation runs. `panic()` is a state
of its own with the message, and nothing follows it. Filling the device
(`initialize()`) is `InitWrite`, page by page, in each of the three modes. The
units of a page (`bRandomTweak`) are mapped one by one as in the code. Greedy,
cost-benefit, random and d-choice victim selection are all there: the orders
that `std::sort` leaves open and the random draws are choices.

**LogicalSpace.** Which logical units hold data, and whether the layer is idle,
busy with work of its own, or halted. `PageMapping` implements it under the
mapping `Abstract`: a unit is mapped when the table leads to a location that
holds that unit. Collections are stuttering there, which is the point.

**Icl.** `PageRequests` is the loop of `read()` and `write()`, `WholePages` that
of `flush()`, `trim()` and `format()`, which forget offset and length.

**GenericCache.** A line has its members `valid`, `dirty` and `tag`. As the
simulator moves no data, the model adds what the data would be: the version of
a unit a line stands for, and the version the FTL was last told to store. The
eviction policies are one choice that contains FIFO, LRU and random.
`checkSequential` follows the reads; `ReadAhead` reads several units in, on a miss
or when the trigger is hit. As in `read()`, a line on its way keeps its old tag
while ways are found for the others (`Placed`), and gets its tag only after the
eviction (`ReadIn`). The offset of a read is in half units.

**HIL.** A request is a job on the least busy core, then, after the latency of
the layers below, an element of the completion queue. `CompletionEvent`,
`CompleteOnly`, `CompleteAndIssue` and `EndCompletion` are the loop of
`completion()`, cut at the callbacks, which may issue a request. `Tick` is the
clock of the event engine, which never passes over an event that is due.

**NvmeController.** One action per event: `WorkEvent` (work(), which issues
every DMA read), `FetchDone`, `QueueFunction`, `HandleRequest`, one action per
queue command, `Completion`, `PostWrite`, `Send`. Arbitration is
`CollectOrder`, round robin or weighted. The rings in host memory are part of
the queues, so that a phase bit or a slot used wrongly shows. `DeleteSQ` walks
`lSQFIFO` as the code does, with the iterator moved twice after an erase, and
on past the end as libstdc++ does. The host (`Submit...`, `HostConsume`) is an
environment: it has fewer commands outstanding than a queue has slots and one
admin command at a time; it uses no queue that it asked to delete; it reads
entries while their interrupt is pending. `Init` is a controller in use: the
queues stand at slot `Start`, so a run reaches the end of the rings within a
few commands.

**NvmeCommand.** A command of a subsystem is a chain of callbacks, so it is a
sequence of stages: firmware jobs, reads of its pointer's lists, transfers of
its data, requests to the HIL. A stage has one piece or several, joined by a
counter in the code; the pieces end in any order, in steps of their own, and the
next stage begins with the end of the last. `answers` counts the calls of the
`RequestFunction`. `moved` collects the units of data that went to their place.

**DataPointer.** An address is the number of the unit of host memory that is
there, so a unit that goes astray shows as a pair of different numbers.
`PRPList` is the walk over PRP1, PRP2 and the lists; `SGL` is that over segments;
`Transfers` is `read()` and `write()`.

**Subsystem.** One operator per admin and I/O command gives its stages, with the
error paths where the code has them. `lNamespaces` is the list (a set, as NSIDs
are unique); `FreeStarts`, `Room` and `FirstFit` are the search for free
ranges. What a
namespace remembers of its size is what the code remembers, which after a format
is the size of the whole device. The size of a logical page is two units and an
LBA one, two or four, so requests begin and end within pages.

**OpenChannel.** Revision 2.0: `writeInternal` and `eraseInternal` change the
descriptors when a command is accepted and queue a job; `FlashJob` is that job,
on the one core that runs them all (`HILCoreCount` 1), which keeps their order:
`Done` is what a job makes of the flash. `convertUnit20` and `Programmed` are
recursive functions, so that the proofs can use them.
`flash` is what the model adds: the pages of a chunk as they were programmed.
`RangeLBAs` takes the number of LBAs for the end of the range as the code does
(`ocssd.cc:1480`), and `Outcome` takes refused pages off a list as far as the
code's mask reaches (`MaskBits`). A deallocation crashes the program at its end
(`Crashed`, see section 3), after which nothing happens any more. Revision 1.2 has its commands with all their stages and the
table of bad blocks, but not their effect on the flash.

**SataHBA, UfsHost.** A command issued in a register waits in `lRequestQueue`,
is fetched by the work events (two reads, joined), and does its work: the list
of steps that the device starts one after the other. Each step is the end of a
job, of a transfer with a PRDT, or of a request below. The SATA adapter answers
by FISes, which the driver acknowledges one by one: queued commands answer
twice, when they are accepted and when they are done (`NCQAccepted`). UFS
commands end in `completion()`. The driver is part of the model: it issues
commands by the rules of its interface (no queued command beside one that is
not), and its interrupt handler takes three steps, between which anything else
may happen.

**ControllerRegisters.** One action per kind of register write, each with the end
of `writeRegister()` that makes the admin queues; `work`, `Collected` and
`Handled` are the round of `work()` of a controller whose queues are empty. Rounds
are counted: enabling a controller while an old round is in flight makes a second
one. The host writes the attributes before the addresses, and each half of an
address once, alone or with the other; the code makes the queues with the
attributes it has when the fourth half comes, and counts a repeated write. It may
disable the controller at any time, also while a shutdown is going on. What the
code then does, a controller that acknowledges the old shutdown once it is enabled
again, is part of the model.

**CommandSlots.** A slot is free, issued or worked: the driver issues on a free
slot, the device works, the driver finds slots done. Both SATA and UFS implement
this, safety and liveness, so neither gives a slot back early nor keeps it.

**Pal.** `Address` is `convertCPDPBP()`: the index of a superblock is spread
over the dimensions a superblock does not span, in the configured order. A time
line has `free`, the gaps it remembers, and `start`, from which everything is
free; `FindFreeTime`, `InsertFreeSlot`, `AddFreeSlot` work on it, with the
classes of length under which the code files gaps (`ChannelKeys`, `DieKeys`).
`Loop0` and `Loop1` are the two nested searches of `TimelineScheduling()`,
which look for a time at which the channel is free twice and the die
throughout. `served`, `written` and `stored` are added: what was given to each
operation and what lies where.

**Dram, FlashBackend.** An access to the DRAM takes the time of its pages after
those before it; one that is not scheduled takes its time but not from others,
and a refresh holds everyone back. `FlashBackend` is how the layers above use
both: the mapping is read (and written) in the DRAM first, the flash is reached
when that ends, and collections copy and erase.

**DmaFifo.** Each direction has the entries that wait to enter (`waitQueue`) and
those inside (`transferQueue`); the entry that enters is in both, as in the
code. `Enter` is `insertWrite()` and `transferRead()`, which differ only in what
the first stage is: an event, or a DMA of the upstream interface. `leaving`
holds the flags and events of the second stage. Where the code completes an
entry at once or by an event at a later tick, `DoneNext` is always an event,
which may come next. An entry remembers its request, and `moved` counts the
bytes that DMA moved for each; the code has neither.

**DmaPort.** For each direction the requests not yet answered, with the bytes
they have left to move. They are answered from the front, and not before nothing
is left. The mapping leaves out requests of no size, which the FIFO ignores. It
counts the answers; that they are those of the oldest requests (`AnsweredInOrder`)
is a part of `ImplementsPort`.

Mutants. Some definitions are followed or preceded by a variant with a longer
name and a comment that says so (`QueueFunctionEarly`, `EraseBlockLenient`,
...). Each is a plausible bug; putting it in the place of the definition makes
one property of one run fail. Nothing else uses them.

## 3. The runs

| run | properties | result |
|---|---|---|
| `ftl_pages` | TypeOK, FreeListSound, NoBlockLost, SanityChecks, CollectionKeepsUp, WearLevelled, ImplementsLogicalSpace | 576,704 states |
| `ftl_units` | MappingExact, ProgramOrder, FillTargetsMet, GCTerminates | 50,196 states |
| `icl_cache` | OneCopy, EvictionFreesSet, NewestKept | 508,113 states |
| `hil` | WakeupScheduled, InOnePlace, OnTime, AllComplete | 54,800 states |
| `nvme` | InOnePlace, NeverPanics, NoFetchFromDeleted, AfterShutdown, AllDone, ShutdownCompletes | 190,574 states |
| `nvm` | NamespacesApart, RequestsInside, AnsweredInFull, ChunksSound, FlashInOrder, AllAnswered | 287,210 states |
| `dma_fifo` | UsageExact, ImplementsPort, AllAnswered | 72,737 states |
| `host_interfaces` | ResponseWakes, UfsInOnePlace, ReadyToWork, ImplementsSlots | 206,321 states |
| `flash` | OneAtATime, DieHeldThroughout, AddressesApart | 428,324 states |
| `ftl_lanes` | LanesOpen | violated |
| `icl_read_evicts` | DirtyReachesFlash | violated |
| `nvm_smart` | PassedOnUnanswered | violated |

**What they show.** `ftl_pages`, `ftl_units`: no sequence of writes, trims and
collections loses or doubles a unit, a block or a count, until the device is
worn out. `icl_cache`: no line is cached twice, and the newest version of a unit
survives evictions. `hil`: completions come once and at their tick, whatever
callbacks issue meanwhile. `nvme`: no command is lost, done twice or posted where
the host will not look, while queues come and go. `nvm`: whatever the order in
which the callbacks of two commands run, each is answered once, when its data
has moved, unless a deallocation of an Open-Channel SSD 2.0 crashes the program
first; namespaces stay apart through creation, format and deletion;
chunks are programmed in order. `dma_fifo`: the FIFO is a DMA interface, and
no space leaks.
`host_interfaces`: no response is left without an interrupt, no doorbell starts
a command twice, and SATA and UFS keep the promise of `CommandSlots`; an NVMe
controller that shows itself ready has the queues of the last writes, and works.
`flash`: requests that arrive in any order of ticks never share a channel, a
die or the DRAM, and superpages never share a physical page.

**Bounds.** `ftl_pages`: five blocks of two pages for four logical pages, filled
to the full before the host starts; a block is retired after two erasures
(`BAD_BLOCK_THRESHOLD`), which makes the state space finite and takes every
behaviour to the end of the device's life. Collections run for every second
write, with one victim or two, and meet blocks that are full, partly valid and
empty. `ftl_units`: two lanes, two units per page mapped one by one, partial
writes, format of all pages, mode-1 reclaiming and cost-benefit selection: the
combination of all that `ftl_pages` leaves out. `icl_cache`: two sets of two
ways, six units, up to four writes, four configurations (write caching; write
caching with two-unit superpages and flush; read caching; the same with a prefetch
of four units after one sequential read): sets overflow, superpages compete for
the same slot, lines come back after eviction, and a read ahead replaces what it
read itself and runs past the last unit. `hil`:
four requests over two cores with latencies 1, 2 and 4: completions tie, overtake
and are issued from callbacks. `nvme`: an admin and an I/O pair of queues of
three slots on one vector, three commands, either arbitration: enough for an
abort or a deletion against two I/O commands, for an interrupt that waits for an
aggregation time, and for both ends of a ring. `nvm`: four commands (`MaxCommands`), two at a
time, over four logical pages of two units; four data pointers (within a page,
across two, through a list of two pages, a SGL with a bit bucket); three sizes
of LBA; two chunks of two pages: enough to create, format, delete and
create again, or to fill a chunk, reset it and write it again while the first
job waits, or to fill both and reset them with one command. `dma_fifo`:
transfer units of two bytes, FIFOs of four units and of two and a half, three requests of sizes 0, 1, 3 and 11 in both
directions: of no size, less than a unit, no multiple of one, and larger than
the FIFO, so that a request is split up to four times while others wait.
`host_interfaces`: two slots, two SATA commands (a queued read and a queued write
together, or commands that are not queued after them), a reset of the adapter
before and after; three UFS commands, so that a slot is used again, and two UIC
commands, whose interrupts get between; the NVMe controller is brought up three
times, with other queues each time, so that up to three rounds of work overlap.
`flash`: one channel, two packages of two dies,
superblocks of two dies of one package, two pages; four operations (`MaxWork`)
at the clock or seven ticks ahead of it (`Delay`), so that gaps form and are
filled, with one refresh and one flush of old gaps. The times are small numbers that
differ by operation and page; four operations are enough for a gap between two
reservations to be split, used up and reused.

**Fairness.** `PageMapping`: weak fairness of the collection only: it is one
call, which runs to its end; the host owes nothing. `HIL`: weak fairness of the
engine: events that are due run. `NvmeController`: weak fairness for each chain
of events by itself (loop, reads, each command below, completion event, DMA
writes, each aggregation time, each completion queue the host reads); nothing
makes the host submit. `NvmeDevice`: weak fairness of the steps of each command
and of the flash jobs. `HostInterface`: weak fairness of each event, of each
command's own steps and of the driver's interrupt handler; nobody has to issue
a command; none of the NVMe registers. `DmaFifo`: weak
fairness of each event and each DMA of the upstream interface. All of this is the engine's: an event that was scheduled is run.
Nowhere strong fairness, and none in `GenericCache` and `FlashBackend`, whose
properties are about safety.

**Deadlock** is not checked: all these systems may stop (a panic, a device worn
out, all requests done, a controller shut down).

### What the violations show

* `ftl_lanes` (`page_mapping.cc:366`): with more than one lane, a collection may
  erase a full block that a lane still points to. The next write of that lane
  fails the code's own sanity check, `panic("Corrupted")`.
* `icl_read_evicts` (`generic_cache.cc:454`): when reads and writes are cached, a
  read miss clears the dirty flag of the line it replaces before the eviction
  that should write it; the FTL never gets the data.
* `nvm_smart` (`subsystem.cc:640`): the health log of one namespace is answered
  by the subsystem and then passed to the namespace all the same, which answers
  a second time.

### What the hosts of the models leave out

The models behave like the code also where it goes wrong, and the runs show
what holds for hosts and configurations that stay clear of the following. Each
was met while modelling; but for the mask of `writeInternal()`, nothing in the
repository states the opposite.

* One I/O unit per page: `getPageInfo()` calls every page valid
  (`block.cc:258`), so a collection copies stale pages over newer ones. Trim of
  a page written in part panics (`page_mapping.cc:830`).
* Flush leaves lines dirty (`generic_cache.cc:768`) and trim of one cached unit
  discards its page (`:800`).
* Low-priority queues are never served under weighted arbitration
  (`controller.cc:1513`): `AllDone` leaves them out. A completion queue deleted
  while a command runs below makes its completion panic (`:1661`): hosts drain
  first (`HostDrains`). The interrupt of an aggregation time that ends
  with nothing to post is dropped (`:1818`): `AllDone` leaves coalescing out.
* A queue creation that the controller refuses is never answered
  (`subsystem.cc:556`): `AllAnswered` leaves it out. A second create that
  overlaps the first picks the same NSID (`:1042`); an invalid LBA format sets a status
  and is used all the same (`:994`); deletion of a formatted namespace takes
  the size of the device from the account (`:249`, `:1269`): hosts create one
  namespace at a time and delete none that was formatted to more than its range
  (`HasRoom`), nor one in use (`InUse`).
* Trims of two ranges use a counter after it was deleted (`namespace.cc:605`);
  65,536 blocks wrap to none (`:290`).
* A PRP2 that points to the second page of an unaligned transfer of less than
  two pages is taken for a list, and a chain of lists loses a page
  (`dma.cc:155`): the pointers are `Understood` and their lists fit a page.
* A reset of several chunks, one of them invalid, resets descriptors of chunks
  that it does not erase (`ocssd.cc:1729`). The host resets several chunks only
  when none of them is refused and no other reset is outstanding, and begins no
  other until that one ends (`HostMayReset`); resets of one chunk are free.
* "Remove invalid LBAs" says the comment over the loop of `writeInternal()` that
  takes refused pages off the list (`ocssd.cc:1642`). Which they are it reads from a
  mask of 64 bits, and its `idx` is zero after 64 pages: a write of 66 pages to a
  closed chunk is refused as a whole, and its last two pages are programmed all the
  same, over what the chunk holds, without a trace in the descriptor. A command has
  up to 65,536 LBAs. The model does the same (`Outcome`): with one chunk of 66 pages
  and two writes of all of it (`MCOcssdLong.cfg`, beside the runs) TLC finds
  `FlashInOrder` violated. The writes of `nvm` are shorter than the mask, and the two
  theorems about chunks assume so (`ListsInMask`).
* A deallocation of an Open-Channel SSD 2.0 crashes the program. It gives
  `eraseInternal()` its `DMAContext` (`ocssd.cc:2167`), which is taken for an
  `IOContext`: where that has `dword0` and `reserved` of the completion entry
  (`:1702`, `:1742`), a `DMAContext` has the pointer `context`, which becomes -1, or the
  mask of the chunks that were refused. `eachTrimDone` (`:2130`) passes it to
  `trimDone`, which reads the command's function from there. The error of a refused
  chunk is written behind the object (`:1720`), not to the command. No host is kept
  from it: in `nvm` a deallocation changes the descriptors and the flash, and its
  last stage is the crash (`datasetManagement20`, `Crashed`), after which no action is
  enabled. `AllAnswered` says that a command is answered or the program crashes;
  that the crash itself comes is a part of it.
* A SATA command that is not queued on slot 0 is taken for done when an older
  queued one is acknowledged (`hba.cc:513`): the driver uses other slots.
* UFS commands of the native or device management sets are never answered
  (`ufs/device.cc:795`).

## 4. The proofs

The theorems hold for all values of the constants that satisfy the assumptions of
the modules: any geometry, any number of requests, commands, slots, sets or
namespaces, where the runs have the few of section 3. Further assumptions stand in
the theorem that needs them, and each of them excludes a configuration for which
the statement is false in the code.

| theorem | property | assumes |
|---|---|---|
| `PageMapping_proofs`: `TypeCorrect`, `MappingIsExact`, `FreeListIsSound`, `ProgrammedInOrder`, `WearIsLevelled`, `LogicalSpaceImplemented` | TypeOK, MappingExact, FreeListSound, ProgramOrder, WearLevelled, ImplementsLogicalSpace | `IOUnitInPage # 1` |
| `NoBlockIsLost` | NoBlockLost | the same, `BadBlockThreshold # 0` |
| `SanityChecksHold` | SanityChecks | `PlainConfig` |
| `GenericCache_proofs`: `CacheTypeCorrect`, `UnitsCachedOnce`, `EvictionAlwaysFreesSet`, `NewestNeverLost` | TypeOK, OneCopy, EvictionFreesSet, NewestKept | |
| `HIL_proofs`: `RequestsInOnePlace` | InOnePlace | |
| `RequestTypeCorrect`, `WakeupAlwaysScheduled`, `RequestsOnTime` | TypeOK, WakeupScheduled, OnTime | `0 \notin ServiceLatency` |
| `HostInterface_proofs`: `ReadyToWorkAlways`, `UfsTypeCorrect`, `UfsAlwaysInOnePlace`, `SataTypeCorrect`, `ResponseAlwaysWakes` | ReadyToWork, UfsTypeOK, UfsInOnePlace, SataTypeOK, ResponseWakes | |
| `SlotsImplemented` | the safety of ImplementsSlots | `ZeroIsQueued` |
| `NvmeController_proofs`: `NothingAfterShutdown` | AfterShutdown | |
| `ControllerInvariant`, `QueuesNeverFail`, `ReadsFindTheirQueue` | NeverPanics, NoFetchFromDeleted | `HostDrains` |
| `CommandsStayInOnePlace` | InOnePlace | `HostDrains`, `EveryQueueFetched` |
| `NvmeDevice_proofs`: `NamespacesAlwaysApart` | NamespacesApart | `WholeFormats`, `DefaultsCreated` |
| `FlashAlwaysInOrder`, `ChunksAlwaysSound` | FlashInOrder, ChunksSound | `ListsInMask` |
| `CommandsAnsweredInFull` | AnsweredInFull | `ListsFit`, no `namespaceLogPage` |
| `RequestsAlwaysInside` | RequestsInside | `WholeFormats`, `DefaultsCreated`, `AlignedLBAs` |
| `DmaFifo_proofs`: `FifoTypeCorrect`, `UsageAlwaysExact`, `AnsweredAlwaysInOrder`, `PortImplemented` | TypeOK, UsageExact, AnsweredInOrder, ImplementsPort | |

Each rests on an inductive invariant: there is a lemma for each operator that
changes the state (what it keeps), one for each action, and one that puts them
together (`StepInv`, `StepChecks`, `ScheduleStepInv`, ...).

**Page mapping.** None of the properties is inductive alone. The invariant is
`IInv == FlashInv /\ AllocInv /\ IdleBlank /\ StackInv`. `FlashInv` says what
table and blocks say of each other, and that what lies beyond a write index is
erased: a program overwrites an erased unit only because of this. `AllocInv` says
the same of the free list and the blocks in use. `IdleBlank` is needed when a
block is taken into use: it is erased, and the table points nowhere into it.
`StackInv` says where the call stack can be: filling stops at its target, a
collection that copies or erases is at one of its victims, and `panicked` goes
with a message. That an erase drops no valid unit needs no clause: the code checks
it and panics, and the panic is a state like the others.

`NoBlockIsLost` adds that a block out of service was erased `BadBlockThreshold`
times and one in service less often; with a threshold of zero, blocks are out of
service before they were ever erased. `WearIsLevelled` is an action property: the
free list is sorted by erase counts (`FreeListSorted`), because an erased block is
put in behind those with no more erasures, so the first block a lane may take is
the least worn of those it may take. `LogicalSpaceImplemented` is the refinement,
initial states and steps: the lemmas about `Program` and `Discard` say which units
are mapped afterwards, those about the collection that none changes.

`SanityChecksHold` says that the code never stops at a check of its own. Its
invariant `ChecksInv` adds to `IInv` that no panic but a shortage of free blocks
was met, that the victims of a collection are full blocks in use, each once, that
those copied are left without a valid page and the open block is none of them by
the time they are erased (`VictimsInv`), that the open block is in use
(`OpenInv`), and that filling takes a new block only when the last is full
(`FillInv`). `PlainConfig` names the configurations, and for each one left out a
check can fail: with a second lane, a collection reclaims the block another lane
points to (run `ftl_lanes`), and a format does the same to the open block of the
only lane, or copies into one of its own victims; pages written in part meet
"Block is not in use" when they are trimmed (`page_mapping.cc:830`); the policies
that draw at random index an empty vector when no block is full; more pages to
fill than `MaxPagesBeforeGC` wrap the number of pages to invalidate. The shortage
of free blocks is not one of these checks: that collections keep up with the host
(`CollectionKeepsUp`) depends on the numbers of the configuration, and is a
question for the runs.

**Cache.** `CacheInv` is the type invariant, `OneCopyIn(cache)`, that no eviction
failed (`~corrupted`), and `Kept`: whatever the host wrote last is in the flash or
in a dirty line. `OneCopyIn` says set by set that a line is in the set of its tag,
which an eviction by superpages needs to find its candidates where it looks. That
an eviction frees a way of the set is proved from the forced candidate of that
set: it is the only one that competes for its slot and wins whatever the ages are.
`NewestKept` holds, as it says itself, with one unit per superpage, without flush,
and without read and write caching together; the other cases lose data (run
`icl_read_evicts` and section 3).

**HIL.** `RequestInv` places every issued request: on one core once, in the
completion queue once, or done. `ScheduleInv` adds the schedule of the one event:
it is set for the first request to finish, or the loop of `completion()` is
running and has not yet come to its end; `lastScheduled`, which decides whether
the event is moved, is either the time it is set for or in the past. This needs
the layers below to take time: a request that finishes at the tick of its issue,
while the event of that tick is served, leaves `lastScheduled` equal to the new
earliest time and the event unset.

**Host interfaces.** `RegistersInv`: the writes of the host come in order, what
was counted is what was written (`WritesInOrder`, `Programmed`), and a ready
controller has a round of its work in flight or scheduled (`LoopAlive`). It
follows that the fourth half of an address, whichever it is, finds the attributes
of the same bring-up. `UfsInv`: the doorbell is `pendingInterrupt`, a slot of it
is waiting, being read, worked at or answered, in exactly one of these places and
once (`Places`, `Rung`). `SataInv`: the list of requests, the commands at work and
the responses; a response that waits has a FIS on its way, a raised interrupt, or
a handler that has not yet acknowledged (`Announced`), for each step of the
handler.


`SlotsImplemented` says that both adapters keep the promise of `CommandSlots`, step
by step. For SATA it needs `SlotsInv`: no two responses that wait go on with the
same command or clear the bit of the same slot, but for slot 0 (`Apart`); a command
is at one stage, and only the job of a queued read runs beside its work (`OneWay`);
until its last FIS a command owns its slot, and until the FIS that names the slot its
bit is set in PxCI (`Owned`); a slot whose command is not answered is set in PxSACT
or PxCI, so that the driver takes only what was answered for done (`Held`).
`ZeroIsQueued` leaves out a plain command on slot 0, whose bit the acknowledgement
of a queued command clears (`hba.cc:513`).

**NVMe controller.** `Quiet`: after a complete shutdown no read is in flight, nothing
waits in `lSQFIFO`, and the loop is past the point where it collects. So
`handleRequest()` finds no command; `deleteSQueue()` and `abort()`, which still run
for commands given to the subsystem before, find none to abort either.

The other properties of the controller hold together or not at all: a command is in
one place only if the rings do not overflow, a ring does not overflow because each
entry in it is another outstanding command, the queues are there because no admin
command deletes one that is in use, and that admin command is itself on its way
through the same queues. `Inv` says all of it.

* `SqsOk`: the entries of a submission queue, those whose DMA read is in flight
  first, are different outstanding commands of that queue; the slot of each read is
  that many places behind the tail. What is left of the ring may be stale.
* `CqsOk`: a slot of a completion queue is in use exactly when it holds an
  outstanding command, either in the memory of the host with the phase that the host
  expects there, or in one DMA write that will bring it with that phase. This is what
  makes the phase bit work across the end of the ring, with DMA writes that land in
  any order.
* `Stages`: every command that the host waits for is at exactly one stage.
* `ReadsOk`: outside of a collection no read is in flight; a queue that is gone has
  nothing left to collect.
* `CommandsOk`, `HostOk`, `AdminsOk`: which queues exist follows from those that the
  host uses and the admin command in flight: one that deletes a queue has had its
  effect when it is finished or posted (`Late`), and before that the queue is
  there; the argument of a deletion is drained, by the rounds of `work()` between
  the last command of the queue and the deletion.

There is a lemma for each action and, below it, one for what it does to one ring
(`SubmitOne`, `ReadEnds`, `Collected`, `PostOne`, `LandOne`, `ConsumeOne`), one for
what a collection takes (`CollectsAll`, from the turns and passes of the
arbitration) and one for the walk of `deleteSQueue()` over `lSQFIFO`, which passes
over some of the entries (`Aborts`). `HostDrains`: for a host that deletes a
completion queue too early the panic is reachable (`:1661`). `InOnePlace` follows
from `Inv` by counting the places that a stage stands for; `EveryQueueFetched`
leaves out weighted arbitration with queues of low priority, which are never
fetched from: a command in one of them is lost when the queue is deleted.

**Namespaces.** `DeviceInv == Accounts /\ Creations`. `Accounts`: NSIDs and ranges
are apart and inside the device, the account of pages is their sum, and a deletion
computes the pages of a namespace from its size as long as it claims no more than
its range (`Exact`). `Creations`: at most one command on its way creates a
namespace, under an NSID that no other has. `DataLemmas` and the first lemmas of
`NvmeDevice_proofs` prove what a sum over a set of ranges does when one is added,
removed or replaced. `WholeFormats` says that the LBA sizes divide the device, as
they do when a logical page is a multiple of 4 KiB, the largest LBA: otherwise a
format rounds the size of a namespace down, and a deletion may give back a page
too few. `DefaultsCreated` says that the namespaces made at start have at least a
page; the program panics at start if they cannot be created.

**Open-Channel.** The descriptors run ahead of the flash: a command changes them
when it is accepted, its job changes the flash later, and other commands come
between. `ChunkInv == FlashAhead /\ Commands20`. `FlashAhead` says that there is a
sequence of contents of the flash (`Foretells`), one for each job that waits: the
first is the flash, each follows from the one before by the next job (`Done`),
chunks are in order in all of them, and the last is what the descriptors tell. A
command that is accepted makes this sequence longer by one, and a job that runs
makes it shorter at the front; neither touches the rest. `Commands20` says that a
command reaches the flash once, with pages of the device, and that a command that
resets several chunks and has not reached `eraseInternal()` yet still finds them
closed: the rule of `HostMayReset`, kept through every step of the other command.
`ListsInMask` says that no write is for more than 64 pages: what is left of its list
is then the pages before the first that was refused (`OutcomeInMask`), which are the
ones the descriptors record. Without it both statements are false in the code
(`MCOcssdLong.cfg`). Resets need no such bound: of a reset of several chunks none is
refused, and the mask is not used.

**Commands.** `FullInv` says of every command (`Fulfils`): what it has moved and
what its transfers under way will move is part of what it has to move, and all of
it unless it failed or a later stage will move the rest (`Moving`); the answer
comes after the last stage. Each operation has a lemma that its stages move the
data of its pointer (`Suits`), and each way to go on one that it keeps what was
moved (`PieceMoved`, `NextStageFulfils`, `FailFulfils`). Below that is what
`dma.cc` computes, for every pointer: the regions of a PRP or an SGL lie one behind
the other from the first unit on (`Regular`: `PRPHolds`, `SGLRegular`), and of such
a list the loop of `read()` and `write()` makes transfers that move each unit
once, to its place, but those of bit buckets (`TransfersMove`). `ListsFit` leaves
out a second PRP list: `getPRPListFromPRP()` counts the entry that leads to it as a
page, and the command succeeds without the last one (`dma.cc:155`). Without
`namespaceLogPage` no command is answered twice (run `nvm_smart`).

**Requests.** `IoInv` says of every I/O command whose namespace was found that the
namespace is still there with the range, size and LBAs it had, and that its
request, once its job converted it, is the one for its LBAs (`ForNamespace`). No
step undoes this: the host neither deletes nor formats a namespace that commands
are on their way to (`InUse`), one that is created gets an NSID that none of them
found, and to attach one changes nothing they depend on. The rest is arithmetic, for every size of LBA and
of page: `ConvertedUnits` (what `convertUnit()` computes spans exactly the units of
the LBAs, in either of its branches), `PiecesMade` and `UnitsOfPage` (what the loop
of `read()` and `write()` in `icl.cc` cuts for page i is the units of the request on
that page), `PiecesOfUnits` and `WholePagesUnits` (all of them together). Products of
two sizes are beyond the arithmetic of the prover; a handful of lemmas
(`TimesSum`, `TimesOrder`, `DividesRest`, ...) states what is needed of them.
`AlignedLBAs` says that the LBA and the logical page divide each other:
`convertUnit()` divides one by the other and drops the rest, so that with LBAs of 4
on pages of 6 units it would take LBA 1 to lie on the second page.
That a command has at least one LBA comes from `namespace.cc`, which refuses others
(the 16-bit count wraps to 0).

**FIFO.** `FifoInv` says of each direction (`Sound`) that the entries inside and
those that wait, one after the other, are a stream of pieces (`Pieces`): the first
ones of the oldest request that is not answered, then those of the next, each
beginning where the last one ended, and only the last piece of a request is marked
so. How many of them have moved follows from the stages (`Gone`): of reads those
inside whose DMA ended, of writes the first once it is about to be answered;
`Reading` relates the numbers of reads to `readCompletion`. The bytes that a request has left to move are then
the sizes of its pieces that have not moved. The space in use is a sum over the
queue (`Space`), and the requests to answer are those of some size (`Real`), both
recursive functions. `EnteredKeeps` is the lemma about `Enter`, which splits a
piece and keeps the stream; one lemma for each action says which of the queues it
changes and how, and `DirectionStep` that a step of one direction leaves the other
alone. `AnsweredInOrder` and `ImplementsPort` follow: the entry that leaves is the
last piece of the oldest request, and nothing of it is left to move.

**Methods.** What a recursive function or a fold gives for every input is
induction over data; the induction theorems of the library take an operator as a
parameter, which the provers cannot instantiate. For one given function it can be
done all the same, with the set of numbers for which the claim holds: the sums
over namespaces, the lists of `convertUnit20`, the pages of `Programmed`, the lists
of `dma.cc` and its transfers are proved like this, and so are `Space` and `Real`
of the FIFO.

**Only model-checked.** Liveness (`GCTerminates`, `AllComplete`, `AllDone`,
`ShutdownCompletes`, `AllAnswered`, and the fairness in `ImplementsSlots`): the
prover has no rule for ENABLED. `CollectionKeepsUp`, which
not every configuration satisfies. `FillTargetsMet`. `Pal`, `Dram` and
`FlashBackend`: that the two searches of `Pal` end with a time that is free is
induction over how far the time lines reach, and addresses apart is an argument
about products of sizes in any order.

## 5. Not modelled

Statistics and power (McPAT, DRAMPower) everywhere; firmware latencies, except as
steps that take time; the disk image (`util/disk.cc`: file I/O); the contents of identify data, logs, features and
descriptors of NVMe, SATA and UFS; the NVMe interrupt mask, which is only read
back, and I/O queues and commands that outlive a disabling of the controller; command completion coalescing of AHCI; the effect of Open-Channel 1.2
commands on the flash, and Open-Channel devices of several parallel units; the
bookkeeping of `PAL2.cc` that only feeds statistics (merged slots, stamps); the
bus delays of `interface.cc`; the bundled RISC-V emulator, McPAT and inih;
parsing of configurations. `NvmeController` leaves out the submission queue head
that completions report: the host counts its commands.

## 6. Plan

The modules are in place and the main safety properties of most are proved. What
is left to prove, in this order:

1. `Pal`: `DieHeldThroughout`, from lemmas about `InsertFreeSlot` and the two
   searches.
2. `FlashBackend`: `OneAtATime`, from the same lemmas.

Modelling left: a composition of `GenericCache` over `LogicalSpace`, trims of
several ranges, and Open-Channel 1.2 on the flash.
