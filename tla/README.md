# PCSX-Revolution in TLA+

Formal models of the control logic of PCSX-Revolution, a PlayStation emulator
for the Wii (a port of PCSX-Reloaded), with model checking by TLC and proofs by
TLAPS.  The models are translated from the code in `src/`; `PROJECT.json` maps
every definition to the lines it stands for.

## 1. Inventory

The emulator is one thread that interprets MIPS code and, between basic blocks,
runs due *events*: the device models' delayed work.  Devices are C functions on
global structures, called from the guest's loads and stores (`psxhw.cpp`), from
the event scheduler (`psxevents.cpp`) and from each other.  Three things run beside it:
the thread that plays audio tracks from a disc image, and on the Wii an audio thread
and the interrupt that tells it that a buffer has been played.

| Component | State | Operations | Talks to | Hard behaviour |
|---|---|---|---|---|
| Event scheduler (`psxevents.cpp`) | delta list, `evtCycleDuration`, `evtCycleCountdown`, `psxRegs.cycle` | `Schedule`, `Cancel`, `ExecutePendingEvents`, `psxBranchTest` | every device; called again from inside its own handlers | late branch tests, overdue events, signed/unsigned deltas, re-entry through the HLE BIOS |
| CPU core (`R3000A/`) | registers, CP0 Status/Cause/EPC, branch state | `execI`, `psxException`, `psxBranchTest`, MTC0, RFE | scheduler, interrupt controller | exceptions in delay slots, cycles charged per instruction |
| Interrupt controller (`psxhw.cpp`) | I_STAT 0x1070, I_MASK 0x1074 | `psxRaiseExtInt`, `psxTestIntc`, register writes | CPU, scheduler, every device | an interrupt raised, masked, acknowledged and enabled in any order |
| DMA controller (`psxdma.cpp`, `psxhw.cpp`) | MADR/BCR/CHCR per channel, PCR, ICR | `DmaExec`, `psxDma0..6`, `psxDmaInterrupt`, ICR write | GPU, CD-ROM, SPU, MDEC, interrupt controller | completion flags against acknowledgement |
| CD-ROM controller (`cdrom.cpp`) | `cdrStruct`: pending response, status, result/parameter queues, read state | `cdrWrite0..3`, `cdrRead0..3`, `cdrInterrupt`, `cdrReadInterrupt`, `psxDma3`, `cdrFreeze` | scheduler, interrupt controller, disc image | two events and the guest interleaving on a one-deep response queue |
| Root counters (`psxcounters.cpp`) | count, mode, target, start cycle of three counters, video timing | `psxRcntW*`, `psxRcntR*`, update events | scheduler, interrupt controller, SPU, GPU | wrap-around, rescheduling on writes, lazily computed values |
| Serial port, pads, memory cards (`sio.cpp`) | `padst`, `mcdst`, transfer buffer, STAT/CTRL registers, card images | `sioWrite8`, `sioRead8`, control writes, `sioInterrupt` | scheduler, PAD plugin, card files | byte-level protocol abandoned or restarted half-way |
| MDEC (`mdec.cpp`) | command, status, output state | `mdecWrite0/1`, `mdecRead0/1`, `psxDma0/1` | DMA | order of the input and output transfers |
| Memory map (`psxmem.cpp`) | read/write tables, cache-isolation flag | `psxMemRead*`, `psxMemWrite*` | CPU, dynarec, devices | writes dropped while the cache is isolated |
| HLE BIOS (`psxbios.cpp`) | event control blocks, threads, heap, file descriptors and directory walk, interrupt chain | BIOS calls, `psxBiosException` | CPU, pads, cards | guest code run inside the exception handler; long sequences of calls on hand-made data structures |
| Save states (`misc.cpp`) | all of the above, written to a file | `SaveState`, `LoadState` | every component | state that is not saved, or saved as pointers |
| Wii audio output (`Gamecube/SPU/cube_audio.cpp`) | ring of eight buffers, three semaphores, DMA state | `add_to_buffer`, `play_buffer` thread, `done_playing` callback | SPU plugin, audio DMA | producer, thread and interrupt in any order; shutdown |
| Recompilers (`R3000A/ix86`, `ix86_64`, `ppc`) | code cache | `recExecute`, `recClear` | memory map, scheduler | stale code after a store |
| GTE (`gte.cpp`) | coprocessor-2 registers | vector arithmetic | CPU | saturation (data, not control) |
| XA decoder (`decode_xa.cpp`) | ADPCM history | `xa_decode_sector` | CD-ROM, SPU | arithmetic |
| Disc images (`cdriso.cpp`) | track table; `playing`, `cddaHandle`, `initial_offset`, `cddaCurOffset`, shared with `playthread` | `CDR_*`, `startCDDA`, `stopCDDA` | CD-ROM, SPU plugin | a thread and no lock; file formats |
| Plugin loader (`plugins.cpp`) | function pointers | `LoadPlugins` | everything | none |
| Cheats (`cheat.cpp`), debugger (`debug.cpp`, `socket.cpp`) | code lists, breakpoints | apply codes, protocol | memory map, CPU | text protocols |
| GPU, SPU, PAD plugins; GUIs (`Gamecube/`, `plugins/`, `gui/`, `macosx/`, `win32/`) | rendering and sound state | PSEmu plugin interface | core | third-party code and user interface |

What makes each component correct:

* **Scheduler** - every event runs exactly at its deadline, once, in deadline
  order; the emulated clock goes back only while a late store has the list out of order; the delta arithmetic never drifts.
* **Interrupt controller and CPU** - an unmasked, enabled interrupt is delivered;
  a masked or acknowledged one is not; none is lost between two acknowledgements.
* **DMA** - the interrupt line follows the flags and masks; a started transfer
  completes; an acknowledgement clears what it names and nothing else.
* **CD-ROM** - every command gets its response, no response overwrites one the
  guest has not acknowledged, sectors come in order and are not skipped.
* **Counters** - the value computed on a read and the event that interrupts tell the same
  time; readings run on evenly however events cut up the cycles; a repeating
  counter goes on if its target resets it or its overflow interrupts.
* **Serial port** - a pad or card transaction restarts cleanly whenever the
  control register is reset; a card page is written whole or not at all, where it was
  sent; the card's file follows.
* **HLE BIOS** - blocks of the heap never overlap and none is refused while there is room; a
  call on a file of a card changes that file and no other, in memory and on disk.
* **Audio tracks** - a call never waits for ever for the thread; nothing sounds after a
  stop; the position the guest is told follows what sounds.
* **Save states** - what is loaded behaves as what was saved.
* **Audio** - buffers are played once, in order, never while being filled; the
  producer and the thread never block each other for ever.

## 2. Plan

The order follows what everything else rests on: the scheduler first, then the
two controllers through which devices reach the guest, then the devices.

| Step | Modules | State |
|---|---|---|
| 1 | `EventTimeline` (abstract), `PsxEvents`, `PsxEventsHLE`, `PsxEvents_proofs` | done |
| 2 | `IntC`, `Interrupts_proofs` | done |
| 3 | `PsxDma`, `PsxDmaGuest`, `PsxDma_proofs` | done |
| 4 | `Cdrom`, `Cdrom_proofs` | done, without the data port and save states |
| 5 | `AudioQueue` (abstract), `CubeAudio`, `CubeAudio_proofs` | done |
| 6 | `PsxCounters`: the computed count against the counter's event, with `psxRcntW*` in between | done for the system clock and its eighth |
| 7 | `MemCard` (abstract), `Sio`, `Sio_proofs` | done |
| 8 | `Cdda`, `Cdda_proofs` | done |
| 9 | `Allocator`, `CardFiles` (abstract), `BiosHeap`, `BiosCard`, `Bios_proofs`, explored together by `MCBios` | done |
| 10 | `Console`: the composition of `PsxDma` and its guest with `IntC`, theorems in `PsxDma_proofs` | done |
| 11 | the same for `Cdrom`, in place of its bit `raised` | to do |
| 12 | the vertical retrace and the horizontal clock of the counters; the emulated BIOS's event control blocks; MDEC's busy bit | to do |

Proofs still worth having: of the properties the runs check only the liveness ones are without a theorem, and
stay so (section 6).  Next are lemmas that would let the devices be composed: that `Cdrom` drives `IntC` only by its steps, as
`ConsoleImplementsIntC` says of the DMA controller, and that a counter's `Schedule` is the `Schedule` of `PsxEvents`.

## 3. The modules and the code

Conventions.  Variables carry the names of the C variables; what the code does
not have is marked *history* in its declaration: a history variable records the
past for a property.  A guard reads one only to state a bound (`due` in `WithinBounds`) or for what the
guest knows: `owed` of a polite guest of `Cdrom`, `held` of `BiosCard` and `blocks` of `BiosHeap`.  `HLE`, `SpuAsync`, `manners`, the
`step` "wild" of `PsxDmaGuest` and `part` of `MCBios` are *configuration*: chosen by `Init`
and kept by every step, so that one run covers every configuration.  A
definition commented "Variant" is a plausible wrong form of the definition it
stands before; no specification uses it.  It records what the properties are able
to tell from the right one (`PROJECT.json`, "mutants").

### Event scheduler: `EventTimeline`, `PsxEvents`, `PsxEventsHLE`

`EventTimeline` is what devices expect: a set of armed events with deadlines;
events fire in the order of the deadlines, each at its own instant, and the CPU
does not go on while one is due.  There is no list in it.

`PsxEvents` is `psxevents.cpp`.  `List` is the linked list without its Idle node,
each entry with its `RelativeDelta`; `evtCycleDuration` and `evtCycleCountdown` are
the two registers, and `Timer` bundles the three so that `Schedule`, `Cancel` and
`AddCycles` are functions from timers to timers, as their C counterparts are called
in sequence (`Schedule` cancels first).  `StopsAt` is the search for the insertion
point, with the unsigned comparison of the code (`UGreater`).  `due` is a history
variable: the deadline each event was last scheduled with, relative to
`psxRegs.cycle`.

| Action | Code |
|---|---|
| `Instruction` | the cycles of one instruction come off the countdown |
| `GuestSchedule`, `GuestCancel` | a device register's handler, called by a store in the guest |
| `BranchTest` | `psxBranchTest` finds the countdown at or below zero and enters `ExecutePendingEvents` |
| `ExecuteHead` | top of its loop: the head is unlinked and its `Execute()` called, with `psxRegs.cycle` set to the deadline |
| `ExecuteIdle` | the same iteration when only the Idle node is left: it is popped, put back by its handler, and the counters are reloaded |
| `HandlerSchedule`, `HandlerCancel`, `HandleSPU` | what `Execute()` does to the list |
| `Return` | `Execute()` has returned; the countdown is reloaded with the head's delta less the lateness kept in `oldtime` |

A branch test comes only at the end of a basic block, so the countdown passes zero
by up to `MaxOvershoot` cycles, and the guest may store to device registers in that
time.  `MayAccess` allows these late stores; its only bounds are `MaxLate`, how overdue an event may be by
then, and `MaxPending`.

`PsxEventsHLE` adds what happens without a BIOS image: the exception event's handler
calls the game's interrupt routines with `softCall`, which runs the interpreter, and
with it branch tests and `ExecutePendingEvents`, inside the handler
(`SoftCall`, `SoftReturn`; `outerOldtime` is the suspended invocation's local).  Both counters are zero when the
routine begins, so each of its stores before its first branch is a late one.

### Interrupts: `IntC`

`ISTAT` and `IMASK` are sets of sources; `ie` is Status bits 0, 2, 4, the stack of
enable bits; `im`, `sm`, `sw` the masks and the software interrupt request.  `evt` says
whether the Exception event is scheduled: raising an interrupt only schedules it,
and its handler looks at everything again (`ExecuteException`).  The actions are the
guest's stores (`WriteISTAT`, `WriteIMASK`, and the 8-bit `WriteByteISTAT` and `WriteByteIMASK`, which store
as they are and test nothing), MTC0 to Status, with its whole stack of enable bits, and to Cause, `RFE`,
`Syscall`, the BIOS calls that write Status or I_MASK directly (`Critical`,
`StartRCnt`, `StopRCnt`, for a counter or the vertical blank, `StartPAD`), the devices' `DeviceRaises`, `VBlankEvent`, and
`DmaSetsCause`, and the emulated BIOS's handler: `BiosCounter` for each root counter
(it acknowledges, calling guest code), then `BiosReturn` or, with an entry hook,
`BiosHook`.  A write to I_STAT ANDs with I_MASK too, as the code does (`Written`).
`opened` (history) marks that something which never calls `psxTestIntc` has made an
interrupt deliverable; `frames` (history) the enable bit at the last two exceptions.
Any due event may run in a drain, in any order: the order is `PsxEvents`' subject.

### DMA: `PsxDma`, `PsxDmaGuest`

`flags`, `mask`, `master`, `irq` are ICR; `busy` is bit 24 of every CHCR; `event` is the set
of channels with a completion event.  `WriteCHCR` is a store to CHCR with the whole of
the channel's function: a transfer that ends at once calls `HW_DMA_END` inside the
store, one that ends later schedules its event.  A transfer that does not start keeps its busy bit and never
ends (`ignored`): a mode the channel does not know, a channel PCR disables, a CHCR stored by bytes, which
`DmaExec` does not see.  `psxDmaUpdate` recomputes bit 31 and
raises `PsxInt_DMA`.  `StoreICR` is an 8-bit store into ICR (a 16-bit one is two of them), which changes it without
`psxDmaUpdate`; `bypassed` (history) holds from there to the next update.  `disturbed` (history) marks events that outlive a store to CHCR.

`PsxDmaGuest` has two guests.  The wild one stores what it likes, and every property about the
controller alone holds with it.  The other sets up PCR and ICR (`SetUpPCR`, `SetUpICR`),
starts transfers (`Start`), and has an interrupt handler that acknowledges I_STAT, reads
ICR, and acknowledges what it has read; an end may fall between any two of these steps.

### DMA and interrupts together: `Console`

`Console` puts that guest on the CPU of `IntC` (`Cpu`, an instance over the console's variables, with a BIOS image:
`HLE` is false).  Its main program unmasks (`Unmask`) and enables interrupts, disables them for a while
(`Disable`, `EnableAgain`), and calls the BIOS (`CallBios`, `BiosReturns`); its handler reads I_STAT once (`Dispatch`), serves what it has read
(`AckVBlank`; `AckDMA`, `ReadFlags`, `WriteFlags`) and returns (`Leave`).  A store or an event that runs `psxDmaUpdate` with bit 31 set
raises the interrupt in `IntC` in the same step (`Raises`).  So the end of a transfer has a long way: ICR, I_STAT,
I_MASK, the Exception event, Status when the event is handled, the handler.  An end that comes while interrupts are disabled
finds its Exception event used up in vain, and RFE, which enables them, does not test; `EnableAgain`, an MTC0, does, and so does
the next vertical blank.

The emulated BIOS is left out here: when its handlers are done it clears all of I_STAT (`BiosReturn`), and with it an end that was raised while
they ran.  `BitsAgree` ties `dmaIrq`, the bit as the controller and its guest know it, to I_STAT.  The
program around the wild guest is not explored: it stores to the controller alone.

### CD-ROM: `Cdrom`

`Irq` is the one-deep queue of `AddIrqQueue`: a command and whether its first or second
response is due; `evt` and `readEvt` are the two events; `Stat` is the unacknowledged
cause.  `Command` is a write to register 1 (`cdrWrite1`), with `FirstResponse`,
`StartReading` and `StopReading`; `Acknowledge` is `cdrWrite3`, which reschedules a
response that waits; `Respond` is `cdrInterrupt`, `RespondRead` the answer to a read
command, `ReadSector`, `ReadError` are `cdrReadInterrupt`.  When either event finds an
unacknowledged cause the code tries again 0x800 cycles later; without clocks that is no step,
and the two events' actions wait for `Stat = "NoIntr"`.  `left` is how much of the
result the guest has still to read.  A store to the index register is ORed into it whole (`SelectIndex`): `Selections` has the
indices that matter with and without 0x80, which sets the busy bit though no response is to come.

`manners` are the guest's.  A rude one stores what it likes.  The others give a command only when the
response they are owed has come (`Polite`), and see the causes either through the interrupt
("waiting") or by reading the register ("polling").  Without manners the drive's one-deep queue loses
responses by design, so the properties about lost responses are about polite guests; those
about stuck state are about every guest: `ResultsStay`, and `NeverStranded` as far as the queue goes; a
busy bit that nothing clears a rude guest can bring about by its own store of 0x80, and only so (`NotBusyForEver`).
`owed` is the response the guest waits for.  A read error raises no interrupt, so a
waiting guest may be `Stuck`, and the liveness properties say so.

### Audio: `AudioQueue`, `CubeAudio`

`AudioQueue` is a queue of blocks: handed out, started, ended; one plays at a time.

`CubeAudio` is `cube_audio.cpp` as `Gamecube/Makefile.Wii` builds it, with
`THREADED_AUDIO`.  `count` and `alive` are the three semaphores; `emu` and `thread` are the program counters
of the emulator's and the audio thread, cut at every semaphore call, since another
thread or the interrupt may run there; `EndDMA` is the interrupt and `done_playing`.
`SoundFeedStreamData` starts `add_to_buffer`, whose loop is `BeginCopy` (waits for an
empty buffer) and `EndCopy` (`PartlyFilled` gives the buffer back, `Filled` hands it to
the thread).  `TakeFull` and `Play` are the body of `play_buffer`.  `SetupSound` opens; `RemoveSound`,
`StopThread`, `SemDestroy` (three times) and `JoinThread` close.  Sizes are in samples after resampling, of
`SampleSize` bytes each, and `buffer_size - buffer_offset` is computed in bytes modulo 2^32, which are `Width` samples, before it is
shifted to samples again.
`content` and `serial` (history) number the blocks modulo N+2, more than can exist at once; `clean` (history) holds
in a session opened while nothing played.

External, modelled from their use: a semaphore saturates at its maximum; destroying one
releases the thread waiting for it with an error that the code ignores; a buffer is
played once for each `AUDIO_StartDMA`.  The last is an assumption, the one the code's
counting of buffers rests on: the threaded build never stops the DMA between
buffers, and a DMA that went on repeating a buffer when the thread has none to give
would call `done_playing` again and free buffers that are not empty.

### Serial port: `MemCard`, `Sio`

`MemCard` is a card as its users see it: bytes are sent for an address, the page changes as
a whole when they are complete, the file follows unless it cannot be written, a restart
finds what the file holds.

`Sio` is `sio.cpp`.  `sioWrite8` is a switch on `padst` and `mcdst`, and each case is an action
(`WritePadCommand`, `WritePad`, `WriteCardCommand`, `WriteAddress`, `WriteFirst`, `WriteRest`,
`StartTransfer`); `sioRead8` is `ReadByte`, or `ReadLast` with `StorePage`, where the page in `sio.buf`
is copied to the card that is selected *then*, and saved (`SaveMcd`, which may fail to open the file
or be cut short in the middle of the page, with `ConvertMcd` behind it, which may fail).  `WriteCtrl` acknowledges and selects, `Reset` also cancels the event, and `sioInit` is a restart,
in which either file may be unreadable (`LoadMcds`).  A `Patient` guest takes
turns with the port (`turn`): write, wait for the interrupt, read, acknowledge.  An impatient one does
everything in any order, and may become patient when it resets the port.

### Root counters: `PsxCounters`

One counter.  It does not count: `ReadCount` computes the value from `cyclepass`, which
`RcntAdvanceCycles` adds to at other events' deadlines (`OtherEvent`), and from the pending cycles; its
interrupt is an event (`Schedule`, `Update`).  The registers are `WriteCount`,
`WriteMode`, `WriteTarget`.  Words are `Word` wide, so that the shifts drop the bits they drop in the code
and a negative distance becomes the large number it becomes there.  `debt` (history) is the number of cycles that
were pending at the last write: `Schedule` clears `cyclepass` but leaves them pending, so
readings count them twice.  `stale` (history) marks an event older than the last write.

### Audio tracks: `Cdda`

`startCDDA` and `stopCDDA` (`main`) and every `playthread` (`pc`), one step for each access of
the four variables they share without a lock.  Every start opens a new file for a new
thread; both carry its number.  `raced` (history): at the end of the image the thread resets `playing`
before it closes and forgets the handle, and `stopCDDA`, which looks at `playing`, does not
wait for such a thread; a start in this window loses its file to it.  Positions are in bytes.  With subchannel data
interleaved in the image (`subChanInterleaved`) a sector takes 2448 of them, of which `cddaCurOffset` counts
2352: position and sound then agree by sectors from the start of the track on.

### Emulated BIOS: `Allocator`, `BiosHeap`, `CardFiles`, `BiosCard`, `MCBios`

`Allocator` hands out blocks that lie in the heap, apart from each other, and refuses one only when there is no room.
`BiosHeap` is the chain of chunks with its headers in the guest's memory (`ram`): `malloc` joins the runs of free
chunks (`Combined`), then takes the first that fits and splits it (`Taken`); `free` marks; `calloc`
and `realloc` are built from them.  `blocks` (history) is what the guest holds.  `low` notes that a refused `calloc` has
cleared memory at address 0.

`CardFiles` is a set of files with names and contents.  `BiosCard` is the card's directory and blocks (`McdData`),
the file of the card (`McdFile`), to which each call saves a range of bytes, the one
descriptor a card has (`FDesc`), and the place of a walk with firstfile and nextfile
(`nfile`).  A checksum stands for what it was computed from, so that one that was not renewed is wrong.
`open` sets the descriptor's offset and mode before it looks for the file, so a failed one rewinds the file
that is open and may make it asynchronous (`Rewind`); a file opened for asynchronous reading stays where it is when it is read.
The program of the model has one file open and stays within its block.
`held` (history) is where the program thinks its descriptor is, and in which mode; the refinement
shows that it is there, and `Contents` what another reader of the file of the card finds: files whose checksum is right.

`MCBios` explores the two in one run, each by itself, since they share nothing.

## 4. The runs

| Run | States | What it checks and shows |
|---|---|---|
| `events` | 33 456 | The list under arbitrary schedules and cancels by guest and handlers, late branch tests and late stores: deltas encode deadlines, every event runs with `psxRegs.cycle` at its deadline; only a schedule while the head is overdue disorders the list; from an ordered list every step is one of `EventTimeline`. |
| `events_hle` | 462 964 | With guest code inside the exception handler, late stores included, the clock goes back only while the list is out of order, which only a late store brings about, and the SPU event recurs. |
| `events_hle_early` | violation | `NeverEarly` with the emulated BIOS: see section 7. |
| `intc` | 33 344 | An interrupt that could be taken has its wake-up scheduled, or was made deliverable by one of the calls that never test; enable bits come back after nested exceptions; none stays deliverable for ever, since the vertical blank tests anew. |
| `dma` | 26 894 | Under arbitrary stores of any width: bit 31 is stale only after bytes were stored into ICR; a busy channel has an end coming; no event outlives its transfer unless the guest wrote CHCR.  In the composition with `IntC`: an end between the handler's read and its acknowledgement is not lost, and every end reaches the handler. |
| `cdrom` | 50 632 | No response is stranded, for any guest; results stay; a polite guest never finds the busy bit set for ever and loses no response and no read; its responses come, its causes reach it and its sectors keep coming, except where a read error or the end of a file intervenes. |
| `audio` | 350 004 | No buffer is filled while it plays or waits; the ring plays every block once and in order; feeding and closing return. |
| `audio_resize` | violation | `CopyStaysInBuffer`: see section 7. |
| `sio` | 194 428 | Whatever the guest does to the port, the cards change by whole pages, as sent, where they were sent; a file lags only by pages whose save failed or was cut short; no interrupt outlives a reset.  For a guest that takes turns, after anything that was done before its reset: pages arrive and transfers end. |
| `counters` | 574 837 | The event of a counter fires when its reading says so; readings run on evenly through other events; a repeating counter that its target resets, or whose overflow interrupts, interrupts again and again. |
| `bios` | 63 137 | Every sequence of heap calls: the heap is an `Allocator`.  Every sequence of calls on files by a program with one file open, failed opens and asynchronous reads included: the card's file holds `CardFiles`, and a walk over the directory returns every file.  States are counted up to renaming of the files. |
| `cdda` | 396 454 | No file leaks and none is read after it was closed, and the status follows the sound, on interleaved images too, but for the race; after a stop it is quiet, race or not; every call returns. |

Properties that mention an exception (`opened`, `ignored`, `disturbed`, `bypassed`, `ended`, `DiskError`,
`clean`) do so because the code really has it; each is named after its cause, so
that reading the property tells what the code does not promise:

* `opened`: RFE, the BIOS calls above, 8-bit stores, and the bits `Config.Sio` and `Config.SpuIrq` force
  at an I_STAT write, never call `psxTestIntc`, so the interrupt waits for the next test.
* `DiskError`: `cdrReadInterrupt` sets the cause of a read error but raises no interrupt.
* `ended`: at the end of a file the drive pauses by itself and its response replaces
  what is in the queue.
* `ignored`, `bypassed`: see `PsxDma` in section 3.
* `raced`: see `Cdda` in section 3.
* `stale`, `debt`, `Exact`: see `PsxCounters` in section 3; at rates whose shift loses part of a count, `pendingCycles << 12`
  makes a reading jump back after 2^20 cycles (about 967 lines of the horizontal retrace).
* `clean`: the thread released by the destroyed semaphores may start the DMA once more
  after `RemoveSound` stopped it, so the next session may open while a buffer plays.

Bounds, and why they suffice.

* Scheduler: in `events` four events (the SPU's, the exception's, two devices') are the least
  with an insertion at the head, in the middle and at the end and a removal between two
  others; with the emulated BIOS there is one device.  Delays 0, 1, 2, 3, `SpuRate` 3 and `IdleDelta` 4 give equal and different
  deadlines and a list that outlives an idle period; `MaxOvershoot` 2 makes two events overdue at once;
  `MaxLate` 2, which also says how late an exception may be whose handler calls a routine, and `MaxPending` 5 cap the counters.  `MaxSoftCalls` 2 lets a second
  routine start from what the first left.
* Interrupts: two sources, one of them a root counter, tell "this" from "another";
  no count depends on more.  `frames` keeps two exceptions, which is how deep Status' stack is.
* DMA: two channels, the GPU with every mode there is and the ordering table; their ends can
  coincide.  Channels do not affect each other but through ICR, and one whose transfers only end at once behaves as the GPU does in mode "now".
* CD-ROM: the commands are one or more of each class the code treats differently (stoppers,
  readers, two-part, fallible, completing at once, `Sync` and others).  Result sizes
  1 and 3 distinguish a result cut short.
* Audio: three buffers distinguish the one filled, the one waiting and the one playing
  (the code has eight); chunks shorter than, equal to and longer than a buffer; two sizes; samples of two bytes,
  so that a shift after the wrap loses a bit as in the code.
* Serial port: two cards, two pages of two bytes with two values tell a wrong card, page, order or a
  mixture of two pages; a pad answers four bytes; `MaxTransfers` 2 lets a transfer meet what
  the one before it left, and a page be written again after a failed save; `MaxOver` 1 goes past the end, from where on nothing changes any more.
* Counters: counts of two bits with words of seven bits make every overflow happen; 4 and 1/2 cycles
  to a count stand for the eighth and for a count that advances by more than one in a cycle, as distances
  that are rounded; the seven modes are those with and without target, overflow,
  reset and repetition; a branch may be one cycle late.
* Heap: five words are the least in which three chunks can be made, one freed between two others, and
  joined with a neighbour on either side.
* Card: three interchangeable names for two slots, so that a create finds the directory full, and a slot changes
  hands; two words, so that a write may miss the second.
* Audio tracks: `MaxStarts` 3 lets a third start meet what the race of the first two has left;
  an image that ends with its third sector is played to its end from the first and from the last.  The buffer `sndbuffer`
  holds one sector: a chunk only moves the positions by more.

Deadlock is checked in every run.

## 5. Fairness

* `PsxEvents`: weak, for instructions or branch tests, for the loop of
  `ExecutePendingEvents` and for returns: the interpreter never stops, basic
  blocks end, handlers return.  Nothing forces a device to be scheduled.  `_evthandler_SPU` reschedules itself;
  that it does is modelled, not assumed.
* `PsxEventsHLE`: strong for `SoftReturn`: a game's interrupt routine returns even though
  events run in between.
* `IntC`: weak for the CPU's and the emulated BIOS's steps; strong for `VBlankEvent`, which reschedules itself and so
  runs in some drain again and again.
* `Console`: weak for branch tests and the Exception event; strong for the end of a drain, since everything due runs (`PsxEvents`); strong for the steps
  of the handler, the BIOS's return and the program's enabling again, since events come between
  instructions but instructions are executed between events; and strong for branch tests and vertical blanks while the main program runs with
  interrupts enabled (`InTheOpen`): a program whose every branch, or every vertical blank, falls into a stretch with interrupts disabled
  is not assumed to see anything.  The completion of a transfer needs none: `EveryEndIsSeen` begins at the flag.
* `Cdrom`: strong for responses and sectors: they are enabled only between an acknowledgement and
  the next cause, and a waiting response retries every 0x800 cycles where a sector
  comes every 0x1b900 or so, hence a guest that keeps up cannot starve it.  A guest takes
  its interrupt, or polls, selects register 1 and acknowledges.
* `Sio`: weak for `sioInterrupt`, a scheduled event, and for the next step of a patient guest in a
  transfer (`Continue`); an impatient one may stop anywhere.
* `PsxCounters`: weak for the cycles of the CPU, for `Update`, and for other events, of which the SPU's always comes.
* `Cdda`: weak for the emulator's thread once it is in a call, and for every player thread: the
  operating system schedules both.  Nobody has to call.
* `CubeAudio`: weak for the DMA and for both threads: the hardware plays on and libogc
  schedules both.

## 6. Proofs

Every theorem is for all values of the constants that satisfy the named assumptions
(`EventsAssumption`, `RatesAssumption`, `IrqsAssumption`, `ChannelsAssumption`, `CdromAssumption`,
`AudioAssumption`, `SioAssumption`, `CddaAssumption`, `CardAssumption`, `HeapAssumption`, `CountersAssumption`): any set of events, any delays, any number of
buffers, any size of a page, of a card or of a heap, any length of an image,
any width of counts and words.
TLC evaluates the assumptions in the runs.

| Module | Theorems | Inductive invariant |
|---|---|---|
| `PsxEvents_proofs` | `TypeInvariance`, `NeverTwice`, `ListEncodesDeadlines`, `CountdownFollowsHead`, `PunctualToTheCycle`, `NoEventEarly`, `OrderLostOnlyLate`, `SchedulerRefinesTimeline`, `SchedulerIsTimeline`; of `PsxEventsHLE`: `CycleBackOnlyAfterLateStore` | `TypeOK`, `NoDuplicates`, `DeltasEncodeDeadlines`, `CountdownIsTheHeads` together; for the order also `PresentIsLate`; `HLEInv` |
| `Interrupts_proofs` | of `IntC`: `TypeInvariance`, `NoLostWakeUp`, `ReturnRestores`; of `PsxCounters`: `CounterTypeInvariance`, `EventsMeetTheCount`, `InterruptsAreOnTime`, `ReadingsRunOn` | `TypeOK`, `WakeUpKept`, `SavedEnable`; `RcntTypeOK`, `ArrivalKept` |
| `PsxDma_proofs` | `TypeInvariance`, `LineFollowsFlags`, `NoOrphanTransfer`, `OneEnd`, `EndsAreNotForgotten`, `GuestsUseTheController`; of `Console`: `ConsoleRunsTheGuest`, `ConsoleImplementsIntC`, `NoEndForgottenByTheConsole`, `TheBitsAgree` | `TypeOK`, `InterruptLine`, `BusyHasAnEnd`, `OneEndPerTransfer`; with the guest, what it has set up and `NoEndForgotten`; `ConsoleInv` |
| `Cdrom_proofs` | `TypeInvariance`, `NoStrandedResponse`, `NotBusyForEver`, `ResponsesAreKept`, `ReadsGoOn`, `CausesAreAnnounced`, `ResultsAreKept` | `TypeOK`, `NeverStranded`, `BusyEnds`; for a polite guest `PoliteInv` |
| `CubeAudio_proofs` | `TypeCorrect`, `NotFilled`, `Refinement` | `TypeOK`, `CleanInv`, `AgainInv` |
| `Sio_proofs` | `TypeInvariance`, `OneDevice`, `NoInterruptOutlivesReset`, `FileFollowsCard`, `Refinement`, `PagesArrive` | `TypeOK`, `PortOK` |
| `Cdda_proofs` | `TypeInvariance`, `Quiet`, `NoFileLeft`, `StatusIsHeard` | `TypeOK`, `PlayOK` |
| `Bios_proofs` | of `BiosCard`: `CardInvariance`, `WalkEndsLast`, `Refinement`; of `BiosHeap`: `HeapStaysWhole`, `HeapTypeCorrect`, `HeapRefinesAllocator`, `BlocksStayApart` | `CardTypeOK`, `CardOK`, `WalkOK`; `HeapKept` |

* *Scheduler.*  That a delta is a difference of deadlines survives an insertion only if
  the new event is nowhere else in the list (`NoDuplicates`) and the running total starts at the
  pending cycles, which needs `CountdownIsTheHeads`.  `RunningIsOffset` shows that
  the running total of the search is the distance to the deadline; `InsertedGood`, `RemovedGood`
  are the list surgery, `ScheduleGood` and `CancelGood` the two operations, then one
  lemma per action.  The proof makes no use of order: the deltas are right even in the
  list a late store has disordered, and an event still runs with `psxRegs.cycle` at its deadline.
* *Scheduler: order and refinement.*  An event that has joined out of order did so by a store after the
  countdown's zero, so for the order the invariant also says that the pending cycles
  are not negative and that a drain begins at the countdown's zero or later (`PresentIsLate`).  `ScheduleArms`, `CancelDisarms`, `ExecuteHeadFires` and their
  neighbours map each step to a step of `Timeline` or a stutter while the list is sorted, which is
  what `RefinesTimeline` asks and `OrderKept` gives.  `SchedulerIsTimeline` is about
  the behaviours whose stores come in time (`StoresInTime`, a condition on each store and not on a constant): in
  those the list stays sorted and the scheduler implements `EventTimeline` without exception.
  `CycleBackOnlyAfterLateStore` needs no such condition and holds with the emulated BIOS: `psxRegs.cycle`
  goes back only when the head of the list has a negative delta, which a list in order does not have, and only a
  store past the head's deadline puts a list out of order.  With late stores it does go back.  `NoEventEarly` is about
  `PsxEvents`, without an emulated BIOS; with one it is false, as `events_hle_early` shows.  `HLEInv` says that
  even there no delta is negative, though the deltas are no longer differences of deadlines.
* *Interrupts.*  `WakeUpKept` is inductive with the types; the returns need `SavedEnable`,
  that the history agrees with the bits of Status.
* *Root counters.*  `ArrivalKept`: unless a write has come after the event was scheduled (`stale`), the cycles passed and those until
  the event, less those a write has counted twice (`debt`), are the cycles of the counts that remain, modulo
  `Word \div One`, since the product with the rate wraps in its word.  From it the event comes on the count and
  not before (`CutOff`: rounding down loses less than one count).  The library has nothing about division, so
  `Product`, `Division`, `DivisionIsUnique` and `QuotientSteps` prove what is needed.  The two
  properties are about rates the word represents exactly, for which `CountersAssumption` asks
  that one count takes at least a cycle, or half of one: in the code these are 2^11, 2^12 and 2^14
  (`psxcounters.cpp` scales by 2^12); its other rates, the pixel and line clocks, are not powers of two.
* *DMA.*  `UpdateIsConsistent` says that `psxDmaUpdate` leaves bit 31 right whatever
  it is given, hence also after `StoreICR` (`bypassed`); `StoreKeeps` and `EndKeeps` treat the stores and the ends.  `Console` implements both of its parts, `GuestSpec` and
  `IntC`'s `Spec`, so what is proved of the guest holds on the machine.  `TheBitsAgree` needs that I_MASK keeps the DMA's bit
  (`ConsoleInv`), or the handler's write for the vertical blank would drop it.
* *CD-ROM.*  `NeverStranded` and `BusyEnds` need each other's step from
  acknowledgement to response; `CommandKeeps` does the case analysis of the commands.  `BusyStep` says that a step keeps
  `BusyEnds` unless it is a store that sets the busy bit of an idle controller; a polite guest makes none (`PoliteBusy`), and
  `NotBusyForEver` is about every guest in the behaviours that have none (`NotBusyByStore`).  That a polite guest's read goes on
  needs to know that the answer which starts it is only queued while the guest sees
  the drive busy (`PoliteInv`).
* *Audio.*  `InSession` says where the two threads may be; `Conserved`, the heart of it, that the
  buffers counted by the two semaphores, held by a thread, or playing are N in all; `Indices`, that the
  index being filled is the index played next plus the buffers in between, modulo N.
  Together they place the buffer being filled outside those that wait and
  the one that plays (`BufferIsFree`).  `Refinement` then maps every step to a step of `AudioQueue`
  or a stutter, by `FilledHandsOut` and `PlayStarts`.

* *Serial port.*  `PortOK` says, for each state of the port, what `bufcount` and `parp` are and that in a write the
  buffer holds what was sent (`Sending`): hence the page that is stored at the last
  read is whole.  `Refinement` maps each byte to a step of `MemCard`; the bytes an
  abandoned page leaves in the buffer are nowhere in it.
* *Audio tracks.*  `CallOK` and `ThreadOK` place the active thread: it is the last one created, and `playing` is set or
  `stopCDDA` waits for it.  They hold through the race, which is why `QuietAfterStop` does.
  `FileOK` and `SoundOK`, who may close the file and where it is, hold until the race.  `Onward` is the step of
  the two positions by a sector, in the image's bytes (`Sizes`) and in the sound's.
* *Card files.*  `CardOK`: the file of the card is the card, since every call saves all the bytes it has
  changed; names are distinct and their checksums right; the descriptor is where
  its user thinks it is, and in that mode, since a failed open moves it as `CardFiles` says.  `WalkOK`: the
  files still due lie ahead of `nfile`.  `Refinement` then maps every call to the call of `CardFiles`; that a full directory
  means no room takes a bijection of slots and names (`NamesCount`).
* *Heap.*  `HeapKept`: the headers form one chain from the start of the heap to its end, and the chunks in use are the
  blocks handed out.  The chain is a recursive function of memory; `ChunksAre` shows, by least
  elements of sets of addresses, that its chunks are any set of chunks that meet end to end (`IsChain`), and
  after that each operation is about sets.  `CombinedKeeps`: joining
  free neighbours keeps the chain and leaves no two free chunks side by side, hence a refusal means
  there is no room (`NoneFits`), which is what `Allocator` asks.  `TakenKeeps` is the splitting,
  `FreeKeeps` the release.
  The theorems are about `CardSpec` and `HeapSpec`; the run explores both as parts of `MCBios`.

Only model-checked: the liveness properties (`SpuRecurs`, `InterruptsGetThrough`,
`EveryEndIsSeen`, `ResponsesCome`, `CausesAreSeen`, `SectorsCome`, `FeedReturns`,
`RemoveReturns`, `TransferEnds`, `KeepsTicking`, `CallsReturn`), which TLAPS does not
reach, as it does not handle fairness and ENABLED.  Every other property of a passing run is a theorem.

## 7. Findings

* **An event runs early under the emulated BIOS** (`events_hle_early`).  `softCall`
  (`psxbios.cpp:274`) runs guest code where both counters are zero though the next
  event lies ahead; the first branch takes it for due, and what was left of its delay is skipped.
  `r3000a.h:161-163` says the event is raised when the countdown reaches 0.
* **The offset into the sound buffer survives a change of its size** (`audio_resize`).
  `SetupSound` resets the indices (`cube_audio.cpp:77` "reset the buffer
  index") but not `buffer_offset`, and takes `buffer_size` from `Config.PsxType`: after a PAL session the
  offset may exceed the NTSC size, and the unsigned room left (:218) wraps, while :207 says
  that the copy "works for any size".

Seen but stated by no run:

* `psxevents.cpp:102` speaks of "the sorted insertion point" and :111 compares as `u32`: an overdue event, whose running total is
  negative, counts as later than any new one, and a store after the countdown's zero puts a new event before it.
  `DisorderNeedsLateSchedule` shows that this is the only way the list gets out of order, and `RunsAtItsDeadline` that events keep
  their deadlines even then.
* `RemoveSound` stops the DMA, "so audio can't play"
  (`cube_audio.cpp:104`), before it destroys the semaphores, whose waiters are released and start the DMA once
  more; and the wake-ups `opened` stands for.
* The heap: `InitHeap` does not take its header off the size, so the chain ends one word behind the block it was given;
  a chunk of size zero that comes to lie there is never used again; `realloc` does not copy, and loses the block when there is no room;
  a refused `calloc` clears memory at address 0; `psxBiosFreeze` does not save `heap_end`.
* `psxRegs.cycle` goes back when an event that a late store has put before an overdue one hands over to it.
* Card files: a failed open rewinds the file that is open and changes its mode; a file of several blocks reserves only one;
  firstfile returns its entry even when nothing matches; an asynchronous read does not move the offset.  But for the reserved blocks the model has them all.
* Counters: the cycles pending at a write are counted twice by readings; a counter in the mode that interrupts at its
  target without being reset there interrupts once, repeating or not, since `Update` itself marks the target as
  passed (`psxcounters.cpp:282-283`).  `Ticks` leaves that mode out.
* The position told on an image with interleaved subchannel data is off by a constant: the start of the track is
  counted in sectors of 2448 bytes (`cdriso.cpp:793-795`) and divided by 2352 when it is told (`cdriso.cpp:826`).
* A store of 0x80 to the CD-ROM's index register sets the busy bit (`cdrom.cpp:729`), which only a response clears.
* `ConvertMcd` of a file whose name asks for a header ends the emulator if the file cannot be opened.

## 8. Not modelled

* What is transferred, decoded or drawn: sector contents, XA audio, MDEC, GTE, SPU and GPU output.
* Most of the source is of these kinds: the renderers and sound mixers of four plugins, three recompilers, the GTE
  and five user interfaces.  They compute data, or are third-party code, some of it kept in several copies.
* The recompilers: generated code is beyond TLC; the scheduler and the branch tests they call are
  those of the interpreter.
* A software interrupt that MTC0 finds due under the emulated BIOS, where `psxTestSWInts` runs the handler of whatever
  exception came last, in the middle of an instruction (`IntC` has it with a BIOS image).
* EPC, branch delay slots and the jump test of the interpreter.
* Wrap-around of the 32-bit deltas: `MaxPending` and `MaxLate` keep them far from
  2^31, as the code's own delays (at most a frame or so) do.
* Counters: the vertical retrace (`psxRcntVSync`, `psxRcntVBlank`), the pixel and horizontal clocks, `RCntFix`.
* Serial port: addresses outside the card, which the code does not check (`sio.cpp:75`); a rewrite of the whole file
  by `ConvertMcd` that is cut short; the bytes pads answer, net play, the formats of card files (`CreateMcd`), the icons of `GetMcdBlockInfo`.
* Emulated BIOS: event control blocks, pads, raw card access (`_card_read`, `_card_write`) and the events it
  delivers; a renaming onto a name that is taken, which nothing checks; threads and exceptions taken inside each other, whose registers
  share one array (`regs`): what a thread switch inside an interrupt should do is stated nowhere, and `OpenTh` and
  `WaitEvent` neither fail nor wait as the hardware's do.  On a big-endian host `psxBios_malloc` writes headers byte-swapped and reads them as they are; the
  model is of the little-endian build.
* Card access in the emulated BIOS does not fail to save (`Sio` has failing saves).
* Save states: `LoadState` follows a reset of the whole machine or happens inside a handler when a menu asks for it; the
  saving of the event list is commented out, and `psxRcntFreeze` saves pointers.  The devices' pending events are lost, but
  nothing in the repository says what a loaded state owes a device, so there is no property to state.
* A write of I_STAT is ANDed with I_MASK, and the emulated BIOS clears I_STAT when its handlers are done, which drops
  interrupts raised meanwhile: both are in `IntC` as the code has them, and no property of it is about
  interrupts that the guest has itself discarded.
* The data port: `psxDma3` copies whatever sector is in the buffer.  MDEC's status, which follows its decoder.
* Disc image formats, plugin loading, cheats, debugger, user interfaces: file formats,
  text protocols and menus.
