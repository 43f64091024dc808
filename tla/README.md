# Formal specifications of Nintendont

Nintendont runs GameCube games on a Wii. The game runs on the PowerPC (PPC) as
it always did, except that its accesses to the disc drive, the memory cards, the
controllers and the modem have been patched into accesses to plain memory. A
*kernel* on the ARM processor (`src/kernel/`) watches that memory and plays the
devices: from disc images, card files, USB controllers and the Wii's network.
This fork adds *umbra*: settings files, an online session with one-slot state mailboxes,
and a GDB stub.

The specifications in this directory model that kernel and the code it meets on
the other side. They are about what is hard to see in it and hard to test: two
processors that share registers without locks, threads of the kernel that preempt
its main loop, one message shared by several kinds of requests, data that are
written later than the game believes, and caches of what is on the disc.

- [Inventory](#inventory)
- [Modules](#modules)
- [Runs](#runs)
- [Bounds](#bounds)
- [Fairness and timing assumptions](#fairness-and-timing-assumptions)
- [What is proved](#what-is-proved)
- [Findings](#findings)
- [What is not modelled](#what-is-not-modelled)
- [Plan](#plan)

To check a module: `tlc -config MCSockBridge.cfg SockBridge.tla`; to check
proofs: `tlapm CardProofs.tla`. `PROJECT.json` relates every definition to the
lines it stands for, every property to a change of the code that breaks it, and
every hazard to the properties that cover it.

## Inventory

### Threads and scheduling

| Where | Thread | Does |
|---|---|---|
| PPC | the game's threads | issue commands, sleep until an interrupt or spin on a register |
| PPC | interrupt handlers | preempt them; TC, EXI, DI and HSP interrupts are thrown by the kernel |
| ARM | main (`main.c:335-537`), priority 0x50 | the loop: due interrupts, `GCNCard` save, keep-alive, cover timer, `DIUpdateRegisters`, EXI, controllers, `SOCKUpdateRegisters`, stream, `GCNCard_CheckChanges`, reset |
| ARM | `DIReadThread`, 0x78 | one request at a time, by message queue; file I/O |
| ARM | `SOCKAlarm`, 0x78 | answers of the IOS network stack |
| ARM | umbra sender and receiver, net listener, GDB server, HID/BT, 0x78 | one-slot mailboxes with the main loop, or sockets |
| PPC | `__DSPHandler.S`, in the audio interrupt | mixes the disc's stream into the game's sound, asks for updates |
| PPC | the debugger's exception handler (not in the repository) | halts on a trap or on request, obeys `STATE` |

Threads of the ARM have priorities; those at 0x78 preempt the main loop whenever
they are ready, and `udelay` blocks. The two processors run in parallel.

### Components

| Component | State | Operations | Talks to | Hard behaviour | Correct means |
|---|---|---|---|---|---|
| Memory cards: `GCNCard.c`, `main.c` | image, dirty range and system flag per slot, `SaveCard`, `Now` | load, read and write a page, check changes, save | EXI (pages), DI (`DI_IRQ` keeps a save away), file system | the order of write, check and save; the boundary of system and general area; leaving the game; a power cut | no written cell is forgotten; a save waits for silence; a clean exit loses nothing; a silent game is saved |
| EXI mailbox: `EXI.c`, `asm/EXI*.S` | two registers, protocol state of a card, due interrupt and causes | select, immediate word, DMA, timer interrupt | game's CARD library, memory cards, umbra device | an interrupt handler issues commands between the stores of another; commands cleared by their handlers; two clients of one channel | the card holds what the game was told; interrupts match transfers; nothing hangs |
| umbra settings: `umbra.c:20-110,360-520` | last command and its status, pending read | write, read, delete, status | EXI, file system | status of an earlier command, card interrupt between command and status, results of the file system nobody looks at | a success is that of the command asked about, whose effect is in the file or was lost below `f_write` |
| Disc interface: `DI.c`, `ReadSpeed.c`, `main.c:371-440` | registers, `DI_IRQ`, callback message, queue, drive timer, cover timer, game path | read (asynchronous and synchronous), seek, stop, stream, and others | game, ISO reader, stream, memory cards | requests of three kinds share a message; completion by poll or by cover timer; file I/O of two threads, the log's included | to the game it is a drive; one request in flight; one thread in the file system; every command ends |
| ISO reader: `ISO.c` | file position, cache entries and data, shift | open, read with and without the cache, seek, set up the cache | DI thread, main thread | skipped seeks, read-ahead beyond the request, replaced and dropped entries, disc change | a read delivers the game's data, inside its buffer; the cache is coherent |
| Socket bridge: `sock.c`, `IOSInterface/source/sock.c` | per descriptor: call, arguments, answer, busy flags on both sides | post, sweep, answer, interrupt, release; start-up retries | game's threads, IOS | descriptors shared by threads and processors; flags cached by the ARM; interrupt later than the flag | one owner; own answer; free on both sides; every call returns |
| umbra online: `umbra.c:110-360` | one-slot mailboxes, connection, sender and receiver of each connection | connect, send, receive, disconnect, state write and read | EXI, sockets, the network module's one slot | flag cleared after a blocking send; copies interrupted by the sender or the receiver; reconnect before the receiver ends; calls that block each other in the module | threads and mailboxes belong to one connection; states are sent whole; the main loop is not held up |
| Network listener: `net.c:278-400` | last datagram | receive loop | main loop, network module | a blocking receive would hold the module | it receives only what a poll announced |
| GDB stub: `gdb.c` | breakpoint table, `STATE`, `HALT_REQ`, `MAGIC`, invalidation list of 8 | accept, halt, insert, remove, write, continue, step, interrupt, detach | PPC exception handler | handshake over shared words of two processors, a halt between the stores that end a session, list at its limit, traps lifted for one instruction | the game's code survives; the PPC runs what is in memory; a stop is reported; a target halted when a session ends is let go |
| Real disc: `RealDI.c` | block cache, read state | identify, read, new disc | DI thread, main loop | request and answer through flags | no read of a changed disc |
| Extracted games: `FST.c` | file cache, FST patched in memory | open, read | DI thread | cache of open files at its limit | the file of the offset asked for |
| Streaming: `Stream.c`, `asm/__DSPHandler.S` | position, end and loop flags, two buffers, decoder's history, the handler's place | start, chunk, repeat, cancel, end; play | DI, PPC's audio interrupt | two sides count buffers with one flag between them; repeats and ends in the middle of a chunk | chunks in order, with the right history, and an end |
| Storage drivers: `diskio.c`, `SDI.c`, `usbstorage.c` | position in a request, retries, what the device is in | read, write; command, data, status, reset | FatFs, IOS, the device | every step fails or times out; an old status answers a new command | a request reported done is done; the device is left ready |
| SI, HID, BT | registers, device packets | poll, translate | USB | hot plug | a packet of one poll |
| Triforce: `GCAM.c`, `TRI.c`, `JVSIO.c` | command buffers, card | decode | SI, DI | one loop iteration | protocol |
| Patches, loader, IOS | | | | sequential | |

## Modules

| Module | Models | Extends or instantiates |
|---|---|---|
| `CardStore` | abstract: an image in RAM and its copy on the device | |
| `MemCard` | `GCNCard.c` and the part of the loop that saves | implements `CardStore` |
| `MCMemCard` | its bounds | `MemCard` |
| `ExiBus` | the mailbox, the card's protocol and umbra's settings | |
| `CardProofs` | theorems on both | `ExiBus`, `MemCard` |
| `DiscDrive` | abstract: the drive the game believes it has | |
| `DIDrive` | `DI.c`, its thread and the main loop around it | implements `DiscDrive` |
| `DIDriveProofs` | theorems | `DIDrive` |
| `IsoCache` | `ISO.c` for plain and CISO images, with the DI thread's copy | |
| `MCIsoCache` | a plain and a CISO image | `IsoCache` |
| `IsoCacheProofs` | theorems | `IsoCache` |
| `SockBridge` | both sides of the socket bridge | |
| `SockBridgeProofs` | theorems | `SockBridge` |
| `UmbraOnline` | the online session's threads, the listener and the network module | |
| `UmbraOnlineProofs` | theorems | `UmbraOnline` |
| `GdbStub` | the GDB server and the PPC it debugs | |
| `GdbStubProofs` | theorems | `GdbStub` |
| `Storage` | the drivers under FatFs and the device | |
| `StorageProofs` | theorems | `Storage` |
| `AudioStream` | the disc's audio stream, from chunk to sound | |
| `AudioStreamProofs` | theorems | `AudioStream` |

Every module names definitions as the code does. A definition called a *slip* in
a comment is the form a plausible bug would give the definition that follows it;
no action uses it.

### MemCard

`mem[s]` is the buffer of `GCNCard_ctx`, `file[s]` the card file; `changed`,
`changed_system`, `BlockOffLow` and `BlockOffHigh` are its fields. Offsets count
cells and `SysEnd` stands for 0xA000. One iteration of the loop is `LoopTop` (the
disc poll or a due save, `main.c:371-389`), `LoopRegisters` (a command of the
game), `LoopCheckChanges` and `LoopReset`; time passes in between by `Tick`.
`ExitGame` is every clean way out; `Boot` after any state is a power cut.
`quiet`, the seconds since the game last wrote, is a history variable.
`DI_IRQ` is here only what it means to the save; `DIDrive` has the rest.

### ExiBus

`cmd0`/`cmd1` are `EXI_CMD_0` and `EXI_CMD_1`. The PPC side has two contexts,
the game's thread (`main`) and the EXI interrupt handler (`isr`), which preempts
it at any store. A routine is three steps, as in `asm/EXIDMA.S`: `StoreArg`,
`StoreCmd`, `SpinEnds`. The kernel takes a command (`Take`) and finishes it in
another step (`DoSelect`, `DoImm`, `DoCardDma`, `UmbraWrite`, `UmbraRead`), so
that stores of the PPC fall between. The sequences of commands a CARD transfer
consists of are external: what the kernel's decoder expects. `shadow` is what the
game believes the card holds. Umbra's settings are written, deleted and read through
the same mailbox (`UmbraWrite`, `UmbraRead`), each with its failures; a read of the
settings that fails half-way delivers what it has, and no status (`umbra.c:75`). A write
is reported a success once `f_write` took all bytes: what `f_sync` and `f_close` return is
not looked at (`umbra.c:46-57`), so that the file may be another one, or torn. `lost`
(history) says so, also of a delete whose last step did not reach the medium.

### DiscDrive and DIDrive

`pc` follows the main loop: `irq` (due interrupts, save, keep-alive), `disc` (cover
timer), `di` (`DIUpdateRegisters`), `exi`, `stream`. A wait of the main thread is the
place `finish` (`DIFinishAsync`) with `cont` the place it returns to; `file` is
main-thread file I/O. With the log on (`NIN_CFG_LOG`), every `dbgprintf` of the main
thread writes `/ndebug.log` through FatFs (`vsprintf.c:300`), and so does
`CheckOSReport` with the game's own messages, at the end of every iteration (`Report`)
and for as long as the main thread waits for the DI thread (`LogInWait`, `DI.c:908`).
`LogAnytime` lets these fall while the thread is in a file; the runs keep them out of
it. `finished` is `DI_CallbackMsg.result = 0`. `DiscReadAsync` waits until it holds,
then posts. A game has a second disc or has not (`multiDisc`): only then a stop changes
the disc and a cover interrupt follows (`StopMotor`, else `StopOnly`); an `A8` with a
buffer outside the game's memory is only reported finished (`A8 nowhere`). The DI thread
takes a message, works, and acknowledges, in separate steps. `ticks` is the emulated
drive's time: unset, running, over. `game` is the DVD driver of the game, external, as
the registers imply. The refinement maps `game` and the registers to `phase` of
`DiscDrive`, and the command's result to what is `delivered`.

### IsoCache

A cell of data is `<<disc, address>>`. `image`/`position` are `GameFile` and its
pointer, `LastOffset64` what `ISO.c` remembers of it; `DC`, `TempCacheCount`,
`DataCacheOffset` are the cache and `mem` its data area. A read of the game
(`req`) is served by portions: `Uncached`, `Hit` or `Miss` is one call of
`ISORead` with the copy of `DIReadThread` after it (`Deliver`). `Preloaded`
gives the lengths the read-ahead loop can end with.

`OnDisc` is what the game should see and `InFile` what the file holds; a CISO file
holds the used blocks one after the other. A read of it is split at block borders,
and `PartStart` is where the part with a given cell begins; the code seeks there
(`Physical`, with the map `ISOInit` makes) and reads on. The three
places of the code that do so for a first part, whole blocks and a last part differ
in nothing else.

### SockBridge

A descriptor `i` has `ioctl_ppc[i]` (the PPC's byte), `ioctl_arm[i]` (the
kernel's) and `armFlushed[i]`, the value that has reached memory, which is the
one `getFreeFD` reads. `Sweep` is the reading of the posted calls at the start of
`SOCKUpdateRegisters`, `Flush` the `sync_after_write` at its end; IOS answers in
any order. `hsp` is the queue the thrown interrupt will wake. A thread goes
through `getfd`, `post`, `sleep` or `spin`, `end`, `free`, with `sub` the second
descriptor of a nested `so_startinterface`.

### UmbraOnline

`main` is where the main thread is in a command of the game; `sender` and
`receiver` have one thread per connection, since `umbra_net_connect` starts new
ones. What a thread does between two calls that block is one step, because
threads do not preempt each other; the main thread is preempted anywhere, so
that its copies and flags are steps of their own (`StateWrite`, `StateWritten`;
`StateRead`, `StateRest` and `StateTaken`: a state read may have one half of the message
before and one of the message after). `queue` is the network module of IOS: it carries out
one vectored call at a time, a receive without a datagram included; plain calls
(poll, close) do not queue. A state in a mailbox is two halves, each marked with its
connection. A receive may fail at any time (`ReceiverFails`). A connection whose thread's
stack cannot be allocated is reported connected without it (`Joined`,
`umbra.c:291-307`).

### GdbStub

`mem` is what is in memory at a code address, `icache` what the PPC fetches there,
`code` what the game should run (history). `bp`/`bp_count` are the table, `state`,
`magic`, `haltReq`, `shmPC` the shared words, `inval`/`invalCnt` the list of cache lines
to drop. `srv` is the place of `GDBServerThread`, `over` the address it steps over. `Go`
is `do_continue` and `do_step` up to the wait, `Reinsert` the wait's end. A session ends
by `Detach` ('D', 'k') or `BreakOff`, and then store by store: breakpoints out
(`Remove`), `STATE` (`StoreDetach`), `HALT_REQ` (`ClearRequest`), `MAGIC`
(`ClearMagic`). The PPC goes on in between. The PPC's handler is external: it halts
(`PpcHalt`, `PpcRun` on a trap), obeys `STATE` (`PpcLeave`) and steps (`PpcStep`) as
`gdb.c` relies on. `view` is what GDB was told; GDB commands only a target it believes
stopped.

### Storage

`pc` follows one request through the driver: `sd`, or `cbw`, `data`, `csw`,
`reset`, one attempt of `__cycle` after the other. The device is external and obeys
the bulk-only transport: `dev` is the part of a command it is in, `stale` an unfetched
status of an earlier one. A wrapper of which no byte went out counts as sent
(`usbstorage.c:124`), and the device then still waits for one, or answers with what it
has of an earlier command (`old`). Every transfer may be cut short, lost or timed out, with the
device having taken it or not.

### AudioStream

A cell is what one run of the handler plays; a buffer and a chunk have `Cells` of
them. `pcm` is both buffers, `StreamBuffer` the chunk read, `hist` the decoder's
history as the position it was left at. `StreamUpdate` decodes cell by cell while the
PPC plays; `main` says what for and how far. `Play` is `__DSPHandler.S`,
which asks for an update at the end of a buffer. `heard` is the last cell
played (history).

## Runs

| Run | Shows |
|---|---|
| `memcard` | Under every order of page writes, disc commands, time, saves, exits and power cuts: dirty ranges cover every cell that differs from the file (`DirtyCovered`), unsaved data have a save scheduled (`DirtyScheduled`), a clean exit loses nothing (`CleanExit`), the loop saves only after silence (`DebouncedSave`), all of it is `CardStore` (`ImplementsCardStore`), and a silent game is saved (`EventuallySaved`). |
| `exibus` | With the interrupt handler at any store: the card holds what the game was told (`CardHolds`, `PageStored`), interrupts match transfers (`SignalsMatch`), a success is that of the command asked about, whose effect is in the file unless the medium lost it, and settings read are the file's (`StatusIsActual`), and every transfer ends (`TransfersEnd`). |
| `didrive` | Commands, stream, keep-alive, saves and disc changes, with one disc or two: to the game it is `DiscDrive` (`ImplementsDrive`), one thread is in the file system as long as settings and log keep out of it during disc commands (`FileIOExclusive`), every command ends (`CommandsEnd`). |
| `didrive_umbra` | Violation of `FileIOExclusive`: a settings command during a read puts two threads into the file system. |
| `sock` | Two threads over three descriptors: `OneOwner`, `OwnAnswer`, `FreeOnIOSSide`, `CallsEnd`. |
| `isocache` | Reads, seeks, cache set-up and disc changes: `CacheCoherent`, `ReadsDisc`, `WritesInside`. |
| `gdb` | Any order of insert, remove, write, continue, step, interrupt, detach and disconnect, and the PPC at any place between the stores of these last two: no word of the game is lost and no trap left behind (`CodePreserved`), a line of the instruction cache that differs from memory is on the list of those the PPC drops before it next resumes, listed lines themselves being excepted until then (`Coherent`), a stop is reported (`StopReported`), a target halted when a session ends, by the store of DETACH at the latest, is let go (`Released`). |
| `disk` | Every failure at every step, and commands that do not go out but count as sent: a request reported done and passed by the device is done (`OkWhenPassed`), a device that could be reset is ready for the next request (`LeftReady`), every request ends (`RequestsEnd`). |
| `disk_ok` | Violation of `OkMeansDone`: a failed write to the SD card is `RES_OK`. |
| `online` | Two connections: a connection has its own threads (`OneReceiver`) and starts with empty mailboxes (`SessionFresh`), a state written to an empty mailbox is sent whole (`SentWhole`), and without a connection the main loop is not held up (`SendEnds`). |
| `online_leave` | Violation of `LeaveEnds`: a disconnect waits in LEAVE for the receiver's datagram. |
| `stream` | Streams of four sizes, started, repeated, cancelled and ended at any moment: they are heard in order (`PlayedInOrder`), decoded with the right history (`DecodedInContext`), and one that shall not repeat ends (`StreamStops`). |

`exibus`, `didrive`, `sock`, `online` and `stream` also check their module's `TypeOK`
(`ExiTypeOK`); in the other modules it is a theorem for every value of the constants.

## Bounds

- **memcard**: slot A has one system cell and two general ones, slot B one of
  each; a write covers one or two cells and thus lies in, behind or across the
  boundary. Two contents suffice to tell a saved cell from an unsaved one.
  `SaveDelay` is 1, so that ages 0, 1 and "more" occur. The theorems cover the
  rest.
- **exibus**: one slot, two pages, two contents, two card transfers and two
  settings commands. Two of each are needed for one to overtake another; nothing
  but `card` and the last status outlives a transfer.
- **didrive**: two offsets (header and data), four commands. The longest
  interesting history is a read, a stop, the cover interrupt and a read; the
  stream and the keep-alive are not counted and unbounded. The game's commands
  end at the bound, everything else goes on.
- **sock**: two threads, three descriptors, two calls. Each thread may hold two
  descriptors, so descriptors are contended; a descriptor is used again by the
  second call.
- **isocache**: a plain and a CISO image, the latter with blocks of two cells of which
  the first is not stored; shifts 0 and 1, two offsets, reads of one or two
  cells, two entries, a data area of six: entries run out before space and
  space before entries, reads of one cell are read ahead to four (the loop
  of `ISO.c:482` turns three times), so that one read has a first part, a whole block
  and a last part. The run is unbounded in time: no counter ends it.
- **gdb**: two addresses and two slots: a breakpoint can be stepped over with and
  without another one behind it, and slots are used again. A list of eight, as in
  the code, which GDB does not fill. Sessions and commands are not bounded.
- **disk**: two sectors, so that an attempt can fail in the middle; two contents;
  four attempts over USB and eleven over SD (`diskio.c:62`), as in the code. Requests are not bounded.
- **online**: two connections, which is what it takes for one to meet the leftovers
  of another. States, datagrams and sends are not bounded: mailboxes tell only the
  connection and one of two successive states.
- **stream**: three cells to a buffer, so that there is a place at its start, inside
  and at its end; streams of 7, 8, 9 and 11 cells, the first one more than two
  chunks, whose last chunk is filled by one, two or three cells. Streams follow each
  other without bound.

Deadlock is checked in every run.

## Fairness and timing assumptions

- **MemCard**: the main loop goes on (it is an endless loop without waits in this
  model) and time passes. `EventuallySaved` is conditional: the disc drive is
  idle again and again at the top of the loop. The code does not promise that
  (a game that always has a command in progress keeps a save away), so it is an
  antecedent, not a fairness condition.
- **ExiBus**: weak fairness of the kernel, of the PPC's stores and of its
  interrupt being taken. None for the game to start commands.
- **DIDrive**: weak fairness of the main loop, the DI thread, time, and the game's
  driver taking its interrupts. None for log entries and settings. The priorities of the ARM (the thread preempts)
  would justify more; nothing depends on it. Assumed: a stop, at most 150 ms
  (`ReadSpeed.c:54`), is over and acknowledged before the cover's timer of two
  seconds; the game's driver sends nothing between a stop and the cover
  interrupt, if there will be one. `FileIOExclusive` assumes that neither settings
  (`UmbraAnytime = FALSE`) nor log entries (`LogAnytime = FALSE`) are written while the DI
  thread may be in a file, which the code does not see to (findings 1 and 4).
- **SockBridge**: weak fairness of the threads once in a call, the sweep, the
  alarm thread and the interrupt; strong fairness of IOS answering, because the
  run lets it answer only outside a sweep and outside is left again and again.
  Assumed (`QuickAnswers = FALSE`): an answer does not overtake the rest of the
  sweep that sent its request. A thrown interrupt is taken before the same
  processor posts a new call, since interrupts are on from `getFreeFD` to
  `doCallStart`.
- **IsoCache**: safety only. Assumed: `ISOSetupCache`, `ISOSeek` and `ISOInit` fall
  between reads. `PatchGame` sets the cache up while the game's loader waits, a
  seek is a command of its own, and the DI thread itself opens the image.
- **UmbraOnline**: weak fairness of the main thread inside a command, of the threads
  and their delays, and of the module serving its first call; a receive on a closed
  socket fails, one on an open socket need not end. Assumed: `mdelay(20)` of a
  disconnect outlasts the sender's `mdelay(5)` and the calls still in the module
  (`Disconnected`); the game does not disconnect within the 100 ms of a failed
  receive (`HastyLeave = FALSE`), which the 20 ms do not cover.
- **GdbStub**: weak fairness of the server's waits, and of the PPC in its handler, which
  looks at `HALT_REQ` every frame. None for GDB. Assumed: three seconds run out only
  while the PPC is not in its handler, or while it spins there on an `IDLE`, having
  halted too late for its session (`TimesOut`); a DETACH is
  answered before the next client is accepted; the words `bp_remove_all` puts back are one
  step; GDB changes few enough lines between two resumptions for
  the list (`Thrifty = TRUE`), asks `?` first and takes breakpoints out of a range
  it writes.
- **Storage**: weak fairness of the driver: IOS answers every call, if only with a time
  out. That any transfer may time out is more than IOS may do.
- **AudioStream**: weak fairness of the main loop and of the PPC's audio interrupt (a
  game that leaves its sound on). Assumed: an update takes less time than a buffer
  plays, 0.26 s (`Late = FALSE`; that `DecodedInContext` does not need it is proved, no run
  has it otherwise); a stream starts only when none plays, as games do that cancel first; streams
  have more than two chunks; the three words that start the PPC reach it together.

## What is proved

`IInv` is the inductive invariant in each case; TLC checks its parts that are
properties, the proofs need the others.

**CardProofs, of MemCard** (any card sizes up to `NoOffset`, any boundary,
contents, lengths and delay; `MemCardAssumption`). Types and
`LowAboveSystem` are inductive together, whether or not saves fail. The
others assume `~StorageFails`: `DirtyCovered`, `DirtyScheduled` and
`CleanExit` need two facts more, that a `changed` flag lives only from the
register handlers to `LoopCheckChanges` of the same iteration
(`ChangedInIteration`), and that outside that window the save's timer is no older
than the silence of the game (`TimerIsYoung`), from which `DebouncedSave` follows.
`SavesAreWhole` proves the refinement: a save copies what is tracked, and with
`DirtyCovered` that is the whole image.

**CardProofs, of ExiBus** (any pages, contents, settings and bounds, with and without
`Overlap`; `ExiBusAssumption`). All theorems assume one card, in either slot, beside the
umbra device (`OneSlot`): with two, `ExiTypeOK`, `CardHolds` and `PageStored` fail
(finding 9). `ExiIInv` holds what the two processors know of each other: `Programs` and
`Phase` say which store each context of the PPC comes to and what the device has made of
those before it, `Mail` what the mailbox holds and whose it is, `Kept` and `Unused` what
a command under way may not lose, `Cards` that the image, the transfer and the page the
game expects agree. `CardHolds` and `SignalsMatch` follow; `PageStored` needs also that
no page of a card in slot A begins like an umbra command (finding 7). `StatusIsActual`
has an invariant of its own, `SInv`: it follows the one umbra command that may be
pending (`WriteDone`, `ReadComes`). What it says of the file it says of changes that are
not `lost`; a lost one may read back as a success (finding 5). It assumes long settings
(`Short = {}`, finding 8) and the card, if there is one, in slot A (`Slot = {0}`): a
select of channel 1 does not drop `umbra_pending_read`, and there TLC finds an old
status read as that of a lost command (finding 9).

**IsoCacheProofs** (any images, block maps, block sizes, shifts, offsets and lengths,
any number of entries and size of the data area; `IsoCacheAssumption`: the read-ahead ends by
`PreloadUpTo + MaxLength`, which fits in the area). `CacheCoherent` is not
inductive: it allows an entry to reach behind `DataCacheOffset`, where the next
read goes. `EntriesBelow` says that no entry does. `ReadsDisc` speaks of reads
that are over; `ServedRight` says the same of what is served so far,
and `ReadInProgress` that the image and the kind of service do not change during a
read and that with the cache there is one portion, which is also why the
read-ahead does not overrun the buffer (`WritesInside`). `Delivered` is the lemma the
three ways of serving share. `PartRight` is the arithmetic of CISO images: a part stays
in its block, blocks have different places (`Ranks`), and an address of the file
belongs to one of them (`StoredCell`).

**GdbStubProofs** (any number of addresses, slots and list entries, thrifty or not).
`CodePreserved` holds at every store that ends a session, whatever the PPC does
between them. It rests on what the table recorded (`Recorded`), on there being one
active entry per address (`Distinct`), on the address stepped over having one
(`Window`) and on the table being empty between sessions (`Empty`). `StubTypes` is that
no list or table is written behind its end: `KeptFits` counts what `bp_remove_all` may
list. `Coherent` assumes `Thrifty`, and that GDB looks for room (`Room`) before it inserts,
removes or writes; the stub itself also lists lines without a look, when it lifts a
breakpoint, puts it back and ends a session. `Fits` gives the room that is left for
these at each place of the server: a session that is believed stopped while the PPC
runs on (`?` after three seconds) needs two entries more than one that is stopped,
since lifting and putting back can both come before the list is emptied.

**StorageProofs** (any number of sectors, contents and attempts). `MovedSame` says what
an attempt has moved so far; that an attempt starts anew at the first sector makes it
inductive over retries. It holds of attempts in which the device has the driver's own
command (`~old`): with an earlier one the attempt ends in the reset, or in a status that does
not match. `InStep` says that a device whose last reset went through waits for the next
command, with nothing old left. `OkWhenPassed` and `LeftReady` follow.

**AudioStreamProofs** (any cells to a buffer, streams of any size beyond two chunks).
Types hold whatever happens. `PlayedInOrder` assumes `~Late`. The invariant
(`InTime`, `Plays`) says where both sides are in terms of the chunk `p` that
plays: its buffer is filled with it; if no update is due the other buffer has the
chunk after it, `cur_buf` points to the one that plays and the one after both is next
to be read; if an update is due, the main loop is behind by that one chunk. `Setup`
says the same of the two chunks decoded before the PPC starts. `Val` and `After`
are the pure part: what a chunk holds at a place when the stream ends in it,
and which chunk comes next, with `FollowsInside` and `FollowsAcross` the
arithmetic. `Late` breaks the invariant at one point, `PlayStep`: the end of a buffer
with an update still due. `DecodedInContext` needs no assumption on `Late`, for it is
about what the decoder itself does: `Reading` says of the chunk `b` that is decoded
that chunks begin at multiples (`Base`, `Remainder`), that the history is that of
the cell before, and that it is right for the chunk to come (`Fitting`), except at the
repeat (`Last`).

**DIDriveProofs** (any offsets, any number of commands, one disc or two; the first and
third theorem also with `UmbraAnytime` and `LogAnytime`). One callback message serves
every request, so that the proof is about what `finished` says: outside a disc change,
that the thread has nothing to do; while it is clear and the main thread does not wait
for it, that the request is a read of the game's (`Requests`). `Control` ties the start
bit, the interrupt and the place of the main thread to the game's state, `Cover` the
pending cover interrupt to the stop it belongs to, which is why its timer's
`DIInterrupt` ends no command, and `Delivery` says that a read's data is there before it
leaves the thread. `FileIOExclusive` is a theorem about what the code does by itself,
that is for `~UmbraAnytime` and `~LogAnytime`: card saves, seeks, disc changes and
stream reads exclude each other. With the settings or the log of findings 1 and 4 it is
false, and the theorem does not claim otherwise. It needs one fact more, that the main
thread enters a file with `finished` set (`FileFree`). `DriveImplemented` maps each step
to one of `DiscDrive` or to none.

**SockBridgeProofs** (any number of threads, descriptors and calls). `TypeOK` and
`OneOwner` hold whatever IOS does: they need only what a thread holds at each place
(`Places`). `FreeOnIOSSide` and `OwnAnswer` assume `~NwcFails` and `~QuickAnswers`.
Their invariant has four parts: there is one request or answer of each descriptor the
kernel works on (`Single`), what the game reads of `ioctl_arm` misses only what
is on its way to IOS (`Flushed`), a descriptor without an owner is one the kernel has
nothing to do for (`Released`), and for each thread, by its place, its call is posted,
taken or answered, and is its own (`Carried`). `Undisturbed` is the lemma that leaves
the other threads' part alone.

**UmbraOnlineProofs** (any number of connections). `TypeOK` needs that whoever has a
call in the network module waits for it (`Queued`), `SessionFresh` and `SentWhole` that a
full mailbox is of this connection (`Filled`); they hold also with `HastyLeave`, and for a
read whose two halves are of different messages.
`OneReceiver` assumes `~HastyLeave`: then no receiver is in its delay once it is told to
end, and the wait after LEAVE outlasts the rest (`Alone`).

Every safety property and action property of the passing runs is proved; where a
theorem has hypotheses that the model does not, they are named above. Only
model-checked is liveness (`EventuallySaved`, `TransfersEnd`, `CommandsEnd`, `CallsEnd`,
`StopReported`, `Released`, `RequestsEnd`, `SendEnds`, `StreamStops`): it depends on
fairness, which is outside the prover's reach.

## Findings

Shown by a run:

1. `umbra.c:32`: file I/O with no regard to a disc read in progress, against
   `main.c:378` and `GCAM.c:356` (`didrive_umbra`).
2. `diskio.c:103`: the result of `sdio_WriteSectors`, a `bool`, is compared with
   zero as a number, so that no failed write to an SD card is reported; over USB a
   status of "failed" is taken for success (`usbstorage.c:299`). Against
   `diskio.h:21` (`disk_ok`).
3. `umbra.c:331`: LEAVE queues behind the receiver's own blocking call, so that the
   socket whose closing should unblock it (`umbra.c:334`) is not closed until a
   datagram comes (`online_leave`).

Met while modelling; each is the value of a constant the runs set the other way,
or a case a property excepts or does not speak of:

4. `vsprintf.c:300-371`: with `NIN_CFG_LOG`, `dbgprintf` opens, writes and syncs `/ndebug.log`
   through FatFs in whichever thread calls it. The main thread does so while the DI
   thread reads: for the game's own messages in the wait of `DI.c:908` and at `main.c:455`,
   and in many other places. `umbra.c:172`, `umbra.c:190`, `net.c:22` and `net.c:315` warn
   of it ("FatFS is not thread-safe"), `main.c:221` is content with it ("Looks okay after
   threading fix"). `LogAnytime = TRUE` breaks `FileIOExclusive`, as settings do
   (finding 1).
5. `umbra.c:46-57`: the results of `f_write`, `f_sync` and `f_close` are not looked at; a
   settings write is a success if `f_write` took all bytes, which for a small file is before
   anything reaches the medium. A failed flush reads back as a success with the old file or
   a torn one, against `README.md:8` of the repository ("the kernel reports actual
   success/failure of SD operations"). A write that fails on an SD card is dropped a level below
   (finding 2) and comes out the same. `StatusIsActual` excepts it (`lost`).
6. `GCNCard.c:350-358`: the marks are reset also when the file could not be opened
   (`StorageFails = TRUE` breaks `DirtyCovered`).
7. `EXI.c:809`: a page of a card that begins with "GZ" goes to umbra (`GZ` not empty
   breaks `PageStored`).
8. `umbra.c:410`: a short settings command is acknowledged and not carried out
   (`Short` not empty breaks `StatusIsActual`).
9. `EXI.c:746`: as `asm/EXILock.S` grants every lock, a card interrupt can replace a
   settings command in the mailbox; it is never answered. `TransfersEnd` is about
   card transfers and the spins of `EXIImm`, not about the game's polling for a status.
   With the card on channel 1 an older status may be read for it (`umbra.c:509`;
   `Slot = {1}` breaks `StatusIsActual`), and with two cards in use the handler of one stores
   its `EXI_CMD_1` between the other's two stores (`Slot = {0, 1}` breaks `CardHolds`).
10. `IOSInterface/source/sock.c:255`: a failed start-up is posted again on a descriptor
    whose end the kernel may not have seen; the thread then sleeps for ever
    (`NwcFails = TRUE` breaks `CallsEnd`).
11. `ISO.c:463`: the path without the cache leaves out `ISOShift64`, which
    `ISO.c:82` adds; `ReadsDisc` is about games without a shift there.
12. `gdb.c:630`: a write lists its first and last cache line only, and a ninth entry is
    dropped (`Thrifty = FALSE` breaks `Coherent`).
13. `gdb.c:1117-1119`: at the end of a session `STATE` is stored before `HALT_REQ` and `MAGIC`
    are cleared. A PPC that halts behind the first store, on a request still raised or on a
    trap still in its cache, writes `STOPPED` over `DETACH`; the game then stands still until
    the next session resumes it, and does not answer the 0x03 of that session before it
    does. `Released` speaks of halts before that store, `StopReported` of targets that run.
14. `umbra.c:338`: 20 ms do not outlast the receiver's 100 ms after an error; a quick
    reconnect has two receivers (`HastyLeave = TRUE` breaks `OneReceiver`).
15. `umbra.c:489-494`: the receiver may replace the message in the middle of its copy, so that the
    game reads half of each, and a message that comes before the flag is cleared is
    dropped. No property promises otherwise.
16. `usbstorage.c:119-124`: a bulk write that moved no byte is returned as a success. For the
    command wrapper that means a device which waits for the command while the driver waits for
    its data; the steps that follow fail, and `OkWhenPassed` and `LeftReady` hold.
17. `Stream.c:183`: an update that takes longer than a buffer lasts wipes the next
    request, and from then on buffers are filled while they play (`Late = TRUE` breaks
    `PlayedInOrder`).
18. `Stream.c:157`: a stream that does not repeat is stopped when its last chunk begins
    to play. `Stream.c:176`: the decoder's history is reset before the last chunk is
    decoded, not after it (`DecodedInContext` excepts it).
19. `ISO.c:250-254`: after a read of a CISO image that ends in a block it began at the
    block's start, `LastOffset64` is too far by the length of that part. Reads in
    sequence are then not read ahead and others may be; the data are right.

## What is not modelled

- Inside the modelled components: ROM, RTC, SRAM and SP1 devices of EXI; `F9` and the Triforce commands of the disc interface, and the
  shutdown of `DI.c:836`; images in the Wii VC (`WDVD`), CISO
  images whose map is too short for a read, read errors (`ISO.c:505`) and the
  32-bit sum of `ISO.c:471`; torn card files (a save is one step per file); the
  asynchronous PSO hooks of the socket library (`threadHandleNew`, with
  `threadInUse` at `sock.c:1040` and the polling with interrupts off at
  `sock.c:969`), the DNS resolver, the arguments of socket calls and the default case of
  the kernel's `sock.c:90`; the spin of a card that is not enabled (`EXI.c:226`); the
  registers, memory reads, packet framing and queries of the GDB stub; the
  identification of a storage medium and its shutdown; `NCDInit`; the samples of
  the audio decoder; streams of less than two chunks (`Stream.c:171`).
- `RealDI.c` is a client of the drive's own registers, whose behaviour the
  repository does not tell. `FST.c` is a sequential cache of file handles beside the
  image reader. `SI.c`, `HID.c` and `BT.c` translate packets, the Triforce
  boards decode commands, `Patch.c` matches patterns over game code, the loader is a
  sequence of menus, and the IOS services are wrappers: there is little behaviour
  over time in them to check.
- Outside `src/kernel/` and the IOS interface: vendored code (`fatfs`, `lwbt`,
  `extlibs`, `grrlib`) is external.

## Plan

Done: all modules above. What is left, in order:

1. `IsoCache`: read errors (a failed read leaves a valid entry).
2. `AsyncSock`: the asynchronous PSO hooks over `SockBridge`'s descriptors.
3. Composition: `DIDrive` over `IsoCache` (its data as the cache delivers it) and
   `MemCard` behind `ExiBus`.
