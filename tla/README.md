# TLA+ models of VIHAL

VIHAL is a C++ hardware abstraction library for microcontrollers: drivers for
the peripherals of many families, and on top of them modules that have a logic
of their own - SD cards, storage managers and a FAT file system, CAN queues, an
Ethernet and IPv4 stack, a USB device stack, serial flash. Nearly all of it is
*cooperative*: an object has a `Run()` method that the main loop calls for ever,
and a call never waits but moves a state machine by one step. A few paths are
also entered from interrupt handlers.

This directory holds TLA+ modules for the parts that have such logic, the TLC
configurations that check them, and proofs checked by TLAPS. `PROJECT.json`
lists the runs, the properties, the lines each definition stands for, the
hazards of the code and the theorems.

## 1. The system

| Component | State it keeps | Operations | What makes it correct |
|---|---|---|---|
| Storage manager (`fs/core/stormanager`) | chain of transactions, state, current one | `AddTransaction`, `Run`, `WaitTransaction`, `FinishCurTra` with callback | first come first served, each transaction reported once, completed exactly when reported |
| SD card storage manager (`fs/core/storman_sdcard`) | one-sector buffer and its address, progress of a partial transaction | `Run` (7 states) | a device of bytes on a device of sectors; the buffer is the sector it is named after |
| SD card (`modules/sdcard`) | transfer in progress, initialisation state | `StartReadBlocks`, `StartWriteBlocks`, `Run` | a transfer ends once; no error means all blocks moved |
| File system (`fs/core/filesystem`, `fs/fat`) | queue of file transactions, directory operation, position of each file | `Open`, `Read`, `Seek`, `Run` | a read returns the bytes at the file position, along the cluster chain |
| CAN queues (`core/src/hwcan`) and drivers | two rings, the controller's FIFO, the interrupt mask | `StartSendMessage`, `HandleTx`, `HandleRx`, `TryRecvMessage` | order kept, every loss counted, from two contexts |
| Network adapter, IPv4 (`network`) | free and sending packet lists, ARP table and jobs, UDP queues | `Run`, `SendTxPacket`, `ReleaseRxPacket`, ARP retry | a packet buffer has one owner; a job ends by sending or giving up |
| Ethernet (`core/src/hweth`, drivers) | PHY poll state, descriptor rings | `Run`, `TryRecv`, `TrySend` | link changes are seen once |
| USB device (`usbdev`) | control transfer stage, endpoints, configuration | setup, data and status events, reset | one stage at a time; a reset returns to the default state |
| USB-UART (`usbdev/usbfunc_cdc_uart`) | two double buffers, circular DMA index | `Run`, transfer events, line coding | no byte lost, doubled or changed under the DMA |
| Serial flash, SPI (`modules/serialflash`, `core/src/hwspi`) | operation, phase, remaining range | `StartReadMem`, `StartWriteMem`, `StartEraseMem`, `Run` | exactly the range asked for is changed |
| Internal flash (`core/src/hwintflash`) | the same | `StartEraseMem`, `StartWriteMem`, `StartCopyMem`, `Run` | the same |
| I2C queue (`core/src/hwi2c`) | chain of transactions | `AddTransaction`, `Run` | as the storage manager |
| Displays, sensors, printf, UART, pins, clocks | - | - | no protocol worth a model: rendering, arithmetic, registers |

How they interact: a `TFile` puts a transaction into its `TFileSystem`, which
puts storage transactions into a `TStorManager`, which starts transfers of a
`TSdCard`, which starts transfers of a `THwSpi`. Each level calls `Run` of the
one below and reads its `completed` flag; the way back is a callback or a flag.
The network stack is built alike (`TIp4Handler` on `TNetAdapter` on `THwEth`).
Interrupts enter at the CAN drivers, the USB controller and the DMA.

What is hard: callbacks that re-enter the object that calls them; buffers kept
from one transaction to the next; errors in the middle of a transaction in
several steps; two contexts in one ring; sizes at a border. Every such place
is a `hazards` entry with its line and the property that covers it, or the
module of the plan that will.

## 2. The modules

| Module | What it is |
|---|---|
| `StorDevice` | abstract: the storage device a client of a storage manager sees |
| `StorSdcard` | `TStorManager`, `TStorManSdcard`, the transfer interface of `TSdCard` |
| `MCStorSdcard` | its instance for TLC |
| `StorSdcard_proofs` | theorems about `StorSdcard` |
| `StorSdcard_refinement` | the theorem that `StorSdcard` implements `StorDevice` |
| `SdBlockCard` | abstract: the card a user of `TSdCard` sees, blocks read and written in order |
| `SdCardSpi` | `TSdCardSpi`: initialisation and transfers over SPI, against the bytes of a card |
| `MCSdCardSpi` | transfers for TLC |
| `SdCardSpi_windows` | lemmas: what a window of bytes holds, and what the card does with a command or a block |
| `SdCardSpi_proofs` | theorems about `SdCardSpi` |
| `FileSysFat` | `TFile`, `TFileSystem` and `TFileSysFat` on a storage manager |
| `MCFileSysFat` | a volume for TLC |
| `FileSysFat_proofs` | theorems about `FileSysFat` |
| `HwCanTx` | the transmit path of CAN: ring, `HandleTx`, hardware FIFO, interrupts |
| `HwCanTx_proofs` | theorems about `HwCanTx` |
| `Arp4Table` | the address table of `TArp4Table`, most recently used first |
| `NetIp4` | `TNetAdapter`, `TIp4Handler` and the descriptor rings of the MAC |
| `MCNetIp4` | stations and destinations for TLC |
| `NetIp4_proofs` | theorems about `NetIp4` and its address table |
| `CdcUart` | the USB to UART bridge, with its interrupts and DMA channels |
| `CdcUart_proofs` | theorems about `CdcUart` |

How they compose. `FileSysFat` stands on the storage manager of `StorDevice`
(a transaction ends, moved or failed), which `StorSdcard` implements (checked and
proved); `StorSdcard`
stands on a card that reads and writes blocks or fails, which is what
`SdBlockCard` promises and `SdCardSpi` implements (checked and proved). `NetIp4` extends `Arp4Table`
and holds both sides of the adapter, the protocol handler above and the driver
below, because one list pointer in a packet serves all of them.

### StorSdcard

One action per branch of `TStorManSdcard::Run` (`StartTransaction`,
`FinishNormal`, `FailPartial`, `ReadLoaded`, `WriteLoaded`,
`FinishPartialWrite`, `FinishRefused`), each a whole call of `Run`: it begins
with the card's own `Run` (`CardRun`, the outcomes with which the card is ready)
and includes the helper functions called, up to and including the callback.
A call of `Run` that finds the card busy changes nothing and is a stuttering
step. `AddTransaction` is a client's call between two calls of `Run`; the
callback in `FinishCurTra` may make the same call (`ExecCallBack`), also with
the object that is being reported. `CardInit` is the application's call of the
card's `Init`, before which every start is refused with `HWERR_NOTINIT`.

Variables have the names of the fields. `cur` groups the running values of a
partial transaction, `sdcard` the fields of `TSdCard`, `disk` is what the card
holds, `tra` holds the fields of each `TStorTrans` with its data buffer.
`queue`, `report`, `tainted` and `clean` are history variables: no guard of the
code's actions reads them (the guard of `Append2Chain`, that a client adds only
an object it does not wait for, is the clients' duty).

Abstractions, and why they are harmless:

- Sectors of `SectorSize` bytes and bytes with few values: only offsets,
  alignment and equality matter.
- The card is a nondeterministic choice: a transfer ends at a later call with
  all its data moved, or with an error after `n \in FailPoints` bytes. A timeout
  (`HWERR_TIMEOUT`) is counted with the read or write errors: the manager only
  tests for nonzero. A card that reports success has moved the data.
- The start of a transfer calls the card's `Run` once; neither card driver can
  finish a transfer in that call, so a start never completes it.
- Fields that are always written before they are read (progress, parameters of
  the last transfer) are reset when a transaction ends, which joins states that
  behave alike.
- Requests lie within the card and have at least one byte.

`StorDevice` is what a client may rely on: a queue served from its head; a
transaction reported once, with its result; a write changes only the bytes it
covers and to what it holds; a read changes only the client's buffer within its
length; success means the bytes of the client and those of the card agree.
`StorSdcard` implements it with `store <- disk` and `trusted <- clean`: the
promise about bytes is void for a transaction that starts on a *tainted* sector
buffer. Tainted means what the code does to the buffer without renaming it: an
aligned write of the buffered sector, or a failed transfer of the buffer. That
this happens is the finding of the run `storsdcard_buffer`; that nothing else
taints it is `BufferCoherent`.

### HwCanTx

Two contexts, the main loop and an interrupt handler, each executing
`StartSendMessage` or `HandleTx` in steps of one access to shared state. The
interrupt may come between any two steps of the main loop unless interrupts are
disabled, and runs to its end. `saved` is the stack of interrupt states held in
the local variables `pm`. The ring, the put and get indices, the set of
requested FIFO slots and the message RAM are as in the code and the controller;
`Transmit` (the controller) and the preemption rule (`Step`, `Enter`) are
modelled from how the code uses them. `Masked` selects the two forms of
`HandleTx` in the repository: with interrupts disabled around a loop
(`hwcan_stm32_fd`, `hwcan_atsam_v2`, `hwcan_msp`), or one message without
(`hwcan_atsam`). Messages are numbers given as they enter the ring. Identifier,
length, data, timestamps and error counters are left out.

### SdCardSpi

The transfer states of `RunTransfer` and the initialisation states of `RunInit`
with their numbers, as one machine (`RunMachine`) that a call of `Run` and each
start function execute: `StartReadBlocks` and `StartWriteBlocks` call `Run`
themselves, so the first command goes out in the same step. `StartRefused` is a
start while a transfer is under way: the code writes `HWERR_BUSY` into the
error code of the transfer that is running.

The machine clocks *windows* of a fixed number of bytes and looks in them for a
response, a data token or the end of the busy signal. The card is external, a
stream of bytes: what it has to say (`out`), put behind a gap of any length up to
`MaxGap`, and after it zeros while it is busy, else 0xFF. So an answer may
come early, late or never, a data token may be in the window of the command, and
the CRC window of a block may hold the beginning of the next one. Bytes are
classes (command response, token, data of block b at offset i, CRC, ...).

Abstractions and limits:

- An SPI transfer is complete when `Run` is next called; a call that finds it
  under way is a stuttering step. The 50 ms limit is a choice (`late`) at every
  poll.
- The card raises no busy signal after the CMD12 of a read. Chip select going up
  in the middle of a transfer drops it, or leaves the card *lost*: deaf to the
  commands that follow. A busy card ignores commands and data. CRCs are ignored
  by the code.
- The fields of the CSD register are not decoded; `GetResult128`, which may read
  beyond its window, is left out.
- The code accepts a multiple write whose block was not acknowledged
  (`sdcard_spi.cpp:380`); `acked` remembers it, and the promises about success
  are void for such a write.

`SdBlockCard` promises: a read that succeeds has delivered exactly the blocks
asked for, in order; a write that succeeds has stored them; whatever happens
only blocks of the transfer change.

### FileSysFat

The clients call `Open`, `Read` and `Seek` of their file, which may end at once
(`Ends`) or append a transaction; `Run` is one call of `TFileSystem::Run`, in the
three forms it takes: `RunInit` (the boot sector), `RunOp` (a directory operation
is active: `TFileSysFat::RunOpDirRead`, then the handler when it has ended) and
`RunTransaction` (`HandleFileOpen`, `HandleFileRead`, `HandleDirRead`,
`HandleFileSeek` for the transaction at the head). Each begins with what became
of the storage transaction (`StorRun`): it was complete, all was moved, or it
failed after some units. A call that finds it under way is a stuttering step.

The volume is a constant - the FAT, the directory entries, and per file the chain
of its clusters, which the code never sees as a whole - because the file system
only reads. Storage is addressed in units; a unit that was read is represented by
the address it came from, so "the right bytes" means "the right addresses", and
the directory sector `buf` can hold units of another sector than the one it is
named after. `ListingOf`, `Lookup`, `Resolved` and `DataAt` say what the volume
holds without a buffer, a position or an operation; the properties compare the
code with them. A directory is named by its first cluster (`Directories`); its
units are the `Places` of its clusters (`Way` follows the FAT), and `ListingOf`
counts the live entries before the end mark (`LiveIn`, `NthLive`).
`DirectoryAssumption` says that directories hold entries only and that an entry
for a directory leads to one, or to cluster 0 when it is the ".." of a directory in
the root. `got`, `from`, `listed` and `strayed` of a file are history: what
a read moved, where it began, which entries a directory read gave, and whether a
`Seek` has led the file astray (finding 4).

Abstractions and limits:

- A directory entry is one unit. A name is compared through the relation
  `Begins`: `CheckPathSegment` compares the characters of the segment only
  (`filesystem.cpp:329`), so a segment finds every name it is a beginning of;
  the model takes that as the meaning of a path.
- The root directory starts at cluster 2. `Seek` within a cluster masks absolute
  addresses, so where the data area does not start at a multiple of the cluster
  size it counts as leading the file astray.
- The chain of a live file is at least as long as its size (`SoundAssumption`), and
  chains stay below the limit of the code (`filesys_fat.cpp:190`). What the FAT
  says elsewhere is arbitrary, and what is read beyond the FAT too.
- The fields of one transaction are cleared when it ends, and `op` and `stra`
  with them; they are written before the next transaction reads them.
- `EnterDir` leaves a search that finds its first sector in `buf` to the next
  call, where the code goes on at once; nothing happens between.
- Clients do not seek in directories. There are no writes: the code has none.
- A client that gives a buffer too small for an entry gets
  `INVALID_FDATABUF` and loses that entry; it counts as listed.
- In the runs a failing transfer fails before its first unit. One that fails
  half way leaves the old name on a directory buffer that is partly new; this is
  the hazard `filesys_fat.cpp:234`, and the model allows it with another
  `FailPoints`.

### NetIp4

The main loop calls `Run` (in two forms: `RunIdle`, `RunReceive`), `Send` of a
UDP socket and `Receive`; the MAC sends what is in its descriptors (`MacSends`)
and receives (the frames `RunReceive` finds). Each action is the whole call:
`Run` of the adapter polls the link, releases the packets at the head of the sending
chain that are sent, takes a received packet through the protocol handler and gives
its buffer back unless a socket keeps it, and runs the handler's jobs - requests,
time limits, tries. A packet gets its descriptor when it is sent (`TrySend`), from
the handlers as well as from `Send`.

A packet has one `next` pointer and is in one list at a time: the free packets,
the chain being sent, the jobs that wait for an address, a socket's queue. The
lists are modelled as the pointers they are (heads, tails and `next`), and
`OnePlace` is the property that they never share a packet. Names of variables
are those of the members, grouped in records `tx`, `rx`, `table`.

`Marks` and `Links` tell the drivers apart: `hweth_imxrt` marks the descriptor of
a received packet when it returns it, and its `Stop` does nothing (`Marks = TRUE`,
`Links = {TRUE}`); `hweth_stm32` does not mark it, and stops the MAC when the
link is down. Headers, checksums and payloads are left out; a frame is what kind
of message it is, for whom and to which station.

Limits: sockets are given (`AddUdpSocket` links a third one in place of the
second, which a look at `net_ip4.cpp:606` shows). With a MAC that can be stopped
the packet of the ARP requests can be sent again while it is still in the
transmit chain, which cuts off the packets behind it (`net_ip4.cpp:358`): it is
listed as a hazard, and the passing run and the proofs about the transmit side have
the driver in which it cannot happen.

### CdcUart

`Run` is the main loop, in steps of one access to what it shares with the USB
interrupt and the DMA (`pc` is the place). `InEvent` and `OutEvent`, the transfer
events of the two bulk endpoints, `Configure` and `SetLineCoding` are handlers of
the USB interrupt: they come between any two steps and are not interrupted.
`UartByte` and `TxDma` are the two DMA channels. `Move` and `CopyByte` are single
steps because nobody else touches their variables then: the OUT endpoint is
closed while a packet waits in `usb_rx`. Where the handler is called from is
outside the repository: `HandleIrq` of the controller is called by the
application, from the interrupt of the controller.

Bytes are numbered. `up` and `down` are history: how many came, which were passed
on, and which the code is *known* to drop - what of `usb_txbuf` exceeds one packet
(`usbfunc_cdc_uart.cpp:401`) and what a change of the line coding finds on its way
(`:188`). `race` names the interleavings after which the code keeps no promise,
and a behaviour is followed up to the first of them:

| `race` | What happens |
|---|---|
| `overrun` (`:274`) | the receive DMA comes round to the read index: the circle counts as empty |
| `in_event` (`:402`) | the packet is reported as sent between `StartSendData` and `ready_to_send = false` |
| `out_event` (`:228`) | a packet comes between the test of the DMA and the flip in `Run`'s `SerialSendBytes` |
| `restart` (`:335`) | the line coding changes within `Run` or while a packet is on its way |
| `empty_packet` (`:350`) | the host sends an empty packet: the endpoint is never opened again |

The half of `usb_txbuf` in use is a sequence: every controller's
`StartSendData` copies the bytes at once, so the other half is never read.
A second configuration and a bus reset are not modelled.

## 3. The runs

| Run | Shows | Bounds |
|---|---|---|
| `storsdcard` | type, `ChainIsQueue`, `CompletedWhenServed`, `BufferCoherent`, `ImplementsDevice` | 2 transactions (symmetric), card of 2 sectors of 2 bytes, 6 requests, a failure after 1 byte |
| `storsdcard_live` | `EveryTransactionReported` | 3 requests, no symmetry |
| `storsdcard_buffer` | violation of `BufferedSector` (finding) | 3 requests, no failing transfer |
| `hwcantx` | type, order, counted losses, restored interrupts, untouched FIFO slots, `NotStuck` | ring of 3 slots, FIFO of 2, 5 messages and one more in flight |
| `hwcantx_atsam` | violation of `LostIsCounted` (finding) | the same with 3 messages |
| `filesysfat` | type, `PositionKept`, `DirListsInOrder`, `EofIsEnd`, `ReadReturnsFile`, `OpenResolves`, `TransactionsEnd` | one file and one directory object, sectors of 2 units, clusters of 2 sectors, 4 chains, 6 file and 2 directory paths, reads of 2 and 5, seeks to 0 and 9 |
| `filesysfat_full` | violation of `EofIsEnd` (finding) | the root directory has no free entry |
| `filesysfat_seek` | violation of `ChunkInFile` (finding) | one file |
| `sdcardspi` | type, `UsedWhenReady`, `ImplementsCard`, `LeavesListening`, `SentWhenAwaited`, `TransferEnds` | card of 3 blocks of 8 bytes, windows of 3 to 8, gaps up to 4, 2 tries, 2 unacknowledged polls, 5 transfers |
| `netip4` | type, `OnePlace`, `MacOwnsChain`, `QueuedIsKept`, `TableIsMru`, `GoesToLatest`, `GivenUpLate`, `JobsEnd` | 2 addresses, 3 stations, table of 2, 2 transmit packets and the reserved one, 1 receive buffer, 2 tries, 1 socket |
| `netip4_stm32` | violation of `QueuedIsKept` (finding) | 1 transmit packet and the reserved one, 2 receive buffers |
| `cdcuart` | type, `HalvesApart`, `BytesInOrder`, `TransferEnded`, `BytesArrive`, `HostMaySend` | circle of 3, `usb_txbuf` of 3, halves of 2, packets of 2, 4 bytes each way, 1 change of the line coding |

Why the bounds are enough. Storage: two objects give an empty chain, a chain of
one and of two, and a callback that re-adds its own object before and behind
another; two sectors of two bytes give every kind of chunk (first half, second
half, whole, crossing a border), and the six requests overlap in all
combinations of aligned, partial, read and write, and one is refused by type.
A failure after one byte leaves the buffer and the sector half moved. CAN: a
ring of three slots holds two messages and wraps within the run; the FIFO of two
is filled, so that both limits are reached, and messages are lost.
Two contexts are what a Cortex-M with one interrupt priority has. FAT: the root
directory takes two clusters that are not adjacent, the file `ab` three in an
order that goes backwards, so that a lost or skipped step along a chain shows; a
read of 5 crosses sectors and clusters and the end of the file, reads of 2 and
of 5 together leave odd and even offsets, and a read of 2 is too short for a
directory entry; the positions are the start and the end of the file, two
clusters on (the first position of a cluster is what `filesysfat_seek` is for).
The entries are of every kind: volume label, directory, `.` and
`..`, deleted, file, empty file, end. The paths have every answer of `Open`. Two
objects make a queue of two, and directories that take the buffer from each
other. SD card: the windows are scaled down with the block, the short ones below
the longest gap, so that every response and token comes inside, at the border of
and beyond its window, and the CRC window holds up to six bytes of what comes
next; three blocks have a first, a middle and a last one. Network: two transmit
packets and the reserved one make every list reach its limit while another
packet is elsewhere, three stations for two addresses and a table of two force a
replacement and a change of address, two tries a repetition and a giving up.
Bridge: four bytes down put packets into the half under the DMA, the other half
and `usb_rx` at once; four up put one packet on its way and cut another, and wrap
in the circle; full packets are followed by empty ones.

Fairness. `StorSdcard`: weak fairness of `Run`; the main loop calls it for ever,
and the model's `Run` is the call that finds the card ready, so this includes
that the card answers each command. Clients owe nothing. `HwCanTx`: a context
that may go on does; the main loop calls `HandleTx` again and again (the driver
says so at `hwcan_stm32_fd.cpp:364`); the controller sends what is requested.
Interrupts need not come. `FileSysFat`: weak fairness of `Run`, for the same
reason as in `StorSdcard`; the storage manager reports every transaction
(`EveryTransactionReported`, checked there); `Fairness` in `FileSysFat` says so of
the calls that can do something. `SdCardSpi`: `Run` is called for ever, a busy
card gets ready, and the 50 ms pass; without the second a write does not end
(`sdcard_spi.cpp:347`). `NetIp4`: `Run` is called for ever, the MAC sends, and time
limits expire. `CdcUart`: the main loop goes on, the host asks for what is ready,
and the UART sends, up to the first race. Deadlock is checked in every run but
those of `FileSysFat`. The file system really may stop: when the boot sector
cannot be read `Run` returns at once for ever, with the transactions pending.
`TransactionsEnd` makes exactly that exception.

Findings. (1) `storsdcard_buffer`: an aligned write does not update or invalidate
the sector buffer (`storman_sdcard.cpp:230`), so a partial read that follows
returns old bytes and a partial write that follows writes them back.
(2) `hwcantx_atsam`: `HandleTx` of `hwcan_atsam` uses a put index that an
interrupt may have used since; a message is overwritten and not counted.
(3) `filesysfat_full`: at the end of a directory's cluster chain
`RunOpDirRead` finishes the transaction but leaves the operation active
(`filesys_fat.cpp:192`), so the next transaction, of whatever file and kind, is
finished with EOF too - and with none in the queue the code follows a null
pointer. A directory whose last cluster has a free entry never gets there.
(4) `filesysfat_seek`: a `Seek` to the first position of a cluster stops the
walk at the cluster before (`filesys_fat.cpp:355`) and leaves the location at its
start, one cluster before the position; and a `Seek` from there within the next
cluster (`filesystem.cpp:136`), when a read ended at the end of a cluster, keeps
the cluster of the location. The next read takes other data than those of the
position. (The same line takes clusters to begin at multiples of their size; on a
volume where they do not every such `Seek` is wrong.)
(5) `netip4_stm32`: `TryRecv` of `hweth_stm32` (`hweth_stm32.cpp:311`) does not mark
the descriptor of the packet it returns, so when a socket keeps the packet and
the ring goes round, it returns it again; the socket's queue is cut and the
packet handled twice.

## 4. The proofs

`StorSdcard_proofs` proves, for every sector size, card, set of requests, set of
transaction objects and set of failure points that satisfy the assumptions of
`StorSdcard`:

- `TypeCorrect`: `Spec => []TypeOK`. The difficult part is that a copy stays
  inside the sector buffer and the client's data;
- `ListCorrect`: `Spec => []ChainIsQueue`;
- `CompletedCorrect`: `Spec => []CompletedWhenServed`;
- `BufferCorrect`: `Spec => []BufferCoherent`.

None of these is inductive alone. The invariant `IInv` is the conjunction of
`ListInv` (the chain is the queue, the queue has no object twice, completed
exactly outside it, request fields as requested), `FieldsOK` (types of the
rest), `ServeInv` (while the manager is not idle `curtra` is the head of the
queue, which is what lets `FinishCurTra` take `firsttra` off when it means
`curtra`), `ProgressInv` (the running address, pointer and remaining length stay
within the request, and the sector the state waits for is the right one),
`TransferInv` (which transfer the card carries in which state) and
`BufferCoherent`. The step lemmas follow the code: one for a list operation, one
for a chunk, one for each branch of `Run`, and `NextInv` puts them together.

`StorSdcard_refinement` builds on these and proves, from the same assumptions,
`RefinementCorrect`: `Spec => ImplementsDevice`, the manager is the storage device
its clients see. What `IInv` lacks is which bytes a transaction has moved, so the
proof adds `MovedInv`: in the partial states the progress splits the request, and
what was moved before it agrees with the card; during the write of a sector the
buffer is that sector as the card holds it, with the chunk replaced
(`Changed`); in full block mode the card moves exactly the range of the request;
and a refused transfer has left an error. `CardMoves` draws from it what one call
of `sdcard->Run` may do to the card and to the client's data, also when it fails
half way; a lemma for each handler maps it to `Serve` or `Finish` of the device, and
`NextMaps` puts them together. The bytes of a transaction that was served from a
sector buffer that no longer holds its sector (`clean` is FALSE, finding 1) are
excepted, as in the run.

The assumptions are those of the module: sizes are positive naturals, a sector
has at least two bytes, requests lie within the card, `NULL` is no transaction.

`HwCanTx_proofs` proves, for rings and FIFOs of any size, any number of messages
and both forms of `HandleTx`:

- `TypeCorrect`: `Spec => []TypeOK`;
- `InterruptsCorrect`: `Spec => []InterruptsRestored`;

and for the drivers that disable interrupts in `HandleTx` (`Masked`):

- `OrderCorrect`: `Spec => [](Masked => WireInOrder)`;
- `PendingCorrect`: `Spec => PendingUntouched`, assuming `Masked`: a requested slot is
  left alone;
- `LostCorrect`: `Spec => [](Masked => LostIsCounted)`.

The only assumption is `ConfigAssumption` (sizes are positive). The inductive invariant adds to the types:
`SectionInv` - the stack of saved interrupt states is determined by the place of
each context, and at most one context is in a section with interrupts disabled;
`CountInv` - a message is counted as added before it can be counted as lost;
`MessageInv` - what is requested, or about to be, is a message;
`QueueInv` and `OrderInv` - what was sent, what is in the FIFO, what is in hand and
what is in the ring follow each other in this order, stated over intervals of
two circular buffers; `SumInv` - their cardinalities add up, with the lost ones, to
the messages added. Without `SectionInv` none of the others survives an
interrupt; `hwcantx_atsam` is the counterexample for the driver in which it does
not hold.

`CdcUart_proofs` proves, for buffers and packets of any size (`SizeAssumption`:
all at least 2, and a packet fits into a half):

- `TypeCorrect`: `Spec => []TypeOK`, no buffer is filled or read beyond its end;
- `HalvesCorrect`: `Spec => []HalvesApart`. The strengthening is `FlushInv`: between
  the test of the DMA and the flip the DMA is idle until it is started, and then
  reads the half that is flipped away;
- `TransferEndCorrect`: `Spec => []TransferEnded`. The strengthening is `SendInv`:
  while `Run` may send nothing is on its way, and the state of the endpoint tells
  the kind of packet;
- `OrderCorrect`: `Spec => []BytesInOrder`, for any number of bytes and of changes
  of the line coding too. The strengthening, on top of the two above, is `UpInv` and
  `DownInv`: what waits in `usb_rx` is nothing while the endpoint is open, what `Run`
  copies is not ahead of the receive DMA (`Behind`, measured on the circle), and the
  transfer that `Run` starts is as long as the half it stands for. Each step of the code
  is then one of three: it moves bytes on (`MovedKept`), drops some out of the
  middle (`DroppedKept`) or takes some at the end (`TakenKept`). `WindowGrows`,
  `WindowShrinks`, `RestShrinks` and `FilledIs` say what the circle and the halves hold
  after a byte or a packet more or less. Restarts outside `Run` are covered; like the
  property, the invariants speak of behaviours up to the first `race`.

`SdCardSpi_proofs` proves, for windows, blocks, gaps, tries and cards of any size:

- `SpiTypeCorrect`: `Spec => []TypeOK`;
- `ReadyWhenUsed`: `Spec => []UsedWhenReady`, the card has left its idle state (it may
  be busy: it is while it stores a block);
- `AwaitedWhenSent`: `Spec => SentWhenAwaited`, in the middle of a transfer nothing is
  sent to a card that is busy or does not wait for it;
- `SuccessLeavesListening`: `Spec => LeavesListening`;
- `SpiImplementsCard`: `Spec => ImplementsCard`, the machine is the block card that
  the storage manager stands on.

The assumptions are `WindowAssumption` - a window is shorter than a block and the CRC
windows hold at least the CRC, as the code's are - and `BlockAssumption`, requests
within the card. The machine knows a card only by the window it clocked last, so
the invariant (`SdInv`) has one conjunct for each group of states (`States`) and
speaks of the stream of bytes that starts in the window and goes on with what the
card has still to say: `At` is its byte at a place, `Ahead` its length. `ReadLook` says
(`Coming`) that the stream holds no start token and the block is still to be sent, or
never will be, or that the first start token begins the block the transfer is at
(`BlockAt`); `ReadHas` and `ReadMore` that what
follows a block is its CRC, then perhaps the next block; `Honest` that a byte other
than zero shows a card that is not busy, which is what makes the end of a busy signal
trustworthy; `HonestAfter` the same for the bytes after a data response, and `Taken`
that a response of acceptance means a block stored. The write states add which
blocks the card holds (`StoredUpTo`) and how the card's own address follows the
transfer. A poll that shifts the window, a block that straddles two windows, and a
block that begins in the CRC window of the one before are the cases of the proof;
`SdCardSpi_windows` has the facts about streams that they share. Each action's lemma
also says what the step is for the users of the card (`Effect`): `Keeps` is a stutter,
`Reads` a block more, `Writes` a block stored, `Finishes` the end of the transfer.

`FileSysFat_proofs` proves, for sectors and clusters of any size, any volume, any
number of files and any paths, lengths, positions and points of failure:

- `TypeCorrect`: `Spec => []TypeOK`;
- `PositionCorrect`: `Spec => []PositionKept`;
- `ReadCorrect`: `Spec => ReadReturnsFile`;
- `ListsCorrect`: `Spec => []DirListsInOrder`, assuming `FailsClean`;
- `EofCorrect`: `Spec => []EofIsEnd`, assuming `FailsClean` and `DirsEnd`;
- `ResolveCorrect`: `Spec => OpenResolves`, assuming `FailsClean` and `DirsEnd`.

The assumptions are those of the module: a cluster is a multiple of the sector and
its size fits the code's `unsigned` (`UnitsAssumption`); `Chain` follows the FAT
and ends where the FAT leaves the volume (`ChainAssumption`); a live file has a
chain as long as its size (`SoundAssumption`). Of the transactions a file has
waiting, only the one at the head may be half done, so the invariant (`IInv`) is
`Good` for every file and a phase for the head. `Good` places an open file:
`Located` says that some cluster of its chain is the one of its position and of its
location, at the same offset, the end of the cluster included; `ReadOK` that what
was moved so far are the data from the beginning of the read to that place, and
what remains is the rest of what it is to deliver; `SeekOK` that a walk is at the
beginning of a cluster before its target. `PhaseInv` says what the storage
transaction is for: the next chunk, the link of the cluster that has been read, the
link of the cluster a walk is at - or nothing that matters. It is also what keeps
the operation left active at the end of a directory's chain (`Stuck`, finding 3)
away from files: the transactions it ends end where they were. The lemmas are about
records first (`AdvancedGood`, `EntersGood`, `StepsGood`, `ArrivesGood`,
`InClusterGood`, `FoundGood`), then one for each handler (`Turn`: the invariant, no
other file changes, and what a successful read has delivered). A file that a `Seek`
has led astray (finding 4) keeps its size and first cluster in `Good`, nothing more,
until a `Seek` from the start or an `Open` finds the way again.

The theorems on directories add `DirInv`: an open directory, and a directory
operation under way, stand at a place of a directory, and every live entry before it
has been listed, or has been searched for the segment in vain (`Stands`,
`Searching`); `buf` holds the sector it is named after (`Holding`); the result of an
operation that has ended is what its segment leads to (`ResultOK`). A listing is a
beginning of `ListingOf` because the live entries before a place are counted
(`Rank`): a step over a unit leaves the count or adds one to it. The hypotheses are
needed. `FailsClean` (a failed transfer of the storage has moved nothing) excludes
the hazard at `filesys_fat.cpp:234`, after which `buf` is not the sector it is named
after. `DirsEnd` (every directory has an end mark) excludes finding 3: without it an
operation ends its transaction at the end of the chain with whatever it had, and the
run `filesysfat_full` shows `EofIsEnd` violated. The instance of the run `filesysfat`
satisfies both.

`NetIp4_proofs` proves, for pools, rings and tables of any size, any sets of
addresses and sockets and any frames heard:

- `OnePlaceHolds`, `MacOwnsChainHolds`, `TypeOKHolds`, `GoesToLatestHolds` and
  `GivenUpLateHolds`: `OnePlace`, `MacOwnsChain`, `TypeOK`, `GoesToLatest` and
  `GivenUpLate`, when `Links = {TRUE}`;
- `TableIsMruHolds`: `Spec => []TableIsMru`, whatever the links do;
- `QueuedIsKeptHolds`: `Spec => []QueuedIsKept`, when `Marks`.

Both hypotheses are those of the `hweth_imxrt` driver, whose `Stop` does nothing and
whose `TryRecv` marks the descriptor. They are needed: with a MAC that is stopped
while the link is down, a request that times out is sent again while it is still in
the chain (§ 2), and without the mark `QueuedIsKept` fails, which the run
`netip4_stm32` shows.

The properties speak of lists that are followed from pointer to pointer. The
invariants name the lists instead: *there are* sequences that the pointers link
(`Linked`), and `FollowLinked` - an induction over the index, by the least index
where it would fail - says that following the pointers gives them. What is left are
facts about sequences.

- `Ordered`, of the transmit side: `Linkage` and `Places` say that the free packets
  `F`, the chain `C` and the jobs `J` are linked and that each packet is in exactly
  one of them, or in the hands of the handler that runs; the lengths add up to the
  pool and the packet of the requests, which leaves the ring, of `Pool + 1`
  descriptors, one free for every packet in hand: `SendTxPacket` never meets a
  descriptor still owned by the MAC. `Sending` ties the chain to the ring: the packets of
  `C` have the descriptors just before the next one, counted back around the ring
  (`Back`), the first `m` of them given back. `Asking` ties the packet of the requests to
  the first job: it asks for that job's next hop, is in the chain only while `ArpRun`
  waits for it, and the requests counted so far and the one in the ring are the tries
  of the code. Each operation of the code has a lemma (`SendKeeps`, `ReleaseKeeps`,
  `UnqueueKeeps`, `AllocateKeeps`, `ReleaseSentKeeps`, ...), and `ArpRun` one for each of
  its phases, which also say what happened to the packets and jobs (`PacketStep`,
  `JobStep`): the two action properties follow from these.
- `Holds`, of the table: the items in use are a list `L`, linked both ways, and the
  rest a list `U`; no two items of `L` have the same hardware address, and the stations
  of `L` are the announcements kept. `Unchain`, `AddAsFirst` and `CreateNewItem` are
  followed in turn, with the item in hand out of both lists.
- `ReceiveOk`, of the receive side: a descriptor is marked taken exactly while its
  packet is in the list of one socket, once.

Model-checked only: the liveness properties (`TransactionsEnd`, `JobsEnd` and the
like) and `NotStuck`: liveness under fairness and ENABLED are beyond the prover. Every
other property of the passing runs is stated by a theorem.

## 5. Not modelled

Register-level drivers, start-up code and the vendors' headers (most of the
repository by size): their behaviour is that of the hardware. Displays, sensors,
text formatting: no state that another part depends on. The WiFi module: a text
dialogue with firmware outside the repository. `PROJECT.json` gives the reason
for each component.

## 6. What is left

1. `UsbControl` - the stages of a control transfer, reset, configuration.
2. `SpiFlash`, `IntFlash` - ranges in chunks, refused starts.
3. `HwCanRx` - the receive ring with its unprotected reader.
4. Proofs: what still holds of `NetIp4` when the link goes down.
