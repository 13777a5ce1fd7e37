# TLA+ models of the SoC FPGA FreeRTOS SDK

This directory holds TLA+ models of the port and the drivers of the SDK, the
TLC instances that check them, and TLAPS proofs about seven of them. Paths below
are relative to the repository. `PROJECT.json` is the index: every definition
that models code with the lines it stands for, every run, every property with a
mutation of the code that breaks it, every hazard, every theorem.

Run a check with `tlc -config MCConsole.cfg MCConsole`, a proof with
`tlapm ConsoleProofs.tla`.

## 1. The system

The SDK runs FreeRTOS, optionally SMP, on the Cortex-A cores of a SoC FPGA. The
kernel, the TCP/IP and USB stacks, libfcs, librsu and the file system are
submodules; the repository itself holds the AArch64 port, some twenty drivers,
the OSAL under them and the glue to those libraries.

    application, CLI, samples
        |            |            |            |          |
     libfcs        librsu    TCP/IP, USB     (direct)    printf
        |            |            |            |          |
     FCS driver   RSU port  NetworkInterface  I2C, SPI,  _write (portStandardLib.c)
     SEU, FPGA       |      xHCI, XGMAC       SDMMC ...   |
        \-----------/            |            |        console
              |                  |            |           |
        mailbox client          GIC          DMA       UART driver
              |                                       |
        smc_call ---------- console_lock -------------/
              |
        secure firmware, SDM (outside the repository)

Everything rests on the port: its spin locks are the kernel's task and ISR
locks and newlib's stdio locks.

### Inventory

| Component | State it keeps | Operations | What is hard | What makes it correct |
|---|---|---|---|---|
| Spin locks (`port.c`) | lock word, owner id, recursion count | `vGetLock`, `vReleaseLock` | owner id tested without the lock; `wfe` sleeps | exclusion, exact owner, no lost wakeup |
| Port: boot, interrupts, yield, tick | core-ready flags, nesting counters, yield flags | start cores, IRQ entry, IPI | a yield sent to a core that just reported ready | no yield lost, nesting balanced |
| C library locks | the STDIO and malloc spin locks | `get_spin_lock`, `give_spin_lock` | interrupts enabled by an inner release | interrupts masked while any lock is held |
| GIC | handler table, priorities, targets | register, enable, dispatch | two-step registration | a handler runs with its own argument |
| OSAL | none of its own | semaphores, mutexes, tasks | counts saturate | (kernel semantics, taken as given) |
| Secure monitor calls | none | `smc_call` | shares the UART with the firmware | no console data while a core is in EL3 |
| Mailbox client | 16 client descriptors, job bitmaps, poll task, counting semaphore | open, close, callback, send, poll, IRQ | five locks, three actors, callbacks from the poll task, deletion of live objects | one command per client, exact job bitmap, nothing used after its deletion, calls return |
| FCS driver | session map, client handles, one semaphore, two buffers | sessions and some forty commands | multi-request calls, errors between them | sessions and clients agree, success is real |
| SEU driver | client, semaphore, buffers | inject, read statistics | a wait with a timeout | a response belongs to its command |
| RSU port | client, buffers | mailbox, flash, files for librsu | error paths | buffers freed, responses matched |
| FPGA manager, freeze IP, bridges | state of the fabric | configure, freeze, reset | order of the sequence, retries | bridges closed while the fabric changes |
| UART driver | busy and async flags, counts, IER, two semaphores | sync, async, polled transfers, ioctl | registers shared with the handler, unlocked | done means moved, flags have one owner |
| Console | ring, drop count, semaphore, signal | write, flush, lock | lock-free ring, binary signal | output in order, complete, and apart from the firmware's |
| I2C driver | busy flag, counts, interrupt mask, FIFOs, semaphore | transfers by interrupt and DMA, cancel, slave | a refusal between two steps, a post nobody waits for | one owner per busy flag, success means moved |
| SPI, I3C drivers | the same, both directions in one transfer | transfers, cancel, slave | cancel of a waiting call | one completion per transfer |
| DMA driver | channel states, callbacks | setup, start, stop, suspend | completion pending at stop | a callback belongs to the running transfer |
| SDMMC, QSPI/flash | busy flags, status word, semaphores | commands, block transfers, page writes | timeout and late completion | a status belongs to its command |
| XGMAC, PHY | descriptor rings, counting semaphore, mutex | transmit, release, receive, handler | semaphore count against ring position, bits cleared together | a descriptor is released after it was sent |
| NetworkInterface, buffers | transmit pool, tokens, notification, list and semaphore of free buffers | output, input, handler task, link | three locks hand on one buffer; events that merge | buffers neither lost nor doubled, no frame forgotten |
| xHCI | command, transfer, event rings | submit, events | cycle bits, counting down | ring positions agree with the controller's |
| GPIO, timer, watchdog | register images | read-modify-write, rounding | shared registers, powers of two | changes not lost, timeout not shorter than asked |
| IOSSM, ECC, SMMU, clock, reset, reboot, system managers | registers | polled sequences, clock arithmetic | unbounded polls | arithmetic right, polls end |

The interactions that matter most: FCS, SEU and RSU are clients of one mailbox,
which calls them back from its poll task; every mailbox command passes through
`smc_call`, which takes the console's semaphore; the console's flush task is
the user of the UART driver; console writers exclude each other with a spin
lock of the port; I2C and SPI own channels of the DMA driver, which calls back
from its interrupt; the network interface calls the MAC driver from the tasks
that send and from a handler task that the MAC's interrupt notifies.

`PROJECT.json` lists 37 components and, under `hazards`, what is hard to test
in each at the line where it bites.

## 2. Modules

| Module | Models | Role |
|---|---|---|
| `RecursiveLock` | - | abstract specification: an atomic recursive lock |
| `SpinLock` | `FreeRTOS/portable/GCC/ARM_AARCH64/port.c` | the lock, one action per memory access |
| `MboxClient` | `drivers/sdm_mailbox/socfpga_mbox_client.c` and how SEU and the samples use it | clients, poll task, interrupt handler |
| `Uart` | `drivers/uart/socfpga_uart.c`, `socfpga_uart_ll.c` | one port, tasks and the handler |
| `Console` | `drivers/console/socfpga_console.c`, `_write` of `portStandardLib.c`, `smc_call` of `socfpga_sip_handler.c` | writers, flush task, callers of the firmware |
| `Fcs` | `drivers/fcs/socfpga_fcs.c` | sessions, clients, commands |
| `Xgmac` | `drivers/ethernet/socfpga_xgmac.c`, `socfpga_xgmac_ll.c` | descriptor rings, MAC interrupt |
| `BufferAllocation` | `BufferAllocation_1.c` | free list and semaphore of the network buffers |
| `NetworkInterface` | `NetworkInterface.c` | extends the two modules above with the tasks that call them |
| `Dma` | `drivers/dma/socfpga_dma.c` | channels |
| `I2c` | `drivers/i2c/socfpga_i2c.c`, `socfpga_i2c_ll.c` | extends `Dma` with a master instance, its tasks and the bus |
| `SpinLockProofs`, `MboxProofs`, `MboxDataProofs`, `UartProofs`, `ConsoleProofs`, `FcsProofs`, `NetworkProofs`, `I2cProofs` | | proofs about the module of that name; `MboxDataProofs` about `MboxClient` on top of `MboxProofs` |
| `MCSpinLock`, `MCMboxClient`, `MCUart`, `MCConsole`, `MCFcs`, `MCNetwork`, `MCI2c` | | instances for TLC |

Conventions. An action has the name of the function it models, or of the step
of it (`SendLock` is the lock in `sip_svc_send`). A function is split where
another actor can come between two of its accesses and tell the difference; the
location is the field `pc` of the task. Variables hold the fields of the C
descriptor they stand for. History variables are marked so where they are
declared. A definition called `X_Something` or marked "Mutant" is a wrong form
of the definition after it, used only to show that a property can fail. All
models are sequentially consistent; the one place where the code leaves
ordering to the hardware is the ring of the console (section 5).

### SpinLock

One lock of `xSpinLocks`. State: the lock word, owner id and recursion count,
and for each core the location, the exclusive monitor and the event register
that `ldaxr`, `stxr` and `wfe` work on. `vGetLock` and `vReleaseLock` are the
unlocked owner tests; `Sevl`, `Wfe`, `Ldaxr`, `Stxr`, `SetOwner`, `SetCount`
follow the acquisition, `Decrement`, `ClearOwner`, `Stlr` the release.
`ExceptionReturn` is an interrupt that hits a spinning core (it clears the
monitor and sets the event register). Monitor and events follow the
architecture: a store clears every monitor, and clearing another core's monitor
sets its event register. `RecursiveLock` is what callers see; the refinement
mapping takes effect at the store of the count and at the decrement.

### MboxClient

Descriptor, client table, the sets of transactions in the SDM and ready in the
firmware, the poll task and the application tasks with the semaphore each
callback posts. A task runs the sequence every user in the repository runs:
init, open, set callback, commands each followed by a wait, close, deinit. The
poll task has priority `configMAX_PRIORITIES - 2`; `Preempt` names its
locations at which application tasks may run beside it (another core, a higher
priority, time slicing). `Serial` says that the application does not overlap
start and stop calls, `Impatient` tasks wait with a timeout as SEU does, and
`Sharers` use a client that another task opened. The firmware's answers are
external: any order, and calls that may fail. A command that nobody closes
under is in one of four phases, which `Phase` names for each client: unused,
with the task that sends it, carried by the SDM and the firmware, delivered by
the poll task.

### Uart

One port with both directions, which run the same protocol and share their
actions. Registers shared with the handler are part of the state: IER, written
back from a copy (`EnableRead`, `EnableWrite`), the DLAB bit and the FIFOs. The
handler runs beside tasks when `Parallel`, and otherwise excludes them.
`FullDuplex = FALSE` states the discipline under which the driver is right:
the application starts a transfer, or configures the port, only while the other
direction is at rest. An asynchronous call returns while its transfer goes on,
so a task may register another callback or call again. The size of a transfer
and what is left of it are written in two steps with the mutex released
(`SetSize`, `SetLeft`), between which another task may ask for the count; both
the count that is reported (`Reported`) and the one of the FIFO loops
(`Counted`) are cut to 16 bits, the `CountRange` values of a `uint16_t`.

### Console

The ring is the real one: indices modulo `BufSize`, one slot kept empty, the
byte stored before `ring_head` moves and copied before `ring_tail` moves, each
half a step of its own. Bytes are numbered in the order of acceptance, so order
and completeness can be read off the numbers. Writers hold the STDOUT lock in
the ring, the flush task and `smc_call` share `console_write_sem`. The drop
count is read and cleared in two steps, as in the code, and its message is sent
after the unlock.

### Fcs

The session map with its client handles, the mailbox clients as the driver sees
them, the SDM's own sessions, the request under way, and `fcs_sem`. A command
is described by the client it runs on, whether it starts with an INIT request
that is not waited for, how many requests with a response follow, how much of
the status it returns (`width`: the driver narrows 64 bits to a `uint16_t` or
to `FCS_STATUS_MASK`), whether it drops the status, and whether its response
buffer is left unset (`fcs_write_qspi`); all of the driver's commands are
instances of that description. `Refused` and `Rejected` are the kinds of request
that the firmware may not take and that the SDM may answer with an error, one of
`Errors`; `HeapFails` says that `fcs_init` may get no semaphore. The history
field `missing` counts by kind the requests of a call that were not carried out,
INIT and the random number of `generate_uuid` among them. libfcs holds
its mutex around every call, so one call is in progress at a time. `Orderly` is
the discipline under which `session_map[session_count]` is the right slot: the
session opened last is closed first, and all are closed before `fcs_deinit`.

### Xgmac, BufferAllocation, NetworkInterface

One transmit and one receive ring with the OWN bits, the positions of driver
and DMA engine, the counting semaphore of free descriptors and `tx_mutex`;
above them the pool of transmit buffers, each with a name; beside them the
network buffers, which are counted. Three kinds of task work on these. Tasks of
the stack take a network buffer, copy it to a transmit buffer and call
`xgmac_dma_transmit` (`TransmitSem`, `TransmitFill`, `TransmitHead`,
`TransmitKick`). The handler task `Emac` goes round through reception
(`InputTake`, `InputCopy`, `InputEnd`, `Pass`), the release of what was sent
(`OutDone`, `DoneIndices`, `DoneCount`, `DoneBody`, `ReleaseTx`), errors and
the PHY. The interrupt handler clears all status bits and reports one
(`Reported`). The engine, the IP task and the PHY are external. `DoneIndices`
and `DoneCount` are steps of their own because they read without the mutex what
`DoneBody` uses under it.

`merged` records that an event left no trace: two frames sent before one
interrupt, a reception served together with a transmission, an interrupt before
the handler task exists. `NoFrameForgotten` and `BuffersComeBack` hold but for
such events; section 3 says what happens after one. `PoolAssumption`
(`NPool <= NTx`, 512 and 512 in the build) is what keeps
`xgmac_dma_transmit`'s failure out of reach: `tx_sem` is never 0 when a caller
with a buffer takes it, so its wait of 5 s, and the release that
`NetworkInterface.c` 555 forces when that fails, are not modelled.

### Dma, I2c

A DMA channel is idle or active, has items left to move, and may have its
interrupt pending. `I2c` is an open instance in the master role. A transfer is
claimed (`Claim`), started by filling the FIFO or by starting channels
(`FillFifo`, `StartDma`), armed (`Arm`, the last call of either, which enables
the interrupts) and, if synchronous, waited for: `Wake` takes the post
and clears `is_busy`, and `EndSync` tests `is_xfer_abort` a moment later, without
the mutex, when another task may have claimed the instance. A transfer by DMA of
more than `MaxDma` items (`MAX_I2C_BLK_XFERS` blocks) is refused by `StartDma`,
which leaves `is_busy` set until the task cancels. `ReadStatus` and
the `Isr...` actions are the handler, which reads the status and clears it a
moment later, while the bus goes on; `DmaDone` is the DMA handler with the
driver's callback. Tasks share the core with the handlers.

`Nacks` says when the device may refuse. The runs take `"address"` only, the
refusal of the address after the call has enabled its interrupts; the driver
does not survive the other three (section 3). A task cancels only a transfer
that is not running: an asynchronous one that the device refused, or one by DMA
that the driver refused.

## 3. What the runs check

| Run | Instance | Properties | Shows |
|---|---|---|---|
| `spinlock` | 3 cores, nesting 2 | `IInv`, `MutualExclusion`, `OwnerExact`, `Wakeup`, `SomebodyGetsIt`, `ImplementsRecursiveLock` | the lock excludes, nests, wakes every sleeper and implements the atomic lock |
| `mbox_lifecycle` | 2 tasks that open, send, close and deinit; poll task above both | `JobPoolExact`, `MutexReleased`, `NothingDangles`, `DeinitEndsTask`, `CallsReturn` | no call hangs, no object is used after its deletion, also when one task closes while the other sends |
| `mbox_parallel` | 2 tasks, 2 jobs each, beside the poll task at every location | `OneCommandPerClient`, `NothingDangles`, `CompletionHasData` | the same on several cores while clients stay open; a completion has its data |
| `mbox_shared_client` | 2 tasks on one client, one with a timeout, beside the poll task | `IInv` | a command passes from its sender to the SDM, to the poll task and back, late or not |
| `mbox_timeout_stale` | 1 task with a timeout | `CompletionHasData` (violated) | finding 1 |
| `uart_half_duplex` | 2 tasks on other cores than the handler, sync and async, configure and close, FIFO of 2, up to 3 bytes, counts modulo 3 | `IInv`, `BusyHasOwner`, `NBytesExact`, `CallbackAsRegistered`, `DoneMeansMoved`, `TransfersEnd` | one owner per busy flag, counts exact after a transfer and never ahead of it but while its size is set, the right callback, every transfer ends |
| `uart_full_duplex` | 1 writer beside 1 reader, one core | `DoneMeansMoved` (violated) | finding 2 |
| `console` | 2 writers, 1 caller, ring of 3, writes of up to 2 bytes | `IInv`, `OutputInOrder`, `DataOutsideFirmware`, `EverythingPrinted`, `DropsAnnounced` | output in order and complete, drops announced, no data while a core is in EL3 |
| `fcs` | 3 tasks, 2 sessions, 3 clients, inputs of 2 blocks, refusals, rejected commands | `SessionTable`, `SessionTiedToClient`, `ClientsAccounted`, `SuccessIsReal`, `CallsReturn` | driver and SDM agree on sessions, no client leaks, a call that returns 0 was carried out but for three requests whose rejection is dropped, calls return |
| `fcs_session_client` | the same without `Orderly` | `SessionTiedToClient` (violated) | finding 3 |
| `network` | 2 callers, rings, pools and buffers of 2, up to 2 frames and 2 changes of the link | `IInv`, `TxBuffersAccounted`, `TxDoneSafe`, `NetworkBuffersAccounted`, `NoFrameForgotten`, `BuffersComeBack` | buffers neither lost nor doubled, no descriptor released before it was sent, no mutex left behind, frames fetched |
| `i2c_master` | 2 tasks, both directions, sync and async, interrupt and DMA, FIFO of 2, up to 4 bytes, up to 3 by DMA, refused addresses | `OwnerExact`, `DoneMeansMoved`, `TransfersEnd` | one owner at a time, no post left behind, success means moved unless a claim overtook the refused call, every transfer ends |

`IInv` is the inductive invariant of the proofs; it contains the module's
`TypeOK`, and TLC checks it before a proof relies on it. Those of `I2cProofs` and
`MboxDataProofs` (`Data`, `Life`) are defined beside their proofs.

### Bounds

- Three cores are the fewest for which a release can wake two spinning cores
  that then compete; a nesting of 2 is the fewest that separates a nested from a
  final release.
- Two mailbox clients and two tasks are what the handler, the poll task and the
  locks can tell apart; `MaxJob` 1 and 2 make the job bitmap run full and wrap,
  `MaxCount` 1 and 2 make the counting semaphore saturate.
- A UART FIFO of 2 and transfers of up to 3 bytes give transfers shorter than,
  equal to and longer than the FIFO, so the handler finishes some of them. With
  a `CountRange` of 3, the least that holds a full FIFO, a transfer of 3 bytes
  is what 65536 are in the code.
- A ring of 3 holds 2 bytes: writes of 2 wrap it, three of them overflow it.
- Two FCS sessions of three tasks reach the limit of sessions; three mailbox
  clients are one too few for the driver and another user together. The error
  code 2049 stays an error in its low 11 bits and does not fit into them, so
  that narrowing it changes it.
- Rings and pools of 2 wrap, fill and run empty with two senders. `Loads` lists
  the traffic of a behaviour: two senders; a sender and a frame; a sender and
  changes of the link; frames and changes of the link. `MaxFrames` and
  `MaxFlaps` bound what comes from outside; senders go on without a bound.
- An I2C FIFO of 2 and transfers of up to 4 bytes need the handler once more
  after the call filled the FIFO, and end with a full or a part-filled FIFO;
  with `MaxDma` 3 transfers by DMA exceed the FIFO or, with 4 bytes, the blocks
  the driver allows.

### Fairness

- `SpinLock`: a core executes the next instruction; the outermost release comes
  (every `portGET_*_LOCK` has its `portRELEASE_*_LOCK`); interrupts do not hit
  the two instructions from `ldaxr` to `stxr` every time. Nothing is assumed of
  which core wins, and a particular core may starve.
- `MboxClient`: the firmware and the SDM answer and do not fail for ever
  (strong fairness for a successful query), an enabled interrupt is taken, a
  runnable task runs. Tasks need strong fairness: the poll task interrupts them
  and other tasks take the semaphores they wait for, but it blocks again after
  each round, and the kernel serves waiters of one priority in the order in
  which they came.
- `Uart`: the line drains, the peer keeps sending, the handler runs when its
  interrupt is raised. Nothing obliges a task to start a call.
- `Console`: a write that began goes on, the firmware returns, the flush task
  (of idle priority) gets a processor, and the semaphore in the end: its
  waiters are queued by the kernel, hence strong fairness for `FlushLock`.
- `Fcs`: a call goes on, the SDM answers every request it took, the poll task
  delivers.
- `NetworkInterface`: tasks and interrupts run, the engine works off its ring.
  Strong fairness for those who take `tx_mutex`, whose waiters the kernel
  queues, and for the expiry of the PHY timer, which is periodic. Nobody has to
  send.
- `I2c`: a call that began goes on, handlers run, the bus and the DMA engine
  move. Strong fairness for `Arm` and `EndSync`, which interrupts of another
  task's transfer hold up but not for ever. Nobody has to call, to cancel or to
  refuse.

### Findings

1. `drivers/seu/socfpga_seu.c:245`: a command that timed out leaves the post of
   its late callback in `seu_semphr`. The next command returns from its wait at
   once, with a zeroed response that reads as success.
2. `drivers/uart/socfpga_uart_ll.c:372`: `uart_enable_interrupt` reads and
   writes IER without a lock while the handler clears a bit in it. With a read
   beside a write, the cleared bit comes back and the spurious interrupt posts
   `wr_sem`: `uart_write_sync` returns with bytes left.
3. `drivers/fcs/socfpga_fcs.c:272`: `fcs_open_session` stores its client in the
   first free slot and sends through `session_map[session_count]`. Open A, open
   B, close A, open C: C's session comes from B's client.

Two more properties are stated in the modules, which the code does not have and
no run checks:

- `LineExclusive` of `Console`: the drop message (`socfpga_console.c:383`) is
  written after `console_unlock`, so it falls into the firmware's output, which
  `smc_call` takes the lock to prevent. `DataOutsideFirmware` is what remains.
- `LinkFollowsPhy` of `NetworkInterface`: `NetworkInterface.c:1353` clears the
  flag of a change while the PHY is still down, and nothing sets it again. Line
  82 says that the PHY is checked every second; after a short loss of the link
  the interface stays down.

Where a comment of the repository and the code disagree, the properties follow
the code:

- `uart.h:379` and `uart.h:386` promise a count of 0 when the last operation
  was in the other direction. Nothing resets it: `UART_GET_TX_NBYTES` goes on
  reporting the last write, and `NBytesExact` is about that number.
- `I2C_SUCCESS` and the return value 0 stand for a transfer of all bytes, but a
  synchronous call that the device refused returns 0 when another task claims
  the instance between lines 1217 and 1220 of `socfpga_i2c.c` (1454 and 1457 in
  the read). `DoneMeansMoved` excepts that call, and only that one, by what the
  history variable `result` says. The other way round, a call that moved its
  bytes returns -EIO when the transfer that overtook it is refused; no property
  speaks of that.
- `fcs_random_number`, `fcs_request_hkdf` and, for the uuid, `fcs_open_session`
  return 0 when the SDM rejects the request (`socfpga_fcs.c` 424, 1420, 226).
  `SuccessIsReal` excepts these three requests by name. The answer of the SDM to
  an INIT is never looked at (lines 884, 1056, 1783): of an INIT the property
  says that the firmware took it.

### Outside of the disciplines assumed

The constants state when the code is right. With them widened TLC reports:

- mailbox, clients closed from their callback while `Preempt` is not empty: the
  poll task posts a deleted `client_free`; with `Serial = FALSE`, a close that
  deletes the mutex of a client opened in between, and a second `mbox_init` that
  takes a half-made descriptor for initialised (`socfpga_mbox_client.c` 521);
  with a closing client that another task shares, send and close deadlock on
  their two mutexes; after a timeout a late response is copied to a buffer
  whose call has returned;
- UART, `UART_GET_CONFIG` during a transfer (`socfpga_uart_ll.c` 244): DLAB
  redirects the data registers and bytes are counted that never moved; full
  duplex also loses an enable;
- console: the number in the drop message can be wrong;
- FCS: a rejected `OPEN_SESSION` leaks its client, and so does `fcs_init`
  without its semaphore (lines 131 to 137, `HeapFails`); a rejected
  `CLOSE_SESSION` leaves a closed client in the map; a random number that is
  refused or rejected (line 300) gives all such sessions one uuid; without
  `Orderly` an open can fail because slot `session_count` is empty. With a
  status such as 65536 among `Errors`, which the driver narrows to 0 (lines 313,
  372, 491, 638), a rejected command reads as success; the codes of the SDM have
  11 bits;
- network: without `merged`, a frame that came in together with a sent one, or
  before the handler task exists, waits in its descriptor for the next frame,
  and of two buffers sent before one interrupt the second stays out until later
  traffic. `lost` counts the network buffers that `xNetworkInterfaceOutput`
  keeps when the transmit pool is used up;
- I2C, with `"early"` in `Nacks`: an address refused before
  `i2c_enable_interrupt` (`socfpga_i2c.c` 923) ends the transfer first, and the
  enable sends the rest of it or posts again; with `"data"`: a write counts as
  done when the FIFO is empty (line 1801), so a byte refused after that posts
  for nobody and the next synchronous call returns 0 at once, which
  `socfpga_i2c.h:447` reserves for "all the requested bytes have been written";
  with `"dma"`: a refused DMA transfer leaves its channel active, and every
  later one returns with `is_busy` set (line 1209), as one that is too long does
  without any refusal.

## 4. What is proved

### SpinLockProofs

For any set of cores and any nesting bound, from `NoOwnerAssumption` (the free
id is no core's) and `MaxNestAssumption` (the bound is positive).

`MutualExclusion` is not inductive: the owner test nests without the lock word,
so exclusion depends on the owner id being exact at every instant, and a core
between its successful `stxr` and its stores holds the lock without saying so.
`IInv` therefore adds `OneHolder` (one core between `stxr` and `stlr`, and the
lock word is 1 meanwhile), `CallState` (where a call can be, given the nesting),
`OwnerExact`, `MonitorState` (an armed monitor before `stxr` means the word is
still 0) and `NoLostWakeup`. Lemmas `NextTypeOK`, `NextHolder`, `NextWakeup`
prove preservation, one step per action. Theorems: `Invariance`, `Exclusion`,
`OwnerIsExact`, `WakeupsNotLost`, and `Refinement`, that every step is a step of
`RecursiveLock` or leaves it alone.

### ConsoleProofs

For any number of writers and callers and any ring of two or more slots, from
`ConsoleAssumption`.

`OutputInOrder` needs to know what a writer or the flush task has half done:
`HalfDone` says that a writer between its store and its move of `ring_head` has
room and that its byte is in place, and that the flush task between its copy
and its move of `ring_tail` had a byte to copy. That holds because one writer
at a time is in the ring (`StdoutExact`) and the tail only makes room.
`SemaphoreExact` gives the semaphore one holder, from which
`DataOutsideFirmware` follows; `Quiet` covers the time before the scheduler
runs, when writes are polled out. The ring itself is treated by four lemmas
on `Ring(b, h, f)`, the sequence that a ring holds from index `f` to head `h`:
it is a sequence (`RingIsSeq`), a store at the head does not change it
(`RingStore`), moving the head appends (`RingAppend`), moving the tail takes
the first byte (`RingTake`); they rest on the remainder of an index that went
around once (`ModOnce`). Theorems: `Invariance`, `Order`, `Exclusion`.

### MboxProofs

For any tasks, clients, jobs and locations in `Preempt`, for tasks that share a
client, that give up waiting, and that overlap their start calls or do not;
from `MboxAssumption`. The theorems assume `Closers = {}`, that is, that nobody
closes a client or the mailbox; `StepIInv` says only that no step but one of
`mbox_close_client` and `mbox_deinit` can break the invariant, and
`MboxDataProofs` goes on from there.

`JobPoolExact`, `OneCommandPerClient` and `MutexReleased` all follow from
knowing who has a command. `Phase(s)` says it of client `s`: `Unused`, nobody
has it and the bitmap is empty; `Sent`, one task has, and the bitmap holds its
job once `Armed`; `Carried`, one transaction of it is in the SDM or the
firmware; `Delivered`, the poll task has it, with the job until it frees it.
`client_free` is 0 in all phases but the first. The rest of `IInv` is control:
`Starting` (one task allocates the descriptor when there is no poll task),
`Handles` (a task with a handle has an open client, until it closes it),
`Fetched`, `OnlyClosersClose`, `MutexReleased`. The proof has a lemma for each action. `PhaseKept`,
`SendersKept` and `DriverElsewhere` treat the clients an action does not touch,
so that each of these lemmas is about one client changing its phase:
`WaitFreeStep` from `Unused` to `Sent`, `SmcStep` to `Carried`, `TakeStep` to
`Delivered`, `PollPostStep` back. Theorems: `Invariance`, `JobsExact`,
`OneCommand`, `MutexNotLeft`.

### MboxDataProofs

What a caller may rely on when it wakes up, what the poll task may rely on
when it writes to a caller's buffer, and how the mailbox ends. For any tasks,
clients and jobs, from `MboxAssumption` and the hypothesis `Patient`: each user
has a client of its own, waits without a timeout, and users do not overlap
their start and stop calls. Each part is needed: with a timeout TLC finds
finding 1, with a shared client one caller takes the post meant for another,
with overlapping starts a second task opens a client of a descriptor that
`mbox_init` has not set up. `NoDangling` and `WokenWithData` cover two cases:

- `Closers = {}`, any `Preempt`: nobody closes, and other tasks run beside the
  poll task at every location (the instance of `mbox_parallel`);
- `Preempt = {}`, any `Closers`: any task closes its client and shuts the
  mailbox down, and no task interrupts the poll task (`mbox_lifecycle`).

With both, `NothingDangles` does not hold: `mbox_close_client` tests only
`job_pool`, so a task that the callback woke may delete `client_free` before
the poll task, which has freed the job, posts it; and `mbox_deinit` may free
the descriptor before the poll task, woken to end, has read it once more.

`IInv` does not speak of the buffers, so the proof adds `Data` to it.
`Answers`: for each transaction from `smc_call` to the copy there is a task
inside the call or waiting, not woken yet, whose buffer is registered for that
very job; after the copy and before the callback the task has its response; a
task that was woken has it. This is kept because a client belongs to one task
(`Owners`) whose callback and buffer it has (`Registered`), and because `Phase`
of `IInv` says that there is no second transaction of a client to which a
callback is made. `Existing` says what exists when, for the descriptor, the
semaphores and the mutexes. Steps of a call and of the drivers that neither
send, copy nor wake go through `CallKeeps` and `DriverKeeps`; `SmcData`,
`CopyData`, `CallbackData` and `AwaitData` are the others.

For tasks that close, neither `IInv` nor `Data` is inductive: closing a client
with a command under way would break both. `Life` says why this does not
happen. One task at a time starts or stops (`OneAtATime`), so that a lock of
the client list is its own (`ListHeld`). A task that has passed the tests of
`mbox_close_client` has a client whose `client_free` is not 0 (`ClosingTask`):
by `Phase` no command of it is anywhere, and as the client has no other user
nobody can send one before it is deleted (`Alone`, `LifeOfCall`). At the end,
`Ending`: from the test of `mbox_deinit` to the release of the descriptor no
client is open, the interrupt is off and the poll task is gone or was waiting
and has been woken, so `PollEnds` knows where it is when the descriptor goes.
`IInv`, `Data` and `Life` are one induction: `CloseStarts`, `ListLocked`,
`Reset`, `MutexDeleted`, `Deinit` and `Freed` are the steps that close, in
their order, and each keeps all three.

Theorems: `LifecycleInvariance`, `NoDangling`, `WokenWithData`, `PollTaskEnds`,
and `ClosedClean`, the three invariants of `MboxProofs` for tasks that close.

### UartProofs

For any tasks, FIFO and lengths of transfers, on one core or several, from
`UartAssumption` and `HalfDuplex`, the discipline described above; without it
the properties do not hold (finding 2).

The flags are cleared outside of the mutex, so what has to be invariant is who
may still post or clear them. `Claimed`: a call in progress owns its direction
alone. `HandlerState`: an enabled interrupt, a post, and the handler between
its callback and its flags each belong to a transfer in progress, and exclude
each other. `CallState`: none of these is there while a call moves bytes and
writes IER. `Disciplined` is what half duplex gives. `Counts` relates `left` to
the bytes that passed, in full numbers and at every step but the one between the
writes of size and left; cutting to 16 bits can only make what is reported
smaller (`Shrinks`), from which `NBytesExact` follows. One lemma per action;
those of the handler share `Serve`. Theorems: `Invariance`, `OneOwner`, `CountsExact`, `CallbackKept`, and
`Completion`, the action property.

### FcsProofs

For any tasks, sessions, finite sets of clients and lengths of input, from
`FcsAssumption`.

`SuccessIsReal` needs no discipline: it holds whatever is refused and rejected,
with or without `Orderly`. It says that nothing is `missing` of a call that
returned 0 but what a rejection leaves of the three requests it names. The
invariant has two parts. `Ordered` holds of every status: a request under way,
or its answer posted to `fcs_sem`, is the one the call in progress waits for
(`Matched`), so that no post is left for a later call. `Answered` counts:
`Tally` says that a call misses what it still owes (`Owed`), and once the SDM has
accepted the request under way, that less this one (`Paid`); where it has not,
the answer is one of `Errors`. That the driver then sees an error takes the
hypothesis `ErrorsVisible`, that no error is 0 in the 16 or 11 bits that a call
returns of it; the SDM's codes are the 11 bits of `FCS_STATUS_MASK`. Theorem:
`SuccessExact`.

The theorems about sessions have a hypothesis on the constants,
`SessionDiscipline`, of which the run `fcs` is an instance. The code does not
enforce it, and each part is needed: without `Orderly` finding 3 appears; a
refused or rejected `uuid` gives two sessions the same zeros; a rejected `open`
leaks the client it opened and a rejected `close` keeps the slot of a client
that is closed (section 3); an `fcs_init` without its semaphore leaves its client
open; an SDM with fewer sessions than `FCS_MAX_INSTANCES`
rejects an `open`. Requests other than `uuid` may still be refused on the way.

The invariant, `SessionsAgree`, says in every state what the properties say
between calls. `TableExact`: the table is a stack, the slots below
`session_count` hold sessions with ids and clients of their own, the rest hold
none but for the id being opened. `ClientsExact`: the clients open are those of
the table, the security client and the one of the session being opened (`Mine`).
`SdmExact`: the sessions of the SDM are those of the table, plus the one it
opened and the driver has not entered yet (`Fresh`), less the one it closed and
the driver has not removed yet (`Gone`). `UuidsExact`: each uuid a task holds is
in the table, and no other task's. `CallExact`: the request, its answer and the
call speak of the same session and client. Being a stack is what makes the
first free slot (`FirstFree`), the one whose client is used and the one that is
counted the same. Theorems: `SessionTableExact`, `SessionsTied`, `NoClientLeaks`.

### NetworkProofs

For any finite set of callers, any rings and network buffers, any traffic and
changes of the link, from `XgmacAssumption`, `NBufAssumption` and
`PoolAssumption`. The latter says that the transmit pool is no larger than the
ring, as in the code (both 512: `NetworkInterface.c` 109, `socfpga_xgmac.h` 93).

The code never tests OWN before it releases a descriptor; that this is right
follows from counting. `RingState`: from the tail on, the ring is `Sent`
descriptors that the engine is done with, then the rest of the `Filled` ones,
then free ones; `Filled` is what is taken from `tx_sem` less the callers that
still wait for `tx_mutex`. `TokensBacked`: tokens, a pending TI and a release
under way together are at most `Sent`, so the handler task finds a sent
descriptor at the tail. `IndicesRead` is what it knows of the indices it read
before the mutex: if they meet, the ring is full, and -EINVAL is not reached.
`PoolState`: the pool's count is the callers with a buffer, `Filled` and the
release, so with a pool no larger than the ring -EIO is not reached either. `MutexExact`
and `Locations` say who is where. The type bounds of the network buffers rest
on `NetworkBuffersAccounted`, which is inductive together with them. The proof
has a lemma for each action, over lemmas that count tasks at a location
(`SetMove`) and positions of a ring. All this is `BufferInv`.

`RxInv` is the receive side. `RxState`: from the head on, the ring holds frames
first and descriptors of the engine after them, and the engine's next one is
where they meet. So the handler task, which looks at the head alone, leaves no
frame behind when it finds none there, and a frame in any descriptor has its
event pending, noted or being worked on. The frame for which the task took a
network buffer is still at the head when it copies it. `IInv` is both parts.
Theorems: `Invariance`, `TxBuffers`, `TxDoneIsSafe`, `NetworkBuffers`,
`FramesKnown`.

### I2cProofs

For any number of tasks, any depth of the FIFOs, any lengths and any limit of
the blocks of a DMA transfer, from `DmaAssumption`, `I2cAssumption` and the hypothesis `NackDiscipline`, which the
run `i2c_master` meets: a device refuses nothing but its address, after the call
has enabled the interrupts. Each of the other refusals breaks one of the two
properties (the hazards at `socfpga_i2c.c` 1209 and 1801).

`OwnerExact` and `DoneMeansMoved` look at the ends of a transfer; what makes
them true is where its bytes are in between. `CallersExact`: one call owns the
instance, a refused one until it cancels, and a post is for it; a call that has
given the instance back and not returned yet (`pc` is `"end"`) owns nothing. A transfer is in progress (`Moving`) from its
first command to its report, and the invariant is by `Phase`. `DmaMoving`: bytes
moved, and those the channels, the FIFOs and the wire still hold, make up the
size. `IntMoving`: the same with the driver's counters `left` and `rdleft` in
place of the channels, and no interrupt but the refusal before the device is
addressed. `Calm`: in between nothing moves, but three things may be left that
the next transfer must not mistake for its own. They are writes of a DMA
transfer that was reported when its last word entered the FIFO (`Leftover`, hence the `k` of
`Requested` and `Commanded`), a TX_EMPTY still enabled after a read, and the
completion of the channel that wrote a read's commands. `Quiet` shows that
handlers have served the last two before a task can make its next call, so that
no channel is active then and -EIO in `StartDma` is not reached
(`StartDmaGoes`); a transfer that is too long is (`StartDmaRefuses`). `Claimed`
carries this to the start. `Results` says of the calls between `Wake` and their
return what the history says: while `is_xfer_abort` is clear a call has moved
everything or was overtaken, because the flag of its own refusal stays set until
the next claim. One lemma per action; those of the calls share `Starts` and
`StartedCaller`, those of the handlers `Serving` and `OverReport`. `Total` is
`IInv` with `Results`. Theorems: `OneTransfer`, `DoneIsMoved`.

### Only model-checked

- Liveness and everything under fairness (`Wakeup`, `SomebodyGetsIt`,
  `CallsReturn`, `TransfersEnd`, `EverythingPrinted`, `DropsAnnounced`,
  `BuffersComeBack`), which is out of the prover's reach. No module uses
  `RECURSIVE`.
- The bounds of the counters of `I2c` and `Dma` (`TypeOK`); the proofs use
  natural numbers.

## 5. What is not modelled

- Data: command arguments, message contents, buffer sizes, baud rates, cache
  maintenance.
- Weak memory ordering. `ring_head` of the console is neither volatile nor
  preceded by a barrier (`socfpga_console.c` 95): on another core it may become
  visible before the byte it stands for. `OutputInOrder` holds for the order of
  the source. stdout and stderr have different stdio locks (line 78); the
  model's writers share one.
- UART: a finite `configUART_SYNC_TIMEOUT_MS` (the default waits for ever; with
  a limit, line 369 leaves `tx_is_busy` set).
- Console: `console_deinit` (nothing calls it), the variant without flush task.
- FCS: how an input is cut into blocks (line 2027 subtracts tag, AAD and padding
  from an unsigned rest), the operation buffers.
- Network: register configuration, MDIO, addresses and lengths in descriptors,
  `xRxBufSynchSem` (line 1161; the receive pool is emptied once, at the start),
  `BufferAllocation_2`, which is not built, and the TCP/IP stack itself.
  `BufferAllocation_1.c` 398 skips a buffer that is already in the list: the
  model counts, so `NetworkBuffersAccounted` says that this does not happen.
- I2C: open and close, transfers without a STOP (line 1759), `i2c_cancel` of a
  running transfer (what the controller does to its FIFO is not in the code),
  the slave role.
- DMA: `dma_open`, `dma_config`, the linked list; `dma_stop_transfer` beside a
  pending completion (line 430), since nothing in the models stops a channel
  that runs.
- The components that `PROJECT.json` lists as `not_modelled`, each with its
  reason: drivers that are planned (section 6), and parts without state that a
  model could add to a reading of them, as PHY and SMMU register sequences,
  cache maintenance, startup assembly.

The models cover a small share of the repository's lines. More than a quarter
of these are register headers (`*_reg.h`, 36 000 lines of field masks), and much
of the rest is the kernel's demo tasks, the command line front ends of the drivers and
the samples, which hold no state of their own. In the drivers, configuration
sequences, argument checks and accessors outweigh the code that shares state
between tasks and handlers; the models are about the latter.

## 6. Plan

Done: `SpinLock`, `MboxClient`, `Uart`, `Console`, `Fcs`, the network interface
with the MAC and the buffers, I2C with DMA, and the theorems of section 4. Next,
most important behaviour first:

1. `Spi` on `Dma`: the pattern of the UART with both directions in one transfer,
   and a cancel (`socfpga_spi.c` 1257, 1484); then `i2c_cancel` and the slave
   role in `I2c`, with `dma_stop_transfer` beside a pending completion.
2. `Sdmmc`, `Flash`, `I3c`: a bounded wait and a late completion
   (`socfpga_sdmmc.c` 2514, 2552; `socfpga_flash.c` 388; `socfpga_i3c.c` 389).
3. `XhciRing` with its cycle bits (`xhci_events.c` 123).
4. `StdlibLock` on `SpinLock` with the interrupt mask (`portStandardLib.c` 46);
   `SmpPort`: boot of the secondary cores, nesting, yields (`port.c` 460); the
   GIC's table (`socfpga_interrupt.c` 230).
5. Operators checked against references: watchdog rounding
   (`socfpga_watchdog.c` 449), UART divisor, FCS block split, clock tree. Small
   state: timer, GPIO (line 52), FPGA manager with freeze IP and bridges, IOSSM
   (`socfpga_iossm_ll.c` 84), RSU (`rsu_misc_ops.c` 79).
6. An abstract mailbox, a set of commands each answered once, that `MboxClient`
   implements for the users of `Patient`, with `Answers` as the core of the
   refinement mapping.
