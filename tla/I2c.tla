--------------------------------- MODULE I2c ---------------------------------
(***************************************************************************)
(* One instance of the I2C driver in its master role,                      *)
(* drivers/i2c/socfpga_i2c.c, opened, with two DMA channels: synchronous   *)
(* and asynchronous writes and reads, in interrupt mode and by DMA, the    *)
(* interrupt handlers, and the FIFOs of the controller (socfpga_i2c_ll.c). *)
(*                                                                         *)
(* A command in the TX FIFO is a byte to write or to read; its value, the  *)
(* target address and the timing are left out, and every transfer ends     *)
(* with a STOP.  The controller and the device are external: the           *)
(* controller serves the TX FIFO in order, addresses the device with the   *)
(* first command of a transfer, and empties the FIFO when it is refused.   *)
(* Tasks run on the core that handles the interrupts, so that an interrupt *)
(* is served before a task's next step; the bus goes on in between.  The   *)
(* mutex encloses only the test and set of is_busy: a claim is one step.   *)
(***************************************************************************)
EXTENDS Sequences, FiniteSets, Dma

CONSTANTS
  Callers,  \* the tasks that use the instance
  Depth,    \* of the two FIFOs
  MaxDma,   \* items of the longest transfer by DMA: MAX_I2C_BLK_XFERS blocks
            \* of I2C_DMA_XFER_BLK_SIZE
  Nacks     \* when the device may refuse: "address", when it is addressed,
            \* or "early", before the call has enabled the interrupts; "dma",
            \* in a DMA transfer; "data", a byte after the address

Ops == {"READ", "WRITE"}
Ints == {"TX_EMPTY", "RX_FULL", "TX_ABRT"}

ASSUME I2cAssumption ==
  /\ Depth \in Nat \ {0} /\ MaxDma \in Nat \ {0}
  /\ Channels = {"wdma", "rdma"}
  /\ Nacks \subseteq {"address", "early", "dma", "data"}

VARIABLES
  i2c,     \* i2c_descriptor: is_busy, operation, is_async, is_xfer_abort,
           \* xfer_size, bytes_left, rd_cmds_left; dma, the channels enabled
           \* (is_wdma_en, is_rdma_en)
  sem,     \* the binary semaphore a synchronous call waits on
  mask,    \* IC_INTR_MASK
  bus,     \* tx, the TX FIFO; rx, bytes in the RX FIFO; open, the device is
           \* addressed; byte, the command on the wire; abrt, raw TX_ABRT;
           \* dma, the requests enabled (TDMAE, RDMAE)
  isr,     \* the status i2c_isr has read, when it runs
  caller,  \* of each task: pc; xfer, the transfer it owns; ints, the
           \* interrupts its call enables last
  moved,   \* (history) bytes of the transfer that were read, or written to
           \* the wire; in a DMA write, words that the controller accepted
  result   \* (history) of each task whose synchronous call is about to
           \* return: all its bytes moved ("whole"), or not ("part", and
           \* "overtaken" once another task has claimed the instance)

vars == <<channel, i2c, sem, mask, bus, isr, caller, moved, result>>

Commands == [rd : BOOLEAN, last : BOOLEAN, dma : BOOLEAN]

TypeOK ==
  /\ DmaTypeOK
  /\ i2c \in [busy : BOOLEAN, op : Ops, async : BOOLEAN, abort : BOOLEAN,
              size : 0 .. MaxItems, left : 0 .. MaxItems,
              rdleft : 0 .. MaxItems, dma : SUBSET Channels]
  /\ sem \in BOOLEAN /\ mask \subseteq Ints
  /\ bus.tx \in Seq(Commands) /\ Len(bus.tx) <= Depth
  /\ bus.rx \in 0 .. Depth /\ bus.open \in BOOLEAN /\ bus.abrt \in BOOLEAN
  /\ bus.byte \in {"none", "write", "read"} /\ bus.dma \subseteq Channels
  /\ isr \in [on : BOOLEAN, status : SUBSET Ints]
  /\ caller \in [Callers -> [pc : {"idle", "start", "arm", "wait", "end"},
                             xfer : {"none", "sync", "async", "nacked",
                                     "refused"},
                             ints : SUBSET Ints]]
  /\ moved \in 0 .. MaxItems
  /\ result \in [Callers -> {"none", "whole", "part", "overtaken"}]

NoCall == [pc |-> "idle", xfer |-> "none", ints |-> {}]

Init ==
  /\ DmaInit
  /\ i2c = [busy |-> FALSE, op |-> "READ", async |-> FALSE, abort |-> FALSE,
            size |-> 0, left |-> 0, rdleft |-> 0, dma |-> {}]
  /\ sem = FALSE /\ mask = {}
  /\ bus = [tx |-> <<>>, rx |-> 0, open |-> FALSE, byte |-> "none",
            abrt |-> FALSE, dma |-> {}]
  /\ isr = [on |-> FALSE, status |-> {}]
  /\ caller = [c \in Callers |-> NoCall]
  /\ moved = 0 /\ result = [c \in Callers |-> "none"]

-----------------------------------------------------------------------------
(* i2c_get_interrupt_status: IC_INTR_STAT, the raw bits that are enabled.  *)
(* The thresholds of the FIFOs keep their reset values.                    *)
Status ==
  mask \cap ((IF bus.tx = <<>> THEN {"TX_EMPTY"} ELSE {})
            \cup (IF bus.rx > 0 THEN {"RX_FULL"} ELSE {})
            \cup (IF bus.abrt THEN {"TX_ABRT"} ELSE {}))

InterruptPending == Status # {} \/ \E ch \in Channels : channel[ch].done

(* A task runs when the handlers have nothing to do.                       *)
TasksRun == ~isr.on /\ ~InterruptPending
At(c, loc) == caller[c].pc = loc /\ TasksRun
Goto(c, loc) == caller' = [caller EXCEPT ![c].pc = loc]
Least(a, b) == IF a < b THEN a ELSE b

(* The task whose transfer is in progress.                                 *)
Owners == {c \in Callers : caller[c].xfer # "none"}

(* i2c_write_fifo and i2c_enq_read_cmd, asked for n of the transfer's      *)
(* commands: what they queue.  The last command carries the STOP.          *)
Queued(n) == Least(n, Depth - Len(bus.tx))
Enqueue(n, rd) ==
  bus.tx \o [i \in 1 .. Queued(n) |->
              [rd |-> rd, last |-> i = n, dma |-> FALSE]]

-----------------------------------------------------------------------------
(* The calls.  One that is refused (-EBUSY, -EINVAL) changes nothing and   *)
(* is no step.                                                             *)

(* i2c_ioctl: I2C_ENABLE_WDMA, I2C_DISABLE_WDMA, and the same for RDMA.    *)
i2c_ioctl(c, ch) ==
  /\ At(c, "idle")
  /\ i2c' = [i2c EXCEPT !.dma = IF ch \in @ THEN @ \ {ch} ELSE @ \cup {ch}]
  /\ UNCHANGED <<channel, sem, mask, bus, isr, caller, moved, result>>

(* i2c_write_sync, i2c_write_async, i2c_read_sync and i2c_read_async claim *)
(* the instance and set up the descriptor.                                 *)
Claim(c, op, async, n) ==
  /\ At(c, "idle") /\ caller[c].xfer = "none" /\ ~i2c.busy
  /\ i2c' = [i2c EXCEPT !.busy = TRUE, !.op = op, !.async = async,
                        !.abort = FALSE, !.size = n]
  /\ caller' = [caller EXCEPT ![c].pc = "start",
                              ![c].xfer = IF async THEN "async" ELSE "sync"]
  /\ moved' = 0
  /\ result' = [d \in Callers |->
       IF result[d] = "part" THEN "overtaken" ELSE result[d]]
  /\ UNCHANGED <<channel, sem, mask, bus, isr>>

UsesDma == (IF i2c.op = "WRITE" THEN "wdma" ELSE "rdma") \in i2c.dma

GoArm(c, ints) ==
  caller' = [caller EXCEPT ![c].pc = "arm", ![c].ints = ints]

(* i2c_start_xfer_int_mode, up to its last call.                           *)
FillFifo(c) ==
  /\ At(c, "start") /\ ~UsesDma
  /\ LET rd == i2c.op = "READ" IN
       /\ bus' = [bus EXCEPT !.tx = Enqueue(i2c.size, rd)]
       /\ i2c' = [i2c EXCEPT
            !.left = IF rd THEN i2c.size ELSE i2c.size - Queued(i2c.size),
            !.rdleft = IF rd THEN i2c.size - Queued(i2c.size) ELSE @]
       /\ GoArm(c, {"TX_ABRT", "TX_EMPTY"} \cup
                    IF rd THEN {"RX_FULL"} ELSE {})
  /\ UNCHANGED <<channel, sem, mask, isr, moved, result>>

(* i2c_start_xfer_dma_mode, up to its last call.  A read also writes its   *)
(* commands by DMA.  Too many blocks (-EINVAL) or an active channel (-EIO) *)
(* end the call, and leave is_busy set.                                    *)
StartDma(c) ==
  /\ At(c, "start") /\ UsesDma
  /\ i2c' = [i2c EXCEPT !.left = 0]
  /\ LET chs == IF i2c.op = "WRITE" THEN {"wdma"} ELSE Channels IN
       IF i2c.size <= MaxDma /\ dma_setup_ok(chs)
       THEN /\ dma_start_transfer(chs, i2c.size)
            /\ bus' = [bus EXCEPT !.dma = @ \cup chs]
            /\ GoArm(c, {"TX_ABRT"})
       ELSE /\ caller' = [caller EXCEPT ![c].pc = "idle", ![c].xfer = "refused"]
            /\ UNCHANGED <<channel, bus>>
  /\ UNCHANGED <<sem, mask, isr, moved, result>>

(* The last call of both, i2c_enable_interrupt.                            *)
Arm(c) ==
  /\ At(c, "arm")
  /\ mask' = mask \cup caller[c].ints
  /\ caller' = [caller EXCEPT
       ![c].pc = IF caller[c].xfer = "sync" THEN "wait" ELSE "idle",
       ![c].ints = {}]
  /\ UNCHANGED <<channel, i2c, sem, bus, isr, moved, result>>

(* A synchronous call gets the post and gives the instance back.  Only     *)
(* then, without the mutex, it looks at is_xfer_abort and returns 0 or     *)
(* -EIO: another task may have claimed the instance and reset the flag, or *)
(* set it with a transfer of its own.                                      *)
Wake(c) ==
  /\ At(c, "wait") /\ sem
  /\ sem' = FALSE /\ i2c' = [i2c EXCEPT !.busy = FALSE]
  /\ caller' = [caller EXCEPT ![c].pc = "end", ![c].xfer = "none"]
  /\ result' = [result EXCEPT ![c] = IF moved = i2c.size THEN "whole" ELSE "part"]
  /\ UNCHANGED <<channel, mask, bus, isr, moved>>

EndSync(c) ==
  /\ At(c, "end") /\ caller' = [caller EXCEPT ![c] = NoCall]
  /\ result' = [result EXCEPT ![c] = "none"]
  /\ UNCHANGED <<channel, i2c, sem, mask, bus, isr, moved>>

(* i2c_cancel after the device refused an asynchronous transfer, or the    *)
(* driver a transfer by DMA: is_busy is still set.  The bus is idle: there *)
(* is nothing to abort, and TX_ABRT is cleared.                            *)
i2c_cancel(c) ==
  /\ At(c, "idle") /\ caller[c].xfer \in {"nacked", "refused"} /\ i2c.busy
  /\ bus' = [bus EXCEPT !.abrt = FALSE]
  /\ i2c' = [i2c EXCEPT !.abort = FALSE, !.busy = FALSE]
  /\ dma_stop_transfer(IF i2c.op = "WRITE" THEN {"wdma"} ELSE Channels)
  /\ caller' = [caller EXCEPT ![c].xfer = "none"]
  /\ UNCHANGED <<sem, mask, isr, moved, result>>

-----------------------------------------------------------------------------
(* The handlers.  i2c_isr reads the status, and clears the interrupts a    *)
(* moment later.                                                           *)
ReadStatus ==
  /\ ~isr.on /\ Status # {}
  /\ isr' = [on |-> TRUE, status |-> Status]
  /\ UNCHANGED <<channel, i2c, sem, mask, bus, caller, moved, result>>

IsrEnds == isr' = [on |-> FALSE, status |-> {}]

(* How the handlers end a transfer: they post sem, or call the callback,   *)
(* after which the owner of the transfer is left with outcome.             *)
Report(over, outcome) ==
  /\ sem' = (sem \/ (over /\ ~i2c.async))
  /\ caller' = IF over /\ i2c.async
       THEN [c \in Callers |-> IF caller[c].xfer # "async" THEN caller[c]
              ELSE [caller[c] EXCEPT !.xfer = outcome]]
       ELSE caller

(* TX_ABRT: is_busy of an asynchronous transfer stays set.                 *)
IsrAbort ==
  /\ isr.on /\ "TX_ABRT" \in isr.status /\ IsrEnds
  /\ mask' = {}
  /\ i2c' = [i2c EXCEPT !.abort = TRUE] /\ Report(TRUE, "nacked")
  /\ bus' = [bus EXCEPT !.abrt = FALSE]
  /\ UNCHANGED <<channel, moved, result>>

(* TX_EMPTY in a write: queues what is left, or the transfer is over.      *)
ServeWrite(over, off) ==
  /\ isr.on /\ "TX_ABRT" \notin isr.status /\ i2c.op = "WRITE" /\ IsrEnds
  /\ mask' = IF off THEN mask \ {"TX_EMPTY"} ELSE mask
  /\ i2c' = [i2c EXCEPT !.left = @ - Queued(@),
                        !.busy = @ /\ ~(over /\ i2c.async)]
  /\ Report(over, "none")
  /\ bus' = [bus EXCEPT !.abrt = FALSE, !.tx = Enqueue(i2c.left, FALSE)]
  /\ UNCHANGED <<channel, moved, result>>
IsrWrite_DoneWhenQueued ==      \* mutant: over when the last byte is queued
  ServeWrite(i2c.left <= Depth, i2c.left <= Depth)
IsrWrite_MasksEarly ==          \* mutant: TX_EMPTY is off with bytes left
  ServeWrite(i2c.left = 0, i2c.left <= Depth)
IsrWrite == ServeWrite(i2c.left = 0, i2c.left = 0)

(* TX_EMPTY and RX_FULL in a read: queues more commands, then takes the    *)
(* bytes that are there; the transfer is over with the last one.           *)
IsrRead ==
  LET full == "RX_FULL" \in isr.status
      got == IF full THEN Least(i2c.left, bus.rx) ELSE 0
      over == full /\ i2c.left = got IN
    /\ isr.on /\ "TX_ABRT" \notin isr.status /\ i2c.op = "READ" /\ IsrEnds
    /\ mask' = mask
         \ ((IF "TX_EMPTY" \in isr.status /\ i2c.rdleft = 0
             THEN {"TX_EMPTY"} ELSE {})
            \cup (IF over THEN {"RX_FULL"} ELSE {}))
    /\ i2c' = [i2c EXCEPT !.left = @ - got, !.rdleft = @ - Queued(@),
                          !.busy = @ /\ ~(over /\ i2c.async)]
    /\ Report(over, "none") /\ moved' = moved + got
    /\ bus' = [bus EXCEPT !.abrt = FALSE, !.rx = @ - got,
                          !.tx = Enqueue(i2c.rdleft, TRUE)]
    /\ UNCHANGED <<channel, result>>

(* pdma_irq_handler with i2c_wdma_callback or i2c_rdma_callback.           *)
DmaDone(ch) ==
  LET over == i2c.op = (IF ch = "wdma" THEN "WRITE" ELSE "READ") IN
    /\ ~isr.on /\ pdma_irq_handler(ch)
    /\ bus' = [bus EXCEPT !.dma = @ \ {ch}]
    /\ i2c' = [i2c EXCEPT !.busy = @ /\ ~(over /\ i2c.async)]
    /\ Report(over, "none")
    /\ UNCHANGED <<mask, isr, moved, result>>

-----------------------------------------------------------------------------
(* The controller, the device and the DMA engine (external).  They outrun  *)
(* a handler by less than a FIFO: the RX FIFO never overflows.             *)
BusTake ==
  /\ bus.byte = "none" /\ bus.tx # <<>> /\ ~bus.abrt
  /\ LET cmd == Head(bus.tx) IN
       /\ bus' = [bus EXCEPT !.tx = Tail(@), !.open = ~cmd.last,
                             !.byte = IF cmd.rd THEN "read" ELSE "write"]
       /\ moved' = IF cmd.rd \/ cmd.dma THEN moved ELSE moved + 1
  /\ UNCHANGED <<channel, i2c, sem, mask, isr, caller, result>>

BusDone ==
  /\ bus.byte = "write" \/ (bus.byte = "read" /\ bus.rx < Depth)
  /\ bus' = [bus EXCEPT !.byte = "none",
                        !.rx = IF bus.byte = "read" THEN @ + 1 ELSE @]
  /\ UNCHANGED <<channel, i2c, sem, mask, isr, caller, moved, result>>

(* When the device refuses: a byte on the wire, or the address of the next *)
(* transfer in the FIFO.                                                   *)
Refusal ==
  IF bus.byte # "none" THEN "data"
  ELSE IF Head(bus.tx).dma THEN "dma"
  ELSE IF \E c \in Owners : caller[c].pc \in {"start", "arm"} THEN "early"
  ELSE "address"

BusNack ==
  /\ bus.byte = "write" \/ (bus.byte = "none" /\ bus.tx # <<>> /\ ~bus.open)
  /\ ~bus.abrt /\ Refusal \in Nacks
  /\ bus' = [bus EXCEPT !.tx = <<>>, !.byte = "none", !.open = FALSE,
                        !.abrt = TRUE]
  /\ UNCHANGED <<channel, i2c, sem, mask, isr, caller, moved, result>>

DmaWrite ==
  /\ "wdma" \in bus.dma /\ Len(bus.tx) < Depth /\ EngineMove("wdma")
  /\ bus' = [bus EXCEPT !.tx = Append(@,
       [rd |-> i2c.op = "READ", last |-> channel["wdma"].todo = 1,
        dma |-> TRUE])]
  /\ moved' = IF i2c.op = "WRITE" THEN moved + 1 ELSE moved
  /\ UNCHANGED <<i2c, sem, mask, isr, caller, result>>

DmaRead ==
  /\ "rdma" \in bus.dma /\ bus.rx > 0 /\ EngineMove("rdma")
  /\ bus' = [bus EXCEPT !.rx = @ - 1] /\ moved' = moved + 1
  /\ UNCHANGED <<i2c, sem, mask, isr, caller, result>>

-----------------------------------------------------------------------------
Work(c) == FillFifo(c) \/ StartDma(c) \/ Arm(c) \/ Wake(c)
Handlers ==
  \/ ReadStatus \/ IsrAbort \/ IsrWrite \/ IsrRead
  \/ \E ch \in Channels : DmaDone(ch)

Next ==
  \/ \E c \in Callers :
       \/ \E ch \in Channels : i2c_ioctl(c, ch)
       \/ \E op \in Ops, async \in BOOLEAN, n \in 1 .. MaxItems :
            Claim(c, op, async, n)
       \/ Work(c) \/ EndSync(c) \/ i2c_cancel(c)
  \/ Handlers \/ BusTake \/ BusDone \/ BusNack \/ DmaWrite \/ DmaRead

(* A call that has begun goes on, interrupts are served, and the bus and   *)
(* the DMA engine move.  A call whose transfer is over returns, between    *)
(* the interrupts of another's: the handlers leave the tasks time.         *)
(* Nobody has to call, to cancel, or to refuse.                            *)
Spec ==
  /\ Init /\ [][Next]_vars
  /\ \A c \in Callers : WF_vars(Work(c)) /\ SF_vars(Arm(c) \/ EndSync(c))
  /\ WF_vars(Handlers) /\ WF_vars(BusTake) /\ WF_vars(BusDone)
  /\ WF_vars(DmaWrite) /\ WF_vars(DmaRead)

-----------------------------------------------------------------------------
(* The instance is busy for exactly one owner: a task with a transfer in   *)
(* progress, or one whose transfer the device or the driver refused and    *)
(* that has not cancelled it (only these two errors leave is_busy set, and *)
(* until i2c_cancel every call is -EBUSY).  The semaphore is posted        *)
(* only for the synchronous call in progress, when its transfer is over:   *)
(* no post is left for a later one.  Between transfers the DMA channels    *)
(* are idle, nothing is left in the RX FIFO, and TX_EMPTY and RX_FULL are  *)
(* off, so that the next call starts clean.                                *)
OwnerExact ==
  /\ i2c.busy = (Owners # {}) /\ Cardinality(Owners) <= 1
  /\ sem => /\ \E c \in Callers : caller[c].xfer = "sync"
            /\ i2c.abort \/ moved = i2c.size
  /\ ~i2c.busy /\ TasksRun =>
       /\ dma_setup_ok(Channels) /\ bus.rx = 0 /\ mask \subseteq {"TX_ABRT"}

(* A callback with I2C_SUCCESS stands for a transfer of all its bytes: a   *)
(* read stored them, a write put them on the wire (by DMA: handed them to  *)
(* the controller).  So does a synchronous call that returns 0, but for    *)
(* one case: the device refused the transfer, and another task claimed the *)
(* instance before the call looked at is_xfer_abort.                       *)
CallsBack(c) == caller[c].xfer = "async" /\ caller'[c].xfer = "none"
Returns0(c) == caller[c].pc = "end" /\ caller'[c].pc = "idle" /\ ~i2c.abort
DoneMeansMoved ==
  [][\A c \in Callers :
       /\ CallsBack(c) => moved' = i2c.size
       /\ Returns0(c) => result[c] \in {"whole", "overtaken"}]_vars

(* Every call returns and every transfer ends: the callback of an          *)
(* asynchronous one is called, unless the call itself returned an error,   *)
(* whatever its length, mode and direction.                                *)
UnderWay(c) == caller[c].pc # "idle" \/ caller[c].xfer \in {"sync", "async"}
TransfersEnd == \A c \in Callers : UnderWay(c) ~> ~UnderWay(c)
=============================================================================
