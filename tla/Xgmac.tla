------------------------------- MODULE Xgmac -------------------------------
(***************************************************************************)
(* The Ethernet MAC driver, drivers/ethernet/socfpga_xgmac.c: the rings of *)
(* transmit and receive descriptors it shares with the DMA engine, and its *)
(* interrupt handler.  NetworkInterface composes it with its callers.      *)
(*                                                                         *)
(* A frame is its buffer; lengths, checksum flags and cache maintenance    *)
(* are left out.  The engine (external) serves a ring in order: it fetches *)
(* a transmit descriptor only after the tail pointer register moved past   *)
(* it, and stores a frame in a receive descriptor whose OWN bit is set.    *)
(***************************************************************************)
EXTENDS Naturals

CONSTANTS
  NTx, NRx,  \* XGMAC_NUM_TX_DESC, XGMAC_NUM_RX_DESC
  NPool,     \* TX_BUFFER_COUNT: the buffers that are transmitted
  Callers,   \* the tasks that call xgmac_dma_transmit
  Emac,      \* the task that calls xgmac_dma_tx_done and xgmac_dma_receive
  None

TxBufs == 0 .. NPool - 1
Tasks == Callers \cup {Emac}

ASSUME XgmacAssumption ==
  /\ NTx \in Nat \ {0} /\ NRx \in Nat \ {0} /\ NPool \in Nat \ {0}
  /\ Emac \notin Callers /\ None \notin Tasks /\ None \notin Nat

VARIABLES
  txRing,       \* of each descriptor, des3.OWN and its ptx_dma_buf1_ap
  tx_desc_head, tx_desc_tail,
  tx_sem,       \* free transmit descriptors
  tx_mutex,     \* its holder
  rxOwn,        \* OWN of each receive descriptor
  rx_desc_head,
  engine,       \* next descriptor of each ring, transmit descriptors left
                \* up to the tail pointer
  status,       \* the bits of DMA_CH_STATUS
  task,         \* where each task is, and its local variables
  merged        \* (history) an event that the interrupt handler cannot see

ringVars == <<txRing, tx_desc_head, tx_desc_tail, tx_sem, tx_mutex>>
rxVars == <<rxOwn, rx_desc_head>>
hwVars == <<engine, status, merged>>

TxSlots == 0 .. NTx - 1
RxSlots == 0 .. NRx - 1
FreeDesc == [own |-> FALSE, buf |-> None]
NoTask == [pc |-> "idle", buf |-> None, tail |-> 0, head |-> 0, used |-> 0]

XgmacTypeOK ==
  /\ txRing \in [TxSlots -> [own : BOOLEAN, buf : TxBufs \cup {None}]]
  /\ tx_desc_head \in TxSlots /\ tx_desc_tail \in TxSlots
  /\ tx_sem \in 0 .. NTx /\ tx_mutex \in Tasks \cup {None}
  /\ rxOwn \in [RxSlots -> BOOLEAN] /\ rx_desc_head \in RxSlots
  /\ engine \in [tx : TxSlots, todo : 0 .. NTx, rx : RxSlots]
  /\ status \subseteq {"TI", "RI", "RBU"} /\ merged \in BOOLEAN

(* xgmac_emac_init and xgmac_dma_initialize: dma_set_descs creates tx_sem  *)
(* full.  The receive descriptors are given to the engine by xgmac_refill. *)
XgmacReset ==
  /\ txRing' = [i \in TxSlots |-> FreeDesc]
  /\ tx_desc_head' = 0 /\ tx_desc_tail' = 0
  /\ tx_sem' = NTx /\ tx_mutex' = None /\ rx_desc_head' = 0
  /\ engine' = [tx |-> 0, todo |-> 0, rx |-> 0] /\ status' = {}

XgmacInit ==
  /\ txRing = [i \in TxSlots |-> FreeDesc]
  /\ tx_desc_head = 0 /\ tx_desc_tail = 0
  /\ tx_sem = 0 /\ tx_mutex = None
  /\ rxOwn = [i \in RxSlots |-> FALSE] /\ rx_desc_head = 0
  /\ engine = [tx |-> 0, todo |-> 0, rx |-> 0] /\ status = {}
  /\ merged = FALSE

At(t, loc) == task[t].pc = loc
Goto(t, loc) == task' = [task EXCEPT ![t].pc = loc]

-----------------------------------------------------------------------------
(* xgmac_dma_transmit, of buffer task[t].buf: the caller comes in at "sem" *)
(* and leaves at "out", with -EIO if no descriptor is free.  Waits for     *)
(* tx_mutex last 5 s, and its holders do not block.  So do waits for       *)
(* tx_sem, which are not modelled: where there are no more buffers than    *)
(* descriptors, as in NetworkInterface, tx_sem is never 0 here.            *)
TransmitSem(t) ==
  /\ At(t, "sem")
  /\ IF tx_sem > 0 THEN tx_sem' = tx_sem - 1 /\ Goto(t, "lock")
                   ELSE UNCHANGED tx_sem /\ Goto(t, "out")
  /\ UNCHANGED <<txRing, tx_desc_head, tx_desc_tail, tx_mutex, rxVars, hwVars>>

(* The descriptor is the engine's from here on, but for the tail pointer.  *)
TransmitFill(t) ==
  /\ At(t, "lock") /\ tx_mutex = None
  /\ tx_mutex' = t
  /\ txRing' = [txRing EXCEPT ![tx_desc_head] = [own |-> TRUE, buf |-> task[t].buf]]
  /\ Goto(t, "head")
  /\ UNCHANGED <<tx_desc_head, tx_desc_tail, tx_sem, rxVars, hwVars>>

TransmitHead(t) ==
  /\ At(t, "head") /\ Goto(t, "kick")
  /\ tx_desc_head' = (tx_desc_head + 1) % NTx
  /\ UNCHANGED <<txRing, tx_desc_tail, tx_sem, tx_mutex, rxVars, hwVars>>

(* The tail pointer is written and the mutex released.                     *)
TransmitKick(t) ==
  /\ At(t, "kick") /\ tx_mutex' = None
  /\ engine' = [engine EXCEPT !.todo = @ + 1]
  /\ task' = [task EXCEPT ![t] = [NoTask EXCEPT !.pc = "out"]]
  /\ UNCHANGED <<txRing, tx_desc_head, tx_desc_tail, tx_sem, rxVars, status, merged>>

(* xgmac_dma_tx_done, by the deferred handler, which leaves at "release",  *)
(* with the buffer, or at "stop".  The indices and the count are read      *)
(* before the mutex is taken.                                              *)
DoneIndices ==
  /\ task' = [task EXCEPT ![Emac] = [@ EXCEPT !.pc = "count",
                !.tail = tx_desc_tail, !.head = tx_desc_head]]
  /\ UNCHANGED <<ringVars, rxVars, hwVars>>

DoneCount ==
  /\ At(Emac, "count")
  /\ task' = [task EXCEPT ![Emac].pc = "locked", ![Emac].used = NTx - tx_sem]
  /\ UNCHANGED <<ringVars, rxVars, hwVars>>

(* A descriptor is released by its position: its OWN bit is not tested.    *)
DoneBody ==
  LET me == task[Emac] IN
    /\ At(Emac, "locked") /\ tx_mutex = None
    /\ IF me.used > 0 /\ me.tail = me.head /\ me.used # NTx
       THEN \* -EINVAL, with the mutex held
            /\ tx_mutex' = Emac /\ Goto(Emac, "stop")
            /\ UNCHANGED <<txRing, tx_desc_tail, tx_sem>>
       ELSE IF me.used = 0
       THEN \* -EAGAIN
            /\ Goto(Emac, "stop")
            /\ UNCHANGED <<txRing, tx_desc_tail, tx_sem, tx_mutex>>
       ELSE /\ task' = [task EXCEPT ![Emac].pc = "release",
                                    ![Emac].buf = txRing[me.tail].buf]
            /\ txRing' = [txRing EXCEPT ![me.tail] = FreeDesc]
            /\ tx_sem' = tx_sem + 1
            /\ tx_desc_tail' = (me.tail + 1) % NTx
            /\ UNCHANGED tx_mutex
    /\ UNCHANGED <<tx_desc_head, rxVars, hwVars>>

-----------------------------------------------------------------------------
(* xgmac_dma_receive and xgmac_refill_rx_desc, both of rx_desc_head.       *)
Received == ~rxOwn[rx_desc_head]

(* Mutant: the head is stepped without a wrap.                             *)
xgmac_refill_rx_desc_NoWrap ==
  /\ rxOwn' = [rxOwn EXCEPT ![rx_desc_head] = TRUE]
  /\ rx_desc_head' = rx_desc_head + 1

xgmac_refill_rx_desc ==
  /\ rxOwn' = [rxOwn EXCEPT ![rx_desc_head] = TRUE]
  /\ rx_desc_head' = (rx_desc_head + 1) % NRx

-----------------------------------------------------------------------------
(* The engine (external).  A second frame sent before the interrupt of the *)
(* first was served leaves no trace of its own.                            *)
Raise(bit) ==
  /\ status' = status \cup {bit}
  /\ merged' = (merged \/ (bit = "TI" /\ bit \in status))

EngineTransmit ==
  /\ engine.todo > 0 /\ txRing[engine.tx].own
  /\ txRing' = [txRing EXCEPT ![engine.tx].own = FALSE]
  /\ engine' = [engine EXCEPT !.tx = (@ + 1) % NTx, !.todo = @ - 1]
  /\ Raise("TI")
  /\ UNCHANGED <<tx_desc_head, tx_desc_tail, tx_sem, tx_mutex, rxVars, task>>

EngineReceive ==
  /\ rxOwn[engine.rx]
  /\ rxOwn' = [rxOwn EXCEPT ![engine.rx] = FALSE]
  /\ engine' = [engine EXCEPT !.rx = (@ + 1) % NRx]
  /\ Raise("RI")
  /\ UNCHANGED <<ringVars, rx_desc_head, task>>

(* A frame that finds no descriptor is lost.                               *)
EngineOverrun ==
  /\ ~rxOwn[engine.rx]
  /\ Raise("RBU")
  /\ UNCHANGED <<ringVars, rxVars, engine, task>>

(* xgmac_ll_check_and_clear_xgmac_interrupt_status: every bit is cleared,  *)
(* one of them is reported.                                                *)
Reported ==
  CASE "TI" \in status -> "TI" [] "RI" \in status -> "RI" [] OTHER -> "ERR"
=============================================================================
