-------------------------- MODULE NetworkInterface --------------------------
(***************************************************************************)
(* The FreeRTOS+TCP interface of the board, NetworkInterface.c, over the   *)
(* MAC driver (Xgmac) and the network buffers (BufferAllocation), in the   *)
(* repository's configuration: frames are copied in both directions, and   *)
(* received ones are passed on as a linked chain.                          *)
(*                                                                         *)
(* Callers are the tasks of the stack that send; the handler task Emac is  *)
(* notified by the interrupt handler and drains the receive ring, releases *)
(* transmitted buffers and watches the PHY.  Network buffers are counted,  *)
(* transmit buffers have names.  The IP task and the PHY are external.     *)
(***************************************************************************)
EXTENDS Xgmac, BufferAllocation, FiniteSets

CONSTANTS
  Loads,     \* the traffic: which callers send, how many frames arrive
             \* and how often the link changes
  MaxFrames, \* bound on those frames
  MaxFlaps   \* bound on the changes of the PHY's link

Traffic == [senders : SUBSET Callers, frames : 0 .. MaxFrames,
            flaps : 0 .. MaxFlaps]

(* The build gives every pool buffer a descriptor, 512 of each.            *)
ASSUME PoolAssumption ==
  /\ NPool <= NTx /\ MaxFlaps \in Nat /\ MaxFrames \in Nat
  /\ IsFiniteSet(Callers)
  /\ Loads \subseteq Traffic

VARIABLES
  pool,    \* TxBufferPool: pTxBuffer, usHeadIndex, usTailIndex, usBufUsedCnt
  rxUsed,  \* usBufUsedCnt of RxBufferPool
  tokens,  \* xSemaphoreCounterTx
  notes,   \* the handler task's notification value
  events,  \* ulISREvents
  chain,   \* received buffers linked so far
  ipq,     \* buffers queued to the IP task, and those it releases now
  lost,    \* (history) network buffers that nobody will release
  iface,   \* progress of xNetworkInterfaceInitialise
  phy,     \* the PHY's link, xPHYLinkStatus, xPHYNeedReconfig
  load,    \* the callers that send, the frames and changes still to come
  refused  \* (history) an early exit of xgmac_dma_transmit or pool release

niVars == <<pool, rxUsed, tokens, notes, events, chain, ipq, lost, iface,
            phy, load, refused>>
vars == <<ringVars, rxVars, hwVars, task, netVars, niVars>>

CallerPcs == {"idle", "get", "have", "sem", "lock", "head", "kick", "out", "give"}
EmacPcs == {"wait", "rx", "rxget", "pass", "drop", "dropgive", "tx",
            "count", "locked", "release", "stop", "phy"}

Calls == [pc : CallerPcs \cup EmacPcs, buf : TxBufs \cup {None},
          tail : TxSlots, head : TxSlots, used : 0 .. NTx]

TypeOK ==
  /\ XgmacTypeOK /\ NetTypeOK
  /\ task \in [Tasks -> Calls]
  /\ pool \in [buf : [TxBufs -> TxBufs], head : TxBufs,
               tail : TxBufs, used : 0 .. NPool]
  /\ rxUsed \in {0, NRx} /\ tokens \in 0 .. NTx
  /\ notes \subseteq {"RX", "TX", "ERR"} /\ events \subseteq {"RX", "TX", "ERR"}
  /\ chain \in 0 .. NBuf /\ ipq \in [queued : 0 .. NBuf, giving : BOOLEAN]
  /\ lost \in 0 .. NBuf /\ iface \in {"down", "wait", "up"}
  /\ phy \in [up : BOOLEAN, link : BOOLEAN, reconfig : BOOLEAN]
  /\ load \in Traffic /\ refused \in BOOLEAN

Init ==
  /\ XgmacInit /\ xNetworkBuffersInitialise
  /\ task = [t \in Tasks |-> [NoTask EXCEPT !.pc = IF t = Emac THEN "wait" ELSE "idle"]]
  /\ pool = [buf |-> [i \in TxBufs |-> i], head |-> 0, tail |-> 0, used |-> 0]
  /\ rxUsed = 0 /\ tokens = 0 /\ notes = {} /\ events = {} /\ chain = 0
  /\ ipq = [queued |-> 0, giving |-> FALSE] /\ lost = 0 /\ iface = "down"
  /\ phy = [up |-> TRUE, link |-> FALSE, reconfig |-> FALSE]
  /\ load \in Loads /\ refused = FALSE

-----------------------------------------------------------------------------
(* xNetworkInterfaceInitialise, which the IP task calls until it succeeds. *)
(* It fails early while the PHY has no link.  Then it resets the driver    *)
(* and fills the receive ring from RxBufferPool, whose buffers it takes    *)
(* anew in every attempt and never gives back.                             *)
InitialiseDma ==
  /\ iface = "down" /\ phy.up
  /\ XgmacReset /\ rxUsed' = NRx /\ tokens' = 0
  /\ rxOwn' = [i \in RxSlots |-> rxUsed = 0]
  /\ iface' = IF rxUsed = 0 THEN "wait" ELSE "down"
  /\ UNCHANGED <<merged, task, netVars, pool, notes, events, chain, ipq, lost,
                 phy, load, refused>>

(* prvPhyCheckLinkStatus looks for the link for one second.                *)
InitialiseWait ==
  /\ iface = "wait"
  /\ phy' = [phy EXCEPT !.link = phy.up]
  /\ iface' = IF phy.up THEN "up" ELSE "down"
  /\ UNCHANGED <<ringVars, rxVars, hwVars, task, netVars, pool, rxUsed, tokens,
                 notes, events, chain, ipq, lost, load, refused>>

(* The environment: the PHY finds the link or loses it.                    *)
PhyFlap ==
  /\ load.flaps > 0
  /\ load' = [load EXCEPT !.flaps = @ - 1]
  /\ phy' = [phy EXCEPT !.up = ~@]
  /\ UNCHANGED <<ringVars, rxVars, hwVars, task, netVars, pool, rxUsed, tokens,
                 notes, events, chain, ipq, lost, iface, refused>>

-----------------------------------------------------------------------------
(* A task of the stack obtains a network buffer and sends it.              *)
SendGet(t) ==
  /\ At(t, "idle") /\ t \in load.senders /\ iface = "up" /\ GetTake /\ Goto(t, "get")
  /\ UNCHANGED <<ringVars, rxVars, hwVars, niVars>>

SendGot(t) ==
  /\ At(t, "get") /\ GetRemove /\ Goto(t, "have")
  /\ UNCHANGED <<ringVars, rxVars, hwVars, niVars>>

(* xNetworkInterfaceOutput up to xgmac_dma_transmit, pucGetTXBuffer        *)
(* included.  rel is bReleaseAfterSend: without it the caller releases the *)
(* buffer itself.  When the pool is exhausted a buffer that the driver     *)
(* should have released is lost.                                           *)
Output(t, rel) ==
  LET b == pool.buf[pool.head] IN
    /\ At(t, "have")
    /\ \/ /\ ~phy.link /\ Goto(t, "out") /\ UNCHANGED <<pool, lost>>
       \/ /\ phy.link /\ pool.used = NPool
          /\ Goto(t, IF rel THEN "idle" ELSE "out")
          /\ lost' = IF rel THEN lost + 1 ELSE lost
          /\ UNCHANGED pool
       \/ /\ phy.link /\ pool.used < NPool
          /\ pool' = [pool EXCEPT !.head = (@ + 1) % NPool, !.used = @ + 1]
          /\ task' = [task EXCEPT ![t].pc = "sem", ![t].buf = b]
          /\ UNCHANGED lost
    /\ UNCHANGED <<ringVars, rxVars, hwVars, netVars, rxUsed, tokens, notes,
                   events, chain, ipq, iface, phy, load, refused>>

(* Afterwards the network buffer is released, here or by the caller; a     *)
(* transmission that failed does not give its pool buffer back.            *)
ReleaseFirst(t) ==
  /\ At(t, "out") /\ ReleaseInsert /\ Goto(t, "give")
  /\ UNCHANGED <<ringVars, rxVars, hwVars, niVars>>

ReleaseLast(t) ==
  /\ At(t, "give") /\ ReleaseGive
  /\ task' = [task EXCEPT ![t] = NoTask]
  /\ UNCHANGED <<ringVars, rxVars, hwVars, niVars>>

Transmit(t) ==
  /\ TransmitSem(t) \/ TransmitFill(t) \/ TransmitHead(t) \/ TransmitKick(t)
  /\ refused' = (refused \/ (At(t, "sem") /\ tx_sem = 0))
  /\ UNCHANGED <<netVars, pool, rxUsed, tokens, notes, events, chain, ipq,
                 lost, iface, phy, load>>

-----------------------------------------------------------------------------
(* Mutant: every interrupt gives a token.                                   *)
Isr_TokenForEach ==
  /\ status # {} /\ status' = {}
  /\ merged' = (merged \/ iface # "up" \/ {"TI", "RI"} \subseteq status)
  /\ IF iface = "up"
     THEN /\ notes' = notes \cup {CASE Reported = "TI" -> "TX"
                                    [] Reported = "RI" -> "RX"
                                    [] OTHER -> "ERR"}
          /\ tokens' = IF tokens < NTx THEN tokens + 1 ELSE tokens
     ELSE UNCHANGED <<notes, tokens>>
  /\ UNCHANGED <<ringVars, rxVars, engine, task, netVars, pool, rxUsed, events,
                 chain, ipq, lost, iface, phy, load, refused>>

(* socfpga_xgmac_dma_isr and prvEMACIRQHanlderCallback, which drops events *)
(* until the handler task exists.                                          *)
Isr ==
  /\ status # {} /\ status' = {}
  /\ merged' = (merged \/ iface # "up" \/ {"TI", "RI"} \subseteq status)
  /\ IF iface = "up"
     THEN /\ notes' = notes \cup {CASE Reported = "TI" -> "TX"
                                    [] Reported = "RI" -> "RX"
                                    [] OTHER -> "ERR"}
          /\ tokens' = IF Reported = "TI" THEN tokens + 1 ELSE tokens
     ELSE UNCHANGED <<notes, tokens>>
  /\ UNCHANGED <<ringVars, rxVars, engine, task, netVars, pool, rxUsed, events,
                 chain, ipq, lost, iface, phy, load, refused>>

(* prvEMACHandlerTask: one round through receive, transmit, errors, PHY.   *)
EmacWait ==
  /\ At(Emac, "wait") /\ iface = "up"
  /\ events' = notes /\ notes' = {}
  /\ Goto(Emac, "rx")
  /\ UNCHANGED <<ringVars, rxVars, hwVars, netVars, pool, rxUsed, tokens, chain,
                 ipq, lost, iface, phy, load, refused>>

(* prvNetworkInterfaceInput: one frame.  It is dropped if it is in error,  *)
(* not for us, or if no network buffer is free; its descriptor goes back   *)
(* to the engine in every case.                                            *)
InputDrop ==
  /\ At(Emac, "rx") /\ "RX" \in events /\ Received
  /\ xgmac_refill_rx_desc
  /\ UNCHANGED <<ringVars, hwVars, task, netVars, niVars>>

InputTake ==
  /\ At(Emac, "rx") /\ "RX" \in events /\ Received
  /\ GetTake /\ Goto(Emac, "rxget")
  /\ UNCHANGED <<ringVars, rxVars, hwVars, niVars>>

InputCopy ==
  /\ At(Emac, "rxget") /\ GetRemove /\ xgmac_refill_rx_desc
  /\ chain' = chain + 1 /\ Goto(Emac, "rx")
  /\ UNCHANGED <<ringVars, hwVars, pool, rxUsed, tokens, notes, events, ipq,
                 lost, iface, phy, load, refused>>

(* Mutant: the notification is cleared after the ring was drained.         *)
InputEnd_ClearsLate ==
  /\ At(Emac, "rx") /\ ("RX" \in events => ~Received)
  /\ Goto(Emac, IF chain > 0 THEN "pass" ELSE "tx")
  /\ events' = events \ {"RX"} /\ notes' = notes \ {"RX"}
  /\ UNCHANGED <<ringVars, rxVars, hwVars, netVars, pool, rxUsed, tokens,
                 chain, ipq, lost, iface, phy, load, refused>>

InputEnd ==
  /\ At(Emac, "rx") /\ ("RX" \in events => ~Received)
  /\ Goto(Emac, IF chain > 0 THEN "pass" ELSE "tx")
  /\ events' = events \ {"RX"}
  /\ UNCHANGED <<ringVars, rxVars, hwVars, netVars, pool, rxUsed, tokens, notes,
                 chain, ipq, lost, iface, phy, load, refused>>

(* prvPassEthMessages: the chain is queued, or released if the queue of    *)
(* the IP task stays full.                                                 *)
Pass ==
  /\ At(Emac, "pass")
  /\ ipq' = [ipq EXCEPT !.queued = @ + chain] /\ chain' = 0
  /\ Goto(Emac, "tx")
  /\ UNCHANGED <<ringVars, rxVars, hwVars, netVars, pool, rxUsed, tokens, notes,
                 events, lost, iface, phy, load, refused>>

PassFull ==
  /\ At(Emac, "pass") /\ Goto(Emac, "drop")
  /\ UNCHANGED <<ringVars, rxVars, hwVars, netVars, niVars>>

(* Mutant: only the first buffer of the chain is released.                 *)
DropFirst_FirstOnly ==
  /\ At(Emac, "drop") /\ chain > 0
  /\ ReleaseInsert /\ chain' = 0 /\ Goto(Emac, "dropgive")
  /\ UNCHANGED <<ringVars, rxVars, hwVars, pool, rxUsed, tokens, notes, events,
                 ipq, lost, iface, phy, load, refused>>

DropFirst ==
  /\ At(Emac, "drop") /\ chain > 0
  /\ ReleaseInsert /\ chain' = chain - 1 /\ Goto(Emac, "dropgive")
  /\ UNCHANGED <<ringVars, rxVars, hwVars, pool, rxUsed, tokens, notes, events,
                 ipq, lost, iface, phy, load, refused>>

DropLast ==
  /\ At(Emac, "dropgive") /\ ReleaseGive
  /\ Goto(Emac, IF chain > 0 THEN "drop" ELSE "tx")
  /\ UNCHANGED <<ringVars, rxVars, hwVars, niVars>>

(* prvNetworkInterfaceOutDone: one xgmac_dma_tx_done for every token.      *)
OutDone ==
  /\ At(Emac, "tx")
  /\ IF "TX" \in events /\ tokens > 0
     THEN tokens' = tokens - 1 /\ DoneIndices
     ELSE UNCHANGED <<tokens, ringVars, rxVars, hwVars>> /\ Goto(Emac, "stop")
  /\ UNCHANGED <<netVars, pool, rxUsed, notes, events, chain, ipq, lost, iface,
                 phy, load, refused>>

TxDone ==
  /\ DoneCount \/ DoneBody
  /\ UNCHANGED <<netVars, niVars>>

(* Mutants: the buffer is put back where the next one is taken; one buffer *)
(* is released for each notification.                                      *)
ReleaseTx_AtHead ==
  /\ At(Emac, "release")
  /\ IF pool.used = 0
     THEN refused' = TRUE /\ UNCHANGED pool
     ELSE /\ pool' = [buf |-> [pool.buf EXCEPT ![pool.head] = task[Emac].buf],
                      head |-> pool.head, tail |-> (pool.tail + 1) % NPool,
                      used |-> pool.used - 1]
          /\ UNCHANGED refused
  /\ task' = [task EXCEPT ![Emac] = [NoTask EXCEPT !.pc = "tx"]]
  /\ UNCHANGED <<ringVars, rxVars, hwVars, netVars, rxUsed, tokens, notes,
                 events, chain, ipq, lost, iface, phy, load>>

ReleaseTx_Once ==
  /\ At(Emac, "release")
  /\ IF pool.used = 0
     THEN refused' = TRUE /\ UNCHANGED pool
     ELSE /\ pool' = [buf |-> [pool.buf EXCEPT ![pool.tail] = task[Emac].buf],
                      head |-> pool.head, tail |-> (pool.tail + 1) % NPool,
                      used |-> pool.used - 1]
          /\ UNCHANGED refused
  /\ task' = [task EXCEPT ![Emac] = [NoTask EXCEPT !.pc = "stop"]]
  /\ UNCHANGED <<ringVars, rxVars, hwVars, netVars, rxUsed, tokens, notes,
                 events, chain, ipq, lost, iface, phy, load>>

(* pucReleaseTXBuffer.                                                     *)
ReleaseTx ==
  /\ At(Emac, "release")
  /\ IF pool.used = 0
     THEN refused' = TRUE /\ UNCHANGED pool
     ELSE /\ pool' = [buf |-> [pool.buf EXCEPT ![pool.tail] = task[Emac].buf],
                      head |-> pool.head, tail |-> (pool.tail + 1) % NPool,
                      used |-> pool.used - 1]
          /\ UNCHANGED refused
  /\ task' = [task EXCEPT ![Emac] = [NoTask EXCEPT !.pc = "tx"]]
  /\ UNCHANGED <<ringVars, rxVars, hwVars, netVars, rxUsed, tokens, notes,
                 events, chain, ipq, lost, iface, phy, load>>

(* prvHandleErrorEvents: the only place that notices that the link is      *)
(* gone.                                                                   *)
HandleError ==
  /\ At(Emac, "stop") /\ Goto(Emac, "phy")
  /\ events' = {}
  /\ phy' = IF "ERR" \in events /\ phy.link /\ ~phy.up
            THEN [phy EXCEPT !.link = FALSE, !.reconfig = TRUE] ELSE phy
  /\ UNCHANGED <<ringVars, rxVars, hwVars, netVars, pool, rxUsed, tokens, notes,
                 chain, ipq, lost, iface, load, refused>>

(* The rest of the loop: when the PHY timer has expired, a change that an  *)
(* error made known is acted on, once.                                     *)
PhyTimer(expired) ==
  /\ At(Emac, "phy")
  /\ task' = [task EXCEPT ![Emac] = [NoTask EXCEPT !.pc = "wait"]]
  /\ phy' = IF expired /\ phy.reconfig
            THEN [phy EXCEPT !.link = phy.up, !.reconfig = FALSE] ELSE phy
  /\ UNCHANGED <<ringVars, rxVars, hwVars, netVars, pool, rxUsed, tokens, notes,
                 events, chain, ipq, lost, iface, load, refused>>

-----------------------------------------------------------------------------
(* The IP task (external) processes and releases what it was passed.       *)
IpTask ==
  /\ \/ /\ ipq.queued > 0 /\ ~ipq.giving /\ ReleaseInsert
        /\ ipq' = [queued |-> ipq.queued - 1, giving |-> TRUE]
     \/ /\ ipq.giving /\ ReleaseGive
        /\ ipq' = [ipq EXCEPT !.giving = FALSE]
  /\ UNCHANGED <<ringVars, rxVars, hwVars, task, pool, rxUsed, tokens, notes,
                 events, chain, lost, iface, phy, load, refused>>

EngineSend ==
  /\ EngineTransmit
  /\ UNCHANGED <<netVars, niVars>>

Frame ==
  /\ rxUsed > 0 /\ load.frames > 0
  /\ EngineReceive \/ EngineOverrun
  /\ load' = [load EXCEPT !.frames = @ - 1]
  /\ UNCHANGED <<netVars, pool, rxUsed, tokens, notes, events, chain, ipq, lost,
                 iface, phy, refused>>

Input == InputDrop \/ InputTake \/ InputCopy \/ InputEnd
Deliver == Pass \/ PassFull \/ DropFirst \/ DropLast
EmacStep ==
  \/ EmacWait \/ Input \/ Deliver \/ OutDone \/ TxDone \/ ReleaseTx
  \/ HandleError \/ \E expired \in BOOLEAN : PhyTimer(expired)

Send(t) ==
  \/ SendGot(t) \/ \E rel \in BOOLEAN : Output(t, rel)
  \/ Transmit(t) \/ ReleaseFirst(t) \/ ReleaseLast(t)

Next ==
  \/ InitialiseDma \/ InitialiseWait \/ PhyFlap
  \/ \E t \in Callers : SendGet(t) \/ Send(t)
  \/ EmacStep \/ Isr \/ IpTask \/ EngineSend \/ Frame

(* The scheduler lets every task that can run take its steps, and a task   *)
(* that waits for tx_mutex gets it if it is released again and again; an   *)
(* interrupt is taken and the engine works off its ring.  The PHY timer    *)
(* expires again and again.  A caller need not send.                       *)
TakeTxMutex(t) == At(t, "lock") /\ Transmit(t)

Fairness ==
  /\ WF_vars(InitialiseDma) /\ WF_vars(InitialiseWait)
  /\ \A t \in Callers : WF_vars(Send(t)) /\ SF_vars(TakeTxMutex(t))
  /\ WF_vars(EmacStep) /\ SF_vars(TxDone) /\ SF_vars(PhyTimer(TRUE))
  /\ WF_vars(Isr) /\ WF_vars(IpTask) /\ WF_vars(EngineSend)

Spec == Init /\ [][Next]_vars /\ Fairness

-----------------------------------------------------------------------------
InPool(b) == \E k \in 0 .. NPool - 1 :
               k < NPool - pool.used /\ pool.buf[(pool.head + k) % NPool] = b
WithSender(b) == {t \in Callers : task[t].buf = b /\ task[t].pc \in {"sem", "lock"}}
InRing(b) == {i \in TxSlots : txRing[i].buf = b}

(* Every buffer of the transmit pool is in exactly one place: free in the  *)
(* pool, with one sender, in one descriptor, or being released by the      *)
(* handler task.  pucGetTXBuffer, xgmac_dma_transmit, xgmac_dma_tx_done    *)
(* and pucReleaseTXBuffer hand it on under three different locks.          *)
TxBuffersAccounted ==
  \A b \in TxBufs :
    Cardinality(WithSender(b)) + Cardinality(InRing(b))
      + (IF InPool(b) THEN 1 ELSE 0)
      + (IF At(Emac, "release") /\ task[Emac].buf = b THEN 1 ELSE 0) = 1

(* xgmac_dma_tx_done takes the descriptor at the tail without a look at    *)
(* its OWN bit: that the engine is done with it follows from the tokens,   *)
(* of which the interrupt handler gives at most one for each frame sent.   *)
(* Nor is an exit reached that would leave damage behind: tx_done's        *)
(* -EINVAL, which keeps tx_mutex for good, transmit's -EIO, which keeps    *)
(* the pool buffer, the release into an unused pool, which keeps its mutex.*)
TxDoneSafe ==
  /\ At(Emac, "locked") =>
       LET d == txRing[task[Emac].tail] IN ~d.own /\ d.buf # None
  /\ tx_mutex # Emac /\ ~refused

One(p) == IF p THEN 1 ELSE 0
TasksAt(S, locs) == {t \in S : task[t].pc \in locs}

GetsHeld == Cardinality(TasksAt(Tasks, {"get", "rxget"}))
GivesDue == Cardinality(TasksAt(Tasks, {"give", "dropgive"})) + One(ipq.giving)

Carrying == {"have", "sem", "lock", "head", "kick", "out"}
InUse == chain + ipq.queued + lost + Cardinality(TasksAt(Callers, Carrying))

(* A task that has taken the network buffer semaphore finds a buffer in    *)
(* the list: what the list holds is what the semaphore still promises,     *)
(* what was promised to tasks on their way to the list, and what was       *)
(* inserted and not given yet.  The others are with the tasks that hold    *)
(* them, but for those that xNetworkInterfaceOutput returned without       *)
(* releasing; a chain that the IP task's queue refuses is released whole.  *)
NetworkBuffersAccounted ==
  /\ xFreeBuffersList = xNetworkBufferSemaphore + GetsHeld + GivesDue
  /\ xFreeBuffersList + InUse = NBuf

(* A frame that lies in a descriptor is known of: the engine's status bit, *)
(* the handler task's notification or its running receive loop will have   *)
(* it fetched, as long as the interrupt handler has not served a receive   *)
(* event together with a transmit event, or before the handler task        *)
(* exists; from then on nothing is said.  prvNetworkInterfaceInput may     *)
(* find the ring empty just before the frame is stored.                    *)
FrameKnown ==
  \/ "RI" \in status \/ "RX" \in notes
  \/ "RX" \in events /\ task[Emac].pc \in {"rx", "rxget"}
NoFrameForgotten ==
  iface = "up" /\ ~merged /\ (\E i \in RxSlots : ~rxOwn[i]) => FrameKnown

(* Every transmit buffer that is taken comes back to the pool, unless the  *)
(* interrupt handler missed an event because two were served as one.       *)
BuffersComeBack == \A b \in TxBufs : ~InPool(b) ~> (merged \/ InPool(b))

(* A link that stays up is noticed by the handler task, which reads the    *)
(* PHY every second while it takes the link for down.  The code does not   *)
(* have this property: a change seen while the PHY is still down clears    *)
(* the flag that would have it read again.                                 *)
LinkFollowsPhy == (<>[](phy.up /\ iface = "up")) => []<>phy.link

-----------------------------------------------------------------------------
(***************************************************************************)
(* The inductive invariant of the proofs.                                  *)
(***************************************************************************)
CallersAt(locs) == TasksAt(Callers, locs)
Releasing == task[Emac].pc \in {"count", "locked"}

(* The descriptors that are filled, and the first of them, which have been *)
(* sent: a caller that took tx_sem fills one, and the engine is told of it *)
(* when tx_mutex is released.  There is no semaphore before the reset.     *)
Filled ==
  IF iface = "down" THEN 0
  ELSE NTx - tx_sem - Cardinality(CallersAt({"lock"}))
Advancing == One(CallersAt({"head"}) # {})
Kicking == One(CallersAt({"kick"}) # {})
Sent == Filled - Advancing - Kicking - engine.todo

TxSlot(k) == (tx_desc_tail + k) % NTx
RingState ==
  /\ Filled \in 0 .. NTx /\ Sent \in 0 .. NTx
  /\ \A k \in TxSlots :
       LET d == txRing[TxSlot(k)] IN
         IF k < Filled THEN d.own = (k >= Sent) /\ d.buf # None
                       ELSE d = FreeDesc
  /\ engine.tx = TxSlot(Sent)
  /\ (tx_desc_head + Advancing) % NTx = TxSlot(Filled)

MutexExact ==
  /\ tx_mutex # Emac
  /\ \A t \in Callers : tx_mutex = t <=> task[t].pc \in {"head", "kick"}

(* Every token, and the interrupt that will give one, stands for a frame   *)
(* that was sent and whose descriptor is not released.                     *)
TokensBacked == tokens + One("TI" \in status) + One(Releasing) <= Sent

(* What xgmac_dma_tx_done has read before it takes the mutex.              *)
IndicesRead ==
  LET me == task[Emac] IN
    /\ Releasing => me.tail = tx_desc_tail
    /\ me.pc = "count" /\ me.tail = me.head => tx_sem = 0
    /\ me.pc = "locked" => me.used > 0 /\ (me.tail = me.head => me.used = NTx)

(* The free part of the pool, and the number of buffers outside of it.     *)
PoolPos(k) == (pool.head + k) % NPool
PoolState ==
  /\ pool.used = Cardinality(CallersAt({"sem", "lock"})) + Filled
                   + One(At(Emac, "release"))
  /\ pool.tail = PoolPos(NPool - pool.used)
  /\ \A j, k \in 0 .. NPool - pool.used - 1 :
       pool.buf[PoolPos(j)] = pool.buf[PoolPos(k)] => j = k

(* Where tasks can be; what they carry; nobody moves before the start.     *)
Locations ==
  /\ \A t \in Callers : /\ task[t].pc \in CallerPcs
                        /\ task[t].pc \in {"sem", "lock"} => task[t].buf # None
  /\ task[Emac].pc \in EmacPcs
  /\ At(Emac, "release") => task[Emac].buf # None
  /\ iface # "up" =>
       /\ task[Emac].pc = "wait" /\ \A t \in Callers : task[t].pc = "idle"
       /\ tokens = 0 /\ (iface = "wait" => tx_sem = NTx)

BufferInv ==
  /\ TypeOK /\ Locations /\ MutexExact /\ RingState /\ TokensBacked
  /\ IndicesRead /\ PoolState /\ ~refused
  /\ TxBuffersAccounted /\ NetworkBuffersAccounted

(* From the head of the receive ring on, the descriptors with a frame and  *)
(* then those of the engine.  A frame is known of from the reset on, and   *)
(* the one that a network buffer was taken for is still there to be copied.*)
RxSlot(k) == (rx_desc_head + k) % NRx
RxState ==
  \E n \in 0 .. NRx : /\ engine.rx = RxSlot(n)
                      /\ \A k \in RxSlots : rxOwn[RxSlot(k)] = (k >= n)
RxInv ==
  iface # "down" =>
    /\ RxState
    /\ Received /\ ~merged => FrameKnown
    /\ At(Emac, "rxget") => Received /\ "RX" \in events

IInv == BufferInv /\ RxInv
=============================================================================
