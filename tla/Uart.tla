-------------------------------- MODULE Uart --------------------------------
(***************************************************************************)
(* One port of the UART driver, drivers/uart/socfpga_uart.c, with the      *)
(* registers it shares with its interrupt handler (socfpga_uart_ll.c).     *)
(*                                                                         *)
(* The two directions run the same protocol, so they share their actions:  *)
(* a call claims the direction's busy flag under the mutex, moves what the *)
(* FIFO allows, enables the interrupt and, if synchronous, waits for the   *)
(* handler's post.  Bytes are counted; their values do not matter here.    *)
(* The mutex encloses only the test and set of a flag, so Claim and        *)
(* uart_set_callback are single steps.  A refused call (-EINVAL, -EBUSY)   *)
(* changes nothing and is no step; uart_cancel returns -ENOSYS.  The waits *)
(* never time out: configUART_SYNC_TIMEOUT_MS is left at its default.      *)
(***************************************************************************)
EXTENDS Naturals, FiniteSets

CONSTANTS
  Writers, Readers, \* tasks that transmit, tasks that receive
  Asyncers,         \* those that use the asynchronous calls too
  Configurers,      \* tasks that call uart_ioctl
  Closers,          \* tasks that close the port
  FullDuplex,       \* the directions, and uart_ioctl, are used side by side
  FifoDepth,        \* bytes in a hardware FIFO
  MaxBytes,         \* the largest nbytes of a call
  CountRange,       \* values of a uint16_t, in which uart_ioctl reports
  Parallel,         \* tasks run on other cores while the handler runs
  None              \* no callback

Tasks == Writers \cup Readers \cup Configurers \cup Closers
Dirs == {"tx", "rx"}

ASSUME UartAssumption ==
  /\ FifoDepth \in Nat \ {0} /\ MaxBytes \in Nat \ {0}
  /\ CountRange \in Nat \ {0} /\ FifoDepth < CountRange
  /\ Parallel \in BOOLEAN /\ FullDuplex \in BOOLEAN
  /\ None \notin Tasks /\ Asyncers \subseteq Tasks

VARIABLES
  port,  \* uart_descriptor: is_open, callback_fn; and for each direction
         \* busy (tx_is_busy), async (tx_is_async), size and left
  sem,   \* wr_sem and rd_sem
  ier,   \* the interrupts enabled in UART_IER
  dlab,  \* UART_LCR.DLAB: THR, RBR and IER address the divisor latch
  fifo,  \* bytes in the two hardware FIFOs
  isr,   \* the handler: "idle", or the direction whose flags it clears next
  task,  \* each task's call: pc, direction, kind, nbytes, local copy of IER
  moved, \* (history) bytes of the transfer that really passed the FIFO
  owed   \* (history) the callback registered when the transfer was claimed

vars == <<port, sem, ier, dlab, fifo, isr, task, moved, owed>>

Each(x) == [d \in Dirs |-> x]
NoCall == [pc |-> "idle", dir |-> "tx", async |-> FALSE, n |-> 0, val |-> {}]

Ports == [open : BOOLEAN, callback : Tasks \cup {None},
          busy : [Dirs -> BOOLEAN], async : [Dirs -> BOOLEAN],
          size : [Dirs -> 0 .. MaxBytes], left : [Dirs -> 0 .. MaxBytes]]
Calls == [pc : {"idle", "size", "left", "move", "ier", "ierw", "wait", "clear",
                "latch"},
          dir : Dirs, async : BOOLEAN, n : 0 .. MaxBytes, val : SUBSET Dirs]

TypeOK ==
  /\ port \in Ports /\ task \in [Tasks -> Calls]
  /\ sem \in [Dirs -> {0, 1}] /\ ier \subseteq Dirs /\ dlab \in BOOLEAN
  /\ fifo \in [Dirs -> 0 .. FifoDepth] /\ isr \in Dirs \cup {"idle"}
  /\ moved \in [Dirs -> 0 .. MaxBytes] /\ owed \in [Dirs -> Tasks \cup {None}]

ClosedPort == [open |-> FALSE, callback |-> None, busy |-> Each(FALSE),
               async |-> Each(FALSE), size |-> Each(0), left |-> Each(0)]

Init ==
  /\ port = ClosedPort /\ sem = Each(0) /\ ier = {} /\ dlab = FALSE
  /\ fifo = Each(0) /\ isr = "idle" /\ task = [t \in Tasks |-> NoCall]
  /\ moved = Each(0) /\ owed = Each(None)

-----------------------------------------------------------------------------
(* On one core no task runs while the handler does.                        *)
At(t, loc) == task[t].pc = loc /\ (isr = "idle" \/ Parallel)
Goto(t, loc) == task' = [task EXCEPT ![t].pc = loc]
Return(t) == task' = [task EXCEPT ![t] = NoCall]
AllIdle == \A t \in Tasks : task[t].pc = "idle"
MayUse(t, d) == IF d = "tx" THEN t \in Writers ELSE t \in Readers

(* Unless FullDuplex, the application starts a transfer only when the      *)
(* other direction is at rest, and configures the port only when both are. *)
AtRest(dirs) ==
  FullDuplex \/ /\ \A d \in dirs : ~port.busy[d]
                /\ \A t \in Tasks : task[t].pc # "latch"

(* uart_write_fifo and uart_read_fifo, asked for n bytes: how many they    *)
(* report, how many they really move, and the FIFO after it.  While DLAB   *)
(* is set the data register is the latch: the loop counts every byte, in a *)
(* uint16_t, and moves none.                                               *)
Room(d) == IF d = "tx" THEN FifoDepth - fifo[d] ELSE fifo[d]
Least(a, b) == IF a < b THEN a ELSE b
Counted_All(d, n) == n                        \* mutant: ignores USR
Counted(d, n) == IF dlab THEN n % CountRange ELSE Least(n, Room(d))
Passed(d, n) == IF dlab THEN 0 ELSE Least(n, Room(d))
FifoAfter(d, n) ==
  [fifo EXCEPT ![d] = IF d = "tx" THEN @ + Passed(d, n) ELSE @ - Passed(d, n)]

(* A write of IER reaches the latch instead while DLAB is set.             *)
SetIer(val) == ier' = IF dlab THEN ier ELSE val

(* The application opens the port, and closes it, while none of its calls  *)
(* and transfers is in progress.  uart_init resets the peripheral.         *)
uart_open(t) ==
  /\ At(t, "idle") /\ AllIdle /\ ~port.open
  /\ port' = [ClosedPort EXCEPT !.open = TRUE]
  /\ sem' = Each(0) /\ ier' = {} /\ dlab' = FALSE /\ fifo' = Each(0)
  /\ moved' = Each(0) /\ owed' = Each(None)
  /\ UNCHANGED <<isr, task>>

uart_close(t) ==
  /\ At(t, "idle") /\ AllIdle /\ t \in Closers /\ port.open
  /\ ~port.busy["tx"] /\ ~port.busy["rx"]
  /\ port' = [port EXCEPT !.open = FALSE]
  /\ UNCHANGED <<sem, ier, dlab, fifo, isr, task, moved, owed>>

(* Mutant: the callback may change while a transfer is in progress.        *)
uart_set_callback_Unchecked(t, cb) ==
  /\ At(t, "idle") /\ port.open
  /\ port' = [port EXCEPT !.callback = cb]
  /\ UNCHANGED <<sem, ier, dlab, fifo, isr, task, moved, owed>>

uart_set_callback(t, cb) ==
  /\ At(t, "idle") /\ port.open /\ ~port.busy["tx"] /\ ~port.busy["rx"]
  /\ port' = [port EXCEPT !.callback = cb]
  /\ UNCHANGED <<sem, ier, dlab, fifo, isr, task, moved, owed>>

(* uart_ioctl: UART_GET_CONFIG, and UART_SET_CONFIG if no transfer is in   *)
(* progress, set DLAB to reach the divisor and clear it again.  The other  *)
(* requests only read: UART_GET_TX_NBYTES and UART_GET_RX_NBYTES the       *)
(* number Reported, cut to 16 bits, at any time.                           *)
Reported(d) == (port.size[d] - port.left[d]) % CountRange

uart_ioctl(t, cmd) ==
  /\ At(t, "idle") /\ t \in Configurers /\ port.open
  /\ AtRest(Dirs)
  /\ cmd = "SET_CONFIG" => ~port.busy["tx"] /\ ~port.busy["rx"]
  /\ dlab' = TRUE /\ Goto(t, "latch")
  /\ UNCHANGED <<port, sem, ier, fifo, isr, moved, owed>>

CloseLatch(t) ==
  /\ At(t, "latch") /\ dlab' = FALSE /\ Return(t)
  /\ UNCHANGED <<port, sem, ier, fifo, isr, moved, owed>>

(* uart_write_polling is documented as not thread safe: its caller runs it *)
(* when nobody transmits.  It leaves at most one byte in the FIFO, none of *)
(* its own if the line stalls.                                             *)
uart_write_polling(t) ==
  /\ At(t, "idle") /\ t \in Writers /\ port.open
  /\ ~port.busy["tx"] /\ AtRest({})
  /\ port' = [port EXCEPT !.async["tx"] = FALSE]
  /\ \E k \in {fifo["tx"], 1} : fifo' = [fifo EXCEPT !["tx"] = k]
  /\ UNCHANGED <<sem, ier, dlab, isr, task, moved, owed>>

-----------------------------------------------------------------------------
(* The test and set of a busy flag under the mutex, common to the four     *)
(* calls below.                                                            *)

(* Mutant: the flag is set but not tested.                                 *)
Claim_Unchecked(t, d, async, n) ==
  /\ At(t, "idle") /\ MayUse(t, d) /\ (async => t \in Asyncers)
  /\ port.open /\ AtRest(Dirs \ {d})
  /\ port' = [port EXCEPT !.busy[d] = TRUE, !.async[d] = async]
  /\ task' = [task EXCEPT ![t] = [pc |-> "size", dir |-> d, async |-> async,
                                 n |-> n, val |-> {}]]
  /\ owed' = [owed EXCEPT ![d] = port.callback]
  /\ UNCHANGED <<sem, ier, dlab, fifo, isr, moved>>

Claim(t, d, async, n) ==
  /\ At(t, "idle") /\ MayUse(t, d) /\ (async => t \in Asyncers)
  /\ port.open /\ ~port.busy[d] /\ AtRest(Dirs \ {d})
  /\ port' = [port EXCEPT !.busy[d] = TRUE, !.async[d] = async]
  /\ task' = [task EXCEPT ![t] = [pc |-> "size", dir |-> d, async |-> async,
                                 n |-> n, val |-> {}]]
  /\ owed' = [owed EXCEPT ![d] = port.callback]
  /\ UNCHANGED <<sem, ier, dlab, fifo, isr, moved>>

uart_write_sync(t, n) == Claim(t, "tx", FALSE, n)
uart_write_async(t, n) == Claim(t, "tx", TRUE, n)
uart_read_sync(t, n) == Claim(t, "rx", FALSE, n)
uart_read_async(t, n) == Claim(t, "rx", TRUE, n)

(* The mutex is released: a task that reads the counts between these two   *)
(* writes finds the new size with what the last transfer left, nothing.    *)
SetSize(t) ==
  /\ At(t, "size") /\ Goto(t, "left")
  /\ port' = [port EXCEPT !.size[task[t].dir] = task[t].n]
  /\ UNCHANGED <<sem, ier, dlab, fifo, isr, moved, owed>>

SetLeft(t) ==
  /\ At(t, "left") /\ Goto(t, "move")
  /\ port' = [port EXCEPT !.left[task[t].dir] = task[t].n]
  /\ moved' = [moved EXCEPT ![task[t].dir] = 0]
  /\ UNCHANGED <<sem, ier, dlab, fifo, isr, owed>>

(* Mutant: the size, not what is left, decides when a read is complete.    *)
Move_Early(t) ==
  LET d == task[t].dir
      n == task[t].n
      done == d = "rx" /\ Counted(d, n) > 0 IN
    /\ At(t, "move")
    /\ port' = [port EXCEPT !.left[d] = @ - Counted(d, n)]
    /\ moved' = [moved EXCEPT ![d] = Passed(d, n)]
    /\ fifo' = FifoAfter(d, n)
    /\ sem' = IF done /\ ~task[t].async THEN [sem EXCEPT ![d] = 1] ELSE sem
    /\ Goto(t, CASE ~done -> "ier"
                 [] done /\ task[t].async -> "clear"
                 [] done /\ ~task[t].async /\ sem[d] = 0 -> "wait"
                 [] OTHER -> "idle")
    /\ UNCHANGED <<ier, dlab, isr, owed>>

(* The rest of uart_write and uart_read up to the interrupt, in one step   *)
(* because the interrupt of this direction should be off here.  A read     *)
(* that is complete at once calls back or posts rd_sem; when that post     *)
(* fails the call returns -EIO and leaves rx_is_busy set.                  *)
Move(t) ==
  LET d == task[t].dir
      n == task[t].n
      done == d = "rx" /\ Counted(d, n) = n IN
    /\ At(t, "move")
    /\ port' = [port EXCEPT !.left[d] = @ - Counted(d, n)]
    /\ moved' = [moved EXCEPT ![d] = Passed(d, n)]
    /\ fifo' = FifoAfter(d, n)
    /\ sem' = IF done /\ ~task[t].async THEN [sem EXCEPT ![d] = 1] ELSE sem
    /\ Goto(t, CASE ~done -> "ier"
                 [] done /\ task[t].async -> "clear"
                 [] done /\ ~task[t].async /\ sem[d] = 0 -> "wait"
                 [] OTHER -> "idle")
    /\ UNCHANGED <<ier, dlab, isr, owed>>

(* After the callback of a read that was complete at once.                 *)
ReadClear(t) ==
  /\ At(t, "clear") /\ Return(t)
  /\ port' = [port EXCEPT !.async["rx"] = FALSE, !.busy["rx"] = FALSE]
  /\ UNCHANGED <<sem, ier, dlab, fifo, isr, moved, owed>>

(* uart_enable_interrupt reads IER and then writes it.                     *)
EnableRead(t) ==
  /\ At(t, "ier")
  /\ task' = [task EXCEPT ![t].pc = "ierw", ![t].val = ier]
  /\ UNCHANGED <<port, sem, ier, dlab, fifo, isr, moved, owed>>

(* Mutant: the interrupt stays off.                                        *)
EnableWrite_Off(t) ==
  /\ At(t, "ierw") /\ SetIer(task[t].val \ {task[t].dir})
  /\ IF task[t].async THEN Return(t) ELSE Goto(t, "wait")
  /\ UNCHANGED <<port, sem, dlab, fifo, isr, moved, owed>>

EnableWrite(t) ==
  /\ At(t, "ierw") /\ SetIer(task[t].val \cup {task[t].dir})
  /\ IF task[t].async THEN Return(t) ELSE Goto(t, "wait")
  /\ UNCHANGED <<port, sem, dlab, fifo, isr, moved, owed>>

Wait(t) ==
  LET d == task[t].dir IN
    /\ At(t, "wait") /\ sem[d] = 1 /\ Return(t)
    /\ sem' = [sem EXCEPT ![d] = 0]
    /\ port' = [port EXCEPT !.busy[d] = FALSE]
    /\ UNCHANGED <<ier, dlab, fifo, isr, moved, owed>>

-----------------------------------------------------------------------------
(* The peripheral (external): the line empties and fills the FIFOs, and    *)
(* received data comes before an empty transmitter in UART_IIR.            *)
Drain ==
  /\ port.open /\ fifo["tx"] > 0
  /\ fifo' = [fifo EXCEPT !["tx"] = @ - 1]
  /\ UNCHANGED <<port, sem, ier, dlab, isr, task, moved, owed>>

Receive ==
  /\ port.open /\ fifo["rx"] < FifoDepth
  /\ fifo' = [fifo EXCEPT !["rx"] = @ + 1]
  /\ UNCHANGED <<port, sem, ier, dlab, isr, task, moved, owed>>

get_int_status ==
  CASE "rx" \in ier /\ fifo["rx"] > 0 -> "rx"
    [] "tx" \in ier /\ fifo["tx"] = 0 -> "tx"
    [] OTHER -> "none"

(* What the handler moves, and how it completes a transfer.                *)
IsrMove(d) ==
  LET n == port.left[d] IN
    /\ port' = [port EXCEPT !.left[d] = @ - Counted(d, n)]
    /\ moved' = [moved EXCEPT ![d] = @ + Passed(d, n)]
    /\ fifo' = FifoAfter(d, n)

(* Mutant: the handler posts before it knows the kind of transfer.         *)
IsrComplete_PostsAlways(d) ==
  /\ SetIer(ier \ {d})
  /\ isr' = (IF port.async[d] THEN d ELSE "idle")
  /\ sem' = [sem EXCEPT ![d] = 1]

IsrComplete(d) ==
  /\ SetIer(ier \ {d})
  /\ IF port.async[d]
     THEN isr' = d /\ UNCHANGED sem
     ELSE sem' = [sem EXCEPT ![d] = 1] /\ UNCHANGED isr

(* uart_isr, UART_RXBUF_RDY_INT.                                           *)
IsrRx ==
  /\ isr = "idle" /\ port.open /\ get_int_status = "rx"
  /\ IsrMove("rx")
  /\ IF port'.left["rx"] = 0 THEN IsrComplete("rx")
                             ELSE UNCHANGED <<sem, ier, isr>>
  /\ UNCHANGED <<dlab, task, owed>>

(* uart_isr, UART_TXBUF_EMPTY_INT: completion is one interrupt later.      *)
IsrTx ==
  /\ isr = "idle" /\ port.open /\ get_int_status = "tx"
  /\ IF port.left["tx"] > 0
     THEN IsrMove("tx") /\ UNCHANGED <<sem, ier, isr>>
     ELSE IsrComplete("tx") /\ UNCHANGED <<port, moved, fifo>>
  /\ UNCHANGED <<dlab, task, owed>>

(* The flags of an asynchronous transfer, after its callback.              *)
IsrClear ==
  /\ isr # "idle" /\ isr' = "idle"
  /\ port' = [port EXCEPT !.async[isr] = FALSE, !.busy[isr] = FALSE]
  /\ UNCHANGED <<sem, ier, dlab, fifo, task, moved, owed>>

-----------------------------------------------------------------------------
Call(t) ==
  \/ uart_open(t) \/ uart_close(t) \/ uart_write_polling(t)
  \/ \E cb \in {t, None} : uart_set_callback(t, cb)
  \/ \E cmd \in {"GET_CONFIG", "SET_CONFIG"} : uart_ioctl(t, cmd)
  \/ \E n \in 1 .. MaxBytes :
        \/ uart_write_sync(t, n) \/ uart_write_async(t, n)
        \/ uart_read_sync(t, n) \/ uart_read_async(t, n)

Step(t) ==
  \/ CloseLatch(t) \/ SetSize(t) \/ SetLeft(t) \/ Move(t) \/ ReadClear(t)
  \/ EnableRead(t) \/ EnableWrite(t) \/ Wait(t)

Next ==
  \/ \E t \in Tasks : Call(t) \/ Step(t)
  \/ Drain \/ Receive \/ IsrRx \/ IsrTx \/ IsrClear

(* A task that can go on does, the handler runs when its interrupt is      *)
(* raised, the line drains and the peer keeps sending.  Nothing is assumed *)
(* of calls that have not started.                                         *)
Fairness ==
  /\ \A t \in Tasks : WF_vars(Step(t))
  /\ WF_vars(IsrRx) /\ WF_vars(IsrTx) /\ WF_vars(IsrClear)
  /\ WF_vars(Drain) /\ WF_vars(Receive)

Spec == Init /\ [][Next]_vars /\ Fairness

-----------------------------------------------------------------------------
(* The busy flag of a direction stands for exactly one transfer: one call  *)
(* that claimed it and has not returned, or one asynchronous transfer that *)
(* its call left to the handler.  (uart_write_sync tests and sets the flag *)
(* under the mutex but clears it outside, as does the handler.)            *)
InCall(d) == {t \in Tasks : task[t].dir = d /\
                task[t].pc \notin {"idle", "latch"}}
Handed(d) == port.busy[d] /\ port.async[d] /\ InCall(d) = {}
BusyHasOwner ==
  port.open => \A d \in Dirs :
    /\ Cardinality(InCall(d)) <= 1
    /\ port.busy[d] <=> (InCall(d) # {} \/ Handed(d))

(* What uart_ioctl reports for UART_GET_TX_NBYTES and UART_GET_RX_NBYTES   *)
(* is, modulo 2^16, what really passed the FIFO in the last transfer of    *)
(* that direction, when it is asked as uart.h says, after the transfer or  *)
(* in its callback; and at no other moment is it more than what has passed *)
(* so far, but for the one between the writes of size and left, when it is *)
(* the whole size of a transfer of which nothing has moved.  The last      *)
(* transfer of that DIRECTION: uart.h:379 and :386 promise 0 when the last *)
(* operation went the other way, and nothing in the code resets the count. *)
(* uart_write_polling keeps no count.                                      *)
Resizing(d) == \E t \in InCall(d) : task[t].pc = "left"
InCallback(d) == isr = d \/ \E t \in InCall(d) : task[t].pc = "clear"
NBytesExact ==
  \A d \in Dirs :
    /\ ~port.busy[d] \/ InCallback(d) => Reported(d) = moved[d] % CountRange
    /\ ~Resizing(d) => Reported(d) <= moved[d]

(* When a direction stops being busy, every byte the caller asked for has  *)
(* passed the FIFO: a synchronous call never takes the post of an earlier  *)
(* transfer for its own, an asynchronous one calls back after its data.    *)
DoneMeansMoved ==
  [][\A d \in Dirs :
       port.open /\ port.busy[d] /\ ~port'.busy[d]
         => port.left[d] = 0 /\ moved[d] = port.size[d]]_vars

(* The callback that the handler runs for a transfer is the one that was   *)
(* registered when the transfer was claimed: uart_set_callback refuses to  *)
(* change it in between.                                                   *)
CallbackAsRegistered ==
  \A d \in Dirs : port.open /\ port.busy[d] => port.callback = owed[d]

(* Every call returns and every transfer ends, as long as the line drains  *)
(* and the peer sends.                                                     *)
TransfersEnd ==
  /\ \A t \in Tasks : task[t].pc # "idle" ~> task[t].pc = "idle"
  /\ \A d \in Dirs : port.busy[d] ~> ~port.busy[d]

-----------------------------------------------------------------------------
(***************************************************************************)
(* The inductive invariant.  DoneMeansMoved needs to know, at the moment a *)
(* flag is cleared, why nothing is left: the post in sem stands for a      *)
(* waiting call whose bytes are all through, and the handler's clearing of *)
(* flags for an asynchronous transfer that nobody is in a call for.        *)
(***************************************************************************)

(* The transfer of a direction has moved all its bytes.                    *)
Through(d) == port.left[d] = 0

(* Neither a post nor the handler is on its way to the direction.          *)
Clean(d) == d \notin ier /\ sem[d] = 0 /\ isr # d

(* A call in progress owns its direction, alone.                           *)
Claimed ==
  \A d \in Dirs : \A t \in InCall(d) :
    /\ port.open /\ port.busy[d] /\ port.async[d] = task[t].async
    /\ \A u \in InCall(d) : u = t

(* What a call may rely on at each of its locations.                       *)
CallState ==
  \A t \in Tasks :
    /\ task[t].pc \in {"size", "left", "move", "ier", "ierw", "clear"} =>
         Clean(task[t].dir)
    /\ task[t].pc = "ierw" => task[t].val = {}
    /\ task[t].pc = "wait" => ~task[t].async
    /\ task[t].pc = "clear" =>
         task[t].dir = "rx" /\ task[t].async /\ Through("rx")

(* An enabled interrupt, a post and the handler between callback and flags *)
(* each belong to a transfer in progress.                                  *)
HandlerState ==
  /\ \A d \in ier : port.busy[d] /\ sem[d] = 0 /\ isr # d
  /\ \A d \in Dirs : sem[d] = 1 =>
       Through(d) /\ \E t \in InCall(d) : task[t].pc = "wait"
  /\ isr \in Dirs =>
       port.busy[isr] /\ port.async[isr] /\ InCall(isr) = {} /\ Through(isr)
  /\ \A d \in Dirs : port.busy[d] =>
       port.open /\ (port.async[d] \/ InCall(d) # {})

(* One direction at a time, and the divisor latch only between transfers.  *)
Disciplined ==
  /\ ~(port.busy["tx"] /\ port.busy["rx"])
  /\ dlab => \E t \in Tasks : task[t].pc = "latch"
  /\ \A t \in Tasks : task[t].pc = "latch" =>
       /\ ~port.busy["tx"] /\ ~port.busy["rx"]
       /\ \A u \in Tasks : task[u].pc = "latch" => u = t

(* Bytes asked for are left or have passed the FIFO.                       *)
Counts ==
  /\ \A d \in Dirs : ~Resizing(d) => port.left[d] + moved[d] = port.size[d]
  /\ \A t \in Tasks :
       /\ task[t].pc \in {"left", "move"} => port.size[task[t].dir] = task[t].n
       /\ task[t].pc = "move" =>
            port.left[task[t].dir] = task[t].n /\ moved[task[t].dir] = 0

IInv ==
  /\ TypeOK /\ Claimed /\ CallState /\ HandlerState /\ Disciplined /\ Counts
  /\ CallbackAsRegistered
=============================================================================
