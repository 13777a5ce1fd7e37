----------------------------- MODULE UartProofs -----------------------------
(***************************************************************************)
(* Proofs about Uart, for any tasks, FIFO and lengths of transfers, on any *)
(* number of cores, when the port is used in one direction at a time.      *)
(***************************************************************************)
EXTENDS Uart, FiniteSetTheorems, TLAPS

(* The discipline under which the driver is right: one direction is at     *)
(* rest while the other is used.                                           *)
HalfDuplex == ~FullDuplex


-----------------------------------------------------------------------------
(* A remainder is at most what it is the remainder of.                     *)
LEMMA Shrinks ==
  ASSUME NEW m \in Nat, NEW n \in Nat \ {0}
  PROVE  m % n \in 0 .. m
OBVIOUS

(* The fields of an opened port and of a task outside of any call.         *)
LEMMA Defaults == ClosedPort \in Ports /\ NoCall \in Calls
<1>1. ClosedPort \in Ports
  BY UartAssumption DEF ClosedPort, Ports, Each
<1>2. NoCall \in Calls
  BY UartAssumption DEF NoCall, Calls, Dirs
<1> QED
  BY <1>1, <1>2

(* The copy of IER that a call writes back.                                *)
LEMMA EnableCall ==
  ASSUME NEW c \in Calls, NEW v \in SUBSET Dirs
  PROVE  [c EXCEPT !.pc = "ierw", !.val = v] \in Calls
BY DEF Calls

(* The register accesses stay within the FIFO and what was asked for.      *)
LEMMA Moves ==
  ASSUME TypeOK, NEW d \in Dirs, NEW n \in 0 .. MaxBytes
  PROVE  /\ Counted(d, n) \in 0 .. n /\ Passed(d, n) \in 0 .. n
         /\ ~dlab => Counted(d, n) = Passed(d, n)
         /\ FifoAfter(d, n) \in [Dirs -> 0 .. FifoDepth]
<1>1. fifo[d] \in 0 .. FifoDepth /\ dlab \in BOOLEAN
  BY DEF TypeOK
<1>2. Room(d) \in 0 .. FifoDepth
  BY <1>1, UartAssumption DEF Room
<1>3. Least(n, Room(d)) \in 0 .. n /\ Least(n, Room(d)) <= Room(d)
  BY <1>2, UartAssumption DEF Least
<1>4. /\ Counted(d, n) \in 0 .. n /\ Passed(d, n) \in 0 .. n
      /\ ~dlab => Counted(d, n) = Passed(d, n)
      /\ Passed(d, n) <= Room(d)
  BY <1>1, <1>2, <1>3, UartAssumption DEF Counted, Passed
<1>5. (IF d = "tx" THEN fifo[d] + Passed(d, n) ELSE fifo[d] - Passed(d, n))
        \in 0 .. FifoDepth
  BY <1>1, <1>4, UartAssumption DEF Room
<1>6. FifoAfter(d, n) \in [Dirs -> 0 .. FifoDepth]
  BY <1>5 DEF FifoAfter, TypeOK
<1> QED
  BY <1>4, <1>6

(* A closed port with idle tasks satisfies IInv.                           *)
LEMMA InitIInv == Init => IInv
<1> SUFFICES ASSUME Init PROVE IInv
  OBVIOUS
<1> USE UartAssumption DEF Init, Each, NoCall, ClosedPort, Dirs
<1>1. TypeOK
  <2>1. port \in Ports
    BY Defaults
  <2>2. task \in [Tasks -> Calls]
    BY Defaults
  <2>3. /\ sem \in [Dirs -> {0, 1}] /\ fifo \in [Dirs -> 0 .. FifoDepth]
        /\ moved \in [Dirs -> 0 .. MaxBytes]
        /\ owed \in [Dirs -> Tasks \cup {None}]
    OBVIOUS
  <2>4. ier \subseteq Dirs /\ dlab \in BOOLEAN /\ isr \in Dirs \cup {"idle"}
    OBVIOUS
  <2> QED
    BY <2>1, <2>2, <2>3, <2>4, Zenon DEF TypeOK
<1>2. \A d \in Dirs : InCall(d) = {}
  BY DEF InCall
<1>3. Claimed /\ CallState /\ Counts /\ CallbackAsRegistered
  BY <1>2 DEF Claimed, CallState, Counts, CallbackAsRegistered
<1>4. HandlerState /\ Disciplined
  BY <1>2 DEF HandlerState, Disciplined
<1> QED
  BY <1>1, <1>3, <1>4 DEF IInv

(* Every step keeps the types: counts stay within the lengths of the       *)
(* transfer and the FIFO.                                                  *)
LEMMA NextTypeOK == IInv /\ [Next]_vars => TypeOK'
<1> SUFFICES ASSUME TypeOK, Counts, Claimed, CallState, HandlerState,
                    [Next]_vars
             PROVE  TypeOK'
  BY DEF IInv
<1> USE UartAssumption
<1>1. ASSUME NEW t \in Tasks, Call(t) PROVE TypeOK'
  <2> USE DEF TypeOK, Dirs, Tasks
  <2>1. CASE uart_open(t)
    <3>1. port' \in Ports
      BY <2>1, Defaults DEF uart_open, Ports
    <3>2. /\ sem' \in [Dirs -> {0, 1}] /\ fifo' \in [Dirs -> 0 .. FifoDepth]
          /\ moved' \in [Dirs -> 0 .. MaxBytes]
          /\ owed' \in [Dirs -> Tasks \cup {None}]
      BY <2>1 DEF uart_open, Each
    <3>3. ier' \subseteq Dirs /\ dlab' \in BOOLEAN
      BY <2>1 DEF uart_open
    <3>4. task' \in [Tasks -> Calls] /\ isr' \in Dirs \cup {"idle"}
      BY <2>1 DEF uart_open
    <3> QED
      BY <3>1, <3>2, <3>3, <3>4
  <2>2. CASE uart_close(t)
    BY <2>2 DEF uart_close, Ports
  <2>3. CASE uart_write_polling(t)
    <3>1. port' \in Ports
      BY <2>3 DEF uart_write_polling, Ports
    <3>2. fifo' \in [Dirs -> 0 .. FifoDepth]
      BY <2>3 DEF uart_write_polling
    <3> QED
      BY <2>3, <3>1, <3>2 DEF uart_write_polling
  <2>4. ASSUME NEW cb \in {t, None}, uart_set_callback(t, cb)
        PROVE  TypeOK'
    <3>1. port' \in Ports
      BY <2>4 DEF uart_set_callback, Ports
    <3> QED
      BY <2>4, <3>1 DEF uart_set_callback
  <2>5. ASSUME NEW cmd, uart_ioctl(t, cmd)
        PROVE  TypeOK'
    <3>1. task' \in [Tasks -> Calls]
      BY <2>5 DEF uart_ioctl, Goto, Calls
    <3> QED
      BY <2>5, <3>1 DEF uart_ioctl
  <2>6. ASSUME NEW n \in 1 .. MaxBytes, NEW d \in Dirs, NEW a \in BOOLEAN,
               Claim(t, d, a, n)
        PROVE  TypeOK'
    <3>1. port' \in Ports
      BY <2>6 DEF Claim, Ports
    <3>2. task' \in [Tasks -> Calls]
      <4> DEFINE r == [pc |-> "size", dir |-> d, async |-> a, n |-> n,
                       val |-> {}]
      <4>1. r \in Calls
        BY DEF Calls
      <4>2. task' = [task EXCEPT ![t] = r]
        BY <2>6 DEF Claim
      <4> HIDE DEF r
      <4> QED
        BY <4>1, <4>2
    <3>3. owed' \in [Dirs -> Tasks \cup {None}]
      BY <2>6 DEF Claim, Ports
    <3> QED
      BY <2>6, <3>1, <3>2, <3>3 DEF Claim
  <2> QED
    BY <1>1, <2>1, <2>2, <2>3, <2>4, <2>5, <2>6
    DEF Call, uart_write_sync, uart_write_async, uart_read_sync,
        uart_read_async
<1>2. ASSUME NEW t \in Tasks, Step(t) PROVE TypeOK'
  <2> USE DEF TypeOK, Dirs, Goto, Return
  <2>1. CASE CloseLatch(t)
    BY <2>1, Defaults DEF CloseLatch
  <2>2. CASE Move(t)
    <3> DEFINE d == task[t].dir  n == task[t].n
    <3>1. d \in Dirs /\ n \in 0 .. MaxBytes
      BY DEF Calls
    <3>2. fifo' \in [Dirs -> 0 .. FifoDepth] /\ Counted(d, n) \in 0 .. n
          /\ Passed(d, n) \in 0 .. n
      BY <2>2, <3>1, Moves DEF Move
    <3>3. port' \in Ports
      <4>1. n - Counted(d, n) \in 0 .. MaxBytes /\ port.left[d] = n
        BY <2>2, <3>1, <3>2 DEF Move, At, Counts
      <4>2. port' = [port EXCEPT !.left[d] = n - Counted(d, n)]
        BY <2>2, <4>1 DEF Move
      <4> HIDE DEF d, n
      <4> QED
        BY <3>1, <4>1, <4>2 DEF Ports
    <3>4. task' \in [Tasks -> Calls]
      BY <2>2 DEF Move, Calls
    <3>5. sem' \in [Dirs -> {0, 1}] /\ moved' \in [Dirs -> 0 .. MaxBytes]
      BY <2>2, <3>1, <3>2 DEF Move
    <3> QED
      BY <2>2, <3>2, <3>3, <3>4, <3>5 DEF Move
  <2>3. CASE ReadClear(t)
    <3>1. port' \in Ports
      BY <2>3 DEF ReadClear, Ports
    <3> QED
      BY <2>3, <3>1, Defaults DEF ReadClear
  <2>4. CASE EnableRead(t)
    <3>1. task' \in [Tasks -> Calls]
      <4>1. [task[t] EXCEPT !.pc = "ierw", !.val = ier] \in Calls
        BY EnableCall
      <4>2. task' = [task EXCEPT ![t] =
                       [task[t] EXCEPT !.pc = "ierw", !.val = ier]]
        BY <2>4 DEF EnableRead
      <4> QED
        BY <4>1, <4>2
    <3> QED
      BY <2>4, <3>1 DEF EnableRead
  <2>5. CASE EnableWrite(t)
    <3>1. task' \in [Tasks -> Calls]
      BY <2>5, Defaults DEF EnableWrite, Calls
    <3>2. ier' \subseteq Dirs
      BY <2>5 DEF EnableWrite, SetIer, Calls
    <3> QED
      BY <2>5, <3>1, <3>2 DEF EnableWrite
  <2>6. CASE Wait(t)
    <3>1. port' \in Ports
      BY <2>6 DEF Wait, Ports
    <3> QED
      BY <2>6, <3>1, Defaults DEF Wait, Calls
  <2>7. CASE SetSize(t) \/ SetLeft(t)
    <3>1. task[t].dir \in Dirs /\ task[t].n \in 0 .. MaxBytes
      BY DEF Calls
    <3>2. port' \in Ports
      BY <2>7, <3>1 DEF SetSize, SetLeft, Ports
    <3>3. task' \in [Tasks -> Calls]
      BY <2>7 DEF SetSize, SetLeft, Calls
    <3>4. moved' \in [Dirs -> 0 .. MaxBytes]
      BY <2>7, UartAssumption DEF SetSize, SetLeft
    <3> QED
      BY <2>7, <3>2, <3>3, <3>4 DEF SetSize, SetLeft
  <2> QED
    BY <1>2, <2>1, <2>2, <2>3, <2>4, <2>5, <2>6, <2>7 DEF Step
<1>3. ASSUME NEW d \in ier, isr = "idle", IsrMove(d)
      PROVE  /\ port' \in Ports /\ fifo' \in [Dirs -> 0 .. FifoDepth]
             /\ moved' \in [Dirs -> 0 .. MaxBytes]
  <2> DEFINE n == port.left[d]
  <2> d \in Dirs
    BY DEF TypeOK
  <2>0. ~Resizing(d)
    BY DEF Resizing, InCall, CallState, Clean
  <2>1. /\ n \in 0 .. MaxBytes /\ moved[d] \in 0 .. MaxBytes
        /\ n + moved[d] = port.size[d] /\ port.size[d] \in 0 .. MaxBytes
    BY <2>0 DEF TypeOK, Ports, Counts
  <2>2. /\ Counted(d, n) \in 0 .. n /\ Passed(d, n) \in 0 .. n
        /\ FifoAfter(d, n) \in [Dirs -> 0 .. FifoDepth]
    BY <2>1, Moves
  <2>3. /\ n - Counted(d, n) \in 0 .. MaxBytes
        /\ moved[d] + Passed(d, n) \in 0 .. MaxBytes
    BY <2>1, <2>2
  <2>4. /\ port' = [port EXCEPT !.left[d] = n - Counted(d, n)]
        /\ moved' = [moved EXCEPT ![d] = moved[d] + Passed(d, n)]
        /\ fifo' = FifoAfter(d, n)
    BY <1>3 DEF IsrMove, TypeOK
  <2> HIDE DEF n
  <2>5. port' \in Ports
    BY <2>3, <2>4 DEF TypeOK, Ports
  <2> QED
    BY <2>2, <2>3, <2>4, <2>5 DEF TypeOK
<1>4. ASSUME NEW d \in Dirs, IsrComplete(d)
      PROVE  /\ ier' \subseteq Dirs /\ isr' \in Dirs \cup {"idle"}
             /\ sem' \in [Dirs -> {0, 1}]
  BY <1>4 DEF IsrComplete, SetIer, TypeOK
<1>5. CASE Drain \/ Receive
  <2>1. fifo' \in [Dirs -> 0 .. FifoDepth]
    <3>1. CASE Drain
      <4>1. fifo["tx"] - 1 \in 0 .. FifoDepth
        BY <3>1 DEF Drain, TypeOK, Dirs
      <4> QED
        BY <3>1, <4>1 DEF Drain, TypeOK
    <3>2. CASE Receive
      <4>1. fifo["rx"] + 1 \in 0 .. FifoDepth
        BY <3>2 DEF Receive, TypeOK, Dirs
      <4> QED
        BY <3>2, <4>1 DEF Receive, TypeOK
    <3> QED
      BY <1>5, <3>1, <3>2
  <2> QED
    BY <1>5, <2>1 DEF Drain, Receive, TypeOK
<1>6. CASE IsrRx
  BY <1>3, <1>4, <1>6 DEF IsrRx, get_int_status, TypeOK, Dirs
<1>7. CASE IsrTx
  <2>1. CASE port.left["tx"] > 0
    BY <1>3, <1>7, <2>1 DEF IsrTx, get_int_status, TypeOK, Dirs
  <2>2. CASE ~(port.left["tx"] > 0)
    BY <1>4, <1>7, <2>2 DEF IsrTx, TypeOK, Dirs
  <2> QED
    BY <2>1, <2>2
<1>8. CASE IsrClear
  <2>1. port' \in Ports
    BY <1>8 DEF IsrClear, TypeOK, Ports
  <2> QED
    BY <1>8, <2>1 DEF IsrClear, TypeOK
<1>9. CASE UNCHANGED vars
  BY <1>9 DEF vars, TypeOK
<1> QED
  BY <1>1, <1>2, <1>5, <1>6, <1>7, <1>8, <1>9 DEF Next

(* The rest of IInv.                                                       *)
Rest ==
  /\ Claimed /\ CallState /\ HandlerState /\ Disciplined /\ Counts
  /\ CallbackAsRegistered

(* A step that leaves the counts alone, and the tasks that are setting     *)
(* them, keeps them consistent.                                            *)
LEMMA SameCounts ==
  ASSUME IInv, UNCHANGED moved,
         \A d \in Dirs : /\ port'.size[d] = port.size[d]
                         /\ port'.left[d] = port.left[d],
         \A u \in Tasks :
           task[u].pc = "left" \/ task'[u].pc \in {"left", "move"}
             => task'[u] = task[u]
  PROVE  Counts'
<1>1. \A d \in Dirs : Resizing(d)' <=> Resizing(d)
  BY DEF Resizing, InCall
<1>2. ASSUME NEW d \in Dirs, ~Resizing(d)'
      PROVE  port'.left[d] + moved'[d] = port'.size[d]
  BY <1>1, <1>2 DEF IInv, Counts
<1>3. ASSUME NEW u \in Tasks, task'[u].pc \in {"left", "move"}
      PROVE  /\ port'.size[task'[u].dir] = task'[u].n
             /\ task'[u].pc = "move" =>
                  port'.left[task'[u].dir] = task'[u].n /\ moved'[task'[u].dir] = 0
  <2>1. task'[u] = task[u] /\ task[u].dir \in Dirs
    BY <1>3 DEF IInv, TypeOK, Calls
  <2> QED
    BY <1>3, <2>1 DEF IInv, Counts
<1> QED
  BY <1>2, <1>3 DEF Counts

(* Calls that configure the port find both directions at rest.             *)
LEMMA OpenStep ==
  ASSUME HalfDuplex, IInv, TypeOK', NEW t \in Tasks, uart_open(t)
  PROVE  Rest'
<1>1. Claimed'
  BY DEF IInv, InCall, uart_open, Claimed
<1>2. CallState'
  BY DEF AllIdle, uart_open, CallState
<1>3. HandlerState'
  BY DEF IInv, uart_open, Each, ClosedPort, HandlerState
<1>4. Disciplined'
  BY DEF IInv, Dirs, uart_open, Each, ClosedPort, Disciplined
<1>5. Counts'
  BY DEF uart_open, AllIdle, Each, ClosedPort, Counts
<1>6. CallbackAsRegistered'
  BY DEF uart_open, Each, ClosedPort, CallbackAsRegistered
<1> QED
  BY <1>1, <1>2, <1>3, <1>4, <1>5, <1>6 DEF Rest

LEMMA CloseStep ==
  ASSUME HalfDuplex, IInv, TypeOK', NEW t \in Tasks, uart_close(t)
  PROVE  Rest'
<1>1. Claimed'
  BY DEF IInv, Dirs, InCall, uart_close, Claimed
<1>2. CallState'
  BY DEF AllIdle, uart_close, CallState
<1>3. HandlerState'
  BY DEF IInv, Dirs, uart_close, Claimed, HandlerState
<1>4. Disciplined'
  BY DEF IInv, uart_close, Disciplined
<1>5. Counts'
  BY SameCounts DEF uart_close, IInv, TypeOK, Ports
<1>6. CallbackAsRegistered'
  BY DEF uart_close, CallbackAsRegistered
<1> QED
  BY <1>1, <1>2, <1>3, <1>4, <1>5, <1>6 DEF Rest

LEMMA PollingStep ==
  ASSUME HalfDuplex, IInv, TypeOK', NEW t \in Tasks, uart_write_polling(t)
  PROVE  Rest'
<1>1. Claimed'
  <2>1. InCall("tx") = {}
    BY DEF uart_write_polling, Claimed, IInv, Dirs
  <2>2. /\ port'.open = port.open /\ port'.busy = port.busy
        /\ port'.async["rx"] = port.async["rx"] /\ task' = task
    BY DEF uart_write_polling, IInv, TypeOK, Ports, Dirs
  <2> QED
    BY <2>1, <2>2 DEF Claimed, IInv, Dirs, InCall
<1>2. CallState'
  BY DEF IInv, Clean, Through, uart_write_polling, CallState
<1>3. HandlerState'
  BY DEF IInv, InCall, Through, uart_write_polling, HandlerState
<1>4. Disciplined'
  BY DEF IInv, uart_write_polling, Disciplined
<1>5. Counts'
  BY SameCounts DEF uart_write_polling, IInv, TypeOK, Ports
<1>6. CallbackAsRegistered'
  BY DEF IInv, uart_write_polling, CallbackAsRegistered
<1> QED
  BY <1>1, <1>2, <1>3, <1>4, <1>5, <1>6 DEF Rest

LEMMA CallbackStep ==
  ASSUME HalfDuplex, IInv, TypeOK', NEW t \in Tasks, NEW cb,
         uart_set_callback(t, cb)
  PROVE  Rest'
<1>1. Claimed'
  BY DEF IInv, InCall, uart_set_callback, Claimed
<1>2. CallState'
  BY DEF IInv, Clean, Through, uart_set_callback, CallState
<1>3. HandlerState'
  BY DEF IInv, Dirs, uart_set_callback, Claimed, HandlerState
<1>4. Disciplined'
  BY DEF IInv, uart_set_callback, Disciplined
<1>5. Counts'
  BY SameCounts DEF uart_set_callback, IInv, TypeOK, Ports
<1>6. CallbackAsRegistered'
  BY DEF Dirs, uart_set_callback, CallbackAsRegistered
<1> QED
  BY <1>1, <1>2, <1>3, <1>4, <1>5, <1>6 DEF Rest

LEMMA IoctlStep ==
  ASSUME HalfDuplex, IInv, TypeOK', NEW t \in Tasks, NEW cmd,
         uart_ioctl(t, cmd)
  PROVE  Rest'
<1>1. Claimed'
  BY DEF IInv, InCall, Goto, uart_ioctl, Claimed
<1>2. CallState'
  BY DEF IInv, Clean, Through, Goto, uart_ioctl, CallState
<1>3. HandlerState'
  BY DEF IInv, AtRest, HalfDuplex, uart_ioctl, Claimed, HandlerState
<1>4. Disciplined'
  BY DEF TypeOK, Goto, AtRest, HalfDuplex, Dirs, uart_ioctl, Disciplined
<1>5. Counts'
  BY SameCounts DEF uart_ioctl, At, Goto, IInv, TypeOK
<1>6. CallbackAsRegistered'
  BY DEF IInv, uart_ioctl, CallbackAsRegistered
<1> QED
  BY <1>1, <1>2, <1>3, <1>4, <1>5, <1>6 DEF Rest

LEMMA LatchStep ==
  ASSUME HalfDuplex, IInv, TypeOK', NEW t \in Tasks, CloseLatch(t)
  PROVE  Rest'
<1>1. Claimed'
  BY DEF IInv, InCall, At, Return, Dirs, CloseLatch, NoCall, Disciplined,
     Claimed
<1>2. CallState'
  BY DEF IInv, Clean, Through, Return, CloseLatch, NoCall, CallState
<1>3. HandlerState'
  BY DEF IInv, At, Dirs, CloseLatch, Claimed, Disciplined, HandlerState
<1>4. Disciplined'
  BY DEF IInv, Return, CloseLatch, NoCall, Disciplined
<1>5. Counts'
  BY SameCounts DEF CloseLatch, At, Return, NoCall, IInv, TypeOK
<1>6. CallbackAsRegistered'
  BY DEF IInv, CloseLatch, CallbackAsRegistered
<1> QED
  BY <1>1, <1>2, <1>3, <1>4, <1>5, <1>6 DEF Rest

(* A call claims a direction that nobody has.                              *)
LEMMA ClaimStep ==
  ASSUME HalfDuplex, IInv, TypeOK', NEW t \in Tasks, NEW d \in Dirs,
         NEW a \in BOOLEAN, NEW n \in 1 .. MaxBytes,
         Claim(t, d, a, n)
  PROVE  Rest'
<1>1. Claimed'
  BY DEF IInv, TypeOK, Ports, InCall, Claim, Claimed
<1>2. CallState'
  BY DEF IInv, TypeOK, Clean, Through, Claim, Claimed, HandlerState,
     CallState
<1>3. HandlerState'
  BY DEF IInv, TypeOK, InCall, AtRest, HalfDuplex, Claim, Claimed,
     HandlerState
<1>4. Disciplined'
  BY DEF IInv, AtRest, HalfDuplex, Dirs, Claim, Disciplined
<1>5. Counts'
  BY SameCounts DEF Claim, At, IInv, TypeOK, Ports
<1>6. CallbackAsRegistered'
  BY DEF IInv, TypeOK, Claim, CallbackAsRegistered
<1> QED
  BY <1>1, <1>2, <1>3, <1>4, <1>5, <1>6 DEF Rest

(* The size and what is left of a transfer are set one after the other,    *)
(* by its owner only.                                                      *)
LEMMA SizeStep ==
  ASSUME HalfDuplex, IInv, TypeOK', NEW t \in Tasks, SetSize(t) \/ SetLeft(t)
  PROVE  Rest'
<1> DEFINE d == task[t].dir
<1>1. /\ d \in Dirs /\ task[t].n \in 0 .. MaxBytes /\ t \in InCall(d)
      /\ task[t].pc \in {"size", "left"}
  BY DEF SetSize, SetLeft, At, IInv, TypeOK, Calls, InCall
<1>2. (\A u \in InCall(d) : u = t) /\ port.busy[d] /\ Clean(d)
  BY <1>1 DEF IInv, Claimed, CallState
<1>3. /\ port'.open = port.open /\ port'.busy = port.busy
      /\ port'.async = port.async /\ port'.callback = port.callback
      /\ \A e \in Dirs : e # d => /\ port'.left[e] = port.left[e]
                                  /\ port'.size[e] = port.size[e]
                                  /\ moved'[e] = moved[e]
      /\ UNCHANGED <<sem, ier, dlab, isr, owed>>
  BY DEF SetSize, SetLeft, IInv, TypeOK, Ports
<1>4. /\ \A u \in Tasks : u # t => task'[u] = task[u]
      /\ \/ /\ task[t].pc = "size" /\ task'[t].pc = "left"
            /\ port'.size[d] = task[t].n
         \/ /\ task[t].pc = "left" /\ task'[t].pc = "move"
            /\ port'.size[d] = port.size[d]
            /\ port'.left[d] = task[t].n /\ moved'[d] = 0
      /\ task'[t].dir = d /\ task'[t].async = task[t].async
      /\ task'[t].n = task[t].n
  BY <1>1 DEF SetSize, SetLeft, At, Goto, IInv, TypeOK, Ports, Calls
<1>5. \A e \in Dirs : InCall(e)' = InCall(e)
  BY <1>1, <1>4 DEF InCall
<1> HIDE DEF d
<1>6. Claimed'
  BY <1>1, <1>3, <1>4, <1>5 DEF IInv, Claimed, InCall
<1>7. CallState'
  <2> SUFFICES ASSUME NEW u \in Tasks
               PROVE  /\ task'[u].pc \in {"size", "left", "move", "ier",
                                         "ierw", "clear"} =>
                           Clean(task[u].dir)'
                      /\ task'[u].pc = "ierw" => task'[u].val = {}
                      /\ task'[u].pc = "wait" => ~task'[u].async
                      /\ task'[u].pc = "clear" =>
                           /\ task'[u].dir = "rx" /\ task'[u].async
                           /\ port'.left["rx"] = 0
    BY DEF CallState, Clean, Through
  <2>1. CASE u = t
    BY <1>2, <1>3, <1>4, <2>1 DEF Clean
  <2>2. CASE u # t
    <3>1. task'[u] = task[u] /\ task[u].dir \in Dirs
      BY <1>4, <2>2 DEF IInv, TypeOK, Calls
    <3>2. task[u].pc = "clear" => task[u].dir # d
      BY <1>2, <2>2, <3>1 DEF InCall
    <3> QED
      BY <1>3, <3>1, <3>2 DEF IInv, CallState, Clean, Through, Dirs
  <2> QED
    BY <2>1, <2>2
<1>8. HandlerState'
  <2>1. \A e \in Dirs : sem[e] = 1 \/ isr = e => e # d
    BY <1>2 DEF Clean
  <2>2. \A e \in Dirs : (\E u \in InCall(e) : task[u].pc = "wait") =>
                          (\E u \in InCall(e)' : task'[u].pc = "wait")
    BY <1>4, <1>5 DEF InCall
  <2>3. (\A e \in ier : port.busy[e] /\ sem[e] = 0 /\ isr # e)'
    BY <1>3 DEF IInv, HandlerState
  <2>4. (\A e \in Dirs : sem[e] = 1 =>
            Through(e) /\ \E u \in InCall(e) : task[u].pc = "wait")'
    BY <1>3, <2>1, <2>2 DEF IInv, HandlerState, Through
  <2>5. (isr \in Dirs =>
           /\ port.busy[isr] /\ port.async[isr]
           /\ InCall(isr) = {} /\ Through(isr))'
    BY <1>3, <1>5, <2>1 DEF IInv, HandlerState, Through, InCall
  <2>6. (\A e \in Dirs : port.busy[e] =>
           port.open /\ (port.async[e] \/ InCall(e) # {}))'
    BY <1>3, <1>5 DEF IInv, HandlerState, InCall
  <2> QED
    BY <2>3, <2>4, <2>5, <2>6 DEF HandlerState
<1>9. Disciplined'
  <2>1. \A u \in Tasks : task'[u].pc = "latch" <=> task[u].pc = "latch"
    BY <1>4
  <2> QED
    BY <1>3, <2>1 DEF IInv, Disciplined
<1>10. Counts'
  <2>1. ASSUME NEW e \in Dirs, ~Resizing(e)'
        PROVE  port'.left[e] + moved'[e] = port'.size[e]
    <3>1. CASE e = d
      <4>1. t \in InCall(e)'
        BY <1>1, <1>5, <3>1
      <4>2. task[t].pc = "left"
        BY <1>4, <2>1, <3>1, <4>1 DEF Resizing
      <4> QED
        BY <1>1, <1>4, <3>1, <4>2 DEF IInv, Counts, d
    <3>2. CASE e # d
      <4>1. ~Resizing(e)
        BY <1>1, <1>4, <1>5, <2>1, <3>2 DEF Resizing, InCall, d
      <4> QED
        BY <1>3, <3>2, <4>1 DEF IInv, Counts
    <3> QED
      BY <3>1, <3>2
  <2>2. ASSUME NEW u \in Tasks, task'[u].pc \in {"left", "move"}
        PROVE  /\ port'.size[task'[u].dir] = task'[u].n
               /\ task'[u].pc = "move" =>
                    /\ port'.left[task'[u].dir] = task'[u].n
                    /\ moved'[task'[u].dir] = 0
    <3>1. CASE u = t
      BY <1>1, <1>4, <3>1 DEF IInv, Counts, d
    <3>2. CASE u # t
      <4>1. task'[u] = task[u] /\ task[u].dir \in Dirs
        BY <1>4, <3>2 DEF IInv, TypeOK, Calls
      <4>2. task[u].dir # d
        BY <1>2, <2>2, <3>2, <4>1 DEF InCall
      <4> QED
        BY <1>3, <2>2, <4>1, <4>2 DEF IInv, Counts
    <3> QED
      BY <3>1, <3>2
  <2> QED
    BY <2>1, <2>2 DEF Counts
<1>11. CallbackAsRegistered'
  BY <1>3 DEF IInv, CallbackAsRegistered
<1> QED
  BY <1>6, <1>7, <1>8, <1>9, <1>10, <1>11 DEF Rest

(* The first bytes of a transfer: none, some or all are left for the       *)
(* handler, and a synchronous read that got them all posts to itself.      *)
LEMMA MoveStep ==
  ASSUME HalfDuplex, IInv, TypeOK', NEW t \in Tasks, Move(t)
  PROVE  Rest'
<1> DEFINE d == task[t].dir  n == task[t].n  k == Counted(d, n)
           call == task[t]
<1>1. /\ d \in Dirs /\ n \in 0 .. MaxBytes /\ call.pc = "move"
      /\ t \in InCall(d) /\ call.async \in BOOLEAN
  BY DEF Move, At, IInv, TypeOK, Calls, InCall
<1>2. /\ port.open /\ port.busy[d] /\ port.async[d] = call.async
      /\ \A u \in InCall(d) : u = t
      /\ Clean(d)
  BY <1>1 DEF IInv, Claimed, CallState
<1>3. ~dlab
  BY <1>1, <1>2 DEF IInv, Disciplined, Dirs
<1>4. k \in 0 .. n /\ Passed(d, n) = k
  BY <1>1, <1>3, Moves DEF IInv
<1>5. /\ port' = [port EXCEPT !.left[d] = n - k]
      /\ moved' = [moved EXCEPT ![d] = k]
      /\ UNCHANGED <<ier, dlab, isr, owed>>
      /\ port.size[d] = n
  BY <1>1, <1>4 DEF Move, IInv, Counts
<1>6. \/ /\ task' = [task EXCEPT ![t].pc = "ier"] /\ sem' = sem
      \/ /\ task' = [task EXCEPT ![t].pc = "clear"] /\ sem' = sem
         /\ call.async /\ d = "rx" /\ n - k = 0
      \/ /\ task' = [task EXCEPT ![t].pc = "wait"]
         /\ sem' = [sem EXCEPT ![d] = 1]
         /\ ~call.async /\ n - k = 0
  <2>1. CASE ~(d = "rx" /\ k = n)
    BY <1>1, <2>1 DEF Move, Goto
  <2>2. CASE d = "rx" /\ k = n /\ call.async
    BY <1>1, <2>2 DEF Move, Goto
  <2>3. CASE d = "rx" /\ k = n /\ ~call.async
    BY <1>1, <1>2, <2>3 DEF Move, Goto, Clean
  <2> QED
    BY <2>1, <2>2, <2>3
<1>7. \E loc \in {"ier", "clear", "wait"} :
        /\ \A u \in Tasks : u # t => task'[u] = task[u]
        /\ task'[t].pc = loc /\ task'[t].dir = d /\ task'[t].async = call.async
        /\ \A e \in Dirs : e # d =>
             /\ sem'[e] = sem[e] /\ port'.left[e] = port.left[e]
        /\ loc # "wait" => sem'[d] = 0
        /\ loc = "clear" => call.async /\ d = "rx"
        /\ loc = "wait" => ~call.async
        /\ loc # "ier" => port'.left[d] = 0
  BY <1>1, <1>2, <1>5, <1>6 DEF IInv, TypeOK, Ports, Calls, Clean, d, call
<1>8. /\ port'.open = port.open /\ port'.busy = port.busy
      /\ port'.async = port.async
      /\ UNCHANGED <<ier, dlab, isr, owed>>
  BY <1>5
<1>9. \A e \in Dirs : InCall(e)' = InCall(e)
  BY <1>1, <1>7 DEF InCall, call
<1> HIDE DEF d, n, k, call
<1>10. Claimed'
  BY <1>1, <1>2, <1>7, <1>8, <1>9 DEF IInv, Claimed, InCall
<1>11. CallState'
  <2> SUFFICES ASSUME NEW u \in Tasks
               PROVE  /\ task'[u].pc \in {"size", "left", "move", "ier", "ierw",
                                   "clear"} =>
                           Clean(task[u].dir)'
                      /\ task'[u].pc = "ierw" => task'[u].val = {}
                      /\ task'[u].pc = "wait" => ~task'[u].async
                      /\ task'[u].pc = "clear" =>
                           /\ task'[u].dir = "rx" /\ task'[u].async
                           /\ port'.left["rx"] = 0
    BY DEF CallState, Clean, Through
  <2>1. CASE u = t
    BY <1>1, <1>2, <1>7, <1>8, <2>1 DEF Clean
  <2>2. CASE u # t
    <3>1. task'[u] = task[u] /\ task[u].dir \in Dirs
      BY <1>7, <2>2 DEF IInv, TypeOK, Calls
    <3>2. task[u].pc \in {"size", "left", "move", "ier", "ierw",
                                   "clear"} => task[u].dir # d
      BY <1>2, <2>2, <3>1 DEF InCall
    <3> QED
      BY <1>7, <1>8, <3>1, <3>2 DEF IInv, CallState, Clean, Through
  <2> QED
    BY <2>1, <2>2
<1>12. HandlerState'
  <2>1. \A e \in Dirs : e \in ier => port.busy[e] /\ sem'[e] = 0 /\ isr # e
    BY <1>1, <1>2, <1>7 DEF IInv, HandlerState, Clean
  <2>2. ASSUME NEW e \in Dirs, sem'[e] = 1
        PROVE  port'.left[e] = 0 /\ \E u \in InCall(e) : task'[u].pc = "wait"
    BY <1>1, <1>2, <1>7, <2>2 DEF IInv, HandlerState, Clean, Through, InCall
  <2>3. isr \in Dirs =>
          /\ port.busy[isr] /\ port.async[isr]
          /\ InCall(isr) = {} /\ port'.left[isr] = 0
    BY <1>1, <1>2, <1>7 DEF IInv, HandlerState, Clean, Through
  <2>4. \A e \in Dirs : port.busy[e] =>
          port.open /\ (port.async[e] \/ InCall(e) # {})
    BY DEF IInv, HandlerState
  <2>5. ier \subseteq Dirs
    BY DEF IInv, TypeOK
  <2>6. (\A e \in ier : port.busy[e] /\ sem[e] = 0 /\ isr # e)'
    BY <1>8, <2>1, <2>5
  <2>7. (\A e \in Dirs : sem[e] = 1 =>
            Through(e) /\ \E u \in InCall(e) : task[u].pc = "wait")'
    BY <1>9, <2>2 DEF Through, InCall
  <2>8. (isr \in Dirs =>
           /\ port.busy[isr] /\ port.async[isr]
           /\ InCall(isr) = {} /\ Through(isr))'
    BY <1>8, <1>9, <2>3 DEF Through, InCall
  <2>9. (\A e \in Dirs : port.busy[e] =>
           port.open /\ (port.async[e] \/ InCall(e) # {}))'
    BY <1>8, <1>9, <2>4 DEF InCall
  <2> QED
    BY <2>6, <2>7, <2>8, <2>9 DEF HandlerState
<1>13. Disciplined'
  <2>1. \A u \in Tasks : task'[u].pc = "latch" <=> task[u].pc = "latch"
    BY <1>1, <1>7 DEF call
  <2> QED
    BY <1>8, <2>1 DEF IInv, Disciplined
<1>14. Counts'
  <2>1. ASSUME NEW e \in Dirs, ~Resizing(e)'
        PROVE  port'.left[e] + moved'[e] = port'.size[e]
    <3>1. CASE e = d
      BY <1>1, <1>4, <1>5, <3>1 DEF IInv, TypeOK, Ports
    <3>2. CASE e # d
      <4>1. ~Resizing(e)
        BY <1>1, <1>7, <1>9, <2>1 DEF Resizing, InCall, call
      <4> QED
        BY <1>5, <3>2, <4>1 DEF IInv, TypeOK, Ports, Counts
    <3> QED
      BY <3>1, <3>2
  <2>2. ASSUME NEW u \in Tasks, task'[u].pc \in {"left", "move"}
        PROVE  /\ port'.size[task'[u].dir] = task'[u].n
               /\ task'[u].pc = "move" =>
                    /\ port'.left[task'[u].dir] = task'[u].n
                    /\ moved'[task'[u].dir] = 0
    <3>1. task'[u] = task[u] /\ u # t /\ task[u].dir \in Dirs
      BY <1>7, <2>2 DEF IInv, TypeOK, Calls
    <3>2. task[u].dir # d
      BY <1>2, <2>2, <3>1 DEF InCall
    <3> QED
      BY <1>5, <2>2, <3>1, <3>2 DEF IInv, TypeOK, Ports, Counts
  <2> QED
    BY <2>1, <2>2 DEF Counts
<1>15. CallbackAsRegistered'
  BY <1>5 DEF IInv, CallbackAsRegistered
<1> QED
  BY <1>10, <1>11, <1>12, <1>13, <1>14, <1>15 DEF Rest

(* The remaining steps of a call: an asynchronous read that got all its    *)
(* bytes gives its direction back; the others enable the interrupt and     *)
(* wait.                                                                   *)
LEMMA ReadClearStep ==
  ASSUME HalfDuplex, IInv, TypeOK', NEW t \in Tasks, ReadClear(t)
  PROVE  Rest'
<1>1. Claimed'
  BY DEF IInv, TypeOK, InCall, At, Return, Dirs, ReadClear, NoCall,
     CallState, Disciplined, Claimed
<1>2. CallState'
  BY DEF IInv, Clean, Through, Return, ReadClear, NoCall, CallState
<1>3. HandlerState'
  BY DEF IInv, TypeOK, Ports, InCall, Clean, At, Dirs, ReadClear, Claimed,
     CallState, Disciplined, HandlerState
<1>4. Disciplined'
  BY DEF IInv, At, Return, ReadClear, NoCall, Disciplined
<1>5. Counts'
  BY SameCounts DEF ReadClear, At, Return, NoCall, IInv, TypeOK, Ports
<1>6. CallbackAsRegistered'
  BY DEF IInv, ReadClear, CallbackAsRegistered
<1> QED
  BY <1>1, <1>2, <1>3, <1>4, <1>5, <1>6 DEF Rest

LEMMA EnableReadStep ==
  ASSUME HalfDuplex, IInv, TypeOK', NEW t \in Tasks, EnableRead(t)
  PROVE  Rest'
<1>1. Claimed'
  BY DEF IInv, TypeOK, InCall, At, EnableRead, Claimed
<1>2. CallState'
  BY DEF IInv, TypeOK, Calls, InCall, Clean, At, Dirs, EnableRead, Claimed,
     HandlerState, Disciplined, CallState
<1>3. HandlerState'
  BY DEF IInv, TypeOK, InCall, Through, At, EnableRead, HandlerState
<1>4. Disciplined'
  BY DEF IInv, TypeOK, At, EnableRead, Disciplined
<1>5. Counts'
  BY SameCounts DEF EnableRead, At, IInv, TypeOK
<1>6. CallbackAsRegistered'
  BY DEF IInv, EnableRead, CallbackAsRegistered
<1> QED
  BY <1>1, <1>2, <1>3, <1>4, <1>5, <1>6 DEF Rest

LEMMA EnableWriteStep ==
  ASSUME HalfDuplex, IInv, TypeOK', NEW t \in Tasks, EnableWrite(t)
  PROVE  Rest'
<1>1. Claimed'
  BY DEF IInv, TypeOK, Calls, InCall, At, Goto, Return, Dirs, EnableWrite,
     NoCall, Claimed
<1>2. CallState'
  BY DEF IInv, TypeOK, Calls, InCall, At, Goto, Return, Dirs, EnableWrite,
     NoCall, Claimed, Disciplined, CallState
<1>3. HandlerState'
  <2>1. /\ task[t].pc = "ierw" /\ task[t].dir \in Dirs
        /\ task[t].val = {} /\ Clean(task[t].dir)
        /\ t \in InCall(task[t].dir)
    BY DEF IInv, TypeOK, Calls, At, EnableWrite, CallState, InCall
  <2>2. port.busy[task[t].dir] /\ ier' \in {ier, {task[t].dir}}
    BY <2>1 DEF IInv, Claimed, EnableWrite, SetIer
  <2>3. (\A d \in ier : port.busy[d] /\ sem[d] = 0 /\ isr # d)'
    BY <2>1, <2>2 DEF IInv, HandlerState, EnableWrite, Clean
  <2>4. \A d \in Dirs, u \in Tasks :
          task[u].pc = "wait" => (u \in InCall(d)' <=> u \in InCall(d))
                                 /\ task'[u] = task[u]
    BY <2>1 DEF EnableWrite, InCall, Goto, Return, IInv, TypeOK
  <2>5. (\A d \in Dirs : sem[d] = 1 =>
            Through(d) /\ \E u \in InCall(d) : task[u].pc = "wait")'
    BY <2>4 DEF IInv, HandlerState, EnableWrite, Through, InCall
  <2>6. \A d \in Dirs : /\ InCall(d) = {} => InCall(d)' = {}
                        /\ port.busy[d] /\ ~port.async[d] => InCall(d)' # {}
    <3> SUFFICES ASSUME NEW d \in Dirs
                 PROVE  /\ InCall(d) = {} => InCall(d)' = {}
                        /\ port.busy[d] /\ ~port.async[d] => InCall(d)' # {}
      OBVIOUS
    <3>1. InCall(d) = {} => InCall(d)' = {}
      BY <2>1 DEF EnableWrite, InCall, Goto, Return, NoCall, IInv, TypeOK,
         Calls
    <3>2. ASSUME port.busy[d], ~port.async[d] PROVE InCall(d)' # {}
      <4>1. PICK u \in InCall(d) : ~task[u].async
        BY <3>2 DEF IInv, HandlerState, Claimed
      <4>2. u = t \/ task'[u] = task[u]
        BY <4>1 DEF EnableWrite, Goto, Return, IInv, TypeOK, InCall
      <4>3. u = t => task'[u].pc = "wait" /\ task'[u].dir = task[u].dir
        BY <4>1 DEF EnableWrite, Goto, IInv, TypeOK, Calls
      <4>4. u \in InCall(d)'
        BY <4>1, <4>2, <4>3 DEF InCall
      <4> QED
        BY <4>4
    <3> QED
      BY <3>1, <3>2
  <2>7. (isr \in Dirs =>
           /\ port.busy[isr] /\ port.async[isr]
           /\ InCall(isr) = {} /\ Through(isr))'
    BY <2>6 DEF IInv, HandlerState, EnableWrite, Through, InCall
  <2>8. (\A d \in Dirs : port.busy[d] =>
           port.open /\ (port.async[d] \/ InCall(d) # {}))'
    BY <2>6 DEF IInv, TypeOK, Ports, HandlerState, EnableWrite, InCall
  <2> QED
    BY <2>3, <2>5, <2>7, <2>8 DEF HandlerState
<1>4. Disciplined'
  <2>1. \A u \in Tasks : task'[u].pc = "latch" <=> task[u].pc = "latch"
    BY DEF At, Goto, Return, EnableWrite, NoCall, IInv, TypeOK, Calls
  <2>2. port'.busy = port.busy /\ dlab' = dlab
    BY DEF EnableWrite
  <2>3. Disciplined
    BY DEF IInv
  <2> QED
    BY <2>1, <2>2, <2>3 DEF Disciplined
<1>5. Counts'
  <2>1. \A u \in Tasks :
          task[u].pc = "left" \/ task'[u].pc \in {"left", "move"}
            => task'[u] = task[u]
    BY DEF EnableWrite, At, Goto, Return, NoCall, IInv, TypeOK, Calls
  <2>2. UNCHANGED <<port, moved>>
    BY DEF EnableWrite
  <2> QED
    BY <2>1, <2>2, SameCounts
<1>6. CallbackAsRegistered'
  BY DEF IInv, EnableWrite, CallbackAsRegistered
<1> QED
  BY <1>1, <1>2, <1>3, <1>4, <1>5, <1>6 DEF Rest

LEMMA WaitStep ==
  ASSUME HalfDuplex, IInv, TypeOK', NEW t \in Tasks, Wait(t)
  PROVE  Rest'
<1>1. Claimed'
  BY DEF IInv, TypeOK, InCall, At, Return, Dirs, Wait, NoCall, Disciplined,
     Claimed
<1>2. CallState'
  BY DEF IInv, Clean, Through, Return, Wait, NoCall, CallState
<1>3. HandlerState'
  BY DEF IInv, TypeOK, Ports, Dirs, Wait, Claimed, Disciplined, HandlerState
<1>4. Disciplined'
  BY DEF IInv, At, Return, Wait, NoCall, Disciplined
<1>5. Counts'
  BY SameCounts DEF Wait, At, Return, NoCall, IInv, TypeOK, Ports
<1>6. CallbackAsRegistered'
  BY DEF IInv, Wait, CallbackAsRegistered
<1> QED
  BY <1>1, <1>2, <1>3, <1>4, <1>5, <1>6 DEF Rest

(* The callback has run: the handler clears the flags of its direction.    *)
LEMMA IsrClearStep ==
  ASSUME HalfDuplex, IInv, TypeOK', IsrClear
  PROVE  Rest'
<1>1. Claimed'
  BY DEF IInv, TypeOK, InCall, Dirs, IsrClear, HandlerState, Disciplined,
     Claimed
<1>2. CallState'
  BY DEF IInv, TypeOK, Calls, Clean, Through, Dirs, IsrClear, CallState
<1>3. HandlerState'
  BY DEF IInv, TypeOK, Ports, Dirs, IsrClear, Claimed, Disciplined,
     HandlerState
<1>4. Disciplined'
  BY DEF IInv, IsrClear, Disciplined
<1>5. Counts'
  BY SameCounts DEF IsrClear, IInv, TypeOK, Ports
<1>6. CallbackAsRegistered'
  BY DEF IInv, IsrClear, CallbackAsRegistered
<1> QED
  BY <1>1, <1>2, <1>3, <1>4, <1>5, <1>6 DEF Rest

(* The handler moves k bytes of a direction and, if none are left, may     *)
(* complete the transfer.                                                  *)
Served(d, k) ==
  /\ port'.open = port.open /\ port'.busy = port.busy
  /\ port'.async = port.async
  /\ port'.size = port.size /\ port'.callback = port.callback
  /\ \A e \in Dirs : /\ port'.left[e] = port.left[e] - (IF e = d THEN k ELSE 0)
                     /\ moved'[e] = moved[e] + (IF e = d THEN k ELSE 0)
  /\ UNCHANGED <<dlab, task, owed>>

(* Served by the handler, a direction keeps IInv, whether or not its       *)
(* transfer is complete.                                                   *)
LEMMA Serve ==
  ASSUME HalfDuplex, IInv, TypeOK', NEW d \in ier, isr = "idle",
         NEW k \in 0 .. port.left[d], Served(d, k),
         \/ UNCHANGED <<sem, ier, isr>>
         \/ port'.left[d] = 0 /\ IsrComplete(d)
  PROVE  Rest'
<1>1. d \in Dirs /\ port.busy[d] /\ port.open /\ ~dlab /\ sem[d] = 0
  BY DEF IInv, TypeOK, HandlerState, Disciplined, Dirs
<1>2. \A t \in InCall(d) : task[t].pc = "wait" /\ ~task[t].async
  BY <1>1 DEF IInv, TypeOK, Calls, CallState, Clean, InCall
<1>3. \A e \in Dirs : InCall(e)' = InCall(e)
  BY DEF InCall, Served
<1>4. \A e \in Dirs : Through(e) => Through(e)'
  BY <1>1 DEF Through, Served, IInv, TypeOK, Ports
<1>5. /\ Claimed' /\ Disciplined' /\ CallbackAsRegistered'
  BY <1>3 DEF IInv, Claimed, Disciplined, CallbackAsRegistered, Served, InCall
<1>6. Counts'
  <2>1. ASSUME NEW e \in Dirs, ~Resizing(e)'
        PROVE  port'.left[e] + moved'[e] = port'.size[e]
    <3>1. ~Resizing(e)
      BY <1>3, <2>1 DEF Resizing, Served
    <3> QED
      BY <1>1, <3>1 DEF IInv, TypeOK, Ports, Counts, Served
  <2>2. ASSUME NEW u \in Tasks, task[u].pc \in {"left", "move"}
        PROVE  task[u].dir \in Dirs \ {d}
    BY <1>2, <2>2 DEF IInv, TypeOK, Calls, InCall
  <2>3. \A e \in Dirs \ {d} :
          port'.left[e] = port.left[e] /\ moved'[e] = moved[e]
    BY DEF Served, IInv, TypeOK, Ports
  <2> QED
    BY <2>1, <2>2, <2>3 DEF IInv, Counts, Served
<1>7. CASE UNCHANGED <<sem, ier, isr>>
  <2>1. CallState'
    BY <1>4, <1>7 DEF IInv, CallState, Clean, Served, Dirs
  <2>2. HandlerState'
    BY <1>3, <1>4, <1>7 DEF IInv, TypeOK, HandlerState, Served, InCall
  <2> QED
    BY <1>5, <1>6, <2>1, <2>2 DEF Rest
<1>8. CASE port'.left[d] = 0 /\ IsrComplete(d)
  <2>1. /\ ier' = ier \ {d} /\ port'.left[d] = 0
        /\ \/ port.async[d] /\ isr' = d /\ sem' = sem
           \/ /\ ~port.async[d] /\ sem' = [sem EXCEPT ![d] = 1]
              /\ isr' = "idle"
    BY <1>1, <1>8 DEF IsrComplete, SetIer
  <2>2. port.async[d] => InCall(d) = {}
    BY <1>1, <1>2 DEF IInv, Claimed
  <2>3. ~port.async[d] => \E t \in InCall(d) : task[t].pc = "wait"
    BY <1>1, <1>2 DEF IInv, HandlerState
  <2>4. CallState'
    <3> SUFFICES ASSUME NEW t \in Tasks
                 PROVE  /\ task[t].pc \in {"size", "left", "move", "ier", "ierw",
                                   "clear"} =>
                             Clean(task[t].dir)'
                        /\ task[t].pc = "clear" => Through("rx")'
      BY DEF Served, IInv, CallState, Clean
    <3>1. task[t].pc \in {"size", "left", "move", "ier", "ierw",
                                   "clear"} =>
            task[t].dir \in Dirs \ {d} /\ Clean(task[t].dir)
      BY <1>2 DEF IInv, TypeOK, Calls, CallState, InCall
    <3>2. task[t].pc = "clear" => Through("rx")
      BY DEF IInv, CallState
    <3> QED
      BY <1>4, <2>1, <3>1, <3>2 DEF Clean, Served, Dirs, IInv, TypeOK
  <2>5. (\A e \in ier : port.busy[e] /\ sem[e] = 0 /\ isr # e)'
    BY <1>1, <2>1 DEF IInv, TypeOK, HandlerState, Served
  <2>6. (\A e \in Dirs : sem[e] = 1 =>
            Through(e) /\ \E u \in InCall(e) : task[u].pc = "wait")'
    BY <1>1, <1>3, <1>4, <2>1, <2>3
    DEF IInv, TypeOK, HandlerState, Served, Through, InCall
  <2>7. (isr \in Dirs =>
           /\ port.busy[isr] /\ port.async[isr]
           /\ InCall(isr) = {} /\ Through(isr))'
    BY <1>1, <1>3, <2>1, <2>2 DEF Through, InCall, Served, Dirs
  <2>8. (\A e \in Dirs : port.busy[e] =>
           port.open /\ (port.async[e] \/ InCall(e) # {}))'
    BY <1>3 DEF InCall, Served, IInv, HandlerState
  <2> QED
    BY <1>5, <1>6, <2>4, <2>5, <2>6, <2>7, <2>8 DEF Rest, HandlerState
<1> QED
  BY <1>7, <1>8

(* With DLAB clear, the handler counts exactly the bytes it moves.         *)
LEMMA IsrMoves ==
  ASSUME IInv, TypeOK', NEW d \in ier, isr = "idle", IsrMove(d),
         UNCHANGED <<dlab, task, owed>>
  PROVE  /\ Served(d, Counted(d, port.left[d]))
         /\ Counted(d, port.left[d]) \in 0 .. port.left[d]
<1> DEFINE n == port.left[d]  k == Counted(d, n)
<1>1. d \in Dirs /\ ~dlab /\ n \in 0 .. MaxBytes
  BY DEF IInv, TypeOK, Ports, HandlerState, Disciplined, Dirs
<1>2. k \in 0 .. n /\ Passed(d, n) = k
  BY <1>1, Moves DEF IInv
<1>3. /\ port' = [port EXCEPT !.left[d] = @ - k]
      /\ moved' = [moved EXCEPT ![d] = @ + k]
  BY <1>2 DEF IsrMove
<1> HIDE DEF n, k
<1>4. \A e \in Dirs :
        /\ port'.left[e] = port.left[e] - (IF e = d THEN k ELSE 0)
        /\ moved'[e] = moved[e] + (IF e = d THEN k ELSE 0)
  BY <1>1, <1>2, <1>3 DEF IInv, TypeOK, Ports
<1>5. Served(d, k)
  BY <1>3, <1>4 DEF Served, IInv, TypeOK, Ports
<1> QED
  BY <1>2, <1>5 DEF n, k

(* The receive and the transmit half of the handler.                       *)
LEMMA IsrSteps ==
  ASSUME HalfDuplex, IInv, TypeOK', IsrRx \/ IsrTx
  PROVE  Rest'
<1>1. CASE IsrRx
  <2>1. "rx" \in ier /\ isr = "idle"
    BY <1>1 DEF IsrRx, get_int_status
  <2>2. /\ Served("rx", Counted("rx", port.left["rx"]))
        /\ Counted("rx", port.left["rx"]) \in 0 .. port.left["rx"]
    BY <1>1, <2>1, IsrMoves DEF IsrRx
  <2>3. \/ UNCHANGED <<sem, ier, isr>>
        \/ port'.left["rx"] = 0 /\ IsrComplete("rx")
    BY <1>1 DEF IsrRx
  <2> QED
    BY <2>1, <2>2, <2>3, Serve
<1>2. CASE IsrTx
  <2>1. "tx" \in ier /\ isr = "idle"
    BY <1>2 DEF IsrTx, get_int_status
  <2>2. CASE port.left["tx"] > 0
    <3>1. IsrMove("tx") /\ UNCHANGED <<sem, ier, isr>>
      BY <1>2, <2>2 DEF IsrTx
    <3>2. /\ Served("tx", Counted("tx", port.left["tx"]))
          /\ Counted("tx", port.left["tx"]) \in 0 .. port.left["tx"]
      BY <1>2, <2>1, <3>1, IsrMoves DEF IsrTx
    <3> QED
      BY <2>1, <3>1, <3>2, Serve
  <2>3. CASE ~(port.left["tx"] > 0)
    <3>1. port.left["tx"] = 0
      BY <2>3 DEF IInv, TypeOK, Ports, Dirs
    <3>2. IsrComplete("tx") /\ UNCHANGED <<port, moved, fifo>>
      BY <1>2, <2>3 DEF IsrTx
    <3>3. Served("tx", 0)
      <4>1. \A e \in Dirs : port.left[e] \in Nat /\ moved[e] \in Nat
        BY DEF IInv, TypeOK, Ports
      <4>2. \A e \in Dirs :
              /\ port.left[e] = port.left[e] - (IF e = "tx" THEN 0 ELSE 0)
              /\ moved[e] = moved[e] + (IF e = "tx" THEN 0 ELSE 0)
        BY <4>1
      <4> QED
        BY <1>2, <3>2, <4>2 DEF IsrTx, Served
    <3> QED
      BY <2>1, <3>1, <3>2, <3>3, Serve
  <2> QED
    BY <2>2, <2>3
<1> QED
  BY <1>1, <1>2

(* The line moves bytes of the FIFOs only.                                 *)
LEMMA StutterStep ==
  ASSUME IInv, UNCHANGED <<port, sem, ier, dlab, isr, task, moved, owed>>
  PROVE  Rest'
BY DEF IInv, Rest, Claimed, CallState, HandlerState, Disciplined, Counts,
       CallbackAsRegistered, InCall, Clean, Through, Resizing

(* Every step keeps IInv.                                                  *)
LEMMA NextIInv == HalfDuplex /\ IInv /\ [Next]_vars => IInv'
<1> SUFFICES ASSUME HalfDuplex, IInv, [Next]_vars PROVE IInv'
  OBVIOUS
<1>1. TypeOK'
  BY NextTypeOK
<1>2. ASSUME NEW t \in Tasks, Call(t) PROVE Rest'
  <2>1. CASE uart_open(t) \/ uart_close(t) \/ uart_write_polling(t)
    BY <1>1, <2>1, OpenStep, CloseStep, PollingStep
  <2>2. CASE \E cb \in {t, None} : uart_set_callback(t, cb)
    BY <1>1, <2>2, CallbackStep
  <2>3. CASE \E cmd \in {"GET_CONFIG", "SET_CONFIG"} : uart_ioctl(t, cmd)
    BY <1>1, <2>3, IoctlStep
  <2>4. ASSUME NEW n \in 1 .. MaxBytes, NEW d \in Dirs, NEW a \in BOOLEAN,
               Claim(t, d, a, n)
        PROVE  Rest'
    BY <1>1, <2>4, ClaimStep
  <2> QED
    BY <1>2, <2>1, <2>2, <2>3, <2>4
    DEF Call, uart_write_sync, uart_write_async, uart_read_sync,
        uart_read_async, Dirs
<1>3. ASSUME NEW t \in Tasks, Step(t) PROVE Rest'
  BY <1>1, <1>3, LatchStep, SizeStep, MoveStep, ReadClearStep, EnableReadStep,
     EnableWriteStep, WaitStep DEF Step
<1>4. ASSUME IsrRx \/ IsrTx PROVE Rest'
  BY <1>1, <1>4, IsrSteps
<1>5. ASSUME IsrClear PROVE Rest'
  BY <1>1, <1>5, IsrClearStep
<1>6. ASSUME Drain \/ Receive \/ UNCHANGED vars PROVE Rest'
  BY <1>6, StutterStep DEF Drain, Receive, vars
<1>7. Rest'
  BY <1>2, <1>3, <1>4, <1>5, <1>6 DEF Next
<1> QED
  BY <1>1, <1>7 DEF IInv, Rest

-----------------------------------------------------------------------------
(* Used in one direction at a time, the driver keeps IInv: a call owns its *)
(* direction, and every post, enabled interrupt and pending clearing of    *)
(* flags belongs to the transfer in progress.                              *)
THEOREM Invariance ==
  ASSUME HalfDuplex
  PROVE  Spec => []IInv
<1>1. Init => IInv
  BY InitIInv
<1>2. IInv /\ [Next]_vars => IInv'
  BY NextIInv
<1> QED
  BY <1>1, <1>2, PTL DEF Spec

(* The busy flags tx_is_busy and rx_is_busy stand for one transfer each.   *)
THEOREM OneOwner ==
  ASSUME HalfDuplex
  PROVE  Spec => []BusyHasOwner
<1>1. IInv => BusyHasOwner
  <2> SUFFICES ASSUME IInv, port.open, NEW d \in Dirs
               PROVE  /\ Cardinality(InCall(d)) <= 1
                      /\ port.busy[d] <=> (InCall(d) # {} \/ Handed(d))
    BY DEF BusyHasOwner
  <2>1. Cardinality(InCall(d)) <= 1
    <3>1. CASE InCall(d) = {}
      BY <3>1, FS_EmptySet
    <3>2. CASE InCall(d) # {}
      <4>1. PICK t \in InCall(d) : TRUE
        BY <3>2
      <4>2. InCall(d) = {t}
        BY <4>1 DEF IInv, Claimed
      <4>3. Cardinality({t}) = 1
        BY FS_Singleton
      <4> QED
        BY <4>2, <4>3
    <3> QED
      BY <3>1, <3>2
  <2>2. port.busy[d] <=> (InCall(d) # {} \/ Handed(d))
    BY DEF IInv, Claimed, HandlerState, Handed
  <2> QED
    BY <2>1, <2>2
<1> QED
  BY <1>1, Invariance, PTL

(* UART_GET_TX_NBYTES and UART_GET_RX_NBYTES report what passed the FIFO,  *)
(* modulo 2^16, after a transfer and in its callback, and no more than     *)
(* that at any other moment but the one in which the size is set.          *)
THEOREM CountsExact ==
  ASSUME HalfDuplex
  PROVE  Spec => []NBytesExact
<1>1. IInv => NBytesExact
  <2> SUFFICES ASSUME IInv, NEW d \in Dirs
               PROVE  /\ ~port.busy[d] \/ InCallback(d) =>
                           Reported(d) = moved[d] % CountRange
                      /\ ~Resizing(d) => Reported(d) <= moved[d]
    BY DEF NBytesExact
  <2>1. ~port.busy[d] \/ InCallback(d) => ~Resizing(d)
    BY DEF IInv, Claimed, HandlerState, InCallback, Resizing
  <2>2. ASSUME ~Resizing(d) PROVE Reported(d) = moved[d] % CountRange
    <3>1. /\ port.left[d] \in Nat /\ moved[d] \in Nat
          /\ port.size[d] = port.left[d] + moved[d]
      BY <2>2 DEF IInv, TypeOK, Ports, Counts
    <3>2. port.size[d] - port.left[d] = moved[d]
      BY <3>1
    <3> QED
      BY <3>2 DEF Reported
  <2>3. moved[d] \in Nat /\ CountRange \in Nat \ {0}
    BY UartAssumption DEF IInv, TypeOK
  <2>4. moved[d] % CountRange <= moved[d]
    BY <2>3, Shrinks
  <2> QED
    BY <2>1, <2>2, <2>4
<1> QED
  BY <1>1, Invariance, PTL

(* The callback run for a transfer is the one registered when it began.    *)
THEOREM CallbackKept ==
  ASSUME HalfDuplex
  PROVE  Spec => []CallbackAsRegistered
<1>1. IInv => CallbackAsRegistered
  BY DEF IInv
<1> QED
  BY <1>1, Invariance, PTL

(* No transfer is reported complete before all its bytes have passed the   *)
(* FIFO, by a return of a synchronous call or a callback.                  *)
THEOREM Completion ==
  ASSUME HalfDuplex
  PROVE  Spec => DoneMeansMoved
<1> DEFINE Good == \A d \in Dirs :
                     port.open /\ port.busy[d] /\ ~port'.busy[d]
                       => port.left[d] = 0 /\ moved[d] = port.size[d]
<1>1. IInv /\ [Next]_vars => [Good]_vars
  <2> SUFFICES ASSUME IInv, Next, NEW d \in Dirs,
                      port.open, port.busy[d], ~port'.busy[d]
               PROVE  port.left[d] = 0 /\ moved[d] = port.size[d]
    OBVIOUS
  <2>1. port \in Ports /\ task \in [Tasks -> Calls]
    BY DEF IInv, TypeOK
  <2>2. ASSUME NEW t \in Tasks, Call(t) PROVE FALSE
    <3>1. ASSUME NEW e \in Dirs, NEW async \in BOOLEAN,
                 NEW n \in 1 .. MaxBytes,
                 Claim(t, e, async, n)
          PROVE  FALSE
      BY <2>1, <3>1 DEF Claim, Ports
    <3>2. CASE uart_open(t) \/ uart_close(t) \/ uart_write_polling(t)
      BY <2>1, <3>2 DEF uart_open, uart_close, uart_write_polling, Ports
    <3>3. ASSUME NEW x, uart_set_callback(t, x) \/ uart_ioctl(t, x)
          PROVE  FALSE
      BY <2>1, <3>3 DEF uart_set_callback, uart_ioctl, Ports
    <3> QED
      BY <2>2, <3>1, <3>2, <3>3
      DEF Call, uart_write_sync, uart_write_async, uart_read_sync,
          uart_read_async, Dirs
  <2>3. ASSUME NEW t \in Tasks, Step(t) PROVE port.left[d] = 0
    <3>1. CASE \/ CloseLatch(t) \/ SetSize(t) \/ SetLeft(t)
               \/ Move(t) \/ EnableRead(t) \/ EnableWrite(t)
      BY <2>1, <3>1 DEF CloseLatch, SetSize, SetLeft, Move, EnableRead, EnableWrite, Ports
    <3>2. CASE ReadClear(t)
      BY <2>1, <3>2 DEF ReadClear, At, IInv, CallState, Through, Ports
    <3>3. CASE Wait(t)
      <4>1. task[t].dir = d /\ sem[d] = 1
        BY <2>1, <3>3 DEF Wait, Ports, Calls
      <4> QED
        BY <4>1 DEF IInv, HandlerState, Through
    <3> QED
      BY <2>3, <3>1, <3>2, <3>3 DEF Step
  <2>4. ASSUME IsrClear PROVE port.left[d] = 0
    <3>1. isr = d
      BY <2>1, <2>4 DEF IsrClear, Ports, IInv, TypeOK
    <3> QED
      BY <3>1 DEF IInv, HandlerState, Through
  <2>5. ASSUME Drain \/ Receive \/ IsrRx \/ IsrTx PROVE FALSE
    BY <2>1, <2>5 DEF Drain, Receive, IsrRx, IsrTx, IsrMove, Ports
  <2>6. port.left[d] = 0
    BY <2>2, <2>3, <2>4, <2>5 DEF Next
  <2>7. ~Resizing(d)
    <3>1. ASSUME NEW t \in Tasks, Step(t) PROVE ~Resizing(d)
      <4>1. CASE ReadClear(t) \/ Wait(t)
        <5>1. task[t].pc \in {"clear", "wait"} /\ task[t].dir = d
          <6>1. CASE ReadClear(t)
            BY <2>1, <6>1 DEF ReadClear, At, Ports, IInv, CallState, Dirs
          <6>2. CASE Wait(t)
            BY <2>1, <6>2 DEF Wait, At, Ports, Calls
          <6> QED
            BY <4>1, <6>1, <6>2
        <5> QED
          BY <5>1 DEF IInv, Claimed, Resizing, InCall
      <4>2. CASE ~(ReadClear(t) \/ Wait(t))
        BY <2>1, <3>1, <4>2
        DEF Step, CloseLatch, SetSize, SetLeft, Move, EnableRead, EnableWrite,
            Ports
      <4> QED
        BY <4>1, <4>2
    <3>2. ASSUME IsrClear PROVE ~Resizing(d)
      <4>1. isr = d
        BY <2>1, <3>2 DEF IsrClear, Ports, IInv, TypeOK
      <4> QED
        BY <4>1 DEF IInv, HandlerState, Resizing
    <3> QED
      BY <2>2, <2>5, <3>1, <3>2 DEF Next
  <2>8. port.left[d] + moved[d] = port.size[d] /\ moved[d] \in Nat
    BY <2>7 DEF IInv, Counts, TypeOK
  <2> QED
    BY <2>6, <2>8
<1> HIDE DEF Good
<1>2. Spec => [][Good]_vars
  BY <1>1, Invariance, PTL DEF Spec
<1> QED
  BY <1>2 DEF DoneMeansMoved, Good
=============================================================================
