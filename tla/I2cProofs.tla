------------------------------ MODULE I2cProofs ------------------------------
(***************************************************************************)
(* Proofs about I2c, with Dma, for any number of tasks, any depth of the   *)
(* FIFOs, and transfers of any length, those by DMA that are too long and  *)
(* are refused among them, with a device that refuses nothing but its      *)
(* address.                                                                *)
(***************************************************************************)
EXTENDS I2c, SequenceTheorems, FiniteSetTheorems, TLAPS

(* What the properties rest on: a device may refuse its address, once the  *)
(* call that addresses it has enabled the interrupts, and nothing else.    *)
NackDiscipline == Nacks \subseteq {"address"}

-----------------------------------------------------------------------------
(***************************************************************************)
(* The inductive invariant.                                                *)
(***************************************************************************)
ChannelStates == [state : {"IDLE", "ACTIVE"}, todo : Nat, done : BOOLEAN]
Descriptors == [busy : BOOLEAN, op : Ops, async : BOOLEAN, abort : BOOLEAN,
                size : Nat, left : Nat, rdleft : Nat, dma : SUBSET Channels]
BusStates == [tx : Seq(Commands), rx : Nat, open : BOOLEAN,
              byte : {"none", "write", "read"}, abrt : BOOLEAN,
              dma : SUBSET Channels]
IsrStates == [on : BOOLEAN, status : SUBSET Ints]
Calls == [pc : {"idle", "start", "arm", "wait", "end"},
          xfer : {"none", "sync", "async", "nacked", "refused"},
          ints : SUBSET Ints]

Types ==
  /\ channel \in [Channels -> ChannelStates] /\ i2c \in Descriptors
  /\ sem \in BOOLEAN /\ mask \subseteq Ints
  /\ bus \in BusStates /\ Len(bus.tx) <= Depth /\ isr \in IsrStates
  /\ caller \in [Callers -> Calls] /\ moved \in Nat

(* Who is where.  A call whose DMA transfer ended early may still have its *)
(* interrupts to enable when another call has the instance.                *)
Owned(c) == caller[c].xfer # "none"
CallersExact ==
  /\ \A c \in Callers :
       /\ caller[c].pc = "start" => caller[c].xfer \in {"sync", "async"}
       /\ caller[c].pc = "wait" => caller[c].xfer = "sync"
       /\ caller[c].pc = "idle" => caller[c].xfer # "sync"
       /\ caller[c].pc = "end" => caller[c].xfer = "none"
       /\ caller[c].xfer = "nacked" => caller[c].pc = "idle" /\ i2c.abort
       /\ caller[c].xfer = "refused" => caller[c].pc = "idle"
       /\ caller[c].pc = "arm" /\ ~Owned(c) => caller[c].ints = {"TX_ABRT"}
       /\ Owned(c) /\ caller[c].xfer # "refused" =>
            (i2c.async <=> caller[c].xfer # "sync")
  /\ \A c, d \in Callers : Owned(c) /\ Owned(d) => c = d
  /\ i2c.busy <=> \E c \in Callers : Owned(c)
  /\ sem => /\ \E c \in Callers : caller[c].xfer = "sync" /\ caller[c].pc # "start"
            /\ i2c.abort \/ moved = i2c.size

(* A channel is active from its start to its interrupt, which comes with   *)
(* the last item; so long its requests are enabled.                        *)
Active(ch) == channel[ch].state = "ACTIVE"
ChannelsExact ==
  \A ch \in Channels :
    /\ IF Active(ch) THEN channel[ch].done <=> channel[ch].todo = 0
                     ELSE channel[ch].todo = 0 /\ ~channel[ch].done
    /\ ch \in bus.dma <=> Active(ch)

Reading == i2c.op = "READ"
Writing == i2c.op = "WRITE"
OnWire == IF bus.byte = "read" THEN 1 ELSE 0

(* The first k commands in the TX FIFO are what a DMA write left there.    *)
Leftover(k) ==
  /\ \A i \in 1 .. k : bus.tx[i].dma /\ ~bus.tx[i].rd
  /\ k > 0 => bus.tx[k].last

(* The transfer in progress, from its first command to its report.         *)
Live(c) == caller[c].xfer \in {"sync", "async"} /\ caller[c].pc # "start"
Moving == ~sem /\ \E c \in Callers : Live(c)

(* Between transfers.  A last TX_EMPTY of a read, or the wdma channel of a *)
(* DMA read, may still have to be served.                                  *)
Calm ==
  /\ ~bus.abrt /\ bus.rx = 0 /\ bus.byte # "read"
  /\ Leftover(Len(bus.tx)) /\ (Len(bus.tx) = 0 => ~bus.open)
  /\ \A ch \in Channels : Active(ch) =>
       ch = "wdma" /\ Reading /\ channel[ch].todo = 0
  /\ \A c \in Callers : caller[c].pc = "arm" => caller[c].ints = {"TX_ABRT"}
  /\ mask \subseteq {"TX_ABRT", "TX_EMPTY"}
  /\ "TX_EMPTY" \in mask => Reading /\ i2c.rdleft = 0 /\ Len(bus.tx) = 0
  /\ isr.on => isr.status = {"TX_EMPTY"} /\ "TX_EMPTY" \in mask

(* A call has claimed the instance: nothing is left to be served.          *)
Claimed ==
  \A c \in Callers : caller[c].pc = "start" =>
    /\ ~isr.on /\ mask \subseteq {"TX_ABRT"}
    /\ \A ch \in Channels : ~Active(ch)
    /\ moved = 0 /\ ~i2c.abort /\ i2c.size > 0

(* A transfer by DMA: every byte is somewhere.                             *)
Delivered ==
  /\ \A i \in 1 .. Len(bus.tx) : bus.tx[i].dma /\ ~bus.tx[i].rd
  /\ bus.rx = 0 /\ bus.byte # "read" /\ ~Active("rdma")
  /\ moved + channel["wdma"].todo = i2c.size
Requested(k) ==
  /\ Leftover(k)
  /\ \A i \in k + 1 .. Len(bus.tx) : bus.tx[i].dma /\ bus.tx[i].rd
  /\ channel["rdma"].todo = channel["wdma"].todo
                              + (Len(bus.tx) - k) + OnWire + bus.rx
DmaMoving ==
  /\ ~bus.abrt /\ ~isr.on /\ mask \subseteq {"TX_ABRT"} /\ ~i2c.abort
  /\ \A c \in Callers : caller[c].pc = "arm" => caller[c].ints = {"TX_ABRT"}
  /\ channel["wdma"].todo = 0 =>
       IF Len(bus.tx) = 0 THEN ~bus.open ELSE bus.tx[Len(bus.tx)].last
  /\ Writing => Delivered
  /\ Reading => /\ moved + channel["rdma"].todo = i2c.size
                /\ \E k \in 0 .. Len(bus.tx) : Requested(k)

(* A transfer by interrupts.  The commands that are not queued; the ones   *)
(* in the FIFO, after the leftover; the bytes on their way back.  Until    *)
(* the device is addressed no interrupt comes but its refusal.             *)
Unqueued == IF Reading THEN i2c.rdleft ELSE i2c.left
Commanded(k) ==
  /\ Leftover(k)
  /\ \A i \in k + 1 .. Len(bus.tx) :
       /\ ~bus.tx[i].dma /\ (bus.tx[i].rd <=> Reading)
       /\ bus.tx[i].last <=> i = Len(bus.tx) /\ Unqueued = 0
  /\ Len(bus.tx) = 0 => (bus.open <=> Unqueued > 0 /\ Unqueued < i2c.size)
  /\ Writing => /\ moved + (Len(bus.tx) - k) + i2c.left = i2c.size
                /\ bus.rx = 0 /\ bus.byte # "read"
  /\ Reading => /\ moved + i2c.left = i2c.size
                /\ i2c.left = i2c.rdleft + (Len(bus.tx) - k) + OnWire + bus.rx
  /\ k > 0 \/ (Len(bus.tx) > 0 /\ ~bus.open) =>
       moved = 0 /\ bus.rx = 0 /\ bus.byte # "read" /\ ~isr.on
Refused ==
  /\ Len(bus.tx) = 0 /\ bus.byte = "none" /\ ~bus.open /\ bus.rx = 0
  /\ \A c \in Callers : Live(c) => caller[c].pc # "arm"
IntMasks ==
  /\ \A c \in Callers : Live(c) =>
       IF caller[c].pc = "arm"
       THEN /\ ~isr.on /\ mask \subseteq {"TX_ABRT"}
            /\ caller[c].ints = {"TX_ABRT", "TX_EMPTY"} \cup
                                  IF Reading THEN {"RX_FULL"} ELSE {}
       ELSE "TX_ABRT" \in mask /\ (Writing => "RX_FULL" \notin mask)
  /\ isr.on => /\ "TX_ABRT" \in isr.status <=> bus.abrt
               /\ ~bus.abrt /\ Writing => isr.status = {"TX_EMPTY"}
                                          /\ Len(bus.tx) = 0
IntMoving ==
  /\ \A ch \in Channels : ~Active(ch)
  /\ ~i2c.abort /\ i2c.size > 0 /\ IntMasks
  /\ IF bus.abrt THEN Refused ELSE \E k \in 0 .. Len(bus.tx) : Commanded(k)

Main == IF Writing THEN "wdma" ELSE "rdma"
Phase ==
  /\ ~Moving => Calm
  /\ Moving /\ Active(Main) => DmaMoving
  /\ Moving /\ ~Active(Main) => IntMoving

IInv == Types /\ CallersExact /\ ChannelsExact /\ Claimed /\ Phase

(* What a synchronous call that has given the instance back will say: as   *)
(* long as nobody claims the instance, is_xfer_abort is its own.           *)
Results ==
  /\ result \in [Callers -> {"none", "whole", "part", "overtaken"}]
  /\ \A c \in Callers :
       /\ caller[c].pc = "end" <=> result[c] # "none"
       /\ result[c] = "part" => i2c.abort /\ ~i2c.busy

Total == IInv /\ Results

(* Of a step: the callbacks and the calls that succeed with it stand for   *)
(* all their bytes.                                                        *)
Honest == \A c \in Callers : CallsBack(c) => moved' = i2c.size
HonestReturn ==
  \A c \in Callers : Returns0(c) => result[c] \in {"whole", "overtaken"}

-----------------------------------------------------------------------------
(* The fields of a state, and of a task that moves.                        *)
LEMMA Fields ==
  ASSUME Types
  PROVE  /\ \A ch \in Channels : /\ channel[ch].state \in {"IDLE", "ACTIVE"}
                                 /\ channel[ch].todo \in Nat
                                 /\ channel[ch].done \in BOOLEAN
         /\ i2c.busy \in BOOLEAN /\ i2c.op \in Ops /\ i2c.async \in BOOLEAN
         /\ i2c.abort \in BOOLEAN /\ i2c.size \in Nat /\ i2c.left \in Nat
         /\ i2c.rdleft \in Nat /\ i2c.dma \subseteq Channels
         /\ bus.tx \in Seq(Commands) /\ Len(bus.tx) \in Nat /\ bus.rx \in Nat
         /\ bus.open \in BOOLEAN /\ bus.byte \in {"none", "write", "read"}
         /\ bus.abrt \in BOOLEAN /\ bus.dma \subseteq Channels
         /\ isr.on \in BOOLEAN /\ isr.status \subseteq Ints
         /\ \A c \in Callers : /\ caller[c].pc \in {"idle", "start", "arm", "wait",
                                                    "end"}
                               /\ caller[c].xfer \in {"none", "sync", "async",
                                                      "nacked", "refused"}
                               /\ caller[c].ints \subseteq Ints
<1>1. Len(bus.tx) \in Nat
  BY LenProperties DEF Types, BusStates
<1> QED
  BY <1>1 DEF Types, ChannelStates, Descriptors, BusStates, IsrStates, Calls

LEMMA Elements ==
  ASSUME Types, NEW i \in 1 .. Len(bus.tx)
  PROVE  /\ bus.tx[i].rd \in BOOLEAN /\ bus.tx[i].last \in BOOLEAN
         /\ bus.tx[i].dma \in BOOLEAN
<1>1. bus.tx[i] \in Commands
  BY Fields, ElementOfSeq
<1> QED
  BY <1>1 DEF Commands

LEMMA Emptiness ==
  ASSUME Types
  PROVE  bus.tx = <<>> <=> Len(bus.tx) = 0
BY Fields, EmptySeq

(* What the status register says.                                          *)
LEMMA StatusBits ==
  ASSUME Types
  PROVE  /\ "TX_EMPTY" \in Status <=> "TX_EMPTY" \in mask /\ Len(bus.tx) = 0
         /\ "RX_FULL" \in Status <=> "RX_FULL" \in mask /\ bus.rx > 0
         /\ "TX_ABRT" \in Status <=> "TX_ABRT" \in mask /\ bus.abrt
         /\ Status \subseteq Ints
BY Emptiness, Zenon DEF Status, Ints, Types

(* Between transfers a task finds the channels idle, and no interrupt of   *)
(* the FIFOs enabled.                                                      *)
LEMMA Quiet ==
  ASSUME IInv, ~Moving, TasksRun
  PROVE  /\ \A ch \in Channels : ~Active(ch)
         /\ mask \subseteq {"TX_ABRT"}
<1>1. Types /\ ChannelsExact /\ Calm
  BY DEF IInv, Phase
<1>2. Status = {} /\ \A ch \in Channels : ~channel[ch].done
  BY DEF TasksRun, InterruptPending
<1>3. "TX_EMPTY" \notin mask
  BY <1>1, <1>2, StatusBits DEF Calm
<1> QED
  BY <1>1, <1>2, <1>3 DEF Calm, ChannelsExact

(* The owner decides whether a transfer is in progress.                    *)
LEMMA OneOwner ==
  ASSUME IInv, NEW c \in Callers, Owned(c)
  PROVE  /\ \A d \in Callers : Owned(d) => d = c
         /\ Moving <=> ~sem /\ Live(c)
         /\ i2c.busy
         /\ caller[c].pc = "start" => ~sem
BY DEF IInv, CallersExact, Owned, Moving, Live

LEMMA NoOwner ==
  ASSUME IInv, ~i2c.busy
  PROVE  ~sem /\ ~Moving /\ \A d \in Callers : ~Owned(d) /\ caller[d].pc # "start"
BY DEF IInv, CallersExact, Owned, Moving, Live

LEMMA LeastOf ==
  ASSUME NEW a \in Nat, NEW b \in Nat
  PROVE  /\ Least(a, b) \in 0 .. a /\ Least(a, b) <= b
         /\ a > 0 /\ b > 0 => Least(a, b) > 0
         /\ a <= b => Least(a, b) = a
BY DEF Least

(* What Enqueue leaves in the TX FIFO.                                     *)
LEMMA Enqueued ==
  ASSUME Types, NEW n \in Nat, NEW rd \in BOOLEAN
  PROVE  /\ Queued(n) \in 0 .. n
         /\ n > 0 /\ Len(bus.tx) < Depth => Queued(n) > 0
         /\ Enqueue(n, rd) \in Seq(Commands)
         /\ Len(Enqueue(n, rd)) = Len(bus.tx) + Queued(n)
         /\ Len(Enqueue(n, rd)) <= Depth
         /\ \A i \in 1 .. Len(bus.tx) : Enqueue(n, rd)[i] = bus.tx[i]
         /\ \A i \in Len(bus.tx) + 1 .. Len(bus.tx) + Queued(n) :
              /\ ~Enqueue(n, rd)[i].dma /\ (Enqueue(n, rd)[i].rd <=> rd)
              /\ Enqueue(n, rd)[i].last <=> i = Len(bus.tx) + n
<1> DEFINE q == Queued(n)
           more == [i \in 1 .. q |-> [rd |-> rd, last |-> i = n, dma |-> FALSE]]
<1>1. bus.tx \in Seq(Commands) /\ Len(bus.tx) \in Nat /\ Len(bus.tx) <= Depth
      /\ Depth \in Nat
  BY Fields, I2cAssumption DEF Types
<1>2. /\ q \in 0 .. n /\ q <= Depth - Len(bus.tx)
      /\ n > 0 /\ Len(bus.tx) < Depth => q > 0
  <2> DEFINE room == Depth - Len(bus.tx)
  <2>1. room \in Nat /\ (Len(bus.tx) < Depth => room > 0)
    BY <1>1
  <2>2. q = Least(n, room)
    BY DEF Queued
  <2> HIDE DEF room, q
  <2>3. q \in 0 .. n /\ q <= room /\ (n > 0 /\ room > 0 => q > 0)
    BY <2>1, <2>2, LeastOf
  <2> QED
    BY <2>1, <2>3 DEF room
<1> HIDE DEF q
<1>3. more \in Seq(Commands) /\ Len(more) = q
  <2>1. \A i \in 1 .. q : more[i] \in Commands
    BY DEF Commands
  <2>2. more \in [1 .. q -> Commands] /\ q \in Nat
    BY <1>2, <2>1
  <2> QED
    BY <2>2
<1>4. \A i \in 1 .. q : more[i] = [rd |-> rd, last |-> i = n, dma |-> FALSE]
  OBVIOUS
<1>5. Enqueue(n, rd) = bus.tx \o more
  BY DEF Enqueue, q
<1> HIDE DEF more
<1>6. /\ Enqueue(n, rd) \in Seq(Commands)
      /\ Len(Enqueue(n, rd)) = Len(bus.tx) + q
      /\ \A i \in 1 .. Len(bus.tx) + q : Enqueue(n, rd)[i] =
           IF i <= Len(bus.tx) THEN bus.tx[i] ELSE more[i - Len(bus.tx)]
  <2>1. /\ bus.tx \o more \in Seq(Commands)
        /\ Len(bus.tx \o more) = Len(bus.tx) + Len(more)
        /\ \A i \in 1 .. Len(bus.tx) + Len(more) : (bus.tx \o more)[i] =
             IF i <= Len(bus.tx) THEN bus.tx[i] ELSE more[i - Len(bus.tx)]
    BY <1>1, <1>3, ConcatProperties, Zenon
  <2> QED
    BY <1>3, <1>5, <2>1, Zenon
<1>7. ASSUME NEW i \in Len(bus.tx) + 1 .. Len(bus.tx) + q
      PROVE  /\ ~Enqueue(n, rd)[i].dma /\ (Enqueue(n, rd)[i].rd <=> rd)
             /\ Enqueue(n, rd)[i].last <=> i = Len(bus.tx) + n
  <2>1. Enqueue(n, rd)[i] = more[i - Len(bus.tx)] /\ i - Len(bus.tx) \in 1 .. q
    BY <1>1, <1>2, <1>6
  <2>2. more[i - Len(bus.tx)] =
          [rd |-> rd, last |-> i - Len(bus.tx) = n, dma |-> FALSE]
    BY <1>4, <2>1
  <2>3. i - Len(bus.tx) = n <=> i = Len(bus.tx) + n
    BY <1>1
  <2> DEFINE e == Enqueue(n, rd)[i]
  <2>4. e = [rd |-> rd, last |-> i - Len(bus.tx) = n, dma |-> FALSE]
    BY <2>1, <2>2
  <2> HIDE DEF e
  <2>5. ~e.dma /\ (e.rd <=> rd) /\ (e.last <=> i - Len(bus.tx) = n)
    BY <2>4
  <2> QED
    BY <2>3, <2>5 DEF e
<1>8. \A i \in 1 .. Len(bus.tx) : Enqueue(n, rd)[i] = bus.tx[i]
  BY <1>1, <1>2, <1>6
<1> QED
  BY <1>1, <1>2, <1>6, <1>7, <1>8 DEF q

LEMMA EnqueuedNone ==
  ASSUME Types, NEW rd \in BOOLEAN
  PROVE  Enqueue(0, rd) = bus.tx
<1>1. Enqueue(0, rd) \in Seq(Commands) /\ bus.tx \in Seq(Commands)
      /\ Queued(0) = 0 /\ Len(bus.tx) \in Nat
  <2>1. Queued(0) \in 0 .. 0 /\ Enqueue(0, rd) \in Seq(Commands)
    BY Enqueued
  <2> QED
    BY <2>1, Fields
<1>2. Len(Enqueue(0, rd)) = Len(bus.tx)
      /\ \A i \in 1 .. Len(bus.tx) : Enqueue(0, rd)[i] = bus.tx[i]
  <2>1. /\ Len(Enqueue(0, rd)) = Len(bus.tx) + Queued(0)
        /\ \A i \in 1 .. Len(bus.tx) : Enqueue(0, rd)[i] = bus.tx[i]
    BY Enqueued
  <2> QED
    BY <1>1, <2>1
<1> QED
  BY <1>1, <1>2, SeqEqual, Zenon

-----------------------------------------------------------------------------
(* The calls.                                                              *)
LEMMA Ioctl ==
  ASSUME IInv, NEW c \in Callers, NEW ch \in Channels, i2c_ioctl(c, ch)
  PROVE  IInv'
<1> DEFINE d == IF ch \in i2c.dma THEN i2c.dma \ {ch} ELSE i2c.dma \cup {ch}
<1>1. Types
  BY DEF IInv
<1>2. i2c.dma \subseteq Channels /\ i2c \in Descriptors
  BY <1>1, Fields DEF Types
<1>3. i2c' = [i2c EXCEPT !.dma = d]
  BY DEF i2c_ioctl
<1>4. d \subseteq Channels
  BY <1>2
<1> HIDE DEF d
<1>5. /\ i2c' \in Descriptors
      /\ i2c'.busy = i2c.busy /\ i2c'.op = i2c.op /\ i2c'.async = i2c.async
      /\ i2c'.abort = i2c.abort /\ i2c'.size = i2c.size
      /\ i2c'.left = i2c.left /\ i2c'.rdleft = i2c.rdleft
  BY <1>2, <1>3, <1>4 DEF Descriptors
<1>6. UNCHANGED <<channel, sem, mask, bus, isr, caller, moved>>
  BY DEF i2c_ioctl
<1>7. Types' /\ ChannelsExact'
  BY <1>1, <1>5, <1>6 DEF IInv, Types, ChannelsExact, Active
<1>8. CallersExact' /\ Claimed'
  BY <1>5, <1>6 DEF IInv, CallersExact, Owned, Claimed, Active
<1>9. (Moving' <=> Moving) /\ (Calm => Calm') /\ Main' = Main
      /\ (Active(Main)' <=> Active(Main))
  BY <1>5, <1>6 DEF Moving, Live, Calm, Leftover, Active, Reading, Main, Writing
<1>10. DmaMoving => DmaMoving'
  BY <1>5, <1>6 DEF DmaMoving, Delivered, Requested, Leftover, Active, Reading,
                    Writing, OnWire
<1>11. IntMoving => IntMoving'
  BY <1>5, <1>6 DEF IntMoving, IntMasks, Refused, Commanded, Leftover, Active,
                    Reading, Writing, OnWire, Unqueued, Live
<1> QED
  BY <1>7, <1>8, <1>9, <1>10, <1>11 DEF IInv, Phase

(* A task that moves, and keeps what the other tasks have.                 *)
Moves(c, pc, xfer, ints) ==
  /\ caller' \in [Callers -> Calls]
  /\ caller'[c].pc = pc /\ caller'[c].xfer = xfer /\ caller'[c].ints = ints
  /\ \A d \in Callers : d # c => caller'[d] = caller[d]

LEMMA ClaimKeeps ==
  ASSUME IInv, NEW c \in Callers, NEW op \in Ops, NEW async \in BOOLEAN,
         NEW n \in 1 .. MaxItems, Claim(c, op, async, n)
  PROVE  IInv'
<1> DEFINE x == IF async THEN "async" ELSE "sync"
<1>1. /\ Types /\ caller[c].pc = "idle" /\ caller[c].xfer = "none" /\ ~i2c.busy
      /\ TasksRun /\ ~isr.on
      /\ UNCHANGED <<channel, sem, mask, bus, isr>> /\ moved' = 0
  BY DEF IInv, Claim, At, TasksRun
<1>2. n \in Nat /\ n > 0
  BY DmaAssumption
<1>3. /\ i2c' \in Descriptors /\ i2c'.busy /\ i2c'.op = op
      /\ (i2c'.async <=> async) /\ ~i2c'.abort /\ i2c'.size = n
  BY <1>1, <1>2 DEF Claim, Types, Descriptors
<1>4. x \in {"sync", "async"} /\ (x = "sync" <=> ~async)
  OBVIOUS
<1> HIDE DEF x
<1>5. Moves(c, "start", x, caller[c].ints)
  BY <1>1, <1>4 DEF Claim, Types, Calls, Moves, x
<1>6. ~sem /\ ~Moving /\ \A d \in Callers : ~Owned(d) /\ caller[d].pc # "start"
  BY <1>1, NoOwner
<1>7. Calm /\ (\A ch \in Channels : ~Active(ch)) /\ mask \subseteq {"TX_ABRT"}
  BY <1>1, <1>6, Quiet DEF IInv, Phase
<1>8. Types' /\ ChannelsExact'
  BY <1>1, <1>3, <1>5 DEF IInv, Types, Moves, ChannelsExact, Active
<1>9. CallersExact'
  BY <1>1, <1>3, <1>4, <1>5, <1>6 DEF IInv, CallersExact, Owned, Moves
<1>10. Claimed'
  BY <1>1, <1>2, <1>3, <1>5, <1>6, <1>7 DEF Claimed, Moves, Active
<1>11. ~Moving'
  BY <1>1, <1>5, <1>6 DEF Moving, Live, Owned, Moves
<1>12. Calm'
  BY <1>1, <1>5, <1>7 DEF Calm, Leftover, Active, Moves
<1> QED
  BY <1>8, <1>9, <1>10, <1>11, <1>12 DEF IInv, Phase

(* What a task that sends its claimed transfer on its way finds.           *)
LEMMA Starts ==
  ASSUME IInv, NEW c \in Callers, At(c, "start")
  PROVE  /\ Types /\ Calm /\ Owned(c) /\ ~sem /\ i2c.busy
         /\ \A d \in Callers : Owned(d) => d = c
         /\ caller[c].xfer \in {"sync", "async"}
         /\ (i2c.async <=> caller[c].xfer # "sync")
         /\ ~isr.on /\ mask \subseteq {"TX_ABRT"}
         /\ \A ch \in Channels : ~Active(ch) /\ channel[ch].todo = 0
                                 /\ ~channel[ch].done /\ ch \notin bus.dma
         /\ moved = 0 /\ ~i2c.abort /\ i2c.size > 0
<1>1. Types /\ CallersExact /\ ChannelsExact /\ Claimed /\ caller[c].pc = "start"
  BY DEF IInv, At
<1>2. caller[c].xfer \in {"sync", "async"}
  BY <1>1 DEF CallersExact
<1>3. Owned(c) /\ ~Live(c)
  BY <1>1, <1>2 DEF Owned, Live
<1>4. (\A d \in Callers : Owned(d) => d = c) /\ ~Moving /\ ~sem /\ i2c.busy
  BY <1>1, <1>3, OneOwner
<1>5. Calm
  BY <1>4 DEF IInv, Phase
<1>6. i2c.async <=> caller[c].xfer # "sync"
  BY <1>1, <1>3 DEF CallersExact
<1>7. /\ ~isr.on /\ mask \subseteq {"TX_ABRT"}
      /\ \A ch \in Channels : ~Active(ch)
      /\ moved = 0 /\ ~i2c.abort /\ i2c.size > 0
  BY <1>1 DEF Claimed
<1> QED
  BY <1>1, <1>2, <1>3, <1>4, <1>5, <1>6, <1>7 DEF ChannelsExact

(* The state of the callers after it.                                      *)
LEMMA StartedCaller ==
  ASSUME IInv, NEW c \in Callers, At(c, "start"), NEW ints \in SUBSET Ints,
         GoArm(c, ints), sem' = sem,
         i2c'.busy <=> i2c.busy, i2c'.async <=> i2c.async,
         i2c'.abort <=> i2c.abort
  PROVE  /\ Moves(c, "arm", caller[c].xfer, ints)
         /\ CallersExact' /\ Moving' /\ Claimed'
         /\ \A d \in Callers : Live(d)' => d = c
         /\ \A d \in Callers : d # c /\ caller[d].pc = "arm" =>
              caller[d].ints = {"TX_ABRT"}
<1>1. CallersExact /\ caller[c].pc = "start"
  BY DEF IInv, At
<1>2. /\ Types /\ Owned(c) /\ ~sem /\ i2c.busy
      /\ \A d \in Callers : Owned(d) => d = c
      /\ caller[c].xfer \in {"sync", "async"}
      /\ (i2c.async <=> caller[c].xfer # "sync")
  BY Starts
<1>3. Moves(c, "arm", caller[c].xfer, ints)
  BY <1>2 DEF GoArm, Types, Calls, Moves
<1>4. CallersExact'
  BY <1>1, <1>2, <1>3 DEF CallersExact, Owned, Moves
<1>5. Moving' /\ \A d \in Callers : Live(d)' => d = c
  BY <1>2, <1>3 DEF Moving, Live, Owned, Moves
<1>6. \A d \in Callers : d # c => caller[d].pc # "start"
  BY <1>1, <1>2 DEF CallersExact, Owned
<1>7. Claimed'
  BY <1>3, <1>6 DEF Claimed, Moves
<1>8. \A d \in Callers : d # c /\ caller[d].pc = "arm" =>
        caller[d].ints = {"TX_ABRT"}
  BY <1>1, <1>2 DEF CallersExact
<1> QED
  BY <1>3, <1>4, <1>5, <1>7, <1>8

(* The commands of a transfer that was just begun: all that the FIFO takes. *)
LEMMA FillFifoKeeps ==
  ASSUME IInv, NEW c \in Callers, FillFifo(c)
  PROVE  IInv'
<1>1. Types /\ At(c, "start")
  BY DEF IInv, FillFifo
<1>2. /\ Calm /\ Owned(c) /\ ~sem /\ i2c.busy
      /\ ~isr.on /\ mask \subseteq {"TX_ABRT"}
      /\ \A ch \in Channels : ~Active(ch)
      /\ moved = 0 /\ ~i2c.abort /\ i2c.size > 0
  BY <1>1, Starts
<1>3. /\ i2c.size \in Nat /\ i2c.left \in Nat /\ i2c.rdleft \in Nat
      /\ Len(bus.tx) \in Nat /\ i2c.op \in Ops /\ bus.tx \in Seq(Commands)
  BY <1>1, Fields
<1>4. PICK n \in Nat, rd \in BOOLEAN, len \in Nat :
        n = i2c.size /\ rd = (i2c.op = "READ") /\ len = Len(bus.tx)
  BY <1>3
<1>5. PICK q, e : q = Queued(n) /\ e = Enqueue(n, rd)
  OBVIOUS
<1>6. /\ q \in 0 .. n /\ e \in Seq(Commands) /\ Len(e) = len + q
      /\ len + q <= Depth
      /\ \A i \in 1 .. len : e[i] = bus.tx[i]
      /\ \A i \in len + 1 .. len + q :
           ~e[i].dma /\ (e[i].rd <=> rd) /\ (e[i].last <=> i = len + n)
      /\ len < Depth => q > 0
  <2>1. /\ Queued(n) \in 0 .. n
        /\ n > 0 /\ Len(bus.tx) < Depth => Queued(n) > 0
        /\ Enqueue(n, rd) \in Seq(Commands)
        /\ Len(Enqueue(n, rd)) = Len(bus.tx) + Queued(n)
        /\ Len(Enqueue(n, rd)) <= Depth
        /\ \A i \in 1 .. Len(bus.tx) : Enqueue(n, rd)[i] = bus.tx[i]
        /\ \A i \in Len(bus.tx) + 1 .. Len(bus.tx) + Queued(n) :
             /\ ~Enqueue(n, rd)[i].dma /\ (Enqueue(n, rd)[i].rd <=> rd)
             /\ Enqueue(n, rd)[i].last <=> i = Len(bus.tx) + n
    BY ONLY <1>1, n \in Nat, rd \in BOOLEAN, Enqueued, Zenon
  <2>2. n > 0
    BY <1>2, <1>4
  <2> QED
    BY <1>4, <1>5, <2>1, <2>2
<1>7. PICK ints \in SUBSET Ints :
        ints = {"TX_ABRT", "TX_EMPTY"} \cup IF rd THEN {"RX_FULL"} ELSE {}
  BY DEF Ints
<1>8. /\ bus' = [bus EXCEPT !.tx = e]
      /\ i2c' = [i2c EXCEPT !.left = IF rd THEN n ELSE n - q,
                            !.rdleft = IF rd THEN n - q ELSE @]
      /\ GoArm(c, ints) /\ UNCHANGED <<channel, sem, mask, isr, moved>>
  BY <1>4, <1>5, <1>7 DEF FillFifo
<1>9. /\ bus' \in BusStates /\ bus'.tx = e
      /\ bus'.rx = bus.rx /\ bus'.open = bus.open /\ bus'.byte = bus.byte
      /\ bus'.abrt = bus.abrt /\ bus'.dma = bus.dma
  BY <1>1, <1>6, <1>8 DEF Types, BusStates
<1>10. n - q \in Nat
  BY <1>6
<1>11. /\ i2c' \in Descriptors /\ i2c'.op = i2c.op /\ i2c'.size = i2c.size
       /\ i2c'.busy = i2c.busy /\ i2c'.async = i2c.async
       /\ i2c'.abort = i2c.abort
  BY <1>1, <1>3, <1>8, <1>10 DEF Types, Descriptors
<1>12. /\ rd => i2c'.left = n /\ i2c'.rdleft = n - q
       /\ ~rd => i2c'.left = n - q
  BY <1>1, <1>8 DEF Types, Descriptors
<1>13. /\ Moves(c, "arm", caller[c].xfer, ints)
       /\ CallersExact' /\ Moving' /\ Claimed'
       /\ \A d \in Callers : Live(d)' => d = c
  BY <1>1, <1>8, <1>11, StartedCaller
<1>14. Types'
  BY <1>1, <1>6, <1>8, <1>9, <1>11, <1>13 DEF Types, Moves
<1>15. ChannelsExact' /\ (\A ch \in Channels : ~Active(ch)') /\ ~Active(Main)'
  BY <1>2, <1>8, <1>9, I2cAssumption DEF IInv, ChannelsExact, Active, Main
<1>16. (Reading' <=> rd) /\ (Writing' <=> ~rd)
  BY <1>3, <1>4, <1>11 DEF Reading, Writing, Ops
<1>17. IntMasks'
  BY <1>2, <1>7, <1>8, <1>13, <1>16 DEF IntMasks, Moves, Live
<1>18. bus.rx = 0 /\ bus.byte # "read" /\ (len = 0 => ~bus.open)
  BY <1>2, <1>4 DEF Calm
<1>19. Commanded(len)'
  <2>1. Len(bus'.tx) = len + q
    BY <1>6, <1>9
  <2>2. Leftover(len)'
    <3>1. Leftover(len) /\ \A i \in 1 .. len : bus'.tx[i] = bus.tx[i]
      BY <1>2, <1>4, <1>6, <1>9 DEF Calm
    <3> QED
      BY ONLY <3>1, len \in Nat DEF Leftover
  <2>3. Unqueued' = n - q
    BY <1>12, <1>16 DEF Unqueued
  <2>4. ASSUME NEW i \in len + 1 .. len + q
        PROVE  /\ ~bus'.tx[i].dma /\ (bus'.tx[i].rd <=> Reading')
               /\ bus'.tx[i].last <=> i = len + q /\ n - q = 0
    <3>1. i = len + n <=> i = len + q /\ n - q = 0
      BY <1>6
    <3> QED
      BY <1>6, <1>9, <1>16, <3>1
  <2>6. len + q = 0 => (bus'.open <=> n - q > 0 /\ n - q < n)
    BY <1>6, <1>9, <1>18
  <2>7. Writing' => /\ moved' + (len + q - len) + i2c'.left = i2c'.size
                    /\ bus'.rx = 0 /\ bus'.byte # "read"
    BY <1>2, <1>4, <1>6, <1>8, <1>9, <1>11, <1>12, <1>16, <1>18
  <2>8. Reading' => /\ moved' + i2c'.left = i2c'.size
                    /\ i2c'.left = i2c'.rdleft + (len + q - len) + OnWire' + bus'.rx
    BY <1>2, <1>4, <1>6, <1>8, <1>9, <1>11, <1>12, <1>16, <1>18 DEF OnWire
  <2>9. moved' = 0 /\ bus'.rx = 0 /\ bus'.byte # "read" /\ ~isr'.on
        /\ i2c'.size = n
    BY <1>2, <1>4, <1>8, <1>9, <1>11, <1>18
  <2> QED
    <3>1. q \in Nat /\ Len(bus'.tx) - len = len + q - len
      BY <1>6, <2>1
    <3>2. \A i \in len + 1 .. Len(bus'.tx) :
            /\ ~bus'.tx[i].dma /\ (bus'.tx[i].rd <=> Reading')
            /\ bus'.tx[i].last <=> i = Len(bus'.tx) /\ Unqueued' = 0
      BY <2>1, <2>3, <2>4
    <3>3. Len(bus'.tx) = 0 =>
            (bus'.open <=> Unqueued' > 0 /\ Unqueued' < i2c'.size)
      BY <2>1, <2>3, <2>6, <2>9
    <3> QED
      BY <2>2, <2>7, <2>8, <2>9, <3>1, <3>2, <3>3 DEF Commanded
<1>20. len \in 0 .. Len(bus'.tx)
  BY <1>6, <1>9
<1>21. ~bus'.abrt /\ ~i2c'.abort /\ i2c'.size > 0
  BY <1>2, <1>9, <1>11 DEF Calm
<1>22. IntMoving'
  BY <1>15, <1>17, <1>19, <1>20, <1>21 DEF IntMoving
<1> QED
  BY <1>13, <1>14, <1>15, <1>22 DEF IInv, Phase

LEMMA StartDmaArms ==
  ASSUME IInv, NEW c \in Callers, StartDma(c), i2c.size <= MaxDma
  PROVE  LET chs == IF i2c.op = "WRITE" THEN {"wdma"} ELSE Channels IN
         /\ dma_start_transfer(chs, i2c.size)
         /\ bus' = [bus EXCEPT !.dma = bus.dma \cup chs]
         /\ GoArm(c, {"TX_ABRT"})
<1> DEFINE chs == IF i2c.op = "WRITE" THEN {"wdma"} ELSE Channels
<1>1. Types /\ At(c, "start")
  BY DEF IInv, StartDma
<1>2. \A ch \in Channels : ~Active(ch)
  BY <1>1, Starts
<1>3. chs \subseteq Channels
  BY I2cAssumption
<1>4. \A ch \in Channels : channel[ch].state \in {"IDLE", "ACTIVE"}
  BY <1>1, Fields
<1>5. dma_setup_ok(chs)
  BY <1>2, <1>3, <1>4 DEF dma_setup_ok, Active
<1> QED
  BY <1>5, Zenon DEF StartDma

LEMMA StartDmaGoes ==
  ASSUME IInv, NEW c \in Callers, StartDma(c), i2c.size <= MaxDma
  PROVE  IInv'
<1> DEFINE chs == IF i2c.op = "WRITE" THEN {"wdma"} ELSE Channels
<1>1. /\ Types /\ At(c, "start") /\ UNCHANGED <<sem, mask, isr, moved>>
      /\ i2c' = [i2c EXCEPT !.left = 0]
  BY DEF IInv, StartDma
<1>2. /\ Calm /\ Owned(c) /\ ~sem /\ i2c.busy
      /\ ~isr.on /\ mask \subseteq {"TX_ABRT"}
      /\ \A ch \in Channels : ~Active(ch) /\ channel[ch].todo = 0
                              /\ ~channel[ch].done /\ ch \notin bus.dma
      /\ moved = 0 /\ ~i2c.abort /\ i2c.size > 0
  BY <1>1, Starts
<1>3. /\ i2c.size \in Nat /\ i2c.op \in Ops /\ bus.dma \subseteq Channels
      /\ \A ch \in Channels : channel[ch].state \in {"IDLE", "ACTIVE"}
      /\ bus.rx \in Nat /\ Len(bus.tx) \in Nat
  BY <1>1, Fields
<1>4. /\ chs \subseteq Channels /\ "wdma" \in chs
      /\ "rdma" \in chs <=> Reading
      /\ (Writing <=> ~Reading) /\ "wdma" \in Channels /\ "rdma" \in Channels
  BY <1>3, I2cAssumption DEF Ops, Reading, Writing
<1>6. /\ dma_start_transfer(chs, i2c.size)
      /\ bus' = [bus EXCEPT !.dma = bus.dma \cup chs]
      /\ GoArm(c, {"TX_ABRT"})
  BY StartDmaArms, Zenon
<1> HIDE DEF chs
<1>7. /\ channel' \in [Channels -> ChannelStates]
      /\ \A ch \in Channels :
           /\ ch \in chs => /\ channel'[ch].state = "ACTIVE"
                            /\ channel'[ch].todo = i2c.size
                            /\ ~channel'[ch].done
           /\ ch \notin chs => channel'[ch] = channel[ch]
  <2>1. channel \in [Channels -> ChannelStates]
    BY <1>1 DEF Types
  <2>2. ASSUME NEW ch \in Channels, ch \in chs
        PROVE  /\ channel'[ch] \in ChannelStates
               /\ channel'[ch].state = "ACTIVE" /\ channel'[ch].todo = i2c.size
               /\ ~channel'[ch].done
    <3>1. channel'[ch] = [channel[ch] EXCEPT !.state = "ACTIVE", !.todo = i2c.size]
      BY <1>6, <2>2 DEF dma_start_transfer
    <3>2. channel[ch] \in ChannelStates /\ ~channel[ch].done /\ i2c.size \in Nat
      BY <1>2, <1>3, <2>1
    <3> QED
      BY ONLY <3>1, <3>2 DEF ChannelStates
  <2>3. \A ch \in Channels : ch \notin chs => channel'[ch] = channel[ch]
    BY ONLY <1>6 DEF dma_start_transfer
  <2>4. channel' = [ch \in Channels |-> channel'[ch]]
    BY ONLY <1>6 DEF dma_start_transfer
  <2> QED
    BY ONLY <2>1, <2>2, <2>3, <2>4
<1>8. /\ bus' \in BusStates /\ bus'.tx = bus.tx
      /\ bus'.rx = bus.rx /\ bus'.open = bus.open /\ bus'.byte = bus.byte
      /\ bus'.abrt = bus.abrt /\ bus'.dma = bus.dma \cup chs
  BY <1>1, <1>3, <1>4, <1>6 DEF Types, BusStates
<1>9. /\ i2c' \in Descriptors /\ i2c'.op = i2c.op /\ i2c'.size = i2c.size
      /\ i2c'.busy = i2c.busy /\ i2c'.async = i2c.async /\ i2c'.abort = i2c.abort
  BY <1>1 DEF Types, Descriptors
<1>10. {"TX_ABRT"} \in SUBSET Ints
  BY DEF Ints
<1>11. /\ Moves(c, "arm", caller[c].xfer, {"TX_ABRT"})
       /\ CallersExact' /\ Moving' /\ Claimed'
       /\ \A d \in Callers : d # c /\ caller[d].pc = "arm" =>
            caller[d].ints = {"TX_ABRT"}
  BY <1>1, <1>6, <1>9, <1>10, StartedCaller
<1>12. Types'
  BY <1>1, <1>7, <1>8, <1>9, <1>11 DEF Types, Moves
<1>13. ChannelsExact'
  BY <1>2, <1>3, <1>7, <1>8 DEF ChannelsExact, Active
<1>14. Active(Main)'
  BY <1>4, <1>7, <1>9 DEF Active, Main, Writing, Reading
<1>15. /\ \A i \in 1 .. Len(bus.tx) : bus.tx[i].dma /\ ~bus.tx[i].rd
       /\ bus.rx = 0 /\ bus.byte # "read" /\ ~bus.abrt
       /\ Leftover(Len(bus.tx))
  BY <1>2 DEF Calm, Leftover
<1>16. \A d \in Callers : caller'[d].pc = "arm" => caller'[d].ints = {"TX_ABRT"}
  BY <1>11 DEF Moves
<1>17. Writing' => Delivered'
  <2> SUFFICES ASSUME Writing' PROVE Delivered'
    OBVIOUS
  <2>1. Writing /\ "rdma" \notin chs
    BY <1>4, <1>9 DEF Writing, Reading
  <2> QED
    BY <1>1, <1>2, <1>3, <1>4, <1>7, <1>8, <1>9, <1>15, <2>1
    DEF Delivered, Active
<1>18. Reading' => /\ moved' + channel'["rdma"].todo = i2c'.size
                   /\ Requested(Len(bus.tx))'
  <2> SUFFICES ASSUME Reading'
               PROVE  /\ moved' + channel'["rdma"].todo = i2c'.size
                      /\ Requested(Len(bus.tx))'
    OBVIOUS
  <2>1. "rdma" \in chs
    BY <1>4, <1>9 DEF Reading
  <2>2. channel'["rdma"].todo = i2c.size /\ channel'["wdma"].todo = i2c.size
    BY <1>4, <1>7, <2>1
  <2>3. Leftover(Len(bus.tx))'
    BY <1>8, <1>15 DEF Leftover
  <2>4. channel'["rdma"].todo = channel'["wdma"].todo
          + (Len(bus'.tx) - Len(bus'.tx)) + OnWire' + bus'.rx
    BY <1>3, <1>8, <1>15, <2>2 DEF OnWire
  <2> QED
    BY <1>1, <1>2, <1>3, <1>8, <1>9, <2>2, <2>3, <2>4 DEF Requested
<1>19. channel'["wdma"].todo # 0
  BY <1>2, <1>3, <1>4, <1>7
<1>20. DmaMoving'
  <2>1. Reading' => \E k \in 0 .. Len(bus'.tx) : Requested(k)'
    <3>1. Len(bus'.tx) \in 0 .. Len(bus'.tx)
      BY <1>3, <1>8
    <3> QED
      BY <1>18, <3>1
  <2> QED
    BY <1>1, <1>2, <1>3, <1>8, <1>9, <1>15, <1>16, <1>17, <1>18, <1>19, <2>1
    DEF DmaMoving
<1> QED
  BY <1>11, <1>12, <1>13, <1>14, <1>20 DEF IInv, Phase

(* A transfer that is too long: the call returns, and keeps the instance.  *)
LEMMA StartDmaRefuses ==
  ASSUME IInv, NEW c \in Callers, StartDma(c), ~(i2c.size <= MaxDma)
  PROVE  IInv' /\ Moves(c, "idle", "refused", caller[c].ints)
<1>1. /\ Types /\ CallersExact /\ ChannelsExact /\ At(c, "start")
      /\ UNCHANGED <<sem, mask, isr, moved>>
      /\ i2c' = [i2c EXCEPT !.left = 0]
  BY DEF IInv, StartDma
<1>2. /\ UNCHANGED <<channel, bus>>
      /\ caller' = [caller EXCEPT ![c].pc = "idle", ![c].xfer = "refused"]
  BY DEF StartDma
<1>3. Calm /\ Owned(c) /\ ~sem /\ i2c.busy /\ \A d \in Callers : Owned(d) => d = c
  BY <1>1, Starts
<1>4. /\ i2c' \in Descriptors /\ i2c'.busy = i2c.busy /\ i2c'.op = i2c.op
      /\ i2c'.async = i2c.async /\ i2c'.abort = i2c.abort
      /\ i2c'.rdleft = i2c.rdleft
  BY <1>1 DEF Types, Descriptors
<1>5. Moves(c, "idle", "refused", caller[c].ints)
  BY <1>1, <1>2 DEF Types, Calls, Moves
<1>6. Types' /\ ChannelsExact'
  BY <1>1, <1>2, <1>4, <1>5 DEF Types, Moves, ChannelsExact, Active
<1>7. CallersExact'
  BY <1>1, <1>3, <1>4, <1>5 DEF CallersExact, Owned, Moves
<1>8. Claimed' /\ ~Moving'
  BY <1>1, <1>3, <1>5 DEF Claimed, CallersExact, Moves, Moving, Live, Owned
<1>9. Calm'
  BY <1>1, <1>2, <1>3, <1>4, <1>5 DEF Calm, Leftover, Active, Reading, Moves
<1> QED
  BY <1>5, <1>6, <1>7, <1>8, <1>9 DEF IInv, Phase

LEMMA StartDmaKeeps ==
  ASSUME IInv, NEW c \in Callers, StartDma(c)
  PROVE  IInv'
BY StartDmaGoes, StartDmaRefuses

LEMMA ArmKeeps ==
  ASSUME IInv, NEW c \in Callers, Arm(c)
  PROVE  IInv'
<1>1. /\ Types /\ CallersExact /\ ChannelsExact /\ Claimed /\ Phase
      /\ caller[c].pc = "arm" /\ ~isr.on
      /\ mask' = mask \cup caller[c].ints
      /\ UNCHANGED <<channel, i2c, sem, bus, isr, moved>>
  BY DEF IInv, Arm, At, TasksRun
<1>2. PICK pc \in {"wait", "idle"} :
        pc = IF caller[c].xfer = "sync" THEN "wait" ELSE "idle"
  OBVIOUS
<1>3. Moves(c, pc, caller[c].xfer, {})
  BY <1>1, <1>2 DEF Arm, Types, Calls, Moves
<1>4. caller[c].ints \subseteq Ints
  BY <1>1, Fields
<1>5. Types' /\ ChannelsExact'
  BY <1>1, <1>3, <1>4 DEF Types, Moves, ChannelsExact, Active
<1>6. caller[c].xfer \notin {"nacked", "refused"}
  BY <1>1 DEF CallersExact
<1>7. caller[c].xfer \in {"none", "sync", "async"}
  BY <1>1, <1>6, Fields
<1>8. CallersExact'
  BY <1>1, <1>2, <1>3, <1>7 DEF CallersExact, Owned, Moves
<1>9. \A d \in Callers : Live(d)' <=> Live(d)
  BY <1>1, <1>2, <1>3 DEF Live, Moves
<1>10. (Moving' <=> Moving) /\ (Active(Main)' <=> Active(Main))
  BY <1>1, <1>9 DEF Moving, Active, Main, Writing
<1>11. caller[c].xfer = "none" => caller[c].ints = {"TX_ABRT"}
  BY <1>1 DEF CallersExact, Owned
<1>12. \A d \in Callers : d # c /\ caller[d].pc = "start" =>
         caller[c].xfer = "none"
  BY <1>1 DEF CallersExact, Owned
<1>13. Claimed'
  BY <1>1, <1>2, <1>3, <1>11, <1>12 DEF Claimed, Moves, Active
<1>14. Calm => Calm'
  <2> SUFFICES ASSUME Calm PROVE Calm'
    OBVIOUS
  <2>1. /\ mask' \subseteq {"TX_ABRT", "TX_EMPTY"}
        /\ "TX_EMPTY" \in mask' => "TX_EMPTY" \in mask
    BY <1>1 DEF Calm
  <2>2. \A d \in Callers : caller'[d].pc = "arm" => caller'[d].ints = {"TX_ABRT"}
    BY <1>2, <1>3 DEF Calm, Moves
  <2> QED
    BY <1>1, <2>1, <2>2 DEF Calm, Leftover, Active, Reading
<1>15. DmaMoving => DmaMoving'
  BY <1>1, <1>3 DEF DmaMoving, Delivered, Requested, Leftover, Active, Reading,
                    Writing, OnWire, Moves
<1>16. IntMoving => IntMoving'
  <2> SUFFICES ASSUME IntMoving PROVE IntMoving'
    OBVIOUS
  <2>1. IntMasks'
    <3>1. CASE caller[c].xfer = "none"
      BY <1>1, <1>3, <1>9, <1>11, <3>1 DEF IntMoving, IntMasks, Live, Moves, Writing,
         Reading
    <3>2. CASE caller[c].xfer # "none"
      <4>1. Live(c) /\ \A d \in Callers : Live(d) => d = c
        BY <1>1, <1>7, <3>2 DEF Live, CallersExact, Owned
      <4>2. /\ mask \subseteq {"TX_ABRT"}
            /\ caller[c].ints = {"TX_ABRT", "TX_EMPTY"} \cup
                                  IF Reading THEN {"RX_FULL"} ELSE {}
        BY <1>1, <4>1 DEF IntMoving, IntMasks
      <4>3. "TX_ABRT" \in mask' /\ (Writing => "RX_FULL" \notin mask')
        BY <1>1, <4>2 DEF Writing, Reading
      <4> QED
        BY <1>1, <1>2, <1>3, <1>9, <4>1, <4>3 DEF IntMasks, Moves, Writing
    <3> QED
      BY <3>1, <3>2
  <2>2. Refused => Refused'
    BY <1>1, <1>2, <1>3, <1>9 DEF Refused, Moves
  <2>3. \A k : Commanded(k) => Commanded(k)'
    BY <1>1 DEF Commanded, Leftover, Reading, Writing, OnWire, Unqueued
  <2> QED
    BY <1>1, <2>1, <2>2, <2>3 DEF IntMoving, Active
<1> QED
  BY <1>5, <1>8, <1>10, <1>13, <1>14, <1>15, <1>16, <1>1 DEF IInv, Phase

LEMMA WakeKeeps ==
  ASSUME IInv, NEW c \in Callers, Wake(c)
  PROVE  IInv'
<1>1. /\ Types /\ CallersExact /\ ChannelsExact /\ Claimed /\ Phase
      /\ caller[c].pc = "wait" /\ sem /\ sem' = FALSE
      /\ UNCHANGED <<channel, mask, bus, isr, moved>>
  BY DEF IInv, Wake, At
<1>2. /\ i2c' \in Descriptors /\ ~i2c'.busy /\ i2c'.op = i2c.op
      /\ i2c'.rdleft = i2c.rdleft
  BY <1>1 DEF Wake, Types, Descriptors
<1>3. Moves(c, "end", "none", caller[c].ints)
  BY <1>1 DEF Wake, Types, Calls, Moves
<1>4. caller[c].xfer = "sync"
  BY <1>1 DEF CallersExact
<1>5. \A d \in Callers : d # c => ~Owned(d) /\ caller[d].pc # "start"
  BY <1>1, <1>4 DEF CallersExact, Owned
<1>6. Types' /\ ChannelsExact'
  BY <1>1, <1>2, <1>3 DEF Types, Moves, ChannelsExact, Active
<1>7. CallersExact'
  BY <1>1, <1>2, <1>3, <1>5 DEF CallersExact, Owned, Moves
<1>8. Claimed' /\ ~Moving'
  BY <1>3, <1>5 DEF Claimed, Moves, Moving, Live, Owned
<1>9. Calm
  BY <1>1 DEF Phase, Moving
<1>10. Calm'
  BY <1>1, <1>2, <1>3, <1>9 DEF Calm, Leftover, Active, Reading, Moves
<1> QED
  BY <1>6, <1>7, <1>8, <1>10 DEF IInv, Phase

LEMMA EndSyncKeeps ==
  ASSUME IInv, NEW c \in Callers, EndSync(c)
  PROVE  IInv'
<1>1. /\ Types /\ CallersExact /\ ChannelsExact /\ Claimed /\ Phase
      /\ caller[c].pc = "end" /\ caller[c].xfer = "none"
      /\ UNCHANGED <<channel, i2c, sem, mask, bus, isr, moved>>
  BY DEF IInv, EndSync, At, CallersExact
<1>2. Moves(c, "idle", "none", {})
  BY <1>1 DEF EndSync, Types, Calls, NoCall, Moves
<1>3. Types' /\ ChannelsExact'
  BY <1>1, <1>2 DEF Types, Moves, ChannelsExact, Active
<1>4. CallersExact' /\ Claimed'
  BY <1>1, <1>2 DEF CallersExact, Owned, Claimed, Moves, Active
<1>5. \A d \in Callers : (Live(d)' <=> Live(d)) /\ (Live(d) => d # c)
  BY <1>1, <1>2 DEF Live, Moves
<1>6. (Moving' <=> Moving) /\ (Active(Main)' <=> Active(Main))
  BY <1>1, <1>5 DEF Moving, Active, Main, Writing
<1>7. Calm => Calm'
  BY <1>1, <1>2 DEF Calm, Leftover, Active, Reading, Moves
<1>8. DmaMoving => DmaMoving'
  BY <1>1, <1>2 DEF DmaMoving, Delivered, Requested, Leftover, Active, Reading,
                    Writing, OnWire, Moves
<1>9. IntMoving => IntMoving'
  <2>1. IntMasks => IntMasks'
    BY <1>1, <1>2, <1>5 DEF IntMasks, Moves, Reading, Writing
  <2>2. Refused => Refused'
    BY <1>1, <1>2, <1>5 DEF Refused, Moves
  <2>3. \A k : Commanded(k) => Commanded(k)'
    BY <1>1 DEF Commanded, Leftover, Reading, Writing, OnWire, Unqueued
  <2> QED
    BY <1>1, <2>1, <2>2, <2>3 DEF IntMoving, Active
<1> QED
  BY <1>1, <1>3, <1>4, <1>6, <1>7, <1>8, <1>9 DEF IInv, Phase

LEMMA CancelKeeps ==
  ASSUME IInv, NEW c \in Callers, i2c_cancel(c)
  PROVE  IInv'
<1>1. /\ Types /\ CallersExact /\ ChannelsExact /\ Claimed /\ Phase
      /\ caller[c].pc = "idle" /\ caller[c].xfer \in {"nacked", "refused"}
      /\ TasksRun
      /\ UNCHANGED <<sem, mask, isr, moved>>
      /\ bus' = [bus EXCEPT !.abrt = FALSE]
      /\ caller' = [caller EXCEPT ![c].xfer = "none"]
  BY DEF IInv, i2c_cancel, At
<1>2. /\ i2c' \in Descriptors /\ ~i2c'.busy /\ i2c'.op = i2c.op
      /\ i2c'.rdleft = i2c.rdleft
  BY <1>1 DEF i2c_cancel, Types, Descriptors
<1>3. Moves(c, "idle", "none", caller[c].ints)
  BY <1>1 DEF Types, Calls, Moves
<1>4. /\ \A d \in Callers : d # c => ~Owned(d) /\ caller[d].pc # "start"
      /\ ~Live(c) /\ Owned(c)
  BY <1>1 DEF CallersExact, Owned, Live
<1>5. ~Moving /\ ~sem
  BY <1>1, <1>4, OneOwner DEF CallersExact, Owned
<1>6. Calm /\ \A ch \in Channels : ~Active(ch)
  BY <1>1, <1>5, Quiet DEF Phase
<1>7. /\ channel' \in [Channels -> ChannelStates]
      /\ \A ch \in Channels : channel'[ch] = channel[ch]
  BY <1>1, <1>6 DEF i2c_cancel, dma_stop_transfer, Active, Types
<1>8. /\ bus' \in BusStates /\ bus'.tx = bus.tx
      /\ bus'.rx = bus.rx /\ bus'.open = bus.open /\ bus'.byte = bus.byte
      /\ ~bus'.abrt /\ bus'.dma = bus.dma
  BY <1>1 DEF Types, BusStates
<1>9. Types' /\ ChannelsExact'
  BY <1>1, <1>2, <1>3, <1>7, <1>8 DEF Types, Moves, ChannelsExact, Active
<1>10. CallersExact'
  BY <1>1, <1>2, <1>3, <1>4, <1>5 DEF CallersExact, Owned, Moves
<1>11. Claimed' /\ ~Moving'
  BY <1>3, <1>4 DEF Claimed, Moves, Moving, Live, Owned
<1>12. Calm'
  BY <1>1, <1>2, <1>3, <1>6, <1>7, <1>8
  DEF Calm, Leftover, Active, Reading, Moves
<1> QED
  BY <1>9, <1>10, <1>11, <1>12 DEF IInv, Phase

-----------------------------------------------------------------------------
(* The handlers.                                                           *)
LEMMA ReadStatusKeeps ==
  ASSUME IInv, ReadStatus
  PROVE  IInv'
<1>1. /\ Types /\ CallersExact /\ ChannelsExact /\ Claimed /\ Phase
      /\ ~isr.on /\ Status # {} /\ Status \subseteq Ints
      /\ isr' = [on |-> TRUE, status |-> Status]
      /\ UNCHANGED <<channel, i2c, sem, mask, bus, caller, moved>>
  BY StatusBits DEF IInv, ReadStatus
<1>2. isr' \in IsrStates /\ isr'.on /\ isr'.status = Status
  BY <1>1 DEF IsrStates
<1>3. Types' /\ ChannelsExact' /\ CallersExact'
  BY <1>1, <1>2 DEF Types, ChannelsExact, Active, CallersExact, Owned
<1>4. /\ "TX_EMPTY" \in Status <=> "TX_EMPTY" \in mask /\ Len(bus.tx) = 0
      /\ "RX_FULL" \in Status <=> "RX_FULL" \in mask /\ bus.rx > 0
      /\ "TX_ABRT" \in Status <=> "TX_ABRT" \in mask /\ bus.abrt
  BY <1>1, StatusBits
<1>5. "TX_EMPTY" \in Status \/ "RX_FULL" \in Status \/ "TX_ABRT" \in Status
  BY <1>1 DEF Ints
<1>6. (Moving' <=> Moving) /\ (Active(Main)' <=> Active(Main))
  BY <1>1 DEF Moving, Live, Active, Main, Writing
<1>7. ~Moving => Calm'
  <2> SUFFICES ASSUME ~Moving PROVE Calm'
    OBVIOUS
  <2>1. Calm
    BY <1>1 DEF Phase
  <2>2. "RX_FULL" \notin Status /\ "TX_ABRT" \notin Status
    BY <1>4, <2>1 DEF Calm
  <2>3. Status = {"TX_EMPTY"} /\ "TX_EMPTY" \in mask
    BY <1>1, <1>4, <1>5, <2>2 DEF Ints
  <2> QED
    BY <1>1, <1>2, <2>1, <2>3 DEF Calm, Leftover, Active, Reading
<1>8. ASSUME Moving, DmaMoving
      PROVE  FALSE
  BY <1>4, <1>5, <1>8 DEF DmaMoving
<1>9. ASSUME NEW c \in Callers, caller[c].pc = "start"
      PROVE  FALSE
  <2>1. caller[c].xfer \in {"sync", "async"} /\ mask \subseteq {"TX_ABRT"}
    BY <1>1, <1>9 DEF CallersExact, Claimed
  <2>2. Owned(c) /\ ~Live(c)
    BY <1>9, <2>1 DEF Owned, Live
  <2>3. Calm
    BY <1>1, <2>2, OneOwner DEF Phase
  <2> QED
    BY <1>4, <1>5, <2>1, <2>3 DEF Calm
<1>10. Claimed'
  BY <1>1, <1>9 DEF Claimed
<1>11. Moving /\ IntMoving => IntMoving'
  <2> SUFFICES ASSUME Moving, IntMoving PROVE IntMoving'
    OBVIOUS
  <2>1. PICK c \in Callers : Live(c)
    BY DEF Moving
  <2>2. Owned(c) /\ \A d \in Callers : Live(d) => d = c
    BY <1>1, <2>1 DEF Live, Owned, CallersExact
  <2>3. IntMasks /\ (bus.abrt => Refused)
    BY DEF IntMoving
  <2>4. caller[c].pc # "arm"
    BY <1>4, <1>5, <2>1, <2>3 DEF IntMasks, Refused
  <2>5. "TX_ABRT" \in mask /\ (Writing => "RX_FULL" \notin mask)
    BY <2>1, <2>3, <2>4 DEF IntMasks
  <2>6. ~bus.abrt /\ Writing => Status = {"TX_EMPTY"} /\ Len(bus.tx) = 0
    <3> SUFFICES ASSUME ~bus.abrt, Writing
                 PROVE  Status = {"TX_EMPTY"} /\ Len(bus.tx) = 0
      OBVIOUS
    <3>1. "RX_FULL" \notin Status /\ "TX_ABRT" \notin Status
      BY <1>4, <2>5
    <3> QED
      BY <1>1, <1>4, <1>5, <3>1 DEF Ints
  <2>7. IntMasks'
    BY <1>1, <1>2, <1>4, <2>2, <2>4, <2>5, <2>6 DEF IntMasks, Live, Writing
  <2>8. Refused => Refused'
    BY <1>1 DEF Refused, Live
  <2>9. ASSUME NEW k \in 0 .. Len(bus.tx), Commanded(k), ~bus.abrt
        PROVE  Commanded(k)'
    <3>1. ~(k > 0 \/ (Len(bus.tx) > 0 /\ ~bus.open))
      <4>1. k > 0 => Len(bus.tx) > 0
        BY <1>1, Fields
      <4> QED
        BY <1>4, <1>5, <2>9, <4>1 DEF Commanded
    <3> QED
      BY <1>1, <2>9, <3>1 DEF Commanded, Leftover, Reading, Writing, OnWire, Unqueued
  <2> QED
    BY <1>1, <2>7, <2>8, <2>9 DEF IntMoving, Active
<1> QED
  BY <1>1, <1>3, <1>6, <1>7, <1>8, <1>10, <1>11 DEF IInv, Phase

(* A handler that does not end the transfer, and one that does.            *)
LEMMA NoReport ==
  ASSUME Types, NEW over, ~over, NEW outcome, Report(over, outcome)
  PROVE  caller' = caller /\ sem' \in BOOLEAN /\ (sem' <=> sem)
BY DEF Types, Report

LEMMA OverReport ==
  ASSUME IInv, Moving, NEW over, over, NEW outcome \in {"none", "nacked"},
         Report(over, outcome), i2c'.async <=> i2c.async,
         outcome = "none" =>
           /\ i2c'.busy <=> i2c.busy /\ ~i2c.async
           /\ moved' = i2c'.size
           /\ \A c \in Callers : caller[c].pc = "arm" => caller[c].ints = {"TX_ABRT"},
         outcome = "nacked" =>
           /\ i2c'.busy /\ i2c'.abort
           /\ \A c \in Callers : Live(c) => caller[c].pc # "arm"
  PROVE  /\ caller' \in [Callers -> Calls] /\ sem' \in BOOLEAN
         /\ \A c \in Callers : /\ caller'[c].pc = caller[c].pc
                               /\ caller'[c].ints = caller[c].ints
                               /\ caller[c].pc # "start"
         /\ CallersExact' /\ Claimed' /\ ~Moving'
<1>1. PICK c \in Callers : Live(c)
  BY DEF Moving
<1>2. Types /\ CallersExact /\ ~sem /\ caller[c].xfer \in {"sync", "async"}
      /\ caller[c].pc # "start"
  BY <1>1 DEF IInv, Moving, Live
<1>3. /\ Owned(c) /\ i2c.busy
      /\ \A d \in Callers : Owned(d) => d = c
      /\ \A d \in Callers : Live(d) => d = c
      /\ i2c.async <=> caller[c].xfer = "async"
  BY <1>1, <1>2 DEF CallersExact, Owned, Live
<1>4. \A d \in Callers : caller[d].pc # "start"
  BY <1>2, <1>3 DEF CallersExact, Owned
<1>5. CASE i2c.async
  <2>1. /\ sem' \in BOOLEAN /\ ~sem'
        /\ caller' = [d \in Callers |-> IF caller[d].xfer # "async" THEN caller[d]
             ELSE [caller[d] EXCEPT !.xfer = outcome]]
    BY <1>2, <1>5 DEF Report, Types
  <2>2. caller[c].xfer = "async" /\ \A d \in Callers : d # c => caller[d].xfer = "none"
    BY <1>3, <1>5 DEF Owned
  <2>3. Moves(c, caller[c].pc, outcome, caller[c].ints)
    <3>1. \A d \in Callers : d # c => caller'[d] = caller[d]
      BY <2>1, <2>2
    <3>2. caller'[c] = [caller[c] EXCEPT !.xfer = outcome] /\ caller[c] \in Calls
      BY <1>2, <2>1, <2>2 DEF Types
    <3>3. /\ caller'[c] \in Calls
          /\ caller'[c].pc = caller[c].pc /\ caller'[c].xfer = outcome
          /\ caller'[c].ints = caller[c].ints
      BY <3>2 DEF Calls
    <3>4. caller' \in [Callers -> Calls]
      <4>1. \A d \in Callers : caller'[d] \in Calls
        BY <1>2, <3>1, <3>3 DEF Types
      <4> QED
        BY <2>1, <4>1
    <3> QED
      BY <3>1, <3>3, <3>4 DEF Moves
  <2>4. caller[c].pc # "wait"
    BY <1>2, <2>2 DEF CallersExact
  <2>5. CASE outcome = "none"
    <3>1. CallersExact'
      BY <1>2, <1>3, <1>5, <2>1, <2>2, <2>3, <2>4, <2>5 DEF CallersExact, Owned, Moves
    <3>2. ~Moving' /\ Claimed'
      BY <1>4, <2>2, <2>3, <2>5 DEF Moving, Live, Claimed, Moves
    <3> QED
      BY <1>4, <2>1, <2>3, <3>1, <3>2 DEF Moves
  <2>6. CASE outcome = "nacked"
    <3>0. caller[c].pc # "end"
      BY <1>2 DEF CallersExact
    <3>1. caller[c].pc = "idle"
      BY <1>1, <1>2, <2>4, <2>6, <3>0, Fields
    <3>2. CallersExact'
      BY <1>2, <1>3, <1>5, <2>1, <2>2, <2>3, <2>6, <3>1 DEF CallersExact, Owned, Moves
    <3>3. ~Moving' /\ Claimed'
      BY <1>4, <2>2, <2>3, <2>6 DEF Moving, Live, Claimed, Moves
    <3> QED
      BY <1>4, <2>1, <2>3, <3>2, <3>3 DEF Moves
  <2> QED
    BY <2>5, <2>6
<1>6. CASE ~i2c.async
  <2>1. sem' \in BOOLEAN /\ sem' /\ caller' = caller
    BY <1>2, <1>6, Zenon DEF Report, Types
  <2>2. caller[c].xfer = "sync" /\ i2c'.busy /\ (i2c'.abort \/ moved' = i2c'.size)
    BY <1>2, <1>3, <1>6
  <2>3. CallersExact'
    BY <1>2, <1>3, <1>6, <2>1, <2>2 DEF CallersExact, Owned
  <2>4. ~Moving' /\ Claimed'
    BY <1>4, <2>1 DEF Moving, Claimed
  <2> QED
    BY <1>2, <1>4, <2>1, <2>3, <2>4 DEF Types
<1> QED
  BY <1>5, <1>6

(* What a handler of the FIFOs' interrupts finds in a transfer.            *)
LEMMA Serving ==
  ASSUME IInv, isr.on
  PROVE  /\ ~Moving => Calm
         /\ Moving => IntMoving
         /\ \A c \in Callers : /\ caller[c].pc # "start"
                               /\ caller[c].pc = "arm" => ~Live(c)
                                     \/ ~Moving
         /\ Moving => \A c \in Callers : caller[c].pc = "arm" =>
                                           caller[c].ints = {"TX_ABRT"}
<1>1. Moving => IntMoving
  BY DEF IInv, Phase, DmaMoving
<1>2. ASSUME Moving, NEW c \in Callers, caller[c].pc = "arm"
      PROVE  ~Live(c) /\ caller[c].ints = {"TX_ABRT"}
  <2>1. ~Live(c)
    BY <1>1, <1>2 DEF IntMoving, IntMasks
  <2>2. caller[c].xfer \notin {"sync", "async", "nacked", "refused"}
    BY <1>2, <2>1 DEF IInv, CallersExact, Live
  <2>3. ~Owned(c)
    BY <2>2, Fields DEF IInv, Owned
  <2> QED
    BY <1>2, <2>1, <2>3 DEF IInv, CallersExact
<1> QED
  BY <1>1, <1>2 DEF IInv, Phase, Claimed

LEMMA IsrAbortKeeps ==
  ASSUME IInv, IsrAbort
  PROVE  IInv'
<1>1. /\ Types /\ CallersExact /\ ChannelsExact
      /\ isr.on /\ "TX_ABRT" \in isr.status
      /\ isr' = [on |-> FALSE, status |-> {}] /\ mask' = {}
      /\ i2c' = [i2c EXCEPT !.abort = TRUE] /\ Report(TRUE, "nacked")
      /\ bus' = [bus EXCEPT !.abrt = FALSE] /\ UNCHANGED <<channel, moved>>
  BY DEF IInv, IsrAbort, IsrEnds
<1>2. /\ i2c' \in Descriptors /\ (i2c'.busy <=> i2c.busy) /\ i2c'.abort
      /\ (i2c'.async <=> i2c.async)
  BY <1>1 DEF Types, Descriptors
<1>3. /\ bus' \in BusStates /\ bus'.tx = bus.tx /\ bus'.rx = bus.rx
      /\ bus'.open = bus.open /\ bus'.byte = bus.byte /\ ~bus'.abrt
      /\ bus'.dma = bus.dma
  BY <1>1 DEF Types, BusStates
<1>4. isr' \in IsrStates /\ ~isr'.on
  BY <1>1 DEF IsrStates
<1>5. Moving
  BY <1>1, Serving DEF Calm
<1>6. IntMoving /\ bus.abrt /\ Refused
  BY <1>1, <1>5, Serving DEF IntMoving, IntMasks
<1>7. i2c.busy
  BY <1>5, OneOwner DEF Moving, Live, Owned
<1>8. /\ caller' \in [Callers -> Calls] /\ sem' \in BOOLEAN
      /\ \A c \in Callers : /\ caller'[c].pc = caller[c].pc
                            /\ caller'[c].ints = caller[c].ints
      /\ CallersExact' /\ Claimed' /\ ~Moving'
  BY <1>1, <1>2, <1>5, <1>6, <1>7, OverReport DEF Refused
<1>9. Types' /\ ChannelsExact'
  BY <1>1, <1>2, <1>3, <1>4, <1>8 DEF Types, ChannelsExact, Active
<1>10. \A c \in Callers : caller'[c].pc = "arm" => caller'[c].ints = {"TX_ABRT"}
  BY <1>1, <1>5, <1>8, Serving
<1>11. Leftover(Len(bus.tx))'
  BY <1>3, <1>6 DEF Refused, Leftover
<1>12. Calm'
  BY <1>1, <1>3, <1>4, <1>6, <1>10, <1>11 DEF Calm, Refused, IntMoving, Active
<1> QED
  BY <1>8, <1>9, <1>12 DEF IInv, Phase

LEMMA IsrWriteKeeps ==
  ASSUME IInv, IsrWrite
  PROVE  IInv' /\ Honest
<1>1. /\ Types /\ CallersExact /\ ChannelsExact
      /\ isr.on /\ "TX_ABRT" \notin isr.status /\ Writing
      /\ isr' = [on |-> FALSE, status |-> {}]
      /\ mask' = IF i2c.left = 0 THEN mask \ {"TX_EMPTY"} ELSE mask
      /\ Report(i2c.left = 0, "none") /\ UNCHANGED <<channel, moved>>
  BY DEF IInv, IsrWrite, ServeWrite, IsrEnds, Writing
<1>2. /\ i2c.size \in Nat /\ i2c.left \in Nat /\ Len(bus.tx) \in Nat
      /\ mask \subseteq Ints /\ bus.tx \in Seq(Commands)
      /\ i2c.busy \in BOOLEAN /\ i2c.async \in BOOLEAN
  BY <1>1, Fields DEF Types
<1>3. PICK n \in Nat : n = i2c.left
  BY <1>2
<1>3q. PICK q, e : q = Queued(n) /\ e = Enqueue(n, FALSE)
  OBVIOUS
<1>4. Moving /\ IntMoving
  <2>1. CASE ~Moving
    <3>1. Calm
      BY <1>1, <2>1, Serving
    <3> QED
      BY <1>1, <3>1 DEF Calm, Reading, Writing
  <2> QED
    BY <1>1, <2>1, Serving
<1>5. /\ ~bus.abrt /\ Len(bus.tx) = 0 /\ IntMasks
      /\ \E k \in 0 .. Len(bus.tx) : Commanded(k)
      /\ (\A ch \in Channels : ~Active(ch)) /\ ~i2c.abort /\ i2c.size > 0
  BY <1>1, <1>4 DEF IntMoving, IntMasks
<1>6. Commanded(0)
  BY <1>5
<1>7. /\ moved + n = i2c.size /\ bus.rx = 0 /\ bus.byte # "read"
      /\ bus.open <=> n > 0 /\ n < i2c.size
  <2>1. Unqueued = n /\ ~Reading
    BY <1>1, <1>3 DEF Unqueued, Reading, Writing
  <2>2. moved + (Len(bus.tx) - 0) + i2c.left = i2c.size
    BY <1>1, <1>6 DEF Commanded
  <2>3. moved \in Nat
    BY <1>1 DEF Types
  <2> QED
    BY <1>1, <1>2, <1>3, <1>5, <1>6, <2>1, <2>2, <2>3 DEF Commanded
<1>8. /\ q \in 0 .. n /\ e \in Seq(Commands) /\ Len(e) = q /\ q <= Depth
      /\ \A i \in 1 .. q : ~e[i].dma /\ ~e[i].rd /\ (e[i].last <=> i = n)
      /\ n > 0 => q > 0
  <2>1. /\ Queued(n) \in 0 .. n
        /\ n > 0 /\ Len(bus.tx) < Depth => Queued(n) > 0
        /\ Enqueue(n, FALSE) \in Seq(Commands)
        /\ Len(Enqueue(n, FALSE)) = Len(bus.tx) + Queued(n)
        /\ Len(Enqueue(n, FALSE)) <= Depth
        /\ \A i \in Len(bus.tx) + 1 .. Len(bus.tx) + Queued(n) :
             /\ ~Enqueue(n, FALSE)[i].dma /\ (Enqueue(n, FALSE)[i].rd <=> FALSE)
             /\ Enqueue(n, FALSE)[i].last <=> i = Len(bus.tx) + n
    BY <1>1, Enqueued
  <2>2. 0 < Depth
    BY I2cAssumption
  <2> QED
    <3>1. Len(bus.tx) + q = q /\ Len(bus.tx) + 1 = 1 /\ Len(bus.tx) + n = n
          /\ q \in 0 .. n
      BY <1>3, <1>3q, <1>5, <2>1
    <3>2. \A i \in 1 .. q : ~e[i].dma /\ ~e[i].rd /\ (e[i].last <=> i = n)
      BY <1>3, <1>3q, <2>1, <3>1
    <3> QED
      BY <1>3, <1>3q, <1>5, <2>1, <2>2, <3>1, <3>2
<1>9. /\ i2c' = [i2c EXCEPT !.left = n - q,
                            !.busy = i2c.busy /\ ~(n = 0 /\ i2c.async)]
      /\ bus' = [bus EXCEPT !.abrt = FALSE, !.tx = e]
  BY <1>3, <1>3q DEF IsrWrite, ServeWrite
<1>10. PICK busy \in BOOLEAN : busy = (i2c.busy /\ ~(n = 0 /\ i2c.async))
  OBVIOUS
<1>11. /\ i2c' \in Descriptors /\ i2c'.op = i2c.op /\ i2c'.size = i2c.size
       /\ (i2c'.busy <=> i2c.busy /\ ~(n = 0 /\ i2c.async))
       /\ (i2c'.async <=> i2c.async) /\ (i2c'.abort <=> i2c.abort)
       /\ i2c'.left = n - q
  <2>1. n - q \in Nat
    BY <1>8
  <2> QED
    BY <1>1, <1>9, <1>10, <2>1 DEF Types, Descriptors
<1>12. /\ bus' \in BusStates /\ bus'.tx = e /\ bus'.rx = bus.rx
       /\ bus'.open = bus.open /\ bus'.byte = bus.byte /\ ~bus'.abrt
       /\ bus'.dma = bus.dma
  BY <1>1, <1>8, <1>9 DEF Types, BusStates
<1>13. isr' \in IsrStates /\ ~isr'.on
  BY <1>1 DEF IsrStates
<1>14. /\ \A c \in Callers : /\ caller[c].pc # "start"
                             /\ caller[c].pc = "arm" => ~Live(c)
                             /\ caller[c].pc = "arm" => caller[c].ints = {"TX_ABRT"}
       /\ "TX_ABRT" \in mask /\ "RX_FULL" \notin mask
  <2>1. PICK c \in Callers : Live(c)
    BY <1>4 DEF Moving
  <2>2. /\ \A d \in Callers : /\ caller[d].pc # "start"
                              /\ caller[d].pc = "arm" => ~Live(d)
                              /\ caller[d].pc = "arm" => caller[d].ints = {"TX_ABRT"}
    BY <1>1, <1>4, Serving
  <2> QED
    BY <1>1, <1>5, <2>1, <2>2 DEF IntMasks
<1>15. CASE n = 0
  <2>1. Report(TRUE, "none")
    BY <1>1, <1>3, <1>15
  <2>2. moved' = i2c'.size
    BY <1>1, <1>2, <1>7, <1>11, <1>15 DEF Types
  <2>3. /\ caller' \in [Callers -> Calls] /\ sem' \in BOOLEAN
        /\ \A c \in Callers : /\ caller'[c].pc = caller[c].pc
                              /\ caller'[c].ints = caller[c].ints
        /\ CallersExact' /\ Claimed' /\ ~Moving'
    BY <1>4, <1>11, <1>14, <1>15, <2>1, <2>2, OverReport
  <2>4. mask' \subseteq {"TX_ABRT"}
    BY <1>1, <1>2, <1>3, <1>14, <1>15 DEF Ints
  <2>5. Types' /\ ChannelsExact'
    BY <1>1, <1>8, <1>11, <1>12, <1>13, <2>3, <2>4
    DEF Types, ChannelsExact, Active, Ints
  <2>6. Len(bus'.tx) = 0
    BY <1>8, <1>12, <1>15
  <2>7. Leftover(Len(bus.tx))'
    BY <2>6 DEF Leftover
  <2>8. \A c \in Callers : caller'[c].pc = "arm" => caller'[c].ints = {"TX_ABRT"}
    BY <1>14, <2>3
  <2>9. Calm'
    BY <1>1, <1>5, <1>7, <1>12, <1>13, <1>15, <2>4, <2>6, <2>7, <2>8
    DEF Calm, Active
  <2>10. Honest
    BY <1>11, <2>2 DEF Honest
  <2> QED
    BY <2>3, <2>5, <2>9, <2>10 DEF IInv, Phase
<1>16. CASE n > 0
  <2>1. caller' = caller /\ sem' \in BOOLEAN /\ (sem' <=> sem) /\ mask' = mask
    <3>1. ~(i2c.left = 0)
      BY <1>3, <1>16
    <3> QED
      BY <1>1, <3>1, NoReport
  <2>2. Types' /\ ChannelsExact'
    BY <1>1, <1>8, <1>11, <1>12, <1>13, <2>1 DEF Types, ChannelsExact, Active
  <2>3. CallersExact' /\ Claimed'
    BY <1>1, <1>11, <1>14, <1>16, <2>1 DEF CallersExact, Owned, Claimed
  <2>4. Moving' /\ \A c \in Callers : Live(c)' <=> Live(c)
    BY <1>4, <2>1 DEF Moving, Live
  <2>5. (\A ch \in Channels : ~Active(ch)') /\ ~Active(Main)'
    BY <1>1, <1>5, I2cAssumption DEF Active, Main
  <2>6. IntMasks'
    BY <1>11, <1>13, <1>14, <2>1, <2>4 DEF IntMasks, Writing
  <2>7. Writing' /\ ~Reading' /\ Unqueued' = n - q
    BY <1>1, <1>11 DEF Writing, Reading, Unqueued
  <2>8. Commanded(0)'
    <3>1. Leftover(0)'
      BY DEF Leftover
    <3>2. \A i \in 1 .. q : bus'.tx[i].last <=> i = q /\ n - q = 0
      BY <1>8, <1>12
    <3>3. q > 0 /\ Len(bus'.tx) = q /\ q \in Nat /\ q - 0 = q
      BY <1>8, <1>12, <1>16
    <3>4. moved' + q + i2c'.left = i2c'.size
      BY <1>1, <1>2, <1>7, <1>8, <1>11 DEF Types
    <3>5. ~bus'.open => moved' = 0
      BY <1>1, <1>2, <1>7, <1>12, <1>16 DEF Types
    <3> QED
      BY <1>7, <1>8, <1>12, <1>13, <2>7, <3>1, <3>2, <3>3, <3>4, <3>5 DEF Commanded
  <2>9. 0 \in 0 .. Len(bus'.tx)
    BY <1>8, <1>12
  <2>10. IntMoving'
    BY <1>5, <1>11, <1>12, <2>5, <2>6, <2>8, <2>9 DEF IntMoving
  <2>11. Honest
    BY <2>1 DEF Honest, CallsBack
  <2> QED
    BY <2>2, <2>3, <2>4, <2>5, <2>10, <2>11 DEF IInv, Phase
<1> QED
  BY <1>15, <1>16

LEMMA IsrReadKeeps ==
  ASSUME IInv, IsrRead
  PROVE  IInv' /\ Honest
<1> DEFINE full == "RX_FULL" \in isr.status
<1>1. /\ Types /\ CallersExact /\ ChannelsExact
      /\ isr.on /\ "TX_ABRT" \notin isr.status /\ Reading
      /\ isr' = [on |-> FALSE, status |-> {}] /\ UNCHANGED channel
  BY DEF IInv, IsrRead, IsrEnds, Reading
<1>2. /\ i2c.size \in Nat /\ i2c.left \in Nat /\ i2c.rdleft \in Nat
      /\ bus.rx \in Nat /\ Len(bus.tx) \in Nat /\ moved \in Nat
      /\ mask \subseteq Ints /\ bus.tx \in Seq(Commands)
      /\ i2c.busy \in BOOLEAN /\ i2c.async \in BOOLEAN
  BY <1>1, Fields DEF Types
<1>3. PICK n \in Nat, len \in Nat : n = i2c.rdleft /\ len = Len(bus.tx)
  BY <1>2
<1>3q. PICK q, e : q = Queued(n) /\ e = Enqueue(n, TRUE)
  OBVIOUS
<1>4. PICK got : got = IF full THEN Least(i2c.left, bus.rx) ELSE 0
  OBVIOUS
<1>5. PICK over \in BOOLEAN : over = (full /\ i2c.left = got)
  OBVIOUS
<1>6. got \in Nat /\ got <= i2c.left /\ got <= bus.rx
      /\ (full /\ bus.rx <= i2c.left => got = bus.rx)
  BY <1>2, <1>4 DEF Least
<1>7. over <=> full /\ i2c.left = got
  BY <1>5
<1>8. /\ mask' = mask
           \ ((IF "TX_EMPTY" \in isr.status /\ n = 0 THEN {"TX_EMPTY"} ELSE {})
              \cup (IF over THEN {"RX_FULL"} ELSE {}))
      /\ i2c' = [i2c EXCEPT !.left = @ - got, !.rdleft = @ - q,
                            !.busy = @ /\ ~(over /\ i2c.async)]
      /\ Report(over, "none") /\ moved' = moved + got
      /\ bus' = [bus EXCEPT !.abrt = FALSE, !.rx = @ - got, !.tx = e]
  BY <1>3, <1>3q, <1>4, <1>5 DEF IsrRead
<1>9. /\ q \in 0 .. n /\ e \in Seq(Commands) /\ Len(e) = len + q
      /\ len + q <= Depth
      /\ \A i \in 1 .. len : e[i] = bus.tx[i]
      /\ \A i \in len + 1 .. len + q :
           ~e[i].dma /\ e[i].rd /\ (e[i].last <=> i = len + n)
      /\ n > 0 /\ len < Depth => q > 0
      /\ n = 0 => e = bus.tx
  <2>1. /\ Queued(n) \in 0 .. n
        /\ n > 0 /\ Len(bus.tx) < Depth => Queued(n) > 0
        /\ Enqueue(n, TRUE) \in Seq(Commands)
        /\ Len(Enqueue(n, TRUE)) = Len(bus.tx) + Queued(n)
        /\ Len(Enqueue(n, TRUE)) <= Depth
        /\ \A i \in 1 .. Len(bus.tx) : Enqueue(n, TRUE)[i] = bus.tx[i]
        /\ \A i \in Len(bus.tx) + 1 .. Len(bus.tx) + Queued(n) :
             /\ ~Enqueue(n, TRUE)[i].dma /\ (Enqueue(n, TRUE)[i].rd <=> TRUE)
             /\ Enqueue(n, TRUE)[i].last <=> i = Len(bus.tx) + n
    BY <1>1, Enqueued
  <2>2. n = 0 => e = bus.tx
    BY <1>1, <1>3, <1>3q, EnqueuedNone
  <2> QED
    BY <1>3, <1>3q, <2>1, <2>2
<1>10. n - q \in Nat /\ i2c.left - got \in Nat /\ bus.rx - got \in Nat
       /\ moved + got \in Nat /\ q \in Nat /\ q <= n
  <2>1. q \in Nat /\ q <= n
    <3>1. q \in 0 .. n
      BY ONLY <1>9
    <3> QED
      BY ONLY <3>1, n \in Nat
  <2>2. /\ i2c.left \in Nat /\ bus.rx \in Nat /\ moved \in Nat
        /\ got \in Nat /\ got <= i2c.left /\ got <= bus.rx
    BY ONLY <1>2, <1>6
  <2> QED
    BY ONLY <2>1, <2>2, n \in Nat
<1>11. /\ i2c' \in Descriptors /\ i2c'.op = i2c.op /\ i2c'.size = i2c.size
       /\ (i2c'.busy <=> i2c.busy /\ ~(over /\ i2c.async))
       /\ (i2c'.async <=> i2c.async) /\ (i2c'.abort <=> i2c.abort)
       /\ i2c'.left = i2c.left - got /\ i2c'.rdleft = n - q
  <2>1. PICK busy \in BOOLEAN : busy = (i2c.busy /\ ~(over /\ i2c.async))
    OBVIOUS
  <2>2. i2c' = [i2c EXCEPT !.left = i2c.left - got, !.rdleft = n - q, !.busy = busy]
    BY <1>3, <1>3q, <1>8, <2>1
  <2> QED
    BY <1>1, <1>10, <2>1, <2>2 DEF Types, Descriptors
<1>12. /\ bus' \in BusStates /\ bus'.tx = e /\ bus'.rx = bus.rx - got
       /\ bus'.open = bus.open /\ bus'.byte = bus.byte /\ ~bus'.abrt
       /\ bus'.dma = bus.dma
  BY <1>1, <1>8, <1>9, <1>10 DEF Types, BusStates
<1>13. isr' \in IsrStates /\ ~isr'.on
  BY <1>1 DEF IsrStates
<1>14. mask' \subseteq mask /\ ("TX_ABRT" \in mask => "TX_ABRT" \in mask')
       /\ (over => "RX_FULL" \notin mask')
       /\ ("TX_EMPTY" \in isr.status /\ n = 0 => "TX_EMPTY" \notin mask')
  BY <1>8
<1> HIDE DEF full
<1>15. (Reading' <=> Reading) /\ (Writing' <=> Writing) /\ ~Writing
  BY <1>1, <1>11 DEF Reading, Writing
<1>16. CASE ~Moving
  <2>1. Calm
    BY <1>1, <1>16, Serving
  <2>2. ~full /\ n = 0 /\ len = 0 /\ isr.status = {"TX_EMPTY"}
    BY <1>1, <1>3, <2>1 DEF Calm, full
  <2>3. got = 0 /\ ~over /\ q = 0 /\ e = bus.tx
    BY <1>4, <1>7, <1>9, <2>2
  <2>4. caller' = caller /\ sem' \in BOOLEAN /\ (sem' <=> sem)
    BY <1>1, <1>8, <2>3, NoReport
  <2>5. moved' = moved /\ bus'.rx = bus.rx /\ "TX_EMPTY" \notin mask'
    BY <1>2, <1>8, <1>12, <1>14, <2>2, <2>3
  <2>6. mask' \subseteq {"TX_ABRT"}
    BY <1>14, <2>1, <2>5 DEF Calm
  <2>7. Types' /\ ChannelsExact'
    BY <1>1, <1>10, <1>11, <1>12, <1>13, <2>3, <2>4, <2>5, <2>6
    DEF Types, ChannelsExact, Active, Ints
  <2>8. \A c \in Callers : caller[c].pc # "start"
    BY <1>1, Serving
  <2>9. CallersExact' /\ Claimed' /\ ~Moving'
    BY <1>1, <1>11, <1>16, <2>3, <2>4, <2>5, <2>8
    DEF CallersExact, Owned, Claimed, Moving, Live
  <2>10. Calm'
    BY <1>1, <1>12, <1>13, <2>1, <2>3, <2>4, <2>5, <2>6, <1>15
    DEF Calm, Leftover, Active
  <2>11. Honest
    BY <2>4 DEF Honest, CallsBack
  <2> QED
    BY <2>7, <2>9, <2>10, <2>11 DEF IInv, Phase
<1>17. CASE Moving
  <2>1. IntMoving
    BY <1>1, <1>17, Serving
  <2>2. /\ ~bus.abrt /\ IntMasks /\ \E k \in 0 .. Len(bus.tx) : Commanded(k)
        /\ (\A ch \in Channels : ~Active(ch)) /\ ~i2c.abort /\ i2c.size > 0
    BY <1>1, <2>1 DEF IntMoving, IntMasks
  <2>3. PICK k \in 0 .. Len(bus.tx) : Commanded(k)
    BY <2>2
  <2>4. ~(k > 0 \/ (Len(bus.tx) > 0 /\ ~bus.open)) /\ k = 0
    BY <1>1, <1>2, <2>3 DEF Commanded
  <2>5. /\ moved + i2c.left = i2c.size
        /\ i2c.left = n + len + OnWire + bus.rx
        /\ \A i \in 1 .. len : /\ ~bus.tx[i].dma /\ bus.tx[i].rd
                               /\ bus.tx[i].last <=> i = len /\ n = 0
        /\ len = 0 => (bus.open <=> n > 0 /\ n < i2c.size)
        /\ len > 0 => bus.open
        /\ OnWire \in Nat
    <3>1. Unqueued = n
      BY <1>1, <1>3 DEF Unqueued
    <3>2. Commanded(0) /\ OnWire \in Nat
      BY <2>3, <2>4 DEF OnWire
    <3>3. len - 0 = len
      OBVIOUS
    <3>4. /\ moved + i2c.left = i2c.size
          /\ i2c.left = i2c.rdleft + (Len(bus.tx) - 0) + OnWire + bus.rx
          /\ \A i \in 0 + 1 .. Len(bus.tx) :
               /\ ~bus.tx[i].dma /\ (bus.tx[i].rd <=> Reading)
               /\ bus.tx[i].last <=> i = Len(bus.tx) /\ Unqueued = 0
          /\ Len(bus.tx) = 0 => (bus.open <=> Unqueued > 0 /\ Unqueued < i2c.size)
      BY ONLY <1>1, <3>2 DEF Commanded
    <3>5. len > 0 => bus.open
      BY ONLY <1>3, <2>4
    <3>6. 0 + 1 = 1
      OBVIOUS
    <3> QED
      BY ONLY <1>1, <1>3, <3>1, <3>2, <3>3, <3>4, <3>5, <3>6
  <2>6. full => got = bus.rx
    BY <1>2, <1>6, <2>5
  <2>7. /\ \A c \in Callers : /\ caller[c].pc # "start"
                              /\ caller[c].pc = "arm" => ~Live(c)
                              /\ caller[c].pc = "arm" => caller[c].ints = {"TX_ABRT"}
        /\ "TX_ABRT" \in mask
    <3>1. PICK c \in Callers : Live(c)
      BY <1>17 DEF Moving
    <3>2. /\ \A d \in Callers : /\ caller[d].pc # "start"
                                /\ caller[d].pc = "arm" => ~Live(d)
                                /\ caller[d].pc = "arm" => caller[d].ints = {"TX_ABRT"}
      BY <1>1, <1>17, Serving
    <3> QED
      BY <2>2, <3>1, <3>2 DEF IntMasks
  <2>8. OnWire' = OnWire
    BY <1>12 DEF OnWire
  <2>9. CASE over
    <3>1. /\ n = 0 /\ len = 0 /\ OnWire = 0 /\ bus.rx = got /\ moved + got = i2c.size
          /\ ~bus.open /\ e = bus.tx
      <4>1. full /\ i2c.left = got /\ got = bus.rx
        BY <1>7, <2>6, <2>9
      <4>2. bus.rx = n + len + OnWire + bus.rx
        BY <2>5, <4>1
      <4>3. n = 0 /\ len = 0 /\ OnWire = 0
        BY <1>2, <2>5, <4>2
      <4> QED
        BY <1>9, <2>5, <4>1, <4>3
    <3>2. Report(TRUE, "none") /\ moved' = i2c'.size
      <4>1. over = TRUE
        BY <2>9
      <4> QED
        BY <1>8, <1>11, <3>1, <4>1
    <3>3. /\ caller' \in [Callers -> Calls] /\ sem' \in BOOLEAN
          /\ \A c \in Callers : /\ caller'[c].pc = caller[c].pc
                                /\ caller'[c].ints = caller[c].ints
          /\ CallersExact' /\ Claimed' /\ ~Moving'
      BY <1>11, <1>17, <2>7, <2>9, <3>2, OverReport
    <3>4. mask' \subseteq {"TX_ABRT", "TX_EMPTY"}
      BY <1>2, <1>14, <2>9 DEF Ints
    <3>5. Types' /\ ChannelsExact'
      BY <1>1, <1>8, <1>9, <1>10, <1>11, <1>12, <1>13, <3>3, <3>4
      DEF Types, ChannelsExact, Active, Ints
    <3>6. Len(bus'.tx) = 0
      BY <1>3, <1>12, <3>1
    <3>7. Leftover(Len(bus.tx))'
      BY <3>6 DEF Leftover
    <3>8. \A c \in Callers : caller'[c].pc = "arm" => caller'[c].ints = {"TX_ABRT"}
      BY <2>7, <3>3
    <3>9. bus'.rx = 0 /\ bus'.byte # "read" /\ ~bus'.open /\ i2c'.rdleft = 0
      <4>1. n - q = 0 /\ bus.rx - got = 0
        <5>1. n = 0 /\ got = bus.rx
          BY <3>1
        <5> QED
          BY <1>2, <1>10, <5>1
      <4>2. bus.byte # "read"
        BY <3>1 DEF OnWire
      <4> QED
        BY <1>11, <1>12, <3>1, <4>1, <4>2
    <3>10. Calm'
      BY <1>1, <1>12, <1>13, <1>15, <2>2, <3>4, <3>6, <3>7, <3>8, <3>9 DEF Calm, Active
    <3>11. Honest
      BY <1>11, <3>2 DEF Honest
    <3> QED
      BY <3>3, <3>5, <3>10, <3>11 DEF IInv, Phase
  <2>10. CASE ~over
    <3>1. caller' = caller /\ sem' \in BOOLEAN /\ (sem' <=> sem)
      BY <1>1, <1>8, <2>10, NoReport
    <3>2. Types' /\ ChannelsExact'
      <4>1. ChannelsExact'
        BY ONLY <1>1, <1>12 DEF ChannelsExact, Active
      <4>2. Len(bus'.tx) <= Depth /\ moved' \in Nat
        BY <1>8, <1>9, <1>10, <1>12
      <4> QED
        BY <1>1, <1>2, <1>11, <1>12, <1>13, <1>14, <3>1, <4>1, <4>2 DEF Types
    <3>3. CallersExact' /\ Claimed'
      BY <1>1, <1>11, <1>17, <2>7, <2>10, <3>1
      DEF CallersExact, Owned, Claimed, Moving
    <3>4. Moving' /\ \A c \in Callers : Live(c)' <=> Live(c)
      BY <1>17, <3>1 DEF Moving, Live
    <3>5. (\A ch \in Channels : ~Active(ch)') /\ ~Active(Main)'
      BY <1>1, <2>2, I2cAssumption DEF Active, Main
    <3>6. IntMasks'
      BY <1>13, <1>14, <1>15, <2>7, <3>1, <3>4 DEF IntMasks
    <3>7. Unqueued' = n - q
      BY <1>1, <1>11, <1>15 DEF Unqueued
    <3>8. Commanded(0)'
      <4>1. Leftover(0)'
        BY DEF Leftover
      <4>2. Len(bus'.tx) = len + q /\ len + q - 0 = len + q
        BY <1>9, <1>10, <1>12
      <4>3. ASSUME NEW i \in 1 .. len + q
            PROVE  /\ ~bus'.tx[i].dma /\ bus'.tx[i].rd
                   /\ bus'.tx[i].last <=> i = len + q /\ n - q = 0
        <5>1. CASE i \in 1 .. len
          <6>1. n - q = 0 /\ i = len + q => n = 0
            <7>1. n - q = 0 => q = n
              BY <1>10
            <7> QED
              BY <5>1, <7>1
          <6>2. n = 0 => q = 0 /\ n - q = 0
            BY <1>10
          <6>3. e[i] = bus.tx[i] /\ (i = len /\ n = 0 <=> i = len + q /\ n - q = 0)
            BY <1>9, <5>1, <6>1, <6>2
          <6> QED
            BY <1>12, <2>5, <5>1, <6>3
        <5>2. CASE i \in len + 1 .. len + q
          <6>1. i = len + n <=> i = len + q /\ n - q = 0
            BY <1>9, <5>2
          <6> QED
            BY <1>9, <1>12, <5>2, <6>1
        <5> QED
          BY <1>10, <5>1, <5>2
      <4>4. len + q = 0 => (bus'.open <=> n - q > 0 /\ n - q < i2c'.size)
        <5> SUFFICES ASSUME len + q = 0
                     PROVE  bus'.open <=> n - q > 0 /\ n - q < i2c'.size
          OBVIOUS
        <5>1. len = 0 /\ q = 0 /\ n = 0
          BY <1>9, <1>10, I2cAssumption
        <5> QED
          BY <1>11, <1>12, <2>5, <5>1
      <4>5. /\ moved' + i2c'.left = i2c'.size
            /\ i2c'.left = i2c'.rdleft + (len + q) + OnWire' + bus'.rx
        <5>1. moved + got + (i2c.left - got) = i2c.size
          BY <1>2, <1>6, <2>5
        <5>2. i2c.left - got = n - q + (len + q) + OnWire + (bus.rx - got)
          BY <1>2, <1>6, <1>10, <2>5
        <5> QED
          BY <1>8, <1>11, <1>12, <2>8, <5>1, <5>2
      <4>6. len + q > 0 /\ ~bus'.open => moved' = 0 /\ bus'.rx = 0 /\ bus'.byte # "read"
        <5> SUFFICES ASSUME len + q > 0, ~bus'.open
                     PROVE  moved' = 0 /\ bus'.rx = 0 /\ bus'.byte # "read"
          OBVIOUS
        <5>1. len = 0 /\ n > 0 /\ ~(n < i2c.size)
          BY <1>9, <1>10, <1>12, <2>5
        <5>2. moved = 0 /\ bus.rx = 0 /\ OnWire = 0
          BY <1>2, <2>5, <5>1
        <5> QED
          BY <1>2, <1>6, <1>8, <1>12, <5>2 DEF OnWire
      <4> QED
        BY <1>1, <1>13, <1>15, <3>7, <4>1, <4>2, <4>3, <4>4, <4>5, <4>6 DEF Commanded
    <3>9. 0 \in 0 .. Len(bus'.tx)
      BY <1>9, <1>10, <1>12
    <3>10. IntMoving'
      BY <1>11, <1>12, <2>2, <3>5, <3>6, <3>8, <3>9 DEF IntMoving
    <3>11. Honest
      BY <3>1 DEF Honest, CallsBack
    <3> QED
      BY <3>2, <3>3, <3>4, <3>5, <3>10, <3>11 DEF IInv, Phase
  <2> QED
    BY <2>9, <2>10
<1> QED
  BY <1>16, <1>17

LEMMA DmaDoneKeeps ==
  ASSUME IInv, NEW ch \in Channels, DmaDone(ch)
  PROVE  IInv' /\ Honest
<1>1. PICK over \in BOOLEAN :
        over = (i2c.op = (IF ch = "wdma" THEN "WRITE" ELSE "READ"))
  OBVIOUS
<1>2. /\ Types /\ CallersExact /\ ChannelsExact /\ Claimed
      /\ ~isr.on /\ channel[ch].done
      /\ channel' = [channel EXCEPT ![ch].done = FALSE, ![ch].state = "IDLE"]
      /\ bus' = [bus EXCEPT !.dma = @ \ {ch}]
      /\ i2c' = [i2c EXCEPT !.busy = @ /\ ~(over /\ i2c.async)]
      /\ Report(over, "none") /\ UNCHANGED <<mask, isr, moved>>
  BY <1>1 DEF IInv, DmaDone, pdma_irq_handler
<1>3. /\ i2c.op \in Ops /\ i2c.busy \in BOOLEAN /\ i2c.async \in BOOLEAN
      /\ i2c.size \in Nat /\ bus.rx \in Nat /\ Len(bus.tx) \in Nat
      /\ bus.tx \in Seq(Commands) /\ moved \in Nat
      /\ \A x \in Channels : channel[x].todo \in Nat
  BY <1>2, Fields DEF Types
<1>4. /\ ch \in {"wdma", "rdma"} /\ Channels = {"wdma", "rdma"}
      /\ (Writing <=> ~Reading)
  BY <1>3, I2cAssumption DEF Ops, Writing, Reading
<1>5. Active(ch) /\ channel[ch].todo = 0
  BY <1>2 DEF ChannelsExact
<1>6. /\ channel' \in [Channels -> ChannelStates]
      /\ channel'[ch].state = "IDLE" /\ ~channel'[ch].done
      /\ \A x \in Channels : /\ channel'[x].todo = channel[x].todo
                             /\ x # ch => channel'[x] = channel[x]
  BY <1>2 DEF Types, ChannelStates
<1>7. /\ i2c' \in Descriptors /\ i2c'.op = i2c.op /\ i2c'.size = i2c.size
      /\ (i2c'.busy <=> i2c.busy /\ ~(over /\ i2c.async))
      /\ (i2c'.async <=> i2c.async) /\ (i2c'.abort <=> i2c.abort)
      /\ i2c'.rdleft = i2c.rdleft
  <2>1. PICK busy \in BOOLEAN : busy = (i2c.busy /\ ~(over /\ i2c.async))
    OBVIOUS
  <2>2. i2c' = [i2c EXCEPT !.busy = busy]
    BY <1>2, <2>1
  <2> QED
    BY <1>2, <2>1, <2>2 DEF Types, Descriptors
<1>8. /\ bus' \in BusStates /\ bus'.tx = bus.tx /\ bus'.rx = bus.rx
      /\ bus'.open = bus.open /\ bus'.byte = bus.byte /\ bus'.abrt = bus.abrt
      /\ bus'.dma = bus.dma \ {ch}
  BY <1>2 DEF Types, BusStates
<1>9. ChannelsExact'
  BY <1>2, <1>5, <1>6, <1>8 DEF ChannelsExact, Active
<1>10. (Reading' <=> Reading) /\ (Writing' <=> Writing) /\ OnWire' = OnWire
       /\ (\A k : Leftover(k) => Leftover(k)') /\ ~Active(ch)'
       /\ (\A x \in Channels : Active(x)' => Active(x) /\ x # ch)
  BY <1>6, <1>7, <1>8 DEF Reading, Writing, OnWire, Leftover, Active
<1>11. \A c \in Callers : caller[c].pc # "start"
  BY <1>2, <1>5 DEF Claimed
<1>12. over <=> (Writing <=> ch = "wdma")
  BY <1>1, <1>4 DEF Writing, Reading
<1>13. ASSUME ~over, caller' = caller, sem' \in BOOLEAN, sem' <=> sem
       PROVE  Types' /\ CallersExact' /\ Claimed' /\ (Moving' <=> Moving)
  <2>1. Types'
    BY <1>2, <1>6, <1>7, <1>8, <1>13 DEF Types
  <2> QED
    BY <1>2, <1>7, <1>11, <1>13, <2>1 DEF CallersExact, Owned, Claimed, Moving, Live
<1>14. CASE ~Moving
  <2>1. Calm
    BY <1>14 DEF IInv, Phase
  <2>2. ch = "wdma" /\ Reading /\ ~over
    BY <1>4, <1>5, <1>12, <2>1 DEF Calm
  <2>3. caller' = caller /\ sem' \in BOOLEAN /\ (sem' <=> sem)
    BY <1>2, <2>2, NoReport
  <2>4. Calm'
    BY <1>2, <1>6, <1>7, <1>8, <1>10, <2>1, <2>3 DEF Calm
  <2>5. Honest
    BY <2>3 DEF Honest, CallsBack
  <2> QED
    BY <1>9, <1>13, <1>14, <2>2, <2>3, <2>4, <2>5 DEF IInv, Phase
<1>15. CASE Moving
  <2>1. Active(Main)
    BY <1>5, <1>15 DEF IInv, Phase, IntMoving
  <2>2. DmaMoving
    BY <1>15, <2>1 DEF IInv, Phase
  <2>3. CASE ~over
    <3>1. ch = "wdma" /\ Reading
      BY <1>4, <1>5, <1>12, <2>2, <2>3 DEF DmaMoving, Delivered
    <3>2. caller' = caller /\ sem' \in BOOLEAN /\ (sem' <=> sem)
      BY <1>2, <2>3, NoReport
    <3>3. Active(Main)'
      BY <1>4, <1>6, <1>10, <2>1, <3>1 DEF Main, Active
    <3>4. \A k : Requested(k) => Requested(k)'
      BY <1>4, <1>6, <1>8, <1>10 DEF Requested
    <3>5. DmaMoving'
      BY <1>2, <1>4, <1>6, <1>7, <1>8, <1>10, <2>2, <3>1, <3>2, <3>4 DEF DmaMoving
    <3>6. Honest
      BY <3>2 DEF Honest, CallsBack
    <3> QED
      BY <1>9, <1>13, <1>15, <2>3, <3>2, <3>3, <3>5, <3>6 DEF IInv, Phase
  <2>4. CASE over
    <3>1. /\ moved = i2c.size /\ bus.rx = 0 /\ bus.byte # "read"
          /\ Leftover(Len(bus.tx)) /\ (Len(bus.tx) = 0 => ~bus.open)
          /\ \A x \in Channels : Active(x) /\ x # ch =>
               x = "wdma" /\ Reading /\ channel[x].todo = 0
      <4>1. CASE ch = "wdma"
        <5>1. Writing /\ Delivered
          BY <1>12, <2>2, <2>4, <4>1 DEF DmaMoving
        <5>2. IF Len(bus.tx) = 0 THEN ~bus.open ELSE bus.tx[Len(bus.tx)].last
          BY <1>5, <2>2, <4>1 DEF DmaMoving
        <5> QED
          BY <1>3, <1>4, <1>5, <4>1, <5>1, <5>2 DEF Delivered, Leftover
      <4>2. CASE ch = "rdma"
        <5>1. /\ Reading /\ moved + channel["rdma"].todo = i2c.size
              /\ \E k \in 0 .. Len(bus.tx) : Requested(k)
          BY <1>4, <1>12, <2>2, <2>4, <4>2 DEF DmaMoving
        <5>2. PICK k \in 0 .. Len(bus.tx) : Requested(k)
          BY <5>1
        <5>3. /\ Leftover(k) /\ OnWire \in Nat
              /\ 0 = channel["wdma"].todo + (Len(bus.tx) - k) + OnWire + bus.rx
          BY <1>5, <4>2, <5>2 DEF Requested, OnWire
        <5>4. channel["wdma"].todo = 0 /\ k = Len(bus.tx) /\ OnWire = 0 /\ bus.rx = 0
          <6>1. Len(bus.tx) - k \in Nat /\ channel["wdma"].todo \in Nat
                /\ bus.rx \in Nat
            BY <1>3, <1>4
          <6>2. (Len(bus.tx) - k) = 0 /\ channel["wdma"].todo = 0 /\ OnWire = 0
                /\ bus.rx = 0
            <7> DEFINE a == channel["wdma"].todo
                       b == Len(bus.tx) - k
            <7>1. a \in Nat /\ b \in Nat /\ OnWire \in Nat /\ bus.rx \in Nat
                  /\ 0 = a + b + OnWire + bus.rx
              BY <5>3, <6>1
            <7> HIDE DEF a, b
            <7>2. a = 0 /\ b = 0 /\ OnWire = 0 /\ bus.rx = 0
              BY <7>1
            <7> QED
              BY <7>2 DEF a, b
          <6> QED
            BY <1>3, <6>2
        <5>5. Len(bus.tx) = 0 => ~bus.open
          BY <2>2, <5>4 DEF DmaMoving
        <5>6. moved = i2c.size
          BY <1>3, <1>5, <4>2, <5>1
        <5> QED
          BY <1>4, <4>2, <5>1, <5>3, <5>4, <5>5, <5>6 DEF OnWire
      <4> QED
        BY <1>4, <4>1, <4>2
    <3>2. moved' = i2c'.size
      BY <1>2, <1>7, <3>1
    <3>3. \A c \in Callers : caller[c].pc = "arm" => caller[c].ints = {"TX_ABRT"}
      BY <2>2 DEF DmaMoving
    <3>4. i2c'.busy <=> i2c.busy /\ ~i2c.async
      BY <1>7, <2>4
    <3>5. /\ caller' \in [Callers -> Calls] /\ sem' \in BOOLEAN
          /\ \A c \in Callers : /\ caller'[c].pc = caller[c].pc
                                /\ caller'[c].ints = caller[c].ints
          /\ CallersExact' /\ Claimed' /\ ~Moving'
      BY <1>2, <1>7, <1>15, <2>4, <3>2, <3>3, <3>4, OverReport
    <3>6. Types'
      BY <1>2, <1>6, <1>7, <1>8, <3>5 DEF Types
    <3>7. Leftover(Len(bus.tx))'
      BY <1>8, <3>1 DEF Leftover
    <3>8. \A x \in Channels : Active(x)' => x = "wdma" /\ Reading' /\ channel'[x].todo = 0
      BY <1>6, <1>10, <3>1
    <3>9. Calm'
      <4>1. ~bus'.abrt /\ ~isr'.on /\ mask' \subseteq {"TX_ABRT"}
        BY <1>2, <1>8, <2>2 DEF DmaMoving
      <4>2. \A c \in Callers : caller'[c].pc = "arm" => caller'[c].ints = {"TX_ABRT"}
        BY <3>3, <3>5
      <4>3. bus'.rx = 0 /\ bus'.byte # "read" /\ (Len(bus'.tx) = 0 => ~bus'.open)
        BY <1>8, <3>1
      <4> QED
        BY <3>7, <3>8, <4>1, <4>2, <4>3 DEF Calm, Active
    <3>10. Honest
      BY <1>7, <3>2 DEF Honest
    <3> QED
      BY <1>9, <3>5, <3>6, <3>9, <3>10 DEF IInv, Phase
  <2> QED
    BY <2>3, <2>4
<1> QED
  BY <1>14, <1>15

-----------------------------------------------------------------------------
(* The controller, the device and the DMA engine.                          *)
LEMMA Elsewhere ==
  ASSUME IInv, UNCHANGED <<i2c, sem, mask, isr, caller>>,
         ~Moving => moved' = moved,
         \A ch \in Channels : Active(ch)' => Active(ch)
  PROVE  /\ CallersExact' /\ Claimed' /\ (Moving' <=> Moving)
         /\ (Reading' <=> Reading) /\ (Writing' <=> Writing)
         /\ \A c \in Callers : Live(c)' <=> Live(c)
<1>1. CallersExact /\ Claimed
  BY DEF IInv
<1>2. sem => ~Moving
  BY DEF Moving
<1>3. \A c \in Callers : caller[c].pc = "start" => ~Moving
  BY <1>1, OneOwner DEF CallersExact, Owned, Live
<1> QED
  BY <1>1, <1>2, <1>3
  DEF CallersExact, Owned, Claimed, Moving, Live, Reading, Writing

LEMMA BusTakeKeeps ==
  ASSUME IInv, BusTake
  PROVE  IInv'
<1>1. /\ Types /\ ChannelsExact /\ bus.byte = "none" /\ bus.tx # <<>> /\ ~bus.abrt
      /\ UNCHANGED <<channel, i2c, sem, mask, isr, caller>>
  BY DEF IInv, BusTake
<1>2. /\ bus.tx \in Seq(Commands) /\ bus.rx \in Nat /\ moved \in Nat
      /\ i2c.size \in Nat /\ i2c.left \in Nat /\ i2c.rdleft \in Nat
      /\ i2c.op \in Ops /\ Len(bus.tx) \in Nat /\ Len(bus.tx) > 0
      /\ \A ch \in Channels : channel[ch].todo \in Nat
  BY <1>1, Fields, Emptiness DEF Types
<1>3. PICK len \in Nat : len = Len(bus.tx) /\ len > 0
  BY <1>2
<1>3a. len \in Nat /\ len > 0
  BY <1>3
<1>4. PICK tx : tx = Tail(bus.tx)
  OBVIOUS
<1>5. /\ tx \in Seq(Commands) /\ Len(tx) = len - 1
      /\ \A i \in 1 .. len - 1 : tx[i] = bus.tx[i + 1]
      /\ Head(bus.tx) = bus.tx[1]
  <2>1. /\ Tail(bus.tx) \in Seq(Commands) /\ Len(Tail(bus.tx)) = Len(bus.tx) - 1
        /\ \A i \in 1 .. Len(Tail(bus.tx)) : Tail(bus.tx)[i] = bus.tx[i + 1]
    BY <1>1, <1>2, HeadTailProperties, Zenon
  <2>2. Head(bus.tx) = bus.tx[1]
    BY <1>2
  <2> QED
    BY <1>3, <1>4, <2>1, <2>2
<1>6. PICK cmd : cmd = bus.tx[1]
  OBVIOUS
<1>7. cmd.rd \in BOOLEAN /\ cmd.last \in BOOLEAN /\ cmd.dma \in BOOLEAN
  BY <1>1, <1>2, <1>6, Elements
<1>8. /\ bus' = [bus EXCEPT !.tx = tx, !.open = ~cmd.last,
                            !.byte = IF cmd.rd THEN "read" ELSE "write"]
      /\ moved' = IF cmd.rd \/ cmd.dma THEN moved ELSE moved + 1
  BY <1>4, <1>5, <1>6 DEF BusTake
<1>9. /\ bus' \in BusStates /\ bus'.tx = tx /\ bus'.rx = bus.rx
      /\ (bus'.open <=> ~cmd.last)
      /\ bus'.byte = (IF cmd.rd THEN "read" ELSE "write")
      /\ bus'.abrt = bus.abrt /\ bus'.dma = bus.dma
  <2>1. PICK open \in BOOLEAN : open = ~cmd.last
    OBVIOUS
  <2> QED
    BY <1>1, <1>5, <1>8, <2>1 DEF Types, BusStates
<1>10. len - 1 \in Nat /\ Len(bus'.tx) = len - 1
  BY <1>3, <1>5, <1>9
<1>11. Types' /\ ChannelsExact'
  <2>1. moved' \in Nat /\ Len(bus'.tx) <= Depth
    BY <1>1, <1>2, <1>3, <1>8, <1>10, I2cAssumption DEF Types
  <2> QED
    BY <1>1, <1>9, <2>1 DEF Types, ChannelsExact, Active
<1>12. OnWire = 0 /\ OnWire' = IF cmd.rd THEN 1 ELSE 0
  BY <1>1, <1>9 DEF OnWire
(* The leftover loses its first command.                                   *)
<1>13. ASSUME NEW k \in Nat, k > 0, k <= len, Leftover(k)
       PROVE  /\ k - 1 \in 0 .. len - 1 /\ Leftover(k - 1)'
              /\ cmd.dma /\ ~cmd.rd /\ moved' = moved
              /\ k = 1 => cmd.last
  <2>1. /\ k - 1 \in 0 .. len - 1
        /\ \A i \in 1 .. k - 1 : i \in 1 .. len - 1 /\ i + 1 \in 1 .. k
    BY <1>3, <1>13
  <2>2. \A i \in 1 .. k - 1 : bus'.tx[i].dma /\ ~bus'.tx[i].rd
    BY <1>5, <1>9, <1>13, <2>1 DEF Leftover
  <2>3. k - 1 > 0 => bus'.tx[k - 1].last
    <3> SUFFICES ASSUME k - 1 > 0 PROVE bus'.tx[k - 1].last
      OBVIOUS
    <3>1. k - 1 \in 1 .. len - 1 /\ k - 1 + 1 = k
      BY <2>1
    <3>2. tx[k - 1] = bus.tx[k - 1 + 1]
      BY <1>5, <3>1
    <3> QED
      BY <1>9, <1>13, <3>1, <3>2 DEF Leftover
  <2>4. cmd.dma /\ ~cmd.rd /\ (k = 1 => cmd.last)
    <3>1. 1 \in 1 .. k
      BY <1>13
    <3> QED
      BY <1>6, <1>13, <3>1 DEF Leftover
  <2> QED
    BY <1>8, <2>1, <2>2, <2>3, <2>4 DEF Leftover
<1>14. ~Moving => Calm
  BY DEF IInv, Phase
<1>15. Calm => Calm' /\ moved' = moved
  <2> SUFFICES ASSUME Calm PROVE Calm' /\ moved' = moved
    OBVIOUS
  <2>1. Leftover(len)
    BY <1>3 DEF Calm
  <2>2. /\ Leftover(len - 1)' /\ cmd.dma /\ ~cmd.rd /\ moved' = moved
        /\ len = 1 => cmd.last
    <3>1. len \in Nat /\ len > 0 /\ len <= len
      BY <1>3
    <3> QED
      BY <1>13, <2>1, <3>1
  <2>3. Leftover(Len(bus.tx))'
    BY <1>10, <2>2 DEF Leftover
  <2>4. Len(bus'.tx) = 0 => ~bus'.open
    BY <1>3, <1>9, <1>10, <2>2
  <2>5. "TX_EMPTY" \notin mask
    BY <1>2 DEF Calm
  <2> QED
    BY <1>1, <1>9, <2>2, <2>3, <2>4, <2>5 DEF Calm, Active, Reading
<1>16. /\ CallersExact' /\ Claimed' /\ (Moving' <=> Moving)
       /\ (Reading' <=> Reading) /\ (Writing' <=> Writing)
       /\ \A c \in Callers : Live(c)' <=> Live(c)
  <2>1. ~Moving => moved' = moved
    BY <1>14, <1>15
  <2>2. \A ch \in Channels : Active(ch)' => Active(ch)
    BY <1>1 DEF Active
  <2> QED
    BY <1>1, <2>1, <2>2, Elsewhere
<1>17. Active(Main)' <=> Active(Main)
  BY <1>1 DEF Active, Main, Writing
<1>18. Writing <=> ~Reading
  BY <1>2 DEF Writing, Reading, Ops
<1>19. len = 1 => bus.tx[Len(bus.tx)] = cmd
  BY <1>3, <1>6
<1>20. len > 1 => len - 1 > 0 /\ tx[len - 1] = bus.tx[Len(bus.tx)]
  <2> SUFFICES ASSUME len > 1 PROVE len - 1 > 0 /\ tx[len - 1] = bus.tx[Len(bus.tx)]
    OBVIOUS
  <2>1. len - 1 \in 1 .. len - 1 /\ len - 1 + 1 = len /\ len - 1 > 0
    BY <1>3
  <2>2. tx[len - 1] = bus.tx[len - 1 + 1]
    BY <1>5, <2>1
  <2> QED
    BY <1>3, <2>1, <2>2
<1>21. ASSUME DmaMoving PROVE DmaMoving'
  <2>1. channel'["wdma"].todo = 0 =>
          IF Len(bus'.tx) = 0 THEN ~bus'.open ELSE bus'.tx[Len(bus'.tx)].last
    <3> SUFFICES ASSUME channel["wdma"].todo = 0
                 PROVE  IF len - 1 = 0 THEN ~bus'.open ELSE bus'.tx[len - 1].last
      BY <1>1, <1>10
    <3>1. bus.tx[Len(bus.tx)].last
      BY <1>2, <1>21 DEF DmaMoving
    <3>2. CASE len = 1
      BY <1>9, <1>19, <3>1, <3>2
    <3>3. CASE len > 1
      BY <1>9, <1>20, <3>1, <3>3
    <3>4. (len = 1 /\ len - 1 = 0) \/ len > 1
      BY <1>3a
    <3> QED
      BY <1>20, <3>2, <3>3, <3>4
  <2>2. Writing => Delivered'
    <3> SUFFICES ASSUME Writing PROVE Delivered'
      OBVIOUS
    <3>1. Delivered
      BY <1>21 DEF DmaMoving
    <3>2. cmd.dma /\ ~cmd.rd
      BY <1>2, <1>6, <3>1 DEF Delivered
    <3>3. \A i \in 1 .. len - 1 : bus'.tx[i].dma /\ ~bus'.tx[i].rd
      <4>1. \A i \in 1 .. len - 1 : i + 1 \in 1 .. len
        BY <1>3
      <4> QED
        BY <1>3, <1>5, <1>9, <3>1, <4>1 DEF Delivered
    <3> QED
      BY <1>1, <1>8, <1>9, <1>10, <3>1, <3>2, <3>3 DEF Delivered, Active
  <2>3. Reading => /\ moved' + channel'["rdma"].todo = i2c'.size
                   /\ \E k \in 0 .. Len(bus'.tx) : Requested(k)'
    <3> SUFFICES ASSUME Reading
                 PROVE  /\ moved' + channel'["rdma"].todo = i2c'.size
                        /\ \E k \in 0 .. len - 1 : Requested(k)'
      BY <1>10
    <3>1. /\ moved + channel["rdma"].todo = i2c.size
          /\ \E k \in 0 .. Len(bus.tx) : Requested(k)
      BY <1>21 DEF DmaMoving
    <3>2. PICK k \in 0 .. len : Requested(k)
      BY <1>3, <3>1
    <3>3. /\ Leftover(k)
          /\ \A i \in k + 1 .. len : bus.tx[i].dma /\ bus.tx[i].rd
          /\ channel["rdma"].todo = channel["wdma"].todo + (len - k) + 0 + bus.rx
      BY <1>3, <1>12, <3>2 DEF Requested
    <3>4. PICK a \in Nat, b \in Nat :
            a = channel["rdma"].todo /\ b = channel["wdma"].todo
      BY <1>2, I2cAssumption
    <3>5. CASE k > 0
      <4>1. k - 1 \in 0 .. len - 1 /\ Leftover(k - 1)' /\ ~cmd.rd /\ moved' = moved
        BY <1>13, <3>3, <3>5
      <4>2. \A i \in k - 1 + 1 .. len - 1 : bus'.tx[i].dma /\ bus'.tx[i].rd
        <5>1. \A i \in k - 1 + 1 .. len - 1 : i \in 1 .. len - 1 /\ i + 1 \in k + 1 .. len
          BY <1>3, <3>5
        <5> QED
          BY <1>5, <1>9, <3>3, <5>1
      <4>3. a = b + (len - 1 - (k - 1)) + OnWire' + bus'.rx
        <5>1. len - 1 - (k - 1) = len - k
          BY <1>3
        <5> QED
          BY <1>9, <1>12, <3>3, <3>4, <4>1, <5>1
      <4>4. Requested(k - 1)'
        BY <1>1, <1>10, <3>4, <4>1, <4>2, <4>3 DEF Requested
      <4> QED
        BY <1>1, <3>1, <4>1, <4>4
    <3>6. CASE k = 0
      <4>1. cmd.dma /\ cmd.rd
        <5>1. 1 \in k + 1 .. len
          BY <1>3, <3>6
        <5> QED
          BY <1>6, <3>3, <5>1
      <4>2. \A i \in 0 + 1 .. len - 1 : bus'.tx[i].dma /\ bus'.tx[i].rd
        <5>1. \A i \in 0 + 1 .. len - 1 : i \in 1 .. len - 1 /\ i + 1 \in k + 1 .. len
          BY <1>3, <3>6
        <5> QED
          BY <1>5, <1>9, <3>3, <5>1
      <4>3. a = b + (len - 1 - 0) + OnWire' + bus'.rx
        <5>1. \A x \in Nat : b + (len - k) + 0 + x = b + (len - 1 - 0) + 1 + x
          <6>1. k \in Nat /\ a \in Nat /\ b \in Nat
            BY <1>3a, <3>4
          <6> QED
            BY <1>3a, <3>6, <6>1
        <5> QED
          BY <1>2, <1>9, <1>12, <3>3, <3>4, <4>1, <5>1
      <4>4. Requested(0)'
        <5>1. Leftover(0)'
          BY DEF Leftover
        <5> QED
          BY <1>1, <1>10, <3>4, <4>2, <4>3, <5>1 DEF Requested
      <4> QED
        BY <1>1, <1>8, <1>10, <3>1, <4>1, <4>4
    <3> QED
      BY <3>5, <3>6
  <2> QED
    BY <1>1, <1>9, <1>16, <1>21, <2>1, <2>2, <2>3 DEF DmaMoving
<1>22. ASSUME IntMoving PROVE IntMoving'
  <2>1. IntMasks /\ \E k \in 0 .. len : Commanded(k)
    BY <1>1, <1>3, <1>22 DEF IntMoving
  <2>2. PICK k \in 0 .. len : Commanded(k)
    BY <2>1
  <2>3. Writing => ~isr.on
    BY <1>1, <1>2, <2>1 DEF IntMasks
  <2>4. IntMasks'
    BY <1>1, <1>9, <1>16, <2>1, <2>3 DEF IntMasks
  <2>5. PICK u \in Nat, s \in Nat, l \in Nat :
          u = Unqueued /\ s = i2c.size /\ l = i2c.left
    BY <1>2 DEF Unqueued
  <2>6. Unqueued' = u
    BY <1>1, <1>16, <2>5 DEF Unqueued, Reading
  <2>7. /\ Leftover(k)
        /\ \A i \in k + 1 .. len :
             /\ ~bus.tx[i].dma /\ (bus.tx[i].rd <=> Reading)
             /\ bus.tx[i].last <=> i = len /\ u = 0
        /\ Writing => /\ moved + (len - k) + u = s /\ bus.rx = 0
        /\ Reading => /\ moved + l = s /\ l = u + (len - k) + 0 + bus.rx
        /\ k > 0 \/ ~bus.open => moved = 0 /\ bus.rx = 0 /\ ~isr.on
    BY <1>2, <1>3, <1>12, <1>18, <2>2, <2>5 DEF Commanded, Unqueued
  <2>8. CASE k > 0
    <3>1. /\ k - 1 \in 0 .. len - 1 /\ Leftover(k - 1)' /\ ~cmd.rd /\ moved' = moved
          /\ k = 1 => cmd.last
      BY <1>13, <2>7, <2>8
    <3>2. ASSUME NEW i \in k - 1 + 1 .. len - 1
          PROVE  /\ ~bus'.tx[i].dma /\ (bus'.tx[i].rd <=> Reading')
                 /\ bus'.tx[i].last <=> i = len - 1 /\ u = 0
      <4>1. i \in 1 .. len - 1 /\ i + 1 \in k + 1 .. len /\ (i + 1 = len <=> i = len - 1)
        BY <1>3, <2>8
      <4> QED
        BY <1>5, <1>9, <1>16, <2>7, <4>1
    <3>3. len - 1 = 0 => (bus'.open <=> u > 0 /\ u < s)
      <4> SUFFICES ASSUME len - 1 = 0 PROVE bus'.open <=> u > 0 /\ u < s
        OBVIOUS
      <4>1. k = 1 /\ len = 1 /\ len - k = 0
        BY <1>3a, <2>8
      <4>2. moved = 0 /\ bus.rx = 0
        BY <2>7, <2>8
      <4>3. u = s
        <5>1. CASE Writing
          <6>1. moved + (len - k) + u = s
            BY <2>7, <5>1
          <6> QED
            BY <4>1, <4>2, <6>1
        <5>2. CASE Reading
          <6>1. moved + l = s /\ l = u + (len - k) + 0 + bus.rx
            BY <2>7, <5>2
          <6> QED
            BY <4>1, <4>2, <6>1
        <5> QED
          BY <1>18, <5>1, <5>2
      <4> QED
        BY <1>9, <3>1, <4>1, <4>3
    <3>4. len - 1 - (k - 1) = len - k
      BY <1>3
    <3>5. bus'.byte # "read" /\ OnWire' = 0
      BY <1>9, <1>12, <3>1
    <3>6. moved' = 0 /\ bus'.rx = 0 /\ ~isr'.on
      BY <1>1, <1>9, <2>7, <2>8, <3>1
    <3>7. Commanded(k - 1)'
      BY <1>1, <1>9, <1>10, <1>16, <1>18, <2>5, <2>6, <2>7, <3>1, <3>2, <3>3, <3>4, <3>5,
         <3>6
      DEF Commanded, Unqueued
    <3> QED
      BY <1>1, <1>9, <1>10, <1>22, <2>4, <3>1, <3>7 DEF IntMoving, Active
  <2>9. CASE k = 0
    <3>1. ~cmd.dma /\ (cmd.rd <=> Reading) /\ (cmd.last <=> 1 = len /\ u = 0)
      <4>1. 1 \in k + 1 .. len
        BY <1>3, <2>9
      <4> QED
        BY <1>6, <2>7, <4>1
    <3>2. ASSUME NEW i \in 0 + 1 .. len - 1
          PROVE  /\ ~bus'.tx[i].dma /\ (bus'.tx[i].rd <=> Reading')
                 /\ bus'.tx[i].last <=> i = len - 1 /\ u = 0
      <4>1. i \in 1 .. len - 1 /\ i + 1 \in k + 1 .. len /\ (i + 1 = len <=> i = len - 1)
        BY <1>3, <2>9
      <4> QED
        BY <1>5, <1>9, <1>16, <2>7, <4>1
    <3>3. len - 0 = len /\ len - k = len /\ len - 1 - 0 = len - 1
      BY <1>3, <2>9
    <3>4. Writing => /\ moved' + (len - 1 - 0) + u = s
                     /\ bus'.rx = 0 /\ bus'.byte # "read"
      <4> SUFFICES ASSUME Writing PROVE moved' + (len - 1 - 0) + u = s
                                        /\ bus'.rx = 0 /\ bus'.byte # "read"
        OBVIOUS
      <4>1. ~cmd.rd /\ moved' = moved + 1 /\ moved + len + u = s /\ bus.rx = 0
        BY <1>8, <1>18, <2>7, <3>1, <3>3
      <4>2. moved' + (len - 1 - 0) + u = s
        <5>1. \A m \in Nat : m + len + u = s => m + 1 + (len - 1 - 0) + u = s
          <6>1. u \in Nat /\ s \in Nat
            BY <2>5
          <6> QED
            BY <1>3a, <6>1
        <5> QED
          BY <1>2, <4>1, <5>1
      <4> QED
        BY <1>9, <4>1, <4>2
    <3>5. Reading => moved' + l = s /\ l = u + (len - 1 - 0) + OnWire' + bus'.rx
      <4> SUFFICES ASSUME Reading
                   PROVE  moved' + l = s /\ l = u + (len - 1 - 0) + OnWire' + bus'.rx
        OBVIOUS
      <4>1. /\ cmd.rd /\ moved' = moved /\ moved + l = s /\ OnWire' = 1
            /\ l = u + len + 0 + bus.rx
        BY <1>8, <1>12, <2>7, <3>1, <3>3
      <4>2. l = u + (len - 1 - 0) + 1 + bus.rx
        BY <1>2, <1>3, <4>1
      <4> QED
        BY <1>9, <4>1, <4>2
    <3>6. u < s
      <4>1. CASE Writing
        <5>1. moved + len + u = s
          BY <2>7, <3>3, <4>1
        <5> QED
          BY <1>2, <1>3, <5>1
      <4>2. CASE Reading
        <5>1. moved + l = s /\ l = u + len + 0 + bus.rx
          BY <2>7, <3>3, <4>2
        <5> QED
          BY <1>2, <1>3, <5>1
      <4> QED
        BY <1>18, <4>1, <4>2
    <3>7. len - 1 = 0 => (bus'.open <=> u > 0 /\ u < s)
      BY <1>3, <1>9, <3>1, <3>6
    <3>8. ~bus'.open => len - 1 = 0
      BY <1>3, <1>9, <3>1
    <3>9. Leftover(0)'
      BY DEF Leftover
    <3>10. Commanded(0)'
      BY <1>1, <1>9, <1>10, <1>16, <1>18, <2>5, <2>6, <3>2, <3>4, <3>5, <3>7, <3>8, <3>9
      DEF Commanded, Unqueued
    <3>11. 0 \in 0 .. Len(bus'.tx)
      BY <1>10
    <3> QED
      BY <1>1, <1>9, <1>22, <2>4, <3>10, <3>11 DEF IntMoving, Active
  <2> QED
    BY <2>8, <2>9
<1> QED
  BY <1>11, <1>14, <1>15, <1>16, <1>17, <1>21, <1>22 DEF IInv, Phase

LEMMA BusDoneKeeps ==
  ASSUME IInv, BusDone
  PROVE  IInv'
<1>1. /\ Types /\ ChannelsExact
      /\ UNCHANGED <<channel, i2c, sem, mask, isr, caller, moved>>
      /\ bus.byte \in {"write", "read"}
      /\ bus' = [bus EXCEPT !.byte = "none",
                            !.rx = IF bus.byte = "read" THEN @ + 1 ELSE @]
  BY DEF IInv, BusDone
<1>2. bus.rx \in Nat
  BY <1>1, Fields
<1>3. /\ bus' \in BusStates /\ bus'.tx = bus.tx /\ bus'.byte = "none"
      /\ bus'.open = bus.open /\ bus'.abrt = bus.abrt /\ bus'.dma = bus.dma
      /\ OnWire' = 0 /\ bus'.rx = OnWire + bus.rx
      /\ bus.byte # "read" => OnWire = 0 /\ bus'.rx = bus.rx
  <2>1. PICK rx \in Nat : rx = IF bus.byte = "read" THEN bus.rx + 1 ELSE bus.rx
    BY <1>2
  <2>2. rx = OnWire + bus.rx /\ (bus.byte # "read" => OnWire = 0 /\ rx = bus.rx)
    BY <1>2, <2>1 DEF OnWire
  <2>3. bus' = [bus EXCEPT !.byte = "none", !.rx = rx]
    BY <1>1, <2>1
  <2>4. /\ bus' \in BusStates /\ bus'.tx = bus.tx /\ bus'.byte = "none"
        /\ bus'.open = bus.open /\ bus'.abrt = bus.abrt /\ bus'.dma = bus.dma
        /\ bus'.rx = rx
    BY <1>1, <2>3 DEF Types, BusStates
  <2> QED
    BY <2>2, <2>4 DEF OnWire
<1>4. Types' /\ ChannelsExact'
  BY <1>1, <1>3 DEF Types, ChannelsExact, Active
<1>5. /\ CallersExact' /\ Claimed' /\ (Moving' <=> Moving)
      /\ (Reading' <=> Reading) /\ (Writing' <=> Writing)
      /\ \A c \in Callers : Live(c)' <=> Live(c)
  BY <1>1, Elsewhere DEF Active
<1>6. (Active(Main)' <=> Active(Main)) /\ (\A k : Leftover(k)' <=> Leftover(k))
  BY <1>1, <1>3 DEF Active, Main, Writing, Leftover
<1>7. Calm => Calm'
  BY <1>1, <1>3 DEF Calm, Leftover, Active, Reading
<1>8. DmaMoving => DmaMoving'
  <2> SUFFICES ASSUME DmaMoving PROVE DmaMoving'
    OBVIOUS
  <2>1. Writing => Delivered'
    BY <1>1, <1>3 DEF DmaMoving, Delivered, Active
  <2>2. ASSUME NEW k \in 0 .. Len(bus.tx), Requested(k)
        PROVE  Requested(k)'
    <3>1. PICK r, w, n : /\ r = channel["rdma"].todo /\ w = channel["wdma"].todo
                         /\ n = Len(bus.tx) - k
      OBVIOUS
    <3>2. r \in Nat /\ w \in Nat /\ n \in Int /\ OnWire \in Nat
      BY <1>1, <3>1, Fields, I2cAssumption DEF OnWire
    <3>3. r = w + n + OnWire + bus.rx
      BY <2>2, <3>1 DEF Requested
    <3>4. r = w + n + 0 + (OnWire + bus.rx)
      BY <1>2, <3>2, <3>3
    <3> QED
      BY <1>1, <1>3, <1>6, <2>2, <3>1, <3>4 DEF Requested
  <2> QED
    BY <1>1, <1>3, <1>5, <2>1, <2>2 DEF DmaMoving
<1>9. IntMoving => IntMoving'
  <2> SUFFICES ASSUME IntMoving PROVE IntMoving'
    OBVIOUS
  <2>1. ~bus.abrt /\ \E k \in 0 .. Len(bus.tx) : Commanded(k)
    BY <1>1 DEF IntMoving, Refused
  <2>2. IntMasks'
    BY <1>1, <1>3, <1>5 DEF IntMoving, IntMasks
  <2>3. ASSUME NEW k \in 0 .. Len(bus.tx), Commanded(k)
        PROVE  Commanded(k)'
    <3>1. PICK n : n = Len(bus.tx) - k
      OBVIOUS
    <3>2. n \in Int /\ OnWire \in Nat /\ i2c.rdleft \in Nat
      BY <1>1, <3>1, Fields DEF OnWire
    <3>3. Reading => i2c.left = i2c.rdleft + n + 0 + (OnWire + bus.rx)
      <4>1. Reading => i2c.left = i2c.rdleft + n + OnWire + bus.rx
        BY <2>3, <3>1 DEF Commanded
      <4> QED
        BY <1>2, <3>2, <4>1
    <3>4. Unqueued' = Unqueued
      BY <1>1 DEF Unqueued, Reading
    <3> QED
      BY <1>1, <1>3, <1>5, <1>6, <2>3, <3>1, <3>3, <3>4 DEF Commanded
  <2> QED
    BY <1>1, <1>3, <2>1, <2>2, <2>3 DEF IntMoving, Active
<1> QED
  BY <1>4, <1>5, <1>6, <1>7, <1>8, <1>9 DEF IInv, Phase

(* Only the address of a transfer by interrupts is refused, when the       *)
(* handler can say so.                                                     *)
LEMMA BusNackKeeps ==
  ASSUME NackDiscipline, IInv, BusNack
  PROVE  IInv'
<1>1. /\ Types /\ ChannelsExact /\ ~bus.abrt
      /\ UNCHANGED <<channel, i2c, sem, mask, isr, caller, moved>>
      /\ bus' = [bus EXCEPT !.tx = <<>>, !.byte = "none", !.open = FALSE,
                            !.abrt = TRUE]
  BY DEF IInv, BusNack
<1>2. Refusal = "address"
  BY DEF BusNack, NackDiscipline
<1>3. /\ bus.byte = "none" /\ ~Head(bus.tx).dma
      /\ \A c \in Owners : caller[c].pc \notin {"start", "arm"}
  BY <1>2 DEF Refusal
<1>4. bus.tx # <<>> /\ ~bus.open
  BY <1>3 DEF BusNack
<1>5. bus.tx \in Seq(Commands) /\ Len(bus.tx) \in Nat /\ Len(bus.tx) > 0
  BY <1>1, <1>4, Fields, Emptiness
<1>6. ~bus.tx[1].dma /\ 1 \in 1 .. Len(bus.tx)
  BY <1>3, <1>5
<1>7. \A k \in 0 .. Len(bus.tx) : Leftover(k) => k = 0
  <2>1. \A k \in 0 .. Len(bus.tx) : k # 0 => 1 \in 1 .. k
    BY <1>5
  <2> QED
    BY <1>6, <2>1 DEF Leftover
<1>8. ~Calm
  <2>1. Len(bus.tx) \in 0 .. Len(bus.tx) /\ Len(bus.tx) # 0
    BY <1>5
  <2> QED
    BY <1>7, <2>1 DEF Calm
<1>9. ~DmaMoving
  <2> SUFFICES ASSUME DmaMoving PROVE FALSE
    OBVIOUS
  <2>1. CASE Writing
    BY <1>6, <2>1 DEF DmaMoving, Delivered
  <2>2. CASE Reading
    <3>1. PICK k \in 0 .. Len(bus.tx) : Requested(k)
      BY <2>2 DEF DmaMoving
    <3>2. k = 0
      BY <1>7, <3>1 DEF Requested
    <3>3. 1 \in k + 1 .. Len(bus.tx)
      BY <1>5, <3>2
    <3> QED
      BY <1>6, <3>1, <3>3 DEF Requested
  <2> QED
    BY <1>1, <2>1, <2>2, Fields DEF Ops, Writing, Reading
<1>10. Moving /\ ~Active(Main) /\ IntMoving
  BY <1>8, <1>9 DEF IInv, Phase
<1>11. PICK k \in 0 .. Len(bus.tx) : Commanded(k)
  BY <1>1, <1>10 DEF IntMoving
<1>12. moved = 0 /\ bus.rx = 0 /\ ~isr.on
  BY <1>4, <1>5, <1>11 DEF Commanded
<1>13. /\ bus' \in BusStates /\ bus'.tx = <<>> /\ bus'.rx = bus.rx /\ ~bus'.open
       /\ bus'.byte = "none" /\ bus'.abrt /\ bus'.dma = bus.dma
  BY <1>1, EmptySeq DEF Types, BusStates
<1>14. Len(bus'.tx) = 0 /\ Len(bus'.tx) <= Depth
  BY <1>13, I2cAssumption
<1>15. Types' /\ ChannelsExact'
  BY <1>1, <1>13, <1>14 DEF Types, ChannelsExact, Active
<1>16. /\ CallersExact' /\ Claimed' /\ (Moving' <=> Moving)
       /\ (Reading' <=> Reading) /\ (Writing' <=> Writing)
       /\ \A c \in Callers : Live(c)' <=> Live(c)
  BY <1>1, Elsewhere DEF Active
<1>17. Active(Main)' <=> Active(Main)
  BY <1>1 DEF Active, Main, Writing
<1>18. \A c \in Callers : Live(c) => caller[c].pc # "arm"
  BY <1>3 DEF Owners, Live
<1>19. Refused'
  BY <1>1, <1>12, <1>13, <1>14, <1>16, <1>18 DEF Refused
<1>20. IntMasks'
  BY <1>1, <1>10, <1>12, <1>16 DEF IntMoving, IntMasks
<1>21. IntMoving'
  BY <1>1, <1>10, <1>13, <1>19, <1>20 DEF IntMoving, Active
<1> QED
  BY <1>10, <1>15, <1>16, <1>17, <1>21 DEF IInv, Phase

(* The engine has moved an item: what is left to do changes.               *)
LEMMA ChannelMoves ==
  ASSUME channel \in [Channels -> ChannelStates], NEW ch \in Channels,
         NEW x \in ChannelStates, channel' = [channel EXCEPT ![ch] = x],
         x.state = channel[ch].state
  PROVE  /\ channel' \in [Channels -> ChannelStates] /\ channel'[ch] = x
         /\ \A d \in Channels : d # ch => channel'[d] = channel[d]
         /\ \A d \in Channels : channel'[d].state = channel[d].state
<1> HIDE DEF ChannelStates
<1>1. /\ channel' \in [Channels -> ChannelStates] /\ channel'[ch] = x
      /\ \A d \in Channels : d # ch => channel'[d] = channel[d]
  OBVIOUS
<1> QED
  BY ONLY <1>1, x.state = channel[ch].state

LEMMA ChannelsMove ==
  ASSUME ChannelsExact, NEW ch \in Channels, Active(ch),
         bus'.dma = bus.dma,
         channel'[ch].done <=> channel'[ch].todo = 0,
         \A d \in Channels : d # ch => channel'[d] = channel[d],
         \A d \in Channels : channel'[d].state = channel[d].state
  PROVE  ChannelsExact'
<1>1. \A d \in Channels : Active(d)' <=> Active(d)
  BY DEF Active
<1> QED
  BY <1>1 DEF ChannelsExact

LEMMA DmaWriteKeeps ==
  ASSUME IInv, DmaWrite
  PROVE  IInv'
<1>1. /\ Types /\ ChannelsExact /\ Claimed /\ "wdma" \in bus.dma
      /\ Len(bus.tx) < Depth /\ channel["wdma"].todo > 0
      /\ UNCHANGED <<i2c, sem, mask, isr, caller>>
      /\ channel' = [channel EXCEPT !["wdma"].todo = @ - 1,
                                    !["wdma"].done = channel["wdma"].todo = 1]
  BY DEF IInv, DmaWrite, EngineMove
<1>2. /\ "wdma" \in Channels /\ "rdma" \in Channels
      /\ Channels = {"wdma", "rdma"} /\ Depth \in Nat
  BY I2cAssumption
<1>3. /\ bus.tx \in Seq(Commands) /\ bus.rx \in Nat /\ moved \in Nat
      /\ i2c.size \in Nat /\ i2c.op \in Ops
      /\ \A ch \in Channels : channel[ch].todo \in Nat
  BY <1>1, Fields DEF Types
<1>4. PICK len \in Nat, todo \in Nat :
        len = Len(bus.tx) /\ todo = channel["wdma"].todo /\ todo > 0 /\ len < Depth
  BY <1>1, <1>2, Fields
<1>5. PICK last \in BOOLEAN, rd \in BOOLEAN :
        last = (todo = 1) /\ rd = (i2c.op = "READ")
  OBVIOUS
<1>6. (last <=> todo - 1 = 0) /\ (rd <=> Reading) /\ (Writing <=> ~Reading)
      /\ todo - 1 \in Nat
  <2>1. todo = 1 <=> todo - 1 = 0
    BY <1>4
  <2>2. todo - 1 \in Nat
    BY <1>4
  <2>3. last <=> todo = 1
    BY <1>5
  <2> QED
    BY <1>3, <1>5, <2>1, <2>2, <2>3, Zenon DEF Reading, Writing, Ops
<1>7. PICK cmd : cmd = [rd |-> rd, last |-> last, dma |-> TRUE]
  OBVIOUS
<1>8. cmd \in Commands /\ cmd.dma /\ (cmd.rd <=> rd) /\ (cmd.last <=> last)
  BY <1>7 DEF Commands
<1>9. PICK tx : tx = Append(bus.tx, cmd)
  OBVIOUS
<1>10. /\ tx \in Seq(Commands) /\ Len(tx) = len + 1 /\ tx[len + 1] = cmd
       /\ \A i \in 1 .. len : tx[i] = bus.tx[i]
  BY <1>3, <1>4, <1>8, <1>9
<1>11. /\ bus' = [bus EXCEPT !.tx = tx]
       /\ moved' = IF i2c.op = "WRITE" THEN moved + 1 ELSE moved
  BY <1>4, <1>5, <1>7, <1>9 DEF DmaWrite
<1>12. /\ bus' \in BusStates /\ bus'.tx = tx /\ bus'.rx = bus.rx
       /\ bus'.open = bus.open /\ bus'.byte = bus.byte
       /\ bus'.abrt = bus.abrt /\ bus'.dma = bus.dma /\ OnWire' = OnWire
  BY <1>1, <1>10, <1>11 DEF Types, BusStates, OnWire
<1>13. /\ channel' \in [Channels -> ChannelStates]
       /\ channel'["wdma"].todo = todo - 1
       /\ (channel'["wdma"].done <=> last)
       /\ \A ch \in Channels : channel'[ch].state = channel[ch].state
       /\ channel'["rdma"] = channel["rdma"]
  <2>1. channel["wdma"] \in ChannelStates
    BY <1>1, <1>2 DEF Types
  <2>2. PICK x : x = [channel["wdma"] EXCEPT !.todo = todo - 1, !.done = last]
    OBVIOUS
  <2>3. /\ x \in ChannelStates /\ x.todo = todo - 1 /\ x.done = last
        /\ x.state = channel["wdma"].state
    BY <1>4, <1>5, <1>6, <2>1, <2>2 DEF ChannelStates
  <2>4. channel' = [channel EXCEPT !["wdma"] = x]
    BY <1>1, <1>4, <1>5, <2>2
  <2>5. channel \in [Channels -> ChannelStates]
    BY <1>1 DEF Types
  <2> HIDE DEF ChannelStates
  <2> QED
    BY ONLY <1>2, <2>3, <2>4, <2>5, ChannelMoves
<1>14. \A ch \in Channels : Active(ch)' <=> Active(ch)
  BY <1>13 DEF Active
<1>15. Types'
  <2>1. moved' \in Nat /\ Len(bus'.tx) <= Depth
    BY <1>2, <1>3, <1>4, <1>10, <1>11, <1>12
  <2> QED
    BY <1>1, <1>12, <1>13, <2>1 DEF Types
<1>16. Active("wdma")
  BY <1>1, <1>2 DEF ChannelsExact
<1>17. ChannelsExact'
  <2>1. channel'["wdma"].done <=> channel'["wdma"].todo = 0
    BY ONLY <1>6, <1>13
  <2>2. \A d \in Channels : d # "wdma" => channel'[d] = channel[d]
    BY ONLY <1>2, <1>13
  <2> QED
    BY ONLY <1>1, <1>2, <1>12, <1>13, <1>16, <2>1, <2>2, ChannelsMove
<1>18. Moving /\ Active(Main) /\ DmaMoving
  <2>1. ~Calm /\ ~IntMoving
    BY <1>1, <1>2, <1>16 DEF Calm, IntMoving
  <2> QED
    BY <2>1 DEF IInv, Phase
<1>19. /\ CallersExact' /\ Claimed' /\ (Moving' <=> Moving)
       /\ (Reading' <=> Reading) /\ (Writing' <=> Writing)
       /\ \A c \in Callers : Live(c)' <=> Live(c)
  BY <1>1, <1>14, <1>18, Elsewhere
<1>20. Active(Main)'
  BY <1>2, <1>14, <1>18, <1>19 DEF Main, Active
<1>21. \A k \in 0 .. len : Leftover(k) => Leftover(k)'
  <2>1. \A k \in 0 .. len : /\ \A i \in 1 .. k : i \in 1 .. len
                            /\ k > 0 => k \in 1 .. len
    OBVIOUS
  <2> QED
    BY <1>10, <1>12, <2>1 DEF Leftover
<1>22. Len(bus'.tx) = len + 1 /\ len + 1 # 0 /\ len + 1 \in Nat
       /\ bus'.tx[Len(bus'.tx)] = cmd
  BY <1>10, <1>12
<1>23. \A i \in 1 .. len + 1 : i \in 1 .. len \/ i = len + 1
  OBVIOUS
<1>24. Writing => Delivered'
  <2> SUFFICES ASSUME Writing PROVE Delivered'
    OBVIOUS
  <2>1. Delivered /\ ~rd
    BY <1>6, <1>18 DEF DmaMoving
  <2>2. \A i \in 1 .. len + 1 : bus'.tx[i].dma /\ ~bus'.tx[i].rd
    BY <1>4, <1>8, <1>10, <1>12, <1>23, <2>1 DEF Delivered
  <2>3. moved' + (todo - 1) = i2c.size
    <3>1. moved' = moved + 1 /\ moved + todo = i2c.size
      BY <1>4, <1>11, <2>1 DEF Delivered, Writing
    <3> QED
      BY <1>3, <1>4, <3>1
  <2> QED
    BY <1>1, <1>2, <1>12, <1>13, <1>14, <1>22, <2>1, <2>2, <2>3 DEF Delivered
<1>25. Reading => /\ moved' + channel'["rdma"].todo = i2c'.size
                  /\ \E k \in 0 .. Len(bus'.tx) : Requested(k)'
  <2> SUFFICES ASSUME Reading
               PROVE  /\ moved' + channel'["rdma"].todo = i2c'.size
                      /\ \E k \in 0 .. Len(bus'.tx) : Requested(k)'
    OBVIOUS
  <2>1. moved' = moved /\ rd /\ moved + channel["rdma"].todo = i2c.size
    BY <1>6, <1>11, <1>18 DEF DmaMoving, Reading
  <2>2. PICK k \in 0 .. len : Requested(k)
    BY <1>4, <1>18 DEF DmaMoving
  <2>3. Leftover(k)'
    BY <1>21, <2>2 DEF Requested
  <2>4. \A i \in k + 1 .. len + 1 : bus'.tx[i].dma /\ bus'.tx[i].rd
    <3>1. \A i \in k + 1 .. len + 1 : (i \in k + 1 .. len /\ i \in 1 .. len) \/ i = len + 1
      OBVIOUS
    <3> QED
      BY <1>4, <1>8, <1>10, <1>12, <2>1, <2>2, <3>1 DEF Requested
  <2>5. channel'["rdma"].todo = todo - 1 + (len + 1 - k) + OnWire + bus.rx
    <3>1. channel'["rdma"].todo = todo + (len - k) + OnWire + bus.rx
      BY <1>4, <1>13, <2>2 DEF Requested
    <3>2. todo + (len - k) = todo - 1 + (len + 1 - k)
      BY <1>4
    <3> QED
      BY <3>1, <3>2
  <2>6. Requested(k)'
    BY <1>12, <1>13, <1>22, <2>3, <2>4, <2>5 DEF Requested
  <2>7. k \in 0 .. Len(bus'.tx)
    BY <1>22
  <2> QED
    BY <1>1, <1>13, <2>1, <2>6, <2>7
<1>26. channel'["wdma"].todo = 0 => bus'.tx[Len(bus'.tx)].last
  BY <1>6, <1>8, <1>13, <1>22
<1>27. DmaMoving'
  BY <1>1, <1>12, <1>18, <1>19, <1>22, <1>24, <1>25, <1>26 DEF DmaMoving
<1> QED
  BY <1>15, <1>17, <1>18, <1>19, <1>20, <1>27 DEF IInv, Phase

LEMMA DmaReadKeeps ==
  ASSUME IInv, DmaRead
  PROVE  IInv'
<1>1. /\ Types /\ ChannelsExact /\ "rdma" \in bus.dma
      /\ bus.rx > 0 /\ channel["rdma"].todo > 0
      /\ UNCHANGED <<i2c, sem, mask, isr, caller>>
      /\ channel' = [channel EXCEPT !["rdma"].todo = @ - 1,
                                    !["rdma"].done = channel["rdma"].todo = 1]
      /\ bus' = [bus EXCEPT !.rx = @ - 1] /\ moved' = moved + 1
  BY DEF IInv, DmaRead, EngineMove
<1>2. /\ "wdma" \in Channels /\ "rdma" \in Channels
      /\ Channels = {"wdma", "rdma"}
  BY I2cAssumption
<1>3. /\ bus.rx \in Nat /\ moved \in Nat /\ i2c.size \in Nat /\ i2c.op \in Ops
      /\ channel["wdma"].todo \in Nat
  BY <1>1, <1>2, Fields DEF Types
<1>4. PICK len \in Nat, todo \in Nat, last \in BOOLEAN, rx \in Nat :
        /\ len = Len(bus.tx) /\ todo = channel["rdma"].todo /\ todo > 0
        /\ last = (todo = 1) /\ rx = bus.rx /\ rx > 0
  BY <1>1, <1>2, Fields
<1>5. todo - 1 \in Nat /\ rx - 1 \in Nat /\ (last <=> todo - 1 = 0)
  <2>1. todo - 1 \in Nat /\ rx - 1 \in Nat /\ (todo = 1 <=> todo - 1 = 0)
    BY <1>4
  <2>2. last <=> todo = 1
    BY <1>4
  <2> QED
    BY <2>1, <2>2
<1>6. /\ bus' \in BusStates /\ bus'.tx = bus.tx /\ bus'.rx = rx - 1
      /\ bus'.open = bus.open /\ bus'.byte = bus.byte
      /\ bus'.abrt = bus.abrt /\ bus'.dma = bus.dma /\ OnWire' = OnWire
  BY <1>1, <1>4, <1>5 DEF Types, BusStates, OnWire
<1>7. /\ channel' \in [Channels -> ChannelStates]
      /\ channel'["rdma"].todo = todo - 1
      /\ (channel'["rdma"].done <=> last)
      /\ \A ch \in Channels : channel'[ch].state = channel[ch].state
      /\ channel'["wdma"] = channel["wdma"]
  <2>1. channel["rdma"] \in ChannelStates
    BY <1>1, <1>2 DEF Types
  <2>2. PICK x : x = [channel["rdma"] EXCEPT !.todo = todo - 1, !.done = last]
    OBVIOUS
  <2>3. /\ x \in ChannelStates /\ x.todo = todo - 1 /\ x.done = last
        /\ x.state = channel["rdma"].state
    BY <1>4, <1>5, <2>1, <2>2 DEF ChannelStates
  <2>4. channel' = [channel EXCEPT !["rdma"] = x]
    BY <1>1, <1>4, <1>5, <2>2
  <2>5. channel \in [Channels -> ChannelStates]
    BY <1>1 DEF Types
  <2> HIDE DEF ChannelStates
  <2> QED
    BY ONLY <1>2, <2>3, <2>4, <2>5, ChannelMoves
<1>8. \A ch \in Channels : Active(ch)' <=> Active(ch)
  BY <1>7 DEF Active
<1>9. Types'
  BY <1>1, <1>3, <1>6, <1>7 DEF Types
<1>10. Active("rdma")
  BY <1>1, <1>2 DEF ChannelsExact
<1>11. ChannelsExact'
  <2>1. channel'["rdma"].done <=> channel'["rdma"].todo = 0
    BY ONLY <1>5, <1>7
  <2>2. \A d \in Channels : d # "rdma" => channel'[d] = channel[d]
    BY ONLY <1>2, <1>7
  <2> QED
    BY ONLY <1>1, <1>2, <1>6, <1>7, <1>10, <2>1, <2>2, ChannelsMove
<1>12. Moving /\ Active(Main) /\ DmaMoving
  <2>1. ~Calm /\ ~IntMoving
    BY <1>2, <1>10 DEF Calm, IntMoving
  <2> QED
    BY <2>1 DEF IInv, Phase
<1>13. ~Writing /\ Reading
  BY <1>3, <1>10, <1>12 DEF DmaMoving, Delivered, Ops, Writing, Reading
<1>14. /\ CallersExact' /\ Claimed' /\ (Moving' <=> Moving)
       /\ (Reading' <=> Reading) /\ (Writing' <=> Writing)
       /\ \A c \in Callers : Live(c)' <=> Live(c)
  BY <1>1, <1>8, <1>12, Elsewhere
<1>15. Active(Main)'
  BY <1>2, <1>8, <1>12, <1>14 DEF Main, Active
<1>16. moved' + (todo - 1) = i2c.size
  <2>1. moved + todo = i2c.size
    BY <1>4, <1>12, <1>13 DEF DmaMoving
  <2> QED
    <3>1. \A m \in Nat : m + todo = m + 1 + (todo - 1)
      BY <1>4
    <3> QED
      BY <1>1, <1>3, <2>1, <3>1
<1>17. \E k \in 0 .. Len(bus'.tx) : Requested(k)'
  <2>1. PICK k \in 0 .. len : Requested(k)
    BY <1>4, <1>12, <1>13 DEF DmaMoving
  <2>2. Leftover(k)'
    BY <1>6, <2>1 DEF Leftover, Requested
  <2>3. PICK w \in Nat, o \in Nat : w = channel["wdma"].todo /\ o = OnWire
    BY <1>3 DEF OnWire
  <2>4. todo - 1 = w + (len - k) + o + (rx - 1)
    <3>1. todo = w + (len - k) + o + rx
      BY <1>4, <2>1, <2>3 DEF Requested
    <3> QED
      BY <1>5, <2>3, <3>1
  <2> QED
    BY <1>4, <1>6, <1>7, <2>1, <2>2, <2>3, <2>4 DEF Requested
<1>18. DmaMoving'
  BY <1>1, <1>6, <1>7, <1>12, <1>13, <1>14, <1>16, <1>17 DEF DmaMoving
<1> QED
  BY <1>9, <1>11, <1>12, <1>14, <1>15, <1>18 DEF IInv, Phase

-----------------------------------------------------------------------------
LEMMA Start == Init => IInv
<1> SUFFICES ASSUME Init PROVE IInv
  OBVIOUS
<1>1. Channels = {"wdma", "rdma"} /\ Depth \in Nat
  BY I2cAssumption
<1>2. /\ channel = [ch \in Channels |->
                      [state |-> "IDLE", todo |-> 0, done |-> FALSE]]
      /\ i2c = [busy |-> FALSE, op |-> "READ", async |-> FALSE, abort |-> FALSE,
                size |-> 0, left |-> 0, rdleft |-> 0, dma |-> {}]
      /\ ~sem /\ sem \in BOOLEAN /\ mask = {} /\ moved = 0
      /\ bus = [tx |-> <<>>, rx |-> 0, open |-> FALSE, byte |-> "none",
                abrt |-> FALSE, dma |-> {}]
      /\ isr = [on |-> FALSE, status |-> {}]
      /\ caller = [c \in Callers |-> [pc |-> "idle", xfer |-> "none", ints |-> {}]]
  BY DEF Init, DmaInit, IdleChannel, NoCall
<1>3. channel \in [Channels -> ChannelStates] /\ i2c \in Descriptors
  BY <1>2 DEF ChannelStates, Descriptors, Ops
<1>4. bus \in BusStates /\ isr \in IsrStates /\ Len(bus.tx) = 0
  BY <1>2, EmptySeq DEF BusStates, IsrStates
<1>5. caller \in [Callers -> Calls]
  BY <1>2 DEF Calls
<1>6. Types
  BY <1>1, <1>2, <1>3, <1>4, <1>5 DEF Types
<1>7. CallersExact /\ Claimed /\ ~Moving
  BY <1>2 DEF CallersExact, Owned, Claimed, Moving, Live
<1>8. ChannelsExact /\ \A ch \in Channels : ~Active(ch)
  BY <1>2 DEF ChannelsExact, Active
<1>9. Leftover(Len(bus.tx))
  BY <1>4 DEF Leftover
<1>10. Calm
  BY <1>2, <1>8, <1>9 DEF Calm
<1> QED
  BY <1>6, <1>7, <1>8, <1>10 DEF IInv, Phase

(* Every step keeps the invariant, and ends no transfer before its time.   *)
LEMMA StepKeeps ==
  ASSUME NackDiscipline, IInv, Next
  PROVE  IInv' /\ Honest
<1>1. ASSUME UNCHANGED caller
      PROVE  Honest
  BY <1>1 DEF Honest, CallsBack
<1>2. ASSUME NEW c \in Callers, NEW ch \in Channels, i2c_ioctl(c, ch)
      PROVE  IInv' /\ Honest
  BY <1>1, <1>2, Ioctl DEF i2c_ioctl
<1>3. ASSUME NEW c \in Callers, NEW op \in Ops, NEW async \in BOOLEAN,
             NEW n \in 1 .. MaxItems, Claim(c, op, async, n)
      PROVE  IInv' /\ Honest
  <2>1. Honest
    BY <1>3 DEF Claim, IInv, Types, Honest, CallsBack
  <2> QED
    BY <1>3, <2>1, ClaimKeeps
<1>4. ASSUME NEW c \in Callers, NEW ints, GoArm(c, ints)
      PROVE  Honest
  BY <1>4 DEF GoArm, IInv, Types, Calls, Honest, CallsBack
<1>5. ASSUME NEW c \in Callers, FillFifo(c)
      PROVE  IInv' /\ Honest
  <2>1. Honest
    BY <1>4, <1>5 DEF FillFifo
  <2> QED
    BY <1>5, <2>1, FillFifoKeeps
<1>6. ASSUME NEW c \in Callers, StartDma(c)
      PROVE  IInv' /\ Honest
  <2>1. CASE i2c.size <= MaxDma
    BY <1>4, <1>6, <2>1, StartDmaArms, StartDmaGoes
  <2>2. CASE ~(i2c.size <= MaxDma)
    <3>1. IInv' /\ Moves(c, "idle", "refused", caller[c].ints)
      BY <1>6, <2>2, StartDmaRefuses
    <3> QED
      BY <3>1 DEF Moves, Honest, CallsBack
  <2> QED
    BY <2>1, <2>2
<1>7. ASSUME NEW c \in Callers, Arm(c)
      PROVE  IInv' /\ Honest
  <2>1. Honest
    BY <1>7 DEF Arm, IInv, Types, Calls, Honest, CallsBack
  <2> QED
    BY <1>7, <2>1, ArmKeeps
<1>8. ASSUME NEW c \in Callers, Wake(c)
      PROVE  IInv' /\ Honest
  <2>1. caller[c].xfer = "sync"
    BY <1>8 DEF Wake, At, IInv, CallersExact
  <2>2. Honest
    BY <1>8, <2>1 DEF Wake, IInv, Types, Honest, CallsBack
  <2> QED
    BY <1>8, <2>2, WakeKeeps
<1>17. ASSUME NEW c \in Callers, EndSync(c)
      PROVE  IInv' /\ Honest
  <2>1. caller[c].xfer = "none"
    BY <1>17 DEF EndSync, At, IInv, CallersExact
  <2>2. Honest
    BY <1>17, <2>1 DEF EndSync, IInv, Types, Honest, CallsBack
  <2> QED
    BY <1>17, <2>2, EndSyncKeeps
<1>9. ASSUME NEW c \in Callers, i2c_cancel(c)
      PROVE  IInv' /\ Honest
  <2>1. Honest
    BY <1>9 DEF i2c_cancel, IInv, Types, Calls, Honest, CallsBack
  <2> QED
    BY <1>9, <2>1, CancelKeeps
<1>10. ASSUME ReadStatus PROVE IInv' /\ Honest
  BY <1>1, <1>10, ReadStatusKeeps DEF ReadStatus
<1>11. ASSUME IsrAbort PROVE IInv' /\ Honest
  <2>1. \A c \in Callers : caller'[c].xfer = caller[c].xfer \/ caller'[c].xfer = "nacked"
    BY <1>11 DEF IsrAbort, Report, IInv, Types, Calls
  <2>2. Honest
    BY <2>1 DEF Honest, CallsBack
  <2> QED
    BY <1>11, <2>2, IsrAbortKeeps
<1>12. ASSUME BusTake PROVE IInv' /\ Honest
  BY <1>1, <1>12, BusTakeKeeps DEF BusTake
<1>13. ASSUME BusDone PROVE IInv' /\ Honest
  BY <1>1, <1>13, BusDoneKeeps DEF BusDone
<1>14. ASSUME BusNack PROVE IInv' /\ Honest
  BY <1>1, <1>14, BusNackKeeps DEF BusNack
<1>15. ASSUME DmaWrite PROVE IInv' /\ Honest
  BY <1>1, <1>15, DmaWriteKeeps DEF DmaWrite
<1>16. ASSUME DmaRead PROVE IInv' /\ Honest
  BY <1>1, <1>16, DmaReadKeeps DEF DmaRead
<1> QED
  BY <1>2, <1>3, <1>5, <1>6, <1>7, <1>8, <1>9, <1>10, <1>11, <1>12, <1>13, <1>14,
     <1>15, <1>16, <1>17, IsrWriteKeeps, IsrReadKeeps, DmaDoneKeeps, Zenon
  DEF Next, Work, Handlers

(* What the steps leave to a call that is about to return.                 *)
LEMMA ResultsKept ==
  ASSUME Total, UNCHANGED result,
         \A c \in Callers : caller'[c].pc = "end" <=> caller[c].pc = "end",
         \A c \in Callers : result[c] = "part" => i2c'.abort /\ ~i2c'.busy
  PROVE  Results'
BY DEF Total, Results

LEMMA ResultsKeep ==
  ASSUME Total, Next
  PROVE  Results'
<1>1. /\ Types /\ Results /\ i2c \in Descriptors /\ caller \in [Callers -> Calls]
      /\ \A c \in Callers : result[c] = "part" => i2c.abort /\ ~i2c.busy
  BY DEF Total, IInv, Types, Results
<1>2. ASSUME UNCHANGED <<caller, i2c, result>> PROVE Results'
  BY <1>2 DEF Total, Results
<1>3. ASSUME NEW c \in Callers, NEW ch \in Channels, i2c_ioctl(c, ch)
      PROVE  Results'
  <2>1. i2c'.abort = i2c.abort /\ i2c'.busy = i2c.busy
    BY <1>1, <1>3 DEF i2c_ioctl, Descriptors
  <2> QED
    BY <1>1, <1>3, <2>1, ResultsKept DEF i2c_ioctl
<1>4. ASSUME NEW c \in Callers, NEW op \in Ops, NEW async \in BOOLEAN,
             NEW n \in 1 .. MaxItems, Claim(c, op, async, n)
      PROVE  Results'
  <2>1. \A d \in Callers : caller'[d].pc = "end" <=> caller[d].pc = "end"
    BY <1>1, <1>4 DEF Claim, At, Calls
  <2>2. result' = [d \in Callers |->
          IF result[d] = "part" THEN "overtaken" ELSE result[d]]
    BY <1>4 DEF Claim
  <2> QED
    BY <1>1, <2>1, <2>2 DEF Results
<1>5. ASSUME NEW c \in Callers, FillFifo(c) PROVE Results'
  <2>1. i2c'.abort = i2c.abort /\ i2c'.busy = i2c.busy
    BY <1>1, <1>5 DEF FillFifo, Descriptors
  <2>2. \A d \in Callers : caller'[d].pc = "end" <=> caller[d].pc = "end"
    BY <1>1, <1>5 DEF FillFifo, GoArm, At, Calls
  <2>3. UNCHANGED result
    BY <1>5 DEF FillFifo
  <2> QED
    BY <1>1, <2>1, <2>2, <2>3, ResultsKept
<1>6. ASSUME NEW c \in Callers, StartDma(c) PROVE Results'
  <2>1. i2c'.abort = i2c.abort /\ i2c'.busy = i2c.busy
    BY <1>1, <1>6 DEF StartDma, Descriptors
  <2>2. /\ caller[c].pc = "start" /\ UNCHANGED result
        /\ \/ GoArm(c, {"TX_ABRT"})
           \/ caller' = [caller EXCEPT ![c].pc = "idle", ![c].xfer = "refused"]
    BY <1>6 DEF StartDma, At
  <2>3. \A d \in Callers : caller'[d].pc = "end" <=> caller[d].pc = "end"
    BY <1>1, <2>2 DEF GoArm, Calls
  <2> QED
    BY <1>1, <2>1, <2>2, <2>3, ResultsKept
<1>7. ASSUME NEW c \in Callers, Arm(c) PROVE Results'
  <2>1. \A d \in Callers : caller'[d].pc = "end" <=> caller[d].pc = "end"
    BY <1>1, <1>7 DEF Arm, At, Calls
  <2> QED
    BY <1>1, <1>7, <2>1, ResultsKept DEF Arm
<1>8. ASSUME NEW c \in Callers, Wake(c) PROVE Results'
  <2>1. /\ \A d \in Callers : d # c => caller'[d] = caller[d]
        /\ caller'[c].pc = "end"
    BY <1>1, <1>8 DEF Wake, Calls
  <2>2. i2c'.abort = i2c.abort /\ ~i2c'.busy
    BY <1>1, <1>8 DEF Wake, Descriptors
  <2>3. i2c.abort \/ moved = i2c.size
    BY <1>8 DEF Wake, Total, IInv, CallersExact
  <2>4. result' = [result EXCEPT ![c] = IF moved = i2c.size THEN "whole" ELSE "part"]
    BY <1>8 DEF Wake
  <2> QED
    BY <1>1, <2>1, <2>2, <2>3, <2>4 DEF Results
<1>9. ASSUME NEW c \in Callers, EndSync(c) PROVE Results'
  <2>1. /\ \A d \in Callers : d # c => caller'[d] = caller[d]
        /\ caller'[c].pc = "idle" /\ UNCHANGED i2c
        /\ result' = [result EXCEPT ![c] = "none"]
    BY <1>1, <1>9 DEF EndSync, NoCall
  <2> QED
    BY <1>1, <2>1 DEF Results
<1>10. ASSUME NEW c \in Callers, i2c_cancel(c) PROVE Results'
  <2>1. i2c.busy /\ UNCHANGED result
    BY <1>10 DEF i2c_cancel
  <2>2. \A d \in Callers : caller'[d].pc = "end" <=> caller[d].pc = "end"
    BY <1>1, <1>10 DEF i2c_cancel, At, Calls
  <2> QED
    BY <1>1, <2>1, <2>2, ResultsKept
<1>11. ASSUME Handlers PROVE Results'
  <2>1. ASSUME NEW over, NEW outcome, Report(over, outcome)
        PROVE  \A c \in Callers : caller'[c].pc = caller[c].pc
    BY <1>1, <2>1 DEF Report, Calls
  <2>2. ASSUME ReadStatus PROVE Results'
    BY <1>2, <2>2 DEF ReadStatus
  <2>3. ASSUME IsrAbort PROVE Results'
    <3>1. /\ UNCHANGED result /\ i2c'.abort /\ i2c'.busy = i2c.busy
          /\ \A c \in Callers : caller'[c].pc = caller[c].pc
      BY <1>1, <2>1, <2>3 DEF IsrAbort, Descriptors
    <3> QED
      BY <1>1, <3>1, ResultsKept
  <2>4. ASSUME IsrWrite PROVE Results'
    <3>1. /\ UNCHANGED result /\ i2c'.abort = i2c.abort /\ (i2c'.busy => i2c.busy)
          /\ \A c \in Callers : caller'[c].pc = caller[c].pc
      BY <1>1, <2>1, <2>4 DEF IsrWrite, ServeWrite, Descriptors
    <3> QED
      BY <1>1, <3>1, ResultsKept
  <2>5. ASSUME IsrRead PROVE Results'
    <3>1. /\ UNCHANGED result /\ i2c'.abort = i2c.abort /\ (i2c'.busy => i2c.busy)
          /\ \A c \in Callers : caller'[c].pc = caller[c].pc
      BY <1>1, <2>1, <2>5 DEF IsrRead, Descriptors
    <3> QED
      BY <1>1, <3>1, ResultsKept
  <2>6. ASSUME NEW ch \in Channels, DmaDone(ch) PROVE Results'
    <3>1. /\ UNCHANGED result /\ i2c'.abort = i2c.abort /\ (i2c'.busy => i2c.busy)
          /\ \A c \in Callers : caller'[c].pc = caller[c].pc
      BY <1>1, <2>1, <2>6 DEF DmaDone, Descriptors
    <3> QED
      BY <1>1, <3>1, ResultsKept
  <2> QED
    BY <1>11, <2>2, <2>3, <2>4, <2>5, <2>6 DEF Handlers
<1>12. ASSUME BusTake \/ BusDone \/ BusNack \/ DmaWrite \/ DmaRead
       PROVE  UNCHANGED <<caller, i2c, result>>
  BY <1>12 DEF BusTake, BusDone, BusNack, DmaWrite, DmaRead
<1> QED
  BY <1>2, <1>3, <1>4, <1>5, <1>6, <1>7, <1>8, <1>9, <1>10, <1>11, <1>12
  DEF Next, Work

LEMMA TotalStart == Init => Total
<1>1. Init => Results
  BY DEF Init, NoCall, Results
<1> QED
  BY <1>1, Start DEF Total

LEMMA Inductive ==
  ASSUME NackDiscipline
  PROVE  Total /\ [Next]_vars => Total'
<1>1. IInv /\ UNCHANGED vars => IInv'
  BY DEF vars, IInv, Types, CallersExact, Owned, ChannelsExact, Active, Claimed,
     Phase, Moving, Live, Calm, Leftover, Main, Reading, Writing, OnWire,
     DmaMoving, Delivered, Requested, IntMoving, IntMasks, Refused, Commanded,
     Unqueued
<1>2. Results /\ UNCHANGED vars => Results'
  BY DEF vars, Results
<1> QED
  BY <1>1, <1>2, StepKeeps, ResultsKeep DEF Total

(* At most one call has the instance, and it is busy exactly when one has; *)
(* a semaphore is posted only for that call, when its transfer is over;    *)
(* and between transfers nothing of the last one is left in the channels,  *)
(* the RX FIFO and the interrupt mask: i2c_write_sync, i2c_write_async,    *)
(* i2c_read_sync and i2c_read_async, their handlers and i2c_cancel.  A     *)
(* call whose DMA transfer is too long has the instance until it cancels.  *)
THEOREM OneTransfer ==
  ASSUME NackDiscipline
  PROVE  Spec => []OwnerExact
<1>1. IInv => OwnerExact
  <2> SUFFICES ASSUME IInv PROVE OwnerExact
    OBVIOUS
  <2>1. Types /\ CallersExact
    BY DEF IInv
  <2>2. Owners # {} <=> \E c \in Callers : Owned(c)
    BY DEF Owners, Owned
  <2>3. i2c.busy = (Owners # {})
    <3>1. i2c.busy \in BOOLEAN /\ (i2c.busy <=> Owners # {})
      BY <2>1, <2>2, Fields DEF CallersExact
    <3> QED
      BY <3>1, Zenon
  <2>4. Cardinality(Owners) <= 1
    <3>1. CASE Owners = {}
      <4>1. Cardinality(Owners) = 0
        BY <3>1, FS_EmptySet
      <4> QED
        BY <4>1
    <3>2. CASE Owners # {}
      <4>1. PICK c \in Callers : Owned(c)
        BY <2>2, <3>2
      <4>2. Owners = {c}
        BY <2>1, <4>1 DEF Owners, Owned, CallersExact
      <4>3. Cardinality({c}) = 1
        BY FS_Singleton
      <4> QED
        BY <4>2, <4>3
    <3> QED
      BY <3>1, <3>2
  <2>5. sem => /\ \E c \in Callers : caller[c].xfer = "sync"
               /\ i2c.abort \/ moved = i2c.size
    BY <2>1 DEF CallersExact
  <2>6. ~i2c.busy /\ TasksRun =>
          dma_setup_ok(Channels) /\ bus.rx = 0 /\ mask \subseteq {"TX_ABRT"}
    <3> SUFFICES ASSUME ~i2c.busy, TasksRun
                 PROVE  dma_setup_ok(Channels) /\ bus.rx = 0
                        /\ mask \subseteq {"TX_ABRT"}
      OBVIOUS
    <3>1. ~Moving
      BY NoOwner
    <3>2. (\A ch \in Channels : ~Active(ch)) /\ mask \subseteq {"TX_ABRT"}
      BY <3>1, Quiet
    <3>3. dma_setup_ok(Channels)
      BY <2>1, <3>2, Fields DEF dma_setup_ok, Active
    <3> QED
      BY <3>1, <3>2, <3>3 DEF IInv, Phase, Calm
  <2> QED
    BY <2>3, <2>4, <2>5, <2>6 DEF OwnerExact
<1>2. Total => OwnerExact
  BY <1>1 DEF Total
<1> QED
  BY <1>2, TotalStart, Inductive, PTL DEF Spec

(* A callback with I2C_SUCCESS stands for a transfer of all the bytes that *)
(* were asked for: i2c_isr and the callbacks of the two DMA channels end   *)
(* no transfer early.  So does a synchronous call that returns 0, unless   *)
(* another task has claimed the instance between is_busy = false and the   *)
(* test of is_xfer_abort at the end of i2c_write_sync or i2c_read_sync.    *)
THEOREM DoneIsMoved ==
  ASSUME NackDiscipline
  PROVE  Spec => DoneMeansMoved
<1>1. Total => HonestReturn
  BY DEF Total, Results, HonestReturn, Returns0
<1>2. Total /\ [Next]_vars =>
        [\A c \in Callers :
           /\ CallsBack(c) => moved' = i2c.size
           /\ Returns0(c) => result[c] \in {"whole", "overtaken"}]_vars
  BY <1>1, StepKeeps DEF Total, Honest, HonestReturn
<1> QED
  BY <1>2, TotalStart, Inductive, PTL DEF Spec, DoneMeansMoved

=============================================================================
