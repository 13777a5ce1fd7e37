--------------------------- MODULE NetworkProofs ---------------------------
(***************************************************************************)
(* Proofs about NetworkInterface, with Xgmac and BufferAllocation, for any *)
(* callers, rings, pools and traffic.                                      *)
(***************************************************************************)
EXTENDS NetworkInterface, FiniteSetTheorems, TLAPS

-----------------------------------------------------------------------------
(* Counting: a set that gains or loses one element.                        *)
LEMMA SetMove ==
  ASSUME NEW A, NEW B, NEW x, IsFiniteSet(A), A \ {x} = B \ {x}
  PROVE  /\ IsFiniteSet(B)
         /\ Cardinality(B) = Cardinality(A) + One(x \in B) - One(x \in A)
<1> DEFINE C == A \ {x}
<1>1. IsFiniteSet(C) /\ Cardinality(C) = Cardinality(A) - One(x \in A)
  BY FS_RemoveElement, FS_CardinalityType DEF One
<1>2. IsFiniteSet(C \cup {x}) /\ Cardinality(C \cup {x}) = Cardinality(C) + 1
  BY <1>1, FS_AddElement
<1>3. (x \in B => B = C \cup {x}) /\ (x \notin B => B = C)
  OBVIOUS
<1>4. Cardinality(C) \in Nat /\ Cardinality(A) \in Nat
  BY <1>1, FS_CardinalityType
<1> HIDE DEF C
<1>5. CASE x \in B
  <2>1. B = C \cup {x}
    BY <1>3, <1>5
  <2>2. IsFiniteSet(B) /\ Cardinality(B) = Cardinality(C) + 1
    BY <1>2, <2>1
  <2> QED
    BY <1>1, <1>4, <1>5, <2>2 DEF One
<1>6. CASE x \notin B
  BY <1>1, <1>3, <1>4, <1>6 DEF One
<1> QED
  BY <1>5, <1>6

(* The tasks of S at some locations, when one task moves.                  *)
LEMMA TaskMoves ==
  ASSUME NEW S, IsFiniteSet(S), NEW t \in S, NEW locs,
         \A u \in S : u # t => task'[u].pc = task[u].pc
  PROVE  /\ Cardinality(TasksAt(S, locs)) \in Nat
         /\ Cardinality(TasksAt(S, locs)') \in Nat
         /\ Cardinality(TasksAt(S, locs)') =
              Cardinality(TasksAt(S, locs))
                + One(task'[t].pc \in locs) - One(task[t].pc \in locs)
<1> DEFINE A == {u \in S : task[u].pc \in locs}
           B == {u \in S : task'[u].pc \in locs}
<1>1. IsFiniteSet(A) /\ Cardinality(A) \in Nat /\ Cardinality(B) \in Nat
  BY FS_Subset, FS_CardinalityType
<1>2. A \ {t} = B \ {t}
  OBVIOUS
<1>3. (t \in A <=> task[t].pc \in locs) /\ (t \in B <=> task'[t].pc \in locs)
  OBVIOUS
<1> HIDE DEF A, B
<1>4. Cardinality(B) = Cardinality(A) + One(t \in B) - One(t \in A)
  BY <1>1, <1>2, SetMove
<1> QED
  BY <1>1, <1>3, <1>4 DEF A, B, One, TasksAt

LEMMA FiniteTasks == IsFiniteSet(Callers) /\ IsFiniteSet(Tasks)
BY PoolAssumption, FS_AddElement DEF Tasks

-----------------------------------------------------------------------------
(* Indices of the rings.                                                   *)
LEMMA ModOnce ==
  ASSUME NEW n \in Nat \ {0}, NEW x \in Nat, x < 2 * n
  PROVE  x % n = IF x < n THEN x ELSE x - n
<1>1. CASE x < n
  BY <1>1
<1>2. CASE x >= n
  <2>1. x = n * 1 + (x - n) /\ x - n \in 0 .. n - 1
    BY <1>2
  <2> QED
    BY <2>1, <1>2
<1> QED
  BY <1>1, <1>2

LEMMA Around ==
  ASSUME NEW n \in Nat \ {0}, NEW i \in 0 .. n - 1, NEW k \in 0 .. n
  PROVE  /\ (i + k) % n = IF i + k < n THEN i + k ELSE i + k - n
         /\ (i + k) % n \in 0 .. n - 1
<1> DEFINE x == i + k
<1>1. x \in Nat /\ x < 2 * n
  OBVIOUS
<1>2. x % n = IF x < n THEN x ELSE x - n
  <2> HIDE DEF x
  <2> QED BY <1>1, ModOnce
<1> QED
  BY <1>1, <1>2

(* The slots from the tail of the ring: each is one slot, and each slot is *)
(* one of them.                                                            *)
LEMMA Slots ==
  ASSUME tx_desc_tail \in TxSlots
  PROVE  /\ \A k \in 0 .. NTx :
              /\ TxSlot(k) = IF tx_desc_tail + k < NTx THEN tx_desc_tail + k
                             ELSE tx_desc_tail + k - NTx
              /\ TxSlot(k) \in TxSlots
         /\ \A j, k \in TxSlots : TxSlot(j) = TxSlot(k) => j = k
         /\ \A i \in TxSlots : \E k \in TxSlots : TxSlot(k) = i
<1>1. \A k \in 0 .. NTx :
        /\ TxSlot(k) = IF tx_desc_tail + k < NTx THEN tx_desc_tail + k
                       ELSE tx_desc_tail + k - NTx
        /\ TxSlot(k) \in TxSlots
  BY Around, XgmacAssumption DEF TxSlots, TxSlot
<1>2. \A j, k \in TxSlots : TxSlot(j) = TxSlot(k) => j = k
  BY <1>1, XgmacAssumption DEF TxSlots
<1>3. ASSUME NEW i \in TxSlots PROVE \E k \in TxSlots : TxSlot(k) = i
  <2> DEFINE k == IF i >= tx_desc_tail THEN i - tx_desc_tail
                  ELSE i - tx_desc_tail + NTx
  <2>1. k \in TxSlots /\ TxSlot(k) = i
    BY <1>1, XgmacAssumption DEF TxSlots
  <2> QED
    BY <2>1
<1> QED
  BY <1>1, <1>2, <1>3

(* ... and the positions from the head of the pool.                        *)
LEMMA Positions ==
  ASSUME pool.head \in TxBufs
  PROVE  /\ \A k \in 0 .. NPool :
              /\ PoolPos(k) = IF pool.head + k < NPool THEN pool.head + k
                              ELSE pool.head + k - NPool
              /\ PoolPos(k) \in TxBufs
         /\ \A j, k \in TxBufs : PoolPos(j) = PoolPos(k) => j = k
<1>1. \A k \in 0 .. NPool :
        /\ PoolPos(k) = IF pool.head + k < NPool THEN pool.head + k
                        ELSE pool.head + k - NPool
        /\ PoolPos(k) \in TxBufs
  BY Around, XgmacAssumption DEF TxBufs, PoolPos
<1> QED
  BY <1>1, XgmacAssumption DEF TxBufs

-----------------------------------------------------------------------------
(* The steps of tasks.                                                     *)
LEMMA GotoStep ==
  ASSUME TypeOK, NEW t \in Tasks, NEW loc \in CallerPcs \cup EmacPcs,
         Goto(t, loc)
  PROVE  /\ task' \in [Tasks -> Calls]
         /\ task'[t] = [task[t] EXCEPT !.pc = loc]
         /\ task'[t].pc = loc /\ task'[t].buf = task[t].buf
         /\ task'[t].tail = task[t].tail /\ task'[t].head = task[t].head
         /\ task'[t].used = task[t].used
         /\ \A u \in Tasks : u # t => task'[u] = task[u]
BY DEF TypeOK, Goto, Calls

(* The network buffers, when a task moves.                                 *)
LEMMA NetMoves ==
  ASSUME NEW t \in Tasks, \A u \in Tasks : u # t => task'[u].pc = task[u].pc
  PROVE  /\ Cardinality(TasksAt(Tasks, {"get", "rxget"})) \in Nat
         /\ Cardinality(TasksAt(Tasks, {"give", "dropgive"})) \in Nat
         /\ Cardinality(TasksAt(Tasks, {"get", "rxget"})') \in Nat
         /\ Cardinality(TasksAt(Tasks, {"give", "dropgive"})') \in Nat
         /\ Cardinality(TasksAt(Callers, Carrying)) \in Nat
         /\ Cardinality(TasksAt(Tasks, {"get", "rxget"})') =
              Cardinality(TasksAt(Tasks, {"get", "rxget"}))
                + One(task'[t].pc \in {"get", "rxget"})
                - One(task[t].pc \in {"get", "rxget"})
         /\ Cardinality(TasksAt(Tasks, {"give", "dropgive"})') =
              Cardinality(TasksAt(Tasks, {"give", "dropgive"}))
                + One(task'[t].pc \in {"give", "dropgive"})
                - One(task[t].pc \in {"give", "dropgive"})
         /\ t \in Callers =>
              Cardinality(TasksAt(Callers, Carrying)') =
                Cardinality(TasksAt(Callers, Carrying))
                  + One(task'[t].pc \in Carrying) - One(task[t].pc \in Carrying)
         /\ t \notin Callers =>
              TasksAt(Callers, Carrying)' = TasksAt(Callers, Carrying)
<1>1. /\ Cardinality(TasksAt(Tasks, {"get", "rxget"})) \in Nat
      /\ Cardinality(TasksAt(Tasks, {"give", "dropgive"})) \in Nat
      /\ Cardinality(TasksAt(Tasks, {"get", "rxget"})') \in Nat
      /\ Cardinality(TasksAt(Tasks, {"give", "dropgive"})') \in Nat
      /\ Cardinality(TasksAt(Tasks, {"get", "rxget"})') =
              Cardinality(TasksAt(Tasks, {"get", "rxget"}))
                + One(task'[t].pc \in {"get", "rxget"})
                - One(task[t].pc \in {"get", "rxget"})
      /\ Cardinality(TasksAt(Tasks, {"give", "dropgive"})') =
              Cardinality(TasksAt(Tasks, {"give", "dropgive"}))
                + One(task'[t].pc \in {"give", "dropgive"})
                - One(task[t].pc \in {"give", "dropgive"})
  BY FiniteTasks, TaskMoves
<1>2. TasksAt(Callers, Carrying) \in SUBSET Callers
  BY DEF TasksAt
<1>3. Cardinality(TasksAt(Callers, Carrying)) \in Nat
  BY <1>2, FiniteTasks, FS_Subset, FS_CardinalityType
<1>4. CASE t \in Callers
  <2>1. \A u \in Callers : u # t => task'[u].pc = task[u].pc
    BY DEF Tasks
  <2> QED
    BY <1>1, <1>3, <1>4, <2>1, FiniteTasks, TaskMoves
<1>5. CASE t \notin Callers
  <2>1. \A u \in Callers : task'[u].pc = task[u].pc
    BY <1>5 DEF Tasks
  <2>2. TasksAt(Callers, Carrying)' = TasksAt(Callers, Carrying)
    BY <2>1 DEF TasksAt
  <2> QED
    BY <1>1, <1>3, <1>5, <2>2
<1> QED
  BY <1>4, <1>5

(* A step that leaves the network buffers alone.                           *)
LEMMA NetKept ==
  ASSUME NetworkBuffersAccounted, UNCHANGED <<netVars, chain, ipq, lost>>,
         \A u \in Tasks :
           /\ task'[u].pc \in {"get", "rxget"} <=> task[u].pc \in {"get", "rxget"}
           /\ task'[u].pc \in {"give", "dropgive"} <=>
                task[u].pc \in {"give", "dropgive"}
           /\ u \in Callers => (task'[u].pc \in Carrying <=> task[u].pc \in Carrying)
  PROVE  NetworkBuffersAccounted'
<1>1. /\ TasksAt(Tasks, {"get", "rxget"})' = TasksAt(Tasks, {"get", "rxget"})
      /\ TasksAt(Tasks, {"give", "dropgive"})' = TasksAt(Tasks, {"give", "dropgive"})
      /\ TasksAt(Callers, Carrying)' = TasksAt(Callers, Carrying)
  BY DEF TasksAt, Tasks
<1> QED
  BY <1>1 DEF NetworkBuffersAccounted, GetsHeld, GivesDue, InUse, netVars, One

(* The part of BufferInv about the transmit ring and its pool.                  *)
RingInv ==
  /\ MutexExact /\ RingState /\ TokensBacked /\ IndicesRead /\ PoolState
  /\ TxBuffersAccounted

RingLocs == {"sem", "lock", "head", "kick"}
DoneLocs == {"count", "locked", "release"}

(* A step of others leaves the ring and the pool alone.                    *)
LEMMA RingKept ==
  ASSUME TypeOK, RingInv, UNCHANGED <<ringVars, pool>>,
         engine'.tx = engine.tx, engine'.todo = engine.todo,
         \/ tokens' = tokens /\ ("TI" \in status' => "TI" \in status)
         \/ tokens' = tokens + 1 /\ "TI" \in status /\ "TI" \notin status',
         \A t \in Callers : task[t].pc \in RingLocs \/ task'[t].pc \in RingLocs
                              => task'[t] = task[t],
         task[Emac].pc \in DoneLocs \/ task'[Emac].pc \in DoneLocs
           => task'[Emac] = task[Emac],
         \/ iface' = iface
         \/ Filled = 0 /\ (iface' = "down" \/ (iface = "wait" /\ iface' = "up"))
  PROVE  RingInv'
<1>1. \A locs \in SUBSET RingLocs : CallersAt(locs)' = CallersAt(locs)
  BY DEF CallersAt, TasksAt
<1>2. /\ CallersAt({"lock"})' = CallersAt({"lock"})
      /\ CallersAt({"head"})' = CallersAt({"head"})
      /\ CallersAt({"kick"})' = CallersAt({"kick"})
      /\ CallersAt({"sem", "lock"})' = CallersAt({"sem", "lock"})
  BY <1>1 DEF RingLocs
<1>3. UNCHANGED <<txRing, tx_desc_head, tx_desc_tail, tx_sem, tx_mutex>>
  BY DEF ringVars
<1>4. Filled' = Filled
  BY <1>2, <1>3 DEF Filled
<1>5. Sent' = Sent /\ Advancing' = Advancing
  BY <1>2, <1>4 DEF Sent, Advancing, Kicking
<1>6. Releasing' = Releasing /\ At(Emac, "release")' = At(Emac, "release")
  BY DEF Releasing, At, DoneLocs
<1>7. MutexExact'
  BY <1>3 DEF RingInv, MutexExact, RingLocs
<1>8. RingState'
  BY <1>3, <1>4, <1>5 DEF RingInv, RingState, TxSlot
<1>9. TokensBacked'
  <2>1. TokensBacked /\ Sent \in Int /\ tokens \in Int
    BY XgmacAssumption DEF RingInv, RingState, TypeOK
  <2>2. /\ tokens' + One(("TI" \in status)') <= tokens + One("TI" \in status)
        /\ One(Releasing)' = One(Releasing) /\ tokens' \in Int
    BY <1>6, <2>1 DEF One
  <2>3. One("TI" \in status) \in Int /\ One(("TI" \in status)') \in Int /\ One(Releasing) \in Int
    BY DEF One
  <2> QED
    BY <1>5, <2>1, <2>2, <2>3 DEF TokensBacked
<1>10. IndicesRead'
  BY <1>3, <1>6 DEF RingInv, IndicesRead, Releasing, DoneLocs
<1>11. PoolState'
  BY <1>2, <1>4, <1>6 DEF RingInv, PoolState, PoolPos, One
<1>12. TxBuffersAccounted'
  <2>1. ASSUME NEW b \in TxBufs
        PROVE  /\ WithSender(b)' = WithSender(b) /\ InRing(b)' = InRing(b)
               /\ InPool(b)' = InPool(b)
               /\ (At(Emac, "release") /\ task[Emac].buf = b)'
                    = (At(Emac, "release") /\ task[Emac].buf = b)
    <3>1. WithSender(b)' = WithSender(b)
      BY DEF WithSender, RingLocs
    <3>2. InRing(b)' = InRing(b) /\ InPool(b)' = InPool(b)
      BY <1>3 DEF InRing, InPool
    <3>3. (At(Emac, "release") /\ task[Emac].buf = b)'
            = (At(Emac, "release") /\ task[Emac].buf = b)
      BY DEF At, DoneLocs
    <3> QED
      BY <3>1, <3>2, <3>3
  <2> QED
    BY <2>1 DEF RingInv, TxBuffersAccounted
<1> QED
  BY <1>7, <1>8, <1>9, <1>10, <1>11, <1>12 DEF RingInv

-----------------------------------------------------------------------------
(* The types: the bounds of the network buffers follow from the accounting *)
(* of them.                                                                *)
NetTypes ==
  /\ xNetworkBufferSemaphore \in Nat /\ xFreeBuffersList \in Nat
  /\ chain \in Nat /\ lost \in Nat /\ ipq \in [queued : Nat, giving : BOOLEAN]

OtherTypes ==
  /\ XgmacTypeOK /\ task \in [Tasks -> Calls]
  /\ pool \in [buf : [TxBufs -> TxBufs], head : TxBufs,
               tail : TxBufs, used : 0 .. NPool]
  /\ rxUsed \in {0, NRx} /\ tokens \in 0 .. NTx
  /\ notes \subseteq {"RX", "TX", "ERR"} /\ events \subseteq {"RX", "TX", "ERR"}
  /\ iface \in {"down", "wait", "up"}
  /\ phy \in [up : BOOLEAN, link : BOOLEAN, reconfig : BOOLEAN]
  /\ load \in Traffic /\ refused \in BOOLEAN

LEMMA Types ==
  /\ TypeOK => OtherTypes /\ NetTypes
  /\ OtherTypes /\ NetTypes /\ NetworkBuffersAccounted => TypeOK
<1>1. TypeOK => OtherTypes /\ NetTypes
  BY NBufAssumption DEF TypeOK, OtherTypes, NetTypes, NetTypeOK
<1>2. ASSUME OtherTypes, NetTypes, NetworkBuffersAccounted PROVE TypeOK
  <2>1. /\ Cardinality(TasksAt(Tasks, {"get", "rxget"})) \in Nat
        /\ Cardinality(TasksAt(Tasks, {"give", "dropgive"})) \in Nat
        /\ Cardinality(TasksAt(Callers, Carrying)) \in Nat
    BY FiniteTasks, FS_Subset, FS_CardinalityType DEF TasksAt
  <2>2. One(ipq.giving) \in Nat
    BY DEF One
  <2>3. GetsHeld \in Nat /\ GivesDue \in Nat
    BY <2>1, <2>2 DEF GetsHeld, GivesDue
  <2>4. /\ xNetworkBufferSemaphore \in 0 .. NBuf /\ xFreeBuffersList \in 0 .. NBuf
        /\ chain \in 0 .. NBuf /\ ipq.queued \in 0 .. NBuf /\ lost \in 0 .. NBuf
    BY <1>2, <2>1, <2>3, NBufAssumption
       DEF NetworkBuffersAccounted, InUse, NetTypes
  <2> QED
    BY <1>2, <2>4 DEF TypeOK, OtherTypes, NetTypes, NetTypeOK
<1> QED
  BY <1>1, <1>2

(* What an action has to show.                                             *)
LEMMA Conclude ==
  OtherTypes /\ NetTypes /\ Locations /\ RingInv /\ ~refused
    /\ NetworkBuffersAccounted => BufferInv
BY Types DEF BufferInv, RingInv

(* A caller takes a step of xNetworkInterfaceOutput or on either side.     *)
LEMMA CallerLocation ==
  ASSUME BufferInv, NEW t \in Callers, task[t].pc # "idle" \/ iface = "up",
         UNCHANGED iface, \A u \in Tasks : u # t => task'[u] = task[u],
         task'[t].pc \in CallerPcs,
         task'[t].pc \in {"sem", "lock"} => task'[t].buf # None
  PROVE  iface = "up" /\ Locations'
<1>1. iface = "up"
  BY DEF BufferInv, Locations
<1>2. t # Emac /\ Callers \subseteq Tasks /\ Emac \in Tasks
  BY XgmacAssumption DEF Tasks
<1> QED
  BY <1>1, <1>2 DEF BufferInv, Locations, At

(* The handler task takes a step.                                          *)
LEMMA EmacLocation ==
  ASSUME BufferInv, task[Emac].pc # "wait" \/ iface = "up",
         UNCHANGED iface, \A u \in Tasks : u # Emac => task'[u] = task[u],
         task'[Emac].pc \in EmacPcs,
         task'[Emac].pc = "release" => task'[Emac].buf # None
  PROVE  iface = "up" /\ Locations'
<1>1. iface = "up"
  BY DEF BufferInv, Locations
<1>2. \A t \in Callers : t # Emac /\ t \in Tasks
  BY XgmacAssumption DEF Tasks
<1> QED
  BY <1>1, <1>2 DEF BufferInv, Locations, At

(* A step that leaves the ring and the pool alone.                         *)
LEMMA CallerQuiet ==
  ASSUME BufferInv, NEW t \in Callers, task[t].pc # "idle" \/ iface = "up",
         UNCHANGED <<ringVars, hwVars, tokens, pool, iface, refused>>,
         \A u \in Tasks : u # t => task'[u] = task[u],
         task[t].pc \notin RingLocs, task'[t].pc \in CallerPcs \ RingLocs,
         OtherTypes', NetTypes', NetworkBuffersAccounted'
  PROVE  BufferInv'
<1>1. Locations'
  BY CallerLocation DEF RingLocs
<1>2. RingInv'
  <2>1. t # Emac /\ Callers \subseteq Tasks /\ Emac \in Tasks
    BY XgmacAssumption DEF Tasks
  <2>2. engine' = engine /\ status' = status
    BY DEF hwVars
  <2>3. task'[Emac] = task[Emac]
    BY <2>1
  <2>4. \A u \in Callers : task[u].pc \in RingLocs \/ task'[u].pc \in RingLocs
                              => task'[u] = task[u]
    BY <2>1
  <2>5. TypeOK /\ RingInv
    BY DEF BufferInv, RingInv
  <2> QED
    BY <2>2, <2>3, <2>4, <2>5, RingKept
<1>3. ~refused'
  BY DEF BufferInv
<1> QED
  BY <1>1, <1>2, <1>3, Conclude, PTL

LEMMA EmacQuiet ==
  ASSUME BufferInv, task[Emac].pc # "wait" \/ iface = "up",
         UNCHANGED <<ringVars, hwVars, tokens, pool, iface, refused>>,
         \A u \in Tasks : u # Emac => task'[u] = task[u],
         task[Emac].pc \notin DoneLocs, task'[Emac].pc \in EmacPcs \ DoneLocs,
         OtherTypes', NetTypes', NetworkBuffersAccounted'
  PROVE  BufferInv'
<1>1. Locations'
  BY EmacLocation DEF DoneLocs
<1>2. RingInv'
  <2>1. \A u \in Callers : u # Emac /\ u \in Tasks
    BY XgmacAssumption DEF Tasks
  <2>2. engine' = engine /\ status' = status
    BY DEF hwVars
  <2>3. \A u \in Callers : task'[u] = task[u]
    BY <2>1
  <2>4. TypeOK /\ RingInv
    BY DEF BufferInv, RingInv
  <2> QED
    BY <2>2, <2>3, <2>4, RingKept
<1>3. ~refused'
  BY DEF BufferInv
<1> QED
  BY <1>1, <1>2, <1>3, Conclude, PTL

-----------------------------------------------------------------------------
(* The callers, up to the transmission and after it.                       *)
LEMMA SendGetStep ==
  ASSUME BufferInv, NEW t \in Callers, SendGet(t)
  PROVE  BufferInv'
<1>1. t \in Tasks /\ TypeOK /\ OtherTypes /\ NetTypes /\ NetworkBuffersAccounted
  BY Types DEF BufferInv, Tasks
<1>2. /\ task' \in [Tasks -> Calls] /\ task[t].pc = "idle" /\ task'[t].pc = "get"
      /\ \A u \in Tasks : u # t => task'[u] = task[u]
  BY <1>1, GotoStep DEF SendGet, At, CallerPcs
<1>3. OtherTypes'
  BY <1>1, <1>2 DEF SendGet, OtherTypes, XgmacTypeOK, niVars, ringVars, rxVars,
                    hwVars
<1>4. NetTypes'
  BY <1>1 DEF SendGet, GetTake, NetTypes, niVars
<1>5. NetworkBuffersAccounted'
  <2>1. UNCHANGED <<chain, ipq, lost>> /\ GetTake
    BY DEF SendGet, niVars
  <2>2. /\ GetsHeld' = GetsHeld + 1 /\ GivesDue' = GivesDue /\ InUse' = InUse
        /\ GetsHeld \in Nat /\ GivesDue \in Nat /\ InUse \in Nat
    BY <1>1, <1>2, <2>1, NetMoves
       DEF NetTypes, GetsHeld, GivesDue, InUse, One, Carrying
  <2> QED
    BY <1>1, <2>1, <2>2 DEF NetTypes, NetworkBuffersAccounted, GetTake
<1> QED
  BY <1>2, <1>3, <1>4, <1>5, CallerQuiet
     DEF SendGet, RingLocs, CallerPcs, niVars

LEMMA SendGotStep ==
  ASSUME BufferInv, NEW t \in Callers, SendGot(t)
  PROVE  BufferInv'
<1>1. t \in Tasks /\ TypeOK /\ OtherTypes /\ NetTypes /\ NetworkBuffersAccounted
  BY Types DEF BufferInv, Tasks
<1>2. /\ task' \in [Tasks -> Calls] /\ task[t].pc = "get" /\ task'[t].pc = "have"
      /\ \A u \in Tasks : u # t => task'[u] = task[u]
  BY <1>1, GotoStep DEF SendGot, At, CallerPcs
<1>3. OtherTypes'
  BY <1>1, <1>2 DEF SendGot, OtherTypes, XgmacTypeOK, niVars, ringVars, rxVars,
                    hwVars
<1>4. NetTypes'
  BY <1>1 DEF SendGot, GetRemove, NetTypes, niVars
<1>5. NetworkBuffersAccounted'
  <2>1. GetsHeld \in Nat /\ GetsHeld > 0
    BY <1>1, <1>2, NetMoves DEF One, GetsHeld
  <2>2. GivesDue \in Nat
    BY <1>1, <1>2, NetMoves DEF GivesDue, One
  <2>3. xFreeBuffersList' = xFreeBuffersList - 1
    BY <1>1, <2>1, <2>2 DEF SendGot, GetRemove, NetworkBuffersAccounted, NetTypes
  <2>4. UNCHANGED <<xNetworkBufferSemaphore, chain, ipq, lost>>
    BY DEF SendGot, GetRemove, niVars
  <2>5. /\ GetsHeld' = GetsHeld - 1 /\ GivesDue' = GivesDue /\ InUse' = InUse + 1
        /\ GetsHeld \in Nat /\ GivesDue \in Nat /\ InUse \in Nat
    BY <1>1, <1>2, <2>4, NetMoves DEF NetTypes, GetsHeld, GivesDue, InUse, One, Carrying
  <2> QED
    BY <1>1, <2>3, <2>4, <2>5 DEF NetTypes, NetworkBuffersAccounted
<1> QED
  BY <1>2, <1>3, <1>4, <1>5, CallerQuiet
     DEF SendGot, RingLocs, CallerPcs, niVars

(* xNetworkInterfaceOutput, when it transmits nothing.                     *)
LEMMA OutputRefusedStep ==
  ASSUME BufferInv, NEW t \in Callers, NEW rel \in BOOLEAN, Output(t, rel),
         ~(phy.link /\ pool.used < NPool)
  PROVE  BufferInv'
<1>1. t \in Tasks /\ TypeOK /\ OtherTypes /\ NetTypes /\ NetworkBuffersAccounted
  BY Types DEF BufferInv, Tasks
<1>2. \/ Goto(t, "out") /\ UNCHANGED lost
      \/ Goto(t, "idle") /\ lost' = lost + 1
  BY DEF Output
<1>3. /\ task' \in [Tasks -> Calls] /\ task[t].pc = "have"
      /\ \/ task'[t].pc = "out" /\ lost' = lost
         \/ task'[t].pc = "idle" /\ lost' = lost + 1
      /\ \A u \in Tasks : u # t => task'[u] = task[u]
  <2>1. CASE Goto(t, "out") /\ UNCHANGED lost
    BY <1>1, <2>1, GotoStep DEF Output, At, CallerPcs
  <2>2. CASE Goto(t, "idle") /\ lost' = lost + 1
    BY <1>1, <2>2, GotoStep DEF Output, At, CallerPcs
  <2> QED
    BY <1>2, <2>1, <2>2
<1>4. OtherTypes'
  BY <1>1, <1>3 DEF Output, OtherTypes, XgmacTypeOK, ringVars, rxVars, hwVars
<1>5. NetTypes'
  BY <1>1, <1>3 DEF Output, NetTypes, netVars
<1>6. NetworkBuffersAccounted'
  <2>1. UNCHANGED <<netVars, chain, ipq>>
    BY DEF Output
  <2>2. /\ GetsHeld' = GetsHeld /\ GivesDue' = GivesDue /\ InUse' = InUse
    BY <1>1, <1>3, <1>5, <2>1, NetMoves
       DEF NetTypes, GetsHeld, GivesDue, InUse, One, Carrying
  <2> QED
    BY <1>1, <2>1, <2>2 DEF NetworkBuffersAccounted, netVars
<1> QED
  BY <1>3, <1>4, <1>5, <1>6, CallerQuiet DEF Output, RingLocs, CallerPcs

LEMMA ReleaseFirstStep ==
  ASSUME BufferInv, NEW t \in Callers, ReleaseFirst(t)
  PROVE  BufferInv'
<1>1. t \in Tasks /\ TypeOK /\ OtherTypes /\ NetTypes /\ NetworkBuffersAccounted
  BY Types DEF BufferInv, Tasks
<1>2. /\ task' \in [Tasks -> Calls] /\ task[t].pc = "out" /\ task'[t].pc = "give"
      /\ \A u \in Tasks : u # t => task'[u] = task[u]
  BY <1>1, GotoStep DEF ReleaseFirst, At, CallerPcs
<1>3. OtherTypes'
  BY <1>1, <1>2 DEF ReleaseFirst, OtherTypes, XgmacTypeOK, niVars, ringVars,
                    rxVars, hwVars
<1>4. NetTypes'
  BY <1>1 DEF ReleaseFirst, ReleaseInsert, NetTypes, niVars
<1>5. NetworkBuffersAccounted'
  <2>1. UNCHANGED <<chain, ipq, lost>> /\ ReleaseInsert
    BY DEF ReleaseFirst, niVars
  <2>2. /\ GetsHeld' = GetsHeld /\ GivesDue' = GivesDue + 1 /\ InUse' = InUse - 1
        /\ GetsHeld \in Nat /\ GivesDue \in Nat /\ InUse \in Nat
    BY <1>1, <1>2, <2>1, NetMoves
       DEF NetTypes, GetsHeld, GivesDue, InUse, One, Carrying
  <2> QED
    BY <1>1, <2>1, <2>2 DEF NetTypes, NetworkBuffersAccounted, ReleaseInsert
<1> QED
  BY <1>2, <1>3, <1>4, <1>5, CallerQuiet
     DEF ReleaseFirst, RingLocs, CallerPcs, niVars

LEMMA NoTaskType == NoTask \in Calls /\ \A loc \in CallerPcs \cup EmacPcs :
                      [NoTask EXCEPT !.pc = loc] \in Calls
BY XgmacAssumption DEF NoTask, Calls, CallerPcs, TxSlots

LEMMA ReleaseLastStep ==
  ASSUME BufferInv, NEW t \in Callers, ReleaseLast(t)
  PROVE  BufferInv'
<1>1. t \in Tasks /\ TypeOK /\ OtherTypes /\ NetTypes /\ NetworkBuffersAccounted
  BY Types DEF BufferInv, Tasks
<1>2. /\ task' \in [Tasks -> Calls] /\ task[t].pc = "give" /\ task'[t].pc = "idle"
      /\ \A u \in Tasks : u # t => task'[u] = task[u]
  BY <1>1, NoTaskType DEF ReleaseLast, At, OtherTypes, NoTask
<1>3. OtherTypes'
  BY <1>1, <1>2 DEF ReleaseLast, OtherTypes, XgmacTypeOK, niVars, ringVars,
                    rxVars, hwVars
<1>4. NetTypes'
  BY <1>1 DEF ReleaseLast, ReleaseGive, NetTypes, niVars
<1>5. NetworkBuffersAccounted'
  <2>1. UNCHANGED <<chain, ipq, lost>> /\ ReleaseGive
    BY DEF ReleaseLast, niVars
  <2>2. /\ GetsHeld' = GetsHeld /\ GivesDue' = GivesDue - 1 /\ InUse' = InUse
        /\ GetsHeld \in Nat /\ GivesDue \in Nat /\ InUse \in Nat
    BY <1>1, <1>2, <2>1, NetMoves
       DEF NetTypes, GetsHeld, GivesDue, InUse, One, Carrying
  <2> QED
    BY <1>1, <2>1, <2>2 DEF NetTypes, NetworkBuffersAccounted, ReleaseGive
<1> QED
  BY <1>2, <1>3, <1>4, <1>5, CallerQuiet
     DEF ReleaseLast, RingLocs, CallerPcs, niVars

-----------------------------------------------------------------------------
(* The handler task: reception.                                            *)
LEMMA EmacWaitStep ==
  ASSUME BufferInv, EmacWait
  PROVE  BufferInv'
<1>1. /\ Emac \in Tasks /\ TypeOK /\ OtherTypes /\ NetTypes
      /\ NetworkBuffersAccounted
  BY Types DEF BufferInv, Tasks
<1>2. /\ task' \in [Tasks -> Calls] /\ task[Emac].pc = "wait"
      /\ task'[Emac].pc = "rx"
      /\ \A u \in Tasks : u # Emac => task'[u] = task[u]
  BY <1>1, GotoStep DEF EmacWait, At, EmacPcs
<1>3. OtherTypes'
  BY <1>1, <1>2 DEF EmacWait, OtherTypes, XgmacTypeOK, ringVars, rxVars, hwVars, niVars
<1>4. NetTypes' /\ UNCHANGED <<netVars, chain, ipq, lost>>
  BY <1>1 DEF EmacWait, NetTypes, niVars, netVars
<1>5. NetworkBuffersAccounted'
  BY <1>1, <1>2, <1>4, NetKept, XgmacAssumption DEF Carrying
<1> QED
  BY <1>2, <1>3, <1>4, <1>5, EmacQuiet DEF EmacWait, DoneLocs, EmacPcs, niVars, At

LEMMA Refilled ==
  ASSUME OtherTypes, xgmac_refill_rx_desc
  PROVE  rxOwn' \in [RxSlots -> BOOLEAN] /\ rx_desc_head' \in RxSlots
<1>1. (rx_desc_head + 1) % NRx \in 0 .. NRx - 1
  BY Around, XgmacAssumption DEF OtherTypes, XgmacTypeOK, RxSlots
<1> QED
  BY <1>1 DEF OtherTypes, XgmacTypeOK, RxSlots, xgmac_refill_rx_desc

LEMMA InputDropStep ==
  ASSUME BufferInv, InputDrop
  PROVE  BufferInv'
<1>1. /\ Emac \in Tasks /\ TypeOK /\ OtherTypes /\ NetTypes
      /\ NetworkBuffersAccounted
  BY Types DEF BufferInv, Tasks
<1>2. task' = task /\ task[Emac].pc = "rx"
  BY DEF InputDrop, At
<1>3. rxOwn' \in [RxSlots -> BOOLEAN] /\ rx_desc_head' \in RxSlots
  BY <1>1, Refilled DEF InputDrop
<1>4. OtherTypes'
  BY <1>1, <1>2, <1>3 DEF InputDrop, OtherTypes, XgmacTypeOK, ringVars, hwVars,
                          niVars
<1>5. NetTypes' /\ UNCHANGED <<netVars, chain, ipq, lost>>
  BY <1>1 DEF InputDrop, NetTypes, niVars, netVars
<1>6. NetworkBuffersAccounted'
  BY <1>1, <1>2, <1>5, NetKept
<1> QED
  BY <1>2, <1>4, <1>5, <1>6, EmacQuiet DEF InputDrop, DoneLocs, EmacPcs, niVars

LEMMA InputTakeStep ==
  ASSUME BufferInv, InputTake
  PROVE  BufferInv'
<1>1. /\ Emac \in Tasks /\ TypeOK /\ OtherTypes /\ NetTypes
      /\ NetworkBuffersAccounted
  BY Types DEF BufferInv, Tasks
<1>2. /\ task' \in [Tasks -> Calls]
      /\ task[Emac].pc = "rx" /\ task'[Emac].pc = "rxget"
      /\ \A u \in Tasks : u # Emac => task'[u] = task[u]
  BY <1>1, GotoStep DEF InputTake, At, EmacPcs
<1>3. OtherTypes'
  BY <1>1, <1>2 DEF InputTake, OtherTypes, XgmacTypeOK, ringVars, rxVars, hwVars,
                    niVars
<1>4. NetTypes'
  BY <1>1 DEF InputTake, GetTake, NetTypes, niVars
<1>5. NetworkBuffersAccounted'
  <2>1. UNCHANGED <<chain, ipq, lost>> /\ GetTake
    BY DEF InputTake, niVars
  <2>2. /\ GetsHeld' = GetsHeld + 1 /\ GivesDue' = GivesDue /\ InUse' = InUse
        /\ GetsHeld \in Nat /\ GivesDue \in Nat /\ InUse \in Nat
    BY <1>1, <1>2, <2>1, NetMoves, XgmacAssumption
       DEF NetTypes, GetsHeld, GivesDue, InUse, One, Carrying
  <2> QED
    BY <1>1, <2>1, <2>2 DEF NetTypes, NetworkBuffersAccounted, GetTake
<1> QED
  BY <1>2, <1>3, <1>4, <1>5, EmacQuiet DEF InputTake, DoneLocs, EmacPcs, niVars

LEMMA InputCopyStep ==
  ASSUME BufferInv, InputCopy
  PROVE  BufferInv'
<1>1. /\ Emac \in Tasks /\ TypeOK /\ OtherTypes /\ NetTypes
      /\ NetworkBuffersAccounted
  BY Types DEF BufferInv, Tasks
<1>2. /\ task' \in [Tasks -> Calls]
      /\ task[Emac].pc = "rxget" /\ task'[Emac].pc = "rx"
      /\ \A u \in Tasks : u # Emac => task'[u] = task[u]
  BY <1>1, GotoStep DEF InputCopy, At, EmacPcs
<1>3. rxOwn' \in [RxSlots -> BOOLEAN] /\ rx_desc_head' \in RxSlots
  BY <1>1, Refilled DEF InputCopy
<1>4. OtherTypes'
  BY <1>1, <1>2, <1>3 DEF InputCopy, OtherTypes, XgmacTypeOK, ringVars, hwVars
<1>5. NetTypes'
  BY <1>1 DEF InputCopy, GetRemove, NetTypes
<1>6. NetworkBuffersAccounted'
  <2>1. GetsHeld \in Nat /\ GetsHeld > 0
    BY <1>1, <1>2, NetMoves DEF One, GetsHeld
  <2>2. GivesDue \in Nat
    BY <1>1, <1>2, NetMoves DEF GivesDue, One
  <2>3. xFreeBuffersList' = xFreeBuffersList - 1
    BY <1>1, <2>1, <2>2 DEF InputCopy, GetRemove, NetworkBuffersAccounted, NetTypes
  <2>4. UNCHANGED <<xNetworkBufferSemaphore, ipq, lost>> /\ chain' = chain + 1
    BY DEF InputCopy, GetRemove
  <2>5. /\ GetsHeld' = GetsHeld - 1 /\ GivesDue' = GivesDue /\ InUse' = InUse + 1
        /\ GetsHeld \in Nat /\ GivesDue \in Nat /\ InUse \in Nat
    BY <1>1, <1>2, <2>4, NetMoves, XgmacAssumption DEF NetTypes, GetsHeld, GivesDue, InUse, One, Carrying
  <2> QED
    BY <1>1, <2>3, <2>4, <2>5 DEF NetTypes, NetworkBuffersAccounted
<1> QED
  BY <1>2, <1>4, <1>5, <1>6, EmacQuiet DEF InputCopy, DoneLocs, EmacPcs

LEMMA InputEndStep ==
  ASSUME BufferInv, InputEnd
  PROVE  BufferInv'
<1>1. /\ Emac \in Tasks /\ TypeOK /\ OtherTypes /\ NetTypes
      /\ NetworkBuffersAccounted
  BY Types DEF BufferInv, Tasks
<1>2. /\ task' \in [Tasks -> Calls] /\ task[Emac].pc = "rx"
      /\ (task'[Emac].pc = "pass" \/ task'[Emac].pc = "tx")
      /\ \A u \in Tasks : u # Emac => task'[u] = task[u]
  BY <1>1, GotoStep DEF InputEnd, At, EmacPcs
<1>3. OtherTypes'
  BY <1>1, <1>2 DEF InputEnd, OtherTypes, XgmacTypeOK, ringVars, rxVars, hwVars
<1>4. NetTypes' /\ UNCHANGED <<netVars, chain, ipq, lost>>
  BY <1>1 DEF InputEnd, NetTypes, niVars, netVars
<1>5. NetworkBuffersAccounted'
  BY <1>1, <1>2, <1>4, NetKept, XgmacAssumption DEF Carrying
<1> QED
  BY <1>2, <1>3, <1>4, <1>5, EmacQuiet DEF InputEnd, DoneLocs, EmacPcs, niVars

(* What was received is passed on or released.                             *)
LEMMA PassStep ==
  ASSUME BufferInv, Pass
  PROVE  BufferInv'
<1>1. /\ Emac \in Tasks /\ TypeOK /\ OtherTypes /\ NetTypes
      /\ NetworkBuffersAccounted
  BY Types DEF BufferInv, Tasks
<1>2. /\ task' \in [Tasks -> Calls]
      /\ task[Emac].pc = "pass" /\ task'[Emac].pc = "tx"
      /\ \A u \in Tasks : u # Emac => task'[u] = task[u]
  BY <1>1, GotoStep DEF Pass, At, EmacPcs
<1>3. OtherTypes'
  BY <1>1, <1>2 DEF Pass, OtherTypes, XgmacTypeOK, ringVars, rxVars, hwVars,
                    niVars
<1>4. NetTypes'
  BY <1>1 DEF Pass, NetTypes, netVars
<1>5. NetworkBuffersAccounted'
  <2>1. /\ ipq'.queued = ipq.queued + chain /\ ipq'.giving = ipq.giving
        /\ chain' = 0 /\ UNCHANGED <<netVars, lost>>
    BY <1>1 DEF Pass, NetTypes
  <2>2. /\ GetsHeld' = GetsHeld /\ GivesDue' = GivesDue /\ InUse' = InUse
        /\ GetsHeld \in Nat /\ GivesDue \in Nat /\ InUse \in Nat
    BY <1>1, <1>2, <2>1, NetMoves, XgmacAssumption
       DEF NetTypes, GetsHeld, GivesDue, InUse, One, Carrying
  <2> QED
    BY <1>1, <2>1, <2>2 DEF NetTypes, NetworkBuffersAccounted, netVars
<1> QED
  BY <1>2, <1>3, <1>4, <1>5, EmacQuiet DEF Pass, DoneLocs, EmacPcs, niVars

LEMMA PassFullStep ==
  ASSUME BufferInv, PassFull
  PROVE  BufferInv'
<1>1. /\ Emac \in Tasks /\ TypeOK /\ OtherTypes /\ NetTypes
      /\ NetworkBuffersAccounted
  BY Types DEF BufferInv, Tasks
<1>2. /\ task' \in [Tasks -> Calls] /\ task[Emac].pc = "pass"
      /\ task'[Emac].pc = "drop"
      /\ \A u \in Tasks : u # Emac => task'[u] = task[u]
  BY <1>1, GotoStep DEF PassFull, At, EmacPcs
<1>3. OtherTypes'
  BY <1>1, <1>2 DEF PassFull, OtherTypes, XgmacTypeOK, ringVars, rxVars, hwVars, niVars
<1>4. NetTypes' /\ UNCHANGED <<netVars, chain, ipq, lost>>
  BY <1>1 DEF PassFull, NetTypes, niVars, netVars
<1>5. NetworkBuffersAccounted'
  BY <1>1, <1>2, <1>4, NetKept, XgmacAssumption DEF Carrying
<1> QED
  BY <1>2, <1>3, <1>4, <1>5, EmacQuiet DEF PassFull, DoneLocs, EmacPcs, niVars

LEMMA DropFirstStep ==
  ASSUME BufferInv, DropFirst
  PROVE  BufferInv'
<1>1. /\ Emac \in Tasks /\ TypeOK /\ OtherTypes /\ NetTypes
      /\ NetworkBuffersAccounted
  BY Types DEF BufferInv, Tasks
<1>2. /\ task' \in [Tasks -> Calls]
      /\ task[Emac].pc = "drop" /\ task'[Emac].pc = "dropgive"
      /\ \A u \in Tasks : u # Emac => task'[u] = task[u]
  BY <1>1, GotoStep DEF DropFirst, At, EmacPcs
<1>3. OtherTypes'
  BY <1>1, <1>2 DEF DropFirst, OtherTypes, XgmacTypeOK, ringVars, rxVars, hwVars,
                    niVars
<1>4. NetTypes'
  BY <1>1 DEF DropFirst, ReleaseInsert, NetTypes
<1>5. NetworkBuffersAccounted'
  <2>1. UNCHANGED <<ipq, lost>> /\ chain' = chain - 1 /\ ReleaseInsert
    BY DEF DropFirst
  <2>2. /\ GetsHeld' = GetsHeld /\ GivesDue' = GivesDue + 1 /\ InUse' = InUse - 1
        /\ GetsHeld \in Nat /\ GivesDue \in Nat /\ InUse \in Nat
    BY <1>1, <1>2, <2>1, NetMoves, XgmacAssumption
       DEF NetTypes, GetsHeld, GivesDue, InUse, One
  <2> QED
    BY <1>1, <2>1, <2>2 DEF NetTypes, NetworkBuffersAccounted, ReleaseInsert
<1> QED
  BY <1>2, <1>3, <1>4, <1>5, EmacQuiet DEF DropFirst, DoneLocs, EmacPcs, niVars

LEMMA DropLastStep ==
  ASSUME BufferInv, DropLast
  PROVE  BufferInv'
<1>1. /\ Emac \in Tasks /\ TypeOK /\ OtherTypes /\ NetTypes
      /\ NetworkBuffersAccounted
  BY Types DEF BufferInv, Tasks
<1>2. /\ task' \in [Tasks -> Calls]
      /\ task[Emac].pc = "dropgive" /\ task'[Emac].pc \in {"drop", "tx"}
      /\ \A u \in Tasks : u # Emac => task'[u] = task[u]
  BY <1>1, GotoStep DEF DropLast, At, EmacPcs
<1>3. OtherTypes'
  BY <1>1, <1>2 DEF DropLast, OtherTypes, XgmacTypeOK, ringVars, rxVars, hwVars,
                    niVars
<1>4. NetTypes'
  BY <1>1 DEF DropLast, ReleaseGive, NetTypes, niVars
<1>5. NetworkBuffersAccounted'
  <2>1. UNCHANGED <<chain, ipq, lost>> /\ ReleaseGive
    BY DEF DropLast, niVars
  <2>2. /\ GetsHeld' = GetsHeld /\ GivesDue' = GivesDue - 1 /\ InUse' = InUse
        /\ GetsHeld \in Nat /\ GivesDue \in Nat /\ InUse \in Nat
    BY <1>1, <1>2, <2>1, NetMoves, XgmacAssumption
       DEF NetTypes, GetsHeld, GivesDue, InUse, One, Carrying
  <2> QED
    BY <1>1, <2>1, <2>2 DEF NetTypes, NetworkBuffersAccounted, ReleaseGive
<1> QED
  BY <1>2, <1>3, <1>4, <1>5, EmacQuiet DEF DropLast, DoneLocs, EmacPcs, niVars

LEMMA HandleErrorStep ==
  ASSUME BufferInv, HandleError
  PROVE  BufferInv'
<1>1. /\ Emac \in Tasks /\ TypeOK /\ OtherTypes /\ NetTypes
      /\ NetworkBuffersAccounted
  BY Types DEF BufferInv, Tasks
<1>2. /\ task' \in [Tasks -> Calls] /\ task[Emac].pc = "stop"
      /\ task'[Emac].pc = "phy"
      /\ \A u \in Tasks : u # Emac => task'[u] = task[u]
  BY <1>1, GotoStep DEF HandleError, At, EmacPcs
<1>3. OtherTypes'
  BY <1>1, <1>2 DEF HandleError, OtherTypes, XgmacTypeOK, ringVars, rxVars, hwVars
<1>4. NetTypes' /\ UNCHANGED <<netVars, chain, ipq, lost>>
  BY <1>1 DEF HandleError, NetTypes, niVars, netVars
<1>5. NetworkBuffersAccounted'
  BY <1>1, <1>2, <1>4, NetKept, XgmacAssumption DEF Carrying
<1> QED
  BY <1>2, <1>3, <1>4, <1>5, EmacQuiet DEF HandleError, DoneLocs, EmacPcs, niVars

LEMMA PhyTimerStep ==
  ASSUME BufferInv, NEW expired \in BOOLEAN, PhyTimer(expired)
  PROVE  BufferInv'
<1>1. /\ Emac \in Tasks /\ TypeOK /\ OtherTypes /\ NetTypes
      /\ NetworkBuffersAccounted
  BY Types DEF BufferInv, Tasks
<1>2. /\ task' \in [Tasks -> Calls] /\ task[Emac].pc = "phy"
      /\ task'[Emac].pc = "wait"
      /\ \A u \in Tasks : u # Emac => task'[u] = task[u]
  BY <1>1, NoTaskType DEF PhyTimer, At, OtherTypes, NoTask, EmacPcs
<1>3. OtherTypes'
  BY <1>1, <1>2 DEF PhyTimer, OtherTypes, XgmacTypeOK, ringVars, rxVars, hwVars
<1>4. NetTypes' /\ UNCHANGED <<netVars, chain, ipq, lost>>
  BY <1>1 DEF PhyTimer, NetTypes, netVars
<1>5. NetworkBuffersAccounted'
  BY <1>1, <1>2, <1>4, NetKept, XgmacAssumption DEF Carrying
<1> QED
  BY <1>2, <1>3, <1>4, <1>5, EmacQuiet DEF PhyTimer, DoneLocs, EmacPcs

-----------------------------------------------------------------------------
(* Steps of no task of the model.                                          *)
LEMMA OthersQuiet ==
  ASSUME BufferInv, UNCHANGED <<task, ringVars, tokens, pool, refused>>,
         engine'.tx = engine.tx, engine'.todo = engine.todo,
         "TI" \in status' => "TI" \in status,
         iface' = iface \/ (iface = "wait" /\ iface' \in {"down", "up"}),
         OtherTypes', NetTypes', NetworkBuffersAccounted'
  PROVE  BufferInv'
<1>1. iface = "wait" => Filled = 0
  <2>1. CallersAt({"lock"}) = {} \/ iface # "wait"
    BY DEF BufferInv, Locations, CallersAt, TasksAt
  <2>2. iface = "wait" => tx_sem = NTx
    BY DEF BufferInv, Locations
  <2>3. Cardinality({}) = 0
    BY FS_EmptySet
  <2> QED
    BY <2>1, <2>2, <2>3, XgmacAssumption DEF Filled
<1>2. Locations'
  <2>1. task' = task /\ tokens' = tokens /\ tx_sem' = tx_sem
    BY DEF ringVars
  <2> QED
    BY <2>1 DEF BufferInv, Locations, At
<1>3. RingInv'
  <2>1. TypeOK /\ RingInv
    BY DEF BufferInv, RingInv
  <2> QED
    BY <1>1, <2>1, RingKept
<1>4. ~refused'
  BY DEF BufferInv
<1> QED
  BY <1>2, <1>3, <1>4, Conclude, PTL

LEMMA InitialiseWaitStep ==
  ASSUME BufferInv, InitialiseWait
  PROVE  BufferInv'
<1>1. TypeOK /\ OtherTypes /\ NetTypes /\ NetworkBuffersAccounted
  BY Types DEF BufferInv
<1>2. OtherTypes'
  BY <1>1 DEF InitialiseWait, OtherTypes, XgmacTypeOK, ringVars, rxVars, hwVars
<1>3. NetTypes' /\ UNCHANGED <<netVars, chain, ipq, lost, task>>
  BY <1>1 DEF InitialiseWait, NetTypes, netVars
<1>4. NetworkBuffersAccounted'
  BY <1>1, <1>3, NetKept
<1> QED
  BY <1>2, <1>3, <1>4, OthersQuiet DEF InitialiseWait, hwVars

LEMMA PhyFlapStep ==
  ASSUME BufferInv, PhyFlap
  PROVE  BufferInv'
<1>1. TypeOK /\ OtherTypes /\ NetTypes /\ NetworkBuffersAccounted
  BY Types DEF BufferInv
<1>2. OtherTypes'
  <2>1. load' \in Traffic
    BY <1>1, PoolAssumption DEF PhyFlap, OtherTypes, Traffic
  <2> QED
    BY <1>1, <2>1 DEF PhyFlap, OtherTypes, XgmacTypeOK, ringVars, rxVars, hwVars
<1>3. NetTypes' /\ UNCHANGED <<netVars, chain, ipq, lost, task>>
  BY <1>1 DEF PhyFlap, NetTypes, netVars
<1>4. NetworkBuffersAccounted'
  BY <1>1, <1>3, NetKept
<1> QED
  BY <1>2, <1>3, <1>4, OthersQuiet DEF PhyFlap, hwVars

LEMMA IpTaskStep ==
  ASSUME BufferInv, IpTask
  PROVE  BufferInv'
<1>1. TypeOK /\ OtherTypes /\ NetTypes /\ NetworkBuffersAccounted
  BY Types DEF BufferInv
<1>2. OtherTypes'
  BY <1>1 DEF IpTask, OtherTypes, XgmacTypeOK, ringVars, rxVars, hwVars
<1>3. NetTypes'
  <2>1. ipq' \in [queued : Nat, giving : BOOLEAN]
    <3>1. ipq \in [queued : Nat, giving : BOOLEAN]
      BY <1>1 DEF NetTypes
    <3>2. \/ ipq.queued > 0 /\ ipq' = [queued |-> ipq.queued - 1, giving |-> TRUE]
          \/ ipq' = [ipq EXCEPT !.giving = FALSE]
      BY DEF IpTask
    <3>3. ipq.queued \in Nat /\ (ipq.queued > 0 => ipq.queued - 1 \in Nat)
      BY <3>1
    <3>4. CASE ipq' = [ipq EXCEPT !.giving = FALSE]
      BY <3>1, <3>4
    <3>5. CASE ipq.queued > 0 /\ ipq' = [queued |-> ipq.queued - 1, giving |-> TRUE]
      BY <3>3, <3>5
    <3> QED
      BY <3>2, <3>4, <3>5
  <2>2. \/ ReleaseInsert /\ UNCHANGED <<chain, lost>>
        \/ ReleaseGive /\ UNCHANGED <<chain, lost>>
    BY DEF IpTask
  <2> QED
    BY <1>1, <2>1, <2>2 DEF NetTypes, ReleaseInsert, ReleaseGive
<1>4. NetworkBuffersAccounted'
  <2>1. UNCHANGED <<task, chain, lost>>
    BY DEF IpTask
  <2>2. /\ TasksAt(Tasks, {"get", "rxget"})' = TasksAt(Tasks, {"get", "rxget"})
        /\ TasksAt(Tasks, {"give", "dropgive"})' = TasksAt(Tasks, {"give", "dropgive"})
        /\ TasksAt(Callers, Carrying)' = TasksAt(Callers, Carrying)
    BY <2>1 DEF TasksAt
  <2>3. /\ Cardinality(TasksAt(Tasks, {"get", "rxget"})) \in Nat
        /\ Cardinality(TasksAt(Tasks, {"give", "dropgive"})) \in Nat
        /\ Cardinality(TasksAt(Callers, Carrying)) \in Nat
    BY FiniteTasks, FS_Subset, FS_CardinalityType DEF TasksAt
  <2>4. \/ /\ ReleaseInsert /\ ipq'.queued = ipq.queued - 1
           /\ ~ipq.giving /\ ipq'.giving
        \/ /\ ReleaseGive /\ ipq'.queued = ipq.queued
           /\ ipq.giving /\ ~ipq'.giving
    BY <1>1 DEF IpTask, NetTypes
  <2> QED
    BY <1>1, <2>1, <2>2, <2>3, <2>4
       DEF NetTypes, NetworkBuffersAccounted, GetsHeld, GivesDue, InUse, One,
           ReleaseInsert, ReleaseGive
<1> QED
  BY <1>2, <1>3, <1>4, OthersQuiet DEF IpTask, hwVars

LEMMA FrameStep ==
  ASSUME BufferInv, Frame
  PROVE  BufferInv'
<1>1. TypeOK /\ OtherTypes /\ NetTypes /\ NetworkBuffersAccounted
  BY Types DEF BufferInv
<1>2. load' \in Traffic
  BY <1>1, PoolAssumption DEF Frame, OtherTypes, Traffic
<1>3. /\ UNCHANGED <<ringVars, rx_desc_head, task>>
      /\ rxOwn' \in [RxSlots -> BOOLEAN]
      /\ engine' \in [tx : TxSlots, todo : 0 .. NTx, rx : RxSlots]
      /\ engine'.tx = engine.tx /\ engine'.todo = engine.todo
      /\ status' \subseteq {"TI", "RI", "RBU"} /\ merged' \in BOOLEAN
      /\ "TI" \in status' => "TI" \in status
  <2>1. CASE EngineReceive
    <3>1. (engine.rx + 1) % NRx \in RxSlots
      <4>1. engine.rx \in 0 .. NRx - 1
        BY <1>1 DEF OtherTypes, XgmacTypeOK, RxSlots
      <4>2. NRx \in Nat \ {0} /\ 1 \in 0 .. NRx
        BY XgmacAssumption
      <4> QED
        BY <4>1, <4>2, Around DEF RxSlots
    <3>2. /\ engine' \in [tx : TxSlots, todo : 0 .. NTx, rx : RxSlots]
          /\ engine'.tx = engine.tx /\ engine'.todo = engine.todo
      BY <1>1, <2>1, <3>1 DEF EngineReceive, OtherTypes, XgmacTypeOK
    <3> QED
      BY <1>1, <2>1, <3>2 DEF EngineReceive, OtherTypes, XgmacTypeOK, Raise
  <2>2. CASE EngineOverrun
    BY <1>1, <2>2 DEF EngineOverrun, OtherTypes, XgmacTypeOK, Raise, rxVars
  <2> QED
    BY <2>1, <2>2 DEF Frame
<1>4. OtherTypes'
  BY <1>1, <1>2, <1>3 DEF Frame, OtherTypes, XgmacTypeOK, ringVars
<1>5. NetTypes' /\ UNCHANGED <<netVars, chain, ipq, lost, task>>
  BY <1>1, <1>3 DEF Frame, NetTypes, netVars
<1>6. NetworkBuffersAccounted'
  BY <1>1, <1>5, NetKept
<1> QED
  BY <1>3, <1>4, <1>5, <1>6, OthersQuiet DEF Frame

LEMMA OutDoneStopStep ==
  ASSUME BufferInv, OutDone, ~("TX" \in events /\ tokens > 0)
  PROVE  BufferInv'
<1>1. /\ Emac \in Tasks /\ TypeOK /\ OtherTypes /\ NetTypes
      /\ NetworkBuffersAccounted
  BY Types DEF BufferInv, Tasks
<1>2. /\ UNCHANGED <<tokens, ringVars, rxVars, hwVars>> /\ Goto(Emac, "stop")
      /\ UNCHANGED <<netVars, pool, rxUsed, notes, events, chain, ipq, lost,
                     iface, phy, load, refused>>
  BY DEF OutDone
<1>3. /\ task' \in [Tasks -> Calls] /\ task[Emac].pc = "tx"
      /\ task'[Emac].pc = "stop"
      /\ \A u \in Tasks : u # Emac => task'[u] = task[u]
  BY <1>1, <1>2, GotoStep DEF OutDone, At, EmacPcs
<1>4. OtherTypes'
  BY <1>1, <1>2, <1>3 DEF OtherTypes, XgmacTypeOK, ringVars, rxVars, hwVars
<1>5. NetTypes'
  BY <1>1, <1>2 DEF NetTypes, netVars
<1>6. NetworkBuffersAccounted'
  BY <1>1, <1>2, <1>3, NetKept, XgmacAssumption DEF Carrying
<1> QED
  BY <1>2, <1>3, <1>4, <1>5, <1>6, EmacQuiet DEF DoneLocs, EmacPcs

(* The interrupt handler: a token replaces the status bit.                 *)
LEMMA IsrStep ==
  ASSUME BufferInv, Isr
  PROVE  BufferInv'
<1>1. TypeOK /\ OtherTypes /\ NetTypes /\ NetworkBuffersAccounted /\ RingInv
  BY Types DEF BufferInv, RingInv
<1>2. /\ UNCHANGED <<ringVars, rxVars, engine, task, netVars, pool, rxUsed,
                     events, chain, ipq, lost, iface, phy, load, refused>>
      /\ status' = {} /\ merged' \in BOOLEAN
  BY <1>1 DEF Isr, OtherTypes, XgmacTypeOK
<1>3. Reported = "TI" => "TI" \in status
  <2>1. CASE "TI" \notin status /\ "RI" \in status
    BY <2>1 DEF Reported
  <2>2. CASE "TI" \notin status /\ "RI" \notin status
    BY <2>2 DEF Reported
  <2> QED
    BY <2>1, <2>2
<1>4. /\ \/ tokens' = tokens /\ ("TI" \in status' => "TI" \in status)
         \/ tokens' = tokens + 1 /\ "TI" \in status /\ "TI" \notin status'
      /\ tokens' = tokens \/ (tokens' = tokens + 1 /\ iface = "up" /\ "TI" \in status)
  <2>1. "TI" \notin status'
    BY <1>2
  <2>2. \/ tokens' = tokens
        \/ iface = "up" /\ Reported = "TI" /\ tokens' = tokens + 1
    BY DEF Isr
  <2> QED
    BY <1>3, <2>1, <2>2
<1>5. notes' \subseteq {"RX", "TX", "ERR"}
  <2>1. CASE iface = "up"
    <3>1. notes' = notes \cup {CASE Reported = "TI" -> "TX"
                                 [] Reported = "RI" -> "RX"
                                 [] OTHER -> "ERR"}
      BY <2>1 DEF Isr
    <3>2. (CASE Reported = "TI" -> "TX" [] Reported = "RI" -> "RX"
             [] OTHER -> "ERR") \in {"RX", "TX", "ERR"}
      BY DEF Reported
    <3> QED
      BY <1>1, <3>1, <3>2 DEF OtherTypes
  <2>2. CASE iface # "up"
    BY <1>1, <2>2 DEF Isr, OtherTypes
  <2> QED
    BY <2>1, <2>2
<1>6. tokens' \in 0 .. NTx
  <2>1. /\ Sent \in 0 .. NTx /\ TokensBacked /\ tokens \in 0 .. NTx
        /\ One(Releasing) \in Nat
    BY <1>1 DEF RingInv, RingState, OtherTypes, One
  <2>2. CASE "TI" \in status
    <3>1. One("TI" \in status) = 1
      BY <2>2 DEF One
    <3> QED
      BY <1>4, <2>1, <3>1, XgmacAssumption DEF TokensBacked
  <2>3. CASE "TI" \notin status
    BY <1>4, <2>1, <2>3
  <2> QED
    BY <2>2, <2>3
<1>7. OtherTypes'
  BY <1>1, <1>2, <1>5, <1>6 DEF OtherTypes, XgmacTypeOK, ringVars, rxVars
<1>8. NetTypes'
  BY <1>1, <1>2 DEF NetTypes, netVars
<1>9. NetworkBuffersAccounted'
  BY <1>1, <1>2, NetKept
<1>10. Locations'
  <2>1. iface # "up" => tokens' = tokens
    BY <1>4
  <2>2. tx_sem' = tx_sem
    BY <1>2 DEF ringVars
  <2> QED
    BY <1>2, <2>1, <2>2 DEF BufferInv, Locations, At
<1>11. RingInv'
  <2>1. engine' = engine /\ UNCHANGED <<ringVars, pool>> /\ task' = task /\ iface' = iface
    BY <1>2
  <2> QED
    BY <1>1, <1>4, <2>1, RingKept
<1>12. ~refused'
  BY <1>2 DEF BufferInv
<1> QED
  BY <1>7, <1>8, <1>9, <1>10, <1>11, <1>12, Conclude, PTL

-----------------------------------------------------------------------------
(* The ring.                                                               *)
LEMMA RingFacts ==
  ASSUME BufferInv
  PROVE  /\ Cardinality(CallersAt({"lock"})) \in Nat
         /\ Cardinality(CallersAt({"sem", "lock"})) \in Nat
         /\ Filled \in 0 .. NTx /\ Sent \in 0 .. NTx
         /\ Advancing \in {0, 1} /\ Kicking \in {0, 1}
         /\ Sent = Filled - Advancing - Kicking - engine.todo
         /\ engine.todo \in 0 .. NTx /\ tx_sem \in 0 .. NTx
         /\ pool.used \in 0 .. NPool /\ tokens \in 0 .. NTx
         /\ tx_desc_tail \in 0 .. NTx - 1 /\ tx_desc_head \in 0 .. NTx - 1
         /\ engine.tx \in 0 .. NTx - 1
         /\ iface = "up" =>
              Filled = NTx - tx_sem - Cardinality(CallersAt({"lock"}))
<1>1. /\ Cardinality(CallersAt({"lock"})) \in Nat
      /\ Cardinality(CallersAt({"sem", "lock"})) \in Nat
  BY FiniteTasks, FS_Subset, FS_CardinalityType DEF CallersAt, TasksAt
<1>2. Filled \in 0 .. NTx /\ Sent \in 0 .. NTx
  BY DEF BufferInv, RingState
<1>3. Advancing \in {0, 1} /\ Kicking \in {0, 1}
  BY DEF Advancing, Kicking, One
<1>4. Sent = Filled - Advancing - Kicking - engine.todo
  BY DEF Sent
<1>5. /\ engine.todo \in 0 .. NTx /\ tx_sem \in 0 .. NTx
      /\ pool.used \in 0 .. NPool /\ tokens \in 0 .. NTx
      /\ tx_desc_tail \in 0 .. NTx - 1 /\ tx_desc_head \in 0 .. NTx - 1
      /\ engine.tx \in 0 .. NTx - 1
  BY DEF BufferInv, TypeOK, XgmacTypeOK, TxSlots
<1>6. iface = "up" => Filled = NTx - tx_sem - Cardinality(CallersAt({"lock"}))
  BY DEF Filled
<1> QED
  BY <1>1, <1>2, <1>3, <1>4, <1>5, <1>6

(* Who holds tx_mutex is where.                                            *)
HolderKnown ==
  /\ tx_mutex = None => Advancing = 0 /\ Kicking = 0
  /\ \A t \in Callers :
       /\ task[t].pc = "head" => tx_mutex = t /\ Advancing = 1 /\ Kicking = 0
       /\ task[t].pc = "kick" => tx_mutex = t /\ Advancing = 0 /\ Kicking = 1

LEMMA Holder == MutexExact => HolderKnown
<1> SUFFICES ASSUME MutexExact PROVE HolderKnown
  OBVIOUS
<1>1. ASSUME tx_mutex = None
      PROVE  CallersAt({"head"}) = {} /\ CallersAt({"kick"}) = {}
  BY <1>1, XgmacAssumption DEF MutexExact, CallersAt, TasksAt, Tasks
<1>2. ASSUME NEW t \in Callers, task[t].pc = "head"
      PROVE  tx_mutex = t /\ CallersAt({"head"}) # {} /\ CallersAt({"kick"}) = {}
  <2>1. tx_mutex = t /\ t \in CallersAt({"head"})
    BY <1>2 DEF MutexExact, CallersAt, TasksAt
  <2>2. CallersAt({"kick"}) = {}
    BY <1>2, <2>1 DEF MutexExact, CallersAt, TasksAt
  <2> QED
    BY <2>1, <2>2
<1>3. ASSUME NEW t \in Callers, task[t].pc = "kick"
      PROVE  tx_mutex = t /\ CallersAt({"head"}) = {} /\ CallersAt({"kick"}) # {}
  <2>1. tx_mutex = t /\ t \in CallersAt({"kick"})
    BY <1>3 DEF MutexExact, CallersAt, TasksAt
  <2>2. CallersAt({"head"}) = {}
    BY <1>3, <2>1 DEF MutexExact, CallersAt, TasksAt
  <2> QED
    BY <2>1, <2>2
<1> QED
  BY <1>1, <1>2, <1>3 DEF HolderKnown, Advancing, Kicking, One

(* A caller moves.                                                         *)
LEMMA CallerMoves ==
  ASSUME NEW t \in Callers, \A u \in Tasks : u # t => task'[u] = task[u]
  PROVE  /\ Cardinality(CallersAt({"lock"})') =
              Cardinality(CallersAt({"lock"}))
                + One(task'[t].pc \in {"lock"}) - One(task[t].pc \in {"lock"})
         /\ Cardinality(CallersAt({"sem", "lock"})') =
              Cardinality(CallersAt({"sem", "lock"}))
                + One(task'[t].pc \in {"sem", "lock"})
                - One(task[t].pc \in {"sem", "lock"})
         /\ \A loc : task[t].pc # loc /\ task'[t].pc # loc =>
                       CallersAt({loc})' = CallersAt({loc})
         /\ task'[Emac] = task[Emac]
         /\ Releasing' = Releasing /\ At(Emac, "release")' = At(Emac, "release")
         /\ \A u \in Callers : u # t => task'[u] = task[u]
<1>1. \A u \in Callers : u # t => task'[u] = task[u]
  BY DEF Tasks
<1>2. task'[Emac] = task[Emac]
  BY XgmacAssumption DEF Tasks
<1>3. \A loc : task[t].pc # loc /\ task'[t].pc # loc =>
                       CallersAt({loc})' = CallersAt({loc})
  BY <1>1 DEF CallersAt, TasksAt
<1>4. /\ Cardinality(TasksAt(Callers, {"lock"})') =
              Cardinality(TasksAt(Callers, {"lock"}))
                + One(task'[t].pc \in {"lock"}) - One(task[t].pc \in {"lock"})
      /\ Cardinality(TasksAt(Callers, {"sem", "lock"})') =
              Cardinality(TasksAt(Callers, {"sem", "lock"}))
                + One(task'[t].pc \in {"sem", "lock"})
                - One(task[t].pc \in {"sem", "lock"})
  BY <1>1, FiniteTasks, TaskMoves
<1> QED
  BY <1>1, <1>2, <1>3, <1>4 DEF CallersAt, Releasing, At

(* What WithSender, InRing and the release of a buffer count.              *)
LEMMA Places ==
  ASSUME NEW b
  PROVE  /\ IsFiniteSet(WithSender(b)) /\ Cardinality(WithSender(b)) \in Nat
         /\ IsFiniteSet(InRing(b)) /\ Cardinality(InRing(b)) \in Nat
<1>1. IsFiniteSet(TxSlots)
  BY FS_Interval, XgmacAssumption DEF TxSlots
<1> QED
  BY <1>1, FiniteTasks, FS_Subset, FS_CardinalityType DEF WithSender, InRing

-----------------------------------------------------------------------------
(* The pool: pucGetTXBuffer takes its first buffer.                        *)
LEMMA PoolTake ==
  ASSUME BufferInv, pool.used < NPool, NEW b, b = pool.buf[pool.head],
         pool' = [pool EXCEPT !.head = (@ + 1) % NPool, !.used = @ + 1]
  PROVE  /\ pool' \in [buf : [TxBufs -> TxBufs], head : TxBufs,
                       tail : TxBufs, used : 0 .. NPool]
         /\ b \in TxBufs /\ InPool(b) /\ ~InPool(b)'
         /\ \A c \in TxBufs : c # b => InPool(c)' = InPool(c)
         /\ pool'.used = pool.used + 1
         /\ pool'.tail = PoolPos(NPool - pool.used)'
         /\ \A j, k \in 0 .. NPool - pool'.used - 1 :
              pool'.buf[PoolPos(j)'] = pool'.buf[PoolPos(k)'] => j = k
<1>1. /\ pool \in [buf : [TxBufs -> TxBufs], head : TxBufs,
                   tail : TxBufs, used : 0 .. NPool]
      /\ pool.tail = PoolPos(NPool - pool.used)
      /\ \A j, k \in 0 .. NPool - pool.used - 1 :
           pool.buf[PoolPos(j)] = pool.buf[PoolPos(k)] => j = k
      /\ NPool \in Nat \ {0} /\ pool.used \in Nat
  BY XgmacAssumption DEF BufferInv, TypeOK, PoolState
<1>2. /\ \A k \in 0 .. NPool :
           /\ PoolPos(k) = IF pool.head + k < NPool THEN pool.head + k
                           ELSE pool.head + k - NPool
           /\ PoolPos(k) \in TxBufs
      /\ pool.head \in 0 .. NPool - 1
  BY <1>1, Positions DEF TxBufs
<1>3. /\ pool'.head = PoolPos(1) /\ pool'.used = pool.used + 1
      /\ pool'.buf = pool.buf /\ pool'.tail = pool.tail
  BY <1>1 DEF PoolPos
<1>4. pool'.head \in 0 .. NPool - 1
  BY <1>1, <1>2, <1>3 DEF TxBufs
<1>5. pool' \in [buf : [TxBufs -> TxBufs], head : TxBufs,
                 tail : TxBufs, used : 0 .. NPool]
  <2>1. pool'.head \in TxBufs /\ pool'.used \in 0 .. NPool
    BY <1>1, <1>3, <1>4 DEF TxBufs
  <2> QED
    BY <1>1, <2>1
<1>6. ASSUME NEW k \in 0 .. NPool - 1 PROVE PoolPos(k)' = PoolPos(k + 1)
  <2>1. (pool'.head + k) % NPool = IF pool'.head + k < NPool THEN pool'.head + k
                                   ELSE pool'.head + k - NPool
    BY <1>1, <1>4, Around
  <2>2. /\ PoolPos(1) = IF pool.head + 1 < NPool THEN pool.head + 1
                        ELSE pool.head + 1 - NPool
        /\ PoolPos(k + 1) = IF pool.head + (k + 1) < NPool THEN pool.head + (k + 1)
                            ELSE pool.head + (k + 1) - NPool
    BY <1>1, <1>2
  <2>3. PoolPos(k)' = (pool'.head + k) % NPool
    BY DEF PoolPos
  <2> QED
    BY <1>1, <1>2, <1>3, <2>1, <2>2, <2>3
<1>7. PoolPos(0) = pool.head
  BY <1>1, <1>2
<1>8. pool'.tail = PoolPos(NPool - pool.used)'
  <2>1. PICK k \in 0 .. NPool - 1 : k = NPool - pool'.used /\ k + 1 = NPool - pool.used
    BY <1>1, <1>3
  <2>2. PoolPos(k)' = pool'.tail
    BY <1>1, <1>3, <1>6, <2>1
  <2> QED
    BY <2>1, <2>2 DEF PoolPos
<1>9. ASSUME NEW j \in 0 .. NPool - pool'.used - 1,
             NEW k \in 0 .. NPool - pool'.used - 1,
             pool'.buf[PoolPos(j)'] = pool'.buf[PoolPos(k)']
      PROVE  j = k
  <2>1. /\ j + 1 \in 0 .. NPool - pool.used - 1 /\ k + 1 \in 0 .. NPool - pool.used - 1
        /\ j \in 0 .. NPool - 1 /\ k \in 0 .. NPool - 1
    BY <1>1, <1>3
  <2>2. j + 1 = k + 1
    BY <1>1, <1>3, <1>6, <1>9, <2>1
  <2> QED
    BY <2>2
<1>10. b \in TxBufs
  BY <1>1
<1>11. ASSUME NEW c
       PROVE  /\ InPool(c) <=> \E k \in 0 .. NPool - pool.used - 1 : pool.buf[PoolPos(k)] = c
              /\ InPool(c)' <=> \E k \in 0 .. NPool - pool.used - 2 : pool.buf[PoolPos(k + 1)] = c
  <2>1. InPool(c) <=> \E k \in 0 .. NPool - pool.used - 1 : pool.buf[PoolPos(k)] = c
    BY <1>1 DEF InPool, PoolPos
  <2>2. InPool(c)' <=> \E k \in 0 .. NPool - 1 :
                         k < NPool - pool'.used /\ pool.buf[PoolPos(k + 1)] = c
    BY <1>3, <1>6 DEF InPool, PoolPos
  <2> QED
    BY <1>1, <1>3, <2>1, <2>2
<1>12. InPool(b)
  BY <1>1, <1>7, <1>11
<1>13. ~InPool(b)'
  <2>1. ASSUME NEW k \in 0 .. NPool - pool.used - 2 PROVE pool.buf[PoolPos(k + 1)] # b
    <3>1. k + 1 \in 0 .. NPool - pool.used - 1 /\ 0 \in 0 .. NPool - pool.used - 1 /\ k + 1 # 0
      BY <1>1
    <3> QED
      BY <1>1, <1>7, <3>1
  <2> QED
    BY <1>11, <2>1
<1>14. ASSUME NEW c \in TxBufs, c # b PROVE InPool(c)' = InPool(c)
  <2>1. ASSUME InPool(c) PROVE InPool(c)'
    <3>1. PICK k \in 0 .. NPool - pool.used - 1 : pool.buf[PoolPos(k)] = c
      BY <1>11, <2>1
    <3>2. k # 0
      BY <1>7, <1>14, <3>1
    <3>3. k - 1 \in 0 .. NPool - pool.used - 2 /\ (k - 1) + 1 = k
      BY <1>1, <3>2
    <3> QED
      BY <1>11, <3>1, <3>3
  <2>2. ASSUME InPool(c)' PROVE InPool(c)
    <3>1. PICK k \in 0 .. NPool - pool.used - 2 : pool.buf[PoolPos(k + 1)] = c
      BY <1>11, <2>2
    <3>2. k + 1 \in 0 .. NPool - pool.used - 1
      BY <1>1
    <3> QED
      BY <1>11, <3>1, <3>2
  <2>3. InPool(c) \in BOOLEAN /\ InPool(c)' \in BOOLEAN
    BY DEF InPool
  <2> QED
    BY <2>1, <2>2, <2>3
<1> QED
  BY <1>3, <1>5, <1>8, <1>9, <1>10, <1>12, <1>13, <1>14

LEMMA BufsNotNone == \A b \in TxBufs : b # None
BY XgmacAssumption DEF TxBufs

(* xNetworkInterfaceOutput, when it goes on to transmit.                   *)
LEMMA OutputTakeStep ==
  ASSUME BufferInv, NEW t \in Callers, NEW rel \in BOOLEAN, Output(t, rel),
         phy.link /\ pool.used < NPool
  PROVE  BufferInv'
<1>1. /\ t \in Tasks /\ TypeOK /\ OtherTypes /\ NetTypes
      /\ NetworkBuffersAccounted /\ RingInv
  BY Types DEF BufferInv, Tasks, RingInv
<1>2. PICK b : b = pool.buf[pool.head]
  OBVIOUS
<1>3. /\ pool' = [pool EXCEPT !.head = (@ + 1) % NPool, !.used = @ + 1]
      /\ task' = [task EXCEPT ![t].pc = "sem", ![t].buf = b]
      /\ UNCHANGED <<ringVars, rxVars, hwVars, netVars, rxUsed, tokens, notes,
                     events, chain, ipq, lost, iface, phy, load, refused>>
      /\ task[t].pc = "have"
  <2>1. pool.used # NPool
    BY <1>1 DEF OtherTypes
  <2> QED
    BY <1>2, <2>1 DEF Output, At
<1>4. /\ pool' \in [buf : [TxBufs -> TxBufs], head : TxBufs,
                    tail : TxBufs, used : 0 .. NPool]
      /\ b \in TxBufs /\ InPool(b) /\ ~InPool(b)'
      /\ \A c \in TxBufs : c # b => InPool(c)' = InPool(c)
      /\ pool'.used = pool.used + 1
      /\ pool'.tail = PoolPos(NPool - pool.used)'
      /\ \A j, k \in 0 .. NPool - pool'.used - 1 :
           pool'.buf[PoolPos(j)'] = pool'.buf[PoolPos(k)'] => j = k
  BY <1>2, <1>3, PoolTake
<1>5. /\ task' \in [Tasks -> Calls]
      /\ task'[t].pc = "sem" /\ task'[t].buf = b
      /\ \A u \in Tasks : u # t => task'[u] = task[u]
  <2>1. task \in [Tasks -> Calls] /\ task[t] \in Calls
    BY <1>1 DEF OtherTypes
  <2>2. task' = [task EXCEPT ![t] = [task[t] EXCEPT !.pc = "sem", !.buf = b]]
    BY <1>3
  <2>3. [task[t] EXCEPT !.pc = "sem", !.buf = b] \in Calls
    BY <1>4, <2>1 DEF Calls, CallerPcs
  <2> QED
    BY <1>1, <2>1, <2>2, <2>3 DEF Calls
<1>6. OtherTypes'
  BY <1>1, <1>3, <1>4, <1>5 DEF OtherTypes, XgmacTypeOK, ringVars, rxVars, hwVars
<1>7. NetTypes'
  BY <1>1, <1>3 DEF NetTypes, netVars
<1>8. NetworkBuffersAccounted'
  BY <1>1, <1>3, <1>5, NetKept DEF Carrying
<1>9. Locations'
  BY <1>3, <1>4, <1>5, CallerLocation, BufsNotNone DEF CallerPcs
<1>10. /\ UNCHANGED <<txRing, tx_desc_head, tx_desc_tail, tx_sem, tx_mutex,
                      engine, status, tokens, iface>>
       /\ CallersAt({"lock"})' = CallersAt({"lock"})
       /\ CallersAt({"head"})' = CallersAt({"head"})
       /\ CallersAt({"kick"})' = CallersAt({"kick"})
       /\ Cardinality(CallersAt({"sem", "lock"})') =
            Cardinality(CallersAt({"sem", "lock"})) + 1
       /\ task'[Emac] = task[Emac] /\ Releasing' = Releasing
       /\ At(Emac, "release")' = At(Emac, "release")
       /\ \A u \in Callers : u # t => task'[u] = task[u]
  <2>1. Cardinality(CallersAt({"sem", "lock"})) \in Nat
    BY RingFacts
  <2>2. /\ Cardinality(CallersAt({"sem", "lock"})') =
              Cardinality(CallersAt({"sem", "lock"}))
                + One(task'[t].pc \in {"sem", "lock"})
                - One(task[t].pc \in {"sem", "lock"})
        /\ \A loc : task[t].pc # loc /\ task'[t].pc # loc =>
                       CallersAt({loc})' = CallersAt({loc})
        /\ task'[Emac] = task[Emac]
        /\ Releasing' = Releasing /\ At(Emac, "release")' = At(Emac, "release")
        /\ \A u \in Callers : u # t => task'[u] = task[u]
    BY <1>5, CallerMoves
  <2>3. /\ UNCHANGED <<txRing, tx_desc_head, tx_desc_tail, tx_sem, tx_mutex,
                       engine, status, tokens, iface>>
    BY <1>3 DEF ringVars, hwVars
  <2>4. /\ CallersAt({"lock"})' = CallersAt({"lock"})
        /\ CallersAt({"head"})' = CallersAt({"head"})
        /\ CallersAt({"kick"})' = CallersAt({"kick"})
    BY <1>3, <1>5, <2>2
  <2>5. One(task'[t].pc \in {"sem", "lock"}) = 1 /\ One(task[t].pc \in {"sem", "lock"}) = 0
    BY <1>3, <1>5 DEF One
  <2> QED
    BY <2>1, <2>2, <2>3, <2>4, <2>5
<1>11. Filled' = Filled /\ Advancing' = Advancing /\ Sent' = Sent
  BY <1>10 DEF Filled, Advancing, Sent, Kicking
<1>12. MutexExact'
  BY <1>1, <1>3, <1>5, <1>10 DEF RingInv, MutexExact
<1>13. RingState' /\ TokensBacked' /\ IndicesRead'
  BY <1>1, <1>10, <1>11
     DEF RingInv, RingState, TxSlot, TokensBacked, One, IndicesRead, Releasing
<1>14. PoolState'
  <2>1. pool.used = Cardinality(CallersAt({"sem", "lock"})) + Filled
                      + One(At(Emac, "release"))
    BY <1>1 DEF RingInv, PoolState
  <2>2. /\ Cardinality(CallersAt({"sem", "lock"})) \in Nat /\ Filled \in Nat
        /\ One(At(Emac, "release")) \in Nat
    BY RingFacts DEF One
  <2>3. pool'.used = Cardinality(CallersAt({"sem", "lock"})') + Filled'
                       + One(At(Emac, "release"))'
    BY <1>4, <1>10, <1>11, <2>1, <2>2 DEF One
  <2> QED
    BY <1>4, <2>3 DEF PoolState
<1>15. TxBuffersAccounted'
  <2> SUFFICES ASSUME NEW c \in TxBufs
               PROVE  Cardinality(WithSender(c)') + Cardinality(InRing(c)')
                        + (IF InPool(c)' THEN 1 ELSE 0)
                        + (IF At(Emac, "release")' /\ task'[Emac].buf = c
                           THEN 1 ELSE 0) = 1
    BY DEF TxBuffersAccounted
  <2>1. Cardinality(WithSender(c)) + Cardinality(InRing(c))
          + (IF InPool(c) THEN 1 ELSE 0)
          + (IF At(Emac, "release") /\ task[Emac].buf = c THEN 1 ELSE 0) = 1
    BY <1>1 DEF RingInv, TxBuffersAccounted
  <2>2. InRing(c)' = InRing(c)
    BY <1>10 DEF InRing
  <2>3. Cardinality(WithSender(c)) \in Nat /\ Cardinality(InRing(c)) \in Nat
        /\ IsFiniteSet(WithSender(c))
    BY Places
  <2>4. CASE c = b
    <3>1. WithSender(c) \ {t} = WithSender(c)' \ {t}
      BY <1>10 DEF WithSender
    <3>2. t \notin WithSender(c) /\ t \in WithSender(c)'
      BY <1>3, <1>5, <2>4 DEF WithSender
    <3>3. Cardinality(WithSender(c)') = Cardinality(WithSender(c)) + 1
      BY <2>3, <3>1, <3>2, SetMove DEF One
    <3> QED
      BY <1>4, <1>10, <2>1, <2>2, <2>3, <2>4, <3>3
  <2>5. CASE c # b
    <3>1. WithSender(c)' = WithSender(c)
      BY <1>3, <1>5, <1>10, <2>5 DEF WithSender
    <3>2. InPool(c)' = InPool(c)
      BY <1>4, <2>5
    <3> QED
      BY <1>10, <2>1, <2>2, <3>1, <3>2
  <2> QED
    BY <2>4, <2>5
<1>16. RingInv' /\ ~refused'
  BY <1>3, <1>12, <1>13, <1>14, <1>15 DEF RingInv, BufferInv
<1> QED
  BY <1>6, <1>7, <1>8, <1>9, <1>16, Conclude, PTL

-----------------------------------------------------------------------------
(* xgmac_dma_transmit, as far as the network buffers see it.               *)
LEMMA TransmitNet ==
  ASSUME BufferInv, NEW t \in Callers, Transmit(t), task[t].pc \in RingLocs,
         task'[t].pc \in {"lock", "head", "kick", "out"},
         task'[t].pc = "lock" => task'[t].buf # None,
         \A u \in Tasks : u # t => task'[u] = task[u]
  PROVE  /\ NetTypes' /\ NetworkBuffersAccounted' /\ Locations'
         /\ iface = "up" /\ t \in Tasks
         /\ OtherTypes /\ RingInv /\ ~refused
         /\ UNCHANGED <<pool, tokens, iface>>
<1>1. t \in Tasks /\ OtherTypes /\ NetTypes /\ NetworkBuffersAccounted /\ RingInv
  BY Types DEF BufferInv, Tasks, RingInv
<1>2. UNCHANGED <<netVars, pool, rxUsed, tokens, notes, events, chain, ipq, lost,
                  iface, phy, load>>
  BY DEF Transmit
<1>3. NetTypes'
  BY <1>1, <1>2 DEF NetTypes, netVars
<1>4. NetworkBuffersAccounted'
  BY <1>1, <1>2, NetKept DEF Carrying, RingLocs
<1>5. iface = "up" /\ Locations'
  BY <1>2, CallerLocation DEF CallerPcs, RingLocs
<1> QED
  BY <1>1, <1>2, <1>3, <1>4, <1>5 DEF BufferInv

(* Every buffer in flight has its descriptor, so there is one for the      *)
(* buffer that comes next: -EIO is never returned.                         *)
LEMMA SemaphoreEnough ==
  ASSUME BufferInv, NEW t \in Callers, task[t].pc = "sem"
  PROVE  tx_sem > 0
<1>1. iface = "up" /\ t \notin CallersAt({"lock"})
  BY DEF BufferInv, Locations, CallersAt, TasksAt
<1>2. Filled = NTx - tx_sem - Cardinality(CallersAt({"lock"}))
  BY <1>1, RingFacts
<1>3. Cardinality(CallersAt({"lock"})) + 1 <= Cardinality(CallersAt({"sem", "lock"}))
  <2>1. IsFiniteSet(CallersAt({"lock"})) /\ IsFiniteSet(CallersAt({"sem", "lock"}))
    BY FiniteTasks, FS_Subset DEF CallersAt, TasksAt
  <2>2. Cardinality(CallersAt({"lock"}) \cup {t}) = Cardinality(CallersAt({"lock"})) + 1
    BY <1>1, <2>1, FS_AddElement
  <2>3. CallersAt({"lock"}) \cup {t} \subseteq CallersAt({"sem", "lock"})
    BY DEF CallersAt, TasksAt
  <2>4. Cardinality(CallersAt({"lock"}) \cup {t}) <= Cardinality(CallersAt({"sem", "lock"}))
    BY <2>1, <2>3, FS_Subset
  <2> QED
    BY <2>2, <2>4
<1>4. /\ pool.used = Cardinality(CallersAt({"sem", "lock"})) + Filled
                      + One(At(Emac, "release"))
      /\ One(At(Emac, "release")) \in Nat
  BY DEF BufferInv, PoolState, One
<1>5. pool.used <= NPool /\ NPool <= NTx /\ NTx \in Nat /\ NPool \in Nat
  BY RingFacts, PoolAssumption, XgmacAssumption
<1> QED
  BY <1>2, <1>3, <1>4, <1>5, RingFacts

LEMMA TransmitSemStep ==
  ASSUME BufferInv, NEW t \in Callers, Transmit(t), TransmitSem(t)
  PROVE  BufferInv'
<1>1. task[t].pc = "sem" /\ tx_sem > 0
  BY SemaphoreEnough DEF TransmitSem, At
<1>2. /\ tx_sem' = tx_sem - 1 /\ Goto(t, "lock")
      /\ UNCHANGED <<txRing, tx_desc_head, tx_desc_tail, tx_mutex, rxVars, hwVars>>
  BY <1>1 DEF TransmitSem
<1>3. /\ task' \in [Tasks -> Calls]
      /\ task'[t].pc = "lock" /\ task'[t].buf = task[t].buf
      /\ \A u \in Tasks : u # t => task'[u] = task[u]
  <2>1. TypeOK /\ t \in Tasks
    BY DEF BufferInv, Tasks
  <2> QED
    BY <1>2, <2>1, GotoStep DEF CallerPcs
<1>4. task'[t].buf # None
  BY <1>1, <1>3 DEF BufferInv, Locations
<1>5. /\ NetTypes' /\ NetworkBuffersAccounted' /\ Locations' /\ iface = "up"
      /\ OtherTypes /\ RingInv /\ ~refused /\ UNCHANGED <<pool, tokens, iface>>
  BY <1>1, <1>3, <1>4, TransmitNet DEF RingLocs
<1>6. tx_sem \in 0 .. NTx /\ NTx \in Nat
  BY RingFacts, XgmacAssumption
<1>7. OtherTypes'
  <2>1. tx_sem' \in 0 .. NTx
    BY <1>1, <1>2, <1>6
  <2>2. UNCHANGED <<rxUsed, notes, events, phy, load>> /\ refused' \in BOOLEAN
    BY DEF Transmit, At
  <2> QED
    BY <1>2, <1>3, <1>5, <2>1, <2>2 DEF OtherTypes, XgmacTypeOK, rxVars, hwVars
<1>8. /\ Cardinality(CallersAt({"lock"})') = Cardinality(CallersAt({"lock"})) + 1
      /\ Cardinality(CallersAt({"sem", "lock"})') = Cardinality(CallersAt({"sem", "lock"}))
      /\ CallersAt({"head"})' = CallersAt({"head"})
      /\ CallersAt({"kick"})' = CallersAt({"kick"})
      /\ task'[Emac] = task[Emac] /\ Releasing' = Releasing
      /\ At(Emac, "release")' = At(Emac, "release")
      /\ \A u \in Callers : u # t => task'[u] = task[u]
  <2>1. /\ Cardinality(CallersAt({"lock"})') =
              Cardinality(CallersAt({"lock"}))
                + One(task'[t].pc \in {"lock"}) - One(task[t].pc \in {"lock"})
        /\ Cardinality(CallersAt({"sem", "lock"})') =
              Cardinality(CallersAt({"sem", "lock"}))
                + One(task'[t].pc \in {"sem", "lock"})
                - One(task[t].pc \in {"sem", "lock"})
        /\ \A loc : task[t].pc # loc /\ task'[t].pc # loc =>
                       CallersAt({loc})' = CallersAt({loc})
        /\ task'[Emac] = task[Emac] /\ Releasing' = Releasing
        /\ At(Emac, "release")' = At(Emac, "release")
        /\ \A u \in Callers : u # t => task'[u] = task[u]
    BY <1>3, CallerMoves
  <2>2. /\ One(task'[t].pc \in {"lock"}) = 1 /\ One(task[t].pc \in {"lock"}) = 0
        /\ One(task'[t].pc \in {"sem", "lock"}) = 1 /\ One(task[t].pc \in {"sem", "lock"}) = 1
    BY <1>1, <1>3 DEF One
  <2>3. CallersAt({"head"})' = CallersAt({"head"}) /\ CallersAt({"kick"})' = CallersAt({"kick"})
    BY <1>1, <1>3, <2>1
  <2> QED
    BY <2>1, <2>2, <2>3, RingFacts
<1>9. Filled' = Filled /\ Advancing' = Advancing /\ Sent' = Sent
  <2>1. Filled' = Filled
    BY <1>2, <1>5, <1>6, <1>8, RingFacts DEF Filled
  <2> QED
    BY <1>2, <1>8, <2>1 DEF Advancing, Sent, Kicking, hwVars
<1>10. MutexExact'
  BY <1>1, <1>2, <1>3, <1>5, <1>8 DEF RingInv, MutexExact
<1>11. UNCHANGED <<txRing, tx_desc_head, tx_desc_tail, tx_mutex, engine, status>>
  BY <1>2 DEF hwVars
<1>12. RingState' /\ TokensBacked'
  BY <1>5, <1>8, <1>9, <1>11
     DEF RingInv, RingState, TxSlot, TokensBacked, One
<1>13. IndicesRead'
  <2>1. IndicesRead /\ tx_sem # 0
    BY <1>1, <1>5 DEF RingInv
  <2> QED
    BY <1>8, <1>11, <2>1 DEF IndicesRead, Releasing
<1>14. PoolState'
  BY <1>5, <1>8, <1>9 DEF RingInv, PoolState, PoolPos, One
<1>15. TxBuffersAccounted'
  <2>1. ASSUME NEW c \in TxBufs
        PROVE  /\ WithSender(c)' = WithSender(c) /\ InRing(c)' = InRing(c)
               /\ InPool(c)' = InPool(c)
    <3>1. WithSender(c)' = WithSender(c)
      BY <1>1, <1>3, <1>8 DEF WithSender
    <3>2. InRing(c)' = InRing(c) /\ InPool(c)' = InPool(c)
      BY <1>5, <1>11 DEF InRing, InPool
    <3> QED
      BY <3>1, <3>2
  <2> QED
    BY <1>5, <1>8, <2>1 DEF RingInv, TxBuffersAccounted
<1>16. RingInv' /\ ~refused'
  <2>1. tx_sem # 0 /\ refused' = (refused \/ (At(t, "sem") /\ tx_sem = 0))
    BY <1>1 DEF Transmit
  <2> QED
    BY <1>5, <1>10, <1>12, <1>13, <1>14, <1>15, <2>1 DEF RingInv
<1> QED
  BY <1>5, <1>7, <1>16, Conclude, PTL

LEMMA NextSlot ==
  ASSUME tx_desc_tail \in TxSlots, NEW k \in 0 .. NTx - 1
  PROVE  (TxSlot(k) + 1) % NTx = TxSlot(k + 1) /\ TxSlot(0) = tx_desc_tail
<1>1. /\ TxSlot(k) = IF tx_desc_tail + k < NTx THEN tx_desc_tail + k
                     ELSE tx_desc_tail + k - NTx
      /\ TxSlot(k + 1) = IF tx_desc_tail + (k + 1) < NTx THEN tx_desc_tail + (k + 1)
                         ELSE tx_desc_tail + (k + 1) - NTx
      /\ TxSlot(0) = IF tx_desc_tail + 0 < NTx THEN tx_desc_tail + 0
                     ELSE tx_desc_tail + 0 - NTx
      /\ TxSlot(k) \in 0 .. NTx - 1
      /\ NTx \in Nat \ {0} /\ k + 1 \in 0 .. NTx /\ tx_desc_tail \in 0 .. NTx - 1
  <2>1. NTx \in Nat \ {0} /\ k \in 0 .. NTx /\ k + 1 \in 0 .. NTx /\ 0 \in 0 .. NTx
    BY XgmacAssumption
  <2> QED
    BY <2>1, Slots DEF TxSlots
<1> DEFINE s == TxSlot(k)
<1>2. (s + 1) % NTx = IF s + 1 < NTx THEN s + 1 ELSE s + 1 - NTx
  <2>1. s \in 0 .. NTx - 1 /\ NTx \in Nat \ {0} /\ 1 \in 0 .. NTx
    BY <1>1
  <2> HIDE DEF s
  <2> QED
    BY <2>1, Around
<1> QED
  BY <1>1, <1>2

LEMMA TransmitFillStep ==
  ASSUME BufferInv, NEW t \in Callers, Transmit(t), TransmitFill(t)
  PROVE  BufferInv'
<1>1. /\ task[t].pc = "lock" /\ tx_mutex = None /\ tx_mutex' = t
      /\ txRing' = [txRing EXCEPT ![tx_desc_head] = [own |-> TRUE, buf |-> task[t].buf]]
      /\ Goto(t, "head")
      /\ UNCHANGED <<tx_desc_head, tx_desc_tail, tx_sem, rxVars, hwVars>>
  BY DEF TransmitFill, At
<1>2. /\ task' \in [Tasks -> Calls]
      /\ task'[t].pc = "head" /\ task'[t].buf = task[t].buf
      /\ \A u \in Tasks : u # t => task'[u] = task[u]
  <2>1. TypeOK /\ t \in Tasks
    BY DEF BufferInv, Tasks
  <2> QED
    BY <1>1, <2>1, GotoStep DEF CallerPcs
<1>3. /\ NetTypes' /\ NetworkBuffersAccounted' /\ Locations' /\ iface = "up"
      /\ OtherTypes /\ RingInv /\ ~refused /\ UNCHANGED <<pool, tokens, iface>>
      /\ t \in Tasks
  BY <1>1, <1>2, TransmitNet DEF RingLocs
<1>4. /\ tx_sem \in 0 .. NTx /\ NTx \in Nat \ {0} /\ tx_desc_head \in TxSlots
      /\ tx_desc_tail \in TxSlots
      /\ txRing \in [TxSlots -> [own : BOOLEAN, buf : TxBufs \cup {None}]]
  BY <1>3, XgmacAssumption DEF OtherTypes, XgmacTypeOK
<1>5. PICK b \in TxBufs : b = task[t].buf
  <2>1. task[t].buf # None
    BY <1>1 DEF BufferInv, Locations
  <2> QED
    BY <1>3, <2>1 DEF OtherTypes, Calls
<1>6. /\ txRing' = [txRing EXCEPT ![tx_desc_head] = [own |-> TRUE, buf |-> b]]
      /\ txRing'[tx_desc_head] = [own |-> TRUE, buf |-> b]
      /\ \A i \in TxSlots : i # tx_desc_head => txRing'[i] = txRing[i]
      /\ txRing' \in [TxSlots -> [own : BOOLEAN, buf : TxBufs \cup {None}]]
  BY <1>1, <1>4, <1>5
<1>7. OtherTypes'
  <2>1. UNCHANGED <<rxUsed, notes, events, phy, load>> /\ refused' \in BOOLEAN
    BY DEF Transmit, At
  <2>2. tx_mutex' \in Tasks \cup {None}
    BY <1>1, <1>3
  <2> QED
    BY <1>1, <1>2, <1>3, <1>6, <2>1, <2>2 DEF OtherTypes, XgmacTypeOK, rxVars, hwVars
<1>8. MutexExact'
  BY <1>1, <1>2, <1>3, XgmacAssumption DEF RingInv, MutexExact, Tasks
<1>9. /\ Advancing = 0 /\ Kicking = 0 /\ Advancing' = 1 /\ Kicking' = 0
  <2>1. MutexExact
    BY <1>3 DEF RingInv
  <2>2. Advancing = 0 /\ Kicking = 0
    BY <1>1, <2>1, Holder DEF HolderKnown
  <2>3. HolderKnown'
    BY <1>8, Holder, PTL
  <2>4. Advancing' = 1 /\ Kicking' = 0
    BY <1>2, <2>3 DEF HolderKnown
  <2> QED
    BY <2>2, <2>4
<1>10. /\ Cardinality(CallersAt({"lock"})') = Cardinality(CallersAt({"lock"})) - 1
       /\ Cardinality(CallersAt({"lock"})') \in Nat
       /\ Cardinality(CallersAt({"sem", "lock"})') = Cardinality(CallersAt({"sem", "lock"})) - 1
       /\ task'[Emac] = task[Emac] /\ Releasing' = Releasing
       /\ At(Emac, "release")' = At(Emac, "release")
       /\ \A u \in Callers : u # t => task'[u] = task[u]
  <2>1. /\ Cardinality(CallersAt({"lock"})') =
              Cardinality(CallersAt({"lock"}))
                + One(task'[t].pc \in {"lock"}) - One(task[t].pc \in {"lock"})
        /\ Cardinality(CallersAt({"sem", "lock"})') =
              Cardinality(CallersAt({"sem", "lock"}))
                + One(task'[t].pc \in {"sem", "lock"})
                - One(task[t].pc \in {"sem", "lock"})
        /\ task'[Emac] = task[Emac] /\ Releasing' = Releasing
        /\ At(Emac, "release")' = At(Emac, "release")
        /\ \A u \in Callers : u # t => task'[u] = task[u]
    BY <1>2, CallerMoves
  <2>2. /\ One(task'[t].pc \in {"lock"}) = 0 /\ One(task[t].pc \in {"lock"}) = 1
        /\ One(task'[t].pc \in {"sem", "lock"}) = 0 /\ One(task[t].pc \in {"sem", "lock"}) = 1
    BY <1>1, <1>2 DEF One
  <2>3. Cardinality(CallersAt({"lock"})') \in Nat
    BY FiniteTasks, FS_Subset, FS_CardinalityType DEF CallersAt, TasksAt
  <2> QED
    BY <2>1, <2>2, <2>3, RingFacts
<1>11. /\ Filled' = Filled + 1 /\ Sent' = Sent /\ Filled \in 0 .. NTx - 1
       /\ Sent \in 0 .. Filled
  <2>1. Filled = NTx - tx_sem - Cardinality(CallersAt({"lock"}))
    BY <1>3, RingFacts
  <2>2. Filled' = NTx - tx_sem - Cardinality(CallersAt({"lock"})')
    BY <1>1, <1>3 DEF Filled
  <2>3. Filled' = Filled + 1 /\ Filled \in 0 .. NTx - 1
    BY <1>4, <1>10, <2>1, <2>2, RingFacts
  <2>4. engine' = engine
    BY <1>1 DEF hwVars
  <2>5. Sent = Filled - engine.todo /\ Sent \in 0 .. Filled
    BY <1>9, <2>3, RingFacts
  <2>6. Sent' = Filled' - 1 - 0 - engine.todo
    BY <1>9, <2>4 DEF Sent
  <2> QED
    BY <2>3, <2>5, <2>6, RingFacts
<1>12. tx_desc_head = TxSlot(Filled) /\ (tx_desc_head + 1) % NTx = TxSlot(Filled + 1)
  <2>1. (tx_desc_head + Advancing) % NTx = TxSlot(Filled)
    BY <1>3 DEF RingInv, RingState
  <2>2. (tx_desc_head + 0) % NTx = tx_desc_head
    <3>1. /\ tx_desc_head \in 0 .. NTx - 1 /\ 0 \in 0 .. NTx
          /\ tx_desc_head + 0 = tx_desc_head /\ tx_desc_head < NTx
      BY <1>4 DEF TxSlots
    <3> QED
      BY <1>4, <3>1, Around
  <2> QED
    BY <1>4, <1>9, <1>11, <2>1, <2>2, NextSlot
<1>13. RingState'
  <2>1. \A k : TxSlot(k)' = TxSlot(k)
    BY <1>1 DEF TxSlot
  <2>2. ASSUME NEW k \in TxSlots
        PROVE  IF k < Filled'
               THEN txRing'[TxSlot(k)].own = (k >= Sent') /\ txRing'[TxSlot(k)].buf # None
               ELSE txRing'[TxSlot(k)] = FreeDesc
    <3>1. CASE k = Filled
      <4>1. txRing'[TxSlot(k)] = [own |-> TRUE, buf |-> b]
        BY <1>6, <1>12, <3>1
      <4>2. k < Filled' /\ k >= Sent'
        BY <1>11, <3>1
      <4>3. txRing'[TxSlot(k)].own = TRUE /\ txRing'[TxSlot(k)].buf # None
        BY <4>1, BufsNotNone
      <4> QED
        BY <4>2, <4>3
    <3>2. CASE k # Filled
      <4>1. TxSlot(k) # tx_desc_head /\ TxSlot(k) \in TxSlots
        <5>1. Filled \in TxSlots /\ k \in 0 .. NTx
          BY <1>4, <1>11 DEF TxSlots
        <5> QED
          BY <1>4, <1>12, <3>2, <5>1, Slots
      <4>2. txRing'[TxSlot(k)] = txRing[TxSlot(k)]
        BY <1>6, <4>1
      <4>3. k < Filled' <=> k < Filled
        BY <1>11, <3>2 DEF TxSlots
      <4>4. IF k < Filled
            THEN txRing[TxSlot(k)].own = (k >= Sent) /\ txRing[TxSlot(k)].buf # None
            ELSE txRing[TxSlot(k)] = FreeDesc
        BY <1>3 DEF RingInv, RingState
      <4> QED
        BY <1>11, <4>2, <4>3, <4>4
    <3> QED
      BY <3>1, <3>2
  <2>3. Filled' \in 0 .. NTx /\ Sent' \in 0 .. NTx
    BY <1>4, <1>11
  <2>4. engine'.tx = TxSlot(Sent)
    BY <1>1, <1>3 DEF RingInv, RingState, hwVars
  <2>5. engine'.tx = TxSlot(Sent)' /\ (tx_desc_head' + Advancing') % NTx = TxSlot(Filled)'
    BY <1>1, <1>9, <1>11, <1>12, <2>4 DEF TxSlot
  <2> QED
    BY <2>1, <2>2, <2>3, <2>5 DEF RingState
<1>14. TokensBacked' /\ IndicesRead'
  BY <1>1, <1>3, <1>10, <1>11
     DEF RingInv, TokensBacked, One, IndicesRead, Releasing, hwVars
<1>15. PoolState'
  <2>1. pool.used = Cardinality(CallersAt({"sem", "lock"})) + Filled
                      + One(At(Emac, "release"))
    BY <1>3 DEF RingInv, PoolState
  <2>2. One(At(Emac, "release")) \in Nat
    BY DEF One
  <2>3. pool.used = Cardinality(CallersAt({"sem", "lock"})') + Filled'
                       + One(At(Emac, "release"))
    BY <1>10, <1>11, <2>1, <2>2, RingFacts
  <2> QED
    BY <1>3, <1>10, <2>3 DEF RingInv, PoolState, PoolPos, One
<1>16. TxBuffersAccounted'
  <2> SUFFICES ASSUME NEW c \in TxBufs
               PROVE  Cardinality(WithSender(c)') + Cardinality(InRing(c)')
                        + (IF InPool(c)' THEN 1 ELSE 0)
                        + (IF At(Emac, "release")' /\ task'[Emac].buf = c
                           THEN 1 ELSE 0) = 1
    BY DEF TxBuffersAccounted
  <2>1. Cardinality(WithSender(c)) + Cardinality(InRing(c))
          + (IF InPool(c) THEN 1 ELSE 0)
          + (IF At(Emac, "release") /\ task[Emac].buf = c THEN 1 ELSE 0) = 1
    BY <1>3 DEF RingInv, TxBuffersAccounted
  <2>2. InPool(c)' = InPool(c)
    BY <1>3 DEF InPool
  <2>3. /\ Cardinality(WithSender(c)) \in Nat /\ Cardinality(InRing(c)) \in Nat
        /\ IsFiniteSet(WithSender(c)) /\ IsFiniteSet(InRing(c))
    BY Places
  <2>4. Cardinality(WithSender(c)') = Cardinality(WithSender(c)) - One(c = b)
    <3>1. WithSender(c) \ {t} = WithSender(c)' \ {t}
      BY <1>10 DEF WithSender
    <3>2. (t \in WithSender(c) <=> c = b) /\ t \notin WithSender(c)'
      BY <1>1, <1>2, <1>5 DEF WithSender
    <3> QED
      BY <2>3, <3>1, <3>2, SetMove DEF One
  <2>5. Cardinality(InRing(c)') = Cardinality(InRing(c)) + One(c = b)
    <3>1. InRing(c) \ {tx_desc_head} = InRing(c)' \ {tx_desc_head}
      BY <1>6 DEF InRing
    <3>2. txRing[tx_desc_head] = FreeDesc
      BY <1>3, <1>11, <1>12 DEF RingInv, RingState, TxSlots
    <3>3. tx_desc_head \notin InRing(c)
      BY <3>2, BufsNotNone DEF InRing, FreeDesc
    <3>4. tx_desc_head \in InRing(c)' <=> c = b
      BY <1>4, <1>6 DEF InRing
    <3> QED
      BY <2>3, <3>1, <3>3, <3>4, SetMove DEF One
  <2>6. One(c = b) \in {0, 1}
    BY DEF One
  <2> QED
    BY <1>10, <2>1, <2>2, <2>3, <2>4, <2>5, <2>6
<1>17. RingInv' /\ ~refused'
  <2>1. refused' = (refused \/ (At(t, "sem") /\ tx_sem = 0)) /\ ~At(t, "sem")
    BY <1>1 DEF Transmit, At
  <2> QED
    BY <1>3, <1>8, <1>13, <1>14, <1>15, <1>16, <2>1 DEF RingInv
<1> QED
  BY <1>3, <1>7, <1>17, Conclude, PTL

(* The index is stepped and the tail pointer written: nothing that is not  *)
(* counted already.                                                        *)
LEMMA HolderMoves ==
  ASSUME BufferInv, NEW t \in Callers, Transmit(t),
         task[t].pc \in {"head", "kick"}, task'[t].pc \in {"kick", "out"},
         \A u \in Tasks : u # t => task'[u] = task[u],
         UNCHANGED <<txRing, tx_desc_tail, tx_sem, rxVars, status, merged>>,
         engine'.tx = engine.tx
  PROVE  /\ Filled' = Filled /\ UNCHANGED <<pool, tokens, iface>> /\ ~refused'
         /\ PoolState' /\ TxBuffersAccounted' /\ IndicesRead'
         /\ Sent' = Sent => TokensBacked'
         /\ Sent' = Sent /\ (tx_desc_head' + Advancing') % NTx = TxSlot(Filled)
              => RingState'
<1>1. /\ iface = "up" /\ t \in Tasks /\ OtherTypes /\ RingInv /\ ~refused
      /\ UNCHANGED <<pool, tokens, iface>>
  BY TransmitNet DEF RingLocs
<1>2. /\ Cardinality(CallersAt({"lock"})') = Cardinality(CallersAt({"lock"}))
      /\ Cardinality(CallersAt({"sem", "lock"})') = Cardinality(CallersAt({"sem", "lock"}))
      /\ task'[Emac] = task[Emac] /\ Releasing' = Releasing
      /\ At(Emac, "release")' = At(Emac, "release")
      /\ \A u \in Callers : u # t => task'[u] = task[u]
  <2>1. /\ Cardinality(CallersAt({"lock"})') =
              Cardinality(CallersAt({"lock"}))
                + One(task'[t].pc \in {"lock"}) - One(task[t].pc \in {"lock"})
        /\ Cardinality(CallersAt({"sem", "lock"})') =
              Cardinality(CallersAt({"sem", "lock"}))
                + One(task'[t].pc \in {"sem", "lock"})
                - One(task[t].pc \in {"sem", "lock"})
        /\ task'[Emac] = task[Emac] /\ Releasing' = Releasing
        /\ At(Emac, "release")' = At(Emac, "release")
        /\ \A u \in Callers : u # t => task'[u] = task[u]
    BY CallerMoves
  <2>2. /\ One(task'[t].pc \in {"lock"}) = 0 /\ One(task[t].pc \in {"lock"}) = 0
        /\ One(task'[t].pc \in {"sem", "lock"}) = 0 /\ One(task[t].pc \in {"sem", "lock"}) = 0
    BY DEF One
  <2> QED
    BY <2>1, <2>2, RingFacts
<1>3. Filled' = Filled
  BY <1>1, <1>2 DEF Filled
<1>4. PoolState'
  BY <1>1, <1>2, <1>3 DEF RingInv, PoolState, PoolPos, One
<1>5. TxBuffersAccounted'
  <2>1. ASSUME NEW c \in TxBufs
        PROVE  /\ WithSender(c)' = WithSender(c) /\ InRing(c)' = InRing(c)
               /\ InPool(c)' = InPool(c)
    <3>1. WithSender(c)' = WithSender(c)
      BY <1>2 DEF WithSender
    <3>2. InRing(c)' = InRing(c) /\ InPool(c)' = InPool(c)
      BY <1>1 DEF InRing, InPool
    <3> QED
      BY <3>1, <3>2
  <2> QED
    BY <1>1, <1>2, <2>1 DEF RingInv, TxBuffersAccounted
<1>6. IndicesRead'
  BY <1>1, <1>2 DEF RingInv, IndicesRead, Releasing
<1>7. Sent' = Sent => TokensBacked'
  BY <1>1, <1>2 DEF RingInv, TokensBacked, One
<1>8. Sent' = Sent /\ (tx_desc_head' + Advancing') % NTx = TxSlot(Filled) => RingState'
  BY <1>1, <1>3 DEF RingInv, RingState, TxSlot
<1>9. ~refused'
  <2>1. refused' = (refused \/ (At(t, "sem") /\ tx_sem = 0)) /\ ~At(t, "sem")
    BY DEF Transmit, At
  <2> QED
    BY <1>1, <2>1
<1> QED
  BY <1>1, <1>3, <1>4, <1>5, <1>6, <1>7, <1>8, <1>9

LEMMA TransmitHeadStep ==
  ASSUME BufferInv, NEW t \in Callers, Transmit(t), TransmitHead(t)
  PROVE  BufferInv'
<1>1. /\ task[t].pc = "head" /\ Goto(t, "kick")
      /\ tx_desc_head' = (tx_desc_head + 1) % NTx
      /\ UNCHANGED <<txRing, tx_desc_tail, tx_sem, tx_mutex, rxVars, hwVars>>
  BY DEF TransmitHead, At
<1>2. /\ task' \in [Tasks -> Calls] /\ task'[t].pc = "kick"
      /\ \A u \in Tasks : u # t => task'[u] = task[u]
  <2>1. TypeOK /\ t \in Tasks
    BY DEF BufferInv, Tasks
  <2> QED
    BY <1>1, <2>1, GotoStep DEF CallerPcs
<1>3. /\ NetTypes' /\ NetworkBuffersAccounted' /\ Locations' /\ iface = "up"
      /\ OtherTypes /\ RingInv /\ t \in Tasks
  BY <1>1, <1>2, TransmitNet DEF RingLocs
<1>4. MutexExact'
  <2>1. \A u \in Callers : u # t => task'[u] = task[u]
    BY <1>2 DEF Tasks
  <2> QED
    BY <1>1, <1>2, <1>3, <2>1 DEF RingInv, MutexExact
<1>5. Advancing = 1 /\ Kicking = 0 /\ Advancing' = 0 /\ Kicking' = 1
  <2>1. HolderKnown
    BY <1>3, Holder DEF RingInv
  <2>2. HolderKnown'
    BY <1>4, Holder, PTL
  <2> QED
    BY <1>1, <1>2, <2>1, <2>2 DEF HolderKnown
<1>6. /\ NTx \in Nat \ {0} /\ tx_desc_head \in 0 .. NTx - 1
      /\ tx_desc_head' \in 0 .. NTx - 1
      /\ (tx_desc_head' + Advancing') % NTx = TxSlot(Filled)
  <2>1. NTx \in Nat \ {0} /\ tx_desc_head \in 0 .. NTx - 1 /\ 1 \in 0 .. NTx
    BY <1>3, XgmacAssumption DEF OtherTypes, XgmacTypeOK, TxSlots
  <2>2. tx_desc_head' \in 0 .. NTx - 1
    BY <1>1, <2>1, Around
  <2>3. PICK h \in 0 .. NTx - 1 : h = tx_desc_head'
    BY <2>2
  <2>4. (tx_desc_head' + Advancing') % NTx = tx_desc_head'
    <3>1. h + 0 = h /\ h % NTx = h
      BY <2>1
    <3> QED
      BY <1>5, <2>3, <3>1
  <2>5. tx_desc_head' = TxSlot(Filled)
    BY <1>1, <1>3, <1>5 DEF RingInv, RingState
  <2> QED
    BY <2>1, <2>2, <2>4, <2>5
<1>7. engine' = engine /\ UNCHANGED <<rxVars, status, merged>>
  BY <1>1 DEF hwVars
<1>8. OtherTypes'
  <2>1. UNCHANGED <<rxUsed, notes, events, phy, load, pool, tokens, iface>>
        /\ refused' \in BOOLEAN
    BY DEF Transmit, At
  <2> QED
    BY <1>1, <1>2, <1>3, <1>6, <1>7, <2>1 DEF OtherTypes, XgmacTypeOK, rxVars, TxSlots
<1>9. /\ Filled' = Filled /\ ~refused'
      /\ PoolState' /\ TxBuffersAccounted' /\ IndicesRead'
      /\ Sent' = Sent => TokensBacked' /\ RingState'
  BY <1>1, <1>2, <1>6, <1>7, HolderMoves
<1>10. Sent' = Sent
  BY <1>5, <1>7, <1>9, RingFacts DEF Sent
<1>11. RingInv'
  BY <1>4, <1>9, <1>10 DEF RingInv
<1> QED
  BY <1>3, <1>8, <1>9, <1>11, Conclude, PTL

LEMMA TransmitKickStep ==
  ASSUME BufferInv, NEW t \in Callers, Transmit(t), TransmitKick(t)
  PROVE  BufferInv'
<1>1. /\ task[t].pc = "kick" /\ tx_mutex' = None
      /\ task' = [task EXCEPT ![t] = [NoTask EXCEPT !.pc = "out"]]
      /\ engine' = [engine EXCEPT !.todo = @ + 1]
      /\ UNCHANGED <<txRing, tx_desc_head, tx_desc_tail, tx_sem, rxVars, status, merged>>
  BY DEF TransmitKick, At
<1>2. /\ task' \in [Tasks -> Calls] /\ task'[t].pc = "out"
      /\ \A u \in Tasks : u # t => task'[u] = task[u]
  <2>1. task \in [Tasks -> Calls] /\ t \in Tasks
    BY DEF BufferInv, TypeOK, Tasks
  <2>2. [NoTask EXCEPT !.pc = "out"] \in Calls /\ [NoTask EXCEPT !.pc = "out"].pc = "out"
    BY NoTaskType DEF CallerPcs, NoTask
  <2> QED
    BY <1>1, <2>1, <2>2
<1>3. /\ NetTypes' /\ NetworkBuffersAccounted' /\ Locations' /\ iface = "up"
      /\ OtherTypes /\ RingInv /\ t \in Tasks
  BY <1>1, <1>2, TransmitNet DEF RingLocs
<1>4. MutexExact'
  <2>1. \A u \in Callers : u # t => task'[u] = task[u]
    BY <1>2 DEF Tasks
  <2>2. tx_mutex = t /\ None \notin Callers /\ None # Emac
    BY <1>1, <1>3, XgmacAssumption DEF RingInv, MutexExact, Tasks
  <2> QED
    BY <1>1, <1>2, <1>3, <2>1, <2>2 DEF RingInv, MutexExact
<1>5. Advancing = 0 /\ Kicking = 1 /\ Advancing' = 0 /\ Kicking' = 0
  <2>1. HolderKnown
    BY <1>3, Holder DEF RingInv
  <2>2. HolderKnown'
    BY <1>4, Holder, PTL
  <2> QED
    BY <1>1, <1>2, <2>1, <2>2 DEF HolderKnown
<1>6. /\ engine \in [tx : TxSlots, todo : 0 .. NTx, rx : RxSlots]
      /\ engine'.todo = engine.todo + 1 /\ engine'.tx = engine.tx
      /\ engine' \in [tx : TxSlots, todo : 0 .. NTx, rx : RxSlots]
  <2>1. engine \in [tx : TxSlots, todo : 0 .. NTx, rx : RxSlots]
    BY <1>3 DEF OtherTypes, XgmacTypeOK
  <2>2. engine.todo + 1 \in 0 .. NTx
    BY <1>5, RingFacts, XgmacAssumption
  <2> QED
    BY <1>1, <2>1, <2>2
<1>7. (tx_desc_head' + Advancing') % NTx = TxSlot(Filled)
  BY <1>1, <1>3, <1>5 DEF RingInv, RingState
<1>8. OtherTypes'
  <2>1. UNCHANGED <<rxUsed, notes, events, phy, load, pool, tokens, iface>>
        /\ refused' \in BOOLEAN
    BY DEF Transmit, At
  <2> QED
    BY <1>1, <1>2, <1>3, <1>6, <2>1 DEF OtherTypes, XgmacTypeOK, rxVars
<1>9. /\ Filled' = Filled /\ ~refused'
      /\ PoolState' /\ TxBuffersAccounted' /\ IndicesRead'
      /\ Sent' = Sent => TokensBacked' /\ RingState'
  BY <1>1, <1>2, <1>6, <1>7, HolderMoves
<1>10. Sent' = Sent
  BY <1>5, <1>6, <1>9, RingFacts DEF Sent
<1>11. RingInv'
  BY <1>4, <1>9, <1>10 DEF RingInv
<1> QED
  BY <1>3, <1>8, <1>9, <1>11, Conclude, PTL

LEMMA TransmitStep ==
  ASSUME BufferInv, NEW t \in Callers, Transmit(t)
  PROVE  BufferInv'
<1>1. TransmitSem(t) \/ TransmitFill(t) \/ TransmitHead(t) \/ TransmitKick(t)
  BY DEF Transmit
<1> QED
  BY <1>1, TransmitSemStep, TransmitFillStep, TransmitHeadStep, TransmitKickStep

-----------------------------------------------------------------------------
(* xgmac_dma_tx_done.                                                      *)
LEMMA EmacMoves ==
  ASSUME \A u \in Tasks : u # Emac => task'[u] = task[u]
  PROVE  /\ \A u \in Callers : task'[u] = task[u]
         /\ CallersAt({"lock"})' = CallersAt({"lock"})
         /\ CallersAt({"sem", "lock"})' = CallersAt({"sem", "lock"})
         /\ Advancing' = Advancing /\ Kicking' = Kicking
         /\ \A b : WithSender(b)' = WithSender(b)
<1>1. \A u \in Callers : task'[u] = task[u]
  BY XgmacAssumption DEF Tasks
<1>2. /\ CallersAt({"lock"})' = CallersAt({"lock"})
      /\ CallersAt({"sem", "lock"})' = CallersAt({"sem", "lock"})
      /\ CallersAt({"head"})' = CallersAt({"head"})
      /\ CallersAt({"kick"})' = CallersAt({"kick"})
  BY <1>1 DEF CallersAt, TasksAt
<1>3. \A b : WithSender(b)' = WithSender(b)
  BY <1>1 DEF WithSender
<1> QED
  BY <1>1, <1>2, <1>3 DEF Advancing, Kicking

(* Until it is at the ring, nothing but its own place changes.             *)
LEMMA DoneMoves ==
  ASSUME BufferInv, \A u \in Tasks : u # Emac => task'[u] = task[u],
         UNCHANGED <<ringVars, rxVars, hwVars, netVars, pool, chain, ipq, lost,
                     iface, refused>>,
         task[Emac].pc \in {"tx", "count"}, task'[Emac].pc \in {"count", "locked"}
  PROVE  /\ NetTypes' /\ NetworkBuffersAccounted' /\ Locations'
         /\ Sent' = Sent /\ MutexExact' /\ RingState' /\ PoolState'
         /\ TxBuffersAccounted' /\ ~refused'
<1>1. Emac \in Tasks /\ OtherTypes /\ NetTypes /\ NetworkBuffersAccounted /\ RingInv
  BY Types DEF BufferInv, Tasks, RingInv
<1>2. NetTypes'
  BY <1>1 DEF NetTypes, netVars
<1>3. NetworkBuffersAccounted'
  BY <1>1, NetKept, XgmacAssumption DEF Carrying
<1>4. Locations'
  BY EmacLocation DEF EmacPcs
<1>5. /\ \A u \in Callers : task'[u] = task[u]
      /\ CallersAt({"lock"})' = CallersAt({"lock"})
      /\ CallersAt({"sem", "lock"})' = CallersAt({"sem", "lock"})
      /\ Advancing' = Advancing /\ Kicking' = Kicking
      /\ \A b : WithSender(b)' = WithSender(b)
  BY EmacMoves
<1>6. UNCHANGED <<txRing, tx_desc_head, tx_desc_tail, tx_sem, tx_mutex, engine>>
  BY DEF ringVars, hwVars
<1>7. Filled' = Filled
  BY <1>5, <1>6 DEF Filled
<1>8. Sent' = Sent
  BY <1>5, <1>6, <1>7 DEF Sent
<1>9. MutexExact' /\ RingState'
  BY <1>1, <1>5, <1>6, <1>7, <1>8 DEF RingInv, MutexExact, RingState, TxSlot
<1>10. ~At(Emac, "release") /\ ~At(Emac, "release")'
  BY DEF At
<1>11. PoolState'
  BY <1>1, <1>5, <1>7, <1>10 DEF RingInv, PoolState, PoolPos, One
<1>12. TxBuffersAccounted'
  <2>1. \A c \in TxBufs : InRing(c)' = InRing(c) /\ InPool(c)' = InPool(c)
    BY <1>6 DEF InRing, InPool
  <2> QED
    BY <1>1, <1>5, <1>10, <2>1 DEF RingInv, TxBuffersAccounted
<1> QED
  BY <1>2, <1>3, <1>4, <1>8, <1>9, <1>11, <1>12 DEF BufferInv

(* There is a token: a frame was sent, and if the indices meet then the    *)
(* ring is full.                                                           *)
LEMMA OutDoneTakeStep ==
  ASSUME BufferInv, OutDone, "TX" \in events /\ tokens > 0
  PROVE  BufferInv'
<1>1. /\ tokens' = tokens - 1 /\ task[Emac].pc = "tx"
      /\ task' = [task EXCEPT ![Emac] = [@ EXCEPT !.pc = "count",
                    !.tail = tx_desc_tail, !.head = tx_desc_head]]
      /\ UNCHANGED <<ringVars, rxVars, hwVars>>
      /\ UNCHANGED <<netVars, pool, rxUsed, notes, events, chain, ipq, lost,
                     iface, phy, load, refused>>
  BY DEF OutDone, DoneIndices, At
<1>2. /\ Emac \in Tasks /\ OtherTypes /\ RingInv
      /\ tx_desc_tail \in TxSlots /\ tx_desc_head \in TxSlots
      /\ NTx \in Nat \ {0} /\ tokens \in 0 .. NTx
  BY Types, XgmacAssumption DEF BufferInv, Tasks, RingInv, OtherTypes, XgmacTypeOK
<1>3. /\ task' \in [Tasks -> Calls] /\ task'[Emac].pc = "count"
      /\ task'[Emac].tail = tx_desc_tail /\ task'[Emac].head = tx_desc_head
      /\ \A u \in Tasks : u # Emac => task'[u] = task[u]
  <2>1. task \in [Tasks -> Calls] /\ task[Emac] \in Calls
    BY <1>2 DEF OtherTypes
  <2>2. task' = [task EXCEPT ![Emac] = [task[Emac] EXCEPT !.pc = "count",
                    !.tail = tx_desc_tail, !.head = tx_desc_head]]
    BY <1>1
  <2>3. [task[Emac] EXCEPT !.pc = "count", !.tail = tx_desc_tail,
                           !.head = tx_desc_head] \in Calls
    BY <1>2, <2>1 DEF Calls, EmacPcs
  <2> QED
    BY <1>2, <2>1, <2>2, <2>3 DEF Calls
<1>4. /\ NetTypes' /\ NetworkBuffersAccounted' /\ Locations'
      /\ Sent' = Sent /\ MutexExact' /\ RingState' /\ PoolState'
      /\ TxBuffersAccounted' /\ ~refused'
  BY <1>1, <1>3, DoneMoves
<1>5. OtherTypes'
  <2>1. tokens' \in 0 .. NTx
    BY <1>1, <1>2
  <2> QED
    BY <1>1, <1>2, <1>3, <2>1 DEF OtherTypes, XgmacTypeOK, ringVars, rxVars, hwVars
<1>6. One("TI" \in status) \in {0, 1} /\ One("TI" \in status)' = One("TI" \in status)
  BY <1>1 DEF One, hwVars
<1>7. TokensBacked'
  <2>1. tokens + One("TI" \in status) + 0 <= Sent
    BY <1>1, <1>2 DEF RingInv, TokensBacked, Releasing, One
  <2>2. One(Releasing)' = 1
    BY <1>3 DEF Releasing, One
  <2> QED
    BY <1>1, <1>2, <1>4, <1>6, <2>1, <2>2, RingFacts DEF TokensBacked
<1>8. tx_desc_tail = tx_desc_head => tx_sem = 0
  <2> SUFFICES ASSUME tx_desc_tail = tx_desc_head PROVE tx_sem = 0
    OBVIOUS
  <2>1. Sent >= 1
    <3>1. tokens + One("TI" \in status) + 0 <= Sent
      BY <1>1, <1>2 DEF RingInv, TokensBacked, Releasing, One
    <3> QED
      BY <1>1, <1>2, <1>6, <3>1, RingFacts
  <2>2. Filled >= 1 + Advancing /\ Filled \in 0 .. NTx /\ Advancing \in {0, 1}
    BY <1>2, <2>1, RingFacts
  <2>3. (tx_desc_tail + Advancing) % NTx = TxSlot(Filled)
    BY <1>2 DEF RingInv, RingState
  <2>4. TxSlot(Advancing) = TxSlot(Filled)
    BY <2>3 DEF TxSlot
  <2>5. Advancing = 0 /\ Filled = NTx
    <3>1. /\ TxSlot(Advancing) = IF tx_desc_tail + Advancing < NTx
                                 THEN tx_desc_tail + Advancing
                                 ELSE tx_desc_tail + Advancing - NTx
          /\ TxSlot(Filled) = IF tx_desc_tail + Filled < NTx THEN tx_desc_tail + Filled
                              ELSE tx_desc_tail + Filled - NTx
      <4>1. Advancing \in 0 .. NTx /\ Filled \in 0 .. NTx
        BY <1>2, <2>2
      <4> QED
        BY <1>2, <4>1, Slots
    <3>2. tx_desc_tail \in 0 .. NTx - 1
      BY <1>2 DEF TxSlots
    <3>3. PICK a \in {0, 1}, f \in 0 .. NTx, i \in 0 .. NTx - 1 :
            a = Advancing /\ f = Filled /\ i = tx_desc_tail
      BY <2>2, <3>2
    <3>4. /\ f >= 1 + a
          /\ (IF i + a < NTx THEN i + a ELSE i + a - NTx)
               = (IF i + f < NTx THEN i + f ELSE i + f - NTx)
      BY <2>2, <2>4, <3>1, <3>3
    <3>5. a = 0 /\ f = NTx
      BY <1>2, <3>4
    <3> QED
      BY <3>3, <3>5
  <2>6. iface = "up"
    BY <1>1 DEF BufferInv, Locations
  <2> QED
    BY <1>2, <2>5, <2>6, RingFacts
<1>9. IndicesRead'
  BY <1>1, <1>3, <1>8 DEF IndicesRead, Releasing, ringVars
<1>10. RingInv'
  BY <1>4, <1>7, <1>9 DEF RingInv
<1> QED
  BY <1>4, <1>5, <1>10, Conclude, PTL

(* Nothing is released meanwhile: what was sent is still counted as used.  *)
LEMMA DoneCountStep ==
  ASSUME BufferInv, DoneCount, UNCHANGED <<netVars, niVars>>
  PROVE  BufferInv'
<1>1. /\ task[Emac].pc = "count"
      /\ task' = [task EXCEPT ![Emac].pc = "locked", ![Emac].used = NTx - tx_sem]
      /\ UNCHANGED <<ringVars, rxVars, hwVars>>
      /\ UNCHANGED <<netVars, pool, rxUsed, tokens, notes, events, chain, ipq,
                     lost, iface, phy, load, refused>>
  BY DEF DoneCount, At, niVars
<1>2. /\ Emac \in Tasks /\ OtherTypes /\ RingInv /\ iface = "up"
      /\ NTx \in Nat \ {0} /\ tokens \in 0 .. NTx /\ tx_sem \in 0 .. NTx
  BY <1>1, Types, XgmacAssumption
     DEF BufferInv, Tasks, RingInv, OtherTypes, XgmacTypeOK, Locations
<1>3. /\ task' \in [Tasks -> Calls] /\ task'[Emac].pc = "locked"
      /\ task'[Emac].tail = task[Emac].tail /\ task'[Emac].head = task[Emac].head
      /\ task'[Emac].used = NTx - tx_sem
      /\ \A u \in Tasks : u # Emac => task'[u] = task[u]
  <2>1. task \in [Tasks -> Calls] /\ task[Emac] \in Calls
    BY <1>2 DEF OtherTypes
  <2>2. task' = [task EXCEPT ![Emac] = [task[Emac] EXCEPT !.pc = "locked",
                                                          !.used = NTx - tx_sem]]
    BY <1>1
  <2>3. [task[Emac] EXCEPT !.pc = "locked", !.used = NTx - tx_sem] \in Calls
    <3>1. NTx - tx_sem \in 0 .. NTx
      BY <1>2
    <3> QED
      BY <2>1, <3>1 DEF Calls, EmacPcs
  <2> QED
    BY <1>2, <2>1, <2>2, <2>3 DEF Calls
<1>4. /\ NetTypes' /\ NetworkBuffersAccounted' /\ Locations'
      /\ Sent' = Sent /\ MutexExact' /\ RingState' /\ PoolState'
      /\ TxBuffersAccounted' /\ ~refused'
  BY <1>1, <1>3, DoneMoves
<1>5. OtherTypes'
  BY <1>1, <1>2, <1>3 DEF OtherTypes, XgmacTypeOK, ringVars, rxVars, hwVars
<1>6. Releasing /\ Releasing'
  BY <1>1, <1>3 DEF Releasing
<1>7. TokensBacked'
  BY <1>1, <1>2, <1>4, <1>6 DEF RingInv, TokensBacked, One, hwVars
<1>8. NTx - tx_sem > 0
  <2>1. One("TI" \in status) \in {0, 1} /\ One(Releasing) = 1
    BY <1>6 DEF One
  <2>2. Sent >= 1
    <3>1. tokens + One("TI" \in status) + One(Releasing) <= Sent
      BY <1>2 DEF RingInv, TokensBacked
    <3>2. One("TI" \in status) \in Nat /\ Sent \in Int
      BY RingFacts DEF One
    <3>3. tokens + One("TI" \in status) + 1 <= Sent
      BY <2>1, <3>1
    <3> QED
      BY <1>2, <3>2, <3>3
  <2> QED
    BY <1>2, <2>2, RingFacts
<1>9. IndicesRead'
  <2>1. IndicesRead /\ tx_desc_tail' = tx_desc_tail
    BY <1>1, <1>2 DEF RingInv, ringVars
  <2>2. task[Emac].tail = task[Emac].head => NTx - tx_sem = NTx
    BY <1>1, <1>2, <2>1 DEF IndicesRead
  <2>3. task'[Emac].tail = tx_desc_tail'
    BY <1>3, <1>6, <2>1 DEF IndicesRead
  <2> QED
    BY <1>3, <1>8, <2>2, <2>3 DEF IndicesRead
<1>10. RingInv'
  BY <1>4, <1>7, <1>9 DEF RingInv
<1> QED
  BY <1>4, <1>5, <1>10, Conclude, PTL

(* What it finds under the mutex.                                          *)
LEMMA DoneDescriptor ==
  ASSUME BufferInv, task[Emac].pc = "locked"
  PROVE  /\ Sent >= 1 /\ Filled >= 1 /\ iface = "up"
         /\ task[Emac].tail = tx_desc_tail
         /\ ~txRing[tx_desc_tail].own /\ txRing[tx_desc_tail].buf \in TxBufs
         /\ task[Emac].used # 0
         /\ task[Emac].tail = task[Emac].head => task[Emac].used = NTx
<1>1. /\ tokens + One("TI" \in status) + One(Releasing) <= Sent
      /\ One("TI" \in status) \in Nat /\ One(Releasing) = 1
  BY DEF BufferInv, TokensBacked, Releasing, One
<1>2. Sent >= 1 /\ Filled >= 1
  <2>1. tokens + One("TI" \in status) + 1 <= Sent
    BY <1>1
  <2>2. Sent >= 1
    BY <1>1, <2>1, RingFacts
  <2> QED
    BY <2>2, RingFacts, XgmacAssumption
<1>3. /\ task[Emac].tail = tx_desc_tail /\ iface = "up" /\ task[Emac].used > 0
      /\ task[Emac].tail = task[Emac].head => task[Emac].used = NTx
  BY DEF BufferInv, IndicesRead, Releasing, Locations
<1>4. /\ NTx \in Nat \ {0} /\ tx_desc_tail \in TxSlots
      /\ txRing[tx_desc_tail] \in [own : BOOLEAN, buf : TxBufs \cup {None}]
      /\ 0 \in TxSlots
  <2>1. NTx \in Nat \ {0} /\ 0 \in TxSlots
    BY XgmacAssumption DEF TxSlots
  <2>2. /\ tx_desc_tail \in TxSlots
        /\ txRing \in [TxSlots -> [own : BOOLEAN, buf : TxBufs \cup {None}]]
    BY DEF BufferInv, TypeOK, XgmacTypeOK
  <2> QED
    BY <2>1, <2>2
<1>5. TxSlot(0) = tx_desc_tail
  BY <1>4, NextSlot DEF TxSlots
<1>6. txRing[TxSlot(0)].own = (0 >= Sent) /\ txRing[TxSlot(0)].buf # None
  <2>1. 0 < Filled
    BY <1>2, RingFacts
  <2> QED
    BY <1>4, <2>1 DEF BufferInv, RingState
<1>7. ~txRing[tx_desc_tail].own
  <2>1. ~(0 >= Sent)
    BY <1>2, RingFacts
  <2> QED
    BY <1>5, <1>6, <2>1
<1>8. task[Emac].used # 0
  <2>1. task[Emac].used \in Nat
    BY <1>4 DEF BufferInv, TypeOK, Calls, Tasks
  <2> QED
    BY <1>3, <2>1
<1> QED
  BY <1>2, <1>3, <1>4, <1>5, <1>6, <1>7, <1>8

LEMMA DoneBodyStep ==
  ASSUME BufferInv, DoneBody, UNCHANGED <<netVars, niVars>>
  PROVE  BufferInv'
<1>1. /\ task[Emac].pc = "locked" /\ tx_mutex = None
      /\ UNCHANGED <<tx_desc_head, rxVars, hwVars>>
      /\ UNCHANGED <<netVars, pool, rxUsed, tokens, notes, events, chain, ipq,
                     lost, iface, phy, load, refused>>
  BY DEF DoneBody, At, niVars
<1>2. /\ Sent >= 1 /\ Filled >= 1 /\ iface = "up"
      /\ task[Emac].tail = tx_desc_tail /\ txRing[tx_desc_tail].buf \in TxBufs
      /\ task[Emac].used # 0
      /\ task[Emac].tail = task[Emac].head => task[Emac].used = NTx
  BY <1>1, DoneDescriptor
<1>3. PICK b \in TxBufs : b = txRing[tx_desc_tail].buf
  BY <1>2
<1>4. /\ task' = [task EXCEPT ![Emac].pc = "release", ![Emac].buf = b]
      /\ txRing' = [txRing EXCEPT ![tx_desc_tail] = FreeDesc]
      /\ tx_sem' = tx_sem + 1
      /\ tx_desc_tail' = (tx_desc_tail + 1) % NTx
      /\ UNCHANGED tx_mutex
  BY <1>2, <1>3 DEF DoneBody
<1>5. /\ Emac \in Tasks /\ OtherTypes /\ NetTypes /\ RingInv /\ NetworkBuffersAccounted
      /\ tx_desc_tail \in TxSlots /\ NTx \in Nat \ {0} /\ tx_sem \in 0 .. NTx
      /\ txRing \in [TxSlots -> [own : BOOLEAN, buf : TxBufs \cup {None}]]
  BY Types, XgmacAssumption DEF BufferInv, Tasks, RingInv, OtherTypes, XgmacTypeOK
<1>6. /\ task' \in [Tasks -> Calls] /\ task'[Emac].pc = "release"
      /\ task'[Emac].buf = b
      /\ \A u \in Tasks : u # Emac => task'[u] = task[u]
  <2>1. task \in [Tasks -> Calls] /\ task[Emac] \in Calls
    BY <1>5 DEF OtherTypes
  <2>2. task' = [task EXCEPT ![Emac] = [task[Emac] EXCEPT !.pc = "release", !.buf = b]]
    BY <1>4
  <2>3. [task[Emac] EXCEPT !.pc = "release", !.buf = b] \in Calls
    BY <2>1 DEF Calls, EmacPcs
  <2> QED
    BY <1>5, <2>1, <2>2, <2>3 DEF Calls
<1>7. NetTypes'
  BY <1>1, <1>5 DEF NetTypes, netVars
<1>8. NetworkBuffersAccounted'
  BY <1>1, <1>5, <1>6, NetKept, XgmacAssumption DEF Carrying
<1>9. Locations'
  BY <1>1, <1>6, EmacLocation, BufsNotNone DEF EmacPcs
<1>10. /\ \A u \in Callers : task'[u] = task[u]
       /\ CallersAt({"lock"})' = CallersAt({"lock"})
       /\ CallersAt({"sem", "lock"})' = CallersAt({"sem", "lock"})
       /\ Advancing' = 0 /\ Kicking' = 0 /\ Advancing = 0 /\ Kicking = 0
       /\ \A c : WithSender(c)' = WithSender(c)
  <2>1. HolderKnown
    BY <1>5, Holder DEF RingInv
  <2> QED
    BY <1>1, <1>6, <2>1, EmacMoves DEF HolderKnown
<1>11. /\ Filled' = Filled - 1 /\ Sent' = Sent - 1 /\ tx_sem' \in 0 .. NTx
       /\ engine' = engine /\ status' = status
  <2>1. engine' = engine /\ status' = status
    BY <1>1 DEF hwVars
  <2>2. Filled = NTx - tx_sem - Cardinality(CallersAt({"lock"}))
    BY <1>2, RingFacts
  <2>3. Filled' = NTx - (tx_sem + 1) - Cardinality(CallersAt({"lock"}))
    BY <1>1, <1>2, <1>4, <1>10 DEF Filled
  <2>4. Filled' = Filled - 1 /\ tx_sem' \in 0 .. NTx
    BY <1>2, <1>4, <1>5, <2>2, <2>3, RingFacts
  <2>5. Sent = Filled - engine.todo
    BY <1>10, RingFacts
  <2>6. Sent' = Filled' - 0 - 0 - engine.todo
    BY <1>10, <2>1 DEF Sent
  <2> QED
    BY <2>1, <2>4, <2>5, <2>6, RingFacts
<1>12. /\ tx_desc_tail' \in TxSlots
       /\ \A k \in 0 .. NTx - 1 : TxSlot(k)' = TxSlot(k + 1)
       /\ TxSlot(0) = tx_desc_tail
       /\ TxSlot(NTx) = tx_desc_tail
  <2>1. /\ \A k \in 0 .. NTx : TxSlot(k) = IF tx_desc_tail + k < NTx THEN tx_desc_tail + k
                                  ELSE tx_desc_tail + k - NTx
        /\ tx_desc_tail \in 0 .. NTx - 1
    BY <1>5, Slots DEF TxSlots
  <2>2. /\ tx_desc_tail' = IF tx_desc_tail + 1 < NTx THEN tx_desc_tail + 1
                           ELSE tx_desc_tail + 1 - NTx
        /\ tx_desc_tail' \in 0 .. NTx - 1
    BY <1>4, <1>5, <2>1, Around
  <2>3. ASSUME NEW k \in 0 .. NTx - 1 PROVE TxSlot(k)' = TxSlot(k + 1)
    <3>1. (tx_desc_tail' + k) % NTx = IF tx_desc_tail' + k < NTx THEN tx_desc_tail' + k
                                      ELSE tx_desc_tail' + k - NTx
      <4>1. PICK h \in 0 .. NTx - 1 : h = tx_desc_tail'
        BY <2>2
      <4>2. k \in 0 .. NTx
        BY <1>5
      <4> QED
        BY <1>5, <4>1, <4>2, Around
    <3>2. TxSlot(k + 1) = IF tx_desc_tail + (k + 1) < NTx THEN tx_desc_tail + (k + 1)
                          ELSE tx_desc_tail + (k + 1) - NTx
      BY <1>5, <2>1
    <3>3. TxSlot(k)' = (tx_desc_tail' + k) % NTx
      BY DEF TxSlot
    <3> QED
      BY <1>5, <2>1, <2>2, <3>1, <3>2, <3>3
  <2>4. TxSlot(0) = tx_desc_tail /\ TxSlot(NTx) = tx_desc_tail
    BY <1>5, <2>1
  <2> QED
    BY <2>2, <2>3, <2>4 DEF TxSlots
<1>13. /\ txRing'[tx_desc_tail] = FreeDesc
       /\ \A i \in TxSlots : i # tx_desc_tail => txRing'[i] = txRing[i]
       /\ txRing' \in [TxSlots -> [own : BOOLEAN, buf : TxBufs \cup {None}]]
  BY <1>4, <1>5 DEF FreeDesc
<1>14. OtherTypes'
  BY <1>1, <1>4, <1>5, <1>6, <1>11, <1>12, <1>13
     DEF OtherTypes, XgmacTypeOK, rxVars, hwVars
<1>15. MutexExact'
  BY <1>4, <1>5, <1>10 DEF RingInv, MutexExact
<1>16. RingState'
  <2>1. Filled' \in 0 .. NTx /\ Sent' \in 0 .. NTx
    <3>1. Filled - 1 \in 0 .. NTx /\ Sent - 1 \in 0 .. NTx
      BY <1>2, <1>5, RingFacts
    <3> QED
      BY <1>11, <3>1
  <2>2. ASSUME NEW k \in TxSlots
        PROVE  IF k < Filled'
               THEN txRing'[TxSlot(k)'].own = (k >= Sent') /\ txRing'[TxSlot(k)'].buf # None
               ELSE txRing'[TxSlot(k)'] = FreeDesc
    <3>1. TxSlot(k)' = TxSlot(k + 1) /\ k \in 0 .. NTx - 1
      BY <1>12 DEF TxSlots
    <3>2. CASE k + 1 = NTx
      <4>1. ~(k < Filled')
        BY <1>11, <3>1, <3>2, RingFacts
      <4>2. txRing'[TxSlot(k)'] = FreeDesc
        BY <1>12, <1>13, <3>1, <3>2
      <4> QED
        BY <4>1, <4>2
    <3>3. CASE k + 1 # NTx
      <4>1. k + 1 \in TxSlots /\ 0 \in TxSlots /\ k + 1 # 0 /\ k + 1 \in 0 .. NTx
        BY <1>5, <3>1, <3>3 DEF TxSlots
      <4>2. TxSlot(k + 1) # tx_desc_tail /\ TxSlot(k + 1) \in TxSlots
        BY <1>5, <1>12, <4>1, Slots
      <4>3. txRing'[TxSlot(k + 1)] = txRing[TxSlot(k + 1)]
        BY <1>13, <4>2
      <4>4. IF k + 1 < Filled
            THEN txRing[TxSlot(k + 1)].own = (k + 1 >= Sent) /\ txRing[TxSlot(k + 1)].buf # None
            ELSE txRing[TxSlot(k + 1)] = FreeDesc
        BY <1>5, <4>1 DEF RingInv, RingState
      <4>5. (k + 1 < Filled <=> k < Filled') /\ (k + 1 >= Sent <=> k >= Sent')
        BY <1>11, <3>1, RingFacts
      <4> QED
        BY <3>1, <4>3, <4>4, <4>5
    <3> QED
      BY <3>2, <3>3
  <2>3. engine'.tx = TxSlot(Sent)'
    <3>1. PICK s \in 0 .. NTx - 1 : s = Sent' /\ s + 1 = Sent
      BY <1>2, <1>5, <1>11, RingFacts
    <3>2. engine'.tx = TxSlot(s)'
      BY <1>5, <1>11, <1>12, <3>1 DEF RingInv, RingState
    <3> QED
      BY <3>1, <3>2 DEF TxSlot
  <2>4. (tx_desc_head' + Advancing') % NTx = TxSlot(Filled)'
    <3>1. PICK f \in 0 .. NTx - 1 : f = Filled' /\ f + 1 = Filled
      BY <1>2, <1>5, <1>11, RingFacts
    <3>2. (tx_desc_head' + Advancing') % NTx = TxSlot(f)'
      BY <1>1, <1>5, <1>10, <1>12, <3>1 DEF RingInv, RingState
    <3> QED
      BY <3>1, <3>2 DEF TxSlot
  <2>5. \A k \in TxSlots : TxSlot(k)' = (tx_desc_tail' + k) % NTx
    BY DEF TxSlot
  <2> QED
    BY <2>1, <2>2, <2>3, <2>4, <2>5 DEF RingState, TxSlot
<1>17. TokensBacked'
  <2>1. tokens + One("TI" \in status) + One(Releasing) <= Sent
    BY <1>5 DEF RingInv, TokensBacked
  <2>2. One(Releasing) = 1 /\ One(Releasing)' = 0
    BY <1>1, <1>6 DEF Releasing, One
  <2>3. One("TI" \in status) \in Nat /\ One("TI" \in status)' = One("TI" \in status)
    BY <1>11 DEF One
  <2>4. tokens + One("TI" \in status) + 1 <= Sent
    BY <2>1, <2>2
  <2>5. tokens + One("TI" \in status) + 0 <= Sent - 1
    BY <2>3, <2>4, RingFacts
  <2> QED
    BY <1>1, <1>11, <2>2, <2>3, <2>5 DEF TokensBacked
<1>18. IndicesRead'
  BY <1>6 DEF IndicesRead, Releasing
<1>19. PoolState'
  <2>1. pool.used = Cardinality(CallersAt({"sem", "lock"})) + Filled
                      + One(At(Emac, "release"))
    BY <1>5 DEF RingInv, PoolState
  <2>2. One(At(Emac, "release")) = 0 /\ One(At(Emac, "release"))' = 1
    BY <1>1, <1>6 DEF One, At
  <2>3. pool.used = Cardinality(CallersAt({"sem", "lock"})) + (Filled - 1) + 1
    BY <2>1, <2>2, RingFacts
  <2> QED
    BY <1>1, <1>5, <1>10, <1>11, <2>2, <2>3 DEF RingInv, PoolState, PoolPos
<1>20. TxBuffersAccounted'
  <2> SUFFICES ASSUME NEW c \in TxBufs
               PROVE  Cardinality(WithSender(c)') + Cardinality(InRing(c)')
                        + (IF InPool(c)' THEN 1 ELSE 0)
                        + (IF At(Emac, "release")' /\ task'[Emac].buf = c
                           THEN 1 ELSE 0) = 1
    BY DEF TxBuffersAccounted
  <2>1. Cardinality(WithSender(c)) + Cardinality(InRing(c))
          + (IF InPool(c) THEN 1 ELSE 0)
          + (IF At(Emac, "release") /\ task[Emac].buf = c THEN 1 ELSE 0) = 1
    BY <1>5 DEF RingInv, TxBuffersAccounted
  <2>2. InPool(c)' = InPool(c)
    BY <1>1 DEF InPool
  <2>3. /\ Cardinality(WithSender(c)) \in Nat /\ Cardinality(InRing(c)) \in Nat
        /\ IsFiniteSet(InRing(c))
    BY Places
  <2>4. Cardinality(InRing(c)') = Cardinality(InRing(c)) - One(c = b)
    <3>1. InRing(c) \ {tx_desc_tail} = InRing(c)' \ {tx_desc_tail}
      BY <1>13 DEF InRing
    <3>2. tx_desc_tail \in InRing(c) <=> c = b
      BY <1>3, <1>5 DEF InRing
    <3>3. tx_desc_tail \notin InRing(c)'
      BY <1>13, BufsNotNone DEF InRing, FreeDesc
    <3> QED
      BY <2>3, <3>1, <3>2, <3>3, SetMove DEF One
  <2>5. ~At(Emac, "release") /\ At(Emac, "release")'
    BY <1>1, <1>6 DEF At
  <2>6. (IF At(Emac, "release")' /\ task'[Emac].buf = c THEN 1 ELSE 0) = One(c = b)
    BY <1>6, <2>5 DEF One
  <2>7. One(c = b) \in {0, 1}
    BY DEF One
  <2> QED
    BY <1>10, <2>1, <2>2, <2>3, <2>4, <2>5, <2>6, <2>7
<1>21. RingInv' /\ ~refused'
  BY <1>1, <1>15, <1>16, <1>17, <1>18, <1>19, <1>20 DEF RingInv, BufferInv
<1> QED
  BY <1>7, <1>8, <1>9, <1>14, <1>21, Conclude, PTL

-----------------------------------------------------------------------------
(* pucReleaseTXBuffer puts a buffer behind the free ones.                  *)
LEMMA PoolGive ==
  ASSUME BufferInv, pool.used > 0, NEW b \in TxBufs, ~InPool(b),
         pool' = [buf |-> [pool.buf EXCEPT ![pool.tail] = b],
                  head |-> pool.head, tail |-> (pool.tail + 1) % NPool,
                  used |-> pool.used - 1]
  PROVE  /\ pool' \in [buf : [TxBufs -> TxBufs], head : TxBufs,
                       tail : TxBufs, used : 0 .. NPool]
         /\ InPool(b)'
         /\ \A c \in TxBufs : c # b => InPool(c)' = InPool(c)
         /\ pool'.used = pool.used - 1
         /\ pool'.tail = (pool'.head + (NPool - pool'.used)) % NPool
         /\ \A j, k \in 0 .. NPool - pool'.used - 1 :
              pool'.buf[PoolPos(j)'] = pool'.buf[PoolPos(k)'] => j = k
<1>1. /\ pool \in [buf : [TxBufs -> TxBufs], head : TxBufs,
                   tail : TxBufs, used : 0 .. NPool]
      /\ pool.tail = PoolPos(NPool - pool.used)
      /\ \A j, k \in 0 .. NPool - pool.used - 1 :
           pool.buf[PoolPos(j)] = pool.buf[PoolPos(k)] => j = k
      /\ NPool \in Nat \ {0}
  BY XgmacAssumption DEF BufferInv, TypeOK, PoolState
<1>2. /\ \A k \in 0 .. NPool :
           /\ PoolPos(k) = IF pool.head + k < NPool THEN pool.head + k
                           ELSE pool.head + k - NPool
           /\ PoolPos(k) \in TxBufs
      /\ \A j, k \in TxBufs : PoolPos(j) = PoolPos(k) => j = k
      /\ pool.head \in 0 .. NPool - 1
  BY <1>1, Positions DEF TxBufs
<1>3. PICK f \in 0 .. NPool - 1 : f = NPool - pool.used /\ f = NPool - pool'.used - 1
  <2>1. pool.used \in 1 .. NPool /\ pool'.used = pool.used - 1
    BY <1>1
  <2> QED
    BY <1>1, <2>1
<1>4. /\ pool'.head = pool.head /\ pool'.used = pool.used - 1
      /\ pool'.tail = (pool.tail + 1) % NPool
      /\ pool'.buf = [pool.buf EXCEPT ![pool.tail] = b]
      /\ pool.tail = PoolPos(f) /\ pool.used \in 1 .. NPool
  BY <1>1, <1>3
<1>5. (pool.tail + 1) % NPool = PoolPos(f + 1) /\ PoolPos(f + 1) \in 0 .. NPool - 1
  <2>1. PICK s \in 0 .. NPool - 1 : s = pool.tail
    BY <1>1 DEF TxBufs
  <2>2. 1 \in 0 .. NPool /\ f \in 0 .. NPool /\ f + 1 \in 0 .. NPool
    BY <1>1
  <2>3. (s + 1) % NPool = IF s + 1 < NPool THEN s + 1 ELSE s + 1 - NPool
    BY <1>1, <2>1, <2>2, Around
  <2>4. /\ PoolPos(f) = IF pool.head + f < NPool THEN pool.head + f
                        ELSE pool.head + f - NPool
        /\ PoolPos(f + 1) = IF pool.head + (f + 1) < NPool THEN pool.head + (f + 1)
                            ELSE pool.head + (f + 1) - NPool
        /\ PoolPos(f + 1) \in 0 .. NPool - 1
    BY <1>2, <2>2 DEF TxBufs
  <2> QED
    BY <1>1, <1>2, <1>4, <2>1, <2>3, <2>4
<1>6. \A k : PoolPos(k)' = PoolPos(k)
  BY <1>4 DEF PoolPos
<1>7. pool' \in [buf : [TxBufs -> TxBufs], head : TxBufs,
                 tail : TxBufs, used : 0 .. NPool]
  <2>1. /\ [pool.buf EXCEPT ![pool.tail] = b] \in [TxBufs -> TxBufs]
        /\ (pool.tail + 1) % NPool \in TxBufs /\ pool.used - 1 \in 0 .. NPool
    <3>1. [pool.buf EXCEPT ![pool.tail] = b] \in [TxBufs -> TxBufs]
      BY <1>1
    <3>2. (pool.tail + 1) % NPool \in TxBufs
      BY <1>5 DEF TxBufs
    <3>3. pool.used - 1 \in 0 .. NPool
      BY <1>1, <1>4
    <3> QED
      BY <3>1, <3>2, <3>3
  <2> QED
    BY <1>1, <2>1
<1>8. pool'.tail = (pool'.head + (NPool - pool'.used)) % NPool
  <2>1. NPool - pool'.used = f + 1
    BY <1>1, <1>3, <1>4
  <2> QED
    BY <1>4, <1>5, <2>1 DEF PoolPos
<1>9. /\ pool'.buf[PoolPos(f)] = b
      /\ \A k \in 0 .. f - 1 : pool'.buf[PoolPos(k)] = pool.buf[PoolPos(k)]
  <2>1. pool'.buf[PoolPos(f)] = b
    BY <1>1, <1>4
  <2>2. ASSUME NEW k \in 0 .. f - 1 PROVE pool'.buf[PoolPos(k)] = pool.buf[PoolPos(k)]
    <3>1. k \in TxBufs /\ f \in TxBufs /\ k # f /\ k \in 0 .. NPool
      BY <1>1 DEF TxBufs
    <3>2. PoolPos(k) # pool.tail /\ PoolPos(k) \in TxBufs
      BY <1>2, <1>4, <3>1
    <3> QED
      BY <1>1, <1>4, <3>2
  <2> QED
    BY <2>1, <2>2
<1>10. ASSUME NEW c
       PROVE  /\ InPool(c) <=> \E k \in 0 .. f - 1 : pool.buf[PoolPos(k)] = c
              /\ InPool(c)' <=> \E k \in 0 .. f : pool'.buf[PoolPos(k)] = c
  <2>1. InPool(c) <=> \E k \in 0 .. NPool - 1 : k < f /\ pool.buf[PoolPos(k)] = c
    BY <1>3 DEF InPool, PoolPos
  <2>2. InPool(c)' <=> \E k \in 0 .. NPool - 1 :
                         k < NPool - pool'.used /\ pool'.buf[PoolPos(k)] = c
    BY <1>4 DEF InPool, PoolPos
  <2>3. NPool - pool'.used = f + 1
    BY <1>1, <1>3, <1>4
  <2>4. /\ \A k \in 0 .. NPool - 1 : k < f <=> k \in 0 .. f - 1
        /\ \A k \in 0 .. NPool - 1 : k < f + 1 <=> k \in 0 .. f
        /\ 0 .. f - 1 \subseteq 0 .. NPool - 1 /\ 0 .. f \subseteq 0 .. NPool - 1
    BY <1>1
  <2> QED
    BY <2>1, <2>2, <2>3, <2>4
<1>11. InPool(b)'
  BY <1>9, <1>10
<1>12. ASSUME NEW c \in TxBufs, c # b PROVE InPool(c)' = InPool(c)
  <2>1. ASSUME NEW k \in 0 .. f, pool'.buf[PoolPos(k)] = c
        PROVE  k \in 0 .. f - 1 /\ pool.buf[PoolPos(k)] = c
    <3>1. k # f
      BY <1>9, <1>12, <2>1
    <3>2. k \in 0 .. f - 1
      BY <3>1
    <3> QED
      BY <1>9, <2>1, <3>2
  <2>2. ASSUME NEW k \in 0 .. f - 1, pool.buf[PoolPos(k)] = c
        PROVE  k \in 0 .. f /\ pool'.buf[PoolPos(k)] = c
    BY <1>9, <2>2
  <2>3. InPool(c)' <=> InPool(c)
    BY <1>10, <2>1, <2>2
  <2>4. InPool(c) \in BOOLEAN /\ InPool(c)' \in BOOLEAN
    BY DEF InPool
  <2> QED
    BY <2>3, <2>4
<1>13. ASSUME NEW j \in 0 .. NPool - pool'.used - 1,
              NEW k \in 0 .. NPool - pool'.used - 1,
              pool'.buf[PoolPos(j)'] = pool'.buf[PoolPos(k)']
       PROVE  j = k
  <2>1. j \in 0 .. f /\ k \in 0 .. f
    BY <1>1, <1>3
  <2>2. pool'.buf[PoolPos(j)] = pool'.buf[PoolPos(k)]
    BY <1>6, <1>13
  <2>3. \A m \in 0 .. f - 1 : pool'.buf[PoolPos(m)] # b
    BY <1>9, <1>10
  <2>4. \A m \in 0 .. f : m = f \/ m \in 0 .. f - 1
    OBVIOUS
  <2>5. CASE j \in 0 .. f - 1 /\ k \in 0 .. f - 1
    BY <1>1, <1>3, <1>9, <2>2, <2>5
  <2> QED
    BY <1>9, <2>1, <2>2, <2>3, <2>4, <2>5
<1> QED
  BY <1>4, <1>7, <1>8, <1>11, <1>12, <1>13

LEMMA ReleaseTxStep ==
  ASSUME BufferInv, ReleaseTx
  PROVE  BufferInv'
<1>1. /\ Emac \in Tasks /\ OtherTypes /\ NetTypes /\ RingInv /\ NetworkBuffersAccounted
      /\ task[Emac].pc = "release"
      /\ UNCHANGED <<ringVars, rxVars, hwVars, netVars, rxUsed, tokens, notes,
                     events, chain, ipq, lost, iface, phy, load>>
  BY Types DEF BufferInv, Tasks, RingInv, ReleaseTx, At
<1>2. PICK b \in TxBufs : b = task[Emac].buf
  <2>1. task[Emac].buf # None
    BY <1>1 DEF BufferInv, Locations, At
  <2> QED
    BY <1>1, <2>1 DEF OtherTypes, Calls
<1>3. /\ pool.used = Cardinality(CallersAt({"sem", "lock"})) + Filled + 1
      /\ pool.used \in 0 .. NPool /\ pool.used > 0
  <2>1. pool.used = Cardinality(CallersAt({"sem", "lock"})) + Filled
                      + One(At(Emac, "release"))
    BY <1>1 DEF RingInv, PoolState
  <2>2. One(At(Emac, "release")) = 1
    BY <1>1 DEF One, At
  <2>3. pool.used = Cardinality(CallersAt({"sem", "lock"})) + Filled + 1
    BY <2>1, <2>2
  <2> QED
    BY <2>3, RingFacts
<1>4. /\ pool' = [buf |-> [pool.buf EXCEPT ![pool.tail] = b],
                  head |-> pool.head, tail |-> (pool.tail + 1) % NPool,
                  used |-> pool.used - 1]
      /\ refused' = refused
      /\ task' = [task EXCEPT ![Emac] = [NoTask EXCEPT !.pc = "tx"]]
  <2>1. pool.used # 0
    BY <1>3
  <2> QED
    BY <1>2, <2>1 DEF ReleaseTx
<1>5. /\ task' \in [Tasks -> Calls] /\ task'[Emac].pc = "tx"
      /\ \A u \in Tasks : u # Emac => task'[u] = task[u]
  <2>1. [NoTask EXCEPT !.pc = "tx"] \in Calls /\ [NoTask EXCEPT !.pc = "tx"].pc = "tx"
    BY NoTaskType DEF EmacPcs, NoTask
  <2> QED
    BY <1>1, <1>4, <2>1 DEF OtherTypes
<1>6. \A c \in TxBufs : /\ Cardinality(WithSender(c)) \in Nat
                        /\ Cardinality(InRing(c)) \in Nat
                        /\ Cardinality(WithSender(c)) + Cardinality(InRing(c))
                             + (IF InPool(c) THEN 1 ELSE 0) + One(c = b) = 1
  BY <1>1, <1>2, Places DEF RingInv, TxBuffersAccounted, At, One
<1>7. ~InPool(b)
  BY <1>6 DEF One
<1>8. /\ pool' \in [buf : [TxBufs -> TxBufs], head : TxBufs,
                    tail : TxBufs, used : 0 .. NPool]
      /\ InPool(b)'
      /\ \A c \in TxBufs : c # b => InPool(c)' = InPool(c)
      /\ pool'.used = pool.used - 1
      /\ pool'.tail = (pool'.head + (NPool - pool'.used)) % NPool
      /\ \A j, k \in 0 .. NPool - pool'.used - 1 :
           pool'.buf[PoolPos(j)'] = pool'.buf[PoolPos(k)'] => j = k
  BY <1>3, <1>4, <1>7, PoolGive
<1>9. NetTypes'
  BY <1>1 DEF NetTypes, netVars
<1>10. NetworkBuffersAccounted'
  BY <1>1, <1>5, NetKept, XgmacAssumption DEF Carrying
<1>11. Locations'
  BY <1>1, <1>5, EmacLocation DEF EmacPcs
<1>12. OtherTypes'
  BY <1>1, <1>4, <1>5, <1>8 DEF OtherTypes, XgmacTypeOK, ringVars, rxVars, hwVars
<1>13. /\ \A u \in Callers : task'[u] = task[u]
       /\ CallersAt({"lock"})' = CallersAt({"lock"})
       /\ CallersAt({"sem", "lock"})' = CallersAt({"sem", "lock"})
       /\ Advancing' = Advancing /\ Kicking' = Kicking
       /\ \A c : WithSender(c)' = WithSender(c)
  BY <1>5, EmacMoves
<1>14. UNCHANGED <<txRing, tx_desc_head, tx_desc_tail, tx_sem, tx_mutex, engine, status>>
  BY <1>1 DEF ringVars, hwVars
<1>15. Filled' = Filled /\ Sent' = Sent
  BY <1>1, <1>13, <1>14 DEF Filled, Sent
<1>16. MutexExact' /\ RingState'
  BY <1>1, <1>13, <1>14, <1>15 DEF RingInv, MutexExact, RingState, TxSlot
<1>17. ~Releasing /\ ~Releasing' /\ ~At(Emac, "release")'
  BY <1>1, <1>5 DEF Releasing, At
<1>18. TokensBacked' /\ IndicesRead'
  BY <1>1, <1>5, <1>14, <1>15, <1>17 DEF RingInv, TokensBacked, IndicesRead, One
<1>19. PoolState'
  <2>1. pool'.used = Cardinality(CallersAt({"sem", "lock"})) + Filled + 0
    BY <1>3, <1>8, RingFacts
  <2>2. One(At(Emac, "release"))' = 0
    BY <1>17 DEF One
  <2> QED
    BY <1>8, <1>13, <1>15, <2>1, <2>2 DEF PoolState, PoolPos
<1>20. TxBuffersAccounted'
  <2> SUFFICES ASSUME NEW c \in TxBufs
               PROVE  Cardinality(WithSender(c)') + Cardinality(InRing(c)')
                        + (IF InPool(c)' THEN 1 ELSE 0)
                        + (IF At(Emac, "release")' /\ task'[Emac].buf = c
                           THEN 1 ELSE 0) = 1
    BY DEF TxBuffersAccounted
  <2>1. InRing(c)' = InRing(c)
    BY <1>14 DEF InRing
  <2>2. CASE c = b
    BY <1>6, <1>7, <1>8, <1>13, <1>17, <2>1, <2>2 DEF One
  <2>3. CASE c # b
    BY <1>6, <1>8, <1>13, <1>17, <2>1, <2>3 DEF One
  <2> QED
    BY <2>2, <2>3
<1>21. RingInv' /\ ~refused'
  BY <1>4, <1>16, <1>18, <1>19, <1>20 DEF RingInv, BufferInv
<1> QED
  BY <1>9, <1>10, <1>11, <1>12, <1>21, Conclude, PTL

-----------------------------------------------------------------------------
(* The engine sends the next frame.                                        *)
LEMMA EngineSendStep ==
  ASSUME BufferInv, EngineSend
  PROVE  BufferInv'
<1>1. /\ OtherTypes /\ NetTypes /\ RingInv /\ NetworkBuffersAccounted
      /\ txRing \in [TxSlots -> [own : BOOLEAN, buf : TxBufs \cup {None}]]
      /\ engine \in [tx : TxSlots, todo : 0 .. NTx, rx : RxSlots]
      /\ NTx \in Nat \ {0} /\ tx_desc_tail \in TxSlots
  BY Types, XgmacAssumption DEF BufferInv, RingInv, OtherTypes, XgmacTypeOK
<1>2. /\ engine.todo > 0
      /\ txRing' = [txRing EXCEPT ![engine.tx].own = FALSE]
      /\ engine' = [engine EXCEPT !.tx = (@ + 1) % NTx, !.todo = @ - 1]
      /\ UNCHANGED <<tx_desc_head, tx_desc_tail, tx_sem, tx_mutex, rxVars, task>>
      /\ UNCHANGED <<netVars, pool, rxUsed, tokens, notes, events, chain, ipq,
                     lost, iface, phy, load, refused>>
  BY DEF EngineSend, EngineTransmit, niVars
<1>3. /\ status' \subseteq {"TI", "RI", "RBU"} /\ merged' \in BOOLEAN
      /\ "TI" \in status'
  BY <1>1 DEF EngineSend, EngineTransmit, Raise, OtherTypes, XgmacTypeOK
<1>4. PICK s \in 0 .. NTx - 1 :
        /\ s = Sent /\ s + 1 <= Filled - Advancing - Kicking /\ s < Filled
        /\ Sent = Filled - Advancing - Kicking - engine.todo
  <2>1. Sent = Filled - Advancing - Kicking - engine.todo
    BY RingFacts
  <2>2. Filled \in 0 .. NTx /\ Sent \in 0 .. NTx /\ Advancing \in 0 .. 1 /\ Kicking \in 0 .. 1
    BY RingFacts
  <2> QED
    BY <1>1, <1>2, <2>1, <2>2
<1>5. engine.tx = TxSlot(s) /\ engine.tx \in TxSlots
  BY <1>1, <1>4 DEF RingInv, RingState
<1>6. (engine.tx + 1) % NTx = TxSlot(s + 1) /\ TxSlot(s + 1) \in TxSlots
  <2>1. s + 1 \in 0 .. NTx
    BY <1>1
  <2> QED
    BY <1>1, <1>5, <2>1, NextSlot, Slots
<1>7. /\ engine'.tx = TxSlot(s + 1) /\ engine'.todo = engine.todo - 1
      /\ engine' \in [tx : TxSlots, todo : 0 .. NTx, rx : RxSlots]
  <2>1. engine.todo - 1 \in 0 .. NTx
    BY <1>1, <1>2
  <2> QED
    BY <1>1, <1>2, <1>6, <2>1
<1>8. /\ txRing' \in [TxSlots -> [own : BOOLEAN, buf : TxBufs \cup {None}]]
      /\ txRing'[engine.tx].own = FALSE
      /\ \A i \in TxSlots : txRing'[i].buf = txRing[i].buf
      /\ \A i \in TxSlots : i # engine.tx => txRing'[i] = txRing[i]
  BY <1>1, <1>2, <1>5
<1>9. OtherTypes'
  BY <1>1, <1>2, <1>3, <1>7, <1>8 DEF OtherTypes, XgmacTypeOK, rxVars
<1>10. NetTypes'
  BY <1>1, <1>2 DEF NetTypes, netVars
<1>11. NetworkBuffersAccounted'
  BY <1>1, <1>2, NetKept
<1>12. Locations'
  BY <1>2 DEF BufferInv, Locations, At
<1>13. Filled' = Filled /\ Advancing' = Advancing /\ Kicking' = Kicking
       /\ CallersAt({"sem", "lock"})' = CallersAt({"sem", "lock"})
  BY <1>2 DEF Filled, Advancing, Kicking, CallersAt, TasksAt
<1>14. Sent' = s + 1
  <2>1. Sent' = Filled - Advancing - Kicking - (engine.todo - 1)
    BY <1>7, <1>13 DEF Sent
  <2> QED
    BY <1>1, <1>4, <2>1, RingFacts
<1>15. MutexExact' /\ IndicesRead' /\ PoolState'
  BY <1>1, <1>2, <1>13
     DEF RingInv, MutexExact, IndicesRead, Releasing, PoolState, PoolPos, At, One
<1>16. RingState'
  <2>1. \A k : TxSlot(k)' = TxSlot(k)
    BY <1>2 DEF TxSlot
  <2>2. Filled' \in 0 .. NTx /\ Sent' \in 0 .. NTx
    BY <1>1, <1>13, <1>14, RingFacts
  <2>3. ASSUME NEW k \in TxSlots
        PROVE  IF k < Filled'
               THEN txRing'[TxSlot(k)].own = (k >= Sent') /\ txRing'[TxSlot(k)].buf # None
               ELSE txRing'[TxSlot(k)] = FreeDesc
    <3>1. IF k < Filled
          THEN txRing[TxSlot(k)].own = (k >= Sent) /\ txRing[TxSlot(k)].buf # None
          ELSE txRing[TxSlot(k)] = FreeDesc
      BY <1>1 DEF RingInv, RingState
    <3>2. TxSlot(k) \in TxSlots /\ k \in 0 .. NTx - 1 /\ s \in TxSlots
      <4>1. k \in 0 .. NTx - 1 /\ k \in 0 .. NTx /\ s \in TxSlots
        BY <1>1 DEF TxSlots
      <4> QED
        BY <1>1, <4>1, Slots
    <3>3. CASE k = s
      <4>1. txRing'[TxSlot(k)].own = FALSE /\ txRing'[TxSlot(k)].buf # None
        BY <1>4, <1>5, <1>8, <3>1, <3>3
      <4>2. (k >= Sent') = FALSE /\ k < Filled'
        BY <1>4, <1>13, <1>14, <3>3
      <4>3. txRing'[TxSlot(k)].own = (k >= Sent')
        BY <4>1, <4>2
      <4> QED
        BY <4>1, <4>2, <4>3
    <3>4. CASE k # s
      <4>1. TxSlot(k) # engine.tx
        BY <1>1, <1>5, <3>2, <3>4, Slots
      <4>2. txRing'[TxSlot(k)] = txRing[TxSlot(k)]
        BY <1>8, <3>2, <4>1
      <4>3. k >= Sent <=> k >= Sent'
        BY <1>4, <1>14, <3>2, <3>4
      <4> QED
        BY <1>13, <3>1, <4>2, <4>3
    <3> QED
      BY <3>3, <3>4
  <2>4. engine'.tx = TxSlot(Sent)' /\ (tx_desc_head' + Advancing') % NTx = TxSlot(Filled)'
    BY <1>1, <1>2, <1>7, <1>13, <1>14 DEF TxSlot, RingInv, RingState
  <2> QED
    BY <2>1, <2>2, <2>3, <2>4 DEF RingState
<1>17. TokensBacked'
  <2>1. tokens + One("TI" \in status) + One(Releasing) <= s
    BY <1>1, <1>4 DEF RingInv, TokensBacked
  <2>2. One("TI" \in status) \in Nat /\ One(Releasing) \in Nat /\ tokens \in Nat
    BY RingFacts DEF One
  <2>3. One("TI" \in status)' = 1 /\ One(Releasing)' = One(Releasing) /\ tokens' = tokens
    BY <1>2, <1>3 DEF One, Releasing
  <2>4. tokens + 1 + One(Releasing) <= s + 1
    BY <2>1, <2>2
  <2> QED
    BY <1>14, <2>3, <2>4 DEF TokensBacked
<1>18. TxBuffersAccounted'
  <2>1. ASSUME NEW c \in TxBufs
        PROVE  /\ WithSender(c)' = WithSender(c) /\ InRing(c)' = InRing(c)
               /\ InPool(c)' = InPool(c)
    <3>1. WithSender(c)' = WithSender(c) /\ InPool(c)' = InPool(c)
      BY <1>2 DEF WithSender, InPool
    <3>2. InRing(c)' = InRing(c)
      BY <1>8 DEF InRing
    <3> QED
      BY <3>1, <3>2
  <2> QED
    BY <1>1, <1>2, <2>1 DEF RingInv, TxBuffersAccounted, At
<1>19. RingInv' /\ ~refused'
  BY <1>2, <1>15, <1>16, <1>17, <1>18 DEF RingInv, BufferInv
<1> QED
  BY <1>9, <1>10, <1>11, <1>12, <1>19, Conclude, PTL

-----------------------------------------------------------------------------
(* The start: the ring is as good as new, and nobody uses it yet.          *)
LEMMA Idle ==
  ASSUME \A t \in Callers : task[t].pc = "idle"
  PROVE  /\ \A locs \in {{"lock"}, {"sem", "lock"}, {"head"}, {"kick"}} :
              CallersAt(locs) = {}
         /\ \A b : WithSender(b) = {}
BY DEF CallersAt, TasksAt, WithSender

LEMMA InitialiseDmaStep ==
  ASSUME BufferInv, InitialiseDma
  PROVE  BufferInv'
<1>1. /\ OtherTypes /\ NetTypes /\ RingInv /\ NetworkBuffersAccounted
      /\ iface = "down" /\ XgmacReset /\ rxUsed' = NRx /\ tokens' = 0
      /\ rxOwn' = [i \in RxSlots |-> rxUsed = 0]
      /\ iface' \in {"wait", "down"}
      /\ UNCHANGED <<merged, task, netVars, pool, notes, events, chain, ipq, lost,
                     phy, load, refused>>
  BY Types DEF BufferInv, RingInv, InitialiseDma
<1>2. /\ NTx \in Nat \ {0} /\ NRx \in Nat \ {0} /\ 0 \in TxSlots /\ 0 \in RxSlots
      /\ 0 \in 0 .. NTx /\ NTx \in 0 .. NTx
  BY XgmacAssumption DEF TxSlots, RxSlots
<1>3. /\ \A t \in Callers : task[t].pc = "idle"
      /\ task[Emac].pc = "wait"
  BY <1>1 DEF BufferInv, Locations
<1>4. /\ \A locs \in {{"lock"}, {"sem", "lock"}, {"head"}, {"kick"}} :
           CallersAt(locs)' = {} /\ CallersAt(locs) = {}
      /\ \A b : WithSender(b)' = {} /\ WithSender(b) = {}
  BY <1>1, <1>3, Idle DEF CallersAt, TasksAt, WithSender
<1>5. /\ txRing' = [i \in TxSlots |-> FreeDesc]
      /\ tx_desc_head' = 0 /\ tx_desc_tail' = 0
      /\ tx_sem' = NTx /\ tx_mutex' = None /\ rx_desc_head' = 0
      /\ engine' = [tx |-> 0, todo |-> 0, rx |-> 0] /\ status' = {}
  BY <1>1 DEF XgmacReset
<1>6. OtherTypes'
  <2>1. txRing' \in [TxSlots -> [own : BOOLEAN, buf : TxBufs \cup {None}]]
    BY <1>5 DEF FreeDesc
  <2>2. rxOwn' \in [RxSlots -> BOOLEAN]
    BY <1>1
  <2>3. engine' \in [tx : TxSlots, todo : 0 .. NTx, rx : RxSlots]
    BY <1>2, <1>5
  <2> QED
    BY <1>1, <1>2, <1>5, <2>1, <2>2, <2>3 DEF OtherTypes, XgmacTypeOK
<1>7. NetTypes'
  BY <1>1 DEF NetTypes, netVars
<1>8. NetworkBuffersAccounted'
  BY <1>1, NetKept
<1>9. Locations'
  BY <1>1, <1>3, <1>5 DEF BufferInv, Locations, At, CallerPcs
<1>10. Filled = 0 /\ Filled' = 0 /\ Advancing' = 0 /\ Kicking' = 0 /\ Sent' = 0
  <2>1. Cardinality({}) = 0
    BY FS_EmptySet
  <2>2. Filled = 0 /\ Filled' = 0
    BY <1>1, <1>2, <1>4, <1>5, <2>1 DEF Filled
  <2>3. Advancing' = 0 /\ Kicking' = 0
    BY <1>4 DEF Advancing, Kicking, One
  <2>4. engine'.todo = 0
    BY <1>5
  <2> QED
    BY <2>2, <2>3, <2>4 DEF Sent
<1>11. MutexExact'
  BY <1>1, <1>3, <1>5, XgmacAssumption DEF MutexExact, Tasks
<1>12. RingState'
  <2>1. \A k \in TxSlots : (tx_desc_tail' + k) % NTx = k /\ txRing'[k] = FreeDesc
                           /\ ~(k < 0)
    BY <1>2, <1>5 DEF TxSlots
  <2>2. (0 + 0) % NTx = 0
    BY <1>2
  <2> QED
    BY <1>2, <1>5, <1>10, <2>1, <2>2 DEF RingState, TxSlot
<1>13. TokensBacked' /\ IndicesRead'
  BY <1>1, <1>3, <1>5, <1>10 DEF TokensBacked, IndicesRead, Releasing, One
<1>14. PoolState'
  BY <1>1, <1>4, <1>10 DEF RingInv, PoolState, PoolPos, At, One
<1>15. TxBuffersAccounted'
  <2>1. ASSUME NEW c \in TxBufs
        PROVE  WithSender(c)' = WithSender(c) /\ InRing(c)' = InRing(c)
               /\ InPool(c)' = InPool(c)
    <3>1. WithSender(c)' = WithSender(c) /\ InPool(c)' = InPool(c)
      BY <1>1 DEF WithSender, InPool
    <3>2. InRing(c)' = {}
      BY <1>5, BufsNotNone DEF InRing, FreeDesc
    <3>3. InRing(c) = {}
      <4>1. ASSUME NEW i \in TxSlots PROVE txRing[i].buf # c
        <5>1. PICK k \in TxSlots : TxSlot(k) = i
          BY <1>1, Slots DEF OtherTypes, XgmacTypeOK
        <5>2. ~(k < Filled)
          BY <1>10 DEF TxSlots
        <5>3. txRing[i] = FreeDesc
          BY <1>1, <5>1, <5>2 DEF RingInv, RingState
        <5> QED
          BY <5>3, BufsNotNone DEF FreeDesc
      <4> QED
        BY <4>1 DEF InRing
    <3> QED
      BY <3>1, <3>2, <3>3
  <2> QED
    BY <1>1, <2>1 DEF RingInv, TxBuffersAccounted, At
<1>16. RingInv' /\ ~refused'
  BY <1>1, <1>11, <1>12, <1>13, <1>14, <1>15 DEF RingInv, BufferInv
<1> QED
  BY <1>6, <1>7, <1>8, <1>9, <1>16, Conclude, PTL

LEMMA InitBuffers == Init => BufferInv
<1> SUFFICES ASSUME Init PROVE BufferInv
  OBVIOUS
<1>1. /\ XgmacInit /\ xNetworkBuffersInitialise
      /\ task = [t \in Tasks |-> [NoTask EXCEPT !.pc = IF t = Emac THEN "wait" ELSE "idle"]]
      /\ pool = [buf |-> [i \in TxBufs |-> i], head |-> 0, tail |-> 0, used |-> 0]
      /\ rxUsed = 0 /\ tokens = 0 /\ notes = {} /\ events = {} /\ chain = 0
      /\ ipq = [queued |-> 0, giving |-> FALSE] /\ lost = 0 /\ iface = "down"
      /\ phy = [up |-> TRUE, link |-> FALSE, reconfig |-> FALSE]
      /\ load \in Loads /\ refused = FALSE
  BY DEF Init
<1>2. /\ txRing = [i \in TxSlots |-> FreeDesc]
      /\ tx_desc_head = 0 /\ tx_desc_tail = 0
      /\ tx_sem = 0 /\ tx_mutex = None
      /\ rxOwn = [i \in RxSlots |-> FALSE] /\ rx_desc_head = 0
      /\ engine = [tx |-> 0, todo |-> 0, rx |-> 0] /\ status = {}
      /\ merged = FALSE
  BY <1>1 DEF XgmacInit
<1>3. /\ NTx \in Nat \ {0} /\ NRx \in Nat \ {0} /\ NPool \in Nat \ {0}
      /\ 0 \in TxSlots /\ 0 \in RxSlots /\ 0 \in 0 .. NTx /\ 0 \in TxBufs
      /\ 0 \in 0 .. NPool
  BY XgmacAssumption DEF TxSlots, RxSlots, TxBufs
<1>4. /\ task \in [Tasks -> Calls] /\ task[Emac].pc = "wait"
      /\ \A t \in Callers : task[t].pc = "idle"
  <2>1. /\ [NoTask EXCEPT !.pc = "wait"] \in Calls /\ [NoTask EXCEPT !.pc = "idle"] \in Calls
        /\ [NoTask EXCEPT !.pc = "wait"].pc = "wait" /\ [NoTask EXCEPT !.pc = "idle"].pc = "idle"
    BY NoTaskType DEF CallerPcs, EmacPcs, NoTask
  <2>2. \A t \in Callers : t # Emac /\ t \in Tasks
    BY XgmacAssumption DEF Tasks
  <2>3. Emac \in Tasks
    BY DEF Tasks
  <2> QED
    BY <1>1, <2>1, <2>2, <2>3
<1>5. OtherTypes
  <2>1. XgmacTypeOK
    <3>1. txRing \in [TxSlots -> [own : BOOLEAN, buf : TxBufs \cup {None}]]
      BY <1>2 DEF FreeDesc
    <3>2. engine \in [tx : TxSlots, todo : 0 .. NTx, rx : RxSlots]
      BY <1>2, <1>3
    <3> QED
      BY <1>2, <1>3, <3>1, <3>2 DEF XgmacTypeOK
  <2>2. pool \in [buf : [TxBufs -> TxBufs], head : TxBufs,
                  tail : TxBufs, used : 0 .. NPool]
    BY <1>1, <1>3
  <2>3. load \in Traffic
    BY <1>1, PoolAssumption
  <2> QED
    BY <1>1, <1>3, <1>4, <2>1, <2>2, <2>3 DEF OtherTypes
<1>6. NetTypes
  BY <1>1, NBufAssumption DEF NetTypes, xNetworkBuffersInitialise
<1>7. Locations
  BY <1>1, <1>2, <1>4 DEF Locations, At, CallerPcs, EmacPcs
<1>8. Cardinality({}) = 0
  BY FS_EmptySet
<1>9. NetworkBuffersAccounted
  <2>1. /\ TasksAt(Tasks, {"get", "rxget"}) = {}
        /\ TasksAt(Tasks, {"give", "dropgive"}) = {}
        /\ TasksAt(Callers, Carrying) = {}
    BY <1>4 DEF TasksAt, Tasks, Carrying
  <2>2. One(ipq.giving) = 0 /\ ipq.queued = 0
    BY <1>1 DEF One
  <2>3. GetsHeld = 0 /\ GivesDue = 0 /\ InUse = 0
    <3>1. /\ Cardinality(TasksAt(Tasks, {"get", "rxget"})) = 0
          /\ Cardinality(TasksAt(Tasks, {"give", "dropgive"})) = 0
          /\ Cardinality(TasksAt(Callers, Carrying)) = 0
      BY <1>8, <2>1
    <3>2. chain = 0 /\ lost = 0
      BY <1>1
    <3> QED
      BY <2>2, <3>1, <3>2 DEF GetsHeld, GivesDue, InUse
  <2> QED
    BY <1>1, <2>3, NBufAssumption DEF NetworkBuffersAccounted, xNetworkBuffersInitialise
<1>10. /\ \A locs \in {{"lock"}, {"sem", "lock"}, {"head"}, {"kick"}} :
            CallersAt(locs) = {}
       /\ \A b : WithSender(b) = {}
  BY <1>4, Idle
<1>11. Filled = 0 /\ Advancing = 0 /\ Kicking = 0 /\ Sent = 0
  <2>1. Filled = 0 /\ engine.todo = 0
    BY <1>1, <1>2 DEF Filled
  <2>2. Advancing = 0 /\ Kicking = 0
    BY <1>10 DEF Advancing, Kicking, One
  <2> QED
    BY <2>1, <2>2 DEF Sent
<1>12. MutexExact
  BY <1>2, <1>4, XgmacAssumption DEF MutexExact, Tasks
<1>13. RingState
  <2>1. \A k \in TxSlots : (0 + k) % NTx = k /\ txRing[k] = FreeDesc /\ ~(k < 0)
    BY <1>2, <1>3 DEF TxSlots
  <2>2. (0 + 0) % NTx = 0
    BY <1>3
  <2> QED
    BY <1>2, <1>3, <1>11, <2>1, <2>2 DEF RingState, TxSlot
<1>14. TokensBacked /\ IndicesRead
  BY <1>1, <1>2, <1>4, <1>11 DEF TokensBacked, IndicesRead, Releasing, One
<1>15. \A k \in 0 .. NPool - 1 : PoolPos(k) = k /\ pool.buf[PoolPos(k)] = k
  <2>1. ASSUME NEW k \in 0 .. NPool - 1 PROVE (0 + k) % NPool = k
    BY <1>3
  <2>2. pool.head = 0 /\ \A k \in 0 .. NPool - 1 : pool.buf[k] = k
    BY <1>1 DEF TxBufs
  <2> QED
    BY <2>1, <2>2 DEF PoolPos
<1>16. PoolState
  <2>1. pool.used = 0 /\ pool.tail = 0 /\ One(At(Emac, "release")) = 0
    BY <1>1, <1>4 DEF At, One
  <2>2. PoolPos(NPool) = 0
    <3>1. PoolPos(NPool) = IF pool.head + NPool < NPool THEN pool.head + NPool
                           ELSE pool.head + NPool - NPool
      BY <1>1, <1>3, Positions
    <3> QED
      BY <1>1, <1>3, <3>1
  <2>3. NPool - 0 = NPool
    BY <1>3
  <2> QED
    BY <1>8, <1>10, <1>11, <1>15, <2>1, <2>2, <2>3 DEF PoolState
<1>17. TxBuffersAccounted
  <2>1. ASSUME NEW b \in TxBufs
        PROVE  WithSender(b) = {} /\ InRing(b) = {} /\ InPool(b)
    <3>1. InRing(b) = {}
      BY <1>2, BufsNotNone DEF InRing, FreeDesc
    <3>2. b \in 0 .. NPool - 1 /\ b < NPool - pool.used
      BY <1>1, <1>3 DEF TxBufs
    <3>3. InPool(b)
      BY <1>15, <3>2 DEF InPool, PoolPos
    <3> QED
      BY <1>10, <3>1, <3>3
  <2> QED
    BY <1>4, <1>8, <2>1 DEF TxBuffersAccounted, At
<1>18. RingInv
  BY <1>12, <1>13, <1>14, <1>16, <1>17 DEF RingInv
<1> QED
  BY <1>1, <1>5, <1>6, <1>7, <1>9, <1>18, Conclude

LEMMA StutterStep ==
  ASSUME BufferInv, UNCHANGED vars
  PROVE  BufferInv'
<1>1. OtherTypes /\ NetTypes /\ NetworkBuffersAccounted
  BY Types DEF BufferInv
<1>2. /\ UNCHANGED <<task, ringVars, tokens, pool, refused, iface, engine, status>>
      /\ UNCHANGED <<netVars, chain, ipq, lost>>
  BY DEF vars, niVars, hwVars
<1>3. OtherTypes' /\ NetTypes'
  BY <1>1 DEF vars, niVars, hwVars, ringVars, rxVars, netVars, OtherTypes,
              XgmacTypeOK, NetTypes
<1>4. NetworkBuffersAccounted'
  BY <1>1, <1>2, NetKept
<1> QED
  BY <1>2, <1>3, <1>4, OthersQuiet

LEMMA SendStep ==
  ASSUME BufferInv, NEW t \in Callers, SendGet(t) \/ Send(t)
  PROVE  BufferInv'
<1>1. ASSUME NEW rel \in BOOLEAN, Output(t, rel) PROVE BufferInv'
  <2>1. CASE phy.link /\ pool.used < NPool
    BY <1>1, <2>1, OutputTakeStep
  <2>2. CASE ~(phy.link /\ pool.used < NPool)
    BY <1>1, <2>2, OutputRefusedStep
  <2> QED
    BY <2>1, <2>2
<1>2. CASE SendGet(t)
  BY <1>2, SendGetStep
<1>3. CASE SendGot(t)
  BY <1>3, SendGotStep
<1>4. CASE Transmit(t)
  BY <1>4, TransmitStep
<1>5. CASE ReleaseFirst(t)
  BY <1>5, ReleaseFirstStep
<1>6. CASE ReleaseLast(t)
  BY <1>6, ReleaseLastStep
<1> QED
  BY <1>1, <1>2, <1>3, <1>4, <1>5, <1>6 DEF Send

LEMMA EmacStepInv ==
  ASSUME BufferInv, EmacStep
  PROVE  BufferInv'
<1>1. CASE EmacWait
  BY <1>1, EmacWaitStep
<1>2. CASE Input
  BY <1>2, InputDropStep, InputTakeStep, InputCopyStep, InputEndStep DEF Input
<1>3. CASE Deliver
  BY <1>3, PassStep, PassFullStep, DropFirstStep, DropLastStep DEF Deliver
<1>4. CASE OutDone
  <2>1. CASE "TX" \in events /\ tokens > 0
    BY <1>4, <2>1, OutDoneTakeStep
  <2>2. CASE ~("TX" \in events /\ tokens > 0)
    BY <1>4, <2>2, OutDoneStopStep
  <2> QED
    BY <2>1, <2>2
<1>5. CASE TxDone
  BY <1>5, DoneCountStep, DoneBodyStep DEF TxDone
<1>6. CASE ReleaseTx
  BY <1>6, ReleaseTxStep
<1>7. CASE HandleError
  BY <1>7, HandleErrorStep
<1>8. CASE \E expired \in BOOLEAN : PhyTimer(expired)
  BY <1>8, PhyTimerStep
<1> QED
  BY <1>1, <1>2, <1>3, <1>4, <1>5, <1>6, <1>7, <1>8 DEF EmacStep

LEMMA NextBuffers == BufferInv /\ [Next]_vars => BufferInv'
<1> SUFFICES ASSUME BufferInv, [Next]_vars PROVE BufferInv'
  OBVIOUS
<1>1. CASE InitialiseDma
  BY <1>1, InitialiseDmaStep
<1>2. CASE InitialiseWait
  BY <1>2, InitialiseWaitStep
<1>3. CASE PhyFlap
  BY <1>3, PhyFlapStep
<1>4. CASE \E t \in Callers : SendGet(t) \/ Send(t)
  BY <1>4, SendStep
<1>5. CASE EmacStep
  BY <1>5, EmacStepInv
<1>6. CASE Isr
  BY <1>6, IsrStep
<1>7. CASE IpTask
  BY <1>7, IpTaskStep
<1>8. CASE EngineSend
  BY <1>8, EngineSendStep
<1>9. CASE Frame
  BY <1>9, FrameStep
<1>10. CASE UNCHANGED vars
  BY <1>10, StutterStep
<1> QED
  BY <1>1, <1>2, <1>3, <1>4, <1>5, <1>6, <1>7, <1>8, <1>9, <1>10 DEF Next

-----------------------------------------------------------------------------
(* The receive ring: the slots from its head.                              *)
LEMMA ReceiveSlots ==
  ASSUME rx_desc_head \in RxSlots
  PROVE  /\ \A k \in 0 .. NRx :
              /\ RxSlot(k) = IF rx_desc_head + k < NRx THEN rx_desc_head + k
                             ELSE rx_desc_head + k - NRx
              /\ RxSlot(k) \in RxSlots
         /\ RxSlot(0) = rx_desc_head /\ RxSlot(NRx) = rx_desc_head
         /\ \A j, k \in RxSlots : RxSlot(j) = RxSlot(k) => j = k
         /\ \A i \in RxSlots : \E k \in RxSlots : RxSlot(k) = i
<1>1. \A k \in 0 .. NRx :
        /\ RxSlot(k) = IF rx_desc_head + k < NRx THEN rx_desc_head + k
                       ELSE rx_desc_head + k - NRx
        /\ RxSlot(k) \in RxSlots
  BY Around, XgmacAssumption DEF RxSlots, RxSlot
<1>2. RxSlot(0) = rx_desc_head /\ RxSlot(NRx) = rx_desc_head
  <2>1. 0 \in 0 .. NRx /\ NRx \in 0 .. NRx /\ rx_desc_head \in 0 .. NRx - 1
    BY XgmacAssumption DEF RxSlots
  <2> QED
    BY <1>1, <2>1, XgmacAssumption
<1>3. \A j, k \in RxSlots : RxSlot(j) = RxSlot(k) => j = k
  BY <1>1, XgmacAssumption DEF RxSlots
<1>4. ASSUME NEW i \in RxSlots PROVE \E k \in RxSlots : RxSlot(k) = i
  <2> DEFINE k == IF i >= rx_desc_head THEN i - rx_desc_head
                  ELSE i - rx_desc_head + NRx
  <2>1. k \in RxSlots /\ RxSlot(k) = i
    BY <1>1, XgmacAssumption DEF RxSlots
  <2> QED
    BY <2>1
<1> QED
  BY <1>1, <1>2, <1>3, <1>4

(* With no frame at its head the ring holds none.                          *)
LEMMA FramesInOrder ==
  ASSUME BufferInv, RxState
  PROVE  (\E i \in RxSlots : ~rxOwn[i]) <=> Received
<1>1. rx_desc_head \in RxSlots /\ rxOwn \in [RxSlots -> BOOLEAN]
  BY DEF BufferInv, TypeOK, XgmacTypeOK
<1>2. PICK n \in 0 .. NRx : \A k \in RxSlots : rxOwn[RxSlot(k)] = (k >= n)
  BY DEF RxState
<1>3. 0 \in RxSlots /\ rxOwn[rx_desc_head] = (0 >= n)
  BY <1>1, <1>2, ReceiveSlots, XgmacAssumption DEF RxSlots
<1>4. ASSUME NEW i \in RxSlots, ~rxOwn[i] PROVE Received
  <2>1. PICK k \in RxSlots : RxSlot(k) = i
    BY <1>1, ReceiveSlots
  <2>2. ~(k >= n)
    BY <1>2, <1>4, <2>1
  <2>3. (0 >= n) = FALSE
    BY <2>2 DEF RxSlots
  <2> QED
    BY <1>3, <2>3 DEF Received
<1> QED
  BY <1>1, <1>4 DEF Received

(* The driver gives the descriptor at the head back.                       *)
LEMMA RefillState ==
  ASSUME BufferInv, RxState, Received, xgmac_refill_rx_desc, engine'.rx = engine.rx
  PROVE  RxState'
<1>1. /\ rx_desc_head \in RxSlots /\ rxOwn \in [RxSlots -> BOOLEAN]
      /\ rxOwn' = [rxOwn EXCEPT ![rx_desc_head] = TRUE]
      /\ rx_desc_head' = (rx_desc_head + 1) % NRx /\ NRx \in Nat \ {0}
      /\ ~rxOwn[rx_desc_head]
  BY XgmacAssumption DEF BufferInv, TypeOK, XgmacTypeOK, xgmac_refill_rx_desc, Received
<1>2. PICK n \in 0 .. NRx : /\ engine.rx = RxSlot(n)
                            /\ \A k \in RxSlots : rxOwn[RxSlot(k)] = (k >= n)
  BY DEF RxState
<1>3. n > 0
  <2>1. 0 \in RxSlots
    BY <1>1 DEF RxSlots
  <2> QED
    BY <1>1, <1>2, <2>1, ReceiveSlots
<1>4. rx_desc_head' = RxSlot(1) /\ rx_desc_head' \in RxSlots
  BY <1>1, ReceiveSlots DEF RxSlot
<1> DEFINE Slot(k) == (rx_desc_head' + k) % NRx
<1>5. \A k \in 0 .. NRx - 1 : Slot(k) = RxSlot(k + 1)
  <2>1. \A k \in 0 .. NRx :
          Slot(k) = IF rx_desc_head' + k < NRx THEN rx_desc_head' + k
                    ELSE rx_desc_head' + k - NRx
    BY <1>1, <1>4, Around DEF RxSlots
  <2>2. \A k \in 0 .. NRx :
          RxSlot(k) = IF rx_desc_head + k < NRx THEN rx_desc_head + k
                      ELSE rx_desc_head + k - NRx
    BY <1>1, ReceiveSlots
  <2>3. rx_desc_head' = IF rx_desc_head + 1 < NRx THEN rx_desc_head + 1
                        ELSE rx_desc_head + 1 - NRx
    BY <1>1, <1>4, <2>2
  <2> SUFFICES ASSUME NEW k \in 0 .. NRx - 1 PROVE Slot(k) = RxSlot(k + 1)
    OBVIOUS
  <2>4. k \in 0 .. NRx /\ k + 1 \in 0 .. NRx /\ rx_desc_head \in 0 .. NRx - 1
    BY <1>1 DEF RxSlots
  <2>5. /\ Slot(k) = IF rx_desc_head' + k < NRx THEN rx_desc_head' + k
                     ELSE rx_desc_head' + k - NRx
        /\ RxSlot(k + 1) = IF rx_desc_head + (k + 1) < NRx THEN rx_desc_head + (k + 1)
                           ELSE rx_desc_head + (k + 1) - NRx
    BY <2>1, <2>2, <2>4
  <2>6. NRx \in Nat
    BY <1>1
  <2> HIDE DEF Slot
  <2> QED
    BY <2>3, <2>4, <2>5, <2>6
<1>6. engine'.rx = Slot(n - 1)
  <2>1. n - 1 \in 0 .. NRx - 1 /\ n - 1 + 1 = n
    BY <1>1, <1>3
  <2>2. Slot(n - 1) = RxSlot(n - 1 + 1)
    BY <1>5, <2>1
  <2> QED
    BY <1>2, <2>1, <2>2
<1>7. ASSUME NEW k \in RxSlots PROVE rxOwn'[Slot(k)] = (k >= n - 1)
  <2>1. Slot(k) = RxSlot(k + 1) /\ k + 1 \in 0 .. NRx
    <3>1. k \in 0 .. NRx - 1 /\ NRx \in Nat
      BY <1>1 DEF RxSlots
    <3>2. Slot(k) = RxSlot(k + 1)
      BY <1>5, <3>1
    <3> QED
      BY <3>1, <3>2
  <2>2. CASE k = NRx - 1
    <3>1. Slot(k) = rx_desc_head
      BY <1>1, <2>1, <2>2, ReceiveSlots
    <3>2. rxOwn'[Slot(k)] = TRUE
      BY <1>1, <3>1
    <3>3. (k >= n - 1) = TRUE
      BY <1>1, <2>2
    <3> QED
      BY <3>2, <3>3
  <2>3. CASE k # NRx - 1
    <3>1. k + 1 \in RxSlots /\ 0 \in RxSlots /\ k + 1 # 0
      BY <1>1, <2>3 DEF RxSlots
    <3>2. RxSlot(k + 1) # rx_desc_head /\ RxSlot(k + 1) \in RxSlots
      BY <1>1, <2>1, <3>1, ReceiveSlots
    <3>3. rxOwn'[RxSlot(k + 1)] = (k + 1 >= n)
      BY <1>1, <1>2, <3>1, <3>2
    <3>4. (k + 1 >= n) = (k >= n - 1)
      BY DEF RxSlots
    <3> QED
      BY <2>1, <3>3, <3>4
  <2> QED
    BY <2>2, <2>3
<1>8. n - 1 \in 0 .. NRx
  BY <1>1, <1>3
<1> QED
  BY <1>6, <1>7, <1>8 DEF RxState, RxSlot

(* The engine stores a frame.                                              *)
LEMMA ReceiveState ==
  ASSUME BufferInv, RxState, EngineReceive
  PROVE  RxState'
<1>1. /\ rx_desc_head \in RxSlots /\ rxOwn \in [RxSlots -> BOOLEAN]
      /\ rxOwn' = [rxOwn EXCEPT ![engine.rx] = FALSE] /\ rxOwn[engine.rx]
      /\ rx_desc_head' = rx_desc_head /\ NRx \in Nat \ {0}
      /\ engine \in [tx : TxSlots, todo : 0 .. NTx, rx : RxSlots]
      /\ engine' = [engine EXCEPT !.rx = (@ + 1) % NRx]
  BY XgmacAssumption DEF BufferInv, TypeOK, XgmacTypeOK, EngineReceive
<1>2. engine'.rx = (engine.rx + 1) % NRx /\ engine.rx \in RxSlots
  BY <1>1
<1>3. PICK n \in 0 .. NRx : /\ engine.rx = RxSlot(n)
                            /\ \A k \in RxSlots : rxOwn[RxSlot(k)] = (k >= n)
  BY DEF RxState
<1>4. n \in RxSlots
  <2>1. CASE n = NRx
    <3>1. 0 \in RxSlots /\ ~(0 >= n)
      BY <1>1, <2>1 DEF RxSlots
    <3>2. ~rxOwn[RxSlot(0)] /\ RxSlot(0) = RxSlot(NRx)
      BY <1>1, <1>3, <3>1, ReceiveSlots
    <3> QED
      BY <1>1, <1>3, <2>1, <3>2
  <2> QED
    BY <1>1, <2>1 DEF RxSlots
<1>5. engine'.rx = RxSlot(n + 1)
  <2>1. \A k \in 0 .. NRx :
          RxSlot(k) = IF rx_desc_head + k < NRx THEN rx_desc_head + k
                      ELSE rx_desc_head + k - NRx
    BY <1>1, ReceiveSlots
  <2>2. (engine.rx + 1) % NRx = IF engine.rx + 1 < NRx THEN engine.rx + 1
                                ELSE engine.rx + 1 - NRx
    <3>1. 1 \in 0 .. NRx /\ engine.rx \in 0 .. NRx - 1
      BY <1>1, <1>2 DEF RxSlots
    <3> QED
      BY <1>1, <3>1, Around
  <2>3. n \in 0 .. NRx - 1 /\ rx_desc_head \in 0 .. NRx - 1
    BY <1>1, <1>4 DEF RxSlots
  <2>4. /\ RxSlot(n) = IF rx_desc_head + n < NRx THEN rx_desc_head + n
                       ELSE rx_desc_head + n - NRx
        /\ RxSlot(n + 1) = IF rx_desc_head + (n + 1) < NRx THEN rx_desc_head + (n + 1)
                           ELSE rx_desc_head + (n + 1) - NRx
    BY <1>1, <2>1, <2>3
  <2>5. engine.rx = RxSlot(n) /\ engine'.rx = (engine.rx + 1) % NRx
    BY <1>2, <1>3
  <2>6. NRx \in Nat
    BY <1>1
  <2> QED
    BY <2>2, <2>3, <2>4, <2>5, <2>6
<1>6. ASSUME NEW k \in RxSlots PROVE rxOwn'[RxSlot(k)] = (k >= n + 1)
  <2>1. RxSlot(k) \in RxSlots /\ (RxSlot(k) = RxSlot(n) <=> k = n)
    <3>1. k \in 0 .. NRx
      BY <1>1 DEF RxSlots
    <3>2. RxSlot(k) \in RxSlots
      BY <1>1, <3>1, ReceiveSlots
    <3>3. RxSlot(k) = RxSlot(n) => k = n
      BY <1>1, <1>4, ReceiveSlots
    <3> QED
      BY <3>2, <3>3
  <2>2. rxOwn[RxSlot(k)] = (k >= n)
    BY <1>3
  <2>3. CASE k = n
    <3>1. rxOwn'[RxSlot(k)] = FALSE
      BY <1>1, <1>3, <2>1, <2>3
    <3>2. (k >= n + 1) = FALSE
      BY <2>3 DEF RxSlots
    <3> QED
      BY <3>1, <3>2
  <2>4. CASE k # n
    <3>1. rxOwn'[RxSlot(k)] = rxOwn[RxSlot(k)]
      BY <1>1, <1>3, <2>1, <2>4
    <3>2. (k >= n + 1) = (k >= n)
      BY <2>4 DEF RxSlots
    <3> QED
      BY <2>2, <3>1, <3>2
  <2> QED
    BY <2>3, <2>4
<1>7. n + 1 \in 0 .. NRx /\ \A k : RxSlot(k)' = RxSlot(k)
  BY <1>1, <1>4 DEF RxSlots, RxSlot
<1> QED
  BY <1>5, <1>6, <1>7 DEF RxState

(* A step that leaves the receive ring alone and forgets no event.         *)
LEMMA RxQuiet ==
  ASSUME RxInv, UNCHANGED <<rxOwn, rx_desc_head>>, engine'.rx = engine.rx,
         iface' # "down" => iface # "down",
         merged => merged', FrameKnown => FrameKnown' \/ merged',
         \/ task'[Emac].pc # "rxget"
         \/ task'[Emac] = task[Emac] /\ events' = events
         \/ Received /\ "RX" \in events'
  PROVE  RxInv'
<1>1. RxState => RxState'
  BY DEF RxState, RxSlot
<1> QED
  BY <1>1 DEF RxInv, Received, At

(* Every step keeps the receive ring; the frames that lie in it stay known.*)
LEMMA NextReceive ==
  BufferInv /\ RxInv /\ [Next]_vars => RxInv'
<1> SUFFICES ASSUME BufferInv, RxInv, [Next]_vars PROVE RxInv'
  OBVIOUS
<1>1. CASE InitialiseDma
  <2>1. /\ rxOwn' = [i \in RxSlots |-> rxUsed = 0] /\ rx_desc_head' = 0
        /\ engine'.rx = 0 /\ (iface' # "down" => rxUsed = 0)
        /\ 0 \in RxSlots /\ NRx \in Nat \ {0} /\ task'[Emac].pc = "wait"
    BY <1>1, XgmacAssumption
    DEF InitialiseDma, XgmacReset, RxSlots, BufferInv, Locations
  <2>2. ASSUME iface' # "down" PROVE RxState' /\ ~Received'
    <3>1. \A i \in RxSlots : rxOwn'[i] = TRUE
      BY <2>1, <2>2
    <3>2. ASSUME NEW k \in RxSlots
          PROVE  rxOwn'[(rx_desc_head' + k) % NRx] = (k >= 0)
      <4>1. (rx_desc_head' + k) % NRx = k
        BY <2>1 DEF RxSlots
      <4>2. (k >= 0) = TRUE
        BY DEF RxSlots
      <4> QED
        BY <3>1, <4>1, <4>2
    <3>3. engine'.rx = (rx_desc_head' + 0) % NRx /\ 0 \in 0 .. NRx
      BY <2>1
    <3> QED
      BY <2>1, <3>1, <3>2, <3>3 DEF RxState, RxSlot, Received
  <2> QED
    BY <2>1, <2>2 DEF RxInv, At
<1>2. CASE InitialiseWait \/ PhyFlap \/ IpTask
  BY <1>2, RxQuiet
  DEF InitialiseWait, PhyFlap, IpTask, rxVars, hwVars, FrameKnown
<1>3. ASSUME NEW t \in Callers, SendGet(t) \/ Send(t) PROVE RxInv'
  <2>1. Emac \in Tasks /\ t # Emac /\ t \in Tasks /\ task \in [Tasks -> Calls]
    BY XgmacAssumption DEF Tasks, BufferInv, TypeOK
  <2>2. /\ UNCHANGED <<rxVars, status, merged, notes, events, iface>>
        /\ engine'.rx = engine.rx
    <3>1. CASE SendGet(t) \/ SendGot(t) \/ ReleaseFirst(t) \/ ReleaseLast(t)
      BY <3>1 DEF SendGet, SendGot, ReleaseFirst, ReleaseLast, niVars, hwVars
    <3>2. CASE \E rel \in BOOLEAN : Output(t, rel)
      BY <3>2 DEF Output, hwVars
    <3>3. CASE Transmit(t)
      <4>1. CASE TransmitKick(t)
        <5>1. engine \in [tx : TxSlots, todo : 0 .. NTx, rx : RxSlots]
          BY DEF BufferInv, TypeOK, XgmacTypeOK
        <5> QED
          BY <3>3, <4>1, <5>1 DEF Transmit, TransmitKick
      <4>2. CASE TransmitSem(t) \/ TransmitFill(t) \/ TransmitHead(t)
        BY <3>3, <4>2 DEF Transmit, TransmitSem, TransmitFill, TransmitHead, hwVars
      <4> QED
        BY <3>3, <4>1, <4>2 DEF Transmit
    <3> QED
      BY <1>3, <3>1, <3>2, <3>3 DEF Send
  <2>3. task'[Emac] = task[Emac]
    <3>1. CASE SendGet(t) \/ SendGot(t) \/ ReleaseFirst(t) \/ ReleaseLast(t)
      BY <2>1, <3>1 DEF SendGet, SendGot, ReleaseFirst, ReleaseLast, Goto
    <3>2. CASE \E rel \in BOOLEAN : Output(t, rel)
      BY <2>1, <3>2 DEF Output, Goto
    <3>3. CASE Transmit(t)
      BY <2>1, <3>3
      DEF Transmit, TransmitSem, TransmitFill, TransmitHead, TransmitKick, Goto
    <3> QED
      BY <1>3, <3>1, <3>2, <3>3 DEF Send
  <2> QED
    BY <2>2, <2>3, RxQuiet DEF rxVars, FrameKnown
<1>4. CASE EmacStep
  <2>1. Emac \in Tasks /\ task \in [Tasks -> Calls]
    BY DEF Tasks, BufferInv, TypeOK
  <2>2. CASE InputDrop \/ InputCopy
    <3>1. /\ iface = "up" /\ Received /\ xgmac_refill_rx_desc /\ UNCHANGED iface
          /\ engine'.rx = engine.rx
      <4>1. iface = "up" /\ engine' = engine /\ UNCHANGED iface
        BY <2>2 DEF InputDrop, InputCopy, BufferInv, Locations, At, hwVars, niVars
      <4> QED
        BY <2>2, <4>1 DEF InputDrop, InputCopy, RxInv
    <3>2. "RX" \in events' /\ task'[Emac].pc = "rx"
      <4>1. CASE InputDrop
        BY <4>1 DEF InputDrop, At, niVars
      <4>2. CASE InputCopy
        BY <2>1, <3>1, <4>2 DEF InputCopy, At, Goto, RxInv
      <4> QED
        BY <2>2, <4>1, <4>2
    <3> QED
      BY <3>1, <3>2, RefillState DEF RxInv, FrameKnown, At
  <2>3. CASE InputEnd
    <3>1. /\ UNCHANGED <<rxOwn, rx_desc_head, status, merged, notes, iface>>
          /\ engine'.rx = engine.rx /\ ("RX" \in events => ~Received)
      BY <2>3 DEF InputEnd, rxVars, hwVars
    <3>2. (RxState => RxState') /\ Received' = Received
      BY <3>1 DEF RxState, RxSlot, Received
    <3>3. task'[Emac].pc # "rxget"
      BY <2>1, <2>3 DEF InputEnd, Goto
    <3> QED
      BY <3>1, <3>2, <3>3 DEF RxInv, FrameKnown, At
  <2>4. CASE EmacWait
    <3>1. /\ UNCHANGED <<rxOwn, rx_desc_head, status, merged, iface>>
          /\ engine'.rx = engine.rx /\ events' = notes
          /\ task'[Emac].pc = "rx" /\ task[Emac].pc = "wait"
      BY <2>1, <2>4 DEF EmacWait, rxVars, hwVars, Goto, At
    <3> QED
      BY <3>1, RxQuiet DEF FrameKnown
  <2>5. CASE InputTake
    <3>1. /\ UNCHANGED <<rxOwn, rx_desc_head, status, merged, notes, iface, events>>
          /\ engine'.rx = engine.rx /\ task'[Emac].pc = "rxget"
          /\ Received /\ "RX" \in events'
      BY <2>1, <2>5 DEF InputTake, rxVars, hwVars, niVars, Goto
    <3> QED
      BY <3>1, RxQuiet DEF FrameKnown
  <2>6. CASE \/ Deliver \/ OutDone \/ TxDone \/ ReleaseTx \/ HandleError
             \/ \E expired \in BOOLEAN : PhyTimer(expired)
    <3>1. /\ UNCHANGED <<rxOwn, rx_desc_head, status, merged, notes, iface>>
          /\ engine'.rx = engine.rx
      BY <2>6
      DEF Deliver, Pass, PassFull, DropFirst, DropLast, OutDone, DoneIndices,
          TxDone, DoneCount, DoneBody, ReleaseTx, HandleError, PhyTimer, rxVars,
          hwVars, niVars
    <3>2. task[Emac].pc \notin {"rx", "rxget"}
      BY <2>6
      DEF Deliver, Pass, PassFull, DropFirst, DropLast, OutDone, TxDone,
          DoneCount, DoneBody, ReleaseTx, HandleError, PhyTimer, At
    <3>3. task'[Emac].pc # "rxget"
      <4>1. CASE Deliver
        <5>1. CASE Pass
          BY <2>1, <5>1 DEF Pass, Goto
        <5>2. CASE PassFull
          BY <2>1, <5>2 DEF PassFull, Goto
        <5>3. CASE DropFirst
          BY <2>1, <5>3 DEF DropFirst, Goto
        <5>4. CASE DropLast
          BY <2>1, <5>4 DEF DropLast, Goto
        <5> QED
          BY <4>1, <5>1, <5>2, <5>3, <5>4 DEF Deliver
      <4>2. CASE OutDone
        BY <2>1, <4>2 DEF OutDone, DoneIndices, Goto, Calls
      <4>3. CASE TxDone
        BY <2>1, <4>3 DEF TxDone, DoneCount, DoneBody, Goto, Calls
      <4>4. CASE ReleaseTx \/ \E expired \in BOOLEAN : PhyTimer(expired)
        BY <2>1, <4>4 DEF ReleaseTx, PhyTimer, NoTask
      <4>5. CASE HandleError
        BY <2>1, <4>5 DEF HandleError, Goto
      <4> QED
        BY <2>6, <4>1, <4>2, <4>3, <4>4, <4>5
    <3> QED
      BY <3>1, <3>2, <3>3, RxQuiet DEF FrameKnown
  <2> QED
    BY <1>4, <2>2, <2>3, <2>4, <2>5, <2>6 DEF EmacStep, Input
<1>5. CASE Isr
  <2>1. /\ UNCHANGED <<rxOwn, rx_desc_head, iface, events, task>>
        /\ engine'.rx = engine.rx /\ (merged => merged')
    BY <1>5 DEF Isr, rxVars
  <2>2. "RX" \in notes => "RX" \in notes'
    BY <1>5 DEF Isr
  <2>3. "RI" \in status => "RX" \in notes' \/ merged'
    <3>1. CASE "TI" \in status
      BY <1>5, <3>1 DEF Isr
    <3>2. CASE "TI" \notin status /\ "RI" \in status
      BY <1>5, <3>2 DEF Isr, Reported
    <3> QED
      BY <3>1, <3>2
  <2> QED
    BY <2>1, <2>2, <2>3, RxQuiet DEF FrameKnown
<1>6. CASE EngineSend
  <2>1. engine \in [tx : TxSlots, todo : 0 .. NTx, rx : RxSlots]
    BY DEF BufferInv, TypeOK, XgmacTypeOK
  <2>2. /\ UNCHANGED <<rxOwn, rx_desc_head, iface, notes, events, task>>
        /\ engine'.rx = engine.rx /\ (merged => merged') /\ status \subseteq status'
    BY <1>6, <2>1 DEF EngineSend, EngineTransmit, Raise, rxVars, niVars
  <2> QED
    BY <2>2, RxQuiet DEF FrameKnown
<1>7. CASE Frame
  <2>1. CASE EngineReceive
    <3>1. FrameKnown' /\ UNCHANGED <<iface, task, events>>
      BY <1>7, <2>1 DEF Frame, EngineReceive, Raise, FrameKnown
    <3>2. Received => Received'
      <4>1. rx_desc_head' = rx_desc_head /\ rxOwn' = [rxOwn EXCEPT ![engine.rx] = FALSE]
        BY <2>1 DEF EngineReceive
      <4>2. rx_desc_head \in RxSlots /\ rxOwn \in [RxSlots -> BOOLEAN]
        BY DEF BufferInv, TypeOK, XgmacTypeOK
      <4> QED
        BY <4>1, <4>2 DEF Received
    <3> QED
      BY <2>1, <3>1, <3>2, ReceiveState DEF RxInv, At
  <2>2. CASE EngineOverrun
    <3>1. /\ UNCHANGED <<rxOwn, rx_desc_head, iface, notes, events, task, engine>>
          /\ (merged => merged') /\ status \subseteq status'
      BY <1>7, <2>2 DEF Frame, EngineOverrun, Raise, rxVars
    <3> QED
      BY <3>1, RxQuiet DEF FrameKnown
  <2> QED
    BY <1>7, <2>1, <2>2 DEF Frame
<1>8. CASE UNCHANGED vars
  BY <1>8, RxQuiet DEF vars, rxVars, hwVars, niVars, FrameKnown
<1> QED
  BY <1>1, <1>2, <1>3, <1>4, <1>5, <1>6, <1>7, <1>8 DEF Next

-----------------------------------------------------------------------------
(* The invariant holds in every reachable state: the rings, the semaphore, *)
(* the tokens and the two sets of buffers agree with where the callers,    *)
(* the handler task, the engine and the IP task are.                       *)
THEOREM Invariance == Spec => []IInv
<1>1. Init => IInv
  BY InitBuffers DEF Init, IInv, RxInv
<1>2. IInv /\ [Next]_vars => IInv'
  BY NextBuffers, NextReceive DEF IInv
<1> QED
  BY <1>1, <1>2, PTL DEF Spec

(* However many callers send, and in whatever order transmit, tx_done and  *)
(* the two pool functions interleave: a transmit buffer is in one place.   *)
THEOREM TxBuffers == Spec => []TxBuffersAccounted
<1>1. IInv => TxBuffersAccounted
  BY DEF IInv, BufferInv
<1> QED
  BY <1>1, Invariance, PTL

(* xgmac_dma_tx_done finds a descriptor that the engine is done with, and  *)
(* none of the early exits that leave a mutex or a buffer behind is taken. *)
THEOREM TxDoneIsSafe == Spec => []TxDoneSafe
<1>1. IInv => TxDoneSafe
  <2> SUFFICES ASSUME BufferInv PROVE TxDoneSafe
    BY DEF IInv
  <2>1. tx_mutex # Emac /\ ~refused
    BY DEF BufferInv, MutexExact
  <2>2. ASSUME At(Emac, "locked")
        PROVE  LET d == txRing[task[Emac].tail] IN ~d.own /\ d.buf # None
    <3>1. task[Emac].pc = "locked"
      BY <2>2 DEF At
    <3> QED
      BY <3>1, DoneDescriptor, BufsNotNone
  <2> QED
    BY <2>1, <2>2 DEF TxDoneSafe
<1> QED
  BY <1>1, Invariance, PTL

(* Network buffers are where their semaphore and list say, or with those   *)
(* who hold them.                                                          *)
THEOREM NetworkBuffers == Spec => []NetworkBuffersAccounted
<1>1. IInv => NetworkBuffersAccounted
  BY DEF IInv, BufferInv
<1> QED
  BY <1>1, Invariance, PTL

(* A frame in any descriptor of the receive ring will be fetched, unless   *)
(* its interrupt was served together with another: the head of the ring,   *)
(* the only place that the handler task looks at, is where the oldest is.  *)
THEOREM FramesKnown == Spec => []NoFrameForgotten
<1>1. IInv => NoFrameForgotten
  BY FramesInOrder DEF IInv, RxInv, NoFrameForgotten
<1> QED
  BY <1>1, Invariance, PTL
=============================================================================
