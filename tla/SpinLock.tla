------------------------------ MODULE SpinLock ------------------------------
(***************************************************************************)
(* The SMP spin lock of the AArch64 port: vGetLock and vReleaseLock in     *)
(* FreeRTOS/portable/GCC/ARM_AARCH64/port.c, one lock of xSpinLocks, at    *)
(* the level of single memory accesses.  A core spins with                 *)
(*     sevl; 1: wfe; ldaxr; cbnz 1b; stxr; cbnz 1b                         *)
(* so whether it ever wakes up depends on the exclusive monitor and on the *)
(* event register of the core, which are part of the state.                *)
(*                                                                         *)
(* pc[c] = "out" means that core c is in neither function.  hold[c] is a   *)
(* history variable: the calls of vGetLock that returned on core c minus   *)
(* the releases that core c has committed to (the decrement of             *)
(* ulRecurCount).                                                          *)
(***************************************************************************)
EXTENDS Naturals

CONSTANTS
  Cores,    \* core indices, 0 .. configNUMBER_OF_CORES - 1 in the code
  NoOwner,  \* 0xFFFFFFFF, the owner id of a free lock
  MaxNest   \* bound on the nesting of vGetLock on one core

ASSUME NoOwnerAssumption == NoOwner \notin Cores
ASSUME MaxNestAssumption == MaxNest \in Nat \ {0}

VARIABLES
  ulLock,        \* SpinLock_t.ulLock, the word the exclusives work on
  ulOwnerId,     \* SpinLock_t.ulOwnerId
  ulRecurCount,  \* SpinLock_t.ulRecurCount
  pc,            \* the next access of each core
  mon,           \* exclusive monitor of each core, armed by ldaxr
  evt,           \* event register of each core, tested by wfe
  hold           \* history: nesting depth of the lock on each core

vars == <<ulLock, ulOwnerId, ulRecurCount, pc, mon, evt, hold>>

Locations == {"out", "sevl", "wfe", "ldaxr", "stxr", "owner", "count",
              "dec", "clear", "stlr"}

TypeOK ==
  /\ ulLock \in {0, 1}
  /\ ulOwnerId \in Cores \cup {NoOwner}
  /\ ulRecurCount \in Nat
  /\ pc \in [Cores -> Locations]
  /\ mon \in [Cores -> BOOLEAN]
  /\ evt \in [Cores -> BOOLEAN]
  /\ hold \in [Cores -> 0 .. MaxNest]

Init ==
  /\ ulLock = 0
  /\ ulOwnerId = NoOwner
  /\ ulRecurCount = 0
  /\ pc = [c \in Cores |-> "out"]
  /\ mon = [c \in Cores |-> FALSE]
  /\ evt = [c \in Cores |-> FALSE]
  /\ hold = [c \in Cores |-> 0]

Goto(c, to) == pc' = [pc EXCEPT ![c] = to]

(* A store to the lock word disarms every monitor; the architecture sets   *)
(* the event register of a core whose monitor another core's store clears. *)
StoreLock(c, v) ==
  /\ ulLock' = v
  /\ mon' = [d \in Cores |-> FALSE]
  /\ evt' = [d \in Cores |-> evt[d] \/ (mon[d] /\ d # c)]

-----------------------------------------------------------------------------
(* vGetLock: the owner test.  The owner nests; any other core spins.       *)
vGetLock(c) ==
  /\ pc[c] = "out" /\ hold[c] < MaxNest
  /\ IF ulOwnerId = c
       THEN /\ ulRecurCount' = ulRecurCount + 1
            /\ hold' = [hold EXCEPT ![c] = @ + 1]
            /\ UNCHANGED pc
       ELSE /\ Goto(c, "sevl")
            /\ UNCHANGED <<ulRecurCount, hold>>
  /\ UNCHANGED <<ulLock, ulOwnerId, mon, evt>>

(* Mutant: the loop is entered without sevl.                               *)
SevlMissing(c) ==
  /\ pc[c] = "sevl" /\ Goto(c, "wfe")
  /\ UNCHANGED <<ulLock, ulOwnerId, ulRecurCount, mon, evt, hold>>

Sevl(c) ==
  /\ pc[c] = "sevl" /\ Goto(c, "wfe")
  /\ evt' = [evt EXCEPT ![c] = TRUE]
  /\ UNCHANGED <<ulLock, ulOwnerId, ulRecurCount, mon, hold>>

(* wfe sleeps until the event register is set, and clears it.              *)
Wfe(c) ==
  /\ pc[c] = "wfe" /\ evt[c] /\ Goto(c, "ldaxr")
  /\ evt' = [evt EXCEPT ![c] = FALSE]
  /\ UNCHANGED <<ulLock, ulOwnerId, ulRecurCount, mon, hold>>

(* Mutant: the branch on the loaded value tests only the store's status.   *)
LdaxrIgnoresValue(c) ==
  /\ pc[c] = "ldaxr" /\ Goto(c, "stxr")
  /\ mon' = [mon EXCEPT ![c] = TRUE]
  /\ UNCHANGED <<ulLock, ulOwnerId, ulRecurCount, evt, hold>>

Ldaxr(c) ==
  /\ pc[c] = "ldaxr" /\ Goto(c, IF ulLock = 0 THEN "stxr" ELSE "wfe")
  /\ mon' = [mon EXCEPT ![c] = TRUE]
  /\ UNCHANGED <<ulLock, ulOwnerId, ulRecurCount, evt, hold>>

(* Mutant: the status of stxr is not tested.                               *)
StxrUnchecked(c) ==
  /\ pc[c] = "stxr"
  /\ IF mon[c] THEN StoreLock(c, 1) ELSE UNCHANGED <<ulLock, mon, evt>>
  /\ Goto(c, "owner")
  /\ UNCHANGED <<ulOwnerId, ulRecurCount, hold>>

(* The exclusive store succeeds only while the monitor is still armed.     *)
Stxr(c) ==
  /\ pc[c] = "stxr"
  /\ IF mon[c] THEN StoreLock(c, 1) /\ Goto(c, "owner")
               ELSE Goto(c, "wfe") /\ UNCHANGED <<ulLock, mon, evt>>
  /\ UNCHANGED <<ulOwnerId, ulRecurCount, hold>>

SetOwner(c) ==
  /\ pc[c] = "owner" /\ Goto(c, "count")
  /\ ulOwnerId' = c
  /\ UNCHANGED <<ulLock, ulRecurCount, mon, evt, hold>>

(* The last store of vGetLock; the call returns.                           *)
SetCount(c) ==
  /\ pc[c] = "count" /\ Goto(c, "out")
  /\ ulRecurCount' = 1
  /\ hold' = [hold EXCEPT ![c] = 1]
  /\ UNCHANGED <<ulLock, ulOwnerId, mon, evt>>

-----------------------------------------------------------------------------
(* Mutant: the owner test is missing.                                      *)
vReleaseLockAnyCore(c) ==
  /\ pc[c] = "out" /\ Goto(c, "dec")
  /\ UNCHANGED <<ulLock, ulOwnerId, ulRecurCount, mon, evt, hold>>

(* vReleaseLock: a core that is not the owner returns 1 at once.           *)
vReleaseLock(c) ==
  /\ pc[c] = "out"
  /\ IF ulOwnerId # c THEN UNCHANGED pc ELSE Goto(c, "dec")
  /\ UNCHANGED <<ulLock, ulOwnerId, ulRecurCount, mon, evt, hold>>

(* Mutant: the nested release frees the lock one call early.               *)
DecrementOffByOne(c) ==
  /\ pc[c] = "dec"
  /\ ulRecurCount' = ulRecurCount - 1
  /\ Goto(c, IF ulRecurCount' > 1 THEN "out" ELSE "clear")
  /\ hold' = [hold EXCEPT ![c] = @ - 1]
  /\ UNCHANGED <<ulLock, ulOwnerId, mon, evt>>

(* Mutant: >= in place of > never frees the lock.                          *)
DecrementNeverFrees(c) ==
  /\ pc[c] = "dec"
  /\ ulRecurCount' = ulRecurCount - 1
  /\ Goto(c, IF ulRecurCount' >= 0 THEN "out" ELSE "clear")
  /\ hold' = [hold EXCEPT ![c] = @ - 1]
  /\ UNCHANGED <<ulLock, ulOwnerId, mon, evt>>

(* --ulRecurCount > 0 returns with the lock still held.                    *)
Decrement(c) ==
  /\ pc[c] = "dec"
  /\ ulRecurCount' = ulRecurCount - 1
  /\ Goto(c, IF ulRecurCount' > 0 THEN "out" ELSE "clear")
  /\ hold' = [hold EXCEPT ![c] = @ - 1]
  /\ UNCHANGED <<ulLock, ulOwnerId, mon, evt>>

(* Mutant: the owner id is not reset before the stlr.                      *)
ClearOwnerMissing(c) ==
  /\ pc[c] = "clear" /\ Goto(c, "stlr")
  /\ UNCHANGED <<ulLock, ulOwnerId, ulRecurCount, mon, evt, hold>>

ClearOwner(c) ==
  /\ pc[c] = "clear" /\ Goto(c, "stlr")
  /\ ulOwnerId' = NoOwner
  /\ UNCHANGED <<ulLock, ulRecurCount, mon, evt, hold>>

Stlr(c) ==
  /\ pc[c] = "stlr" /\ Goto(c, "out")
  /\ StoreLock(c, 0)
  /\ UNCHANGED <<ulOwnerId, ulRecurCount, hold>>

(* An interrupt above the masked priorities may hit a spinning core; the   *)
(* exception return clears the local monitor and sets the event register.  *)
ExceptionReturn(c) ==
  /\ pc[c] \in {"wfe", "ldaxr", "stxr"}
  /\ mon' = [mon EXCEPT ![c] = FALSE]
  /\ evt' = [evt EXCEPT ![c] = TRUE]
  /\ UNCHANGED <<ulLock, ulOwnerId, ulRecurCount, pc, hold>>

-----------------------------------------------------------------------------
Spinning(c) == Sevl(c) \/ Wfe(c) \/ Ldaxr(c) \/ Stxr(c)

InCall(c) == \/ Spinning(c) \/ SetOwner(c) \/ SetCount(c)
             \/ Decrement(c) \/ ClearOwner(c) \/ Stlr(c)

Next == \E c \in Cores :
          vGetLock(c) \/ vReleaseLock(c) \/ InCall(c) \/ ExceptionReturn(c)

(* A core executes the next instruction of the function it is in, and a    *)
(* core that holds the lock eventually makes its outermost release: every  *)
(* portGET_*_LOCK of the kernel is paired with a portRELEASE_*_LOCK.       *)
(* Interrupts do not hit the two instructions from ldaxr to stxr every     *)
(* time; a store of another core may, and nothing is assumed of it.        *)
Fairness ==
  /\ \A c \in Cores : /\ WF_vars(InCall(c))
                      /\ WF_vars(vReleaseLock(c))
                      /\ SF_vars(vReleaseLock(c) /\ ulRecurCount = 1)
  /\ SF_vars(\E c \in Cores : Stxr(c) /\ mon[c])

Spec == Init /\ [][Next]_vars
FairSpec == Spec /\ Fairness

-----------------------------------------------------------------------------
(* The core that is past the successful stxr and before the stlr.          *)
Holder(c) == hold[c] > 0 \/ pc[c] \in {"owner", "count", "clear", "stlr"}

(* What FreeRTOS and newlib rely on when they take a lock from port.c: two *)
(* cores never both have a call of vGetLock that returned and is not yet   *)
(* released.                                                               *)
MutualExclusion ==
  \A c, d \in Cores : hold[c] > 0 /\ hold[d] > 0 => c = d

(* ulOwnerId and ulRecurCount are read without the lock word (the first    *)
(* tests of vGetLock and vReleaseLock), so they have to be right at every  *)
(* instant: they name core c exactly from its store to its store of        *)
(* 0xFFFFFFFF, and count exactly the acquisitions it has not given back.   *)
OwnerExact ==
  \A c \in Cores :
    /\ ulOwnerId = c <=> hold[c] > 0 \/ pc[c] \in {"count", "clear"}
    /\ hold[c] > 0 => ulRecurCount = hold[c]

(* A core asleep in wfe with its event register clear still watches a lock *)
(* word that is taken: no release can slip in between ldaxr and wfe and    *)
(* leave the core asleep beside a free lock.                               *)
NoLostWakeup ==
  \A c \in Cores : pc[c] = "wfe" /\ ~evt[c] => mon[c] /\ ulLock = 1

(* Every sleep in wfe ends, whatever the other cores do meanwhile.         *)
Wakeup == \A c \in Cores : pc[c] = "wfe" ~> pc[c] # "wfe"

(* While some core spins in vGetLock, some core's stxr eventually          *)
(* succeeds: the retries on a failed stxr cannot livelock, although the    *)
(* lock is not fair between the cores that compete for it.                 *)
SomebodyGetsIt ==
  (\E c \in Cores : pc[c] \in {"sevl", "wfe", "ldaxr", "stxr"})
    ~> (\E c \in Cores : pc[c] = "owner")

(* The lock as its callers see it.  A release takes effect for them at the *)
(* decrement, an acquisition when vGetLock stores the count.               *)
RL == INSTANCE RecursiveLock WITH
        owner <- IF \E c \in Cores : hold[c] > 0
                   THEN CHOOSE c \in Cores : hold[c] > 0 ELSE NoOwner,
        count <- IF \E c \in Cores : hold[c] > 0
                   THEN hold[CHOOSE c \in Cores : hold[c] > 0] ELSE 0

(* vGetLock and vReleaseLock implement the atomic recursive lock.          *)
ImplementsRecursiveLock == RL!Spec

-----------------------------------------------------------------------------
(* The inductive invariant behind the properties above.                    *)
OneHolder ==
  /\ \A c \in Cores : Holder(c) => ulLock = 1
  /\ \A c, d \in Cores : Holder(c) /\ Holder(d) => c = d

(* Where a call is, given the nesting of its core.                         *)
CallState ==
  \A c \in Cores :
    /\ pc[c] \notin {"out", "dec"} => hold[c] = 0
    /\ pc[c] = "dec" => hold[c] > 0

(* What the monitor and the event register of a spinning core know.        *)
MonitorState ==
  \A c \in Cores :
    pc[c] = "stxr" => IF mon[c] THEN ulLock = 0 ELSE evt[c]

IInv == TypeOK /\ OneHolder /\ CallState /\ OwnerExact /\ MonitorState
          /\ NoLostWakeup
=============================================================================
