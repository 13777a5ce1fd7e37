--------------------------- MODULE SpinLockProofs ---------------------------
(***************************************************************************)
(* Proofs about SpinLock for any set of cores and any nesting bound: the   *)
(* inductive invariant IInv, mutual exclusion, the absence of lost         *)
(* wakeups, and that the instruction sequences implement RecursiveLock.    *)
(***************************************************************************)
EXTENDS SpinLock, TLAPS

(* The lock is free, no call is under way: the invariant holds initially.  *)
LEMMA InitIInv == Init => IInv
BY NoOwnerAssumption, MaxNestAssumption
   DEF Init, IInv, TypeOK, Locations, OneHolder, Holder, CallState,
       OwnerExact, MonitorState, NoLostWakeup

(* Types are preserved by every access of vGetLock and vReleaseLock; the   *)
(* nesting stays in range because the counter agrees with it (OwnerExact). *)
LEMMA NextTypeOK == IInv /\ [Next]_vars => TypeOK'
<1> SUFFICES ASSUME IInv, [Next]_vars PROVE TypeOK'
  OBVIOUS
<1> USE MaxNestAssumption, NoOwnerAssumption
    DEF IInv, TypeOK, Locations, Goto
<1>1. ASSUME NEW c \in Cores, vGetLock(c) PROVE TypeOK'
  BY <1>1 DEF vGetLock
<1>2. ASSUME NEW c \in Cores, vReleaseLock(c) PROVE TypeOK'
  BY <1>2 DEF vReleaseLock
<1>3. ASSUME NEW c \in Cores, Sevl(c) PROVE TypeOK'
  BY <1>3 DEF Sevl
<1>4. ASSUME NEW c \in Cores, Wfe(c) PROVE TypeOK'
  BY <1>4 DEF Wfe
<1>5. ASSUME NEW c \in Cores, Ldaxr(c) PROVE TypeOK'
  BY <1>5 DEF Ldaxr
<1>6. ASSUME NEW c \in Cores, Stxr(c) PROVE TypeOK'
  <2>1. CASE mon[c]
    BY <1>6, <2>1 DEF Stxr, StoreLock
  <2>2. CASE ~mon[c]
    BY <1>6, <2>2 DEF Stxr, StoreLock
  <2> QED
    BY <2>1, <2>2
<1>7. ASSUME NEW c \in Cores, SetOwner(c) PROVE TypeOK'
  BY <1>7 DEF SetOwner
<1>8. ASSUME NEW c \in Cores, SetCount(c) PROVE TypeOK'
  BY <1>8 DEF SetCount
<1>9. ASSUME NEW c \in Cores, Decrement(c) PROVE TypeOK'
  BY <1>9 DEF Decrement, CallState, OwnerExact
<1>10. ASSUME NEW c \in Cores, ClearOwner(c) PROVE TypeOK'
  BY <1>10 DEF ClearOwner
<1>11. ASSUME NEW c \in Cores, Stlr(c) PROVE TypeOK'
  BY <1>11 DEF Stlr, StoreLock
<1>12. ASSUME NEW c \in Cores, ExceptionReturn(c) PROVE TypeOK'
  BY <1>12 DEF ExceptionReturn
<1>13. CASE UNCHANGED vars
  BY <1>13 DEF vars
<1>14. QED
  BY <1>1, <1>2, <1>3, <1>4, <1>5, <1>6, <1>7, <1>8, <1>9, <1>10, <1>11,
     <1>12, <1>13 DEF Next, InCall, Spinning

(* The parts of the invariant that say who holds the lock.                 *)
LEMMA NextHolder ==
  IInv /\ [Next]_vars => (OneHolder /\ CallState /\ OwnerExact)'
<1> DEFINE Good == OneHolder /\ CallState /\ OwnerExact
<1> SUFFICES ASSUME IInv, [Next]_vars PROVE Good'
  OBVIOUS
<1> USE NoOwnerAssumption, MaxNestAssumption
    DEF IInv, TypeOK, Locations, OneHolder, Holder, CallState, OwnerExact,
        Goto
<1>1. ASSUME NEW c \in Cores, vGetLock(c) PROVE Good'
  BY <1>1 DEF vGetLock
<1>2. ASSUME NEW c \in Cores, vReleaseLock(c) PROVE Good'
  BY <1>2 DEF vReleaseLock
<1>3. ASSUME NEW c \in Cores, Sevl(c) PROVE Good'
  BY <1>3 DEF Sevl
<1>4. ASSUME NEW c \in Cores, Wfe(c) PROVE Good'
  BY <1>4 DEF Wfe
<1>5. ASSUME NEW c \in Cores, Ldaxr(c) PROVE Good'
  BY <1>5 DEF Ldaxr
<1>6. ASSUME NEW c \in Cores, Stxr(c) PROVE Good'
  BY <1>6 DEF Stxr, StoreLock, MonitorState
<1>7. ASSUME NEW c \in Cores, SetOwner(c) PROVE Good'
  BY <1>7 DEF SetOwner
<1>8. ASSUME NEW c \in Cores, SetCount(c) PROVE Good'
  BY <1>8 DEF SetCount
<1>9. ASSUME NEW c \in Cores, Decrement(c) PROVE Good'
  BY <1>9 DEF Decrement
<1>10. ASSUME NEW c \in Cores, ClearOwner(c) PROVE Good'
  BY <1>10 DEF ClearOwner
<1>11. ASSUME NEW c \in Cores, Stlr(c) PROVE Good'
  BY <1>11 DEF Stlr, StoreLock
<1>12. ASSUME NEW c \in Cores, ExceptionReturn(c) PROVE Good'
  BY <1>12 DEF ExceptionReturn
<1>13. CASE UNCHANGED vars
  BY <1>13 DEF vars
<1>14. QED
  BY <1>1, <1>2, <1>3, <1>4, <1>5, <1>6, <1>7, <1>8, <1>9, <1>10, <1>11,
     <1>12, <1>13 DEF Next, InCall, Spinning

(* The monitor and the event register of every core that spins: a store to *)
(* the lock word either meets a disarmed monitor or sets the event.        *)
LEMMA NextWakeup ==
  IInv /\ [Next]_vars => (MonitorState /\ NoLostWakeup)'
<1> DEFINE Good == MonitorState /\ NoLostWakeup
<1> SUFFICES ASSUME IInv, [Next]_vars PROVE Good'
  OBVIOUS
<1> USE DEF IInv, TypeOK, Locations, MonitorState, NoLostWakeup, Goto
<1>1. ASSUME NEW c \in Cores, vGetLock(c) PROVE Good'
  BY <1>1 DEF vGetLock
<1>2. ASSUME NEW c \in Cores, vReleaseLock(c) PROVE Good'
  BY <1>2 DEF vReleaseLock
<1>3. ASSUME NEW c \in Cores, Sevl(c) PROVE Good'
  BY <1>3 DEF Sevl
<1>4. ASSUME NEW c \in Cores, Wfe(c) PROVE Good'
  BY <1>4 DEF Wfe
<1>5. ASSUME NEW c \in Cores, Ldaxr(c) PROVE Good'
  BY <1>5 DEF Ldaxr
<1>6. ASSUME NEW c \in Cores, Stxr(c) PROVE Good'
  BY <1>6 DEF Stxr, StoreLock
<1>7. ASSUME NEW c \in Cores, SetOwner(c) PROVE Good'
  BY <1>7 DEF SetOwner
<1>8. ASSUME NEW c \in Cores, SetCount(c) PROVE Good'
  BY <1>8 DEF SetCount
<1>9. ASSUME NEW c \in Cores, Decrement(c) PROVE Good'
  BY <1>9 DEF Decrement
<1>10. ASSUME NEW c \in Cores, ClearOwner(c) PROVE Good'
  BY <1>10 DEF ClearOwner
<1>11. ASSUME NEW c \in Cores, Stlr(c) PROVE Good'
  BY <1>11 DEF Stlr, StoreLock
<1>12. ASSUME NEW c \in Cores, ExceptionReturn(c) PROVE Good'
  BY <1>12 DEF ExceptionReturn
<1>13. CASE UNCHANGED vars
  BY <1>13 DEF vars
<1>14. QED
  BY <1>1, <1>2, <1>3, <1>4, <1>5, <1>6, <1>7, <1>8, <1>9, <1>10, <1>11,
     <1>12, <1>13 DEF Next, InCall, Spinning

(* The inductive invariant of vGetLock and vReleaseLock holds always; it   *)
(* contains the type invariant.                                            *)
THEOREM Invariance == Spec => []IInv
<1>1. IInv /\ [Next]_vars => IInv'
  BY NextTypeOK, NextHolder, NextWakeup DEF IInv
<1>2. QED
  BY InitIInv, <1>1, PTL DEF Spec

(* Every variable of the lock stays in its type.                           *)
THEOREM TypeCorrect == Spec => []TypeOK
<1>1. IInv => TypeOK
  BY DEF IInv
<1>2. QED
  BY Invariance, <1>1, PTL

(* Two cores never both hold a lock of xSpinLocks, for any number of cores *)
(* and any nesting.                                                        *)
THEOREM Exclusion == Spec => []MutualExclusion
<1>1. IInv => MutualExclusion
  BY DEF IInv, OneHolder, Holder, MutualExclusion
<1>2. QED
  BY Invariance, <1>1, PTL

(* The unlocked tests of ulOwnerId in vGetLock and vReleaseLock always     *)
(* read the truth, and ulRecurCount counts the nesting exactly.            *)
THEOREM OwnerIsExact == Spec => []OwnerExact
<1>1. IInv => OwnerExact
  BY DEF IInv
<1>2. QED
  BY Invariance, <1>1, PTL

(* No release of the lock can leave a core asleep in the wfe of vGetLock.  *)
THEOREM WakeupsNotLost == Spec => []NoLostWakeup
<1>1. IInv => NoLostWakeup
  BY DEF IInv
<1>2. QED
  BY Invariance, <1>1, PTL

-----------------------------------------------------------------------------
(* The refinement mapping, by name.                                        *)
Held == \E c \in Cores : hold[c] > 0
absOwner == IF Held THEN CHOOSE c \in Cores : hold[c] > 0 ELSE NoOwner
absCount == IF Held THEN hold[CHOOSE c \in Cores : hold[c] > 0] ELSE 0

(* The mapping picks the core that holds the lock, if there is one.        *)
LEMMA MapHeld ==
  ASSUME IInv, NEW c \in Cores, hold[c] > 0
  PROVE  absOwner = c /\ absCount = hold[c]
BY DEF IInv, OneHolder, Holder, absOwner, absCount, Held

(* The mapping of a lock that no core holds.                               *)
LEMMA MapFree ==
  ASSUME IInv, \A c \in Cores : hold[c] = 0
  PROVE  absOwner = NoOwner /\ absCount = 0
BY DEF absOwner, absCount, Held

(* The two lemmas for the state after a step.                              *)
LEMMA MapHeldNext ==
  ASSUME IInv', NEW c \in Cores, hold'[c] > 0
  PROVE  absOwner' = c /\ absCount' = hold'[c]
BY DEF IInv, OneHolder, Holder, absOwner, absCount, Held

LEMMA MapFreeNext ==
  ASSUME IInv', \A c \in Cores : hold'[c] = 0
  PROVE  absOwner' = NoOwner /\ absCount' = 0
BY DEF absOwner, absCount, Held

(* Every access of the two functions is a step of RecursiveLock or leaves  *)
(* its state alone.                                                        *)
LEMMA StepRefines ==
  ASSUME IInv, IInv', [Next]_vars
  PROVE  \/ \E c \in Cores : RL!Acquire(c) \/ RL!Release(c)
         \/ absOwner' = absOwner /\ absCount' = absCount
<1> DEFINE Same == absOwner' = absOwner /\ absCount' = absCount
           Step(c) == \/ absOwner \in {NoOwner, c} /\ absOwner' = c
                         /\ absCount' = absCount + 1
                      \/ absOwner = c /\ absCount' = absCount - 1
                         /\ absOwner' = IF absCount = 1 THEN NoOwner ELSE c
<1>1. ASSUME UNCHANGED hold PROVE Same
  BY <1>1 DEF absOwner, absCount, Held
<1>2. ASSUME NEW c \in Cores, vGetLock(c), ~ UNCHANGED hold PROVE Step(c)
  <2>1. ulOwnerId = c /\ pc[c] = "out" /\ hold' = [hold EXCEPT ![c] = @ + 1]
    BY <1>2 DEF vGetLock
  <2>2. hold[c] > 0 /\ hold'[c] = hold[c] + 1 /\ hold'[c] > 0
    BY <2>1 DEF IInv, TypeOK, OwnerExact
  <2>3. QED
    BY <2>2, MapHeld, MapHeldNext
<1>3. ASSUME NEW c \in Cores, SetCount(c) PROVE Step(c)
  <2>1. pc[c] = "count" /\ hold' = [hold EXCEPT ![c] = 1]
    BY <1>3 DEF SetCount
  <2>2. \A d \in Cores : hold[d] = 0
    BY <2>1 DEF IInv, TypeOK, CallState, OneHolder, Holder
  <2>3. hold'[c] = 1
    BY <2>1 DEF IInv, TypeOK
  <2>4. QED
    BY <2>2, <2>3, MapFree, MapHeldNext
<1>4. ASSUME NEW c \in Cores, Decrement(c) PROVE Step(c)
  <2>1. pc[c] = "dec" /\ hold' = [hold EXCEPT ![c] = @ - 1]
    BY <1>4 DEF Decrement
  <2>2. hold[c] > 0 /\ hold[c] \in Nat /\ hold'[c] = hold[c] - 1
    BY <2>1, MaxNestAssumption DEF IInv, TypeOK, CallState
  <2>3. absOwner = c /\ absCount = hold[c]
    BY <2>2, MapHeld
  <2>4. CASE hold[c] = 1
    <3>1. \A d \in Cores : hold'[d] = 0
      BY <2>1, <2>4, MaxNestAssumption DEF IInv, TypeOK, OneHolder, Holder
    <3>2. QED
      BY <2>3, <2>4, <3>1, MapFreeNext
  <2>5. CASE hold[c] # 1
    BY <2>2, <2>3, <2>5, MapHeldNext
  <2>6. QED
    BY <2>4, <2>5
<1>5. Same \/ \E c \in Cores : Step(c)
  <2>1. CASE UNCHANGED vars
    BY <2>1, <1>1 DEF vars
  <2>2. ASSUME NEW c \in Cores,
               Sevl(c) \/ Wfe(c) \/ Ldaxr(c) \/ Stxr(c) \/ SetOwner(c)
                 \/ ClearOwner(c) \/ Stlr(c) \/ vReleaseLock(c)
                 \/ ExceptionReturn(c)
        PROVE UNCHANGED hold
    BY <2>2 DEF Sevl, Wfe, Ldaxr, Stxr, SetOwner, ClearOwner, Stlr,
                vReleaseLock, ExceptionReturn
  <2>3. QED
    BY <1>1, <1>2, <1>3, <1>4, <2>1, <2>2 DEF Next, InCall, Spinning
<1>6. QED
  BY <1>5 DEF RL!Acquire, RL!Release, absOwner, absCount, Held

(* vGetLock and vReleaseLock implement the atomic recursive lock.          *)
THEOREM Refinement == Spec => ImplementsRecursiveLock
<1>1. Init => RL!Init
  BY InitIInv, MapFree
     DEF RL!Init, Init, absOwner, absCount, Held
<1>2. ASSUME IInv, IInv', [Next]_vars PROVE [RL!Next]_RL!rlVars
  BY <1>2, StepRefines DEF RL!Next, RL!rlVars, absOwner, absCount, Held
<1>3. IInv /\ IInv' /\ [Next]_vars => [RL!Next]_RL!rlVars
  BY <1>2
<1>4. QED
  BY Invariance, <1>1, <1>3, PTL DEF Spec, ImplementsRecursiveLock, RL!Spec
=============================================================================
