---------------------------- MODULE RecursiveLock ----------------------------
(***************************************************************************)
(* What the port promises of each spin lock in xSpinLocks (port.c): a lock *)
(* that at most one core owns, that its owner may take again, and that     *)
(* becomes free when the owner has released it as often as it took it.     *)
(* Acquiring, releasing and refusing a foreign release are atomic here;    *)
(* SpinLock shows that the instruction sequences of vGetLock and           *)
(* vReleaseLock implement this.                                            *)
(***************************************************************************)
EXTENDS Naturals

CONSTANTS
  Cores,    \* the core indices ulGetCoreId() returns
  NoOwner   \* the owner id 0xFFFFFFFF of a free lock

VARIABLES
  owner,    \* the core that owns the lock, or NoOwner
  count     \* how many of the owner's acquisitions are not yet released

rlVars == <<owner, count>>

Init ==
  /\ owner = NoOwner
  /\ count = 0

(* A core takes the free lock, or takes the lock it owns once more.        *)
Acquire(c) ==
  /\ owner \in {NoOwner, c}
  /\ owner' = c
  /\ count' = count + 1

(* The owner gives back one acquisition; the last one frees the lock.      *)
Release(c) ==
  /\ owner = c
  /\ count' = count - 1
  /\ owner' = IF count = 1 THEN NoOwner ELSE c

Next == \E c \in Cores : Acquire(c) \/ Release(c)

Spec == Init /\ [][Next]_rlVars
=============================================================================
