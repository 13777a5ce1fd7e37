-------------------------- MODULE BufferAllocation --------------------------
(***************************************************************************)
(* The network buffers of FreeRTOS+TCP, BufferAllocation_1.c: a list of    *)
(* free descriptors, and a counting semaphore that says how many of them   *)
(* may be taken.  Getting a buffer takes the semaphore and then the list's *)
(* lock; releasing one takes the lock and then gives the semaphore.  Each  *)
(* half is one action below, and other tasks run in between.               *)
(***************************************************************************)
EXTENDS Naturals

CONSTANT NBuf   \* ipconfigNUM_NETWORK_BUFFER_DESCRIPTORS

ASSUME NBufAssumption == NBuf \in Nat \ {0}

VARIABLES
  xNetworkBufferSemaphore,  \* its count
  xFreeBuffersList          \* the length of the list

netVars == <<xNetworkBufferSemaphore, xFreeBuffersList>>

NetTypeOK ==
  /\ xNetworkBufferSemaphore \in 0 .. NBuf /\ xFreeBuffersList \in 0 .. NBuf

xNetworkBuffersInitialise ==
  xNetworkBufferSemaphore = NBuf /\ xFreeBuffersList = NBuf

(* pxGetNetworkBufferWithDescriptor.  Taking the head of an empty list     *)
(* would return the list's end marker.                                     *)
GetTake ==
  /\ xNetworkBufferSemaphore > 0
  /\ xNetworkBufferSemaphore' = xNetworkBufferSemaphore - 1
  /\ UNCHANGED xFreeBuffersList

GetRemove ==
  /\ xFreeBuffersList' = IF xFreeBuffersList > 0 THEN xFreeBuffersList - 1 ELSE 0
  /\ UNCHANGED xNetworkBufferSemaphore

(* vReleaseNetworkBufferAndDescriptor.                                     *)
ReleaseGive ==
  /\ xNetworkBufferSemaphore' = xNetworkBufferSemaphore + 1
  /\ UNCHANGED xFreeBuffersList

ReleaseInsert ==
  /\ xFreeBuffersList' = xFreeBuffersList + 1
  /\ UNCHANGED xNetworkBufferSemaphore
=============================================================================
