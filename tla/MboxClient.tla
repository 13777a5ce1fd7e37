----------------------------- MODULE MboxClient -----------------------------
(***************************************************************************)
(* The SDM mailbox client, drivers/sdm_mailbox/socfpga_mbox_client.c:      *)
(* application tasks open clients and send commands, the interrupt handler *)
(* and the poll task bring the responses back.  The secure firmware and    *)
(* the SDM are modelled from how this code uses them (external).           *)
(*                                                                         *)
(* A task runs the sequence that every user of the mailbox in the          *)
(* repository runs (fcs_init, seu_init, plat_mbox_init, the sample):       *)
(* mbox_init, mbox_open_client, mbox_set_callback; commands, each followed *)
(* by a wait for the semaphore that the callback posts; mbox_close_client, *)
(* mbox_deinit.  A call is split wherever another task, the poll task or   *)
(* the interrupt can come between two of its steps and tell the difference.*)
(***************************************************************************)
EXTENDS Naturals, FiniteSets

CONSTANTS
  Tasks,     \* application tasks that use the mailbox
  Slots,     \* indices of client_descriptors open to them, from 2 up
  MaxJob,    \* MAX_JOB_ID, the jobs of one client
  MaxCount,  \* MAX_CLIENT_INSTANCES, the limit of call_complete_sem
  None,      \* NULL: no owner, no handle, no buffer
  Dead,      \* a mutex or semaphore that does not exist
  Preempt,   \* locations of the poll task at which other tasks may run
  Closers,   \* tasks that close their client and then the mailbox
  Impatient, \* tasks that wait for the callback with a timeout
  Sharers,   \* tasks that use a client which another task has opened
  Serial     \* the application does not overlap its start and stop calls

Jobs == 0 .. MaxJob - 1
AtfClient == 1                          \* ATF_CLIENT_ID
AtfTrans == <<AtfClient, 0>>            \* a transaction of the firmware
TransIds == (Slots \X Jobs) \cup {AtfTrans}

PollLocations == {"none", "wait", "trans", "next", "copy", "free",
                  "callback", "post", "gone"}

ASSUME MboxAssumption ==
  /\ MaxJob \in Nat \ {0} /\ MaxCount \in Nat \ {0}
  /\ Slots \subseteq Nat \ {0, AtfClient} /\ IsFiniteSet(Slots)
  /\ None \notin Tasks \cup Slots /\ Dead \notin Tasks \cup Nat \cup {None}
  /\ Preempt \subseteq PollLocations /\ Serial \in BOOLEAN
  /\ Closers \subseteq Tasks /\ Impatient \subseteq Tasks
  /\ Sharers \subseteq Tasks

VARIABLES
  mbox,    \* *mbox_descriptor: desc, whether it exists; state, task_state;
           \* count, call_complete_sem; list, holder of client_list_mutex;
           \* irq, whether SDM_APS_MAILBOX_INTR is enabled
  client,  \* client_descriptors
  work,    \* transactions the SDM works on
  ready,   \* transactions whose response waits in the firmware
  poll,    \* mbox_poll_resp_task: pc, bitmask and trans_id
  task,    \* application tasks: pc, handle, job_id; wants, a response is
           \* expected; got (history), it was copied to the caller's buffer
  token    \* the binary semaphore that each task's callback posts

vars == <<mbox, client, work, ready, poll, task, token>>

TaskLocations ==
  {"idle", "init", "open", "setcb", "sem", "mutex", "assign", "arm", "smc",
   "unassign", "repost", "unlock", "await", "closeList", "closeClient",
   "closeDelete", "deinit", "deinitFree"}

(* The calls that start and stop the use of the mailbox.                   *)
Lifecycle == {"init", "open", "setcb", "closeList", "closeClient",
              "closeDelete", "deinit", "deinitFree"}

ClosedClient ==
  [status |-> 0, jobPool |-> {}, jobHead |-> 0, callBack |-> None,
   mutex |-> Dead, free |-> Dead, jobResp |-> [j \in Jobs |-> None]]

(* A task outside of any call, with handle h; a call's locals start empty. *)
NoCall(h) == [pc |-> "idle", handle |-> h, job |-> 0, wants |-> FALSE,
              got |-> FALSE]

Descriptors ==
  [status : {0, 1}, jobPool : SUBSET Jobs, jobHead : Jobs,
   callBack : Tasks \cup {None}, mutex : Tasks \cup {None, Dead},
   free : {0, 1, Dead}, jobResp : [Jobs -> Tasks \cup {None}]]
Calls == [pc : TaskLocations, handle : Slots \cup {None}, job : Jobs,
          wants : BOOLEAN, got : BOOLEAN]
Mailboxes == [desc : {"null", "fresh", "ready"},
              state : {"CLOSED", "OPEN", "BUSY"}, count : 0 .. MaxCount,
              list : Tasks \cup {None}, irq : BOOLEAN]
Polls == [pc : PollLocations, bitmask : SUBSET TransIds, trans : TransIds]

TypeOK ==
  /\ mbox \in Mailboxes /\ client \in [Slots -> Descriptors]
  /\ work \subseteq TransIds /\ ready \subseteq TransIds
  /\ poll \in Polls /\ task \in [Tasks -> Calls]
  /\ token \in [Tasks -> BOOLEAN]

Init ==
  /\ mbox = [desc |-> "null", state |-> "CLOSED", count |-> 0, list |-> None,
             irq |-> FALSE]
  /\ client = [s \in Slots |-> ClosedClient]
  /\ work = {} /\ ready = {}
  /\ poll = [pc |-> "none", bitmask |-> {}, trans |-> AtfTrans]
  /\ task = [t \in Tasks |-> NoCall(None)]
  /\ token = [t \in Tasks |-> FALSE]

-----------------------------------------------------------------------------
(* The descriptor of the client that task t holds a handle of.             *)
Mine(t) == client[task[t].handle]

(* The poll task has priority configMAX_PRIORITIES - 2.  An application    *)
(* task runs when the poll task is blocked or has not started; at the      *)
(* locations in Preempt it may run beside it, on another core, with a      *)
(* higher priority or by time slicing.                                     *)
TasksRun ==
  \/ poll.pc \in Preempt \cup {"none", "gone"}
  \/ poll.pc = "wait" /\ mbox.count = 0
  \/ poll.pc = "free" /\ mbox.list # None

(* What task t would access next although it is gone: it reads a NULL      *)
(* descriptor, or uses a semaphore or a mutex that was deleted.            *)
NullDescriptor(t) ==
  /\ TasksRun /\ mbox.desc # "ready"
  /\ task[t].pc \in {"open", "assign", "unassign", "closeList"}
DeadSemaphore(t) ==
  TasksRun /\ task[t].pc \in {"sem", "repost"} /\ Mine(t).free = Dead
DeadMutex(t) ==
  /\ TasksRun /\ task[t].pc \in {"setcb", "mutex", "unlock", "closeClient"}
  /\ Mine(t).mutex = Dead

(* The same for the poll task, and the buffer it copies a response to: the *)
(* buffer is gone when the call that registered it has returned.           *)
Target == client[poll.trans[1]].jobResp[poll.trans[2]]
TargetLive ==
  LET c == task[Target] IN
    /\ c.pc \in {"unlock", "await"} /\ c.wants
    /\ <<c.handle, c.job>> = poll.trans
PollNullDescriptor ==
  /\ mbox.desc # "ready"
  /\ poll.pc \in {"wait", "free"} \/ (poll.pc = "next" /\ poll.bitmask = {})
PollDeadSemaphore ==
  poll.pc = "post" /\ client[poll.trans[1]].free = Dead
DeadBuffer == poll.pc = "copy" /\ Target # None /\ ~TargetLive

Goto(t, loc) == task' = [task EXCEPT ![t].pc = loc]

(* Task t returns from its call; the locals of the call are gone.          *)
Return(t) == task' = [task EXCEPT ![t] = NoCall(@.handle)]

(* Task t is at loc, runs, and what it accesses next exists.               *)
At(t, loc) ==
  /\ task[t].pc = loc /\ TasksRun
  /\ ~(NullDescriptor(t) \/ DeadSemaphore(t) \/ DeadMutex(t))

(* The handler runs but the descriptor it writes to is gone.               *)
IrqNullDescriptor == mbox.desc = "null" /\ mbox.irq /\ ready # {}

(* osal_mutex_lock on a mutex held by m, with no timeout.                  *)
Free(m) == m = None

-----------------------------------------------------------------------------
(* mbox_init allocates the descriptor, unless another user has done so.    *)
Start(t) ==
  /\ At(t, "idle") /\ task[t].handle = None /\ t \notin Sharers
  /\ Serial => \A u \in Tasks : task[u].pc \notin Lifecycle
  /\ IF mbox.desc = "null"
       THEN mbox' = [mbox EXCEPT !.desc = "fresh"] /\ Goto(t, "init")
       ELSE UNCHANGED mbox /\ Goto(t, "open")
  /\ UNCHANGED <<client, work, ready, poll, token>>

(* The rest of mbox_init: the mutex, the semaphore, the task, the handler. *)
mbox_init(t) ==
  /\ At(t, "init") /\ Goto(t, "open")
  /\ mbox' = [mbox EXCEPT !.desc = "ready", !.state = "OPEN", !.count = 0,
                          !.list = None]
  /\ poll' = [poll EXCEPT !.pc = "wait"]
  /\ UNCHANGED <<client, work, ready, token>>

(* The first descriptor that is not in use; none, and the user gives up.   *)
mbox_open_client(t) ==
  /\ At(t, "open") /\ Free(mbox.list)
  /\ LET unused == {s \in Slots : client[s].status = 0} IN
     \/ unused = {} /\ Return(t) /\ UNCHANGED client
     \/ \E i \in unused :
          /\ \A u \in unused : i <= u
          /\ client' = [client EXCEPT ![i].status = 1, ![i].free = 1,
                                      ![i].mutex = None]
          /\ task' = [task EXCEPT ![t].pc = "setcb", ![t].handle = i]
  /\ UNCHANGED <<mbox, work, ready, poll, token>>

mbox_set_callback(t) ==
  /\ At(t, "setcb") /\ Free(Mine(t).mutex) /\ Return(t)
  /\ client' = [client EXCEPT ![task[t].handle].callBack = t]
  /\ UNCHANGED <<mbox, work, ready, poll, token>>

(* A task gets the handle of a client that is in use.                      *)
Share(t) ==
  /\ At(t, "idle") /\ task[t].handle = None /\ t \in Sharers
  /\ \E s \in Slots : /\ client[s].status = 1 /\ client[s].callBack # None
                      /\ task' = [task EXCEPT ![t].handle = s]
  /\ UNCHANGED <<mbox, client, work, ready, poll, token>>

-----------------------------------------------------------------------------
(* sip_svc_send, with a response expected or not.                          *)
sip_svc_send(t, w) ==
  /\ At(t, "idle") /\ task[t].handle # None /\ Mine(t).status = 1
  /\ task' = [task EXCEPT ![t].pc = "sem", ![t].wants = w, ![t].got = FALSE]
  /\ UNCHANGED <<mbox, client, work, ready, poll, token>>

(* osal_semaphore_wait(client_free): one command per client at a time.     *)
SendWaitFree(t) ==
  /\ At(t, "sem") /\ Mine(t).free = 1 /\ Goto(t, "mutex")
  /\ client' = [client EXCEPT ![task[t].handle].free = 0]
  /\ UNCHANGED <<mbox, work, ready, poll, token>>

SendLock(t) ==
  /\ At(t, "mutex") /\ Free(Mine(t).mutex) /\ Goto(t, "assign")
  /\ client' = [client EXCEPT ![task[t].handle].mutex = t]
  /\ UNCHANGED <<mbox, work, ready, poll, token>>

(* The first job that is not in use from job_head on, round robin.  With   *)
(* all jobs in use the call returns, and client_mutex stays locked.        *)
assign_job_id(t) ==
  /\ At(t, "assign")
  /\ LET c == Mine(t)
         dist(j) == (j + MaxJob - c.jobHead) % MaxJob
         unused == Jobs \ c.jobPool
     IN \/ unused = {} /\ Return(t) /\ UNCHANGED client
        \/ \E i \in unused :
             /\ Free(mbox.list)
             /\ \A k \in unused : dist(i) <= dist(k)
             /\ client' = [client EXCEPT
                  ![task[t].handle].jobPool = @ \cup {i},
                  ![task[t].handle].jobHead = (i + 1) % MaxJob]
             /\ task' = [task EXCEPT ![t].pc = "arm", ![t].job = i]
  /\ UNCHANGED <<mbox, work, ready, poll, token>>

(* Mutant: the buffer is registered for the wrong job.                     *)
SendArmWrongJob(t) ==
  /\ At(t, "arm") /\ Goto(t, "smc")
  /\ client' = [client EXCEPT ![task[t].handle].jobResp[Mine(t).jobHead] =
                                IF task[t].wants THEN t ELSE None]
  /\ mbox' = [mbox EXCEPT !.irq = TRUE]
  /\ UNCHANGED <<work, ready, poll, token>>

(* The response buffer is registered and the interrupt enabled before the  *)
(* command goes out.                                                       *)
SendArm(t) ==
  /\ At(t, "arm") /\ Goto(t, "smc")
  /\ client' = [client EXCEPT ![task[t].handle].jobResp[task[t].job] =
                                IF task[t].wants THEN t ELSE None]
  /\ mbox' = [mbox EXCEPT !.irq = TRUE]
  /\ UNCHANGED <<work, ready, poll, token>>

(* Mutant: a refused command keeps its job.                                *)
SendSmcKeepsJob(t) ==
  /\ At(t, "smc")
  /\ \/ /\ task[t].wants /\ Goto(t, "unlock")
        /\ work' = work \cup {<<task[t].handle, task[t].job>>}
     \/ /\ task' = [task EXCEPT ![t].pc = "repost", ![t].wants = FALSE]
        /\ UNCHANGED work
  /\ UNCHANGED <<mbox, client, ready, poll, token>>

(* smc_call: the firmware passes a command with a response on to the SDM;  *)
(* it serves a command without one itself, or refuses the command.         *)
SendSmc(t) ==
  /\ At(t, "smc")
  /\ \/ /\ task[t].wants /\ Goto(t, "unlock")
        /\ work' = work \cup {<<task[t].handle, task[t].job>>}
     \/ /\ task' = [task EXCEPT ![t].pc = "unassign", ![t].wants = FALSE]
        /\ UNCHANGED work
  /\ UNCHANGED <<mbox, client, ready, poll, token>>

(* free_job_id flips the bit of a job in the pool of a client.             *)
free_job_id(s, j) ==
  client' = [client EXCEPT ![s].jobPool =
               IF j \in @ THEN @ \ {j} ELSE @ \cup {j}]

(* No response will come: the job is freed at once.  When the pool is      *)
(* empty already the call returns, and client_mutex stays locked.          *)
SendFree(t) ==
  /\ At(t, "unassign")
  /\ IF Mine(t).jobPool = {}
       THEN Return(t) /\ UNCHANGED client
       ELSE /\ Free(mbox.list) /\ Goto(t, "repost")
            /\ free_job_id(task[t].handle, task[t].job)
  /\ UNCHANGED <<mbox, work, ready, poll, token>>

(* Mutant: the path without a response returns with client_mutex locked.   *)
SendRepostReturns(t) ==
  /\ At(t, "repost") /\ Return(t)
  /\ client' = [client EXCEPT ![task[t].handle].free = 1]
  /\ UNCHANGED <<mbox, work, ready, poll, token>>

(* osal_semaphore_post fails on a semaphore that is 1: the call returns,   *)
(* and client_mutex stays locked.                                          *)
SendRepost(t) ==
  /\ At(t, "repost")
  /\ client' = [client EXCEPT ![task[t].handle].free = 1]
  /\ IF Mine(t).free = 1 THEN Return(t) ELSE Goto(t, "unlock")
  /\ UNCHANGED <<mbox, work, ready, poll, token>>

SendUnlock(t) ==
  /\ At(t, "unlock") /\ IF task[t].wants THEN Goto(t, "await") ELSE Return(t)
  /\ client' = [client EXCEPT ![task[t].handle].mutex = None]
  /\ UNCHANGED <<mbox, work, ready, poll, token>>

(* Mutant: the caller does not wait.                                       *)
AwaitNothing(t) ==
  /\ At(t, "await") /\ Return(t)
  /\ UNCHANGED <<mbox, client, work, ready, poll, token>>

(* The caller waits for the semaphore that the client's callback posts.    *)
AwaitCallback(t) ==
  /\ At(t, "await") /\ Return(t)
  /\ \E o \in Tasks : /\ o = Mine(t).callBack /\ token[o]
                      /\ token' = [token EXCEPT ![o] = FALSE]
  /\ UNCHANGED <<mbox, client, work, ready, poll>>

(* COMMAND_TIMEOUT of the SEU driver, MBOX_TIMEOUT of the sample.          *)
AwaitTimeout(t) ==
  /\ At(t, "await") /\ t \in Impatient /\ Return(t)
  /\ UNCHANGED <<mbox, client, work, ready, poll, token>>

-----------------------------------------------------------------------------
(* mbox_close_client tests for outstanding jobs before it takes a lock.    *)
mbox_close_client(t) ==
  /\ At(t, "idle") /\ task[t].handle # None /\ t \in Closers
  /\ Serial => \A u \in Tasks : task[u].pc \notin Lifecycle
  /\ Mine(t).status = 1 /\ Mine(t).jobPool = {}
  /\ Goto(t, "closeList")
  /\ UNCHANGED <<mbox, client, work, ready, poll, token>>

CloseLockList(t) ==
  /\ At(t, "closeList") /\ Free(mbox.list) /\ Goto(t, "closeClient")
  /\ mbox' = [mbox EXCEPT !.list = t]
  /\ UNCHANGED <<client, work, ready, poll, token>>

(* With both mutexes the descriptor is cleared, except for its callback,   *)
(* and client_free deleted; then both mutexes are unlocked.                *)
CloseReset(t) ==
  /\ At(t, "closeClient") /\ Free(Mine(t).mutex) /\ Goto(t, "closeDelete")
  /\ client' = [client EXCEPT ![task[t].handle] =
                  [ClosedClient EXCEPT !.callBack = Mine(t).callBack,
                                       !.mutex = None]]
  /\ mbox' = [mbox EXCEPT !.list = None]
  /\ UNCHANGED <<work, ready, poll, token>>

(* osal_mutex_delete(mbox_handle->client_mutex), after the unlocks.        *)
CloseDelete(t) ==
  /\ At(t, "closeDelete")
  /\ task' = [task EXCEPT ![t].pc = "deinit", ![t].handle = None]
  /\ client' = [client EXCEPT ![task[t].handle].mutex = Dead]
  /\ UNCHANGED <<mbox, work, ready, poll, token>>

(* Mutant: open clients of other users are not tested for.                 *)
mbox_deinit_Unchecked(t) ==
  /\ At(t, "deinit") /\ mbox.desc = "ready" /\ mbox.state = "OPEN"
  /\ mbox.count < MaxCount
  /\ mbox' = [mbox EXCEPT !.irq = FALSE, !.state = "CLOSED", !.count = @ + 1]
  /\ Goto(t, "deinitFree")
  /\ UNCHANGED <<client, work, ready, poll, token>>

(* Mutant: the poll task is not woken to see that it must end.             *)
mbox_deinit_NoPost(t) ==
  /\ At(t, "deinit")
  /\ IF \/ mbox.desc # "ready" \/ mbox.state # "OPEN"
        \/ \E s \in Slots : client[s].status = 1
       THEN Return(t) /\ UNCHANGED mbox
       ELSE /\ mbox' = [mbox EXCEPT !.irq = FALSE, !.state = "CLOSED"]
            /\ Goto(t, "deinitFree")
  /\ UNCHANGED <<client, work, ready, poll, token>>

(* mbox_deinit refuses while the poll task is busy or a client is open.    *)
(* It disables the interrupt, tells the task to end and wakes it.          *)
mbox_deinit(t) ==
  /\ At(t, "deinit")
  /\ IF \/ mbox.desc # "ready" \/ mbox.state # "OPEN"
        \/ \E s \in Slots : client[s].status = 1
       THEN Return(t) /\ UNCHANGED mbox
       ELSE LET full == mbox.count = MaxCount IN
            /\ mbox' = [mbox EXCEPT !.irq = FALSE, !.state = "CLOSED",
                                    !.count = IF full THEN @ ELSE @ + 1]
            /\ IF full THEN Return(t) ELSE Goto(t, "deinitFree")
  /\ UNCHANGED <<client, work, ready, poll, token>>

(* The mutex and the semaphore are deleted, the descriptor is freed.       *)
DeinitFree(t) ==
  /\ At(t, "deinitFree") /\ Return(t)
  /\ mbox' = [mbox EXCEPT !.desc = "null", !.count = 0]
  /\ UNCHANGED <<client, work, ready, poll, token>>

-----------------------------------------------------------------------------
(* The handler runs while a response is available; it disables itself.     *)
mbox_irq_handler ==
  /\ mbox.desc # "null" /\ mbox.irq /\ ready # {}
  /\ mbox' = [mbox EXCEPT !.irq = FALSE, !.state = "BUSY",
                          !.count = IF @ < MaxCount THEN @ + 1 ELSE @]
  /\ UNCHANGED <<client, work, ready, poll, task, token>>

(* The SDM finishes a command.                                             *)
SdmRespond(x) ==
  /\ x \in work /\ work' = work \ {x} /\ ready' = ready \cup {x}
  /\ UNCHANGED <<mbox, client, poll, task, token>>

(* The firmware's own transactions come and go beside those of the clients.*)
AtfTransaction ==
  /\ ready' = IF AtfTrans \in ready THEN ready \ {AtfTrans}
                                    ELSE ready \cup {AtfTrans}
  /\ UNCHANGED <<mbox, client, work, poll, task, token>>

-----------------------------------------------------------------------------
PollAt(loc) ==
  /\ poll.pc = loc /\ ~(PollNullDescriptor \/ PollDeadSemaphore)
PollGoto(loc) == poll' = [poll EXCEPT !.pc = loc]

(* osal_semaphore_wait(call_complete_sem), and the test for the end.       *)
PollWait ==
  /\ PollAt("wait") /\ mbox.count > 0
  /\ mbox' = [mbox EXCEPT !.count = @ - 1]
  /\ PollGoto(IF mbox.state = "CLOSED" THEN "gone" ELSE "trans")
  /\ UNCHANGED <<client, work, ready, task, token>>

(* SIP_SMC_GET_TRANS_ID; when it fails nothing is processed.               *)
PollGetTrans(ok) ==
  /\ PollAt("trans")
  /\ poll' = [poll EXCEPT !.pc = "next", !.bitmask = IF ok THEN ready ELSE {}]
  /\ UNCHANGED <<mbox, client, work, ready, task, token>>

(* FORMAT_TRANS_ID orders transactions by client, then by job.             *)
Before(x, y) == x[1] < y[1] \/ (x[1] = y[1] /\ x[2] <= y[2])

(* The lowest bit of the bitmask.  The firmware's transactions are skipped;*)
(* SIP_SMC_GET_RESP takes a response, or fails and leaves it.              *)
PollGetResp(x, ok) ==
  /\ PollAt("next") /\ x \in poll.bitmask
  /\ \A y \in poll.bitmask : Before(x, y)
  /\ LET take == ok /\ x[1] # AtfClient IN
       /\ poll' = [pc |-> IF take THEN "copy" ELSE "next",
                   bitmask |-> poll.bitmask \ {x},
                   trans |-> IF take THEN x ELSE poll.trans]
       /\ ready' = IF take THEN ready \ {x} ELSE ready
  /\ UNCHANGED <<mbox, client, work, task, token>>

(* memcpy into the buffer that the call registered, if it registered one;  *)
(* into memory that is something else by now if the call has returned.     *)
PollCopy ==
  /\ PollAt("copy") /\ PollGoto("free")
  /\ task' = IF Target = None \/ DeadBuffer THEN task
             ELSE [task EXCEPT ![Target].got = TRUE]
  /\ UNCHANGED <<mbox, client, work, ready, token>>

(* free_job_id; a client without jobs is left alone.                       *)
PollFree ==
  /\ PollAt("free")
  /\ IF client[poll.trans[1]].jobPool = {}
       THEN /\ poll' = [poll EXCEPT !.pc = "next", !.trans = AtfTrans]
            /\ UNCHANGED client
       ELSE /\ Free(mbox.list) /\ PollGoto("callback")
            /\ free_job_id(poll.trans[1], poll.trans[2])
  /\ UNCHANGED <<mbox, work, ready, task, token>>

PollCallback ==
  /\ PollAt("callback") /\ PollGoto("post")
  /\ token' = [t \in Tasks |-> \/ token[t]
                               \/ t = client[poll.trans[1]].callBack]
  /\ UNCHANGED <<mbox, client, work, ready, task>>

(* Mutant: client_free is not given back.                                  *)
PollPostMissing ==
  /\ PollAt("post")
  /\ poll' = [poll EXCEPT !.pc = "next", !.trans = AtfTrans]
  /\ UNCHANGED <<mbox, client, work, ready, task, token>>

PollPost ==
  /\ PollAt("post")
  /\ poll' = [poll EXCEPT !.pc = "next", !.trans = AtfTrans]
  /\ client' = [client EXCEPT ![poll.trans[1]].free = 1]
  /\ UNCHANGED <<mbox, work, ready, task, token>>

(* Mutant: the interrupt that the handler disabled stays disabled.         *)
PollRearmNoEnable ==
  /\ PollAt("next") /\ poll.bitmask = {} /\ PollGoto("wait")
  /\ mbox' = [mbox EXCEPT !.state = "OPEN"]
  /\ UNCHANGED <<client, work, ready, task, token>>

(* The round is over: the task is open, the interrupt enabled again.       *)
PollRearm ==
  /\ PollAt("next") /\ poll.bitmask = {} /\ PollGoto("wait")
  /\ mbox' = [mbox EXCEPT !.state = "OPEN", !.irq = TRUE]
  /\ UNCHANGED <<client, work, ready, task, token>>

mbox_poll_resp_task ==
  \/ PollWait \/ PollCopy \/ PollFree \/ PollCallback \/ PollPost
  \/ PollRearm
  \/ \E ok \in BOOLEAN : \/ PollGetTrans(ok)
                         \/ \E x \in TransIds : PollGetResp(x, ok)

-----------------------------------------------------------------------------
(* A task goes on with the call it is in.                                  *)
Continue(t) ==
  \/ mbox_init(t) \/ mbox_open_client(t) \/ mbox_set_callback(t)
  \/ SendWaitFree(t) \/ SendLock(t) \/ assign_job_id(t) \/ SendArm(t)
  \/ SendSmc(t) \/ SendFree(t) \/ SendRepost(t) \/ SendUnlock(t)
  \/ AwaitCallback(t) \/ CloseLockList(t) \/ CloseReset(t)
  \/ CloseDelete(t) \/ mbox_deinit(t) \/ DeinitFree(t)

(* A task makes a call, or gives up waiting.                               *)
Choose(t) ==
  \/ Start(t) \/ Share(t) \/ mbox_close_client(t) \/ AwaitTimeout(t)
  \/ \E w \in BOOLEAN : sip_svc_send(t, w)

Next ==
  \/ \E t \in Tasks : Continue(t) \/ Choose(t)
  \/ \E x \in TransIds : SdmRespond(x)
  \/ mbox_irq_handler \/ AtfTransaction \/ mbox_poll_resp_task

(* The firmware and the SDM answer, the interrupt is taken, a runnable     *)
(* task gets the processor, and the firmware's calls do not fail for ever. *)
Fairness ==
  /\ WF_vars(mbox_irq_handler) /\ WF_vars(mbox_poll_resp_task)
  /\ SF_vars(PollGetTrans(TRUE))
  /\ \A x \in Slots \X Jobs : /\ WF_vars(SdmRespond(x))
                             /\ SF_vars(PollGetResp(x, TRUE))
  /\ \A t \in Tasks : SF_vars(Continue(t))

Spec == Init /\ [][Next]_vars
FairSpec == Spec /\ Fairness

-----------------------------------------------------------------------------
(* The commands of client s that are not finished: a task is preparing one *)
(* or taking it back, the SDM has it, or its response is on the way.       *)
Outstanding(s) ==
  {j \in Jobs :
     \/ <<s, j>> \in work \cup ready
     \/ poll.pc \in {"copy", "free"} /\ poll.trans = <<s, j>>
     \/ \E t \in Tasks : /\ task[t].handle = s /\ task[t].job = j
                         /\ task[t].pc \in {"arm", "smc", "unassign"}}

(* The bitmap of jobs is exact: free_job_id never flips the bit of a job   *)
(* that is not in use, no bit stays behind, and a client that was closed   *)
(* has no command in the SDM and no response on the way.                   *)
JobPoolExact == \A s \in Slots : client[s].jobPool = Outstanding(s)

(* Task t is between the wait for client_free and the end of sip_svc_send. *)
Sending(t) == task[t].pc \in {"mutex", "assign", "arm", "smc", "unassign",
                              "repost"}

(* client_free admits one command of a client at a time, and is given back *)
(* by every path: it is 0 exactly while a command is under way.            *)
OneCommandPerClient ==
  \A s \in Slots :
    LET senders == {t \in Tasks : task[t].handle = s /\ Sending(t)}
        delivering == /\ poll.pc \in {"callback", "post"}
                      /\ poll.trans[1] = s
    IN client[s].status = 1 =>
         /\ Cardinality(senders) <= 1
         /\ client[s].free = 0 <=>
              senders # {} \/ client[s].jobPool # {} \/ delivering

(* client_mutex is locked only by a task that is inside the call that      *)
(* locked it: no error return of sip_svc_send leaves it locked.            *)
MutexReleased ==
  \A s \in Slots, t \in Tasks :
    client[s].mutex = t =>
      /\ task[t].handle = s
      /\ task[t].pc \in {"assign", "arm", "smc", "unassign", "repost",
                         "unlock"}

(* No task, nor the poll task, nor the handler uses a descriptor, mutex,   *)
(* semaphore or response buffer that is gone.                              *)
NothingDangles ==
  /\ \A t \in Tasks : ~(NullDescriptor(t) \/ DeadSemaphore(t) \/ DeadMutex(t))
  /\ ~PollNullDescriptor /\ ~PollDeadSemaphore /\ ~DeadBuffer
  /\ ~IrqNullDescriptor

(* mbox_deinit leaves no poll task behind that still uses the mailbox.     *)
DeinitEndsTask == mbox.desc = "null" => poll.pc \in {"none", "gone"}

(* When the wait for the callback succeeds, the response of this call is   *)
(* in the caller's buffer.                                                 *)
CompletionHasData ==
  [][\A t \in Tasks : AwaitCallback(t) => task[t].got]_vars

(* Every call returns: no response is lost between the firmware, the       *)
(* handler and the poll task, and no two tasks wait for each other.        *)
CallsReturn == \A t \in Tasks : task[t].pc # "idle" ~> task[t].pc = "idle"

-----------------------------------------------------------------------------
(* An invariant that implies JobPoolExact, OneCommandPerClient and         *)
(* MutexReleased: the count that SendWaitFree takes from client_free       *)
(* passes from the sender to the transaction and on to the poll task,      *)
(* which gives it back.  It is inductive for a mailbox that its users do   *)
(* not close; with users that do, together with what MboxDataProofs adds.  *)
SendersOf(s) == {t \in Tasks : Sending(t) /\ task[t].handle = s}
InFlight(s) == {x \in work \cup ready : x # AtfTrans /\ x[1] = s}
Delivering == poll.pc \in {"copy", "free", "callback", "post"}
DeliveringTo(s) == Delivering /\ poll.trans[1] = s

Armed(t) == task[t].pc \in {"arm", "smc", "unassign"}
Busy(s) == client[s].status = 1 /\ client[s].free = 0

(* Who has client s: nobody, a sender, a transaction or the poll task.     *)
Unused(s) ==
  /\ SendersOf(s) = {} /\ InFlight(s) = {} /\ ~DeliveringTo(s)
  /\ client[s].free # 0 /\ client[s].jobPool = {}
Sent(s) ==
  /\ InFlight(s) = {} /\ ~DeliveringTo(s) /\ Busy(s)
  /\ \E t \in Tasks :
       /\ SendersOf(s) = {t}
       /\ client[s].jobPool = IF Armed(t) THEN {task[t].job} ELSE {}
Carried(s) ==
  /\ SendersOf(s) = {} /\ ~DeliveringTo(s) /\ Busy(s)
  /\ \E j \in Jobs : InFlight(s) = {<<s, j>>} /\ client[s].jobPool = {j}
Delivered(s) ==
  /\ SendersOf(s) = {} /\ InFlight(s) = {} /\ DeliveringTo(s) /\ Busy(s)
  /\ client[s].jobPool = IF poll.pc \in {"copy", "free"}
                         THEN {poll.trans[2]} ELSE {}
Phase(s) == Unused(s) \/ Sent(s) \/ Carried(s) \/ Delivered(s)

(* A task that has a handle has an open client, until it closes it.        *)
Handles ==
  /\ \A t \in Tasks : task[t].handle # None /\ task[t].pc # "closeDelete" =>
                       client[task[t].handle].status = 1
  /\ \A t \in Tasks : Sending(t) \/ task[t].pc = "sem" =>
                       task[t].handle # None
  /\ Delivering => poll.trans # AtfTrans

(* One task allocates the descriptor, when there is no poll task.          *)
Starting ==
  /\ \A t \in Tasks : task[t].pc = "init" =>
       mbox.desc = "fresh" /\ \A u \in Tasks : task[u].pc = "init" => u = t
  /\ mbox.desc # "ready" => poll.pc \in {"none", "gone"}

OnlyClosersClose ==
  \A t \in Tasks \ Closers :
    task[t].pc \notin {"closeList", "closeClient", "closeDelete", "deinit",
                      "deinitFree"}

(* The SDM has answered or has not; what the poll task found ready stays   *)
(* so until it takes it.                                                   *)
Fetched ==
  /\ work \cap ready \subseteq {AtfTrans}
  /\ poll.pc = "next" \/ Delivering => poll.bitmask \ {AtfTrans} \subseteq ready

IInv ==
  /\ TypeOK /\ OnlyClosersClose /\ Starting /\ Handles /\ Fetched
  /\ MutexReleased
  /\ \A s \in Slots : Phase(s)
=============================================================================
