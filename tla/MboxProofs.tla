----------------------------- MODULE MboxProofs -----------------------------
(***************************************************************************)
(* Proofs about MboxClient for any number of tasks, clients and jobs, for  *)
(* tasks that share a client or give up waiting, and for a poll task that  *)
(* other tasks may preempt anywhere.  The one assumption, Closers = {}, is *)
(* that nobody closes the mailbox: mbox_close_client tests for outstanding *)
(* jobs without a lock, and the locks do not make up for it.  (The lemmas  *)
(* do not need it: MboxDataProofs uses them for tasks that close, where no *)
(* task interrupts the poll task.)                                         *)
(*                                                                         *)
(* The argument: a command of a client is with nobody, with the task that  *)
(* sends it, with the SDM, or with the poll task (Phase), and each action  *)
(* keeps the phase of every client or moves one client to its next phase.  *)
(* Control holds the rest of the invariant IInv: types, locations, handles *)
(* and what the poll task has fetched.                                     *)
(***************************************************************************)
EXTENDS MboxClient, FiniteSetTheorems, TLAPS

Closing == {"closeList", "closeClient", "closeDelete", "deinit", "deinitFree"}
Locked == {"assign", "arm", "smc", "unassign", "repost", "unlock"}
SendLocations == {"mutex", "assign", "arm", "smc", "unassign", "repost"}
ArmedLocations == {"arm", "smc", "unassign"}

(* A transaction that is not the firmware's is of a client and a job.      *)
LEMMA TransShape ==
  \A x \in TransIds : x # AtfTrans =>
     /\ x[1] \in Slots /\ x[2] \in Jobs /\ x = <<x[1], x[2]>>
     /\ x[1] # AtfClient
BY MboxAssumption DEF TransIds, AtfTrans, AtfClient

(* A descriptor has the fields of a descriptor.                            *)
LEMMA ClientType ==
  ASSUME TypeOK, NEW s \in Slots
  PROVE  client[s] \in Descriptors
BY DEF TypeOK

(* What the assignments to a client's descriptor leave: the ones to        *)
(* client_free ...                                                         *)
LEMMA SetFree ==
  ASSUME TypeOK, NEW h \in Slots, NEW f \in {0, 1},
         client' = [client EXCEPT ![h].free = f]
  PROVE  /\ client' \in [Slots -> Descriptors]
         /\ \A s \in Slots : s # h => client'[s] = client[s]
         /\ client'[h].status = client[h].status
         /\ client'[h].free = f
         /\ client'[h].jobPool = client[h].jobPool
         /\ client'[h].mutex = client[h].mutex
<1> DEFINE c == [client[h] EXCEPT !.free = f]
<1>0. client[h] \in Descriptors
  BY DEF TypeOK
<1>1. c \in Descriptors
  BY <1>0 DEF Descriptors
<1>2. client' = [client EXCEPT ![h] = c]
  BY DEF TypeOK
<1>3. /\ c.status = client[h].status /\ c.free = f
      /\ c.jobPool = client[h].jobPool /\ c.mutex = client[h].mutex
  BY <1>0 DEF Descriptors
<1> HIDE DEF c
<1> QED
  BY <1>1, <1>2, <1>3 DEF TypeOK

(* ... to client_mutex ...                                                 *)
LEMMA SetMutex ==
  ASSUME TypeOK, NEW h \in Slots, NEW m \in Tasks \cup {None, Dead},
         client' = [client EXCEPT ![h].mutex = m]
  PROVE  /\ client' \in [Slots -> Descriptors]
         /\ \A s \in Slots : s # h => client'[s] = client[s]
         /\ client'[h].status = client[h].status
         /\ client'[h].free = client[h].free
         /\ client'[h].jobPool = client[h].jobPool
         /\ client'[h].mutex = m
<1> DEFINE c == [client[h] EXCEPT !.mutex = m]
<1>0. client[h] \in Descriptors
  BY DEF TypeOK
<1>1. c \in Descriptors
  BY <1>0 DEF Descriptors
<1>2. client' = [client EXCEPT ![h] = c]
  BY DEF TypeOK
<1>3. /\ c.status = client[h].status /\ c.free = client[h].free
      /\ c.jobPool = client[h].jobPool /\ c.mutex = m
  BY <1>0 DEF Descriptors
<1> HIDE DEF c
<1> QED
  BY <1>1, <1>2, <1>3 DEF TypeOK

(* ... to the callback ...                                                 *)
LEMMA SetCallBack ==
  ASSUME TypeOK, NEW h \in Slots, NEW o \in Tasks \cup {None},
         client' = [client EXCEPT ![h].callBack = o]
  PROVE  /\ client' \in [Slots -> Descriptors]
         /\ \A s \in Slots : s # h => client'[s] = client[s]
         /\ client'[h].status = client[h].status
         /\ client'[h].free = client[h].free
         /\ client'[h].jobPool = client[h].jobPool
         /\ client'[h].mutex = client[h].mutex
<1> DEFINE c == [client[h] EXCEPT !.callBack = o]
<1>0. client[h] \in Descriptors
  BY DEF TypeOK
<1>1. c \in Descriptors
  BY <1>0 DEF Descriptors
<1>2. client' = [client EXCEPT ![h] = c]
  BY DEF TypeOK
<1>3. /\ c.status = client[h].status /\ c.free = client[h].free
      /\ c.jobPool = client[h].jobPool /\ c.mutex = client[h].mutex
  BY <1>0 DEF Descriptors
<1> HIDE DEF c
<1> QED
  BY <1>1, <1>2, <1>3 DEF TypeOK

(* ... to the response buffer of a job ...                                 *)
LEMMA SetResp ==
  ASSUME TypeOK, NEW h \in Slots, NEW j \in Jobs, NEW b \in Tasks \cup {None},
         client' = [client EXCEPT ![h].jobResp[j] = b]
  PROVE  /\ client' \in [Slots -> Descriptors]
         /\ \A s \in Slots : s # h => client'[s] = client[s]
         /\ client'[h].status = client[h].status
         /\ client'[h].free = client[h].free
         /\ client'[h].jobPool = client[h].jobPool
         /\ client'[h].mutex = client[h].mutex
<1> DEFINE c == [client[h] EXCEPT !.jobResp[j] = b]
<1>0. client[h] \in Descriptors
  BY DEF TypeOK
<1>1. c \in Descriptors
  BY <1>0 DEF Descriptors
<1>2. client' = [client EXCEPT ![h] = c]
  BY DEF TypeOK
<1>3. /\ c.status = client[h].status /\ c.free = client[h].free
      /\ c.jobPool = client[h].jobPool /\ c.mutex = client[h].mutex
  BY <1>0 DEF Descriptors
<1> HIDE DEF c
<1> QED
  BY <1>1, <1>2, <1>3 DEF TypeOK

(* ... to the bitmap of jobs ...                                           *)
LEMMA SetPool ==
  ASSUME TypeOK, NEW h \in Slots, NEW p \in SUBSET Jobs,
         client' = [client EXCEPT ![h].jobPool = p]
  PROVE  /\ client' \in [Slots -> Descriptors]
         /\ \A s \in Slots : s # h => client'[s] = client[s]
         /\ client'[h].status = client[h].status
         /\ client'[h].free = client[h].free
         /\ client'[h].jobPool = p
         /\ client'[h].mutex = client[h].mutex
<1> DEFINE c == [client[h] EXCEPT !.jobPool = p]
<1>0. client[h] \in Descriptors
  BY DEF TypeOK
<1>1. c \in Descriptors
  BY <1>0 DEF Descriptors
<1>2. client' = [client EXCEPT ![h] = c]
  BY DEF TypeOK
<1>3. /\ c.status = client[h].status /\ c.free = client[h].free
      /\ c.jobPool = p /\ c.mutex = client[h].mutex
  BY <1>0 DEF Descriptors
<1> HIDE DEF c
<1> QED
  BY <1>1, <1>2, <1>3 DEF TypeOK

(* ... to the bitmap and the next job ...                                  *)
LEMMA SetJob ==
  ASSUME TypeOK, NEW h \in Slots, NEW p \in SUBSET Jobs, NEW k \in Jobs,
         client' = [client EXCEPT ![h].jobPool = p, ![h].jobHead = k]
  PROVE  /\ client' \in [Slots -> Descriptors]
         /\ \A s \in Slots : s # h => client'[s] = client[s]
         /\ client'[h].status = client[h].status
         /\ client'[h].free = client[h].free
         /\ client'[h].jobPool = p
         /\ client'[h].mutex = client[h].mutex
<1> DEFINE c == [client[h] EXCEPT !.jobPool = p, !.jobHead = k]
<1>0. client[h] \in Descriptors
  BY DEF TypeOK
<1>1. c \in Descriptors
  BY <1>0 DEF Descriptors
<1>2. client' = [client EXCEPT ![h] = c]
  BY DEF TypeOK
<1>3. /\ c.status = client[h].status /\ c.free = client[h].free
      /\ c.jobPool = p /\ c.mutex = client[h].mutex
  BY <1>0 DEF Descriptors
<1> HIDE DEF c
<1> QED
  BY <1>1, <1>2, <1>3 DEF TypeOK

(* ... and those of mbox_open_client.                                      *)
LEMMA SetOpen ==
  ASSUME TypeOK, NEW h \in Slots,
         client' = [client EXCEPT ![h].status = 1, ![h].free = 1,
                                  ![h].mutex = None]
  PROVE  /\ client' \in [Slots -> Descriptors]
         /\ \A s \in Slots : s # h => client'[s] = client[s]
         /\ client'[h].status = 1
         /\ client'[h].free = 1
         /\ client'[h].jobPool = client[h].jobPool
         /\ client'[h].mutex = None
<1> DEFINE c == [client[h] EXCEPT !.status = 1, !.free = 1, !.mutex = None]
<1>0. client[h] \in Descriptors
  BY DEF TypeOK
<1>1. c \in Descriptors
  BY <1>0 DEF Descriptors
<1>2. client' = [client EXCEPT ![h] = c]
  BY DEF TypeOK
<1>3. /\ c.status = 1 /\ c.free = 1
      /\ c.jobPool = client[h].jobPool /\ c.mutex = None
  BY <1>0 DEF Descriptors
<1> HIDE DEF c
<1>4. client \in [Slots -> Descriptors]
  BY DEF TypeOK
<1>5. /\ client'[h] = c /\ client' \in [Slots -> Descriptors]
      /\ \A s \in Slots : s # h => client'[s] = client[s]
  BY ONLY <1>1, <1>2, <1>4, h \in Slots
<1> QED
  BY ONLY <1>3, <1>5

(* What the locals of a call are, and stay when one of them changes.       *)
LEMMA CallFields ==
  ASSUME TypeOK, NEW t \in Tasks
  PROVE  /\ task[t] \in Calls /\ task[t].handle \in Slots \cup {None}
         /\ task[t].job \in Jobs /\ task[t].wants \in BOOLEAN
         /\ NoCall(task[t].handle) \in Calls
         /\ \A loc \in TaskLocations : [task[t] EXCEPT !.pc = loc] \in Calls
<1>1. task[t] \in Calls
  BY DEF TypeOK
<1>2. /\ task[t].handle \in Slots \cup {None} /\ task[t].job \in Jobs
      /\ task[t].wants \in BOOLEAN
  BY <1>1 DEF Calls
<1>3. 0 \in Jobs /\ "idle" \in TaskLocations
  BY MboxAssumption DEF Jobs, TaskLocations
<1>4. NoCall(task[t].handle) \in Calls
  BY <1>2, <1>3 DEF NoCall, Calls
<1>5. \A loc \in TaskLocations : [task[t] EXCEPT !.pc = loc] \in Calls
  BY <1>1 DEF Calls
<1> QED BY <1>1, <1>2, <1>4, <1>5

(* The record that Goto gives task t.                                      *)
LEMMA Moves ==
  ASSUME TypeOK, NEW t \in Tasks, NEW loc \in TaskLocations, Goto(t, loc)
  PROVE  \E r \in Calls :
           /\ task' = [task EXCEPT ![t] = r] /\ r.pc = loc
           /\ r.handle = task[t].handle /\ r.job = task[t].job
           /\ r.wants = task[t].wants
<1> DEFINE r == [task[t] EXCEPT !.pc = loc]
<1>1. r \in Calls BY CallFields
<1>2. task' = [task EXCEPT ![t] = r] BY DEF Goto, TypeOK
<1>3. /\ r.pc = loc /\ r.handle = task[t].handle /\ r.job = task[t].job
      /\ r.wants = task[t].wants
  BY CallFields DEF Calls
<1> QED BY <1>1, <1>2, <1>3

(* The record that Return gives task t.                                    *)
LEMMA MovesBack ==
  ASSUME TypeOK, NEW t \in Tasks, Return(t)
  PROVE  \E r \in Calls :
           /\ task' = [task EXCEPT ![t] = r] /\ r.pc = "idle"
           /\ r.handle = task[t].handle
<1> DEFINE r == NoCall(task[t].handle)
<1>1. r \in Calls BY CallFields
<1>2. task' = [task EXCEPT ![t] = r] BY DEF Return, TypeOK
<1>3. r.pc = "idle" /\ r.handle = task[t].handle
  BY DEF NoCall
<1> QED BY <1>1, <1>2, <1>3

-----------------------------------------------------------------------------
(* The part of IInv that speaks of one task or of the poll task alone.      *)
Control == /\ TypeOK /\ OnlyClosersClose /\ Starting /\ Handles /\ Fetched
           /\ MutexReleased

(* A step in which task t goes from one location to another keeps Control  *)
(* when it does not set up the mailbox, stays inside the call that locked  *)
(* client_mutex and only opens clients.                                    *)
LEMMA TaskStep ==
  ASSUME IInv, NEW t \in Tasks, NEW r \in Calls,
         task' = [task EXCEPT ![t] = r],
         r.pc \in Closing => t \in Closers, r.pc # "init",
         r.pc \in SendLocations \cup {"sem"} => r.handle # None,
         r.handle # None => client'[r.handle].status = 1,
         \A s \in Slots : client[s].status = 1 => client'[s].status = 1,
         mbox' \in Mailboxes, mbox'.desc = mbox.desc, UNCHANGED poll,
         client' \in [Slots -> Descriptors],
         \A s \in Slots, u \in Tasks : client'[s].mutex = u =>
            \/ u = t /\ r.handle = s /\ r.pc \in Locked
            \/ u # t /\ client[s].mutex = u,
         UNCHANGED ready, work' \subseteq TransIds,
         work' \cap ready \subseteq {AtfTrans}, token' \in [Tasks -> BOOLEAN]
  PROVE  Control'
<1>1. /\ task \in [Tasks -> Calls] /\ task' \in [Tasks -> Calls]
      /\ task'[t] = r
      /\ \A u \in Tasks : u # t => task'[u] = task[u]
  BY DEF IInv, TypeOK
<1>2. TypeOK'
  BY <1>1 DEF IInv, TypeOK
<1>3. OnlyClosersClose'
  BY <1>1 DEF IInv, OnlyClosersClose, Closing
<1>4. Starting'
  BY <1>1 DEF IInv, Starting
<1>5. Handles'
  <2>1. \A u \in Tasks : task[u].handle \in Slots \cup {None}
    BY CallFields DEF IInv
  <2> QED
    BY <1>1, <2>1 DEF IInv, Handles, Sending, SendLocations, Delivering
<1>6. Fetched'
  BY DEF IInv, Fetched, Delivering
<1>7. MutexReleased'
  BY <1>1 DEF IInv, MutexReleased, Locked
<1> QED BY <1>2, <1>3, <1>4, <1>5, <1>6, <1>7 DEF Control

(* The same for a step of the poll task, the handler, the SDM or the       *)
(* firmware.                                                               *)
LEMMA DriverStep ==
  ASSUME IInv, UNCHANGED task,
         mbox' \in Mailboxes, mbox'.desc = mbox.desc, poll' \in Polls,
         mbox.desc # "ready" => poll'.pc \in {"none", "gone"},
         client' \in [Slots -> Descriptors],
         \A s \in Slots : /\ client'[s].mutex = client[s].mutex
                          /\ client'[s].status = client[s].status,
         work' \subseteq TransIds, ready' \subseteq TransIds, Fetched',
         poll'.pc \in {"copy", "free", "callback", "post"} =>
           poll'.trans # AtfTrans,
         token' \in [Tasks -> BOOLEAN]
  PROVE  Control'
<1>2. TypeOK'
  BY DEF IInv, TypeOK
<1>3. OnlyClosersClose'
  BY DEF IInv, OnlyClosersClose
<1>4. Starting'
  BY DEF IInv, Starting
<1>5. Handles'
  <2>1. \A u \in Tasks : task[u].handle \in Slots \cup {None}
    BY CallFields DEF IInv
  <2> QED
    BY <2>1 DEF IInv, Handles, Sending, Delivering
<1>7. MutexReleased'
  BY DEF IInv, MutexReleased
<1> QED BY <1>2, <1>3, <1>4, <1>5, <1>7 DEF Control
-----------------------------------------------------------------------------
(* What a phase of client s speaks of does not change.                     *)
SameClient(s) == /\ client'[s].status = client[s].status
                 /\ client'[s].free = client[s].free
                 /\ client'[s].jobPool = client[s].jobPool
SamePoll(s) == /\ DeliveringTo(s)' <=> DeliveringTo(s)
               /\ DeliveringTo(s) =>
                    /\ poll'.pc \in {"copy", "free"} <=>
                         poll.pc \in {"copy", "free"}
                    /\ poll'.trans = poll.trans
SameSenders(s) ==
  /\ SendersOf(s)' = SendersOf(s)
  /\ \A t \in SendersOf(s) : /\ Armed(t)' <=> Armed(t)
                             /\ task'[t].job = task[t].job

(* A client stays in its phase when nothing that the phase speaks of       *)
(* changes.                                                                *)
LEMMA PhaseKept ==
  ASSUME NEW s \in Slots, Phase(s), SameClient(s), SamePoll(s), SameSenders(s),
         InFlight(s)' = InFlight(s)
  PROVE  Phase(s)'
<1>1. CASE Unused(s)
  BY <1>1 DEF Unused, Phase, SameClient, SamePoll, SameSenders
<1>2. CASE Sent(s)
  BY <1>2 DEF Sent, Phase, SameClient, SamePoll, SameSenders, Busy
<1>3. CASE Carried(s)
  BY <1>3 DEF Carried, Phase, SameClient, SamePoll, SameSenders, Busy
<1>4. CASE Delivered(s)
  BY <1>4 DEF Delivered, Phase, SameClient, SamePoll, SameSenders, Busy
<1> QED BY <1>1, <1>2, <1>3, <1>4 DEF Phase

(* Its senders stay when task t sends before and after its step, or never  *)
(* ...                                                                     *)
LEMMA SendersKept ==
  ASSUME TypeOK, NEW t \in Tasks, NEW r \in Calls,
         task' = [task EXCEPT ![t] = r], NEW s \in Slots,
         task[t].pc \in SendLocations <=> r.pc \in SendLocations,
         task[t].pc \in SendLocations =>
           /\ r.handle = task[t].handle /\ r.job = task[t].job
           /\ r.pc \in ArmedLocations <=> task[t].pc \in ArmedLocations
  PROVE  SameSenders(s)
<1>1. /\ task'[t] = r
      /\ \A u \in Tasks : u # t => task'[u] = task[u]
  BY DEF TypeOK
<1>2. \A u \in Tasks : u \in SendersOf(s)' <=> u \in SendersOf(s)
  BY <1>1 DEF SendersOf, Sending, SendLocations
<1>3. SendersOf(s)' = SendersOf(s)
  BY <1>2 DEF SendersOf
<1>4. \A u \in SendersOf(s) : /\ Armed(u)' <=> Armed(u)
                             /\ task'[u].job = task[u].job
  BY <1>1 DEF SendersOf, Sending, SendLocations, Armed, ArmedLocations
<1> QED BY <1>3, <1>4 DEF SameSenders

(* ... or when it sends with another client.                               *)
LEMMA SendersElsewhere ==
  ASSUME TypeOK, NEW t \in Tasks, NEW r \in Calls,
         task' = [task EXCEPT ![t] = r], NEW s \in Slots,
         task[t].pc \in SendLocations => task[t].handle # s,
         r.pc \in SendLocations => r.handle # s
  PROVE  SameSenders(s)
<1>1. /\ task'[t] = r
      /\ \A u \in Tasks : u # t => task'[u] = task[u]
  BY DEF TypeOK
<1>2. \A u \in Tasks : u \in SendersOf(s)' <=> u \in SendersOf(s)
  BY <1>1 DEF SendersOf, Sending, SendLocations
<1>3. SendersOf(s)' = SendersOf(s)
  BY <1>2 DEF SendersOf
<1>4. \A u \in SendersOf(s) : /\ Armed(u)' <=> Armed(u)
                             /\ task'[u].job = task[u].job
  BY <1>1 DEF SendersOf, Sending, SendLocations, Armed, ArmedLocations
<1> QED BY <1>3, <1>4 DEF SameSenders

(* A step of a task that keeps the phase of every client.                  *)
LEMMA QuietCall ==
  ASSUME IInv, NEW t \in Tasks, NEW r \in Calls,
         task' = [task EXCEPT ![t] = r],
         task[t].pc \in SendLocations <=> r.pc \in SendLocations,
         task[t].pc \in SendLocations =>
                 /\ r.handle = task[t].handle /\ r.job = task[t].job
                 /\ r.pc \in ArmedLocations <=> task[t].pc \in ArmedLocations,
         \A s \in Slots : SameClient(s),
         poll'.trans = poll.trans,
         poll'.pc = poll.pc \/ ~(Delivering \/ Delivering'),
         UNCHANGED <<work, ready>>
  PROVE  \A s \in Slots : Phase(s)'
<1> SUFFICES ASSUME NEW s \in Slots PROVE Phase(s)'
  OBVIOUS
<1>1. SameSenders(s) BY SendersKept DEF IInv
<1>2. SamePoll(s) BY DEF SamePoll, DeliveringTo, Delivering
<1>3. InFlight(s)' = InFlight(s) BY DEF InFlight
<1> QED BY <1>1, <1>2, <1>3, PhaseKept DEF IInv
-----------------------------------------------------------------------------
(* A handle is the handle of an open client, until the task closes it.     *)
LEMMA Held ==
  ASSUME IInv, NEW t \in Tasks
  PROVE  /\ task[t].handle \in Slots \cup {None}
         /\ task[t].handle # None /\ task[t].pc # "closeDelete" =>
              client[task[t].handle].status = 1
         /\ task[t].pc \in SendLocations \cup {"sem"} =>
              task[t].handle \in Slots
<1>1. TypeOK /\ Handles
  BY DEF IInv
<1> QED BY <1>1, CallFields DEF Handles, Sending, SendLocations

(* A step of a task outside of sip_svc_send that changes nothing but the   *)
(* task.                                                                   *)
LEMMA LocalStep ==
  ASSUME IInv, NEW t \in Tasks, NEW r \in Calls,
         task' = [task EXCEPT ![t] = r],
         r.pc \in Closing => t \in Closers,
         r.pc \notin SendLocations \cup {"init"},
         r.pc = "sem" => r.handle # None,
         r.handle # None => client[r.handle].status = 1,
         task[t].pc \notin Locked \cup SendLocations,
         UNCHANGED <<mbox, client, work, ready, poll>>,
         token' \in [Tasks -> BOOLEAN]
  PROVE  IInv'
<1>1. \A s \in Slots, u \in Tasks : client'[s].mutex = u =>
        u # t /\ client[s].mutex = u
  BY DEF IInv, MutexReleased, Locked
<1>2. /\ mbox \in Mailboxes /\ client \in [Slots -> Descriptors]
      /\ work \subseteq TransIds /\ work \cap ready \subseteq {AtfTrans}
  BY DEF IInv, TypeOK, Fetched
<1>3. Control'
  <2>1. \A s \in Slots, u \in Tasks : client'[s].mutex = u =>
          \/ u = t /\ r.handle = s /\ r.pc \in Locked
          \/ u # t /\ client[s].mutex = u
    BY <1>1
  <2>2. /\ r.pc \in Closing => t \in Closers
        /\ r.pc # "init"
        /\ r.pc \in SendLocations \cup {"sem"} => r.handle # None
        /\ r.handle # None => client'[r.handle].status = 1
        /\ \A s \in Slots : client[s].status = 1 => client'[s].status = 1
    OBVIOUS
  <2> QED
    BY <1>2, <2>1, <2>2, TaskStep
<1>4. \A s \in Slots : Phase(s)'
  BY QuietCall DEF SameClient
<1> QED BY <1>3, <1>4 DEF IInv, Control

(* mbox_init, up to the allocation of the descriptor.                      *)
LEMMA StartStep ==
  ASSUME IInv, NEW t \in Tasks, Start(t)
  PROVE  IInv'
<1> USE MboxAssumption
<1>0. task[t].pc = "idle" BY DEF Start, At
<1>1. CASE mbox.desc = "null"
  <2>1. Goto(t, "init") /\ "init" \in TaskLocations
    BY <1>1 DEF Start, TaskLocations
  <2>2. PICK r \in Calls : /\ task' = [task EXCEPT ![t] = r] /\ r.pc = "init"
                           /\ r.handle = task[t].handle
    BY <2>1, Moves DEF IInv
  <2>3. /\ task'[t] = r
        /\ \A u \in Tasks : u # t => task'[u] = task[u]
    BY <2>2 DEF IInv, TypeOK
  <2>4. mbox' \in Mailboxes /\ mbox'.desc = "fresh"
    BY <1>1 DEF Start, IInv, TypeOK, Mailboxes
  <2>5. TypeOK'
    BY <2>2, <2>4 DEF Start, IInv, TypeOK
  <2>6. OnlyClosersClose' /\ Starting' /\ MutexReleased'
    BY <1>0, <1>1, <2>2, <2>3, <2>4
       DEF Start, IInv, OnlyClosersClose, Starting, MutexReleased
  <2>9. Handles'
    BY <2>2, <2>3 DEF Start, IInv, Handles, Sending, Delivering
  <2>7. Fetched' BY DEF Start, IInv, Fetched, Delivering
  <2>8. \A s \in Slots : Phase(s)'
    BY <1>0, <2>2, QuietCall DEF Start, SendLocations, SameClient
  <2> QED BY <2>5, <2>6, <2>7, <2>8, <2>9 DEF IInv
<1>2. CASE mbox.desc # "null"
  <2>1. Goto(t, "open") /\ "open" \in TaskLocations
    BY <1>2 DEF Start, TaskLocations
  <2>2. PICK r \in Calls : /\ task' = [task EXCEPT ![t] = r] /\ r.pc = "open"
                           /\ r.handle = task[t].handle
    BY <2>1, Moves DEF IInv
  <2>3. UNCHANGED <<mbox, client, work, ready, poll, token>>
    BY <1>2 DEF Start
  <2>4. token' \in [Tasks -> BOOLEAN]
    BY <2>3 DEF IInv, TypeOK
  <2> QED
    BY <1>0, <2>2, <2>3, <2>4, Held, LocalStep
       DEF Closing, Locked, SendLocations
<1> QED BY <1>1, <1>2

(* mbox_set_callback takes and gives back client_mutex.                    *)
LEMMA SetCallbackStep ==
  ASSUME IInv, NEW t \in Tasks, mbox_set_callback(t)
  PROVE  IInv'
<1>1. task[t].pc = "setcb" /\ Return(t) /\ task[t].handle \in Slots \cup {None}
  BY CallFields DEF mbox_set_callback, At, IInv
<1>2. PICK r \in Calls : /\ task' = [task EXCEPT ![t] = r] /\ r.pc = "idle"
                         /\ r.handle = task[t].handle
  BY <1>1, MovesBack DEF IInv
<1>3. /\ client' \in [Slots -> Descriptors] /\ \A s \in Slots : SameClient(s)
      /\ \A s \in Slots : client'[s].mutex = client[s].mutex
  <2>1. CASE task[t].handle \in Slots
    BY <2>1, SetCallBack DEF mbox_set_callback, IInv, SameClient
  <2>2. CASE task[t].handle = None
    BY <2>2, MboxAssumption DEF mbox_set_callback, IInv, TypeOK, SameClient
  <2> QED BY <1>1, <2>1, <2>2
<1>4. Control'
  <2>1. \A s \in Slots, u \in Tasks : client'[s].mutex = u =>
          u # t /\ client[s].mutex = u
    BY <1>1, <1>3 DEF IInv, MutexReleased
  <2>2. r.handle # None => client'[r.handle].status = 1
    BY <1>1, <1>2, <1>3, Held DEF SameClient
  <2>3. \A s \in Slots : client[s].status = 1 => client'[s].status = 1
    BY <1>3 DEF SameClient
  <2>4. /\ r.pc \notin Closing /\ r.pc # "init"
        /\ (r.pc \in SendLocations \cup {"sem"} => r.handle # None)
    BY <1>2 DEF Closing, SendLocations
  <2>5. /\ mbox' \in Mailboxes /\ mbox'.desc = mbox.desc
        /\ UNCHANGED <<poll, ready>>
        /\ work' \subseteq TransIds /\ work' \cap ready \subseteq {AtfTrans}
        /\ token' \in [Tasks -> BOOLEAN]
    BY DEF mbox_set_callback, IInv, TypeOK, Fetched
  <2> QED
    BY ONLY IInv, t \in Tasks, r \in Calls, <1>2, <1>3, <2>1, <2>2, <2>3, <2>4,
            <2>5, TaskStep
<1>5. \A s \in Slots : Phase(s)'
  BY <1>1, <1>2, <1>3, QuietCall DEF mbox_set_callback, SendLocations
<1> QED BY <1>4, <1>5 DEF IInv, Control

(* A task gets the handle of a client that is open.                        *)
LEMMA ShareStep ==
  ASSUME IInv, NEW t \in Tasks, Share(t)
  PROVE  IInv'
<1>1. PICK s \in Slots : /\ task' = [task EXCEPT ![t].handle = s]
                         /\ client[s].status = 1
  BY DEF Share
<1> DEFINE r == [task[t] EXCEPT !.handle = s]
<1>2. /\ r \in Calls /\ r.pc = "idle" /\ r.handle = s /\ task[t].pc = "idle"
      /\ task' = [task EXCEPT ![t] = r]
  BY <1>1 DEF Share, At, IInv, TypeOK, Calls
<1>3. /\ UNCHANGED <<mbox, client, work, ready, poll, token>>
      /\ token' \in [Tasks -> BOOLEAN]
  BY DEF Share, IInv, TypeOK
<1> HIDE DEF r
<1> QED
  BY <1>1, <1>2, <1>3, LocalStep DEF Closing, Locked, SendLocations

(* sip_svc_send, up to the wait for client_free.                           *)
LEMMA SendStep ==
  ASSUME IInv, NEW t \in Tasks, NEW w \in BOOLEAN, sip_svc_send(t, w)
  PROVE  IInv'
<1> DEFINE r == [task[t] EXCEPT !.pc = "sem", !.wants = w, !.got = FALSE]
<1>1. /\ task[t].pc = "idle" /\ task[t].handle # None
      /\ UNCHANGED <<mbox, client, work, ready, poll, token>>
      /\ token' \in [Tasks -> BOOLEAN]
  BY DEF sip_svc_send, At, IInv, TypeOK
<1>2. /\ r \in Calls /\ r.pc = "sem" /\ r.handle = task[t].handle
      /\ task' = [task EXCEPT ![t] = r]
  BY DEF sip_svc_send, IInv, TypeOK, Calls, TaskLocations
<1> HIDE DEF r
<1> QED
  BY <1>1, <1>2, Held, LocalStep DEF Closing, Locked, SendLocations

(* The wait for the callback ends, with the callback or without.           *)
LEMMA AwaitStep ==
  ASSUME IInv, NEW t \in Tasks, AwaitCallback(t) \/ AwaitTimeout(t)
  PROVE  IInv'
<1>1. /\ task[t].pc = "await" /\ Return(t)
      /\ UNCHANGED <<mbox, client, work, ready, poll>>
  BY DEF AwaitCallback, AwaitTimeout, At
<1>2. PICK r \in Calls : /\ task' = [task EXCEPT ![t] = r] /\ r.pc = "idle"
                         /\ r.handle = task[t].handle
  BY <1>1, MovesBack DEF IInv
<1>3. token' \in [Tasks -> BOOLEAN]
  BY DEF AwaitCallback, AwaitTimeout, IInv, TypeOK
<1> QED
  BY <1>1, <1>2, <1>3, Held, LocalStep DEF Closing, Locked, SendLocations

(* The sender locks client_mutex.                                          *)
LEMMA SendLockStep ==
  ASSUME IInv, NEW t \in Tasks, SendLock(t)
  PROVE  IInv'
<1> DEFINE h == task[t].handle
<1>1. /\ task[t].pc = "mutex"
      /\ Goto(t, "assign") /\ "assign" \in TaskLocations
      /\ h \in Slots /\ client[h].mutex = None
  BY Held DEF SendLock, At, SendLocations, TaskLocations, Free, Mine
<1>2. PICK r \in Calls : /\ task' = [task EXCEPT ![t] = r] /\ r.pc = "assign"
                         /\ r.handle = h /\ r.job = task[t].job
  BY <1>1, Moves DEF IInv
<1>3. /\ client' \in [Slots -> Descriptors] /\ SameClient(h)
      /\ client'[h].mutex = t
      /\ \A s \in Slots : s # h => client'[s] = client[s]
  BY <1>1, SetMutex DEF SendLock, IInv, SameClient
<1>4. Control'
  <2>1. \A s \in Slots, u \in Tasks : client'[s].mutex = u =>
          \/ u = t /\ r.handle = s /\ r.pc \in Locked
          \/ u # t /\ client[s].mutex = u
    BY <1>1, <1>2, <1>3 DEF IInv, MutexReleased, Locked
  <2>2. r.handle # None => client'[r.handle].status = 1
    BY <1>1, <1>2, <1>3, Held DEF SameClient
  <2>3. \A s \in Slots : client[s].status = 1 => client'[s].status = 1
    BY <1>3 DEF SameClient
  <2> QED
    BY <1>1, <1>2, <1>3, <2>1, <2>2, <2>3, MboxAssumption, TaskStep
       DEF SendLock, IInv, TypeOK, Fetched, Closing
<1>5. \A s \in Slots : Phase(s)'
  BY <1>1, <1>2, <1>3, QuietCall
     DEF SendLock, SendLocations, ArmedLocations, SameClient
<1> QED BY <1>4, <1>5 DEF IInv, Control

(* The sender registers the buffer and enables the interrupt.              *)
LEMMA SendArmStep ==
  ASSUME IInv, NEW t \in Tasks, SendArm(t)
  PROVE  IInv'
<1> DEFINE h == task[t].handle
<1>1. /\ task[t].pc = "arm" /\ Goto(t, "smc") /\ "smc" \in TaskLocations
      /\ h \in Slots /\ task[t].job \in Jobs
  <2>1. task[t].pc = "arm" /\ Goto(t, "smc") /\ TypeOK
    BY DEF SendArm, At, IInv
  <2> QED BY <2>1, Held, CallFields DEF SendLocations, TaskLocations
<1>2. PICK r \in Calls : /\ task' = [task EXCEPT ![t] = r] /\ r.pc = "smc"
                         /\ r.handle = h /\ r.job = task[t].job
  BY <1>1, Moves DEF IInv
<1>3. /\ client' \in [Slots -> Descriptors] /\ SameClient(h)
      /\ client'[h].mutex = client[h].mutex
      /\ \A s \in Slots : s # h => client'[s] = client[s]
  <2>1. (IF task[t].wants THEN t ELSE None) \in Tasks \cup {None}
    OBVIOUS
  <2> QED BY <1>1, <2>1, SetResp DEF SendArm, IInv, SameClient
<1>4. mbox' \in Mailboxes /\ mbox'.desc = mbox.desc
  BY DEF SendArm, IInv, TypeOK, Mailboxes
<1>5. Control'
  <2>1. \A s \in Slots, u \in Tasks : client'[s].mutex = u =>
          \/ u = t /\ r.handle = s /\ r.pc \in Locked
          \/ u # t /\ client[s].mutex = u
    BY <1>1, <1>2, <1>3 DEF IInv, MutexReleased, Locked
  <2>2. r.handle # None => client'[r.handle].status = 1
    BY <1>1, <1>2, <1>3, Held DEF SameClient
  <2>3. \A s \in Slots : client[s].status = 1 => client'[s].status = 1
    BY <1>3 DEF SameClient
  <2>4. /\ work' \subseteq TransIds /\ work' \cap ready \subseteq {AtfTrans}
        /\ token' \in [Tasks -> BOOLEAN] /\ UNCHANGED <<ready, poll>>
    BY DEF SendArm, IInv, TypeOK, Fetched
  <2>5. r.pc \notin Closing /\ r.pc # "init" /\ r.handle # None
    BY <1>1, <1>2, MboxAssumption DEF Closing
  <2> QED
    BY <1>2, <1>3, <1>4, <2>1, <2>2, <2>3, <2>4, <2>5, TaskStep
<1>6. \A s \in Slots : Phase(s)'
  BY <1>1, <1>2, <1>3, QuietCall
     DEF SendArm, SendLocations, ArmedLocations, SameClient
<1> QED BY <1>5, <1>6 DEF IInv, Control

(* The sender unlocks client_mutex.                                        *)
LEMMA SendUnlockStep ==
  ASSUME IInv, NEW t \in Tasks, SendUnlock(t)
  PROVE  IInv'
<1> DEFINE h == task[t].handle
<1>1. task[t].pc = "unlock" /\ h \in Slots \cup {None}
  BY CallFields DEF SendUnlock, At, IInv
<1>2. PICK r \in Calls : /\ task' = [task EXCEPT ![t] = r] /\ r.handle = h
                         /\ r.pc \in {"idle", "await"}
  <2>1. CASE task[t].wants
    BY <2>1, Moves DEF SendUnlock, IInv, TaskLocations
  <2>2. CASE ~task[t].wants
    BY <2>2, MovesBack DEF SendUnlock, IInv
  <2> QED BY <2>1, <2>2
<1>3. /\ client' \in [Slots -> Descriptors] /\ \A s \in Slots : SameClient(s)
      /\ \A s \in Slots : \/ s = h /\ client'[s].mutex = None
                          \/ s # h /\ client'[s].mutex = client[s].mutex
  <2>1. CASE h \in Slots
    <3>1. client' = [client EXCEPT ![h].mutex = None] /\ TypeOK
      BY DEF SendUnlock, IInv
    <3> QED BY <2>1, <3>1, SetMutex DEF SameClient
  <2>2. CASE h = None
    BY <2>2, MboxAssumption DEF SendUnlock, IInv, TypeOK, SameClient
  <2> QED BY <1>1, <2>1, <2>2
<1>4. Control'
  <2>1. \A s \in Slots, u \in Tasks : client'[s].mutex = u =>
          \/ u = t /\ r.handle = s /\ r.pc \in Locked
          \/ u # t /\ client[s].mutex = u
    BY <1>1, <1>3, MboxAssumption DEF IInv, MutexReleased
  <2>2. r.handle # None => client'[r.handle].status = 1
    BY <1>1, <1>2, <1>3, Held DEF SameClient
  <2>3. \A s \in Slots : client[s].status = 1 => client'[s].status = 1
    BY <1>3 DEF SameClient
  <2> QED
    BY <1>2, <1>3, <2>1, <2>2, <2>3, TaskStep
       DEF SendUnlock, IInv, TypeOK, Fetched, Closing, SendLocations
<1>5. \A s \in Slots : Phase(s)'
  BY <1>1, <1>2, <1>3, QuietCall DEF SendUnlock, SendLocations
<1> QED BY <1>4, <1>5 DEF IInv, Control

(* The rest of mbox_init: the poll task exists from here on.               *)
LEMMA InitStep ==
  ASSUME IInv, NEW t \in Tasks, mbox_init(t)
  PROVE  IInv'
<1>1. /\ task[t].pc = "init" /\ Goto(t, "open") /\ "open" \in TaskLocations
      /\ mbox.desc = "fresh" /\ poll.pc \in {"none", "gone"}
      /\ \A u \in Tasks : u # t => task[u].pc # "init"
  BY DEF mbox_init, At, IInv, Starting, TaskLocations
<1>2. PICK r \in Calls : /\ task' = [task EXCEPT ![t] = r] /\ r.pc = "open"
                         /\ r.handle = task[t].handle
  BY <1>1, Moves DEF IInv
<1>3. /\ task'[t] = r
      /\ \A u \in Tasks : u # t => task'[u] = task[u]
  BY <1>2 DEF IInv, TypeOK
<1>4. /\ mbox' \in Mailboxes /\ mbox'.desc = "ready"
      /\ poll' \in Polls /\ poll'.pc = "wait" /\ poll'.trans = poll.trans
  <2>1. 0 \in 0 .. MaxCount
    BY MboxAssumption
  <2>2. mbox \in Mailboxes /\ poll \in Polls
    BY DEF IInv, TypeOK
  <2>3. mbox' \in Mailboxes /\ mbox'.desc = "ready"
    BY <2>1, <2>2 DEF mbox_init, Mailboxes
  <2>4. poll' \in Polls /\ poll'.pc = "wait" /\ poll'.trans = poll.trans
    BY <2>2 DEF mbox_init, Polls, PollLocations
  <2> QED BY <2>3, <2>4
<1>5. TypeOK'
  BY <1>2, <1>4 DEF mbox_init, IInv, TypeOK
<1>6. OnlyClosersClose' /\ Starting' /\ Handles' /\ MutexReleased'
  BY <1>1, <1>2, <1>3, <1>4 DEF mbox_init, IInv, OnlyClosersClose, Starting,
     Handles, MutexReleased, Sending, Delivering
<1>7. Fetched'
  BY <1>4 DEF mbox_init, IInv, Fetched, Delivering
<1>8. \A s \in Slots : Phase(s)'
  BY <1>1, <1>2, <1>4, QuietCall
     DEF mbox_init, SendLocations, SameClient, Delivering
<1> QED BY <1>5, <1>6, <1>7, <1>8 DEF IInv

-----------------------------------------------------------------------------
(* A step of the poll task, the handler, the SDM or the firmware that keeps*)
(* the phase of every client.                                              *)
LEMMA QuietDriver ==
  ASSUME IInv, UNCHANGED task, \A s \in Slots : SameClient(s),
         \A s \in Slots : SamePoll(s),
         \A x \in Slots \X Jobs :
           x \in work' \cup ready' <=> x \in work \cup ready,
         work' \cup ready' \subseteq TransIds
  PROVE  \A s \in Slots : Phase(s)'
<1> SUFFICES ASSUME NEW s \in Slots PROVE Phase(s)'
  OBVIOUS
<1>1. SameSenders(s)
  BY DEF SameSenders, SendersOf, Sending, Armed
<1>2. InFlight(s)' = InFlight(s)
  <2>1. \A x \in TransIds : x # AtfTrans => x \in Slots \X Jobs
    BY DEF TransIds
  <2> QED BY <2>1 DEF InFlight, IInv, TypeOK
<1> QED BY <1>1, <1>2, PhaseKept DEF IInv

(* The handler disables the interrupt and posts call_complete_sem.         *)
LEMMA IrqStep ==
  ASSUME IInv, mbox_irq_handler
  PROVE  IInv'
<1>1. mbox' \in Mailboxes /\ mbox'.desc = mbox.desc
  <2>1. mbox \in Mailboxes /\ mbox.count \in 0 .. MaxCount
    BY DEF IInv, TypeOK, Mailboxes
  <2>2. (IF mbox.count < MaxCount THEN mbox.count + 1 ELSE mbox.count)
          \in 0 .. MaxCount
    BY <2>1, MboxAssumption
  <2> QED BY <2>1, <2>2 DEF mbox_irq_handler, Mailboxes
<1>2. Control'
  BY <1>1, DriverStep
     DEF mbox_irq_handler, IInv, TypeOK, Starting, Fetched, Handles, Delivering
<1>3. \A s \in Slots : Phase(s)'
  BY QuietDriver DEF mbox_irq_handler, IInv, TypeOK, SameClient, SamePoll,
                     DeliveringTo, Delivering
<1> QED BY <1>2, <1>3 DEF IInv, Control

(* A transaction goes from the SDM to the firmware.                        *)
LEMMA RespondStep ==
  ASSUME IInv, NEW x \in TransIds, SdmRespond(x)
  PROVE  IInv'
<1>1. Fetched' /\ work' \subseteq TransIds /\ ready' \subseteq TransIds
  BY DEF SdmRespond, IInv, TypeOK, Fetched, Delivering
<1>2. Control'
  BY <1>1, DriverStep
     DEF SdmRespond, IInv, TypeOK, Starting, Handles, Delivering
<1>3. \A s \in Slots : Phase(s)'
  BY <1>1, QuietDriver
     DEF SdmRespond, SameClient, SamePoll, DeliveringTo, Delivering
<1> QED BY <1>2, <1>3 DEF IInv, Control

(* The firmware's own transaction comes or goes.                           *)
LEMMA AtfStep ==
  ASSUME IInv, AtfTransaction
  PROVE  IInv'
<1>1. AtfTrans \in TransIds /\ AtfTrans \notin Slots \X Jobs
  BY MboxAssumption DEF TransIds, AtfTrans
<1>2. Fetched' /\ ready' \subseteq TransIds
  BY <1>1 DEF AtfTransaction, IInv, TypeOK, Fetched, Delivering
<1>3. Control'
  BY <1>2, DriverStep
     DEF AtfTransaction, IInv, TypeOK, Starting, Handles, Delivering
<1>4. \A s \in Slots : Phase(s)'
  BY <1>1, <1>2, QuietDriver
     DEF AtfTransaction, IInv, TypeOK, SameClient, SamePoll, DeliveringTo,
         Delivering
<1> QED BY <1>3, <1>4 DEF IInv, Control

(* A step of the poll task that takes or hands over no transaction.        *)
LEMMA PollQuiet ==
  ASSUME IInv, NEW p \in Polls, poll' = p, poll.pc \notin {"none", "gone"},
         UNCHANGED <<task, client, work, ready>>,
         mbox' \in Mailboxes, mbox'.desc = mbox.desc,
         token' \in [Tasks -> BOOLEAN],
         p.pc \in {"next", "copy", "free", "callback", "post"} =>
           p.bitmask \ {AtfTrans} \subseteq ready,
         \/ ~Delivering /\ ~Delivering'
         \/ /\ Delivering /\ Delivering' /\ p.trans = poll.trans
            /\ p.pc \in {"copy", "free"} <=> poll.pc \in {"copy", "free"}
  PROVE  IInv'
<1>1. Fetched'
  BY DEF IInv, Fetched, Delivering
<1>2. Control'
  BY <1>1, DriverStep DEF IInv, TypeOK, Starting, Handles, Delivering
<1>3. \A s \in Slots : Phase(s)'
  BY QuietDriver DEF IInv, TypeOK, SameClient, SamePoll, DeliveringTo
<1> QED BY <1>2, <1>3 DEF IInv, Control

(* The locals of the poll task.                                            *)
LEMMA PollShape ==
  ASSUME IInv
  PROVE  /\ poll \in Polls /\ poll.pc \in PollLocations
         /\ poll.bitmask \in SUBSET TransIds /\ poll.trans \in TransIds
         /\ poll.pc = "next" \/ Delivering =>
              poll.bitmask \ {AtfTrans} \subseteq ready
         /\ \A loc \in PollLocations :
              /\ [poll EXCEPT !.pc = loc] \in Polls
              /\ [poll EXCEPT !.pc = loc].pc = loc
              /\ [poll EXCEPT !.pc = loc].trans = poll.trans
              /\ [poll EXCEPT !.pc = loc].bitmask = poll.bitmask
<1>1. poll \in Polls
  BY DEF IInv, TypeOK
<1>2. poll.pc = "next" \/ Delivering =>
        poll.bitmask \ {AtfTrans} \subseteq ready
  BY DEF IInv, Fetched
<1> QED BY <1>1, <1>2 DEF Polls

(* The poll task wakes up.                                                 *)
LEMMA PollWaitStep ==
  ASSUME IInv, PollWait
  PROVE  IInv'
<1> DEFINE loc == IF mbox.state = "CLOSED" THEN "gone" ELSE "trans"
           p == [poll EXCEPT !.pc = loc]
<1>1. /\ loc \in PollLocations /\ loc \in {"gone", "trans"}
      /\ poll.pc = "wait" /\ poll' = p
  BY DEF PollWait, PollAt, PollGoto, PollLocations
<1>2. mbox' \in Mailboxes /\ mbox'.desc = mbox.desc
  <2>1. mbox \in Mailboxes /\ mbox.count \in 0 .. MaxCount /\ mbox.count > 0
    BY DEF IInv, TypeOK, Mailboxes, PollWait
  <2>2. mbox.count - 1 \in 0 .. MaxCount
    BY <2>1, MboxAssumption
  <2> QED BY <2>1, <2>2 DEF PollWait, Mailboxes
<1>3. p \in Polls /\ p.pc = loc
  BY <1>1, PollShape
<1>4. UNCHANGED <<task, client, work, ready>> /\ token' \in [Tasks -> BOOLEAN]
  BY DEF PollWait, IInv, TypeOK
<1> HIDE DEF p, loc
<1> QED BY <1>1, <1>2, <1>3, <1>4, PollQuiet DEF Delivering

(* The poll task fetches the bitmask of what is ready.                     *)
LEMMA GetTransStep ==
  ASSUME IInv, NEW ok \in BOOLEAN, PollGetTrans(ok)
  PROVE  IInv'
<1> DEFINE b == IF ok THEN ready ELSE {}
           p == [poll EXCEPT !.pc = "next", !.bitmask = b]
<1>1. poll.pc = "trans" /\ poll' = p
  BY DEF PollGetTrans, PollAt
<1>2. b \subseteq TransIds /\ b \subseteq ready
  BY DEF IInv, TypeOK
<1>3. p \in Polls /\ p.pc = "next" /\ p.bitmask = b
  BY <1>2, PollShape DEF Polls, PollLocations
<1>4. /\ UNCHANGED <<mbox, task, client, work, ready>>
      /\ token' \in [Tasks -> BOOLEAN] /\ mbox' \in Mailboxes
  BY DEF PollGetTrans, IInv, TypeOK
<1> HIDE DEF p, b
<1> QED BY <1>1, <1>2, <1>3, <1>4, PollQuiet DEF Delivering

(* The poll task skips a transaction, or fails to get its response.        *)
LEMMA SkipStep ==
  ASSUME IInv, NEW x \in TransIds, NEW ok \in BOOLEAN, PollGetResp(x, ok),
         ~(ok /\ x[1] # AtfClient)
  PROVE  IInv'
<1> DEFINE p == [pc |-> "next", bitmask |-> poll.bitmask \ {x},
                 trans |-> poll.trans]
<1>1. poll.pc = "next" /\ poll' = p
  BY DEF PollGetResp, PollAt
<1>2. p \in Polls /\ p.pc = "next" /\ p.bitmask \ {AtfTrans} \subseteq ready
  BY <1>1, PollShape DEF Polls, PollLocations
<1>3. /\ UNCHANGED <<mbox, task, client, work, ready>>
      /\ token' \in [Tasks -> BOOLEAN] /\ mbox' \in Mailboxes
  BY DEF PollGetResp, IInv, TypeOK
<1> HIDE DEF p
<1> QED BY <1>1, <1>2, <1>3, PollQuiet DEF Delivering

(* The poll task calls the callback.                                       *)
LEMMA CallbackStep ==
  ASSUME IInv, PollCallback
  PROVE  IInv'
<1> DEFINE p == [poll EXCEPT !.pc = "post"]
<1>1. poll.pc = "callback" /\ poll' = p /\ "post" \in PollLocations
  BY DEF PollCallback, PollAt, PollGoto, PollLocations
<1>2. /\ p \in Polls /\ p.pc = "post" /\ p.trans = poll.trans
      /\ p.bitmask \ {AtfTrans} \subseteq ready
  BY <1>1, PollShape DEF Delivering
<1>3. /\ UNCHANGED <<mbox, task, client, work, ready>>
      /\ token' \in [Tasks -> BOOLEAN] /\ mbox' \in Mailboxes
  BY DEF PollCallback, IInv, TypeOK
<1> HIDE DEF p
<1> QED BY <1>1, <1>2, <1>3, PollQuiet DEF Delivering

(* The poll task ends its round.                                           *)
LEMMA RearmStep ==
  ASSUME IInv, PollRearm
  PROVE  IInv'
<1> DEFINE p == [poll EXCEPT !.pc = "wait"]
<1>1. poll.pc = "next" /\ poll' = p /\ "wait" \in PollLocations
  BY DEF PollRearm, PollAt, PollGoto, PollLocations
<1>2. p \in Polls /\ p.pc = "wait"
  BY <1>1, PollShape
<1>3. mbox' \in Mailboxes /\ mbox'.desc = mbox.desc
  BY DEF PollRearm, IInv, TypeOK, Mailboxes
<1>4. /\ UNCHANGED <<task, client, work, ready>>
      /\ token' \in [Tasks -> BOOLEAN]
  BY DEF PollRearm, IInv, TypeOK
<1> HIDE DEF p
<1> QED BY <1>1, <1>2, <1>3, <1>4, PollQuiet DEF Delivering

(* The poll task copies the response; the model sees it in got alone.      *)
LEMMA CopyStep ==
  ASSUME IInv, PollCopy
  PROVE  IInv'
<1> DEFINE p == [poll EXCEPT !.pc = "free"]
<1>1. poll.pc = "copy" /\ poll' = p /\ "free" \in PollLocations
  BY DEF PollCopy, PollAt, PollGoto, PollLocations
<1>2. /\ p \in Polls /\ p.pc = "free" /\ p.trans = poll.trans
      /\ p.bitmask = poll.bitmask
  BY <1>1, PollShape
<1>3. /\ task' \in [Tasks -> Calls]
      /\ \A t \in Tasks : /\ task'[t].pc = task[t].pc
                          /\ task'[t].handle = task[t].handle
                          /\ task'[t].job = task[t].job
  <2>1. CASE task' = task
    BY <2>1 DEF IInv, TypeOK
  <2>2. CASE task' # task
    <3>1. task' = [task EXCEPT ![Target].got = TRUE]
      BY <2>2 DEF PollCopy
    <3> DEFINE r == [task[Target] EXCEPT !.got = TRUE]
    <3>2. ASSUME Target \in Tasks
          PROVE  /\ r \in Calls /\ r.pc = task[Target].pc
                 /\ r.handle = task[Target].handle
                 /\ r.job = task[Target].job
      <4>1. task[Target] \in Calls
        BY <3>2 DEF IInv, TypeOK
      <4> QED BY <4>1 DEF Calls
    <3>3. task' = [task EXCEPT ![Target] = r]
      BY <3>1 DEF IInv, TypeOK
    <3> HIDE DEF r
    <3> QED BY <3>2, <3>3 DEF IInv, TypeOK
  <2> QED BY <2>1, <2>2
<1>4. UNCHANGED <<mbox, client, work, ready, token>>
  BY DEF PollCopy
<1> HIDE DEF p
<1>5. TypeOK'
  BY <1>1, <1>2, <1>3, <1>4 DEF IInv, TypeOK
<1>6. OnlyClosersClose' /\ Starting' /\ Handles' /\ MutexReleased'
  BY <1>1, <1>2, <1>3, <1>4 DEF IInv, OnlyClosersClose, Starting, Handles,
     MutexReleased, Sending, Delivering
<1>7. Fetched'
  BY <1>1, <1>2, <1>4 DEF IInv, Fetched, Delivering
<1>8. ASSUME NEW s \in Slots
      PROVE  Phase(s)'
  <2>1. SameSenders(s)
    BY <1>3 DEF SameSenders, SendersOf, Sending, Armed
  <2>2. SamePoll(s) /\ SameClient(s) /\ InFlight(s)' = InFlight(s)
    BY <1>1, <1>2, <1>4
       DEF SamePoll, SameClient, InFlight, DeliveringTo, Delivering
  <2> QED BY <2>1, <2>2, PhaseKept DEF IInv
<1> QED BY <1>5, <1>6, <1>7, <1>8 DEF IInv

-----------------------------------------------------------------------------
(* A task between the wait for client_free and the end of the command has  *)
(* its client to itself.                                                   *)
LEMMA SentBy ==
  ASSUME IInv, NEW t \in Tasks, task[t].pc \in SendLocations
  PROVE  LET h == task[t].handle IN
           /\ h \in Slots /\ SendersOf(h) = {t} /\ InFlight(h) = {}
           /\ ~DeliveringTo(h) /\ Busy(h)
           /\ client[h].jobPool =
                IF task[t].pc \in ArmedLocations THEN {task[t].job} ELSE {}
<1> DEFINE h == task[t].handle
<1>1. h \in Slots /\ Phase(h)
  BY Held DEF IInv
<1>2. t \in SendersOf(h)
  BY DEF SendersOf, Sending, SendLocations
<1>3. Sent(h)
  BY <1>1, <1>2 DEF Phase, Unused, Carried, Delivered
<1>4. PICK u \in Tasks :
         /\ SendersOf(h) = {u}
         /\ client[h].jobPool = IF Armed(u) THEN {task[u].job} ELSE {}
  BY <1>3 DEF Sent
<1>5. u = t
  BY <1>2, <1>4
<1> QED
  <2>1. Armed(t) <=> task[t].pc \in ArmedLocations
    BY DEF Armed, ArmedLocations
  <2>2. /\ SendersOf(h) = {t}
        /\ client[h].jobPool = IF Armed(t) THEN {task[t].job} ELSE {}
    BY <1>4, <1>5
  <2>3. InFlight(h) = {} /\ ~DeliveringTo(h) /\ Busy(h)
    BY <1>3 DEF Sent
  <2> QED BY <1>1, <2>1, <2>2, <2>3

(* The senders of client h after a step of its only sender.                *)
LEMMA SendersMove ==
  ASSUME TypeOK, NEW t \in Tasks, NEW r \in Calls,
         task' = [task EXCEPT ![t] = r], NEW h \in Slots,
         SendersOf(h) \subseteq {t}
  PROVE  /\ r.pc \notin SendLocations => SendersOf(h)' = {}
         /\ r.pc \in SendLocations /\ r.handle = h => SendersOf(h)' = {t}
<1>1. task'[t] = r /\ \A u \in Tasks : u # t => task'[u] = task[u]
  BY DEF TypeOK
<1> QED
  BY <1>1 DEF SendersOf, Sending, SendLocations

(* A step of a sender of client h keeps the phase of the others.           *)
LEMMA Elsewhere ==
  ASSUME IInv, NEW t \in Tasks, NEW r \in Calls,
         task' = [task EXCEPT ![t] = r], NEW h,
         task[t].pc \in SendLocations => task[t].handle = h,
         r.pc \in SendLocations => r.handle = h,
         UNCHANGED <<ready, poll>>,
         \A s \in Slots : s # h => client'[s] = client[s],
         \A x \in work' \cup work :
           x \in TransIds /\ (x[1] # h => x \in work /\ x \in work')
  PROVE  \A s \in Slots : s # h => Phase(s)'
<1> SUFFICES ASSUME NEW s \in Slots, s # h PROVE Phase(s)'
  OBVIOUS
<1>1. SameSenders(s)
  <2>1. TypeOK
    BY DEF IInv
  <2>2. /\ task[t].pc \in SendLocations => task[t].handle # s
        /\ r.pc \in SendLocations => r.handle # s
    OBVIOUS
  <2> QED BY <2>1, <2>2, SendersElsewhere
<1>2. SamePoll(s) /\ SameClient(s)
  BY DEF SamePoll, SameClient, DeliveringTo, Delivering
<1>3. InFlight(s)' = InFlight(s)
  BY DEF InFlight
<1> QED BY <1>1, <1>2, <1>3, PhaseKept DEF IInv

(* A step of a sender of client h keeps Control.                           *)
LEMMA SenderControl ==
  ASSUME IInv, NEW t \in Tasks, NEW r \in Calls, NEW h \in Slots,
         task' = [task EXCEPT ![t] = r], task[t].handle = h, r.handle = h,
         r.pc \notin Closing, r.pc # "init",
         task[t].pc \in Locked => r.pc \in Locked,
         client' \in [Slots -> Descriptors],
         \A s \in Slots : s # h => client'[s] = client[s],
         client'[h].status = 1, client'[h].mutex = client[h].mutex,
         UNCHANGED <<mbox, ready, poll, token>>, work' \subseteq TransIds,
         work' \cap ready \subseteq {AtfTrans}
  PROVE  Control'
<1>1. \A s \in Slots, u \in Tasks : client'[s].mutex = u =>
        \/ u = t /\ r.handle = s /\ r.pc \in Locked
        \/ u # t /\ client[s].mutex = u
  BY DEF IInv, MutexReleased, Locked
<1>2. mbox' \in Mailboxes /\ token' \in [Tasks -> BOOLEAN]
  BY DEF IInv, TypeOK
<1>3. r.handle # None
  BY MboxAssumption
<1> QED BY <1>1, <1>2, <1>3, TaskStep

(* mbox_open_client: an unused client stays unused.                        *)
LEMMA OpenStep ==
  ASSUME IInv, NEW t \in Tasks, mbox_open_client(t)
  PROVE  IInv'
<1>1. task[t].pc = "open" /\ UNCHANGED <<mbox, work, ready, poll, token>>
  BY DEF mbox_open_client, At
<1>2. CASE Return(t) /\ UNCHANGED client
  <2>1. PICK r \in Calls : /\ task' = [task EXCEPT ![t] = r] /\ r.pc = "idle"
                           /\ r.handle = task[t].handle
    BY <1>2, MovesBack DEF IInv
  <2>2. token' \in [Tasks -> BOOLEAN]
    BY <1>1 DEF IInv, TypeOK
  <2> QED
    BY <1>1, <1>2, <2>1, <2>2, Held, LocalStep
       DEF Closing, Locked, SendLocations
<1>3. ASSUME NEW i \in Slots, client[i].status = 0,
             client' = [client EXCEPT ![i].status = 1, ![i].free = 1,
                                      ![i].mutex = None],
             task' = [task EXCEPT ![t].pc = "setcb", ![t].handle = i]
      PROVE  IInv'
  <2> DEFINE r == [task[t] EXCEPT !.pc = "setcb", !.handle = i]
  <2>1. /\ r \in Calls /\ r.pc = "setcb" /\ r.handle = i
        /\ task' = [task EXCEPT ![t] = r]
    BY <1>3 DEF IInv, TypeOK, Calls, TaskLocations
  <2> HIDE DEF r
  <2>2. /\ client' \in [Slots -> Descriptors]
        /\ \A s \in Slots : s # i => client'[s] = client[s]
        /\ client'[i].status = 1 /\ client'[i].free = 1
        /\ client'[i].jobPool = client[i].jobPool /\ client'[i].mutex = None
    BY <1>3, SetOpen DEF IInv
  <2>3. Control'
    <3>1. \A s \in Slots, u \in Tasks : client'[s].mutex = u =>
            \/ u = t /\ r.handle = s /\ r.pc \in Locked
            \/ u # t /\ client[s].mutex = u
      BY <1>1, <2>2, MboxAssumption DEF IInv, MutexReleased
    <3>2. /\ mbox' \in Mailboxes /\ mbox'.desc = mbox.desc
          /\ work' \subseteq TransIds /\ work' \cap ready \subseteq {AtfTrans}
          /\ token' \in [Tasks -> BOOLEAN]
      BY <1>1 DEF IInv, TypeOK, Fetched
    <3>3. /\ r.pc \notin Closing /\ r.pc # "init" /\ r.handle # None
          /\ client'[r.handle].status = 1
          /\ \A s \in Slots : client[s].status = 1 => client'[s].status = 1
      BY <2>1, <2>2, MboxAssumption DEF Closing
    <3> QED
      BY ONLY IInv, t \in Tasks, <1>1, <2>1, <2>2, <3>1, <3>2, <3>3, TaskStep
  <2>4. \A s \in Slots : s # i => Phase(s)'
    <3>1. /\ task[t].pc \notin SendLocations /\ r.pc \notin SendLocations
          /\ \A x \in work' \cup work :
               x \in TransIds /\ (x[1] # i => x \in work /\ x \in work')
      BY <1>1, <2>1 DEF SendLocations, IInv, TypeOK
    <3> QED
      BY ONLY IInv, t \in Tasks, <1>1, <2>1, <2>2, <3>1, Elsewhere
  <2>5. Unused(i)'
    <3>1. Phase(i)
      BY DEF IInv
    <3>2. Unused(i)
      BY <1>3, <3>1 DEF Phase, Sent, Carried, Delivered, Busy
    <3>3. SendersOf(i)' = {}
      BY <2>1, <3>2, SendersMove DEF SendLocations, Unused, IInv
    <3> QED
      BY <1>1, <2>2, <3>2, <3>3
         DEF Unused, InFlight, DeliveringTo, Delivering
  <2> QED BY <2>3, <2>4, <2>5 DEF IInv, Control, Phase
<1> QED BY <1>2, <1>3 DEF mbox_open_client

(* The wait for client_free: an unused client goes to the sender.          *)
LEMMA WaitFreeStep ==
  ASSUME IInv, NEW t \in Tasks, SendWaitFree(t)
  PROVE  IInv'
<1>0. PICK h \in Slots : h = task[t].handle
  <2>1. task[t].pc = "sem"
    BY DEF SendWaitFree, At
  <2> QED BY <2>1, Held
<1>1. /\ task[t].pc = "sem" /\ h # None /\ client[h].status = 1
      /\ UNCHANGED <<mbox, work, ready, poll, token>>
  BY <1>0, Held, MboxAssumption DEF SendWaitFree, At
<1>2. PICK r \in Calls : /\ task' = [task EXCEPT ![t] = r] /\ r.pc = "mutex"
                         /\ r.handle = h
  BY <1>0, Moves DEF SendWaitFree, IInv, TaskLocations
<1>3. /\ client' \in [Slots -> Descriptors]
      /\ \A s \in Slots : s # h => client'[s] = client[s]
      /\ client'[h].status = 1 /\ client'[h].free = 0
      /\ client'[h].jobPool = client[h].jobPool
      /\ client'[h].mutex = client[h].mutex
  BY <1>0, <1>1, SetFree DEF SendWaitFree, IInv
<1>4. Control'
  <2>1. work \subseteq TransIds /\ work \cap ready \subseteq {AtfTrans}
    BY DEF IInv, TypeOK, Fetched
  <2> QED
    BY <1>0, <1>1, <1>2, <1>3, <2>1, SenderControl DEF Closing, Locked
<1>5. \A s \in Slots : s # h => Phase(s)'
  BY <1>1, <1>2, <1>3, Elsewhere DEF SendLocations, IInv, TypeOK
<1>6. Sent(h)'
  <2>1. Phase(h) /\ client[h].free = 1
    <3>1. \A s \in Slots : Phase(s)
      BY DEF IInv
    <3> QED BY <1>0, <3>1 DEF SendWaitFree, Mine
  <2>2. Unused(h)
    BY <2>1 DEF Phase, Sent, Carried, Delivered, Busy
  <2>3. SendersOf(h)' = {t}
    BY <1>1, <1>2, <2>2, SendersMove DEF SendLocations, Unused, IInv
  <2>4. ~Armed(t)'
    BY <1>2 DEF Armed, IInv, TypeOK
  <2>5. InFlight(h)' = {} /\ ~DeliveringTo(h)' /\ Busy(h)'
    BY <1>1, <1>3, <2>2 DEF Unused, InFlight, DeliveringTo, Delivering, Busy
  <2> QED
    BY <1>3, <2>2, <2>3, <2>4, <2>5 DEF Sent, Unused
<1> QED BY <1>4, <1>5, <1>6 DEF IInv, Control, Phase

(* assign_job_id: the bitmap is empty, the sender gets a job.              *)
LEMMA AssignStep ==
  ASSUME IInv, NEW t \in Tasks, assign_job_id(t)
  PROVE  IInv'
<1>0. task[t].pc = "assign" /\ UNCHANGED <<mbox, work, ready, poll, token>>
  BY DEF assign_job_id, At
<1>1. PICK h \in Slots : h = task[t].handle
  BY <1>0, Held DEF SendLocations
<1>2. /\ SendersOf(h) = {t} /\ InFlight(h) = {} /\ ~DeliveringTo(h)
      /\ Busy(h) /\ client[h].jobPool = {}
  BY <1>0, <1>1, SentBy DEF SendLocations, ArmedLocations
<1>3. PICK i \in Jobs, k \in Jobs :
        /\ client' = [client EXCEPT ![h].jobPool = {i}, ![h].jobHead = k]
        /\ task' = [task EXCEPT ![t].pc = "arm", ![t].job = i]
  <2>1. 0 \in Jobs /\ Jobs \ Mine(t).jobPool # {}
    BY <1>1, <1>2, MboxAssumption DEF Mine, Jobs
  <2>2. PICK i \in Jobs :
          /\ client' = [client EXCEPT
               ![task[t].handle].jobPool = @ \cup {i},
               ![task[t].handle].jobHead = (i + 1) % MaxJob]
          /\ task' = [task EXCEPT ![t].pc = "arm", ![t].job = i]
    BY <2>1 DEF assign_job_id
  <2>3. (i + 1) % MaxJob \in Jobs
    BY MboxAssumption DEF Jobs
  <2>4. client' = [client EXCEPT ![h].jobPool = {i},
                                 ![h].jobHead = (i + 1) % MaxJob]
    BY <1>1, <1>2, <2>2 DEF IInv, TypeOK
  <2> QED BY <2>2, <2>3, <2>4
<1> DEFINE r == [task[t] EXCEPT !.pc = "arm", !.job = i]
<1>4. /\ r \in Calls /\ r.pc = "arm" /\ r.handle = h /\ r.job = i
      /\ task' = [task EXCEPT ![t] = r]
  BY <1>1, <1>3 DEF IInv, TypeOK, Calls, TaskLocations
<1> HIDE DEF r
<1>5. /\ client' \in [Slots -> Descriptors]
      /\ \A s \in Slots : s # h => client'[s] = client[s]
      /\ client'[h].status = 1 /\ client'[h].free = 0
      /\ client'[h].jobPool = {i} /\ client'[h].mutex = client[h].mutex
  BY <1>2, <1>3, SetJob DEF IInv, Busy
<1>6. Control'
  <2>1. work \subseteq TransIds /\ work \cap ready \subseteq {AtfTrans}
    BY DEF IInv, TypeOK, Fetched
  <2> QED
    BY <1>0, <1>1, <1>4, <1>5, <2>1, SenderControl DEF Closing, Locked
<1>7. \A s \in Slots : s # h => Phase(s)'
  BY <1>0, <1>1, <1>4, <1>5, Elsewhere DEF SendLocations, IInv, TypeOK
<1>8. Sent(h)'
  <2>1. SendersOf(h)' = {t}
    BY <1>2, <1>4, SendersMove DEF SendLocations, IInv
  <2>2. Armed(t)' /\ task'[t].job = i
    BY <1>4 DEF Armed, IInv, TypeOK
  <2>3. InFlight(h)' = {} /\ ~DeliveringTo(h)' /\ Busy(h)'
    BY <1>0, <1>2, <1>5 DEF InFlight, DeliveringTo, Delivering, Busy
  <2> QED
    BY <1>5, <2>1, <2>2, <2>3 DEF Sent
<1> QED BY <1>6, <1>7, <1>8 DEF IInv, Control, Phase

(* The command goes to the SDM, or is refused and stays with the sender.   *)
LEMMA SmcStep ==
  ASSUME IInv, NEW t \in Tasks, SendSmc(t)
  PROVE  IInv'
<1>0. task[t].pc = "smc" /\ UNCHANGED <<mbox, client, ready, poll, token>>
  BY DEF SendSmc, At
<1>1. PICK h \in Slots : h = task[t].handle
  BY <1>0, Held DEF SendLocations
<1>2. /\ SendersOf(h) = {t} /\ InFlight(h) = {} /\ ~DeliveringTo(h)
      /\ Busy(h) /\ client[h].jobPool = {task[t].job}
  BY <1>0, <1>1, SentBy DEF SendLocations, ArmedLocations
<1>3. /\ task[t].job \in Jobs /\ client \in [Slots -> Descriptors]
      /\ work \subseteq TransIds /\ work \cap ready \subseteq {AtfTrans}
      /\ client[h].status = 1
  BY <1>2, CallFields DEF IInv, TypeOK, Fetched, Busy
<1>4. CASE /\ task' = [task EXCEPT ![t].pc = "unassign", ![t].wants = FALSE]
           /\ UNCHANGED work
  <2> DEFINE r == [task[t] EXCEPT !.pc = "unassign", !.wants = FALSE]
  <2>1. /\ r \in Calls /\ r.pc = "unassign" /\ r.handle = h
        /\ r.job = task[t].job /\ task' = [task EXCEPT ![t] = r]
    BY <1>1, <1>4 DEF IInv, TypeOK, Calls, TaskLocations
  <2> HIDE DEF r
  <2>2. Control'
    <3>1. /\ r.pc \notin Closing /\ r.pc # "init" /\ r.pc \in Locked
          /\ client' = client /\ task[t].handle = h /\ work' = work
      BY <1>0, <1>1, <1>4, <2>1 DEF Closing, Locked
    <3> QED
      BY ONLY IInv, t \in Tasks, h \in Slots, <1>0, <1>3, <2>1, <3>1,
              SenderControl
  <2>3. \A s \in Slots : Phase(s)'
    BY <1>0, <1>1, <1>4, <2>1, QuietCall
       DEF SendLocations, ArmedLocations, SameClient
  <2> QED BY <2>2, <2>3 DEF IInv, Control
<1>5. CASE /\ Goto(t, "unlock")
           /\ work' = work \cup {<<task[t].handle, task[t].job>>}
  <2>0. PICK j \in Jobs : j = task[t].job
    BY <1>3
  <2>1. PICK r \in Calls : /\ task' = [task EXCEPT ![t] = r] /\ r.pc = "unlock"
                           /\ r.handle = h
    BY <1>1, <1>5, Moves DEF IInv, TaskLocations
  <2>2. /\ <<h, j>> \in TransIds /\ <<h, j>> # AtfTrans /\ <<h, j>>[1] = h
        /\ work' = work \cup {<<h, j>>}
    BY <1>1, <1>5, <2>0, MboxAssumption DEF TransIds, AtfTrans
  <2>3. <<h, j>> \notin ready
    BY <1>2, <2>2 DEF InFlight
  <2>4. Control'
    <3>1. work' \subseteq TransIds /\ work' \cap ready \subseteq {AtfTrans}
      BY <1>3, <2>2, <2>3
    <3>2. /\ r.pc \notin Closing /\ r.pc # "init" /\ r.pc \in Locked
          /\ client' = client /\ task[t].handle = h
      BY <1>0, <1>1, <2>1 DEF Closing, Locked
    <3> QED
      BY ONLY IInv, t \in Tasks, h \in Slots, r \in Calls, <1>0, <1>3, <2>1,
              <3>1, <3>2, SenderControl
  <2>5. \A s \in Slots : s # h => Phase(s)'
    <3>1. \A x \in work' \cup work :
            x \in TransIds /\ (x[1] # h => x \in work /\ x \in work')
      BY <1>3, <2>2
    <3> QED
      BY ONLY IInv, t \in Tasks, r \in Calls, <1>0, <1>1, <2>1, <3>1, Elsewhere
  <2>6. Carried(h)'
    <3>1. SendersOf(h)' = {}
      BY <1>2, <2>1, SendersMove DEF SendLocations, IInv
    <3>2. ~DeliveringTo(h)' /\ Busy(h)' /\ client'[h].jobPool = {j}
      BY <1>0, <1>2, <2>0 DEF DeliveringTo, Delivering, Busy
    <3>3. InFlight(h)' = {<<h, j>>}
      BY <1>0, <1>2, <2>2 DEF InFlight
    <3> QED BY <3>1, <3>2, <3>3 DEF Carried
  <2> QED BY <2>4, <2>5, <2>6 DEF IInv, Control, Phase
<1> QED BY <1>4, <1>5 DEF SendSmc

(* A job to which no response will come is freed.                          *)
LEMMA FreeStep ==
  ASSUME IInv, NEW t \in Tasks, SendFree(t)
  PROVE  IInv'
<1>0. task[t].pc = "unassign" /\ UNCHANGED <<mbox, work, ready, poll, token>>
  BY DEF SendFree, At
<1>1. PICK h \in Slots : h = task[t].handle
  BY <1>0, Held DEF SendLocations
<1>2. /\ SendersOf(h) = {t} /\ InFlight(h) = {} /\ ~DeliveringTo(h)
      /\ Busy(h) /\ client[h].jobPool = {task[t].job}
  BY <1>0, <1>1, SentBy DEF SendLocations, ArmedLocations
<1>3. /\ Goto(t, "repost")
      /\ client' = [client EXCEPT ![h].jobPool = {}]
  <2>1. Goto(t, "repost") /\ free_job_id(h, task[t].job)
    BY <1>1, <1>2 DEF SendFree, Mine
  <2> QED BY <1>2, <2>1 DEF free_job_id, IInv, TypeOK
<1>4. PICK r \in Calls : /\ task' = [task EXCEPT ![t] = r] /\ r.pc = "repost"
                         /\ r.handle = h
  BY <1>1, <1>3, Moves DEF IInv, TaskLocations
<1>5. /\ client' \in [Slots -> Descriptors]
      /\ \A s \in Slots : s # h => client'[s] = client[s]
      /\ client'[h].status = 1 /\ client'[h].free = 0
      /\ client'[h].jobPool = {} /\ client'[h].mutex = client[h].mutex
  BY <1>2, <1>3, SetPool DEF IInv, Busy
<1>6. Control'
  <2>1. work \subseteq TransIds /\ work \cap ready \subseteq {AtfTrans}
    BY DEF IInv, TypeOK, Fetched
  <2> QED
    BY <1>0, <1>1, <1>4, <1>5, <2>1, SenderControl DEF Closing, Locked
<1>7. \A s \in Slots : s # h => Phase(s)'
  BY <1>0, <1>1, <1>4, <1>5, Elsewhere DEF SendLocations, IInv, TypeOK
<1>8. Sent(h)'
  <2>1. SendersOf(h)' = {t}
    BY <1>2, <1>4, SendersMove DEF SendLocations, IInv
  <2>2. ~Armed(t)'
    BY <1>4 DEF Armed, IInv, TypeOK
  <2>3. InFlight(h)' = {} /\ ~DeliveringTo(h)' /\ Busy(h)'
    BY <1>0, <1>2, <1>5 DEF InFlight, DeliveringTo, Delivering, Busy
  <2> QED
    BY <1>5, <2>1, <2>2, <2>3 DEF Sent
<1> QED BY <1>6, <1>7, <1>8 DEF IInv, Control, Phase

(* client_free is given back by the sender.                                *)
LEMMA RepostStep ==
  ASSUME IInv, NEW t \in Tasks, SendRepost(t)
  PROVE  IInv'
<1>0. task[t].pc = "repost" /\ UNCHANGED <<mbox, work, ready, poll, token>>
  BY DEF SendRepost, At
<1>1. PICK h \in Slots : h = task[t].handle
  BY <1>0, Held DEF SendLocations
<1>2. /\ SendersOf(h) = {t} /\ InFlight(h) = {} /\ ~DeliveringTo(h)
      /\ Busy(h) /\ client[h].jobPool = {}
  BY <1>0, <1>1, SentBy DEF SendLocations, ArmedLocations
<1>3. Goto(t, "unlock") /\ client' = [client EXCEPT ![h].free = 1]
  BY <1>1, <1>2 DEF SendRepost, Mine, Busy
<1>4. PICK r \in Calls : /\ task' = [task EXCEPT ![t] = r] /\ r.pc = "unlock"
                         /\ r.handle = h
  BY <1>1, <1>3, Moves DEF IInv, TaskLocations
<1>5. /\ client' \in [Slots -> Descriptors]
      /\ \A s \in Slots : s # h => client'[s] = client[s]
      /\ client'[h].status = 1 /\ client'[h].free = 1
      /\ client'[h].jobPool = {} /\ client'[h].mutex = client[h].mutex
  BY <1>2, <1>3, SetFree DEF IInv, Busy
<1>6. Control'
  <2>1. work \subseteq TransIds /\ work \cap ready \subseteq {AtfTrans}
    BY DEF IInv, TypeOK, Fetched
  <2> QED
    BY <1>0, <1>1, <1>4, <1>5, <2>1, SenderControl DEF Closing, Locked
<1>7. \A s \in Slots : s # h => Phase(s)'
  BY <1>0, <1>1, <1>4, <1>5, Elsewhere DEF SendLocations, IInv, TypeOK
<1>8. Unused(h)'
  <2>1. SendersOf(h)' = {}
    BY <1>2, <1>4, SendersMove DEF SendLocations, IInv
  <2>2. InFlight(h)' = {} /\ ~DeliveringTo(h)'
    BY <1>0, <1>2 DEF InFlight, DeliveringTo, Delivering
  <2> QED
    BY <1>5, <2>1, <2>2 DEF Unused
<1> QED BY <1>6, <1>7, <1>8 DEF IInv, Control, Phase

-----------------------------------------------------------------------------
(* A step of the poll task for client h keeps the phase of the others.     *)
LEMMA DriverElsewhere ==
  ASSUME IInv, UNCHANGED task, NEW h \in Slots,
         \A s \in Slots : s # h => client'[s] = client[s],
         Delivering => poll.trans[1] = h, Delivering' => poll'.trans[1] = h,
         UNCHANGED work, ready' \subseteq ready,
         \A x \in ready \ ready' : x[1] = h
  PROVE  \A s \in Slots : s # h => Phase(s)'
<1> SUFFICES ASSUME NEW s \in Slots, s # h PROVE Phase(s)'
  OBVIOUS
<1>1. SameSenders(s)
  BY DEF SameSenders, SendersOf, Sending, Armed
<1>2. SamePoll(s) /\ SameClient(s)
  BY DEF SamePoll, SameClient, DeliveringTo
<1>3. InFlight(s)' = InFlight(s)
  BY DEF InFlight
<1> QED BY <1>1, <1>2, <1>3, PhaseKept DEF IInv

(* SIP_SMC_GET_RESP: the transaction goes from the SDM to the poll task.   *)
LEMMA TakeStep ==
  ASSUME IInv, NEW x \in TransIds, NEW ok \in BOOLEAN, PollGetResp(x, ok),
         ok /\ x[1] # AtfClient
  PROVE  IInv'
<1>1. /\ poll.pc = "next" /\ x \in poll.bitmask /\ ready' = ready \ {x}
      /\ poll' = [pc |-> "copy", bitmask |-> poll.bitmask \ {x}, trans |-> x]
      /\ UNCHANGED <<mbox, client, work, task, token>>
  BY DEF PollGetResp, PollAt
<1>2. x # AtfTrans
  BY DEF AtfTrans
<1>3. PICK h \in Slots, j \in Jobs : x = <<h, j>> /\ x[1] = h /\ x[2] = j
  BY <1>2, TransShape
<1>4. x \in ready /\ x \notin work
  BY <1>1, <1>2, PollShape DEF IInv, Fetched
<1>5. /\ SendersOf(h) = {} /\ InFlight(h) = {x} /\ Busy(h)
      /\ client[h].jobPool = {j}
  <2>1. ~DeliveringTo(h) /\ x \in InFlight(h)
    BY <1>1, <1>2, <1>3, <1>4 DEF DeliveringTo, Delivering, InFlight
  <2>2. Carried(h)
    <3>1. Phase(h)
      BY DEF IInv
    <3> QED BY <2>1, <3>1 DEF Phase, Unused, Sent, Delivered
  <2>3. PICK k \in Jobs : InFlight(h) = {<<h, k>>} /\ client[h].jobPool = {k}
    BY <2>2 DEF Carried
  <2>4. k = j
    BY <1>3, <2>1, <2>3
  <2> QED BY <1>3, <2>2, <2>3, <2>4 DEF Carried
<1>6. Control'
  <2>1. poll' \in Polls /\ poll'.pc = "copy" /\ poll'.trans = x
    BY <1>1, PollShape DEF Polls, PollLocations
  <2>2. Fetched'
    BY <1>1, PollShape DEF IInv, Fetched, Delivering
  <2>3. /\ mbox' \in Mailboxes /\ client' \in [Slots -> Descriptors]
        /\ work' \subseteq TransIds /\ ready' \subseteq TransIds
        /\ token' \in [Tasks -> BOOLEAN]
    BY <1>1 DEF IInv, TypeOK
  <2>4. mbox.desc = "ready"
    BY <1>1 DEF IInv, Starting
  <2> QED BY <1>1, <1>2, <2>1, <2>2, <2>3, <2>4, DriverStep
<1>7. \A s \in Slots : s # h => Phase(s)'
  BY <1>1, <1>3, DriverElsewhere DEF Delivering
<1>8. Delivered(h)'
  <2>1. SendersOf(h)' = {}
    BY <1>1, <1>5 DEF SendersOf, Sending
  <2>2. InFlight(h)' = {}
    BY <1>1, <1>4, <1>5 DEF InFlight
  <2>3. DeliveringTo(h)' /\ Busy(h)' /\ client'[h].jobPool = {j}
    BY <1>1, <1>3, <1>5 DEF DeliveringTo, Delivering, Busy
  <2> QED BY <1>1, <1>3, <2>1, <2>2, <2>3 DEF Delivered
<1> QED BY <1>6, <1>7, <1>8 DEF IInv, Control, Phase

(* What the poll task delivers is a command of a client.                   *)
LEMMA DeliveredTo ==
  ASSUME IInv, Delivering
  PROVE  \E h \in Slots, j \in Jobs :
           /\ poll.trans[1] = h /\ poll.trans[2] = j /\ Delivered(h)
<1>1. poll.trans \in TransIds /\ poll.trans # AtfTrans
  BY PollShape DEF IInv, Handles
<1>2. PICK h \in Slots, j \in Jobs : poll.trans[1] = h /\ poll.trans[2] = j
  BY <1>1, TransShape
<1>3. DeliveringTo(h) /\ Phase(h)
  BY <1>2 DEF DeliveringTo, IInv
<1> QED BY <1>2, <1>3 DEF Phase, Unused, Sent, Carried

(* The poll task frees the job, which is in the bitmap.                    *)
LEMMA PollFreeStep ==
  ASSUME IInv, PollFree
  PROVE  IInv'
<1>1. poll.pc = "free" /\ UNCHANGED <<mbox, work, ready, task, token>>
  BY DEF PollFree, PollAt
<1>2. PICK h \in Slots, j \in Jobs :
        /\ poll.trans[1] = h /\ poll.trans[2] = j /\ Delivered(h)
  BY <1>1, DeliveredTo DEF Delivering
<1>3. /\ SendersOf(h) = {} /\ InFlight(h) = {} /\ Busy(h)
      /\ client[h].jobPool = {j}
  BY <1>1, <1>2 DEF Delivered
<1>4. /\ poll' = [poll EXCEPT !.pc = "callback"]
      /\ client' = [client EXCEPT ![h].jobPool = {}]
  <2>1. PollGoto("callback") /\ free_job_id(h, j)
    BY <1>2, <1>3 DEF PollFree
  <2> QED BY <1>3, <2>1 DEF PollGoto, free_job_id, IInv, TypeOK
<1>5. /\ poll' \in Polls /\ poll'.pc = "callback" /\ poll'.trans = poll.trans
      /\ poll'.bitmask = poll.bitmask
  BY <1>4, PollShape DEF PollLocations
<1>6. /\ client' \in [Slots -> Descriptors]
      /\ \A s \in Slots : s # h => client'[s] = client[s]
      /\ client'[h].status = 1 /\ client'[h].free = 0
      /\ client'[h].jobPool = {} /\ client'[h].mutex = client[h].mutex
  BY <1>3, <1>4, SetPool DEF IInv, Busy
<1>7. Control'
  <2>1. Fetched'
    BY <1>1, <1>5, PollShape DEF IInv, Fetched, Delivering
  <2>2. /\ mbox' \in Mailboxes /\ work' \subseteq TransIds
        /\ ready' \subseteq TransIds /\ token' \in [Tasks -> BOOLEAN]
    BY <1>1 DEF IInv, TypeOK
  <2>3. mbox.desc = "ready" /\ poll'.trans # AtfTrans
    BY <1>1, <1>5 DEF IInv, Starting, Handles, Delivering
  <2>4. \A s \in Slots : /\ client'[s].mutex = client[s].mutex
                         /\ client'[s].status = client[s].status
    BY <1>3, <1>6 DEF Busy
  <2> QED BY <1>1, <1>5, <1>6, <2>1, <2>2, <2>3, <2>4, DriverStep
<1>8. \A s \in Slots : s # h => Phase(s)'
  BY <1>1, <1>2, <1>5, <1>6, DriverElsewhere DEF Delivering
<1>9. Delivered(h)'
  <2>1. SendersOf(h)' = {} /\ InFlight(h)' = {}
    BY <1>1, <1>3 DEF SendersOf, Sending, InFlight
  <2>2. DeliveringTo(h)' /\ Busy(h)'
    BY <1>2, <1>5, <1>6 DEF DeliveringTo, Delivering, Busy
  <2> QED BY <1>5, <1>6, <2>1, <2>2 DEF Delivered
<1> QED BY <1>7, <1>8, <1>9 DEF IInv, Control, Phase

(* The poll task gives client_free back.                                   *)
LEMMA PollPostStep ==
  ASSUME IInv, PollPost
  PROVE  IInv'
<1>1. poll.pc = "post" /\ UNCHANGED <<mbox, work, ready, task, token>>
  BY DEF PollPost, PollAt
<1>2. PICK h \in Slots, j \in Jobs :
        /\ poll.trans[1] = h /\ poll.trans[2] = j /\ Delivered(h)
  BY <1>1, DeliveredTo DEF Delivering
<1>3. /\ SendersOf(h) = {} /\ InFlight(h) = {} /\ Busy(h)
      /\ client[h].jobPool = {}
  BY <1>1, <1>2 DEF Delivered
<1>4. /\ poll' = [poll EXCEPT !.pc = "next", !.trans = AtfTrans]
      /\ client' = [client EXCEPT ![h].free = 1]
  BY <1>2 DEF PollPost
<1>5. /\ poll' \in Polls /\ poll'.pc = "next" /\ poll'.bitmask = poll.bitmask
  <2>1. AtfTrans \in TransIds /\ "next" \in PollLocations /\ poll \in Polls
    BY PollShape DEF TransIds, PollLocations
  <2> QED BY <1>4, <2>1 DEF Polls
<1>6. /\ client' \in [Slots -> Descriptors]
      /\ \A s \in Slots : s # h => client'[s] = client[s]
      /\ client'[h].status = 1 /\ client'[h].free = 1
      /\ client'[h].jobPool = {} /\ client'[h].mutex = client[h].mutex
  BY <1>3, <1>4, SetFree DEF IInv, Busy
<1>7. Control'
  <2>1. Fetched'
    BY <1>1, <1>5, PollShape DEF IInv, Fetched, Delivering
  <2>2. /\ mbox' \in Mailboxes /\ work' \subseteq TransIds
        /\ ready' \subseteq TransIds /\ token' \in [Tasks -> BOOLEAN]
    BY <1>1 DEF IInv, TypeOK
  <2>3. mbox.desc = "ready"
    BY <1>1 DEF IInv, Starting
  <2>4. \A s \in Slots : /\ client'[s].mutex = client[s].mutex
                         /\ client'[s].status = client[s].status
    BY <1>3, <1>6 DEF Busy
  <2> QED BY <1>1, <1>5, <1>6, <2>1, <2>2, <2>3, <2>4, DriverStep
<1>8. \A s \in Slots : s # h => Phase(s)'
  BY <1>1, <1>2, <1>5, <1>6, DriverElsewhere DEF Delivering
<1>9. Unused(h)'
  <2>1. SendersOf(h)' = {} /\ InFlight(h)' = {}
    BY <1>1, <1>3 DEF SendersOf, Sending, InFlight
  <2>2. ~DeliveringTo(h)'
    BY <1>5 DEF DeliveringTo, Delivering
  <2> QED BY <1>6, <2>1, <2>2 DEF Unused
<1> QED BY <1>7, <1>8, <1>9 DEF IInv, Control, Phase

-----------------------------------------------------------------------------
(* The steps of closing a client and the mailbox.                          *)
Closes(t) == \/ mbox_close_client(t) \/ CloseLockList(t) \/ CloseReset(t)
             \/ CloseDelete(t) \/ mbox_deinit(t) \/ DeinitFree(t)

(* The three facts behind the theorem: the invariant holds at the start ...*)
LEMMA InitIInv == Init => IInv
<1> SUFFICES ASSUME Init PROVE IInv
  OBVIOUS
<1>1. TypeOK
  BY MboxAssumption DEF Init, TypeOK, ClosedClient, Descriptors, Calls,
     Mailboxes, Polls, Jobs, NoCall, TaskLocations, PollLocations, TransIds
<1>2. OnlyClosersClose /\ Starting /\ Handles
  BY DEF Init, OnlyClosersClose, Starting, Handles, NoCall, Sending, Delivering
<1>3. Fetched /\ MutexReleased
  BY MboxAssumption
     DEF Init, Fetched, Delivering, MutexReleased, ClosedClient
<1>4. \A s \in Slots : Unused(s)
  BY MboxAssumption DEF Init, Unused, SendersOf, Sending, NoCall, InFlight,
                        DeliveringTo, Delivering, ClosedClient
<1> QED BY <1>1, <1>2, <1>3, <1>4 DEF IInv, Phase

(* ... is kept by every step that is not one of closing the mailbox ...    *)
LEMMA StepIInv ==
  ASSUME IInv, [Next]_vars, \A t \in Tasks : ~Closes(t)
  PROVE  IInv'
<1>1. ASSUME NEW t \in Tasks, Continue(t)
      PROVE  IInv'
  <2>1. ~( \/ CloseLockList(t) \/ CloseReset(t) \/ CloseDelete(t)
           \/ mbox_deinit(t) \/ DeinitFree(t) )
    BY DEF Closes
  <2> QED
    BY <1>1, <2>1, InitStep, OpenStep, SetCallbackStep, WaitFreeStep,
       SendLockStep, AssignStep, SendArmStep, SmcStep, FreeStep, RepostStep,
       SendUnlockStep, AwaitStep
       DEF Continue
<1>2. ASSUME NEW t \in Tasks, Choose(t)
      PROVE  IInv'
  <2>1. ~mbox_close_client(t)
    BY DEF Closes
  <2> QED
    BY <1>2, <2>1, StartStep, ShareStep, SendStep, AwaitStep DEF Choose
<1>3. ASSUME mbox_poll_resp_task
      PROVE  IInv'
  <2>1. ASSUME NEW ok \in BOOLEAN, NEW x \in TransIds, PollGetResp(x, ok)
        PROVE  IInv'
    BY <2>1, SkipStep, TakeStep
  <2> QED
    BY <1>3, <2>1, PollWaitStep, CopyStep, PollFreeStep, CallbackStep,
       PollPostStep, RearmStep, GetTransStep
       DEF mbox_poll_resp_task
<1>4. CASE UNCHANGED vars
  <2>1. Control'
    BY <1>4 DEF vars, IInv, Control, TypeOK, OnlyClosersClose, Starting,
                Handles, Fetched, MutexReleased, Sending, Delivering
  <2>2. \A s \in Slots : Phase(s)'
    BY <1>4, QuietDriver DEF vars, IInv, TypeOK, SameClient, SamePoll,
                             DeliveringTo, Delivering
  <2> QED BY <2>1, <2>2 DEF IInv, Control
<1> QED
  BY <1>1, <1>2, <1>3, <1>4, RespondStep, IrqStep, AtfStep DEF Next

(* ... and nothing but such steps is left when no task is a closer.        *)
LEMMA NobodyCloses ==
  ASSUME Closers = {}, IInv, NEW t \in Tasks
  PROVE  ~Closes(t) /\ task[t].pc \notin Closing
<1>1. task[t].pc \notin Closing
  BY DEF IInv, OnlyClosersClose, Closing
<1> QED
  BY <1>1 DEF Closes, mbox_close_client, CloseLockList, CloseReset,
              CloseDelete, mbox_deinit, DeinitFree, At, Closing

(* The phases of the clients, for every mailbox that nobody closes: a      *)
(* command is with one of sender, SDM and poll task, which gives it on to  *)
(* the next.                                                               *)
THEOREM Invariance ==
  ASSUME Closers = {}
  PROVE  Spec => []IInv
<1>1. IInv /\ [Next]_vars => IInv'
  BY NobodyCloses, StepIInv
<1> QED
  BY <1>1, InitIInv, PTL DEF Spec

(* ... and implies that the bitmap of a client is its outstanding jobs ... *)
LEMMA IInvJobPool == IInv => JobPoolExact
<1> SUFFICES ASSUME IInv, NEW s \in Slots
             PROVE  client[s].jobPool = Outstanding(s)
  BY DEF JobPoolExact
<1>1. \A j \in Jobs : <<s, j>> # AtfTrans /\ <<s, j>>[1] = s
  <2>1. s # AtfClient
    BY MboxAssumption
  <2> QED BY <2>1 DEF AtfTrans
<1>2. \A j \in Jobs : <<s, j>> \in work \cup ready <=> <<s, j>> \in InFlight(s)
  BY <1>1 DEF InFlight
<1>3. \A j \in Jobs, t \in Tasks :
        task[t].handle = s /\ task[t].pc \in {"arm", "smc", "unassign"} <=>
          t \in SendersOf(s) /\ Armed(t)
  BY DEF SendersOf, Sending, Armed
<1>4. \A j \in Jobs : j \in Outstanding(s) <=>
        \/ <<s, j>> \in InFlight(s)
        \/ poll.pc \in {"copy", "free"} /\ poll.trans = <<s, j>>
        \/ \E t \in SendersOf(s) : Armed(t) /\ task[t].job = j
  <2>1. \A j \in Jobs :
          (\E t \in Tasks : /\ task[t].handle = s /\ task[t].job = j
                            /\ task[t].pc \in {"arm", "smc", "unassign"})
          <=> \E t \in SendersOf(s) : Armed(t) /\ task[t].job = j
    BY <1>3 DEF SendersOf
  <2> QED BY <1>2, <2>1 DEF Outstanding
<1>5. \A j \in Jobs : poll.pc \in {"copy", "free"} =>
        (poll.trans = <<s, j>> <=> DeliveringTo(s) /\ poll.trans[2] = j)
  <2>1. poll.pc \in {"copy", "free"} =>
          poll.trans \in TransIds /\ poll.trans # AtfTrans
    BY PollShape DEF IInv, Handles, Delivering
  <2> QED BY <2>1, TransShape DEF DeliveringTo, Delivering
<1>6. Phase(s) /\ client[s].jobPool \subseteq Jobs
  BY ClientType DEF IInv, Descriptors
<1>7. CASE Unused(s)
  <2>1. \A j \in Jobs : j \notin Outstanding(s)
    BY <1>4, <1>5, <1>7 DEF Unused
  <2> QED BY <1>7, <2>1 DEF Unused, Outstanding
<1>8. CASE Sent(s)
  <2>1. PICK t \in Tasks :
          /\ SendersOf(s) = {t} /\ InFlight(s) = {} /\ ~DeliveringTo(s)
          /\ client[s].jobPool = IF Armed(t) THEN {task[t].job} ELSE {}
    BY <1>8 DEF Sent
  <2>2. \A j \in Jobs : j \in Outstanding(s) <=> Armed(t) /\ task[t].job = j
    BY <1>4, <1>5, <2>1
  <2> QED BY <1>6, <2>1, <2>2 DEF Outstanding
<1>9. CASE Carried(s)
  <2>1. PICK k \in Jobs : InFlight(s) = {<<s, k>>} /\ client[s].jobPool = {k}
    BY <1>9 DEF Carried
  <2>2. \A j \in Jobs : j \in Outstanding(s) <=> j = k
    BY <1>4, <1>5, <1>9, <2>1 DEF Carried
  <2> QED BY <2>1, <2>2 DEF Outstanding
<1>10. CASE Delivered(s)
  <2>1. \A j \in Jobs : j \in Outstanding(s) <=>
          poll.pc \in {"copy", "free"} /\ poll.trans[2] = j
    BY <1>4, <1>5, <1>10 DEF Delivered
  <2>2. client[s].jobPool = IF poll.pc \in {"copy", "free"}
                            THEN {poll.trans[2]} ELSE {}
    BY <1>10 DEF Delivered
  <2> QED BY <1>6, <2>1, <2>2 DEF Outstanding
<1> QED BY <1>6, <1>7, <1>8, <1>9, <1>10 DEF Phase

(* ... and that client_free is 0 exactly while a command is under way.     *)
LEMMA IInvOneCommand == IInv => OneCommandPerClient
<1> SUFFICES ASSUME IInv, NEW s \in Slots, client[s].status = 1
    PROVE  /\ Cardinality(SendersOf(s)) <= 1
           /\ client[s].free = 0 <=>
                \/ SendersOf(s) # {} \/ client[s].jobPool # {}
                \/ poll.pc \in {"callback", "post"} /\ poll.trans[1] = s
  <2>1. \A s \in Slots :
          {t \in Tasks : task[t].handle = s /\ Sending(t)} = SendersOf(s)
    BY DEF SendersOf
  <2> QED BY <2>1 DEF OneCommandPerClient
<1>1. Cardinality({}) = 0 /\ \A t \in Tasks : Cardinality({t}) = 1
  BY FS_EmptySet, FS_Singleton
<1>2. Phase(s)
  BY DEF IInv
<1>3. CASE Unused(s)
  BY <1>1, <1>3 DEF Unused, DeliveringTo, Delivering
<1>4. CASE Sent(s)
  BY <1>1, <1>4 DEF Sent, Busy
<1>5. CASE Carried(s)
  BY <1>1, <1>5 DEF Carried, Busy
<1>6. CASE Delivered(s)
  BY <1>1, <1>6 DEF Delivered, Busy, DeliveringTo, Delivering
<1> QED BY <1>2, <1>3, <1>4, <1>5, <1>6 DEF Phase

(* assign_job_id and free_job_id keep the bitmap of jobs exact: no job is  *)
(* lost or given out twice, and free_job_id never sets a bit by flipping   *)
(* it.                                                                     *)
THEOREM JobsExact ==
  ASSUME Closers = {}
  PROVE  Spec => []JobPoolExact
BY Invariance, IInvJobPool, PTL

(* A client has one command at a time, and every path of sip_svc_send and  *)
(* of the poll task gives client_free back.                                *)
THEOREM OneCommand ==
  ASSUME Closers = {}
  PROVE  Spec => []OneCommandPerClient
BY Invariance, IInvOneCommand, PTL

(* No path of sip_svc_send returns with client_mutex locked.               *)
THEOREM MutexNotLeft ==
  ASSUME Closers = {}
  PROVE  Spec => []MutexReleased
<1>1. IInv => MutexReleased
  BY DEF IInv
<1> QED BY <1>1, Invariance, PTL
=============================================================================
