--------------------------- MODULE MboxDataProofs ---------------------------
(***************************************************************************)
(* Proofs about MboxClient: which memory the mailbox uses, and whose       *)
(* response a caller gets; and how the mailbox ends.  Any number of tasks, *)
(* clients and jobs.                                                       *)
(*                                                                         *)
(* The hypothesis Patient names what the theorems need of the users: each  *)
(* has a client of its own and waits for its callback without a timeout,   *)
(* and start and stop calls do not overlap.  MCMboxStale shows what a      *)
(* timeout leads to.  Besides, either nobody closes a client, and the poll *)
(* task may be preempted anywhere (the instance MCMboxSmp), or any task    *)
(* may close, and no task interrupts the poll task (MCMboxClient).         *)
(*                                                                         *)
(* The argument: from the command to the copy of its response the caller   *)
(* of sip_svc_send is inside the call or waits for the callback, with the  *)
(* buffer registered for that very job (Answers); it wakes only by its own *)
(* callback, which comes after the copy.  So the pointer that the poll     *)
(* task reads is never stale, and the wake-up never early.                 *)
(*                                                                         *)
(* For tasks that close, Life says why the tests that mbox_close_client    *)
(* and mbox_deinit make without a lock stay true: a client with no job     *)
(* outstanding has been given back to its only user, who is the one that   *)
(* closes it; and mbox_deinit finds the poll task waiting.                 *)
(***************************************************************************)
EXTENDS MboxProofs

(* RSU is such a user until it ends: its commands wait for ever (line 64   *)
(* of rsu_mailbox_ops.c).  The SEU driver, with COMMAND_TIMEOUT, is not.   *)
Patient == Sharers = {} /\ Impatient = {} /\ Serial

WaitLocations == {"unlock", "await"}

(* While the descriptor is not set up nobody is past mbox_init, and        *)
(* the interrupt is off; an open client has its semaphore and mutex.       *)
Existing ==
  /\ mbox.desc # "ready" =>
       /\ ~mbox.irq
       /\ \A t \in Tasks : /\ task[t].handle = None
                           /\ task[t].pc \in {"idle", "init"}
  /\ mbox.desc = "fresh" => \E t \in Tasks : task[t].pc = "init"
  /\ \A s \in Slots : client[s].status = 1 =>
                        client[s].free # Dead /\ client[s].mutex # Dead

(* A client is of one task, ...                                            *)
Owners ==
  \A t, u \in Tasks :
    task[t].handle # None /\ task[t].handle = task[u].handle => t = u

(* ... whose callback it calls, and whose buffer it has for a command that *)
(* is about to go out.                                                     *)
Registered ==
  \A t \in Tasks :
    /\ task[t].pc \in WaitLocations \cup {"setcb"} => task[t].handle # None
    /\ task[t].handle # None /\ task[t].pc # "setcb" =>
         client[task[t].handle].callBack = t
    /\ task[t].pc = "smc" =>
         client[task[t].handle].jobResp[task[t].job] =
           IF task[t].wants THEN t ELSE None

(* Task t waits for the response of transaction x, and is not woken yet.   *)
Waits(t, x) ==
  /\ task[t].pc \in WaitLocations /\ task[t].wants
  /\ <<task[t].handle, task[t].job>> = x /\ ~token[t]

(* The transactions whose response is still to be copied.                  *)
Pending == {x \in TransIds : /\ x # AtfTrans
                             /\ \/ x \in work \cup ready
                                \/ poll.pc = "copy" /\ poll.trans = x}

(* A pending transaction has a caller that waits, with the buffer that is  *)
(* registered for it; the response that was copied went to the caller that *)
(* is about to be woken; who is woken has the response.                    *)
Answers ==
  /\ \A x \in Pending : \E t \in Tasks :
       Waits(t, x) /\ client[x[1]].jobResp[x[2]] = t
  /\ poll.pc \in {"free", "callback"} =>
       \E t \in Tasks : Waits(t, poll.trans) /\ task[t].got
  /\ \A t \in Tasks : token[t] =>
       task[t].pc \in WaitLocations /\ task[t].wants /\ task[t].got

Data == Existing /\ Owners /\ Registered /\ Answers

-----------------------------------------------------------------------------
(* What the callback and the buffers of client s are does not change.      *)
SameData(s) == /\ client'[s].callBack = client[s].callBack
               /\ client'[s].jobResp = client[s].jobResp
Alive(s) == client[s].status = 1 =>
              client[s].free # Dead /\ client[s].mutex # Dead
Waiting(t) == task[t].pc \in WaitLocations /\ task[t].wants

LEMMA AliveAll == ASSUME Existing PROVE \A s \in Slots : Alive(s)
BY DEF Existing, Alive

(* Who is past mbox_init finds the descriptor set up.                      *)
LEMMA SetUp ==
  ASSUME Existing, NEW t \in Tasks,
         task[t].handle # None \/ task[t].pc \notin {"idle", "init"}
  PROVE  mbox.desc = "ready"
BY DEF Existing

(* A pending transaction is of a client and a job, and its caller has the  *)
(* client's handle.                                                        *)
LEMMA Caller ==
  ASSUME IInv, Data, NEW x \in Pending
  PROVE  /\ x \in TransIds /\ x[1] \in Slots /\ x[2] \in Jobs
         /\ \E t \in Tasks : /\ Waits(t, x) /\ client[x[1]].jobResp[x[2]] = t
                             /\ task[t].handle = x[1] /\ task[t].job = x[2]
                             /\ Waiting(t)
<1>1. x \in TransIds /\ x # AtfTrans
  BY DEF Pending
<1>2. x[1] \in Slots /\ x[2] \in Jobs
  BY <1>1, TransShape
<1>3. PICK t \in Tasks : Waits(t, x) /\ client[x[1]].jobResp[x[2]] = t
  BY DEF Data, Answers
<1>4. task[t].handle = x[1] /\ task[t].job = x[2] /\ Waiting(t)
  BY <1>3 DEF Waits, Waiting
<1> QED
  BY <1>1, <1>2, <1>3, <1>4

(* A step of task t inside its call, or from one call to the next, keeps   *)
(* Data when the task neither sends nor ends its wait, and changes no      *)
(* client but its own.                                                     *)
LEMMA CallKeeps ==
  ASSUME IInv, Data, NEW t \in Tasks, NEW r \in Calls,
         task' = [task EXCEPT ![t] = r], r.handle = task[t].handle,
         Waiting(t) => /\ r.pc \in WaitLocations /\ r.wants = task[t].wants
                       /\ r.job = task[t].job /\ r.got = task[t].got
                       /\ client'[r.handle].jobResp = client[r.handle].jobResp,
         mbox.desc = "ready", mbox'.desc = "ready",
         \A s \in Slots : Alive(s)',
         \A s \in Slots : s # r.handle => SameData(s),
         r.pc \in WaitLocations \cup {"setcb"} => r.handle # None,
         r.handle # None /\ r.pc # "setcb" => client'[r.handle].callBack = t,
         r.pc = "smc" => client'[r.handle].jobResp[r.job] =
                           IF r.wants THEN t ELSE None,
         UNCHANGED <<work, ready, poll, token>>
  PROVE  Data'
<1>1. /\ task'[t] = r /\ \A u \in Tasks : u # t => task'[u] = task[u]
      /\ \A u \in Tasks : task'[u].handle = task[u].handle
  BY DEF IInv, TypeOK
<1>2. Existing'
  BY DEF Existing, Alive
<1>3. Owners'
  BY <1>1 DEF Data, Owners
<1>4. \A u \in Tasks : task[u].handle \in Slots \cup {None}
  BY CallFields DEF IInv
<1>5. Registered'
  <2> SUFFICES ASSUME NEW u \in Tasks
      PROVE  /\ task'[u].pc \in WaitLocations \cup {"setcb"} =>
                  task'[u].handle # None
             /\ task'[u].handle # None /\ task'[u].pc # "setcb" =>
                  client'[task'[u].handle].callBack = u
             /\ task'[u].pc = "smc" =>
                  client'[task'[u].handle].jobResp[task'[u].job] =
                    IF task'[u].wants THEN u ELSE None
    BY DEF Registered
  <2>1. CASE u = t
    BY <1>1, <2>1
  <2>2. CASE u # t
    <3>1. task'[u] = task[u]
      BY <1>1, <2>2
    <3>2. task[u].handle # None =>
            task[u].handle \in Slots /\ SameData(task[u].handle)
      BY <1>4, <2>2 DEF Data, Owners
    <3>3. task[u].pc = "smc" => task[u].handle # None
      BY Held, MboxAssumption DEF SendLocations
    <3> QED
      BY <3>1, <3>2, <3>3 DEF Data, Registered, SameData
  <2> QED
    BY <2>1, <2>2
<1>6. \A u \in Tasks, x \in TransIds : Waits(u, x) => Waits(u, x)'
  BY <1>1 DEF Waits, Waiting
<1>7. Pending' = Pending
  BY DEF Pending
<1>8. ASSUME NEW x \in Pending
      PROVE  \E u \in Tasks : Waits(u, x)' /\ client'[x[1]].jobResp[x[2]] = u
  <2>1. PICK u \in Tasks : /\ Waits(u, x) /\ client[x[1]].jobResp[x[2]] = u
                           /\ task[u].handle = x[1] /\ task[u].job = x[2]
                           /\ Waiting(u)
    BY Caller
  <2>2. x \in TransIds /\ x[1] \in Slots
    BY Caller
  <2>3. client'[x[1]].jobResp = client[x[1]].jobResp
    <3>1. CASE u = t
      BY <2>1, <3>1
    <3>2. CASE u # t
      <4>1. x[1] # r.handle
        BY <2>1, <2>2, <3>2, MboxAssumption DEF Data, Owners
      <4> QED
        BY <2>2, <4>1 DEF SameData
    <3> QED
      BY <3>1, <3>2
  <2> QED
    BY <1>6, <2>1, <2>2, <2>3
<1>9. \A u \in Tasks : Waiting(u) => Waiting(u)' /\ task'[u].got = task[u].got
  BY <1>1 DEF Waiting
<1>10. poll.pc \in {"free", "callback"} =>
         \E u \in Tasks : Waits(u, poll.trans)' /\ task'[u].got
  <2> SUFFICES ASSUME poll.pc \in {"free", "callback"}
      PROVE  \E u \in Tasks : Waits(u, poll.trans)' /\ task'[u].got
    OBVIOUS
  <2>1. PICK u \in Tasks : Waits(u, poll.trans) /\ task[u].got
    BY DEF Data, Answers
  <2>2. poll.trans \in TransIds /\ Waiting(u)
    BY <2>1, PollShape DEF Waits, Waiting, IInv
  <2> QED
    BY <1>6, <1>9, <2>1, <2>2
<1>11. \A u \in Tasks : token'[u] =>
         task'[u].pc \in WaitLocations /\ task'[u].wants /\ task'[u].got
  BY <1>9 DEF Data, Answers, Waiting
<1>12. Answers'
  BY <1>7, <1>8, <1>10, <1>11 DEF Answers
<1> QED
  BY <1>2, <1>3, <1>5, <1>12 DEF Data

(* The same for a step of the handler, the SDM, the firmware or the poll   *)
(* task that neither copies a response nor wakes a caller.                 *)
LEMMA DriverKeeps ==
  ASSUME IInv, Data, UNCHANGED <<task, token>>, mbox'.desc = mbox.desc,
         mbox'.irq => mbox.irq \/ mbox.desc = "ready",
         \A s \in Slots : SameData(s) /\ Alive(s)',
         Pending' \subseteq Pending,
         poll'.pc \in {"free", "callback"} =>
           poll.pc \in {"free", "callback"} /\ poll'.trans = poll.trans
  PROVE  Data'
<1>1. Existing'
  BY DEF Data, Existing, Alive
<1>2. Owners'
  BY DEF Data, Owners
<1>3. \A u \in Tasks : task[u].handle \in Slots \cup {None}
  BY CallFields DEF IInv
<1>4. \A u \in Tasks : task[u].pc = "smc" => task[u].handle \in Slots
  BY Held DEF SendLocations
<1>5. Registered'
  BY <1>3, <1>4 DEF Data, Registered, SameData
<1>6. Answers'
  <2>1. \A x \in Pending' : \E t \in Tasks :
          Waits(t, x)' /\ client'[x[1]].jobResp[x[2]] = t
    BY Caller DEF Waits, SameData
  <2>2. poll'.pc \in {"free", "callback"} =>
          \E t \in Tasks : Waits(t, poll.trans)' /\ task'[t].got
    BY DEF Data, Answers, Waits
  <2> QED
    BY <2>1, <2>2 DEF Data, Answers
<1> QED
  BY <1>1, <1>2, <1>5, <1>6 DEF Data
-----------------------------------------------------------------------------
(* The fields of a client that a step of its task leaves alone.            *)
LEMMA OnlyMine ==
  ASSUME TypeOK, NEW h \in Slots, NEW c \in Descriptors,
         client' = [client EXCEPT ![h] = c]
  PROVE  /\ client'[h] = c
         /\ \A s \in Slots : s # h => client'[s] = client[s] /\ SameData(s)
BY DEF TypeOK, SameData

LEMMA AliveKept ==
  ASSUME Existing, NEW h,
         \A s \in Slots : s # h => client'[s] = client[s],
         h \in Slots => Alive(h)'
  PROVE  \A s \in Slots : Alive(s)'
BY DEF Existing, Alive

(* mbox_init, up to the allocation.                                        *)
LEMMA StartData ==
  ASSUME Patient, IInv, Data, NEW t \in Tasks, Start(t)
  PROVE  Data'
<1>0. task[t].pc = "idle" /\ task[t].handle = None
  BY DEF Start, At
<1>1. PICK loc \in {"init", "open"} :
        /\ Goto(t, loc)
        /\ loc = "init" => /\ mbox.desc = "null"
                           /\ mbox' = [mbox EXCEPT !.desc = "fresh"]
        /\ loc = "open" => mbox.desc # "null" /\ mbox' = mbox
  BY DEF Start
<1>2. UNCHANGED <<client, work, ready, poll, token>>
  BY DEF Start
<1>3. PICK r \in Calls : /\ task' = [task EXCEPT ![t] = r] /\ r.pc = loc
                         /\ r.handle = task[t].handle
  BY <1>1, Moves DEF IInv, TaskLocations
<1>4. /\ task'[t] = r /\ \A u \in Tasks : u # t => task'[u] = task[u]
  BY <1>3 DEF IInv, TypeOK
<1>5. \A s \in Slots : SameData(s) /\ Alive(s)'
  BY <1>2 DEF SameData, Alive, Data, Existing
<1>6. CASE loc = "open"
  <2>1. mbox.desc = "ready"
    <3>1. mbox.desc \in {"null", "fresh", "ready"}
      BY DEF IInv, TypeOK, Mailboxes
    <3>2. \A u \in Tasks : task[u].pc # "init"
      BY DEF Start, Lifecycle, Patient
    <3> QED
      BY <1>1, <1>6, <3>1, <3>2 DEF Data, Existing
  <2> QED
    BY <1>0, <1>1, <1>2, <1>3, <1>5, <1>6, <2>1, CallKeeps
    DEF Waiting, WaitLocations
<1>7. CASE loc = "init"
  <2>1. /\ mbox.desc = "null" /\ mbox'.desc = "fresh" /\ mbox'.irq = mbox.irq
    BY <1>1, <1>7 DEF IInv, TypeOK, Mailboxes
  <2>2. Existing'
    BY <1>0, <1>2, <1>3, <1>4, <1>7, <2>1 DEF Data, Existing
  <2>3. Owners'
    BY <1>0, <1>3, <1>4 DEF Data, Owners
  <2>4. Registered'
    BY <1>0, <1>2, <1>3, <1>4, <1>7 DEF Data, Registered, WaitLocations
  <2>5. \A u \in Tasks : \A x : Waits(u, x) => Waits(u, x)'
    BY <1>0, <1>2, <1>4 DEF Waits, WaitLocations
  <2>6. Answers'
    BY <1>0, <1>2, <1>4, <2>5 DEF Data, Answers, Pending, Waits, WaitLocations
  <2> QED
    BY <2>2, <2>3, <2>4, <2>6 DEF Data
<1> QED
  BY <1>6, <1>7

(* mbox_init, the rest.                                                    *)
LEMMA InitData ==
  ASSUME IInv, Data, NEW t \in Tasks, mbox_init(t)
  PROVE  Data'
<1>0. task[t].pc = "init" /\ mbox.desc = "fresh" /\ task[t].handle = None
  BY DEF mbox_init, At, IInv, Starting, Data, Existing
<1>1. /\ Goto(t, "open") /\ mbox'.desc = "ready"
      /\ poll' = [poll EXCEPT !.pc = "wait"]
      /\ UNCHANGED <<client, work, ready, token>>
  BY DEF mbox_init, IInv, TypeOK, Mailboxes
<1>2. PICK r \in Calls : /\ task' = [task EXCEPT ![t] = r] /\ r.pc = "open"
                         /\ r.handle = task[t].handle
  BY <1>1, Moves DEF IInv, TaskLocations
<1>3. /\ task'[t] = r /\ \A u \in Tasks : u # t => task'[u] = task[u]
  BY <1>2 DEF IInv, TypeOK
<1>4. /\ poll.pc \in {"none", "gone"}
      /\ poll'.pc = "wait" /\ poll'.trans = poll.trans
  BY <1>0, <1>1 DEF IInv, Starting, TypeOK, Polls
<1>5. Existing'
  BY <1>1 DEF Data, Existing
<1>6. Owners'
  BY <1>0, <1>2, <1>3 DEF Data, Owners
<1>7. Registered'
  BY <1>0, <1>1, <1>2, <1>3 DEF Data, Registered, WaitLocations
<1>8. \A u \in Tasks : \A x : Waits(u, x) => Waits(u, x)'
  BY <1>0, <1>1, <1>3 DEF Waits, WaitLocations
<1>9. Answers'
  BY <1>0, <1>1, <1>3, <1>4, <1>8
  DEF Data, Answers, Pending, Waits, WaitLocations
<1> QED
  BY <1>5, <1>6, <1>7, <1>9 DEF Data

(* mbox_open_client gives the task a client that nobody has: nobody is     *)
(* about to delete the mutex of a client that is closed already.           *)
LEMMA OpenData ==
  ASSUME IInv, Data, NEW t \in Tasks, mbox_open_client(t),
         \A u \in Tasks : task[u].pc # "closeDelete"
  PROVE  Data'
<1>0. /\ task[t].pc = "open" /\ mbox.desc = "ready"
      /\ UNCHANGED <<mbox, work, ready, poll, token>>
  BY SetUp DEF mbox_open_client, At, Data
<1>1. CASE Return(t) /\ UNCHANGED client
  <2>1. PICK r \in Calls : /\ task' = [task EXCEPT ![t] = r] /\ r.pc = "idle"
                           /\ r.handle = task[t].handle
    BY <1>1, MovesBack DEF IInv
  <2>2. \A s \in Slots : SameData(s) /\ Alive(s)'
    BY <1>1 DEF SameData, Alive, Data, Existing
  <2>3. r.handle # None => client'[r.handle].callBack = t
    BY <1>0, <1>1, <2>1 DEF Data, Registered
  <2> QED
    BY <1>0, <2>1, <2>2, <2>3, CallKeeps DEF Waiting, WaitLocations
<1>2. ASSUME NEW i \in Slots, client[i].status = 0,
             client' = [client EXCEPT ![i].status = 1, ![i].free = 1,
                                      ![i].mutex = None],
             task' = [task EXCEPT ![t].pc = "setcb", ![t].handle = i]
      PROVE  Data'
  <2> DEFINE c == [client[i] EXCEPT !.status = 1, !.free = 1, !.mutex = None]
             r == [task[t] EXCEPT !.pc = "setcb", !.handle = i]
  <2>1. /\ c \in Descriptors /\ c.callBack = client[i].callBack
        /\ c.jobResp = client[i].jobResp /\ c.free = 1 /\ c.mutex = None
    BY ClientType DEF IInv, Descriptors
  <2>2. client' = [client EXCEPT ![i] = c]
    BY <1>2 DEF IInv, TypeOK
  <2>3. /\ r.pc = "setcb" /\ r.handle = i /\ task' = [task EXCEPT ![t] = r]
    BY <1>2, CallFields DEF IInv, TypeOK, Calls
  <2> HIDE DEF c, r
  <2>4. /\ task'[t] = r /\ \A u \in Tasks : u # t => task'[u] = task[u]
    BY <2>3 DEF IInv, TypeOK
  <2>5. /\ client'[i] = c /\ \A s \in Slots : SameData(s)
        /\ \A s \in Slots : s # i => client'[s] = client[s]
    BY <2>1, <2>2, OnlyMine DEF IInv, SameData
  <2>6. \A s \in Slots : Alive(s)'
    <3>1. Alive(i)'
      BY <2>1, <2>5, MboxAssumption DEF Alive
    <3> QED
      BY <2>5, <3>1, AliveKept DEF Data
  <2>7. Existing'
    BY <1>0, <2>6 DEF Existing, Alive
  <2>8. i # None /\ \A u \in Tasks : task[u].handle # i
    BY <1>2, MboxAssumption, Held
  <2>9. Owners'
    BY <2>3, <2>4, <2>8 DEF Data, Owners
  <2>10. \A u \in Tasks : task[u].handle \in Slots \cup {None}
                          /\ (task[u].pc = "smc" => task[u].handle \in Slots)
    BY Held DEF SendLocations
  <2>11. Registered'
    BY <2>3, <2>4, <2>5, <2>8, <2>10
    DEF Data, Registered, SameData, WaitLocations
  <2>12. \A u \in Tasks : \A x : Waits(u, x) => Waits(u, x)'
    BY <1>0, <2>4 DEF Waits, WaitLocations
  <2>13. \A x \in Pending' : \E u \in Tasks :
           Waits(u, x)' /\ client'[x[1]].jobResp[x[2]] = u
    BY <1>0, <2>5, <2>12, Caller DEF Pending, SameData
  <2>14. Answers'
    BY <1>0, <2>4, <2>12, <2>13 DEF Data, Answers, Waits, WaitLocations
  <2> QED
    BY <2>7, <2>9, <2>11, <2>14 DEF Data
<1> QED
  <2>1. \/ Return(t) /\ UNCHANGED client
        \/ \E i \in {s \in Slots : client[s].status = 0} :
             /\ client' = [client EXCEPT ![i].status = 1, ![i].free = 1,
                                         ![i].mutex = None]
             /\ task' = [task EXCEPT ![t].pc = "setcb", ![t].handle = i]
    BY DEF mbox_open_client
  <2> QED
    BY <1>1, <1>2, <2>1

(* A step inside sip_svc_send that only moves the task and sets            *)
(* client_free, client_mutex or the jobs of its client.                    *)
LEMMA SendKeeps ==
  ASSUME IInv, Data, NEW t \in Tasks, NEW r \in Calls,
         task' = [task EXCEPT ![t] = r], r.handle = task[t].handle,
         task[t].handle \in Slots, task[t].pc # "setcb", r.pc # "smc",
         Waiting(t) => r.pc = "await" /\ r.wants /\ r.job = task[t].job
                       /\ r.got = task[t].got,
         mbox' = mbox, mbox.desc = "ready",
         NEW c \in Descriptors, client' = [client EXCEPT ![r.handle] = c],
         c.callBack = client[r.handle].callBack,
         c.jobResp = client[r.handle].jobResp,
         c.free # Dead /\ c.mutex # Dead,
         UNCHANGED <<work, ready, poll, token>>
  PROVE  Data'
<1>1. /\ client'[r.handle] = c
      /\ \A s \in Slots : s # r.handle =>
           client'[s] = client[s] /\ SameData(s)
  <2>1. TypeOK /\ r.handle \in Slots
    BY DEF IInv
  <2> QED
    BY ONLY <2>1, c \in Descriptors, client' = [client EXCEPT ![r.handle] = c],
            OnlyMine
<1>2. \A s \in Slots : Alive(s)'
  <2>1. Alive(r.handle)'
    BY <1>1 DEF Alive
  <2> QED
    BY <1>1, <2>1, AliveKept DEF Data
<1>3. client'[r.handle].callBack = t
  BY <1>1, MboxAssumption DEF Data, Registered
<1>4. Waiting(t) => /\ r.pc \in WaitLocations /\ r.wants = task[t].wants
                    /\ r.job = task[t].job /\ r.got = task[t].got
  BY CallFields DEF Waiting, WaitLocations, Calls, IInv
<1>5. /\ client'[r.handle].jobResp = client[r.handle].jobResp
      /\ mbox'.desc = "ready" /\ r.handle # None
  BY <1>1, MboxAssumption
<1> QED
  BY <1>1, <1>2, <1>3, <1>4, <1>5, CallKeeps

(* A descriptor with another callback or another owner of client_mutex.    *)
LEMMA WithCallBack ==
  ASSUME NEW d \in Descriptors, NEW t \in Tasks
  PROVE  /\ [d EXCEPT !.callBack = t] \in Descriptors
         /\ [d EXCEPT !.callBack = t].callBack = t
         /\ [d EXCEPT !.callBack = t].free = d.free
         /\ [d EXCEPT !.callBack = t].mutex = d.mutex
BY DEF Descriptors

LEMMA WithMutex ==
  ASSUME NEW d \in Descriptors, NEW t \in Tasks
  PROVE  /\ [d EXCEPT !.mutex = t] \in Descriptors
         /\ [d EXCEPT !.mutex = t].mutex = t
         /\ [d EXCEPT !.mutex = t].free = d.free
         /\ [d EXCEPT !.mutex = t].callBack = d.callBack
         /\ [d EXCEPT !.mutex = t].jobResp = d.jobResp
BY DEF Descriptors

(* The client of a task that sends.                                        *)
LEMMA MineAlive ==
  ASSUME IInv, Data, NEW t \in Tasks,
         task[t].handle # None, task[t].pc # "closeDelete"
  PROVE  /\ task[t].handle \in Slots /\ Mine(t) \in Descriptors
         /\ Mine(t).free # Dead /\ Mine(t).mutex # Dead
         /\ mbox.desc = "ready"
<1>1. task[t].handle \in Slots /\ client[task[t].handle].status = 1
  BY Held
<1>2. Mine(t) \in Descriptors
  BY <1>1, ClientType DEF IInv, Mine
<1> QED
  BY <1>1, <1>2, SetUp DEF Data, Existing, Mine

LEMMA SetCallbackData ==
  ASSUME IInv, Data, NEW t \in Tasks, mbox_set_callback(t)
  PROVE  Data'
<1>0. task[t].pc = "setcb" /\ mbox.desc = "ready" /\ Return(t)
      /\ UNCHANGED <<mbox, work, ready, poll, token>>
      /\ client' = [client EXCEPT ![task[t].handle].callBack = t]
  BY SetUp DEF mbox_set_callback, At, Data
<1>1. PICK r \in Calls : /\ task' = [task EXCEPT ![t] = r] /\ r.pc = "idle"
                         /\ r.handle = task[t].handle
  BY <1>0, MovesBack DEF IInv
<1>2. CASE task[t].handle \in Slots
  <2>0. PICK h \in Slots : h = task[t].handle
    BY <1>2
  <2> DEFINE c == [client[h] EXCEPT !.callBack = t]
  <2>1. c \in Descriptors /\ c.callBack = t /\ c.free # Dead /\ c.mutex # Dead
    <3>1. /\ client[h] \in Descriptors
          /\ client[h].free # Dead /\ client[h].mutex # Dead
      BY <1>0, <2>0, MineAlive, MboxAssumption DEF Mine
    <3> QED
      BY ONLY <3>1, t \in Tasks, WithCallBack
  <2>2. client' = [client EXCEPT ![h] = c]
    BY <1>0, <2>0 DEF IInv, TypeOK
  <2> HIDE DEF c
  <2>3. /\ client'[h] = c
        /\ \A s \in Slots : s # h => client'[s] = client[s] /\ SameData(s)
    BY <2>1, <2>2, OnlyMine DEF IInv
  <2>4. Alive(h)'
    BY <2>1, <2>3 DEF Alive
  <2>5. \A s \in Slots : Alive(s)'
    BY <2>3, <2>4, AliveKept DEF Data
  <2>6. ~Waiting(t) /\ r.pc \notin WaitLocations \cup {"setcb"} /\ r.pc # "smc"
        /\ mbox' = mbox /\ mbox.desc = "ready"
        /\ UNCHANGED <<work, ready, poll, token>>
    BY <1>0, <1>1 DEF Waiting, WaitLocations
  <2>7. /\ mbox'.desc = "ready" /\ r.handle = h
        /\ client'[r.handle].callBack = t
        /\ \A s \in Slots : s # r.handle => SameData(s)
        /\ r.pc \notin WaitLocations \cup {"setcb"}
    BY ONLY <1>1, <2>0, <2>1, <2>3, <2>6
  <2> QED
    BY ONLY IInv, Data, t \in Tasks, r \in Calls, <1>1, <2>5, <2>6, <2>7,
            CallKeeps
<1>3. CASE task[t].handle \notin Slots
  <2>1. client' = client /\ task[t].handle = None
    BY <1>0, <1>3, Held DEF IInv, TypeOK
  <2>2. \A s \in Slots : SameData(s) /\ Alive(s)'
    BY <2>1 DEF SameData, Alive, Data, Existing
  <2> QED
    BY <1>0, <1>1, <2>1, <2>2, CallKeeps DEF Waiting, WaitLocations
<1> QED
  BY <1>2, <1>3

(* sip_svc_send is called.                                                 *)
LEMMA CallData ==
  ASSUME IInv, Data, NEW t \in Tasks, NEW w \in BOOLEAN, sip_svc_send(t, w)
  PROVE  Data'
<1> DEFINE r == [task[t] EXCEPT !.pc = "sem", !.wants = w, !.got = FALSE]
<1>0. task[t].pc = "idle" /\ task[t].handle # None
      /\ UNCHANGED <<mbox, client, work, ready, poll, token>>
      /\ task' = [task EXCEPT ![t].pc = "sem", ![t].wants = w, ![t].got = FALSE]
  BY DEF sip_svc_send, At
<1>1. r \in Calls /\ r.pc = "sem" /\ r.handle = task[t].handle
  <2>1. task[t] \in Calls
    BY CallFields DEF IInv
  <2> QED
    BY <2>1 DEF Calls, TaskLocations
<1>2. task' = [task EXCEPT ![t] = r]
  BY <1>0 DEF IInv, TypeOK
<1>3. mbox.desc = "ready" /\ task[t].handle \in Slots
      /\ client[r.handle].callBack = t
  BY <1>0, <1>1, MineAlive DEF Data, Registered
<1> HIDE DEF r
<1>4. \A s \in Slots : SameData(s) /\ Alive(s)'
  BY <1>0 DEF SameData, Alive, Data, Existing
<1> QED
  BY <1>0, <1>1, <1>2, <1>3, <1>4, CallKeeps DEF Waiting, WaitLocations

(* The wait for client_free ...                                            *)
LEMMA WaitFreeData ==
  ASSUME IInv, Data, NEW t \in Tasks, SendWaitFree(t)
  PROVE  Data'
<1> DEFINE h == task[t].handle
           c == [client[h] EXCEPT !.free = 0]
<1>0. /\ task[t].pc = "sem" /\ Goto(t, "mutex")
      /\ UNCHANGED <<mbox, work, ready, poll, token>>
      /\ client' = [client EXCEPT ![h].free = 0]
  BY DEF SendWaitFree, At
<1>1. h \in Slots
  BY <1>0, Held
<1>2. PICK r \in Calls : /\ task' = [task EXCEPT ![t] = r] /\ r.pc = "mutex"
                         /\ r.handle = h
  BY <1>0, Moves DEF IInv, TaskLocations
<1>3. /\ c \in Descriptors /\ c.callBack = client[h].callBack
      /\ c.jobResp = client[h].jobResp /\ c.free # Dead /\ c.mutex # Dead
  BY <1>0, <1>1, ClientType, MineAlive, MboxAssumption
  DEF IInv, Descriptors, Mine
<1>4. client' = [client EXCEPT ![h] = c]
  BY <1>0, <1>1 DEF IInv, TypeOK
<1> HIDE DEF c
<1>5. mbox.desc = "ready" /\ ~Waiting(t)
  BY <1>0, SetUp DEF Waiting, WaitLocations, Data
<1>6. /\ task[t].handle \in Slots /\ task[t].pc # "setcb" /\ r.pc # "smc"
      /\ client' = [client EXCEPT ![r.handle] = c]
      /\ c.callBack = client[r.handle].callBack
      /\ c.jobResp = client[r.handle].jobResp
  BY <1>0, <1>1, <1>2, <1>3, <1>4
<1> QED
  BY <1>0, <1>2, <1>3, <1>5, <1>6, SendKeeps

(* ... and for client_mutex, ...                                           *)
LEMMA LockData ==
  ASSUME IInv, Data, NEW t \in Tasks, SendLock(t)
  PROVE  Data'
<1> DEFINE h == task[t].handle
           c == [client[h] EXCEPT !.mutex = t]
<1>0. /\ task[t].pc = "mutex" /\ Goto(t, "assign")
      /\ UNCHANGED <<mbox, work, ready, poll, token>>
      /\ client' = [client EXCEPT ![h].mutex = t]
  BY DEF SendLock, At
<1>1. h \in Slots
  BY <1>0, Held DEF SendLocations
<1>2. PICK r \in Calls : /\ task' = [task EXCEPT ![t] = r] /\ r.pc = "assign"
                         /\ r.handle = h
  BY <1>0, Moves DEF IInv, TaskLocations
<1>3. /\ c \in Descriptors /\ c.callBack = client[h].callBack
      /\ c.jobResp = client[h].jobResp /\ c.free # Dead /\ c.mutex # Dead
  <2>1. /\ client[h] \in Descriptors /\ client[h].free # Dead /\ t # Dead
    BY <1>0, <1>1, MineAlive, MboxAssumption DEF Mine
  <2> QED
    BY ONLY <2>1, t \in Tasks, WithMutex
<1>4. client' = [client EXCEPT ![h] = c]
  BY <1>0, <1>1 DEF IInv, TypeOK
<1> HIDE DEF c
<1>5. mbox.desc = "ready" /\ ~Waiting(t)
  BY <1>0, SetUp DEF Waiting, WaitLocations, Data
<1>6. /\ task' = [task EXCEPT ![t] = r] /\ r.handle = task[t].handle
      /\ task[t].handle \in Slots /\ task[t].pc # "setcb" /\ r.pc # "smc"
      /\ client' = [client EXCEPT ![r.handle] = c]
      /\ c.callBack = client[r.handle].callBack
      /\ c.jobResp = client[r.handle].jobResp
  BY <1>0, <1>1, <1>2, <1>3, <1>4
<1> QED
  BY ONLY IInv, Data, t \in Tasks, r \in Calls, <1>0, <1>3, <1>5, <1>6, SendKeeps

(* A task that returns without waiting for a response.                     *)
LEMMA ReturnKeeps ==
  ASSUME IInv, Data, NEW t \in Tasks, Return(t), task[t].handle # None,
         task[t].pc # "setcb", ~Waiting(t),
         UNCHANGED <<mbox, client, work, ready, poll, token>>
  PROVE  Data'
<1>1. PICK r \in Calls : /\ task' = [task EXCEPT ![t] = r] /\ r.pc = "idle"
                         /\ r.handle = task[t].handle
  BY MovesBack DEF IInv
<1>2. \A s \in Slots : SameData(s) /\ Alive(s)'
  BY DEF SameData, Alive, Data, Existing
<1>3. client[r.handle].callBack = t /\ mbox.desc = "ready"
  BY <1>1, SetUp DEF Data, Registered
<1> QED
  BY <1>1, <1>2, <1>3, CallKeeps DEF WaitLocations

(* ... assign_job_id, ...                                                  *)
LEMMA AssignData ==
  ASSUME IInv, Data, NEW t \in Tasks, assign_job_id(t)
  PROVE  Data'
<1>0. task[t].pc = "assign" /\ UNCHANGED <<mbox, work, ready, poll, token>>
  BY DEF assign_job_id, At
<1>1. PICK h \in Slots : h = task[t].handle
  BY <1>0, Held DEF SendLocations
<1>2. mbox.desc = "ready" /\ ~Waiting(t) /\ h # None
  BY <1>0, <1>1, SetUp, MboxAssumption DEF Waiting, WaitLocations, Data
<1>3. CASE Return(t) /\ UNCHANGED client
  BY <1>0, <1>1, <1>2, <1>3, ReturnKeeps
<1>4. ASSUME NEW i \in Jobs, NEW k \in Jobs,
             client' = [client EXCEPT ![h].jobPool = @ \cup {i},
                                      ![h].jobHead = k],
             task' = [task EXCEPT ![t].pc = "arm", ![t].job = i]
      PROVE  Data'
  <2> DEFINE c == [client[h] EXCEPT !.jobPool = @ \cup {i}, !.jobHead = k]
             r == [task[t] EXCEPT !.pc = "arm", !.job = i]
  <2>1. r \in Calls /\ r.pc = "arm" /\ r.handle = h
    <3>1. task[t] \in Calls
      BY CallFields DEF IInv
    <3> QED
      BY ONLY <1>1, <3>1 DEF Calls, TaskLocations
  <2>2. task' = [task EXCEPT ![t] = r]
    BY <1>4 DEF IInv, TypeOK
  <2>3. /\ client[h] \in Descriptors
        /\ client[h].free # Dead /\ client[h].mutex # Dead
    BY <1>0, <1>1, <1>2, MineAlive DEF Mine
  <2>4. /\ c \in Descriptors /\ c.callBack = client[h].callBack
        /\ c.jobResp = client[h].jobResp /\ c.free # Dead /\ c.mutex # Dead
    BY <2>3 DEF Descriptors
  <2>5. client' = [client EXCEPT ![h] = c]
    BY <1>4 DEF IInv, TypeOK
  <2> HIDE DEF c, r
  <2>6. /\ task[t].handle \in Slots /\ task[t].pc # "setcb" /\ r.pc # "smc"
        /\ r.handle = task[t].handle
        /\ client' = [client EXCEPT ![r.handle] = c]
        /\ c.callBack = client[r.handle].callBack
        /\ c.jobResp = client[r.handle].jobResp
    BY <1>0, <1>1, <2>1, <2>4, <2>5
  <2> QED
    BY <1>0, <1>2, <2>1, <2>2, <2>4, <2>6, SendKeeps
<1>5. \A j \in Jobs : (j + 1) % MaxJob \in Jobs
  BY MboxAssumption DEF Jobs
<1>6. \/ Return(t) /\ UNCHANGED client
      \/ \E i \in Jobs \ Mine(t).jobPool :
           /\ client' = [client EXCEPT ![h].jobPool = @ \cup {i},
                                       ![h].jobHead = (i + 1) % MaxJob]
           /\ task' = [task EXCEPT ![t].pc = "arm", ![t].job = i]
  BY <1>1 DEF assign_job_id
<1> QED
  BY <1>3, <1>4, <1>5, <1>6

(* ... the buffer and the interrupt, ...                                   *)
LEMMA ArmData ==
  ASSUME IInv, Data, NEW t \in Tasks, SendArm(t)
  PROVE  Data'
<1>0. /\ task[t].pc = "arm" /\ Goto(t, "smc")
      /\ UNCHANGED <<work, ready, poll, token>>
      /\ mbox' = [mbox EXCEPT !.irq = TRUE]
  BY DEF SendArm, At
<1>1. PICK h \in Slots, j \in Jobs : h = task[t].handle /\ j = task[t].job
  BY <1>0, Held, CallFields DEF SendLocations, IInv
<1>2. mbox.desc = "ready" /\ ~Waiting(t) /\ h # None
  BY <1>0, <1>1, SetUp, MboxAssumption DEF Waiting, WaitLocations, Data
<1>3. PICK b \in Tasks \cup {None} : b = IF task[t].wants THEN t ELSE None
  OBVIOUS
<1>4. client' = [client EXCEPT ![h].jobResp[j] = b]
  BY <1>1, <1>3 DEF SendArm
<1>5. PICK r \in Calls : /\ task' = [task EXCEPT ![t] = r] /\ r.pc = "smc"
                         /\ r.handle = h /\ r.job = j /\ r.wants = task[t].wants
  BY <1>0, <1>1, Moves DEF IInv, TaskLocations
<1> DEFINE c == [client[h] EXCEPT !.jobResp[j] = b]
<1>6. /\ client[h] \in Descriptors
      /\ client[h].free # Dead /\ client[h].mutex # Dead
      /\ client[h].callBack = t
  BY <1>0, <1>1, <1>2, MineAlive DEF Mine, Data, Registered
<1>7. /\ c \in Descriptors /\ c.callBack = t
      /\ c.jobResp[j] = b /\ c.free # Dead /\ c.mutex # Dead
  BY <1>6 DEF Descriptors
<1>8. client' = [client EXCEPT ![h] = c]
  BY <1>4 DEF IInv, TypeOK
<1> HIDE DEF c
<1>9. /\ client'[h] = c
      /\ \A s \in Slots : s # h => client'[s] = client[s] /\ SameData(s)
  BY <1>7, <1>8, OnlyMine DEF IInv
<1>10. \A s \in Slots : Alive(s)'
  <2>1. Alive(h)'
    BY <1>7, <1>9 DEF Alive
  <2> QED
    BY <1>9, <2>1, AliveKept DEF Data
<1>11. mbox'.desc = "ready"
  BY <1>0, <1>2 DEF IInv, TypeOK, Mailboxes
<1>12. /\ r.handle = task[t].handle /\ client'[r.handle].callBack = t
       /\ client'[r.handle].jobResp[r.job] = IF r.wants THEN t ELSE None
       /\ \A s \in Slots : s # r.handle => SameData(s)
  BY <1>1, <1>3, <1>5, <1>7, <1>9
<1> QED
  BY <1>0, <1>2, <1>5, <1>10, <1>11, <1>12, CallKeeps DEF WaitLocations

(* ... the command without a response, which frees its job ...             *)
LEMMA FreeData ==
  ASSUME IInv, Data, NEW t \in Tasks, SendFree(t)
  PROVE  Data'
<1>0. task[t].pc = "unassign" /\ UNCHANGED <<mbox, work, ready, poll, token>>
  BY DEF SendFree, At
<1>1. PICK h \in Slots : h = task[t].handle
  BY <1>0, Held DEF SendLocations
<1>2. mbox.desc = "ready" /\ ~Waiting(t) /\ h # None
  BY <1>0, <1>1, SetUp, MboxAssumption DEF Waiting, WaitLocations, Data
<1>3. CASE Return(t) /\ UNCHANGED client
  BY <1>0, <1>1, <1>2, <1>3, ReturnKeeps
<1>4. CASE Goto(t, "repost") /\ free_job_id(h, task[t].job)
  <2>1. PICK r \in Calls : /\ task' = [task EXCEPT ![t] = r] /\ r.pc = "repost"
                           /\ r.handle = h
    BY <1>1, <1>4, Moves DEF IInv, TaskLocations
  <2>2. /\ client[h] \in Descriptors
        /\ client[h].free # Dead /\ client[h].mutex # Dead
        /\ task[t].job \in Jobs
    BY <1>0, <1>1, <1>2, MineAlive, CallFields DEF Mine, IInv
  <2>3. PICK p \in SUBSET Jobs : client' = [client EXCEPT ![h].jobPool = p]
    <3>1. client[h].jobPool \in SUBSET Jobs
      BY <2>2 DEF Descriptors
    <3>2. client' = [client EXCEPT ![h].jobPool =
                       IF task[t].job \in client[h].jobPool
                       THEN client[h].jobPool \ {task[t].job}
                       ELSE client[h].jobPool \cup {task[t].job}]
      BY <1>4 DEF free_job_id
    <3> QED
      BY <2>2, <3>1, <3>2
  <2> DEFINE c == [client[h] EXCEPT !.jobPool = p]
  <2>4. /\ c \in Descriptors /\ c.callBack = client[h].callBack
        /\ c.jobResp = client[h].jobResp /\ c.free # Dead /\ c.mutex # Dead
    BY <2>2 DEF Descriptors
  <2>5. client' = [client EXCEPT ![h] = c]
    BY <2>3 DEF IInv, TypeOK
  <2> HIDE DEF c
  <2>6. /\ task[t].handle \in Slots /\ task[t].pc # "setcb" /\ r.pc # "smc"
        /\ r.handle = task[t].handle
        /\ client' = [client EXCEPT ![r.handle] = c]
        /\ c.callBack = client[r.handle].callBack
        /\ c.jobResp = client[r.handle].jobResp
    BY <1>0, <1>1, <2>1, <2>4, <2>5
  <2> QED
    BY <1>0, <1>2, <2>1, <2>4, <2>6, SendKeeps
<1> QED
  BY <1>1, <1>3, <1>4 DEF SendFree

(* ... and gives client_free back, ...                                     *)
LEMMA RepostData ==
  ASSUME IInv, Data, NEW t \in Tasks, SendRepost(t)
  PROVE  Data'
<1>0. task[t].pc = "repost" /\ UNCHANGED <<mbox, work, ready, poll, token>>
  BY DEF SendRepost, At
<1>1. PICK h \in Slots : h = task[t].handle
  BY <1>0, Held DEF SendLocations
<1>2. mbox.desc = "ready" /\ ~Waiting(t) /\ h # None
  BY <1>0, <1>1, SetUp, MboxAssumption DEF Waiting, WaitLocations, Data
<1>3. PICK r \in Calls :
        /\ task' = [task EXCEPT ![t] = r] /\ r.pc \in {"idle", "unlock"}
        /\ r.handle = h
  <2>1. Return(t) \/ Goto(t, "unlock")
    BY DEF SendRepost
  <2> QED
    BY <1>1, <2>1, Moves, MovesBack DEF IInv, TaskLocations
<1> DEFINE c == [client[h] EXCEPT !.free = 1]
<1>4. /\ c \in Descriptors /\ c.callBack = client[h].callBack
      /\ c.jobResp = client[h].jobResp /\ c.free # Dead /\ c.mutex # Dead
  BY <1>0, <1>1, <1>2, MineAlive, MboxAssumption DEF Descriptors, Mine
<1>5. client' = [client EXCEPT ![h] = c]
  BY <1>1 DEF SendRepost, IInv, TypeOK
<1> HIDE DEF c
<1>6. /\ task[t].handle \in Slots /\ task[t].pc # "setcb" /\ r.pc # "smc"
      /\ r.handle = task[t].handle
      /\ client' = [client EXCEPT ![r.handle] = c]
      /\ c.callBack = client[r.handle].callBack
      /\ c.jobResp = client[r.handle].jobResp
  BY <1>0, <1>1, <1>3, <1>4, <1>5
<1> QED
  BY <1>0, <1>2, <1>3, <1>4, <1>6, SendKeeps

(* ... and the end of the call.                                            *)
LEMMA UnlockData ==
  ASSUME IInv, Data, NEW t \in Tasks, SendUnlock(t)
  PROVE  Data'
<1>0. task[t].pc = "unlock" /\ UNCHANGED <<mbox, work, ready, poll, token>>
  BY DEF SendUnlock, At
<1>1. PICK h \in Slots : h = task[t].handle
  BY <1>0, Held DEF Data, Registered, WaitLocations
<1>2. mbox.desc = "ready" /\ h # None
  BY <1>0, <1>1, SetUp, MboxAssumption DEF Data
<1>3. PICK r \in Calls :
        /\ task' = [task EXCEPT ![t] = r] /\ r.handle = h
        /\ r.pc # "smc"
        /\ Waiting(t) => /\ r.pc = "await" /\ r.wants /\ r.job = task[t].job
                         /\ r.got = task[t].got
  <2>1. CASE task[t].wants
    <3> DEFINE r == [task[t] EXCEPT !.pc = "await"]
    <3>1. task[t] \in Calls
      BY CallFields DEF IInv
    <3>2. /\ r \in Calls /\ r.pc = "await" /\ r.wants /\ r.job = task[t].job
          /\ r.got = task[t].got /\ r.handle = h
      BY <1>1, <2>1, <3>1 DEF Calls, TaskLocations
    <3>3. task' = [task EXCEPT ![t] = r]
      BY <2>1 DEF SendUnlock, Goto, IInv, TypeOK
    <3> QED
      BY <3>2, <3>3
  <2>2. CASE ~task[t].wants
    BY <1>1, <2>2, MovesBack DEF SendUnlock, Waiting, IInv
  <2> QED
    BY <2>1, <2>2
<1> DEFINE c == [client[h] EXCEPT !.mutex = None]
<1>4. /\ c \in Descriptors /\ c.callBack = client[h].callBack
      /\ c.jobResp = client[h].jobResp /\ c.free # Dead /\ c.mutex # Dead
  BY <1>0, <1>1, <1>2, MineAlive, MboxAssumption DEF Descriptors, Mine
<1>5. client' = [client EXCEPT ![h] = c]
  BY <1>1 DEF SendUnlock, IInv, TypeOK
<1> HIDE DEF c
<1>6. /\ task[t].handle \in Slots /\ task[t].pc # "setcb"
      /\ r.handle = task[t].handle
      /\ client' = [client EXCEPT ![r.handle] = c]
      /\ c.callBack = client[r.handle].callBack
      /\ c.jobResp = client[r.handle].jobResp
  BY <1>0, <1>1, <1>3, <1>4, <1>5
<1> QED
  BY <1>0, <1>2, <1>3, <1>4, <1>6, SendKeeps

-----------------------------------------------------------------------------
(* The steps that send, wake and answer.  A caller is woken by its own     *)
(* callback, with its response.                                            *)
LEMMA AwaitOwn ==
  ASSUME IInv, Data, NEW t \in Tasks, AwaitCallback(t)
  PROVE  /\ token[t] /\ task[t].got /\ task[t].handle \in Slots
         /\ token' = [token EXCEPT ![t] = FALSE] /\ mbox.desc = "ready"
<1>1. task[t].pc = "await"
  BY DEF AwaitCallback, At
<1>2. task[t].handle \in Slots /\ client[task[t].handle].callBack = t
  BY <1>1, Held DEF Data, Registered, WaitLocations
<1>3. token[t] /\ token' = [token EXCEPT ![t] = FALSE]
  BY <1>2 DEF AwaitCallback, Mine
<1> QED
  BY <1>1, <1>2, <1>3, SetUp DEF Data, Answers

LEMMA AwaitData ==
  ASSUME IInv, Data, NEW t \in Tasks, AwaitCallback(t)
  PROVE  Data'
<1>0. Return(t) /\ UNCHANGED <<mbox, client, work, ready, poll>>
  BY DEF AwaitCallback
<1>1. PICK r \in Calls : /\ task' = [task EXCEPT ![t] = r] /\ r.pc = "idle"
                         /\ r.handle = task[t].handle
  BY <1>0, MovesBack DEF IInv
<1>2. /\ task'[t] = r /\ \A u \in Tasks : u # t => task'[u] = task[u]
      /\ \A u \in Tasks : task'[u].handle = task[u].handle
  BY <1>1 DEF IInv, TypeOK
<1>3. /\ token[t] /\ mbox.desc = "ready" /\ ~token'[t]
      /\ \A u \in Tasks : u # t => token'[u] = token[u]
  BY AwaitOwn DEF IInv, TypeOK
<1>4. Existing' /\ Owners'
  BY <1>0, <1>2, <1>3 DEF Data, Existing, Owners
<1>5. Registered'
  <2>1. task[t].pc # "setcb"
    BY DEF AwaitCallback, At
  <2> QED
    BY <1>0, <1>1, <1>2, <2>1 DEF Data, Registered, WaitLocations
<1>6. \A u \in Tasks : \A x :
        Waits(u, x) => Waits(u, x)' /\ task'[u].got = task[u].got
  BY <1>2, <1>3 DEF Waits
<1>7. Answers'
  BY <1>0, <1>2, <1>3, <1>6 DEF Data, Answers, Pending
<1> QED
  BY <1>4, <1>5, <1>7 DEF Data

(* smc_call: the transaction has a caller from the moment it exists.       *)
LEMMA SmcData ==
  ASSUME IInv, Data, NEW t \in Tasks, SendSmc(t)
  PROVE  Data'
<1>0. task[t].pc = "smc" /\ UNCHANGED <<mbox, client, ready, poll, token>>
  BY DEF SendSmc, At
<1>1. PICK h \in Slots, j \in Jobs : h = task[t].handle /\ j = task[t].job
  BY <1>0, Held, CallFields DEF SendLocations, IInv
<1>2. /\ mbox.desc = "ready" /\ ~Waiting(t) /\ h # None
      /\ client[h].callBack = t
      /\ client[h].jobResp[j] = IF task[t].wants THEN t ELSE None
  BY <1>0, <1>1, SetUp, MboxAssumption
  DEF Waiting, WaitLocations, Data, Registered
<1>3. \A s \in Slots : SameData(s) /\ Alive(s)'
  BY <1>0 DEF SameData, Alive, Data, Existing
<1>4. CASE /\ task[t].wants /\ Goto(t, "unlock")
           /\ work' = work \cup {<<h, j>>}
  <2>1. PICK r \in Calls : /\ task' = [task EXCEPT ![t] = r] /\ r.pc = "unlock"
                           /\ r.handle = h /\ r.job = j /\ r.wants
    BY <1>1, <1>4, Moves DEF IInv, TaskLocations
  <2>2. /\ task'[t] = r /\ \A u \in Tasks : u # t => task'[u] = task[u]
        /\ \A u \in Tasks : task'[u].handle = task[u].handle
    BY <1>1, <2>1 DEF IInv, TypeOK
  <2>3. Existing' /\ Owners'
    BY <1>0, <1>2, <2>2 DEF Data, Existing, Owners
  <2>4. Registered'
    BY <1>0, <1>2, <2>1, <2>2 DEF Data, Registered
  <2>5. \A u \in Tasks : \A x :
          Waits(u, x) => Waits(u, x)' /\ task'[u].got = task[u].got
    BY <1>0, <2>2 DEF Waits, WaitLocations
  <2>6. ~token[t] /\ Waits(t, <<h, j>>)'
    BY <1>0, <2>1, <2>2 DEF Data, Answers, Waits, WaitLocations
  <2>7. ASSUME NEW x \in Pending'
        PROVE  \E u \in Tasks : Waits(u, x)' /\ client'[x[1]].jobResp[x[2]] = u
    <3>1. CASE x = <<h, j>>
      BY <1>0, <1>2, <1>4, <2>6, <3>1
    <3>2. CASE x # <<h, j>>
      <4>1. x \in Pending
        BY <1>0, <1>4, <3>2 DEF Pending
      <4> QED
        BY <1>0, <2>5, <4>1 DEF Data, Answers
    <3> QED
      BY <3>1, <3>2
  <2>8. Answers'
    BY <1>0, <2>1, <2>2, <2>5, <2>7 DEF Data, Answers, WaitLocations
  <2> QED
    BY <2>3, <2>4, <2>8 DEF Data
<1>5. CASE /\ task' = [task EXCEPT ![t].pc = "unassign", ![t].wants = FALSE]
           /\ UNCHANGED work
  <2> DEFINE r == [task[t] EXCEPT !.pc = "unassign", !.wants = FALSE]
  <2>1. r \in Calls /\ r.pc = "unassign" /\ r.handle = h
    <3>1. task[t] \in Calls
      BY CallFields DEF IInv
    <3> QED
      BY <1>1, <3>1 DEF Calls, TaskLocations
  <2>2. task' = [task EXCEPT ![t] = r]
    BY <1>5 DEF IInv, TypeOK
  <2> HIDE DEF r
  <2> QED
    BY <1>0, <1>1, <1>2, <1>3, <1>5, <2>1, <2>2, CallKeeps DEF WaitLocations
<1> QED
  BY <1>1, <1>4, <1>5 DEF SendSmc

-----------------------------------------------------------------------------
(* The handler, the SDM and the firmware.                                  *)
LEMMA OutsideData ==
  ASSUME IInv, Data,
         \/ mbox_irq_handler \/ AtfTransaction
         \/ \E x \in TransIds : SdmRespond(x)
  PROVE  Data'
<1>1. UNCHANGED <<client, poll, task, token>>
  BY DEF mbox_irq_handler, AtfTransaction, SdmRespond
<1>2. \A s \in Slots : SameData(s) /\ Alive(s)'
  BY <1>1 DEF SameData, Alive, Data, Existing
<1>3. mbox'.desc = mbox.desc /\ (mbox'.irq => mbox.irq)
  BY DEF mbox_irq_handler, AtfTransaction, SdmRespond, IInv, TypeOK, Mailboxes
<1>4. Pending' \subseteq Pending
  BY <1>1 DEF mbox_irq_handler, AtfTransaction, SdmRespond, Pending
<1> QED
  BY <1>1, <1>2, <1>3, <1>4, DriverKeeps

(* The poll task wakes up, fetches the bitmask, ends its round ...         *)
LEMMA RoundData ==
  ASSUME IInv, Data,
         \/ PollWait \/ PollRearm
         \/ \E ok \in BOOLEAN : PollGetTrans(ok)
  PROVE  Data'
<1>1. /\ UNCHANGED <<client, task, token, work, ready>>
      /\ poll.pc \in {"wait", "next", "trans"}
      /\ poll'.pc \in {"gone", "trans", "wait", "next"}
  BY DEF PollWait, PollRearm, PollGetTrans, PollAt, PollGoto, IInv, TypeOK,
         Polls
<1>2. \A s \in Slots : SameData(s) /\ Alive(s)'
  BY <1>1 DEF SameData, Alive, Data, Existing
<1>3. mbox.desc = "ready" /\ mbox'.desc = mbox.desc
  BY <1>1 DEF PollWait, PollRearm, PollGetTrans, IInv, TypeOK, Mailboxes,
              Starting
<1>4. Pending' \subseteq Pending
  BY <1>1 DEF Pending
<1> QED
  BY <1>1, <1>2, <1>3, <1>4, DriverKeeps

(* ... and takes a response, or does not.                                  *)
LEMMA TakeData ==
  ASSUME IInv, Data, NEW x \in TransIds, NEW ok \in BOOLEAN, PollGetResp(x, ok)
  PROVE  Data'
<1>1. /\ UNCHANGED <<mbox, client, task, token, work>>
      /\ poll.pc = "next" /\ x \in poll.bitmask /\ ready' \subseteq ready
      /\ \/ poll'.pc = "next"
         \/ poll'.pc = "copy" /\ poll'.trans = x /\ x # AtfTrans
  BY DEF PollGetResp, PollAt, AtfTrans
<1>2. \A s \in Slots : SameData(s) /\ Alive(s)'
  BY <1>1 DEF SameData, Alive, Data, Existing
<1>3. mbox'.desc = mbox.desc /\ (mbox'.irq => mbox.irq)
  BY <1>1
<1>4. x # AtfTrans => x \in ready
  BY <1>1, PollShape
<1>5. Pending' \subseteq Pending
  BY <1>1, <1>4 DEF Pending
<1> QED
  BY <1>1, <1>2, <1>3, <1>5, DriverKeeps

(* free_job_id of the poll task ...                                        *)
LEMMA PollFreeData ==
  ASSUME IInv, Data, PollFree
  PROVE  Data'
<1>1. /\ poll.pc = "free" /\ UNCHANGED <<mbox, work, ready, task, token>>
  BY DEF PollFree, PollAt
<1>2. PICK h \in Slots, j \in Jobs :
        /\ poll.trans[1] = h /\ poll.trans[2] = j /\ Delivered(h)
  BY <1>1, DeliveredTo DEF Delivering
<1>3. client[h].jobPool = {j}
  BY <1>1, <1>2 DEF Delivered
<1>4. /\ poll' = [poll EXCEPT !.pc = "callback"]
      /\ client' = [client EXCEPT ![h].jobPool = {}]
  <2>1. PollGoto("callback") /\ free_job_id(h, j)
    BY <1>2, <1>3 DEF PollFree
  <2> QED
    BY <1>3, <2>1 DEF PollGoto, free_job_id, IInv, TypeOK
<1>5. poll'.pc = "callback" /\ poll'.trans = poll.trans
  BY <1>4, PollShape DEF PollLocations
<1> DEFINE c == [client[h] EXCEPT !.jobPool = {}]
<1>6. client[h] \in Descriptors
  BY ClientType DEF IInv
<1>7. /\ c \in Descriptors /\ c.callBack = client[h].callBack
      /\ c.jobResp = client[h].jobResp /\ c.status = client[h].status
      /\ c.free = client[h].free /\ c.mutex = client[h].mutex
  BY <1>6 DEF Descriptors
<1>8. client' = [client EXCEPT ![h] = c]
  BY <1>4 DEF IInv, TypeOK
<1> HIDE DEF c
<1>9. \A s \in Slots : SameData(s) /\ Alive(s)'
  <2>1. client'[h] = c
        /\ \A s \in Slots : s # h => client'[s] = client[s] /\ SameData(s)
    BY <1>7, <1>8, OnlyMine DEF IInv
  <2>2. Alive(h)'
    BY <1>7, <2>1 DEF Alive, Data, Existing
  <2> QED
    BY <1>7, <2>1, <2>2, AliveKept DEF Data, SameData
<1>10. Pending' \subseteq Pending
  BY <1>1, <1>5 DEF Pending
<1> QED
  BY <1>1, <1>5, <1>9, <1>10, DriverKeeps

(* ... and its post of client_free.                                        *)
LEMMA PollPostData ==
  ASSUME IInv, Data, PollPost
  PROVE  Data'
<1>1. /\ poll.pc = "post" /\ UNCHANGED <<mbox, work, ready, task, token>>
  BY DEF PollPost, PollAt
<1>2. PICK h \in Slots, j \in Jobs :
        /\ poll.trans[1] = h /\ poll.trans[2] = j /\ Delivered(h)
  BY <1>1, DeliveredTo DEF Delivering
<1>3. /\ poll' = [poll EXCEPT !.pc = "next", !.trans = AtfTrans]
      /\ client' = [client EXCEPT ![h].free = 1]
  BY <1>2 DEF PollPost
<1>4. poll'.pc = "next"
  BY <1>3, PollShape DEF Polls
<1> DEFINE c == [client[h] EXCEPT !.free = 1]
<1>5. client[h] \in Descriptors
  BY ClientType DEF IInv
<1>6. /\ c \in Descriptors /\ c.callBack = client[h].callBack
      /\ c.jobResp = client[h].jobResp /\ c.status = client[h].status
      /\ c.free # Dead /\ c.mutex = client[h].mutex
  BY <1>5, MboxAssumption DEF Descriptors
<1>7. client' = [client EXCEPT ![h] = c]
  BY <1>3 DEF IInv, TypeOK
<1> HIDE DEF c
<1>8. \A s \in Slots : SameData(s) /\ Alive(s)'
  <2>1. client'[h] = c
        /\ \A s \in Slots : s # h => client'[s] = client[s] /\ SameData(s)
    BY <1>6, <1>7, OnlyMine DEF IInv
  <2>2. Alive(h)'
    BY <1>6, <2>1 DEF Alive, Data, Existing
  <2> QED
    BY <1>6, <2>1, <2>2, AliveKept DEF Data, SameData
<1>9. Pending' \subseteq Pending
  BY <1>1, <1>4 DEF Pending
<1> QED
  BY <1>1, <1>4, <1>8, <1>9, DriverKeeps

(* The response goes to the caller that waits for it, whose buffer is the  *)
(* registered one.                                                         *)
LEMMA CopyTarget ==
  ASSUME IInv, Data, poll.pc = "copy"
  PROVE  /\ poll.trans \in Pending /\ Target \in Tasks
         /\ Waits(Target, poll.trans)
         /\ TargetLive
<1>1. poll.trans \in Pending
  BY PollShape DEF Pending, IInv, Handles, Delivering
<1>2. PICK t \in Tasks : Waits(t, poll.trans)
                         /\ client[poll.trans[1]].jobResp[poll.trans[2]] = t
  BY <1>1, Caller
<1>3. Target = t
  BY <1>2 DEF Target
<1> QED
  BY <1>1, <1>2, <1>3 DEF TargetLive, Waits, WaitLocations

LEMMA CopyData ==
  ASSUME IInv, Data, PollCopy
  PROVE  Data'
<1>1. /\ poll.pc = "copy" /\ PollGoto("free")
      /\ UNCHANGED <<mbox, client, work, ready, token>>
  BY DEF PollCopy, PollAt
<1>2. PICK t \in Tasks : t = Target /\ Waits(t, poll.trans)
  BY <1>1, CopyTarget
<1>3. task' = [task EXCEPT ![t].got = TRUE]
  <2>1. ~(Target = None \/ DeadBuffer)
    BY <1>1, <1>2, CopyTarget, MboxAssumption DEF DeadBuffer
  <2> QED
    BY <1>2, <2>1 DEF PollCopy
<1>4. poll'.pc = "free" /\ poll'.trans = poll.trans
  BY <1>1, PollShape DEF PollGoto, PollLocations
<1>5. /\ \A u \in Tasks : /\ task'[u].pc = task[u].pc
                          /\ task'[u].handle = task[u].handle
                          /\ task'[u].job = task[u].job
                          /\ task'[u].wants = task[u].wants
      /\ task'[t].got
      /\ \A u \in Tasks : u # t => task'[u] = task[u]
  <2> DEFINE r == [task[t] EXCEPT !.got = TRUE]
  <2>1. task[t] \in Calls
    BY CallFields DEF IInv
  <2>2. /\ r.pc = task[t].pc /\ r.handle = task[t].handle /\ r.job = task[t].job
        /\ r.wants = task[t].wants /\ r.got
    BY <2>1 DEF Calls
  <2>3. task' = [task EXCEPT ![t] = r]
    BY <1>3 DEF IInv, TypeOK
  <2> HIDE DEF r
  <2> QED
    BY <2>2, <2>3 DEF IInv, TypeOK
<1>6. Existing' /\ Owners'
  BY <1>1, <1>5 DEF Data, Existing, Owners
<1>7. Registered'
  BY <1>1, <1>5 DEF Data, Registered
<1>8. \A u \in Tasks : \A x : Waits(u, x) => Waits(u, x)'
  BY <1>1, <1>5 DEF Waits
<1>9. Pending' \subseteq Pending
  BY <1>1, <1>4 DEF Pending
<1>10. \A x \in Pending' : \E u \in Tasks :
         Waits(u, x)' /\ client'[x[1]].jobResp[x[2]] = u
  BY <1>1, <1>8, <1>9 DEF Data, Answers
<1>11. Waits(t, poll.trans)'
  BY <1>1, <1>2, <1>4, <1>5 DEF Waits
<1>12. \A u \in Tasks : token'[u] =>
         task'[u].pc \in WaitLocations /\ task'[u].wants /\ task'[u].got
  <2> TAKE u \in Tasks
  <2>1. CASE u = t
    BY <1>1, <1>2, <2>1 DEF Waits
  <2>2. CASE u # t
    BY <1>1, <1>5, <2>2 DEF Data, Answers
  <2> QED
    BY <2>1, <2>2
<1>13. Answers'
  BY <1>5, <1>10, <1>11, <1>12 DEF Answers
<1> QED
  BY <1>6, <1>7, <1>13 DEF Data

(* The callback wakes the caller of the response that was copied, and no   *)
(* caller of another transaction.                                          *)
LEMMA CallbackData ==
  ASSUME IInv, Data, PollCallback
  PROVE  Data'
<1>1. /\ poll.pc = "callback" /\ PollGoto("post")
      /\ UNCHANGED <<mbox, client, work, ready, task>>
  BY DEF PollCallback, PollAt
<1>2. poll'.pc = "post" /\ poll'.trans = poll.trans
  BY <1>1, PollShape DEF PollGoto, PollLocations
<1>3. PICK h \in Slots, j \in Jobs :
        /\ poll.trans[1] = h /\ poll.trans[2] = j /\ Delivered(h)
  BY <1>1, DeliveredTo DEF Delivering
<1>4. PICK t \in Tasks : Waits(t, poll.trans) /\ task[t].got
  BY <1>1 DEF Data, Answers
<1>5. task[t].handle = h /\ task[t].pc # "setcb" /\ h # None
  BY <1>3, <1>4, MboxAssumption DEF Waits, WaitLocations
<1>6. client[h].callBack = t
  BY <1>5 DEF Data, Registered
<1>7. token' = [u \in Tasks |-> token[u] \/ u = t]
  BY <1>3, <1>6 DEF PollCallback
<1>8. Existing' /\ Owners'
  BY <1>1 DEF Data, Existing, Owners
<1>9. Registered'
  BY <1>1 DEF Data, Registered
<1>10. Pending' = Pending
  BY <1>1, <1>2 DEF Pending
<1>11. ASSUME NEW x \in Pending
       PROVE  \E u \in Tasks : Waits(u, x)' /\ client'[x[1]].jobResp[x[2]] = u
  <2>1. PICK u \in Tasks : /\ Waits(u, x) /\ client[x[1]].jobResp[x[2]] = u
                           /\ task[u].handle = x[1]
    BY Caller
  <2>2. x[1] # h
    <3>1. InFlight(h) = {}
      BY <1>3 DEF Delivered
    <3> QED
      BY <1>1, <3>1 DEF InFlight, Pending
  <2>3. u # t
    BY <1>5, <2>1, <2>2
  <2>4. Waits(u, x)'
    BY <1>1, <1>7, <2>1, <2>3 DEF Waits
  <2> QED
    BY <1>1, <2>1, <2>4
<1>12. \A u \in Tasks : token'[u] =>
         task'[u].pc \in WaitLocations /\ task'[u].wants /\ task'[u].got
  <2> TAKE u \in Tasks
  <2>1. CASE u = t
    BY <1>1, <1>4, <2>1 DEF Waits
  <2>2. CASE u # t
    BY <1>1, <1>7, <2>2 DEF Data, Answers
  <2> QED
    BY <2>1, <2>2
<1>13. Answers'
  BY <1>2, <1>10, <1>11, <1>12 DEF Answers
<1> QED
  BY <1>8, <1>9, <1>13 DEF Data

-----------------------------------------------------------------------------
(* Data holds at the start ...                                             *)
LEMMA DataAtStart == Init => Data
<1> SUFFICES ASSUME Init PROVE Data
  OBVIOUS
<1>1. /\ \A t \in Tasks : task[t] = NoCall(None) /\ ~token[t]
      /\ \A s \in Slots : client[s].status = 0
      /\ mbox.desc = "null" /\ ~mbox.irq /\ work = {} /\ ready = {}
      /\ poll.pc = "none"
  BY DEF Init, ClosedClient
<1>2. \A t \in Tasks : task[t].handle = None /\ task[t].pc = "idle"
  BY <1>1 DEF NoCall
<1> QED
  BY <1>1, <1>2
  DEF Data, Existing, Owners, Registered, WaitLocations, Answers, Pending

(* ... and is kept by every step of patient users.                         *)
LEMMA StepData ==
  ASSUME Patient, IInv, Data, [Next]_vars, \A t \in Tasks : ~Closes(t),
         \A t, u \in Tasks : task[t].pc = "open" => task[u].pc # "closeDelete"
  PROVE  Data'
<1>1. ASSUME NEW t \in Tasks, Continue(t)
      PROVE  Data'
  <2>1. ~( \/ CloseLockList(t) \/ CloseReset(t) \/ CloseDelete(t)
           \/ mbox_deinit(t) \/ DeinitFree(t) )
    BY DEF Closes
  <2>2. mbox_open_client(t) => Data'
    BY OpenData DEF mbox_open_client, At
  <2> QED
    BY <1>1, <2>1, <2>2, InitData, SetCallbackData, WaitFreeData, LockData,
       AssignData, ArmData, SmcData, FreeData, RepostData, UnlockData, AwaitData
    DEF Continue
<1>2. ASSUME NEW t \in Tasks, Choose(t)
      PROVE  Data'
  <2>1. ~(Share(t) \/ mbox_close_client(t) \/ AwaitTimeout(t))
    BY DEF Share, Closes, AwaitTimeout, Patient
  <2> QED
    BY <1>2, <2>1, StartData, CallData DEF Choose
<1>3. ASSUME mbox_poll_resp_task
      PROVE  Data'
  BY <1>3, RoundData, TakeData, CopyData, PollFreeData, CallbackData,
     PollPostData
  DEF mbox_poll_resp_task
<1>4. CASE UNCHANGED vars
  <2>1. Pending' = Pending
    BY <1>4 DEF vars, Pending
  <2> QED
    BY <1>4, <2>1
    DEF vars, Data, Existing, Owners, Registered, Answers, Waits
<1> QED
  BY <1>1, <1>2, <1>3, <1>4, OutsideData DEF Next

-----------------------------------------------------------------------------
(* Tasks that close their client and the mailbox, when no task interrupts  *)
(* the poll task (Preempt = {}).  Start and stop calls do not overlap      *)
(* (Serial), so the task that closes is the only one in such a call; its   *)
(* client has been given back, and stays so, because nobody else has it.   *)
OneAtATime ==
  \A t, u \in Tasks :
    task[t].pc \in Lifecycle /\ task[u].pc \in Lifecycle => t = u

ListHeld == mbox.list # None => \E t \in Tasks : task[t].pc = "closeClient"

(* From mbox_deinit on no client is open, the interrupt is off, and the    *)
(* poll task has ended or is about to: it was waiting, and is woken.       *)
Ending ==
  /\ mbox.desc = "ready" /\ mbox.state = "CLOSED" /\ ~mbox.irq
  /\ \A s \in Slots : client[s].status = 0
  /\ poll.pc = "gone" \/ (poll.pc = "wait" /\ mbox.count > 0)

CloseLocations == {"closeList", "closeClient"}

ClosingTask(t) ==
  /\ task[t].pc \in CloseLocations =>
       task[t].handle # None /\ Mine(t).free # 0
  /\ task[t].pc = "closeDelete" =>
       task[t].handle # None /\ Mine(t).status = 0
  /\ task[t].pc \in {"deinit", "deinitFree"} => task[t].handle = None
  /\ task[t].pc = "deinitFree" => Ending

PollEnds ==
  mbox.desc = "ready" =>
    /\ poll.pc # "none"
    /\ mbox.state = "CLOSED" \/ poll.pc = "gone" =>
         \E t \in Tasks : task[t].pc = "deinitFree"

Life ==
  /\ OneAtATime /\ ListHeld /\ PollEnds
  /\ \A t \in Tasks : ClosingTask(t)

(* A step of the one task that starts or stops.                            *)
LEMMA LifeAlone ==
  ASSUME TypeOK, NEW t \in Tasks, NEW r \in Calls,
         task' = [task EXCEPT ![t] = r],
         \A u \in Tasks \ {t} : task[u].pc \notin Lifecycle,
         mbox'.list # None => r.pc = "closeClient",
         r.pc \in CloseLocations =>
           r.handle # None /\ client'[r.handle].free # 0,
         r.pc = "closeDelete" =>
           r.handle # None /\ client'[r.handle].status = 0,
         r.pc \in {"deinit", "deinitFree"} => r.handle = None,
         r.pc = "deinitFree" => Ending',
         mbox'.desc = "ready" =>
           /\ poll'.pc # "none"
           /\ mbox'.state = "CLOSED" \/ poll'.pc = "gone" => r.pc = "deinitFree"
  PROVE  Life'
<1>1. task'[t] = r /\ \A u \in Tasks \ {t} : task'[u] = task[u]
  BY DEF TypeOK
<1>2. \A u \in Tasks \ {t} : task'[u].pc \notin Lifecycle
  BY <1>1
<1>3. OneAtATime'
  BY <1>2 DEF OneAtATime
<1>4. ListHeld' /\ PollEnds'
  BY <1>1 DEF ListHeld, PollEnds
<1>5. \A u \in Tasks : ClosingTask(u)'
  <2> TAKE u \in Tasks
  <2>1. CASE u = t
    BY <1>1, <2>1 DEF ClosingTask, Mine
  <2>2. CASE u # t
    BY <1>2, <2>2 DEF ClosingTask, CloseLocations, Lifecycle
  <2> QED
    BY <2>1, <2>2
<1> QED
  BY <1>3, <1>4, <1>5 DEF Life

(* A step of a task that neither starts nor stops: it takes no client but  *)
(* its own.                                                                *)
LEMMA LifeOfCall ==
  ASSUME IInv, Data, Life, NEW u \in Tasks,
         \A t \in Tasks \ {u} : task'[t] = task[t],
         task[u].pc \notin Lifecycle, task'[u].pc \notin Lifecycle,
         \A s \in Slots :
           /\ client'[s].status = client[s].status
           /\ client'[s].free = 0 => client[s].free = 0 \/ s = task[u].handle,
         mbox'.desc = mbox.desc, mbox'.state = mbox.state,
         mbox'.list = mbox.list, mbox'.count = mbox.count,
         mbox'.irq => mbox.irq \/ task[u].handle # None,
         UNCHANGED poll
  PROVE  Life'
<1>1. \A t \in Tasks : task'[t].pc \in Lifecycle =>
        t # u /\ task'[t] = task[t]
  OBVIOUS
<1>2. OneAtATime'
  BY <1>1 DEF Life, OneAtATime
<1>3. \A t \in Tasks : task[t].pc \in Lifecycle => task'[t] = task[t]
  OBVIOUS
<1>4. ListHeld' /\ PollEnds'
  BY <1>3 DEF Life, ListHeld, PollEnds, Lifecycle
<1>5. Ending => Ending'
  <2> SUFFICES ASSUME Ending PROVE Ending'
    OBVIOUS
  <2>1. task[u].handle = None
    BY Held DEF Ending, Lifecycle
  <2> QED
    BY <2>1 DEF Ending
<1>6. ASSUME NEW t \in Tasks
      PROVE  ClosingTask(t)'
  <2>1. CASE task'[t].pc \notin Lifecycle
    BY <2>1 DEF ClosingTask, CloseLocations, Lifecycle
  <2>2. CASE task'[t].pc \in Lifecycle
    <3>1. t # u /\ task'[t] = task[t] /\ ClosingTask(t)
      BY <1>1, <2>2 DEF Life
    <3>2. task[t].handle # None => task[t].handle # task[u].handle
      BY <3>1 DEF Data, Owners
    <3>3. task[t].handle \in Slots \cup {None}
      BY Held
    <3> QED
      BY <1>5, <3>1, <3>2, <3>3 DEF ClosingTask, Mine
  <2> QED
    BY <2>1, <2>2
<1> QED
  BY <1>2, <1>4, <1>6 DEF Life

(* A step of the poll task, the handler, the SDM or the firmware.          *)
LEMMA LifeOfDriver ==
  ASSUME IInv, Life,
         \A t \in Tasks : /\ task'[t].pc = task[t].pc
                          /\ task'[t].handle = task[t].handle,
         \A s \in Slots : /\ client'[s].status = client[s].status
                          /\ client'[s].free = 0 => client[s].free = 0,
         mbox'.desc = mbox.desc, mbox'.list = mbox.list,
         Ending => Ending',
         mbox.desc = "ready" =>
           /\ poll'.pc # "none"
           /\ mbox'.state = "CLOSED" \/ poll'.pc = "gone" =>
                mbox.state = "CLOSED" \/ poll.pc = "gone"
  PROVE  Life'
<1>1. OneAtATime' /\ ListHeld' /\ PollEnds'
  BY DEF Life, OneAtATime, ListHeld, PollEnds
<1>2. ASSUME NEW t \in Tasks
      PROVE  ClosingTask(t)'
  <2>1. ClosingTask(t) /\ task[t].handle \in Slots \cup {None}
    BY Held DEF Life
  <2> QED
    BY <2>1 DEF ClosingTask, Mine
<1> QED
  BY <1>1, <1>2 DEF Life

(* The other tasks when one starts or stops.                               *)
LEMMA Alone ==
  ASSUME Life, NEW t \in Tasks, task[t].pc \in Lifecycle
  PROVE  \A u \in Tasks \ {t} : task[u].pc \notin Lifecycle
BY DEF Life, OneAtATime

(* When nobody stops, nobody has the list, and the poll task is there.     *)
LEMMA NobodyStops ==
  ASSUME Life, \A t \in Tasks : task[t].pc \notin Closing
  PROVE  /\ mbox.list = None
         /\ mbox.desc = "ready" =>
              poll.pc \notin {"none", "gone"} /\ mbox.state # "CLOSED"
BY DEF Life, ListHeld, PollEnds, Closing

(* The steps of mbox_init, mbox_open_client and mbox_set_callback.         *)
LEMMA StartLife ==
  ASSUME Patient, IInv, Life, NEW t \in Tasks,
         Start(t) \/ mbox_init(t) \/ mbox_open_client(t) \/ mbox_set_callback(t)
  PROVE  Life'
<1>1. /\ task[t].pc \in {"idle", "init", "open", "setcb"}
      /\ \A u \in Tasks \ {t} : task[u].pc \notin Lifecycle
  <2>1. CASE Start(t)
    BY <2>1 DEF Start, At, Patient
  <2>2. CASE task[t].pc \in {"init", "open", "setcb"}
    BY <2>2, Alone DEF Lifecycle
  <2> QED
    BY <2>1, <2>2 DEF mbox_init, mbox_open_client, mbox_set_callback, At
<1>2. /\ mbox.list = None
      /\ mbox.desc = "ready" =>
           poll.pc \notin {"none", "gone"} /\ mbox.state # "CLOSED"
  <2>1. \A u \in Tasks : task[u].pc \notin Closing
    BY <1>1 DEF Closing, Lifecycle
  <2> QED
    BY <2>1, NobodyStops
<1>3. PICK r \in Calls : /\ task' = [task EXCEPT ![t] = r]
                         /\ r.pc \in {"idle", "init", "open", "setcb"}
  <2>1. CASE \E loc \in {"init", "open"} : Goto(t, loc)
    BY <2>1, Moves DEF IInv, TaskLocations
  <2>2. CASE Return(t)
    BY <2>2, MovesBack DEF IInv
  <2>3. ASSUME NEW i \in Slots,
               task' = [task EXCEPT ![t].pc = "setcb", ![t].handle = i]
        PROVE  \E r \in Calls : task' = [task EXCEPT ![t] = r] /\ r.pc = "setcb"
    <3> DEFINE r == [task[t] EXCEPT !.pc = "setcb", !.handle = i]
    <3>0. task[t] \in Calls
      BY CallFields DEF IInv
    <3>1. r \in Calls /\ r.pc = "setcb"
      BY <3>0 DEF Calls, TaskLocations
    <3>2. task' = [task EXCEPT ![t] = r]
      BY <2>3 DEF IInv, TypeOK
    <3> QED
      BY <3>1, <3>2
  <2>4. \/ \E loc \in {"init", "open"} : Goto(t, loc)
        \/ Return(t)
        \/ \E i \in Slots :
             task' = [task EXCEPT ![t].pc = "setcb", ![t].handle = i]
    BY DEF Start, mbox_init, mbox_open_client, mbox_set_callback
  <2> QED
    BY <2>1, <2>2, <2>3, <2>4
<1>4. /\ mbox'.list = None
      /\ mbox'.desc = "ready" => poll'.pc \notin {"none", "gone"}
                                 /\ mbox'.state # "CLOSED"
  <2>0. mbox \in Mailboxes /\ poll \in Polls
    BY DEF IInv, TypeOK
  <2>1. CASE Start(t)
    BY <1>2, <2>0, <2>1 DEF Start, Mailboxes
  <2>2. CASE mbox_init(t)
    BY <2>0, <2>2 DEF mbox_init, Mailboxes, Polls
  <2>3. CASE UNCHANGED <<mbox, poll>>
    BY <1>2, <2>3
  <2> QED
    BY <2>1, <2>2, <2>3 DEF mbox_open_client, mbox_set_callback
<1>5. r.pc \notin Closing
  BY <1>3 DEF Closing
<1> QED
  BY <1>1, <1>3, <1>4, <1>5, LifeAlone DEF IInv, Closing, CloseLocations

(* Where a task goes.                                                      *)
LEMMA Walk ==
  ASSUME TypeOK, NEW t \in Tasks
  PROVE  /\ \A loc : Goto(t, loc) =>
              task'[t].pc = loc /\ \A u \in Tasks \ {t} : task'[u] = task[u]
         /\ Return(t) =>
              task'[t].pc = "idle" /\ \A u \in Tasks \ {t} : task'[u] = task[u]
<1>1. task \in [Tasks -> Calls] /\ task[t] \in Calls
  BY DEF TypeOK
<1>2. ASSUME NEW loc, Goto(t, loc)
      PROVE  task'[t].pc = loc /\ \A u \in Tasks \ {t} : task'[u] = task[u]
  BY <1>1, <1>2 DEF Goto, Calls
<1>3. ASSUME Return(t)
      PROVE  task'[t].pc = "idle" /\ \A u \in Tasks \ {t} : task'[u] = task[u]
  BY <1>1, <1>3 DEF Return, NoCall
<1> QED
  BY <1>2, <1>3

(* The steps of sip_svc_send and of the wait for the callback.             *)
Sends(t) ==
  \/ SendWaitFree(t) \/ SendLock(t) \/ assign_job_id(t) \/ SendArm(t)
  \/ SendSmc(t) \/ SendFree(t) \/ SendRepost(t) \/ SendUnlock(t)
  \/ AwaitCallback(t) \/ \E w \in BOOLEAN : sip_svc_send(t, w)

LEMMA SendsMoves ==
  ASSUME TypeOK, NEW t \in Tasks, Sends(t)
  PROVE  /\ task[t].pc \notin Lifecycle /\ task'[t].pc \notin Lifecycle
         /\ \A u \in Tasks \ {t} : task'[u] = task[u]
<1>0. task \in [Tasks -> Calls] /\ task[t] \in Calls
  BY DEF TypeOK
<1>1. task[t].pc \notin Lifecycle
  BY DEF Sends, SendWaitFree, SendLock, assign_job_id, SendArm, SendSmc,
         SendFree, SendRepost, SendUnlock, AwaitCallback, sip_svc_send, At,
         Lifecycle
<1>2. \/ \E loc \in {"mutex", "assign", "smc", "unlock", "repost", "await"} :
           Goto(t, loc)
      \/ Return(t)
      \/ \E i \in Jobs : task' = [task EXCEPT ![t].pc = "arm", ![t].job = i]
      \/ task' = [task EXCEPT ![t].pc = "unassign", ![t].wants = FALSE]
      \/ \E w \in BOOLEAN :
           task' = [task EXCEPT ![t].pc = "sem", ![t].wants = w, ![t].got = FALSE]
  BY DEF Sends, SendWaitFree, SendLock, assign_job_id, SendArm, SendSmc,
         SendFree, SendRepost, SendUnlock, AwaitCallback, sip_svc_send
<1>3. /\ task'[t].pc \in {"mutex", "assign", "smc", "unlock", "repost", "await",
                          "idle", "arm", "unassign", "sem"}
      /\ \A u \in Tasks \ {t} : task'[u] = task[u]
  <2>1. ASSUME NEW loc \in {"mutex", "assign", "smc", "unlock", "repost",
                            "await"}, Goto(t, loc)
        PROVE  task'[t].pc = loc /\ \A u \in Tasks \ {t} : task'[u] = task[u]
    BY <2>1, Walk
  <2>2. CASE Return(t)
    BY <2>2, Walk
  <2>3. ASSUME NEW i \in Jobs,
               task' = [task EXCEPT ![t].pc = "arm", ![t].job = i]
        PROVE  task'[t].pc = "arm" /\ \A u \in Tasks \ {t} : task'[u] = task[u]
    BY <1>0, <2>3 DEF Calls
  <2>4. ASSUME task' = [task EXCEPT ![t].pc = "unassign", ![t].wants = FALSE]
        PROVE  /\ task'[t].pc = "unassign"
               /\ \A u \in Tasks \ {t} : task'[u] = task[u]
    BY <1>0, <2>4 DEF Calls
  <2>5. ASSUME NEW w \in BOOLEAN,
               task' = [task EXCEPT ![t].pc = "sem", ![t].wants = w,
                                    ![t].got = FALSE]
        PROVE  task'[t].pc = "sem" /\ \A u \in Tasks \ {t} : task'[u] = task[u]
    BY <1>0, <2>5 DEF Calls
  <2> QED
    BY <1>2, <2>1, <2>2, <2>3, <2>4, <2>5
<1> QED
  BY <1>1, <1>3 DEF Lifecycle

(* ... which take client_free of no client but the task's own.             *)
LEMMA SendsClient ==
  ASSUME IInv, NEW t \in Tasks, Sends(t)
  PROVE  \A s \in Slots :
           /\ client'[s].status = client[s].status
           /\ client'[s].free = 0 => client[s].free = 0 \/ s = task[t].handle
<1> DEFINE h == task[t].handle
<1>0. TypeOK /\ h \in Slots \cup {None}
  BY CallFields DEF IInv
<1>1. CASE h = None
  <2>1. SendUnlock(t) \/ AwaitCallback(t) \/ \E w \in BOOLEAN : sip_svc_send(t, w)
    BY <1>1, Held, MboxAssumption
    DEF Sends, SendWaitFree, SendLock, assign_job_id, SendArm, SendSmc,
        SendFree, SendRepost, At, SendLocations
  <2>2. client' = client
    BY <1>0, <1>1, <2>1, MboxAssumption
    DEF SendUnlock, AwaitCallback, sip_svc_send, TypeOK
  <2> QED
    BY <2>2
<1>2. CASE h \in Slots
  <2>1. CASE SendWaitFree(t)
    <3>1. client' = [client EXCEPT ![h].free = 0]
      BY <2>1 DEF SendWaitFree
    <3> QED
      BY <1>0, <1>2, <3>1, SetFree
  <2>2. CASE SendRepost(t)
    <3>1. client' = [client EXCEPT ![h].free = 1]
      BY <2>2 DEF SendRepost
    <3> QED
      BY <1>0, <1>2, <3>1, SetFree
  <2>3. CASE SendLock(t) \/ SendUnlock(t)
    <3>1. PICK m \in Tasks \cup {None, Dead} :
            client' = [client EXCEPT ![h].mutex = m]
      BY <2>3 DEF SendLock, SendUnlock
    <3> QED
      BY <1>0, <1>2, <3>1, SetMutex
  <2>4. CASE SendArm(t)
    <3>1. client' = [client EXCEPT ![h].jobResp[task[t].job] =
                       IF task[t].wants THEN t ELSE None]
      BY <2>4 DEF SendArm
    <3>2. task[t].job \in Jobs
      BY <1>0, CallFields
    <3>3. (IF task[t].wants THEN t ELSE None) \in Tasks \cup {None}
      OBVIOUS
    <3> QED
      BY <1>0, <1>2, <3>1, <3>2, <3>3, SetResp
  <2>5. CASE assign_job_id(t)
    <3>1. CASE UNCHANGED client
      BY <3>1
    <3>2. ASSUME NEW i \in Jobs,
                 client' = [client EXCEPT ![h].jobPool = @ \cup {i},
                                          ![h].jobHead = (i + 1) % MaxJob]
          PROVE  \A s \in Slots : /\ client'[s].status = client[s].status
                                  /\ client'[s].free = client[s].free
      <4>0. (i + 1) % MaxJob \in Jobs
        BY MboxAssumption DEF Jobs
      <4>1. client[h].jobPool \cup {i} \in SUBSET Jobs
        BY <1>0, <1>2, ClientType DEF Descriptors
      <4>2. client' = [client EXCEPT ![h].jobPool = client[h].jobPool \cup {i},
                                     ![h].jobHead = (i + 1) % MaxJob]
        BY <3>2
      <4> QED
        BY <1>0, <1>2, <4>0, <4>1, <4>2, SetJob
    <3> QED
      BY <2>5, <3>1, <3>2 DEF assign_job_id, Mine
  <2>6. CASE SendFree(t)
    <3>1. CASE UNCHANGED client
      BY <3>1
    <3>2. CASE free_job_id(h, task[t].job)
      <4>1. client[h].jobPool \in SUBSET Jobs /\ task[t].job \in Jobs
        BY <1>0, <1>2, ClientType, CallFields DEF Descriptors
      <4>2. PICK p \in SUBSET Jobs : client' = [client EXCEPT ![h].jobPool = p]
        BY <3>2, <4>1 DEF free_job_id
      <4> QED
        BY <1>0, <1>2, <4>2, SetPool
    <3> QED
      BY <2>6, <3>1, <3>2 DEF SendFree
  <2>7. CASE UNCHANGED client
    BY <2>7
  <2> QED
    BY <2>1, <2>2, <2>3, <2>4, <2>5, <2>6, <2>7
    DEF Sends, SendSmc, AwaitCallback, sip_svc_send
<1> QED
  BY <1>0, <1>1, <1>2

LEMMA SendsLife ==
  ASSUME IInv, Data, Life, NEW t \in Tasks, Sends(t)
  PROVE  Life'
<1>1. /\ task[t].pc \notin Lifecycle /\ task'[t].pc \notin Lifecycle
      /\ \A u \in Tasks \ {t} : task'[u] = task[u]
  BY SendsMoves DEF IInv
<1>2. /\ mbox'.desc = mbox.desc /\ mbox'.state = mbox.state
      /\ mbox'.list = mbox.list /\ mbox'.count = mbox.count
      /\ mbox'.irq => mbox.irq \/ task[t].handle # None
      /\ UNCHANGED poll
  <2>1. CASE SendArm(t)
    <3>1. mbox' = [mbox EXCEPT !.irq = TRUE] /\ mbox \in Mailboxes
      BY <2>1 DEF SendArm, IInv, TypeOK
    <3>2. task[t].handle # None
      BY <2>1, Held, MboxAssumption DEF SendArm, At, SendLocations
    <3> QED
      BY <2>1, <3>1, <3>2 DEF SendArm, Mailboxes
  <2>2. CASE UNCHANGED <<mbox, poll>>
    BY <2>2
  <2> QED
    BY <2>1, <2>2
    DEF Sends, SendWaitFree, SendLock, assign_job_id, SendSmc, SendFree,
        SendRepost, SendUnlock, AwaitCallback, sip_svc_send
<1>3. \A s \in Slots :
        /\ client'[s].status = client[s].status
        /\ client'[s].free = 0 => client[s].free = 0 \/ s = task[t].handle
  BY SendsClient
<1> QED
  BY <1>1, <1>2, <1>3, LifeOfCall

(* The steps of the poll task, the handler, the SDM and the firmware.      *)
LEMMA DriverLife ==
  ASSUME IInv, Data, Life,
         \/ mbox_irq_handler \/ AtfTransaction \/ mbox_poll_resp_task
         \/ \E x \in TransIds : SdmRespond(x)
  PROVE  Life'
<1>0. mbox \in Mailboxes /\ poll \in Polls /\ TypeOK
  BY DEF IInv, TypeOK
<1>1. CASE mbox_irq_handler
  <2>1. /\ mbox.desc = "ready" /\ mbox.irq /\ mbox'.irq = FALSE
        /\ mbox'.desc = mbox.desc /\ mbox'.list = mbox.list
        /\ mbox'.state = "BUSY" /\ UNCHANGED <<client, poll, task>>
    BY <1>0, <1>1 DEF mbox_irq_handler, Mailboxes, Data, Existing
  <2>2. ~Ending
    BY <2>1 DEF Ending
  <2>3. poll.pc # "none"
    BY <2>1 DEF Life, PollEnds
  <2> QED
    BY <2>1, <2>2, <2>3, LifeOfDriver
<1>2. CASE UNCHANGED <<mbox, client, poll, task>>
  BY <1>2, LifeOfDriver DEF Ending, Life, PollEnds
<1>3. CASE mbox_poll_resp_task
  <2>0. mbox.desc = "ready" /\ poll.pc \notin {"none", "gone"}
    <3>1. poll.pc \notin {"none", "gone"}
      BY <1>3
      DEF mbox_poll_resp_task, PollWait, PollCopy, PollFree, PollCallback,
          PollPost, PollRearm, PollGetTrans, PollGetResp, PollAt
    <3> QED
      BY <3>1 DEF IInv, Starting
  <2>1. \A t \in Tasks : /\ task'[t].pc = task[t].pc
                         /\ task'[t].handle = task[t].handle
    <3>1. CASE PollCopy
      <4>1. \/ task' = task
            \/ task' = [task EXCEPT ![Target].got = TRUE]
        BY <3>1 DEF PollCopy
      <4>2. \A t \in Tasks : task[t] \in Calls
        BY CallFields DEF IInv
      <4> QED
        BY <1>0, <4>1, <4>2 DEF TypeOK, Calls
    <3>2. CASE UNCHANGED task
      BY <3>2
    <3> QED
      BY <1>3, <3>1, <3>2
      DEF mbox_poll_resp_task, PollWait, PollFree, PollCallback, PollPost,
          PollRearm, PollGetTrans, PollGetResp
  <2>2. \A s \in Slots : /\ client'[s].status = client[s].status
                         /\ client'[s].free = 0 => client[s].free = 0
    <3>1. CASE PollFree
      <4>1. PICK h \in Slots, j \in Jobs :
              /\ poll.trans[1] = h /\ poll.trans[2] = j
        BY <3>1, DeliveredTo DEF PollFree, PollAt, Delivering
      <4>2. CASE free_job_id(h, j)
        <5>1. client[h].jobPool \in SUBSET Jobs
          BY <1>0, ClientType DEF Descriptors
        <5>2. PICK p \in SUBSET Jobs :
                client' = [client EXCEPT ![h].jobPool = p]
          BY <4>2, <5>1 DEF free_job_id
        <5> QED
          BY <1>0, <5>2, SetPool
      <4>3. CASE UNCHANGED client
        BY <4>3
      <4> QED
        BY <3>1, <4>1, <4>2, <4>3 DEF PollFree
    <3>2. CASE PollPost
      <4>1. PICK h \in Slots : poll.trans[1] = h
        BY <3>2, DeliveredTo DEF PollPost, PollAt, Delivering
      <4>2. client' = [client EXCEPT ![h].free = 1]
        BY <3>2, <4>1 DEF PollPost
      <4> QED
        BY <1>0, <4>2, SetFree
    <3>3. CASE UNCHANGED client
      BY <3>3
    <3> QED
      BY <1>3, <3>1, <3>2, <3>3
      DEF mbox_poll_resp_task, PollWait, PollCopy, PollCallback, PollRearm,
          PollGetTrans, PollGetResp
  <2>3. CASE PollWait
    <3>1. /\ mbox' = [mbox EXCEPT !.count = @ - 1] /\ poll.pc = "wait"
          /\ PollGoto(IF mbox.state = "CLOSED" THEN "gone" ELSE "trans")
          /\ client' = client
      BY <2>3 DEF PollWait, PollAt
    <3>2. /\ mbox'.desc = mbox.desc /\ mbox'.list = mbox.list
          /\ mbox'.state = mbox.state /\ mbox'.irq = mbox.irq
          /\ poll'.pc = IF mbox.state = "CLOSED" THEN "gone" ELSE "trans"
      BY <1>0, <3>1 DEF Mailboxes, PollGoto, Polls
    <3>3. Ending => Ending'
      BY <3>1, <3>2 DEF Ending
    <3> QED
      BY <2>1, <2>2, <3>2, <3>3, LifeOfDriver
  <2>4. CASE PollRearm
    <3>1. /\ poll.pc = "next" /\ PollGoto("wait")
          /\ mbox' = [mbox EXCEPT !.state = "OPEN", !.irq = TRUE]
      BY <2>4 DEF PollRearm, PollAt
    <3>2. /\ mbox'.desc = mbox.desc /\ mbox'.list = mbox.list
          /\ mbox'.state = "OPEN" /\ poll'.pc = "wait"
      BY <1>0, <3>1 DEF Mailboxes, PollGoto, Polls
    <3>3. ~Ending
      BY <3>1 DEF Ending
    <3> QED
      BY <2>1, <2>2, <3>2, <3>3, LifeOfDriver
  <2>5. ASSUME UNCHANGED mbox, poll.pc # "wait", poll'.pc \notin {"none", "gone"}
        PROVE  Life'
    <3>1. ~Ending
      BY <2>0, <2>5 DEF Ending
    <3> QED
      BY <2>1, <2>2, <2>5, <3>1, LifeOfDriver
  <2>6. mbox_poll_resp_task /\ ~PollWait /\ ~PollRearm =>
          /\ UNCHANGED mbox /\ poll.pc # "wait"
          /\ poll'.pc \notin {"none", "gone"}
    <3>1. \A loc : PollGoto(loc) => poll'.pc = loc
      BY <1>0 DEF PollGoto, Polls
    <3>2. PollCopy \/ PollCallback =>
            /\ UNCHANGED mbox /\ poll.pc # "wait"
            /\ poll'.pc \notin {"none", "gone"}
      BY <3>1 DEF PollCopy, PollCallback, PollAt
    <3>3. PollFree \/ PollPost =>
            /\ UNCHANGED mbox /\ poll.pc # "wait"
            /\ poll'.pc \notin {"none", "gone"}
      BY <1>0, <3>1 DEF PollFree, PollPost, PollAt, Polls
    <3>4. ASSUME NEW ok \in BOOLEAN, PollGetTrans(ok)
          PROVE  /\ UNCHANGED mbox /\ poll.pc # "wait"
                 /\ poll'.pc \notin {"none", "gone"}
      BY <1>0, <3>4 DEF PollGetTrans, PollAt, Polls
    <3>5. ASSUME NEW ok \in BOOLEAN, NEW x \in TransIds, PollGetResp(x, ok)
          PROVE  /\ UNCHANGED mbox /\ poll.pc # "wait"
                 /\ poll'.pc \notin {"none", "gone"}
      BY <3>5 DEF PollGetResp, PollAt
    <3> QED
      BY <3>2, <3>3, <3>4, <3>5 DEF mbox_poll_resp_task
  <2> QED
    BY <1>3, <2>3, <2>4, <2>5, <2>6
<1> QED
  BY <1>1, <1>2, <1>3 DEF AtfTransaction, SdmRespond

-----------------------------------------------------------------------------
(* mbox_close_client tests for outstanding jobs without a lock.  It finds  *)
(* none when nobody sends for this client, the SDM has nothing of it, and  *)
(* the poll task, which no task interrupts, is not delivering: then        *)
(* client_free is there, and only the task itself could take it.           *)
LEMMA CloseStarts ==
  ASSUME Patient, Preempt = {}, IInv, Data, Life, NEW t \in Tasks,
         mbox_close_client(t)
  PROVE  IInv' /\ Data' /\ Life'
<1> DEFINE h == task[t].handle
<1>0. /\ task[t].pc = "idle" /\ TasksRun /\ h # None /\ t \in Closers
      /\ \A u \in Tasks : task[u].pc \notin Lifecycle
      /\ client[h].jobPool = {} /\ Goto(t, "closeList")
      /\ UNCHANGED <<mbox, client, work, ready, poll, token>>
  BY DEF mbox_close_client, At, Mine, Patient
<1>1. h \in Slots /\ client[h].status = 1 /\ mbox.desc = "ready" /\ TypeOK
  BY <1>0, Held, SetUp DEF Data, IInv
<1>2. PICK r \in Calls : /\ task' = [task EXCEPT ![t] = r]
                         /\ r.pc = "closeList" /\ r.handle = h
  BY <1>0, <1>1, Moves DEF TaskLocations
<1>3. mbox.list = None /\ poll.pc \notin {"none", "gone"}
      /\ mbox.state # "CLOSED"
  BY <1>0, <1>1, NobodyStops DEF Closing, Lifecycle
<1>4. client[h].free # 0
  <2>1. poll.pc \notin {"callback", "post"}
    BY <1>0, <1>3 DEF TasksRun
  <2>2. SendersOf(h) = {}
    <3>1. \A u \in Tasks : task[u].handle = h => u = t
      BY <1>0 DEF Data, Owners
    <3> QED
      BY <1>0, <3>1 DEF SendersOf, Sending
  <2>3. ~Sent(h)
    BY <2>2 DEF Sent
  <2>4. ~Carried(h)
    BY <1>0 DEF Carried
  <2>5. ~Delivered(h)
    BY <1>0, <2>1 DEF Delivered, DeliveringTo, Delivering
  <2>6. Phase(h)
    BY <1>1 DEF IInv
  <2> QED
    BY <2>3, <2>4, <2>5, <2>6 DEF Phase, Unused
<1>5. IInv'
  <2>1. /\ r.pc \notin SendLocations \cup {"init", "sem"}
        /\ task[t].pc \notin Locked \cup SendLocations
    BY <1>0, <1>2 DEF SendLocations, Locked
  <2>2. token' \in [Tasks -> BOOLEAN]
    BY <1>0, <1>1 DEF TypeOK
  <2> QED
    BY <1>0, <1>1, <1>2, <2>1, <2>2, LocalStep
<1>6. Data'
  <2>1. \A s \in Slots : SameData(s) /\ Alive(s)'
    BY <1>0 DEF SameData, Alive, Data, Existing
  <2>2. client'[h].callBack = t
    BY <1>0 DEF Data, Registered
  <2> QED
    BY <1>0, <1>1, <1>2, <2>1, <2>2, CallKeeps DEF Waiting, WaitLocations
<1>7. Life'
  <2>1. \A u \in Tasks \ {t} : task[u].pc \notin Lifecycle
    BY <1>0
  <2> QED
    BY <1>0, <1>1, <1>2, <1>3, <1>4, <2>1, LifeAlone
<1> QED
  BY <1>5, <1>6, <1>7

(* The locks of mbox_close_client: mbox_descriptor's ...                   *)
LEMMA ListLocked ==
  ASSUME Patient, Preempt = {}, IInv, Data, Life, NEW t \in Tasks,
         CloseLockList(t)
  PROVE  IInv' /\ Data' /\ Life'
<1> DEFINE h == task[t].handle
<1>0. /\ task[t].pc = "closeList" /\ Goto(t, "closeClient")
      /\ mbox' = [mbox EXCEPT !.list = t]
      /\ UNCHANGED <<client, work, ready, poll, token>>
  BY DEF CloseLockList, At
<1>1. h # None /\ client[h].free # 0 /\ TypeOK
  BY <1>0 DEF Life, ClosingTask, CloseLocations, Mine, IInv
<1>2. /\ h \in Slots /\ client[h].status = 1 /\ mbox.desc = "ready"
      /\ t \in Closers
  BY <1>0, <1>1, Held, SetUp DEF Data, IInv, OnlyClosersClose
<1>3. PICK r \in Calls : /\ task' = [task EXCEPT ![t] = r]
                         /\ r.pc = "closeClient" /\ r.handle = h
  BY <1>0, <1>1, Moves DEF TaskLocations
<1>4. \A u \in Tasks \ {t} : task[u].pc \notin Lifecycle
  BY <1>0, Alone DEF Lifecycle
<1>5. /\ mbox' \in Mailboxes /\ mbox'.desc = mbox.desc
      /\ mbox'.state = mbox.state
  BY <1>0, <1>1 DEF TypeOK, Mailboxes
<1>6. poll.pc \notin {"none", "gone"} /\ mbox.state # "CLOSED"
  <2>1. \A u \in Tasks : task[u].pc # "deinitFree"
    BY <1>0, <1>4 DEF Lifecycle
  <2> QED
    BY <1>2, <2>1 DEF Life, PollEnds
<1>7. Control'
  <2>1. \A s \in Slots, u \in Tasks : client'[s].mutex = u =>
          \/ u = t /\ r.handle = s /\ r.pc \in Locked
          \/ u # t /\ client[s].mutex = u
    BY <1>0 DEF IInv, MutexReleased
  <2>2. /\ work' \subseteq TransIds /\ work' \cap ready \subseteq {AtfTrans}
        /\ token' \in [Tasks -> BOOLEAN] /\ client' \in [Slots -> Descriptors]
        /\ UNCHANGED <<ready, poll>>
    BY <1>0 DEF IInv, TypeOK, Fetched
  <2>3. /\ r.pc \in Closing => t \in Closers
        /\ r.pc # "init"
        /\ r.pc \in SendLocations \cup {"sem"} => r.handle # None
        /\ r.handle # None => client'[r.handle].status = 1
        /\ \A s \in Slots : client[s].status = 1 => client'[s].status = 1
    BY <1>0, <1>2, <1>3 DEF SendLocations
  <2> QED
    BY ONLY IInv, t \in Tasks, r \in Calls, <1>3, <1>5, <2>1, <2>2, <2>3, TaskStep
<1>8. \A s \in Slots : Phase(s)'
  BY <1>0, <1>3, QuietCall DEF SendLocations, SameClient
<1>9. Data'
  <2>1. \A s \in Slots : SameData(s) /\ Alive(s)'
    BY <1>0 DEF SameData, Alive, Data, Existing
  <2>2. client'[h].callBack = t
    BY <1>0, <1>1 DEF Data, Registered
  <2> QED
    BY <1>0, <1>1, <1>2, <1>3, <1>5, <2>1, <2>2, CallKeeps
    DEF Waiting, WaitLocations
<1>10. Life'
  BY <1>0, <1>1, <1>3, <1>4, <1>5, <1>6, LifeAlone
<1> QED
  BY <1>7, <1>8, <1>9, <1>10 DEF IInv, Control

(* ... and the client's, under which the descriptor is cleared.            *)
LEMMA Reset ==
  ASSUME TypeOK, NEW h \in Slots, NEW o \in Tasks \cup {None},
         client' = [client EXCEPT ![h] =
                      [ClosedClient EXCEPT !.callBack = o, !.mutex = None]]
  PROVE  /\ client' \in [Slots -> Descriptors]
         /\ \A s \in Slots : s # h => client'[s] = client[s]
         /\ client'[h].status = 0 /\ client'[h].jobPool = {}
         /\ client'[h].free = Dead /\ client'[h].mutex = None
         /\ client'[h].callBack = o
<1> DEFINE c == [ClosedClient EXCEPT !.callBack = o, !.mutex = None]
<1>1. 0 \in Jobs
  BY MboxAssumption DEF Jobs
<1>2. /\ c \in Descriptors /\ c.status = 0 /\ c.jobPool = {} /\ c.free = Dead
      /\ c.mutex = None /\ c.callBack = o
  BY <1>1 DEF ClosedClient, Descriptors
<1>3. client' = [client EXCEPT ![h] = c] /\ client \in [Slots -> Descriptors]
  BY DEF TypeOK
<1> HIDE DEF c
<1>4. /\ client'[h] = c /\ client' \in [Slots -> Descriptors]
      /\ \A s \in Slots : s # h => client'[s] = client[s]
  BY ONLY <1>2, <1>3, h \in Slots
<1> QED
  BY ONLY <1>2, <1>4

LEMMA ClientReset ==
  ASSUME Patient, Preempt = {}, IInv, Data, Life, NEW t \in Tasks,
         CloseReset(t)
  PROVE  IInv' /\ Data' /\ Life'
<1>0. /\ task[t].pc = "closeClient" /\ Goto(t, "closeDelete")
      /\ mbox' = [mbox EXCEPT !.list = None]
      /\ UNCHANGED <<work, ready, poll, token>>
  BY DEF CloseReset, At
<1>1. PICK h \in Slots : /\ h = task[t].handle /\ client[h].free # 0
                         /\ client[h].status = 1 /\ h # None
  <2>1. task[t].handle # None /\ client[task[t].handle].free # 0
    BY <1>0 DEF Life, ClosingTask, CloseLocations, Mine
  <2> QED
    BY <1>0, <2>1, Held
<1>2. TypeOK /\ mbox.desc = "ready" /\ t \in Closers
  BY <1>0, <1>1, SetUp DEF Data, IInv, OnlyClosersClose
<1>3. /\ client' \in [Slots -> Descriptors]
      /\ \A s \in Slots : s # h => client'[s] = client[s]
      /\ client'[h].status = 0 /\ client'[h].jobPool = {}
      /\ client'[h].free = Dead /\ client'[h].mutex = None
      /\ client'[h].callBack = client[h].callBack
  <2>1. client[h].callBack \in Tasks \cup {None}
    BY <1>2, ClientType DEF Descriptors
  <2>2. client' = [client EXCEPT ![h] =
                     [ClosedClient EXCEPT !.callBack = client[h].callBack,
                                          !.mutex = None]]
    BY <1>1 DEF CloseReset, Mine
  <2> QED
    BY <1>2, <2>1, <2>2, Reset
<1>4. PICK r \in Calls : /\ task' = [task EXCEPT ![t] = r]
                         /\ r.pc = "closeDelete" /\ r.handle = h
  BY <1>0, <1>1, <1>2, Moves DEF TaskLocations
<1>5. task'[t] = r /\ \A u \in Tasks : u # t => task'[u] = task[u]
  BY <1>2, <1>4 DEF TypeOK
<1>6. \A u \in Tasks \ {t} : task[u].pc \notin Lifecycle
  BY <1>0, Alone DEF Lifecycle
<1>7. \A u \in Tasks : u # t => task[u].handle # h
  BY <1>1 DEF Data, Owners
<1>8. /\ mbox' \in Mailboxes /\ mbox'.desc = mbox.desc /\ mbox'.list = None
      /\ mbox'.state = mbox.state /\ mbox'.irq = mbox.irq
  BY <1>0, <1>2 DEF TypeOK, Mailboxes
<1>9. poll.pc \notin {"none", "gone"} /\ mbox.state # "CLOSED"
  <2>1. \A u \in Tasks : task[u].pc # "deinitFree"
    BY <1>0, <1>6 DEF Lifecycle
  <2> QED
    BY <1>2, <2>1 DEF Life, PollEnds
<1>10. TypeOK'
  BY <1>0, <1>2, <1>3, <1>4, <1>8 DEF TypeOK
<1>11. OnlyClosersClose' /\ Starting' /\ Fetched'
  <2>1. OnlyClosersClose'
    BY <1>2, <1>5 DEF IInv, OnlyClosersClose
  <2>2. Starting'
    BY <1>0, <1>4, <1>5, <1>8 DEF IInv, Starting
  <2>3. Fetched'
    BY <1>0 DEF IInv, Fetched, Delivering
  <2> QED
    BY <2>1, <2>2, <2>3
<1>12. Handles'
  <2>1. \A u \in Tasks : task[u].handle \in Slots \cup {None}
    BY Held
  <2> QED
    BY <1>0, <1>3, <1>4, <1>5, <1>7, <2>1 DEF IInv, Handles, Sending, Delivering
<1>13. MutexReleased'
  <2>1. \A s \in Slots, u \in Tasks : client'[s].mutex = u =>
          u # t /\ client[s].mutex = u
    BY <1>0, <1>1, <1>3, MboxAssumption DEF IInv, MutexReleased
  <2> QED
    BY <1>5, <2>1 DEF IInv, MutexReleased
<1>14. Unused(h)
  BY <1>1 DEF IInv, Phase, Sent, Carried, Delivered, Busy
<1>15. Unused(h)'
  <2>1. SendersOf(h)' = {}
    BY <1>4, <1>5, <1>7 DEF SendersOf, Sending
  <2>2. InFlight(h)' = {} /\ ~DeliveringTo(h)'
    BY <1>0, <1>14 DEF Unused, InFlight, DeliveringTo, Delivering
  <2> QED
    BY <1>3, <2>1, <2>2, MboxAssumption DEF Unused
<1>16. \A s \in Slots : s # h => Phase(s)'
  <2>1. task[t].pc \notin SendLocations /\ r.pc \notin SendLocations
    BY <1>0, <1>4 DEF SendLocations
  <2>2. work \subseteq TransIds
    BY <1>2 DEF TypeOK
  <2> QED
    BY <1>0, <1>3, <1>4, <2>1, <2>2, Elsewhere
<1>17. Data'
  <2>1. \A s \in Slots : s # h => SameData(s)
    BY <1>3 DEF SameData
  <2>2. \A s \in Slots : Alive(s)'
    BY <1>3, AliveKept DEF Data, Alive
  <2>3. client'[h].callBack = t
    BY <1>0, <1>1, <1>3 DEF Data, Registered
  <2>4. /\ ~Waiting(t) /\ r.pc \notin WaitLocations \cup {"setcb", "smc"}
        /\ r.handle = task[t].handle
    BY <1>0, <1>1, <1>4 DEF Waiting, WaitLocations
  <2> QED
    BY <1>0, <1>2, <1>4, <1>8, <2>1, <2>2, <2>3, <2>4, CallKeeps
<1>18. Life'
  <2>1. /\ r.pc \notin CloseLocations \cup {"deinit", "deinitFree"}
        /\ r.handle # None /\ client'[r.handle].status = 0
    BY <1>1, <1>3, <1>4 DEF CloseLocations
  <2>2. /\ mbox'.list = None
        /\ poll'.pc # "none"
        /\ ~(mbox'.state = "CLOSED" \/ poll'.pc = "gone")
    BY <1>0, <1>8, <1>9
  <2> QED
    BY <1>2, <1>4, <1>6, <2>1, <2>2, LifeAlone
<1> QED
  BY <1>10, <1>11, <1>12, <1>13, <1>15, <1>16, <1>17, <1>18 DEF IInv, Phase

(* osal_mutex_delete of a client that is closed already.                   *)
LEMMA MutexDeleted ==
  ASSUME Patient, Preempt = {}, IInv, Data, Life, NEW t \in Tasks,
         CloseDelete(t)
  PROVE  IInv' /\ Data' /\ Life'
<1>0. /\ task[t].pc = "closeDelete"
      /\ task' = [task EXCEPT ![t].pc = "deinit", ![t].handle = None]
      /\ client' = [client EXCEPT ![task[t].handle].mutex = Dead]
      /\ UNCHANGED <<mbox, work, ready, poll, token>>
  BY DEF CloseDelete, At
<1>1. PICK h \in Slots : /\ h = task[t].handle /\ client[h].status = 0
                         /\ h # None
  BY <1>0, Held DEF Life, ClosingTask, Mine
<1>2. TypeOK /\ mbox.desc = "ready" /\ t \in Closers
  BY <1>0, <1>1, SetUp DEF Data, IInv, OnlyClosersClose
<1>3. /\ client' \in [Slots -> Descriptors]
      /\ \A s \in Slots : s # h => client'[s] = client[s]
      /\ client'[h].status = client[h].status
      /\ client'[h].free = client[h].free
      /\ client'[h].jobPool = client[h].jobPool
      /\ client'[h].mutex = Dead
  BY <1>0, <1>1, <1>2, SetMutex
<1>4. \A s \in Slots : SameData(s)
  <2>1. client[h] \in Descriptors /\ client \in [Slots -> Descriptors]
    BY <1>2 DEF TypeOK
  <2> QED
    BY <1>0, <1>1, <2>1 DEF SameData, Descriptors
<1>5. PICK r \in Calls : /\ task' = [task EXCEPT ![t] = r]
                         /\ r.pc = "deinit" /\ r.handle = None
  <2> DEFINE r == [task[t] EXCEPT !.pc = "deinit", !.handle = None]
  <2>1. task[t] \in Calls
    BY <1>2 DEF TypeOK
  <2>2. r \in Calls /\ r.pc = "deinit" /\ r.handle = None
    BY <2>1 DEF Calls, TaskLocations
  <2>3. task' = [task EXCEPT ![t] = r]
    BY <1>0, <1>2 DEF TypeOK
  <2> QED
    BY <2>2, <2>3
<1>6. task'[t] = r /\ \A u \in Tasks : u # t => task'[u] = task[u]
  BY <1>2, <1>5 DEF TypeOK
<1>7. \A u \in Tasks \ {t} : task[u].pc \notin Lifecycle
  BY <1>0, Alone DEF Lifecycle
<1>8. /\ mbox.list = None /\ mbox.state # "CLOSED"
      /\ poll.pc \notin {"none", "gone"}
  <2>1. \A u \in Tasks : task[u].pc \notin {"closeClient", "deinitFree"}
    BY <1>0, <1>7 DEF Lifecycle
  <2> QED
    BY <1>2, <2>1 DEF Life, ListHeld, PollEnds
<1>9. Control'
  <2>1. \A s \in Slots, u \in Tasks : client'[s].mutex = u =>
          \/ u = t /\ r.handle = s /\ r.pc \in Locked
          \/ u # t /\ client[s].mutex = u
    BY <1>0, <1>3, MboxAssumption DEF IInv, MutexReleased
  <2>2. /\ work' \subseteq TransIds /\ work' \cap ready \subseteq {AtfTrans}
        /\ token' \in [Tasks -> BOOLEAN] /\ mbox' \in Mailboxes
        /\ mbox'.desc = mbox.desc /\ UNCHANGED <<ready, poll>>
    BY <1>0 DEF IInv, TypeOK, Fetched
  <2>3. /\ r.pc \in Closing => t \in Closers
        /\ r.pc # "init"
        /\ r.pc \in SendLocations \cup {"sem"} => r.handle # None
        /\ r.handle # None => client'[r.handle].status = 1
        /\ \A s \in Slots : client[s].status = 1 => client'[s].status = 1
    BY <1>2, <1>3, <1>5 DEF SendLocations
  <2> QED
    BY ONLY IInv, t \in Tasks, r \in Calls, <1>3, <1>5, <2>1, <2>2, <2>3, TaskStep
<1>10. \A s \in Slots : Phase(s)'
  <2>1. \A s \in Slots : SameClient(s)
    BY <1>3 DEF SameClient
  <2> QED
    BY <1>0, <1>5, <2>1, QuietCall DEF SendLocations
<1>11. Data'
  <2>1. \A s \in Slots : Alive(s)'
    BY <1>1, <1>3, AliveKept DEF Data, Alive
  <2>2. Existing'
    BY <1>0, <1>2, <2>1 DEF Existing, Alive
  <2>3. Owners'
    BY <1>5, <1>6 DEF Data, Owners
  <2>4. \A u \in Tasks : /\ task[u].handle \in Slots \cup {None}
                         /\ task[u].pc = "smc" => task[u].handle \in Slots
    BY Held DEF SendLocations
  <2>5. Registered'
    BY <1>4, <1>5, <1>6, <2>4 DEF Data, Registered, SameData, WaitLocations
  <2>6. \A u \in Tasks : \A x : Waits(u, x) => Waits(u, x)' /\ task'[u] = task[u]
    BY <1>0, <1>6 DEF Waits, WaitLocations
  <2>7. \A x \in Pending' : \E u \in Tasks :
          Waits(u, x)' /\ client'[x[1]].jobResp[x[2]] = u
    BY <1>0, <1>4, <2>6, Caller DEF Pending, SameData
  <2>8. Answers'
    BY <1>0, <1>6, <2>6, <2>7 DEF Data, Answers, WaitLocations
  <2> QED
    BY <2>2, <2>3, <2>5, <2>8 DEF Data
<1>12. Life'
  <2>1. /\ mbox'.list = None
        /\ poll'.pc # "none"
        /\ ~(mbox'.state = "CLOSED" \/ poll'.pc = "gone")
    BY <1>0, <1>8
  <2> QED
    BY <1>2, <1>5, <1>7, <2>1, LifeAlone DEF CloseLocations
<1> QED
  BY <1>9, <1>10, <1>11, <1>12 DEF IInv, Control

(* mbox_deinit finds the poll task waiting, because no task runs elsewhere *)
(* when the poll task is not interrupted and nobody holds the list: the    *)
(* semaphore is 0, and the post that tells the task to end succeeds.       *)
LEMMA Deinit ==
  ASSUME Patient, Preempt = {}, IInv, Data, Life, NEW t \in Tasks,
         mbox_deinit(t)
  PROVE  IInv' /\ Data' /\ Life'
<1>0. /\ task[t].pc = "deinit" /\ TasksRun
      /\ UNCHANGED <<client, work, ready, poll, token>>
  BY DEF mbox_deinit, At
<1>1. TypeOK /\ mbox.desc = "ready" /\ t \in Closers /\ task[t].handle = None
  BY <1>0, SetUp DEF Data, IInv, OnlyClosersClose, Life, ClosingTask
<1>2. \A u \in Tasks \ {t} : task[u].pc \notin Lifecycle
  BY <1>0, Alone DEF Lifecycle
<1>3. /\ mbox.list = None /\ mbox.state # "CLOSED"
      /\ poll.pc \notin {"none", "gone"}
  <2>1. \A u \in Tasks : task[u].pc \notin {"closeClient", "deinitFree"}
    BY <1>0, <1>2 DEF Lifecycle
  <2> QED
    BY <1>1, <2>1 DEF Life, ListHeld, PollEnds
<1>4. poll.pc = "wait" /\ mbox.count = 0
  BY <1>0, <1>3 DEF TasksRun
<1>5. MaxCount # 0 /\ 1 \in 0 .. MaxCount /\ mbox \in Mailboxes
  BY <1>1, MboxAssumption DEF TypeOK
<1>6. \/ Return(t) /\ UNCHANGED mbox
      \/ /\ Goto(t, "deinitFree")
         /\ mbox' = [mbox EXCEPT !.irq = FALSE, !.state = "CLOSED", !.count = 1]
         /\ \A s \in Slots : client[s].status # 1
  <2>1. (IF mbox.count = MaxCount THEN mbox.count ELSE mbox.count + 1) = 1
    BY <1>4, <1>5
  <2>2. \/ Return(t) /\ UNCHANGED mbox
        \/ /\ IF mbox.count = MaxCount THEN Return(t) ELSE Goto(t, "deinitFree")
           /\ mbox' = [mbox EXCEPT
                !.irq = FALSE, !.state = "CLOSED",
                !.count = IF mbox.count = MaxCount THEN mbox.count
                                                   ELSE mbox.count + 1]
           /\ \A s \in Slots : client[s].status # 1
    BY DEF mbox_deinit
  <2> QED
    BY <1>4, <1>5, <2>1, <2>2
<1>7. PICK r \in Calls :
        /\ task' = [task EXCEPT ![t] = r] /\ r.handle = None
        /\ \/ r.pc = "idle" /\ UNCHANGED mbox
           \/ /\ r.pc = "deinitFree"
              /\ mbox' = [mbox EXCEPT !.irq = FALSE, !.state = "CLOSED",
                                      !.count = 1]
              /\ \A s \in Slots : client[s].status # 1
  <2>1. CASE Return(t) /\ UNCHANGED mbox
    BY <1>1, <2>1, MovesBack
  <2>2. CASE Goto(t, "deinitFree") /\ ~(Return(t) /\ UNCHANGED mbox)
    BY <1>1, <1>6, <2>2, Moves DEF TaskLocations
  <2> QED
    BY <1>6, <2>1, <2>2
<1>8. mbox' \in Mailboxes /\ mbox'.desc = "ready" /\ mbox'.list = None
  BY <1>1, <1>3, <1>5, <1>7 DEF Mailboxes
<1>9. Control'
  <2>1. \A s \in Slots, u \in Tasks : client'[s].mutex = u =>
          \/ u = t /\ r.handle = s /\ r.pc \in Locked
          \/ u # t /\ client[s].mutex = u
    BY <1>0 DEF IInv, MutexReleased
  <2>2. /\ work' \subseteq TransIds /\ work' \cap ready \subseteq {AtfTrans}
        /\ token' \in [Tasks -> BOOLEAN] /\ mbox' \in Mailboxes
        /\ client' \in [Slots -> Descriptors]
        /\ mbox'.desc = mbox.desc /\ UNCHANGED <<ready, poll>>
    BY <1>0, <1>1, <1>8 DEF IInv, TypeOK, Fetched
  <2>3. /\ r.pc \in Closing => t \in Closers
        /\ r.pc # "init"
        /\ r.pc \in SendLocations \cup {"sem"} => r.handle # None
        /\ r.handle # None => client'[r.handle].status = 1
        /\ \A s \in Slots : client[s].status = 1 => client'[s].status = 1
    BY <1>0, <1>1, <1>7 DEF SendLocations
  <2> QED
    BY ONLY IInv, t \in Tasks, r \in Calls, <1>7, <2>1, <2>2, <2>3, TaskStep
<1>10. \A s \in Slots : Phase(s)'
  BY <1>0, <1>7, QuietCall DEF SendLocations, SameClient
<1>11. Data'
  <2>1. \A s \in Slots : SameData(s) /\ Alive(s)'
    BY <1>0 DEF SameData, Alive, Data, Existing
  <2>2. /\ ~Waiting(t) /\ r.pc \notin WaitLocations \cup {"setcb", "smc"}
        /\ r.handle = None /\ r.handle = task[t].handle
    BY <1>0, <1>1, <1>7 DEF Waiting, WaitLocations
  <2> QED
    BY <1>0, <1>1, <1>7, <1>8, <2>1, <2>2, CallKeeps
<1>12. Life'
  <2>1. CASE r.pc = "idle" /\ UNCHANGED mbox
    BY <1>0, <1>1, <1>2, <1>3, <1>7, <2>1, LifeAlone DEF CloseLocations
  <2>2. CASE /\ r.pc = "deinitFree"
             /\ mbox' = [mbox EXCEPT !.irq = FALSE, !.state = "CLOSED",
                                     !.count = 1]
             /\ \A s \in Slots : client[s].status # 1
    <3>1. \A s \in Slots : client[s].status = 0
      BY <1>1, <2>2, ClientType DEF Descriptors
    <3>2. /\ mbox'.state = "CLOSED" /\ mbox'.irq = FALSE /\ mbox'.count = 1
      BY <1>5, <2>2 DEF Mailboxes
    <3>3. Ending'
      BY <1>0, <1>4, <1>8, <3>1, <3>2 DEF Ending
    <3> QED
      BY <1>0, <1>1, <1>2, <1>3, <1>7, <1>8, <2>2, <3>3, LifeAlone
      DEF CloseLocations
  <2> QED
    BY <1>7, <2>1, <2>2
<1> QED
  BY <1>9, <1>10, <1>11, <1>12 DEF IInv, Control

(* The descriptor is freed when the poll task has ended and nobody is past *)
(* mbox_init: no task has a handle.                                        *)
LEMMA Freed ==
  ASSUME Patient, Preempt = {}, IInv, Data, Life, NEW t \in Tasks,
         DeinitFree(t)
  PROVE  IInv' /\ Data' /\ Life'
<1>0. /\ task[t].pc = "deinitFree" /\ TasksRun /\ Return(t)
      /\ mbox' = [mbox EXCEPT !.desc = "null", !.count = 0]
      /\ UNCHANGED <<client, work, ready, poll, token>>
  BY DEF DeinitFree, At
<1>1. TypeOK /\ Ending /\ task[t].handle = None
  BY <1>0 DEF IInv, Life, ClosingTask
<1>2. PICK r \in Calls : /\ task' = [task EXCEPT ![t] = r]
                         /\ r.pc = "idle" /\ r.handle = None
  BY <1>0, <1>1, MovesBack
<1>3. task'[t] = r /\ \A u \in Tasks : u # t => task'[u] = task[u]
  BY <1>1, <1>2 DEF TypeOK
<1>4. \A u \in Tasks \ {t} : task[u].pc \notin Lifecycle
  BY <1>0, Alone DEF Lifecycle
<1>5. \A u \in Tasks \ {t} : task[u].handle = None
  BY <1>1, <1>4, Held DEF Ending, Lifecycle
<1>6. \A u \in Tasks \ {t} : task[u].pc = "idle"
  <2>1. \A u \in Tasks : task[u].pc \in TaskLocations
    BY <1>1 DEF TypeOK, Calls
  <2>2. \A u \in Tasks \ {t} :
          task[u].pc \notin SendLocations \cup {"sem"} \cup WaitLocations
    BY <1>5, Held, MboxAssumption DEF Data, Registered
  <2> QED
    BY <1>4, <2>1, <2>2 DEF TaskLocations, Lifecycle, SendLocations, WaitLocations
<1>7. \A u \in Tasks : task'[u].pc = "idle" /\ task'[u].handle = None
  BY <1>2, <1>3, <1>5, <1>6
<1>8. /\ mbox' \in Mailboxes /\ mbox'.desc = "null" /\ ~mbox'.irq
      /\ mbox'.list = mbox.list
  <2>1. 0 \in 0 .. MaxCount
    BY MboxAssumption
  <2>2. mbox \in Mailboxes /\ ~mbox.irq
    BY <1>1 DEF TypeOK, Ending
  <2> QED
    BY <1>0, <2>1, <2>2 DEF Mailboxes
<1>9. poll.pc = "gone" /\ mbox.list = None
  <2>1. poll.pc = "wait" => mbox.count # 0
    BY <1>1 DEF Ending
  <2>2. poll.pc = "gone"
    BY <1>0, <1>1, <2>1 DEF TasksRun, Ending
  <2>3. \A u \in Tasks : task[u].pc # "closeClient"
    BY <1>0, <1>4 DEF Lifecycle
  <2> QED
    BY <2>2, <2>3 DEF Life, ListHeld
<1>10. TypeOK'
  BY <1>0, <1>1, <1>2, <1>8 DEF TypeOK
<1>11. OnlyClosersClose' /\ Starting' /\ Handles' /\ Fetched'
  <2>1. OnlyClosersClose'
    BY <1>7 DEF OnlyClosersClose
  <2>2. Starting'
    BY <1>0, <1>7, <1>9 DEF Starting
  <2>3. Handles'
    BY <1>0, <1>7, <1>9 DEF Handles, Sending, Delivering
  <2>4. Fetched'
    BY <1>0 DEF IInv, Fetched, Delivering
  <2> QED
    BY <2>1, <2>2, <2>3, <2>4
<1>12. MutexReleased'
  BY <1>0, <1>3, <1>7 DEF IInv, MutexReleased
<1>13. \A s \in Slots : Phase(s)'
  BY <1>0, <1>2, QuietCall DEF SendLocations, SameClient
<1>14. Data'
  <2>1. Existing'
    BY <1>0, <1>7, <1>8 DEF Data, Existing
  <2>2. Owners' /\ Registered'
    BY <1>7 DEF Owners, Registered, WaitLocations
  <2>3. Pending' = Pending
    BY <1>0 DEF Pending
  <2>4. \A u \in Tasks : \A x : ~Waits(u, x)
    BY <1>0, <1>6 DEF Waits, WaitLocations
  <2>5. \A u \in Tasks : ~token[u]
    BY <1>0, <1>6 DEF Data, Answers, WaitLocations
  <2>6. Answers'
    BY <1>0, <1>9, <2>3, <2>4, <2>5 DEF Data, Answers
  <2> QED
    BY <2>1, <2>2, <2>6 DEF Data
<1>15. Life'
  BY <1>1, <1>2, <1>4, <1>8, <1>9, LifeAlone DEF CloseLocations
<1> QED
  BY <1>10, <1>11, <1>12, <1>13, <1>14, <1>15 DEF IInv

(* The whole invariant, for tasks that may close.                          *)
LEMMA LifeAtStart == Init => Life
<1> SUFFICES ASSUME Init PROVE Life
  OBVIOUS
<1>1. /\ \A t \in Tasks : task[t].pc = "idle"
      /\ mbox.list = None /\ mbox.desc = "null"
  BY DEF Init, NoCall
<1> QED
  BY <1>1 DEF Life, OneAtATime, ListHeld, PollEnds, ClosingTask,
              CloseLocations, Lifecycle

LEMMA NextLife ==
  ASSUME Patient, Preempt = {}
  PROVE  IInv /\ Data /\ Life /\ [Next]_vars => IInv' /\ Data' /\ Life'
<1> SUFFICES ASSUME IInv, Data, Life, [Next]_vars PROVE IInv' /\ Data' /\ Life'
  OBVIOUS
<1>1. CASE \E t \in Tasks : Closes(t)
  BY <1>1, CloseStarts, ListLocked, ClientReset, MutexDeleted, Deinit, Freed
  DEF Closes
<1>2. CASE \A t \in Tasks : ~Closes(t)
  <2>1. \A t, u \in Tasks :
          task[t].pc = "open" => task[u].pc # "closeDelete"
    BY DEF Life, OneAtATime, Lifecycle
  <2>2. IInv' /\ Data'
    BY <1>2, <2>1, StepIInv, StepData
  <2>3. ASSUME NEW t \in Tasks, Continue(t) \/ Choose(t)
        PROVE  Life'
    <3>1. ~(Share(t) \/ AwaitTimeout(t))
      BY DEF Share, AwaitTimeout, Patient
    <3>2. \/ Start(t) \/ mbox_init(t) \/ mbox_open_client(t)
          \/ mbox_set_callback(t) \/ Sends(t)
      BY <1>2, <2>3, <3>1 DEF Continue, Choose, Closes, Sends
    <3> QED
      BY <3>2, StartLife, SendsLife
  <2>4. ASSUME UNCHANGED vars
        PROVE  Life'
    <3>1. UNCHANGED <<mbox, client, poll, task>>
      BY <2>4 DEF vars
    <3> QED
      BY <3>1, LifeOfDriver DEF Ending, Life, PollEnds
  <2> QED
    BY <2>2, <2>3, <2>4, DriverLife DEF Next
<1> QED
  BY <1>1, <1>2

LEMMA DataInvariance ==
  ASSUME Patient, Closers = {}
  PROVE  Spec => [](IInv /\ Data)
<1>1. Spec => []IInv
  BY Invariance
<1>2. IInv /\ Data /\ [Next]_vars => Data'
  <2> SUFFICES ASSUME IInv, Data, [Next]_vars PROVE Data'
    OBVIOUS
  <2>1. \A t \in Tasks : ~Closes(t) /\ task[t].pc # "closeDelete"
    BY NobodyCloses DEF Closing
  <2> QED
    BY <2>1, StepData
<1> QED
  BY <1>1, <1>2, DataAtStart, PTL DEF Spec

(* The invariant of a mailbox that its users close, with a poll task that  *)
(* no task interrupts.                                                     *)
THEOREM LifecycleInvariance ==
  ASSUME Patient, Preempt = {}
  PROVE  Spec => [](IInv /\ Data /\ Life)
BY InitIInv, DataAtStart, LifeAtStart, NextLife, PTL DEF Spec

(* In either case, what the theorems below need: who closes has a client.  *)
ClosesOwn == \A t \in Tasks :
               task[t].pc = "closeClient" => task[t].handle # None

LEMMA PatientInvariance ==
  ASSUME Patient, Closers = {} \/ Preempt = {}
  PROVE  Spec => [](IInv /\ Data /\ ClosesOwn)
<1>1. CASE Closers = {}
  <2>1. IInv => ClosesOwn
    BY <1>1, NobodyCloses DEF ClosesOwn, Closing
  <2>2. Spec => [](IInv /\ Data)
    BY <1>1, DataInvariance
  <2> QED
    BY <2>1, <2>2, PTL
<1>2. CASE Preempt = {}
  <2>1. Life => ClosesOwn
    BY DEF Life, ClosingTask, CloseLocations, ClosesOwn
  <2>2. Spec => [](IInv /\ Data /\ Life)
    BY <1>2, LifecycleInvariance
  <2> QED
    BY <2>1, <2>2, PTL
<1> QED
  BY <1>1, <1>2

(* No task, nor the poll task, nor the handler uses a descriptor, mutex,   *)
(* semaphore or response buffer that is gone: users of the mailbox that do *)
(* not time out, which on any number of cores do not close it, or close it *)
(* where no task interrupts the poll task.                                 *)
THEOREM NoDangling ==
  ASSUME Patient, Closers = {} \/ Preempt = {}
  PROVE  Spec => []NothingDangles
<1>1. ASSUME IInv, Data, ClosesOwn
      PROVE  NothingDangles
  <2>1. ASSUME NEW t \in Tasks
        PROVE  ~(NullDescriptor(t) \/ DeadSemaphore(t) \/ DeadMutex(t))
    <3>1. ~NullDescriptor(t)
      BY <1>1, SetUp DEF NullDescriptor, Data
    <3>2. ~DeadSemaphore(t)
      BY <1>1, Held, MineAlive, MboxAssumption DEF DeadSemaphore, SendLocations
    <3>3. ~DeadMutex(t)
      <4>1. task[t].pc \in {"setcb", "mutex", "unlock", "closeClient"} =>
              task[t].handle # None
        BY <1>1, Held, MboxAssumption
        DEF SendLocations, Data, Registered, WaitLocations, ClosesOwn
      <4> QED
        BY <1>1, <4>1, MineAlive DEF DeadMutex
    <3> QED
      BY <3>1, <3>2, <3>3
  <2>2. ~PollNullDescriptor
    BY <1>1 DEF IInv, Starting, PollNullDescriptor
  <2>3. ~PollDeadSemaphore
    <3> SUFFICES ASSUME poll.pc = "post"
                 PROVE  client[poll.trans[1]].free # Dead
      BY DEF PollDeadSemaphore
    <3>1. PICK h \in Slots : poll.trans[1] = h /\ Delivered(h)
      BY <1>1, DeliveredTo DEF Delivering
    <3> QED
      BY <3>1, MboxAssumption DEF Delivered, Busy
  <2>4. ~DeadBuffer
    BY <1>1, CopyTarget DEF DeadBuffer
  <2>5. ~IrqNullDescriptor
    BY <1>1 DEF Data, Existing, IrqNullDescriptor
  <2> QED
    BY <2>1, <2>2, <2>3, <2>4, <2>5 DEF NothingDangles
<1> QED
  BY <1>1, PatientInvariance, PTL

(* A caller whose wait for the callback succeeds finds the response of     *)
(* this very call in its buffer.                                           *)
THEOREM WokenWithData ==
  ASSUME Patient, Closers = {} \/ Preempt = {}
  PROVE  Spec => CompletionHasData
<1>1. IInv /\ Data /\ [Next]_vars =>
        [\A t \in Tasks : AwaitCallback(t) => task[t].got]_vars
  BY AwaitOwn
<1> QED
  BY <1>1, PatientInvariance, PTL DEF Spec, CompletionHasData

(* mbox_deinit leaves no poll task behind: it refuses while the task is    *)
(* busy, and frees the descriptor when the task has seen that it must end. *)
THEOREM PollTaskEnds ==
  ASSUME Patient, Preempt = {}
  PROVE  Spec => []DeinitEndsTask
<1>1. IInv => DeinitEndsTask
  BY DEF IInv, Starting, DeinitEndsTask
<1> QED
  BY <1>1, LifecycleInvariance, PTL

(* Closing a client loses no job, and reopening it finds none: the bitmap  *)
(* of jobs is exact although mbox_close_client tests it without a lock,    *)
(* client_free admits one command, and client_mutex is not left locked.    *)
THEOREM ClosedClean ==
  ASSUME Patient, Preempt = {}
  PROVE  Spec => [](JobPoolExact /\ OneCommandPerClient /\ MutexReleased)
<1>1. IInv => JobPoolExact /\ OneCommandPerClient /\ MutexReleased
  BY IInvJobPool, IInvOneCommand DEF IInv
<1> QED
  BY <1>1, LifecycleInvariance, PTL
=============================================================================
