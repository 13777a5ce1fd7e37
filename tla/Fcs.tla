--------------------------------- MODULE Fcs ---------------------------------
(***************************************************************************)
(* The FCS driver, drivers/fcs/socfpga_fcs.c: cryptographic sessions, the  *)
(* mailbox clients they run on, and the commands of every call, down to    *)
(* the one semaphore fcs_sem that all callbacks post.  The mailbox client  *)
(* is reduced to what this driver sees of it (MboxClient is its model);    *)
(* the firmware and the SDM are external.                                  *)
(*                                                                         *)
(* The driver is called by libfcs alone, which holds its mutex             *)
(* (fcs_mutex_timedlock in fcs/portable/libfcs_osal.c) around a call: one  *)
(* call is in progress at a time, beside the firmware and the poll task.   *)
(* A call that is refused for its arguments changes nothing and is left    *)
(* out; so is the data, except for which command it belongs to.            *)
(***************************************************************************)
EXTENDS Naturals, FiniteSets, FiniteSetsExt

CONSTANTS
  Tasks,      \* application tasks, each with at most one session
  Instances,  \* FCS_MAX_INSTANCES, the length of session_map
  Clients,    \* mailbox clients, numbers from 2 up
  SessionIds, \* the session ids the SDM gives out, not 0
  MaxBlocks,  \* FCS_CRYPTO_BLOCK_SIZE blocks of the longest input
  Refused,    \* the kinds of request that smc_call may fail to hand over
  Rejected,   \* the kinds of request that the SDM may answer with an error
  Errors,     \* the statuses of such an answer, numbers of 64 bits
  HeapFails,  \* osal_semaphore_create may fail
  Orderly,    \* the application closes the session opened last first, and
              \* every session before fcs_deinit
  None        \* NULL: no handle, no session, a uuid of zeros

Kinds == {"open", "uuid", "close", "command"}
Requests == Kinds \cup {"init"}

ASSUME FcsAssumption ==
  /\ Instances \in Nat \ {0} /\ MaxBlocks \in Nat \ {0}
  /\ Clients \subseteq Nat \ {0, 1} /\ IsFiniteSet(Clients)
  /\ SessionIds \subseteq Nat \ {0} /\ Orderly \in BOOLEAN
  /\ Refused \subseteq Kinds /\ Rejected \subseteq Kinds
  /\ Errors \subseteq Nat \ {0} /\ HeapFails \in BOOLEAN
  /\ None \notin Clients \cup SessionIds /\ None \notin {"fcs", "other"}

VARIABLES
  fcs_desc, \* the service descriptor
  uuid,     \* the uuid that each task got from fcs_open_session
  client,   \* mailbox clients: the user that has it open and the one whose
            \* callback is registered, "fcs", "other" or None
  mbox,     \* the mailbox is initialised
  sdm,      \* sessions open in the SDM, with the client that asked (history)
  job,      \* the request that is on its way through firmware and poll task
  sem,      \* fcs_sem
  call,     \* the call in progress
  done      \* the result of the last call (history)

vars == <<fcs_desc, uuid, client, mbox, sdm, job, sem, call, done>>

Slots == 0 .. Instances - 1

(* The uuid of a session is as good as its id, which the SDM gives to one  *)
(* session at a time, unless the random number was refused: fcs_open_      *)
(* session then formats a buffer of zeros, the same for every session.     *)
FixedUuid == 0
Uuids == SessionIds \cup {FixedUuid, None}

NoSession == [uuid |-> None, session_id |-> None, crypto_handle |-> None]
NoDesc == [is_init |-> FALSE, security_handle |-> None, session_count |-> 0,
           session_map |-> [i \in Slots |-> NoSession]]

-----------------------------------------------------------------------------
(* What a call returns of the status: as uint16_t, or the low bits that    *)
(* FCS_STATUS_MASK lets through.                                           *)
Short == 65536
Masked == 2048

(* The commands.  by: the client they run on; init: they start with an     *)
(* INIT request, which has no response buffer: its answer is not waited    *)
(* for, and never seen; blocks: the requests with a response that follow;  *)
(* width: what is returned of their status; silent: they return 0 whatever *)
(* the SDM answered; unset: the response buffer is not initialised.        *)
OnSession == [by |-> "session", init |-> FALSE, blocks |-> 1, width |-> Short,
              silent |-> FALSE, unset |-> FALSE]
OnSecurity == [OnSession EXCEPT !.by = "security"]
Start == [OnSession EXCEPT !.init = TRUE, !.blocks = 0]
StartAndFinish == [OnSession EXCEPT !.init = TRUE]
StartAndBlocks(n) == [StartAndFinish EXCEPT !.blocks = n]
With11Bits(c) == [c EXCEPT !.width = Masked]

fcs_random_number == [OnSession EXCEPT !.silent = TRUE]
fcs_import_key == OnSession
fcs_export_key == OnSession
fcs_remove_key == OnSession
fcs_get_key_info == With11Bits(OnSession)
fcs_create_key == With11Bits(OnSession)
fcs_get_digest_init == Start
fcs_get_digest_update == OnSession
fcs_obtain_digest(n) == StartAndBlocks(n)
fcs_mac_verify_init == Start
fcs_mac_verify_update == OnSession
fcs_do_mac_verification(n) == StartAndBlocks(n)
fcs_encrypt_sdos == OnSession
fcs_decrypt_sdos == OnSession
fcs_request_hkdf == [OnSession EXCEPT !.silent = TRUE]
fcs_aes_crypt_init == Start
fcs_aes_update == With11Bits(OnSession)
fcs_aes_cryption(n) == With11Bits(StartAndBlocks(n))
fcs_ecdsa_hash_signing == StartAndFinish
fcs_do_ecdsa_hash_verification == StartAndFinish
fcs_ecdsa_sha2_data_sign_init == Start
fcs_ecdsa_sha2_data_sign_update == OnSession
fcs_ecdsa_sha2_data_signing(n) == StartAndBlocks(n)
fcs_ecdsa_sha2_data_sign_verification_init == Start
fcs_ecdsa_sha2_data_sign_verification_update == OnSession
fcs_do_ecdsa_sha2_data_sign_verification(n) == StartAndBlocks(n)
fcs_ecdsa_get_public_key == StartAndFinish
fcs_request_ecdh == StartAndFinish

fcs_get_provision_data == OnSecurity
fcs_send_certificate == With11Bits(OnSecurity)
fcs_counter_set_preauthorized == With11Bits(OnSecurity)
fcs_obtain_chip_id == With11Bits(OnSecurity)
fcs_attestation_obtain_certificate == With11Bits(OnSecurity)
fcs_attestation_reload_certificate == OnSecurity
fcs_send_mctp_cmd == With11Bits(OnSecurity)
fcs_obtain_jtag_idcode == With11Bits(OnSecurity)
fcs_obtain_device_identity == With11Bits(OnSecurity)
fcs_open_qspi == OnSecurity
fcs_close_qspi == OnSecurity
fcs_set_qspi_cs == OnSecurity
fcs_read_qspi == OnSecurity
fcs_write_qspi == [OnSecurity EXCEPT !.unset = TRUE]
fcs_erase_qspi == OnSecurity

Commands ==
  {fcs_random_number, fcs_import_key, fcs_export_key, fcs_remove_key,
   fcs_get_key_info, fcs_create_key, fcs_get_digest_init,
   fcs_get_digest_update, fcs_mac_verify_init, fcs_mac_verify_update,
   fcs_encrypt_sdos, fcs_decrypt_sdos, fcs_request_hkdf, fcs_aes_crypt_init,
   fcs_aes_update, fcs_ecdsa_hash_signing, fcs_do_ecdsa_hash_verification,
   fcs_ecdsa_sha2_data_sign_init, fcs_ecdsa_sha2_data_sign_update,
   fcs_ecdsa_sha2_data_sign_verification_init,
   fcs_ecdsa_sha2_data_sign_verification_update, fcs_ecdsa_get_public_key,
   fcs_request_ecdh, fcs_get_provision_data, fcs_send_certificate,
   fcs_counter_set_preauthorized, fcs_obtain_chip_id,
   fcs_attestation_obtain_certificate, fcs_attestation_reload_certificate,
   fcs_send_mctp_cmd, fcs_obtain_jtag_idcode, fcs_obtain_device_identity,
   fcs_open_qspi, fcs_close_qspi, fcs_set_qspi_cs, fcs_read_qspi,
   fcs_write_qspi, fcs_erase_qspi}
  \cup UNION {{fcs_obtain_digest(n), fcs_do_mac_verification(n),
               fcs_aes_cryption(n), fcs_ecdsa_sha2_data_signing(n),
               fcs_do_ecdsa_sha2_data_sign_verification(n)} :
              n \in 1 .. MaxBlocks}

(* A call in progress: kind, what the request being sent asks for; resp,   *)
(* the status in its response buffer; left, the requests still to send;    *)
(* missing (history), the requests of the call that the SDM has not        *)
(* carried out, or, of an INIT, that the firmware has not taken.           *)
NothingMissing == [k \in Requests |-> 0]
Missing(kind) == [NothingMissing EXCEPT ![kind] = 1]
NoCall == [pc |-> "idle", kind |-> "command", task |-> None,
           handle |-> None, session |-> None, slot |-> 0, resp |-> 0,
           left |-> 0, missing |-> NothingMissing, width |-> Short,
           silent |-> FALSE, unset |-> FALSE]
NoJob == [client |-> None, kind |-> "command", at |-> "none", resp |-> 0,
          session |-> None]

TypeOK ==
  /\ fcs_desc \in
       [is_init : BOOLEAN, security_handle : Clients \cup {None},
        session_count : 0 .. Instances,
        session_map :
          [Slots -> [uuid : Uuids, session_id : SessionIds \cup {None},
                     crypto_handle : Clients \cup {None}]]]
  /\ uuid \in [Tasks -> Uuids]
  /\ client \in [Clients -> [user : {None, "fcs", "other"},
                             callback : {None, "fcs", "other"}]]
  /\ mbox \in BOOLEAN /\ sem \in BOOLEAN
  /\ sdm \in [SessionIds -> Clients \cup {None}]
  /\ job \in [client : Clients \cup {None}, kind : Kinds, resp : {0} \cup Errors,
              at : {"none", "sdm", "ready"},
              session : SessionIds \cup {None}]
  /\ call \in [pc : {"idle", "init", "send", "wait"}, kind : Kinds,
               task : Tasks \cup {None}, handle : Clients \cup {None},
               session : SessionIds \cup {None}, slot : Slots,
               resp : {0} \cup Errors, left : 0 .. MaxBlocks,
               missing : [Requests -> 0 .. MaxBlocks],
               width : {Short, Masked}, silent : BOOLEAN, unset : BOOLEAN]
  /\ done \in [ok : BOOLEAN, missing : [Requests -> 0 .. MaxBlocks],
               silent : BOOLEAN]

Init ==
  /\ fcs_desc = NoDesc /\ uuid = [t \in Tasks |-> None]
  /\ client = [c \in Clients |-> [user |-> None, callback |-> None]]
  /\ mbox = FALSE /\ sdm = [s \in SessionIds |-> None]
  /\ job = NoJob /\ sem = FALSE /\ call = NoCall
  /\ done = [ok |-> TRUE, missing |-> NothingMissing, silent |-> FALSE]

-----------------------------------------------------------------------------
(* mbox_open_client takes the first client that is not open; what          *)
(* mbox_close_client leaves of it, its callback, stays in the descriptor.  *)
FreeClients == {c \in Clients : client[c].user = None}
mbox_open_client == IF FreeClients = {} THEN None ELSE Min(FreeClients)
Opened(c) == IF c = None THEN client ELSE [client EXCEPT ![c].user = "fcs"]
mbox_close_client(c) == [client EXCEPT ![c].user = None]
mbox_set_callback_Missing(clients, c) == clients
mbox_set_callback(clients, c) == [clients EXCEPT ![c].callback = "fcs"]

(* mbox_deinit gives up while a client is open, and while the poll task    *)
(* has not finished its last round.                                        *)
mbox_deinit(clients) ==
  mbox' \in IF \E c \in Clients : clients[c].user # None THEN {mbox}
            ELSE {mbox, FALSE}

(* The client and the session that go with uuid u: the last match wins.    *)
Matches(u) == {i \in Slots : fcs_desc.session_map[i].uuid = u}
get_client_handle(u) ==
  IF fcs_desc.session_count = 0 \/ Matches(u) = {} THEN NoSession
  ELSE fcs_desc.session_map[Max(Matches(u))]

Idle == call.pc = "idle"

(* The call returns; it returns 0 if ok.                                   *)
Return(ok) ==
  /\ call' = NoCall
  /\ done' = [ok |-> ok, missing |-> call.missing, silent |-> call.silent]
ReturnAtOnce(ok) ==
  /\ call' = NoCall
  /\ done' = [ok |-> ok, missing |-> NothingMissing, silent |-> FALSE]
Narrowed == call.resp % call.width

(* Without its semaphore fcs_init gives up, and leaves its client open.    *)
fcs_init ==
  /\ Idle /\ ~fcs_desc.is_init
  /\ mbox' = TRUE
  /\ IF mbox_open_client = None
     THEN UNCHANGED <<fcs_desc, client, sem>> /\ ReturnAtOnce(FALSE)
     ELSE \E made \in IF HeapFails THEN BOOLEAN ELSE {TRUE} :
            /\ fcs_desc' = IF ~made THEN NoDesc
                 ELSE [NoDesc EXCEPT !.is_init = TRUE,
                                     !.security_handle = mbox_open_client]
            /\ client' = mbox_set_callback(Opened(mbox_open_client),
                                           mbox_open_client)
            /\ sem' = FALSE
            /\ ReturnAtOnce(made)
  /\ UNCHANGED <<uuid, sdm, job>>

(* It warns of open sessions and leaves them, and their clients, open.     *)
fcs_deinit ==
  /\ Idle /\ fcs_desc.is_init
  /\ Orderly => fcs_desc.session_count = 0
  /\ client' = mbox_close_client(fcs_desc.security_handle)
  /\ mbox_deinit(client')
  /\ fcs_desc' = NoDesc
  /\ ReturnAtOnce(TRUE)
  /\ UNCHANGED <<uuid, sdm, job, sem>>

(* Another driver, SEU or RSU, opens a client of the mailbox or closes it. *)
OtherOpens ==
  /\ FreeClients # {} /\ mbox' = TRUE
  /\ client' = [client EXCEPT ![mbox_open_client] =
                                [user |-> "other", callback |-> "other"]]
  /\ UNCHANGED <<fcs_desc, uuid, sdm, job, sem, call, done>>
OtherCloses ==
  /\ \E c \in Clients : /\ client[c].user = "other"
                        /\ client' = mbox_close_client(c)
  /\ mbox_deinit(client')
  /\ UNCHANGED <<fcs_desc, uuid, sdm, job, sem, call, done>>

-----------------------------------------------------------------------------
(* fcs_open_session: the new client goes to the first slot i that has no   *)
(* session, the requests go to the client of slot session_count.           *)
FreeSlots == {i \in Slots : fcs_desc.session_map[i].session_id = None}
SessionHandle_First(map, i) == map[0].crypto_handle
SessionHandle(map, i) == map[fcs_desc.session_count].crypto_handle

LimitReached(t) ==
  /\ Idle /\ fcs_desc.is_init /\ uuid[t] = None
  /\ fcs_desc.session_count >= Instances
  /\ ReturnAtOnce(FALSE)
  /\ UNCHANGED <<fcs_desc, uuid, client, mbox, sdm, job, sem>>

fcs_open_session(t) ==
  /\ Idle /\ fcs_desc.is_init /\ uuid[t] = None
  /\ fcs_desc.session_count < Instances
  /\ LET i == Min(FreeSlots)
         c == mbox_open_client
         map == [fcs_desc.session_map EXCEPT ![i].crypto_handle = c]
         h == SessionHandle(map, i)
     IN /\ fcs_desc' = [fcs_desc EXCEPT !.session_map = map]
        /\ IF c = None \/ h = None
           THEN client' = Opened(c) /\ ReturnAtOnce(FALSE)
           ELSE /\ client' = mbox_set_callback(Opened(c), h)
                /\ call' = [NoCall EXCEPT !.pc = "send", !.kind = "open",
                              !.task = t, !.handle = h, !.slot = i,
                              !.missing = Missing("open"), !.width = Masked]
                /\ UNCHANGED done
  /\ UNCHANGED <<uuid, mbox, sdm, job, sem>>

(* The session is open: generate_uuid asks for a random number.  Whether   *)
(* it is, the 64 bits of the status decide; what is returned is narrower.  *)
OpenAnswered ==
  /\ IF call.resp = 0
     THEN /\ fcs_desc' = [fcs_desc EXCEPT
               !.session_map[call.slot].session_id = call.session]
          /\ call' = [call EXCEPT !.pc = "send", !.kind = "uuid",
                                  !.missing = Missing("uuid")]
          /\ UNCHANGED done
     ELSE UNCHANGED fcs_desc /\ Return(Narrowed = 0)
  /\ UNCHANGED <<uuid, client>>

generate_uuid(ok) ==
  LET u == IF ok THEN call.session ELSE FixedUuid IN
    /\ fcs_desc' = [fcs_desc EXCEPT !.session_map[call.slot].uuid = u,
                                    !.session_count = @ + 1]
    /\ uuid' = [uuid EXCEPT ![call.task] = u]
    /\ Return(TRUE)
    /\ UNCHANGED client

fcs_close_session(t) ==
  LET e == get_client_handle(uuid[t]) IN
    /\ Idle /\ uuid[t] # None
    /\ Orderly =>
         uuid[t] = fcs_desc.session_map[fcs_desc.session_count - 1].uuid
    /\ IF e.crypto_handle = None THEN ReturnAtOnce(FALSE)
       ELSE /\ call' = [NoCall EXCEPT !.pc = "send", !.kind = "close",
                          !.task = t, !.handle = e.crypto_handle,
                          !.session = e.session_id,
                          !.missing = Missing("close")]
            /\ UNCHANGED done
    /\ UNCHANGED <<fcs_desc, uuid, client, mbox, sdm, job, sem>>

CloseAnswered_KeepsSlot ==
  /\ client' = mbox_close_client(call.handle)
  /\ fcs_desc' = [fcs_desc EXCEPT !.session_count = @ - 1]
  /\ uuid' = [uuid EXCEPT ![call.task] = None]
  /\ Return(TRUE)

(* The client is closed whatever the SDM answered, the slots only if both  *)
(* went well.                                                              *)
CloseAnswered ==
  LET closed == client[call.handle].user # None
      mine == {i \in Slots :
                 fcs_desc.session_map[i].session_id = call.session}
  IN /\ client' = mbox_close_client(call.handle)
     /\ IF call.resp = 0 /\ closed
        THEN /\ fcs_desc' = [fcs_desc EXCEPT
                  !.session_map = [i \in Slots |-> IF i \in mine
                                     THEN NoSession ELSE @[i]],
                  !.session_count = @ - Cardinality(mine)]
             /\ uuid' = [uuid EXCEPT ![call.task] = None]
             /\ Return(TRUE)
        ELSE /\ UNCHANGED <<fcs_desc, uuid>>
             /\ Return(call.resp # 0 /\ Narrowed = 0)

-----------------------------------------------------------------------------
(* A command of task t, on its session or on the security client.          *)
Command(t) ==
  /\ Idle
  /\ \E c \in Commands :
       LET h == IF c.by = "security" THEN fcs_desc.security_handle
                ELSE get_client_handle(uuid[t]).crypto_handle
       IN /\ c.by = "session" => uuid[t] # None
          /\ IF h = None THEN ReturnAtOnce(FALSE)
             ELSE /\ call' = [NoCall EXCEPT
                        !.pc = IF c.init THEN "init" ELSE "send",
                        !.task = t, !.handle = h, !.left = c.blocks,
                        !.missing = [NothingMissing EXCEPT
                          !["init"] = IF c.init THEN 1 ELSE 0,
                          !["command"] = c.blocks],
                        !.width = c.width, !.silent = c.silent,
                        !.unset = c.unset]
                  /\ UNCHANGED done
  /\ UNCHANGED <<fcs_desc, uuid, client, mbox, sdm, job, sem>>

(* sip_svc_send takes requests for open clients only, and reports when     *)
(* smc_call could not hand the request over.                               *)
Sendable == client[call.handle].user # None
MayFail == ~Sendable \/ call.kind \in Refused

Taken(kind) == [call.missing EXCEPT ![kind] = @ - 1]

InitSent ==
  /\ call.pc = "init" /\ Sendable
  /\ IF call.left = 0
     THEN /\ call' = NoCall
          /\ done' = [ok |-> TRUE, missing |-> Taken("init"),
                      silent |-> call.silent]
     ELSE /\ call' = [call EXCEPT !.pc = "send", !.missing = Taken("init")]
          /\ UNCHANGED done
  /\ UNCHANGED <<fcs_desc, uuid, client, mbox, sdm, job, sem>>
InitFailed ==
  /\ call.pc = "init" /\ MayFail /\ Return(FALSE)
  /\ UNCHANGED <<fcs_desc, uuid, client, mbox, sdm, job, sem>>

(* The response buffer of a request is a local set to 0, but for that of   *)
(* fcs_write_qspi.                                                         *)
Sent ==
  /\ call.pc = "send" /\ Sendable
  /\ job' = [client |-> call.handle, kind |-> call.kind, at |-> "sdm",
             resp |-> 0, session |-> call.session]
  /\ \E r \in {0} \cup IF call.kind = "command" /\ call.unset
                      THEN Errors ELSE {} :
       call' = [call EXCEPT !.pc = "wait", !.resp = r]
  /\ UNCHANGED <<fcs_desc, uuid, client, mbox, sdm, sem, done>>

SendFailed_KeepsClient ==
  /\ call.pc = "send" /\ MayFail
  /\ IF call.kind = "uuid" THEN generate_uuid(FALSE)
     ELSE Return(FALSE) /\ UNCHANGED <<fcs_desc, uuid, client>>
  /\ UNCHANGED <<mbox, sdm, job, sem>>

(* fcs_open_session closes the client it could not send to; a uuid that    *)
(* could not be asked for is not missed; the other calls just return.      *)
SendFailed ==
  /\ call.pc = "send" /\ MayFail
  /\ IF call.kind = "uuid" THEN generate_uuid(FALSE)
     ELSE /\ client' = IF call.kind = "open"
                       THEN mbox_close_client(call.handle) ELSE client
          /\ Return(FALSE)
          /\ UNCHANGED <<fcs_desc, uuid>>
  /\ UNCHANGED <<mbox, sdm, job, sem>>

(* The firmware and the SDM carry out a request, or answer with an error.  *)
Firmware ==
  /\ job.at = "sdm"
  /\ LET free == {s \in SessionIds : sdm[s] = None} IN
     \/ /\ job.kind = "open"
        /\ \E s \in free :
             /\ sdm' = [sdm EXCEPT ![s] = job.client]
             /\ job' = [job EXCEPT !.at = "ready", !.session = s]
        /\ call' = [call EXCEPT !.missing = Taken(job.kind)]
     \/ /\ job.kind = "close"
        /\ sdm' = [sdm EXCEPT ![job.session] = None]
        /\ job' = [job EXCEPT !.at = "ready"]
        /\ call' = [call EXCEPT !.missing = Taken(job.kind)]
     \/ /\ job.kind \in {"uuid", "command"}
        /\ job' = [job EXCEPT !.at = "ready"]
        /\ call' = [call EXCEPT !.missing = Taken(job.kind)]
        /\ UNCHANGED sdm
     \/ /\ job.kind \in Rejected \/ (job.kind = "open" /\ free = {})
        /\ \E e \in Errors : job' = [job EXCEPT !.at = "ready", !.resp = e]
        /\ UNCHANGED <<sdm, call>>
  /\ UNCHANGED <<fcs_desc, uuid, client, mbox, sem, done>>

(* The poll task copies the response to the caller's buffer and calls the  *)
(* callback of the client; fcs_callback posts fcs_sem.                     *)
Deliver ==
  /\ job.at = "ready"
  /\ call' = [call EXCEPT !.resp = job.resp, !.session = job.session]
  /\ sem' = (sem \/ client[job.client].callback = "fcs")
  /\ job' = NoJob
  /\ UNCHANGED <<fcs_desc, uuid, client, mbox, sdm, done>>

CommandAnswered_LastStatus ==
  /\ IF call.left = 1 THEN Return(Narrowed = 0 \/ call.silent)
     ELSE /\ call' = [call EXCEPT !.pc = "send", !.left = @ - 1]
          /\ UNCHANGED done
  /\ UNCHANGED <<fcs_desc, uuid, client>>

(* A request of a command is answered: an error ends the command, the      *)
(* next block looks its client up again.                                   *)
CommandAnswered ==
  LET h == get_client_handle(uuid[call.task]).crypto_handle IN
    /\ IF call.resp # 0 /\ call.silent THEN Return(TRUE)
       ELSE IF Narrowed # 0 THEN Return(FALSE)
       ELSE IF call.left = 1 THEN Return(TRUE)
       ELSE IF h = None THEN Return(FALSE)
       ELSE /\ call' = [call EXCEPT !.pc = "send", !.left = @ - 1,
                                    !.handle = h]
            /\ UNCHANGED done
    /\ UNCHANGED <<fcs_desc, uuid, client>>

(* osal_semaphore_wait on fcs_sem, for ever.                               *)
Waited ==
  /\ call.pc = "wait" /\ sem
  /\ sem' = FALSE
  /\ \/ call.kind = "open" /\ OpenAnswered
     \/ call.kind = "uuid" /\ generate_uuid(call.resp = 0)
     \/ call.kind = "close" /\ CloseAnswered
     \/ call.kind = "command" /\ CommandAnswered
  /\ UNCHANGED <<mbox, sdm, job>>

DriverStep == InitSent \/ InitFailed \/ Sent \/ SendFailed \/ Waited

Next ==
  \/ fcs_init \/ fcs_deinit \/ OtherOpens \/ OtherCloses
  \/ \E t \in Tasks : \/ LimitReached(t) \/ fcs_open_session(t)
                      \/ fcs_close_session(t) \/ Command(t)
  \/ DriverStep \/ Firmware \/ Deliver

Spec == Init /\ [][Next]_vars

(* A call that can go on does; the SDM answers every request, and the poll *)
(* task, of a higher priority than its users, delivers every answer.       *)
FairSpec ==
  Spec /\ WF_vars(DriverStep) /\ WF_vars(Firmware) /\ WF_vars(Deliver)

-----------------------------------------------------------------------------
Sessions == {i \in Slots : fcs_desc.session_map[i].session_id # None}
Entry(i) == fcs_desc.session_map[i]

(* Between calls the driver and the SDM agree on the sessions, and the     *)
(* uuid of every task finds its own session on a client that is open, with *)
(* the driver's callback, and of no other session.                         *)
SessionTable ==
  Idle =>
    /\ {s \in SessionIds : sdm[s] # None} =
         {Entry(i).session_id : i \in Sessions}
    /\ fcs_desc.session_count = Cardinality(Sessions)
    /\ \A t \in Tasks : uuid[t] # None =>
         /\ get_client_handle(uuid[t]).session_id = uuid[t]
         /\ client[get_client_handle(uuid[t]).crypto_handle] =
              [user |-> "fcs", callback |-> "fcs"]
    /\ \A i, j \in Sessions :
         /\ Entry(i).crypto_handle # fcs_desc.security_handle
         /\ i # j => Entry(i).crypto_handle # Entry(j).crypto_handle

(* A session is tied to the client that opened it: as long as the SDM has  *)
(* the session, it came from the client whose handle fcs_open_session      *)
(* keeps in the session's slot.                                            *)
SessionTiedToClient ==
  \A i \in Sessions :
    sdm[Entry(i).session_id] \in {Entry(i).crypto_handle, None}

(* Between calls the driver has no client open but the security client and *)
(* the clients of its sessions: failing and closing calls leak none.       *)
ClientsAccounted ==
  Idle =>
    {c \in Clients : client[c].user = "fcs"} =
      {Entry(i).crypto_handle : i \in Sessions}
        \cup ({fcs_desc.security_handle} \ {None})

(* A call that returns 0 was carried out: the SDM accepted every request   *)
(* of it, and the firmware took its INIT, whatever was refused, rejected   *)
(* or still posted before.  Three requests are the exception, rejections   *)
(* of which the driver drops: those of fcs_random_number and               *)
(* fcs_request_hkdf, and the random number of generate_uuid, without which *)
(* fcs_open_session still returns 0.                                       *)
SuccessIsReal ==
  done.ok => \A k \in Requests : \/ done.missing[k] = 0
                                 \/ k = "command" /\ done.silent
                                 \/ k = "uuid"

(* Every call returns: the answer it waits for posts fcs_sem.              *)
CallsReturn == ~Idle ~> Idle

=============================================================================
