----------------------------- MODULE FcsProofs ------------------------------
(***************************************************************************)
(* Proofs about Fcs, for any tasks, sessions, clients and lengths of       *)
(* commands, whatever is refused or rejected, and whether or not the       *)
(* application closes its sessions in order.                               *)
(***************************************************************************)
EXTENDS Fcs, FiniteSetTheorems, WellFoundedInduction, TLAPS

(* A request is under way, or its answer posted, only while the call waits *)
(* for it; the request is the call's own.                                  *)
Matched ==
  /\ job.at # "none" => /\ call.pc = "wait" /\ ~sem
                        /\ job.kind = call.kind /\ job.at \in {"sdm", "ready"}
  /\ job.at = "sdm" => job.resp = 0
  /\ sem => call.pc = "wait"
  /\ call.pc = "init" => call.kind = "command"

(* The fields that the rest of the invariant speaks of exist.              *)
CallShape(r) ==
  /\ {"pc", "kind", "resp", "left", "missing", "width", "silent"}
       \subseteq DOMAIN r
  /\ r.pc \in {"idle", "init", "send", "wait"} /\ r.kind \in Kinds
  /\ r.left \in Int /\ r.missing \in [Requests -> Int]
  /\ r.width \in {Short, Masked} /\ r.silent \in BOOLEAN
Shapes == CallShape(call) /\ {"at", "kind", "resp"} \subseteq DOMAIN job

Ordered == Shapes /\ Matched

(* The requests of the call in progress that the SDM has still to carry    *)
(* out, the one being sent included, and what is left of them once it has  *)
(* carried this one out.                                                   *)
Owed == [k \in Requests |->
           IF k = "init" THEN IF call.pc = "init" THEN 1 ELSE 0
           ELSE IF k # call.kind THEN 0
           ELSE IF k = "command" THEN call.left ELSE 1]
Paid == [Owed EXCEPT ![call.kind] = @ - 1]

(* A call misses what it has still to send, and the answer to a request    *)
(* that is missing is an error.                                            *)
Tally ==
  /\ call.pc \in {"init", "send"} => call.missing = Owed
  /\ call.pc = "wait" =>
       \/ job.at # "sdm" /\ call.missing = Paid
       \/ /\ call.missing = Owed
          /\ job.at = "ready" => job.resp \in Errors
          /\ job.at = "none" => call.resp \in Errors

(* The inductive invariant behind SuccessIsReal.                           *)
Answered == Tally /\ SuccessIsReal

(* What a call returns of a status shows that it is an error.  The error   *)
(* codes of the SDM have 11 bits, those of FCS_STATUS_MASK.                *)
ErrorsVisible == \A e \in Errors : e % Short # 0 /\ e % Masked # 0

-----------------------------------------------------------------------------
(* What the record of a command is made of.                                *)
IsCommand(c) ==
  /\ c.blocks \in Int /\ c.init \in BOOLEAN /\ c.silent \in BOOLEAN
  /\ c.width \in {Short, Masked} /\ c.unset \in BOOLEAN

LEMMA CommandForms ==
  /\ IsCommand(OnSession) /\ IsCommand(OnSecurity)
  /\ IsCommand([OnSession EXCEPT !.silent = TRUE])
  /\ IsCommand([OnSecurity EXCEPT !.unset = TRUE])
  /\ IsCommand(Start) /\ IsCommand(StartAndFinish)
  /\ IsCommand(With11Bits(OnSession)) /\ IsCommand(With11Bits(OnSecurity))
<1>1. IsCommand(OnSession)
  BY DEF IsCommand, OnSession
<1>2. IsCommand(OnSecurity)
  BY DEF IsCommand, OnSession, OnSecurity
<1>3. IsCommand([OnSession EXCEPT !.silent = TRUE])
  BY DEF IsCommand, OnSession
<1>4. IsCommand([OnSecurity EXCEPT !.unset = TRUE])
  BY DEF IsCommand, OnSession, OnSecurity
<1>5. IsCommand(Start)
  BY DEF IsCommand, OnSession, Start
<1>6. IsCommand(StartAndFinish)
  BY DEF IsCommand, OnSession, StartAndFinish
<1>7. IsCommand(With11Bits(OnSession))
  BY DEF IsCommand, OnSession, With11Bits
<1>8. IsCommand(With11Bits(OnSecurity))
  BY DEF IsCommand, OnSession, OnSecurity, With11Bits
<1> QED
  BY <1>1, <1>2, <1>3, <1>4, <1>5, <1>6, <1>7, <1>8

LEMMA CommandRecord ==
  ASSUME NEW c \in Commands
  PROVE  IsCommand(c)
<1>1. \/ \E n \in 1 .. MaxBlocks : c = StartAndBlocks(n)
                                    \/ c = With11Bits(StartAndBlocks(n))
      \/ c \in {OnSession, OnSecurity, [OnSession EXCEPT !.silent = TRUE],
                [OnSecurity EXCEPT !.unset = TRUE], Start, StartAndFinish,
                With11Bits(OnSession), With11Bits(OnSecurity)}
  BY Zenon
  DEF Commands, fcs_random_number, fcs_import_key, fcs_export_key,
      fcs_remove_key, fcs_get_key_info, fcs_create_key, fcs_get_digest_init,
      fcs_get_digest_update, fcs_mac_verify_init, fcs_mac_verify_update,
      fcs_encrypt_sdos, fcs_decrypt_sdos, fcs_request_hkdf,
      fcs_aes_crypt_init, fcs_aes_update, fcs_ecdsa_hash_signing,
      fcs_do_ecdsa_hash_verification, fcs_ecdsa_sha2_data_sign_init,
      fcs_ecdsa_sha2_data_sign_update,
      fcs_ecdsa_sha2_data_sign_verification_init,
      fcs_ecdsa_sha2_data_sign_verification_update, fcs_ecdsa_get_public_key,
      fcs_request_ecdh, fcs_get_provision_data, fcs_send_certificate,
      fcs_counter_set_preauthorized, fcs_obtain_chip_id,
      fcs_attestation_obtain_certificate, fcs_attestation_reload_certificate,
      fcs_send_mctp_cmd, fcs_obtain_jtag_idcode, fcs_obtain_device_identity,
      fcs_open_qspi, fcs_close_qspi, fcs_set_qspi_cs, fcs_read_qspi,
      fcs_write_qspi, fcs_erase_qspi, fcs_obtain_digest,
      fcs_do_mac_verification, fcs_aes_cryption, fcs_ecdsa_sha2_data_signing,
      fcs_do_ecdsa_sha2_data_sign_verification
<1>2. ASSUME NEW n \in 1 .. MaxBlocks
      PROVE  IsCommand(StartAndBlocks(n))
  BY DEF IsCommand, StartAndBlocks, StartAndFinish, OnSession
<1>3. ASSUME NEW n \in 1 .. MaxBlocks
      PROVE  IsCommand(With11Bits(StartAndBlocks(n)))
  BY DEF IsCommand, StartAndBlocks, StartAndFinish, OnSession, With11Bits
<1> QED
  BY <1>1, <1>2, <1>3, CommandForms

(* Every request can be missing.                                           *)
LEMMA MissingType ==
  /\ NothingMissing \in [Requests -> Int]
  /\ \A k \in Requests : Missing(k) \in [Requests -> Int]
  /\ CallShape(NoCall)
BY DEF NothingMissing, Missing, NoCall, CallShape, Kinds

-----------------------------------------------------------------------------
(* Every step keeps the requests and their answers in order, whatever the  *)
(* SDM answers.                                                            *)
LEMMA InitOrdered == Init => Ordered
BY MissingType DEF Init, Ordered, Shapes, Matched, NoJob, NoCall

(* A call that returns, and one that begins.                               *)
LEMMA OrderedAtRest ==
  ASSUME Ordered, call' = NoCall, job' = job, ~sem', job.at = "none"
  PROVE  Ordered'
BY MissingType DEF Ordered, Shapes, Matched, NoCall

LEMMA OrderedBegun ==
  ASSUME Ordered, Idle, UNCHANGED <<job, sem>>, Shapes',
         call'.pc = "init" => call'.kind = "command"
  PROVE  Ordered'
BY DEF Ordered, Shapes, Matched, Idle

(* Between calls no request is under way.                                  *)
LEMMA IdleAtRest == Ordered /\ Idle => job.at = "none" /\ ~sem
BY DEF Ordered, Shapes, Matched, Idle

(* What a call is when it begins.                                          *)
OpenCall(t, h, i) ==
  [NoCall EXCEPT !.pc = "send", !.kind = "open", !.task = t, !.handle = h,
                 !.slot = i, !.missing = Missing("open"), !.width = Masked]
CloseCall(t, h, s) ==
  [NoCall EXCEPT !.pc = "send", !.kind = "close", !.task = t, !.handle = h,
                 !.session = s, !.missing = Missing("close")]
CommandCall(t, c, h) ==
  [NoCall EXCEPT !.pc = IF c.init THEN "init" ELSE "send",
                 !.task = t, !.handle = h, !.left = c.blocks,
                 !.missing = [NothingMissing EXCEPT
                   !["init"] = IF c.init THEN 1 ELSE 0,
                   !["command"] = c.blocks],
                 !.width = c.width, !.silent = c.silent, !.unset = c.unset]

Begun(r) == call' = r /\ done' = done

CallStarts(t) == \/ LimitReached(t) \/ fcs_open_session(t)
                 \/ fcs_close_session(t) \/ Command(t)

LEMMA CallBegins ==
  ASSUME NEW t \in Tasks, CallStarts(t)
  PROVE  /\ Idle /\ UNCHANGED <<job, sem>>
         /\ \/ ReturnAtOnce(FALSE)
            \/ \E h, i : Begun(OpenCall(t, h, i))
            \/ \E h, s : Begun(CloseCall(t, h, s))
            \/ \E c \in Commands : \E h : Begun(CommandCall(t, c, h))
<1>1. CASE LimitReached(t)
  BY <1>1 DEF LimitReached
<1>2. CASE fcs_open_session(t)
  BY <1>2 DEF fcs_open_session, OpenCall, Begun
<1>3. CASE fcs_close_session(t)
  BY <1>3 DEF fcs_close_session, CloseCall, Begun
<1>4. CASE Command(t)
  BY <1>4 DEF Command, CommandCall, Begun
<1> QED
  BY <1>1, <1>2, <1>3, <1>4 DEF CallStarts

LEMMA CallShapes ==
  /\ \A t, h, i : /\ CallShape(OpenCall(t, h, i))
                  /\ OpenCall(t, h, i).pc # "init"
  /\ \A t, h, s : /\ CallShape(CloseCall(t, h, s))
                  /\ CloseCall(t, h, s).pc # "init"
  /\ \A t, h : \A c \in Commands : /\ CallShape(CommandCall(t, c, h))
                                   /\ CommandCall(t, c, h).kind = "command"
<1> SUFFICES ASSUME NEW t, NEW h, NEW i, NEW s, NEW c
             PROVE  /\ CallShape(OpenCall(t, h, i))
                    /\ OpenCall(t, h, i).pc # "init"
                    /\ CallShape(CloseCall(t, h, s))
                    /\ CloseCall(t, h, s).pc # "init"
                    /\ c \in Commands => /\ CallShape(CommandCall(t, c, h))
                                         /\ CommandCall(t, c, h).kind = "command"
  OBVIOUS
<1>1. CallShape(OpenCall(t, h, i)) /\ OpenCall(t, h, i).pc # "init"
  BY MissingType DEF OpenCall, CallShape, NoCall, Kinds, Requests
<1>2. CallShape(CloseCall(t, h, s)) /\ CloseCall(t, h, s).pc # "init"
  BY MissingType DEF CloseCall, CallShape, NoCall, Kinds, Requests
<1>3. ASSUME c \in Commands
      PROVE  CallShape(CommandCall(t, c, h)) /\ CommandCall(t, c, h).kind = "command"
  <2>1. [NothingMissing EXCEPT !["init"] = IF c.init THEN 1 ELSE 0,
                               !["command"] = c.blocks] \in [Requests -> Int]
    <3>1. (IF c.init THEN 1 ELSE 0) \in Int
      OBVIOUS
    <3>2. c.blocks \in Int
      BY <1>3, CommandRecord DEF IsCommand
    <3> QED
      BY <3>1, <3>2, MissingType
  <2> QED
    BY <1>3, <2>1, CommandRecord DEF IsCommand, CommandCall, CallShape, NoCall, Kinds
<1> QED
  BY <1>1, <1>2, <1>3

LEMMA OrderedCall ==
  ASSUME Ordered, NEW t \in Tasks, CallStarts(t)
  PROVE  Ordered'
<1>1. Idle /\ UNCHANGED <<job, sem>>
  BY CallBegins
<1>2. CASE ReturnAtOnce(FALSE)
  BY <1>1, <1>2, IdleAtRest, OrderedAtRest DEF ReturnAtOnce
<1>3. ASSUME CallShape(call'), call'.pc = "init" => call'.kind = "command"
      PROVE  Ordered'
  BY <1>1, <1>3, OrderedBegun DEF Ordered, Shapes
<1>4. ASSUME NEW h, NEW i, Begun(OpenCall(t, h, i))
      PROVE  Ordered'
  BY <1>3, <1>4, CallShapes DEF Begun
<1>5. ASSUME NEW h, NEW s, Begun(CloseCall(t, h, s))
      PROVE  Ordered'
  BY <1>3, <1>5, CallShapes DEF Begun
<1>6. ASSUME NEW c \in Commands, NEW h, Begun(CommandCall(t, c, h))
      PROVE  Ordered'
  BY <1>3, <1>6, CallShapes DEF Begun
<1> QED
  BY <1>2, <1>4, <1>5, <1>6, CallBegins

(* The steps that send a request.                                          *)
LEMMA TakenType ==
  ASSUME Shapes, NEW k \in Requests
  PROVE  /\ Taken(k) \in [Requests -> Int]
         /\ Taken(k) = [call.missing EXCEPT ![k] = call.missing[k] - 1]
BY DEF Shapes, CallShape, Taken

LEMMA OrderedSend ==
  ASSUME Ordered, InitSent \/ InitFailed \/ Sent \/ SendFailed
  PROVE  Ordered'
<1>1. CASE InitSent
  <2>1. job' = job /\ ~sem' /\ job.at = "none"
    BY <1>1 DEF InitSent, Ordered, Shapes, CallShape, Matched
  <2>2. CASE call' = NoCall
    BY <2>1, <2>2, OrderedAtRest
  <2>3. CASE call' = [call EXCEPT !.pc = "send", !.missing = Taken("init")]
    <3>1. CallShape(call')
      BY <2>3, TakenType DEF Ordered, Shapes, CallShape, Requests
    <3> QED
      BY <2>1, <2>3, <3>1 DEF Ordered, Shapes, CallShape, Matched
  <2> QED
    BY <1>1, <2>2, <2>3 DEF InitSent
<1>2. CASE InitFailed \/ SendFailed
  <2>1. job' = job /\ ~sem' /\ job.at = "none" /\ call' = NoCall
    BY <1>2
    DEF InitFailed, SendFailed, generate_uuid, Return, Ordered, Shapes,
        CallShape, Matched
  <2> QED
    BY <2>1, OrderedAtRest
<1>3. CASE Sent
  <2>1. PICK r : call' = [call EXCEPT !.pc = "wait", !.resp = r]
    BY <1>3 DEF Sent
  <2> QED
    BY <1>3, <2>1 DEF Sent, Ordered, Shapes, CallShape, Matched
<1> QED
  BY <1>1, <1>2, <1>3

(* What the firmware does: it takes the request or answers with an error.  *)
LEMMA FirmwareDoes ==
  ASSUME Firmware
  PROVE  /\ job.at = "sdm" /\ UNCHANGED <<sem, done>>
         /\ \/ /\ \/ job' = [job EXCEPT !.at = "ready"]
                  \/ \E s : job' = [job EXCEPT !.at = "ready", !.session = s]
               /\ call' = [call EXCEPT !.missing = Taken(job.kind)]
            \/ /\ \E e \in Errors :
                    job' = [job EXCEPT !.at = "ready", !.resp = e]
               /\ call' = call
BY DEF Firmware

LEMMA OrderedAnswer ==
  ASSUME Ordered, Firmware \/ Deliver
  PROVE  Ordered'
<1>1. CASE Firmware
  <2>1. /\ call.pc = "wait" /\ ~sem /\ sem' = sem
        /\ job.kind = call.kind /\ job.at = "sdm"
    BY <1>1, FirmwareDoes DEF Ordered, Matched
  <2>2. CallShape(call') /\ call'.kind = call.kind /\ call'.pc = "wait"
    <3>1. Taken(job.kind) \in [Requests -> Int]
      BY <2>1, TakenType DEF Ordered, Shapes, CallShape, Requests
    <3> QED
      BY <1>1, <2>1, <3>1, FirmwareDoes DEF Ordered, Shapes, CallShape
  <2>3. /\ {"at", "kind", "resp"} \subseteq DOMAIN job'
        /\ job'.at = "ready" /\ job'.kind = job.kind
    BY <1>1, FirmwareDoes DEF Ordered, Shapes
  <2>4. ~sem'
    BY <2>1, Zenon
  <2> QED
    BY <2>1, <2>2, <2>3, <2>4 DEF Ordered, Shapes, Matched
<1>2. CASE Deliver
  BY <1>2 DEF Deliver, NoJob, Ordered, Shapes, CallShape, Matched
<1> QED
  BY <1>1, <1>2

(* A call that goes on after an answer.                                    *)
LEMMA OrderedWaited ==
  ASSUME Ordered, Waited
  PROVE  Ordered'
<1>1. call.pc = "wait" /\ job' = job /\ job.at = "none" /\ ~sem'
  BY DEF Waited, Ordered, Matched
<1>2. CASE call' = NoCall
  BY <1>1, <1>2, OrderedAtRest
<1>3. CASE call' = [call EXCEPT !.pc = "send", !.kind = "uuid",
                                !.missing = Missing("uuid")]
  <2>1. CallShape(call')
    BY <1>3, MissingType DEF Ordered, Shapes, CallShape, Requests, Kinds
  <2> QED
    BY <1>1, <1>3, <2>1 DEF Ordered, Shapes, CallShape, Matched
<1>4. ASSUME NEW h, call' = [call EXCEPT !.pc = "send", !.left = @ - 1,
                                         !.handle = h]
      PROVE  Ordered'
  BY <1>1, <1>4 DEF Ordered, Shapes, CallShape, Matched
<1> QED
  BY <1>2, <1>3, <1>4
  DEF Waited, OpenAnswered, generate_uuid, CloseAnswered, CommandAnswered,
      Return

(* Calls that return at once.                                              *)
LEMMA AtOnce ==
  ASSUME Ordered, fcs_init \/ fcs_deinit
  PROVE  /\ Idle /\ job' = job /\ ~sem' /\ job.at = "none"
         /\ \E ok \in BOOLEAN : ReturnAtOnce(ok)
<1>1. CASE fcs_init
  <2>1. Idle /\ job' = job /\ (sem' = sem \/ sem' = FALSE)
    BY <1>1 DEF fcs_init
  <2>2. \E ok \in BOOLEAN : ReturnAtOnce(ok)
    BY <1>1 DEF fcs_init
  <2> QED
    BY <2>1, <2>2, IdleAtRest
<1>2. CASE fcs_deinit
  BY <1>2, IdleAtRest DEF fcs_deinit
<1> QED
  BY <1>1, <1>2

LEMMA NextOrdered == Ordered /\ [Next]_vars => Ordered'
<1> SUFFICES ASSUME Ordered, [Next]_vars PROVE Ordered'
  OBVIOUS
<1>1. CASE fcs_init \/ fcs_deinit
  BY <1>1, AtOnce, OrderedAtRest DEF ReturnAtOnce
<1>2. CASE OtherOpens \/ OtherCloses \/ UNCHANGED vars
  BY <1>2 DEF OtherOpens, OtherCloses, vars, Ordered, Shapes, CallShape, Matched
<1> QED
  BY <1>1, <1>2, OrderedCall, OrderedSend, OrderedWaited, OrderedAnswer
  DEF Next, DriverStep, CallStarts

-----------------------------------------------------------------------------
(* Every step keeps the count of what is missing.                          *)
LEMMA InitAnswered == Init => Answered
BY DEF Init, Answered, Tally, SuccessIsReal, NoCall, NothingMissing

(* A call that returns reports the truth.                                  *)
LEMMA Returns ==
  ASSUME call' = NoCall, SuccessIsReal'
  PROVE  Answered'
BY DEF NoCall, Answered, Tally

LEMMA NothingIsMissed ==
  ASSUME NEW ok, ReturnAtOnce(ok)
  PROVE  Answered'
<1>1. call' = NoCall /\ done'.missing = [k \in Requests |-> 0]
  BY DEF ReturnAtOnce, NothingMissing
<1> QED
  BY <1>1, Returns DEF SuccessIsReal

(* What is missing of a call: at most the request it waits for and those   *)
(* it has still to send.                                                   *)
LEMMA OwedValues ==
  ASSUME Shapes, call.pc # "init"
  PROVE  /\ \A k \in Requests : k # call.kind => Owed[k] = 0 /\ Paid[k] = 0
         /\ call.kind = "command" => Paid["command"] = call.left - 1
         /\ call.kind # "command" => Paid[call.kind] = 0
<1>1. call.kind \in Requests /\ call.kind # "init" /\ "init" \in Requests
  BY DEF Shapes, CallShape, Requests, Kinds
<1> QED
  BY <1>1 DEF Owed, Paid

LEMMA AnsweredCall ==
  ASSUME Answered, NEW t \in Tasks, CallStarts(t)
  PROVE  Answered'
<1>1. CASE ReturnAtOnce(FALSE)
  BY <1>1, NothingIsMissed
<1>2. ASSUME NEW h, NEW i, Begun(OpenCall(t, h, i))
      PROVE  Answered'
  <2>1. /\ call'.pc = "send" /\ call'.kind = "open"
        /\ call'.missing = Missing("open")
    BY <1>2 DEF Begun, OpenCall, NoCall
  <2>2. Owed' = Missing("open")
    BY <2>1 DEF Owed, Missing, NothingMissing, Requests, Kinds
  <2> QED
    BY <1>2, <2>1, <2>2 DEF Begun, Answered, Tally, SuccessIsReal
<1>3. ASSUME NEW h, NEW s, Begun(CloseCall(t, h, s))
      PROVE  Answered'
  <2>1. /\ call'.pc = "send" /\ call'.kind = "close"
        /\ call'.missing = Missing("close")
    BY <1>3 DEF Begun, CloseCall, NoCall
  <2>2. Owed' = Missing("close")
    BY <2>1 DEF Owed, Missing, NothingMissing, Requests, Kinds
  <2> QED
    BY <1>3, <2>1, <2>2 DEF Begun, Answered, Tally, SuccessIsReal
<1>4. ASSUME NEW c \in Commands, NEW h, Begun(CommandCall(t, c, h))
      PROVE  Answered'
  <2> DEFINE m == [NothingMissing EXCEPT !["init"] = IF c.init THEN 1 ELSE 0,
                                         !["command"] = c.blocks]
  <2>1. /\ call'.pc = IF c.init THEN "init" ELSE "send"
        /\ call'.kind = "command" /\ call'.left = c.blocks /\ call'.missing = m
    BY <1>4 DEF Begun, CommandCall, NoCall
  <2>2. Owed' = m
    BY <2>1 DEF Owed, NothingMissing, Requests, Kinds
  <2> QED
    BY <1>4, <2>1, <2>2 DEF Begun, Answered, Tally, SuccessIsReal
<1> QED
  BY <1>1, <1>2, <1>3, <1>4, CallBegins

LEMMA AnsweredSend ==
  ASSUME Ordered, Answered, InitSent \/ InitFailed \/ Sent \/ SendFailed
  PROVE  Answered'
<1>1. CASE InitSent
  <2>1. call.pc = "init" /\ call.kind = "command" /\ call.missing = Owed
    BY <1>1 DEF InitSent, Ordered, Matched, Answered, Tally
  <2>2. Taken("init") =
          [k \in Requests |-> IF k = "command" THEN call.left ELSE 0]
    BY <2>1 DEF Taken, Owed, Requests, Kinds
  <2>3. CASE call.left = 0
    BY <1>1, <2>2, <2>3, Returns DEF InitSent, SuccessIsReal
  <2>4. CASE call.left # 0
    <3>1. /\ call' = [call EXCEPT !.pc = "send", !.missing = Taken("init")]
          /\ done' = done
      BY <1>1, <2>4 DEF InitSent
    <3>2. /\ call'.pc = "send" /\ call'.kind = "command"
          /\ call'.left = call.left /\ call'.missing = Taken("init")
      BY <2>1, <3>1 DEF Ordered, Shapes, CallShape
    <3>3. Owed' = Taken("init")
      BY <2>2, <3>2 DEF Owed
    <3> QED
      BY <3>1, <3>2, <3>3 DEF Answered, Tally, SuccessIsReal
  <2> QED
    BY <2>3, <2>4
<1>2. CASE InitFailed
  BY <1>2, Returns DEF InitFailed, Return, SuccessIsReal
<1>3. CASE Sent
  <2>1. PICK r : call' = [call EXCEPT !.pc = "wait", !.resp = r]
    BY <1>3 DEF Sent
  <2>2. /\ call'.pc = "wait" /\ call'.kind = call.kind /\ call'.left = call.left
        /\ call'.missing = call.missing /\ call.missing = Owed
        /\ job'.at = "sdm" /\ done' = done /\ call.pc = "send"
    BY <1>3, <2>1 DEF Sent, Ordered, Shapes, CallShape, Answered, Tally
  <2>3. Owed' = Owed
    BY <2>2 DEF Owed
  <2> QED
    BY <2>2, <2>3 DEF Answered, Tally, SuccessIsReal
<1>4. CASE SendFailed
  <2>1. CASE call.kind = "uuid"
    <3>1. call.missing = Owed /\ call.pc = "send" /\ call' = NoCall
      BY <1>4, <2>1
      DEF SendFailed, generate_uuid, Return, Answered, Tally
    <3>2. done'.missing = Owed
      BY <1>4, <2>1, <3>1 DEF SendFailed, generate_uuid, Return
    <3> QED
      BY <2>1, <3>1, <3>2, OwedValues, Returns DEF SuccessIsReal, Ordered
  <2>2. CASE call.kind # "uuid"
    BY <1>4, <2>2, Returns DEF SendFailed, Return, SuccessIsReal
  <2> QED
    BY <2>1, <2>2
<1> QED
  BY <1>1, <1>2, <1>3, <1>4

LEMMA AnsweredAnswer ==
  ASSUME Ordered, Answered, Firmware \/ Deliver
  PROVE  Answered'
<1>1. CASE Firmware
  <2>1. /\ call.pc = "wait" /\ job.kind = call.kind /\ job.at = "sdm"
        /\ call.missing = Owed /\ call.kind \in Requests /\ done' = done
    BY <1>1, FirmwareDoes
    DEF Ordered, Shapes, CallShape, Matched, Answered, Tally, Requests
  <2>2. /\ call'.pc = "wait" /\ call'.kind = call.kind
        /\ call'.left = call.left /\ job'.at = "ready"
    BY <1>1, <2>1, FirmwareDoes DEF Ordered, Shapes, CallShape
  <2>3. Owed' = Owed /\ Paid' = Paid
    BY <2>1, <2>2 DEF Owed, Paid
  <2>4. CASE call' = [call EXCEPT !.missing = Taken(job.kind)]
    <3>1. call'.missing = Paid
      BY <2>1, <2>4, TakenType DEF Ordered, Shapes, CallShape, Paid, Taken
    <3> QED
      BY <2>1, <2>2, <2>3, <3>1 DEF Answered, Tally, SuccessIsReal
  <2>5. CASE /\ \E e \in Errors :
                  job' = [job EXCEPT !.at = "ready", !.resp = e]
             /\ call' = call
    <3>1. job'.resp \in Errors
      BY <2>5 DEF Ordered, Shapes
    <3> QED
      BY <2>1, <2>2, <2>3, <2>5, <3>1 DEF Answered, Tally, SuccessIsReal
  <2> QED
    BY <1>1, <2>4, <2>5, FirmwareDoes
<1>2. CASE Deliver
  <2>1. /\ call.pc = "wait" /\ job.at = "ready" /\ job'.at = "none"
        /\ done' = done
        /\ call' = [call EXCEPT !.resp = job.resp, !.session = job.session]
    BY <1>2 DEF Deliver, NoJob, Ordered, Matched
  <2>2. /\ call'.pc = "wait" /\ call'.kind = call.kind
        /\ call'.left = call.left /\ call'.missing = call.missing
        /\ call'.resp = job.resp
    BY <2>1 DEF Ordered, Shapes, CallShape
  <2>3. Owed' = Owed /\ Paid' = Paid
    BY <2>1, <2>2 DEF Owed, Paid
  <2> QED
    BY <2>1, <2>2, <2>3 DEF Answered, Tally, SuccessIsReal
<1> QED
  BY <1>1, <1>2

(* The wait on fcs_sem ends: the answer is there.                          *)
LEMMA AnsweredWaited ==
  ASSUME ErrorsVisible, Ordered, Answered, Waited
  PROVE  Answered'
<1>1. /\ call.pc = "wait" /\ job.at = "none"
      /\ \/ call.missing = Paid
         \/ call.missing = Owed /\ call.resp \in Errors
  BY DEF Waited, Ordered, Matched, Answered, Tally
<1>2. /\ call.resp \in Errors => call.resp # 0 /\ Narrowed # 0
      /\ call.silent \in BOOLEAN
  BY FcsAssumption
  DEF ErrorsVisible, Narrowed, Ordered, Shapes, CallShape
<1>3. /\ \A k \in Requests : k # call.kind => call.missing[k] = 0
      /\ call.resp \notin Errors =>
           /\ call.kind = "command" => call.missing["command"] = call.left - 1
           /\ call.kind # "command" => call.missing[call.kind] = 0
      /\ call.kind \in Requests
  BY <1>1, OwedValues DEF Ordered, Shapes, CallShape, Requests
<1>4. ASSUME NEW ok, Return(ok),
             ok => \/ \A k \in Requests : call.missing[k] = 0
                   \/ call.kind = "uuid"
                   \/ call.kind = "command" /\ call.silent
      PROVE  Answered'
  BY <1>3, <1>4, Returns DEF Return, SuccessIsReal
<1>5. CASE call.kind = "open" /\ OpenAnswered
  <2>1. CASE call.resp = 0
    <3>1. /\ call' = [call EXCEPT !.pc = "send", !.kind = "uuid",
                                  !.missing = Missing("uuid")]
          /\ done' = done
      BY <1>5, <2>1 DEF OpenAnswered
    <3>2. /\ call'.pc = "send" /\ call'.kind = "uuid"
          /\ call'.missing = Missing("uuid")
      BY <3>1 DEF Ordered, Shapes, CallShape
    <3>3. Owed' = Missing("uuid")
      BY <3>2 DEF Owed, Missing, NothingMissing, Requests, Kinds
    <3> QED
      BY <3>1, <3>2, <3>3 DEF Answered, Tally, SuccessIsReal
  <2>2. CASE call.resp # 0
    BY <1>2, <1>3, <1>4, <1>5, <2>2 DEF OpenAnswered
  <2> QED
    BY <2>1, <2>2
<1>6. CASE call.kind = "uuid" /\ generate_uuid(call.resp = 0)
  BY <1>4, <1>6 DEF generate_uuid
<1>7. CASE call.kind = "close" /\ CloseAnswered
  <2>1. CASE call.resp = 0 /\ client[call.handle].user # None
    BY <1>2, <1>3, <1>4, <1>7, <2>1 DEF CloseAnswered
  <2>2. CASE ~(call.resp = 0 /\ client[call.handle].user # None)
    BY <1>2, <1>3, <1>4, <1>7, <2>2 DEF CloseAnswered
  <2> QED
    BY <2>1, <2>2
<1>8. CASE call.kind = "command" /\ CommandAnswered
  <2>1. CASE call.resp # 0 /\ call.silent
    BY <1>4, <1>8, <2>1 DEF CommandAnswered
  <2>2. CASE ~(call.resp # 0 /\ call.silent) /\ Narrowed # 0
    BY <1>4, <1>8, <2>2 DEF CommandAnswered
  <2>3. CASE ~(call.resp # 0 /\ call.silent) /\ Narrowed = 0 /\ call.left = 1
    <3>1. Return(TRUE)
      BY <1>8, <2>3 DEF CommandAnswered
    <3>2. \A k \in Requests : call.missing[k] = 0
      BY <1>2, <1>3, <1>8, <2>3
    <3> QED
      BY <1>4, <3>1, <3>2
  <2>4. CASE ~(call.resp # 0 /\ call.silent) /\ Narrowed = 0 /\ call.left # 1
    <3>1. CASE Return(FALSE)
      BY <1>4, <3>1
    <3>2. ASSUME NEW h,
                 call' = [call EXCEPT !.pc = "send", !.left = @ - 1,
                                      !.handle = h],
                 done' = done
          PROVE  Answered'
      <4>1. /\ call'.pc = "send" /\ call'.kind = "command"
            /\ call'.left = call.left - 1 /\ call'.missing = call.missing
        BY <1>8, <3>2 DEF Ordered, Shapes, CallShape
      <4>2. call.missing = Paid
        BY <1>1, <1>2, <2>4
      <4>3. Owed' = Paid
        BY <1>1, <1>8, <4>1 DEF Owed, Paid, Requests, Kinds
      <4> QED
        BY <3>2, <4>1, <4>2, <4>3 DEF Answered, Tally, SuccessIsReal
    <3> QED
      BY <1>8, <2>4, <3>1, <3>2 DEF CommandAnswered
  <2> QED
    BY <2>1, <2>2, <2>3, <2>4
<1> QED
  BY <1>5, <1>6, <1>7, <1>8 DEF Waited

LEMMA NextAnswered ==
  ErrorsVisible /\ Ordered /\ Answered /\ [Next]_vars => Answered'
<1> SUFFICES ASSUME ErrorsVisible, Ordered, Answered, [Next]_vars
             PROVE  Answered'
  OBVIOUS
<1>1. CASE fcs_init \/ fcs_deinit
  BY <1>1, AtOnce, NothingIsMissed
<1>2. CASE OtherOpens \/ OtherCloses \/ UNCHANGED vars
  <2>1. call' = call /\ job' = job /\ done' = done
    BY <1>2 DEF OtherOpens, OtherCloses, vars
  <2>2. Owed' = Owed /\ Paid' = Paid
    BY <2>1 DEF Owed, Paid
  <2> QED
    BY <2>1, <2>2 DEF Answered, Tally, SuccessIsReal
<1> QED
  BY <1>1, <1>2, AnsweredCall, AnsweredSend, AnsweredWaited, AnsweredAnswer
  DEF Next, DriverStep, CallStarts

-----------------------------------------------------------------------------
(* A call of the driver that returns 0 was carried out, request by         *)
(* request, for errors that the narrowed status still shows: the SDM       *)
(* accepted them all and the firmware took the INIT.  SuccessIsReal names  *)
(* the three requests of which the driver drops a rejection.               *)
THEOREM SuccessExact ==
  ASSUME ErrorsVisible
  PROVE  Spec => []SuccessIsReal
<1>1. Init => Ordered /\ Answered
  BY InitOrdered, InitAnswered
<1>2. (Ordered /\ Answered) /\ [Next]_vars => (Ordered /\ Answered)'
  BY NextOrdered, NextAnswered
<1>3. Answered => SuccessIsReal
  BY DEF Answered
<1> QED
  BY <1>1, <1>2, <1>3, PTL DEF Spec

-----------------------------------------------------------------------------
(* What the agreement between the driver's table, the mailbox clients and  *)
(* the SDM rests on: sessions are closed in the reverse order, every       *)
(* session has a random uuid, the SDM carries out what opens and closes a  *)
(* session, and it has as many sessions as the table has slots.            *)
SessionDiscipline ==
  /\ Orderly /\ ~HeapFails
  /\ "uuid" \notin Refused /\ Rejected \subseteq {"command"}
  /\ IsFiniteSet(SessionIds) /\ Cardinality(SessionIds) >= Instances

Count == fcs_desc.session_count
Used == 0 .. Count - 1
Opening == call.kind \in {"open", "uuid"}
Closing == call.kind = "close"
Ours == [user |-> "fcs", callback |-> "fcs"]

(* The client of the session that is being opened, and the session once    *)
(* the SDM has opened it; the session being closed once it is closed.      *)
Mine == IF Opening THEN {call.handle} ELSE {}
Fresh ==
  IF call.kind = "uuid" \/ (call.kind = "open" /\ call.pc = "wait" /\ job.at = "none")
  THEN {call.session}
  ELSE IF call.kind = "open" /\ job.at = "ready" THEN {job.session} ELSE {}
Gone == IF Closing /\ call.pc = "wait" /\ job.at # "sdm" THEN {call.session}
        ELSE {}

SessionTypes ==
  /\ fcs_desc \in
       [is_init : BOOLEAN, security_handle : Clients \cup {None},
        session_count : 0 .. Instances,
        session_map :
          [Slots -> [uuid : Uuids, session_id : SessionIds \cup {None},
                     crypto_handle : Clients \cup {None}]]]
  /\ uuid \in [Tasks -> Uuids]
  /\ client \in [Clients -> [user : {None, "fcs", "other"},
                             callback : {None, "fcs", "other"}]]
  /\ sdm \in [SessionIds -> Clients \cup {None}]
  /\ job \in [client : Clients \cup {None}, kind : Kinds,
              resp : {0} \cup Errors, at : {"none", "sdm", "ready"},
              session : SessionIds \cup {None}]
  /\ call \in [pc : {"idle", "init", "send", "wait"}, kind : Kinds,
               task : Tasks \cup {None}, handle : Clients \cup {None},
               session : SessionIds \cup {None}, slot : Slots,
               resp : {0} \cup Errors, left : Int,
               missing : [Requests -> Int], width : {Short, Masked},
               silent : BOOLEAN, unset : BOOLEAN]

(* The table is a stack: the slots below session_count hold sessions, each *)
(* with an id and a client of its own, the others hold none.               *)
TableExact ==
  /\ \A i \in Used : /\ Entry(i).session_id # None
                      /\ Entry(i).uuid = Entry(i).session_id
                      /\ Entry(i).crypto_handle # None
  /\ \A i \in Slots \ Used :
       /\ Entry(i).uuid = None
       /\ Entry(i).session_id # None => call.kind = "uuid" /\ i = Count
  /\ \A i, j \in Used : i # j =>
       /\ Entry(i).session_id # Entry(j).session_id
       /\ Entry(i).crypto_handle # Entry(j).crypto_handle
  /\ fcs_desc.is_init = (fcs_desc.security_handle # None)
  /\ ~fcs_desc.is_init => Count = 0

(* The clients that the driver has open.                                   *)
ClientsExact ==
  /\ \A c \in Clients :
       client[c].user = "fcs" <=>
         \/ \E i \in Used : c = Entry(i).crypto_handle
         \/ c \in Mine \/ c = fcs_desc.security_handle
  /\ \A i \in Used : /\ Entry(i).crypto_handle # fcs_desc.security_handle
                      /\ Entry(i).crypto_handle \notin Mine
                      /\ client[Entry(i).crypto_handle].callback = "fcs"
  /\ Opening => /\ call.handle # None
                /\ call.handle # fcs_desc.security_handle
                /\ client[call.handle].callback = "fcs"

(* The sessions that the SDM has open.                                     *)
SdmExact ==
  /\ \A i \in Used :
       sdm[Entry(i).session_id] =
         IF Entry(i).session_id \in Gone THEN None ELSE Entry(i).crypto_handle
  /\ \A s \in SessionIds :
       sdm[s] # None => s \in Fresh \/ \E i \in Used : s = Entry(i).session_id
  /\ \A s \in Fresh : /\ s # None /\ sdm[s] = call.handle
                       /\ \A i \in Used : s # Entry(i).session_id

(* The tasks with a uuid: each has a session of its own.                   *)
UuidsExact ==
  /\ \A t \in Tasks :
       uuid[t] # None => \E i \in Used : Entry(i).uuid = uuid[t]
  /\ \A t, u \in Tasks : uuid[t] = uuid[u] /\ uuid[t] # None => t = u

(* The call that opens or closes a session, and its request.               *)
CallExact ==
  /\ call.kind # "command" =>
       /\ call.pc \in {"send", "wait"} /\ call.resp = 0 /\ job.resp = 0
       /\ call.task \in Tasks
  /\ Opening => /\ call.slot = Count /\ Count < Instances /\ fcs_desc.is_init
                /\ call.handle = Entry(Count).crypto_handle
                /\ uuid[call.task] = None
  /\ call.kind = "uuid" => Entry(Count).session_id = call.session
  /\ job.at = "none" => job.resp = 0
  /\ Closing => /\ Count > 0 /\ uuid[call.task] = call.session
                /\ call.handle = Entry(Count - 1).crypto_handle
                /\ call.session = Entry(Count - 1).session_id
  /\ job.at # "none" =>
       /\ job.client = call.handle
       /\ (job.at = "ready" /\ call.kind = "open") \/ job.session = call.session

(* The inductive invariant behind SessionTable, SessionTiedToClient and    *)
(* ClientsAccounted.                                                       *)
SessionsAgree ==
  /\ Ordered /\ SessionTypes /\ TableExact /\ ClientsExact /\ SdmExact
  /\ UuidsExact /\ CallExact

-----------------------------------------------------------------------------
(* A set of numbers that is not empty has a least element.                 *)
LEMMA MinInSet ==
  ASSUME NEW S, S \subseteq Nat, S # {}
  PROVE  Min(S) \in S /\ \A x \in S : Min(S) <= x
<1>1. PICK m \in S : m \in Nat
  OBVIOUS
<1> DEFINE B == 0 .. m
           T == {x \in S : x <= m}
           U == {0 .. x : x \in T}
<1>2. IsFiniteSet(B) /\ B \subseteq Nat
  BY <1>1, FS_Interval
<1>3. U \subseteq SUBSET B /\ U # {}
  BY <1>1
<1>4. IsWellFoundedOn(StrictSubsetOrdering(B), SUBSET B)
  BY <1>2, FS_StrictSubsetOrderingWellFounded, FS_FiniteSubsetsOfFinite
<1>5. PICK u \in U : \A v \in U : <<v, u>> \notin StrictSubsetOrdering(B)
  BY <1>3, <1>4, WFMin
<1>6. PICK x \in T : u = 0 .. x
  BY <1>5
<1>7. ASSUME NEW y \in S, ~(x <= y)
      PROVE  FALSE
  <2>1. /\ y \in T /\ x \in Nat /\ y \in Nat /\ y < x /\ x <= m
    BY <1>1, <1>6, <1>7
  <2>2. (0 .. y) \in U /\ (0 .. y) \subseteq u /\ u \subseteq B /\ (0 .. y) # u
    BY <1>1, <1>6, <2>1
  <2>3. <<0 .. y, u>> \in StrictSubsetOrdering(B)
    BY <2>2 DEF StrictSubsetOrdering
  <2> QED
    BY <1>5, <2>2, <2>3
<1> QED
  BY <1>6, <1>7 DEF Min

(* ... and a set of slots a greatest.                                      *)
LEMMA MaxInSet ==
  ASSUME NEW S, S \subseteq Slots, S # {}
  PROVE  Max(S) \in S
<1> DEFINE T == {Instances - x : x \in S}
<1>1. /\ Instances \in Nat
      /\ \A x \in S : x \in Nat /\ x < Instances /\ Instances - x \in Nat
  BY FcsAssumption DEF Slots
<1>5. T \subseteq Nat /\ T # {}
  BY <1>1
<1>2. Min(T) \in T /\ \A x \in T : Min(T) <= x
  BY <1>1, <1>5, MinInSet
<1>3. PICK m \in S : Min(T) = Instances - m
  BY <1>2
<1>4. ASSUME NEW x \in S
      PROVE  m >= x
  <2>1. Instances - m <= Instances - x
    BY <1>2, <1>3
  <2> QED
    BY <1>1, <2>1
<1> QED
  BY <1>3, <1>4 DEF Max

(* A client that is opened was free.                                       *)
LEMMA OpenedWasFree ==
  ASSUME FreeClients # {}
  PROVE  mbox_open_client \in Clients /\ client[mbox_open_client].user = None
BY MinInSet, FcsAssumption DEF FreeClients, mbox_open_client

(* The first free slot is the one above the sessions.                      *)
LEMMA FirstFree ==
  ASSUME SessionTypes, TableExact, call.kind # "uuid", Count < Instances
  PROVE  FreeSlots # {} /\ Min(FreeSlots) = Count
<1>1. Count \in Nat /\ Instances \in Nat
  BY FcsAssumption DEF SessionTypes, Count
<1>2. Count \in FreeSlots /\ \A i \in FreeSlots : i >= Count
  BY <1>1 DEF TableExact, FreeSlots, Slots, Used, Entry
<1>3. FreeSlots \subseteq Nat
  BY DEF FreeSlots, Slots
<1> DEFINE m == Min(FreeSlots)
<1>4. m \in FreeSlots /\ \A i \in FreeSlots : m <= i
  BY <1>2, <1>3, MinInSet
<1>5. m \in Nat /\ m >= Count /\ m <= Count
  BY <1>2, <1>3, <1>4
<1> QED
  BY <1>1, <1>2, <1>5

(* The uuid of a session finds its slot.                                   *)
LEMMA Lookup ==
  ASSUME SessionTypes, TableExact, NEW i \in Used
  PROVE  get_client_handle(Entry(i).uuid) = Entry(i) /\ i \in Slots
<1>1. Count \in 0 .. Instances /\ Instances \in Nat /\ Count # 0 /\ i \in Slots
  BY FcsAssumption DEF SessionTypes, Count, Used, Slots
<1>2. Matches(Entry(i).uuid) = {i}
  BY <1>1 DEF Matches, TableExact, Entry, Used, Slots
<1>3. Max({i}) = i
  BY <1>1 DEF Max, Slots
<1> QED
  BY <1>1, <1>2, <1>3 DEF get_client_handle, Entry, Count

-----------------------------------------------------------------------------
(* The call that is none.                                                  *)
LEMMA NoCallType ==
  NoCall.kind = "command" /\ NoCall.slot = 0 /\ NoCall.resp = 0
    /\ NoCall.session = None /\ NoCall.pc = "idle"
    /\ NoCall \in [pc : {"idle", "init", "send", "wait"}, kind : Kinds,
                    task : Tasks \cup {None}, handle : Clients \cup {None},
                    session : SessionIds \cup {None}, slot : Slots,
                    resp : {0} \cup Errors, left : Int,
                    missing : [Requests -> Int], width : {Short, Masked},
                    silent : BOOLEAN, unset : BOOLEAN]
BY FcsAssumption, MissingType DEF NoCall, Kinds, Slots

(* Before the first call there are no sessions.                            *)
LEMMA InitSessions == Init => SessionsAgree
<1> SUFFICES ASSUME Init PROVE SessionsAgree
  OBVIOUS
<1>1. Count = 0 /\ Used = {} /\ Mine = {} /\ Fresh = {} /\ Gone = {} /\ 0 \in Slots
  BY FcsAssumption
  DEF Init, NoDesc, NoCall, NoJob, Count, Used, Mine, Fresh, Gone, Opening,
      Closing, Slots
<1>2. SessionTypes
  BY <1>1, FcsAssumption, NoCallType
  DEF Init, SessionTypes, NoDesc, NoJob, NoSession, Uuids, Kinds
<1>3. /\ \A i \in Slots : Entry(i) = NoSession
      /\ fcs_desc.is_init = FALSE /\ fcs_desc.security_handle = None
  BY DEF Init, NoDesc, Entry
<1>5. TableExact
  <2>1. \A i \in Slots : Entry(i).uuid = None /\ Entry(i).session_id = None
    BY <1>3 DEF NoSession
  <2>2. fcs_desc.is_init = (fcs_desc.security_handle # None)
    BY <1>3
  <2> QED
    BY <1>1, <2>1, <2>2 DEF TableExact
<1>6. ClientsExact
  BY <1>1, <1>3, FcsAssumption DEF Init, NoCall, ClientsExact, Opening
<1>4. SdmExact /\ UuidsExact /\ CallExact
  BY <1>1, FcsAssumption
  DEF Init, NoDesc, NoCall, NoJob, NoSession, SdmExact, UuidsExact, CallExact,
      Opening, Closing
<1> QED
  BY <1>2, <1>4, <1>5, <1>6, InitOrdered DEF SessionsAgree

(* Steps of commands leave the sessions alone.                             *)
LEMMA PlainStep ==
  ASSUME SessionsAgree, Ordered', SessionTypes',
         UNCHANGED <<fcs_desc, uuid, client, sdm>>,
         call.kind = "command", call'.kind = "command",
         job'.at # "none" => job'.client = call'.handle
                               /\ job'.session = call'.session,
         job'.at = "none" => job'.resp = 0
  PROVE  SessionsAgree'
<1>1. /\ Mine = {} /\ Fresh = {} /\ Gone = {} /\ Mine' = {} /\ Fresh' = {}
      /\ Gone' = {} /\ Used' = Used /\ Count' = Count
      /\ \A i : Entry(i)' = Entry(i)
  BY DEF Mine, Fresh, Gone, Opening, Closing, Used, Count, Entry
<1>2. TableExact' /\ UuidsExact'
  BY <1>1 DEF SessionsAgree, TableExact, UuidsExact
<1>3. ClientsExact' /\ SdmExact'
  BY <1>1 DEF SessionsAgree, ClientsExact, SdmExact, Opening
<1>4. CallExact'
  BY <1>1 DEF CallExact, Opening, Closing
<1> QED
  BY <1>2, <1>3, <1>4 DEF SessionsAgree

(* Between calls, and when a call returns, the call is a command.          *)
LEMMA IdleCall ==
  ASSUME SessionsAgree, Idle
  PROVE  call.kind = "command" /\ job.at = "none" /\ ~sem
BY IdleAtRest DEF SessionsAgree, CallExact, Idle

(* A command or a refused call returns.                                    *)
LEMMA PlainReturn ==
  ASSUME SessionsAgree, Ordered', UNCHANGED <<fcs_desc, uuid, client, sdm, job>>,
         call.kind = "command", call' = NoCall, job.at = "none"
  PROVE  SessionsAgree'
<1>1. SessionTypes'
  BY NoCallType DEF SessionsAgree, SessionTypes
<1>2. job'.at = "none" /\ job'.resp = 0
  BY DEF SessionsAgree, CallExact
<1> QED
  BY <1>1, <1>2, NoCallType, PlainStep

(* What a task's uuid finds.                                               *)
LEMMA HandleType ==
  ASSUME SessionTypes, NEW u
  PROVE  get_client_handle(u).crypto_handle \in Clients \cup {None}
<1>1. CASE fcs_desc.session_count = 0 \/ Matches(u) = {}
  BY <1>1 DEF get_client_handle, NoSession
<1>2. CASE ~(fcs_desc.session_count = 0 \/ Matches(u) = {})
  <2>1. Matches(u) \subseteq Slots /\ Matches(u) # {}
    BY <1>2 DEF Matches
  <2>2. Max(Matches(u)) \in Slots
    BY <2>1, MaxInSet
  <2> QED
    BY <1>2, <2>2 DEF get_client_handle, SessionTypes
<1> QED
  BY <1>1, <1>2

-----------------------------------------------------------------------------
(* What the type invariant says of the table.                              *)
LEMMA TableTypes ==
  ASSUME SessionTypes
  PROVE  /\ Instances \in Nat \ {0} /\ Count \in Nat /\ Count <= Instances
         /\ Used \subseteq Slots /\ (Count < Instances => Count \in Slots)
         /\ \A i \in Slots :
              /\ Entry(i).uuid \in Uuids
              /\ Entry(i).session_id \in SessionIds \cup {None}
              /\ Entry(i).crypto_handle \in Clients \cup {None}
BY FcsAssumption DEF SessionTypes, Count, Used, Slots, Entry

(* A client that the driver opens is the driver's.                         *)
LEMMA OpenedIsOurs ==
  ASSUME SessionTypes, NEW c \in Clients
  PROVE  mbox_set_callback(Opened(c), c) = [client EXCEPT ![c] = Ours]
<1> DEFINE users == {None, "fcs", "other"}
           o == [client EXCEPT ![c].user = "fcs"]
           r == [o EXCEPT ![c].callback = "fcs"]
<1>1. client \in [Clients -> [user : users, callback : users]]
  BY DEF SessionTypes
<1>2. mbox_set_callback(Opened(c), c) = r
  BY FcsAssumption DEF mbox_set_callback, Opened
<1>3. /\ o \in [Clients -> [user : users, callback : users]]
      /\ o[c].user = "fcs" /\ \A d \in Clients : d # c => o[d] = client[d]
  BY <1>1
<1> HIDE DEF o
<1>4. /\ r \in [Clients -> [user : users, callback : users]]
      /\ r[c].user = "fcs" /\ r[c].callback = "fcs"
      /\ \A d \in Clients : d # c => r[d] = o[d]
  BY <1>3
<1> HIDE DEF r
<1>5. r[c] = Ours
  BY <1>4 DEF Ours
<1> QED
  BY <1>1, <1>2, <1>3, <1>4, <1>5

(* fcs_init opens the security client; there are no sessions.              *)
LEMMA InitStep ==
  ASSUME SessionDiscipline, SessionsAgree, Ordered', fcs_init
  PROVE  SessionsAgree'
<1>1. call.kind = "command" /\ job.at = "none" /\ ~sem /\ Idle
  BY IdleCall DEF fcs_init
<1>2. CASE mbox_open_client = None
  BY <1>1, <1>2, PlainReturn DEF fcs_init, ReturnAtOnce
<1>3. CASE mbox_open_client # None
  <2> DEFINE c == mbox_open_client
  <2>1. c \in Clients /\ client[c].user = None
    BY <1>3, OpenedWasFree DEF mbox_open_client
  <2> HIDE DEF c
  <2>2. /\ fcs_desc' = [NoDesc EXCEPT !.is_init = TRUE, !.security_handle = c]
        /\ client' = [client EXCEPT ![c] = Ours]
        /\ call' = NoCall /\ UNCHANGED <<uuid, sdm, job>> /\ ~fcs_desc.is_init
    <3>1. /\ fcs_desc' = [NoDesc EXCEPT !.is_init = TRUE, !.security_handle = c]
          /\ client' = mbox_set_callback(Opened(c), c)
          /\ call' = NoCall /\ UNCHANGED <<uuid, sdm, job>> /\ ~fcs_desc.is_init
      BY <1>3 DEF c, fcs_init, ReturnAtOnce, SessionDiscipline
    <3> QED
      BY <2>1, <3>1, OpenedIsOurs DEF SessionsAgree
  <2>3. /\ Count = 0 /\ Count' = 0 /\ Used = {} /\ Used' = {} /\ Mine = {}
        /\ Mine' = {} /\ Fresh = {} /\ Fresh' = {} /\ Gone' = {}
        /\ fcs_desc.security_handle = None
        /\ fcs_desc'.is_init = TRUE /\ fcs_desc'.security_handle = c
        /\ \A i \in Slots : Entry(i)' = NoSession
    BY <1>1, <2>2, NoCallType
    DEF SessionsAgree, TableExact, SessionTypes, Count, Used, Mine, Fresh, Gone,
        Opening, Closing, NoDesc, Entry, NoCall
  <2>4. SessionTypes'
    <3>1. fcs_desc' = [is_init |-> TRUE, security_handle |-> c, session_count |-> 0,
                       session_map |-> [i \in Slots |-> NoSession]]
      BY <2>2 DEF NoDesc
    <3>2. NoSession \in [uuid : Uuids, session_id : SessionIds \cup {None},
                         crypto_handle : Clients \cup {None}]
      BY DEF NoSession, Uuids
    <3>3. client' \in [Clients -> [user : {None, "fcs", "other"},
                                  callback : {None, "fcs", "other"}]]
      BY <2>1, <2>2 DEF SessionsAgree, SessionTypes, Ours
    <3>4. fcs_desc' \in
            [is_init : BOOLEAN, security_handle : Clients \cup {None},
             session_count : 0 .. Instances,
             session_map :
               [Slots -> [uuid : Uuids, session_id : SessionIds \cup {None},
                          crypto_handle : Clients \cup {None}]]]
      <4>1. 0 \in 0 .. Instances
        BY FcsAssumption
      <4>2. [i \in Slots |-> NoSession] \in
              [Slots -> [uuid : Uuids, session_id : SessionIds \cup {None},
                         crypto_handle : Clients \cup {None}]]
        BY <3>2
      <4> QED
        BY <2>1, <3>1, <4>1, <4>2
    <3> QED
      BY <2>2, <3>3, <3>4, NoCallType DEF SessionsAgree, SessionTypes
  <2>5. TableExact'
    <3>1. \A i \in Slots : Entry(i)'.uuid = None /\ Entry(i)'.session_id = None
      BY <2>3 DEF NoSession
    <3>2. (fcs_desc.is_init = (fcs_desc.security_handle # None))'
      BY <2>1, <2>3, FcsAssumption
    <3> QED
      BY <2>3, <3>1, <3>2 DEF TableExact
  <2>6. ClientsExact'
    BY <2>1, <2>2, <2>3, NoCallType, FcsAssumption
    DEF SessionsAgree, ClientsExact, SessionTypes, Opening, Ours
  <2>7. SdmExact' /\ UuidsExact'
    BY <2>2, <2>3 DEF SessionsAgree, SdmExact, UuidsExact
  <2>8. CallExact'
    BY <1>1, <2>2, NoCallType DEF SessionsAgree, CallExact, Opening, Closing
  <2> QED
    BY <2>4, <2>5, <2>6, <2>7, <2>8 DEF SessionsAgree
<1> QED
  BY <1>2, <1>3

(* fcs_deinit is called without sessions, and closes the security client.  *)
LEMMA DeinitStep ==
  ASSUME SessionDiscipline, SessionsAgree, Ordered', fcs_deinit
  PROVE  SessionsAgree'
<1> DEFINE c == fcs_desc.security_handle
<1>1. call.kind = "command" /\ job.at = "none" /\ ~sem /\ Idle
  BY IdleCall DEF fcs_deinit
<1>2. /\ c \in Clients /\ Count = 0
      /\ fcs_desc' = NoDesc /\ client' = [client EXCEPT ![c].user = None]
      /\ call' = NoCall /\ UNCHANGED <<uuid, sdm, job>>
  BY DEF SessionDiscipline, SessionsAgree, SessionTypes, TableExact, fcs_deinit,
         mbox_close_client, ReturnAtOnce, Count
<1>3. /\ Count' = 0 /\ Used = {} /\ Used' = {} /\ Mine = {}
      /\ Mine' = {} /\ Fresh = {} /\ Fresh' = {} /\ Gone' = {}
      /\ fcs_desc'.is_init = FALSE /\ fcs_desc'.security_handle = None
      /\ \A i \in Slots : Entry(i)' = NoSession
  BY <1>1, <1>2, NoCallType
  DEF Count, Used, Mine, Fresh, Gone, Opening, Closing, NoDesc, Entry, NoCall
<1>4. SessionTypes'
  <2>1. fcs_desc' \in
          [is_init : BOOLEAN, security_handle : Clients \cup {None},
           session_count : 0 .. Instances,
           session_map :
             [Slots -> [uuid : Uuids, session_id : SessionIds \cup {None},
                        crypto_handle : Clients \cup {None}]]]
    BY <1>2, FcsAssumption DEF NoDesc, NoSession, Uuids
  <2>2. client' \in [Clients -> [user : {None, "fcs", "other"},
                                callback : {None, "fcs", "other"}]]
    <3>1. client \in [Clients -> [user : {None, "fcs", "other"},
                                 callback : {None, "fcs", "other"}]]
      BY DEF SessionsAgree, SessionTypes
    <3>2. \A d \in Clients :
            [client[d] EXCEPT !.user = None]
              \in [user : {None, "fcs", "other"},
                   callback : {None, "fcs", "other"}]
      BY ONLY <3>1
    <3> QED
      BY ONLY <1>2, <3>1, <3>2
  <2> QED
    BY <1>2, <2>1, <2>2, NoCallType DEF SessionsAgree, SessionTypes
<1>5. TableExact'
  <2>1. \A i \in Slots : Entry(i)'.uuid = None /\ Entry(i)'.session_id = None
    BY <1>3 DEF NoSession
  <2>2. (fcs_desc.is_init = (fcs_desc.security_handle # None))'
    BY <1>3
  <2> QED
    BY <1>3, <2>1, <2>2 DEF TableExact
<1>6. ClientsExact'
  BY <1>2, <1>3, NoCallType, FcsAssumption
  DEF SessionsAgree, ClientsExact, SessionTypes, Opening
<1>7. SdmExact' /\ UuidsExact'
  BY <1>2, <1>3 DEF SessionsAgree, SdmExact, UuidsExact
<1>8. CallExact'
  BY <1>1, <1>2, NoCallType DEF SessionsAgree, CallExact, Opening, Closing
<1> QED
  BY <1>4, <1>5, <1>6, <1>7, <1>8 DEF SessionsAgree

(* Other drivers open and close clients that are not the driver's.         *)
LEMMA OtherStep ==
  ASSUME SessionsAgree, Ordered', OtherOpens \/ OtherCloses
  PROVE  SessionsAgree'
<1>1. UNCHANGED <<fcs_desc, uuid, sdm, job, sem, call, done>>
  BY DEF OtherOpens, OtherCloses
<1>2. PICK c \in Clients, u \in {None, "other"}, b \in {None, "fcs", "other"} :
        /\ client[c].user # "fcs"
        /\ client' = [client EXCEPT ![c] = [user |-> u, callback |-> b]]
  <2>1. CASE OtherOpens
    <3>1. mbox_open_client \in Clients /\ client[mbox_open_client].user = None
      BY <2>1, OpenedWasFree DEF OtherOpens
    <3> QED
      BY <2>1, <3>1, FcsAssumption DEF OtherOpens
  <2>2. CASE OtherCloses
    <3>1. PICK c \in Clients : /\ client[c].user = "other"
                               /\ client' = [client EXCEPT ![c].user = None]
      BY <2>2 DEF OtherCloses, mbox_close_client
    <3>2. client' = [client EXCEPT ![c] = [user |-> None,
                                           callback |-> client[c].callback]]
      <4>1. client[c] \in [user : {None, "fcs", "other"},
                           callback : {None, "fcs", "other"}]
        BY DEF SessionsAgree, SessionTypes
      <4>2. [client[c] EXCEPT !.user = None] =
              [user |-> None, callback |-> client[c].callback]
        BY <4>1
      <4> QED
        BY <3>1, <4>2
    <3>3. client[c].callback \in {None, "fcs", "other"}
      BY DEF SessionsAgree, SessionTypes
    <3> QED
      BY <3>1, <3>2, <3>3
  <2> QED
    BY <2>1, <2>2
<1>3. /\ Mine' = Mine /\ Fresh' = Fresh /\ Gone' = Gone /\ Used' = Used
      /\ Count' = Count /\ Opening' = Opening /\ \A i : Entry(i)' = Entry(i)
  BY <1>1 DEF Mine, Fresh, Gone, Opening, Closing, Used, Count, Entry
<1>4. SessionTypes'
  BY <1>1, <1>2 DEF SessionsAgree, SessionTypes
<1>5. TableExact' /\ SdmExact' /\ UuidsExact' /\ CallExact'
  BY <1>1, <1>3
  DEF SessionsAgree, TableExact, SdmExact, UuidsExact, CallExact, Opening, Closing
<1>6. ClientsExact'
  <2>1. \A d \in Clients : client'[d].user = "fcs" <=> client[d].user = "fcs"
    BY <1>2, FcsAssumption DEF SessionsAgree, SessionTypes
  <2>2. \A d \in Clients : client[d].user = "fcs" => client'[d] = client[d]
    BY <1>2 DEF SessionsAgree, SessionTypes
  <2>3. \A i \in Used : /\ Entry(i).crypto_handle \in Clients
                        /\ client[Entry(i).crypto_handle].user = "fcs"
    BY TableTypes DEF SessionsAgree, TableExact, ClientsExact
  <2>4. Opening => call.handle \in Clients /\ client[call.handle].user = "fcs"
    BY DEF SessionsAgree, ClientsExact, SessionTypes, Mine
  <2> QED
    BY <1>1, <1>3, <2>1, <2>2, <2>3, <2>4 DEF SessionsAgree, ClientsExact
<1> QED
  BY <1>4, <1>5, <1>6 DEF SessionsAgree

(* fcs_open_session opens a client and starts with the first request.      *)
LEMMA OpenStep ==
  ASSUME SessionDiscipline, SessionsAgree, Ordered', NEW t \in Tasks,
         fcs_open_session(t)
  PROVE  SessionsAgree'
<1> DEFINE c == mbox_open_client
           map == [fcs_desc.session_map EXCEPT ![Count].crypto_handle = c]
<1>1. /\ call.kind = "command" /\ job.at = "none" /\ ~sem /\ Idle
      /\ fcs_desc.is_init /\ uuid[t] = None
      /\ Count \in Slots /\ Count < Instances /\ Min(FreeSlots) = Count
  BY IdleCall, FirstFree, TableTypes
  DEF fcs_open_session, SessionsAgree, Count
<1>2. c \in Clients \cup {None} /\ (c # None => c \in Clients /\ client[c].user = None)
  BY OpenedWasFree DEF mbox_open_client
<1>3. map[Count].crypto_handle = c
  BY <1>1 DEF SessionsAgree, SessionTypes
<1>4. /\ fcs_desc' = [fcs_desc EXCEPT !.session_map = map]
      /\ IF c = None
         THEN client' = client /\ call' = NoCall
         ELSE /\ client' = mbox_set_callback(Opened(c), c)
              /\ call' = OpenCall(t, c, Count)
      /\ UNCHANGED <<uuid, mbox, sdm, job, sem>>
  BY <1>1, <1>3
  DEF fcs_open_session, SessionHandle, Count, Opened, ReturnAtOnce, OpenCall
<1> HIDE DEF c, map
<1>5. /\ map \in [Slots -> [uuid : Uuids, session_id : SessionIds \cup {None},
                            crypto_handle : Clients \cup {None}]]
      /\ \A i \in Slots : /\ map[i].uuid = Entry(i).uuid
                          /\ map[i].session_id = Entry(i).session_id
                          /\ i # Count => map[i] = Entry(i)
  <2>1. \A i \in Slots :
          map[i] = IF i = Count THEN [Entry(i) EXCEPT !.crypto_handle = c]
                   ELSE Entry(i)
    BY DEF map, SessionsAgree, SessionTypes, Entry
  <2>2. map = [i \in Slots |-> map[i]]
    BY DEF map, SessionsAgree, SessionTypes
  <2>3. \A i \in Slots :
          Entry(i) \in [uuid : Uuids, session_id : SessionIds \cup {None},
                       crypto_handle : Clients \cup {None}]
    BY DEF SessionsAgree, SessionTypes, Entry
  <2>4. ASSUME NEW i \in Slots
        PROVE  /\ map[i] \in [uuid : Uuids, session_id : SessionIds \cup {None},
                              crypto_handle : Clients \cup {None}]
               /\ map[i].uuid = Entry(i).uuid
               /\ map[i].session_id = Entry(i).session_id
               /\ i # Count => map[i] = Entry(i)
    <3>1. Entry(i) \in [uuid : Uuids, session_id : SessionIds \cup {None},
                       crypto_handle : Clients \cup {None}]
      BY <2>3
    <3>2. CASE i = Count
      BY <1>2, <2>1, <3>1, <3>2
    <3>3. CASE i # Count
      BY <2>1, <3>1, <3>3
    <3> QED
      BY <3>2, <3>3
  <2> QED
    BY <2>2, <2>4
<1>6. /\ Count' = Count /\ Used' = Used /\ \A i : Entry(i)' = map[i]
      /\ fcs_desc'.is_init = fcs_desc.is_init
      /\ fcs_desc'.security_handle = fcs_desc.security_handle
      /\ Mine = {} /\ Fresh = {} /\ Gone = {}
  BY <1>1, <1>4
  DEF SessionsAgree, SessionTypes, Count, Used, Entry, Mine, Fresh, Gone,
      Opening, Closing
<1>7. /\ Fresh' = {} /\ Gone' = {} /\ ~Closing' /\ call'.kind # "uuid"
      /\ IF c = None THEN call'.kind = "command" /\ Mine' = {} /\ ~Opening'
         ELSE /\ Mine' = {c} /\ Opening' /\ call'.handle = c /\ call'.slot = Count
              /\ call'.task = t /\ call'.kind = "open" /\ call'.pc = "send"
              /\ call'.resp = 0 /\ call'.session = None
  <2>1. CASE c = None
    BY <1>1, <1>4, <2>1 DEF Fresh, Gone, Mine, Opening, Closing, NoCall
  <2>2. CASE c # None
    <3>1. call' = OpenCall(t, c, Count) /\ job' = job
      BY <1>4, <2>2
    <3>2. /\ call'.handle = c /\ call'.slot = Count /\ call'.task = t
          /\ call'.kind = "open" /\ call'.pc = "send" /\ call'.resp = 0
          /\ call'.session = None
      BY ONLY <3>1 DEF OpenCall, NoCall
    <3> QED
      BY ONLY <1>1, <2>2, <3>1, <3>2 DEF Fresh, Gone, Mine, Opening, Closing
  <2> QED
    BY <2>1, <2>2
<1>8. \A i \in Used : /\ i \in Slots /\ i # Count /\ Entry(i)' = Entry(i)
                      /\ Entry(i).crypto_handle \in Clients
                      /\ client[Entry(i).crypto_handle].user = "fcs"
  BY <1>5, <1>6, TableTypes
  DEF SessionsAgree, TableExact, ClientsExact, Used
<1>9. c # None =>
        /\ \A d \in Clients \ {c} : client'[d] = client[d]
        /\ client'[c] = Ours /\ client' = [client EXCEPT ![c] = Ours]
  BY <1>2, <1>4, OpenedIsOurs DEF SessionsAgree, SessionTypes
<1>10. SessionTypes'
  <2>1. call' \in [pc : {"idle", "init", "send", "wait"}, kind : Kinds,
                   task : Tasks \cup {None}, handle : Clients \cup {None},
                   session : SessionIds \cup {None}, slot : Slots,
                   resp : {0} \cup Errors, left : Int,
                   missing : [Requests -> Int], width : {Short, Masked},
                   silent : BOOLEAN, unset : BOOLEAN]
    <3>1. CASE c = None
      BY <1>4, <3>1, NoCallType
    <3>2. CASE c # None
      <4>1. call' = [pc |-> "send", kind |-> "open", task |-> t, handle |-> c,
                     session |-> None, slot |-> Count, resp |-> 0, left |-> 0,
                     missing |-> Missing("open"), width |-> Masked,
                     silent |-> FALSE, unset |-> FALSE]
        <5>1. call' = OpenCall(t, c, Count)
          BY <1>4, <3>2
        <5> QED
          BY ONLY <5>1 DEF OpenCall, NoCall
      <4>2. Missing("open") \in [Requests -> Int]
        BY MissingType DEF Requests, Kinds
      <4>3. "open" \in Kinds /\ Count \in Slots /\ c \in Clients /\ 0 \in Int
        BY <1>1, <1>2, <3>2 DEF Kinds
      <4> QED
        BY ONLY <4>1, <4>2, <4>3, t \in Tasks
    <3> QED
      BY <3>1, <3>2
  <2>2. client' \in [Clients -> [user : {None, "fcs", "other"},
                                callback : {None, "fcs", "other"}]]
    BY <1>2, <1>4, <1>9 DEF SessionsAgree, SessionTypes, Ours
  <2> QED
    BY <1>4, <1>5, <2>1, <2>2 DEF SessionsAgree, SessionTypes
<1>11. TableExact'
  <2>1. \A i \in Slots \ Used :
          Entry(i)'.uuid = None /\ Entry(i)'.session_id = None
    BY <1>1, <1>5, <1>6 DEF SessionsAgree, TableExact
  <2>2. (fcs_desc.is_init = (fcs_desc.security_handle # None))'
    BY <1>6 DEF SessionsAgree, TableExact
  <2>3. (~fcs_desc.is_init => Count = 0)'
    BY <1>1, <1>6
  <2>4. \A i \in Used : /\ Entry(i)'.session_id # None
                        /\ Entry(i)'.uuid = Entry(i)'.session_id
                        /\ Entry(i)'.crypto_handle # None
    BY <1>8 DEF SessionsAgree, TableExact
  <2>5. \A i, j \in Used : i # j =>
          /\ Entry(i)'.session_id # Entry(j)'.session_id
          /\ Entry(i)'.crypto_handle # Entry(j)'.crypto_handle
    BY <1>8 DEF SessionsAgree, TableExact
  <2> QED
    BY <1>6, <2>1, <2>2, <2>3, <2>4, <2>5 DEF TableExact
<1>12. ClientsExact'
  <2>1. CASE c = None
    BY <1>4, <1>6, <1>7, <1>8, <2>1 DEF SessionsAgree, ClientsExact
  <2>2. CASE c # None
    <3>1. c # fcs_desc.security_handle /\ \A i \in Used : c # Entry(i).crypto_handle
      BY <1>2, <1>8, <2>2, FcsAssumption DEF SessionsAgree, ClientsExact
    <3>2. \A d \in Clients : client'[d].user = "fcs" <=> d = c \/ client[d].user = "fcs"
      BY <1>2, <1>9, <2>2 DEF Ours
    <3> QED
      BY <1>2, <1>6, <1>7, <1>8, <1>9, <2>2, <3>1, <3>2
      DEF SessionsAgree, ClientsExact, Ours
  <2> QED
    BY <2>1, <2>2
<1>13. SdmExact' /\ UuidsExact'
  BY <1>4, <1>6, <1>7, <1>8 DEF SessionsAgree, SdmExact, UuidsExact
<1>14. CallExact'
  <2>1. job'.at = "none" /\ (c # None => Entry(Count)'.crypto_handle = c)
    BY <1>1, <1>3, <1>4, <1>6 DEF map
  <2>2. job'.resp = 0
    BY <1>1, <1>4 DEF SessionsAgree, CallExact
  <2> QED
    BY <1>1, <1>4, <1>6, <1>7, <2>1, <2>2 DEF CallExact, Opening, Closing
<1> QED
  BY <1>10, <1>11, <1>12, <1>13, <1>14 DEF SessionsAgree

(* The call a close begins with.                                           *)
CallRecords ==
  [pc : {"idle", "init", "send", "wait"}, kind : Kinds, task : Tasks \cup {None},
   handle : Clients \cup {None}, session : SessionIds \cup {None}, slot : Slots,
   resp : {0} \cup Errors, left : Int, missing : [Requests -> Int],
   width : {Short, Masked}, silent : BOOLEAN, unset : BOOLEAN]

LEMMA CloseCallType ==
  ASSUME NEW t \in Tasks, NEW h \in Clients, NEW s \in SessionIds
  PROVE  /\ CloseCall(t, h, s) \in CallRecords
         /\ CloseCall(t, h, s).pc = "send"
         /\ CloseCall(t, h, s).kind = "close"
         /\ CloseCall(t, h, s).task = t
         /\ CloseCall(t, h, s).handle = h
         /\ CloseCall(t, h, s).session = s
         /\ CloseCall(t, h, s).resp = 0
<1>1. NoCall \in CallRecords /\ NoCall.resp = 0
  BY NoCallType DEF CallRecords
<1>2. \A r \in CallRecords : [r EXCEPT !.pc = "send"] \in CallRecords
  BY DEF CallRecords
<1>3. \A r \in CallRecords : [r EXCEPT !.kind = "close"] \in CallRecords
  BY DEF CallRecords, Kinds
<1>4. \A r \in CallRecords : [r EXCEPT !.task = t] \in CallRecords
  BY DEF CallRecords
<1>5. \A r \in CallRecords : [r EXCEPT !.handle = h] \in CallRecords
  BY DEF CallRecords
<1>6. \A r \in CallRecords : [r EXCEPT !.session = s] \in CallRecords
  BY DEF CallRecords
<1>7. \A r \in CallRecords :
          [r EXCEPT !.missing = Missing("close")] \in CallRecords
  BY MissingType DEF CallRecords, Requests, Kinds
<1>8. CloseCall(t, h, s) \in CallRecords
  BY ONLY <1>1, <1>2, <1>3, <1>4, <1>5, <1>6, <1>7, Zenon DEF CloseCall
<1> QED
  BY <1>1, <1>8 DEF CallRecords, CloseCall

(* fcs_close_session starts with the session opened last.                  *)
LEMMA CloseStep ==
  ASSUME SessionDiscipline, SessionsAgree, Ordered', NEW t \in Tasks,
         fcs_close_session(t)
  PROVE  SessionsAgree'
<1> DEFINE e == get_client_handle(uuid[t])
           last == Entry(Count - 1)
<1>1. /\ call.kind = "command" /\ job.at = "none" /\ ~sem /\ Idle
      /\ uuid[t] # None /\ uuid[t] = last.uuid
      /\ UNCHANGED <<fcs_desc, uuid, client, mbox, sdm, job, sem>>
  BY IdleCall DEF fcs_close_session, SessionDiscipline, Entry, Count
<1>2. Count > 0 /\ Count - 1 \in Used /\ Count - 1 \in Slots /\ e = last
  <2>1. PICK i \in Used : Entry(i).uuid = uuid[t]
    BY <1>1 DEF SessionsAgree, UuidsExact
  <2>2. Count > 0 /\ Count - 1 \in Used
    BY TableTypes DEF SessionsAgree, Used
  <2> QED
    BY <1>1, <2>2, Lookup DEF SessionsAgree
<1>3. /\ last.crypto_handle \in Clients /\ last.crypto_handle # None
      /\ last.session_id \in SessionIds /\ last.session_id = uuid[t]
  BY <1>1, <1>2, TableTypes DEF SessionsAgree, TableExact
<1>4. call' = CloseCall(t, last.crypto_handle, last.session_id)
  <2>1. e.crypto_handle # None
    BY <1>2, <1>3
  <2> QED
    BY ONLY <1>2, <2>1, fcs_close_session(t) DEF fcs_close_session, CloseCall
<1>5. /\ call' \in CallRecords
      /\ call'.pc = "send" /\ call'.kind = "close" /\ call'.task = t
      /\ call'.handle = last.crypto_handle /\ call'.session = last.session_id
      /\ call'.resp = 0
  <2> HIDE DEF e, last
  <2> QED
    BY ONLY <1>3, <1>4, CloseCallType, t \in Tasks
<1> HIDE DEF e
<1>6. /\ Mine = {} /\ Fresh = {} /\ Gone = {} /\ Mine' = {} /\ Fresh' = {}
      /\ Gone' = {} /\ Used' = Used /\ Count' = Count /\ ~Opening /\ ~Opening'
      /\ Closing' /\ \A i : Entry(i)' = Entry(i)
  BY <1>1, <1>5 DEF Mine, Fresh, Gone, Opening, Closing, Used, Count, Entry
<1>7. SessionTypes'
  BY <1>1, <1>5 DEF SessionsAgree, SessionTypes, CallRecords
<1>8. TableExact' /\ UuidsExact'
  BY <1>1, <1>5, <1>6 DEF SessionsAgree, TableExact, UuidsExact
<1>9. ClientsExact' /\ SdmExact'
  BY <1>1, <1>6 DEF SessionsAgree, ClientsExact, SdmExact
<1>10. CallExact'
  BY <1>1, <1>2, <1>3, <1>5, <1>6 DEF SessionsAgree, CallExact
<1> QED
  BY <1>7, <1>8, <1>9, <1>10 DEF SessionsAgree

(* A command, and a call that is refused at once.                          *)
LEMMA CommandStep ==
  ASSUME SessionsAgree, Ordered', NEW t \in Tasks, LimitReached(t) \/ Command(t)
  PROVE  SessionsAgree'
<1>1. /\ call.kind = "command" /\ job.at = "none" /\ ~sem
      /\ UNCHANGED <<fcs_desc, uuid, client, mbox, sdm, job, sem>>
  BY IdleCall DEF LimitReached, Command
<1>2. CASE call' = NoCall
  BY <1>1, <1>2, PlainReturn
<1>3. ASSUME NEW c \in Commands, NEW h \in Clients \cup {None},
             call' = CommandCall(t, c, h)
      PROVE  SessionsAgree'
  <2>1. call' = [pc |-> IF c.init THEN "init" ELSE "send", kind |-> "command",
                 task |-> t, handle |-> h, session |-> None, slot |-> 0,
                 resp |-> 0, left |-> c.blocks, missing |-> call'.missing,
                 width |-> c.width, silent |-> c.silent, unset |-> c.unset]
    BY <1>3 DEF CommandCall, NoCall
  <2>2. call' \in [pc : {"idle", "init", "send", "wait"}, kind : Kinds,
                   task : Tasks \cup {None}, handle : Clients \cup {None},
                   session : SessionIds \cup {None}, slot : Slots,
                   resp : {0} \cup Errors, left : Int,
                   missing : [Requests -> Int], width : {Short, Masked},
                   silent : BOOLEAN, unset : BOOLEAN]
    <3>1. call'.missing \in [Requests -> Int]
      BY DEF Ordered, Shapes, CallShape
    <3> QED
      BY <1>3, <2>1, <3>1, CommandRecord, NoCallType DEF Kinds, IsCommand
  <2>3. SessionTypes'
    BY <1>1, <2>2 DEF SessionsAgree, SessionTypes
  <2> QED
    BY <1>1, <2>1, <2>3, PlainStep DEF SessionsAgree, CallExact
<1>4. \A u : get_client_handle(u).crypto_handle \in Clients \cup {None}
  BY HandleType DEF SessionsAgree
<1>5. fcs_desc.security_handle \in Clients \cup {None}
  BY DEF SessionsAgree, SessionTypes
<1> QED
  BY <1>2, <1>3, <1>4, <1>5
  DEF LimitReached, Command, CommandCall, ReturnAtOnce

(* A request of the firmware or an answer keeps everything but the call    *)
(* and the request.                                                        *)
LEMMA TypesKept ==
  ASSUME SessionsAgree, UNCHANGED <<fcs_desc, uuid, client>>,
         sdm' \in [SessionIds -> Clients \cup {None}],
         call' \in [pc : {"idle", "init", "send", "wait"}, kind : Kinds,
                    task : Tasks \cup {None}, handle : Clients \cup {None},
                    session : SessionIds \cup {None}, slot : Slots,
                    resp : {0} \cup Errors, left : Int,
                    missing : [Requests -> Int], width : {Short, Masked},
                    silent : BOOLEAN, unset : BOOLEAN],
         job' \in [client : Clients \cup {None}, kind : Kinds,
                   resp : {0} \cup Errors, at : {"none", "sdm", "ready"},
                   session : SessionIds \cup {None}]
  PROVE  /\ SessionTypes' /\ UuidsExact' /\ Used' = Used /\ Count' = Count
         /\ \A i : Entry(i)' = Entry(i)
BY DEF SessionsAgree, SessionTypes, UuidsExact, Used, Count, Entry

LEMMA SentStep ==
  ASSUME SessionsAgree, Ordered', Sent
  PROVE  SessionsAgree'
<1>1. /\ call.pc = "send" /\ job.at = "none"
      /\ UNCHANGED <<fcs_desc, uuid, client, mbox, sdm, sem, done>>
      /\ job' = [client |-> call.handle, kind |-> call.kind, at |-> "sdm",
                 resp |-> 0, session |-> call.session]
      /\ \E r \in {0} \cup Errors : /\ call' = [call EXCEPT !.pc = "wait", !.resp = r]
                                    /\ call.kind # "command" => r = 0
  BY DEF Sent, SessionsAgree, Ordered, Matched
<1>2. /\ call'.pc = "wait" /\ call'.kind = call.kind
      /\ call.kind # "command" => call'.resp = 0
      /\ call'.handle = call.handle /\ call'.session = call.session
      /\ call'.slot = call.slot /\ call'.task = call.task
  BY <1>1 DEF SessionsAgree, SessionTypes
<1>3. /\ Mine' = Mine /\ Fresh' = Fresh /\ Gone' = {} /\ Gone = {}
      /\ Opening' = Opening /\ Closing' = Closing
  BY <1>1, <1>2 DEF Mine, Fresh, Gone, Opening, Closing
<1>4. /\ SessionTypes' /\ UuidsExact' /\ Used' = Used /\ Count' = Count
      /\ \A i : Entry(i)' = Entry(i)
  <2>1. call' \in [pc : {"idle", "init", "send", "wait"}, kind : Kinds,
                   task : Tasks \cup {None}, handle : Clients \cup {None},
                   session : SessionIds \cup {None}, slot : Slots,
                   resp : {0} \cup Errors, left : Int,
                   missing : [Requests -> Int], width : {Short, Masked},
                   silent : BOOLEAN, unset : BOOLEAN]
    <3>1. PICK r \in {0} \cup Errors : call' = [call EXCEPT !.pc = "wait", !.resp = r]
      BY <1>1
    <3> QED
      BY <3>1 DEF SessionsAgree, SessionTypes
  <2>2. job' \in [client : Clients \cup {None}, kind : Kinds,
                  resp : {0} \cup Errors, at : {"none", "sdm", "ready"},
                  session : SessionIds \cup {None}]
    BY <1>1 DEF SessionsAgree, SessionTypes
  <2>3. sdm' \in [SessionIds -> Clients \cup {None}]
    BY <1>1 DEF SessionsAgree, SessionTypes
  <2> QED
    BY <1>1, <2>1, <2>2, <2>3, TypesKept
<1>5. TableExact'
  BY <1>1, <1>2, <1>4 DEF SessionsAgree, TableExact
<1>6. ClientsExact' /\ SdmExact'
  BY <1>1, <1>2, <1>3, <1>4 DEF SessionsAgree, ClientsExact, SdmExact
<1>7. CallExact'
  BY <1>1, <1>2, <1>3, <1>4 DEF SessionsAgree, CallExact
<1> QED
  BY <1>4, <1>5, <1>6, <1>7 DEF SessionsAgree

(* The client that a request of a session goes to is open.                 *)
LEMMA HandleOpen ==
  ASSUME SessionsAgree, call.kind # "command"
  PROVE  call.handle \in Clients /\ client[call.handle].user = "fcs" /\ Sendable
<1>1. call.kind \in Kinds
  BY DEF SessionsAgree, SessionTypes
<1>2. call.handle \in Clients /\ client[call.handle].user = "fcs"
  <2>1. CASE Opening
    BY <2>1
    DEF SessionsAgree, SessionTypes, ClientsExact, Mine
  <2>2. CASE Closing
    <3>1. Count - 1 \in Used /\ Count - 1 \in Slots
      BY <2>2, TableTypes DEF SessionsAgree, CallExact, Used
    <3> QED
      BY <2>2, <3>1, TableTypes
      DEF SessionsAgree, CallExact, TableExact, ClientsExact
  <2> QED
    BY <1>1, <2>1, <2>2 DEF Opening, Closing, Kinds
<1> QED
  BY <1>2, FcsAssumption DEF Sendable

(* A session that could not be asked for leaves no client open; a close    *)
(* that could not be sent leaves the session as it was.                    *)
LEMMA SendFailedStep ==
  ASSUME SessionDiscipline, SessionsAgree, Ordered', SendFailed
  PROVE  SessionsAgree'
<1>1. /\ call.pc = "send" /\ job.at = "none" /\ job.resp = 0
      /\ UNCHANGED <<mbox, sdm, job, sem>>
  BY DEF SendFailed, SessionsAgree, Ordered, Matched, CallExact
<1>2. call.kind # "uuid"
  BY HandleOpen DEF SendFailed, MayFail, SessionDiscipline
<1>3. /\ UNCHANGED <<fcs_desc, uuid>> /\ call' = NoCall
      /\ client' = IF call.kind = "open"
                   THEN mbox_close_client(call.handle) ELSE client
  BY <1>2 DEF SendFailed, Return
<1>4. CASE call.kind = "command"
  BY <1>1, <1>3, <1>4, PlainReturn
<1>5. ASSUME call.kind # "command"
      PROVE  SessionsAgree'
  <2>1. /\ Fresh = {} /\ Gone = {} /\ Mine' = {} /\ Fresh' = {} /\ Gone' = {}
        /\ ~Opening' /\ ~Closing' /\ Count' = Count /\ Used' = Used
        /\ \A i : Entry(i)' = Entry(i)
    BY <1>1, <1>2, <1>3, NoCallType
    DEF Fresh, Gone, Mine, Opening, Closing, Used, Count, Entry
  <2>2. TableExact' /\ UuidsExact' /\ SdmExact'
    BY <1>1, <1>2, <1>3, <2>1 DEF SessionsAgree, TableExact, UuidsExact, SdmExact
  <2>3. CallExact'
    BY <1>1, <1>3, NoCallType DEF CallExact, Opening, Closing
  <2>4. CASE call.kind = "open"
    <3>1. call.handle \in Clients /\ client' = [client EXCEPT ![call.handle].user = None]
      BY <1>3, <1>5, <2>4, HandleOpen DEF mbox_close_client
    <3>2. SessionTypes'
      <4>1. client' \in [Clients -> [user : {None, "fcs", "other"},
                                     callback : {None, "fcs", "other"}]]
        <5>1. client \in [Clients -> [user : {None, "fcs", "other"},
                                      callback : {None, "fcs", "other"}]]
          BY DEF SessionsAgree, SessionTypes
        <5>2. \A d \in Clients :
                [client[d] EXCEPT !.user = None]
                  \in [user : {None, "fcs", "other"},
                       callback : {None, "fcs", "other"}]
          BY ONLY <5>1
        <5> QED
          BY ONLY <3>1, <5>1, <5>2
      <4> QED
        BY <1>1, <1>3, <4>1, NoCallType DEF SessionsAgree, SessionTypes
    <3>3. Opening /\ Mine = {call.handle}
      BY <2>4 DEF Opening, Mine
    <3>4. \A d \in Clients :
            /\ d = call.handle => client'[d].user # "fcs"
            /\ d # call.handle => client'[d] = client[d]
      BY <3>1, FcsAssumption DEF SessionsAgree, SessionTypes
    <3>5. \A i \in Used : Entry(i).crypto_handle \in Clients
                            /\ Entry(i).crypto_handle # call.handle
      BY <3>3, TableTypes DEF SessionsAgree, ClientsExact, TableExact
    <3>6. ClientsExact'
      BY <1>3, <2>1, <3>1, <3>3, <3>4, <3>5 DEF SessionsAgree, ClientsExact
    <3> QED
      BY <2>2, <2>3, <3>2, <3>6 DEF SessionsAgree
  <2>5. CASE call.kind # "open"
    <3>1. SessionTypes'
      BY <1>1, <1>3, <2>5, NoCallType DEF SessionsAgree, SessionTypes
    <3>2. ClientsExact'
      BY <1>2, <1>3, <2>1, <2>5 DEF SessionsAgree, ClientsExact, Opening, Mine
    <3> QED
      BY <2>2, <2>3, <3>1, <3>2 DEF SessionsAgree
  <2> QED
    BY <2>4, <2>5
<1> QED
  BY <1>4, <1>5

(* The INIT request of a command.                                          *)
LEMMA InitRequestStep ==
  ASSUME SessionsAgree, Ordered', InitSent \/ InitFailed
  PROVE  SessionsAgree'
<1>1. /\ call.pc = "init" /\ job.at = "none" /\ call.kind = "command"
      /\ UNCHANGED <<fcs_desc, uuid, client, mbox, sdm, job, sem>>
  BY DEF InitSent, InitFailed, SessionsAgree, Ordered, Matched
<1>2. CASE call' = NoCall
  BY <1>1, <1>2, PlainReturn
<1>3. CASE call' = [call EXCEPT !.pc = "send", !.missing = Taken("init")]
  <2>2. Taken("init") \in [Requests -> Int]
    BY TakenType DEF SessionsAgree, Ordered, Requests
  <2>1. call'.kind = "command" /\ SessionTypes'
    BY <1>1, <1>3, <2>2 DEF SessionsAgree, SessionTypes
  <2> QED
    BY <1>1, <2>1, PlainStep DEF SessionsAgree, CallExact
<1> QED
  BY <1>2, <1>3 DEF InitSent, InitFailed, Return

-----------------------------------------------------------------------------
(* The SDM has a session left for the one that is being opened.            *)
LEMMA SessionLeft ==
  ASSUME SessionDiscipline, SessionsAgree, call.kind = "open", job.at = "sdm"
  PROVE  \E s \in SessionIds : sdm[s] = None
<1> SUFFICES ASSUME \A s \in SessionIds : sdm[s] # None PROVE FALSE
  OBVIOUS
<1>1. Fresh = {}
  BY DEF Fresh
<1>2. \A s \in SessionIds : \E i \in Used : s = Entry(i).session_id
  BY <1>1 DEF SessionsAgree, SdmExact
<1> DEFINE f == [s \in SessionIds |-> CHOOSE i \in Used : s = Entry(i).session_id]
<1>3. f \in [SessionIds -> Used] /\ \A s \in SessionIds : s = Entry(f[s]).session_id
  BY <1>2
<1>4. Count \in Nat /\ Count < Instances /\ Instances \in Nat
  BY TableTypes DEF SessionsAgree, CallExact, Opening
<1>5. IsFiniteSet(Used) /\ Cardinality(Used) = Count
  BY <1>4, FS_Interval DEF Used
<1>6. Cardinality(SessionIds) \in Nat /\ Cardinality(Used) < Cardinality(SessionIds)
  BY <1>4, <1>5, FS_CardinalityType DEF SessionDiscipline
<1> HIDE DEF f
<1>7. \E x, y \in SessionIds : x # y /\ f[x] = f[y]
  BY <1>3, <1>5, <1>6, FS_PigeonHole DEF SessionDiscipline
<1> QED
  BY <1>3, <1>7

(* The SDM's answer: a session opened or closed, or neither.               *)
LEMMA FirmwareStep ==
  ASSUME SessionDiscipline, SessionsAgree, Ordered', Firmware
  PROVE  SessionsAgree'
<1>1. /\ call.pc = "wait" /\ ~sem /\ job.kind = call.kind /\ job.resp = 0
      /\ job.at = "sdm" /\ job.client = call.handle /\ job.session = call.session
      /\ UNCHANGED <<fcs_desc, uuid, client, mbox, sem, done>>
  BY DEF Firmware, SessionsAgree, Ordered, Matched, CallExact
<1> DEFINE CallType ==
             [pc : {"idle", "init", "send", "wait"}, kind : Kinds,
              task : Tasks \cup {None}, handle : Clients \cup {None},
              session : SessionIds \cup {None}, slot : Slots,
              resp : {0} \cup Errors, left : Int,
              missing : [Requests -> Int], width : {Short, Masked},
              silent : BOOLEAN, unset : BOOLEAN]
           JobType ==
             [client : Clients \cup {None}, kind : Kinds,
              resp : {0} \cup Errors, at : {"none", "sdm", "ready"},
              session : SessionIds \cup {None}]
<1>2. /\ call \in CallType /\ job \in JobType
      /\ sdm \in [SessionIds -> Clients \cup {None}]
      /\ Taken(job.kind) \in [Requests -> Int]
  BY TakenType DEF SessionsAgree, SessionTypes, Ordered, Requests
<1>3. CASE job.kind = "open" /\ job'.resp = 0
  <2>1. PICK s \in SessionIds :
          /\ sdm[s] = None /\ sdm' = [sdm EXCEPT ![s] = job.client]
          /\ job' = [job EXCEPT !.at = "ready", !.session = s]
          /\ call' = [call EXCEPT !.missing = Taken(job.kind)]
    <3>1. \E s \in SessionIds : sdm[s] = None
      BY <1>1, <1>3, SessionLeft
    <3>2. ~(job.kind \in Rejected)
      BY <1>3 DEF SessionDiscipline
    <3> QED
      BY <1>3, <3>1, <3>2 DEF Firmware
  <2>2. /\ call' \in CallType /\ job' \in JobType
        /\ call'.pc = "wait" /\ call'.kind = "open" /\ call'.handle = call.handle
        /\ call'.slot = call.slot /\ call'.task = call.task /\ call'.resp = call.resp
        /\ call'.session = call.session
        /\ job'.at = "ready" /\ job'.session = s /\ job'.client = job.client
        /\ job'.resp = 0 /\ s # None /\ job.client \in Clients
    <3>1. call.handle \in Clients
      BY <1>1, <1>3, HandleOpen
    <3>2. job' \in JobType
      BY <1>2, <2>1
    <3>3. /\ job'.at = "ready" /\ job'.session = s /\ job'.client = job.client
          /\ job'.resp = job.resp
      BY <1>2, <2>1
    <3>4. call' \in CallType
      BY <1>2, <2>1
    <3>5. /\ call'.pc = call.pc /\ call'.kind = call.kind /\ call'.handle = call.handle
          /\ call'.slot = call.slot /\ call'.task = call.task
          /\ call'.resp = call.resp /\ call'.session = call.session
      BY <1>2, <2>1
    <3> HIDE DEF CallType, JobType
    <3> QED
      BY <1>1, <1>3, <3>1, <3>2, <3>3, <3>4, <3>5, FcsAssumption
  <2>3. /\ Opening /\ Opening' /\ ~Closing /\ ~Closing' /\ Mine' = Mine
        /\ Fresh = {} /\ Fresh' = {s} /\ Gone = {} /\ Gone' = {}
    BY <1>1, <1>3, <2>2 DEF Opening, Closing, Mine, Fresh, Gone
  <2>4. sdm' \in [SessionIds -> Clients \cup {None}]
    BY <1>2, <2>1, <2>2
  <2> HIDE DEF CallType, JobType
  <2>5. /\ SessionTypes' /\ UuidsExact' /\ Used' = Used /\ Count' = Count
        /\ \A i : Entry(i)' = Entry(i)
    BY <1>1, <2>2, <2>4, TypesKept DEF CallType, JobType
  <2>6. TableExact'
    BY <1>1, <1>3, <2>2, <2>5 DEF SessionsAgree, TableExact
  <2>7. ClientsExact'
    BY <1>1, <2>2, <2>3, <2>5 DEF SessionsAgree, ClientsExact
  <2>8. SdmExact'
    <3>1. \A i \in Used : /\ Entry(i).session_id \in SessionIds
                          /\ Entry(i).session_id # s
                          /\ sdm[Entry(i).session_id] = Entry(i).crypto_handle
      BY <2>1, <2>3, TableTypes DEF SessionsAgree, SdmExact, TableExact
    <3> QED
      BY <1>1, <1>2, <2>1, <2>2, <2>3, <2>5, <3>1 DEF SessionsAgree, SdmExact
  <2>9. CallExact'
    BY <1>1, <1>3, <2>2, <2>3, <2>5 DEF SessionsAgree, CallExact
  <2> QED
    BY <2>5, <2>6, <2>7, <2>8, <2>9 DEF SessionsAgree
<1>4. CASE job.kind = "close" /\ job'.resp = 0
  <2>1. /\ sdm' = [sdm EXCEPT ![call.session] = None]
        /\ job' = [job EXCEPT !.at = "ready"]
        /\ call' = [call EXCEPT !.missing = Taken(job.kind)]
    BY <1>1, <1>4 DEF Firmware, SessionDiscipline
  <2>2. /\ call' \in CallType /\ job' \in JobType
        /\ call'.pc = "wait" /\ call'.kind = "close" /\ call'.handle = call.handle
        /\ call'.slot = call.slot /\ call'.task = call.task /\ call'.resp = call.resp
        /\ call'.session = call.session
        /\ job'.at = "ready" /\ job'.session = job.session /\ job'.client = job.client
        /\ job'.resp = 0
    <3>1. job' \in JobType
      BY <1>2, <2>1
    <3>2. call' \in CallType
      BY <1>2, <2>1
    <3>3. /\ job'.at = "ready" /\ job'.session = job.session
          /\ job'.client = job.client
      BY <1>2, <2>1
    <3>4. /\ call'.pc = call.pc /\ call'.kind = call.kind /\ call'.handle = call.handle
          /\ call'.slot = call.slot /\ call'.task = call.task
          /\ call'.resp = call.resp /\ call'.session = call.session
      BY <1>2, <2>1
    <3> HIDE DEF CallType, JobType
    <3> QED
      BY <1>1, <1>4, <3>1, <3>2, <3>3, <3>4
  <2>3. /\ ~Opening /\ ~Opening' /\ Closing /\ Closing' /\ Mine' = {} /\ Mine = {}
        /\ Fresh = {} /\ Fresh' = {} /\ Gone = {} /\ Gone' = {call.session}
    BY <1>1, <1>4, <2>2 DEF Opening, Closing, Mine, Fresh, Gone
  <2>4. sdm' \in [SessionIds -> Clients \cup {None}]
    BY <1>2, <2>1
  <2> HIDE DEF CallType, JobType
  <2>5. /\ SessionTypes' /\ UuidsExact' /\ Used' = Used /\ Count' = Count
        /\ \A i : Entry(i)' = Entry(i)
    BY <1>1, <2>2, <2>4, TypesKept DEF CallType, JobType
  <2>6. TableExact'
    BY <1>1, <1>4, <2>2, <2>5 DEF SessionsAgree, TableExact
  <2>7. ClientsExact'
    BY <1>1, <2>2, <2>3, <2>5 DEF SessionsAgree, ClientsExact
  <2>8. SdmExact'
    <3>1. \A i \in Used : Entry(i).session_id \in SessionIds
      BY TableTypes DEF SessionsAgree, TableExact
    <3> QED
      BY <1>1, <1>2, <2>1, <2>2, <2>3, <2>5, <3>1 DEF SessionsAgree, SdmExact
  <2>9. CallExact'
    BY <1>1, <1>4, <2>2, <2>3, <2>5 DEF SessionsAgree, CallExact
  <2> QED
    BY <2>5, <2>6, <2>7, <2>8, <2>9 DEF SessionsAgree
<1>5. CASE job.kind = "uuid" /\ job'.resp = 0
  <2>1. /\ sdm' = sdm /\ job' = [job EXCEPT !.at = "ready"]
        /\ call' = [call EXCEPT !.missing = Taken(job.kind)]
    BY <1>1, <1>5 DEF Firmware, SessionDiscipline
  <2>2. /\ job' \in JobType /\ job'.at = "ready" /\ job'.session = job.session
        /\ job'.client = job.client /\ job'.resp = job.resp
    BY <1>2, <2>1
  <2>4. /\ call' \in CallType /\ call'.pc = call.pc /\ call'.kind = call.kind
        /\ call'.handle = call.handle /\ call'.slot = call.slot
        /\ call'.task = call.task /\ call'.resp = call.resp
        /\ call'.session = call.session
    BY <1>2, <2>1
  <2>3. /\ Mine' = Mine /\ Fresh = {call.session} /\ Fresh' = {call.session}
        /\ Gone = {} /\ Gone' = {} /\ Opening' = Opening /\ Closing' = Closing
    BY <1>1, <1>5, <2>1, <2>2, <2>4 DEF Opening, Closing, Mine, Fresh, Gone
  <2> HIDE DEF CallType, JobType
  <2>5. /\ SessionTypes' /\ UuidsExact' /\ Used' = Used /\ Count' = Count
        /\ \A i : Entry(i)' = Entry(i)
    BY <1>1, <1>2, <2>1, <2>2, <2>4, TypesKept DEF CallType, JobType
  <2>6. TableExact' /\ ClientsExact' /\ SdmExact'
    BY <1>1, <2>1, <2>3, <2>4, <2>5 DEF SessionsAgree, TableExact, ClientsExact, SdmExact
  <2>7. CallExact'
    BY <1>1, <1>5, <2>1, <2>2, <2>3, <2>4, <2>5 DEF SessionsAgree, CallExact
  <2> QED
    BY <2>5, <2>6, <2>7 DEF SessionsAgree
<1>6. CASE job.kind = "command"
  <2>1. /\ sdm' = sdm
        /\ call' = call \/ call' = [call EXCEPT !.missing = Taken(job.kind)]
        /\ \/ job' = [job EXCEPT !.at = "ready"]
           \/ \E e \in Errors : job' = [job EXCEPT !.at = "ready", !.resp = e]
    BY <1>6 DEF Firmware
  <2>2. /\ call' \in CallType /\ job' \in JobType /\ job'.at = "ready"
        /\ call'.kind = "command" /\ call'.handle = call.handle
        /\ call'.session = call.session
        /\ job'.session = job.session /\ job'.client = job.client
    <3>1. job' \in JobType
      <4>1. CASE job' = [job EXCEPT !.at = "ready"]
        BY <1>2, <4>1
      <4>2. CASE \E e \in Errors : job' = [job EXCEPT !.at = "ready", !.resp = e]
        BY <1>2, <4>2
      <4> QED
        BY <2>1, <4>1, <4>2
    <3>2. call' \in CallType
      BY <1>2, <2>1
    <3>3. /\ job'.at = "ready" /\ job'.session = job.session
          /\ job'.client = job.client
      BY <1>2, <2>1
    <3>4. /\ call'.kind = call.kind /\ call'.handle = call.handle
          /\ call'.session = call.session
      BY <1>2, <2>1
    <3> HIDE DEF CallType, JobType
    <3> QED
      BY <1>1, <1>6, <3>1, <3>2, <3>3, <3>4
  <2> HIDE DEF CallType, JobType
  <2>3. SessionTypes'
    BY <1>1, <1>2, <2>1, <2>2, TypesKept DEF CallType, JobType
  <2> QED
    BY <1>1, <1>6, <2>1, <2>2, <2>3, PlainStep
<1> HIDE DEF CallType, JobType
<1>7. job.kind \in Kinds
  BY <1>2 DEF JobType
<1>8. job'.resp = 0 \/ job.kind = "command"
  <2>1. CASE job'.resp = job.resp
    BY <1>1, <2>1
  <2>2. CASE job.kind \in Rejected \/ (job.kind = "open" /\ \A s \in SessionIds : sdm[s] # None)
    BY <1>1, <2>2, SessionLeft DEF SessionDiscipline
  <2> QED
    BY <1>2, <2>1, <2>2 DEF Firmware, JobType
<1> QED
  BY <1>3, <1>4, <1>5, <1>6, <1>7, <1>8 DEF Kinds

(* The poll task hands the answer over.                                    *)
LEMMA DeliverStep ==
  ASSUME SessionsAgree, Ordered', Deliver
  PROVE  SessionsAgree'
<1>1. /\ call.pc = "wait" /\ ~sem /\ job.kind = call.kind /\ job.at = "ready"
      /\ job.client = call.handle
      /\ call' = [call EXCEPT !.resp = job.resp, !.session = job.session]
      /\ job' = NoJob /\ UNCHANGED <<fcs_desc, uuid, client, mbox, sdm, done>>
  BY DEF Deliver, SessionsAgree, Ordered, Matched, CallExact
<1> DEFINE CallType ==
             [pc : {"idle", "init", "send", "wait"}, kind : Kinds,
              task : Tasks \cup {None}, handle : Clients \cup {None},
              session : SessionIds \cup {None}, slot : Slots,
              resp : {0} \cup Errors, left : Int,
              missing : [Requests -> Int], width : {Short, Masked},
              silent : BOOLEAN, unset : BOOLEAN]
<1>2. call \in CallType /\ job.resp \in {0} \cup Errors /\ job.session \in SessionIds \cup {None}
  BY DEF SessionsAgree, SessionTypes
<1>3. call' \in CallType
  BY <1>1, <1>2
<1>4. /\ call'.pc = "wait" /\ call'.kind = call.kind /\ call'.handle = call.handle
      /\ call'.slot = call.slot /\ call'.task = call.task
      /\ call'.resp = job.resp /\ call'.session = job.session
  BY <1>1, <1>2
<1> HIDE DEF CallType
<1>5. NoJob \in [client : Clients \cup {None}, kind : Kinds,
                 resp : {0} \cup Errors, at : {"none", "sdm", "ready"},
                 session : SessionIds \cup {None}]
      /\ NoJob.at = "none" /\ NoJob.resp = 0
  BY DEF NoJob, Kinds
<1>6. /\ SessionTypes' /\ UuidsExact' /\ Used' = Used /\ Count' = Count
      /\ \A i : Entry(i)' = Entry(i)
  <2>1. sdm' \in [SessionIds -> Clients \cup {None}]
    BY <1>1 DEF SessionsAgree, SessionTypes
  <2> QED
    BY <1>1, <1>3, <1>5, <2>1, TypesKept DEF CallType
<1>7. /\ Mine' = Mine /\ Fresh' = Fresh /\ Gone' = Gone
      /\ Opening' = Opening /\ Closing' = Closing
  BY <1>1, <1>4, <1>5
  DEF Mine, Fresh, Gone, Opening, Closing, SessionsAgree, CallExact
<1>8. TableExact' /\ ClientsExact' /\ SdmExact'
  BY <1>1, <1>4, <1>6, <1>7
  DEF SessionsAgree, TableExact, ClientsExact, SdmExact
<1>9. CallExact'
  <2>1. call.kind # "command" => call'.resp = 0 /\ (call.kind # "open" => call'.session = call.session)
    BY <1>1, <1>4 DEF SessionsAgree, CallExact
  <2> QED
    BY <1>1, <1>4, <1>5, <1>6, <1>7, <2>1
    DEF SessionsAgree, CallExact, Opening, Closing
<1> QED
  BY <1>6, <1>8, <1>9 DEF SessionsAgree

(* The session has its id: its uuid is asked for next.                     *)
LEMMA OpenAnsweredStep ==
  ASSUME SessionDiscipline, SessionsAgree, Ordered', Waited, call.kind = "open"
  PROVE  SessionsAgree'
<1>1. /\ call.pc = "wait" /\ sem /\ job.at = "none" /\ call.resp = 0
      /\ call' = [call EXCEPT !.pc = "send", !.kind = "uuid",
                              !.missing = Missing("uuid")]
      /\ fcs_desc' = [fcs_desc EXCEPT
                        !.session_map[call.slot].session_id = call.session]
      /\ UNCHANGED <<uuid, client, mbox, sdm, job>>
  BY DEF Waited, OpenAnswered, SessionsAgree, Ordered, Matched, CallExact
<1>2. /\ Opening /\ Fresh = {call.session} /\ Gone = {}
      /\ call.slot = Count /\ Count \in Slots /\ Count < Instances /\ Count \notin Used
      /\ call.session \in SessionIds /\ call.session # None
  <2>1. Opening /\ Fresh = {call.session} /\ Gone = {}
    BY <1>1 DEF Opening, Closing, Fresh, Gone
  <2>2. call.session # None /\ call.session \in SessionIds \cup {None}
    BY <2>1 DEF SessionsAgree, SdmExact, SessionTypes
  <2> QED
    BY <2>1, <2>2, TableTypes DEF SessionsAgree, CallExact, Used
<1> DEFINE CallType ==
             [pc : {"idle", "init", "send", "wait"}, kind : Kinds,
              task : Tasks \cup {None}, handle : Clients \cup {None},
              session : SessionIds \cup {None}, slot : Slots,
              resp : {0} \cup Errors, left : Int,
              missing : [Requests -> Int], width : {Short, Masked},
              silent : BOOLEAN, unset : BOOLEAN]
           EntryType == [uuid : Uuids, session_id : SessionIds \cup {None},
                         crypto_handle : Clients \cup {None}]
           map == [fcs_desc.session_map EXCEPT
                     ![Count] = [Entry(Count) EXCEPT !.session_id = call.session]]
<1>3. call \in CallType /\ \A i \in Slots : Entry(i) \in EntryType
  BY DEF SessionsAgree, SessionTypes, Entry
<1>4. call' \in CallType
  <2>1. Missing("uuid") \in [Requests -> Int]
    BY MissingType DEF Requests, Kinds
  <2> QED
    BY <1>1, <1>3, <2>1 DEF Kinds
<1>5. /\ call'.pc = "send" /\ call'.kind = "uuid" /\ call'.handle = call.handle
      /\ call'.slot = call.slot /\ call'.task = call.task
      /\ call'.resp = call.resp /\ call'.session = call.session
  BY <1>1, <1>3
<1>6. fcs_desc' = [fcs_desc EXCEPT !.session_map = map]
  BY <1>1, <1>2 DEF SessionsAgree, SessionTypes, Entry
<1>7. map \in [Slots -> EntryType]
  <2>1. [Entry(Count) EXCEPT !.session_id = call.session] \in EntryType
    BY <1>2, <1>3
  <2>2. fcs_desc.session_map \in [Slots -> EntryType]
    BY DEF SessionsAgree, SessionTypes
  <2> HIDE DEF EntryType
  <2> QED
    BY <2>1, <2>2
<1>8. /\ Count' = Count /\ Used' = Used /\ fcs_desc'.is_init = fcs_desc.is_init
      /\ fcs_desc'.security_handle = fcs_desc.security_handle
      /\ \A i \in Slots : Entry(i)' = map[i]
  BY <1>6 DEF SessionsAgree, SessionTypes, Count, Used, Entry
<1>9. /\ \A i \in Slots : i # Count => Entry(i)' = Entry(i)
      /\ Entry(Count)'.session_id = call.session
      /\ Entry(Count)'.uuid = Entry(Count).uuid
      /\ Entry(Count)'.crypto_handle = Entry(Count).crypto_handle
  <2>1. map[Count] = [Entry(Count) EXCEPT !.session_id = call.session]
        /\ \A i \in Slots : i # Count => map[i] = Entry(i)
    BY <1>2 DEF SessionsAgree, SessionTypes, Entry
  <2> QED
    BY <1>2, <1>3, <1>8, <2>1
<1>10. SessionTypes'
  BY <1>1, <1>4, <1>6, <1>7 DEF SessionsAgree, SessionTypes
<1> HIDE DEF CallType, EntryType, map
<1>11. \A i \in Used : i \in Slots /\ i # Count /\ Entry(i)' = Entry(i)
  BY <1>2, <1>9, TableTypes DEF SessionsAgree
<1>12. /\ Mine' = Mine /\ Fresh' = Fresh /\ Gone' = {} /\ Opening' /\ ~Closing'
  BY <1>1, <1>2, <1>5 DEF Mine, Fresh, Gone, Opening, Closing
<1>13. TableExact'
  <2>1. \A i \in Slots \ Used :
          /\ Entry(i)'.uuid = None
          /\ Entry(i)'.session_id # None => i = Count
    <3>1. \A i \in Slots \ Used : Entry(i).uuid = None /\ Entry(i).session_id = None
      BY DEF SessionsAgree, TableExact
    <3>2. ASSUME NEW i \in Slots PROVE Entry(i)'.uuid = Entry(i).uuid
      <4>1. CASE i = Count
        BY <1>8, <1>9, <4>1
      <4>2. CASE i # Count
        BY <1>9, <4>2
      <4> QED
        BY <4>1, <4>2
    <3>3. ASSUME NEW i \in Slots \ Used, i # Count
          PROVE  Entry(i)'.session_id = None
      BY <1>9, <3>1, <3>3
    <3> QED
      BY <3>1, <3>2, <3>3
  <2>2. \A i \in Used : /\ Entry(i)'.session_id # None
                        /\ Entry(i)'.uuid = Entry(i)'.session_id
                        /\ Entry(i)'.crypto_handle # None
    BY <1>11 DEF SessionsAgree, TableExact
  <2>3. \A i, j \in Used : i # j =>
          /\ Entry(i)'.session_id # Entry(j)'.session_id
          /\ Entry(i)'.crypto_handle # Entry(j)'.crypto_handle
    BY <1>11 DEF SessionsAgree, TableExact
  <2>4. (fcs_desc.is_init = (fcs_desc.security_handle # None))'
    BY <1>8 DEF SessionsAgree, TableExact
  <2>5. (~fcs_desc.is_init => Count = 0)'
    BY <1>8 DEF SessionsAgree, TableExact
  <2> QED
    BY <1>5, <1>8, <2>1, <2>2, <2>3, <2>4, <2>5 DEF TableExact
<1>14. ClientsExact'
  BY <1>1, <1>2, <1>5, <1>8, <1>11, <1>12 DEF SessionsAgree, ClientsExact
<1>15. SdmExact' /\ UuidsExact'
  BY <1>1, <1>2, <1>5, <1>8, <1>11, <1>12 DEF SessionsAgree, SdmExact, UuidsExact
<1>16. CallExact'
  BY <1>1, <1>2, <1>5, <1>8, <1>9, <1>12 DEF SessionsAgree, CallExact
<1> QED
  BY <1>10, <1>13, <1>14, <1>15, <1>16 DEF SessionsAgree

(* The session is complete: it gets its uuid, and the task has it.         *)
LEMMA UuidStep ==
  ASSUME SessionDiscipline, SessionsAgree, Ordered', Waited, call.kind = "uuid"
  PROVE  SessionsAgree'
<1>1. /\ call.pc = "wait" /\ sem /\ job.at = "none" /\ job.resp = 0
      /\ call.resp = 0
      /\ call' = NoCall
      /\ fcs_desc' = [fcs_desc EXCEPT !.session_map[call.slot].uuid = call.session,
                                      !.session_count = @ + 1]
      /\ uuid' = [uuid EXCEPT ![call.task] = call.session]
      /\ UNCHANGED <<client, mbox, sdm, job>>
  BY DEF Waited, generate_uuid, Return, SessionsAgree, Ordered, Matched, CallExact
<1>2. /\ Opening /\ Fresh = {call.session} /\ Gone = {} /\ Mine = {call.handle}
      /\ call.slot = Count /\ Count \in Slots /\ Count < Instances /\ Count \notin Used
      /\ call.session \in SessionIds /\ call.session # None
      /\ call.task \in Tasks /\ uuid[call.task] = None
      /\ call.handle = Entry(Count).crypto_handle
      /\ call.session = Entry(Count).session_id
      /\ call.handle # None /\ call.handle \in Clients
  <2>1. Opening /\ Fresh = {call.session} /\ Gone = {} /\ Mine = {call.handle}
    BY <1>1 DEF Opening, Closing, Fresh, Gone, Mine
  <2>2. call.session # None /\ call.session \in SessionIds \cup {None}
    BY <2>1 DEF SessionsAgree, SdmExact, SessionTypes
  <2> QED
    BY <2>1, <2>2, TableTypes, HandleOpen
    DEF SessionsAgree, CallExact, ClientsExact, Used
<1> DEFINE EntryType == [uuid : Uuids, session_id : SessionIds \cup {None},
                         crypto_handle : Clients \cup {None}]
           map == [fcs_desc.session_map EXCEPT
                     ![Count] = [Entry(Count) EXCEPT !.uuid = call.session]]
<1>3. \A i \in Slots : Entry(i) \in EntryType
  BY DEF SessionsAgree, SessionTypes, Entry
<1>4. fcs_desc' = [fcs_desc EXCEPT !.session_map = map, !.session_count = Count + 1]
  BY <1>1, <1>2 DEF SessionsAgree, SessionTypes, Entry, Count
<1>5. map \in [Slots -> EntryType]
  <2>1. [Entry(Count) EXCEPT !.uuid = call.session] \in EntryType
    BY <1>2, <1>3 DEF Uuids
  <2>2. fcs_desc.session_map \in [Slots -> EntryType]
    BY DEF SessionsAgree, SessionTypes
  <2> HIDE DEF EntryType
  <2> QED
    BY <2>1, <2>2
<1>6. /\ Count' = Count + 1 /\ fcs_desc'.is_init = fcs_desc.is_init
      /\ fcs_desc'.security_handle = fcs_desc.security_handle
      /\ \A i \in Slots : Entry(i)' = map[i]
  BY <1>4 DEF SessionsAgree, SessionTypes, Count, Entry
<1>7. /\ \A i \in Slots : i # Count => Entry(i)' = Entry(i)
      /\ \A i \in Slots : i = Count =>
           /\ Entry(i)'.session_id = call.session
           /\ Entry(i)'.uuid = call.session
           /\ Entry(i)'.crypto_handle = call.handle
  <2>1. map[Count] = [Entry(Count) EXCEPT !.uuid = call.session]
        /\ \A i \in Slots : i # Count => map[i] = Entry(i)
    BY <1>2 DEF SessionsAgree, SessionTypes, Entry
  <2>2. \A i \in Slots : Entry(i)' = IF i # Count THEN Entry(i)
                          ELSE [Entry(Count) EXCEPT !.uuid = call.session]
    BY <1>2, <1>6, <2>1
  <2>3. Entry(Count) \in EntryType
    BY <1>2, <1>3
  <2>4. /\ [Entry(Count) EXCEPT !.uuid = call.session].session_id = call.session
        /\ [Entry(Count) EXCEPT !.uuid = call.session].uuid = call.session
        /\ [Entry(Count) EXCEPT !.uuid = call.session].crypto_handle = call.handle
    BY <1>2, <2>3
  <2> HIDE DEF map, EntryType
  <2> QED
    BY <2>2, <2>4
<1>8. SessionTypes'
  <2>1. fcs_desc' \in
          [is_init : BOOLEAN, security_handle : Clients \cup {None},
           session_count : 0 .. Instances, session_map : [Slots -> EntryType]]
    <3>1. Count + 1 \in 0 .. Instances
      BY <1>2, TableTypes DEF SessionsAgree
    <3> HIDE DEF map
    <3> QED
      BY <1>4, <1>5, <3>1 DEF SessionsAgree, SessionTypes
  <2>2. uuid' \in [Tasks -> Uuids]
    BY <1>1, <1>2 DEF SessionsAgree, SessionTypes, Uuids
  <2> QED
    BY <1>1, <2>1, <2>2, NoCallType DEF SessionsAgree, SessionTypes
<1> HIDE DEF EntryType, map
<1>9. /\ \A i \in Used : i \in Slots /\ i # Count /\ Entry(i)' = Entry(i)
      /\ Used' = Used \cup {Count}
  <2>1. Used' = Used \cup {Count}
    BY <1>6, TableTypes DEF SessionsAgree, Used
  <2> QED
    BY <1>2, <1>7, <2>1, TableTypes DEF SessionsAgree
<1>10. /\ Mine' = {} /\ Fresh' = {} /\ Gone' = {} /\ ~Opening' /\ ~Closing'
  BY <1>1, NoCallType DEF Mine, Fresh, Gone, Opening, Closing
<1>11. /\ \A i \in Used : /\ Entry(i).session_id # call.session
                          /\ Entry(i).crypto_handle # call.handle
                          /\ Entry(i).uuid # call.session
  BY <1>2 DEF SessionsAgree, SdmExact, ClientsExact, TableExact
<1>12. TableExact'
  <2>1. \A i \in Slots \ Used' :
          Entry(i)'.uuid = None /\ Entry(i)'.session_id = None
    BY <1>7, <1>9 DEF SessionsAgree, TableExact
  <2>2. ASSUME NEW i \in Used'
        PROVE  /\ Entry(i)'.session_id # None
               /\ Entry(i)'.uuid = Entry(i)'.session_id
               /\ Entry(i)'.crypto_handle # None
    <3>1. CASE i = Count
      BY <1>2, <1>7, <3>1
    <3>2. CASE i \in Used
      BY <1>9, <3>2 DEF SessionsAgree, TableExact
    <3> QED
      BY <1>9, <3>1, <3>2
  <2>3. ASSUME NEW i \in Used', NEW j \in Used', i # j
        PROVE  /\ Entry(i)'.session_id # Entry(j)'.session_id
               /\ Entry(i)'.crypto_handle # Entry(j)'.crypto_handle
    <3>1. CASE i = Count /\ j \in Used
      BY <1>2, <1>7, <1>9, <1>11, <3>1
    <3>2. CASE j = Count /\ i \in Used
      BY <1>2, <1>7, <1>9, <1>11, <3>2
    <3>3. CASE i \in Used /\ j \in Used
      BY <1>9, <2>3, <3>3 DEF SessionsAgree, TableExact
    <3> QED
      BY <1>9, <2>3, <3>1, <3>2, <3>3
  <2>4. (fcs_desc.is_init = (fcs_desc.security_handle # None))'
    BY <1>6 DEF SessionsAgree, TableExact
  <2>5. fcs_desc'.is_init
    BY <1>2, <1>6 DEF SessionsAgree, CallExact
  <2> QED
    BY <2>1, <2>2, <2>3, <2>4, <2>5 DEF TableExact
<1>13. ClientsExact'
  <2>1. ASSUME NEW c \in Clients
        PROVE  client[c].user = "fcs" <=>
                 \/ \E i \in Used' : c = Entry(i)'.crypto_handle
                 \/ c = fcs_desc.security_handle
    <3>1. client[c].user = "fcs" <=>
            \/ \E i \in Used : c = Entry(i).crypto_handle
            \/ c = fcs_desc.security_handle
            \/ c = call.handle
      BY <1>2 DEF SessionsAgree, ClientsExact
    <3>2. (\E i \in Used' : c = Entry(i)'.crypto_handle) <=>
            (\E i \in Used : c = Entry(i).crypto_handle) \/ c = call.handle
      <4>1. ASSUME NEW i \in Used', c = Entry(i)'.crypto_handle
            PROVE  (\E k \in Used : c = Entry(k).crypto_handle) \/ c = call.handle
        BY <1>2, <1>7, <1>9, <4>1
      <4>2. \A i \in Used : i \in Used' /\ Entry(i)'.crypto_handle = Entry(i).crypto_handle
        BY <1>9
      <4>3. \E i \in Used' : call.handle = Entry(i)'.crypto_handle
        BY <1>2, <1>7, <1>9
      <4> QED
        BY <4>1, <4>2, <4>3
    <3> QED
      BY <3>1, <3>2
  <2>2. ASSUME NEW i \in Used'
        PROVE  /\ Entry(i)'.crypto_handle # fcs_desc.security_handle
               /\ client[Entry(i)'.crypto_handle].callback = "fcs"
    <3>1. CASE i = Count
      BY <1>2, <1>7, <3>1 DEF SessionsAgree, ClientsExact
    <3>2. CASE i \in Used
      BY <1>9, <3>2 DEF SessionsAgree, ClientsExact
    <3> QED
      BY <1>9, <3>1, <3>2
  <2> QED
    BY <1>1, <1>6, <1>10, <2>1, <2>2 DEF ClientsExact
<1>14. SdmExact'
  <2>1. ASSUME NEW i \in Used'
        PROVE  sdm[Entry(i)'.session_id] = Entry(i)'.crypto_handle
    <3>1. CASE i = Count
      BY <1>2, <1>7, <3>1 DEF SessionsAgree, SdmExact
    <3>2. CASE i \in Used
      BY <1>2, <1>9, <3>2 DEF SessionsAgree, SdmExact
    <3> QED
      BY <1>9, <3>1, <3>2
  <2>2. ASSUME NEW s \in SessionIds, sdm[s] # None
        PROVE  \E i \in Used' : s = Entry(i)'.session_id
    <3>1. CASE s = call.session
      BY <1>2, <1>7, <1>9, <3>1
    <3>2. CASE s # call.session
      <4>1. \E i \in Used : s = Entry(i).session_id
        BY <1>2, <2>2, <3>2 DEF SessionsAgree, SdmExact
      <4> QED
        BY <1>9, <4>1
    <3> QED
      BY <3>1, <3>2
  <2> QED
    BY <1>1, <1>10, <2>1, <2>2 DEF SdmExact
<1>15. UuidsExact'
  <2>1. ASSUME NEW t \in Tasks, uuid'[t] # None
        PROVE  \E i \in Used' : Entry(i)'.uuid = uuid'[t]
    <3>1. CASE t = call.task
      <4>1. uuid'[t] = call.session
        BY <1>1, <3>1 DEF SessionsAgree, SessionTypes
      <4> QED
        BY <1>2, <1>7, <1>9, <4>1
    <3>2. CASE t # call.task
      <4>1. uuid'[t] = uuid[t]
        BY <1>1, <3>2 DEF SessionsAgree, SessionTypes
      <4>2. \E i \in Used : Entry(i).uuid = uuid[t]
        BY <2>1, <4>1 DEF SessionsAgree, UuidsExact
      <4> QED
        BY <1>9, <4>1, <4>2
    <3> QED
      BY <3>1, <3>2
  <2>2. \A t \in Tasks : uuid[t] # call.session
    BY <1>2, <1>11 DEF SessionsAgree, UuidsExact
  <2>3. ASSUME NEW t \in Tasks, NEW u \in Tasks, uuid'[t] = uuid'[u], uuid'[t] # None
        PROVE  t = u
    BY <1>1, <1>2, <2>2, <2>3 DEF SessionsAgree, UuidsExact, SessionTypes
  <2> QED
    BY <2>1, <2>3 DEF UuidsExact
<1>16. CallExact'
  BY <1>1, <1>10, NoCallType DEF CallExact
<1> QED
  BY <1>8, <1>12, <1>13, <1>14, <1>15, <1>16 DEF SessionsAgree

(* The session closed last leaves its slot, its client and its task.       *)
LEMMA CloseAnsweredStep ==
  ASSUME SessionDiscipline, SessionsAgree, Ordered', Waited, call.kind = "close"
  PROVE  SessionsAgree'
<1> DEFINE last == Count - 1
           mine == {i \in Slots : Entry(i).session_id = call.session}
<1>1. /\ call.pc = "wait" /\ sem /\ job.at = "none" /\ job.resp = 0
      /\ call.resp = 0 /\ UNCHANGED <<mbox, sdm, job>>
      /\ Closing /\ Fresh = {} /\ Gone = {call.session} /\ Mine = {} /\ ~Opening
  BY DEF Waited, SessionsAgree, Ordered, Matched, CallExact, Fresh, Gone, Mine,
         Opening, Closing
<1>2. /\ last \in Used /\ last \in Slots /\ Count \in Nat /\ Count > 0
      /\ call.handle = Entry(last).crypto_handle /\ call.handle \in Clients
      /\ call.session = Entry(last).session_id /\ call.session # None
      /\ uuid[call.task] = call.session /\ call.task \in Tasks
      /\ call.session \in SessionIds
      /\ client[call.handle].user = "fcs"
  BY <1>1, TableTypes, HandleOpen DEF SessionsAgree, CallExact, Used, TableExact
<1>3. mine = {last}
  BY <1>1, <1>2 DEF SessionsAgree, TableExact
<1>4. Cardinality(mine) = 1
  BY <1>3, FS_Singleton
<1> DEFINE map == [i \in Slots |-> IF i = last THEN NoSession ELSE Entry(i)]
<1>5. /\ client' = [client EXCEPT ![call.handle].user = None]
      /\ fcs_desc' = [fcs_desc EXCEPT !.session_map = map, !.session_count = last]
      /\ uuid' = [uuid EXCEPT ![call.task] = None]
      /\ call' = NoCall
  <2>1. [i \in Slots |-> IF i \in mine THEN NoSession ELSE fcs_desc.session_map[i]] = map
    BY <1>3 DEF Entry
  <2>2. fcs_desc.session_count - Cardinality(mine) = last
    BY <1>4 DEF Count
  <2>3. mine = {i \in Slots : fcs_desc.session_map[i].session_id = call.session}
    BY DEF Entry
  <2> HIDE DEF mine, map, last
  <2>4. /\ client' = mbox_close_client(call.handle)
        /\ fcs_desc' = [fcs_desc EXCEPT
             !.session_map = [i \in Slots |-> IF i \in mine
                                THEN NoSession ELSE @[i]],
             !.session_count = @ - Cardinality(mine)]
        /\ uuid' = [uuid EXCEPT ![call.task] = None]
        /\ Return(TRUE)
    BY <1>1, <1>2, <2>3, FcsAssumption DEF Waited, CloseAnswered
  <2> QED
    BY <2>1, <2>2, <2>4 DEF Return, mbox_close_client
<1> HIDE DEF mine
<1>6. /\ Count' = last /\ fcs_desc'.is_init = fcs_desc.is_init
      /\ fcs_desc'.security_handle = fcs_desc.security_handle
      /\ \A i \in Slots : Entry(i)' = IF i = last THEN NoSession ELSE Entry(i)
      /\ map \in [Slots -> [uuid : Uuids, session_id : SessionIds \cup {None},
                            crypto_handle : Clients \cup {None}]]
  BY <1>5 DEF SessionsAgree, SessionTypes, Count, Entry, NoSession, Uuids
<1>7. /\ \A i \in Used' : i \in Used /\ i \in Slots /\ i # last /\ Entry(i)' = Entry(i)
      /\ Used = Used' \cup {last}
  BY <1>2, <1>6, TableTypes DEF SessionsAgree, Used
<1>8. SessionTypes'
  <2>1. last \in 0 .. Instances
    BY <1>2, TableTypes DEF SessionsAgree
  <2>2. fcs_desc' \in
          [is_init : BOOLEAN, security_handle : Clients \cup {None},
           session_count : 0 .. Instances,
           session_map : [Slots -> [uuid : Uuids, session_id : SessionIds \cup {None},
                                    crypto_handle : Clients \cup {None}]]]
    <3> HIDE DEF map, last
    <3> QED
      BY <1>5, <1>6, <2>1 DEF SessionsAgree, SessionTypes
  <2>3. uuid' \in [Tasks -> Uuids]
    BY <1>2, <1>5 DEF SessionsAgree, SessionTypes, Uuids
  <2>4. client' \in [Clients -> [user : {None, "fcs", "other"},
                                 callback : {None, "fcs", "other"}]]
    <3>1. client[call.handle] \in [user : {None, "fcs", "other"},
                                   callback : {None, "fcs", "other"}]
      BY <1>2 DEF SessionsAgree, SessionTypes
    <3>2. [client[call.handle] EXCEPT !.user = None]
            \in [user : {None, "fcs", "other"}, callback : {None, "fcs", "other"}]
      BY <3>1
    <3>3. client' = [client EXCEPT ![call.handle] =
                                    [client[call.handle] EXCEPT !.user = None]]
      BY <1>2, <1>5 DEF SessionsAgree, SessionTypes
    <3> DEFINE Record == [user : {None, "fcs", "other"},
                          callback : {None, "fcs", "other"}]
    <3>4. client \in [Clients -> Record]
      BY DEF SessionsAgree, SessionTypes
    <3> HIDE DEF Record
    <3>5. client' \in [Clients -> Record]
      <4>1. [client[call.handle] EXCEPT !.user = None] \in Record
        BY <3>2 DEF Record
      <4> QED
        BY <3>3, <3>4, <4>1
    <3> QED
      BY <3>5 DEF Record
  <2> QED
    BY <1>1, <1>5, <2>2, <2>3, <2>4, NoCallType DEF SessionsAgree, SessionTypes
<1> HIDE DEF map
<1>9. Mine' = {} /\ Fresh' = {} /\ Gone' = {} /\ ~Opening' /\ ~Closing'
  BY <1>1, <1>5, NoCallType DEF Mine, Fresh, Gone, Opening, Closing
<1>10. \A i \in Used' : /\ Entry(i).session_id # call.session
                        /\ Entry(i).uuid # call.session
                        /\ Entry(i).crypto_handle # call.handle
                        /\ Entry(i).crypto_handle \in Clients
  BY <1>2, <1>7, TableTypes DEF SessionsAgree, TableExact
<1>11. TableExact'
  <2>1. \A i \in Slots \ Used' :
          Entry(i)'.uuid = None /\ Entry(i)'.session_id = None
    BY <1>6, <1>7 DEF SessionsAgree, TableExact, NoSession
  <2>2. \A i \in Used' : /\ Entry(i)'.session_id # None
                         /\ Entry(i)'.uuid = Entry(i)'.session_id
                         /\ Entry(i)'.crypto_handle # None
    BY <1>7 DEF SessionsAgree, TableExact
  <2>3. \A i, j \in Used' : i # j =>
          /\ Entry(i)'.session_id # Entry(j)'.session_id
          /\ Entry(i)'.crypto_handle # Entry(j)'.crypto_handle
    BY <1>7 DEF SessionsAgree, TableExact
  <2>4. (fcs_desc.is_init = (fcs_desc.security_handle # None))'
    BY <1>6 DEF SessionsAgree, TableExact
  <2>5. fcs_desc'.is_init
    BY <1>2, <1>6 DEF SessionsAgree, SessionTypes, TableExact
  <2> QED
    BY <2>1, <2>2, <2>3, <2>4, <2>5 DEF TableExact
<1>12. ClientsExact'
  <2>1. \A c \in Clients : /\ c = call.handle => client'[c].user # "fcs"
                           /\ c # call.handle => client'[c] = client[c]
    BY <1>5, FcsAssumption DEF SessionsAgree, SessionTypes
  <2>2. ASSUME NEW c \in Clients
        PROVE  client'[c].user = "fcs" <=>
                 \/ \E i \in Used' : c = Entry(i)'.crypto_handle
                 \/ c = fcs_desc.security_handle
    BY <1>1, <1>2, <1>7, <1>10, <2>1 DEF SessionsAgree, ClientsExact
  <2>3. \A i \in Used' : /\ Entry(i)'.crypto_handle # fcs_desc.security_handle
                         /\ client'[Entry(i)'.crypto_handle].callback = "fcs"
    BY <1>7, <1>10, <2>1 DEF SessionsAgree, ClientsExact
  <2> QED
    BY <1>6, <1>9, <2>2, <2>3 DEF ClientsExact
<1>13. SdmExact'
  <2>1. \A i \in Used' : sdm[Entry(i)'.session_id] = Entry(i)'.crypto_handle
    BY <1>1, <1>7, <1>10 DEF SessionsAgree, SdmExact
  <2>2. ASSUME NEW s \in SessionIds, sdm[s] # None
        PROVE  \E i \in Used' : s = Entry(i)'.session_id
    <3>1. PICK i \in Used : s = Entry(i).session_id
      BY <1>1, <2>2 DEF SessionsAgree, SdmExact
    <3>2. i # last
      BY <1>1, <1>2, <2>2, <3>1 DEF SessionsAgree, SdmExact
    <3> QED
      BY <1>7, <3>1, <3>2
  <2> QED
    BY <1>1, <1>9, <2>1, <2>2 DEF SdmExact
<1>14. UuidsExact'
  <2>1. ASSUME NEW t \in Tasks, uuid'[t] # None
        PROVE  \E i \in Used' : Entry(i)'.uuid = uuid'[t]
    <3>1. t # call.task /\ uuid'[t] = uuid[t] /\ uuid[t] # None
      BY <1>2, <1>5, <2>1 DEF SessionsAgree, SessionTypes
    <3>2. PICK i \in Used : Entry(i).uuid = uuid[t]
      BY <3>1 DEF SessionsAgree, UuidsExact
    <3>3. i # last
      <4>1. uuid[t] # uuid[call.task]
        BY <1>2, <3>1 DEF SessionsAgree, UuidsExact
      <4>2. Entry(last).uuid = call.session
        BY <1>2 DEF SessionsAgree, TableExact
      <4> QED
        BY <1>2, <3>2, <4>1, <4>2
    <3> QED
      BY <1>7, <3>1, <3>2, <3>3
  <2>2. ASSUME NEW t \in Tasks, NEW u \in Tasks, uuid'[t] = uuid'[u], uuid'[t] # None
        PROVE  t = u
    BY <1>2, <1>5, <2>2 DEF SessionsAgree, UuidsExact, SessionTypes
  <2> QED
    BY <2>1, <2>2 DEF UuidsExact
<1>15. CallExact'
  BY <1>1, <1>5, <1>9, NoCallType DEF CallExact
<1> QED
  BY <1>8, <1>11, <1>12, <1>13, <1>14, <1>15 DEF SessionsAgree

(* A request of a command is answered.                                     *)
LEMMA CommandAnsweredStep ==
  ASSUME SessionsAgree, Ordered', Waited, call.kind = "command"
  PROVE  SessionsAgree'
<1>1. /\ call.pc = "wait" /\ sem /\ job.at = "none" /\ CommandAnswered
      /\ UNCHANGED <<fcs_desc, uuid, client, mbox, sdm, job>>
  BY DEF Waited, SessionsAgree, Ordered, Matched, CommandAnswered
<1>2. CASE call' = NoCall
  BY <1>1, <1>2, PlainReturn
<1> DEFINE h == get_client_handle(uuid[call.task]).crypto_handle
<1>3. h \in Clients \cup {None}
  BY HandleType DEF SessionsAgree
<1> HIDE DEF h
<1>4. CASE call' = [call EXCEPT !.pc = "send", !.left = @ - 1, !.handle = h]
  <2> DEFINE CallType ==
               [pc : {"idle", "init", "send", "wait"}, kind : Kinds,
                task : Tasks \cup {None}, handle : Clients \cup {None},
                session : SessionIds \cup {None}, slot : Slots,
                resp : {0} \cup Errors, left : Int,
                missing : [Requests -> Int], width : {Short, Masked},
                silent : BOOLEAN, unset : BOOLEAN]
  <2>1. call \in CallType
    BY DEF SessionsAgree, SessionTypes
  <2>2. call.left - 1 \in Int
    BY <2>1
  <2>3. call' \in CallType /\ call'.kind = call.kind
    BY <1>3, <1>4, <2>1, <2>2
  <2>4. call'.kind = "command" /\ SessionTypes'
    BY <1>1, <2>3 DEF SessionsAgree, SessionTypes
  <2> QED
    BY <1>1, <2>4, PlainStep DEF SessionsAgree, CallExact
<1> QED
  BY <1>1, <1>2, <1>4 DEF CommandAnswered, Return, h

(* Every step keeps the agreement.                                         *)
LEMMA NextSessions ==
  ASSUME SessionDiscipline
  PROVE  SessionsAgree /\ [Next]_vars => SessionsAgree'
<1> SUFFICES ASSUME SessionsAgree, [Next]_vars PROVE SessionsAgree'
  OBVIOUS
<1>1. Ordered'
  BY NextOrdered DEF SessionsAgree
<1>2. CASE UNCHANGED vars
  <2>1. /\ Mine' = Mine /\ Fresh' = Fresh /\ Gone' = Gone /\ Used' = Used
        /\ Count' = Count /\ Opening' = Opening /\ Closing' = Closing
        /\ \A i : Entry(i)' = Entry(i)
    BY <1>2 DEF vars, Mine, Fresh, Gone, Opening, Closing, Used, Count, Entry
  <2>2. SessionTypes' /\ TableExact' /\ UuidsExact'
    BY <1>2, <2>1 DEF vars, SessionsAgree, SessionTypes, TableExact, UuidsExact
  <2>3. ClientsExact' /\ SdmExact' /\ CallExact'
    BY <1>2, <2>1 DEF vars, SessionsAgree, ClientsExact, SdmExact, CallExact
  <2> QED
    BY <1>1, <2>2, <2>3 DEF SessionsAgree
<1>3. CASE Waited
  <2>1. call.kind \in Kinds
    BY DEF SessionsAgree, SessionTypes
  <2> QED
    BY <1>1, <1>3, <2>1, OpenAnsweredStep, UuidStep, CloseAnsweredStep,
       CommandAnsweredStep DEF Kinds
<1> QED
  BY <1>1, <1>2, <1>3, InitStep, DeinitStep, OtherStep, OpenStep, CloseStep,
     CommandStep, InitRequestStep, SentStep, SendFailedStep, FirmwareStep,
     DeliverStep
  DEF Next, DriverStep

-----------------------------------------------------------------------------
(* Between calls the sessions in use are the ones below session_count.     *)
LEMMA SessionsUsed ==
  ASSUME SessionsAgree, Idle
  PROVE  Sessions = Used
BY TableTypes, IdleCall DEF SessionsAgree, TableExact, Sessions, Entry

(* As long as the application closes its sessions in the reverse order,    *)
(* and the SDM refuses none of what opens or closes them, the driver's     *)
(* table, the SDM and the tasks agree on the sessions between calls.       *)
THEOREM SessionTableExact ==
  ASSUME SessionDiscipline
  PROVE  Spec => []SessionTable
<1>1. Init => SessionsAgree
  BY InitSessions
<1>2. SessionsAgree /\ [Next]_vars => SessionsAgree'
  BY NextSessions
<1>3. SessionsAgree => SessionTable
  <2> SUFFICES ASSUME SessionsAgree, Idle PROVE SessionTable
    BY DEF SessionTable
  <2>1. /\ Sessions = Used /\ Fresh = {} /\ Gone = {}
        /\ Count \in Nat /\ Cardinality(Used) = Count
    <3>1. Count \in Nat
      BY TableTypes DEF SessionsAgree
    <3>2. Cardinality(Used) = Count
      BY <3>1, FS_Interval DEF Used
    <3>3. call.kind = "command" /\ call.pc = "idle"
      BY IdleCall DEF SessionsAgree, Idle
    <3>4. Fresh = {} /\ Gone = {}
      BY <3>3 DEF Fresh, Gone, Closing, Opening
    <3> QED
      BY <3>1, <3>2, <3>4, SessionsUsed
  <2>2. \A i \in Used : /\ Entry(i).session_id \in SessionIds
                        /\ Entry(i).crypto_handle \in Clients
    BY TableTypes DEF SessionsAgree, TableExact
  <2>3. {s \in SessionIds : sdm[s] # None} =
          {Entry(i).session_id : i \in Sessions}
    <3>1. ASSUME NEW s \in SessionIds, sdm[s] # None
          PROVE  \E i \in Sessions : s = Entry(i).session_id
      BY <2>1, <3>1 DEF SessionsAgree, SdmExact
    <3>2. ASSUME NEW i \in Sessions
          PROVE  /\ Entry(i).session_id \in SessionIds
                 /\ sdm[Entry(i).session_id] # None
      <4>1. sdm[Entry(i).session_id] = Entry(i).crypto_handle
        BY <2>1 DEF SessionsAgree, SdmExact
      <4>2. Entry(i).crypto_handle # None
        BY <2>1 DEF SessionsAgree, TableExact
      <4> QED
        BY <2>1, <2>2, <4>1, <4>2
    <3> QED
      BY <3>1, <3>2
  <2>4. ASSUME NEW t \in Tasks, uuid[t] # None
        PROVE  /\ get_client_handle(uuid[t]).session_id = uuid[t]
               /\ client[get_client_handle(uuid[t]).crypto_handle] =
                    [user |-> "fcs", callback |-> "fcs"]
    <3>1. PICK i \in Used : Entry(i).uuid = uuid[t]
      BY <2>4 DEF SessionsAgree, UuidsExact
    <3>2. get_client_handle(uuid[t]) = Entry(i)
      BY <3>1, Lookup DEF SessionsAgree
    <3>3. client[Entry(i).crypto_handle].user = "fcs"
            /\ client[Entry(i).crypto_handle].callback = "fcs"
      BY <2>2 DEF SessionsAgree, ClientsExact
    <3>4. client[Entry(i).crypto_handle] \in
            [user : {None, "fcs", "other"}, callback : {None, "fcs", "other"}]
      BY <2>2 DEF SessionsAgree, SessionTypes
    <3>5. client[Entry(i).crypto_handle] = [user |-> "fcs", callback |-> "fcs"]
      BY <3>3, <3>4
    <3> QED
      BY <3>1, <3>2, <3>5 DEF SessionsAgree, TableExact
  <2>5. \A i, j \in Sessions :
          /\ Entry(i).crypto_handle # fcs_desc.security_handle
          /\ i # j => Entry(i).crypto_handle # Entry(j).crypto_handle
    BY <2>1 DEF SessionsAgree, ClientsExact, TableExact
  <2> QED
    BY <2>1, <2>3, <2>4, <2>5 DEF SessionTable, Count
<1> QED
  BY <1>1, <1>2, <1>3, PTL DEF Spec

(* ... every session belongs to the client kept in its slot, also while a  *)
(* call is in progress.                                                    *)
THEOREM SessionsTied ==
  ASSUME SessionDiscipline
  PROVE  Spec => []SessionTiedToClient
<1>1. Init => SessionsAgree
  BY InitSessions
<1>2. SessionsAgree /\ [Next]_vars => SessionsAgree'
  BY NextSessions
<1>3. SessionsAgree => SessionTiedToClient
  <2> SUFFICES ASSUME SessionsAgree, NEW i \in Sessions
               PROVE  sdm[Entry(i).session_id] \in {Entry(i).crypto_handle, None}
    BY DEF SessionTiedToClient
  <2>1. CASE i \in Used
    BY <2>1 DEF SessionsAgree, SdmExact
  <2>2. CASE i \notin Used
    <3>1. call.kind = "uuid" /\ i = Count
      BY <2>2 DEF SessionsAgree, TableExact, Sessions, Entry
    <3>2. call.session \in Fresh /\ call.handle = Entry(i).crypto_handle
            /\ call.session = Entry(i).session_id
      BY <3>1 DEF SessionsAgree, CallExact, Fresh, Opening
    <3> QED
      BY <3>2 DEF SessionsAgree, SdmExact
  <2> QED
    BY <2>1, <2>2
<1> QED
  BY <1>1, <1>2, <1>3, PTL DEF Spec

(* ... and no failing or closing call leaves a mailbox client open.        *)
THEOREM NoClientLeaks ==
  ASSUME SessionDiscipline
  PROVE  Spec => []ClientsAccounted
<1>1. Init => SessionsAgree
  BY InitSessions
<1>2. SessionsAgree /\ [Next]_vars => SessionsAgree'
  BY NextSessions
<1>3. SessionsAgree => ClientsAccounted
  <2> SUFFICES ASSUME SessionsAgree, Idle PROVE ClientsAccounted
    BY DEF ClientsAccounted
  <2>1. Sessions = Used /\ Mine = {}
    BY SessionsUsed, IdleCall DEF Mine, Opening
  <2>2. /\ \A i \in Used : Entry(i).crypto_handle \in Clients
        /\ fcs_desc.security_handle \in Clients \cup {None}
    BY TableTypes DEF SessionsAgree, TableExact, SessionTypes
  <2>3. \A c \in Clients :
          client[c].user = "fcs" <=>
            (\E i \in Used : c = Entry(i).crypto_handle)
              \/ c = fcs_desc.security_handle
    BY <2>1 DEF SessionsAgree, ClientsExact
  <2>4. None \notin Clients
    BY FcsAssumption
  <2> QED
    BY <2>1, <2>2, <2>3, <2>4 DEF ClientsAccounted
<1> QED
  BY <1>1, <1>2, <1>3, PTL DEF Spec
=============================================================================
