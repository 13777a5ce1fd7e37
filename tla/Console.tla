------------------------------ MODULE Console -------------------------------
(***************************************************************************)
(* The console, drivers/console/socfpga_console.c, as the demo builds it   *)
(* (configCONSOLE_MAKE_FLUSH_TASK is 1), with its two users: _write of the *)
(* C library port and smc_call, which takes the console's semaphore to     *)
(* keep the secure firmware's own output apart.                            *)
(*                                                                         *)
(* Writers and the flush task run on any core.  Writers exclude each other *)
(* with the STDOUT spin lock (see SpinLock); nothing but the order of the  *)
(* ring's updates protects a writer from the flush task.                   *)
(***************************************************************************)
EXTENDS Naturals, Sequences

CONSTANTS
  Writers,    \* tasks and handlers that print
  Callers,    \* tasks that make secure monitor calls
  BufSize,    \* CONSOLE_BUF_SIZE
  MaxLength,  \* the longest write
  MaxWrites,  \* bound on the number of writes
  None        \* nobody holds the STDOUT lock

ASSUME ConsoleAssumption ==
  /\ BufSize \in Nat /\ BufSize > 1
  /\ MaxLength \in Nat \ {0} /\ MaxWrites \in Nat
  /\ None \notin Writers

VARIABLES
  phase,     \* "off" before console_init, "boot" before the scheduler, "run"
  ringbuf, ring_head, ring_tail,
  dropped_bytes,
  write_sem, \* console_write_sem: 1 free, 0 taken
  signal,    \* signal_bytes_available
  stdout,    \* holder of the STDOUT spin lock
  writer,    \* writers: pc, bytes left to write, dropped_bytes as read
  flush,     \* the flush task: pc, int_buf, drops
  caller,    \* callers: "idle", or "el3" inside the secure firmware
  writes,    \* number of writes so far
  accepted,  \* (history) every byte that a write accepted, numbered in order
  out,       \* (history) the bytes that left through the UART
  silent     \* (history) bytes were dropped and no message said so since

vars == <<phase, ringbuf, ring_head, ring_tail, dropped_bytes, write_sem,
          signal, stdout, writer, flush, caller, writes, accepted, out,
          silent>>
ringVars == <<ringbuf, ring_head, ring_tail>>
users == <<phase, writer, stdout, caller, writes, accepted>>

MaxBytes == MaxLength * MaxWrites
Indices == 0 .. BufSize - 1

FlushLocations == {"none", "wait", "check", "lock", "read", "advance",
                   "send", "unlock", "drops", "zero", "report"}

TypeOK ==
  /\ phase \in {"off", "boot", "run"}
  /\ ringbuf \in [Indices -> Nat]
  /\ ring_head \in Indices /\ ring_tail \in Indices
  /\ dropped_bytes \in Nat
  /\ write_sem \in {0, 1} /\ signal \in {0, 1}
  /\ stdout \in Writers \cup {None}
  /\ writer \in [Writers ->
       [pc : {"idle", "fill", "advance", "drop", "unlock", "signal",
              "relock"},
        left : 0 .. MaxLength, val : Nat]]
  /\ flush \in [pc : FlushLocations, buf : Seq(Nat), drops : Nat]
  /\ Len(flush.buf) <= BufSize
  /\ caller \in [Callers -> {"idle", "el3"}]
  /\ writes \in 0 .. MaxWrites /\ silent \in BOOLEAN
  /\ accepted \in Seq(Nat) /\ out \in Seq(Nat)

Init ==
  /\ phase = "off" /\ ringbuf = [i \in Indices |-> 0]
  /\ ring_head = 0 /\ ring_tail = 0 /\ dropped_bytes = 0
  /\ write_sem = 0 /\ signal = 0 /\ stdout = None
  /\ writer = [w \in Writers |-> [pc |-> "idle", left |-> 0, val |-> 0]]
  /\ flush = [pc |-> "none", buf |-> <<>>, drops |-> 0]
  /\ caller = [c \in Callers |-> "idle"]
  /\ writes = 0 /\ accepted = <<>> /\ out = <<>> /\ silent = FALSE

Byte == Len(accepted) + 1                \* the number of the next byte
Succ(i) == (i + 1) % BufSize

-----------------------------------------------------------------------------
(* console_init, when nothing fails: the lock is free, the flush task      *)
(* exists.  On a failure the console stays off, which is no step.          *)
console_init ==
  /\ phase = "off" /\ phase' = "boot"
  /\ write_sem' = 1 /\ flush' = [flush EXCEPT !.pc = "wait"]
  /\ UNCHANGED <<ringVars, dropped_bytes, signal, stdout, writer, caller,
                 writes, accepted, out, silent>>

(* The scheduler starts (external).                                        *)
StartScheduler ==
  /\ phase = "boot" /\ phase' = "run"
  /\ UNCHANGED <<ringVars, dropped_bytes, write_sem, signal, stdout, writer,
                 flush, caller, writes, accepted, out, silent>>

(* console_fill_buf before the scheduler runs: the write is polled out.    *)
FillPolling ==
  /\ phase = "boot" /\ writes < MaxWrites /\ writes' = writes + 1
  /\ accepted' = Append(accepted, Byte) /\ out' = Append(out, Byte)
  /\ UNCHANGED <<phase, ringVars, dropped_bytes, write_sem, signal, stdout,
                 writer, flush, caller, silent>>

(* Mutant: writers do not exclude each other.                              *)
printf_Unlocked(w, n) ==
  /\ phase = "run" /\ writer[w].pc = "idle"
  /\ writes < MaxWrites /\ writes' = writes + 1
  /\ stdout' = w
  /\ writer' = [writer EXCEPT ![w] = [pc |-> "fill", left |-> n, val |-> 0]]
  /\ UNCHANGED <<phase, ringVars, dropped_bytes, write_sem, signal, flush,
                 caller, accepted, out, silent>>

(* printf reaches _write with the STDOUT lock held.                        *)
printf(w, n) ==
  /\ phase = "run" /\ writer[w].pc = "idle" /\ stdout = None
  /\ writes < MaxWrites /\ writes' = writes + 1
  /\ stdout' = w
  /\ writer' = [writer EXCEPT ![w] = [pc |-> "fill", left |-> n, val |-> 0]]
  /\ UNCHANGED <<phase, ringVars, dropped_bytes, write_sem, signal, flush,
                 caller, accepted, out, silent>>

console_is_ringbuf_full_Never == FALSE   \* mutant: writes over the oldest
console_is_ringbuf_full == Succ(ring_head) = ring_tail

(* One turn of the loop of console_write_ringbuf: the byte is stored, then *)
(* ring_head moves on and the byte counts as accepted.                     *)
FillByte(w) ==
  /\ writer[w].pc = "fill" /\ writer[w].left > 0 /\ ~console_is_ringbuf_full
  /\ ringbuf' = [ringbuf EXCEPT ![ring_head] = Byte]
  /\ writer' = [writer EXCEPT ![w].pc = "advance"]
  /\ UNCHANGED <<phase, ring_head, ring_tail, dropped_bytes, write_sem,
                 signal, stdout, flush, caller, writes, accepted, out, silent>>

FillAdvance(w) ==
  /\ writer[w].pc = "advance"
  /\ ring_head' = Succ(ring_head)
  /\ accepted' = Append(accepted, Byte)
  /\ writer' = [writer EXCEPT ![w].pc = "fill", ![w].left = @ - 1]
  /\ UNCHANGED <<phase, ringbuf, ring_tail, dropped_bytes, write_sem, signal,
                 stdout, flush, caller, writes, out, silent>>

(* The ring is full: dropped_bytes is read, and written in FillDrop.       *)
FillFull(w) ==
  /\ writer[w].pc = "fill" /\ writer[w].left > 0 /\ console_is_ringbuf_full
  /\ writer' = [writer EXCEPT ![w].pc = "drop", ![w].val = dropped_bytes]
  /\ UNCHANGED <<phase, ringVars, dropped_bytes, write_sem, signal, stdout,
                 flush, caller, writes, accepted, out, silent>>

FillDrop(w) ==
  /\ writer[w].pc = "drop" /\ silent' = TRUE
  /\ dropped_bytes' = writer[w].val + writer[w].left
  /\ writer' = [writer EXCEPT ![w].pc = "unlock", ![w].left = 0]
  /\ UNCHANGED <<phase, ringVars, write_sem, signal, stdout, flush, caller,
                 writes, accepted, out>>

FillDone(w) ==
  /\ writer[w].pc = "fill" /\ writer[w].left = 0
  /\ writer' = [writer EXCEPT ![w].pc = "unlock"]
  /\ UNCHANGED <<phase, ringVars, dropped_bytes, write_sem, signal, stdout,
                 flush, caller, writes, accepted, out, silent>>

(* _write gives the lock back to signal without it, and takes it again for *)
(* the library, which releases it at once.                                 *)
WriteUnlock(w) ==
  /\ writer[w].pc = "unlock" /\ stdout' = None
  /\ writer' = [writer EXCEPT ![w].pc = "signal"]
  /\ UNCHANGED <<phase, ringVars, dropped_bytes, write_sem, signal, flush,
                 caller, writes, accepted, out, silent>>

(* Mutant: the signal is given only to a ring that is empty.               *)
console_signal_fill_IfEmpty(w) ==
  /\ writer[w].pc = "signal"
  /\ signal' = IF ring_head = ring_tail THEN 1 ELSE signal
  /\ writer' = [writer EXCEPT ![w].pc = "relock"]
  /\ UNCHANGED <<phase, ringVars, dropped_bytes, write_sem, stdout, flush,
                 caller, writes, accepted, out, silent>>

console_signal_fill(w) ==
  /\ writer[w].pc = "signal" /\ signal' = 1
  /\ writer' = [writer EXCEPT ![w].pc = "relock"]
  /\ UNCHANGED <<phase, ringVars, dropped_bytes, write_sem, stdout, flush,
                 caller, writes, accepted, out, silent>>

WriteRelock(w) ==
  /\ writer[w].pc = "relock" /\ stdout = None
  /\ writer' = [writer EXCEPT ![w].pc = "idle"]
  /\ UNCHANGED <<phase, ringVars, dropped_bytes, write_sem, signal, stdout,
                 flush, caller, writes, accepted, out, silent>>

-----------------------------------------------------------------------------
(* console_flush_task and, from "check" on, console_clear_pending.         *)
FlushWait ==
  /\ flush.pc = "wait" /\ phase = "run" /\ signal = 1
  /\ signal' = 0 /\ flush' = [flush EXCEPT !.pc = "check"]
  /\ UNCHANGED <<users, ringVars, dropped_bytes, write_sem, out, silent>>

FlushCheck ==
  /\ flush.pc = "check"
  /\ flush' = [flush EXCEPT !.pc = IF ring_tail # ring_head THEN "lock"
                                                            ELSE "drops"]
  /\ UNCHANGED <<users, ringVars, dropped_bytes, write_sem, signal, out,
                 silent>>

(* Mutant: the semaphore is not waited for.                                *)
FlushLock_Unlocked ==
  /\ flush.pc = "lock" /\ write_sem' = 0
  /\ flush' = [flush EXCEPT !.pc = "read"]
  /\ UNCHANGED <<users, ringVars, dropped_bytes, signal, out, silent>>

FlushLock ==
  /\ flush.pc = "lock" /\ write_sem = 1 /\ write_sem' = 0
  /\ flush' = [flush EXCEPT !.pc = "read"]
  /\ UNCHANGED <<users, ringVars, dropped_bytes, signal, out, silent>>

(* One turn of the loop of console_read_ringbuf: the byte is copied, then  *)
(* ring_tail moves on.  (A ring never holds more than BufSize - 1 bytes at *)
(* once, but writers may add some meanwhile.)                              *)

FlushReadByte ==
  /\ flush.pc = "read" /\ ring_tail # ring_head /\ Len(flush.buf) < BufSize
  /\ flush' = [flush EXCEPT !.buf = Append(@, ringbuf[ring_tail]),
                            !.pc = "advance"]
  /\ UNCHANGED <<users, ringVars, dropped_bytes, write_sem, signal, out,
                 silent>>

FlushAdvance ==
  /\ flush.pc = "advance" /\ ring_tail' = Succ(ring_tail)
  /\ flush' = [flush EXCEPT !.pc = "read"]
  /\ UNCHANGED <<users, ringbuf, ring_head, dropped_bytes, write_sem, signal,
                 out, silent>>

(* The read is over: the UART gets what it returned.  uart_write_sync      *)
(* refuses an empty buffer, and an empty read ends the loop.               *)
FlushReadDone ==
  /\ flush.pc = "read"
  /\ ring_tail = ring_head \/ Len(flush.buf) = BufSize
  /\ flush' = [flush EXCEPT !.pc = IF flush.buf = <<>> THEN "unlock"
                                                       ELSE "send"]
  /\ UNCHANGED <<users, ringVars, dropped_bytes, write_sem, signal, out,
                 silent>>

FlushSend ==
  /\ flush.pc = "send" /\ out' = out \o flush.buf
  /\ flush' = [flush EXCEPT !.pc = "read", !.buf = <<>>]
  /\ UNCHANGED <<users, ringVars, dropped_bytes, write_sem, signal, silent>>

FlushUnlock ==
  /\ flush.pc = "unlock" /\ write_sem' = 1
  /\ flush' = [flush EXCEPT !.pc = "drops"]
  /\ UNCHANGED <<users, ringVars, dropped_bytes, signal, out, silent>>

(* dropped_bytes is read and cleared in two steps, then reported, without  *)
(* the semaphore.                                                          *)

(* Mutant: a single byte is not worth a message.                           *)
FlushDrops_MoreThanOne ==
  /\ flush.pc = "drops"
  /\ flush' = [flush EXCEPT !.drops = dropped_bytes,
                            !.pc = IF dropped_bytes > 1 THEN "zero"
                                                        ELSE "wait"]
  /\ UNCHANGED <<users, ringVars, dropped_bytes, write_sem, signal, out,
                 silent>>

FlushDrops ==
  /\ flush.pc = "drops"
  /\ flush' = [flush EXCEPT !.drops = dropped_bytes,
                            !.pc = IF dropped_bytes > 0 THEN "zero"
                                                        ELSE "wait"]
  /\ UNCHANGED <<users, ringVars, dropped_bytes, write_sem, signal, out,
                 silent>>

FlushZero ==
  /\ flush.pc = "zero" /\ dropped_bytes' = 0
  /\ flush' = [flush EXCEPT !.pc = "report"]
  /\ UNCHANGED <<users, ringVars, write_sem, signal, out, silent>>

FlushReport ==
  /\ flush.pc = "report" /\ silent' = FALSE
  /\ flush' = [flush EXCEPT !.pc = "wait", !.drops = 0]
  /\ UNCHANGED <<users, ringVars, dropped_bytes, write_sem, signal, out>>

console_flush_task ==
  \/ FlushWait \/ FlushCheck \/ FlushReadByte \/ FlushAdvance
  \/ FlushReadDone \/ FlushSend \/ FlushUnlock \/ FlushDrops \/ FlushZero \/ FlushReport

-----------------------------------------------------------------------------
(* smc_call, around the secure firmware: console_lock, console_unlock.     *)
SmcEnter(c) ==
  /\ phase = "run" /\ caller[c] = "idle" /\ write_sem = 1 /\ write_sem' = 0
  /\ caller' = [caller EXCEPT ![c] = "el3"]
  /\ UNCHANGED <<phase, ringVars, dropped_bytes, signal, stdout, writer,
                 flush, writes, accepted, out, silent>>

SmcLeave(c) ==
  /\ caller[c] = "el3" /\ write_sem' = 1
  /\ caller' = [caller EXCEPT ![c] = "idle"]
  /\ UNCHANGED <<phase, ringVars, dropped_bytes, signal, stdout, writer,
                 flush, writes, accepted, out, silent>>

Write(w) ==
  \/ FillByte(w) \/ FillAdvance(w) \/ FillFull(w) \/ FillDrop(w)
  \/ FillDone(w) \/ WriteUnlock(w) \/ console_signal_fill(w) \/ WriteRelock(w)

Next ==
  \/ console_init \/ StartScheduler \/ FillPolling
  \/ \E w \in Writers : Write(w) \/ \E n \in 1 .. MaxLength : printf(w, n)
  \/ console_flush_task \/ FlushLock
  \/ \E c \in Callers : SmcEnter(c) \/ SmcLeave(c)

(* A write that has begun goes on, the firmware returns, and the flush     *)
(* task, of idle priority, gets a processor and the semaphore in the end.  *)
Fairness ==
  /\ \A w \in Writers : WF_vars(Write(w))
  /\ WF_vars(console_flush_task) /\ SF_vars(FlushLock)
  /\ \A c \in Callers : WF_vars(SmcLeave(c))

Spec == Init /\ [][Next]_vars /\ Fairness

-----------------------------------------------------------------------------
(* What the ring holds and the flush task has not copied yet, oldest byte  *)
(* first.                                                                  *)
From == IF flush.pc = "advance" THEN Succ(ring_tail) ELSE ring_tail
Pending ==
  [i \in 1 .. (ring_head + BufSize - From) % BufSize |->
     ringbuf[(From + i - 1) % BufSize]]

(* Every byte that a write accepted is, in order and once, on the line, in *)
(* int_buf or in the ring: the ring loses, repeats and reorders nothing,   *)
(* around its end, when full, and with the flush task reading meanwhile.   *)
OutputInOrder == out \o flush.buf \o Pending = accepted

(* The console sends no data while a core is inside the secure firmware,   *)
(* which may use the same UART.                                            *)
DataOutsideFirmware ==
  flush.pc = "send" => \A c \in Callers : caller[c] = "idle"

(* Every byte that a write accepted leaves the UART: no signal is lost     *)
(* between a write that fills the ring and a flush that just found it      *)
(* empty.                                                                  *)
EverythingPrinted ==
  \A k \in 1 .. MaxBytes : Len(accepted) >= k ~> Len(out) >= k

(* After bytes were dropped the user is told so, even when the drop falls  *)
(* between the flush task's read of dropped_bytes and its reset.           *)
DropsAnnounced == silent ~> ~silent

(* No console output, drop messages included, interleaves with the secure  *)
(* firmware's.  The code does not have this property: drops are reported   *)
(* after console_unlock.                                                   *)
LineExclusive ==
  flush.pc \in {"send", "report"} => \A c \in Callers : caller[c] = "idle"

-----------------------------------------------------------------------------
(* The inductive invariant behind OutputInOrder and DataOutsideFirmware.   *)

(* console_write_sem has one holder at most, the flush task or a core in   *)
(* the firmware, and is taken whenever it has one.                         *)
FlushHolds == flush.pc \in {"read", "advance", "send", "unlock"}
SemaphoreExact ==
  /\ write_sem = 1 =>
       ~FlushHolds /\ \A c \in Callers : caller[c] = "idle"
  /\ FlushHolds => \A c \in Callers : caller[c] = "idle"
  /\ \A c, d \in Callers : caller[c] = "el3" /\ caller[d] = "el3" => c = d

(* The STDOUT lock is held exactly while a writer is in the ring.          *)
Filling(w) == writer[w].pc \in {"fill", "advance", "drop", "unlock"}
StdoutExact == \A w \in Writers : Filling(w) <=> stdout = w

(* A writer between the two halves of a store has room and its byte is     *)
(* there; the flush task between the two halves of a read has a byte.      *)
HalfDone ==
  /\ \A w \in Writers : writer[w].pc = "advance" =>
       /\ writer[w].left > 0 /\ ~console_is_ringbuf_full
       /\ ringbuf[ring_head] = Byte
  /\ flush.pc = "advance" => ring_tail # ring_head
  /\ flush.buf # <<>> => flush.pc \in {"read", "advance", "send"}

(* Before the scheduler runs nothing is in the ring and nobody is busy.    *)
Quiet ==
  phase # "run" =>
    /\ ring_head = ring_tail /\ flush.pc \in {"none", "wait"}
    /\ \A c \in Callers : caller[c] = "idle"
    /\ \A w \in Writers : writer[w].pc = "idle"

IInv == TypeOK /\ SemaphoreExact /\ StdoutExact /\ HalfDone /\ Quiet
          /\ OutputInOrder
=============================================================================
