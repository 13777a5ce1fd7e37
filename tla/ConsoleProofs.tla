--------------------------- MODULE ConsoleProofs ----------------------------
(***************************************************************************)
(* Proofs about Console for any number of writers and callers and any size *)
(* of the ring: output leaves in the order in which it was accepted, and   *)
(* no data is sent while a core is inside the secure firmware.             *)
(***************************************************************************)
EXTENDS Console, SequenceTheorems, TLAPS

-----------------------------------------------------------------------------
(* Indices of the ring.                                                    *)

(* The remainder of an index that went around the ring once at most.       *)
LEMMA ModOnce ==
  ASSUME NEW n \in Nat \ {0}, NEW x \in Nat, x < 2 * n
  PROVE  x % n = IF x < n THEN x ELSE x - n
<1>1. CASE x < n
  BY <1>1
<1>2. CASE x >= n
  <2>1. x = n * 1 + (x - n) /\ x - n \in 0 .. n - 1
    BY <1>2
  <2> QED
    BY <2>1, <1>2
<1> QED
  BY <1>1, <1>2

(* The ring's index after i and the number of bytes from index f to the    *)
(* head h, without remainders.                                             *)
Wrap(x) == IF x < BufSize THEN x ELSE x - BufSize
Dist(h, f) == IF h >= f THEN h - f ELSE h + BufSize - f

LEMMA RingIndices ==
  /\ \A i \in Indices : Succ(i) = Wrap(i + 1) /\ Succ(i) \in Indices
  /\ \A h, f \in Indices :
       /\ (h + BufSize - f) % BufSize = Dist(h, f)
       /\ Dist(h, f) \in 0 .. BufSize - 1
       /\ \A i \in 1 .. Dist(h, f) : /\ (f + i - 1) % BufSize = Wrap(f + i - 1)
                                     /\ Wrap(f + i - 1) \in Indices
<1> USE ConsoleAssumption
<1>1. ASSUME NEW i \in Indices
      PROVE  Succ(i) = Wrap(i + 1) /\ Succ(i) \in Indices
  <2> DEFINE x == i + 1
  <2>1. x \in Nat /\ x < 2 * BufSize /\ BufSize \in Nat \ {0}
    BY DEF Indices
  <2>2. x % BufSize = IF x < BufSize THEN x ELSE x - BufSize
    <3> HIDE DEF x
    <3> QED BY <2>1, ModOnce
  <2> QED
    BY <2>2 DEF Indices, Wrap, Succ
<1>2. ASSUME NEW h \in Indices, NEW f \in Indices
      PROVE  /\ (h + BufSize - f) % BufSize = Dist(h, f)
             /\ Dist(h, f) \in 0 .. BufSize - 1
  <2> DEFINE x == h + BufSize - f
  <2>1. x \in Nat /\ x < 2 * BufSize /\ BufSize \in Nat \ {0}
    BY DEF Indices
  <2>2. x % BufSize = IF x < BufSize THEN x ELSE x - BufSize
    <3> HIDE DEF x
    <3> QED BY <2>1, ModOnce
  <2> QED
    BY <2>2 DEF Indices, Dist
<1>3. ASSUME NEW h \in Indices, NEW f \in Indices, NEW i \in 1 .. Dist(h, f)
      PROVE  /\ (f + i - 1) % BufSize = Wrap(f + i - 1)
             /\ Wrap(f + i - 1) \in Indices
  <2> DEFINE x == f + i - 1
  <2>1. x \in Nat /\ x < 2 * BufSize /\ BufSize \in Nat \ {0}
    BY DEF Indices, Dist
  <2>2. x % BufSize = IF x < BufSize THEN x ELSE x - BufSize
    <3> HIDE DEF x
    <3> QED BY <2>1, ModOnce
  <2> QED
    BY <2>1, <2>2 DEF Indices, Wrap
<1> QED
  BY <1>1, <1>2, <1>3

(* Pending as a function of the ring, so that it can be said of two states *)
(* of the ring at once.                                                    *)
Ring(b, h, f) ==
  [i \in 1 .. (h + BufSize - f) % BufSize |-> b[(f + i - 1) % BufSize]]

(* What the ring holds is a sequence, as long as the way from f to h.      *)
LEMMA RingIsSeq ==
  ASSUME NEW b \in [Indices -> Nat], NEW h \in Indices, NEW f \in Indices
  PROVE  /\ Ring(b, h, f) \in Seq(Nat)
         /\ Len(Ring(b, h, f)) = Dist(h, f)
         /\ \A i \in 1 .. Dist(h, f) :
              Ring(b, h, f)[i] = b[Wrap(f + i - 1)]
<1> DEFINE n == Dist(h, f)
           P == [i \in 1 .. n |-> b[Wrap(f + i - 1)]]
<1>1. n \in Nat /\ \A i \in 1 .. n : Wrap(f + i - 1) \in Indices
  BY RingIndices, ConsoleAssumption
<1>2. Ring(b, h, f) = P
  BY RingIndices DEF Ring
<1>3. P \in [1 .. n -> Nat]
  BY <1>1
<1> HIDE DEF n, P
<1>4. P \in Seq(Nat) /\ Len(P) = n
  BY <1>1, <1>3
<1> QED
  BY <1>1, <1>2, <1>4 DEF P, n

(* A byte stored at the head is not yet part of what the ring holds.       *)
LEMMA RingStore ==
  ASSUME NEW b \in [Indices -> Nat], NEW h \in Indices, NEW f \in Indices,
         NEW x \in Nat
  PROVE  Ring([b EXCEPT ![h] = x], h, f) = Ring(b, h, f)
<1> DEFINE c == [b EXCEPT ![h] = x]
<1>1. c \in [Indices -> Nat] /\ \A i \in Indices : i # h => c[i] = b[i]
  OBVIOUS
<1> HIDE DEF c
<1>2. ASSUME NEW i \in 1 .. Dist(h, f)
      PROVE  Wrap(f + i - 1) # h /\ Wrap(f + i - 1) \in Indices
  BY ConsoleAssumption DEF Wrap, Dist, Indices
<1>3. \A i \in 1 .. Dist(h, f) : Ring(c, h, f)[i] = Ring(b, h, f)[i]
  BY <1>1, <1>2, RingIsSeq
<1>4. /\ Ring(c, h, f) \in Seq(Nat) /\ Ring(b, h, f) \in Seq(Nat)
      /\ Len(Ring(c, h, f)) = Dist(h, f) /\ Len(Ring(b, h, f)) = Dist(h, f)
  BY <1>1, RingIsSeq
<1>5. Ring(c, h, f) = Ring(b, h, f)
  BY <1>3, <1>4, SeqEqual
<1> QED
  BY <1>5 DEF c

(* Moving the head of a ring with room appends the byte at the old head.   *)
LEMMA RingAppend ==
  ASSUME NEW b \in [Indices -> Nat], NEW h \in Indices, NEW f \in Indices,
         Succ(h) # f
  PROVE  Ring(b, Succ(h), f) = Append(Ring(b, h, f), b[h])
<1> DEFINE g == Succ(h)
           r == Ring(b, h, f)
           s == Ring(b, g, f)
           n == Dist(h, f)
<1> USE ConsoleAssumption
<1>1. g \in Indices /\ g = Wrap(h + 1) /\ g # f
  BY RingIndices
<1> HIDE DEF g
<1>2. n \in Nat /\ Dist(g, f) = n + 1 /\ Wrap(f + n) = h
  BY <1>1 DEF Wrap, Dist, Indices
<1>3. /\ r \in Seq(Nat) /\ Len(r) = n
      /\ \A i \in 1 .. n : r[i] = b[Wrap(f + i - 1)]
  BY RingIsSeq
<1>4. /\ s \in Seq(Nat) /\ Len(s) = n + 1
      /\ \A i \in 1 .. n + 1 : s[i] = b[Wrap(f + i - 1)]
  <2>1. /\ s \in Seq(Nat) /\ Len(s) = Dist(g, f)
        /\ \A i \in 1 .. Dist(g, f) : s[i] = b[Wrap(f + i - 1)]
    BY <1>1, RingIsSeq
  <2> HIDE DEF s
  <2> QED
    BY <2>1, <1>2
<1>5. b[h] \in Nat
  OBVIOUS
<1> HIDE DEF r, s, n
<1>6. /\ Append(r, b[h]) \in Seq(Nat) /\ Len(Append(r, b[h])) = n + 1
      /\ \A i \in 1 .. n + 1 :
           Append(r, b[h])[i] = IF i <= n THEN r[i] ELSE b[h]
  BY <1>2, <1>3, <1>5, AppendProperties
<1>7. ASSUME NEW i \in 1 .. n + 1 PROVE s[i] = Append(r, b[h])[i]
  <2>1. CASE i <= n
    <3>1. i \in 1 .. n
      BY <2>1, <1>2
    <3> QED
      BY <3>1, <2>1, <1>3, <1>4, <1>6
  <2>2. CASE i = n + 1
    <3>1. f + i - 1 = f + n /\ ~(i <= n)
      BY <2>2, <1>2 DEF Indices
    <3>2. s[i] = b[h]
      BY <3>1, <1>2, <1>4
    <3>3. Append(r, b[h])[i] = b[h]
      BY <3>1, <1>6
    <3> QED
      BY <3>2, <3>3
  <2> QED
    <3>1. i <= n \/ i = n + 1
      BY <1>2
    <3> QED
      BY <3>1, <2>1, <2>2
<1>8. s = Append(r, b[h])
  BY <1>4, <1>6, <1>7, SeqEqual
<1> QED
  BY <1>8 DEF r, s, g

(* Moving the tail of a ring that is not empty takes the byte at the tail. *)
LEMMA RingTake ==
  ASSUME NEW b \in [Indices -> Nat], NEW h \in Indices, NEW f \in Indices,
         h # f
  PROVE  Ring(b, h, f) = <<b[f]>> \o Ring(b, h, Succ(f))
<1> DEFINE g == Succ(f)
           r == Ring(b, h, f)
           s == Ring(b, h, g)
           n == Dist(h, g)
           e == <<b[f]>>
<1> USE ConsoleAssumption
<1>1. g \in Indices /\ g = Wrap(f + 1)
  BY RingIndices
<1> HIDE DEF g
<1>2. n \in Nat /\ Dist(h, f) = n + 1 /\ Wrap(f) = f
  BY <1>1 DEF Wrap, Dist, Indices
<1>3. \A i \in 1 .. n : Wrap(g + i - 1) = Wrap(f + i)
  BY <1>1 DEF Wrap, Dist, Indices
<1>4. /\ r \in Seq(Nat) /\ Len(r) = n + 1
      /\ \A i \in 1 .. n + 1 : r[i] = b[Wrap(f + i - 1)]
  BY <1>2, RingIsSeq
<1>5. /\ s \in Seq(Nat) /\ Len(s) = n
      /\ \A i \in 1 .. n : s[i] = b[Wrap(f + i)]
  <2>1. /\ s \in Seq(Nat) /\ Len(s) = n
        /\ \A i \in 1 .. n : s[i] = b[Wrap(g + i - 1)]
    BY <1>1, RingIsSeq
  <2> HIDE DEF s
  <2> QED
    BY <2>1, <1>3
<1>6. e \in Seq(Nat) /\ Len(e) = 1 /\ e[1] = b[f]
  OBVIOUS
<1> HIDE DEF r, s, n, e
<1>7. /\ e \o s \in Seq(Nat) /\ Len(e \o s) = n + 1
      /\ \A i \in 1 .. n + 1 :
           (e \o s)[i] = IF i <= 1 THEN e[i] ELSE s[i - 1]
  <2>1. /\ e \o s \in Seq(Nat) /\ Len(e \o s) = Len(e) + Len(s)
        /\ \A i \in 1 .. Len(e) + Len(s) :
             (e \o s)[i] = IF i <= Len(e) THEN e[i] ELSE s[i - Len(e)]
    BY ONLY <1>5, <1>6, ConcatProperties
  <2>2. Len(e) + Len(s) = n + 1
    BY ONLY <1>2, <1>5, <1>6
  <2>3. /\ Len(e \o s) = n + 1
        /\ \A i \in 1 .. n + 1 :
             (e \o s)[i] = IF i <= Len(e) THEN e[i] ELSE s[i - Len(e)]
    BY ONLY <2>1, <2>2
  <2>4. Len(e) = 1
    BY <1>6
  <2>5. ASSUME NEW i \in 1 .. n + 1
        PROVE  (e \o s)[i] = IF i <= 1 THEN e[i] ELSE s[i - 1]
    BY ONLY <2>3, <2>4, i \in 1 .. n + 1, Zenon
  <2> QED
    BY ONLY <2>1, <2>3, <2>5, Zenon
<1>8. ASSUME NEW i \in 1 .. n + 1 PROVE r[i] = (e \o s)[i]
  <2>1. CASE i = 1
    <3>1. f + i - 1 = f
      BY <2>1 DEF Indices
    <3> QED
      BY <3>1, <2>1, <1>2, <1>4, <1>6, <1>7
  <2>2. CASE i # 1
    <3>1. i - 1 \in 1 .. n /\ f + (i - 1) = f + i - 1 /\ ~(i <= 1)
      BY <2>2, <1>2 DEF Indices
    <3>2. s[i - 1] = b[Wrap(f + i - 1)]
      BY <3>1, <1>5
    <3> QED
      BY <3>1, <3>2, <1>4, <1>7
  <2> QED
    BY <2>1, <2>2
<1>9. r = e \o s
  BY <1>4, <1>7, <1>8, SeqEqual
<1> QED
  BY <1>9 DEF r, s, e, g

-----------------------------------------------------------------------------
(* Two facts on sequences.                                                 *)
LEMMA AppendOfConcat ==
  ASSUME NEW s \in Seq(Nat), NEW t \in Seq(Nat), NEW x \in Nat
  PROVE  s \o Append(t, x) = Append(s \o t, x)
<1>1. /\ <<x>> \in Seq(Nat) /\ s \o t \in Seq(Nat)
      /\ Append(t, x) = t \o <<x>>
  BY AppendIsConcat, ConcatProperties
<1>2. Append(s \o t, x) = (s \o t) \o <<x>>
  BY <1>1, AppendIsConcat
<1>3. (s \o t) \o <<x>> = s \o (t \o <<x>>)
  BY <1>1, ConcatAssociative
<1> QED
  BY <1>1, <1>2, <1>3

LEMMA MoveOne ==
  ASSUME NEW o \in Seq(Nat), NEW b \in Seq(Nat), NEW q \in Seq(Nat),
         NEW x \in Nat
  PROVE  (o \o Append(b, x)) \o q = (o \o b) \o (<<x>> \o q)
<1> DEFINE p == o \o b
           e == <<x>>
<1>1. e \in Seq(Nat) /\ p \in Seq(Nat)
  BY ConcatProperties
<1>2. o \o Append(b, x) = Append(o \o b, x)
  BY AppendOfConcat
<1>3. Append(o \o b, x) = (o \o b) \o <<x>>
  BY <1>1, AppendIsConcat
<1>4. (p \o e) \o q = p \o (e \o q)
  <2> HIDE DEF p, e
  <2> QED
    BY ONLY <1>1, q \in Seq(Nat), ConcatAssociative, SMTT(30)
<1> QED
  BY ONLY <1>2, <1>3, <1>4, Zenon

-----------------------------------------------------------------------------
(* The inductive invariant.                                                *)

(* Nothing has been accepted and nobody runs: the invariant holds.         *)
LEMMA InitIInv == Init => IInv
<1> SUFFICES ASSUME Init PROVE IInv
  OBVIOUS
<1> USE ConsoleAssumption
<1>1. TypeOK
  <2>1. <<>> \in Seq(Nat) /\ Len(<<>>) = 0
    BY EmptySeq
  <2>2. flush \in [pc : FlushLocations, buf : Seq(Nat), drops : Nat]
    BY <2>1 DEF Init, FlushLocations
  <2>3. Len(flush.buf) <= BufSize
    BY <2>1 DEF Init
  <2>4. accepted \in Seq(Nat) /\ out \in Seq(Nat)
    BY <2>1 DEF Init
  <2> QED
    <3>1. /\ ringbuf \in [Indices -> Nat] /\ ring_head \in Indices
          /\ ring_tail \in Indices
      BY DEF Init, Indices
    <3>2. /\ writer \in [Writers ->
               [pc : {"idle", "fill", "advance", "drop", "unlock", "signal",
                      "relock"},
                left : 0 .. MaxLength, val : Nat]]
          /\ writes \in 0 .. MaxWrites
      BY DEF Init
    <3> QED
      BY <2>2, <2>3, <2>4, <3>1, <3>2 DEF Init, TypeOK
<1>2. SemaphoreExact /\ StdoutExact /\ HalfDone /\ Quiet
  BY DEF Init, SemaphoreExact, FlushHolds, StdoutExact, Filling, HalfDone,
         Quiet
<1>3. OutputInOrder
  <2>1. Pending \in Seq(Nat) /\ Len(Pending) = 0
    <3>1. From = 0 /\ Pending = Ring(ringbuf, ring_head, 0)
      BY DEF Init, From, Pending, Ring
    <3>2. Dist(0, 0) = 0 /\ ring_head = 0
      BY DEF Dist, Init
    <3>3. ringbuf \in [Indices -> Nat] /\ 0 \in Indices
      BY <1>1, <3>2 DEF TypeOK
    <3>4. /\ Ring(ringbuf, 0, 0) \in Seq(Nat)
          /\ Len(Ring(ringbuf, 0, 0)) = Dist(0, 0)
      BY <3>3, RingIsSeq
    <3> QED
      BY <3>1, <3>2, <3>4
  <2>2. Pending = <<>>
    BY <2>1
  <2> QED
    BY <2>2, EmptySeq, ConcatEmptySeq DEF Init, OutputInOrder
<1> QED
  BY <1>1, <1>2, <1>3 DEF IInv

(* A step of a writer moves it on, and may set what is left to write or    *)
(* the count it has read.                                                  *)
WriterPcs == {"idle", "fill", "advance", "drop", "unlock", "signal", "relock"}
WriterRecords ==
  [Writers -> [pc : WriterPcs, left : 0 .. MaxLength, val : Nat]]

LEMMA WriterTypes ==
  ASSUME writer \in WriterRecords, NEW w \in Writers, NEW p \in WriterPcs
  PROVE  /\ [writer EXCEPT ![w].pc = p] \in WriterRecords
         /\ \A n \in 0 .. MaxLength :
              [writer EXCEPT ![w].pc = p, ![w].left = n] \in WriterRecords
         /\ \A v \in Nat :
              [writer EXCEPT ![w].pc = p, ![w].val = v] \in WriterRecords
<1>1. ASSUME NEW f \in WriterRecords
      PROVE  /\ [f EXCEPT ![w].pc = p] \in WriterRecords
             /\ \A n \in 0 .. MaxLength :
                  [f EXCEPT ![w].left = n] \in WriterRecords
             /\ \A v \in Nat : [f EXCEPT ![w].val = v] \in WriterRecords
  BY <1>1 DEF WriterRecords
<1>2. [writer EXCEPT ![w].pc = p] \in WriterRecords
  BY <1>1
<1> QED
  BY <1>1, <1>2, Zenon

LEMMA TypesOfWriters ==
  TypeOK => /\ writer \in WriterRecords
            /\ \A w \in Writers : writer[w].left \in 0 .. MaxLength
BY DEF TypeOK, WriterRecords, WriterPcs

(* Every access keeps the types.                                           *)
(* What one of the writers does in _write.                                 *)
WriterStep(w) ==
  \/ FillByte(w) \/ FillAdvance(w) \/ FillFull(w) \/ FillDrop(w)
  \/ FillDone(w) \/ WriteUnlock(w) \/ console_signal_fill(w) \/ WriteRelock(w)

LEMMA WriterTypeOK ==
  ASSUME IInv, NEW w \in Writers, WriterStep(w)
  PROVE  TypeOK'
<1> USE ConsoleAssumption, RingIndices DEF ringVars
<1>B. Byte \in Nat /\ Append(accepted, Byte) \in Seq(Nat)
  <2>1. accepted \in Seq(Nat) /\ Len(accepted) \in Nat
    BY LenProperties DEF IInv, TypeOK
  <2> QED
    BY <2>1, AppendProperties DEF Byte
<1>W. ASSUME writer' \in WriterRecords,
             UNCHANGED <<phase, ring_tail, write_sem, flush, caller, writes>>,
             ringbuf' \in [Indices -> Nat], ring_head' \in Indices,
             dropped_bytes' \in Nat, signal' \in {0, 1},
             stdout' \in Writers \cup {None},
             accepted' \in Seq(Nat), out' = out, silent' \in BOOLEAN
      PROVE  TypeOK'
  BY ONLY <1>W, IInv DEF IInv, TypeOK, WriterRecords, WriterPcs
<1>K. /\ ringbuf \in [Indices -> Nat] /\ ring_head \in Indices
      /\ dropped_bytes \in Nat /\ signal \in {0, 1}
      /\ stdout \in Writers \cup {None}
      /\ accepted \in Seq(Nat) /\ silent \in BOOLEAN
  BY DEF IInv, TypeOK
<1>P. /\ WriterPcs = {"idle", "fill", "advance", "drop", "unlock", "signal",
                      "relock"}
      /\ writer[w].left \in 0 .. MaxLength
      /\ \A p \in WriterPcs :
           /\ [writer EXCEPT ![w].pc = p] \in WriterRecords
           /\ \A n \in 0 .. MaxLength :
                [writer EXCEPT ![w].pc = p, ![w].left = n] \in WriterRecords
           /\ \A v \in Nat :
                [writer EXCEPT ![w].pc = p, ![w].val = v] \in WriterRecords
  BY WriterTypes, TypesOfWriters DEF WriterPcs, IInv
<1>5. CASE FillByte(w)
  <2>1. ringbuf' \in [Indices -> Nat]
    BY <1>B, <1>5, <1>K DEF FillByte
  <2> QED
    BY <1>5, <1>W, <1>K, <1>P, <2>1 DEF FillByte
<1>6. CASE FillAdvance(w)
  <2>1. accepted' \in Seq(Nat) /\ ring_head' \in Indices
    BY <1>B, <1>6, <1>K DEF FillAdvance
  <2>2. writer[w].left - 1 \in 0 .. MaxLength
    <3>1. writer[w].left > 0
      BY <1>6 DEF FillAdvance, HalfDone, IInv
    <3> QED
      BY <1>P, <3>1
  <2>3. writer' \in WriterRecords
    <3>1. writer' = [writer EXCEPT ![w].pc = "fill",
                                   ![w].left = writer[w].left - 1]
      BY <1>6, TypesOfWriters DEF FillAdvance, IInv
    <3> QED
      BY <1>P, <2>2, <3>1
  <2> QED
    BY <1>6, <1>W, <1>K, <2>1, <2>3 DEF FillAdvance
<1>7. CASE FillFull(w)
  <2>1. writer' \in WriterRecords
    BY <1>7, <1>K, <1>P DEF FillFull
  <2> QED
    BY <1>7, <1>W, <1>K, <2>1 DEF FillFull
<1>8. CASE FillDrop(w)
  <2>1. writer[w].val + writer[w].left \in Nat /\ 0 \in 0 .. MaxLength
    <3>1. writer[w].val \in Nat /\ writer[w].left \in Nat
      BY DEF IInv, TypeOK
    <3> QED
      BY <3>1
  <2>2. writer' \in WriterRecords
    BY <1>8, <1>P, <2>1 DEF FillDrop
  <2> QED
    BY <1>8, <1>W, <1>K, <2>1, <2>2 DEF FillDrop
<1>9. CASE FillDone(w)
  BY <1>9, <1>W, <1>K, <1>P DEF FillDone
<1>10. CASE WriteUnlock(w)
  BY <1>10, <1>W, <1>K, <1>P DEF WriteUnlock
<1>11. CASE console_signal_fill(w)
  BY <1>11, <1>W, <1>K, <1>P DEF console_signal_fill
<1>12. CASE WriteRelock(w)
  BY <1>12, <1>W, <1>K, <1>P DEF WriteRelock
<1> QED
  BY <1>5, <1>6, <1>7, <1>8, <1>9, <1>10, <1>11, <1>12 DEF WriterStep

(* Every access keeps the types.                                           *)
LEMMA NextTypeOK == IInv /\ [Next]_vars => TypeOK'
<1> SUFFICES ASSUME IInv, [Next]_vars PROVE TypeOK'
  OBVIOUS
<1> USE ConsoleAssumption, RingIndices
    DEF IInv, TypeOK, FlushLocations, ringVars, users
<1>0. Byte \in Nat /\ Append(accepted, Byte) \in Seq(Nat)
  <2>1. Len(accepted) \in Nat
    BY LenProperties
  <2> QED
    BY <2>1, AppendProperties DEF Byte
<1>1. CASE console_init
  BY <1>1 DEF console_init
<1>2. CASE StartScheduler
  BY <1>2 DEF StartScheduler
<1>3. CASE FillPolling
  <2>1. Append(out, Byte) \in Seq(Nat)
    BY <1>0, AppendProperties
  <2> QED
    <3>1. accepted' \in Seq(Nat) /\ out' \in Seq(Nat)
      BY <1>0, <1>3, <2>1 DEF FillPolling
    <3> QED
      <4>1. /\ writes' \in 0 .. MaxWrites
            /\ UNCHANGED <<phase, ringVars, dropped_bytes, write_sem, signal,
                           stdout, writer, flush, caller, silent>>
        BY ONLY <1>3, TypeOK, ConsoleAssumption DEF FillPolling, TypeOK
      <4> QED
        BY ONLY <3>1, <4>1, TypeOK DEF TypeOK, ringVars
<1>4. ASSUME NEW w \in Writers, NEW n \in 1 .. MaxLength,
             printf(w, n) PROVE TypeOK'
  BY <1>4 DEF printf
<1>5. ASSUME NEW w \in Writers, WriterStep(w) PROVE TypeOK'
  BY ONLY <1>5, IInv, WriterTypeOK
<1>13. CASE FlushWait
  BY <1>13 DEF FlushWait
<1>14. CASE FlushCheck
  BY <1>14 DEF FlushCheck
<1>15. CASE FlushLock
  BY <1>15 DEF FlushLock
<1>16. CASE FlushReadByte
  <2>1. ringbuf[ring_tail] \in Nat
    OBVIOUS
  <2>2. /\ Append(flush.buf, ringbuf[ring_tail]) \in Seq(Nat)
        /\ Len(Append(flush.buf, ringbuf[ring_tail])) = Len(flush.buf) + 1
    BY <2>1, AppendProperties
  <2>3. Len(flush.buf) \in Nat
    BY LenProperties
  <2> QED
    <3>1. flush' \in [pc : FlushLocations, buf : Seq(Nat), drops : Nat]
      BY <1>16, <2>2 DEF FlushReadByte
    <3>2. Len(flush'.buf) <= BufSize
      BY <1>16, <2>2, <2>3 DEF FlushReadByte
    <3> QED
      BY <1>16, <3>1, <3>2 DEF FlushReadByte
<1>17. CASE FlushAdvance
  BY <1>17 DEF FlushAdvance
<1>18. CASE FlushReadDone
  BY <1>18 DEF FlushReadDone
<1>19. CASE FlushSend
  <2>1. out \o flush.buf \in Seq(Nat)
    BY ConcatProperties
  <2>2. <<>> \in Seq(Nat) /\ Len(<<>>) = 0
    BY EmptySeq
  <2> QED
    <3>1. flush' \in [pc : FlushLocations, buf : Seq(Nat), drops : Nat]
      BY <1>19, <2>2 DEF FlushSend
    <3>2. Len(flush'.buf) <= BufSize
      BY <1>19, <2>2 DEF FlushSend
    <3>3. out' \in Seq(Nat)
      BY <1>19, <2>1 DEF FlushSend
    <3> QED
      BY <1>19, <3>1, <3>2, <3>3 DEF FlushSend
<1>20. CASE FlushUnlock
  BY <1>20 DEF FlushUnlock
<1>21. CASE FlushDrops
  BY <1>21 DEF FlushDrops
<1>22. CASE FlushZero
  BY <1>22 DEF FlushZero
<1>23. CASE FlushReport
  BY <1>23 DEF FlushReport
<1>24. ASSUME NEW c \in Callers, SmcEnter(c) PROVE TypeOK'
  BY <1>24 DEF SmcEnter
<1>25. ASSUME NEW c \in Callers, SmcLeave(c) PROVE TypeOK'
  BY <1>25 DEF SmcLeave
<1>26. CASE UNCHANGED vars
  BY <1>26 DEF vars
<1> QED
  BY <1>1, <1>2, <1>3, <1>4, <1>5, <1>13, <1>14, <1>15, <1>16, <1>17, <1>18,
     <1>19, <1>20, <1>21, <1>22, <1>23, <1>24, <1>25, <1>26
  DEF Next, Write, WriterStep, console_flush_task

(* Who holds console_write_sem and the STDOUT lock.                        *)
LEMMA NextLocks ==
  IInv /\ [Next]_vars => (SemaphoreExact /\ StdoutExact /\ Quiet)'
<1> DEFINE Good == SemaphoreExact /\ StdoutExact /\ Quiet
<1> SUFFICES ASSUME IInv, [Next]_vars PROVE Good'
  OBVIOUS
<1> USE ConsoleAssumption
    DEF IInv, TypeOK, SemaphoreExact, FlushHolds, StdoutExact, Filling,
        Quiet, ringVars, users
<1>1. CASE console_init
  BY <1>1 DEF console_init
<1>2. CASE StartScheduler
  BY <1>2 DEF StartScheduler
<1>3. CASE FillPolling
  BY <1>3 DEF FillPolling
<1>4. ASSUME NEW w \in Writers, NEW n \in 1 .. MaxLength,
             printf(w, n) PROVE Good'
  BY <1>4 DEF printf
<1>5. ASSUME NEW w \in Writers, WriterStep(w) PROVE Good'
  <2>1. /\ UNCHANGED <<phase, write_sem, flush, caller>> /\ phase = "run"
        /\ \A v \in Writers \ {w} : writer'[v] = writer[v]
    <3>1. writer[w].pc # "idle"
      BY <1>5 DEF WriterStep, FillByte, FillAdvance, FillFull, FillDrop,
                  FillDone, WriteUnlock, console_signal_fill, WriteRelock
    <3> QED
      BY <1>5, <3>1 DEF WriterStep, FillByte, FillAdvance, FillFull, FillDrop,
                  FillDone, WriteUnlock, console_signal_fill, WriteRelock
  <2>2. \/ stdout' = stdout /\ (Filling(w)' <=> Filling(w))
        \/ stdout' = None /\ Filling(w) /\ ~Filling(w)'
    BY <1>5 DEF WriterStep, FillByte, FillAdvance, FillFull, FillDrop,
                FillDone, WriteUnlock, console_signal_fill, WriteRelock
  <2> QED
    BY ONLY <2>1, <2>2, IInv, ConsoleAssumption
    DEF IInv, SemaphoreExact, FlushHolds, StdoutExact, Filling, Quiet
<1>13. CASE FlushWait
  BY <1>13 DEF FlushWait
<1>14. CASE FlushCheck
  BY <1>14 DEF FlushCheck
<1>15. CASE FlushLock
  BY <1>15 DEF FlushLock
<1>16. CASE FlushReadByte
  BY <1>16 DEF FlushReadByte
<1>17. CASE FlushAdvance
  BY <1>17 DEF FlushAdvance
<1>18. CASE FlushReadDone
  BY <1>18 DEF FlushReadDone
<1>19. CASE FlushSend
  BY <1>19 DEF FlushSend
<1>20. CASE FlushUnlock
  BY <1>20 DEF FlushUnlock
<1>21. CASE FlushDrops
  BY <1>21 DEF FlushDrops
<1>22. CASE FlushZero
  BY <1>22 DEF FlushZero
<1>23. CASE FlushReport
  BY <1>23 DEF FlushReport
<1>24. ASSUME NEW c \in Callers, SmcEnter(c) PROVE Good'
  BY <1>24 DEF SmcEnter
<1>25. ASSUME NEW c \in Callers, SmcLeave(c) PROVE Good'
  BY <1>25 DEF SmcLeave
<1>26. CASE UNCHANGED vars
  BY <1>26 DEF vars
<1> QED
  BY <1>1, <1>2, <1>3, <1>4, <1>5, <1>13, <1>14, <1>15, <1>16, <1>17, <1>18,
     <1>19, <1>20, <1>21, <1>22, <1>23, <1>24, <1>25, <1>26
  DEF Next, Write, WriterStep, console_flush_task

(* The index after i determines i.                                         *)
LEMMA SuccInjective ==
  \A i, j \in Indices : Succ(i) = Succ(j) => i = j
<1> TAKE i, j \in Indices
<1>1. Succ(i) = Wrap(i + 1) /\ Succ(j) = Wrap(j + 1)
  BY RingIndices
<1>2. Wrap(i + 1) = Wrap(j + 1) => i = j
  BY ConsoleAssumption DEF Wrap, Indices
<1> QED
  BY <1>1, <1>2

(* The halves of a store and of a read fit together, whoever moves between *)
(* them: only one writer is in the ring, and the tail only makes room.     *)
LEMMA NextHalfDone == IInv /\ [Next]_vars => HalfDone'
<1> SUFFICES ASSUME IInv, [Next]_vars PROVE HalfDone'
  OBVIOUS
<1> USE ConsoleAssumption
    DEF IInv, TypeOK, HalfDone, console_is_ringbuf_full, Byte, ringVars,
        users
<1>0. \A i \in Indices : Succ(i) \in Indices
  BY RingIndices
<1>1. CASE console_init
  BY <1>1 DEF console_init, Quiet
<1>2. CASE StartScheduler
  BY <1>2 DEF StartScheduler
<1>3. CASE FillPolling
  BY <1>3 DEF FillPolling, Quiet
<1>4. ASSUME NEW w \in Writers, NEW n \in 1 .. MaxLength,
             printf(w, n) PROVE HalfDone'
  BY <1>4 DEF printf
<1>5. ASSUME NEW w \in Writers, FillByte(w) PROVE HalfDone'
  BY <1>5 DEF FillByte, StdoutExact, Filling
<1>6. ASSUME NEW w \in Writers, FillAdvance(w) PROVE HalfDone'
  BY <1>6 DEF FillAdvance, StdoutExact, Filling
<1>7. ASSUME NEW w \in Writers, FillFull(w) PROVE HalfDone'
  BY <1>7 DEF FillFull
<1>8. ASSUME NEW w \in Writers, FillDrop(w) PROVE HalfDone'
  BY <1>8 DEF FillDrop
<1>9. ASSUME NEW w \in Writers, FillDone(w) PROVE HalfDone'
  BY <1>9 DEF FillDone
<1>10. ASSUME NEW w \in Writers, WriteUnlock(w) PROVE HalfDone'
  BY <1>10 DEF WriteUnlock
<1>11. ASSUME NEW w \in Writers, console_signal_fill(w) PROVE HalfDone'
  BY <1>11 DEF console_signal_fill
<1>12. ASSUME NEW w \in Writers, WriteRelock(w) PROVE HalfDone'
  BY <1>12 DEF WriteRelock
<1>13. CASE FlushWait
  BY <1>13 DEF FlushWait
<1>14. CASE FlushCheck
  BY <1>14 DEF FlushCheck
<1>15. CASE FlushLock
  BY <1>15 DEF FlushLock
<1>16. CASE FlushReadByte
  BY <1>16 DEF FlushReadByte
<1>17. CASE FlushAdvance
  BY <1>17, SuccInjective DEF FlushAdvance
<1>18. CASE FlushReadDone
  BY <1>18 DEF FlushReadDone
<1>19. CASE FlushSend
  BY <1>19 DEF FlushSend
<1>20. CASE FlushUnlock
  BY <1>20 DEF FlushUnlock
<1>21. CASE FlushDrops
  BY <1>21 DEF FlushDrops
<1>22. CASE FlushZero
  BY <1>22 DEF FlushZero
<1>23. CASE FlushReport
  BY <1>23 DEF FlushReport
<1>24. ASSUME NEW c \in Callers, SmcEnter(c) PROVE HalfDone'
  BY <1>24 DEF SmcEnter
<1>25. ASSUME NEW c \in Callers, SmcLeave(c) PROVE HalfDone'
  BY <1>25 DEF SmcLeave
<1>26. CASE UNCHANGED vars
  BY <1>26 DEF vars
<1> QED
  BY <1>1, <1>2, <1>3, <1>4, <1>5, <1>6, <1>7, <1>8, <1>9, <1>10, <1>11,
     <1>12, <1>13, <1>14, <1>15, <1>16, <1>17, <1>18, <1>19, <1>20, <1>21,
     <1>22, <1>23, <1>24, <1>25, <1>26 DEF Next, Write, console_flush_task

(* A step that leaves what was accepted, sent and copied alone, the ring   *)
(* and the place from where it is read, leaves the order alone.            *)
LEMMA SameOrder ==
  ASSUME OutputInOrder, out' = out, accepted' = accepted,
         flush'.buf = flush.buf, Pending' = Pending
  PROVE  OutputInOrder'
BY DEF OutputInOrder

(* The ring loses, repeats and reorders nothing.                           *)
LEMMA NextOrder == IInv /\ [Next]_vars => OutputInOrder'
<1> SUFFICES ASSUME IInv, [Next]_vars PROVE OutputInOrder'
  OBVIOUS
<1> USE DEF ringVars, users
<1>a. /\ ringbuf \in [Indices -> Nat] /\ ring_head \in Indices
      /\ ring_tail \in Indices /\ From \in Indices
      /\ out \in Seq(Nat) /\ accepted \in Seq(Nat)
      /\ flush.buf \in Seq(Nat) /\ Byte \in Nat
  BY RingIndices, LenProperties DEF IInv, TypeOK, From, Byte
<1>b. /\ Pending = Ring(ringbuf, ring_head, From)
      /\ Pending' = Ring(ringbuf', ring_head', From')
  BY DEF Pending, Ring
<1>c. Pending \in Seq(Nat)
  BY <1>a, <1>b, RingIsSeq
<1>d. ASSUME ringbuf' = ringbuf, ring_head' = ring_head, From' = From,
             out' = out, accepted' = accepted, flush'.buf = flush.buf
      PROVE  OutputInOrder'
  BY <1>b, <1>d, SameOrder DEF IInv
<1>1. CASE console_init
  BY <1>1, <1>d DEF console_init, From, IInv, TypeOK, Quiet
<1>2. CASE StartScheduler
  BY <1>2, <1>d DEF StartScheduler, From, IInv, TypeOK
<1>3. CASE FillPolling
  <2>1. flush.buf = <<>> /\ ring_head = From /\ From' = From
    BY <1>3 DEF FillPolling, IInv, Quiet, HalfDone, From
  <2>2. Pending = <<>> /\ Pending' = <<>>
    <3>1. Dist(ring_head, From) = 0
      BY <2>1, <1>a DEF Dist, Indices
    <3>2. Pending' = Pending
      BY <1>3, <2>1, <1>b DEF FillPolling
    <3>3. Len(Pending) = 0
      BY <3>1, <1>a, <1>b, RingIsSeq
    <3> QED
      BY <3>2, <3>3, <1>c
  <2>3. out = accepted
    BY <2>1, <2>2, <1>a, ConcatEmptySeq DEF IInv, OutputInOrder
  <2>4. Append(out, Byte) \in Seq(Nat)
    BY <1>a, AppendProperties
  <2>5. out' = Append(out, Byte) /\ accepted' = out' /\ flush'.buf = <<>>
    BY <1>3, <2>1, <2>3 DEF FillPolling
  <2> QED
    BY <2>2, <2>4, <2>5, ConcatEmptySeq DEF OutputInOrder
<1>4. ASSUME NEW w \in Writers, NEW n \in 1 .. MaxLength,
             printf(w, n) PROVE OutputInOrder'
  BY <1>4, <1>d DEF printf, From, IInv, TypeOK
<1>5. ASSUME NEW w \in Writers, FillByte(w) PROVE OutputInOrder'
  <2>1. From' = From /\ ring_head' = ring_head /\ flush' = flush
    BY <1>5 DEF FillByte, From
  <2>2. ringbuf' = [ringbuf EXCEPT ![ring_head] = Byte]
    BY <1>5 DEF FillByte
  <2>3. Pending' = Pending
    BY <2>1, <2>2, <1>a, <1>b, RingStore
  <2> QED
    BY <1>5, <2>1, <2>3, SameOrder DEF FillByte, IInv
<1>6. ASSUME NEW w \in Writers, FillAdvance(w) PROVE OutputInOrder'
  <2>1. /\ ringbuf' = ringbuf /\ ring_head' = Succ(ring_head)
        /\ From' = From /\ out' = out /\ flush' = flush
        /\ accepted' = Append(accepted, Byte)
    BY <1>6 DEF FillAdvance, From
  <2>2. Succ(ring_head) # From /\ ringbuf[ring_head] = Byte
    BY <1>6, <1>a, SuccInjective
       DEF FillAdvance, From, IInv, HalfDone, console_is_ringbuf_full
  <2>3. Pending' = Append(Pending, Byte)
    BY <2>1, <2>2, <1>a, <1>b, RingAppend
  <2>4. (out \o flush.buf) \o Append(Pending, Byte) =
          Append((out \o flush.buf) \o Pending, Byte)
    <3>1. out \o flush.buf \in Seq(Nat)
      BY <1>a, ConcatProperties
    <3> QED
      BY <3>1, <1>a, <1>c, AppendOfConcat
  <2> QED
    BY <2>1, <2>3, <2>4 DEF IInv, OutputInOrder
<1>7. ASSUME NEW w \in Writers, FillFull(w) PROVE OutputInOrder'
  BY <1>7, <1>d DEF FillFull, From, IInv, TypeOK
<1>8. ASSUME NEW w \in Writers, FillDrop(w) PROVE OutputInOrder'
  BY <1>8, <1>d DEF FillDrop, From, IInv, TypeOK
<1>9. ASSUME NEW w \in Writers, FillDone(w) PROVE OutputInOrder'
  BY <1>9, <1>d DEF FillDone, From, IInv, TypeOK
<1>10. ASSUME NEW w \in Writers, WriteUnlock(w) PROVE OutputInOrder'
  BY <1>10, <1>d DEF WriteUnlock, From, IInv, TypeOK
<1>11. ASSUME NEW w \in Writers, console_signal_fill(w) PROVE OutputInOrder'
  BY <1>11, <1>d DEF console_signal_fill, From, IInv, TypeOK
<1>12. ASSUME NEW w \in Writers, WriteRelock(w) PROVE OutputInOrder'
  BY <1>12, <1>d DEF WriteRelock, From, IInv, TypeOK
<1>13. CASE FlushWait
  BY <1>13, <1>d DEF FlushWait, From, IInv, TypeOK
<1>14. CASE FlushCheck
  BY <1>14, <1>d DEF FlushCheck, From, IInv, TypeOK
<1>15. CASE FlushLock
  BY <1>15, <1>d DEF FlushLock, From, IInv, TypeOK
<1>16. CASE FlushReadByte
  <2> DEFINE x == ringbuf[ring_tail]
             Q == Ring(ringbuf, ring_head, Succ(ring_tail))
  <2>1. /\ From = ring_tail /\ From' = Succ(ring_tail)
        /\ ringbuf' = ringbuf /\ ring_head' = ring_head
        /\ out' = out /\ accepted' = accepted
        /\ flush'.buf = Append(flush.buf, x) /\ ring_tail # ring_head
    BY <1>16 DEF FlushReadByte, From, IInv, TypeOK, Succ
  <2>2. Pending = <<x>> \o Q /\ Pending' = Q
    BY <2>1, <1>a, <1>b, RingTake
  <2>3. x \in Nat /\ Q \in Seq(Nat)
    BY <1>a, RingIndices, RingIsSeq
  <2> HIDE DEF x, Q
  <2>4. (out \o Append(flush.buf, x)) \o Q =
          (out \o flush.buf) \o (<<x>> \o Q)
    <3> DEFINE o == out
               b == flush.buf
    <3>1. o \in Seq(Nat) /\ b \in Seq(Nat)
      BY <1>a
    <3> HIDE DEF o, b
    <3>2. (o \o Append(b, x)) \o Q = (o \o b) \o (<<x>> \o Q)
      BY <2>3, <3>1, MoveOne
    <3> QED
      BY <3>2 DEF o, b
  <2> QED
    BY <2>1, <2>2, <2>4 DEF IInv, OutputInOrder
<1>17. CASE FlushAdvance
  BY <1>17, <1>d DEF FlushAdvance, From, IInv, TypeOK
<1>18. CASE FlushReadDone
  BY <1>18, <1>d DEF FlushReadDone, From, IInv, TypeOK
<1>19. CASE FlushSend
  <2>1. /\ ringbuf' = ringbuf /\ ring_head' = ring_head /\ From' = From
        /\ accepted' = accepted /\ out' = out \o flush.buf
        /\ flush'.buf = <<>>
    BY <1>19 DEF FlushSend, From, IInv, TypeOK
  <2>2. Pending' = Pending
    BY <2>1, <1>b
  <2>3. out \o flush.buf \in Seq(Nat)
    BY <1>a, ConcatProperties
  <2>4. (out \o flush.buf) \o <<>> = out \o flush.buf
    BY <2>3, ConcatEmptySeq
  <2> QED
    BY <2>1, <2>2, <2>4 DEF IInv, OutputInOrder
<1>20. CASE FlushUnlock
  BY <1>20, <1>d DEF FlushUnlock, From, IInv, TypeOK
<1>21. CASE FlushDrops
  BY <1>21, <1>d DEF FlushDrops, From, IInv, TypeOK
<1>22. CASE FlushZero
  BY <1>22, <1>d DEF FlushZero, From, IInv, TypeOK
<1>23. CASE FlushReport
  BY <1>23, <1>d DEF FlushReport, From, IInv, TypeOK
<1>24. ASSUME NEW c \in Callers, SmcEnter(c) PROVE OutputInOrder'
  BY <1>24, <1>d DEF SmcEnter, From, IInv, TypeOK
<1>25. ASSUME NEW c \in Callers, SmcLeave(c) PROVE OutputInOrder'
  BY <1>25, <1>d DEF SmcLeave, From, IInv, TypeOK
<1>26. CASE UNCHANGED vars
  BY <1>26, <1>d DEF vars, From
<1> QED
  BY <1>1, <1>2, <1>3, <1>4, <1>5, <1>6, <1>7, <1>8, <1>9, <1>10, <1>11,
     <1>12, <1>13, <1>14, <1>15, <1>16, <1>17, <1>18, <1>19, <1>20, <1>21,
     <1>22, <1>23, <1>24, <1>25, <1>26 DEF Next, Write, console_flush_task

(* The invariant of the console.                                           *)
THEOREM Invariance == Spec => []IInv
<1>1. IInv /\ [Next]_vars => IInv'
  BY NextTypeOK, NextLocks, NextHalfDone, NextOrder DEF IInv
<1> QED
  BY <1>1, InitIInv, PTL DEF Spec

(* Every byte accepted by _write is on the line, in int_buf or in the      *)
(* ring, in order and once, for every size of the ring.                    *)
THEOREM Order == Spec => []OutputInOrder
<1>1. IInv => OutputInOrder
  BY DEF IInv
<1> QED
  BY <1>1, Invariance, PTL

(* No data leaves through the UART while smc_call has a core in the        *)
(* firmware, for any number of callers.                                    *)
THEOREM Exclusion == Spec => []DataOutsideFirmware
<1>1. IInv => DataOutsideFirmware
  BY DEF IInv, SemaphoreExact, FlushHolds, DataOutsideFirmware
<1> QED
  BY <1>1, Invariance, PTL
=============================================================================
