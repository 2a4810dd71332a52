---------------------------- MODULE JournalProofs ----------------------------
(***************************************************************************)
(* Proofs about Journal, for any number of writers and commands, any sizes *)
(* and any capacity of the buffer.                                         *)
(*                                                                         *)
(* NothingIsLost is not inductive: while one caller is inside Flush the    *)
(* buffer still holds what the file has got already, so Kept says which of *)
(* the two the stream is made of, OneFlush that without a race only one    *)
(* caller is there, and BufferGoes that a dead process has no buffer.      *)
(* Behind needs no buffer: the file is a prefix also after an I/O error.   *)
(* For Close, Acknowledged says that a command is in the stream before it  *)
(* is answered, and DueIsWritten that the Flush of Close has taken it to   *)
(* the file, which only grows from then on.                                *)
(***************************************************************************)
EXTENDS Journal, SequenceTheorems, TLAPS

OneFlush == ~raced => \A f, g \in Flusher : flush[f] = "writing" /\ flush[g] = "writing" => f = g
Behind == ~raced => \E rest \in Seq(Unit) : stream = file \o rest
Kept == Running /\ ~raced /\ ~err =>
          IF Flushing THEN stream = file ELSE stream = file \o buf
BufferGoes == ~Running => buf = << >>

Working == \A w \in Writer : pc[w] # "idle" => cmd[w] \in Command

FileInv == TypeOK /\ Working /\ OneFlush /\ Behind /\ Kept /\ BufferGoes

Acknowledged == acked \subseteq Whole(stream) /\ due \subseteq acked
DueIsWritten ==
  ~raced /\ ~err /\ (status = "closed" \/ flush["close"] \in {"writing", "done"}) =>
    due \subseteq Whole(file)

CloseInv == FileInv /\ Acknowledged /\ DueIsWritten

-----------------------------------------------------------------------------
\* The units of a command are a sequence of units.
LEMMA UnitsAreUnits ==
  ASSUME NEW c \in Command
  PROVE  Units(c) \in Seq(Unit) /\ Len(Units(c)) = Size[c]
         /\ \A k \in 1 .. Size[c] : Units(c)[k] = <<c, k>>
<1>1. Size[c] \in Nat
  BY JournalAssumption
<1>2. Units(c) \in [1 .. Size[c] -> Unit]
  BY <1>1 DEF Units, Unit
<1> QED
  BY <1>1, <1>2 DEF Units

\* A sequence is its first n elements followed by the others.
LEMMA Split ==
  ASSUME NEW S, NEW s \in Seq(S), NEW n \in 0 .. Len(s)
  PROVE  /\ SubSeq(s, 1, n) \in Seq(S)
         /\ SubSeq(s, n + 1, Len(s)) \in Seq(S)
         /\ s = SubSeq(s, 1, n) \o SubSeq(s, n + 1, Len(s))
<1>1. Len(s) \in Nat
  OBVIOUS
<1>2. \A i \in 1 .. Len(s) : s[i] \in S
  BY ElementOfSeq
<1>3. SubSeq(s, 1, n) \in Seq(S) /\ SubSeq(s, n + 1, Len(s)) \in Seq(S)
  BY <1>1, <1>2, SubSeqProperties
<1>4. SubSeq(s, 1, n) \o SubSeq(s, n + 1, Len(s)) = SubSeq(s, 1, Len(s))
  <2>1. 1 \in 1 .. Len(s) + 1 /\ n \in 1 - 1 .. Len(s) /\ Len(s) \in n .. Len(s)
    BY <1>1
  <2> QED
    BY ONLY <2>1, ConcatAdjacentSubSeq, s \in Seq(S)
<1> QED
  BY <1>3, <1>4, SubSeqFull

\* What a write sends to the file is a part of the buffer and its units.
LEMMA SpillBounds ==
  ASSUME TypeOK, NEW u \in Seq(Unit)
  PROVE  /\ buf \o u \in Seq(Unit) /\ Len(buf \o u) \in Nat
         /\ Spill(u) \in 0 .. Len(buf \o u)
         /\ Spill(u) > 0 => Capacity < Len(buf \o u)
<1>1. buf \in Seq(Unit) /\ Capacity \in Nat /\ Len(buf) \in Nat /\ Len(u) \in Nat
  BY JournalAssumption DEF TypeOK
<1>2. buf \o u \in Seq(Unit) /\ Len(buf \o u) = Len(buf) + Len(u)
  BY <1>1, ConcatProperties
<1> QED
  BY <1>1, <1>2 DEF Spill

\* Whatever Buffered does with its units, file and buffer together grow by
\* them at the end.
LEMMA BufferedAppends ==
  ASSUME TypeOK, NEW u \in Seq(Unit), Buffered(u)
  PROVE  /\ buf' \in Seq(Unit) /\ file' \in Seq(Unit)
         /\ file' \o buf' = (file \o buf) \o u
<1> DEFINE all == buf \o u
           one == SubSeq(all, 1, Spill(u))
           two == SubSeq(all, Spill(u) + 1, Len(all))
<1>1. buf \in Seq(Unit) /\ file \in Seq(Unit)
  BY DEF TypeOK
<1>2. one \in Seq(Unit) /\ two \in Seq(Unit) /\ all = one \o two
  BY SpillBounds, Split
<1>3. file' = file \o one /\ buf' = two
  BY DEF Buffered
<1>4. file \o all = (file \o buf) \o u
  BY <1>1, ConcatAssociative
<1> HIDE DEF all, one, two
<1>5. file \o (one \o two) = (file \o one) \o two /\ file \o one \in Seq(Unit)
  BY <1>1, <1>2, ConcatAssociative, ConcatProperties
<1> QED
  BY <1>2, <1>3, <1>4, <1>5

\* A write that fails adds a part of buffer and units to the file.
LEMMA FailsAppends ==
  ASSUME TypeOK, NEW u \in Seq(Unit), Spill(u) > 0, Fails(u)
  PROVE  /\ buf' \in Seq(Unit) /\ file' \in Seq(Unit)
         /\ \E rest \in Seq(Unit) : (file \o buf) \o u = file' \o rest
<1> DEFINE all == buf \o u
<1>1. buf \in Seq(Unit) /\ file \in Seq(Unit) /\ Capacity \in Nat
  BY JournalAssumption DEF TypeOK
<1>2. all \in Seq(Unit) /\ Len(all) \in Nat /\ Spill(u) \in 0 .. Len(all) /\ Capacity < Len(all)
  BY SpillBounds
<1>3. PICK n \in 0 .. (IF status = "open" THEN Spill(u) - 1 ELSE 0) :
        /\ file' = file \o SubSeq(all, 1, n)
        /\ buf' = IF buf = << >> \/ n >= Capacity THEN << >> ELSE SubSeq(all, n + 1, Capacity)
  BY DEF Fails
<1>4. n \in 0 .. Len(all)
  BY <1>2, <1>3
<1> DEFINE one == SubSeq(all, 1, n)
           two == SubSeq(all, n + 1, Len(all))
<1>5. one \in Seq(Unit) /\ two \in Seq(Unit) /\ all = one \o two
  BY <1>2, <1>4, Split
<1>6. file' \in Seq(Unit) /\ file' = file \o one
  BY <1>1, <1>3, <1>5, ConcatProperties
<1>7. buf' \in Seq(Unit)
  <2>1. CASE buf = << >> \/ n >= Capacity
    BY <1>3, <2>1
  <2>2. CASE ~(buf = << >> \/ n >= Capacity)
    <3>1. \A i \in n + 1 .. Capacity : all[i] \in Unit
      BY <1>1, <1>2, <1>4, ElementOfSeq
    <3>2. SubSeq(all, n + 1, Capacity) \in Seq(Unit)
      BY <1>1, <1>2, <1>4, <3>1, SubSeqProperties
    <3> QED
      BY <1>3, <2>2, <3>2
  <2> QED
    BY <2>1, <2>2
<1>8. file \o all = (file \o buf) \o u
  BY <1>1, ConcatAssociative
<1> HIDE DEF all, one, two
<1>9. \A x, y \in Seq(Unit) : file \o (x \o y) = (file \o x) \o y
  BY <1>1, ConcatAssociative
<1>10. file \o (one \o two) = (file \o one) \o two
  BY <1>5, <1>9
<1>11. (file \o buf) \o u = file' \o two
  BY <1>5, <1>6, <1>8, <1>10, Zenon
<1> QED
  BY <1>5, <1>6, <1>7, <1>11

-----------------------------------------------------------------------------
LEMMA WholeIsCommands == \A s : Whole(s) \in SUBSET Command
  BY DEF Whole

\* Writers keep their types, and a writer at work has a command.
LEMMA TypeNext ==
  ASSUME TypeOK, Working, [Next]_vars
  PROVE  TypeOK' /\ Working'
<1> USE DEF TypeOK, Working
<1>1. ASSUME NEW w \in Writer, Check(w) PROVE TypeOK' /\ Working'
  <2>1. issued + 1 \in Command /\ issued' \in 0 .. MaxCommands
    BY <1>1, JournalAssumption DEF Check, Command
  <2> QED
    BY <1>1, <2>1 DEF Check
<1>2. ASSUME NEW w \in Writer, Count(w) PROVE TypeOK' /\ Working'
  BY <1>2 DEF Count
<1>3. ASSUME NEW w \in Writer, Write(w) PROVE TypeOK' /\ Working'
  <2>1. cmd[w] \in Command /\ Units(cmd[w]) \in Seq(Unit)
    BY <1>3, UnitsAreUnits DEF Write
  <2>2. buf' \in Seq(Unit) /\ file' \in Seq(Unit)
    BY <1>3, <2>1, BufferedAppends, FailsAppends DEF Write
  <2>3. stream' \in Seq(Unit)
    BY <1>3, <2>1, ConcatProperties DEF Write
  <2>4. acked' \in SUBSET Command /\ raced' \in BOOLEAN /\ err' \in BOOLEAN
    BY <1>3, <2>1 DEF Write, Flushing
  <2> QED
    BY <1>3, <2>2, <2>3, <2>4 DEF Write
<1>4. CASE TickCheck
  BY <1>4 DEF TickCheck, Flusher
<1>5. CASE TickMark
  BY <1>5 DEF TickMark, Flusher
<1>6. ASSUME NEW f \in Flusher, FlushWrite(f) PROVE TypeOK' /\ Working'
  <2>1. buf' \in Seq(Unit) /\ file' \in Seq(Unit) /\ err' \in BOOLEAN
    <3>1. CASE file' = file \o buf /\ UNCHANGED <<buf, err>>
      BY <3>1, ConcatProperties
    <3>2. ASSUME NEW n \in 0 .. Len(buf), err' = TRUE,
                 file' = file \o SubSeq(buf, 1, n), buf' = SubSeq(buf, n + 1, Len(buf))
          PROVE  buf' \in Seq(Unit) /\ file' \in Seq(Unit) /\ err' \in BOOLEAN
      BY <3>2, Split, ConcatProperties
    <3>3. CASE UNCHANGED <<buf, file, err>>
      BY <3>3
    <3>4. ASSUME NEW n \in 0 .. (IF status = "open" THEN Len(buf) - 1 ELSE 0)
          PROVE  n \in 0 .. Len(buf)
      <4>1. Len(buf) \in Nat
        OBVIOUS
      <4> QED
        BY <3>4, <4>1
    <3> QED
      BY <1>6, <3>1, <3>2, <3>3, <3>4 DEF FlushWrite
  <2>2. raced' \in BOOLEAN
    BY <1>6 DEF FlushWrite, Flushing
  <2> QED
    BY <1>6, <2>1, <2>2 DEF FlushWrite, Flusher
<1>7. ASSUME NEW f \in Flusher, FlushEnd(f) PROVE TypeOK' /\ Working'
  <2>1. buf' \in Seq(Unit)
    <3>1. buf' = buf \/ buf' = << >>
      BY <1>7 DEF FlushEnd
    <3>2. << >> \in Seq(Unit)
      OBVIOUS
    <3> QED
      BY <3>1, <3>2, Zenon
  <2>2. status' \in {"open", "closed", "down", "failed"}
    BY <1>7 DEF FlushEnd
  <2>3. flush' \in [Flusher -> {"idle", "mark", "call", "writing", "done"}]
    BY <1>7 DEF FlushEnd
  <2> QED
    BY <1>7, <2>1, <2>2, <2>3 DEF FlushEnd
<1>8. CASE Close
  BY <1>8 DEF Close, Flusher
<1>9. CASE Exit
  BY <1>9 DEF Exit
<1>10. CASE Open
  <2>1. Whole(file) \in SUBSET Command
    BY WholeIsCommands
  <2>2. CASE Decodes(file)
    <3>1. /\ flush' \in [Flusher -> {"idle", "mark", "call", "writing", "done"}]
          /\ writes' \in Nat /\ flushes' \in 0 .. writes' /\ status' = "open" /\ stream' \in Seq(Unit)
      BY <1>10, <2>2 DEF Open
    <3>2. /\ err' \in BOOLEAN /\ raced' \in BOOLEAN /\ lagged' \in BOOLEAN
          /\ acked' \in SUBSET Command /\ due' \in SUBSET Command
      BY <1>10, <2>1, <2>2 DEF Open
    <3>3. UNCHANGED <<issued, buf, file, pc, cmd>>
      BY <1>10 DEF Open
    <3> QED
      BY <3>1, <3>2, <3>3
  <2>3. CASE ~Decodes(file)
    BY <1>10, <2>3 DEF Open
  <2> QED
    BY <2>2, <2>3
<1>11. CASE UNCHANGED vars
  BY <1>11 DEF vars
<1> QED
  BY <1>1, <1>2, <1>3, <1>4, <1>5, <1>6, <1>7, <1>8, <1>9, <1>10, <1>11
  DEF Next, WriterStep, TickStep, CloseStep, Flusher

LEMMA FileInit == Init => FileInv
<1> SUFFICES ASSUME Init PROVE FileInv
  OBVIOUS
<1>1. << >> \in Seq(Unit) /\ << >> \o << >> = << >>
  BY ConcatEmptySeq
<1>2. TypeOK
  <2>1. issued \in 0 .. MaxCommands
    BY JournalAssumption DEF Init
  <2>2. writes \in Nat /\ flushes \in 0 .. writes
    BY DEF Init
  <2> QED
    BY <1>1, <2>1, <2>2 DEF Init, TypeOK, Flusher
<1>3. Working /\ OneFlush /\ Kept /\ BufferGoes
  BY <1>1 DEF Init, Working, OneFlush, Kept, BufferGoes, Flushing, Flusher
<1>4. Behind
  BY <1>1 DEF Init, Behind
<1> QED
  BY <1>2, <1>3, <1>4 DEF FileInv

\* Steps that touch neither buffer nor file, and enter or leave no Flush.
LEMMA StepAside ==
  ASSUME FileInv, UNCHANGED <<buf, file, err, stream, raced, status>>,
         \A f \in Flusher : flush'[f] = "writing" <=> flush[f] = "writing"
  PROVE  OneFlush' /\ Behind' /\ Kept' /\ BufferGoes'
<1>1. Flushing' <=> Flushing
  BY DEF Flushing
<1>2. OneFlush' /\ BufferGoes'
  BY DEF FileInv, OneFlush, BufferGoes, Running
<1>3. Behind'
  BY DEF FileInv, Behind
<1>4. Kept'
  BY <1>1 DEF FileInv, Kept, Running
<1> QED
  BY <1>2, <1>3, <1>4

\* A write that no Flush overlaps puts the same units at the end of the stream
\* and at the end of file and buffer; a failed one stops the file for good.
LEMMA WriteFile ==
  ASSUME FileInv, NEW w \in Writer, Write(w)
  PROVE  OneFlush' /\ Behind' /\ Kept' /\ BufferGoes'
<1> DEFINE u == Units(cmd[w])
<1>1. u \in Seq(Unit) /\ stream' = stream \o u
  BY UnitsAreUnits DEF FileInv, Working, Write
<1>2. /\ flush' = flush /\ status' = status /\ Running
      /\ raced' = (raced \/ Flushing) /\ Flushing' = Flushing
  BY DEF Write, Flushing
<1>3. OneFlush' /\ BufferGoes'
  BY <1>2 DEF FileInv, OneFlush, BufferGoes, Running
<1>4. file \in Seq(Unit) /\ buf \in Seq(Unit) /\ stream \in Seq(Unit)
  BY DEF FileInv, TypeOK
<1>5. CASE raced'
  BY <1>3, <1>5 DEF Behind, Kept
<1>6. CASE ~raced' /\ UNCHANGED file /\ err'
  <2>1. PICK rest \in Seq(Unit) : stream = file \o rest
    BY <1>2, <1>6 DEF FileInv, Behind
  <2>2. stream' = file' \o (rest \o u) /\ rest \o u \in Seq(Unit)
    BY <1>1, <1>4, <1>6, <2>1, ConcatAssociative, ConcatProperties
  <2> QED
    BY <1>3, <1>6, <2>2 DEF Behind, Kept
<1>7. CASE ~raced' /\ ~err /\ Buffered(u)
  <2>1. stream = file \o buf
    BY <1>2, <1>7 DEF FileInv, Kept
  <2>2. stream' = file' \o buf' /\ buf' \in Seq(Unit)
    BY <1>1, <1>7, <2>1, BufferedAppends DEF FileInv
  <2>3. Kept'
    BY <1>2, <1>7, <2>2 DEF Kept
  <2> QED
    BY <1>3, <2>2, <2>3 DEF Behind
<1>8. CASE ~raced' /\ ~err /\ err' /\ Spill(u) > 0 /\ Fails(u)
  <2>1. stream' = (file \o buf) \o u
    BY <1>1, <1>2, <1>8 DEF FileInv, Kept
  <2>2. Behind'
    BY <1>1, <1>8, <2>1, FailsAppends DEF FileInv, Behind
  <2> QED
    BY <1>3, <1>8, <2>2 DEF Kept
<1>9. \/ err /\ UNCHANGED <<buf, file, err>>
      \/ ~err /\ Buffered(u)
      \/ ~err /\ Spill(u) > 0 /\ Fails(u) /\ err' = TRUE
  BY DEF Write
<1> QED
  BY <1>5, <1>6, <1>7, <1>8, <1>9

\* The only caller of Flush takes the whole buffer to the file, or fails and
\* takes a part of it.
LEMMA FlushWriteFile ==
  ASSUME FileInv, NEW f \in Flusher, FlushWrite(f)
  PROVE  OneFlush' /\ Behind' /\ Kept' /\ BufferGoes'
<1>1. /\ flush' = [flush EXCEPT ![f] = "writing"] /\ status' = status /\ stream' = stream
      /\ Running /\ Running' /\ raced' = (raced \/ Flushing)
      /\ flush \in [Flusher -> {"idle", "mark", "call", "writing", "done"}]
      /\ file \in Seq(Unit) /\ buf \in Seq(Unit) /\ stream \in Seq(Unit)
  BY DEF FlushWrite, Running, FileInv, TypeOK
<1>2. BufferGoes' /\ Flushing'
  BY <1>1 DEF BufferGoes, Flushing
<1>3. OneFlush'
  BY <1>1 DEF OneFlush, Flushing
<1>4. CASE raced'
  BY <1>2, <1>3, <1>4 DEF Behind, Kept
<1>5. CASE ~raced' /\ err /\ UNCHANGED <<buf, file, err>>
  BY <1>1, <1>2, <1>3, <1>5 DEF FileInv, Behind, Kept
<1>6. CASE ~raced' /\ ~err
  <2>1. stream = file \o buf
    BY <1>1, <1>6 DEF FileInv, Kept
  <2>2. CASE file' = file \o buf
    <3>1. stream' = file' /\ stream' = file' \o << >>
      BY <1>1, <2>1, <2>2, ConcatEmptySeq
    <3>2. Behind'
      BY <3>1, << >> \in Seq(Unit) DEF Behind
    <3>3. Kept'
      BY <1>2, <3>1 DEF Kept
    <3> QED
      BY <1>2, <1>3, <3>2, <3>3
  <2>3. ASSUME NEW n \in 0 .. (IF status = "open" THEN Len(buf) - 1 ELSE 0),
               file' = file \o SubSeq(buf, 1, n), err' = TRUE
        PROVE  Behind' /\ Kept'
    <3>1. Len(buf) \in Nat
      BY <1>1
    <3>2. n \in 0 .. Len(buf)
      BY <3>1
    <3> DEFINE one == SubSeq(buf, 1, n)
               two == SubSeq(buf, n + 1, Len(buf))
    <3>3. one \in Seq(Unit) /\ two \in Seq(Unit) /\ buf = one \o two
      BY <1>1, <3>2, Split
    <3>4. stream' = file \o (one \o two) /\ file' = file \o one
      BY <1>1, <2>1, <2>3, <3>3
    <3> HIDE DEF one, two
    <3>5. file \o (one \o two) = (file \o one) \o two
      BY <1>1, <3>3, ConcatAssociative
    <3>6. stream' = file' \o two
      BY <3>4, <3>5
    <3> QED
      BY <2>3, <3>3, <3>6 DEF Behind, Kept
  <2>4. CASE buf = << >> /\ UNCHANGED <<buf, file, err>>
    <3>1. stream' = file' /\ stream' = file' \o << >>
      BY <1>1, <2>1, <2>4, ConcatEmptySeq
    <3>2. Behind'
      BY <3>1, << >> \in Seq(Unit) DEF Behind
    <3>3. Kept'
      BY <1>2, <3>1 DEF Kept
    <3> QED
      BY <1>2, <1>3, <3>2, <3>3
  <2> QED
    BY <1>2, <1>3, <1>6, <2>2, <2>3, <2>4 DEF FlushWrite
<1>7. err => UNCHANGED <<buf, file, err>>
  BY DEF FlushWrite
<1>8. err \in BOOLEAN /\ raced' \in BOOLEAN
  BY <1>1 DEF FileInv, TypeOK, Flushing
<1> QED
  BY <1>4, <1>5, <1>6, <1>7, <1>8

\* The caller that leaves Flush empties a buffer that is in the file.
LEMMA FlushEndFile ==
  ASSUME FileInv, NEW f \in Flusher, FlushEnd(f)
  PROVE  OneFlush' /\ Behind' /\ Kept' /\ BufferGoes'
<1>1. /\ \A g \in Flusher : flush'[g] = IF g = f THEN IF f = "tick" THEN "idle" ELSE "done"
                                     ELSE flush[g]
      /\ flush[f] = "writing" /\ Running /\ Running'
      /\ UNCHANGED <<stream, file, err, raced>>
  BY DEF FlushEnd, FileInv, TypeOK, Running
<1>2. OneFlush' /\ BufferGoes' /\ Behind'
  BY <1>1 DEF FileInv, OneFlush, BufferGoes, Behind
<1>3. Kept'
  <2>1. SUFFICES ASSUME ~raced, ~err PROVE ~Flushing' /\ stream' = file' \o buf'
    BY <1>1 DEF Kept
  <2>2. Flushing /\ ~Flushing'
    BY <1>1, <2>1 DEF FileInv, OneFlush, Flushing
  <2>3. stream = file /\ buf' = << >>
    BY <1>1, <2>1, <2>2 DEF FileInv, Kept, FlushEnd
  <2>4. file \in Seq(Unit)
    BY DEF FileInv, TypeOK
  <2> QED
    BY <1>1, <2>2, <2>3, <2>4, ConcatEmptySeq
<1> QED
  BY <1>2, <1>3

\* A process that has just opened the file has nothing but the file.
LEMMA OpenFile ==
  ASSUME FileInv, Open
  PROVE  OneFlush' /\ Behind' /\ Kept' /\ BufferGoes'
<1>1. buf' = << >> /\ file' = file
  BY DEF Open, FileInv, BufferGoes, Running
<1>2. CASE Decodes(file)
  <2>1. /\ stream' = file' /\ ~raced' /\ \A f \in Flusher : flush'[f] = "idle"
    BY <1>1, <1>2 DEF Open
  <2>2. file \in Seq(Unit) /\ << >> \in Seq(Unit)
    BY DEF FileInv, TypeOK
  <2>3. stream' = file' \o << >>
    BY <1>1, <2>1, <2>2, ConcatEmptySeq
  <2>4. OneFlush' /\ BufferGoes' /\ ~Flushing'
    BY <1>1, <2>1 DEF OneFlush, BufferGoes, Flushing
  <2>5. Behind'
    BY <2>2, <2>3 DEF Behind
  <2> QED
    BY <1>1, <2>3, <2>4, <2>5 DEF Kept
<1>3. CASE ~Decodes(file)
  <2>1. status' = "failed" /\ UNCHANGED <<stream, raced, flush>>
    BY <1>3 DEF Open
  <2> QED
    BY <1>1, <2>1 DEF FileInv, OneFlush, Behind, Kept, BufferGoes, Running
<1> QED
  BY <1>2, <1>3

LEMMA FileNext == FileInv /\ [Next]_vars => FileInv'
<1> SUFFICES ASSUME FileInv, [Next]_vars PROVE FileInv'
  OBVIOUS
<1>1. TypeOK' /\ Working'
  BY TypeNext DEF FileInv
<1>2. OneFlush' /\ Behind' /\ Kept' /\ BufferGoes'
  <2>1. ASSUME NEW w \in Writer, Check(w) \/ Count(w) PROVE OneFlush' /\ Behind' /\ Kept' /\ BufferGoes'
    BY <2>1, StepAside DEF Check, Count
  <2>2. CASE TickCheck \/ TickMark \/ Close
    <3>1. \A f \in Flusher : flush'[f] = "writing" <=> flush[f] = "writing"
      BY <2>2 DEF TickCheck, TickMark, Close, FileInv, TypeOK
    <3> QED
      BY <2>2, <3>1, StepAside DEF TickCheck, TickMark, Close
  <2>3. CASE Exit
    <3>1. buf' = << >> /\ ~Running' /\ UNCHANGED <<file, err, flush, stream, raced>>
      BY <2>3 DEF Exit, Running
    <3> QED
      BY <3>1 DEF FileInv, OneFlush, Behind, Kept, BufferGoes
  <2>4. CASE UNCHANGED vars
    BY <2>4, StepAside DEF vars
  <2> QED
    BY <2>1, <2>2, <2>3, <2>4, WriteFile, FlushWriteFile, FlushEndFile, OpenFile
    DEF Next, WriterStep, TickStep, CloseStep, Flusher
<1> QED
  BY <1>1, <1>2 DEF FileInv

LEMMA FileAlways == Spec => []FileInv
BY FileInit, FileNext, PTL DEF Spec

-----------------------------------------------------------------------------
\* Whatever the writers, the ticks, Close, crashes and restarts do, the
\* variables of the journal keep their types.
THEOREM SpecTypeOK == Spec => []TypeOK
<1>1. FileInv => TypeOK
  BY DEF FileInv
<1> QED
  BY <1>1, FileAlways, PTL

\* For any commands and any capacity, whatever spills, fails or crashes, the
\* file is a prefix of the stream of units, unless a write raced with a Flush.
THEOREM SpecFileIsPrefix == Spec => []FileIsPrefix
<1>1. FileInv => FileIsPrefix
  <2> SUFFICES ASSUME FileInv, ~raced
               PROVE  Len(file) <= Len(stream) /\ file = SubSeq(stream, 1, Len(file))
    BY DEF FileIsPrefix
  <2>1. PICK rest \in Seq(Unit) : stream = file \o rest
    BY DEF FileInv, Behind
  <2>2. file \in Seq(Unit) /\ Len(file) \in Nat /\ Len(rest) \in Nat
    BY DEF FileInv, TypeOK
  <2>3. Len(stream) = Len(file) + Len(rest)
    BY <2>1, <2>2, ConcatProperties
  <2>4. CASE file = << >>
    BY <2>2, <2>3, <2>4, SubSeqEmpty
  <2>5. CASE file # << >>
    <3>1. Len(file) \in 1 .. Len(file) /\ 1 \in 1 .. Len(file)
      BY <2>2, <2>5
    <3>2. SubSeq(file \o rest, 1, Len(file)) = SubSeq(file, 1, Len(file))
      BY <2>2, <3>1, SubSeqOfConcat1
    <3> QED
      BY <2>1, <2>2, <2>3, <3>2, SubSeqFull
  <2> QED
    BY <2>4, <2>5
<1> QED
  BY <1>1, FileAlways, PTL

\* File and buffer together are always the whole stream: no interleaving of
\* writers, spills and one Flush at a time loses or doubles a unit.
THEOREM SpecNothingIsLost == Spec => []NothingIsLost
<1>1. FileInv => NothingIsLost
  BY DEF FileInv, Kept, NothingIsLost
<1> QED
  BY <1>1, FileAlways, PTL

-----------------------------------------------------------------------------
\* A whole command stays whole when more units follow.
LEMMA WholeGrows ==
  ASSUME NEW s \in Seq(Unit), NEW t \in Seq(Unit)
  PROVE  Whole(s) \subseteq Whole(s \o t)
<1> SUFFICES ASSUME NEW c \in Whole(s) PROVE c \in Whole(s \o t)
  OBVIOUS
<1>1. c \in Command /\ Size[c] \in Nat /\ Len(s) \in Nat /\ Len(t) \in Nat
  BY JournalAssumption DEF Whole
<1>2. PICK k \in 0 .. Len(s) : k + Size[c] <= Len(s) /\ \A j \in 1 .. Size[c] : s[k + j] = <<c, j>>
  BY DEF Whole
<1>3. /\ Len(s \o t) = Len(s) + Len(t)
      /\ \A i \in 1 .. Len(s) + Len(t) : (s \o t)[i] = IF i <= Len(s) THEN s[i] ELSE t[i - Len(s)]
  BY ConcatProperties
<1>4. \A j \in 1 .. Size[c] : (s \o t)[k + j] = <<c, j>>
  <2> TAKE j \in 1 .. Size[c]
  <2>1. k + j \in 1 .. Len(s) + Len(t) /\ k + j <= Len(s)
    BY <1>1, <1>2
  <2> QED
    BY <1>2, <1>3, <2>1
<1>5. k \in 0 .. Len(s \o t) /\ k + Size[c] <= Len(s \o t)
  BY <1>1, <1>2, <1>3
<1> QED
  BY <1>1, <1>4, <1>5 DEF Whole

\* A command that was just written is whole.
LEMMA WholeOfUnits ==
  ASSUME NEW s \in Seq(Unit), NEW c \in Command
  PROVE  c \in Whole(s \o Units(c))
<1>1. /\ Units(c) \in Seq(Unit) /\ Len(Units(c)) = Size[c]
      /\ \A k \in 1 .. Size[c] : Units(c)[k] = <<c, k>>
  BY UnitsAreUnits
<1>2. Size[c] \in Nat /\ Len(s) \in Nat
  BY JournalAssumption
<1> DEFINE t == Units(c)
<1> HIDE DEF t
<1>3. /\ Len(s \o t) = Len(s) + Size[c]
      /\ \A i \in 1 .. Len(s) + Size[c] : (s \o t)[i] = IF i <= Len(s) THEN s[i] ELSE t[i - Len(s)]
  <2>1. t \in Seq(Unit) /\ Len(t) = Size[c]
    BY <1>1 DEF t
  <2> QED
    BY <2>1, ConcatProperties
<1>4. \A j \in 1 .. Size[c] : (s \o t)[Len(s) + j] = <<c, j>>
  <2> TAKE j \in 1 .. Size[c]
  <2>1. /\ Len(s) + j \in 1 .. Len(s) + Size[c] /\ ~(Len(s) + j <= Len(s))
        /\ (Len(s) + j) - Len(s) = j
    BY <1>2
  <2>2. (s \o t)[Len(s) + j] = t[j]
    BY <1>3, <2>1
  <2> QED
    BY <1>1, <2>2 DEF t
<1>5. Len(s) \in 0 .. Len(s \o t) /\ Len(s) + Size[c] <= Len(s \o t)
  BY <1>2, <1>3
<1>6. c \in Whole(s \o t)
  BY <1>4, <1>5 DEF Whole
<1> QED
  BY <1>6 DEF t

\* Buffered only adds to the file.
LEMMA BufferedGrowsFile ==
  ASSUME TypeOK, NEW u \in Seq(Unit), Buffered(u)
  PROVE  Whole(file) \subseteq Whole(file')
<1>1. file \in Seq(Unit) /\ SubSeq(buf \o u, 1, Spill(u)) \in Seq(Unit)
  BY SpillBounds, Split DEF TypeOK
<1> QED
  BY <1>1, WholeGrows DEF Buffered

LEMMA CloseInit == Init => CloseInv
<1> SUFFICES ASSUME Init PROVE CloseInv
  OBVIOUS
<1>1. Acknowledged /\ DueIsWritten
  BY DEF Init, Acknowledged, DueIsWritten
<1> QED
  BY <1>1, FileInit DEF CloseInv

LEMMA AcknowledgedNext ==
  ASSUME CloseInv, [Next]_vars
  PROVE  Acknowledged'
<1> USE DEF CloseInv
<1>1. ASSUME NEW w \in Writer, Write(w) PROVE Acknowledged'
  <2>1. cmd[w] \in Command /\ stream \in Seq(Unit)
    BY <1>1 DEF FileInv, Working, TypeOK, Write
  <2>2. stream' = stream \o Units(cmd[w]) /\ Units(cmd[w]) \in Seq(Unit)
    BY <1>1, <2>1, UnitsAreUnits DEF Write
  <2>3. Whole(stream) \subseteq Whole(stream') /\ cmd[w] \in Whole(stream')
    BY <2>1, <2>2, WholeGrows, WholeOfUnits
  <2>4. acked' = acked \cup {cmd[w]} /\ due' = due
    BY <1>1 DEF Write
  <2> QED
    BY <2>3, <2>4 DEF Acknowledged
<1>2. CASE Close
  BY <1>2 DEF Close, Acknowledged
<1>3. CASE Open
  BY <1>3 DEF Open, Acknowledged
<1>4. CASE UNCHANGED <<stream, acked, due>>
  BY <1>4 DEF Acknowledged
<1>5. \/ \E w \in Writer : Write(w)
      \/ Close \/ Open \/ UNCHANGED <<stream, acked, due>>
  BY DEF Next, WriterStep, TickStep, CloseStep, Check, Count, TickCheck, TickMark,
         FlushWrite, FlushEnd, Exit, vars
<1> QED
  BY <1>1, <1>2, <1>3, <1>4, <1>5

LEMMA DueNext ==
  ASSUME CloseInv, [Next]_vars
  PROVE  DueIsWritten'
<1> USE DEF CloseInv
<1>1. FileInv' /\ file \in Seq(Unit) /\ buf \in Seq(Unit)
  BY FileNext DEF FileInv, TypeOK
<1>2. ASSUME NEW w \in Writer, Write(w) PROVE DueIsWritten'
  <2>1. UNCHANGED <<flush, status, due>> /\ (raced => raced')
    BY <1>2 DEF Write
  <2>2. err' \/ (Whole(file) \subseteq Whole(file') /\ err' = err)
    <3>1. Units(cmd[w]) \in Seq(Unit)
      BY <1>2, UnitsAreUnits DEF Write, FileInv, Working
    <3> QED
      BY <1>2, <3>1, BufferedGrowsFile DEF Write, FileInv
  <2> QED
    BY <2>1, <2>2 DEF DueIsWritten
<1>3. CASE FlushWrite("tick")
  <2>1. /\ flush'["close"] = flush["close"] /\ UNCHANGED <<status, due>> /\ (raced => raced')
    BY <1>3 DEF FlushWrite, FileInv, TypeOK, Flusher
  <2>2. err' \/ (err' = err /\ (file' = file \/ file' = file \o buf))
    BY <1>3 DEF FlushWrite
  <2>3. err' \/ (err' = err /\ Whole(file) \subseteq Whole(file'))
    BY <1>1, <2>2, WholeGrows
  <2> QED
    BY <2>1, <2>3 DEF DueIsWritten
<1>4. CASE FlushWrite("close")
  <2>1. ~raced' /\ ~err' => stream' = file'
    BY <1>1, <1>4 DEF FileInv, TypeOK, Kept, FlushWrite, Running, Flushing, Flusher
  <2>2. due' \subseteq Whole(stream')
    BY AcknowledgedNext DEF Acknowledged
  <2> QED
    BY <2>1, <2>2 DEF DueIsWritten
<1>5. ASSUME NEW f \in Flusher, FlushEnd(f) PROVE DueIsWritten'
  <2>1. UNCHANGED <<file, err, due, raced>>
    BY <1>5 DEF FlushEnd
  <2>2. status' = "closed" \/ flush'["close"] \in {"writing", "done"} =>
          status = "closed" \/ flush["close"] \in {"writing", "done"}
    BY <1>5 DEF FlushEnd, FileInv, TypeOK, Flusher
  <2> QED
    BY <2>1, <2>2 DEF DueIsWritten
<1>6. CASE Close
  BY <1>6 DEF Close, DueIsWritten, FileInv, TypeOK, Flusher
<1>7. CASE Open
  BY <1>7 DEF Open, DueIsWritten, Flusher
<1>8. CASE Exit
  BY <1>8 DEF Exit, DueIsWritten
<1>9. CASE UNCHANGED <<file, err, due, raced, status>> /\ flush'["close"] = flush["close"]
  BY <1>9 DEF DueIsWritten
<1>10. ASSUME NEW w \in Writer, Check(w) \/ Count(w) PROVE DueIsWritten'
  BY <1>9, <1>10 DEF Check, Count
<1>11. CASE TickCheck \/ TickMark
  BY <1>9, <1>11 DEF TickCheck, TickMark, FileInv, TypeOK, Flusher
<1>12. CASE UNCHANGED vars
  BY <1>9, <1>12 DEF vars
<1> QED
  BY <1>2, <1>3, <1>4, <1>5, <1>6, <1>7, <1>8, <1>10, <1>11, <1>12
  DEF Next, WriterStep, TickStep, CloseStep, Flusher

\* Close keeps every command that was answered before it began, whatever is
\* written or flushed meanwhile, unless the file fails or a write races with
\* a Flush.
THEOREM SpecCloseKeepsWhatIsDue == Spec => []CloseKeepsWhatIsDue
<1>1. CloseInv /\ [Next]_vars => CloseInv'
  BY FileNext, AcknowledgedNext, DueNext DEF CloseInv
<1>2. CloseInv => CloseKeepsWhatIsDue
  BY DEF CloseInv, DueIsWritten, CloseKeepsWhatIsDue
<1> QED
  BY <1>1, <1>2, CloseInit, PTL DEF Spec
=============================================================================
