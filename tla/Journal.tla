------------------------------- MODULE Journal -------------------------------
(***************************************************************************)
(* The way of a command to the journal file: EncodeCommand, the 512 KiB    *)
(* bufio.Writer, the goroutine that flushes every ten seconds, Close, a    *)
(* crash, and the decoder of OpenCollection at the next start              *)
(* (collection/collection.go).                                             *)
(*                                                                         *)
(* A command is written as its units <<c, 1>> .. <<c, Size[c]>>; buffer    *)
(* and file are sequences of units, and the file decodes when it is made   *)
(* of whole commands.  Writers hold encoderMutex for the Write; Flush does *)
(* not take it, so a Write that overlaps a Flush is a data race on b.n.    *)
(*                                                                         *)
(*   buf, err            the bufio.Writer and its sticky error             *)
(*   writes, flushes     lastWritesCounter and lastFlushCounter            *)
(*   pc, cmd             the step and the command of a writer              *)
(*   flush               the step of each caller of Flush: tick and close  *)
(*   status              open, closed, down (the process ended), failed    *)
(*                       (OpenCollection returned a decode error)          *)
(* History, read by the properties only:                                   *)
(*   stream  all units in the order of the Writes                          *)
(*   acked   commands whose EncodeCommand returned                         *)
(*   due     the commands acked when Close began                           *)
(*   raced   a Write or a second Flush overlapped a Flush                  *)
(*   lagged  a tick took the count of a write not yet in the buffer        *)
(***************************************************************************)
EXTENDS Naturals, Sequences, FiniteSets

CONSTANTS
  Writer,
  MaxCommands,   \* bound on the commands of a behaviour
  Size,          \* units of each command
  Inserts,       \* the commands that are inserts
  Capacity,      \* of the buffer
  None

Command == 1 .. MaxCommands

ASSUME JournalAssumption ==
  /\ MaxCommands \in Nat
  /\ Size \in [Command -> Nat \ {0}]
  /\ Inserts \subseteq Command
  /\ Capacity \in Nat \ {0}
  /\ None \notin Command

VARIABLES issued, writes, flushes, buf, file, err, pc, cmd, flush, status,
          stream, acked, due, raced, lagged
vars == <<issued, writes, flushes, buf, file, err, pc, cmd, flush, status,
          stream, acked, due, raced, lagged>>

Flusher == {"tick", "close"}

Units(c) == [k \in 1 .. Size[c] |-> <<c, k>>]

\* The commands whose last unit follows all their others in s.
Whole(s) ==
  {c \in Command : \E k \in 0 .. Len(s) : k + Size[c] <= Len(s)
                     /\ \A j \in 1 .. Size[c] : s[k + j] = <<c, j>>}

\* jsontext decodes s up to io.EOF: every unit starts a command or goes on
\* with the one before it, and the last command is complete.
Decodes(s) ==
  /\ \A k \in DOMAIN s :
       s[k][2] = 1 \/ (k > 1 /\ s[k - 1] = <<s[k][1], s[k][2] - 1>>)
  /\ \A k \in DOMAIN s :
       s[k][2] = Size[s[k][1]] \/ (k < Len(s) /\ s[k + 1] = <<s[k][1], s[k][2] + 1>>)

Flushing == \E f \in Flusher : flush[f] = "writing"

-----------------------------------------------------------------------------
Init ==
  /\ issued = 0
  /\ writes = 0
  /\ flushes = 0
  /\ buf = << >>
  /\ file = << >>
  /\ err = FALSE
  /\ pc = [w \in Writer |-> "idle"]
  /\ cmd = [w \in Writer |-> None]
  /\ flush = [f \in Flusher |-> "idle"]
  /\ status = "open"
  /\ stream = << >>
  /\ acked = {}
  /\ due = {}
  /\ raced = FALSE
  /\ lagged = FALSE

Running == status \in {"open", "closed"}

-----------------------------------------------------------------------------
\* Insert looks at c.file once, before it changes memory; no other command does.
Check(w) ==
  /\ Running /\ pc[w] = "idle"
  /\ issued < MaxCommands
  /\ issued + 1 \in Inserts => status = "open"
  /\ issued' = issued + 1
  /\ cmd' = [cmd EXCEPT ![w] = issued + 1]
  /\ pc' = [pc EXCEPT ![w] = "checked"]
  /\ UNCHANGED <<writes, flushes, buf, file, err, flush, status, stream, acked, due, raced, lagged>>

\* EncodeCommand counts the write first.
Count(w) ==
  /\ Running /\ pc[w] = "checked"
  /\ writes' = writes + 1
  /\ pc' = [pc EXCEPT ![w] = "counted"]
  /\ UNCHANGED <<issued, flushes, buf, file, err, cmd, flush, status, stream, acked, due, raced, lagged>>

\* bufio.Writer.Write: what does not fit fills the buffer and is flushed with
\* it; a rest that is larger than the buffer goes straight to the file.
Spill(u) ==
  LET n == Len(buf) + Len(u) IN
  IF n <= Capacity THEN 0
  ELSE IF buf = << >> \/ n > Capacity + Capacity THEN n ELSE Capacity

Buffered(u) ==
  LET all == buf \o u IN
  /\ file' = file \o SubSeq(all, 1, Spill(u))
  /\ buf' = SubSeq(all, Spill(u) + 1, Len(all))

\* A write to the file that fails (no space, closed file) leaves a part of it there.
Fails(u) ==
  LET all == buf \o u IN
  \E n \in 0 .. (IF status = "open" THEN Spill(u) - 1 ELSE 0) :
    /\ file' = file \o SubSeq(all, 1, n)
    /\ buf' = IF buf = << >> \/ n >= Capacity THEN << >> ELSE SubSeq(all, n + 1, Capacity)

\* Mutant: a command the buffer cannot take is written to c.file directly.
WritePastBuffer(w) ==
  /\ Running /\ pc[w] = "counted"
  /\ IF Spill(Units(cmd[w])) > 0 THEN UNCHANGED buf /\ file' = file \o Units(cmd[w])
     ELSE buf' = buf \o Units(cmd[w]) /\ UNCHANGED file
  /\ stream' = stream \o Units(cmd[w])
  /\ acked' = acked \cup {cmd[w]}
  /\ raced' = (raced \/ Flushing)
  /\ pc' = [pc EXCEPT ![w] = "idle"]
  /\ cmd' = [cmd EXCEPT ![w] = None]
  /\ UNCHANGED <<issued, writes, flushes, err, flush, status, due, lagged>>

\* Then it writes under encoderMutex and returns nil whatever Write returned.
Write(w) ==
  /\ Running /\ pc[w] = "counted"
  /\ \/ err /\ UNCHANGED <<buf, file, err>>
     \/ ~err /\ (status = "open" \/ Spill(Units(cmd[w])) = 0)
        /\ Buffered(Units(cmd[w])) /\ UNCHANGED err
     \/ ~err /\ Spill(Units(cmd[w])) > 0
        /\ Fails(Units(cmd[w])) /\ err' = TRUE
  /\ stream' = stream \o Units(cmd[w])
  /\ acked' = acked \cup {cmd[w]}
  /\ raced' = (raced \/ Flushing)
  /\ pc' = [pc EXCEPT ![w] = "idle"]
  /\ cmd' = [cmd EXCEPT ![w] = None]
  /\ UNCHANGED <<issued, writes, flushes, flush, status, due, lagged>>

-----------------------------------------------------------------------------
\* Mutant: one pending write is not worth a flush.
TickCheckMoreThanOne ==
  /\ Running /\ flush["tick"] = "idle"
  /\ writes > flushes + 1
  /\ flush' = [flush EXCEPT !["tick"] = "mark"]
  /\ UNCHANGED <<issued, writes, flushes, buf, file, err, pc, cmd, status, stream, acked, due, raced, lagged>>

\* The ten-second tick: if the counters differ ...
TickCheck ==
  /\ Running /\ flush["tick"] = "idle"
  /\ writes # flushes
  /\ flush' = [flush EXCEPT !["tick"] = "mark"]
  /\ UNCHANGED <<issued, writes, flushes, buf, file, err, pc, cmd, status, stream, acked, due, raced, lagged>>

\* Mutant: the count of all writes is added to the count of those flushed.
TickMarkAdds ==
  /\ Running /\ flush["tick"] = "mark"
  /\ flushes' = flushes + writes
  /\ lagged' = (lagged \/ \E w \in Writer : pc[w] = "counted")
  /\ flush' = [flush EXCEPT !["tick"] = "call"]
  /\ UNCHANGED <<issued, writes, buf, file, err, pc, cmd, status, stream, acked, due, raced>>

\* ... the count of all writes is taken as flushed, then Flush is called.
TickMark ==
  /\ Running /\ flush["tick"] = "mark"
  /\ flushes' = writes
  /\ lagged' = (lagged \/ \E w \in Writer : pc[w] = "counted")
  /\ flush' = [flush EXCEPT !["tick"] = "call"]
  /\ UNCHANGED <<issued, writes, buf, file, err, pc, cmd, status, stream, acked, due, raced>>

\* Mutant: the file is closed without Flush.
CloseWithoutFlush ==
  /\ status = "open" /\ flush["close"] = "idle"
  /\ flush' = [flush EXCEPT !["close"] = "done"]
  /\ status' = "closed"
  /\ due' = acked
  /\ UNCHANGED <<issued, writes, flushes, buf, file, err, pc, cmd, stream, acked, raced, lagged>>

\* Close, called by Database.Stop.
Close ==
  /\ status = "open" /\ flush["close"] = "idle"
  /\ flush' = [flush EXCEPT !["close"] = "call"]
  /\ due' = acked
  /\ UNCHANGED <<issued, writes, flushes, buf, file, err, pc, cmd, status, stream, acked, raced, lagged>>

\* Flush writes b.buf[:b.n] to the file, all of it or (no space, closed file)
\* a part that is taken off the buffer together with a sticky error ...
FlushWrite(f) ==
  /\ Running /\ flush[f] = "call"
  /\ \/ /\ ~err /\ status = "open"
        /\ file' = file \o buf
        /\ UNCHANGED <<buf, err>>
     \/ /\ ~err /\ buf # << >>
        /\ \E n \in 0 .. (IF status = "open" THEN Len(buf) - 1 ELSE 0) :
             file' = file \o SubSeq(buf, 1, n) /\ buf' = SubSeq(buf, n + 1, Len(buf))
        /\ err' = TRUE
     \/ /\ err \/ (buf = << >> /\ status = "closed")
        /\ UNCHANGED <<buf, file, err>>
  /\ raced' = (raced \/ Flushing)
  /\ flush' = [flush EXCEPT ![f] = "writing"]
  /\ UNCHANGED <<issued, writes, flushes, pc, cmd, status, stream, acked, due, lagged>>

\* ... and sets b.n to zero; of a b.n += n that raced with it either store
\* may stay.  Close goes on to close the file, unless Flush returns an error.
FlushEnd(f) ==
  /\ Running /\ flush[f] = "writing"
  /\ IF err THEN UNCHANGED buf
     ELSE buf' \in {<< >>} \cup (IF raced THEN {buf} ELSE {})
  /\ flush' = [flush EXCEPT ![f] = IF f = "tick" THEN "idle" ELSE "done"]
  /\ status' = IF f = "close" /\ ~err THEN "closed" ELSE status
  /\ UNCHANGED <<issued, writes, flushes, file, err, pc, cmd, stream, acked, due, raced, lagged>>

-----------------------------------------------------------------------------
\* The process ends, after Close or at any other moment; the buffer is gone.
Exit ==
  /\ Running
  /\ status' = "down"
  /\ buf' = << >>
  /\ pc' = [w \in Writer |-> "idle"]
  /\ cmd' = [w \in Writer |-> None]
  /\ UNCHANGED <<issued, writes, flushes, file, err, flush, stream, acked, due, raced, lagged>>

\* OpenCollection: the commands of the file are the collection from here on.
Open ==
  /\ status \in {"down", "failed"}
  /\ IF Decodes(file)
     THEN /\ status' = "open"
          /\ writes' = 0 /\ flushes' = 0
          /\ err' = FALSE
          /\ flush' = [f \in Flusher |-> "idle"]
          /\ stream' = file
          /\ acked' = Whole(file)
          /\ due' = {}
          /\ raced' = FALSE /\ lagged' = FALSE
     ELSE /\ status' = "failed"
          /\ UNCHANGED <<writes, flushes, err, flush, stream, acked, due, raced, lagged>>
  /\ UNCHANGED <<issued, buf, file, pc, cmd>>

WriterStep(w) == Count(w) \/ Write(w)
TickStep == TickCheck \/ TickMark \/ FlushWrite("tick") \/ FlushEnd("tick")
CloseStep == FlushWrite("close") \/ FlushEnd("close")

Next ==
  \/ \E w \in Writer : Check(w) \/ WriterStep(w)
  \/ TickStep
  \/ Close \/ CloseStep
  \/ Exit
  \/ Open

Spec == Init /\ [][Next]_vars

\* Every goroutine that can run does, and the ticker fires again and again.
Fairness ==
  /\ \A w \in Writer : WF_vars(WriterStep(w))
  /\ WF_vars(TickStep)
  /\ WF_vars(CloseStep)
FairSpec == Spec /\ Fairness

-----------------------------------------------------------------------------
Unit == Command \X (Nat \ {0})

\* Every variable has its type, and no more is counted as flushed than was written.
TypeOK ==
  /\ issued \in 0 .. MaxCommands
  /\ writes \in Nat /\ flushes \in 0 .. writes
  /\ buf \in Seq(Unit) /\ file \in Seq(Unit) /\ stream \in Seq(Unit)
  /\ err \in BOOLEAN /\ raced \in BOOLEAN /\ lagged \in BOOLEAN
  /\ pc \in [Writer -> {"idle", "checked", "counted"}]
  /\ cmd \in [Writer -> Command \cup {None}]
  /\ flush \in [Flusher -> {"idle", "mark", "call", "writing", "done"}]
  /\ status \in {"open", "closed", "down", "failed"}
  /\ acked \in SUBSET Command /\ due \in SUBSET Command

\* Whatever the buffer spills, an I/O error cuts off or a crash drops, the
\* file is a prefix of the units in the order of the Writes, so a start that
\* succeeds finds a past state; only a race with Flush can break the order.
FileIsPrefix ==
  ~raced => Len(file) <= Len(stream) /\ file = SubSeq(stream, 1, Len(file))

\* While the process runs, file and buffer together are all that was written.
NothingIsLost ==
  Running /\ ~raced /\ ~err => (IF Flushing THEN file ELSE file \o buf) = stream

\* What was acknowledged before Close is in the file when Close has returned.
CloseKeepsWhatIsDue == status = "closed" /\ ~raced /\ ~err => due \subseteq Whole(file)

\* An acknowledged command reaches the file, unless the collection stops, the
\* file fails, a Write raced with Flush, or a tick took its count too early.
UnlaggedWritesReachTheFile ==
  \A c \in Command :
    c \in acked ~> (c \in Whole(file) \/ status # "open" \/ err \/ raced \/ lagged)
=============================================================================
