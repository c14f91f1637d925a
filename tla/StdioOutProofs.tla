--------------------------- MODULE StdioOutProofs ---------------------------
(***************************************************************************)
(* Proofs about StdioOut, for every buffer size and every bound: the       *)
(* struct invariant of stdio_medium.h, and that buf_off follows the        *)
(* kernel's offset; then the bytes: where they go and in which order, that *)
(* none vanishes without a word of the call, and that the stream is an     *)
(* OutStream.                                                              *)
(***************************************************************************)
EXTENDS StdioOut, SequenceTheorems, TLAPS

\* The part of the invariant that is about the struct alone.
StructOK(f, k) ==
  /\ f \in FileOf(Nat \ {0})
  /\ f.dire \notin {FD_READ, FD_READ_LINEBUF}
  /\ f.writePtr <= f.bufEnd
  /\ f.readPtr = 0 /\ f.last = 0
  /\ IsAnyWrite(f.dire) => Len(f.buf) = f.writePtr
  /\ f.dire = FD_CLOSED => f.writePtr = f.bufEnd /\ f.buf = <<>>
  /\ f.bufEnd = IF k = "stderr" /\ f.dire # FD_WRITE_RELAXED THEN 0 ELSE BufSize
  /\ f.capEnd = IF f.dire = FD_WRITE_RELAXED THEN 0 ELSE BufSize
  /\ f.dire = FD_WRITE_RELAXED => k = "stderr"

\* The part that ties the struct to the call in progress.
CallOK ==
  /\ call.op = "idle" => call = Idle
  /\ call.op \in {"fwriteLine", "fwriteCopy", "fwriteDirect"} =>
       IsAnyWrite(file.dire) /\ call.src # <<>>
  /\ call.op \in {"fwriteLine", "fwriteCopy"} => file.bufEnd > 0
  /\ file.dire = FD_WRITE_RELAXED => call.op = "vfprintf"

\* The part about the kernel: its offset is buf_off.
Tracks == IsAnyWrite(file.dire) /\ kind # "stderr" /\ ~append => file.off = koff

\* What every way to move bytes must keep.
StreamOK ==
  /\ disk \in Seq(Nat) /\ koff \in Nat
  /\ log \in Seq([nl: BOOLEAN, pos: Int])
  /\ lost \subseteq Nat
  /\ StructOK(file, kind)
  /\ Tracks

\* The rest of the type invariant.
ControlOK ==
  /\ kind \in StreamKinds /\ append \in BOOLEAN /\ seekable \in BOOLEAN
  /\ call \in [op: Ops, src: Seq(BOOLEAN), want: Nat, got: Nat, puts: BOOLEAN]
  /\ ret \in [op: Calls, ok: BOOLEAN]
  /\ lossy \in BOOLEAN /\ exited \in BOOLEAN

IInv == StreamOK /\ ControlOK /\ CallOK

-----------------------------------------------------------------------------
(* Lemmas about the kernel file and the struct helpers. *)

LEMMA PutAtType ==
  ASSUME NEW d \in Seq(Nat), NEW at \in Nat, NEW bs \in Seq(Nat)
  PROVE  PutAt(d, at, bs) \in Seq(Nat)
<1> DEFINE end == at + Len(bs)
           n   == IF end > Len(d) THEN end ELSE Len(d)
<1>1. CASE bs = <<>>
  BY <1>1 DEF PutAt
<1>2. CASE bs # <<>>
  <2>1. n \in Nat
    BY LenProperties
  <2>2. \A i \in 1..n : (IF i > at /\ i <= end THEN bs[i - at]
                         ELSE IF i <= Len(d) THEN d[i] ELSE 0) \in Nat
    BY LenProperties, ElementOfSeq
  <2>3. PutAt(d, at, bs) = [i \in 1..n |-> IF i > at /\ i <= end THEN bs[i - at]
                                           ELSE IF i <= Len(d) THEN d[i] ELSE 0]
    BY <1>2 DEF PutAt
  <2> HIDE DEF n, end
  <2>4. QED
    BY <2>1, <2>2, <2>3, IsASeq
<1>3. QED
  BY <1>1, <1>2

LEMMA PrefixType ==
  ASSUME NEW S, NEW s \in Seq(S), NEW k \in 0..Len(s)
  PROVE  /\ SubSeq(s, 1, k) \in Seq(S)
         /\ Len(SubSeq(s, 1, k)) = k
         /\ SubSeq(s, k + 1, Len(s)) \in Seq(S)
         /\ Len(SubSeq(s, k + 1, Len(s))) = Len(s) - k
BY SubSeqProperties, LenProperties

LEMMA FlushedOK ==
  ASSUME NEW f, NEW knd, StructOK(f, knd), IsAnyWrite(f.dire), NEW k \in Nat
  PROVE  /\ StructOK(Flushed(f, k), knd)
         /\ Flushed(f, k).dire = f.dire
         /\ Flushed(f, k).bufEnd = f.bufEnd
         /\ Flushed(f, k).writePtr = 0
         /\ Flushed(f, k).off = f.off + k
         /\ Flushed(f, k).buf = <<>>
<1> DEFINE g == [f EXCEPT !.off = f.off + k, !.last = 0, !.readPtr = 0,
                          !.buf = <<>>, !.writePtr = 0]
<1>0. /\ f.off + k \in Int /\ 0 \in Nat /\ <<>> \in Seq(Nat \ {0})
      /\ f \in FileOf(Nat \ {0})
  BY EmptySeq DEF StructOK, FileOf
<1>1. ~IsAnyRead(f.dire)
  BY DEF StructOK, FileOf, Dires, IsAnyRead, IsAnyWrite, FD_CLOSED, FD_READ,
         FD_READ_LINEBUF, FD_WRITE, FD_WRITE_RELAXED, FD_WRITE_LINEBUF
<1>2. Flushed(f, k) = g
  BY <1>1 DEF Flushed, DiscardBuf, StructOK, FileOf
<1>3. /\ g.dire = f.dire /\ g.bufEnd = f.bufEnd /\ g.capEnd = f.capEnd
      /\ g.writePtr = 0 /\ g.readPtr = 0 /\ g.last = 0 /\ g.buf = <<>>
      /\ g.off = f.off + k
      /\ g \in FileOf(Nat \ {0})
  BY <1>0 DEF FileOf
<1>4. f.dire # FD_CLOSED
  BY DEF IsAnyWrite, FD_CLOSED
<1> HIDE DEF g
<1>5. StructOK(g, knd)
  BY <1>3, <1>4, EmptySeq DEF StructOK, FileOf
<1>6. QED
  BY <1>2, <1>3, <1>5

LEMMA StoredOK ==
  ASSUME NEW f, NEW knd, StructOK(f, knd), IsAnyWrite(f.dire),
         f.writePtr # f.bufEnd, NEW b \in Nat \ {0}
  PROVE  /\ StructOK(Stored(f, b), knd)
         /\ Stored(f, b).dire = f.dire
         /\ Stored(f, b).bufEnd = f.bufEnd
         /\ Stored(f, b).off = f.off
         /\ Stored(f, b).writePtr = f.writePtr + 1
<1> DEFINE g == [f EXCEPT !.writePtr = f.writePtr + 1, !.buf = Append(f.buf, b)]
<1>1. /\ Append(f.buf, b) \in Seq(Nat \ {0})
      /\ f.writePtr + 1 \in Nat /\ f \in FileOf(Nat \ {0})
      /\ Len(Append(f.buf, b)) = Len(f.buf) + 1
  BY AppendProperties DEF StructOK, FileOf
<1>2. Stored(f, b) = g
  BY DEF Stored, StructOK, FileOf
<1>3. /\ g.dire = f.dire /\ g.bufEnd = f.bufEnd /\ g.capEnd = f.capEnd
      /\ g.writePtr = f.writePtr + 1 /\ g.readPtr = f.readPtr /\ g.last = f.last
      /\ g.buf = Append(f.buf, b) /\ g.off = f.off
      /\ g \in FileOf(Nat \ {0})
  BY <1>1 DEF FileOf
<1>4. f.dire # FD_CLOSED
  BY DEF IsAnyWrite, FD_CLOSED
<1> HIDE DEF g
<1>5. StructOK(g, knd)
  BY <1>1, <1>3, <1>4 DEF StructOK, FileOf
<1>6. QED
  BY <1>2, <1>3, <1>5

LEMMA ClosedOK ==
  ASSUME NEW f, NEW knd, StructOK(f, knd), f.buf = <<>>,
         f.dire # FD_WRITE_RELAXED
  PROVE  StructOK(Closed(f), knd) /\ Closed(f).dire = FD_CLOSED
<1> DEFINE g == [f EXCEPT !.dire = FD_CLOSED, !.writePtr = f.bufEnd, !.readPtr = f.last]
<1>1. Closed(f) = g
  BY DEF Closed, StructOK, FileOf
<1>2. /\ g.dire = FD_CLOSED /\ g.bufEnd = f.bufEnd /\ g.capEnd = f.capEnd
      /\ g.writePtr = f.bufEnd /\ g.readPtr = f.last /\ g.last = f.last
      /\ g.buf = f.buf /\ g.off = f.off
      /\ g \in FileOf(Nat \ {0})
  BY DEF StructOK, FileOf, Dires
<1> HIDE DEF g
<1>3. /\ FD_CLOSED # FD_WRITE_RELAXED /\ ~IsAnyWrite(FD_CLOSED)
      /\ FD_CLOSED \notin {FD_READ, FD_READ_LINEBUF}
  BY DEF FD_CLOSED, FD_WRITE_RELAXED, IsAnyWrite, FD_READ, FD_READ_LINEBUF
<1>4. StructOK(g, knd)
  BY <1>2, <1>3 DEF StructOK, FileOf
<1>5. QED
  BY <1>1, <1>2, <1>4

LEMMA OpenedOK ==
  ASSUME NEW f, NEW knd, StructOK(f, knd), f.dire # FD_WRITE_RELAXED
  PROVE  /\ StructOK(Opened(f, FD_WRITE), knd)
         /\ Opened(f, FD_WRITE).off = 0
         /\ Opened(f, FD_WRITE).dire = FD_WRITE
         /\ Opened(f, FD_WRITE).buf = <<>>
<1> DEFINE g == [f EXCEPT !.dire = FD_WRITE, !.off = 0, !.last = 0,
                          !.readPtr = 0, !.buf = <<>>, !.writePtr = 0]
<1>0. /\ 0 \in Nat /\ 0 \in Int /\ <<>> \in Seq(Nat \ {0}) /\ FD_WRITE \in Dires
      /\ f \in FileOf(Nat \ {0})
  BY EmptySeq DEF StructOK, Dires
<1>1. ~IsAnyRead(FD_WRITE)
  BY DEF IsAnyRead, FD_WRITE
<1>2. Opened(f, FD_WRITE) = g
  BY <1>1 DEF Opened, DiscardBuf, StructOK, FileOf
<1>3. /\ g.dire = FD_WRITE /\ g.bufEnd = f.bufEnd /\ g.capEnd = f.capEnd
      /\ g.writePtr = 0 /\ g.readPtr = 0 /\ g.last = 0
      /\ g.buf = <<>> /\ g.off = 0
      /\ g \in FileOf(Nat \ {0})
  BY <1>0 DEF FileOf
<1> HIDE DEF g
<1>4. /\ FD_WRITE # FD_WRITE_RELAXED /\ FD_WRITE # FD_CLOSED
      /\ FD_WRITE \notin {FD_READ, FD_READ_LINEBUF}
  BY DEF FD_CLOSED, FD_WRITE_RELAXED, FD_WRITE, FD_READ, FD_READ_LINEBUF
<1>5. StructOK(g, knd)
  BY <1>3, <1>4, EmptySeq DEF StructOK, FileOf
<1>6. QED
  BY <1>2, <1>3, <1>5

-----------------------------------------------------------------------------
(* Lemmas about the steps that move bytes. *)

LEMMA KernelWriteStep ==
  ASSUME StreamOK, ControlOK, NEW bs \in Seq(Nat), KernelWrite(bs)
  PROVE  /\ disk' \in Seq(Nat) /\ koff' \in Nat
         /\ ~append => koff' = koff + Len(bs)
<1>1. WriteOff(bs) \in Nat /\ (~append => WriteOff(bs) = koff)
  BY LenProperties DEF WriteOff, StreamOK
<1>2. Len(bs) \in Nat
  BY LenProperties
<1>3. QED
  BY <1>1, <1>2, PutAtType DEF KernelWrite, StreamOK

LEMMA ElemsType ==
  ASSUME NEW s \in Seq(Nat \ {0})
  PROVE  Elems(s) \subseteq Nat /\ s \in Seq(Nat)
<1>1. \A i \in DOMAIN s : s[i] \in Nat
  BY ElementOfSeq, LenProperties
<1>2. s \in Seq(Nat)
  BY SeqMonotonic
<1>3. QED
  BY <1>1, <1>2 DEF Elems

LEMMA FlushAfterStep ==
  ASSUME StreamOK, ControlOK, NEW before \in Seq(Nat), NEW f, StructOK(f, kind),
         IsAnyWrite(f.dire), NEW k \in 0..Len(f.buf), FlushAfter(before, f, k)
  PROVE  /\ disk' \in Seq(Nat) /\ koff' \in Nat /\ lost' \subseteq Nat
         /\ file' = Flushed(f, k)
         /\ StructOK(file', kind)
         /\ file'.dire = f.dire /\ file'.bufEnd = f.bufEnd
         /\ file'.off = f.off + k
         /\ ~append => koff' = koff + Len(before) + k
<1>1. f.buf \in Seq(Nat \ {0}) /\ k \in Nat
  BY LenProperties DEF StructOK, FileOf
<1>2. /\ SubSeq(f.buf, 1, k) \in Seq(Nat \ {0}) /\ Len(SubSeq(f.buf, 1, k)) = k
      /\ SubSeq(f.buf, k + 1, Len(f.buf)) \in Seq(Nat \ {0})
  BY <1>1, PrefixType
<1>3. /\ SubSeq(f.buf, 1, k) \in Seq(Nat)
      /\ Elems(SubSeq(f.buf, k + 1, Len(f.buf))) \subseteq Nat
  BY <1>2, ElemsType
<1> DEFINE bs == before \o SubSeq(f.buf, 1, k)
<1>4. bs \in Seq(Nat) /\ Len(bs) = Len(before) + k
  BY <1>2, <1>3, ConcatProperties
<1>5. KernelWrite(bs)
  BY DEF FlushAfter
<1> HIDE DEF bs
<1>6. /\ disk' \in Seq(Nat) /\ koff' \in Nat
      /\ ~append => koff' = koff + Len(bs)
  BY <1>4, <1>5, KernelWriteStep
<1>7. lost' \subseteq Nat
  BY <1>3 DEF FlushAfter, StreamOK
<1>8. file' = Flushed(f, k)
  BY DEF FlushAfter
<1>9. Len(before) \in Nat /\ koff \in Nat
  BY LenProperties DEF StreamOK
<1>10. ~append => koff' = koff + Len(before) + k
  BY <1>1, <1>4, <1>6, <1>9
<1>11. /\ StructOK(Flushed(f, k), kind)
       /\ Flushed(f, k).dire = f.dire /\ Flushed(f, k).bufEnd = f.bufEnd
       /\ Flushed(f, k).off = f.off + k
  BY <1>1, FlushedOK
<1>12. QED
  BY <1>6, <1>7, <1>8, <1>10, <1>11

\* fflush keeps the stream in order.
LEMMA FflushStep ==
  ASSUME StreamOK, ControlOK, NEW ok \in BOOLEAN, Fflush_RP3(ok),
         UNCHANGED <<kind, append, log>>
  PROVE  StreamOK' /\ file'.dire = file.dire /\ file'.bufEnd = file.bufEnd
<1>1. CASE ~IsAnyWrite(file.dire)
  BY <1>1 DEF Fflush_RP3, StreamOK, Tracks
<1>2. CASE IsAnyWrite(file.dire)
  <2>1. PICK k \in 0..Len(file.buf) : FlushAfter(<<>>, file, k)
    BY <1>2 DEF Fflush_RP3
  <2>2. StructOK(file, kind) /\ <<>> \in Seq(Nat) /\ Len(<<>>) = 0
    BY EmptySeq DEF StreamOK
  <2>3. /\ disk' \in Seq(Nat) /\ koff' \in Nat /\ lost' \subseteq Nat
        /\ StructOK(file', kind)
        /\ file'.dire = file.dire /\ file'.bufEnd = file.bufEnd
        /\ file'.off = file.off + k
        /\ ~append => koff' = koff + Len(<<>>) + k
    BY <1>2, <2>1, <2>2, FlushAfterStep
  <2>4. Tracks'
    BY <2>2, <2>3, LenProperties DEF Tracks, StreamOK, StructOK, FileOf
  <2>5. QED
    BY <2>3, <2>4 DEF StreamOK
<1>3. QED
  BY <1>1, <1>2

\* The struct that has room for one more byte, and what makes the room.
LEMMA RoomyOK ==
  ASSUME StreamOK, file.bufEnd > 0, Full => IsAnyWrite(file.dire)
  PROVE  /\ IsAnyWrite(file.dire)
         /\ StructOK(Roomy, kind) /\ Roomy.dire = file.dire
         /\ Roomy.bufEnd = file.bufEnd /\ Roomy.writePtr # Roomy.bufEnd
         /\ RoomWrites \in Seq(Nat)
         /\ Roomy.off = file.off + Len(RoomWrites)
<1>0. StructOK(file, kind)
  BY DEF StreamOK
<1>1. IsAnyWrite(file.dire)
  BY <1>0 DEF StructOK, FileOf, Dires, Full, IsAnyWrite, FD_CLOSED, FD_READ,
              FD_READ_LINEBUF, FD_WRITE, FD_WRITE_RELAXED, FD_WRITE_LINEBUF
<1>2. CASE Full
  <2>1. Len(file.buf) \in Nat /\ file.buf \in Seq(Nat)
    BY <1>0, LenProperties, ElemsType DEF StructOK, FileOf
  <2>2. /\ StructOK(Flushed(file, Len(file.buf)), kind)
        /\ Flushed(file, Len(file.buf)).dire = file.dire
        /\ Flushed(file, Len(file.buf)).bufEnd = file.bufEnd
        /\ Flushed(file, Len(file.buf)).writePtr = 0
        /\ Flushed(file, Len(file.buf)).off = file.off + Len(file.buf)
    BY <1>0, <1>1, <2>1, FlushedOK
  <2>3. Roomy = Flushed(file, Len(file.buf)) /\ RoomWrites = file.buf
    BY <1>2 DEF Roomy, RoomWrites
  <2>4. QED
    BY <1>1, <2>1, <2>2, <2>3
<1>3. CASE ~Full
  <2>1. Roomy = file /\ RoomWrites = <<>>
    BY <1>3 DEF Roomy, RoomWrites
  <2>2. <<>> \in Seq(Nat) /\ Len(<<>>) = 0 /\ file.off \in Int
    BY <1>0, EmptySeq DEF StructOK, FileOf
  <2>3. QED
    BY <1>0, <1>1, <1>3, <2>1, <2>2 DEF Full
<1>4. QED
  BY <1>2, <1>3

\* Accepting a byte keeps the log a log.
LEMMA AcceptStep ==
  ASSUME StreamOK, NEW nl \in BOOLEAN, Accept(nl)
  PROVE  log' \in Seq([nl: BOOLEAN, pos: Int]) /\ NextId \in Nat \ {0}
<1>1. Tell(file) \in Int
  BY DEF Tell, StreamOK, StructOK, FileOf
<1>2. [nl |-> nl, pos |-> Tell(file)] \in [nl: BOOLEAN, pos: Int]
  BY <1>1
<1>3. log \in Seq([nl: BOOLEAN, pos: Int]) /\ Len(log) \in Nat
  BY LenProperties DEF StreamOK
<1>4. log' = Append(log, [nl |-> nl, pos |-> Tell(file)])
  BY DEF Accept
<1>5. log' \in Seq([nl: BOOLEAN, pos: Int])
  BY <1>2, <1>3, <1>4, AppendProperties
<1>6. QED
  BY <1>3, <1>5 DEF NextId

LEMMA PutStoredStep ==
  ASSUME StreamOK, ControlOK, NEW nl \in BOOLEAN, PutStored(nl), UNCHANGED <<kind, append>>
  PROVE  StreamOK' /\ file'.dire = file.dire /\ file'.bufEnd = file.bufEnd
<1>1. file.bufEnd > 0 /\ (Full => IsAnyWrite(file.dire)) /\ Accept(nl)
  BY DEF PutStored
<1>2. log' \in Seq([nl: BOOLEAN, pos: Int]) /\ NextId \in Nat \ {0}
  BY <1>1, AcceptStep
<1>3. /\ IsAnyWrite(file.dire)
      /\ StructOK(Roomy, kind) /\ Roomy.dire = file.dire
      /\ Roomy.bufEnd = file.bufEnd /\ Roomy.writePtr # Roomy.bufEnd
      /\ RoomWrites \in Seq(Nat)
      /\ Roomy.off = file.off + Len(RoomWrites)
  BY <1>1, RoomyOK
<1>4. file' = Stored(Roomy, NextId) /\ KernelWrite(RoomWrites) /\ lost' = lost
  BY DEF PutStored
<1>5. /\ StructOK(file', kind) /\ file'.dire = file.dire
      /\ file'.bufEnd = file.bufEnd /\ file'.off = Roomy.off
  BY <1>2, <1>3, <1>4, StoredOK
<1>6. /\ disk' \in Seq(Nat) /\ koff' \in Nat
      /\ ~append => koff' = koff + Len(RoomWrites)
  BY <1>3, <1>4, KernelWriteStep
<1>7. Tracks'
  BY <1>3, <1>5, <1>6 DEF Tracks, StreamOK
<1>8. QED
  BY <1>2, <1>4, <1>5, <1>6, <1>7 DEF StreamOK

LEMMA PutFlushedStep ==
  ASSUME StreamOK, ControlOK, NEW nl \in BOOLEAN, NEW ok \in BOOLEAN,
         PutFlushed(nl, ok), UNCHANGED <<kind, append>>
  PROVE  StreamOK' /\ file'.dire = file.dire /\ file'.bufEnd = file.bufEnd
<1>1. file.bufEnd > 0 /\ (Full => IsAnyWrite(file.dire)) /\ Accept(nl)
  BY DEF PutFlushed
<1>2. log' \in Seq([nl: BOOLEAN, pos: Int]) /\ NextId \in Nat \ {0}
  BY <1>1, AcceptStep
<1>3. /\ IsAnyWrite(file.dire)
      /\ StructOK(Roomy, kind) /\ Roomy.dire = file.dire
      /\ Roomy.bufEnd = file.bufEnd /\ Roomy.writePtr # Roomy.bufEnd
      /\ RoomWrites \in Seq(Nat)
      /\ Roomy.off = file.off + Len(RoomWrites)
  BY <1>1, RoomyOK
<1> DEFINE f == Stored(Roomy, NextId)
<1>4. PICK k \in 0..Len(f.buf) : FlushAfter(RoomWrites, f, k)
  BY DEF PutFlushed
<1>5. /\ StructOK(f, kind) /\ f.dire = file.dire
      /\ f.bufEnd = file.bufEnd /\ f.off = Roomy.off
  BY <1>2, <1>3, StoredOK
<1> HIDE DEF f
<1>6. /\ disk' \in Seq(Nat) /\ koff' \in Nat /\ lost' \subseteq Nat
      /\ StructOK(file', kind)
      /\ file'.dire = f.dire /\ file'.bufEnd = f.bufEnd
      /\ file'.off = f.off + k
      /\ ~append => koff' = koff + Len(RoomWrites) + k
  BY <1>3, <1>4, <1>5, FlushAfterStep
<1>7. Tracks'
  <2>1. file.off \in Int /\ koff \in Nat /\ k \in Int /\ Len(RoomWrites) \in Nat
    BY <1>3, <1>4, LenProperties DEF StreamOK, StructOK, FileOf
  <2>2. QED
    BY <1>3, <1>5, <1>6, <2>1 DEF Tracks, StreamOK
<1>8. QED
  BY <1>2, <1>5, <1>6, <1>7 DEF StreamOK

LEMMA PutUnbufferedStep ==
  ASSUME StreamOK, ControlOK, NEW nl \in BOOLEAN, NEW ok \in BOOLEAN,
         PutUnbuffered(nl, ok), UNCHANGED <<kind, append>>
  PROVE  StreamOK' /\ file' = file
<1>1. kind = "stderr"
  BY BufSizeAssumption DEF PutUnbuffered, StreamOK, StructOK
<1>2. file' = file /\ lost' = lost
  BY DEF PutUnbuffered
<1>3. Tracks'
  BY <1>1 DEF Tracks
<1>4. CASE ok
  <2>1. Accept(nl) /\ KernelWrite(<<NextId>>)
    BY <1>4 DEF PutUnbuffered
  <2>2. log' \in Seq([nl: BOOLEAN, pos: Int]) /\ NextId \in Nat \ {0}
    BY <2>1, AcceptStep
  <2>3. <<NextId>> \in Seq(Nat)
    BY <2>2
  <2>4. disk' \in Seq(Nat) /\ koff' \in Nat
    BY <2>1, <2>3, KernelWriteStep
  <2>5. QED
    BY <1>2, <1>3, <2>2, <2>4 DEF StreamOK
<1>5. CASE ~ok
  <2>1. UNCHANGED <<log, disk, koff>>
    BY <1>5 DEF PutUnbuffered
  <2>2. QED
    BY <1>2, <1>3, <2>1 DEF StreamOK
<1>6. QED
  BY <1>4, <1>5

LEMMA PutRefusedStep ==
  ASSUME StreamOK, ControlOK, PutRefused, UNCHANGED <<kind, append>>
  PROVE  StreamOK' /\ file'.dire = file.dire /\ file'.bufEnd = file.bufEnd
BY FflushStep DEF PutRefused

LEMMA FputcStep ==
  ASSUME StreamOK, ControlOK, NEW nl \in BOOLEAN, NEW ok \in BOOLEAN,
         Fputc_RP3(nl, ok), UNCHANGED <<kind, append>>
  PROVE  StreamOK' /\ file'.dire = file.dire /\ file'.bufEnd = file.bufEnd
<1>1. CASE PutUnbuffered(nl, ok)
  BY <1>1, PutUnbufferedStep
<1>2. CASE PutStored(nl)
  BY <1>2, PutStoredStep
<1>3. CASE PutFlushed(nl, ok)
  BY <1>3, PutFlushedStep
<1>4. CASE PutRefused
  BY <1>4, PutRefusedStep
<1>5. QED
  BY <1>1, <1>2, <1>3, <1>4 DEF Fputc_RP3

-----------------------------------------------------------------------------
(* The invariant holds at first. *)

LEMMA InitIInv == Init => IInv
<1> SUFFICES ASSUME Init PROVE IInv
  OBVIOUS
<1>1. BufSize \in Nat /\ BufSize > 0
  BY BufSizeAssumption
<1>2. kind \in StreamKinds
  BY KindsAssumption DEF Init
<1>3. StructOK(file, kind) /\ file.off = 0
  <2>1. file = InitialStruct(kind) /\ <<>> \in Seq(Nat \ {0}) /\ Len(<<>>) = 0
    BY EmptySeq DEF Init
  <2>2. QED
    BY <1>1, <2>1
       DEF InitialStruct, StructOK, FileOf, Dires, IsAnyWrite, FD_CLOSED, FD_READ,
           FD_READ_LINEBUF, FD_WRITE, FD_WRITE_RELAXED, FD_WRITE_LINEBUF
<1>4. StreamOK
  BY <1>3, EmptySeq DEF Init, StreamOK, Tracks
<1>5. ControlOK
  <2>0. seekable \in BOOLEAN
    BY DEF Init
  <2>1. append \in BOOLEAN /\ lossy \in BOOLEAN /\ exited \in BOOLEAN
    BY Zenon DEF Init
  <2>2. ret \in [op: Calls, ok: BOOLEAN]
    BY DEF Init, Calls
  <2>3. call \in [op: Ops, src: Seq(BOOLEAN), want: Nat, got: Nat, puts: BOOLEAN]
    BY EmptySeq DEF Init, Idle, Ops
  <2>4. QED
    BY <1>2, <2>0, <2>1, <2>2, <2>3 DEF ControlOK
<1>6. CallOK
  <2>1. file.dire # FD_WRITE_RELAXED
    BY DEF Init, InitialStruct, FD_WRITE, FD_WRITE_LINEBUF, FD_WRITE_RELAXED
  <2>2. QED
    BY <2>1 DEF Init, CallOK, Idle
<1>7. QED
  BY <1>4, <1>5, <1>6 DEF IInv

-----------------------------------------------------------------------------
(* The invariant is kept, one lemma per action. *)

LEMMA ReturnsType ==
  ASSUME NEW op \in Calls, NEW ok \in BOOLEAN, Returns(op, ok)
  PROVE  ret' \in [op: Calls, ok: BOOLEAN]
BY DEF Returns

\* ControlOK is kept by a step that leaves the call, or changes it well.
LEMMA ControlStep ==
  ASSUME ControlOK, UNCHANGED <<kind, exited>>, append' \in BOOLEAN, seekable' \in BOOLEAN,
         call' \in [op: Ops, src: Seq(BOOLEAN), want: Nat, got: Nat, puts: BOOLEAN],
         ret' \in [op: Calls, ok: BOOLEAN], lossy' \in BOOLEAN
  PROVE  ControlOK'
BY Zenon DEF ControlOK

\* No call is in progress, so the stream is not relaxed.
LEMMA ReadyNotRelaxed ==
  ASSUME IInv, Ready
  PROVE  call.op = "idle" /\ file.dire # FD_WRITE_RELAXED
BY DEF IInv, CallOK, Ready, Idle

LEMMA FputcKeeps ==
  ASSUME IInv, NEW nl \in BOOLEAN, Fputc(nl)
  PROVE  IInv'
<1>1. PICK ok \in BOOLEAN : Fputc_RP3(nl, ok) /\ Returns("fputc", ok)
  BY DEF Fputc
<1>2. UNCHANGED <<kind, append, seekable, call, exited>> /\ lossy' \in BOOLEAN /\ Ready
  BY DEF Fputc, Loses
<1>3. StreamOK' /\ file'.dire = file.dire
  BY <1>1, <1>2, FputcStep DEF IInv
<1>4. ControlOK'
  <2>1. ret' \in [op: Calls, ok: BOOLEAN]
    BY <1>1, ReturnsType DEF Calls
  <2>2. QED
    BY <1>2, <2>1, ControlStep DEF IInv, ControlOK
<1>5. CallOK'
  BY <1>2, <1>3, ReadyNotRelaxed DEF IInv, CallOK
<1>6. QED
  BY <1>3, <1>4, <1>5 DEF IInv

\* A chunk is a non-empty sequence of BOOLEANs.
LEMMA ChunkType ==
  ASSUME NEW src \in Chunks
  PROVE  src \in Seq(BOOLEAN) /\ src # <<>> /\ Len(src) \in Nat
<1>1. PICK n \in 1..MaxChunk : src \in [1..n -> BOOLEAN]
  BY DEF Chunks
<1>2. n \in Nat /\ n > 0
  BY <1>1, BoundsAssumption
<1>3. src \in Seq(BOOLEAN) /\ Len(src) = n
  BY <1>1, <1>2, SeqDef, LenProperties
<1>4. QED
  BY <1>2, <1>3, EmptySeq

LEMMA FwriteStartKeeps ==
  ASSUME IInv, NEW src \in Chunks, NEW puts \in BOOLEAN, FwriteStart(src, puts)
  PROVE  IInv'
<1>1. UNCHANGED <<file, disk, koff, log, lost, kind, append, seekable, exited>> /\ Ready
  BY DEF FwriteStart, Keep
<1>2. src \in Seq(BOOLEAN) /\ src # <<>> /\ Len(src) \in Nat
  BY ChunkType
<1>3. StreamOK'
  BY <1>1 DEF IInv, StreamOK, Tracks
<1>4. CASE ~IsAnyWrite(file.dire)
  <2>1. /\ UNCHANGED call /\ lossy' = FALSE
        /\ Returns("fputs", TRUE) \/ Returns("fwriteDirect", FALSE)
    BY <1>4 DEF FwriteStart
  <2>2. ControlOK'
    <3>1. ret' \in [op: Calls, ok: BOOLEAN]
      BY <2>1, ReturnsType DEF Calls, Ops
    <3>2. QED
      BY <1>1, <2>1, <3>1, ControlStep DEF IInv, ControlOK
  <2>3. CallOK'
    BY <1>1, <2>1 DEF IInv, CallOK
  <2>4. QED
    BY <1>3, <2>2, <2>3 DEF IInv
<1>5. CASE IsAnyWrite(file.dire)
  <2>1. Start(FwriteLoop(Len(src)), src, puts) /\ UNCHANGED ret
    BY <1>5 DEF FwriteStart
  <2>2. /\ FwriteLoop(Len(src)) \in {"fwriteLine", "fwriteCopy", "fwriteDirect"}
        /\ FwriteLoop(Len(src)) \in {"fwriteLine", "fwriteCopy"} => file.bufEnd # 0
    BY DEF FwriteLoop
  <2>3. file.bufEnd \in Nat
    BY DEF IInv, StreamOK, StructOK, FileOf
  <2>4. ControlOK'
    BY <1>1, <1>2, <2>1, <2>2, ControlStep DEF IInv, ControlOK, Start, Ops
  <2>5. CallOK'
    BY <1>1, <1>2, <1>5, <2>1, <2>2, <2>3, ReadyNotRelaxed DEF CallOK, Start
  <2>6. QED
    BY <1>3, <2>4, <2>5 DEF IInv
<1>6. QED
  BY <1>4, <1>5

\* Returning, and going on with the rest of the data, keep ControlOK.
LEMMA FinishStep ==
  ASSUME ControlOK, NEW g \in Nat, Finish(g)
  PROVE  call' = Idle /\ ret' \in [op: Calls, ok: BOOLEAN]
<1>1. /\ call' = Idle
      /\ IF call.puts THEN Returns("fputs", TRUE) ELSE Returns(call.op, g = call.want)
  BY DEF Finish
<1>2. call.op \in Calls /\ "fputs" \in Calls /\ (g = call.want) \in BOOLEAN
  BY DEF ControlOK, Calls, Ops
<1>3. QED
  BY <1>1, <1>2, ReturnsType

LEMMA IdleType == Idle \in [op: Ops, src: Seq(BOOLEAN), want: Nat, got: Nat, puts: BOOLEAN]
BY EmptySeq DEF Idle, Ops

LEMMA GoOnStep ==
  ASSUME ControlOK, NEW n \in 1..Len(call.src), GoOn(n)
  PROVE  /\ call' \in [op: Ops, src: Seq(BOOLEAN), want: Nat, got: Nat, puts: BOOLEAN]
         /\ call' = Idle \/ (call'.op = call.op /\ call'.src # <<>>)
         /\ ret' \in [op: Calls, ok: BOOLEAN]
<1>1. /\ call \in [op: Ops, src: Seq(BOOLEAN), want: Nat, got: Nat, puts: BOOLEAN]
      /\ call.src \in Seq(BOOLEAN) /\ Len(call.src) \in Nat /\ call.got + n \in Nat
  BY LenProperties DEF ControlOK
<1>2. CASE n = Len(call.src)
  BY <1>1, <1>2, FinishStep, IdleType DEF GoOn
<1>3. CASE n # Len(call.src)
  <2> DEFINE rest == SubSeq(call.src, n + 1, Len(call.src))
  <2>1. call' = [call EXCEPT !.src = rest, !.got = call.got + n] /\ ret' = ret
    BY <1>3 DEF GoOn
  <2>2. rest \in Seq(BOOLEAN) /\ Len(rest) = Len(call.src) - n
    BY <1>1, PrefixType
  <2> HIDE DEF rest
  <2>3. rest # <<>>
    BY <1>1, <1>3, <2>2, EmptySeq
  <2>4. QED
    BY <1>1, <2>1, <2>2, <2>3 DEF ControlOK
<1>4. QED
  BY <1>2, <1>3

\* What a step of a call in progress has to show for the invariant: the bytes
\* are in order, the stream keeps its direction and its buffer, and the call
\* returns or stays in a loop it may be in.
LEMMA CallStep ==
  ASSUME IInv, Keep, StreamOK', file'.dire = file.dire, file'.bufEnd = file.bufEnd,
         call.op \in {"fwriteLine", "fwriteCopy", "fwriteDirect"},
         call' \in [op: Ops, src: Seq(BOOLEAN), want: Nat, got: Nat, puts: BOOLEAN],
         \/ call' = Idle
         \/ call'.op \in {call.op, "fwriteDirect"} /\ call'.src # <<>>,
         ret' \in [op: Calls, ok: BOOLEAN], lossy' \in BOOLEAN
  PROVE  IInv'
<1>1. ControlOK'
  BY ControlStep DEF Keep, IInv, ControlOK
<1>2. CallOK'
  BY DEF IInv, CallOK, Idle
<1>3. QED
  BY <1>1, <1>2 DEF IInv

\* The next byte of the data of an fwrite.
LEMMA HeadType ==
  ASSUME ControlOK, call.src # <<>>
  PROVE  Nl \in BOOLEAN /\ Len(call.src) \in Nat \ {0} /\ 1 \in 1..Len(call.src)
<1>1. call.src \in Seq(BOOLEAN)
  BY DEF ControlOK
<1>2. QED
  BY <1>1, HeadTailProperties, EmptySeq, LenProperties DEF Nl

LEMMA FwriteLineKeeps ==
  ASSUME IInv, FwriteLine
  PROVE  IInv'
<1>1. /\ call.op = "fwriteLine" /\ Keep /\ lossy' \in BOOLEAN
      /\ call.src # <<>> /\ StreamOK /\ ControlOK
      /\ UNCHANGED <<kind, append>>
  BY DEF FwriteLine, Keep, IInv, CallOK, Loses, ControlOK
<1>2. Nl \in BOOLEAN /\ 1 \in 1..Len(call.src) /\ call.got \in Nat
  BY <1>1, HeadType DEF ControlOK
<1>3. CASE GoOn(1) /\ (PutStored(Nl) \/ PutFlushed(Nl, TRUE))
  <2>1. StreamOK' /\ file'.dire = file.dire /\ file'.bufEnd = file.bufEnd
    BY <1>1, <1>2, <1>3, PutStoredStep, PutFlushedStep
  <2>2. QED
    BY <1>1, <1>2, <1>3, <2>1, GoOnStep, CallStep
<1>4. CASE \E g \in Nat : Finish(g) /\ (PutFlushed(Nl, FALSE) \/ PutRefused)
  <2>1. StreamOK' /\ file'.dire = file.dire /\ file'.bufEnd = file.bufEnd
    BY <1>1, <1>2, <1>4, PutFlushedStep, PutRefusedStep
  <2>2. call' = Idle /\ ret' \in [op: Calls, ok: BOOLEAN]
    BY <1>1, <1>4, FinishStep
  <2>3. QED
    BY <1>1, <2>1, <2>2, IdleType, CallStep
<1>5. call.got + 1 \in Nat
  BY <1>2
<1>6. \/ GoOn(1) /\ (PutStored(Nl) \/ PutFlushed(Nl, TRUE))
      \/ PutFlushed(Nl, FALSE) /\ Finish(call.got + 1)
      \/ PutRefused /\ Finish(call.got)
  BY Zenon DEF FwriteLine
<1>7. QED
  BY <1>2, <1>3, <1>4, <1>5, <1>6

LEMMA FwriteCopyKeeps ==
  ASSUME IInv, FwriteCopy
  PROVE  IInv'
<1>1. /\ call.op = "fwriteCopy" /\ Keep /\ lossy' \in BOOLEAN
      /\ call.src # <<>> /\ StreamOK /\ ControlOK
      /\ UNCHANGED <<kind, append>> /\ PutStored(Nl) /\ GoOn(1)
  BY DEF FwriteCopy, Keep, IInv, CallOK, ControlOK
<1>2. Nl \in BOOLEAN /\ 1 \in 1..Len(call.src)
  BY <1>1, HeadType
<1>3. StreamOK' /\ file'.dire = file.dire /\ file'.bufEnd = file.bufEnd
  BY <1>1, <1>2, PutStoredStep
<1>4. QED
  BY <1>1, <1>2, <1>3, GoOnStep, CallStep

LEMMA FwriteFlushKeeps ==
  ASSUME IInv, FwriteFlush
  PROVE  IInv'
<1>1. /\ call.op = "fwriteCopy" /\ Keep /\ lossy' \in BOOLEAN
      /\ call.src # <<>> /\ StreamOK /\ ControlOK
      /\ UNCHANGED <<kind, append, log>> /\ call.got \in Nat
  BY DEF FwriteFlush, Keep, IInv, CallOK, ControlOK, Loses
<1>2. PICK ok \in BOOLEAN :
        /\ Fflush_RP3(ok)
        /\ IF ok THEN call' = [call EXCEPT !.op = "fwriteDirect"] /\ UNCHANGED ret
                 ELSE Finish(call.got)
  BY DEF FwriteFlush
<1>3. StreamOK' /\ file'.dire = file.dire /\ file'.bufEnd = file.bufEnd
  BY <1>1, <1>2, FflushStep
<1>4. CASE ok
  <2>1. /\ call' \in [op: Ops, src: Seq(BOOLEAN), want: Nat, got: Nat, puts: BOOLEAN]
        /\ call'.op = "fwriteDirect" /\ call'.src = call.src
    BY <1>1, <1>2, <1>4 DEF ControlOK, Ops
  <2>2. QED
    BY <1>1, <1>2, <1>3, <1>4, <2>1, CallStep DEF ControlOK
<1>5. CASE ~ok
  BY <1>1, <1>2, <1>3, <1>5, FinishStep, IdleType, CallStep
<1>6. QED
  BY <1>4, <1>5

LEMMA FwriteDirectKeeps ==
  ASSUME IInv, FwriteDirect
  PROVE  IInv'
<1>1. /\ call.op = "fwriteDirect" /\ Keep /\ lossy' = lossy /\ lossy' \in BOOLEAN
      /\ call.src # <<>> /\ StreamOK /\ ControlOK /\ IsAnyWrite(file.dire)
      /\ UNCHANGED <<kind, append, lost>> /\ call.got \in Nat
  BY DEF FwriteDirect, Keep, IInv, CallOK, ControlOK
<1>2. call.src \in Seq(BOOLEAN) /\ Len(call.src) \in Nat
  BY <1>1, LenProperties DEF ControlOK
<1> DEFINE ids(k)   == [i \in 1..k |-> Len(log) + i]
           taken(k) == [i \in 1..k |-> [nl |-> call.src[i], pos |-> Tell(file) + i - 1]]
<1>3. PICK k \in 0..Len(call.src) :
        IF k = 0
          THEN Finish(call.got) /\ UNCHANGED <<file, disk, koff, log>>
          ELSE /\ KernelWrite(ids(k))
               /\ file' = [file EXCEPT !.off = @ + k]
               /\ log' = log \o taken(k)
               /\ GoOn(k)
  BY DEF FwriteDirect
<1>4. CASE k = 0
  <2>1. StreamOK'
    BY <1>1, <1>3, <1>4 DEF StreamOK, Tracks
  <2>2. QED
    BY <1>1, <1>3, <1>4, <2>1, FinishStep, IdleType, CallStep
<1>5. CASE k # 0
  <2>1. k \in Nat /\ k \in 1..Len(call.src)
    BY <1>2, <1>3, <1>5
  <2>2. StructOK(file, kind) /\ file.off \in Int /\ Tell(file) \in Int
    BY <1>1 DEF StreamOK, StructOK, FileOf, Tell
  <2>3. Len(log) \in Nat /\ log \in Seq([nl: BOOLEAN, pos: Int])
    BY <1>1, LenProperties DEF StreamOK
  <2>4. ids(k) \in Seq(Nat) /\ Len(ids(k)) = k
    BY <2>1, <2>3, SeqDef, LenProperties
  <2>5. taken(k) \in Seq([nl: BOOLEAN, pos: Int])
    <3>1. \A i \in 1..k : call.src[i] \in BOOLEAN
      BY <1>2, <2>1, ElementOfSeq
    <3>2. \A i \in 1..k : [nl |-> call.src[i], pos |-> Tell(file) + i - 1]
                             \in [nl: BOOLEAN, pos: Int]
      BY <2>1, <2>2, <3>1
    <3>3. taken(k) \in [1..k -> [nl: BOOLEAN, pos: Int]]
      BY <3>2
    <3> HIDE DEF taken
    <3>4. QED
      BY <2>1, <3>3, SeqDef
  <2> HIDE DEF ids, taken
  <2>6. log' \in Seq([nl: BOOLEAN, pos: Int])
    BY <1>3, <1>5, <2>3, <2>5, ConcatProperties
  <2>7. /\ disk' \in Seq(Nat) /\ koff' \in Nat
        /\ ~append => koff' = koff + k
    BY <1>1, <1>3, <1>5, <2>4, KernelWriteStep
  <2>8. /\ file' = [file EXCEPT !.off = file.off + k]
        /\ file.off + k \in Int
    BY <1>3, <1>5, <2>1, <2>2
  <2>9. /\ StructOK(file', kind) /\ file'.off = file.off + k
        /\ file'.dire = file.dire /\ file'.bufEnd = file.bufEnd
    BY <2>2, <2>8 DEF StructOK, FileOf
  <2>10. Tracks'
    BY <1>1, <2>7, <2>9 DEF Tracks, StreamOK
  <2>11. StreamOK'
    BY <1>1, <2>6, <2>7, <2>9, <2>10 DEF StreamOK
  <2>12. QED
    BY <1>1, <1>3, <1>5, <2>1, <2>9, <2>11, GoOnStep, CallStep
<1>6. QED
  BY <1>4, <1>5

\* relax changes the struct only if it is unbuffered, that is stderr.
LEMMA RelaxedOK ==
  ASSUME StreamOK, file.dire # FD_WRITE_RELAXED
  PROVE  /\ StructOK(Relaxed(file), kind)
         /\ Relaxed(file).off = file.off /\ Relaxed(file).buf = file.buf
         /\ Relaxed(file).dire \in {file.dire, FD_WRITE_RELAXED}
         /\ IsAnyWrite(Relaxed(file).dire) => IsAnyWrite(file.dire)
<1>0. StructOK(file, kind) /\ BufSize \in Nat /\ BufSize > 0
  BY BufSizeAssumption DEF StreamOK
<1>1. CASE ~(file.dire = FD_WRITE /\ file.capEnd > file.bufEnd)
  BY <1>0, <1>1 DEF Relaxed
<1>2. CASE file.dire = FD_WRITE /\ file.capEnd > file.bufEnd
  <2> DEFINE g == [file EXCEPT !.dire = FD_WRITE_RELAXED,
                               !.capEnd = file.bufEnd, !.bufEnd = file.capEnd]
  <2>1. Relaxed(file) = g
    BY <1>2 DEF Relaxed
  <2>2. /\ g.dire = FD_WRITE_RELAXED /\ g.capEnd = file.bufEnd
        /\ g.bufEnd = file.capEnd /\ g.off = file.off /\ g.buf = file.buf
        /\ g.writePtr = file.writePtr /\ g.readPtr = file.readPtr
        /\ g.last = file.last /\ g \in FileOf(Nat \ {0})
    BY <1>0 DEF StructOK, FileOf, Dires
  <2> HIDE DEF g
  <2>3. kind = "stderr" /\ file.bufEnd = 0 /\ file.capEnd = BufSize
    BY <1>0, <1>2 DEF StructOK
  <2>4. /\ IsAnyWrite(file.dire) /\ FD_WRITE_RELAXED # FD_CLOSED
        /\ FD_WRITE_RELAXED \notin {FD_READ, FD_READ_LINEBUF}
    BY <1>2 DEF IsAnyWrite, FD_WRITE, FD_WRITE_RELAXED, FD_CLOSED, FD_READ,
                FD_READ_LINEBUF
  <2>5. StructOK(g, kind)
    BY <1>0, <2>2, <2>3, <2>4 DEF StructOK, FileOf
  <2>6. QED
    BY <2>1, <2>2, <2>4, <2>5
<1>3. QED
  BY <1>1, <1>2

LEMMA UnrelaxedOK ==
  ASSUME NEW f, NEW knd, StructOK(f, knd), f.dire = FD_WRITE_RELAXED, f.writePtr = 0
  PROVE  /\ StructOK(Unrelaxed(f), knd) /\ Unrelaxed(f).dire = FD_WRITE
         /\ Unrelaxed(f).buf = f.buf
<1> DEFINE g == [f EXCEPT !.dire = FD_WRITE, !.capEnd = f.bufEnd, !.bufEnd = f.capEnd]
<1>1. Unrelaxed(f) = g
  BY DEF Unrelaxed
<1>2. /\ g.dire = FD_WRITE /\ g.capEnd = f.bufEnd /\ g.bufEnd = f.capEnd
      /\ g.off = f.off /\ g.buf = f.buf /\ g.writePtr = f.writePtr
      /\ g.readPtr = f.readPtr /\ g.last = f.last /\ g \in FileOf(Nat \ {0})
  BY DEF StructOK, FileOf, Dires
<1> HIDE DEF g
<1>3. /\ IsAnyWrite(FD_WRITE) /\ IsAnyWrite(f.dire) /\ FD_WRITE # FD_WRITE_RELAXED
      /\ FD_WRITE # FD_CLOSED /\ FD_WRITE \notin {FD_READ, FD_READ_LINEBUF}
  BY DEF IsAnyWrite, FD_WRITE, FD_WRITE_RELAXED, FD_CLOSED, FD_READ, FD_READ_LINEBUF
<1>4. StructOK(g, knd)
  BY <1>2, <1>3 DEF StructOK, FileOf
<1>5. QED
  BY <1>1, <1>2, <1>4

LEMMA VfprintfStartKeeps ==
  ASSUME IInv, NEW src \in Chunks, VfprintfStart(src)
  PROVE  IInv'
<1>1. /\ UNCHANGED <<disk, koff, log, lost, ret, kind, append, seekable, exited>> /\ Ready
      /\ file' = Relaxed(file) /\ Start("vfprintf", src, FALSE)
  BY DEF VfprintfStart, Keep
<1>2. src \in Seq(BOOLEAN) /\ src # <<>> /\ Len(src) \in Nat
  BY ChunkType
<1>3. file.dire # FD_WRITE_RELAXED
  BY <1>1, ReadyNotRelaxed
<1>4. StreamOK'
  BY <1>1, <1>3, RelaxedOK DEF IInv, StreamOK, Tracks
<1>5. /\ call' \in [op: Ops, src: Seq(BOOLEAN), want: Nat, got: Nat, puts: BOOLEAN]
      /\ call'.op = "vfprintf" /\ lossy' = FALSE
  BY <1>1, <1>2 DEF Start, Ops
<1>6. ControlOK'
  BY <1>1, <1>5, ControlStep DEF IInv, ControlOK
<1>7. CallOK'
  BY <1>5 DEF CallOK
<1>8. QED
  BY <1>4, <1>6, <1>7 DEF IInv

LEMMA VfprintfByteKeeps ==
  ASSUME IInv, VfprintfByte
  PROVE  IInv'
<1>1. /\ call.op = "vfprintf" /\ call.src # <<>> /\ Keep /\ UNCHANGED ret
      /\ StreamOK /\ ControlOK /\ UNCHANGED <<kind, append, seekable, exited>>
      /\ lossy' \in BOOLEAN
  BY DEF VfprintfByte, Keep, IInv, ControlOK, Loses
<1>2. PICK ok \in BOOLEAN :
        /\ Fputc_RP3(Nl, ok)
        /\ call' = [call EXCEPT !.src = Tail(@), !.got = @ + Count(ok)]
  BY DEF VfprintfByte
<1>3. Nl \in BOOLEAN
  BY <1>1, HeadType
<1>4. StreamOK'
  BY <1>1, <1>2, <1>3, FputcStep
<1>5. Tail(call.src) \in Seq(BOOLEAN) /\ call.got + Count(ok) \in Nat
  <2>1. call.src \in Seq(BOOLEAN) /\ call.got \in Nat
    BY <1>1 DEF ControlOK
  <2>2. Tail(call.src) \in Seq(BOOLEAN)
    BY <1>1, <2>1, HeadTailProperties
  <2>3. Count(ok) \in Nat
    BY DEF Count
  <2>4. QED
    BY <2>1, <2>2, <2>3
<1>6. /\ call' \in [op: Ops, src: Seq(BOOLEAN), want: Nat, got: Nat, puts: BOOLEAN]
      /\ call'.op = "vfprintf"
  BY <1>1, <1>2, <1>5 DEF ControlOK
<1>7. ControlOK'
  BY <1>1, <1>6, ControlStep DEF ControlOK
<1>8. CallOK'
  BY <1>6 DEF CallOK
<1>9. QED
  BY <1>4, <1>7, <1>8 DEF IInv

LEMMA VfprintfEndKeeps ==
  ASSUME IInv, VfprintfEnd
  PROVE  IInv'
<1>1. /\ call.op = "vfprintf" /\ Keep /\ Finish(call.got) /\ UNCHANGED log
      /\ StreamOK /\ ControlOK /\ UNCHANGED <<kind, append, seekable, exited>>
      /\ lossy' \in BOOLEAN /\ call.got \in Nat
  BY DEF VfprintfEnd, Keep, IInv, ControlOK, Loses
<1>2. call' = Idle /\ ret' \in [op: Calls, ok: BOOLEAN]
  BY <1>1, FinishStep
<1>3. ControlOK'
  BY <1>1, <1>2, IdleType, ControlStep DEF ControlOK
<1>4. CASE file.dire = FD_WRITE_RELAXED
  <2>1. PICK k \in 0..Len(file.buf) :
          /\ KernelWrite(SubSeq(file.buf, 1, k))
          /\ file' = Unrelaxed(Flushed(file, k))
          /\ lost' = lost \union Elems(SubSeq(file.buf, k + 1, Len(file.buf)))
    BY <1>4 DEF VfprintfEnd
  <2>2. StructOK(file, kind) /\ IsAnyWrite(file.dire) /\ kind = "stderr" /\ k \in Nat
    BY <1>1, <1>4, <2>1, LenProperties
       DEF StreamOK, StructOK, IsAnyWrite, FD_WRITE_RELAXED
  <2>3. file.buf \in Seq(Nat \ {0})
    BY <2>2 DEF StructOK, FileOf
  <2>4. /\ SubSeq(file.buf, 1, k) \in Seq(Nat)
        /\ Elems(SubSeq(file.buf, k + 1, Len(file.buf))) \subseteq Nat
    BY <2>1, <2>3, PrefixType, ElemsType
  <2>5. disk' \in Seq(Nat) /\ koff' \in Nat
    BY <1>1, <2>1, <2>4, KernelWriteStep
  <2>6. /\ StructOK(Flushed(file, k), kind)
        /\ Flushed(file, k).dire = FD_WRITE_RELAXED
        /\ Flushed(file, k).writePtr = 0
    BY <1>4, <2>2, FlushedOK
  <2>7. StructOK(file', kind) /\ file'.dire = FD_WRITE
    BY <2>1, <2>6, UnrelaxedOK
  <2>8. StreamOK'
    BY <1>1, <2>1, <2>2, <2>4, <2>5, <2>7 DEF StreamOK, Tracks
  <2>9. CallOK'
    BY <1>2, <2>7 DEF CallOK, Idle, FD_WRITE, FD_WRITE_RELAXED
  <2>10. QED
    BY <1>3, <2>8, <2>9 DEF IInv
<1>5. CASE file.dire # FD_WRITE_RELAXED
  <2>1. UNCHANGED <<file, disk, koff, lost>>
    BY <1>5 DEF VfprintfEnd
  <2>2. StreamOK' /\ CallOK'
    BY <1>1, <1>2, <1>5, <2>1 DEF StreamOK, Tracks, CallOK, Idle
  <2>3. QED
    BY <1>3, <2>2 DEF IInv
<1>6. QED
  BY <1>4, <1>5

LEMMA FflushKeeps ==
  ASSUME IInv, Fflush
  PROVE  IInv'
<1>1. /\ Ready /\ Keep /\ UNCHANGED <<kind, append, seekable, exited, log, call>>
      /\ lossy' \in BOOLEAN /\ StreamOK /\ ControlOK
  BY DEF Fflush, Keep, IInv, Loses
<1>2. PICK ok \in BOOLEAN : Fflush_RP3(ok) /\ Returns("fflush", ok)
  BY DEF Fflush
<1>3. StreamOK' /\ file'.dire = file.dire
  BY <1>1, <1>2, FflushStep
<1>4. ret' \in [op: Calls, ok: BOOLEAN]
  BY <1>2, ReturnsType DEF Calls
<1>5. ControlOK'
  BY <1>1, <1>4, ControlStep DEF ControlOK
<1>6. CallOK'
  BY <1>1, <1>3, ReadyNotRelaxed DEF IInv, CallOK
<1>7. QED
  BY <1>3, <1>5, <1>6 DEF IInv

LEMMA FseekKeeps ==
  ASSUME IInv, NEW offset \in Int, NEW whence \in Whences, Fseek(offset, whence)
  PROVE  IInv'
<1>1. /\ Ready /\ Keep /\ UNCHANGED <<kind, append, seekable, exited, log, call>>
      /\ lossy' \in BOOLEAN /\ StreamOK /\ ControlOK
  BY DEF Fseek, Keep, IInv, Loses
<1>2. SUFFICES StreamOK' /\ file'.dire = file.dire /\ ret' \in [op: Calls, ok: BOOLEAN]
  <2>1. ControlOK'
    BY <1>1, <1>2, ControlStep DEF ControlOK
  <2>2. CallOK'
    BY <1>1, <1>2, ReadyNotRelaxed DEF IInv, CallOK
  <2>3. QED
    BY <1>2, <2>1, <2>2 DEF IInv
<1>3. CASE Fflush_RP3(FALSE) /\ Returns("fseek", FALSE)
  BY <1>1, <1>3, FflushStep, ReturnsType DEF Calls
<1>4. CASE IsAnyWrite(file.dire) /\ ~(Fflush_RP3(FALSE) /\ Returns("fseek", FALSE))
  <2> DEFINE at == WriteOff(file.buf) + Len(file.buf)
             flushed == PutAt(disk, WriteOff(file.buf), file.buf)
             target == offset + (CASE whence = "SEEK_SET" -> 0
                                   [] whence = "SEEK_CUR" -> at
                                   [] whence = "SEEK_END" -> Len(flushed))
             f == Flushed(file, Len(file.buf))
  <2>1. /\ lost' = lost /\ disk' = flushed
        /\ IF seekable /\ target >= 0
             THEN /\ koff' = target /\ file' = [f EXCEPT !.off = target]
                  /\ Returns("fseek", TRUE)
             ELSE koff' = at /\ file' = f /\ Returns("fseek", FALSE)
    BY <1>4 DEF Fseek
  <2>2. StructOK(file, kind) /\ file.buf \in Seq(Nat) /\ Len(file.buf) \in Nat
    BY <1>1, ElemsType, LenProperties DEF StreamOK, StructOK, FileOf
  <2>3. WriteOff(file.buf) \in Nat /\ (~append => WriteOff(file.buf) = koff)
    BY <1>1, LenProperties DEF WriteOff, StreamOK
  <2>4. at \in Nat /\ flushed \in Seq(Nat) /\ Len(flushed) \in Nat
    BY <1>1, <2>2, <2>3, PutAtType, LenProperties DEF StreamOK
  <2>5. target \in Int
    <3> HIDE DEF at, flushed
    <3>1. QED
      BY <2>4 DEF Whences
  <2>6. /\ StructOK(f, kind) /\ f.dire = file.dire /\ f.bufEnd = file.bufEnd
        /\ f.off = file.off + Len(file.buf)
    BY <1>4, <2>2, FlushedOK
  <2>7. ret' \in [op: Calls, ok: BOOLEAN]
    BY <2>1, ReturnsType DEF Calls
  <2>8. CASE seekable /\ target >= 0
    <3>0. koff' = target /\ file' = [f EXCEPT !.off = target]
      BY <2>1, <2>8
    <3> HIDE DEF target, flushed, f
    <3>1. koff' = target /\ file' = [f EXCEPT !.off = target] /\ koff' \in Nat
      BY <2>5, <2>8, <3>0
    <3>2. StructOK(file', kind) /\ file'.off = target /\ file'.dire = file.dire
      BY <2>5, <2>6, <3>1 DEF StructOK, FileOf
    <3>3. QED
      BY <1>1, <2>1, <2>4, <2>7, <3>1, <3>2 DEF StreamOK, Tracks
  <2>9. CASE ~(seekable /\ target >= 0)
    <3>1. koff' = at /\ file' = f
      BY <2>1, <2>9
    <3>2. Tracks'
      BY <1>1, <2>2, <2>3, <2>6, <3>1 DEF StreamOK, Tracks
    <3> HIDE DEF target, flushed, f, at
    <3>3. QED
      BY <1>1, <2>1, <2>4, <2>6, <2>7, <3>1, <3>2 DEF StreamOK
  <2>10. QED
    BY <2>8, <2>9
<1>5. QED
  BY <1>3, <1>4 DEF Fseek

\* The flush and close of fclose and of a freopen.
LEMMA ClosingStep ==
  ASSUME StreamOK, ControlOK, IsAnyWrite(file.dire), file.dire # FD_WRITE_RELAXED,
         NEW k \in 0..Len(file.buf),
         KernelWrite(SubSeq(file.buf, 1, k)),
         file' = Closed(Flushed(file, k)),
         lost' = lost \union Elems(SubSeq(file.buf, k + 1, Len(file.buf))),
         UNCHANGED <<kind, append, log>>
  PROVE  StreamOK' /\ file'.dire = FD_CLOSED
<1>1. StructOK(file, kind) /\ file.buf \in Seq(Nat \ {0}) /\ k \in Nat
  BY LenProperties DEF StreamOK, StructOK, FileOf
<1>2. /\ SubSeq(file.buf, 1, k) \in Seq(Nat)
      /\ Elems(SubSeq(file.buf, k + 1, Len(file.buf))) \subseteq Nat
  BY <1>1, PrefixType, ElemsType
<1>3. disk' \in Seq(Nat) /\ koff' \in Nat
  BY <1>2, KernelWriteStep
<1>4. /\ StructOK(Flushed(file, k), kind) /\ Flushed(file, k).buf = <<>>
      /\ Flushed(file, k).dire = file.dire
  BY <1>1, FlushedOK
<1>5. StructOK(file', kind) /\ file'.dire = FD_CLOSED
  BY <1>4, ClosedOK
<1>6. Tracks'
  BY <1>5 DEF Tracks, IsAnyWrite, FD_CLOSED
<1>7. QED
  BY <1>2, <1>3, <1>5, <1>6 DEF StreamOK

\* A stream of this module is written or closed.
LEMMA WrittenOrClosed ==
  ASSUME StreamOK
  PROVE  IsAnyWrite(file.dire) \/ file.dire = FD_CLOSED
BY DEF StreamOK, StructOK, FileOf, Dires, IsAnyWrite, FD_CLOSED, FD_READ,
       FD_READ_LINEBUF, FD_WRITE, FD_WRITE_RELAXED, FD_WRITE_LINEBUF

LEMMA FcloseKeeps ==
  ASSUME IInv, Fclose
  PROVE  IInv'
<1>1. /\ Ready /\ Keep /\ UNCHANGED <<kind, append, seekable, exited, log, call>>
      /\ lossy' \in BOOLEAN /\ StreamOK /\ ControlOK
      /\ call.op = "idle" /\ file.dire # FD_WRITE_RELAXED
  BY ReadyNotRelaxed DEF Fclose, Keep, IInv, Loses
<1>2. StreamOK' /\ file'.dire # FD_WRITE_RELAXED
  <2>1. CASE UNCHANGED <<file, disk, koff, lost>>
    BY <1>1, <2>1 DEF StreamOK, Tracks
  <2>2. CASE /\ IsAnyWrite(file.dire)
             /\ \E k \in 0..Len(file.buf) :
                  /\ KernelWrite(SubSeq(file.buf, 1, k))
                  /\ file' = Closed(Flushed(file, k))
                  /\ lost' = lost \union Elems(SubSeq(file.buf, k + 1, Len(file.buf)))
    BY <1>1, <2>2, ClosingStep DEF FD_CLOSED, FD_WRITE_RELAXED
  <2>3. QED
    BY <2>1, <2>2 DEF Fclose
<1>3. ret' \in [op: Calls, ok: BOOLEAN]
  <2>1. \E ok \in BOOLEAN : Returns("fclose", ok)
    BY DEF Fclose
  <2>2. QED
    BY <2>1, ReturnsType DEF Calls
<1>4. ControlOK'
  BY <1>1, <1>3, ControlStep DEF ControlOK
<1>5. CallOK'
  BY <1>1, <1>2 DEF IInv, CallOK
<1>6. QED
  BY <1>2, <1>4, <1>5 DEF IInv

\* An open or closed struct that freopen has opened.
LEMMA ReopenedOK ==
  ASSUME StreamOK, file.dire # FD_WRITE_RELAXED,
         file' = Opened(Closed(Flushed(file, 0)), FD_WRITE)
  PROVE  StructOK(file', kind) /\ file'.off = 0 /\ file'.dire = FD_WRITE /\ file'.buf = <<>>
<1>1. StructOK(file, kind)
  BY DEF StreamOK
<1>2. StructOK(Closed(Flushed(file, 0)), kind) /\ Closed(Flushed(file, 0)).dire = FD_CLOSED
  <2>1. CASE IsAnyWrite(file.dire)
    <3>1. /\ StructOK(Flushed(file, 0), kind) /\ Flushed(file, 0).buf = <<>>
          /\ Flushed(file, 0).dire = file.dire
      BY <1>1, <2>1, FlushedOK
    <3>2. QED
      BY <3>1, ClosedOK
  <2>2. CASE file.dire = FD_CLOSED
    <3>1. ~IsAnyRead(FD_CLOSED) /\ file.off + 0 = file.off
      BY <1>1 DEF IsAnyRead, FD_CLOSED, StructOK, FileOf
    <3>2. Flushed(file, 0) = [file EXCEPT !.off = file.off, !.last = 0,
                                !.readPtr = 0, !.buf = <<>>, !.writePtr = 0]
      BY <1>1, <2>2, <3>1 DEF Flushed, DiscardBuf, StructOK, FileOf
    <3>3. Closed(Flushed(file, 0)) = file
      BY <1>1, <2>2, <3>2 DEF Closed, StructOK, FileOf
    <3>4. QED
      BY <1>1, <2>2, <3>3
  <2>3. QED
    BY <2>1, <2>2, WrittenOrClosed
<1>3. QED
  BY <1>2, OpenedOK DEF FD_CLOSED, FD_WRITE_RELAXED

LEMMA FreopenKeeps ==
  ASSUME IInv, NEW mode \in {"w", "a"}, Freopen(mode)
  PROVE  IInv'
<1>1. /\ Ready /\ UNCHANGED <<kind, exited, call>> /\ StreamOK /\ ControlOK
      /\ call.op = "idle" /\ file.dire # FD_WRITE_RELAXED
  BY ReadyNotRelaxed DEF Freopen, IInv
<1>2. SUFFICES /\ StreamOK' /\ file'.dire # FD_WRITE_RELAXED
               /\ append' \in BOOLEAN /\ seekable' \in BOOLEAN /\ lossy' \in BOOLEAN
               /\ ret' \in [op: Calls, ok: BOOLEAN]
  <2>1. ControlOK'
    BY <1>1, <1>2, ControlStep DEF ControlOK
  <2>2. CallOK'
    BY <1>1, <1>2 DEF IInv, CallOK
  <2>3. QED
    BY <1>2, <2>1, <2>2 DEF IInv
<1>3. CASE FreopenOpens(mode)
  <2>3. /\ StructOK(file', kind) /\ file'.off = 0 /\ file'.dire = FD_WRITE
    BY <1>1, <1>3, ReopenedOK DEF FreopenOpens
  <2>4. disk' = <<>> /\ koff' = 0 /\ log' = <<>> /\ lost' = {} /\ lossy' = FALSE
    BY <1>3 DEF FreopenOpens
  <2>5. StreamOK'
    BY <1>1, <2>3, <2>4, EmptySeq DEF StreamOK, Tracks
  <2>6. append' \in BOOLEAN /\ seekable' \in BOOLEAN
    BY <1>3, Zenon DEF FreopenOpens
  <2>7. ret' \in [op: Calls, ok: BOOLEAN]
    BY <1>3, ReturnsType DEF FreopenOpens, Calls
  <2>8. file'.dire # FD_WRITE_RELAXED
    BY <2>3 DEF FD_WRITE, FD_WRITE_RELAXED
  <2>9. lossy' \in BOOLEAN
    BY <2>4
  <2>10. QED
    BY <2>5, <2>6, <2>7, <2>8, <2>9
<1>4. CASE FreopenFails
  <2>1. /\ UNCHANGED <<append, seekable, log>>
        /\ lossy' \in BOOLEAN /\ append' \in BOOLEAN /\ seekable' \in BOOLEAN
    BY <1>1, <1>4 DEF FreopenFails, Loses, ControlOK
  <2>2. ret' \in [op: Calls, ok: BOOLEAN]
    BY <1>4, ReturnsType DEF FreopenFails, Calls
  <2>3. CASE file.dire = FD_CLOSED
    <3>1. UNCHANGED <<file, disk, koff, lost>>
      BY <1>4, <2>3 DEF FreopenFails
    <3>2. StreamOK'
      BY <1>1, <2>1, <3>1 DEF StreamOK, Tracks
    <3>3. QED
      BY <1>1, <2>1, <2>2, <3>1, <3>2
  <2>4. CASE file.dire # FD_CLOSED
    <3>1. PICK k \in 0..Len(file.buf) :
              /\ KernelWrite(SubSeq(file.buf, 1, k))
              /\ file' = Closed(Flushed(file, k))
              /\ lost' = lost \union Elems(SubSeq(file.buf, k + 1, Len(file.buf)))
      BY <1>4, <2>4 DEF FreopenFails
    <3>2. StreamOK' /\ file'.dire = FD_CLOSED
      BY <1>1, <2>1, <2>4, <3>1, WrittenOrClosed, ClosingStep
    <3>3. QED
      BY <2>1, <2>2, <3>2 DEF FD_CLOSED, FD_WRITE_RELAXED
  <2>5. QED
    BY <2>3, <2>4
<1>5. QED
  BY <1>3, <1>4 DEF Freopen

LEMMA ExitKeeps ==
  ASSUME IInv, Exit
  PROVE  IInv'
<1>1. /\ Ready /\ UNCHANGED <<kind, append, seekable, log, call>> /\ exited' = TRUE
      /\ lossy' \in BOOLEAN /\ StreamOK /\ ControlOK
      /\ call.op = "idle" /\ file.dire # FD_WRITE_RELAXED
  BY ReadyNotRelaxed DEF Exit, IInv, Loses
<1>2. StreamOK' /\ file'.dire = file.dire
  <2>1. CASE UNCHANGED <<file, disk, koff, lost>>
    BY <1>1, <2>1 DEF StreamOK, Tracks
  <2>2. CASE \E ok \in BOOLEAN : Fflush_RP3(ok)
    BY <1>1, <2>2, FflushStep
  <2>3. QED
    BY <2>1, <2>2 DEF Exit
<1>3. ret' \in [op: Calls, ok: BOOLEAN]
  BY ReturnsType DEF Exit, Calls
<1>4. ControlOK'
  BY <1>1, <1>3, Zenon DEF ControlOK
<1>5. CallOK'
  BY <1>1, <1>2 DEF IInv, CallOK
<1>6. QED
  BY <1>2, <1>4, <1>5 DEF IInv

-----------------------------------------------------------------------------
(* The theorems. *)

LEMMA NextKeeps == IInv /\ [Next]_vars => IInv'
<1> SUFFICES ASSUME IInv, [Next]_vars PROVE IInv'
  OBVIOUS
<1>1. ASSUME NEW nl \in BOOLEAN, Fputc(nl) PROVE IInv'
  BY <1>1, FputcKeeps
<1>2. ASSUME NEW src \in Chunks,
             VfprintfStart(src) \/ Fwrite(src) \/ Fputs(src)
      PROVE  IInv'
  BY <1>2, FwriteStartKeeps, VfprintfStartKeeps DEF Fwrite, Fputs
<1>3. CASE FwriteStep
  BY <1>3, FwriteLineKeeps, FwriteCopyKeeps, FwriteFlushKeeps, FwriteDirectKeeps
     DEF FwriteStep
<1>4. CASE VfprintfStep
  BY <1>4, VfprintfByteKeeps, VfprintfEndKeeps DEF VfprintfStep
<1>5. CASE Fflush
  BY <1>5, FflushKeeps
<1>6. ASSUME NEW offset \in Offsets, NEW whence \in Whences, Fseek(offset, whence)
      PROVE  IInv'
  <2>1. offset \in Int
    BY <1>6, BoundsAssumption DEF Offsets
  <2>2. QED
    BY <1>6, <2>1, FseekKeeps
<1>7. CASE Fclose
  BY <1>7, FcloseKeeps
<1>8. ASSUME NEW mode \in {"w", "a"}, Freopen(mode) PROVE IInv'
  BY <1>8, FreopenKeeps
<1>9. CASE Exit
  BY <1>9, ExitKeeps
<1>10. CASE UNCHANGED vars
  BY <1>10 DEF vars, IInv, StreamOK, ControlOK, CallOK, Tracks
<1>11. QED
  BY <1>1, <1>2, <1>3, <1>4, <1>5, <1>6, <1>7, <1>8, <1>9, <1>10 DEF Next

LEMMA IInvAlways == Spec => []IInv
BY InitIInv, NextKeeps, PTL DEF Spec

\* Type correctness of the stream, for every buffer size and every bound.
THEOREM TypeCorrect == Spec => []TypeOK
<1>1. IInv => TypeOK
  BY DEF IInv, StreamOK, ControlOK, StructOK, TypeOK
<1>2. QED
  BY <1>1, IInvAlways, PTL

\* The two pointer invariants that stdio_medium.h states, with the sentinels
\* of a closed stream, hold in every reachable state of an output stream.
THEOREM HeaderInvariantHolds == Spec => []HeaderInvariant
<1>1. IInv => HeaderInvariant
  <2> SUFFICES ASSUME IInv PROVE HeaderInvariant
    OBVIOUS
  <2>1. /\ file \in FileOf(Nat \ {0}) /\ StructOK(file, kind)
        /\ BufSize \in Nat /\ BufSize > 0
    BY BufSizeAssumption DEF IInv, StreamOK, StructOK
  <2>2. 0 <= file.writePtr /\ file.writePtr <= file.bufEnd
    BY <2>1 DEF StructOK, FileOf
  <2>3. file.dire # FD_WRITE_RELAXED => file.bufEnd <= file.capEnd
    BY <2>1 DEF StructOK
  <2>4. file.dire = FD_WRITE_RELAXED => file.capEnd = 0 /\ file.bufEnd = BufSize
    BY <2>1 DEF StructOK
  <2>5. /\ 0 <= file.readPtr /\ file.readPtr <= file.last
        /\ file.last <= file.bufEnd /\ file.readPtr = file.last
    BY <2>1 DEF StructOK, FileOf
  <2>6. /\ IsAnyWrite(file.dire) => Len(file.buf) = file.writePtr
        /\ file.dire = FD_CLOSED => file.writePtr = file.bufEnd /\ file.buf = <<>>
        /\ file.dire = FD_WRITE_RELAXED => call.op = "vfprintf"
    BY <2>1 DEF StructOK, IInv, CallOK
  <2>7. QED
    BY <2>2, <2>3, <2>4, <2>5, <2>6 DEF HeaderInvariant
<1>2. QED
  BY <1>1, IInvAlways, PTL

\* buf_off of a buffered output stream is the kernel's file offset after any
\* mix of short writes, failed flushes, seeks and reopenings.
THEOREM OffsetTracksHolds == Spec => []OffsetTracks
<1>1. IInv => OffsetTracks
  BY DEF IInv, StreamOK, Tracks, OffsetTracks
<1>2. QED
  BY <1>1, IInvAlways, PTL

-----------------------------------------------------------------------------
(* What every step does to the bytes: n are accepted, the k oldest of those *)
(* that wait are written, and the rest go on waiting or are thrown away.    *)

\* The bytes that wait once n more have been accepted.
Queue(n) == file.buf \o [i \in 1..n |-> Len(log) + i]

\* Where a write of k bytes goes.
From(k) == IF append /\ k > 0 THEN Len(disk) ELSE koff

Written(n, k) == SubSeq(Queue(n), 1, k)
Waiting(n, k) == SubSeq(Queue(n), k + 1, Len(Queue(n)))

Moves(n, k, keep) ==
  /\ disk' = PutAt(disk, From(k), Written(n, k))
  /\ file'.buf = IF keep THEN Waiting(n, k) ELSE <<>>
  /\ lost' = IF keep THEN lost ELSE lost \union Elems(Waiting(n, k))
  /\ Len(log') = Len(log) + n
  /\ \A b \in 1..Len(log) : log'[b] = log[b]
  /\ \A i \in 1..n : log'[Len(log) + i].pos = file.off + Len(file.buf) + i - 1
  /\ k > 0 => IsAnyWrite(file.dire)
  /\ file'.buf # <<>> => file'.off = file.off + k
  /\ UNCHANGED <<kind, append, seekable>>

\* The kernel's offset after it, unless the stream is moved.
Goes(k) == koff' = From(k) + k

\* The three kinds of step, as the promise of OutStream tells them apart.
WriteMove ==
  \E n \in 0..MaxChunk : \E k \in 0..Len(Queue(n)), keep \in BOOLEAN :
    Moves(n, k, keep) /\ Goes(k)
SeekMove == Moves(0, Len(file.buf), FALSE) /\ seekable /\ koff' \in Nat
OpenMove ==
  /\ disk' = <<>> /\ koff' = 0 /\ append' \in BOOLEAN /\ kind' = kind
  /\ file'.buf = <<>> /\ log' = <<>> /\ lost' = {}

\* What waits: bytes of the log, in order, each where ftell has placed it.
BufferedOK ==
  /\ \A i \in 1..Len(file.buf) : /\ file.buf[i] \in 1..Len(log)
                                 /\ log[file.buf[i]].pos = file.off + i - 1
  /\ \A i, j \in 1..Len(file.buf) : i < j => file.buf[i] < file.buf[j]

\* What is on the disk: bytes of the log, each once and older than all that wait.
DiskOK ==
  /\ \A j \in 1..Len(disk) : disk[j] # 0 =>
       /\ disk[j] \in 1..Len(log)
       /\ \A i \in 1..Len(file.buf) : disk[j] < file.buf[i]
  /\ \A i, j \in 1..Len(disk) : i # j /\ disk[i] # 0 => disk[i] # disk[j]
  /\ ~seekable /\ ~append => koff = Len(disk)

BytesInv == BufferedOK /\ DiskOK /\ PlacedWhereTold /\ Conserved

\* A call in progress counts what it has consumed, and remembers a loss.
CallInv ==
  /\ call.op \in {"fwriteLine", "fwriteCopy", "fwriteDirect"} =>
       call.got + Len(call.src) = call.want /\ ~lossy
  /\ call.op = "vfprintf" =>
       /\ call.got + Len(call.src) <= call.want
       /\ lossy => call.got + Len(call.src) < call.want
  /\ call.op = "fwriteLine" => file.dire = FD_WRITE_LINEBUF
  /\ call.op = "fwriteCopy" => file.dire # FD_WRITE_LINEBUF
  /\ call.op = "fwriteDirect" => file.writePtr = 0
  /\ Len(call.src) <= MaxChunk
  /\ LossReported

\* A newline waits.
NlWaits == \E i \in 1..Len(file.buf) : log[file.buf[i]].nl

\* A newline waits in a line-buffered stream only while an fwrite that has
\* another one to come is in progress.
LineInv ==
  file.dire = FD_WRITE_LINEBUF /\ NlWaits =>
    call.op = "fwriteLine" /\ \E j \in 1..Len(call.src) : call.src[j]

FullInv == IInv /\ BytesInv /\ CallInv /\ LineInv

Moved == WriteMove \/ SeekMove \/ OpenMove

-----------------------------------------------------------------------------
(* Sequences: what waits, and what a write leaves on the disk. *)

LEMMA StreamFacts ==
  ASSUME StreamOK
  PROVE  /\ file.buf \in Seq(Nat \ {0}) /\ Len(file.buf) \in Nat
         /\ disk \in Seq(Nat) /\ Len(disk) \in Nat /\ koff \in Nat
         /\ Len(log) \in Nat /\ file.off \in Int /\ lost \subseteq Nat
         /\ log \in Seq([nl: BOOLEAN, pos: Int])
BY LenProperties DEF StreamOK, StructOK, FileOf

LEMMA QueueFacts ==
  ASSUME StreamOK, NEW n \in Nat
  PROVE  /\ Queue(n) \in Seq(Nat \ {0}) /\ Len(Queue(n)) = Len(file.buf) + n
         /\ \A i \in 1..Len(file.buf) : Queue(n)[i] = file.buf[i]
         /\ \A i \in 1..n : Queue(n)[Len(file.buf) + i] = Len(log) + i
<1> DEFINE new == [i \in 1..n |-> Len(log) + i]
<1>1. /\ file.buf \in Seq(Nat \ {0}) /\ Len(file.buf) \in Nat /\ Len(log) \in Nat
  BY StreamFacts
<1>2. new \in Seq(Nat \ {0}) /\ Len(new) = n /\ \A i \in 1..n : new[i] = Len(log) + i
  <2>1. new \in [1..n -> Nat \ {0}] /\ \A i \in 1..n : new[i] = Len(log) + i
    BY <1>1
  <2> HIDE DEF new
  <2>2. new \in Seq(Nat \ {0}) /\ DOMAIN new = 1..n
    BY <2>1, SeqDef
  <2>3. Len(new) \in Nat /\ DOMAIN new = 1..Len(new)
    BY <2>2, LenProperties
  <2>4. Len(new) = n
    BY <2>2, <2>3
  <2>5. QED
    BY <2>1, <2>2, <2>4
<1>3. Queue(n) = file.buf \o new
  BY DEF Queue
<1> HIDE DEF new
<1>4. /\ Queue(n) \in Seq(Nat \ {0}) /\ Len(Queue(n)) = Len(file.buf) + n
      /\ \A i \in 1..Len(Queue(n)) : Queue(n)[i] = IF i <= Len(file.buf) THEN file.buf[i]
                                                   ELSE new[i - Len(file.buf)]
  <2> DEFINE old == file.buf
  <2>1. old \in Seq(Nat \ {0}) /\ new \in Seq(Nat \ {0}) /\ Len(new) = n
    BY <1>1, <1>2
  <2>2. Queue(n) = old \o new
    BY <1>3
  <2> HIDE DEF old
  <2>3. /\ old \o new \in Seq(Nat \ {0}) /\ Len(old \o new) = Len(old) + Len(new)
        /\ \A i \in 1..Len(old) + Len(new) : (old \o new)[i] = IF i <= Len(old) THEN old[i]
                                                              ELSE new[i - Len(old)]
    BY <2>1, ConcatProperties
  <2>4. /\ Queue(n) \in Seq(Nat \ {0}) /\ Len(Queue(n)) = Len(old) + n
        /\ \A i \in 1..Len(Queue(n)) : Queue(n)[i] = IF i <= Len(old) THEN old[i]
                                                     ELSE new[i - Len(old)]
    <3>1. Len(Queue(n)) = Len(old) + n
      BY <2>1, <2>2, <2>3
    <3>2. QED
      BY <2>1, <2>2, <2>3, <3>1
  <2>5. QED
    BY <2>4 DEF old
<1>5. ASSUME NEW i \in 1..Len(file.buf) PROVE Queue(n)[i] = file.buf[i]
  <2>1. i \in 1..Len(Queue(n)) /\ i <= Len(file.buf)
    BY <1>1, <1>4
  <2>2. QED
    BY <1>4, <2>1
<1>6. ASSUME NEW i \in 1..n PROVE Queue(n)[Len(file.buf) + i] = Len(log) + i
  <2>1. Len(file.buf) + i \in 1..Len(Queue(n)) /\ ~(Len(file.buf) + i <= Len(file.buf))
        /\ (Len(file.buf) + i) - Len(file.buf) = i
    BY <1>1, <1>4
  <2>2. QED
    BY <1>2, <1>4, <2>1
<1>7. QED
  BY <1>4, <1>5, <1>6

LEMMA PutAtFacts ==
  ASSUME NEW d \in Seq(Nat), NEW at \in Nat, NEW bs \in Seq(Nat)
  PROVE  /\ Len(PutAt(d, at, bs)) = IF bs = <<>> THEN Len(d)
                                    ELSE IF at + Len(bs) > Len(d) THEN at + Len(bs) ELSE Len(d)
         /\ \A j \in 1..Len(PutAt(d, at, bs)) :
              PutAt(d, at, bs)[j] = IF j > at /\ j <= at + Len(bs) THEN bs[j - at]
                                    ELSE IF j <= Len(d) THEN d[j] ELSE 0
<1>1. Len(d) \in Nat /\ Len(bs) \in Nat
  BY LenProperties
<1>2. CASE bs = <<>>
  BY <1>1, <1>2 DEF PutAt
<1>3. CASE bs # <<>>
  <2> DEFINE end == at + Len(bs)
             n == IF end > Len(d) THEN end ELSE Len(d)
             e == [j \in 1..n |-> IF j > at /\ j <= end THEN bs[j - at]
                                  ELSE IF j <= Len(d) THEN d[j] ELSE 0]
  <2>1. n \in Nat
    BY <1>1
  <2>2. PutAt(d, at, bs) = e /\ PutAt(d, at, bs) \in Seq(Nat)
    BY <1>3, PutAtType DEF PutAt
  <2>3. DOMAIN e = 1..n
    OBVIOUS
  <2> HIDE DEF n
  <2>4. Len(e) \in Nat /\ DOMAIN e = 1..Len(e)
    <3> HIDE DEF e
    <3>1. QED
      BY <2>2, LenProperties
  <2>5. Len(e) = n
    <3> HIDE DEF e
    <3>1. QED
      BY <2>1, <2>3, <2>4
  <2>6. QED
    BY <1>3, <2>2, <2>5 DEF n
<1>4. QED
  BY <1>2, <1>3

LEMMA PartFacts ==
  ASSUME NEW S, NEW q \in Seq(S), NEW k \in 0..Len(q)
  PROVE  /\ SubSeq(q, 1, k) \in Seq(S) /\ Len(SubSeq(q, 1, k)) = k
         /\ \A i \in 1..k : SubSeq(q, 1, k)[i] = q[i]
         /\ SubSeq(q, k + 1, Len(q)) \in Seq(S) /\ Len(SubSeq(q, k + 1, Len(q))) = Len(q) - k
         /\ \A i \in 1..Len(q) - k : SubSeq(q, k + 1, Len(q))[i] = q[k + i]
<1>1. Len(q) \in Nat /\ k \in Nat
  BY LenProperties
<1>2. /\ SubSeq(q, 1, k) \in Seq(S) /\ Len(SubSeq(q, 1, k)) = k
      /\ \A i \in 1..k : SubSeq(q, 1, k)[i] = q[1 + i - 1]
  BY <1>1, SubSeqProperties
<1>3. /\ SubSeq(q, k + 1, Len(q)) \in Seq(S) /\ Len(SubSeq(q, k + 1, Len(q))) = Len(q) - k
      /\ \A i \in 1..Len(q) - k : SubSeq(q, k + 1, Len(q))[i] = q[(k + 1) + i - 1]
  BY <1>1, SubSeqProperties
<1>4. \A i \in 1..k : 1 + i - 1 = i
  BY <1>1
<1>5. \A i \in 1..Len(q) - k : (k + 1) + i - 1 = k + i
  BY <1>1
<1>6. QED
  BY <1>2, <1>3, <1>4, <1>5

LEMMA ElemsOf ==
  ASSUME NEW S, NEW s \in Seq(S)
  PROVE  /\ \A i \in 1..Len(s) : s[i] \in Elems(s)
         /\ \A e \in Elems(s) : \E i \in 1..Len(s) : s[i] = e
BY LenProperties DEF Elems

-----------------------------------------------------------------------------
(* Moving bytes keeps what is known of them. *)

\* The bytes that wait after n more have been accepted: in order, younger than
\* all on the disk, each where ftell has placed it.
LEMMA QueueOK ==
  ASSUME StreamOK, BytesInv, NEW n \in Nat,
         Len(log') = Len(log) + n, \A b \in 1..Len(log) : log'[b] = log[b],
         \A i \in 1..n : log'[Len(log) + i].pos = file.off + Len(file.buf) + i - 1
  PROVE  /\ \A i \in 1..Len(Queue(n)) : /\ Queue(n)[i] \in 1..Len(log')
                                         /\ log'[Queue(n)[i]].pos = file.off + i - 1
         /\ \A i, j \in 1..Len(Queue(n)) : i < j => Queue(n)[i] < Queue(n)[j]
         /\ \A j \in 1..Len(disk) : disk[j] # 0 =>
              disk[j] \in 1..Len(log) /\ \A i \in 1..Len(Queue(n)) : disk[j] < Queue(n)[i]
<1> DEFINE q == Queue(n)
           len == Len(file.buf)
           count == Len(log)
<1>1. /\ len \in Nat /\ count \in Nat /\ Len(q) = len + n /\ file.off \in Int
      /\ \A i \in 1..len : q[i] = file.buf[i]
      /\ \A i \in 1..n : q[len + i] = count + i
  BY StreamFacts, QueueFacts
<1>2. /\ \A i \in 1..len : file.buf[i] \in 1..count /\ log[file.buf[i]].pos = file.off + i - 1
      /\ \A i, j \in 1..len : i < j => file.buf[i] < file.buf[j]
      /\ \A j \in 1..Len(disk) : disk[j] # 0 =>
           disk[j] \in 1..count /\ \A i \in 1..len : disk[j] < file.buf[i]
  BY DEF BytesInv, BufferedOK, DiskOK
<1>3. /\ Len(log') = count + n /\ \A b \in 1..count : log'[b] = log[b]
      /\ \A i \in 1..n : log'[count + i].pos = file.off + len + i - 1
  OBVIOUS
<1> HIDE DEF q, len, count
\* Every place in the queue is one of the buffer or one of the new bytes.
<1>4. ASSUME NEW i \in 1..Len(q)
      PROVE  \/ i \in 1..len /\ q[i] = file.buf[i]
             \/ i - len \in 1..n /\ q[i] = count + (i - len)
  <2>1. CASE i <= len
    <3>1. i \in 1..len
      BY <1>1, <2>1
    <3>2. QED
      BY <1>1, <3>1
  <2>2. CASE i > len
    <3>1. i - len \in 1..n /\ len + (i - len) = i
      BY <1>1, <2>2
    <3>2. QED
      BY <1>1, <3>1
  <2>3. QED
    BY <1>1, <2>1, <2>2
<1>5. ASSUME NEW i \in 1..Len(q)
      PROVE  q[i] \in 1..count + n /\ log'[q[i]].pos = file.off + i - 1
  <2>1. CASE i \in 1..len /\ q[i] = file.buf[i]
    <3>1. q[i] \in 1..count /\ log[q[i]].pos = file.off + i - 1
      BY <1>2, <2>1
    <3>2. log'[q[i]] = log[q[i]]
      BY <1>3, <3>1
    <3>3. QED
      BY <1>1, <3>1, <3>2
  <2>2. CASE i - len \in 1..n /\ q[i] = count + (i - len)
    <3>1. log'[q[i]].pos = file.off + len + (i - len) - 1
      BY <1>3, <2>2
    <3>2. file.off + len + (i - len) - 1 = file.off + i - 1
      BY <1>1
    <3>3. QED
      BY <1>1, <2>2, <3>1, <3>2
  <2>3. QED
    BY <1>4, <2>1, <2>2
<1>6. ASSUME NEW i \in 1..Len(q), NEW j \in 1..Len(q), i < j
      PROVE  q[i] < q[j]
  <2>1. CASE j \in 1..len
    <3>1. i \in 1..len
      BY <1>1, <1>6, <2>1
    <3>2. file.buf[i] < file.buf[j]
      BY <1>2, <1>6, <2>1, <3>1
    <3>3. q[i] = file.buf[i] /\ q[j] = file.buf[j]
      BY <1>1, <2>1, <3>1
    <3>4. QED
      BY <3>2, <3>3
  <2>2. CASE j \notin 1..len
    <3>1. j - len \in 1..n /\ q[j] = count + (j - len)
      BY <1>4, <2>2
    <3>2. CASE i \in 1..len
      <4>1. q[i] = file.buf[i] /\ file.buf[i] \in 1..count
        BY <1>1, <1>2, <3>2
      <4>2. QED
        BY <1>1, <3>1, <4>1
    <3>3. CASE i \notin 1..len
      <4>1. i - len \in 1..n /\ q[i] = count + (i - len)
        BY <1>4, <3>3
      <4>2. QED
        BY <1>1, <1>6, <3>1, <4>1
    <3>4. QED
      BY <3>2, <3>3
  <2>3. QED
    BY <2>1, <2>2
<1>7. ASSUME NEW j \in 1..Len(disk), disk[j] # 0, NEW i \in 1..Len(q)
      PROVE  disk[j] \in 1..count /\ disk[j] < q[i]
  <2>1. disk[j] \in 1..count /\ \A h \in 1..len : disk[j] < file.buf[h]
    BY <1>2, <1>7
  <2>2. CASE i \in 1..len /\ q[i] = file.buf[i]
    BY <2>1, <2>2
  <2>3. CASE i - len \in 1..n /\ q[i] = count + (i - len)
    BY <1>1, <2>1, <2>3
  <2>4. QED
    BY <1>4, <2>1, <2>2, <2>3
<1>8. \A j \in 1..Len(disk) : disk[j] # 0 => disk[j] \in 1..count
  BY <1>2
<1>9. QED
  BY <1>3, <1>5, <1>6, <1>7, <1>8 DEF q, len, count

\* What is on the disk after it: the k oldest at their places, the rest as before.
LEMMA MovedDisk ==
  ASSUME StreamOK, NEW n \in Nat, NEW k \in 0..Len(Queue(n)),
         disk' = PutAt(disk, From(k), Written(n, k))
  PROVE  /\ Len(disk') = IF k = 0 THEN Len(disk)
                         ELSE IF From(k) + k > Len(disk) THEN From(k) + k ELSE Len(disk)
         /\ \A j \in 1..Len(disk') :
              disk'[j] = IF j > From(k) /\ j <= From(k) + k THEN Queue(n)[j - From(k)]
                         ELSE IF j <= Len(disk) THEN disk[j] ELSE 0
         /\ From(k) \in Nat /\ k \in Nat
<1> DEFINE q == Queue(n)
           w == Written(n, k)
           from == From(k)
<1>1. /\ disk \in Seq(Nat) /\ Len(disk) \in Nat /\ q \in Seq(Nat \ {0}) /\ Len(q) \in Nat
      /\ k \in Nat
  BY StreamFacts, QueueFacts, LenProperties
<1>2. from \in Nat
  BY StreamFacts DEF From
<1>3. /\ w \in Seq(Nat \ {0}) /\ Len(w) = k
      /\ \A i \in 1..k : w[i] = q[i]
  <2> DEFINE w2 == SubSeq(q, 1, k)
  <2>1. w = w2
    BY DEF Written
  <2>2. /\ w2 \in Seq(Nat \ {0}) /\ Len(w2) = k /\ \A i \in 1..k : w2[i] = q[i]
    <3>1. k \in 0..Len(q)
      OBVIOUS
    <3> HIDE DEF q
    <3>2. QED
      BY <1>1, <3>1, PartFacts
  <2>3. QED
    BY <2>1, <2>2
<1>4. w \in Seq(Nat)
  BY <1>3, ElemsType
<1>5. w = <<>> <=> k = 0
  BY <1>3, EmptySeq
<1>6. disk' = PutAt(disk, from, w)
  OBVIOUS
<1> HIDE DEF q, w, from
<1>7. /\ Len(disk') = IF k = 0 THEN Len(disk)
                      ELSE IF from + k > Len(disk) THEN from + k ELSE Len(disk)
      /\ \A j \in 1..Len(disk') :
           disk'[j] = IF j > from /\ j <= from + k THEN w[j - from]
                      ELSE IF j <= Len(disk) THEN disk[j] ELSE 0
  <2>1. /\ Len(disk') = IF w = <<>> THEN Len(disk)
                        ELSE IF from + Len(w) > Len(disk) THEN from + Len(w) ELSE Len(disk)
        /\ \A j \in 1..Len(disk') :
             disk'[j] = IF j > from /\ j <= from + Len(w) THEN w[j - from]
                        ELSE IF j <= Len(disk) THEN disk[j] ELSE 0
    <3> DEFINE d == disk
    <3>1. d \in Seq(Nat) /\ disk' = PutAt(d, from, w)
      BY <1>1, <1>6
    <3> HIDE DEF d
    <3>2. /\ Len(disk') = IF w = <<>> THEN Len(d)
                          ELSE IF from + Len(w) > Len(d) THEN from + Len(w) ELSE Len(d)
          /\ \A j \in 1..Len(disk') :
               disk'[j] = IF j > from /\ j <= from + Len(w) THEN w[j - from]
                          ELSE IF j <= Len(d) THEN d[j] ELSE 0
      BY <1>2, <1>4, <3>1, PutAtFacts
    <3>3. QED
      BY <3>2 DEF d
  <2>2. Len(w) = k /\ (w = <<>> <=> k = 0)
    BY <1>3, <1>5
  <2>3. QED
    BY <2>1, <2>2
<1>8. ASSUME NEW j \in 1..Len(disk'), j > from, j <= from + k
      PROVE  w[j - from] = q[j - from]
  <2>1. j \in Int /\ j - from \in 1..k
    BY <1>1, <1>2, <1>8
  <2>2. QED
    BY <1>3, <2>1
<1>9. \A j \in 1..Len(disk') :
        disk'[j] = IF j > from /\ j <= from + k THEN q[j - from]
                   ELSE IF j <= Len(disk) THEN disk[j] ELSE 0
  BY <1>7, <1>8
<1>10. QED
  BY <1>1, <1>2, <1>7, <1>9 DEF q, from

LEMMA MovesBytes ==
  ASSUME StreamOK, StreamOK', BytesInv, NEW n \in Nat, NEW k \in 0..Len(Queue(n)),
         NEW keep \in BOOLEAN, Moves(n, k, keep), Goes(k) \/ seekable
  PROVE  BytesInv'
<1> DEFINE q == Queue(n)
           m == Len(Queue(n))
           from == From(k)
           count == Len(log)
           rest == Waiting(n, k)
<1>1. /\ disk' = PutAt(disk, From(k), Written(n, k))
      /\ file'.buf = IF keep THEN rest ELSE <<>>
      /\ lost' = IF keep THEN lost ELSE lost \union Elems(rest)
      /\ Len(log') = count + n
      /\ \A b \in 1..count : log'[b] = log[b]
      /\ \A i \in 1..n : log'[Len(log) + i].pos = file.off + Len(file.buf) + i - 1
      /\ k > 0 => IsAnyWrite(file.dire)
      /\ file'.buf # <<>> => file'.off = file.off + k
      /\ UNCHANGED <<kind, append, seekable>>
  BY DEF Moves
<1>2. /\ count \in Nat /\ m \in Nat /\ k \in Nat /\ k <= m /\ from \in Nat
      /\ file.off \in Int /\ Len(disk) \in Nat /\ koff \in Nat
      /\ q \in Seq(Nat \ {0}) /\ m = Len(file.buf) + n /\ Len(file.buf) \in Nat
  BY <1>1, StreamFacts, QueueFacts, MovedDisk, LenProperties
<1>3. /\ \A i \in 1..m : q[i] \in 1..count + n /\ log'[q[i]].pos = file.off + i - 1
      /\ \A i, j \in 1..m : i < j => q[i] < q[j]
      /\ \A j \in 1..Len(disk) : disk[j] # 0 => disk[j] \in 1..count
      /\ \A j \in 1..Len(disk) : disk[j] # 0 => \A i \in 1..m : disk[j] < q[i]
  BY <1>1, QueueOK
<1>4. /\ Len(disk') = IF k = 0 THEN Len(disk)
                      ELSE IF from + k > Len(disk) THEN from + k ELSE Len(disk)
      /\ \A j \in 1..Len(disk') :
           disk'[j] = IF j > from /\ j <= from + k THEN q[j - from]
                      ELSE IF j <= Len(disk) THEN disk[j] ELSE 0
  BY <1>1, MovedDisk
<1>5. /\ rest \in Seq(Nat \ {0}) /\ Len(rest) = m - k
      /\ \A i \in 1..m - k : rest[i] = q[k + i]
  BY <1>2, PartFacts DEF Waiting
<1>6. /\ koff' = from + k \/ seekable
      /\ kind # "stderr" /\ ~append /\ k > 0 => from = file.off
      /\ append /\ k > 0 => from = Len(disk)
      /\ ~append => from = koff
  BY <1>1, <1>2 DEF Goes, From, StreamOK, Tracks
<1>7. /\ PlacedWhereTold /\ Conserved /\ (~seekable /\ ~append => koff = Len(disk))
      /\ \A i, j \in 1..Len(disk) : i # j /\ disk[i] # 0 => disk[i] # disk[j]
  BY DEF BytesInv, DiskOK
<1>8. /\ disk \in Seq(Nat) /\ DOMAIN disk = 1..Len(disk)
      /\ disk' \in Seq(Nat) /\ DOMAIN disk' = 1..Len(disk') /\ Len(disk') \in Nat
  BY LenProperties DEF StreamOK
<1>9. /\ DOMAIN log = 1..count /\ DOMAIN log' = 1..count + n
  <2>1. /\ log \in Seq([nl: BOOLEAN, pos: Int]) /\ log' \in Seq([nl: BOOLEAN, pos: Int])
    BY DEF StreamOK
  <2>2. QED
    BY <1>1, <2>1, LenProperties
<1> HIDE DEF q, m, from, count, rest
\* A byte on the new disk is one just written or one that was there.
<1>10. ASSUME NEW j \in 1..Len(disk'), disk'[j] # 0
       PROVE  \/ /\ j - from \in 1..k /\ disk'[j] = q[j - from]
              \/ j \in 1..Len(disk) /\ disk'[j] = disk[j] /\ disk[j] # 0
  <2>1. CASE j > from /\ j <= from + k
    BY <1>2, <1>4, <2>1
  <2>2. CASE ~(j > from /\ j <= from + k)
    <3>1. disk'[j] = IF j <= Len(disk) THEN disk[j] ELSE 0
      BY <1>4, <2>2
    <3>2. j <= Len(disk) /\ disk'[j] = disk[j]
      BY <1>10, <3>1
    <3>3. j \in 1..Len(disk)
      BY <1>2, <3>2
    <3>4. QED
      BY <1>10, <3>2, <3>3
  <2>3. QED
    BY <2>1, <2>2
<1>11. \A i \in 1..k : i \in 1..m
  BY <1>2
<1>12. BufferedOK'
  <2>1. CASE keep
    <3>1. file'.buf = rest
      BY <1>1, <2>1
    <3>2. ASSUME NEW i \in 1..Len(rest)
          PROVE  k + i \in 1..m /\ rest[i] = q[k + i]
      <4>1. i \in 1..m - k
        BY <1>5
      <4>2. rest[i] = q[k + i]
        BY <1>5, <4>1
      <4>3. k + i \in 1..m
        <5>1. k \in Nat /\ m \in Nat /\ k <= m
          BY <1>2
        <5>2. QED
          BY <4>1, <5>1
      <4>4. QED
        BY <4>2, <4>3
    <3>3. ASSUME NEW i \in 1..Len(rest)
          PROVE  rest[i] \in 1..Len(log') /\ log'[rest[i]].pos = file'.off + i - 1
      <4>1. k + i \in 1..m /\ rest[i] = q[k + i]
        BY <3>2
      <4>2. rest[i] \in 1..count + n /\ log'[rest[i]].pos = file.off + (k + i) - 1
        BY <1>3, <4>1
      <4>3. rest # <<>>
        <5>1. Len(rest) # 0
          BY <1>2, <1>5
        <5>2. QED
          BY <5>1
      <4>4. file'.off = file.off + k
        BY <1>1, <3>1, <4>3
      <4>5. file.off + (k + i) - 1 = file'.off + i - 1
        BY <1>2, <4>4
      <4>6. QED
        BY <1>1, <4>2, <4>5
    <3>4. ASSUME NEW i \in 1..Len(rest), NEW j \in 1..Len(rest), i < j
          PROVE  rest[i] < rest[j]
      <4>1. k + i \in 1..m /\ rest[i] = q[k + i] /\ k + j \in 1..m /\ rest[j] = q[k + j]
        BY <3>2
      <4>2. k + i < k + j
        BY <1>2, <3>4
      <4>3. QED
        BY <1>3, <4>1, <4>2
    <3>5. QED
      BY <3>1, <3>3, <3>4 DEF BufferedOK
  <2>2. CASE ~keep
    <3>1. file'.buf = <<>> /\ Len(<<>>) = 0
      BY <1>1, <2>2
    <3>2. Len(file'.buf) = 0
      BY <3>1
    <3>3. QED
      BY <3>2 DEF BufferedOK
  <2>3. QED
    BY <2>1, <2>2
<1>13. DiskOK'
  <2>1. ASSUME NEW j \in 1..Len(disk'), disk'[j] # 0
        PROVE  disk'[j] \in 1..Len(log')
    <3>1. CASE j - from \in 1..k /\ disk'[j] = q[j - from]
      BY <1>1, <1>3, <1>11, <3>1
    <3>2. CASE j \in 1..Len(disk) /\ disk'[j] = disk[j] /\ disk[j] # 0
      <4>1. disk'[j] \in 1..count
        BY <1>3, <3>2
      <4>2. QED
        BY <1>1, <1>2, <4>1
    <3>3. QED
      BY <1>10, <2>1, <3>1, <3>2
  <2>2. ASSUME NEW j \in 1..Len(disk'), disk'[j] # 0, NEW i \in 1..Len(file'.buf)
        PROVE  disk'[j] < file'.buf[i]
    <3>1. file'.buf = rest
      <4>1. file'.buf # <<>>
        <5>1. Len(file'.buf) # 0
          OBVIOUS
        <5>2. QED
          BY <5>1
      <4>2. keep
        BY <1>1, <4>1
      <4>3. QED
        BY <1>1, <4>2
    <3>2. k + i \in 1..m /\ file'.buf[i] = q[k + i]
      <4>1. i \in 1..m - k
        BY <1>5, <3>1
      <4>2. rest[i] = q[k + i] /\ k + i \in 1..m
        BY <1>2, <1>5, <4>1
      <4>3. QED
        BY <3>1, <4>2
    <3>3. CASE j - from \in 1..k /\ disk'[j] = q[j - from]
      <4>1. j - from \in 1..m /\ j - from < k + i
        BY <1>2, <3>2, <3>3
      <4>2. QED
        BY <1>3, <3>2, <3>3, <4>1
    <3>4. CASE j \in 1..Len(disk) /\ disk'[j] = disk[j] /\ disk[j] # 0
      BY <1>3, <3>2, <3>4
    <3>5. QED
      BY <1>10, <2>2, <3>3, <3>4
  <2>3. ASSUME NEW i \in 1..Len(disk'), NEW j \in 1..Len(disk'), i # j, disk'[i] # 0
        PROVE  disk'[i] # disk'[j]
    <3>1. SUFFICES ASSUME disk'[j] # 0 PROVE disk'[i] # disk'[j]
      BY <2>3
    <3>2. \/ i - from \in 1..k /\ disk'[i] = q[i - from]
          \/ i \in 1..Len(disk) /\ disk'[i] = disk[i] /\ disk[i] # 0
      BY <1>10, <2>3
    <3>3. \/ j - from \in 1..k /\ disk'[j] = q[j - from]
          \/ j \in 1..Len(disk) /\ disk'[j] = disk[j] /\ disk[j] # 0
      BY <1>10, <3>1
    <3>4. \A g \in 1..k : g \in 1..m /\ q[g] \in Nat
      BY <1>3, <1>11
    <3>5. \A h \in 1..Len(disk) : disk[h] \in Nat
      BY <1>8, ElementOfSeq
    <3>6. CASE i - from \in 1..k /\ disk'[i] = q[i - from]
      <4>1. CASE j - from \in 1..k /\ disk'[j] = q[j - from]
        <5>1. i - from < j - from \/ j - from < i - from
          BY <1>2, <2>3
        <5>2. q[i - from] < q[j - from] \/ q[j - from] < q[i - from]
          BY <1>3, <3>4, <3>6, <4>1, <5>1
        <5>3. QED
          BY <3>4, <3>6, <4>1, <5>2
      <4>2. CASE j \in 1..Len(disk) /\ disk'[j] = disk[j] /\ disk[j] # 0
        <5>1. disk[j] < q[i - from]
          BY <1>3, <3>4, <3>6, <4>2
        <5>2. QED
          BY <3>4, <3>5, <3>6, <4>2, <5>1
      <4>3. QED
        BY <3>3, <4>1, <4>2
    <3>7. CASE i \in 1..Len(disk) /\ disk'[i] = disk[i] /\ disk[i] # 0
      <4>1. CASE j - from \in 1..k /\ disk'[j] = q[j - from]
        <5>1. disk[i] < q[j - from]
          BY <1>3, <3>4, <3>7, <4>1
        <5>2. QED
          BY <3>4, <3>5, <3>7, <4>1, <5>1
      <4>2. CASE j \in 1..Len(disk) /\ disk'[j] = disk[j] /\ disk[j] # 0
        BY <1>7, <2>3, <3>7, <4>2
      <4>3. QED
        BY <3>3, <4>1, <4>2
    <3>8. QED
      BY <3>2, <3>6, <3>7
  <2>4. ~seekable' /\ ~append' => koff' = Len(disk')
    <3>1. SUFFICES ASSUME ~seekable, ~append PROVE koff' = Len(disk')
      BY <1>1
    <3>2. koff' = from + k /\ from = Len(disk)
      BY <1>6, <1>7, <3>1
    <3>3. QED
      BY <1>2, <1>4, <3>2
  <2>5. QED
    BY <2>1, <2>2, <2>3, <2>4 DEF DiskOK
<1>14. PlacedWhereTold'
  <2>1. SUFFICES ASSUME kind # "stderr", ~append, NEW j \in 1..Len(disk'), disk'[j] # 0
                 PROVE  log'[disk'[j]].pos = j - 1
    BY <1>1, <1>8 DEF PlacedWhereTold
  <2>2. CASE j - from \in 1..k /\ disk'[j] = q[j - from]
    <3>1. from = file.off
      BY <1>2, <1>6, <2>1, <2>2
    <3>2. log'[disk'[j]].pos = file.off + (j - from) - 1
      BY <1>3, <1>11, <2>2
    <3>3. QED
      BY <1>2, <3>1, <3>2
  <2>3. CASE j \in 1..Len(disk) /\ disk'[j] = disk[j] /\ disk[j] # 0
    <3>1. log[disk[j]].pos = j - 1
      BY <1>7, <1>8, <2>1, <2>3 DEF PlacedWhereTold
    <3>2. log'[disk[j]] = log[disk[j]]
      BY <1>1, <1>3, <2>3
    <3>3. QED
      BY <2>3, <3>1, <3>2
  <2>4. QED
    BY <1>10, <2>1, <2>2, <2>3
<1>15. Conserved'
  <2>1. SUFFICES ASSUME kind # "stderr" \/ ~seekable, NEW b \in 1..count + n
                 PROVE  \/ b \in Elems(file'.buf) \union Elems(disk') \union lost'
                        \/ \E c \in 1..count + n : c > b /\ log'[c].pos = log'[b].pos
    BY <1>1, <1>9 DEF Conserved
  \* Every byte of the queue is written, goes on waiting, or is lost.
  <2>2. ASSUME NEW i \in 1..m, b = q[i]
        PROVE  b \in Elems(file'.buf) \union Elems(disk') \union lost'
    <3>1. CASE i <= k
      <4>1. i \in 1..k /\ from + i \in 1..Len(disk') /\ from + i > from
            /\ from + i <= from + k /\ (from + i) - from = i
        BY <1>2, <1>4, <3>1
      <4>2. disk'[from + i] = b
        BY <1>4, <2>2, <4>1
      <4>3. b \in Elems(disk')
        BY <1>8, <4>1, <4>2 DEF Elems
      <4>4. QED
        BY <4>3
    <3>2. CASE i > k
      <4>1. i - k \in 1..Len(rest) /\ i - k \in 1..m - k /\ k + (i - k) = i
        BY <1>2, <1>5, <3>2
      <4>2. rest[i - k] = b
        BY <1>5, <2>2, <4>1
      <4>3. b \in Elems(rest)
        BY <1>5, <4>1, <4>2, ElemsOf
      <4>4. QED
        BY <1>1, <4>3
    <3>3. QED
      BY <1>2, <3>1, <3>2
  <2>3. CASE b > count
    <3> DEFINE i == Len(file.buf) + (b - count)
    <3>1. b - count \in 1..n /\ i \in 1..m
      BY <1>2, <2>3
    <3>2. q[i] = Len(log) + (b - count)
      BY <3>1, QueueFacts DEF q
    <3>3. q[i] = b
      BY <1>2, <3>2 DEF count
    <3>4. QED
      BY <2>2, <3>1, <3>3
  <2>4. CASE b <= count
    <3>1. b \in 1..count /\ log'[b] = log[b]
      BY <1>1, <1>2, <2>4
    <3>2. \/ b \in Elems(file.buf) \/ b \in Elems(disk) \/ b \in lost
          \/ \E c \in 1..count : c > b /\ log[c].pos = log[b].pos
      BY <1>7, <1>9, <2>1, <3>1 DEF Conserved
    <3>3. CASE b \in Elems(file.buf)
      <4>1. PICK i \in 1..Len(file.buf) : file.buf[i] = b
        BY <3>3, StreamFacts, ElemsOf
      <4>2. q[i] = b
        BY <4>1, QueueFacts DEF q
      <4>3. i \in 1..m
        BY <1>2
      <4>4. QED
        BY <2>2, <4>2, <4>3
    <3>4. CASE b \in lost
      BY <1>1, <3>4
    <3>5. CASE \E c \in 1..count : c > b /\ log[c].pos = log[b].pos
      <4>1. PICK c \in 1..count : c > b /\ log[c].pos = log[b].pos
        BY <3>5
      <4>2. c \in 1..count + n /\ log'[c] = log[c]
        BY <1>1, <1>2
      <4>3. QED
        BY <3>1, <4>1, <4>2
    <3>6. CASE b \in Elems(disk)
      <4>1. PICK j \in 1..Len(disk) : disk[j] = b
        BY <1>8, <3>6, ElemsOf
      <4>2. j \in 1..Len(disk') /\ disk[j] # 0
        BY <1>2, <1>4, <3>1, <4>1
      <4>3. CASE ~(j > from /\ j <= from + k)
        <5>1. disk'[j] = disk[j]
          BY <1>2, <1>4, <4>2, <4>3
        <5>2. b \in Elems(disk')
          BY <1>8, <4>1, <4>2, <5>1 DEF Elems
        <5>3. QED
          BY <5>2
      <4>4. CASE j > from /\ j <= from + k
        \* Overwritten: by a younger byte that ftell has placed there too.
        <5>1. j - from \in 1..k /\ k > 0 /\ j - from \in 1..m
          BY <1>2, <4>4
        <5>2. kind # "stderr" /\ ~append
          <6>1. ~append
            BY <1>2, <1>6, <4>4, <5>1
          <6>2. seekable
            BY <1>2, <1>6, <1>7, <4>4, <6>1
          <6>3. QED
            BY <2>1, <6>1, <6>2
        <5>3. log[b].pos = j - 1
          BY <1>7, <1>8, <4>1, <4>2, <5>2 DEF PlacedWhereTold
        <5>4. log'[q[j - from]].pos = file.off + (j - from) - 1 /\ q[j - from] \in 1..count + n
          BY <1>3, <5>1
        <5>5. from = file.off
          BY <1>6, <5>1, <5>2
        <5>6. log'[q[j - from]].pos = log'[b].pos
          BY <1>2, <3>1, <5>3, <5>4, <5>5
        <5>7. q[j - from] > b
          BY <1>3, <4>1, <4>2, <5>1
        <5>8. QED
          BY <5>4, <5>6, <5>7
      <4>5. QED
        BY <4>3, <4>4
    <3>7. QED
      BY <3>2, <3>3, <3>4, <3>5, <3>6
  <2>5. QED
    BY <1>2, <2>3, <2>4
<1>16. QED
  BY <1>12, <1>13, <1>14, <1>15 DEF BytesInv

-----------------------------------------------------------------------------
(* The ways the code moves bytes are such moves. *)

LEMMA KernelMoves ==
  ASSUME StreamOK, NEW n \in Nat, NEW k \in 0..Len(Queue(n)), KernelWrite(Written(n, k))
  PROVE  disk' = PutAt(disk, From(k), Written(n, k)) /\ Goes(k)
<1> DEFINE q == Queue(n)
           w == Written(n, k)
<1>1. q \in Seq(Nat \ {0}) /\ k \in 0..Len(q) /\ w = SubSeq(q, 1, k)
  BY QueueFacts DEF Written
<1>2. disk' = PutAt(disk, WriteOff(w), w) /\ koff' = WriteOff(w) + Len(w)
  BY DEF KernelWrite
<1> HIDE DEF q, w
<1>3. w \in Seq(Nat \ {0}) /\ Len(w) = k
  BY <1>1, PartFacts
<1>4. w = <<>> <=> k = 0
  BY <1>3, EmptySeq
<1>5. k \in Nat
  BY <1>1, LenProperties
<1>6. WriteOff(w) = From(k)
  BY <1>4, <1>5 DEF WriteOff, From
<1>7. QED
  BY <1>2, <1>3, <1>6 DEF w, Goes

LEMMA QueueZero ==
  ASSUME StreamOK
  PROVE  Queue(0) = file.buf
<1>1. /\ file.buf \in Seq(Nat \ {0}) /\ Queue(0) \in Seq(Nat \ {0})
      /\ Len(Queue(0)) = Len(file.buf) + 0 /\ Len(file.buf) \in Nat
      /\ \A i \in 1..Len(file.buf) : Queue(0)[i] = file.buf[i]
  BY StreamFacts, QueueFacts
<1> DEFINE q == Queue(0)
           b == file.buf
<1>2. q \in Seq(Nat \ {0}) /\ b \in Seq(Nat \ {0}) /\ Len(q) = Len(b)
      /\ \A i \in 1..Len(q) : q[i] = b[i]
  BY <1>1
<1> HIDE DEF q, b
<1>3. q = b
  BY <1>2, SeqEqual
<1>4. QED
  BY <1>3 DEF q, b

\* A flush of k bytes, after which nothing waits.
LEMMA FlushMoves ==
  ASSUME StreamOK, IsAnyWrite(file.dire), NEW k \in 0..Len(file.buf),
         KernelWrite(SubSeq(file.buf, 1, k)),
         lost' = lost \union Elems(SubSeq(file.buf, k + 1, Len(file.buf))),
         file'.buf = <<>>, UNCHANGED <<log, kind, append, seekable>>
  PROVE  Moves(0, k, FALSE) /\ Goes(k) /\ WriteMove
<1>1. Queue(0) = file.buf
  BY QueueZero
<1>2. Written(0, k) = SubSeq(file.buf, 1, k)
      /\ Waiting(0, k) = SubSeq(file.buf, k + 1, Len(file.buf))
  BY <1>1 DEF Written, Waiting
<1>3. disk' = PutAt(disk, From(k), Written(0, k)) /\ Goes(k)
  BY <1>1, <1>2, KernelMoves
<1>4. Len(log') = Len(log) + 0 /\ \A b \in 1..Len(log) : log'[b] = log[b]
  BY StreamFacts
<1>5. Moves(0, k, FALSE)
  <2>1. \A i \in 1..0 : log'[Len(log) + i].pos = file.off + Len(file.buf) + i - 1
    OBVIOUS
  <2>2. lost' = lost \union Elems(Waiting(0, k)) /\ UNCHANGED <<kind, append, seekable>>
    BY <1>2
  <2>3. QED
    BY <1>3, <1>4, <2>1, <2>2 DEF Moves
<1>6. k \in 0..Len(Queue(0)) /\ 0 \in 0..MaxChunk
  BY <1>1, BoundsAssumption
<1>7. QED
  BY <1>3, <1>5, <1>6 DEF WriteMove

\* Nothing moves.
LEMMA StillMoves ==
  ASSUME StreamOK, file'.buf = file.buf, file'.off = file.off,
         UNCHANGED <<disk, koff, log, lost, kind, append, seekable>>
  PROVE  Moves(0, 0, TRUE) /\ WriteMove
<1> DEFINE q == Queue(0)
<1>1. q = file.buf /\ q \in Seq(Nat \ {0}) /\ Len(q) \in Nat
  BY QueueZero, QueueFacts, StreamFacts
<1>2. Written(0, 0) = SubSeq(q, 1, 0) /\ Waiting(0, 0) = SubSeq(q, 1, Len(q))
  BY DEF Written, Waiting
<1> HIDE DEF q
<1>3. SubSeq(q, 1, Len(q)) = q
  BY <1>1, SubSeqFull
<1>4. SubSeq(q, 1, 0) = <<>>
  BY SubSeqEmpty
<1>5. From(0) = koff /\ disk' = PutAt(disk, From(0), Written(0, 0))
  BY <1>2, <1>4 DEF From, PutAt
<1>6. file'.buf = Waiting(0, 0) /\ lost' = lost
  BY <1>1, <1>2, <1>3
<1>7. file'.off = file.off + 0 /\ koff' = koff + 0 /\ Len(log') = Len(log) + 0
      /\ \A b \in 1..Len(log) : log'[b] = log[b]
  BY StreamFacts
<1>8. Moves(0, 0, TRUE) /\ Goes(0)
  BY <1>5, <1>6, <1>7 DEF Moves, Goes
<1>9. 0 \in 0..Len(Queue(0)) /\ 0 \in 0..MaxChunk
  BY <1>1, BoundsAssumption DEF q
<1>10. QED
  BY <1>8, <1>9 DEF WriteMove

LEMMA SplitSeq ==
  ASSUME NEW S, NEW a \in Seq(S), NEW b \in Seq(S), NEW k \in 0..Len(b)
  PROVE  /\ Len(a) + k \in 0..Len(a \o b)
         /\ SubSeq(a \o b, 1, Len(a) + k) = a \o SubSeq(b, 1, k)
         /\ SubSeq(a \o b, (Len(a) + k) + 1, Len(a \o b)) = SubSeq(b, k + 1, Len(b))
<1> DEFINE c == a \o b
           n == Len(a) + k
<1>1. Len(a) \in Nat /\ Len(b) \in Nat /\ k \in Nat /\ k <= Len(b)
  BY LenProperties
<1>2. /\ c \in Seq(S) /\ Len(c) = Len(a) + Len(b)
      /\ \A i \in 1..Len(a) + Len(b) : c[i] = IF i <= Len(a) THEN a[i] ELSE b[i - Len(a)]
  BY ConcatProperties
<1> HIDE DEF c
<1>3. n \in 0..Len(c) /\ n \in Nat
  BY <1>1, <1>2
<1>4. /\ SubSeq(b, 1, k) \in Seq(S) /\ Len(SubSeq(b, 1, k)) = k
      /\ \A i \in 1..k : SubSeq(b, 1, k)[i] = b[i]
      /\ SubSeq(b, k + 1, Len(b)) \in Seq(S) /\ Len(SubSeq(b, k + 1, Len(b))) = Len(b) - k
      /\ \A i \in 1..Len(b) - k : SubSeq(b, k + 1, Len(b))[i] = b[k + i]
  BY PartFacts
<1> HIDE DEF n
<1>5. /\ SubSeq(c, 1, n) \in Seq(S) /\ Len(SubSeq(c, 1, n)) = n
      /\ \A i \in 1..n : SubSeq(c, 1, n)[i] = c[i]
      /\ SubSeq(c, n + 1, Len(c)) \in Seq(S) /\ Len(SubSeq(c, n + 1, Len(c))) = Len(c) - n
      /\ \A i \in 1..Len(c) - n : SubSeq(c, n + 1, Len(c))[i] = c[n + i]
  BY <1>2, <1>3, PartFacts
<1>6. SubSeq(c, 1, n) = a \o SubSeq(b, 1, k)
  <2> DEFINE p == SubSeq(b, 1, k)
             l == SubSeq(c, 1, n)
             r == a \o p
  <2>1. p \in Seq(S) /\ Len(p) = k /\ \A i \in 1..k : p[i] = b[i]
    BY <1>4
  <2>2. l \in Seq(S) /\ Len(l) = n /\ \A i \in 1..n : l[i] = c[i]
    BY <1>5
  <2> HIDE DEF p, l
  <2>3. /\ r \in Seq(S) /\ Len(r) = Len(a) + Len(p)
        /\ \A i \in 1..Len(a) + Len(p) : r[i] = IF i <= Len(a) THEN a[i] ELSE p[i - Len(a)]
    BY <2>1, ConcatProperties
  <2> HIDE DEF r
  <2>4. Len(l) = Len(r)
    BY <2>1, <2>2, <2>3 DEF n
  <2>5. ASSUME NEW i \in 1..Len(l) PROVE l[i] = r[i]
    <3>1. i \in 1..n /\ i \in 1..Len(a) + Len(p) /\ i \in 1..Len(a) + Len(b) /\ i \in Int
      BY <1>1, <2>1, <2>2 DEF n
    <3>2. CASE i <= Len(a)
      BY <1>2, <2>2, <2>3, <3>1, <3>2
    <3>3. CASE ~(i <= Len(a))
      <4>1. i - Len(a) \in 1..k
        BY <1>1, <3>1, <3>3 DEF n
      <4>2. QED
        BY <1>2, <2>1, <2>2, <2>3, <3>1, <3>3, <4>1
    <3>4. QED
      BY <3>2, <3>3
  <2>6. l = r
    BY <2>2, <2>3, <2>4, <2>5, SeqEqual
  <2>7. QED
    BY <2>6 DEF l, r, p
<1>7. SubSeq(c, n + 1, Len(c)) = SubSeq(b, k + 1, Len(b))
  <2> DEFINE l == SubSeq(c, n + 1, Len(c))
             r == SubSeq(b, k + 1, Len(b))
  <2>1. r \in Seq(S) /\ Len(r) = Len(b) - k /\ \A i \in 1..Len(b) - k : r[i] = b[k + i]
    BY <1>4
  <2>2. l \in Seq(S) /\ Len(l) = Len(c) - n /\ \A i \in 1..Len(c) - n : l[i] = c[n + i]
    BY <1>5
  <2> HIDE DEF l, r
  <2>3. Len(c) - n = Len(b) - k
    BY <1>1, <1>2 DEF n
  <2>4. ASSUME NEW i \in 1..Len(l) PROVE l[i] = r[i]
    <3>1. /\ i \in 1..Len(b) - k /\ i \in 1..Len(c) - n /\ n + i \in 1..Len(a) + Len(b)
          /\ ~(n + i <= Len(a)) /\ (n + i) - Len(a) = k + i
      BY <1>1, <1>2, <2>2, <2>3 DEF n
    <3>2. c[n + i] = b[k + i]
      BY <1>2, <3>1
    <3>3. QED
      BY <2>1, <2>2, <3>1, <3>2
  <2>5. l = r
    BY <2>1, <2>2, <2>3, <2>4, SeqEqual
  <2>6. QED
    BY <2>5 DEF l, r
<1>8. QED
  BY <1>3, <1>6, <1>7 DEF c, n

LEMMA StoredBuf ==
  ASSUME NEW f \in FileOf(Nat \ {0}), NEW b \in Nat \ {0}
  PROVE  Stored(f, b).buf = Append(f.buf, b)
<1>1. Append(f.buf, b) \in Seq(Nat \ {0}) /\ f.writePtr + 1 \in Nat
  BY AppendProperties DEF FileOf
<1>2. QED
  BY <1>1 DEF Stored, FileOf

\* What makes the room and what is in the buffer then are what waits, the new
\* byte included.
LEMMA PutQueue ==
  ASSUME StreamOK, file.bufEnd > 0, Full => IsAnyWrite(file.dire)
  PROVE  /\ RoomWrites \in Seq(Nat \ {0}) /\ Stored(Roomy, NextId).buf \in Seq(Nat \ {0})
         /\ RoomWrites \o Stored(Roomy, NextId).buf = Queue(1)
         /\ Stored(Roomy, NextId).off = file.off + Len(RoomWrites)
         /\ Stored(Roomy, NextId).buf # <<>>
<1> DEFINE b == Stored(Roomy, NextId).buf
           old == file.buf
           q == Queue(1)
<1>1. /\ IsAnyWrite(file.dire) /\ StructOK(Roomy, kind) /\ Roomy.dire = file.dire
      /\ Roomy.writePtr # Roomy.bufEnd /\ Roomy.off = file.off + Len(RoomWrites)
  BY RoomyOK
<1>2. NextId \in Nat \ {0} /\ NextId = Len(log) + 1
  BY StreamFacts DEF NextId
<1>3. b = Append(Roomy.buf, NextId) /\ Roomy.buf \in Seq(Nat \ {0})
  BY <1>1, <1>2, StoredBuf DEF StructOK, FileOf
<1>4. Stored(Roomy, NextId).off = file.off + Len(RoomWrites)
  BY <1>1, <1>2, StoredOK
<1>5. /\ old \in Seq(Nat \ {0}) /\ Len(old) \in Nat
      /\ q \in Seq(Nat \ {0}) /\ Len(q) = Len(old) + 1
      /\ \A i \in 1..Len(old) : q[i] = old[i]
      /\ \A i \in 1..1 : q[Len(old) + i] = Len(log) + i
  BY StreamFacts, QueueFacts
<1>6. q[Len(old) + 1] = NextId
  BY <1>2, <1>5
<1>7. CASE Full
  <2>1. StructOK(file, kind) /\ Len(file.buf) \in Nat
    BY <1>5 DEF StreamOK
  <2>2. Roomy.buf = <<>> /\ RoomWrites = old
    BY <1>1, <1>7, <2>1, FlushedOK DEF Roomy, RoomWrites
  <2> HIDE DEF b, old, q
  <2>3. <<>> \in Seq(Nat \ {0}) /\ Len(<<>>) = 0
    BY EmptySeq
  <2>4. b \in Seq(Nat \ {0}) /\ Len(b) = 1 /\ b[1] = NextId
    <3>1. b = Append(<<>>, NextId)
      BY <1>3, <2>2
    <3>2. /\ Append(<<>>, NextId) \in Seq(Nat \ {0})
          /\ Len(Append(<<>>, NextId)) = Len(<<>>) + 1
          /\ Append(<<>>, NextId)[Len(<<>>) + 1] = NextId
      BY <1>2, <2>3, AppendProperties
    <3>3. QED
      BY <2>3, <3>1, <3>2
  <2> DEFINE c == old \o b
  <2>5. /\ c \in Seq(Nat \ {0}) /\ Len(c) = Len(old) + Len(b)
        /\ \A i \in 1..Len(old) + Len(b) : c[i] = IF i <= Len(old) THEN old[i] ELSE b[i - Len(old)]
    BY <1>5, <2>4, ConcatProperties
  <2> HIDE DEF c
  <2>6. ASSUME NEW i \in 1..Len(c) PROVE c[i] = q[i]
    <3>1. i \in 1..Len(old) + Len(b) /\ i \in Int
      BY <1>5, <2>4, <2>5
    <3>2. CASE i <= Len(old)
      <4>1. i \in 1..Len(old)
        BY <1>5, <3>1, <3>2
      <4>2. QED
        BY <1>5, <2>5, <3>1, <3>2, <4>1
    <3>3. CASE ~(i <= Len(old))
      <4>1. i = Len(old) + 1 /\ i - Len(old) = 1
        BY <1>5, <2>4, <3>1, <3>3
      <4>2. c[i] = b[1]
        BY <2>5, <3>1, <3>3, <4>1
      <4>3. QED
        BY <1>6, <2>4, <4>1, <4>2
    <3>4. QED
      BY <3>2, <3>3
  <2>7. c = q
    BY <1>5, <2>4, <2>5, <2>6, SeqEqual
  <2>8. b # <<>>
    <3>1. Len(b) # 0
      BY <2>4
    <3>2. QED
      BY <3>1
  <2>9. QED
    BY <1>4, <1>5, <2>2, <2>4, <2>7, <2>8 DEF b, q, c
<1>8. CASE ~Full
  <2>1. Roomy = file /\ RoomWrites = <<>>
    BY <1>8 DEF Roomy, RoomWrites
  <2>2. b = Append(old, NextId)
    BY <1>3, <2>1
  <2> HIDE DEF b, old, q
  <2>3. /\ b \in Seq(Nat \ {0}) /\ b # <<>> /\ Len(b) = Len(old) + 1
        /\ \A i \in 1..Len(old) : b[i] = old[i]
        /\ b[Len(old) + 1] = NextId
    BY <1>2, <1>5, <2>2, AppendProperties
  <2>4. ASSUME NEW i \in 1..Len(b) PROVE b[i] = q[i]
    <3>1. i \in 1..Len(old) \/ i = Len(old) + 1
      BY <1>5, <2>3
    <3>2. QED
      BY <1>5, <1>6, <2>3, <3>1
  <2>5. b = q
    BY <1>5, <2>3, <2>4, SeqEqual
  <2>6. <<>> \in Seq(Nat \ {0}) /\ <<>> \o b = b
    BY <2>3, ConcatEmptySeq
  <2>7. QED
    BY <1>4, <2>1, <2>3, <2>5, <2>6 DEF b, q
<1>9. QED
  BY <1>7, <1>8

LEMMA AcceptFacts ==
  ASSUME StreamOK, IsAnyWrite(file.dire), NEW nl \in BOOLEAN, Accept(nl)
  PROVE  /\ Len(log') = Len(log) + 1 /\ \A b \in 1..Len(log) : log'[b] = log[b]
         /\ log'[Len(log) + 1].nl = nl
         /\ \A i \in 1..1 : log'[Len(log) + i].pos = file.off + Len(file.buf) + i - 1
<1> DEFINE e == [nl |-> nl, pos |-> Tell(file)]
           old == log
<1>1. /\ file.off \in Int /\ file.writePtr \in Nat /\ Len(file.buf) = file.writePtr
      /\ old \in Seq([nl: BOOLEAN, pos: Int]) /\ Len(old) \in Nat
  BY StreamFacts DEF StreamOK, StructOK, FileOf
<1>2. e \in [nl: BOOLEAN, pos: Int] /\ e.nl = nl /\ e.pos = file.off + Len(file.buf)
  BY <1>1 DEF Tell
<1>3. log' = Append(old, e)
  BY DEF Accept
<1> HIDE DEF e, old
<1>4. /\ Len(log') = Len(old) + 1 /\ \A b \in 1..Len(old) : log'[b] = old[b]
      /\ log'[Len(old) + 1] = e
  BY <1>1, <1>2, <1>3, AppendProperties
<1>5. \A i \in 1..1 : log'[Len(old) + i].pos = file.off + Len(file.buf) + i - 1
  BY <1>1, <1>2, <1>4
<1>6. QED
  BY <1>2, <1>4, <1>5 DEF old

\* A newline that waits after a move waited before it, or is one of the new bytes.
LEMMA WaitsMoved ==
  ASSUME StreamOK, BytesInv, NEW n \in Nat, NEW k \in 0..Len(Queue(n)),
         NEW keep \in BOOLEAN, Moves(n, k, keep), NlWaits'
  PROVE  NlWaits \/ \E i \in 1..n : log'[Len(log) + i].nl
<1> DEFINE q == Queue(n)
           len == Len(file.buf)
           rest == Waiting(n, k)
<1>1. /\ file'.buf = IF keep THEN rest ELSE <<>>
      /\ \A b \in 1..Len(log) : log'[b] = log[b]
  BY DEF Moves
<1>2. /\ q \in Seq(Nat \ {0}) /\ Len(q) = len + n /\ len \in Nat /\ k \in 0..Len(q)
      /\ \A i \in 1..len : q[i] = file.buf[i]
      /\ \A i \in 1..n : q[len + i] = Len(log) + i
      /\ \A i \in 1..len : file.buf[i] \in 1..Len(log)
  BY StreamFacts, QueueFacts DEF BytesInv, BufferedOK
<1>3. PICK i \in 1..Len(file'.buf) : log'[file'.buf[i]].nl
  BY DEF NlWaits
<1>4. file'.buf = rest
  <2>1. Len(file'.buf) # 0
    BY <1>3
  <2>2. file'.buf # <<>>
    BY <2>1
  <2>3. QED
    BY <1>1, <2>2
<1>5. rest = SubSeq(q, k + 1, Len(q))
  BY DEF Waiting
<1> HIDE DEF q, len, rest
<1>6. Len(rest) = Len(q) - k /\ \A j \in 1..Len(q) - k : rest[j] = q[k + j]
  BY <1>2, <1>5, PartFacts
<1> DEFINE g == k + i
<1>7. i \in 1..Len(rest)
  BY <1>3, <1>4
<1>8. g \in 1..Len(q) /\ file'.buf[i] = q[g]
  <2>1. rest[i] = q[k + i] /\ k + i \in 1..Len(q)
    BY <1>2, <1>6, <1>7
  <2>2. QED
    BY <1>4, <2>1
<1> HIDE DEF g
<1>9. log'[q[g]].nl
  BY <1>3, <1>8
<1>10. CASE g <= len
  <2>1. g \in 1..len
    BY <1>2, <1>8, <1>10
  <2>2. q[g] = file.buf[g] /\ log'[q[g]] = log[q[g]]
    BY <1>1, <1>2, <2>1
  <2>3. log[file.buf[g]].nl
    BY <1>9, <2>2
  <2>4. NlWaits
    BY <2>1, <2>3 DEF NlWaits, len
  <2>5. QED
    BY <2>4
<1>11. CASE g > len
  <2>1. g - len \in 1..n /\ len + (g - len) = g
    BY <1>2, <1>8, <1>11
  <2>2. q[g] = Len(log) + (g - len)
    BY <1>2, <2>1
  <2>3. QED
    BY <1>9, <2>1, <2>2
<1>12. QED
  BY <1>2, <1>8, <1>10, <1>11

LEMMA NothingWaits ==
  ASSUME file'.buf = <<>>
  PROVE  ~NlWaits'
<1>1. Len(file'.buf) = 0
  <2>1. Len(<<>>) = 0
    BY EmptySeq
  <2>2. QED
    BY <2>1
<1>2. QED
  BY <1>1 DEF NlWaits

\* The byte is stored: k = Len(RoomWrites) of those that waited are written.
LEMMA PutStoredMoves ==
  ASSUME StreamOK, BytesInv, NEW nl \in BOOLEAN, PutStored(nl),
         UNCHANGED <<kind, append, seekable>>
  PROVE  WriteMove /\ (NlWaits' => NlWaits \/ nl)
<1> DEFINE a == RoomWrites
           b == Stored(Roomy, NextId).buf
           k == Len(a)
<1>1. /\ file.bufEnd > 0 /\ (Full => IsAnyWrite(file.dire)) /\ Accept(nl)
      /\ KernelWrite(a) /\ file' = Stored(Roomy, NextId) /\ lost' = lost
  BY DEF PutStored
<1>2. IsAnyWrite(file.dire)
  BY <1>1, RoomyOK
<1>3. /\ a \in Seq(Nat \ {0}) /\ b \in Seq(Nat \ {0}) /\ a \o b = Queue(1)
      /\ file'.off = file.off + k /\ file'.buf = b
  BY <1>1, PutQueue
<1> HIDE DEF a, b
<1>4. Len(a) \in Nat /\ Len(b) \in Nat /\ 0 \in 0..Len(b)
  BY <1>3, LenProperties
<1>5. /\ Len(a) + 0 \in 0..Len(a \o b)
      /\ SubSeq(a \o b, 1, Len(a) + 0) = a \o SubSeq(b, 1, 0)
      /\ SubSeq(a \o b, (Len(a) + 0) + 1, Len(a \o b)) = SubSeq(b, 0 + 1, Len(b))
  BY <1>3, <1>4, SplitSeq
<1>6. Len(a) + 0 = k /\ 0 + 1 = 1
  BY <1>4
<1>7. SubSeq(b, 1, 0) = <<>> /\ SubSeq(b, 1, Len(b)) = b /\ a \o <<>> = a
  BY <1>3, SubSeqEmpty, SubSeqFull, ConcatEmptySeq
<1>8. k \in 0..Len(Queue(1)) /\ Written(1, k) = a /\ Waiting(1, k) = b
  BY <1>3, <1>5, <1>6, <1>7 DEF Written, Waiting
<1>9. disk' = PutAt(disk, From(k), Written(1, k)) /\ Goes(k)
  BY <1>1, <1>8, KernelMoves
<1>10. /\ Len(log') = Len(log) + 1 /\ \A j \in 1..Len(log) : log'[j] = log[j]
       /\ log'[Len(log) + 1].nl = nl
       /\ \A i \in 1..1 : log'[Len(log) + i].pos = file.off + Len(file.buf) + i - 1
  BY <1>1, <1>2, AcceptFacts
<1>11. Moves(1, k, TRUE)
  BY <1>1, <1>2, <1>3, <1>8, <1>9, <1>10 DEF Moves
<1>12. 1 \in 0..MaxChunk
  BY BoundsAssumption
<1>13. WriteMove
  BY <1>8, <1>9, <1>11, <1>12 DEF WriteMove
<1>14. ASSUME NlWaits' PROVE NlWaits \/ nl
  <2>1. NlWaits \/ \E i \in 1..1 : log'[Len(log) + i].nl
    BY <1>8, <1>11, <1>14, WaitsMoved
  <2>2. QED
    BY <1>10, <2>1
<1>15. QED
  BY <1>13, <1>14

\* The byte is stored and flushed.
LEMMA PutFlushedMoves ==
  ASSUME StreamOK, NEW nl \in BOOLEAN, NEW ok \in BOOLEAN, PutFlushed(nl, ok),
         UNCHANGED <<kind, append, seekable>>
  PROVE  WriteMove /\ ~NlWaits' /\ (ok => lost' = lost)
<1> DEFINE a == RoomWrites
           f == Stored(Roomy, NextId)
           b == f.buf
<1>1. /\ file.bufEnd > 0 /\ (Full => IsAnyWrite(file.dire)) /\ Accept(nl)
  BY DEF PutFlushed
<1>2. PICK k \in 0..Len(b) : ok = (k = Len(b)) /\ FlushAfter(a, f, k)
  BY DEF PutFlushed
<1>3. /\ IsAnyWrite(file.dire) /\ NextId \in Nat \ {0} /\ StructOK(Roomy, kind)
      /\ Roomy.dire = file.dire /\ Roomy.writePtr # Roomy.bufEnd
  BY <1>1, RoomyOK, StreamFacts DEF NextId
<1>4. a \in Seq(Nat \ {0}) /\ b \in Seq(Nat \ {0}) /\ a \o b = Queue(1)
  BY <1>1, PutQueue
<1>5. StructOK(f, kind) /\ IsAnyWrite(f.dire) /\ k \in Nat
  BY <1>2, <1>3, <1>4, StoredOK, LenProperties
<1>6. /\ KernelWrite(a \o SubSeq(b, 1, k)) /\ file' = Flushed(f, k)
      /\ lost' = lost \union Elems(SubSeq(b, k + 1, Len(b)))
  BY <1>2 DEF FlushAfter
<1>7. file'.buf = <<>>
  BY <1>5, <1>6, FlushedOK
<1> HIDE DEF a, f, b
<1> DEFINE n == Len(a) + k
<1>8. /\ Len(a) + k \in 0..Len(a \o b)
      /\ SubSeq(a \o b, 1, Len(a) + k) = a \o SubSeq(b, 1, k)
      /\ SubSeq(a \o b, (Len(a) + k) + 1, Len(a \o b)) = SubSeq(b, k + 1, Len(b))
  BY <1>2, <1>4, SplitSeq
<1>9. /\ n \in 0..Len(Queue(1)) /\ Written(1, n) = a \o SubSeq(b, 1, k)
      /\ Waiting(1, n) = SubSeq(b, k + 1, Len(b))
  BY <1>4, <1>8 DEF Written, Waiting
<1> HIDE DEF n
<1>10. disk' = PutAt(disk, From(n), Written(1, n)) /\ Goes(n)
  BY <1>6, <1>9, KernelMoves
<1>11. /\ Len(log') = Len(log) + 1 /\ \A j \in 1..Len(log) : log'[j] = log[j]
       /\ \A i \in 1..1 : log'[Len(log) + i].pos = file.off + Len(file.buf) + i - 1
  BY <1>1, <1>3, AcceptFacts
<1>12. Moves(1, n, FALSE)
  BY <1>3, <1>6, <1>7, <1>9, <1>10, <1>11 DEF Moves
<1>13. 1 \in 0..MaxChunk
  BY BoundsAssumption
<1>14. WriteMove
  BY <1>9, <1>10, <1>12, <1>13 DEF WriteMove
<1>15. ASSUME ok PROVE lost' = lost
  <2>1. k = Len(b) /\ Len(b) \in Nat
    BY <1>2, <1>4, <1>15, LenProperties
  <2>2. SubSeq(b, Len(b) + 1, Len(b)) = <<>>
    BY <2>1, SubSeqEmpty
  <2>3. QED
    BY <1>6, <2>1, <2>2 DEF Elems
<1>16. QED
  BY <1>7, <1>14, <1>15, NothingWaits

\* The byte goes to the kernel, or nothing happens.
LEMMA PutUnbufferedMoves ==
  ASSUME StreamOK, NEW nl \in BOOLEAN, NEW ok \in BOOLEAN, PutUnbuffered(nl, ok),
         UNCHANGED <<kind, append, seekable>>
  PROVE  WriteMove /\ ~NlWaits' /\ lost' = lost
<1>1. IsAnyWrite(file.dire) /\ file' = file /\ lost' = lost /\ file.bufEnd = 0
  BY DEF PutUnbuffered
<1>2. file.buf = <<>>
  <2>1. file.buf \in Seq(Nat \ {0}) /\ Len(file.buf) = 0
    BY <1>1 DEF StreamOK, StructOK, FileOf
  <2>2. QED
    BY <2>1, EmptySeq
<1>3. ~NlWaits'
  BY <1>1, <1>2, NothingWaits
<1>4. CASE ok
  <2>1. Accept(nl) /\ KernelWrite(<<NextId>>)
    BY <1>4 DEF PutUnbuffered
  <2>2. /\ Len(log') = Len(log) + 1 /\ \A j \in 1..Len(log) : log'[j] = log[j]
        /\ \A i \in 1..1 : log'[Len(log) + i].pos = file.off + Len(file.buf) + i - 1
    BY <1>1, <2>1, AcceptFacts
  <2> DEFINE q == Queue(1)
  <2>3. /\ q \in Seq(Nat \ {0}) /\ Len(q) = 1 /\ q[1] = NextId
        /\ Written(1, 1) = SubSeq(q, 1, 1) /\ Waiting(1, 1) = SubSeq(q, 2, Len(q))
    <3>1. Len(file.buf) = 0
      BY <1>2, EmptySeq
    <3>2. /\ q \in Seq(Nat \ {0}) /\ Len(q) = 0 + 1
          /\ \A i \in 1..1 : q[0 + i] = Len(log) + i
      BY <3>1, QueueFacts
    <3>3. q[1] = Len(log) + 1
      BY <3>2
    <3>4. QED
      BY <3>2, <3>3 DEF NextId, Written, Waiting
  <2> HIDE DEF q
  <2>4. SubSeq(q, 1, 1) = <<NextId>>
    <3>1. /\ SubSeq(q, 1, 1) \in Seq(Nat \ {0}) /\ Len(SubSeq(q, 1, 1)) = 1
          /\ \A i \in 1..1 : SubSeq(q, 1, 1)[i] = q[i]
      BY <2>3, PartFacts
    <3>2. NextId \in Nat \ {0}
      BY StreamFacts DEF NextId
    <3>3. /\ <<NextId>> \in Seq(Nat \ {0}) /\ Len(<<NextId>>) = 1 /\ <<NextId>>[1] = NextId
      BY <3>2
    <3> DEFINE l == SubSeq(q, 1, 1)
               r == <<NextId>>
    <3>4. /\ l \in Seq(Nat \ {0}) /\ r \in Seq(Nat \ {0}) /\ Len(l) = Len(r)
          /\ \A i \in 1..Len(l) : l[i] = r[i]
      BY <2>3, <3>1, <3>3
    <3> HIDE DEF l, r
    <3>5. l = r
      BY <3>4, SeqEqual
    <3>6. QED
      BY <3>5 DEF l, r
  <2>5. SubSeq(q, 2, Len(q)) = <<>>
    BY <2>3, SubSeqEmpty
  <2>6. 1 \in 0..Len(q) /\ 1 \in 0..MaxChunk
    BY <2>3, BoundsAssumption
  <2>7. disk' = PutAt(disk, From(1), Written(1, 1)) /\ Goes(1)
    BY <2>1, <2>3, <2>4, <2>6, KernelMoves DEF q
  <2>8. Moves(1, 1, TRUE)
    BY <1>1, <1>2, <2>2, <2>3, <2>5, <2>7 DEF Moves
  <2>9. WriteMove
    BY <2>6, <2>7, <2>8 DEF WriteMove, q
  <2>10. QED
    BY <1>1, <1>3, <2>9
<1>5. CASE ~ok
  <2>1. UNCHANGED <<log, disk, koff>>
    BY <1>5 DEF PutUnbuffered
  <2>2. WriteMove
    BY <1>1, <2>1, StillMoves
  <2>3. QED
    BY <1>1, <1>3, <2>2
<1>6. QED
  BY <1>4, <1>5

LEMMA FflushMoves ==
  ASSUME StreamOK, NEW ok \in BOOLEAN, Fflush_RP3(ok),
         UNCHANGED <<log, kind, append, seekable>>
  PROVE  /\ WriteMove /\ (NlWaits' => NlWaits)
         /\ IsAnyWrite(file.dire) => ~NlWaits'
         /\ ok => IsAnyWrite(file.dire) /\ lost' = lost /\ file'.writePtr = 0
<1>1. CASE ~IsAnyWrite(file.dire)
  <2>1. UNCHANGED <<file, disk, koff, lost>> /\ ~ok
    BY <1>1 DEF Fflush_RP3
  <2>2. WriteMove
    BY <2>1, StillMoves
  <2>3. QED
    BY <1>1, <2>1, <2>2 DEF NlWaits
<1>2. CASE IsAnyWrite(file.dire)
  <2> DEFINE b == file.buf
  <2>1. PICK k \in 0..Len(b) : ok = (k = Len(b)) /\ FlushAfter(<<>>, file, k)
    BY <1>2 DEF Fflush_RP3
  <2>2. StructOK(file, kind) /\ b \in Seq(Nat \ {0}) /\ Len(b) \in Nat /\ k \in Nat
    BY <2>1, StreamFacts DEF StreamOK
  <2>3. /\ KernelWrite(<<>> \o SubSeq(b, 1, k)) /\ file' = Flushed(file, k)
        /\ lost' = lost \union Elems(SubSeq(b, k + 1, Len(b)))
    BY <2>1 DEF FlushAfter
  <2>4. file'.buf = <<>> /\ file'.writePtr = 0
    BY <1>2, <2>2, <2>3, FlushedOK
  <2>5. <<>> \o SubSeq(b, 1, k) = SubSeq(b, 1, k)
    <3> HIDE DEF b
    <3>1. SubSeq(b, 1, k) \in Seq(Nat \ {0})
      BY <2>1, <2>2, PartFacts
    <3>2. QED
      BY <3>1, ConcatEmptySeq
  <2>6. WriteMove
    BY <1>2, <2>3, <2>4, <2>5, FlushMoves
  <2>7. ASSUME ok PROVE lost' = lost
    <3>1. k = Len(b)
      BY <2>1, <2>7
    <3>2. SubSeq(b, Len(b) + 1, Len(b)) = <<>>
      BY <2>2, SubSeqEmpty
    <3>3. QED
      BY <2>3, <3>1, <3>2 DEF Elems
  <2>8. QED
    BY <1>2, <2>4, <2>6, <2>7, NothingWaits
<1>3. QED
  BY <1>1, <1>2

\* fputc: no loss without EOF, and no newline is left in a line-buffered stream.
LEMMA FputcMoves ==
  ASSUME StreamOK, BytesInv, NEW nl \in BOOLEAN, NEW ok \in BOOLEAN, Fputc_RP3(nl, ok),
         UNCHANGED <<kind, append, seekable>>
  PROVE  /\ WriteMove /\ (ok => lost' = lost)
         /\ file.dire = FD_WRITE_LINEBUF /\ NlWaits' => NlWaits
<1>1. CASE PutUnbuffered(nl, ok)
  BY <1>1, PutUnbufferedMoves
<1>2. CASE ~(nl /\ file.dire = FD_WRITE_LINEBUF) /\ PutStored(nl)
  <2>1. WriteMove /\ (NlWaits' => NlWaits \/ nl)
    BY <1>2, PutStoredMoves
  <2>2. lost' = lost
    BY <1>2 DEF PutStored
  <2>3. QED
    BY <1>2, <2>1, <2>2
<1>3. CASE PutFlushed(nl, ok)
  BY <1>3, PutFlushedMoves
<1>4. CASE ~ok /\ PutRefused
  <2>1. Fflush_RP3(FALSE) /\ log' = log
    BY <1>4 DEF PutRefused
  <2>2. WriteMove /\ (NlWaits' => NlWaits)
    BY <2>1, FflushMoves
  <2>3. QED
    BY <1>4, <2>2
<1>5. QED
  BY <1>1, <1>2, <1>3, <1>4 DEF Fputc_RP3

-----------------------------------------------------------------------------
(* Calls: what they have consumed, and what they say of a loss. *)

\* What a step has to show besides IInv' and BytesInv'.
Shown == Moved /\ CallInv' /\ LineInv'

LEMMA FinishFacts ==
  ASSUME NEW g \in Nat, Finish(g)
  PROVE  /\ call' = Idle /\ call'.op = "idle" /\ Len(call'.src) = 0
         /\ ret'.op = "fputs" \/ (ret'.op = call.op /\ (ret'.ok => g = call.want))
<1>1. call' = Idle
  BY DEF Finish
<1>2. ret'.op = "fputs" \/ (ret'.op = call.op /\ (ret'.ok => g = call.want))
  <2>1. CASE call.puts
    <3>1. Returns("fputs", TRUE)
      BY <2>1 DEF Finish
    <3>2. QED
      BY <3>1 DEF Returns
  <2>2. CASE ~call.puts
    <3>1. ret' = [op |-> call.op, ok |-> g = call.want]
      BY <2>2 DEF Finish, Returns
    <3>2. QED
      BY <3>1
  <2>3. QED
    BY <2>1, <2>2
<1>3. QED
  BY <1>1, <1>2, EmptySeq DEF Idle

\* A call that returns owes no more than LossReported.
LEMMA EndsWell ==
  ASSUME call'.op = "idle", Len(call'.src) = 0, LossReported'
  PROVE  CallInv'
BY BoundsAssumption DEF CallInv

LEMMA GoOnFacts ==
  ASSUME ControlOK, call.got + Len(call.src) = call.want, NEW n \in 1..Len(call.src), GoOn(n)
  PROVE  \/ n = Len(call.src) /\ Finish(call.got + n)
         \/ /\ n # Len(call.src) /\ call'.op = call.op
            /\ call'.got + Len(call'.src) = call'.want
            /\ Len(call'.src) = Len(call.src) - n
            /\ \A i \in 1..Len(call.src) - n : call'.src[i] = call.src[n + i]
<1>1. /\ call \in [op: Ops, src: Seq(BOOLEAN), want: Nat, got: Nat, puts: BOOLEAN]
      /\ call.src \in Seq(BOOLEAN) /\ Len(call.src) \in Nat /\ call.got + n \in Nat
  BY LenProperties DEF ControlOK
<1>2. CASE n = Len(call.src)
  BY <1>2 DEF GoOn
<1>3. CASE n # Len(call.src)
  <2> DEFINE s == call.src
             rest == SubSeq(s, n + 1, Len(s))
  <2>1. call' = [call EXCEPT !.src = rest, !.got = call.got + n]
    BY <1>3 DEF GoOn
  <2>2. s \in Seq(BOOLEAN) /\ n \in 0..Len(s)
    BY <1>1
  <2> HIDE DEF s
  <2>3. rest \in Seq(BOOLEAN) /\ Len(rest) = Len(s) - n
        /\ \A i \in 1..Len(s) - n : rest[i] = s[n + i]
    BY <2>2, PartFacts
  <2> HIDE DEF rest
  <2>4. /\ call'.op = call.op /\ call'.src = rest /\ call'.got = call.got + n
        /\ call'.want = call.want
    <3>1. rest \in Seq(BOOLEAN) /\ call.got + n \in Nat
      BY <1>1, <2>3
    <3>2. call \in [op: Ops, src: Seq(BOOLEAN), want: Nat, got: Nat, puts: BOOLEAN]
      BY <1>1
    <3>3. QED
      BY <2>1, <3>1, <3>2
  <2>5. call'.got + Len(call'.src) = call'.want
    <3>1. call.got \in Nat /\ n \in Nat /\ Len(s) \in Nat /\ call.got + Len(s) = call.want
      BY <1>1 DEF s
    <3>2. Len(call'.src) = Len(s) - n /\ call'.got = call.got + n /\ call'.want = call.want
      BY <2>3, <2>4
    <3>3. QED
      BY <3>1, <3>2
  <2>6. QED
    BY <1>3, <2>3, <2>4, <2>5 DEF s
<1>4. QED
  BY <1>2, <1>3

LEMMA ChunkLen ==
  ASSUME NEW src \in Chunks
  PROVE  Len(src) \in 1..MaxChunk
<1>1. PICK n \in 1..MaxChunk : src \in [1..n -> BOOLEAN]
  BY DEF Chunks
<1>2. n \in Nat
  BY <1>1, BoundsAssumption
<1>3. src \in Seq(BOOLEAN) /\ Len(src) = n
  BY <1>1, <1>2, SeqDef, LenProperties
<1>4. QED
  BY <1>1, <1>3

\* Between two calls no newline waits in a line-buffered stream.
LEMMA ReadyFacts ==
  ASSUME FullInv, Ready
  PROVE  /\ call.op = "idle" /\ Len(call.src) = 0 /\ file.dire # FD_WRITE_RELAXED
         /\ ~(file.dire = FD_WRITE_LINEBUF /\ NlWaits)
         /\ StreamOK /\ ControlOK /\ BytesInv
<1>1. call.op = "idle" /\ Len(call.src) = 0 /\ file.dire # FD_WRITE_RELAXED
  BY ReadyNotRelaxed, EmptySeq DEF FullInv, Ready, Idle
<1>2. QED
  BY <1>1 DEF FullInv, LineInv, IInv

LEMMA FputcShown ==
  ASSUME FullInv, NEW nl \in BOOLEAN, Fputc(nl)
  PROVE  Shown
<1>1. /\ Ready /\ lossy' = Loses
      /\ UNCHANGED <<kind, append, seekable, call, exited>>
  BY DEF Fputc
<1>2. PICK ok \in BOOLEAN : Fputc_RP3(nl, ok) /\ Returns("fputc", ok)
  BY DEF Fputc
<1>3. /\ WriteMove /\ (ok => lost' = lost)
      /\ file.dire = FD_WRITE_LINEBUF /\ NlWaits' => NlWaits
      /\ file'.dire = file.dire
  BY <1>1, <1>2, ReadyFacts, FputcMoves, FputcStep
<1>4. LossReported'
  <2>1. ret'.ok = ok
    BY <1>2 DEF Returns
  <2>2. lossy' => ~ok
    BY <1>1, <1>3 DEF Loses
  <2>3. QED
    BY <2>1, <2>2 DEF LossReported
<1>5. CallInv'
  BY <1>1, <1>4, ReadyFacts, EndsWell
<1>6. LineInv'
  BY <1>1, <1>3, ReadyFacts DEF LineInv
<1>7. QED
  BY <1>3, <1>5, <1>6 DEF Shown, Moved

LEMMA FwriteStartShown ==
  ASSUME FullInv, NEW src \in Chunks, NEW puts \in BOOLEAN, FwriteStart(src, puts)
  PROVE  Shown
<1>1. /\ UNCHANGED <<file, disk, koff, log, lost, kind, append, seekable, exited>> /\ Ready
      /\ lossy' = FALSE
  BY DEF FwriteStart, Keep, Start
<1>2. /\ file'.buf = file.buf /\ file'.off = file.off /\ file'.dire = file.dire
      /\ NlWaits' = NlWaits
  BY <1>1 DEF NlWaits
<1>3. WriteMove
  BY <1>1, <1>2, ReadyFacts, StillMoves
<1>4. LineInv'
  BY <1>1, <1>2, ReadyFacts DEF LineInv
<1>5. LossReported'
  BY <1>1 DEF LossReported
<1>6. CallInv'
  <2>1. CASE ~IsAnyWrite(file.dire)
    <3>1. call' = call
      BY <2>1 DEF FwriteStart
    <3>2. QED
      BY <1>1, <1>5, <3>1, ReadyFacts, EndsWell
  <2>2. CASE IsAnyWrite(file.dire)
    <3>1. Start(FwriteLoop(Len(src)), src, puts)
      BY <2>2 DEF FwriteStart
    <3>2. /\ call'.op = FwriteLoop(Len(src)) /\ call'.src = src /\ call'.want = Len(src)
          /\ call'.got = 0
      BY <3>1 DEF Start
    <3>3. Len(src) \in Nat /\ Len(src) <= MaxChunk
      BY ChunkLen, BoundsAssumption
    <3>4. file.writePtr \in Nat /\ file.bufEnd \in Nat /\ file.writePtr <= file.bufEnd
      BY <1>1, ReadyFacts DEF StreamOK, StructOK, FileOf
    <3>5. /\ FwriteLoop(Len(src)) \in {"fwriteLine", "fwriteCopy", "fwriteDirect"}
          /\ FwriteLoop(Len(src)) = "fwriteLine" => file.dire = FD_WRITE_LINEBUF
          /\ FwriteLoop(Len(src)) = "fwriteCopy" => file.dire # FD_WRITE_LINEBUF
          /\ FwriteLoop(Len(src)) = "fwriteDirect" => file.bufEnd = 0 \/ file.writePtr = 0
      BY DEF FwriteLoop
    <3>6. QED
      BY <1>1, <1>5, <3>2, <3>3, <3>4, <3>5 DEF CallInv
  <2>3. QED
    BY <2>1, <2>2
<1>7. QED
  BY <1>3, <1>4, <1>6 DEF Shown, Moved

LEMMA FwriteLineShown ==
  ASSUME FullInv, FwriteLine
  PROVE  Shown
<1> DEFINE s == call.src
           lastNl == Nl /\ ~\E i \in 2..Len(s) : s[i]
<1>1. /\ call.op = "fwriteLine" /\ UNCHANGED <<kind, append, seekable>>
      /\ lossy' = (lossy \/ Loses) /\ StreamOK /\ ControlOK /\ BytesInv
      /\ s # <<>> /\ file.dire = FD_WRITE_LINEBUF /\ ~lossy /\ IsAnyWrite(file.dire)
      /\ call.got + Len(s) = call.want /\ Len(s) <= MaxChunk
      /\ NlWaits => \E j \in 1..Len(s) : s[j]
  BY DEF FwriteLine, Keep, FullInv, IInv, CallOK, CallInv, LineInv
<1>2. Nl \in BOOLEAN /\ Len(s) \in Nat \ {0} /\ 1 \in 1..Len(s) /\ call.got \in Nat
  BY <1>1, HeadType DEF ControlOK
<1>3. s[1] = Nl
  BY <1>1 DEF Nl
<1>4. CASE ~lastNl /\ PutStored(Nl) /\ GoOn(1)
  <2>1. /\ WriteMove /\ (NlWaits' => NlWaits \/ Nl) /\ file'.dire = file.dire
        /\ lost' = lost
    BY <1>1, <1>2, <1>4, PutStoredMoves, PutStoredStep DEF PutStored
  <2>2. lossy' = FALSE
    BY <1>1, <2>1 DEF Loses
  <2>3. NlWaits' => \E j \in 2..Len(s) : s[j]
    <3>1. SUFFICES ASSUME NlWaits' PROVE \E j \in 2..Len(s) : s[j]
      OBVIOUS
    <3>2. PICK j \in 1..Len(s) : s[j]
      BY <1>1, <1>2, <1>3, <2>1, <3>1
    <3>3. CASE j = 1
      BY <1>3, <1>4, <3>2, <3>3
    <3>4. CASE j # 1
      <4>1. j \in 2..Len(s)
        BY <1>2, <3>2, <3>4
      <4>2. QED
        BY <3>2, <4>1
    <3>5. QED
      BY <3>3, <3>4
  <2>4. \/ 1 = Len(s) /\ Finish(call.got + 1)
        \/ /\ 1 # Len(s) /\ call'.op = call.op /\ call'.got + Len(call'.src) = call'.want
           /\ Len(call'.src) = Len(s) - 1
           /\ \A i \in 1..Len(s) - 1 : call'.src[i] = s[1 + i]
    BY <1>1, <1>2, <1>4, GoOnFacts
  <2>5. LossReported'
    BY <2>2 DEF LossReported
  <2>6. CASE 1 = Len(s) /\ Finish(call.got + 1)
    <3>1. call'.op = "idle" /\ Len(call'.src) = 0
      BY <1>2, <2>6, FinishFacts
    <3>2. CallInv'
      BY <2>5, <3>1, EndsWell
    <3>3. ~NlWaits'
      BY <2>3, <2>6
    <3>4. QED
      BY <2>1, <3>2, <3>3 DEF Shown, Moved, LineInv
  <2>7. CASE /\ 1 # Len(s) /\ call'.op = call.op /\ call'.got + Len(call'.src) = call'.want
             /\ Len(call'.src) = Len(s) - 1
             /\ \A i \in 1..Len(s) - 1 : call'.src[i] = s[1 + i]
    <3>1. CallInv'
      BY <1>1, <1>2, <2>1, <2>2, <2>5, <2>7, BoundsAssumption DEF CallInv
    <3>2. LineInv'
      <4>1. SUFFICES ASSUME NlWaits' PROVE \E j \in 1..Len(call'.src) : call'.src[j]
        BY <1>1, <2>7 DEF LineInv
      <4>2. PICK j \in 2..Len(s) : s[j]
        BY <2>3, <4>1
      <4>3. j - 1 \in 1..Len(s) - 1 /\ 1 + (j - 1) = j
        BY <1>2, <4>2
      <4>4. call'.src[j - 1]
        BY <2>7, <4>2, <4>3
      <4>5. QED
        BY <2>7, <4>3, <4>4
    <3>3. QED
      BY <2>1, <3>1, <3>2 DEF Shown, Moved
  <2>8. QED
    BY <2>4, <2>6, <2>7
<1>5. CASE PutFlushed(Nl, TRUE) /\ GoOn(1)
  <2>1. WriteMove /\ ~NlWaits' /\ lost' = lost /\ file'.dire = file.dire
    BY <1>1, <1>2, <1>5, PutFlushedMoves, PutFlushedStep
  <2>2. lossy' = FALSE
    BY <1>1, <2>1 DEF Loses
  <2>3. LossReported'
    BY <2>2 DEF LossReported
  <2>4. \/ Finish(call.got + 1)
        \/ /\ call'.op = call.op /\ call'.got + Len(call'.src) = call'.want
           /\ Len(call'.src) = Len(s) - 1
    BY <1>1, <1>2, <1>5, GoOnFacts
  <2>5. CallInv'
    <3>1. CASE Finish(call.got + 1)
      BY <1>2, <2>3, <3>1, FinishFacts, EndsWell
    <3>2. CASE /\ call'.op = call.op /\ call'.got + Len(call'.src) = call'.want
               /\ Len(call'.src) = Len(s) - 1
      BY <1>1, <1>2, <2>1, <2>2, <2>3, <3>2, BoundsAssumption DEF CallInv
    <3>3. QED
      BY <2>4, <3>1, <3>2
  <2>6. QED
    BY <2>1, <2>5 DEF Shown, Moved, LineInv
<1>6. CASE PutFlushed(Nl, FALSE) /\ Finish(call.got + 1)
  <2>1. WriteMove /\ ~NlWaits' /\ file'.dire = file.dire
    BY <1>1, <1>2, <1>6, PutFlushedMoves, PutFlushedStep
  <2>2. /\ call'.op = "idle" /\ Len(call'.src) = 0
        /\ ret'.op = "fputs" \/ ret'.op = call.op
    BY <1>2, <1>6, FinishFacts
  <2>3. LossReported'
    BY <1>1, <2>1, <2>2 DEF LossReported
  <2>4. CallInv'
    BY <2>2, <2>3, EndsWell
  <2>5. QED
    BY <2>1, <2>4 DEF Shown, Moved, LineInv
<1>7. CASE PutRefused /\ Finish(call.got)
  <2>1. Fflush_RP3(FALSE) /\ log' = log
    BY <1>7 DEF PutRefused
  <2>2. WriteMove /\ ~NlWaits' /\ file'.dire = file.dire
    BY <1>1, <2>1, FflushMoves, FflushStep
  <2>3. /\ call'.op = "idle" /\ Len(call'.src) = 0
        /\ ret'.op = "fputs" \/ ~ret'.ok
    <3>1. call.got # call.want
      BY <1>1, <1>2
    <3>2. QED
      BY <1>2, <1>7, <3>1, FinishFacts
  <2>4. LossReported'
    BY <2>3 DEF LossReported
  <2>5. CallInv'
    BY <2>3, <2>4, EndsWell
  <2>6. QED
    BY <2>2, <2>5 DEF Shown, Moved, LineInv
<1>8. QED
  BY <1>4, <1>5, <1>6, <1>7 DEF FwriteLine

LEMMA FwriteCopyShown ==
  ASSUME FullInv, FwriteCopy
  PROVE  Shown
<1> DEFINE s == call.src
<1>1. /\ call.op = "fwriteCopy" /\ UNCHANGED <<kind, append, seekable>>
      /\ lossy' = lossy /\ StreamOK /\ ControlOK /\ BytesInv
      /\ s # <<>> /\ file.dire # FD_WRITE_LINEBUF /\ ~lossy
      /\ call.got + Len(s) = call.want /\ Len(s) <= MaxChunk
      /\ PutStored(Nl) /\ GoOn(1)
  BY DEF FwriteCopy, Keep, FullInv, IInv, CallOK, CallInv
<1>2. Nl \in BOOLEAN /\ Len(s) \in Nat \ {0} /\ 1 \in 1..Len(s) /\ call.got \in Nat
  BY <1>1, HeadType DEF ControlOK
<1>3. WriteMove /\ file'.dire = file.dire
  BY <1>1, <1>2, PutStoredMoves, PutStoredStep
<1>4. LossReported'
  BY <1>1 DEF LossReported
<1>5. \/ Finish(call.got + 1)
      \/ /\ call'.op = call.op /\ call'.got + Len(call'.src) = call'.want
         /\ Len(call'.src) = Len(s) - 1
  BY <1>1, <1>2, GoOnFacts
<1>6. CallInv'
  <2>1. CASE Finish(call.got + 1)
    BY <1>2, <1>4, <2>1, FinishFacts, EndsWell
  <2>2. CASE /\ call'.op = call.op /\ call'.got + Len(call'.src) = call'.want
             /\ Len(call'.src) = Len(s) - 1
    BY <1>1, <1>2, <1>3, <1>4, <2>2, BoundsAssumption DEF CallInv
  <2>3. QED
    BY <1>5, <2>1, <2>2
<1>7. QED
  BY <1>1, <1>3, <1>6 DEF Shown, Moved, LineInv

LEMMA FwriteFlushShown ==
  ASSUME FullInv, FwriteFlush
  PROVE  Shown
<1>1. /\ call.op = "fwriteCopy" /\ UNCHANGED <<kind, append, seekable, log>>
      /\ lossy' = (lossy \/ Loses) /\ StreamOK /\ ControlOK
      /\ call.src # <<>> /\ file.dire # FD_WRITE_LINEBUF /\ ~lossy
      /\ call.got + Len(call.src) = call.want /\ Len(call.src) <= MaxChunk
  BY DEF FwriteFlush, Keep, FullInv, IInv, CallOK, CallInv
<1>2. Len(call.src) \in Nat \ {0} /\ call.got \in Nat
  BY <1>1, HeadType DEF ControlOK
<1>3. PICK ok \in BOOLEAN :
        /\ Fflush_RP3(ok)
        /\ IF ok THEN call' = [call EXCEPT !.op = "fwriteDirect"] /\ UNCHANGED ret
                 ELSE Finish(call.got)
  BY DEF FwriteFlush
<1>4. /\ WriteMove /\ file'.dire = file.dire
      /\ ok => lost' = lost /\ file'.writePtr = 0
  BY <1>1, <1>3, FflushMoves, FflushStep
<1>5. CallInv'
  <2>1. CASE ok
    <3>1. /\ call'.op = "fwriteDirect" /\ call'.src = call.src /\ call'.got = call.got
          /\ call'.want = call.want
      BY <1>1, <1>3, <2>1 DEF ControlOK, Ops
    <3>2. lossy' = FALSE
      BY <1>1, <1>4, <2>1 DEF Loses
    <3>3. QED
      BY <1>1, <1>4, <2>1, <3>1, <3>2 DEF CallInv, LossReported
  <2>2. CASE ~ok
    <3>1. call.got # call.want
      BY <1>1, <1>2
    <3>2. /\ call'.op = "idle" /\ Len(call'.src) = 0
          /\ ret'.op = "fputs" \/ ~ret'.ok
      BY <1>2, <1>3, <2>2, <3>1, FinishFacts
    <3>3. LossReported'
      BY <3>2 DEF LossReported
    <3>4. QED
      BY <3>2, <3>3, EndsWell
  <2>3. QED
    BY <2>1, <2>2
<1>6. QED
  BY <1>1, <1>4, <1>5 DEF Shown, Moved, LineInv

\* The bytes of a direct write: none waits before or after it.
LEMMA FwriteDirectShown ==
  ASSUME FullInv, FwriteDirect
  PROVE  Shown
<1> DEFINE s == call.src
           ids(k) == [i \in 1..k |-> Len(log) + i]
           taken(k) == [i \in 1..k |-> [nl |-> call.src[i], pos |-> Tell(file) + i - 1]]
<1>1. /\ call.op = "fwriteDirect" /\ UNCHANGED <<kind, append, seekable, lost>>
      /\ lossy' = lossy /\ StreamOK /\ ControlOK /\ IsAnyWrite(file.dire)
      /\ s # <<>> /\ ~lossy /\ file.writePtr = 0
      /\ call.got + Len(s) = call.want /\ Len(s) <= MaxChunk
  BY DEF FwriteDirect, Keep, FullInv, IInv, CallOK, CallInv
<1>2. /\ Len(s) \in Nat \ {0} /\ call.got \in Nat /\ s \in Seq(BOOLEAN)
      /\ StructOK(file, kind) /\ file \in FileOf(Nat \ {0}) /\ file.off \in Int
      /\ Len(log) \in Nat /\ log \in Seq([nl: BOOLEAN, pos: Int])
  BY <1>1, HeadType, LenProperties DEF ControlOK, StreamOK, StructOK, FileOf
<1>3. PICK k \in 0..Len(s) :
        IF k = 0
          THEN Finish(call.got) /\ UNCHANGED <<file, disk, koff, log>>
          ELSE /\ KernelWrite(ids(k))
               /\ file' = [file EXCEPT !.off = @ + k]
               /\ log' = log \o taken(k)
               /\ GoOn(k)
  BY DEF FwriteDirect
<1>4. file.buf = <<>> /\ Len(file.buf) = 0 /\ Tell(file) = file.off
  <2>1. file.buf \in Seq(Nat \ {0}) /\ Len(file.buf) = 0
    BY <1>1, <1>2 DEF StructOK, FileOf
  <2>2. QED
    BY <1>1, <1>2, <2>1, EmptySeq DEF Tell
<1>5. LossReported'
  BY <1>1 DEF LossReported
<1>6. CASE k = 0
  <2>1. Finish(call.got) /\ UNCHANGED <<file, disk, koff, log>>
    BY <1>3, <1>6
  <2>2. WriteMove /\ file'.buf = <<>>
    BY <1>1, <1>4, <2>1, StillMoves
  <2>3. CallInv'
    BY <1>2, <1>5, <2>1, FinishFacts, EndsWell
  <2>4. QED
    BY <2>2, <2>3, NothingWaits DEF Shown, Moved, LineInv
<1>7. CASE k # 0
  <2>1. /\ KernelWrite(ids(k)) /\ file' = [file EXCEPT !.off = file.off + k]
        /\ log' = log \o taken(k) /\ GoOn(k)
    BY <1>3, <1>7
  <2>2. k \in Nat /\ k \in 1..Len(s) /\ file.off + k \in Int /\ k \in 0..MaxChunk
    BY <1>1, <1>2, <1>3, <1>7, BoundsAssumption
  <2>3. /\ file'.off = file.off + k /\ file'.buf = <<>> /\ file'.writePtr = 0
        /\ file'.dire = file.dire
    BY <1>1, <1>2, <1>4, <2>1, <2>2 DEF FileOf
  <2> DEFINE q == Queue(k)
  <2>4. /\ q \in Seq(Nat \ {0}) /\ Len(q) = k /\ \A i \in 1..k : q[i] = Len(log) + i
    <3>1. q \in Seq(Nat \ {0}) /\ Len(q) = 0 + k /\ \A i \in 1..k : q[0 + i] = Len(log) + i
      BY <1>1, <1>4, <2>2, QueueFacts
    <3>2. ASSUME NEW i \in 1..k PROVE q[i] = Len(log) + i
      <4>1. 0 + i = i
        OBVIOUS
      <4>2. QED
        BY <3>1, <4>1
    <3>3. QED
      BY <2>2, <3>1, <3>2
  <2>5. q = ids(k)
    <3>1. DOMAIN q = 1..k /\ q \in [1..k -> Nat \ {0}]
      <4> HIDE DEF q
      <4>1. QED
        BY <2>4, LenProperties
    <3>2. q = [i \in 1..k |-> q[i]]
      BY <3>1
    <3> HIDE DEF q
    <3>3. QED
      BY <2>4, <3>2
  <2>6. Written(k, k) = SubSeq(q, 1, Len(q)) /\ Waiting(k, k) = SubSeq(q, k + 1, Len(q))
    BY <2>4 DEF Written, Waiting
  <2> HIDE DEF q
  <2>7. Written(k, k) = ids(k)
    <3>1. SubSeq(q, 1, Len(q)) = q
      BY <2>4, SubSeqFull
    <3>2. QED
      BY <2>5, <2>6, <3>1
  <2>8. k \in 0..Len(Queue(k))
    BY <2>2, <2>4 DEF q
  <2>9. disk' = PutAt(disk, From(k), Written(k, k)) /\ Goes(k)
    BY <1>1, <2>1, <2>2, <2>7, <2>8, KernelMoves
  <2>10. Elems(Waiting(k, k)) = {}
    <3>1. SubSeq(q, k + 1, Len(q)) = <<>>
      BY <2>2, <2>4, SubSeqEmpty
    <3>2. QED
      BY <2>6, <3>1 DEF Elems
  <2>11. taken(k) \in Seq([nl: BOOLEAN, pos: Int]) /\ Len(taken(k)) = k
         /\ \A i \in 1..k : taken(k)[i].pos = file.off + i - 1
    <3>1. \A i \in 1..k : s[i] \in BOOLEAN
      BY <1>2, <2>2, ElementOfSeq
    <3>2. \A i \in 1..k : [nl |-> s[i], pos |-> Tell(file) + i - 1] \in [nl: BOOLEAN, pos: Int]
      BY <1>2, <1>4, <2>2, <3>1
    <3>3. taken(k) \in [1..k -> [nl: BOOLEAN, pos: Int]]
          /\ \A i \in 1..k : taken(k)[i].pos = file.off + i - 1
      BY <1>4, <3>2
    <3> HIDE DEF taken
    <3>4. taken(k) \in Seq([nl: BOOLEAN, pos: Int]) /\ DOMAIN taken(k) = 1..k
      BY <2>2, <3>3, SeqDef
    <3>5. Len(taken(k)) = k
      BY <2>2, <3>4, LenProperties
    <3>6. QED
      BY <3>3, <3>4, <3>5
  <2>12. /\ Len(log') = Len(log) + k /\ \A b \in 1..Len(log) : log'[b] = log[b]
         /\ \A i \in 1..k : log'[Len(log) + i].pos = file.off + Len(file.buf) + i - 1
    <3> DEFINE new == taken(k)
               old == log
               S == [nl: BOOLEAN, pos: Int]
               both == old \o new
    <3>1. /\ old \in Seq(S) /\ new \in Seq(S) /\ Len(new) = k /\ Len(old) \in Nat
          /\ \A i \in 1..k : new[i].pos = file.off + i - 1
      BY <1>2, <2>11
    <3>2. log' = both
      BY <2>1
    <3> HIDE DEF new, old, S
    <3>3. /\ Len(both) = Len(old) + Len(new)
          /\ \A i \in 1..Len(old) + Len(new) : both[i] = IF i <= Len(old) THEN old[i]
                                                         ELSE new[i - Len(old)]
      BY <3>1, ConcatProperties
    <3> HIDE DEF both
    <3>4. Len(log') = Len(old) + k
      BY <3>1, <3>2, <3>3
    <3>5. ASSUME NEW b \in 1..Len(old) PROVE log'[b] = old[b]
      <4>1. b \in 1..Len(old) + Len(new) /\ b <= Len(old)
        BY <2>2, <3>1
      <4>2. QED
        BY <3>2, <3>3, <4>1
    <3>6. ASSUME NEW i \in 1..k PROVE log'[Len(old) + i].pos = file.off + i - 1
      <4>1. /\ Len(old) + i \in 1..Len(old) + Len(new) /\ ~(Len(old) + i <= Len(old))
            /\ (Len(old) + i) - Len(old) = i
        BY <2>2, <3>1
      <4>2. log'[Len(old) + i] = new[i]
        BY <3>2, <3>3, <4>1
      <4>3. QED
        BY <3>1, <4>2
    <3>7. file.off + Len(file.buf) = file.off
      BY <1>2, <1>4
    <3>8. QED
      BY <3>4, <3>5, <3>6, <3>7 DEF old
  <2> HIDE DEF ids, taken
  <2>13. Moves(k, k, FALSE)
    BY <1>1, <2>3, <2>9, <2>10, <2>12 DEF Moves
  <2>14. WriteMove
    BY <2>2, <2>8, <2>9, <2>13 DEF WriteMove
  <2>15. CallInv'
    <3>1. \/ Finish(call.got + k)
          \/ /\ call'.op = call.op /\ call'.got + Len(call'.src) = call'.want
             /\ Len(call'.src) = Len(s) - k
      BY <1>1, <1>2, <2>1, <2>2, GoOnFacts
    <3>2. CASE Finish(call.got + k)
      BY <1>2, <1>5, <2>2, <3>2, FinishFacts, EndsWell
    <3>3. CASE /\ call'.op = call.op /\ call'.got + Len(call'.src) = call'.want
               /\ Len(call'.src) = Len(s) - k
      BY <1>1, <1>2, <1>5, <2>2, <2>3, <3>3, BoundsAssumption DEF CallInv
    <3>4. QED
      BY <3>1, <3>2, <3>3
  <2>16. QED
    BY <2>3, <2>14, <2>15, NothingWaits DEF Shown, Moved, LineInv
<1>8. QED
  BY <1>6, <1>7

LEMMA VfprintfStartShown ==
  ASSUME FullInv, NEW src \in Chunks, VfprintfStart(src)
  PROVE  Shown
<1>1. /\ UNCHANGED <<disk, koff, log, lost, ret, kind, append, seekable, exited>> /\ Ready
      /\ file' = Relaxed(file) /\ Start("vfprintf", src, FALSE)
  BY DEF VfprintfStart, Keep
<1>2. /\ file'.off = file.off /\ file'.buf = file.buf
      /\ file'.dire \in {file.dire, FD_WRITE_RELAXED}
  BY <1>1, ReadyFacts, RelaxedOK
<1>3. WriteMove
  BY <1>1, <1>2, ReadyFacts, StillMoves
<1>4. LineInv'
  <2>1. NlWaits' = NlWaits
    BY <1>1, <1>2 DEF NlWaits
  <2>2. file'.dire = FD_WRITE_LINEBUF => file.dire = FD_WRITE_LINEBUF
    BY <1>2 DEF FD_WRITE_LINEBUF, FD_WRITE_RELAXED
  <2>3. QED
    BY <1>1, <2>1, <2>2, ReadyFacts DEF LineInv
<1>5. CallInv'
  <2>1. /\ call'.op = "vfprintf" /\ call'.src = src /\ call'.want = Len(src) /\ call'.got = 0
        /\ lossy' = FALSE
    BY <1>1 DEF Start
  <2>2. Len(src) \in Nat /\ Len(src) <= MaxChunk
    BY ChunkLen, BoundsAssumption
  <2>3. QED
    BY <2>1, <2>2 DEF CallInv, LossReported
<1>6. QED
  BY <1>3, <1>4, <1>5 DEF Shown, Moved

LEMMA VfprintfByteShown ==
  ASSUME FullInv, VfprintfByte
  PROVE  Shown
<1>1. /\ call.op = "vfprintf" /\ call.src # <<>> /\ UNCHANGED <<kind, append, seekable>>
      /\ lossy' = (lossy \/ Loses) /\ StreamOK /\ ControlOK /\ BytesInv
      /\ call.got + Len(call.src) <= call.want
      /\ lossy => call.got + Len(call.src) < call.want
      /\ Len(call.src) <= MaxChunk
      /\ ~(file.dire = FD_WRITE_LINEBUF /\ NlWaits)
  BY DEF VfprintfByte, Keep, FullInv, IInv, CallInv, LineInv
<1>2. PICK ok \in BOOLEAN :
        /\ Fputc_RP3(Nl, ok)
        /\ call' = [call EXCEPT !.src = Tail(@), !.got = @ + Count(ok)]
  BY DEF VfprintfByte
<1>3. Nl \in BOOLEAN /\ Len(call.src) \in Nat \ {0}
  BY <1>1, HeadType
<1>4. /\ WriteMove /\ (ok => lost' = lost) /\ file'.dire = file.dire
      /\ file.dire = FD_WRITE_LINEBUF /\ NlWaits' => NlWaits
  BY <1>1, <1>2, <1>3, FputcMoves, FputcStep
<1>5. /\ call'.op = "vfprintf" /\ Len(call'.src) = Len(call.src) - 1
      /\ call'.want = call.want /\ call'.got = call.got + Count(ok)
      /\ call.got \in Nat /\ call.want \in Nat /\ Count(ok) = IF ok THEN 1 ELSE 0
  <2> DEFINE rest == Tail(call.src)
  <2>1. /\ call \in [op: Ops, src: Seq(BOOLEAN), want: Nat, got: Nat, puts: BOOLEAN]
        /\ call.src \in Seq(BOOLEAN) /\ call.got \in Nat /\ call.want \in Nat
    BY <1>1 DEF ControlOK
  <2>2. rest \in Seq(BOOLEAN) /\ Len(rest) = Len(call.src) - 1
    BY <1>1, <2>1, HeadTailProperties
  <2>3. Count(ok) \in Nat /\ Count(ok) = IF ok THEN 1 ELSE 0
    BY DEF Count
  <2>4. call' = [call EXCEPT !.src = rest, !.got = call.got + Count(ok)]
    BY <1>2
  <2> HIDE DEF rest
  <2>5. call.got + Count(ok) \in Nat
    BY <2>1, <2>3
  <2>6. /\ call'.op = call.op /\ call'.src = rest /\ call'.want = call.want
        /\ call'.got = call.got + Count(ok)
    BY <2>1, <2>2, <2>4, <2>5
  <2>7. QED
    BY <1>1, <2>1, <2>2, <2>3, <2>6
<1>6. /\ call'.got + Len(call'.src) <= call'.want
      /\ lossy' => call'.got + Len(call'.src) < call'.want
      /\ Len(call'.src) <= MaxChunk
  <2>1. Len(call'.src) <= MaxChunk
    BY <1>1, <1>3, <1>5, BoundsAssumption
  <2>2. CASE ok
    <3>1. lossy' = lossy
      BY <1>1, <1>4, <2>2 DEF Loses, ControlOK
    <3>2. call'.got + Len(call'.src) = call.got + Len(call.src) /\ call'.want = call.want
      BY <1>3, <1>5, <2>2
    <3>3. QED
      BY <1>1, <2>1, <3>1, <3>2
  <2>3. CASE ~ok
    BY <1>1, <1>3, <1>5, <2>1, <2>3
  <2>4. QED
    BY <2>2, <2>3
<1>7. CallInv'
  BY <1>5, <1>6 DEF CallInv, LossReported, Idle
<1>8. LineInv'
  BY <1>1, <1>4 DEF LineInv
<1>9. QED
  BY <1>4, <1>7, <1>8 DEF Shown, Moved

LEMMA VfprintfEndShown ==
  ASSUME FullInv, VfprintfEnd
  PROVE  Shown
<1>1. /\ call.op = "vfprintf" /\ call.src = <<>> /\ UNCHANGED <<kind, append, seekable, log>>
      /\ lossy' = (lossy \/ Loses) /\ StreamOK /\ ControlOK /\ Finish(call.got)
      /\ call.got + Len(call.src) <= call.want
      /\ lossy => call.got + Len(call.src) < call.want
      /\ ~(file.dire = FD_WRITE_LINEBUF /\ NlWaits)
  BY DEF VfprintfEnd, Keep, FullInv, IInv, CallInv, LineInv
<1>2. call.got \in Nat /\ call.want \in Nat /\ (lossy => call.got # call.want)
  <2>1. call.got \in Nat /\ call.want \in Nat /\ Len(call.src) = 0
    BY <1>1, EmptySeq DEF ControlOK
  <2>2. QED
    BY <1>1, <2>1
<1>3. /\ call'.op = "idle" /\ Len(call'.src) = 0
      /\ ret'.op = "fputs" \/ (ret'.op = "vfprintf" /\ (ret'.ok => call.got = call.want))
  BY <1>1, <1>2, FinishFacts
<1>4. CASE file.dire = FD_WRITE_RELAXED
  <2>1. PICK k \in 0..Len(file.buf) :
          /\ KernelWrite(SubSeq(file.buf, 1, k))
          /\ file' = Unrelaxed(Flushed(file, k))
          /\ lost' = lost \union Elems(SubSeq(file.buf, k + 1, Len(file.buf)))
    BY <1>4 DEF VfprintfEnd
  <2>2. StructOK(file, kind) /\ IsAnyWrite(file.dire) /\ kind = "stderr" /\ k \in Nat
    BY <1>1, <1>4, <2>1, StreamFacts DEF StreamOK, StructOK, IsAnyWrite, FD_WRITE_RELAXED
  <2>3. /\ StructOK(Flushed(file, k), kind)
        /\ Flushed(file, k).dire = FD_WRITE_RELAXED
        /\ Flushed(file, k).writePtr = 0 /\ Flushed(file, k).buf = <<>>
    BY <1>4, <2>2, FlushedOK
  <2>4. file'.buf = <<>>
    BY <2>1, <2>3, UnrelaxedOK
  <2>5. WriteMove
    BY <1>1, <2>1, <2>2, <2>4, FlushMoves
  <2>6. LossReported'
    BY <1>1, <1>3, <2>2 DEF LossReported
  <2>7. CallInv'
    BY <1>3, <2>6, EndsWell
  <2>8. QED
    BY <2>4, <2>5, <2>7, NothingWaits DEF Shown, Moved, LineInv
<1>5. CASE file.dire # FD_WRITE_RELAXED
  <2>1. UNCHANGED <<file, disk, koff, lost>>
    BY <1>5 DEF VfprintfEnd
  <2>2. WriteMove /\ NlWaits' = NlWaits
    BY <1>1, <2>1, StillMoves DEF NlWaits
  <2>3. lossy' => lossy
    BY <1>1, <2>1 DEF Loses
  <2>4. LossReported'
    BY <1>2, <1>3, <2>3 DEF LossReported
  <2>5. CallInv'
    BY <1>3, <2>4, EndsWell
  <2>6. QED
    BY <1>1, <2>1, <2>2, <2>5 DEF Shown, Moved, LineInv
<1>6. QED
  BY <1>4, <1>5

LEMMA FflushShown ==
  ASSUME FullInv, Fflush
  PROVE  Shown
<1>1. Ready /\ lossy' = Loses /\ UNCHANGED <<log, call, kind, append, seekable>>
  BY DEF Fflush, Keep
<1>2. PICK ok \in BOOLEAN : Fflush_RP3(ok) /\ Returns("fflush", ok)
  BY DEF Fflush
<1>3. /\ WriteMove /\ (NlWaits' => NlWaits) /\ (ok => lost' = lost)
      /\ file'.dire = file.dire
  BY <1>1, <1>2, ReadyFacts, FflushMoves, FflushStep
<1>4. LossReported'
  <2>1. ret'.ok = ok /\ (lossy' => ~ok)
    BY <1>1, <1>2, <1>3 DEF Returns, Loses
  <2>2. QED
    BY <2>1 DEF LossReported
<1>5. CallInv' /\ LineInv'
  BY <1>1, <1>3, <1>4, ReadyFacts, EndsWell DEF LineInv
<1>6. QED
  BY <1>3, <1>5 DEF Shown, Moved

LEMMA FseekShown ==
  ASSUME FullInv, NEW offset \in Int, NEW whence \in Whences, Fseek(offset, whence)
  PROVE  Shown
<1>1. Ready /\ lossy' = Loses /\ UNCHANGED <<log, call, kind, append, seekable>>
  BY DEF Fseek, Keep
<1>2. CASE Fflush_RP3(FALSE) /\ Returns("fseek", FALSE)
  <2>1. WriteMove /\ (NlWaits' => NlWaits) /\ file'.dire = file.dire
    BY <1>1, <1>2, ReadyFacts, FflushMoves, FflushStep
  <2>2. LossReported'
    BY <1>2 DEF LossReported, Returns
  <2>3. CallInv' /\ LineInv'
    BY <1>1, <2>1, <2>2, ReadyFacts, EndsWell DEF LineInv
  <2>4. QED
    BY <2>1, <2>3 DEF Shown, Moved
<1>3. CASE IsAnyWrite(file.dire) /\ ~(Fflush_RP3(FALSE) /\ Returns("fseek", FALSE))
  <2> DEFINE b == file.buf
             at == WriteOff(file.buf) + Len(file.buf)
             flushed == PutAt(disk, WriteOff(file.buf), file.buf)
             target == offset + (CASE whence = "SEEK_SET" -> 0
                                   [] whence = "SEEK_CUR" -> at
                                   [] whence = "SEEK_END" -> Len(flushed))
             f == Flushed(file, Len(file.buf))
  <2>1. /\ lost' = lost /\ disk' = flushed
        /\ IF seekable /\ target >= 0
             THEN koff' = target /\ file' = [f EXCEPT !.off = target]
             ELSE koff' = at /\ file' = f
    BY <1>3 DEF Fseek
  <2>2. /\ StructOK(file, kind) /\ b \in Seq(Nat \ {0}) /\ b \in Seq(Nat) /\ Len(b) \in Nat
        /\ disk \in Seq(Nat) /\ koff \in Nat /\ Len(disk) \in Nat
    BY <1>1, ReadyFacts, StreamFacts, ElemsType DEF StreamOK
  <2>3. StructOK(f, kind) /\ f.buf = <<>>
    BY <1>3, <2>2, FlushedOK
  <2>4. at \in Nat /\ Len(flushed) \in Nat
    <3>1. WriteOff(file.buf) \in Nat
      BY <2>2 DEF WriteOff
    <3>2. flushed \in Seq(Nat)
      BY <2>2, <3>1, PutAtType
    <3>3. QED
      BY <2>2, <3>1, <3>2, LenProperties
  <2>5. target \in Int
    <3> HIDE DEF at, flushed
    <3>1. QED
      BY <2>4 DEF Whences
  <2> HIDE DEF target, f
  <2>6. file'.buf = <<>>
    <3>1. f \in FileOf(Nat \ {0})
      BY <2>3 DEF StructOK
    <3>2. CASE seekable /\ target >= 0
      BY <2>1, <2>3, <2>5, <3>1, <3>2 DEF FileOf
    <3>3. CASE ~(seekable /\ target >= 0)
      BY <2>1, <2>3, <3>3
    <3>4. QED
      BY <3>2, <3>3
  <2>7. SubSeq(b, 1, Len(b)) = b /\ Elems(SubSeq(b, Len(b) + 1, Len(b))) = {}
    <3> HIDE DEF b
    <3>1. SubSeq(b, 1, Len(b)) = b
      BY <2>2, SubSeqFull
    <3>2. SubSeq(b, Len(b) + 1, Len(b)) = <<>>
      BY <2>2, SubSeqEmpty
    <3>3. QED
      BY <3>1, <3>2 DEF Elems
  <2>8. lost' = lost \union Elems(SubSeq(b, Len(b) + 1, Len(b))) /\ Len(b) \in 0..Len(b)
    BY <2>1, <2>2, <2>7
  <2>9. Moved
    <3>1. CASE seekable /\ target >= 0
      <4>1. Queue(0) = b
        BY ReadyFacts, <1>1, QueueZero
      <4>2. Written(0, Len(b)) = b /\ Elems(Waiting(0, Len(b))) = {}
        BY <2>7, <4>1 DEF Written, Waiting
      <4>3. WriteOff(b) = From(Len(b))
        <5>1. b = <<>> <=> Len(b) = 0
          BY <2>2, EmptySeq
        <5>2. QED
          BY <2>2, <5>1 DEF WriteOff, From
      <4>4. disk' = PutAt(disk, From(Len(b)), Written(0, Len(b)))
        BY <2>1, <4>2, <4>3
      <4>5. Len(log') = Len(log) + 0 /\ \A i \in 1..Len(log) : log'[i] = log[i]
        BY <1>1, ReadyFacts, StreamFacts
      <4>6. \A i \in 1..0 : log'[Len(log) + i].pos = file.off + Len(file.buf) + i - 1
        OBVIOUS
      <4>7. lost' = lost \union Elems(Waiting(0, Len(b)))
        BY <2>1, <4>2
      <4>8. Moves(0, Len(b), FALSE)
        BY <1>1, <1>3, <2>6, <4>4, <4>5, <4>6, <4>7 DEF Moves
      <4>9. koff' \in Nat
        BY <2>1, <2>5, <3>1
      <4>10. QED
        BY <3>1, <4>8, <4>9 DEF Moved, SeekMove
    <3>2. CASE ~(seekable /\ target >= 0)
      <4>1. KernelWrite(SubSeq(b, 1, Len(b)))
        BY <2>1, <2>7, <3>2 DEF KernelWrite
      <4>2. WriteMove
        BY <1>1, <1>3, <2>6, <2>8, <4>1, ReadyFacts, FlushMoves
      <4>3. QED
        BY <4>2 DEF Moved
    <3>3. QED
      BY <3>1, <3>2
  <2>10. LossReported'
    BY <1>1, <2>1 DEF LossReported, Loses
  <2>11. CallInv' /\ LineInv'
    BY <1>1, <2>6, <2>10, ReadyFacts, EndsWell, NothingWaits DEF LineInv
  <2>12. QED
    BY <2>9, <2>11 DEF Shown
<1>4. QED
  BY <1>2, <1>3 DEF Fseek

\* The flush and close of fclose and of a freopen that fails.
LEMMA ClosingShown ==
  ASSUME FullInv, Ready, UNCHANGED <<log, call, kind, append, seekable>>, lossy' = Loses,
         \/ UNCHANGED <<file, disk, koff, lost>>
         \/ /\ IsAnyWrite(file.dire)
            /\ \E k \in 0..Len(file.buf) :
                 /\ KernelWrite(SubSeq(file.buf, 1, k))
                 /\ file' = Closed(Flushed(file, k))
                 /\ lost' = lost \union Elems(SubSeq(file.buf, k + 1, Len(file.buf)))
                 /\ ret'.ok => k = Len(file.buf)
  PROVE  Shown
<1>1. /\ StreamOK /\ ControlOK /\ file.dire # FD_WRITE_RELAXED
      /\ ~(file.dire = FD_WRITE_LINEBUF /\ NlWaits)
      /\ call'.op = "idle" /\ Len(call'.src) = 0
  BY ReadyFacts
<1>2. CASE UNCHANGED <<file, disk, koff, lost>>
  <2>1. WriteMove /\ NlWaits' = NlWaits
    BY <1>1, <1>2, StillMoves DEF NlWaits
  <2>2. LossReported'
    BY <1>2 DEF LossReported, Loses
  <2>3. CallInv'
    BY <1>1, <2>2, EndsWell
  <2>4. LineInv'
    BY <1>1, <1>2, <2>1 DEF LineInv
  <2>5. QED
    BY <2>1, <2>3, <2>4 DEF Shown, Moved
<1>3. CASE /\ IsAnyWrite(file.dire)
           /\ \E k \in 0..Len(file.buf) :
                /\ KernelWrite(SubSeq(file.buf, 1, k))
                /\ file' = Closed(Flushed(file, k))
                /\ lost' = lost \union Elems(SubSeq(file.buf, k + 1, Len(file.buf)))
                /\ ret'.ok => k = Len(file.buf)
  <2> DEFINE b == file.buf
  <2>1. PICK k \in 0..Len(b) :
               /\ KernelWrite(SubSeq(b, 1, k))
               /\ file' = Closed(Flushed(file, k))
               /\ lost' = lost \union Elems(SubSeq(b, k + 1, Len(b)))
               /\ ret'.ok => k = Len(b)
    BY <1>3
  <2>2. StructOK(file, kind) /\ b \in Seq(Nat \ {0}) /\ Len(b) \in Nat /\ k \in Nat
    BY <1>1, <2>1, StreamFacts DEF StreamOK
  <2>3. /\ StructOK(Flushed(file, k), kind) /\ Flushed(file, k).buf = <<>>
        /\ Flushed(file, k).dire = file.dire
    BY <1>3, <2>2, FlushedOK
  <2>4. StructOK(file', kind) /\ file'.dire = FD_CLOSED
    BY <1>1, <2>1, <2>3, ClosedOK
  <2>5. file'.buf = <<>>
    BY <2>4 DEF StructOK
  <2>6. WriteMove
    BY <1>1, <1>3, <2>1, <2>5, FlushMoves
  <2>7. LossReported'
    <3>1. CASE k = Len(b)
      <4>1. SubSeq(b, Len(b) + 1, Len(b)) = <<>>
        BY <2>2, SubSeqEmpty
      <4>2. lost' = lost
        BY <2>1, <3>1, <4>1 DEF Elems
      <4>3. QED
        BY <4>2 DEF LossReported, Loses
    <3>2. CASE k # Len(b)
      BY <2>1, <3>2 DEF LossReported
    <3>3. QED
      BY <3>1, <3>2
  <2>8. CallInv'
    BY <1>1, <2>7, EndsWell
  <2>9. QED
    BY <2>5, <2>6, <2>8, NothingWaits DEF Shown, Moved, LineInv
<1>4. QED
  BY <1>2, <1>3

LEMMA FcloseShown ==
  ASSUME FullInv, Fclose
  PROVE  Shown
<1>1. Ready /\ UNCHANGED <<log, call, kind, append, seekable>> /\ lossy' = Loses
  BY DEF Fclose, Keep
<1>2. CASE file.dire = FD_CLOSED /\ UNCHANGED <<file, disk, koff, lost>>
  BY <1>1, <1>2, ClosingShown
<1>3. CASE /\ IsAnyWrite(file.dire)
           /\ \E k \in 0..Len(file.buf) :
                /\ KernelWrite(SubSeq(file.buf, 1, k))
                /\ file' = Closed(Flushed(file, k))
                /\ lost' = lost \union Elems(SubSeq(file.buf, k + 1, Len(file.buf)))
                /\ Returns("fclose", k = Len(file.buf))
  <2>1. PICK k \in 0..Len(file.buf) :
               /\ KernelWrite(SubSeq(file.buf, 1, k))
               /\ file' = Closed(Flushed(file, k))
               /\ lost' = lost \union Elems(SubSeq(file.buf, k + 1, Len(file.buf)))
               /\ Returns("fclose", k = Len(file.buf))
    BY <1>3
  <2>2. ret'.ok => k = Len(file.buf)
    <3>1. ret'.ok = (k = Len(file.buf))
      BY <2>1 DEF Returns
    <3>2. QED
      BY <3>1
  <2>3. QED
    BY <1>1, <1>3, <2>1, <2>2, ClosingShown
<1>4. QED
  BY <1>2, <1>3 DEF Fclose

LEMMA FreopenShown ==
  ASSUME FullInv, NEW mode \in {"w", "a"}, Freopen(mode)
  PROVE  Shown
<1>1. Ready /\ UNCHANGED <<kind, exited, call>>
  BY DEF Freopen
<1>2. CASE FreopenOpens(mode)
  <2>1. /\ disk' = <<>> /\ koff' = 0 /\ log' = <<>> /\ lost' = {} /\ lossy' = FALSE
        /\ file' = Opened(Closed(Flushed(file, 0)), FD_WRITE)
    BY <1>2 DEF FreopenOpens
  <2>2. append' \in BOOLEAN
    BY <1>2, Zenon DEF FreopenOpens
  <2>3. file'.buf = <<>>
    BY <1>1, <2>1, ReadyFacts, ReopenedOK
  <2>4. OpenMove
    BY <1>1, <2>1, <2>2, <2>3 DEF OpenMove
  <2>5. LossReported'
    BY <2>1 DEF LossReported
  <2>6. CallInv'
    BY <1>1, <2>5, ReadyFacts, EndsWell
  <2>7. QED
    BY <2>3, <2>4, <2>6, NothingWaits DEF Shown, Moved, LineInv
<1>3. CASE FreopenFails
  <2>1. /\ lossy' = Loses /\ UNCHANGED <<append, seekable, log>>
        /\ Returns("freopen", FALSE)
    BY <1>3 DEF FreopenFails
  <2>2. ~ret'.ok
    BY <2>1 DEF Returns
  <2>3. CASE file.dire = FD_CLOSED
    <3>1. UNCHANGED <<file, disk, koff, lost>>
      BY <1>3, <2>3 DEF FreopenFails
    <3>2. QED
      BY <1>1, <2>1, <3>1, ClosingShown
  <2>4. CASE file.dire # FD_CLOSED
    <3>1. PICK k \in 0..Len(file.buf) :
            /\ KernelWrite(SubSeq(file.buf, 1, k))
            /\ file' = Closed(Flushed(file, k))
            /\ lost' = lost \union Elems(SubSeq(file.buf, k + 1, Len(file.buf)))
      BY <1>3, <2>4 DEF FreopenFails
    <3>2. IsAnyWrite(file.dire)
      BY <1>1, <2>4, ReadyFacts, WrittenOrClosed
    <3>3. QED
      BY <1>1, <2>1, <2>2, <3>1, <3>2, ClosingShown
  <2>5. QED
    BY <2>3, <2>4
<1>4. QED
  BY <1>2, <1>3 DEF Freopen

LEMMA ExitShown ==
  ASSUME FullInv, Exit
  PROVE  Shown
<1>1. /\ Ready /\ UNCHANGED <<log, call, kind, append, seekable>>
      /\ Returns("exit", TRUE)
  BY DEF Exit
<1>2. WriteMove /\ (NlWaits' => NlWaits) /\ file'.dire = file.dire
  <2>1. CASE kind = "stderr"
    <3>1. UNCHANGED <<file, disk, koff, lost>>
      BY <2>1 DEF Exit
    <3>2. QED
      BY <1>1, <3>1, ReadyFacts, StillMoves DEF NlWaits
  <2>2. CASE kind # "stderr"
    <3>1. PICK ok \in BOOLEAN : Fflush_RP3(ok)
      BY <2>2 DEF Exit
    <3>2. QED
      BY <1>1, <3>1, ReadyFacts, FflushMoves, FflushStep
  <2>3. QED
    BY <2>1, <2>2
<1>3. LossReported'
  BY <1>1 DEF LossReported, Returns
<1>4. CallInv' /\ LineInv'
  BY <1>1, <1>2, <1>3, ReadyFacts, EndsWell DEF LineInv
<1>5. QED
  BY <1>2, <1>4 DEF Shown, Moved

-----------------------------------------------------------------------------
(* The invariant, and the theorems. *)

LEMMA MovedKeepsBytes ==
  ASSUME StreamOK, StreamOK', BytesInv, Moved
  PROVE  BytesInv'
<1>1. CASE WriteMove
  <2>1. PICK n \in 0..MaxChunk : \E k \in 0..Len(Queue(n)), keep \in BOOLEAN :
               Moves(n, k, keep) /\ Goes(k)
    BY <1>1 DEF WriteMove
  <2>2. PICK k \in 0..Len(Queue(n)), keep \in BOOLEAN : Moves(n, k, keep) /\ Goes(k)
    BY <2>1
  <2>3. n \in Nat
    BY <2>1, BoundsAssumption
  <2>4. QED
    BY <2>2, <2>3, MovesBytes
<1>2. CASE SeekMove
  <2>1. Len(file.buf) \in 0..Len(Queue(0))
    BY QueueZero, StreamFacts
  <2>2. Moves(0, Len(file.buf), FALSE) /\ seekable
    BY <1>2 DEF SeekMove
  <2>3. QED
    BY <2>1, <2>2, MovesBytes
<1>3. CASE OpenMove
  <2>1. /\ disk' = <<>> /\ koff' = 0 /\ file'.buf = <<>> /\ log' = <<>>
        /\ Len(<<>>) = 0
    BY <1>3, EmptySeq DEF OpenMove
  <2>2. Len(disk') = 0 /\ Len(file'.buf) = 0 /\ DOMAIN disk' = {} /\ DOMAIN log' = {}
    BY <2>1
  <2>3. BufferedOK' /\ DiskOK'
    BY <2>1, <2>2 DEF BufferedOK, DiskOK
  <2>4. PlacedWhereTold' /\ Conserved'
    BY <2>2 DEF PlacedWhereTold, Conserved
  <2>5. QED
    BY <2>3, <2>4 DEF BytesInv
<1>4. QED
  BY <1>1, <1>2, <1>3 DEF Moved

LEMMA InitFull == Init => FullInv
<1> SUFFICES ASSUME Init PROVE FullInv
  OBVIOUS
<1>1. IInv
  BY InitIInv
<1>2. /\ file = InitialStruct(kind) /\ disk = <<>> /\ koff = 0 /\ log = <<>>
      /\ call = Idle /\ lossy = FALSE
  BY DEF Init
<1>3. file.buf = <<>> /\ Len(<<>>) = 0 /\ DOMAIN disk = {} /\ DOMAIN log = {}
  BY <1>2, EmptySeq DEF InitialStruct
<1>4. Len(file.buf) = 0 /\ Len(disk) = 0
  BY <1>2, <1>3
<1>5. BytesInv
  BY <1>2, <1>3, <1>4 DEF BytesInv, BufferedOK, DiskOK, PlacedWhereTold, Conserved
<1>6. LineInv
  BY <1>4 DEF LineInv, NlWaits
<1>7. CallInv
  <2>1. call.op = "idle" /\ Len(call.src) = 0
    BY <1>2, EmptySeq DEF Idle
  <2>2. QED
    BY <1>2, <2>1, BoundsAssumption DEF CallInv, LossReported
<1>8. QED
  BY <1>1, <1>5, <1>6, <1>7 DEF FullInv

LEMMA NextShown ==
  ASSUME FullInv, Next
  PROVE  Shown
<1>1. ASSUME NEW nl \in BOOLEAN, Fputc(nl) PROVE Shown
  BY <1>1, FputcShown
<1>2. ASSUME NEW src \in Chunks,
             VfprintfStart(src) \/ Fwrite(src) \/ Fputs(src)
      PROVE  Shown
  BY <1>2, FwriteStartShown, VfprintfStartShown DEF Fwrite, Fputs
<1>3. CASE FwriteStep
  BY <1>3, FwriteLineShown, FwriteCopyShown, FwriteFlushShown, FwriteDirectShown
     DEF FwriteStep
<1>4. CASE VfprintfStep
  BY <1>4, VfprintfByteShown, VfprintfEndShown DEF VfprintfStep
<1>5. CASE Fflush
  BY <1>5, FflushShown
<1>6. ASSUME NEW offset \in Offsets, NEW whence \in Whences, Fseek(offset, whence)
      PROVE  Shown
  <2>1. offset \in Int
    BY <1>6, BoundsAssumption DEF Offsets
  <2>2. QED
    BY <1>6, <2>1, FseekShown
<1>7. CASE Fclose
  BY <1>7, FcloseShown
<1>8. ASSUME NEW mode \in {"w", "a"}, Freopen(mode) PROVE Shown
  BY <1>8, FreopenShown
<1>9. CASE Exit
  BY <1>9, ExitShown
<1>10. QED
  BY <1>1, <1>2, <1>3, <1>4, <1>5, <1>6, <1>7, <1>8, <1>9 DEF Next

LEMMA NextKeepsFull ==
  ASSUME FullInv, [Next]_vars
  PROVE  FullInv'
<1>1. CASE Next
  <2>1. IInv'
    BY <1>1, NextKeeps DEF FullInv
  <2>2. Moved /\ CallInv' /\ LineInv'
    BY <1>1, NextShown DEF Shown
  <2>3. BytesInv'
    BY <2>1, <2>2, MovedKeepsBytes DEF FullInv, IInv
  <2>4. QED
    BY <2>1, <2>2, <2>3 DEF FullInv
<1>2. CASE UNCHANGED vars
  <2>1. IInv'
    BY <1>2, NextKeeps DEF FullInv
  <2>2. BytesInv'
    BY <1>2 DEF FullInv, BytesInv, BufferedOK, DiskOK, PlacedWhereTold, Conserved, vars
  <2>3. CallInv' /\ LineInv'
    BY <1>2 DEF FullInv, CallInv, LossReported, LineInv, NlWaits, vars
  <2>4. QED
    BY <2>1, <2>2, <2>3 DEF FullInv
<1>3. QED
  BY <1>1, <1>2

LEMMA FullInvAlways == Spec => []FullInv
<1>1. FullInv /\ [Next]_vars => FullInv'
  BY NextKeepsFull
<1>2. QED
  BY <1>1, InitFull, PTL DEF Spec

\* Bytes go where ftell said, in order and once; none vanishes without a word
\* of the call; a line-buffered or unbuffered stream does not hold them back:
\* for every buffer size, whatever the kernel takes of a write.
THEOREM BytesAccountedHolds == Spec => []BytesAccounted
<1>1. ASSUME FullInv PROVE BytesAccounted
  <2>1. /\ StreamOK /\ CallOK /\ BufferedOK /\ DiskOK /\ PlacedWhereTold /\ Conserved
        /\ LossReported /\ LineInv
    BY <1>1 DEF FullInv, IInv, BytesInv, CallInv
  <2>2. /\ DOMAIN file.buf = 1..Len(file.buf) /\ DOMAIN disk = 1..Len(disk)
        /\ file.buf \in Seq(Nat \ {0}) /\ disk \in Seq(Nat) /\ Len(file.buf) \in Nat
    BY <2>1, StreamFacts, LenProperties
  <2>3. WrittenOnceInOrder
    <3>1. \A i, j \in DOMAIN file.buf : i < j => file.buf[i] < file.buf[j]
      BY <2>1, <2>2 DEF BufferedOK
    <3>2. ASSUME NEW b \in Elems(file.buf), NEW d \in Elems(disk) PROVE d < b
      <4>1. PICK i \in 1..Len(file.buf) : file.buf[i] = b
        BY <2>2, ElemsOf
      <4>2. PICK j \in 1..Len(disk) : disk[j] = d
        BY <2>2, ElemsOf
      <4>3. file.buf[i] \in Nat \ {0} /\ disk[j] \in Nat
        BY <2>2, ElementOfSeq
      <4>4. QED
        BY <2>1, <4>1, <4>2, <4>3 DEF DiskOK
    <3>3. \A i, j \in DOMAIN disk : i # j /\ disk[i] # 0 => disk[i] # disk[j]
      BY <2>1, <2>2 DEF DiskOK
    <3>4. QED
      BY <3>1, <3>2, <3>3 DEF WrittenOnceInOrder
  <2>4. LinesDelivered
    <3>1. SUFFICES ASSUME call = Idle, file.dire = FD_WRITE_LINEBUF, NEW b \in Elems(file.buf)
                   PROVE  ~log[b].nl
      BY DEF LinesDelivered
    <3>2. PICK i \in 1..Len(file.buf) : file.buf[i] = b
      BY <2>2, ElemsOf
    <3>3. call.op = "idle"
      BY <3>1 DEF Idle
    <3>4. ~NlWaits
      BY <2>1, <3>1, <3>3 DEF LineInv
    <3>5. QED
      BY <3>2, <3>4 DEF NlWaits
  <2>5. StderrHoldsNothing
    <3>1. SUFFICES ASSUME kind = "stderr", call = Idle
                   PROVE  file.buf = <<>> /\ file.bufEnd = 0
      BY DEF StderrHoldsNothing
    <3>2. call.op = "idle"
      BY <3>1 DEF Idle
    <3>3. StructOK(file, kind) /\ file.dire # FD_WRITE_RELAXED
      BY <2>1, <3>2 DEF StreamOK, CallOK
    <3>4. file.bufEnd = 0 /\ file.writePtr = 0
      BY <3>1, <3>3 DEF StructOK, FileOf
    <3>5. Len(file.buf) = 0 \/ file.buf = <<>>
      BY <2>1, <3>3, <3>4, WrittenOrClosed DEF StructOK
    <3>6. QED
      BY <2>2, <3>4, <3>5, EmptySeq
  <2>6. QED
    BY <2>1, <2>3, <2>4, <2>5 DEF BytesAccounted
<1>2. QED
  BY <1>1, FullInvAlways, PTL

\* The stream is an OutStream: its steps are writes, moves and openings of one.
THEOREM PromiseKeptHolds == Spec => PromiseKept
<1>1. ASSUME Init PROVE Promise!Init
  <2>1. /\ disk = <<>> /\ koff = 0 /\ log = <<>> /\ file = InitialStruct(kind)
    BY <1>1 DEF Init
  <2>2. append \in BOOLEAN
    BY <1>1, InitIInv, Zenon DEF IInv, ControlOK
  <2>3. file.buf = <<>> /\ Len(log) = 0
    BY <2>1, EmptySeq DEF InitialStruct
  <2>4. QED
    BY <2>1, <2>2, <2>3 DEF Promise!Init
<1>2. ASSUME FullInv, FullInv', [Next]_vars PROVE [Promise!Next]_(Promise!vars)
  <2>1. CASE UNCHANGED vars
    BY <2>1 DEF vars, Promise!vars
  <2>2. CASE WriteMove
    <3>1. PICK n \in 0..MaxChunk : \E k \in 0..Len(Queue(n)), keep \in BOOLEAN :
                 Moves(n, k, keep) /\ Goes(k)
      BY <2>2 DEF WriteMove
    <3>2. PICK k \in 0..Len(Queue(n)), keep \in BOOLEAN : Moves(n, k, keep) /\ Goes(k)
      BY <3>1
    <3>3. Len(file'.buf) <= BufSize
      <4>1. StreamOK' /\ StructOK(file', kind')
        BY <1>2 DEF FullInv, IInv, StreamOK
      <4>2. IsAnyWrite(file'.dire) \/ file'.dire = FD_CLOSED
        BY <4>1 DEF StructOK, FileOf, Dires, IsAnyWrite, FD_CLOSED, FD_READ,
          FD_READ_LINEBUF, FD_WRITE, FD_WRITE_RELAXED, FD_WRITE_LINEBUF
      <4>3. file'.bufEnd <= BufSize /\ file'.writePtr \in Nat /\ file'.bufEnd \in Nat
            /\ file'.writePtr <= file'.bufEnd
        BY <4>1, BufSizeAssumption DEF StructOK, FileOf
      <4>4. CASE IsAnyWrite(file'.dire)
        BY <4>1, <4>3, <4>4, BufSizeAssumption DEF StructOK
      <4>5. CASE file'.dire = FD_CLOSED
        <5>1. Len(file'.buf) = 0
          BY <4>1, <4>5, EmptySeq DEF StructOK
        <5>2. QED
          BY <5>1, BufSizeAssumption
      <4>6. QED
        BY <4>2, <4>4, <4>5
    <3>4. /\ disk' = PutAt(disk, From(k), Written(n, k)) /\ koff' = From(k) + k
          /\ file'.buf = IF keep THEN Waiting(n, k) ELSE <<>>
          /\ Len(log') = Len(log) + n /\ append' = append
      BY <3>2 DEF Moves, Goes
    <3>5. Promise!Emit(Queue(n), k)
      BY <3>4, Zenon DEF Promise!Emit, Promise!PutAt, PutAt, From, Written
    <3>6. \/ file'.buf = SubSeq(Queue(n), k + 1, Len(Queue(n))) /\ Len(file'.buf) <= BufSize
          \/ file'.buf = <<>>
      BY <3>3, <3>4 DEF Waiting
    <3>7. Promise!Write
      BY <3>4, <3>5, <3>6 DEF Promise!Write, Queue
    <3>8. QED
      BY <3>7 DEF Promise!Next
  <2>3. CASE SeekMove
    <3> DEFINE b == file.buf
    <3>1. StreamOK /\ Queue(0) = b /\ b \in Seq(Nat \ {0}) /\ Len(b) \in Nat
      BY <1>2, QueueZero, StreamFacts DEF FullInv, IInv
    <3>2. /\ disk' = PutAt(disk, From(Len(b)), Written(0, Len(b)))
          /\ file'.buf = <<>> /\ Len(log') = Len(log) + 0 /\ append' = append
          /\ koff' \in Nat
      BY <2>3 DEF SeekMove, Moves
    <3>3. SubSeq(b, 1, Len(b)) = b /\ (b = <<>> <=> Len(b) = 0)
      <4> HIDE DEF b
      <4>1. QED
        BY <3>1, SubSeqFull, EmptySeq
    <3>4. Written(0, Len(b)) = b
      BY <3>1, <3>3 DEF Written
    <3>5. From(Len(b)) = IF append /\ b # <<>> THEN Len(disk) ELSE koff
      BY <3>1, <3>3 DEF From
    <3>6. Len(log') = Len(log)
      BY <3>1, <3>2, StreamFacts
    <3>7. Promise!Seek
      <4>1. /\ disk' = PutAt(disk, IF append /\ b # <<>> THEN Len(disk) ELSE koff, b)
            /\ koff' \in Nat /\ file'.buf = <<>> /\ append' = append
        BY <3>2, <3>4, <3>5
      <4>2. QED
        BY <3>6, <4>1, Zenon DEF Promise!Seek, Promise!PutAt, PutAt
    <3>8. QED
      BY <3>7 DEF Promise!Next
  <2>4. CASE OpenMove
    <3>1. Len(log') = 0
      BY <2>4, EmptySeq DEF OpenMove
    <3>2. Promise!Open
      BY <2>4, <3>1, Zenon DEF Promise!Open, OpenMove
    <3>3. QED
      BY <3>2 DEF Promise!Next
  <2>5. QED
    BY <1>2, <2>1, <2>2, <2>3, <2>4, NextShown DEF Shown, Moved
<1>3. QED
  BY <1>1, <1>2, FullInvAlways, PTL DEF Spec, PromiseKept, Promise!Spec

=============================================================================
