---------------------------- MODULE StdioInProofs ----------------------------
(***************************************************************************)
(* Proofs about StdioIn, for every buffer size and every bound: the struct *)
(* invariant, ftell, what is read ahead and pushed back, what a seek and   *)
(* an end of file mean, and that the stream is an InStream.                *)
(***************************************************************************)
EXTENDS StdioIn, SequenceTheorems, TLAPS

\* The part of the invariant that is about the struct alone.
InStruct(f) ==
  /\ f \in FileOf(Byte)
  /\ f.dire \in {FD_CLOSED, FD_READ, FD_READ_LINEBUF}
  /\ f.readPtr <= f.last /\ f.last <= f.bufEnd /\ f.bufEnd <= f.capEnd
  /\ Len(f.buf) = f.last
  /\ f.writePtr = f.bufEnd
  /\ f.dire = FD_CLOSED => f.readPtr = f.last

\* The struct and the file behind it.
StreamInv ==
  /\ InStruct(file)
  /\ disk \in Seq(Byte) /\ koff \in Nat /\ back \in Nat
  /\ strayed \in BOOLEAN /\ seekable \in BOOLEAN
  /\ back <= file.last - file.readPtr
  /\ file.last <= koff
  /\ ReadAheadIsFile
  /\ OffsetTracks

\* A call in progress wants more than it has, and fgets has not met a newline.
CallInv ==
  /\ call \in [op: Ops, want: Nat, got: Seq(Byte)]
  /\ call.op = "idle" => call = Idle
  /\ call.op # "idle" => Len(call.got) < call.want
  /\ call.op = "fgets" => \A i \in 1..Len(call.got) : call.got[i] # NL

\* What the last call has answered.
RetInv ==
  /\ ret \in [op: Calls, want: Nat, got: Seq(Byte), why: Whys]
  /\ LineShape
  /\ UngetcAfterGetc

IInv == StreamInv /\ CallInv /\ RetInv

-----------------------------------------------------------------------------
(* What the helpers do to a struct that is read. *)

LEMMA DireFacts ==
  /\ FD_CLOSED # FD_READ /\ FD_CLOSED # FD_READ_LINEBUF
  /\ IsAnyRead(FD_READ) /\ IsAnyRead(FD_READ_LINEBUF) /\ ~IsAnyRead(FD_CLOSED)
  /\ {FD_CLOSED, FD_READ, FD_READ_LINEBUF} \subseteq Dires
BY DEF FD_CLOSED, FD_READ, FD_READ_LINEBUF, IsAnyRead, Dires

LEMMA OffsetOK ==
  ASSUME NEW f, InStruct(f), NEW o \in Int, NEW g, g = [f EXCEPT !.off = o]
  PROVE  /\ InStruct(g)
         /\ g.dire = f.dire /\ g.bufEnd = f.bufEnd /\ g.off = o
         /\ g.last = f.last /\ g.readPtr = f.readPtr /\ g.buf = f.buf
<1>1. f \in FileOf(Byte)
  BY DEF InStruct
<1>2. /\ g \in FileOf(Byte)
      /\ g.dire = f.dire /\ g.bufEnd = f.bufEnd /\ g.capEnd = f.capEnd /\ g.off = o
      /\ g.last = f.last /\ g.readPtr = f.readPtr /\ g.buf = f.buf /\ g.writePtr = f.writePtr
  BY <1>1 DEF FileOf
<1>3. QED
  BY <1>2 DEF InStruct

LEMMA DiscardedOK ==
  ASSUME NEW f, InStruct(f), IsAnyRead(f.dire)
  PROVE  /\ InStruct(DiscardBuf(f))
         /\ DiscardBuf(f).dire = f.dire /\ DiscardBuf(f).bufEnd = f.bufEnd
         /\ DiscardBuf(f).off = f.off
         /\ DiscardBuf(f).last = 0 /\ DiscardBuf(f).readPtr = 0
         /\ DiscardBuf(f).buf = <<>>
<1> DEFINE g == [f EXCEPT !.last = 0, !.readPtr = 0, !.buf = <<>>, !.writePtr = f.bufEnd]
<1>1. DiscardBuf(f) = g
  BY DEF DiscardBuf
<1>2. f \in FileOf(Byte) /\ <<>> \in Seq(Byte) /\ Len(<<>>) = 0
  BY EmptySeq DEF InStruct
<1>3. /\ g \in FileOf(Byte)
      /\ g.dire = f.dire /\ g.bufEnd = f.bufEnd /\ g.capEnd = f.capEnd /\ g.off = f.off
      /\ g.last = 0 /\ g.readPtr = 0 /\ g.buf = <<>> /\ g.writePtr = f.bufEnd
  BY <1>2 DEF FileOf
<1> HIDE DEF g
<1>4. InStruct(g)
  BY <1>2, <1>3 DEF InStruct, FileOf
<1>5. QED
  BY <1>1, <1>3, <1>4

LEMMA AdvancedOK ==
  ASSUME NEW f, InStruct(f), f.readPtr # f.last
  PROVE  /\ InStruct(Advanced(f))
         /\ Advanced(f).dire = f.dire /\ Advanced(f).bufEnd = f.bufEnd
         /\ Advanced(f).off = f.off /\ Advanced(f).last = f.last
         /\ Advanced(f).buf = f.buf /\ Advanced(f).readPtr = f.readPtr + 1
<1> DEFINE g == [f EXCEPT !.readPtr = f.readPtr + 1]
<1>1. Advanced(f) = g
  BY DEF Advanced
<1>2. f \in FileOf(Byte) /\ f.readPtr + 1 \in Nat /\ f.readPtr + 1 <= f.last
  BY DEF InStruct, FileOf
<1>3. /\ g \in FileOf(Byte)
      /\ g.dire = f.dire /\ g.bufEnd = f.bufEnd /\ g.capEnd = f.capEnd /\ g.off = f.off
      /\ g.last = f.last /\ g.readPtr = f.readPtr + 1 /\ g.buf = f.buf
      /\ g.writePtr = f.writePtr
  BY <1>2 DEF FileOf
<1> HIDE DEF g
<1>4. InStruct(g)
  BY <1>2, <1>3 DEF InStruct
<1>5. QED
  BY <1>1, <1>3, <1>4

LEMMA FilledOK ==
  ASSUME NEW f, InStruct(f), IsAnyRead(f.dire), f.last = 0, f.readPtr = 0, f.buf = <<>>,
         NEW bs \in Seq(Byte), Len(bs) <= f.bufEnd
  PROVE  /\ InStruct(Filled(f, bs))
         /\ Filled(f, bs).dire = f.dire /\ Filled(f, bs).bufEnd = f.bufEnd
         /\ Filled(f, bs).off = f.off /\ Filled(f, bs).last = Len(bs)
         /\ Filled(f, bs).buf = bs /\ Filled(f, bs).readPtr = 0
<1> DEFINE g == [f EXCEPT !.last = Len(bs), !.buf = bs]
<1>1. Len(bs) \in Nat /\ <<>> \o bs = bs /\ 0 + Len(bs) = Len(bs) /\ f \in FileOf(Byte)
  BY LenProperties, ConcatEmptySeq DEF InStruct
<1>2. Filled(f, bs) = g
  BY <1>1 DEF Filled, FileOf
<1>3. /\ g \in FileOf(Byte)
      /\ g.dire = f.dire /\ g.bufEnd = f.bufEnd /\ g.capEnd = f.capEnd /\ g.off = f.off
      /\ g.last = Len(bs) /\ g.readPtr = 0 /\ g.buf = bs /\ g.writePtr = f.writePtr
  BY <1>1 DEF FileOf
<1>4. f.dire # FD_CLOSED
  BY DireFacts
<1> HIDE DEF g
<1>5. InStruct(g)
  BY <1>1, <1>3, <1>4 DEF InStruct
<1>6. QED
  BY <1>2, <1>3, <1>5

LEMMA PushedOK ==
  ASSUME NEW f, InStruct(f), IsAnyRead(f.dire), f.readPtr > 0, NEW c \in Byte
  PROVE  LET g == [f EXCEPT !.readPtr = @ - 1, !.buf[f.readPtr] = c] IN
         /\ InStruct(g)
         /\ g.dire = f.dire /\ g.bufEnd = f.bufEnd /\ g.off = f.off /\ g.last = f.last
         /\ g.readPtr = f.readPtr - 1
         /\ g.buf = [f.buf EXCEPT ![f.readPtr] = c]
<1> DEFINE b == [f.buf EXCEPT ![f.readPtr] = c]
           g == [f EXCEPT !.readPtr = f.readPtr - 1, !.buf = b]
<1>1. /\ f \in FileOf(Byte) /\ f.readPtr - 1 \in Nat /\ f.readPtr - 1 <= f.last
      /\ f.readPtr \in 1..Len(f.buf)
  BY DEF InStruct, FileOf
<1>2. b \in Seq(Byte) /\ Len(b) = Len(f.buf)
  <2>1. f.buf \in Seq(Byte)
    BY <1>1 DEF FileOf
  <2>2. QED
    BY <1>1, <2>1, ExceptSeq
<1>3. [f EXCEPT !.readPtr = @ - 1, !.buf[f.readPtr] = c] = g
  BY <1>1 DEF FileOf
<1> HIDE DEF b
<1>4. /\ g \in FileOf(Byte)
      /\ g.dire = f.dire /\ g.bufEnd = f.bufEnd /\ g.capEnd = f.capEnd /\ g.off = f.off
      /\ g.last = f.last /\ g.readPtr = f.readPtr - 1 /\ g.buf = b
      /\ g.writePtr = f.writePtr
  BY <1>1, <1>2 DEF FileOf
<1>5. f.dire # FD_CLOSED
  BY DireFacts
<1> HIDE DEF g
<1>6. InStruct(g)
  BY <1>1, <1>2, <1>4, <1>5 DEF InStruct
<1>7. g.buf = [f.buf EXCEPT ![f.readPtr] = c]
  BY <1>4 DEF b
<1>8. QED
  BY <1>3, <1>4, <1>6, <1>7

LEMMA ClosedOK ==
  ASSUME NEW f, InStruct(f)
  PROVE  /\ InStruct(Closed(f))
         /\ Closed(f).dire = FD_CLOSED /\ Closed(f).bufEnd = f.bufEnd
         /\ Closed(f).off = f.off /\ Closed(f).last = f.last
         /\ Closed(f).buf = f.buf /\ Closed(f).readPtr = f.last
<1> DEFINE g == [f EXCEPT !.dire = FD_CLOSED, !.writePtr = f.bufEnd, !.readPtr = f.last]
<1>1. Closed(f) = g
  BY DEF Closed
<1>2. f \in FileOf(Byte) /\ FD_CLOSED \in Dires
  BY DireFacts DEF InStruct
<1>3. /\ g \in FileOf(Byte)
      /\ g.dire = FD_CLOSED /\ g.bufEnd = f.bufEnd /\ g.capEnd = f.capEnd /\ g.off = f.off
      /\ g.last = f.last /\ g.readPtr = f.last /\ g.buf = f.buf /\ g.writePtr = f.bufEnd
  BY <1>2 DEF FileOf
<1> HIDE DEF g
<1>4. InStruct(g)
  BY <1>2, <1>3 DEF InStruct, FileOf
<1>5. QED
  BY <1>1, <1>3, <1>4

LEMMA OpenedOK ==
  ASSUME NEW f, InStruct(f)
  PROVE  /\ InStruct(Opened(f, FD_READ))
         /\ Opened(f, FD_READ).dire = FD_READ /\ Opened(f, FD_READ).off = 0
         /\ Opened(f, FD_READ).last = 0 /\ Opened(f, FD_READ).buf = <<>>
         /\ Opened(f, FD_READ).readPtr = 0
<1> DEFINE g == [f EXCEPT !.dire = FD_READ]
           h == [f EXCEPT !.dire = FD_READ, !.off = 0]
<1>1. f \in FileOf(Byte) /\ FD_READ \in Dires
  BY DireFacts DEF InStruct
<1>2. /\ g \in FileOf(Byte)
      /\ g.dire = FD_READ /\ g.bufEnd = f.bufEnd /\ g.capEnd = f.capEnd /\ g.off = f.off
      /\ g.last = f.last /\ g.readPtr = f.readPtr /\ g.buf = f.buf /\ g.writePtr = f.writePtr
  BY <1>1 DEF FileOf
<1>3. h = [g EXCEPT !.off = 0]
  BY <1>1 DEF FileOf
<1>4. Opened(f, FD_READ) = DiscardBuf(h)
  BY DEF Opened
<1> HIDE DEF g, h
<1>5. InStruct(g)
  BY <1>1, <1>2, DireFacts DEF InStruct
<1>6. InStruct(h) /\ h.dire = FD_READ /\ h.off = 0
  BY <1>2, <1>3, <1>5, OffsetOK
<1>7. QED
  BY <1>4, <1>6, DiscardedOK, DireFacts

-----------------------------------------------------------------------------
(* What the steps have in common. *)

\* A call of one action that receives nothing.
LEMMA ReturnsOK ==
  ASSUME NEW op \in Calls, op # "fgetc", NEW why \in Whys, Returns(op, why)
  PROVE  RetInv' /\ ret'.got = <<>> /\ ret'.why = why /\ ret'.op = op
<1>1. /\ ret'.op = op /\ ret'.want = 0 /\ ret'.got = <<>> /\ ret'.why = why
      /\ ret' \in [op: Calls, want: Nat, got: Seq(Byte), why: Whys]
  BY EmptySeq DEF Returns
<1>2. LineShape'
  BY <1>1 DEF LineShape
<1>3. UngetcAfterGetc'
  BY <1>1 DEF UngetcAfterGetc
<1>4. QED
  BY <1>1, <1>2, <1>3 DEF RetInv

\* What the last call has answered is not disturbed as long as the struct
\* keeps its place or a call is in progress.
LEMMA RetStays ==
  ASSUME RetInv, UNCHANGED ret, (UNCHANGED <<file, call>>) \/ call' # Idle
  PROVE  RetInv'
<1>1. UngetcAfterGetc'
  BY DEF RetInv, UngetcAfterGetc
<1>2. LineShape'
  BY DEF RetInv, LineShape
<1>3. QED
  BY <1>1, <1>2 DEF RetInv

LEMMA BeginOK ==
  ASSUME IInv, Ready, NEW op \in Ops \ {"idle"}, NEW n \in Nat, Begin(op, n),
         op = "fgetc" => n > 0
  PROVE  /\ IInv'
         /\ UNCHANGED <<file, disk, koff, seekable, back, strayed>>
         /\ Got' = <<>>
<1>1. UNCHANGED <<file, disk, koff, seekable, back, strayed>>
  BY DEF Begin
<1>2. StreamInv'
  BY <1>1 DEF IInv, StreamInv, ReadAheadIsFile, OffsetTracks
<1>3. CASE n = 0 \/ (op = "fread" /\ ~IsAnyRead(file.dire))
  <2> DEFINE why == IF n = 0 THEN "done" ELSE "refused"
  <2>1. /\ ret' = [op |-> op, want |-> n, got |-> <<>>, why |-> why]
        /\ call' = call
    BY <1>3 DEF Begin
  <2>2. why \in Whys /\ op \in Calls /\ <<>> \in Seq(Byte) /\ Len(<<>>) = 0
    BY EmptySeq DEF Whys, Calls
  <2> HIDE DEF why
  <2>3. /\ ret' \in [op: Calls, want: Nat, got: Seq(Byte), why: Whys]
        /\ ret'.got = <<>> /\ ret'.want = n /\ ret'.op = op /\ ret'.why = why
    BY <2>1, <2>2
  <2>4. LineShape'
    BY <1>3, <2>2, <2>3 DEF LineShape, why
  <2>5. UngetcAfterGetc'
    BY <1>3, <2>3 DEF UngetcAfterGetc, why
  <2>6. QED
    BY <1>1, <1>2, <2>1, <2>3, <2>4, <2>5 DEF IInv, RetInv, CallInv, Got, Ready
<1>4. CASE ~(n = 0 \/ (op = "fread" /\ ~IsAnyRead(file.dire)))
  <2>1. call' = [op |-> op, want |-> n, got |-> <<>>] /\ ret' = ret
    BY <1>4 DEF Begin
  <2>2. /\ call' \in [op: Ops, want: Nat, got: Seq(Byte)]
        /\ call'.got = <<>> /\ call'.want = n /\ call'.op = op
    BY <2>1, EmptySeq
  <2>3. Len(<<>>) = 0 /\ call' # Idle
    BY <2>2, EmptySeq DEF Idle
  <2>4. CallInv'
    BY <1>4, <2>2, <2>3 DEF CallInv
  <2>5. RetInv'
    BY <2>1, <2>3, RetStays DEF IInv
  <2>6. QED
    BY <1>1, <1>2, <2>2, <2>3, <2>4, <2>5 DEF IInv, Got
<1>5. QED
  BY <1>3, <1>4

\* A call in progress ends with what it has.
LEMMA NoMoreOK ==
  ASSUME IInv, call # Idle, NEW why \in Whys \ {"done"}, NoMore(why)
  PROVE  CallInv' /\ RetInv' /\ call' = Idle /\ Got' = Got /\ ret'.why = why
<1>1. call' = Idle /\ ret' = [op |-> call.op, want |-> call.want, got |-> call.got, why |-> why]
  BY DEF NoMore, Finish
<1>2. /\ call.op \in Ops \ {"idle"} /\ call.want \in Nat /\ call.got \in Seq(Byte)
      /\ Len(call.got) \in Nat /\ Len(call.got) < call.want
      /\ call.op = "fgets" => \A i \in 1..Len(call.got) : call.got[i] # NL
  BY LenProperties DEF IInv, CallInv
<1>3. /\ ret' \in [op: Calls, want: Nat, got: Seq(Byte), why: Whys]
      /\ ret'.got = call.got /\ ret'.want = call.want /\ ret'.op = call.op /\ ret'.why = why
  BY <1>1, <1>2 DEF Calls
<1>4. LineShape'
  BY <1>2, <1>3 DEF LineShape
<1>5. UngetcAfterGetc'
  BY <1>3 DEF UngetcAfterGetc
<1>6. CallInv'
  BY <1>1, EmptySeq DEF CallInv, Idle, Ops
<1>7. QED
  BY <1>1, <1>3, <1>4, <1>5, <1>6 DEF RetInv, Got

-----------------------------------------------------------------------------
(* One lemma per action. *)

LEMMA GrowKeeps ==
  ASSUME IInv, Grow
  PROVE  IInv'
<1>1. PICK b \in FileBytes \union {NL} : disk' = Append(disk, b)
  BY DEF Grow
<1>2. UNCHANGED <<seekable, file, koff, back, strayed, call, ret>>
  BY DEF Grow
<1>3. /\ disk' \in Seq(Byte) /\ Len(disk') = Len(disk) + 1
      /\ \A i \in 1..Len(disk) : disk'[i] = disk[i]
      /\ DOMAIN disk = 1..Len(disk) /\ DOMAIN disk' = 1..Len(disk') /\ Len(disk) \in Nat
  <2>1. disk \in Seq(Byte) /\ b \in Byte
    BY DEF IInv, StreamInv, Byte
  <2>2. QED
    BY <1>1, <2>1, AppendProperties, LenProperties
<1>4. ReadAheadIsFile'
  BY <1>2, <1>3 DEF IInv, StreamInv, ReadAheadIsFile
<1>5. StreamInv'
  BY <1>2, <1>3, <1>4 DEF IInv, StreamInv, OffsetTracks
<1>6. CallInv' /\ RetInv'
  BY <1>2, RetStays DEF IInv, CallInv
<1>7. QED
  BY <1>5, <1>6 DEF IInv

LEMMA FreadStartKeeps ==
  ASSUME IInv, NEW size \in Nat, NEW nmemb \in Nat, FreadStart(size, nmemb)
  PROVE  IInv'
<1>1. size * nmemb \in Nat
  OBVIOUS
<1>2. QED
  BY <1>1, BeginOK DEF FreadStart, Ops

LEMMA FgetsStartKeeps ==
  ASSUME IInv, NEW size \in Nat, FgetsStart(size)
  PROVE  IInv'
<1>1. CASE size <= 0
  <2>1. /\ Returns("fgets", "refused")
        /\ UNCHANGED <<seekable, file, disk, koff, back, strayed, call>>
    BY <1>1 DEF FgetsStart
  <2>2. RetInv'
    BY <2>1, ReturnsOK DEF Calls, Ops, Whys
  <2>3. StreamInv' /\ CallInv'
    BY <2>1 DEF IInv, StreamInv, CallInv, ReadAheadIsFile, OffsetTracks
  <2>4. QED
    BY <2>2, <2>3 DEF IInv
<1>2. CASE ~(size <= 0)
  <2>1. size - 1 \in Nat /\ Begin("fgets", size - 1) /\ Ready
    BY <1>2 DEF FgetsStart
  <2>2. QED
    BY <2>1, BeginOK DEF Ops
<1>3. QED
  BY <1>1, <1>2

\* A byte leaves the buffer.
LEMMA AdvanceOK ==
  ASSUME StreamInv, ~Empty, file' = Advanced(file),
         back' = IF back > 0 THEN back - 1 ELSE 0,
         UNCHANGED <<seekable, disk, koff, strayed>>
  PROVE  /\ StreamInv' /\ file'.readPtr = file.readPtr + 1
         /\ file'.last = file.last /\ file'.buf = file.buf /\ NextByte \in Byte
<1>1. /\ InStruct(file') /\ file'.dire = file.dire /\ file'.off = file.off
      /\ file'.last = file.last /\ file'.buf = file.buf
      /\ file'.readPtr = file.readPtr + 1
  BY AdvancedOK DEF StreamInv, Empty
<1>2. /\ file.readPtr \in Nat /\ file.last \in Nat /\ file.buf \in Seq(Byte)
      /\ file.readPtr + 1 \in 1..Len(file.buf) /\ file.readPtr < file.last
      /\ koff \in Nat /\ back \in Nat /\ back <= file.last - file.readPtr
  BY DEF StreamInv, InStruct, FileOf, Empty
<1>3. NextByte \in Byte
  BY <1>2, ElementOfSeq DEF NextByte
<1>4. back' \in Nat /\ back' <= file'.last - file'.readPtr
      /\ file'.readPtr + back' >= file.readPtr + back
  BY <1>1, <1>2
<1>5. ReadAheadIsFile'
  <2>1. file'.readPtr + back' + 1 .. file'.last \subseteq file.readPtr + back + 1 .. file.last
    BY <1>1, <1>2, <1>4
  <2>2. QED
    BY <1>1, <2>1 DEF StreamInv, ReadAheadIsFile
<1>6. QED
  BY <1>1, <1>3, <1>4, <1>5 DEF StreamInv, OffsetTracks

LEMMA TakeByteKeeps ==
  ASSUME IInv, TakeByte
  PROVE  IInv'
<1> DEFINE got == Append(call.got, NextByte)
<1>1. /\ call # Idle /\ ~Empty /\ file' = Advanced(file)
      /\ back' = (IF back > 0 THEN back - 1 ELSE 0)
      /\ UNCHANGED <<seekable, disk, koff, strayed>>
      /\ IF EndsAt(got) THEN Finish(got, "done")
         ELSE call' = [call EXCEPT !.got = got] /\ UNCHANGED ret
  BY DEF TakeByte
<1>2. /\ StreamInv' /\ file'.readPtr = file.readPtr + 1 /\ NextByte \in Byte
      /\ file.readPtr \in Nat
  BY <1>1, AdvanceOK DEF IInv, StreamInv, InStruct, FileOf
<1>3. /\ call.op \in Ops \ {"idle"} /\ call.want \in Nat /\ call.got \in Seq(Byte)
      /\ Len(call.got) \in Nat /\ Len(call.got) < call.want
      /\ call.op = "fgets" => \A i \in 1..Len(call.got) : call.got[i] # NL
      /\ call \in [op: Ops, want: Nat, got: Seq(Byte)]
  BY <1>1, LenProperties DEF IInv, CallInv
<1>4. /\ got \in Seq(Byte) /\ Len(got) = Len(call.got) + 1
      /\ \A i \in 1..Len(call.got) : got[i] = call.got[i]
  BY <1>2, <1>3, AppendProperties
<1> HIDE DEF got
<1>5. CASE EndsAt(got)
  <2>1. /\ call' = Idle
        /\ ret' = [op |-> call.op, want |-> call.want, got |-> got, why |-> "done"]
    BY <1>1, <1>5 DEF Finish
  <2>2. /\ ret' \in [op: Calls, want: Nat, got: Seq(Byte), why: Whys]
        /\ ret'.got = got /\ ret'.want = call.want /\ ret'.op = call.op
    BY <1>3, <1>4, <2>1 DEF Calls, Whys
  <2>3. LineShape'
    BY <1>3, <1>4, <1>5, <2>2 DEF LineShape, EndsAt
  <2>4. UngetcAfterGetc'
    BY <1>2 DEF UngetcAfterGetc
  <2>5. CallInv'
    BY <2>1, EmptySeq DEF CallInv, Idle, Ops
  <2>6. QED
    BY <1>2, <2>2, <2>3, <2>4, <2>5 DEF IInv, RetInv
<1>6. CASE ~EndsAt(got)
  <2>1. call' = [call EXCEPT !.got = got] /\ UNCHANGED ret
    BY <1>1, <1>6
  <2>2. /\ call' \in [op: Ops, want: Nat, got: Seq(Byte)]
        /\ call'.op = call.op /\ call'.want = call.want /\ call'.got = got
    BY <1>3, <1>4, <2>1
  <2>3. Len(got) < call.want /\ (call.op = "fgets" => got[Len(got)] # NL)
    BY <1>3, <1>4, <1>6 DEF EndsAt
  <2>4. CallInv'
    BY <1>3, <1>4, <2>2, <2>3 DEF CallInv
  <2>5. call' # Idle
    BY <1>3, <2>2 DEF Idle
  <2>6. RetInv'
    BY <2>1, <2>5, RetStays DEF IInv
  <2>7. QED
    BY <1>2, <2>4, <2>6 DEF IInv
<1>7. QED
  BY <1>5, <1>6

\* The empty buffer before its read(2), and after it.
LEMMA EmptiedOK ==
  ASSUME StreamInv, Empty, IsAnyRead(file.dire)
  PROVE  /\ InStruct(Emptied(file)) /\ Emptied(file).dire = file.dire
         /\ Emptied(file).bufEnd = file.bufEnd /\ Emptied(file).off = file.off + file.last
         /\ Emptied(file).last = 0 /\ Emptied(file).readPtr = 0
         /\ Emptied(file).buf = <<>>
<1> DEFINE g == [file EXCEPT !.off = file.off + file.last]
<1>1. file.off + file.last \in Int /\ InStruct(file)
  BY DEF StreamInv, InStruct, FileOf
<1>2. Emptied(file) = DiscardBuf(g)
  BY DEF Emptied
<1> HIDE DEF g
<1>3. /\ InStruct(g) /\ g.dire = file.dire /\ g.bufEnd = file.bufEnd
      /\ g.off = file.off + file.last
  BY <1>1, OffsetOK DEF g
<1>4. QED
  BY <1>2, <1>3, DiscardedOK

LEMMA RefillKeeps ==
  ASSUME IInv, Refill(TRUE)
  PROVE  IInv'
<1>1. call # Idle /\ Empty /\ UNCHANGED <<seekable, disk, back, strayed>>
  BY DEF Refill
<1>2. CASE ~IsAnyRead(file.dire)
  <2>1. NoMore("refused") /\ UNCHANGED <<file, koff>>
    BY <1>2 DEF Refill
  <2>2. CallInv' /\ RetInv'
    BY <1>1, <2>1, NoMoreOK DEF Whys
  <2>3. StreamInv'
    BY <1>1, <2>1 DEF IInv, StreamInv, ReadAheadIsFile, OffsetTracks
  <2>4. QED
    BY <2>2, <2>3 DEF IInv
<1>3. CASE IsAnyRead(file.dire)
  <2> DEFINE f == Emptied(file)
             n == Min2(f.bufEnd, Len(disk) - koff)
  <2>1. \/ n > 0 /\ \E k \in 1..n :
             /\ file' = Filled(f, SubSeq(disk, koff + 1, koff + k))
             /\ koff' = koff + k
             /\ UNCHANGED <<call, ret>>
        \/ file' = f /\ (NoMore("eof") \/ NoMore("error")) /\ UNCHANGED koff
    BY <1>3 DEF Refill
  <2>2. /\ InStruct(f) /\ f.dire = file.dire /\ f.bufEnd = file.bufEnd
        /\ f.off = file.off + file.last
        /\ f.last = 0 /\ f.readPtr = 0 /\ f.buf = <<>>
    BY <1>1, <1>3, EmptiedOK DEF IInv
  <2>3. /\ disk \in Seq(Byte) /\ Len(disk) \in Nat /\ koff \in Nat /\ f.bufEnd \in Nat
        /\ back = 0 /\ file.last \in Nat /\ DOMAIN disk = 1..Len(disk) /\ f.off \in Int
    <3>1. disk \in Seq(Byte) /\ koff \in Nat /\ back = 0 /\ file.last \in Nat
      BY <1>1 DEF IInv, StreamInv, InStruct, FileOf, Empty
    <3>2. f.bufEnd \in Nat /\ f.off \in Int
      BY <2>2 DEF InStruct, FileOf
    <3>3. QED
      BY <3>1, <3>2, LenProperties
  <2>4. CASE n > 0 /\ \E k \in 1..n :
             /\ file' = Filled(f, SubSeq(disk, koff + 1, koff + k))
             /\ koff' = koff + k
             /\ UNCHANGED <<call, ret>>
    <3>1. PICK k \in 1..n : /\ file' = Filled(f, SubSeq(disk, koff + 1, koff + k))
                            /\ koff' = koff + k
                            /\ UNCHANGED <<call, ret>>
      BY <2>4
    <3>2. k \in Nat \ {0} /\ k <= f.bufEnd /\ koff + k <= Len(disk)
      <4> HIDE DEF f
      <4>1. QED
        BY <2>3 DEF Min2
    <3> HIDE DEF n
    <3> DEFINE bs == SubSeq(disk, koff + 1, koff + k)
    <3>3. /\ bs \in Seq(Byte) /\ Len(bs) = k
          /\ \A i \in 1..k : bs[i] = disk[koff + i]
      <4>1. \A i \in koff + 1 .. koff + k : disk[i] \in Byte
        BY <2>3, <3>2, ElementOfSeq
      <4>2. /\ bs \in Seq(Byte)
            /\ Len(bs) = IF koff + 1 <= koff + k THEN koff + k - (koff + 1) + 1 ELSE 0
            /\ \A i \in 1 .. koff + k - (koff + 1) + 1 : bs[i] = disk[koff + 1 + i - 1]
        BY <2>3, <3>2, <4>1, SubSeqProperties
      <4> HIDE DEF bs
      <4>3. QED
        BY <2>3, <3>2, <4>2
    <3> HIDE DEF bs, f
    <3>4. file' = Filled(f, bs)
      BY <3>1 DEF bs
    <3>5. /\ InStruct(file') /\ file'.dire = file.dire /\ file'.off = file.off + file.last
          /\ file'.last = k /\ file'.buf = bs /\ file'.readPtr = 0
      BY <1>3, <2>2, <3>2, <3>3, <3>4, FilledOK
    <3>6. ReadAheadIsFile'
      BY <1>1, <2>3, <3>1, <3>2, <3>3, <3>5 DEF ReadAheadIsFile
    <3>7. OffsetTracks'
      BY <1>1, <2>3, <3>1, <3>5 DEF IInv, StreamInv, OffsetTracks
    <3>8. StreamInv'
      BY <1>1, <2>3, <3>1, <3>2, <3>5, <3>6, <3>7 DEF IInv, StreamInv
    <3>9. CallInv' /\ RetInv'
      BY <1>1, <3>1, RetStays DEF IInv, CallInv
    <3>10. QED
      BY <3>8, <3>9 DEF IInv
  <2>5. CASE file' = f /\ (NoMore("eof") \/ NoMore("error")) /\ UNCHANGED koff
    <3> HIDE DEF f, n
    <3>1. CallInv' /\ RetInv'
      BY <1>1, <2>5, NoMoreOK DEF Whys
    <3>2. ReadAheadIsFile'
      BY <1>1, <2>2, <2>3, <2>5 DEF ReadAheadIsFile
    <3>3. OffsetTracks'
      BY <1>1, <2>2, <2>3, <2>5 DEF IInv, StreamInv, OffsetTracks
    <3>4. StreamInv'
      BY <1>1, <2>2, <2>3, <2>5, <3>2, <3>3 DEF IInv, StreamInv
    <3>5. QED
      BY <3>1, <3>4 DEF IInv
  <2>6. QED
    BY <2>1, <2>4, <2>5
<1>4. QED
  BY <1>2, <1>3

LEMMA FgetcKeeps ==
  ASSUME IInv, Fgetc
  PROVE  IInv'
<1>1. CASE Empty
  BY <1>1, BeginOK DEF Fgetc, Ops
<1>2. CASE ~Empty
  <2>1. /\ file' = Advanced(file)
        /\ back' = (IF back > 0 THEN back - 1 ELSE 0)
        /\ ret' = [op |-> "fgetc", want |-> 1, got |-> <<NextByte>>, why |-> "done"]
        /\ UNCHANGED <<seekable, disk, koff, strayed, call>>
    BY <1>2 DEF Fgetc
  <2>2. /\ StreamInv' /\ file'.readPtr = file.readPtr + 1 /\ NextByte \in Byte
        /\ file.readPtr \in Nat
    BY <1>2, <2>1, AdvanceOK DEF IInv, StreamInv, InStruct, FileOf
  <2>3. <<NextByte>> \in Seq(Byte)
    BY <2>2
  <2>4. /\ ret' \in [op: Calls, want: Nat, got: Seq(Byte), why: Whys]
        /\ ret'.op = "fgetc"
    BY <2>1, <2>3 DEF Calls, Ops, Whys
  <2>5. LineShape'
    BY <2>4 DEF LineShape
  <2>6. UngetcAfterGetc'
    BY <2>2 DEF UngetcAfterGetc
  <2>7. CallInv'
    BY <2>1 DEF IInv, CallInv
  <2>8. QED
    BY <2>2, <2>4, <2>5, <2>6, <2>7 DEF IInv, RetInv
<1>3. QED
  BY <1>1, <1>2

LEMMA UngetcKeeps ==
  ASSUME IInv, NEW c \in BackBytes, Ungetc(c)
  PROVE  IInv'
<1>1. UNCHANGED <<seekable, disk, koff, strayed, call>>
  BY DEF Ungetc
<1>2. CallInv'
  BY <1>1 DEF IInv, CallInv
<1>3. CASE Pushable
  <2>1. /\ file' = [file EXCEPT !.readPtr = @ - 1, !.buf[file.readPtr] = c]
        /\ back' = back + 1
        /\ Returns("ungetc", "done")
    BY <1>3 DEF Ungetc
  <2>2. /\ InStruct(file) /\ IsAnyRead(file.dire) /\ file.readPtr > 0 /\ c \in Byte
    BY <1>3 DEF Pushable, IInv, StreamInv, Byte
  <2>3. /\ InStruct(file') /\ file'.dire = file.dire /\ file'.off = file.off
        /\ file'.last = file.last /\ file'.readPtr = file.readPtr - 1
        /\ file'.buf = [file.buf EXCEPT ![file.readPtr] = c]
    BY <2>1, <2>2, PushedOK
  <2>4. /\ file.readPtr \in Nat /\ file.last \in Nat /\ back \in Nat
        /\ DOMAIN file.buf = 1..file.last
    BY <2>2, LenProperties DEF InStruct, FileOf, IInv, StreamInv
  <2>5. ReadAheadIsFile'
    <3>1. file'.readPtr + back' + 1 .. file'.last = file.readPtr + back + 1 .. file.last
      BY <2>1, <2>3, <2>4
    <3>2. \A i \in file.readPtr + back + 1 .. file.last : file'.buf[i] = file.buf[i]
      BY <2>2, <2>3, <2>4
    <3>3. QED
      BY <1>1, <2>3, <3>1, <3>2 DEF IInv, StreamInv, ReadAheadIsFile
  <2>6. StreamInv'
    BY <1>1, <2>1, <2>3, <2>4, <2>5 DEF IInv, StreamInv, OffsetTracks
  <2>7. RetInv'
    BY <2>1, ReturnsOK DEF Calls, Whys
  <2>8. QED
    BY <1>2, <2>6, <2>7 DEF IInv
<1>4. CASE ~Pushable
  <2>1. Returns("ungetc", "refused") /\ UNCHANGED <<file, back>>
    BY <1>4 DEF Ungetc
  <2>2. StreamInv'
    BY <1>1, <2>1 DEF IInv, StreamInv, ReadAheadIsFile, OffsetTracks
  <2>3. RetInv'
    BY <2>1, ReturnsOK DEF Calls, Whys
  <2>4. QED
    BY <1>2, <2>2, <2>3 DEF IInv
<1>5. QED
  BY <1>3, <1>4

LEMMA PutcKeeps ==
  ASSUME IInv, Putc
  PROVE  IInv' /\ UNCHANGED file /\ ret'.got = <<>>
<1>1. file.writePtr = file.bufEnd
  BY DEF IInv, StreamInv, InStruct
<1>2. /\ Returns("putc", "refused") /\ UNCHANGED file
      /\ UNCHANGED <<seekable, disk, koff, back, strayed, call>>
  BY <1>1 DEF Putc
<1>3. StreamInv' /\ CallInv'
  BY <1>2 DEF IInv, StreamInv, CallInv, ReadAheadIsFile, OffsetTracks
<1>4. RetInv' /\ ret'.got = <<>>
  BY <1>2, ReturnsOK DEF Calls, Whys
<1>5. QED
  BY <1>2, <1>3, <1>4 DEF IInv

LEMMA FseekKeeps ==
  ASSUME IInv, NEW offset \in Int, NEW whence \in Whences, Fseek(offset, whence)
  PROVE  /\ IInv' /\ UNCHANGED <<disk, call>> /\ ret'.got = <<>>
         /\ \/ UNCHANGED <<file, koff, back>> /\ ret'.why = "refused"
            \/ /\ file'.last = 0 /\ file'.readPtr = 0 /\ back' = 0
               /\ IsAnyRead(file.dire)
               /\ ret'.why = "done" => koff' = offset + SeekBase(whence)
<1>1. Ready /\ UNCHANGED <<seekable, disk, call>>
  BY DEF Fseek
<1>2. CallInv'
  BY <1>1 DEF IInv, CallInv
<1>3. CASE ~IsAnyRead(file.dire)
  <2>1. Returns("fseek", "refused") /\ UNCHANGED <<file, koff, back, strayed>>
    BY <1>3 DEF Fseek
  <2>2. StreamInv'
    BY <1>1, <2>1 DEF IInv, StreamInv, ReadAheadIsFile, OffsetTracks
  <2>3. RetInv' /\ ret'.got = <<>> /\ ret'.why = "refused"
    BY <2>1, ReturnsOK DEF Calls, Whys
  <2>4. QED
    BY <1>1, <1>2, <2>1, <2>2, <2>3 DEF IInv
<1>4. CASE IsAnyRead(file.dire)
  <2> DEFINE target == offset + SeekBase(whence)
             o == IF whence = "SEEK_CUR" THEN Tell ELSE file.off
             g == [file EXCEPT !.off = o]
             f == DiscardBuf(g)
  <2>0. f = DiscardBuf([file EXCEPT !.off = IF whence = "SEEK_CUR" THEN Tell ELSE @])
    BY DEF IInv, StreamInv, InStruct, FileOf
  <2>1. /\ back' = 0
        /\ IF seekable /\ target >= 0
             THEN /\ koff' = target /\ file' = [f EXCEPT !.off = target]
                  /\ strayed' = FALSE
                  /\ Returns("fseek", "done")
             ELSE /\ file' = f /\ strayed' = TRUE
                  /\ Returns("fseek", "error") /\ UNCHANGED koff
    BY <1>4, <2>0 DEF Fseek
  <2>2. /\ file.off \in Int /\ file.readPtr \in Nat /\ koff \in Nat
        /\ Len(disk) \in Nat /\ InStruct(file) /\ disk \in Seq(Byte)
        /\ strayed \in BOOLEAN /\ seekable \in BOOLEAN
    BY LenProperties DEF IInv, StreamInv, InStruct, FileOf
  <2>3. o \in Int
    BY <2>2 DEF Tell
  <2>4. SeekBase(whence) \in Int
    BY <2>2 DEF SeekBase, Tell, Whences
  <2>5. target \in Int
    BY <2>4
  <2> HIDE DEF target, o
  <2>6. InStruct(g) /\ g.dire = file.dire
    BY <2>2, <2>3, OffsetOK
  <2> HIDE DEF g
  <2>7. /\ InStruct(f) /\ f.dire = file.dire
        /\ f.last = 0 /\ f.readPtr = 0 /\ f.buf = <<>>
    BY <1>4, <2>6, DiscardedOK
  <2> HIDE DEF f
  <2>8. CASE seekable /\ target >= 0
    <3>1. /\ koff' = target /\ file' = [f EXCEPT !.off = target]
          /\ strayed' = FALSE /\ Returns("fseek", "done") /\ koff' \in Nat
      BY <2>1, <2>5, <2>8
    <3>2. /\ InStruct(file') /\ file'.off = target
          /\ file'.last = 0 /\ file'.readPtr = 0
      BY <2>5, <2>7, <3>1, OffsetOK
    <3>3. ReadAheadIsFile'
      BY <2>1, <3>2 DEF ReadAheadIsFile
    <3>4. StreamInv'
      <4>1. OffsetTracks'
        BY <2>5, <3>1, <3>2 DEF OffsetTracks
      <4>2. strayed' \in BOOLEAN /\ seekable' \in BOOLEAN
        BY <1>1, <2>2, <3>1
      <4>3. back' \in Nat /\ back' <= file'.last - file'.readPtr /\ file'.last <= koff'
        BY <2>1, <3>1, <3>2
      <4>4. QED
        BY <1>1, <2>2, <3>1, <3>2, <3>3, <4>1, <4>2, <4>3, Zenon DEF StreamInv
    <3>5. RetInv' /\ ret'.got = <<>> /\ ret'.why = "done"
      BY <3>1, ReturnsOK DEF Calls, Whys
    <3>6. koff' = offset + SeekBase(whence)
      BY <3>1 DEF target
    <3>7. QED
      BY <1>1, <1>2, <1>4, <2>1, <3>2, <3>4, <3>5, <3>6 DEF IInv
  <2>9. CASE ~(seekable /\ target >= 0)
    <3>1. /\ file' = f /\ strayed' = TRUE
          /\ Returns("fseek", "error") /\ UNCHANGED koff
      BY <2>1, <2>9
    <3>2. ReadAheadIsFile'
      BY <2>1, <2>7, <3>1 DEF ReadAheadIsFile
    <3>3. StreamInv'
      BY <1>1, <2>1, <2>2, <2>7, <3>1, <3>2 DEF StreamInv, OffsetTracks
    <3>4. RetInv' /\ ret'.got = <<>> /\ ret'.why = "error"
      BY <3>1, ReturnsOK DEF Calls, Whys
    <3>5. QED
      BY <1>1, <1>2, <1>4, <2>1, <2>7, <3>1, <3>3, <3>4 DEF IInv
  <2>10. QED
    BY <2>8, <2>9
<1>5. QED
  BY <1>3, <1>4

\* The stream is closed: nothing is left to read.
LEMMA ClosingOK ==
  ASSUME StreamInv, file' = Closed(file), back' = 0,
         UNCHANGED <<disk, koff, seekable, strayed>>
  PROVE  StreamInv' /\ file'.last = file'.readPtr
<1>1. /\ InStruct(file') /\ file'.dire = FD_CLOSED
      /\ file'.last = file.last /\ file'.readPtr = file.last /\ file.last \in Nat
  BY ClosedOK DEF StreamInv, InStruct, FileOf
<1>2. ReadAheadIsFile' /\ OffsetTracks'
  BY <1>1, DireFacts DEF ReadAheadIsFile, OffsetTracks
<1>3. QED
  BY <1>1, <1>2 DEF StreamInv

LEMMA FcloseKeeps ==
  ASSUME IInv, Fclose
  PROVE  /\ IInv' /\ UNCHANGED <<disk, call>> /\ ret'.got = <<>> /\ UNCHANGED koff
         /\ \/ UNCHANGED <<file, back>>
            \/ file'.last = file'.readPtr /\ back' = 0
<1>1. UNCHANGED <<seekable, disk, koff, strayed, call>>
  BY DEF Fclose
<1>2. CallInv'
  BY <1>1 DEF IInv, CallInv
<1>3. CASE file.dire = FD_CLOSED
  <2>1. Returns("fclose", "refused") /\ UNCHANGED <<file, back>>
    BY <1>3 DEF Fclose
  <2>2. StreamInv'
    BY <1>1, <2>1 DEF IInv, StreamInv, ReadAheadIsFile, OffsetTracks
  <2>3. RetInv' /\ ret'.got = <<>>
    BY <2>1, ReturnsOK DEF Calls, Whys
  <2>4. QED
    BY <1>1, <1>2, <2>1, <2>2, <2>3 DEF IInv
<1>4. CASE file.dire # FD_CLOSED
  <2>1. Returns("fclose", "done") /\ file' = Closed(file) /\ back' = 0
    BY <1>4 DEF Fclose
  <2>2. StreamInv' /\ file'.last = file'.readPtr
    BY <1>1, <2>1, ClosingOK DEF IInv
  <2>3. RetInv' /\ ret'.got = <<>>
    BY <2>1, ReturnsOK DEF Calls, Whys
  <2>4. QED
    BY <1>1, <1>2, <2>1, <2>2, <2>3 DEF IInv
<1>5. QED
  BY <1>3, <1>4

LEMMA FreopenKeeps ==
  ASSUME IInv, Freopen
  PROVE  /\ IInv' /\ UNCHANGED call /\ ret'.got = <<>> /\ back' = 0
         /\ file'.last = file'.readPtr
         /\ \/ disk' = <<>> /\ koff' = 0
            \/ UNCHANGED <<disk, koff>>
<1>1. UNCHANGED call /\ back' = 0
  BY DEF Freopen
<1>2. CallInv'
  BY <1>1 DEF IInv, CallInv
<1>3. CASE /\ file' = Opened(Closed(file), FD_READ)
           /\ disk' = <<>> /\ koff' = 0 /\ strayed' = FALSE
           /\ seekable' \in BOOLEAN
           /\ Returns("freopen", "done")
  <2>1. InStruct(Closed(file))
    BY ClosedOK DEF IInv, StreamInv
  <2>2. /\ InStruct(file') /\ file'.off = 0 /\ file'.last = 0 /\ file'.readPtr = 0
    BY <1>3, <2>1, OpenedOK
  <2>3. ReadAheadIsFile' /\ OffsetTracks' /\ <<>> \in Seq(Byte)
    BY <1>1, <1>3, <2>2, EmptySeq DEF ReadAheadIsFile, OffsetTracks
  <2>4. StreamInv'
    <3>1. strayed' \in BOOLEAN /\ seekable' \in BOOLEAN
      BY <1>3
    <3>2. /\ back' \in Nat /\ back' <= file'.last - file'.readPtr /\ file'.last <= koff'
          /\ koff' \in Nat /\ disk' \in Seq(Byte)
      BY <1>1, <1>3, <2>2, <2>3
    <3>3. QED
      BY <2>2, <2>3, <3>1, <3>2, Zenon DEF StreamInv
  <2>5. RetInv' /\ ret'.got = <<>>
    BY <1>3, ReturnsOK DEF Calls, Whys
  <2>6. QED
    BY <1>1, <1>2, <1>3, <2>2, <2>4, <2>5 DEF IInv
<1>4. CASE /\ file' = IF file.dire = FD_CLOSED THEN file ELSE Closed(file)
           /\ Returns("freopen", "error") /\ UNCHANGED <<disk, koff, seekable, strayed>>
  <2>1. RetInv' /\ ret'.got = <<>>
    BY <1>4, ReturnsOK DEF Calls, Whys
  <2>2. StreamInv' /\ file'.last = file'.readPtr
    <3>1. CASE file.dire = FD_CLOSED
      <4>1. file.last = file.readPtr /\ UNCHANGED file
        BY <1>4, <3>1 DEF IInv, StreamInv, InStruct
      <4>2. file.last \in Nat
        BY DEF IInv, StreamInv, InStruct, FileOf
      <4>3. ReadAheadIsFile'
        BY <1>1, <4>1, <4>2 DEF ReadAheadIsFile
      <4>4. QED
        BY <1>1, <1>4, <4>1, <4>2, <4>3 DEF IInv, StreamInv, OffsetTracks
    <3>2. CASE file.dire # FD_CLOSED
      BY <1>1, <1>4, <3>2, ClosingOK DEF IInv
    <3>3. QED
      BY <3>1, <3>2
  <2>3. QED
    BY <1>1, <1>2, <1>4, <2>1, <2>2 DEF IInv
<1>5. QED
  BY <1>3, <1>4 DEF Freopen

LEMMA StutterKeeps ==
  ASSUME IInv, UNCHANGED vars
  PROVE  IInv'
BY DEF vars, IInv, StreamInv, CallInv, RetInv, ReadAheadIsFile, OffsetTracks,
       LineShape, UngetcAfterGetc

LEMMA InitIInv == Init => IInv
<1> SUFFICES ASSUME Init PROVE IInv
  OBVIOUS
<1>1. PICK k \in Kinds : /\ file = InitialStruct(k)
                         /\ seekable \in (IF k = "tty" THEN {FALSE} ELSE BOOLEAN)
  BY DEF Init
<1>2. /\ file \in FileOf(Byte) /\ file.dire \in {FD_READ, FD_READ_LINEBUF}
      /\ file.last = 0 /\ file.readPtr = 0 /\ file.off = 0 /\ file.buf = <<>>
      /\ file.writePtr = file.bufEnd /\ file.bufEnd \in Nat
      /\ file.bufEnd <= file.capEnd
  BY <1>1, EmptySeq, BufSizeAssumption, DireFacts DEF InitialStruct, FileOf
<1>3. Len(<<>>) = 0 /\ <<>> \in Seq(Byte)
  BY EmptySeq
<1>4. InStruct(file)
  BY <1>2, <1>3, DireFacts DEF InStruct
<1>5. StreamInv
  <2>1. strayed \in BOOLEAN /\ seekable \in BOOLEAN
    BY <1>1 DEF Init
  <2>2. /\ back \in Nat /\ back <= file.last - file.readPtr /\ file.last <= koff
        /\ koff \in Nat /\ disk \in Seq(Byte)
    BY <1>2, <1>3 DEF Init
  <2>3. ReadAheadIsFile /\ OffsetTracks
    BY <1>2, <2>2 DEF Init, ReadAheadIsFile, OffsetTracks
  <2>4. QED
    BY <1>4, <2>1, <2>2, <2>3, Zenon DEF StreamInv
<1>6. CallInv
  BY <1>3 DEF Init, CallInv, Idle, Ops
<1>7. RetInv
  BY <1>3 DEF Init, RetInv, LineShape, UngetcAfterGetc, Calls, Ops, Whys
<1>8. QED
  BY <1>5, <1>6, <1>7 DEF IInv

LEMMA NextKeeps == IInv /\ [Next]_vars => IInv'
<1> SUFFICES ASSUME IInv, [Next]_vars PROVE IInv'
  OBVIOUS
<1>1. CASE Grow
  BY <1>1, GrowKeeps
<1>2. ASSUME NEW size \in 1..MaxItem, NEW nmemb \in 0..MaxSize, FreadStart(size, nmemb)
      PROVE  IInv'
  BY <1>2, FreadStartKeeps, BoundsAssumption
<1>3. ASSUME NEW size \in 0..MaxSize, FgetsStart(size) PROVE IInv'
  BY <1>3, FgetsStartKeeps, BoundsAssumption
<1>4. CASE CallStep(TRUE)
  BY <1>4, TakeByteKeeps, RefillKeeps DEF CallStep
<1>5. CASE Fgetc
  BY <1>5, FgetcKeeps
<1>6. ASSUME NEW c \in BackBytes, Ungetc(c) PROVE IInv'
  BY <1>6, UngetcKeeps
<1>7. CASE Putc
  BY <1>7, PutcKeeps
<1>8. ASSUME NEW offset \in Offsets, NEW whence \in Whences, Fseek(offset, whence)
      PROVE  IInv'
  <2>1. offset \in Int
    BY BoundsAssumption DEF Offsets
  <2>2. QED
    BY <1>8, <2>1, FseekKeeps
<1>9. CASE Fclose
  BY <1>9, FcloseKeeps
<1>10. CASE Freopen
  BY <1>10, FreopenKeeps
<1>11. CASE UNCHANGED vars
  BY <1>11, StutterKeeps
<1>12. QED
  BY <1>1, <1>2, <1>3, <1>4, <1>5, <1>6, <1>7, <1>8, <1>9, <1>10, <1>11 DEF Next

LEMMA IInvAlways == Spec => []IInv
BY InitIInv, NextKeeps, PTL DEF Spec

-----------------------------------------------------------------------------
(* The invariants. *)

\* Whatever was read, pushed back and sought before: the pointers of the
\* struct are in order, the buffer is as long as they say, a closed stream has
\* nothing left to read, and buf_write_ptr stays the sentinel that stops putc.
THEOREM StructSoundHolds == Spec => []StructSound
<1>1. IInv => StructSound
  <2> SUFFICES ASSUME IInv PROVE StructSound
    OBVIOUS
  <2>1. TypeOK
    BY Zenon DEF IInv, StreamInv, InStruct, CallInv, RetInv, TypeOK
  <2>2. HeaderInvariant
    BY DEF IInv, StreamInv, InStruct, HeaderInvariant
  <2>3. WriteSentinel
    BY DEF IInv, StreamInv, InStruct, WriteSentinel
  <2>4. QED
    BY <2>1, <2>2, <2>3 DEF StructSound
<1>2. QED
  BY <1>1, IInvAlways, PTL

\* buf_off and the bytes read ahead make the kernel's offset, so that ftell
\* is right, as long as no fseek has failed.
THEOREM OffsetTracksHolds == Spec => []OffsetTracks
<1>1. IInv => OffsetTracks
  BY DEF IInv, StreamInv
<1>2. QED
  BY <1>1, IInvAlways, PTL

\* What is read ahead is the file's, what was pushed back is still there, a
\* getc leaves room for an ungetc, and fgets delivers at most one line.
THEOREM BytesRightHolds == Spec => []BytesRight
<1>1. IInv => BytesRight
  BY DEF IInv, StreamInv, RetInv, BytesRight
<1>2. QED
  BY <1>1, IInvAlways, PTL

-----------------------------------------------------------------------------
(* What a step may do. *)

LEMMA SeekStep ==
  ASSUME IInv, NEW offset \in Offsets, Fseek(offset, "SEEK_CUR"),
         ret'.why = "done", ~strayed
  PROVE  Pos' = Pos + offset
<1>1. offset \in Int /\ "SEEK_CUR" \in Whences
  BY BoundsAssumption DEF Offsets, Whences
<1>2. /\ file'.last = 0 /\ file'.readPtr = 0 /\ IsAnyRead(file.dire)
      /\ koff' = offset + SeekBase("SEEK_CUR")
  BY <1>1, FseekKeeps
<1>3. SeekBase("SEEK_CUR") = Tell
  BY DEF SeekBase
<1>4. /\ koff = file.off + file.last
      /\ file.off \in Int /\ file.last \in Nat /\ file.readPtr \in Nat
  BY <1>2 DEF IInv, StreamInv, OffsetTracks, InStruct, FileOf
<1>5. QED
  BY <1>1, <1>2, <1>3, <1>4 DEF Pos, Tell

LEMMA EofStep ==
  ASSUME IInv, Next, call # Idle, call' = Idle, ret'.why = "eof", file.bufEnd > 0
  PROVE  back = 0 /\ Pos >= Len(disk)
<1>1. ~Ready
  BY DEF Ready
<1>2. TakeByte \/ Refill(TRUE)
  BY <1>1 DEF Next, Grow, FreadStart, FgetsStart, CallStep, Fgetc, Ungetc, Putc,
              Fseek, Fclose, Freopen
<1>3. ~TakeByte
  <2> SUFFICES ASSUME TakeByte PROVE FALSE
    OBVIOUS
  <2>1. CASE EndsAt(Append(call.got, NextByte))
    <3>1. ret'.why = "done"
      BY <2>1 DEF TakeByte, Finish
    <3>2. QED
      BY <3>1
  <2>2. CASE ~EndsAt(Append(call.got, NextByte))
    <3>1. call' = [call EXCEPT !.got = Append(call.got, NextByte)]
      BY <2>2 DEF TakeByte
    <3>2. call \in [op: Ops, want: Nat, got: Seq(Byte)] /\ call.op # "idle"
      BY DEF IInv, CallInv
    <3>3. call'.op = call.op /\ Idle.op = "idle"
      BY <3>1, <3>2 DEF Idle
    <3>4. QED
      BY <3>2, <3>3
  <2>3. QED
    BY <2>1, <2>2
<1>4. Refill(TRUE)
  BY <1>2, <1>3
<1>5. Empty /\ IsAnyRead(file.dire)
  BY <1>4 DEF Refill, NoMore, Finish
<1>6. Emptied(file).bufEnd = file.bufEnd
  BY <1>5, EmptiedOK DEF IInv
<1>7. /\ back = 0 /\ koff \in Nat /\ file.last \in Nat /\ file.last = file.readPtr
      /\ Len(disk) \in Nat /\ file.bufEnd \in Nat
  BY <1>5, LenProperties DEF IInv, StreamInv, InStruct, FileOf, Empty
<1>8. Min2(file.bufEnd, Len(disk) - koff) <= 0
  <2>1. CASE UNCHANGED call
    BY <2>1
  <2>2. CASE NoMore("error")
    BY <2>2 DEF NoMore, Finish
  <2>3. QED
    BY <1>4, <1>5, <1>6, <2>1, <2>2 DEF Refill
<1>9. QED
  BY <1>7, <1>8 DEF Min2, Pos

\* A SEEK_CUR counts from the byte that comes next, read-ahead and pushed-back
\* bytes included; and a call ends for want of bytes only where they end.
THEOREM StepsRightHolds == Spec => StepsRight
<1>1. IInv => (\A offset \in Offsets :
                 Fseek(offset, "SEEK_CUR") /\ ret'.why = "done" /\ ~strayed
                   => Pos' = Pos + offset)
  BY SeekStep
<1>2. IInv /\ [Next]_vars =>
        [call # Idle /\ call' = Idle /\ ret'.why = "eof" /\ file.bufEnd > 0
           => back = 0 /\ Pos >= Len(disk)]_vars
  BY EofStep
<1>3. QED
  BY <1>1, <1>2, IInvAlways, PTL DEF Spec, StepsRight, SeekCurIsRelative, EofOnlyAtEnd

-----------------------------------------------------------------------------
(* The stream is an InStream: every step of it is one of that module, or   *)
(* leaves what a user sees alone.                                          *)

\* The bytes that have been pushed back, the next one first.
Back == SubSeq(file.buf, file.readPtr + 1, file.readPtr + back)

LEMMA PartFacts ==
  ASSUME NEW s \in Seq(Byte), NEW r \in Nat, NEW k \in Nat, r + k <= Len(s)
  PROVE  /\ SubSeq(s, r + 1, r + k) \in Seq(Byte)
         /\ Len(SubSeq(s, r + 1, r + k)) = k
         /\ \A i \in 1..k : SubSeq(s, r + 1, r + k)[i] = s[r + i]
         /\ k = 0 => SubSeq(s, r + 1, r + k) = <<>>
<1>1. \A i \in r + 1 .. r + k : s[i] \in Byte
  BY ElementOfSeq, LenProperties
<1>2. /\ SubSeq(s, r + 1, r + k) \in Seq(Byte)
      /\ Len(SubSeq(s, r + 1, r + k)) = IF r + 1 <= r + k THEN r + k - (r + 1) + 1 ELSE 0
      /\ \A i \in 1 .. r + k - (r + 1) + 1 : SubSeq(s, r + 1, r + k)[i] = s[r + 1 + i - 1]
  BY <1>1, SubSeqProperties
<1>3. k = 0 => SubSeq(s, r + 1, r + k) = <<>>
  BY SubSeqEmpty
<1> DEFINE t == SubSeq(s, r + 1, r + k)
<1> HIDE DEF t
<1>4. /\ t \in Seq(Byte) /\ Len(t) = k
      /\ \A i \in 1..k : t[i] = s[r + i]
  BY <1>2 DEF t
<1>5. QED
  BY <1>3, <1>4 DEF t

\* In every state of the invariant: the buffer's bytes and the place in them.
LEMMA PlaceFacts ==
  ASSUME StreamInv
  PROVE  /\ file.buf \in Seq(Byte) /\ file.readPtr \in Nat /\ file.last \in Nat
         /\ back \in Nat /\ Len(file.buf) = file.last
         /\ file.readPtr + back <= file.last /\ file.last <= koff /\ koff \in Nat
         /\ Pos \in Nat /\ Pos = koff - (file.last - file.readPtr)
         /\ disk \in Seq(Byte) /\ Len(disk) \in Nat
<1>1. /\ file.buf \in Seq(Byte) /\ file.readPtr \in Nat /\ file.last \in Nat
      /\ back \in Nat /\ Len(file.buf) = file.last
      /\ back <= file.last - file.readPtr /\ file.last <= koff /\ koff \in Nat
      /\ file.readPtr <= file.last /\ disk \in Seq(Byte)
  BY DEF StreamInv, InStruct, FileOf
<1>2. QED
  BY <1>1, LenProperties DEF Pos

\* A byte leaves the buffer for the call, as the first one or as one more.
LEMMA TakeStep ==
  ASSUME StreamInv, ~Empty, file' = Advanced(file),
         back' = IF back > 0 THEN back - 1 ELSE 0,
         UNCHANGED <<seekable, disk, koff, strayed>>,
         NEW before \in {<<>>, Got}, Got' = Append(before, NextByte)
  PROVE  Promise!Take
<1> DEFINE r == file.readPtr
<1>1. /\ r \in Nat /\ back \in Nat /\ r + 1 <= file.last /\ r + back <= file.last
      /\ file.last <= koff /\ koff \in Nat /\ Pos = koff - (file.last - r)
      /\ file.buf \in Seq(Byte) /\ Len(file.buf) = file.last /\ file.last \in Nat
      /\ disk \in Seq(Byte)
  BY PlaceFacts DEF StreamInv, InStruct, Empty
<1>0. r \in Nat /\ back \in Nat /\ r + back <= Len(file.buf) /\ file.buf \in Seq(Byte)
  BY <1>1
<1>2. file'.readPtr = r + 1 /\ file'.last = file.last /\ file'.buf = file.buf
  BY AdvanceOK
<1>3. Pos' = Pos + 1
  BY <1>1, <1>2 DEF Pos
<1>4. NextByte = file.buf[r + 1]
  BY DEF NextByte
<1>5. CASE back > 0
  <2>1. /\ Back \in Seq(Byte) /\ Len(Back) = back
        /\ \A i \in 1..back : Back[i] = file.buf[r + i]
    BY <1>0, PartFacts DEF Back
  <2>2. Back # <<>>
    BY <1>5, <2>1, EmptySeq
  <2>3. Head(Back) = NextByte
    BY <1>1, <1>4, <1>5, <2>1
  <2>4. /\ Tail(Back) \in Seq(Byte) /\ Len(Tail(Back)) = back - 1
        /\ \A i \in 1..back - 1 : Tail(Back)[i] = Back[i + 1]
    BY <2>1, <2>2, HeadTailProperties
  <2>5. back' = back - 1 /\ r + 1 + (back - 1) <= Len(file.buf)
        /\ back - 1 \in Nat /\ r + 1 \in Nat
    BY <1>1, <1>5
  <2> DEFINE t == SubSeq(file.buf, r + 1 + 1, r + 1 + (back - 1))
  <2>6. /\ t \in Seq(Byte) /\ Len(t) = back - 1
        /\ \A i \in 1..back - 1 : t[i] = file.buf[r + 1 + i]
    BY <1>1, <2>5, PartFacts
  <2>7. Back' = t
    BY <1>1, <1>2, <2>5 DEF Back
  <2> HIDE DEF t
  <2>8. t = Tail(Back)
    <3>1. \A i \in 1..Len(t) : t[i] = Tail(Back)[i]
      <4> SUFFICES ASSUME NEW i \in 1..back - 1 PROVE t[i] = Tail(Back)[i]
        BY <2>6
      <4>1. i \in Nat /\ i + 1 \in 1..back
        BY <1>1
      <4>2. Tail(Back)[i] = file.buf[r + (i + 1)]
        BY <2>1, <2>4, <4>1
      <4>3. t[i] = file.buf[r + 1 + i]
        BY <2>6
      <4>4. r + (i + 1) = r + 1 + i
        BY <1>0, <4>1
      <4>5. QED
        BY <4>2, <4>3, <4>4
    <3>2. QED
      BY <2>4, <2>6, <3>1, SeqEqual
  <2>9. /\ Back # <<>> /\ Got' = Append(before, Head(Back))
        /\ Pos' = Pos + 1 /\ Back' = Tail(Back) /\ disk' = disk
    BY <1>3, <2>2, <2>3, <2>7, <2>8
  <2>10. QED
    BY <2>9 DEF Promise!Take, Back
<1>6. CASE ~(back > 0)
  <2>1. back = 0 /\ back' = 0
    BY <1>1, <1>6
  <2>2. Back = <<>> /\ Back' = <<>>
    BY <1>1, <1>2, <2>1, SubSeqEmpty DEF Back
  <2>3. r + 1 \in r + back + 1 .. file.last
    BY <1>1, <2>1
  <2>4. /\ koff - file.last + (r + 1) \in DOMAIN disk
        /\ file.buf[r + 1] = disk[koff - file.last + (r + 1)]
    BY <2>3 DEF StreamInv, ReadAheadIsFile
  <2>5. koff - file.last + (r + 1) = Pos + 1 /\ Pos \in Nat
    BY <1>1, PlaceFacts
  <2>6. Pos < Len(disk) /\ NextByte = disk[Pos + 1]
    BY <1>1, <1>4, <2>4, <2>5, LenProperties
  <2>7. Back = <<>> /\ Pos < Len(disk) /\ Got' = Append(before, disk[Pos + 1])
        /\ Pos' = Pos + 1 /\ Back' = <<>> /\ disk' = disk
    BY <1>3, <2>2, <2>6
  <2>8. QED
    BY <2>7 DEF Promise!Take, Back
<1>7. QED
  BY <1>5, <1>6

\* What a user sees of the stream stays as it is.
LEMMA SeenStays ==
  ASSUME UNCHANGED disk, Pos' = Pos, Got' = Got, Back' = Back
  PROVE  UNCHANGED Promise!vars
BY DEF Promise!vars, Back

\* A call starts with nothing, or ends with nothing.
LEMMA BeginStep ==
  ASSUME UNCHANGED <<file, disk, koff, back>>, Got' = <<>>
  PROVE  Promise!Begin
BY DEF Promise!Begin, Pos

\* The stream stands elsewhere, with nothing read ahead.
LEMMA MoveStep ==
  ASSUME StreamInv', back' = 0, UNCHANGED disk, Got' = <<>>
  PROVE  Promise!Move
<1>1. /\ file'.buf \in Seq(Byte) /\ file'.readPtr \in Nat /\ file'.last \in Nat
      /\ file'.readPtr <= file'.last /\ file'.last <= koff' /\ koff' \in Nat
  BY DEF StreamInv, InStruct, FileOf
<1>2. Back' = <<>>
  BY <1>1, SubSeqEmpty DEF Back
<1>3. Pos' \in Nat
  BY <1>1 DEF Pos
<1>4. QED
  BY <1>2, <1>3 DEF Promise!Move, Back

LEMMA RefillStep ==
  ASSUME IInv, Refill(TRUE)
  PROVE  UNCHANGED Promise!vars
<1>1. call # Idle /\ Empty /\ UNCHANGED <<seekable, disk, back, strayed>>
  BY DEF Refill
<1>2. /\ back = 0 /\ file.last = file.readPtr /\ file.last \in Nat /\ koff \in Nat
      /\ Pos = koff /\ Back = <<>>
  BY <1>1, PlaceFacts, SubSeqEmpty DEF IInv, Empty, Back
<1>3. CASE ~IsAnyRead(file.dire)
  <2>1. NoMore("refused") /\ UNCHANGED <<file, koff>>
    BY <1>3 DEF Refill
  <2>2. Got' = Got
    BY <1>1, <2>1, NoMoreOK DEF Whys
  <2>3. Pos' = Pos /\ Back' = Back
    BY <1>1, <2>1 DEF Pos, Back
  <2>4. QED
    BY <1>1, <2>2, <2>3, SeenStays
<1>4. CASE IsAnyRead(file.dire)
  <2> DEFINE f == Emptied(file)
             n == Min2(f.bufEnd, Len(disk) - koff)
  <2>1. \/ n > 0 /\ \E k \in 1..n :
             /\ file' = Filled(f, SubSeq(disk, koff + 1, koff + k))
             /\ koff' = koff + k
             /\ UNCHANGED <<call, ret>>
        \/ file' = f /\ (NoMore("eof") \/ NoMore("error")) /\ UNCHANGED koff
    BY <1>4 DEF Refill
  <2>2. f.last = 0 /\ f.readPtr = 0 /\ f.buf = <<>> /\ f \in FileOf(Byte)
    BY <1>1, <1>4, EmptiedOK DEF IInv, InStruct
  <2> HIDE DEF f
  <2>3. CASE \E k \in 1..n :
             /\ file' = Filled(f, SubSeq(disk, koff + 1, koff + k))
             /\ koff' = koff + k
             /\ UNCHANGED <<call, ret>>
    <3>1. PICK k \in 1..n : /\ file' = Filled(f, SubSeq(disk, koff + 1, koff + k))
                            /\ koff' = koff + k
                            /\ UNCHANGED <<call, ret>>
      BY <2>3
    <3>2. k \in Nat /\ k <= Len(disk) - koff
      <4>1. /\ Len(disk) \in Nat /\ f.bufEnd \in Nat
        BY <2>2, PlaceFacts DEF IInv, FileOf
      <4>2. QED
        BY <1>2, <4>1 DEF Min2
    <3> DEFINE bs == SubSeq(disk, koff + 1, koff + k)
    <3>3. bs \in Seq(Byte) /\ Len(bs) = k
      <4>1. koff + k <= Len(disk) /\ disk \in Seq(Byte)
        BY <1>2, <3>2, PlaceFacts DEF IInv
      <4>2. QED
        BY <1>2, <3>2, <4>1, PartFacts
    <3> HIDE DEF bs, n
    <3>4. /\ file'.last = k /\ file'.readPtr = 0
      <4>1. file' = [f EXCEPT !.last = f.last + Len(bs), !.buf = f.buf \o bs]
        BY <3>1 DEF Filled, bs
      <4>2. QED
        BY <2>2, <3>2, <3>3, <4>1 DEF FileOf
    <3>5. Pos' = Pos
      BY <1>2, <3>1, <3>2, <3>4 DEF Pos
    <3>6. Back' = Back
      BY <1>1, <1>2, <3>4, SubSeqEmpty DEF Back
    <3>7. Got' = Got
      BY <3>1 DEF Got
    <3>8. QED
      BY <1>1, <3>5, <3>6, <3>7, SeenStays
  <2>4. CASE file' = f /\ (NoMore("eof") \/ NoMore("error")) /\ UNCHANGED koff
    <3>1. Got' = Got
      BY <1>1, <2>4, NoMoreOK DEF Whys
    <3>2. Pos' = Pos
      BY <1>2, <2>2, <2>4 DEF Pos
    <3>3. Back' = Back
      BY <1>1, <1>2, <2>2, <2>4, SubSeqEmpty DEF Back
    <3>4. QED
      BY <1>1, <3>1, <3>2, <3>3, SeenStays
  <2>5. QED
    BY <2>1, <2>3, <2>4
<1>5. QED
  BY <1>3, <1>4

\* A byte is pushed back to the place in front of the next one.
LEMMA UngetcStep ==
  ASSUME IInv, NEW c \in BackBytes, Ungetc(c)
  PROVE  Promise!Push \/ Promise!Begin
<1>1. Ready /\ UNCHANGED <<seekable, disk, koff, strayed, call>>
  BY DEF Ungetc
<1>2. CASE Pushable
  <2>1. /\ file' = [file EXCEPT !.readPtr = @ - 1, !.buf[file.readPtr] = c]
        /\ back' = back + 1
        /\ Returns("ungetc", "done")
    BY <1>2 DEF Ungetc
  <2> DEFINE r == file.readPtr
             b == [file.buf EXCEPT ![r] = c]
  <2>2. /\ InStruct(file) /\ IsAnyRead(file.dire) /\ r > 0 /\ c \in Byte
    BY <1>2 DEF Pushable, IInv, StreamInv, Byte
  <2>3. /\ file'.last = file.last /\ file'.readPtr = r - 1 /\ file'.buf = b
    BY <2>1, <2>2, PushedOK
  <2>4. /\ file.buf \in Seq(Byte) /\ r \in Nat /\ file.last \in Nat /\ back \in Nat
        /\ Len(file.buf) = file.last /\ r + back <= file.last /\ file.last <= koff
        /\ koff \in Nat /\ Pos = koff - (file.last - r) /\ r \in 1..Len(file.buf)
    BY <2>2, PlaceFacts DEF IInv
  <2>5. /\ b \in Seq(Byte) /\ Len(b) = Len(file.buf)
        /\ \A j \in 1..Len(file.buf) : b[j] = IF j = r THEN c ELSE file.buf[j]
    BY <2>2, <2>4, ExceptSeq
  <2>6. Pos > 0 /\ Pos' = Pos - 1
    <3> HIDE DEF b
    <3>1. koff' = koff /\ r > 0
      BY <1>1, <2>2
    <3>2. Pos > 0
      BY <2>4, <3>1
    <3>3. file'.last = file.last /\ file'.readPtr = file.readPtr - 1
      BY <2>3
    <3>4. QED
      BY <2>4, <3>1, <3>2, <3>3 DEF Pos
  <2>7. r \in Nat /\ back \in Nat /\ r + back <= Len(file.buf)
    BY <2>4
  <2>8. /\ Back \in Seq(Byte) /\ Len(Back) = back
        /\ \A i \in 1..back : Back[i] = file.buf[r + i]
    BY <2>4, <2>7, PartFacts DEF Back
  <2>9. Back' = SubSeq(b, (r - 1) + 1, (r - 1) + (back + 1))
    BY <2>1, <2>3 DEF Back
  <2> HIDE DEF b
  <2>10. /\ Back' \in Seq(Byte) /\ Len(Back') = back + 1
         /\ \A i \in 1..back + 1 : Back'[i] = b[(r - 1) + i]
    <3>1. r - 1 \in Nat /\ back + 1 \in Nat /\ (r - 1) + (back + 1) <= Len(b)
      BY <2>2, <2>5, <2>7
    <3>2. QED
      BY <2>5, <2>9, <3>1, PartFacts
  <2> DEFINE t == <<c>> \o Back
  <2>11. /\ t \in Seq(Byte) /\ Len(t) = 1 + back
         /\ \A i \in 1..1 + back : t[i] = IF i <= 1 THEN c ELSE Back[i - 1]
    <3>1. <<c>> \in Seq(Byte) /\ Len(<<c>>) = 1 /\ <<c>>[1] = c
      BY <2>2
    <3>2. /\ t \in Seq(Byte) /\ Len(t) = Len(<<c>>) + Len(Back)
          /\ \A i \in 1..Len(<<c>>) + Len(Back) :
               t[i] = IF i <= Len(<<c>>) THEN <<c>>[i] ELSE Back[i - Len(<<c>>)]
      BY <2>8, <3>1, ConcatProperties
    <3> HIDE DEF t
    <3>3. \A i \in 1..1 + back : i <= 1 => i = 1
      BY <2>7
    <3>4. QED
      BY <2>8, <3>1, <3>2, <3>3
  <2> HIDE DEF t
  <2>12. Back' = t
    <3>1. \A i \in 1..Len(Back') : Back'[i] = t[i]
      <4> SUFFICES ASSUME NEW i \in 1..back + 1 PROVE Back'[i] = t[i]
        BY <2>10
      <4>1. CASE i = 1
        <5>1. Back'[1] = b[(r - 1) + 1] /\ (r - 1) + 1 = r
          BY <2>4, <2>10, <4>1
        <5>2. b[r] = c
          BY <2>4, <2>5
        <5>3. t[1] = c
          BY <2>7, <2>11
        <5>4. QED
          BY <4>1, <5>1, <5>2, <5>3
      <4>2. CASE i # 1
        <5>1. i \in Nat /\ i > 1 /\ i - 1 \in 1..back
          BY <2>4, <4>2
        <5>2. Back'[i] = b[(r - 1) + i] /\ t[i] = Back[i - 1]
          BY <2>7, <2>10, <2>11, <5>1
        <5>3. (r - 1) + i = r + (i - 1) /\ r + (i - 1) \in 1..Len(file.buf)
              /\ r + (i - 1) # r
          BY <2>7, <5>1
        <5>4. b[r + (i - 1)] = file.buf[r + (i - 1)]
          BY <2>5, <5>3
        <5>5. Back[i - 1] = file.buf[r + (i - 1)]
          BY <2>8, <5>1
        <5>6. QED
          BY <5>2, <5>3, <5>4, <5>5
      <4>3. QED
        BY <4>1, <4>2
    <3>2. Len(Back') = Len(t) /\ Back' \in Seq(Byte) /\ t \in Seq(Byte)
      BY <2>7, <2>10, <2>11
    <3>3. QED
      BY <3>1, <3>2, SeqEqual
  <2>13. Got' = <<>>
    BY <1>1, <2>1 DEF Ready, Got, Returns
  <2>14. Promise!Push
    BY <1>1, <2>2, <2>6, <2>12, <2>13 DEF Promise!Push, Back, t
  <2>15. QED
    BY <2>14
<1>3. CASE ~Pushable
  <2>1. Returns("ungetc", "refused") /\ UNCHANGED <<file, back>>
    BY <1>3 DEF Ungetc
  <2>2. Got' = <<>>
    BY <1>1, <2>1 DEF Ready, Got, Returns
  <2>3. QED
    BY <1>1, <2>1, <2>2, BeginStep
<1>4. QED
  BY <1>2, <1>3

LEMMA StepSimulated ==
  ASSUME IInv, IInv', Next
  PROVE  Promise!Next \/ UNCHANGED Promise!vars
<1>1. CASE Grow
  <2>1. UNCHANGED <<file, koff, back, call, ret>>
    BY <1>1 DEF Grow
  <2>2. \E b \in Byte : disk' = Append(disk, b)
    BY <1>1 DEF Grow, Byte
  <2>3. Pos' = Pos /\ Got' = Got /\ Back' = Back
    BY <2>1 DEF Pos, Got, Back
  <2>4. QED
    BY <2>2, <2>3 DEF Promise!Next, Promise!Grow, Back
<1>2. ASSUME NEW size \in 1..MaxItem, NEW nmemb \in 0..MaxSize, FreadStart(size, nmemb)
      PROVE  Promise!Begin
  <2>1. size * nmemb \in Nat
    BY BoundsAssumption
  <2>2. UNCHANGED <<file, disk, koff, back>> /\ Got' = <<>>
    BY <1>2, <2>1, BeginOK DEF FreadStart, Ops
  <2>3. QED
    BY <2>2, BeginStep
<1>3. ASSUME NEW size \in 0..MaxSize, FgetsStart(size) PROVE Promise!Begin
  <2>1. CASE size <= 0
    <3>1. /\ Returns("fgets", "refused") /\ Ready
          /\ UNCHANGED <<file, disk, koff, back, call>>
      BY <1>3, <2>1 DEF FgetsStart
    <3>2. Got' = <<>>
      BY <3>1 DEF Ready, Got, Returns
    <3>3. QED
      BY <3>1, <3>2, BeginStep
  <2>2. CASE ~(size <= 0)
    <3>1. size - 1 \in Nat /\ Begin("fgets", size - 1) /\ Ready
      BY <1>3, <2>2, BoundsAssumption DEF FgetsStart
    <3>2. UNCHANGED <<file, disk, koff, back>> /\ Got' = <<>>
      BY <3>1, BeginOK DEF Ops
    <3>3. QED
      BY <3>2, BeginStep
  <2>3. QED
    BY <2>1, <2>2
<1>4. CASE TakeByte
  <2>1. /\ call # Idle /\ ~Empty /\ file' = Advanced(file)
        /\ back' = (IF back > 0 THEN back - 1 ELSE 0)
        /\ UNCHANGED <<seekable, disk, koff, strayed>>
        /\ IF EndsAt(Append(call.got, NextByte))
             THEN Finish(Append(call.got, NextByte), "done")
             ELSE call' = [call EXCEPT !.got = Append(call.got, NextByte)]
    BY <1>4 DEF TakeByte
  <2>2. call \in [op: Ops, want: Nat, got: Seq(Byte)] /\ call.op # "idle" /\ Got = call.got
    BY <2>1 DEF IInv, CallInv, Got
  <2>3. Got' = Append(call.got, NextByte)
    <3>1. CASE EndsAt(Append(call.got, NextByte))
      BY <2>1, <3>1 DEF Finish, Got
    <3>2. CASE ~EndsAt(Append(call.got, NextByte))
      <4>1. call'.op = call.op /\ call'.got = Append(call.got, NextByte)
        BY <2>1, <2>2, <3>2
      <4>2. call' # Idle
        BY <2>2, <4>1 DEF Idle
      <4>3. QED
        BY <4>1, <4>2 DEF Got
    <3>3. QED
      BY <3>1, <3>2
  <2>4. Promise!Take
    BY <2>1, <2>2, <2>3, TakeStep DEF IInv
  <2>5. QED
    BY <2>4 DEF Promise!Next
<1>5. CASE Refill(TRUE)
  BY <1>5, RefillStep
<1>6. CASE Fgetc
  <2>1. CASE Empty
    <3>1. UNCHANGED <<file, disk, koff, back>> /\ Got' = <<>>
      BY <1>6, <2>1, BeginOK DEF Fgetc, Ops
    <3>2. QED
      BY <3>1, BeginStep DEF Promise!Next
  <2>2. CASE ~Empty
    <3>1. /\ file' = Advanced(file)
          /\ back' = (IF back > 0 THEN back - 1 ELSE 0)
          /\ ret' = [op |-> "fgetc", want |-> 1, got |-> <<NextByte>>, why |-> "done"]
          /\ UNCHANGED <<seekable, disk, koff, strayed, call>>
          /\ Ready
      BY <1>6, <2>2 DEF Fgetc
    <3>2. Got' = Append(<<>>, NextByte)
      BY <3>1 DEF Ready, Got
    <3>3. Promise!Take
      BY <2>2, <3>1, <3>2, TakeStep DEF IInv
    <3>4. QED
      BY <3>3 DEF Promise!Next
  <2>3. QED
    BY <2>1, <2>2
<1>7. ASSUME NEW c \in BackBytes, Ungetc(c) PROVE Promise!Push \/ Promise!Begin
  BY <1>7, UngetcStep
<1>8. CASE Putc
  <2>1. UNCHANGED <<file, disk, koff, back, call>> /\ Ready
    BY <1>8, PutcKeeps DEF Putc
  <2>2. Got' = <<>>
    BY <1>8, <2>1, PutcKeeps DEF Ready, Got
  <2>3. QED
    BY <2>1, <2>2, BeginStep DEF Promise!Next
<1>9. ASSUME NEW offset \in Offsets, NEW whence \in Whences, Fseek(offset, whence)
      PROVE  Promise!Begin \/ Promise!Move
  <2>1. offset \in Int
    BY BoundsAssumption DEF Offsets
  <2>2. /\ UNCHANGED <<disk, call>> /\ ret'.got = <<>>
        /\ \/ UNCHANGED <<file, koff, back>>
           \/ back' = 0
    BY <1>9, <2>1, FseekKeeps
  <2>3. Got' = <<>>
    BY <1>9, <2>2 DEF Fseek, Ready, Got
  <2>4. QED
    BY <2>2, <2>3, BeginStep, MoveStep DEF IInv
<1>10. CASE Fclose
  <2>1. /\ UNCHANGED <<disk, koff, call>> /\ ret'.got = <<>>
        /\ UNCHANGED <<file, back>> \/ back' = 0
    BY <1>10, FcloseKeeps
  <2>2. Got' = <<>>
    BY <1>10, <2>1 DEF Fclose, Ready, Got
  <2>3. QED
    BY <2>1, <2>2, BeginStep, MoveStep DEF IInv, Promise!Next
<1>11. CASE Freopen
  <2>1. /\ UNCHANGED call /\ ret'.got = <<>> /\ back' = 0 /\ file'.last = file'.readPtr
        /\ \/ disk' = <<>> /\ koff' = 0
           \/ UNCHANGED <<disk, koff>>
    BY <1>11, FreopenKeeps
  <2>2. Got' = <<>>
    BY <1>11, <2>1 DEF Freopen, Ready, Got
  <2>3. CASE disk' = <<>> /\ koff' = 0
    <3>1. file'.readPtr \in Nat /\ file'.last \in Nat
      BY DEF IInv, StreamInv, InStruct, FileOf
    <3>2. Pos' = 0
      BY <2>1, <2>3, <3>1 DEF Pos
    <3>3. Back' = <<>>
      BY <2>1, <3>1, SubSeqEmpty DEF Back
    <3>4. QED
      BY <2>2, <2>3, <3>2, <3>3 DEF Promise!Next, Promise!Open, Back
  <2>4. CASE UNCHANGED <<disk, koff>>
    BY <2>1, <2>2, <2>4, MoveStep DEF IInv, Promise!Next
  <2>5. QED
    BY <2>1, <2>3, <2>4
<1>12. QED
  BY <1>1, <1>2, <1>3, <1>4, <1>5, <1>6, <1>7, <1>8, <1>9, <1>10, <1>11
     DEF Next, CallStep, Promise!Next

\* The buffered stream is an InStream: whatever it reads ahead, a call receives
\* the bytes of the file from the stream's position on, pushed-back ones first.
THEOREM PromiseKeptHolds == Spec => PromiseKept
<1>1. Init => Promise!Init
  <2> SUFFICES ASSUME Init PROVE Promise!Init
    OBVIOUS
  <2>1. PICK k \in Kinds : file = InitialStruct(k)
    BY DEF Init
  <2>2. file.readPtr = 0 /\ file.last = 0 /\ file.buf = <<>>
    BY <2>1 DEF InitialStruct
  <2>3. Pos = 0 /\ Got = <<>>
    BY <2>2 DEF Init, Pos, Got
  <2>4. Back = <<>>
    BY <2>2, SubSeqEmpty DEF Init, Back
  <2>5. QED
    BY <2>3, <2>4 DEF Init, Promise!Init, Back
<1>2. IInv /\ IInv' /\ [Next]_vars => [Promise!Next]_(Promise!vars)
  <2>1. ASSUME IInv, IInv', Next PROVE Promise!Next \/ UNCHANGED Promise!vars
    BY <2>1, StepSimulated
  <2>2. ASSUME UNCHANGED vars PROVE UNCHANGED Promise!vars
    <3>1. Pos' = Pos /\ Got' = Got /\ Back' = Back /\ disk' = disk
      BY <2>2 DEF vars, Pos, Got, Back
    <3>2. QED
      BY <3>1, SeenStays
  <2>3. QED
    BY <2>1, <2>2
<1>3. QED
  BY <1>1, <1>2, IInvAlways, PTL DEF Spec, PromiseKept, Promise!Spec
=============================================================================
