------------------------------- MODULE StdioIn -------------------------------
(***************************************************************************)
(* One input stream of stdio_medium: the FILE struct, the file behind its  *)
(* descriptor, which another process may append to at any time (a terminal *)
(* or a pipe delivers more the same way), and the library call in          *)
(* progress.  fread, fgets and the slow path of fgetc take one step per    *)
(* byte and one per read(2); the other calls are one action each.          *)
(***************************************************************************)
EXTENDS StdioFile

CONSTANTS
  BufSize,    \* BUF_SIZE of the stream
  Kinds,      \* which streams: a subset of StreamKinds
  FileBytes,  \* the bytes the file may hold
  BackBytes,  \* the bytes ungetc may push back
  NL,         \* the newline byte
  MaxLen,     \* bound: length of the file
  MaxPos,     \* bound: largest position fseek asks for
  MaxItem,    \* bound: size of an item of fread
  MaxSize     \* bound: size argument of fgets, bytes of one fread

\* Standard input, or a file opened with fopen or fdopen; standard input on a
\* terminal; mini_stderr after freopen with mode "r", which has no buffer.
StreamKinds == {"stdin", "tty", "stderr"}

ASSUME BufSizeAssumption  == BufSize \in Nat \ {0}
ASSUME KindsAssumption    == Kinds \subseteq StreamKinds
ASSUME BoundsAssumption   == /\ MaxLen \in Nat /\ MaxPos \in Nat
                             /\ MaxItem \in Nat /\ MaxSize \in Nat

Byte == FileBytes \union BackBytes \union {NL}

VARIABLES
  file,     \* the struct _SMS_FILE
  disk,     \* the content of the file
  koff,     \* the kernel's offset of the open file description
  seekable, \* does lseek(2) work on it?
  back,     \* how many bytes from buf_read_ptr on have been pushed back
  strayed,  \* has an fseek failed since the stream's offset was last known?
  call,     \* the call in progress, or idle
  ret       \* the last call: what it received, and why it ended

vars == <<file, disk, koff, seekable, back, strayed, call, ret>>

-----------------------------------------------------------------------------
Idle == [op |-> "idle", want |-> 0, got |-> <<>>]

Whys == {"done",     \* it did what was asked
         "eof",      \* read(2) returned 0
         "error",    \* a system call returned -1
         "refused"}  \* the struct or the arguments did not allow it

Ops   == {"idle", "fread", "fgets", "fgetc"}
Calls == Ops \union {"none", "ungetc", "putc", "fseek", "fclose", "freopen"}

InitialStruct(k) ==
  LET end == IF k = "stderr" THEN 0 ELSE BufSize IN
  [writePtr |-> end, bufEnd |-> end, readPtr |-> 0, last |-> 0, off |-> 0,
   dire |-> IF k = "tty" THEN FD_READ_LINEBUF ELSE FD_READ,
   capEnd |-> BufSize, buf |-> <<>>]

Init ==
  /\ \E k \in Kinds : /\ file = InitialStruct(k)
                     /\ seekable \in (IF k = "tty" THEN {FALSE} ELSE BOOLEAN)
  /\ disk = <<>> /\ koff = 0 /\ back = 0
  /\ strayed = FALSE
  /\ call = Idle
  /\ ret = [op |-> "none", want |-> 0, got |-> <<>>, why |-> "done"]

Ready == call = Idle

\* A call that is one action.
Returns(op, why) == ret' = [op |-> op, want |-> 0, got |-> <<>>, why |-> why]

\* The call in progress ends, having received got.
Finish(got, why) ==
  /\ call' = Idle
  /\ ret' = [op |-> call.op, want |-> call.want, got |-> got, why |-> why]

\* Where the next byte comes from, in the file; and what ftell says.
Pos  == koff - (file.last - file.readPtr)
Tell == file.off + file.readPtr

Min2(a, b) == IF a < b THEN a ELSE b

-----------------------------------------------------------------------------
(* fread, fgets, fgetc. *)

\* Someone else appends to the file.
Grow ==
  /\ Len(disk) < MaxLen
  /\ \E b \in FileBytes \union {NL} : disk' = Append(disk, b)
  /\ UNCHANGED <<seekable, file, koff, back, strayed, call, ret>>

Empty == file.readPtr = file.last
NextByte == file.buf[file.readPtr + 1]

\* A call that wants n bytes; op "fread" goes to .6 and returns 0 if it wants
\* none or the stream is not read; fgets goes to .5 if it wants none.
Begin(op, n) ==
  /\ IF n = 0 \/ (op = "fread" /\ ~IsAnyRead(file.dire))
       THEN /\ ret' = [op |-> op, want |-> n, got |-> <<>>,
                       why |-> IF n = 0 THEN "done" ELSE "refused"]
            /\ UNCHANGED call
       ELSE call' = [op |-> op, want |-> n, got |-> <<>>] /\ UNCHANGED ret
  /\ UNCHANGED <<seekable, file, disk, koff, back, strayed>>

\* mini_fread(ptr, size, nmemb, stream).  It returns how many times size goes
\* into the number of bytes it has received.
FreadStart(size, nmemb) ==
  Ready /\ size * nmemb <= MaxSize /\ Begin("fread", size * nmemb)

\* mini_fgets(s, size, filep): size - 1 bytes at most; NULL for size <= 0.
FgetsStart(size) ==
  /\ Ready
  /\ IF size <= 0
       THEN Returns("fgets", "refused")
            /\ UNCHANGED <<seekable, file, disk, koff, back, strayed, call>>
       ELSE Begin("fgets", size - 1)

\* The call is over once it has got all it wants, fgets also after a newline.
EndsAt(got) ==
  Len(got) = call.want \/ (call.op = "fgets" /\ got[Len(got)] = NL)

\* Mutant: the byte is read, and the pointer stays.
AdvancedNot(f) == f

Advanced(f) == [f EXCEPT !.readPtr = @ + 1]

\* The fast path of getc, fgets and fread (.4): a byte from the buffer.
TakeByte ==
  /\ call # Idle /\ ~Empty
  /\ file' = Advanced(file)
  /\ back' = IF back > 0 THEN back - 1 ELSE 0
  /\ LET got == Append(call.got, NextByte) IN
     IF EndsAt(got) THEN Finish(got, "done")
     ELSE call' = [call EXCEPT !.got = got] /\ UNCHANGED ret
  /\ UNCHANGED <<seekable, disk, koff, strayed>>

\* Mutants: buf_off is not told of the bytes that leave the buffer; the
\* buffer is filled without having been discarded.
EmptiedStill(f) == DiscardBuf(f)
EmptiedKeep(f)  == [f EXCEPT !.off = @ + f.last]

\* fread at .3 with an empty buffer, before its read(2).
Emptied(f) == DiscardBuf([f EXCEPT !.off = @ + f.last])

\* The struct after read(2) has returned bytes bs.
Filled(f, bs) == [f EXCEPT !.last = @ + Len(bs), !.buf = @ \o bs]

\* Mutant: a read(2) that returns 0 is tried again.
Exhausted(why) ==
  IF why = "eof" THEN UNCHANGED <<call, ret>> ELSE Finish(call.got, why)

\* read(2) returned 0 or -1: the call ends with what it has.
NoMore(why) == Finish(call.got, why)

\* fread at .3: the buffer is empty; one read(2) of at most a buffer.  It ends
\* the call if it returns 0, which a file at its end does (and any file asked
\* for no bytes), or -1.  fgets and fgetc on a stream that is not read get the
\* 0 of fread.  May the read(2) fail?
Refill(mayFail) ==
  /\ call # Idle /\ Empty
  /\ IF ~IsAnyRead(file.dire)
       THEN NoMore("refused") /\ UNCHANGED <<file, koff>>
       ELSE LET f == Emptied(file)
                n == Min2(f.bufEnd, Len(disk) - koff) IN
            \/ n > 0 /\ \E k \in 1..n :
                 /\ file' = Filled(f, SubSeq(disk, koff + 1, koff + k))
                 /\ koff' = koff + k
                 /\ UNCHANGED <<call, ret>>
            \/ n <= 0 /\ file' = f /\ NoMore("eof") /\ UNCHANGED koff
            \/ mayFail /\ file' = f /\ NoMore("error") /\ UNCHANGED koff
  /\ UNCHANGED <<seekable, disk, back, strayed>>

\* mini_fgetc(stream), getc and getchar: from the buffer, or fread(&c, 1, 1).
Fgetc ==
  /\ Ready
  /\ IF Empty
       THEN Begin("fgetc", 1)
       ELSE /\ file' = Advanced(file)
            /\ back' = IF back > 0 THEN back - 1 ELSE 0
            /\ ret' = [op |-> "fgetc", want |-> 1, got |-> <<NextByte>>, why |-> "done"]
            /\ UNCHANGED <<seekable, disk, koff, strayed, call>>

-----------------------------------------------------------------------------
(* ungetc, putc, fseek, fclose, freopen. *)

\* ungetc needs room in front of buf_read_ptr.
Pushable == IsAnyRead(file.dire) /\ file.readPtr > 0

\* mini_ungetc(c, stream): c goes into the buffer in front of buf_read_ptr,
\* if there is room, which there is only after a byte has been read.
Ungetc(c) ==
  /\ Ready
  /\ IF Pushable
       THEN /\ file' = [file EXCEPT !.readPtr = @ - 1, !.buf[file.readPtr] = c]
            /\ back' = back + 1
            /\ Returns("ungetc", "done")
       ELSE Returns("ungetc", "refused") /\ UNCHANGED <<file, back>>
  /\ UNCHANGED <<seekable, disk, koff, strayed, call>>

\* The putc macro: a store through buf_write_ptr unless it is buf_end; then
\* mini_fputc, whose fflush refuses a stream that is not written.
Putc ==
  /\ Ready
  /\ IF file.writePtr = file.bufEnd
       THEN Returns("putc", "refused") /\ UNCHANGED file
       ELSE Returns("putc", "done") /\ file' = [file EXCEPT !.writePtr = @ + 1]
  /\ UNCHANGED <<seekable, disk, koff, back, strayed, call>>

\* Mutant: SEEK_CUR counts from the kernel's offset.
SeekBaseKernel(whence) ==
  CASE whence = "SEEK_SET" -> 0
    [] whence = "SEEK_CUR" -> koff
    [] whence = "SEEK_END" -> Len(disk)

\* What offset is relative to: SEEK_CUR becomes SEEK_SET from ftell.
SeekBase(whence) ==
  CASE whence = "SEEK_SET" -> 0
    [] whence = "SEEK_CUR" -> Tell
    [] whence = "SEEK_END" -> Len(disk)

\* mini_fseek(stream, offset, whence) and rewind.  The buffer is discarded,
\* and SEEK_CUR has already set buf_off, when lseek(2) fails.
Fseek(offset, whence) ==
  /\ Ready
  /\ IF ~IsAnyRead(file.dire)
       THEN Returns("fseek", "refused") /\ UNCHANGED <<file, koff, back, strayed>>
       ELSE LET target == offset + SeekBase(whence)
                f == DiscardBuf([file EXCEPT
                       !.off = IF whence = "SEEK_CUR" THEN Tell ELSE @]) IN
            /\ back' = 0
            /\ IF seekable /\ target >= 0
                 THEN /\ target <= MaxPos
                      /\ koff' = target /\ file' = [f EXCEPT !.off = target]
                      /\ strayed' = FALSE
                      /\ Returns("fseek", "done")
                 ELSE /\ file' = f
                      /\ strayed' = TRUE
                      /\ Returns("fseek", "error") /\ UNCHANGED koff
  /\ UNCHANGED <<seekable, disk, call>>

\* mini_fclose: nothing to flush, so 0 unless the stream is already closed.
Fclose ==
  /\ Ready
  /\ IF file.dire = FD_CLOSED
       THEN Returns("fclose", "refused") /\ UNCHANGED <<file, back>>
       ELSE Returns("fclose", "done") /\ file' = Closed(file) /\ back' = 0
  /\ UNCHANGED <<seekable, disk, koff, strayed, call>>

\* mini_freopen(pathname, "r", filep), and mini_fopen when it picks this
\* struct: another file, or a failed open(2), which leaves the stream closed.
Freopen ==
  /\ Ready
  /\ back' = 0
  /\ \/ /\ file' = Opened(Closed(file), FD_READ)
        /\ disk' = <<>> /\ koff' = 0 /\ strayed' = FALSE
        /\ seekable' \in BOOLEAN
        /\ Returns("freopen", "done")
     \/ /\ file' = IF file.dire = FD_CLOSED THEN file ELSE Closed(file)
        /\ Returns("freopen", "error") /\ UNCHANGED <<disk, koff, seekable, strayed>>
  /\ UNCHANGED call

\* A step of the call in progress; may a read(2) fail in it?
CallStep(mayFail) == TakeByte \/ Refill(mayFail)

Offsets == -1..MaxPos
Whences == {"SEEK_SET", "SEEK_CUR", "SEEK_END"}

Next ==
  \/ Grow
  \/ \E size \in 1..MaxItem, nmemb \in 0..MaxSize : FreadStart(size, nmemb)
  \/ \E size \in 0..MaxSize : FgetsStart(size)
  \/ CallStep(TRUE)
  \/ Fgetc
  \/ \E c \in BackBytes : Ungetc(c)
  \/ Putc
  \/ \E offset \in Offsets, whence \in Whences : Fseek(offset, whence)
  \/ Fclose
  \/ Freopen

\* A call in progress runs on: nothing else in the process can run.  It must
\* not take an error of read(2) to end it.
Spec == Init /\ [][Next]_vars /\ WF_vars(CallStep(FALSE))
-----------------------------------------------------------------------------
(* Properties. *)

\* The state's shape.
TypeOK ==
  /\ file \in FileOf(Byte)
  /\ disk \in Seq(Byte) /\ koff \in Nat /\ back \in Nat
  /\ strayed \in BOOLEAN /\ seekable \in BOOLEAN
  /\ call \in [op: Ops, want: Nat, got: Seq(Byte)]
  /\ ret \in [op: Calls, want: Nat, got: Seq(Byte), why: Whys]

\* The invariants of the struct that stdio_medium.h states, for a stream that
\* is read: its pointers are in order, it holds what the buffer memory holds
\* up to buf_last, a closed one has nothing left to read, and what has been
\* pushed back is still there.
HeaderInvariant ==
  /\ file.bufEnd <= file.capEnd
  /\ file.readPtr <= file.last /\ file.last <= file.bufEnd
  /\ Len(file.buf) = file.last
  /\ file.dire = FD_CLOSED => file.readPtr = file.last
  /\ back <= file.last - file.readPtr

\* The sentinel: after any sequence of calls on an input stream, closed or
\* open, buf_write_ptr is buf_end, so that no putc stores into the buffer.
WriteSentinel == file.writePtr = file.bufEnd

\* buf_off is the file offset of buf: it and the bytes that were read ahead
\* make the kernel's offset, so ftell and SEEK_CUR are right, unless an fseek
\* has failed and none has succeeded since.
OffsetTracks == IsAnyRead(file.dire) /\ ~strayed => file.off + file.last = koff

\* Read-ahead is a copy of the file: the bytes between buf_read_ptr and
\* buf_last are those the kernel's offset has just passed, whatever was read,
\* pushed back and sought, except for the ones pushed back.
ReadAheadIsFile ==
  \A i \in file.readPtr + back + 1 .. file.last :
    /\ koff - file.last + i \in DOMAIN disk
    /\ file.buf[i] = disk[koff - file.last + i]

\* A successful fseek with SEEK_CUR moves the stream by offset from the byte
\* it would have read next, read-ahead and pushed-back bytes included.
SeekCurIsRelative ==
  [][\A offset \in Offsets :
       Fseek(offset, "SEEK_CUR") /\ ret'.why = "done" /\ ~strayed
         => Pos' = Pos + offset]_vars

\* A call ends for want of bytes only at the end of the file, with nothing
\* pushed back left.  (A stream without a buffer reads 0 bytes at a time.)
EofOnlyAtEnd ==
  [][call # Idle /\ call' = Idle /\ ret'.why = "eof" /\ file.bufEnd > 0
       => back = 0 /\ Pos >= Len(disk)]_vars

\* fgets delivers at most one line, and less than what was asked for only
\* with its newline or when the stream had no more.
LineShape ==
  ret.op = "fgets" =>
    LET n == Len(ret.got) IN
    /\ n <= ret.want
    /\ \A i \in 1..n - 1 : ret.got[i] # NL
    /\ n < ret.want /\ ret.why = "done" => n > 0 /\ ret.got[n] = NL

\* After a getc that returned a byte there is room to push one back.
UngetcAfterGetc ==
  ret.op = "fgetc" /\ ret.why = "done" /\ call = Idle => file.readPtr > 0

\* What the current or the last call has received.
Got == IF call = Idle THEN ret.got ELSE call.got

\* The stream is an InStream that is positioned where the next byte comes from.
Promise == INSTANCE InStream WITH pos <- Pos, got <- Got,
             back <- SubSeq(file.buf, file.readPtr + 1, file.readPtr + back)

PromiseKept == Promise!Spec

\* Every fread, fgets and fgetc that starts returns.
CallReturns == call.op # "idle" ~> call.op = "idle"

\* The struct has its shape, its pointers their order and putc its sentinel.
StructSound == TypeOK /\ HeaderInvariant /\ WriteSentinel

\* What is read ahead and pushed back is right, and so is what fgets makes of it.
BytesRight == ReadAheadIsFile /\ UngetcAfterGetc /\ LineShape

\* A seek starts from the byte that comes next, and a call stops early only
\* where the bytes end.
StepsRight == SeekCurIsRelative /\ EofOnlyAtEnd

=============================================================================
