------------------------------ MODULE StdioOut ------------------------------
(***************************************************************************)
(* One output stream of stdio_medium: the FILE struct, the kernel file     *)
(* behind its descriptor and the library call in progress.                 *)
(*                                                                         *)
(* The n-th byte the stream accepts is the number n, and log[n] says       *)
(* whether it is a newline and at which file position ftell placed it.     *)
(* A write(2) may take any part of what it is given, or fail: the number   *)
(* of bytes the kernel takes before it returns 0 or -1 is k.  fputc,       *)
(* fflush, fseek, fclose and freopen are one action each; the loops of     *)
(* fwrite and vfprintf take one step per byte or per write(2), so that     *)
(* what a process killed between two of them leaves behind is a state too. *)
(***************************************************************************)
EXTENDS StdioFile, KernelFile

CONSTANTS
  BufSize,    \* BUF_SIZE of the stream
  Kinds,      \* which streams: a subset of StreamKinds
  MaxChunk,   \* bound: bytes per fwrite or vfprintf call
  MaxBytes,   \* bound: bytes accepted between two openings of the stream
  MaxPos      \* bound: largest position fseek asks for

StreamKinds == {"stdout", "tty", "stderr", "file", "append"}

ASSUME BufSizeAssumption  == BufSize \in Nat \ {0}
ASSUME KindsAssumption    == Kinds \subseteq StreamKinds
ASSUME BoundsAssumption   == MaxChunk \in Nat \ {0} /\ MaxBytes \in Nat /\ MaxPos \in Nat

VARIABLES
  kind,     \* which of the StreamKinds this stream is
  file,     \* the struct _SMS_FILE
  disk,     \* content of the file, a sequence of byte numbers, 0 in a hole
  koff,     \* the kernel's offset of the open file description
  append,   \* was it opened with O_APPEND?
  seekable, \* does lseek(2) work on it?
  log,      \* for every accepted byte: is it a newline, and its position
  lost,     \* the accepted bytes a failed flush has thrown away
  call,     \* the fwrite or vfprintf in progress, or idle
  ret,      \* the last call, and whether its result says that all went well
  lossy,    \* has the last call thrown accepted bytes away?
  exited    \* has mini_exit run?

vars == <<kind, file, disk, koff, append, seekable, log, lost, call, ret, lossy, exited>>

-----------------------------------------------------------------------------
(* The kernel side. *)

\* O_APPEND moves the offset to the end of the file before every write(2).
WriteOff(bs) == IF append /\ bs # <<>> THEN Len(disk) ELSE koff

KernelWrite(bs) ==
  /\ disk' = PutAt(disk, WriteOff(bs), bs)
  /\ koff' = WriteOff(bs) + Len(bs)

-----------------------------------------------------------------------------
(* The struct. *)

Idle == [op |-> "idle", src |-> <<>>, want |-> 0, got |-> 0, puts |-> FALSE]

\* ftell of a stream that is written.
Tell(f) == f.off + f.writePtr

NextId == Len(log) + 1

InitialStruct(k) ==
  [writePtr |-> 0, readPtr |-> 0, last |-> 0, buf |-> <<>>, off |-> 0,
   bufEnd |-> IF k = "stderr" THEN 0 ELSE BufSize,
   capEnd |-> BufSize,
   dire |-> IF k = "tty" THEN FD_WRITE_LINEBUF ELSE FD_WRITE]

Init ==
  /\ kind \in Kinds
  /\ file = InitialStruct(kind)
  /\ disk = <<>> /\ koff = 0
  /\ append = (kind = "append")
  /\ seekable \in (IF kind = "tty" THEN {FALSE} ELSE BOOLEAN)
  /\ log = <<>> /\ lost = {}
  /\ call = Idle /\ ret = [op |-> "none", ok |-> TRUE]
  /\ lossy = FALSE /\ exited = FALSE

Ops   == {"idle", "fwriteLine", "fwriteCopy", "fwriteDirect", "vfprintf"}
Calls == Ops \union {"none", "fputc", "fputs", "fflush", "fseek", "fclose", "freopen", "exit"}

Ready == ~exited /\ call = Idle

Returns(op, ok) == ret' = [op |-> op, ok |-> ok]

\* Byte number NextId is accepted at the position ftell reports.
Accept(nl) == log' = Append(log, [nl |-> nl, pos |-> Tell(file)])

Stored(f, b) == [f EXCEPT !.writePtr = @ + 1, !.buf = Append(@, b)]

Full == file.writePtr = file.bufEnd

\* fflush of struct f whose write(2) loop gets k bytes out, after the bytes
\* of an earlier flush of the same call (none, if before is empty).
FlushAfter(before, f, k) ==
  /\ KernelWrite(before \o SubSeq(f.buf, 1, k))
  /\ file' = Flushed(f, k)
  /\ lost' = lost \union Elems(SubSeq(f.buf, k + 1, Len(f.buf)))

\* mini_fflush_RP3 on the stream; ok is "it returned 0".
Fflush_RP3(ok) ==
  \/ /\ ~IsAnyWrite(file.dire)
     /\ ~ok
     /\ UNCHANGED <<file, disk, koff, lost>>
  \/ /\ IsAnyWrite(file.dire)
     /\ \E k \in 0..Len(file.buf) :
          /\ ok = (k = Len(file.buf))
          /\ FlushAfter(<<>>, file, k)

-----------------------------------------------------------------------------
(* The ways one byte goes through fputc, the putc macro, the copy loops of *)
(* fwrite and the inlined putc of vfprintf.  flushAfter: must the buffer   *)
(* be flushed once the byte is in it?                                      *)

\* The struct with room for a byte: itself, or flushed if it is full.
Roomy == IF Full THEN Flushed(file, Len(file.buf)) ELSE file

\* What the flush that makes room writes.
RoomWrites == IF Full THEN file.buf ELSE <<>>

\* The byte is stored, after a successful flush of the full buffer.
PutStored(nl) ==
  /\ file.bufEnd > 0 /\ (Full => IsAnyWrite(file.dire))
  /\ Accept(nl)
  /\ KernelWrite(RoomWrites)
  /\ file' = Stored(Roomy, NextId)
  /\ UNCHANGED lost

\* The byte is stored as above and flushed; ok is "that flush succeeded".
PutFlushed(nl, ok) ==
  /\ file.bufEnd > 0 /\ (Full => IsAnyWrite(file.dire))
  /\ Accept(nl)
  /\ LET f == Stored(Roomy, NextId) IN
     \E k \in 0..Len(f.buf) : /\ ok = (k = Len(f.buf))
                              /\ FlushAfter(RoomWrites, f, k)

\* The buffer is full (or the struct holds the sentinel of a stream that is
\* not written) and the flush fails: the byte is not accepted.
PutRefused ==
  /\ Full
  /\ Fflush_RP3(FALSE)
  /\ UNCHANGED log

\* No buffer: one write(2) of one byte.  buf_off is left alone.
PutUnbuffered(nl, ok) ==
  /\ file.bufEnd = 0 /\ IsAnyWrite(file.dire)
  /\ IF ok THEN Accept(nl) /\ KernelWrite(<<NextId>>)
           ELSE UNCHANGED <<log, disk, koff>>
  /\ UNCHANGED <<file, lost>>

\* mini_fputc_RP3(c, filep), and putc(c, filep), whose fast path does the
\* same; ok is "it did not return EOF".
Fputc_RP3(nl, ok) ==
  LET flushAfter == nl /\ file.dire = FD_WRITE_LINEBUF IN
  \/ PutUnbuffered(nl, ok)
  \/ ~flushAfter /\ ok /\ PutStored(nl)
  \/ flushAfter /\ PutFlushed(nl, ok)
  \/ ~ok /\ PutRefused

\* Mutant: EOF is added to the count.
CountEof(ok) == IF ok THEN 1 ELSE -1

Count(ok) == IF ok THEN 1 ELSE 0

\* Bound: the stream accepts at most MaxBytes bytes.
MayAccept(n) == Len(log) + n <= MaxBytes

\* Did this step throw accepted bytes away?
Loses == lost' # lost

Fputc(nl) ==
  /\ Ready /\ MayAccept(1)
  /\ \E ok \in BOOLEAN : Fputc_RP3(nl, ok) /\ Returns("fputc", ok)
  /\ lossy' = Loses
  /\ UNCHANGED <<kind, append, seekable, call, exited>>

-----------------------------------------------------------------------------
(* fwrite, and fputs, which is fwrite of the string.  The call in progress *)
(* holds, for every byte still to be consumed, whether it is a newline,    *)
(* how many have been consumed, and whether fputs has called fwrite.       *)

Chunks == UNION {[1..n -> BOOLEAN] : n \in 1..MaxChunk}

\* A call starts with no loss to report, and op chosen from the struct.
Start(op, src, puts) ==
  /\ call' = [op |-> op, src |-> src, want |-> Len(src), got |-> 0, puts |-> puts]
  /\ lossy' = FALSE

Nl  == Head(call.src)
Last == Len(call.src) = 1

\* The call returns g, or goes on with the rest of src after n more bytes.
\* fputs and puts return that count too, which is never the EOF of a failure.
Finish(g) ==
  /\ call' = Idle
  /\ IF call.puts THEN Returns("fputs", TRUE) ELSE Returns(call.op, g = call.want)
GoOn(n) ==
  IF n = Len(call.src)
    THEN Finish(call.got + n)
    ELSE /\ call' = [call EXCEPT !.src = SubSeq(@, n + 1, Len(@)), !.got = @ + n]
         /\ UNCHANGED ret

Keep == UNCHANGED <<kind, append, seekable, exited>>

\* Mutant: large data bypasses the buffer even when bytes wait in it.
FwriteLoopBypass(n) ==
  IF file.bufEnd = 0 \/ (file.dire # FD_WRITE_LINEBUF /\ n >= file.bufEnd)
    THEN "fwriteDirect"
    ELSE IF file.dire = FD_WRITE_LINEBUF THEN "fwriteLine" ELSE "fwriteCopy"

\* The loop that takes n bytes: .21 (no buffer), .5 (line buffered), .15
\* (empty buffer, large data) or .16.
FwriteLoop(n) ==
  CASE file.bufEnd = 0 -> "fwriteDirect"
    [] file.bufEnd # 0 /\ file.dire = FD_WRITE_LINEBUF -> "fwriteLine"
    [] OTHER -> IF file.writePtr = 0 /\ n >= file.bufEnd
                  THEN "fwriteDirect" ELSE "fwriteCopy"

\* mini_fwrite up to its loop, called by the program or by fputs or puts; .20
\* on a stream that is not written.
FwriteStart(src, puts) ==
  /\ Ready /\ MayAccept(Len(src))
  /\ IF ~IsAnyWrite(file.dire)
       THEN /\ IF puts THEN Returns("fputs", TRUE) ELSE Returns("fwriteDirect", FALSE)
            /\ lossy' = FALSE /\ UNCHANGED call
       ELSE Start(FwriteLoop(Len(src)), src, puts) /\ UNCHANGED ret
  /\ UNCHANGED <<file, disk, koff, log, lost>> /\ Keep

\* mini_fwrite(ptr, size, nmemb, stream); mini_fputs(s, filep), and each half
\* of mini_puts(s).
Fwrite(src) == FwriteStart(src, FALSE)
Fputs(src)  == FwriteStart(src, TRUE)

\* One turn of the loop .13: the buffer is flushed when it is full, and
\* after the last newline of the data.
FwriteLine ==
  /\ call.op = "fwriteLine"
  /\ LET lastNl == Nl /\ ~\E i \in 2..Len(call.src) : call.src[i] IN
     \/ ~lastNl /\ PutStored(Nl) /\ GoOn(1)
     \/ lastNl /\ PutFlushed(Nl, TRUE) /\ GoOn(1)
     \/ lastNl /\ PutFlushed(Nl, FALSE) /\ Finish(call.got + 1)
     \/ PutRefused /\ Finish(call.got)
  /\ lossy' = (lossy \/ Loses)
  /\ Keep

\* One turn of the loop .17/.16 that copies into the buffer until it is full.
FwriteCopy ==
  /\ call.op = "fwriteCopy"
  /\ ~Full /\ PutStored(Nl) /\ GoOn(1)
  /\ UNCHANGED lossy /\ Keep

\* .15: the buffer is full and there is more: flush, then write directly.
FwriteFlush ==
  /\ call.op = "fwriteCopy"
  /\ Full
  /\ \E ok \in BOOLEAN :
       /\ Fflush_RP3(ok)
       /\ IF ok THEN call' = [call EXCEPT !.op = "fwriteDirect"] /\ UNCHANGED ret
                ELSE Finish(call.got)
  /\ lossy' = (lossy \/ Loses)
  /\ UNCHANGED log /\ Keep

\* .18: one write(2) of what remains; 0 or -1 ends the call.
FwriteDirect ==
  /\ call.op = "fwriteDirect"
  /\ \E k \in 0..Len(call.src) :
       LET ids == [i \in 1..k |-> Len(log) + i] IN
       IF k = 0
         THEN Finish(call.got) /\ UNCHANGED <<file, disk, koff, log>>
         ELSE /\ KernelWrite(ids)
              /\ file' = [file EXCEPT !.off = @ + k]
              /\ log' = log \o [i \in 1..k |->
                                  [nl |-> call.src[i], pos |-> Tell(file) + i - 1]]
              /\ GoOn(k)
  /\ UNCHANGED <<lost, lossy>> /\ Keep

-----------------------------------------------------------------------------
(* vfprintf: relax, one putc per output byte, unrelax.                     *)

VfprintfStart(src) ==
  /\ Ready /\ MayAccept(Len(src))
  /\ file' = Relaxed(file)
  /\ Start("vfprintf", src, FALSE)
  /\ UNCHANGED <<disk, koff, log, lost, ret>> /\ Keep

\* Mutant: a byte that meets EOF is tried again.
VfprintfByteRetry ==
  /\ call.op = "vfprintf" /\ call.src # <<>>
  /\ \E ok \in BOOLEAN :
       /\ Fputc_RP3(Nl, ok)
       /\ call' = IF ok THEN [call EXCEPT !.src = Tail(@), !.got = @ + 1] ELSE call
  /\ lossy' = (lossy \/ Loses)
  /\ UNCHANGED ret /\ Keep

\* .call_mini_putc: the count goes up unless fputc returned EOF, and the
\* formatting goes on in both cases.
VfprintfByte ==
  /\ call.op = "vfprintf" /\ call.src # <<>>
  /\ \E ok \in BOOLEAN :
       /\ Fputc_RP3(Nl, ok)
       /\ call' = [call EXCEPT !.src = Tail(@), !.got = @ + Count(ok)]
  /\ lossy' = (lossy \/ Loses)
  /\ UNCHANGED ret /\ Keep

\* .done: unrelax flushes a relaxed stream and ignores how that went.
VfprintfEnd ==
  /\ call.op = "vfprintf" /\ call.src = <<>>
  /\ IF file.dire = FD_WRITE_RELAXED
       THEN \E k \in 0..Len(file.buf) :
              /\ KernelWrite(SubSeq(file.buf, 1, k))
              /\ file' = Unrelaxed(Flushed(file, k))
              /\ lost' = lost \union Elems(SubSeq(file.buf, k + 1, Len(file.buf)))
       ELSE UNCHANGED <<file, disk, koff, lost>>
  /\ Finish(call.got)
  /\ lossy' = (lossy \/ Loses)
  /\ UNCHANGED log /\ Keep

-----------------------------------------------------------------------------
(* fflush, fseek, fclose, freopen and the end of the process.              *)

Fflush ==
  /\ Ready
  /\ \E ok \in BOOLEAN : Fflush_RP3(ok) /\ Returns("fflush", ok)
  /\ lossy' = Loses
  /\ UNCHANGED <<log, call>> /\ Keep

\* mini_fseek(stream, offset, whence), and rewind, on an output stream: flush,
\* then lseek(2) from where the flush has left the offset.  lseek fails on a
\* pipe and for a position before the start, and then leaves the offset alone.
Fseek(offset, whence) ==
  /\ Ready
  /\ \/ Fflush_RP3(FALSE) /\ Returns("fseek", FALSE)
     \/ /\ IsAnyWrite(file.dire)
        /\ UNCHANGED lost
        /\ LET at      == WriteOff(file.buf) + Len(file.buf)
               flushed == PutAt(disk, WriteOff(file.buf), file.buf)
               target  == offset + (CASE whence = "SEEK_SET" -> 0
                                      [] whence = "SEEK_CUR" -> at
                                      [] whence = "SEEK_END" -> Len(flushed))
               f       == Flushed(file, Len(file.buf))
           IN /\ disk' = flushed
              /\ IF seekable /\ target >= 0
                   THEN /\ target <= MaxPos
                        /\ koff' = target /\ file' = [f EXCEPT !.off = target]
                        /\ Returns("fseek", TRUE)
                   ELSE /\ koff' = at /\ file' = f
                        /\ Returns("fseek", FALSE)
  /\ lossy' = Loses
  /\ UNCHANGED <<log, call>> /\ Keep

\* mini_fclose: flush, close(2), sentinels.  The result is the flush's.
Fclose ==
  /\ Ready
  /\ \/ /\ file.dire = FD_CLOSED
        /\ Returns("fclose", FALSE)
        /\ UNCHANGED <<file, disk, koff, lost>>
     \/ /\ IsAnyWrite(file.dire)
        /\ \E k \in 0..Len(file.buf) :
             /\ KernelWrite(SubSeq(file.buf, 1, k))
             /\ file' = Closed(Flushed(file, k))
             /\ lost' = lost \union Elems(SubSeq(file.buf, k + 1, Len(file.buf)))
             /\ Returns("fclose", k = Len(file.buf))
  /\ lossy' = Loses
  /\ UNCHANGED <<log, call>> /\ Keep

\* mini_freopen(pathname, mode, filep) for mode "w" and "a", and mini_fopen
\* when it picks this struct.  An open stream is closed first; if its flush
\* fails, the stream stays closed and the call fails.  The open(2) flags of
\* both modes have O_TRUNC: the file behind the stream is now an empty one.
FreopenOpens(mode) ==
  /\ file' = Opened(Closed(Flushed(file, 0)), FD_WRITE)
  /\ disk' = <<>> /\ koff' = 0
  /\ append' = (mode = "a")
  /\ seekable' \in BOOLEAN
  /\ log' = <<>> /\ lost' = {}
  /\ lossy' = FALSE
  /\ Returns("freopen", TRUE)

FreopenFails ==
  /\ IF file.dire = FD_CLOSED
       THEN UNCHANGED <<file, disk, koff, lost>>
       ELSE \E k \in 0..Len(file.buf) :
              /\ KernelWrite(SubSeq(file.buf, 1, k))
              /\ file' = Closed(Flushed(file, k))
              /\ lost' = lost \union Elems(SubSeq(file.buf, k + 1, Len(file.buf)))
  /\ lossy' = Loses
  /\ Returns("freopen", FALSE)
  /\ UNCHANGED <<append, seekable, log>>

Freopen(mode) ==
  /\ Ready
  /\ FreopenOpens(mode) \/ FreopenFails
  /\ UNCHANGED <<kind, call, exited>>

\* mini_exit: start_flush_stdout and start_flush_opened flush the stream,
\* unless it is stderr, whatever the flush returns.
Exit ==
  /\ Ready
  /\ IF kind = "stderr"
       THEN UNCHANGED <<file, disk, koff, lost>>
       ELSE \E ok \in BOOLEAN : Fflush_RP3(ok)
  /\ exited' = TRUE
  /\ lossy' = Loses
  /\ Returns("exit", TRUE)
  /\ UNCHANGED <<kind, append, seekable, log, call>>

FwriteStep   == FwriteLine \/ FwriteCopy \/ FwriteFlush \/ FwriteDirect
VfprintfStep == VfprintfByte \/ VfprintfEnd

Offsets == -1..MaxPos
Whences == {"SEEK_SET", "SEEK_CUR", "SEEK_END"}

Next ==
  \/ \E nl \in BOOLEAN : Fputc(nl)
  \/ \E src \in Chunks : VfprintfStart(src) \/ Fwrite(src) \/ Fputs(src)
  \/ FwriteStep \/ VfprintfStep
  \/ Fflush
  \/ \E offset \in Offsets, whence \in Whences : Fseek(offset, whence)
  \/ Fclose
  \/ \E mode \in {"w", "a"} : Freopen(mode)
  \/ Exit

\* A call in progress runs on: nothing else in the process can run.
Fairness == WF_vars(FwriteStep) /\ WF_vars(VfprintfStep)

Spec == Init /\ [][Next]_vars /\ Fairness
-----------------------------------------------------------------------------
(* Properties. *)

\* The state's shape.
TypeOK ==
  /\ kind \in StreamKinds
  /\ file \in FileOf(Nat \ {0})
  /\ disk \in Seq(Nat) /\ koff \in Nat
  /\ append \in BOOLEAN /\ seekable \in BOOLEAN
  /\ log \in Seq([nl: BOOLEAN, pos: Int])
  /\ lost \subseteq Nat
  /\ call \in [op: Ops, src: Seq(BOOLEAN), want: Nat, got: Nat, puts: BOOLEAN]
  /\ ret \in [op: Calls, ok: BOOLEAN]
  /\ lossy \in BOOLEAN
  /\ exited \in BOOLEAN

\* The two invariants of the struct that stdio_medium.h states (the second
\* half of the buffer is enabled, and the first disabled, only while
\* vfprintf runs relaxed), what the buffer holds, and the sentinels that the
\* putc and getc macros rely on to stay out of a stream of another direction.
HeaderInvariant ==
  /\ 0 <= file.writePtr /\ file.writePtr <= file.bufEnd
  /\ file.dire # FD_WRITE_RELAXED => file.bufEnd <= file.capEnd
  /\ file.dire = FD_WRITE_RELAXED => file.capEnd = 0 /\ file.bufEnd = BufSize
  /\ 0 <= file.readPtr /\ file.readPtr <= file.last /\ file.last <= file.bufEnd
  /\ file.readPtr = file.last
  /\ IsAnyWrite(file.dire) => Len(file.buf) = file.writePtr
  /\ file.dire = FD_CLOSED => file.writePtr = file.bufEnd /\ file.buf = <<>>
  /\ file.dire = FD_WRITE_RELAXED => call.op = "vfprintf"

\* buf_off is the file offset of buf: on an open stream that is written
\* through a buffer, the kernel's offset and buf_off are the same, whatever
\* the flushes, short writes, errors and seeks before.
OffsetTracks ==
  IsAnyWrite(file.dire) /\ kind # "stderr" /\ ~append => file.off = koff

\* Every byte on disk is where ftell said it would go when it was accepted.
\* (Append mode is excepted by the header, stderr by OffsetTracks.)
PlacedWhereTold ==
  kind # "stderr" /\ ~append =>
    \A i \in DOMAIN disk : disk[i] # 0 => log[disk[i]].pos = i - 1

\* Flushes keep the order and write nothing twice: the pending bytes are in
\* the order they were accepted in and younger than all bytes on disk, and
\* no byte is on disk twice.
WrittenOnceInOrder ==
  /\ \A i, j \in DOMAIN file.buf : i < j => file.buf[i] < file.buf[j]
  /\ \A b \in Elems(file.buf), d \in Elems(disk) : d < b
  /\ \A i, j \in DOMAIN disk : i # j /\ disk[i] # 0 => disk[i] # disk[j]

\* Nothing vanishes: an accepted byte is pending, or on disk, or was lost by
\* a failed flush, or has been overwritten by a younger byte at its position.
\* (The positions of an unbuffered stream that has been moved are not known.)
Conserved ==
  kind # "stderr" \/ ~seekable => \A b \in DOMAIN log :
    \/ b \in Elems(file.buf) \union Elems(disk) \union lost
    \/ \E c \in DOMAIN log : c > b /\ log[c].pos = log[b].pos

\* A line-buffered stream never keeps a complete line between two calls.
LinesDelivered ==
  call = Idle /\ file.dire = FD_WRITE_LINEBUF =>
    \A b \in Elems(file.buf) : ~log[b].nl

\* A call that threw accepted bytes away says so with a short count, except
\* for fwrite on a line-buffered stream (the flush after the last newline),
\* vfprintf on an unbuffered one (the flush of unrelax), fputs and exit.
LossReported ==
  call = Idle /\ lossy =>
    \/ ~ret.ok
    \/ ret.op = "fputs"
    \/ ret.op = "fwriteLine" /\ file.dire = FD_WRITE_LINEBUF
    \/ ret.op = "vfprintf" /\ kind = "stderr"
    \/ ret.op = "exit"

\* stderr holds nothing back between calls, so exit may leave it alone.
StderrHoldsNothing ==
  kind = "stderr" /\ call = Idle => file.buf = <<>> /\ file.bufEnd = 0

\* The stream is an OutStream whose pending bytes are those in the buffer.
Promise == INSTANCE OutStream WITH at <- koff, pending <- file.buf,
             accepted <- Len(log), Capacity <- BufSize, MaxNew <- MaxChunk

PromiseKept == Promise!Spec

\* Every fwrite and printf that starts returns.
CallReturns == call.op # "idle" ~> call.op = "idle"

\* What happens to the bytes that a call has accepted: they go where ftell
\* said, in order, once, none vanishes without a word of the call, and a
\* line-buffered or an unbuffered stream does not hold them back.
BytesAccounted ==
  /\ PlacedWhereTold /\ WrittenOnceInOrder /\ Conserved
  /\ LossReported /\ LinesDelivered /\ StderrHoldsNothing

=============================================================================
