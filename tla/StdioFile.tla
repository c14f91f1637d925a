------------------------------ MODULE StdioFile ------------------------------
(***************************************************************************)
(* struct _SMS_FILE of the stdio_medium library and the two helpers every  *)
(* stdio function goes through: discard_buf and fflush.                    *)
(*                                                                         *)
(* The pointers are kept as offsets from buf_start, which is therefore 0.  *)
(* The field buf holds what the buffer memory holds between buf_start and  *)
(* the pointer that ends the valid part: buf_write_ptr of a stream that is *)
(* written, buf_last of a stream that is read.                             *)
(***************************************************************************)
EXTENDS Integers, Sequences

FD_CLOSED         == 0
FD_READ           == 1
FD_READ_LINEBUF   == 3
FD_WRITE          == 4
FD_WRITE_RELAXED  == 5
FD_WRITE_LINEBUF  == 6

Dires == {FD_CLOSED, FD_READ, FD_READ_LINEBUF,
          FD_WRITE, FD_WRITE_RELAXED, FD_WRITE_LINEBUF}

\* IS_FD_ANY_READ and IS_FD_ANY_WRITE: the byte compares on dire.
IsAnyRead(d)  == d \in 1..3
IsAnyWrite(d) == d > 3

\* The struct; Elem is the set of things a byte of the buffer can stand for.
FileOf(Elem) ==
  [writePtr: Nat, bufEnd: Nat, readPtr: Nat, last: Nat, dire: Dires,
   capEnd: Nat, off: Int, buf: Seq(Elem)]

\* Mutants: no sentinel for writes; buf_last stays.
DiscardBufNoSentinel(f) ==
  [f EXCEPT !.last = 0, !.readPtr = 0, !.buf = <<>>, !.writePtr = 0]
DiscardBufKeepLast(f) ==
  [f EXCEPT !.readPtr = 0,
            !.writePtr = IF IsAnyRead(f.dire) THEN f.bufEnd ELSE 0]

\* mini___M_discard_buf: all pointers to the start, except that buf_write_ptr
\* of a stream that is read stays at buf_end, the sentinel that stops putc.
DiscardBuf(f) ==
  [f EXCEPT !.last = 0,
            !.readPtr = 0,
            !.buf = <<>>,
            !.writePtr = IF IsAnyRead(f.dire) THEN f.bufEnd ELSE 0]

\* Mutants: buf_off counts the bytes that were lost too; a failed flush keeps
\* the buffer; buf_off is not advanced at all.
FlushedAll(f, k)  == DiscardBuf([f EXCEPT !.off = @ + Len(f.buf)])
FlushedKeep(f, k) == LET g == [f EXCEPT !.off = @ + k] IN
                     IF k = Len(f.buf) THEN DiscardBuf(g) ELSE g
FlushedStill(f, k) == DiscardBuf(f)

\* mini_fflush after its write(2) loop has moved k of the pending bytes to the
\* kernel and has then run out of bytes or met a write that returned 0 or -1:
\* buf_off advances by k, and the buffer is discarded in both cases.
Flushed(f, k) == DiscardBuf([f EXCEPT !.off = @ + k])

\* The struct as fopen, fdopen and freopen leave it, in direction d, with a
\* buffer that ends at bufEnd.
Opened(f, d) == DiscardBuf([f EXCEPT !.dire = d, !.off = 0])

\* What fclose does to the struct: both sentinels, so that the putc and getc
\* macros fall into the slow path, which sees FD_CLOSED.
Closed(f) ==
  [f EXCEPT !.dire = FD_CLOSED,
            !.writePtr = f.bufEnd,
            !.readPtr = f.last]

\* mini___M_writebuf_relax: an unbuffered FD_WRITE stream gets the disabled
\* part of its buffer for the duration of one vfprintf.
Relaxed(f) ==
  IF f.dire = FD_WRITE /\ f.capEnd > f.bufEnd
    THEN [f EXCEPT !.dire = FD_WRITE_RELAXED,
                   !.capEnd = f.bufEnd, !.bufEnd = f.capEnd]
    ELSE f

\* Mutant: unrelax leaves the buffer enabled.
UnrelaxedOpen(f) == [f EXCEPT !.dire = FD_WRITE]

\* The second half of mini___M_writebuf_unrelax, after its fflush.
Unrelaxed(f) ==
  [f EXCEPT !.dire = FD_WRITE, !.capEnd = f.bufEnd, !.bufEnd = f.capEnd]
=============================================================================
