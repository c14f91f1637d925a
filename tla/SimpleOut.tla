------------------------------ MODULE SimpleOut ------------------------------
(***************************************************************************)
(* The two small libraries that have only output streams:                  *)
(* c_stdio_stdout_simple1.c, unbuffered, and c_stdio_stdout_simple2.c,     *)
(* where setvbuf gives a stream a buffer and one of two buffering modes,   *)
(* and where an error stops the stream until clearerr.                     *)
(*                                                                         *)
(* The n-th byte a stream accepts is the number n; 0 is what a buffer      *)
(* holds before anything is stored.  bufp and bufpf are offsets from       *)
(* bufstart.  Of the two, the one that is not at bufend is in use: bufp    *)
(* of a fully buffered stream, bufpf of a line buffered one, or of one in  *)
(* error.  A call is a step; a write(2) may take any part of its bytes.    *)
(***************************************************************************)
EXTENDS Integers, Sequences

CONSTANTS
  StdoutSize, \* size of buf_stdout
  UserSizes,  \* the sizes of the buffers the program gives setvbuf
  MaxOut      \* bound: bytes a stream accepts

ASSUME StdoutSizeAssumption == StdoutSize \in Nat \ {0}
ASSUME UserSizesAssumption  == UserSizes \subseteq Nat \ {0}
ASSUME MaxOutAssumption     == MaxOut \in Nat

VARIABLES
  stream,   \* the struct _FILE
  mem,      \* what its buffer holds
  out,      \* the bytes the descriptor has got
  taken,    \* how many bytes the stream has accepted
  failed,   \* has a write(2) failed?
  told,     \* the last call, and whether it has reported success
  ended     \* has mini___M_flushall run?

outVars == <<stream, mem, out, taken, failed, told, ended>>

FBF == "full"
LBF == "line"
NBF == "none"

\* The streams at the start: stdout and stderr of simple2, stdout of simple1.
OutKinds == {"stdout", "stderr", "simple1"}

OutStruct(k) ==
  LET end == IF k = "stdout" THEN StdoutSize ELSE 0 IN
  [kind |-> k, p |-> 0, pf |-> end, end |-> end, err |-> FALSE, mode |-> FBF]

Junk(n) == [i \in 1..n |-> 0]

OutInit ==
  /\ \E k \in OutKinds : stream = OutStruct(k) /\ mem = Junk(OutStruct(k).end)
  /\ out = <<>> /\ taken = 0
  /\ failed = FALSE /\ ended = FALSE
  /\ told = [op |-> "none", nl |-> FALSE, ok |-> TRUE]

-----------------------------------------------------------------------------
(* The helpers of simple2.  Those of simple1 do the same to a stream whose *)
(* buffer has no room.                                                     *)

\* Mutant: the place of a fully buffered stream is not saved.
SetErrorNoSave(s) == [s EXCEPT !.err = TRUE, !.p = s.end]

\* set_error: bufp becomes the sentinel that stops fputc's fast path.
SetError(s) ==
  [s EXCEPT !.err = TRUE, !.p = s.end,
            !.pf = IF s.mode = FBF THEN s.p ELSE @]

\* How many bytes wait in the buffer.
Waiting(s) == IF s.p = s.end THEN s.pf ELSE s.p

\* The struct after everything in the buffer has got out.
Emptied(s) == IF s.mode = LBF THEN [s EXCEPT !.pf = 0] ELSE [s EXCEPT !.p = 0]

\* The ways mini_fflush of struct s with buffer m can end: k bytes get out.
Flushes(s, m) ==
  IF s.err THEN {[s |-> s, m |-> m, ok |-> FALSE, wrote |-> <<>>, took |-> FALSE]}
  ELSE {[s |-> IF k = Waiting(s) THEN Emptied(s) ELSE SetError(s), m |-> m,
         ok |-> k = Waiting(s), wrote |-> SubSeq(m, 1, k), took |-> FALSE] : k \in 0..Waiting(s)}

\* A byte is stored in front of bufpf: the line buffer.
LinePut(s, m, b, nl) ==
  LET t == [s EXCEPT !.pf = @ + 1]
      n == [m EXCEPT ![s.pf + 1] = b]
  IN IF nl THEN {[o EXCEPT !.took = TRUE] : o \in Flushes(t, n)}
     ELSE {[s |-> t, m |-> n, ok |-> TRUE, wrote |-> <<>>, took |-> TRUE]}

\* A byte is stored in front of bufp: the full buffer.
FullPut(s, m, b) ==
  {[s |-> [s EXCEPT !.p = @ + 1], m |-> [m EXCEPT ![s.p + 1] = b],
    ok |-> TRUE, wrote |-> <<>>, took |-> TRUE]}

\* A byte goes to a buffer that has just been flushed, or is not yet full.
RoomPut(s, m, b, nl) == IF s.p # s.end THEN FullPut(s, m, b) ELSE LinePut(s, m, b, nl)

\* The ways mini_fputc can end.
Puts(s, m, b, nl) ==
  CASE s.p # s.end -> FullPut(s, m, b)
    [] s.p = s.end /\ s.err ->
         {[s |-> s, m |-> m, ok |-> FALSE, wrote |-> <<>>, took |-> FALSE]}
    [] s.p = s.end /\ ~s.err /\ s.pf # s.end -> LinePut(s, m, b, nl)
    [] s.p = s.end /\ ~s.err /\ s.pf = s.end /\ s.end > 0 ->
         UNION {IF f.ok THEN {[o EXCEPT !.wrote = f.wrote \o @] : o \in RoomPut(f.s, m, b, nl)}
                ELSE {f} : f \in Flushes(s, m)}
    [] OTHER -> {[s |-> IF ok THEN s ELSE SetError(s), m |-> m, ok |-> ok,
                  wrote |-> IF ok THEN <<b>> ELSE <<>>, took |-> ok] : ok \in BOOLEAN}

-----------------------------------------------------------------------------
(* The calls. *)

\* The call ends as outcome o says.
Comes(o) ==
  /\ stream' = o.s /\ mem' = o.m
  /\ out' = out \o o.wrote
  /\ taken' = taken + (IF o.took THEN 1 ELSE 0)
  /\ failed' = (failed \/ (o.s.err /\ ~stream.err))

Tells(op, nl, ok) == told' = [op |-> op, nl |-> nl, ok |-> ok]

\* mini_fputc(c, filep); is c a newline?
OutFputc(nl) ==
  /\ ~ended /\ taken < MaxOut
  /\ \E o \in Puts(stream, mem, taken + 1, nl) : Comes(o) /\ Tells("fputc", nl, o.ok)
  /\ UNCHANGED ended

\* mini_fflush(filep); simple1 returns its error indicator.
OutFflush ==
  /\ ~ended
  /\ \E o \in Flushes(stream, mem) : Comes(o) /\ Tells("fflush", FALSE, o.ok)
  /\ UNCHANGED ended

\* mini_clearerr(filep): the saved place comes back.  The program calls it on
\* a stream in error that is not line buffered; on any other with a buffer it
\* would lose the place, or the line buffering.  Bound: MaxOut bytes are out.
OutClearerr ==
  /\ ~ended /\ Len(out) <= MaxOut
  /\ stream.end = 0 \/ (stream.err /\ stream.mode = FBF)
  /\ stream' = [stream EXCEPT !.err = FALSE, !.p = stream.pf,
                              !.pf = IF stream.mode = FBF THEN stream.end ELSE @]
  /\ Tells("clearerr", FALSE, TRUE)
  /\ UNCHANGED <<mem, out, taken, failed, ended>>

\* What setvbuf does first; it gives up when that fails.
SetvbufFlushes(s, m) == Flushes(s, m)

\* The struct with the new buffer; of size 0 for no buffering, and with the
\* old mode when the program gives no buffer.
Rebuffered(s, mode, n) ==
  [s EXCEPT !.end = n, !.p  = IF mode = LBF THEN n ELSE 0,
                       !.pf = IF mode = LBF THEN 0 ELSE n,
                       !.mode = IF n = 0 /\ mode # NBF THEN @ ELSE mode]

\* mini_setvbuf(filep, buf, mode, size) of simple2.  Size 0 stands for a buf
\* of NULL, which is refused, but after the pointers have been set.
OutSetvbuf(mode, n) ==
  /\ ~ended /\ stream.kind # "simple1"
  /\ mode = NBF => n = 0
  /\ \E o \in SetvbufFlushes(stream, mem) :
       IF o.ok
         THEN /\ Comes([o EXCEPT !.s = Rebuffered(@, mode, n), !.m = Junk(n)])
              /\ Tells("setvbuf", FALSE, n > 0 \/ mode = NBF)
         ELSE Comes(o) /\ Tells("setvbuf", FALSE, FALSE)
  /\ UNCHANGED ended

\* mini__M_set_linebuf(filep), which the start code calls for a terminal,
\* before anything is written.
OutSetLinebuf ==
  /\ told.op = "none" /\ stream.kind = "stdout" /\ stream.mode = FBF
  /\ stream' = [stream EXCEPT !.mode = LBF, !.pf = stream.p, !.p = stream.end]
  /\ UNCHANGED <<mem, out, taken, failed, told, ended>>

ExitFlushes(s, m) == Flushes(s, m)

\* mini___M_flushall, when main has returned.
OutFlushall ==
  /\ ~ended
  /\ \E o \in ExitFlushes(stream, mem) : Comes(o) /\ Tells("exit", FALSE, o.ok)
  /\ ended' = TRUE

OutNext ==
  \/ \E nl \in BOOLEAN : OutFputc(nl)
  \/ OutFflush \/ OutClearerr
  \/ \E mode \in {FBF, LBF, NBF}, n \in UserSizes \union {0} : OutSetvbuf(mode, n)
  \/ OutSetLinebuf \/ OutFlushall

OutSpec == OutInit /\ [][OutNext]_outVars
-----------------------------------------------------------------------------
(* Properties. *)

\* Everything the stream has passed on or still holds.
PassedOn == out \o SubSeq(mem, 1, Waiting(stream))

\* As long as no write(2) fails, the bytes that fputc has accepted are on the
\* descriptor or in the buffer, each once and in order, whatever setvbuf,
\* fflush and the changes between bufp and bufpf came in between.
OutOnce ==
  ~failed => PassedOn = [i \in 1..taken |-> i]

\* A failed flush keeps the buffer until clearerr, so that no accepted byte
\* is ever skipped or replaced by junk.  A byte that got out before the
\* failure may come again.
OutNoGap ==
  /\ \A i \in 1..Len(PassedOn) :
       /\ PassedOn[i] > 0
       /\ PassedOn[i] = 1 \/ \E j \in 1..i - 1 : PassedOn[j] = PassedOn[i] - 1
  /\ taken > 0 => \E i \in 1..Len(PassedOn) : PassedOn[i] = taken

\* A line is on the descriptor when the fputc of its newline to a line
\* buffered stream reports success.
OutLines ==
  stream.mode = LBF /\ told.op = "fputc" /\ told.nl /\ told.ok
    => Waiting(stream) = 0

\* All that was accepted is out when the program ends without an error.
OutDelivered ==
  ended /\ told.ok /\ taken > 0 => out # <<>> /\ out[Len(out)] = taken

\* What the stream has accepted goes out, in order, without a gap, a line in
\* time, and all of it before the program ends.
OutRight == OutOnce /\ OutNoGap /\ OutLines /\ OutDelivered

=============================================================================
