----------------------------- MODULE StdioTable -----------------------------
(***************************************************************************)
(* All the streams of a stdio_medium program together: the three standard  *)
(* structs, the FILE_CAPACITY slots of mini___M_global_files, the kernel's *)
(* descriptor table under them, and mini_exit, which flushes what is open. *)
(*                                                                         *)
(* A byte is the path it was written for; a file is the number of bytes on *)
(* it.  The streams of StdioOut are used through putc here, those of       *)
(* StdioIn only as open ones.                                              *)
(***************************************************************************)
EXTENDS StdioFile, FiniteSetsExt

CONSTANTS
  Capacity,   \* FILE_CAPACITY
  BufSize,    \* the size of every buffer
  Paths,      \* the files the program opens
  MaxFd,      \* the largest descriptor the process may have
  MaxBytes    \* bound: bytes written to all streams

ASSUME CapacityAssumption == Capacity \in Nat \ {0}
ASSUME BufSizeAssumption  == BufSize \in Nat \ {0}
ASSUME FdAssumption       == MaxFd \in Nat /\ MaxFd >= 2
ASSUME BoundAssumption    == MaxBytes \in Nat

StdIn  == -3
StdOut == -2
StdErr == -1
Std     == {StdIn, StdOut, StdErr}
Slots   == 1..Capacity
Streams == Std \union Slots

Fds    == 0..MaxFd
None   == "none"     \* a descriptor that is not open
Raw    == "raw"      \* what stands behind descriptors 0, 1 and 2 at the start
Targets == Paths \union {Raw}

ASSUME PathsAssumption == None \notin Paths

VARIABLES
  st,       \* the struct of every stream
  fd,       \* its fd field, -1 if closed
  fds,      \* the kernel's descriptor table: what each descriptor writes to
  disk,     \* bytes on each target
  owed,     \* bytes accepted for it that are neither lost nor truncated away
  own,      \* the descriptors the program has opened with open(2) itself
  held,     \* the streams the program may use
  todo,     \* mini_exit: the streams still to be flushed
  phase     \* "run", "exit" or "gone"

vars == <<st, fd, fds, disk, owed, own, held, todo, phase>>

-----------------------------------------------------------------------------
InitialStruct(s) ==
  LET end == IF s = StdErr THEN 0 ELSE BufSize IN
  [bufEnd |-> end, capEnd |-> BufSize, readPtr |-> 0, last |-> 0, off |-> 0, buf |-> <<>>,
   dire |-> CASE s = StdIn -> FD_READ
              [] s \in {StdOut, StdErr} -> FD_WRITE
              [] s \in Slots -> FD_CLOSED,
   writePtr |-> IF s = StdIn THEN end ELSE 0]

Init ==
  /\ st = [s \in Streams |-> InitialStruct(s)]
  /\ fd = [s \in Streams |-> CASE s = StdIn -> 0 [] s = StdOut -> 1
                               [] s = StdErr -> 2 [] s \in Slots -> -1]
  /\ fds = [n \in Fds |-> IF n <= 2 THEN Raw ELSE None]
  /\ disk = [t \in Targets |-> 0]
  /\ owed = [t \in Targets |-> 0]
  /\ own = {}
  /\ held = Std
  /\ todo = <<>>
  /\ phase = "run"

Running == phase = "run"

IsOpen(s) == st[s].dire # FD_CLOSED

Modes == {"r", "w", "a"}
DireOf(mode) == IF mode \in {"w", "a"} THEN FD_WRITE ELSE FD_READ

\* open(2) gives the lowest free descriptor.
FreeFds == {n \in Fds : fds[n] = None}

\* The open(2) flags of jmp_freopen_low: 1101o for "w", 3101o for "a", both
\* with O_TRUNC, 0 for "r".
Truncates(mode) == mode \in {"w", "a"}

\* What open(2) does to the files.
OpenFile(path, mode) ==
  IF Truncates(mode)
    THEN /\ disk' = [disk EXCEPT ![path] = 0]
         /\ owed' = [owed EXCEPT ![path] = @ - disk[path]]
    ELSE UNCHANGED <<disk, owed>>

\* mini_fflush of a struct, k bytes of it successfully.  (Where they go in the
\* file is the subject of StdioOut: buf_off stays 0 here.)
Emptied(f, k) ==
  IF IsAnyWrite(f.dire) THEN [Flushed(f, k) EXCEPT !.off = 0] ELSE f

\* write(2) of the first k of the bytes bs to stream s; the others are lost.
Deliver(s, bs, k) ==
  LET t == fds[fd[s]] IN
  IF bs = <<>> THEN UNCHANGED <<disk, owed>>
  ELSE /\ disk' = [disk EXCEPT ![t] = @ + k]
       /\ owed' = [owed EXCEPT ![t] = @ - (Len(bs) - k)]

-----------------------------------------------------------------------------
\* The program's own open(2) and close(2).
OpenRaw(path) ==
  /\ Running /\ FreeFds # {}
  /\ LET n == Min(FreeFds) IN
     fds' = [fds EXCEPT ![n] = path] /\ own' = own \union {n}
  /\ UNCHANGED <<st, fd, disk, owed, held, todo, phase>>

CloseRaw(n) ==
  /\ Running /\ n \in own
  /\ fds' = [fds EXCEPT ![n] = None] /\ own' = own \ {n}
  /\ UNCHANGED <<st, fd, disk, owed, held, todo, phase>>

\* The slots whose struct says FD_CLOSED.
FreeSlots == {s \in Slots : ~IsOpen(s)}

\* mini_fopen(pathname, mode): the first closed slot, then open(2), which is
\* not called if there is no slot.
Fopen(path, mode) ==
  /\ Running
  /\ FreeSlots # {} /\ FreeFds # {}
  /\ LET s == Min(FreeSlots)
         n == Min(FreeFds)
         f == [st[s] EXCEPT !.bufEnd = BufSize, !.capEnd = BufSize] IN
     /\ st' = [st EXCEPT ![s] = Opened(f, DireOf(mode))]
     /\ fd' = [fd EXCEPT ![s] = n]
     /\ fds' = [fds EXCEPT ![n] = path]
     /\ held' = held \union {s}
     /\ OpenFile(path, mode)
  /\ UNCHANGED <<own, todo, phase>>

\* mini_fdopen(fd, mode) of a descriptor the program has opened: the stream
\* owns it from now on.
Fdopen(n, mode) ==
  /\ Running /\ n \in own
  /\ FreeSlots # {}
  /\ LET s == Min(FreeSlots)
         f == [st[s] EXCEPT !.bufEnd = BufSize, !.capEnd = BufSize] IN
     /\ st' = [st EXCEPT ![s] = Opened(f, DireOf(mode))]
     /\ fd' = [fd EXCEPT ![s] = n]
     /\ own' = own \ {n}
     /\ held' = held \union {s}
  /\ UNCHANGED <<fds, disk, owed, todo, phase>>

\* Mutant: close(2) is skipped when the flush has failed.
DescriptorsAfterCloseOk(n, ok) == IF ok THEN [fds EXCEPT ![n] = None] ELSE fds

\* The descriptor table after close(n), whatever the flush before returned.
DescriptorsAfterClose(n, ok) == [fds EXCEPT ![n] = None]

\* mini_fclose(s): flush, close(2), FD_CLOSED, also when the flush fails.
\* The program does not use a slot it has closed.
Fclose(s) ==
  /\ Running /\ s \in held /\ IsOpen(s)
  /\ \E k \in 0..Len(st[s].buf) :
       /\ Deliver(s, st[s].buf, k)
       /\ fds' = DescriptorsAfterClose(fd[s], k = Len(st[s].buf))
       /\ st' = [st EXCEPT ![s] = Closed(Emptied(@, k))]
  /\ fd' = [fd EXCEPT ![s] = -1]
  /\ held' = held \ (Slots \intersect {s})
  /\ UNCHANGED <<own, todo, phase>>

\* Mutant: freopen does not close the stream first.
FreopenFlushesNot(s) == <<>>

\* What freopen has to flush before it opens: fclose of an open stream.
FreopenFlushes(s) == st[s].buf

\* mini_freopen(pathname, mode, s): fclose, then, if that returned 0, open(2),
\* which may get another descriptor.  On failure the stream stays closed.
Freopen(path, mode, s) ==
  /\ Running /\ s \in held
  /\ LET bs     == FreopenFlushes(s)
         closed == IF IsOpen(s) THEN [fds EXCEPT ![fd[s]] = None] ELSE fds
         f      == Emptied(st[s], Len(bs))
     IN
     \/ LET n == Min({m \in Fds : closed[m] = None}) IN
        /\ {m \in Fds : closed[m] = None} # {}
        /\ st' = [st EXCEPT ![s] = Opened(Closed(f), DireOf(mode))]
        /\ fd' = [fd EXCEPT ![s] = n]
        /\ fds' = [closed EXCEPT ![n] = path]
        /\ LET flushed == IF bs = <<>> THEN disk
                          ELSE [disk EXCEPT ![fds[fd[s]]] = @ + Len(bs)] IN
           IF Truncates(mode)
             THEN /\ disk' = [flushed EXCEPT ![path] = 0]
                  /\ owed' = [owed EXCEPT ![path] = @ - flushed[path]]
             ELSE disk' = flushed /\ UNCHANGED owed
        /\ UNCHANGED held
     \/ \E k \in 0..Len(bs) :
          /\ Deliver(s, bs, k)
          /\ st' = [st EXCEPT ![s] = IF IsOpen(s) THEN Closed(f) ELSE @]
          /\ fd' = [fd EXCEPT ![s] = -1]
          /\ fds' = closed
          /\ held' = held \ (Slots \intersect {s})
  /\ UNCHANGED <<own, todo, phase>>

\* mini_fflush of stream s, which gets k bytes out.
FlushStep(s, k) ==
  /\ Deliver(s, st[s].buf, k)
  /\ st' = [st EXCEPT ![s] = Emptied(@, k)]

\* mini_fflush(s).
Fflush(s) ==
  /\ Running /\ s \in held /\ IsAnyWrite(st[s].dire)
  /\ \E k \in 0..Len(st[s].buf) : FlushStep(s, k)
  /\ UNCHANGED <<fd, fds, own, held, todo, phase>>

\* putc to stream s: into the buffer, which is flushed first if it is full,
\* or, without a buffer, to the file.
Putc(s) ==
  /\ Running /\ s \in held /\ IsAnyWrite(st[s].dire)
  /\ MapThenSumSet(LAMBDA t : owed[t], Targets) < MaxBytes
  /\ LET f == st[s]
         t == fds[fd[s]]
         full == f.writePtr = f.bufEnd IN
     \/ /\ f.bufEnd = 0
        /\ disk' = [disk EXCEPT ![t] = @ + 1] /\ owed' = [owed EXCEPT ![t] = @ + 1]
        /\ UNCHANGED st
     \/ /\ f.bufEnd > 0
        /\ disk' = IF full THEN [disk EXCEPT ![t] = @ + Len(f.buf)] ELSE disk
        /\ owed' = [owed EXCEPT ![t] = @ + 1]
        /\ st' = [st EXCEPT ![s] =
                    LET g == IF full THEN Emptied(f, Len(f.buf)) ELSE f IN
                    [g EXCEPT !.writePtr = @ + 1, !.buf = Append(@, t)]]
     \/ \E k \in 0..Len(f.buf) - 1 : full /\ FlushStep(s, k)
  /\ UNCHANGED <<fd, fds, own, held, todo, phase>>

\* Mutants: the last slot is not looked at; the slots are counted from 0.
FlushedAtExitShort == <<StdOut>> \o [i \in 1..Capacity - 1 |-> i]
FlushedAtExitFrom0 == <<StdOut>> \o [i \in 1..Capacity |-> i - 1]

\* start_flush_stdout, then start_flush_opened: the global files in order.
FlushedAtExit == <<StdOut>> \o [i \in 1..Capacity |-> i]

\* mini_exit(exit_code), or the return of main.
Exit ==
  /\ Running
  /\ phase' = "exit" /\ todo' = FlushedAtExit
  /\ UNCHANGED <<st, fd, fds, disk, owed, own, held>>

\* Mutant: a stream whose fflush returns EOF is flushed again.
TodoAfterRetry(ok) == IF ok THEN Tail(todo) ELSE todo

\* What is left to flush, whatever mini_fflush has returned.
TodoAfter(ok) == Tail(todo)

\* One of its mini_fflush calls; a stream that is not written is passed over.
ExitFlush ==
  /\ phase = "exit" /\ todo # <<>>
  /\ LET s == Head(todo) IN
     IF IsAnyWrite(st[s].dire)
       THEN \E k \in 0..Len(st[s].buf) :
              FlushStep(s, k) /\ todo' = TodoAfter(k = Len(st[s].buf))
       ELSE UNCHANGED <<st, disk, owed>> /\ todo' = TodoAfter(FALSE)
  /\ UNCHANGED <<fd, fds, own, held, phase>>

\* mini__exit: the kernel closes everything.
ExitProcess ==
  /\ phase = "exit" /\ todo = <<>>
  /\ phase' = "gone"
  /\ UNCHANGED <<st, fd, fds, disk, owed, own, held, todo>>

ExitStep == ExitFlush \/ ExitProcess

Next ==
  \/ \E path \in Paths : OpenRaw(path)
  \/ \E n \in Fds : CloseRaw(n)
  \/ \E path \in Paths, mode \in Modes : Fopen(path, mode)
  \/ \E n \in Fds, mode \in Modes : Fdopen(n, mode)
  \/ \E s \in Streams : Fclose(s) \/ Fflush(s) \/ Putc(s)
  \/ \E path \in Paths, mode \in Modes, s \in Streams : Freopen(path, mode, s)
  \/ Exit \/ ExitStep

\* Nothing stops a process that has begun to exit.
Spec == Init /\ [][Next]_vars /\ WF_vars(ExitStep)
-----------------------------------------------------------------------------
(* Properties. *)

\* The streams in some order, and the sum of f over all of them.
Nth(n) == IF n <= 3 THEN -n ELSE n - 3

Total(f) ==
  LET sum[n \in 0..Capacity + 3] == IF n = 0 THEN 0 ELSE sum[n - 1] + f[Nth(n)]
  IN  sum[Capacity + 3]

\* What each stream holds for target t.
Pending(t) ==
  [s \in Streams |-> IF IsOpen(s) /\ fds[fd[s]] = t THEN Len(st[s].buf) ELSE 0]

\* The state's shape.
TypeOK ==
  /\ st \in [Streams -> FileOf(Targets)]
  /\ fd \in [Streams -> Fds \union {-1}]
  /\ fds \in [Fds -> Targets \union {None}]
  /\ disk \in [Targets -> Nat] /\ owed \in [Targets -> Nat]
  /\ own \subseteq Fds /\ held \subseteq Streams
  /\ todo \in Seq(Streams) /\ phase \in {"run", "exit", "gone"}

\* No descriptor is leaked, used twice or used after it was closed: the open
\* descriptors are those the program has opened itself and, one each, those
\* of the open streams, whichever calls have failed.
DescriptorsAccounted ==
  LET opened == {s \in Streams : IsOpen(s)} IN
  /\ {n \in Fds : fds[n] # None} = own \union {fd[s] : s \in opened}
  /\ \A s \in opened : fd[s] \notin own
  /\ \A s, t \in opened : s # t => fd[s] # fd[t]

\* No slot is leaked, and none is taken twice: the slots in use are exactly
\* the streams that fopen and fdopen have given out and that are not closed.
SlotsAccounted == {s \in Slots : IsOpen(s)} = held \intersect Slots

\* Every byte written to a stream and not reported lost is in the buffer of a
\* stream that is open on that file, or on the file: closing, reopening and
\* exiting never drop a byte silently or send it to another file.
Conserved == \A t \in Targets : owed[t] = disk[t] + Total(Pending(t))

\* When the process is gone, stdout and every stream of fopen and fdopen have
\* been flushed.
FlushedWhenGone ==
  phase = "gone" => \A s \in Slots \union {StdOut} : st[s].buf = <<>>

\* A process that exits is gone in the end, whatever its flushes return.
ExitEnds == phase = "exit" ~> phase = "gone"

\* No descriptor and no slot is leaked or used twice, whatever has failed.
NothingLeaks == TypeOK /\ DescriptorsAccounted /\ SlotsAccounted

\* Closing, reopening and exiting drop no byte.
NothingDropped == Conserved /\ FlushedWhenGone

=============================================================================
