------------------------------ MODULE SimpleFile ------------------------------
(***************************************************************************)
(* stdio_file_simple.h, one interface with two implementations:            *)
(* c_stdio_file_simple_buffered.c and c_stdio_file_simple_unbuffered.c.    *)
(* A program makes the same calls to both, each on files of its own.       *)
(*                                                                         *)
(* bst, bkoff and bdisk belong to the buffered one, un to the other; dire  *)
(* and path hold for both.  A call is a step.  A system call may transfer  *)
(* less than it was asked to; one that fails, and an fseek that fails      *)
(* while reading, tell the two apart for good: from then on only the       *)
(* buffered one is followed.  The program does not use a struct it has     *)
(* closed, and calls fgetc and fflush in the direction of the stream.      *)
(* Offsets of a struct count from buf, which is therefore 0.               *)
(***************************************************************************)
EXTENDS KernelFile, FiniteSetsExt

CONSTANTS
  FileCapacity, \* FILE_CAPACITY
  FileBufSize,  \* BUF_SIZE
  Names,        \* the files
  Original,     \* what each holds at the start
  MaxWritten,   \* bound: bytes the program writes
  MaxCount,     \* bound: bytes per call
  Openings,     \* how the program opens them: pairs of a file and a mode
  Seeks,        \* the arguments of fseek: pairs of an offset and a whence
  Reach         \* bound: how far fseek goes

ASSUME FileCapacityAssumption == FileCapacity \in Nat \ {0}
ASSUME FileBufSizeAssumption  == FileBufSize \in Nat \ {0}
ASSUME OpeningsAssumption     == Openings \subseteq Names \X {"read", "write"}
ASSUME OriginalAssumption     == Original \in [Names -> Seq(Nat)]
ASSUME SeeksAssumption        ==
  Seeks \subseteq Int \X {"SEEK_SET", "SEEK_CUR", "SEEK_END"}
ASSUME FileBoundsAssumption   == MaxWritten \in Nat /\ MaxCount \in Nat /\ Reach \in Nat

VARIABLES
  dire,     \* FD_... of every struct, of both implementations
  path,     \* which file it has open
  bst,      \* the rest of the struct of the buffered one
  bkoff,    \* the kernel's offset of its descriptor
  bdisk,    \* its files
  un,       \* the same of the unbuffered one: [koff, disk]
  written,  \* how many bytes the program has written
  apart,    \* may the two differ from here on?
  strayed,  \* the structs whose fseek has failed while they were read
  agree,    \* has the last call given the same answer in both?
  over      \* has mini___M_flushall run?

fileVars == <<dire, path, bst, bkoff, bdisk, un, written, apart, strayed, agree,
              over>>

Structs == 1..FileCapacity
EOF == -1

SomeName == CHOOSE n \in Names : TRUE

Fresh == [ptr |-> 0, last |-> 0, off |-> 0, buf |-> <<>>]

FileInit ==
  /\ dire = [f \in Structs |-> "closed"] /\ path = [f \in Structs |-> SomeName]
  /\ bst = [f \in Structs |-> Fresh]
  /\ bkoff = [f \in Structs |-> 0] /\ bdisk = Original
  /\ un = [koff |-> bkoff, disk |-> Original]
  /\ written = 0 /\ apart = FALSE /\ strayed = {} /\ over = FALSE
  /\ agree = TRUE

\* A step of struct f, which is the only one it changes.
BufferedTo(f, s, koff) == /\ bst' = [bst EXCEPT ![f] = s]
                          /\ bkoff' = [bkoff EXCEPT ![f] = koff]

Discarded(s) == [s EXCEPT !.ptr = 0, !.last = 0, !.buf = <<>>]

\* write(2) to the file of f, of the buffered or of the unbuffered one.
Wrote(disk, koff, f, bs) == [disk EXCEPT ![path[f]] = PutAt(@, koff[f], bs)]

\* The bytes of the file from offset on, as far as n.
Bytes(disk, at, n) == SubSeq(disk, at + 1, at + n)

\* How many of n bytes there are behind offset koff of a file.
Available(disk, koff, n) == Min({n, Max({0, Len(disk) - koff})})

\* What the call returns in the one and in the other, and how it leaves the
\* other.
Answered(b, u, next) ==
  /\ agree' = (apart' \/ b = u)
  /\ un' = IF apart' THEN [koff |-> [f \in Structs |-> 0], disk |-> Original] ELSE next

\* The other after bytes bs were written to, or n bytes read from, struct f.
UnWrote(f, bs) ==
  [koff |-> [un.koff EXCEPT ![f] = @ + Len(bs)], disk |-> Wrote(un.disk, un.koff, f, bs)]
UnRead(f, n) == [un EXCEPT !.koff[f] = @ + n]

\* What the unbuffered one reads when n bytes are asked for.
UnBytes(f, n) ==
  LET file == un.disk[path[f]] IN Bytes(file, un.koff[f], Available(file, un.koff[f], n))

-----------------------------------------------------------------------------
(* The buffered implementation. *)

\* mini_fflush of a struct that is written, k bytes of which get out.
FileFlushed(s, k) == Discarded([s EXCEPT !.off = @ + k])

\* The ways fread of n bytes can end: from the buffer, or after read(2)s of at
\* most FileBufSize bytes each, the last of which is one of chunks; or at the end of the
\* file, or at a read(2) that fails after j bytes.
Reads(s, koff, disk, n) ==
  LET held == s.last - s.ptr
      more == n - held
      here == SubSeq(s.buf, s.ptr + 1, s.last)
      avail == Available(disk, koff, more)
      emptied(k) == Discarded([s EXCEPT !.off = @ + s.last + k])
      chunks == {x \in (koff..koff + more - 1) \X (koff + more..Len(disk)) :
                   x[2] - x[1] <= FileBufSize}
  IN IF n <= held
       THEN {[s |-> [s EXCEPT !.ptr = @ + n], koff |-> koff, fails |-> FALSE,
              got |-> SubSeq(s.buf, s.ptr + 1, s.ptr + n)]}
     ELSE (IF avail < more THEN {}
           ELSE {[s |-> [ptr |-> koff + more - x[1], last |-> x[2] - x[1],
                         off |-> s.off + s.last + x[1] - koff,
                         buf |-> Bytes(disk, x[1], x[2] - x[1])],
                  koff |-> x[2], fails |-> FALSE, got |-> here \o Bytes(disk, koff, more)] :
                   x \in chunks})
          \union
          {[s |-> emptied(j), koff |-> koff + j, fails |-> j < avail \/ avail = more,
            got |-> here \o Bytes(disk, koff, j)] :
             j \in IF avail = more THEN 0..more - 1 ELSE 0..avail}

\* Does fwrite of n bytes go past the buffer?
Direct(s, n) == s.ptr = 0 /\ n >= FileBufSize

\* The ways fwrite of bs can end: into the buffer, as far as there is room;
\* if there is more, the full buffer is flushed and the rest written.
Writes(s, bs) ==
  LET n == Len(bs)
      room == IF Direct(s, n) THEN 0 ELSE Min({n, FileBufSize - s.ptr})
      pend == s.buf \o SubSeq(bs, 1, room)
      full == [s EXCEPT !.ptr = @ + room, !.buf = pend]
  IN IF room = n
       THEN {[s |-> full, wrote |-> <<>>, got |-> n, fails |-> FALSE]}
       ELSE {[s |-> FileFlushed(full, k), wrote |-> SubSeq(pend, 1, k),
              got |-> room, fails |-> TRUE] : k \in 0..Len(pend) - 1}
            \union
            {[s |-> FileFlushed(full, Len(pend) + k),
              wrote |-> pend \o SubSeq(bs, room + 1, room + k),
              got |-> room + k, fails |-> room + k < n] : k \in 0..n - room}

-----------------------------------------------------------------------------
(* The calls, of both implementations. *)

Using(f) == ~over /\ f \in Structs

FreeStructs == {f \in Structs : dire[f] = "closed"}

\* mini_fopen(pathname, mode): the first struct that is closed.  The program
\* opens no file twice at the same time.
FileFopen(n, mode) ==
  /\ ~over /\ UNCHANGED <<written, apart, over>>
  /\ \A f \in Structs : dire[f] # "closed" => path[f] # n
  /\ IF FreeStructs = {}
       THEN Answered(0, 0, un) /\ UNCHANGED <<dire, path, bst, bkoff, bdisk, strayed>>
       ELSE LET f == Min(FreeStructs)
                Opens(disk) == IF mode = "write" THEN [disk EXCEPT ![n] = <<>>] ELSE disk IN
            /\ dire' = [dire EXCEPT ![f] = mode] /\ path' = [path EXCEPT ![f] = n]
            /\ BufferedTo(f, Fresh, 0)
            /\ bdisk' = Opens(bdisk)
            /\ strayed' = strayed \ {f}
            /\ Answered(f, f, [koff |-> [un.koff EXCEPT ![f] = 0], disk |-> Opens(un.disk)])

\* mini_fread(ptr, size, nmemb, filep).
FileFread(f, size, nmemb) ==
  LET n == size * nmemb IN
  /\ Using(f) /\ n <= MaxCount
  /\ UNCHANGED <<dire, path, bdisk, written, strayed, over>>
  /\ IF dire[f] # "read" \/ n = 0
       THEN UNCHANGED <<bst, bkoff, apart>> /\ Answered(0, 0, un)
       ELSE \E r \in Reads(bst[f], bkoff[f], bdisk[path[f]], n) :
              LET got == UnBytes(f, n) IN
              /\ BufferedTo(f, r.s, r.koff)
              /\ apart' = (apart \/ r.fails)
              /\ Answered(<<Len(r.got) \div size, r.got>>, <<Len(got) \div size, got>>,
                        UnRead(f, Len(got)))

\* mini_fgetc(filep), from the buffer or by fread(&uc, 1, 1); <<>> is EOF.
FileFgetc(f) ==
  /\ Using(f) /\ dire[f] = "read"
  /\ UNCHANGED <<dire, path, bdisk, written, strayed, over>>
  /\ \E r \in Reads(bst[f], bkoff[f], bdisk[path[f]], 1) :
       /\ BufferedTo(f, r.s, r.koff)
       /\ apart' = (apart \/ r.fails)
       /\ Answered(r.got, UnBytes(f, 1), UnRead(f, Len(UnBytes(f, 1))))

\* mini_fwrite(ptr, size, nmemb, filep).
FileFwrite(f, size, nmemb) ==
  LET n  == size * nmemb
      bs == [i \in 1..n |-> written + i] IN
  /\ Using(f) /\ n <= MaxCount /\ written + n <= MaxWritten
  /\ UNCHANGED <<dire, path, strayed, over>>
  /\ IF dire[f] # "write" \/ n = 0
       THEN UNCHANGED <<bst, bkoff, bdisk, written, apart>> /\ Answered(0, 0, un)
       ELSE \E r \in Writes(bst[f], bs) :
              /\ BufferedTo(f, r.s, bkoff[f] + Len(r.wrote))
              /\ bdisk' = Wrote(bdisk, bkoff, f, r.wrote)
              /\ written' = written + n
              /\ apart' = (apart \/ r.fails)
              /\ Answered(r.got \div size, nmemb, UnWrote(f, bs))

\* The flush of f as part of a call, k bytes of which get out.
FileFlush(f, k) ==
  /\ bdisk' = Wrote(bdisk, bkoff, f, SubSeq(bst[f].buf, 1, k))
  /\ bkoff' = [bkoff EXCEPT ![f] = @ + k]

\* mini_fflush(filep); the unbuffered one has nothing to do.
FileFflush(f) ==
  /\ Using(f) /\ dire[f] = "write"
  /\ \E k \in 0..bst[f].ptr :
       /\ FileFlush(f, k) /\ bst' = [bst EXCEPT ![f] = FileFlushed(@, k)]
       /\ apart' = (apart \/ k < bst[f].ptr)
       /\ Answered(IF k = bst[f].ptr THEN 0 ELSE EOF, 0, un)
  /\ UNCHANGED <<dire, path, written, strayed, over>>

\* How much of the buffer fclose can get out.
CloseFlushes(f) == IF dire[f] = "write" THEN 0..bst[f].ptr ELSE {0}

UnClosed(f) == [un EXCEPT !.koff[f] = 0]

\* mini_fclose(filep).  What a closed struct holds does not matter: fopen sets
\* all of it.
FileFclose(f) ==
  /\ Using(f) /\ dire[f] # "closed"
  /\ \E k \in CloseFlushes(f) :
       LET ok == dire[f] = "read" \/ k = bst[f].ptr IN
       /\ bdisk' = Wrote(bdisk, bkoff, f, SubSeq(bst[f].buf, 1, k))
       /\ bkoff' = [bkoff EXCEPT ![f] = 0]
       /\ apart' = (apart \/ ~ok)
       /\ Answered(IF ok THEN 0 ELSE EOF, 0, UnClosed(f))
  /\ bst' = [bst EXCEPT ![f] = Fresh]
  /\ dire' = [dire EXCEPT ![f] = "closed"]
  /\ path' = [path EXCEPT ![f] = SomeName]
  /\ strayed' = strayed \ {f}
  /\ UNCHANGED <<written, over>>

\* lseek(2): where whence counts from.
From(whence, koff, disk, f) ==
  CASE whence = "SEEK_SET" -> 0
    [] whence = "SEEK_CUR" -> koff[f]
    [] whence = "SEEK_END" -> Len(disk[path[f]])

\* Where the unbuffered one seeks to.
UnTarget(f, offset, whence) == offset + From(whence, un.koff, un.disk, f)

\* Mutant: SEEK_CUR counts from where the kernel has read ahead to.
ReadBaseKernel(f) == bkoff[f]

\* What SEEK_CUR counts from in a buffered stream that is read.
ReadBase(f) == bst[f].off + bst[f].ptr

\* The struct after lseek(2).
Sought(s, ok, target) == IF ok THEN [s EXCEPT !.off = target] ELSE s

\* mini_fseek(filep, offset, whence) of a file one can seek in.  lseek(2)
\* refuses what is in front of the file: a buffered stream that is read has
\* already discarded its buffer by then, and SEEK_CUR has moved buf_off.
FileFseek(f, offset, whence) ==
  /\ Using(f) /\ dire[f] # "closed"
  /\ LET reads   == dire[f] = "read"
         utarget == UnTarget(f, offset, whence)
     IN
     \E k \in CloseFlushes(f) :
       LET flushed == k = bst[f].ptr \/ reads
           disk == Wrote(bdisk, bkoff, f, SubSeq(bst[f].buf, 1, IF reads THEN 0 ELSE k))
           koff == [bkoff EXCEPT ![f] = @ + k]
           s == IF reads THEN Discarded([bst[f] EXCEPT !.off = IF whence = "SEEK_CUR"
                                                                 THEN ReadBase(f) ELSE @])
                ELSE FileFlushed(bst[f], k)
           target == offset + (IF reads /\ whence = "SEEK_CUR" THEN ReadBase(f)
                               ELSE From(whence, koff, disk, f))
           ok == flushed /\ target >= 0
           uok == utarget >= 0
       IN
       /\ bdisk' = disk
       /\ target <= Reach /\ utarget <= Reach
       /\ bkoff' = [bkoff EXCEPT ![f] = IF ok THEN target ELSE koff[f]]
       /\ bst' = [bst EXCEPT ![f] = Sought(s, ok, target)]
       /\ strayed' = IF ~ok /\ reads THEN strayed \union {f}
                     ELSE IF ok THEN strayed \ {f} ELSE strayed
       /\ apart' = (apart \/ ~flushed \/ (~ok /\ reads))
       /\ Answered(IF ok THEN 0 ELSE EOF, IF uok THEN 0 ELSE EOF,
                 IF uok THEN [un EXCEPT !.koff[f] = utarget] ELSE un)
  /\ UNCHANGED <<dire, path, written, over>>

FileTell(f) == bst[f].off + bst[f].ptr

\* mini_ftell(filep).
FileFtell(f) ==
  /\ Using(f) /\ dire[f] # "closed"
  /\ UNCHANGED <<dire, path, bst, bkoff, bdisk, written, apart, strayed, over>>
  /\ Answered(FileTell(f), un.koff[f], un)

\* The structs mini___M_flushall flushes.
Flushall == {f \in Structs : dire[f] = "write"}

\* mini___M_flushall at the end of the program.
FileFlushall ==
  /\ ~over
  /\ \E k \in [Structs -> 0..FileBufSize] :
       /\ \A f \in Structs : IF f \in Flushall THEN k[f] <= bst[f].ptr ELSE k[f] = 0
       /\ bdisk' = [n \in Names |->
            LET fs == {f \in Flushall : path[f] = n} IN
            IF fs = {} THEN bdisk[n]
            ELSE LET f == Min(fs) IN PutAt(bdisk[n], bkoff[f], SubSeq(bst[f].buf, 1, k[f]))]
       /\ bkoff' = [f \in Structs |-> bkoff[f] + k[f]]
       /\ bst' = [f \in Structs |-> IF f \in Flushall THEN FileFlushed(bst[f], k[f]) ELSE bst[f]]
       /\ apart' = (apart \/ \E f \in Flushall : k[f] < bst[f].ptr)
  /\ over' = TRUE
  /\ Answered(0, 0, un)
  /\ UNCHANGED <<dire, path, written, strayed>>

FileNext ==
  \/ \E x \in Openings : FileFopen(x[1], x[2])
  \/ \E f \in Structs :
       \/ \E size \in 1..2, nmemb \in 0..2 : FileFread(f, size, nmemb)
       \/ \E size \in 1..2, nmemb \in 0..MaxCount : FileFwrite(f, size, nmemb)
       \/ \E x \in Seeks : FileFseek(f, x[1], x[2])
       \/ FileFgetc(f) \/ FileFflush(f) \/ FileFclose(f) \/ FileFtell(f)
  \/ FileFlushall

FileSpec == FileInit /\ [][FileNext]_fileVars
-----------------------------------------------------------------------------
(* Properties. *)

\* Both implementations give the same answers to the same calls: results,
\* bytes, positions.
SameAnswers == ~apart => agree

\* What the files of the buffered one are, once its buffers are flushed.
Settled(n) ==
  LET fs == {f \in Structs : path[f] = n /\ dire[f] = "write"} IN
  IF fs = {} THEN bdisk[n]
  ELSE LET f == Min(fs) IN PutAt(bdisk[n], bkoff[f], bst[f].buf)

\* Both leave the same files behind; nothing waits in a buffer any more when
\* the program has ended.
SameFiles ==
  /\ ~apart => \A n \in Names : Settled(n) = un.disk[n]
  /\ over => \A f \in Structs : dire[f] = "write" => bst[f].buf = <<>>

\* The offset of the buffer is where the kernel is, or was before it read the
\* buffer, also after short writes and reads and after those that fail.
OffsetHolds ==
  \A f \in Structs :
    /\ dire[f] = "write" => bst[f].off = bkoff[f] /\ Len(bst[f].buf) = bst[f].ptr
    /\ dire[f] = "read" /\ f \notin strayed =>
         bst[f].off + bst[f].last = bkoff[f] /\ bst[f].ptr <= bst[f].last

\* To the program the two are the same, after any calls.
TwinsAlike == SameAnswers /\ SameFiles /\ OffsetHolds

=============================================================================
