# TLA+ models of minilibc686

minilibc686 is a C library for i386 Linux written in hand-optimized NASM assembly,
with the tools that make programs of it. These modules model the parts that keep state
across calls and have to cope with a kernel that may do less than it was asked for
(buffered stdio, the table of open files and `exit`, the heap, temporary files, the
search for commands), the algorithms of the library that are hard to test (`printf`,
the sorts, number and date conversions, `strtok`, `getopt`), and the converters and
editors of object files and executables under `src/tools/`.

Each module is translated from the source. Where a function exists as assembly under
`src/src/` and as C under `src/fyi/`, the two were read side by side: the map names
the C lines where they say the same, and the assembly where it differs or where there
is no C.

`PROJECT.json` lists, for every definition, the source lines it stands for (`map`),
the runs, the faulty variants that every property was seen to reject (`mutants`), the
hazards each property is aimed at, the findings and the theorems.

## 1. Inventory

### stdio_medium

State: a `struct _SMS_FILE` per stream (`src/fyi/stdio_medium.h`), that is the buffer
pointers `buf_start`, `buf_write_ptr`, `buf_end`, `buf_read_ptr`, `buf_last`,
`buf_capacity_end`, the descriptor `fd`, the direction `dire` and the file offset
`buf_off` of the buffer. `stdin`, `stdout` and `stderr` are static; the
`FILE_CAPACITY` slots of `mini___M_global_files` are handed out by `fopen` and
`fdopen`. `stderr` has a buffer that is disabled (`buf_end = buf_start`) except while
`vfprintf` runs.

Operations: `fputc`/`putc`, `fwrite`, `fputs`, `puts`, `vfprintf`, `fflush`; `fread`,
`fgets`, `fgetc`/`getc`, `ungetc`; `fseek`, `rewind`, `ftell`; `fopen`, `fdopen`,
`freopen`, `fclose`, `fileno`; and the flushes of `mini_exit`.

Interaction: `fputc`, `fwrite`, `fseek` (on output) and `fclose` call `fflush`;
`fgetc` and `fgets` call `fread`; `freopen` calls `fclose` and then `jmp_freopen_low`,
which `fopen` shares; every one of them ends in `discard_buf`. The `putc` and `getc`
macros bypass all checks and compare only two pointers each, so that every function
has to leave sentinels in the pointers that send them into the slow path.

Hard: a `write(2)` that takes a part and then fails; what is reported of bytes that
were buffered by an earlier call; keeping `buf_off` equal to the kernel's offset
without asking it; direct writes that must not overtake buffered bytes;
`relax`/`unrelax`, which move the end of the buffer around one `vfprintf`; failed
`fclose` inside `freopen`; a file that grows while it is read.

Correct means: bytes in order and once; nothing lost without being reported; `buf_off`
is the file offset; read-ahead is a copy of the file; descriptors and slots neither
leaked nor used twice; exit leaves nothing in a buffer.

### The smaller stdio libraries

`stdio_file_simple.h` is one interface with two implementations, one that reads ahead
and buffers output and one in which every call is a system call. Two libraries have
output streams only: one without buffers, one whose streams get their buffer and mode
from `setvbuf` and stop at an error until `clearerr`. They define the same names as
stdio_medium; a program is linked to one of them. `vfprintf` exists for them in two
forms, with and without the flag `+`. Hard: the same answers from two implementations
that keep different offsets; an error state that is encoded in the same pointers that
the fast path of `putc` reads; a number that is as long as its buffer.

### Allocator

State: `malloc_simple_unaligned`'s `base`, `free`, `end` over the kernel's break, and
`realloc`'s `free_bucket_heads`, 30 linked lists of freed blocks threaded through the
blocks themselves. Operations: `malloc`, `calloc`, `realloc`, `free`; `malloc`,
`calloc` and `free` are entries to `realloc`'s code. Hard: a block on a list twice or
on the wrong list; a `realloc` that moves and fails; `brk(2)` being refused at any
moment, the first included; wrap-around near half the address space. Correct means:
blocks disjoint and inside the break, each held or on exactly one list, contents kept,
failure reported as NULL.

### printf

State: none across calls; within one call the position in the format, the argument
pointer, flags, width, a number in two registers, a digit buffer and the output count.
`snprintf` makes a `FILE` on its stack whose direction `FD_WRITE_SATURATE` drops what
does not fit. Hard: two-dword negation and division on a 32-bit machine, sign against
zero padding, the argument pointer over mixed sizes, buffers of size 0 and 1.

### Algorithms and state across calls

| Part | State | Hard | Correct means |
|---|---|---|---|
| `qsort`, `qsort_fast`, `qsort_stable_fast`, its `_shortcut` form, `bsearch` | the array | two binary searches that must agree on equal elements; heap bounds | sorted, a permutation, stable, within the number of comparisons the comments promise |
| `strtol`, `strtoul` | – | checks for overflow between a multiplication and an addition that wrap | the C standard's value, end pointer and saturation |
| `gmtime_r`, `timegm` | – | negative days, centuries, two widths of `time_t` | the calendar's date; inverse of each other |
| `strtok`, `strtok_sep1`, `getopt` | a pointer, or `optind`, `lastidx` and `lastofs`, between calls | starting over in between | the string, or the command line, is taken apart whole, once |
| `mkstemp`, `tempnam`, `mktmpf` | names in a directory, shared with other processes | a name taken between two steps; retry on `EEXIST` only | nobody's file is taken over, none is left behind |
| `execvp`, the program `cc` | – | errors that end the search and errors that do not; circles of links | the command that `PATH` and the links name |

### Tools

`omf2elf` converts an OMF object file of OpenWatcom to ELF in two passes over the
records: the first counts and sizes, then the sections are placed, the second fills.
Hard: the passes have to agree, and string sections are merged or not by a flag, which
shifts data, symbols and relocations at three places of the program.

`sstrip`, `elfxfix`, `elfofix` and `elfnostack` edit an ELF file in place by up to
three writes; `minicc.sh` runs them one after another, links again with what `elfxfix
-p` has found, and leaves a file that a failed tool has half changed. Hard: failures
and kills between two writes, running a tool twice, refusing a file only before it is
changed.

`tiny_libmaker` makes an archive: objects go to a temporary file while the index of
symbols and the list of long names grow; then the library is written. Hard: offsets
computed before what they point past is written; failures that must leave the old
library, and no temporary file.

The library has no threads, and a process calls one function at a time. The
concurrency that is left is the kernel's: other processes that change a file or a
directory, short counts, refusals, and being killed.

## 2. Modules

| Module | Models | Source |
|---|---|---|
| `StdioFile` | the struct, `discard_buf`, the discarding half of `fflush`, what open and close do to it, `relax`, `unrelax` | `stdio_medium_discard_buf`, `_fflush`, `_fclose`, `_writebuf_relax`, `stdio_medium.h` |
| `KernelFile` | a regular file under `write(2)` | external |
| `StdioOut` | one output stream and the call in progress | `stdio_medium_fputc_rp3`, `_fwrite`, `_fputs`, `_fflush`, `_fseek`, `_fclose`, `_freopen`, `_vfprintf` |
| `OutStream` | what an output stream promises | abstract |
| `StdioOutProofs` | theorems about the struct and the bytes of `StdioOut`, and that it implements `OutStream` | |
| `StdioIn` | one input stream and the call in progress | `stdio_medium_fread`, `_fgets`, `_fgetc`, `_ungetc`, `_fseek`, `_fclose`, `_freopen` |
| `InStream` | what an input stream promises | abstract |
| `StdioInProofs` | theorems about `StdioIn`, and that it implements `InStream` | |
| `StdioTable` | all streams, the descriptor table, `mini_exit` | `stdio_medium_fopen`, `_fdopen`, `_freopen`, `_fclose`, `_flush_opened`, `start_stdio_medium_linux` |
| `StdioTableProofs` | theorems about `StdioTable` | |
| `Heap` | `malloc` and its relatives over `brk(2)` | `realloc`, `malloc`, `calloc`, `free`, `malloc_simple_unaligned_linux` |
| `Allocator` | what an allocator promises | abstract |
| `HeapProofs` | theorems about `Heap`, and that it implements `Allocator` | |
| `Printf` | one `snprintf` | `stdio_medium_vfprintf`, `_snprintf` |
| `Checks` | how a tool ends at the first check that fails | tools |
| `Omf2Elf` | records to ELF file in two passes | `tools/omf2elf.c` |
| `ElfFile` | an ELF file, command lines, the checks all four editors share | `tools/elf*.c`, `tools/sstrip.c` |
| `ElfExec` | the editors of executables, write by write | `tools/sstrip.c`, `tools/elfxfix.c` |
| `ElfObj` | the editors of objects, write by write | `tools/elfofix.c`, `tools/elfnostack.c` |
| `ElfTools` | the commands one after another, retries, kills, the linker | `minicc.sh` |
| `ElfProofs` | theorems about `ElfTools` | |
| `LibMaker` | the archiver | `tools/tiny_libmaker.c` |
| `LibMakerProofs` | theorems about `LibMaker` | |
| `Sorting` | three sorts, the shortcut form of the third, `bsearch` | `c_qsort*.c`, `qsort_stable_fast*`, `inplace_merge_impl`, `c_bsearch.c` |
| `Numbers` | `strtol`, `strtoul` | `c_strtol.c` |
| `Calendar` | `gmtime_r`, `timegm` | `c_gmtime.c`, `c_timegm.c` |
| `Tokens` | `strtok`, `strtok_sep1` | `c_strtok*.c` |
| `Options` | `getopt` | `c_getopt.c` |
| `TempFiles` | processes that make temporary files in one directory | `c_mkstemp_linux.c`, `c_tempnam.c`, `tools/mktmpf.c` |
| `Commands` | `execvp`, and the search of the program `cc` | `c_execvp.c`, `tools/shbin_cc.c` |
| `PlainPrintf` | `vfprintf` in the form with the flag `+` and in the one without | `c_vfprintf_plus.c`, `c_vfprintf_noplus.c` |
| `SimpleFile` | the two `stdio_file` libraries side by side | `c_stdio_file_simple_buffered.c`, `_unbuffered.c` |
| `SimpleOut` | the two output-only libraries | `c_stdio_stdout_simple1.c`, `_simple2.c` |
| `SimpleProofs` | theorems about `SimpleOut` and `SimpleFile` | |
| `Library` | `Sorting` and the nine other parts that follow it above, one `part` at a time | |
| `LibraryProofs` | theorems about `TempFiles`, `Calendar` and `Tokens` | |

`StdioOut`, `StdioIn` and `StdioTable` extend `StdioFile`; `StdioOut`, `StdioIn` and
`Heap` refine `OutStream`, `InStream` and `Allocator`. `StdioTable` composes the
streams at the level where they interact, through slots, descriptors and `exit`: it
keeps each stream's buffer and lets `putc` stand for all ways to fill it, since which
byte goes where in a file is settled by `StdioOut`. `ElfTools` composes `ElfExec` and
`ElfObj`, which work on one file one after the other.

`Library` is a program that uses one part: `part` is chosen at the start, and only the
actions of that part are taken. The parts share no state in the source either;
`SimpleFile`, `SimpleOut` and stdio_medium cannot be linked together.

### How the state corresponds

Pointers into the buffer are kept as offsets from `buf_start`: `writePtr`, `bufEnd`,
`readPtr`, `last`, `capEnd`. `file.buf` is the memory between `buf_start` and the
pointer that ends the valid part. `off` is `buf_off`, `koff` the offset the kernel
keeps.

In `StdioOut` the *n*-th byte a stream accepts is the number *n*, so a file is a
sequence of such numbers and "in order", "once" and "at the place `ftell` gave" can be
said directly. `log` remembers for every byte whether it was a newline and what
`ftell` said. `lost` holds the bytes of failed flushes; `lossy` and `ret` say what the
last call did and what it reported. They are history, not program state; `disk`,
`koff`, `append` and `seekable` (does `lseek(2)` work on the descriptor?) are the
kernel's. `SimpleOut` numbers its bytes in the same way.

In `StdioIn` the bytes are values; `back` counts how many bytes from `buf_read_ptr` on
were pushed back, and `strayed` remembers a failed `fseek` since the offset was last
known. Both are history.

In `SimpleFile` a program makes each call to both libraries, on files of its own for
each; `bst`, `bkoff` and `bdisk` belong to the buffered one, `un` to the other. A
system call that fails parts them for good, and only the buffered one is followed.

In `Heap` an address is a number of bytes, a block is named by the pointer the program
gets, `size` is the header before it, `buckets` the lists in order. A word has as many
values as `Levels` buckets need (`Word`, the block size after the last bucket's), so
that signed comparisons and wrap-around happen at small numbers. `asked` and `stored` are what the program may rely on.

In `Printf` a dword has `Half` values. `stage` is the place in the code. In
`PlainPrintf` a number has `Unsigneds` values and `print_buf` `PrintBuf` bytes, chosen
as in the source: the longest number without a sign just fits with its NUL. What does
not fit lies where the next call puts its arguments, and is `Lost` if there is such a
call before it is printed.

In `Omf2Elf` an OMF record is a TLA+ record, data are words of four bytes, a name is
its leading underscores and the rest; `counts` and `sections` are what the first pass
leaves, `plan` the layout, `out` the ELF file. In the `Elf*` modules a file is its
length, headers, section names and symbols; all other bytes are never changed but for
the truncation. `linked` is the file as the linker made it, `settled` the file as a
command that succeeded left it. In `LibMaker` files are sequences of pieces of known
sizes.

In `Sorting` items are keys with the place they began at, so that stability can be
said, and `work` counts comparisons, exchanges and the depth of recursion. In
`Numbers` words have `Width` bits. In `Calendar` a time is the number of a day and a
second of that day, since a time of 8 bytes has more values than TLC's integers; a
narrow one, of 4 bytes, is a day that is near enough to 1970 to have all its seconds
there. In `Tokens` `full` and `sep1` are the same string under the two forms of
`strtok`, with the bytes that each has overwritten. In `TempFiles` `dir` says to whom each name
belongs: to no one, to one of the modelled processes, or to others.

### Steps

A call is one action where nothing outside can be seen between its parts. The loops of
`fwrite`, `vfprintf`, `fread` and `fgets` take one step per byte or per system call,
since a process killed between two of them leaves a file behind, and another process
may append to the file. A `malloc` takes one step more for every `brk(2)`. In a flush
the kernel chooses how many bytes go out before a `write(2)` returns 0 or -1: the loop
of short writes is summed up by that number, because nothing in the process changes
between two turns of it. `mkstemp` and its relatives take one step for every `open(2)`
and one for `unlink(2)`, and other processes act in between. The tools take a step for
each group of checks and for each write; `Kill` may come before any step of an editor,
and every system call may fail. A sort, a conversion, a token or an option is one
step: nobody sees them half-way.

## 3. Runs

Passing runs:

| Run | Question |
|---|---|
| `out` | one output stream of every kind, on a file or a pipe, all calls, every short or failing write: order, placement, loss and its report, `buf_off`; does it implement `OutStream`, and does every call return? |
| `in` | one input stream on a growing file or pipe: read-ahead, push-back, seeks, lines, ends; does it implement `InStream`, and does every call return? |
| `table` | slots, descriptors and bytes over five streams (three standard, two slots); does exit end with everything flushed? |
| `heap` | all calls with a kernel that refuses at will: layout, lists, contents, the promise of `realloc.nasm` that a freed block comes back; does it implement `Allocator`, and does every call return? |
| `printf` | does `snprintf` store and count what C asks for? |
| `omf2elf` | is everything that an OMF file says at its place in the ELF file, and do the two passes agree? |
| `elf_tools` | does an executable keep its image, and an object its meaning, through every command, failure, kill and repetition? |
| `libmaker` | does the index lead to the members, do readers find them all, and what is left after a failure? |
| `library` | for each of the ten parts: see section 4 |

The violation runs are in section 6.

### Bounds

- `BufSize = 2` in the stream runs: empty, partly filled and full are three different
  states, a chunk of 3 is longer than the buffer, 1 is shorter and 2 equals it, which
  are the cases that `fwrite` tells apart. The table uses 1, full or empty: what a
  partial flush does inside a file is the subject of `out`.
- `MaxChunk = 3` (bytes of one `fwrite`, `fputs` or `vfprintf`) and `MaxBytes = 3`
  (bytes accepted between two openings): a flush of a full buffer with one more byte,
  and a flush after a failed one. `MaxPos` (1; 3 for input) bounds the positions
  `fseek` reaches, within what is written and behind it.
- `MaxLen = 3`, `MaxItem = 2`, `MaxSize = 4` for input: a file longer than the buffer,
  items of two bytes, requests longer than the file. One byte and the newline are what
  the file can hold, another byte is known to `ungetc` only, so that pushed-back bytes
  can be told from those of the file.
- `Capacity = 2`, one path, `MaxFd = 3` and `MaxBytes = 2` for the table: with
  descriptors 0 to 2 in use only one more is free, so running out of descriptors,
  reuse of a closed one, running out of slots, and two streams on one file are all
  reached.
- `MaxBlocks = 3`, 6 buckets (a word of 256 values), requests {0, 7, 12, 20, 60, 130}:
  zero, a size that is rounded, one that is no power of 2, one that fits a larger
  bucket's block, one that needs the heap to grow, one that is negative as a signed
  word. The first heap is 32, doubling stops at 64.
- `Half = 32`: a number has 1024 values; every low dword is used with high dwords 0,
  1, 10, 16 and 31, in particular the smallest number, -1 and low dwords of 0. Sizes
  0, 4 and 12 are no buffer, a full one and a roomy one.
- OMF: up to `MaxBody = 3` of 15 records after one of 12 preambles, with the three
  string modes. The preambles are what OpenWatcom emits (the five usual segments, with
  CONST of an odd, an empty or a word-sized length and YIB or none), or such a start
  with one mistake. Three records are data, a fixup and a symbol, or two of one kind,
  which is what has to be in step.
- ELF: 14 executables (one segment or two, with padding between them that can be
  fixed, or cannot for either of two reasons, without bytes, cut off, damaged), 26
  objects (weak symbols before and behind their partners, with none or two of them,
  each check of the headers failing), six damaged files that are neither, and 15
  plans: the commands of `minicc.sh` and `build.sh`, each twice where it may be.
  `Garbage` are the values an uninitialised byte may have. `MaxRetry = 1`: a retry
  meets every state that one failure can leave.
- Archives: up to 3 of 8 files (odd and even sizes, long names, names in directories,
  no symbols, no symbol table, an empty one, no ELF file), so that index, list of
  names and members each are absent, odd and even. `FuncMax = 2` lets the table of
  offsets grow.
- Sorting: all arrays of up to `MaxItems = 6` of three keys; 6 items make the merges
  recurse twice on both sides. `Width = 7`: strings of up to `MaxChars = 4` of 8
  characters in every kind of base go through all overflows. Every day of 41 years
  around the ends of a 4-byte time, 1970, leap years and centuries of both kinds, from
  -401 to 2400.
- Tokens: strings of up to 4 of a letter and two separators, and up to `MaxCalls = 4`
  calls; command lines of up to 3 of 10 words.
- Temporary files: two processes, two names, `TRY_COUNT = 2`. The names are the
  resource: with others using one, the last one is raced for.
- Commands: `PATH` of up to 3 entries, 8 kinds of what is found there; chains and
  circles of up to `MaxLinks = 3` links.
- `PlainPrintf`: every conversion with every flag, five widths around the length of a
  number, all 32 numbers; `PrintBuf = 3` takes two digits, the longest number in base
  8.
- `SimpleFile`: three files of up to 3 bytes, two structs, a buffer of 2. `SimpleOut`:
  3 bytes, `stdout` with 2, buffers of 1 and 2 or none.

Where the text above gives a fixed number of bytes or calls, the program itself has no
such limit: these are the constants `MaxChunk`, `MaxBytes`, `MaxPos`, `MaxLen`,
`MaxItem`, `MaxSize`, `MaxBlocks`, `MaxBody`, `MaxRetry`, `MaxItems`, `MaxChars`,
`MaxCalls`, `MaxWords`, `MaxEntries`, `MaxLinks`, `MaxWritten`, `MaxCount`, `Reach`
and `MaxOut`, each a guard in the actions, or the size of the inputs, named for it.
`Capacity`, `BufSize`, `MaxFd`, `FirstHeap`, `MaxDouble`, `BestFitLimit`, `FuncMax`,
`TRY_COUNT`, `PrintBuf` and the word sizes are the program's own constants at small
values.

Deadlock is not checked in the runs where a process exits or crashes, or where a bound
stops it, or where the one call that is modelled ends. It is checked for `StdioIn`,
which never stops.

### Fairness

Only steps of a call that has begun are fair (`FwriteStep`, `VfprintfStep`,
`CallStep`, `ExitStep`, and `Open(p)` of `TempFiles`), and weakly: the process has one
thread, and nothing else in it can run until the call returns. Calls themselves are
never fair, since no program has to make them. In `StdioIn` and `Heap` the fair step
is `CallStep(FALSE)`, the one in which the kernel does not refuse: that a call returns
must not depend on an error of `read(2)` or `brk(2)`. `Open(p)` is fair for each
process, as the kernel's scheduler is; nothing is assumed of the other programs, which
may take every name just before it is tried. The other modules state no fairness and
no liveness: their steps cannot repeat.

## 4. Properties

A property of a run may be a conjunction of named parts, which are defined and
explained above it in its module.

`OutStream` (refined by `StdioOut` as `PromiseKept`): bytes that wait reach the file
in order, at most once, at the current position; at most a buffer of them waits; if
one is dropped, all that wait are. `BytesAccounted` says more, about places and about
where each byte is now (`WrittenOnceInOrder`, `PlacedWhereTold`, `Conserved`). Its
part `LossReported` says that the call in which bytes are lost returns a failure, and
names the four calls of which the code makes that untrue: `fwrite` on a line-buffered
stream after its last newline, `vfprintf` to `stderr`, `fputs`, and `exit`.
`LinesDelivered` and `StderrHoldsNothing` are what allows `exit` to skip `stderr` and
a terminal to show complete lines.

`InStream`: a call receives the bytes of the file from the stream's position on,
pushed-back bytes first. `BytesRight` (`ReadAheadIsFile`, `UngetcAfterGetc`,
`LineShape`) and `StepsRight` (`SeekCurIsRelative`, `EofOnlyAtEnd`) relate the buffer
to the file as it is now; `StructSound` has the order of the pointers and the `putc`
sentinel.

`NothingLeaks` (`DescriptorsAccounted`, `SlotsAccounted`) and `NothingDropped`
(`Conserved`, `FlushedWhenGone`) are equations: the open descriptors are exactly the
program's and the open streams', the slots in use are exactly those given out, and the
bytes owed to a file are exactly those on it and in the buffers of streams open on it
(`Total`, a sum over all streams in the order `Nth`).

`Allocator`: blocks held are disjoint and keep their content. `BlocksSound` says how:
`BlocksInHeap` is the row of headers and blocks below the break, `BlocksAccounted`
that each block is held or on the one list of its size, once, `ContentKept` what a
realloc that moves, or fails, must not lose.

`PrintSound` compares the interpreter with a definition of the result from the number
itself (`Converted`), for what C defines and the code is able to print;
`PlainPrintsRight` does so for the smaller forms, directive by directive.

`ImageSound`: every word of data, with what its fixups add, is at its section's place
in the ELF file, and there is nothing else; CONST2 begins behind CONST; the parts of
the file do not overlap; no assertion about the two passes fails. `LinkageRight`
(`RelocsRight`, `SymbolsPlacedOne`, `LocalsFirst`) says of relocations and symbols that
they are those of the records, in the order ELF asks for. Both read the OMF records and the ELF file, not the
converter's tables. Three preconditions have names: `FixupsFollowData` (compilers emit
FIXUPP right behind its LEDATA), `OneNameInConst` and `GhostUsed` (section 6).

`ExecSound`: after every step, failed and killed ones included, a file whose bytes
were all there loads them where the linker put them (`ImageKept`); section headers are
there or not mentioned; `.bss` ends as large as it was; a refused file is untouched.
`ObjSound`: each relocation of an object means the address or the name that the
source's weak symbols mean, and only `.note.GNU-stack` is renamed. `Idempotent` says
that a command that has succeeded changes nothing when it is run again, and names the
commands for which that is not so.

`LibraryRight`: the index has the exported names of the members, each with the offset
of the header of its member; readers that step from header to header find all; a
member's name resolves to its path. `OldLibraryKept` and `TmpGone` are what failures
leave.

The parts of `library`:

- `SortingRight`: sorted, a permutation, stable where promised, with no more
  comparisons, exchanges and levels of recursion than the comments promise (the tables
  `HeapMost`, `MergeMost`, ... are those formulas' values); the search finds what is
  there.
- `StrtolReads`: `strtol` by the C standard: value, end pointer, saturation.
- `CalendarRight`: `gmtime_r` gives the one date by the calendar's rules that has this
  many days before it, with the weekday and the day of the year, in both widths;
  `timegm` gives the time back.
- `TokensKept`: the tokens of all calls together are the string's, whole and in order
  (`TokensWhole`), and both forms of `strtok` agree where they should (`SameTokens`).
- `OptionsParsed`: the options are those of the whole command line, also after one was
  left in the middle of a cluster.
- `TempFilesRight`, `NeverTakenOver`, `TriesEnd`: see section 5.
- `CommandsRight`: `execvp` and `cc` run what `PATH` and the links name, by a
  definition that follows the set of entries and the graph of links.
- `TwinsAlike`: the two `stdio_file` libraries give the same answers and leave the
  same files, and the buffered one's offsets are the kernel's.
- `OutRight`: what is accepted goes out once and in order while nothing fails; after a
  failure a byte may come twice, but none is skipped.

## 5. Proofs

Each theorem holds for every value of the constants that the ASSUMEs of its module
allow; where it needs more, that is said. Every inductive invariant was checked by TLC
on the bounds of its run as well; in `LibInv`, which says that something is a sequence
of some set, that part as the length alone.

### `StdioOutProofs`: an output stream

First its struct.
For every `BufSize > 0`, every set of kinds and every bound (the ASSUMEs of
`StdioOut`, nothing else), on files and pipes:

- `TypeCorrect`: `Spec => []TypeOK`
- `HeaderInvariantHolds`: `Spec => []HeaderInvariant`, what `stdio_medium.h` states of
  the struct
- `OffsetTracksHolds`: `Spec => []OffsetTracks`, that `buf_off` is the kernel's offset

None of the three is inductive. `HeaderInvariant` does not know how large a buffer is,
so it does not survive `relax` and `unrelax`; nor does it say that a call in one of
the `fwrite` loops has bytes left and a stream that is written. `OffsetTracks` needs
`Len(buf) = writePtr`, or a flush advances the two offsets by different amounts. The
inductive invariant is

    IInv == StreamOK /\ ControlOK /\ CallOK

`StreamOK` has the types of what moves bytes, `StructOK` (the exact value of `bufEnd`
and `capEnd` for each kind and direction, and the pointers), and the equality of the
offsets; `ControlOK` the types of the rest; `CallOK` ties the struct to the loop that
runs: which directions a loop of `fwrite` can meet, that it has bytes left, that a
relaxed stream belongs to a `vfprintf`. The proof has lemmas about the helpers
(`FlushedOK`, `StoredOK`, `ClosedOK`, `OpenedOK`, `RelaxedOK`, ...), then one about
each way a byte goes through `fputc`, then one per action (`FputcKeeps`,
`FwriteLineKeeps`, ...), put together in `NextKeeps`.

Then its bytes, in the second half of the module:

- `BytesAccountedHolds`: `Spec => []BytesAccounted`, that is order, place,
  conservation, the report of losses, lines, and an empty `stderr`
- `PromiseKeptHolds`: `Spec => PromiseKept`, `StdioOut` implements `OutStream`

`WrittenOnceInOrder` speaks of the file alone and says nothing of the bytes that are
still in the buffer; those decide what the file will be after the next flush, and where
`ftell` has said they go. The inductive invariant is

    FullInv == IInv /\ BytesInv /\ CallInv /\ LineInv

`BytesInv` says of the bytes in the buffer that they are accepted ones in ascending
order, each at the place `log` has for it (`BufferedOK`), of those on the file that
each is there once and older than all in the buffer (`DiskOK`), and has the two parts
`PlacedWhereTold` and `Conserved` of the property. `CallInv` says how much of its bytes
a loop has left and when it has lost one; `LineInv` that a newline waits in a
line-buffered stream only while `fwrite` has another one to come. Every
step is one of three moves, whatever the call: bytes are accepted and some go out
(`WriteMove`), the position changes with an empty buffer (`SeekMove`), or a file is
opened or closed (`OpenMove`). That `BytesInv` survives a move is proved once for each
of the three, and that an action is a move once for each action; the same moves are
the steps of `OutStream`.

### `StdioInProofs`: an input stream

- `StructSoundHolds`, `OffsetTracksHolds`, `BytesRightHolds`: `Spec => []...` of the
  three invariants of the run
- `StepsRightHolds`: `Spec => StepsRight`, the two properties of steps
- `PromiseKeptHolds`: `Spec => PromiseKept`, `StdioIn` implements `InStream`

The inductive invariant is `IInv == StreamInv /\ CallInv /\ RetInv`. `StreamInv` joins
the order of the pointers, the offset and the copy of the file, none of which holds
without the others: `buf_off` is right after a `read(2)` only if `buf_last` is where the
memory ends, and the copy is one only if the offset is right. It counts the bytes that
were pushed back apart, since they need not be the file's. `CallInv` says that a loop of
`fread` or `fgets` has bytes to get, and no newline if it is `fgets`; `RetInv` has the
parts of `BytesRight` about what a call has returned.

### `StdioTableProofs`: the table of open files

- `NothingLeaksHolds`: `Spec => []NothingLeaks`
- `NothingDroppedHolds`: `Spec => []NothingDropped`

for any number of slots, descriptors and files; `PathsAssumption` (no path is called
`None`) keeps "no file" apart from files. The inductive invariant is

    IInv == Shape /\ Accounted /\ SlotsAccounted /\ Conserved /\ FlushedOrListed

`Accounted` is `DescriptorsAccounted` descriptor by descriptor: each that is open is the
program's or that of an open stream, and no two of these share one. `FlushedOrListed` says that a stream with bytes is flushed already, or still
on the list of what `mini_exit` has to flush. The equation `Conserved` is a sum over
streams whose number is a constant. A step changes one stream, or all that are open
on a file, and the lemmas about sums say what that does to `Total`; each takes the
least number of streams for which it fails and shows that there is a smaller one.

### `HeapProofs`: the allocator

- `BlocksSoundHolds`: `Spec => []BlocksSound`, and `CutsInHeapHolds`: `Spec =>
  []CutsInHeap`, both with `FirstMayFail = FALSE`
- `SoundUntilRefused`: `Spec => [](~Refused => BlocksSound)`, with no such assumption
- `SameBlockBackHolds`: `Spec => SameBlockBack`
- `PromiseKeptHolds`: `Spec => PromiseKept`, `Heap` implements `Allocator`

for any number of buckets, any best-fit limit, any requests, and every `brk(2)` refused
or not. Section 6 has what happens when the very first growth is refused:
`malloc_simple` then takes all addresses from `free` on for its heap. That is why the
first two theorems exclude it; `Refused` (`base` is set and `end` is not) is the state it
leads to. The last two hold even so, because
the process ends when it writes the header of the first block there.

    IInv == HeapInv /\ ListInv /\ CallInv /\ DataInv /\ RetInv

`BlocksInHeap` says that every block but the first has another one just before it,
which is not enough to cut the next block: `HeapInv` has `Row`, that the last block
ends where `free` is, and what each state of `base`, `end` and `brk` can be. `ListInv`
is `BlocksAccounted` as lists (`ListsOK`: blocks of the list's size, each once), which
survive the removal of one and the insertion in front. `CallInv` says that the block a
`realloc` moves is still held while it waits for `brk(2)`, `DataInv` that what is stored
is in the block, `RetInv` that a block that has just been freed is the head of its list;
the last one gives `SameBlockBack`, with the lemma that a block of just the size that
is asked for, at the front of its list, is what `Found` finds (`FrontFound`). The rest
rests on lemmas about block sizes (`Rising`, `UpOK`, `DownOK`: a block goes to a bucket
whose block size it has, and a request finds one whose blocks hold it), about taking a
block off a list and putting it on, and about `Deliver`, which malloc, calloc and
realloc share. For the refinement, `HeldApart` says that blocks held do not overlap.

### `SimpleProofs`: the small libraries

- `OutRightHolds`: `OutSpec => []OutRight`, of both output-only libraries

for every size of `stdout`'s buffer and of those `setvbuf` gets, and whatever part of its
bytes a `write(2)` takes. `OutSpec` is the specification of `SimpleOut` alone; `Library`
takes its steps in the part "stdout". `OutRight` is not inductive: it does not know which
of `bufp` and `bufpf` is in use and that the other one is at `bufend` (`StructOK`), so
that the bytes that wait are those up to the right pointer, nor that the byte accepted
last is the last one of all (`LastIs`), nor that a stream in error has lost a write. The
inductive invariant is

    OutInv == BytesInv /\ ToldInv

Each way a call can end is one move of the queue of waiting bytes (`Moves`): its first
`j` bytes go out and those behind its first `i` still wait, where `i = j` unless a
`write(2)` has failed, after which what got out comes again. That the properties of the
bytes survive a move is proved once (`Replays`, `SentAgain`), that a call ends in one
once for each way a byte can be put (`EndOf`).

- `TwinsAlikeHolds`: `FileSpec => []TwinsAlike`, of the two `stdio_file` libraries

for every `FILE_CAPACITY` and `BUF_SIZE`, every number of files with any contents, and
every part of its bytes that a `read(2)` or `write(2)` transfers. `FileSpec` is the
specification of `SimpleFile` alone; the ASSUMEs are the types of the constants.
`TwinsAlike` is not inductive: it says that the answers agree and not why the next ones
will. The inductive invariant is

    FileInv == FileTypes /\ StructsOK /\ OpenOnce /\ StrayedApart /\ Alike

`StructsOK` says that the buffer of a stream that is read is a copy of what lies in the
file before the kernel's offset (`Ahead`), and that nothing is left in that of one that
is written once the program has ended; `OpenOnce`, that no file is open twice, since a
write through one struct would make the copy of another stale; `StrayedApart`, that a
failed seek in a stream that is read has told the two apart. `Alike` is what relates
them: the unbuffered one's offset and file are those of the buffered one as they would
be after a flush (`Twin`), and a file that is not open is the same in both. Every call
but `fopen`, `fclose` and the flush at the end changes one struct, its file and their
twin, and says how: `StructStepKeeps` is proved once, for all of these. What is left is
that each way a `read` loop or a flush can end has the same bytes and offsets
(`ReadsEnd`, `WritesEnd`), which rests on lemmas about pieces of a file (`BytesJoin`,
`BytesWithin`) and about two writes in a row being one (`PutAtTwice`).

### `ElfProofs`: the editors of ELF files

- `ExecSoundHolds`: `Spec => []ExecSound`
- `ObjSoundHolds`: `Spec => []ObjSound`

for any files, plans and number of retries, with a failure or a kill at any step.
`FilesAssumption` is what a linker and an assembler make: no segment has more bytes in
the file than in memory, each section has a name that `.shstrtab` has, once, and names
are of symbols that have them. `PlansAssumption` is the order of `minicc.sh`: `elfxfix
-r` comes right after the linker has been called again, and only then.

Neither property is inductive. `ExecSound` speaks of the file, and what the next write
does to it depends on what the tool has read steps before: which program header it is
at, how long it will make the file, whether it has come to `.bss`. The inductive
invariant is

    ElfInv == ExecInv /\ ObjInv

About the file, `SegmentsOK` says that its program headers are the linker's (`Image`:
each segment has the same bytes at the same addresses, perhaps from the beginning of
its page on), with the number of `fix.o` more in `.bss` as long as the command that
takes them off has not written; `LengthOK`, `SectionsOK`, `UntouchedOK`, `StringsOK`,
`NamesKept` and `SymbolsOK` are about what else may be changed, and `FixOK` about that
number. About a tool in the middle of its work, `ExecVarsOK` (in the loop over the
program headers, `LoopOK`) and `ObjVarsOK` say that what it is going to write is such a
file, too, as far as it has come.

A step may end the tool in several ways, or go on. That each of these keeps the
invariant if the file does is proved once (`FailKeeps`, `StopKeeps`, `SuccessKeeps`,
`GotoKeeps`, `ObjEnds`, `ObjGoes`); what is left for an action is what it computes and
writes. After a write that was cut short the first headers are new and the rest are
old: by `ImageMixed` these are the linker's as well, since `.bss` is in one of them
only. For the loop of `elfofix`, `Woven` gives each symbol after the first *n* - 1 have
been looked at, from those of the assembler: renamed, removed, given the place of its
partner, or as it was; `WovenNext` is one turn, and a table that was woven to its end
stays as it is when the tool is run again.

### `LibMakerProofs`: the archiver

- `OldLibraryKeptHolds`: `Spec => OldLibraryKept`
- `TmpGoneHolds`: `Spec => TmpGone`
- `MembersInOrderHolds`: `Spec => []MembersInOrder`, a part of `LibraryRight`

for any files and command lines (`ArgsAssumption` has their type), and failures at
any step. `TmpGone` needs `Phases`: when the temporary file is open at each place of
the program. `MembersInOrder` is about the finished library, and its invariant about
how it comes to be:

    LibInv == Phases /\ Turns /\ Filling /\ MembersInOrder

`Turns` says which object each loop is at, `Filling` that the temporary file has the
objects before that one, each behind its header (`Filled`), and that what is written to
the library before the copy has no members. The rest of `LibraryRight` is about
offsets, which are sums over the sizes of pieces; it stays with TLC.

### `LibraryProofs`: temporary files, dates, tokens

**Temporary files.** For any number of processes, names and tries (the ASSUMEs of `TempFiles`, which keep
processes and the two other owners of names apart):

- `TempFilesHold`: `TempSpec => []TempFilesRight`, a file belongs to the call that
  answers with it or is about to remove it, one that fails leaves none and says why
- `NeverTakenOverHolds`: `TempSpec => NeverTakenOver`, a name in use changes its owner
  only by being removed

`TempSpec` is the specification of `TempFiles` alone; `Library` takes its steps in the
part "temp". `TempFilesRight` is not inductive: it does not say that a process that
has not begun has no answer yet, nor that the tries made and those left add up, nor
that only `tempnam` gets to `unlink`. The inductive invariant is

    TempInvariant == TempTypeOK /\ \A p \in Procs : Sound(p)

where `Sound(p)` has these (`Phase`) beside the two parts of `TempFilesRight`
(`Honest`, `Accounted`) for one process. A step of one process leaves the others alone
(`LeftAlone`), so that each action needs a proof for the process that takes it
(`OneSteps` puts the two together), and steps of other programs touch no file of a
process (`ElsewhereSound`).

**Dates.** `CalendarRightHolds`: `DateSpec => []CalendarRight`, for every year, before
and after 1970, every second of a day (`CalendarAssumption` has the types of `Years` and
`DaySeconds`) and both widths of `time_t`. The code finds the date with a few divisions,
looking up neither months nor leap years. The proof counts years from the first of
March (`MarchYear`), so that a leap day is the last of its year: `WideMarch` has that the
quotients of the code give the year and the day in it for every day number, negative
ones and all centuries included; `MonthTable` and `DateOK`, that month and day, found
with the factor 153, are those of the calendar. `NarrowSame` says that the shorter
formula for 4 bytes agrees wherever such a time is. `DaysFromIs`, with `FromYearDay` and
`FromMonth`, is the way back for `timegm`. The invariant, `Converted`, says that all the
fields are those of the time they were made from.

**Tokens.** `TokensKeptHolds`: `TokensSpec => []TokensKept`, for strings of any length,
any separators, and any sequence of calls, with another string begun, or one that was
cut already, in between (`TokensAssumption`: texts are strings of characters).
`TokensKept` speaks of the tokens so far; the next one depends on what memory has behind
the saved pointer, after the bytes that were overwritten. The invariant, `KeptTokens`,
has `Holds`: from that pointer on, memory holds the rest of the text. What the two scans
of a call find is proved by the least position at which it could be wrong
(`PastAllOK`, `UpToOK`); `CutOK` and `TakenOK` have that a call takes the next token
and leaves the rest, and `WholeNext` that a run which was right before is right with it.

### What stays with TLC

- Liveness under fairness (`CallReturns` of three modules, `ExitEnds`, `TriesEnd`),
  which is out of the prover's reach, like ENABLED.
- `Printf` and `Omf2Elf`, all of it; of `ElfTools`, `Idempotent`; of `LibMaker`, what is
  about offsets (`ArmapFinds`, `NamesResolve`, the rest of `MembersWhole`).
- Of `Library`, `SortingRight`, `StrtolReads`, `OptionsParsed`, `CommandsRight` and
  `PlainPrintsRight`.

What these have in common is that they compare two things computed by recursion over
the data (`Numeral`, `Printed`, the merges of `Sorting`, the value of a string, the
tables of the two passes). Induction as the library's theorems state it takes an
operator as a parameter, which the provers at hand cannot instantiate. Where a proof
above needs an induction it is by a least counterexample (sums in `StdioTableProofs`,
powers of 2 in `HeapProofs`, positions in `LibraryProofs`), which is practical for one
function at a time.

## 6. Findings

Each has a run that ends in a counterexample; sources and texts are quoted in
`PROJECT.json`.

| Run | What the code does |
|---|---|
| `heap_first_growth` | after a refused first `brk`, the next `malloc` cuts beyond the break |
| `printf_longlong` | digits of a `long long` stop where the low half of a quotient is 0 |
| `print_buf` | the buffer of the small `vfprintf` has no room for the sign of a number of ten digits; a padding on the left overwrites it |

The passing properties leave out, by name, what these runs show. They also take the
following as it is; these are things the code does that a reader may not expect, met
while modelling.

stdio_medium:

- `fopen` with mode "a" passes `O_TRUNC` and empties the file
  (`stdio_medium_jmp_freopen_low.nasm:48`).
- `stdin` reopened for writing is not flushed at exit; `exit` flushes `stdout` and the
  slots.
- An unbuffered `fputc` leaves `buf_off` behind, so `ftell` of `stderr` stays 0.
- `fputs` and `puts` never return EOF: they hand on the count of `fwrite`.
- `calloc` clears memory at NULL when the heap is exhausted (`calloc.nasm:44`).
- A failed `fseek` has changed `buf_off` before `lseek(2)`, so `OffsetTracks` of
  `StdioIn` excepts such a stream; `stderr` reopened for reading asks `read(2)` for 0
  bytes and is always at its end; the flags `-0` of `printf` pad with zeros on the
  right; a block of `malloc` may be more than twice the request when it was cut by
  `realloc` for another.

The smaller stdio libraries:

- `clearerr` on a fully buffered stream without an error, or on a line-buffered one,
  moves `bufp` away from what waits (`c_stdio_stdout_simple2.c:53-54`); `set_linebuf`
  after an error loses the place that was saved; a flush that fails half-way sends its
  first bytes again after `clearerr`; `setvbuf` without a buffer changes the pointers
  before it refuses.
- The two `stdio_file` libraries differ on misuse, which `SimpleFile` leaves out:
  `fgetc` on a stream that is written or closed (the buffered one looks at its
  pointers first), `ftell` on a closed one, `fflush` on one that is read.

Algorithms:

- `strtol` of "0x" without a digit sets the end to the start of the string.
- `getopt` skips the rest of a cluster after an unknown option; it starts over only
  with `optind = 0`; it prints a message for a missing argument exactly when the
  option string begins with a colon, where POSIX has it be silent.
- `execvp` reports ENOENT also when what it found may not be run, and skips empty
  entries; the search of `cc` gives up at the first entry that is too long.
- `tempnam` compares `*tdir` with `'0'`, not `'\0'` (`c_tempnam.c:18`), and its name
  is free again when it is returned; `mktmpf` makes one try more than `TRY_COUNT`;
  `mkstemp` tries for ever while every name is taken.

Tools:

- `sstrip -l -na -ns` and `elfofix` without `-w` use an uninitialised variable
  (`sstrip.c:255`, `elfofix.c:131`): `Garbage` in the models.
- `elfxfix` with only an OSABI flag stops once it has changed that byte, so a second
  run goes on to fix `p_align`; `elfxfix -r` takes its number off `.bss` each time.
  Both write the program headers before they find the file too short.
- `elfnostack` does not see a name that is the tail of another; its comment says `#`
  and it writes `,`. `elfofix` run again after half a write of the symbol table can
  lose a symbol.
- `tiny_libmaker` measures paths in one place and names without directories in another
  (369, 506), so that long names of files in directories are looked up at wrong places
  (`NamesResolve` leaves directories out). It does not look at the results of most of
  its writes (`torn`), uses the symbol table of the last object for one without
  (`wild`), and closes a file twice if the library cannot be opened; once the header
  is begun the old library is gone.
- `omf2elf` without string optimisation moves the second symbol of one LPUBDEF in
  CONST again (`OneNameInConst`) and refuses a file that uses YIB with `-os1` only in
  the second pass (`GhostUsed`). It ignores the data of debug segments (660-667) but
  not their fixups, which then use a `section` past the end of the table
  (`FixupsFollowData` leaves such files out).

## 7. What the models leave out

Of what is modelled:

- `EINTR` is an error like any other, as in the code.
- Two streams on one file share no offset in `StdioTable`: it counts bytes. `fdopen`
  of a descriptor that does not stand at 0, where `buf_off` is wrong, would need the
  product of `StdioTable` and two `StdioOut`, which is too large for a run.
- The program keeps to the interface: it closes a stream once, does not close the
  descriptor of a stream behind its back, frees blocks it holds, asks for products
  that fit a word, and `strtok`s a string it has.
- `sprintf` (no limit) and the `vfprintf_simple` variant have no run of their own.
- `fread`'s division by the item size; only the bytes are modelled.
- Offsets and sizes in ELF and OMF files are small enough for no sum to wrap.
- The start files' set-up of `argv`.

Not modelled, and why:

| Part | Reason |
|---|---|
| `strtod`, `strtold`, `log`, `pow` and the other x87 code | arithmetic on extended reals, which TLA+ as checked here does not have |
| strings, memory, characters, error texts | one loop or one table each, without state: a model would be the code again, and the repository's tests cover them |
| 64-bit helpers | straight-line code over registers and the carry; the one with a loop that matters, the division in `vfprintf`, is in `Printf` |
| system call wrappers, `errno`, signals | they move arguments to registers and results to `errno`; the kernel keeps the state |
| `setjmp`, compiler run-time helpers | registers |
| `mmap` allocator | each block is a mapping of its own, so blocks share nothing; what is left is the sum of the size and 16, which wraps around for the last 16 sizes (`malloc_mmap_linux.nasm:56`) and gives them one page |
| random numbers | bit mixing; in `TempFiles` any name may come next |
| `smart.nasm` | a table evaluated by the assembler, nothing runs |
| other systems | system call numbers |
| compiler driver and optimizer | parse flags and run compilers; their use of the ELF tools and of links is in `ElfTools` and `Commands` |

## 8. Plan

What is left is proof, and begins with definitions that the provers can work with, by
least counterexamples in place of recursion:

1. `Omf2Elf`: `AssertsHold`, from an invariant that says what the counters of the second
   pass have left of those of the first one.
2. `LibMaker`: `ArmapFinds`, with sums of sizes as in `StdioTableProofs`.
3. `Options` like `Tokens`; `StrtolReads`; `bsearch` of `Sorting`.
4. `Printf`: that no step passes the end of the buffer, then what is printed.
