------------------------------ MODULE LibMaker ------------------------------
(***************************************************************************)
(* tools/tiny_libmaker: makes a static library, an archive, of files, most *)
(* of which are ELF object files.  The members are written to a temporary  *)
(* file while the symbols that they define are collected; then the library *)
(* is written: its index of symbols (armap), the list of the names that    *)
(* have no place in a member's header, and what is in the temporary file.  *)
(*                                                                         *)
(* A file is a sequence of pieces of known sizes.  A file to be added is   *)
(* [path, dir, base, size, elf, symtab, strtab, syms]: a path of dir       *)
(* characters of directories and a name of base characters.                *)
(***************************************************************************)
EXTENDS Checks, FiniteSets

CONSTANTS
  Args,      \* the command lines
  Objects,   \* the files that can be added, by number
  FuncMax,   \* the first value of funcmax
  MayFail    \* may system calls fail?

ASSUME ArgsAssumption ==
  Args \subseteq Seq([text : STRING, file : Nat, dash : BOOLEAN, dot : BOOLEAN, conflict : BOOLEAN])

VARIABLES
  args,   \* the command line
  lib,    \* the library, or Absent
  tmp,    \* the temporary file, or Absent
  s,      \* the variables of main
  phase,  \* what is done next
  exit,   \* the exit code
  torn,   \* has an unchecked write failed?
  wild    \* was a symbol table of a freed buffer used?

vars == <<args, lib, tmp, s, phase, exit, torn, wild>>

-----------------------------------------------------------------------------
Absent == <<[kind |-> "absent", size |-> 0]>>
OldLibrary == <<[kind |-> "old", size |-> 1]>>

ArmagSize == 8
HdrSize == 60
NameSize == 16
WordSize == 4
STB_GLOBAL == 1
STB_WEAK == 2
CodeOrData == {0, 1, 2}

\* A member's header, with nothing but a name and a size.
ArHdr(name, size) == [kind |-> "header", name |-> name, len |-> size, size |-> HdrSize]

SizeOf(pieces) == FoldSeq(LAMBDA p, n : p.size + n, 0, pieces)

\* A number as it is in the memory of an i386: the low byte is first.
Word(n) == <<n % 256, (n \div 256) % 256, (n \div 65536) % 256, n \div 16777216>>

\* The bytes of a number in the other order.
le2belong(w) == Reverse(w)

Init ==
  /\ args \in Args
  /\ lib \in {Absent, OldLibrary}
  /\ tmp = Absent
  /\ s = [objs |-> <<>>, i_obj |-> 1, listing |-> <<>>, listing_idx |-> 0, symtab |-> 0,
          strtab |-> 0, anames |-> <<>>, afpos |-> <<>>, strpos |-> 0, funcmax |-> FuncMax,
          fpos |-> 0, fo |-> "NULL"]
  /\ phase = "args" /\ exit = Running /\ torn = FALSE /\ wild = FALSE

-----------------------------------------------------------------------------
(* Ends of the program. *)

Goto(next) == phase' = next /\ UNCHANGED <<args, exit>>

Quits(code) == phase' = "ended" /\ exit' = code /\ UNCHANGED <<args, s, torn, wild>>

\* the_end: the temporary file is removed if fo is not NULL.
TheEnd(code) ==
  /\ tmp' = IF s.fo = "NULL" THEN tmp ELSE Absent
  /\ Quits(code)

Fails == MayFail /\ TheEnd(2) /\ UNCHANGED lib

-----------------------------------------------------------------------------
(* The command line. *)

\* The arguments that are options; the first one needs no dash.
IsOption(i) == args[i].dash \/ (i = 1 /\ ~args[i].dot)

\* Bad arguments end the program, the first one at once.
ArgCode(a) ==
  CASE a.dash /\ a.dot -> 1
    [] a.text = "-h"   -> 0
    [] a.conflict      -> 1
    [] OTHER           -> Running

ParseArgs ==
  LET Options == {i \in DOMAIN args : IsOption(i) /\ ArgCode(args[i]) # Running}
      Others == {i \in DOMAIN args : ~IsOption(i)}
  IN
  /\ phase = "args"
  /\ IF Options # {} THEN Quits(ArgCode(args[CHOOSE i \in Options : \A j \in Options : i <= j]))
                          /\ UNCHANGED <<lib, tmp>>
     ELSE IF Cardinality(Others) < 2 THEN Quits(1) /\ UNCHANGED <<lib, tmp>>
     ELSE /\ \E files \in [1..Cardinality(Others) -> Others] :
               /\ \A i, j \in DOMAIN files : i < j => files[i] < files[j]
               /\ s' = [s EXCEPT !.objs = [i \in 1..(Len(files) - 1) |-> args[files[i + 1]].file]]
          /\ Goto("open") /\ UNCHANGED <<lib, tmp, torn, wild>>

\* Mutant: the library is emptied before anything is read.
OpenedEmpty == <<>>

\* The library after it has been opened for appending.
Opened == IF lib = Absent THEN <<>> ELSE lib

OpenLib ==
  /\ phase = "open"
  /\ \/ Fails
     \/ MayFail /\ lib' = Opened /\ TheEnd(2)
     \/ /\ lib' = Opened /\ tmp' = <<>>
        /\ s' = [s EXCEPT !.fo = "open"] /\ Goto("listing") /\ UNCHANGED <<torn, wild>>

-----------------------------------------------------------------------------
(* The list of long names. *)

PathLen(f) == Objects[f].dir + Objects[f].base

\* The line of a file in the list: its path, "/" and a newline.
Listed(f) == [name |-> Objects[f].path, size |-> PathLen(f) + 2]

\* The list of the files with long paths, of even size.
Listing(objs) ==
  LET long == SelectSeq(objs, LAMBDA f : PathLen(f) >= NameSize)
      lines == [i \in DOMAIN long |-> Listed(long[i])]
  IN IF SizeOf(lines) % 2 = 0 THEN lines ELSE lines \o <<[name |-> "", size |-> 1]>>

MakeListing ==
  /\ phase = "listing"
  /\ \/ SizeOf(Listing(s.objs)) > 0 /\ Fails
     \/ /\ s' = [s EXCEPT !.listing = Listing(s.objs)]
        /\ Goto("read") /\ UNCHANGED <<lib, tmp, torn, wild>>

-----------------------------------------------------------------------------
(* The files. *)

\* Is the symbol one that others can refer to?
Defines(sym) ==
  /\ sym.shndx # 0
  /\ sym.bind \in {STB_GLOBAL, STB_WEAK} /\ sym.type \in CodeOrData

\* The names, but the first symbol's, that a symbol table makes known.
DefinedNames(syms) ==
  LET defined == SelectSeq(Tail(syms), Defines) IN [i \in DOMAIN defined |-> defined[i].name]

\* funcmax after the n-th name.
Grown(funcmax, n) == IF n >= funcmax THEN 2 * funcmax ELSE funcmax

\* The variables after names have been added.
WithNames(st, names) ==
  [st EXCEPT !.anames = @ \o names, !.afpos = @ \o [i \in DOMAIN names |-> Word(st.fpos)],
             !.strpos = @ + FoldSeq(LAMBDA x, y : x.len + 1 + y, 0, names),
             !.funcmax = FoldLeft(Grown, @, [i \in DOMAIN names |-> Len(st.afpos) + i])]

\* symtab and strtab keep their values when a file has no such section: they
\* then point to a buffer that has been freed, where anything may be.
ReadObject ==
  LET f == s.objs[s.i_obj]
      o == Objects[f]
      st == [s EXCEPT !.symtab = IF o.symtab THEN f ELSE @, !.strtab = IF o.strtab THEN f ELSE @]
  IN
  /\ phase = "read"
  /\ UNCHANGED <<lib, torn>>
  /\ IF s.i_obj > Len(s.objs)
       THEN Goto("header") /\ s' = [s EXCEPT !.fo = "closed"] /\ UNCHANGED <<tmp, wild>>
     ELSE \/ MayFail /\ TheEnd(2)
          \/ o.size = 0 /\ TheEnd(2)
          \/ /\ o.size # 0 /\ UNCHANGED tmp
             /\ IF ~o.elf \/ st.symtab = 0
                  THEN s' = (IF o.elf THEN st ELSE s) /\ Goto("add") /\ UNCHANGED wild
                ELSE IF st.symtab = f /\ st.strtab = f
                  THEN s' = WithNames(st, DefinedNames(o.syms)) /\ Goto("add") /\ UNCHANGED wild
                ELSE /\ wild' = TRUE
                     /\ \/ phase' = "ended" /\ exit' = Segfault /\ UNCHANGED <<args, s>>
                        \/ /\ \E names \in {<<>>, DefinedNames(Objects[st.symtab].syms)} :
                                s' = WithNames(st, names)
                           /\ Goto("add")

\* A size, rounded up to an even number.
Even(n) == RoundUp(n, 2)

\* The header of a file, with its name or a place in the list of long names.
MemberHeader(f) ==
  IF Objects[f].base >= NameSize THEN ArHdr(<<"/", s.listing_idx>>, Objects[f].size)
  ELSE ArHdr(<<"name", Objects[f].path>>, Objects[f].size)

\* The place of the next long name, if no path has a directory.
NextIndex(f) ==
  s.listing_idx + (IF Objects[f].base >= NameSize THEN Objects[f].base + 2 ELSE 0)

\* The header and the contents are written; nobody looks at the results.
AddFile ==
  LET f == s.objs[s.i_obj]
      data == [kind |-> "data", of |-> f, size |-> Even(Objects[f].size)]
  IN
  /\ phase = "add"
  /\ \/ tmp' = tmp \o <<MemberHeader(f), data>> /\ UNCHANGED torn
     \/ MayFail /\ torn' = TRUE /\ tmp' \in {tmp, tmp \o <<MemberHeader(f)>>}
  /\ s' = [s EXCEPT !.i_obj = @ + 1, !.fpos = @ + Even(Objects[f].size) + HdrSize,
                    !.listing_idx = NextIndex(f)]
  /\ Goto("read") /\ UNCHANGED <<lib, wild>>

-----------------------------------------------------------------------------
(* The library. *)

\* Mutant: the list of long names is not counted.
HofsShort ==
  ArmagSize + HdrSize + s.strpos + (Len(s.afpos) + 1) * WordSize

\* Where the first member comes to be, before alignment.
Hofs ==
  ArmagSize + HdrSize + s.strpos + (Len(s.afpos) + 1) * WordSize
  + (IF s.listing = <<>> THEN 0 ELSE HdrSize + SizeOf(s.listing))

\* The number that a word in memory is.
Number(w) == w[1] + 256 * w[2] + 65536 * w[3] + 16777216 * w[4]

\* What the index has for a member at offset w of the temporary file.
Stored(w) == le2belong(Word(Number(w) + Even(Hofs)))

\* The index: the number of names, an offset for each, and the names.
Armap ==
  LET n == Len(s.afpos)  bytes == s.strpos + (n + 1) * WordSize IN
  IF n = 0 THEN <<>>
  ELSE << ArHdr(<<"/", 0>>, Even(bytes)),
          [kind |-> "armap", count |-> le2belong(Word(n)), names |-> s.anames,
           offsets |-> [i \in 1..n |-> Stored(s.afpos[i])],
           size |-> bytes + (Hofs % 2)] >>

LongNames ==
  IF s.listing = <<>> THEN <<>>
  ELSE << ArHdr(<<"/", 1>>, SizeOf(s.listing)),
          [kind |-> "names", lines |-> s.listing, size |-> SizeOf(s.listing)] >>

\* Here the old library goes.
WriteHeader ==
  LET pieces == <<[kind |-> "armag", size |-> ArmagSize]>> \o Armap \o LongNames IN
  /\ phase = "header"
  /\ \/ Fails
     \/ /\ s' = s /\ Goto("copy") /\ UNCHANGED <<tmp, wild>>
        /\ \/ lib' = pieces /\ UNCHANGED torn
           \/ /\ MayFail /\ torn' = TRUE
              /\ \E k \in 0..(Len(pieces) - 1) : lib' = SubSeq(pieces, 1, k)

\* Mutant: the temporary file is left behind.
TmpLeft == tmp

\* The temporary file after it has been removed.
TmpRemoved == Absent

CopyObjects ==
  /\ phase = "copy"
  /\ \/ MayFail /\ UNCHANGED <<lib, tmp>> /\ Quits(2)                  \* fopen: fo is NULL
     \/ /\ MayFail /\ tmp' = TmpRemoved /\ Quits(2)
        /\ \E k \in 0..Len(tmp) : lib' = lib \o SubSeq(tmp, 1, k)
     \/ lib' = lib \o tmp /\ tmp' = TmpRemoved /\ Quits(0)

Next == ParseArgs \/ OpenLib \/ MakeListing \/ ReadObject \/ AddFile \/ WriteHeader \/ CopyObjects

Spec == Init /\ [][Next]_vars

-----------------------------------------------------------------------------
(* Properties. *)

\* The types of the variables.  The offsets of the names are within the
\* allocated afpos, the first element of which is the number of names.
TypeOK ==
  /\ phase \in {"args", "open", "listing", "read", "add", "header", "copy", "ended"}
  /\ exit \in {Running, 0, 1, 2, Segfault} /\ (phase = "ended") <=> (exit # Running)
  /\ s.i_obj \in 1..(Len(s.objs) + 1) /\ s.fo \in {"NULL", "open", "closed"}
  /\ Len(s.anames) = Len(s.afpos)
  /\ Len(s.afpos) < s.funcmax
  /\ torn \in BOOLEAN /\ wild \in BOOLEAN

Made == exit = 0 /\ phase = "ended" /\ s.objs # <<>> /\ ~torn /\ ~wild

\* Where the i-th piece of the library begins.
OffsetOf(i) == SizeOf(SubSeq(lib, 1, i - 1))
Pieces(kind) == {i \in DOMAIN lib : lib[i].kind = kind}
BigEndian(w) == 16777216 * w[1] + 65536 * w[2] + 256 * w[3] + w[4]

\* A header and contents that are those of file f.
IsMember(header, data, f) ==
  /\ header.kind = "header" /\ header.len = Objects[f].size
  /\ data.kind = "data" /\ data.of = f /\ data.size = Even(header.len)

\* The names that object file f defines for others.
Exports(f) == {sym.name : sym \in {y \in Range(Tail(Objects[f].syms)) :
                 y.shndx # 0 /\ y.bind # 0 /\ y.type \in CodeOrData}}

\* In a library that was made without failures, the index has every name that
\* a member defines, and its offset is where that member's header is, as the
\* linker reads it: for this two passes over different sizes must agree.
ArmapFinds ==
  Made =>
    LET index == UNION {{<<lib[i].names[k], BigEndian(lib[i].offsets[k])>> :
                          k \in DOMAIN lib[i].offsets} : i \in Pieces("armap")}
        defined == UNION {IF Objects[lib[i].of].elf /\ Objects[lib[i].of].symtab
                            THEN {<<n, OffsetOf(i - 1)>> : n \in Exports(lib[i].of)} ELSE {} :
                          i \in Pieces("data")}
    IN index = defined /\ \A i \in Pieces("armap") : BigEndian(lib[i].count) = Len(lib[i].names)

\* The library ends in the files of the command line, each behind a header with
\* its size, in their order, and there is no other member: for this the loop that
\* fills the temporary file, the header and the copy must fit together.
MembersInOrder ==
  Made =>
    LET n == Len(s.objs)
        first == Len(lib) - 2 * n
    IN
    /\ \A i \in 1..first : lib[i].kind # "data"
    /\ \A i \in 1..n : IsMember(lib[first + 2 * i - 1], lib[first + 2 * i], s.objs[i])

\* Those are all the members, and readers, which go from header to header by even
\* sizes, find all of them.
MembersWhole ==
  /\ MembersInOrder
  /\ Made => \A i \in Pieces("header") : OffsetOf(i) % 2 = 0 /\ Even(lib[i].len) = lib[i + 1].size

\* Every header has the name of its file, or the place where the list has it,
\* if the paths have no directories: the list has paths, and the places are
\* those of names.
NamesResolve ==
  Made /\ (\A f \in Range(s.objs) : Objects[f].dir = 0) =>
    \A i \in Pieces("data") :
      LET path == Objects[lib[i].of].path  name == lib[i - 1].name IN
      \/ name = <<"name", path>>
      \/ \E j \in Pieces("names") : \E k \in DOMAIN lib[j].lines :
           lib[j].lines[k].name = path /\ name = <<"/", SizeOf(SubSeq(lib[j].lines, 1, k - 1))>>

\* As long as files are read, the old library is there, so that a file that
\* cannot be read costs nothing.
OldLibraryKept ==
  [][phase \notin {"header", "copy"} => lib' \in {lib, <<>>} /\ (lib' # lib => lib = Absent)]_vars

\* Whatever fails, the temporary file is gone at the end, unless the program
\* has crashed or it was opening this file that has failed.
TmpGone ==
  [][phase' = "ended" /\ exit' # Segfault =>
       tmp' = Absent \/ (phase = "copy" /\ exit' = 2 /\ lib' = lib)]_vars

\* A linker finds in the library what was put into it.
LibraryRight == TypeOK /\ ArmapFinds /\ MembersWhole /\ NamesResolve

=============================================================================
