------------------------------ MODULE ElfFile -------------------------------
(***************************************************************************)
(* What the four tools that edit an ELF file in place have in common: the  *)
(* file, the command lines, and the checks of the ELF header.  The tools   *)
(* sstrip and elfxfix edit executables (ElfExec), elfofix and elfnostack   *)
(* edit object files (ElfObj).                                             *)
(*                                                                         *)
(* A file is its length, its ELF header, its program headers, its section  *)
(* headers, the strings of .shstrtab and the symbols; no tool changes any  *)
(* other byte, except by truncating the file.  Offsets and addresses are   *)
(* below 2^31, so that no sum of two of them wraps around.  The name of a  *)
(* section is a string of .shstrtab, or the tail of one.  The name of a    *)
(* symbol has one of the two prefixes that elfofix knows, or none.         *)
(***************************************************************************)
EXTENDS Checks, TLC

CONSTANTS
  Files,     \* the files to start with
  Plans,     \* the sequences of commands to run on them
  Garbage,   \* the bytes that an uninitialized char may be
  MaxRetry,  \* bound: how often a command is run again after a failure
  MayFail    \* may system calls fail, and may a tool be killed?

VARIABLES
  linked,   \* the file as the linker or the assembler has created it
  file,     \* the file as it is now
  fix,      \* the number in the file fix.o, 0 if it is empty
  plan,     \* the commands still to be run, the current one first
  phase,    \* what the current tool does next
  m,        \* its variables
  exit,     \* its exit code
  settled,  \* the last command that succeeded, and the file it left
  retries   \* the number of retries so far

vars == <<linked, file, fix, plan, phase, m, exit, settled, retries>>

-----------------------------------------------------------------------------
ET_REL == 1
ET_EXEC == 2
EhdrSize == 52
PhdrSize == 32
ShdrSize == 40
SymSize == 16
PT_LOAD == 1
ELFOSABI_SYSV == 0
ELFOSABI_LINUX == 3
ELFOSABI_IRIX == 8
ELFOSABI_FREEBSD == 9
KeepOsabi == 255

Killed == 137

-----------------------------------------------------------------------------
(* The files. *)

NoText == ""
NoteStack == ".note.GNU-stack"
HiddenStack == ",note.GNU-stack"

Ehdrs ==
  [magic : BOOLEAN, ident : BOOLEAN, type : Nat, version : Nat, osabi : Nat, phoff : Nat,
   phentsize : Nat, phnum : Nat, shoff : Nat, shentsize : Nat, shnum : Nat, shstrndx : Nat]
Phdrs ==
  [type : Nat, offset : Nat, vaddr : Int, paddr : Int, filesz : Nat, memsz : Nat, align : Nat]
Shdrs ==
  [name : Nat, tail : STRING, type : Nat, flags : SUBSET STRING, offset : Nat, size : Nat,
   link : Nat, entsize : Nat]
Symbols ==
  [name : [pre : STRING, rest : STRING], bind : {"LOCAL", "GLOBAL", "WEAK"}, type : STRING,
   shndx : Nat, value : Nat]
ElfFiles ==
  [len : Nat, ehdr : Ehdrs, phdrs : Seq(Phdrs), shdrs : Seq(Shdrs), shstr : Seq(STRING),
   syms : Seq(Symbols)]

Nameless(s) == s.name = [pre |-> NoText, rest |-> NoText]
HasName(s) == s.type \in {"NOTYPE", "OBJECT", "FUNC"}

\* What the linker and the assembler make: a segment has no more bytes in the
\* file than in memory, .shstrtab has the names of the sections, each string
\* once, and names are of symbols that have them, but not of the first one.
FilesAssumption ==
  /\ Files \subseteq ElfFiles
  /\ \A f \in Files :
       /\ \A k \in DOMAIN f.phdrs : f.phdrs[k].type = PT_LOAD => f.phdrs[k].filesz <= f.phdrs[k].memsz
       /\ \A i \in DOMAIN f.shdrs : f.shdrs[i].tail = NoText => f.shdrs[i].name \in DOMAIN f.shstr
       /\ \A i, j \in DOMAIN f.shstr : f.shstr[i] = NoteStack /\ f.shstr[j] = NoteStack => i = j
       /\ \A i \in DOMAIN f.syms : f.syms[i].name.pre # NoText => HasName(f.syms[i])
       /\ f.syms # <<>> /\ Nameless(f.syms[1]) => f.syms[1].bind = "LOCAL"
ASSUME FilesAssumption
ASSUME BoundsAssumption == MaxRetry \in Nat

-----------------------------------------------------------------------------
(* How a tool goes on, and how it ends. *)

cmd == Head(plan)
At(tool, where) == phase = where /\ cmd.tool = tool

Goto(where) == phase' = where /\ UNCHANGED <<linked, fix, plan, exit, settled, retries>>

\* The tool ends.
Ends(code) ==
  /\ phase' = "ended" /\ exit' = code
  /\ settled' = IF code = 0 THEN [cmd |-> cmd, file |-> file'] ELSE settled
  /\ UNCHANGED <<linked, plan, m, retries>>

\* It ends without changing a file.
Stops(code) == UNCHANGED <<file, fix>> /\ Ends(code)

\* A system call that has one of these exit codes fails.
Fails(codes) == MayFail /\ \E code \in codes : Stops(code)

\* A check that the tool makes has failed if code is not 0.
Checked(code, next) == IF code # 0 THEN Stops(code) ELSE next

-----------------------------------------------------------------------------
(* Command lines: an option sets flags, or takes the next argument. *)

FileNames == {"prog", "-"}

ParseStep(options, valued, st, arg) ==
  CASE st.bad                      -> st
    [] st.value # NoText            -> [st EXCEPT !.flags = options[st.value] @@ @, !.value = NoText]
    [] st.files > 0                -> [st EXCEPT !.files = @ + 1]
    [] st.ended \/ arg \in FileNames -> [st EXCEPT !.files = 1]
    [] arg = "--"                  -> [st EXCEPT !.ended = TRUE]
    [] arg \in valued              -> [st EXCEPT !.value = arg]
    [] arg \in DOMAIN options      -> [st EXCEPT !.flags = options[arg] @@ @]
    [] OTHER                       -> [st EXCEPT !.bad = TRUE]

\* The flags that the arguments leave, or <<>> if they are not accepted.
Parsed(args, flags, options, valued) ==
  LET st == FoldLeft(LAMBDA s, arg : ParseStep(options, valued, s, arg),
                     [flags |-> flags, value |-> NoText, ended |-> FALSE, files |-> 0, bad |-> FALSE],
                     args)
  IN IF st.bad \/ st.files # 1 THEN <<>> ELSE st.flags

\* A tool starts: parsed are its flags.
Starts(parsed) ==
  IF parsed = <<>> THEN Stops(1)
  ELSE Goto("header") /\ m' = [flags |-> parsed] /\ UNCHANGED file

-----------------------------------------------------------------------------
(* Opening the file, and the first checks of its header. *)

HeaderChecks(type) ==
  LET e == file.ehdr IN
  << <<file.len < EhdrSize, 3>>, <<~e.magic, 4>>, <<~e.ident, 5>>,
     <<e.type = type * 256, 6>>, <<e.type # type, 7>>, <<e.version # 1, 8>> >>

ReadHeader(type, next) ==
  \/ Fails({2, 3})
  \/ Checked(FirstFailure(HeaderChecks(type)),
             Goto(next) /\ m' = [flags |-> m.flags, ehdr |-> file.ehdr] /\ UNCHANGED file)
=============================================================================
