------------------------------ MODULE ElfTools ------------------------------
(***************************************************************************)
(* The tools that edit ELF files, run one after another the way minicc.sh  *)
(* and build.sh run them: every command of the plan must succeed for the   *)
(* next one to be run.  "relink" stands for the linker, which minicc.sh    *)
(* calls again if elfxfix -p has written to fix.o.  Tools may fail, or be  *)
(* killed between any two steps; minicc.sh deletes an object file then,    *)
(* but leaves an executable, on which the command may be run again.        *)
(***************************************************************************)
EXTENDS ElfExec, ElfObj

Init ==
  /\ linked \in Files /\ plan \in Plans
  /\ file = linked
  /\ fix = 0
  /\ phase = "start"
  /\ m = <<>>
  /\ exit = Running
  /\ settled = <<>>
  /\ retries = 0

\* The linker's output has a .bss that is larger by what fix.o says.
Relink ==
  /\ At("relink", "start")
  /\ LET k == CHOOSE i \in Loads(linked.phdrs) : \A j \in Loads(linked.phdrs) : j <= i IN
       file' = [linked EXCEPT !.phdrs[k].memsz = @ + fix]
  /\ Ends(0) /\ UNCHANGED fix

\* The next command is run; without a number in fix.o the rest is not.
Proceed ==
  /\ phase = "ended" /\ exit = 0 /\ Len(plan) > 1
  /\ plan[2].tool = "relink" => fix # 0
  /\ plan' = Tail(plan) /\ phase' = "start" /\ exit' = Running /\ m' = <<>>
  /\ UNCHANGED <<linked, file, fix, settled, retries>>

\* A command that has failed is run again.
Retry ==
  /\ phase = "ended" /\ exit # 0 /\ retries < MaxRetry
  /\ cmd.tool \in {"sstrip", "elfxfix"} /\ ~Shrinks(cmd)
  /\ phase' = "start" /\ exit' = Running /\ retries' = retries + 1 /\ m' = <<>>
  /\ UNCHANGED <<linked, file, fix, plan, settled>>

Kill == phase \notin {"start", "ended"} /\ MayFail /\ Stops(Killed)

Next ==
  \/ SstripNext \/ ElfxfixNext \/ ElfofixNext \/ ElfnostackNext
  \/ Relink \/ Proceed \/ Retry \/ Kill

Spec == Init /\ [][Next]_vars

-----------------------------------------------------------------------------
(* Properties. *)

\* The types of the variables; every exit code is one of a tool's.
TypeOK ==
  /\ file.len \in Nat /\ fix \in Nat
  /\ DOMAIN file.phdrs = DOMAIN linked.phdrs /\ DOMAIN file.syms = DOMAIN linked.syms
  /\ phase \in {"start", "header", "osabi", "phdrs", "loop", "write_phdrs", "truncate",
                "write_ehdr", "shdrs", "flags", "done", "symbols", "weak", "write", "shstrtab",
                "rename", "ended"}
  /\ exit \in {Running, Killed} \cup 0..36 \cup 50..54
  /\ (phase = "ended") <=> (exit # Running)
  /\ retries \in 0..MaxRetry

\* Is segment q as good as p, for a file of len bytes?  The bytes of p are
\* still in the file, at the same addresses, and the memory ends where it did.
Keeps(p, q, len) ==
  /\ q.type = p.type
  /\ q.vaddr - q.offset = p.vaddr - p.offset
  /\ q.vaddr <= p.vaddr /\ q.vaddr + q.filesz = p.vaddr + p.filesz
  /\ p.filesz > 0 => q.offset + q.filesz <= len
  /\ q.vaddr + q.memsz >= p.vaddr + p.memsz

\* After every step of every tool, also if it has failed or was killed, and
\* whatever was run before, an executable that had all its bytes loads them
\* where the linker has placed them.
ImageKept ==
  LET Complete(p) == p.filesz > 0 => p.offset + p.filesz <= linked.len IN
  (\A k \in Loads(linked.phdrs) : Complete(linked.phdrs[k])) =>
     \A k \in Loads(linked.phdrs) : Keeps(linked.phdrs[k], file.phdrs[k], file.len)

\* A tool that succeeds leaves no section header table that is beyond the
\* end of the file, even if an earlier run was killed after it had cut the file.
SectionsFound ==
  /\ phase = "ended" /\ exit = 0 /\ linked.ehdr.shoff + ShdrSize * linked.ehdr.shnum <= linked.len
  => file.ehdr.shnum = 0 \/ file.ehdr.shoff + ShdrSize * file.ehdr.shnum <= file.len

\* What minicc.sh does with -p, the linker and -r leaves .bss as large as the
\* linker has made it at first.
BssAsLinked ==
  (phase = "ended" /\ exit = 0 /\ Shrinks(cmd)) =>
     \A k \in Loads(linked.phdrs) :
        file.phdrs[k].vaddr + file.phdrs[k].memsz = linked.phdrs[k].vaddr + linked.phdrs[k].memsz

\* A command that has succeeded finds nothing to change when it is run again.
\* Some commands are not like this: elfxfix -r takes its number from .bss every
\* time; what sstrip -l writes without -a and -s is uninitialized, and so is
\* flag_w of elfofix unless -w is given; and elfxfix with
\* an OSABI flag alone stops early when it has changed that byte, and aligns
\* the first program header when it finds the byte right.
SettledCommand == phase # "ended" /\ settled # <<>> /\ settled.cmd = cmd
NotRepeatable ==
  \/ cmd.tool = "relink"
  \/ cmd.tool = "sstrip" /\ {"-l", "-na", "-ns"} \subseteq Range(cmd.args)
  \/ cmd.tool = "elfofix" /\ "-w" \notin Range(cmd.args)
  \/ Shrinks(cmd)
  \/ cmd.tool = "elfxfix" /\ {"-a", "-s", "-p"} \cap Range(cmd.args) = {}
Idempotent == [][SettledCommand /\ ~NotRepeatable => file' = settled.file]_vars

\* A file that a tool refuses is not changed: no check of the headers comes
\* after a write.  What sstrip and elfxfix refuse later, since it is too
\* short, has new program headers; elfofix checks the symbols after -r.
RefusedUntouched ==
  /\ phase = "ended" /\ retries = 0
  /\ exit \in 1..16 \/ (cmd.tool = "elfnostack" /\ exit \in 1..19)
  => file = IF settled = <<>> THEN linked ELSE settled.file

-----------------------------------------------------------------------------
(* What the linker makes of symbols: Defs are the names that other object  *)
(* files define.                                                           *)

\* What a relocation against symbol s means: an address here, a name's
\* address elsewhere, 0, or an error.
Means(s, Defs) ==
  IF s.shndx # SHN_UNDEF /\ (s.bind # "WEAK" \/ s.name.rest \notin Defs) THEN <<s.shndx, s.value>>
  ELSE IF s.name.rest \in Defs THEN s.name.rest
  ELSE IF s.bind = "WEAK" THEN "0" ELSE "undefined"

\* What the source of the symbols means: EXTERN.WEAK..f is f if it is defined
\* and 0 otherwise; WEAK..f here is f if f is not defined elsewhere.
Meant(syms, i, Defs) ==
  LET s == syms[i]  P == {j \in DOMAIN syms : LocalWeak(syms[j]) /\ syms[j].name.rest = s.name.rest}
  IN IF ExternWeak(s) THEN IF s.name.rest \in Defs THEN s.name.rest ELSE "0"
     ELSE IF IsExtern(s) /\ HasName(s) /\ s.name.pre = NoText /\ P # {} /\ s.name.rest \notin Defs
       THEN LET p == syms[CHOOSE j \in P : TRUE] IN <<p.shndx, p.value>>
     ELSE Means(s, Defs)

\* After elfofix -w every relocation against a symbol, which it holds by its
\* number, means what the source says, whatever the other object files
\* define.  NASM makes no relocation against a local symbol with a name.
LinksAsWritten ==
  (phase = "ended" /\ exit = 0 /\ cmd.tool = "elfofix" /\ m.flags.w) =>
     \A i \in DOMAIN linked.syms : ~LocalWeak(linked.syms[i]) =>
        \A Defs \in SUBSET {s.name.rest : s \in Range(linked.syms)} :
           Means(file.syms[i], Defs) = Meant(linked.syms, i, Defs)

\* The linker finds no section .note.GNU-stack after elfnostack, if no
\* assembler has made the name the tail of another, and no other section
\* gets another name.
OnlyStackRenamed ==
  (phase = "ended" /\ exit = 0 /\ cmd.tool = "elfnostack") =>
     \A i \in DOMAIN linked.shdrs :
        LET old == linked.shdrs[i]  name == SectionName(file, file.shdrs[i]) IN
        IF SectionName(linked, old) = NoteStack /\ old.tail = NoText
          THEN name = HiddenStack ELSE name = SectionName(linked, old)

\* Executables run as they were linked, before and after each write of a tool.
ExecSound == TypeOK /\ ImageKept /\ SectionsFound /\ BssAsLinked /\ RefusedUntouched

\* Objects link as their source says.
ObjSound == LinksAsWritten /\ OnlyStackRenamed

=============================================================================
