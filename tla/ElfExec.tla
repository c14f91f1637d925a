------------------------------ MODULE ElfExec -------------------------------
(***************************************************************************)
(* tools/sstrip and tools/elfxfix: both fix the program headers of an      *)
(* executable, cut what is beyond the last loaded byte and write the ELF   *)
(* header, in this order and in place.  elfxfix -p also detects padding    *)
(* that the linker has added, and writes to fix.o how much larger .bss has *)
(* to be for the linker not to add it; after linking again with fix.o,     *)
(* elfxfix -r takes as much from .bss.                                     *)
(***************************************************************************)
EXTENDS ElfFile

\* The parts that both tools share.

Larger(a, b) == IF a > b THEN a ELSE b
IsLoad(p) == p.type = PT_LOAD
Loads(ps) == {k \in DOMAIN ps : IsLoad(ps[k])}

PhdrChecks ==
  LET e == m.ehdr IN
  << <<e.phoff < EhdrSize, 11>>, <<e.phentsize # PhdrSize, 12>>, <<e.phnum = 0, 13>>,
     <<e.phnum > 128, 14>>, <<file.len < e.phoff + PhdrSize * e.phnum, 16>> >>

\* The program headers are read.  ehdr is what the header has become.
ReadPhdrs(ehdr) ==
  \/ Fails({15, 16})
  \/ Checked(FirstFailure(PhdrChecks),
             /\ Goto("loop") /\ UNCHANGED file
             /\ m' = [flags |-> m.flags, ehdr |-> ehdr, phdrs |-> file.phdrs, k |-> 1,
                      first |-> 0, changed |-> FALSE,
                      last_off |-> ehdr.phoff + PhdrSize * ehdr.phnum])

\* A segment that begins at the beginning of its page.
Enlarged(p) ==
  [p EXCEPT !.memsz = @ + p.offset, !.filesz = @ + p.offset, !.vaddr = @ - p.offset,
            !.paddr = @ - p.offset, !.offset = 0]

MayEnlarge(p) ==
  /\ p.offset \in 1..(p.align - 1)
  /\ p.offset % p.align = p.vaddr % p.align

\* Mutant: the header is aligned after it has been enlarged.
FixedLate(ps, k) ==
  LET located == IF m.flags.a /\ ps[k].paddr = 0 THEN [ps EXCEPT ![k].paddr = ps[k].vaddr] ELSE ps
      grown == IF m.flags.a /\ m.first = 0 /\ MayEnlarge(located[k])
                 THEN [located EXCEPT ![k] = Enlarged(@)] ELSE located
  IN IF Cardinality(Loads(ps)) = 1 /\ ps[1].align < 4096
       THEN [grown EXCEPT ![1].align = 4096] ELSE grown

\* The program headers after what every PT_LOAD header, the k-th, goes
\* through: a lone one gets page alignment (but in the first header), and -a
\* sets physical addresses and enlarges the first.
Fixed(ps, k) ==
  LET aligned == IF Cardinality(Loads(ps)) = 1 /\ ps[1].align < 4096
                   THEN [ps EXCEPT ![1].align = 4096] ELSE ps
      located == IF m.flags.a /\ aligned[k].paddr = 0
                   THEN [aligned EXCEPT ![k].paddr = aligned[k].vaddr] ELSE aligned
  IN IF m.flags.a /\ m.first = 0 /\ MayEnlarge(located[k])
       THEN [located EXCEPT ![k] = Enlarged(@)] ELSE located

\* Mutant: the offset of the segment is forgotten.
LoadedEndShort(p) == IF p.filesz > 0 THEN p.filesz ELSE 0

\* Where the loaded part of a segment ends in the file.
LoadedEnd(p) == IF p.filesz > 0 THEN p.offset + p.filesz ELSE 0

\* The tool's variables after the common part of the loop's body.
AfterFixes ==
  LET ps == Fixed(m.phdrs, m.k) IN
  [m EXCEPT !.phdrs = ps, !.changed = @ \/ ps # m.phdrs, !.k = @ + 1,
            !.first = IF @ = 0 THEN m.k ELSE @,
            !.last_off = IF m.flags.s THEN Larger(@, LoadedEnd(ps[m.k])) ELSE @]

LoopEnds == m.k > Len(m.phdrs) /\ Goto("write_phdrs") /\ UNCHANGED <<m, file>>
LoopSkips ==
  /\ m.k <= Len(m.phdrs) /\ ~IsLoad(m.phdrs[m.k])
  /\ m' = [m EXCEPT !.k = @ + 1]
  /\ UNCHANGED <<linked, file, fix, plan, phase, exit, settled, retries>>

\* The program headers are written, perhaps only some of them.
WritePhdrs ==
  IF ~m.changed THEN Goto("truncate") /\ UNCHANGED <<m, file>>
  ELSE \/ Fails({17})
       \/ /\ MayFail
          /\ \E k \in 0..(Len(m.phdrs) - 1) :
               file' = [file EXCEPT !.phdrs =
                          [i \in DOMAIN @ |-> IF i <= k THEN m.phdrs[i] ELSE @[i]]]
          /\ Ends(18) /\ UNCHANGED fix
       \/ Goto("truncate") /\ file' = [file EXCEPT !.phdrs = m.phdrs] /\ UNCHANGED m

\* A header of a file without section headers.
Unsectioned(e) == [e EXCEPT !.shoff = 0, !.shnum = 0, !.shstrndx = 0]

\* -s: the file is cut.
Truncate ==
  IF ~m.flags.s THEN Goto("write_ehdr") /\ UNCHANGED <<m, file>>
  ELSE \/ Fails({19})
       \/ m.last_off > file.len /\ Stops(20)
       \/ m.last_off < file.len /\ Fails({21})
       \/ /\ m.last_off <= file.len
          /\ file' = [file EXCEPT !.len = m.last_off]
          /\ m' = [m EXCEPT !.ehdr = Unsectioned(@)]
          /\ Goto("write_ehdr")

\* The header is written even if it has not changed: ehdr_has_changed is
\* never 0.
WriteEhdr ==
  \/ Fails({22, 23})
  \/ file' = [file EXCEPT !.ehdr = m.ehdr] /\ Ends(0) /\ UNCHANGED fix

-----------------------------------------------------------------------------
(* sstrip. *)

SstripOptions ==
  [o \in {"-v", "-z", "-g", "-x", "-N"} |-> <<>>]
  @@ ("-l" :> [l |-> TRUE]) @@ ("-a" :> [a |-> TRUE]) @@ ("-na" :> [a |-> FALSE])
  @@ ("-s" :> [s |-> TRUE]) @@ ("-ns" :> [s |-> FALSE])
  @@ ("-h" :> [h |-> TRUE]) @@ ("-nh" :> [h |-> FALSE])

SstripFlags(args) ==
  Parsed(args, [l |-> FALSE, a |-> TRUE, s |-> TRUE, h |-> TRUE], SstripOptions, {"-x", "-N"})

SstripStart == At("sstrip", "start") /\ Starts(SstripFlags(cmd.args))

SstripHeader == At("sstrip", "header") /\ ReadHeader(ET_EXEC, "osabi")

\* -l.  Without -a and -s the byte that is written is uninitialized.
SstripOsabi ==
  LET f == m.flags  e == m.ehdr  differs == f.l /\ e.osabi # ELFOSABI_LINUX IN
  /\ At("sstrip", "osabi")
  /\ IF f.a \/ f.s
       THEN /\ Goto("phdrs") /\ UNCHANGED file
            /\ m' = [m EXCEPT !.ehdr.osabi = IF f.l THEN ELFOSABI_LINUX ELSE @]
     ELSE IF ~differs THEN Stops(0)
     ELSE \/ Fails({9, 10})
          \/ /\ \E byte \in Garbage : file' = [file EXCEPT !.ehdr.osabi = byte]
             /\ Ends(0) /\ UNCHANGED fix

SstripPhdrs ==
  /\ At("sstrip", "phdrs")
  /\ ReadPhdrs([m.ehdr EXCEPT !.shentsize = IF m.flags.h /\ @ = 0 THEN ShdrSize ELSE @])

SstripPhdr ==
  /\ At("sstrip", "loop")
  /\ \/ LoopEnds \/ LoopSkips
     \/ /\ m.k <= Len(m.phdrs) /\ IsLoad(m.phdrs[m.k])
        /\ m' = AfterFixes
        /\ UNCHANGED <<linked, file, fix, plan, phase, exit, settled, retries>>

SstripWritePhdrs == At("sstrip", "write_phdrs") /\ WritePhdrs
SstripTruncate == At("sstrip", "truncate") /\ Truncate
SstripWriteEhdr == At("sstrip", "write_ehdr") /\ WriteEhdr

-----------------------------------------------------------------------------
(* elfxfix. *)

ElfxfixOptions ==
  ("-v" :> <<>>) @@ ("-l" :> [osabi |-> ELFOSABI_LINUX]) @@ ("-ll" :> [osabi |-> ELFOSABI_LINUX])
  @@ ("-ls" :> [osabi |-> ELFOSABI_SYSV]) @@ ("-lf" :> [osabi |-> ELFOSABI_FREEBSD])
  @@ ("-li" :> [osabi |-> ELFOSABI_IRIX]) @@ ("-a" :> [a |-> TRUE]) @@ ("-s" :> [s |-> TRUE])
  @@ ("-p" :> [p |-> TRUE]) @@ ("-r" :> [r |-> TRUE])

ElfxfixFlags(args) ==
  Parsed(args, [osabi |-> KeepOsabi, a |-> FALSE, s |-> FALSE, p |-> FALSE, r |-> FALSE],
         ElfxfixOptions, {"-p", "-r"})

\* Does command c make .bss smaller?
Shrinks(c) == c.tool = "elfxfix" /\ ElfxfixFlags(c.args) # <<>> /\ ElfxfixFlags(c.args).r

\* The order in which minicc.sh runs commands: -r, never with -p, comes right
\* after the linker has been called again, and comes then.  An OSABI flag
\* comes with -a.
InOrder(p) ==
  /\ p \in Seq([tool : STRING, args : Seq(STRING)]) /\ p # <<>>
  /\ \A i \in 2..Len(p) : Shrinks(p[i]) <=> p[i - 1].tool = "relink"
  /\ \A i \in DOMAIN p : Shrinks(p[i]) =>
       LET f == ElfxfixFlags(p[i].args) IN ~f.p /\ (f.a \/ f.osabi = KeepOsabi)

\* minicc.sh starts when the linker has ended.
PlansAssumption == \A p \in Plans : InOrder(p) /\ p[1].tool # "relink"
ASSUME PlansAssumption

ElfxfixStart == At("elfxfix", "start") /\ Starts(ElfxfixFlags(cmd.args))

ElfxfixHeader == At("elfxfix", "header") /\ ReadHeader(ET_EXEC, "osabi")

\* A change of the OSABI byte alone ends the tool, even with -r.
ElfxfixOsabi ==
  LET f == m.flags  differs == f.osabi \notin {KeepOsabi, m.ehdr.osabi} IN
  /\ At("elfxfix", "osabi")
  /\ IF differs /\ ~f.s /\ ~f.a /\ ~f.p
       THEN \/ Fails({9, 10})
            \/ file' = [file EXCEPT !.ehdr.osabi = f.osabi] /\ Ends(0) /\ UNCHANGED fix
       ELSE /\ Goto("phdrs") /\ UNCHANGED file
            /\ m' = [m EXCEPT !.ehdr.osabi = IF differs THEN f.osabi ELSE @]

ElfxfixPhdrs == At("elfxfix", "phdrs") /\ ReadPhdrs(m.ehdr)

\* The end of the first segment, in the file.
EndOfFirst(ps) == ps[m.first].offset + ps[m.first].memsz

\* -p: is there padding before segment k, which the linker need not add?
Padded(ps, k) ==
  LET p == ps[k]  q == ps[m.first] IN
  /\ m.flags.p /\ m.first # 0
  /\ q.vaddr = q.paddr /\ p.vaddr = p.paddr /\ q.filesz = q.memsz
  /\ p.offset >= EndOfFirst(ps) + 4
  /\ p.offset % 4096 = 0 /\ p.vaddr % 4096 = 0

\* How much of a page the first segment and the data of segment k take.
TakenOfPage(ps, k) == (EndOfFirst(ps) + RoundUp(ps[k].memsz % 4096, 4)) % 4096

\* .bss can only become larger.
CanFix(ps, k) == TakenOfPage(ps, k) \in 1..EndOfFirst(ps)
FixSize(ps, k) == EndOfFirst(ps) - TakenOfPage(ps, k) + 1

\* -r: is segment k the last one, and does .bss end it?
HasBss(ps, k) ==
  /\ m.flags.r /\ m.first # 0 /\ ps[k].memsz > ps[k].filesz
  /\ \A j \in Loads(ps) : j <= k

\* The program headers after .bss has become smaller.
Shrunk(ps, k, size) ==
  IF ps[k].memsz - ps[k].filesz >= size THEN [ps EXCEPT ![k].memsz = @ - size] ELSE ps

ElfxfixPhdr ==
  LET new == AfterFixes
      k == m.k
      fixes == Padded(new.phdrs, k) /\ CanFix(new.phdrs, k)
      made == IF fixes THEN FixSize(new.phdrs, k) ELSE fix
      shrinks == HasBss(new.phdrs, k)
      after == IF shrinks THEN Shrunk(new.phdrs, k, made) ELSE new.phdrs
  IN
  /\ At("elfxfix", "loop")
  /\ \/ LoopEnds \/ LoopSkips
     \/ /\ k <= Len(m.phdrs) /\ IsLoad(m.phdrs[k])
        /\ \/ fixes /\ Fails({24})
           \/ fixes /\ MayFail /\ Ends(25) /\ fix' = 0 /\ UNCHANGED file
           \/ shrinks /\ MayFail /\ Ends(26) /\ fix' = made /\ UNCHANGED file
           \/ shrinks /\ made = 0 /\ Ends(27) /\ UNCHANGED <<fix, file>>
           \/ /\ shrinks => made # 0
              /\ fix' = made
              /\ m' = [new EXCEPT !.phdrs = after, !.changed = @ \/ after # new.phdrs]
              /\ UNCHANGED <<linked, file, plan, phase, exit, settled, retries>>

ElfxfixWritePhdrs == At("elfxfix", "write_phdrs") /\ WritePhdrs
ElfxfixTruncate == At("elfxfix", "truncate") /\ Truncate
ElfxfixWriteEhdr == At("elfxfix", "write_ehdr") /\ WriteEhdr

SstripNext ==
  \/ SstripStart \/ SstripHeader \/ SstripOsabi \/ SstripPhdrs \/ SstripPhdr
  \/ SstripWritePhdrs \/ SstripTruncate \/ SstripWriteEhdr

ElfxfixNext ==
  \/ ElfxfixStart \/ ElfxfixHeader \/ ElfxfixOsabi \/ ElfxfixPhdrs \/ ElfxfixPhdr
  \/ ElfxfixWritePhdrs \/ ElfxfixTruncate \/ ElfxfixWriteEhdr
=============================================================================
