----------------------------- MODULE MCElfTools -----------------------------
(* ElfTools with files and commands to be checked. *)
EXTENDS ElfTools

Ehdr(type, phnum, shoff, shnum, shstrndx) ==
  [magic |-> TRUE, ident |-> TRUE, type |-> type, version |-> 1, osabi |-> 0,
   phoff |-> 52, phentsize |-> 32, phnum |-> phnum, shoff |-> shoff, shentsize |-> 40,
   shnum |-> shnum, shstrndx |-> shstrndx]

File(len, ehdr, phdrs, shdrs, shstr, syms) ==
  [len |-> len, ehdr |-> ehdr, phdrs |-> phdrs, shdrs |-> shdrs, shstr |-> shstr, syms |-> syms]

Load(offset, vaddr, paddr, filesz, memsz, align) ==
  [type |-> 1, offset |-> offset, vaddr |-> vaddr, paddr |-> paddr, filesz |-> filesz,
   memsz |-> memsz, align |-> align]
Other == [type |-> 4, offset |-> 0, vaddr |-> 0, paddr |-> 0, filesz |-> 0, memsz |-> 0, align |-> 4]

Exec(len, phdrs) == File(len, Ehdr(2, Len(phdrs), len - 80, 2, 1), phdrs, <<>>, <<>>, <<>>)

Page == 4096
Execs ==
  { Exec(900, <<Load(84, 20 * Page + 84, 20 * Page + 84, 600, 700, 4)>>),      \* ld -N
    Exec(900, <<Other, Load(84, 20 * Page + 84, 0, 600, 700, 4)>>),
    Exec(900, <<Load(116, 20 * Page + 116, 0, 300, 300, Page), Load(416, 21 * Page + 416, 0, 100, 200, Page)>>),
    Exec(9300, <<Load(0, 20 * Page, 20 * Page, 8000, 8000, Page), Other,
                 Load(2 * Page, 23 * Page, 23 * Page, 900, 1000, Page)>>),        \* padding
    Exec(9300, <<Load(0, 20 * Page, 20 * Page, 8000, 8000, Page),
                 Load(2 * Page, 23 * Page, 23 * Page, 900, 4288, Page)>>),        \* cannot be fixed
    Exec(5300, <<Load(0, 20 * Page, 20 * Page, 300, 300, Page),
                 Load(Page, 21 * Page, 21 * Page, 900, 1000, Page)>>),            \* nor this
    Exec(500, <<Load(84, 20 * Page + 84, 20 * Page + 84, 600, 700, 4)>>),      \* too short
    Exec(900, <<Load(84, 20 * Page + 84, 20 * Page + 84, 0, 700, Page)>>),
    [Exec(900, <<Other>>) EXCEPT !.ehdr.shentsize = 0], Exec(81, <<Other>>), Exec(900, <<>>),
    [Exec(900, <<Other>>) EXCEPT !.ehdr.phoff = 0], [Exec(900, <<Other>>) EXCEPT !.ehdr.phentsize = 56],
    [Exec(900, <<Other>>) EXCEPT !.ehdr.phnum = 129] }

Sh(name, tail, type, flags, offset, size, link, entsize) ==
  [name |-> name, tail |-> tail, type |-> type, flags |-> flags, offset |-> offset, size |-> size,
   link |-> link, entsize |-> entsize]
Sym(pre, rest, bind, type, shndx, value) ==
  [name |-> [pre |-> pre, rest |-> rest], bind |-> bind, type |-> type, shndx |-> shndx, value |-> value]

ShStrings == <<"", ".shstrtab", ".strtab", ".symtab", ".rodata.str1.1", ".note.GNU-stack", ".rel.text">>
ObjShdrs(nsyms) ==
  << Sh(1, "", 0, {}, 0, 0, 0, 0), Sh(2, "", 3, {}, 52, 60, 0, 0), Sh(3, "", 3, {}, 112, 40, 0, 0),
     Sh(4, "", SHT_SYMTAB, {}, 152, 16 * nsyms, 2, 16), Sh(5, "", 1, {"ALLOC"}, 300, 4, 0, 0),
     Sh(6, "", 1, {}, 300, 0, 0, 0), Sh(7, ".text", 1, {"ALLOC", "EXEC"}, 300, 8, 0, 0) >>
Obj(syms) == File(600, Ehdr(1, 0, 304, 7, 1), <<>>, ObjShdrs(Len(syms)), ShStrings, syms)
Null == [NoSymbol EXCEPT !.type = "NOTYPE", !.shndx = 0]
Weak(i) == Sym("WEAK..", "f", "LOCAL", "NOTYPE", 4, i)
Undef(pre, n) == Sym(pre, n, "GLOBAL", "NOTYPE", 0, 0)
Good == Obj(<<Null, Weak(8), Sym("", "", "LOCAL", "SECTION", 6, 0), Undef("", "f"),
              Undef("EXTERN.WEAK..", "g"), Sym("", "main", "GLOBAL", "FUNC", 6, 0)>>)

BadShdr(i, sh) == [Good EXCEPT !.shdrs[i] = sh]
Objs ==
  { Good, Obj(<<Null, Undef("", "f"), Weak(4)>>), Obj(<<Null, Weak(4)>>),
    Obj(<<Null, Weak(4), Weak(8), Undef("", "f")>>),
    Obj(<<Null, Weak(4), Undef("", "f"), Undef("", "f")>>), Obj(<<Null, Undef("bad", "f")>>),
    [Good EXCEPT !.ehdr.shoff = 0], [Good EXCEPT !.ehdr.shentsize = 0], [Good EXCEPT !.ehdr.shnum = 0],
    [Good EXCEPT !.ehdr.shstrndx = 0], [Good EXCEPT !.ehdr.shstrndx = 7], [Good EXCEPT !.len = 400],
    [Good EXCEPT !.len = 100], BadShdr(4, Sh(4, "", 0, {}, 152, 96, 2, 16)),
    BadShdr(5, Sh(4, "", SHT_SYMTAB, {}, 152, 96, 2, 16)), BadShdr(4, Sh(4, "", SHT_SYMTAB, {}, 152, 96, 0, 16)),
    BadShdr(4, Sh(4, "", SHT_SYMTAB, {}, 152, 96, 9, 16)), BadShdr(4, Sh(4, "", SHT_SYMTAB, {}, 152, 96, 2, 8)),
    BadShdr(4, Sh(4, "", SHT_SYMTAB, {}, 152, 98, 2, 16)), BadShdr(4, Sh(4, "", SHT_SYMTAB, {}, 552, 96, 2, 16)),
    BadShdr(3, Sh(3, "", 3, {}, 0, 40, 0, 0)), BadShdr(3, Sh(3, "", 3, {}, 112, 0, 0, 0)),
    BadShdr(3, Sh(3, "", 3, {}, 590, 40, 0, 0)), BadShdr(2, Sh(2, "", 3, {}, 590, 40, 0, 0)),
    BadShdr(2, Sh(2, "", 3, {}, 52, 0, 0, 0)), BadShdr(6, Sh(7, ".note.GNU-stack", 1, {}, 300, 0, 0, 0)) }

MCFiles ==
  Execs \cup Objs \cup
  { [Exec(900, <<Other>>) EXCEPT !.ehdr.magic = FALSE], [Exec(900, <<Other>>) EXCEPT !.ehdr.ident = FALSE],
    [Exec(900, <<Other>>) EXCEPT !.ehdr.type = 512], [Exec(900, <<Other>>) EXCEPT !.ehdr.type = 256],
    [Exec(900, <<Other>>) EXCEPT !.ehdr.version = 2], [Exec(900, <<Other>>) EXCEPT !.len = 40] }

Cmd(tool, args) == [tool |-> tool, args |-> args]
Twice(c) == <<c, c>>
MCPlans ==
  { Twice(Cmd("sstrip", <<"prog">>)), Twice(Cmd("sstrip", <<"-l", "-nh", "-na", "-x", "a", "prog">>)),
    <<Cmd("sstrip", <<"-na", "-ns", "-l", "--", "prog">>), Cmd("sstrip", <<"-na", "-ns", "prog">>)>>,
    Twice(Cmd("sstrip", <<"-ns", "-v", "prog">>)), <<Cmd("sstrip", <<"-q", "prog">>)>>,
    <<Cmd("sstrip", <<"prog", "prog">>)>>, <<Cmd("elfxfix", <<"-p", "prog">>)>>,
    Twice(Cmd("elfxfix", <<"-ls", "-lf", "prog">>)), Twice(Cmd("elfxfix", <<"-li", "-v", "-s", "prog">>)),
    <<Cmd("elfxfix", <<"-ll", "-a", "-s", "-p", "fix.o", "prog">>), Cmd("relink", <<>>),
      Cmd("elfxfix", <<"-ll", "-a", "-s", "-r", "fix.o", "prog">>)>>,
    <<Cmd("elfxfix", <<"-r", "fix.o", "prog">>)>>,
    <<Cmd("elfofix", <<"-v", "-r", "-w", "prog">>), Cmd("elfnostack", <<"prog">>), Cmd("elfnostack", <<"prog">>)>>,
    Twice(Cmd("elfofix", <<"-w", "prog">>)), Twice(Cmd("elfofix", <<"-r", "prog">>)), <<Cmd("elfnostack", <<>>)>> }
=============================================================================
