----------------------------- MODULE MCLibMaker -----------------------------
(* LibMaker with files and command lines to be checked. *)
EXTENDS LibMaker

Object(path, dir, base, size, elf, symtab, strtab, syms) ==
  [path |-> path, dir |-> dir, base |-> base, size |-> size, elf |-> elf, symtab |-> symtab,
   strtab |-> strtab, syms |-> syms]
Sym(name, len, bind, type, shndx) ==
  [name |-> [text |-> name, len |-> len], bind |-> bind, type |-> type, shndx |-> shndx]
Null == Sym("", 0, 0, 0, 0)

MCObjects ==
  << Object("a.o", 0, 3, 201, TRUE, TRUE, TRUE,
            <<Null, Sym("f", 1, 1, 2, 1), Sym("ext", 3, 1, 0, 0), Sym("loc", 3, 0, 2, 1)>>),
     Object("malloc_bucketed.o", 0, 17, 302, TRUE, TRUE, TRUE,
            <<Null, Sym("malloc", 6, 1, 2, 1), Sym("free", 4, 2, 0, 1), Sym("s", 1, 1, 3, 1)>>),
     Object("sys/c.o", 4, 3, 101, TRUE, TRUE, TRUE, <<Null, Sym("c", 1, 1, 1, 2)>>),
     Object("README", 0, 6, 70, FALSE, FALSE, FALSE, <<>>),
     Object("nosyms.o", 0, 8, 90, TRUE, FALSE, FALSE, <<>>),
     Object("stdio_medium_fopen.o", 0, 20, 403, TRUE, TRUE, TRUE, <<Null>>),
     Object("empty.o", 0, 7, 0, FALSE, FALSE, FALSE, <<>>),
     Object("objects/of/libc/d.o", 16, 3, 50, TRUE, TRUE, TRUE, <<Null, Sym("d", 1, 1, 1, 2)>>) >>

Arg(text, file, dash, dot, conflict) ==
  [text |-> text, file |-> file, dash |-> dash, dot |-> dot, conflict |-> conflict]
Dash(text, conflict) == Arg(text, 0, TRUE, FALSE, conflict)
Lib == Arg("lib.a", 9, FALSE, TRUE, FALSE)
File(f) == Arg("file", f, FALSE, TRUE, FALSE)
Rcs == Arg("rcs", 9, FALSE, FALSE, FALSE)

MCArgs ==
  {<<Rcs, Lib>> \o [i \in DOMAIN fs |-> File(fs[i])] :
     fs \in UNION {[1..n -> DOMAIN MCObjects] : n \in 0..3}}
  \cup { <<Lib, File(1), Dash("-v", FALSE), File(2)>>, <<Rcs, Lib, Dash("-d", TRUE), File(1)>>,
         <<Dash("-h", TRUE)>>, <<Rcs, Lib, Arg("-x.y", 0, TRUE, TRUE, FALSE), File(1)>>,
         <<Arg("t", 9, FALSE, FALSE, TRUE), Lib, File(1)>> }
=============================================================================
