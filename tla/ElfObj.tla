------------------------------- MODULE ElfObj -------------------------------
(***************************************************************************)
(* tools/elfofix and tools/elfnostack: the first adds missing flags to the *)
(* sections .rodata.str1.1 and makes weak symbols from symbols of special  *)
(* names, since NASM has no weak symbols; the second renames the section   *)
(* .note.GNU-stack, so that the linker takes no notice of it.  Both edit   *)
(* an object file in place.                                                *)
(***************************************************************************)
EXTENDS ElfFile

SHT_SYMTAB == 2
SHN_UNDEF == 0
SHN_ABS == 65521
StringFlags == {"ALLOC", "MERGE", "STRINGS"}

SectionName(f, sh) == IF sh.tail = NoText THEN f.shstr[sh.name] ELSE sh.tail

\* The file has less than the bytes of the section.
Short(sh) == sh.offset + sh.size > file.len

ShdrChecks(e) ==
  << <<e.shoff < EhdrSize, 9>>, <<e.shentsize # ShdrSize, 10>>, <<e.shnum = 0, 11>> >>

-----------------------------------------------------------------------------
(* elfofix. *)

ElfofixOptions == ("-v" :> <<>>) @@ ("-w" :> [w |-> TRUE]) @@ ("-r" :> [r |-> TRUE])

ElfofixFlags(args, w) == Parsed(args, [w |-> w, r |-> FALSE], ElfofixOptions, {})

\* flag_w is uninitialized.
ElfofixStart ==
  /\ At("elfofix", "start")
  /\ \E w \in {byte # 0 : byte \in Garbage} : Starts(ElfofixFlags(cmd.args, w))

ElfofixHeader == At("elfofix", "header") /\ ReadHeader(ET_REL, "shdrs")

\* The section headers are read.
ElfofixShdrs ==
  LET e == m.ehdr IN
  /\ At("elfofix", "shdrs")
  /\ Checked(
       FirstFailure(ShdrChecks(e) \o <<<<e.shstrndx = 0, 12>>, <<e.shstrndx >= e.shnum, 13>>>>),
       IF ~m.flags.w /\ ~m.flags.r THEN Stops(0)
       ELSE \/ Fails({14, 15, 16})
            \/ file.len < e.shoff + ShdrSize * e.shnum /\ Stops(16)
            \/ /\ file.len >= e.shoff + ShdrSize * e.shnum
               /\ Goto(IF m.flags.r THEN "flags" ELSE "symbols")
               /\ m' = [flags |-> m.flags, ehdr |-> e, shdrs |-> file.shdrs] /\ UNCHANGED file)

\* -r: the section headers, with the flags that NASM leaves out.
WithFlags(shdrs) ==
  [i \in DOMAIN shdrs |->
     IF SectionName(file, shdrs[i]) = ".rodata.str1.1"
       THEN [shdrs[i] EXCEPT !.flags = @ \cup StringFlags] ELSE shdrs[i]]

ElfofixStrings ==
  LET shdrs == WithFlags(m.shdrs)
      next == /\ m' = [m EXCEPT !.shdrs = shdrs]
              /\ IF m.flags.w THEN Goto("symbols")
                 ELSE phase' = "done" /\ UNCHANGED <<linked, fix, plan, exit, settled, retries>>
  IN
  /\ At("elfofix", "flags")
  /\ \/ Fails({50, 51, 52})
     \/ Short(m.shdrs[m.ehdr.shstrndx + 1]) /\ Stops(52)
     \/ /\ ~Short(m.shdrs[m.ehdr.shstrndx + 1])
        /\ \/ shdrs = m.shdrs /\ next /\ UNCHANGED file
           \/ shdrs # m.shdrs /\ Fails({53})
           \/ /\ shdrs # m.shdrs /\ MayFail /\ Ends(54) /\ UNCHANGED fix
              /\ \E k \in 0..(Len(shdrs) - 1) :
                   file' = [file EXCEPT !.shdrs =
                              [i \in DOMAIN @ |-> IF i <= k THEN shdrs[i] ELSE @[i]]]
           \/ shdrs # m.shdrs /\ next /\ file' = [file EXCEPT !.shdrs = shdrs]

ElfofixDone == At("elfofix", "done") /\ Stops(0)

\* -w: the checks of the symbol table and its string table.
SymtabChecks(symtabs, sym, str) ==
  LET one == Cardinality(symtabs) = 1  linked_ == one /\ sym.link \in 1..(m.ehdr.shnum - 1) IN
  << <<Cardinality(symtabs) > 1, 17>>, <<symtabs = {}, 18>>, <<one /\ sym.link = 0, 19>>,
     <<one /\ ~linked_, 20>>, <<one /\ sym.entsize # SymSize, 21>>,
     <<one /\ sym.size % SymSize # 0, 22>>, <<linked_ /\ str.offset < EhdrSize, 23>>,
     <<linked_ /\ str.size = 0, 24>>, <<linked_ /\ Short(str), 27>>, <<one /\ Short(sym), 30>> >>

ElfofixSymbols ==
  LET symtabs == {i \in DOMAIN m.shdrs : m.shdrs[i].type = SHT_SYMTAB}
      sym == m.shdrs[CHOOSE i \in symtabs : TRUE]
  IN
  /\ At("elfofix", "symbols")
  /\ \/ Fails({25, 26, 27, 28, 29, 30})
     \/ Checked(FirstFailure(SymtabChecks(symtabs, sym, m.shdrs[sym.link + 1])),
                Goto("weak") /\ UNCHANGED file
                /\ m' = [flags |-> m.flags, syms |-> file.syms, i |-> 1])

-----------------------------------------------------------------------------
(* The loop over the symbols. *)

ExternWeak(s) ==
  s.bind \in {"GLOBAL", "WEAK"} /\ s.shndx = SHN_UNDEF /\ s.name.pre = "EXTERN.WEAK.."
LocalWeak(s) == s.bind = "LOCAL" /\ s.shndx # SHN_UNDEF /\ s.name.pre = "WEAK.."

\* The other symbols that have the name of syms[i] without its prefix.
Partners(syms, i) ==
  {j \in DOMAIN syms \ {i} :
     /\ syms[j].name = [pre |-> NoText, rest |-> syms[i].name.rest]
     /\ HasName(syms[j]) /\ ~(j = 1 /\ Nameless(syms[1]))}

\* An undefined symbol without a strong binding elsewhere.
IsExtern(s) == s.bind = "GLOBAL" /\ s.shndx = SHN_UNDEF /\ s.value = 0

PartnerCode(syms, i) ==
  LET P == Partners(syms, i)  first == CHOOSE j \in P : \A k \in P : j <= k IN
  CASE P = {}                  -> 34
    [] ~IsExtern(syms[first])  -> 33
    [] Cardinality(P) > 1      -> 32
    [] OTHER                   -> 0

NoSymbol == [name |-> [pre |-> NoText, rest |-> NoText], bind |-> "LOCAL", type |-> "SECTION",
             shndx |-> SHN_ABS, value |-> 0]

\* Mutant: the partner stays as strong as other definitions.
WeakenedStrong(syms, i) ==
  LET j == CHOOSE k \in Partners(syms, i) : TRUE IN
  [syms EXCEPT ![j] = [@ EXCEPT !.shndx = syms[i].shndx, !.value = syms[i].value], ![i] = NoSymbol]

\* The only partner of syms[i] becomes a weak symbol with the value of
\* syms[i], which becomes a symbol that nobody uses.
Weakened(syms, i) ==
  LET j == CHOOSE k \in Partners(syms, i) : TRUE IN
  [syms EXCEPT ![j] = [@ EXCEPT !.bind = "WEAK", !.shndx = syms[i].shndx, !.value = syms[i].value],
               ![i] = NoSymbol]

\* The symbol that the loop does not look at.
Skipped(syms, i) == i = 1 /\ Nameless(syms[1])

SymbolCode(syms, i) ==
  CASE Skipped(syms, i)                            -> 0
    [] syms[i].name.pre = "bad"                    -> 31
    [] HasName(syms[i]) /\ LocalWeak(syms[i])      -> PartnerCode(syms, i)
    [] OTHER                                       -> 0

AfterSymbol(syms, i) ==
  IF ~HasName(syms[i]) \/ Skipped(syms, i) THEN syms
  ELSE IF ExternWeak(syms[i])
         THEN [syms EXCEPT ![i] = [@ EXCEPT !.name.pre = NoText, !.bind = "WEAK"]]
  ELSE IF LocalWeak(syms[i]) THEN Weakened(syms, i) ELSE syms

ElfofixWeak ==
  /\ At("elfofix", "weak")
  /\ IF m.i > Len(m.syms) THEN Goto("write") /\ UNCHANGED <<m, file>>
     ELSE Checked(SymbolCode(m.syms, m.i),
            /\ m' = [m EXCEPT !.syms = AfterSymbol(@, m.i), !.i = @ + 1]
            /\ UNCHANGED <<linked, file, fix, plan, phase, exit, settled, retries>>)

\* The symbols are written if they have changed, perhaps only some of them.
ElfofixWrite ==
  /\ At("elfofix", "write")
  /\ IF m.syms = file.syms THEN Stops(0)
     ELSE \/ Fails({35})
          \/ /\ MayFail /\ Ends(36) /\ UNCHANGED fix
             /\ \E k \in 0..(Len(m.syms) - 1) :
                  file' = [file EXCEPT !.syms =
                             [i \in DOMAIN @ |-> IF i <= k THEN m.syms[i] ELSE @[i]]]
          \/ file' = [file EXCEPT !.syms = m.syms] /\ Ends(0) /\ UNCHANGED fix

ElfofixNext ==
  \/ ElfofixStart \/ ElfofixHeader \/ ElfofixShdrs \/ ElfofixStrings \/ ElfofixDone
  \/ ElfofixSymbols \/ ElfofixWeak \/ ElfofixWrite

-----------------------------------------------------------------------------
(* elfnostack. *)

ElfnostackStart ==
  /\ At("elfnostack", "start")
  /\ IF Len(cmd.args) # 1 THEN Stops(1)
     ELSE Goto("header") /\ m' = [flags |-> <<>>] /\ UNCHANGED file

ElfnostackHeader == At("elfnostack", "header") /\ ReadHeader(ET_REL, "shstrtab")

\* The header of .shstrtab is read, and its strings.
ElfnostackShstrtab ==
  LET e == m.ehdr  sh == file.shdrs[e.shstrndx + 1]  found == e.shstrndx < e.shnum
      whole == found /\ file.len >= e.shoff + ShdrSize * (e.shstrndx + 1) IN
  /\ At("elfnostack", "shstrtab")
  /\ \/ Fails({13, 14, 17, 18, 19})
     \/ Checked(FirstFailure(ShdrChecks(e) \o
                  << <<~found, 12>>, <<found /\ ~whole, 14>>, <<whole /\ sh.offset < EhdrSize, 15>>,
                     <<whole /\ sh.size = 0, 16>>, <<whole /\ Short(sh), 19>> >>),
                Goto("rename") /\ m' = [shstr |-> file.shstr] /\ UNCHANGED file)

\* The place of the string, 0 if none of the strings is it.
NoteString == SelectInSeq(m.shstr, LAMBDA s : s = NoteStack)

ElfnostackRename ==
  /\ At("elfnostack", "rename")
  /\ IF NoteString = 0 THEN Stops(0)
     ELSE \/ Fails({20, 21})
          \/ /\ file' = [file EXCEPT !.shstr[NoteString] = HiddenStack]
             /\ Ends(0) /\ UNCHANGED fix

ElfnostackNext ==
  ElfnostackStart \/ ElfnostackHeader \/ ElfnostackShstrtab \/ ElfnostackRename
=============================================================================
