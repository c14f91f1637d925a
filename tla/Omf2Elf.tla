------------------------------ MODULE Omf2Elf -------------------------------
(***************************************************************************)
(* tools/omf2elf: the converter of an i386 OMF object file to an ELF       *)
(* relocatable object file.  It reads the OMF records twice: pass 1 counts *)
(* symbols and relocations and sizes the sections, then every section gets *)
(* its place in the ELF file, and pass 2 collects the symbols and the      *)
(* relocations and writes the data.                                        *)
(*                                                                         *)
(* A record is a TLA+ record.  Data is a sequence of words of four bytes   *)
(* each, at offsets that are multiples of 4.  A record with several EXTDEF *)
(* names or FIXUPP subrecords is modelled as several records, since no     *)
(* variable is carried from one to the next; the names of a PUBDEF are     *)
(* kept together, since `section' is.  A name is a number of leading       *)
(* underscores and the rest.                                               *)
(***************************************************************************)
EXTENDS Checks, Functions

CONSTANTS
  Flags,      \* the command lines: [mode |-> -os0, -os1, -oss, strip |-> -h]
  Preambles,  \* the records that OMF files start with: LNAMES, SEGDEF, GRPDEF
  Body,       \* the records that may follow
  MaxBody,    \* bound: how many of them may
  MayFail     \* may a read or a write fail?

VARIABLES
  flags,     \* the command line
  file,      \* the OMF file, as far as it has been read
  pos,       \* the number of records read in this pass
  pass,      \* 1 or 2
  phase,     \* what is done next
  mod,       \* what pass 1 has learned of the module
  sections,  \* the Section structs
  relocs,    \* and their relocations, collected in pass 2
  counts,    \* extsymbol_count, pubsymbol_count, rel_count, allnames_size
  exts, pubs, \* extsymbols and pubsymbols, collected in pass 2
  led,       \* the unflushed_ledata variables
  section,   \* the variable section, as an index
  orig,      \* orig_sdata_size and orig_yib_size
  plan,      \* e_shoff, shdr_count, the section symbols, the symbol table
  out,       \* the ELF file
  exit       \* the exit code

vars == <<flags, file, pos, pass, phase, mod, sections, relocs, counts, exts,
          pubs, led, section, orig, plan, out, exit>>

tables == <<sections, relocs, counts, exts, pubs, orig, plan>>

-----------------------------------------------------------------------------
SECTION_TEXT == 0
SECTION_SDATA == 1
SECTION_RODATA == 2
SECTION_BSS == 4
SEG_YIB == 5
Sections == 0..7
SectionSeq == <<0, 1, 2, 3, 4, 5, 6, 7>>

None == -1

\* What `section' is after a search that finds nothing.
PastEnd == 8

section_infos ==
  [u \in Sections |->
     << <<"_TEXT", "CODE">>, <<"CONST", "DATA">>, <<"CONST2", "DATA">>, <<"_DATA", "DATA">>,
        <<"_BSS", "BSS">>, <<"YIB", "DATA">>, <<"YI", "DATA">>, <<"YIE", "DATA">> >>[u + 1]]

\* A Section struct as it is when the program starts.
NoSection == [seg_idx |-> 0, size |-> 0, align |-> 0, rel_count |-> 0, sym_count |-> 0,
              is_rel_target |-> FALSE, shndx |-> 0, symndx |-> 0, file_ofs |-> 0,
              rel_file_ofs |-> 0]

\* Sizes of an ELF file's parts; .shstrtab takes at most this much.
ShstrtabSize == 128
EhdrSize == 52
ShdrSize == 40
SymSize == 16
RelSize == 8

NoData == [ofs |-> None, data |-> <<>>, base |-> 0]

Init ==
  /\ flags \in Flags
  /\ file \in Preambles
  /\ pos = 0 /\ pass = 1 /\ phase = "records"
  /\ mod = [mode |-> flags.mode, fpc |-> FALSE, lnames |-> <<>>, segs |-> 0,
            groups |-> 0, dgroup |-> 0, flat |-> 0, preamble |-> Len(file)]
  /\ sections = [u \in Sections |-> NoSection]
  /\ relocs = [u \in Sections |-> <<>>]
  /\ counts = [ext |-> 0, pub |-> 0, rel |-> 0, names |-> 1]
  /\ exts = <<>> /\ pubs = <<>>
  /\ led = NoData /\ section = 0
  /\ orig = [sdata |-> None, yib |-> None]
  /\ plan = [shoff |-> 0, shdr_count |-> 0, sym_count |-> 0, local_sym_count |-> 0, syms |-> <<>>]
  /\ out = [ehdr |-> <<>>, words |-> <<>>, shdrs |-> <<>>, rels |-> <<>>, syms |-> <<>>,
            strtab |-> 0]
  /\ exit = Running

-----------------------------------------------------------------------------
(* Helpers. *)

Exit(code) == exit' = code

\* The names of OpenWatcom's run-time helpers, which keep both underscores.
is_openwatcom_libc_symbol(n) ==
  /\ n.under = 2
  /\ n.rest \in {"CHP", "STK", "I8D", "U8D", "I8RS", "U8RS", "I8LS", "U8LS", "U8M", "I8M",
                 "FSU87", "FDU87", "U8FD7", "U8FS7"}

\* The name a symbol gets: -h strips one leading underscore.
SymbolName(n) ==
  IF flags.strip /\ n.under > 0 /\ ~is_openwatcom_libc_symbol(n)
    THEN [n EXCEPT !.under = @ - 1] ELSE n

\* What a name takes in allnames, with its NUL.
NameSize(n) == n.under + Len(n.rest) + 1

\* The sections whose segment has index seg; the loops take the first.
OfSegment(seg) == {u \in Sections : sections[u].seg_idx = seg}
FirstOf(S) == CHOOSE u \in S : \A v \in S : u <= v

\* Does the section get a section header?
Nonempty(s) == s.size # 0 \/ s.rel_count # 0 \/ s.sym_count # 0 \/ s.is_rel_target

\* Mutant: CONST2 data stays where it was, under CONST's.
RedirectNoShift(u, ofs) ==
  CASE orig.sdata # None /\ u = SECTION_SDATA -> <<SECTION_RODATA, ofs>>
    [] orig.yib # None /\ u = SEG_YIB         -> <<SECTION_SDATA, ofs>>
    [] OTHER                                  -> <<u, ofs>>

\* Where pass 2 puts offset ofs of section u: CONST goes to the beginning of
\* CONST2, which moves up, and YIB takes the place of CONST.
Redirect(u, ofs) ==
  CASE orig.sdata # None /\ u = SECTION_SDATA  -> <<SECTION_RODATA, ofs>>
    [] orig.sdata # None /\ u = SECTION_RODATA -> <<SECTION_RODATA, ofs + orig.sdata>>
    [] orig.yib # None /\ u = SEG_YIB          -> <<SECTION_SDATA, ofs>>
    [] OTHER                                   -> <<u, ofs>>

\* What the names kept so far take in allnames.
NamesTaken ==
  1 + FoldSeq(LAMBDA x, y : NameSize(x.name) + y, 0, exts)
    + FoldSeq(LAMBDA x, y : NameSize(x.name) + y, 0, pubs)

\* The file after the unflushed words have been written.
Flushed ==
  LET start == led.base + led.ofs IN
  [out EXCEPT !.words =
     [o \in {start + 4 * (i - 1) : i \in DOMAIN led.data} |-> led.data[(o - start) \div 4 + 1]]
       @@ @]

\* flush_ledata: nothing if there is no data.  The offset is set to 0 then.
flush_ledata ==
  \/ /\ led.data = <<>>
     /\ UNCHANGED <<out, exit, led>>
  \/ /\ led.data # <<>>
     /\ out' = Flushed
     /\ led' = [led EXCEPT !.data = <<>>, !.ofs = 0]
     /\ UNCHANGED exit
  \/ /\ led.data # <<>> /\ MayFail
     /\ Exit(39) /\ UNCHANGED <<out, led>>

\* The next record of the file; in pass 1, any that may follow.
Candidates ==
  IF pos < Len(file) THEN {file[pos + 1]}
  ELSE IF Len(file) < mod.preamble + MaxBody THEN Body
  ELSE {[type |-> "MODEND"]}

\* The record is read: type, size, content and checksum are good.
Takes(rec, type) ==
  /\ exit = Running /\ phase = "records"
  /\ rec.type = type
  /\ file' = IF pos < Len(file) THEN file ELSE Append(file, rec)
  /\ UNCHANGED flags

Read(rec, type) == Takes(rec, type) /\ pos' = pos + 1

\* A record of a type that pass 2 skips, or that is always ignored.
Skip(rec, type) ==
  /\ Read(rec, type)
  /\ UNCHANGED <<pass, phase, mod, tables, led, section, out, exit>>

-----------------------------------------------------------------------------
(* The records. *)

\* The file cannot be read, is too short, or has a record with a bad size or
\* checksum or with a field that does not fit into it: 12 stands for all of
\* their exit codes, 4 to 13, 16, 17, 20, 21, 22, 35, 41, 44, 46, 48, 49, 55,
\* 58, 60 and 63.
Damaged ==
  /\ MayFail
  /\ exit = Running /\ phase = "records" /\ pos < Len(file)
  /\ Exit(12)
  /\ UNCHANGED <<flags, file, pos, pass, phase, mod, tables, led, section, out>>

Lnames(rec) ==
  /\ Read(rec, "LNAMES")
  /\ pass = 1
  /\ IF Len(mod.lnames) + Len(rec.names) > 32
       THEN Exit(18) /\ UNCHANGED mod
       ELSE mod' = [mod EXCEPT !.lnames = @ \o rec.names] /\ UNCHANGED exit
  /\ UNCHANGED <<pass, phase, tables, led, section, out>>

\* The name with index i in lnames.
Lname(i) == mod.lnames[i]
Named(i) == i \in DOMAIN mod.lnames

\* Segments with debug information, which are ignored.
IsDebug(class) == class \in {"DWARF", "DEB"}

SegdefChecks(rec) ==
  << <<mod.segs >= 127, 19>>, <<rec.align \notin {1, 2, 4, 16}, 23>>,
     <<rec.combine \notin {0, 2}, 24>>, <<~Named(rec.seg_name), 26>>,
     <<~Named(rec.seg_class), 27>>, <<~Named(rec.seg_overlay), 28>> >>

\* The section of a segment with a good name.
SectionOf(rec) == {u \in Sections : section_infos[u][1] = Lname(rec.seg_name)}

NormalChecks(rec, u) ==
  << <<~rec.use32, 30>>, <<rec.combine # 2, 31>>,
     <<section_infos[u][2] # Lname(rec.seg_class), 32>>,
     <<Lname(rec.seg_overlay) # "", 33>>, <<sections[u].seg_idx # 0, 34>> >>

Segdef(rec) ==
  /\ Read(rec, "SEGDEF")
  /\ pass = 1
  /\ mod' = [mod EXCEPT !.segs = @ + 1]
  /\ LET bad == FirstFailure(SegdefChecks(rec)) IN
     IF bad # 0 THEN Exit(bad) /\ UNCHANGED <<sections, section>>
     ELSE IF SectionOf(rec) = {}
       THEN /\ IF IsDebug(Lname(rec.seg_class)) THEN UNCHANGED exit ELSE Exit(29)
            /\ UNCHANGED <<sections, section>>
       ELSE LET u == FirstOf(SectionOf(rec))
                wrong == FirstFailure(NormalChecks(rec, u)) IN
            IF wrong # 0 THEN Exit(wrong) /\ UNCHANGED <<sections, section>>
            ELSE /\ sections' = [sections EXCEPT ![u].seg_idx = mod.segs + 1,
                                                 ![u].align = rec.align, ![u].size = rec.size]
                 /\ section' = u
                 /\ UNCHANGED exit
  /\ UNCHANGED <<pass, phase, relocs, counts, exts, pubs, orig, plan, led, out>>

Grpdef(rec) ==
  /\ Read(rec, "GRPDEF")
  /\ pass = 1
  /\ LET g == mod.groups + 1
         name == IF Named(rec.grp_name) THEN Lname(rec.grp_name) ELSE "" IN
     CASE g > 127 -> Exit(40) /\ UNCHANGED mod
       [] g <= 127 /\ ~Named(rec.grp_name) -> Exit(42) /\ UNCHANGED mod
       [] g <= 127 /\ name = "DGROUP" /\ mod.dgroup = 0 ->
            mod' = [mod EXCEPT !.groups = g, !.dgroup = g] /\ UNCHANGED exit
       [] g <= 127 /\ name = "FLAT" /\ mod.flat = 0 ->
            mod' = [mod EXCEPT !.groups = g, !.flat = g] /\ UNCHANGED exit
       [] OTHER -> Exit(43) /\ UNCHANGED mod
  /\ UNCHANGED <<pass, phase, tables, led, section, out>>

\* The comment that tells how floating point is compiled settles -oss, once.
Coment(rec) ==
  /\ Read(rec, "COMENT")
  /\ pass = 1
  /\ mod' = IF mod.mode = 2
              THEN [mod EXCEPT !.fpc = rec.floating = "c",
                               !.mode = IF rec.floating = "c" THEN 3 ELSE 0]
              ELSE mod
  /\ UNCHANGED <<pass, phase, tables, led, section, out, exit>>

\* The pass-1 records in pass 2, and line numbers.
Ignored(rec) ==
  \/ Skip(rec, "LINNUM")
  \/ pass = 2 /\ \E type \in {"LNAMES", "SEGDEF", "GRPDEF", "COMENT"} : Skip(rec, type)

\* 14: a record type that is not known.
Unsupported(rec) ==
  /\ Read(rec, "OTHER")
  /\ Exit(14)
  /\ UNCHANGED <<pass, phase, mod, tables, led, section, out>>

\* LEDATA and LIDATA.  Pass 2 first writes the data of the LEDATA before.
Data(rec) ==
  \E type \in {"LEDATA", "LIDATA"} :
    /\ Read(rec, type)
    /\ UNCHANGED <<pass, phase, mod, tables>>
    /\ LET before == IF pass = 2 /\ led.data # <<>> THEN [led EXCEPT !.data = <<>>, !.ofs = 0]
                     ELSE led
           written == IF pass = 2 /\ led.data # <<>> THEN Flushed ELSE out
           found == OfSegment(rec.seg)
           u     == FirstOf(found)
           place == IF pass = 2 THEN Redirect(u, rec.ofs) ELSE <<u, rec.ofs>>
           s     == sections[place[1]]
           \* What the record adds to the file: the length of a LIDATA is
           \* counted for blocks of two bytes and more only.
           size  == IF type = "LEDATA" THEN 4 * Len(rec.data)
                    ELSE IF rec.block = 1 THEN 0 ELSE rec.repeat * rec.block
           given == IF type = "LEDATA" THEN size ELSE rec.repeat * rec.block
           bad == FirstFailure(
                    << <<pass = 2 /\ s.shndx = 0, 79>>,
                       <<place[1] = SECTION_BSS /\ given # 0, 37>>,
                       <<type = "LIDATA" /\ given > 65536, 77>>,
                       <<type = "LIDATA" /\ size > 0 /\ pass = 1, 38>>,
                       <<place[2] + size > s.size, 15>> >>) IN
       \/ /\ pass = 2 /\ led.data # <<>> /\ MayFail
          /\ Exit(39) /\ UNCHANGED <<out, led, section>>
       \/ /\ out' = written
          /\ CASE rec.seg = 0 \/ rec.seg > mod.segs ->
                    Exit(36) /\ led' = before /\ UNCHANGED section
               [] rec.seg \in 1..mod.segs /\ found = {} ->
                    led' = before /\ section' = PastEnd /\ UNCHANGED exit
               [] OTHER ->
                    /\ IF bad # 0 THEN Exit(bad) ELSE UNCHANGED exit
                    /\ section' = place[1]
                    /\ led' = [ofs |-> place[2], base |-> s.file_ofs,
                               data |-> IF type = "LEDATA" THEN rec.data ELSE <<>>]

\* A name of EXTDEF or LEXTDEF: counted in pass 1, kept in pass 2.
Extdef(rec) ==
  /\ Read(rec, "EXTDEF")
  /\ LET room == counts.names - NamesTaken IN
     CASE pass = 1 ->
            /\ counts' = [counts EXCEPT !.ext = @ + 1, !.names = @ + NameSize(rec.name)]
            /\ UNCHANGED <<exts, exit>>
       [] pass = 2 /\ (NameSize(rec.name) > room \/ Len(exts) = counts.ext) ->
            Exit(45) /\ UNCHANGED <<counts, exts>>
       [] OTHER ->
            /\ exts' = Append(exts, [name |-> rec.name, global |-> rec.global, index |-> None])
            /\ UNCHANGED <<counts, exit>>
  /\ UNCHANGED <<pass, phase, mod, sections, relocs, pubs, orig, plan, led, section, out>>

\* What is wrong with a PUBDEF or LPUBDEF before its names are read.
PubdefChecks(rec, found) ==
  LET u == FirstOf(found) IN
  << <<rec.grp > mod.groups \/ rec.grp \notin {mod.flat, mod.dgroup}, 50>>,
     <<rec.seg > mod.segs, 51>>, <<found = {}, 52>>,
     <<found # {} /\ (u = SEG_YIB \/ (u = SECTION_SDATA /\ (~mod.fpc \/ rec.global))), 52>>,
     <<found # {} /\ (rec.grp = mod.flat) # (u = SECTION_TEXT), 54>> >>

\* The symbols of a PUBDEF in section u.  `u' itself is changed by the first of
\* the names, so that the others go where that one has gone to.
Publics(rec, u) ==
  [i \in DOMAIN rec.syms |->
     LET from  == IF i = 1 THEN u ELSE Redirect(u, 0)[1]
         place == Redirect(from, rec.syms[i].value) IN
     [name |-> rec.syms[i].name, global |-> rec.global,
      section |-> place[1], value |-> place[2]]]

Pubdef(rec) ==
  /\ Read(rec, "PUBDEF")
  /\ LET found == OfSegment(rec.seg)
         u     == FirstOf(found)
         bad   == FirstFailure(PubdefChecks(rec, found))
         n     == Len(rec.syms)
         size  == FoldSeq(LAMBDA x, y : NameSize(x.name) + y, 0, rec.syms)
         new   == Redirect(u, 0)[1] IN
     CASE bad # 0 -> Exit(bad) /\ UNCHANGED <<sections, counts, pubs, section>>
       [] bad = 0 /\ pass = 1 ->
            /\ counts' = [counts EXCEPT !.pub = @ + n, !.names = @ + size]
            /\ sections' = [sections EXCEPT ![u].sym_count = @ + n]
            /\ section' = u
            /\ UNCHANGED <<pubs, exit>>
       [] bad = 0 /\ pass = 2 /\ (size > counts.names - NamesTaken \/ Len(pubs) + n > counts.pub) ->
            Exit(56) /\ UNCHANGED <<sections, counts, pubs, section>>
       [] OTHER ->
            /\ pubs' = pubs \o Publics(rec, u)
            /\ section' = IF n > 0 THEN new ELSE u
            /\ IF n > 0 /\ sections[new].shndx = 0 THEN Exit(75) ELSE UNCHANGED exit
            /\ UNCHANGED <<sections, counts>>
  /\ UNCHANGED <<pass, phase, mod, relocs, exts, orig, plan, led, out>>

\* What is wrong with a FIXUPP.  bad is the code of its first unsupported
\* field (62, 65 to 70), 0 if there is none.
FixuppChecks(rec) ==
  << <<led.ofs = None, 61>>,
     <<pass = 2 /\ section # PastEnd /\ sections[section].shndx = 0, 76>>,
     <<rec.ofs + 4 > 4 * Len(led.data), 64>>, <<rec.bad # 0, rec.bad>>,
     <<rec.target = "ext" /\ rec.td \notin 1..counts.ext, 71>>,
     <<rec.target = "seg" /\ rec.td \notin 1..mod.segs, 72>>,
     <<rec.target = "seg" /\ OfSegment(rec.td) = {}, 73>> >>

\* What pass 2 adds to a word that addresses section u: all in CONST2 moves up.
Shift(rec) ==
  IF rec.target = "seg" /\ orig.sdata # None /\ FirstOf(OfSegment(rec.td)) = SECTION_RODATA
    THEN orig.sdata ELSE 0

\* R_386_PC32 counts from the word itself, OMF from the end of it.
PcBias(rec) == IF rec.segrel THEN 0 ELSE -4

\* What a relocation is for: an external symbol, or the section its segment
\* has become.
Target(rec) ==
  IF rec.target = "ext" THEN rec.td ELSE Redirect(FirstOf(OfSegment(rec.td)), 0)[1]

\* A FIXUPP subrecord, for the LEDATA before it.
Fixupp(rec) ==
  /\ Read(rec, "FIXUPP")
  /\ LET bad == FirstFailure(FixuppChecks(rec))
         u   == Target(rec)
         hit == [v \in Sections |->
                   [sections[v] EXCEPT !.is_rel_target = @ \/ (rec.target = "seg" /\ v = u)]] IN
     CASE bad # 0 -> Exit(bad) /\ UNCHANGED <<sections, relocs, counts, led>>
       [] bad = 0 /\ pass = 1 ->
            \* With `section' past the end a count outside of the array grows.
            /\ sections' = IF section = PastEnd THEN hit
                           ELSE [hit EXCEPT ![section].rel_count = @ + 1]
            /\ counts' = [counts EXCEPT !.rel = @ + 1]
            /\ UNCHANGED <<relocs, led, exit>>
       [] OTHER ->
            /\ sections' = hit
            /\ relocs' = [relocs EXCEPT ![section] =
                            Append(@, [ofs |-> led.ofs + rec.ofs, idx |-> u,
                                       extdef |-> rec.target = "ext", segrel |-> rec.segrel])]
            /\ led' = [led EXCEPT !.data[rec.ofs \div 4 + 1] = @ + Shift(rec) + PcBias(rec)]
            /\ UNCHANGED <<counts, exit>>
  /\ UNCHANGED <<pass, phase, mod, exts, pubs, orig, plan, section, out>>

-----------------------------------------------------------------------------
(* From pass 1 to pass 2. *)

\* -oss is settled: strings in CONST are safe with -fpc if YIB is not used.
FinalMode ==
  CASE mod.mode = 2 -> 0
    [] mod.mode = 3 -> IF Nonempty(sections[SEG_YIB]) THEN 0 ELSE 1
    [] OTHER        -> mod.mode

Cleared(s) == [s EXCEPT !.size = 0, !.rel_count = 0, !.sym_count = 0, !.is_rel_target = FALSE]

\* Is CONST put to the beginning of CONST2?
Merges(mode) == mode = 0 /\ Nonempty(sections[SECTION_SDATA])

\* The size of CONST, up to where CONST2 is aligned.
SdataSize ==
  LET size == sections[SECTION_SDATA].size IN
  IF sections[SECTION_RODATA].size = 0 THEN size
  ELSE RoundUp(size, sections[SECTION_RODATA].align)

\* CONST2, r, with all of CONST, s, in front of it.
Merged(r, s) ==
  [r EXCEPT !.size = @ + SdataSize, !.align = IF @ < s.align THEN s.align ELSE @,
            !.rel_count = @ + s.rel_count, !.sym_count = @ + s.sym_count,
            !.is_rel_target = @ \/ s.is_rel_target]

\* The sections after CONST has been put to CONST2 and YIB to CONST.
Rearranged(mode) ==
  LET s == sections[SECTION_SDATA]
      r == sections[SECTION_RODATA]
      y == sections[SEG_YIB] IN
  IF mode = 0
    THEN [sections EXCEPT
            ![SECTION_SDATA] = [s EXCEPT !.size = y.size, !.rel_count = y.rel_count,
                                         !.sym_count = y.sym_count, !.align = 1,
                                         !.is_rel_target = y.is_rel_target],
            ![SECTION_RODATA] = IF Merges(mode) THEN Merged(r, s) ELSE r,
            ![SEG_YIB] = [Cleared(y) EXCEPT !.align = 1]]
    ELSE [sections EXCEPT ![SECTION_SDATA].align = 1]

\* Where section s, put at ofs, ends with its relocations.
EndOfSection(s, ofs) ==
  IF s.rel_count = 0 THEN ofs + s.size ELSE RoundUp(ofs + s.size, 4) + RelSize * s.rel_count

\* Section u gets its header, its place in the file, a place for its
\* relocations, and its symbol.  Segments from YIB on are left as ghosts.
Placed(acc, u) ==
  LET s == acc.sections[u]
      ofs == RoundUp(acc.ofs, 4) IN
  IF ~Nonempty(s) \/ u >= SEG_YIB THEN acc
  ELSE [ofs |-> EndOfSection(s, ofs),
        shdrs |-> acc.shdrs + (IF s.rel_count = 0 THEN 1 ELSE 2),
        syms |-> acc.syms + (IF s.is_rel_target THEN 1 ELSE 0),
        sections |-> [acc.sections EXCEPT
                        ![u].shndx = acc.shdrs, ![u].file_ofs = ofs,
                        ![u].rel_file_ofs = IF s.rel_count = 0 THEN 0
                                            ELSE RoundUp(ofs + s.size, 4),
                        ![u].symndx = IF s.is_rel_target THEN acc.syms ELSE 0]]

Layout(mode) ==
  FoldLeft(Placed, [ofs |-> EhdrSize, shdrs |-> 1, syms |-> 1, sections |-> Rearranged(mode)],
           SectionSeq)

NoName == [under |-> 0, rest |-> ""]

\* The symbol of a section.
SectionSymbol(s) ==
  [name |-> NoName, kind |-> "section", bind |-> "local", shndx |-> s.shndx, value |-> 0]

\* The transition's own check: every relocation is in a section that has a place.
RelsPlaced(s) == counts.rel = FoldSet(LAMBDA u, n : n + s[u].rel_count, 0, 0..4)

\* MODEND of pass 1: the layout is made, and the ELF header is written.
EndPass1(rec) ==
  /\ Takes(rec, "MODEND") /\ pass = 1
  /\ LET mode == FinalMode
         l    == Layout(mode)
         targets == SelectSeq(SectionSeq, LAMBDA u : l.sections[u].is_rel_target) IN
     /\ mod' = [mod EXCEPT !.mode = mode]
     /\ sections' = l.sections
     /\ orig' = [sdata |-> IF Merges(mode) THEN SdataSize ELSE None,
                 yib |-> IF mode = 0 THEN sections[SEG_YIB].size ELSE None]
     /\ plan' = [shoff |-> RoundUp(l.ofs, 4), shdr_count |-> l.shdrs + 3,
                 sym_count |-> l.syms + counts.pub + counts.ext, local_sym_count |-> 0,
                 syms |-> [i \in 1..Len(targets) |-> SectionSymbol(l.sections[targets[i]])]]
     /\ \/ /\ RelsPlaced(l.sections)
           /\ out' = [out EXCEPT !.ehdr = <<RoundUp(l.ofs, 4), l.shdrs + 3>>]
           /\ UNCHANGED exit
        \/ ~RelsPlaced(l.sections) /\ Exit(90) /\ UNCHANGED out
        \/ MayFail /\ RelsPlaced(l.sections) /\ Exit(92) /\ UNCHANGED out
  /\ pass' = 2 /\ pos' = 0
  /\ led' = NoData
  /\ UNCHANGED <<phase, relocs, counts, exts, pubs, section>>

-----------------------------------------------------------------------------
(* After pass 2. *)

\* MODEND of pass 2: the data of the last LEDATA is written.
EndPass2(rec) ==
  /\ Read(rec, "MODEND") /\ pass = 2
  /\ flush_ledata
  /\ phase' = "symbols"
  /\ UNCHANGED <<pass, mod, tables, section>>

\* The places of the public symbols that an external symbol names.
Defining(e) == {i \in DOMAIN pubs : SymbolName(pubs[i].name) = SymbolName(e.name)}

\* Mutant: public symbols stay in the order they come in.
InOrderUnsorted(global) == IF global THEN [i \in DOMAIN pubs |-> i] ELSE <<>>

\* The places of the local or the global public symbols, in order.
InOrder(global) ==
  SelectSeq([i \in DOMAIN pubs |-> i], LAMBDA i : pubs[i].global = global)

\* The places of the external symbols that are not public symbols too.
Undefined == SelectSeq([i \in DOMAIN exts |-> i], LAMBDA i : Defining(exts[i]) = {})

ElfSymbol(p) ==
  [name |-> SymbolName(p.name), kind |-> "notype", shndx |-> sections[p.section].shndx,
   bind |-> IF p.global THEN "global" ELSE "local", value |-> p.value]

UndefSymbol(e) ==
  [name |-> SymbolName(e.name), kind |-> "notype", shndx |-> 0, bind |-> "global", value |-> 0]

\* The symbol table: the sections, then local, global and undefined symbols.
\* prev_idx of every symbol is where it is in the table.
Symbols ==
  /\ exit = Running /\ phase = "symbols"
  /\ LET locals == InOrder(FALSE)
         order  == locals \o InOrder(TRUE)
         head   == plan.syms
         syms   == head \o [i \in 1..Len(order) |-> ElfSymbol(pubs[order[i]])]
                        \o [i \in 1..Len(Undefined) |-> UndefSymbol(exts[Undefined[i]])]
         PubIdx(i) == Len(head) + CHOOSE k \in DOMAIN order : order[k] = i
         ExtIdx(i) == IF Defining(exts[i]) # {} THEN PubIdx(FirstOf(Defining(exts[i])))
                      ELSE Len(head) + Len(order)
                             + CHOOSE k \in DOMAIN Undefined : Undefined[k] = i
         count == plan.sym_count - (Len(exts) - Len(Undefined))
         bad == FirstFailure(
                  << <<NamesTaken # counts.names, 94>>,
                     <<\E e \in ToSet(exts) : Defining(e) # {}
                         /\ pubs[FirstOf(Defining(e))].global # e.global, 96>>,
                     <<Len(syms) + 1 # count, 97>> >>) IN
     /\ IF bad # 0 THEN Exit(bad) /\ UNCHANGED <<plan, exts>>
        ELSE /\ plan' = [plan EXCEPT !.syms = syms, !.sym_count = count,
                                     !.local_sym_count = 1 + Len(head) + Len(locals)]
             /\ exts' = [i \in DOMAIN exts |-> [exts[i] EXCEPT !.index = ExtIdx(i)]]
             /\ UNCHANGED exit
  /\ phase' = "shdrs"
  /\ UNCHANGED <<flags, file, pos, pass, mod, sections, relocs, counts, pubs, led, section,
                 orig, out>>

\* The section headers of section u, and of its relocations.
HeadersOf(u) ==
  LET s == sections[u] IN
  << [kind |-> IF u = SECTION_BSS THEN "nobits" ELSE "progbits", section |-> u,
      ofs |-> s.file_ofs, size |-> s.size, align |-> s.align, info |-> 0] >>
  \o IF s.rel_count = 0 THEN <<>>
     ELSE << [kind |-> "rel", section |-> u, ofs |-> s.rel_file_ofs,
              size |-> RelSize * s.rel_count, align |-> 4, info |-> s.shndx] >>

\* The sections that get a section header.
Shown == SelectSeq(SectionSeq, LAMBDA u : Nonempty(sections[u]))

\* Where the tables after the section headers begin.
TablesOfs == RoundUp(plan.shoff + ShdrSize * plan.shdr_count, 4)

\* The section headers.  .shstrtab comes last in the file, .symtab first.
Headers ==
  LET own == FoldLeft(LAMBDA acc, u : acc \o HeadersOf(u), <<>>, Shown)
      table == [kind |-> "table", section |-> 8, ofs |-> 0, size |-> 0, align |-> 1, info |-> 0]
      symtab == [table EXCEPT !.ofs = TablesOfs, !.size = SymSize * plan.sym_count,
                              !.align = 4, !.info = plan.local_sym_count]
      strtab == [table EXCEPT !.ofs = symtab.ofs + symtab.size, !.size = counts.names]
      shstrtab == [table EXCEPT !.ofs = RoundUp(strtab.ofs + strtab.size, 4),
                                !.size = ShstrtabSize] IN
  own \o <<shstrtab, symtab, strtab>>

\* The section headers are written.
Shdrs ==
  /\ exit = Running /\ phase = "shdrs"
  /\ LET bad == FirstFailure(
                  << <<\E u \in ToSet(Shown) : sections[u].shndx = 0, 78>>,
                     <<\E u \in ToSet(Shown) : Len(relocs[u]) # sections[u].rel_count, 99>>,
                     <<Len(Headers) + 1 # plan.shdr_count, 80>> >>) IN
     \/ bad # 0 /\ Exit(bad) /\ UNCHANGED out
     \/ bad = 0 /\ out' = [out EXCEPT !.shdrs = Headers] /\ UNCHANGED exit
     \/ bad = 0 /\ MayFail /\ Exit(81) /\ UNCHANGED out
  /\ phase' = "tables"
  /\ UNCHANGED <<flags, file, pos, pass, mod, tables, led, section>>

\* An ELF relocation.
ElfRel(r) ==
  [ofs |-> r.ofs, type |-> IF r.segrel THEN "R_386_32" ELSE "R_386_PC32",
   sym |-> IF r.extdef THEN exts[r.idx].index ELSE sections[r.idx].symndx]

\* The tables are written, one after the other: the relocations of every
\* section, the symbols, their names, and the section names.
Tables ==
  /\ exit = Running /\ phase = "tables"
  /\ \/ /\ out' = [out EXCEPT
                     !.rels = [u \in Sections |->
                                 [i \in DOMAIN relocs[u] |-> ElfRel(relocs[u][i])]],
                     !.syms = plan.syms, !.strtab = counts.names]
        /\ Exit(0)
     \/ /\ MayFail
        /\ \E code \in {83, 85, 87, 89} : Exit(code)
        /\ UNCHANGED out
  /\ phase' = "done"
  /\ UNCHANGED <<flags, file, pos, pass, mod, tables, led, section>>

-----------------------------------------------------------------------------
Next ==
  \/ Damaged
  \/ \E rec \in Candidates :
       \/ Lnames(rec) \/ Segdef(rec) \/ Grpdef(rec) \/ Coment(rec) \/ Ignored(rec)
       \/ Unsupported(rec) \/ Data(rec) \/ Extdef(rec) \/ Pubdef(rec) \/ Fixupp(rec)
       \/ EndPass1(rec) \/ EndPass2(rec)
  \/ Symbols \/ Shdrs \/ Tables

Spec == Init /\ [][Next]_vars
-----------------------------------------------------------------------------
(* Properties.  They read the records in `file' and what came `out' of them. *)

Records(type) == {i \in DOMAIN file : file[i].type = type}

\* The SEGDEF of section u gives its size and alignment as the compiler had it.
SegdefOf(u) ==
  LET all == SelectSeq(file, LAMBDA r : r.type = "SEGDEF") IN all[sections[u].seg_idx]

SizeOf(u) == IF sections[u].seg_idx = 0 THEN 0 ELSE SegdefOf(u).size

\* The section header of section u, and what is in front of CONST2 now.
Header(u) == CHOOSE h \in ToSet(out.shdrs) : h.section = u /\ h.kind # "rel"
Before ==
  IF \E h \in ToSet(out.shdrs) : h.section = SECTION_RODATA
    THEN Header(SECTION_RODATA).size - SizeOf(SECTION_RODATA) ELSE 0

\* Where offset ofs of section u belongs.
Belongs(u, ofs) ==
  CASE mod.mode = 0 /\ u = SECTION_SDATA -> <<SECTION_RODATA, ofs>>
    [] mod.mode = 0 /\ u = SEG_YIB       -> <<SECTION_SDATA, ofs>>
    [] u = SECTION_RODATA                -> <<u, ofs + Before>>
    [] OTHER                             -> <<u, ofs>>

\* The LEDATA records with data that is not ignored, and the place of word k.
DataRecords == {i \in Records("LEDATA") : OfSegment(file[i].seg) # {}}
WordPlace(i, k) == Belongs(FirstOf(OfSegment(file[i].seg)), file[i].ofs + 4 * (k - 1))

\* The FIXUPP records that follow their LEDATA directly, as they should, or
\* another FIXUPP of it.
DataOf(j) == CHOOSE i \in 0..j - 1 : /\ i = 0 \/ file[i].type # "FIXUPP"
                                     /\ \A m \in i + 1..j - 1 : file[m].type = "FIXUPP"
FixupsFollowData == \A j \in Records("FIXUPP") : DataOf(j) \in DataRecords

\* An LPUBDEF of CONST has one name, as the second one would be moved again.
OneNameInConst ==
  \A i \in Records("PUBDEF") :
    OfSegment(file[i].seg) = {SECTION_SDATA} => Len(file[i].syms) = 1

\* The conversion of a file with its FIXUPPs in place has succeeded.
Converted == exit = 0 /\ FixupsFollowData

\* What word k of LEDATA i must be in the end.
WordWanted(i, k) ==
  LET fixes == {j \in Records("FIXUPP") : DataOf(j) = i /\ file[j].ofs = 4 * (k - 1)}
      change(j) ==
        (IF file[j].target = "seg" THEN Belongs(FirstOf(OfSegment(file[j].td)), 0)[2] ELSE 0)
          + (IF file[j].segrel THEN 0 ELSE -4) IN
  FoldSet(LAMBDA j, v : v + change(j), file[i].data[k], fixes)

\* The state's shape.
TypeOK ==
  /\ pass \in {1, 2} /\ pos \in 0..Len(file)
  /\ phase \in {"records", "symbols", "shdrs", "tables", "done"}
  /\ mod.mode \in (IF pass = 1 THEN 0..3 ELSE {0, 1}) /\ mod.groups \in 0..127 /\ mod.segs \in 0..128
  /\ \A u \in Sections : /\ sections[u].align \in {0, 1, 2, 4, 16}
                         /\ sections[u].shndx \in 0..2 * Cardinality(Sections)
                         /\ Len(relocs[u]) <= sections[u].rel_count
  /\ section \in Sections \union {PastEnd}
  /\ exit \in Running..255

\* Every word of data, as its fixups leave it, is in the ELF file where its
\* section has it, CONST and CONST2 one after the other; nothing else is.
ImageRight ==
  Converted =>
    /\ DOMAIN out.words =
         UNION {{Header(WordPlace(i, k)[1]).ofs + WordPlace(i, k)[2] : k \in DOMAIN file[i].data} :
                  i \in DataRecords}
    /\ \A i \in DataRecords : \A k \in DOMAIN file[i].data :
         LET place == WordPlace(i, k) IN
         \/ out.words[Header(place[1]).ofs + place[2]] = WordWanted(i, k)
         \/ \E j \in DataRecords : j > i /\ \E m \in DOMAIN file[j].data : WordPlace(j, m) = place

\* CONST2 begins behind CONST, and as it is aligned.
MergedApart ==
  Converted /\ mod.mode = 0 =>
    /\ Before >= SizeOf(SECTION_SDATA)
    /\ SizeOf(SECTION_RODATA) # 0 => Before % SegdefOf(SECTION_RODATA).align = 0

\* A relocation names the section symbol or the external symbol its FIXUPP does.
NamesTarget(rel, rec) ==
  LET s == out.syms[rel.sym]
      externs == SelectSeq(file, LAMBDA r : r.type = "EXTDEF") IN
  /\ rel.sym \in DOMAIN out.syms
  /\ IF rec.target = "seg"
       THEN /\ s.kind = "section"
            /\ out.shdrs[s.shndx].section = Belongs(FirstOf(OfSegment(rec.td)), 0)[1]
       ELSE s.kind = "notype" /\ s.name = SymbolName(externs[rec.td].name)

\* Every section has the relocations of its FIXUPPs, in their order, each at
\* its word and with its symbol.
RelocsRight ==
  Converted =>
    \A u \in Sections :
      LET here == SelectSeq([j \in DOMAIN file |-> j],
                    LAMBDA j : file[j].type = "FIXUPP" /\ WordPlace(DataOf(j), 1)[1] = u) IN
      /\ Len(out.rels[u]) = Len(here)
      /\ \A n \in DOMAIN here :
           LET rec == file[here[n]]
               rel == out.rels[u][n] IN
           /\ rel.ofs = WordPlace(DataOf(here[n]), 1)[2] + rec.ofs
           /\ rel.type = IF rec.segrel THEN "R_386_32" ELSE "R_386_PC32"
           /\ NamesTarget(rel, rec)

\* Every public symbol is in the symbol table with its binding, at its place.
SymbolsPlaced ==
  exit = 0 =>
    \A i \in Records("PUBDEF") : \A n \in DOMAIN file[i].syms :
      LET p == file[i].syms[n]
          place == Belongs(FirstOf(OfSegment(file[i].seg)), p.value) IN
      \E s \in ToSet(out.syms) :
        /\ s.name = SymbolName(p.name) /\ s.kind = "notype"
        /\ s.bind = IF file[i].global THEN "global" ELSE "local"
        /\ out.shdrs[s.shndx].section = place[1]
        /\ s.value = place[2]

SymbolsPlacedOne == OneNameInConst => SymbolsPlaced

\* In the symbol table every local symbol comes before every global one, where
\* sh_info tells, and what is defined in the module is not undefined too.
LocalsFirst ==
  exit = 0 =>
    /\ \A i \in DOMAIN out.syms :
         out.syms[i].bind = "local" <=> i < out.shdrs[Len(out.shdrs) - 1].info
    /\ \A s, t \in ToSet(out.syms) : s.shndx = 0 /\ s.name = t.name => t.shndx = 0
    /\ Len(out.syms) + 1 = plan.sym_count

\* The parts of the ELF file do not overlap.
Parts ==
  {<<0, EhdrSize>>, <<out.ehdr[1], ShdrSize * out.ehdr[2]>>}
    \union {<<h.ofs, IF h.kind = "rel" THEN 8 * Len(out.rels[h.section]) ELSE h.size>> :
              h \in {x \in ToSet(out.shdrs) : x.kind # "nobits"}}
PartsApart ==
  exit = 0 =>
    \A p, q \in Parts : p # q => \/ p[2] = 0 \/ q[2] = 0
                                 \/ p[1] + p[2] <= q[1] \/ q[1] + q[2] <= p[1]

\* A segment that must be empty is used, which is an error: YIB with -os1, YI
\* or YIE.
GhostUsed == \E u \in SEG_YIB..7 : Nonempty(sections[u])

\* What the second pass finds is what the first one has counted: none of the
\* assertions fails.
AssertsHold ==
  exit \in {45, 56, 57, 80, 90, 94, 97, 99} => GhostUsed \/ ~FixupsFollowData

\* The two passes agree, so that the parts of the file are where its header
\* says and the data of every section, merged or not, is in its part.
ImageSound == TypeOK /\ ImageRight /\ MergedApart /\ PartsApart /\ AssertsHold

\* What the linker reads besides the bytes is that of the records: the
\* relocations of every section, and the symbol table, which has every symbol at
\* its place and in the order that ELF asks for.
LinkageRight == RelocsRight /\ SymbolsPlacedOne /\ LocalsFirst

=============================================================================
