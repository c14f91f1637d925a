------------------------------ MODULE ElfProofs ------------------------------
(***************************************************************************)
(* Proofs about the tools that edit ELF files, for every file a linker or  *)
(* an assembler makes and every order of commands that minicc.sh runs, with *)
(* failures and kills between any two steps.                               *)
(***************************************************************************)
EXTENDS ElfTools, SequenceTheorems, FiniteSetTheorems, WellFoundedInduction, TLAPS

-----------------------------------------------------------------------------
(* Executables. *)

\* Segment q is p, perhaps from the beginning of its page on, with e more
\* bytes at the end of its memory.
Kept(p, q, e) ==
  /\ q \in Phdrs
  /\ q.type = p.type
  /\ q.vaddr - q.offset = p.vaddr - p.offset
  /\ q.offset <= p.offset
  /\ q.offset + q.filesz = p.offset + p.filesz
  /\ q.offset + q.memsz = p.offset + p.memsz + e

IsLast(ls, k) == k \in Loads(ls) /\ \A j \in Loads(ls) : j <= k

\* ps are the program headers ls, with n more bytes of .bss.
Image(ls, ps, n) ==
  /\ ps \in Seq(Phdrs) /\ Len(ps) = Len(ls)
  /\ \A k \in 1..Len(ls) : Kept(ls[k], ps[k], IF IsLast(ls, k) THEN n ELSE 0)

\* Until the program headers are written.
Early == {"start", "header", "osabi", "phdrs", "loop", "write_phdrs"}
FileGrown == (cmd.tool = "relink" /\ phase = "ended") \/ (Shrinks(cmd) /\ phase \in Early)

\* A command that makes .bss smaller has failed, before or after its write.
Torn == Shrinks(cmd) /\ phase = "ended" /\ exit # 0

SegmentsOK ==
  /\ Torn => \E n \in {0, fix} : Image(linked.phdrs, file.phdrs, n)
  /\ ~Torn => Image(linked.phdrs, file.phdrs, IF FileGrown THEN fix ELSE 0)

\* n bytes of the file have all of the segments before the k-th that is loaded.
Reaches(ls, n, k) ==
  \A j \in Loads(ls) : j < k /\ ls[j].filesz > 0 => ls[j].offset + ls[j].filesz <= n

Whole(ls, n) == Reaches(ls, n, Len(ls) + 1)

LengthOK ==
  file.len \in Nat /\ (Whole(linked.phdrs, linked.len) => Whole(linked.phdrs, file.len))

IsExec == cmd.tool \in {"sstrip", "elfxfix"}
Flags == IF cmd.tool = "sstrip" THEN SstripFlags(cmd.args) ELSE ElfxfixFlags(cmd.args)

\* The section headers of a file of len bytes are in it, if it has any.
Sectioned(e, len) == e.shnum = 0 \/ e.shoff + ShdrSize * e.shnum <= len

Cuts == IsExec /\ Flags # <<>> /\ Flags.s

SectionsOK ==
  linked.ehdr.shoff + ShdrSize * linked.ehdr.shnum <= linked.len =>
     Sectioned(file.ehdr, file.len) \/ (Cuts /\ ~(phase = "ended" /\ exit = 0))

EhdrFields == {"magic", "ident", "type", "version", "osabi", "phoff", "phentsize", "phnum",
               "shoff", "shentsize", "shnum", "shstrndx"}
EhdrOK(e) ==
  /\ DOMAIN e = EhdrFields
  /\ e.phoff \in Nat /\ e.phnum \in Nat /\ e.shoff \in Nat /\ e.shnum \in Nat

FileFields == {"len", "ehdr", "phdrs", "shdrs", "shstr", "syms"}
FileOK == DOMAIN file = FileFields /\ EhdrOK(file.ehdr)

\* fix.o has a number only if there is a segment before the last one.
FixOK ==
  /\ fix \in Nat
  /\ fix # 0 => \E i, j \in Loads(linked.phdrs) : i < j
  /\ cmd.tool = "relink" /\ phase = "start" => fix # 0

\* The variables of the tools for executables.
ExecPhases == {"osabi", "phdrs", "loop", "write_phdrs", "truncate", "write_ehdr"}
LoopFields == {"flags", "ehdr", "phdrs", "k", "first", "changed", "last_off"}

\* The tool has not come to .bss yet.
BssAhead == Shrinks(cmd) /\ \E j \in 1..Len(linked.phdrs) : IsLast(linked.phdrs, j) /\ m.k <= j

LoopOK ==
  /\ DOMAIN m = LoopFields
  /\ Image(linked.phdrs, m.phdrs, IF BssAhead THEN fix ELSE 0)
  /\ m.k \in 1..Len(linked.phdrs) + 1
  /\ IF m.first = 0 THEN \A j \in Loads(linked.phdrs) : m.k <= j
     ELSE m.first \in Loads(linked.phdrs) /\ m.first < m.k
  /\ phase \in {"loop", "write_phdrs"} => m.changed \/ m.phdrs = file.phdrs
  /\ phase # "loop" => m.k > Len(linked.phdrs)
  /\ m.last_off \in Nat
  /\ m.flags.s => Reaches(linked.phdrs, m.last_off, m.k)

ExecVarsOK ==
  /\ IsExec /\ phase \notin {"start", "ended"} => m.flags = Flags /\ Flags # <<>>
  /\ IsExec /\ phase \in {"osabi", "phdrs"} => DOMAIN m = {"flags", "ehdr"}
  /\ IsExec /\ phase \in ExecPhases =>
       /\ EhdrOK(m.ehdr)
       /\ IF phase = "write_ehdr" /\ m.flags.s THEN m.ehdr.shnum = 0
          ELSE m.ehdr.shnum = file.ehdr.shnum /\ m.ehdr.shoff = file.ehdr.shoff
  /\ IsExec /\ phase \in ExecPhases \ {"osabi", "phdrs"} => LoopOK

\* No check comes after a write.
Base == IF settled = <<>> THEN linked ELSE settled.file
BeforeWrites == Early \cup {"shdrs", "flags", "shstrtab", "rename"}
UntouchedOK ==
  /\ retries = 0 /\ phase \in BeforeWrites => file = Base
  /\ phase = "ended" /\ exit = 0 => file = Base
  /\ RefusedUntouched

Phases == {"start", "header", "osabi", "phdrs", "loop", "write_phdrs", "truncate",
           "write_ehdr", "shdrs", "flags", "done", "symbols", "weak", "write", "shstrtab",
           "rename", "ended"}
Codes == {Running, Killed} \cup 0..36 \cup 50..54
ControlOK ==
  /\ linked \in Files /\ InOrder(plan)
  /\ phase \in Phases /\ exit \in Codes /\ (phase = "ended" <=> exit # Running)
  /\ cmd.tool = "relink" => phase \in {"start", "ended"}
  /\ retries \in 0..MaxRetry

-----------------------------------------------------------------------------
(* Object files. *)

\* The names of the sections are those of the assembler.
NamesKept(old, shdrs) ==
  /\ DOMAIN shdrs = DOMAIN old
  /\ \A i \in DOMAIN old : /\ DOMAIN shdrs[i] = DOMAIN old[i]
                          /\ shdrs[i].name = old[i].name /\ shdrs[i].tail = old[i].tail

\* So are the strings, but for the one.
TextsKept(old, new) ==
  /\ new \in Seq({old[i] : i \in DOMAIN old} \cup {HiddenStack}) /\ Len(new) = Len(old)
  /\ \A i \in DOMAIN old : new[i] = old[i] \/ (old[i] = NoteStack /\ new[i] = HiddenStack)

StringsOK ==
  /\ TextsKept(linked.shstr, file.shstr)
  /\ phase = "ended" /\ exit = 0 /\ cmd.tool = "elfnostack" =>
       \A i \in DOMAIN linked.shstr : file.shstr[i] # NoteStack

Renamed(s) == [s EXCEPT !.name.pre = NoText, !.bind = "WEAK"]
GivenTo(s, p) == [s EXCEPT !.bind = "WEAK", !.shndx = p.shndx, !.value = p.value]
IsPartner(s) == IsExtern(s) /\ HasName(s) /\ s.name.pre = NoText

\* The weak symbols before the n-th that s may be the partner of.
Givers(old, s, n) ==
  {p \in DOMAIN old : p < n /\ LocalWeak(old[p]) /\ old[p].name.rest = s.name.rest}

\* syms are the symbols of the assembler after the loop has gone through the
\* first n - 1 of them.
WovenAt(old, syms, n, j) ==
  /\ ExternWeak(old[j]) => syms[j] = IF j < n THEN Renamed(old[j]) ELSE old[j]
  /\ LocalWeak(old[j]) => syms[j] = IF j < n THEN NoSymbol ELSE old[j]
  /\ ~ExternWeak(old[j]) /\ ~LocalWeak(old[j]) =>
       IF IsPartner(old[j]) /\ Givers(old, old[j], n) # {}
         THEN \E p \in DOMAIN old : Givers(old, old[j], n) = {p} /\ syms[j] = GivenTo(old[j], old[p])
       ELSE syms[j] = old[j]
Shapes(old) ==
  {NoSymbol} \cup {old[i] : i \in DOMAIN old} \cup {Renamed(old[i]) : i \in DOMAIN old}
  \cup {GivenTo(old[i], old[j]) : i \in DOMAIN old, j \in DOMAIN old}
Woven(old, syms, n) ==
  /\ syms \in Seq(Shapes(old)) /\ Len(syms) = Len(old)
  /\ \A j \in DOMAIN old : WovenAt(old, syms, n, j)

LastSym == Len(linked.syms) + 1

SymbolsOK ==
  /\ DOMAIN file.syms = DOMAIN linked.syms
  /\ (cmd.tool = "elfofix" /\ phase = "ended" /\ exit # 0) \/ Woven(linked.syms, file.syms, 1) \/ Woven(linked.syms, file.syms, LastSym)
  /\ phase = "ended" /\ exit = 0 /\ cmd.tool = "elfofix" /\ m.flags.w => Woven(linked.syms, file.syms, LastSym)

\* The variables of the tools for object files.
ObjVarsOK ==
  /\ cmd.tool = "elfofix" /\ phase \in {"flags", "symbols"} => NamesKept(linked.shdrs, m.shdrs)
  /\ cmd.tool = "elfofix" /\ phase = "shdrs" => DOMAIN m = {"flags", "ehdr"}
  /\ cmd.tool = "elfofix" /\ phase \in {"flags", "symbols"} => DOMAIN m = {"flags", "ehdr", "shdrs"}
  /\ cmd.tool = "elfofix" /\ phase \in {"weak", "write"} => DOMAIN m = {"flags", "syms", "i"}
  /\ cmd.tool = "elfofix" /\ phase = "done" => ~m.flags.w
  /\ cmd.tool = "elfofix" /\ phase = "weak" =>
       m.i \in 1..LastSym /\ (Woven(linked.syms, m.syms, m.i) \/ Woven(linked.syms, m.syms, LastSym))
  /\ cmd.tool = "elfofix" /\ phase = "write" => Woven(linked.syms, m.syms, LastSym)
  /\ cmd.tool = "elfnostack" /\ phase = "rename" => m.shstr = file.shstr

ExecInv ==
  /\ ControlOK /\ FileOK /\ FixOK /\ LengthOK /\ SegmentsOK /\ SectionsOK /\ UntouchedOK
  /\ ExecVarsOK

ObjInv ==
  NamesKept(linked.shdrs, file.shdrs) /\ StringsOK /\ SymbolsOK /\ ObjVarsOK

ElfInv == ExecInv /\ ObjInv

-----------------------------------------------------------------------------
(* Numbers, checks and command lines. *)

LEMMA LeastNat ==
  ASSUME NEW S, S \subseteq Nat, S # {}
  PROVE  Min(S) \in S /\ \A y \in S : Min(S) <= y
<1>1. PICK x \in S : \A y \in S : ~ (<<y, x>> \in OpToRel(<, Nat))
  BY NatLessThanWellFounded, WFMin
<1>2. \A y \in S : x <= y
  <2> SUFFICES ASSUME NEW y \in S, y < x PROVE FALSE
    OBVIOUS
  <2>1. <<y, x>> \in OpToRel(<, Nat)
    BY DEF OpToRel
  <2>2. QED
    BY <1>1, <2>1
<1>3. QED
  BY <1>2 DEF Min

LEMMA FailureCode ==
  ASSUME NEW checks, Len(checks) \in Nat
  PROVE  FirstFailure(checks) = 0 \/ \E i \in 1..Len(checks) : FirstFailure(checks) = checks[i][2]
<1> DEFINE I == {i \in 1..Len(checks) : checks[i][1]}
<1>1. CASE I = {}
  BY <1>1 DEF FirstFailure, SelectInSeq
<1>2. CASE I # {}
  <2> HIDE DEF I
  <2>0. I \subseteq Nat
    BY DEF I
  <2>1. Min(I) \in I
    BY <1>2, <2>0, LeastNat
  <2>2. Min(I) \in 1..Len(checks) /\ Min(I) # 0
    BY <2>1 DEF I
  <2>3. FirstFailure(checks) = checks[Min(I)][2]
    BY <1>2, <2>2 DEF FirstFailure, SelectInSeq, I
  <2>4. QED
    BY <2>2, <2>3
<1>3. QED
  BY <1>1, <1>2

LEMMA HeaderCode ==
  ASSUME NEW type
  PROVE  FirstFailure(HeaderChecks(type)) \in {0, 3, 4, 5, 6, 7, 8}
<1> DEFINE c == HeaderChecks(type)
<1>1. Len(c) = 6
  BY DEF HeaderChecks
<1>2. c[1][2] = 3 /\ c[2][2] = 4 /\ c[3][2] = 5 /\ c[4][2] = 6 /\ c[5][2] = 7 /\ c[6][2] = 8
  BY DEF HeaderChecks
<1> HIDE DEF c
<1>3. \A i \in 1..6 : i = 1 \/ i = 2 \/ i = 3 \/ i = 4 \/ i = 5 \/ i = 6
  OBVIOUS
<1>4. FirstFailure(c) = 0 \/ \E i \in 1..6 : FirstFailure(c) = c[i][2]
  BY <1>1, FailureCode
<1>5. FirstFailure(c) \in {0, 3, 4, 5, 6, 7, 8}
  BY <1>2, <1>3, <1>4
<1>6. QED
  BY <1>5 DEF c

LEMMA PhdrCode == FirstFailure(PhdrChecks) \in {0, 11, 12, 13, 14, 16}
<1> DEFINE c == PhdrChecks
<1>1. Len(c) = 5
  BY DEF PhdrChecks
<1>2. c[1][2] = 11 /\ c[2][2] = 12 /\ c[3][2] = 13 /\ c[4][2] = 14 /\ c[5][2] = 16
  BY DEF PhdrChecks
<1> HIDE DEF c
<1>3. \A i \in 1..5 : i = 1 \/ i = 2 \/ i = 3 \/ i = 4 \/ i = 5
  OBVIOUS
<1>4. FirstFailure(c) = 0 \/ \E i \in 1..5 : FirstFailure(c) = c[i][2]
  BY <1>1, FailureCode
<1>5. FirstFailure(c) \in {0, 11, 12, 13, 14, 16}
  BY <1>2, <1>3, <1>4
<1>6. QED
  BY <1>5 DEF c

LEMMA CmdTail ==
  ASSUME InOrder(plan), Len(plan) > 1
  PROVE  InOrder(Tail(plan)) /\ Head(Tail(plan)) = plan[2]
<1> DEFINE C == [tool : STRING, args : Seq(STRING)]
<1>1. plan \in Seq(C) /\ plan # <<>>
  BY DEF InOrder
<1> HIDE DEF C
<1>2. Tail(plan) \in Seq(C) /\ Len(Tail(plan)) = Len(plan) - 1 /\ Len(plan) \in Nat
  BY <1>1
<1>3. \A i \in 1..Len(plan) - 1 : Tail(plan)[i] = plan[i + 1]
  BY <1>1
<1>4. \A i \in 2..Len(Tail(plan)) : Shrinks(Tail(plan)[i]) <=> Tail(plan)[i - 1].tool = "relink"
  <2> SUFFICES ASSUME NEW i \in 2..Len(plan) - 1
               PROVE  Shrinks(Tail(plan)[i]) <=> Tail(plan)[i - 1].tool = "relink"
    BY <1>2
  <2>1. i + 1 \in 2..Len(plan) /\ (i + 1) - 1 = i /\ (i - 1) + 1 = i
    BY <1>2
  <2>2. Tail(plan)[i] = plan[i + 1] /\ Tail(plan)[i - 1] = plan[i]
    BY <1>2, <1>3, <2>1
  <2>3. Shrinks(plan[i + 1]) <=> plan[(i + 1) - 1].tool = "relink"
    BY <2>1 DEF InOrder
  <2>4. QED
    BY <2>1, <2>2, <2>3
<1>5. \A i \in DOMAIN Tail(plan) : Shrinks(Tail(plan)[i]) =>
         LET f == ElfxfixFlags(Tail(plan)[i].args) IN ~f.p /\ (f.a \/ f.osabi = KeepOsabi)
  <2> SUFFICES ASSUME NEW i \in 1..Len(plan) - 1, Shrinks(Tail(plan)[i])
               PROVE  LET f == ElfxfixFlags(Tail(plan)[i].args) IN ~f.p /\ (f.a \/ f.osabi = KeepOsabi)
    BY <1>2
  <2>1. i + 1 \in DOMAIN plan
    BY <1>1, <1>2
  <2>2. QED
    BY <1>3, <2>1 DEF InOrder
<1>6. Tail(plan) # <<>> /\ Head(Tail(plan)) = plan[2]
  <2>1. Tail(plan)[1] = plan[2] /\ Len(Tail(plan)) # 0
    BY <1>2, <1>3
  <2>2. Tail(plan) # <<>>
    BY <1>2, <2>1, EmptySeq
  <2>3. Head(Tail(plan)) = Tail(plan)[1]
    BY <1>2, <2>2
  <2>4. QED
    BY <2>1, <2>2, <2>3
<1>7. QED
  BY <1>2, <1>4, <1>5, <1>6 DEF InOrder, C

LEMMA CmdFacts ==
  ASSUME InOrder(plan)
  PROVE  /\ Len(plan) > 1 => (Shrinks(plan[2]) <=> cmd.tool = "relink")
         /\ Shrinks(cmd) => ~ElfxfixFlags(cmd.args).p /\
                            (ElfxfixFlags(cmd.args).a \/ ElfxfixFlags(cmd.args).osabi = KeepOsabi)
<1>1. plan \in Seq([tool : STRING, args : Seq(STRING)]) /\ plan # <<>>
  BY DEF InOrder
<1>2. cmd = plan[1] /\ 1 \in DOMAIN plan /\ Len(plan) \in Nat
  BY <1>1 DEF cmd
<1>3. Len(plan) > 1 => 2 \in 2..Len(plan)
  BY <1>2
<1>4. QED
  BY <1>2, <1>3 DEF InOrder

-----------------------------------------------------------------------------
(* What the fixes do to a segment, and to all of them. *)

LEMMA KeptSelf ==
  ASSUME NEW p \in Phdrs
  PROVE  Kept(p, p, 0)
BY DEF Kept, Phdrs

LEMMA KeptAligned ==
  ASSUME NEW p \in Phdrs, NEW q, NEW e \in Nat, Kept(p, q, e), NEW a \in Nat
  PROVE  Kept(p, [q EXCEPT !.align = a], e)
<1> DEFINE r == [q EXCEPT !.align = a]
<1>1. q \in Phdrs
  BY DEF Kept
<1>2. /\ r \in Phdrs /\ r.type = q.type /\ r.offset = q.offset /\ r.vaddr = q.vaddr
      /\ r.filesz = q.filesz /\ r.memsz = q.memsz
  BY <1>1 DEF Phdrs
<1> HIDE DEF r
<1>3. Kept(p, r, e)
  BY <1>2 DEF Kept
<1>4. QED
  BY <1>3 DEF r

LEMMA KeptLocated ==
  ASSUME NEW p \in Phdrs, NEW q, NEW e \in Nat, Kept(p, q, e), NEW a \in Int
  PROVE  Kept(p, [q EXCEPT !.paddr = a], e)
<1> DEFINE r == [q EXCEPT !.paddr = a]
<1>1. q \in Phdrs
  BY DEF Kept
<1>2. /\ r \in Phdrs /\ r.type = q.type /\ r.offset = q.offset /\ r.vaddr = q.vaddr
      /\ r.filesz = q.filesz /\ r.memsz = q.memsz
  BY <1>1 DEF Phdrs
<1> HIDE DEF r
<1>3. Kept(p, r, e)
  BY <1>2 DEF Kept
<1>4. QED
  BY <1>3 DEF r

LEMMA KeptEnlarged ==
  ASSUME NEW p \in Phdrs, NEW q, NEW e \in Nat, Kept(p, q, e)
  PROVE  Kept(p, Enlarged(q), e)
<1> DEFINE r == Enlarged(q)
<1>1. q \in Phdrs
  BY DEF Kept
<1>2. /\ r \in Phdrs /\ r.type = q.type /\ r.offset = 0 /\ r.vaddr = q.vaddr - q.offset
      /\ r.filesz = q.filesz + q.offset /\ r.memsz = q.memsz + q.offset
  <2> DEFINE memsz == q.memsz + q.offset
             filesz == q.filesz + q.offset
             vaddr == q.vaddr - q.offset
             paddr == q.paddr - q.offset
  <2>1. memsz \in Nat /\ filesz \in Nat /\ vaddr \in Int /\ paddr \in Int
    BY <1>1 DEF Phdrs
  <2>2. r = [q EXCEPT !.memsz = memsz, !.filesz = filesz, !.vaddr = vaddr, !.paddr = paddr, !.offset = 0]
    BY Zenon DEF Enlarged
  <2> HIDE DEF memsz, filesz, vaddr, paddr, r
  <2>3. /\ r \in Phdrs /\ r.type = q.type /\ r.offset = 0 /\ r.vaddr = vaddr /\ r.filesz = filesz
        /\ r.memsz = memsz
    BY <1>1, <2>1, <2>2 DEF Phdrs
  <2>4. QED
    BY <2>3 DEF vaddr, filesz, memsz
<1> HIDE DEF r
<1>3. /\ p.offset \in Nat /\ q.offset \in Nat /\ q.vaddr \in Int /\ p.vaddr \in Int /\ q.filesz \in Nat
      /\ p.filesz \in Nat /\ q.memsz \in Nat /\ p.memsz \in Nat
  BY <1>1 DEF Phdrs
<1>4. /\ q.type = p.type /\ q.vaddr - q.offset = p.vaddr - p.offset /\ q.offset <= p.offset
      /\ q.offset + q.filesz = p.offset + p.filesz /\ q.offset + q.memsz = p.offset + p.memsz + e
  BY DEF Kept
<1>5. r.vaddr - r.offset = p.vaddr - p.offset
  BY <1>2, <1>3, <1>4
<1>6. r.offset + r.filesz = p.offset + p.filesz /\ r.offset + r.memsz = p.offset + p.memsz + e
  BY <1>2, <1>3, <1>4
<1>7. r.offset <= p.offset
  BY <1>2, <1>3
<1>8. Kept(p, r, e)
  BY <1>2, <1>4, <1>5, <1>6, <1>7 DEF Kept
<1>9. QED
  BY <1>8 DEF r

\* Adding n bytes to .bss, and taking them away.
LEMMA KeptGrown ==
  ASSUME NEW p \in Phdrs, NEW n \in Nat
  PROVE  Kept(p, [p EXCEPT !.memsz = @ + n], n)
<1> DEFINE r == [p EXCEPT !.memsz = @ + n]
<1>1. /\ r \in Phdrs /\ r.type = p.type /\ r.offset = p.offset /\ r.vaddr = p.vaddr
      /\ r.filesz = p.filesz /\ r.memsz = p.memsz + n
  BY DEF Phdrs
<1>2. p.offset \in Nat /\ p.vaddr \in Int /\ p.filesz \in Nat /\ p.memsz \in Nat
  BY DEF Phdrs
<1> HIDE DEF r
<1>3. Kept(p, r, n)
  BY <1>1, <1>2 DEF Kept
<1>4. QED
  BY <1>3 DEF r

LEMMA KeptShrunk ==
  ASSUME NEW p \in Phdrs, NEW q, NEW n \in Nat, Kept(p, q, n), p.filesz <= p.memsz
  PROVE  q.memsz - q.filesz >= n /\ Kept(p, [q EXCEPT !.memsz = @ - n], 0)
<1> DEFINE r == [q EXCEPT !.memsz = @ - n]
<1>1. q \in Phdrs
  BY DEF Kept
<1>2. /\ p.offset \in Nat /\ q.offset \in Nat /\ q.vaddr \in Int /\ p.vaddr \in Int /\ q.filesz \in Nat
      /\ p.filesz \in Nat /\ q.memsz \in Nat /\ p.memsz \in Nat
  BY <1>1 DEF Phdrs
<1>3. /\ q.type = p.type /\ q.vaddr - q.offset = p.vaddr - p.offset /\ q.offset <= p.offset
      /\ q.offset + q.filesz = p.offset + p.filesz /\ q.offset + q.memsz = p.offset + p.memsz + n
  BY DEF Kept
<1>4. q.memsz - q.filesz >= n /\ q.memsz - n \in Nat
  BY <1>2, <1>3
<1>5. /\ r \in Phdrs /\ r.type = q.type /\ r.offset = q.offset /\ r.vaddr = q.vaddr
      /\ r.filesz = q.filesz /\ r.memsz = q.memsz - n
  BY <1>1, <1>4 DEF Phdrs
<1> HIDE DEF r
<1>6. r.offset + r.memsz = p.offset + p.memsz + 0
  BY <1>2, <1>3, <1>5
<1>7. Kept(p, r, 0)
  BY <1>2, <1>3, <1>5, <1>6 DEF Kept
<1>8. QED
  BY <1>4, <1>7 DEF r

LEMMA ImageSelf ==
  ASSUME NEW ls \in Seq(Phdrs)
  PROVE  Image(ls, ls, 0)
BY KeptSelf DEF Image

\* The n more bytes are those of the last PT_LOAD header, if there is one.
LEMMA LastOnce ==
  ASSUME NEW ls \in Seq(Phdrs), NEW i, NEW j, IsLast(ls, i), IsLast(ls, j)
  PROVE  i = j
BY DEF IsLast, Loads

LEMMA LastFound ==
  ASSUME NEW ls \in Seq(Phdrs), NEW i \in Loads(ls)
  PROVE  \E k \in Loads(ls) : IsLast(ls, k)
<1> DEFINE S == {Len(ls) - j : j \in Loads(ls)}
<1>1. Len(ls) \in Nat /\ Loads(ls) \subseteq 1..Len(ls)
  BY DEF Loads
<1>2. S \subseteq Nat /\ S # {}
  BY <1>1
<1>3. Min(S) \in S /\ \A y \in S : Min(S) <= y
  BY <1>2, LeastNat
<1>4. PICK k \in Loads(ls) : Min(S) = Len(ls) - k
  BY <1>3
<1>5. \A j \in Loads(ls) : j <= k
  <2> SUFFICES ASSUME NEW j \in Loads(ls) PROVE j <= k
    OBVIOUS
  <2>1. Len(ls) - j \in S
    OBVIOUS
  <2>2. Len(ls) - k <= Len(ls) - j
    BY <1>3, <1>4, <2>1
  <2>3. QED
    BY <1>1, <2>2
<1>6. QED
  BY <1>5 DEF IsLast

LEMMA ImageFacts ==
  ASSUME NEW ls \in Seq(Phdrs), NEW ps, NEW n, Image(ls, ps, n)
  PROVE  /\ ps \in Seq(Phdrs) /\ Len(ls) \in Nat /\ Len(ps) = Len(ls)
         /\ DOMAIN ls = 1..Len(ls) /\ DOMAIN ps = 1..Len(ls) /\ Loads(ps) = Loads(ls)
         /\ Loads(ls) \subseteq 1..Len(ls)
<1>1. ps \in Seq(Phdrs) /\ Len(ls) \in Nat /\ Len(ps) = Len(ls) /\ DOMAIN ls = 1..Len(ls) /\ DOMAIN ps = 1..Len(ls)
  BY DEF Image
<1>2. \A k \in 1..Len(ls) : ps[k].type = ls[k].type
  BY DEF Image, Kept
<1>3. QED
  BY <1>1, <1>2 DEF Loads, IsLoad

LEMMA ImageReplaced ==
  ASSUME NEW ls \in Seq(Phdrs), NEW ps, NEW n, Image(ls, ps, n),
         NEW k \in 1..Len(ls), NEW q, Kept(ls[k], q, IF IsLast(ls, k) THEN n ELSE 0)
  PROVE  Image(ls, [ps EXCEPT ![k] = q], n)
<1> DEFINE new == [ps EXCEPT ![k] = q]
<1>1. ps \in Seq(Phdrs) /\ Len(ps) = Len(ls) /\ Len(ls) \in Nat /\ q \in Phdrs
  BY ImageFacts DEF Kept
<1>2. new \in Seq(Phdrs) /\ Len(new) = Len(ls)
  BY <1>1
<1>3. new[k] = q /\ \A j \in 1..Len(ls) : j # k => new[j] = ps[j]
  BY <1>1
<1> HIDE DEF new
<1>4. \A j \in 1..Len(ls) : Kept(ls[j], new[j], IF IsLast(ls, j) THEN n ELSE 0)
  BY <1>3 DEF Image
<1>5. Image(ls, new, n)
  BY <1>2, <1>4 DEF Image
<1>6. QED
  BY <1>5 DEF new

LEMMA ImageFixed ==
  ASSUME NEW ls \in Seq(Phdrs), NEW ps, NEW n \in Nat, Image(ls, ps, n), NEW k \in Loads(ls)
  PROVE  Image(ls, Fixed(ps, k), n)
<1> DEFINE aligned == IF Cardinality(Loads(ps)) = 1 /\ ps[1].align < 4096
                        THEN [ps EXCEPT ![1].align = 4096] ELSE ps
           located == IF m.flags.a /\ aligned[k].paddr = 0
                        THEN [aligned EXCEPT ![k].paddr = aligned[k].vaddr] ELSE aligned
           grown == IF m.flags.a /\ m.first = 0 /\ MayEnlarge(located[k])
                      THEN [located EXCEPT ![k] = Enlarged(@)] ELSE located
           more(j) == IF IsLast(ls, j) THEN n ELSE 0
<1>1. /\ Len(ls) \in Nat /\ k \in 1..Len(ls) /\ 1 \in 1..Len(ls)
      /\ \A j \in 1..Len(ls) : ls[j] \in Phdrs /\ more(j) \in Nat
  BY ImageFacts DEF Loads
<1> HIDE DEF more
<1>2. Image(ls, aligned, n)
  <2> DEFINE e == IF IsLast(ls, 1) THEN n ELSE 0
  <2>1. Kept(ls[1], ps[1], e) /\ ls[1] \in Phdrs /\ e \in Nat
    BY <1>1 DEF Image
  <2> HIDE DEF e
  <2> DEFINE page == 4096
             q == [ps[1] EXCEPT !.align = page]
  <2>2. page \in Nat
    OBVIOUS
  <2> HIDE DEF page
  <2>3. Kept(ls[1], q, e)
    BY <2>1, <2>2, KeptAligned
  <2> HIDE DEF q
  <2>4. Kept(ls[1], q, IF IsLast(ls, 1) THEN n ELSE 0)
    BY <2>3 DEF e
  <2>5. Image(ls, [ps EXCEPT ![1] = q], n)
    BY <1>1, <2>4, ImageReplaced
  <2>6. aligned = ps \/ aligned = [ps EXCEPT ![1] = q]
    BY DEF q, page
  <2> HIDE DEF aligned
  <2>7. QED
    BY <2>5, <2>6
<1> HIDE DEF aligned
<1>3. Image(ls, located, n)
  <2>1. Kept(ls[k], aligned[k], more(k)) /\ aligned[k].vaddr \in Int
    BY <1>1, <1>2 DEF Image, more, Kept, Phdrs
  <2>2. Kept(ls[k], [aligned[k] EXCEPT !.paddr = aligned[k].vaddr], more(k))
    BY <1>1, <2>1, KeptLocated
  <2>3. Image(ls, [aligned EXCEPT ![k] = [aligned[k] EXCEPT !.paddr = aligned[k].vaddr]], n)
    BY <1>1, <1>2, <2>2, ImageReplaced DEF more
  <2>4. QED
    BY <1>2, <2>3
<1> HIDE DEF located
<1>4. Image(ls, grown, n)
  <2>1. Kept(ls[k], located[k], more(k))
    BY <1>1, <1>3 DEF Image, more
  <2>2. Kept(ls[k], Enlarged(located[k]), more(k))
    BY <1>1, <2>1, KeptEnlarged
  <2>3. Image(ls, [located EXCEPT ![k] = Enlarged(located[k])], n)
    BY <1>1, <1>3, <2>2, ImageReplaced DEF more
  <2>4. QED
    BY <1>3, <2>3
<1>5. QED
  BY <1>4 DEF Fixed, grown, located, aligned

LEMMA ImageShrunk ==
  ASSUME NEW ls \in Seq(Phdrs), NEW ps, NEW n \in Nat, Image(ls, ps, n), NEW k, IsLast(ls, k),
         ls[k].filesz <= ls[k].memsz
  PROVE  Image(ls, Shrunk(ps, k, n), 0)
<1> DEFINE r == [ps[k] EXCEPT !.memsz = @ - n]
           new == [ps EXCEPT ![k] = r]
<1>1. Len(ls) \in Nat /\ k \in 1..Len(ls) /\ ls[k] \in Phdrs
  BY DEF IsLast, Loads
<1>2. Kept(ls[k], ps[k], n)
  BY <1>1 DEF Image
<1>3. ps[k].memsz - ps[k].filesz >= n /\ Kept(ls[k], r, 0)
  BY <1>1, <1>2, KeptShrunk
<1>4. \A j \in 1..Len(ls) : j # k => ~IsLast(ls, j)
  BY LastOnce
<1>5. ps \in Seq(Phdrs) /\ Len(ps) = Len(ls) /\ r \in Phdrs
  BY <1>3 DEF Image, Kept
<1> HIDE DEF r
<1>6. new \in Seq(Phdrs) /\ Len(new) = Len(ls)
  BY <1>1, <1>5
<1>7. new[k] = r /\ \A j \in 1..Len(ls) : j # k => new[j] = ps[j]
  BY <1>1, <1>5
<1> HIDE DEF new
<1>8. \A j \in 1..Len(ls) : Kept(ls[j], new[j], 0)
  BY <1>3, <1>4, <1>7 DEF Image
<1>9. Image(ls, new, 0)
  BY <1>6, <1>8 DEF Image
<1>10. Shrunk(ps, k, n) = new
  BY <1>3 DEF Shrunk, new, r
<1>11. QED
  BY <1>9, <1>10

LEMMA ImageGrown ==
  ASSUME NEW ls \in Seq(Phdrs), NEW n \in Nat, NEW k, IsLast(ls, k)
  PROVE  Image(ls, [ls EXCEPT ![k].memsz = @ + n], n)
<1> DEFINE r == [ls[k] EXCEPT !.memsz = @ + n]
           new == [ls EXCEPT ![k] = r]
<1>1. Len(ls) \in Nat /\ k \in 1..Len(ls) /\ \A j \in 1..Len(ls) : ls[j] \in Phdrs
  BY DEF IsLast, Loads
<1>2. Kept(ls[k], r, n)
  BY <1>1, KeptGrown
<1>3. \A j \in 1..Len(ls) : j # k => ~IsLast(ls, j)
  BY LastOnce
<1>4. r \in Phdrs
  BY <1>2 DEF Kept
<1> HIDE DEF r
<1>5. new \in Seq(Phdrs) /\ Len(new) = Len(ls)
  BY <1>1, <1>4
<1>6. new[k] = r /\ \A j \in 1..Len(ls) : j # k => new[j] = ls[j]
  BY <1>1
<1> HIDE DEF new
<1>7. \A j \in 1..Len(ls) : Kept(ls[j], new[j], IF IsLast(ls, j) THEN n ELSE 0)
  BY <1>1, <1>2, <1>3, <1>6, KeptSelf
<1>8. Image(ls, new, n)
  BY <1>5, <1>7 DEF Image
<1>9. QED
  BY <1>8 DEF new, r

\* Only the first of the program headers have been written.
LEMMA ImageMixed ==
  ASSUME NEW ls \in Seq(Phdrs), NEW ps, NEW qs, NEW a, NEW b, Image(ls, ps, a), Image(ls, qs, b), NEW k \in Nat
  PROVE  \E n \in {a, b} : Image(ls, [i \in DOMAIN qs |-> IF i <= k THEN ps[i] ELSE qs[i]], n)
<1> DEFINE new == [i \in DOMAIN qs |-> IF i <= k THEN ps[i] ELSE qs[i]]
           n == IF \E j \in 1..k : IsLast(ls, j) THEN a ELSE b
<1>1. /\ ps \in Seq(Phdrs) /\ qs \in Seq(Phdrs) /\ Len(ls) \in Nat /\ Len(ps) = Len(ls)
      /\ DOMAIN qs = 1..Len(ls)
  BY ImageFacts
<1>2. \A i \in 1..Len(ls) : new[i] = IF i <= k THEN ps[i] ELSE qs[i]
  BY <1>1
<1>3. new \in Seq(Phdrs) /\ Len(new) = Len(ls)
  <2>1. \A i \in 1..Len(ls) : ps[i] \in Phdrs /\ qs[i] \in Phdrs
    BY <1>1, ImageFacts
  <2>2. new \in [1..Len(ls) -> Phdrs]
    BY <1>1, <2>1
  <2>3. QED
    BY <1>1, <2>2
<1> HIDE DEF new
<1>4. \A i \in 1..Len(ls) : Kept(ls[i], new[i], IF IsLast(ls, i) THEN n ELSE 0)
  <2> SUFFICES ASSUME NEW i \in 1..Len(ls)
               PROVE  Kept(ls[i], new[i], IF IsLast(ls, i) THEN n ELSE 0)
    OBVIOUS
  <2>1. Kept(ls[i], ps[i], IF IsLast(ls, i) THEN a ELSE 0) /\ Kept(ls[i], qs[i], IF IsLast(ls, i) THEN b ELSE 0)
    BY DEF Image
  <2>2. CASE i <= k
    <3>1. IsLast(ls, i) => n = a
      BY <2>2
    <3>2. QED
      BY <1>2, <2>1, <2>2, <3>1
  <2>3. CASE ~(i <= k)
    <3>1. IsLast(ls, i) => n = b
      BY <2>3, LastOnce
    <3>2. QED
      BY <1>2, <2>1, <2>3, <3>1
  <2>4. QED
    BY <2>2, <2>3
<1>5. Image(ls, new, n)
  BY <1>3, <1>4 DEF Image
<1>6. QED
  BY <1>5 DEF new

\* Without a PT_LOAD header there is no .bss.
LEMMA ImageNoLast ==
  ASSUME NEW ls, NEW ps, NEW a, NEW b, Image(ls, ps, a), \A j \in 1..Len(ls) : ~IsLast(ls, j)
  PROVE  Image(ls, ps, b)
BY DEF Image

LEMMA LinkedFacts ==
  ASSUME linked \in Files
  PROVE  /\ linked \in ElfFiles /\ linked.phdrs \in Seq(Phdrs) /\ linked.syms \in Seq(Symbols)
         /\ linked.len \in Nat /\ linked.ehdr \in Ehdrs /\ DOMAIN linked = FileFields
         /\ Len(linked.phdrs) \in Nat
<1>1. linked \in ElfFiles
  BY FilesAssumption DEF FilesAssumption
<1>2. /\ linked.phdrs \in Seq(Phdrs) /\ linked.syms \in Seq(Symbols) /\ linked.len \in Nat
      /\ linked.ehdr \in Ehdrs /\ DOMAIN linked = FileFields
  BY <1>1 DEF ElfFiles, FileFields
<1>3. Len(linked.phdrs) \in Nat
  BY <1>2
<1>4. QED
  BY <1>1, <1>2, <1>3

LEMMA SettledNotEmpty ==
  ASSUME NEW a, NEW b
  PROVE  [cmd |-> a, file |-> b] # <<>>
<1>1. "cmd" \in DOMAIN [cmd |-> a, file |-> b] /\ "cmd" \notin DOMAIN <<>>
  OBVIOUS
<1>2. QED
  BY <1>1

\* A tool that is running does not stand for the linker.
Runs == phase # "ended" /\ cmd.tool # "relink"

\* The refusals that come before every write.
Refuses(code) == code \in 1..16 \/ (cmd.tool = "elfnostack" /\ code \in 1..19)

\* What every tool that ends makes true, whatever it has written.
LEMMA EndFrame ==
  ASSUME ElfInv, NEW code \in Codes \ {Running}, Ends(code)
  PROVE  /\ ControlOK' /\ ExecVarsOK' /\ ObjVarsOK' /\ cmd' = cmd /\ linked' = linked
         /\ phase' = "ended" /\ exit' = code /\ m' = m /\ retries' = retries
<1>1. /\ cmd' = cmd /\ linked' = linked /\ phase' = "ended" /\ exit' = code /\ plan' = plan
      /\ retries' = retries /\ m' = m
  BY DEF Ends, cmd
<1>2. ControlOK
  BY DEF ElfInv, ExecInv
<1>3. ControlOK'
  BY <1>1, <1>2 DEF ControlOK, Phases
<1>4. ExecVarsOK' /\ ObjVarsOK'
  BY <1>1 DEF ExecVarsOK, ObjVarsOK, ExecPhases
<1>5. QED
  BY <1>1, <1>3, <1>4

\* A tool fails and leaves the file as it is.
LEMMA FailKeeps ==
  ASSUME ElfInv, NEW code \in Codes \ {Running, 0}, Ends(code), UNCHANGED file, FixOK',
         Shrinks(cmd) => fix' = fix, Runs, Refuses(code) => phase \in BeforeWrites
  PROVE  ElfInv'
<1> USE DEF ElfInv, ExecInv, ObjInv, Runs
<1>1. /\ ControlOK' /\ ExecVarsOK' /\ ObjVarsOK' /\ cmd' = cmd /\ linked' = linked
      /\ phase' = "ended" /\ exit' = code /\ m' = m /\ retries' = retries
  BY EndFrame
<1>2. settled' = settled /\ file' = file /\ exit' # 0
  BY <1>1 DEF Ends
<1>3. FileOK' /\ LengthOK'
  BY <1>1, <1>2 DEF FileOK, LengthOK
<1>4. SegmentsOK'
  <2>1. ~Torn /\ (FileGrown <=> Shrinks(cmd) /\ phase \in Early)
    BY DEF Torn, FileGrown
  <2>2. Image(linked.phdrs, file.phdrs, IF FileGrown THEN fix ELSE 0)
    BY <2>1 DEF SegmentsOK
  <2>3. (Torn' <=> Shrinks(cmd)) /\ ~FileGrown'
    BY <1>1, <1>2 DEF Torn, FileGrown, Early
  <2>4. CASE Shrinks(cmd)
    <3>1. Torn' /\ fix' = fix
      BY <2>3, <2>4
    <3>2. \E n \in {0, fix} : Image(linked.phdrs, file.phdrs, n)
      BY <2>2
    <3>3. QED
      BY <1>1, <1>2, <3>1, <3>2 DEF SegmentsOK
  <2>5. CASE ~Shrinks(cmd)
    BY <1>1, <1>2, <2>1, <2>2, <2>3, <2>5 DEF SegmentsOK
  <2>6. QED
    BY <2>4, <2>5
<1>5. SectionsOK'
  BY <1>1, <1>2 DEF SectionsOK, Cuts, IsExec, Flags
<1>6. UntouchedOK'
  <2>1. Base' = Base
    BY <1>1, <1>2 DEF Base
  <2>2. phase' \notin BeforeWrites
    BY <1>1 DEF BeforeWrites, Early
  <2>3. RefusedUntouched'
    <3>1. retries = 0 /\ Refuses(code) => file = Base
      BY DEF UntouchedOK
    <3>2. QED
      BY <1>1, <1>2, <3>1 DEF RefusedUntouched, Refuses, Base
  <2>4. QED
    BY <1>2, <2>2, <2>3 DEF UntouchedOK
<1>7. NamesKept(linked.shdrs, file.shdrs)' /\ StringsOK'
  BY <1>1, <1>2 DEF StringsOK
<1>8. SymbolsOK'
  BY <1>1, <1>2 DEF SymbolsOK, LastSym
<1>9. QED
  BY <1>1, <1>3, <1>4, <1>5, <1>6, <1>7, <1>8

LEMMA StopKeeps ==
  ASSUME ElfInv, NEW code \in Codes \ {Running, 0}, Stops(code), Runs,
         Refuses(code) => phase \in BeforeWrites
  PROVE  ElfInv'
<1>1. Ends(code) /\ UNCHANGED file /\ fix' = fix
  BY DEF Stops
<1>2. FixOK'
  <2>1. phase' = "ended" /\ linked' = linked
    BY <1>1 DEF Ends
  <2>2. QED
    BY <1>1, <2>1 DEF FixOK, ElfInv, ExecInv
<1>3. QED
  BY <1>1, <1>2, FailKeeps

LEMMA FailsKeep ==
  ASSUME ElfInv, NEW codes \in SUBSET (Codes \ {Running, 0}), Fails(codes), Runs,
         \A code \in codes : Refuses(code) => phase \in BeforeWrites
  PROVE  ElfInv'
BY StopKeeps DEF Fails

\* A tool succeeds.
LEMMA SuccessKeeps ==
  ASSUME ElfInv, Ends(0), UNCHANGED fix, cmd.tool # "relink", FileOK', LengthOK',
         Image(linked.phdrs, file'.phdrs, 0),
         linked.ehdr.shoff + ShdrSize * linked.ehdr.shnum <= linked.len => Sectioned(file'.ehdr, file'.len),
         NamesKept(linked.shdrs, file'.shdrs), StringsOK', SymbolsOK'
  PROVE  ElfInv'
<1> USE DEF ElfInv, ExecInv, ObjInv
<1>0. 0 \in Codes \ {Running}
  BY DEF Codes, Running
<1>1. /\ ControlOK' /\ ExecVarsOK' /\ ObjVarsOK' /\ cmd' = cmd /\ linked' = linked
      /\ phase' = "ended" /\ exit' = 0 /\ m' = m /\ retries' = retries
  BY <1>0, EndFrame
<1>2. FixOK'
  BY <1>1 DEF FixOK
<1>3. SegmentsOK'
  <2>1. ~Torn' /\ ~FileGrown'
    BY <1>1 DEF Torn, FileGrown, Early
  <2>2. QED
    BY <1>1, <2>1 DEF SegmentsOK
<1>4. SectionsOK'
  BY <1>1 DEF SectionsOK
<1>5. UntouchedOK'
  <2>1. settled' = [cmd |-> cmd, file |-> file']
    BY DEF Ends
  <2>2. settled' # <<>> /\ settled'.file = file'
    BY <2>1, SettledNotEmpty
  <2>3. Base' = file'
    BY <2>2 DEF Base
  <2>4. RefusedUntouched' /\ phase' \notin BeforeWrites
    BY <1>1 DEF RefusedUntouched, BeforeWrites, Early
  <2>5. QED
    BY <2>3, <2>4 DEF UntouchedOK
<1>6. QED
  BY <1>1, <1>2, <1>3, <1>4, <1>5

\* A tool succeeds without a change of the file.
LEMMA StopZeroKeeps ==
  ASSUME ElfInv, Stops(0), Runs, ~Cuts, ~Shrinks(cmd),
         cmd.tool = "elfnostack" => \A i \in DOMAIN linked.shstr : file.shstr[i] # NoteStack,
         cmd.tool = "elfofix" /\ m.flags.w => Woven(linked.syms, file.syms, LastSym)
  PROVE  ElfInv'
<1> USE DEF ElfInv, ExecInv, ObjInv, Runs
<1>1. Ends(0) /\ file' = file /\ UNCHANGED fix
  BY DEF Stops
<1>2. linked' = linked /\ phase' = "ended" /\ exit' = 0 /\ m' = m /\ cmd' = cmd
  BY <1>1 DEF Ends, cmd
<1>3. FileOK' /\ LengthOK' /\ NamesKept(linked.shdrs, file'.shdrs)
  BY <1>1, <1>2 DEF FileOK, LengthOK
<1>4. Image(linked.phdrs, file'.phdrs, 0)
  <2>1. ~Torn /\ ~FileGrown
    BY DEF Torn, FileGrown
  <2>2. QED
    BY <1>1, <2>1 DEF SegmentsOK
<1>5. linked.ehdr.shoff + ShdrSize * linked.ehdr.shnum <= linked.len => Sectioned(file'.ehdr, file'.len)
  BY <1>1 DEF SectionsOK
<1>6. StringsOK' /\ SymbolsOK'
  BY <1>1, <1>2 DEF StringsOK, SymbolsOK, LastSym
<1>7. QED
  BY <1>1, <1>3, <1>4, <1>5, <1>6, SuccessKeeps

\* A tool goes on.
Going(next) ==
  /\ next \in Phases \ {"start", "ended"}
  /\ next \in BeforeWrites => phase \in BeforeWrites
  /\ Shrinks(cmd) => (next \in Early <=> phase \in Early)

LEMMA GotoKeeps ==
  ASSUME ElfInv, NEW next, Goto(next), UNCHANGED file, Runs, Going(next), ExecVarsOK', ObjVarsOK'
  PROVE  ElfInv'
<1> USE DEF ElfInv, ExecInv, ObjInv, Runs, Going
<1>1. /\ cmd' = cmd /\ linked' = linked /\ phase' = next /\ exit' = exit /\ plan' = plan
      /\ retries' = retries /\ fix' = fix /\ settled' = settled /\ file' = file
  BY DEF Goto, cmd
<1>2. ControlOK'
  BY <1>1 DEF ControlOK
<1>3. FileOK' /\ LengthOK' /\ NamesKept(linked.shdrs, file.shdrs)'
  BY <1>1 DEF FileOK, LengthOK
<1>4. FixOK'
  BY <1>1 DEF FixOK
<1>5. SegmentsOK'
  <2>1. ~Torn /\ ~Torn' /\ (FileGrown <=> FileGrown')
    BY <1>1 DEF Torn, FileGrown
  <2>2. QED
    BY <1>1, <2>1 DEF SegmentsOK
<1>6. SectionsOK'
  BY <1>1 DEF SectionsOK, Cuts, IsExec, Flags
<1>7. UntouchedOK'
  BY <1>1 DEF UntouchedOK, RefusedUntouched, Base
<1>8. StringsOK'
  BY <1>1 DEF StringsOK
<1>9. SymbolsOK'
  <2>1. phase # "ended" /\ phase' # "ended"
    BY <1>1
  <2>2. QED
    BY <1>1, <2>1 DEF SymbolsOK, LastSym
<1>10. QED
  BY <1>2, <1>3, <1>4, <1>5, <1>6, <1>7, <1>8, <1>9

-----------------------------------------------------------------------------
(* The beginning of every tool. *)

LEMMA GotoFrame ==
  ASSUME NEW next, Goto(next)
  PROVE  /\ cmd' = cmd /\ linked' = linked /\ phase' = next /\ exit' = exit /\ plan' = plan
         /\ retries' = retries /\ fix' = fix /\ settled' = settled
         /\ (IsExec' <=> IsExec) /\ Flags' = Flags /\ (Shrinks(cmd)' <=> Shrinks(cmd))
BY DEF Goto, cmd, IsExec, Flags

\* The variables of the other kind of tools do not matter.
LEMMA ExecNotObj ==
  ASSUME IsExec, cmd' = cmd
  PROVE  ObjVarsOK'
BY DEF IsExec, ObjVarsOK

LEMMA ObjNotExec ==
  ASSUME ~IsExec, cmd' = cmd
  PROVE  ExecVarsOK'
<1>1. ~IsExec'
  BY DEF IsExec
<1>2. QED
  BY <1>1 DEF ExecVarsOK

LEMMA StartKeeps ==
  ASSUME ElfInv, phase = "start", cmd.tool \in {"sstrip", "elfxfix", "elfofix"}, NEW parsed,
         Starts(parsed), IsExec => parsed = Flags
  PROVE  ElfInv'
<1>1. Runs
  BY DEF Runs
<1>2. CASE parsed = <<>>
  <2>1. Stops(1) /\ phase \in BeforeWrites
    BY <1>2 DEF Starts, BeforeWrites, Early
  <2>2. 1 \in Codes \ {Running, 0}
    BY DEF Codes, Running
  <2>3. QED
    BY <1>1, <2>1, <2>2, StopKeeps
<1>3. CASE parsed # <<>>
  <2>1. Goto("header") /\ m' = [flags |-> parsed] /\ UNCHANGED file
    BY <1>3 DEF Starts
  <2>2. /\ cmd' = cmd /\ phase' = "header" /\ (IsExec' <=> IsExec) /\ Flags' = Flags
    BY <2>1, GotoFrame
  <2>3. m'.flags = parsed /\ DOMAIN m' = {"flags"}
    BY <2>1
  <2>4. Going("header")
    BY DEF Going, Phases, BeforeWrites, Early
  <2>5. ExecVarsOK'
    BY <1>3, <2>2, <2>3 DEF ExecVarsOK, ExecPhases
  <2>6. ObjVarsOK'
    BY <2>2, <2>3 DEF ObjVarsOK
  <2>7. QED
    BY <1>1, <2>1, <2>4, <2>5, <2>6, GotoKeeps
<1>4. QED
  BY <1>2, <1>3

\* Where the tools go on when they have read the header.
AfterHeader ==
  CASE IsExec                  -> "osabi"
    [] cmd.tool = "elfofix"    -> "shdrs"
    [] cmd.tool = "elfnostack" -> "shstrtab"

LEMMA HeaderKeeps ==
  ASSUME ElfInv, phase = "header", IsExec \/ cmd.tool \in {"elfofix", "elfnostack"},
         NEW type, ReadHeader(type, AfterHeader)
  PROVE  ElfInv'
<1> DEFINE next == AfterHeader
<1>1. Runs /\ phase \in BeforeWrites
  BY DEF Runs, IsExec, BeforeWrites, Early
<1>2. CASE Fails({2, 3})
  <2>1. {2, 3} \in SUBSET (Codes \ {Running, 0})
    BY DEF Codes, Running
  <2>2. QED
    BY <1>1, <1>2, <2>1, FailsKeep
<1>3. CASE FirstFailure(HeaderChecks(type)) # 0 /\ ~Fails({2, 3})
  <2> DEFINE code == FirstFailure(HeaderChecks(type))
  <2>1. code \in {3, 4, 5, 6, 7, 8} /\ Stops(code)
    BY <1>3, HeaderCode DEF ReadHeader, Checked
  <2> HIDE DEF code
  <2>2. code \in Codes \ {Running, 0}
    BY <2>1 DEF Codes, Running
  <2>3. QED
    BY <1>1, <2>1, <2>2, StopKeeps
<1>4. CASE FirstFailure(HeaderChecks(type)) = 0 /\ ~Fails({2, 3})
  <2>1. Goto(next) /\ m' = [flags |-> m.flags, ehdr |-> file.ehdr] /\ UNCHANGED file
    BY <1>4 DEF ReadHeader, Checked
  <2>2. /\ cmd' = cmd /\ phase' = next /\ (IsExec' <=> IsExec) /\ Flags' = Flags
    BY <2>1, GotoFrame
  <2>3. DOMAIN m' = {"flags", "ehdr"} /\ m'.flags = m.flags /\ m'.ehdr = file.ehdr
    BY <2>1
  <2>4. /\ IsExec => next = "osabi"
        /\ cmd.tool = "elfofix" => next = "shdrs"
        /\ cmd.tool = "elfnostack" => next = "shstrtab"
    BY DEF AfterHeader, IsExec
  <2> HIDE DEF next
  <2>5. Going(next)
    BY <1>1, <2>4 DEF Going, Phases, BeforeWrites, Early, IsExec, Shrinks
  <2>6. ExecVarsOK'
    <3>1. CASE IsExec
      <4>1. m.flags = Flags /\ Flags # <<>> /\ EhdrOK(file.ehdr) /\ file' = file
        BY <2>1, <3>1 DEF ElfInv, ExecInv, ExecVarsOK, FileOK
      <4>2. phase' = "osabi"
        BY <2>2, <2>4, <3>1
      <4>3. QED
        BY <2>2, <2>3, <3>1, <4>1, <4>2 DEF ExecVarsOK, ExecPhases
    <3>2. QED
      BY <2>2, <3>1, ObjNotExec
  <2>7. ObjVarsOK'
    BY <2>2, <2>3, <2>4 DEF ObjVarsOK, IsExec
  <2>8. QED
    BY <1>1, <2>1, <2>5, <2>6, <2>7, GotoKeeps DEF next
<1>5. QED
  BY <1>2, <1>3, <1>4

-----------------------------------------------------------------------------
(* Executables: what comes before the program headers. *)

\* What is known of the header that the tool has read.
LEMMA EhdrRead ==
  ASSUME ElfInv, IsExec, phase \in ExecPhases
  PROVE  /\ Runs /\ m.flags = Flags /\ Flags # <<>> /\ EhdrOK(m.ehdr) /\ EhdrOK(file.ehdr)
         /\ DOMAIN file = FileFields
<1>1. Runs
  BY DEF Runs, IsExec, ExecPhases
<1>2. QED
  BY <1>1 DEF ElfInv, ExecInv, ExecVarsOK, FileOK, ExecPhases

LEMMA OsabiSet ==
  ASSUME NEW e, EhdrOK(e), NEW v
  PROVE  /\ EhdrOK([e EXCEPT !.osabi = v])
         /\ [e EXCEPT !.osabi = v].shnum = e.shnum /\ [e EXCEPT !.osabi = v].shoff = e.shoff
         /\ [e EXCEPT !.osabi = v].phnum = e.phnum /\ [e EXCEPT !.osabi = v].phoff = e.phoff
<1> DEFINE r == [e EXCEPT !.osabi = v]
<1>1. /\ DOMAIN r = EhdrFields /\ r.shnum = e.shnum /\ r.shoff = e.shoff /\ r.phnum = e.phnum
      /\ r.phoff = e.phoff
  BY DEF EhdrOK, EhdrFields
<1> HIDE DEF r
<1>2. EhdrOK(r)
  BY <1>1 DEF EhdrOK
<1>3. QED
  BY <1>1, <1>2 DEF r

LEMMA EntsizeSet ==
  ASSUME NEW e, EhdrOK(e), NEW v
  PROVE  /\ EhdrOK([e EXCEPT !.shentsize = v])
         /\ [e EXCEPT !.shentsize = v].shnum = e.shnum /\ [e EXCEPT !.shentsize = v].shoff = e.shoff
<1> DEFINE r == [e EXCEPT !.shentsize = v]
<1>1. /\ DOMAIN r = EhdrFields /\ r.shnum = e.shnum /\ r.shoff = e.shoff /\ r.phnum = e.phnum
      /\ r.phoff = e.phoff
  BY DEF EhdrOK, EhdrFields
<1> HIDE DEF r
<1>2. EhdrOK(r)
  BY <1>1 DEF EhdrOK
<1>3. QED
  BY <1>1, <1>2 DEF r

\* From the OSABI to the program headers.
LEMMA OsabiPasses ==
  ASSUME ElfInv, IsExec, phase = "osabi", Goto("phdrs"), UNCHANGED file,
         NEW v, m' = [m EXCEPT !.ehdr.osabi = v]
  PROVE  ElfInv'
<1> DEFINE e == [m.ehdr EXCEPT !.osabi = v]
<1>0. phase \in ExecPhases
  BY DEF ExecPhases
<1>1. Runs /\ m.flags = Flags /\ Flags # <<>> /\ EhdrOK(m.ehdr)
  BY <1>0, EhdrRead
<1>2. DOMAIN m = {"flags", "ehdr"} /\ m.ehdr.shnum = file.ehdr.shnum /\ m.ehdr.shoff = file.ehdr.shoff
  BY <1>0 DEF ElfInv, ExecInv, ExecVarsOK
<1>3. m' = [m EXCEPT !.ehdr = e]
  OBVIOUS
<1>4. EhdrOK(e) /\ e.shnum = m.ehdr.shnum /\ e.shoff = m.ehdr.shoff
  BY <1>1, OsabiSet
<1> HIDE DEF e
<1>5. m'.flags = m.flags /\ m'.ehdr = e /\ DOMAIN m' = {"flags", "ehdr"}
  BY <1>2, <1>3
<1>6. cmd' = cmd /\ phase' = "phdrs" /\ (IsExec' <=> IsExec) /\ Flags' = Flags
  BY GotoFrame
<1>7. ExecVarsOK'
  BY <1>1, <1>2, <1>4, <1>5, <1>6 DEF ExecVarsOK, ExecPhases
<1>8. Going("phdrs") /\ ObjVarsOK'
  BY <1>6, ExecNotObj DEF Going, Phases, BeforeWrites, Early
<1>9. QED
  BY <1>1, <1>7, <1>8, GotoKeeps

\* The OSABI is all that the tool writes.
LEMMA OsabiWritten ==
  ASSUME ElfInv, IsExec, phase = "osabi", ~Cuts, ~Shrinks(cmd),
         NEW v, file' = [file EXCEPT !.ehdr.osabi = v], Ends(0), UNCHANGED fix
  PROVE  ElfInv'
<1> DEFINE e == [file.ehdr EXCEPT !.osabi = v]
<1>0. phase \in ExecPhases
  BY DEF ExecPhases
<1>1. Runs /\ EhdrOK(file.ehdr) /\ DOMAIN file = FileFields
  BY <1>0, EhdrRead
<1>2. EhdrOK(e) /\ e.shnum = file.ehdr.shnum /\ e.shoff = file.ehdr.shoff
  BY <1>1, OsabiSet
<1>3. file' = [file EXCEPT !.ehdr = e]
  OBVIOUS
<1> HIDE DEF e
<1>4. /\ DOMAIN file' = FileFields /\ file'.ehdr = e /\ file'.len = file.len /\ file'.phdrs = file.phdrs
      /\ file'.shdrs = file.shdrs /\ file'.shstr = file.shstr /\ file'.syms = file.syms
  BY <1>1, <1>3 DEF FileFields
<1>5. cmd' = cmd /\ linked' = linked /\ phase' = "ended" /\ exit' = 0 /\ m' = m
  BY DEF Ends, cmd
<1>6. FileOK'
  BY <1>2, <1>4 DEF FileOK
<1>7. LengthOK'
  BY <1>4, <1>5 DEF LengthOK, ElfInv, ExecInv
<1>8. Image(linked.phdrs, file'.phdrs, 0)
  <2>1. ~Torn /\ ~FileGrown
    BY DEF Torn, FileGrown
  <2>2. QED
    BY <1>4, <2>1 DEF SegmentsOK, ElfInv, ExecInv
<1>9. linked.ehdr.shoff + ShdrSize * linked.ehdr.shnum <= linked.len => Sectioned(file'.ehdr, file'.len)
  <2>1. linked.ehdr.shoff + ShdrSize * linked.ehdr.shnum <= linked.len => Sectioned(file.ehdr, file.len)
    BY DEF SectionsOK, ElfInv, ExecInv
  <2>2. QED
    BY <1>2, <1>4, <2>1 DEF Sectioned
<1>10. NamesKept(linked.shdrs, file'.shdrs)
  BY <1>4 DEF ElfInv, ObjInv
<1>11. StringsOK' /\ SymbolsOK'
  BY <1>4, <1>5 DEF ElfInv, ObjInv, StringsOK, SymbolsOK, LastSym, IsExec
<1>12. QED
  BY <1>1, <1>6, <1>7, <1>8, <1>9, <1>10, <1>11, SuccessKeeps DEF Runs

LEMMA SstripOsabiKeeps ==
  ASSUME ElfInv, SstripOsabi
  PROVE  ElfInv'
<1>1. phase = "osabi" /\ cmd.tool = "sstrip" /\ IsExec /\ phase \in ExecPhases /\ ~Shrinks(cmd)
  BY DEF SstripOsabi, At, IsExec, ExecPhases, Shrinks
<1>2. Runs /\ m.flags = Flags
  BY <1>1, EhdrRead
<1>3. CASE m.flags.a \/ m.flags.s
  <2> DEFINE v == IF m.flags.l THEN ELFOSABI_LINUX ELSE m.ehdr.osabi
  <2>1. Goto("phdrs") /\ UNCHANGED file /\ m' = [m EXCEPT !.ehdr.osabi = v]
    BY <1>3 DEF SstripOsabi
  <2> HIDE DEF v
  <2>2. QED
    BY <1>1, <2>1, OsabiPasses
<1>4. CASE ~(m.flags.a \/ m.flags.s)
  <2>1. ~Cuts
    BY <1>2, <1>4 DEF Cuts
  <2>2. CASE Stops(0)
    <3>1. QED
      BY <1>1, <1>2, <2>1, <2>2, StopZeroKeeps
  <2>3. CASE Fails({9, 10})
    <3>1. {9, 10} \in SUBSET (Codes \ {Running, 0}) /\ phase \in BeforeWrites
      BY <1>1 DEF Codes, Running, BeforeWrites, Early
    <3>2. QED
      BY <1>2, <2>3, <3>1, FailsKeep
  <2>4. ASSUME NEW byte \in Garbage, file' = [file EXCEPT !.ehdr.osabi = byte], Ends(0), UNCHANGED fix
        PROVE  ElfInv'
    BY <1>1, <2>1, <2>4, OsabiWritten
  <2>5. QED
    BY <1>4, <2>2, <2>3, <2>4 DEF SstripOsabi
<1>5. QED
  BY <1>3, <1>4

LEMMA ElfxfixOsabiKeeps ==
  ASSUME ElfInv, ElfxfixOsabi
  PROVE  ElfInv'
<1> DEFINE differs == m.flags.osabi \notin {KeepOsabi, m.ehdr.osabi}
           alone == differs /\ ~m.flags.s /\ ~m.flags.a /\ ~m.flags.p
<1>1. phase = "osabi" /\ cmd.tool = "elfxfix" /\ IsExec /\ phase \in ExecPhases
  BY DEF ElfxfixOsabi, At, IsExec, ExecPhases
<1>2. Runs /\ m.flags = Flags /\ Flags = ElfxfixFlags(cmd.args)
  BY <1>1, EhdrRead DEF Flags
<1>3. CASE alone
  <2>1. ~Cuts
    BY <1>2, <1>3 DEF Cuts
  <2>2. ~Shrinks(cmd)
    <3>1. InOrder(plan)
      BY DEF ElfInv, ExecInv, ControlOK
    <3>2. QED
      BY <1>2, <1>3, <3>1, CmdFacts
  <2>3. CASE Fails({9, 10})
    <3>1. {9, 10} \in SUBSET (Codes \ {Running, 0}) /\ phase \in BeforeWrites
      BY <1>1 DEF Codes, Running, BeforeWrites, Early
    <3>2. QED
      BY <1>2, <2>3, <3>1, FailsKeep
  <2>4. CASE file' = [file EXCEPT !.ehdr.osabi = m.flags.osabi] /\ Ends(0) /\ UNCHANGED fix
    BY <1>1, <2>1, <2>2, <2>4, OsabiWritten
  <2>5. QED
    BY <1>3, <2>3, <2>4 DEF ElfxfixOsabi
<1>4. CASE ~alone
  <2> DEFINE v == IF differs THEN m.flags.osabi ELSE m.ehdr.osabi
  <2>1. Goto("phdrs") /\ UNCHANGED file /\ m' = [m EXCEPT !.ehdr.osabi = v]
    BY <1>4 DEF ElfxfixOsabi
  <2> HIDE DEF v
  <2>2. QED
    BY <1>1, <2>1, OsabiPasses
<1>5. QED
  BY <1>3, <1>4

-----------------------------------------------------------------------------
(* Executables: the loop over the program headers. *)

LEMMA PhdrsKeeps ==
  ASSUME ElfInv, IsExec, phase = "phdrs", NEW e, EhdrOK(e), e.shnum = m.ehdr.shnum,
         e.shoff = m.ehdr.shoff, ReadPhdrs(e)
  PROVE  ElfInv'
<1>0. phase \in ExecPhases /\ phase \in BeforeWrites
  BY DEF ExecPhases, BeforeWrites, Early
<1>1. Runs /\ m.flags = Flags /\ Flags # <<>>
  BY <1>0, EhdrRead
<1>2. CASE Fails({15, 16})
  <2>1. {15, 16} \in SUBSET (Codes \ {Running, 0})
    BY DEF Codes, Running
  <2>2. QED
    BY <1>0, <1>1, <1>2, <2>1, FailsKeep
<1>3. CASE FirstFailure(PhdrChecks) # 0 /\ ~Fails({15, 16})
  <2> DEFINE code == FirstFailure(PhdrChecks)
  <2>1. code \in {11, 12, 13, 14, 16} /\ Stops(code)
    BY <1>3, PhdrCode DEF ReadPhdrs, Checked
  <2> HIDE DEF code
  <2>2. code \in Codes \ {Running, 0}
    BY <2>1 DEF Codes, Running
  <2>3. QED
    BY <1>0, <1>1, <2>1, <2>2, StopKeeps
<1>4. CASE FirstFailure(PhdrChecks) = 0 /\ ~Fails({15, 16})
  <2> DEFINE end == e.phoff + PhdrSize * e.phnum
  <2>1. /\ Goto("loop") /\ UNCHANGED file
        /\ m' = [flags |-> m.flags, ehdr |-> e, phdrs |-> file.phdrs, k |-> 1, first |-> 0,
                 changed |-> FALSE, last_off |-> end]
    BY <1>4 DEF ReadPhdrs, Checked
  <2>2. /\ cmd' = cmd /\ linked' = linked /\ phase' = "loop" /\ (IsExec' <=> IsExec) /\ Flags' = Flags
        /\ fix' = fix /\ (Shrinks(cmd)' <=> Shrinks(cmd)) /\ file' = file
    BY <2>1, GotoFrame
  <2>3. end \in Nat
    BY DEF EhdrOK, PhdrSize
  <2> HIDE DEF end
  <2>4. /\ DOMAIN m' = LoopFields /\ m'.flags = m.flags /\ m'.ehdr = e /\ m'.phdrs = file.phdrs
        /\ m'.k = 1 /\ m'.first = 0 /\ m'.last_off = end
    BY <2>1 DEF LoopFields
  <2>5. /\ linked.phdrs \in Seq(Phdrs) /\ Len(linked.phdrs) \in Nat
        /\ Loads(linked.phdrs) \subseteq 1..Len(linked.phdrs)
    BY LinkedFacts DEF ElfInv, ExecInv, ControlOK, Loads
  <2>6. Image(linked.phdrs, file.phdrs, IF BssAhead' THEN fix ELSE 0)
    <3>1. Image(linked.phdrs, file.phdrs, IF Shrinks(cmd) THEN fix ELSE 0)
      <4>1. ~Torn /\ (FileGrown <=> Shrinks(cmd))
        BY <1>1 DEF Torn, FileGrown, Early, Runs
      <4>2. QED
        BY <4>1 DEF ElfInv, ExecInv, SegmentsOK
    <3>2. CASE \E j \in 1..Len(linked.phdrs) : IsLast(linked.phdrs, j)
      <4>1. BssAhead' <=> Shrinks(cmd)
        BY <2>2, <2>4, <2>5, <3>2 DEF BssAhead
      <4>2. QED
        BY <3>1, <4>1
    <3>3. CASE ~(\E j \in 1..Len(linked.phdrs) : IsLast(linked.phdrs, j))
      BY <3>1, <3>3, ImageNoLast
    <3>4. QED
      BY <3>2, <3>3
  <2>7. 1 \in 1..Len(linked.phdrs) + 1 /\ \A j \in Loads(linked.phdrs) : 1 <= j
    BY <2>5
  <2>8. Reaches(linked.phdrs, end, 1)
    BY <2>5 DEF Reaches
  <2>9. LoopOK'
    BY <2>2, <2>3, <2>4, <2>6, <2>7, <2>8 DEF LoopOK
  <2>10. e.shnum = file.ehdr.shnum /\ e.shoff = file.ehdr.shoff
    BY <1>0 DEF ElfInv, ExecInv, ExecVarsOK
  <2>11. ExecVarsOK'
    BY <1>1, <2>2, <2>4, <2>9, <2>10 DEF ExecVarsOK, ExecPhases
  <2>12. Going("loop") /\ ObjVarsOK'
    BY <2>2, ExecNotObj DEF Going, Phases, BeforeWrites, Early
  <2>13. QED
    BY <1>1, <2>1, <2>11, <2>12, GotoKeeps
<1>5. QED
  BY <1>2, <1>3, <1>4

LEMMA LoopFacts ==
  ASSUME ElfInv, IsExec, phase \in {"loop", "write_phdrs", "truncate", "write_ehdr"}
  PROVE  /\ LoopOK /\ Runs /\ m.flags = Flags /\ Flags # <<>> /\ EhdrOK(m.ehdr)
         /\ linked.phdrs \in Seq(Phdrs) /\ Len(linked.phdrs) \in Nat /\ fix \in Nat
         /\ Len(m.phdrs) = Len(linked.phdrs) /\ Loads(m.phdrs) = Loads(linked.phdrs)
         /\ DOMAIN m.phdrs = 1..Len(linked.phdrs)
         /\ Loads(linked.phdrs) \subseteq 1..Len(linked.phdrs)
<1>1. phase \in ExecPhases
  BY DEF ExecPhases
<1>2. LoopOK /\ Runs /\ m.flags = Flags /\ Flags # <<>> /\ EhdrOK(m.ehdr)
  BY <1>1, EhdrRead DEF ElfInv, ExecInv, ExecVarsOK
<1>3. linked.phdrs \in Seq(Phdrs) /\ Len(linked.phdrs) \in Nat /\ fix \in Nat
  BY LinkedFacts DEF ElfInv, ExecInv, ControlOK, FixOK
<1>4. Image(linked.phdrs, m.phdrs, IF BssAhead THEN fix ELSE 0)
  BY <1>2 DEF LoopOK
<1>5. QED
  BY <1>2, <1>3, <1>4, ImageFacts

LEMMA LoopEndsKeeps ==
  ASSUME ElfInv, IsExec, phase = "loop", LoopEnds
  PROVE  ElfInv'
<1>1. LoopOK /\ Runs /\ m.flags = Flags /\ Flags # <<>> /\ Len(m.phdrs) = Len(linked.phdrs)
  BY LoopFacts
<1>2. Goto("write_phdrs") /\ m' = m /\ file' = file /\ m.k > Len(m.phdrs)
  BY DEF LoopEnds
<1>3. /\ cmd' = cmd /\ linked' = linked /\ phase' = "write_phdrs" /\ (IsExec' <=> IsExec)
      /\ Flags' = Flags /\ fix' = fix
  BY <1>2, GotoFrame
<1>4. BssAhead' <=> BssAhead
  BY <1>2, <1>3 DEF BssAhead
<1>5. LoopOK'
  BY <1>1, <1>2, <1>3, <1>4 DEF LoopOK
<1>6. ExecVarsOK'
  BY <1>1, <1>2, <1>3, <1>5 DEF ElfInv, ExecInv, ExecVarsOK, ExecPhases
<1>7. Going("write_phdrs") /\ ObjVarsOK'
  BY <1>3, ExecNotObj DEF Going, Phases, BeforeWrites, Early
<1>8. QED
  BY <1>1, <1>2, <1>6, <1>7, GotoKeeps

\* The loop goes on.
LEMMA LoopKeeps ==
  ASSUME ElfInv, IsExec, phase = "loop",
         UNCHANGED <<linked, file, plan, phase, exit, settled, retries>>,
         FixOK', Shrinks(cmd) => fix' = fix, LoopOK', m'.flags = m.flags, m'.ehdr = m.ehdr
  PROVE  ElfInv'
<1> USE DEF ElfInv, ExecInv, ObjInv
<1>1. /\ cmd' = cmd /\ linked' = linked /\ phase' = "loop" /\ file' = file /\ exit' = exit
      /\ settled' = settled /\ retries' = retries /\ plan' = plan /\ (IsExec' <=> IsExec) /\ Flags' = Flags
  BY DEF cmd, IsExec, Flags
<1>2. ControlOK' /\ FileOK' /\ LengthOK' /\ NamesKept(linked.shdrs, file.shdrs)'
  BY <1>1 DEF ControlOK, FileOK, LengthOK
<1>3. SegmentsOK'
  <2>1. ~Torn /\ ~Torn' /\ (FileGrown <=> FileGrown')
    BY <1>1 DEF Torn, FileGrown
  <2>2. (IF FileGrown' THEN fix' ELSE 0) = IF FileGrown THEN fix ELSE 0
    BY <1>1, <2>1 DEF FileGrown
  <2>3. QED
    BY <1>1, <2>1, <2>2 DEF SegmentsOK
<1>4. SectionsOK'
  BY <1>1 DEF SectionsOK, Cuts
<1>5. UntouchedOK'
  BY <1>1 DEF UntouchedOK, RefusedUntouched, Base
<1>6. StringsOK'
  BY <1>1 DEF StringsOK
<1>7. SymbolsOK'
  BY <1>1 DEF SymbolsOK, LastSym
<1>8. ExecVarsOK'
  BY <1>1 DEF ExecVarsOK, ExecPhases
<1>9. ObjVarsOK'
  BY <1>1, ExecNotObj
<1>10. QED
  BY <1>2, <1>3, <1>4, <1>5, <1>6, <1>7, <1>8, <1>9

\* Is the last PT_LOAD header still to come?
Ahead(ls, k) == \E j \in 1..Len(ls) : IsLast(ls, j) /\ k <= j

LEMMA AheadNext ==
  ASSUME NEW ls \in Seq(Phdrs), NEW k \in Nat, ~IsLast(ls, k)
  PROVE  Ahead(ls, k + 1) <=> Ahead(ls, k)
<1>1. \A j \in 1..Len(ls) : IsLast(ls, j) => (k <= j <=> k + 1 <= j)
  <2> SUFFICES ASSUME NEW j \in 1..Len(ls), IsLast(ls, j) PROVE k <= j <=> k + 1 <= j
    OBVIOUS
  <2>1. j # k
    OBVIOUS
  <2>2. QED
    BY <2>1
<1>2. QED
  BY <1>1 DEF Ahead

LEMMA AheadNever ==
  ASSUME NEW ls \in Seq(Phdrs), NEW k, IsLast(ls, k)
  PROVE  ~Ahead(ls, k + 1)
<1> SUFFICES ASSUME NEW j \in 1..Len(ls), IsLast(ls, j), k + 1 <= j PROVE FALSE
  BY DEF Ahead
<1>1. j = k /\ j \in Nat
  BY LastOnce
<1>2. QED
  BY <1>1

LEMMA LoopSkipsKeeps ==
  ASSUME ElfInv, IsExec, phase = "loop", LoopSkips
  PROVE  ElfInv'
<1> DEFINE ls == linked.phdrs
           n == m.k + 1
<1>1. /\ LoopOK /\ ls \in Seq(Phdrs) /\ Len(ls) \in Nat /\ Len(m.phdrs) = Len(ls)
      /\ Loads(m.phdrs) = Loads(ls) /\ Loads(ls) \subseteq 1..Len(ls) /\ DOMAIN m.phdrs = 1..Len(ls)
  BY LoopFacts
<1>2. m' = [m EXCEPT !.k = n] /\ m.k <= Len(ls) /\ ~IsLoad(m.phdrs[m.k])
  BY <1>1 DEF LoopSkips
<1>3. m.k \in 1..Len(ls) /\ m.k \in Nat /\ DOMAIN m = LoopFields
  BY <1>1, <1>2 DEF LoopOK
<1>4. m.k \notin Loads(ls)
  BY <1>1, <1>2 DEF Loads
<1>5. n \in 1..Len(ls) + 1 /\ \A j \in Loads(ls) : (m.k <= j <=> n <= j) /\ (j < m.k <=> j < n)
  <2>1. \A j \in Loads(ls) : j \in Nat /\ j # m.k
    BY <1>1, <1>4
  <2>2. QED
    BY <1>1, <1>3, <2>1
<1>6. Ahead(ls, n) <=> Ahead(ls, m.k)
  BY <1>1, <1>3, <1>4, AheadNext DEF IsLast
<1> HIDE DEF n
<1>7. /\ DOMAIN m' = LoopFields /\ m'.k = n /\ m'.flags = m.flags /\ m'.ehdr = m.ehdr /\ m'.phdrs = m.phdrs
      /\ m'.first = m.first /\ m'.changed = m.changed /\ m'.last_off = m.last_off
  BY <1>2, <1>3 DEF LoopFields
<1>8. /\ cmd' = cmd /\ linked' = linked /\ phase' = phase /\ file' = file /\ fix' = fix
  BY DEF LoopSkips, cmd
<1>9. BssAhead' <=> BssAhead
  BY <1>6, <1>7, <1>8 DEF BssAhead, Ahead
<1>10. Reaches(ls, m.last_off, m.k) => Reaches(ls, m.last_off, n)
  BY <1>5 DEF Reaches
<1>11. IF m.first = 0 THEN \A j \in Loads(ls) : n <= j ELSE m.first \in Loads(ls) /\ m.first < n
  BY <1>1, <1>5 DEF LoopOK
<1>12. LoopOK'
  BY <1>1, <1>5, <1>7, <1>8, <1>9, <1>10, <1>11 DEF LoopOK
<1>13. FixOK'
  BY <1>8 DEF FixOK, ElfInv, ExecInv
<1>14. QED
  BY <1>7, <1>8, <1>12, <1>13, LoopKeeps DEF LoopSkips

\* What the loop's body leaves in the tool's variables, v.
BodyDone(v) ==
  /\ DOMAIN v = LoopFields /\ v.flags = m.flags /\ v.ehdr = m.ehdr
  /\ v.k = m.k + 1
  /\ v.first = IF m.first = 0 THEN m.k ELSE m.first
  /\ v.changed \/ v.phdrs = file.phdrs
  /\ v.last_off = IF m.flags.s THEN Larger(m.last_off, LoadedEnd(Fixed(m.phdrs, m.k)[m.k]))
                  ELSE m.last_off
  /\ Image(linked.phdrs, v.phdrs, IF Shrinks(cmd) /\ Ahead(linked.phdrs, m.k + 1) THEN fix ELSE 0)

\* The tool is at a PT_LOAD header.
AtLoad == m.k <= Len(m.phdrs) /\ IsLoad(m.phdrs[m.k])

LEMMA LoadFacts ==
  ASSUME ElfInv, IsExec, phase = "loop", AtLoad
  PROVE  /\ m.k \in Loads(linked.phdrs) /\ m.k \in 1..Len(linked.phdrs) /\ m.k \in Nat
         /\ \A n \in Nat : Image(linked.phdrs, m.phdrs, n) => Image(linked.phdrs, Fixed(m.phdrs, m.k), n)
<1>1. /\ LoopOK /\ linked.phdrs \in Seq(Phdrs) /\ Len(linked.phdrs) \in Nat
      /\ Len(m.phdrs) = Len(linked.phdrs)
      /\ Loads(m.phdrs) = Loads(linked.phdrs) /\ DOMAIN m.phdrs = 1..Len(linked.phdrs)
  BY LoopFacts
<1>2. m.k \in 1..Len(linked.phdrs) + 1 /\ m.k <= Len(linked.phdrs)
  BY <1>1 DEF LoopOK, AtLoad
<1>3. m.k \in 1..Len(linked.phdrs) /\ m.k \in Nat
  BY <1>1, <1>2
<1>4. m.k \in Loads(linked.phdrs)
  BY <1>1, <1>3 DEF Loads, AtLoad
<1>5. QED
  BY <1>1, <1>3, <1>4, ImageFixed

LEMMA LoadReached ==
  ASSUME NEW p \in Phdrs, NEW q, NEW e, Kept(p, q, e), NEW n \in Nat
  PROVE  Larger(n, LoadedEnd(q)) \in Nat /\ n <= Larger(n, LoadedEnd(q))
         /\ (p.filesz > 0 => p.offset + p.filesz <= Larger(n, LoadedEnd(q)))
<1>1. /\ p.offset \in Nat /\ q.offset \in Nat /\ q.filesz \in Nat /\ p.filesz \in Nat
      /\ q.offset <= p.offset /\ q.offset + q.filesz = p.offset + p.filesz
  BY DEF Kept, Phdrs
<1>2. LoadedEnd(q) \in Nat /\ (p.filesz > 0 => LoadedEnd(q) = p.offset + p.filesz)
  BY <1>1 DEF LoadedEnd
<1> DEFINE last == LoadedEnd(q)
           sum == p.offset + p.filesz
<1> HIDE DEF last, sum
<1>3. last \in Nat /\ (p.filesz > 0 => last = sum)
  BY <1>2 DEF last, sum
<1>4. Larger(n, last) \in Nat /\ n <= Larger(n, last) /\ last <= Larger(n, last)
  BY <1>3 DEF Larger
<1>5. QED
  BY <1>3, <1>4 DEF last, sum

LEMMA BodyKeeps ==
  ASSUME ElfInv, IsExec, phase = "loop", AtLoad, BodyDone(m'),
         UNCHANGED <<linked, file, plan, phase, exit, settled, retries>>,
         FixOK', Shrinks(cmd) => fix' = fix
  PROVE  ElfInv'
<1> DEFINE ls == linked.phdrs
           n == m.k + 1
           ps == Fixed(m.phdrs, m.k)
           last == Larger(m.last_off, LoadedEnd(ps[m.k]))
<1>1. /\ LoopOK /\ ls \in Seq(Phdrs) /\ Len(ls) \in Nat /\ Loads(ls) \subseteq 1..Len(ls) /\ fix \in Nat
  BY LoopFacts
<1>2. m.k \in Loads(ls) /\ m.k \in 1..Len(ls) /\ m.k \in Nat
  BY LoadFacts
<1>3. Kept(ls[m.k], ps[m.k], IF IsLast(ls, m.k) THEN (IF BssAhead THEN fix ELSE 0) ELSE 0)
  <2>1. (IF BssAhead THEN fix ELSE 0) \in Nat /\ Image(ls, m.phdrs, IF BssAhead THEN fix ELSE 0)
    BY <1>1 DEF LoopOK
  <2>2. Image(ls, ps, IF BssAhead THEN fix ELSE 0)
    BY <2>1, LoadFacts
  <2>3. QED
    BY <1>2, <2>2 DEF Image
<1>4. ls[m.k] \in Phdrs /\ m.last_off \in Nat
  BY <1>1, <1>2 DEF LoopOK
<1>5. last \in Nat /\ m.last_off <= last /\ (ls[m.k].filesz > 0 => ls[m.k].offset + ls[m.k].filesz <= last)
  BY <1>3, <1>4, LoadReached
<1>6. n \in 1..Len(ls) + 1 /\ \A j \in Loads(ls) : (m.k < j => n <= j) /\ (j < n => j < m.k \/ j = m.k)
  <2>1. \A j \in Loads(ls) : j \in Nat
    BY <1>1
  <2>2. QED
    BY <1>1, <1>2, <2>1
<1>7. Reaches(ls, m.last_off, m.k) => Reaches(ls, last, n)
  <2> HIDE DEF last, n
  <2> SUFFICES ASSUME Reaches(ls, m.last_off, m.k), NEW j \in Loads(ls), j < n, ls[j].filesz > 0
               PROVE  ls[j].offset + ls[j].filesz <= last
    BY DEF Reaches
  <2>1. CASE j = m.k
    BY <1>5, <2>1
  <2>2. CASE j < m.k
    <3> DEFINE sum == ls[j].offset + ls[j].filesz
    <3>0. ls[j] \in Phdrs
      BY <1>1
    <3>1. sum \in Nat
      BY <3>0 DEF Phdrs
    <3>2. sum <= m.last_off
      BY <2>2 DEF Reaches
    <3> HIDE DEF sum
    <3>3. sum <= last
      BY <1>4, <1>5, <3>1, <3>2
    <3>4. QED
      BY <3>3 DEF sum
  <2>3. QED
    BY <1>6, <2>1, <2>2
<1>8. m.first # 0 => m.first \in Loads(ls) /\ m.first < n
  BY <1>1, <1>2 DEF LoopOK
<1>9. m.k # 0 /\ m.k < n
  BY <1>2
<1> HIDE DEF n, last, ps
<1>10. /\ DOMAIN m' = LoopFields /\ m'.flags = m.flags /\ m'.ehdr = m.ehdr /\ m'.k = n
       /\ m'.first = IF m.first = 0 THEN m.k ELSE m.first
       /\ m'.changed \/ m'.phdrs = file.phdrs
       /\ m'.last_off = IF m.flags.s THEN last ELSE m.last_off
       /\ Image(ls, m'.phdrs, IF Shrinks(cmd) /\ Ahead(ls, n) THEN fix ELSE 0)
  BY DEF BodyDone, n, last, ps
<1>11. /\ cmd' = cmd /\ linked' = linked /\ phase' = phase /\ file' = file
  BY DEF cmd
<1>12. (BssAhead' <=> Shrinks(cmd) /\ Ahead(ls, n)) /\ (Shrinks(cmd) => fix' = fix)
  BY <1>10, <1>11 DEF BssAhead, Ahead
<1>13. Image(linked.phdrs, m.phdrs, IF BssAhead THEN fix ELSE 0)'
  BY <1>10, <1>11, <1>12
<1>14. m'.first \in Loads(ls) /\ m'.first < n /\ m'.first # 0
  BY <1>2, <1>8, <1>9, <1>10
<1>15. m'.last_off \in Nat /\ (m'.flags.s => Reaches(ls, m'.last_off, n))
  BY <1>1, <1>4, <1>5, <1>7, <1>10 DEF LoopOK
<1>16. LoopOK'
  BY <1>6, <1>10, <1>11, <1>13, <1>14, <1>15 DEF LoopOK
<1>17. QED
  BY <1>10, <1>11, <1>16, LoopKeeps

LEMMA AfterFields ==
  ASSUME DOMAIN m = LoopFields
  PROVE  /\ DOMAIN AfterFixes = LoopFields /\ AfterFixes.flags = m.flags /\ AfterFixes.ehdr = m.ehdr
         /\ AfterFixes.k = m.k + 1 /\ AfterFixes.phdrs = Fixed(m.phdrs, m.k)
         /\ AfterFixes.first = IF m.first = 0 THEN m.k ELSE m.first
         /\ AfterFixes.changed = (m.changed \/ Fixed(m.phdrs, m.k) # m.phdrs)
         /\ AfterFixes.last_off = IF m.flags.s
              THEN Larger(m.last_off, LoadedEnd(Fixed(m.phdrs, m.k)[m.k])) ELSE m.last_off
<1> DEFINE ps == Fixed(m.phdrs, m.k)
           ch == m.changed \/ ps # m.phdrs
           k == m.k + 1
           first == IF m.first = 0 THEN m.k ELSE m.first
           last == IF m.flags.s THEN Larger(m.last_off, LoadedEnd(ps[m.k])) ELSE m.last_off
<1>1. AfterFixes = [m EXCEPT !.phdrs = ps, !.changed = ch, !.k = k, !.first = first, !.last_off = last]
  BY Zenon DEF AfterFixes
<1> HIDE DEF ps, ch, k, first, last
<1>2. /\ DOMAIN AfterFixes = LoopFields /\ AfterFixes.flags = m.flags /\ AfterFixes.ehdr = m.ehdr
      /\ AfterFixes.k = k /\ AfterFixes.phdrs = ps /\ AfterFixes.first = first
      /\ AfterFixes.last_off = last
  BY <1>1 DEF LoopFields
<1>3. AfterFixes.changed = ch
  BY <1>1 DEF LoopFields
<1>4. QED
  BY <1>2, <1>3 DEF ps, ch, k, first, last

LEMMA SstripPhdrKeeps ==
  ASSUME ElfInv, SstripPhdr
  PROVE  ElfInv'
<1>1. phase = "loop" /\ cmd.tool = "sstrip" /\ IsExec /\ ~Shrinks(cmd)
  BY DEF SstripPhdr, At, IsExec, Shrinks
<1>2. CASE LoopEnds
  BY <1>1, <1>2, LoopEndsKeeps
<1>3. CASE LoopSkips
  BY <1>1, <1>3, LoopSkipsKeeps
<1>4. CASE AtLoad /\ m' = AfterFixes /\ UNCHANGED <<linked, file, fix, plan, phase, exit, settled, retries>>
  <2>1. LoopOK /\ DOMAIN m = LoopFields /\ Image(linked.phdrs, m.phdrs, 0)
    BY <1>1, LoopFacts DEF LoopOK, BssAhead
  <2>2. Image(linked.phdrs, Fixed(m.phdrs, m.k), 0)
    BY <1>1, <1>4, <2>1, LoadFacts
  <2>3. AfterFixes.changed \/ AfterFixes.phdrs = file.phdrs
    BY <1>1, <2>1, AfterFields DEF LoopOK
  <2>4. BodyDone(m')
    BY <1>1, <1>4, <2>1, <2>2, <2>3, AfterFields DEF BodyDone
  <2>5. FixOK'
    BY <1>1, <1>4 DEF FixOK, ElfInv, ExecInv
  <2>6. QED
    BY <1>1, <1>4, <2>4, <2>5, BodyKeeps
<1>5. QED
  BY <1>2, <1>3, <1>4 DEF SstripPhdr, AtLoad

\* What elfxfix -p and -r do to fix.o and to .bss.
PaddingFixed == Padded(Fixed(m.phdrs, m.k), m.k) /\ CanFix(Fixed(m.phdrs, m.k), m.k)
FixMade == IF PaddingFixed THEN FixSize(Fixed(m.phdrs, m.k), m.k) ELSE fix
BssFound == HasBss(Fixed(m.phdrs, m.k), m.k)
PhdrsAfter ==
  IF BssFound THEN Shrunk(Fixed(m.phdrs, m.k), m.k, FixMade) ELSE Fixed(m.phdrs, m.k)

LEMMA ElfxfixPhdrCases ==
  ASSUME ElfxfixPhdr, DOMAIN m = LoopFields
  PROVE  /\ phase = "loop" /\ cmd.tool = "elfxfix"
         /\ \/ LoopEnds \/ LoopSkips
            \/ /\ AtLoad
               /\ \/ PaddingFixed /\ Fails({24})
                  \/ PaddingFixed /\ Ends(25) /\ fix' = 0 /\ UNCHANGED file
                  \/ BssFound /\ Ends(26) /\ fix' = FixMade /\ UNCHANGED file
                  \/ BssFound /\ Stops(27)
                  \/ /\ fix' = FixMade
                     /\ m' = [AfterFixes EXCEPT !.phdrs = PhdrsAfter,
                                                !.changed = @ \/ PhdrsAfter # AfterFixes.phdrs]
                     /\ UNCHANGED <<linked, file, plan, phase, exit, settled, retries>>
<1>1. AfterFixes.phdrs = Fixed(m.phdrs, m.k)
  BY AfterFields
<1>2. QED
  BY <1>1, Zenon DEF ElfxfixPhdr, At, Stops, PaddingFixed, FixMade, BssFound, PhdrsAfter, AtLoad

\* What is known when elfxfix is at a PT_LOAD header.
LEMMA PaddingFacts ==
  ASSUME ElfInv, phase = "loop", cmd.tool = "elfxfix", AtLoad, PaddingFixed
  PROVE  ~Shrinks(cmd) /\ FixMade \in Nat /\ \E i, j \in Loads(linked.phdrs) : i < j
<1>1. IsExec
  BY DEF IsExec
<1>2. LoopOK /\ Runs /\ m.flags = Flags /\ Flags = ElfxfixFlags(cmd.args) /\ fix \in Nat
  BY <1>1, LoopFacts DEF Flags
<1>3. m.k \in Loads(linked.phdrs) /\ Image(linked.phdrs, Fixed(m.phdrs, m.k), IF BssAhead THEN fix ELSE 0)
  BY <1>1, <1>2, LoadFacts DEF LoopOK
<1>4. ~Shrinks(cmd)
  <2>1. InOrder(plan)
    BY DEF ElfInv, ExecInv, ControlOK
  <2>2. QED
    BY <1>2, <2>1, CmdFacts DEF PaddingFixed, Padded
<1>5. m.first \in Loads(linked.phdrs) /\ m.first < m.k
  BY <1>2 DEF LoopOK, PaddingFixed, Padded
<1>6. FixMade \in Nat
  <2> DEFINE ps == Fixed(m.phdrs, m.k)
             end == EndOfFirst(ps)
             taken == TakenOfPage(ps, m.k)
  <2>1. ps[m.first] \in Phdrs
    BY <1>3, <1>5 DEF Image, Loads
  <2>2. end \in Nat
    BY <2>1 DEF EndOfFirst, Phdrs
  <2>3. taken \in 1..end
    BY DEF PaddingFixed, CanFix
  <2>4. FixMade = end - taken + 1
    BY DEF FixMade, FixSize
  <2> HIDE DEF end, taken
  <2>5. QED
    BY <2>2, <2>3, <2>4
<1>7. QED
  BY <1>3, <1>4, <1>5, <1>6

LEMMA BssFacts ==
  ASSUME ElfInv, phase = "loop", cmd.tool = "elfxfix", AtLoad
  PROVE  /\ BssFound => Shrinks(cmd) /\ IsLast(linked.phdrs, m.k)
         /\ Shrinks(cmd) => FixMade = fix
         /\ Shrinks(cmd) /\ IsLast(linked.phdrs, m.k) /\ fix # 0 => BssFound
         /\ Image(linked.phdrs, Fixed(m.phdrs, m.k),
                  IF Shrinks(cmd) /\ Ahead(linked.phdrs, m.k) THEN fix ELSE 0)
<1> DEFINE ls == linked.phdrs
           ps == Fixed(m.phdrs, m.k)
<1>1. IsExec
  BY DEF IsExec
<1>2. /\ LoopOK /\ m.flags = Flags /\ Flags = ElfxfixFlags(cmd.args) /\ Flags # <<>> /\ fix \in Nat
      /\ ls \in Seq(Phdrs) /\ Len(ls) \in Nat
  BY <1>1, LoopFacts DEF Flags
<1>3. m.k \in Loads(ls) /\ m.k \in 1..Len(ls) /\ m.k \in Nat
  BY <1>1, LoadFacts
<1>4. Image(ls, ps, IF Shrinks(cmd) /\ Ahead(ls, m.k) THEN fix ELSE 0)
  <2>1. BssAhead <=> Shrinks(cmd) /\ Ahead(ls, m.k)
    BY DEF BssAhead, Ahead
  <2>2. Image(ls, m.phdrs, IF Shrinks(cmd) /\ Ahead(ls, m.k) THEN fix ELSE 0)
    BY <1>2, <2>1 DEF LoopOK
  <2>3. QED
    BY <1>1, <1>2, <2>2, LoadFacts
<1>5. Loads(ps) = Loads(ls)
  BY <1>2, <1>4, ImageFacts
<1> HIDE DEF ps
<1>6. m.flags.r <=> Shrinks(cmd)
  BY <1>2 DEF Shrinks
<1>7. BssFound => Shrinks(cmd) /\ IsLast(ls, m.k)
  BY <1>3, <1>5, <1>6 DEF BssFound, HasBss, IsLast, ps
<1>8. Shrinks(cmd) => FixMade = fix
  <2>1. PaddingFixed => ~Shrinks(cmd)
    BY PaddingFacts
  <2>2. QED
    BY <2>1 DEF FixMade
<1>9. ASSUME Shrinks(cmd), IsLast(ls, m.k), fix # 0 PROVE BssFound
  <2>1. m.first # 0
    <3>1. SUFFICES ASSUME m.first = 0 PROVE FALSE
      OBVIOUS
    <3>2. \A j \in Loads(ls) : m.k <= j
      BY <1>2, <3>1 DEF LoopOK
    <3>3. PICK i, j \in Loads(ls) : i < j
      BY <1>9 DEF ElfInv, ExecInv, FixOK
    <3>4. i \in Nat /\ j \in Nat /\ m.k <= i /\ j <= m.k
      BY <1>2, <1>9, <3>2 DEF IsLast, Loads
    <3>5. QED
      BY <1>3, <3>3, <3>4
  <2>2. ps[m.k].memsz > ps[m.k].filesz
    <3>1. Ahead(ls, m.k)
      BY <1>3, <1>9 DEF Ahead
    <3>2. Kept(ls[m.k], ps[m.k], fix)
      BY <1>3, <1>4, <1>9, <3>1 DEF Image
    <3> DEFINE p == ls[m.k]
               q == ps[m.k]
    <3>3. p.filesz <= p.memsz
      <4>1. linked \in Files /\ m.k \in DOMAIN ls /\ ls[m.k].type = PT_LOAD
        BY <1>3 DEF ElfInv, ExecInv, ControlOK, Loads, IsLoad
      <4>2. QED
        BY <4>1, FilesAssumption DEF FilesAssumption
    <3>4. ls[m.k] \in Phdrs
      BY <1>2, <1>3
    <3>5. /\ p.offset \in Nat /\ p.filesz \in Nat /\ p.memsz \in Nat
          /\ q.offset \in Nat /\ q.filesz \in Nat /\ q.memsz \in Nat
      BY <3>2, <3>4 DEF Kept, Phdrs
    <3>6. q.offset + q.filesz = p.offset + p.filesz /\ q.offset + q.memsz = p.offset + p.memsz + fix
      BY <3>2 DEF Kept
    <3> HIDE DEF p, q
    <3>7. q.memsz > q.filesz
      BY <1>2, <1>9, <3>3, <3>5, <3>6
    <3>8. QED
      BY <3>7 DEF q
  <2>3. \A j \in Loads(ps) : j <= m.k
    BY <1>5, <1>9 DEF IsLast
  <2>4. QED
    BY <1>6, <1>9, <2>1, <2>2, <2>3 DEF BssFound, HasBss, ps
<1>10. QED
  BY <1>4, <1>7, <1>8, <1>9 DEF ps

\* .bss has its size again after the last PT_LOAD header.
LEMMA AfterImage ==
  ASSUME ElfInv, phase = "loop", cmd.tool = "elfxfix", AtLoad
  PROVE  Image(linked.phdrs, PhdrsAfter, IF Shrinks(cmd) /\ Ahead(linked.phdrs, m.k + 1) THEN fix ELSE 0)
<1> DEFINE ls == linked.phdrs
           ps == Fixed(m.phdrs, m.k)
<1>1. IsExec
  BY DEF IsExec
<1>2. ls \in Seq(Phdrs) /\ Len(ls) \in Nat /\ fix \in Nat
  BY <1>1, LoopFacts
<1>3. m.k \in Loads(ls) /\ m.k \in 1..Len(ls) /\ m.k \in Nat
  BY <1>1, LoadFacts
<1>4. Image(ls, ps, IF Shrinks(cmd) /\ Ahead(ls, m.k) THEN fix ELSE 0)
  BY BssFacts
<1> HIDE DEF ps
<1>5. CASE Shrinks(cmd) /\ IsLast(ls, m.k)
  <2>1. Ahead(ls, m.k) /\ ~Ahead(ls, m.k + 1)
    BY <1>2, <1>3, <1>5, AheadNever DEF Ahead
  <2>2. Image(ls, ps, fix)
    BY <1>4, <1>5, <2>1
  <2>3. CASE BssFound
    <3>1. FixMade = fix /\ PhdrsAfter = Shrunk(ps, m.k, fix)
      BY <1>5, <2>3, BssFacts DEF PhdrsAfter, ps
    <3>2. ls[m.k].filesz <= ls[m.k].memsz
      <4>1. linked \in Files /\ m.k \in DOMAIN ls /\ ls[m.k].type = PT_LOAD
        BY <1>3 DEF ElfInv, ExecInv, ControlOK, Loads, IsLoad
      <4>2. QED
        BY <4>1, FilesAssumption DEF FilesAssumption
    <3>3. Image(ls, Shrunk(ps, m.k, fix), 0)
      BY <1>2, <1>5, <2>2, <3>2, ImageShrunk
    <3>4. QED
      BY <2>1, <3>1, <3>3
  <2>4. CASE ~BssFound
    <3>1. fix = 0
      BY <1>5, <2>4, BssFacts
    <3>2. PhdrsAfter = ps
      BY <2>4 DEF PhdrsAfter, ps
    <3>3. QED
      BY <2>1, <2>2, <3>1, <3>2
  <2>5. QED
    BY <2>3, <2>4
<1>6. CASE ~(Shrinks(cmd) /\ IsLast(ls, m.k))
  <2>1. ~BssFound /\ PhdrsAfter = ps
    BY <1>6, BssFacts DEF PhdrsAfter, ps
  <2>2. Shrinks(cmd) => (Ahead(ls, m.k + 1) <=> Ahead(ls, m.k))
    BY <1>2, <1>3, <1>6, AheadNext
  <2>3. QED
    BY <1>4, <2>1, <2>2
<1>7. QED
  BY <1>5, <1>6

LEMMA ElfxfixBodyFields ==
  ASSUME DOMAIN m = LoopFields, m.changed \/ m.phdrs = file.phdrs, NEW ps,
         m' = [AfterFixes EXCEPT !.phdrs = ps, !.changed = @ \/ ps # AfterFixes.phdrs]
  PROVE  /\ DOMAIN m' = LoopFields /\ m'.flags = m.flags /\ m'.ehdr = m.ehdr
         /\ m'.k = m.k + 1 /\ m'.phdrs = ps
         /\ m'.first = IF m.first = 0 THEN m.k ELSE m.first
         /\ m'.changed \/ m'.phdrs = file.phdrs
         /\ m'.last_off = IF m.flags.s
              THEN Larger(m.last_off, LoadedEnd(Fixed(m.phdrs, m.k)[m.k])) ELSE m.last_off
<1> DEFINE ch == AfterFixes.changed \/ ps # AfterFixes.phdrs
<1>1. m' = [AfterFixes EXCEPT !.phdrs = ps, !.changed = ch]
  BY Zenon
<1> HIDE DEF ch
<1>2. DOMAIN AfterFixes = LoopFields
  BY AfterFields
<1>3. /\ DOMAIN m' = LoopFields /\ m'.flags = AfterFixes.flags /\ m'.ehdr = AfterFixes.ehdr
      /\ m'.k = AfterFixes.k /\ m'.phdrs = ps /\ m'.first = AfterFixes.first
      /\ m'.last_off = AfterFixes.last_off /\ m'.changed = ch
  BY <1>1, <1>2 DEF LoopFields
<1>4. ~ch => m.phdrs = file.phdrs /\ ps = m.phdrs
  BY AfterFields DEF ch
<1>5. QED
  BY <1>3, <1>4, AfterFields

LEMMA ElfxfixPhdrKeeps ==
  ASSUME ElfInv, ElfxfixPhdr
  PROVE  ElfInv'
<1>1. phase = "loop" /\ cmd.tool = "elfxfix" /\ IsExec
  BY DEF ElfxfixPhdr, At, IsExec
<1>2. LoopOK /\ DOMAIN m = LoopFields /\ Runs
  BY <1>1, LoopFacts DEF LoopOK
<1>3. CASE LoopEnds
  BY <1>1, <1>3, LoopEndsKeeps
<1>4. CASE LoopSkips
  BY <1>1, <1>4, LoopSkipsKeeps
<1>5. 24 \in Codes \ {Running, 0} /\ 25 \in Codes \ {Running, 0} /\ 26 \in Codes \ {Running, 0}
      /\ 27 \in Codes \ {Running, 0} /\ phase \in BeforeWrites
  BY <1>1 DEF Codes, Running, BeforeWrites, Early
<1>6. CASE PaddingFixed /\ Fails({24})
  <2>1. {24} \in SUBSET (Codes \ {Running, 0})
    BY <1>5
  <2>2. QED
    BY <1>2, <1>5, <1>6, <2>1, FailsKeep
<1>7. CASE AtLoad /\ PaddingFixed /\ Ends(25) /\ fix' = 0 /\ UNCHANGED file
  <2>1. ~Shrinks(cmd)
    BY <1>1, <1>7, PaddingFacts
  <2>2. FixOK'
    BY <1>7 DEF FixOK, Ends
  <2>3. QED
    BY <1>2, <1>5, <1>7, <2>1, <2>2, FailKeeps
<1>8. CASE AtLoad /\ BssFound /\ Ends(26) /\ fix' = FixMade /\ UNCHANGED file
  <2>1. fix' = fix
    BY <1>1, <1>8, BssFacts
  <2>2. FixOK'
    BY <1>8, <2>1 DEF FixOK, Ends, ElfInv, ExecInv
  <2>3. QED
    BY <1>2, <1>5, <1>8, <2>1, <2>2, FailKeeps
<1>9. CASE Stops(27)
  BY <1>2, <1>5, <1>9, StopKeeps
<1>10. CASE /\ AtLoad /\ fix' = FixMade
            /\ m' = [AfterFixes EXCEPT !.phdrs = PhdrsAfter, !.changed = @ \/ PhdrsAfter # AfterFixes.phdrs]
            /\ UNCHANGED <<linked, file, plan, phase, exit, settled, retries>>
  <2>1. m.changed \/ m.phdrs = file.phdrs
    BY <1>1, <1>2 DEF LoopOK
  <2>2. BodyDone(m')
    BY <1>1, <1>2, <1>10, <2>1, ElfxfixBodyFields, AfterImage DEF BodyDone
  <2>3. Shrinks(cmd) => fix' = fix
    BY <1>1, <1>10, BssFacts
  <2>4. FixOK'
    <3>1. linked' = linked /\ phase' = "loop"
      BY <1>1, <1>10
    <3>2. CASE PaddingFixed
      <4>1. fix' \in Nat /\ \E i, j \in Loads(linked.phdrs) : i < j
        BY <1>1, <1>10, <3>2, PaddingFacts
      <4>2. QED
        BY <3>1, <4>1 DEF FixOK
    <3>3. CASE ~PaddingFixed
      <4>1. fix' = fix
        BY <1>10, <3>3 DEF FixMade
      <4>2. QED
        BY <3>1, <4>1 DEF FixOK, ElfInv, ExecInv
    <3>4. QED
      BY <3>2, <3>3
  <2>5. QED
    BY <1>1, <1>10, <2>2, <2>3, <2>4, BodyKeeps
<1>11. QED
  BY <1>2, <1>3, <1>4, <1>6, <1>7, <1>8, <1>9, <1>10, ElfxfixPhdrCases

-----------------------------------------------------------------------------
(* Executables: the writes. *)

LEMMA PhdrsSet ==
  ASSUME FileOK, NEW ps, file' = [file EXCEPT !.phdrs = ps]
  PROVE  /\ FileOK' /\ file'.phdrs = ps /\ file'.len = file.len /\ file'.ehdr = file.ehdr
         /\ file'.shdrs = file.shdrs /\ file'.shstr = file.shstr /\ file'.syms = file.syms
<1>1. /\ DOMAIN file' = FileFields /\ file'.phdrs = ps /\ file'.len = file.len
      /\ file'.ehdr = file.ehdr
      /\ file'.shdrs = file.shdrs /\ file'.shstr = file.shstr /\ file'.syms = file.syms
  BY DEF FileOK, FileFields
<1>2. QED
  BY <1>1 DEF FileOK

\* The first k elements of a sequence have been written.
Mixed(new, old, k) == [i \in DOMAIN old |-> IF i <= k THEN new[i] ELSE old[i]]

LEMMA WriteCodes ==
  ASSUME IsExec
  PROVE  \A code \in 17..23 : code \in Codes \ {Running, 0} /\ ~Refuses(code)
<1>1. cmd.tool # "elfnostack"
  BY DEF IsExec
<1>2. QED
  BY <1>1 DEF Codes, Running, Refuses

\* The loop has gone through all of the program headers.
LEMMA LoopDone ==
  ASSUME ElfInv, IsExec, phase \in {"write_phdrs", "truncate", "write_ehdr"}
  PROVE  /\ Image(linked.phdrs, m.phdrs, 0) /\ m.k > Len(linked.phdrs)
         /\ m.flags.s /\ Whole(linked.phdrs, linked.len) => Whole(linked.phdrs, m.last_off)
         /\ m.last_off \in Nat
<1> DEFINE len == Len(linked.phdrs)
<1>1. LoopOK /\ len \in Nat
  BY LoopFacts
<1>2. m.k \in 1..len + 1 /\ m.k > len /\ m.last_off \in Nat
  BY <1>1 DEF LoopOK
<1> HIDE DEF len
<1>3. m.k = len + 1
  BY <1>1, <1>2
<1>4. \A j \in 1..len : ~(m.k <= j)
  BY <1>1, <1>3
<1>5. ~BssAhead
  BY <1>4 DEF BssAhead, len
<1>6. QED
  BY <1>1, <1>2, <1>3, <1>5 DEF LoopOK, Whole, len

LEMMA PhdrsTorn ==
  ASSUME ElfInv, IsExec, phase = "write_phdrs", Ends(18), UNCHANGED fix, NEW k \in Nat,
         file' = [file EXCEPT !.phdrs = Mixed(m.phdrs, file.phdrs, k)]
  PROVE  ElfInv'
<1> DEFINE ps == Mixed(m.phdrs, file.phdrs, k)
           ls == linked.phdrs
<1> USE DEF ElfInv, ExecInv, ObjInv
<1>0. 18 \in Codes \ {Running} /\ 18 # 0 /\ ~Refuses(18)
  BY WriteCodes
<1>1. /\ ControlOK' /\ ExecVarsOK' /\ ObjVarsOK' /\ cmd' = cmd /\ linked' = linked
      /\ phase' = "ended" /\ exit' = 18 /\ m' = m /\ retries' = retries
  BY <1>0, EndFrame
<1>2. file' = [file EXCEPT !.phdrs = ps]
  OBVIOUS
<1> HIDE DEF ps
<1>3. /\ FileOK' /\ file'.phdrs = ps /\ file'.len = file.len /\ file'.ehdr = file.ehdr
      /\ file'.shdrs = file.shdrs /\ file'.shstr = file.shstr /\ file'.syms = file.syms
  BY <1>2, PhdrsSet
<1>4. FixOK' /\ LengthOK' /\ NamesKept(linked.shdrs, file.shdrs)'
  BY <1>1, <1>3 DEF FixOK, LengthOK
<1>5. SegmentsOK'
  <2>1. ls \in Seq(Phdrs) /\ fix \in Nat /\ Image(ls, m.phdrs, 0) /\ Runs
    BY LoopFacts, LoopDone
  <2>2. Image(ls, file.phdrs, IF Shrinks(cmd) THEN fix ELSE 0)
    <3>1. ~Torn /\ (FileGrown <=> Shrinks(cmd))
      BY <2>1 DEF Torn, FileGrown, Early, Runs
    <3>2. QED
      BY <3>1 DEF SegmentsOK
  <2>3. PICK n \in {0, IF Shrinks(cmd) THEN fix ELSE 0} : Image(ls, ps, n)
    BY <2>1, <2>2, ImageMixed DEF ps, Mixed
  <2>4. (Torn' <=> Shrinks(cmd)) /\ ~FileGrown'
    <3>1. phase' = "ended" /\ exit' # 0 /\ cmd' = cmd /\ cmd.tool # "relink" /\ "ended" \notin Early
      BY <1>0, <1>1, <2>1 DEF Runs, Early
    <3>2. QED
      BY <3>1 DEF Torn, FileGrown
  <2>5. CASE Shrinks(cmd)
    <3>1. n \in {0, fix}
      BY <2>5
    <3>2. QED
      BY <1>1, <1>3, <2>3, <2>4, <2>5, <3>1 DEF SegmentsOK
  <2>6. CASE ~Shrinks(cmd)
    <3>1. n = 0
      BY <2>6
    <3>2. QED
      BY <1>1, <1>3, <2>3, <2>4, <2>6, <3>1 DEF SegmentsOK
  <2>7. QED
    BY <2>5, <2>6
<1>6. SectionsOK'
  BY <1>1, <1>3 DEF SectionsOK, Cuts, IsExec, Flags
<1>7. UntouchedOK'
  BY <1>0, <1>1 DEF UntouchedOK, RefusedUntouched, Refuses, BeforeWrites, Early
<1>8. StringsOK'
  BY <1>1, <1>3 DEF StringsOK
<1>9. SymbolsOK'
  BY <1>1, <1>3 DEF SymbolsOK, LastSym
<1>10. QED
  BY <1>1, <1>3, <1>4, <1>5, <1>6, <1>7, <1>8, <1>9

LEMMA PhdrsWritten ==
  ASSUME ElfInv, IsExec, phase = "write_phdrs", Goto("truncate"), UNCHANGED m,
         FileOK', file'.phdrs = m.phdrs, file'.len = file.len, file'.ehdr = file.ehdr,
         file'.shdrs = file.shdrs, file'.shstr = file.shstr, file'.syms = file.syms
  PROVE  ElfInv'
<1> USE DEF ElfInv, ExecInv, ObjInv
<1>1. /\ cmd' = cmd /\ linked' = linked /\ phase' = "truncate" /\ exit' = exit /\ plan' = plan
      /\ retries' = retries /\ fix' = fix /\ settled' = settled
      /\ (IsExec' <=> IsExec) /\ Flags' = Flags /\ (Shrinks(cmd)' <=> Shrinks(cmd)) /\ m' = m
  BY GotoFrame
<1>2. LoopOK /\ Runs /\ m.flags = Flags /\ Flags # <<>> /\ EhdrOK(m.ehdr) /\ phase \in ExecPhases
  BY LoopFacts DEF ExecPhases
<1>3. ControlOK' /\ FixOK' /\ LengthOK' /\ NamesKept(linked.shdrs, file.shdrs)'
  BY <1>1, <1>2 DEF ControlOK, Phases, FixOK, LengthOK, Runs
<1>4. SegmentsOK'
  <2>1. Image(linked.phdrs, m.phdrs, 0)
    BY LoopDone
  <2>2. ~Torn' /\ ~FileGrown'
    BY <1>1 DEF Torn, FileGrown, Early
  <2>3. QED
    BY <1>1, <2>1, <2>2 DEF SegmentsOK
<1>5. SectionsOK'
  BY <1>1 DEF SectionsOK, Cuts
<1>6. UntouchedOK'
  BY <1>1 DEF UntouchedOK, RefusedUntouched, BeforeWrites, Early
<1>7. StringsOK'
  BY <1>1 DEF StringsOK
<1>8. SymbolsOK'
  BY <1>1, <1>2 DEF SymbolsOK, LastSym, Runs
<1>9. LoopOK'
  <2>1. BssAhead' <=> BssAhead
    BY <1>1 DEF BssAhead
  <2>2. m.k > Len(linked.phdrs)
    BY LoopDone
  <2>3. QED
    BY <1>1, <1>2, <2>1, <2>2 DEF LoopOK
<1>10. ExecVarsOK'
  BY <1>1, <1>2, <1>9 DEF ExecVarsOK, ExecPhases
<1>11. ObjVarsOK'
  BY <1>1, ExecNotObj
<1>12. QED
  BY <1>3, <1>4, <1>5, <1>6, <1>7, <1>8, <1>10, <1>11

LEMMA WritePhdrsKeeps ==
  ASSUME ElfInv, IsExec, phase = "write_phdrs", WritePhdrs
  PROVE  ElfInv'
<1>1. LoopOK /\ Runs /\ FileOK
  BY LoopFacts DEF ElfInv, ExecInv
<1>2. CASE ~m.changed
  <2>1. Goto("truncate") /\ UNCHANGED <<m, file>> /\ m.phdrs = file.phdrs
    BY <1>1, <1>2 DEF WritePhdrs, LoopOK
  <2>2. FileOK'
    BY <1>1, <2>1 DEF FileOK
  <2>3. QED
    BY <2>1, <2>2, PhdrsWritten
<1>3. CASE Fails({17})
  <2>1. {17} \in SUBSET (Codes \ {Running, 0}) /\ \A code \in {17} : ~Refuses(code)
    BY WriteCodes
  <2>2. QED
    BY <1>1, <1>3, <2>1, FailsKeep
<1>4. ASSUME NEW k \in 0..(Len(m.phdrs) - 1), Ends(18), UNCHANGED fix,
             file' = [file EXCEPT !.phdrs = Mixed(m.phdrs, file.phdrs, k)]
      PROVE  ElfInv'
  <2>1. k \in Nat
    OBVIOUS
  <2>2. QED
    BY <1>4, <2>1, PhdrsTorn
<1>5. CASE Goto("truncate") /\ file' = [file EXCEPT !.phdrs = m.phdrs] /\ UNCHANGED m
  <2>1. /\ FileOK' /\ file'.phdrs = m.phdrs /\ file'.len = file.len /\ file'.ehdr = file.ehdr
        /\ file'.shdrs = file.shdrs /\ file'.shstr = file.shstr /\ file'.syms = file.syms
    BY <1>1, <1>5, PhdrsSet
  <2>2. QED
    BY <1>5, <2>1, PhdrsWritten
<1>6. QED
  BY <1>2, <1>3, <1>4, <1>5, Zenon DEF WritePhdrs, Mixed

LEMMA EhdrUnsectioned ==
  ASSUME NEW e, EhdrOK(e)
  PROVE  EhdrOK(Unsectioned(e)) /\ Unsectioned(e).shnum = 0
<1> DEFINE r == Unsectioned(e)
<1>1. /\ DOMAIN r = EhdrFields /\ r.shnum = 0 /\ r.shoff = 0 /\ r.phnum = e.phnum
      /\ r.phoff = e.phoff
  BY DEF EhdrOK, EhdrFields, Unsectioned
<1> HIDE DEF r
<1>2. EhdrOK(r)
  BY <1>1 DEF EhdrOK
<1>3. QED
  BY <1>1, <1>2 DEF r

\* -s: what is left is enough for every segment.
LEMMA Cut ==
  ASSUME ElfInv, IsExec, phase = "truncate", m.flags.s, Goto("write_ehdr"),
         file' = [file EXCEPT !.len = m.last_off], m' = [m EXCEPT !.ehdr = Unsectioned(@)]
  PROVE  ElfInv'
<1> USE DEF ElfInv, ExecInv, ObjInv
<1>1. /\ cmd' = cmd /\ linked' = linked /\ phase' = "write_ehdr" /\ exit' = exit /\ plan' = plan
      /\ retries' = retries /\ fix' = fix /\ settled' = settled
      /\ (IsExec' <=> IsExec) /\ Flags' = Flags /\ (Shrinks(cmd)' <=> Shrinks(cmd))
  BY GotoFrame
<1>2. LoopOK /\ Runs /\ m.flags = Flags /\ Flags # <<>> /\ EhdrOK(m.ehdr)
  BY LoopFacts
<1>3. /\ m.last_off \in Nat /\ m.k > Len(linked.phdrs)
      /\ Whole(linked.phdrs, linked.len) => Whole(linked.phdrs, m.last_off)
  BY LoopDone
<1>4. /\ DOMAIN file' = FileFields /\ file'.phdrs = file.phdrs /\ file'.len = m.last_off
      /\ file'.ehdr = file.ehdr
      /\ file'.shdrs = file.shdrs /\ file'.shstr = file.shstr /\ file'.syms = file.syms
  BY DEF FileOK, FileFields
<1> DEFINE e == Unsectioned(m.ehdr)
<1>5. EhdrOK(e) /\ e.shnum = 0
  BY <1>2, EhdrUnsectioned
<1>6. m' = [m EXCEPT !.ehdr = e] /\ DOMAIN m = LoopFields
  BY <1>2 DEF LoopOK
<1> HIDE DEF e
<1>7. /\ DOMAIN m' = LoopFields /\ m'.flags = m.flags /\ m'.ehdr = e /\ m'.k = m.k
      /\ m'.phdrs = m.phdrs /\ m'.first = m.first /\ m'.changed = m.changed /\ m'.last_off = m.last_off
  BY <1>6 DEF LoopFields
<1>8. ControlOK' /\ FileOK' /\ FixOK' /\ LengthOK' /\ NamesKept(linked.shdrs, file.shdrs)'
  BY <1>1, <1>2, <1>3, <1>4 DEF ControlOK, Phases, FileOK, FixOK, LengthOK, Runs
<1>9. SegmentsOK'
  <2>1. ~Torn' /\ ~FileGrown' /\ ~Torn /\ ~FileGrown
    BY <1>1, <1>2 DEF Torn, FileGrown, Early, Runs
  <2>2. QED
    BY <1>1, <1>4, <2>1 DEF SegmentsOK
<1>10. SectionsOK'
  <2>1. Cuts /\ Cuts'
    BY <1>1, <1>2 DEF Cuts
  <2>2. QED
    BY <1>1, <2>1 DEF SectionsOK
<1>11. UntouchedOK'
  BY <1>1 DEF UntouchedOK, RefusedUntouched, BeforeWrites, Early
<1>12. StringsOK'
  BY <1>1, <1>4 DEF StringsOK
<1>13. SymbolsOK'
  BY <1>1, <1>2, <1>4 DEF SymbolsOK, LastSym, Runs
<1>14. LoopOK'
  <2>1. BssAhead' <=> BssAhead
    BY <1>1, <1>7 DEF BssAhead
  <2>2. QED
    BY <1>1, <1>2, <1>3, <1>7, <2>1 DEF LoopOK
<1>15. ExecVarsOK'
  BY <1>1, <1>2, <1>5, <1>7, <1>14 DEF ExecVarsOK, ExecPhases
<1>16. ObjVarsOK'
  BY <1>1, ExecNotObj
<1>17. QED
  BY <1>8, <1>9, <1>10, <1>11, <1>12, <1>13, <1>15, <1>16

LEMMA TruncateKeeps ==
  ASSUME ElfInv, IsExec, phase = "truncate", Truncate
  PROVE  ElfInv'
<1>1. LoopOK /\ Runs /\ m.flags = Flags /\ Flags # <<>> /\ EhdrOK(m.ehdr) /\ phase \in ExecPhases
  BY LoopFacts DEF ExecPhases
<1>2. CASE ~m.flags.s
  <2>1. Goto("write_ehdr") /\ m' = m /\ file' = file
    BY <1>2 DEF Truncate
  <2>2. /\ cmd' = cmd /\ linked' = linked /\ phase' = "write_ehdr" /\ (IsExec' <=> IsExec)
        /\ Flags' = Flags /\ fix' = fix
    BY <2>1, GotoFrame
  <2>3. BssAhead' <=> BssAhead
    BY <2>1, <2>2 DEF BssAhead
  <2>4. LoopOK'
    BY <1>1, <2>1, <2>2, <2>3 DEF LoopOK
  <2>5. ExecVarsOK'
    BY <1>1, <1>2, <2>1, <2>2, <2>4 DEF ElfInv, ExecInv, ExecVarsOK, ExecPhases
  <2>6. Going("write_ehdr") /\ ObjVarsOK'
    BY <2>2, ExecNotObj DEF Going, Phases, BeforeWrites, Early
  <2>7. QED
    BY <1>1, <2>1, <2>5, <2>6, GotoKeeps
<1>3. CASE m.flags.s
  <2>0. \A code \in {19, 20, 21} : code \in Codes \ {Running, 0} /\ ~Refuses(code)
    BY WriteCodes
  <2>1. CASE Fails({19})
    <3>1. {19} \in SUBSET (Codes \ {Running, 0}) /\ \A code \in {19} : ~Refuses(code)
      BY <2>0
    <3>2. QED
      BY <1>1, <2>1, <3>1, FailsKeep
  <2>2. CASE Stops(20)
    <3>1. 20 \in Codes \ {Running, 0} /\ ~Refuses(20)
      BY <2>0
    <3>2. QED
      BY <1>1, <2>2, <3>1, StopKeeps
  <2>3. CASE Fails({21})
    <3>1. {21} \in SUBSET (Codes \ {Running, 0}) /\ \A code \in {21} : ~Refuses(code)
      BY <2>0
    <3>2. QED
      BY <1>1, <2>3, <3>1, FailsKeep
  <2>4. CASE /\ file' = [file EXCEPT !.len = m.last_off] /\ m' = [m EXCEPT !.ehdr = Unsectioned(@)]
             /\ Goto("write_ehdr")
    BY <1>3, <2>4, Cut
  <2>5. QED
    BY <1>3, <2>1, <2>2, <2>3, <2>4 DEF Truncate
<1>4. QED
  BY <1>2, <1>3

LEMMA WriteEhdrKeeps ==
  ASSUME ElfInv, IsExec, phase = "write_ehdr", WriteEhdr
  PROVE  ElfInv'
<1>1. LoopOK /\ Runs /\ m.flags = Flags /\ Flags # <<>> /\ EhdrOK(m.ehdr) /\ phase \in ExecPhases
  BY LoopFacts DEF ExecPhases
<1>2. CASE Fails({22, 23})
  <2>1. {22, 23} \in SUBSET (Codes \ {Running, 0}) /\ \A code \in {22, 23} : ~Refuses(code)
    BY WriteCodes
  <2>2. QED
    BY <1>1, <1>2, <2>1, FailsKeep
<1>3. CASE file' = [file EXCEPT !.ehdr = m.ehdr] /\ Ends(0) /\ UNCHANGED fix
  <2>1. /\ DOMAIN file' = FileFields /\ file'.ehdr = m.ehdr /\ file'.len = file.len
        /\ file'.phdrs = file.phdrs
        /\ file'.shdrs = file.shdrs /\ file'.shstr = file.shstr /\ file'.syms = file.syms
    BY <1>3 DEF FileOK, FileFields, ElfInv, ExecInv
  <2>2. cmd' = cmd /\ linked' = linked /\ phase' = "ended" /\ exit' = 0 /\ m' = m
    BY <1>3 DEF Ends, cmd
  <2>3. FileOK' /\ LengthOK' /\ NamesKept(linked.shdrs, file'.shdrs)
    BY <1>1, <2>1, <2>2 DEF FileOK, LengthOK, ElfInv, ExecInv, ObjInv
  <2>4. Image(linked.phdrs, file'.phdrs, 0)
    <3>1. ~Torn /\ ~FileGrown
      BY <1>1 DEF Torn, FileGrown, Early, Runs
    <3>2. QED
      BY <2>1, <3>1 DEF SegmentsOK, ElfInv, ExecInv
  <2>5. linked.ehdr.shoff + ShdrSize * linked.ehdr.shnum <= linked.len => Sectioned(file'.ehdr, file'.len)
    <3>1. CASE m.flags.s
      <4>1. m.ehdr.shnum = 0
        BY <1>1, <3>1 DEF ElfInv, ExecInv, ExecVarsOK
      <4>2. QED
        BY <2>1, <4>1 DEF Sectioned
    <3>2. CASE ~m.flags.s
      <4>1. m.ehdr.shnum = file.ehdr.shnum /\ m.ehdr.shoff = file.ehdr.shoff
        BY <1>1, <3>2 DEF ElfInv, ExecInv, ExecVarsOK
      <4>2. linked.ehdr.shoff + ShdrSize * linked.ehdr.shnum <= linked.len => Sectioned(file.ehdr, file.len)
        BY <1>1, <3>2 DEF ElfInv, ExecInv, SectionsOK, Cuts
      <4>3. QED
        BY <2>1, <4>1, <4>2 DEF Sectioned
    <3>3. QED
      BY <3>1, <3>2
  <2>6. StringsOK' /\ SymbolsOK'
    BY <1>1, <2>1, <2>2 DEF ElfInv, ObjInv, StringsOK, SymbolsOK, LastSym, IsExec, Runs
  <2>7. QED
    BY <1>1, <1>3, <2>3, <2>4, <2>5, <2>6, SuccessKeeps DEF Runs
<1>4. QED
  BY <1>2, <1>3 DEF WriteEhdr

LEMMA SstripKeeps ==
  ASSUME ElfInv, SstripNext
  PROVE  ElfInv'
<1>1. cmd.tool = "sstrip" /\ IsExec
  BY DEF SstripNext, SstripStart, SstripHeader, SstripOsabi, SstripPhdrs, SstripPhdr,
         SstripWritePhdrs, SstripTruncate, SstripWriteEhdr, At, IsExec
<1>2. CASE SstripStart
  BY <1>1, <1>2, StartKeeps DEF SstripStart, At, Flags
<1>3. CASE SstripHeader
  BY <1>1, <1>3, HeaderKeeps DEF SstripHeader, At, AfterHeader
<1>4. CASE SstripOsabi
  BY <1>4, SstripOsabiKeeps
<1>5. CASE SstripPhdrs
  <2>1. phase = "phdrs" /\ phase \in ExecPhases
    BY <1>5 DEF SstripPhdrs, At, ExecPhases
  <2> DEFINE v == IF m.flags.h /\ m.ehdr.shentsize = 0 THEN ShdrSize ELSE m.ehdr.shentsize
             e == [m.ehdr EXCEPT !.shentsize = v]
  <2>2. ReadPhdrs(e)
    BY <1>5 DEF SstripPhdrs
  <2>3. EhdrOK(m.ehdr)
    BY <1>1, <2>1, EhdrRead
  <2> HIDE DEF v
  <2>4. EhdrOK(e) /\ e.shnum = m.ehdr.shnum /\ e.shoff = m.ehdr.shoff
    BY <2>3, EntsizeSet
  <2> HIDE DEF e
  <2>5. QED
    BY <1>1, <2>1, <2>2, <2>4, PhdrsKeeps
<1>6. CASE SstripPhdr
  BY <1>6, SstripPhdrKeeps
<1>7. CASE SstripWritePhdrs
  BY <1>1, <1>7, WritePhdrsKeeps DEF SstripWritePhdrs, At
<1>8. CASE SstripTruncate
  BY <1>1, <1>8, TruncateKeeps DEF SstripTruncate, At
<1>9. CASE SstripWriteEhdr
  BY <1>1, <1>9, WriteEhdrKeeps DEF SstripWriteEhdr, At
<1>10. QED
  BY <1>2, <1>3, <1>4, <1>5, <1>6, <1>7, <1>8, <1>9 DEF SstripNext

LEMMA ElfxfixKeeps ==
  ASSUME ElfInv, ElfxfixNext
  PROVE  ElfInv'
<1>1. cmd.tool = "elfxfix" /\ IsExec
  BY DEF ElfxfixNext, ElfxfixStart, ElfxfixHeader, ElfxfixOsabi, ElfxfixPhdrs, ElfxfixPhdr,
         ElfxfixWritePhdrs, ElfxfixTruncate, ElfxfixWriteEhdr, At, IsExec
<1>2. CASE ElfxfixStart
  BY <1>1, <1>2, StartKeeps DEF ElfxfixStart, At, Flags
<1>3. CASE ElfxfixHeader
  BY <1>1, <1>3, HeaderKeeps DEF ElfxfixHeader, At, AfterHeader
<1>4. CASE ElfxfixOsabi
  BY <1>4, ElfxfixOsabiKeeps
<1>5. CASE ElfxfixPhdrs
  <2>1. phase = "phdrs" /\ phase \in ExecPhases /\ ReadPhdrs(m.ehdr)
    BY <1>5 DEF ElfxfixPhdrs, At, ExecPhases
  <2>2. EhdrOK(m.ehdr)
    BY <1>1, <2>1, EhdrRead
  <2>3. QED
    BY <1>1, <2>1, <2>2, PhdrsKeeps
<1>6. CASE ElfxfixPhdr
  BY <1>6, ElfxfixPhdrKeeps
<1>7. CASE ElfxfixWritePhdrs
  BY <1>1, <1>7, WritePhdrsKeeps DEF ElfxfixWritePhdrs, At
<1>8. CASE ElfxfixTruncate
  BY <1>1, <1>8, TruncateKeeps DEF ElfxfixTruncate, At
<1>9. CASE ElfxfixWriteEhdr
  BY <1>1, <1>9, WriteEhdrKeeps DEF ElfxfixWriteEhdr, At
<1>10. QED
  BY <1>2, <1>3, <1>4, <1>5, <1>6, <1>7, <1>8, <1>9 DEF ElfxfixNext

-----------------------------------------------------------------------------
(* Object files: the symbols. *)

\* What FilesAssumption says of the symbols.
Assembled(old) ==
  /\ old \in Seq(Symbols)
  /\ \A i \in DOMAIN old : old[i].name.pre # NoText => HasName(old[i])
  /\ old # <<>> /\ Nameless(old[1]) => old[1].bind = "LOCAL"

LEMMA LinkedAssembled ==
  ASSUME linked \in Files
  PROVE  Assembled(linked.syms)
BY LinkedFacts, FilesAssumption DEF FilesAssumption, Assembled

LEMMA NoTextFacts == NoText # "EXTERN.WEAK.." /\ NoText # "WEAK.."
BY Zenon DEF NoText

LEMMA RenamedFacts ==
  ASSUME NEW s \in Symbols
  PROVE  /\ Renamed(s).name.pre = NoText /\ Renamed(s).name.rest = s.name.rest
         /\ Renamed(s).bind = "WEAK" /\ Renamed(s).shndx = s.shndx
<1> DEFINE name == [s.name EXCEPT !.pre = NoText]
           r == [s EXCEPT !.name = name, !.bind = "WEAK"]
<1>1. s.name \in [pre : STRING, rest : STRING]
  BY DEF Symbols
<1>2. name.pre = NoText /\ name.rest = s.name.rest
  BY <1>1
<1>3. Renamed(s) = r
  BY DEF Renamed
<1> HIDE DEF name
<1>4. r.name = name /\ r.bind = "WEAK" /\ r.shndx = s.shndx
  BY DEF Symbols
<1> HIDE DEF r
<1>5. QED
  BY <1>2, <1>3, <1>4

LEMMA GivenFacts ==
  ASSUME NEW s \in Symbols, NEW p
  PROVE  /\ GivenTo(s, p).name = s.name /\ GivenTo(s, p).type = s.type
         /\ GivenTo(s, p).bind = "WEAK" /\ GivenTo(s, p).shndx = p.shndx /\ GivenTo(s, p).value = p.value
BY DEF GivenTo, Symbols

LEMMA NoSymbolFacts == ~HasName(NoSymbol) /\ NoSymbol.bind = "LOCAL"
BY DEF NoSymbol, HasName

LEMMA AssembledFacts ==
  ASSUME NEW old, Assembled(old)
  PROVE  /\ old \in Seq(Symbols) /\ Len(old) \in Nat /\ DOMAIN old = 1..Len(old)
         /\ \A j \in DOMAIN old : old[j] \in Symbols
BY DEF Assembled

LEMMA WovenFacts ==
  ASSUME NEW old, Assembled(old), NEW syms, NEW n, Woven(old, syms, n)
  PROVE  /\ syms \in Seq(Shapes(old)) /\ Len(syms) = Len(old) /\ DOMAIN syms = DOMAIN old
         /\ \A j \in DOMAIN old : WovenAt(old, syms, n, j)
<1>1. syms \in Seq(Shapes(old)) /\ Len(syms) = Len(old)
  BY DEF Woven
<1>2. DOMAIN syms = 1..Len(syms) /\ DOMAIN old = 1..Len(old)
  BY <1>1, AssembledFacts
<1>3. QED
  BY <1>1, <1>2 DEF Woven

LEMMA WovenSelf ==
  ASSUME NEW old \in Seq(Symbols)
  PROVE  Woven(old, old, 1)
<1>1. \A j \in DOMAIN old : ~(j < 1)
  OBVIOUS
<1>2. \A s : Givers(old, s, 1) = {}
  BY <1>1 DEF Givers
<1>3. old \in Seq(Shapes(old))
  <2>1. \A j \in 1..Len(old) : old[j] \in Shapes(old)
    BY DEF Shapes
  <2>2. QED
    BY <2>1
<1>4. QED
  BY <1>1, <1>2, <1>3 DEF Woven, WovenAt

\* What the loop has gone through is not changed again.
LEMMA WovenPassed ==
  ASSUME NEW old, Assembled(old), NEW syms, NEW n, NEW j \in DOMAIN old, WovenAt(old, syms, n, j), j < n
  PROVE  /\ HasName(syms[j]) => ~ExternWeak(syms[j]) /\ ~LocalWeak(syms[j])
<1>1. old \in Seq(Symbols) /\ old[j] \in Symbols
  BY AssembledFacts
<1>2. CASE ExternWeak(old[j])
  <2>1. syms[j] = Renamed(old[j])
    BY <1>2 DEF WovenAt
  <2>2. syms[j].name.pre = NoText
    BY <1>1, <2>1, RenamedFacts
  <2>3. QED
    BY <2>2, NoTextFacts DEF ExternWeak, LocalWeak
<1>3. CASE LocalWeak(old[j])
  BY <1>3, NoSymbolFacts DEF WovenAt
<1>4. CASE ~ExternWeak(old[j]) /\ ~LocalWeak(old[j])
  <2>1. CASE IsPartner(old[j]) /\ Givers(old, old[j], n) # {}
    <3>1. PICK p \in DOMAIN old : syms[j] = GivenTo(old[j], old[p])
      BY <1>4, <2>1 DEF WovenAt
    <3>2. syms[j].name.pre = NoText
      BY <1>1, <2>1, <3>1, GivenFacts DEF IsPartner
    <3>3. QED
      BY <3>2, NoTextFacts DEF ExternWeak, LocalWeak
  <2>2. CASE ~(IsPartner(old[j]) /\ Givers(old, old[j], n) # {})
    BY <1>4, <2>2 DEF WovenAt
  <2>3. QED
    BY <2>1, <2>2
<1>5. QED
  BY <1>2, <1>3, <1>4

LEMMA WovenStays ==
  ASSUME NEW old, Assembled(old), NEW syms, NEW i \in DOMAIN old, Woven(old, syms, Len(old) + 1)
  PROVE  AfterSymbol(syms, i) = syms
<1>1. i < Len(old) + 1
  BY AssembledFacts
<1>2. WovenAt(old, syms, Len(old) + 1, i)
  BY WovenFacts
<1>3. HasName(syms[i]) => ~ExternWeak(syms[i]) /\ ~LocalWeak(syms[i])
  BY <1>1, <1>2, WovenPassed
<1>4. QED
  BY <1>3 DEF AfterSymbol

LEMMA GiversNext ==
  ASSUME NEW old \in Seq(Symbols), NEW n \in DOMAIN old, NEW s
  PROVE  Givers(old, s, n + 1) =
           IF LocalWeak(old[n]) /\ old[n].name.rest = s.name.rest THEN Givers(old, s, n) \cup {n}
           ELSE Givers(old, s, n)
<1>1. \A p \in DOMAIN old : p < n + 1 <=> p < n \/ p = n
  OBVIOUS
<1>2. QED
  BY <1>1 DEF Givers

\* A symbol whose partner the next one is not.
LEMMA WovenOther ==
  ASSUME NEW old \in Seq(Symbols), NEW syms, NEW new, NEW n \in DOMAIN old, NEW j \in DOMAIN old,
         j # n, WovenAt(old, syms, n, j), new[j] = syms[j],
         IsPartner(old[j]) => ~(LocalWeak(old[n]) /\ old[n].name.rest = old[j].name.rest)
  PROVE  WovenAt(old, new, n + 1, j)
<1>1. j < n <=> j < n + 1
  OBVIOUS
<1>2. IsPartner(old[j]) => Givers(old, old[j], n + 1) = Givers(old, old[j], n)
  BY GiversNext
<1>3. QED
  BY <1>1, <1>2 DEF WovenAt

\* What the loop has not changed of a symbol.
LEMMA WovenNames ==
  ASSUME NEW old, Assembled(old), NEW syms, NEW n, NEW j \in DOMAIN old, WovenAt(old, syms, n, j),
         ~ExternWeak(old[j]), ~LocalWeak(old[j])
  PROVE  /\ syms[j].name = old[j].name /\ (HasName(syms[j]) <=> HasName(old[j]))
         /\ syms[j] # old[j] => syms[j].bind = "WEAK"
<1>1. old[j] \in Symbols
  BY AssembledFacts
<1>2. CASE IsPartner(old[j]) /\ Givers(old, old[j], n) # {}
  <2>1. PICK p \in DOMAIN old : syms[j] = GivenTo(old[j], old[p])
    BY <1>2 DEF WovenAt
  <2>2. QED
    BY <1>1, <2>1, GivenFacts DEF HasName
<1>3. CASE ~(IsPartner(old[j]) /\ Givers(old, old[j], n) # {})
  BY <1>3 DEF WovenAt
<1>4. QED
  BY <1>2, <1>3

LEMMA OnePartner ==
  ASSUME NEW S, NEW syms \in Seq(S), NEW i \in DOMAIN syms, PartnerCode(syms, i) = 0
  PROVE  \E x \in DOMAIN syms \ {i} : Partners(syms, i) = {x} /\ IsExtern(syms[x])
<1> DEFINE P == Partners(syms, i)
           least == CHOOSE j \in P : \A k \in P : j <= k
<1>1. P \subseteq 1..Len(syms) /\ P \subseteq DOMAIN syms \ {i} /\ Len(syms) \in Nat
  BY DEF Partners
<1>2. P # {} /\ IsExtern(syms[least]) /\ ~(Cardinality(P) > 1)
  BY DEF PartnerCode
<1> HIDE DEF P
<1>3. IsFiniteSet(P)
  <2>1. 1 \in Int /\ Len(syms) \in Int
    BY <1>1
  <2>2. IsFiniteSet(1..Len(syms))
    BY <2>1, FS_Interval
  <2>3. QED
    BY <1>1, <2>2, FS_Subset
<1>4. Cardinality(P) = 1
  <2>1. Cardinality(P) \in Nat /\ Cardinality(P) # 0
    BY <1>2, <1>3, FS_CardinalityType, FS_EmptySet
  <2>2. QED
    BY <1>2, <2>1
<1>5. PICK x : P = {x}
  BY <1>3, <1>4, FS_Singleton
<1>6. least = x
  <2>1. x \in Nat
    BY <1>1, <1>5
  <2>2. QED
    BY <1>5, <2>1
<1>7. QED
  BY <1>1, <1>2, <1>5, <1>6 DEF P

LEMMA WeakenedFacts ==
  ASSUME NEW S, NEW syms \in Seq(S), NEW i \in DOMAIN syms, NEW x \in DOMAIN syms, x # i,
         Partners(syms, i) = {x}, NoSymbol \in S, GivenTo(syms[x], syms[i]) \in S
  PROVE  /\ Weakened(syms, i) \in Seq(S) /\ Len(Weakened(syms, i)) = Len(syms)
         /\ Weakened(syms, i)[x] = GivenTo(syms[x], syms[i]) /\ Weakened(syms, i)[i] = NoSymbol
         /\ \A j \in DOMAIN syms \ {x, i} : Weakened(syms, i)[j] = syms[j]
<1> DEFINE g == GivenTo(syms[x], syms[i])
           none == NoSymbol
           w == [syms EXCEPT ![x] = g, ![i] = none]
<1>1. (CHOOSE k \in Partners(syms, i) : TRUE) = x
  OBVIOUS
<1>2. Weakened(syms, i) = w
  BY <1>1, Zenon DEF Weakened, GivenTo
<1>3. g \in S /\ none \in S
  OBVIOUS
<1> HIDE DEF g, none
<1>4. /\ w \in Seq(S) /\ Len(w) = Len(syms) /\ w[x] = g /\ w[i] = none
      /\ \A j \in DOMAIN syms \ {x, i} : w[j] = syms[j]
  BY <1>3
<1> HIDE DEF w
<1>5. QED
  BY <1>2, <1>4 DEF g, none

LEMMA WovenExtern ==
  ASSUME NEW old, Assembled(old), NEW syms, NEW n \in DOMAIN old, Woven(old, syms, n), ExternWeak(old[n])
  PROVE  Woven(old, AfterSymbol(syms, n), n + 1)
<1> DEFINE r == Renamed(old[n])
           new == [syms EXCEPT ![n] = r]
<1>1. /\ old \in Seq(Symbols) /\ syms \in Seq(Shapes(old)) /\ Len(syms) = Len(old)
      /\ n \in DOMAIN syms /\ old[n] \in Symbols /\ DOMAIN syms = DOMAIN old /\ n \in Nat
  BY AssembledFacts, WovenFacts
<1>2. syms[n] = old[n] /\ HasName(old[n]) /\ ~Nameless(old[n])
  <2>1. ~(n < n) /\ WovenAt(old, syms, n, n)
    BY <1>1, WovenFacts
  <2>2. old[n].name.pre # NoText
    BY NoTextFacts DEF ExternWeak
  <2>3. QED
    BY <2>1, <2>2 DEF WovenAt, Assembled, Nameless
<1>3. AfterSymbol(syms, n) = new
  <2>1. HasName(syms[n]) /\ ~Skipped(syms, n) /\ ExternWeak(syms[n])
    BY <1>2 DEF Skipped
  <2>2. AfterSymbol(syms, n) = [syms EXCEPT ![n] = [@ EXCEPT !.name.pre = NoText, !.bind = "WEAK"]]
    BY <2>1, Zenon DEF AfterSymbol
  <2>3. QED
    BY <1>2, <2>2, Zenon DEF Renamed
<1>4. r \in Shapes(old)
  BY DEF Shapes
<1> HIDE DEF r
<1>5. /\ new \in Seq(Shapes(old)) /\ Len(new) = Len(old) /\ new[n] = r
      /\ \A j \in DOMAIN old : j # n => new[j] = syms[j]
  BY <1>1, <1>4
<1> HIDE DEF new
<1>6. ~LocalWeak(old[n])
  BY DEF LocalWeak, ExternWeak
<1>7. \A j \in DOMAIN old : WovenAt(old, new, n + 1, j)
  <2> SUFFICES ASSUME NEW j \in DOMAIN old PROVE WovenAt(old, new, n + 1, j)
    OBVIOUS
  <2>1. CASE j = n
    <3>1. n < n + 1
      BY <1>1
    <3>2. QED
      BY <1>5, <1>6, <2>1, <3>1 DEF WovenAt, r
  <2>2. CASE j # n
    <3>1. WovenAt(old, syms, n, j)
      BY WovenFacts
    <3>2. QED
      BY <1>1, <1>5, <1>6, <2>2, <3>1, WovenOther
  <2>3. QED
    BY <2>1, <2>2
<1>8. QED
  BY <1>3, <1>5, <1>7 DEF Woven

LEMMA WovenLocal ==
  ASSUME NEW old, Assembled(old), NEW syms, NEW n \in DOMAIN old, Woven(old, syms, n),
         LocalWeak(old[n]), SymbolCode(syms, n) = 0
  PROVE  Woven(old, AfterSymbol(syms, n), n + 1)
<1> DEFINE new == Weakened(syms, n)
<1>1. /\ old \in Seq(Symbols) /\ syms \in Seq(Shapes(old)) /\ Len(syms) = Len(old)
      /\ n \in DOMAIN syms /\ old[n] \in Symbols /\ DOMAIN syms = DOMAIN old /\ n \in Nat
  BY AssembledFacts, WovenFacts
<1>2. ~ExternWeak(old[n])
  BY DEF LocalWeak, ExternWeak
<1>3. syms[n] = old[n] /\ HasName(old[n]) /\ ~Nameless(old[n])
  <2>1. ~(n < n) /\ WovenAt(old, syms, n, n)
    BY <1>1, WovenFacts
  <2>2. old[n].name.pre # NoText
    BY NoTextFacts DEF LocalWeak
  <2>3. QED
    BY <2>1, <2>2 DEF WovenAt, Assembled, Nameless
<1>4. AfterSymbol(syms, n) = new /\ PartnerCode(syms, n) = 0
  <2>1. /\ HasName(syms[n]) /\ ~Skipped(syms, n) /\ LocalWeak(syms[n]) /\ ~ExternWeak(syms[n])
        /\ syms[n].name.pre # "bad"
    BY <1>2, <1>3 DEF Skipped, LocalWeak
  <2>2. QED
    BY <2>1, Zenon DEF AfterSymbol, SymbolCode
<1>5. PICK x \in DOMAIN syms \ {n} : Partners(syms, n) = {x} /\ IsExtern(syms[x])
  BY <1>1, <1>4, OnePartner
<1>6. syms[x].name = [pre |-> NoText, rest |-> old[n].name.rest] /\ HasName(syms[x])
  <2>1. x \in Partners(syms, n)
    BY <1>5
  <2>2. QED
    BY <1>3, <2>1 DEF Partners
<1>7. /\ ~ExternWeak(old[x]) /\ ~LocalWeak(old[x]) /\ old[x] = syms[x] /\ IsPartner(old[x])
      /\ Givers(old, old[x], n) = {} /\ old[x].name.rest = old[n].name.rest /\ old[x] \in Symbols
  <2>1. WovenAt(old, syms, n, x) /\ old[x] \in Symbols /\ x \in DOMAIN old
    BY <1>1, <1>5, WovenFacts, AssembledFacts
  <2>2. ~ExternWeak(old[x])
    <3>1. CASE ~(x < n)
      BY <1>6, <2>1, <3>1, NoTextFacts DEF WovenAt, ExternWeak
    <3>2. CASE x < n
      <4>1. ExternWeak(old[x]) => syms[x].bind = "WEAK"
        BY <2>1, <3>2, RenamedFacts DEF WovenAt
      <4>2. QED
        BY <1>5, <4>1 DEF IsExtern
    <3>3. QED
      BY <3>1, <3>2
  <2>3. ~LocalWeak(old[x])
    <3>1. LocalWeak(old[x]) => syms[x] = NoSymbol \/ syms[x] = old[x]
      BY <2>1 DEF WovenAt
    <3>2. QED
      BY <1>5, <3>1, NoSymbolFacts DEF IsExtern, LocalWeak
  <2>4. old[x] = syms[x]
    BY <1>5, <2>1, <2>2, <2>3, WovenNames DEF IsExtern
  <2>5. IsPartner(old[x]) /\ old[x].name.rest = old[n].name.rest
    BY <1>5, <1>6, <2>4 DEF IsPartner
  <2>6. Givers(old, old[x], n) = {}
    <3>1. SUFFICES ASSUME Givers(old, old[x], n) # {} PROVE FALSE
      OBVIOUS
    <3>2. PICK p \in DOMAIN old : syms[x] = GivenTo(old[x], old[p])
      BY <2>1, <2>2, <2>3, <2>5, <3>1 DEF WovenAt
    <3>3. syms[x].bind = "WEAK"
      BY <1>1, <2>1, <3>2, GivenFacts
    <3>4. QED
      BY <1>5, <3>3 DEF IsExtern
  <2>7. QED
    BY <2>1, <2>2, <2>3, <2>4, <2>5, <2>6
<1>8. /\ new \in Seq(Shapes(old)) /\ Len(new) = Len(old) /\ new[x] = GivenTo(syms[x], old[n])
      /\ new[n] = NoSymbol /\ \A j \in DOMAIN old \ {x, n} : new[j] = syms[j]
  <2>1. NoSymbol \in Shapes(old) /\ GivenTo(syms[x], syms[n]) \in Shapes(old)
    BY <1>1, <1>3, <1>5, <1>7 DEF Shapes
  <2>2. x \in DOMAIN syms /\ x # n /\ Partners(syms, n) = {x}
    BY <1>5
  <2>3. QED
    BY <1>1, <1>3, <2>1, <2>2, WeakenedFacts
<1> HIDE DEF new
<1>9. \A j \in DOMAIN old : WovenAt(old, new, n + 1, j)
  <2> SUFFICES ASSUME NEW j \in DOMAIN old PROVE WovenAt(old, new, n + 1, j)
    OBVIOUS
  <2>1. CASE j = n
    <3>1. n < n + 1
      BY <1>1
    <3>2. QED
      BY <1>2, <1>8, <2>1, <3>1 DEF WovenAt
  <2>2. CASE j = x
    <3>1. Givers(old, old[x], n + 1) = {n}
      <4>1. Givers(old, old[x], n + 1) = Givers(old, old[x], n) \cup {n}
        BY <1>1, <1>7, GiversNext
      <4>2. QED
        BY <1>7, <4>1
    <3>2. new[x] = GivenTo(old[x], old[n])
      BY <1>8, <1>7
    <3>3. QED
      BY <1>7, <2>2, <3>1, <3>2 DEF WovenAt
  <2>3. CASE j # n /\ j # x
    <3>1. WovenAt(old, syms, n, j) /\ new[j] = syms[j]
      BY <1>8, <2>3, WovenFacts
    <3>2. ASSUME IsPartner(old[j]), old[n].name.rest = old[j].name.rest
          PROVE  FALSE
      <4>1. ~ExternWeak(old[j]) /\ ~LocalWeak(old[j])
        BY <3>2, NoTextFacts DEF IsPartner, IsExtern, ExternWeak, LocalWeak
      <4>2. syms[j].name = old[j].name /\ HasName(syms[j])
        BY <3>1, <3>2, <4>1, WovenNames DEF IsPartner
      <4>3. old[j].name = [pre |-> NoText, rest |-> old[n].name.rest]
        <5>1. old[j].name \in [pre : STRING, rest : STRING]
          BY AssembledFacts DEF Symbols
        <5>2. QED
          BY <3>2, <5>1 DEF IsPartner
      <4>4. ~(j = 1 /\ Nameless(syms[1]))
        <5>1. SUFFICES ASSUME j = 1, Nameless(syms[1]) PROVE FALSE
          OBVIOUS
        <5>2. Nameless(old[1]) /\ old # <<>>
          BY <1>1, <4>2, <5>1 DEF Nameless
        <5>3. old[1].bind = "LOCAL"
          BY <5>2 DEF Assembled
        <5>4. QED
          BY <3>2, <5>1, <5>3 DEF IsPartner, IsExtern
      <4>5. j \in Partners(syms, n)
        BY <1>1, <1>3, <2>3, <4>2, <4>3, <4>4 DEF Partners
      <4>6. QED
        BY <1>5, <2>3, <4>5
    <3>3. QED
      BY <1>1, <2>3, <3>1, <3>2, WovenOther
  <2>4. QED
    BY <2>1, <2>2, <2>3
<1>10. QED
  BY <1>4, <1>8, <1>9 DEF Woven

LEMMA WovenNext ==
  ASSUME NEW old, Assembled(old), NEW syms, NEW n \in DOMAIN old, Woven(old, syms, n),
         SymbolCode(syms, n) = 0
  PROVE  Woven(old, AfterSymbol(syms, n), n + 1)
<1>1. old \in Seq(Symbols)
  BY AssembledFacts
<1>2. CASE ExternWeak(old[n])
  BY <1>2, WovenExtern
<1>3. CASE LocalWeak(old[n])
  BY <1>3, WovenLocal
<1>4. CASE ~ExternWeak(old[n]) /\ ~LocalWeak(old[n])
  <2>1. WovenAt(old, syms, n, n)
    BY WovenFacts
  <2>2. ~ExternWeak(syms[n]) /\ ~LocalWeak(syms[n])
    <3>1. CASE syms[n] = old[n]
      BY <1>4, <3>1
    <3>2. CASE syms[n] # old[n]
      <4>1. IsPartner(old[n])
        BY <1>4, <2>1, <3>2 DEF WovenAt
      <4>2. syms[n].name.pre = NoText
        BY <1>4, <2>1, <4>1, WovenNames DEF IsPartner
      <4>3. QED
        BY <4>2, NoTextFacts DEF ExternWeak, LocalWeak
    <3>3. QED
      BY <3>1, <3>2
  <2>3. AfterSymbol(syms, n) = syms
    BY <2>2 DEF AfterSymbol
  <2>4. \A j \in DOMAIN old : WovenAt(old, syms, n + 1, j)
    <3> SUFFICES ASSUME NEW j \in DOMAIN old PROVE WovenAt(old, syms, n + 1, j)
      OBVIOUS
    <3>1. WovenAt(old, syms, n, j)
      BY WovenFacts
    <3>2. CASE j # n
      BY <1>1, <1>4, <3>1, <3>2, WovenOther
    <3>3. CASE j = n
      <4>1. Givers(old, old[n], n + 1) = Givers(old, old[n], n)
        BY <1>1, <1>4, GiversNext
      <4>2. QED
        BY <1>4, <3>1, <3>3, <4>1 DEF WovenAt
    <3>4. QED
      BY <3>2, <3>3
  <2>5. QED
    BY <2>3, <2>4 DEF Woven
<1>5. QED
  BY <1>2, <1>3, <1>4

-----------------------------------------------------------------------------
(* Object files: the exit codes of the checks, and how the tools end. *)

LEMMA MoreCodes ==
  ASSUME NEW S, NEW c \in Seq(S), NEW d \in Seq(S)
  PROVE  /\ Len(c \o d) = Len(c) + Len(d) /\ Len(c) \in Nat /\ Len(d) \in Nat
         /\ \A i \in 1..Len(c) : (c \o d)[i] = c[i]
         /\ \A i \in 1..Len(d) : (c \o d)[Len(c) + i] = d[i]
OBVIOUS

LEMMA ShdrCodes ==
  ASSUME NEW e, NEW S, NEW d \in Seq(S)
  PROVE  LET c == ShdrChecks(e) \o d IN
         FirstFailure(c) \in {0, 9, 10, 11} \/ \E i \in 1..Len(d) : FirstFailure(c) = d[i][2]
<1> DEFINE a == ShdrChecks(e)
           T == S \cup {a[1], a[2], a[3]}
           c == a \o d
<1>1. Len(a) = 3 /\ a \in Seq({a[1], a[2], a[3]})
  BY DEF ShdrChecks
<1>2. a[1][2] = 9 /\ a[2][2] = 10 /\ a[3][2] = 11
  BY DEF ShdrChecks
<1> HIDE DEF a
<1>3. a \in Seq(T) /\ d \in Seq(T)
  BY <1>1
<1> HIDE DEF T
<1>4. /\ Len(c) = 3 + Len(d) /\ Len(d) \in Nat
      /\ \A i \in 1..3 : c[i] = a[i]
      /\ \A i \in 1..Len(d) : c[3 + i] = d[i]
  <2>1. /\ Len(c) = Len(a) + Len(d) /\ Len(d) \in Nat
        /\ \A i \in 1..Len(a) : c[i] = a[i]
        /\ \A i \in 1..Len(d) : c[Len(a) + i] = d[i]
    BY <1>3, MoreCodes
  <2> HIDE DEF c
  <2>2. QED
    BY <1>1, <2>1
<1> HIDE DEF c
<1>5. FirstFailure(c) = 0 \/ \E i \in 1..Len(c) : FirstFailure(c) = c[i][2]
  <2>1. Len(c) \in Nat
    BY <1>4
  <2>2. QED
    BY <2>1, FailureCode
<1>6. \A i \in 1..Len(c) : c[i][2] \in {9, 10, 11} \/ \E j \in 1..Len(d) : c[i][2] = d[j][2]
  <2> TAKE i \in 1..Len(c)
  <2>1. CASE i <= 3
    <3>1. i = 1 \/ i = 2 \/ i = 3
      BY <1>4, <2>1
    <3>2. QED
      BY <1>2, <1>4, <3>1
  <2>2. CASE i > 3
    <3>1. i - 3 \in 1..Len(d) /\ 3 + (i - 3) = i
      BY <1>4, <2>2
    <3>2. c[i] = d[i - 3]
      BY <1>4, <3>1
    <3>3. QED
      BY <3>1, <3>2
  <2>3. QED
    BY <1>4, <2>1, <2>2
<1>7. QED
  BY <1>5, <1>6 DEF c, a

LEMMA ElfofixShdrsCode ==
  ASSUME NEW e
  PROVE  FirstFailure(ShdrChecks(e) \o <<<<e.shstrndx = 0, 12>>, <<e.shstrndx >= e.shnum, 13>>>>)
           \in {0, 9, 10, 11, 12, 13}
<1> DEFINE d == <<<<e.shstrndx = 0, 12>>, <<e.shstrndx >= e.shnum, 13>>>>
<1>1. d \in Seq({d[1], d[2]}) /\ Len(d) = 2
  OBVIOUS
<1>2. d[1][2] = 12 /\ d[2][2] = 13
  OBVIOUS
<1> HIDE DEF d
<1>3. \A i \in 1..2 : i = 1 \/ i = 2
  OBVIOUS
<1>4. FirstFailure(ShdrChecks(e) \o d) \in {0, 9, 10, 11}
        \/ \E i \in 1..Len(d) : FirstFailure(ShdrChecks(e) \o d) = d[i][2]
  BY <1>1, ShdrCodes
<1>5. FirstFailure(ShdrChecks(e) \o d) \in {0, 9, 10, 11, 12, 13}
  BY <1>1, <1>2, <1>3, <1>4
<1>6. QED
  BY <1>5 DEF d

LEMMA ShstrtabCode ==
  ASSUME NEW e, NEW a, NEW b, NEW c, NEW f, NEW g
  PROVE  FirstFailure(ShdrChecks(e) \o << <<a, 12>>, <<b, 14>>, <<c, 15>>, <<f, 16>>, <<g, 19>> >>)
           \in {0, 9, 10, 11, 12, 14, 15, 16, 19}
<1> DEFINE d == << <<a, 12>>, <<b, 14>>, <<c, 15>>, <<f, 16>>, <<g, 19>> >>
<1>1. d \in Seq({d[1], d[2], d[3], d[4], d[5]}) /\ Len(d) = 5
  OBVIOUS
<1>2. d[1][2] = 12 /\ d[2][2] = 14 /\ d[3][2] = 15 /\ d[4][2] = 16 /\ d[5][2] = 19
  OBVIOUS
<1> HIDE DEF d
<1>3. \A i \in 1..5 : i = 1 \/ i = 2 \/ i = 3 \/ i = 4 \/ i = 5
  OBVIOUS
<1>4. FirstFailure(ShdrChecks(e) \o d) \in {0, 9, 10, 11}
        \/ \E i \in 1..Len(d) : FirstFailure(ShdrChecks(e) \o d) = d[i][2]
  BY <1>1, ShdrCodes
<1>5. FirstFailure(ShdrChecks(e) \o d) \in {0, 9, 10, 11, 12, 14, 15, 16, 19}
  BY <1>1, <1>2, <1>3, <1>4
<1>6. QED
  BY <1>5 DEF d

LEMMA SymtabCode ==
  ASSUME NEW symtabs, NEW sym, NEW str
  PROVE  FirstFailure(SymtabChecks(symtabs, sym, str)) \in 0..30 \ 1..16
<1> DEFINE c == SymtabChecks(symtabs, sym, str)
<1>1. Len(c) = 10
  BY DEF SymtabChecks
<1>2. /\ c[1][2] = 17 /\ c[2][2] = 18 /\ c[3][2] = 19 /\ c[4][2] = 20 /\ c[5][2] = 21
      /\ c[6][2] = 22 /\ c[7][2] = 23 /\ c[8][2] = 24 /\ c[9][2] = 27 /\ c[10][2] = 30
  BY DEF SymtabChecks
<1> HIDE DEF c
<1>3. \A i \in 1..10 : \/ i = 1 \/ i = 2 \/ i = 3 \/ i = 4 \/ i = 5
                       \/ i = 6 \/ i = 7 \/ i = 8 \/ i = 9 \/ i = 10
  OBVIOUS
<1>4. FirstFailure(c) = 0 \/ \E i \in 1..10 : FirstFailure(c) = c[i][2]
  BY <1>1, FailureCode
<1>5. FirstFailure(c) \in 0..30 \ 1..16
  BY <1>2, <1>3, <1>4
<1>6. QED
  BY <1>5 DEF c

LEMMA SymbolCodes ==
  ASSUME NEW syms, NEW i
  PROVE  SymbolCode(syms, i) \in {0, 31, 32, 33, 34}
BY DEF SymbolCode, PartnerCode

IsObj == cmd.tool \in {"elfofix", "elfnostack"}

LEMMA ObjFacts ==
  ASSUME IsObj
  PROVE  ~IsExec /\ ~Shrinks(cmd) /\ ~Cuts /\ cmd.tool # "relink"
BY DEF IsObj, IsExec, Shrinks, Cuts

\* What the tools for object files never change.
SameSegments ==
  DOMAIN file' = FileFields /\ file'.len = file.len /\ file'.ehdr = file.ehdr /\ file'.phdrs = file.phdrs

LEMMA SegmentsSame ==
  ASSUME ElfInv, IsObj, Runs, SameSegments, linked' = linked
  PROVE  /\ FileOK' /\ LengthOK' /\ Image(linked.phdrs, file'.phdrs, 0)
         /\ linked.ehdr.shoff + ShdrSize * linked.ehdr.shnum <= linked.len => Sectioned(file'.ehdr, file'.len)
<1> USE DEF ElfInv, ExecInv
<1>1. ~Torn /\ ~FileGrown
  BY ObjFacts DEF Torn, FileGrown, Runs
<1>2. FileOK' /\ LengthOK'
  BY DEF FileOK, LengthOK, SameSegments
<1>3. Image(linked.phdrs, file'.phdrs, 0)
  BY <1>1 DEF SegmentsOK, SameSegments
<1>4. linked.ehdr.shoff + ShdrSize * linked.ehdr.shnum <= linked.len => Sectioned(file'.ehdr, file'.len)
  BY ObjFacts DEF SectionsOK, SameSegments
<1>5. QED
  BY <1>2, <1>3, <1>4

\* A tool for object files ends after a write.
LEMMA ObjEnds ==
  ASSUME ElfInv, IsObj, Runs, SameSegments, NEW code \in Codes \ {Running}, Ends(code), UNCHANGED fix,
         code = 0 \/ ~Refuses(code), NamesKept(linked.shdrs, file'.shdrs), StringsOK', SymbolsOK'
  PROVE  ElfInv'
<1> USE DEF ElfInv, ExecInv, ObjInv
<1>1. /\ ControlOK' /\ ExecVarsOK' /\ ObjVarsOK' /\ cmd' = cmd /\ linked' = linked
      /\ phase' = "ended" /\ exit' = code /\ m' = m /\ retries' = retries
  BY EndFrame
<1>2. /\ FileOK' /\ LengthOK' /\ Image(linked.phdrs, file'.phdrs, 0)
      /\ linked.ehdr.shoff + ShdrSize * linked.ehdr.shnum <= linked.len => Sectioned(file'.ehdr, file'.len)
  BY <1>1, SegmentsSame
<1>3. CASE code = 0
  BY <1>2, <1>3, ObjFacts, SuccessKeeps
<1>4. CASE code # 0
  <2>1. FixOK'
    BY <1>1 DEF FixOK
  <2>2. SegmentsOK'
    <3>1. ~Torn' /\ ~FileGrown'
      <4>1. ~Shrinks(cmd)' /\ cmd'.tool # "relink"
        BY <1>1, ObjFacts
      <4>2. QED
        BY <4>1 DEF Torn, FileGrown
    <3>2. QED
      BY <1>1, <1>2, <3>1 DEF SegmentsOK
  <2>3. SectionsOK'
    BY <1>1, <1>2 DEF SectionsOK
  <2>4. UntouchedOK'
    BY <1>1, <1>4 DEF UntouchedOK, RefusedUntouched, Refuses, BeforeWrites, Early
  <2>5. QED
    BY <1>1, <1>2, <2>1, <2>2, <2>3, <2>4
<1>5. QED
  BY <1>3, <1>4

\* It goes on after a write.
LEMMA ObjGoes ==
  ASSUME ElfInv, IsObj, Runs, SameSegments, NEW next \in {"symbols", "done"}, Goto(next),
         NamesKept(linked.shdrs, file'.shdrs), file'.shstr = file.shstr, file'.syms = file.syms, ObjVarsOK'
  PROVE  ElfInv'
<1> USE DEF ElfInv, ExecInv, ObjInv
<1>1. /\ cmd' = cmd /\ linked' = linked /\ phase' = next /\ exit' = exit /\ plan' = plan
      /\ retries' = retries /\ fix' = fix /\ settled' = settled
  BY GotoFrame
<1>2. /\ FileOK' /\ LengthOK' /\ Image(linked.phdrs, file'.phdrs, 0)
      /\ linked.ehdr.shoff + ShdrSize * linked.ehdr.shnum <= linked.len => Sectioned(file'.ehdr, file'.len)
  BY <1>1, SegmentsSame
<1>3. ControlOK' /\ FixOK'
  BY <1>1 DEF ControlOK, FixOK, Phases, Runs
<1>4. SegmentsOK'
  <2>1. ~Torn' /\ ~FileGrown'
    <3>1. ~Shrinks(cmd)' /\ cmd'.tool # "relink"
      BY <1>1, ObjFacts
    <3>2. QED
      BY <3>1 DEF Torn, FileGrown
  <2>2. QED
    BY <1>1, <1>2, <2>1 DEF SegmentsOK
<1>5. SectionsOK'
  BY <1>1, <1>2 DEF SectionsOK
<1>6. UntouchedOK'
  BY <1>1 DEF UntouchedOK, RefusedUntouched, BeforeWrites, Early
<1>7. StringsOK' /\ SymbolsOK'
  BY <1>1 DEF StringsOK, SymbolsOK, LastSym, Runs
<1>8. ExecVarsOK'
  BY <1>1, ObjFacts, ObjNotExec
<1>9. NamesKept(linked.shdrs, file.shdrs)'
  BY <1>1
<1>10. QED
  BY <1>2, <1>3, <1>4, <1>5, <1>6, <1>7, <1>8, <1>9

-----------------------------------------------------------------------------
(* elfofix. *)

LEMMA NamesMixed ==
  ASSUME NEW old, NEW a, NEW b, NamesKept(old, a), NamesKept(old, b), NEW k
  PROVE  NamesKept(old, Mixed(a, b, k))
<1> DEFINE c == Mixed(a, b, k)
<1>1. DOMAIN c = DOMAIN old /\ \A i \in DOMAIN old : c[i] = a[i] \/ c[i] = b[i]
  BY DEF Mixed, NamesKept
<1> HIDE DEF c
<1>2. NamesKept(old, c)
  BY <1>1 DEF NamesKept
<1>3. QED
  BY <1>2 DEF c

LEMMA NamesFlagged ==
  ASSUME linked \in Files, NEW shdrs, NamesKept(linked.shdrs, shdrs)
  PROVE  NamesKept(linked.shdrs, WithFlags(shdrs))
<1> DEFINE new == WithFlags(shdrs)
           old == linked.shdrs
<1>1. \A i \in DOMAIN old : "name" \in DOMAIN old[i] /\ "tail" \in DOMAIN old[i]
  <2>1. old \in Seq(Shdrs)
    BY LinkedFacts DEF ElfFiles
  <2>2. \A i \in DOMAIN old : old[i] \in Shdrs
    BY <2>1
  <2>3. QED
    BY <2>2 DEF Shdrs
<1>2. DOMAIN new = DOMAIN old
  BY DEF WithFlags, NamesKept
<1>3. ASSUME NEW i \in DOMAIN old
      PROVE  /\ DOMAIN new[i] = DOMAIN old[i]
             /\ new[i].name = old[i].name /\ new[i].tail = old[i].tail
  <2> DEFINE s == shdrs[i]
             f == s.flags \cup StringFlags
  <2>1. i \in DOMAIN shdrs /\ DOMAIN s = DOMAIN old[i] /\ s.name = old[i].name /\ s.tail = old[i].tail
    BY DEF NamesKept
  <2>2. new[i] = s \/ new[i] = [s EXCEPT !.flags = f]
    BY <2>1, Zenon DEF WithFlags
  <2> HIDE DEF s, f, new
  <2>3. "name" \in DOMAIN s /\ "tail" \in DOMAIN s
    BY <1>1, <2>1
  <2>4. QED
    BY <2>1, <2>2, <2>3
<1> HIDE DEF new
<1>4. NamesKept(old, new)
  BY <1>2, <1>3 DEF NamesKept
<1>5. QED
  BY <1>4 DEF new

LEMMA ShdrsSet ==
  ASSUME FileOK, NEW s, file' = [file EXCEPT !.shdrs = s]
  PROVE  SameSegments /\ file'.shdrs = s /\ file'.shstr = file.shstr /\ file'.syms = file.syms
BY DEF FileOK, FileFields, SameSegments

LEMMA SymsSet ==
  ASSUME FileOK, NEW s, file' = [file EXCEPT !.syms = s]
  PROVE  SameSegments /\ file'.syms = s /\ file'.shstr = file.shstr /\ file'.shdrs = file.shdrs
BY DEF FileOK, FileFields, SameSegments

LEMMA ElfofixShdrsKeeps ==
  ASSUME ElfInv, ElfofixShdrs
  PROVE  ElfInv'
<1> DEFINE e == m.ehdr
           code == FirstFailure(ShdrChecks(e) \o <<<<e.shstrndx = 0, 12>>, <<e.shstrndx >= e.shnum, 13>>>>)
           next == IF m.flags.r THEN "flags" ELSE "symbols"
           goes == Goto(next) /\ m' = [flags |-> m.flags, ehdr |-> e, shdrs |-> file.shdrs] /\ UNCHANGED file
<1>1. phase = "shdrs" /\ cmd.tool = "elfofix" /\ IsObj /\ Runs /\ phase \in BeforeWrites
  BY DEF ElfofixShdrs, At, IsObj, Runs, BeforeWrites
<1>2. code \in {0, 9, 10, 11, 12, 13}
  BY ElfofixShdrsCode
<1>3. \/ code # 0 /\ Stops(code)
      \/ code = 0 /\ ~m.flags.w /\ ~m.flags.r /\ Stops(0)
      \/ code = 0 /\ (Fails({14, 15, 16}) \/ Stops(16) \/ goes)
  BY Zenon DEF ElfofixShdrs, Checked
<1> HIDE DEF code
<1>4. CASE code # 0 /\ Stops(code)
  <2>1. code \in Codes \ {Running, 0}
    BY <1>2, <1>4 DEF Codes, Running
  <2>2. QED
    BY <1>1, <1>4, <2>1, StopKeeps
<1>5. CASE ~m.flags.w /\ Stops(0)
  BY <1>1, <1>5, ObjFacts, StopZeroKeeps
<1>6. CASE Fails({14, 15, 16})
  <2>1. {14, 15, 16} \in SUBSET (Codes \ {Running, 0})
    BY DEF Codes, Running
  <2>2. QED
    BY <1>1, <1>6, <2>1, FailsKeep
<1>7. CASE Stops(16)
  <2>1. 16 \in Codes \ {Running, 0}
    BY DEF Codes, Running
  <2>2. QED
    BY <1>1, <1>7, <2>1, StopKeeps
<1>8. CASE goes
  <2>1. next \in {"flags", "symbols"}
    OBVIOUS
  <2>2. Goto(next) /\ UNCHANGED file
    BY <1>8
  <2>3. DOMAIN m' = {"flags", "ehdr", "shdrs"} /\ m'.shdrs = file.shdrs
    BY <1>8
  <2> HIDE DEF next
  <2>4. cmd' = cmd /\ linked' = linked /\ phase' = next
    BY <2>2, GotoFrame
  <2>5. NamesKept(linked.shdrs, file.shdrs)
    BY DEF ElfInv, ObjInv
  <2>6. ObjVarsOK'
    BY <1>1, <2>1, <2>3, <2>4, <2>5 DEF ObjVarsOK
  <2>7. ExecVarsOK'
    BY <1>1, <2>4, ObjFacts, ObjNotExec
  <2>8. Going(next)
    BY <1>1, <2>1, ObjFacts DEF Going, Phases
  <2>9. QED
    BY <1>1, <2>2, <2>6, <2>7, <2>8, GotoKeeps
<1>9. QED
  BY <1>3, <1>4, <1>5, <1>6, <1>7, <1>8

LEMMA ElfofixStringsKeeps ==
  ASSUME ElfInv, ElfofixStrings
  PROVE  ElfInv'
<1> DEFINE shdrs == WithFlags(m.shdrs)
           where == IF m.flags.w THEN "symbols" ELSE "done"
           next == m' = [m EXCEPT !.shdrs = shdrs] /\ Goto(where)
<1>1. phase = "flags" /\ cmd.tool = "elfofix" /\ IsObj /\ Runs
  BY DEF ElfofixStrings, At, IsObj, Runs
<1>2. /\ linked \in Files /\ FileOK /\ NamesKept(linked.shdrs, m.shdrs) /\ DOMAIN m = {"flags", "ehdr", "shdrs"}
      /\ NamesKept(linked.shdrs, file.shdrs)
  BY <1>1 DEF ElfInv, ExecInv, ObjInv, ControlOK, ObjVarsOK
<1>3. NamesKept(linked.shdrs, shdrs)
  BY <1>2, NamesFlagged
<1>4. \A code \in 50..54 : code \in Codes \ {Running, 0} /\ ~Refuses(code)
  BY <1>1 DEF Codes, Running, Refuses
<1>5. \/ Fails({50, 51, 52}) \/ Stops(52) \/ Fails({53})
      \/ next /\ UNCHANGED file
      \/ Ends(54) /\ UNCHANGED fix /\ \E k \in 0..(Len(shdrs) - 1) :
           file' = [file EXCEPT !.shdrs = Mixed(shdrs, file.shdrs, k)]
      \/ next /\ file' = [file EXCEPT !.shdrs = shdrs]
  BY Zenon DEF ElfofixStrings, Mixed, Goto
<1> HIDE DEF shdrs
<1>6. CASE Fails({50, 51, 52})
  <2>1. {50, 51, 52} \in SUBSET (Codes \ {Running, 0}) /\ \A code \in {50, 51, 52} : ~Refuses(code)
    BY <1>4
  <2>2. QED
    BY <1>1, <1>6, <2>1, FailsKeep
<1>7. CASE Stops(52)
  <2>1. 52 \in Codes \ {Running, 0} /\ ~Refuses(52)
    BY <1>4
  <2>2. QED
    BY <1>1, <1>7, <2>1, StopKeeps
<1>8. CASE Fails({53})
  <2>1. {53} \in SUBSET (Codes \ {Running, 0}) /\ \A code \in {53} : ~Refuses(code)
    BY <1>4
  <2>2. QED
    BY <1>1, <1>8, <2>1, FailsKeep
<1>9. ASSUME next, SameSegments, NamesKept(linked.shdrs, file'.shdrs),
             file'.shstr = file.shstr, file'.syms = file.syms
      PROVE  ElfInv'
  <2>1. /\ DOMAIN m' = {"flags", "ehdr", "shdrs"} /\ m'.shdrs = shdrs /\ m'.flags = m.flags
        /\ Goto(where)
    BY <1>2, <1>9
  <2>2. where \in {"symbols", "done"} /\ (where = "done" => ~m.flags.w)
    OBVIOUS
  <2> HIDE DEF where
  <2>3. cmd' = cmd /\ linked' = linked /\ phase' = where
    BY <2>1, GotoFrame
  <2>4. ObjVarsOK'
    BY <1>1, <1>3, <2>1, <2>2, <2>3 DEF ObjVarsOK
  <2>5. QED
    BY <1>1, <1>9, <2>1, <2>2, <2>4, ObjGoes
<1>10. CASE next /\ UNCHANGED file
  <2>1. SameSegments
    BY <1>2, <1>10 DEF SameSegments, FileOK
  <2>2. NamesKept(linked.shdrs, file'.shdrs) /\ file'.shstr = file.shstr /\ file'.syms = file.syms
    BY <1>2, <1>10
  <2> HIDE DEF next
  <2>3. QED
    BY <1>9, <1>10, <2>1, <2>2
<1>11. CASE next /\ file' = [file EXCEPT !.shdrs = shdrs]
  <2>1. SameSegments /\ file'.shdrs = shdrs /\ file'.shstr = file.shstr /\ file'.syms = file.syms
    BY <1>2, <1>11, ShdrsSet
  <2> HIDE DEF next
  <2>2. QED
    BY <1>3, <1>9, <1>11, <2>1
<1>12. ASSUME Ends(54), UNCHANGED fix, NEW k \in 0..(Len(shdrs) - 1),
              file' = [file EXCEPT !.shdrs = Mixed(shdrs, file.shdrs, k)]
       PROVE  ElfInv'
  <2> DEFINE new == Mixed(shdrs, file.shdrs, k)
  <2>1. NamesKept(linked.shdrs, new)
    BY <1>2, <1>3, NamesMixed
  <2>2. file' = [file EXCEPT !.shdrs = new]
    BY <1>12
  <2> HIDE DEF new
  <2>3. SameSegments /\ file'.shdrs = new /\ file'.shstr = file.shstr /\ file'.syms = file.syms
    BY <1>2, <2>2, ShdrsSet
  <2>4. cmd' = cmd /\ linked' = linked /\ phase' = "ended" /\ exit' = 54 /\ UNCHANGED fix
    BY <1>12 DEF Ends, cmd
  <2>5. StringsOK' /\ SymbolsOK'
    BY <1>1, <2>3, <2>4 DEF StringsOK, SymbolsOK, LastSym, ElfInv, ObjInv
  <2>6. 54 \in Codes \ {Running} /\ ~Refuses(54)
    BY <1>4
  <2>7. NamesKept(linked.shdrs, file'.shdrs)
    BY <2>1, <2>3
  <2>8. QED
    BY <1>1, <1>12, <2>3, <2>4, <2>5, <2>6, <2>7, ObjEnds
<1> HIDE DEF next
<1>13. QED
  BY <1>5, <1>6, <1>7, <1>8, <1>10, <1>11, <1>12

LEMMA ElfofixSymbolsKeeps ==
  ASSUME ElfInv, ElfofixSymbols
  PROVE  ElfInv'
<1> DEFINE symtabs == {i \in DOMAIN m.shdrs : m.shdrs[i].type = SHT_SYMTAB}
           sym == m.shdrs[CHOOSE i \in symtabs : TRUE]
           code == FirstFailure(SymtabChecks(symtabs, sym, m.shdrs[sym.link + 1]))
           goes == Goto("weak") /\ UNCHANGED file
                   /\ m' = [flags |-> m.flags, syms |-> file.syms, i |-> 1]
<1>1. phase = "symbols" /\ cmd.tool = "elfofix" /\ IsObj /\ Runs
  BY DEF ElfofixSymbols, At, IsObj, Runs
<1>2. code \in 0..30 \ 1..16
  BY SymtabCode
<1>3. Fails({25, 26, 27, 28, 29, 30}) \/ (code # 0 /\ Stops(code)) \/ goes
  BY Zenon DEF ElfofixSymbols, Checked
<1> HIDE DEF code
<1>4. \A c \in 17..30 : c \in Codes \ {Running, 0} /\ ~Refuses(c)
  BY <1>1 DEF Codes, Running, Refuses
<1>5. CASE Fails({25, 26, 27, 28, 29, 30})
  <2> DEFINE codes == {25, 26, 27, 28, 29, 30}
  <2>1. \A c \in codes : c \in 17..30
    OBVIOUS
  <2>2. Fails(codes)
    BY <1>5
  <2> HIDE DEF codes
  <2>3. codes \in SUBSET (Codes \ {Running, 0}) /\ \A c \in codes : ~Refuses(c)
    BY <1>4, <2>1
  <2>4. QED
    BY <1>1, <2>2, <2>3, FailsKeep
<1>6. CASE code # 0 /\ Stops(code)
  <2>1. code \in 17..30
    BY <1>2, <1>6
  <2>2. code \in Codes \ {Running, 0} /\ ~Refuses(code)
    BY <1>4, <2>1
  <2>3. QED
    BY <1>1, <1>6, <2>2, StopKeeps
<1>7. CASE goes
  <2>1. Goto("weak") /\ UNCHANGED file
    BY <1>7
  <2>2. DOMAIN m' = {"flags", "syms", "i"} /\ m'.syms = file.syms /\ m'.i = 1
    BY <1>7
  <2>3. cmd' = cmd /\ linked' = linked /\ phase' = "weak"
    BY <2>1, GotoFrame
  <2>4. Woven(linked.syms, file.syms, 1) \/ Woven(linked.syms, file.syms, LastSym)
    BY <1>1 DEF ElfInv, ObjInv, SymbolsOK
  <2>5. 1 \in 1..LastSym /\ LastSym' = LastSym
    <3>1. linked.syms \in Seq(Symbols)
      BY LinkedFacts DEF ElfInv, ExecInv, ControlOK
    <3>2. Len(linked.syms) \in Nat
      BY <3>1
    <3>3. QED
      BY <2>3, <3>2 DEF LastSym
  <2>6. ObjVarsOK'
    BY <1>1, <2>2, <2>3, <2>4, <2>5 DEF ObjVarsOK
  <2>7. ExecVarsOK'
    BY <1>1, <2>3, ObjFacts, ObjNotExec
  <2>8. Going("weak")
    BY <1>1, ObjFacts DEF Going, Phases, BeforeWrites, Early
  <2>9. QED
    BY <1>1, <2>1, <2>6, <2>7, <2>8, GotoKeeps
<1>8. QED
  BY <1>3, <1>5, <1>6, <1>7

LEMMA ElfofixWeakKeeps ==
  ASSUME ElfInv, ElfofixWeak
  PROVE  ElfInv'
<1> DEFINE code == SymbolCode(m.syms, m.i)
           new == AfterSymbol(m.syms, m.i)
           step == /\ m' = [m EXCEPT !.syms = new, !.i = @ + 1]
                   /\ UNCHANGED <<linked, file, fix, plan, phase, exit, settled, retries>>
<1>1. phase = "weak" /\ cmd.tool = "elfofix" /\ IsObj /\ Runs
  BY DEF ElfofixWeak, At, IsObj, Runs
<1>2. /\ DOMAIN m = {"flags", "syms", "i"} /\ m.i \in 1..LastSym
      /\ Woven(linked.syms, m.syms, m.i) \/ Woven(linked.syms, m.syms, LastSym)
  BY <1>1 DEF ElfInv, ObjInv, ObjVarsOK
<1>3. Assembled(linked.syms)
  BY LinkedAssembled DEF ElfInv, ExecInv, ControlOK
<1>4. Len(linked.syms) \in Nat /\ DOMAIN linked.syms = 1..Len(linked.syms) /\ Len(m.syms) = Len(linked.syms)
  BY <1>2, <1>3, AssembledFacts, WovenFacts
<1>5. \/ m.i > Len(m.syms) /\ Goto("write") /\ UNCHANGED <<m, file>>
      \/ ~(m.i > Len(m.syms)) /\ code # 0 /\ Stops(code)
      \/ ~(m.i > Len(m.syms)) /\ code = 0 /\ step
  BY Zenon DEF ElfofixWeak, Checked
<1>6. code \in {0, 31, 32, 33, 34}
  BY SymbolCodes
<1>7. CASE m.i > Len(m.syms) /\ Goto("write") /\ UNCHANGED <<m, file>>
  <2>1. Goto("write") /\ file' = file /\ m' = m
    BY <1>7
  <2>2. cmd' = cmd /\ linked' = linked /\ phase' = "write"
    BY <2>1, GotoFrame
  <2>3. Woven(linked.syms, m.syms, LastSym) /\ LastSym' = LastSym
    <3>1. m.i = LastSym
      BY <1>2, <1>4, <1>7 DEF LastSym
    <3>2. QED
      BY <1>2, <2>2, <3>1 DEF LastSym
  <2>4. ObjVarsOK'
    BY <1>1, <1>2, <2>1, <2>2, <2>3 DEF ObjVarsOK
  <2>5. ExecVarsOK'
    BY <1>1, <2>2, ObjFacts, ObjNotExec
  <2>6. Going("write")
    BY <1>1, ObjFacts DEF Going, Phases, BeforeWrites, Early
  <2>7. QED
    BY <1>1, <2>1, <2>4, <2>5, <2>6, GotoKeeps
<1>8. CASE code # 0 /\ Stops(code)
  <2> HIDE DEF code
  <2>1. code \in Codes \ {Running, 0} /\ ~Refuses(code)
    BY <1>1, <1>6, <1>8 DEF Codes, Running, Refuses
  <2>2. QED
    BY <1>1, <1>8, <2>1, StopKeeps
<1>9. CASE ~(m.i > Len(m.syms)) /\ code = 0 /\ step
  <2>1. m.i \in DOMAIN linked.syms /\ m.i + 1 \in 1..LastSym
    BY <1>2, <1>4, <1>9 DEF LastSym
  <2>2. Woven(linked.syms, new, m.i + 1) \/ Woven(linked.syms, new, LastSym)
    <3>1. CASE Woven(linked.syms, m.syms, m.i)
      BY <1>3, <1>9, <2>1, <3>1, WovenNext
    <3>2. CASE Woven(linked.syms, m.syms, LastSym)
      BY <1>3, <2>1, <3>2, WovenStays DEF LastSym
    <3>3. QED
      BY <1>2, <3>1, <3>2
  <2> HIDE DEF new, code
  <2>3. m' = [m EXCEPT !.syms = new, !.i = @ + 1]
    BY <1>9
  <2>4. DOMAIN m' = {"flags", "syms", "i"} /\ m'.syms = new /\ m'.i = m.i + 1
    BY <1>2, <2>3
  <2>5. UNCHANGED <<linked, file, fix, plan, phase, exit, settled, retries>>
    BY <1>9
  <2>6. Goto("weak") /\ UNCHANGED file
    BY <1>1, <2>5 DEF Goto
  <2>7. cmd' = cmd /\ linked' = linked /\ phase' = "weak"
    BY <2>6, GotoFrame
  <2>8. LastSym' = LastSym
    BY <2>7 DEF LastSym
  <2>9. ObjVarsOK'
    BY <1>1, <2>1, <2>2, <2>4, <2>7, <2>8 DEF ObjVarsOK
  <2>10. ExecVarsOK'
    BY <1>1, <2>7, ObjFacts, ObjNotExec
  <2>11. Going("weak")
    BY <1>1, ObjFacts DEF Going, Phases, BeforeWrites, Early
  <2>12. QED
    BY <1>1, <2>6, <2>9, <2>10, <2>11, GotoKeeps
<1>10. QED
  BY <1>5, <1>7, <1>8, <1>9

\* elfofix ends after it has written symbols.
LEMMA SymsWritten ==
  ASSUME ElfInv, cmd.tool = "elfofix", Runs, NEW code \in Codes \ {Running}, ~Refuses(code),
         Ends(code), UNCHANGED fix, NEW syms, file' = [file EXCEPT !.syms = syms],
         DOMAIN syms = DOMAIN linked.syms, code = 0 => Woven(linked.syms, syms, LastSym)
  PROVE  ElfInv'
<1>1. FileOK /\ IsObj /\ NamesKept(linked.shdrs, file.shdrs)
  BY DEF ElfInv, ExecInv, ObjInv, IsObj
<1>2. SameSegments /\ file'.syms = syms /\ file'.shstr = file.shstr /\ file'.shdrs = file.shdrs
  BY <1>1, SymsSet
<1>3. cmd' = cmd /\ linked' = linked /\ phase' = "ended" /\ exit' = code /\ m' = m
  BY DEF Ends, cmd
<1>4. LastSym' = LastSym
  BY <1>3 DEF LastSym
<1>5. SymbolsOK'
  BY <1>2, <1>3, <1>4 DEF SymbolsOK
<1>6. StringsOK'
  BY <1>2, <1>3 DEF StringsOK, ElfInv, ObjInv
<1>7. NamesKept(linked.shdrs, file'.shdrs)
  BY <1>1, <1>2
<1>8. QED
  BY <1>1, <1>2, <1>5, <1>6, <1>7, ObjEnds

LEMMA ElfofixWriteKeeps ==
  ASSUME ElfInv, ElfofixWrite
  PROVE  ElfInv'
<1>1. phase = "write" /\ cmd.tool = "elfofix" /\ IsObj /\ Runs
  BY DEF ElfofixWrite, At, IsObj, Runs
<1>2. /\ Woven(linked.syms, m.syms, LastSym) /\ Assembled(linked.syms)
      /\ DOMAIN file.syms = DOMAIN linked.syms
  BY <1>1, LinkedAssembled DEF ElfInv, ObjInv, ObjVarsOK, SymbolsOK, ExecInv, ControlOK
<1>3. DOMAIN m.syms = DOMAIN linked.syms
  BY <1>2, WovenFacts
<1>4. \A code \in {0, 35, 36} : code \in Codes \ {Running} /\ ~Refuses(code)
  BY <1>1 DEF Codes, Running, Refuses
<1>5. \/ m.syms = file.syms /\ Stops(0)
      \/ Fails({35})
      \/ Ends(36) /\ UNCHANGED fix /\ \E k \in 0..(Len(m.syms) - 1) :
           file' = [file EXCEPT !.syms = Mixed(m.syms, file.syms, k)]
      \/ file' = [file EXCEPT !.syms = m.syms] /\ Ends(0) /\ UNCHANGED fix
  BY Zenon DEF ElfofixWrite, Mixed
<1>6. CASE m.syms = file.syms /\ Stops(0)
  BY <1>1, <1>2, <1>6, ObjFacts, StopZeroKeeps
<1>7. CASE Fails({35})
  <2>1. {35} \in SUBSET (Codes \ {Running, 0}) /\ \A code \in {35} : ~Refuses(code)
    BY <1>4
  <2>2. QED
    BY <1>1, <1>7, <2>1, FailsKeep
<1>8. ASSUME Ends(36), UNCHANGED fix, NEW k \in 0..(Len(m.syms) - 1),
             file' = [file EXCEPT !.syms = Mixed(m.syms, file.syms, k)]
      PROVE  ElfInv'
  <2> DEFINE new == Mixed(m.syms, file.syms, k)
             code == 36
  <2>1. DOMAIN new = DOMAIN linked.syms
    BY <1>2 DEF Mixed
  <2>2. file' = [file EXCEPT !.syms = new] /\ Ends(code) /\ UNCHANGED fix
    BY <1>8
  <2>3. code \in Codes \ {Running} /\ ~Refuses(code) /\ code # 0
    BY <1>4
  <2> HIDE DEF new, code
  <2>4. QED
    BY <1>1, <2>1, <2>2, <2>3, SymsWritten
<1>9. CASE file' = [file EXCEPT !.syms = m.syms] /\ Ends(0) /\ UNCHANGED fix
  <2> DEFINE code == 0
  <2>1. code \in Codes \ {Running} /\ ~Refuses(code) /\ Ends(code)
    BY <1>4, <1>9
  <2> HIDE DEF code
  <2>2. QED
    BY <1>1, <1>2, <1>3, <1>9, <2>1, SymsWritten
<1>10. QED
  BY <1>5, <1>6, <1>7, <1>8, <1>9

LEMMA ElfofixKeeps ==
  ASSUME ElfInv, ElfofixNext
  PROVE  ElfInv'
<1>1. CASE ElfofixStart
  <2>1. phase = "start" /\ cmd.tool = "elfofix" /\ ~IsExec
    BY <1>1 DEF ElfofixStart, At, IsExec
  <2>2. PICK w : Starts(ElfofixFlags(cmd.args, w))
    BY <1>1 DEF ElfofixStart
  <2>3. QED
    BY <2>1, <2>2, StartKeeps
<1>2. CASE ElfofixHeader
  <2>1. phase = "header" /\ cmd.tool = "elfofix" /\ ReadHeader(ET_REL, "shdrs")
    BY <1>2 DEF ElfofixHeader, At
  <2>2. AfterHeader = "shdrs"
    BY <2>1 DEF AfterHeader, IsExec
  <2>3. QED
    BY <2>1, <2>2, HeaderKeeps
<1>3. CASE ElfofixShdrs
  BY <1>3, ElfofixShdrsKeeps
<1>4. CASE ElfofixStrings
  BY <1>4, ElfofixStringsKeeps
<1>5. CASE ElfofixDone
  <2>1. phase = "done" /\ cmd.tool = "elfofix" /\ Stops(0) /\ IsObj /\ Runs
    BY <1>5 DEF ElfofixDone, At, IsObj, Runs
  <2>2. ~m.flags.w
    BY <2>1 DEF ElfInv, ObjInv, ObjVarsOK
  <2>3. QED
    BY <2>1, <2>2, ObjFacts, StopZeroKeeps
<1>6. CASE ElfofixSymbols
  BY <1>6, ElfofixSymbolsKeeps
<1>7. CASE ElfofixWeak
  BY <1>7, ElfofixWeakKeeps
<1>8. CASE ElfofixWrite
  BY <1>8, ElfofixWriteKeeps
<1>9. QED
  BY <1>1, <1>2, <1>3, <1>4, <1>5, <1>6, <1>7, <1>8 DEF ElfofixNext

-----------------------------------------------------------------------------
(* elfnostack. *)

LEMMA StackNames == HiddenStack # NoteStack
BY Zenon DEF HiddenStack, NoteStack

LEMMA TextsSelf ==
  ASSUME NEW S, NEW old \in Seq(S)
  PROVE  TextsKept(old, old)
<1>1. \A i \in 1..Len(old) : old[i] \in {old[j] : j \in DOMAIN old}
  OBVIOUS
<1>2. old \in Seq({old[i] : i \in DOMAIN old} \cup {HiddenStack})
  BY <1>1
<1>3. QED
  BY <1>2 DEF TextsKept

LEMMA TextsFacts ==
  ASSUME NEW S, NEW old \in Seq(S), NEW new, TextsKept(old, new)
  PROVE  /\ DOMAIN new = 1..Len(old) /\ DOMAIN old = 1..Len(old) /\ Len(old) \in Nat /\ Len(new) = Len(old)
         /\ new \in Seq({old[i] : i \in DOMAIN old} \cup {HiddenStack})
         /\ \A i \in DOMAIN old : new[i] = old[i] \/ (old[i] = NoteStack /\ new[i] = HiddenStack)
BY DEF TextsKept

\* The string that elfnostack looks for, and the place where it is.
LEMMA NoteFound ==
  ASSUME NEW n \in Nat, Len(m.shstr) = n
  PROVE  IF NoteString = 0 THEN \A i \in 1..n : m.shstr[i] # NoteStack
         ELSE NoteString \in 1..n /\ m.shstr[NoteString] = NoteStack
<1> DEFINE I == {i \in 1..n : m.shstr[i] = NoteStack}
<1>1. NoteString = IF I # {} THEN Min(I) ELSE 0
  BY DEF NoteString, SelectInSeq
<1>2. CASE I = {}
  BY <1>1, <1>2
<1>3. CASE I # {}
  <2> HIDE DEF I
  <2>1. I \subseteq Nat
    BY DEF I
  <2>2. Min(I) \in I
    BY <1>3, <2>1, LeastNat
  <2>3. Min(I) \in 1..n /\ m.shstr[Min(I)] = NoteStack
    BY <2>2 DEF I
  <2>4. NoteString = Min(I) /\ Min(I) # 0
    BY <1>1, <1>3, <2>3
  <2>5. QED
    BY <2>3, <2>4
<1>4. QED
  BY <1>2, <1>3

\* The string is renamed; it was there once.
LEMMA TextsRenamed ==
  ASSUME NEW S, NEW old \in Seq(S), NEW new, TextsKept(old, new), NEW k \in DOMAIN old, new[k] = NoteStack,
         \A i, j \in DOMAIN old : old[i] = NoteStack /\ old[j] = NoteStack => i = j
  PROVE  /\ TextsKept(old, [new EXCEPT ![k] = HiddenStack])
         /\ \A i \in DOMAIN old : [new EXCEPT ![k] = HiddenStack][i] # NoteStack
<1> DEFINE r == [new EXCEPT ![k] = HiddenStack]
           T == {old[i] : i \in DOMAIN old} \cup {HiddenStack}
<1>1. /\ DOMAIN new = 1..Len(old) /\ DOMAIN old = 1..Len(old) /\ Len(old) \in Nat /\ Len(new) = Len(old)
      /\ new \in Seq(T)
      /\ \A i \in DOMAIN old : new[i] = old[i] \/ (old[i] = NoteStack /\ new[i] = HiddenStack)
  BY TextsFacts
<1>2. HiddenStack \in T
  OBVIOUS
<1> HIDE DEF T
<1>3. r \in Seq(T) /\ Len(r) = Len(old) /\ r[k] = HiddenStack /\ \A i \in DOMAIN old : i # k => r[i] = new[i]
  BY <1>1, <1>2
<1> HIDE DEF r
<1>4. old[k] = NoteStack
  BY <1>1, StackNames
<1>5. \A i \in DOMAIN old : i # k => old[i] # NoteStack
  BY <1>4
<1>6. TextsKept(old, r)
  BY <1>1, <1>3, <1>4 DEF TextsKept, T
<1>7. \A i \in DOMAIN old : r[i] # NoteStack
  BY <1>1, <1>3, <1>5, StackNames
<1>8. QED
  BY <1>6, <1>7 DEF r

LEMMA TextsSet ==
  ASSUME FileOK, NEW s, file' = [file EXCEPT !.shstr = s]
  PROVE  SameSegments /\ file'.shstr = s /\ file'.shdrs = file.shdrs /\ file'.syms = file.syms
BY DEF FileOK, FileFields, SameSegments

LEMMA ShstrtabKeeps ==
  ASSUME ElfInv, ElfnostackShstrtab
  PROVE  ElfInv'
<1> DEFINE e == m.ehdr
           sh == file.shdrs[e.shstrndx + 1]
           found == e.shstrndx < e.shnum
           whole == found /\ file.len >= e.shoff + ShdrSize * (e.shstrndx + 1)
           code == FirstFailure(ShdrChecks(e) \o
                     << <<~found, 12>>, <<found /\ ~whole, 14>>, <<whole /\ sh.offset < EhdrSize, 15>>,
                        <<whole /\ sh.size = 0, 16>>, <<whole /\ Short(sh), 19>> >>)
           goes == Goto("rename") /\ m' = [shstr |-> file.shstr] /\ UNCHANGED file
<1>1. phase = "shstrtab" /\ cmd.tool = "elfnostack" /\ IsObj /\ Runs /\ phase \in BeforeWrites
  BY DEF ElfnostackShstrtab, At, IsObj, Runs, BeforeWrites
<1>2. code \in {0, 9, 10, 11, 12, 14, 15, 16, 19}
  BY ShstrtabCode
<1>3. Fails({13, 14, 17, 18, 19}) \/ (code # 0 /\ Stops(code)) \/ goes
  BY Zenon DEF ElfnostackShstrtab, Checked
<1> HIDE DEF code
<1>4. CASE Fails({13, 14, 17, 18, 19})
  <2>1. {13, 14, 17, 18, 19} \in SUBSET (Codes \ {Running, 0})
    BY DEF Codes, Running
  <2>2. QED
    BY <1>1, <1>4, <2>1, FailsKeep
<1>5. CASE code # 0 /\ Stops(code)
  <2>1. code \in Codes \ {Running, 0}
    BY <1>2, <1>5 DEF Codes, Running
  <2>2. QED
    BY <1>1, <1>5, <2>1, StopKeeps
<1>6. CASE goes
  <2>1. Goto("rename") /\ UNCHANGED file /\ m'.shstr = file.shstr
    BY <1>6
  <2>2. cmd' = cmd /\ phase' = "rename"
    BY <2>1, GotoFrame
  <2>3. ObjVarsOK'
    BY <1>1, <2>1, <2>2 DEF ObjVarsOK
  <2>4. ExecVarsOK'
    BY <1>1, <2>2, ObjFacts, ObjNotExec
  <2>5. Going("rename")
    BY <1>1, ObjFacts DEF Going, Phases
  <2>6. QED
    BY <1>1, <2>1, <2>3, <2>4, <2>5, GotoKeeps
<1>7. QED
  BY <1>3, <1>4, <1>5, <1>6

LEMMA RenameKeeps ==
  ASSUME ElfInv, ElfnostackRename
  PROVE  ElfInv'
<1> DEFINE old == linked.shstr
           k == NoteString
<1>1. phase = "rename" /\ cmd.tool = "elfnostack" /\ IsObj /\ Runs /\ phase \in BeforeWrites
  BY DEF ElfnostackRename, At, IsObj, Runs, BeforeWrites
<1>2. m.shstr = file.shstr /\ FileOK /\ linked \in Files /\ TextsKept(old, file.shstr)
  BY <1>1 DEF ElfInv, ExecInv, ObjInv, ObjVarsOK, ControlOK, StringsOK
<1>3. /\ old \in Seq(STRING)
      /\ \A i, j \in DOMAIN old : old[i] = NoteStack /\ old[j] = NoteStack => i = j
  <2>1. old \in Seq(STRING)
    BY <1>2, LinkedFacts DEF ElfFiles
  <2>2. QED
    BY <1>2, <2>1, FilesAssumption DEF FilesAssumption
<1> HIDE DEF old
<1>4. DOMAIN old = 1..Len(old) /\ Len(old) \in Nat /\ Len(file.shstr) = Len(old)
  BY <1>2, <1>3, TextsFacts
<1>5. IF k = 0 THEN \A i \in 1..Len(old) : file.shstr[i] # NoteStack
      ELSE k \in 1..Len(old) /\ file.shstr[k] = NoteStack
  BY <1>2, <1>4, NoteFound
<1> HIDE DEF k
<1>6. \/ k = 0 /\ Stops(0)
      \/ Fails({20, 21})
      \/ k # 0 /\ file' = [file EXCEPT !.shstr[k] = HiddenStack] /\ Ends(0) /\ UNCHANGED fix
  BY Zenon DEF ElfnostackRename, k
<1>7. CASE k = 0 /\ Stops(0)
  <2>1. \A i \in DOMAIN old : file.shstr[i] # NoteStack
    BY <1>4, <1>5, <1>7
  <2>2. QED
    BY <1>1, <1>7, <2>1, ObjFacts, StopZeroKeeps DEF old
<1>8. CASE Fails({20, 21})
  <2>1. {20, 21} \in SUBSET (Codes \ {Running, 0})
    BY DEF Codes, Running
  <2>2. QED
    BY <1>1, <1>8, <2>1, FailsKeep
<1>9. CASE k # 0 /\ file' = [file EXCEPT !.shstr[k] = HiddenStack] /\ Ends(0) /\ UNCHANGED fix
  <2> DEFINE new == [file.shstr EXCEPT ![k] = HiddenStack]
  <2>1. TextsKept(old, new) /\ \A i \in DOMAIN old : new[i] # NoteStack
    <3> DEFINE s == file.shstr
    <3>1. k \in DOMAIN old /\ s[k] = NoteStack /\ TextsKept(old, s)
      BY <1>2, <1>4, <1>5, <1>9
    <3> HIDE DEF s
    <3>2. TextsKept(old, [s EXCEPT ![k] = HiddenStack])
      BY <1>3, <3>1, TextsRenamed
    <3>3. \A i \in DOMAIN old : [s EXCEPT ![k] = HiddenStack][i] # NoteStack
      BY <1>3, <3>1, TextsRenamed
    <3>4. QED
      BY <3>2, <3>3 DEF s
  <2>2. file' = [file EXCEPT !.shstr = new]
    BY <1>9
  <2> HIDE DEF new
  <2>3. SameSegments /\ file'.shstr = new /\ file'.shdrs = file.shdrs /\ file'.syms = file.syms
    BY <1>2, <2>2, TextsSet
  <2>4. cmd' = cmd /\ linked' = linked /\ phase' = "ended" /\ exit' = 0
    BY <1>9 DEF Ends, cmd
  <2>5. StringsOK'
    BY <2>1, <2>3, <2>4 DEF StringsOK, old
  <2>6. SymbolsOK'
    BY <1>1, <2>3, <2>4 DEF SymbolsOK, LastSym, ElfInv, ObjInv
  <2>7. NamesKept(linked.shdrs, file'.shdrs)
    BY <2>3 DEF ElfInv, ObjInv
  <2> DEFINE code == 0
  <2>8. code \in Codes \ {Running} /\ Ends(code) /\ code = 0
    BY <1>9 DEF Codes, Running
  <2> HIDE DEF code
  <2>9. QED
    BY <1>1, <1>9, <2>3, <2>5, <2>6, <2>7, <2>8, ObjEnds
<1>10. QED
  BY <1>6, <1>7, <1>8, <1>9

LEMMA ElfnostackKeeps ==
  ASSUME ElfInv, ElfnostackNext
  PROVE  ElfInv'
<1>1. CASE ElfnostackStart
  <2>1. phase = "start" /\ cmd.tool = "elfnostack" /\ IsObj /\ Runs /\ phase \in BeforeWrites
    BY <1>1 DEF ElfnostackStart, At, IsObj, Runs, BeforeWrites, Early
  <2>2. CASE Stops(1)
    <3>1. 1 \in Codes \ {Running, 0}
      BY DEF Codes, Running
    <3>2. QED
      BY <2>1, <2>2, <3>1, StopKeeps
  <2>3. CASE Goto("header") /\ UNCHANGED file
    <3>1. cmd' = cmd /\ phase' = "header"
      BY <2>3, GotoFrame
    <3>2. ObjVarsOK'
      BY <2>1, <3>1 DEF ObjVarsOK
    <3>3. ExecVarsOK'
      BY <2>1, <3>1, ObjFacts, ObjNotExec
    <3>4. Going("header")
      BY <2>1, ObjFacts DEF Going, Phases
    <3>5. QED
      BY <2>1, <2>3, <3>2, <3>3, <3>4, GotoKeeps
  <2>4. QED
    BY <1>1, <2>2, <2>3 DEF ElfnostackStart
<1>2. CASE ElfnostackHeader
  <2>1. phase = "header" /\ cmd.tool = "elfnostack" /\ ReadHeader(ET_REL, "shstrtab")
    BY <1>2 DEF ElfnostackHeader, At
  <2>2. AfterHeader = "shstrtab"
    BY <2>1 DEF AfterHeader, IsExec
  <2>3. QED
    BY <2>1, <2>2, HeaderKeeps
<1>3. CASE ElfnostackShstrtab
  BY <1>3, ShstrtabKeeps
<1>4. CASE ElfnostackRename
  BY <1>4, RenameKeeps
<1>5. QED
  BY <1>1, <1>2, <1>3, <1>4 DEF ElfnostackNext

-----------------------------------------------------------------------------
(* Between the tools. *)

LEMMA EhdrLinked ==
  ASSUME linked \in Files
  PROVE  EhdrOK(linked.ehdr)
BY LinkedFacts DEF Ehdrs, EhdrOK, EhdrFields

LEMMA NamesSelf == NamesKept(linked.shdrs, linked.shdrs)
BY DEF NamesKept

LEMMA TextsLinked ==
  ASSUME linked \in Files
  PROVE  TextsKept(linked.shstr, linked.shstr)
<1>1. linked.shstr \in Seq(STRING)
  BY LinkedFacts DEF ElfFiles
<1>2. QED
  BY <1>1, TextsSelf

\* The linker makes .bss larger by what elfxfix -p has found.
LEMMA RelinkKeeps ==
  ASSUME ElfInv, Relink
  PROVE  ElfInv'
<1> USE DEF ElfInv, ExecInv, ObjInv
<1> DEFINE ls == linked.phdrs
           k == CHOOSE i \in Loads(ls) : \A j \in Loads(ls) : j <= i
           ps == [ls EXCEPT ![k].memsz = @ + fix]
<1>1. phase = "start" /\ cmd.tool = "relink" /\ linked \in Files
  BY DEF Relink, At, ControlOK
<1>2. Ends(0) /\ UNCHANGED fix /\ file' = [linked EXCEPT !.phdrs = ps]
  BY Zenon DEF Relink
<1>3. 0 \in Codes \ {Running}
  BY DEF Codes, Running
<1>4. /\ ControlOK' /\ ExecVarsOK' /\ ObjVarsOK' /\ cmd' = cmd /\ linked' = linked
      /\ phase' = "ended" /\ exit' = 0 /\ m' = m /\ retries' = retries
  BY <1>2, <1>3, EndFrame
<1>5. ls \in Seq(Phdrs) /\ fix \in Nat
  BY <1>1, LinkedFacts DEF FixOK
<1>6. IsLast(ls, k)
  <2>1. fix # 0
    BY <1>1 DEF FixOK
  <2>2. PICK a \in Loads(ls) : TRUE
    BY <2>1 DEF FixOK
  <2>3. \E i \in Loads(ls) : \A j \in Loads(ls) : j <= i
    BY <1>5, LastFound DEF IsLast
  <2>4. QED
    BY <2>3 DEF IsLast
<1> HIDE DEF k
<1>7. Image(ls, ps, fix)
  BY <1>5, <1>6, ImageGrown
<1> HIDE DEF ps
<1>8. /\ DOMAIN file' = FileFields /\ file'.phdrs = ps /\ file'.len = linked.len /\ file'.ehdr = linked.ehdr
      /\ file'.shdrs = linked.shdrs /\ file'.shstr = linked.shstr /\ file'.syms = linked.syms
  BY <1>1, <1>2, LinkedFacts DEF FileFields
<1>9. FileOK' /\ FixOK'
  BY <1>1, <1>2, <1>4, <1>8, EhdrLinked DEF FileOK, FixOK
<1>10. LengthOK'
  BY <1>1, <1>4, <1>8, LinkedFacts DEF LengthOK
<1>11. SegmentsOK'
  <2>1. ~Torn' /\ FileGrown'
    BY <1>1, <1>4 DEF Torn, FileGrown
  <2>2. Image(linked'.phdrs, file'.phdrs, fix')
    BY <1>2, <1>4, <1>7, <1>8
  <2>3. QED
    BY <2>1, <2>2 DEF SegmentsOK
<1>12. SectionsOK'
  BY <1>4, <1>8 DEF SectionsOK, Sectioned
<1>13. UntouchedOK'
  <2>1. settled' = [cmd |-> cmd, file |-> file']
    BY <1>2 DEF Ends
  <2>2. settled' # <<>> /\ settled'.file = file'
    BY <2>1, SettledNotEmpty
  <2>3. Base' = file'
    BY <2>2 DEF Base
  <2>4. RefusedUntouched' /\ phase' \notin BeforeWrites
    BY <1>4 DEF RefusedUntouched, BeforeWrites, Early
  <2>5. QED
    BY <2>3, <2>4 DEF UntouchedOK
<1>14. NamesKept(linked.shdrs, file.shdrs)' /\ StringsOK'
  BY <1>1, <1>4, <1>8, NamesSelf, TextsLinked DEF StringsOK
<1>15. SymbolsOK'
  <2>1. Woven(linked.syms, linked.syms, 1)
    BY <1>1, LinkedFacts, WovenSelf
  <2>2. QED
    BY <1>1, <1>4, <1>8, <2>1 DEF SymbolsOK
<1>16. QED
  BY <1>4, <1>9, <1>10, <1>11, <1>12, <1>13, <1>14, <1>15

\* The next command starts with the file as the one before has left it.
LEMMA ProceedKeeps ==
  ASSUME ElfInv, Proceed
  PROVE  ElfInv'
<1> USE DEF ElfInv, ExecInv, ObjInv
<1>1. phase = "ended" /\ exit = 0 /\ InOrder(plan) /\ Len(plan) > 1 /\ (plan[2].tool = "relink" => fix # 0)
  BY DEF Proceed, ControlOK
<1>2. /\ plan' = Tail(plan) /\ phase' = "start" /\ exit' = Running /\ linked' = linked /\ file' = file
      /\ fix' = fix /\ settled' = settled /\ retries' = retries
  BY DEF Proceed
<1>3. InOrder(plan)' /\ cmd' = plan[2]
  BY <1>1, <1>2, CmdTail DEF cmd
<1>4. ControlOK'
  BY <1>2, <1>3 DEF ControlOK, Phases, Codes
<1>5. FileOK' /\ LengthOK' /\ NamesKept(linked.shdrs, file.shdrs)' /\ StringsOK'
  BY <1>2 DEF FileOK, LengthOK, StringsOK
<1>6. FixOK'
  BY <1>1, <1>2, <1>3 DEF FixOK
<1>7. SegmentsOK'
  <2>1. Shrinks(cmd') <=> cmd.tool = "relink"
    BY <1>1, <1>3, CmdFacts
  <2>2. ~Torn /\ ~Torn' /\ (FileGrown <=> FileGrown')
    BY <1>1, <1>2, <2>1 DEF Torn, FileGrown, Early
  <2>3. QED
    BY <1>2, <2>2 DEF SegmentsOK
<1>8. SectionsOK'
  BY <1>1, <1>2 DEF SectionsOK
<1>9. UntouchedOK'
  BY <1>1, <1>2 DEF UntouchedOK, RefusedUntouched, Base
<1>10. SymbolsOK'
  BY <1>1, <1>2 DEF SymbolsOK, LastSym
<1>11. ExecVarsOK' /\ ObjVarsOK'
  BY <1>2 DEF ExecVarsOK, ObjVarsOK, ExecPhases
<1>12. QED
  BY <1>4, <1>5, <1>6, <1>7, <1>8, <1>9, <1>10, <1>11

LEMMA RetryKeeps ==
  ASSUME ElfInv, Retry
  PROVE  ElfInv'
<1> USE DEF ElfInv, ExecInv, ObjInv
<1>1. phase = "ended" /\ exit # 0 /\ retries < MaxRetry /\ IsExec /\ ~Shrinks(cmd)
  BY DEF Retry, IsExec
<1>2. /\ plan' = plan /\ phase' = "start" /\ exit' = Running /\ linked' = linked /\ file' = file
      /\ fix' = fix /\ settled' = settled /\ retries' = retries + 1 /\ cmd' = cmd
  BY DEF Retry, cmd
<1>3. ControlOK' /\ retries' # 0
  BY <1>1, <1>2, BoundsAssumption DEF ControlOK, Phases, Codes
<1>4. FileOK' /\ LengthOK' /\ NamesKept(linked.shdrs, file.shdrs)' /\ StringsOK'
  BY <1>2 DEF FileOK, LengthOK, StringsOK
<1>5. FixOK'
  BY <1>1, <1>2 DEF FixOK, IsExec
<1>6. SegmentsOK'
  <2>1. ~Torn /\ ~Torn' /\ ~FileGrown /\ ~FileGrown'
    BY <1>1, <1>2 DEF Torn, FileGrown, IsExec
  <2>2. QED
    BY <1>2, <2>1 DEF SegmentsOK
<1>7. SectionsOK'
  BY <1>1, <1>2 DEF SectionsOK, Cuts, IsExec, Flags
<1>8. UntouchedOK'
  BY <1>2, <1>3 DEF UntouchedOK, RefusedUntouched
<1>9. SymbolsOK'
  BY <1>1, <1>2 DEF SymbolsOK, LastSym, IsExec
<1>10. ExecVarsOK' /\ ObjVarsOK'
  BY <1>2 DEF ExecVarsOK, ObjVarsOK, ExecPhases
<1>11. QED
  BY <1>3, <1>4, <1>5, <1>6, <1>7, <1>8, <1>9, <1>10

LEMMA KillKeeps ==
  ASSUME ElfInv, Kill
  PROVE  ElfInv'
<1>1. Runs
  BY DEF Kill, Runs, ElfInv, ExecInv, ControlOK
<1>2. Killed \in Codes \ {Running, 0} /\ ~Refuses(Killed)
  BY DEF Codes, Killed, Running, Refuses
<1>3. QED
  BY <1>1, <1>2, StopKeeps DEF Kill

LEMMA InitElf ==
  ASSUME Init
  PROVE  ElfInv
<1>1. /\ linked \in Files /\ plan \in Plans /\ file = linked /\ fix = 0 /\ phase = "start"
      /\ exit = Running /\ settled = <<>> /\ retries = 0
  BY DEF Init
<1>2. InOrder(plan) /\ cmd.tool # "relink"
  <2>1. InOrder(plan) /\ plan[1].tool # "relink"
    BY <1>1, PlansAssumption DEF PlansAssumption
  <2>2. cmd = plan[1]
    BY <2>1 DEF InOrder, cmd
  <2>3. QED
    BY <2>1, <2>2
<1>3. ControlOK
  BY <1>1, <1>2, BoundsAssumption DEF ControlOK, Phases, Codes, Running
<1>4. FileOK /\ FixOK
  BY <1>1, <1>2, EhdrLinked, LinkedFacts DEF FileOK, FixOK
<1>5. LengthOK
  BY <1>1, LinkedFacts DEF LengthOK
<1>6. SegmentsOK
  <2>1. Image(linked.phdrs, file.phdrs, 0)
    BY <1>1, LinkedFacts, ImageSelf
  <2>2. ~Torn /\ fix = 0
    BY <1>1 DEF Torn
  <2>3. QED
    BY <2>1, <2>2 DEF SegmentsOK
<1>7. SectionsOK
  BY <1>1 DEF SectionsOK, Sectioned
<1>8. UntouchedOK
  BY <1>1 DEF UntouchedOK, RefusedUntouched, Base
<1>9. ExecVarsOK /\ ObjVarsOK
  BY <1>1 DEF ExecVarsOK, ObjVarsOK, ExecPhases
<1>10. NamesKept(linked.shdrs, file.shdrs) /\ StringsOK
  BY <1>1, NamesSelf, TextsLinked DEF StringsOK
<1>11. SymbolsOK
  <2>1. Woven(linked.syms, linked.syms, 1)
    BY <1>1, LinkedFacts, WovenSelf
  <2>2. QED
    BY <1>1, <2>1 DEF SymbolsOK
<1>12. QED
  BY <1>3, <1>4, <1>5, <1>6, <1>7, <1>8, <1>9, <1>10, <1>11 DEF ElfInv, ExecInv, ObjInv

LEMMA ElfStutters ==
  ASSUME ElfInv, UNCHANGED vars
  PROVE  ElfInv'
<1>1. /\ linked' = linked /\ file' = file /\ fix' = fix /\ plan' = plan /\ phase' = phase /\ m' = m
      /\ exit' = exit /\ settled' = settled /\ retries' = retries /\ cmd' = cmd
  BY DEF vars, cmd
<1>2. ExecInv'
  <2>1. ControlOK' /\ FileOK' /\ FixOK' /\ LengthOK'
    BY <1>1 DEF ElfInv, ExecInv, ControlOK, FileOK, FixOK, LengthOK
  <2>2. SegmentsOK'
    BY <1>1 DEF ElfInv, ExecInv, SegmentsOK, Torn, FileGrown
  <2>3. SectionsOK'
    BY <1>1 DEF ElfInv, ExecInv, SectionsOK, Cuts, IsExec, Flags
  <2>4. UntouchedOK'
    BY <1>1 DEF ElfInv, ExecInv, UntouchedOK, RefusedUntouched, Base
  <2>5. ExecVarsOK'
    <3>1. (LoopOK <=> LoopOK') /\ (IsExec <=> IsExec') /\ Flags' = Flags
      BY <1>1 DEF LoopOK, BssAhead, IsExec, Flags
    <3>2. QED
      BY <1>1, <3>1 DEF ElfInv, ExecInv, ExecVarsOK
  <2>6. QED
    BY <2>1, <2>2, <2>3, <2>4, <2>5 DEF ExecInv
<1>3. ObjInv'
  BY <1>1 DEF ElfInv, ObjInv, StringsOK, SymbolsOK, LastSym, ObjVarsOK
<1>4. QED
  BY <1>2, <1>3 DEF ElfInv

\* The invariant holds before and after every step of every tool.
THEOREM ElfInvHolds == Spec => []ElfInv
<1>1. Init => ElfInv
  BY InitElf
<1>2. ElfInv /\ [Next]_vars => ElfInv'
  <2> SUFFICES ASSUME ElfInv, [Next]_vars PROVE ElfInv'
    OBVIOUS
  <2>1. CASE SstripNext
    BY <2>1, SstripKeeps
  <2>2. CASE ElfxfixNext
    BY <2>2, ElfxfixKeeps
  <2>3. CASE ElfofixNext
    BY <2>3, ElfofixKeeps
  <2>4. CASE ElfnostackNext
    BY <2>4, ElfnostackKeeps
  <2>5. CASE Relink
    BY <2>5, RelinkKeeps
  <2>6. CASE Proceed
    BY <2>6, ProceedKeeps
  <2>7. CASE Retry
    BY <2>7, RetryKeeps
  <2>8. CASE Kill
    BY <2>8, KillKeeps
  <2>9. CASE UNCHANGED vars
    BY <2>9, ElfStutters
  <2>10. QED
    BY <2>1, <2>2, <2>3, <2>4, <2>5, <2>6, <2>7, <2>8, <2>9 DEF Next
<1>3. QED
  BY <1>1, <1>2, PTL DEF Spec

-----------------------------------------------------------------------------
(* What the invariant says of executables. *)

LEMMA AnyImage ==
  ASSUME ElfInv
  PROVE  \E n \in Nat : Image(linked.phdrs, file.phdrs, n)
<1>1. fix \in Nat
  BY DEF ElfInv, ExecInv, FixOK
<1>2. CASE Torn
  BY <1>1, <1>2 DEF ElfInv, ExecInv, SegmentsOK
<1>3. CASE ~Torn
  BY <1>1, <1>3 DEF ElfInv, ExecInv, SegmentsOK
<1>4. QED
  BY <1>2, <1>3

LEMMA ElfTypes ==
  ASSUME ElfInv
  PROVE  TypeOK
<1>1. file.len \in Nat /\ fix \in Nat /\ DOMAIN file.syms = DOMAIN linked.syms
  BY DEF ElfInv, ExecInv, ObjInv, LengthOK, FixOK, SymbolsOK
<1>2. DOMAIN file.phdrs = DOMAIN linked.phdrs
  <2>1. linked.phdrs \in Seq(Phdrs)
    BY LinkedFacts DEF ElfInv, ExecInv, ControlOK
  <2>2. file.phdrs \in Seq(Phdrs) /\ Len(file.phdrs) = Len(linked.phdrs)
    BY AnyImage DEF Image
  <2>3. QED
    BY <2>1, <2>2
<1>3. /\ phase \in Phases /\ exit \in Codes /\ (phase = "ended" <=> exit # Running)
      /\ retries \in 0..MaxRetry
  BY DEF ElfInv, ExecInv, ControlOK
<1>4. QED
  BY <1>1, <1>2, <1>3 DEF TypeOK, Phases, Codes

\* The addresses of a segment, and its bytes.
LEMMA KeptKeeps ==
  ASSUME NEW p \in Phdrs, NEW q, NEW e \in Nat, Kept(p, q, e), NEW len \in Nat,
         p.filesz > 0 => p.offset + p.filesz <= len
  PROVE  Keeps(p, q, len) /\ q.vaddr + q.memsz = p.vaddr + p.memsz + e
<1> DEFINE po == p.offset pv == p.vaddr pf == p.filesz pm == p.memsz
           qo == q.offset qv == q.vaddr qf == q.filesz qm == q.memsz
<1>1. po \in Nat /\ pv \in Int /\ pf \in Nat /\ pm \in Nat
  BY DEF Phdrs
<1>2. qo \in Nat /\ qv \in Int /\ qf \in Nat /\ qm \in Nat
  BY DEF Kept, Phdrs
<1>3. q.type = p.type /\ qv - qo = pv - po /\ qo <= po /\ qo + qf = po + pf /\ qo + qm = po + pm + e
  BY DEF Kept
<1>4. pf > 0 => po + pf <= len
  OBVIOUS
<1> HIDE DEF po, pv, pf, pm, qo, qv, qf, qm
<1>5. /\ qv <= pv /\ qv + qf = pv + pf /\ (pf > 0 => qo + qf <= len) /\ qv + qm = pv + pm + e
      /\ qv + qm >= pv + pm
  BY <1>1, <1>2, <1>3, <1>4
<1>6. QED
  BY <1>3, <1>5 DEF Keeps, po, pv, pf, pm, qo, qv, qf, qm

LEMMA ElfImage ==
  ASSUME ElfInv
  PROVE  ImageKept
<1> DEFINE ls == linked.phdrs
<1>1. linked \in Files /\ ls \in Seq(Phdrs) /\ Len(ls) \in Nat /\ file.len \in Nat
  BY LinkedFacts DEF ElfInv, ExecInv, ControlOK, LengthOK
<1>2. Loads(ls) \subseteq 1..Len(ls)
  BY <1>1 DEF Loads
<1>3. SUFFICES ASSUME \A k \in Loads(ls) : ls[k].filesz > 0 => ls[k].offset + ls[k].filesz <= linked.len,
                      NEW k \in Loads(ls)
               PROVE  Keeps(ls[k], file.phdrs[k], file.len)
  BY DEF ImageKept
<1>4. Whole(ls, linked.len)
  BY <1>3 DEF Whole, Reaches
<1>5. Whole(ls, file.len)
  BY <1>4 DEF ElfInv, ExecInv, LengthOK
<1>6. ls[k].filesz > 0 => ls[k].offset + ls[k].filesz <= file.len
  <2>1. k < Len(ls) + 1
    BY <1>1, <1>2
  <2>2. QED
    BY <1>5, <2>1 DEF Whole, Reaches
<1>7. PICK n \in Nat : Image(ls, file.phdrs, n)
  BY AnyImage
<1>8. PICK e \in Nat : Kept(ls[k], file.phdrs[k], e)
  BY <1>2, <1>7 DEF Image
<1>9. ls[k] \in Phdrs
  BY <1>1, <1>2
<1> HIDE DEF ls
<1>10. QED
  BY <1>1, <1>6, <1>8, <1>9, KeptKeeps

LEMMA ElfBss ==
  ASSUME ElfInv
  PROVE  BssAsLinked
<1> DEFINE ls == linked.phdrs
<1>1. SUFFICES ASSUME phase = "ended", exit = 0, Shrinks(cmd), NEW k \in Loads(ls)
               PROVE  file.phdrs[k].vaddr + file.phdrs[k].memsz = ls[k].vaddr + ls[k].memsz
  BY DEF BssAsLinked
<1>2. Image(ls, file.phdrs, 0)
  <2>1. cmd.tool # "relink"
    BY <1>1 DEF Shrinks
  <2>2. ~Torn /\ ~FileGrown
    BY <1>1, <2>1 DEF Torn, FileGrown, Early
  <2>3. QED
    BY <2>2 DEF ElfInv, ExecInv, SegmentsOK
<1>3. ls \in Seq(Phdrs) /\ k \in 1..Len(ls) /\ ls[k] \in Phdrs
  BY LinkedFacts DEF Loads, ElfInv, ExecInv, ControlOK
<1>4. Kept(ls[k], file.phdrs[k], 0)
  BY <1>2, <1>3 DEF Image
<1> DEFINE po == ls[k].offset pv == ls[k].vaddr pm == ls[k].memsz
           qo == file.phdrs[k].offset qv == file.phdrs[k].vaddr qm == file.phdrs[k].memsz
<1>5. /\ po \in Nat /\ pv \in Int /\ pm \in Nat /\ qo \in Nat /\ qv \in Int /\ qm \in Nat
      /\ qv - qo = pv - po /\ qo + qm = po + pm + 0
  BY <1>3, <1>4 DEF Kept, Phdrs
<1> HIDE DEF po, pv, pm, qo, qv, qm
<1>6. qv + qm = pv + pm
  BY <1>5
<1>7. QED
  BY <1>6 DEF po, pv, pm, qo, qv, qm

LEMMA ElfSections ==
  ASSUME ElfInv
  PROVE  SectionsFound
BY DEF ElfInv, ExecInv, SectionsOK, Sectioned, SectionsFound

\* Executables run as they were linked, before and after each write of a
\* tool: after every step of every tool, whatever has failed, an executable
\* loads the bytes the linker has placed where it has placed them, the section
\* headers are in the file when a tool has succeeded, -p and -r leave .bss as
\* it was, and a file that a tool refuses is not changed.
THEOREM ExecSoundHolds == Spec => []ExecSound
<1>1. ElfInv => ExecSound
  <2> SUFFICES ASSUME ElfInv PROVE ExecSound
    OBVIOUS
  <2>1. RefusedUntouched
    BY DEF ElfInv, ExecInv, UntouchedOK
  <2>2. QED
    BY <2>1, ElfTypes, ElfImage, ElfSections, ElfBss DEF ExecSound
<1>2. QED
  BY <1>1, ElfInvHolds, PTL

-----------------------------------------------------------------------------
(* What it says of object files. *)

\* A symbol means to the linker what the source of the symbols means.
LEMMA WovenMeans ==
  ASSUME NEW old, Assembled(old), NEW syms, Woven(old, syms, Len(old) + 1), NEW i \in DOMAIN old,
         ~LocalWeak(old[i]), NEW Defs
  PROVE  Means(syms[i], Defs) = Meant(old, i, Defs)
<1> DEFINE s == old[i]
           P == {j \in DOMAIN old : LocalWeak(old[j]) /\ old[j].name.rest = s.name.rest}
<1>1. old[i] \in Symbols /\ Len(old) \in Nat /\ DOMAIN old = 1..Len(old)
  BY AssembledFacts
<1>2. WovenAt(old, syms, Len(old) + 1, i) /\ i < Len(old) + 1
  BY <1>1, WovenFacts
<1>3. Givers(old, s, Len(old) + 1) = P
  <2>1. \A j \in DOMAIN old : j < Len(old) + 1
    BY <1>1
  <2>2. QED
    BY <2>1 DEF Givers
<1>4. Meant(old, i, Defs) =
        IF ExternWeak(s) THEN IF s.name.rest \in Defs THEN s.name.rest ELSE "0"
        ELSE IF IsPartner(s) /\ P # {} /\ s.name.rest \notin Defs
          THEN LET p == old[CHOOSE j \in P : TRUE] IN <<p.shndx, p.value>>
        ELSE Means(s, Defs)
  BY DEF Meant, IsPartner
<1>5. CASE ExternWeak(s)
  <2>1. syms[i] = Renamed(s)
    BY <1>2, <1>5 DEF WovenAt
  <2>2. syms[i].name.rest = s.name.rest /\ syms[i].bind = "WEAK" /\ syms[i].shndx = SHN_UNDEF
    BY <1>1, <1>5, <2>1, RenamedFacts DEF ExternWeak
  <2>3. QED
    BY <1>4, <1>5, <2>2 DEF Means
<1>6. CASE ~ExternWeak(s) /\ IsPartner(s) /\ P # {}
  <2>1. PICK p \in DOMAIN old : P = {p} /\ syms[i] = GivenTo(s, old[p])
    BY <1>2, <1>3, <1>6 DEF WovenAt
  <2>2. LocalWeak(old[p]) /\ (CHOOSE j \in P : TRUE) = p
    BY <2>1
  <2>3. /\ syms[i].name = s.name /\ syms[i].bind = "WEAK" /\ syms[i].shndx = old[p].shndx
        /\ syms[i].value = old[p].value /\ old[p].shndx # SHN_UNDEF
    BY <1>1, <2>1, <2>2, GivenFacts DEF LocalWeak
  <2> HIDE DEF P
  <2>4. CASE s.name.rest \in Defs
    <3>1. s.shndx = SHN_UNDEF
      BY <1>6 DEF IsPartner, IsExtern
    <3>2. QED
      BY <1>4, <1>6, <2>3, <2>4, <3>1 DEF Means
  <2>5. CASE s.name.rest \notin Defs
    <3>1. Meant(old, i, Defs) = <<old[p].shndx, old[p].value>>
      BY <1>4, <1>6, <2>2, <2>5
    <3>2. Means(syms[i], Defs) = <<old[p].shndx, old[p].value>>
      BY <2>3, <2>5 DEF Means
    <3>3. QED
      BY <3>1, <3>2
  <2>6. QED
    BY <2>4, <2>5
<1>7. CASE ~ExternWeak(s) /\ ~(IsPartner(s) /\ P # {})
  <2>1. syms[i] = s
    BY <1>2, <1>3, <1>7 DEF WovenAt
  <2>2. QED
    BY <1>4, <1>7, <2>1
<1>8. QED
  BY <1>5, <1>6, <1>7

LEMMA ElfLinks ==
  ASSUME ElfInv
  PROVE  LinksAsWritten
<1>1. Assembled(linked.syms)
  BY LinkedAssembled DEF ElfInv, ExecInv, ControlOK
<1>2. SUFFICES ASSUME phase = "ended", exit = 0, cmd.tool = "elfofix", m.flags.w,
                      NEW i \in DOMAIN linked.syms, ~LocalWeak(linked.syms[i]), NEW Defs
               PROVE  Means(file.syms[i], Defs) = Meant(linked.syms, i, Defs)
  BY DEF LinksAsWritten
<1>3. Woven(linked.syms, file.syms, Len(linked.syms) + 1)
  BY <1>2 DEF ElfInv, ObjInv, SymbolsOK, LastSym
<1>4. QED
  BY <1>1, <1>2, <1>3, WovenMeans

LEMMA ElfStack ==
  ASSUME ElfInv
  PROVE  OnlyStackRenamed
<1>1. linked \in Files /\ linked.shstr \in Seq(STRING) /\ TextsKept(linked.shstr, file.shstr)
      /\ NamesKept(linked.shdrs, file.shdrs)
  BY LinkedFacts DEF ElfInv, ExecInv, ObjInv, ControlOK, StringsOK, ElfFiles
<1>2. SUFFICES ASSUME phase = "ended", exit = 0, cmd.tool = "elfnostack", NEW i \in DOMAIN linked.shdrs
               PROVE  LET old == linked.shdrs[i]  name == SectionName(file, file.shdrs[i]) IN
                      IF SectionName(linked, old) = NoteStack /\ old.tail = NoText
                        THEN name = HiddenStack ELSE name = SectionName(linked, old)
  BY DEF OnlyStackRenamed
<1> DEFINE old == linked.shdrs[i]
           new == file.shdrs[i]
<1>3. \A j \in DOMAIN linked.shstr : file.shstr[j] # NoteStack
  BY <1>2 DEF ElfInv, ObjInv, StringsOK
<1>4. new.name = old.name /\ new.tail = old.tail
  BY <1>1, <1>2 DEF NamesKept
<1>5. old.tail = NoText => old.name \in DOMAIN linked.shstr
  BY <1>1, <1>2, FilesAssumption DEF FilesAssumption
<1> HIDE DEF old, new
<1>6. \A j \in DOMAIN linked.shstr :
         file.shstr[j] = linked.shstr[j] \/ (linked.shstr[j] = NoteStack /\ file.shstr[j] = HiddenStack)
  BY <1>1, TextsFacts
<1>7. CASE old.tail = NoText
  <2>1. SectionName(linked, old) = linked.shstr[old.name] /\ SectionName(file, new) = file.shstr[old.name]
    BY <1>4, <1>7 DEF SectionName
  <2>2. QED
    BY <1>3, <1>5, <1>6, <1>7, <2>1 DEF old, new
<1>8. CASE old.tail # NoText
  <2>1. SectionName(linked, old) = old.tail /\ SectionName(file, new) = old.tail
    BY <1>4, <1>8 DEF SectionName
  <2>2. QED
    BY <1>8, <2>1 DEF old, new
<1>9. QED
  BY <1>7, <1>8

\* Objects link as their source says: after elfofix -w every relocation means
\* what the weak symbols of the source mean, whatever the other object files
\* define, and elfnostack renames the section .note.GNU-stack and no other.
THEOREM ObjSoundHolds == Spec => []ObjSound
<1>1. ElfInv => ObjSound
  BY ElfLinks, ElfStack DEF ObjSound
<1>2. QED
  BY <1>1, ElfInvHolds, PTL

=============================================================================
