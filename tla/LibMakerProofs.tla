--------------------------- MODULE LibMakerProofs ---------------------------
(* For all files, command lines and failures: an old library is not touched   *)
(* while files are read, the temporary file goes away, and a library has the  *)
(* files of the command line, each behind its header, in their order.         *)
EXTENDS LibMaker, FiniteSetTheorems, TLAPS

Fields == {"objs", "i_obj", "listing", "listing_idx", "symtab", "strtab", "anames", "afpos",
           "strpos", "funcmax", "fpos", "fo"}

\* The place in main, where fo is not NULL from the making of the temporary file
\* on, so that it is removed at every end, and no file is named before its turn.
Phases ==
  /\ phase \in {"args", "open", "listing", "read", "add", "header", "copy", "ended"}
  /\ DOMAIN s = Fields
  /\ phase \in {"args", "open"} => s.fo = "NULL" /\ tmp = Absent
  /\ phase \in {"listing", "read", "add"} => s.fo = "open"
  /\ phase \in {"header", "copy"} => s.fo = "closed"

-----------------------------------------------------------------------------
LEMMA InitPhases == Init => Phases
  BY DEF Init, Phases, Fields

LEMMA EndPhases ==
  ASSUME Phases, NEW code, Quits(code)
  PROVE  Phases'
  BY DEF Phases, Quits

LEMMA NamesAdded ==
  ASSUME NEW st, DOMAIN st = Fields, NEW names
  PROVE  DOMAIN WithNames(st, names) = Fields /\ WithNames(st, names).fo = st.fo
  BY DEF Fields, WithNames

LEMMA ParseArgsPhases == Phases /\ ParseArgs => Phases'
<1> SUFFICES ASSUME Phases, ParseArgs PROVE Phases'
  OBVIOUS
<1>1. CASE \E code : Quits(code)
  BY <1>1, EndPhases
<1>2. CASE \E objs : s' = [s EXCEPT !.objs = objs] /\ Goto("open") /\ UNCHANGED tmp
  BY <1>2 DEF Phases, Goto, Fields, ParseArgs
<1> QED
  BY <1>1, <1>2, Zenon DEF ParseArgs

LEMMA TheEndPhases ==
  ASSUME Phases, NEW code, TheEnd(code)
  PROVE  Phases'
  BY EndPhases, Zenon DEF TheEnd

LEMMA OpenLibPhases == Phases /\ OpenLib => Phases'
<1> SUFFICES ASSUME Phases, OpenLib PROVE Phases'
  OBVIOUS
<1>1. CASE \E code : TheEnd(code)
  BY <1>1, TheEndPhases
<1>2. CASE s' = [s EXCEPT !.fo = "open"] /\ Goto("listing")
  BY <1>2 DEF Phases, Goto, Fields
<1> QED
  BY <1>1, <1>2, Zenon DEF OpenLib, Fails

LEMMA MakeListingPhases == Phases /\ MakeListing => Phases'
<1> SUFFICES ASSUME Phases, MakeListing PROVE Phases'
  OBVIOUS
<1>1. CASE \E code : TheEnd(code)
  BY <1>1, TheEndPhases
<1>2. CASE \E listing : s' = [s EXCEPT !.listing = listing] /\ Goto("read")
  BY <1>2 DEF Phases, Goto, Fields, MakeListing
<1> QED
  BY <1>1, <1>2, Zenon DEF MakeListing, Fails

\* The variables after the sections of a file have been looked for.
LEMMA SectionsSeen ==
  ASSUME DOMAIN s = Fields, NEW symtab, NEW strtab
  PROVE  LET st == [s EXCEPT !.symtab = symtab, !.strtab = strtab] IN
         DOMAIN st = Fields /\ st.fo = s.fo
  BY DEF Fields

LEMMA ReadObjectPhases == Phases /\ ReadObject => Phases'
<1> SUFFICES ASSUME Phases, ReadObject PROVE Phases'
  OBVIOUS
<1> DEFINE f == s.objs[s.i_obj]
           o == Objects[f]
           st == [s EXCEPT !.symtab = IF o.symtab THEN f ELSE @, !.strtab = IF o.strtab THEN f ELSE @]
<1>1. DOMAIN st = Fields /\ st.fo = s.fo
  BY DEF Phases, Fields
<1>2. CASE Goto("header") /\ s' = [s EXCEPT !.fo = "closed"]
  BY <1>2 DEF Phases, Goto, Fields
<1>3. CASE \E code : TheEnd(code)
  BY <1>3, TheEndPhases
<1>4. CASE Goto("add") /\ DOMAIN s' = Fields /\ s'.fo = s.fo
  BY <1>4 DEF Phases, Goto, ReadObject
<1>5. CASE phase' = "ended" /\ UNCHANGED s
  BY <1>5 DEF Phases
<1> QED
  <2> HIDE DEF st, o
  <2>1. \/ Goto("header") /\ s' = [s EXCEPT !.fo = "closed"]
        \/ \E code : TheEnd(code)
        \/ Goto("add") /\ (s' \in {s, st} \/ \E names : s' = WithNames(st, names))
        \/ phase' = "ended" /\ UNCHANGED s
    BY Zenon DEF ReadObject, f, o, st
  <2>2. DOMAIN s = Fields
    BY DEF Phases
  <2> QED
    BY <2>1, <2>2, <1>1, <1>2, <1>3, <1>4, <1>5, NamesAdded

LEMMA AddFilePhases == Phases /\ AddFile => Phases'
<1> SUFFICES ASSUME Phases, AddFile PROVE Phases'
  OBVIOUS
<1>1. \E i, n, k : s' = [s EXCEPT !.i_obj = i, !.fpos = n, !.listing_idx = k]
  BY Zenon DEF AddFile
<1>2. Goto("read") /\ phase = "add"
  BY Zenon DEF AddFile
<1> QED
  BY <1>1, <1>2 DEF Phases, Goto, Fields

LEMMA WriteHeaderPhases == Phases /\ WriteHeader => Phases'
<1> SUFFICES ASSUME Phases, WriteHeader PROVE Phases'
  OBVIOUS
<1>1. CASE \E code : TheEnd(code)
  BY <1>1, TheEndPhases
<1>2. CASE s' = s /\ Goto("copy")
  BY <1>2 DEF Phases, Goto, Fields, WriteHeader
<1> QED
  BY <1>1, <1>2, Zenon DEF WriteHeader, Fails

LEMMA CopyObjectsPhases == Phases /\ CopyObjects => Phases'
  BY EndPhases, Zenon DEF CopyObjects

LEMMA NextPhases == Phases /\ [Next]_vars => Phases'
<1>1. Phases /\ UNCHANGED vars => Phases'
  BY DEF Phases, vars
<1> QED
  BY <1>1, ParseArgsPhases, OpenLibPhases, MakeListingPhases, ReadObjectPhases, AddFilePhases,
     WriteHeaderPhases, CopyObjectsPhases DEF Next

LEMMA PhasesHold == Spec => []Phases
  BY InitPhases, NextPhases, PTL DEF Spec

-----------------------------------------------------------------------------
LEMMA QuitTo ==
  ASSUME NEW code, Quits(code)
  PROVE  phase' = "ended" /\ exit' = code
  BY DEF Quits

\* Every end but the crash removes the file, if it is there.
LEMMA TheEndRemoves ==
  ASSUME NEW code, TheEnd(code), s.fo = "NULL" => tmp = Absent
  PROVE  tmp' = Absent
  BY DEF TheEnd

LEMMA NextTmpGone ==
  ASSUME Phases, Next, phase' = "ended", exit' # Segfault
  PROVE  tmp' = Absent \/ (phase = "copy" /\ exit' = 2 /\ lib' = lib)
<1>1. phase # "ended" /\ s.fo = "NULL" => tmp = Absent
  BY DEF Phases
<1>2. (\E code : TheEnd(code)) /\ phase # "ended" => tmp' = Absent
  BY <1>1, TheEndRemoves
<1>3. \A next : Goto(next) => phase' = next
  BY DEF Goto
<1>4. CASE ParseArgs
  BY <1>3, <1>4, Zenon DEF ParseArgs, Phases
<1>5. CASE OpenLib
  BY <1>2, <1>3, <1>5, Zenon DEF OpenLib, Fails
<1>6. CASE MakeListing
  BY <1>2, <1>3, <1>6, Zenon DEF MakeListing, Fails
<1>7. CASE ReadObject
  BY <1>2, <1>3, <1>7, Zenon DEF ReadObject
<1>8. CASE AddFile
  BY <1>3, <1>8, Zenon DEF AddFile
<1>9. CASE WriteHeader
  BY <1>2, <1>3, <1>9, Zenon DEF WriteHeader, Fails
<1>10. CASE CopyObjects
  BY <1>10, QuitTo, Zenon DEF CopyObjects, TmpRemoved
<1> QED
  BY <1>4, <1>5, <1>6, <1>7, <1>8, <1>9, <1>10 DEF Next

\* Whatever fails, the temporary file is gone at the end, unless the program has
\* crashed or it was opening this file that has failed.
THEOREM TmpGoneHolds == Spec => TmpGone
<1>1. Phases /\ [Next]_vars =>
        [phase' = "ended" /\ exit' # Segfault =>
           tmp' = Absent \/ (phase = "copy" /\ exit' = 2 /\ lib' = lib)]_vars
  BY NextTmpGone DEF vars
<1> QED
  BY <1>1, PhasesHold, PTL DEF Spec, TmpGone

LEMMA NextOldKept ==
  ASSUME Next, phase \notin {"header", "copy"}
  PROVE  lib' \in {lib, <<>>} /\ (lib' # lib => lib = Absent)
<1>1. lib' = lib \/ lib' = Opened
  BY Zenon DEF Next, ParseArgs, OpenLib, MakeListing, ReadObject, AddFile, WriteHeader,
     CopyObjects, Fails
<1> QED
  BY <1>1 DEF Opened

\* As long as files are read the old library is there, and a new one is empty.
THEOREM OldLibraryKeptHolds == Spec => OldLibraryKept
<1>1. [Next]_vars =>
        [phase \notin {"header", "copy"} => lib' \in {lib, <<>>} /\ (lib' # lib => lib = Absent)]_vars
  BY NextOldKept DEF vars
<1> QED
  BY <1>1, PTL DEF Spec, OldLibraryKept

-----------------------------------------------------------------------------
(* What is in the library. *)

IsSeq(q) == \E S : q \in Seq(S)
NoData(q) == \E S : q \in Seq(S) /\ \A x \in S : x.kind # "data"

\* The first n files, each behind its header.
Filled(q, objs, n) ==
  /\ IsSeq(q) /\ Len(q) = 2 * n
  /\ \A i \in 1..n : IsMember(q[2 * i - 1], q[2 * i], objs[i])

\* The temporary file has the files up to the one whose turn it is, if nothing
\* went wrong unseen, and nothing but these gets into the library as a member.
Filling ==
  /\ phase \in {"header", "copy"} /\ ~torn => Filled(tmp, s.objs, Len(s.objs))
  /\ phase \in {"listing", "read", "add"} /\ ~torn => Filled(tmp, s.objs, s.i_obj - 1)
  /\ phase = "copy" /\ ~torn => NoData(lib)

Turns ==
  /\ args \in Args
  /\ Len(s.objs) \in Nat /\ s.i_obj \in 1..(Len(s.objs) + 1)
  /\ phase = "args" => s.objs = <<>>
  /\ phase \in {"args", "open", "listing"} => s.i_obj = 1
  /\ phase = "add" => s.i_obj <= Len(s.objs)

LibInv == Phases /\ Turns /\ Filling /\ MembersInOrder

-----------------------------------------------------------------------------
LEMMA InitLibInv == Init => LibInv
<1> SUFFICES ASSUME Init PROVE LibInv
  OBVIOUS
<1>1. Phases
  BY InitPhases
<1>2. s.objs = <<>> /\ s.i_obj = 1 /\ phase = "args" /\ args \in Args /\ exit = Running
  BY DEF Init
<1>3. Turns
  BY <1>2 DEF Turns
<1>4. Filling
  BY <1>2 DEF Filling
<1>5. MembersInOrder
  BY <1>2 DEF MembersInOrder, Made
<1> QED
  BY <1>1, <1>3, <1>4, <1>5 DEF LibInv

LEMMA JoinedOK ==
  ASSUME NEW p, IsSeq(p), NEW q, IsSeq(q)
  PROVE  /\ IsSeq(p \o q) /\ Len(p) \in Nat /\ Len(q) \in Nat
         /\ Len(p \o q) = Len(p) + Len(q)
         /\ \A i \in 1..Len(p) : (p \o q)[i] = p[i]
         /\ \A i \in 1..Len(q) : (p \o q)[Len(p) + i] = q[i]
<1>1. PICK S : p \in Seq(S)
  BY DEF IsSeq
<1>2. PICK T : q \in Seq(T)
  BY DEF IsSeq
<1>3. p \in Seq(S \cup T) /\ q \in Seq(S \cup T)
  BY <1>1, <1>2
<1>4. p \o q \in Seq(S \cup T)
  BY <1>3
<1> QED
  BY <1>3, <1>4 DEF IsSeq

LEMMA NoDataJoined ==
  ASSUME NEW p, NoData(p), NEW q, NoData(q)
  PROVE  NoData(p \o q)
<1>1. PICK S : p \in Seq(S) /\ \A x \in S : x.kind # "data"
  BY DEF NoData
<1>2. PICK T : q \in Seq(T) /\ \A x \in T : x.kind # "data"
  BY DEF NoData
<1>3. p \o q \in Seq(S \cup T)
  BY <1>1, <1>2
<1> QED
  BY <1>1, <1>2, <1>3 DEF NoData

LEMMA NoDataElements ==
  ASSUME NEW q, NoData(q)
  PROVE  IsSeq(q) /\ \A i \in 1..Len(q) : q[i].kind # "data"
  BY DEF NoData, IsSeq

\* A library that is made of pieces that are no data and of all files.
LEMMA JoinedInOrder ==
  ASSUME NEW p, NoData(p), NEW q, NEW objs, Len(objs) \in Nat, Filled(q, objs, Len(objs))
  PROVE  LET n == Len(objs)  r == p \o q  first == Len(r) - 2 * n IN
         /\ \A i \in 1..first : r[i].kind # "data"
         /\ \A i \in 1..n : IsMember(r[first + 2 * i - 1], r[first + 2 * i], objs[i])
<1> DEFINE n == Len(objs)
           r == p \o q
<1>1. IsSeq(p) /\ \A i \in 1..Len(p) : p[i].kind # "data"
  BY NoDataElements
<1>2. IsSeq(q) /\ Len(q) = 2 * n /\ \A i \in 1..n : IsMember(q[2 * i - 1], q[2 * i], objs[i])
  BY DEF Filled
<1>3. /\ Len(p) \in Nat /\ Len(r) = Len(p) + Len(q)
      /\ \A i \in 1..Len(p) : r[i] = p[i]
      /\ \A i \in 1..Len(q) : r[Len(p) + i] = q[i]
  <2>1. IsSeq(p) /\ IsSeq(q)
    BY <1>1, <1>2
  <2>2. /\ Len(p) \in Nat /\ Len(p \o q) = Len(p) + Len(q)
        /\ \A i \in 1..Len(p) : (p \o q)[i] = p[i]
        /\ \A i \in 1..Len(q) : (p \o q)[Len(p) + i] = q[i]
    BY <2>1, JoinedOK, SMT
  <2> QED
    BY <2>2, Zenon DEF r
<1> HIDE DEF r, n
<1>4. n \in Nat
  BY DEF n
<1>5. Len(r) - 2 * n = Len(p)
  BY <1>2, <1>3, <1>4
<1>6. \A i \in 1..n : /\ 2 * i - 1 \in 1..Len(q) /\ 2 * i \in 1..Len(q)
                      /\ Len(p) + (2 * i - 1) = Len(p) + 2 * i - 1
  BY <1>2, <1>3, <1>4
<1>7. \A i \in 1..n : IsMember(r[Len(p) + 2 * i - 1], r[Len(p) + 2 * i], objs[i])
  BY <1>2, <1>3, <1>6
<1>8. \A i \in 1..Len(p) : r[i].kind # "data"
  BY <1>1, <1>3
<1> QED
  BY <1>5, <1>7, <1>8, Zenon DEF r, n

-----------------------------------------------------------------------------
\* Nothing is to be shown of a library that has not been made.
LEMMA NotMade ==
  ASSUME phase' # "ended" \/ exit' # 0 \/ s'.objs = <<>>
  PROVE  MembersInOrder'
  BY DEF MembersInOrder, Made

LEMMA EndKeeps ==
  ASSUME LibInv, NEW code, Quits(code), code # 0 \/ s.objs = <<>>
  PROVE  LibInv'
<1>1. phase' = "ended" /\ exit' = code /\ s' = s /\ args' = args
  BY DEF Quits
<1>2. Phases'
  BY EndPhases DEF LibInv
<1>3. Turns'
  BY <1>1 DEF LibInv, Turns
<1>4. Filling'
  BY <1>1 DEF Filling
<1>5. MembersInOrder'
  BY <1>1, NotMade
<1> QED
  BY <1>2, <1>3, <1>4, <1>5 DEF LibInv

LEMMA FailKeeps ==
  ASSUME LibInv, NEW code, TheEnd(code), code # 0
  PROVE  LibInv'
<1>1. Quits(code)
  BY DEF TheEnd
<1> QED
  BY <1>1, EndKeeps

\* What a step that goes on leaves the same.
LEMMA GoesOn ==
  ASSUME NEW next, Goto(next)
  PROVE  phase' = next /\ args' = args /\ exit' = exit
  BY DEF Goto

LEMMA CommandLine ==
  ASSUME args \in Args
  PROVE  LET Others == {i \in DOMAIN args : ~IsOption(i)} IN Cardinality(Others) \in Nat
<1> DEFINE Others == {i \in DOMAIN args : ~IsOption(i)}
<1> DEFINE Arguments == [text : STRING, file : Nat, dash : BOOLEAN, dot : BOOLEAN, conflict : BOOLEAN]
<1>0. args \in Seq(Arguments)
  BY ArgsAssumption
<1> HIDE DEF Arguments
<1>1. PICK n \in Nat : DOMAIN args = 1..n
  BY <1>0
<1>2. IsFiniteSet(1..n) /\ Others \subseteq 1..n
  BY <1>1, FS_Interval
<1> QED
  BY <1>2, FS_Subset, FS_CardinalityType

LEMMA ParseArgsKeeps == LibInv /\ ParseArgs => LibInv'
<1> SUFFICES ASSUME LibInv, ParseArgs PROVE LibInv'
  OBVIOUS
<1>1. phase = "args" /\ s.objs = <<>> /\ args \in Args /\ s.i_obj = 1 /\ DOMAIN s = Fields
  BY DEF ParseArgs, LibInv, Turns, Phases
<1> DEFINE Others == {i \in DOMAIN args : ~IsOption(i)}
<1>2. CASE \E code : Quits(code)
  BY <1>1, <1>2, EndKeeps
<1>3. CASE ~\E code : Quits(code)
  <2>1. /\ ~(Cardinality(Others) < 2) /\ Goto("open")
        /\ \E files \in [1..Cardinality(Others) -> Others] :
             s' = [s EXCEPT !.objs = [i \in 1..(Len(files) - 1) |-> args[files[i + 1]].file]]
    BY <1>3, Zenon DEF ParseArgs
  <2>2. PICK files \in [1..Cardinality(Others) -> Others] :
          s' = [s EXCEPT !.objs = [i \in 1..(Len(files) - 1) |-> args[files[i + 1]].file]]
    BY <2>1
  <2>3. Cardinality(Others) \in Nat
    BY <1>1, CommandLine
  <2>4. Len(files) = Cardinality(Others)
    <3> HIDE DEF Others
    <3> QED
      BY <2>3
  <2> DEFINE n == Len(files) - 1
             objs == [i \in 1..n |-> args[files[i + 1]].file]
  <2>5. n \in Nat
    <3> HIDE DEF Others
    <3> QED
      BY <2>1, <2>3, <2>4
  <2>6. Len(objs) = n
    <3> HIDE DEF n
    <3> QED
      BY <2>5
  <2> HIDE DEF n, Others
  <2>7. s'.objs = objs /\ s'.i_obj = s.i_obj
    <3> HIDE DEF objs
    <3>1. s' = [s EXCEPT !.objs = objs]
      BY <2>2 DEF objs, n
    <3> QED
      BY <3>1, <1>1 DEF Fields
  <2>8. Turns'
    <3> HIDE DEF objs
    <3>1. Len(s'.objs) \in Nat
      BY <2>5, <2>6, <2>7
    <3>2. phase' = "open" /\ args' = args
      BY <2>1, GoesOn
    <3> QED
      BY <1>1, <2>7, <3>1, <3>2 DEF Turns
  <2>9. Phases'
    BY ParseArgsPhases DEF LibInv
  <2>10. Filling' /\ MembersInOrder'
    BY <2>1, GoesOn, NotMade DEF Filling
  <2> QED
    BY <2>8, <2>9, <2>10 DEF LibInv
<1> QED
  BY <1>2, <1>3

LEMMA OpenLibKeeps == LibInv /\ OpenLib => LibInv'
<1> SUFFICES ASSUME LibInv, OpenLib PROVE LibInv'
  OBVIOUS
<1>1. CASE TheEnd(2)
  BY <1>1, FailKeeps
<1>2. CASE tmp' = <<>> /\ s' = [s EXCEPT !.fo = "open"] /\ Goto("listing")
  <2>1. phase' = "listing" /\ args' = args
    BY <1>2, GoesOn
  <2>2. phase = "open" /\ DOMAIN s = Fields
    BY DEF OpenLib, LibInv, Phases
  <2>3. s'.objs = s.objs /\ s'.i_obj = s.i_obj
    BY <1>2, <2>2 DEF Fields
  <2>4. Turns'
    BY <2>1, <2>2, <2>3 DEF LibInv, Turns
  <2>5. s'.i_obj - 1 = 0
    BY <2>2, <2>3 DEF LibInv, Turns
  <2>6. Filled(<<>>, s'.objs, 0)
    <3>1. <<>> \in Seq({}) /\ Len(<<>>) = 0
      OBVIOUS
    <3> QED
      BY <3>1 DEF Filled, IsSeq
  <2>7. Filling'
    BY <1>2, <2>1, <2>5, <2>6 DEF Filling
  <2>8. Phases'
    BY OpenLibPhases DEF LibInv
  <2> QED
    BY <2>1, <2>4, <2>7, <2>8, NotMade DEF LibInv
<1> QED
  BY <1>1, <1>2, Zenon DEF OpenLib, Fails

LEMMA MakeListingKeeps == LibInv /\ MakeListing => LibInv'
<1> SUFFICES ASSUME LibInv, MakeListing PROVE LibInv'
  OBVIOUS
<1>1. CASE TheEnd(2)
  BY <1>1, FailKeeps
<1>2. CASE s' = [s EXCEPT !.listing = Listing(s.objs)] /\ Goto("read") /\ UNCHANGED <<tmp, torn>>
  <2>1. phase' = "read" /\ args' = args
    BY <1>2, GoesOn
  <2>2. phase = "listing" /\ DOMAIN s = Fields
    BY DEF MakeListing, LibInv, Phases
  <2>3. s'.objs = s.objs /\ s'.i_obj = s.i_obj
    BY <1>2, <2>2 DEF Fields
  <2>4. Turns'
    BY <2>1, <2>2, <2>3 DEF LibInv, Turns
  <2>5. Filling'
    BY <1>2, <2>1, <2>2, <2>3 DEF LibInv, Filling
  <2>6. Phases'
    BY MakeListingPhases DEF LibInv
  <2> QED
    BY <2>1, <2>4, <2>5, <2>6, NotMade DEF LibInv
<1> QED
  BY <1>1, <1>2, Zenon DEF MakeListing, Fails

LEMMA NamesOnly ==
  ASSUME NEW st, DOMAIN st = Fields, NEW names
  PROVE  WithNames(st, names).objs = st.objs /\ WithNames(st, names).i_obj = st.i_obj
  BY DEF Fields, WithNames

LEMMA ReadObjectKeeps == LibInv /\ ReadObject => LibInv'
<1> SUFFICES ASSUME LibInv, ReadObject PROVE LibInv'
  OBVIOUS
<1> DEFINE f == s.objs[s.i_obj]
           o == Objects[f]
           st == [s EXCEPT !.symtab = IF o.symtab THEN f ELSE @, !.strtab = IF o.strtab THEN f ELSE @]
           Same(r) == r.objs = s.objs /\ r.i_obj = s.i_obj
<1>1. phase = "read" /\ DOMAIN s = Fields /\ UNCHANGED torn
  BY DEF ReadObject, LibInv, Phases
<1>2. DOMAIN st = Fields /\ Same(st)
  BY <1>1 DEF Fields
<1>3. Phases'
  BY ReadObjectPhases DEF LibInv
<1>4. \/ s.i_obj > Len(s.objs) /\ Goto("header") /\ s' = [s EXCEPT !.fo = "closed"] /\ UNCHANGED tmp
      \/ TheEnd(2)
      \/ /\ ~(s.i_obj > Len(s.objs)) /\ Goto("add") /\ UNCHANGED tmp
         /\ s' \in {s, st} \/ \E names : s' = WithNames(st, names)
      \/ phase' = "ended" /\ exit' = Segfault /\ UNCHANGED <<args, s>>
  <2> HIDE DEF st, o
  <2> QED
    BY Zenon DEF ReadObject, f, o, st
<1> HIDE DEF st, o, f
<1>5. CASE s.i_obj > Len(s.objs) /\ Goto("header") /\ s' = [s EXCEPT !.fo = "closed"] /\ UNCHANGED tmp
  <2>1. phase' = "header" /\ args' = args
    BY <1>5, GoesOn
  <2>2. Same(s')
    BY <1>1, <1>5 DEF Fields
  <2>3. s.i_obj = Len(s.objs) + 1 /\ s.i_obj - 1 = Len(s.objs)
    BY <1>5 DEF LibInv, Turns
  <2>4. Turns'
    BY <2>1, <2>2 DEF LibInv, Turns
  <2>5. Filling'
    BY <1>1, <1>5, <2>1, <2>2, <2>3 DEF LibInv, Filling
  <2> QED
    BY <1>3, <2>1, <2>4, <2>5, NotMade DEF LibInv
<1>6. CASE TheEnd(2)
  BY <1>6, FailKeeps
<1>7. CASE /\ ~(s.i_obj > Len(s.objs)) /\ Goto("add") /\ UNCHANGED tmp
           /\ s' \in {s, st} \/ \E names : s' = WithNames(st, names)
  <2>1. phase' = "add" /\ args' = args
    BY <1>7, GoesOn
  <2>2. Same(s')
    BY <1>2, <1>7, NamesOnly
  <2>3. s.i_obj <= Len(s.objs)
    BY <1>7 DEF LibInv, Turns
  <2>4. Turns'
    BY <2>1, <2>2, <2>3 DEF LibInv, Turns
  <2>5. Filling'
    BY <1>1, <1>7, <2>1, <2>2 DEF LibInv, Filling
  <2> QED
    BY <1>3, <2>1, <2>4, <2>5, NotMade DEF LibInv
<1>8. CASE phase' = "ended" /\ exit' = Segfault /\ UNCHANGED <<args, s>>
  <2>1. Turns'
    BY <1>8 DEF LibInv, Turns
  <2>2. Filling' /\ MembersInOrder'
    BY <1>8, NotMade DEF Filling, Segfault
  <2> QED
    BY <1>3, <2>1, <2>2 DEF LibInv
<1> QED
  BY <1>4, <1>5, <1>6, <1>7, <1>8

LEMMA FilledMore ==
  ASSUME NEW q, NEW objs, NEW n \in Nat, Filled(q, objs, n), NEW h, NEW d,
         IsMember(h, d, objs[n + 1])
  PROVE  Filled(q \o <<h, d>>, objs, n + 1)
<1> DEFINE two == <<h, d>>
           r == q \o two
<1>1. IsSeq(q) /\ Len(q) = 2 * n /\ \A i \in 1..n : IsMember(q[2 * i - 1], q[2 * i], objs[i])
  BY DEF Filled
<1>2. two \in Seq({h, d}) /\ Len(two) = 2 /\ two[1] = h /\ two[2] = d
  OBVIOUS
<1>3. IsSeq(two)
  BY <1>2 DEF IsSeq
<1> HIDE DEF two
<1>4. /\ IsSeq(q \o two) /\ Len(q \o two) = Len(q) + Len(two)
      /\ \A i \in 1..Len(q) : (q \o two)[i] = q[i]
      /\ \A i \in 1..Len(two) : (q \o two)[Len(q) + i] = two[i]
  <2>1. IsSeq(q)
    BY <1>1
  <2> QED
    BY <1>3, <2>1, JoinedOK, SMT
<1>5. /\ IsSeq(r) /\ Len(r) = Len(q) + Len(two)
      /\ \A i \in 1..Len(q) : r[i] = q[i]
      /\ \A i \in 1..Len(two) : r[Len(q) + i] = two[i]
  BY <1>4, Zenon DEF r
<1> HIDE DEF r
<1>6. Len(r) = 2 * (n + 1) /\ r[2 * n + 1] = h /\ r[2 * n + 2] = d
  BY <1>1, <1>2, <1>5
<1>7. ASSUME NEW i \in 1..n PROVE IsMember(r[2 * i - 1], r[2 * i], objs[i])
  <2>1. 2 * i - 1 \in 1..Len(q) /\ 2 * i \in 1..Len(q)
    BY <1>1
  <2> QED
    BY <1>1, <1>5, <2>1
<1>8. IsMember(r[2 * (n + 1) - 1], r[2 * (n + 1)], objs[n + 1])
  <2>1. 2 * (n + 1) - 1 = 2 * n + 1 /\ 2 * (n + 1) = 2 * n + 2
    OBVIOUS
  <2> QED
    BY <1>6, <2>1
<1>9. \A i \in 1..(n + 1) : i \in 1..n \/ i = n + 1
  OBVIOUS
<1>10. Filled(r, objs, n + 1)
  BY <1>5, <1>6, <1>7, <1>8, <1>9 DEF Filled
<1> QED
  BY <1>10 DEF r, two

LEMMA AddFileKeeps == LibInv /\ AddFile => LibInv'
<1> SUFFICES ASSUME LibInv, AddFile PROVE LibInv'
  OBVIOUS
<1> DEFINE f == s.objs[s.i_obj]
           data == [kind |-> "data", of |-> f, size |-> Even(Objects[f].size)]
<1>1. phase = "add" /\ DOMAIN s = Fields
  BY DEF AddFile, LibInv, Phases
<1>2. phase' = "read" /\ args' = args
  BY GoesOn, Zenon DEF AddFile
<1>3. s'.objs = s.objs /\ s'.i_obj = s.i_obj + 1
  <2>1. \E n, k : s' = [s EXCEPT !.i_obj = @ + 1, !.fpos = n, !.listing_idx = k]
    BY Zenon DEF AddFile
  <2> QED
    BY <1>1, <2>1 DEF Fields
<1>4. Len(s.objs) \in Nat /\ s.i_obj \in 1..Len(s.objs)
  BY <1>1 DEF LibInv, Turns
<1>5. Turns'
  BY <1>2, <1>3, <1>4 DEF LibInv, Turns
<1>6. Phases'
  BY AddFilePhases DEF LibInv
<1>7. ASSUME ~torn' PROVE Filled(tmp', s'.objs, s'.i_obj - 1)
  <2>1. tmp' = tmp \o <<MemberHeader(f), data>> /\ ~torn
    <3>1. \/ tmp' = tmp \o <<MemberHeader(f), data>> /\ torn' = torn
          \/ torn' = TRUE
      BY Zenon DEF AddFile
    <3> QED
      BY <1>7, <3>1
  <2>2. Filled(tmp, s.objs, s.i_obj - 1) /\ s.i_obj - 1 \in Nat /\ (s.i_obj - 1) + 1 = s.i_obj
    BY <1>1, <1>4, <2>1 DEF LibInv, Filling
  <2>3. IsMember(MemberHeader(f), data, f)
    <3>1. \A name, size : ArHdr(name, size).kind = "header" /\ ArHdr(name, size).len = size
      BY DEF ArHdr
    <3>2. MemberHeader(f).kind = "header" /\ MemberHeader(f).len = Objects[f].size
      BY <3>1 DEF MemberHeader
    <3> QED
      BY <3>2 DEF IsMember
  <2> HIDE DEF data, f
  <2>4. IsMember(MemberHeader(f), data, s.objs[(s.i_obj - 1) + 1])
    BY <2>2, <2>3 DEF f
  <2>5. Filled(tmp \o <<MemberHeader(f), data>>, s.objs, s.i_obj - 1 + 1)
    BY <2>2, <2>4, FilledMore
  <2>6. s'.i_obj - 1 = s.i_obj - 1 + 1
    BY <1>3, <1>4
  <2> QED
    BY <1>3, <2>1, <2>5, <2>6
<1>8. Filling'
  BY <1>2, <1>7 DEF Filling
<1> QED
  BY <1>2, <1>5, <1>6, <1>8, NotMade DEF LibInv

LEMMA NoDataIn ==
  ASSUME NEW S, \A x \in S : x.kind # "data", NEW q \in Seq(S)
  PROVE  NoData(q)
  BY DEF NoData

LEMMA SeqNoData ==
  ASSUME NEW p, p.kind # "data"
  PROVE  NoData(<<p>>)
<1>1. <<p>> \in Seq({p})
  OBVIOUS
<1> QED
  BY <1>1, NoDataIn

LEMMA PairNoData ==
  ASSUME NEW p, p.kind # "data", NEW q, q.kind # "data"
  PROVE  NoData(<<p, q>>)
<1>1. <<p, q>> \in Seq({p, q})
  OBVIOUS
<1> QED
  BY <1>1, NoDataIn

LEMMA NothingNoData == NoData(<<>>)
<1>1. <<>> \in Seq({})
  OBVIOUS
<1> QED
  BY <1>1, NoDataIn

\* The header of the library has no members.
LEMMA HeaderNoData == NoData(<<[kind |-> "armag", size |-> ArmagSize]>> \o Armap \o LongNames)
<1> DEFINE armag == [kind |-> "armag", size |-> ArmagSize]
<1>1. \A name, size : ArHdr(name, size).kind # "data"
  BY DEF ArHdr
<1>2. NoData(<<armag>>)
  <2>1. armag.kind # "data"
    OBVIOUS
  <2> HIDE DEF armag
  <2> QED
    BY <2>1, SeqNoData
<1>3. ASSUME NEW name, NEW size, NEW p, p.kind # "data" PROVE NoData(<<ArHdr(name, size), p>>)
  BY <1>1, <1>3, PairNoData
<1>4. NoData(Armap)
  <2> DEFINE n == Len(s.afpos)
             bytes == s.strpos + (n + 1) * WordSize
             armap == [kind |-> "armap", count |-> le2belong(Word(n)), names |-> s.anames,
                       offsets |-> [i \in 1..n |-> Stored(s.afpos[i])],
                       size |-> bytes + (Hofs % 2)]
  <2>1. armap.kind # "data"
    OBVIOUS
  <2> HIDE DEF armap
  <2>2. NoData(<<ArHdr(<<"/", 0>>, Even(bytes)), armap>>)
    <3> DEFINE name == <<"/", 0>>
               even == Even(bytes)
    <3> HIDE DEF name, even
    <3>1. NoData(<<ArHdr(name, even), armap>>)
      BY <1>3, <2>1
    <3> QED
      BY <3>1, Zenon DEF name, even
  <2>3. Armap = IF n = 0 THEN <<>> ELSE <<ArHdr(<<"/", 0>>, Even(bytes)), armap>>
    BY Zenon DEF Armap, armap
  <2> QED
    BY <2>2, <2>3, NothingNoData, Zenon
<1>5. NoData(LongNames)
  <2> DEFINE names == [kind |-> "names", lines |-> s.listing, size |-> SizeOf(s.listing)]
  <2>1. names.kind # "data"
    OBVIOUS
  <2> HIDE DEF names
  <2>2. NoData(<<ArHdr(<<"/", 1>>, SizeOf(s.listing)), names>>)
    <3> DEFINE name == <<"/", 1>>
               size == SizeOf(s.listing)
    <3> HIDE DEF name, size
    <3>1. NoData(<<ArHdr(name, size), names>>)
      BY <1>3, <2>1
    <3> QED
      BY <3>1, Zenon DEF name, size
  <2>3. LongNames = IF s.listing = <<>> THEN <<>> ELSE <<ArHdr(<<"/", 1>>, SizeOf(s.listing)), names>>
    BY Zenon DEF LongNames, names
  <2> QED
    BY <2>2, <2>3, NothingNoData, Zenon
<1> HIDE DEF armag
<1>6. NoData(<<armag>> \o Armap)
  BY <1>2, <1>4, NoDataJoined
<1>7. NoData(<<armag>> \o Armap \o LongNames)
  BY <1>5, <1>6, NoDataJoined
<1> QED
  BY <1>7, Zenon DEF armag

LEMMA WriteHeaderKeeps == LibInv /\ WriteHeader => LibInv'
<1> SUFFICES ASSUME LibInv, WriteHeader PROVE LibInv'
  OBVIOUS
<1> DEFINE pieces == <<[kind |-> "armag", size |-> ArmagSize]>> \o Armap \o LongNames
<1>1. \/ TheEnd(2)
      \/ /\ s' = s /\ Goto("copy") /\ UNCHANGED tmp
         /\ (lib' = pieces /\ torn' = torn) \/ torn' = TRUE
  BY Zenon DEF WriteHeader, Fails
<1>2. NoData(pieces)
  BY HeaderNoData
<1> HIDE DEF pieces
<1>3. CASE TheEnd(2)
  BY <1>3, FailKeeps
<1>4. CASE /\ s' = s /\ Goto("copy") /\ UNCHANGED tmp
           /\ (lib' = pieces /\ torn' = torn) \/ torn' = TRUE
  <2>1. phase' = "copy" /\ args' = args /\ phase = "header"
    BY <1>4, GoesOn, Zenon DEF WriteHeader
  <2>2. Turns'
    BY <1>4, <2>1 DEF LibInv, Turns
  <2>3. Filling'
    BY <1>2, <1>4, <2>1 DEF LibInv, Filling
  <2>4. Phases'
    BY WriteHeaderPhases DEF LibInv
  <2> QED
    BY <2>1, <2>2, <2>3, <2>4, NotMade DEF LibInv
<1> QED
  BY <1>1, <1>3, <1>4

LEMMA CopyObjectsKeeps == LibInv /\ CopyObjects => LibInv'
<1> SUFFICES ASSUME LibInv, CopyObjects PROVE LibInv'
  OBVIOUS
<1>1. CASE Quits(2)
  BY <1>1, EndKeeps
<1>2. CASE lib' = lib \o tmp /\ Quits(0)
  <2>1. phase' = "ended" /\ s' = s /\ args' = args /\ torn' = torn /\ phase = "copy"
    BY <1>2 DEF Quits, CopyObjects
  <2>2. Phases'
    BY CopyObjectsPhases DEF LibInv
  <2>3. Turns'
    BY <2>1 DEF LibInv, Turns
  <2>4. Filling'
    BY <2>1 DEF Filling
  <2>5. ASSUME ~torn
        PROVE  LET n == Len(s.objs)  first == Len(lib') - 2 * n IN
               /\ \A i \in 1..first : lib'[i].kind # "data"
               /\ \A i \in 1..n : IsMember(lib'[first + 2 * i - 1], lib'[first + 2 * i], s.objs[i])
    <3>1. NoData(lib) /\ Filled(tmp, s.objs, Len(s.objs)) /\ Len(s.objs) \in Nat
      BY <2>1, <2>5 DEF LibInv, Turns, Filling
    <3>2. LET n == Len(s.objs)  r == lib \o tmp  first == Len(r) - 2 * n IN
          /\ \A i \in 1..first : r[i].kind # "data"
          /\ \A i \in 1..n : IsMember(r[first + 2 * i - 1], r[first + 2 * i], s.objs[i])
      BY <3>1, JoinedInOrder, Zenon
    <3> QED
      BY <1>2, <3>2, Zenon
  <2>6. MembersInOrder'
    BY <2>1, <2>5, Zenon DEF MembersInOrder, Made
  <2> QED
    BY <2>2, <2>3, <2>4, <2>6 DEF LibInv
<1> QED
  BY <1>1, <1>2, Zenon DEF CopyObjects

LEMMA NextKeeps == LibInv /\ [Next]_vars => LibInv'
<1>1. LibInv /\ UNCHANGED vars => LibInv'
  <2> SUFFICES ASSUME LibInv, UNCHANGED vars PROVE LibInv'
    OBVIOUS
  <2>1. Phases' /\ Turns' /\ Filling'
    BY DEF LibInv, vars, Phases, Turns, Filling
  <2>2. MembersInOrder'
    BY DEF LibInv, vars, MembersInOrder, Made
  <2> QED
    BY <2>1, <2>2 DEF LibInv
<1> QED
  BY <1>1, ParseArgsKeeps, OpenLibKeeps, MakeListingKeeps, ReadObjectKeeps, AddFileKeeps,
     WriteHeaderKeeps, CopyObjectsKeeps DEF Next

\* A library that was made without a failure ends in the files of the command
\* line, each behind its header, in their order, and has no other member.
THEOREM MembersInOrderHolds == Spec => []MembersInOrder
<1>1. LibInv => MembersInOrder
  BY DEF LibInv
<1> QED
  BY <1>1, InitLibInv, NextKeeps, PTL DEF Spec

=============================================================================
