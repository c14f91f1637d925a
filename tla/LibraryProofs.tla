---------------------------- MODULE LibraryProofs ----------------------------
(* Proofs about parts of the library.  For every number of processes, names   *)
(* and tries: what a maker of temporary files answers is what it has left in  *)
(* the directory, and it takes over no file of another process.  For every    *)
(* year: gmtime_r and timegm are right and inverse to each other.  For every  *)
(* text and every set of separators: strtok takes a string apart whole.       *)
EXTENDS TempFiles, Calendar, Tokens, SequenceTheorems, WellFoundedInduction, TLAPS

\* What the place in a call says of its variables: before it begins nothing is
\* left of the last one, in the loop of mktmpf the tries made and those left add
\* up, and only tempnam removes what it has made.
Phase(c) ==
  /\ c.pc = "idle" => c.ret = "none" /\ c.taken = 0 /\ c.blocks = 0
  /\ c.pc = "open" => /\ c.ret = "none" /\ c.call \in Callers
                      /\ c.call = "mktmpf" => c.taken + c.tries = TRY_COUNT
  /\ c.pc = "unlink" => c.call = "tempnam" /\ c.ret = "made"

Honest(c) ==
  /\ c.ret \in {"-1", "3"} => c.errno \notin {"none", "EEXIST"}
  /\ c.ret = "4" => c.call = "mktmpf" /\ c.taken = TRY_COUNT + 1

Accounted(p) ==
  /\ {n \in TempNames : dir[n] = p}
       = IF procs[p].pc = "unlink" \/ HasFile(p) THEN {procs[p].name} ELSE {}
  /\ procs[p].ret = "-1" => procs[p].blocks = 0

\* FilesAccounted and FailuresHonest with what each step needs of the last one.
Sound(p) == Phase(procs[p]) /\ Honest(procs[p]) /\ Accounted(p)

TempInvariant == TempTypeOK /\ \A p \in Procs : Sound(p)

-----------------------------------------------------------------------------
LEMMA InitSound == TempInit => TempInvariant
<1> SUFFICES ASSUME TempInit PROVE TempInvariant
  OBVIOUS
<1>1. TempTypeOK
  BY TempAssumption DEF TempInit, TempTypeOK, CallRecords, Idle, NoOne, Others, Callers
<1>2. ASSUME NEW p \in Procs PROVE Sound(p)
  <2>1. procs[p] = Idle
    BY DEF TempInit
  <2>2. {n \in TempNames : dir[n] = p} = {}
    BY TempAssumption DEF TempInit
  <2> QED
    BY <2>1, <2>2 DEF Sound, Phase, Honest, Accounted, HasFile, Idle
<1> QED
  BY <1>1, <1>2 DEF TempInvariant

\* A process whose record and files are left alone stays sound.
LEMMA LeftAlone ==
  ASSUME NEW p \in Procs, Sound(p), procs'[p] = procs[p],
         \A n \in TempNames : (dir'[n] = p) <=> (dir[n] = p)
  PROVE  Sound(p)'
<1>1. {n \in TempNames : dir'[n] = p} = {n \in TempNames : dir[n] = p}
  OBVIOUS
<1> QED
  BY <1>1 DEF Sound, Phase, Honest, Accounted, HasFile

\* A step of p alone, of which its own part is known.
LEMMA OneSteps ==
  ASSUME TempInvariant, NEW p \in Procs, NEW c \in CallRecords, procs' = [procs EXCEPT ![p] = c],
         dir' \in [TempNames -> Procs \cup {NoOne, Others}],
         \A n \in TempNames : dir'[n] = dir[n] \/ {dir[n], dir'[n]} \subseteq {p, NoOne},
         Phase(c), Honest(c), Accounted(p)'
  PROVE  TempInvariant'
<1>1. TempTypeOK'
  BY DEF TempTypeOK, TempInvariant
<1>2. procs'[p] = c /\ \A q \in Procs \ {p} : procs'[q] = procs[q]
  BY DEF TempInvariant, TempTypeOK
<1>3. Sound(p)'
  BY <1>2 DEF Sound, Phase, Honest
<1>4. ASSUME NEW q \in Procs \ {p} PROVE Sound(q)'
  <2>1. \A n \in TempNames : (dir'[n] = q) <=> (dir[n] = q)
    BY TempAssumption
  <2> QED
    BY <1>2, <2>1, LeftAlone DEF TempInvariant
<1> QED
  BY <1>1, <1>3, <1>4 DEF TempInvariant

-----------------------------------------------------------------------------
(* The parts of a step: what a record becomes.                                *)

LEMMA AnswersSound ==
  ASSUME NEW c \in CallRecords, Phase(c), c.pc = "open", NEW n \in TempNames
  PROVE  /\ Answers(c, n) \in CallRecords /\ Phase(Answers(c, n)) /\ Honest(Answers(c, n))
         /\ Answers(c, n).name = n /\ Answers(c, n).ret = "made"
         /\ Answers(c, n).pc = "unlink" \/ (Answers(c, n).pc = "done" /\ Answers(c, n).call # "tempnam")
  BY DEF Answers, CallRecords, Phase, Honest, Callers

LEMMA OnErrorSound ==
  ASSUME NEW c \in CallRecords, Phase(c), c.pc = "open", NEW e \in {"EEXIST", "EACCES"}
  PROVE  /\ OnError(c, e) \in CallRecords /\ Phase(OnError(c, e)) /\ Honest(OnError(c, e))
         /\ OnError(c, e).pc # "unlink" /\ OnError(c, e).ret # "made"
         /\ OnError(c, e).ret = "-1" => OnError(c, e).blocks = 0
<1>0. /\ c.tries \in 0..TRY_COUNT /\ c.taken \in 0..TRY_COUNT + 1 /\ TRY_COUNT \in Nat
      /\ c.call = "mktmpf" => c.taken + c.tries = TRY_COUNT
  BY TempAssumption DEF CallRecords, Phase
<1>1. CASE e = "EACCES"
  BY <1>1, TempAssumption DEF OnError, Fails, Ends, CallRecords, Phase, Honest, Callers
<1>2. CASE e = "EEXIST" /\ c.call # "mktmpf"
  BY <1>2, TempAssumption DEF OnError, Retries, CallRecords, Phase, Honest, Callers
<1>3. CASE e = "EEXIST" /\ c.call = "mktmpf" /\ c.tries = 0
  <2>1. c.taken = TRY_COUNT /\ c.taken + 1 \in 0..TRY_COUNT + 1
    BY <1>0, <1>3
  <2> QED
    BY <1>3, <2>1 DEF OnError, Retries, Ends, CallRecords, Phase, Honest, Callers
<1>4. CASE e = "EEXIST" /\ c.call = "mktmpf" /\ c.tries # 0
  <2>1. /\ c.tries - 1 \in 0..TRY_COUNT /\ c.taken + 1 \in 0..TRY_COUNT + 1
        /\ c.taken + 1 + (c.tries - 1) = TRY_COUNT
    BY <1>0, <1>4
  <2> QED
    BY <1>4, <2>1 DEF OnError, Retries, CallRecords, Phase, Honest, Callers
<1> QED
  BY <1>1, <1>2, <1>3, <1>4

-----------------------------------------------------------------------------
(* The steps.                                                                 *)

\* A step in which p makes no file, and had none.
LEMMA NoFileStep ==
  ASSUME TempInvariant, NEW p \in Procs, procs[p].pc \in {"idle", "open"}, dir' = dir,
         NEW c \in CallRecords, procs' = [procs EXCEPT ![p] = c], Phase(c), Honest(c),
         c.pc # "unlink", c.ret # "made", c.ret = "-1" => c.blocks = 0
  PROVE  TempInvariant'
<1>1. /\ procs \in [Procs -> CallRecords] /\ Sound(p)
      /\ dir' \in [TempNames -> Procs \cup {NoOne, Others}]
  BY DEF TempInvariant, TempTypeOK
<1>2. {n \in TempNames : dir[n] = p} = {}
  BY <1>1 DEF Sound, Accounted, HasFile
<1>3. procs'[p] = c
  BY <1>1
<1>4. Accounted(p)'
  BY <1>2, <1>3 DEF Accounted, HasFile
<1> QED
  BY <1>1, <1>4, OneSteps

LEMMA CallSound == ASSUME TempInvariant, NEW p \in Procs, Call(p) PROVE TempInvariant'
<1>1. procs[p] \in CallRecords /\ Phase(procs[p]) /\ procs[p].pc = "idle" /\ dir' = dir
  BY DEF TempInvariant, TempTypeOK, Sound, Call
<1>2. PICK call \in Callers, fine \in BOOLEAN :
        procs' = [procs EXCEPT ![p] =
          IF fine THEN [procs[p] EXCEPT !.pc = "open", !.call = call, !.tries = TRY_COUNT,
                                        !.blocks = IF call = "tempnam" THEN 1 ELSE 0]
          ELSE CASE call = "mkstemp" -> [Ends(procs[p], "-1") EXCEPT !.call = call, !.errno = "EINVAL"]
                 [] call = "tempnam" -> [Ends(procs[p], "-1") EXCEPT !.call = call, !.errno = "ENOMEM"]
                 [] call = "mktmpf"  -> [Ends(procs[p], "2") EXCEPT !.call = call]]
  BY DEF Call, TempInvariant, TempTypeOK
<1>3. CASE fine
  <2> DEFINE c == [procs[p] EXCEPT !.pc = "open", !.call = call, !.tries = TRY_COUNT,
                                   !.blocks = IF call = "tempnam" THEN 1 ELSE 0]
  <2>1. TRY_COUNT \in 0..TRY_COUNT /\ (IF call = "tempnam" THEN 1 ELSE 0) \in {0, 1}
    BY TempAssumption
  <2>2. c \in CallRecords
    BY <1>1, <2>1 DEF CallRecords
  <2>3. Phase(c) /\ Honest(c) /\ c.ret = "none" /\ c.pc = "open"
    BY <1>1, TempAssumption DEF CallRecords, Phase, Honest, Callers
  <2>4. procs' = [procs EXCEPT ![p] = c]
    BY <1>2, <1>3
  <2> HIDE DEF c
  <2> QED
    BY <1>1, <2>2, <2>3, <2>4, NoFileStep
<1>4. CASE ~fine /\ call = "mktmpf"
  <2> DEFINE c == [Ends(procs[p], "2") EXCEPT !.call = call]
  <2>1. c \in CallRecords /\ Phase(c) /\ Honest(c) /\ c.pc = "done" /\ c.ret = "2"
    BY <1>1 DEF Ends, CallRecords, Phase, Honest, Callers
  <2>2. procs' = [procs EXCEPT ![p] = c]
    BY <1>2, <1>4
  <2> HIDE DEF c
  <2> QED
    BY <1>1, <2>1, <2>2, NoFileStep
<1>5. ASSUME NEW errno \in {"EINVAL", "ENOMEM"}, ~fine,
             procs' = [procs EXCEPT ![p] = [Ends(procs[p], "-1") EXCEPT !.call = call, !.errno = errno]]
      PROVE  TempInvariant'
  <2> DEFINE c == [Ends(procs[p], "-1") EXCEPT !.call = call, !.errno = errno]
  <2>1. c \in CallRecords /\ Phase(c) /\ Honest(c) /\ c.pc = "done" /\ c.ret = "-1" /\ c.blocks = 0
    BY <1>1 DEF Ends, CallRecords, Phase, Honest, Callers
  <2>2. procs' = [procs EXCEPT ![p] = c]
    BY <1>5
  <2> HIDE DEF c
  <2> QED
    BY <1>1, <2>1, <2>2, NoFileStep
<1>6. CASE ~fine /\ call = "mkstemp"
  BY <1>2, <1>5, <1>6
<1>7. CASE ~fine /\ call = "tempnam"
  BY <1>2, <1>5, <1>7
<1> QED
  BY <1>3, <1>4, <1>6, <1>7 DEF Callers

LEMMA OpenSound == ASSUME TempInvariant, NEW p \in Procs, Open(p) PROVE TempInvariant'
<1>1. procs[p] \in CallRecords /\ Sound(p) /\ procs[p].pc = "open"
  BY DEF TempInvariant, TempTypeOK, Open
<1>2. {n \in TempNames : dir[n] = p} = {}
  BY <1>1 DEF Sound, Accounted, HasFile
<1>3. ASSUME NEW n \in TempNames, Makes(n), dir' = [dir EXCEPT ![n] = p],
             procs' = [procs EXCEPT ![p] = Answers(procs[p], n)]
      PROVE  TempInvariant'
  <2> DEFINE c == Answers(procs[p], n)
  <2>1. /\ c \in CallRecords /\ Phase(c) /\ Honest(c) /\ c.name = n /\ c.ret = "made"
        /\ c.pc = "unlink" \/ (c.pc = "done" /\ c.call # "tempnam")
    BY <1>1, AnswersSound DEF Sound
  <2>2. procs'[p] = c
    BY <1>3 DEF TempInvariant, TempTypeOK
  <2>3. {k \in TempNames : dir'[k] = p} = {n}
    BY <1>2, <1>3 DEF TempInvariant, TempTypeOK
  <2>4. Accounted(p)'
    BY <2>1, <2>2, <2>3 DEF Accounted, HasFile
  <2>5. /\ dir' \in [TempNames -> Procs \cup {NoOne, Others}]
        /\ \A k \in TempNames : dir'[k] = dir[k] \/ {dir[k], dir'[k]} \subseteq {p, NoOne}
    BY <1>3 DEF TempInvariant, TempTypeOK, Makes
  <2> HIDE DEF c
  <2> QED
    BY <1>3, <2>1, <2>4, <2>5, OneSteps DEF c
<1>4. ASSUME NEW e \in {"EEXIST", "EACCES"}, dir' = dir,
             procs' = [procs EXCEPT ![p] = OnError(procs[p], e)]
      PROVE  TempInvariant'
  <2> DEFINE c == OnError(procs[p], e)
  <2>1. /\ c \in CallRecords /\ Phase(c) /\ Honest(c) /\ c.pc # "unlink" /\ c.ret # "made"
        /\ c.ret = "-1" => c.blocks = 0
    BY <1>1, OnErrorSound DEF Sound
  <2> HIDE DEF c
  <2> QED
    BY <1>1, <1>4, <2>1, NoFileStep DEF c
<1>5. procs[p] = procs[p] /\ p \in DOMAIN procs
  BY DEF TempInvariant, TempTypeOK
<1> QED
  BY <1>3, <1>4, <1>5 DEF Open

LEMMA UnlinkSound == ASSUME TempInvariant, NEW p \in Procs, Unlink(p) PROVE TempInvariant'
<1>1. procs[p] \in CallRecords /\ Sound(p) /\ procs[p].pc = "unlink"
  BY DEF TempInvariant, TempTypeOK, Unlink
<1> DEFINE c == Ends(procs[p], "made")
<1>2. /\ c \in CallRecords /\ Phase(c) /\ Honest(c)
      /\ c.pc = "done" /\ c.ret = "made" /\ c.call = "tempnam"
  BY <1>1 DEF Ends, CallRecords, Sound, Phase, Honest
<1>3. procs' = [procs EXCEPT ![p] = c] /\ procs'[p] = c
  BY DEF TempInvariant, TempTypeOK, Unlink
<1>4. {n \in TempNames : dir[n] = p} = {procs[p].name}
  BY <1>1 DEF Sound, Accounted
<1>5. /\ dir' \in [TempNames -> Procs \cup {NoOne, Others}]
      /\ \A n \in TempNames : dir'[n] = dir[n] \/ {dir[n], dir'[n]} \subseteq {p, NoOne}
      /\ {n \in TempNames : dir'[n] = p} = {}
  BY <1>4, TempAssumption DEF TempInvariant, TempTypeOK, Unlink
<1>6. Accounted(p)'
  BY <1>2, <1>3, <1>5 DEF Accounted, HasFile
<1> HIDE DEF c
<1> QED
  BY <1>2, <1>3, <1>5, <1>6, OneSteps

LEMMA FinishSound == ASSUME TempInvariant, NEW p \in Procs, Finish(p) PROVE TempInvariant'
<1>1. procs[p] \in CallRecords /\ Sound(p) /\ procs[p].pc = "done"
  BY DEF TempInvariant, TempTypeOK, Finish
<1> DEFINE c == [Idle EXCEPT !.errno = procs[p].errno]
<1>2. /\ c \in CallRecords /\ Phase(c) /\ Honest(c)
      /\ c.pc = "idle" /\ c.ret = "none"
  BY <1>1, TempAssumption DEF Idle, CallRecords, Phase, Honest, NoOne, Callers
<1>3. procs' = [procs EXCEPT ![p] = c] /\ procs'[p] = c
  BY DEF TempInvariant, TempTypeOK, Finish
<1>4. {n \in TempNames : dir[n] = p} = IF HasFile(p) THEN {procs[p].name} ELSE {}
  BY <1>1 DEF Sound, Accounted
<1>5. /\ dir' \in [TempNames -> Procs \cup {NoOne, Others}]
      /\ \A n \in TempNames : dir'[n] = dir[n] \/ {dir[n], dir'[n]} \subseteq {p, NoOne}
      /\ {n \in TempNames : dir'[n] = p} = {}
  BY <1>4, TempAssumption DEF TempInvariant, TempTypeOK, Finish
<1>6. Accounted(p)'
  BY <1>2, <1>3, <1>5 DEF Accounted, HasFile
<1> HIDE DEF c
<1> QED
  BY <1>2, <1>3, <1>5, <1>6, OneSteps

LEMMA ElsewhereSound == ASSUME TempInvariant, Elsewhere PROVE TempInvariant'
<1>1. /\ procs' = procs /\ dir' \in [TempNames -> Procs \cup {NoOne, Others}]
      /\ \A n \in TempNames : dir'[n] = dir[n] \/ {dir[n], dir'[n]} \subseteq {NoOne, Others}
  BY DEF TempInvariant, TempTypeOK, Elsewhere
<1>2. ASSUME NEW p \in Procs PROVE Sound(p)'
  <2>1. \A n \in TempNames : (dir'[n] = p) <=> (dir[n] = p)
    BY <1>1, TempAssumption
  <2> QED
    BY <1>1, <2>1, LeftAlone DEF TempInvariant
<1> QED
  BY <1>1, <1>2 DEF TempInvariant, TempTypeOK

LEMMA NextSound == TempInvariant /\ [TempNext]_tempVars => TempInvariant'
<1> SUFFICES ASSUME TempInvariant, [TempNext]_tempVars PROVE TempInvariant'
  OBVIOUS
<1>1. CASE UNCHANGED tempVars
  BY <1>1 DEF tempVars, TempInvariant, TempTypeOK, Sound, Phase, Honest, Accounted, HasFile
<1>2. CASE \E p \in Procs : Call(p) \/ Open(p) \/ Unlink(p) \/ Finish(p)
  BY <1>2, CallSound, OpenSound, UnlinkSound, FinishSound
<1>3. CASE Elsewhere
  BY <1>3, ElsewhereSound
<1> QED
  BY <1>1, <1>2, <1>3 DEF TempNext

-----------------------------------------------------------------------------
\* What a call of mkstemp, tempnam or mktmpf answers is what it has left in the
\* directory: no file without an owner who knows its name, no memory of a tempnam
\* that failed, and no call that gives up before its tries are used up.
THEOREM TempFilesHold == TempSpec => []TempFilesRight
<1>1. TempInvariant => TempFilesRight
  BY DEF TempInvariant, Sound, Honest, Accounted, TempFilesRight, FilesAccounted, FailuresHonest
<1> QED
  BY <1>1, InitSound, NextSound, PTL DEF TempSpec

\* O_EXCL: no step of any process gives a name that is in use to another owner.
THEOREM NeverTakenOverHolds == TempSpec => NeverTakenOver
<1>1. TempInvariant /\ [TempNext]_tempVars
        => [\A n \in TempNames : dir'[n] # dir[n] => dir[n] = NoOne \/ dir'[n] = NoOne]_tempVars
  <2> SUFFICES ASSUME TempInvariant, TempNext, NEW n \in TempNames, dir'[n] # dir[n]
               PROVE  dir[n] = NoOne \/ dir'[n] = NoOne
    BY DEF tempVars
  <2>1. ASSUME NEW p \in Procs, Open(p) PROVE dir[n] = NoOne
    BY <2>1 DEF Open, Makes, TempInvariant, TempTypeOK
  <2>2. ASSUME NEW p \in Procs, Unlink(p) \/ Finish(p) PROVE dir'[n] = NoOne
    BY <2>2 DEF Unlink, Finish, TempInvariant, TempTypeOK
  <2>3. CASE Elsewhere
    BY <2>3 DEF Elsewhere, TempInvariant, TempTypeOK
  <2>4. ASSUME NEW p \in Procs, Call(p) PROVE FALSE
    BY <2>4 DEF Call
  <2> QED
    BY <2>1, <2>2, <2>3, <2>4 DEF TempNext
<1> QED
  BY <1>1, InitSound, NextSound, PTL DEF TempSpec, NeverTakenOver

-----------------------------------------------------------------------------
(* gmtime_r: a year is counted from 1 March, so that a leap day is its last.  *)

LEMMA Floored25 ==
  ASSUME NEW x \in Int
  PROVE  Floored(x, 25) = x \div 25
  BY DEF Floored, CDiv, CMod

LEMMA Floored1461 ==
  ASSUME NEW x \in Int
  PROVE  Floored(x, 1461) = x \div 1461
  BY DEF Floored, CDiv, CMod

LEMMA Floored146097 ==
  ASSUME NEW x \in Int
  PROVE  Floored(x, 146097) = x \div 146097
  BY DEF Floored, CDiv, CMod

DayNumber(t, c, yd) ==
  t = yd - 25568 + 365 * c + c \div 4 - (c \div 100 - 1) + (c \div 100 - 1) \div 4

EndsLeap(c, yd) ==
  yd = 425 => (c + 1) % 4 = 0 /\ ((c + 1) % 100 # 0 \/ (c + 301) % 400 = 0)

MarchDays == 60..425

\* Day t is day yd, counted from 0 and from 1 January of year 1900 + c as if that
\* had a 29 February, of the year from 1 March of 1900 + c to the end of February.
MarchYear(t, c, yd) ==
  c \in Int /\ yd \in MarchDays /\ DayNumber(t, c, yd) /\ EndsLeap(c, yd)

LEMMA WideCentury ==
  ASSUME NEW t \in Int, NEW f \in Int, f = (4 * t + 102032) \div 146097 - 1,
         NEW u \in Int, u = t + f - f \div 4,
         NEW c \in Int, c = (4 * u + 102035) \div 1461
  PROVE  f = c \div 100 - 1
<1> DEFINE m == f \div 4
           r == f % 4
<1>1. m \in Int /\ r \in 0..3 /\ f = 4 * m + r
  OBVIOUS
<1>2. 146097 * (f + 1) <= 4 * t + 102032 /\ 4 * t + 102032 < 146097 * (f + 2)
  OBVIOUS
<1>3. 1461 * c <= 4 * u + 102035 /\ 4 * u + 102035 < 1461 * (c + 1)
  OBVIOUS
<1>4. u = t + f - m
  OBVIOUS
<1> HIDE DEF m, r
<1>5. 100 * (f + 1) <= c /\ c < 100 * (f + 2)
  BY <1>1, <1>2, <1>3, <1>4
<1> QED
  BY <1>5

LEMMA WideIs ==
  ASSUME NEW t \in Int
  PROVE  LET f == (4 * t + 102032) \div 146097 - 1
             u == t + f - f \div 4
         IN /\ f \in Int /\ u \in Int
            /\ WideYear(t).t = u /\ WideYear(t).c = (4 * u + 102035) \div 1461
            /\ WideYear(t).wday = (t + 4) % 7
<1> DEFINE f == (4 * t + 102032) \div 146097 - 1
           u == t + f - f \div 4
           w == CMod(t + 4, 7)
<1>1. 4 * t + 102032 \in Int /\ f \in Int /\ f \div 4 \in Int
  OBVIOUS
<1>2. Floored(4 * t + 102032, 146097) - 1 = f
  BY <1>1, Floored146097
<1> HIDE DEF f
<1>3. u \in Int /\ 4 * u + 102035 \in Int
  BY <1>1
<1>4. /\ WideYear(t).wday = IF w < 0 THEN w + 7 ELSE w
      /\ WideYear(t).t = u /\ WideYear(t).c = Floored(4 * u + 102035, 1461)
  <2> DEFINE g == Floored(4 * t + 102032, 146097) - 1
             v == t + g - g \div 4
  <2>1. WideYear(t).wday = IF w < 0 THEN w + 7 ELSE w
    BY DEF WideYear
  <2>2. WideYear(t).t = v /\ WideYear(t).c = Floored(4 * v + 102035, 1461)
    BY DEF WideYear
  <2>3. v = u
    <3>1. g = f
      BY <1>2
    <3> HIDE DEF g
    <3> QED
      BY <3>1, Zenon
  <2> HIDE DEF v, u, w
  <2>4. WideYear(t).t = u /\ WideYear(t).c = Floored(4 * u + 102035, 1461)
    BY <2>2, <2>3
  <2> QED
    BY <2>1, <2>4
<1> HIDE DEF u
<1>5. Floored(4 * u + 102035, 1461) = (4 * u + 102035) \div 1461
  BY <1>3, Floored1461
<1>6. (IF w < 0 THEN w + 7 ELSE w) = (t + 4) % 7
  BY DEF CMod, CDiv
<1> HIDE DEF w
<1>7. /\ WideYear(t).t = u /\ WideYear(t).c = (4 * u + 102035) \div 1461
      /\ WideYear(t).wday = (t + 4) % 7
  BY <1>4, <1>5, <1>6
<1> QED
  BY <1>1, <1>3, <1>7 DEF u, f

LEMMA WideDay ==
  ASSUME NEW t \in Int, NEW c, c = WideYear(t).c, NEW yd, yd = WideYear(t).t - 365 * c - c \div 4 + 25568
  PROVE  c \in Int /\ yd \in MarchDays /\ DayNumber(t, c, yd) /\ EndsLeap(c, yd)
<1> DEFINE f == (4 * t + 102032) \div 146097 - 1
           u == t + f - f \div 4
<1>1. f \in Int /\ u \in Int /\ WideYear(t).t = u /\ c = (4 * u + 102035) \div 1461
  BY WideIs
<1>2. c \in Int /\ yd = u - 365 * c - c \div 4 + 25568 /\ yd \in Int
  <2> HIDE DEF u
  <2> QED
    BY <1>1
<1>3. f = c \div 100 - 1
  BY <1>1, <1>2, WideCentury
<1>4. t = yd - 25568 + 365 * c + c \div 4 - f + f \div 4
  <2>1. f \div 4 \in Int
    <3> HIDE DEF f
    <3> QED
      BY <1>1
  <2> HIDE DEF f
  <2> QED
    BY <1>1, <1>2, <2>1
<1>5. 1461 * c <= 4 * u + 102035 /\ 4 * u + 102035 < 1461 * (c + 1)
  <2> HIDE DEF u
  <2> QED
    BY <1>1
<1>6. yd \in MarchDays
  <2> HIDE DEF u
  <2> QED
    BY <1>1, <1>2, <1>5 DEF MarchDays
<1>7. ASSUME yd = 425 PROVE (c + 1) % 4 = 0 /\ ((c + 1) % 100 # 0 \/ (c + 301) % 400 = 0)
  <2>1. 4 * t + 102032 < 146097 * (f + 2)
    BY <1>1
  <2> HIDE DEF f, u
  <2>2. (c + 1) % 4 = 0
    BY <1>1, <1>2, <1>5, <1>7
  <2>3. ASSUME (c + 1) % 100 = 0 PROVE (c + 301) % 400 = 0
    <3>1. c = 100 * f + 199
      BY <1>2, <1>3, <1>1, <2>3
    <3>2. f % 4 = 3
      BY <1>1, <1>2, <1>4, <1>7, <2>1, <2>2, <3>1
    <3> QED
      BY <1>1, <3>1, <3>2
  <2> QED
    BY <2>2, <2>3, <1>2
<1> HIDE DEF f, u
<1>8. DayNumber(t, c, yd)
  BY <1>1, <1>2, <1>3, <1>4 DEF DayNumber
<1>9. EndsLeap(c, yd)
  BY <1>7 DEF EndsLeap
<1> QED
  BY <1>2, <1>6, <1>8, <1>9

\* The day of the year that mini_gmtime_r counts with.
YearDay(y) == y.t - 365 * y.c - y.c \div 4 + 25568

LEMMA WideMarch ==
  ASSUME NEW t \in Int
  PROVE  MarchYear(t, WideYear(t).c, YearDay(WideYear(t)))
<1> DEFINE c == WideYear(t).c
           yd == WideYear(t).t - 365 * c - c \div 4 + 25568
<1>1. c \in Int /\ yd \in MarchDays /\ DayNumber(t, c, yd) /\ EndsLeap(c, yd)
  BY WideDay
<1>2. yd = YearDay(WideYear(t))
  BY DEF YearDay
<1> HIDE DEF yd, c
<1>3. MarchYear(t, c, yd)
  BY <1>1 DEF MarchYear
<1> QED
  BY <1>2, <1>3, Zenon DEF c

LEMMA NarrowSame ==
  ASSUME NEW t \in NarrowDays
  PROVE  /\ NarrowYear(t).t = WideYear(t).t /\ NarrowYear(t).c = WideYear(t).c
         /\ NarrowYear(t).wday = WideYear(t).wday
         /\ NarrowYear(t).c \in 1..138
<1> DEFINE f == (4 * t + 102032) \div 146097 - 1
           u == t + f - f \div 4
<1>1. t \in Int /\ -24855 <= t /\ t <= 24854
  BY DEF NarrowDays
<1>2. f \in {-1, 0} /\ u = t
  BY <1>1
<1>3. WideYear(t).t = t /\ WideYear(t).c = (4 * t + 102035) \div 1461 /\ WideYear(t).wday = (t + 4) % 7
  <2>1. WideYear(t).t = u /\ WideYear(t).c = (4 * u + 102035) \div 1461 /\ WideYear(t).wday = (t + 4) % 7
    BY <1>1, WideIs
  <2> HIDE DEF u
  <2> QED
    BY <1>2, <2>1
<1>4. CMod(t + 24861, 7) = (t + 4) % 7 /\ CDiv(4 * t + 102035, 1461) = (4 * t + 102035) \div 1461
  BY <1>1 DEF CMod, CDiv
<1>5. (4 * t + 102035) \div 1461 \in 1..138
  BY <1>1
<1> QED
  BY <1>3, <1>4, <1>5 DEF NarrowYear

-----------------------------------------------------------------------------
\* Leap years.

LEMMA LeapSame ==
  ASSUME NEW c \in Int, NEW narrow \in BOOLEAN, narrow => c \in 1..138
  PROVE  LeapYear(c, narrow) <=> IsLeap(c + 1900)
<1>1. c % 4 = 0 <=> (c + 1900) % 4 = 0
  OBVIOUS
<1>2. CMod(c, 100) = 0 <=> (c + 1900) % 100 = 0
  BY DEF CMod, CDiv
<1>3. CMod(c + 300, 400) = 0 <=> (c + 1900) % 400 = 0
  BY DEF CMod, CDiv
<1>4. narrow /\ (c + 1900) % 4 = 0 => (c + 1900) % 100 # 0 \/ (c + 1900) % 400 = 0
  OBVIOUS
<1> QED
  BY <1>1, <1>2, <1>3, <1>4 DEF LeapYear, IsLeap

\* The leap day of a year, as a number.
LeapDay(y) == IF IsLeap(y) THEN 1 ELSE 0

LEMMA LeapsStep ==
  ASSUME NEW y \in Int
  PROVE  LeapsTo(y) = LeapsTo(y - 1) + LeapDay(y) /\ LeapsTo(y) \in Int
<1>1. y \div 4 = (y - 1) \div 4 + (IF y % 4 = 0 THEN 1 ELSE 0)
  OBVIOUS
<1>2. y \div 100 = (y - 1) \div 100 + (IF y % 100 = 0 THEN 1 ELSE 0)
  OBVIOUS
<1>3. y \div 400 = (y - 1) \div 400 + (IF y % 400 = 0 THEN 1 ELSE 0)
  OBVIOUS
<1>4. (y % 400 = 0 => y % 100 = 0) /\ (y % 100 = 0 => y % 4 = 0)
  OBVIOUS
<1> QED
  BY <1>1, <1>2, <1>3, <1>4 DEF LeapsTo, LeapDay, IsLeap

LEMMA LeapsFrom1900 ==
  ASSUME NEW c \in Int
  PROVE  LeapsTo(c + 1900) = c \div 4 - c \div 100 + (c \div 100 - 1) \div 4 + 461
<1>1. (c + 1900) \div 4 = c \div 4 + 475
  OBVIOUS
<1>2. (c + 1900) \div 100 = c \div 100 + 19
  OBVIOUS
<1>3. (c + 1900) \div 400 = (c \div 100 - 1) \div 4 + 5
  OBVIOUS
<1> QED
  BY <1>1, <1>2, <1>3 DEF LeapsTo

LEMMA Leaps1969 == LeapsTo(1969) = 477
  BY DEF LeapsTo

LEMMA FirstDayIs ==
  ASSUME NEW y \in Int
  PROVE  FirstDay(y + 1) = 365 * (y - 1969) + LeapsTo(y) - 477
<1>1. y + 1 - 1970 = y - 1969
  OBVIOUS
<1>2. LeapsTo(y + 1 - 1) = LeapsTo(y)
  BY DEF LeapsTo
<1>3. FirstDay(y + 1) = 365 * (y + 1 - 1970) + LeapsTo(y + 1 - 1) - LeapsTo(1969)
  BY DEF FirstDay
<1> QED
  BY <1>1, <1>2, <1>3, Leaps1969

LEMMA LeapsNext ==
  ASSUME NEW y \in Int
  PROVE  LeapsTo(y + 1) = LeapsTo(y) + LeapDay(y + 1) /\ LeapsTo(y) \in Int
<1>1. LeapsTo(y + 1 - 1) = LeapsTo(y)
  BY DEF LeapsTo
<1>2. LeapsTo(y) \in Int
  BY LeapsStep
<1>3. y + 1 \in Int
  OBVIOUS
<1>4. LeapsTo(y + 1) = LeapsTo(y + 1 - 1) + LeapDay(y + 1)
  BY <1>3, LeapsStep
<1> QED
  BY <1>1, <1>2, <1>4

\* The first days of the two years that a year from March to February has a part of.
LEMMA YearStarts ==
  ASSUME NEW t \in Int, NEW c, NEW yd, MarchYear(t, c, yd)
  PROVE  /\ FirstDay(c + 1900) + yd - 1 + LeapDay(c + 1900) = t
         /\ FirstDay(c + 1901) + yd - 366 = t
<1>1. c \in Int /\ yd \in MarchDays /\ DayNumber(t, c, yd)
  BY DEF MarchYear
<1>2. c \div 4 \in Int /\ c \div 100 \in Int /\ (c \div 100 - 1) \div 4 \in Int
  BY <1>1
<1> DEFINE q == c \div 4
           h == c \div 100
           g == (c \div 100 - 1) \div 4
<1>3. t = yd - 25568 + 365 * c + q - (h - 1) + g
  BY <1>1 DEF DayNumber
<1>4. LeapsTo(c + 1900) = q - h + g + 461
  BY <1>1, LeapsFrom1900
<1> HIDE DEF q, h, g
<1>5. q \in Int /\ h \in Int /\ g \in Int
  BY <1>2 DEF q, h, g
<1>a. /\ c + 1899 \in Int /\ c + 1900 \in Int /\ c + 1899 + 1 = c + 1900 /\ c + 1900 + 1 = c + 1901
      /\ c + 1899 - 1969 = c - 70 /\ c + 1900 - 1969 = c - 69
  BY <1>1
<1>6. LeapsTo(c + 1900) = LeapsTo(c + 1899) + LeapDay(c + 1900) /\ LeapsTo(c + 1899) \in Int
  BY <1>a, LeapsNext
<1>7. LeapDay(c + 1900) \in Int
  BY DEF LeapDay
<1>8. FirstDay(c + 1900) = 365 * (c - 70) + LeapsTo(c + 1899) - 477
  <2> DEFINE y == c + 1899
             n == 365 * (y - 1969)
             k == 365 * (c - 70)
  <2>1. y \in Int /\ y + 1 = c + 1900 /\ n = k
    BY <1>1
  <2>2. y \in Int => FirstDay(y + 1) = n + LeapsTo(y) - 477
    BY FirstDayIs
  <2> HIDE DEF n, k
  <2>3. FirstDay(c + 1900) = k + LeapsTo(y) - 477
    BY <2>1, <2>2
  <2> QED
    BY <2>3 DEF k
<1>9. FirstDay(c + 1901) = 365 * (c - 69) + LeapsTo(c + 1900) - 477
  <2> DEFINE y == c + 1900
             n == 365 * (y - 1969)
             k == 365 * (c - 69)
  <2>1. y \in Int /\ y + 1 = c + 1901 /\ n = k
    BY <1>1
  <2>2. y \in Int => FirstDay(y + 1) = n + LeapsTo(y) - 477
    BY FirstDayIs
  <2> HIDE DEF n, k
  <2>3. FirstDay(c + 1901) = k + LeapsTo(y) - 477
    BY <2>1, <2>2
  <2> QED
    BY <2>3 DEF k
<1> DEFINE l0 == LeapsTo(c + 1899)
           l1 == LeapsTo(c + 1900)
           l == LeapDay(c + 1900)
<1>10. l1 = q - h + g + 461 /\ l1 = l0 + l /\ l0 \in Int /\ l \in Int
  BY <1>4, <1>6, <1>7
<1> HIDE DEF l0, l1, l
<1>11. 365 * (c - 70) + l0 - 477 + yd - 1 + l = t /\ 365 * (c - 69) + l1 - 477 + yd - 366 = t
  BY <1>1, <1>3, <1>5, <1>10 DEF MarchDays
<1> QED
  BY <1>8, <1>9, <1>11 DEF l0, l1, l

-----------------------------------------------------------------------------
\* Months.  The month, counted from January of the year the March was in, and the
\* day of the month.
MonthOf(yd) == (5 * yd + 8) \div 153
DayOfMonth(yd) == 1 + ((5 * yd + 8) % 153) \div 5

\* The days before these months, and their lengths, in years with a leap day.
MonthStarts == <<60, 91, 121, 152, 182, 213, 244, 274, 305, 335, 366, 397>>
MonthLengths == <<31, 30, 31, 30, 31, 31, 30, 31, 30, 31, 31, 29>>

LEMMA MonthsOK ==
  ASSUME NEW yd \in MarchDays
  PROVE  /\ MonthOf(yd) \in 2..13
         /\ yd = MonthStarts[MonthOf(yd) - 1] + DayOfMonth(yd) - 1
         /\ DayOfMonth(yd) \in 1..MonthLengths[MonthOf(yd) - 1]
<1>1. MonthOf(yd) \in 2..13
  BY DEF MonthOf, MarchDays
<1> DEFINE m == MonthOf(yd)
           a == 5 * yd + 8
<1>2. a \in Nat /\ DayOfMonth(yd) = 1 + (a - 153 * m) \div 5 /\ 153 * m <= a /\ a < 153 * (m + 1)
  BY DEF MonthOf, DayOfMonth, MarchDays
<1> HIDE DEF m
<1>3. m \in 2..13
  BY <1>1 DEF m
<1>4. yd = MonthStarts[m - 1] + DayOfMonth(yd) - 1 /\ DayOfMonth(yd) \in 1..MonthLengths[m - 1]
  BY <1>2, <1>3 DEF MonthStarts, MonthLengths, MarchDays
<1> QED
  BY <1>3, <1>4 DEF m


\* The fields of mini_gmtime_r's answer, from the year from March, its day and the
\* day of the week.
FieldsOf(tm, c, yd, w, hms) ==
  LET late == MonthOf(yd) >= 12
  IN /\ tm.sec = hms % 60 /\ tm.min = (hms \div 60) % 60 /\ tm.hour = hms \div 3600
     /\ tm.wday = w /\ tm.mday = DayOfMonth(yd)
     /\ tm.mon = IF late THEN MonthOf(yd) - 12 ELSE MonthOf(yd)
     /\ tm.year = IF late THEN c + 1 ELSE c
     /\ tm.yday = IF late THEN yd - 366 ELSE yd - 1 + LeapDay(c + 1900)

LEMMA GmtimeFields ==
  ASSUME NEW t \in Int, NEW hms \in SecondsOfDay, NEW narrow \in BOOLEAN, narrow => t \in NarrowDays
  PROVE  FieldsOf(mini_gmtime_r(t, hms, narrow), WideYear(t).c, YearDay(WideYear(t)), (t + 4) % 7, hms)
<1> DEFINE c == WideYear(t).c
           yd == YearDay(WideYear(t))
           y == IF narrow THEN NarrowYear(t) ELSE WideYear(t)
           yday == y.t - 365 * y.c - y.c \div 4 + 25568
           late == (yday * 5 + 8) \div 153 >= 12
           tm == mini_gmtime_r(t, hms, narrow)
<1>1. y.t = WideYear(t).t /\ y.c = WideYear(t).c /\ y.wday = WideYear(t).wday
  BY NarrowSame
<1>2. WideYear(t).wday = (t + 4) % 7
  BY WideIs
<1>3. c \in Int /\ yd \in MarchDays
  BY WideMarch DEF MarchYear
<1>4. narrow => c \in 1..138
  BY NarrowSame
<1>5. yday = yd
  <2> HIDE DEF y
  <2> QED
    BY <1>1 DEF YearDay
<1>6. /\ tm.sec = hms % 60 /\ tm.min = (hms \div 60) % 60 /\ tm.hour = hms \div 3600
      /\ tm.wday = y.wday /\ tm.mday = 1 + ((yday * 5 + 8) % 153) \div 5
      /\ tm.mon = IF late THEN (yday * 5 + 8) \div 153 - 12 ELSE (yday * 5 + 8) \div 153
      /\ tm.year = IF late THEN y.c + 1 ELSE y.c
      /\ tm.yday = IF late THEN yday - 366 ELSE IF LeapYear(y.c, narrow) THEN yday ELSE yday - 1
  BY DEF mini_gmtime_r
<1> HIDE DEF y, tm, c
<1>7. LeapYear(c, narrow) <=> IsLeap(c + 1900)
  BY <1>3, <1>4, LeapSame
<1>8. /\ y.wday = (t + 4) % 7 /\ y.c = c
  BY <1>1, <1>2 DEF c
<1> HIDE DEF yday, yd
<1>9. yday * 5 + 8 = 5 * yd + 8
  BY <1>3, <1>5 DEF MarchDays
<1>10. /\ tm.sec = hms % 60 /\ tm.min = (hms \div 60) % 60 /\ tm.hour = hms \div 3600
       /\ tm.wday = (t + 4) % 7 /\ tm.mday = DayOfMonth(yd)
  BY <1>6, <1>8, <1>9 DEF DayOfMonth
<1>11. (yday * 5 + 8) \div 153 = MonthOf(yd)
  BY <1>9 DEF MonthOf
<1>12. late <=> MonthOf(yd) >= 12
  BY <1>11
<1>13. tm.mon = IF MonthOf(yd) >= 12 THEN MonthOf(yd) - 12 ELSE MonthOf(yd)
  BY <1>6, <1>11, <1>12
<1>14. tm.year = IF MonthOf(yd) >= 12 THEN c + 1 ELSE c
  BY <1>6, <1>8, <1>12
<1>15. tm.yday = IF late THEN yday - 366 ELSE IF LeapYear(c, narrow) THEN yday ELSE yday - 1
  BY <1>6, <1>8
<1> HIDE DEF late
<1>16. tm.yday = IF MonthOf(yd) >= 12 THEN yd - 366 ELSE yd - 1 + LeapDay(c + 1900)
  BY <1>3, <1>5, <1>7, <1>12, <1>15 DEF LeapDay, MarchDays
<1>17. FieldsOf(tm, c, yd, (t + 4) % 7, hms)
  BY <1>10, <1>13, <1>14, <1>16 DEF FieldsOf
<1> QED
  BY <1>17 DEF tm, c, yd

\* The table of the reference, from the months counted from March.
LEMMA MonthTable ==
  ASSUME NEW y \in Int, NEW m \in 2..11
  PROVE  /\ DaysBefore(y)[m + 1] = MonthStarts[m - 1] - 1 + LeapDay(y)
         /\ MonthDays(y)[m + 1] = MonthLengths[m - 1]
<1>1. LeapDay(y) \in {0, 1}
  BY DEF LeapDay
<1>2. DaysBefore(y)[m + 1] = MonthStarts[m - 1] - 1 + LeapDay(y)
  <2> DEFINE l == LeapDay(y)
  <2>1. DaysBefore(y) = <<0, 31, 59 + l, 90 + l, 120 + l, 151 + l, 181 + l, 212 + l, 243 + l, 273 + l, 304 + l, 334 + l>>
    BY DEF DaysBefore, LeapDay
  <2> HIDE DEF l
  <2>2. l \in Int
    BY <1>1 DEF l
  <2>3. \/ m = 2 \/ m = 3 \/ m = 4 \/ m = 5 \/ m = 6 \/ m = 7 \/ m = 8 \/ m = 9 \/ m = 10 \/ m = 11
    OBVIOUS
  <2>4. DaysBefore(y)[m + 1] = MonthStarts[m - 1] - 1 + l
    BY <2>1, <2>2, <2>3 DEF MonthStarts
  <2> QED
    BY <2>4 DEF l
<1>3. MonthDays(y)[m + 1] = MonthLengths[m - 1]
  BY DEF MonthDays, MonthLengths
<1> QED
  BY <1>2, <1>3


\* The date of the fields that a year from March gives.
LEMMA DateOK ==
  ASSUME NEW t \in Int, NEW hms \in SecondsOfDay, NEW c, NEW yd, MarchYear(t, c, yd),
         NEW tm, FieldsOf(tm, c, yd, (t + 4) % 7, hms)
  PROVE  IsDateOf(tm, t, hms) /\ tm.year \in Int
<1> DEFINE m == MonthOf(yd)
           d == DayOfMonth(yd)
           y == tm.year + 1900
<1>1. c \in Int /\ yd \in MarchDays /\ EndsLeap(c, yd)
  BY DEF MarchYear
<1>2. /\ tm.sec = hms % 60 /\ tm.min = (hms \div 60) % 60 /\ tm.hour = hms \div 3600
      /\ tm.wday = (t + 4) % 7 /\ tm.mday = d
      /\ tm.mon = IF m >= 12 THEN m - 12 ELSE m
      /\ tm.year = IF m >= 12 THEN c + 1 ELSE c
      /\ tm.yday = IF m >= 12 THEN yd - 366 ELSE yd - 1 + LeapDay(c + 1900)
  BY DEF FieldsOf
<1>3. /\ tm.wday = (t + 4) % 7
      /\ tm.sec \in 0..59 /\ tm.min \in 0..59 /\ tm.hour \in 0..23
      /\ (tm.hour * 60 + tm.min) * 60 + tm.sec = hms
  <2> DEFINE s == hms % 60
             n == (hms \div 60) % 60
             h == hms \div 3600
  <2>1. s \in 0..59 /\ n \in 0..59 /\ h \in 0..23 /\ (h * 60 + n) * 60 + s = hms
    <3>1. hms \in Nat /\ hms < 86400
      BY DEF SecondsOfDay
    <3>2. s \in 0..59 /\ n \in 0..59
      BY <3>1
    <3>3. h \in 0..23
      BY <3>1
    <3>4. h * 60 + n = hms \div 60
      BY <3>1
    <3>5. (hms \div 60) * 60 + s = hms
      BY <3>1
    <3> QED
      BY <3>2, <3>3, <3>4, <3>5
  <2>2. tm.sec = s /\ tm.min = n /\ tm.hour = h
    BY <1>2
  <2> HIDE DEF s, n, h
  <2> QED
    BY <1>2, <2>1, <2>2
<1>4. /\ FirstDay(c + 1900) + yd - 1 + LeapDay(c + 1900) = t
      /\ FirstDay(c + 1901) + yd - 366 = t
  BY YearStarts
<1>5. m \in 2..13 /\ yd = MonthStarts[m - 1] + d - 1 /\ d \in 1..MonthLengths[m - 1]
  BY <1>1, MonthsOK, Zenon
<1> HIDE DEF m, d
<1>6. CASE m < 12
  <2>1. tm.mon = m /\ tm.year = c /\ tm.yday = yd - 1 + LeapDay(c + 1900) /\ y = c + 1900 /\ y \in Int
    BY <1>1, <1>2, <1>5, <1>6
  <2>2. tm.mon = m /\ tm.year = c /\ tm.yday = yd - 1 + LeapDay(y)
    BY <2>1
  <2>3. LeapDay(y) \in {0, 1} /\ (IF IsLeap(y) THEN 365 ELSE 364) = 364 + LeapDay(y)
    BY DEF LeapDay
  <2>4. DaysBefore(y)[m + 1] = MonthStarts[m - 1] - 1 + LeapDay(y) /\ MonthDays(y)[m + 1] = MonthLengths[m - 1]
    <3>1. m \in 2..11
      BY <1>5, <1>6
    <3>2. y \in Int
      BY <2>1
    <3> HIDE DEF y
    <3> QED
      BY <3>1, <3>2, MonthTable, Zenon
  <2>5. FirstDay(y) + tm.yday = t
    <3>1. FirstDay(y) + yd - 1 + LeapDay(y) = t
      BY <1>4, <2>1
    <3>2. FirstDay(y) \in Int
      BY <2>1 DEF FirstDay, LeapsTo
    <3> HIDE DEF y
    <3> QED
      BY <1>1, <2>2, <2>3, <3>1, <3>2 DEF MarchDays
  <2> HIDE DEF y
  <2> DEFINE l == LeapDay(y)
             s == MonthStarts[m - 1]
             n == MonthLengths[m - 1]
  <2>6. s \in 60..335 /\ s + n <= 366 /\ n \in Int
    BY <1>5, <1>6 DEF MonthStarts, MonthLengths
  <2> HIDE DEF l, s, n
  <2>7. yd = s + d - 1 /\ d \in 1..n /\ l \in {0, 1} /\ tm.yday = yd - 1 + l
    BY <1>5, <2>2, <2>3 DEF s, n, l
  <2>8. tm.yday = s - 1 + l + tm.mday - 1 /\ tm.yday \in 0..(364 + l) /\ tm.mday \in 1..n
    BY <1>2, <2>6, <2>7
  <2>9. tm.yday \in 0..(IF IsLeap(y) THEN 365 ELSE 364)
    BY <2>3, <2>8 DEF l
  <2>10. tm.yday = DaysBefore(y)[tm.mon + 1] + tm.mday - 1 /\ tm.mday \in 1..MonthDays(y)[tm.mon + 1]
    BY <2>2, <2>4, <2>8 DEF l, s, n
  <2>11. tm.mon \in 0..11 /\ tm.year \in Int
    BY <1>1, <1>5, <1>6, <2>1
  <2> QED
    BY <1>3, <2>5, <2>9, <2>10, <2>11 DEF IsDateOf, y
<1>7. CASE ~(m < 12)
  <2>1. tm.mon = m - 12 /\ tm.year = c + 1 /\ tm.yday = yd - 366 /\ y = c + 1901 /\ y \in Int
    BY <1>1, <1>2, <1>5, <1>7
  <2>2. m \in {12, 13}
    BY <1>5, <1>7
  <2>3. m = 12 => yd = 365 + d /\ d \in 1..31
    BY <1>5 DEF MonthStarts, MonthLengths
  <2>4. m = 13 => yd = 396 + d /\ d \in 1..29
    BY <1>5 DEF MonthStarts, MonthLengths
  <2>5. yd = 425 => IsLeap(y)
    <3>1. (c + 1) % 4 = 0 <=> (c + 1901) % 4 = 0
      BY <1>1
    <3>2. (c + 1) % 100 = 0 <=> (c + 1901) % 100 = 0
      BY <1>1
    <3>3. (c + 301) % 400 = 0 <=> (c + 1901) % 400 = 0
      BY <1>1
    <3>4. yd = 425 => IsLeap(c + 1901)
      BY <1>1, <3>1, <3>2, <3>3 DEF EndsLeap, IsLeap
    <3> QED
      BY <2>1, <3>4
  <2>6. FirstDay(y) + tm.yday = t
    <3>1. FirstDay(y) + yd - 366 = t
      BY <1>4, <2>1
    <3>2. FirstDay(y) \in Int
      BY <2>1 DEF FirstDay, LeapsTo
    <3> HIDE DEF y
    <3> QED
      BY <1>1, <2>1, <3>1, <3>2
  <2> HIDE DEF y
  <2>7. DaysBefore(y)[1] = 0 /\ DaysBefore(y)[2] = 31
    BY DEF DaysBefore
  <2>8. MonthDays(y)[1] = 31 /\ MonthDays(y)[2] = IF IsLeap(y) THEN 29 ELSE 28
    BY DEF MonthDays
  <2>9. tm.yday \in 0..(IF IsLeap(y) THEN 365 ELSE 364)
    BY <1>1, <2>1, <2>2, <2>3, <2>4
  <2>10. tm.yday = DaysBefore(y)[tm.mon + 1] + tm.mday - 1
    <3>1. CASE m = 12
      BY <1>1, <1>2, <2>1, <2>3, <2>7, <3>1
    <3>2. CASE m = 13
      BY <1>1, <1>2, <2>1, <2>4, <2>7, <3>2
    <3> QED
      BY <2>2, <3>1, <3>2
  <2>11. tm.mday \in 1..MonthDays(y)[tm.mon + 1]
    <3>1. CASE m = 12
      BY <1>1, <1>2, <2>1, <2>3, <2>8, <3>1
    <3>2. CASE m = 13
      BY <1>1, <1>2, <2>1, <2>4, <2>5, <2>8, <3>2
    <3> QED
      BY <2>2, <3>1, <3>2
  <2>12. tm.mon \in 0..11 /\ tm.year \in Int
    BY <1>1, <2>1, <2>2
  <2> QED
    BY <1>3, <2>6, <2>9, <2>10, <2>11, <2>12 DEF IsDateOf, y
<1> QED
  BY <1>6, <1>7

LEMMA GmtimeOK ==
  ASSUME NEW t \in Int, NEW hms \in SecondsOfDay, NEW narrow \in BOOLEAN, narrow => t \in NarrowDays
  PROVE  IsDateOf(mini_gmtime_r(t, hms, narrow), t, hms) /\ mini_gmtime_r(t, hms, narrow).year \in Int
<1>1. FieldsOf(mini_gmtime_r(t, hms, narrow), WideYear(t).c, YearDay(WideYear(t)), (t + 4) % 7, hms)
  BY GmtimeFields, Zenon
<1>2. MarchYear(t, WideYear(t).c, YearDay(WideYear(t)))
  BY WideMarch, Zenon
<1> QED
  BY <1>1, <1>2, DateOK, Zenon


-----------------------------------------------------------------------------
\* timegm.

\* The day that mini_timegm gives for the day yday, counted from 0 and from 1
\* January, of year 2001 + y.
DaysFrom(y, yday) ==
  365 * y + y \div 4 - Floored(y \div 4, 25) + Floored(y \div 4, 25) \div 4 + yday + 11323

LEMMA DaysFromIs ==
  ASSUME NEW y \in Int, NEW d \in Int
  PROVE  DaysFrom(y, d) = FirstDay(y + 2001) + d
<1> DEFINE q == y \div 4
           h == y \div 100
           g == y \div 400
<1>1. q \in Int /\ h \in Int /\ g \in Int
  OBVIOUS
<1>2. Floored(q, 25) = q \div 25
  BY <1>1, Floored25
<1>3. q \div 25 = h /\ h \div 4 = g
  OBVIOUS
<1>4. DaysFrom(y, d) = 365 * y + q - h + g + d + 11323
  <2>1. DaysFrom(y, d) = 365 * y + q - Floored(q, 25) + Floored(q, 25) \div 4 + d + 11323
    BY DEF DaysFrom
  <2>2. Floored(q, 25) = h
    BY <1>2, <1>3
  <2> HIDE DEF q, h
  <2>3. DaysFrom(y, d) = 365 * y + q - h + (h \div 4) + d + 11323
    BY <2>1, <2>2
  <2> QED
    BY <1>3, <2>3
<1>5. LeapsTo(y + 2000) = q - h + g + 485
  <2>1. (y + 2000) \div 4 = q + 500 /\ (y + 2000) \div 100 = h + 20 /\ (y + 2000) \div 400 = g + 5
    OBVIOUS
  <2> HIDE DEF q, h, g
  <2> QED
    BY <1>1, <2>1 DEF LeapsTo
<1>6. FirstDay(y + 2001) = 365 * (y + 31) + LeapsTo(y + 2000) - 477
  <2>1. y + 2000 \in Int /\ y + 2000 + 1 = y + 2001 /\ y + 2000 - 1969 = y + 31
    OBVIOUS
  <2> DEFINE z == y + 2000
             n == 365 * (z - 1969)
             k == 365 * (y + 31)
  <2>2. z \in Int /\ z + 1 = y + 2001 /\ n = k
    OBVIOUS
  <2>3. z \in Int => FirstDay(z + 1) = n + LeapsTo(z) - 477
    BY FirstDayIs
  <2> HIDE DEF n, k
  <2>4. FirstDay(y + 2001) = k + LeapsTo(z) - 477
    BY <2>2, <2>3
  <2> QED
    BY <2>4 DEF k
<1> HIDE DEF q, h, g
<1> QED
  BY <1>1, <1>4, <1>5, <1>6

LEMMA YearLong ==
  ASSUME NEW y \in Int
  PROVE  FirstDay(y + 1) = FirstDay(y) + 365 + LeapDay(y) /\ FirstDay(y) \in Int
<1>1. LeapsTo(y) = LeapsTo(y - 1) + LeapDay(y) /\ LeapsTo(y) \in Int
  BY LeapsStep
<1>2. LeapsTo(y - 1) \in Int
  BY DEF LeapsTo
<1>3. LeapDay(y) \in Int
  BY DEF LeapDay
<1>4. FirstDay(y + 1) = 365 * (y - 1969) + LeapsTo(y) - 477
  BY FirstDayIs
<1>5. FirstDay(y) = 365 * (y - 1970) + LeapsTo(y - 1) - 477
  BY Leaps1969 DEF FirstDay
<1> DEFINE l0 == LeapsTo(y - 1)
           l1 == LeapsTo(y)
           l == LeapDay(y)
<1> HIDE DEF l0, l1, l
<1>6. l1 = l0 + l /\ l0 \in Int /\ l \in Int
  BY <1>1, <1>2, <1>3 DEF l0, l1, l
<1>7. FirstDay(y + 1) = 365 * (y - 1969) + l1 - 477 /\ FirstDay(y) = 365 * (y - 1970) + l0 - 477
  BY <1>4, <1>5 DEF l0, l1
<1>8. FirstDay(y + 1) = FirstDay(y) + 365 + l /\ FirstDay(y) \in Int
  BY <1>6, <1>7
<1> QED
  BY <1>8 DEF l

\* mini_timegm makes that day and second of the date b.
TimeFrom(b, day, hms) ==
  mini_timegm(b) = [day |-> day, hms |-> hms]

LEMMA FromYearDay ==
  ASSUME NEW t \in Int, NEW hms, NEW tm, IsDateOf(tm, t, hms), tm.year \in Int
  PROVE  TimeFrom(tm, t, hms)
<1> DEFINE y == tm.year - 101
<1>1. /\ FirstDay(tm.year + 1900) + tm.yday = t
      /\ tm.yday \in 0..(IF IsLeap(tm.year + 1900) THEN 365 ELSE 364)
      /\ (tm.hour * 60 + tm.min) * 60 + tm.sec = hms
  BY DEF IsDateOf
<1>2. tm.yday \in Int /\ ~(tm.yday < 0)
  BY <1>1
<1>3. mini_timegm(tm) = [day |-> DaysFrom(y, tm.yday), hms |-> (tm.hour * 60 + tm.min) * 60 + tm.sec]
  BY <1>2 DEF mini_timegm, DaysFrom
<1>4. y \in Int /\ y + 2001 = tm.year + 1900
  OBVIOUS
<1> HIDE DEF y
<1>5. DaysFrom(y, tm.yday) = FirstDay(y + 2001) + tm.yday
  BY <1>2, <1>4, DaysFromIs
<1>6. DaysFrom(y, tm.yday) = t
  BY <1>1, <1>4, <1>5
<1> QED
  BY <1>1, <1>3, <1>6 DEF TimeFrom

\* b has the fields of a that timegm reads without the day of the year.
SameFields(a, b) ==
  /\ b.sec = a.sec /\ b.min = a.min /\ b.hour = a.hour
  /\ b.mday = a.mday /\ b.mon = a.mon /\ b.year = a.year

LEMMA FromMonth ==
  ASSUME NEW t \in Int, NEW hms, NEW tm, IsDateOf(tm, t, hms), tm.year \in Int,
         NEW b, SameFields(tm, b), b.yday = -1
  PROVE  TimeFrom(b, t, hms)
<1> DEFINE y == tm.year + 1900
           l == LeapDay(y)
           d == DayFromMonth(b)
<1>1. /\ FirstDay(y) + tm.yday = t
      /\ tm.mon \in 0..11 /\ tm.mday \in 1..MonthDays(y)[tm.mon + 1]
      /\ tm.yday = DaysBefore(y)[tm.mon + 1] + tm.mday - 1
      /\ (tm.hour * 60 + tm.min) * 60 + tm.sec = hms
  BY DEF IsDateOf
<1>2. y \in Int /\ l \in {0, 1}
  BY DEF LeapDay
<1>3. FirstDay(y + 1) = FirstDay(y) + 365 + l /\ FirstDay(y) \in Int
  <2> HIDE DEF y
  <2> QED
    BY <1>2, YearLong
<1>4. /\ b.sec = tm.sec /\ b.min = tm.min /\ b.hour = tm.hour
      /\ b.mday = tm.mday /\ b.mon = tm.mon /\ b.year = tm.year
  BY DEF SameFields
<1>5. mini_timegm(b) = [day |-> DaysFrom(d.y, d.yday), hms |-> (b.hour * 60 + b.min) * 60 + b.sec]
  BY DEF mini_timegm, DaysFrom
<1>6. (b.hour * 60 + b.min) * 60 + b.sec = hms
  BY <1>1, <1>4
<1>7. tm.mday \in Int
  <2> HIDE DEF y
  <2>1. MonthDays(y)[tm.mon + 1] \in Nat
    BY <1>1 DEF MonthDays
  <2> QED
    BY <1>1, <2>1
<1>8. DaysBefore(y) = <<0, 31, 59 + l, 90 + l, 120 + l, 151 + l, 181 + l, 212 + l, 243 + l, 273 + l, 304 + l, 334 + l>>
  BY DEF DaysBefore, LeapDay
<1>9. CASE b.mon + 1 <= 2
  <2>1. d.y = tm.year - 101 /\ d.yday = (153 * (tm.mon + 13) + 3) \div 5 + tm.mday - 399
    BY <1>1, <1>4, <1>9 DEF DayFromMonth
  <2>2. tm.mon \in {0, 1}
    BY <1>1, <1>4, <1>9
  <2>3. d.yday = DaysBefore(y)[tm.mon + 1] + tm.mday - 1
    <3> HIDE DEF l, d, y
    <3> QED
      BY <1>7, <1>8, <2>1, <2>2
  <2>4. d.y + 2001 = y /\ d.y \in Int /\ d.yday \in Int /\ d.yday = tm.yday
    <3> HIDE DEF d
    <3>1. d.y + 2001 = y /\ d.y \in Int
      BY <2>1
    <3>2. d.yday \in Int
      <4> HIDE DEF y
      <4> QED
        BY <1>7, <2>1, <2>2
    <3> QED
      BY <1>1, <2>3, <3>1, <3>2
  <2> HIDE DEF d, y, l
  <2>5. DaysFrom(d.y, d.yday) = t
    BY <1>1, <2>4, DaysFromIs
  <2> QED
    BY <1>5, <1>6, <2>5 DEF TimeFrom
<1>10. CASE ~(b.mon + 1 <= 2)
  <2>1. d.y = tm.year - 100 /\ d.yday = (153 * (tm.mon + 1) + 3) \div 5 + tm.mday - 399
    BY <1>1, <1>4, <1>10 DEF DayFromMonth
  <2>2. tm.mon \in 2..11
    BY <1>1, <1>4, <1>10
  <2>3. d.yday + 365 + l = DaysBefore(y)[tm.mon + 1] + tm.mday - 1
    <3> HIDE DEF l, d, y
    <3>1. \/ tm.mon = 2 \/ tm.mon = 3 \/ tm.mon = 4 \/ tm.mon = 5 \/ tm.mon = 6 \/ tm.mon = 7
          \/ tm.mon = 8 \/ tm.mon = 9 \/ tm.mon = 10 \/ tm.mon = 11
      BY <2>2
    <3> QED
      BY <1>2, <1>7, <1>8, <2>1, <3>1
  <2>4. d.y + 2001 = y + 1 /\ d.y \in Int /\ d.yday \in Int
    <3> HIDE DEF d
    <3>1. d.y + 2001 = y + 1 /\ d.y \in Int
      BY <2>1
    <3>2. d.yday \in Int
      <4> HIDE DEF y
      <4> QED
        BY <1>7, <2>1, <2>2
    <3> QED
      BY <3>1, <3>2
  <2> HIDE DEF d, y, l
  <2>5. DaysFrom(d.y, d.yday) = FirstDay(y + 1) + d.yday
    BY <2>4, DaysFromIs
  <2>6. DaysFrom(d.y, d.yday) = t
    BY <1>1, <1>2, <1>3, <2>3, <2>4, <2>5
  <2> QED
    BY <1>5, <1>6, <2>6 DEF TimeFrom
<1> QED
  BY <1>9, <1>10

LEMMA WithoutYearDay ==
  ASSUME NEW t, NEW hms, NEW narrow
  PROVE  LET tm == mini_gmtime_r(t, hms, narrow)
         IN /\ SameFields(tm, [tm EXCEPT !.yday = -1])
            /\ [tm EXCEPT !.yday = -1].yday = -1
<1> DEFINE tm == mini_gmtime_r(t, hms, narrow)
<1>1. DOMAIN tm = {"sec", "min", "hour", "wday", "mday", "mon", "year", "yday"}
  BY DEF mini_gmtime_r
<1> HIDE DEF tm
<1>2. SameFields(tm, [tm EXCEPT !.yday = -1]) /\ [tm EXCEPT !.yday = -1].yday = -1
  BY <1>1 DEF SameFields
<1> QED
  BY <1>2 DEF tm


-----------------------------------------------------------------------------
\* A day and its seconds make the narrow time that DayOf takes apart.
LEMMA NarrowApart ==
  ASSUME NEW t \in NarrowDays, NEW hms \in SecondsOfDay
  PROVE  DayOf(t * 86400 + hms).day = t /\ DayOf(t * 86400 + hms).hms = hms
<1> DEFINE ts == t * 86400 + hms
<1>1. t \in Int /\ hms \in Int /\ 0 <= hms /\ hms < 86400
  <2>1. t \in Int
    BY DEF NarrowDays
  <2>2. hms \in Int /\ 0 <= hms /\ hms < 86400
    BY DEF SecondsOfDay
  <2> QED
    BY <2>1, <2>2
<1>2. CASE ts >= 0
  <2>1. t >= 0 /\ ~(ts < 0)
    BY <1>1, <1>2
  <2>2. ts \div 86400 = t
    BY <1>1
  <2>3. CDiv(ts, 86400) = t
    BY <2>1, <2>2 DEF CDiv
  <2>4. CMod(ts, 86400) = hms
    <3>1. CMod(ts, 86400) = ts - 86400 * t
      BY <2>3 DEF CMod
    <3> QED
      BY <1>1, <3>1
  <2> QED
    BY <1>1, <2>3, <2>4 DEF DayOf
<1>3. CASE ts < 0 /\ hms = 0
  <2>1. (-ts) \div 86400 = -t
    BY <1>1, <1>3
  <2>2. CDiv(ts, 86400) = t
    BY <1>1, <1>3, <2>1 DEF CDiv
  <2>3. CMod(ts, 86400) = 0
    <3>1. CMod(ts, 86400) = ts - 86400 * t
      BY <2>2 DEF CMod
    <3> QED
      BY <1>1, <1>3, <3>1
  <2> QED
    BY <1>1, <1>3, <2>2, <2>3 DEF DayOf
<1>4. CASE ts < 0 /\ hms # 0
  <2>1. (-ts) \div 86400 = -t - 1
    BY <1>1, <1>4
  <2>2. CDiv(ts, 86400) = t + 1
    BY <1>1, <1>4, <2>1 DEF CDiv
  <2>3. CMod(ts, 86400) = hms - 86400
    <3>1. CMod(ts, 86400) = ts - 86400 * (t + 1)
      BY <2>2 DEF CMod
    <3> QED
      BY <1>1, <3>1
  <2> QED
    BY <1>1, <1>4, <2>2, <2>3 DEF DayOf
<1>5. ts \in Int
  BY <1>1
<1> QED
  BY <1>2, <1>3, <1>4, <1>5

LEMMA TimeAtIs ==
  ASSUME NEW t \in Int, NEW hms \in SecondsOfDay, NEW narrow \in BOOLEAN, narrow => t \in NarrowDays
  PROVE  TimeAt(t, hms, narrow).day = t /\ TimeAt(t, hms, narrow).hms = hms
<1>1. CASE narrow
  <2>1. DayOf(t * 86400 + hms).day = t /\ DayOf(t * 86400 + hms).hms = hms
    BY <1>1, NarrowApart
  <2> DEFINE d == DayOf(t * 86400 + hms)
  <2>2. TimeAt(t, hms, narrow) = d
    BY <1>1 DEF TimeAt
  <2> HIDE DEF d
  <2>3. d.day = t /\ d.hms = hms
    BY <2>1 DEF d
  <2> QED
    BY <2>2, <2>3
<1>2. CASE ~narrow
  BY <1>2 DEF TimeAt
<1> QED
  BY <1>1, <1>2

\* gmtime_r and both ways of timegm, from any day.
LEMMA ThereAndBack ==
  ASSUME NEW t \in Int, NEW hms \in SecondsOfDay, NEW narrow \in BOOLEAN, narrow => t \in NarrowDays,
         NEW at, at.day = t, at.hms = hms
  PROVE  LET tm == mini_gmtime_r(at.day, at.hms, narrow)
         IN /\ IsDateOf(tm, t, hms)
            /\ TimeFrom(tm, t, hms) /\ TimeFrom([tm EXCEPT !.yday = -1], t, hms)
<1> DEFINE tm == mini_gmtime_r(t, hms, narrow)
           b == [tm EXCEPT !.yday = -1]
<1>1. IsDateOf(tm, t, hms) /\ tm.year \in Int
  BY GmtimeOK, Zenon
<1>2. SameFields(tm, b) /\ b.yday = -1
  BY WithoutYearDay, Zenon
<1> HIDE DEF tm, b
<1>3. TimeFrom(tm, t, hms)
  BY <1>1, FromYearDay, Zenon
<1>4. TimeFrom(b, t, hms)
  BY <1>1, <1>2, FromMonth, Zenon
<1> QED
  BY <1>1, <1>3, <1>4, Zenon DEF tm, b

\* A conversion is of a day and the second of a day, and its answers are right.
Converted ==
  /\ DOMAIN date = {"phase", "day", "hms", "narrow", "tm", "back"}
  /\ date.day \in Int
  /\ date.phase = "tm" => /\ IsDateOf(date.tm, date.day, date.hms)
                          /\ Len(date.back) = 2 /\ DOMAIN date.back = 1..2
                          /\ \A i \in 1..2 : date.back[i] = [day |-> date.day, hms |-> date.hms]

LEMMA ConvertedInit == DateInit => Converted
<1> SUFFICES ASSUME DateInit PROVE Converted
  OBVIOUS
<1>1. PICK y \in Years : \E day \in FirstDay(y)..FirstDay(y + 1) - 1 :
        date = [DateIdle EXCEPT !.phase = "day", !.day = day]
  BY Zenon DEF DateInit
<1>2. PICK day \in FirstDay(y)..FirstDay(y + 1) - 1 : date = [DateIdle EXCEPT !.phase = "day", !.day = day]
  BY <1>1, Zenon
<1>3. day \in Int
  BY DEF FirstDay, LeapsTo
<1>4. date.phase = "day" /\ date.day = day /\ DOMAIN date = {"phase", "day", "hms", "narrow", "tm", "back"}
  BY <1>2 DEF DateIdle
<1> QED
  BY <1>3, <1>4 DEF Converted

LEMMA ConvertedNext == Converted /\ [DateNext]_date => Converted'
<1>1. CASE UNCHANGED date
  BY <1>1 DEF Converted
<1>2. CASE Converted /\ DateNext
  <2>1. PICK hms \in DaySeconds, narrow \in BOOLEAN :
        /\ narrow => date.day \in NarrowDays
        /\ LET at == TimeAt(date.day, hms, narrow)
               tm == mini_gmtime_r(at.day, at.hms, narrow)
           IN date' = [date EXCEPT !.phase = "tm", !.hms = hms, !.narrow = narrow, !.tm = tm,
                           !.back = <<mini_timegm(tm), mini_timegm([tm EXCEPT !.yday = -1])>>]
    BY <1>2, Zenon DEF DateNext
  <2> DEFINE t == date.day
             at == TimeAt(t, hms, narrow)
             tm == mini_gmtime_r(at.day, at.hms, narrow)
             b == [tm EXCEPT !.yday = -1]
  <2>2. t \in Int /\ hms \in SecondsOfDay
    BY <1>2, CalendarAssumption DEF Converted
  <2>3. narrow => t \in NarrowDays
    BY <2>1
  <2>4. IsDateOf(tm, t, hms) /\ TimeFrom(tm, t, hms) /\ TimeFrom(b, t, hms)
    <3> HIDE DEF t
    <3>1. at.day = t /\ at.hms = hms
      BY <2>2, <2>3, TimeAtIs, Zenon
    <3> HIDE DEF at
    <3> QED
      BY <2>2, <2>3, <3>1, ThereAndBack, Zenon
  <2>5. date' = [date EXCEPT !.phase = "tm", !.hms = hms, !.narrow = narrow, !.tm = tm,
                     !.back = <<mini_timegm(tm), mini_timegm(b)>>]
    BY <2>1, Zenon
  <2> HIDE DEF tm, b
  <2>6. /\ date'.day = t /\ date'.hms = hms /\ date'.tm = tm
        /\ date'.back = <<mini_timegm(tm), mini_timegm(b)>>
        /\ DOMAIN date' = {"phase", "day", "hms", "narrow", "tm", "back"}
    BY <1>2, <2>5 DEF Converted
  <2>7. date'.back[1] = [day |-> t, hms |-> hms] /\ date'.back[2] = [day |-> t, hms |-> hms]
    BY <2>4, <2>6 DEF TimeFrom
  <2>8. Len(date'.back) = 2 /\ DOMAIN date'.back = 1..2
    BY <2>6
  <2> HIDE DEF t
  <2>9. date'.day \in Int /\ IsDateOf(date'.tm, date'.day, date'.hms)
    BY <2>2, <2>4, <2>6
  <2>10. \A i \in 1..2 : date'.back[i] = [day |-> date'.day, hms |-> date'.hms]
    BY <2>6, <2>7
  <2> QED
    BY <2>6, <2>8, <2>9, <2>10 DEF Converted
<1> QED
  BY <1>1, <1>2

\* gmtime_r gives the date and the time of day that the Gregorian calendar has
\* for every day and second, before 1970 and in centuries without a leap day as
\* well, and timegm inverts it, from the day of the year and from the month.
THEOREM CalendarRightHolds == DateSpec => []CalendarRight
<1>1. Converted => CalendarRight
  BY DEF Converted, CalendarRight, GmtimeRight, TimegmInverts
<1> QED
  BY <1>1, ConvertedInit, ConvertedNext, PTL DEF DateSpec

-----------------------------------------------------------------------------
(* strtok.                                                                    *)

Chars == STRING \cup {NUL}

\* Every nonempty set of naturals has a least element.
LEMMA HasLeast ==
  ASSUME NEW S, S \subseteq Nat, S # {}
  PROVE  \E x \in S : \A y \in S : x <= y
<1>1. PICK x \in S : \A y \in S : ~ (<<y, x>> \in OpToRel(<, Nat))
  BY NatLessThanWellFounded, WFMin
<1>2. \A y \in S : x <= y
  <2> SUFFICES ASSUME NEW y \in S, y < x PROVE FALSE
    OBVIOUS
  <2>1. <<y, x>> \in OpToRel(<, Nat)
    BY DEF OpToRel
  <2>2. QED
    BY <1>1, <2>1
<1>3. QED
  BY <1>2

LEMMA TextsOfChars ==
  ASSUME NEW s \in Seq(STRING)
  PROVE  s \in Seq(Chars)
<1>1. s \in [1..Len(s) -> STRING] /\ Len(s) \in Nat
  OBVIOUS
<1>2. s \in [1..Len(s) -> Chars]
  BY <1>1 DEF Chars
<1> QED
  BY <1>1, <1>2, SeqDef

\* Position q is the first from p on that is a NUL or not in the set, or in it.
FirstPast(s, p, set, q) ==
  /\ CharAt(s, q) = NUL \/ CharAt(s, q) \notin set
  /\ \A i \in p..q - 1 : CharAt(s, i) # NUL /\ CharAt(s, i) \in set

FirstUpTo(s, p, set, q) ==
  /\ CharAt(s, q) = NUL \/ CharAt(s, q) \in set
  /\ \A i \in p..q - 1 : CharAt(s, i) # NUL /\ CharAt(s, i) \notin set

LEMMA EndIsNUL == ASSUME NEW s \in Seq(Chars) PROVE CharAt(s, Len(s)) = NUL
  BY DEF CharAt

LEMMA PastAllOK ==
  ASSUME NEW s \in Seq(Chars), NEW p \in 0..Len(s), NEW set
  PROVE  PastAll(s, p, set) \in p..Len(s) /\ FirstPast(s, p, set, PastAll(s, p, set))
<1> DEFINE P(q) == CharAt(s, q) = NUL \/ CharAt(s, q) \notin set
           S == {q \in p..Len(s) : P(q)}
<1>1. Len(s) \in S /\ S \subseteq Nat
  BY EndIsNUL
<1>2. PICK x \in S : \A y \in S : x <= y
  <2> HIDE DEF S
  <2> QED
    BY <1>1, HasLeast
<1>3. x \in p..Len(s) /\ P(x)
  OBVIOUS
<1>4. ASSUME NEW i \in p..x - 1 PROVE CharAt(s, i) # NUL /\ CharAt(s, i) \in set
  <2>1. i \in p..Len(s) /\ i < x
    BY <1>3
  <2> QED
    BY <1>2, <2>1
<1>5. FirstPast(s, p, set, x)
  BY <1>3, <1>4 DEF FirstPast
<1>6. PastAll(s, p, set) = CHOOSE q \in p..Len(s) : FirstPast(s, p, set, q)
  BY DEF PastAll, FirstPast
<1> QED
  BY <1>3, <1>5, <1>6

LEMMA UpToOK ==
  ASSUME NEW s \in Seq(Chars), NEW p \in 0..Len(s), NEW set
  PROVE  UpTo(s, p, set) \in p..Len(s) /\ FirstUpTo(s, p, set, UpTo(s, p, set))
<1> DEFINE P(q) == CharAt(s, q) = NUL \/ CharAt(s, q) \in set
           S == {q \in p..Len(s) : P(q)}
<1>1. Len(s) \in S /\ S \subseteq Nat
  BY EndIsNUL
<1>2. PICK x \in S : \A y \in S : x <= y
  <2> HIDE DEF S
  <2> QED
    BY <1>1, HasLeast
<1>3. x \in p..Len(s) /\ P(x)
  OBVIOUS
<1>4. ASSUME NEW i \in p..x - 1 PROVE CharAt(s, i) # NUL /\ CharAt(s, i) \notin set
  <2>1. i \in p..Len(s) /\ i < x
    BY <1>3
  <2> QED
    BY <1>2, <2>1
<1>5. FirstUpTo(s, p, set, x)
  BY <1>3, <1>4 DEF FirstUpTo
<1>6. UpTo(s, p, set) = CHOOSE q \in p..Len(s) : FirstUpTo(s, p, set, q)
  BY DEF UpTo, FirstUpTo
<1> QED
  BY <1>3, <1>5, <1>6

-----------------------------------------------------------------------------
\* The memory m holds the rest of the text t from position p on, up to its NUL.
Holds(m, t, p) ==
  /\ m \in Seq(Chars) /\ t \in Seq(Chars)
  /\ Len(t) <= Len(m) /\ p \in 0..Len(t)
  /\ \A i \in p..Len(t) : CharAt(m, i) = CharAt(t, i)
  /\ \A i \in 0..Len(t) - 1 : t[i + 1] # NUL

LEMMA TextHeld ==
  ASSUME NEW m \in Seq(Chars)
  PROVE  Holds(m, SubSeq(m, 1, UpTo(m, 0, {})), 0)
<1> DEFINE n == UpTo(m, 0, {})
           t == SubSeq(m, 1, n)
<1>1. n \in 0..Len(m) /\ FirstUpTo(m, 0, {}, n)
  <2>1. 0 \in 0..Len(m)
    OBVIOUS
  <2> QED
    BY <2>1, UpToOK
<1> HIDE DEF n
<1>2. t \in Seq(Chars) /\ Len(t) = n /\ \A i \in 1..n : t[i] = m[i]
  <2>1. \A i \in 1..n : m[i] \in Chars
    BY <1>1
  <2>2. n \in Int /\ 1 \in Int
    BY <1>1
  <2>3. /\ SubSeq(m, 1, n) \in Seq(Chars)
        /\ Len(SubSeq(m, 1, n)) = IF 1 <= n THEN n - 1 + 1 ELSE 0
        /\ \A i \in 1..n - 1 + 1 : SubSeq(m, 1, n)[i] = m[1 + i - 1]
    BY <2>1, <2>2, SubSeqProperties
  <2>4. n - 1 + 1 = n /\ \A i \in 1..n : 1 + i - 1 = i
    BY <1>1
  <2> QED
    BY <1>1, <2>3, <2>4
<1> HIDE DEF t
<1>3. CharAt(m, n) = NUL /\ \A i \in 0..n - 1 : CharAt(m, i) # NUL
  BY <1>1 DEF FirstUpTo
<1>4. \A i \in 0..n - 1 : CharAt(m, i) = m[i + 1] /\ t[i + 1] = m[i + 1] /\ CharAt(t, i) = t[i + 1]
  BY <1>1, <1>2 DEF CharAt
<1>5. CharAt(t, n) = NUL
  BY <1>2, EndIsNUL
<1>6. \A i \in 0..n : i = n \/ i \in 0..n - 1
  BY <1>1
<1>7. \A i \in 0..n : CharAt(m, i) = CharAt(t, i)
  BY <1>3, <1>4, <1>5, <1>6
<1>8. \A i \in 0..n - 1 : t[i + 1] # NUL
  BY <1>3, <1>4
<1>9. Holds(m, t, 0)
  BY <1>1, <1>2, <1>7, <1>8 DEF Holds
<1> QED
  BY <1>9 DEF t, n


-----------------------------------------------------------------------------
\* A library has its two strings and its saved pointer.
LibOK(lib) ==
  /\ DOMAIN lib = {"mem", "ptr", "first", "end"}
  /\ lib.mem \in [1..2 -> Seq(Chars)]

LEMMA HoldsLater ==
  ASSUME NEW m, NEW t, NEW p, Holds(m, t, p), NEW q \in p..Len(t)
  PROVE  Holds(m, t, q)
  BY DEF Holds

\* The place at which a token ends is cut.
LEMMA CutOK ==
  ASSUME NEW lib, LibOK(lib), NEW k \in 1..2, NEW t, NEW q, Holds(lib.mem[k], t, q)
  PROVE  /\ LibOK(CutAt(lib, k, q))
         /\ \/ q = Len(t) /\ CutAt(lib, k, q).ptr = NULL
            \/ /\ q < Len(t) /\ CutAt(lib, k, q).ptr = [str |-> k, p |-> q + 1]
               /\ Holds(CutAt(lib, k, q).mem[k], t, q + 1)
<1> DEFINE m == lib.mem[k]
           r == CutAt(lib, k, q)
<1>1. /\ m \in Seq(Chars) /\ t \in Seq(Chars) /\ Len(t) <= Len(m) /\ q \in 0..Len(t)
      /\ \A i \in q..Len(t) : CharAt(m, i) = CharAt(t, i)
      /\ \A i \in 0..Len(t) - 1 : t[i + 1] # NUL
  BY DEF Holds
<1>2. CharAt(m, q) = CharAt(t, q)
  BY <1>1
<1>3. CASE q = Len(t)
  <2>1. CharAt(m, q) = NUL
    BY <1>1, <1>2, <1>3, EndIsNUL
  <2>2. r = [lib EXCEPT !.ptr = NULL]
    BY <2>1 DEF CutAt
  <2>3. r.ptr = NULL /\ r.mem = lib.mem /\ DOMAIN r = DOMAIN lib
    BY <2>2 DEF LibOK
  <2> QED
    BY <1>3, <2>3 DEF LibOK
<1>4. CASE q # Len(t)
  <2>1. q < Len(t) /\ q + 1 \in 1..Len(m) /\ q + 1 \in 0..Len(t)
    BY <1>1, <1>4
  <2>2. CharAt(m, q) # NUL
    BY <1>1, <1>2, <2>1 DEF CharAt
  <2> DEFINE w == [m EXCEPT ![q + 1] = NUL]
  <2>3. r = [lib EXCEPT !.mem[k][q + 1] = NUL, !.ptr = [str |-> k, p |-> q + 1]]
    BY <2>2, Zenon DEF CutAt
  <2>4. /\ r.ptr = [str |-> k, p |-> q + 1] /\ r.mem = [lib.mem EXCEPT ![k] = w]
        /\ DOMAIN r = DOMAIN lib
    BY <2>3 DEF LibOK
  <2>5. w \in Seq(Chars) /\ Len(w) = Len(m) /\ \A j \in 1..Len(m) : w[j] = IF j = q + 1 THEN NUL ELSE m[j]
    <3>1. NUL \in Chars
      BY DEF Chars
    <3> QED
      BY <1>1, <2>1, <3>1, ExceptSeq
  <2> HIDE DEF w
  <2>6. lib.mem \in [1..2 -> Seq(Chars)]
    BY DEF LibOK
  <2>7. r.mem \in [1..2 -> Seq(Chars)] /\ r.mem[k] = w
    BY <2>4, <2>5, <2>6
  <2>8. \A i \in q + 1..Len(t) : CharAt(w, i) = CharAt(m, i)
    BY <1>1, <2>5 DEF CharAt
  <2>9. Holds(w, t, q + 1)
    BY <1>1, <2>1, <2>5, <2>8 DEF Holds
  <2>10. LibOK(r)
    BY <2>4, <2>7 DEF LibOK
  <2> QED
    BY <2>1, <2>4, <2>7, <2>9, <2>10
<1> QED
  BY <1>3, <1>4

\* What a call gives that is made at position p of string k, whose text is t.
Gave(r, k, t, p, set) ==
  /\ LibOK(r) /\ TokenAt(t, p, set, r.first, r.end)
  /\ r.first \in Nat /\ r.end \in Nat \cup {-1}
  /\ \/ r.ptr = NULL /\ r.end \in {-1, Len(t)}
     \/ r.end \in 0..Len(t) - 1 /\ r.ptr = [str |-> k, p |-> r.end + 1] /\ Holds(r.mem[k], t, r.end + 1)

LEMMA TakenOK ==
  ASSUME NEW lib, LibOK(lib), NEW k \in 1..2, NEW t, NEW p, Holds(lib.mem[k], t, p), NEW set
  PROVE  Gave(Taken(lib, [str |-> k, p |-> p], set), k, t, p, set)
<1> DEFINE m == lib.mem[k]
           f == PastAll(m, p, set)
           e == UpTo(m, f, set)
           r == Taken(lib, [str |-> k, p |-> p], set)
           c == CutAt(lib, k, e)
<1>1. /\ m \in Seq(Chars) /\ t \in Seq(Chars) /\ Len(t) <= Len(m) /\ p \in 0..Len(t)
      /\ \A i \in p..Len(t) : CharAt(m, i) = CharAt(t, i)
      /\ \A i \in 0..Len(t) - 1 : t[i + 1] # NUL
  BY DEF Holds
<1>2. CharAt(t, Len(t)) = NUL /\ \A i \in 0..Len(t) - 1 : CharAt(t, i) = t[i + 1]
  BY <1>1, EndIsNUL DEF CharAt
<1>3. r = IF CharAt(m, f) = NUL
          THEN [lib EXCEPT !.ptr = NULL, !.first = 0, !.end = -1]
          ELSE [c EXCEPT !.first = f, !.end = e]
  <2> HIDE DEF m, c
  <2>1. k # 0
    OBVIOUS
  <2> DEFINE s == [str |-> k, p |-> p]
  <2>2. s.str = k /\ s.p = p
    OBVIOUS
  <2> HIDE DEF s
  <2>3. Taken(lib, s, set) = IF CharAt(m, f) = NUL
          THEN [lib EXCEPT !.ptr = NULL, !.first = 0, !.end = -1]
          ELSE [c EXCEPT !.first = f, !.end = e]
    BY <2>1, <2>2, Zenon DEF Taken, m, c
  <2> QED
    BY <2>3 DEF s
<1>4. f \in p..Len(m) /\ FirstPast(m, p, set, f)
  <2>1. p \in 0..Len(m)
    BY <1>1
  <2> HIDE DEF m
  <2> QED
    BY <1>1, <2>1, PastAllOK
<1>5. e \in f..Len(m) /\ FirstUpTo(m, f, set, e)
  <2>1. f \in 0..Len(m)
    BY <1>1, <1>4
  <2> HIDE DEF m, f
  <2> QED
    BY <1>1, <2>1, UpToOK
<1> HIDE DEF f, e, m, c, r
<1>6. f \in p..Len(t) /\ \A i \in p..f - 1 : t[i + 1] \in set
  <2>1. ASSUME f > Len(t) PROVE FALSE
    <3>1. Len(t) \in p..f - 1
      BY <1>1, <1>4, <2>1
    <3>2. CharAt(m, Len(t)) # NUL
      BY <1>4, <3>1 DEF FirstPast
    <3> QED
      BY <1>1, <1>2, <3>2
  <2>2. f \in p..Len(t)
    BY <1>1, <1>4, <2>1
  <2>3. ASSUME NEW i \in p..f - 1 PROVE t[i + 1] \in set
    <3>1. i \in 0..Len(t) - 1 /\ i \in p..Len(t)
      BY <1>1, <2>2
    <3>2. CharAt(m, i) \in set
      BY <1>4 DEF FirstPast
    <3> QED
      BY <1>1, <1>2, <3>1, <3>2
  <2> QED
    BY <2>2, <2>3
<1>7. CharAt(m, f) = CharAt(t, f)
  BY <1>1, <1>6
<1>8. CASE CharAt(m, f) = NUL
  <2>1. f = Len(t)
    BY <1>1, <1>2, <1>6, <1>7, <1>8
  <2>2. r = [lib EXCEPT !.ptr = NULL, !.first = 0, !.end = -1]
    BY <1>3, <1>8
  <2>3. r.ptr = NULL /\ r.first = 0 /\ r.end = -1 /\ r.mem = lib.mem /\ DOMAIN r = DOMAIN lib
    BY <2>2 DEF LibOK
  <2>4. LibOK(r)
    BY <2>3 DEF LibOK
  <2>5. TokenAt(t, p, set, r.first, r.end)
    BY <1>6, <2>1, <2>3 DEF TokenAt
  <2>6. r.first \in Nat /\ r.end \in Nat \cup {-1} /\ r.end \in {-1, Len(t)}
    BY <2>3
  <2>7. Gave(r, k, t, p, set)
    BY <2>3, <2>4, <2>5, <2>6 DEF Gave
  <2> QED
    BY <2>7 DEF r
<1>9. CASE CharAt(m, f) # NUL
  <2>1. f < Len(t) /\ t[f + 1] \notin set
    <3>1. f # Len(t)
      BY <1>2, <1>7, <1>9
    <3>2. f \in 0..Len(t) - 1
      BY <1>1, <1>6, <3>1
    <3>3. CharAt(m, f) \notin set
      BY <1>4, <1>9 DEF FirstPast
    <3> QED
      BY <1>2, <1>7, <3>2, <3>3
  <2>2. e \in f..Len(t) /\ \A i \in f..e - 1 : t[i + 1] \notin set
    <3>1. ASSUME e > Len(t) PROVE FALSE
      <4>1. Len(t) \in f..e - 1 /\ Len(t) \in p..Len(t)
        BY <1>1, <1>5, <1>6, <3>1
      <4>2. CharAt(m, Len(t)) # NUL
        BY <1>5, <4>1 DEF FirstUpTo
      <4> QED
        BY <1>1, <1>2, <4>1, <4>2
    <3>2. e \in f..Len(t)
      BY <1>1, <1>5, <1>6, <3>1
    <3>3. ASSUME NEW i \in f..e - 1 PROVE t[i + 1] \notin set
      <4>1. i \in 0..Len(t) - 1 /\ i \in p..Len(t)
        BY <1>1, <1>6, <3>2
      <4>2. CharAt(m, i) \notin set
        BY <1>5 DEF FirstUpTo
      <4> QED
        BY <1>1, <1>2, <4>1, <4>2
    <3> QED
      BY <3>2, <3>3
  <2>3. CharAt(m, e) = CharAt(t, e) /\ (CharAt(m, e) = NUL \/ CharAt(m, e) \in set)
    <3>1. e \in p..Len(t)
      BY <1>1, <1>6, <2>2
    <3> QED
      BY <1>1, <1>5, <3>1 DEF FirstUpTo
  <2>4. f < e
    <3>1. f \in 0..Len(t) - 1
      BY <1>1, <1>6, <2>1
    <3>2. e # f
      BY <1>1, <1>2, <1>7, <1>9, <2>1, <2>3, <3>1
    <3> QED
      BY <1>1, <1>6, <2>2, <3>2
  <2>5. e \in 0..Len(t) /\ (e = Len(t) \/ t[e + 1] \in set)
    <3>1. e \in 0..Len(t)
      BY <1>1, <1>6, <2>2
    <3>2. ASSUME e # Len(t) PROVE t[e + 1] \in set
      <4>1. e \in 0..Len(t) - 1
        BY <1>1, <3>1, <3>2
      <4> QED
        BY <1>1, <1>2, <2>3, <4>1
    <3> QED
      BY <3>1, <3>2
  <2>6. Holds(lib.mem[k], t, e)
    <3>1. e \in p..Len(t)
      BY <1>1, <1>6, <2>2
    <3> QED
      BY <3>1, HoldsLater
  <2>7. /\ LibOK(c)
        /\ \/ e = Len(t) /\ c.ptr = NULL
           \/ e < Len(t) /\ c.ptr = [str |-> k, p |-> e + 1] /\ Holds(c.mem[k], t, e + 1)
    BY <2>6, CutOK DEF c
  <2>8. r = [c EXCEPT !.first = f, !.end = e]
    BY <1>3, <1>9
  <2>9. r.ptr = c.ptr /\ r.first = f /\ r.end = e /\ r.mem = c.mem /\ DOMAIN r = DOMAIN c
    BY <2>7, <2>8 DEF LibOK
  <2>10. LibOK(r)
    BY <2>7, <2>9 DEF LibOK
  <2>11. TokenAt(t, p, set, f, e)
    BY <1>1, <1>6, <2>2, <2>4, <2>5 DEF TokenAt
  <2>12. f \in Nat /\ e \in Nat
    BY <1>1, <1>6, <2>2
  <2>13. \/ r.ptr = NULL /\ r.end \in {-1, Len(t)}
         \/ r.end \in 0..Len(t) - 1 /\ r.ptr = [str |-> k, p |-> r.end + 1] /\ Holds(r.mem[k], t, r.end + 1)
    <3>1. e < Len(t) => e \in 0..Len(t) - 1
      BY <1>1, <2>12
    <3> QED
      BY <2>7, <2>9, <3>1
  <2>14. Gave(r, k, t, p, set)
    BY <2>9, <2>10, <2>11, <2>12, <2>13 DEF Gave
  <2> QED
    BY <2>14 DEF r
<1> QED
  BY <1>8, <1>9


-----------------------------------------------------------------------------
(* Runs. *)

\* What a call is given and what it gives.
SeparatorSets == SUBSET STRING
TokenEnds == Nat \X Int

\* Call k of a run.
Turn(text, seps, got, k) ==
  IF k > 1 /\ got[k - 1][2] = -1
  THEN got[k][2] = -1
  ELSE TokenAt(text, IF k = 1 THEN 0 ELSE got[k - 1][2] + 1, seps[k], got[k][1], got[k][2])

Calls(seps, got) ==
  seps \in Seq(SeparatorSets) /\ got \in Seq(TokenEnds) /\ Len(seps) = Len(got)

Whole(text, seps, got) == \A k \in 1..Len(got) : Turn(text, seps, got, k)

\* What the next call of a run may give.
Follows(text, got, set, f, e) ==
  LET n == Len(got)
  IN IF n > 0 /\ got[n][2] = -1 THEN e = -1
     ELSE TokenAt(text, IF n = 0 THEN 0 ELSE got[n][2] + 1, set, f, e)

LEMMA CallAdded ==
  ASSUME NEW seps, NEW got, Calls(seps, got), NEW set \in SeparatorSets, NEW x \in TokenEnds
  PROVE  /\ Calls(Append(seps, set), Append(got, x))
         /\ Len(Append(got, x)) = Len(got) + 1
         /\ Append(got, x)[Len(got) + 1] = x
         /\ Append(seps, set)[Len(got) + 1] = set
         /\ \A k \in 1..Len(got) : Append(got, x)[k] = got[k] /\ Append(seps, set)[k] = seps[k]
<1>2. seps \in Seq(SeparatorSets) /\ got \in Seq(TokenEnds) /\ Len(seps) = Len(got)
  BY DEF Calls
<1>3. /\ Append(got, x) \in Seq(TokenEnds) /\ Len(Append(got, x)) = Len(got) + 1
      /\ \A i \in 1..Len(got) : Append(got, x)[i] = got[i]
      /\ Append(got, x)[Len(got) + 1] = x
  BY <1>2, AppendProperties
<1>4. /\ Append(seps, set) \in Seq(SeparatorSets) /\ Len(Append(seps, set)) = Len(seps) + 1
      /\ \A i \in 1..Len(seps) : Append(seps, set)[i] = seps[i]
      /\ Append(seps, set)[Len(seps) + 1] = set
  BY <1>2, AppendProperties
<1>5. Calls(Append(seps, set), Append(got, x))
  BY <1>2, <1>3, <1>4 DEF Calls
<1> QED
  BY <1>2, <1>3, <1>4, <1>5

LEMMA WholeNext ==
  ASSUME NEW text, NEW seps, NEW got, Calls(seps, got), Whole(text, seps, got),
         NEW set \in SeparatorSets, NEW x \in TokenEnds, Follows(text, got, set, x[1], x[2])
  PROVE  Whole(text, Append(seps, set), Append(got, x))
<1> DEFINE s == Append(seps, set)
           g == Append(got, x)
           n == Len(got)
<1>1. /\ Len(g) = n + 1 /\ g[n + 1] = x /\ s[n + 1] = set
      /\ \A k \in 1..n : g[k] = got[k] /\ s[k] = seps[k]
  <2>1. seps \in Seq(SeparatorSets) /\ got \in Seq(TokenEnds) /\ Len(seps) = n
    BY DEF Calls
  <2>2. Len(g) = n + 1 /\ g[n + 1] = x /\ \A k \in 1..n : g[k] = got[k]
    BY <2>1, AppendProperties
  <2>3. s[n + 1] = set /\ \A k \in 1..n : s[k] = seps[k]
    BY <2>1, AppendProperties
  <2> QED
    BY <2>2, <2>3
<1>2. n \in Nat
  BY DEF Calls
<1> HIDE DEF s, g
<1>3. ASSUME NEW k \in 1..n PROVE Turn(text, s, g, k)
  <2>1. Turn(text, seps, got, k)
    BY DEF Whole
  <2>2. g[k] = got[k] /\ s[k] = seps[k] /\ (k > 1 => g[k - 1] = got[k - 1]) /\ (k # 1 => g[k - 1] = got[k - 1])
    BY <1>1, <1>2
  <2> QED
    BY <2>1, <2>2 DEF Turn
<1>4. Turn(text, s, g, n + 1)
  <2>1. g[n + 1] = x
    BY <1>1
  <2>2. CASE n = 0
    BY <1>1, <2>1, <2>2 DEF Turn, Follows
  <2>3. CASE n > 0
    <3>1. n + 1 > 1 /\ n + 1 # 1 /\ n + 1 - 1 = n /\ n # 0
      BY <1>2, <2>3
    <3>2. g[n + 1 - 1] = got[n]
      BY <1>1, <1>2, <2>3
    <3>3. IF got[n][2] = -1 THEN x[2] = -1 ELSE TokenAt(text, got[n][2] + 1, set, x[1], x[2])
      BY <2>3, <3>1 DEF Follows
    <3>4. Turn(text, s, g, n + 1) <=>
            (IF got[n][2] = -1 THEN g[n + 1][2] = -1
             ELSE TokenAt(text, got[n][2] + 1, s[n + 1], g[n + 1][1], g[n + 1][2]))
      BY <3>1, <3>2 DEF Turn
    <3> QED
      BY <1>1, <2>1, <3>3, <3>4
  <2> QED
    BY <1>2, <2>2, <2>3
<1>5. \A k \in 1..n + 1 : k \in 1..n \/ k = n + 1
  BY <1>2
<1>6. Whole(text, s, g)
  BY <1>1, <1>3, <1>4, <1>5 DEF Whole
<1> QED
  BY <1>6 DEF s, g

\* Between calls: a library, the string of the run (0 before the first), the text
\* of that and the calls so far.
KeptRun(lib, o, text, seps, got) ==
  /\ LibOK(lib) /\ o \in 0..2 /\ Calls(seps, got)
  /\ o = 0 => lib.ptr = NULL
  /\ o # 0 =>
       /\ text \in Seq(Chars) /\ Len(got) > 0 /\ Whole(text, seps, got)
       /\ LET e == got[Len(got)][2]
          IN \/ lib.ptr = NULL /\ e \in {-1, Len(text)}
             \/ e \in 0..Len(text) - 1 /\ lib.ptr = [str |-> o, p |-> e + 1] /\ Holds(lib.mem[o], text, e + 1)

LEMMA GaveNext ==
  ASSUME NEW seps, NEW got, Calls(seps, got), NEW k \in 1..2, NEW t \in Seq(Chars), NEW p,
         NEW set \in SeparatorSets, NEW r, Gave(r, k, t, p, set),
         Whole(t, seps, got), Follows(t, got, set, r.first, r.end)
  PROVE  KeptRun(r, k, t, Append(seps, set), Append(got, <<r.first, r.end>>))
<1> DEFINE s == Append(seps, set)
           g == Append(got, <<r.first, r.end>>)
<1>1. /\ LibOK(r) /\ r.first \in Nat /\ r.end \in Int
      /\ \/ r.ptr = NULL /\ r.end \in {-1, Len(t)}
         \/ r.end \in 0..Len(t) - 1 /\ r.ptr = [str |-> k, p |-> r.end + 1] /\ Holds(r.mem[k], t, r.end + 1)
  BY DEF Gave
<1> DEFINE x == <<r.first, r.end>>
<1>0. x \in TokenEnds /\ x[1] = r.first /\ x[2] = r.end
  BY <1>1 DEF TokenEnds
<1> HIDE DEF x
<1>a. Follows(t, got, set, x[1], x[2])
  BY <1>0
<1>b. Whole(t, s, Append(got, x))
  BY <1>0, <1>a, WholeNext
<1>2. Whole(t, s, g)
  BY <1>b DEF x
<1>3. Calls(s, g) /\ Len(g) = Len(got) + 1 /\ g[Len(got) + 1] = <<r.first, r.end>>
  <2>1. /\ Calls(s, Append(got, x)) /\ Len(Append(got, x)) = Len(got) + 1
        /\ Append(got, x)[Len(got) + 1] = x
    BY <1>0, CallAdded
  <2> QED
    BY <2>1 DEF x
<1>4. Len(got) \in Nat
  BY DEF Calls
<1> HIDE DEF s, g
<1>5. Len(g) > 0 /\ g[Len(g)][2] = r.end
  BY <1>3, <1>4
<1>6. k # 0 /\ k \in 0..2
  OBVIOUS
<1>7. LET e == g[Len(g)][2]
      IN \/ r.ptr = NULL /\ e \in {-1, Len(t)}
         \/ e \in 0..Len(t) - 1 /\ r.ptr = [str |-> k, p |-> e + 1] /\ Holds(r.mem[k], t, e + 1)
  BY <1>1, <1>5
<1>8. KeptRun(r, k, t, s, g)
  BY <1>1, <1>2, <1>3, <1>5, <1>6, <1>7, Zenon DEF KeptRun
<1> QED
  BY <1>8 DEF s, g

\* A call with a string begins a run.
LEMMA CallBegins ==
  ASSUME NEW lib, LibOK(lib), NEW k \in 1..2, NEW set \in SeparatorSets
  PROVE  LET t == SubSeq(lib.mem[k], 1, UpTo(lib.mem[k], 0, {}))
             r == Taken(lib, [str |-> k, p |-> 0], set)
         IN KeptRun(r, k, t, Append(<<>>, set), Append(<<>>, <<r.first, r.end>>))
<1> DEFINE t == SubSeq(lib.mem[k], 1, UpTo(lib.mem[k], 0, {}))
           r == Taken(lib, [str |-> k, p |-> 0], set)
<1>1. lib.mem[k] \in Seq(Chars)
  BY DEF LibOK
<1>2. Holds(lib.mem[k], t, 0)
  BY <1>1, TextHeld
<1>3. t \in Seq(Chars)
  BY <1>2 DEF Holds
<1> HIDE DEF t
<1>4. Gave(r, k, t, 0, set)
  BY <1>2, TakenOK
<1> HIDE DEF r
<1>5. Calls(<<>>, <<>>) /\ Whole(t, <<>>, <<>>)
  BY DEF Calls, Whole
<1>6. Follows(t, <<>>, set, r.first, r.end)
  <2>1. TokenAt(t, 0, set, r.first, r.end)
    BY <1>4 DEF Gave
  <2> QED
    BY <2>1 DEF Follows
<1>7. KeptRun(r, k, t, Append(<<>>, set), Append(<<>>, <<r.first, r.end>>))
  BY <1>3, <1>4, <1>5, <1>6, GaveNext
<1> QED
  BY <1>7 DEF t, r

\* A call with NULL goes on with the run there is.
LEMMA CallGoesOn ==
  ASSUME NEW lib, NEW o, NEW text, NEW seps, NEW got, KeptRun(lib, o, text, seps, got),
         NEW set \in SeparatorSets
  PROVE  LET r == Taken(lib, lib.ptr, set)
         IN KeptRun(r, o, text, Append(seps, set), Append(got, <<r.first, r.end>>))
<1> DEFINE r == Taken(lib, lib.ptr, set)
           n == Len(got)
           e == got[n][2]
<1>1. LibOK(lib) /\ o \in 0..2 /\ Calls(seps, got)
  BY DEF KeptRun
<1>2. n \in Nat
  BY <1>1 DEF Calls
<1>3. CASE lib.ptr = NULL
  <2>1. NULL.str = 0
    BY DEF NULL
  <2>2. r = [lib EXCEPT !.first = 0, !.end = -1]
    BY <1>3, <2>1 DEF Taken
  <2>3. r.ptr = NULL /\ r.mem = lib.mem /\ DOMAIN r = DOMAIN lib /\ r.first = 0 /\ r.end = -1
    BY <1>1, <1>3, <2>2 DEF LibOK
  <2> HIDE DEF r
  <2>4. LibOK(r)
    BY <1>1, <2>3 DEF LibOK
  <2> DEFINE s == Append(seps, set)
             g == Append(got, <<r.first, r.end>>)
  <2>5. Calls(s, g) /\ Len(g) = n + 1 /\ g[n + 1] = <<r.first, r.end>>
    <3> DEFINE x == <<r.first, r.end>>
    <3>1. x \in TokenEnds
      BY <2>3 DEF TokenEnds
    <3> HIDE DEF x
    <3>2. /\ Calls(s, Append(got, x)) /\ Len(Append(got, x)) = n + 1 /\ Append(got, x)[n + 1] = x
      BY <1>1, <3>1, CallAdded
    <3> QED
      BY <3>2 DEF x
  <2>6. ASSUME o # 0 PROVE Whole(text, s, g) /\ text \in Seq(Chars)
    <3>1. text \in Seq(Chars) /\ n > 0 /\ Whole(text, seps, got)
      BY <2>6 DEF KeptRun
    <3>2. e \in {-1, Len(text)}
      <4>1. [str |-> o, p |-> e + 1] # NULL
        <5>1. [str |-> o, p |-> e + 1].str = o
          OBVIOUS
        <5> QED
          BY <2>1, <2>6, <5>1
      <4> QED
        BY <1>3, <2>6, <4>1 DEF KeptRun
    <3>3. Follows(text, got, set, r.first, r.end)
      BY <1>2, <2>3, <3>1, <3>2 DEF Follows, TokenAt
    <3> DEFINE x == <<r.first, r.end>>
    <3>4. x \in TokenEnds /\ x[1] = r.first /\ x[2] = r.end
      BY <2>3 DEF TokenEnds
    <3> HIDE DEF x
    <3>5. Follows(text, got, set, x[1], x[2])
      BY <3>3, <3>4
    <3>6. Whole(text, s, Append(got, x))
      BY <1>1, <3>1, <3>4, <3>5, WholeNext
    <3> QED
      BY <3>1, <3>6 DEF x
  <2> HIDE DEF s, g
  <2>7. Len(g) > 0 /\ g[Len(g)][2] = -1
    BY <1>2, <2>3, <2>5
  <2>8. KeptRun(r, o, text, s, g)
    BY <1>1, <2>3, <2>4, <2>5, <2>6, <2>7 DEF KeptRun
  <2> QED
    BY <2>8 DEF s, g, r
<1>4. CASE lib.ptr # NULL
  <2>1. o # 0 /\ o \in 1..2
    BY <1>1, <1>4 DEF KeptRun
  <2>2. /\ text \in Seq(Chars) /\ n > 0 /\ Whole(text, seps, got)
        /\ e \in 0..Len(text) - 1 /\ lib.ptr = [str |-> o, p |-> e + 1] /\ Holds(lib.mem[o], text, e + 1)
    BY <1>4, <2>1 DEF KeptRun
  <2>3. Gave(Taken(lib, [str |-> o, p |-> e + 1], set), o, text, e + 1, set)
    BY <1>1, <2>1, <2>2, TakenOK
  <2>4. Gave(r, o, text, e + 1, set)
    BY <2>2, <2>3
  <2> HIDE DEF r
  <2>5. Follows(text, got, set, r.first, r.end)
    <3>1. TokenAt(text, e + 1, set, r.first, r.end)
      BY <2>4 DEF Gave
    <3>2. n # 0 /\ e # -1
      BY <2>2
    <3> QED
      BY <3>1, <3>2 DEF Follows
  <2>6. KeptRun(r, o, text, Append(seps, set), Append(got, <<r.first, r.end>>))
    BY <1>1, <2>1, <2>2, <2>4, <2>5, GaveNext
  <2> QED
    BY <2>6 DEF r
<1> QED
  BY <1>3, <1>4


-----------------------------------------------------------------------------
\* Between calls the run is kept, and both forms of strtok are in step.
KeptTokens ==
  /\ DOMAIN tokens = {"full", "sep1", "single", "run", "runOf", "calls"}
  /\ DOMAIN tokens.run = {"text", "seps", "got"}
  /\ KeptRun(tokens.full, tokens.runOf, tokens.run.text, tokens.run.seps, tokens.run.got)
  /\ SameTokens

LEMMA KeptTokensInit == TokensInit => KeptTokens
<1> SUFFICES ASSUME NEW text \in Texts,
                    tokens = [TokensIdle EXCEPT !.full = Library(text), !.sep1 = Library(text)]
             PROVE  KeptTokens
  BY DEF TokensInit
<1>1. /\ DOMAIN tokens = {"full", "sep1", "single", "run", "runOf", "calls"}
      /\ tokens.full = Library(text) /\ tokens.sep1 = Library(text) /\ tokens.run = Run(<<>>) /\ tokens.runOf = 0
  BY DEF TokensIdle
<1>2. DOMAIN Run(<<>>) = {"text", "seps", "got"} /\ Run(<<>>).seps = <<>> /\ Run(<<>>).got = <<>>
  BY DEF Run
<1>3. LibOK(Library(text)) /\ Library(text).ptr = NULL
  <2>1. text \in Seq(Chars) /\ OtherText \in Seq(Chars)
    BY TokensAssumption, TextsOfChars
  <2>2. <<text, OtherText>> \in [1..2 -> Seq(Chars)]
    BY <2>1
  <2> QED
    BY <2>2 DEF LibOK, Library
<1>4. Calls(<<>>, <<>>)
  BY DEF Calls
<1>5. KeptRun(tokens.full, tokens.runOf, tokens.run.text, tokens.run.seps, tokens.run.got)
  BY <1>1, <1>2, <1>3, <1>4 DEF KeptRun
<1> QED
  BY <1>1, <1>2, <1>5 DEF KeptTokens, SameTokens

LEMMA StartedAtIs ==
  ASSUME NEW lib, NEW k
  PROVE  StartedAt(lib, [str |-> k, p |-> 0]) = IF k = 0 THEN lib.ptr ELSE [str |-> k, p |-> 0]
  BY DEF StartedAt

\* With one separator both forms of strtok do the same.
LEMMA SameForms ==
  ASSUME NEW lib, NEW s, NEW sep \in Seq(STRING), Len(sep) = 1
  PROVE  mini_strtok(lib, s, sep) = mini_strtok_sep1(lib, s, sep)
<1>1. {sep[i] : i \in DOMAIN sep} = {sep[1]}
  OBVIOUS
<1> QED
  BY <1>1, Zenon DEF mini_strtok, mini_strtok_sep1

LEMMA KeptTokensNext == KeptTokens /\ [Strtok]_tokens => KeptTokens'
<1>1. CASE KeptTokens /\ UNCHANGED tokens
  BY <1>1, Zenon DEF KeptTokens, SameTokens
<1>2. CASE KeptTokens /\ Strtok
  <2>1. PICK k \in 0..2, sep \in Separators :
       LET s == [str |-> k, p |-> 0]
           full == mini_strtok(tokens.full, s, sep)
           run == IF k = 0 THEN tokens.run
                  ELSE Run(SubSeq(tokens.full.mem[k], 1, UpTo(tokens.full.mem[k], 0, {})))
           single == tokens.single /\ Len(sep) = 1
       IN tokens' = [tokens EXCEPT
            !.full = full, !.single = single,
            !.sep1 = IF single THEN mini_strtok_sep1(@, s, sep) ELSE Library(<<>>),
            !.run = [run EXCEPT !.seps = Append(@, {sep[i] : i \in DOMAIN sep}),
                                !.got = Append(@, <<full.first, full.end>>)],
            !.runOf = IF k = 0 THEN @ ELSE k,
            !.calls = @ + 1]
    BY <1>2, Zenon DEF Strtok
  <2> DEFINE s == [str |-> k, p |-> 0]
             set == {sep[i] : i \in DOMAIN sep}
             full == mini_strtok(tokens.full, s, sep)
             t == SubSeq(tokens.full.mem[k], 1, UpTo(tokens.full.mem[k], 0, {}))
             run == IF k = 0 THEN tokens.run ELSE Run(t)
             single == tokens.single /\ Len(sep) = 1
             added == [run EXCEPT !.seps = Append(@, set), !.got = Append(@, <<full.first, full.end>>)]
  <2>2. tokens' = [tokens EXCEPT
            !.full = full, !.single = single,
            !.sep1 = IF single THEN mini_strtok_sep1(@, s, sep) ELSE Library(<<>>),
            !.run = added,
            !.runOf = IF k = 0 THEN @ ELSE k,
            !.calls = @ + 1]
    BY <2>1, Zenon
  <2>3. sep \in Seq(STRING) /\ set \in SeparatorSets
    BY TokensAssumption DEF SeparatorSets
  <2>4. full = Taken(tokens.full, IF k = 0 THEN tokens.full.ptr ELSE s, set)
    BY StartedAtIs, Zenon DEF mini_strtok
  <2>5. KeptTokens
    BY <1>2
  <2>6. single => full = mini_strtok_sep1(tokens.sep1, s, sep)
    BY <2>3, <2>5, SameForms DEF KeptTokens, SameTokens
  <2>7. /\ DOMAIN run = {"text", "seps", "got"}
        /\ k # 0 => run.seps = <<>> /\ run.got = <<>> /\ run.text = t
        /\ k = 0 => run = tokens.run
    BY <2>5 DEF KeptTokens, Run
  <2> HIDE DEF s, full, run, set, single, t
  <2>8. /\ DOMAIN added = {"text", "seps", "got"} /\ added.text = run.text
        /\ added.seps = Append(run.seps, set) /\ added.got = Append(run.got, <<full.first, full.end>>)
    BY <2>7
  <2> HIDE DEF added
  <2>9. /\ DOMAIN tokens' = {"full", "sep1", "single", "run", "runOf", "calls"}
        /\ tokens'.full = full /\ tokens'.run = added
        /\ tokens'.runOf = IF k = 0 THEN tokens.runOf ELSE k
    BY <2>2, <2>5 DEF KeptTokens
  <2>10. /\ tokens'.single = single
         /\ single => tokens'.sep1 = mini_strtok_sep1(tokens.sep1, s, sep)
    BY <2>2, <2>5 DEF KeptTokens
  <2>11. SameTokens'
    BY <2>6, <2>9, <2>10 DEF SameTokens
  <2>12. KeptRun(full, tokens'.runOf, added.text, added.seps, added.got)
    <3>1. KeptRun(tokens.full, tokens.runOf, tokens.run.text, tokens.run.seps, tokens.run.got)
      BY <2>5 DEF KeptTokens
    <3>2. CASE k = 0
      <4>1. full = Taken(tokens.full, tokens.full.ptr, set)
        BY <2>4, <3>2
      <4>2. KeptRun(full, tokens.runOf, run.text, Append(run.seps, set), Append(run.got, <<full.first, full.end>>))
        BY <2>3, <2>7, <3>1, <3>2, <4>1, CallGoesOn
      <4> QED
        BY <2>8, <2>9, <3>2, <4>2
    <3>3. CASE k # 0
      <4>1. full = Taken(tokens.full, [str |-> k, p |-> 0], set) /\ k \in 1..2
        BY <2>4, <3>3 DEF s
      <4>2. LibOK(tokens.full)
        BY <3>1 DEF KeptRun
      <4>3. KeptRun(full, k, t, Append(<<>>, set), Append(<<>>, <<full.first, full.end>>))
        BY <2>3, <4>1, <4>2, CallBegins DEF t
      <4>4. added.text = t /\ added.seps = Append(<<>>, set) /\ added.got = Append(<<>>, <<full.first, full.end>>)
        BY <2>7, <2>8, <3>3
      <4> QED
        BY <2>9, <3>3, <4>3, <4>4, Zenon
    <3> QED
      BY <3>2, <3>3
  <2> QED
    BY <2>8, <2>9, <2>11, <2>12 DEF KeptTokens
<1> QED
  BY <1>1, <1>2

\* Across the calls of strtok a string is taken apart whole, once: every token is
\* the longest one behind the token before it, whatever separators each call
\* names, and the form for one separator gives and cuts the same.
THEOREM TokensKeptHolds == TokensSpec => []TokensKept
<1>1. KeptTokens => TokensKept
  <2> SUFFICES ASSUME KeptTokens PROVE TokensWhole
    BY DEF KeptTokens, TokensKept
  <2>1. tokens.runOf # 0 => Whole(tokens.run.text, tokens.run.seps, tokens.run.got)
    BY DEF KeptTokens, KeptRun
  <2> QED
    BY <2>1 DEF TokensWhole, Whole, Turn
<1> QED
  BY <1>1, KeptTokensInit, KeptTokensNext, PTL DEF TokensSpec

==============================================================================
