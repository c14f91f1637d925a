----------------------------- MODULE TempFiles ------------------------------
(* The makers of temporary files: mini_mkstemp, tempnam on top of it, and the *)
(* program mktmpf.  Several processes call them in one directory, where other *)
(* programs make and remove files of the same names too.  A random name is    *)
(* any of the names.                                                          *)
EXTENDS Naturals

CONSTANTS Procs,     \* the processes, model values
          TempNames, \* the names the template may turn into
          TRY_COUNT  \* the tries of mktmpf after its first one

NoOne == "none"
Others == "other"

ASSUME TempAssumption == TRY_COUNT \in Nat /\ NoOne \notin Procs /\ Others \notin Procs

VARIABLES dir,       \* who has made the file of each name
          procs      \* each process's call

Callers == {"mkstemp", "tempnam", "mktmpf"}

Idle == [pc |-> "idle", call |-> "none", name |-> NoOne, tries |-> 0, taken |-> 0, ret |-> "none",
         errno |-> "none", blocks |-> 0]

TempInit == dir = [n \in TempNames |-> NoOne] /\ procs = [p \in Procs |-> Idle]

Ends(c, ret) == [c EXCEPT !.pc = "done", !.ret = ret]

\* What a call answers when a file was made, and when none can be.
Answers(c, n) == [c EXCEPT !.name = n, !.pc = IF c.call = "tempnam" THEN "unlink" ELSE "done", !.ret = "made"]

Fails(c) == [Ends(c, IF c.call = "mktmpf" THEN "3" ELSE "-1") EXCEPT !.blocks = 0]

\* A call with a template that has the letters to replace, or lacks them; tempnam
\* makes its own and needs memory for it.
Call(p) ==
  /\ procs[p].pc = "idle"
  /\ \E call \in Callers, fine \in BOOLEAN :
       procs' = [procs EXCEPT ![p] =
         IF fine THEN [@ EXCEPT !.pc = "open", !.call = call, !.tries = TRY_COUNT,
                                !.blocks = IF call = "tempnam" THEN 1 ELSE 0]
         ELSE CASE call = "mkstemp" -> [Ends(@, "-1") EXCEPT !.call = call, !.errno = "EINVAL"]
                [] call = "tempnam" -> [Ends(@, "-1") EXCEPT !.call = call, !.errno = "ENOMEM"]
                [] call = "mktmpf"  -> [Ends(@, "2") EXCEPT !.call = call]]
  /\ UNCHANGED dir

\* Mutant: O_EXCL is not among the flags.
MakesAnyway(n) == n \in DOMAIN dir

\* open with O_CREAT and O_EXCL.
Makes(n) == dir[n] = NoOne

\* Mutant: the last try is not made.
RetriesEarly(c) ==
  IF c.call # "mktmpf" THEN c
  ELSE IF c.tries = 1 THEN Ends([c EXCEPT !.taken = @ + 1], "4")
  ELSE [c EXCEPT !.tries = @ - 1, !.taken = @ + 1]

\* Mutant: the count of tries starts over when it is used up.
RetriesAlways(c) ==
  IF c.call # "mktmpf" THEN c ELSE [c EXCEPT !.tries = IF @ = 0 THEN TRY_COUNT ELSE @ - 1]

\* mktmpf counts its tries (and taken, for the properties, the names in use).
Retries(c) ==
  IF c.call # "mktmpf" THEN c
  ELSE IF c.tries = 0 THEN Ends([c EXCEPT !.taken = @ + 1], "4")
  ELSE [c EXCEPT !.tries = @ - 1, !.taken = @ + 1]

\* Only a name in use is a reason to try another one.
OnError(c, e) == IF e # "EEXIST" THEN Fails([c EXCEPT !.errno = e]) ELSE Retries([c EXCEPT !.errno = e])

\* One turn of the loop; opening may fail for any other reason too.
Open(p) ==
  /\ procs[p].pc = "open"
  /\ \/ \E n \in TempNames :
          IF Makes(n)
          THEN /\ dir' = [dir EXCEPT ![n] = p]
               /\ procs' = [procs EXCEPT ![p] = Answers(@, n)]
          ELSE procs' = [procs EXCEPT ![p] = OnError(@, "EEXIST")] /\ UNCHANGED dir
     \/ procs' = [procs EXCEPT ![p] = OnError(@, "EACCES")] /\ UNCHANGED dir

\* tempnam closes the file and removes it; the name is the caller's to use.
Unlink(p) ==
  /\ procs[p].pc = "unlink"
  /\ dir' = [dir EXCEPT ![procs[p].name] = NoOne]
  /\ procs' = [procs EXCEPT ![p] = Ends(@, "made")]

HasFile(p) == procs[p].ret = "made" /\ procs[p].call # "tempnam" /\ procs[p].pc = "done"

\* The caller is done with its file, or with the name and its memory.
Finish(p) ==
  /\ procs[p].pc = "done"
  /\ dir' = IF HasFile(p) THEN [dir EXCEPT ![procs[p].name] = NoOne] ELSE dir
  /\ procs' = [procs EXCEPT ![p] = [Idle EXCEPT !.errno = procs[p].errno]]

\* Other programs make and remove files of their own.
Elsewhere ==
  /\ \E n \in TempNames : \/ dir[n] = NoOne /\ dir' = [dir EXCEPT ![n] = Others]
                          \/ dir[n] = Others /\ dir' = [dir EXCEPT ![n] = NoOne]
  /\ UNCHANGED procs

TempNext ==
  \/ \E p \in Procs : Call(p) \/ Open(p) \/ Unlink(p) \/ Finish(p)
  \/ Elsewhere

tempVars == <<dir, procs>>

TempSpec == TempInit /\ [][TempNext]_tempVars

-----------------------------------------------------------------------------
CallRecords == [pc : {"idle", "open", "unlink", "done"}, call : Callers \cup {"none"},
            name : TempNames \cup {NoOne}, tries : 0..TRY_COUNT, taken : 0..TRY_COUNT + 1,
            ret : {"none", "made", "-1", "2", "3", "4"},
            errno : {"none", "EEXIST", "EACCES", "EINVAL", "ENOMEM"}, blocks : {0, 1}]

\* The state's shape.
TempTypeOK ==
  /\ dir \in [TempNames -> Procs \cup {NoOne, Others}]
  /\ procs \in [Procs -> CallRecords]

\* Every file a process has made is the one its call answers with, or is about to
\* remove; one made for a call that failed or ended is not left behind, nor is
\* the memory of a tempnam that failed.
FilesAccounted ==
  \A p \in Procs :
    LET c == procs[p] IN
    /\ {n \in TempNames : dir[n] = p} = IF c.pc = "unlink" \/ HasFile(p) THEN {c.name} ELSE {}
    /\ c.ret = "-1" => c.blocks = 0

\* A call fails for want of a name only after all its tries, and mkstemp never:
\* it goes on until open fails for another reason.
FailuresHonest ==
  \A p \in Procs :
    LET c == procs[p] IN
    /\ c.ret \in {"-1", "3"} => c.errno \notin {"none", "EEXIST"}
    /\ c.ret = "4" => c.call = "mktmpf" /\ c.taken = TRY_COUNT + 1

\* No call takes over a file that somebody else has made: a name goes from one
\* owner to another only through its removal.
NeverTakenOver ==
  [][\A n \in TempNames : dir'[n] # dir[n] => dir[n] = NoOne \/ dir'[n] = NoOne]_tempVars

\* mktmpf ends however many names are in use, as long as it is run.
TriesEnd == \A p \in Procs : procs[p].pc = "open" /\ procs[p].call = "mktmpf" ~> procs[p].pc = "done"

\* What a call answers is what it has left in the directory.
TempFilesRight == FilesAccounted /\ FailuresHonest

=============================================================================
