------------------------------ MODULE Commands ------------------------------
(* Programs found by name: mini_execvp of the library, and the program cc of  *)
(* tools/shbin_cc.c, which finds itself on the PATH, follows its symbolic     *)
(* links and starts the shell beside it.  A file is a record with what a      *)
(* kernel looks at; a path is a directory and a name.                         *)
EXTENDS Integers, Sequences, FiniteSets, SequencesExt

CONSTANTS Dirs,       \* the directories of a PATH
          Files,      \* the states of the file with the name looked for
          MaxEntries, \* the longest PATH
          LinkNames,  \* the names of the files links lead through
          MaxLinks    \* the links shbin_cc follows (256)

ASSUME CommandsAssumption ==
  /\ Files \subseteq [kind : {"none", "regular", "other"}, uses : SUBSET {"owner", "group", "all"},
                      mine : {"owner", "group", "all"}, binary : BOOLEAN]
  /\ MaxEntries \in Nat /\ MaxLinks \in Nat

VARIABLE command

Empty == "empty"         \* an entry of the PATH without a character
Long == "long"           \* one too long for a path name
NoPath == <<"unset">>    \* the environment has no PATH
Default == <<"bin">>     \* what is searched then

Entries(path) == IF path = NoPath THEN Default ELSE SelectSeq(path, LAMBDA e : e # Empty)

-----------------------------------------------------------------------------
(* The kernel: execve of a file, for a user who is not root.                  *)

Execve(f) ==
  CASE f.kind = "none"      -> "ENOENT"
    [] f.kind = "other"     -> "EACCES"
    [] f.kind = "regular" /\ f.mine \notin f.uses            -> "EACCES"
    [] f.kind = "regular" /\ f.mine \in f.uses /\ ~f.binary  -> "ENOEXEC"
    [] OTHER                -> "ok"

\* mini_execvp: the entries one after the other, up to the first that runs, that
\* is to be run by the shell, or that fails for a reason of its own.
Passed(errno) == errno \in {"EACCES", "ENOENT", "ENOTDIR"}

RECURSIVE mini_execvp(_, _)
mini_execvp(path, world) ==
  LET errno == Execve(world[path[1]])
  IN IF path = <<>> THEN [runs |-> "none", by |-> "none", errno |-> "ENOENT"]
     ELSE IF path[1] = Long THEN mini_execvp(Tail(path), world)
     ELSE IF errno = "ok" THEN [runs |-> path[1], by |-> "kernel", errno |-> "none"]
     ELSE IF errno = "ENOEXEC" THEN [runs |-> path[1], by |-> "/bin/sh", errno |-> "none"]
     ELSE IF Passed(errno) THEN mini_execvp(Tail(path), world)
     ELSE [runs |-> "none", by |-> "none", errno |-> errno]

-----------------------------------------------------------------------------
(* shbin_cc: the checks of find_cmd_on_path on the state of a file.           *)

Executable(f) ==
  /\ f.kind = "regular"
  /\ f.uses # {}
  /\ f.uses = {"owner", "group", "all"} \/ f.mine \in f.uses

RECURSIVE find_cmd_on_path(_, _)
find_cmd_on_path(path, world) ==
  IF path = <<>> THEN [found |-> "none", ret |-> -104]
  ELSE IF path[1] = Long THEN [found |-> "none", ret |-> -102]
  ELSE IF Executable(world[path[1]]) THEN [found |-> path[1], ret |-> 0]
  ELSE find_cmd_on_path(Tail(path), world)

(* The links: absent, or the path they hold, Here standing for the directory  *)
(* of a relative one.                                                         *)

Here == "here"
NotLink == [dir |-> "none", name |-> "none"]

Paths == Dirs \X LinkNames
Links == [dir : Dirs \cup {Here}, name : LinkNames] \cup {NotLink}

\* Mutant: a relative link starts where the first one was.
FollowFirst(at, link) == <<IF link.dir = Here THEN command.at[1] ELSE link.dir, link.name>>

\* A relative link starts where the link itself is.
Follow(at, link) == <<IF link.dir = Here THEN at[1] ELSE link.dir, link.name>>

RECURSIVE Resolved(_, _, _)
Resolved(at, links, left) ==
  IF links[at] = NotLink THEN [at |-> at, ret |-> 0]
  ELSE IF left = 0 THEN [at |-> at, ret |-> -109]
  ELSE Resolved(Follow(at, links[at]), links, left - 1)

resolve_symlinks(at, links) == Resolved(at, links, MaxLinks)

\* work: the shell and the script both lie beside the file the links lead to, and
\* the links of the script are followed too.
work(at, links, script) ==
  LET tool == resolve_symlinks(at, links)
      s == resolve_symlinks(<<tool.at[1], script>>, links)
  IN IF tool.ret # 0 THEN [ret |-> tool.ret, sh |-> "none", script |-> at]
     ELSE IF s.ret # 0 THEN [ret |-> s.ret, sh |-> "none", script |-> at]
     ELSE [ret |-> 0, sh |-> tool.at[1], script |-> s.at]

-----------------------------------------------------------------------------
CommandIdle == [phase |-> "idle", path |-> <<>>, world |-> <<>>, execvp |-> <<>>, found |-> <<>>,
                at |-> <<>>, links |-> <<>>, script |-> "none", tool |-> <<>>, work |-> <<>>]

PathValues == {NoPath} \cup UNION {[1..n -> Dirs \cup {Empty, Long}] : n \in 0..MaxEntries}

CommandInit ==
  \/ \E path \in PathValues, world \in [Dirs \cup {"bin"} -> Files] :
       command = [CommandIdle EXCEPT !.phase = "path", !.path = path, !.world = world]
  \/ \E links \in [Paths -> Links], at \in Paths :
       command = [CommandIdle EXCEPT !.phase = "links", !.links = links, !.at = at]

Look ==
  /\ command.phase = "path"
  /\ command' = [command EXCEPT !.phase = "found",
       !.execvp = mini_execvp(Entries(command.path), command.world),
       !.found = find_cmd_on_path(Entries(command.path), command.world)]

StartShell ==
  /\ command.phase = "links"
  /\ \E script \in LinkNames :
       command' = [command EXCEPT !.phase = "started", !.script = script,
         !.tool = resolve_symlinks(command.at, command.links),
         !.work = work(command.at, command.links, script)]

CommandNext == Look \/ StartShell

-----------------------------------------------------------------------------
\* The tool finds the file on the PATH that the kernel would run for execvp, by
\* the permission bits alone; the search of execvp goes past the files that may
\* not be run, past what is missing and past entries that are too long, where the
\* tool gives up.
SameCommand ==
  command.phase = "found" =>
    LET entries == Entries(command.path)
        runnable == {i \in DOMAIN entries : entries[i] # Long /\
                                            Execve(command.world[entries[i]]) \in {"ok", "ENOEXEC"}}
        first == entries[Min(runnable)]
    IN /\ command.execvp.runs = IF runnable = {} THEN "none" ELSE first
       /\ command.found.ret = 0 => command.found.found = command.execvp.runs
       /\ command.found.ret = -104 => runnable = {}
       /\ command.found.ret = -102 => \E i \in DOMAIN entries : entries[i] = Long /\ \A j \in runnable : i < j

\* The file that n links, or fewer if there are no more, lead to.
Reached(at, links, n) ==
  LET Target(q) == IF links[q] = NotLink THEN q
                   ELSE IF links[q].dir = Here THEN <<q[1], links[q].name>>
                   ELSE <<links[q].dir, links[q].name>>
      f[k \in 0..n] == IF k = 0 THEN at ELSE Target(f[k - 1])
  IN f[n]

\* Links in a circle, or more of them than may be followed, are refused; all
\* others lead to the file that is none, whichever directories they go through,
\* and the shell and its script come from the directory of that file.
LinksFollowed ==
  command.phase = "started" =>
    LET count == Cardinality(Paths)
        Final(at) == Reached(at, command.links, count)
        Far(at) == command.links[Reached(at, command.links, MaxLinks)] # NotLink
        beside == <<Final(command.at)[1], command.script>>
    IN /\ command.tool.ret = IF Far(command.at) THEN -109 ELSE 0
       /\ command.tool.ret = 0 => command.tool.at = Final(command.at)
       /\ command.work.ret = IF Far(command.at) \/ Far(beside) THEN -109 ELSE 0
       /\ command.work.ret = 0 =>
            /\ command.work.sh = Final(command.at)[1]
            /\ command.work.script = Final(beside)

\* The command that runs is the one that PATH and the links name.
CommandsRight == SameCommand /\ LinksFollowed

=============================================================================
