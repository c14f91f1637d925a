------------------------------- MODULE Checks -------------------------------
(***************************************************************************)
(* What the command-line tools have in common: a run of checks, each of    *)
(* which ends the program with an exit code of its own.                    *)
(***************************************************************************)
EXTENDS Integers, SequencesExt

\* The program has not ended.
Running == -1

\* What a process that is ended by SIGSEGV gives to its parent.
Segfault == 139

\* The exit code of the first of the checks, pairs of a condition that must
\* not hold and a code, that fails; 0 if none does.
FirstFailure(checks) ==
  LET failed == SelectInSeq(checks, LAMBDA c : c[1]) IN
  IF failed = 0 THEN 0 ELSE checks[failed][2]

\* n rounded up to a multiple of a.
RoundUp(n, a) == ((n + a - 1) \div a) * a
=============================================================================
