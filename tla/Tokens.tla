------------------------------- MODULE Tokens -------------------------------
(* mini_strtok, which keeps its place between calls, in its general form and  *)
(* in the one for separators of one character.  A string is a sequence of     *)
(* characters; a NUL that strtok writes into it is the character NUL.         *)
EXTENDS Integers, Sequences

CONSTANTS Texts,      \* the contents of the first string strtok is given
          OtherText,  \* the content of the second
          Separators, \* the separator strings
          MaxCalls    \* calls of strtok

ASSUME TokensAssumption ==
  /\ Texts \cup Separators \cup {OtherText} \subseteq Seq(STRING)
  /\ MaxCalls \in Nat

VARIABLE tokens       \* the strings, the saved pointers and the current run of calls

NUL == "NUL"

CharAt(s, p) == IF p < Len(s) THEN s[p + 1] ELSE NUL

-----------------------------------------------------------------------------
(* mini_strtok.  A pointer is a string and a position, string 0 being NULL.   *)

NULL == [str |-> 0, p |-> 0]

\* The first position from p on whose character is a NUL or not in (or in) set.
PastAll(s, p, set) == CHOOSE q \in p..Len(s) :
  /\ CharAt(s, q) = NUL \/ CharAt(s, q) \notin set
  /\ \A i \in p..q - 1 : CharAt(s, i) # NUL /\ CharAt(s, i) \in set

UpTo(s, p, set) == CHOOSE q \in p..Len(s) :
  /\ CharAt(s, q) = NUL \/ CharAt(s, q) \in set
  /\ \A i \in p..q - 1 : CharAt(s, i) # NUL /\ CharAt(s, i) \notin set

\* Mutant: the place that is kept is the cut itself, not the byte behind it.
CutAtPlace(lib, k, q) ==
  IF CharAt(lib.mem[k], q) # NUL
  THEN [lib EXCEPT !.mem[k][q + 1] = NUL, !.ptr = [str |-> k, p |-> q]]
  ELSE [lib EXCEPT !.ptr = NULL]

\* The separator at the end of the token becomes a NUL; without one the run ends.
CutAt(lib, k, q) ==
  IF CharAt(lib.mem[k], q) # NUL
  THEN [lib EXCEPT !.mem[k][q + 1] = NUL, !.ptr = [str |-> k, p |-> q + 1]]
  ELSE [lib EXCEPT !.ptr = NULL]

\* The token taken from s on, first and end position, with end = -1 for NULL.
Taken(lib, s, set) ==
  LET k == s.str
      first == PastAll(lib.mem[k], s.p, set)
      end == UpTo(lib.mem[k], first, set)
  IN IF k = 0 THEN [lib EXCEPT !.first = 0, !.end = -1]
     ELSE IF CharAt(lib.mem[k], first) = NUL
     THEN [lib EXCEPT !.ptr = NULL, !.first = 0, !.end = -1]
     ELSE [CutAt(lib, k, end) EXCEPT !.first = first, !.end = end]

StartedAt(lib, s) == IF s.str = 0 THEN lib.ptr ELSE s

\* No separators, one, or a table of them.
mini_strtok(lib, s, sep) == Taken(lib, StartedAt(lib, s), {sep[i] : i \in DOMAIN sep})

mini_strtok_sep1(lib, s, sep) == Taken(lib, StartedAt(lib, s), {sep[1]})

Library(text) == [mem |-> <<text, OtherText>>, ptr |-> NULL, first |-> 0, end |-> -1]

\* The run of calls since a string was given: its text then, and for each call
\* the separators and the token.
Run(text) == [text |-> text, seps |-> <<>>, got |-> <<>>]

TokensIdle == [full |-> Library(<<>>), sep1 |-> Library(<<>>), single |-> TRUE,
               run |-> Run(<<>>), runOf |-> 0, calls |-> 0]

TokensInit == \E text \in Texts :
  tokens = [TokensIdle EXCEPT !.full = Library(text), !.sep1 = Library(text)]

\* A call with a string, or with NULL; the short form is called alike as long as
\* every separator string has been of one character.
Strtok ==
  /\ tokens.calls < MaxCalls
  /\ \E k \in 0..2, sep \in Separators :
       LET s == [str |-> k, p |-> 0]
           full == mini_strtok(tokens.full, s, sep)
           run == IF k = 0 THEN tokens.run
                  ELSE Run(SubSeq(tokens.full.mem[k], 1, UpTo(tokens.full.mem[k], 0, {})))
           single == tokens.single /\ Len(sep) = 1
       IN tokens' = [tokens EXCEPT
            !.full = full, !.single = single,
            !.sep1 = IF single THEN mini_strtok_sep1(@, s, sep) ELSE Library(<<>>),
            !.run = [run EXCEPT !.seps = Append(@, {sep[i] : i \in DOMAIN sep}),
                                !.got = Append(@, <<full.first, full.end>>)],
            !.runOf = IF k = 0 THEN @ ELSE k,
            !.calls = @ + 1]

TokensSpec == TokensInit /\ [][Strtok]_tokens

-----------------------------------------------------------------------------
\* What a call may give whose run has come to position from of its text: NULL
\* when only separators are left, or the longest token there is.
TokenAt(text, from, set, first, end) ==
  LET Sep(i) == text[i + 1] \in set
  IN IF end = -1
     THEN \A i \in from..Len(text) - 1 : Sep(i)
     ELSE /\ from <= first /\ first < end /\ end <= Len(text)
          /\ \A i \in from..first - 1 : Sep(i)
          /\ \A i \in first..end - 1 : ~Sep(i)
          /\ end = Len(text) \/ Sep(end)

\* Each token of a run is the longest one: nothing but separators of its call
\* lies between the token before it and itself, none within it, and one of them
\* or the end of the text behind it; NULL comes when only separators are left,
\* and from then on.
TokensWhole ==
  tokens.runOf # 0 =>
    LET run == tokens.run
        From(k) == IF k = 1 THEN 0 ELSE run.got[k - 1][2] + 1
    IN \A k \in 1..Len(run.got) :
         IF k > 1 /\ run.got[k - 1][2] = -1
         THEN run.got[k][2] = -1
         ELSE TokenAt(run.text, From(k), run.seps[k], run.got[k][1], run.got[k][2])

\* The strtok for one separator gives the same tokens, cuts the same bytes and
\* keeps the same place as the general one.
SameTokens == tokens.single => tokens.sep1 = tokens.full

\* Across the calls of strtok a string is taken apart whole, once.
TokensKept == TokensWhole /\ SameTokens

=============================================================================
