------------------------------ MODULE Options ------------------------------
(* mini_getopt, which keeps its place in the words of a command line and in a *)
(* cluster of options between calls.                                          *)
EXTENDS Tokens, SequencesExt

CONSTANTS Words,      \* the words of a command line
          MaxWords,   \* the longest command line, without the program name
          OptStrings  \* the option strings

ASSUME OptionsAssumption == MaxWords \in Nat

VARIABLE options      \* the command line, the variables of getopt and its answers

-----------------------------------------------------------------------------
(* getopt.  Words are sequences of characters; argv[0] is left out, so that   *)
(* argv[optind] is the word optind of the command line.                       *)

HasWord(o, i) == i \in 1..Len(o.argv)

\* No word is left, or the next one is no option.
AtOperand(o) ==
  \/ ~HasWord(o, o.optind)
  \/ CharAt(o.argv[o.optind], 0) # "-"
  \/ CharAt(o.argv[o.optind], 1) = NUL

AtDashes(o) == CharAt(o.argv[o.optind], 1) = "-" /\ CharAt(o.argv[o.optind], 2) = NUL

\* The place in the cluster belongs to the word it was left in.
Placed(o) ==
  IF o.lastidx # o.optind THEN [o EXCEPT !.lastidx = o.optind, !.lastofs = 0] ELSE o

\* Mutant: setting optind to 0 keeps the place in the cluster.
RestartedStale(o) == IF o.optind = 0 THEN [o EXCEPT !.optind = 1] ELSE o

Restarted(o) == IF o.optind = 0 THEN [o EXCEPT !.optind = 1, !.lastidx = 0] ELSE o

Answer(o, c, arg, said) == [o EXCEPT !.got = Append(@, [c |-> c, arg |-> arg, said |-> said])]

Ended(o) == [o EXCEPT !.ended = TRUE]

Index(optstring, c) == SelectInSeq(optstring, LAMBDA x : x = c)

TakesArgument(o, c)  == CharAt(o.optstring, Index(o.optstring, c)) = ":"
MayLackOne(o, c) == TakesArgument(o, c) /\ CharAt(o.optstring, Index(o.optstring, c) + 1) = ":"

\* -foo has the argument oo, or none when it is optional and nothing follows.
WithRest(o, c, rest) == [Answer(o, c, rest, NUL) EXCEPT !.optind = @ + 1]

WithNext(o, c) ==
  IF HasWord(o, o.optind + 1)
  THEN [Answer(o, c, o.argv[o.optind + 1], NUL) EXCEPT !.optind = @ + 2]
  ELSE [Answer(o, ":", <<>>, IF CharAt(o.optstring, 0) = ":" THEN "missing" ELSE NUL) EXCEPT !.optind = @ + 1]

RECURSIVE Opted(_)
Opted(o) ==
  LET p == Placed(o)
      word == o.argv[o.optind]
      c == CharAt(word, p.lastofs + 1)
      rest == SubSeq(word, p.lastofs + 3, Len(word))
  IN IF AtOperand(o) THEN Ended(o)
     ELSE IF AtDashes(o) THEN Ended([o EXCEPT !.optind = @ + 1])
     ELSE IF c = NUL THEN Opted([p EXCEPT !.optind = @ + 1])
     ELSE IF Index(o.optstring, c) = 0
     THEN [Answer(p, "?", <<>>, "unknown") EXCEPT !.optind = @ + 1]
     ELSE IF ~TakesArgument(o, c) THEN [Answer(p, c, <<>>, NUL) EXCEPT !.lastofs = @ + 1]
     ELSE IF MayLackOne(o, c) \/ rest # <<>> THEN WithRest(p, c, rest)
     ELSE WithNext(p, c)

getopt(o) == Opted(Restarted(o))

OptionsIdle == [argv |-> <<>>, optstring |-> <<>>, optind |-> 1, lastidx |-> 0, lastofs |-> 0,
                got |-> <<>>, ended |-> FALSE, restarts |-> 0]

CommandLines == UNION {[1..n -> Words] : n \in 0..MaxWords}

OptionsInit == \E argv \in CommandLines, optstring \in OptStrings :
  options = [OptionsIdle EXCEPT !.argv = argv, !.optstring = optstring]

Getopt == ~options.ended /\ options' = getopt(options)

\* The program sets optind to 0 and parses another command line, once.
Restart ==
  /\ options.restarts = 0
  /\ options.got # <<>>
  /\ \E argv \in CommandLines :
       /\ Len(argv) <= 1
       /\ options' = [options EXCEPT !.argv = argv, !.optind = 0, !.got = <<>>,
                                     !.ended = FALSE, !.restarts = 1]

-----------------------------------------------------------------------------
(* What a command line means, word by word: the options before the first      *)
(* operand, and the number of the word after them.                            *)

\* The first letter of a cluster that ends it: an unknown one or one that takes
\* an argument.
Ender(o, word) == CHOOSE n \in 2..Len(word) + 1 :
  /\ n <= Len(word) => Index(o.optstring, word[n]) = 0 \/ TakesArgument(o, word[n])
  /\ \A i \in 2..n - 1 : Index(o.optstring, word[i]) # 0 /\ ~TakesArgument(o, word[i])

RECURSIVE Meaning(_, _)
Meaning(o, i) ==
  LET word == o.argv[i]
      n == Ender(o, word)
      plain == [k \in 1..n - 2 |-> [c |-> word[k + 1], arg |-> <<>>, said |-> NUL]]
      rest == SubSeq(word, n + 1, Len(word))
      quiet == o.optstring[1] # ":"
      last == IF n > Len(word) THEN <<>>
              ELSE IF Index(o.optstring, word[n]) = 0
              THEN << [c |-> "?", arg |-> <<>>, said |-> "unknown"] >>
              ELSE IF rest # <<>> \/ MayLackOne(o, word[n])
              THEN << [c |-> word[n], arg |-> rest, said |-> NUL] >>
              ELSE IF i = Len(o.argv)
              THEN << [c |-> ":", arg |-> <<>>, said |-> IF quiet THEN NUL ELSE "missing"] >>
              ELSE << [c |-> word[n], arg |-> o.argv[i + 1], said |-> NUL] >>
      separate == last # <<>> /\ last[1].c = CharAt(word, n - 1) /\ rest = <<>> /\ last[1].arg # <<>>
      after == Meaning(o, IF separate THEN i + 2 ELSE i + 1)
  IN IF i > Len(o.argv) THEN [got |-> <<>>, next |-> i]
     ELSE IF word = <<"-", "-">> THEN [got |-> <<>>, next |-> i + 1]
     ELSE IF word[1] # "-" \/ Len(word) = 1 THEN [got |-> <<>>, next |-> i]
     ELSE [got |-> plain \o last \o after.got, next |-> after.next]

\* getopt gives the options of the command line one by one, clusters and
\* arguments included, and leaves optind at the first operand; a parse that is
\* abandoned within a cluster and started over leaves no trace in the next one.
OptionsParsed ==
  LET m == Meaning(options, 1)
  IN /\ IsPrefix(options.got, m.got)
     /\ options.ended => options.got = m.got /\ options.optind = m.next

=============================================================================
