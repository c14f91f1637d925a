------------------------------ MODULE Library -------------------------------
(* A program that uses one part of the library at a time: its sorts, its      *)
(* conversions, its tokens and options, its temporary files, its search for   *)
(* commands, or one of the small stdio libraries, which define the same names *)
(* so that a program is linked to one of them: files, standard output, printf.*)
EXTENDS Sorting, Numbers, Calendar, Options, TempFiles, Commands, PlainPrintf, SimpleFile, SimpleOut

VARIABLE part        \* the part of the library that is used

sortVars    == <<sorting>>
numberVars  == <<number>>
dateVars    == <<date>>
tokensVars  == <<tokens>>
optionsVars == <<options>>
commandVars == <<command>>
printVars   == <<plain>>

vars == <<part, sortVars, numberVars, dateVars, tokensVars, optionsVars, tempVars, commandVars, printVars,
          fileVars, outVars>>

Init ==
  /\ part \in {"sort", "number", "date", "tokens", "options", "temp", "command", "print", "file", "stdout"}
  /\ IF part = "sort" THEN SortInit ELSE sorting = SortIdle
  /\ IF part = "number" THEN NumberInit ELSE number = NumberIdle
  /\ IF part = "date" THEN DateInit ELSE date = DateIdle
  /\ IF part = "tokens" THEN TokensInit ELSE tokens = TokensIdle
  /\ IF part = "options" THEN OptionsInit ELSE options = OptionsIdle
  /\ TempInit
  /\ IF part = "command" THEN CommandInit ELSE command = CommandIdle
  /\ IF part = "print" THEN PrintInit ELSE plain = PrintIdle
  /\ FileInit
  /\ OutInit /\ (part # "stdout" => stream.kind = "stdout")

SortStep ==
  /\ SortNext
  /\ UNCHANGED <<part, numberVars, dateVars, tokensVars, optionsVars, tempVars,
                 commandVars, printVars, fileVars, outVars>>

NumberStep ==
  /\ CallStrtol
  /\ UNCHANGED <<part, sortVars, dateVars, tokensVars, optionsVars, tempVars,
                 commandVars, printVars, fileVars, outVars>>

DateStep ==
  /\ DateNext
  /\ UNCHANGED <<part, sortVars, numberVars, tokensVars, optionsVars, tempVars,
                 commandVars, printVars, fileVars, outVars>>

TokenStep ==
  /\ Strtok
  /\ UNCHANGED <<part, sortVars, numberVars, dateVars, optionsVars, tempVars,
                 commandVars, printVars, fileVars, outVars>>

OptionStep ==
  /\ (Getopt \/ Restart)
  /\ UNCHANGED <<part, sortVars, numberVars, dateVars, tokensVars, tempVars,
                 commandVars, printVars, fileVars, outVars>>

TempStep ==
  /\ TempNext
  /\ UNCHANGED <<part, sortVars, numberVars, dateVars, tokensVars, optionsVars,
                 commandVars, printVars, fileVars, outVars>>

CommandStep ==
  /\ CommandNext
  /\ UNCHANGED <<part, sortVars, numberVars, dateVars, tokensVars, optionsVars,
                 tempVars, printVars, fileVars, outVars>>

PrintStep ==
  /\ Directive
  /\ UNCHANGED <<part, sortVars, numberVars, dateVars, tokensVars, optionsVars,
                 tempVars, commandVars, fileVars, outVars>>

FileStep ==
  /\ FileNext
  /\ UNCHANGED <<part, sortVars, numberVars, dateVars, tokensVars, optionsVars,
                 tempVars, commandVars, printVars, outVars>>

OutStep ==
  /\ OutNext
  /\ UNCHANGED <<part, sortVars, numberVars, dateVars, tokensVars, optionsVars,
                 tempVars, commandVars, printVars, fileVars>>

Next ==
  \/ part = "sort"    /\ SortStep
  \/ part = "number"  /\ NumberStep
  \/ part = "date"    /\ DateStep
  \/ part = "tokens"  /\ TokenStep
  \/ part = "options" /\ OptionStep
  \/ part = "temp"    /\ TempStep
  \/ part = "command" /\ CommandStep
  \/ part = "print"   /\ PrintStep
  \/ part = "file"    /\ FileStep
  \/ part = "stdout"  /\ OutStep

\* A process that is in the loop of a call is run on.
Fairness == \A p \in Procs : WF_tempVars(part = "temp" /\ Open(p))

Spec == Init /\ [][Next]_vars /\ Fairness
=============================================================================
