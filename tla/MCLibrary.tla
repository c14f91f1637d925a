----------------------------- MODULE MCLibrary ------------------------------
(* Small strings, formats, files, command lines and years for the library.    *)
EXTENDS Library

\* Around the ends of a 4-byte time, 1970, leap years and centuries of both kinds.
MCYears == (1901..1904) \cup (1969..1973) \cup (1999..2004) \cup (2035..2038)
             \cup {-401, -400, -399, -1, 0, 1, 4, 1600, 1700, 1899, 1900, 2099, 2100, 2101, 2399, 2400}

MCTexts == UNION {[1..n -> {"a", ".", ","}] : n \in 0..4}
MCOtherText == <<".", "a", ",", "a">>
MCSeparators == {<<>>, <<".">>, <<",">>, <<".", ",">>}

\* Operands, clusters, arguments in the word and behind it, an unknown option.
MCWords == {<<"x">>, <<"-">>, <<"-", "-">>, <<"-", "a">>, <<"-", "a", "b">>, <<"-", "b", "x">>,
            <<"-", "b">>, <<"-", "c">>, <<"-", "a", "c", "x">>, <<"-", "x", "a">>}
MCOptStrings == {<<"a", "b", ":", "c", ":", ":">>, <<":", "a", "b", ":", "c", ":", ":">>}

Found(kind, uses, mine, binary) == [kind |-> kind, uses |-> uses, mine |-> mine, binary |-> binary]
Everyone == {"owner", "group", "all"}

MCFiles == {Found("none", {}, "all", TRUE), Found("other", Everyone, "owner", TRUE),
            Found("regular", Everyone, "all", TRUE), Found("regular", {"owner"}, "owner", FALSE),
            Found("regular", {"owner"}, "group", TRUE), Found("regular", {"group", "all"}, "owner", TRUE),
            Found("regular", {"group"}, "group", TRUE), Found("regular", {}, "owner", TRUE)}

\* Every conversion with flags and widths around the length of a number, and two
\* directives, of which the first may take no argument or end the call.
Said(pad, width, conv) == [pad |-> pad, width |-> width, conv |-> conv]
MCPrintFormats ==
  {<<Said(pad, width, conv)>> : pad \in PrintPads, width \in {0, 1, 2, 3, 5},
                                conv \in {"d", "u", "o", "x", "c", "s"}}
    \cup {<<Said({}, width, conv), Said({}, 0, "d")>> : width \in {0, 4}, conv \in PrintConvs}
MCPrintArgs == {<<u, 5>> : u \in 0..31}

MCNames    == {"old", "new", "empty"}
MCOriginal == [n \in MCNames |-> IF n = "old" THEN <<7, 8, 9>> ELSE <<>>]
MCOpenings == {<<"old", "read">>, <<"new", "write">>, <<"empty", "read">>}
MCSeeks == {<<-1, "SEEK_SET">>, <<0, "SEEK_SET">>, <<1, "SEEK_SET">>, <<-1, "SEEK_CUR">>,
            <<1, "SEEK_CUR">>, <<0, "SEEK_END">>}
=============================================================================
