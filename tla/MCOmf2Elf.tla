------------------------------ MODULE MCOmf2Elf ------------------------------
(* Omf2Elf with the command lines, preambles and records to be checked. *)
EXTENDS Omf2Elf

\* The names of LNAMES 1 to 14.
Names == <<"", "CODE", "DATA", "BSS", "DWARF", "_TEXT", "CONST", "CONST2", "_DATA", "_BSS",
           "YIB", ".debug_info", "FLAT", "DGROUP">>

Segment(name, class, size, align) ==
  [type |-> "SEGDEF", seg_name |-> name, seg_class |-> class, seg_overlay |-> 1, combine |-> 2,
   use32 |-> TRUE, align |-> align, size |-> size]

\* What OpenWatcom emits: the five usual segments, a debug segment and two
\* groups, with CONST and YIB of the given sizes.
Start(sizes) ==
  << [type |-> "LNAMES", names |-> Names],
     Segment(6, 2, 8, 1), Segment(7, 3, sizes[1], 4), Segment(8, 3, sizes[2], 4),
     Segment(9, 3, 4, 4), Segment(10, 4, 4, 4), Segment(11, 3, sizes[3], 4),
     Segment(12, 5, 4, 1),
     [type |-> "GRPDEF", grp_name |-> 14], [type |-> "GRPDEF", grp_name |-> 13] >>

Ledata(seg, ofs, data) == [type |-> "LEDATA", seg |-> seg, ofs |-> ofs, data |-> data]
Name(under, rest)  == [under |-> under, rest |-> rest]
Ext(name)          == [type |-> "EXTDEF", global |-> TRUE, name |-> name]
Pub(global, grp, seg, syms) ==
  [type |-> "PUBDEF", global |-> global, grp |-> grp, seg |-> seg, syms |-> syms]
Symbol(name, value) == [name |-> name, value |-> value]
Fix(ofs, segrel, target, td) ==
  [type |-> "FIXUPP", ofs |-> ofs, bad |-> 0, segrel |-> segrel, target |-> target, td |-> td]

\* Data and a relocation in _TEXT; -fpc, strings in CONST and CONST2; YIB.
MCPreambles ==
  { Start(<<6, 8, 0>>) \o <<Ext(Name(2, "STK")), Ledata(1, 0, <<100, 200>>)>>,
    Start(<<6, 8, 4>>) \o <<Ext(Name(1, "f")), [type |-> "COMENT", floating |-> "c"]>>,
    Start(<<0, 8, 4>>) \o <<Ext(Name(1, "f")), Ledata(6, 0, <<500>>)>>,
    \* Bad segments and groups.
    Start(<<0, 4, 0>>) \o <<Segment(6, 2, 8, 1)>>, Start(<<0, 4, 0>>) \o <<Segment(5, 2, 8, 1)>>,
    <<[type |-> "LNAMES", names |-> Names], Segment(20, 2, 8, 1)>>,
    Start(<<0, 4, 0>>) \o <<[type |-> "GRPDEF", grp_name |-> 13]>>,
    Start(<<0, 4, 0>>) \o <<[type |-> "GRPDEF", grp_name |-> 15]>>,
    <<[type |-> "LNAMES", names |-> Names \o Names \o Names]>>,
    Start(<<0, 4, 0>>) \o <<[type |-> "LINNUM"], [type |-> "OTHER"]>>,
    Start(<<0, 4, 0>>) \o <<Ledata(9, 0, <<100>>)>>, Start(<<0, 4, 0>>) \o <<Ledata(5, 0, <<100>>)>> }

MCFlags == {[mode |-> 0, strip |-> TRUE], [mode |-> 1, strip |-> FALSE], [mode |-> 2, strip |-> FALSE]}

MCBody ==
  { Ledata(2, 0, <<300>>), Ledata(3, 4, <<400>>), Ledata(6, 0, <<600>>),
    Ledata(7, 0, <<700>>),
    [type |-> "LIDATA", seg |-> 4, ofs |-> 0, repeat |-> 4, block |-> 1],
    Ext(Name(1, "g")),
    Pub(TRUE, 2, 1, <<Symbol(Name(1, "f"), 4)>>),
    Pub(FALSE, 1, 2, <<Symbol(Name(0, "a"), 0), Symbol(Name(0, "b"), 4)>>),
    Pub(TRUE, 1, 3, <<Symbol(Name(1, "g"), 0), Symbol(Name(0, "h"), 4)>>),
    Fix(4, TRUE, "seg", 3), Fix(0, FALSE, "ext", 1), Fix(0, TRUE, "seg", 2), Fix(0, TRUE, "seg", 6),
    [type |-> "COMENT", floating |-> "c"], [type |-> "MODEND"] }
=============================================================================
