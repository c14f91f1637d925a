------------------------------- MODULE MCPrintf -------------------------------
(* Printf with dwords of 32 values: see the .cfg files. *)
EXTENDS Printf

Directive(p, w, n, c) == [pad |-> p, width |-> w, len |-> n, conv |-> c]

\* Every flag and width the loops can read, with every conversion.
Single == {<<Directive(p, w, n, c)>> :
             p \in Pads, w \in {0, 1, 6}, n \in 0..2, c \in {"d", "u", "o", "x"}}
Texts  == {<<Directive(p, w, 0, c)>> : p \in {{}, {"right"}}, w \in {0, 3}, c \in {"c", "s"}}

\* Two directives, the first of which takes one or two dwords, or none.
Pairs  == {<<Directive({}, w, n, c), Directive({}, 0, 0, "d")>> :
             w \in {0, 4}, n \in {0, 2}, c \in {"d", "x", "c", "s", "p"}}
          \union {<<Directive({}, 0, 0, "lit"), Directive({"plus"}, 3, 0, "d"),
                    Directive({}, 0, 0, "lit")>>}

MCFormats  == Single \union Texts \union Pairs
MCArgLists == {<<l, h, 5>> : l \in 0..31, h \in {0, 1, 10, 16, 31}}

\* Long numbers without flags.
LongFormats == {<<Directive({}, 0, 2, c)>> : c \in {"d", "u", "o", "x"}}
=============================================================================
