-------------------------------- MODULE Printf --------------------------------
(***************************************************************************)
(* One call of snprintf: mini_vfprintf's interpreter of the format, its    *)
(* conversion of numbers of two dwords and its padding, and the saturating *)
(* FILE on the stack that mini_snprintf lets it print to.                  *)
(*                                                                         *)
(* A format is a sequence of directives as the flag and width loops have   *)
(* read them.  A dword holds the numbers below Half; a character is a      *)
(* string of length 1.  Every turn of a loop is a step.  (What mini_fputc  *)
(* does for the other printf functions is the subject of StdioOut.)        *)
(***************************************************************************)
EXTENDS Integers, Sequences

CONSTANTS
  Half,      \* how many values a dword has
  Formats,   \* the formats: sequences of directives
  ArgLists,  \* the dwords behind the format on the stack
  Sizes      \* the size arguments

Flags == {"right", "plus", "zero"}

\* What the flag loop can leave in VAR_pad: '-' or '+', once, then '0's.
Pads == {p \in SUBSET Flags : ~({"right", "plus"} \subseteq p)}

Convs == {"d", "u", "o", "x", "c", "s", "p", "lit"}

\* conv "lit" is an ordinary character, or %%; "p" is one nobody knows; len
\* counts the l's.
Directives == [pad: Pads, width: Nat, len: 0..2, conv: Convs]

ASSUME HalfAssumption    == Half \in Nat /\ Half > 16 /\ Half % 2 = 0
ASSUME FormatsAssumption == Formats \subseteq Seq(Directives)
ASSUME ArgsAssumption    == ArgLists \subseteq Seq(0..Half - 1)
ASSUME SizesAssumption   == Sizes \subseteq Nat

VARIABLES
  format, ap0, size,   \* the arguments of the call
  fmt,      \* the directives still to be read
  ap,       \* the dwords still to be fetched
  pad, width, conv,    \* of the directive being printed
  hi, lo,   \* the number, ECX:EAX
  neg,      \* its sign character, or <<>>
  s,        \* the text in print_buf, or the argument of %s
  stage,    \* where the code is
  mem,      \* the bytes stored at str
  pc        \* REG_VAR_pc, the count it returns

input == <<format, ap0, size>>
vars  == <<format, ap0, size, fmt, ap, pad, width, conv, hi, lo, neg, s, stage, mem, pc>>

-----------------------------------------------------------------------------
DigitChars == <<"0", "1", "2", "3", "4", "5", "6", "7",
                "8", "9", "a", "b", "c", "d", "e", "f">>
BaseOf(c) == CASE c \in {"d", "u"} -> 10 [] c = "o" -> 8 [] c = "x" -> 16
Numeric   == {"d", "u", "o", "x"}

\* The string an argument of %s points to; the character an argument of %c is.
StringAt(p) == IF p = 0 THEN <<"(", "n", "u", "l", "l", ")">> ELSE <<"A", "B">>
CharOf(v)   == <<"C">>

Init ==
  /\ format \in Formats /\ ap0 \in ArgLists /\ size \in Sizes
  /\ fmt = format /\ ap = ap0
  /\ pad = {} /\ width = 0 /\ conv = "lit"
  /\ hi = 0 /\ lo = 0 /\ neg = <<>> /\ s = <<>>
  /\ stage = "next" /\ mem = <<>> /\ pc = 0

\* .buf_end - .buf_write_ptr of the FILE that mini_snprintf makes.
Room(n) == IF n = 0 THEN 0 ELSE n - 1

\* .call_mini_putc to a FILE that is FD_WRITE_SATURATE: a byte that does not
\* fit is dropped, and counted.
Putc(c) ==
  /\ mem' = IF Len(mem) < Room(size) THEN Append(mem, c) ELSE mem
  /\ pc' = pc + 1

Silent == UNCHANGED <<mem, pc>>

\* The bits of a dword that sar 31 leaves.
SignOf(v) == IF v >= Half \div 2 THEN Half - 1 ELSE 0

\* The number of dwords an argument has.
Words(d) == IF d.len = 2 THEN 2 ELSE 1

\* Mutants: a dword that is one too large; no borrow.
NegLoWide(l)        == Half - l
NegHiNoBorrow(h, l) == (Half - h) % Half

\* ECX:EAX negated.
NegLo(l)    == (Half - l) % Half
NegHi(h, l) == (2 * Half - h - (IF l = 0 THEN 0 ELSE 1)) % Half

\* .next_fmtchr at an ordinary character.
Literal ==
  /\ stage = "next" /\ fmt # <<>> /\ Head(fmt).conv = "lit"
  /\ Putc("L")
  /\ fmt' = Tail(fmt)
  /\ UNCHANGED <<input, ap, pad, width, conv, hi, lo, neg, s, stage>>

\* A directive is read and its argument fetched, up to .24 for a number and
\* .do_print_s for text; %c without a width goes out at once, and a conversion
\* nobody knows ends the call.
Fetch ==
  /\ stage = "next" /\ fmt # <<>> /\ Head(fmt).conv # "lit"
  /\ LET d == Head(fmt)
         l == ap[1]
         h == IF d.len = 2 THEN ap[2] ELSE IF d.conv = "d" THEN SignOf(l) ELSE 0
         minus == d.conv = "d" /\ SignOf(h) # 0
     IN
     /\ fmt' = Tail(fmt) /\ ap' = SubSeq(ap, Words(d) + 1, Len(ap))
     /\ pad' = d.pad /\ width' = d.width /\ conv' = d.conv
     /\ hi' = IF minus THEN NegHi(h, l) ELSE h
     /\ lo' = IF minus THEN NegLo(l) ELSE l
     /\ neg' = IF minus THEN <<"-">>
               ELSE IF d.conv = "d" /\ "plus" \in d.pad THEN <<"+">> ELSE <<>>
     /\ s' = CASE d.conv = "s" -> StringAt(l) [] d.conv = "c" -> CharOf(l) [] OTHER -> <<>>
     /\ stage' = CASE d.conv \in Numeric -> "digits"
                   [] d.conv = "p" -> "done"
                   [] d.conv = "c" /\ d.width = 0 -> "next"
                   [] OTHER -> "text"
     /\ IF d.conv = "c" /\ d.width = 0 THEN Putc("C") ELSE Silent
  /\ UNCHANGED input

\* EAX after the second of the two divisions.
Quotient(b) == ((hi % b) * Half + lo) \div b

\* .next_digit: ECX:EAX is divided by the base in two steps.  The loop ends
\* when EAX is 0.
NextDigit ==
  /\ stage = "digits"
  /\ LET b == BaseOf(conv) IN
     /\ hi' = hi \div b
     /\ lo' = Quotient(b)
     /\ s' = <<DigitChars[1 + (((hi % b) * Half + lo) % b)]>> \o s
     /\ stage' = IF Quotient(b) = 0 THEN "sign" ELSE "digits"
  /\ Silent
  /\ UNCHANGED <<input, fmt, ap, pad, width, conv, neg>>

\* Does the sign come before the padding?
SignFirst == width > 0 /\ "zero" \in pad

\* The sign: printed now if zeros follow it, or put in front of the digits.
Sign ==
  /\ stage = "sign"
  /\ IF neg # <<>> /\ SignFirst
       THEN Putc(neg[1]) /\ width' = width - 1 /\ UNCHANGED s
       ELSE s' = neg \o s /\ UNCHANGED width /\ Silent
  /\ stage' = "text"
  /\ UNCHANGED <<input, fmt, ap, pad, conv, hi, lo, neg>>

\* How much the text falls short of the width.
Fill == IF Len(s) < width THEN width - Len(s) ELSE 0

\* .do_print_s up to .13.
Text ==
  /\ stage = "text"
  /\ width' = Fill
  /\ stage' = IF "right" \in pad THEN "copy" ELSE "left"
  /\ Silent
  /\ UNCHANGED <<input, fmt, ap, pad, conv, hi, lo, neg, s>>

PadChar == IF "zero" \in pad THEN "0" ELSE " "

\* A turn of the padding loops: .13 in front of the text, .15 behind it.
Padding(here, next) ==
  /\ stage = here
  /\ IF width > 0
       THEN Putc(PadChar) /\ width' = width - 1 /\ UNCHANGED stage
       ELSE stage' = next /\ Silent /\ UNCHANGED width
  /\ UNCHANGED <<input, fmt, ap, pad, conv, hi, lo, neg, s>>

PadLeft  == Padding("left", "copy")
PadRight == Padding("tail", "next")

\* A turn of the loop .14.
Copy ==
  /\ stage = "copy"
  /\ IF s # <<>>
       THEN Putc(Head(s)) /\ s' = Tail(s) /\ UNCHANGED stage
       ELSE stage' = "tail" /\ Silent /\ UNCHANGED s
  /\ UNCHANGED <<input, fmt, ap, pad, width, conv, hi, lo, neg>>

\* .done at the end of the format; mini_snprintf stores the NUL behind mem
\* unless size is 0.
Done ==
  /\ stage = "next" /\ fmt = <<>>
  /\ stage' = "done"
  /\ UNCHANGED <<input, fmt, ap, pad, width, conv, hi, lo, neg, s, mem, pc>>

Next == \/ Literal \/ Fetch \/ NextDigit \/ Sign
        \/ Text \/ PadLeft \/ Copy \/ PadRight \/ Done

Spec == Init /\ [][Next]_vars
-----------------------------------------------------------------------------
(* What printf has to print, from the numbers themselves. *)

\* The digits of v in base b.
Numeral(v, b) ==
  LET digits[n \in Nat] == IF n < b THEN <<DigitChars[n + 1]>>
                           ELSE Append(digits[n \div b], DigitChars[1 + (n % b)])
  IN digits[v]

\* The number an argument stands for.
ValueOf(d, args) ==
  LET modulus  == IF d.len = 2 THEN Half * Half ELSE Half
      unsigned == IF d.len = 2 THEN args[2] * Half + args[1] ELSE args[1]
  IN IF d.conv = "d" /\ unsigned >= modulus \div 2 THEN unsigned - modulus ELSE unsigned

Magnitude(v) == IF v < 0 THEN -v ELSE v

Times(c, n) == [i \in 1..n |-> c]

\* A directive's text: sign and digits, brought to the width with spaces on
\* one side, or with zeros between the two.
Converted(d, args) ==
  LET v == ValueOf(d, args)
      sign == IF d.conv # "d" THEN <<>>
              ELSE IF v < 0 THEN <<"-">> ELSE IF "plus" \in d.pad THEN <<"+">> ELSE <<>>
      body == CASE d.conv \in Numeric -> Numeral(Magnitude(v), BaseOf(d.conv))
                [] d.conv = "s" -> StringAt(args[1])
                [] d.conv = "c" -> CharOf(args[1])
      long == Len(sign) + Len(body)
      gap  == IF long < d.width THEN d.width - long ELSE 0
  IN CASE "right" \in d.pad -> sign \o body \o Times(" ", gap)
       [] "zero" \in d.pad -> sign \o Times("0", gap) \o body
       [] OTHER -> Times(" ", gap) \o sign \o body

\* The text of directives i.. of format f, whose arguments are args.
Printed(f, args) ==
  LET text[i \in 1..Len(f) + 1, a \in 0..Len(args)] ==
        IF i > Len(f) \/ f[i].conv = "p" THEN <<>>
        ELSE IF f[i].conv = "lit" THEN <<"L">> \o text[i + 1, a]
        ELSE Converted(f[i], SubSeq(args, a + 1, Len(args)))
               \o text[i + 1, a + (IF f[i].len = 2 THEN 2 ELSE 1)]
  IN text[1, 0]

\* Does a partial quotient of %llu, %lld, %llo or %llx have a low dword of 0
\* before it is 0 itself?  The loop stops there.
Vanishes(d, args) ==
  /\ d.conv \in Numeric /\ d.len = 2
  /\ LET b == BaseOf(d.conv)
         stops[n \in Nat] ==
           LET q == n \div b IN q >= Half /\ ((q % Half) = 0 \/ stops[q])
     IN stops[Magnitude(ValueOf(d, args))]

\* The formats C defines and the code is able to print: no %-0, and, for a
\* single directive, no number that vanishes.
Printable ==
  /\ \A i \in 1..Len(format) : ~({"right", "zero"} \subseteq format[i].pad)
  /\ \A i \in 1..Len(format) : format[i].len = 2 => i = 1 /\ ~Vanishes(format[i], ap0)
-----------------------------------------------------------------------------
(* Properties. *)

\* The state's shape.
TypeOK ==
  /\ fmt \in Seq(Directives) /\ ap \in Seq(0..Half - 1)
  /\ pad \in Pads /\ width \in Nat /\ conv \in Convs
  /\ hi \in 0..Half - 1 /\ lo \in 0..Half - 1
  /\ \A i \in 1..Len(s) : s[i] \in STRING
  /\ stage \in {"next", "digits", "sign", "text", "left", "copy", "tail", "done"}
  /\ pc \in Nat

\* snprintf stores the text C asks for, cut off so that the NUL fits, and
\* returns the length of the whole text: signs, widths, padding, all bases,
\* numbers of one and two dwords, and each directive with its own argument.
PrintsRight ==
  stage = "done" /\ Printable =>
    LET text == Printed(format, ap0) IN
    /\ pc = Len(text)
    /\ mem = SubSeq(text, 1, CASE size = 0         -> 0
                              [] size > Len(text) -> Len(text)
                              [] OTHER            -> size - 1)

\* The same, from numbers, widths and a count that stay what they are.
PrintSound == TypeOK /\ PrintsRight

\* The same for every number of two dwords.
LongLongRight ==
  stage = "done" /\ Len(format) = 1 /\ format[1].len = 2 => pc = Len(Printed(format, ap0))
=============================================================================
