---------------------------- MODULE PlainPrintf -----------------------------
(* mini_vfprintf as it is linked with the small output streams, in its two    *)
(* forms: the plus form knows the flag + and the conversion o, the noplus     *)
(* form ends at them.  A format is a sequence of directives as the flag and   *)
(* width loops read them, a character is a string of length 1, an argument a  *)
(* number below Words.  What mini_fputc answers is not looked at by the code. *)
EXTENDS Integers, FiniteSets, SequencesExt

CONSTANTS Unsigneds,    \* how many values an argument has
          PrintBuf,     \* the bytes of print_buf
          PrintFormats, \* the formats
          PrintArgs     \* the arguments behind a format

\* One of - and +, then zeros.
PrintPads == {pad \in SUBSET {"right", "plus", "zero"} : ~({"right", "plus"} \subseteq pad)}
PrintConvs == {"d", "u", "o", "x", "c", "s", "lit", "unknown"}

ASSUME PrintAssumption ==
  /\ Unsigneds \in Nat \ {0} /\ Unsigneds % 2 = 0
  /\ PrintBuf \in Nat \ {0}
  /\ PrintFormats \subseteq Seq([pad : PrintPads, width : Nat, conv : PrintConvs])
  /\ PrintArgs \subseteq Seq(0..Unsigneds - 1)

VARIABLE plain          \* the form linked, the format and arguments left, and the output

Numerals == <<"0", "1", "2", "3", "4", "5", "6", "7", "8", "9", "a", "b", "c", "d", "e", "f">>

Base(conv) == CASE conv \in {"d", "u"} -> 10 [] conv = "o" -> 8 [] conv = "x" -> 16

Repeated(c, n) == [i \in 1..n |-> c]

\* What an argument of %s points to.
TextAt(u) == IF u = 0 THEN <<"(", "n", "u", "l", "l", ")">> ELSE <<"A", "B">>

\* The conversions, or the flag, that end the call.
Ends_(form, d) == d.conv = "unknown" \/ (form = "noplus" /\ (d.conv = "o" \/ "plus" \in d.pad))

SignOf(d, u) ==
  CASE d.conv = "d" /\ u >= Unsigneds \div 2                      -> <<"-">>
    [] d.conv = "d" /\ u < Unsigneds \div 2 /\ "plus" \in d.pad   -> <<"+">>
    [] OTHER                                                      -> <<>>

\* The digits, stored from the end of print_buf backwards.
DigitsOf(v, base) ==
  LET f[n \in 0..Unsigneds] == IF n < base THEN <<Numerals[n + 1]>>
                               ELSE Append(f[n \div base], Numerals[(n % base) + 1])
  IN f[v]

\* The bytes that a call of mini_fputc pushes onto the stack lie right in front
\* of print_buf: a character stored there is lost.
Lost == "junk"

\* do_print_s: the text is padded to the width, on the left unless it is told to
\* be on the right.
Padded(d, text, width) ==
  LET fill == IF Len(text) < width THEN width - Len(text) ELSE 0
      pad == Repeated(IF "zero" \in d.pad THEN "0" ELSE " ", fill)
      kept == IF d.conv = "s" \/ Len(text) < PrintBuf THEN text ELSE <<Lost>> \o Tail(text)
  IN CASE "right" \in d.pad -> text \o pad
       [] fill = 0          -> text
       [] OTHER             -> pad \o kept

\* Mutant: the sign stays with the digits behind the zeros.
NumberZeros(d, u) ==
  LET sign == SignOf(d, u)
      digits == DigitsOf(IF sign = <<"-">> THEN Unsigneds - u ELSE u, Base(d.conv))
  IN Padded(d, sign \o digits, d.width)

\* The sign of a number filled up with zeros goes out in front of them.
Number(d, u) ==
  LET sign == SignOf(d, u)
      digits == DigitsOf(IF sign = <<"-">> THEN Unsigneds - u ELSE u, Base(d.conv))
  IN IF sign # <<>> /\ d.width > 0 /\ "zero" \in d.pad
     THEN sign \o Padded(d, digits, d.width - 1)
     ELSE Padded(d, sign \o digits, d.width)

Conversion(d, u) ==
  CASE d.conv = "s" -> Padded(d, TextAt(u), d.width)
    [] d.conv = "c" -> Padded(d, <<"C">>, d.width)
    [] OTHER        -> Number(d, u)

PrintIdle == [phase |-> "idle", form |-> "plus", format |-> <<>>, args |-> <<>>, next |-> 1, used |-> 0,
              out |-> <<>>]

PrintInit == \E form \in {"plus", "noplus"}, format \in PrintFormats, args \in PrintArgs :
  plain = [PrintIdle EXCEPT !.phase = "printing", !.form = form, !.format = format, !.args = args]

\* One directive, or the end of the format.
Directive ==
  /\ plain.phase = "printing"
  /\ LET d == plain.format[plain.next]
     IN IF plain.next > Len(plain.format) \/ Ends_(plain.form, d)
        THEN plain' = [plain EXCEPT !.phase = "printed"]
        ELSE IF d.conv = "lit"
        THEN plain' = [plain EXCEPT !.next = @ + 1, !.out = Append(@, "L")]
        ELSE plain' = [plain EXCEPT !.next = @ + 1, !.used = @ + 1,
                                    !.out = @ \o Conversion(d, plain.args[plain.used + 1])]

-----------------------------------------------------------------------------
(* What C asks for, from the numbers themselves.                              *)

\* A numeral is right when it has no zero in front and adds up to its number.
Stands(digits, v, base) ==
  /\ digits # <<>>
  /\ Len(digits) > 1 => digits[1] # "0"
  /\ \A i \in DOMAIN digits : SelectInSeq(Numerals, LAMBDA c : c = digits[i]) \in 1..base
  /\ FoldLeft(LAMBDA n, c : n * base + SelectInSeq(Numerals, LAMBDA x : x = c) - 1, 0, digits) = v

\* out is the text of a directive: sign, zeros and digits, or a text, with spaces
\* on one side that bring it to the width.
Asked(out, d, u) ==
  \E left, right \in 0..d.width :
    LET body == SubSeq(out, left + 1, Len(out) - right)
        value == IF d.conv = "d" /\ u >= Unsigneds \div 2 THEN Unsigneds - u ELSE u
        sign == CASE d.conv = "d" /\ value # u   -> 1
                  [] d.conv = "d" /\ "plus" \in d.pad -> 1
                  [] OTHER -> 0
    IN /\ left + right < Len(out)
       /\ out = Repeated(" ", left) \o body \o Repeated(" ", right)
       /\ Len(out) >= d.width /\ (left + right > 0 => Len(out) = d.width)
       /\ left > 0 => "right" \notin d.pad /\ "zero" \notin d.pad
       /\ right > 0 => "right" \in d.pad
       /\ CASE d.conv = "s" -> body = TextAt(u)
            [] d.conv = "c" -> body = <<"C">>
            [] OTHER ->
                 /\ sign = 1 => body[1] = IF value # u THEN "-" ELSE "+"
                 /\ \E zeros \in 0..Len(body) - sign :
                      /\ zeros > 0 => "zero" \in d.pad /\ Len(out) = d.width
                      /\ \A i \in sign + 1..sign + zeros : body[i] = "0"
                      /\ Stands(SubSeq(body, sign + zeros + 1, Len(body)), value, Base(d.conv))

\* The formats C defines, whose numbers fit into print_buf with their signs.
Defined(d) ==
  /\ ~({"right", "zero"} \subseteq d.pad)
  /\ d.conv \in {"s", "c"} => "zero" \notin d.pad

Fits(d, u) ==
  d.conv \in {"d", "u", "o", "x"} =>
    LET size == IF SignOf(d, u) = <<"-">> THEN Unsigneds - u ELSE u
    IN Len(SignOf(d, u)) + Len(DigitsOf(size, Base(d.conv))) < PrintBuf

\* Which argument directive i takes: the ones before it took one each, except %%.
Nth(i) == 1 + Cardinality({j \in 1..i - 1 : plain.format[j].conv # "lit"})

\* The output of a call is the texts of its directives one after the other.
AllAsked(fits(_, _)) ==
  LET shown == plain.next - 1
      d == plain.format
  IN /\ plain.phase = "printed"
     /\ \A i \in 1..shown : d[i].conv # "lit" => Defined(d[i]) /\ fits(d[i], plain.args[Nth(i)])
     => \E cuts \in [0..shown -> 0..Len(plain.out)] :
          /\ cuts[0] = 0 /\ cuts[shown] = Len(plain.out)
          /\ \A i \in 1..shown :
               /\ cuts[i - 1] <= cuts[i]
               /\ LET out == SubSeq(plain.out, cuts[i - 1] + 1, cuts[i])
                  IN IF d[i].conv = "lit" THEN out = <<"L">> ELSE Asked(out, d[i], plain.args[Nth(i)])

\* Both forms print what C asks for: signs, widths, padding on either side, all
\* bases, each directive with its own argument, up to the first they do not know;
\* as long as print_buf takes the number with its sign.
PlainPrintsRight == AllAsked(Fits)

\* The same for every number.
PrintBufEnough == AllAsked(LAMBDA d, u : TRUE)
=============================================================================
