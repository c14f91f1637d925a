------------------------------ MODULE Numbers ------------------------------
(* The conversion of numbers: mini_strtol.  A string is a sequence of         *)
(* character codes, its NUL the code 0 read behind it.  An unsigned long has  *)
(* Width bits.                                                                *)
EXTENDS Integers, Sequences, SequencesExt

CONSTANTS Width,      \* the bits of a long
          Chars,      \* the character codes of the strings
          MaxChars,   \* the longest string
          Bases       \* the bases strtol is called with

ASSUME NumbersAssumption ==
  /\ Width \in 7..20
  /\ Chars \subseteq 1..127
  /\ MaxChars \in Nat
  /\ Bases \subseteq Nat

VARIABLE number      \* the conversion made, its argument and its result

-----------------------------------------------------------------------------
(* mini_strtol.  Positions count from 0.                                      *)

Modulus == 2^Width
HalfModulus == 2^(Width - 1)

At(s, p) == IF p < Len(s) THEN s[p + 1] ELSE 0

my_isspace(c) == c = 32 \/ c \in 9..13

Lower(c) == IF (c \div 32) % 2 = 1 THEN c ELSE c + 32

\* The value of a digit or letter, or of the character after z; 99 for others.
Digit(c) ==
  CASE c \in 48..57               -> c - 48
    [] Lower(c) - 97 \in 0..26    -> Lower(c) - 97 + 10
    [] OTHER                      -> 99

RECURSIVE SpacesFrom(_, _)
SpacesFrom(s, p) == IF my_isspace(At(s, p)) THEN SpacesFrom(s, p + 1) ELSE p

HexPrefix(s, p) == At(s, p) = 48 /\ Lower(At(s, p + 1)) = 120

\* Mutant: a leading 0 does not make a number octal.
BasedDecimal(s, p, base) ==
  CASE base \in {0, 16} /\ HexPrefix(s, p) -> [base |-> 16, p |-> p + 2]
    [] base = 0 /\ ~HexPrefix(s, p)        -> [base |-> 10, p |-> p]
    [] OTHER                               -> [base |-> base, p |-> p]

\* The base in force and the place of the first digit.
Based(s, p, base) ==
  CASE base \in {0, 16} /\ HexPrefix(s, p) -> [base |-> 16, p |-> p + 2]
    [] base = 0 /\ ~HexPrefix(s, p)        -> [base |-> IF At(s, p) = 48 THEN 8 ELSE 10, p |-> p]
    [] OTHER                               -> [base |-> base, p |-> p]

\* The digits from p on, added up in unsigned arithmetic.
RECURSIVE Summed(_, _, _, _, _)
Summed(s, p, base, value, overflow) ==
  LET digit == Digit(At(s, p))
      times == (value * base) % Modulus
      plus  == (times + digit) % Modulus
  IN IF digit >= base THEN [value |-> value, p |-> p, overflow |-> overflow]
     ELSE Summed(s, p + 1, base, plus,
                 overflow \/ value > (Modulus - 1) \div base \/ plus < times)

\* The value as a long: cut at its ends, or negated.
Signed(value, overflow, minus) ==
  IF overflow \/ (value >= HalfModulus /\ ~(value = HalfModulus /\ minus))
  THEN IF minus THEN -HalfModulus ELSE HalfModulus - 1
  ELSE IF minus THEN -value ELSE value

mini_strtol(s, base) ==
  LET first == SpacesFrom(s, 0)
      minus == At(s, first) = 45
      unsigned == IF At(s, first) \in {43, 45} THEN first + 1 ELSE first
      b == Based(s, unsigned, base)
      sum == Summed(s, b.p, b.base, 0, FALSE)
  IN IF b.base \notin 2..36 THEN [value |-> 0, endptr |-> 0]
     ELSE [value  |-> Signed(sum.value, sum.overflow, minus),
           endptr |-> IF sum.p # b.p THEN sum.p ELSE 0]

-----------------------------------------------------------------------------
Strings == UNION {[1..n -> Chars] : n \in 0..MaxChars}

NumberIdle == [phase |-> "idle", string |-> <<>>, base |-> 0, long |-> <<>>]

NumberInit ==
  \E s \in Strings : number = [NumberIdle EXCEPT !.phase = "string", !.string = s]

CallStrtol ==
  /\ number.phase = "string"
  /\ \E base \in Bases :
       number' = [number EXCEPT !.phase = "long", !.base = base, !.long = mini_strtol(number.string, base)]

-----------------------------------------------------------------------------
(* The reference: the subject of a string as the C standard defines it.       *)

\* s is blanks, a sign or none, a prefix that the base allows or none, and
\* digits of a base that goes with it; the sign and the digits are told apart.
Subject(s, base, d) ==
  \E blanks \in 0..Len(s) : \E sign \in {0, 1}, prefix \in {0, 2} :
    LET p == blanks + sign + prefix
        last == IF blanks + sign < Len(s) THEN At(s, blanks + sign) ELSE 0
    IN /\ p < Len(s)
       /\ \A i \in 0..blanks - 1 : my_isspace(At(s, i))
       /\ sign = 1 => At(s, blanks) \in {43, 45}
       /\ prefix = 2 => base \in {0, 16} /\ HexPrefix(s, blanks + sign) /\ d.base = 16
       /\ prefix = 0 /\ base = 0 => d.base = IF last = 48 THEN 8 ELSE 10
       /\ base # 0 => d.base = base
       /\ d.first = p
       /\ d.minus = (sign = 1 /\ At(s, blanks) = 45)
       /\ \A i \in p..Len(s) - 1 : Digit(At(s, i)) < d.base

Readings(base) == [base : {base, 8, 10, 16}, first : 0..MaxChars, minus : BOOLEAN]

\* The number a reading means, with no bound on it.
Meant(s, d) ==
  LET magnitude == FoldLeft(LAMBDA v, c : v * d.base + Digit(c), 0, SubSeq(s, d.first + 1, Len(s)))
  IN IF d.minus THEN -magnitude ELSE magnitude

Clamped(v) == IF v < -HalfModulus THEN -HalfModulus ELSE IF v >= HalfModulus THEN HalfModulus - 1 ELSE v

\* strtol reads the longest beginning of the string that is a number in its
\* base, clamps it to a long, and says where it ended.  0x without a digit behind
\* it is no number to it, though the standard would take the 0.
StrtolReads ==
  number.phase = "long" =>
    LET s == number.string
        base == number.base
        starts == {n \in 0..Len(s) : \E d \in Readings(base) : Subject(SubSeq(s, 1, n), base, d)}
        end == Max(starts)
        d == CHOOSE d \in Readings(base) : Subject(SubSeq(s, 1, end), base, d)
        bare == /\ base \in {0, 16} /\ d.first = end - 1 /\ HexPrefix(s, d.first)
                /\ d.first >= 2 => ~HexPrefix(s, d.first - 2)
    IN IF base \notin {0} \cup 2..36 \/ starts = {} THEN number.long = [value |-> 0, endptr |-> 0]
       ELSE /\ number.long.value = Clamped(Meant(SubSeq(s, 1, end), d))
            /\ number.long.endptr = IF bare THEN 0 ELSE end

=============================================================================
