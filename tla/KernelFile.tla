----------------------------- MODULE KernelFile -----------------------------
(* A regular file, as write(2) changes it: a sequence of bytes. *)
EXTENDS Integers, Sequences

\* Content d after the bytes bs have been written at offset at (a write past
\* the end leaves a hole; a write of nothing changes nothing).
PutAt(d, at, bs) ==
  IF bs = <<>> THEN d
  ELSE LET end == at + Len(bs) IN
       [i \in 1..(IF end > Len(d) THEN end ELSE Len(d)) |->
          IF i > at /\ i <= end THEN bs[i - at]
          ELSE IF i <= Len(d) THEN d[i] ELSE 0]

\* The bytes of a sequence, as a set.
Elems(s) == {s[i] : i \in DOMAIN s}
=============================================================================
