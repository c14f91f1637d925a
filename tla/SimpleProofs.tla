---------------------------- MODULE SimpleProofs ----------------------------
(***************************************************************************)
(* Proofs about the small stdio libraries, for every size of their buffers *)
(* and every part of its bytes that a write(2) or read(2) transfers:       *)
(* SimpleOut passes on what it has accepted, and the two implementations   *)
(* of SimpleFile are alike.                                                *)
(***************************************************************************)
EXTENDS SimpleOut, SimpleFile, SequenceTheorems, WellFoundedInduction, TLAPS

\* The struct: which of bufp and bufpf is in use, and that the other one is at
\* bufend.
StreamSet == [kind: OutKinds, p: Nat, pf: Nat, end: Nat, err: BOOLEAN, mode: {FBF, LBF, NBF}]

StructOK(s) ==
  /\ s \in StreamSet
  /\ s.p <= s.end /\ s.pf <= s.end
  /\ s.mode = LBF \/ s.err => s.p = s.end
  /\ s.mode = FBF /\ ~s.err => s.pf = s.end
  /\ s.mode = NBF => s.end = 0

Fine(s, m) == StructOK(s) /\ m \in Seq(Nat) /\ Len(m) = s.end

\* The bytes that wait in the buffer.
Queue(s, m) == SubSeq(m, 1, Waiting(s))

\* What waits in the end if byte b is accepted and nothing gets out.
Queued(s, m, b, took) == IF took THEN Queue(s, m) \o <<b>> ELSE Queue(s, m)

\* Of queue w the first j bytes get out, and those behind the first i still wait;
\* the two are the same but when a write(2) fails.
Moves(w, i, j, wrote, rest) ==
  /\ i \in 0..Len(w) /\ j \in 0..Len(w) /\ i <= j
  /\ wrote = SubSeq(w, 1, j) /\ rest = SubSeq(w, i + 1, Len(w))

\* The bytes after a move of a queue that lay behind the first l bytes of old.
Replays(old, l, i, j, new) ==
  /\ Len(new) = Len(old) + j - i
  /\ \A q \in 1..l + j : new[q] = old[q]
  /\ \A q \in l + j + 1..Len(old) + j - i : new[q] = old[q - j + i]

\* How a call of fputc or fflush may end.
EndOf(s, m, b, o) ==
  /\ o \in [s: StreamSet, m: Seq(Nat), ok: BOOLEAN, wrote: Seq(Nat), took: BOOLEAN]
  /\ Fine(o.s, o.m)
  /\ o.s.end = s.end /\ o.s.mode = s.mode
  /\ o.ok => ~o.s.err
  /\ \E i, j \in Nat : /\ Moves(Queued(s, m, b, o.took), i, j, o.wrote, Queue(o.s, o.m))
                       /\ i = j \/ (o.s.err /\ ~s.err)

\* No byte is skipped: each is the first one or comes behind the one before it.
NoGap(s) == \A q \in 1..Len(s) : /\ s[q] > 0
                                 /\ s[q] = 1 \/ \E r \in 1..q - 1 : s[r] = s[q] - 1

LastIs(s, n) == n > 0 => s # <<>> /\ s[Len(s)] = n

-----------------------------------------------------------------------------
(* Sequences. *)

LEMMA SubSeqOK ==
  ASSUME NEW S, NEW s \in Seq(S), NEW i \in Nat, NEW j \in Nat, j <= Len(s), 0 < i, i <= j + 1
  PROVE  /\ SubSeq(s, i, j) \in Seq(S) /\ Len(SubSeq(s, i, j)) = j + 1 - i
         /\ \A q \in 1..j + 1 - i : SubSeq(s, i, j)[q] = s[i + q - 1]
<1>1. \A q \in i..j : s[q] \in S
  BY ElementOfSeq, LenProperties
<1>2. QED
  BY <1>1, SubSeqProperties

LEMMA SubSeqOfFront ==
  ASSUME NEW S, NEW m \in Seq(S), NEW n \in Nat, n <= Len(m), NEW k \in Nat, k <= n
  PROVE  SubSeq(SubSeq(m, 1, n), 1, k) = SubSeq(m, 1, k) /\ SubSeq(m, 1, k) \in Seq(S)
<1> DEFINE w == SubSeq(m, 1, n)
<1>1. w \in Seq(S) /\ Len(w) = n /\ \A q \in 1..n : w[q] = m[q]
  BY SubSeqOK
<1> HIDE DEF w
<1>2. /\ SubSeq(w, 1, k) \in Seq(S) /\ Len(SubSeq(w, 1, k)) = k
      /\ \A q \in 1..k : SubSeq(w, 1, k)[q] = w[q]
  BY <1>1, SubSeqOK
<1>3. /\ SubSeq(m, 1, k) \in Seq(S) /\ Len(SubSeq(m, 1, k)) = k
      /\ \A q \in 1..k : SubSeq(m, 1, k)[q] = m[q]
  BY SubSeqOK, LenProperties
<1>4. \A q \in 1..k : SubSeq(w, 1, k)[q] = SubSeq(m, 1, k)[q]
  BY <1>1, <1>2, <1>3
<1>5. SubSeq(w, 1, k) = SubSeq(m, 1, k)
  BY <1>2, <1>3, <1>4, SeqEqual
<1>6. QED
  BY <1>3, <1>5 DEF w

\* What still waits after a move.
LEMMA MovesRest ==
  ASSUME NEW w \in Seq(Nat), NEW i, NEW j, NEW wrote, NEW rest, Moves(w, i, j, wrote, rest)
  PROVE  /\ rest \in Seq(Nat) /\ Len(rest) = Len(w) - i
         /\ \A q \in 1..Len(w) - i : rest[q] = w[i + q]
<1>1. i \in Nat /\ i <= Len(w) /\ Len(w) \in Nat
  BY LenProperties DEF Moves
<1>2. i + 1 \in Nat /\ 0 < i + 1 /\ i + 1 <= Len(w) + 1 /\ rest = SubSeq(w, i + 1, Len(w))
  BY <1>1 DEF Moves
<1>3. /\ rest \in Seq(Nat) /\ Len(rest) = Len(w) + 1 - (i + 1)
      /\ \A q \in 1..Len(w) + 1 - (i + 1) : rest[q] = w[i + 1 + q - 1]
  BY <1>1, <1>2, SubSeqOK
<1>4. QED
  BY <1>1, <1>3

\* The queue after a move, place by place, behind what was out.
LEMMA AfterMove ==
  ASSUME NEW a \in Seq(Nat), NEW w \in Seq(Nat), NEW i, NEW j, NEW wrote, NEW rest,
         Moves(w, i, j, wrote, rest)
  PROVE  /\ wrote \in Seq(Nat) /\ rest \in Seq(Nat)
         /\ Replays(a \o w, Len(a), i, j, (a \o wrote) \o rest)
<1>1. /\ i \in Nat /\ j \in Nat /\ i <= j /\ j <= Len(w) /\ i <= Len(w)
      /\ Len(w) \in Nat /\ Len(a) \in Nat
  BY LenProperties DEF Moves
<1>2. /\ wrote \in Seq(Nat) /\ Len(wrote) = j
      /\ \A q \in 1..j : wrote[q] = w[q]
  BY <1>1, SubSeqOK DEF Moves
<1>3. /\ rest \in Seq(Nat) /\ Len(rest) = Len(w) - i
      /\ \A q \in 1..Len(w) - i : rest[q] = w[i + q]
  BY MovesRest
<1>4. /\ a \o w \in Seq(Nat) /\ Len(a \o w) = Len(a) + Len(w)
      /\ \A q \in 1..Len(a) + Len(w) : (a \o w)[q] = IF q <= Len(a) THEN a[q] ELSE w[q - Len(a)]
  BY ConcatProperties
<1>5. /\ a \o wrote \in Seq(Nat) /\ Len(a \o wrote) = Len(a) + j
      /\ \A q \in 1..Len(a) + j : (a \o wrote)[q] = IF q <= Len(a) THEN a[q] ELSE wrote[q - Len(a)]
  BY <1>2, ConcatProperties
<1>6. /\ Len((a \o wrote) \o rest) = Len(a) + j + (Len(w) - i)
      /\ \A q \in 1..Len(a) + j + (Len(w) - i) :
           ((a \o wrote) \o rest)[q] = IF q <= Len(a) + j THEN (a \o wrote)[q] ELSE rest[q - (Len(a) + j)]
  <2> DEFINE aw == a \o wrote
  <2>1. aw \in Seq(Nat) /\ Len(aw) = Len(a) + j
    BY <1>5
  <2> HIDE DEF aw
  <2>2. /\ Len(aw \o rest) = Len(aw) + Len(rest)
        /\ \A q \in 1..Len(aw) + Len(rest) :
             (aw \o rest)[q] = IF q <= Len(aw) THEN aw[q] ELSE rest[q - Len(aw)]
    BY <1>3, <2>1, ConcatProperties
  <2>3. Len(rest) = Len(w) - i
    BY <1>3
  <2>4. QED
    BY <2>1, <2>2, <2>3 DEF aw
<1> DEFINE new == (a \o wrote) \o rest
           old == a \o w
<1>7. \A q \in 1..Len(a) + j : new[q] = old[q]
  <2> TAKE q \in 1..Len(a) + j
  <2>0. q \in Int /\ 1 <= q /\ q <= Len(a) + j /\ q \in 1..Len(a) + j + (Len(w) - i)
    BY <1>1
  <2>1. new[q] = (a \o wrote)[q]
    BY <1>6, <2>0
  <2>2. CASE q <= Len(a)
    BY <1>1, <1>4, <1>5, <2>1, <2>2
  <2>3. CASE q > Len(a)
    <3>1. q - Len(a) \in 1..j
      BY <1>1, <2>3
    <3>2. new[q] = w[q - Len(a)]
      BY <1>1, <1>2, <1>5, <2>1, <2>3, <3>1
    <3>3. QED
      BY <1>1, <1>4, <2>3, <3>2
  <2> HIDE DEF new, old
  <2>4. QED
    BY <1>1, <2>0, <2>2, <2>3
<1>8. \A q \in Len(a) + j + 1..Len(a) + Len(w) + j - i : new[q] = old[q - j + i]
  <2> TAKE q \in Len(a) + j + 1..Len(a) + Len(w) + j - i
  <2> DEFINE t == q - (Len(a) + j)
  <2>1. q \in Int /\ q \in 1..Len(a) + j + (Len(w) - i) /\ ~ (q <= Len(a) + j)
    BY <1>1
  <2>2. t \in 1..Len(w) - i /\ t \in Nat
    BY <1>1, <2>1
  <2>3. new[q] = rest[t]
    BY <1>6, <2>1
  <2> HIDE DEF t, new
  <2>4. new[q] = w[i + t]
    BY <1>3, <2>2, <2>3
  <2> DEFINE k == Len(a) + (i + t)
  <2>5. q - j + i = k
    BY <1>1, <2>1 DEF t
  <2>6. k \in 1..Len(a) + Len(w) /\ ~ (k <= Len(a)) /\ k - Len(a) = i + t
    BY <1>1, <2>2
  <2> HIDE DEF k
  <2>7. old[k] = w[i + t]
    BY <1>4, <2>6
  <2>8. QED
    BY <2>4, <2>5, <2>7
<1> HIDE DEF new, old
<1>9. Len(old) = Len(a) + Len(w) /\ Len(new) = Len(a) + Len(w) + j - i
  BY <1>1, <1>4, <1>6 DEF old, new
<1>10. QED
  <2>1. Len(new) = Len(old) + j - i /\ Len(old) + j - i = Len(a) + Len(w) + j - i
    BY <1>1, <1>9
  <2>2. QED
    BY <1>2, <1>3, <1>7, <1>8, <2>1 DEF old, new, Replays

-----------------------------------------------------------------------------
\* Bytes that are sent again leave no gap, and the last one is the last.
LEMMA SentAgain ==
  ASSUME NEW old \in Seq(Nat), NEW new \in Seq(Nat), NEW l \in Nat, NEW i \in Nat, NEW j \in Nat,
         i <= j, l + j <= Len(old), Replays(old, l, i, j, new),
         NoGap(old), NEW n, LastIs(old, n)
  PROVE  NoGap(new) /\ LastIs(new, n)
<1>0. /\ Len(new) = Len(old) + j - i
      /\ \A q \in 1..l + j : new[q] = old[q]
      /\ \A q \in l + j + 1..Len(old) + j - i : new[q] = old[q - j + i]
  BY DEF Replays
<1>1. Len(old) \in Nat /\ Len(new) \in Nat /\ Len(new) >= Len(old)
  BY <1>0, LenProperties
<1>2. ASSUME NEW q \in 1..Len(new), NEW x \in 1..Len(old), new[q] = old[x], x <= q,
             \A r \in 1..x - 1 : \E t \in 1..q - 1 : new[t] = old[r]
      PROVE  new[q] > 0 /\ (new[q] = 1 \/ \E t \in 1..q - 1 : new[t] = new[q] - 1)
  BY <1>2 DEF NoGap
<1>3. ASSUME NEW q \in 1..Len(new)
      PROVE  new[q] > 0 /\ (new[q] = 1 \/ \E t \in 1..q - 1 : new[t] = new[q] - 1)
  <2>1. CASE q <= l + j
    <3>1. q \in 1..Len(old) /\ new[q] = old[q]
      BY <1>0, <1>1, <2>1
    <3>2. \A r \in 1..q - 1 : new[r] = old[r]
      BY <1>0, <1>1, <2>1
    <3>3. QED
      BY <1>0, <1>1, <1>2, <3>1, <3>2
  <2>2. CASE q > l + j
    <3> DEFINE x == q - j + i
    <3>1. x \in 1..Len(old) /\ x <= q /\ new[q] = old[x]
      <4>1. q \in l + j + 1..Len(old) + j - i
        BY <1>0, <1>1, <2>2
      <4>2. new[q] = old[q - j + i]
        BY <1>0, <4>1
      <4>3. x \in 1..Len(old) /\ x <= q
        BY <1>0, <1>1, <4>1
      <4>4. QED
        BY <4>2, <4>3
    <3>2. ASSUME NEW r \in 1..x - 1 PROVE \E t \in 1..q - 1 : new[t] = old[r]
      <4>1. CASE r <= l + j
        <5>1. r \in 1..l + j /\ r \in 1..q - 1
          BY <1>0, <1>1, <2>2, <4>1
        <5>2. QED
          BY <1>0, <5>1
      <4>2. CASE r > l + j
        <5> DEFINE t == r + j - i
        <5>1. t \in l + j + 1..Len(old) + j - i /\ t \in 1..q - 1 /\ t - j + i = r
          BY <1>0, <1>1, <2>2, <3>1, <4>2
        <5> HIDE DEF t
        <5>2. QED
          BY <1>0, <5>1
      <4>3. QED
        BY <1>0, <4>1, <4>2
    <3> HIDE DEF x
    <3>3. QED
      BY <1>2, <3>1, <3>2
  <2>3. QED
    BY <1>0, <1>1, <2>1, <2>2
<1>4. NoGap(new)
  BY <1>3 DEF NoGap
<1>5. ASSUME n > 0 PROVE new # <<>> /\ new[Len(new)] = n
  <2>1. old # <<>> /\ old[Len(old)] = n
    BY <1>5 DEF LastIs
  <2>2. Len(old) > 0
    BY <1>0, <1>1, <2>1, EmptySeq
  <2>3. CASE Len(new) > l + j
    <3> DEFINE k == Len(new)
    <3>1. k \in l + j + 1..Len(old) + j - i /\ k - j + i = Len(old)
      BY <1>0, <1>1, <2>3
    <3> HIDE DEF k
    <3>2. new[k] = old[Len(old)]
      BY <1>0, <3>1
    <3>3. new # <<>>
      BY <1>0, <1>1, <2>2, EmptySeq
    <3>4. QED
      BY <1>0, <2>1, <3>2, <3>3 DEF k
  <2>4. CASE Len(new) <= l + j
    <3>1. i = j
      BY <1>0, <1>1, <2>4
    <3>2. Len(new) = Len(old) /\ Len(new) \in 1..l + j
      BY <1>0, <1>1, <2>2, <2>4, <3>1
    <3>3. new # <<>>
      BY <2>2, <3>2, EmptySeq
    <3>4. new[Len(new)] = old[Len(new)]
      BY <1>0, <3>2
    <3>5. QED
      BY <1>0, <2>1, <3>2, <3>3, <3>4
  <2>5. QED
    BY <1>0, <1>1, <2>3, <2>4
<1>6. QED
  BY <1>4, <1>5 DEF LastIs
-----------------------------------------------------------------------------
(* Buffers and how calls end. *)

LEMMA WaitingOK ==
  ASSUME NEW s, StructOK(s)
  PROVE  /\ Waiting(s) \in 0..s.end /\ s.end \in Nat /\ s.p \in Nat /\ s.pf \in Nat
         /\ s.mode = LBF => Waiting(s) = s.pf
         /\ ~s.err /\ s.mode # LBF => Waiting(s) = s.p
BY DEF StructOK, StreamSet, Waiting, FBF, LBF, NBF

LEMMA QueueOK ==
  ASSUME NEW s, NEW m, Fine(s, m)
  PROVE  /\ Queue(s, m) \in Seq(Nat) /\ Len(Queue(s, m)) = Waiting(s)
         /\ Waiting(s) = 0 => Queue(s, m) = <<>>
<1>1. Waiting(s) \in Nat /\ Waiting(s) <= Len(m) /\ m \in Seq(Nat)
  BY WaitingOK DEF Fine
<1>2. QED
  BY <1>1, SubSeqOK, SubSeqEmpty DEF Queue

LEMMA EmptiedOK ==
  ASSUME NEW s, StructOK(s), ~s.err
  PROVE  /\ StructOK(Emptied(s)) /\ Waiting(Emptied(s)) = 0
         /\ Emptied(s).end = s.end /\ Emptied(s).mode = s.mode /\ ~Emptied(s).err
         /\ s.mode = LBF => Emptied(s).p = s.end
         /\ s.mode # LBF => Emptied(s).p = 0
BY DEF StructOK, StreamSet, Emptied, Waiting, FBF, LBF, NBF

LEMMA SetErrorOK ==
  ASSUME NEW s, StructOK(s), ~s.err
  PROVE  /\ StructOK(SetError(s)) /\ Waiting(SetError(s)) = Waiting(s)
         /\ SetError(s).end = s.end /\ SetError(s).mode = s.mode /\ SetError(s).err
<1> DEFINE t == SetError(s)
<1>1. /\ t \in StreamSet /\ t.p = s.end /\ t.end = s.end /\ t.mode = s.mode /\ t.err
      /\ t.pf = IF s.mode = FBF THEN s.p ELSE s.pf
  BY DEF StructOK, StreamSet, SetError
<1>2. /\ s \in StreamSet /\ s.p <= s.end /\ s.pf <= s.end /\ (s.mode = LBF => s.p = s.end)
      /\ (s.mode = FBF => s.pf = s.end) /\ (s.mode = NBF => s.end = 0)
      /\ s.mode \in {FBF, LBF, NBF} /\ s.p \in Nat /\ s.pf \in Nat /\ s.end \in Nat
  BY DEF StructOK, StreamSet
<1>3. FBF # LBF /\ FBF # NBF
  BY DEF FBF, LBF, NBF
<1> HIDE DEF t
<1>4. StructOK(t)
  BY <1>1, <1>2 DEF StructOK
<1>5. t.pf = Waiting(s)
  <2>1. CASE s.mode = FBF
    BY <1>1, <1>2, <2>1 DEF Waiting
  <2>2. CASE s.mode # FBF
    BY <1>1, <1>2, <2>2 DEF Waiting
  <2>3. QED
    BY <2>1, <2>2
<1>6. QED
  BY <1>1, <1>4, <1>5 DEF Waiting, t

\* A flush gets out all that waits, or a part and sets the error.
LEMMA FlushEnds ==
  ASSUME NEW s, NEW m, Fine(s, m), NEW b \in Nat, NEW o \in Flushes(s, m)
  PROVE  /\ EndOf(s, m, b, o) /\ o.m = m /\ ~o.took
         /\ o.ok => Waiting(o.s) = 0 /\ ~s.err /\ o.wrote = Queue(s, m)
<1> DEFINE w == Queue(s, m)
<1>1. w \in Seq(Nat) /\ Len(w) = Waiting(s) /\ Waiting(s) \in Nat
  BY QueueOK, WaitingOK DEF Fine
<1>2. StructOK(s) /\ s \in StreamSet /\ m \in Seq(Nat) /\ Len(m) = s.end
  BY DEF Fine, StructOK
<1> HIDE DEF w
<1>3. SubSeq(w, 1, 0) = <<>> /\ SubSeq(w, Len(w) + 1, Len(w)) = <<>> /\ SubSeq(w, 1, Len(w)) = w
  BY <1>1, SubSeqEmpty, SubSeqFull
<1>4. CASE s.err
  <2>1. o = [s |-> s, m |-> m, ok |-> FALSE, wrote |-> <<>>, took |-> FALSE]
    BY <1>4 DEF Flushes
  <2>2. Moves(w, 0, 0, <<>>, w)
    BY <1>1, <1>3 DEF Moves
  <2>3. QED
    BY <1>2, <2>1, <2>2 DEF EndOf, Fine, Queued, w
<1>5. CASE ~s.err
  <2>1. PICK k \in 0..Waiting(s) :
          o = [s |-> IF k = Waiting(s) THEN Emptied(s) ELSE SetError(s), m |-> m,
               ok |-> k = Waiting(s), wrote |-> SubSeq(m, 1, k), took |-> FALSE]
    BY <1>5 DEF Flushes
  <2>2. SubSeq(m, 1, k) = SubSeq(w, 1, k) /\ SubSeq(w, 1, k) \in Seq(Nat)
    <3>1. k \in Nat /\ k <= Waiting(s) /\ Waiting(s) <= Len(m)
      BY <1>1, <1>2, WaitingOK
    <3>2. QED
      BY <1>1, <1>2, <3>1, SubSeqOfFront DEF w, Queue
  <2>3. CASE k = Waiting(s)
    <3>1. o = [s |-> Emptied(s), m |-> m, ok |-> TRUE, wrote |-> w, took |-> FALSE]
      BY <1>1, <1>3, <2>1, <2>2, <2>3
    <3>2. Fine(Emptied(s), m) /\ Waiting(Emptied(s)) = 0 /\ ~Emptied(s).err
      BY <1>2, <1>5, EmptiedOK DEF Fine
    <3>3. Queue(o.s, o.m) = <<>>
      BY <3>1, <3>2, QueueOK
    <3>4. Moves(w, Len(w), Len(w), w, <<>>)
      BY <1>1, <1>3 DEF Moves
    <3>5. QED
      BY <1>1, <1>2, <1>5, <3>1, <3>2, <3>3, <3>4, EmptiedOK DEF EndOf, Fine, StructOK, Queued, w
  <2>4. CASE k # Waiting(s)
    <3>1. o = [s |-> SetError(s), m |-> m, ok |-> FALSE, wrote |-> SubSeq(w, 1, k), took |-> FALSE]
      BY <2>1, <2>2, <2>4
    <3>2. Fine(SetError(s), m) /\ Waiting(SetError(s)) = Waiting(s) /\ SetError(s).err
      BY <1>2, <1>5, SetErrorOK DEF Fine
    <3>3. Queue(o.s, o.m) = w
      BY <3>1, <3>2 DEF Queue, w
    <3>4. Moves(w, 0, k, SubSeq(w, 1, k), w)
      BY <1>1, <1>3, SubSeqFull DEF Moves
    <3>5. QED
      <4>1. o \in [s: StreamSet, m: Seq(Nat), ok: BOOLEAN, wrote: Seq(Nat), took: BOOLEAN]
        BY <1>2, <2>2, <3>1, <3>2 DEF Fine, StructOK
      <4>2. Queued(s, m, b, o.took) = w
        BY <3>1 DEF Queued, w
      <4>3. Moves(Queued(s, m, b, o.took), 0, k, o.wrote, Queue(o.s, o.m)) /\ k \in Nat
        <5>1. o.wrote = SubSeq(w, 1, k) /\ k \in Nat
          BY <1>1, <3>1
        <5>2. QED
          BY <3>3, <3>4, <4>2, <5>1
      <4>4. o.s.err /\ ~s.err /\ ~o.ok /\ ~o.took /\ o.m = m /\ Fine(o.s, o.m)
        BY <1>5, <3>1, <3>2
      <4>5. o.s.end = s.end /\ o.s.mode = s.mode
        BY <1>2, <1>5, <3>1, SetErrorOK
      <4>6. QED
        BY <4>1, <4>3, <4>4, <4>5 DEF EndOf
  <2>5. QED
    BY <2>3, <2>4
<1>6. QED
  BY <1>4, <1>5

\* A byte stored behind the queue, in front of bufp or bufpf.
LEMMA StoredOK ==
  ASSUME NEW m \in Seq(Nat), NEW c \in Nat, c < Len(m), NEW b \in Nat
  PROVE  LET n == [m EXCEPT ![c + 1] = b] IN
         /\ n \in Seq(Nat) /\ Len(n) = Len(m)
         /\ SubSeq(n, 1, c + 1) = SubSeq(m, 1, c) \o <<b>>
<1> DEFINE n == [m EXCEPT ![c + 1] = b]
           w == SubSeq(m, 1, c)
           v == SubSeq(n, 1, c + 1)
<1>1. Len(m) \in Nat /\ c + 1 \in 1..Len(m) /\ c + 1 \in Nat
  BY LenProperties
<1>2. /\ n \in Seq(Nat) /\ Len(n) = Len(m)
      /\ \A j \in 1..Len(m) : n[j] = IF j = c + 1 THEN b ELSE m[j]
  BY <1>1, ExceptSeq
<1> HIDE DEF n
<1>3. w \in Seq(Nat) /\ Len(w) = c /\ \A q \in 1..c : w[q] = m[q]
  BY <1>1, SubSeqOK
<1>4. v \in Seq(Nat) /\ Len(v) = c + 1 /\ \A q \in 1..c + 1 : v[q] = n[q]
  BY <1>1, <1>2, SubSeqOK
<1> HIDE DEF w, v
<1>5. <<b>> \in Seq(Nat) /\ Len(<<b>>) = 1 /\ <<b>>[1] = b
  OBVIOUS
<1>6. /\ w \o <<b>> \in Seq(Nat) /\ Len(w \o <<b>>) = c + 1
      /\ \A q \in 1..c + 1 : (w \o <<b>>)[q] = IF q <= c THEN w[q] ELSE <<b>>[q - c]
  BY <1>3, <1>5, ConcatProperties
<1>7. \A q \in 1..c + 1 : v[q] = (w \o <<b>>)[q]
  <2> TAKE q \in 1..c + 1
  <2>0. v[q] = n[q] /\ q \in 1..Len(m) /\ (w \o <<b>>)[q] = IF q <= c THEN w[q] ELSE <<b>>[q - c]
    <3>1. q \in 1..Len(m)
      BY <1>1
    <3>2. QED
      BY <1>4, <1>6, <3>1
  <2>1. CASE q <= c
    <3>1. q \in 1..c /\ q # c + 1
      BY <2>1
    <3>2. n[q] = m[q] /\ w[q] = m[q]
      BY <1>2, <1>3, <2>0, <3>1
    <3>3. QED
      BY <2>0, <2>1, <3>2
  <2>2. CASE q = c + 1
    <3>1. v[q] = b
      BY <1>2, <2>0, <2>2
    <3>2. q - c = 1 /\ ~ (q <= c)
      BY <2>2
    <3>3. (w \o <<b>>)[q] = <<b>>[1]
      BY <2>0, <3>2
    <3>4. QED
      BY <1>5, <3>1, <3>3
  <2>3. q <= c \/ q = c + 1
    OBVIOUS
  <2>4. QED
    BY <2>1, <2>2, <2>3
<1>8. v = w \o <<b>>
  BY <1>4, <1>6, <1>7, SeqEqual
<1>9. QED
  BY <1>2, <1>8 DEF n, v, w

\* A call of fputc that gets out nothing and takes b.
LEMMA NothingOut ==
  ASSUME NEW s, NEW m, Fine(s, m), NEW b \in Nat, NEW t, NEW n, Fine(t, n),
         t.end = s.end, t.mode = s.mode, ~t.err, Queue(t, n) = Queue(s, m) \o <<b>>
  PROVE  EndOf(s, m, b, [s |-> t, m |-> n, ok |-> TRUE, wrote |-> <<>>, took |-> TRUE])
<1> DEFINE o == [s |-> t, m |-> n, ok |-> TRUE, wrote |-> <<>>, took |-> TRUE]
           w == Queue(t, n)
<1>1. w \in Seq(Nat) /\ Len(w) \in Nat
  BY QueueOK, LenProperties
<1> HIDE DEF w
<1>2. SubSeq(w, 1, 0) = <<>> /\ SubSeq(w, 1, Len(w)) = w
  BY <1>1, SubSeqEmpty, SubSeqFull
<1>3. Moves(w, 0, 0, <<>>, w)
  BY <1>1, <1>2 DEF Moves
<1>4. o \in [s: StreamSet, m: Seq(Nat), ok: BOOLEAN, wrote: Seq(Nat), took: BOOLEAN]
  BY DEF Fine, StructOK
<1>5. Queued(s, m, b, TRUE) = w
  BY DEF Queued, w
<1>6. QED
  BY <1>3, <1>4, <1>5 DEF EndOf, w

LEMMA FullPutEnds ==
  ASSUME NEW s, NEW m, Fine(s, m), NEW b \in Nat, s.p # s.end, NEW o \in FullPut(s, m, b)
  PROVE  EndOf(s, m, b, o) /\ s.mode = FBF
<1> DEFINE t == [s EXCEPT !.p = @ + 1]
           n == [m EXCEPT ![s.p + 1] = b]
<1>1. /\ s \in StreamSet /\ s.p < s.end /\ s.p \in Nat /\ s.end \in Nat
      /\ s.mode = FBF /\ ~s.err /\ s.pf = s.end /\ m \in Seq(Nat) /\ Len(m) = s.end
  BY DEF Fine, StructOK, StreamSet
<1>2. /\ t \in StreamSet /\ t.p = s.p + 1 /\ t.pf = s.pf /\ t.end = s.end /\ t.err = s.err
      /\ t.mode = s.mode
  BY <1>1 DEF StreamSet
<1>3. n \in Seq(Nat) /\ Len(n) = Len(m) /\ SubSeq(n, 1, s.p + 1) = SubSeq(m, 1, s.p) \o <<b>>
  BY <1>1, StoredOK
<1>4. o = [s |-> t, m |-> n, ok |-> TRUE, wrote |-> <<>>, took |-> TRUE]
  BY DEF FullPut
<1> HIDE DEF t, n
<1>5. Fine(t, n)
  BY <1>1, <1>2, <1>3 DEF Fine, StructOK, FBF, LBF, NBF
<1>6. Waiting(t) = s.p + 1 /\ Waiting(s) = s.p
  BY <1>1, <1>2 DEF Waiting
<1>7. Queue(t, n) = Queue(s, m) \o <<b>>
  BY <1>3, <1>6 DEF Queue
<1>8. QED
  BY <1>1, <1>2, <1>4, <1>5, <1>7, NothingOut

\* The line buffer; a newline flushes it.
LEMMA LinePutEnds ==
  ASSUME NEW s, NEW m, Fine(s, m), NEW b \in Nat, s.p = s.end, s.pf # s.end, ~s.err,
         NEW nl \in BOOLEAN, NEW o \in LinePut(s, m, b, nl)
  PROVE  EndOf(s, m, b, o) /\ (o.ok /\ nl => Waiting(o.s) = 0)
<1> DEFINE t == [s EXCEPT !.pf = @ + 1]
           n == [m EXCEPT ![s.pf + 1] = b]
<1>1. /\ s \in StreamSet /\ s.pf < s.end /\ s.pf \in Nat /\ s.end \in Nat
      /\ s.mode = LBF /\ m \in Seq(Nat) /\ Len(m) = s.end
  BY DEF Fine, StructOK, StreamSet
<1>2. /\ t \in StreamSet /\ t.p = s.p /\ t.pf = s.pf + 1 /\ t.end = s.end /\ t.err = s.err
      /\ t.mode = s.mode
  BY <1>1 DEF StreamSet
<1>3. n \in Seq(Nat) /\ Len(n) = Len(m) /\ SubSeq(n, 1, s.pf + 1) = SubSeq(m, 1, s.pf) \o <<b>>
  BY <1>1, StoredOK
<1>4. IF nl THEN \E f \in Flushes(t, n) : o = [f EXCEPT !.took = TRUE]
      ELSE o = [s |-> t, m |-> n, ok |-> TRUE, wrote |-> <<>>, took |-> TRUE]
  BY DEF LinePut
<1> HIDE DEF t, n
<1>5. Fine(t, n)
  BY <1>1, <1>2, <1>3 DEF Fine, StructOK, FBF, LBF, NBF
<1>6. Waiting(t) = s.pf + 1 /\ Waiting(s) = s.pf
  BY <1>1, <1>2 DEF Waiting
<1>7. Queue(t, n) = Queue(s, m) \o <<b>>
  BY <1>3, <1>6 DEF Queue
<1>8. CASE ~nl
  BY <1>2, <1>4, <1>5, <1>7, <1>8, NothingOut
<1>9. CASE nl
  <2>1. PICK f \in Flushes(t, n) : o = [f EXCEPT !.took = TRUE]
    BY <1>4, <1>9
  <2>2. EndOf(t, n, b, f) /\ ~f.took /\ (f.ok => Waiting(f.s) = 0)
    BY <1>5, FlushEnds
  <2>3. f \in [s: StreamSet, m: Seq(Nat), ok: BOOLEAN, wrote: Seq(Nat), took: BOOLEAN]
    BY <2>2 DEF EndOf
  <2>4. /\ o \in [s: StreamSet, m: Seq(Nat), ok: BOOLEAN, wrote: Seq(Nat), took: BOOLEAN]
        /\ o.s = f.s /\ o.m = f.m /\ o.ok = f.ok /\ o.wrote = f.wrote /\ o.took
    BY <2>1, <2>3
  <2>5. Queued(s, m, b, o.took) = Queued(t, n, b, f.took)
    BY <1>7, <2>2, <2>4 DEF Queued
  <2>6. QED
    BY <1>2, <2>2, <2>4, <2>5 DEF EndOf
<1>10. QED
  BY <1>8, <1>9

\* A move of a queue is one of a longer queue, whose front is all out.
LEMMA MovesBehind ==
  ASSUME NEW u \in Seq(Nat), NEW w \in Seq(Nat), NEW i, NEW j, NEW wrote, NEW rest,
         Moves(w, i, j, wrote, rest)
  PROVE  Moves(u \o w, Len(u) + i, Len(u) + j, u \o wrote, rest)
<1> DEFINE v == u \o w
           n == Len(u)
           x == u \o wrote
           y == SubSeq(v, 1, n + j)
           z == SubSeq(v, n + i + 1, Len(v))
<1>1. /\ i \in Nat /\ j \in Nat /\ i <= j /\ j <= Len(w) /\ i <= Len(w)
      /\ Len(w) \in Nat /\ n \in Nat
  BY LenProperties DEF Moves
<1>2. /\ v \in Seq(Nat) /\ Len(v) = n + Len(w)
      /\ \A q \in 1..n + Len(w) : v[q] = IF q <= n THEN u[q] ELSE w[q - n]
  BY ConcatProperties
<1>3. /\ wrote \in Seq(Nat) /\ Len(wrote) = j /\ \A q \in 1..j : wrote[q] = w[q]
  BY <1>1, SubSeqOK DEF Moves
<1>4. /\ rest \in Seq(Nat) /\ Len(rest) = Len(w) - i
      /\ \A q \in 1..Len(w) - i : rest[q] = w[i + q]
  BY MovesRest
<1>5. /\ x \in Seq(Nat) /\ Len(x) = n + j
      /\ \A q \in 1..n + j : x[q] = IF q <= n THEN u[q] ELSE wrote[q - n]
  BY <1>3, ConcatProperties
<1>6. y \in Seq(Nat) /\ Len(y) = n + j /\ \A q \in 1..n + j : y[q] = v[q]
  <2> DEFINE c == n + j
  <2>1. c \in Nat /\ c <= Len(v) /\ 1 <= c + 1 /\ y = SubSeq(v, 1, c)
    BY <1>1, <1>2
  <2> HIDE DEF v, n, y, c
  <2>2. y \in Seq(Nat) /\ Len(y) = c + 1 - 1 /\ \A q \in 1..c + 1 - 1 : y[q] = v[1 + q - 1]
    BY <1>2, <2>1, SubSeqOK
  <2>3. Len(y) = c /\ \A q \in 1..c : y[q] = v[q]
    BY <2>1, <2>2
  <2>4. QED
    BY <2>2, <2>3 DEF c
<1>7. z \in Seq(Nat) /\ Len(z) = Len(w) - i /\ \A q \in 1..Len(w) - i : z[q] = v[n + i + q]
  <2> DEFINE c == n + i + 1
             e == Len(v)
  <2>1. c \in Nat /\ e \in Nat /\ e <= Len(v) /\ c <= e + 1 /\ 0 < c /\ z = SubSeq(v, c, e)
    BY <1>1, <1>2
  <2>2. e + 1 - c = Len(w) - i /\ \A q \in 1..Len(w) - i : c + q - 1 = n + i + q
    BY <1>1, <1>2
  <2> HIDE DEF v, n, z, c, e
  <2>3. /\ z \in Seq(Nat) /\ Len(z) = e + 1 - c
        /\ \A q \in 1..e + 1 - c : z[q] = v[c + q - 1]
    BY <1>2, <2>1, SubSeqOK
  <2>4. QED
    BY <2>2, <2>3
<1> HIDE DEF v, n, x, y, z
<1>8. x = y
  <2>1. ASSUME NEW q \in 1..n + j PROVE x[q] = y[q]
    <3>1. q \in 1..n + Len(w) /\ y[q] = v[q]
      BY <1>1, <1>6
    <3>2. CASE q <= n
      <4>1. v[q] = u[q] /\ x[q] = u[q]
        BY <1>2, <1>5, <3>1, <3>2
      <4>2. QED
        BY <3>1, <4>1
    <3>3. CASE ~ (q <= n)
      <4>1. q - n \in 1..j
        BY <1>1, <3>3
      <4>2. v[q] = w[q - n] /\ x[q] = wrote[q - n]
        BY <1>2, <1>5, <3>1, <3>3
      <4>3. QED
        BY <1>3, <3>1, <4>1, <4>2
    <3>4. QED
      BY <3>2, <3>3
  <2>2. QED
    BY <1>5, <1>6, <2>1, SeqEqual
<1>9. rest = z
  <2>1. ASSUME NEW q \in 1..Len(w) - i PROVE rest[q] = z[q]
    <3> DEFINE k == n + i + q
    <3>1. k \in 1..n + Len(w) /\ ~ (k <= n) /\ k - n = i + q
      BY <1>1
    <3>2. z[q] = v[k]
      BY <1>7
    <3> HIDE DEF k
    <3>3. v[k] = w[i + q]
      BY <1>2, <3>1
    <3>4. QED
      BY <1>4, <3>2, <3>3
  <2>2. QED
    BY <1>4, <1>7, <2>1, SeqEqual
<1>10. n + i \in 0..Len(v) /\ n + j \in 0..Len(v) /\ n + i <= n + j
  BY <1>1, <1>2
<1>11. Moves(v, n + i, n + j, x, rest)
  BY <1>8, <1>9, <1>10 DEF Moves, y, z
<1>12. QED
  BY <1>11 DEF v, n, x

LEMMA RoomPutEnds ==
  ASSUME NEW s, NEW m, Fine(s, m), NEW b \in Nat, ~s.err, s.end > 0, Waiting(s) = 0,
         NEW nl \in BOOLEAN, NEW o \in RoomPut(s, m, b, nl)
  PROVE  EndOf(s, m, b, o) /\ (o.ok /\ nl /\ s.mode = LBF => Waiting(o.s) = 0)
<1>1. CASE s.p # s.end
  BY <1>1, FullPutEnds DEF RoomPut, FBF, LBF
<1>2. CASE s.p = s.end
  <2>1. s.pf # s.end
    BY <1>2 DEF Waiting
  <2>2. o \in LinePut(s, m, b, nl)
    BY <1>2 DEF RoomPut
  <2>3. QED
    BY <1>2, <2>1, <2>2, LinePutEnds
<1>3. QED
  BY <1>1, <1>2

\* The flush of a full buffer, and the byte behind it.
Behind(wrote, o) == [o EXCEPT !.wrote = wrote \o @]

LEMMA BehindEnds ==
  ASSUME NEW s, NEW m, Fine(s, m), NEW b \in Nat, NEW f, NEW o, NEW r,
         EndOf(s, m, b, f), f.ok, ~f.took, f.m = m, f.wrote = Queue(s, m), Waiting(f.s) = 0, ~s.err,
         EndOf(f.s, m, b, o), r = Behind(f.wrote, o)
  PROVE  EndOf(s, m, b, r) /\ r.ok = o.ok /\ r.s = o.s
<1> DEFINE u == Queue(s, m)
           w == Queued(f.s, m, b, o.took)
           O == [s: StreamSet, m: Seq(Nat), ok: BOOLEAN, wrote: Seq(Nat), took: BOOLEAN]
<1>1. u \in Seq(Nat) /\ Len(u) \in Nat
  BY QueueOK, LenProperties
<1>2. Fine(f.s, m) /\ ~f.s.err /\ o \in O
  BY DEF EndOf
<1>3. /\ r \in O /\ r.s = o.s /\ r.m = o.m /\ r.ok = o.ok /\ r.took = o.took
      /\ r.wrote = u \o o.wrote
  <2>1. u \o o.wrote \in Seq(Nat)
    BY <1>1, <1>2, ConcatProperties
  <2>2. QED
    BY <1>2, <2>1 DEF Behind
<1>4. PICK i \in Nat, j \in Nat : /\ Moves(w, i, j, o.wrote, Queue(o.s, o.m))
                                  /\ i = j \/ o.s.err
  BY DEF EndOf
<1>5. w = IF o.took THEN <<b>> ELSE <<>>
  <2>1. Queue(f.s, m) = <<>>
    BY <1>2, QueueOK
  <2>2. <<b>> \in Seq(Nat) /\ <<>> \o <<b>> = <<b>>
    BY ConcatEmptySeq
  <2>3. QED
    BY <2>1, <2>2 DEF Queued
<1>6. w \in Seq(Nat) /\ Len(w) \in Nat
  BY <1>5
<1>7. Queued(s, m, b, r.took) = u \o w
  BY <1>1, <1>3, <1>5, ConcatEmptySeq DEF Queued
<1> HIDE DEF u, w
<1>8. Moves(u \o w, Len(u) + i, Len(u) + j, u \o o.wrote, Queue(o.s, o.m))
  BY <1>1, <1>4, <1>6, MovesBehind
<1>9. /\ Fine(o.s, o.m) /\ o.s.end = s.end /\ o.s.mode = s.mode /\ (o.ok => ~o.s.err)
  BY DEF EndOf
<1>10. Len(u) + i \in Nat /\ Len(u) + j \in Nat /\ (Len(u) + i = Len(u) + j \/ o.s.err)
  BY <1>1, <1>4
<1>11. QED
  BY <1>3, <1>7, <1>8, <1>9, <1>10 DEF EndOf

\* The ways mini_fputc can end.
LEMMA PutsEnds ==
  ASSUME NEW s, NEW m, Fine(s, m), NEW b \in Nat, NEW nl \in BOOLEAN, NEW o \in Puts(s, m, b, nl)
  PROVE  EndOf(s, m, b, o) /\ (o.ok /\ nl /\ s.mode = LBF => Waiting(o.s) = 0)
<1>1. s.p \in Nat /\ s.pf \in Nat /\ s.end \in Nat /\ s.err \in BOOLEAN /\ StructOK(s)
  BY DEF Fine, StructOK, StreamSet
<1>2. CASE s.p # s.end
  BY <1>2, FullPutEnds DEF Puts, FBF, LBF
<1>3. CASE s.p = s.end /\ s.err
  <2>1. o = [s |-> s, m |-> m, ok |-> FALSE, wrote |-> <<>>, took |-> FALSE]
    BY <1>3 DEF Puts
  <2>2. Flushes(s, m) = {o}
    BY <1>3, <2>1 DEF Flushes
  <2>3. QED
    BY <2>1, <2>2, FlushEnds
<1>4. CASE s.p = s.end /\ ~s.err /\ s.pf # s.end
  BY <1>4, LinePutEnds DEF Puts
<1>5. CASE s.p = s.end /\ ~s.err /\ s.pf = s.end /\ s.end > 0
  <2>1. PICK f \in Flushes(s, m) :
          o \in IF f.ok THEN {[x EXCEPT !.wrote = f.wrote \o @] : x \in RoomPut(f.s, m, b, nl)}
                ELSE {f}
    BY <1>5 DEF Puts
  <2>2. /\ EndOf(s, m, b, f) /\ f.m = m /\ ~f.took
        /\ f.ok => Waiting(f.s) = 0 /\ f.wrote = Queue(s, m)
    BY FlushEnds
  <2>3. CASE ~f.ok
    BY <2>1, <2>2, <2>3
  <2>4. CASE f.ok
    <3>1. PICK x \in RoomPut(f.s, m, b, nl) : o = Behind(f.wrote, x)
      BY <2>1, <2>4 DEF Behind
    <3>2. Fine(f.s, m) /\ ~f.s.err /\ f.s.end > 0 /\ f.s.mode = s.mode
      BY <1>5, <2>2, <2>4 DEF EndOf
    <3>3. EndOf(f.s, m, b, x) /\ (x.ok /\ nl /\ s.mode = LBF => Waiting(x.s) = 0)
      BY <2>2, <2>4, <3>2, RoomPutEnds
    <3>4. EndOf(s, m, b, o) /\ o.ok = x.ok /\ o.s = x.s
      BY <1>5, <2>2, <2>4, <3>1, <3>3, BehindEnds
    <3>5. QED
      BY <3>3, <3>4
  <2>5. QED
    BY <2>3, <2>4
<1>6. CASE s.p = s.end /\ ~s.err /\ s.pf = s.end /\ ~ (s.end > 0)
  <2>1. PICK ok \in BOOLEAN :
          o = [s |-> IF ok THEN s ELSE SetError(s), m |-> m, ok |-> ok,
               wrote |-> IF ok THEN <<b>> ELSE <<>>, took |-> ok]
    BY <1>6 DEF Puts
  <2>2. s.end = 0 /\ Waiting(s) = 0 /\ Queue(s, m) = <<>>
    BY <1>1, <1>6, WaitingOK, QueueOK
  <2>3. Fine(SetError(s), m) /\ Waiting(SetError(s)) = 0 /\ SetError(s).err
    BY <1>1, <1>6, <2>2, SetErrorOK DEF Fine
  <2>4. Queue(SetError(s), m) = <<>> /\ <<>> \o <<b>> = <<b>>
    BY <2>3, QueueOK, ConcatEmptySeq
  <2>5. /\ SubSeq(<<b>>, 1, 1) = <<b>> /\ SubSeq(<<b>>, 2, 1) = <<>> /\ Len(<<b>>) = 1
        /\ SubSeq(<<>>, 1, 0) = <<>> /\ Len(<<>>) = 0
    <3>1. <<b>> \in Seq(Nat) /\ Len(<<b>>) = 1 /\ Len(<<>>) = 0
      OBVIOUS
    <3>2. SubSeq(<<b>>, 1, Len(<<b>>)) = <<b>>
      BY <3>1, SubSeqFull
    <3>3. SubSeq(<<b>>, 2, 1) = <<>> /\ SubSeq(<<>>, 1, 0) = <<>>
      BY SubSeqEmpty
    <3>4. QED
      BY <3>1, <3>2, <3>3
  <2>6. Moves(<<b>>, 1, 1, <<b>>, <<>>) /\ Moves(<<>>, 0, 0, <<>>, <<>>)
    BY <2>5 DEF Moves
  <2>7. s \in StreamSet /\ SetError(s) \in StreamSet /\ m \in Seq(Nat)
    BY <2>3 DEF Fine, StructOK
  <2>8. CASE ok
    <3>1. o = [s |-> s, m |-> m, ok |-> TRUE, wrote |-> <<b>>, took |-> TRUE]
      BY <2>1, <2>8
    <3>2. Queued(s, m, b, o.took) = <<b>>
      BY <2>2, <2>4, <3>1 DEF Queued
    <3>3. o \in [s: StreamSet, m: Seq(Nat), ok: BOOLEAN, wrote: Seq(Nat), took: BOOLEAN]
      BY <2>7, <3>1
    <3>4. Moves(Queued(s, m, b, o.took), 1, 1, o.wrote, Queue(o.s, o.m))
      BY <2>2, <2>6, <3>1, <3>2
    <3>5. Fine(o.s, o.m) /\ o.s = s /\ ~o.s.err /\ Waiting(o.s) = 0
      BY <1>6, <2>2, <3>1
    <3>6. QED
      BY <3>3, <3>4, <3>5 DEF EndOf
  <2>9. CASE ~ok
    <3>1. o = [s |-> SetError(s), m |-> m, ok |-> FALSE, wrote |-> <<>>, took |-> FALSE]
      BY <2>1, <2>9
    <3>2. Queued(s, m, b, o.took) = <<>>
      BY <2>2, <3>1 DEF Queued
    <3>3. SetError(s).end = s.end /\ SetError(s).mode = s.mode
      BY <1>1, <1>6, SetErrorOK
    <3>4. o \in [s: StreamSet, m: Seq(Nat), ok: BOOLEAN, wrote: Seq(Nat), took: BOOLEAN]
      BY <2>7, <3>1
    <3>5. Moves(Queued(s, m, b, o.took), 0, 0, o.wrote, Queue(o.s, o.m))
      BY <2>4, <2>6, <3>1, <3>2
    <3>6. Fine(o.s, o.m) /\ o.s = SetError(s) /\ ~o.ok
      BY <2>3, <3>1
    <3>7. QED
      BY <3>3, <3>4, <3>5, <3>6 DEF EndOf
  <2>10. QED
    BY <2>8, <2>9
<1>7. QED
  BY <1>1, <1>2, <1>3, <1>4, <1>5, <1>6

-----------------------------------------------------------------------------
(* The bytes. *)

\* The next byte behind all that were accepted.
LEMMA NextByte ==
  ASSUME NEW s \in Seq(Nat), NEW n \in Nat, NoGap(s), LastIs(s, n)
  PROVE  /\ s \o <<n + 1>> \in Seq(Nat)
         /\ NoGap(s \o <<n + 1>>) /\ LastIs(s \o <<n + 1>>, n + 1)
         /\ s = [i \in 1..n |-> i] => s \o <<n + 1>> = [i \in 1..n + 1 |-> i]
<1> DEFINE b == <<n + 1>>
           t == s \o b
           L == Len(s)
<1>1. b \in Seq(Nat) /\ Len(b) = 1 /\ b[1] = n + 1 /\ L \in Nat
  BY LenProperties
<1> HIDE DEF b
<1>2. /\ t \in Seq(Nat) /\ Len(t) = L + 1
      /\ \A q \in 1..L + 1 : t[q] = IF q <= L THEN s[q] ELSE b[q - L]
  <2>1. /\ t \in Seq(Nat) /\ Len(t) = L + Len(b)
        /\ \A q \in 1..L + Len(b) : t[q] = IF q <= L THEN s[q] ELSE b[q - L]
    BY <1>1, ConcatProperties
  <2> HIDE DEF t, L
  <2>2. QED
    BY <1>1, <2>1
<1> HIDE DEF t, L
<1>3. \A q \in 1..L : t[q] = s[q]
  BY <1>1, <1>2
<1>4. t[L + 1] = n + 1
  <2>1. L + 1 \in 1..L + 1 /\ ~ (L + 1 <= L) /\ L + 1 - L = 1
    BY <1>1
  <2>2. QED
    BY <1>1, <1>2, <2>1
<1>5. NoGap(t)
  <2>1. ASSUME NEW q \in 1..L
        PROVE  t[q] > 0 /\ (t[q] = 1 \/ \E r \in 1..q - 1 : t[r] = t[q] - 1)
    <3>1. t[q] = s[q] /\ \A r \in 1..q - 1 : t[r] = s[r]
      BY <1>1, <1>3, <2>1
    <3>2. s[q] > 0 /\ (s[q] = 1 \/ \E r \in 1..q - 1 : s[r] = s[q] - 1)
      BY <2>1 DEF NoGap, L
    <3>3. QED
      BY <3>1, <3>2
  <2>2. n > 0 => \E r \in 1..L : t[r] = n
    <3>1. ASSUME n > 0 PROVE L \in 1..L /\ s[L] = n
      BY <1>1, <3>1, EmptySeq DEF LastIs, L
    <3>2. QED
      BY <1>3, <3>1
  <2>3. t[L + 1] > 0 /\ (t[L + 1] = 1 \/ \E r \in 1..(L + 1) - 1 : t[r] = t[L + 1] - 1)
    <3>1. (L + 1) - 1 = L /\ (n + 1) - 1 = n /\ n + 1 > 0 /\ (n = 0 \/ n > 0)
      BY <1>1
    <3>2. QED
      BY <1>4, <2>2, <3>1
  <2>4. \A q \in 1..L + 1 : q \in 1..L \/ q = L + 1
    BY <1>1
  <2>5. \A q \in 1..L + 1 : t[q] > 0 /\ (t[q] = 1 \/ \E r \in 1..q - 1 : t[r] = t[q] - 1)
    BY <2>1, <2>3, <2>4
  <2>6. QED
    BY <1>2, <2>5 DEF NoGap
<1>6. LastIs(t, n + 1)
  <2>1. t # <<>>
    BY <1>1, <1>2, EmptySeq
  <2>2. QED
    BY <1>2, <1>4, <2>1 DEF LastIs
<1>7. ASSUME s = [i \in 1..n |-> i] PROVE t = [i \in 1..n + 1 |-> i]
  <2>1. L = n
    BY <1>1, <1>7 DEF L
  <2>2. \A q \in 1..n + 1 : t[q] = q
    BY <1>3, <1>4, <1>7, <2>1
  <2>3. t = [q \in 1..n + 1 |-> t[q]]
    BY <1>2, <2>1, LenProperties
  <2>4. QED
    BY <2>2, <2>3
<1>8. QED
  BY <1>2, <1>5, <1>6, <1>7 DEF t, b

BytesInv ==
  /\ Fine(stream, mem) /\ out \in Seq(Nat) /\ taken \in 0..MaxOut
  /\ failed \in BOOLEAN /\ (stream.err => failed)
  /\ NoGap(PassedOn) /\ LastIs(PassedOn, taken) /\ OutOnce

\* Bytes that are accepted, sent, or sent again.
LEMMA ComesKeeps ==
  ASSUME BytesInv, NEW o, Comes(o), o.took => taken < MaxOut,
         Fine(o.s, o.m), o.took \in BOOLEAN,
         NEW i \in Nat, NEW j \in Nat, i = j \/ (o.s.err /\ ~stream.err),
         Moves(Queued(stream, mem, taken + 1, o.took), i, j, o.wrote, Queue(o.s, o.m))
  PROVE  BytesInv'
<1> DEFINE w == Queued(stream, mem, taken + 1, o.took)
           rest == Queue(o.s, o.m)
           n == IF o.took THEN taken + 1 ELSE taken
           old == out \o w
           new == (out \o o.wrote) \o rest
<1>1. /\ out \in Seq(Nat) /\ taken \in Nat /\ MaxOut \in Nat /\ taken <= MaxOut
      /\ Queue(stream, mem) \in Seq(Nat) /\ PassedOn \in Seq(Nat)
  <2>1. Queue(stream, mem) \in Seq(Nat) /\ out \in Seq(Nat)
    BY QueueOK DEF BytesInv
  <2>2. PassedOn \in Seq(Nat)
    BY <2>1, ConcatProperties DEF PassedOn, Queue
  <2>3. QED
    BY <2>1, <2>2, MaxOutAssumption DEF BytesInv
<1>2. /\ w \in Seq(Nat) /\ NoGap(old) /\ LastIs(old, n)
      /\ ~failed => old = [q \in 1..n |-> q]
  <2>1. CASE o.took
    <3> DEFINE b == <<taken + 1>>
    <3>1. b \in Seq(Nat)
      BY <1>1
    <3>2. w = Queue(stream, mem) \o b /\ n = taken + 1
      BY <2>1 DEF Queued
    <3>3. old = PassedOn \o b
      <4>1. (out \o Queue(stream, mem)) \o b = out \o (Queue(stream, mem) \o b)
        BY <1>1, <3>1, ConcatAssociative
      <4>2. QED
        BY <3>2, <4>1 DEF PassedOn, Queue
    <3>4. w \in Seq(Nat)
      BY <1>1, <3>1, <3>2, ConcatProperties
    <3>5. NoGap(PassedOn) /\ LastIs(PassedOn, taken) /\ (~failed => PassedOn = [q \in 1..taken |-> q])
      BY DEF BytesInv, OutOnce
    <3>6. /\ NoGap(PassedOn \o b) /\ LastIs(PassedOn \o b, taken + 1)
          /\ ~failed => PassedOn \o b = [q \in 1..taken + 1 |-> q]
      BY <1>1, <3>5, NextByte
    <3> HIDE DEF w, old, b
    <3>7. QED
      BY <3>2, <3>3, <3>4, <3>6
  <2>2. CASE ~o.took
    <3>1. w = Queue(stream, mem) /\ n = taken
      BY <2>2 DEF Queued
    <3>2. old = PassedOn
      BY <3>1 DEF PassedOn, Queue
    <3>3. QED
      BY <1>1, <3>1, <3>2 DEF BytesInv, OutOnce
  <2>3. QED
    BY <2>1, <2>2
<1>0. Moves(w, i, j, o.wrote, rest)
  OBVIOUS
<1> HIDE DEF w
<1>3. o.wrote \in Seq(Nat) /\ rest \in Seq(Nat) /\ Replays(old, Len(out), i, j, new)
  <2> DEFINE wrote == o.wrote
  <2>1. Moves(w, i, j, wrote, rest) /\ out \in Seq(Nat) /\ w \in Seq(Nat)
    BY <1>0, <1>1, <1>2
  <2> HIDE DEF wrote, rest
  <2>2. /\ wrote \in Seq(Nat) /\ rest \in Seq(Nat)
        /\ Replays(out \o w, Len(out), i, j, (out \o wrote) \o rest)
    BY <2>1, AfterMove
  <2>3. QED
    BY <2>2 DEF wrote
<1>4. i <= j /\ j <= Len(w) /\ Len(w) \in Nat /\ Len(out) \in Nat
  BY <1>0, <1>1, <1>2, LenProperties DEF Moves
<1>5. old \in Seq(Nat) /\ Len(old) = Len(out) + Len(w)
  BY <1>1, <1>2, ConcatProperties
<1>6. out \o o.wrote \in Seq(Nat) /\ new \in Seq(Nat)
  BY <1>1, <1>3, ConcatProperties
<1>7. /\ stream' = o.s /\ mem' = o.m /\ out' = out \o o.wrote /\ taken' = n
      /\ failed' = (failed \/ (o.s.err /\ ~stream.err))
  BY <1>1 DEF Comes
<1>8. PassedOn' = new
  BY <1>7 DEF PassedOn, Queue, Waiting
<1> HIDE DEF old, new, rest, n
<1>9. NoGap(new) /\ LastIs(new, n)
  <2>1. Len(out) + j <= Len(old)
    BY <1>4, <1>5
  <2>2. QED
    BY <1>2, <1>3, <1>4, <1>5, <1>6, <2>1, SentAgain
<1>10. ASSUME ~failed' PROVE new = [q \in 1..n |-> q]
  <2>1. i = j /\ ~failed
    BY <1>7, <1>10
  <2>0. /\ Len(new) = Len(old) + j - i
        /\ \A q \in 1..Len(out) + j : new[q] = old[q]
        /\ \A q \in Len(out) + j + 1..Len(old) + j - i : new[q] = old[q - j + i]
    BY <1>3 DEF Replays
  <2>2. Len(new) = Len(old)
    BY <1>5, <1>4, <2>0, <2>1
  <2>3. \A q \in 1..Len(new) : new[q] = old[q]
    <3> TAKE q \in 1..Len(new)
    <3>1. CASE q <= Len(out) + j
      BY <1>4, <2>0, <3>1
    <3>2. CASE ~ (q <= Len(out) + j)
      <4>1. q \in Len(out) + j + 1..Len(old) + j - i /\ q - j + i = q
        BY <1>4, <1>5, <2>1, <2>2, <3>2
      <4>2. QED
        BY <2>0, <4>1
    <3>3. QED
      BY <3>1, <3>2
  <2>4. new = old
    BY <1>5, <1>6, <2>2, <2>3, SeqEqual
  <2>5. QED
    BY <1>2, <2>1, <2>4
<1>11. Fine(stream', mem') /\ out' \in Seq(Nat) /\ taken' \in 0..MaxOut
  BY <1>1, <1>6, <1>7 DEF n
<1>12. failed' \in BOOLEAN /\ (stream'.err => failed')
  BY <1>7 DEF BytesInv
<1>13. NoGap(PassedOn)' /\ LastIs(PassedOn, taken)' /\ OutOnce'
  BY <1>7, <1>8, <1>9, <1>10 DEF OutOnce
<1>14. QED
  BY <1>11, <1>12, <1>13 DEF BytesInv, Fine

-----------------------------------------------------------------------------
(* The calls. *)

\* What the last call has told.
ToldInv ==
  /\ OutLines
  /\ told.op = "none" => ~stream.err
  /\ ended => told.op = "exit"
  /\ ended /\ told.ok => Waiting(stream) = 0

OutInv == BytesInv /\ ToldInv

LEMMA CallEnds ==
  ASSUME BytesInv, NEW o, EndOf(stream, mem, taken + 1, o), Comes(o), o.took => taken < MaxOut
  PROVE  BytesInv'
BY ComesKeeps DEF EndOf

LEMMA TakenOK == BytesInv => taken + 1 \in Nat /\ Fine(stream, mem)
BY MaxOutAssumption DEF BytesInv

LEMMA FputcKeeps ==
  ASSUME OutInv, NEW nl \in BOOLEAN, OutFputc(nl)
  PROVE  OutInv'
<1>1. PICK o \in Puts(stream, mem, taken + 1, nl) : Comes(o) /\ Tells("fputc", nl, o.ok)
  BY DEF OutFputc
<1>2. BytesInv /\ taken + 1 \in Nat /\ Fine(stream, mem)
  BY TakenOK DEF OutInv
<1>3. /\ EndOf(stream, mem, taken + 1, o)
      /\ o.ok /\ nl /\ stream.mode = LBF => Waiting(o.s) = 0
  BY <1>2, PutsEnds
<1>4. BytesInv'
  BY <1>1, <1>2, <1>3, CallEnds DEF OutFputc
<1>5. /\ stream' = o.s /\ o.s.mode = stream.mode /\ told' = [op |-> "fputc", nl |-> nl, ok |-> o.ok]
      /\ ~ended'
  BY <1>1, <1>3 DEF Comes, Tells, EndOf, OutFputc
<1>6. ToldInv'
  BY <1>3, <1>5 DEF ToldInv, OutLines, Waiting
<1>7. QED
  BY <1>4, <1>6 DEF OutInv

LEMMA FlushKeeps ==
  ASSUME OutInv, ~ended, NEW o \in Flushes(stream, mem), Comes(o), NEW op \in {"fflush", "setvbuf", "exit"},
         Tells(op, FALSE, o.ok), ended' => op = "exit"
  PROVE  OutInv'
<1>1. BytesInv /\ taken + 1 \in Nat /\ Fine(stream, mem)
  BY TakenOK DEF OutInv
<1>2. EndOf(stream, mem, taken + 1, o) /\ ~o.took /\ (o.ok => Waiting(o.s) = 0)
  BY <1>1, FlushEnds
<1>3. BytesInv'
  BY <1>1, <1>2, CallEnds
<1>4. stream' = o.s /\ told' = [op |-> op, nl |-> FALSE, ok |-> o.ok]
  BY DEF Comes, Tells
<1>5. ToldInv'
  BY <1>2, <1>4 DEF ToldInv, OutLines, Waiting
<1>6. QED
  BY <1>3, <1>5 DEF OutInv

\* The saved place comes back: the queue is the same.
LEMMA ClearerrKeeps ==
  ASSUME OutInv, OutClearerr
  PROVE  OutInv'
<1>1. /\ Fine(stream, mem) /\ StructOK(stream) /\ stream \in StreamSet
      /\ stream.end = 0 \/ (stream.err /\ stream.mode = FBF)
  BY DEF OutInv, BytesInv, OutClearerr, Fine, StructOK
<1>2. /\ stream' \in StreamSet /\ stream'.p = stream.pf /\ stream'.end = stream.end
      /\ stream'.pf = (IF stream.mode = FBF THEN stream.end ELSE stream.pf)
      /\ ~stream'.err /\ stream'.mode = stream.mode
  BY <1>1 DEF OutClearerr, StreamSet
<1>3. StructOK(stream') /\ Waiting(stream') = Waiting(stream)
  <2>1. /\ stream.p \in Nat /\ stream.pf \in Nat /\ stream.end \in Nat /\ stream.p <= stream.end
        /\ stream.pf <= stream.end /\ (stream.err => stream.p = stream.end)
        /\ (stream.mode = NBF => stream.end = 0)
    BY <1>1 DEF StructOK, StreamSet
  <2>2. stream'.p <= stream'.end /\ stream'.pf <= stream'.end
    BY <1>2, <2>1
  <2>3. stream'.mode = LBF => stream'.p = stream'.end
    BY <1>1, <1>2, <2>1 DEF FBF, LBF
  <2>4. StructOK(stream')
    BY <1>2, <2>1, <2>2, <2>3 DEF StructOK
  <2>5. CASE stream.end = 0
    <3>1. stream.p = 0 /\ stream.pf = 0
      BY <2>1, <2>5
    <3>2. stream'.p = 0 /\ stream'.pf = 0
      BY <1>2, <2>5, <3>1
    <3>3. QED
      <4>1. Waiting(stream') = 0
        BY <3>2 DEF Waiting
      <4>2. Waiting(stream) = 0
        BY <3>1 DEF Waiting
      <4>3. QED
        BY <2>4, <4>1, <4>2
  <2>6. CASE stream.err /\ stream.mode = FBF
    <3>1. Waiting(stream) = stream.pf
      BY <2>1, <2>6 DEF Waiting
    <3>2. Waiting(stream') = stream.pf
      BY <1>2, <2>6 DEF Waiting
    <3>3. QED
      BY <2>4, <3>1, <3>2
  <2>7. QED
    BY <1>1, <2>5, <2>6
<1>4. UNCHANGED <<mem, out, taken, failed, ended>> /\ told' = [op |-> "clearerr", nl |-> FALSE, ok |-> TRUE]
      /\ ~ended
  BY DEF OutClearerr, Tells
<1>5. Fine(stream', mem')
  BY <1>1, <1>2, <1>3, <1>4 DEF Fine
<1>6. PassedOn' = PassedOn
  <2>1. PassedOn' = out' \o SubSeq(mem', 1, Waiting(stream'))
    BY DEF PassedOn, Waiting
  <2>2. QED
    BY <1>3, <1>4, <2>1 DEF PassedOn
<1>7. BytesInv'
  <2>1. NoGap(PassedOn)' /\ LastIs(PassedOn, taken)' /\ OutOnce'
    BY <1>4, <1>6 DEF OutInv, BytesInv, NoGap, LastIs, OutOnce
  <2>2. QED
    BY <1>2, <1>4, <1>5, <2>1 DEF OutInv, BytesInv, Fine
<1>8. ToldInv'
  BY <1>4 DEF ToldInv, OutLines
<1>9. QED
  BY <1>7, <1>8 DEF OutInv

\* A new buffer, once the old one is empty.
LEMMA SetvbufKeeps ==
  ASSUME OutInv, NEW mode \in {FBF, LBF, NBF}, NEW n \in UserSizes \union {0}, OutSetvbuf(mode, n)
  PROVE  OutInv'
<1>1. PICK o \in Flushes(stream, mem) :
        IF o.ok
          THEN /\ Comes([o EXCEPT !.s = Rebuffered(@, mode, n), !.m = Junk(n)])
               /\ Tells("setvbuf", FALSE, n > 0 \/ mode = NBF)
          ELSE Comes(o) /\ Tells("setvbuf", FALSE, FALSE)
  BY DEF OutSetvbuf, SetvbufFlushes
<1>2. BytesInv /\ taken + 1 \in Nat /\ Fine(stream, mem) /\ ~ended /\ ~ended' /\ (mode = NBF => n = 0)
      /\ n \in Nat
  BY TakenOK, UserSizesAssumption DEF OutInv, OutSetvbuf
<1>3. /\ EndOf(stream, mem, taken + 1, o) /\ ~o.took
      /\ o.ok => Waiting(o.s) = 0 /\ ~stream.err
  BY <1>2, FlushEnds
<1>4. CASE ~o.ok
  <2>1. Comes(o) /\ Tells("setvbuf", FALSE, o.ok)
    BY <1>1, <1>3, <1>4 DEF EndOf
  <2>2. QED
    BY <1>2, <2>1, FlushKeeps
<1>5. CASE o.ok
  <2> DEFINE r == [o EXCEPT !.s = Rebuffered(@, mode, n), !.m = Junk(n)]
             t == Rebuffered(o.s, mode, n)
  <2>1. o \in [s: StreamSet, m: Seq(Nat), ok: BOOLEAN, wrote: Seq(Nat), took: BOOLEAN]
    BY <1>3 DEF EndOf
  <2>2. o.s \in StreamSet /\ ~o.s.err /\ StructOK(o.s) /\ Fine(o.s, o.m)
    BY <1>3, <1>5 DEF EndOf, Fine, StructOK
  <2>3. /\ t \in StreamSet /\ t.end = n /\ ~t.err
        /\ t.p = (IF mode = LBF THEN n ELSE 0) /\ t.pf = (IF mode = LBF THEN 0 ELSE n)
        /\ t.mode = (IF n = 0 /\ mode # NBF THEN o.s.mode ELSE mode)
    BY <1>2, <2>2 DEF Rebuffered, StreamSet
  <2>4. Junk(n) \in Seq(Nat) /\ Len(Junk(n)) = n
    BY <1>2, IsASeq DEF Junk
  <2> HIDE DEF t
  <2>5. StructOK(t) /\ Waiting(t) = 0
    <3>1. CASE n = 0
      BY <1>2, <2>3, <3>1 DEF StructOK, Waiting
    <3>2. CASE n # 0
      BY <1>2, <2>3, <3>2 DEF StructOK, Waiting, FBF, LBF, NBF
    <3>3. QED
      BY <3>1, <3>2
  <2>6. Fine(t, Junk(n))
    BY <2>3, <2>4, <2>5 DEF Fine
  <2>7. /\ r.s = t /\ r.m = Junk(n) /\ r.wrote = o.wrote /\ ~r.took /\ r.took \in BOOLEAN
    BY <1>3, <2>1 DEF t
  <2>8. Comes(r)
    BY <1>1, <1>5
  <2> HIDE DEF r
  <2>9. Queue(r.s, r.m) = Queue(o.s, o.m)
    <3>1. Queue(r.s, r.m) = <<>>
      BY <2>5, <2>6, <2>7, QueueOK
    <3>2. Queue(o.s, o.m) = <<>>
      BY <1>3, <1>5, <2>2, QueueOK
    <3>3. QED
      BY <3>1, <3>2
  <2>10. PICK i \in Nat, j \in Nat :
           /\ Moves(Queued(stream, mem, taken + 1, o.took), i, j, o.wrote, Queue(o.s, o.m))
           /\ i = j \/ (o.s.err /\ ~stream.err)
    BY <1>3 DEF EndOf
  <2>11. Moves(Queued(stream, mem, taken + 1, r.took), i, j, r.wrote, Queue(r.s, r.m)) /\ i = j
    BY <1>3, <2>2, <2>7, <2>9, <2>10 DEF Queued
  <2>12. BytesInv'
    BY <1>2, <2>6, <2>7, <2>8, <2>11, ComesKeeps
  <2>13. stream' = t /\ told'.op = "setvbuf" /\ ~ended'
    BY <1>1, <1>2, <1>5, <2>7, <2>8 DEF Comes, Tells
  <2>14. ToldInv'
    BY <2>13 DEF ToldInv, OutLines
  <2>15. QED
    BY <2>12, <2>14 DEF OutInv
<1>6. QED
  BY <1>4, <1>5

\* Before anything is written the buffer becomes a line buffer.
LEMMA SetLinebufKeeps ==
  ASSUME OutInv, OutSetLinebuf
  PROVE  OutInv'
<1>1. Fine(stream, mem) /\ stream \in StreamSet /\ stream.mode = FBF /\ StructOK(stream)
  BY DEF OutInv, BytesInv, OutSetLinebuf, Fine, StructOK
<1>2. /\ stream' \in StreamSet /\ stream'.mode = LBF /\ stream'.pf = stream.p
      /\ stream'.p = stream.end /\ stream'.end = stream.end /\ stream'.err = stream.err
  BY <1>1 DEF OutSetLinebuf, StreamSet, FBF, LBF, NBF
<1>3. UNCHANGED <<mem, out, taken, failed, told, ended>> /\ told.op = "none"
  BY DEF OutSetLinebuf
<1>4. /\ ~stream.err /\ stream.pf = stream.end /\ stream.p <= stream.end
      /\ stream.p \in Nat /\ stream.end \in Nat
  BY <1>1, <1>3 DEF OutInv, ToldInv, StructOK, StreamSet
<1>5. StructOK(stream') /\ Waiting(stream') = stream.p /\ Waiting(stream) = stream.p
  BY <1>1, <1>2, <1>4 DEF StructOK, Waiting, FBF, LBF, NBF
<1>6. PassedOn' = PassedOn
  <2>1. PassedOn' = out' \o SubSeq(mem', 1, Waiting(stream'))
    BY DEF PassedOn, Waiting
  <2>2. QED
    BY <1>3, <1>5, <2>1 DEF PassedOn
<1>7. BytesInv'
  <2>1. NoGap(PassedOn)' /\ LastIs(PassedOn, taken)' /\ OutOnce'
    BY <1>3, <1>6 DEF OutInv, BytesInv, NoGap, LastIs, OutOnce
  <2>2. QED
    BY <1>2, <1>3, <1>5, <2>1 DEF OutInv, BytesInv, Fine
<1>8. ToldInv'
  BY <1>2, <1>3, <1>4 DEF OutInv, ToldInv, OutLines
<1>9. QED
  BY <1>7, <1>8 DEF OutInv

LEMMA OutNextKeeps == OutInv /\ OutNext => OutInv'
<1> SUFFICES ASSUME OutInv, OutNext PROVE OutInv'
  OBVIOUS
<1>1. CASE \E nl \in BOOLEAN : OutFputc(nl)
  BY <1>1, FputcKeeps
<1>2. CASE OutFflush
  <2>1. PICK o \in Flushes(stream, mem) : Comes(o) /\ Tells("fflush", FALSE, o.ok)
    BY <1>2 DEF OutFflush
  <2>2. ~ended /\ ~ended'
    BY <1>2 DEF OutFflush
  <2>3. QED
    BY <2>1, <2>2, FlushKeeps
<1>3. CASE OutClearerr
  BY <1>3, ClearerrKeeps
<1>4. CASE \E mode \in {FBF, LBF, NBF}, n \in UserSizes \union {0} : OutSetvbuf(mode, n)
  BY <1>4, SetvbufKeeps
<1>5. CASE OutSetLinebuf
  BY <1>5, SetLinebufKeeps
<1>6. CASE OutFlushall
  <2>1. PICK o \in Flushes(stream, mem) : Comes(o) /\ Tells("exit", FALSE, o.ok)
    BY <1>6 DEF OutFlushall, ExitFlushes
  <2>2. ~ended
    BY <1>6 DEF OutFlushall
  <2>3. QED
    BY <2>1, <2>2, FlushKeeps
<1>7. QED
  BY <1>1, <1>2, <1>3, <1>4, <1>5, <1>6 DEF OutNext

LEMMA OutInitOK == OutInit => OutInv
<1> SUFFICES ASSUME OutInit PROVE OutInv
  OBVIOUS
<1>1. PICK k \in OutKinds : stream = OutStruct(k) /\ mem = Junk(OutStruct(k).end)
  BY DEF OutInit
<1> DEFINE n == IF k = "stdout" THEN StdoutSize ELSE 0
<1>2. n \in Nat
  BY StdoutSizeAssumption
<1>3. stream = [kind |-> k, p |-> 0, pf |-> n, end |-> n, err |-> FALSE, mode |-> FBF] /\ mem = Junk(n)
  BY <1>1 DEF OutStruct
<1> HIDE DEF n
<1>4. StructOK(stream) /\ stream.end = n /\ ~stream.err /\ Waiting(stream) = 0
  <2>1. StructOK(stream)
    BY <1>2, <1>3 DEF StructOK, StreamSet, FBF, LBF, NBF
  <2>2. QED
    BY <1>2, <1>3, <2>1 DEF Waiting
<1>5. Junk(n) \in Seq(Nat) /\ Len(Junk(n)) = n
  BY <1>2, IsASeq DEF Junk
<1>6. Fine(stream, mem)
  BY <1>3, <1>4, <1>5 DEF Fine
<1>7. Queue(stream, mem) = <<>> /\ out = <<>> /\ taken = 0
  BY <1>4, <1>6, QueueOK DEF OutInit
<1>8. PassedOn = <<>>
  BY <1>7, ConcatEmptySeq DEF PassedOn, Queue
<1>9. [i \in 1..0 |-> i] = <<>>
  OBVIOUS
<1>10. BytesInv
  <2>1. NoGap(PassedOn) /\ LastIs(PassedOn, taken) /\ OutOnce
    BY <1>7, <1>8, <1>9 DEF NoGap, LastIs, OutOnce
  <2>2. QED
    <3>1. taken \in 0..MaxOut /\ out \in Seq(Nat)
      BY <1>7, MaxOutAssumption
    <3>2. failed = FALSE
      BY DEF OutInit
    <3>3. QED
      BY <1>4, <1>6, <2>1, <3>1, <3>2 DEF BytesInv
<1>11. ToldInv
  BY <1>4 DEF ToldInv, OutLines, OutInit
<1>12. QED
  BY <1>10, <1>11 DEF OutInv

LEMMA OutInvAlways == OutSpec => []OutInv
<1>1. OutInv /\ UNCHANGED outVars => OutInv'
  <2> SUFFICES ASSUME OutInv, UNCHANGED outVars PROVE OutInv'
    OBVIOUS
  <2>1. UNCHANGED <<stream, mem, out, taken, failed, told, ended>>
    BY DEF outVars
  <2>2. BytesInv'
    BY <2>1 DEF OutInv, BytesInv, OutOnce, PassedOn, Waiting, NoGap, LastIs
  <2>3. ToldInv'
    BY <2>1 DEF OutInv, ToldInv, OutLines, Waiting
  <2>4. QED
    BY <2>2, <2>3 DEF OutInv
<1>2. QED
  BY <1>1, OutInitOK, OutNextKeeps, PTL DEF OutSpec

LEMMA OutInvRight == OutInv => OutRight
<1> SUFFICES ASSUME OutInv PROVE OutRight
  OBVIOUS
<1>1. /\ OutOnce /\ OutLines /\ NoGap(PassedOn) /\ LastIs(PassedOn, taken)
      /\ ended /\ told.ok => Waiting(stream) = 0
      /\ Fine(stream, mem) /\ out \in Seq(Nat)
  BY DEF OutInv, BytesInv, ToldInv
<1>2. OutNoGap
  <2>1. ASSUME taken > 0 PROVE \E q \in 1..Len(PassedOn) : PassedOn[q] = taken
    <3>1. PassedOn # <<>> /\ PassedOn[Len(PassedOn)] = taken
      BY <1>1, <2>1 DEF LastIs
    <3>2. PassedOn \in Seq(Nat)
      BY <1>1, QueueOK, ConcatProperties DEF PassedOn, Queue
    <3>3. Len(PassedOn) \in Nat \ {0}
      BY <3>1, <3>2, EmptySeq
    <3>4. QED
      BY <3>1, <3>3
  <2>2. QED
    BY <1>1, <2>1 DEF OutNoGap, NoGap
<1>3. OutDelivered
  <2>1. ASSUME ended, told.ok, taken > 0 PROVE out # <<>> /\ out[Len(out)] = taken
    <3>1. Queue(stream, mem) = <<>>
      BY <1>1, <2>1, QueueOK
    <3>2. PassedOn = out
      BY <1>1, <3>1, ConcatEmptySeq DEF PassedOn, Queue
    <3>3. QED
      BY <1>1, <2>1, <3>2 DEF LastIs
  <2>2. QED
    BY <2>1 DEF OutDelivered
<1>4. QED
  BY <1>1, <1>2, <1>3 DEF OutRight

\* Whatever part of its bytes a write(2) takes: what fputc has accepted is on the
\* descriptor or in the buffer, in order, once while nothing fails and without a
\* gap afterwards, a line is out in time, and all is out when the program ends.
THEOREM OutRightHolds == OutSpec => []OutRight
BY OutInvAlways, OutInvRight, PTL

-----------------------------------------------------------------------------
(***************************************************************************)
(* SimpleFile.  Next to the struct and the kernel's offset of every open   *)
(* file, the invariant says where the unbuffered one stands: where the     *)
(* buffered one would be if its buffer were flushed.                       *)
(***************************************************************************)
IsOpen(f) == dire[f] # "closed"
BufStructs == [ptr: Nat, last: Nat, off: Nat, buf: Seq(Nat)]

\* A struct, of a stream that is read or written, and the offset k of its descriptor.
GoodStruct(mode, s, k) ==
  /\ s \in BufStructs /\ k \in Nat
  /\ s.ptr <= FileBufSize /\ s.last <= FileBufSize
  /\ mode = "write" => s.off = k /\ Len(s.buf) = s.ptr
  /\ mode = "read" => s.ptr <= s.last /\ Len(s.buf) = s.last

\* What is in the buffer of a stream that is read is what precedes k in file d.
Ahead(s, k, d) ==
  /\ s.off + s.last = k
  /\ s.buf = Bytes(d, s.off, s.last)
  /\ s.last > 0 => k <= Len(d)

\* The file d once the buffer is flushed.
Content(mode, s, k, d) == IF mode = "write" THEN PutAt(d, k, s.buf) ELSE d

\* The unbuffered one is at uk, and its file is ud.
Twin(mode, s, k, d, uk, ud) == uk = s.off + s.ptr /\ ud = Content(mode, s, k, d)

Contents == [Names -> Seq(Nat)]

FileTypes ==
  /\ dire \in [Structs -> {"closed", "read", "write"}]
  /\ path \in [Structs -> Names \union {SomeName}]
  /\ DOMAIN bst = Structs /\ DOMAIN bkoff = Structs
  /\ bdisk \in Contents
  /\ un \in [koff: [Structs -> Nat], disk: Contents]
  /\ written \in Nat /\ apart \in BOOLEAN

\* Every open struct.
StructsOK ==
  \A f \in Structs : IsOpen(f) =>
    /\ path[f] \in Names
    /\ GoodStruct(dire[f], bst[f], bkoff[f])
    /\ dire[f] = "read" /\ f \notin strayed => Ahead(bst[f], bkoff[f], bdisk[path[f]])
    /\ over /\ dire[f] = "write" => bst[f].buf = <<>>

\* No file is open twice.
OpenOnce ==
  \A f, g \in Structs : IsOpen(f) /\ IsOpen(g) /\ path[f] = path[g] => f = g

StrayedApart == strayed \subseteq Structs /\ (strayed # {} => apart)

\* The other one, as long as nothing has failed.
Alike ==
  ~apart =>
    /\ agree
    /\ \A f \in Structs : IsOpen(f) =>
         Twin(dire[f], bst[f], bkoff[f], bdisk[path[f]], un.koff[f], un.disk[path[f]])
    /\ \A n \in Names : (\A f \in Structs : IsOpen(f) => path[f] # n) => un.disk[n] = bdisk[n]

FileInv == FileTypes /\ StructsOK /\ OpenOnce /\ StrayedApart /\ Alike

-----------------------------------------------------------------------------
LEMMA PutAtOK ==
  ASSUME NEW d \in Seq(Nat), NEW at \in Nat, NEW bs \in Seq(Nat), bs # <<>>
  PROVE  /\ PutAt(d, at, bs) \in Seq(Nat)
         /\ Len(PutAt(d, at, bs)) = IF at + Len(bs) > Len(d) THEN at + Len(bs) ELSE Len(d)
         /\ \A i \in 1..Len(PutAt(d, at, bs)) :
              PutAt(d, at, bs)[i] = IF i > at /\ i <= at + Len(bs) THEN bs[i - at]
                                    ELSE IF i <= Len(d) THEN d[i] ELSE 0
<1> DEFINE end == at + Len(bs)
           n == IF end > Len(d) THEN end ELSE Len(d)
           e == [i \in 1..n |-> IF i > at /\ i <= end THEN bs[i - at]
                                ELSE IF i <= Len(d) THEN d[i] ELSE 0]
<1>1. Len(d) \in Nat /\ Len(bs) \in Nat /\ n \in Nat
  BY LenProperties
<1>2. PutAt(d, at, bs) = e
  BY DEF PutAt
<1>3. \A i \in 1..n : (IF i > at /\ i <= end THEN bs[i - at]
                       ELSE IF i <= Len(d) THEN d[i] ELSE 0) \in Nat
  BY <1>1, ElementOfSeq
<1> HIDE DEF n
<1>4. e \in Seq(Nat)
  BY <1>1, <1>3, IsASeq
<1>5. DOMAIN e = 1..n
  OBVIOUS
<1>6. Len(e) \in Nat /\ DOMAIN e = 1..Len(e)
  <2> HIDE DEF e
  <2>1. QED
    BY <1>4, LenProperties
<1>7. Len(e) = n
  <2> HIDE DEF e
  <2>1. QED
    BY <1>1, <1>5, <1>6
<1>8. \A i \in 1..n : e[i] = IF i > at /\ i <= at + Len(bs) THEN bs[i - at]
                             ELSE IF i <= Len(d) THEN d[i] ELSE 0
  OBVIOUS
<1>9. n = IF at + Len(bs) > Len(d) THEN at + Len(bs) ELSE Len(d)
  BY DEF n
<1> HIDE DEF e
<1>10. QED
  BY <1>2, <1>4, <1>7, <1>8, <1>9

LEMMA PutAtNothing ==
  ASSUME NEW d, NEW at
  PROVE  PutAt(d, at, <<>>) = d
BY DEF PutAt

LEMMA PutAtType ==
  ASSUME NEW d \in Seq(Nat), NEW at \in Nat, NEW bs \in Seq(Nat)
  PROVE  PutAt(d, at, bs) \in Seq(Nat)
<1>1. CASE bs = <<>>
  BY <1>1, PutAtNothing
<1>2. CASE bs # <<>>
  BY <1>2, PutAtOK
<1>3. QED
  BY <1>1, <1>2

\* Two writes, the second one where the first ended, are one.
LEMMA PutAtTwice ==
  ASSUME NEW d \in Seq(Nat), NEW at \in Nat, NEW a \in Seq(Nat), NEW b \in Seq(Nat)
  PROVE  PutAt(PutAt(d, at, a), at + Len(a), b) = PutAt(d, at, a \o b)
<1>0. /\ a \o b \in Seq(Nat) /\ Len(a \o b) = Len(a) + Len(b)
      /\ \A q \in 1..Len(a) + Len(b) : (a \o b)[q] = IF q <= Len(a) THEN a[q] ELSE b[q - Len(a)]
      /\ Len(a) \in Nat /\ Len(b) \in Nat /\ Len(d) \in Nat
  BY ConcatProperties, LenProperties
<1>1. CASE b = <<>>
  BY <1>1, PutAtNothing, ConcatEmptySeq
<1>2. CASE a = <<>>
  <2>1. Len(a) = 0 /\ a \o b = b
    BY <1>2, EmptySeq, ConcatEmptySeq
  <2>2. at + Len(a) = at
    BY <2>1
  <2>3. QED
    BY <1>2, <2>1, <2>2, PutAtNothing
<1>3. CASE a # <<>> /\ b # <<>>
  <2> DEFINE c  == a \o b
             d1 == PutAt(d, at, a)
             d2 == PutAt(d1, at + Len(a), b)
             d3 == PutAt(d, at, c)
             mid == at + Len(a)
  <2>1. Len(a) > 0 /\ Len(b) > 0 /\ c \in Seq(Nat) /\ Len(c) = Len(a) + Len(b) /\ c # <<>>
    BY <1>0, <1>3, EmptySeq
  <2>c. \A q \in 1..Len(a) + Len(b) : c[q] = IF q <= Len(a) THEN a[q] ELSE b[q - Len(a)]
    BY <1>0
  <2>2. mid \in Nat /\ mid = at + Len(a)
    BY <1>0
  <2> HIDE DEF c, mid
  <2>3. /\ d1 \in Seq(Nat)
        /\ Len(d1) = IF mid > Len(d) THEN mid ELSE Len(d)
        /\ \A i \in 1..Len(d1) : d1[i] = IF i > at /\ i <= mid THEN a[i - at]
                                         ELSE IF i <= Len(d) THEN d[i] ELSE 0
    BY <1>3, <2>2, PutAtOK
  <2>4. d2 = PutAt(d1, mid, b)
    BY DEF mid
  <2> HIDE DEF d1, d2
  <2>p. /\ PutAt(d1, mid, b) \in Seq(Nat)
        /\ Len(PutAt(d1, mid, b)) = IF mid + Len(b) > Len(d1) THEN mid + Len(b) ELSE Len(d1)
        /\ \A i \in 1..Len(PutAt(d1, mid, b)) :
             PutAt(d1, mid, b)[i] = IF i > mid /\ i <= mid + Len(b) THEN b[i - mid]
                                    ELSE IF i <= Len(d1) THEN d1[i] ELSE 0
    BY <1>3, <2>2, <2>3, PutAtOK
  <2>5. /\ d2 \in Seq(Nat)
        /\ Len(d2) = IF mid + Len(b) > Len(d1) THEN mid + Len(b) ELSE Len(d1)
        /\ \A i \in 1..Len(d2) : d2[i] = IF i > mid /\ i <= mid + Len(b) THEN b[i - mid]
                                         ELSE IF i <= Len(d1) THEN d1[i] ELSE 0
    BY <2>4, <2>p
  <2>6. /\ d3 \in Seq(Nat)
        /\ Len(d3) = IF at + Len(c) > Len(d) THEN at + Len(c) ELSE Len(d)
        /\ \A i \in 1..Len(d3) : d3[i] = IF i > at /\ i <= at + Len(c) THEN c[i - at]
                                         ELSE IF i <= Len(d) THEN d[i] ELSE 0
    BY <2>1, PutAtOK
  <2> HIDE DEF d3
  <2>l. /\ Len(a) \in Nat /\ Len(b) \in Nat /\ Len(d) \in Nat /\ Len(d1) \in Nat
        /\ Len(a) > 0 /\ Len(b) > 0 /\ at + Len(c) = mid + Len(b) /\ mid = at + Len(a)
        /\ Len(d1) = IF mid > Len(d) THEN mid ELSE Len(d)
        /\ Len(d2) = IF mid + Len(b) > Len(d1) THEN mid + Len(b) ELSE Len(d1)
        /\ Len(d3) = IF mid + Len(b) > Len(d) THEN mid + Len(b) ELSE Len(d)
    <3>1. /\ Len(a) \in Nat /\ Len(b) \in Nat /\ Len(d) \in Nat /\ Len(d1) \in Nat
      BY <2>3, LenProperties
    <3>2. at + Len(c) = mid + Len(b)
      BY <2>1, <2>2, <3>1
    <3>3. QED
      BY <2>1, <2>2, <2>3, <2>5, <2>6, <3>1, <3>2
  <2>7. Len(d2) = Len(d3)
    BY <2>2, <2>l
  <2>8. ASSUME NEW i \in 1..Len(d3) PROVE d2[i] = d3[i]
    <3>1. i \in Int /\ 1 <= i /\ i \in 1..Len(d2) /\ i \in 1..Len(d3) /\ i <= Len(d3) /\ Len(d3) \in Nat
      BY <2>6, <2>7, LenProperties
    <3>2. CASE i > mid /\ i <= mid + Len(b)
      <4>1. d2[i] = b[i - mid]
        BY <2>5, <3>1, <3>2
      <4>2. d3[i] = c[i - at]
        BY <1>0, <2>1, <2>2, <2>6, <3>1, <3>2
      <4>3. i - at \in 1..Len(a) + Len(b) /\ i - at > Len(a) /\ (i - at) - Len(a) = i - mid
        BY <2>2, <2>l, <3>1, <3>2
      <4>4. ~(i - at <= Len(a))
        BY <2>2, <2>l, <3>1, <4>3
      <4>5. c[i - at] = b[(i - at) - Len(a)]
        BY <2>c, <4>3, <4>4
      <4>6. QED
        BY <4>1, <4>2, <4>3, <4>5
    <3>3. CASE i > at /\ i <= mid
      <4>1. i \in 1..Len(d1) /\ i <= Len(d1) /\ Len(d1) \in Nat
        BY <2>2, <2>l, <3>1, <3>3
      <4>2. d2[i] = d1[i] /\ d1[i] = a[i - at]
        <5>1. ~(i > mid /\ i <= mid + Len(b)) /\ i > at /\ i <= mid
          BY <2>2, <2>l, <3>1, <3>3
        <5>2. d2[i] = d1[i]
          BY <2>5, <3>1, <4>1, <5>1
        <5>3. QED
          BY <2>3, <3>1, <4>1, <5>1, <5>2
      <4>3. d3[i] = c[i - at]
        BY <1>0, <2>1, <2>2, <2>6, <3>1, <3>3
      <4>4. i - at \in 1..Len(a) + Len(b) /\ i - at <= Len(a)
        BY <2>2, <2>l, <3>1, <3>3
      <4>5. QED
        BY <2>c, <4>2, <4>3, <4>4
    <3>4. CASE i <= at \/ i > mid + Len(b)
      <4>1. ~(i > at /\ i <= at + Len(c)) /\ ~(i > at /\ i <= mid) /\ ~(i > mid /\ i <= mid + Len(b))
        BY <2>2, <2>l, <3>1, <3>4
      <4>2. i <= Len(d1) /\ Len(d1) \in Nat
        BY <2>2, <2>l, <3>1, <3>4
      <4>3. d2[i] = d1[i]
        BY <2>5, <3>1, <4>1, <4>2
      <4>4. d1[i] = IF i <= Len(d) THEN d[i] ELSE 0
        BY <2>3, <3>1, <4>1, <4>2
      <4>5. d3[i] = IF i <= Len(d) THEN d[i] ELSE 0
        BY <2>6, <3>1, <4>1
      <4>6. QED
        BY <4>3, <4>4, <4>5
    <3>5. QED
      BY <1>0, <2>2, <3>1, <3>2, <3>3, <3>4
  <2>9. d2 = d3
    BY <2>5, <2>6, <2>7, <2>8, SeqEqual
  <2>10. QED
    BY <2>9 DEF d2, d1, d3, c
<1>4. QED
  BY <1>1, <1>2, <1>3

\* How much can be read.
LEMMA AvailableIs ==
  ASSUME NEW d \in Seq(Nat), NEW k \in Nat, NEW n \in Nat
  PROVE  /\ Available(d, k, n) \in Nat
         /\ Available(d, k, n) = IF Len(d) <= k THEN 0
                                 ELSE IF n < Len(d) - k THEN n ELSE Len(d) - k
<1>1. Len(d) \in Nat
  BY LenProperties
<1> DEFINE m == IF Len(d) <= k THEN 0 ELSE Len(d) - k
<1>2. \A x, y \in Int : Max({x, y}) = IF x < y THEN y ELSE x
  <2> TAKE x, y \in Int
  <2> DEFINE z == IF x < y THEN y ELSE x
  <2>1. z \in {x, y} /\ \A v \in {x, y} : z >= v
    OBVIOUS
  <2>2. \A w \in {x, y} : (\A v \in {x, y} : w >= v) => w = z
    OBVIOUS
  <2> HIDE DEF z
  <2>3. Max({x, y}) = z
    BY <2>1, <2>2 DEF Max
  <2>4. QED
    BY <2>3 DEF z
<1>3. \A x, y \in Int : Min({x, y}) = IF x < y THEN x ELSE y
  <2> TAKE x, y \in Int
  <2> DEFINE z == IF x < y THEN x ELSE y
  <2>1. z \in {x, y} /\ \A v \in {x, y} : z =< v
    OBVIOUS
  <2>2. \A w \in {x, y} : (\A v \in {x, y} : w =< v) => w = z
    OBVIOUS
  <2> HIDE DEF z
  <2>3. Min({x, y}) = z
    BY <2>1, <2>2 DEF Min
  <2>4. QED
    BY <2>3 DEF z
<1>4. 0 \in Int /\ Len(d) - k \in Int /\ n \in Int /\ m \in Nat
  BY <1>1
<1>5. Max({0, Len(d) - k}) = m
  BY <1>1, <1>2, <1>4
<1>6. Available(d, k, n) = Min({n, m})
  BY <1>5 DEF Available
<1> HIDE DEF m
<1>7. Available(d, k, n) = IF n < m THEN n ELSE m
  BY <1>3, <1>4, <1>6
<1>8. m = IF Len(d) <= k THEN 0 ELSE Len(d) - k
  BY DEF m
<1>9. QED
  BY <1>1, <1>4, <1>7, <1>8

LEMMA AvailableAll ==
  ASSUME NEW d \in Seq(Nat), NEW k \in Nat, NEW n \in Nat, k + n <= Len(d)
  PROVE  Available(d, k, n) = n
<1>1. Len(d) \in Nat
  BY LenProperties
<1>2. Available(d, k, n) = IF Len(d) <= k THEN 0 ELSE IF n < Len(d) - k THEN n ELSE Len(d) - k
  BY AvailableIs
<1>3. QED
  BY <1>1, <1>2

\* The smaller of two numbers.
LEMMA MinOfTwo ==
  ASSUME NEW x \in Int, NEW y \in Int
  PROVE  Min({x, y}) = IF x < y THEN x ELSE y
<1> DEFINE z == IF x < y THEN x ELSE y
<1>1. z \in {x, y} /\ \A v \in {x, y} : z =< v
  OBVIOUS
<1>2. \A w \in {x, y} : (\A v \in {x, y} : w =< v) => w = z
  OBVIOUS
<1> HIDE DEF z
<1>3. Min({x, y}) = z
  BY <1>1, <1>2 DEF Min
<1>4. QED
  BY <1>3 DEF z

LEMMA MinOfOne ==
  ASSUME NEW x \in Int
  PROVE  Min({x}) = x
BY DEF Min

LEMMA MinFound ==
  ASSUME NEW S, S \subseteq Nat, S # {}
  PROVE  Min(S) \in S
<1>1. PICK x \in S : \A y \in S : ~ (<<y, x>> \in OpToRel(<, Nat))
  BY NatLessThanWellFounded, WFMin
<1>2. \A y \in S : x =< y
  <2> SUFFICES ASSUME NEW y \in S, y < x PROVE FALSE
    OBVIOUS
  <2>1. <<y, x>> \in OpToRel(<, Nat)
    BY DEF OpToRel
  <2>2. QED
    BY <1>1, <2>1
<1>3. QED
  BY <1>2 DEF Min

\* n bytes are in the file from at on, or none are asked for.
Within(d, at, n) == n = 0 \/ at + n <= Len(d)

LEMMA BytesOK ==
  ASSUME NEW d \in Seq(Nat), NEW at \in Nat, NEW n \in Nat, Within(d, at, n)
  PROVE  /\ Bytes(d, at, n) \in Seq(Nat) /\ Len(Bytes(d, at, n)) = n
         /\ \A q \in 1..n : Bytes(d, at, n)[q] = d[at + q]
         /\ n = 0 => Bytes(d, at, n) = <<>>
<1>1. CASE n = 0
  <2>1. at + 1 \in Int /\ at + n \in Int /\ at + n < at + 1
    BY <1>1
  <2>2. Bytes(d, at, n) = <<>>
    BY <2>1, SubSeqEmpty DEF Bytes
  <2>3. \A q \in 1..n : FALSE
    BY <1>1
  <2>4. Bytes(d, at, n) \in Seq(Nat) /\ Len(Bytes(d, at, n)) = 0
    BY <2>2, EmptySeq
  <2>5. QED
    BY <1>1, <2>2, <2>3, <2>4
<1>2. CASE n # 0
  <2> DEFINE i == at + 1
             j == at + n
  <2>1. i \in Nat /\ j \in Nat /\ j <= Len(d) /\ 0 < i /\ i <= j + 1 /\ j + 1 - i = n
    BY <1>2 DEF Within
  <2>2. \A q \in 1..n : i + q - 1 = at + q
    OBVIOUS
  <2>3. Bytes(d, at, n) = SubSeq(d, i, j)
    BY DEF Bytes
  <2> HIDE DEF i, j
  <2>4. /\ SubSeq(d, i, j) \in Seq(Nat) /\ Len(SubSeq(d, i, j)) = j + 1 - i
        /\ \A q \in 1..j + 1 - i : SubSeq(d, i, j)[q] = d[i + q - 1]
    BY <2>1, SubSeqOK
  <2>5. QED
    BY <1>2, <2>1, <2>2, <2>3, <2>4
<1>3. QED
  BY <1>1, <1>2

\* Two pieces that adjoin, and a piece of a piece.
Pieces(d, at, i, j) == Bytes(d, at, i) \o Bytes(d, at + i, j)
PieceOf(b, i, j) == SubSeq(b, i + 1, i + j)

LEMMA BytesJoin ==
  ASSUME NEW d \in Seq(Nat), NEW at \in Nat, NEW i \in Nat, NEW j \in Nat, Within(d, at, i + j)
  PROVE  Pieces(d, at, i, j) = Bytes(d, at, i + j)
<1> DEFINE mid == at + i
           n == i + j
           a == Bytes(d, at, i)
           b == Bytes(d, mid, j)
           c == Bytes(d, at, n)
<1>0. Len(d) \in Nat
  BY LenProperties
<1>1. mid \in Nat /\ n \in Nat /\ Within(d, at, i) /\ Within(d, mid, j) /\ Within(d, at, n)
  BY <1>0 DEF Within
<1>2. n = i + j /\ mid = at + i
  OBVIOUS
<1> HIDE DEF mid, n
<1>3. a \in Seq(Nat) /\ Len(a) = i /\ \A q \in 1..i : a[q] = d[at + q]
  BY <1>1, BytesOK
<1>4. b \in Seq(Nat) /\ Len(b) = j /\ \A q \in 1..j : b[q] = d[mid + q]
  BY <1>1, BytesOK
<1>5. c \in Seq(Nat) /\ Len(c) = n /\ \A q \in 1..n : c[q] = d[at + q]
  BY <1>1, BytesOK
<1> HIDE DEF a, b, c
<1>6. /\ a \o b \in Seq(Nat) /\ Len(a \o b) = i + j
      /\ \A q \in 1..i + j : (a \o b)[q] = IF q <= i THEN a[q] ELSE b[q - i]
  BY <1>3, <1>4, ConcatProperties
<1>7. ASSUME NEW q \in 1..i + j PROVE (a \o b)[q] = c[q]
  <2>0. q \in 1..n /\ q \in Nat /\ 1 <= q
    BY <1>2
  <2>4. c[q] = d[at + q]
    BY <1>5, <2>0
  <2>1. CASE q <= i
    <3>1. q \in 1..i
      BY <2>0, <2>1
    <3>2. QED
      BY <1>3, <1>6, <2>1, <2>4, <3>1
  <2>2. CASE q > i
    <3>1. q - i \in 1..j /\ mid + (q - i) = at + q /\ ~(q <= i)
      BY <1>2, <2>2
    <3>2. b[q - i] = d[at + q]
      BY <1>4, <3>1
    <3>3. (a \o b)[q] = b[q - i]
      BY <1>6, <3>1
    <3>4. QED
      BY <2>4, <3>2, <3>3
  <2>3. q <= i \/ q > i
    BY <2>0
  <2>5. QED
    BY <2>1, <2>2, <2>3
<1>8. a \o b = c
  BY <1>2, <1>5, <1>6, <1>7, SeqEqual
<1>9. QED
  BY <1>8 DEF a, b, c, mid, n, Pieces

LEMMA BytesWithin ==
  ASSUME NEW d \in Seq(Nat), NEW at \in Nat, NEW n \in Nat, Within(d, at, n),
         NEW i \in Nat, NEW j \in Nat, i + j <= n
  PROVE  PieceOf(Bytes(d, at, n), i, j) = Bytes(d, at + i, j)
<1> DEFINE mid == at + i
           from == i + 1
           to == i + j
           a == Bytes(d, at, n)
           b == Bytes(d, mid, j)
           c == SubSeq(a, from, to)
<1>0. Len(d) \in Nat
  BY LenProperties
<1>1. mid \in Nat /\ Within(d, mid, j)
  BY <1>0 DEF Within
<1>2. mid = at + i /\ from = i + 1 /\ to = i + j
  OBVIOUS
<1> HIDE DEF mid
<1>3. a \in Seq(Nat) /\ Len(a) = n /\ \A q \in 1..n : a[q] = d[at + q]
  BY BytesOK
<1>4. b \in Seq(Nat) /\ Len(b) = j /\ \A q \in 1..j : b[q] = d[mid + q]
  BY <1>1, BytesOK
<1> HIDE DEF a, b, from, to
<1>5. c \in Seq(Nat) /\ Len(c) = to + 1 - from /\ \A q \in 1..to + 1 - from : c[q] = a[from + q - 1]
  <2>1. from \in Nat /\ to \in Nat /\ to <= Len(a) /\ 0 < from /\ from <= to + 1
    BY <1>2, <1>3
  <2>2. QED
    BY <1>3, <2>1, SubSeqOK
<1> HIDE DEF c
<1>6. to + 1 - from = j
  BY <1>2
<1>7. ASSUME NEW q \in 1..j PROVE b[q] = c[q]
  <2>1. from + q - 1 \in 1..n /\ at + (from + q - 1) = mid + q
    BY <1>1, <1>2
  <2>2. c[q] = a[from + q - 1]
    BY <1>5, <1>6
  <2>3. a[from + q - 1] = d[at + (from + q - 1)]
    BY <1>3, <2>1
  <2>4. QED
    BY <1>4, <2>1, <2>2, <2>3
<1>8. b = c
  BY <1>4, <1>5, <1>6, <1>7, SeqEqual
<1>9. QED
  BY <1>8 DEF a, b, c, mid, from, to, PieceOf

-----------------------------------------------------------------------------
\* Where the program is in a stream.
At(s) == s.off + s.ptr

\* How fread may end, for a struct s at k of file d.
ReadEnds(s, k, d, n, r) ==
  /\ GoodStruct("read", r.s, r.koff) /\ r.fails \in BOOLEAN
  /\ Ahead(s, k, d) => /\ Ahead(r.s, r.koff, d)
                       /\ ~r.fails => /\ r.got = Bytes(d, At(s), Available(d, At(s), n))
                                      /\ At(r.s) = At(s) + Len(r.got)

\* The three ways in Reads.
Held(s) == SubSeq(s.buf, s.ptr + 1, s.last)

FromBuffer(s, k, n) ==
  [s |-> [s EXCEPT !.ptr = @ + n], koff |-> k, fails |-> FALSE,
   got |-> SubSeq(s.buf, s.ptr + 1, s.ptr + n)]

Refilled(s, k, d, more, from, to) ==
  [s |-> [ptr |-> k + more - from, last |-> to - from,
          off |-> s.off + s.last + from - k, buf |-> Bytes(d, from, to - from)],
   koff |-> to, fails |-> FALSE, got |-> Held(s) \o Bytes(d, k, more)]

CutShort(s, k, d, more, j) ==
  [s |-> Discarded([s EXCEPT !.off = @ + s.last + j]), koff |-> k + j,
   fails |-> j < Available(d, k, more) \/ Available(d, k, more) = more,
   got |-> Held(s) \o Bytes(d, k, j)]

\* more bytes than the buffer holds, and the chunk that a read(2) may get then.
Beyond(s, n, more) ==
  /\ n \in Nat /\ more \in Nat /\ more > 0 /\ s.last - s.ptr \in Nat
  /\ n = (s.last - s.ptr) + more
Chunk(k, d, more, from, to) ==
  /\ from \in k..k + more - 1 /\ to \in k + more..Len(d) /\ to - from <= FileBufSize

LEMMA ReadsAre ==
  ASSUME NEW s, NEW k, NEW d, NEW n, NEW r \in Reads(s, k, d, n)
  PROVE  LET more == n - (s.last - s.ptr)
             avail == Available(d, k, more) IN
         \/ n <= s.last - s.ptr /\ r = FromBuffer(s, k, n)
         \/ /\ ~ (n <= s.last - s.ptr) /\ ~ (avail < more)
            /\ \E x \in (k..k + more - 1) \X (k + more..Len(d)) :
                 x[2] - x[1] <= FileBufSize /\ r = Refilled(s, k, d, more, x[1], x[2])
         \/ /\ ~ (n <= s.last - s.ptr)
            /\ \E j \in IF avail = more THEN 0..more - 1 ELSE 0..avail :
                 r = CutShort(s, k, d, more, j)
<1> DEFINE more == n - (s.last - s.ptr)
           avail == Available(d, k, more)
           chunks == {x \in (k..k + more - 1) \X (k + more..Len(d)) : x[2] - x[1] <= FileBufSize}
           ends == IF avail = more THEN 0..more - 1 ELSE 0..avail
<1>1. r \in IF n <= s.last - s.ptr THEN {FromBuffer(s, k, n)}
            ELSE (IF avail < more THEN {} ELSE {Refilled(s, k, d, more, x[1], x[2]) : x \in chunks})
                 \union {CutShort(s, k, d, more, j) : j \in ends}
  BY DEF Reads, FromBuffer, Refilled, CutShort, Held
<1> HIDE DEF avail, ends, more
<1>2. \/ n <= s.last - s.ptr /\ r = FromBuffer(s, k, n)
      \/ ~ (n <= s.last - s.ptr) /\ ~ (avail < more) /\ \E x \in chunks : r = Refilled(s, k, d, more, x[1], x[2])
      \/ ~ (n <= s.last - s.ptr) /\ \E j \in ends : r = CutShort(s, k, d, more, j)
  BY <1>1, Zenon
<1>3. QED
  BY <1>2, Zenon DEF avail, ends, more

\* What is in the buffer and not read yet.
LEMMA HeldIs ==
  ASSUME NEW s, NEW k, NEW d \in Seq(Nat), GoodStruct("read", s, k), Ahead(s, k, d)
  PROVE  /\ At(s) \in Nat /\ At(s) + (s.last - s.ptr) = k /\ s.last - s.ptr \in Nat
         /\ Within(d, At(s), s.last - s.ptr)
         /\ Held(s) = Bytes(d, At(s), s.last - s.ptr)
<1> DEFINE p == s.ptr
           l == s.last
           o == s.off
           rest == l - p
           pos == o + p
<1>1. /\ p \in Nat /\ l \in Nat /\ o \in Nat /\ p <= l /\ o + l = k /\ (l > 0 => k <= Len(d))
  BY DEF GoodStruct, BufStructs, Ahead
<1>2. s.buf = Bytes(d, o, l) /\ Held(s) = SubSeq(s.buf, p + 1, l) /\ At(s) = pos
  BY DEF Ahead, Held, At
<1>d. Len(d) \in Nat
  BY LenProperties
<1> HIDE DEF p, l, o
<1>3. rest \in Nat /\ p + rest = l /\ pos + rest = k /\ pos \in Nat
  BY <1>1
<1>4. Within(d, o, l) /\ Within(d, pos, rest)
  BY <1>1, <1>d, <1>3 DEF Within
<1>5. p + rest <= l
  BY <1>1, <1>3
<1>6. Held(s) = PieceOf(Bytes(d, o, l), p, rest)
  BY <1>2, <1>3 DEF PieceOf
<1> HIDE DEF rest
<1>7. PieceOf(Bytes(d, o, l), p, rest) = Bytes(d, o + p, rest)
  BY <1>1, <1>3, <1>4, <1>5, BytesWithin
<1>8. Held(s) = Bytes(d, pos, rest)
  BY <1>6, <1>7
<1> HIDE DEF pos
<1>9. At(s) \in Nat /\ At(s) + rest = k /\ rest \in Nat /\ Within(d, At(s), rest)
      /\ Held(s) = Bytes(d, At(s), rest)
  BY <1>2, <1>3, <1>4, <1>8
<1>10. QED
  BY <1>9 DEF rest, l, p

LEMMA FromBufferEnds ==
  ASSUME NEW s, NEW k, NEW d \in Seq(Nat), GoodStruct("read", s, k),
         NEW n \in Nat \ {0}, n <= s.last - s.ptr
  PROVE  ReadEnds(s, k, d, n, FromBuffer(s, k, n))
<1> DEFINE r == FromBuffer(s, k, n)
           p == s.ptr
           l == s.last
           o == s.off
           v == p + n
           pos == o + p
<1>1. /\ p \in Nat /\ l \in Nat /\ o \in Nat /\ p <= l /\ n <= l - p /\ l <= FileBufSize
      /\ s \in BufStructs /\ k \in Nat /\ Len(s.buf) = l /\ s.buf \in Seq(Nat)
  BY DEF GoodStruct, BufStructs
<1>2. /\ r.s = [s EXCEPT !.ptr = v] /\ r.koff = k /\ r.fails = FALSE
      /\ r.got = PieceOf(s.buf, p, n)
  BY DEF FromBuffer, PieceOf
<1>a. At(s) = pos
  BY DEF At
<1> HIDE DEF r, p, l, o
<1>3. /\ v \in Nat /\ v <= l /\ v <= FileBufSize /\ o + v = pos + n /\ pos \in Nat
      /\ v = p + n /\ pos = o + p
  BY <1>1, FileBufSizeAssumption
<1> HIDE DEF v, pos
<1>4. r.s.ptr = v /\ r.s.last = l /\ r.s.off = o /\ r.s.buf = s.buf /\ r.s \in BufStructs
  BY <1>1, <1>2, <1>3 DEF BufStructs, l, o
<1>5. GoodStruct("read", r.s, r.koff)
  BY <1>1, <1>2, <1>3, <1>4 DEF GoodStruct
<1>6. ASSUME Ahead(s, k, d)
      PROVE  /\ Ahead(r.s, r.koff, d)
             /\ r.got = Bytes(d, At(s), Available(d, At(s), n))
             /\ At(r.s) = At(s) + Len(r.got)
  <2>1. o + l = k /\ s.buf = Bytes(d, o, l) /\ (l > 0 => k <= Len(d))
    BY <1>6 DEF Ahead, o, l
  <2>2. Ahead(r.s, r.koff, d)
    BY <1>2, <1>4, <2>1 DEF Ahead
  <2>d. Len(d) \in Nat
    BY LenProperties
  <2>3. pos + n <= Len(d) /\ o + l <= Len(d)
    BY <1>1, <1>3, <2>1, <2>d
  <2>4. Within(d, o, l) /\ Within(d, pos, n)
    BY <2>3 DEF Within
  <2>5. PieceOf(Bytes(d, o, l), p, n) = Bytes(d, o + p, n)
    BY <1>1, <1>3, <2>4, BytesWithin
  <2>6. r.got = Bytes(d, pos, n)
    BY <1>2, <1>3, <2>1, <2>5
  <2>7. At(r.s) = pos + n
    BY <1>3, <1>4 DEF At
  <2>8. Available(d, pos, n) = n
    BY <1>3, <2>3, AvailableAll
  <2>9. Len(r.got) = n
    BY <1>3, <2>4, <2>6, BytesOK
  <2>10. QED
    BY <1>a, <2>2, <2>6, <2>7, <2>8, <2>9
<1>7. QED
  BY <1>2, <1>5, <1>6 DEF ReadEnds, r

LEMMA RefilledEnds ==
  ASSUME NEW s, NEW k, NEW d \in Seq(Nat), GoodStruct("read", s, k),
         NEW n, NEW more, Beyond(s, n, more), NEW a, NEW b, Chunk(k, d, more, a, b)
  PROVE  ReadEnds(s, k, d, n, Refilled(s, k, d, more, a, b))
<1> DEFINE r == Refilled(s, k, d, more, a, b)
           p == s.ptr
           l == s.last
           o == s.off
           size == b - a
           at == k + more - a
           off == o + l + a - k
<1>1. /\ p \in Nat /\ l \in Nat /\ o \in Nat /\ p <= l /\ k \in Nat
      /\ n \in Nat /\ more \in Nat /\ more > 0 /\ n = (l - p) + more
  BY DEF GoodStruct, BufStructs, Beyond
<1>d. Len(d) \in Nat
  BY LenProperties
<1>2. a \in k..k + more - 1 /\ b \in k + more..Len(d) /\ b - a <= FileBufSize
  BY DEF Chunk
<1>b. b - a <= FileBufSize
  BY <1>2
<1>3. /\ r.s = [ptr |-> at, last |-> size, off |-> off, buf |-> Bytes(d, a, size)]
      /\ r.koff = b /\ r.fails = FALSE
      /\ r.got = Held(s) \o Bytes(d, k, more)
  BY DEF Refilled
<1> HIDE DEF r, p, l, o
<1>4. a \in Nat /\ b \in Nat /\ k <= a /\ a < k + more /\ k + more <= b /\ b <= Len(d)
  BY <1>1, <1>2, <1>d
<1>5. /\ size \in Nat /\ at \in Nat /\ off \in Nat /\ a + size = b /\ at <= size
      /\ size <= FileBufSize /\ at <= FileBufSize /\ off + at = o + l + more
      /\ (o + l = k => off = a)
  BY <1>1, <1>4, <1>b, FileBufSizeAssumption
<1> HIDE DEF size, at, off
<1>6. Within(d, a, size) /\ Within(d, k, more)
  BY <1>1, <1>d, <1>4, <1>5 DEF Within
<1>7. Bytes(d, a, size) \in Seq(Nat) /\ Len(Bytes(d, a, size)) = size
  BY <1>4, <1>5, <1>6, BytesOK
<1>8. /\ r.s.ptr = at /\ r.s.last = size /\ r.s.off = off
      /\ r.s.buf = Bytes(d, a, size) /\ r.s \in BufStructs
  BY <1>3, <1>5, <1>7 DEF BufStructs
<1>9. GoodStruct("read", r.s, r.koff)
  BY <1>3, <1>4, <1>5, <1>7, <1>8 DEF GoodStruct
<1>10. ASSUME Ahead(s, k, d)
      PROVE  /\ Ahead(r.s, r.koff, d)
             /\ r.got = Bytes(d, At(s), Available(d, At(s), n))
             /\ At(r.s) = At(s) + Len(r.got)
  <2> DEFINE held == l - p
             pos == At(s)
  <2>1. pos \in Nat /\ pos + held = k /\ held \in Nat /\ Held(s) = Bytes(d, pos, held)
    BY <1>10, HeldIs, Zenon DEF l, p
  <2>h. n = held + more
    BY <1>1
  <2>2. o + l = k
    BY <1>10 DEF Ahead, o, l
  <2> HIDE DEF held, pos
  <2>3. off = a
    BY <1>5, <2>2
  <2>4. Ahead(r.s, r.koff, d)
    BY <1>3, <1>4, <1>5, <1>8, <2>3 DEF Ahead
  <2>5. pos + n <= Len(d) /\ pos + n = k + more
    BY <1>1, <1>d, <1>4, <2>1, <2>h
  <2>6. Within(d, pos, n)
    BY <2>5 DEF Within
  <2>7. Within(d, pos, held + more)
    BY <2>6, <2>h
  <2>8. Pieces(d, pos, held, more) = Bytes(d, pos, held + more)
    BY <1>1, <2>1, <2>7, BytesJoin
  <2>9. r.got = Bytes(d, pos, n)
    BY <1>3, <2>1, <2>8, <2>h DEF Pieces
  <2>10. Available(d, pos, n) = n
    BY <1>1, <2>1, <2>5, AvailableAll
  <2>11. Len(r.got) = n
    <3>1. n \in Nat /\ pos \in Nat
      BY <1>1, <2>1
    <3>2. Len(Bytes(d, pos, n)) = n
      BY <2>6, <3>1, BytesOK
    <3>3. QED
      BY <2>9, <3>2
  <2>12. At(r.s) = pos + n
    BY <1>5, <1>8, <2>2, <2>5 DEF At
  <2>13. QED
    BY <2>4, <2>9, <2>10, <2>11, <2>12 DEF pos
<1>11. QED
  BY <1>3, <1>9, <1>10 DEF ReadEnds, r

LEMMA CutShortEnds ==
  ASSUME NEW s, NEW k, NEW d \in Seq(Nat), GoodStruct("read", s, k),
         NEW n, NEW more, Beyond(s, n, more), NEW j \in Nat, j <= Available(d, k, more)
  PROVE  ReadEnds(s, k, d, n, CutShort(s, k, d, more, j))
<1> DEFINE r == CutShort(s, k, d, more, j)
           avail == Available(d, k, more)
           p == s.ptr
           l == s.last
           o == s.off
           off == o + l + j
<1>1. /\ p \in Nat /\ l \in Nat /\ o \in Nat /\ p <= l /\ k \in Nat
      /\ n \in Nat /\ more \in Nat /\ more > 0 /\ n = (l - p) + more
  BY DEF GoodStruct, BufStructs, Beyond
<1>s. s \in BufStructs
  BY DEF GoodStruct
<1>d. Len(d) \in Nat
  BY LenProperties
<1>2. /\ avail = IF Len(d) <= k THEN 0 ELSE IF more < Len(d) - k THEN more ELSE Len(d) - k
      /\ avail \in Nat
  BY <1>1, AvailableIs
<1>j. j <= avail
  OBVIOUS
<1>3. /\ r.s = [[s EXCEPT !.off = off] EXCEPT !.ptr = 0, !.last = 0, !.buf = <<>>]
      /\ r.koff = k + j /\ r.fails = (j < avail \/ avail = more)
      /\ r.got = Held(s) \o Bytes(d, k, j)
  <2>1. [s EXCEPT !.off = @ + s.last + j] = [s EXCEPT !.off = off]
    OBVIOUS
  <2> HIDE DEF off
  <2>2. QED
    BY <2>1 DEF CutShort, Discarded
<1> HIDE DEF r, p, l, o, avail
<1>4. off \in Nat /\ k + j \in Nat /\ off = o + l + j
  BY <1>1
<1> HIDE DEF off
<1>5. <<>> \in Seq(Nat) /\ Len(<<>>) = 0 /\ 0 \in Nat
  BY EmptySeq
<1>6. /\ r.s.ptr = 0 /\ r.s.last = 0 /\ r.s.off = off /\ r.s.buf = <<>> /\ r.s \in BufStructs
  BY <1>3, <1>4, <1>5, <1>s DEF BufStructs
<1>7. GoodStruct("read", r.s, r.koff)
  BY <1>3, <1>4, <1>5, <1>6, FileBufSizeAssumption DEF GoodStruct
<1>8. ASSUME Ahead(s, k, d)
      PROVE  /\ Ahead(r.s, r.koff, d)
             /\ ~r.fails => /\ r.got = Bytes(d, At(s), Available(d, At(s), n))
                            /\ At(r.s) = At(s) + Len(r.got)
  <2> DEFINE held == l - p
             pos == At(s)
             i == held + j
  <2>1. pos \in Nat /\ pos + held = k /\ held \in Nat /\ Held(s) = Bytes(d, pos, held)
    BY <1>8, HeldIs, Zenon DEF l, p
  <2>h. n = held + more /\ held <= l
    BY <1>1
  <2>2. o + l = k /\ (l > 0 => k <= Len(d))
    BY <1>8 DEF Ahead, o, l
  <2> HIDE DEF held, pos
  <2>3. Ahead(r.s, r.koff, d)
    <3>1. Within(d, off, 0)
      BY DEF Within
    <3>2. Bytes(d, off, 0) = <<>>
      BY <1>4, <3>1, BytesOK
    <3>3. off + 0 = k + j /\ ~(0 > 0)
      BY <1>1, <1>4, <2>2
    <3>4. QED
      BY <1>3, <1>6, <3>2, <3>3 DEF Ahead
  <2>4. ASSUME ~r.fails
        PROVE  /\ r.got = Bytes(d, pos, Available(d, pos, n))
               /\ At(r.s) = pos + Len(r.got)
    <3>0. ~(j < avail) /\ avail # more
      BY <1>3, <2>4
    <3>1. j = avail
      BY <1>2, <1>j, <3>0
    <3>a. j = IF Len(d) <= k THEN 0 ELSE Len(d) - k
      BY <1>1, <1>2, <1>d, <3>0, <3>1
    <3>2. i \in Nat /\ (i = 0 \/ pos + i <= Len(d)) /\ off = pos + i /\ i = held + j
      <4>1. CASE Len(d) <= k
        BY <1>1, <1>d, <1>4, <2>1, <2>2, <2>h, <3>a, <4>1
      <4>2. CASE ~(Len(d) <= k)
        BY <1>1, <1>d, <1>4, <2>1, <2>2, <2>h, <3>a, <4>2
      <4>3. QED
        BY <4>1, <4>2
    <3>b. j < more
      BY <1>1, <1>2, <1>d, <3>0, <3>1
    <3>3. Within(d, pos, i)
      BY <3>2 DEF Within
    <3>6. Available(d, pos, n) = IF Len(d) <= pos THEN 0
                                 ELSE IF n < Len(d) - pos THEN n ELSE Len(d) - pos
      BY <1>1, <2>1, AvailableIs
    <3>7. i = IF Len(d) <= pos THEN 0 ELSE IF n < Len(d) - pos THEN n ELSE Len(d) - pos
      <4>1. CASE Len(d) <= k
        BY <1>1, <1>d, <2>1, <2>2, <2>h, <3>a, <4>1
      <4>2. CASE ~(Len(d) <= k)
        <5>1. j = Len(d) - k /\ j \in Nat /\ n \in Nat /\ k \in Nat
          BY <1>1, <1>d, <3>a, <4>2
        <5>2. i = Len(d) - pos /\ ~ (Len(d) <= pos)
          BY <1>d, <2>1, <4>2, <5>1
        <5>3. i < n
          BY <1>1, <2>1, <2>h, <3>b, <5>1
        <5>4. ~ (n < Len(d) - pos)
          BY <1>d, <2>1, <5>1, <5>2, <5>3
        <5>5. QED
          BY <5>2, <5>4
      <4>3. QED
        BY <4>1, <4>2
    <3> HIDE DEF i
    <3>f. Within(d, pos, held + j)
      BY <3>2, <3>3
    <3>4. Pieces(d, pos, held, j) = Bytes(d, pos, held + j)
      BY <2>1, <3>f, BytesJoin
    <3>5. r.got = Bytes(d, pos, i)
      BY <1>3, <2>1, <3>2, <3>4 DEF Pieces
    <3>8. Len(r.got) = i
      BY <2>1, <3>2, <3>3, <3>5, BytesOK
    <3>9. At(r.s) = pos + i
      BY <1>6, <3>2, <1>4 DEF At
    <3>10. QED
      BY <3>5, <3>6, <3>7, <3>8, <3>9
  <2>5. QED
    BY <2>3, <2>4 DEF pos
<1>9. QED
  BY <1>3, <1>7, <1>8 DEF ReadEnds, r

LEMMA ReadsEnd ==
  ASSUME NEW s, NEW k, NEW d \in Seq(Nat), GoodStruct("read", s, k), NEW n \in Nat \ {0},
         NEW r \in Reads(s, k, d, n)
  PROVE  ReadEnds(s, k, d, n, r)
<1> DEFINE held == s.last - s.ptr
           more == n - held
           avail == Available(d, k, more)
<1>1. held \in Nat /\ k \in Nat
  BY DEF GoodStruct, BufStructs
<1>2. \/ n <= held /\ r = FromBuffer(s, k, n)
      \/ /\ ~ (n <= held) /\ ~ (avail < more)
         /\ \E x \in (k..k + more - 1) \X (k + more..Len(d)) :
              x[2] - x[1] <= FileBufSize /\ r = Refilled(s, k, d, more, x[1], x[2])
      \/ /\ ~ (n <= held)
         /\ \E j \in IF avail = more THEN 0..more - 1 ELSE 0..avail :
              r = CutShort(s, k, d, more, j)
  BY ReadsAre
<1>3. CASE n <= held /\ r = FromBuffer(s, k, n)
  BY <1>3, FromBufferEnds
<1>4. ASSUME ~ (n <= held)
      PROVE  Beyond(s, n, more)
  BY <1>1, <1>4 DEF Beyond
<1> HIDE DEF more, held
<1>5. ASSUME ~ (n <= held),
             NEW x \in (k..k + more - 1) \X (k + more..Len(d)),
             x[2] - x[1] <= FileBufSize, r = Refilled(s, k, d, more, x[1], x[2])
      PROVE  ReadEnds(s, k, d, n, r)
  <2>1. Chunk(k, d, more, x[1], x[2])
    BY <1>5 DEF Chunk
  <2>2. QED
    BY <1>4, <1>5, <2>1, RefilledEnds
<1>6. ASSUME ~ (n <= held),
             NEW j \in IF avail = more THEN 0..more - 1 ELSE 0..avail,
             r = CutShort(s, k, d, more, j)
      PROVE  ReadEnds(s, k, d, n, r)
  <2>1. Beyond(s, n, more) /\ more \in Nat
    BY <1>4, <1>6 DEF Beyond
  <2>2. avail \in Nat
    BY <1>1, <2>1, AvailableIs
  <2>3. j \in Nat /\ j <= avail
    BY <1>6, <2>1, <2>2
  <2>4. QED
    BY <1>6, <2>1, <2>3, CutShortEnds
<1>7. QED
  BY <1>2, <1>3, <1>5, <1>6

-----------------------------------------------------------------------------
\* How fwrite of bs may end.
WriteEnds(s, k, d, bs, r) ==
  /\ r.wrote \in Seq(Nat) /\ r.fails \in BOOLEAN
  /\ GoodStruct("write", r.s, k + Len(r.wrote))
  /\ ~r.fails => /\ r.got = Len(bs) /\ At(r.s) = At(s) + Len(bs)
                 /\ PutAt(PutAt(d, k, r.wrote), k + Len(r.wrote), r.s.buf)
                      = PutAt(PutAt(d, k, s.buf), At(s), bs)

\* The three ways in Writes, after room bytes have filled the buffer.
Room(s, n) == IF Direct(s, n) THEN 0 ELSE Min({n, FileBufSize - s.ptr})
Pend(s, bs, room) == s.buf \o SubSeq(bs, 1, room)
Full(s, bs, room) == [s EXCEPT !.ptr = @ + room, !.buf = Pend(s, bs, room)]

Stored(s, bs, room) == [s |-> Full(s, bs, room), wrote |-> <<>>, got |-> Len(bs), fails |-> FALSE]

FlushFails(s, bs, room, j) ==
  [s |-> FileFlushed(Full(s, bs, room), j), wrote |-> SubSeq(Pend(s, bs, room), 1, j),
   got |-> room, fails |-> TRUE]

PassedBy(s, bs, room, j) ==
  [s |-> FileFlushed(Full(s, bs, room), Len(Pend(s, bs, room)) + j),
   wrote |-> Pend(s, bs, room) \o SubSeq(bs, room + 1, room + j),
   got |-> room + j, fails |-> room + j < Len(bs)]

LEMMA WritesAre ==
  ASSUME NEW s, NEW bs, NEW r \in Writes(s, bs)
  PROVE  LET room == Room(s, Len(bs)) IN
         \/ room = Len(bs) /\ r = Stored(s, bs, room)
         \/ room # Len(bs) /\ \E j \in 0..Len(Pend(s, bs, room)) - 1 : r = FlushFails(s, bs, room, j)
         \/ room # Len(bs) /\ \E j \in 0..Len(bs) - room : r = PassedBy(s, bs, room, j)
<1> DEFINE n == Len(bs)
           room == Room(s, n)
           pend == Pend(s, bs, room)
<1>1. r \in IF room = n THEN {Stored(s, bs, room)}
            ELSE {FlushFails(s, bs, room, j) : j \in 0..Len(pend) - 1}
                 \union {PassedBy(s, bs, room, j) : j \in 0..n - room}
  BY DEF Writes, Room, Pend, Full, Stored, FlushFails, PassedBy
<1> HIDE DEF n, room, pend
<1>2. \/ room = n /\ r = Stored(s, bs, room)
      \/ room # n /\ \E j \in 0..Len(pend) - 1 : r = FlushFails(s, bs, room, j)
      \/ room # n /\ \E j \in 0..n - room : r = PassedBy(s, bs, room, j)
  BY <1>1, Zenon
<1>3. QED
  BY <1>2, Zenon DEF n, room, pend

\* A struct that is written, and what of bs gets into its buffer.
Fills(s, k, bs, room) ==
  /\ GoodStruct("write", s, k) /\ bs \in Seq(Nat)
  /\ room \in Nat /\ room <= Len(bs) /\ s.ptr + room <= FileBufSize

LEMMA RoomFills ==
  ASSUME NEW s, NEW k, GoodStruct("write", s, k), NEW bs \in Seq(Nat)
  PROVE  Fills(s, k, bs, Room(s, Len(bs)))
<1> DEFINE p == s.ptr
           n == Len(bs)
           left == FileBufSize - p
<1>1. p \in Nat /\ p <= FileBufSize
  BY DEF GoodStruct, BufStructs
<1>2. n \in Nat
  BY LenProperties
<1>3. Room(s, n) = 0 \/ Room(s, n) = Min({n, left})
  BY DEF Room
<1> HIDE DEF p, n
<1>4. left \in Nat /\ p + left = FileBufSize /\ FileBufSize \in Nat
  BY <1>1, FileBufSizeAssumption
<1> HIDE DEF left
<1>5. n \in Int /\ left \in Int
  BY <1>2, <1>4
<1>6. Min({n, left}) = IF n < left THEN n ELSE left
  BY <1>5, MinOfTwo
<1> DEFINE room == Room(s, n)
<1>7. room = 0 \/ room = IF n < left THEN n ELSE left
  BY <1>3, <1>6
<1> HIDE DEF room
<1>8. room \in Nat /\ room <= n /\ p + room <= FileBufSize
  BY <1>1, <1>2, <1>4, <1>7
<1>9. QED
  BY <1>8 DEF Fills, room, n, p

LEMMA FullOK ==
  ASSUME NEW s, NEW k, NEW bs, NEW room, Fills(s, k, bs, room)
  PROVE  /\ GoodStruct("write", Full(s, bs, room), k)
         /\ Pend(s, bs, room) \in Seq(Nat) /\ Len(Pend(s, bs, room)) = s.ptr + room
         /\ Full(s, bs, room).off = k /\ Full(s, bs, room).ptr = s.ptr + room
         /\ Full(s, bs, room).buf = Pend(s, bs, room)
<1> DEFINE p == s.ptr
           v == p + room
           w == Pend(s, bs, room)
           g == Full(s, bs, room)
<1>1. /\ p \in Nat /\ room \in Nat /\ room <= Len(bs) /\ p + room <= FileBufSize
      /\ s \in BufStructs /\ bs \in Seq(Nat) /\ s.buf \in Seq(Nat) /\ Len(s.buf) = p
      /\ s.off = k /\ s.last <= FileBufSize /\ k \in Nat
  BY DEF Fills, GoodStruct, BufStructs
<1>2. SubSeq(bs, 1, room) \in Seq(Nat) /\ Len(SubSeq(bs, 1, room)) = room
  <2>1. 1 \in Nat /\ 0 < 1 /\ 1 <= room + 1 /\ room + 1 - 1 = room
    BY <1>1
  <2>2. QED
    BY <1>1, <2>1, SubSeqOK
<1>3. w \in Seq(Nat) /\ Len(w) = p + room
  <2> DEFINE a == s.buf
             b == SubSeq(bs, 1, room)
  <2>1. a \in Seq(Nat) /\ b \in Seq(Nat) /\ Len(a) = p /\ Len(b) = room /\ w = a \o b
    BY <1>1, <1>2 DEF Pend
  <2> HIDE DEF a, b, w, p
  <2>2. QED
    BY <2>1, ConcatProperties
<1>4. g = [s EXCEPT !.ptr = v, !.buf = w]
  BY DEF Full
<1>5. v \in Nat /\ v <= FileBufSize /\ v = p + room
  BY <1>1
<1> HIDE DEF p, v, w, g
<1>6. g.ptr = v /\ g.last = s.last /\ g.off = s.off /\ g.buf = w /\ g \in BufStructs
  BY <1>1, <1>3, <1>4, <1>5 DEF BufStructs
<1>7. GoodStruct("write", g, k)
  BY <1>1, <1>3, <1>5, <1>6 DEF GoodStruct
<1>8. QED
  BY <1>1, <1>3, <1>5, <1>6, <1>7 DEF p, w, g

LEMMA FileFlushedOK ==
  ASSUME NEW s, NEW k, GoodStruct("write", s, k), NEW j \in Nat
  PROVE  /\ GoodStruct("write", FileFlushed(s, j), k + j)
         /\ FileFlushed(s, j).off = k + j /\ FileFlushed(s, j).ptr = 0
         /\ FileFlushed(s, j).buf = <<>> /\ At(FileFlushed(s, j)) = k + j
<1> DEFINE v == k + j
           g == FileFlushed(s, j)
<1>1. s \in BufStructs /\ s.off = k /\ k \in Nat
  BY DEF GoodStruct
<1>2. [s EXCEPT !.off = @ + j] = [s EXCEPT !.off = v]
  BY <1>1 DEF BufStructs
<1>3. v \in Nat /\ v = k + j
  BY <1>1
<1> HIDE DEF v
<1>4. g = [[s EXCEPT !.off = v] EXCEPT !.ptr = 0, !.last = 0, !.buf = <<>>]
  BY <1>2 DEF FileFlushed, Discarded
<1> HIDE DEF g
<1>5. <<>> \in Seq(Nat) /\ Len(<<>>) = 0 /\ 0 \in Nat
  BY EmptySeq
<1>6. g.ptr = 0 /\ g.last = 0 /\ g.off = v /\ g.buf = <<>> /\ g \in BufStructs
  BY <1>1, <1>3, <1>4, <1>5 DEF BufStructs
<1>7. GoodStruct("write", g, v)
  BY <1>3, <1>5, <1>6, FileBufSizeAssumption DEF GoodStruct
<1>8. At(g) = v
  BY <1>3, <1>6 DEF At
<1>9. QED
  BY <1>3, <1>6, <1>7, <1>8 DEF g

\* What is buffered and then written is what would be written without a buffer.
LEMMA Buffered ==
  ASSUME NEW s, NEW k, GoodStruct("write", s, k), NEW d \in Seq(Nat), NEW bs \in Seq(Nat)
  PROVE  /\ PutAt(PutAt(d, k, s.buf), At(s), bs) = PutAt(d, k, s.buf \o bs)
         /\ At(s) = k + Len(s.buf) /\ At(s) \in Nat
<1>1. s.buf \in Seq(Nat) /\ k \in Nat /\ s.off = k /\ Len(s.buf) = s.ptr
  BY DEF GoodStruct, BufStructs
<1>2. At(s) = k + Len(s.buf)
  BY <1>1 DEF At
<1>3. Len(s.buf) \in Nat
  BY <1>1, LenProperties
<1>4. PutAt(PutAt(d, k, s.buf), k + Len(s.buf), bs) = PutAt(d, k, s.buf \o bs)
  BY <1>1, PutAtTwice
<1>5. QED
  BY <1>1, <1>2, <1>3, <1>4

LEMMA StoredEnds ==
  ASSUME NEW s, NEW k, NEW d \in Seq(Nat), NEW bs, Fills(s, k, bs, Len(bs))
  PROVE  WriteEnds(s, k, d, bs, Stored(s, bs, Len(bs)))
<1> DEFINE r == Stored(s, bs, Len(bs))
           g == Full(s, bs, Len(bs))
           n == Len(bs)
<1>1. r.s = g /\ r.wrote = <<>> /\ r.got = n /\ r.fails = FALSE
  BY DEF Stored
<1>2. GoodStruct("write", s, k) /\ bs \in Seq(Nat) /\ k \in Nat
  BY DEF Fills, GoodStruct
<1>3. /\ GoodStruct("write", g, k) /\ g.buf = Pend(s, bs, n) /\ g.off = k
      /\ g.ptr = s.ptr + n
  BY FullOK
<1>4. Pend(s, bs, n) = s.buf \o bs
  <2>1. SubSeq(bs, 1, n) = bs
    BY <1>2, SubSeqFull
  <2>2. QED
    BY <2>1 DEF Pend
<1>n. n \in Nat /\ s.ptr \in Nat /\ s.off = k
  BY <1>2, LenProperties DEF GoodStruct, BufStructs
<1> HIDE DEF r, g, n
<1>5. r.wrote \in Seq(Nat) /\ Len(r.wrote) = 0
  BY <1>1, EmptySeq
<1>6. k + Len(r.wrote) = k
  BY <1>2, <1>5
<1>7. At(r.s) = At(s) + n
  BY <1>1, <1>2, <1>3, <1>n DEF At
<1>8. PutAt(d, k, r.wrote) = d
  BY <1>1, PutAtNothing
<1>9. PutAt(PutAt(d, k, r.wrote), k + Len(r.wrote), r.s.buf) = PutAt(PutAt(d, k, s.buf), At(s), bs)
  <2>1. PutAt(PutAt(d, k, s.buf), At(s), bs) = PutAt(d, k, s.buf \o bs)
    BY <1>2, Buffered
  <2>2. QED
    BY <1>1, <1>3, <1>4, <1>6, <1>8, <2>1
<1>10. QED
  BY <1>1, <1>3, <1>5, <1>6, <1>7, <1>9 DEF WriteEnds, r, n

LEMMA FlushFailsEnds ==
  ASSUME NEW s, NEW k, NEW d, NEW bs, NEW room, Fills(s, k, bs, room),
         NEW j \in Nat, j <= Len(Pend(s, bs, room))
  PROVE  WriteEnds(s, k, d, bs, FlushFails(s, bs, room, j))
<1> DEFINE r == FlushFails(s, bs, room, j)
           g == Full(s, bs, room)
           w == Pend(s, bs, room)
<1>1. r.s = FileFlushed(g, j) /\ r.wrote = SubSeq(w, 1, j) /\ r.fails = TRUE
  BY DEF FlushFails
<1>2. GoodStruct("write", g, k) /\ w \in Seq(Nat) /\ j <= Len(w)
  BY FullOK
<1> HIDE DEF r, g, w
<1>3. r.wrote \in Seq(Nat) /\ Len(r.wrote) = j
  <2>1. 1 \in Nat /\ 0 < 1 /\ 1 <= j + 1 /\ j + 1 - 1 = j
    OBVIOUS
  <2>2. QED
    BY <1>1, <1>2, <2>1, SubSeqOK
<1>4. GoodStruct("write", r.s, k + j)
  BY <1>1, <1>2, FileFlushedOK
<1>5. QED
  BY <1>1, <1>3, <1>4 DEF WriteEnds, r

LEMMA Joined ==
  ASSUME NEW a \in Seq(Nat), NEW b \in Seq(Nat), NEW c \in Seq(Nat)
  PROVE  (a \o b) \o c = a \o (b \o c)
BY ConcatAssociative

LEMMA PassedByEnds ==
  ASSUME NEW s, NEW k, NEW d \in Seq(Nat), NEW bs, NEW room, Fills(s, k, bs, room),
         NEW j \in Nat, room + j <= Len(bs)
  PROVE  WriteEnds(s, k, d, bs, PassedBy(s, bs, room, j))
<1> DEFINE r == PassedBy(s, bs, room, j)
           g == Full(s, bs, room)
           w == Pend(s, bs, room)
           to == room + j
           rest == SubSeq(bs, room + 1, to)
           l == Len(w) + j
<1>1. /\ r.s = FileFlushed(g, l) /\ r.wrote = w \o rest
      /\ r.got = to
  BY DEF PassedBy
<1>f. r.fails \in BOOLEAN /\ (~r.fails => ~ (to < Len(bs)))
  <2>1. CASE to < Len(bs)
    BY <2>1 DEF PassedBy
  <2>2. CASE ~ (to < Len(bs))
    BY <2>2 DEF PassedBy
  <2>3. QED
    BY <2>1, <2>2
<1>2. GoodStruct("write", g, k) /\ w \in Seq(Nat) /\ Len(w) = s.ptr + room
  BY FullOK
<1>3. /\ GoodStruct("write", s, k) /\ bs \in Seq(Nat) /\ room \in Nat /\ room <= Len(bs)
      /\ s.buf \in Seq(Nat)
  BY DEF Fills, GoodStruct, BufStructs
<1>a. s.ptr \in Nat /\ s.off = k /\ k \in Nat
  BY <1>3 DEF GoodStruct, BufStructs
<1>b. Len(bs) \in Nat
  BY <1>3, LenProperties
<1>4. to \in Nat /\ to <= Len(bs)
  BY <1>3
<1>5. rest \in Seq(Nat) /\ Len(rest) = j
  <2> DEFINE from == room + 1
  <2>1. from \in Nat /\ 0 < from /\ from <= to + 1 /\ to + 1 - from = j
    BY <1>3
  <2>2. rest = SubSeq(bs, from, to)
    OBVIOUS
  <2> HIDE DEF from, to, rest
  <2>3. QED
    BY <1>3, <1>4, <2>1, <2>2, SubSeqOK
<1>6. l \in Nat /\ l = Len(w) + j /\ l = s.ptr + to
  BY <1>2, <1>3, <1>a
<1>h. w = s.buf \o SubSeq(bs, 1, room)
  BY DEF Pend
<1>i. rest = SubSeq(bs, room + 1, to)
  OBVIOUS
<1> HIDE DEF r, g, w, to, rest, l
<1>7. r.wrote \in Seq(Nat) /\ Len(r.wrote) = l
  <2>1. w \o rest \in Seq(Nat) /\ Len(w \o rest) = Len(w) + Len(rest)
    BY <1>2, <1>5, ConcatProperties
  <2>2. QED
    BY <1>1, <1>5, <1>6, <2>1
<1>8. GoodStruct("write", r.s, k + l) /\ r.s.buf = <<>> /\ At(r.s) = k + l
  <2>1. GoodStruct("write", g, k) /\ l \in Nat
    BY <1>2, <1>6
  <2> DEFINE h == FileFlushed(g, l)
  <2>2. GoodStruct("write", h, k + l) /\ h.buf = <<>> /\ At(h) = k + l
    BY <2>1, FileFlushedOK
  <2>3. r.s = h
    BY <1>1
  <2> HIDE DEF h
  <2>4. QED
    BY <2>2, <2>3
<1>9. ASSUME ~r.fails
      PROVE  /\ r.got = Len(bs) /\ At(r.s) = At(s) + Len(bs)
             /\ PutAt(PutAt(d, k, r.wrote), k + Len(r.wrote), r.s.buf)
                  = PutAt(PutAt(d, k, s.buf), At(s), bs)
  <2>1. to = Len(bs)
    BY <1>4, <1>9, <1>b, <1>f
  <2>2. At(r.s) = At(s) + Len(bs)
    BY <1>6, <1>8, <1>a, <1>b, <2>1 DEF At
  <2>3. SubSeq(bs, 1, room) \o rest = bs
    <3>1. /\ 1 \in 1..Len(bs) + 1 /\ room \in 1 - 1..Len(bs) /\ Len(bs) \in room..Len(bs)
      BY <1>3, <1>b
    <3>2. SubSeq(bs, 1, room) \o SubSeq(bs, room + 1, Len(bs)) = SubSeq(bs, 1, Len(bs))
      BY <1>3, <3>1, ConcatAdjacentSubSeq
    <3>3. SubSeq(bs, 1, Len(bs)) = bs
      BY <1>3, SubSeqFull
    <3>4. QED
      BY <1>i, <2>1, <3>2, <3>3
  <2>4. SubSeq(bs, 1, room) \in Seq(Nat)
    <3>1. 1 \in Nat /\ 0 < 1 /\ 1 <= room + 1
      BY <1>3
    <3>2. QED
      BY <1>3, <3>1, SubSeqOK
  <2>5. r.wrote = s.buf \o bs
    <3>1. (s.buf \o SubSeq(bs, 1, room)) \o rest = s.buf \o (SubSeq(bs, 1, room) \o rest)
      <4> DEFINE a == s.buf
                 b == SubSeq(bs, 1, room)
      <4>1. a \in Seq(Nat) /\ b \in Seq(Nat) /\ rest \in Seq(Nat)
        BY <1>3, <1>5, <2>4
      <4> HIDE DEF a, b
      <4>2. (a \o b) \o rest = a \o (b \o rest)
        BY <4>1, Joined
      <4>3. QED
        BY <4>2 DEF a, b
    <3>2. QED
      BY <1>1, <1>h, <2>3, <3>1
  <2>6. PutAt(PutAt(d, k, s.buf), At(s), bs) = PutAt(d, k, s.buf \o bs)
    BY <1>3, Buffered
  <2>7. PutAt(PutAt(d, k, r.wrote), k + Len(r.wrote), r.s.buf) = PutAt(d, k, r.wrote)
    BY <1>8, PutAtNothing
  <2>8. QED
    BY <1>1, <2>1, <2>2, <2>5, <2>6, <2>7
<1>10. QED
  BY <1>f, <1>7, <1>8, <1>9 DEF WriteEnds, r

LEMMA WritesEnd ==
  ASSUME NEW s, NEW k, NEW d \in Seq(Nat), GoodStruct("write", s, k), NEW bs \in Seq(Nat),
         NEW r \in Writes(s, bs)
  PROVE  WriteEnds(s, k, d, bs, r)
<1> DEFINE n == Len(bs)
           room == Room(s, n)
<1>1. Fills(s, k, bs, room)
  BY RoomFills
<1>2. \/ room = n /\ r = Stored(s, bs, room)
      \/ room # n /\ \E j \in 0..Len(Pend(s, bs, room)) - 1 : r = FlushFails(s, bs, room, j)
      \/ room # n /\ \E j \in 0..n - room : r = PassedBy(s, bs, room, j)
  BY WritesAre
<1>3. Pend(s, bs, room) \in Seq(Nat)
  BY <1>1, FullOK
<1>4. n \in Nat /\ Len(Pend(s, bs, room)) \in Nat
  BY <1>3, LenProperties
<1>5. room \in Nat /\ room <= n
  BY <1>1 DEF Fills
<1> HIDE DEF room
<1>6. CASE room = n /\ r = Stored(s, bs, room)
  BY <1>1, <1>6, StoredEnds
<1>7. ASSUME NEW j \in 0..Len(Pend(s, bs, room)) - 1, r = FlushFails(s, bs, room, j)
      PROVE  WriteEnds(s, k, d, bs, r)
  <2>1. j \in Nat /\ j <= Len(Pend(s, bs, room))
    BY <1>4
  <2>2. QED
    BY <1>1, <1>7, <2>1, FlushFailsEnds
<1>8. ASSUME NEW j \in 0..n - room, r = PassedBy(s, bs, room, j)
      PROVE  WriteEnds(s, k, d, bs, r)
  <2>1. j \in Nat /\ room + j <= n
    BY <1>4, <1>5
  <2>2. QED
    BY <1>1, <1>8, <2>1, PassedByEnds
<1>9. QED
  BY <1>2, <1>6, <1>7, <1>8

-----------------------------------------------------------------------------
\* The other one once nothing more is said of it, and after a step that moves
\* struct f to uk and leaves ud in its file.
Lost == [koff |-> [f \in Structs |-> 0], disk |-> Original]
UnAt(f, uk, ud) ==
  [koff |-> [un.koff EXCEPT ![f] = uk], disk |-> [un.disk EXCEPT ![path[f]] = ud]]

LEMMA UnAtIs ==
  ASSUME FileInv, NEW f \in Structs, IsOpen(f)
  PROVE  /\ path[f] \in Names /\ un.koff[f] \in Nat /\ un.disk[path[f]] \in Seq(Nat)
         /\ bdisk[path[f]] \in Seq(Nat)
         /\ un = UnAt(f, un.koff[f], un.disk[path[f]])
         /\ \A v : [un EXCEPT !.koff[f] = v] = UnAt(f, v, un.disk[path[f]])
         /\ \A bs : UnWrote(f, bs) = UnAt(f, un.koff[f] + Len(bs),
                                          PutAt(un.disk[path[f]], un.koff[f], bs))
<1>1. path[f] \in Names
  BY DEF FileInv, StructsOK
<1>2. un \in [koff: [Structs -> Nat], disk: Contents] /\ bdisk \in Contents
  BY DEF FileInv, FileTypes
<1>3. /\ un.koff \in [Structs -> Nat] /\ un.disk \in [Names -> Seq(Nat)]
      /\ un = [koff |-> un.koff, disk |-> un.disk]
  BY <1>2 DEF Contents
<1>4. bdisk[path[f]] \in Seq(Nat) /\ un.koff[f] \in Nat /\ un.disk[path[f]] \in Seq(Nat)
  BY <1>1, <1>2, <1>3 DEF Contents
<1>5. /\ un.koff = [un.koff EXCEPT ![f] = un.koff[f]]
      /\ un.disk = [un.disk EXCEPT ![path[f]] = un.disk[path[f]]]
  BY <1>1, <1>3
<1>6. un = UnAt(f, un.koff[f], un.disk[path[f]])
  BY <1>3, <1>5 DEF UnAt
<1>7. ASSUME NEW v
      PROVE  [un EXCEPT !.koff[f] = v] = UnAt(f, v, un.disk[path[f]])
  <2>1. [un EXCEPT !.koff[f] = v] = [un EXCEPT !.koff = [un.koff EXCEPT ![f] = v]]
    BY <1>2
  <2>2. [un EXCEPT !.koff = [un.koff EXCEPT ![f] = v]]
          = [koff |-> [un.koff EXCEPT ![f] = v], disk |-> un.disk]
    BY <1>2
  <2>3. QED
    BY <1>5, <2>1, <2>2 DEF UnAt
<1>8. ASSUME NEW bs
      PROVE  UnWrote(f, bs) = UnAt(f, un.koff[f] + Len(bs), PutAt(un.disk[path[f]], un.koff[f], bs))
  BY DEF UnWrote, Wrote, UnAt
<1>9. QED
  BY <1>1, <1>4, <1>6, <1>7, <1>8

\* Every file that is open has one struct.
LEMMA OtherFile ==
  ASSUME FileInv, NEW f \in Structs, IsOpen(f), NEW g \in Structs, IsOpen(g), g # f
  PROVE  path[g] # path[f]
BY DEF FileInv, OpenOnce

\* A call that changes nothing.
Idle ==
  /\ UNCHANGED <<dire, path, bst, bkoff, bdisk, written, apart, strayed, over>>
  /\ ~apart => agree' /\ un' = un
  /\ apart => un' = Lost

LEMMA LostOK == Lost \in [koff: [Structs -> Nat], disk: Contents]
BY OriginalAssumption DEF Lost, Contents

LEMMA IdleKeeps ==
  ASSUME FileInv, Idle
  PROVE  FileInv'
<1>1. FileTypes'
  <2>1. un' \in [koff: [Structs -> Nat], disk: Contents]
    BY LostOK DEF FileInv, FileTypes, Idle
  <2>2. QED
    BY <2>1 DEF FileInv, FileTypes, Idle
<1>2. StructsOK' /\ OpenOnce' /\ StrayedApart'
  BY DEF FileInv, StructsOK, OpenOnce, StrayedApart, Idle, IsOpen
<1>3. Alike'
  BY DEF FileInv, Alike, Idle, IsOpen
<1>4. QED
  BY <1>1, <1>2, <1>3 DEF FileInv

LEMMA AnsweredIdle ==
  ASSUME UNCHANGED <<dire, path, bst, bkoff, bdisk, written, apart, strayed, over>>,
         FileInv, NEW b, NEW u, Answered(b, u, un), ~apart => b = u
  PROVE  FileInv'
<1>1. apart' = apart /\ apart \in BOOLEAN
  BY DEF FileInv, FileTypes
<1>2. /\ agree' = (apart' \/ b = u)
      /\ un' = IF apart' THEN Lost ELSE un
  BY DEF Answered, Lost
<1>3. Idle
  <2>1. CASE apart
    BY <1>1, <1>2, <2>1 DEF Idle
  <2>2. CASE ~apart
    <3>1. b = u /\ ~apart'
      BY <1>1, <2>2
    <3>2. agree' /\ un' = un
      BY <1>2, <3>1, Zenon
    <3>3. QED
      BY <2>2, <3>2 DEF Idle
  <2>3. QED
    BY <2>1, <2>2
<1>4. QED
  BY <1>3, IdleKeeps

\* A call that leaves struct f as s and k, its file as d, and the other one at uk
\* with file ud.
StructStep(f, s, k, d, uk, ud) ==
  /\ UNCHANGED <<dire, path, over>> /\ ~over
  /\ BufferedTo(f, s, k) /\ bdisk' = [bdisk EXCEPT ![path[f]] = d]
  /\ written' \in Nat /\ apart' \in BOOLEAN /\ (apart => apart')
  /\ strayed' \subseteq strayed \union {f} /\ strayed \ {f} \subseteq strayed'
  /\ f \in strayed' => apart'
  /\ ~apart' => agree'
  /\ un' = IF apart' THEN Lost ELSE UnAt(f, uk, ud)

LEMMA StructStepKeeps ==
  ASSUME FileInv, NEW f \in Structs, IsOpen(f), NEW s, NEW k, NEW d \in Seq(Nat),
         NEW uk \in Nat, NEW ud \in Seq(Nat), StructStep(f, s, k, d, uk, ud),
         GoodStruct(dire[f], s, k),
         dire[f] = "read" /\ f \notin strayed' => Ahead(s, k, d),
         ~apart' => Twin(dire[f], s, k, d, uk, ud)
  PROVE  FileInv'
<1>1. path[f] \in Names
  BY UnAtIs
<1>2. /\ DOMAIN bst = Structs /\ DOMAIN bkoff = Structs /\ bdisk \in [Names -> Seq(Nat)]
      /\ un.koff \in [Structs -> Nat] /\ un.disk \in [Names -> Seq(Nat)]
  BY DEF FileInv, FileTypes, Contents
<1>3. /\ DOMAIN bst' = Structs /\ DOMAIN bkoff' = Structs
      /\ bst'[f] = s /\ bkoff'[f] = k
      /\ \A g \in Structs : g # f => bst'[g] = bst[g] /\ bkoff'[g] = bkoff[g]
  BY <1>2 DEF StructStep, BufferedTo
<1>4. /\ bdisk' \in Contents /\ bdisk'[path[f]] = d
      /\ \A n \in Names : n # path[f] => bdisk'[n] = bdisk[n]
  BY <1>1, <1>2 DEF StructStep, Contents
<1>5. UnAt(f, uk, ud) \in [koff: [Structs -> Nat], disk: Contents]
  BY <1>1, <1>2 DEF UnAt, Contents
<1>6. FileTypes'
  <2>1. un' \in [koff: [Structs -> Nat], disk: Contents]
    BY <1>5, LostOK DEF StructStep
  <2>2. /\ dire' \in [Structs -> {"closed", "read", "write"}]
        /\ path' \in [Structs -> Names \union {SomeName}]
        /\ written' \in Nat /\ apart' \in BOOLEAN
    BY DEF StructStep, FileInv, FileTypes
  <2>3. QED
    BY <1>3, <1>4, <2>1, <2>2 DEF FileTypes
<1>7. ASSUME NEW g \in Structs, IsOpen(g), g # f
      PROVE  path[g] \in Names /\ path[g] # path[f]
  BY <1>7, OtherFile, UnAtIs
<1>8. StructsOK'
  <2> SUFFICES ASSUME NEW g \in Structs, IsOpen(g)'
               PROVE  /\ path'[g] \in Names
                      /\ GoodStruct(dire'[g], bst'[g], bkoff'[g])
                      /\ dire'[g] = "read" /\ g \notin strayed' =>
                           Ahead(bst'[g], bkoff'[g], bdisk'[path'[g]])
                      /\ over' /\ dire'[g] = "write" => bst'[g].buf = <<>>
    BY DEF StructsOK
  <2>1. IsOpen(g) /\ dire' = dire /\ path' = path /\ ~over'
    BY DEF IsOpen, StructStep
  <2>2. CASE g = f
    BY <1>1, <1>3, <1>4, <2>1, <2>2
  <2>3. CASE g # f
    <3>1. /\ GoodStruct(dire[g], bst[g], bkoff[g])
          /\ dire[g] = "read" /\ g \notin strayed => Ahead(bst[g], bkoff[g], bdisk[path[g]])
      BY <2>1 DEF FileInv, StructsOK
    <3>2. g \in strayed => g \in strayed'
      BY <2>3 DEF StructStep
    <3>3. path[g] \in Names /\ bdisk'[path[g]] = bdisk[path[g]]
      BY <1>4, <1>7, <2>1, <2>3
    <3>4. QED
      BY <1>3, <2>1, <2>3, <3>1, <3>2, <3>3
  <2>4. QED
    BY <2>2, <2>3
<1>9. OpenOnce'
  BY DEF FileInv, OpenOnce, StructStep, IsOpen
<1>10. StrayedApart'
  BY DEF FileInv, StrayedApart, StructStep
<1>11. Alike'
  <2> SUFFICES ASSUME ~apart'
               PROVE  /\ agree'
                      /\ \A g \in Structs : IsOpen(g)' =>
                           Twin(dire'[g], bst'[g], bkoff'[g], bdisk'[path'[g]],
                                un'.koff[g], un'.disk[path'[g]])
                      /\ \A n \in Names : (\A g \in Structs : IsOpen(g)' => path'[g] # n)
                                            => un'.disk[n] = bdisk'[n]
    BY DEF Alike
  <2>1. ~apart /\ agree' /\ un' = UnAt(f, uk, ud) /\ dire' = dire /\ path' = path
    BY DEF StructStep
  <2>2. /\ un'.koff[f] = uk /\ un'.disk[path[f]] = ud
        /\ \A g \in Structs : g # f => un'.koff[g] = un.koff[g]
        /\ \A n \in Names : n # path[f] => un'.disk[n] = un.disk[n]
    BY <1>1, <1>2, <2>1 DEF UnAt
  <2>3. ASSUME NEW g \in Structs, IsOpen(g)'
        PROVE  Twin(dire'[g], bst'[g], bkoff'[g], bdisk'[path'[g]], un'.koff[g], un'.disk[path'[g]])
    <3>0. IsOpen(g)
      BY <2>1, <2>3 DEF IsOpen
    <3>1. CASE g = f
      BY <1>3, <1>4, <2>1, <2>2, <3>1
    <3>2. CASE g # f
      <4>1. Twin(dire[g], bst[g], bkoff[g], bdisk[path[g]], un.koff[g], un.disk[path[g]])
        BY <2>1, <3>0 DEF FileInv, Alike
      <4>2. path[g] \in Names /\ path[g] # path[f]
        BY <1>7, <3>0, <3>2
      <4>3. QED
        BY <1>3, <1>4, <2>1, <2>2, <3>2, <4>1, <4>2
    <3>3. QED
      BY <3>1, <3>2
  <2>4. ASSUME NEW n \in Names, \A g \in Structs : IsOpen(g)' => path'[g] # n
        PROVE  un'.disk[n] = bdisk'[n]
    <3>1. \A g \in Structs : IsOpen(g) => path[g] # n
      BY <2>1, <2>4 DEF IsOpen
    <3>2. un.disk[n] = bdisk[n] /\ n # path[f]
      BY <2>1, <3>1 DEF FileInv, Alike
    <3>3. QED
      BY <1>4, <2>2, <3>2
  <2>5. QED
    BY <2>1, <2>3, <2>4
<1>12. QED
  BY <1>6, <1>8, <1>9, <1>10, <1>11 DEF FileInv

LEMMA AvailableWithin ==
  ASSUME NEW d \in Seq(Nat), NEW k \in Nat, NEW n \in Nat
  PROVE  Available(d, k, n) \in Nat /\ Within(d, k, Available(d, k, n))
<1>1. Len(d) \in Nat
  BY LenProperties
<1> DEFINE m == Available(d, k, n)
<1>2. m \in Nat /\ m = IF Len(d) <= k THEN 0 ELSE IF n < Len(d) - k THEN n ELSE Len(d) - k
  BY AvailableIs
<1> HIDE DEF m
<1>3. m = 0 \/ k + m <= Len(d)
  BY <1>1, <1>2
<1>4. QED
  BY <1>2, <1>3 DEF Within, m

LEMMA UnBytesOK ==
  ASSUME FileInv, NEW f \in Structs, IsOpen(f), NEW n \in Nat
  PROVE  UnBytes(f, n) \in Seq(Nat) /\ Len(UnBytes(f, n)) \in Nat
<1> DEFINE d == un.disk[path[f]]
           k == un.koff[f]
           m == Available(d, k, n)
<1>1. d \in Seq(Nat) /\ k \in Nat
  BY UnAtIs
<1>2. m \in Nat /\ Within(d, k, m)
  BY <1>1, AvailableWithin
<1>3. UnBytes(f, n) = Bytes(d, k, m)
  BY DEF UnBytes
<1> HIDE DEF d, k, m
<1>4. UnBytes(f, n) \in Seq(Nat)
  BY <1>1, <1>2, <1>3, BytesOK
<1>5. QED
  BY <1>4, LenProperties

\* fread and fgetc of n bytes.
LEMMA ReadKeeps ==
  ASSUME FileInv, NEW f \in Structs, dire[f] = "read", ~over, NEW n \in Nat \ {0},
         NEW r \in Reads(bst[f], bkoff[f], bdisk[path[f]], n),
         UNCHANGED <<dire, path, bdisk, written, strayed, over>>,
         BufferedTo(f, r.s, r.koff), apart' = (apart \/ r.fails),
         NEW b, NEW u, Answered(b, u, UnRead(f, Len(UnBytes(f, n)))),
         r.got = UnBytes(f, n) => b = u
  PROVE  FileInv'
<1> DEFINE s == bst[f]
           k == bkoff[f]
           d == bdisk[path[f]]
           ud == un.disk[path[f]]
           uk == un.koff[f]
           l == Len(UnBytes(f, n))
<1>1. IsOpen(f)
  BY DEF IsOpen
<1>2. /\ path[f] \in Names /\ uk \in Nat /\ ud \in Seq(Nat) /\ d \in Seq(Nat)
      /\ \A v : [un EXCEPT !.koff[f] = v] = UnAt(f, v, ud)
  BY <1>1, UnAtIs
<1>3. l \in Nat
  BY <1>1, UnBytesOK
<1>4. /\ GoodStruct("read", s, k) /\ (f \notin strayed => Ahead(s, k, d))
  BY <1>1 DEF FileInv, StructsOK
<1>5. ReadEnds(s, k, d, n, r)
  BY <1>2, <1>4, ReadsEnd
<1>6. UnRead(f, l) = UnAt(f, uk + l, ud)
  BY <1>2 DEF UnRead
<1>7. agree' = (apart' \/ b = u) /\ un' = IF apart' THEN Lost ELSE UnAt(f, uk + l, ud)
  BY <1>6 DEF Answered, Lost
<1>8. bdisk' = [bdisk EXCEPT ![path[f]] = d]
  BY <1>2 DEF FileInv, FileTypes, Contents
<1>9. /\ apart \in BOOLEAN /\ r.fails \in BOOLEAN /\ written \in Nat
      /\ f \in strayed => apart
  BY <1>5 DEF FileInv, FileTypes, StrayedApart, ReadEnds
<1>10. apart' \in BOOLEAN /\ (apart => apart') /\ (~apart' => ~apart /\ ~r.fails)
  BY <1>9
<1>11. GoodStruct(dire[f], r.s, r.koff)
  BY <1>5 DEF ReadEnds
<1>12. dire[f] = "read" /\ f \notin strayed' => Ahead(r.s, r.koff, d)
  BY <1>4, <1>5 DEF ReadEnds
<1>13. ASSUME ~apart'
       PROVE  agree' /\ Twin(dire[f], r.s, r.koff, d, uk + l, ud)
  <2>1. ~apart /\ ~r.fails /\ f \notin strayed
    BY <1>9, <1>10, <1>13
  <2>2. uk = At(s) /\ ud = d
    BY <1>1, <2>1 DEF FileInv, Alike, Twin, Content, At
  <2>3. /\ r.got = Bytes(d, At(s), Available(d, At(s), n))
        /\ At(r.s) = At(s) + Len(r.got)
    BY <1>4, <1>5, <2>1 DEF ReadEnds
  <2>4. r.got = UnBytes(f, n)
    BY <2>2, <2>3 DEF UnBytes
  <2>5. b = u
    BY <2>4
  <2>6. agree'
    BY <1>7, <2>5, Zenon
  <2>7. uk + l = At(r.s)
    BY <2>2, <2>3, <2>4
  <2>8. Twin(dire[f], r.s, r.koff, d, uk + l, ud)
    BY <2>2, <2>7 DEF Twin, Content, At
  <2>9. QED
    BY <2>6, <2>8
<1>14. uk + l \in Nat
  BY <1>2, <1>3
<1> HIDE DEF s, k, d, ud, uk, l
<1>15. StructStep(f, r.s, r.koff, d, uk + l, ud)
  BY <1>7, <1>8, <1>9, <1>10, <1>13 DEF StructStep
<1>16. QED
  BY <1>1, <1>2, <1>11, <1>12, <1>13, <1>14, <1>15, StructStepKeeps

LEMMA Product ==
  ASSUME NEW size \in 1..2, NEW nmemb \in Nat
  PROVE  size * nmemb \in Nat /\ (size * nmemb) \div size = nmemb
<1>1. size = 1 \/ size = 2
  OBVIOUS
<1>2. CASE size = 1
  BY <1>2
<1>3. CASE size = 2
  BY <1>3
<1>4. QED
  BY <1>1, <1>2, <1>3

LEMMA FreadKeeps ==
  ASSUME FileInv, NEW f \in Structs, NEW size \in 1..2, NEW nmemb \in 0..2,
         FileFread(f, size, nmemb)
  PROVE  FileInv'
<1> DEFINE n == size * nmemb
<1>1. n \in Nat
  BY Product
<1>2. /\ ~over /\ UNCHANGED <<dire, path, bdisk, written, strayed, over>>
  BY DEF FileFread, Using
<1>3. CASE dire[f] # "read" \/ n = 0
  <2>1. UNCHANGED <<dire, path, bst, bkoff, bdisk, written, apart, strayed, over>> /\ Answered(0, 0, un)
    BY <1>3 DEF FileFread
  <2>2. QED
    BY <2>1, AnsweredIdle
<1>4. CASE ~ (dire[f] # "read" \/ n = 0)
  <2>1. PICK r \in Reads(bst[f], bkoff[f], bdisk[path[f]], n) :
          /\ BufferedTo(f, r.s, r.koff) /\ apart' = (apart \/ r.fails)
          /\ Answered(<<Len(r.got) \div size, r.got>>,
                      <<Len(UnBytes(f, n)) \div size, UnBytes(f, n)>>,
                      UnRead(f, Len(UnBytes(f, n))))
    BY <1>4 DEF FileFread
  <2>2. n \in Nat \ {0} /\ dire[f] = "read"
    BY <1>1, <1>4
  <2> HIDE DEF n
  <2> DEFINE b == <<Len(r.got) \div size, r.got>>
             u == <<Len(UnBytes(f, n)) \div size, UnBytes(f, n)>>
  <2>3. r.got = UnBytes(f, n) => b = u
    OBVIOUS
  <2>4. Answered(b, u, UnRead(f, Len(UnBytes(f, n))))
    BY <2>1
  <2> HIDE DEF b, u
  <2>5. QED
    BY <1>2, <2>1, <2>2, <2>3, <2>4, ReadKeeps
<1>5. QED
  BY <1>3, <1>4

LEMMA FgetcKeeps ==
  ASSUME FileInv, NEW f \in Structs, FileFgetc(f)
  PROVE  FileInv'
<1>1. PICK r \in Reads(bst[f], bkoff[f], bdisk[path[f]], 1) :
        /\ BufferedTo(f, r.s, r.koff) /\ apart' = (apart \/ r.fails)
        /\ Answered(r.got, UnBytes(f, 1), UnRead(f, Len(UnBytes(f, 1))))
  BY DEF FileFgetc
<1>2. /\ ~over /\ dire[f] = "read" /\ 1 \in Nat \ {0}
      /\ UNCHANGED <<dire, path, bdisk, written, strayed, over>>
  BY DEF FileFgetc, Using
<1>3. QED
  BY <1>1, <1>2, ReadKeeps

\* The bytes that the program writes.
LEMMA NumbersOK ==
  ASSUME NEW n \in Nat, NEW w \in Nat
  PROVE  [i \in 1..n |-> w + i] \in Seq(Nat) /\ Len([i \in 1..n |-> w + i]) = n
<1> DEFINE e == [i \in 1..n |-> w + i]
<1>1. \A i \in 1..n : w + i \in Nat
  OBVIOUS
<1>2. e \in Seq(Nat)
  BY <1>1, IsASeq
<1>3. DOMAIN e = 1..n
  OBVIOUS
<1> HIDE DEF e
<1>4. Len(e) \in Nat /\ DOMAIN e = 1..Len(e)
  BY <1>2, LenProperties
<1>5. Len(e) = n
  BY <1>3, <1>4
<1>6. QED
  BY <1>2, <1>5 DEF e

LEMMA FwriteKeeps ==
  ASSUME FileInv, NEW f \in Structs, NEW size \in 1..2, NEW nmemb \in 0..MaxCount,
         FileFwrite(f, size, nmemb)
  PROVE  FileInv'
<1> DEFINE n == size * nmemb
           bs == [i \in 1..n |-> written + i]
<1>0. nmemb \in Nat
  BY FileBoundsAssumption
<1>1. n \in Nat /\ n \div size = nmemb
  BY <1>0, Product
<1>2. ~over /\ UNCHANGED <<dire, path, strayed, over>>
  BY DEF FileFwrite, Using
<1>3. CASE dire[f] # "write" \/ n = 0
  <2>1. UNCHANGED <<dire, path, bst, bkoff, bdisk, written, apart, strayed, over>> /\ Answered(0, 0, un)
    BY <1>3 DEF FileFwrite
  <2>2. QED
    BY <2>1, AnsweredIdle
<1>4. CASE ~ (dire[f] # "write" \/ n = 0)
  <2> DEFINE s == bst[f]
             k == bkoff[f]
             d == bdisk[path[f]]
             ud == un.disk[path[f]]
             uk == un.koff[f]
  <2>1. PICK r \in Writes(s, bs) :
          /\ BufferedTo(f, r.s, k + Len(r.wrote)) /\ bdisk' = Wrote(bdisk, bkoff, f, r.wrote)
          /\ written' = written + n /\ apart' = (apart \/ r.fails)
          /\ Answered(r.got \div size, nmemb, UnWrote(f, bs))
    BY <1>4 DEF FileFwrite
  <2>2. written \in Nat /\ apart \in BOOLEAN /\ IsOpen(f) /\ dire[f] = "write"
    BY <1>4 DEF FileInv, FileTypes, IsOpen
  <2>3. bs \in Seq(Nat) /\ Len(bs) = n
    BY <1>1, <2>2, NumbersOK
  <2>4. /\ path[f] \in Names /\ uk \in Nat /\ ud \in Seq(Nat) /\ d \in Seq(Nat)
        /\ UnWrote(f, bs) = UnAt(f, uk + Len(bs), PutAt(ud, uk, bs))
    BY <2>2, UnAtIs
  <2>5. GoodStruct("write", s, k)
    BY <2>2 DEF FileInv, StructsOK
  <2> DEFINE x == PutAt(d, k, r.wrote)
             y == PutAt(ud, uk, bs)
             z == k + Len(r.wrote)
  <2>6. WriteEnds(s, k, d, bs, r)
    BY <2>1, <2>3, <2>4, <2>5, WritesEnd
  <2>7. r.fails \in BOOLEAN /\ r.wrote \in Seq(Nat) /\ GoodStruct("write", r.s, z)
    BY <2>6 DEF WriteEnds
  <2>8. x \in Seq(Nat) /\ y \in Seq(Nat)
    BY <2>3, <2>4, <2>5, <2>7, PutAtType DEF GoodStruct
  <2>9. bdisk' = [bdisk EXCEPT ![path[f]] = x]
    BY <2>1 DEF Wrote
  <2>10. agree' = (apart' \/ r.got \div size = nmemb)
         /\ un' = IF apart' THEN Lost ELSE UnAt(f, uk + n, y)
    BY <2>1, <2>3, <2>4 DEF Answered, Lost
  <2>11. apart' \in BOOLEAN /\ (apart => apart') /\ (~apart' => ~apart /\ ~r.fails)
    BY <2>1, <2>2, <2>7
  <2>12. ASSUME ~apart'
         PROVE  agree' /\ Twin("write", r.s, z, x, uk + n, y)
    <3>1. ~apart /\ ~r.fails
      BY <2>11, <2>12
    <3>2. uk = At(s) /\ ud = PutAt(d, k, s.buf)
      BY <2>2, <3>1 DEF FileInv, Alike, Twin, Content, At
    <3>3. /\ r.got = Len(bs) /\ At(r.s) = At(s) + Len(bs)
          /\ PutAt(x, z, r.s.buf) = PutAt(PutAt(d, k, s.buf), At(s), bs)
      BY <2>6, <3>1 DEF WriteEnds
    <3>4. r.got \div size = nmemb
      BY <1>1, <2>3, <3>3
    <3>5. agree'
      BY <2>10, <3>4, Zenon
    <3>6. uk + n = At(r.s) /\ y = PutAt(x, z, r.s.buf)
      BY <2>3, <3>2, <3>3
    <3>7. Twin("write", r.s, z, x, uk + n, y)
      BY <3>6 DEF Twin, Content, At
    <3>8. QED
      BY <3>5, <3>7
  <2>13. uk + n \in Nat /\ written' \in Nat
    BY <1>1, <2>1, <2>2, <2>4
  <2>14. f \in strayed => apart
    BY DEF FileInv, StrayedApart
  <2> HIDE DEF s, k, d, ud, uk, x, y, z, bs, n
  <2>15. StructStep(f, r.s, z, x, uk + n, y)
    BY <1>2, <2>1, <2>9, <2>10, <2>11, <2>12, <2>13, <2>14 DEF StructStep, z, k
  <2>16. QED
    BY <2>2, <2>4, <2>7, <2>8, <2>12, <2>13, <2>15, StructStepKeeps
<1>5. QED
  BY <1>3, <1>4

\* The first j bytes of the buffer of f get out.
LEMMA PartOut ==
  ASSUME FileInv, NEW f \in Structs, dire[f] = "write", NEW j \in 0..bst[f].ptr
  PROVE  /\ GoodStruct("write", FileFlushed(bst[f], j), bkoff[f] + j)
         /\ FileFlushed(bst[f], j).buf = <<>> /\ At(FileFlushed(bst[f], j)) = bkoff[f] + j
         /\ FileFlushed(bst[f], j).off = bkoff[f] + j
         /\ bkoff[f] + j \in Nat /\ bst[f].ptr \in Nat /\ j \in Nat
         /\ SubSeq(bst[f].buf, 1, j) \in Seq(Nat)
         /\ PutAt(bdisk[path[f]], bkoff[f], SubSeq(bst[f].buf, 1, j)) \in Seq(Nat)
         /\ j = bst[f].ptr => SubSeq(bst[f].buf, 1, j) = bst[f].buf
<1> DEFINE s == bst[f]
           k == bkoff[f]
           d == bdisk[path[f]]
<1>1. IsOpen(f)
  BY DEF IsOpen
<1>2. GoodStruct("write", s, k)
  BY <1>1 DEF FileInv, StructsOK
<1>3. s.buf \in Seq(Nat) /\ s.ptr \in Nat /\ Len(s.buf) = s.ptr /\ k \in Nat
  BY <1>2 DEF GoodStruct, BufStructs
<1>4. d \in Seq(Nat)
  BY <1>1, UnAtIs
<1>5. j \in 0..s.ptr
  OBVIOUS
<1> HIDE DEF s, k, d
<1>6. j \in Nat /\ j <= s.ptr
  BY <1>3, <1>5
<1>7. SubSeq(s.buf, 1, j) \in Seq(Nat)
  <2>1. 1 \in Nat /\ 0 < 1 /\ 1 <= j + 1 /\ j <= Len(s.buf)
    BY <1>3, <1>6
  <2>2. QED
    BY <1>3, <1>6, <2>1, SubSeqOK
<1>8. PutAt(d, k, SubSeq(s.buf, 1, j)) \in Seq(Nat)
  BY <1>3, <1>4, <1>7, PutAtType
<1>9. j = s.ptr => SubSeq(s.buf, 1, j) = s.buf
  BY <1>3, SubSeqFull
<1>10. /\ GoodStruct("write", FileFlushed(s, j), k + j)
       /\ FileFlushed(s, j).buf = <<>> /\ At(FileFlushed(s, j)) = k + j
       /\ FileFlushed(s, j).off = k + j
  BY <1>2, <1>6, FileFlushedOK
<1>11. k + j \in Nat
  BY <1>3, <1>6
<1>12. QED
  BY <1>3, <1>6, <1>7, <1>8, <1>9, <1>10, <1>11 DEF s, k, d

\* What the other one has of a stream that is written.
LEMMA WriterTwin ==
  ASSUME FileInv, NEW f \in Structs, dire[f] = "write", ~apart
  PROVE  /\ un.koff[f] = bkoff[f] + bst[f].ptr
         /\ un.disk[path[f]] = PutAt(bdisk[path[f]], bkoff[f], bst[f].buf)
BY DEF FileInv, StructsOK, GoodStruct, Alike, Twin, Content, IsOpen

LEMMA FflushKeeps ==
  ASSUME FileInv, NEW f \in Structs, FileFflush(f)
  PROVE  FileInv'
<1> DEFINE s == bst[f]
           k == bkoff[f]
           d == bdisk[path[f]]
           ud == un.disk[path[f]]
           uk == un.koff[f]
<1>1. PICK j \in 0..s.ptr :
        /\ FileFlush(f, j) /\ bst' = [bst EXCEPT ![f] = FileFlushed(@, j)]
        /\ apart' = (apart \/ j < s.ptr)
        /\ Answered(IF j = s.ptr THEN 0 ELSE EOF, 0, un)
  BY DEF FileFflush
<1>2. ~over /\ dire[f] = "write" /\ UNCHANGED <<dire, path, written, strayed, over>>
  BY DEF FileFflush, Using
<1>3. IsOpen(f)
  BY <1>2 DEF IsOpen
<1>4. uk \in Nat /\ ud \in Seq(Nat) /\ un = UnAt(f, uk, ud)
  BY <1>3, UnAtIs
<1> DEFINE g == FileFlushed(s, j)
           w == SubSeq(s.buf, 1, j)
           x == PutAt(d, k, w)
           z == k + j
<1>5. /\ GoodStruct("write", g, z) /\ g.buf = <<>> /\ At(g) = z /\ z \in Nat
      /\ s.ptr \in Nat /\ j \in Nat /\ x \in Seq(Nat) /\ (j = s.ptr => w = s.buf)
  BY <1>1, <1>2, PartOut
<1>6. BufferedTo(f, g, z) /\ bdisk' = [bdisk EXCEPT ![path[f]] = x]
  BY <1>1 DEF BufferedTo, FileFlush, Wrote
<1>7. /\ agree' = (apart' \/ (IF j = s.ptr THEN 0 ELSE EOF) = 0)
      /\ un' = IF apart' THEN Lost ELSE UnAt(f, uk, ud)
  BY <1>1, <1>4 DEF Answered, Lost
<1>8. apart \in BOOLEAN /\ written \in Nat /\ (f \in strayed => apart)
  BY DEF FileInv, FileTypes, StrayedApart
<1>a. j \in 0..s.ptr
  BY <1>1
<1>9. apart' \in BOOLEAN /\ (apart => apart') /\ (~apart' => ~apart /\ j = s.ptr)
  <2>1. CASE j < s.ptr
    BY <1>1, <1>5, <1>8, <2>1
  <2>2. CASE ~ (j < s.ptr)
    <3>1. apart' = apart
      BY <1>1, <1>8, <2>2
    <3> HIDE DEF s
    <3>2. j = s.ptr
      BY <1>5, <1>a, <2>2
    <3>3. QED
      BY <1>8, <3>1, <3>2
  <2>3. QED
    BY <2>1, <2>2
<1>10. ASSUME ~apart'
       PROVE  agree' /\ Twin("write", g, z, x, uk, ud)
  <2>1. ~apart /\ j = s.ptr
    BY <1>9, <1>10
  <2>2. uk = z /\ ud = PutAt(d, k, s.buf)
    BY <1>2, <2>1, WriterTwin
  <2>3. PutAt(x, z, g.buf) = x /\ x = ud
    BY <1>5, <2>1, <2>2, PutAtNothing
  <2>4. (IF j = s.ptr THEN 0 ELSE EOF) = 0
    BY <2>1
  <2>5. agree'
    BY <1>7, <2>4, Zenon
  <2>6. uk = g.off + g.ptr
    BY <1>5, <2>2 DEF At
  <2>7. QED
    BY <2>3, <2>5, <2>6 DEF Twin, Content
<1> HIDE DEF s, k, d, ud, uk, g, w, x, z
<1>11. StructStep(f, g, z, x, uk, ud)
  BY <1>2, <1>6, <1>7, <1>8, <1>9, <1>10 DEF StructStep
<1>12. QED
  BY <1>2, <1>3, <1>4, <1>5, <1>10, <1>11, StructStepKeeps

-----------------------------------------------------------------------------
\* fseek of a stream that is read; base is where SEEK_CUR counts from.
LEMMA SoughtOK ==
  ASSUME NEW s, NEW k, GoodStruct("read", s, k), NEW o \in Nat, NEW ok \in BOOLEAN, NEW target,
         ok => target \in Nat
  PROVE  LET g == Sought(Discarded([s EXCEPT !.off = o]), ok, target) IN
         /\ GoodStruct("read", g, IF ok THEN target ELSE k)
         /\ ok => At(g) = target
         /\ \A d : ok => Ahead(g, target, d)
<1> DEFINE h == Discarded([s EXCEPT !.off = o])
           g == Sought(h, ok, target)
<1>1. s \in BufStructs /\ k \in Nat
  BY DEF GoodStruct
<1>2. <<>> \in Seq(Nat) /\ Len(<<>>) = 0
  BY EmptySeq
<1>3. h = [[s EXCEPT !.off = o] EXCEPT !.ptr = 0, !.last = 0, !.buf = <<>>]
  BY DEF Discarded
<1> HIDE DEF h
<1>h. h \in BufStructs /\ h.ptr = 0 /\ h.last = 0 /\ h.buf = <<>>
  BY <1>1, <1>2, <1>3 DEF BufStructs
<1>4. CASE ~ok
  <2>1. g = h
    BY <1>4 DEF Sought
  <2> HIDE DEF g, h
  <2>2. g \in BufStructs /\ g.ptr = 0 /\ g.last = 0 /\ g.buf = <<>>
    BY <1>h, <2>1
  <2>3. GoodStruct("read", g, k)
    BY <1>1, <1>2, <2>2, FileBufSizeAssumption DEF GoodStruct
  <2>4. QED
    BY <1>4, <2>3 DEF g, h
<1>5. CASE ok
  <2>1. g = [h EXCEPT !.off = target] /\ target \in Nat
    BY <1>5 DEF Sought
  <2> HIDE DEF g, h
  <2>2. g \in BufStructs /\ g.ptr = 0 /\ g.last = 0 /\ g.off = target /\ g.buf = <<>>
    BY <1>h, <2>1 DEF BufStructs
  <2>3. GoodStruct("read", g, target)
    BY <1>2, <2>1, <2>2, FileBufSizeAssumption DEF GoodStruct
  <2>4. At(g) = target
    BY <2>1, <2>2 DEF At
  <2>5. ASSUME NEW d
        PROVE  Ahead(g, target, d)
    <3>1. target + 1 \in Int /\ target + 0 \in Int /\ target + 0 < target + 1 /\ target + 0 = target
      BY <2>1
    <3>2. Bytes(d, target, 0) = <<>>
      BY <3>1, SubSeqEmpty DEF Bytes
    <3>3. QED
      BY <2>2, <3>1, <3>2 DEF Ahead
  <2>6. QED
    BY <1>5, <2>3, <2>4, <2>5 DEF g, h
<1>6. QED
  BY <1>4, <1>5

Whences == {"SEEK_SET", "SEEK_CUR", "SEEK_END"}

\* What a step of fseek leaves of the answers, if both seek to the same offset.
LEMMA SeekAnswers ==
  ASSUME NEW ok \in BOOLEAN, NEW uok \in BOOLEAN, NEW f, NEW next,
         Answered(IF ok THEN 0 ELSE EOF, IF uok THEN 0 ELSE EOF, next)
  PROVE  /\ (ok <=> uok) => agree'
         /\ un' = IF apart' THEN Lost ELSE next
<1>1. /\ agree' = (apart' \/ (IF ok THEN 0 ELSE EOF) = (IF uok THEN 0 ELSE EOF))
      /\ un' = IF apart' THEN Lost ELSE next
  BY DEF Answered, Lost
<1>2. ASSUME ok <=> uok PROVE agree'
  <2>1. (IF ok THEN 0 ELSE EOF) = (IF uok THEN 0 ELSE EOF)
    BY <1>2
  <2>2. QED
    BY <1>1, <2>1, Zenon
<1>3. QED
  BY <1>1, <1>2

\* The other one after its lseek(2).
UnSought(f, utarget) == IF utarget >= 0 THEN [un EXCEPT !.koff[f] = utarget] ELSE un

LEMMA UnSoughtIs ==
  ASSUME FileInv, NEW f \in Structs, IsOpen(f), NEW utarget
  PROVE  UnSought(f, utarget) =
           UnAt(f, IF utarget >= 0 THEN utarget ELSE un.koff[f], un.disk[path[f]])
BY UnAtIs DEF UnSought

\* fseek, with its LETs as operators.
SeekFlushed(f, k) == k = bst[f].ptr \/ dire[f] = "read"
SeekDisk(f, k) == Wrote(bdisk, bkoff, f, SubSeq(bst[f].buf, 1, IF dire[f] = "read" THEN 0 ELSE k))
SeekKoff(f, k) == [bkoff EXCEPT ![f] = @ + k]
SeekStruct(f, whence, k) ==
  IF dire[f] = "read" THEN Discarded([bst[f] EXCEPT !.off = IF whence = "SEEK_CUR"
                                                              THEN ReadBase(f) ELSE @])
  ELSE FileFlushed(bst[f], k)
SeekTarget(f, offset, whence, k) ==
  offset + (IF dire[f] = "read" /\ whence = "SEEK_CUR" THEN ReadBase(f)
            ELSE From(whence, SeekKoff(f, k), SeekDisk(f, k), f))
SeekOk(f, offset, whence, k) == SeekFlushed(f, k) /\ SeekTarget(f, offset, whence, k) >= 0

LEMMA FseekIs ==
  ASSUME NEW f \in Structs, NEW offset \in Int, NEW whence \in Whences,
         FileFseek(f, offset, whence)
  PROVE  \E k \in CloseFlushes(f) :
           LET target == SeekTarget(f, offset, whence, k)
               ok == SeekOk(f, offset, whence, k) IN
           /\ bdisk' = SeekDisk(f, k)
           /\ bkoff' = [bkoff EXCEPT ![f] = IF ok THEN target ELSE SeekKoff(f, k)[f]]
           /\ bst' = [bst EXCEPT ![f] = Sought(SeekStruct(f, whence, k), ok, target)]
           /\ strayed' = IF ~ok /\ dire[f] = "read" THEN strayed \union {f}
                         ELSE IF ok THEN strayed \ {f} ELSE strayed
           /\ apart' = (apart \/ ~SeekFlushed(f, k) \/ (~ok /\ dire[f] = "read"))
           /\ Answered(IF ok THEN 0 ELSE EOF, IF UnTarget(f, offset, whence) >= 0 THEN 0 ELSE EOF,
                       UnSought(f, UnTarget(f, offset, whence)))
BY Zenon DEF FileFseek, SeekFlushed, SeekDisk, SeekKoff, SeekStruct, SeekTarget, SeekOk, UnSought

LEMMA ReaderSeeks ==
  ASSUME FileInv, NEW f \in Structs, dire[f] = "read", NEW offset \in Int, NEW whence \in Whences,
         FileFseek(f, offset, whence)
  PROVE  LET s == bst[f]
             k == bkoff[f]
             d == bdisk[path[f]]
             o == IF whence = "SEEK_CUR" THEN At(s) ELSE s.off
             target == offset + (IF whence = "SEEK_CUR" THEN At(s)
                                 ELSE IF whence = "SEEK_END" THEN Len(d) ELSE 0)
             ok == target >= 0
             utarget == UnTarget(f, offset, whence)
             uok == utarget >= 0
         IN
         /\ ~over /\ UNCHANGED <<dire, path, written, over>>
         /\ BufferedTo(f, Sought(Discarded([s EXCEPT !.off = o]), ok, target),
                       IF ok THEN target ELSE k)
         /\ bdisk' = [bdisk EXCEPT ![path[f]] = d]
         /\ strayed' = IF ok THEN strayed \ {f} ELSE strayed \union {f}
         /\ apart' = (apart \/ ~ok)
         /\ Answered(IF ok THEN 0 ELSE EOF, IF uok THEN 0 ELSE EOF, UnSought(f, utarget))
<1> DEFINE s == bst[f]
           k == bkoff[f]
           d == bdisk[path[f]]
           b == IF whence = "SEEK_CUR" THEN At(s) ELSE IF whence = "SEEK_END" THEN Len(d) ELSE 0
           h == Discarded([s EXCEPT !.off = IF whence = "SEEK_CUR" THEN At(s) ELSE s.off])
           target == offset + b
           ok == target >= 0
           utarget == UnTarget(f, offset, whence)
<1>1. IsOpen(f) /\ dire[f] # "write"
  BY DEF IsOpen
<1>2. GoodStruct("read", s, k) /\ path[f] \in Names /\ d \in Seq(Nat) /\ k \in Nat
  BY <1>1, UnAtIs DEF FileInv, StructsOK, GoodStruct
<1>3. ~over /\ UNCHANGED <<dire, path, written, over>>
  BY DEF FileFseek, Using
<1>4. CloseFlushes(f) = {0}
  BY <1>1 DEF CloseFlushes
<1>5. SeekDisk(f, 0) = bdisk /\ bdisk = [bdisk EXCEPT ![path[f]] = d]
  <2>1. SubSeq(bst[f].buf, 1, 0) = <<>>
    BY SubSeqEmpty
  <2>2. SeekDisk(f, 0) = [bdisk EXCEPT ![path[f]] = d]
    BY <2>1, PutAtNothing DEF Wrote, SeekDisk
  <2>3. QED
    BY <1>2, <2>2 DEF FileInv, FileTypes, Contents
<1>6. SeekKoff(f, 0)[f] = k
  BY <1>2 DEF FileInv, FileTypes, SeekKoff
<1>7. SeekTarget(f, offset, whence, 0) = target
  BY <1>5, <1>6 DEF SeekTarget, Whences, From, ReadBase, At
<1>8. SeekStruct(f, whence, 0) = h
  BY DEF SeekStruct, ReadBase, At
<1>9. SeekFlushed(f, 0)
  BY DEF SeekFlushed
<1>10. SeekOk(f, offset, whence, 0) = ok
  BY <1>7, <1>9 DEF SeekOk
<1>11. /\ bdisk' = SeekDisk(f, 0)
       /\ bkoff' = [bkoff EXCEPT ![f] = IF ok THEN target ELSE SeekKoff(f, 0)[f]]
       /\ bst' = [bst EXCEPT ![f] = Sought(SeekStruct(f, whence, 0), ok, target)]
       /\ strayed' = IF ~ok /\ dire[f] = "read" THEN strayed \union {f}
                     ELSE IF ok THEN strayed \ {f} ELSE strayed
       /\ apart' = (apart \/ ~SeekFlushed(f, 0) \/ (~ok /\ dire[f] = "read"))
       /\ Answered(IF ok THEN 0 ELSE EOF, IF utarget >= 0 THEN 0 ELSE EOF, UnSought(f, utarget))
  <2> HIDE DEF target, ok, utarget, s
  <2>1. PICK j \in CloseFlushes(f) :
           /\ bdisk' = SeekDisk(f, j)
           /\ bkoff' = [bkoff EXCEPT ![f] = IF SeekOk(f, offset, whence, j)
                          THEN SeekTarget(f, offset, whence, j) ELSE SeekKoff(f, j)[f]]
           /\ bst' = [bst EXCEPT ![f] = Sought(SeekStruct(f, whence, j), SeekOk(f, offset, whence, j),
                                               SeekTarget(f, offset, whence, j))]
           /\ strayed' = IF ~SeekOk(f, offset, whence, j) /\ dire[f] = "read" THEN strayed \union {f}
                         ELSE IF SeekOk(f, offset, whence, j) THEN strayed \ {f} ELSE strayed
           /\ apart' = (apart \/ ~SeekFlushed(f, j) \/ (~SeekOk(f, offset, whence, j) /\ dire[f] = "read"))
           /\ Answered(IF SeekOk(f, offset, whence, j) THEN 0 ELSE EOF,
                       IF UnTarget(f, offset, whence) >= 0 THEN 0 ELSE EOF,
                       UnSought(f, UnTarget(f, offset, whence)))
    BY FseekIs
  <2>2. j = 0
    BY <1>4
  <2>3. QED
    BY <1>7, <1>10, <2>1, <2>2 DEF utarget
<1>12. ok \in BOOLEAN
  OBVIOUS
<1> HIDE DEF s, k, d, h, ok, target, utarget
<1>13. /\ BufferedTo(f, Sought(h, ok, target), IF ok THEN target ELSE k)
       /\ bdisk' = [bdisk EXCEPT ![path[f]] = d]
       /\ strayed' = IF ok THEN strayed \ {f} ELSE strayed \union {f}
  BY <1>5, <1>6, <1>8, <1>11, <1>12 DEF BufferedTo
<1>14. apart' = (apart \/ ~ok)
  BY <1>9, <1>11, Zenon
<1>15. QED
  BY <1>3, <1>11, <1>13, <1>14 DEF s, k, d, h, ok, target, utarget, b

LEMMA FseekReadKeeps ==
  ASSUME FileInv, NEW f \in Structs, dire[f] = "read", NEW offset \in Int, NEW whence \in Whences,
         FileFseek(f, offset, whence)
  PROVE  FileInv'
<1> DEFINE s == bst[f]
           k == bkoff[f]
           d == bdisk[path[f]]
           ud == un.disk[path[f]]
           uk == un.koff[f]
           o == IF whence = "SEEK_CUR" THEN At(s) ELSE s.off
           b == IF whence = "SEEK_CUR" THEN At(s) ELSE IF whence = "SEEK_END" THEN Len(d) ELSE 0
           target == offset + b
           ok == target >= 0
           utarget == UnTarget(f, offset, whence)
           uok == utarget >= 0
           uk2 == IF uok THEN utarget ELSE uk
           k2 == IF ok THEN target ELSE k
           g == Sought(Discarded([s EXCEPT !.off = o]), ok, target)
<1>1. /\ ~over /\ UNCHANGED <<dire, path, written, over>>
      /\ BufferedTo(f, g, k2)
      /\ bdisk' = [bdisk EXCEPT ![path[f]] = d]
      /\ strayed' = IF ok THEN strayed \ {f} ELSE strayed \union {f}
      /\ apart' = (apart \/ ~ok)
      /\ Answered(IF ok THEN 0 ELSE EOF, IF uok THEN 0 ELSE EOF, UnSought(f, utarget))
  BY ReaderSeeks
<1>2. IsOpen(f)
  BY DEF IsOpen
<1>3. /\ uk \in Nat /\ ud \in Seq(Nat) /\ d \in Seq(Nat)
      /\ UnSought(f, utarget) = UnAt(f, uk2, ud)
  BY <1>2, UnAtIs, UnSoughtIs
<1>4. GoodStruct("read", s, k)
  BY <1>2 DEF FileInv, StructsOK
<1>5. s.off \in Nat /\ s.ptr \in Nat /\ k \in Nat /\ Len(d) \in Nat /\ At(s) \in Nat
  BY <1>3, <1>4, LenProperties DEF GoodStruct, BufStructs, At
<1>6. o \in Nat /\ b \in Nat
  BY <1>5
<1>7. target \in Int /\ ok \in BOOLEAN /\ (ok => target \in Nat)
  <2> HIDE DEF b
  <2>1. QED
    BY <1>6
<1>8. apart \in BOOLEAN /\ written \in Nat /\ (~apart => strayed = {})
  BY DEF FileInv, FileTypes, StrayedApart
<1>u. uk = un.koff[f] /\ ud = un.disk[path[f]] /\ s = bst[f] /\ k = bkoff[f] /\ d = bdisk[path[f]]
  OBVIOUS
<1>9. ASSUME ~apart
      PROVE  uk = At(s) /\ ud = d /\ utarget = target
  <2>1. uk = At(s) /\ ud = d
    BY <1>2, <1>9 DEF FileInv, Alike, Twin, Content, At
  <2>2. From(whence, un.koff, un.disk, f) = b
    <3> HIDE DEF s
    <3>1. QED
      BY <2>1 DEF From, Whences
  <2>3. QED
    BY <2>1, <2>2 DEF UnTarget
<1>10. utarget \in Int
  <2>1. From(whence, un.koff, un.disk, f) \in Nat
    BY <1>3, LenProperties DEF From, Whences
  <2>2. QED
    BY <2>1 DEF UnTarget
<1>11. uk2 \in Nat /\ uok \in BOOLEAN
  <2> HIDE DEF utarget, uk
  <2>1. QED
    BY <1>3, <1>10
<1> HIDE DEF s, k, d, ud, uk, o, b, target, ok, utarget, uok
<1>12. (ok <=> uok) => agree'
  BY <1>1, <1>7, <1>11, SeekAnswers
<1>13. un' = IF apart' THEN Lost ELSE UnAt(f, uk2, ud)
  BY <1>1, <1>3, <1>7, <1>11, SeekAnswers
<1>14. apart' \in BOOLEAN /\ (apart => apart') /\ (~apart' => ~apart /\ ok)
  BY <1>1, <1>7, <1>8
<1>15. /\ GoodStruct("read", g, k2) /\ (ok => At(g) = target)
       /\ (ok => Ahead(g, target, d))
  BY <1>4, <1>6, <1>7, SoughtOK
<1>16. ASSUME ~apart'
       PROVE  agree' /\ Twin("read", g, k2, d, uk2, ud)
  <2>1. ~apart /\ ok
    BY <1>14, <1>16
  <2>2. uk = At(s) /\ ud = d /\ utarget = target
    BY <1>9, <2>1
  <2>3. uok
    BY <2>1, <2>2 DEF ok, uok
  <2>4. uk2 = target
    BY <2>2, <2>3
  <2> HIDE DEF g, uk2
  <2>5. agree'
    BY <1>12, <2>1, <2>3
  <2>6. uk2 = g.off + g.ptr
    BY <1>15, <2>1, <2>4 DEF At
  <2>7. QED
    BY <2>2, <2>5, <2>6 DEF Twin, Content
<1>17. f \notin strayed' => ok
  BY <1>1, <1>7
<1>18. f \notin strayed' => Ahead(g, k2, d)
  BY <1>15, <1>17
<1>19. f \in strayed' => apart'
  <2>1. ok => f \notin strayed'
    BY <1>1
  <2>2. QED
    BY <1>7, <1>14, <2>1
<1>20. strayed' \subseteq strayed \union {f} /\ strayed \ {f} \subseteq strayed'
  BY <1>1, <1>7
<1> HIDE DEF g, k2, uk2
<1>21. StructStep(f, g, k2, d, uk2, ud)
  BY <1>1, <1>8, <1>13, <1>14, <1>16, <1>19, <1>20 DEF StructStep
<1>22. QED
  BY <1>2, <1>3, <1>11, <1>15, <1>16, <1>18, <1>21, StructStepKeeps
\* fseek of a stream that is written, of whose buffer j bytes get out.
LEMMA WriterSeeks ==
  ASSUME FileInv, NEW f \in Structs, dire[f] = "write", NEW offset \in Int, NEW whence \in Whences,
         FileFseek(f, offset, whence)
  PROVE  \E j \in 0..bst[f].ptr :
         LET s == bst[f]
             z == bkoff[f] + j
             x == PutAt(bdisk[path[f]], bkoff[f], SubSeq(s.buf, 1, j))
             target == offset + (IF whence = "SEEK_CUR" THEN z
                                 ELSE IF whence = "SEEK_END" THEN Len(x) ELSE 0)
             ok == j = s.ptr /\ target >= 0
             utarget == UnTarget(f, offset, whence)
             uok == utarget >= 0
         IN
         /\ ~over /\ UNCHANGED <<dire, path, written, over>>
         /\ BufferedTo(f, Sought(FileFlushed(s, j), ok, target), IF ok THEN target ELSE z)
         /\ bdisk' = [bdisk EXCEPT ![path[f]] = x]
         /\ strayed' = IF ok THEN strayed \ {f} ELSE strayed
         /\ apart' = (apart \/ ~(j = s.ptr))
         /\ Answered(IF ok THEN 0 ELSE EOF, IF uok THEN 0 ELSE EOF, UnSought(f, utarget))
<1>1. IsOpen(f) /\ dire[f] # "read"
  BY DEF IsOpen
<1>2. path[f] \in Names
  BY <1>1, UnAtIs
<1>3. ~over /\ UNCHANGED <<dire, path, written, over>>
  BY DEF FileFseek, Using
<1>4. CloseFlushes(f) = 0..bst[f].ptr
  BY DEF CloseFlushes
<1>5. PICK j \in CloseFlushes(f) :
           /\ bdisk' = SeekDisk(f, j)
           /\ bkoff' = [bkoff EXCEPT ![f] = IF SeekOk(f, offset, whence, j)
                          THEN SeekTarget(f, offset, whence, j) ELSE SeekKoff(f, j)[f]]
           /\ bst' = [bst EXCEPT ![f] = Sought(SeekStruct(f, whence, j), SeekOk(f, offset, whence, j),
                                               SeekTarget(f, offset, whence, j))]
           /\ strayed' = IF ~SeekOk(f, offset, whence, j) /\ dire[f] = "read" THEN strayed \union {f}
                         ELSE IF SeekOk(f, offset, whence, j) THEN strayed \ {f} ELSE strayed
           /\ apart' = (apart \/ ~SeekFlushed(f, j) \/ (~SeekOk(f, offset, whence, j) /\ dire[f] = "read"))
           /\ Answered(IF SeekOk(f, offset, whence, j) THEN 0 ELSE EOF,
                       IF UnTarget(f, offset, whence) >= 0 THEN 0 ELSE EOF,
                       UnSought(f, UnTarget(f, offset, whence)))
  BY FseekIs
<1> DEFINE s == bst[f]
           z == bkoff[f] + j
           x == PutAt(bdisk[path[f]], bkoff[f], SubSeq(s.buf, 1, j))
           b == IF whence = "SEEK_CUR" THEN z ELSE IF whence = "SEEK_END" THEN Len(x) ELSE 0
           target == offset + b
           ok == j = s.ptr /\ target >= 0
           utarget == UnTarget(f, offset, whence)
<1>6. SeekDisk(f, j) = [bdisk EXCEPT ![path[f]] = x]
  BY <1>1 DEF Wrote, SeekDisk
<1>7. SeekKoff(f, j)[f] = z
  BY DEF FileInv, FileTypes, SeekKoff
<1>8. SeekDisk(f, j)[path[f]] = x
  BY <1>2, <1>6 DEF FileInv, FileTypes, Contents
<1>9. SeekTarget(f, offset, whence, j) = target
  BY <1>1, <1>7, <1>8 DEF SeekTarget, Whences, From
<1>10. SeekStruct(f, whence, j) = FileFlushed(s, j)
  BY <1>1 DEF SeekStruct
<1>11. SeekFlushed(f, j) = (j = s.ptr)
  BY <1>1 DEF SeekFlushed
<1>12. SeekOk(f, offset, whence, j) = ok
  BY <1>9, <1>11 DEF SeekOk
<1>13. ok \in BOOLEAN
  OBVIOUS
<1>14. j \in 0..bst[f].ptr
  BY <1>4
<1> DEFINE full == j = s.ptr
<1>15. (dire[f] = "read") = FALSE
  BY <1>1
<1>f. full \in BOOLEAN /\ SeekFlushed(f, j) = full
  BY <1>11
<1> HIDE DEF s, z, x, b, target, ok, utarget, full
<1>16. apart' = (apart \/ ~full)
  <2>1. apart' = (apart \/ ~SeekFlushed(f, j) \/ (~SeekOk(f, offset, whence, j) /\ FALSE))
    BY <1>5, <1>15, Zenon
  <2>2. apart' = (apart \/ ~full \/ (~SeekOk(f, offset, whence, j) /\ FALSE))
    BY <1>f, <2>1, Zenon
  <2>3. QED
    BY <2>2, Zenon
<1>17. BufferedTo(f, Sought(FileFlushed(s, j), ok, target), IF ok THEN target ELSE z)
  BY <1>5, <1>7, <1>9, <1>10, <1>12 DEF BufferedTo
<1>18. strayed' = IF ok THEN strayed \ {f} ELSE strayed
  BY <1>1, <1>5, <1>12
<1>19. Answered(IF ok THEN 0 ELSE EOF, IF utarget >= 0 THEN 0 ELSE EOF, UnSought(f, utarget))
  BY <1>5, <1>12 DEF utarget
<1>20. bdisk' = [bdisk EXCEPT ![path[f]] = x]
  BY <1>5, <1>6
<1>21. QED
  BY <1>3, <1>14, <1>16, <1>17, <1>18, <1>19, <1>20 DEF s, z, x, b, target, ok, utarget, full

\* An empty buffer of a stream that is written, after lseek(2).
LEMMA EmptySought ==
  ASSUME NEW s, NEW z \in Nat, GoodStruct("write", s, z), s.buf = <<>>, NEW ok \in BOOLEAN, NEW target,
         ok => target \in Nat
  PROVE  /\ GoodStruct("write", Sought(s, ok, target), IF ok THEN target ELSE z)
         /\ Sought(s, ok, target).buf = <<>>
         /\ At(Sought(s, ok, target)) = IF ok THEN target ELSE z
<1> DEFINE g == Sought(s, ok, target)
<1>1. /\ s \in BufStructs /\ s.ptr \in Nat /\ s.ptr = 0 /\ s.off = z
      /\ s.ptr <= FileBufSize /\ s.last <= FileBufSize
  BY EmptySeq DEF GoodStruct, BufStructs
<1>2. CASE ~ok
  <2>1. g = s
    BY <1>2 DEF Sought
  <2>2. At(s) = z
    BY <1>1 DEF At
  <2>3. QED
    BY <1>2, <2>1, <2>2
<1>3. CASE ok
  <2>1. g = [s EXCEPT !.off = target] /\ target \in Nat
    BY <1>3 DEF Sought
  <2> HIDE DEF g
  <2>2. g \in BufStructs /\ g.ptr = 0 /\ g.last = s.last /\ g.off = target /\ g.buf = <<>>
    BY <1>1, <2>1 DEF BufStructs
  <2>3. GoodStruct("write", g, target)
    BY <1>1, <2>1, <2>2, EmptySeq DEF GoodStruct
  <2>4. At(g) = target
    BY <2>1, <2>2 DEF At
  <2>5. QED
    BY <1>3, <2>2, <2>3, <2>4 DEF g
<1>4. QED
  BY <1>2, <1>3

LEMMA FseekWriteKeeps ==
  ASSUME FileInv, NEW f \in Structs, dire[f] = "write", NEW offset \in Int, NEW whence \in Whences,
         FileFseek(f, offset, whence)
  PROVE  FileInv'
<1> DEFINE s == bst[f]
           k == bkoff[f]
           d == bdisk[path[f]]
           ud == un.disk[path[f]]
           uk == un.koff[f]
           utarget == UnTarget(f, offset, whence)
           uok == utarget >= 0
           uk2 == IF uok THEN utarget ELSE uk
<1>1. PICK j \in 0..s.ptr :
         LET z == k + j
             x == PutAt(d, k, SubSeq(s.buf, 1, j))
             target == offset + (IF whence = "SEEK_CUR" THEN z
                                 ELSE IF whence = "SEEK_END" THEN Len(x) ELSE 0)
             ok == j = s.ptr /\ target >= 0
         IN
         /\ ~over /\ UNCHANGED <<dire, path, written, over>>
         /\ BufferedTo(f, Sought(FileFlushed(s, j), ok, target), IF ok THEN target ELSE z)
         /\ bdisk' = [bdisk EXCEPT ![path[f]] = x]
         /\ strayed' = IF ok THEN strayed \ {f} ELSE strayed
         /\ apart' = (apart \/ ~(j = s.ptr))
         /\ Answered(IF ok THEN 0 ELSE EOF, IF uok THEN 0 ELSE EOF, UnSought(f, utarget))
  BY WriterSeeks
<1> DEFINE z == k + j
           w == SubSeq(s.buf, 1, j)
           x == PutAt(d, k, w)
           b == IF whence = "SEEK_CUR" THEN z ELSE IF whence = "SEEK_END" THEN Len(x) ELSE 0
           target == offset + b
           full == j = s.ptr
           ok == full /\ target >= 0
           e == FileFlushed(s, j)
           g == Sought(e, ok, target)
           k2 == IF ok THEN target ELSE z
<1>2. /\ ~over /\ UNCHANGED <<dire, path, written, over>>
      /\ BufferedTo(f, g, k2)
      /\ bdisk' = [bdisk EXCEPT ![path[f]] = x]
      /\ strayed' = IF ok THEN strayed \ {f} ELSE strayed
      /\ apart' = (apart \/ ~full)
      /\ Answered(IF ok THEN 0 ELSE EOF, IF uok THEN 0 ELSE EOF, UnSought(f, utarget))
  BY <1>1
<1>3. IsOpen(f)
  BY DEF IsOpen
<1>4. /\ uk \in Nat /\ ud \in Seq(Nat)
      /\ UnSought(f, utarget) = UnAt(f, uk2, ud)
  BY <1>3, UnAtIs, UnSoughtIs
<1>5. /\ GoodStruct("write", e, z) /\ e.buf = <<>> /\ z \in Nat
      /\ s.ptr \in Nat /\ x \in Seq(Nat) /\ (full => w = s.buf)
  BY <1>1, PartOut
<1>6. b \in Nat
  BY <1>5, LenProperties
<1>7. target \in Int /\ ok \in BOOLEAN /\ full \in BOOLEAN /\ (ok => target \in Nat /\ full)
  <2> HIDE DEF b
  <2>1. QED
    BY <1>6
<1>8. apart \in BOOLEAN /\ written \in Nat /\ (f \in strayed => apart)
  BY DEF FileInv, FileTypes, StrayedApart
<1>9. ASSUME ~apart, full
      PROVE  uk = z /\ ud = x /\ utarget = target
  <2>1. uk = z /\ ud = x
    BY <1>5, <1>9, WriterTwin
  <2>u. uk = un.koff[f] /\ ud = un.disk[path[f]]
    OBVIOUS
  <2> HIDE DEF s, z, x, uk, ud
  <2>2. From(whence, un.koff, un.disk, f) = b
    BY <2>1, <2>u DEF From, Whences
  <2>3. QED
    BY <2>1, <2>2 DEF UnTarget
<1>10. utarget \in Int
  <2>1. From(whence, un.koff, un.disk, f) \in Nat
    BY <1>4, LenProperties DEF From, Whences
  <2>2. QED
    BY <2>1 DEF UnTarget
<1>11. uk2 \in Nat /\ uok \in BOOLEAN
  <2> HIDE DEF utarget, uk
  <2>1. QED
    BY <1>4, <1>10
<1>u. uok = (utarget >= 0) /\ (full => ok = (target >= 0))
  OBVIOUS
<1>v. (uok => uk2 = utarget) /\ (~uok => uk2 = uk)
  OBVIOUS
<1> HIDE DEF s, k, d, ud, uk, w, x, z, b, target, ok, full, utarget, uok, uk2, e
<1>12. (ok <=> uok) => agree'
  BY <1>2, <1>7, <1>11, SeekAnswers
<1>13. un' = IF apart' THEN Lost ELSE UnAt(f, uk2, ud)
  BY <1>2, <1>4, <1>7, <1>11, SeekAnswers
<1>14. apart' \in BOOLEAN /\ (apart => apart') /\ (~apart' => ~apart /\ full)
  BY <1>2, <1>7, <1>8
<1>15. GoodStruct("write", g, k2) /\ g.buf = <<>> /\ At(g) = k2
  BY <1>5, <1>7, EmptySought
<1>16. ASSUME ~apart'
       PROVE  agree' /\ Twin("write", g, k2, x, uk2, ud)
  <2>1. ~apart /\ full
    BY <1>14, <1>16
  <2>2. uk = z /\ ud = x /\ utarget = target
    BY <1>9, <2>1
  <2>3. ok = uok
    BY <1>u, <2>1, <2>2
  <2>4. agree'
    BY <1>7, <1>11, <1>12, <2>3
  <2>5. uk2 = k2
    BY <1>7, <1>v, <2>2, <2>3
  <2> HIDE DEF g, k2
  <2>6. uk2 = g.off + g.ptr
    BY <1>15, <2>5 DEF At
  <2>7. PutAt(x, k2, g.buf) = x
    BY <1>15, PutAtNothing
  <2>8. QED
    BY <2>2, <2>4, <2>6, <2>7 DEF Twin, Content
<1>17. /\ strayed' \subseteq strayed \union {f} /\ strayed \ {f} \subseteq strayed'
       /\ f \in strayed' => apart'
  BY <1>2, <1>7, <1>8, <1>14
<1> HIDE DEF g, k2
<1>18. StructStep(f, g, k2, x, uk2, ud)
  BY <1>2, <1>8, <1>13, <1>14, <1>16, <1>17 DEF StructStep
<1>19. QED
  BY <1>3, <1>4, <1>5, <1>11, <1>15, <1>16, <1>18, StructStepKeeps
LEMMA FtellKeeps ==
  ASSUME FileInv, NEW f \in Structs, FileFtell(f)
  PROVE  FileInv'
<1>1. /\ UNCHANGED <<dire, path, bst, bkoff, bdisk, written, apart, strayed, over>>
      /\ Answered(FileTell(f), un.koff[f], un) /\ IsOpen(f)
  BY DEF FileFtell, IsOpen
<1>2. ~apart => FileTell(f) = un.koff[f]
  BY <1>1 DEF FileInv, Alike, Twin, FileTell
<1>3. QED
  BY <1>1, <1>2, AnsweredIdle

-----------------------------------------------------------------------------
\* A struct that has just been opened, and its file.
Opened(mode, d) == IF mode = "write" THEN <<>> ELSE d

LEMMA FreshOK ==
  ASSUME NEW mode
  PROVE  /\ GoodStruct(mode, Fresh, 0) /\ \A d : Ahead(Fresh, 0, d)
         /\ \A d : Twin(mode, Fresh, 0, d, 0, d)
         /\ Fresh.buf = <<>>
<1>1. <<>> \in Seq(Nat) /\ Len(<<>>) = 0
  BY EmptySeq
<1>2. GoodStruct(mode, Fresh, 0) /\ Fresh.buf = <<>>
  BY <1>1, FileBufSizeAssumption DEF GoodStruct, Fresh, BufStructs
<1>3. ASSUME NEW d
      PROVE  Ahead(Fresh, 0, d) /\ Twin(mode, Fresh, 0, d, 0, d)
  <2>1. Bytes(d, 0, 0) = <<>>
    BY SubSeqEmpty DEF Bytes
  <2>2. PutAt(d, 0, Fresh.buf) = d
    BY <1>2, PutAtNothing
  <2>3. QED
    BY <2>1, <2>2 DEF Ahead, Twin, Content, Fresh
<1>4. QED
  BY <1>2, <1>3

\* The first closed struct f is opened for file n.
OpenStep(f, n, mode) ==
  /\ ~over /\ UNCHANGED <<written, apart, over>>
  /\ \A g \in Structs : IsOpen(g) => path[g] # n
  /\ dire' = [dire EXCEPT ![f] = mode] /\ path' = [path EXCEPT ![f] = n]
  /\ BufferedTo(f, Fresh, 0)
  /\ bdisk' = [bdisk EXCEPT ![n] = Opened(mode, bdisk[n])]
  /\ strayed' = strayed \ {f}
  /\ ~apart => agree'
  /\ un' = IF apart THEN Lost
           ELSE [koff |-> [un.koff EXCEPT ![f] = 0],
                 disk |-> [un.disk EXCEPT ![n] = Opened(mode, un.disk[n])]]

LEMMA OpenStepKeeps ==
  ASSUME FileInv, NEW f \in Structs, ~IsOpen(f), NEW n \in Names, NEW mode \in {"read", "write"},
         OpenStep(f, n, mode)
  PROVE  FileInv'
<1>1. /\ ~over /\ ~over' /\ written' = written /\ apart' = apart
      /\ \A g \in Structs : IsOpen(g) => path[g] # n
      /\ strayed' = strayed \ {f}
  BY DEF OpenStep
<1>2. /\ dire \in [Structs -> {"closed", "read", "write"}]
      /\ path \in [Structs -> Names \union {SomeName}]
      /\ DOMAIN bst = Structs /\ DOMAIN bkoff = Structs
      /\ bdisk \in [Names -> Seq(Nat)]
      /\ un \in [koff: [Structs -> Nat], disk: [Names -> Seq(Nat)]]
  BY DEF FileInv, FileTypes, Contents
<1>3. <<>> \in Seq(Nat)
  BY EmptySeq
<1>4. /\ dire' = [dire EXCEPT ![f] = mode] /\ path' = [path EXCEPT ![f] = n]
      /\ bst' = [bst EXCEPT ![f] = Fresh] /\ bkoff' = [bkoff EXCEPT ![f] = 0]
      /\ bdisk' = [bdisk EXCEPT ![n] = Opened(mode, bdisk[n])]
  BY DEF OpenStep, BufferedTo
<1>5. /\ dire'[f] = mode /\ path'[f] = n /\ bst'[f] = Fresh /\ bkoff'[f] = 0
      /\ bdisk'[n] = Opened(mode, bdisk[n])
      /\ \A g \in Structs : g # f => /\ dire'[g] = dire[g] /\ path'[g] = path[g]
                                     /\ bst'[g] = bst[g] /\ bkoff'[g] = bkoff[g]
      /\ \A m \in Names : m # n => bdisk'[m] = bdisk[m]
  BY <1>2, <1>4
<1>6. ASSUME NEW d \in Seq(Nat)
      PROVE  Opened(mode, d) \in Seq(Nat)
  BY <1>3 DEF Opened
<1>7. FileTypes'
  <2>1. bdisk' \in Contents
    <3>1. Opened(mode, bdisk[n]) \in Seq(Nat)
      BY <1>2, <1>6
    <3>2. QED
      BY <1>2, <1>4, <3>1 DEF Contents
  <2>2. un' \in [koff: [Structs -> Nat], disk: Contents]
    <3>1. CASE apart
      <4>1. un' = Lost
        BY <3>1 DEF OpenStep
      <4>2. QED
        BY <4>1, LostOK
    <3>2. CASE ~apart
      <4>1. un.koff \in [Structs -> Nat] /\ un.disk \in [Names -> Seq(Nat)]
        BY <1>2
      <4>2. Opened(mode, un.disk[n]) \in Seq(Nat)
        BY <1>6, <4>1
      <4>3. un' = [koff |-> [un.koff EXCEPT ![f] = 0],
                   disk |-> [un.disk EXCEPT ![n] = Opened(mode, un.disk[n])]]
        BY <3>2 DEF OpenStep
      <4>4. [un.koff EXCEPT ![f] = 0] \in [Structs -> Nat]
        BY <4>1
      <4>5. [un.disk EXCEPT ![n] = Opened(mode, un.disk[n])] \in Contents
        BY <4>1, <4>2 DEF Contents
      <4>6. QED
        BY <4>3, <4>4, <4>5
    <3>3. QED
      BY <3>1, <3>2
  <2>3. dire' \in [Structs -> {"closed", "read", "write"}] /\ path' \in [Structs -> Names \union {SomeName}]
    BY <1>2, <1>4
  <2>4. DOMAIN bst' = Structs /\ DOMAIN bkoff' = Structs
    BY <1>2, <1>4
  <2>5. QED
    BY <1>1, <2>1, <2>2, <2>3, <2>4 DEF FileInv, FileTypes
<1>8. StructsOK'
  <2> SUFFICES ASSUME NEW g \in Structs, IsOpen(g)'
               PROVE  /\ path'[g] \in Names
                      /\ GoodStruct(dire'[g], bst'[g], bkoff'[g])
                      /\ dire'[g] = "read" /\ g \notin strayed' =>
                           Ahead(bst'[g], bkoff'[g], bdisk'[path'[g]])
    BY <1>1 DEF StructsOK
  <2>1. CASE g = f
    BY <1>5, <2>1, FreshOK
  <2>2. CASE g # f
    <3>1. IsOpen(g)
      BY <1>5, <2>2 DEF IsOpen
    <3>2. path[g] \in Names /\ path[g] # n
      BY <1>1, <3>1 DEF FileInv, StructsOK
    <3>3. GoodStruct(dire[g], bst[g], bkoff[g])
          /\ (dire[g] = "read" /\ g \notin strayed => Ahead(bst[g], bkoff[g], bdisk[path[g]]))
      BY <3>1 DEF FileInv, StructsOK
    <3>4. QED
      BY <1>1, <1>5, <2>2, <3>2, <3>3
  <2>3. QED
    BY <2>1, <2>2
<1>9. OpenOnce'
  <2> SUFFICES ASSUME NEW g \in Structs, NEW h \in Structs, IsOpen(g)', IsOpen(h)', path'[g] = path'[h]
               PROVE  g = h
    BY DEF OpenOnce
  <2>1. CASE g = f /\ h # f
    <3>1. IsOpen(h) /\ path[h] = n
      BY <1>5, <2>1 DEF IsOpen
    <3>2. QED
      BY <1>1, <3>1
  <2>2. CASE g # f /\ h = f
    <3>1. IsOpen(g) /\ path[g] = n
      BY <1>5, <2>2 DEF IsOpen
    <3>2. QED
      BY <1>1, <3>1
  <2>3. CASE g # f /\ h # f
    <3>1. IsOpen(g) /\ IsOpen(h) /\ path[g] = path[h]
      BY <1>5, <2>3 DEF IsOpen
    <3>2. QED
      BY <3>1 DEF FileInv, OpenOnce
  <2>4. QED
    BY <2>1, <2>2, <2>3
<1>10. StrayedApart'
  BY <1>1 DEF FileInv, StrayedApart
<1>11. Alike'
  <2> SUFFICES ASSUME ~apart
               PROVE  /\ agree'
                      /\ \A g \in Structs : IsOpen(g)' =>
                           Twin(dire'[g], bst'[g], bkoff'[g], bdisk'[path'[g]],
                                un'.koff[g], un'.disk[path'[g]])
                      /\ \A m \in Names : (\A g \in Structs : IsOpen(g)' => path'[g] # m)
                                            => un'.disk[m] = bdisk'[m]
    BY <1>1 DEF Alike
  <2>1. agree' /\ un' = [koff |-> [un.koff EXCEPT ![f] = 0],
                         disk |-> [un.disk EXCEPT ![n] = Opened(mode, un.disk[n])]]
    BY DEF OpenStep
  <2>2. un.koff \in [Structs -> Nat] /\ un.disk \in [Names -> Seq(Nat)]
    BY <1>2
  <2>3. /\ un'.koff[f] = 0 /\ un'.disk[n] = Opened(mode, un.disk[n])
        /\ \A g \in Structs : g # f => un'.koff[g] = un.koff[g]
        /\ \A m \in Names : m # n => un'.disk[m] = un.disk[m]
    BY <2>1, <2>2
  <2>4. un.disk[n] = bdisk[n]
    BY <1>1 DEF FileInv, Alike
  <2>5. un'.disk[n] = bdisk'[n]
    BY <1>5, <2>3, <2>4
  <2>6. ASSUME NEW g \in Structs, IsOpen(g)'
        PROVE  Twin(dire'[g], bst'[g], bkoff'[g], bdisk'[path'[g]], un'.koff[g], un'.disk[path'[g]])
    <3>1. CASE g = f
      BY <1>5, <2>3, <2>5, <3>1, FreshOK
    <3>2. CASE g # f
      <4>1. IsOpen(g)
        BY <1>5, <2>6, <3>2 DEF IsOpen
      <4>2. path[g] \in Names /\ path[g] # n
        BY <1>1, <4>1 DEF FileInv, StructsOK
      <4>3. Twin(dire[g], bst[g], bkoff[g], bdisk[path[g]], un.koff[g], un.disk[path[g]])
        BY <4>1 DEF FileInv, Alike
      <4>4. QED
        BY <1>5, <2>3, <3>2, <4>2, <4>3
    <3>3. QED
      BY <3>1, <3>2
  <2>7. ASSUME NEW m \in Names, \A g \in Structs : IsOpen(g)' => path'[g] # m
        PROVE  un'.disk[m] = bdisk'[m]
    <3>1. mode # "closed"
      OBVIOUS
    <3>2. IsOpen(f)'
      BY <1>5, <3>1 DEF IsOpen
    <3>3. m # n
      BY <1>5, <2>7, <3>2
    <3>4. ASSUME NEW g \in Structs, IsOpen(g) PROVE path[g] # m
      <4>1. g # f /\ IsOpen(g)'
        BY <1>5, <3>4 DEF IsOpen
      <4>2. QED
        BY <1>5, <2>7, <4>1
    <3>5. un.disk[m] = bdisk[m]
      BY <3>4 DEF FileInv, Alike
    <3>6. QED
      BY <1>5, <2>3, <3>3, <3>5
  <2>8. QED
    BY <2>1, <2>6, <2>7
<1>12. QED
  BY <1>7, <1>8, <1>9, <1>10, <1>11 DEF FileInv

LEMMA FopenKeeps ==
  ASSUME FileInv, NEW n \in Names, NEW mode \in {"read", "write"}, FileFopen(n, mode)
  PROVE  FileInv'
<1>1. CASE FreeStructs = {}
  <2>1. UNCHANGED <<dire, path, bst, bkoff, bdisk, written, apart, strayed, over>> /\ Answered(0, 0, un)
    BY <1>1 DEF FileFopen
  <2>2. QED
    BY <2>1, AnsweredIdle
<1>2. CASE FreeStructs # {}
  <2> DEFINE f == Min(FreeStructs)
             Opens(disk) == IF mode = "write" THEN [disk EXCEPT ![n] = <<>>] ELSE disk
  <2>1. f \in FreeStructs
    <3>1. FreeStructs \subseteq Nat
      BY FileCapacityAssumption DEF FreeStructs, Structs
    <3>2. QED
      BY <1>2, <3>1, MinFound
  <2>2. f \in Structs /\ ~IsOpen(f)
    BY <2>1 DEF FreeStructs, IsOpen
  <2>3. /\ ~over /\ UNCHANGED <<written, apart, over>>
        /\ \A g \in Structs : IsOpen(g) => path[g] # n
        /\ dire' = [dire EXCEPT ![f] = mode] /\ path' = [path EXCEPT ![f] = n]
        /\ BufferedTo(f, Fresh, 0)
        /\ bdisk' = Opens(bdisk)
        /\ strayed' = strayed \ {f}
        /\ Answered(f, f, [koff |-> [un.koff EXCEPT ![f] = 0], disk |-> Opens(un.disk)])
    BY <1>2, Zenon DEF FileFopen, IsOpen
  <2>4. ASSUME NEW disk, disk \in [Names -> Seq(Nat)]
        PROVE  Opens(disk) = [disk EXCEPT ![n] = Opened(mode, disk[n])]
    <3>1. CASE mode = "write"
      BY <3>1 DEF Opened
    <3>2. CASE mode = "read"
      BY <2>4, <3>2 DEF Opened
    <3>3. QED
      BY <3>1, <3>2
  <2>5. bdisk \in [Names -> Seq(Nat)] /\ un.disk \in [Names -> Seq(Nat)]
    BY DEF FileInv, FileTypes, Contents
  <2> HIDE DEF f, Opens
  <2>6. agree' = (apart' \/ f = f) /\ un' = IF apart' THEN Lost ELSE
          [koff |-> [un.koff EXCEPT ![f] = 0], disk |-> Opens(un.disk)]
    BY <2>3 DEF Answered, Lost
  <2>7. agree'
    BY <2>6, Zenon
  <2>8. OpenStep(f, n, mode)
    BY <2>3, <2>4, <2>5, <2>6, <2>7 DEF OpenStep
  <2>9. QED
    BY <2>2, <2>8, OpenStepKeeps
<1>3. QED
  BY <1>1, <1>2
-----------------------------------------------------------------------------
\* Struct f is closed and leaves x in its file.
CloseStep(f, x) ==
  /\ UNCHANGED <<written, over>>
  /\ bdisk' = [bdisk EXCEPT ![path[f]] = x]
  /\ BufferedTo(f, Fresh, 0)
  /\ dire' = [dire EXCEPT ![f] = "closed"] /\ path' = [path EXCEPT ![f] = SomeName]
  /\ strayed' = strayed \ {f}
  /\ apart' \in BOOLEAN /\ (apart => apart')
  /\ ~apart' => agree' /\ x = un.disk[path[f]]
  /\ un' = IF apart' THEN Lost ELSE UnAt(f, 0, un.disk[path[f]])

LEMMA CloseStepKeeps ==
  ASSUME FileInv, NEW f \in Structs, IsOpen(f), NEW x \in Seq(Nat), CloseStep(f, x)
  PROVE  FileInv'
<1> DEFINE n == path[f]
<1>1. /\ written' = written /\ over' = over /\ strayed' = strayed \ {f}
      /\ apart' \in BOOLEAN /\ (apart => apart')
  BY DEF CloseStep
<1>2. /\ dire \in [Structs -> {"closed", "read", "write"}]
      /\ path \in [Structs -> Names \union {SomeName}]
      /\ DOMAIN bst = Structs /\ DOMAIN bkoff = Structs
      /\ bdisk \in [Names -> Seq(Nat)]
      /\ un \in [koff: [Structs -> Nat], disk: [Names -> Seq(Nat)]]
  BY DEF FileInv, FileTypes, Contents
<1>3. n \in Names /\ \A g \in Structs : IsOpen(g) /\ g # f => path[g] # n
  BY UnAtIs, OtherFile
<1>4. /\ dire' = [dire EXCEPT ![f] = "closed"] /\ path' = [path EXCEPT ![f] = SomeName]
      /\ bst' = [bst EXCEPT ![f] = Fresh] /\ bkoff' = [bkoff EXCEPT ![f] = 0]
      /\ bdisk' = [bdisk EXCEPT ![n] = x]
  BY DEF CloseStep, BufferedTo
<1> HIDE DEF n
<1>5. /\ dire'[f] = "closed" /\ bdisk'[n] = x
      /\ \A g \in Structs : g # f => /\ dire'[g] = dire[g] /\ path'[g] = path[g]
                                     /\ bst'[g] = bst[g] /\ bkoff'[g] = bkoff[g]
      /\ \A m \in Names : m # n => bdisk'[m] = bdisk[m]
  BY <1>2, <1>3, <1>4
<1>6. FileTypes'
  <2>1. bdisk' \in Contents
    BY <1>2, <1>4 DEF Contents
  <2>2. un' \in [koff: [Structs -> Nat], disk: Contents]
    <3>1. CASE apart'
      <4>1. un' = Lost
        BY <3>1 DEF CloseStep
      <4>2. QED
        BY <4>1, LostOK
    <3>2. CASE ~apart'
      <4>1. un.koff \in [Structs -> Nat] /\ un.disk \in [Names -> Seq(Nat)]
        BY <1>2
      <4>2. un' = [koff |-> [un.koff EXCEPT ![f] = 0],
                   disk |-> [un.disk EXCEPT ![path[f]] = un.disk[path[f]]]]
        BY <3>2 DEF CloseStep, UnAt
      <4>3. [un.koff EXCEPT ![f] = 0] \in [Structs -> Nat]
        BY <4>1
      <4>4. [un.disk EXCEPT ![path[f]] = un.disk[path[f]]] \in Contents
        BY <1>3, <4>1 DEF Contents, n
      <4>5. QED
        BY <4>2, <4>3, <4>4
    <3>3. QED
      BY <3>1, <3>2
  <2>3. dire' \in [Structs -> {"closed", "read", "write"}] /\ path' \in [Structs -> Names \union {SomeName}]
    BY <1>2, <1>4
  <2>4. DOMAIN bst' = Structs /\ DOMAIN bkoff' = Structs
    BY <1>2, <1>4
  <2>5. QED
    BY <1>1, <2>1, <2>2, <2>3, <2>4 DEF FileInv, FileTypes
<1>7. ASSUME NEW g \in Structs, IsOpen(g)'
      PROVE  g # f /\ IsOpen(g) /\ path[g] \in Names /\ path[g] # n
  <2>1. g # f
    BY <1>5, <1>7 DEF IsOpen
  <2>2. IsOpen(g)
    BY <1>5, <1>7, <2>1 DEF IsOpen
  <2>3. QED
    BY <1>3, <2>1, <2>2 DEF FileInv, StructsOK
<1>8. StructsOK'
  <2> SUFFICES ASSUME NEW g \in Structs, IsOpen(g)'
               PROVE  /\ path'[g] \in Names
                      /\ GoodStruct(dire'[g], bst'[g], bkoff'[g])
                      /\ dire'[g] = "read" /\ g \notin strayed' =>
                           Ahead(bst'[g], bkoff'[g], bdisk'[path'[g]])
                      /\ over' /\ dire'[g] = "write" => bst'[g].buf = <<>>
    BY DEF StructsOK
  <2>1. g # f /\ IsOpen(g) /\ path[g] \in Names /\ path[g] # n
    BY <1>7
  <2>2. /\ GoodStruct(dire[g], bst[g], bkoff[g])
        /\ dire[g] = "read" /\ g \notin strayed => Ahead(bst[g], bkoff[g], bdisk[path[g]])
        /\ over /\ dire[g] = "write" => bst[g].buf = <<>>
    BY <2>1 DEF FileInv, StructsOK
  <2>3. QED
    BY <1>1, <1>5, <2>1, <2>2
<1>9. OpenOnce'
  <2> SUFFICES ASSUME NEW g \in Structs, NEW h \in Structs, IsOpen(g)', IsOpen(h)', path'[g] = path'[h]
               PROVE  g = h
    BY DEF OpenOnce
  <2>1. IsOpen(g) /\ IsOpen(h) /\ path[g] = path[h]
    BY <1>5, <1>7
  <2>2. QED
    BY <2>1 DEF FileInv, OpenOnce
<1>10. StrayedApart'
  BY <1>1 DEF FileInv, StrayedApart
<1>11. Alike'
  <2> SUFFICES ASSUME ~apart'
               PROVE  /\ agree'
                      /\ \A g \in Structs : IsOpen(g)' =>
                           Twin(dire'[g], bst'[g], bkoff'[g], bdisk'[path'[g]],
                                un'.koff[g], un'.disk[path'[g]])
                      /\ \A m \in Names : (\A g \in Structs : IsOpen(g)' => path'[g] # m)
                                            => un'.disk[m] = bdisk'[m]
    BY DEF Alike
  <2>1. agree' /\ x = un.disk[n] /\ un' = UnAt(f, 0, un.disk[n]) /\ ~apart
    BY <1>1 DEF CloseStep, n
  <2>2. un.koff \in [Structs -> Nat] /\ un.disk \in [Names -> Seq(Nat)]
    BY <1>2
  <2>3. /\ un'.disk = un.disk
        /\ \A g \in Structs : g # f => un'.koff[g] = un.koff[g]
    BY <1>3, <2>1, <2>2 DEF UnAt, n
  <2>4. ASSUME NEW g \in Structs, IsOpen(g)'
        PROVE  Twin(dire'[g], bst'[g], bkoff'[g], bdisk'[path'[g]], un'.koff[g], un'.disk[path'[g]])
    <3>1. g # f /\ IsOpen(g) /\ path[g] \in Names /\ path[g] # n
      BY <1>7, <2>4
    <3>2. Twin(dire[g], bst[g], bkoff[g], bdisk[path[g]], un.koff[g], un.disk[path[g]])
      BY <2>1, <3>1 DEF FileInv, Alike
    <3>3. QED
      BY <1>5, <2>3, <3>1, <3>2
  <2>5. ASSUME NEW m \in Names, \A g \in Structs : IsOpen(g)' => path'[g] # m
        PROVE  un'.disk[m] = bdisk'[m]
    <3>1. CASE m = n
      BY <1>5, <2>1, <2>3, <3>1
    <3>2. CASE m # n
      <4>1. ASSUME NEW g \in Structs, IsOpen(g) PROVE path[g] # m
        <5>1. CASE g = f
          BY <3>2, <5>1 DEF n
        <5>2. CASE g # f
          BY <1>5, <2>5, <4>1, <5>2 DEF IsOpen
        <5>3. QED
          BY <5>1, <5>2
      <4>2. un.disk[m] = bdisk[m]
        BY <2>1, <4>1 DEF FileInv, Alike
      <4>3. QED
        BY <1>5, <2>3, <3>2, <4>2
    <3>3. QED
      BY <3>1, <3>2
  <2>6. QED
    BY <2>1, <2>4, <2>5
<1>12. QED
  BY <1>6, <1>8, <1>9, <1>10, <1>11 DEF FileInv

LEMMA FcloseKeeps ==
  ASSUME FileInv, NEW f \in Structs, FileFclose(f)
  PROVE  FileInv'
<1> DEFINE s == bst[f]
           k == bkoff[f]
           d == bdisk[path[f]]
           ud == un.disk[path[f]]
           w(j) == SubSeq(s.buf, 1, j)
<1>1. PICK j \in CloseFlushes(f) :
        /\ bdisk' = Wrote(bdisk, bkoff, f, w(j))
        /\ bkoff' = [bkoff EXCEPT ![f] = 0]
        /\ apart' = (apart \/ ~(dire[f] = "read" \/ j = s.ptr))
        /\ Answered(IF dire[f] = "read" \/ j = s.ptr THEN 0 ELSE EOF, 0, UnClosed(f))
  BY DEF FileFclose
<1>2. /\ IsOpen(f) /\ UNCHANGED <<written, over>>
      /\ bst' = [bst EXCEPT ![f] = Fresh]
      /\ dire' = [dire EXCEPT ![f] = "closed"] /\ path' = [path EXCEPT ![f] = SomeName]
      /\ strayed' = strayed \ {f}
  BY DEF FileFclose, IsOpen
<1> DEFINE ok == dire[f] = "read" \/ j = s.ptr
           x == PutAt(d, k, w(j))
<1>3. /\ d \in Seq(Nat) /\ UnClosed(f) = UnAt(f, 0, ud)
  BY <1>2, UnAtIs DEF UnClosed
<1>4. bdisk' = [bdisk EXCEPT ![path[f]] = x] /\ BufferedTo(f, Fresh, 0)
  BY <1>1, <1>2 DEF Wrote, BufferedTo
<1>5. dire[f] \in {"read", "write"} /\ apart \in BOOLEAN
  BY <1>2 DEF IsOpen, FileInv, FileTypes
<1>6. x \in Seq(Nat) /\ (ok => x = Content(dire[f], s, k, d))
  <2>1. CASE dire[f] = "write"
    <3>1. j \in 0..s.ptr
      BY <1>1, <2>1 DEF CloseFlushes
    <3>2. x \in Seq(Nat) /\ (j = s.ptr => w(j) = s.buf)
      BY <2>1, <3>1, PartOut
    <3>3. QED
      BY <2>1, <3>2 DEF Content
  <2>2. CASE dire[f] = "read"
    <3>1. j = 0
      BY <1>1, <2>2 DEF CloseFlushes
    <3>2. w(j) = <<>>
      BY <3>1, SubSeqEmpty
    <3>3. x = d
      BY <3>2, PutAtNothing
    <3>4. QED
      BY <1>3, <2>2, <3>3 DEF Content
  <2>3. QED
    BY <1>5, <2>1, <2>2
<1>7. ~apart => ud = Content(dire[f], s, k, d)
  BY <1>2 DEF FileInv, Alike, Twin
<1>8. ok \in BOOLEAN /\ apart' = (apart \/ ~ok) /\ Answered(IF ok THEN 0 ELSE EOF, 0, UnClosed(f))
  BY <1>1
<1> HIDE DEF ok, x, s, k, d, ud, w
<1>9. /\ agree' = (apart' \/ (IF ok THEN 0 ELSE EOF) = 0)
      /\ un' = IF apart' THEN Lost ELSE UnAt(f, 0, ud)
  BY <1>3, <1>8 DEF Answered, Lost
<1>10. apart' \in BOOLEAN /\ (apart => apart') /\ (~apart' => ~apart /\ ok)
  BY <1>5, <1>8
<1>11. ASSUME ~apart' PROVE agree' /\ x = ud
  <2>1. (IF ok THEN 0 ELSE EOF) = 0
    BY <1>10, <1>11
  <2>2. agree'
    BY <1>9, <2>1, Zenon
  <2>3. QED
    BY <1>6, <1>7, <1>10, <1>11, <2>2
<1>12. CloseStep(f, x)
  BY <1>2, <1>4, <1>9, <1>10, <1>11 DEF CloseStep, ud
<1>13. QED
  BY <1>2, <1>6, <1>12, CloseStepKeeps
-----------------------------------------------------------------------------
\* The structs that are written, and that have file n open.
Writers(n) == {g \in Structs : path[g] = n /\ dire[g] = "write"}

LEMMA OneWriter ==
  ASSUME FileInv, NEW f \in Structs, dire[f] = "write"
  PROVE  Writers(path[f]) = {f} /\ Min(Writers(path[f])) = f
<1>1. Writers(path[f]) = {f}
  BY DEF FileInv, OpenOnce, Writers, IsOpen
<1>2. f \in Int
  BY FileCapacityAssumption DEF Structs
<1>3. QED
  BY <1>1, <1>2, MinOfOne

LEMMA FlushallKeeps ==
  ASSUME FileInv, FileFlushall
  PROVE  FileInv'
<1>1. PICK k \in [Structs -> 0..FileBufSize] :
       /\ \A f \in Structs : IF f \in Flushall THEN k[f] <= bst[f].ptr ELSE k[f] = 0
       /\ bdisk' = [n \in Names |->
            IF {f \in Flushall : path[f] = n} = {} THEN bdisk[n]
            ELSE PutAt(bdisk[n], bkoff[Min({f \in Flushall : path[f] = n})],
                       SubSeq(bst[Min({f \in Flushall : path[f] = n})].buf, 1,
                              k[Min({f \in Flushall : path[f] = n})]))]
       /\ bkoff' = [f \in Structs |-> bkoff[f] + k[f]]
       /\ bst' = [f \in Structs |-> IF f \in Flushall THEN FileFlushed(bst[f], k[f]) ELSE bst[f]]
       /\ apart' = (apart \/ \E f \in Flushall : k[f] < bst[f].ptr)
  BY DEF FileFlushall
<1>2. /\ Answered(0, 0, un) /\ over' = TRUE /\ ~over
      /\ UNCHANGED <<dire, path, written, strayed>>
  BY DEF FileFlushall
<1> DEFINE w(f) == SubSeq(bst[f].buf, 1, k[f])
           x(f) == PutAt(bdisk[path[f]], bkoff[f], w(f))
           g(f) == FileFlushed(bst[f], k[f])
<1>3. \A n : {f \in Flushall : path[f] = n} = Writers(n)
  BY DEF Flushall, Writers
<1>4. bdisk' = [n \in Names |->
         IF Writers(n) = {} THEN bdisk[n]
         ELSE PutAt(bdisk[n], bkoff[Min(Writers(n))], w(Min(Writers(n))))]
  BY <1>1, <1>3
<1>5. /\ dire \in [Structs -> {"closed", "read", "write"}]
      /\ bdisk \in [Names -> Seq(Nat)]
      /\ un \in [koff: [Structs -> Nat], disk: [Names -> Seq(Nat)]]
      /\ apart \in BOOLEAN
  BY DEF FileInv, FileTypes, Contents
<1>6. ASSUME NEW f \in Structs, dire[f] = "write"
      PROVE  /\ path[f] \in Names /\ bdisk'[path[f]] = x(f) /\ x(f) \in Seq(Nat)
             /\ bst'[f] = g(f) /\ bkoff'[f] = bkoff[f] + k[f]
             /\ GoodStruct("write", g(f), bkoff[f] + k[f]) /\ g(f).buf = <<>>
             /\ At(g(f)) = bkoff[f] + k[f]
             /\ k[f] \in Nat /\ bst[f].ptr \in Nat
             /\ (k[f] = bst[f].ptr => w(f) = bst[f].buf)
  <2>1. f \in Flushall /\ IsOpen(f)
    BY <1>6 DEF Flushall, IsOpen
  <2>2. path[f] \in Names
    BY <2>1, UnAtIs
  <2>3. Writers(path[f]) = {f} /\ Min(Writers(path[f])) = f
    BY <1>6, OneWriter
  <2>4. bdisk'[path[f]] = x(f)
    BY <1>4, <2>2, <2>3
  <2>5. bst[f].ptr \in Nat
    BY <1>6, <2>1 DEF FileInv, StructsOK, GoodStruct, BufStructs
  <2>6. k[f] \in 0..bst[f].ptr
    <3>1. k[f] \in 0..FileBufSize /\ k[f] <= bst[f].ptr
      BY <1>1, <2>1
    <3>2. QED
      BY <2>5, <3>1, FileBufSizeAssumption
  <2>7. /\ GoodStruct("write", g(f), bkoff[f] + k[f]) /\ g(f).buf = <<>>
        /\ At(g(f)) = bkoff[f] + k[f] /\ x(f) \in Seq(Nat) /\ k[f] \in Nat
        /\ (k[f] = bst[f].ptr => w(f) = bst[f].buf)
    BY <1>6, <2>6, PartOut
  <2>8. bst'[f] = g(f) /\ bkoff'[f] = bkoff[f] + k[f]
    BY <1>1, <2>1
  <2>9. QED
    BY <2>2, <2>4, <2>5, <2>7, <2>8
<1>7. ASSUME NEW f \in Structs, dire[f] # "write", IsOpen(f)
      PROVE  /\ bst'[f] = bst[f] /\ bkoff'[f] = bkoff[f] /\ bdisk'[path[f]] = bdisk[path[f]]
             /\ dire[f] = "read"
  <2>1. f \notin Flushall /\ path[f] \in Names /\ bkoff[f] \in Nat /\ dire[f] = "read"
    BY <1>5, <1>7, UnAtIs DEF Flushall, FileInv, StructsOK, GoodStruct, IsOpen
  <2>2. Writers(path[f]) = {}
    <3>1. ASSUME NEW h \in Writers(path[f]) PROVE FALSE
      <4>1. h \in Structs /\ IsOpen(h) /\ h # f /\ path[h] = path[f]
        BY <1>7, <3>1 DEF Writers, IsOpen
      <4>2. QED
        BY <1>7, <4>1, OtherFile
    <3>2. QED
      BY <3>1
  <2>3. k[f] = 0
    BY <1>1, <2>1
  <2>4. QED
    BY <1>1, <1>4, <2>1, <2>2, <2>3
<1>8. ASSUME NEW n \in Names, Writers(n) = {}
      PROVE  bdisk'[n] = bdisk[n]
  BY <1>4, <1>8
<1>9. ASSUME NEW n \in Names
      PROVE  bdisk'[n] \in Seq(Nat)
  <2>1. CASE Writers(n) = {}
    BY <1>5, <1>8, <2>1
  <2>2. CASE Writers(n) # {}
    <3>1. PICK f \in Structs : path[f] = n /\ dire[f] = "write"
      BY <2>2 DEF Writers
    <3>2. QED
      BY <1>6, <3>1
  <2>3. QED
    BY <2>1, <2>2
<1>10. /\ dire' = dire /\ path' = path /\ written' = written /\ strayed' = strayed
       /\ apart' \in BOOLEAN /\ (apart => apart')
       /\ DOMAIN bdisk' = Names /\ DOMAIN bst' = Structs /\ DOMAIN bkoff' = Structs
  BY <1>1, <1>2, <1>4, <1>5
<1>11. ~apart' => agree' /\ un' = un
  <2>1. agree' = (apart' \/ 0 = 0) /\ un' = IF apart' THEN Lost ELSE un
    BY <1>2 DEF Answered, Lost
  <2>2. agree'
    BY <2>1, Zenon
  <2>3. QED
    BY <2>1, <2>2
<1>12. un' \in [koff: [Structs -> Nat], disk: Contents]
  <2>1. un' = IF apart' THEN Lost ELSE un
    BY <1>2 DEF Answered, Lost
  <2>2. QED
    BY <1>5, <2>1, LostOK DEF Contents
<1>13. ASSUME ~apart', NEW f \in Structs, dire[f] = "write"
       PROVE  k[f] = bst[f].ptr
  <2>1. f \in Flushall
    BY <1>13 DEF Flushall
  <2>2. k[f] <= bst[f].ptr /\ ~(k[f] < bst[f].ptr)
    BY <1>1, <1>13, <2>1
  <2>3. k[f] \in Nat /\ bst[f].ptr \in Nat
    BY <1>6, <1>13
  <2>4. QED
    BY <2>2, <2>3
<1> HIDE DEF x, g, w
<1>14. FileTypes'
  <2>1. bdisk' \in Contents
    <3>1. bdisk' = [n \in Names |-> bdisk'[n]]
      BY <1>4
    <3>2. QED
      BY <1>9, <3>1 DEF Contents
  <2>2. QED
    BY <1>10, <1>12, <2>1 DEF FileInv, FileTypes
<1>15. StructsOK'
  <2> SUFFICES ASSUME NEW f \in Structs, IsOpen(f)'
               PROVE  /\ path'[f] \in Names
                      /\ GoodStruct(dire'[f], bst'[f], bkoff'[f])
                      /\ dire'[f] = "read" /\ f \notin strayed' =>
                           Ahead(bst'[f], bkoff'[f], bdisk'[path'[f]])
                      /\ dire'[f] = "write" => bst'[f].buf = <<>>
    BY DEF StructsOK
  <2>1. IsOpen(f)
    BY <1>10 DEF IsOpen
  <2>2. CASE dire[f] = "write"
    BY <1>6, <1>10, <2>2
  <2>3. CASE dire[f] # "write"
    <3>1. /\ bst'[f] = bst[f] /\ bkoff'[f] = bkoff[f] /\ bdisk'[path[f]] = bdisk[path[f]]
      BY <1>7, <2>1, <2>3
    <3>2. /\ path[f] \in Names /\ GoodStruct(dire[f], bst[f], bkoff[f])
          /\ (dire[f] = "read" /\ f \notin strayed => Ahead(bst[f], bkoff[f], bdisk[path[f]]))
      BY <2>1 DEF FileInv, StructsOK
    <3>3. QED
      BY <1>10, <2>3, <3>1, <3>2
  <2>4. QED
    BY <2>2, <2>3
<1>16. OpenOnce' /\ StrayedApart'
  BY <1>10 DEF FileInv, OpenOnce, StrayedApart, IsOpen
<1>17. Alike'
  <2> SUFFICES ASSUME ~apart'
               PROVE  /\ agree'
                      /\ \A f \in Structs : IsOpen(f)' =>
                           Twin(dire'[f], bst'[f], bkoff'[f], bdisk'[path'[f]],
                                un'.koff[f], un'.disk[path'[f]])
                      /\ \A m \in Names : (\A f \in Structs : IsOpen(f)' => path'[f] # m)
                                            => un'.disk[m] = bdisk'[m]
    BY DEF Alike
  <2>1. agree' /\ un' = un /\ ~apart
    BY <1>10, <1>11
  <2>2. ASSUME NEW f \in Structs, IsOpen(f)'
        PROVE  Twin(dire'[f], bst'[f], bkoff'[f], bdisk'[path'[f]], un'.koff[f], un'.disk[path'[f]])
    <3>1. IsOpen(f)
      BY <1>10, <2>2 DEF IsOpen
    <3>2. CASE dire[f] = "write"
      <4>1. k[f] = bst[f].ptr
        BY <1>13, <3>2
      <4>2. /\ un.koff[f] = bkoff[f] + bst[f].ptr
            /\ un.disk[path[f]] = PutAt(bdisk[path[f]], bkoff[f], bst[f].buf)
        BY <2>1, <3>2, WriterTwin
      <4>3. /\ bdisk'[path[f]] = x(f) /\ bst'[f] = g(f) /\ g(f).buf = <<>>
            /\ At(g(f)) = bkoff[f] + k[f] /\ w(f) = bst[f].buf
        BY <1>6, <3>2, <4>1
      <4>4. PutAt(x(f), bkoff'[f], g(f).buf) = x(f)
        BY <4>3, PutAtNothing
      <4>5. x(f) = un.disk[path[f]]
        BY <4>2, <4>3 DEF x
      <4>6. g(f).off + g(f).ptr = un.koff[f]
        BY <4>1, <4>2, <4>3 DEF At
      <4>7. QED
        BY <1>10, <2>1, <3>2, <4>3, <4>4, <4>5, <4>6 DEF Twin, Content
    <3>3. CASE dire[f] # "write"
      <4>1. /\ bst'[f] = bst[f] /\ bkoff'[f] = bkoff[f] /\ bdisk'[path[f]] = bdisk[path[f]]
        BY <1>7, <3>1, <3>3
      <4>2. Twin(dire[f], bst[f], bkoff[f], bdisk[path[f]], un.koff[f], un.disk[path[f]])
        BY <2>1, <3>1 DEF FileInv, Alike
      <4>3. QED
        BY <1>10, <2>1, <4>1, <4>2
    <3>4. QED
      BY <3>2, <3>3
  <2>3. ASSUME NEW m \in Names, \A f \in Structs : IsOpen(f)' => path'[f] # m
        PROVE  un'.disk[m] = bdisk'[m]
    <3>1. \A f \in Structs : IsOpen(f) => path[f] # m
      BY <1>10, <2>3 DEF IsOpen
    <3>2. Writers(m) = {}
      BY <3>1 DEF Writers, IsOpen
    <3>3. un.disk[m] = bdisk[m]
      BY <2>1, <3>1 DEF FileInv, Alike
    <3>4. QED
      BY <1>8, <2>1, <3>2, <3>3
  <2>4. QED
    BY <2>1, <2>2, <2>3
<1>18. QED
  BY <1>14, <1>15, <1>16, <1>17 DEF FileInv
-----------------------------------------------------------------------------
LEMMA FileInitOK ==
  ASSUME FileInit
  PROVE  FileInv
<1>1. \A f \in Structs : ~IsOpen(f)
  BY DEF FileInit, IsOpen
<1>2. FileTypes
  BY OriginalAssumption DEF FileInit, FileTypes, Contents
<1>3. StructsOK /\ OpenOnce
  BY <1>1 DEF StructsOK, OpenOnce
<1>4. StrayedApart
  BY DEF FileInit, StrayedApart
<1>5. Alike
  BY <1>1 DEF FileInit, Alike
<1>6. QED
  BY <1>2, <1>3, <1>4, <1>5 DEF FileInv

LEMMA FileNextKeeps ==
  ASSUME FileInv, [FileNext]_fileVars
  PROVE  FileInv'
<1>1. ASSUME NEW y \in Openings, FileFopen(y[1], y[2])
      PROVE  FileInv'
  <2>1. y[1] \in Names /\ y[2] \in {"read", "write"}
    BY OpeningsAssumption
  <2>2. QED
    BY <1>1, <2>1, FopenKeeps
<1>2. ASSUME NEW f \in Structs, NEW size \in 1..2, NEW nmemb \in 0..2, FileFread(f, size, nmemb)
      PROVE  FileInv'
  BY <1>2, FreadKeeps
<1>3. ASSUME NEW f \in Structs, NEW size \in 1..2, NEW nmemb \in 0..MaxCount, FileFwrite(f, size, nmemb)
      PROVE  FileInv'
  BY <1>3, FwriteKeeps
<1>4. ASSUME NEW f \in Structs, NEW y \in Seeks, FileFseek(f, y[1], y[2])
      PROVE  FileInv'
  <2>1. y[1] \in Int /\ y[2] \in Whences
    BY SeeksAssumption DEF Whences
  <2>2. dire[f] \in {"read", "write"}
    BY <1>4 DEF FileFseek, FileInv, FileTypes
  <2>3. QED
    BY <1>4, <2>1, <2>2, FseekReadKeeps, FseekWriteKeeps
<1>5. ASSUME NEW f \in Structs, FileFgetc(f) \/ FileFflush(f) \/ FileFclose(f) \/ FileFtell(f)
      PROVE  FileInv'
  BY <1>5, FgetcKeeps, FflushKeeps, FcloseKeeps, FtellKeeps
<1>6. CASE FileFlushall
  BY <1>6, FlushallKeeps
<1>7. CASE UNCHANGED fileVars
  <2>1. FileTypes'
    BY <1>7 DEF FileInv, FileTypes, fileVars
  <2>2. StructsOK' /\ OpenOnce' /\ StrayedApart' /\ Alike'
    BY <1>7 DEF FileInv, StructsOK, OpenOnce, StrayedApart, Alike, IsOpen, fileVars
  <2>3. QED
    BY <2>1, <2>2 DEF FileInv
<1>8. QED
  BY <1>1, <1>2, <1>3, <1>4, <1>5, <1>6, <1>7 DEF FileNext

\* What the program sees, and what it finds on the disk, follows.
LEMMA AlikeIsEnough ==
  ASSUME FileInv
  PROVE  TwinsAlike
<1>1. SameAnswers
  BY DEF FileInv, Alike, SameAnswers
<1>2. \A n : {f \in Structs : path[f] = n /\ dire[f] = "write"} = Writers(n)
  BY DEF Writers
<1>3. ASSUME ~apart, NEW n \in Names
      PROVE  Settled(n) = un.disk[n]
  <2>1. CASE Writers(n) # {}
    <3>1. PICK f \in Structs : path[f] = n /\ dire[f] = "write"
      BY <2>1 DEF Writers
    <3>2. Min(Writers(n)) = f
      BY <3>1, OneWriter
    <3>3. Settled(n) = PutAt(bdisk[n], bkoff[f], bst[f].buf)
      BY <1>2, <2>1, <3>2 DEF Settled
    <3>4. QED
      BY <1>3, <3>1, <3>3, WriterTwin
  <2>2. CASE Writers(n) = {}
    <3>1. Settled(n) = bdisk[n]
      BY <1>2, <2>2 DEF Settled
    <3>2. CASE \E f \in Structs : IsOpen(f) /\ path[f] = n
      <4>1. PICK f \in Structs : IsOpen(f) /\ path[f] = n
        BY <3>2
      <4>2. dire[f] # "write"
        BY <2>2, <4>1 DEF Writers
      <4>3. QED
        BY <1>3, <3>1, <4>1, <4>2 DEF FileInv, Alike, Twin, Content
    <3>3. CASE \A f \in Structs : IsOpen(f) => path[f] # n
      BY <1>3, <3>1, <3>3 DEF FileInv, Alike
    <3>4. QED
      BY <3>2, <3>3
  <2>3. QED
    BY <2>1, <2>2
<1>4. ASSUME over, NEW f \in Structs, dire[f] = "write"
      PROVE  bst[f].buf = <<>>
  BY <1>4 DEF FileInv, StructsOK, IsOpen
<1>5. SameFiles
  BY <1>3, <1>4 DEF SameFiles
<1>6. OffsetHolds
  BY DEF FileInv, StructsOK, GoodStruct, Ahead, OffsetHolds, IsOpen
<1>7. QED
  BY <1>1, <1>5, <1>6 DEF TwinsAlike

\* The buffered implementation of stdio_file_simple.h gives a program what the
\* unbuffered one gives it: the same results, bytes and positions, whatever the
\* calls and however short the reads and writes, until one of them fails; and it
\* leaves the same files behind.
THEOREM TwinsAlikeHolds == FileSpec => []TwinsAlike
<1>1. FileInit => FileInv
  BY FileInitOK
<1>2. FileInv /\ [FileNext]_fileVars => FileInv'
  BY FileNextKeeps
<1>3. FileInv => TwinsAlike
  BY AlikeIsEnough
<1>4. QED
  BY <1>1, <1>2, <1>3, PTL DEF FileSpec

=============================================================================
