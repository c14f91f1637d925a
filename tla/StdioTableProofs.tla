-------------------------- MODULE StdioTableProofs --------------------------
(***************************************************************************)
(* Proofs about StdioTable, for every number of slots, descriptors, files  *)
(* and bytes: no descriptor and no slot is leaked or used twice, and no    *)
(* byte is dropped by closing, reopening and exiting.                      *)
(***************************************************************************)
EXTENDS StdioTable, SequenceTheorems, WellFoundedInduction, TLAPS

-----------------------------------------------------------------------------
(* The least of a set of naturals, and sums over the streams. *)

\* Every nonempty set of naturals has a least element, which is its Min.
LEMMA LeastNat ==
  ASSUME NEW S, S \subseteq Nat, S # {}
  PROVE  Min(S) \in S /\ \A y \in S : Min(S) <= y
<1>1. PICK x \in S : \A y \in S : ~ (<<y, x>> \in OpToRel(<, Nat))
  BY NatLessThanWellFounded, WFMin
<1>2. \A y \in S : x <= y
  <2> SUFFICES ASSUME NEW y \in S, y < x PROVE FALSE
    OBVIOUS
  <2>1. <<y, x>> \in OpToRel(<, Nat)
    BY DEF OpToRel
  <2>2. QED
    BY <1>1, <2>1
<1>3. QED
  BY <1>2 DEF Min

Last == Capacity + 3

LEMMA LastOK == Last \in Nat /\ Last >= 4
BY CapacityAssumption DEF Last

\* Where stream s comes in the order of the sum.
Index(s) == IF s < 0 THEN -s ELSE s + 3

LEMMA NthOK ==
  /\ \A n \in 1..Last : Nth(n) \in Streams /\ Index(Nth(n)) = n
  /\ \A s \in Streams : Index(s) \in 1..Last /\ Nth(Index(s)) = s
BY CapacityAssumption DEF Nth, Index, Streams, Std, Slots, StdIn, StdOut, StdErr, Last

\* g holds the partial sums of f up to n.
Sums(g, f, n) ==
  g = [i \in 0..n |-> IF i = 0 THEN 0 ELSE g[i - 1] + f[Nth(i)]]

LEMMA SumsExist ==
  ASSUME NEW f, NEW n \in Nat
  PROVE  \E g : Sums(g, f, n)
<1> DEFINE Bad == {m \in Nat : ~ \E g : Sums(g, f, m)}
<1>1. SUFFICES ASSUME Bad # {} PROVE FALSE
  OBVIOUS
<1>2. PICK m \in Bad : \A y \in Bad : m <= y
  BY <1>1, LeastNat
<1>3. CASE m = 0
  <2>1. Sums([i \in 0..0 |-> 0], f, 0)
    BY DEF Sums
  <2>2. QED
    BY <1>2, <1>3, <2>1
<1>4. CASE m # 0
  <2>1. m - 1 \in Nat /\ m - 1 \notin Bad
    BY <1>2, <1>4
  <2>2. PICK g : Sums(g, f, m - 1)
    BY <2>1
  <2> DEFINE h == [i \in 0..m |-> IF i = 0 THEN 0 ELSE g[i - 1] + f[Nth(i)]]
  <2>3. \A i \in 0..m - 1 : g[i] = h[i]
    BY <2>1, <2>2 DEF Sums
  <2>4. \A i \in 0..m : h[i] = IF i = 0 THEN 0 ELSE h[i - 1] + f[Nth(i)]
    <3>1. TAKE i \in 0..m
    <3>2. h[i] = IF i = 0 THEN 0 ELSE g[i - 1] + f[Nth(i)]
      OBVIOUS
    <3> HIDE DEF h
    <3>3. i # 0 => i - 1 \in 0..m - 1
      BY <2>1
    <3>4. QED
      BY <2>3, <3>2, <3>3
  <2>5. h = [i \in 0..m |-> h[i]]
    OBVIOUS
  <2> HIDE DEF h
  <2>6. Sums(h, f, m)
    BY <2>4, <2>5 DEF Sums
  <2>7. QED
    BY <1>2, <2>6
<1>5. QED
  BY <1>3, <1>4

\* The sum over the streams is the last of the partial sums.
LEMMA TotalIs ==
  ASSUME NEW f
  PROVE  \E g : Sums(g, f, Last) /\ Total(f) = g[Last]
<1>1. \E g : Sums(g, f, Last)
  BY SumsExist, LastOK
<1>2. QED
  BY <1>1 DEF Total, Sums, Last

LEMMA SumsNat ==
  ASSUME NEW f \in [Streams -> Nat], NEW g, Sums(g, f, Last)
  PROVE  \A n \in 0..Last : g[n] \in Nat
<1> DEFINE Bad == {n \in 0..Last : g[n] \notin Nat}
<1>1. SUFFICES ASSUME Bad # {} PROVE FALSE
  OBVIOUS
<1>2. PICK m \in Bad : \A y \in Bad : m <= y
  <2>1. Bad \subseteq Nat
    BY LastOK
  <2> HIDE DEF Bad
  <2>2. QED
    BY <1>1, <2>1, LeastNat
<1>3. m # 0
  BY <1>2, LastOK DEF Sums
<1>4. m \in 1..Last /\ m - 1 \in 0..Last /\ m - 1 \notin Bad
  BY <1>2, <1>3, LastOK
<1>5. g[m] = g[m - 1] + f[Nth(m)]
  BY <1>4, LastOK DEF Sums
<1>6. g[m - 1] \in Nat /\ f[Nth(m)] \in Nat
  BY <1>4, NthOK
<1>7. QED
  BY <1>2, <1>5, <1>6

LEMMA TotalNat ==
  ASSUME NEW f \in [Streams -> Nat]
  PROVE  Total(f) \in Nat
BY TotalIs, SumsNat, LastOK

LEMMA TotalZero == Total([s \in Streams |-> 0]) = 0
<1> DEFINE f == [s \in Streams |-> 0]
<1>1. PICK g : Sums(g, f, Last) /\ Total(f) = g[Last]
  BY TotalIs
<1> DEFINE Bad == {n \in 0..Last : g[n] # 0}
<1>2. Bad = {}
  <2>1. SUFFICES ASSUME Bad # {} PROVE FALSE
    OBVIOUS
  <2>2. PICK m \in Bad : \A y \in Bad : m <= y
    <3>1. Bad \subseteq Nat
      BY LastOK
    <3> HIDE DEF Bad
    <3>2. QED
      BY <2>1, <3>1, LeastNat
  <2>3. m # 0
    BY <1>1, <2>2, LastOK DEF Sums
  <2>4. m \in 1..Last /\ m - 1 \in 0..Last /\ m - 1 \notin Bad
    BY <2>2, <2>3, LastOK
  <2>5. f[Nth(m)] = 0
    BY <2>4, NthOK
  <2> HIDE DEF f
  <2>6. g[m] = g[m - 1] + f[Nth(m)]
    BY <1>1, <2>4, LastOK DEF Sums
  <2>7. QED
    BY <2>2, <2>4, <2>5, <2>6
<1>3. QED
  BY <1>1, <1>2, LastOK

\* Changing f at one stream changes the sum by as much.
LEMMA TotalUpdate ==
  ASSUME NEW f \in [Streams -> Nat], NEW h \in [Streams -> Nat], NEW s \in Streams,
         \A r \in Streams \ {s} : h[r] = f[r]
  PROVE  Total(h) = Total(f) + h[s] - f[s]
<1>1. PICK F : Sums(F, f, Last) /\ Total(f) = F[Last]
  BY TotalIs
<1>2. PICK H : Sums(H, h, Last) /\ Total(h) = H[Last]
  BY TotalIs
<1>3. (\A n \in 0..Last : F[n] \in Nat) /\ (\A n \in 0..Last : H[n] \in Nat)
  BY <1>1, <1>2, SumsNat
<1>4. f[s] \in Nat /\ h[s] \in Nat /\ Index(s) \in 1..Last /\ Nth(Index(s)) = s
  BY NthOK
<1> DEFINE More(n) == IF n < Index(s) THEN 0 ELSE h[s] - f[s]
           Bad == {n \in 0..Last : H[n] # F[n] + More(n)}
<1>5. Bad = {}
  <2>1. SUFFICES ASSUME Bad # {} PROVE FALSE
    OBVIOUS
  <2>2. PICK m \in Bad : \A y \in Bad : m <= y
    <3>1. Bad \subseteq Nat
      BY LastOK
    <3> HIDE DEF Bad
    <3>2. QED
      BY <2>1, <3>1, LeastNat
  <2>3. m # 0
    <3>1. F[0] = 0 /\ H[0] = 0
      BY <1>1, <1>2, LastOK DEF Sums
    <3>2. QED
      BY <2>2, <3>1, <1>4
  <2>4. m \in 1..Last /\ m - 1 \in 0..Last /\ m - 1 \notin Bad
    BY <2>2, <2>3, LastOK
  <2>5. F[m] = F[m - 1] + f[Nth(m)] /\ H[m] = H[m - 1] + h[Nth(m)]
    BY <2>4, <1>1, <1>2, LastOK DEF Sums
  <2>6. H[m - 1] = F[m - 1] + More(m - 1)
    BY <2>4
  <2>7. /\ F[m - 1] \in Nat /\ H[m - 1] \in Nat /\ f[Nth(m)] \in Nat /\ h[Nth(m)] \in Nat
        /\ Nth(m) \in Streams /\ Index(Nth(m)) = m
    BY <1>3, <2>4, NthOK
  <2>8. CASE m = Index(s)
    <3>1. More(m - 1) = 0 /\ More(m) = h[s] - f[s] /\ Nth(m) = s
      BY <2>8, <2>4, <1>4
    <3> HIDE DEF More
    <3>2. H[m] = F[m] + More(m)
      BY <3>1, <2>5, <2>6, <2>7
    <3>3. QED
      BY <3>2, <2>2
  <2>9. CASE m # Index(s)
    <3>1. Nth(m) # s
      BY <2>9, <2>7
    <3>2. h[Nth(m)] = f[Nth(m)]
      BY <3>1, <2>7
    <3>3. More(m - 1) = More(m) /\ More(m) \in Int
      BY <2>9, <2>4, <1>4
    <3> HIDE DEF More
    <3>4. H[m] = F[m] + More(m)
      BY <3>2, <3>3, <2>5, <2>6, <2>7
    <3>5. QED
      BY <3>4, <2>2
  <2>10. QED
    BY <2>8, <2>9
<1>6. H[Last] = F[Last] + More(Last) /\ More(Last) = h[s] - f[s]
  BY <1>5, <1>4, LastOK
<1> HIDE DEF More
<1>7. F[Last] \in Nat /\ H[Last] \in Nat
  BY <1>3, LastOK
<1>8. QED
  BY <1>1, <1>2, <1>4, <1>6, <1>7

-----------------------------------------------------------------------------
(* The inductive invariant. *)

\* Only a stream that is written holds bytes; nothing here is line buffered.
StructOK(f) ==
  /\ f \in FileOf(Targets)
  /\ f.dire \in {FD_CLOSED, FD_READ, FD_WRITE}
  /\ f.dire # FD_WRITE => f.buf = <<>>

\* TypeOK, but for the sign of owed, which Conserved gives.
Shape ==
  /\ st \in [Streams -> FileOf(Targets)]
  /\ \A s \in Streams : StructOK(st[s])
  /\ fd \in [Streams -> Fds \union {-1}]
  /\ fds \in [Fds -> Targets \union {None}]
  /\ disk \in [Targets -> Nat] /\ owed \in [Targets -> Int]
  /\ own \subseteq Fds /\ held \subseteq Streams
  /\ todo \in Seq(Streams) /\ phase \in {"run", "exit", "gone"}

\* DescriptorsAccounted, descriptor by descriptor and stream by stream.
Accounted ==
  /\ \A n \in Fds : fds[n] # None => n \in own \/ \E s \in Streams : IsOpen(s) /\ fd[s] = n
  /\ \A n \in own : fds[n] # None
  /\ \A s \in Streams : IsOpen(s) => fd[s] \in Fds /\ fds[fd[s]] # None /\ fd[s] \notin own
  /\ \A s, r \in Streams : IsOpen(s) /\ IsOpen(r) /\ s # r => fd[s] # fd[r]

\* A stream that is to be flushed at exit is still on the list or is empty.
FlushedOrListed ==
  /\ phase = "exit" =>
       \A s \in Slots \union {StdOut} :
         st[s].buf = <<>> \/ \E i \in 1..Len(todo) : todo[i] = s
  /\ FlushedWhenGone

IInv == Shape /\ Accounted /\ SlotsAccounted /\ Conserved /\ FlushedOrListed

-----------------------------------------------------------------------------
(* What the helpers do to a struct. *)

LEMMA DireFacts ==
  /\ FD_CLOSED # FD_READ /\ FD_CLOSED # FD_WRITE /\ FD_READ # FD_WRITE
  /\ IsAnyWrite(FD_WRITE) /\ ~IsAnyWrite(FD_READ) /\ ~IsAnyWrite(FD_CLOSED)
  /\ {FD_CLOSED, FD_READ, FD_WRITE} \subseteq Dires
BY DEF FD_CLOSED, FD_READ, FD_WRITE, IsAnyWrite, Dires

LEMMA SizedOK ==
  ASSUME NEW f, StructOK(f), NEW g, g = [f EXCEPT !.bufEnd = BufSize, !.capEnd = BufSize]
  PROVE  StructOK(g)
<1>1. /\ g \in FileOf(Targets) /\ g.dire = f.dire /\ g.buf = f.buf
  BY BufSizeAssumption DEF StructOK, FileOf
<1>2. QED
  BY <1>1 DEF StructOK

LEMMA DiscardedOK ==
  ASSUME NEW f, f \in FileOf(Targets), f.dire \in {FD_CLOSED, FD_READ, FD_WRITE}
  PROVE  /\ StructOK(DiscardBuf(f))
         /\ DiscardBuf(f).dire = f.dire /\ DiscardBuf(f).buf = <<>>
<1> DEFINE w == IF IsAnyRead(f.dire) THEN f.bufEnd ELSE 0
           g == [f EXCEPT !.last = 0, !.readPtr = 0, !.buf = <<>>, !.writePtr = w]
<1>1. w \in Nat /\ 0 \in Nat /\ <<>> \in Seq(Targets)
  BY EmptySeq DEF FileOf
<1>2. DiscardBuf(f) = g
  BY DEF DiscardBuf
<1> HIDE DEF w
<1>3. g \in FileOf(Targets) /\ g.dire = f.dire /\ g.buf = <<>>
  BY <1>1 DEF FileOf
<1> HIDE DEF g
<1>4. QED
  BY <1>2, <1>3 DEF StructOK

LEMMA OpenedOK ==
  ASSUME NEW f, StructOK(f), NEW d \in {FD_READ, FD_WRITE}
  PROVE  StructOK(Opened(f, d)) /\ Opened(f, d).dire = d /\ Opened(f, d).buf = <<>>
<1> DEFINE g == [f EXCEPT !.dire = d, !.off = 0]
<1>0. f \in FileOf(Targets) /\ d \in Dires /\ 0 \in Int
  BY DireFacts DEF StructOK
<1>1. g \in FileOf(Targets) /\ g.dire = d
  BY <1>0 DEF FileOf
<1>2. Opened(f, d) = DiscardBuf(g)
  BY DEF Opened
<1> HIDE DEF g
<1>3. QED
  BY <1>1, <1>2, DiscardedOK

LEMMA EmptiedOK ==
  ASSUME NEW f, StructOK(f), NEW k \in Nat
  PROVE  StructOK(Emptied(f, k)) /\ Emptied(f, k).dire = f.dire /\ Emptied(f, k).buf = <<>>
<1>1. CASE ~IsAnyWrite(f.dire)
  BY <1>1, DireFacts DEF Emptied, StructOK
<1>2. CASE IsAnyWrite(f.dire)
  <2> DEFINE g == [f EXCEPT !.off = f.off + k]
             h == DiscardBuf(g)
  <2>1. g \in FileOf(Targets) /\ g.dire = f.dire
    BY DEF StructOK, FileOf
  <2>2. Flushed(f, k) = h
    BY DEF Flushed
  <2>3. f.dire \in {FD_CLOSED, FD_READ, FD_WRITE}
    BY DEF StructOK
  <2> HIDE DEF g
  <2>4. StructOK(h) /\ h.dire = f.dire /\ h.buf = <<>>
    BY <2>1, <2>3, DiscardedOK
  <2> HIDE DEF h
  <2>5. Emptied(f, k) = [h EXCEPT !.off = 0]
    BY <1>2, <2>2 DEF Emptied
  <2> DEFINE e == [h EXCEPT !.off = 0]
  <2>6. e \in FileOf(Targets) /\ e.dire = h.dire /\ e.buf = h.buf
    <3>1. h \in FileOf(Targets) /\ 0 \in Int
      BY <2>4 DEF StructOK
    <3>2. QED
      BY <3>1 DEF FileOf
  <2> HIDE DEF e
  <2>7. StructOK(e)
    BY <2>4, <2>6 DEF StructOK
  <2>8. QED
    BY <2>4, <2>5, <2>6, <2>7 DEF e
<1>3. QED
  BY <1>1, <1>2

LEMMA ClosedOK ==
  ASSUME NEW f, StructOK(f), f.buf = <<>>
  PROVE  StructOK(Closed(f)) /\ Closed(f).dire = FD_CLOSED /\ Closed(f).buf = <<>>
<1> DEFINE g == [f EXCEPT !.dire = FD_CLOSED, !.writePtr = f.bufEnd, !.readPtr = f.last]
<1>1. g \in FileOf(Targets) /\ g.dire = FD_CLOSED /\ g.buf = f.buf
  BY DireFacts DEF StructOK, FileOf
<1>2. Closed(f) = g
  BY DEF Closed
<1> HIDE DEF g
<1>3. QED
  BY <1>1, <1>2 DEF StructOK

LEMMA PutOK ==
  ASSUME NEW f, StructOK(f), f.dire = FD_WRITE, NEW b \in Targets,
         NEW g, g = [f EXCEPT !.writePtr = f.writePtr + 1, !.buf = Append(f.buf, b)]
  PROVE  StructOK(g) /\ g.dire = FD_WRITE /\ Len(g.buf) = Len(f.buf) + 1
<1>1. /\ Append(f.buf, b) \in Seq(Targets) /\ f.writePtr + 1 \in Nat
      /\ Len(Append(f.buf, b)) = Len(f.buf) + 1
  BY AppendProperties DEF StructOK, FileOf
<1>2. g \in FileOf(Targets) /\ g.dire = f.dire /\ g.buf = Append(f.buf, b)
  BY <1>1 DEF StructOK, FileOf
<1>3. QED
  BY <1>1, <1>2 DEF StructOK

-----------------------------------------------------------------------------
(* What one stream's bytes are to the sum. *)

LEMMA PendingType ==
  ASSUME NEW sts, \A s \in Streams : StructOK(sts[s]), NEW fdv, NEW fdsv, NEW t, NEW p,
         p = [s \in Streams |-> IF sts[s].dire # FD_CLOSED /\ fdsv[fdv[s]] = t
                                THEN Len(sts[s].buf) ELSE 0]
  PROVE  p \in [Streams -> Nat]
<1>1. \A s \in Streams : Len(sts[s].buf) \in Nat
  BY LenProperties DEF StructOK, FileOf
<1>2. QED
  BY <1>1

\* A step that changes the pending bytes of stream s only, and what is owed
\* and on the disk by as much, conserves them.
LEMMA ConservedStep ==
  ASSUME Shape, Shape', Conserved, NEW s \in Streams,
         \A t \in Targets : \A r \in Streams \ {s} : Pending(t)'[r] = Pending(t)[r],
         \A t \in Targets :
           owed'[t] - disk'[t] - Pending(t)'[s] = owed[t] - disk[t] - Pending(t)[s]
  PROVE  Conserved'
<1>1. SUFFICES ASSUME NEW t \in Targets
               PROVE  owed'[t] = disk'[t] + Total(Pending(t)')
  BY DEF Conserved, Total
<1> DEFINE f == Pending(t)
           h == Pending(t)'
<1>2. f \in [Streams -> Nat] /\ h \in [Streams -> Nat]
  <2>1. f \in [Streams -> Nat]
    BY PendingType DEF Pending, IsOpen, Shape
  <2>2. h \in [Streams -> Nat]
    BY PendingType DEF Pending, IsOpen, Shape
  <2>3. QED
    BY <2>1, <2>2
<1>3. \A r \in Streams \ {s} : h[r] = f[r]
  OBVIOUS
<1>4. owed'[t] - disk'[t] - h[s] = owed[t] - disk[t] - f[s]
  OBVIOUS
<1>5. owed[t] = disk[t] + Total(f)
  BY DEF Conserved
<1>6. owed'[t] \in Int /\ disk'[t] \in Nat /\ owed[t] \in Int /\ disk[t] \in Nat
  BY DEF Shape
<1> HIDE DEF f, h
<1>7. Total(h) = Total(f) + h[s] - f[s] /\ Total(f) \in Nat /\ Total(h) \in Nat
  BY <1>2, <1>3, TotalUpdate, TotalNat
<1>8. f[s] \in Nat /\ h[s] \in Nat
  BY <1>2
<1>9. owed'[t] = disk'[t] + Total(h)
  BY <1>4, <1>5, <1>6, <1>7, <1>8
<1>10. QED
  BY <1>9 DEF h

\* Delivering what a stream holds takes it from what is owed and not yet on
\* the disk, whatever part of it is lost.
LEMMA DeliverStep ==
  ASSUME Shape, Accounted, NEW s \in Streams, NEW k \in 0..Len(st[s].buf),
         Deliver(s, st[s].buf, k)
  PROVE  /\ disk' \in [Targets -> Nat] /\ owed' \in [Targets -> Int]
         /\ \A t \in Targets : owed'[t] - disk'[t] = owed[t] - disk[t] - Pending(t)[s]
<1>1. /\ disk \in [Targets -> Nat] /\ owed \in [Targets -> Int] /\ Len(st[s].buf) \in Nat
      /\ StructOK(st[s])
  BY LenProperties DEF Shape, StructOK, FileOf
<1>2. CASE st[s].buf = <<>>
  <2>1. \A t \in Targets : Pending(t)[s] = 0
    BY <1>2 DEF Pending
  <2>2. disk' = disk /\ owed' = owed
    BY <1>2 DEF Deliver
  <2>3. QED
    BY <1>1, <2>1, <2>2
<1>3. CASE st[s].buf # <<>>
  <2> DEFINE u == fds[fd[s]]
             len == Len(st[s].buf)
  <2>1. IsOpen(s)
    BY <1>1, <1>3, DireFacts DEF IsOpen, StructOK
  <2>2. u \in Targets
    BY <2>1 DEF Accounted, Shape
  <2>3. disk' = [disk EXCEPT ![u] = disk[u] + k] /\ owed' = [owed EXCEPT ![u] = owed[u] - (len - k)]
    BY <1>3 DEF Deliver
  <2>4. \A t \in Targets : Pending(t)[s] = IF t = u THEN len ELSE 0
    BY <2>1 DEF Pending
  <2>5. len \in Nat /\ k \in Nat /\ k <= len
    BY <1>1
  <2> HIDE DEF u, len
  <2>6. disk' \in [Targets -> Nat] /\ owed' \in [Targets -> Int]
    BY <1>1, <2>2, <2>3, <2>5
  <2>7. ASSUME NEW t \in Targets
        PROVE  owed'[t] - disk'[t] = owed[t] - disk[t] - Pending(t)[s]
    <3>1. disk[t] \in Int /\ owed[t] \in Int
      BY <1>1
    <3>2. CASE t = u
      <4>1. disk'[t] = disk[t] + k /\ owed'[t] = owed[t] - (len - k) /\ Pending(t)[s] = len
        BY <1>1, <2>2, <2>3, <2>4, <3>2
      <4>2. QED
        BY <2>5, <3>1, <4>1
    <3>3. CASE t # u
      <4>1. disk'[t] = disk[t] /\ owed'[t] = owed[t] /\ Pending(t)[s] = 0
        BY <1>1, <2>3, <2>4, <3>3
      <4>2. QED
        BY <3>1, <4>1
    <3>4. QED
      BY <3>2, <3>3
  <2>8. QED
    BY <2>6, <2>7
<1>4. QED
  BY <1>2, <1>3

LEMMA StreamFacts ==
  /\ StdIn \in Streams /\ StdOut \in Streams /\ StdErr \in Streams
  /\ Slots \subseteq Streams /\ Slots \subseteq Nat
  /\ Slots \intersect Std = {}
BY CapacityAssumption DEF Streams, Std, Slots, StdIn, StdOut, StdErr

LEMMA TargetFacts ==
  /\ Raw \in Targets /\ Paths \subseteq Targets /\ None \notin Targets
  /\ 0 \in Fds /\ 1 \in Fds /\ 2 \in Fds /\ Fds \subseteq Nat /\ -1 \notin Fds
BY PathsAssumption, FdAssumption DEF Targets, Raw, None, Fds

LEMMA LowestFd ==
  ASSUME NEW S, S \subseteq Fds, S # {}
  PROVE  Min(S) \in S
BY LeastNat, TargetFacts

LEMMA LowestSlot ==
  ASSUME FreeSlots # {}
  PROVE  /\ Min(FreeSlots) \in Slots /\ Min(FreeSlots) \in Streams
         /\ ~IsOpen(Min(FreeSlots))
<1>1. FreeSlots \subseteq Nat
  BY StreamFacts DEF FreeSlots
<1>2. Min(FreeSlots) \in FreeSlots
  BY <1>1, LeastNat
<1>3. QED
  BY <1>2, StreamFacts DEF FreeSlots

LEMMA InitOK == Init => IInv
<1>1. SUFFICES ASSUME Init PROVE IInv
  OBVIOUS
<1>2. \A s \in Streams : /\ StructOK(st[s]) /\ st[s].buf = <<>>
                         /\ IsOpen(s) <=> s \in Std
  <2>1. SUFFICES ASSUME NEW s \in Streams
                 PROVE /\ StructOK(st[s]) /\ st[s].buf = <<>>
                       /\ IsOpen(s) <=> s \in Std
    OBVIOUS
  <2> DEFINE end == IF s = StdErr THEN 0 ELSE BufSize
             d == CASE s = StdIn -> FD_READ
                    [] s \in {StdOut, StdErr} -> FD_WRITE
                    [] s \in Slots -> FD_CLOSED
             w == IF s = StdIn THEN end ELSE 0
             f == [bufEnd |-> end, capEnd |-> BufSize, readPtr |-> 0, last |-> 0, off |-> 0,
                   buf |-> <<>>, dire |-> d, writePtr |-> w]
  <2>2. st[s] = f
    BY <1>1 DEF Init, InitialStruct
  <2>3. end \in Nat /\ w \in Nat /\ BufSize \in Nat /\ <<>> \in Seq(Targets)
    BY BufSizeAssumption, EmptySeq
  <2>4. d \in {FD_CLOSED, FD_READ, FD_WRITE} /\ (d # FD_CLOSED <=> s \in Std)
    <3>0. /\ StdIn # StdOut /\ StdIn # StdErr
          /\ StdIn \notin Slots /\ StdOut \notin Slots /\ StdErr \notin Slots
      BY StreamFacts DEF Std, StdIn, StdOut, StdErr
    <3>1. CASE s = StdIn
      <4>1. d = FD_READ
        BY <3>0, <3>1
      <4>2. QED
        BY <3>1, <4>1, DireFacts DEF Std
    <3>2. CASE s \in {StdOut, StdErr}
      <4>1. d = FD_WRITE
        BY <3>0, <3>2
      <4>2. QED
        BY <3>2, <4>1, DireFacts DEF Std
    <3>3. CASE s \in Slots
      BY <3>3, StreamFacts, DireFacts DEF Std
    <3>4. QED
      BY <3>1, <3>2, <3>3 DEF Streams, Std
  <2> HIDE DEF end, d, w
  <2>5. f \in FileOf(Targets) /\ f.dire = d /\ f.buf = <<>>
    BY <2>3, <2>4, DireFacts DEF FileOf
  <2> HIDE DEF f
  <2>6. QED
    BY <2>2, <2>4, <2>5 DEF StructOK, IsOpen
<1>3. Shape
  <2>1. st \in [Streams -> FileOf(Targets)]
    BY <1>1, <1>2 DEF Init, StructOK
  <2>2. fd \in [Streams -> Fds \union {-1}]
    <3>1. \A s \in Streams : (CASE s = StdIn -> 0 [] s = StdOut -> 1 [] s = StdErr -> 2
                               [] s \in Slots -> -1) \in Fds \union {-1}
      BY TargetFacts, StreamFacts DEF Streams, Std
    <3>2. QED
      BY <1>1, <3>1 DEF Init
  <2>3. fds \in [Fds -> Targets \union {None}] /\ disk \in [Targets -> Nat]
        /\ owed \in [Targets -> Int]
    BY <1>1, TargetFacts DEF Init
  <2>4. own \subseteq Fds /\ held \subseteq Streams
    BY <1>1 DEF Init, Streams
  <2>5. todo \in Seq(Streams) /\ phase \in {"run", "exit", "gone"}
    BY <1>1, EmptySeq DEF Init
  <2>6. QED
    BY <1>2, <2>1, <2>2, <2>3, <2>4, <2>5 DEF Shape
<1>4. Accounted
  <2>1. fd[StdIn] = 0 /\ fd[StdOut] = 1 /\ fd[StdErr] = 2
    BY <1>1, StreamFacts DEF Init, StdIn, StdOut, StdErr
  <2>2. /\ \A n \in Fds : fds[n] # None <=> n <= 2
        /\ own = {}
    BY <1>1, TargetFacts DEF Init
  <2>3. \A n \in Fds : n <= 2 => n = 0 \/ n = 1 \/ n = 2
    BY TargetFacts
  <2>4. \A s \in Streams : IsOpen(s) <=> s \in {StdIn, StdOut, StdErr}
    BY <1>2 DEF Std
  <2>5. QED
    BY <2>1, <2>2, <2>3, <2>4, TargetFacts, StreamFacts DEF Accounted
<1>5. SlotsAccounted
  BY <1>1, <1>2, StreamFacts DEF Init, SlotsAccounted
<1>6. Conserved
  <2>1. SUFFICES ASSUME NEW t \in Targets PROVE owed[t] = disk[t] + Total(Pending(t))
    BY DEF Conserved
  <2>2. Pending(t) = [s \in Streams |-> 0]
    BY <1>2 DEF Pending
  <2>3. Total([s \in Streams |-> 0]) = 0
    BY TotalZero
  <2>4. QED
    BY <1>1, <2>2, <2>3 DEF Init
<1>7. FlushedOrListed
  BY <1>1 DEF Init, FlushedOrListed, FlushedWhenGone
<1>8. QED
  BY <1>3, <1>4, <1>5, <1>6, <1>7 DEF IInv

-----------------------------------------------------------------------------
(* The steps of the program and its streams. *)

LEMMA OpenRawStep ==
  ASSUME IInv, NEW path \in Paths, OpenRaw(path)
  PROVE  IInv'
<1> DEFINE n == Min(FreeFds)
<1>1. n \in Fds /\ fds[n] = None
  <2>1. FreeFds \subseteq Fds /\ FreeFds # {}
    BY DEF FreeFds, OpenRaw
  <2>2. n \in FreeFds
    BY <2>1, LowestFd
  <2>3. QED
    BY <2>2 DEF FreeFds
<1>2. /\ fds' = [fds EXCEPT ![n] = path] /\ own' = own \union {n}
      /\ UNCHANGED <<st, fd, disk, owed, held, todo, phase>> /\ phase = "run"
  BY DEF OpenRaw, Running
<1> HIDE DEF n
<1>3. path \in Targets /\ path # None
  BY TargetFacts
<1>4. Shape'
  BY <1>1, <1>2, <1>3 DEF IInv, Shape
<1>5. /\ \A m \in Fds : fds'[m] = IF m = n THEN path ELSE fds[m]
      /\ \A s \in Streams : IsOpen(s)' = IsOpen(s) /\ (IsOpen(s) => fd[s] # n)
  BY <1>1, <1>2 DEF IInv, Shape, Accounted, IsOpen
<1>6. Accounted'
  BY <1>1, <1>2, <1>3, <1>5 DEF IInv, Accounted
<1>7. Conserved'
  <2>1. \A t \in Targets : \A r \in Streams : Pending(t)'[r] = Pending(t)[r]
    BY <1>2, <1>5 DEF Pending, IInv, Accounted
  <2>2. QED
    BY <1>2, <1>4, <2>1, StreamFacts, ConservedStep DEF IInv
<1>8. SlotsAccounted' /\ FlushedOrListed'
  BY <1>2 DEF IInv, SlotsAccounted, FlushedOrListed, FlushedWhenGone, IsOpen
<1>9. QED
  BY <1>4, <1>6, <1>7, <1>8 DEF IInv

LEMMA CloseRawStep ==
  ASSUME IInv, NEW n \in Fds, CloseRaw(n)
  PROVE  IInv'
<1>1. /\ fds' = [fds EXCEPT ![n] = None] /\ own' = own \ {n} /\ n \in own
      /\ UNCHANGED <<st, fd, disk, owed, held, todo, phase>> /\ phase = "run"
  BY DEF CloseRaw, Running
<1>2. Shape'
  BY <1>1 DEF IInv, Shape
<1>3. /\ \A m \in Fds : fds'[m] = IF m = n THEN None ELSE fds[m]
      /\ \A s \in Streams : IsOpen(s)' = IsOpen(s) /\ (IsOpen(s) => fd[s] # n)
  BY <1>1 DEF IInv, Shape, Accounted, IsOpen
<1>4. Accounted'
  BY <1>1, <1>3 DEF IInv, Accounted
<1>5. Conserved'
  <2>1. \A t \in Targets : \A r \in Streams : Pending(t)'[r] = Pending(t)[r]
    BY <1>1, <1>3 DEF Pending, IInv, Accounted
  <2>2. QED
    BY <1>1, <1>2, <2>1, StreamFacts, ConservedStep DEF IInv
<1>6. SlotsAccounted' /\ FlushedOrListed'
  BY <1>1 DEF IInv, SlotsAccounted, FlushedOrListed, FlushedWhenGone, IsOpen
<1>7. QED
  BY <1>2, <1>4, <1>5, <1>6 DEF IInv

\* A closed slot s is opened on descriptor n, which stands for target u and is
\* not a stream's.
LEMMA OpenStep ==
  ASSUME IInv, NEW s \in Slots, ~IsOpen(s), NEW n \in Fds, NEW u \in Targets,
         \A r \in Streams : IsOpen(r) => fd[r] # n,
         NEW g, StructOK(g), g.dire # FD_CLOSED, g.buf = <<>>,
         st' = [st EXCEPT ![s] = g], fd' = [fd EXCEPT ![s] = n],
         fds' = [fds EXCEPT ![n] = u], own' = own \ {n}, held' = held \union {s},
         disk' \in [Targets -> Nat], owed' \in [Targets -> Int],
         \A t \in Targets : owed'[t] - disk'[t] = owed[t] - disk[t],
         phase = "run", UNCHANGED <<todo, phase>>
  PROVE  IInv'
<1>1. s \in Streams /\ u # None
  BY StreamFacts, TargetFacts
<1>2. Shape'
  BY <1>1 DEF IInv, Shape, StructOK
<1>3. /\ \A m \in Fds : fds'[m] = IF m = n THEN u ELSE fds[m]
      /\ st'[s] = g /\ fd'[s] = n
      /\ \A r \in Streams \ {s} : st'[r] = st[r] /\ fd'[r] = fd[r]
  BY <1>1 DEF IInv, Shape
<1>4. IsOpen(s)' /\ \A r \in Streams \ {s} : IsOpen(r)' <=> IsOpen(r)
  BY <1>3 DEF IsOpen
<1>5. Accounted'
  <2>1. ASSUME NEW m \in Fds, fds'[m] # None
        PROVE  m \in own' \/ \E r \in Streams : IsOpen(r)' /\ fd'[r] = m
    <3>1. CASE m = n
      BY <1>1, <1>3, <1>4, <3>1
    <3>2. CASE m # n
      <4>1. m \in own \/ \E r \in Streams : IsOpen(r) /\ fd[r] = m
        BY <1>3, <2>1, <3>2 DEF IInv, Accounted
      <4>2. CASE m \in own
        BY <3>2, <4>2
      <4>3. CASE m \notin own
        <5>1. PICK r \in Streams : IsOpen(r) /\ fd[r] = m
          BY <4>1, <4>3
        <5>2. r # s
          BY <5>1
        <5>3. IsOpen(r)' /\ fd'[r] = m
          BY <1>3, <1>4, <5>1, <5>2
        <5>4. QED
          BY <5>3
      <4>4. QED
        BY <4>2, <4>3
    <3>3. QED
      BY <3>1, <3>2
  <2>2. \A m \in own' : fds'[m] # None
    BY <1>1, <1>3 DEF IInv, Accounted, Shape
  <2>3. \A r \in Streams : IsOpen(r)' =>
          fd'[r] \in Fds /\ fds'[fd'[r]] # None /\ fd'[r] \notin own'
    BY <1>1, <1>3, <1>4 DEF IInv, Accounted
  <2>4. \A r, q \in Streams : IsOpen(r)' /\ IsOpen(q)' /\ r # q => fd'[r] # fd'[q]
    BY <1>1, <1>3, <1>4 DEF IInv, Accounted
  <2>5. QED
    BY <2>1, <2>2, <2>3, <2>4 DEF Accounted
<1>6. Conserved'
  <2>1. \A t \in Targets : \A r \in Streams \ {s} : Pending(t)'[r] = Pending(t)[r]
    BY <1>3, <1>4 DEF Pending, IInv, Accounted
  <2>2. \A t \in Targets : Pending(t)'[s] = 0 /\ Pending(t)[s] = 0
    BY <1>1, <1>3 DEF Pending
  <2>3. \A t \in Targets :
          owed'[t] - disk'[t] - Pending(t)'[s] = owed[t] - disk[t] - Pending(t)[s]
    BY <2>2
  <2>4. Shape /\ Conserved
    BY DEF IInv
  <2>5. QED
    BY <1>1, <1>2, <2>1, <2>3, <2>4, ConservedStep
<1>7. SlotsAccounted'
  BY <1>1, <1>4, StreamFacts DEF IInv, SlotsAccounted
<1>8. FlushedOrListed'
  BY DEF FlushedOrListed, FlushedWhenGone
<1>9. QED
  BY <1>2, <1>5, <1>6, <1>7, <1>8 DEF IInv

LEMMA ModeFacts ==
  ASSUME NEW mode
  PROVE  DireOf(mode) \in {FD_READ, FD_WRITE} /\ DireOf(mode) # FD_CLOSED
BY DireFacts DEF DireOf

\* Truncating a file takes what was on it from what is owed.
LEMMA OpenFileStep ==
  ASSUME Shape, NEW path \in Paths, NEW mode, OpenFile(path, mode)
  PROVE  /\ disk' \in [Targets -> Nat] /\ owed' \in [Targets -> Int]
         /\ \A t \in Targets : owed'[t] - disk'[t] = owed[t] - disk[t]
<1>1. path \in Targets /\ disk \in [Targets -> Nat] /\ owed \in [Targets -> Int]
  BY TargetFacts DEF Shape
<1>2. CASE Truncates(mode)
  <2>1. disk' = [disk EXCEPT ![path] = 0] /\ owed' = [owed EXCEPT ![path] = owed[path] - disk[path]]
    BY <1>2 DEF OpenFile
  <2>2. QED
    BY <1>1, <2>1
<1>3. CASE ~Truncates(mode)
  BY <1>1, <1>3 DEF OpenFile
<1>4. QED
  BY <1>2, <1>3

LEMMA FopenStep ==
  ASSUME IInv, NEW path \in Paths, NEW mode \in Modes, Fopen(path, mode)
  PROVE  IInv'
<1> DEFINE s == Min(FreeSlots)
           n == Min(FreeFds)
           f == [st[s] EXCEPT !.bufEnd = BufSize, !.capEnd = BufSize]
           g == Opened(f, DireOf(mode))
<1>1. s \in Slots /\ s \in Streams /\ ~IsOpen(s)
  BY LowestSlot DEF Fopen
<1>2. n \in Fds /\ fds[n] = None
  <2>1. FreeFds \subseteq Fds /\ FreeFds # {}
    BY DEF FreeFds, Fopen
  <2>2. n \in FreeFds
    BY <2>1, LowestFd
  <2>3. QED
    BY <2>2 DEF FreeFds
<1>3. /\ st' = [st EXCEPT ![s] = g] /\ fd' = [fd EXCEPT ![s] = n]
      /\ fds' = [fds EXCEPT ![n] = path] /\ held' = held \union {s}
      /\ OpenFile(path, mode) /\ UNCHANGED <<own, todo, phase>> /\ phase = "run"
  BY DEF Fopen, Running
<1>4. StructOK(g) /\ g.dire # FD_CLOSED /\ g.buf = <<>>
  <2>1. StructOK(f)
    BY <1>1, SizedOK DEF IInv, Shape
  <2> HIDE DEF f
  <2>2. QED
    BY <2>1, OpenedOK, ModeFacts
<1> HIDE DEF s, n, g
<1>5. /\ disk' \in [Targets -> Nat] /\ owed' \in [Targets -> Int]
      /\ \A t \in Targets : owed'[t] - disk'[t] = owed[t] - disk[t]
  BY <1>3, OpenFileStep DEF IInv
<1>6. \A r \in Streams : IsOpen(r) => fd[r] # n
  BY <1>2 DEF IInv, Accounted
<1>7. own' = own \ {n}
  BY <1>2, <1>3 DEF IInv, Accounted
<1>8. path \in Targets
  BY TargetFacts
<1>9. QED
  BY <1>1, <1>2, <1>3, <1>4, <1>5, <1>6, <1>7, <1>8, OpenStep

LEMMA FdopenStep ==
  ASSUME IInv, NEW n \in Fds, NEW mode \in Modes, Fdopen(n, mode)
  PROVE  IInv'
<1> DEFINE s == Min(FreeSlots)
           f == [st[s] EXCEPT !.bufEnd = BufSize, !.capEnd = BufSize]
           g == Opened(f, DireOf(mode))
           u == fds[n]
<1>1. s \in Slots /\ s \in Streams /\ ~IsOpen(s)
  BY LowestSlot DEF Fdopen
<1>2. /\ st' = [st EXCEPT ![s] = g] /\ fd' = [fd EXCEPT ![s] = n]
      /\ own' = own \ {n} /\ held' = held \union {s} /\ n \in own
      /\ UNCHANGED <<fds, disk, owed, todo, phase>> /\ phase = "run"
  BY DEF Fdopen, Running
<1>3. StructOK(g) /\ g.dire # FD_CLOSED /\ g.buf = <<>>
  <2>1. StructOK(f)
    BY <1>1, SizedOK DEF IInv, Shape
  <2> HIDE DEF f
  <2>2. QED
    BY <2>1, OpenedOK, ModeFacts
<1>4. u \in Targets
  BY <1>2 DEF IInv, Accounted, Shape
<1>5. fds' = [fds EXCEPT ![n] = u]
  BY <1>2 DEF IInv, Shape
<1>6. \A r \in Streams : IsOpen(r) => fd[r] # n
  BY <1>2 DEF IInv, Accounted
<1>7. /\ disk' \in [Targets -> Nat] /\ owed' \in [Targets -> Int]
      /\ \A t \in Targets : owed'[t] - disk'[t] = owed[t] - disk[t]
  BY <1>2 DEF IInv, Shape
<1> HIDE DEF s, g, u
<1>8. QED
  BY <1>1, <1>2, <1>3, <1>4, <1>5, <1>6, <1>7, OpenStep

\* Stream s, if it is open, is flushed and closed, and is closed afterwards.
LEMMA CloseStep ==
  ASSUME IInv, NEW s \in Streams, NEW k \in 0..Len(st[s].buf), Deliver(s, st[s].buf, k),
         s \in held, NEW g, StructOK(g), g.dire = FD_CLOSED, g.buf = <<>>,
         st' = [st EXCEPT ![s] = g], fd' = [fd EXCEPT ![s] = -1],
         fds' = IF IsOpen(s) THEN [fds EXCEPT ![fd[s]] = None] ELSE fds,
         held' = held \ (Slots \intersect {s}),
         phase = "run", UNCHANGED <<own, todo, phase>>
  PROVE  IInv'
<1>1. /\ disk' \in [Targets -> Nat] /\ owed' \in [Targets -> Int]
      /\ \A t \in Targets : owed'[t] - disk'[t] = owed[t] - disk[t] - Pending(t)[s]
  BY DeliverStep DEF IInv
<1>2. Shape'
  BY <1>1 DEF IInv, Shape, StructOK
<1>3. /\ st'[s] = g /\ fd'[s] = -1
      /\ \A r \in Streams \ {s} : st'[r] = st[r] /\ fd'[r] = fd[r]
  BY DEF IInv, Shape
<1>4. ~IsOpen(s)' /\ \A r \in Streams \ {s} : IsOpen(r)' <=> IsOpen(r)
  BY <1>3 DEF IsOpen
<1>5. \A m \in Fds : fds'[m] = IF IsOpen(s) /\ m = fd[s] THEN None ELSE fds[m]
  BY DEF IInv, Shape
<1>6. Accounted'
  <2>1. ASSUME NEW m \in Fds, fds'[m] # None
        PROVE  m \in own' \/ \E r \in Streams : IsOpen(r)' /\ fd'[r] = m
    <3>1. fds[m] # None /\ ~(IsOpen(s) /\ m = fd[s])
      BY <1>5, <2>1
    <3>2. CASE m \in own
      BY <3>2
    <3>3. CASE m \notin own
      <4>1. PICK r \in Streams : IsOpen(r) /\ fd[r] = m
        BY <3>1, <3>3 DEF IInv, Accounted
      <4>2. r # s
        BY <3>1, <4>1
      <4>3. IsOpen(r)' /\ fd'[r] = m
        BY <1>3, <1>4, <4>1, <4>2
      <4>4. QED
        BY <4>3
    <3>4. QED
      BY <3>2, <3>3
  <2>2. \A m \in own' : fds'[m] # None
    BY <1>5 DEF IInv, Accounted, Shape
  <2>3. \A r \in Streams : IsOpen(r)' =>
          fd'[r] \in Fds /\ fds'[fd'[r]] # None /\ fd'[r] \notin own'
    BY <1>3, <1>4, <1>5 DEF IInv, Accounted
  <2>4. \A r, q \in Streams : IsOpen(r)' /\ IsOpen(q)' /\ r # q => fd'[r] # fd'[q]
    BY <1>3, <1>4 DEF IInv, Accounted
  <2>5. QED
    BY <2>1, <2>2, <2>3, <2>4 DEF Accounted
<1>7. Conserved'
  <2>1. \A t \in Targets : \A r \in Streams \ {s} : Pending(t)'[r] = Pending(t)[r]
    BY <1>3, <1>4, <1>5 DEF Pending, IInv, Accounted
  <2>2. \A t \in Targets : Pending(t)'[s] = 0 /\ Pending(t)[s] \in Nat
    <3>1. Len(st[s].buf) \in Nat
      BY LenProperties DEF IInv, Shape, FileOf
    <3>2. QED
      BY <1>4, <3>1 DEF Pending
  <2>3. \A t \in Targets :
          owed'[t] - disk'[t] - Pending(t)'[s] = owed[t] - disk[t] - Pending(t)[s]
    <3>1. TAKE t \in Targets
    <3>2. owed'[t] \in Int /\ disk'[t] \in Int /\ Pending(t)'[s] = 0
      BY <1>1, <2>2
    <3>3. owed'[t] - disk'[t] = owed[t] - disk[t] - Pending(t)[s]
      BY <1>1
    <3>4. QED
      BY <3>2, <3>3
  <2>4. Shape /\ Conserved
    BY DEF IInv
  <2>5. QED
    BY <1>2, <2>1, <2>3, <2>4, ConservedStep
<1>8. SlotsAccounted'
  BY <1>4, StreamFacts DEF IInv, SlotsAccounted
<1>9. FlushedOrListed'
  BY DEF FlushedOrListed, FlushedWhenGone
<1>10. QED
  BY <1>2, <1>6, <1>7, <1>8, <1>9 DEF IInv

LEMMA FcloseStep ==
  ASSUME IInv, NEW s \in Streams, Fclose(s)
  PROVE  IInv'
<1>1. PICK k \in 0..Len(st[s].buf) :
        /\ Deliver(s, st[s].buf, k)
        /\ fds' = DescriptorsAfterClose(fd[s], k = Len(st[s].buf))
        /\ st' = [st EXCEPT ![s] = Closed(Emptied(st[s], k))]
  BY DEF Fclose
<1>2. /\ s \in held /\ IsOpen(s) /\ phase = "run" /\ fd' = [fd EXCEPT ![s] = -1]
      /\ held' = held \ (Slots \intersect {s}) /\ UNCHANGED <<own, todo, phase>>
  BY DEF Fclose, Running
<1>3. fds' = [fds EXCEPT ![fd[s]] = None]
  BY <1>1 DEF DescriptorsAfterClose
<1> DEFINE f == Emptied(st[s], k)
           g == Closed(f)
<1>4. StructOK(f) /\ f.buf = <<>>
  BY EmptiedOK DEF IInv, Shape
<1>5. StructOK(g) /\ g.dire = FD_CLOSED /\ g.buf = <<>>
  <2> HIDE DEF f
  <2>1. QED
    BY <1>4, ClosedOK
<1> HIDE DEF g
<1>6. QED
  BY <1>1, <1>2, <1>3, <1>5, CloseStep DEF g

\* Reopening in place: what the stream held is written, then its file is
\* opened on the lowest free descriptor, perhaps the one just closed.
LEMMA ReopenedStep ==
  ASSUME IInv, NEW path \in Paths, NEW mode, NEW s \in Streams, s \in held, phase = "run",
         NEW closed, closed = IF IsOpen(s) THEN [fds EXCEPT ![fd[s]] = None] ELSE fds,
         NEW n \in Fds, closed[n] = None,
         NEW g, StructOK(g), g.dire # FD_CLOSED, g.buf = <<>>,
         st' = [st EXCEPT ![s] = g], fd' = [fd EXCEPT ![s] = n],
         fds' = [closed EXCEPT ![n] = path],
         NEW flushed, flushed = IF st[s].buf = <<>> THEN disk
                                ELSE [disk EXCEPT ![fds[fd[s]]] = @ + Len(st[s].buf)],
         IF Truncates(mode)
           THEN /\ disk' = [flushed EXCEPT ![path] = 0]
                /\ owed' = [owed EXCEPT ![path] = @ - flushed[path]]
           ELSE disk' = flushed /\ UNCHANGED owed,
         UNCHANGED <<own, held, todo, phase>>
  PROVE  IInv'
<1>1. path \in Targets /\ path # None
  BY TargetFacts
<1>2. closed \in [Fds -> Targets \union {None}]
  BY DEF IInv, Shape
<1>3. /\ \A m \in Fds : closed[m] = IF IsOpen(s) /\ m = fd[s] THEN None ELSE fds[m]
      /\ \A m \in Fds : fds'[m] = IF m = n THEN path ELSE closed[m]
  BY <1>2 DEF IInv, Shape
<1>4. /\ flushed \in [Targets -> Nat]
      /\ \A t \in Targets : flushed[t] = disk[t] + Pending(t)[s]
  <2>1. StructOK(st[s]) /\ disk \in [Targets -> Nat] /\ Len(st[s].buf) \in Nat
    BY LenProperties DEF IInv, Shape, StructOK, FileOf
  <2>2. CASE st[s].buf = <<>>
    <3>1. \A t \in Targets : Pending(t)[s] = 0
      BY <2>2 DEF Pending
    <3>2. QED
      BY <2>1, <2>2, <3>1
  <2>3. CASE st[s].buf # <<>>
    <3> DEFINE u == fds[fd[s]]
               len == Len(st[s].buf)
    <3>1. IsOpen(s)
      BY <2>1, <2>3, DireFacts DEF IsOpen, StructOK
    <3>2. u \in Targets
      BY <3>1 DEF IInv, Accounted, Shape
    <3>3. flushed = [disk EXCEPT ![u] = disk[u] + len]
      BY <2>3
    <3>4. \A t \in Targets : Pending(t)[s] = IF t = u THEN len ELSE 0
      BY <3>1 DEF Pending
    <3> HIDE DEF u, len
    <3>5. len \in Nat
      BY <2>1 DEF len
    <3>6. ASSUME NEW t \in Targets
          PROVE  flushed[t] = disk[t] + Pending(t)[s]
      <4>1. disk[t] \in Int
        BY <2>1
      <4>2. CASE t = u
        <5>1. flushed[t] = disk[t] + len /\ Pending(t)[s] = len
          BY <2>1, <3>3, <3>4, <4>2
        <5>2. QED
          BY <5>1
      <4>3. CASE t # u
        <5>1. flushed[t] = disk[t] /\ Pending(t)[s] = 0
          BY <2>1, <3>3, <3>4, <4>3
        <5>2. QED
          BY <4>1, <5>1
      <4>4. QED
        BY <4>2, <4>3
    <3>7. flushed \in [Targets -> Nat]
      <4>1. disk[u] + len \in Nat
        BY <2>1, <3>2, <3>5
      <4>2. QED
        BY <2>1, <3>3, <4>1
    <3>8. QED
      BY <3>6, <3>7
  <2>4. QED
    BY <2>2, <2>3
<1>5. /\ disk' \in [Targets -> Nat] /\ owed' \in [Targets -> Int]
      /\ \A t \in Targets : owed'[t] - disk'[t] = owed[t] - flushed[t]
  <2>1. owed \in [Targets -> Int]
    BY DEF IInv, Shape
  <2>2. CASE Truncates(mode)
    <3>1. /\ disk' = [flushed EXCEPT ![path] = 0]
          /\ owed' = [owed EXCEPT ![path] = owed[path] - flushed[path]]
      BY <2>2
    <3>2. disk' \in [Targets -> Nat] /\ owed' \in [Targets -> Int]
      BY <1>1, <1>4, <2>1, <3>1
    <3>3. \A t \in Targets : /\ disk'[t] = IF t = path THEN 0 ELSE flushed[t]
                            /\ owed'[t] = IF t = path THEN owed[t] - flushed[t] ELSE owed[t]
      BY <1>1, <1>4, <2>1, <3>1
    <3>4. \A t \in Targets : owed[t] \in Int /\ flushed[t] \in Int
      BY <1>4, <2>1
    <3>5. ASSUME NEW t \in Targets
          PROVE  owed'[t] - disk'[t] = owed[t] - flushed[t]
      <4>1. CASE t = path
        <5>1. disk'[t] = 0 /\ owed'[t] = owed[t] - flushed[t]
          BY <3>3, <4>1
        <5>2. QED
          BY <3>4, <5>1
      <4>2. CASE t # path
        BY <3>3, <4>2
      <4>3. QED
        BY <4>1, <4>2
    <3>6. QED
      BY <3>2, <3>5
  <2>3. CASE ~Truncates(mode)
    BY <1>4, <2>1, <2>3
  <2>4. QED
    BY <2>2, <2>3
<1>6. Shape'
  BY <1>1, <1>2, <1>5 DEF IInv, Shape, StructOK
<1>7. /\ st'[s] = g /\ fd'[s] = n
      /\ \A r \in Streams \ {s} : st'[r] = st[r] /\ fd'[r] = fd[r]
  BY DEF IInv, Shape
<1>8. IsOpen(s)' /\ \A r \in Streams \ {s} : IsOpen(r)' <=> IsOpen(r)
  BY <1>7 DEF IsOpen
<1>9. \A r \in Streams \ {s} : IsOpen(r) => fd[r] # n /\ fds'[fd[r]] = fds[fd[r]]
  <2>1. TAKE r \in Streams \ {s}
  <2>2. HAVE IsOpen(r)
  <2>3. fd[r] \in Fds /\ fds[fd[r]] # None /\ (IsOpen(s) => fd[r] # fd[s])
    BY <2>2 DEF IInv, Accounted
  <2>4. closed[fd[r]] = fds[fd[r]]
    BY <1>3, <2>3
  <2>5. QED
    BY <1>3, <2>3, <2>4
<1>10. n \notin own
  <2>1. SUFFICES ASSUME n \in own PROVE FALSE
    OBVIOUS
  <2>2. fds[n] # None /\ (IsOpen(s) => fd[s] # n)
    BY <2>1 DEF IInv, Accounted
  <2>3. QED
    BY <1>3, <2>2
<1>11. Accounted'
  <2>1. ASSUME NEW m \in Fds, fds'[m] # None
        PROVE  m \in own' \/ \E r \in Streams : IsOpen(r)' /\ fd'[r] = m
    <3>1. CASE m = n
      BY <1>7, <1>8, <3>1
    <3>2. CASE m # n
      <4>1. fds[m] # None /\ ~(IsOpen(s) /\ m = fd[s])
        BY <1>3, <2>1, <3>2
      <4>2. CASE m \in own
        BY <4>2
      <4>3. CASE m \notin own
        <5>1. PICK r \in Streams : IsOpen(r) /\ fd[r] = m
          BY <4>1, <4>3 DEF IInv, Accounted
        <5>2. r # s
          BY <4>1, <5>1
        <5>3. IsOpen(r)' /\ fd'[r] = m
          BY <1>7, <1>8, <5>1, <5>2
        <5>4. QED
          BY <5>3
      <4>4. QED
        BY <4>2, <4>3
    <3>3. QED
      BY <3>1, <3>2
  <2>2. \A m \in own' : fds'[m] # None
    BY <1>1, <1>3, <1>10 DEF IInv, Accounted, Shape
  <2>3. \A r \in Streams : IsOpen(r)' =>
          fd'[r] \in Fds /\ fds'[fd'[r]] # None /\ fd'[r] \notin own'
    <3>1. TAKE r \in Streams
    <3>2. HAVE IsOpen(r)'
    <3>0. own' = own
      OBVIOUS
    <3>3. CASE r = s
      <4>1. fd'[r] = n /\ fds'[n] = path /\ fd'[r] \notin own'
        BY <1>3, <1>7, <1>10, <3>0, <3>3
      <4>2. QED
        BY <1>1, <4>1
    <3>4. CASE r # s
      <4>1. IsOpen(r) /\ fd'[r] = fd[r]
        BY <1>7, <1>8, <3>2, <3>4
      <4>2. fd[r] \in Fds /\ fds[fd[r]] # None /\ fd[r] \notin own
        BY <4>1 DEF IInv, Accounted
      <4>3. fds'[fd[r]] = fds[fd[r]]
        BY <1>9, <3>4, <4>1
      <4>4. fd'[r] \in Fds /\ fds'[fd'[r]] # None /\ fd'[r] \notin own'
        BY <3>0, <4>1, <4>2, <4>3
      <4>5. QED
        BY <4>4
    <3>5. QED
      BY <3>3, <3>4
  <2>4. \A r, q \in Streams : IsOpen(r)' /\ IsOpen(q)' /\ r # q => fd'[r] # fd'[q]
    BY <1>7, <1>8, <1>9 DEF IInv, Accounted
  <2>5. QED
    BY <2>1, <2>2, <2>3, <2>4 DEF Accounted
<1>12. Conserved'
  <2>1. \A t \in Targets : \A r \in Streams \ {s} : Pending(t)'[r] = Pending(t)[r]
    <3>1. TAKE t \in Targets
    <3>2. TAKE r \in Streams \ {s}
    <3>3. /\ Pending(t)'[r] = IF IsOpen(r)' /\ fds'[fd'[r]] = t THEN Len(st'[r].buf) ELSE 0
          /\ Pending(t)[r] = IF IsOpen(r) /\ fds[fd[r]] = t THEN Len(st[r].buf) ELSE 0
      BY DEF Pending
    <3>4. st'[r] = st[r] /\ fd'[r] = fd[r] /\ (IsOpen(r)' <=> IsOpen(r))
      BY <1>7, <1>8
    <3>5. IsOpen(r) => fds'[fd'[r]] = fds[fd[r]]
      BY <1>9, <3>4
    <3>6. QED
      BY <3>3, <3>4, <3>5
  <2>2. \A t \in Targets : Pending(t)'[s] = 0 /\ Pending(t)[s] \in Nat
    <3>1. Len(st[s].buf) \in Nat
      BY LenProperties DEF IInv, Shape, FileOf
    <3>2. QED
      BY <1>7, <3>1 DEF Pending
  <2>3. \A t \in Targets :
          owed'[t] - disk'[t] - Pending(t)'[s] = owed[t] - disk[t] - Pending(t)[s]
    <3>1. TAKE t \in Targets
    <3>2. /\ owed'[t] \in Int /\ disk'[t] \in Int /\ Pending(t)'[s] = 0
          /\ owed[t] \in Int /\ disk[t] \in Int /\ Pending(t)[s] \in Int
      BY <1>5, <2>2 DEF IInv, Shape
    <3>3. /\ owed'[t] - disk'[t] = owed[t] - flushed[t]
          /\ flushed[t] = disk[t] + Pending(t)[s]
      BY <1>4, <1>5
    <3>4. QED
      BY <3>2, <3>3
  <2>4. Shape /\ Conserved
    BY DEF IInv
  <2>5. QED
    BY <1>6, <2>1, <2>3, <2>4, ConservedStep
<1>13. SlotsAccounted'
  BY <1>8, StreamFacts DEF IInv, SlotsAccounted
<1>14. FlushedOrListed'
  BY DEF FlushedOrListed, FlushedWhenGone
<1>15. QED
  BY <1>6, <1>11, <1>12, <1>13, <1>14 DEF IInv

LEMMA FreopenStep ==
  ASSUME IInv, NEW path \in Paths, NEW mode \in Modes, NEW s \in Streams,
         Freopen(path, mode, s)
  PROVE  IInv'
<1> DEFINE bs     == st[s].buf
           closed == IF IsOpen(s) THEN [fds EXCEPT ![fd[s]] = None] ELSE fds
           free   == {m \in Fds : closed[m] = None}
           f      == Emptied(st[s], Len(bs))
           n      == Min(free)
           opened == Opened(Closed(f), DireOf(mode))
           flushed == IF bs = <<>> THEN disk ELSE [disk EXCEPT ![fds[fd[s]]] = @ + Len(bs)]
<1>1. s \in held /\ phase = "run" /\ UNCHANGED <<own, todo, phase>>
  BY DEF Freopen, Running
<1>2. Len(bs) \in Nat /\ StructOK(st[s])
  BY LenProperties DEF IInv, Shape, FileOf
<1>3. StructOK(Closed(f)) /\ Closed(f).dire = FD_CLOSED /\ Closed(f).buf = <<>>
  <2>1. StructOK(f) /\ f.buf = <<>>
    BY <1>2, EmptiedOK
  <2> HIDE DEF f
  <2>2. QED
    BY <2>1, ClosedOK
<1>4. \/ /\ free # {}
         /\ st' = [st EXCEPT ![s] = opened] /\ fd' = [fd EXCEPT ![s] = n]
         /\ fds' = [closed EXCEPT ![n] = path]
         /\ IF Truncates(mode)
              THEN /\ disk' = [flushed EXCEPT ![path] = 0]
                   /\ owed' = [owed EXCEPT ![path] = @ - flushed[path]]
              ELSE disk' = flushed /\ UNCHANGED owed
         /\ UNCHANGED held
      \/ \E k \in 0..Len(bs) :
           /\ Deliver(s, bs, k)
           /\ st' = [st EXCEPT ![s] = IF IsOpen(s) THEN Closed(f) ELSE @]
           /\ fd' = [fd EXCEPT ![s] = -1] /\ fds' = closed
           /\ held' = held \ (Slots \intersect {s})
  BY DEF Freopen, FreopenFlushes
<1>5. CASE /\ free # {}
           /\ st' = [st EXCEPT ![s] = opened] /\ fd' = [fd EXCEPT ![s] = n]
           /\ fds' = [closed EXCEPT ![n] = path]
           /\ IF Truncates(mode)
                THEN /\ disk' = [flushed EXCEPT ![path] = 0]
                     /\ owed' = [owed EXCEPT ![path] = @ - flushed[path]]
                ELSE disk' = flushed /\ UNCHANGED owed
           /\ UNCHANGED held
  <2>1. n \in Fds /\ closed[n] = None
    <3>1. free \subseteq Fds
      OBVIOUS
    <3>2. n \in free
      BY <1>5, <3>1, LowestFd
    <3>3. QED
      BY <3>2
  <2>2. StructOK(opened) /\ opened.dire # FD_CLOSED /\ opened.buf = <<>>
    BY <1>3, OpenedOK, ModeFacts
  <2>3. UNCHANGED <<own, held, todo, phase>>
    BY <1>1, <1>5
  <2> HIDE DEF n, opened, f, free
  <2>4. QED
    BY <1>1, <1>5, <2>1, <2>2, <2>3, ReopenedStep
<1>6. CASE \E k \in 0..Len(bs) :
             /\ Deliver(s, bs, k)
             /\ st' = [st EXCEPT ![s] = IF IsOpen(s) THEN Closed(f) ELSE @]
             /\ fd' = [fd EXCEPT ![s] = -1] /\ fds' = closed
             /\ held' = held \ (Slots \intersect {s})
  <2>1. PICK k \in 0..Len(bs) :
             /\ Deliver(s, bs, k)
             /\ st' = [st EXCEPT ![s] = IF IsOpen(s) THEN Closed(f) ELSE @]
             /\ fd' = [fd EXCEPT ![s] = -1] /\ fds' = closed
             /\ held' = held \ (Slots \intersect {s})
    BY <1>6
  <2> DEFINE g == IF IsOpen(s) THEN Closed(f) ELSE st[s]
  <2>2. StructOK(g) /\ g.dire = FD_CLOSED /\ g.buf = <<>>
    <3>1. CASE IsOpen(s)
      BY <1>3, <3>1
    <3>2. CASE ~IsOpen(s)
      BY <1>2, <3>2, DireFacts DEF IsOpen, StructOK
    <3>3. QED
      BY <3>1, <3>2
  <2>3. st' = [st EXCEPT ![s] = g]
    BY <2>1
  <2> HIDE DEF g, f
  <2>4. QED
    BY <1>1, <2>1, <2>2, <2>3, CloseStep
<1>7. QED
  BY <1>4, <1>5, <1>6

\* A flush leaves every stream open or closed as it was.
LEMMA FlushedStep ==
  ASSUME IInv, NEW s \in Streams, NEW k \in 0..Len(st[s].buf), FlushStep(s, k),
         UNCHANGED <<fd, fds, own, held>>,
         todo' \in Seq(Streams), phase' \in {"run", "exit", "gone"}
  PROVE  /\ Shape' /\ Accounted' /\ SlotsAccounted' /\ Conserved'
         /\ st'[s].buf = <<>>
         /\ \A r \in Streams \ {s} : st'[r] = st[r]
<1> DEFINE g == Emptied(st[s], k)
<1>1. Deliver(s, st[s].buf, k) /\ st' = [st EXCEPT ![s] = g]
  BY DEF FlushStep
<1>2. StructOK(g) /\ g.dire = st[s].dire /\ g.buf = <<>>
  BY EmptiedOK DEF IInv, Shape
<1> HIDE DEF g
<1>3. /\ disk' \in [Targets -> Nat] /\ owed' \in [Targets -> Int]
      /\ \A t \in Targets : owed'[t] - disk'[t] = owed[t] - disk[t] - Pending(t)[s]
  BY <1>1, DeliverStep DEF IInv
<1>4. Shape'
  BY <1>1, <1>2, <1>3 DEF IInv, Shape, StructOK
<1>5. st'[s] = g /\ \A r \in Streams \ {s} : st'[r] = st[r]
  BY <1>1 DEF IInv, Shape
<1>6. \A r \in Streams : IsOpen(r)' <=> IsOpen(r)
  BY <1>2, <1>5 DEF IsOpen
<1>7. Accounted'
  BY <1>6 DEF IInv, Accounted
<1>8. SlotsAccounted'
  BY <1>6, StreamFacts DEF IInv, SlotsAccounted
<1>9. Conserved'
  <2>1. \A t \in Targets : \A r \in Streams \ {s} : Pending(t)'[r] = Pending(t)[r]
    BY <1>5, <1>6 DEF Pending
  <2>2. \A t \in Targets : Pending(t)'[s] = 0
    BY <1>2, <1>5 DEF Pending
  <2>3. \A t \in Targets :
          owed'[t] - disk'[t] - Pending(t)'[s] = owed[t] - disk[t] - Pending(t)[s]
    <3>1. TAKE t \in Targets
    <3>2. owed'[t] \in Int /\ disk'[t] \in Int /\ Pending(t)'[s] = 0
      BY <1>3, <2>2
    <3>3. owed'[t] - disk'[t] = owed[t] - disk[t] - Pending(t)[s]
      BY <1>3
    <3>4. QED
      BY <3>2, <3>3
  <2>4. Shape /\ Conserved
    BY DEF IInv
  <2>5. QED
    BY <1>4, <2>1, <2>3, <2>4, ConservedStep
<1>10. QED
  BY <1>2, <1>4, <1>5, <1>7, <1>8, <1>9

LEMMA FflushStep ==
  ASSUME IInv, NEW s \in Streams, Fflush(s)
  PROVE  IInv'
<1>1. PICK k \in 0..Len(st[s].buf) : FlushStep(s, k)
  BY DEF Fflush
<1>2. UNCHANGED <<fd, fds, own, held, todo, phase>> /\ phase = "run"
  BY DEF Fflush, Running
<1>3. todo' \in Seq(Streams) /\ phase' \in {"run", "exit", "gone"}
  BY <1>2 DEF IInv, Shape
<1>4. Shape' /\ Accounted' /\ SlotsAccounted' /\ Conserved'
  BY <1>1, <1>2, <1>3, FlushedStep
<1>5. FlushedOrListed'
  BY <1>2 DEF FlushedOrListed, FlushedWhenGone
<1>6. QED
  BY <1>4, <1>5 DEF IInv

LEMMA PutcStep ==
  ASSUME IInv, NEW s \in Streams, Putc(s)
  PROVE  IInv'
<1> DEFINE f == st[s]
           t == fds[fd[s]]
           full == f.writePtr = f.bufEnd
           g == IF full THEN Emptied(f, Len(f.buf)) ELSE f
           h == [g EXCEPT !.writePtr = g.writePtr + 1, !.buf = Append(g.buf, t)]
           out == IF full THEN Len(f.buf) ELSE 0
<1>1. UNCHANGED <<fd, fds, own, held, todo, phase>> /\ phase = "run" /\ IsAnyWrite(f.dire)
  BY DEF Putc, Running
<1>2. StructOK(f) /\ f.dire = FD_WRITE /\ Len(f.buf) \in Nat
  BY <1>1, DireFacts, LenProperties DEF IInv, Shape, StructOK, FileOf
<1>3. IsOpen(s)
  BY <1>2, DireFacts DEF IsOpen
<1>4. t \in Targets
  BY <1>3 DEF IInv, Accounted, Shape
<1>5. /\ Shape /\ Conserved /\ todo' \in Seq(Streams) /\ phase' \in {"run", "exit", "gone"}
      /\ disk \in [Targets -> Nat] /\ owed \in [Targets -> Int]
  BY <1>1 DEF IInv, Shape
<1>6. FlushedOrListed'
  BY <1>1 DEF FlushedOrListed, FlushedWhenGone
<1>7. CASE /\ disk' = [disk EXCEPT ![t] = disk[t] + 1] /\ owed' = [owed EXCEPT ![t] = owed[t] + 1]
           /\ st' = st
  <2>0. disk[t] + 1 \in Nat /\ owed[t] + 1 \in Int
    BY <1>4, <1>5
  <2>1. disk' \in [Targets -> Nat] /\ owed' \in [Targets -> Int]
    BY <1>5, <1>7, <2>0
  <2>2. Shape'
    BY <1>1, <1>7, <2>1 DEF IInv, Shape
  <2>3. \A u \in Targets : owed'[u] - disk'[u] = owed[u] - disk[u]
    <3>1. TAKE u \in Targets
    <3>2. owed[u] \in Int /\ disk[u] \in Int
      BY <1>5
    <3>3. CASE u = t
      <4>1. owed'[u] = owed[u] + 1 /\ disk'[u] = disk[u] + 1
        BY <1>5, <1>7, <3>3
      <4>2. QED
        BY <3>2, <4>1
    <3>4. CASE u # t
      <4>1. owed'[u] = owed[u] /\ disk'[u] = disk[u]
        BY <1>5, <1>7, <3>4
      <4>2. QED
        BY <4>1
    <3>5. QED
      BY <3>3, <3>4
  <2>4. \A u \in Targets : \A r \in Streams : Pending(u)'[r] = Pending(u)[r]
    BY <1>1, <1>7 DEF Pending, IsOpen
  <2>5. \A u \in Targets :
          owed'[u] - disk'[u] - Pending(u)'[s] = owed[u] - disk[u] - Pending(u)[s]
    BY <2>3, <2>4
  <2>6. Conserved'
    BY <1>5, <2>2, <2>4, <2>5, ConservedStep
  <2>7. Accounted' /\ SlotsAccounted'
    BY <1>1, <1>7 DEF IInv, Accounted, SlotsAccounted, IsOpen
  <2>8. QED
    BY <1>6, <2>2, <2>6, <2>7 DEF IInv
<1>8. CASE /\ disk' = IF full THEN [disk EXCEPT ![t] = disk[t] + Len(f.buf)] ELSE disk
           /\ owed' = [owed EXCEPT ![t] = owed[t] + 1]
           /\ st' = [st EXCEPT ![s] = h]
  <2>1. StructOK(g) /\ g.dire = FD_WRITE /\ Len(g.buf) = Len(f.buf) - out /\ out \in Nat
    <3>1. CASE full
      <4>1. /\ StructOK(Emptied(f, Len(f.buf))) /\ Emptied(f, Len(f.buf)).dire = f.dire
            /\ Emptied(f, Len(f.buf)).buf = <<>>
        BY <1>2, EmptiedOK
      <4>2. Len(<<>>) = 0
        OBVIOUS
      <4>3. QED
        BY <1>2, <3>1, <4>1, <4>2
    <3>2. CASE ~full
      BY <1>2, <3>2
    <3>3. QED
      BY <3>1, <3>2
  <2> DEFINE j == h
  <2>2. StructOK(j) /\ j.dire = FD_WRITE /\ Len(j.buf) = Len(g.buf) + 1
    <3> HIDE DEF g
    <3>1. QED
      BY <1>4, <2>1, PutOK
  <2>3. st' = [st EXCEPT ![s] = j]
    BY <1>8
  <2> HIDE DEF j
  <2>4. /\ disk' \in [Targets -> Nat] /\ owed' \in [Targets -> Int]
        /\ \A u \in Targets : /\ disk'[u] = IF u = t THEN disk[u] + out ELSE disk[u]
                              /\ owed'[u] = IF u = t THEN owed[u] + 1 ELSE owed[u]
    <3>1. disk[t] + Len(f.buf) \in Nat /\ owed[t] + 1 \in Int /\ disk[t] + 0 = disk[t]
      BY <1>2, <1>4, <1>5
    <3>2. owed' \in [Targets -> Int] /\ \A u \in Targets : owed'[u] = IF u = t THEN owed[u] + 1 ELSE owed[u]
      BY <1>5, <1>8, <3>1
    <3>3. CASE full
      BY <1>5, <1>8, <3>1, <3>2, <3>3
    <3>4. CASE ~full
      BY <1>5, <1>8, <3>1, <3>2, <3>4
    <3>5. QED
      BY <3>3, <3>4
  <2> HIDE DEF out, g
  <2>5. Shape'
    BY <1>1, <1>5, <2>2, <2>3, <2>4 DEF Shape, StructOK
  <2>6. st'[s] = j /\ \A r \in Streams \ {s} : st'[r] = st[r]
    BY <2>3 DEF IInv, Shape
  <2>7. \A r \in Streams : IsOpen(r)' <=> IsOpen(r)
    BY <1>2, <1>3, <2>2, <2>6, DireFacts DEF IsOpen
  <2>8. Accounted' /\ SlotsAccounted'
    <3>1. Accounted'
      BY <1>1, <2>7 DEF IInv, Accounted
    <3>2. SlotsAccounted'
      BY <1>1, <2>7, StreamFacts DEF IInv, SlotsAccounted
    <3>3. QED
      BY <3>1, <3>2
  <2>9. \A u \in Targets : \A r \in Streams \ {s} : Pending(u)'[r] = Pending(u)[r]
    BY <1>1, <2>6, <2>7 DEF Pending
  <2>10. ASSUME NEW u \in Targets
         PROVE  owed'[u] - disk'[u] - Pending(u)'[s] = owed[u] - disk[u] - Pending(u)[s]
    <3>1. owed[u] \in Int /\ disk[u] \in Int
      BY <1>5
    <3>2. CASE u = t
      <4>1. /\ Pending(u)[s] = Len(f.buf) /\ Pending(u)'[s] = Len(j.buf)
        BY <1>1, <1>3, <2>6, <2>7, <3>2 DEF Pending
      <4>2. owed'[u] = owed[u] + 1 /\ disk'[u] = disk[u] + out
        BY <2>4, <3>2
      <4>3. Len(j.buf) = Len(f.buf) - out + 1
        BY <2>1, <2>2
      <4>4. out \in Int /\ Len(f.buf) \in Int
        BY <1>2, <2>1
      <4> HIDE DEF f
      <4>5. QED
        BY <3>1, <4>1, <4>2, <4>3, <4>4
    <3>3. CASE u # t
      <4>1. /\ Pending(u)[s] = 0 /\ Pending(u)'[s] = 0
        BY <1>1, <3>3 DEF Pending
      <4>2. owed'[u] = owed[u] /\ disk'[u] = disk[u]
        BY <2>4, <3>3
      <4>3. QED
        BY <4>1, <4>2
    <3>4. QED
      BY <3>2, <3>3
  <2>11. Conserved'
    BY <1>5, <2>5, <2>9, <2>10, ConservedStep
  <2>12. QED
    BY <1>6, <2>5, <2>8, <2>11 DEF IInv
<1>9. CASE \E k \in 0..Len(f.buf) - 1 : full /\ FlushStep(s, k)
  <2>1. PICK k \in 0..Len(f.buf) : FlushStep(s, k)
    BY <1>2, <1>9
  <2>2. Shape' /\ Accounted' /\ SlotsAccounted' /\ Conserved'
    BY <1>1, <1>5, <2>1, FlushedStep
  <2>3. QED
    BY <1>6, <2>2 DEF IInv
<1>10. QED
  BY <1>7, <1>8, <1>9 DEF Putc

LEMMA ExitCallStep ==
  ASSUME IInv, Exit
  PROVE  IInv'
<1>1. /\ phase' = "exit" /\ todo' = FlushedAtExit
      /\ UNCHANGED <<st, fd, fds, disk, owed, own, held>>
  BY DEF Exit
<1> DEFINE opened == [i \in 1..Capacity |-> i]
<1>2. /\ <<StdOut>> \in Seq(Streams) /\ opened \in Seq(Streams)
      /\ Len(<<StdOut>>) = 1 /\ Len(opened) = Capacity
  <2>1. \A i \in 1..Capacity : i \in Streams
    BY DEF Streams, Slots
  <2>2. opened \in Seq(Streams) /\ Len(opened) = Capacity
    <3>1. opened \in [1..Capacity -> Streams]
      BY <2>1
    <3> HIDE DEF opened
    <3>2. DOMAIN opened = 1..Capacity
      BY <3>1
    <3>3. opened \in Seq(Streams)
      BY <3>1, CapacityAssumption, SeqDef
    <3>4. Len(opened) \in Nat /\ DOMAIN opened = 1..Len(opened)
      BY <3>3, LenProperties
    <3>5. Len(opened) = Capacity
      BY <3>2, <3>4, CapacityAssumption
    <3>6. QED
      BY <3>3, <3>5
  <2> HIDE DEF opened
  <2>3. <<StdOut>> \in Seq(Streams) /\ Len(<<StdOut>>) = 1
    BY StreamFacts
  <2>4. QED
    BY <2>2, <2>3
<1>3. /\ todo' \in Seq(Streams) /\ Len(todo') = Capacity + 1
      /\ todo'[1] = StdOut /\ \A i \in 1..Capacity : todo'[i + 1] = i
  <2>1. todo' = <<StdOut>> \o opened
    BY <1>1 DEF FlushedAtExit
  <2> HIDE DEF opened
  <2>2. /\ todo' \in Seq(Streams) /\ Len(todo') = Capacity + 1
        /\ \A i \in 1..Len(todo') : todo'[i] = IF i <= 1 THEN <<StdOut>>[i] ELSE opened[i - 1]
    BY <1>2, <2>1, ConcatProperties, CapacityAssumption
  <2>3. \A i \in 1..Capacity : todo'[i + 1] = opened[i]
    BY <2>2, CapacityAssumption
  <2>4. todo'[1] = StdOut
    BY <2>2, CapacityAssumption
  <2>5. \A i \in 1..Capacity : opened[i] = i
    BY DEF opened
  <2>6. QED
    BY <2>2, <2>3, <2>4, <2>5
<1>4. Shape'
  BY <1>1, <1>3 DEF IInv, Shape
<1>5. FlushedOrListed'
  <2>1. \A s \in Slots \union {StdOut} : \E i \in 1..Len(todo') : todo'[i] = s
    <3>1. ASSUME NEW s \in Slots
          PROVE  \E i \in 1..Len(todo') : todo'[i] = s
      <4>1. s + 1 \in 1..Len(todo') /\ todo'[s + 1] = s
        BY <1>3, CapacityAssumption DEF Slots
      <4>2. QED
        BY <4>1
    <3>2. \E i \in 1..Len(todo') : todo'[i] = StdOut
      <4>1. 1 \in 1..Len(todo')
        BY <1>3, CapacityAssumption
      <4>2. QED
        BY <1>3, <4>1
    <3>3. QED
      BY <3>1, <3>2
  <2>2. QED
    BY <1>1, <2>1 DEF FlushedOrListed, FlushedWhenGone
<1>6. Accounted' /\ SlotsAccounted' /\ Conserved'
  BY <1>1 DEF IInv, Accounted, SlotsAccounted, Conserved, Pending, IsOpen
<1>7. QED
  BY <1>4, <1>5, <1>6 DEF IInv

LEMMA ExitFlushStep ==
  ASSUME IInv, ExitFlush
  PROVE  IInv'
<1> DEFINE s == Head(todo)
<1>1. /\ todo' = Tail(todo) /\ phase' = phase /\ phase = "exit" /\ todo # <<>>
      /\ UNCHANGED <<fd, fds, own, held>>
  BY DEF ExitFlush, TodoAfter
<1>2. /\ todo \in Seq(Streams) /\ s \in Streams /\ todo' \in Seq(Streams)
      /\ s = todo[1] /\ Len(todo') = Len(todo) - 1 /\ Len(todo) \in Nat
      /\ \A i \in 1..Len(todo') : todo'[i] = todo[i + 1]
  BY <1>1, HeadTailProperties, LenProperties DEF IInv, Shape
<1>3. phase' \in {"run", "exit", "gone"}
  BY <1>1
<1> HIDE DEF s
<1>4. /\ Shape' /\ Accounted' /\ SlotsAccounted' /\ Conserved'
      /\ st'[s].buf = <<>>
      /\ \A r \in Streams \ {s} : st'[r] = st[r]
  <2>1. CASE IsAnyWrite(st[s].dire)
    <3>1. PICK k \in 0..Len(st[s].buf) : FlushStep(s, k)
      BY <2>1 DEF ExitFlush, s
    <3>2. QED
      BY <1>1, <1>2, <1>3, <3>1, FlushedStep
  <2>2. CASE ~IsAnyWrite(st[s].dire)
    <3>1. UNCHANGED <<st, disk, owed>>
      BY <2>2 DEF ExitFlush, s
    <3>2. st[s].buf = <<>>
      BY <1>2, <2>2, DireFacts DEF IInv, Shape, StructOK
    <3>3. Shape'
      BY <1>1, <1>2, <1>3, <3>1 DEF IInv, Shape
    <3>4. Accounted' /\ SlotsAccounted' /\ Conserved'
      BY <1>1, <3>1 DEF IInv, Accounted, SlotsAccounted, Conserved, Pending, IsOpen
    <3>5. QED
      BY <3>1, <3>2, <3>3, <3>4
  <2>3. QED
    BY <2>1, <2>2
<1>5. FlushedOrListed'
  <2>1. ASSUME NEW r \in Slots \union {StdOut}
        PROVE  st'[r].buf = <<>> \/ \E i \in 1..Len(todo') : todo'[i] = r
    <3>1. r \in Streams
      BY StreamFacts
    <3>2. CASE r = s
      BY <1>4, <3>2
    <3>3. CASE r # s
      <4>1. st'[r] = st[r]
        BY <1>4, <3>1, <3>3
      <4>2. CASE st[r].buf = <<>>
        BY <4>1, <4>2
      <4>3. CASE st[r].buf # <<>>
        <5>1. PICK i \in 1..Len(todo) : todo[i] = r
          BY <1>1, <4>3 DEF IInv, FlushedOrListed
        <5>2. i # 1
          BY <1>2, <3>3, <5>1
        <5>3. i - 1 \in 1..Len(todo') /\ todo'[i - 1] = todo[(i - 1) + 1] /\ (i - 1) + 1 = i
          BY <1>2, <5>2
        <5>4. QED
          BY <5>1, <5>3
      <4>4. QED
        BY <4>2, <4>3
    <3>4. QED
      BY <3>2, <3>3
  <2>2. QED
    BY <1>1, <2>1 DEF FlushedOrListed, FlushedWhenGone
<1>6. QED
  BY <1>4, <1>5 DEF IInv

LEMMA ExitProcessStep ==
  ASSUME IInv, ExitProcess
  PROVE  IInv'
<1>1. /\ phase = "exit" /\ todo = <<>> /\ phase' = "gone"
      /\ UNCHANGED <<st, fd, fds, disk, owed, own, held, todo>>
  BY DEF ExitProcess
<1>2. Shape'
  BY <1>1 DEF IInv, Shape
<1>3. Accounted' /\ SlotsAccounted' /\ Conserved'
  BY <1>1 DEF IInv, Accounted, SlotsAccounted, Conserved, Pending, IsOpen
<1>4. FlushedOrListed'
  <2>1. \A r \in Slots \union {StdOut} : st[r].buf = <<>>
    <3>1. Len(todo) = 0
      BY <1>1
    <3>2. QED
      BY <1>1, <3>1 DEF IInv, FlushedOrListed
  <2>2. QED
    BY <1>1, <2>1 DEF FlushedOrListed, FlushedWhenGone
<1>5. QED
  BY <1>2, <1>3, <1>4 DEF IInv

LEMMA StutterStep ==
  ASSUME IInv, UNCHANGED vars
  PROVE  IInv'
BY DEF vars, IInv, Shape, Accounted, SlotsAccounted, Conserved, Pending, IsOpen,
       FlushedOrListed, FlushedWhenGone

LEMMA NextStep == IInv /\ [Next]_vars => IInv'
<1>1. SUFFICES ASSUME IInv, [Next]_vars PROVE IInv'
  OBVIOUS
<1>2. ASSUME NEW path \in Paths, OpenRaw(path) PROVE IInv'
  BY <1>1, <1>2, OpenRawStep
<1>3. ASSUME NEW n \in Fds, CloseRaw(n) PROVE IInv'
  BY <1>1, <1>3, CloseRawStep
<1>4. ASSUME NEW path \in Paths, NEW mode \in Modes, Fopen(path, mode) PROVE IInv'
  BY <1>1, <1>4, FopenStep
<1>5. ASSUME NEW n \in Fds, NEW mode \in Modes, Fdopen(n, mode) PROVE IInv'
  BY <1>1, <1>5, FdopenStep
<1>6. ASSUME NEW s \in Streams, Fclose(s) \/ Fflush(s) \/ Putc(s) PROVE IInv'
  BY <1>1, <1>6, FcloseStep, FflushStep, PutcStep
<1>7. ASSUME NEW path \in Paths, NEW mode \in Modes, NEW s \in Streams, Freopen(path, mode, s)
      PROVE  IInv'
  BY <1>1, <1>7, FreopenStep
<1>8. CASE Exit
  BY <1>1, <1>8, ExitCallStep
<1>9. CASE ExitStep
  BY <1>1, <1>9, ExitFlushStep, ExitProcessStep DEF ExitStep
<1>10. CASE UNCHANGED vars
  BY <1>1, <1>10, StutterStep
<1>11. QED
  BY <1>1, <1>2, <1>3, <1>4, <1>5, <1>6, <1>7, <1>8, <1>9, <1>10 DEF Next

LEMMA IInvAlways == Spec => []IInv
<1>1. Init => IInv
  BY InitOK
<1>2. IInv /\ [Next]_vars => IInv'
  BY NextStep
<1>3. QED
  BY <1>1, <1>2, PTL DEF Spec

\* What is owed is never negative: it is what is on the disk and in buffers.
LEMMA InvTypeOK == IInv => TypeOK
<1>1. SUFFICES ASSUME IInv PROVE TypeOK
  OBVIOUS
<1>2. ASSUME NEW t \in Targets PROVE owed[t] \in Nat
  <2>1. Pending(t) \in [Streams -> Nat]
    BY <1>1, PendingType DEF Pending, IsOpen, IInv, Shape
  <2>2. Total(Pending(t)) \in Nat
    BY <2>1, TotalNat
  <2>3. owed[t] = disk[t] + Total(Pending(t)) /\ disk[t] \in Nat
    BY <1>1 DEF IInv, Conserved, Shape
  <2>4. QED
    BY <2>2, <2>3
<1>3. QED
  BY <1>1, <1>2 DEF IInv, Shape, TypeOK

LEMMA InvDescriptors == IInv => DescriptorsAccounted
<1>1. SUFFICES ASSUME IInv PROVE DescriptorsAccounted
  OBVIOUS
<1> DEFINE opened == {s \in Streams : IsOpen(s)}
<1>2. {n \in Fds : fds[n] # None} = own \union {fd[s] : s \in opened}
  BY <1>1 DEF IInv, Shape, Accounted
<1>3. /\ \A s \in opened : fd[s] \notin own
      /\ \A s, t \in opened : s # t => fd[s] # fd[t]
  BY <1>1 DEF IInv, Accounted
<1>4. QED
  BY <1>2, <1>3 DEF DescriptorsAccounted

\* After any sequence of opens, closes, reopenings and failures, the open
\* descriptors are those the program and the open streams own, one each, and
\* the slots in use are those that have been given out.
THEOREM NothingLeaksHolds == Spec => []NothingLeaks
<1>1. IInv => NothingLeaks
  BY InvTypeOK, InvDescriptors DEF IInv, NothingLeaks
<1>2. QED
  BY <1>1, IInvAlways, PTL

\* Every byte written and not reported lost is on its file or in the buffer
\* of an open stream, and when the process is gone the streams that exit
\* flushes are empty.
THEOREM NothingDroppedHolds == Spec => []NothingDropped
<1>1. IInv => NothingDropped
  BY DEF IInv, NothingDropped, FlushedOrListed
<1>2. QED
  BY <1>1, IInvAlways, PTL
=============================================================================
