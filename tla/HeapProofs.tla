----------------------------- MODULE HeapProofs -----------------------------
(***************************************************************************)
(* Proofs about Heap, for every number of buckets, every request and every *)
(* refusal of brk(2): blocks are a row in the heap, each held or free      *)
(* once, their contents are kept, a freed block comes back for its size,   *)
(* and the allocator keeps the promise of Allocator.                       *)
(***************************************************************************)
EXTENDS Heap, SequenceTheorems, WellFoundedInduction, TLAPS

\* The kernel has refused the very first growth.
Refused == base # 0 /\ end = 0

\* No block is twice on a list.
Once(s) == \A j, k \in 1..Len(s) : j # k => s[j] # s[k]

\* The lists: blocks, each once, and on the list of its size.
ListsOK(bk, sz) ==
  /\ bk \in [Levs -> Seq(DOMAIN sz)]
  /\ \A i \in Levs :
       /\ Once(bk[i])
       /\ \A p \in ToSet(bk[i]) : BlockSize[i] <= sz[p] /\ sz[p] < BlockSize[i + 1]

OnLists(bk) == UNION {ToSet(bk[i]) : i \in Levs}

ListInv ==
  /\ ListsOK(buckets, size)
  /\ Held \intersect OnLists(buckets) = {}
  /\ Held \union OnLists(buckets) = Blocks

SizesOK(sz) == \A p \in DOMAIN sz : /\ p \in 1..Word - 1
                                    /\ sz[p] \in 4..Word - 1 /\ sz[p] % 4 = 0

\* Block p is behind another one, or the first.
InRow(sz, fr, p) ==
  /\ Base + Header <= p /\ p + sz[p] <= fr
  /\ (p - Base) % 4 = 0
  /\ p = Base + Header \/ \E q \in DOMAIN sz : q + sz[q] + Header = p

\* The blocks of sizes sz are a row that begins at Base and ends at fr.
Row(sz, fr) ==
  /\ \A p \in DOMAIN sz : InRow(sz, fr, p)
  /\ \A p, q \in DOMAIN sz : p < q => p + sz[p] + Header <= q
  /\ fr \in Nat /\ Base <= fr /\ (fr - Base) % 4 = 0
  /\ fr = Base \/ \E q \in DOMAIN sz : q + sz[q] = fr

\* The heap before its first growth, after it, and after its refusal, when
\* there is no block and the next cut is a crash.
HeapInv ==
  /\ SizesOK(size)
  /\ base = 0 => Blocks = {} /\ free = 0 /\ end = 0 /\ brk = Base
  /\ base # 0 => base = Base
  /\ base # 0 /\ ~Refused => /\ Row(size, free) /\ free <= end
                             /\ end = brk /\ end \in 1..Word - 1
  /\ Refused => Blocks = {} /\ (~crashed => free = Base /\ brk = Base)
  /\ ~Refused /\ crashed => call = Idle
  /\ crashed \in BOOLEAN

\* What a call in progress has computed.
CallInv ==
  /\ call.op \in {"idle", "malloc", "calloc", "realloc"}
  /\ call.op = "idle" => call = Idle
  /\ call.op # "idle" =>
       /\ call.n \in Requests /\ ~Negative(call.n) /\ call.n <= call.want
       /\ call.want \in 4..Word - 1 /\ call.want % 4 = 0
  /\ call.op = "realloc" => call.ptr \in Held

DataInv ==
  /\ DOMAIN data = Blocks
  /\ \A p \in Blocks : data[p] \in Contents \union {"zero", "junk"}
  /\ asked \in [Held -> Requests]
  /\ stored \in [Held -> Contents \union {"zero", "any"}]
  /\ ContentKept

\* A block that was just freed is the first on its list.
RetInv ==
  /\ ret.op \in Ops \union {"none"} /\ ret.ptr \in 0..Word - 1
  /\ ret.op = "free" =>
       /\ ret.ptr \in Blocks
       /\ buckets[DownBucket(size[ret.ptr])] # <<>>
       /\ buckets[DownBucket(size[ret.ptr])][1] = ret.ptr

IInv == HeapInv /\ ListInv /\ CallInv /\ DataInv /\ RetInv

-----------------------------------------------------------------------------
(* Block sizes. *)

\* Every nonempty set of naturals has a least element.
LEMMA LeastNat ==
  ASSUME NEW S, S \subseteq Nat, S # {}
  PROVE  Least(S) \in S /\ \A y \in S : Least(S) <= y
<1>1. PICK x \in S : \A y \in S : ~ (<<y, x>> \in OpToRel(<, Nat))
  BY NatLessThanWellFounded, WFMin
<1>2. \A y \in S : x <= y
  <2> SUFFICES ASSUME NEW y \in S, y < x PROVE FALSE
    OBVIOUS
  <2>1. <<y, x>> \in OpToRel(<, Nat)
    BY DEF OpToRel
  <2>2. QED
    BY <1>1, <2>1
<1>3. QED
  BY <1>2 DEF Least

\* g doubles from 4 on, up to n.
Doubling(g, n) == g = [i \in 0..n |-> IF i = 0 THEN 4 ELSE 2 * g[i - 1]]

LEMMA DoublingExists ==
  ASSUME NEW n \in Nat
  PROVE  \E g : Doubling(g, n)
<1> DEFINE Bad == {m \in Nat : ~ \E g : Doubling(g, m)}
<1>1. SUFFICES ASSUME Bad # {} PROVE FALSE
  OBVIOUS
<1>2. PICK m \in Bad : \A y \in Bad : m <= y
  BY <1>1, LeastNat
<1>3. CASE m = 0
  <2>1. Doubling([i \in 0..0 |-> 4], 0)
    BY DEF Doubling
  <2>2. QED
    BY <1>2, <1>3, <2>1
<1>4. CASE m # 0
  <2>1. m - 1 \in Nat /\ m - 1 \notin Bad
    BY <1>2, <1>4
  <2>2. PICK g : Doubling(g, m - 1)
    BY <2>1
  <2> DEFINE h == [i \in 0..m |-> IF i = 0 THEN 4 ELSE 2 * g[i - 1]]
  <2>3. \A i \in 0..m - 1 : g[i] = h[i]
    BY <2>1, <2>2 DEF Doubling
  <2>4. \A i \in 0..m : h[i] = IF i = 0 THEN 4 ELSE 2 * h[i - 1]
    <3>1. TAKE i \in 0..m
    <3>2. h[i] = IF i = 0 THEN 4 ELSE 2 * g[i - 1]
      OBVIOUS
    <3> HIDE DEF h
    <3>3. i # 0 => i - 1 \in 0..m - 1
      BY <2>1
    <3>4. QED
      BY <2>3, <3>2, <3>3
  <2>5. h = [i \in 0..m |-> h[i]]
    OBVIOUS
  <2> HIDE DEF h
  <2>6. Doubling(h, m)
    BY <2>4, <2>5 DEF Doubling
  <2>7. QED
    BY <1>2, <2>6
<1>5. QED
  BY <1>3, <1>4

LEMMA BlockSizeIs ==
  /\ BlockSize[0] = 4
  /\ \A i \in 1..Levels : BlockSize[i] = 2 * BlockSize[i - 1]
<1>1. \E g : Doubling(g, Levels)
  BY DoublingExists, LevelsAssumption
<1>2. Doubling(BlockSize, Levels)
  BY <1>1 DEF BlockSize, Doubling
<1>3. QED
  BY <1>2, LevelsAssumption DEF Doubling

LEMMA BlockSizeOK ==
  \A i \in 0..Levels : BlockSize[i] \in Nat /\ BlockSize[i] >= 4 /\ BlockSize[i] % 4 = 0
<1> DEFINE P(i) == BlockSize[i] \in Nat /\ BlockSize[i] >= 4 /\ BlockSize[i] % 4 = 0
           Bad == {i \in 0..Levels : ~P(i)}
<1>1. SUFFICES ASSUME Bad # {} PROVE FALSE
  OBVIOUS
<1>2. PICK m \in Bad : \A y \in Bad : m <= y
  <2>1. Bad \subseteq Nat
    BY LevelsAssumption
  <2> HIDE DEF Bad
  <2>2. QED
    BY <1>1, <2>1, LeastNat
<1>3. m # 0
  BY <1>2, BlockSizeIs
<1>4. m \in 1..Levels /\ m - 1 \in 0..Levels /\ m - 1 \notin Bad
  BY <1>2, <1>3, LevelsAssumption
<1>5. P(m - 1) /\ BlockSize[m] = 2 * BlockSize[m - 1]
  BY <1>4, BlockSizeIs
<1>6. P(m)
  BY <1>5
<1>7. QED
  BY <1>2, <1>6

LEMMA Rising ==
  ASSUME NEW i \in 0..Levels, NEW j \in 0..Levels, i <= j
  PROVE  BlockSize[i] <= BlockSize[j]
<1> DEFINE Bad == {k \in 0..Levels : i <= k /\ ~ (BlockSize[i] <= BlockSize[k])}
<1>1. SUFFICES ASSUME Bad # {} PROVE FALSE
  OBVIOUS
<1>2. PICK m \in Bad : \A y \in Bad : m <= y
  <2>1. Bad \subseteq Nat
    BY LevelsAssumption
  <2> HIDE DEF Bad
  <2>2. QED
    BY <1>1, <2>1, LeastNat
<1>3. m # i
  BY <1>2, BlockSizeOK
<1>4. m \in 1..Levels /\ m - 1 \in 0..Levels /\ m - 1 \notin Bad /\ i <= m - 1
  BY <1>2, <1>3, LevelsAssumption
<1>5. BlockSize[m] = 2 * BlockSize[m - 1] /\ BlockSize[i] <= BlockSize[m - 1]
  BY <1>4, BlockSizeIs
<1>6. BlockSize[m - 1] \in Nat /\ BlockSize[i] \in Nat
  BY <1>4, BlockSizeOK
<1>7. QED
  BY <1>2, <1>5, <1>6

LEMMA LevsOK ==
  /\ \A i \in Levs : /\ i \in Nat /\ i \in 0..Levels /\ i + 1 \in 1..Levels
                     /\ i + 1 \in 0..Levels /\ BlockSize[i + 1] = 2 * BlockSize[i]
                     /\ BlockSize[i] \in Nat /\ BlockSize[i + 1] \in Nat
                     /\ 4 <= BlockSize[i] /\ BlockSize[i] < Word
  /\ Levels - 1 \in Levs
<1>1. \A i \in Levs : i \in Nat /\ i \in 0..Levels /\ i + 1 \in 1..Levels /\ i + 1 \in 0..Levels
  BY LevelsAssumption DEF Levs
<1>2. \A i \in Levs : BlockSize[i + 1] = 2 * BlockSize[i]
  BY <1>1, BlockSizeIs
<1>3. \A i \in Levs : BlockSize[i] \in Nat /\ BlockSize[i + 1] \in Nat /\ 4 <= BlockSize[i]
  BY <1>1, BlockSizeOK
<1>4. \A i \in Levs : BlockSize[i + 1] <= Word /\ Word \in Nat
  BY <1>1, Rising, BlockSizeOK, LevelsAssumption DEF Word
<1>5. QED
  BY <1>1, <1>2, <1>3, <1>4, LevelsAssumption DEF Levs

LEMMA WordOK ==
  /\ Word \in Nat /\ Word >= 8 /\ Word % 4 = 0
  /\ Word \div 2 = BlockSize[Levels - 1] /\ Word = 2 * BlockSize[Levels - 1]
  /\ BlockSize[Levels - 1] \in Nat /\ BlockSize[Levels - 1] % 4 = 0
<1>1. Word = 2 * BlockSize[Levels - 1] /\ Word \in Nat /\ Word % 4 = 0
  BY BlockSizeIs, BlockSizeOK, LevelsAssumption DEF Word
<1>2. /\ BlockSize[Levels - 1] \in Nat /\ BlockSize[Levels - 1] % 4 = 0
      /\ BlockSize[Levels - 1] >= 4
  BY LevelsAssumption, BlockSizeOK
<1>3. QED
  BY <1>1, <1>2

\* The bucket of a block, and no other bucket is for its size.
LEMMA DownOK ==
  ASSUME NEW s \in 4..Word - 1
  PROVE  /\ DownBucket(s) \in Levs
         /\ BlockSize[DownBucket(s)] <= s /\ s < BlockSize[DownBucket(s) + 1]
<1> DEFINE S == {k \in 0..Levels : s < BlockSize[k]}
<1>1. S \subseteq Nat /\ Levels \in S
  BY LevelsAssumption, WordOK DEF Word
<1>2. PICK k \in S : \A y \in S : k <= y
  <2> HIDE DEF S
  <2>1. QED
    BY <1>1, LeastNat
<1>3. k # 0
  BY <1>2, BlockSizeIs, WordOK
<1>4. k - 1 \in Levs /\ k - 1 \notin S
  BY <1>2, <1>3, LevelsAssumption DEF Levs
<1>5. BlockSize[k - 1] <= s
  BY <1>4, LevsOK, WordOK
<1>6. k - 1 + 1 = k
  BY <1>2, LevelsAssumption
<1>7. \E i \in Levs : BlockSize[i] <= s /\ s < BlockSize[i + 1]
  BY <1>2, <1>4, <1>5, <1>6
<1>8. QED
  BY <1>7 DEF DownBucket

LEMMA OneBucket ==
  ASSUME NEW i \in Levs, NEW j \in Levs, NEW s \in Nat,
         BlockSize[i] <= s, s < BlockSize[i + 1],
         BlockSize[j] <= s, s < BlockSize[j + 1]
  PROVE  i = j
<1>1. ASSUME NEW a \in Levs, NEW b \in Levs, a < b PROVE BlockSize[a + 1] <= BlockSize[b]
  BY <1>1, LevsOK, Rising
<1>2. i \in Nat /\ j \in Nat
  BY LevsOK
<1>3. CASE i < j
  <2>1. BlockSize[i + 1] <= BlockSize[j]
    BY <1>1, <1>3
  <2>2. QED
    BY <2>1, LevsOK
<1>4. CASE j < i
  <2>1. BlockSize[j + 1] <= BlockSize[i]
    BY <1>1, <1>4
  <2>2. QED
    BY <2>1, LevsOK
<1>5. QED
  BY <1>2, <1>3, <1>4

\* The bucket where a block for r bytes is looked for.
LEMMA UpOK ==
  ASSUME NEW r \in Nat, r <= BlockSize[Levels - 1]
  PROVE  /\ UpBucket(r) \in Levs /\ r <= BlockSize[UpBucket(r)]
         /\ \A j \in Levs : r <= BlockSize[j] => UpBucket(r) <= j
<1> DEFINE S == {i \in Levs : r <= BlockSize[i]}
<1>1. S \subseteq Nat /\ S # {}
  BY LevsOK
<1>2. UpBucket(r) = Least(S)
  BY DEF UpBucket
<1>3. Least(S) \in S /\ \A y \in S : Least(S) <= y
  <2> HIDE DEF S
  <2>1. QED
    BY <1>1, LeastNat
<1>4. QED
  BY <1>2, <1>3
-----------------------------------------------------------------------------
(* Lists of free blocks. *)

LEMMA InList ==
  ASSUME NEW S, NEW s \in Seq(S)
  PROVE  /\ ToSet(s) = {s[j] : j \in 1..Len(s)} /\ ToSet(s) \subseteq S
         /\ s = <<>> <=> Len(s) = 0
BY DEF ToSet

\* RemoveAt takes one block out.
LEMMA RemovedOK ==
  ASSUME NEW S, NEW s \in Seq(S), Once(s), NEW n \in 1..Len(s), NEW g, g = RemoveAt(s, n)
  PROVE  /\ g \in Seq(S) /\ Once(g)
         /\ ToSet(g) = ToSet(s) \ {s[n]}
<1> DEFINE m == Len(s)
           l == SubSeq(s, 1, n - 1)
           r == SubSeq(s, n + 1, m)
<1>1. m \in Nat /\ n \in 1..m /\ \A i \in 1..m : s[i] \in S
  BY LenProperties, ElementOfSeq
<1>2. l \in Seq(S) /\ Len(l) = n - 1 /\ \A i \in 1..n - 1 : l[i] = s[i]
  <2>1. \A i \in 1..n - 1 : s[i] \in S
    BY <1>1
  <2>2. /\ l \in Seq(S) /\ Len(l) = IF 1 <= n - 1 THEN n - 1 - 1 + 1 ELSE 0
        /\ \A i \in 1..n - 1 - 1 + 1 : l[i] = s[1 + i - 1]
    BY <1>1, <2>1, SubSeqProperties
  <2> HIDE DEF l
  <2>3. QED
    BY <1>1, <2>2
<1>3. r \in Seq(S) /\ Len(r) = m - n /\ \A i \in 1..m - n : r[i] = s[n + i]
  <2>1. \A i \in n + 1..m : s[i] \in S
    BY <1>1
  <2>2. /\ r \in Seq(S) /\ Len(r) = IF n + 1 <= m THEN m - (n + 1) + 1 ELSE 0
        /\ \A i \in 1..m - (n + 1) + 1 : r[i] = s[n + 1 + i - 1]
    BY <1>1, <2>1, SubSeqProperties
  <2> HIDE DEF r
  <2>3. \A i \in 1..m - n : i \in 1..m - (n + 1) + 1 /\ n + 1 + i - 1 = n + i
    BY <1>1
  <2>4. QED
    BY <1>1, <2>2, <2>3
<1>4. g = l \o r
  BY DEF RemoveAt
<1> HIDE DEF l, r
<1>5. g \in Seq(S) /\ Len(g) = m - 1
  BY <1>1, <1>2, <1>3, <1>4, ConcatProperties
<1>6. \A i \in 1..m - 1 : g[i] = IF i < n THEN s[i] ELSE s[i + 1]
  <2> SUFFICES ASSUME NEW i \in 1..m - 1
               PROVE  g[i] = IF i < n THEN s[i] ELSE s[i + 1]
    OBVIOUS
  <2>1. i \in 1..Len(l) + Len(r)
    BY <1>1, <1>2, <1>3
  <2>2. g[i] = IF i <= Len(l) THEN l[i] ELSE r[i - Len(l)]
    BY <2>1, <1>2, <1>3, <1>4, ConcatProperties
  <2>3. CASE i < n
    BY <2>2, <2>3, <1>1, <1>2
  <2>4. CASE ~ (i < n)
    <3>1. i - (n - 1) \in 1..m - n /\ n + (i - (n - 1)) = i + 1 /\ ~ (i <= n - 1)
      BY <2>4, <1>1
    <3>2. QED
      BY <3>1, <2>2, <2>4, <1>2, <1>3
  <2>5. QED
    BY <2>3, <2>4
<1> DEFINE At(i) == IF i < n THEN i ELSE i + 1
<1>7. /\ \A i \in 1..m - 1 : At(i) \in 1..m /\ At(i) # n /\ g[i] = s[At(i)]
      /\ \A i, j \in 1..m - 1 : i # j => At(i) # At(j)
      /\ \A k \in 1..m : k # n => \E i \in 1..m - 1 : At(i) = k
  <2>1. \A i \in 1..m - 1 : At(i) \in 1..m /\ At(i) # n
    BY <1>1
  <2>2. \A i \in 1..m - 1 : g[i] = s[At(i)]
    BY <1>6
  <2>3. \A i, j \in 1..m - 1 : i # j => At(i) # At(j)
    BY <1>1
  <2>4. ASSUME NEW k \in 1..m, k # n PROVE \E i \in 1..m - 1 : At(i) = k
    <3>1. CASE k < n
      BY <3>1, <1>1
    <3>2. CASE k > n
      <4>1. k - 1 \in 1..m - 1 /\ At(k - 1) = k
        BY <3>2, <1>1
      <4>2. QED
        BY <4>1
    <3>3. QED
      BY <2>4, <3>1, <3>2, <1>1
  <2>5. QED
    BY <2>1, <2>2, <2>3, <2>4
<1> HIDE DEF At
<1>8. Once(g)
  BY <1>5, <1>7 DEF Once
<1>9. ToSet(g) = {g[i] : i \in 1..m - 1} /\ ToSet(s) = {s[i] : i \in 1..m}
  BY <1>5, InList
<1>10. \A i \in 1..m - 1 : g[i] \in ToSet(s) \ {s[n]}
  BY <1>7, <1>9 DEF Once
<1>11. \A k \in 1..m : s[k] # s[n] => s[k] \in ToSet(g)
  BY <1>7, <1>9
<1> HIDE DEF m
<1>12. QED
  BY <1>5, <1>8, <1>9, <1>10, <1>11

OnFront(p, s) == <<p>> \o s

\* A block that is not on the list goes to its front.
LEMMA FrontOK ==
  ASSUME NEW S, NEW s \in Seq(S), Once(s), NEW p \in S, p \notin ToSet(s),
         NEW g, g = OnFront(p, s)
  PROVE  /\ g \in Seq(S) /\ Once(g)
         /\ ToSet(g) = ToSet(s) \union {p}
         /\ g # <<>> /\ g[1] = p
<1>1. Len(s) \in Nat /\ <<p>> \in Seq(S) /\ Len(<<p>>) = 1 /\ <<p>>[1] = p
  BY LenProperties
<1>2. /\ g \in Seq(S) /\ Len(g) = 1 + Len(s)
      /\ \A i \in 1..1 + Len(s) : g[i] = IF i <= 1 THEN <<p>>[i] ELSE s[i - 1]
  BY <1>1, ConcatProperties DEF OnFront
<1>3. g[1] = p /\ \A i \in 1..Len(s) : i + 1 \in 1..Len(g) /\ g[i + 1] = s[i]
  <2>1. g[1] = p
    BY <1>1, <1>2
  <2>2. ASSUME NEW i \in 1..Len(s) PROVE i + 1 \in 1..Len(g) /\ g[i + 1] = s[i]
    <3>1. i + 1 \in 1..1 + Len(s) /\ ~ (i + 1 <= 1) /\ i + 1 - 1 = i
      BY <1>1
    <3>2. QED
      BY <3>1, <1>2
  <2>3. QED
    BY <2>1, <2>2
<1>4. \A i \in 1..Len(g) : i = 1 \/ \E j \in 1..Len(s) : i = j + 1
  <2> SUFFICES ASSUME NEW i \in 1..Len(g), i # 1 PROVE \E j \in 1..Len(s) : i = j + 1
    OBVIOUS
  <2>1. i - 1 \in 1..Len(s) /\ i = i - 1 + 1
    BY <1>1, <1>2
  <2>2. QED
    BY <2>1
<1>5. ToSet(g) = {g[i] : i \in 1..Len(g)} /\ ToSet(s) = {s[i] : i \in 1..Len(s)}
  <2>1. ToSet(g) = {g[i] : i \in 1..Len(g)}
    BY <1>2, InList
  <2>2. QED
    BY <2>1, InList
<1>6. \A i \in 1..Len(s) : s[i] # p
  BY <1>5
<1>7. Once(g)
  <2> SUFFICES ASSUME NEW i \in 1..Len(g), NEW j \in 1..Len(g), i # j PROVE g[i] # g[j]
    BY DEF Once
  <2>1. CASE i = 1
    BY <2>1, <1>3, <1>4, <1>6
  <2>2. CASE j = 1
    BY <2>2, <1>3, <1>4, <1>6
  <2>3. CASE i # 1 /\ j # 1
    <3>1. PICK a \in 1..Len(s), b \in 1..Len(s) : i = a + 1 /\ j = b + 1
      BY <2>3, <1>4
    <3>2. a # b /\ g[i] = s[a] /\ g[j] = s[b]
      BY <3>1, <1>3
    <3>3. QED
      BY <3>2 DEF Once
  <2>4. QED
    BY <2>1, <2>2, <2>3
<1>8. ToSet(g) = ToSet(s) \union {p}
  <2>1. \A i \in 1..Len(g) : g[i] \in ToSet(s) \union {p}
    BY <1>3, <1>4, <1>5
  <2>2. 1 \in 1..Len(g)
    BY <1>1, <1>2
  <2>3. p \in ToSet(g) /\ \A i \in 1..Len(s) : s[i] \in ToSet(g)
    BY <1>3, <1>5, <2>2
  <2>4. QED
    BY <2>1, <2>3, <1>5
<1>9. g # <<>>
  BY <1>1, <1>2, InList
<1>10. QED
  BY <1>2, <1>3, <1>7, <1>8, <1>9

PutOn(bk, p, s) == [bk EXCEPT ![DownBucket(s)] = <<p>> \o @]

\* A block is put on the list of its size.
LEMMA FreedOK ==
  ASSUME NEW bk, NEW sz, ListsOK(bk, sz),
         NEW p \in DOMAIN sz, p \notin OnLists(bk), sz[p] \in 4..Word - 1,
         NEW g, g = PutOn(bk, p, sz[p])
  PROVE  /\ ListsOK(g, sz) /\ OnLists(g) = OnLists(bk) \union {p}
         /\ g[DownBucket(sz[p])] # <<>> /\ g[DownBucket(sz[p])][1] = p
<1> DEFINE d == DownBucket(sz[p])
<1>1. d \in Levs /\ BlockSize[d] <= sz[p] /\ sz[p] < BlockSize[d + 1]
  BY DownOK
<1> HIDE DEF d
<1>2. /\ bk \in [Levs -> Seq(DOMAIN sz)] /\ \A i \in Levs : Once(bk[i])
      /\ \A i \in Levs : p \notin ToSet(bk[i])
  BY DEF ListsOK, OnLists
<1>3. DOMAIN g = Levs /\ g[d] = <<p>> \o bk[d] /\ \A i \in Levs \ {d} : g[i] = bk[i]
  BY <1>1, <1>2 DEF d, PutOn
<1>4. bk[d] \in Seq(DOMAIN sz) /\ Once(bk[d]) /\ p \notin ToSet(bk[d])
  BY <1>1, <1>2
<1>5. /\ g[d] \in Seq(DOMAIN sz) /\ Once(g[d]) /\ ToSet(g[d]) = ToSet(bk[d]) \union {p}
      /\ g[d] # <<>> /\ g[d][1] = p
  <2> DEFINE h == g[d]
             s == bk[d]
  <2>1. h = OnFront(p, s) /\ s \in Seq(DOMAIN sz) /\ Once(s) /\ p \notin ToSet(s)
    BY <1>3, <1>4 DEF OnFront
  <2> HIDE DEF h, s
  <2>2. /\ h \in Seq(DOMAIN sz) /\ Once(h) /\ ToSet(h) = ToSet(s) \union {p}
        /\ h # <<>> /\ h[1] = p
    BY <2>1, FrontOK
  <2>3. QED
    BY <2>2 DEF h, s
<1>6. g \in [Levs -> Seq(DOMAIN sz)]
  <2>1. g = [i \in Levs |-> g[i]]
    BY <1>2 DEF PutOn
  <2>2. \A i \in Levs : g[i] \in Seq(DOMAIN sz)
    BY <1>2, <1>3, <1>5
  <2>3. QED
    BY <2>1, <2>2
<1>7. ListsOK(g, sz)
  <2>1. ASSUME NEW i \in Levs
        PROVE  /\ Once(g[i])
               /\ \A q \in ToSet(g[i]) : BlockSize[i] <= sz[q] /\ sz[q] < BlockSize[i + 1]
    <3>1. \A q \in ToSet(bk[i]) : BlockSize[i] <= sz[q] /\ sz[q] < BlockSize[i + 1]
      BY DEF ListsOK
    <3>2. CASE i = d
      BY <3>1, <3>2, <1>1, <1>5
    <3>3. CASE i # d
      BY <3>1, <3>3, <1>2, <1>3
    <3>4. QED
      BY <3>2, <3>3
  <2>2. QED
    BY <2>1, <1>6 DEF ListsOK
<1>8. OnLists(g) = OnLists(bk) \union {p}
  <2>1. \A i \in Levs : ToSet(g[i]) = IF i = d THEN ToSet(bk[i]) \union {p} ELSE ToSet(bk[i])
    BY <1>3, <1>5
  <2>2. \A q : q \in OnLists(g) <=> \E i \in Levs : q \in ToSet(g[i])
    BY Zenon DEF OnLists
  <2>3. \A q : q \in OnLists(bk) <=> \E i \in Levs : q \in ToSet(bk[i])
    BY Zenon DEF OnLists
  <2>4. ASSUME NEW q PROVE q \in OnLists(g) <=> q \in OnLists(bk) \/ q = p
    <3>1. ASSUME NEW i \in Levs
          PROVE  q \in ToSet(g[i]) <=> q \in ToSet(bk[i]) \/ (i = d /\ q = p)
      <4>1. ToSet(g[i]) = IF i = d THEN ToSet(bk[i]) \union {p} ELSE ToSet(bk[i])
        BY <2>1
      <4> DEFINE new == ToSet(g[i])
                 old == ToSet(bk[i])
      <4> HIDE DEF new, old
      <4>2. new = IF i = d THEN old \union {p} ELSE old
        BY <4>1 DEF new, old
      <4>3. q \in new <=> q \in old \/ (i = d /\ q = p)
        BY <4>2
      <4>4. QED
        BY <4>3 DEF new, old
    <3>2. QED
      BY <2>2, <2>3, <3>1, <1>1, Zenon
  <2>5. QED
    BY <2>4
<1>9. QED
  BY <1>5, <1>7, <1>8 DEF d

TakeOff(bk, i, j) == [bk EXCEPT ![i] = RemoveAt(@, j)]

\* A block is taken off its list.
LEMMA TakenOK ==
  ASSUME NEW bk, NEW sz, ListsOK(bk, sz), \A q \in DOMAIN sz : sz[q] \in Nat,
         NEW i \in Levs, NEW j \in 1..Len(bk[i]),
         NEW g, g = TakeOff(bk, i, j)
  PROVE  /\ ListsOK(g, sz) /\ OnLists(g) = OnLists(bk) \ {bk[i][j]}
         /\ bk[i][j] \in OnLists(bk) /\ bk[i][j] \in DOMAIN sz
         /\ BlockSize[i] <= sz[bk[i][j]]
<1> DEFINE p == bk[i][j]
<1>1. /\ bk \in [Levs -> Seq(DOMAIN sz)] /\ \A k \in Levs : Once(bk[k])
      /\ \A k \in Levs : \A q \in ToSet(bk[k]) : BlockSize[k] <= sz[q] /\ sz[q] < BlockSize[k + 1]
  BY DEF ListsOK
<1>2. DOMAIN g = Levs /\ g[i] = RemoveAt(bk[i], j) /\ \A k \in Levs \ {i} : g[k] = bk[k]
  BY <1>1 DEF TakeOff
<1>3. p \in ToSet(bk[i]) /\ p \in DOMAIN sz
  <2>1. bk[i] \in Seq(DOMAIN sz)
    BY <1>1
  <2>2. QED
    BY <2>1, InList
<1>4. g[i] \in Seq(DOMAIN sz) /\ Once(g[i]) /\ ToSet(g[i]) = ToSet(bk[i]) \ {p}
  BY <1>1, <1>2, RemovedOK
<1> HIDE DEF p
<1>5. \A k \in Levs : k # i => p \notin ToSet(bk[k])
  <2>1. sz[p] \in Nat
    BY <1>3
  <2>2. QED
    BY <1>1, <1>3, <2>1, OneBucket
<1>6. g \in [Levs -> Seq(DOMAIN sz)]
  <2>1. g = [k \in Levs |-> g[k]]
    BY <1>1 DEF TakeOff
  <2>2. \A k \in Levs : g[k] \in Seq(DOMAIN sz)
    BY <1>1, <1>2, <1>4
  <2>3. QED
    BY <2>1, <2>2
<1>7. \A k \in Levs : Once(g[k]) /\ ToSet(g[k]) = ToSet(bk[k]) \ {p}
  BY <1>1, <1>2, <1>4, <1>5
<1>8. ListsOK(g, sz)
  BY <1>1, <1>6, <1>7 DEF ListsOK
<1>9. OnLists(g) = OnLists(bk) \ {p} /\ p \in OnLists(bk)
  <2>1. \A q : q \in OnLists(g) <=> \E k \in Levs : q \in ToSet(g[k])
    BY Zenon DEF OnLists
  <2>2. \A q : q \in OnLists(bk) <=> \E k \in Levs : q \in ToSet(bk[k])
    BY Zenon DEF OnLists
  <2>3. ASSUME NEW q PROVE q \in OnLists(g) <=> q \in OnLists(bk) /\ q # p
    <3>1. \A k \in Levs : q \in ToSet(g[k]) <=> q \in ToSet(bk[k]) /\ q # p
      BY <1>7
    <3>2. QED
      BY <2>1, <2>2, <3>1, Zenon
  <2>4. QED
    BY <2>2, <2>3, <1>3
<1>10. QED
  BY <1>1, <1>3, <1>8, <1>9 DEF p

\* A new block is on no list.
LEMMA GrownOK ==
  ASSUME NEW bk, NEW sz, ListsOK(bk, sz), NEW p, p \notin DOMAIN sz, NEW v
  PROVE  ListsOK(bk, With(sz, p, v)) /\ p \notin OnLists(bk)
<1> DEFINE new == With(sz, p, v)
<1>1. DOMAIN new = DOMAIN sz \union {p} /\ \A q \in DOMAIN sz : new[q] = sz[q]
  BY DEF With
<1> HIDE DEF new
<1>2. \A i \in Levs : bk[i] \in Seq(DOMAIN sz) /\ ToSet(bk[i]) \subseteq DOMAIN sz
  BY InList DEF ListsOK
<1>3. Seq(DOMAIN sz) \subseteq Seq(DOMAIN new)
  BY <1>1
<1>4. bk \in [Levs -> Seq(DOMAIN new)]
  BY <1>2, <1>3 DEF ListsOK
<1>5. ListsOK(bk, new)
  BY <1>1, <1>2, <1>4 DEF ListsOK
<1>6. QED
  BY <1>2, <1>5 DEF new, OnLists

-----------------------------------------------------------------------------
(* What a call finds and delivers.  Held and Blocks are no more than names  *)
(* for domains.                                                            *)

USE DEF Held, Blocks

LEMMA FoundOK ==
  ASSUME ListsOK(buckets, size), SizesOK(size), NEW r \in Nat,
         4 <= r, r <= BlockSize[Levels - 1], NEW x \in Found(r)
  PROVE  /\ x[1] \in Levs /\ x[2] \in 1..Len(buckets[x[1]])
         /\ r <= size[buckets[x[1]][x[2]]]
<1> DEFINE i == UpBucket(r)
           below == IF IsPower(r) THEN {} ELSE BestFit(buckets[i - 1], r)
<1>1. i \in Levs /\ r <= BlockSize[i]
  BY UpOK
<1>2. /\ \A k \in Levs : buckets[k] \in Seq(Blocks)
      /\ \A k \in Levs : \A q \in ToSet(buckets[k]) : BlockSize[k] <= size[q]
      /\ \A q \in Blocks : size[q] \in Nat
  <2>1. \A q \in Blocks : size[q] \in Nat
    BY WordOK DEF SizesOK
  <2>2. \A k \in Levs : buckets[k] \in Seq(Blocks)
    BY DEF ListsOK
  <2>3. QED
    BY <2>1, <2>2 DEF ListsOK
<1>3. CASE below # {}
  <2>1. ~IsPower(r) /\ below = BestFit(buckets[i - 1], r)
    BY <1>3
  <2>2. i # 0
    <3>1. BlockSize[0] = 4
      BY BlockSizeIs
    <3>2. i = 0 => r = BlockSize[i]
      BY <1>1, <3>1
    <3>3. QED
      BY <1>1, <2>1, <3>2 DEF IsPower
  <2>3. i - 1 \in Levs
    BY <1>1, <2>2, LevelsAssumption DEF Levs
  <2>4. Found(r) = {<<i - 1, j>> : j \in below}
    BY <1>3 DEF Found
  <2>5. PICK j \in below : x = <<i - 1, j>>
    BY <2>4
  <2>6. j \in 1..Len(buckets[i - 1]) /\ size[buckets[i - 1][j]] >= r
    BY <2>1, <2>5 DEF BestFit, Fits
  <2>7. buckets[i - 1][j] \in Blocks
    BY <1>2, <2>3, <2>6, ElementOfSeq
  <2> HIDE DEF i, below
  <2>8. x[1] = i - 1 /\ x[2] = j
    BY <2>5
  <2>9. QED
    BY <1>2, <2>3, <2>6, <2>7, <2>8
<1>4. CASE below = {}
  <2>1. Found(r) = IF buckets[i] # <<>> THEN {<<i, 1>>} ELSE {}
    BY <1>4 DEF Found
  <2> HIDE DEF i, below
  <2>2. buckets[i] # <<>> /\ x = <<i, 1>>
    BY <2>1
  <2>3. buckets[i] \in Seq(Blocks)
    BY <1>1, <1>2
  <2>4. Len(buckets[i]) # 0 /\ Len(buckets[i]) \in Nat
    BY <2>2, <2>3, InList, LenProperties
  <2>5. 1 \in 1..Len(buckets[i])
    BY <2>4
  <2>6. buckets[i][1] \in Blocks /\ buckets[i][1] \in ToSet(buckets[i])
    BY <2>3, <2>5, InList, ElementOfSeq
  <2>7. BlockSize[i] <= size[buckets[i][1]] /\ size[buckets[i][1]] \in Nat
    BY <1>1, <1>2, <2>6
  <2>8. BlockSize[i] \in Nat
    BY <1>1, LevsOK
  <2>9. x[1] = i /\ x[2] = 1
    BY <2>2
  <2>10. r <= size[buckets[i][1]]
    BY <1>1, <2>7, <2>8
  <2>11. QED
    BY <1>1, <2>5, <2>9, <2>10
<1>5. QED
  BY <1>3, <1>4

CallOps == {"malloc", "calloc", "realloc"}

\* The blocks held once block p is delivered.
HeldAfter(op, old, p) ==
  IF op = "realloc" THEN (Held \ {old}) \union {p} ELSE Held \union {p}

\* Contents are kept: the new block's are those of the old one, or as it should
\* be after malloc and calloc; the others stay.
LEMMA DeliverKeepsData ==
  ASSUME DataInv, Held \subseteq Blocks, NEW op \in CallOps, NEW old, NEW n \in Requests, NEW p,
         NEW bk, Deliver(op, old, n, p, bk, size),
         op = "realloc" => old \in Held, p \notin Held,
         Blocks' = Blocks \union {p}, \A q \in Blocks : size'[q] = size[q], n <= size'[p]
  PROVE  DataInv' /\ Held' = HeldAfter(op, old, p)
<1> DEFINE before == With(data, p, IF p \in DOMAIN data THEN data[p] ELSE "junk")
           D == Contents \union {"zero", "junk"}
           St == Contents \union {"zero", "any"}
<1>1. /\ DOMAIN data = Blocks /\ \A q \in Blocks : data[q] \in D
      /\ asked \in [Held -> Requests] /\ stored \in [Held -> St]
      /\ \A q \in Held : asked[q] <= size[q] /\ (stored[q] # "any" => data[q] = stored[q])
  BY DEF DataInv, ContentKept
<1>2. /\ DOMAIN before = Blocks \union {p} /\ \A q \in Blocks \ {p} : before[q] = data[q]
      /\ before[p] \in D
  BY <1>1 DEF With
<1> HIDE DEF before
<1>3. CASE op = "malloc"
  <2>1. data' = before /\ asked' = With(asked, p, n) /\ stored' = With(stored, p, "any")
    BY <1>3 DEF Deliver, before
  <2>2. Held' = Held \union {p} /\ asked' \in [Held' -> Requests] /\ stored' \in [Held' -> St]
    BY <1>1, <2>1 DEF With
  <2>3. \A q \in Blocks' : data'[q] \in D
    BY <1>1, <1>2, <2>1
  <2>4. \A q \in Held' : asked'[q] <= size'[q] /\ (stored'[q] # "any" => data'[q] = stored'[q])
    <3>1. /\ \A q \in Held : asked'[q] = asked[q] /\ stored'[q] = stored[q] /\ data'[q] = data[q]
          /\ asked'[p] = n /\ stored'[p] = "any"
      BY <1>1, <1>2, <2>1 DEF With
    <3>2. QED
      BY <1>1, <2>2, <3>1
  <2>5. DataInv'
    BY <1>2, <2>1, <2>2, <2>3, <2>4 DEF DataInv, ContentKept
  <2>6. QED
    BY <1>3, <2>2, <2>5 DEF HeldAfter
<1>4. CASE op = "calloc"
  <2>1. /\ data' = [before EXCEPT ![p] = "zero"]
        /\ asked' = With(asked, p, n) /\ stored' = With(stored, p, "zero")
    BY <1>4 DEF Deliver, before
  <2>2. Held' = Held \union {p} /\ asked' \in [Held' -> Requests] /\ stored' \in [Held' -> St]
    BY <1>1, <2>1 DEF With
  <2>3. /\ DOMAIN data' = Blocks' /\ data'[p] = "zero"
        /\ \A q \in Blocks \ {p} : data'[q] = data[q]
    BY <1>2, <2>1
  <2>4. \A q \in Blocks' : data'[q] \in D
    BY <1>1, <2>3
  <2>5. \A q \in Held' : asked'[q] <= size'[q] /\ (stored'[q] # "any" => data'[q] = stored'[q])
    <3>1. /\ \A q \in Held : asked'[q] = asked[q] /\ stored'[q] = stored[q] /\ data'[q] = data[q]
          /\ asked'[p] = n /\ stored'[p] = "zero"
      BY <1>1, <2>1, <2>3 DEF With
    <3>2. QED
      BY <1>1, <2>2, <2>3, <3>1
  <2>6. DataInv'
    BY <2>2, <2>3, <2>4, <2>5 DEF DataInv, ContentKept
  <2>7. QED
    BY <1>4, <2>2, <2>6 DEF HeldAfter
<1>5. CASE op = "realloc"
  <2>1. /\ data' = [before EXCEPT ![p] = data[old], ![old] = "junk"]
        /\ asked' = With(Without(asked, old), p, n)
        /\ stored' = With(Without(stored, old), p, stored[old])
    BY <1>5 DEF Deliver, before, Copied
  <2>2. old \in Held /\ old \in Blocks /\ old # p
    BY <1>5
  <2> DEFINE rest == Held \ {old}
             a1 == Without(asked, old)
             s1 == Without(stored, old)
  <2>3. /\ a1 \in [rest -> Requests] /\ \A q \in rest : a1[q] = asked[q]
        /\ s1 \in [rest -> St] /\ \A q \in rest : s1[q] = stored[q]
    BY <1>1 DEF Without
  <2>4. asked' = With(a1, p, n) /\ stored' = With(s1, p, stored[old]) /\ stored[old] \in St
    BY <1>1, <2>1, <2>2
  <2> HIDE DEF a1, s1
  <2>5. /\ asked' \in [rest \union {p} -> Requests] /\ DOMAIN asked' = rest \union {p}
         /\ asked'[p] = n /\ \A q \in rest \ {p} : asked'[q] = a1[q]
    BY <2>3, <2>4 DEF With
  <2>6. /\ stored' \in [rest \union {p} -> St]
         /\ stored'[p] = stored[old] /\ \A q \in rest \ {p} : stored'[q] = s1[q]
    BY <2>3, <2>4 DEF With
  <2>7. Held' = rest \union {p} /\ asked' \in [Held' -> Requests] /\ stored' \in [Held' -> St]
    BY <2>5, <2>6
  <2>8. /\ DOMAIN data' = Blocks' /\ data'[p] = data[old] /\ data'[old] = "junk"
        /\ \A q \in Blocks \ {p, old} : data'[q] = data[q]
    BY <1>2, <2>1, <2>2
  <2>9. \A q \in Blocks' : data'[q] \in D
    BY <1>1, <2>2, <2>8
  <2>10. \A q \in Held' : asked'[q] <= size'[q] /\ (stored'[q] # "any" => data'[q] = stored'[q])
    <3>1. /\ \A q \in Held \ {old} : /\ asked'[q] = asked[q] /\ stored'[q] = stored[q]
                                     /\ data'[q] = data[q]
          /\ asked'[p] = n /\ stored'[p] = stored[old]
      BY <2>2, <2>3, <2>5, <2>6, <2>8
    <3>2. QED
      BY <1>1, <2>2, <2>7, <2>8, <3>1
  <2>11. DataInv'
    BY <2>7, <2>8, <2>9, <2>10 DEF DataInv, ContentKept
  <2>12. QED
    BY <1>5, <2>7, <2>11 DEF HeldAfter
<1>6. QED
  BY <1>3, <1>4, <1>5 DEF CallOps

\* Every block is still held or on one list: the new block leaves its list, if
\* it was on one, and the old block of a realloc goes to its own.
LEMMA DeliverKeepsLists ==
  ASSUME ListInv, SizesOK(size), NEW op \in CallOps, NEW old, NEW n, NEW p,
         NEW bk, Deliver(op, old, n, p, bk, size), Held' = HeldAfter(op, old, p),
         op = "realloc" => old \in Held, p \notin Held,
         Blocks' = Blocks \union {p}, \A q \in Blocks : size'[q] = size[q],
         ListsOK(bk, size'), OnLists(bk) = OnLists(buckets) \ {p}
  PROVE  ListInv'
<1>1. /\ Held \intersect OnLists(buckets) = {}
      /\ Held \union OnLists(buckets) = Blocks
  BY DEF ListInv
<1>2. CASE op # "realloc"
  <2>1. buckets' = bk /\ Held' = Held \union {p}
    BY <1>2 DEF Deliver, HeldAfter, CallOps
  <2>2. OnLists(buckets') = OnLists(buckets) \ {p} /\ ListsOK(buckets', size')
    BY <2>1
  <2> DEFINE on == OnLists(buckets)
             on2 == OnLists(buckets')
  <2>3. on2 = on \ {p} /\ Held \intersect on = {} /\ Held \union on = Blocks
    BY <1>1, <2>2
  <2> HIDE DEF on, on2
  <2>4. Held' \intersect on2 = {} /\ Held' \union on2 = Blocks'
    BY <2>1, <2>3
  <2>5. QED
    BY <2>2, <2>4 DEF ListInv, on2, OnLists
<1>3. CASE op = "realloc"
  <2>1. /\ buckets' = [bk EXCEPT ![DownBucket(size[old])] = <<old>> \o @]
        /\ Held' = (Held \ {old}) \union {p}
    BY <1>3 DEF Deliver, HeldAfter
  <2>2. old \in Blocks /\ old # p /\ old \in Held /\ old \in Blocks'
    BY <1>1, <1>3
  <2>3. size'[old] = size[old] /\ size[old] \in 4..Word - 1
    <3>1. size[old] \in 4..Word - 1
      BY <2>2 DEF SizesOK
    <3>2. QED
      BY <3>1, <2>2
  <2>4. old \notin OnLists(bk)
    BY <1>1, <2>2
  <2>5. buckets' = PutOn(bk, old, size'[old])
    BY <2>1, <2>3 DEF PutOn
  <2>6. ListsOK(buckets', size') /\ OnLists(buckets') = OnLists(bk) \union {old}
    <3>1. size'[old] \in 4..Word - 1
      BY <2>3
    <3>2. QED
      BY <2>2, <2>4, <2>5, <3>1, FreedOK
  <2> DEFINE on == OnLists(buckets)
             on2 == OnLists(buckets')
  <2>7. on2 = (on \ {p}) \union {old} /\ Held \intersect on = {} /\ Held \union on = Blocks
    BY <1>1, <2>6
  <2> HIDE DEF on, on2
  <2>8. Held' \intersect on2 = {} /\ Held' \union on2 = Blocks'
    BY <2>1, <2>2, <2>7
  <2>9. QED
    BY <2>6, <2>8 DEF ListInv, on2, OnLists
<1>4. QED
  BY <1>2, <1>3

-----------------------------------------------------------------------------
(* The steps. *)

LEMMA SameHeap ==
  ASSUME HeapInv, ~crashed, UNCHANGED <<simple, size>>,
         crashed' \in BOOLEAN, crashed' => call' = Idle
  PROVE  HeapInv'
<1>1. base' = base /\ free' = free /\ end' = end /\ brk' = brk /\ size' = size
  BY DEF simple
<1>2. Refused' = Refused
  BY <1>1 DEF Refused
<1>3. QED
  BY <1>1, <1>2 DEF HeapInv

LEMMA IdleOK == Idle.op = "idle" /\ \A op \in CallOps : op # "idle" /\ op # "free" /\ op \in Ops
BY DEF Idle, CallOps, Ops

\* Any call that has returned.
LEMMA ReturnsOK ==
  ASSUME NEW op \in CallOps, NEW p \in 0..Word - 1, Returns(op, p)
  PROVE  CallInv' /\ RetInv'
<1>1. call' = Idle /\ ret'.op = op /\ ret'.ptr = p
  BY DEF Returns
<1>2. call'.op = "idle"
  BY <1>1, IdleOK
<1>3. CallInv'
  BY <1>1, <1>2 DEF CallInv
<1>4. RetInv'
  BY <1>1, IdleOK DEF RetInv
<1>5. QED
  BY <1>3, <1>4

LEMMA NullOK == NULL \in 0..Word - 1
BY WordOK DEF NULL

\* A call that fails has changed nothing.
LEMMA FailsKeeps ==
  ASSUME IInv, ~crashed, NEW op \in CallOps, NEW n, Fails(op, n)
  PROVE  IInv'
<1>1. Returns(op, NULL) /\ crashed' \in BOOLEAN
  BY Zenon DEF Fails, GiveUp
<1>2. UNCHANGED <<simple, size>> /\ UNCHANGED <<size, buckets, data, asked, stored>>
  BY DEF Fails
<1>3. HeapInv'
  BY <1>1, <1>2, SameHeap DEF IInv, Returns
<1>4. CallInv' /\ RetInv'
  BY <1>1, NullOK, ReturnsOK
<1>5. ListInv' /\ DataInv'
  BY <1>2 DEF IInv, ListInv, DataInv, ContentKept
<1>6. QED
  BY <1>3, <1>4, <1>5 DEF IInv

\* A call that has got a block from a list, or waits for brk(2) now.
LEMMA ObtainKeeps ==
  ASSUME IInv, Ready, NEW op \in CallOps, NEW old, op = "realloc" => old \in Held,
         NEW n \in Requests, ~Negative(n), NEW r \in Nat,
         4 <= r, r <= BlockSize[Levels - 1], r % 4 = 0, n <= r,
         Obtain(op, old, n, r)
  PROVE  IInv'
<1>1. ListsOK(buckets, size) /\ SizesOK(size) /\ ~crashed /\ call = Idle
  BY DEF IInv, ListInv, HeapInv, Ready
<1>2. CASE Found(r) # {}
  <2> DEFINE at == CHOOSE x \in Found(r) : TRUE
             p == buckets[at[1]][at[2]]
             bk == [buckets EXCEPT ![at[1]] = RemoveAt(@, at[2])]
  <2>1. /\ Deliver(op, old, n, p, bk, size) /\ Returns(op, p)
        /\ UNCHANGED <<simple, size, crashed>>
    BY <1>2 DEF Obtain
  <2>2. at \in Found(r)
    BY <1>2
  <2> HIDE DEF at
  <2>3. at[1] \in Levs /\ at[2] \in 1..Len(buckets[at[1]]) /\ r <= size[p]
    BY <1>1, <2>2, FoundOK
  <2>4. \A q \in Blocks : q \in 1..Word - 1 /\ size[q] \in Nat
    BY <1>1, WordOK DEF SizesOK
  <2>5. ListsOK(bk, size) /\ OnLists(bk) = OnLists(buckets) \ {p} /\ p \in OnLists(buckets) /\ p \in Blocks
    <3>1. bk = TakeOff(buckets, at[1], at[2])
      BY DEF TakeOff
    <3> HIDE DEF bk
    <3>2. QED
      BY <1>1, <2>3, <2>4, <3>1, TakenOK
  <2> HIDE DEF p, bk
  <2>6. p \notin Held /\ Held \subseteq Blocks
    BY <2>5 DEF IInv, ListInv
  <2>7. size' = size /\ Blocks' = Blocks \union {p}
    BY <2>1, <2>5
  <2>8. n <= size'[p]
    <3>1. n \in Nat /\ size[p] \in Nat
      BY <2>4, <2>5, RequestsAssumption, WordOK
    <3>2. QED
      BY <2>3, <2>7, <3>1
  <2>9. DataInv' /\ Held' = HeldAfter(op, old, p)
    BY <2>1, <2>6, <2>7, <2>8, DeliverKeepsData DEF IInv
  <2>10. ListsOK(bk, size')
    BY <2>5, <2>7
  <2>11. ListInv'
    BY <1>1, <2>1, <2>5, <2>6, <2>7, <2>9, <2>10, DeliverKeepsLists DEF IInv
  <2>12. CallInv' /\ RetInv'
    <3>1. p \in 0..Word - 1
      BY <2>4, <2>5
    <3>2. QED
      BY <2>1, <3>1, ReturnsOK
  <2>13. HeapInv'
    BY <1>1, <2>1, SameHeap DEF IInv, HeapInv
  <2>14. QED
    BY <2>9, <2>11, <2>12, <2>13 DEF IInv
<1>3. CASE Found(r) = {}
  <2>1. /\ call' = [op |-> op, ptr |-> old, n |-> n, want |-> r]
        /\ UNCHANGED <<simple, size>>
        /\ UNCHANGED <<size, buckets, data, asked, stored, ret, crashed>>
    BY <1>3 DEF Obtain
  <2>2. call'.op = op /\ call'.ptr = old /\ call'.n = n /\ call'.want = r
    BY <2>1
  <2>3. CallInv'
    <3>1. r \in 4..Word - 1
      BY WordOK
    <3>2. Negative(call'.n) = Negative(n) /\ Held' = Held
      BY <2>1, <2>2
    <3>3. QED
      BY <2>2, <3>1, <3>2, IdleOK DEF CallInv, CallOps, Negative
  <2>4. HeapInv'
    BY <1>1, <2>1, SameHeap DEF IInv, HeapInv
  <2>5. ListInv' /\ DataInv' /\ RetInv'
    BY <2>1 DEF IInv, ListInv, DataInv, ContentKept, RetInv
  <2>6. QED
    BY <2>3, <2>4, <2>5 DEF IInv
<1>4. QED
  BY <1>2, <1>3

LEMMA RoundOK ==
  ASSUME NEW n \in Nat, ~Negative(n)
  PROVE  /\ Round(n) \in Nat /\ 4 <= Round(n) /\ n <= Round(n) /\ Round(n) % 4 = 0
         /\ Round(n) <= BlockSize[Levels - 1]
<1> DEFINE h == BlockSize[Levels - 1]
<1>1. n < h /\ h \in Nat /\ h % 4 = 0
  BY WordOK DEF Negative
<1> HIDE DEF h
<1>2. Round(n) <= h
  BY <1>1 DEF Round
<1>3. QED
  BY <1>2 DEF Round, h

LEMMA AllocKeeps ==
  ASSUME IInv, NEW op \in {"malloc", "calloc"}, NEW n \in Requests, Ready,
         IF Negative(n) THEN Fails(op, n) ELSE Obtain(op, NULL, n, Round(n))
  PROVE  IInv'
<1>1. op \in CallOps /\ n \in Nat /\ ~crashed
  BY RequestsAssumption, WordOK DEF CallOps, Ready
<1>2. CASE Negative(n)
  BY <1>1, <1>2, FailsKeeps
<1>3. CASE ~Negative(n)
  BY <1>1, <1>3, RoundOK, ObtainKeeps
<1>4. QED
  BY <1>2, <1>3

LEMMA MallocKeeps == ASSUME IInv, NEW n \in Requests, Malloc(n) PROVE IInv'
BY AllocKeeps DEF Malloc

LEMMA CallocKeeps == ASSUME IInv, NEW n \in Requests, Calloc(n) PROVE IInv'
BY AllocKeeps DEF Calloc

LEMMA ReallocKeeps ==
  ASSUME IInv, NEW p \in Held, NEW n \in Requests, Realloc(p, n)
  PROVE  IInv'
<1> DEFINE r == BlockSize[UpBucket(n)]
<1>1. Ready /\ ~crashed /\ call = Idle /\ "realloc" \in CallOps
  BY DEF Realloc, Ready, CallOps
<1>2. n \in Nat /\ n > 0 /\ p \in Blocks
  BY RequestsAssumption, WordOK DEF Realloc, IInv, ListInv
<1>3. CASE Negative(n)
  BY <1>1, <1>3, FailsKeeps DEF Realloc
<1>4. CASE ~Negative(n) /\ n <= size[p]
  <2>1. /\ asked' = [asked EXCEPT ![p] = n]
        /\ Returns("realloc", p)
        /\ UNCHANGED <<simple, size, buckets, data, stored, crashed>>
    BY <1>4 DEF Realloc
  <2>2. HeapInv'
    BY <1>1, <2>1, SameHeap DEF IInv, HeapInv
  <2>3. CallInv' /\ RetInv'
    <3>1. p \in 0..Word - 1
      BY <1>2 DEF IInv, HeapInv, SizesOK
    <3>2. QED
      BY <1>1, <2>1, <3>1, ReturnsOK
  <2>4. Held' = Held
    BY <2>1
  <2>5. ListInv'
    BY <2>1, <2>4 DEF IInv, ListInv
  <2>6. asked' \in [Held' -> Requests] /\ \A q \in Held : asked'[q] = IF q = p THEN n ELSE asked[q]
    BY <2>1, <2>4 DEF IInv, DataInv
  <2>7. ContentKept'
    BY <1>4, <2>1, <2>4, <2>6 DEF IInv, DataInv, ContentKept
  <2>8. DataInv'
    BY <2>1, <2>4, <2>6, <2>7 DEF IInv, DataInv
  <2>9. QED
    BY <2>2, <2>3, <2>5, <2>8 DEF IInv
<1>5. CASE ~Negative(n) /\ ~ (n <= size[p])
  <2>1. IF Negative(r) THEN Fails("realloc", n) ELSE Obtain("realloc", p, n, r)
    BY <1>5 DEF Realloc
  <2>2. n <= BlockSize[Levels - 1]
    BY <1>2, <1>5, WordOK DEF Negative
  <2>3. UpBucket(n) \in Levs /\ n <= r
    BY <1>2, <2>2, UpOK
  <2>4. r \in Nat /\ 4 <= r /\ r % 4 = 0
    BY <2>3, LevsOK, BlockSizeOK
  <2> HIDE DEF r
  <2>5. CASE Negative(r)
    BY <1>1, <2>1, <2>5, FailsKeeps
  <2>6. CASE ~Negative(r)
    <3>1. r <= BlockSize[Levels - 1]
      BY <2>4, <2>6, WordOK DEF Negative
    <3>2. QED
      BY <1>1, <1>5, <2>1, <2>3, <2>4, <2>6, <3>1, ObtainKeeps
  <2>7. QED
    BY <2>5, <2>6
<1>6. QED
  BY <1>3, <1>4, <1>5

LEMMA FreeKeeps ==
  ASSUME IInv, NEW p \in Held, Free(p)
  PROVE  IInv'
<1>1. /\ buckets' = PutOn(buckets, p, size[p])
      /\ data' = [data EXCEPT ![p] = "junk"]
      /\ asked' = Without(asked, p) /\ stored' = Without(stored, p)
      /\ Returns("free", p) /\ ~crashed
      /\ UNCHANGED <<simple, size, crashed>>
  BY DEF Free, PutOn, Ready
<1>2. /\ p \in Blocks /\ p \notin OnLists(buckets) /\ ListsOK(buckets, size)
      /\ Held \intersect OnLists(buckets) = {} /\ Held \union OnLists(buckets) = Blocks
  BY DEF IInv, ListInv
<1>3. size[p] \in 4..Word - 1 /\ p \in 0..Word - 1
  BY <1>2 DEF IInv, HeapInv, SizesOK
<1>4. /\ ListsOK(buckets', size) /\ OnLists(buckets') = OnLists(buckets) \union {p}
      /\ buckets'[DownBucket(size[p])] # <<>> /\ buckets'[DownBucket(size[p])][1] = p
  BY <1>1, <1>2, <1>3, FreedOK
<1>5. Held' = Held \ {p} /\ size' = size /\ Blocks' = Blocks
  BY <1>1 DEF Without
<1>6. ListInv'
  <2> DEFINE on == OnLists(buckets)
             on2 == OnLists(buckets')
  <2>1. on2 = on \union {p} /\ Held \intersect on = {} /\ Held \union on = Blocks
    BY <1>2, <1>4
  <2> HIDE DEF on, on2
  <2>2. Held' \intersect on2 = {} /\ Held' \union on2 = Blocks'
    BY <1>5, <2>1
  <2>3. ListsOK(buckets', size')
    BY <1>4, <1>5
  <2>4. QED
    BY <2>2, <2>3 DEF ListInv, on2, OnLists
<1>7. HeapInv'
  <2>1. crashed' \in BOOLEAN /\ call' = Idle
    BY <1>1 DEF IInv, HeapInv, Returns
  <2>2. QED
    BY <1>1, <2>1, SameHeap DEF IInv
<1>8. CallInv'
  <2>1. call' = Idle
    BY <1>1 DEF Returns
  <2>2. call'.op = "idle"
    BY <2>1, IdleOK
  <2>3. QED
    BY <2>1, <2>2 DEF CallInv
<1>9. RetInv'
  <2>1. ret'.op = "free" /\ ret'.ptr = p
    BY <1>1 DEF Returns
  <2>2. QED
    BY <1>2, <1>3, <1>4, <1>5, <2>1 DEF RetInv, Ops
<1>10. DataInv'
  <2>1. /\ asked' \in [Held' -> Requests] /\ stored' \in [Held' -> Contents \union {"zero", "any"}]
        /\ \A q \in Held' : asked'[q] = asked[q] /\ stored'[q] = stored[q]
    BY <1>1, <1>5 DEF IInv, DataInv, Without
  <2>2. /\ DOMAIN data' = Blocks' /\ data'[p] = "junk"
        /\ \A q \in Blocks \ {p} : data'[q] = data[q]
    BY <1>1, <1>2, <1>5 DEF IInv, DataInv
  <2>3. \A q \in Blocks' : data'[q] \in Contents \union {"zero", "junk"}
    BY <1>5, <2>2 DEF IInv, DataInv
  <2>4. ContentKept'
    BY <1>2, <1>5, <2>1, <2>2 DEF IInv, DataInv, ContentKept
  <2>5. QED
    BY <2>1, <2>2, <2>3, <2>4 DEF DataInv
<1>11. QED
  BY <1>6, <1>7, <1>8, <1>9, <1>10 DEF IInv

LEMMA StoreKeeps ==
  ASSUME IInv, NEW p \in Held, NEW c \in Contents, Store(p, c)
  PROVE  IInv'
<1>1. /\ data' = [data EXCEPT ![p] = c] /\ stored' = [stored EXCEPT ![p] = c]
      /\ UNCHANGED <<simple, size>> /\ ~crashed
      /\ UNCHANGED <<size, buckets, asked, call, ret, crashed>>
  BY DEF Store, Ready
<1>2. HeapInv'
  BY <1>1, SameHeap DEF IInv, HeapInv
<1>3. ListInv' /\ RetInv' /\ CallInv'
  BY <1>1 DEF IInv, ListInv, RetInv, CallInv, Negative
<1>4. p \in Blocks
  BY DEF IInv, ListInv
<1>5. DataInv'
  <2>1. /\ stored' \in [Held' -> Contents \union {"zero", "any"}]
        /\ \A q \in Held : stored'[q] = IF q = p THEN c ELSE stored[q]
    BY <1>1 DEF IInv, DataInv
  <2>2. /\ DOMAIN data' = Blocks' /\ \A q \in Blocks : data'[q] = IF q = p THEN c ELSE data[q]
    BY <1>1, <1>4 DEF IInv, DataInv
  <2>3. \A q \in Blocks' : data'[q] \in Contents \union {"zero", "junk"}
    BY <1>1, <2>2 DEF IInv, DataInv
  <2>4. ContentKept'
    BY <1>1, <1>4, <2>1, <2>2 DEF IInv, DataInv, ListInv, ContentKept
  <2>5. QED
    BY <1>1, <2>1, <2>2, <2>3, <2>4 DEF IInv, DataInv
<1>6. QED
  BY <1>2, <1>3, <1>5 DEF IInv

\* What a brk(2) that succeeds or fails leaves of the rest.
LEMMA GrowKeepsRest ==
  ASSUME IInv, call # Idle, UNCHANGED <<size, buckets, data, asked, stored>>,
         UNCHANGED <<call, ret>> \/ GiveUp(call.op, call.n)
  PROVE  ListInv' /\ DataInv' /\ CallInv' /\ RetInv'
<1>1. call.op \in CallOps
  BY DEF IInv, CallInv, CallOps
<1>2. ListInv' /\ DataInv'
  BY DEF IInv, ListInv, DataInv, ContentKept
<1>3. CASE UNCHANGED <<call, ret>>
  BY <1>2, <1>3 DEF IInv, CallInv, RetInv, Negative
<1>4. CASE GiveUp(call.op, call.n)
  BY <1>1, <1>2, <1>4, NullOK, ReturnsOK DEF GiveUp
<1>5. QED
  BY <1>3, <1>4

LEMMA FirstKeeps ==
  ASSUME IInv, ~crashed, NEW mayFail, SimpleFirst(mayFail)
  PROVE  IInv'
<1>1. /\ call # Idle /\ base = 0 /\ base' = Base /\ free' = Base
      /\ GrowTo(Base, FirstHeap, mayFail /\ FirstMayFail)
      /\ UNCHANGED <<size, buckets, data, asked, stored>>
  BY DEF SimpleFirst
<1>2. SizesOK(size) /\ Blocks = {} /\ free = 0 /\ end = 0 /\ brk = Base
  BY <1>1 DEF IInv, HeapInv
<1>3. Base \in Nat /\ Base > 0 /\ FirstHeap \in Nat /\ FirstHeap > 0 /\ Base + FirstHeap < Word
  BY BaseAssumption, GrowthAssumption, WordOK
<1>4. CASE brk' = Base + FirstHeap /\ end' = Base + FirstHeap /\ UNCHANGED <<call, ret, crashed>>
  <2>1. end' \in 1..Word - 1 /\ free' <= end' /\ base' # 0 /\ end' # 0
    BY <1>1, <1>3, <1>4, WordOK
  <2>2. Row(size', free')
    <3>1. Base - Base = 0 /\ 0 % 4 = 0
      BY <1>3
    <3>2. QED
      BY <1>1, <1>2, <1>3, <3>1 DEF Row
  <2>3. HeapInv'
    <3>1. ~Refused' /\ SizesOK(size') /\ base' = Base /\ end' = brk' /\ ~crashed'
      BY <1>1, <1>2, <1>4, <2>1 DEF Refused
    <3>2. crashed' \in BOOLEAN
      BY <1>4 DEF IInv, HeapInv
    <3>3. QED
      BY <2>1, <2>2, <3>1, <3>2 DEF HeapInv
  <2>4. QED
    BY <1>1, <1>4, <2>3, GrowKeepsRest DEF IInv
<1>5. CASE UNCHANGED <<brk, end>> /\ GiveUp(call.op, call.n)
  <2>1. crashed' \in BOOLEAN
    BY <1>5, Zenon DEF GiveUp
  <2>2. call' = Idle /\ Refused'
    BY <1>1, <1>2, <1>3, <1>5 DEF GiveUp, Returns, Refused
  <2>3. HeapInv'
    BY <1>1, <1>2, <1>3, <1>5, <2>1, <2>2 DEF HeapInv, SizesOK
  <2>4. QED
    BY <1>1, <1>5, <2>3, GrowKeepsRest DEF IInv
<1>6. QED
  BY <1>1, <1>4, <1>5 DEF GrowTo

LEMMA GrowKeeps ==
  ASSUME IInv, ~crashed, NEW mayFail, SimpleGrow(mayFail)
  PROVE  IInv'
<1> DEFINE heap == Minus(end, base)
           new == NewHeap(heap)
<1>1. /\ call # Idle /\ base # 0 /\ base = Base
      /\ UNCHANGED <<base, free, size, buckets, data, asked, stored>>
  BY DEF SimpleGrow, IInv, HeapInv
<1>2. \/ /\ Base + new < Word
         /\ brk' = Base + new /\ end' = Base + new
         /\ UNCHANGED <<call, ret, crashed>>
      \/ UNCHANGED <<brk, end>> /\ GiveUp(call.op, call.n)
  BY <1>1 DEF SimpleGrow, GrowTo
<1>3. Base \in Nat /\ Base > 0 /\ Base < Word /\ MaxDouble \in Nat /\ Word \in Nat
  BY BaseAssumption, GrowthAssumption, WordOK
<1>4. HeapInv
  BY DEF IInv
<1>5. CASE UNCHANGED <<brk, end>> /\ GiveUp(call.op, call.n)
  <2>1. crashed' \in BOOLEAN /\ call' = Idle
    <3>1. crashed' \in BOOLEAN
      BY <1>5, Zenon DEF GiveUp
    <3>2. QED
      BY <1>5, <3>1 DEF GiveUp, Returns
  <2>2. HeapInv'
    BY <1>1, <1>4, <1>5, <2>1, SameHeap DEF simple
  <2>3. QED
    BY <1>1, <1>5, <2>2, GrowKeepsRest DEF IInv
<1>6. CASE /\ Base + new < Word
           /\ brk' = Base + new /\ end' = Base + new
           /\ UNCHANGED <<call, ret, crashed>>
  <2>1. ~Refused
    <3>1. SUFFICES ASSUME Refused PROVE FALSE
      OBVIOUS
    <3>2. heap = Word - Base
      BY <1>1, <1>3, <3>1 DEF Refused, Minus
    <3> HIDE DEF heap
    <3>3. Base + new >= Word
      BY <1>3, <3>2 DEF NewHeap
    <3> HIDE DEF new
    <3>4. QED
      BY <1>3, <1>6, <3>2, <3>3 DEF NewHeap, new
  <2>2. Row(size, free) /\ free <= end /\ end \in 1..Word - 1 /\ free \in Nat /\ Base <= free
    BY <1>1, <1>4, <2>1 DEF HeapInv, Row
  <2>3. heap = end - Base
    BY <1>1, <1>3, <2>2 DEF Minus
  <2> HIDE DEF heap
  <2>4. new \in Nat /\ Base + new >= end
    BY <1>3, <2>2, <2>3 DEF NewHeap
  <2> HIDE DEF new
  <2>5. end' \in 1..Word - 1 /\ free' <= end' /\ end' = brk'
    BY <1>1, <1>3, <1>6, <2>2, <2>4
  <2>6. ~Refused' /\ base' # 0 /\ base' = Base /\ Row(size', free') /\ size' = size
    BY <1>1, <2>2, <2>5 DEF Refused
  <2>7. HeapInv'
    BY <1>4, <1>6, <2>5, <2>6 DEF HeapInv
  <2>8. QED
    BY <1>1, <1>6, <2>7, GrowKeepsRest DEF IInv
<1>7. QED
  BY <1>2, <1>5, <1>6

\* A block of w bytes, cut off at the end of the row, makes the row longer.
LEMMA RowGrows ==
  ASSUME NEW sz, NEW fr, Row(sz, fr), SizesOK(sz), NEW w \in Nat, w > 0, w % 4 = 0,
         NEW p \in Nat, p = fr + 4, NEW new, new = With(sz, p, w)
  PROVE  Row(new, p + w) /\ p \notin DOMAIN sz
<1>1. /\ DOMAIN new = DOMAIN sz \union {p} /\ new[p] = w
      /\ p \notin DOMAIN sz => \A q \in DOMAIN sz : new[q] = sz[q]
  BY DEF With
<1> HIDE DEF With
<1>2. /\ fr \in Nat /\ p \in Nat /\ p = fr + 4 /\ Base \in Nat /\ Base <= fr
      /\ (fr - Base) % 4 = 0
  BY BaseAssumption, WordOK DEF Row, InRow, Header
<1>3. \A q \in DOMAIN sz : /\ q \in Nat /\ sz[q] \in Nat /\ q + sz[q] <= fr
                           /\ Base + 4 <= q /\ (q - Base) % 4 = 0
  <2>1. \A q \in DOMAIN sz : q \in Nat /\ sz[q] \in Nat
    BY WordOK DEF SizesOK
  <2>2. QED
    BY <2>1 DEF Row, InRow, Header
<1>4. p \notin DOMAIN sz
  BY <1>2, <1>3
<1>5. \A q \in DOMAIN sz : new[q] = sz[q]
  BY <1>1, <1>4
<1>6. ASSUME NEW q \in DOMAIN new
      PROVE  /\ Base + Header <= q /\ q + new[q] <= p + w
             /\ (q - Base) % 4 = 0
             /\ q = Base + Header \/ \E o \in DOMAIN new : o + new[o] + Header = q
  <2>1. CASE q = p
    <3>1. Base + 4 <= q /\ q + new[q] <= p + w /\ (q - Base) % 4 = 0
      BY <1>1, <1>2, <2>1
    <3>2. fr = Base \/ \E o \in DOMAIN sz : o + sz[o] = fr
      BY DEF Row
    <3>3. CASE fr = Base
      BY <1>2, <2>1, <3>1, <3>3 DEF Header
    <3>4. CASE fr # Base
      <4>1. PICK o \in DOMAIN sz : o + sz[o] = fr
        BY <3>2, <3>4
      <4>2. o \in DOMAIN new /\ o + new[o] + 4 = q
        BY <1>1, <1>2, <1>5, <2>1, <4>1
      <4>3. QED
        BY <3>1, <4>2 DEF Header
    <3>5. QED
      BY <3>3, <3>4
  <2>2. CASE q # p
    <3>1. q \in DOMAIN sz /\ new[q] = sz[q]
      BY <1>1, <1>5, <2>2
    <3>2. Base + 4 <= q /\ q + new[q] <= p + w /\ (q - Base) % 4 = 0
      BY <1>2, <1>3, <3>1
    <3>3. q = Base + 4 \/ \E o \in DOMAIN sz : o + sz[o] + 4 = q
      BY <3>1 DEF Row, InRow, Header
    <3>4. q = Base + 4 \/ \E o \in DOMAIN new : o + new[o] + 4 = q
      BY <1>1, <1>5, <3>3
    <3>5. QED
      BY <3>2, <3>4 DEF Header
  <2>3. QED
    BY <2>1, <2>2
<1>7. ASSUME NEW q \in DOMAIN new, NEW o \in DOMAIN new, q < o
      PROVE  q + new[q] + Header <= o
  <2>1. CASE q \in DOMAIN sz /\ o \in DOMAIN sz
    BY <1>5, <1>7, <2>1 DEF Row
  <2>2. CASE q \in DOMAIN sz /\ o = p
    BY <1>2, <1>3, <1>5, <2>2 DEF Header
  <2>3. CASE q = p /\ o \in DOMAIN sz
    BY <1>2, <1>3, <1>7, <2>3
  <2>4. CASE q = p /\ o = p
    BY <1>2, <1>7, <2>4
  <2>5. QED
    BY <1>1, <2>1, <2>2, <2>3, <2>4
<1>8. /\ p + w \in Nat /\ Base <= p + w /\ (p + w - Base) % 4 = 0
      /\ p \in DOMAIN new /\ p + new[p] = p + w
  BY <1>1, <1>2
<1>9. Row(new, p + w)
  <2>1. \E q \in DOMAIN new : q + new[q] = p + w
    BY <1>8
  <2>2. \A q \in DOMAIN new : InRow(new, p + w, q)
    BY <1>6 DEF InRow
  <2>3. \A q, o \in DOMAIN new : q < o => q + new[q] + Header <= o
    BY <1>7
  <2> DEFINE last == p + w
  <2>4. /\ last \in Nat /\ Base <= last /\ (last - Base) % 4 = 0
        /\ \E q \in DOMAIN new : q + new[q] = last
    <3>1. last \in Nat /\ Base <= last 
      BY <1>8
    <3>2. (last - Base) % 4 = 0
      BY <1>8, <1>2
    <3>3. \E q \in DOMAIN new : q + new[q] = last
      BY <2>1
    <3>4. QED
      BY <3>1, <3>2, <3>3
  <2>5. \A q \in DOMAIN new : InRow(new, last, q)
    BY <2>2, Zenon
  <2> HIDE DEF last
  <2>6. Row(new, last)
    BY <2>3, <2>4, <2>5 DEF Row
  <2>7. QED
    BY <2>6, Zenon DEF last
<1>10. QED
  BY <1>4, <1>9

LEMMA CutKeeps ==
  ASSUME IInv, ~crashed, SimpleCut
  PROVE  IInv'
<1> DEFINE p == free + Header
           w == call.want
<1>1. /\ call # Idle /\ call.op \in CallOps /\ call.n \in Requests /\ call.n <= w
      /\ w \in 4..Word - 1 /\ w % 4 = 0 /\ (call.op = "realloc" => call.ptr \in Held)
  BY DEF SimpleCut, IInv, CallInv, CallOps
<1>2. CASE Need >= Word \div 2
  <2>1. Fails(call.op, call.n)
    BY <1>2 DEF SimpleCut
  <2>2. QED
    BY <1>1, <2>1, FailsKeeps
<1>3. CASE ~ (Need >= Word \div 2)
  <2>1. /\ base # 0 /\ base = Base /\ Room >= Need
        /\ free' = free + Need /\ UNCHANGED <<base, end, brk>>
        /\ IF p > brk
             THEN /\ crashed' = TRUE
                  /\ UNCHANGED <<size, buckets, data, asked, stored, call, ret>>
             ELSE /\ size' = With(size, p, w)
                  /\ Deliver(call.op, call.ptr, call.n, p, buckets, size)
                  /\ Returns(call.op, p)
                  /\ UNCHANGED crashed
    BY <1>3 DEF SimpleCut, IInv, HeapInv
  <2>2. Base \in Nat /\ Base > 0 /\ Word \in Nat /\ w \in Nat /\ w > 0
    BY <1>1, BaseAssumption, WordOK
  <2>3. CASE Refused
    <3>1. free = Base /\ brk = Base /\ Blocks = {}
      BY <2>3 DEF IInv, HeapInv
    <3>2. p > brk
      BY <2>2, <3>1 DEF Header
    <3> HIDE DEF p, w
    <3>3. crashed' = TRUE /\ UNCHANGED <<size, buckets, data, asked, stored, call, ret>>
      BY <2>1, <3>2
    <3>4. HeapInv'
      <4>1. Refused' /\ Blocks' = {} /\ base' = Base /\ base' # 0 /\ SizesOK(size')
        BY <2>1, <2>3, <3>1, <3>3 DEF Refused, IInv, HeapInv
      <4>2. crashed' \in BOOLEAN /\ crashed'
        BY <3>3
      <4>3. QED
        BY <4>1, <4>2 DEF HeapInv
    <3>5. ListInv' /\ DataInv' /\ CallInv' /\ RetInv'
      BY <3>3 DEF IInv, ListInv, DataInv, ContentKept, CallInv, RetInv, Negative
    <3>6. QED
      BY <2>3, <3>4, <3>5 DEF IInv
  <2>4. CASE ~Refused
    <3>1. Row(size, free) /\ SizesOK(size) /\ free <= end /\ end = brk /\ end \in 1..Word - 1
      BY <2>1, <2>4 DEF IInv, HeapInv
    <3>2. free \in Nat /\ end \in Nat /\ p \in Nat /\ p = free + 4 /\ Need = w + 4
      BY <2>2, <3>1 DEF Row, Header, Need
    <3>3. Room = end - free
      BY <3>1, <3>2 DEF Room, Minus
    <3> HIDE DEF p, w
    <3>4. ~ (p > brk) /\ free' = p + w /\ free' <= end /\ p < Word
      BY <2>1, <2>2, <3>1, <3>2, <3>3
    <3>5. /\ size' = With(size, p, w)
          /\ Deliver(call.op, call.ptr, call.n, p, buckets, size)
          /\ Returns(call.op, p) /\ UNCHANGED crashed
      BY <2>1, <3>4
    <3>6. Row(size', free') /\ p \notin Blocks
      BY <1>1, <2>2, <3>1, <3>2, <3>4, <3>5, RowGrows DEF w
    <3>7. /\ Blocks' = Blocks \union {p} /\ size'[p] = w
          /\ \A q \in Blocks : size'[q] = size[q]
      BY <3>5, <3>6 DEF With
    <3>8. p \notin Held /\ Held \subseteq Blocks
      BY <3>6 DEF IInv, ListInv
    <3>9. DataInv' /\ Held' = HeldAfter(call.op, call.ptr, p)
      BY <1>1, <3>5, <3>7, <3>8, DeliverKeepsData DEF IInv, w
    <3>10. ListsOK(buckets, size') /\ p \notin OnLists(buckets)
      BY <3>5, <3>6, GrownOK DEF IInv, ListInv
    <3>11. ListInv'
      BY <1>1, <3>1, <3>5, <3>7, <3>8, <3>9, <3>10, DeliverKeepsLists DEF IInv
    <3>12. CallInv' /\ RetInv'
      <4>1. p \in 0..Word - 1
        BY <2>2, <3>2, <3>4
      <4>2. QED
        BY <1>1, <3>5, <4>1, ReturnsOK
    <3>13. HeapInv'
      <4>1. SizesOK(size')
        <5>1. p \in 1..Word - 1 /\ w \in 4..Word - 1 /\ w % 4 = 0
          BY <1>1, <2>2, <3>2, <3>4 DEF w
        <5>2. QED
          BY <3>1, <3>7, <5>1 DEF SizesOK
      <4>2. ~Refused' /\ base' = Base /\ base' # 0 /\ end' = brk' /\ end' = end
        BY <2>1, <2>4, <3>1 DEF Refused
      <4>3. crashed' \in BOOLEAN /\ call' = Idle
        BY <3>5 DEF Returns, IInv, HeapInv
      <4>4. QED
        BY <3>1, <3>4, <3>6, <4>1, <4>2, <4>3 DEF HeapInv
    <3>14. QED
      BY <3>9, <3>11, <3>12, <3>13 DEF IInv
  <2>5. QED
    BY <2>3, <2>4
<1>4. QED
  BY <1>2, <1>3

-----------------------------------------------------------------------------
(* The theorems. *)

LEMMA InitHolds == Init => IInv
<1> SUFFICES ASSUME Init PROVE IInv
  OBVIOUS
<1>1. /\ Blocks = {} /\ Held = {} /\ DOMAIN data = {} /\ DOMAIN stored = {}
      /\ asked = Nothing /\ stored = Nothing
  BY DEF Init, Nothing
<1>2. HeapInv
  BY <1>1 DEF Init, HeapInv, SizesOK, Refused
<1>3. /\ buckets \in [Levs -> Seq(Blocks)]
      /\ \A i \in Levs : buckets[i] = <<>>
  BY DEF Init
<1>4. ListInv
  <2>1. \A i \in Levs : Once(buckets[i]) /\ ToSet(buckets[i]) = {}
    BY <1>3 DEF Once, ToSet
  <2>2. OnLists(buckets) = {}
    BY <2>1 DEF OnLists
  <2>3. ListsOK(buckets, size)
    BY <1>3, <2>1 DEF ListsOK
  <2>4. QED
    BY <1>1, <2>2, <2>3 DEF ListInv
<1>5. CallInv
  BY IdleOK DEF Init, CallInv, Idle
<1>6. DataInv
  BY <1>1 DEF DataInv, ContentKept, Nothing
<1>7. RetInv
  BY NullOK DEF Init, RetInv, Ops
<1>8. QED
  BY <1>2, <1>4, <1>5, <1>6, <1>7 DEF IInv

LEMMA NextKeeps == IInv /\ [Next]_vars => IInv'
<1>1. ASSUME IInv, Next PROVE IInv'
  <2>1. CASE \E n \in Requests : Malloc(n) \/ Calloc(n)
    BY <1>1, <2>1, MallocKeeps, CallocKeeps
  <2>2. CASE \E p \in Held, n \in Requests : Realloc(p, n)
    BY <1>1, <2>2, ReallocKeeps
  <2>3. CASE \E p \in Held : Free(p)
    BY <1>1, <2>3, FreeKeeps
  <2>4. CASE \E p \in Held, c \in Contents : Store(p, c)
    BY <1>1, <2>4, StoreKeeps
  <2>5. CASE CallStep(TRUE)
    BY <1>1, <2>5, FirstKeeps, GrowKeeps, CutKeeps DEF CallStep
  <2>6. QED
    BY <1>1, <2>1, <2>2, <2>3, <2>4, <2>5 DEF Next
<1>2. ASSUME IInv, UNCHANGED vars PROVE IInv'
  BY <1>2 DEF vars, IInv, HeapInv, Refused, ListInv, CallInv, Negative, DataInv, ContentKept, RetInv
<1>3. QED
  BY <1>1, <1>2

LEMMA IInvAlways == Spec => []IInv
<1>1. QED
  BY InitHolds, NextKeeps, PTL DEF Spec

LEMMA SoundUnlessRefused == IInv /\ ~Refused => BlocksSound
<1> SUFFICES ASSUME IInv, ~Refused PROVE BlocksSound
  OBVIOUS
<1>1. HeapInv /\ ListInv /\ CallInv /\ DataInv /\ RetInv
  BY DEF IInv
<1>2. Word \in Nat /\ Base \in 1..Word - 1
  BY WordOK, BaseAssumption
<1>3. FreeBlocks = OnLists(buckets)
  BY DEF FreeBlocks, OnLists
<1>4. SizesOK(size)
  BY <1>1 DEF HeapInv
<1>5. base # 0 => Row(size, free) /\ free <= end /\ end = brk /\ end \in 1..Word - 1
  BY <1>1 DEF HeapInv
<1>6. TypeOK
  <2>1. {base, free, end, brk} \subseteq 0..Word - 1
    <3>1. base = 0 => free = 0 /\ end = 0 /\ brk = Base
      BY <1>1 DEF HeapInv
    <3>2. base # 0 => base = Base /\ free \in 0..Word - 1
      BY <1>1, <1>2, <1>5 DEF HeapInv, Row
    <3>3. QED
      BY <1>2, <1>5, <3>1, <3>2
  <2>2. \A p \in Blocks : p \in 1..Word - 1 /\ size[p] \in 1..Word - 1
    BY <1>2, <1>4 DEF SizesOK
  <2>3. Held \subseteq Blocks /\ DOMAIN stored = Held /\ DOMAIN buckets = Levs
    BY <1>1 DEF ListInv, DataInv, ListsOK
  <2>4. \A p \in Held : asked[p] \in 0..Word - 1 /\ stored[p] \in Contents \union {"zero", "any"}
    BY <1>1, RequestsAssumption DEF DataInv
  <2>5. call.op \in Ops \union {"idle"} /\ call.want \in 0..Word - 1
    <3>1. Idle.want = 0
      BY DEF Idle
    <3>2. call.want \in 0..Word - 1
      BY <1>1, <1>2, <3>1 DEF CallInv
    <3>3. QED
      BY <1>1, <3>2 DEF CallInv, Ops
  <2>6. crashed \in BOOLEAN
    BY <1>1 DEF HeapInv
  <2>7. DOMAIN data = Blocks /\ \A p \in Blocks : data[p] \in Contents \union {"zero", "junk"}
    BY <1>1 DEF DataInv
  <2>8. ret.op \in Ops \union {"none"} /\ ret.ptr \in 0..Word - 1
    BY <1>1 DEF RetInv
  <2>9. QED
    BY <2>1, <2>2, <2>3, <2>4, <2>5, <2>6, <2>7, <2>8 DEF TypeOK
<1>7. BlocksInHeap
  <2>1. CASE base = 0
    BY <1>1, <2>1 DEF HeapInv, BlocksInHeap
  <2>2. CASE base # 0
    BY <1>5, <2>2 DEF Row, InRow, BlocksInHeap
  <2>3. QED
    BY <2>1, <2>2
<1>8. BlocksAccounted
  <2>1. ASSUME NEW i \in Levs
        PROVE  /\ IsInjective(buckets[i])
               /\ \A p \in ToSet(buckets[i]) : BlockSize[i] <= size[p] /\ size[p] < BlockSize[i + 1]
    <3>1. /\ buckets[i] \in Seq(Blocks) /\ Once(buckets[i])
          /\ \A p \in ToSet(buckets[i]) : BlockSize[i] <= size[p] /\ size[p] < BlockSize[i + 1]
      BY <1>1 DEF ListInv, ListsOK
    <3>2. DOMAIN buckets[i] = 1..Len(buckets[i])
      BY <3>1
    <3>3. IsInjective(buckets[i])
      BY <3>1, <3>2 DEF Once, IsInjective
    <3>4. QED
      BY <3>1, <3>3
  <2>2. QED
    BY <1>1, <1>3, <2>1 DEF ListInv, BlocksAccounted
<1>9. QED
  BY <1>1, <1>6, <1>7, <1>8 DEF DataInv, BlocksSound

\* If the kernel does not refuse the first growth, it has not.
LEMMA NeverRefused ==
  ASSUME FirstMayFail = FALSE
  PROVE  Spec => []~Refused
<1>1. Init => ~Refused
  BY DEF Init, Refused
<1>2. ASSUME IInv, ~Refused, [Next]_vars PROVE ~Refused'
  <2>1. CASE UNCHANGED <<base, end>>
    BY <1>2, <2>1 DEF Refused
  <2>2. CASE \E mayFail \in BOOLEAN : SimpleFirst(mayFail)
    <3>1. PICK mayFail \in BOOLEAN : SimpleFirst(mayFail)
      BY <2>2
    <3>2. GrowTo(Base, FirstHeap, FALSE)
      BY <3>1 DEF SimpleFirst
    <3>3. Base \in Nat /\ FirstHeap \in Nat \ {0} /\ Base + FirstHeap < Word /\ Word \in Nat
      BY BaseAssumption, GrowthAssumption, WordOK
    <3>4. end' = Base + FirstHeap
      BY <3>2, <3>3 DEF GrowTo
    <3>5. end' # 0
      BY <3>3, <3>4
    <3>6. QED
      BY <3>5 DEF Refused
  <2>3. CASE \E mayFail \in BOOLEAN : SimpleGrow(mayFail)
    <3>1. PICK mayFail \in BOOLEAN : SimpleGrow(mayFail)
      BY <2>3
    <3> DEFINE new == NewHeap(Minus(end, base))
    <3>2. base = Base /\ base # 0 /\ base' = base /\ end # 0
      BY <1>2, <3>1 DEF SimpleGrow, IInv, HeapInv, Refused
    <3>3. end' = end \/ end' = Base + new
      BY <3>1, <3>2 DEF SimpleGrow, GrowTo
    <3>4. end \in Nat /\ Base \in Nat /\ Base > 0 /\ MaxDouble \in Nat /\ Word \in Nat
      BY <1>2, <3>2, BaseAssumption, GrowthAssumption, WordOK DEF IInv, HeapInv
    <3>5. Minus(end, base) \in Nat
      BY <1>2, <3>2, <3>4, BaseAssumption DEF Minus, IInv, HeapInv, Row
    <3>6. new \in Nat
      BY <3>4, <3>5 DEF NewHeap
    <3> HIDE DEF new
    <3>7. end' # 0
      BY <3>2, <3>3, <3>4, <3>6
    <3>8. QED
      BY <3>7 DEF Refused
  <2>4. QED
    <3>1. ASSUME NEW op, NEW old, NEW n, NEW m, Obtain(op, old, n, m) PROVE UNCHANGED <<base, end>>
      BY <3>1, Zenon DEF Obtain, simple
    <3>2. ASSUME NEW op, NEW n, Fails(op, n) PROVE UNCHANGED <<base, end>>
      BY <3>2 DEF Fails, simple
    <3>3. CASE \E n \in Requests : Malloc(n) \/ Calloc(n)
      BY <2>1, <3>1, <3>2, <3>3 DEF Malloc, Calloc
    <3>4. CASE \E p \in Held, n \in Requests : Realloc(p, n)
      BY <2>1, <3>1, <3>2, <3>4 DEF Realloc, simple
    <3>5. CASE \E p \in Held : Free(p)
      BY <2>1, <3>5 DEF Free, simple
    <3>6. CASE \E p \in Held, c \in Contents : Store(p, c)
      BY <2>1, <3>6 DEF Store, simple
    <3>7. CASE CallStep(TRUE)
      <4>1. CASE SimpleCut
        BY <2>1, <3>2, <4>1 DEF SimpleCut
      <4>2. QED
        BY <2>2, <2>3, <3>7, <4>1 DEF CallStep
    <3>8. CASE UNCHANGED vars
      BY <2>1, <3>8 DEF vars
    <3>9. QED
      BY <1>2, <3>3, <3>4, <3>5, <3>6, <3>7, <3>8 DEF Next
<1>3. QED
  BY <1>1, <1>2, IInvAlways, PTL DEF Spec

\* Whatever brk(2) does: the blocks are a row in the heap, held or on a list,
\* with their contents, but for a process whose first growth was refused.
THEOREM SoundUntilRefused == Spec => [](~Refused => BlocksSound)
BY SoundUnlessRefused, IInvAlways, PTL

\* Blocks are a row in the heap, each held or on the one list of its size, with
\* the contents their holders gave them: malloc, calloc, realloc and free over
\* any number of buckets, whenever brk(2) is refused after the first growth.
THEOREM BlocksSoundHolds ==
  ASSUME FirstMayFail = FALSE
  PROVE  Spec => []BlocksSound
BY SoundUntilRefused, NeverRefused, PTL

\* Only after a refusal of the first growth is memory used that is not there.
THEOREM CutsInHeapHolds ==
  ASSUME FirstMayFail = FALSE
  PROVE  Spec => []CutsInHeap
<1>1. IInv /\ ~Refused => CutsInHeap
  BY DEF IInv, HeapInv, CutsInHeap
<1>2. QED
  BY <1>1, IInvAlways, NeverRefused, PTL

-----------------------------------------------------------------------------
(* A freed block comes back. *)

\* The first block of a list is the one that is found for its own size: it is
\* the head of the bucket of its size, if that is a power of 2, and otherwise a
\* fit without waste, before all others.
LEMMA FrontFound ==
  ASSUME IInv, ret.op = "free", NEW r \in Nat, 4 <= r, r <= BlockSize[Levels - 1],
         size[ret.ptr] = r
  PROVE  Found(r) = {<<DownBucket(r), 1>>}
<1> DEFINE d == DownBucket(r)
           u == UpBucket(r)
           b == buckets[d]
<1>1. d \in Levs /\ BlockSize[d] <= r /\ r < BlockSize[d + 1]
  BY DownOK, WordOK
<1>2. u \in Levs /\ r <= BlockSize[u] /\ \A j \in Levs : r <= BlockSize[j] => u <= j
  BY UpOK
<1>3. ret.ptr \in Blocks /\ b # <<>> /\ b[1] = ret.ptr
  BY DEF IInv, RetInv
<1>4. b \in Seq(Blocks)
  BY <1>1 DEF IInv, ListInv, ListsOK
<1>5. 1 \in 1..Len(b) /\ size[b[1]] = r
  <2>1. Len(b) \in Nat /\ Len(b) # 0
    BY <1>3, <1>4, InList, LenProperties
  <2>2. QED
    BY <1>3, <2>1
<1>6. \A i, j \in Levs : i < j => BlockSize[i + 1] <= BlockSize[j]
  BY LevsOK, Rising
<1> HIDE DEF d, u
<1>7. CASE r = BlockSize[d]
  <2>1. IsPower(r)
    BY <1>1, <1>7 DEF IsPower
  <2>2. u = d
    <3>1. u <= d
      BY <1>1, <1>2, <1>7, LevsOK
    <3>2. CASE u < d
      <4>1. BlockSize[u + 1] <= r /\ BlockSize[u + 1] = 2 * BlockSize[u] /\ BlockSize[u] \in Nat
        BY <1>1, <1>2, <1>6, <1>7, <3>2, LevsOK
      <4>2. QED
        BY <1>2, <4>1
    <3>3. QED
      BY <1>1, <1>2, <3>1, <3>2, LevsOK
  <2>3. Found(r) = {<<u, 1>>}
    BY <1>3, <2>1, <2>2 DEF Found, u
  <2>4. QED
    BY <2>2, <2>3 DEF d
<1>8. CASE r # BlockSize[d]
  <2>1. ~IsPower(r)
    <3>1. ASSUME NEW i \in Levs, r = BlockSize[i] PROVE FALSE
      <4>1. CASE i < d
        <5>1. BlockSize[i + 1] <= BlockSize[d] /\ BlockSize[i + 1] = 2 * BlockSize[i]
          BY <1>1, <1>6, <4>1, LevsOK
        <5>2. QED
          BY <1>1, <3>1, <5>1, LevsOK
      <4>2. CASE d < i
        <5>1. BlockSize[d + 1] <= BlockSize[i]
          BY <1>1, <1>6, <4>2
        <5>2. QED
          BY <1>1, <3>1, <5>1, LevsOK
      <4>3. QED
        BY <1>1, <1>8, <3>1, <4>1, <4>2, LevsOK
    <3>2. QED
      BY <3>1 DEF IsPower
  <2>2. u = d + 1
    <3>1. d # Levels - 1
      BY <1>1, <1>8, LevsOK
    <3>2. d + 1 \in Levs
      BY <1>1, <3>1, LevelsAssumption DEF Levs
    <3>3. u <= d + 1
      BY <1>1, <1>2, <3>2, LevsOK
    <3>4. CASE u < d
      <4>1. BlockSize[u + 1] <= BlockSize[d] /\ BlockSize[u + 1] = 2 * BlockSize[u]
        BY <1>1, <1>2, <1>6, <3>4, LevsOK
      <4>2. BlockSize[u] \in Nat /\ BlockSize[d] \in Nat /\ BlockSize[u] >= 4
        BY <1>1, <1>2, LevsOK
      <4>3. QED
        BY <1>1, <1>2, <1>8, <4>1, <4>2
    <3>5. u # d
      BY <1>1, <1>2, <1>8, LevsOK
    <3>6. u \in Nat /\ d \in Nat
      BY <1>1, <1>2, LevsOK
    <3>7. QED
      BY <3>3, <3>4, <3>5, <3>6
  <2>3. u - 1 = d
    BY <1>1, <2>2, LevsOK
  <2>4. BestFit(b, r) = {1}
    <3>1. 1 \in Fits(b, r)
      BY <1>5, LimitAssumption DEF Fits
    <3>2. \A j \in Fits(b, r) : j \in 1..Len(b) /\ size[b[j]] >= r /\ size[b[j]] \in Nat
      <4>1. \A j \in Fits(b, r) : j \in 1..Len(b) /\ size[b[j]] >= r
        BY DEF Fits
      <4>2. \A j \in 1..Len(b) : b[j] \in Blocks
        BY <1>4
      <4>3. \A q \in Blocks : size[q] \in Nat
        BY WordOK DEF IInv, HeapInv, SizesOK
      <4>4. QED
        BY <4>1, <4>2, <4>3
    <3>3. 1 \in BestFit(b, r)
      <4>1. \A k \in Fits(b, r) : size[b[1]] < size[b[k]] \/ (size[b[1]] = size[b[k]] /\ 1 <= k)
        BY <1>5, <3>2
      <4>2. QED
        BY <3>1, <4>1 DEF BestFit
    <3>4. ASSUME NEW j \in BestFit(b, r) PROVE j = 1
      <4>1. j \in Fits(b, r) /\ (size[b[j]] < size[b[1]] \/ (size[b[j]] = size[b[1]] /\ j <= 1))
        BY <3>1 DEF BestFit
      <4>2. QED
        BY <1>5, <3>2, <4>1
    <3>5. QED
      BY <3>3, <3>4
  <2>5. BestFit(buckets[u - 1], r) = {1}
    BY <2>3, <2>4
  <2>6. Found(r) = {<<u - 1, j>> : j \in {1}}
    BY <2>1, <2>5, Zenon DEF Found, u
  <2>7. QED
    BY <2>3, <2>6 DEF d
<1>9. QED
  BY <1>7, <1>8

\* malloc right after the free of a block of that size, rounded up to a
\* multiple of 4, gives the same block, whatever is on the lists.
THEOREM SameBlockBackHolds == Spec => SameBlockBack
<1>1. ASSUME IInv, NEW n \in Requests,
             Malloc(n), ret.op = "free", ~Negative(n), size[ret.ptr] = Round(n)
      PROVE  ret' = [op |-> "malloc", ptr |-> ret.ptr]
  <2> DEFINE r == Round(n)
             d == DownBucket(r)
  <2>1. n \in Nat
    BY RequestsAssumption, WordOK
  <2>2. Found(r) = {<<d, 1>>}
    BY <1>1, <2>1, RoundOK, FrontFound
  <2>3. buckets[d][1] = ret.ptr
    BY <1>1 DEF IInv, RetInv
  <2>4. Obtain("malloc", NULL, n, r)
    BY <1>1 DEF Malloc
  <2> HIDE DEF r, d
  <2>5. (CHOOSE x \in Found(r) : TRUE) = <<d, 1>>
    BY <2>2
  <2>6. Returns("malloc", buckets[d][1])
    BY <2>2, <2>4, <2>5 DEF Obtain
  <2>7. QED
    BY <2>3, <2>6 DEF Returns
<1>2. IInv /\ [Next]_vars =>
        [\A n \in Requests :
           Malloc(n) /\ ret.op = "free" /\ ~Negative(n)
             /\ ret.ptr \in FreeBlocks /\ size[ret.ptr] = Round(n)
           => ret' = [op |-> "malloc", ptr |-> ret.ptr]]_vars
  BY <1>1
<1>3. QED
  BY <1>2, IInvAlways, PTL DEF Spec, SameBlockBack

-----------------------------------------------------------------------------
(* The promise of Allocator. *)

\* The bytes the program has asked for lie apart.
HeldApart ==
  /\ \A p \in Held : p \in Nat /\ asked[p] \in Nat
  /\ \A p, q \in Held : p < q => p + asked[p] <= q

LEMMA HeldAreApart == IInv => HeldApart
<1> SUFFICES ASSUME IInv PROVE HeldApart
  OBVIOUS
<1>1. Held \subseteq Blocks
  BY DEF IInv, ListInv
<1>2. \A p \in Blocks : p \in Nat /\ size[p] \in Nat
  BY WordOK DEF IInv, HeapInv, SizesOK
<1>3. \A p \in Held : asked[p] \in Nat /\ asked[p] <= size[p]
  BY RequestsAssumption, WordOK DEF IInv, DataInv, ContentKept
<1>4. Blocks # {} => Row(size, free)
  BY DEF IInv, HeapInv
<1>5. ASSUME NEW p \in Held, NEW q \in Held, p < q PROVE p + asked[p] <= q
  <2>1. p + size[p] + 4 <= q
    BY <1>1, <1>4, <1>5 DEF Row, Header
  <2>2. p \in Nat /\ q \in Nat /\ size[p] \in Nat
    BY <1>1, <1>2
  <2>3. QED
    BY <1>3, <2>1, <2>2
<1>6. QED
  BY <1>1, <1>2, <1>3, <1>5 DEF HeldApart

\* A block that is given out is an Alloc of Allocator, or a Resize.
LEMMA DeliverPromised ==
  ASSUME DataInv, NEW op \in CallOps, NEW old, NEW n \in Requests, NEW p,
         NEW bk, Deliver(op, old, n, p, bk, size),
         op = "realloc" => old \in Held, p \notin Held,
         Held' = HeldAfter(op, old, p), HeldApart, HeldApart'
  PROVE  Promise!Next
<1>1. ASSUME NEW S, S \subseteq Held, S \subseteq Held', p \in Held', asked'[p] = n,
             \A q \in S : asked'[q] = asked[q]
      PROVE  \A q \in S : p + asked'[p] <= q \/ q + asked[q] <= p
  <2> TAKE q \in S
  <2>1. /\ q \in Nat /\ p \in Nat /\ q # p
        /\ p < q => p + asked'[p] <= q
        /\ q < p => q + asked'[q] <= p
    BY <1>1 DEF HeldApart
  <2>2. QED
    BY <1>1, <2>1
<1>2. CASE op \in {"malloc", "calloc"}
  <2> DEFINE v == IF op = "malloc" THEN "any" ELSE "zero"
  <2>1. asked' = With(asked, p, n) /\ stored' = With(stored, p, v) /\ DOMAIN stored = Held
    BY <1>2 DEF Deliver, DataInv
  <2>2. /\ asked' = [q \in Held \union {p} |-> IF q = p THEN n ELSE asked[q]]
        /\ stored' = [q \in Held \union {p} |-> IF q = p THEN v ELSE stored[q]]
    BY <2>1 DEF With
  <2>3. asked'[p] = n /\ stored'[p] = v /\ p \in DOMAIN asked' \ Held
    BY <2>2
  <2>4. \A q \in Held : p + asked'[p] <= q \/ q + asked[q] <= p
    BY <1>1, <2>2, <2>3
  <2>5. v \in {"any", "zero"}
    OBVIOUS
  <2> HIDE DEF v
  <2>6. /\ asked' = [q \in Held \union {p} |-> IF q = p THEN asked'[p] ELSE asked[q]]
        /\ stored' = [q \in Held \union {p} |-> IF q = p THEN stored'[p] ELSE stored[q]]
    BY <2>2, <2>3
  <2>7. Promise!Alloc
    BY <2>3, <2>4, <2>5, <2>6 DEF Promise!Alloc, Promise!Held, Promise!Clear
  <2>8. QED
    BY <2>7 DEF Promise!Next
<1>3. CASE op = "realloc"
  <2>1. /\ asked' = With(Without(asked, old), p, n)
        /\ stored' = With(Without(stored, old), p, stored[old])
        /\ DOMAIN stored = Held /\ old \in Held
    BY <1>3 DEF Deliver, DataInv
  <2> DEFINE rest == Held \ {old}
  <2>2. /\ asked' = [q \in rest \union {p} |-> IF q = p THEN n ELSE asked[q]]
        /\ stored' = [q \in rest \union {p} |-> IF q = p THEN stored[old] ELSE stored[q]]
    BY <2>1 DEF With, Without
  <2>3. asked'[p] = n /\ p \in DOMAIN asked'
    BY <2>2
  <2>4. \A q \in rest : p + asked'[p] <= q \/ q + asked[q] <= p
    <3>1. rest \subseteq Held /\ rest \subseteq Held' /\ \A q \in rest : asked'[q] = asked[q]
      BY <2>2
    <3> HIDE DEF rest
    <3>2. QED
      BY <1>1, <2>3, <3>1
  <2>5. asked' = [q \in rest \union {p} |-> IF q = p THEN asked'[p] ELSE asked[q]]
    BY <2>2, <2>3
  <2>6. Promise!Resize
    BY <2>1, <2>2, <2>3, <2>4, <2>5 DEF Promise!Resize, Promise!Held, Promise!Clear
  <2>7. QED
    BY <2>6 DEF Promise!Next
<1>4. QED
  BY <1>2, <1>3 DEF CallOps

LEMMA ObtainPromised ==
  ASSUME IInv, HeldApart, HeldApart', Ready, NEW op \in CallOps, NEW old,
         op = "realloc" => old \in Held,
         NEW n \in Requests, ~Negative(n), NEW r \in Nat,
         4 <= r, r <= BlockSize[Levels - 1], r % 4 = 0, n <= r,
         Obtain(op, old, n, r)
  PROVE  Promise!Next \/ UNCHANGED <<asked, stored>>
<1>1. CASE Found(r) # {}
  <2> DEFINE at == CHOOSE x \in Found(r) : TRUE
             p == buckets[at[1]][at[2]]
             bk == [buckets EXCEPT ![at[1]] = RemoveAt(@, at[2])]
  <2>1. Deliver(op, old, n, p, bk, size) /\ UNCHANGED <<size, crashed>>
    BY <1>1 DEF Obtain
  <2>2. at \in Found(r)
    BY <1>1
  <2> HIDE DEF at
  <2>3. /\ at[1] \in Levs /\ at[2] \in 1..Len(buckets[at[1]]) /\ r <= size[p]
        /\ ListsOK(buckets, size)
    BY <2>2, FoundOK DEF IInv, HeapInv, ListInv
  <2>4. buckets[at[1]] \in Seq(Blocks) /\ p \in ToSet(buckets[at[1]])
    BY <2>3 DEF ListsOK, ToSet
  <2>5. p \in Blocks /\ p \in OnLists(buckets)
    BY <2>3, <2>4, ElementOfSeq DEF OnLists
  <2> HIDE DEF p, bk
  <2>6. p \notin Held /\ Held \subseteq Blocks
    BY <2>5 DEF IInv, ListInv
  <2>7. size[p] \in Nat /\ n \in Nat
    BY <2>5, RequestsAssumption, WordOK DEF IInv, HeapInv, SizesOK
  <2>8. size' = size /\ Blocks' = Blocks \union {p} /\ n <= size'[p]
    <3>1. size' = size
      BY <2>1
    <3>2. Blocks' = Blocks \union {p}
      BY <2>5, <3>1
    <3>3. n <= size[p]
      BY <2>3, <2>7
    <3>4. QED
      BY <3>1, <3>2, <3>3
  <2>9. Held' = HeldAfter(op, old, p)
    BY <2>1, <2>6, <2>8, DeliverKeepsData DEF IInv
  <2>10. QED
    BY <2>1, <2>6, <2>9, DeliverPromised DEF IInv
<1>2. CASE Found(r) = {}
  BY <1>2 DEF Obtain
<1>3. QED
  BY <1>1, <1>2

LEMMA StepPromised ==
  ASSUME IInv, HeldApart, HeldApart', Next
  PROVE  Promise!Next \/ UNCHANGED <<asked, stored>>
<1>1. ASSUME NEW op, NEW n, Fails(op, n) PROVE UNCHANGED <<asked, stored>>
  BY <1>1 DEF Fails
<1>2. CASE \E n \in Requests : Malloc(n) \/ Calloc(n)
  <2>1. PICK n \in Requests, op \in {"malloc", "calloc"} :
             Ready /\ IF Negative(n) THEN Fails(op, n) ELSE Obtain(op, NULL, n, Round(n))
    BY <1>2 DEF Malloc, Calloc
  <2>2. n \in Nat /\ op \in CallOps /\ op # "realloc"
    BY RequestsAssumption, WordOK DEF CallOps
  <2>3. CASE Negative(n)
    BY <1>1, <2>1, <2>3
  <2>4. CASE ~Negative(n)
    BY <2>1, <2>2, <2>4, RoundOK, ObtainPromised
  <2>5. QED
    BY <2>3, <2>4
<1>3. CASE \E p \in Held, n \in Requests : Realloc(p, n)
  <2>1. PICK p \in Held, n \in Requests : Realloc(p, n)
    BY <1>3
  <2>2. n \in Nat /\ Ready /\ p \in Blocks
    BY <2>1, RequestsAssumption, WordOK DEF Realloc, IInv, ListInv
  <2>3. CASE Negative(n)
    BY <1>1, <2>1, <2>3 DEF Realloc
  <2>4. CASE ~Negative(n) /\ n <= size[p]
    <3>1. asked' = [asked EXCEPT ![p] = n] /\ stored' = stored
      BY <2>1, <2>4 DEF Realloc
    <3>2. DOMAIN asked' = Held /\ asked'[p] = n /\ \A q \in Held \ {p} : asked'[q] = asked[q]
      BY <3>1
    <3>3. stored = [q \in Held |-> stored[q]]
      BY DEF IInv, DataInv
    <3>4. /\ asked' = [q \in (Held \ {p}) \union {p} |-> IF q = p THEN asked'[p] ELSE asked[q]]
          /\ stored' = [q \in (Held \ {p}) \union {p} |-> IF q = p THEN stored[p] ELSE stored[q]]
      BY <3>1, <3>2, <3>3
    <3>5. \A q \in Held \ {p} : p + asked'[p] <= q \/ q + asked[q] <= p
      <4> TAKE q \in Held \ {p}
      <4>1. /\ q \in Nat /\ p \in Nat
            /\ p < q => p + asked'[p] <= q
            /\ q < p => q + asked'[q] <= p
        BY <3>2 DEF HeldApart
      <4>2. QED
        BY <3>2, <4>1
    <3>6. Promise!Resize
      BY <3>2, <3>4, <3>5 DEF Promise!Resize, Promise!Held, Promise!Clear
    <3>7. QED
      BY <3>6 DEF Promise!Next
  <2>5. CASE ~Negative(n) /\ ~ (n <= size[p])
    <3> DEFINE r == BlockSize[UpBucket(n)]
    <3>1. IF Negative(r) THEN Fails("realloc", n) ELSE Obtain("realloc", p, n, r)
      BY <2>1, <2>5 DEF Realloc
    <3>2. n <= BlockSize[Levels - 1]
      BY <2>2, <2>5, WordOK DEF Negative
    <3>3. UpBucket(n) \in Levs /\ n <= r
      BY <2>2, <3>2, UpOK
    <3>4. r \in Nat /\ 4 <= r /\ r % 4 = 0
      BY <3>3, LevsOK, BlockSizeOK
    <3> HIDE DEF r
    <3>5. CASE Negative(r)
      BY <1>1, <3>1, <3>5
    <3>6. CASE ~Negative(r)
      <4>1. r <= BlockSize[Levels - 1] /\ "realloc" \in CallOps
        BY <3>4, <3>6, WordOK DEF Negative, CallOps
      <4>2. QED
        BY <2>2, <2>5, <3>1, <3>3, <3>4, <3>6, <4>1, ObtainPromised
    <3>7. QED
      BY <3>5, <3>6
  <2>6. QED
    BY <2>3, <2>4, <2>5
<1>4. CASE \E p \in Held : Free(p)
  <2>1. PICK p \in Held : Free(p)
    BY <1>4
  <2>2. /\ asked' = [q \in Held \ {p} |-> asked[q]]
        /\ stored' = [q \in Held \ {p} |-> stored[q]]
    BY <2>1 DEF Free, Without, IInv, DataInv
  <2>3. Promise!Free
    BY <2>2 DEF Promise!Free, Promise!Held
  <2>4. QED
    BY <2>3 DEF Promise!Next
<1>5. CASE \E p \in Held, c \in Contents : Store(p, c)
  BY <1>5 DEF Store, Promise!Next, Promise!Store, Promise!Held
<1>6. CASE CallStep(TRUE)
  <2>1. CASE SimpleFirst(TRUE) \/ SimpleGrow(TRUE)
    BY <2>1 DEF SimpleFirst, SimpleGrow
  <2>2. CASE SimpleCut
    <3> DEFINE p == free + Header
    <3>1. CASE UNCHANGED <<asked, stored>>
      BY <3>1
    <3>2. CASE ~UNCHANGED <<asked, stored>>
      <4>1. /\ size' = With(size, p, call.want) /\ base # 0 /\ ~ (p > brk) /\ ~crashed
            /\ Deliver(call.op, call.ptr, call.n, p, buckets, size) /\ call # Idle
        <5>1. ~ (Need >= Word \div 2)
          BY <2>2, <3>2 DEF SimpleCut, Fails
        <5>2. /\ base # 0
              /\ IF p > brk
                   THEN /\ crashed' = TRUE
                        /\ UNCHANGED <<size, buckets, data, asked, stored, call, ret>>
                   ELSE /\ size' = With(size, p, call.want)
                        /\ Deliver(call.op, call.ptr, call.n, p, buckets, size)
                        /\ Returns(call.op, p)
                        /\ UNCHANGED crashed
          BY <2>2, <5>1 DEF SimpleCut
        <5>3. ~ (p > brk)
          BY <3>2, <5>2
        <5>4. call # Idle /\ ~crashed
          BY <1>6, <2>2 DEF SimpleCut, CallStep
        <5>5. QED
          BY <5>2, <5>3, <5>4
      <4>2. /\ call.op \in CallOps /\ call.n \in Requests /\ call.n <= call.want
            /\ call.op = "realloc" => call.ptr \in Held
        BY <4>1 DEF IInv, CallInv, CallOps
      <4>3. p \notin Blocks
        <5>1. ~Refused
          BY <4>1, BaseAssumption, WordOK DEF IInv, HeapInv, Header
        <5>2. Row(size, free) /\ SizesOK(size)
          BY <4>1, <5>1 DEF IInv, HeapInv
        <5>3. free \in Nat /\ p = free + 4
          BY <5>2 DEF Row, Header
        <5>4. \A q \in Blocks : q \in Nat /\ size[q] \in Nat /\ q + size[q] <= free
          BY <5>2, WordOK DEF Row, InRow, SizesOK
        <5> HIDE DEF p
        <5>5. QED
          BY <5>3, <5>4
      <4> HIDE DEF p
      <4>4. /\ Blocks' = Blocks \union {p} /\ size'[p] = call.want
            /\ \A q \in Blocks : size'[q] = size[q]
        BY <4>1, <4>3 DEF With
      <4>5. p \notin Held /\ Held \subseteq Blocks
        BY <4>3 DEF IInv, ListInv
      <4>6. Held' = HeldAfter(call.op, call.ptr, p)
        BY <4>1, <4>2, <4>4, <4>5, DeliverKeepsData DEF IInv
      <4>7. QED
        BY <4>1, <4>2, <4>5, <4>6, DeliverPromised DEF IInv
    <3>3. QED
      BY <3>1, <3>2
  <2>3. QED
    BY <1>6, <2>1, <2>2 DEF CallStep
<1>7. QED
  BY <1>2, <1>3, <1>4, <1>5, <1>6 DEF Next

\* Heap implements Allocator: whatever brk(2) does, blocks that are held are
\* disjoint and keep what is stored in them.
THEOREM PromiseKeptHolds == Spec => PromiseKept
<1>1. Init => Promise!Init
  BY DEF Init, Promise!Init, Nothing, NULL
<1>2. IInv /\ HeldApart /\ HeldApart' /\ [Next]_vars => [Promise!Next]_(Promise!vars)
  <2>1. ASSUME IInv, HeldApart, HeldApart', Next PROVE Promise!Next \/ UNCHANGED Promise!vars
    BY <2>1, StepPromised DEF Promise!vars
  <2>2. ASSUME UNCHANGED vars PROVE UNCHANGED Promise!vars
    BY <2>2 DEF vars, Promise!vars
  <2>3. QED
    BY <2>1, <2>2
<1>3. QED
  BY <1>1, <1>2, HeldAreApart, IInvAlways, PTL DEF Spec, PromiseKept, Promise!Spec
=============================================================================
