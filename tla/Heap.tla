-------------------------------- MODULE Heap --------------------------------
(***************************************************************************)
(* The default allocator: mini_malloc, mini_calloc, mini_realloc and       *)
(* mini_free over mini_realloc's free lists, and under them                *)
(* mini_malloc_simple_unaligned, which grows the heap with brk(2).         *)
(*                                                                         *)
(* An address is a number of bytes; a block is named by the address the    *)
(* program gets, four bytes after its header.  What a block holds is one   *)
(* of Contents, or what calloc or a free-list link leaves there.  A call   *)
(* takes one step, unless it needs memory from brk(2): then one more for   *)
(* every brk(2), any of which the kernel may refuse.                       *)
(***************************************************************************)
EXTENDS Integers, SequencesExt

CONSTANTS
  Levels,       \* number of buckets; a word holds numbers below 4 << Levels
  BestFitLimit, \* BEST_FIT_LIMIT
  Base,         \* what the first brk(0) returns
  FirstHeap,    \* the first growth (64 KiB)
  MaxDouble,    \* the largest heap that is doubled (1 MiB)
  Requests,     \* the sizes the program asks for
  Contents,     \* what the program stores
  MaxBlocks,    \* bound: number of blocks cut from the heap
  FirstMayFail  \* may the kernel refuse the very first growth?

\* The block size of every bucket, 4 << i, and 4 << Levels.
BlockSize[i \in 0..Levels] == IF i = 0 THEN 4 ELSE 2 * BlockSize[i - 1]

Word == BlockSize[Levels]

ASSUME LevelsAssumption   == Levels \in Nat \ {0}
ASSUME BaseAssumption     == Base \in 1..Word - 1
ASSUME GrowthAssumption   == /\ FirstHeap \in Nat \ {0} /\ Base + FirstHeap < Word
                             /\ MaxDouble \in Nat \ {0}
ASSUME RequestsAssumption == Requests \subseteq 0..Word - 1
ASSUME LimitAssumption    == BestFitLimit \in Nat \ {0} /\ MaxBlocks \in Nat
ASSUME ContentsAssumption == /\ "zero" \notin Contents /\ "junk" \notin Contents
                             /\ "any" \notin Contents
ASSUME FirstAssumption    == FirstMayFail \in BOOLEAN

VARIABLES
  base, free, end,  \* the variables of malloc_simple, 0 at first
  brk,      \* the kernel's program break
  size,     \* for every block cut so far: the size in its header
  buckets,  \* free_bucket_heads: the free blocks of every bucket, in order
  data,     \* what the memory of a block holds
  asked,    \* for every block the program holds: the size it asked for
  stored,   \* and what it must find in it
  call,     \* the call that waits for brk(2), or idle
  ret,      \* the last call and its result
  crashed   \* has the process had a SIGSEGV?

vars == <<base, free, end, brk, size, buckets, data, asked, stored, call, ret, crashed>>
simple == <<base, free, end, brk>>

-----------------------------------------------------------------------------
NULL == 0
Header == 4

Idle == [op |-> "idle", ptr |-> NULL, n |-> 0, want |-> 0]

Ops == {"malloc", "calloc", "realloc", "free"}

Levs == 0..Levels - 1

\* The function of no block.
Nothing == [p \in {} |-> NULL]

Init ==
  /\ base = 0 /\ free = 0 /\ end = 0 /\ brk = Base
  /\ size = Nothing /\ buckets = [i \in Levs |-> <<>>]
  /\ data = Nothing /\ asked = Nothing /\ stored = Nothing
  /\ call = Idle /\ ret = [op |-> "none", ptr |-> NULL]
  /\ crashed = FALSE

Held   == DOMAIN asked
Blocks == DOMAIN size

With(f, p, v)  == [q \in DOMAIN f \union {p} |-> IF q = p THEN v ELSE f[q]]
Without(f, p)  == [q \in DOMAIN f \ {p} |-> f[q]]

Ready == ~crashed /\ call = Idle

Returns(op, p) == call' = Idle /\ ret' = [op |-> op, ptr |-> p]

\* Is the number negative as a signed word?
Negative(n) == n >= Word \div 2

\* A multiple of 4, at least 4.
Round(n) == IF n = 0 THEN 4 ELSE ((n + 3) \div 4) * 4

Least(S) == CHOOSE i \in S : \A j \in S : i <= j

\* The first bucket whose block size is at least r (.5).
UpBucket(r) == Least({i \in Levs : r <= BlockSize[i]})

\* The bucket a block of size s is put on: the largest block size within s (.16).
DownBucket(s) == CHOOSE i \in Levs : BlockSize[i] <= s /\ s < BlockSize[i + 1]

IsPower(r) == \E i \in Levs : r = BlockSize[i]

\* Mutant: the sizes of the blocks are not looked at.
FitsAny(b, r) == {j \in 1..Len(b) : j <= BestFitLimit}

\* The places of the blocks that can hold r bytes, among the first of list b.
Fits(b, r) == {j \in 1..Len(b) : j <= BestFitLimit /\ size[b[j]] >= r}

\* Mutant: the last one of the smallest blocks that fit.
BestFitLast(b, r) ==
  {j \in Fits(b, r) : \A k \in Fits(b, r) :
     size[b[j]] < size[b[k]] \/ (size[b[j]] = size[b[k]] /\ j >= k)}

\* The place of the best fit for r in list b: the first one of the smallest
\* that fit (.8).
BestFit(b, r) ==
  {j \in Fits(b, r) : \A k \in Fits(b, r) :
     size[b[j]] < size[b[k]] \/ (size[b[j]] = size[b[k]] /\ j <= k)}

\* Where a free block for r bytes is, as bucket and place: a best fit in the
\* bucket below unless r is a power of 2, or the head of the bucket of r.
Found(r) ==
  LET i == UpBucket(r)
      below == IF IsPower(r) THEN {} ELSE BestFit(buckets[i - 1], r) IN
  IF below # {} THEN {<<i - 1, j>> : j \in below}
  ELSE IF buckets[i] # <<>> THEN {<<i, 1>>} ELSE {}

\* Mutant: the old block is freed before it is copied.
CopiedAfterFree(old) == "junk"

\* What rep movsb copies to the new block of a realloc.
Copied(old) == data[old]

\* Call op, on block old and with size n, has got block p, which leaves bk as
\* the buckets.  realloc copies, and puts old on its bucket (.do_free), whose
\* link overwrites the start of the block; calloc clears.
Deliver(op, old, n, p, bk, header) ==
  LET before == With(data, p, IF p \in DOMAIN data THEN data[p] ELSE "junk") IN
  CASE op = "malloc" ->
         /\ data' = before /\ buckets' = bk
         /\ asked' = With(asked, p, n) /\ stored' = With(stored, p, "any")
    [] op = "calloc" ->
         /\ data' = [before EXCEPT ![p] = "zero"] /\ buckets' = bk
         /\ asked' = With(asked, p, n) /\ stored' = With(stored, p, "zero")
    [] op = "realloc" ->
         /\ data' = [before EXCEPT ![p] = Copied(old), ![old] = "junk"]
         /\ buckets' = [bk EXCEPT ![DownBucket(header[old])] = <<old>> \o @]
         /\ asked' = With(Without(asked, old), p, n)
         /\ stored' = With(Without(stored, old), p, stored[old])

\* The call gives up: NULL; calloc then clears n bytes at NULL.
GiveUp(op, n) ==
  /\ Returns(op, NULL)
  /\ crashed' = (op = "calloc" /\ n > 0)

\* mini_realloc(NULL, r) on behalf of op: from a bucket, or from brk(2).
Obtain(op, old, n, r) ==
  LET found == Found(r) IN
  IF found # {}
    THEN LET at == CHOOSE x \in found : TRUE
             p  == buckets[at[1]][at[2]] IN
         /\ Deliver(op, old, n, p, [buckets EXCEPT ![at[1]] = RemoveAt(@, at[2])], size)
         /\ Returns(op, p)
         /\ UNCHANGED <<simple, size, crashed>>
    ELSE /\ Cardinality(Blocks) < MaxBlocks
         /\ call' = [op |-> op, ptr |-> old, n |-> n, want |-> r]
         /\ UNCHANGED <<simple, size, buckets, data, asked, stored, ret, crashed>>

Fails(op, n) ==
  GiveUp(op, n) /\ UNCHANGED <<simple, size, buckets, data, asked, stored>>

-----------------------------------------------------------------------------
(* The calls. *)

\* mini_malloc(n).
Malloc(n) ==
  /\ Ready
  /\ IF Negative(n) THEN Fails("malloc", n) ELSE Obtain("malloc", NULL, n, Round(n))

\* mini_calloc(nmemb, size) whose product n fits a word.
Calloc(n) ==
  /\ Ready
  /\ IF Negative(n) THEN Fails("calloc", n) ELSE Obtain("calloc", NULL, n, Round(n))

\* mini_realloc(p, n) of a block, n > 0: the same block if it is large enough,
\* else a new one of the next power of 2, which may be too large (.18).
Realloc(p, n) ==
  /\ Ready /\ p \in Held /\ n > 0
  /\ IF Negative(n) THEN Fails("realloc", n)
     ELSE IF n <= size[p]
       THEN /\ asked' = [asked EXCEPT ![p] = n]
            /\ Returns("realloc", p)
            /\ UNCHANGED <<simple, size, buckets, data, stored, crashed>>
     ELSE LET r == BlockSize[UpBucket(n)] IN
          IF Negative(r) THEN Fails("realloc", n) ELSE Obtain("realloc", p, n, r)

\* mini_free(p), and mini_realloc(p, 0): onto the front of its bucket.
Free(p) ==
  /\ Ready /\ p \in Held
  /\ buckets' = [buckets EXCEPT ![DownBucket(size[p])] = <<p>> \o @]
  /\ data' = [data EXCEPT ![p] = "junk"]
  /\ asked' = Without(asked, p) /\ stored' = Without(stored, p)
  /\ Returns("free", p)
  /\ UNCHANGED <<simple, size, crashed>>

\* The program stores into a block it holds.
Store(p, c) ==
  /\ Ready /\ p \in Held
  /\ data' = [data EXCEPT ![p] = c] /\ stored' = [stored EXCEPT ![p] = c]
  /\ UNCHANGED <<simple, size, buckets, asked, call, ret, crashed>>

-----------------------------------------------------------------------------
(* mini_malloc_simple_unaligned(call.want + 4). *)

Need == call.want + Header

\* .9: brk(2) to b + n; the heap is left as it is if that is refused, or is
\* beyond the last address.
GrowTo(b, n, mayFail) ==
  \/ /\ b + n < Word
     /\ brk' = b + n /\ end' = b + n
     /\ UNCHANGED <<call, ret, crashed>>
  \/ /\ mayFail \/ b + n >= Word
     /\ UNCHANGED <<brk, end>>
     /\ GiveUp(call.op, call.n)

\* The very first call asks for the break and for the first heap.
SimpleFirst(mayFail) ==
  /\ call # Idle /\ base = 0 /\ Need < Word \div 2
  /\ base' = Base /\ free' = Base
  /\ GrowTo(Base, FirstHeap, mayFail /\ FirstMayFail)
  /\ UNCHANGED <<size, buckets, data, asked, stored>>

\* The difference of two words, as an unsigned word.
Minus(m, n) == IF n <= m THEN m - n ELSE m - n + Word

\* The bytes between free and end.
Room == Minus(end, free)

\* Mutant: a large heap does not grow.
NewHeapCapped(heap) == IF heap < MaxDouble THEN 2 * heap ELSE heap

\* The heap doubles up to MaxDouble, and grows by as much from there on.
NewHeap(heap) == IF heap <= MaxDouble THEN 2 * heap ELSE heap + MaxDouble

\* .21: not enough room.
SimpleGrow(mayFail) ==
  /\ call # Idle /\ base # 0
  /\ Need < Word \div 2 /\ Room < Need
  /\ LET new == NewHeap(Minus(end, base)) IN
     IF Negative(new)
       THEN GiveUp(call.op, call.n) /\ UNCHANGED <<brk, end>>
       ELSE GrowTo(base, new, mayFail)
  /\ UNCHANGED <<base, free, size, buckets, data, asked, stored>>

\* .17: the block is cut off, and realloc writes the header, which is a
\* SIGSEGV if it is not within the heap.  A size that is negative with its
\* header is refused first.
SimpleCut ==
  /\ call # Idle
  /\ IF Need >= Word \div 2
       THEN Fails(call.op, call.n)
       ELSE LET p == free + Header IN
            /\ base # 0 /\ Room >= Need
            /\ free' = free + Need
            /\ UNCHANGED <<base, end, brk>>
            /\ IF p > brk
                 THEN /\ crashed' = TRUE
                      /\ UNCHANGED <<size, buckets, data, asked, stored, call, ret>>
                 ELSE /\ size' = With(size, p, call.want)
                      /\ Deliver(call.op, call.ptr, call.n, p, buckets, size)
                      /\ Returns(call.op, p)
                      /\ UNCHANGED crashed

\* A step of the call in progress; may a brk(2) fail in it?
CallStep(mayFail) ==
  ~crashed /\ (SimpleFirst(mayFail) \/ SimpleGrow(mayFail) \/ SimpleCut)

Next ==
  \/ \E n \in Requests : Malloc(n) \/ Calloc(n)
  \/ \E p \in Held, n \in Requests : Realloc(p, n)
  \/ \E p \in Held : Free(p)
  \/ \E p \in Held, c \in Contents : Store(p, c)
  \/ CallStep(TRUE)

\* A call that has begun runs on: nothing else in the process can run.  It must
\* not take a refusal by the kernel to end it.
Spec == Init /\ [][Next]_vars /\ WF_vars(CallStep(FALSE))
-----------------------------------------------------------------------------
(* Properties. *)

FreeBlocks == UNION {ToSet(buckets[i]) : i \in Levs}

\* The state's shape.
TypeOK ==
  /\ {base, free, end, brk} \subseteq 0..Word - 1
  /\ \A p \in Blocks : p \in 1..Word - 1 /\ size[p] \in 1..Word - 1
  /\ DOMAIN data = Blocks /\ \A p \in Blocks : data[p] \in Contents \union {"zero", "junk"}
  /\ DOMAIN buckets = Levs
  /\ Held \subseteq Blocks /\ DOMAIN stored = Held
  /\ \A p \in Held : asked[p] \in 0..Word - 1 /\ stored[p] \in Contents \union {"zero", "any"}
  /\ call.op \in Ops \union {"idle"} /\ call.want \in 0..Word - 1
  /\ ret.op \in Ops \union {"none"} /\ ret.ptr \in 0..Word - 1
  /\ crashed \in BOOLEAN

\* The heap is an unbroken row of headers and blocks, each a multiple of 4
\* from its start, that lies within the break.
BlocksInHeap ==
  /\ \A p \in Blocks :
       /\ Base + Header <= p /\ p + size[p] <= free
       /\ (p - Base) % 4 = 0
       /\ p = Base + Header \/ \E q \in Blocks : q + size[q] + Header = p
  /\ \A p, q \in Blocks : p < q => p + size[p] + Header <= q
  /\ base # 0 => free <= end /\ end = brk

\* Every block that was ever cut is held by the program or on exactly one
\* free list, once, and there on the one of its size: none is leaked, none
\* can be given out twice, none is looked for where it is not.
BlocksAccounted ==
  /\ Held \intersect FreeBlocks = {}
  /\ Held \union FreeBlocks = Blocks
  /\ \A i \in Levs : /\ IsInjective(buckets[i])
                     /\ \A p \in ToSet(buckets[i]) : BlockSize[i] <= size[p] /\ size[p] < BlockSize[i + 1]

\* A block is as large as what it was asked for, and holds what the program
\* has stored in it, or calloc, whatever other blocks were given out, moved
\* and freed meanwhile, and when a realloc fails.
ContentKept ==
  \A p \in Held :
    /\ asked[p] <= size[p]
    /\ stored[p] # "any" => data[p] = stored[p]

\* malloc(n) right after the free of a block of that size (rounded up to a
\* multiple of 4) gives the same block, as realloc.nasm says of its best fit.
SameBlockBack ==
  [][\A n \in Requests :
       Malloc(n) /\ ret.op = "free" /\ ~Negative(n)
         /\ ret.ptr \in FreeBlocks /\ size[ret.ptr] = Round(n)
       => ret' = [op |-> "malloc", ptr |-> ret.ptr]]_vars

\* What malloc_simple cuts off the heap is below the break.
CutsInHeap == crashed => call = Idle

\* The allocator keeps the promise of Allocator.
Promise == INSTANCE Allocator WITH Sizes <- Requests, size <- asked, content <- stored

PromiseKept == Promise!Spec

\* Every call returns, or ends the process.
CallReturns == call.op # "idle" ~> call.op = "idle" \/ crashed

\* The blocks are a row in the heap, each held or free once, with the contents
\* their holders gave them.
BlocksSound == TypeOK /\ BlocksInHeap /\ BlocksAccounted /\ ContentKept

=============================================================================
