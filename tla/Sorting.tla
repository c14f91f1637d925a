------------------------------ MODULE Sorting ------------------------------
(* The sorts and the search of the library: mini_qsort (insertion sort),      *)
(* mini_qsort_fast (heapsort), mini_qsort_stable_fast with and without its    *)
(* shortcut (in-place merges), and bsearch.  An array is a function on        *)
(* 0..n-1 of items with a key and the place they came from; a work record     *)
(* carries the array with the comparisons and the swaps made on it so far.    *)
EXTENDS Integers, Sequences, FiniteSets, SequencesExt

CONSTANTS Keys,      \* the keys of the items, a set of integers
          MaxItems   \* the longest array

ASSUME SortingAssumption == Keys \subseteq Int /\ MaxItems \in Nat

VARIABLE sorting     \* the array given, the sort called, its result and the last search

Cmp(x, y) == x.key - y.key

Work(s) == [a |-> s, cmps |-> 0, swaps |-> 0, depth |-> 0]

Count(w) == Cardinality(DOMAIN w.a)

Compared(w, n) == [w EXCEPT !.cmps = @ + n]

-----------------------------------------------------------------------------
(* mini_qsort: every item is moved down past the greater ones before it.      *)

Slot(a, i) == Max({0} \cup {j \in 1..i : ~(Cmp(a[i], a[j - 1]) < 0)})

Rotated(a, j, i) ==
  [k \in DOMAIN a |-> IF k = j THEN a[i] ELSE IF k \in j + 1..i THEN a[k - 1] ELSE a[k]]

Inserted(w, i) ==
  LET j == Slot(w.a, i) IN
  [w EXCEPT !.a = Rotated(@, j, i), !.cmps = @ + i - j + (IF j = 0 THEN 0 ELSE 1), !.swaps = @ + i - j]

mini_qsort(w) == FoldLeft(Inserted, w, [i \in 1..Count(w) - 1 |-> i])

-----------------------------------------------------------------------------
(* mini_qsort_fast: Knuth's heapsort with swaps in place of moves.            *)

Swapped(w, i, j) ==
  [w EXCEPT !.a = [@ EXCEPT ![i] = w.a[j], ![j] = w.a[i]], !.swaps = @ + 1]

GreaterChild(a, j, r) == IF j < r /\ Cmp(a[j], a[j + 1]) < 0 THEN j + 1 ELSE j

RECURSIVE Sifted(_, _, _)
Sifted(w, i, r) ==
  LET left == 2 * i + 1
      j == GreaterChild(w.a, left, r)
      v == Compared(w, IF left < r THEN 2 ELSE 1)
  IN IF left > r THEN Swapped(w, i, i)
     ELSE IF Cmp(w.a[i], w.a[j]) < 0 THEN Sifted(Swapped(v, i, j), j, r)
     ELSE Swapped(v, i, i)

RECURSIVE Heapsorted(_, _, _)
Heapsorted(w, l, r) ==
  IF l > 0 THEN Heapsorted(Sifted(w, l - 1, r), l - 1, r)
  ELSE IF r = 1 THEN Swapped(w, 0, r)
  ELSE Heapsorted(Sifted(Swapped(w, 0, r), 0, r - 1), 0, r - 1)

mini_qsort_fast(w) ==
  IF Count(w) < 2 THEN w ELSE Heapsorted(w, Count(w) \div 2, Count(w) - 1)

-----------------------------------------------------------------------------
(* mini_qsort_stable_fast: runs of d items are merged in place, d doubling.   *)

Reversed(w, p, q) ==
  [w EXCEPT !.a = [k \in DOMAIN @ |-> IF k \in p..q - 1 THEN @[p + q - 1 - k] ELSE @[k]],
            !.swaps = @ + (q - p) \div 2]

RECURSIVE Bound(_, _, _, _, _)
Bound(w, key, low, i, least) ==
  LET mid == low + i \div 2 IN
  IF i = 0 THEN [work |-> w, low |-> low]
  ELSE IF Cmp(w.a[key], w.a[mid]) >= least
  THEN Bound(Compared(w, 1), key, mid + 1, (i - 1) \div 2, least)
  ELSE Bound(Compared(w, 1), key, low, i \div 2, least)

\* Mutant: an item equal to the key in the right run goes before it.
CutUnstable(w, a, b, c) ==
  IF b - a > c - b
  THEN LET p == a + (b - a) \div 2
           f == Bound(w, p, b, c - b, 0)
       IN [work |-> f.work, p |-> p, q |-> f.low]
  ELSE LET q == b + (c - b) \div 2
           f == Bound(w, q, a, b - a, 0)
       IN [work |-> f.work, p |-> f.low, q |-> q]

\* The cut of two runs [a, b) and [b, c): [p, b) is to change places with [b, q).
Cut(w, a, b, c) ==
  IF b - a > c - b
  THEN LET p == a + (b - a) \div 2
           f == Bound(w, p, b, c - b, 1)
       IN [work |-> f.work, p |-> p, q |-> f.low]
  ELSE LET q == b + (c - b) \div 2
           f == Bound(w, q, a, b - a, 0)
       IN [work |-> f.work, p |-> f.low, q |-> q]

Exchanged(w, p, b, q) ==
  IF p # b /\ b # q THEN Reversed(Reversed(Reversed(w, p, b), b, q), p, q) ELSE w

RECURSIVE Merged(_, _, _, _, _)
Merged(w0, a, b, c, depth) ==
  LET w == [w0 EXCEPT !.depth = Max({@, depth})]
      cut == Cut(w, a, b, c)
      m == cut.p + (cut.q - b)
  IN IF a = b \/ b = c THEN w
     ELSE IF c - a = 2
     THEN IF Cmp(w.a[b], w.a[a]) < 0 THEN Reversed(Compared(w, 1), a, c) ELSE Compared(w, 1)
     ELSE Merged(Merged(Exchanged(cut.work, cut.p, b, cut.q), a, cut.p, m, depth + 1),
                 m, cut.q, c, depth + 1)

\* The shortcut leaves two runs alone whose touching items are in order.
InOrder(w, a, d) == Cmp(w.a[a + d - 1], w.a[a + d]) <= 0

RECURSIVE Passes(_, _, _, _)
Passes(w, d, a, shortcut) ==
  LET n == Count(w)
      b == a + 2 * d
      v == IF shortcut /\ d > 1 THEN Compared(w, 1) ELSE w
  IN IF d >= n THEN w
     ELSE IF a >= n - d THEN Passes(w, 2 * d, 0, shortcut)
     ELSE IF shortcut /\ d > 1 /\ InOrder(w, a, d) THEN Passes(v, d, b, shortcut)
     ELSE Passes(Merged(v, a, a + d, Min({b, n}), 1), d, b, shortcut)

mini_qsort_stable_fast(w) == Passes(w, 1, 0, FALSE)

mini_qsort_stable_fast_shortcut(w) == Passes(w, 1, 0, TRUE)

-----------------------------------------------------------------------------
(* bsearch: the place of an item with the key, or -1.                         *)

\* Mutant: the item in the middle is counted in the right half as well.
RECURSIVE bsearchLong(_, _, _, _)
bsearchLong(a, key, base, nmemb) ==
  LET m == nmemb \div 2
      d == Cmp(key, a[base + m])
  IN IF nmemb = 0 THEN -1
     ELSE IF d < 0 THEN bsearchLong(a, key, base, m)
     ELSE IF d > 0 THEN bsearchLong(a, key, base + m + 1, IF nmemb > 2 THEN nmemb - (m + 2) ELSE 0)
     ELSE base + m

RECURSIVE bsearch(_, _, _, _)
bsearch(a, key, base, nmemb) ==
  LET m == nmemb \div 2
      d == Cmp(key, a[base + m])
  IN IF nmemb = 0 THEN -1
     ELSE IF d < 0 THEN bsearch(a, key, base, m)
     ELSE IF d > 0 THEN bsearch(a, key, base + m + 1, nmemb - (m + 1))
     ELSE base + m

-----------------------------------------------------------------------------
Sorts == {"insertion", "heap", "stable", "shortcut"}

Arrays == UNION {[0..n - 1 -> Keys] : n \in 0..MaxItems}

Items(keys) == [i \in DOMAIN keys |-> [key |-> keys[i], from |-> i]]

SortedBy(sort, keys) ==
  CASE sort = "insertion" -> mini_qsort(Work(Items(keys)))
    [] sort = "heap"      -> mini_qsort_fast(Work(Items(keys)))
    [] sort = "stable"    -> mini_qsort_stable_fast(Work(Items(keys)))
    [] sort = "shortcut"  -> mini_qsort_stable_fast_shortcut(Work(Items(keys)))

SortIdle == [phase |-> "idle", keys |-> <<>>, sort |-> "none", work |-> Work(<<>>), key |-> 0, at |-> -1]

SortInit == \E keys \in Arrays : sorting = [SortIdle EXCEPT !.phase = "given", !.keys = keys]

CallSort ==
  /\ sorting.phase = "given"
  /\ \E sort \in Sorts :
       sorting' = [sorting EXCEPT !.phase = "sorted", !.sort = sort, !.work = SortedBy(sort, sorting.keys)]

\* A key of an item, or one below or above all of them, is looked up.
CallSearch ==
  /\ sorting.phase = "sorted"
  /\ \E key \in Keys \cup {k + 1 : k \in Keys} \cup {k - 1 : k \in Keys} :
       sorting' = [sorting EXCEPT !.phase = "searched", !.key = key,
         !.at = bsearch(sorting.work.a, [key |-> key, from |-> -1], 0, Count(sorting.work))]

SortNext == CallSort \/ CallSearch

-----------------------------------------------------------------------------
(* The order the items have to end in, by counting the ones that go before.   *)

Before(items, x) ==
  {i \in DOMAIN items : items[i].key < x.key \/ (items[i].key = x.key /\ items[i].from < x.from)}

StableOrder(items) == [k \in DOMAIN items |-> CHOOSE x \in {items[i] : i \in DOMAIN items} :
                                                 Cardinality(Before(items, x)) = k]

\* Every sort leaves a permutation of the items in ascending order, and all but
\* the heapsort keep equal items in the order they were given in.
SortsRight ==
  sorting.phase # "idle" /\ sorting.phase # "given" =>
    LET items == Items(sorting.keys)
        right == StableOrder(items)
        a == sorting.work.a
    IN /\ DOMAIN a = DOMAIN items
       /\ \A k \in DOMAIN a : a[k].key = right[k].key
       /\ {a[k] : k \in DOMAIN a} = {items[k] : k \in DOMAIN items}
       /\ sorting.sort # "heap" => a = right

\* The most the comments of the sources allow for 1, 2, ... items: less than
\* 3 n log2 n comparisons of the heapsort, less than n/2 (log2 n)^2 comparisons
\* (0.5308 n (log2 n)^2 with the shortcut) and 3n/4 (log2 n)^2 swaps of the merge
\* sort, 1 and 1 for two items, and the depth its recursion may reach.
HeapMost   == <<0, 5, 14, 23, 34, 46, 58>>
MergeMost  == <<0, 1, 3, 7, 13, 20, 27>>
ShortMost  == <<0, 1, 4, 8, 14, 21, 29>>
SwapMost   == <<0, 1, 5, 11, 20, 30, 41>>
DepthMost  == <<0, 1, 2, 3, 4, 5, 6>>

Ascending(keys) == \A i, j \in DOMAIN keys : i < j => keys[i] <= keys[j]

\* The work stays within what the comments of the sources promise: the
\* comparisons and swaps of each sort, and the depth of the recursion that the
\* stack space stated for the merge sort rests on.
WorkBounded ==
  LET n == Cardinality(DOMAIN sorting.keys)
      w == sorting.work
  IN n > 0 =>
       /\ sorting.sort = "insertion" => w.cmps <= (n * (n - 1)) \div 2 /\ w.swaps <= (n * (n - 1)) \div 2
       /\ sorting.sort = "heap" => w.cmps <= HeapMost[n] /\ w.swaps <= HeapMost[n]
       /\ sorting.sort = "stable" => w.cmps <= MergeMost[n]
       /\ sorting.sort = "shortcut" => w.cmps <= ShortMost[n]
       /\ sorting.sort \in {"stable", "shortcut"} => w.swaps <= SwapMost[n] /\ w.depth <= DepthMost[n]
       /\ sorting.sort = "shortcut" /\ Ascending(sorting.keys) => w.cmps = n - 1 /\ w.swaps = 0

\* bsearch finds an item with the key exactly when there is one.
SearchFinds ==
  sorting.phase = "searched" =>
    LET a == sorting.work.a
        same == {k \in DOMAIN a : a[k].key = sorting.key}
    IN IF same = {} THEN sorting.at = -1 ELSE sorting.at \in same

\* The sorts sort, within their work, and the search finds what they have sorted.
SortingRight == SortsRight /\ WorkBounded /\ SearchFinds

=============================================================================
