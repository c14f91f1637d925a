------------------------------ MODULE Allocator ------------------------------
(***************************************************************************)
(* What malloc, calloc, realloc and free promise: the blocks a program     *)
(* holds are disjoint, and what it has stored in one stays there until it  *)
(* stores something else or frees the block.                               *)
(***************************************************************************)
EXTENDS Integers

CONSTANTS
  Sizes,     \* the sizes a program asks for
  Contents   \* what a block can hold

VARIABLES
  size,      \* for every block the program holds: the bytes it may use
  content    \* and what it has stored there

vars == <<size, content>>

Init == size = [p \in {} |-> 0] /\ content = [p \in {} |-> 0]

Held == DOMAIN size

\* n bytes from p on are clear of the blocks other than those of Except.
Clear(p, n, Except) ==
  \A q \in Held \ Except : p + n <= q \/ q + size[q] <= p

\* Block p is given out; calloc's is zero, the content of malloc's is open.
Alloc ==
  \E p \in DOMAIN size' \ Held :
    /\ size' = [q \in Held \union {p} |-> IF q = p THEN size'[p] ELSE size[q]]
    /\ content' = [q \in Held \union {p} |-> IF q = p THEN content'[p] ELSE content[q]]
    /\ size'[p] \in Sizes /\ Clear(p, size'[p], {})
    /\ content'[p] \in {"any", "zero"}

Free ==
  \E p \in Held :
    /\ size' = [q \in Held \ {p} |-> size[q]]
    /\ content' = [q \in Held \ {p} |-> content[q]]

\* A block grows or shrinks, in place or by moving; its content goes with it.
Resize ==
  \E p \in Held, q \in DOMAIN size' :
    /\ q = p \/ q \notin Held
    /\ size' = [r \in (Held \ {p}) \union {q} |-> IF r = q THEN size'[q] ELSE size[r]]
    /\ content' = [r \in (Held \ {p}) \union {q} |-> IF r = q THEN content[p] ELSE content[r]]
    /\ size'[q] \in Sizes /\ Clear(q, size'[q], {p})

Store ==
  \E p \in Held, c \in Contents :
    content' = [content EXCEPT ![p] = c] /\ UNCHANGED size

Next == Alloc \/ Free \/ Resize \/ Store

Spec == Init /\ [][Next]_vars
=============================================================================
