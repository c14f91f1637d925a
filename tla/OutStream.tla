----------------------------- MODULE OutStream -----------------------------
(***************************************************************************)
(* What an output stream promises, whatever buffering it does: the bytes   *)
(* it accepts, numbered as they come, reach the file in that order, each   *)
(* at most once and at the current file position; at most Capacity of them *)
(* wait; and if one is dropped, all that wait are, so that no byte         *)
(* overtakes an older one that is still going to be written.               *)
(***************************************************************************)
EXTENDS KernelFile

CONSTANTS
  Capacity,   \* the most bytes that may wait
  MaxNew      \* bound: bytes accepted in one step

VARIABLES
  disk,       \* the content of the file
  at,         \* the position of the next byte that is written
  append,     \* does every write go to the end of the file?
  pending,    \* accepted and not yet written
  accepted    \* the number of bytes accepted since the stream was opened

vars == <<disk, at, append, pending, accepted>>

Init ==
  /\ disk = <<>> /\ at = 0 /\ append \in BOOLEAN
  /\ pending = <<>> /\ accepted = 0

\* k of the bytes q are written where the stream stands.
Emit(q, k) ==
  LET from == IF append /\ k > 0 THEN Len(disk) ELSE at IN
  /\ disk' = PutAt(disk, from, SubSeq(q, 1, k))
  /\ at' = from + k

\* n bytes are accepted; the k oldest of those that wait are written; the
\* others go on waiting, or all of them are dropped.
Write ==
  \E n \in 0..MaxNew :
    LET q == pending \o [i \in 1..n |-> accepted + i] IN
    \E k \in 0..Len(q) :
      /\ Emit(q, k)
      /\ \/ pending' = SubSeq(q, k + 1, Len(q)) /\ Len(pending') <= Capacity
         \/ pending' = <<>>
      /\ accepted' = accepted + n
      /\ UNCHANGED append

\* The stream moves, once all that waits has been written.
Seek ==
  LET from == IF append /\ pending # <<>> THEN Len(disk) ELSE at IN
  /\ disk' = PutAt(disk, from, pending)
  /\ at' \in Nat
  /\ pending' = <<>>
  /\ UNCHANGED <<append, accepted>>

\* The stream is opened again, on an empty file.
Open ==
  /\ disk' = <<>> /\ at' = 0 /\ append' \in BOOLEAN
  /\ pending' = <<>> /\ accepted' = 0

Next == Write \/ Seek \/ Open

Spec == Init /\ [][Next]_vars
=============================================================================
